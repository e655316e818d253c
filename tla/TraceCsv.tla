------------------------------ MODULE TraceCsv ------------------------------
(***************************************************************************)
(* Conversion of simulation logs to instruction traces: the readers of     *)
(* Spike's log (verif/sim/cva6_spike_log_to_trace_csv.py) and of the log   *)
(* of the RTL tracer (verilator_log_to_trace_csv.py).  A log is a sequence *)
(* of lines; what the readers tell apart is whether a line matches CORE_RE *)
(* (an instruction), RD_RE (a commit) or reports an illegal instruction,   *)
(* and which address it has.                                               *)
(***************************************************************************)
EXTENDS Lists

line(kind, at, what) == [kind |-> kind, at |-> at, what |-> what]

NoInstr == [op |-> "none"]

\* an entry of RiscvInstructionTraceEntry, without disassembly of its operands
read_instr(l) == [op |-> l.what, at |-> l.at, gpr |-> << >>]

Reader == [in_trampoline |-> FALSE, in_debug |-> FALSE, instr |-> NoInstr,
           stopped |-> FALSE, out |-> << >>]

\* what reaches the csv file: entries with a commit, wfi and ecall
written(out) == Those(out, LAMBDA e : e.gpr # << >> \/ e.op \in {"wfi", "ecall"})

\* the entry in hand is yielded before the next one, at the ecall and at the end
yielded(r) == IF r.instr = NoInstr THEN r.out ELSE Append(r.out, r.instr)

\* Mutant: the entry in hand is dropped when an instruction follows it directly.
step_Dropped(r, l) ==
  CASE l.kind = "core" -> [r EXCEPT !.instr = read_instr(l), !.stopped = l.what = "ecall"]
    [] r.instr # NoInstr /\ l.kind = "illegal" ->
         [r EXCEPT !.out = Append(@, r.instr), !.instr = NoInstr]
    [] r.instr # NoInstr /\ l.kind = "commit" ->
         [r EXCEPT !.instr.gpr = Append(@, l.what)]
    [] OTHER -> r

\* The states INSTR (no instruction in hand) and EFFECT; an ecall ends both.
step(r, l) ==
  CASE l.kind = "core" ->
         [r EXCEPT !.out = yielded(r), !.instr = read_instr(l), !.stopped = l.what = "ecall"]
    [] r.instr # NoInstr /\ l.kind = "illegal" ->
         [r EXCEPT !.out = Append(@, r.instr), !.instr = NoInstr]
    [] r.instr # NoInstr /\ l.kind = "commit" ->
         [r EXCEPT !.instr.gpr = Append(@, l.what)]
    [] OTHER -> r

is_at(l, at) == l.kind = "core" /\ l.at = at

\* Spike: skip from 0x10000 to 0x10010, both included
spike_line(r, l) ==
  IF r.stopped THEN r
  ELSE CASE r.in_trampoline -> [r EXCEPT !.in_trampoline = ~is_at(l, "0x10010")]
         [] is_at(l, "0x10000") /\ ~r.in_trampoline -> [r EXCEPT !.in_trampoline = TRUE]
         [] OTHER -> step(r, l)

\* RTL: skip up to 0x80000000, which is read, and whatever the debugger runs,
\* from 0x800 to 0x890
verilator_line(r, l) ==
  IF r.stopped \/ (r.in_trampoline /\ ~is_at(l, "0x80000000")) THEN r
  ELSE CASE r.in_debug -> [r EXCEPT !.in_debug = ~is_at(l, "0x890")]
         [] is_at(l, "0x800") /\ ~r.in_debug -> [r EXCEPT !.in_debug = TRUE]
         [] OTHER -> step([r EXCEPT !.in_trampoline = FALSE], l)

process_spike_sim_log(log) == written(yielded(Loop(spike_line, Reader, log)))

process_verilator_sim_log(log) ==
  written(yielded(Loop(verilator_line, [Reader EXCEPT !.in_trampoline = TRUE], log)))

-----------------------------------------------------------------------------
(***************************************************************************)
(* The simulators.  An execution is a sequence of instructions, each with  *)
(* the registers it commits; an illegal one is reported on a line of its   *)
(* own.  Both logs print an instruction as a core line, then its effects.  *)
(***************************************************************************)
ex(at, op, effects) == [at |-> at, op |-> op, effects |-> effects]

\* the effect of an illegal instruction
Trap == "trap"

log_of(e) ==
  FlattenSeq([i \in DOMAIN e |->
    << line("core", e[i].at, e[i].op) >>
      \o [k \in DOMAIN e[i].effects |->
            IF e[i].effects[k] = Trap THEN line("illegal", e[i].at, Trap)
            ELSE line("commit", e[i].at, e[i].effects[k])]])

boot == << line("core", "0x10000", "auipc"), line("commit", "0x10000", "t0"), line("core", "0x10010", "jr") >>

spike_log(e) == boot \o log_of(e)
rtl_log(e)   == << line("core", "0x10000", "li"), line("commit", "0x10000", "s0") >> \o log_of(e)

\* the part of an execution a comparison is about: before the debugger is
\* entered and after it is left, up to the first ecall, and of that what
\* commits a register
Visible(e) ==
  LET debug(i)  == \E b \in 1 .. i : /\ e[b].at = "0x800"
                                     /\ \A x \in b .. i - 1 : e[x].at # "0x890"
      before(i) == \A j \in 1 .. i - 1 : e[j].op # "ecall" \/ debug(j)
      commits(i) == Those(e[i].effects, LAMBDA x : x # Trap)
      shown(i)  == before(i) /\ ~debug(i) /\ (commits(i) # << >> \/ e[i].op \in {"wfi", "ecall"})
      nth(i)    == IF shown(i) THEN << [op |-> e[i].op, at |-> e[i].at, gpr |-> commits(i)] >> ELSE << >>
  IN  FlattenSeq([i \in DOMAIN e |-> nth(i)])

-----------------------------------------------------------------------------
(***************************************************************************)
(* What is proved of the readers is about executions like these.           *)
(***************************************************************************)
\* An instruction traps at most once, after what it commits; an ecall and the
\* dret at the end of the debug ROM commit nothing.
Plain(e) ==
  /\ IsList(e)
  /\ \A i \in DOMAIN e :
       /\ e[i] = ex(e[i].at, e[i].op, e[i].effects)
       /\ IsList(e[i].effects)
       /\ \A k \in DOMAIN e[i].effects : e[i].effects[k] = Trap => k = Len(e[i].effects)
       /\ e[i].op = "ecall" \/ e[i].at = "0x890" => e[i].effects = << >>

\* Spike has no debugger and does not come back to the boot code.
OnSpike(e) == Plain(e) /\ \A i \in DOMAIN e : e[i].at \notin {"0x800", "0x10000"}

\* On the RTL the program begins behind the boot code.
OnRtl(e) == Plain(e) /\ (e # << >> => e[1].at = "0x80000000")
=============================================================================
