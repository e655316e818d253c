------------------------------ MODULE BackEnd -------------------------------
(***************************************************************************)
(* The pipeline from decode to commit: the ID <-> Issue register           *)
(* (core/id_stage.sv), issue and operand read, the functional units        *)
(* (core/ex_stage.sv, mult.sv, csr_buffer.sv, branch_unit.sv), the         *)
(* scoreboard, the commit stage and the controller.  A step is one clock   *)
(* cycle.  The load-store unit is seen from outside: it takes requests,    *)
(* answers them in any order and forgets them on a flush, except for the   *)
(* load result in its output register (LoadStoreUnit.tla has the inside).  *)
(*                                                                         *)
(* Data is abstracted to whether it is right: an instruction carries two   *)
(* ghost bits, `wrong' (it was fetched behind a mispredicted branch) and   *)
(* `good' (its operand was the value program order asks for).              *)
(***************************************************************************)
EXTENDS CommitStage

CONSTANT Programs   \* the programs that may run, see Workload

Kinds == {"alu", "branch", "mul", "div", "load", "store", "amo", "csr", "fence",
          "sfence", "trap"}

\* What matters of a program: the kinds of instructions it uses, and whether
\* its loads and stores may raise an exception; and the core that runs it.
Workload == [kinds : SUBSET Kinds, faults : BOOLEAN, superscalar : BOOLEAN]

ASSUME BackEndAssumption ==
  /\ Programs \subseteq Workload
  /\ \A p \in Programs : p.superscalar => NrIssuePorts = 2
  /\ ALUBypass \in BOOLEAN
  /\ Instr = [kind : Kinds, rd : 0 .. 1, wrong : BOOLEAN, good : BOOLEAN]

VARIABLES program,      \* the program that runs
          issue_q,      \* instructions in the ID <-> Issue register, one per issue port
          wrong_path,   \* ghost: what is fetched now lies behind a branch miss
          fu_q,         \* ID <-> EX registers: set of [port, unit, tid, miss]
          mul_q,        \* the pipeline register of the multiplier: none or one slot
          div_q,        \* the slot the serial divider works for
          csr_reg,      \* csr_buffer: the slot whose CSR address it holds, or none
          lsu,          \* slots of the requests in the load-store unit
          load_out      \* the output register of the load unit: set of write-backs

backVars == << program, SuperscalarEn, issue_q, wrong_path, fu_q, mul_q, div_q, csr_reg, lsu, load_out >>
vars == << scoreboardVars, backVars >>

\* an instruction in decode: what it reads, and whether it is a branch that was
\* predicted wrongly
Decoded == [kind : Kinds, rd : 0 .. 1, rs : 0 .. 1, miss : BOOLEAN, wrong : BOOLEAN]

\* rd and rs as the decoder leaves them
WellFormed(d) ==
  /\ d.kind \in {"branch", "store", "fence", "sfence", "trap"} => d.rd = 0
  /\ d.kind \in {"fence", "trap"} => d.rs = 0
  /\ d.miss => d.kind = "branch" /\ ~d.wrong

BackInit ==
  /\ program \in Programs /\ SuperscalarEn = program.superscalar
  /\ ScoreboardInit
  /\ issue_q = << >> /\ wrong_path = FALSE
  /\ fu_q = {} /\ mul_q = {} /\ div_q = {}
  /\ csr_reg = {}
  /\ lsu = {} /\ load_out = {}

-----------------------------------------------------------------------------
(***************************************************************************)
(* Execute.                                                                *)
(***************************************************************************)
In(units) == {f \in fu_q : f.unit \in units}
kind(i)   == mem[i].instr.kind

one_cycle   == In({"ALU", "CTRL_FLOW", "CSR"})
mult_valid_q == In({"MULT"}) # {}

\* one_cycle_data: the request of port 1 is preferred
one_cycle_data == CHOOSE f \in one_cycle : \A g \in one_cycle : g.port <= f.port

\* mult_valid: the multiplier goes before the divider
mult_valid(div_done) == mul_q # {} \/ (div_q # {} /\ div_done)
mult_trans_id(div_done) == IF mul_q # {} THEN mul_q ELSE div_q

flu_valid(div_done) == one_cycle # {} \/ mult_valid(div_done)

\* flu_trans_id_o: the result multiplexer of the fixed-latency units
flu_trans_id(div_done) ==
  IF In({"ALU", "CSR"}) # {} \/ ~mult_valid(div_done) THEN one_cycle_data.tid
  ELSE CHOOSE i \in mult_trans_id(div_done) : TRUE

\* resolved_branch.is_mispredict: the branch in execute was predicted wrongly
bmiss == \E f \in In({"CTRL_FLOW"}) : f.miss

\* Mutant: the instruction behind a branch miss is not cancelled.
cancelled_Never(div_done) == {}

\* the instruction issued together with the branch, if there is one
cancelled(div_done) ==
  IF SuperscalarEn /\ bmiss THEN {Plus(flu_trans_id(div_done), 1)} \ {issue_pointer} ELSE {}

csr_valid == In({"CSR"}) # {}

csr_ready(in) == ~((csr_reg # {} \/ csr_valid) /\ ~commit_csr(in))

div_valid_op == \E f \in In({"MULT"}) : kind(f.tid) = "div"

mult_ready == div_q = {} /\ ~div_valid_op

flu_ready(in) == csr_ready(in) /\ mult_ready

\* the write-backs of the cycle; `st' are those of the store unit
WriteBackPorts(div_done, st) ==
  (IF flu_valid(div_done) THEN {[tid |-> flu_trans_id(div_done), ex |-> FALSE]} ELSE {})
    \union {[tid |-> f.tid, ex |-> FALSE] : f \in In({"ALU2"})}
    \union load_out \union st

\* next states of the units
divs == {f.tid : f \in {g \in In({"MULT"}) : kind(g.tid) = "div"}}
muls == {f.tid : f \in {g \in In({"MULT"}) : kind(g.tid) = "mul"}}

MultiplierNext(flush) == IF flush THEN {} ELSE muls

SerdivNext(flush, div_done) ==
  IF flush THEN {}
  ELSE IF div_q = {} THEN divs
  ELSE IF div_done /\ mul_q = {} THEN {} ELSE div_q

\* Mutant: the CSR buffer survives a flush.
CsrBufferNext_NoFlush(flush, in) ==
  IF csr_valid THEN {one_cycle_data.tid}
  ELSE IF commit_csr(in) THEN {} ELSE csr_reg

CsrBufferNext(flush, in) ==
  IF flush THEN {}
  ELSE IF csr_valid THEN {one_cycle_data.tid}
  ELSE IF commit_csr(in) THEN {} ELSE csr_reg

\* Mutant: requests that a flush makes obsolete are still answered.
LsuNext_NoFlush(flush, done) ==
  (lsu \union {f.tid : f \in In({"LOAD", "STORE"})}) \ {w.tid : w \in done}

\* `done' are the write-backs of the requests that end in this cycle
LsuNext(flush, done) ==
  IF flush THEN {}
  ELSE (lsu \union {f.tid : f \in In({"LOAD", "STORE"})}) \ {w.tid : w \in done}

-----------------------------------------------------------------------------
(***************************************************************************)
(* What program order asks for: the youngest earlier instruction on the    *)
(* right path that writes the register, or the register file.              *)
(***************************************************************************)
Expected(rs) ==
  LET W == {i \in Slots : mem[i].issued /\ ~mem[i].instr.wrong /\ mem[i].instr.rd = rs}
  IN  IF rs = 0 \/ W = {} THEN RegFile
      ELSE CHOOSE i \in W : \A j \in W : Dist(j) <= Dist(i)

\* what the scoreboard forwards from slot i is the value the instruction will
\* write; CSR instructions and AMOs get theirs when they retire
Final(i) == /\ kind(i) \notin {"csr", "amo"}
            /\ mem[i].instr.good

Good0(q) == \/ q[1].wrong
            \/ /\ operand0(q) = Expected(q[1].rs)
               /\ operand0(q) # RegFile => Final(operand0(q))

Good1(q) ==
  LET from0 == q[2].rs # 0 /\ q[2].rs = q[1].rd /\ ~q[1].wrong
  IN  \/ q[2].wrong
      \/ from0 /\ operand1(q) = issue_pointer /\ Good0(q)
      \/ /\ ~from0 /\ operand1(q) = Expected(q[2].rs)
         /\ operand1(q) # RegFile => Final(operand1(q))

Issued(q, k) ==
  [j \in 1 .. k |-> NewEntry([kind |-> q[j].kind, rd |-> q[j].rd, wrong |-> q[j].wrong,
                              good |-> IF j = 1 THEN Good0(q) ELSE Good1(q)])]

\* the ID <-> EX registers written for the first k instructions of q
Sent(q, k, busy0) ==
  {[port |-> j - 1,
    unit |-> Unit(q, q[j], IF j = 1 THEN busy0 ELSE fus_busy1(q, busy0)),
    tid |-> Plus(issue_pointer, j - 1), miss |-> q[j].miss] :
      j \in {i \in 1 .. k : ~Trapped(q[i])}}

-----------------------------------------------------------------------------
\* the instructions of a program that may come from the front end in a cycle
RightPath == [p \in Programs |->
                {d \in Decoded : d.kind \in p.kinds /\ WellFormed(d) /\ ~d.wrong}]
WrongPath == [p \in Programs |->
                {d \in Decoded : d.kind \in p.kinds /\ WellFormed(d) /\ d.wrong}]

\* at most one per issue port; behind a branch miss the wrong path begins
FetchRight ==
  [p \in Programs |->
     {<< >>} \union {<< d >> : d \in RightPath[p]}
       \union {<< d, e >> : d \in {r \in RightPath[p] : p.superscalar /\ ~r.miss}, e \in RightPath[p]}
       \union {<< d, e >> : d \in {r \in RightPath[p] : p.superscalar /\ r.miss}, e \in WrongPath[p]}]
FetchWrong ==
  [p \in Programs |->
     {<< >>} \union {<< d >> : d \in WrongPath[p]}
       \union {<< d, e >> : d \in {w \in WrongPath[p] : p.superscalar}, e \in WrongPath[p]}]

\* what fits into `room' places of the register
Fetches(room) ==
  {f \in IF wrong_path THEN FetchWrong[program] ELSE FetchRight[program] : Len(f) <= room}

(***************************************************************************)
(* One clock cycle.  Inputs: the answers `in' to the commit stage, whether *)
(* the divider ends, which load and which store of the load-store unit     *)
(* finish and with an exception or not, and whether the unit takes another *)
(* request.  What the front end delivers is free.                          *)
(***************************************************************************)
BackCycle(in, div_done, ld, st, lsu_ready) ==
  LET wb      == WriteBackPorts(div_done, st)
      flush   == flush_id(in)
      redirect == flush \/ bmiss                 \* flush_unissued_instr, flush_if
      ready   == flu_ready(in)
      busy0   == fus_busy0(ready, lsu_ready, mult_valid_q)
      k       == IF redirect THEN 0
                 ELSE Issuable(issue_q, wb, ready, lsu_ready, mult_valid_q)
  IN  /\ UNCHANGED << program, SuperscalarEn >>
      /\ SbCycle(Issued(issue_q, k), wb, cancelled(div_done), commit_ack(in), flush)
      /\ fu_q' = Sent(issue_q, k, busy0)
      /\ mul_q' = MultiplierNext(flush)
      /\ div_q' = SerdivNext(flush, div_done)
      /\ csr_reg' = CsrBufferNext(flush, in)
      /\ lsu' = LsuNext(flush, ld \union st)
      /\ load_out' = ld
      /\ IF redirect THEN issue_q' = << >> /\ wrong_path' = FALSE
         ELSE \E fetched \in Fetches((IF SuperscalarEn THEN 2 ELSE 1) - (Len(issue_q) - k)) :
                /\ issue_q' = SubSeq(issue_q, k + 1, Len(issue_q)) \o fetched
                /\ wrong_path' = (wrong_path \/ \E j \in DOMAIN fetched : fetched[j].miss)

\* none or one request of the given kinds finishes
Finishing(kinds) ==
  {{}} \union {{[tid |-> i, ex |-> e]} : i \in {j \in lsu : kind(j) \in kinds},
                                         e \in {FALSE, program.faults}}

\* lsu_ready_i makes a difference only if a memory operation is at issue
LsuReady == IF \E j \in DOMAIN issue_q : fu(issue_q[j]) \in {"LOAD", "STORE"}
            THEN BOOLEAN ELSE {TRUE}

BackNext ==
  \E in \in Answers, div_done \in IF div_q = {} THEN {FALSE} ELSE BOOLEAN,
     ld \in Finishing({"load"}), st \in Finishing({"store", "amo"}),
     lsu_ready \in LsuReady :
    BackCycle(in, div_done, ld, st, lsu_ready)

BackSpec == BackInit /\ [][BackNext]_vars

\* A cycle in which everybody who is asked answers; what is fetched is free.
Answered ==
  \E ld \in Finishing({"load"}), st \in Finishing({"store", "amo"}) :
    /\ (\E i \in lsu : kind(i) = "load") => ld # {}
    /\ (\E i \in lsu : kind(i) \in {"store", "amo"}) => st # {}
    /\ BackCycle("go", TRUE, ld, st, TRUE)

BackFairSpec == BackSpec /\ WF_vars(Answered)

-----------------------------------------------------------------------------
(***************************************************************************)
(* Properties.                                                             *)
(***************************************************************************)
\* Whatever the commit stage retires or traps on, now and for any answers it
\* gets, is what sequential execution would retire next: an instruction of the
\* right path (exactly the wrong ones are dropped) that was computed from the
\* operand of program order, and a CSR instruction finds its own CSR address in
\* the buffer.  This is what forwarding, renaming by slot, dual issue, branch
\* speculation and the flushes together have to achieve.
CommitsAreExact ==
  \A in \in Answers :
    /\ \A p \in commit_ack(in) :
         /\ commit_instr(p).cancelled <=> commit_instr(p).instr.wrong
         /\ commit_instr(p).cancelled \/ commit_instr(p).instr.good
    /\ exception(in) => ~head.instr.wrong
    /\ commit_csr(in) /\ kind0 = "csr" => csr_reg = {commit_pointer[0]}

\* The fixed-latency units share one write-back port without an arbiter: their
\* results never meet there, whatever was issued in which order, so that no
\* result and no branch resolution is lost (flu_trans_id_o).
FluPortFree ==
  /\ Cardinality(one_cycle) <= 1
  /\ one_cycle # {} => ~mult_valid(TRUE)
  /\ Cardinality(In({"MULT"})) <= 1 /\ (div_q # {} => In({"MULT"}) = {})

\* where an instruction can be between its issue and its result
Holders(i) ==
  Cardinality({f \in fu_q : f.tid = i})
    + Cardinality({x \in 1 .. 4 : i \in CASE x = 1 -> mul_q [] x = 2 -> div_q [] x = 3 -> lsu
                                          [] x = 4 -> {w.tid : w \in load_out}})

\* Exactly the instructions without a result are in execute, each in one place:
\* no result is written twice or lost, and after a flush only a load result can
\* be left over, for a slot that is free.
ResultsAreAwaited ==
  \A i \in Slots :
    Holders(i) = IF mem[i].issued /\ ~mem[i].valid THEN 1
                 ELSE IF ~mem[i].issued /\ \E w \in load_out : w.tid = i THEN 1 ELSE 0

\* No instruction stays in the scoreboard for ever, and decode is not blocked
\* for ever: operands, units and commit ports are not waited for in a circle,
\* and no unit stays busy for an instruction that is gone.
InstructionsRetire ==
  /\ \A i \in Slots : mem[i].issued ~> ~mem[i].issued
  /\ issue_q # << >> ~> (fu_q # {} \/ issue_q = << >>)
=============================================================================
