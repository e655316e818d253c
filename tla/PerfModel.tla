------------------------------ MODULE PerfModel -----------------------------
(***************************************************************************)
(* The performance model of the core (perf-model/model.py): it replays a   *)
(* trace of retired instructions and computes in which cycle the core      *)
(* would have issued and retired each of them.  A cycle of the code is     *)
(* Model.run_cycle: retire on every commit port, let the scoreboard age,   *)
(* issue on every issue port, fetch.  Every call of it is one step here.   *)
(*                                                                         *)
(* The trace is an execution of the program "code"; its next instruction,  *)
(* the only one the code looks at, is chosen when the one before is        *)
(* issued.  Time only enters as the age of the last issue.                 *)
(***************************************************************************)
EXTENDS Integers, Sequences, FiniteSets

CONSTANTS Models,     \* the arguments of Model() and the programs to replay
          MaxTrace,   \* the longest trace
          BhtEntries, \* size of the branch history table
          RasDepth,   \* argument of Ras(); the stack has one place less
          NoInstr     \* the end of the trace, and "None" of the code

ASSUME PerfAssumption == {MaxTrace, BhtEntries, RasDepth} \subseteq Nat \ {0}

\* the core can retire, and its scoreboard hold, an instruction; fetch blocks
\* have up to 16 bytes; addresses and sizes are those of the ISA with the C
\* extension
ASSUME ReplayAssumption ==
  \A m \in Models :
    /\ m.fetch_size \in 0 .. 16 /\ {m.issue, m.commit, m.sb_len} \subseteq Nat \ {0}
    /\ \A i \in m.code : i.addr \in Nat /\ i.addr % 2 = 0 /\ i.size \in {2, 4}

VARIABLES
  model,          \* the element of Models that is run
  phase, port,    \* the call of run_cycle that is next, and for which port
  head, left,     \* instr_queue: its first instruction, how many may follow
  scoreboard,     \* entries in program order
  last_issued, last_committed,
  fus,            \* FusBusy: units taken in this cycle
  iq,             \* IqLen
  ras,            \* Ras: the stack and the address dropped last
  bht,            \* Bht.contents
  events,         \* BMISS and BHIT events of head
  calls,          \* history: the calls of the trace that have not returned
  fetched         \* history: what a queue of fetch blocks would hold

vars == <<model, phase, port, head, left, scoreboard, last_issued,
          last_committed, fus, iq, ras, bht, events, calls, fetched>>

-----------------------------------------------------------------------------
(* Instructions, as isa.py classifies them *)

is_branch(i)  == i.kind = "branch"
is_jump(i)    == i.kind \in {"jump", "call"}
is_regjump(i) == i.kind \in {"regcall", "ret", "coret"}
is_call(i)    == i.kind \in {"call", "regcall", "coret"}
is_ret(i)     == i.kind \in {"ret", "coret"}
is_store(i)   == i.kind = "store"

Kinds == {"alu", "mul", "load", "store",
          "branch", "jump", "call", "regcall", "ret", "coret"}

next_addr(i) == i.addr + i.size

has_RAW_from(b, a) == a.rd # 0 /\ a.rd \in b.rs
has_WAW_from(b, a) == a.rd # 0 /\ a.rd = b.rd

duration(i) == IF i.kind \in {"load", "store", "mul"} THEN 2 ELSE 1

to_fu(i) ==
  CASE is_branch(i) \/ is_regjump(i) -> "BRANCH"
    [] i.kind = "mul"                -> "MUL"
    [] i.kind = "load"               -> "LDU"
    [] i.kind = "store"              -> "STU"
    [] OTHER                         -> "ALU"

-----------------------------------------------------------------------------
(* FusBusy *)

alu2_ready == model.issue > 1 /\ ~fus.alu2

is_ready_for(i) ==
  CASE to_fu(i) = "ALU"    -> alu2_ready \/ ~fus.alu
    [] to_fu(i) = "MUL"    -> ~fus.mul
    [] to_fu(i) = "BRANCH" -> ~fus.branch
    [] to_fu(i) = "LDU"    -> ~fus.ldu
    [] to_fu(i) = "STU"    -> ~fus.stu

Take(units) == [u \in DOMAIN fus |-> fus[u] \/ u \in units]

FusIssue(i) ==
  Take(CASE to_fu(i) = "ALU"    -> IF alu2_ready THEN {"alu2"}
                                                 ELSE {"alu", "branch"}
         [] to_fu(i) = "MUL"    -> {"mul", "issued_mul"}
         [] to_fu(i) = "BRANCH" -> {"alu", "branch", "stu"}
         [] OTHER               -> {"ldu", "stu"})

FusInit ==
  [u \in {"alu", "mul", "branch", "ldu", "stu", "alu2", "issued_mul"}
     |-> FALSE]

\* Mutant: the cycle after a multiplication is not kept free
FusCycle_Free == FusInit

FusCycle ==
  [FusInit EXCEPT !.alu = fus.issued_mul, !.branch = fus.issued_mul]

\* The write-back port an instruction that issues now will use: the ALU and
\* the branch unit share one with the multiplier, which keeps them free in
\* FusBusy.cycle; the second ALU has its own.
WbPort(i) ==
  CASE i.kind \in {"load", "store"}          -> "LSU"
    [] to_fu(i) = "ALU" /\ alu2_ready        -> "ALU2"
    [] OTHER                                 -> "FLU"

-----------------------------------------------------------------------------
(* IqLen: an instruction queue that only counts bytes *)

\* IqLen.__init__: the next power of two, at least 4
fetch_size ==
  CHOOSE n \in {4, 8, 16} : /\ n >= model.fetch_size
                            /\ \A m \in {4, 8, 16} : m >= model.fetch_size
                                                       => n <= m

addr_index(a) == a % fetch_size

is_crossword(i) == addr_index(i.addr) = fetch_size - 2 /\ i.size = 4

\* Mutant: a difference below 0 is not brought back into the block
Truncate_NoWrap(n, index) ==
  n - (index - (fetch_size - addr_index(n)))

Truncate(n, index) ==
  LET to_remove == index - (fetch_size - addr_index(n))
  IN  n - (IF to_remove < 0 THEN to_remove + fetch_size ELSE to_remove)

Fetch(q) == [len |-> q.len + fetch_size, new_fetch |-> TRUE]

Flush(q) == [len |-> 0, new_fetch |-> FALSE]

Jump(q) ==
  [len |-> Truncate(IF q.new_fetch THEN q.len - fetch_size ELSE q.len, 0),
   new_fetch |-> FALSE]

Has(q, i) ==
  q.len - (IF is_crossword(i) THEN fetch_size - 2 ELSE 0) >= i.size

Remove(q, i) ==
  LET r == [q EXCEPT !.len = Truncate(@ - i.size, addr_index(next_addr(i)))]
  IN  IF is_jump(i) THEN Jump(r) ELSE r

-----------------------------------------------------------------------------
(* Ras and Bht *)

\* Mutant: a full stack forgets its youngest address
Push_Newest(s, a) == IF Len(s) < RasDepth - 1 THEN Append(s, a) ELSE s

Push(s, a) ==
  LET t == Append(s, a) IN IF Len(t) > RasDepth - 1 THEN Tail(t) ELSE t

Drop(r) ==
  IF r.stack = <<>>
  THEN [r EXCEPT !.last_dropped = NoInstr]
  ELSE [stack |-> SubSeq(r.stack, 1, Len(r.stack) - 1),
        last_dropped |-> r.stack[Len(r.stack)]]

RasResolve(i) ==
  LET r == IF is_ret(i) THEN Drop(ras) ELSE ras
  IN  IF is_call(i) THEN [r EXCEPT !.stack = Push(@, next_addr(i))] ELSE r

BhtIndex(a) == (a \div 2) % BhtEntries

\* Mutant: the counter does not saturate
Counted_NoLimit(n, taken) == IF taken THEN n + 1 ELSE n - 1

Counted(n, taken) ==
  CASE taken /\ n < 3  -> n + 1
    [] ~taken /\ n > 0 -> n - 1
    [] OTHER           -> n

BhtResolve(a, taken) ==
  [bht EXCEPT ![BhtIndex(a)] =
     [valid |-> TRUE, sat_counter |-> Counted(@.sat_counter, taken)]]

predict_branch(i) ==
  LET e == bht[BhtIndex(i.addr)]
  IN  IF e.valid THEN e.sat_counter >= 2 ELSE i.target < i.addr

predict_regjump(i) ==
  IF is_ret(i) /\ ras.last_dropped # NoInstr THEN ras.last_dropped ELSE 0

predict_pc(i) ==
  IF is_branch(i)
  THEN IF predict_branch(i) THEN i.target ELSE next_addr(i)
  ELSE predict_regjump(i)

-----------------------------------------------------------------------------
(* What a queue of fetch blocks would do: "blocks" blocks from the one of  *)
(* the next instruction on, consumed up to offset "at".  A redirection     *)
(* drops the rest of the block it leaves, and the block that was being     *)
(* fetched behind it.                                                      *)

BlocksFlush == [blocks |-> 0, at |-> 0]

BlocksJump(f, new_fetch) ==
  [blocks |-> f.blocks - (IF new_fetch THEN 1 ELSE 0)
                       - (IF f.at # 0 THEN 1 ELSE 0),
   at |-> 0]

BlocksRemove(f, i, new_fetch) ==
  LET end == addr_index(i.addr) + i.size
      r   == [blocks |-> f.blocks - (end \div fetch_size),
              at     |-> end % fetch_size]
  IN  IF is_jump(i) THEN BlocksJump(r, new_fetch) ELSE r

BlocksNeeded(i) == IF is_crossword(i) THEN 2 ELSE 1

-----------------------------------------------------------------------------
(* The trace *)

\* where the program may go after i
Successors(i) ==
  CASE is_branch(i)            -> {i.target, next_addr(i)}
    [] is_ret(i)               -> IF calls = <<>> THEN {}
                                                  ELSE {calls[Len(calls)]}
    [] is_jump(i) \/ (is_call(i) /\ ~is_ret(i)) -> {i.target}
    [] OTHER                   -> {next_addr(i)}

Following(i) == {n \in model.code : n.addr \in Successors(i)}

\* the trace ends when the program does, or after MaxTrace instructions
Trace(i) ==
  IF left = 0 \/ Following(i) = {} THEN {NoInstr} ELSE Following(i)

CallsAfter(i) ==
  LET c == IF is_ret(i) /\ calls # <<>>
           THEN SubSeq(calls, 1, Len(calls) - 1) ELSE calls
  IN  IF is_call(i) THEN Append(c, next_addr(i)) ELSE c

-----------------------------------------------------------------------------
(* Model *)

NoIssue == [instr |-> NoInstr, age |-> 0]

\* the penalty of a wrong prediction, in cycles
Resolved == 6

PerfInit ==
  /\ model \in Models
  /\ phase = "cycle" /\ port = 0
  /\ head \in {i \in model.code : \A j \in model.code : i.addr <= j.addr}
  /\ left = MaxTrace - 1
  /\ scoreboard = <<>> /\ last_issued = NoIssue /\ last_committed = NoInstr
  /\ fus = FusInit
  /\ iq = [len |-> fetch_size, new_fetch |-> TRUE]
  /\ ras = [stack |-> <<>>, last_dropped |-> NoInstr]
  /\ bht = [k \in 0 .. BhtEntries - 1 |-> [valid |-> FALSE, sat_counter |-> 0]]
  /\ events = {} /\ calls = <<>>
  /\ fetched = [blocks |-> 1, at |-> 0]

\* the next port of a loop over n ports, or the call after the loop
NextPort(n, after) ==
  IF port + 1 < n THEN phase' = phase /\ port' = port + 1
                  ELSE phase' = after /\ port' = 0

traceVars == <<head, left, events, calls>>
issueVars == <<last_issued, iq, ras, fetched>>

\* run, run_cycle: the loop ends when nothing is left
StartCycle ==
  /\ phase = "cycle"
  /\ head # NoInstr \/ scoreboard # <<>>
  /\ fus' = FusCycle
  /\ phase' = "commit" /\ port' = 0
  /\ UNCHANGED <<model, scoreboard, last_committed, bht, traceVars, issueVars>>

can_commit ==
  /\ scoreboard # <<>>
  /\ ~(port > 0 /\ is_store(Head(scoreboard).instr))
  /\ Head(scoreboard).done

\* try_commit and commit_manage_last_branch
Commit ==
  /\ phase = "commit" /\ can_commit
  /\ LET i == Head(scoreboard).instr
         l == last_committed
     IN  /\ last_committed' = i
         /\ bht' = IF l # NoInstr /\ is_branch(l)
                   THEN BhtResolve(l.addr, i.addr # next_addr(l)) ELSE bht
  /\ scoreboard' = Tail(scoreboard)
  /\ NextPort(model.commit, "execute")
  /\ UNCHANGED <<model, fus, traceVars, issueVars>>

CommitNothing ==
  /\ phase = "commit" /\ ~can_commit
  /\ NextPort(model.commit, "execute")
  /\ UNCHANGED <<model, scoreboard, last_committed, fus, bht, traceVars,
                 issueVars>>

\* try_execute
Execute ==
  /\ phase = "execute"
  /\ scoreboard' =
       [k \in DOMAIN scoreboard |->
          LET e == scoreboard[k]
              c == e.cycles_since_issue + 1
          IN  [e EXCEPT !.cycles_since_issue = c,
                        !.done = @ \/ c = duration(e.instr)]]
  /\ phase' = "issue" /\ port' = 0
  /\ UNCHANGED <<model, last_committed, fus, bht, traceVars, issueVars>>

\* try_issue returns at once
blocked == head = NoInstr \/ Len(scoreboard) >= model.sb_len

IssueNothing ==
  /\ phase = "issue" /\ blocked
  /\ NextPort(model.issue, "fetch")
  /\ UNCHANGED <<model, scoreboard, last_committed, fus, bht, traceVars,
                 issueVars>>

find_data_hazards ==
  \E k \in DOMAIN scoreboard :
     LET e == scoreboard[k]
     IN  \/ has_WAW_from(head, e.instr) /\ ~model.has_renaming
         \/ has_RAW_from(head, e.instr) /\ ~(model.has_forwarding /\ e.done)

\* issue_manage_last_branch
predicted == /\ last_issued.instr # NoInstr
             /\ is_branch(last_issued.instr) \/ is_regjump(last_issued.instr)

bmiss == predict_pc(last_issued.instr) # head.addr

\* Mutant: a wrong prediction is never resolved
flushes_Always == predicted /\ bmiss

flushes == predicted /\ bmiss /\ last_issued.age < Resolved

outcome == IF ~predicted THEN {} ELSE IF bmiss THEN {"BMISS"} ELSE {"BHIT"}

\* a branch that was rightly predicted as taken was like a jump
jumps == /\ predicted /\ ~bmiss /\ "BHIT" \notin events
         /\ head.addr # next_addr(last_issued.instr)

iq_managed == CASE flushes -> Flush(iq) [] jumps -> Jump(iq) [] OTHER -> iq

fetched_managed ==
  CASE flushes -> BlocksFlush
    [] jumps   -> BlocksJump(fetched, iq.new_fetch)
    [] OTHER   -> fetched

can_issue == /\ ~find_data_hazards
             /\ is_ready_for(head)
             /\ Has(iq_managed, head)

\* try_issue
Issue ==
  /\ phase = "issue" /\ ~blocked /\ can_issue
  /\ iq' = Remove(iq_managed, head)
  /\ fetched' = BlocksRemove(fetched_managed, head, iq_managed.new_fetch)
  /\ scoreboard' = Append(scoreboard, [instr |-> head, done |-> FALSE,
                                       cycles_since_issue |-> 0,
                                       wb |-> WbPort(head)])
  /\ fus' = FusIssue(head)
  /\ last_issued' = [instr |-> head, age |-> 0]
  /\ ras' = RasResolve(head)
  /\ calls' = CallsAfter(head)
  /\ head' \in Trace(head)
  /\ left' = IF head' = NoInstr THEN 0 ELSE left - 1
  /\ events' = {}
  /\ NextPort(model.issue, "fetch")
  /\ UNCHANGED <<model, last_committed, bht>>

IssueStalls ==
  /\ phase = "issue" /\ ~blocked /\ ~can_issue
  /\ iq' = iq_managed /\ fetched' = fetched_managed
  /\ events' = events \cup outcome
  /\ NextPort(model.issue, "fetch")
  /\ UNCHANGED <<model, scoreboard, last_committed, fus, bht, last_issued, ras,
                 head, left, calls>>

FetchBlock ==
  /\ phase = "fetch"
  /\ iq' = Fetch(iq)
  /\ fetched' = [fetched EXCEPT !.blocks = @ + 1]
  /\ last_issued' =
       [last_issued EXCEPT !.age = IF @ < Resolved THEN @ + 1 ELSE @]
  /\ phase' = "cycle" /\ port' = 0
  /\ UNCHANGED <<model, scoreboard, last_committed, fus, bht, ras, traceVars>>

PerfNext ==
  \/ StartCycle
  \/ Commit \/ CommitNothing
  \/ Execute
  \/ Issue \/ IssueNothing \/ IssueStalls
  \/ FetchBlock

\* the loop of run() is never interrupted
PerfSpec == PerfInit /\ [][PerfNext]_vars /\ WF_vars(PerfNext)

-----------------------------------------------------------------------------
(* Properties *)

\* No two instructions finish in one cycle on the same write-back port, so
\* the schedule needs no more ports than the core has ("we do not have more
\* write-back ports than currently with F").  Multiplications take two
\* cycles and operations of the ALU one: FusBusy.cycle keeps the ALU free.
OnePerPort ==
  \A j, k \in DOMAIN scoreboard :
     LET d == scoreboard[j]
         e == scoreboard[k]
     IN  (j # k /\ d.wb = e.wb) =>
           d.cycles_since_issue - duration(d.instr)
             # e.cycles_since_issue - duration(e.instr)

\* The byte counter is as good as the queue it stands for: IqLen.has says yes
\* exactly if a queue of fetch blocks holds the block, or the two blocks, of
\* the next instruction, after any sequence of fetches, jumps, flushes and
\* instructions of both sizes.
HasExact ==
  (phase = "issue" /\ ~blocked) =>
    (Has(iq_managed, head) <=> fetched_managed.blocks >= BlocksNeeded(head))

\* A return is never predicted to go to a wrong place: if the stack still has
\* an address for it, that is where the trace goes on.  Deep calls only cost
\* the oldest addresses.
ReturnsPredictedRight ==
  (/\ head # NoInstr /\ last_issued.instr # NoInstr
   /\ is_ret(last_issued.instr) /\ ras.last_dropped # NoInstr)
    => ~bmiss

\* Every run ends: whatever stalls the issue of an instruction (operands,
\* units, the queue, a wrong prediction, a full scoreboard) passes.
TraceRetires == <>(head = NoInstr /\ scoreboard = <<>>)
=============================================================================
