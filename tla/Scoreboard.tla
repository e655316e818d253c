---------------------------- MODULE Scoreboard ------------------------------
(***************************************************************************)
(* The scoreboard (core/scoreboard.sv): the ring of instructions that were *)
(* issued and not yet retired.  Instructions are written at the issue      *)
(* pointer, marked valid by a write-back port that names their slot, and   *)
(* leave at the commit pointers, one per commit port.  A step is one clock *)
(* cycle and the parameters of SbCycle are its input ports.  BackEnd.tla   *)
(* connects them; here they obey only the assertions of the source.        *)
(***************************************************************************)
EXTENDS Integers, Sequences, FiniteSets

CONSTANTS NR_SB_ENTRIES,   \* slots; 2 ** TRANS_ID_BITS
          NrIssuePorts,    \* 2 in the superscalar configurations, else 1
          NrCommitPorts,   \* 1 or 2
          NrWbPorts,       \* write-back ports: one per group of functional units
          Instr            \* what decode hands over: fu, rd, operation, ...

ASSUME ScoreboardAssumption ==
  /\ NR_SB_ENTRIES \in Nat /\ NR_SB_ENTRIES > 1
  /\ NrIssuePorts \in 1 .. 2
  /\ NrCommitPorts \in 1 .. 2
  /\ NrWbPorts \in Nat
  /\ Instr # {}

VARIABLES mem,             \* slot -> entry (mem_q)
          issue_pointer,
          commit_pointer   \* commit port -> slot

scoreboardVars == << mem, issue_pointer, commit_pointer >>

Slots       == 0 .. NR_SB_ENTRIES - 1
CommitPorts == 0 .. NrCommitPorts - 1

Entry == [issued : BOOLEAN, cancelled : BOOLEAN, valid : BOOLEAN, ex : BOOLEAN,
          instr : Instr]

\* What a slot that is not issued holds is never looked at: every reader asks
\* for `issued' or for `valid', which are cleared together.
FreeEntry == [issued |-> FALSE, cancelled |-> FALSE, valid |-> FALSE, ex |-> FALSE,
              instr |-> CHOOSE n \in Instr : TRUE]

\* pointers are TRANS_ID_BITS wide: they wrap
Plus(p, k) == IF p + k >= NR_SB_ENTRIES THEN p + k - NR_SB_ENTRIES ELSE p + k

ScoreboardInit ==
  /\ mem = [i \in Slots |-> FreeEntry]
  /\ issue_pointer = 0
  /\ commit_pointer = [p \in CommitPorts |-> 0]

-----------------------------------------------------------------------------
(***************************************************************************)
(* Outputs.                                                                *)
(***************************************************************************)
still_issued(i) == mem[i].issued /\ ~mem[i].cancelled

\* port 1 needs the slots of two instructions: they are neighbours, so one is
\* even and one is odd
issue_full(p) ==
  IF p = 0 THEN \A i \in Slots : mem[i].issued
  ELSE \E parity \in 0 .. 1 : \A i \in Slots : i % 2 = parity => mem[i].issued

commit_instr(p) == mem[commit_pointer[p]]

-----------------------------------------------------------------------------
(***************************************************************************)
(* One clock cycle.  `new' are the entries written this cycle, in port     *)
(* order; `wb' the write-backs [tid, ex]; `cancel' the slots cancelled on  *)
(* a branch miss, none or one; `ack' the commit ports that retire their    *)
(* instruction; `flush' empties the scoreboard.                            *)
(***************************************************************************)
\* an instruction that decode marked with an exception or an interrupt: it goes
\* to no functional unit (fu NONE) and its entry is valid from the start
Trapped(n) == n.kind = "trap"

NewEntry(n) == [issued |-> TRUE, cancelled |-> FALSE, valid |-> Trapped(n),
                ex |-> Trapped(n), instr |-> n]

Written(i, new) ==
  IF Len(new) > 0 /\ i = issue_pointer THEN new[1]
  ELSE IF Len(new) > 1 /\ i = Plus(issue_pointer, 1) THEN new[2]
  ELSE mem[i]

Retired(i, ack) == \E p \in ack : i = commit_pointer[p]

\* Mutant: a write-back does not ask whether the slot is issued.
EntryNext_AnySlot(i, new, wb, cancel, ack, flush) ==
  LET e   == Written(i, new)
      own == {w \in wb : w.tid = i}
  IN  IF flush \/ Retired(i, ack)
      THEN FreeEntry
      ELSE [issued |-> e.issued,
            cancelled |-> e.cancelled \/ i \in cancel,
            valid |-> e.valid \/ own # {},
            ex |-> e.ex \/ \E w \in own : w.ex,
            instr |-> e.instr]

EntryNext(i, new, wb, cancel, ack, flush) ==
  LET e   == Written(i, new)
      own == {w \in wb : w.tid = i /\ mem[i].issued}
  IN  IF flush \/ Retired(i, ack)
      THEN FreeEntry
      ELSE [issued |-> e.issued,
            cancelled |-> e.cancelled \/ i \in cancel,
            valid |-> e.valid \/ own # {} \/ (mem[i].issued /\ Trapped(mem[i].instr)),
            ex |-> e.ex \/ \E w \in own : w.ex,
            instr |-> e.instr]

num_commit(ack) == (IF 0 \in ack THEN 1 ELSE 0) + (IF 1 \in ack THEN 1 ELSE 0)

\* Mutant: each commit pointer advances on its own.
PointersNext_Separate(new, ack, flush) ==
  /\ issue_pointer' = IF flush THEN 0 ELSE Plus(issue_pointer, Len(new))
  /\ commit_pointer' = [p \in CommitPorts |->
                          IF flush THEN 0
                          ELSE Plus(commit_pointer[p], num_commit(ack))]

\* Mutant: a flush empties the slots and leaves the issue pointer where it is.
PointersNext_FlushKeepsIssue(new, ack, flush) ==
  /\ issue_pointer' = Plus(issue_pointer, Len(new))
  /\ commit_pointer' = [p \in CommitPorts |->
                          IF flush THEN 0
                          ELSE Plus(Plus(commit_pointer[0], num_commit(ack)), p)]

\* after a flush both commit ports point to slot 0, for one cycle
PointersNext(new, ack, flush) ==
  /\ issue_pointer' = IF flush THEN 0 ELSE Plus(issue_pointer, Len(new))
  /\ commit_pointer' = [p \in CommitPorts |->
                          IF flush THEN 0
                          ELSE Plus(Plus(commit_pointer[0], num_commit(ack)), p)]

SbCycle(new, wb, cancel, ack, flush) ==
  /\ mem' = [i \in Slots |-> EntryNext(i, new, wb, cancel, ack, flush)]
  /\ PointersNext(new, ack, flush)

(***************************************************************************)
(* What the ports may do: an instruction is acknowledged to decode only    *)
(* while its port has room, port 1 only with port 0 (decoded_instr_ack_o); *)
(* only valid instructions are retired, in order (the assertions at the end*)
(* of the source); the slot cancelled is the one behind the branch.  Any   *)
(* slot may be named by a write-back: it may belong to an instruction that *)
(* was flushed.                                                            *)
(***************************************************************************)
PortContract(new, cancel, ack) ==
  /\ Len(new) > 0 => ~issue_full(0)
  /\ Len(new) > 1 => ~issue_full(1)
  /\ \A p \in ack : commit_instr(p).valid
  /\ 1 \in ack => 0 \in ack
  /\ \A i \in cancel : \E j \in Slots : /\ mem[j].issued
                                      /\ i = Plus(j, 1) /\ i # issue_pointer

Arrivals == UNION {[1 .. k -> {NewEntry(n) : n \in Instr}] : k \in 0 .. NrIssuePorts}

\* what the write-back ports may say in a cycle
WriteBacks == {{port[k] : k \in 1 .. n} : port \in [1 .. NrWbPorts -> [tid : Slots, ex : BOOLEAN]],
                                         n \in 0 .. NrWbPorts}

ScoreboardNext ==
  \E new \in Arrivals, wb \in WriteBacks, cancel \in {{}} \union {{i} : i \in Slots},
     ack \in SUBSET CommitPorts, flush \in BOOLEAN :
    /\ PortContract(new, cancel, ack)
    /\ SbCycle(new, wb, cancel, ack, flush)

ScoreboardSpec == ScoreboardInit /\ [][ScoreboardNext]_scoreboardVars

-----------------------------------------------------------------------------
(***************************************************************************)
(* Properties.                                                             *)
(***************************************************************************)
\* Slots hold entries and the issue and commit pointers are slots: the sums of
\* scoreboard.sv wrap at NR_SB_ENTRIES.
ScoreboardTypeOK ==
  /\ mem \in [Slots -> Entry]
  /\ issue_pointer \in Slots
  /\ commit_pointer \in [CommitPorts -> Slots]

\* distance of slot i from the oldest instruction
Dist(i) == IF i >= commit_pointer[0] THEN i - commit_pointer[0]
                                     ELSE i + NR_SB_ENTRIES - commit_pointer[0]

\* instructions in flight: equal pointers mean empty or full
occupancy ==
  IF ~mem[commit_pointer[0]].issued THEN 0
  ELSE IF issue_pointer > commit_pointer[0] THEN issue_pointer - commit_pointer[0]
  ELSE issue_pointer + NR_SB_ENTRIES - commit_pointer[0]

\* The issued bits, which alone decide whether there is room (issue_full), and
\* the pointers, which decide where instructions are written and read, describe
\* the same window, whatever issue, retirement and flush coincide; a slot
\* outside of it is never valid or cancelled, whatever the write-back ports and
\* the branch unit say.
WindowConsistent ==
  /\ \A i \in Slots : mem[i].issued <=> Dist(i) < occupancy
  /\ ~mem[commit_pointer[0]].issued => issue_pointer = commit_pointer[0]
  /\ \A i \in Slots : mem[i].valid \/ mem[i].cancelled => mem[i].issued

\* The two commit ports never offer the same instruction, although both point
\* to slot 0 after reset and after a flush (commit_pointer_n): by the time an
\* instruction is valid the second pointer has moved on.
CommitPortsApart ==
  \A p \in CommitPorts :
    \/ commit_pointer[p] = Plus(commit_pointer[0], p)
    \/ \A i \in Slots : ~mem[i].valid

\* The ring implements a queue of instructions in program order: none is lost,
\* overwritten, retired twice or out of order (InstructionWindow.tla).
Window == [k \in 1 .. occupancy |-> mem[Plus(commit_pointer[0], k - 1)].instr]
Queue  == INSTANCE InstructionWindow WITH window <- Window
ImplementsWindow == Queue!Spec
=============================================================================
