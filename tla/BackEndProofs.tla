---------------------------- MODULE BackEndProofs ---------------------------
(***************************************************************************)
(* Proofs about the scoreboard, and about the pipeline from decode to      *)
(* commit around it, for every number of scoreboard slots, one or two      *)
(* issue and commit ports, with and without the second ALU's bypass, and   *)
(* every set of programs.                                                  *)
(*                                                                         *)
(* BkInv is inductive and stands on its own: what the scoreboard holds     *)
(* (SbInv), what the functional units hold, and how the two agree.         *)
(* GoodOK, which follows the operands, is inductive together with BkInv.   *)
(***************************************************************************)
EXTENDS BackEnd, SequenceTheorems, FiniteSetTheorems, WellFoundedInduction, TLAPS

-----------------------------------------------------------------------------
(***************************************************************************)
(* The scoreboard on its own, for every number of slots, one or two issue  *)
(* ports, one or two commit ports and any number of write-back ports.      *)
(***************************************************************************)
USE ScoreboardAssumption

\* The inductive invariant: types, the window the issued bits and the pointers
\* describe, and the second commit pointer.
SbInv == ScoreboardTypeOK /\ WindowConsistent /\ CommitPortsApart

\* the pointers in the ring, without the rest of the state
first == commit_pointer[0]

\* A slot that is not issued has a well-typed content.
LEMMA FreeEntryType ==
  FreeEntry \in Entry /\ ~FreeEntry.issued /\ ~FreeEntry.valid /\ ~FreeEntry.cancelled
BY DEF FreeEntry, Entry

\* The entry of a new instruction is issued and not cancelled.
LEMMA NewEntryType ==
  ASSUME NEW n \in Instr
  PROVE  NewEntry(n) \in Entry /\ NewEntry(n).issued /\ NewEntry(n).instr = n
BY DEF NewEntry, Entry, Trapped

\* What is issued in a cycle: at most NrIssuePorts entries of new instructions.
LEMMA ArrivalsType ==
  ASSUME NEW new \in Arrivals
  PROVE  /\ Len(new) \in 0 .. NrIssuePorts
         /\ Len(new) \in 0 .. 2
         /\ DOMAIN new = 1 .. Len(new)
         /\ \A j \in 1 .. Len(new) : /\ new[j] \in Entry
                                     /\ new[j].issued
                                     /\ new[j].instr \in Instr
<1>1. PICK k \in 0 .. NrIssuePorts : new \in [1 .. k -> {NewEntry(n) : n \in Instr}]
  BY DEF Arrivals
<1>2. Len(new) = k /\ DOMAIN new = 1 .. k
  BY <1>1
<1>4. k \in 0 .. 2
  OBVIOUS
<1>3. ASSUME NEW j \in 1 .. k
      PROVE  new[j] \in Entry /\ new[j].issued /\ new[j].instr \in Instr
  <2>1. PICK n \in Instr : new[j] = NewEntry(n)
    BY <1>1
  <2> QED
    BY <2>1, NewEntryType
<1> QED
  BY <1>2, <1>3, <1>4

\* The invariant read as arithmetic: slots are counted from the oldest
\* instruction, the issued ones come first, and the next one to be written
\* follows them.
LEMMA Shape ==
  ASSUME SbInv
  PROVE  /\ first \in Slots
         /\ occupancy \in 0 .. NR_SB_ENTRIES
         /\ issue_pointer = Plus(first, occupancy)
         /\ \A i \in Slots : /\ Dist(i) \in 0 .. NR_SB_ENTRIES - 1
                             /\ i = Plus(first, Dist(i))
                             /\ mem[i].issued <=> Dist(i) < occupancy
<1>1. 0 \in CommitPorts /\ first \in Slots /\ issue_pointer \in Slots
  BY DEF SbInv, ScoreboardTypeOK, CommitPorts, first
<1>2. occupancy \in 0 .. NR_SB_ENTRIES /\ issue_pointer = Plus(first, occupancy)
  BY <1>1 DEF SbInv, WindowConsistent, occupancy, Plus, Slots, first
<1>3. \A i \in Slots : Dist(i) \in 0 .. NR_SB_ENTRIES - 1 /\ i = Plus(first, Dist(i))
  BY <1>1 DEF Dist, Plus, Slots, first
<1> QED
  BY <1>1, <1>2, <1>3 DEF SbInv, WindowConsistent

\* After reset the window is empty.
LEMMA SbInitInv == ScoreboardInit => SbInv
<1> SUFFICES ASSUME ScoreboardInit PROVE SbInv
  OBVIOUS
<1>1. 0 \in CommitPorts /\ 0 \in Slots
  BY DEF CommitPorts, Slots
<1>2. /\ \A i \in Slots : mem[i] = FreeEntry
      /\ \A p \in CommitPorts : commit_pointer[p] = 0
      /\ issue_pointer = 0
  BY DEF ScoreboardInit
<1>3. ScoreboardTypeOK
  BY <1>1, FreeEntryType DEF ScoreboardInit, ScoreboardTypeOK
<1>4. occupancy = 0 /\ \A i \in Slots : Dist(i) \in Nat
  BY <1>1, <1>2, FreeEntryType DEF occupancy, Dist, Slots
<1>5. WindowConsistent
  BY <1>1, <1>2, <1>4, FreeEntryType DEF WindowConsistent
<1>6. CommitPortsApart
  BY <1>2, FreeEntryType DEF CommitPortsApart
<1> QED
  BY <1>3, <1>5, <1>6 DEF SbInv

\* The room check of port 0 leaves one slot free, the one of port 1 two: one
\* slot is even, the other odd.
LEMMA RoomForArrivals ==
  ASSUME SbInv, NEW new \in Arrivals,
         Len(new) > 0 => ~issue_full(0),
         Len(new) > 1 => ~issue_full(1)
  PROVE  occupancy + Len(new) <= NR_SB_ENTRIES
<1>1. Len(new) \in 0 .. 2
  BY ArrivalsType
<1>2. CASE Len(new) = 0
  BY <1>2, Shape
<1>3. CASE Len(new) = 1
  <2>1. PICK i \in Slots : ~mem[i].issued
    BY <1>3 DEF issue_full
  <2> QED
    BY <1>3, <2>1, Shape
<1>4. CASE Len(new) = 2
  <2>1. PICK i \in Slots : i % 2 = 0 /\ ~mem[i].issued
    BY <1>4 DEF issue_full
  <2>2. PICK j \in Slots : j % 2 = 1 /\ ~mem[j].issued
    BY <1>4 DEF issue_full
  <2>3. i # j
    BY <2>1, <2>2
  <2>4. Dist(i) # Dist(j)
    BY <2>3, Shape
  <2> QED
    BY <1>4, <2>1, <2>2, <2>4, Shape
<1> QED
  BY <1>1, <1>2, <1>3, <1>4

\* The instructions that retire are the oldest ones: as many as there are
\* acknowledges, and no more than there are instructions.
LEMMA RetiredAreOldest ==
  ASSUME SbInv, NEW ack \in SUBSET CommitPorts,
         \A p \in ack : commit_instr(p).valid,
         1 \in ack => 0 \in ack
  PROVE  /\ num_commit(ack) \in 0 .. NrCommitPorts
         /\ num_commit(ack) <= occupancy
         /\ \A i \in Slots : Retired(i, ack) <=> Dist(i) < num_commit(ack)
<1>0. /\ ack \subseteq {0, 1}
      /\ \A p \in CommitPorts : commit_pointer[p] \in Slots
      /\ 0 \in CommitPorts
  BY DEF CommitPorts, SbInv, ScoreboardTypeOK
<1>1. CASE ack = {}
  <2>1. num_commit(ack) = 0
    BY <1>1 DEF num_commit
  <2> QED
    BY <1>1, <2>1, Shape DEF Retired
<1>2. CASE ack = {0}
  <2>1. num_commit(ack) = 1
    BY <1>2 DEF num_commit
  <2>2. mem[first].issued
    BY <1>0, <1>2 DEF SbInv, WindowConsistent, commit_instr, first
  <2>3. \A i \in Slots : Retired(i, ack) <=> i = first
    BY <1>2 DEF Retired, first
  <2>4. \A i \in Slots : Dist(i) < 1 <=> i = first
    BY <1>0 DEF Dist, first, Slots
  <2>5. occupancy >= 1
    BY <2>2, <2>4, Shape
  <2> QED
    BY <2>1, <2>3, <2>4, <2>5
<1>3. CASE ack = {0, 1}
  <2>1. num_commit(ack) = 2 /\ NrCommitPorts = 2
    BY <1>3 DEF num_commit, CommitPorts
  <2>2. mem[commit_pointer[1]].valid /\ 1 \in CommitPorts
    BY <1>3 DEF commit_instr
  <2>3. commit_pointer[1] = Plus(first, 1)
    BY <1>0, <2>2 DEF SbInv, CommitPortsApart, first
  <2>4. mem[commit_pointer[1]].issued
    BY <1>0, <2>2 DEF SbInv, WindowConsistent
  <2>5. \A i \in Slots : Retired(i, ack) <=> i = first \/ i = Plus(first, 1)
    BY <1>3, <2>3 DEF Retired, first
  <2>6. \A i \in Slots : Dist(i) < 2 <=> i = first \/ i = Plus(first, 1)
    BY <1>0 DEF Dist, first, Slots, Plus
  <2>7. Dist(commit_pointer[1]) = 1
    BY <1>0, <2>3 DEF Dist, first, Slots, Plus
  <2>8. occupancy >= 2
    BY <1>0, <2>2, <2>4, <2>7, Shape
  <2> QED
    BY <2>1, <2>5, <2>6, <2>8
<1> QED
  BY <1>0, <1>1, <1>2, <1>3

\* The slot cancelled on a branch miss is one of the window.
LEMMA CancelledIsIssued ==
  ASSUME SbInv, NEW i \in Slots, NEW j \in Slots,
         mem[j].issued, i = Plus(j, 1), i # issue_pointer
  PROVE  mem[i].issued
<1>1. /\ Dist(j) \in 0 .. NR_SB_ENTRIES - 1 /\ j = Plus(first, Dist(j)) /\ Dist(j) < occupancy
      /\ Dist(i) \in 0 .. NR_SB_ENTRIES - 1 /\ i = Plus(first, Dist(i))
      /\ mem[i].issued <=> Dist(i) < occupancy
      /\ issue_pointer = Plus(first, occupancy)
      /\ first \in Slots /\ occupancy \in 0 .. NR_SB_ENTRIES
  BY Shape
<1>2. Dist(i) = 0 \/ Dist(i) = Dist(j) + 1
  BY <1>1 DEF Plus, Slots
<1>3. Dist(i) # occupancy
  BY <1>1
<1> QED
  BY <1>1, <1>2, <1>3

-----------------------------------------------------------------------------
(***************************************************************************)
(* A cycle without a flush: m instructions enter, r leave.                 *)
(***************************************************************************)
Allowed(new, cancel, ack) ==
  /\ SbInv
  /\ new \in Arrivals
  /\ cancel \subseteq Slots
  /\ ack \subseteq CommitPorts
  /\ PortContract(new, cancel, ack)

\* Where the new instructions are written: right behind the youngest one.
LEMMA WrittenSlots ==
  ASSUME NEW new, NEW cancel, NEW ack, Allowed(new, cancel, ack), NEW i \in Slots
  PROVE  /\ occupancy <= Dist(i) /\ Dist(i) < occupancy + Len(new) =>
              Written(i, new) = new[Dist(i) - occupancy + 1]
         /\ ~(occupancy <= Dist(i) /\ Dist(i) < occupancy + Len(new)) =>
              Written(i, new) = mem[i]
<1>1. /\ first \in Slots /\ occupancy \in 0 .. NR_SB_ENTRIES
      /\ issue_pointer = Plus(first, occupancy)
      /\ Dist(i) \in 0 .. NR_SB_ENTRIES - 1 /\ i = Plus(first, Dist(i))
  BY Shape DEF Allowed
<1>2. occupancy + Len(new) <= NR_SB_ENTRIES
  BY RoomForArrivals DEF Allowed, PortContract
<1>4. Len(new) \in 0 .. 2
  BY ArrivalsType DEF Allowed
<1>5. Len(new) > 0 => (i = issue_pointer <=> Dist(i) = occupancy)
  BY <1>1, <1>2, <1>4 DEF Plus, Slots
<1>6. Len(new) > 1 => (i = Plus(issue_pointer, 1) <=> Dist(i) = occupancy + 1)
  BY <1>1, <1>2, <1>4 DEF Plus, Slots
<1>7. CASE Len(new) = 0
  BY <1>1, <1>7 DEF Written
<1>8. CASE Len(new) = 1
  BY <1>1, <1>5, <1>8 DEF Written
<1>9. CASE Len(new) = 2
  BY <1>1, <1>5, <1>6, <1>9 DEF Written
<1> QED
  BY <1>4, <1>7, <1>8, <1>9

\* e is the next content of slot i if `new' enters and the r oldest leave.
Stepped(e, i, new, r) ==
  /\ e \in Entry
  /\ e.issued <=> r <= Dist(i) /\ Dist(i) < occupancy + Len(new)
  /\ e.valid \/ e.cancelled => e.issued
  /\ r <= Dist(i) /\ Dist(i) < occupancy => e.instr = mem[i].instr
  /\ occupancy <= Dist(i) /\ Dist(i) < occupancy + Len(new) =>
       e.instr = new[Dist(i) - occupancy + 1].instr

\* What a cycle without a flush does to a slot.
LEMMA EntryStep ==
  ASSUME NEW new, NEW wb, NEW cancel, NEW ack, Allowed(new, cancel, ack), NEW i \in Slots
  PROVE  Stepped(EntryNext(i, new, wb, cancel, ack, FALSE), i, new, num_commit(ack))
<1> DEFINE e == EntryNext(i, new, wb, cancel, ack, FALSE)
           r == num_commit(ack)
           w == Written(i, new)
<1>1. /\ occupancy \in 0 .. NR_SB_ENTRIES
      /\ Dist(i) \in 0 .. NR_SB_ENTRIES - 1
      /\ mem[i].issued <=> Dist(i) < occupancy
  BY Shape DEF Allowed
<1>2. /\ r \in 0 .. NrCommitPorts /\ r <= occupancy
      /\ Retired(i, ack) <=> Dist(i) < r
  BY RetiredAreOldest DEF Allowed, PortContract
<1>3. Len(new) \in 0 .. 2
  BY ArrivalsType DEF Allowed
<1>4. mem[i] \in Entry /\ (mem[i].valid \/ mem[i].cancelled => mem[i].issued)
  BY DEF Allowed, SbInv, ScoreboardTypeOK, WindowConsistent
<1>5. i \in cancel => mem[i].issued
  BY CancelledIsIssued DEF Allowed, PortContract
<1>6. /\ w \in Entry
      /\ w.issued <=> Dist(i) < occupancy + Len(new)
      /\ w.valid \/ w.cancelled => w.issued
      /\ Dist(i) < occupancy => w = mem[i]
      /\ occupancy <= Dist(i) /\ Dist(i) < occupancy + Len(new) =>
           w = new[Dist(i) - occupancy + 1]
  <2>1. CASE occupancy <= Dist(i) /\ Dist(i) < occupancy + Len(new)
    <3> DEFINE j == Dist(i) - occupancy + 1
    <3>1. w = new[j]
      BY <2>1, WrittenSlots
    <3>2. j \in 1 .. Len(new)
      BY <1>1, <1>3, <2>1
    <3>3. new[j] \in Entry /\ new[j].issued
      BY <3>2, ArrivalsType DEF Allowed
    <3> HIDE DEF w
    <3> QED
      BY <1>1, <1>3, <2>1, <3>1, <3>3
  <2>2. CASE ~(occupancy <= Dist(i) /\ Dist(i) < occupancy + Len(new))
    <3>1. w = mem[i]
      BY <2>2, WrittenSlots
    <3> HIDE DEF w
    <3> QED
      BY <1>1, <1>3, <1>4, <2>2, <3>1
  <2> QED
    BY <2>1, <2>2
<1> HIDE DEF w
<1>7. CASE Retired(i, ack)
  <2>1. e = FreeEntry
    BY <1>7 DEF EntryNext
  <2> HIDE DEF e, r
  <2>2. Stepped(e, i, new, r)
    BY <1>1, <1>2, <1>3, <1>7, <2>1, FreeEntryType DEF Stepped
  <2> QED
    BY <2>2 DEF e, r
<1>8. CASE ~Retired(i, ack)
  <2> DEFINE own == {x \in wb : x.tid = i /\ mem[i].issued}
             c == w.cancelled \/ i \in cancel
             v == w.valid \/ own # {} \/ (mem[i].issued /\ Trapped(mem[i].instr))
             x == w.ex \/ \E y \in own : y.ex
  <2>1. e = [issued |-> w.issued, cancelled |-> c, valid |-> v, ex |-> x, instr |-> w.instr]
    BY <1>8 DEF EntryNext, w
  <2>2. c \in BOOLEAN /\ v \in BOOLEAN /\ x \in BOOLEAN
    BY <1>6 DEF Entry, Trapped
  <2>3. mem[i].issued => w.issued
    BY <1>1, <1>3, <1>6
  <2>4. v \/ c => w.issued
    BY <1>5, <1>6, <2>3
  <2> HIDE DEF c, v, x, e, r
  <2>5. /\ e \in Entry /\ e.issued = w.issued /\ e.cancelled = c /\ e.valid = v
        /\ e.instr = w.instr
    BY <2>1, <2>2, <1>6 DEF Entry
  <2>6. Stepped(e, i, new, r)
    BY <1>1, <1>2, <1>3, <1>6, <1>8, <2>4, <2>5 DEF Stepped
  <2> QED
    BY <2>6 DEF e, r
<1> QED
  BY <1>7, <1>8

\* What a cycle without a flush does to the pointers.
LEMMA PointerStep ==
  ASSUME NEW new, NEW cancel, NEW ack, Allowed(new, cancel, ack),
         PointersNext(new, ack, FALSE)
  PROVE  /\ first' = Plus(first, num_commit(ack)) /\ first' \in Slots
         /\ issue_pointer' = Plus(issue_pointer, Len(new)) /\ issue_pointer' \in Slots
         /\ commit_pointer' \in [CommitPorts -> Slots]
         /\ \A p \in CommitPorts : commit_pointer'[p] = Plus(first', p)
<1>1. /\ first \in Slots /\ issue_pointer \in Slots /\ 0 \in CommitPorts
  BY Shape DEF Allowed, SbInv, ScoreboardTypeOK, CommitPorts
<1>2. num_commit(ack) \in 0 .. 2 /\ num_commit(ack) <= NR_SB_ENTRIES
  <2>1. num_commit(ack) <= occupancy /\ occupancy <= NR_SB_ENTRIES
    BY RetiredAreOldest, Shape DEF Allowed, PortContract
  <2>2. num_commit(ack) \in 0 .. 2
    BY DEF num_commit
  <2>3. occupancy \in 0 .. NR_SB_ENTRIES
    BY Shape DEF Allowed
  <2> QED
    BY <2>1, <2>2, <2>3
<1>3. Len(new) \in 0 .. 2
  BY ArrivalsType DEF Allowed
<1>4. \A s \in Slots, k \in 0 .. 2 : Plus(s, k) \in Slots
  BY DEF Plus, Slots
<1>5. Plus(first, num_commit(ack)) \in Slots /\ Plus(issue_pointer, Len(new)) \in Slots
  BY <1>1, <1>2, <1>3, <1>4
<1>6. \A s \in Slots : Plus(s, 0) = s
  BY DEF Plus, Slots
<1>7. /\ issue_pointer' = Plus(issue_pointer, Len(new))
      /\ commit_pointer' = [p \in CommitPorts |-> Plus(Plus(first, num_commit(ack)), p)]
  BY DEF PointersNext, first
<1>8. first' = Plus(first, num_commit(ack))
  BY <1>1, <1>5, <1>6, <1>7 DEF first
<1>9. \A p \in CommitPorts : p \in 0 .. 2
  BY DEF CommitPorts
<1> QED
  BY <1>4, <1>5, <1>7, <1>8, <1>9

\* Occupancy and distances after a cycle without a flush.
LEMMA WindowStep ==
  ASSUME NEW new, NEW wb, NEW cancel, NEW ack, Allowed(new, cancel, ack),
         SbCycle(new, wb, cancel, ack, FALSE)
  PROVE  /\ \A i \in Slots : Stepped(mem'[i], i, new, num_commit(ack))
         /\ occupancy' = occupancy + Len(new) - num_commit(ack)
         /\ \A i \in Slots :
              Dist(i)' = IF Dist(i) >= num_commit(ack) THEN Dist(i) - num_commit(ack)
                         ELSE Dist(i) + NR_SB_ENTRIES - num_commit(ack)
<1> DEFINE r == num_commit(ack)
           m == Len(new)
<1>1. \A i \in Slots : Stepped(mem'[i], i, new, r)
  BY EntryStep DEF SbCycle
<1>2. /\ first' = Plus(first, r) /\ first' \in Slots
      /\ issue_pointer' = Plus(issue_pointer, m) /\ issue_pointer' \in Slots
  BY PointerStep DEF SbCycle
<1>3. /\ first \in Slots /\ occupancy \in 0 .. NR_SB_ENTRIES
      /\ issue_pointer = Plus(first, occupancy)
      /\ \A i \in Slots : /\ Dist(i) \in 0 .. NR_SB_ENTRIES - 1
                          /\ i = Plus(first, Dist(i))
  BY Shape DEF Allowed
<1>4. m \in 0 .. 2 /\ occupancy + m <= NR_SB_ENTRIES
  BY ArrivalsType, RoomForArrivals DEF Allowed, PortContract
<1>5. r \in 0 .. 2 /\ r <= occupancy
  <2>1. r <= occupancy
    BY RetiredAreOldest DEF Allowed, PortContract
  <2> QED
    BY <2>1 DEF num_commit
<1> HIDE DEF r, m
<1>6. \A i \in Slots : Dist(i) = IF i >= first THEN i - first ELSE i + NR_SB_ENTRIES - first
  BY DEF Dist, first
<1>7. \A i \in Slots : Dist(i)' = IF i >= first' THEN i - first' ELSE i + NR_SB_ENTRIES - first'
  BY DEF Dist, first
<1>8. ASSUME NEW i \in Slots
      PROVE  Dist(i)' = IF Dist(i) >= r THEN Dist(i) - r ELSE Dist(i) + NR_SB_ENTRIES - r
  <2>1. /\ Dist(i) = IF i >= first THEN i - first ELSE i + NR_SB_ENTRIES - first
        /\ Dist(i)' = IF i >= first' THEN i - first' ELSE i + NR_SB_ENTRIES - first'
    BY <1>6, <1>7
  <2>2. r <= NR_SB_ENTRIES
    BY <1>3, <1>5
  <2> QED
    BY <1>2, <1>3, <1>5, <2>1, <2>2 DEF Plus, Slots
<1>9. occupancy' = IF ~mem'[first'].issued THEN 0
                   ELSE IF issue_pointer' > first' THEN issue_pointer' - first'
                   ELSE issue_pointer' + NR_SB_ENTRIES - first'
  BY DEF occupancy, first
<1>10. mem'[first'].issued <=> r < occupancy + m
  <2>1. mem'[first'].issued <=> r <= Dist(first') /\ Dist(first') < occupancy + m
    BY <1>1, <1>2 DEF Stepped, m
  <2>2. CASE r < NR_SB_ENTRIES
    <3>1. Dist(first') = r
      BY <1>2, <1>3, <1>5, <1>6, <2>2 DEF Plus, Slots
    <3> QED
      BY <2>1, <3>1, <1>5
  <2>3. CASE r = NR_SB_ENTRIES
    <3>1. occupancy + m = r
      BY <1>3, <1>4, <1>5, <2>3
    <3>2. ~(r <= Dist(first') /\ Dist(first') < occupancy + m)
      BY <1>2, <1>3, <2>3, <3>1
    <3> QED
      BY <2>1, <3>1, <3>2, <1>5
  <2> QED
    BY <1>3, <1>5, <2>2, <2>3
<1>11. occupancy' = occupancy + m - r
  BY <1>2, <1>3, <1>4, <1>5, <1>9, <1>10 DEF Plus, Slots
<1> QED
  BY <1>1, <1>8, <1>11 DEF r, m

\* A flush empties the window.
LEMMA FlushStep ==
  ASSUME SbInv, NEW new, NEW wb, NEW cancel, NEW ack, SbCycle(new, wb, cancel, ack, TRUE)
  PROVE  SbInv' /\ occupancy' = 0
<1>1. 0 \in CommitPorts /\ 0 \in Slots
  BY DEF CommitPorts, Slots
<1>2. /\ mem' = [i \in Slots |-> FreeEntry]
      /\ commit_pointer' = [p \in CommitPorts |-> 0]
      /\ issue_pointer' = 0
  BY DEF SbCycle, EntryNext, PointersNext
<1>3. ScoreboardTypeOK'
  BY <1>1, <1>2, FreeEntryType DEF ScoreboardTypeOK
<1>4. occupancy' = 0 /\ \A i \in Slots : Dist(i)' \in Nat
  BY <1>1, <1>2, FreeEntryType DEF occupancy, Dist, Slots
<1>5. WindowConsistent'
  BY <1>1, <1>2, <1>4, FreeEntryType DEF WindowConsistent
<1>6. CommitPortsApart'
  BY <1>2, FreeEntryType DEF CommitPortsApart
<1> QED
  BY <1>3, <1>4, <1>5, <1>6 DEF SbInv

\* A cycle preserves the invariant whatever the write-back ports say.
LEMMA SbCycleInv ==
  ASSUME SbInv, NEW new \in Arrivals, NEW wb, NEW cancel \in SUBSET Slots,
         NEW ack \in SUBSET CommitPorts, NEW flush \in BOOLEAN,
         PortContract(new, cancel, ack), SbCycle(new, wb, cancel, ack, flush)
  PROVE  SbInv'
<1>1. CASE flush = TRUE
  BY <1>1, FlushStep
<1>2. CASE flush = FALSE
  <2> DEFINE r == num_commit(ack)
  <2>1. Allowed(new, cancel, ack) /\ SbCycle(new, wb, cancel, ack, FALSE)
    BY <1>2 DEF Allowed
  <2>2. /\ \A i \in Slots : Stepped(mem'[i], i, new, r)
        /\ occupancy' = occupancy + Len(new) - r
        /\ \A i \in Slots : Dist(i)' = IF Dist(i) >= r THEN Dist(i) - r
                                       ELSE Dist(i) + NR_SB_ENTRIES - r
    BY <2>1, WindowStep
  <2>3. /\ first' \in Slots /\ issue_pointer' \in Slots
        /\ first' = Plus(first, r) /\ issue_pointer' = Plus(issue_pointer, Len(new))
        /\ commit_pointer' \in [CommitPorts -> Slots]
        /\ \A p \in CommitPorts : commit_pointer'[p] = Plus(first', p)
    BY <2>1, PointerStep DEF SbCycle
  <2>4. /\ occupancy \in 0 .. NR_SB_ENTRIES /\ first \in Slots
        /\ issue_pointer = Plus(first, occupancy)
        /\ \A i \in Slots : Dist(i) \in 0 .. NR_SB_ENTRIES - 1
    BY Shape
  <2>5. Len(new) \in 0 .. 2 /\ r \in 0 .. 2
    BY ArrivalsType DEF num_commit
  <2>6. r <= occupancy /\ occupancy + Len(new) <= NR_SB_ENTRIES
    BY RetiredAreOldest, RoomForArrivals DEF PortContract
  <2> HIDE DEF r
  <2>7. ScoreboardTypeOK'
    <3>1. mem' \in [Slots -> Entry]
      BY <2>1, <2>2 DEF SbCycle, Stepped
    <3> QED
      BY <3>1, <2>3 DEF ScoreboardTypeOK
  <2>8. ASSUME NEW i \in Slots PROVE mem'[i].issued <=> Dist(i)' < occupancy'
    <3>1. mem'[i].issued <=> r <= Dist(i) /\ Dist(i) < occupancy + Len(new)
      BY <2>2 DEF Stepped
    <3>2. Dist(i)' = IF Dist(i) >= r THEN Dist(i) - r ELSE Dist(i) + NR_SB_ENTRIES - r
      BY <2>2
    <3> QED
      BY <2>2, <2>4, <2>5, <2>6, <3>1, <3>2
  <2>9. ~mem'[first'].issued => issue_pointer' = first'
    <3>1. ASSUME ~mem'[first'].issued PROVE occupancy + Len(new) = r
      <4>2. occupancy' = 0
        BY <3>1 DEF occupancy, first
      <4> QED
        BY <2>2, <2>4, <2>5, <2>6, <4>2
    <3>2. ASSUME ~mem'[first'].issued PROVE issue_pointer' = first'
      <4>1. Len(new) = 0 /\ r = occupancy
        BY <3>1, <3>2, <2>4, <2>5, <2>6
      <4>2. Plus(issue_pointer, 0) = issue_pointer
        BY <2>4 DEF Plus, Slots
      <4> QED
        BY <4>1, <4>2, <2>3, <2>4
    <3> QED
      BY <3>2
  <2>10. \A i \in Slots : mem'[i].valid \/ mem'[i].cancelled => mem'[i].issued
    BY <2>2 DEF Stepped
  <2>11. WindowConsistent'
    BY <2>8, <2>9, <2>10 DEF WindowConsistent, first
  <2>12. CommitPortsApart'
    BY <2>3 DEF CommitPortsApart, first
  <2> QED
    BY <2>7, <2>11, <2>12 DEF SbInv
<1> QED
  BY <1>1, <1>2

\* Every cycle the ports allow preserves the invariant.
LEMMA SbNextInv == SbInv /\ [ScoreboardNext]_scoreboardVars => SbInv'
<1> SUFFICES ASSUME SbInv, [ScoreboardNext]_scoreboardVars PROVE SbInv'
  OBVIOUS
<1>1. CASE ScoreboardNext
  <2> PICK new \in Arrivals, wb \in WriteBacks, cancel \in {{}} \union {{i} : i \in Slots},
           ack \in SUBSET CommitPorts, flush \in BOOLEAN :
        PortContract(new, cancel, ack) /\ SbCycle(new, wb, cancel, ack, flush)
    BY <1>1 DEF ScoreboardNext
  <2> QED
    BY SbCycleInv
<1>2. CASE UNCHANGED scoreboardVars
  BY <1>2 DEF scoreboardVars, SbInv, ScoreboardTypeOK, WindowConsistent, CommitPortsApart,
              Dist, occupancy
<1> QED
  BY <1>1, <1>2

\* For every number of slots and ports: the types, the agreement of the issued
\* bits with the pointers, and the two commit ports never offering the same
\* instruction.
THEOREM WindowAlwaysConsistent ==
  ScoreboardSpec => [](ScoreboardTypeOK /\ WindowConsistent)
<1>1. SbInv => ScoreboardTypeOK /\ WindowConsistent
  BY DEF SbInv
<1> QED
  BY SbInitInv, SbNextInv, <1>1, PTL DEF ScoreboardSpec

\* For every number of slots and ports, no instruction is offered to both commit
\* ports, whenever flushes come.
THEOREM CommitPortsAlwaysApart == ScoreboardSpec => []CommitPortsApart
<1>1. SbInv => CommitPortsApart
  BY DEF SbInv
<1> QED
  BY SbInitInv, SbNextInv, <1>1, PTL DEF ScoreboardSpec

-----------------------------------------------------------------------------
\* A function on 1..n is a sequence of length n.
LEMMA FunctionIsSeq ==
  ASSUME NEW S, NEW n \in Nat, NEW f \in [1 .. n -> S]
  PROVE  f \in Seq(S) /\ Len(f) = n
OBVIOUS

\* The window is a sequence of instructions, as long as the occupancy says.
WindowIsSeq ==
  /\ Window \in Seq(Instr) /\ Len(Window) = occupancy
  /\ \A k \in 1 .. occupancy : Window[k] = mem[Plus(first, k - 1)].instr

\* The invariant makes the window such a sequence.
LEMMA WindowType == SbInv => WindowIsSeq
<1> SUFFICES ASSUME SbInv PROVE WindowIsSeq
  OBVIOUS
<1>1. first \in Slots /\ occupancy \in 0 .. NR_SB_ENTRIES
  BY Shape
<1>2. \A k \in 1 .. occupancy : Plus(first, k - 1) \in Slots
  BY <1>1 DEF Plus, Slots
<1>3. \A k \in 1 .. occupancy : mem[Plus(first, k - 1)].instr \in Instr
  BY <1>2 DEF SbInv, ScoreboardTypeOK, Entry
<1>4. Window = [k \in 1 .. occupancy |-> mem[Plus(first, k - 1)].instr]
  BY DEF Window, first
<1>5. /\ Window \in [1 .. occupancy -> Instr]
      /\ \A k \in 1 .. occupancy : Window[k] = mem[Plus(first, k - 1)].instr
  BY <1>3, <1>4
<1>6. occupancy \in Nat
  BY <1>1
<1> QED
  BY <1>5, <1>6, FunctionIsSeq DEF WindowIsSeq

\* the instructions of the entries written in a cycle
Instructions(new) == [j \in 1 .. Len(new) |-> new[j].instr]

\* A cycle without a flush drops the oldest instructions from the window and
\* appends the new ones.
LEMMA WindowQueueStep ==
  ASSUME NEW new, NEW wb, NEW cancel, NEW ack, Allowed(new, cancel, ack),
         SbCycle(new, wb, cancel, ack, FALSE), SbInv'
  PROVE  Window' = SubSeq(Window, num_commit(ack) + 1, Len(Window)) \o Instructions(new)
<1> DEFINE r == num_commit(ack)
           m == Len(new)
           old == SubSeq(Window, r + 1, Len(Window))
           ins == Instructions(new)
<1>1. /\ Window \in Seq(Instr) /\ Len(Window) = occupancy
      /\ \A k \in 1 .. occupancy : Window[k] = mem[Plus(first, k - 1)].instr
  BY WindowType DEF Allowed, WindowIsSeq
<1>2. /\ Window' \in Seq(Instr) /\ Len(Window') = occupancy'
      /\ \A k \in 1 .. occupancy' : Window'[k] = mem'[Plus(first', k - 1)].instr
  <2>1. WindowIsSeq'
    BY WindowType, PTL
  <2> QED
    BY <2>1 DEF WindowIsSeq, Plus
<1>3. /\ first \in Slots /\ occupancy \in 0 .. NR_SB_ENTRIES
      /\ \A i \in Slots : Dist(i) \in 0 .. NR_SB_ENTRIES - 1 /\ i = Plus(first, Dist(i))
  BY Shape DEF Allowed
<1>4. r \in 0 .. 2 /\ r <= occupancy
  <2>1. r <= occupancy
    BY RetiredAreOldest DEF Allowed, PortContract
  <2> QED
    BY <2>1 DEF num_commit
<1>5. m \in 0 .. 2 /\ occupancy + m <= NR_SB_ENTRIES
  BY ArrivalsType, RoomForArrivals DEF Allowed, PortContract
<1>6. /\ \A i \in Slots : Stepped(mem'[i], i, new, r)
      /\ occupancy' = occupancy + m - r
      /\ first' = Plus(first, r)
  BY WindowStep, PointerStep DEF SbCycle
<1>7. /\ ins \in Seq(Instr) /\ Len(ins) = m
      /\ \A j \in 1 .. m : ins[j] = new[j].instr
  <2>1. \A j \in 1 .. m : new[j].instr \in Instr
    BY ArrivalsType DEF Allowed
  <2>2. ins \in [1 .. m -> Instr] /\ \A j \in 1 .. m : ins[j] = new[j].instr
    BY <2>1 DEF Instructions
  <2>3. m \in Nat
    BY <1>5
  <2> HIDE DEF ins, m
  <2> QED
    BY <2>2, <2>3, FunctionIsSeq
<1> HIDE DEF r, m, ins
<1>8. /\ old \in Seq(Instr) /\ Len(old) = occupancy - r
      /\ \A k \in 1 .. occupancy - r : old[k] = mem[Plus(first, r + k - 1)].instr
  <2>1. r + 1 \in Int /\ Len(Window) \in Int
    BY <1>1, <1>3, <1>4
  <2>2. \A k \in r + 1 .. Len(Window) : Window[k] \in Instr
    BY <1>1, <1>3, <1>4
  <2>3. /\ old \in Seq(Instr)
        /\ Len(old) = IF r + 1 <= Len(Window) THEN Len(Window) - (r + 1) + 1 ELSE 0
        /\ \A k \in 1 .. Len(Window) - (r + 1) + 1 : old[k] = Window[(r + 1) + k - 1]
    BY <2>1, <2>2, SubSeqProperties
  <2> HIDE DEF old
  <2>4. Len(old) = occupancy - r
    BY <1>1, <1>3, <1>4, <2>3
  <2>5. ASSUME NEW k \in 1 .. occupancy - r
        PROVE  old[k] = mem[Plus(first, r + k - 1)].instr
    <3>1. k \in 1 .. Len(Window) - (r + 1) + 1 /\ (r + 1) + k - 1 = r + k /\ r + k \in 1 .. occupancy
      BY <1>1, <1>3, <1>4
    <3>2. old[k] = Window[r + k]
      BY <2>3, <3>1
    <3>3. Window[r + k] = mem[Plus(first, (r + k) - 1)].instr
      BY <1>1, <3>1, Zenon
    <3>4. (r + k) - 1 = r + k - 1
      BY <1>3, <1>4
    <3> QED
      BY <3>2, <3>3, <3>4
  <2> QED
    BY <2>3, <2>4, <2>5
<1> HIDE DEF old
<1>9. /\ old \o ins \in Seq(Instr) /\ Len(old \o ins) = occupancy + m - r
      /\ \A k \in 1 .. occupancy + m - r :
           (old \o ins)[k] = IF k <= occupancy - r THEN old[k] ELSE ins[k - (occupancy - r)]
  <2>1. /\ old \o ins \in Seq(Instr) /\ Len(old \o ins) = Len(old) + Len(ins)
        /\ \A k \in 1 .. Len(old) + Len(ins) :
             (old \o ins)[k] = IF k <= Len(old) THEN old[k] ELSE ins[k - Len(old)]
    BY <1>7, <1>8, ConcatProperties
  <2>2. Len(old) = occupancy - r /\ Len(ins) = m /\ (occupancy - r) + m = occupancy + m - r
    BY <1>3, <1>4, <1>5, <1>7, <1>8
  <2> QED
    BY <2>1, <2>2
<1>10. ASSUME NEW k \in 1 .. occupancy + m - r
       PROVE  Window'[k] = (old \o ins)[k]
  <2> DEFINE i == Plus(first, r + k - 1)
  <2>1. i \in Slots /\ Plus(first', k - 1) = i /\ Dist(i) = r + k - 1
    <3>1. r + k - 1 \in 0 .. NR_SB_ENTRIES - 1 /\ k \in Int
      BY <1>3, <1>4, <1>5
    <3>2. i \in Slots
      BY <1>3, <3>1 DEF Plus, Slots
    <3>3. Plus(first', k - 1) = i
      BY <1>3, <1>4, <1>6, <3>1 DEF Plus, Slots
    <3>4. Dist(i) \in 0 .. NR_SB_ENTRIES - 1 /\ i = Plus(first, Dist(i))
      BY <1>3, <3>2
    <3>5. Dist(i) = r + k - 1
      <4>1. \A x, y \in 0 .. NR_SB_ENTRIES - 1 : Plus(first, x) = Plus(first, y) => x = y
        BY <1>3 DEF Plus, Slots
      <4>2. Plus(first, Dist(i)) = Plus(first, r + k - 1)
        BY <3>4, Zenon
      <4> QED
        BY <3>1, <3>4, <4>1, <4>2, Zenon
    <3> QED
      BY <3>2, <3>3, <3>5
  <2> HIDE DEF i
  <2>2. Window'[k] = mem'[i].instr
    BY <1>2, <1>6, <2>1
  <2>3. Stepped(mem'[i], i, new, r)
    BY <1>6, <2>1
  <2>4. CASE k <= occupancy - r
    <3>1. mem'[i].instr = mem[i].instr
      BY <1>3, <1>4, <2>1, <2>3, <2>4 DEF Stepped
    <3>2. old[k] = mem[i].instr
      BY <1>3, <1>4, <1>8, <2>4 DEF i
    <3> QED
      BY <1>9, <2>2, <2>4, <3>1, <3>2
  <2>5. CASE ~(k <= occupancy - r)
    <3>1. Dist(i) - occupancy + 1 = k - (occupancy - r) /\ k - (occupancy - r) \in 1 .. m
      BY <1>3, <1>4, <1>5, <2>1, <2>5
    <3>2. mem'[i].instr = new[k - (occupancy - r)].instr
      BY <1>3, <1>4, <1>5, <2>1, <2>3, <2>5, <3>1 DEF Stepped, m
    <3>3. ins[k - (occupancy - r)] = new[k - (occupancy - r)].instr
      BY <1>7, <3>1
    <3> QED
      BY <1>9, <2>2, <2>5, <3>2, <3>3
  <2> QED
    BY <2>4, <2>5
<1>11. Window' = old \o ins
  BY <1>2, <1>6, <1>9, <1>10, SeqEqual
<1> QED
  BY <1>11 DEF old, ins, r

\* A cycle of the scoreboard is a cycle of the queue.
LEMMA WindowCycle ==
  ASSUME SbInv, SbInv', NEW new \in Arrivals, NEW wb, NEW cancel \in SUBSET Slots,
         NEW ack \in SUBSET CommitPorts, NEW flush \in BOOLEAN,
         PortContract(new, cancel, ack), SbCycle(new, wb, cancel, ack, flush)
  PROVE  Queue!Next
<1> DEFINE r == num_commit(ack)
           ins == Instructions(new)
<1>1. /\ Len(new) \in 0 .. NrIssuePorts
      /\ \A j \in 1 .. Len(new) : new[j].instr \in Instr
  BY ArrivalsType
<1>2. ins \in [1 .. Len(new) -> Instr]
  BY <1>1 DEF Instructions
<1>3. ins \in Queue!Arrivals /\ Len(ins) = Len(new)
  BY <1>1, <1>2 DEF Queue!Arrivals
<1>4. r \in 0 .. NrCommitPorts /\ r <= occupancy
  BY RetiredAreOldest DEF PortContract
<1>5. occupancy + Len(new) <= NR_SB_ENTRIES
  BY RoomForArrivals DEF PortContract
<1>6. Len(Window) = occupancy
  BY WindowType DEF WindowIsSeq
<1>7. flush => Window' = << >>
  <2> SUFFICES ASSUME flush PROVE Window' = << >>
    OBVIOUS
  <2>1. occupancy' = 0
    BY FlushStep
  <2> QED
    BY <2>1 DEF Window
<1>8. ~flush => Window' = SubSeq(Window, r + 1, Len(Window)) \o ins
  <2> SUFFICES ASSUME ~flush PROVE Window' = SubSeq(Window, r + 1, Len(Window)) \o ins
    OBVIOUS
  <2>1. Allowed(new, cancel, ack) /\ SbCycle(new, wb, cancel, ack, FALSE)
    BY DEF Allowed
  <2> QED
    BY <2>1, WindowQueueStep
<1> HIDE DEF r, ins
<1>9. Queue!Cycle(ins, r, flush)
  BY <1>3, <1>4, <1>5, <1>6, <1>7, <1>8 DEF Queue!Cycle
<1> QED
  BY <1>3, <1>4, <1>9 DEF Queue!Next

\* Before the first instruction the queue is empty.
LEMMA WindowInit == ScoreboardInit => Queue!Init
<1> SUFFICES ASSUME ScoreboardInit PROVE Window = << >>
  BY DEF Queue!Init
<1>1. 0 \in CommitPorts /\ 0 \in Slots
  BY DEF CommitPorts, Slots
<1>2. occupancy = 0
  BY <1>1, FreeEntryType DEF ScoreboardInit, occupancy
<1> QED
  BY <1>2 DEF Window

\* The ring implements the queue of InstructionWindow.tla: for every number of
\* slots and ports no instruction is lost, overwritten, retired twice or out of
\* order.
THEOREM RingImplementsWindow == ScoreboardSpec => ImplementsWindow
<1>1. ASSUME SbInv, SbInv', [ScoreboardNext]_scoreboardVars PROVE [Queue!Next]_Window
  <2>1. CASE ScoreboardNext
    <3> PICK new \in Arrivals, wb \in WriteBacks, cancel \in {{}} \union {{i} : i \in Slots},
             ack \in SUBSET CommitPorts, flush \in BOOLEAN :
          PortContract(new, cancel, ack) /\ SbCycle(new, wb, cancel, ack, flush)
      BY <2>1 DEF ScoreboardNext
    <3> QED
      BY <1>1, WindowCycle
  <2>2. CASE UNCHANGED scoreboardVars
    BY <2>2 DEF scoreboardVars, Window, occupancy
  <2> QED
    BY <1>1, <2>1, <2>2
<1> QED
  BY <1>1, WindowInit, SbInitInv, SbNextInv, PTL
    DEF ScoreboardSpec, ImplementsWindow, Queue!Spec

-----------------------------------------------------------------------------
(***************************************************************************)
(* The pipeline around it.                                                 *)
(***************************************************************************)
Units == {"ALU", "ALU2", "CTRL_FLOW", "MULT", "LOAD", "STORE", "CSR"}

\* the types of the registers around the scoreboard
BkTypeOK ==
  /\ program \in Programs /\ SuperscalarEn = program.superscalar
  /\ Len(issue_q) \in 0 .. (IF SuperscalarEn THEN 2 ELSE 1)
  /\ issue_q \in Seq(Decoded)
  /\ \A j \in 1 .. Len(issue_q) : /\ WellFormed(issue_q[j])
                                  /\ issue_q[j].kind \in program.kinds
  /\ wrong_path \in BOOLEAN
  /\ fu_q \subseteq [port : 0 .. 1, unit : Units, tid : Slots, miss : BOOLEAN]
  /\ mul_q \subseteq Slots /\ div_q \subseteq Slots /\ csr_reg \subseteq Slots
  /\ lsu \subseteq Slots /\ load_out \subseteq [tid : Slots, ex : BOOLEAN]

\* what decode wrote into the scoreboard
EntriesOK ==
  \A i \in Slots : mem[i].issued =>
    /\ kind(i) \in program.kinds
    /\ kind(i) \in {"branch", "store", "fence", "sfence", "trap"} => mem[i].instr.rd = 0
    /\ Trapped(mem[i].instr) => mem[i].valid

\* an instruction is in the unit that executes its kind
UnitsOK ==
  \A f \in fu_q : /\ \/ f.unit = fu(mem[f.tid].instr)
                     \/ f.unit = "ALU2" /\ kind(f.tid) = "alu"
                  /\ f.miss => f.unit = "CTRL_FLOW"

\* FluPortFree without cardinalities
FluOK ==
  /\ \A f, g \in one_cycle : f = g
  /\ one_cycle # {} => mul_q = {} /\ div_q = {}
  /\ \A f, g \in In({"MULT"}) : f = g
  /\ div_q # {} => In({"MULT"}) = {}

\* the places where the unfinished instruction of slot i may be
Executing(i) == \E f \in fu_q : f.tid = i
Loaded(i)    == \E w \in load_out : w.tid = i
Awaited(i)   == \/ Executing(i) \/ i \in mul_q \/ i \in div_q \/ i \in lsu
                \/ Loaded(i) /\ mem[i].issued

\* Each place holds an instruction once and no two places the same; the
\* unfinished instructions are those that are in a place; a load result that
\* belongs to nobody is left by a flush, which has emptied the issue register.
PlacesOK ==
  /\ \A f, g \in fu_q : f.tid = g.tid => f = g
  /\ \A i, j \in mul_q : i = j
  /\ \A i, j \in div_q : i = j
  /\ \A v, w \in load_out : v = w
  /\ \A i \in Slots :
       /\ Executing(i) => i \notin mul_q /\ i \notin div_q /\ i \notin lsu /\ ~Loaded(i)
       /\ i \in mul_q => i \notin div_q /\ i \notin lsu /\ ~Loaded(i)
       /\ i \in div_q => i \notin lsu /\ ~Loaded(i)
       /\ i \in lsu => ~Loaded(i)
  /\ \A i \in Slots : mem[i].issued /\ ~mem[i].valid <=> Awaited(i)
  /\ \A w \in load_out : mem[w.tid].issued \/ issue_q = << >>

\* Unless a branch miss is being resolved, what waits for issue is on the right
\* path up to the first mispredicted branch.
QueueOK ==
  \/ bmiss
  \/ /\ Len(issue_q) > 0 => ~issue_q[1].wrong
     /\ Len(issue_q) > 1 => (issue_q[2].wrong <=> issue_q[1].miss)
     /\ wrong_path <=> \E j \in 1 .. Len(issue_q) : issue_q[j].miss

\* What is issued on the wrong path is cancelled, or it is the instruction right
\* behind the branch that is in execute now.
WrongOK ==
  \A i \in Slots : mem[i].issued =>
    /\ mem[i].cancelled => mem[i].instr.wrong
    /\ mem[i].instr.wrong /\ ~mem[i].cancelled =>
         SuperscalarEn /\ \E f \in fu_q : f.miss /\ Dist(i) = Dist(f.tid) + 1
    /\ mem[i].instr.wrong => fu(mem[i].instr) # "CSR"
    /\ \A f \in fu_q : f.miss /\ Dist(i) = Dist(f.tid) + 1 => mem[i].instr.wrong

\* A FENCE or SFENCE.VMA at the head waits for the stores: whatever the CSR
\* buffer holds in the meantime, the flush of the fence throws it away.
FenceWaits == head.valid /\ ~head.ex /\ kind0 \in {"fence", "sfence"}

\* Otherwise the CSR instructions in flight, at most one, are in execute or in
\* the CSR buffer.
CsrOK ==
  \/ FenceWaits
  \/ /\ \A i \in Slots : mem[i].issued /\ fu(mem[i].instr) = "CSR" =>
          (\E f \in In({"CSR"}) : f.tid = i) \/ csr_reg = {i}
     /\ csr_valid => csr_reg = {}

BkInv == /\ SbInv /\ BkTypeOK /\ EntriesOK /\ UnitsOK /\ FluOK /\ PlacesOK
         /\ QueueOK /\ WrongOK /\ CsrOK

-----------------------------------------------------------------------------
\* The unit of every kind of instruction.
LEMMA UnitOfKind ==
  ASSUME NEW n, n.kind \in Kinds
  PROVE  /\ fu(n) = "ALU" <=> n.kind = "alu"
         /\ fu(n) = "CTRL_FLOW" <=> n.kind = "branch"
         /\ fu(n) = "MULT" <=> n.kind \in {"mul", "div"}
         /\ fu(n) = "LOAD" <=> n.kind = "load"
         /\ fu(n) = "STORE" <=> n.kind \in {"store", "amo"}
         /\ fu(n) = "CSR" <=> n.kind \in {"csr", "fence", "sfence"}
         /\ fu(n) = "NONE" <=> n.kind = "trap"
         /\ fu(n) \in {"ALU", "CTRL_FLOW", "MULT", "LOAD", "STORE", "CSR", "NONE"}
<1>1. n.kind \in {"alu", "branch", "mul", "div", "load", "store", "amo", "csr", "fence",
                  "sfence", "trap"}
  BY DEF Kinds
<1>2. fu(n) = CASE n.kind = "alu"                        -> "ALU"
           [] n.kind = "branch"                     -> "CTRL_FLOW"
           [] n.kind \in {"mul", "div"}             -> "MULT"
           [] n.kind = "load"                       -> "LOAD"
           [] n.kind \in {"store", "amo"}           -> "STORE"
           [] n.kind \in {"csr", "fence", "sfence"} -> "CSR"
           [] n.kind = "trap"                       -> "NONE"
  BY Zenon DEF fu
<1> QED
  BY <1>1, <1>2

\* What the acknowledges to decode say of the first k instructions of packet q.
Go(q, k, wb, busy0) ==
  /\ k \in 0 .. 2 /\ k <= Len(q)
  /\ k > 0 => /\ ~issue_full(0)
              /\ Unit(q, q[1], busy0) \notin busy0
              /\ ~stall_raw0(q, wb) \/ Trapped(q[1])
  /\ k = 2 => /\ ~issue_full(1)
              /\ Unit(q, q[2], fus_busy1(q, busy0)) \notin fus_busy1(q, busy0)
              /\ ~stall_raw1(q, wb) \/ Trapped(q[2])

\* Issuable counts instructions that may go.
LEMMA IssuableGo ==
  ASSUME NEW q \in Seq(Decoded), NEW wb, NEW flu_rdy, NEW lsu_rdy, NEW mult
  PROVE  Go(q, Issuable(q, wb, flu_rdy, lsu_rdy, mult), wb, fus_busy0(flu_rdy, lsu_rdy, mult))
<1> DEFINE busy0 == fus_busy0(flu_rdy, lsu_rdy, mult)
           busy1 == fus_busy1(q, busy0)
           ack0  == /\ Len(q) > 0 /\ ~issue_full(0)
                    /\ Unit(q, q[1], busy0) \notin busy0
                    /\ ~stall_raw0(q, wb) \/ Trapped(q[1])
           ack1  == /\ Len(q) > 1 /\ ~issue_full(1)
                    /\ Unit(q, q[2], busy1) \notin busy1
                    /\ ~stall_raw1(q, wb) \/ Trapped(q[2])
           k == Issuable(q, wb, flu_rdy, lsu_rdy, mult)
<1>1. k = IF ~ack0 THEN 0 ELSE IF ack1 THEN 2 ELSE 1
  BY DEF Issuable
<1>2. Len(q) \in Nat
  OBVIOUS
<1>3. ack0 => Len(q) > 0 /\ ~issue_full(0) /\ Unit(q, q[1], busy0) \notin busy0
                /\ (~stall_raw0(q, wb) \/ Trapped(q[1]))
  OBVIOUS
<1>4. ack1 => Len(q) > 1 /\ ~issue_full(1) /\ Unit(q, q[2], busy1) \notin busy1
                /\ (~stall_raw1(q, wb) \/ Trapped(q[2]))
  OBVIOUS
<1> HIDE DEF k, ack0, ack1, busy0
<1>5. Go(q, k, wb, busy0)
  BY <1>1, <1>2, <1>3, <1>4 DEF Go
<1> QED
  BY <1>5 DEF k, busy0

\* One cycle, with its inputs and what it computes from them: the write-backs,
\* the units port 0 must not use, and how many instructions are issued.
Cycle(in, div_done, ld, st, wb, busy0, k) ==
  /\ in \in Answers /\ ld \in Finishing({"load"}) /\ st \in Finishing({"store", "amo"})
  /\ wb = WriteBackPorts(div_done, st)
  /\ \E lsu_ready \in BOOLEAN : busy0 = fus_busy0(flu_ready(in), lsu_ready, mult_valid_q)
  /\ Go(issue_q, k, wb, busy0)
  /\ flush_id(in) \/ bmiss => k = 0
  /\ program' = program /\ SuperscalarEn' = SuperscalarEn
  /\ SbCycle(Issued(issue_q, k), wb, cancelled(div_done), commit_ack(in), flush_id(in))
  /\ fu_q' = Sent(issue_q, k, busy0)
  /\ mul_q' = MultiplierNext(flush_id(in))
  /\ div_q' = SerdivNext(flush_id(in), div_done)
  /\ csr_reg' = CsrBufferNext(flush_id(in), in)
  /\ lsu' = LsuNext(flush_id(in), ld \union st)
  /\ load_out' = ld
  /\ IF flush_id(in) \/ bmiss THEN issue_q' = << >> /\ wrong_path' = FALSE
     ELSE \E fetched \in Fetches((IF SuperscalarEn THEN 2 ELSE 1) - (Len(issue_q) - k)) :
            /\ issue_q' = SubSeq(issue_q, k + 1, Len(issue_q)) \o fetched
            /\ wrong_path' = (wrong_path \/ \E j \in DOMAIN fetched : fetched[j].miss)

\* Every step is such a cycle.
LEMMA StepIsCycle ==
  ASSUME BkTypeOK, BackNext
  PROVE  \E in, div_done, ld, st, wb, busy0, k : Cycle(in, div_done, ld, st, wb, busy0, k)
<1> PICK in \in Answers, div_done \in IF div_q = {} THEN {FALSE} ELSE BOOLEAN,
         ld \in Finishing({"load"}), st \in Finishing({"store", "amo"}),
         lsu_ready \in LsuReady : BackCycle(in, div_done, ld, st, lsu_ready)
  BY DEF BackNext
<1> DEFINE wb == WriteBackPorts(div_done, st)
           ready == flu_ready(in)
           busy0 == fus_busy0(ready, lsu_ready, mult_valid_q)
           n == Issuable(issue_q, wb, ready, lsu_ready, mult_valid_q)
           k == IF flush_id(in) \/ bmiss THEN 0 ELSE n
<1>1. lsu_ready \in BOOLEAN
  BY DEF LsuReady
<1>2. Go(issue_q, n, wb, busy0)
  BY IssuableGo DEF BkTypeOK
<1> HIDE DEF n
<1>3. Go(issue_q, 0, wb, busy0)
  BY <1>2 DEF Go
<1>4. Go(issue_q, k, wb, busy0)
  BY <1>2, <1>3
<1>5. \E r \in BOOLEAN : busy0 = fus_busy0(flu_ready(in), r, mult_valid_q)
  BY <1>1
<1>6. flush_id(in) \/ bmiss => k = 0
  OBVIOUS
<1>7. Cycle(in, div_done, ld, st, wb, busy0, k)
  <2>1. /\ UNCHANGED << program, SuperscalarEn >>
      /\ SbCycle(Issued(issue_q, k), wb, cancelled(div_done), commit_ack(in), flush_id(in))
      /\ fu_q' = Sent(issue_q, k, busy0)
      /\ mul_q' = MultiplierNext(flush_id(in))
      /\ div_q' = SerdivNext(flush_id(in), div_done)
      /\ csr_reg' = CsrBufferNext(flush_id(in), in)
      /\ lsu' = LsuNext(flush_id(in), ld \union st)
      /\ load_out' = ld
      /\ IF flush_id(in) \/ bmiss THEN issue_q' = << >> /\ wrong_path' = FALSE
         ELSE \E fetched \in Fetches((IF SuperscalarEn THEN 2 ELSE 1) - (Len(issue_q) - k)) :
                /\ issue_q' = SubSeq(issue_q, k + 1, Len(issue_q)) \o fetched
                /\ wrong_path' = (wrong_path \/ \E j \in DOMAIN fetched : fetched[j].miss)
    BY Zenon DEF BackCycle, n
  <2> HIDE DEF k, wb, busy0
  <2>2. wb = WriteBackPorts(div_done, st)
    BY DEF wb
  <2> QED
    BY <1>4, <1>5, <1>6, <2>1, <2>2, Zenon DEF Cycle
<1> QED
  BY <1>7

-----------------------------------------------------------------------------
(***************************************************************************)
(* The pipeline keeps the contract of the scoreboard's ports.              *)
(***************************************************************************)
\* what decode hands over for d
Handed(d, right) == [kind |-> d.kind, rd |-> d.rd, wrong |-> d.wrong, good |-> right]

\* It is an instruction.
LEMMA HandedType ==
  ASSUME NEW d \in Decoded, NEW right \in BOOLEAN
  PROVE  /\ Handed(d, right) \in Instr
         /\ Handed(d, right).kind = d.kind /\ Handed(d, right).rd = d.rd
         /\ Handed(d, right).wrong = d.wrong /\ Handed(d, right).good = right
<1>1. Instr = [kind : Kinds, rd : 0 .. 1, wrong : BOOLEAN, good : BOOLEAN]
  BY BackEndAssumption
<1>2. d.kind \in Kinds /\ d.rd \in 0 .. 1 /\ d.wrong \in BOOLEAN
  BY DEF Decoded
<1> QED
  BY <1>1, <1>2 DEF Handed

\* The entries written for the first k instructions of the issue register.
LEMMA IssuedFacts ==
  ASSUME BkTypeOK, NEW k \in 0 .. 2, k <= Len(issue_q)
  PROVE  /\ Issued(issue_q, k) \in Arrivals /\ Len(Issued(issue_q, k)) = k
         /\ k > 0 => Issued(issue_q, k)[1] = NewEntry(Handed(issue_q[1], Good0(issue_q)))
         /\ k = 2 => Issued(issue_q, k)[2] = NewEntry(Handed(issue_q[2], Good1(issue_q)))
<1> DEFINE n(j) == Handed(issue_q[j], IF j = 1 THEN Good0(issue_q) ELSE Good1(issue_q))
           new == Issued(issue_q, k)
<1>1. new = [j \in 1 .. k |-> NewEntry(n(j))]
  BY DEF Issued, Handed
<1>2. \A j \in 1 .. k : issue_q[j] \in Decoded
  BY DEF BkTypeOK
<1>3. Good0(issue_q) \in BOOLEAN /\ Good1(issue_q) \in BOOLEAN
  BY Zenon DEF Good0, Good1
<1>4. ASSUME NEW j \in 1 .. k PROVE n(j) \in Instr
  <2>1. (IF j = 1 THEN Good0(issue_q) ELSE Good1(issue_q)) \in BOOLEAN
    BY <1>3
  <2> QED
    BY <1>2, <2>1, HandedType
<1>5. k \in 0 .. NrIssuePorts
  <2>1. SuperscalarEn => NrIssuePorts = 2
    BY BackEndAssumption, Zenon DEF BkTypeOK
  <2>2. NrIssuePorts \in 1 .. 2 /\ Len(issue_q) \in 0 .. (IF SuperscalarEn THEN 2 ELSE 1)
    BY DEF BkTypeOK
  <2> QED
    BY <2>1, <2>2
<1>6. k > 0 => n(1) = Handed(issue_q[1], Good0(issue_q))
  OBVIOUS
<1>7. k = 2 => n(2) = Handed(issue_q[2], Good1(issue_q))
  OBVIOUS
<1> HIDE DEF n, new
<1>8. new \in [1 .. k -> {NewEntry(m) : m \in Instr}]
  BY <1>1, <1>4
<1>9. new \in Arrivals
  BY <1>5, <1>8 DEF Arrivals
<1>10. Len(new) = k
  BY <1>1
<1>11. \A j \in 1 .. k : new[j] = NewEntry(n(j))
  BY <1>1
<1> QED
  BY <1>6, <1>7, <1>9, <1>10, <1>11 DEF new

\* The slots named anywhere in execute are issued.
LEMMA AwaitedIssued ==
  ASSUME PlacesOK, NEW i \in Slots, Awaited(i)
  PROVE  mem[i].issued /\ ~mem[i].valid
BY DEF PlacesOK

\* Elements of the ID <-> EX registers.
LEMMA FuType ==
  ASSUME BkTypeOK, NEW f \in fu_q
  PROVE  f.port \in 0 .. 1 /\ f.unit \in Units /\ f.tid \in Slots /\ f.miss \in BOOLEAN
BY DEF BkTypeOK

\* The request the result multiplexer looks at, if there is one.
LEMMA OneCycleData ==
  ASSUME BkTypeOK, FluOK, NEW f \in one_cycle
  PROVE  one_cycle_data = f
<1>1. \A g \in one_cycle : g = f
  BY DEF FluOK
<1>2. f.port <= f.port
  <2>1. f.port \in Int
    BY FuType DEF one_cycle, In
  <2> QED
    BY <2>1
<1>3. \A g \in one_cycle : g.port <= f.port
  BY <1>1, <1>2
<1>4. one_cycle_data \in one_cycle
  BY <1>3, Zenon DEF one_cycle_data
<1> QED
  BY <1>1, <1>4

\* The branch in execute is the one whose slot the result multiplexer names.
LEMMA MissedBranch ==
  ASSUME BkTypeOK, FluOK, PlacesOK, UnitsOK, NEW f \in fu_q, f.miss, NEW div_done
  PROVE  /\ bmiss /\ f \in one_cycle /\ flu_trans_id(div_done) = f.tid
         /\ f.tid \in Slots /\ mem[f.tid].issued /\ ~mem[f.tid].valid
<1>1. f.unit = "CTRL_FLOW"
  BY DEF UnitsOK
<1>2. bmiss /\ f \in one_cycle
  BY <1>1 DEF bmiss, one_cycle, In
<1>3. mul_q = {} /\ div_q = {}
  BY <1>2 DEF FluOK
<1>4. ~mult_valid(div_done)
  BY <1>3 DEF mult_valid
<1>5. flu_trans_id(div_done) = f.tid
  BY <1>2, <1>4, OneCycleData DEF flu_trans_id
<1>6. f.tid \in Slots /\ Awaited(f.tid)
  BY FuType DEF Awaited, Executing
<1> QED
  BY <1>2, <1>5, <1>6, AwaitedIssued

\* What a cycle asks of the scoreboard's ports keeps their contract.
LEMMA PortsKept ==
  ASSUME BkInv, NEW in, NEW div_done, NEW ld, NEW st, NEW wb, NEW busy0, NEW k,
         Cycle(in, div_done, ld, st, wb, busy0, k)
  PROVE  /\ Issued(issue_q, k) \in Arrivals
         /\ cancelled(div_done) \subseteq Slots
         /\ commit_ack(in) \subseteq CommitPorts
         /\ flush_id(in) \in BOOLEAN
         /\ PortContract(Issued(issue_q, k), cancelled(div_done), commit_ack(in))
<1>1. k \in 0 .. 2 /\ k <= Len(issue_q) /\ (k > 0 => ~issue_full(0)) /\ (k = 2 => ~issue_full(1))
  BY DEF Cycle, Go
<1>2. Issued(issue_q, k) \in Arrivals /\ Len(Issued(issue_q, k)) = k
  BY <1>1, IssuedFacts DEF BkInv
<1>3. commit_ack(in) \subseteq CommitPorts
  BY DEF commit_ack
<1>4. \A p \in commit_ack(in) : commit_instr(p).valid
  <2>1. commit_ack0(in) => commit_instr(0).valid
    BY DEF commit_ack0, head, Committing
  <2>2. commit_ack1(in) => commit_instr(1).valid
    BY DEF commit_ack1
  <2>3. CommitPorts \subseteq {0, 1}
    BY DEF CommitPorts
  <2> QED
    BY <2>1, <2>2, <2>3 DEF commit_ack
<1>5. 1 \in commit_ack(in) => 0 \in commit_ack(in)
  <2>1. 0 \in CommitPorts
    BY DEF CommitPorts
  <2> QED
    BY <2>1 DEF commit_ack, commit_ack1
<1>6. ASSUME NEW i \in cancelled(div_done)
      PROVE  \E j \in Slots : mem[j].issued /\ i = Plus(j, 1) /\ i # issue_pointer
  <2>1. bmiss /\ i = Plus(flu_trans_id(div_done), 1) /\ i # issue_pointer
    BY DEF cancelled
  <2>2. PICK f \in fu_q : f.miss
    BY <2>1 DEF bmiss, In
  <2>3. flu_trans_id(div_done) = f.tid /\ f.tid \in Slots /\ mem[f.tid].issued
    BY <2>2, MissedBranch DEF BkInv
  <2> QED
    BY <2>1, <2>3
<1>7. \A j \in Slots : Plus(j, 1) \in Slots
  BY DEF Plus, Slots
<1>8. cancelled(div_done) \subseteq Slots
  BY <1>6, <1>7
<1>9. flush_id(in) \in BOOLEAN
  BY DEF flush_id
<1> QED
  BY <1>1, <1>2, <1>3, <1>4, <1>5, <1>6, <1>8, <1>9 DEF PortContract

\* So the scoreboard's invariant holds in the pipeline.
LEMMA SbInvStep ==
  ASSUME BkInv, NEW in, NEW div_done, NEW ld, NEW st, NEW wb, NEW busy0, NEW k,
         Cycle(in, div_done, ld, st, wb, busy0, k)
  PROVE  SbInv'
<1>1. SbCycle(Issued(issue_q, k), wb, cancelled(div_done), commit_ack(in), flush_id(in))
  BY DEF Cycle
<1> QED
  BY <1>1, PortsKept, SbCycleInv DEF BkInv

-----------------------------------------------------------------------------
(***************************************************************************)
(* What a cycle does to the entries of the scoreboard.                     *)
(***************************************************************************)
\* the slot of the second instruction issued in a cycle
second == Plus(issue_pointer, 1)

\* Only finished instructions retire.
LEMMA RetiredIsValid ==
  ASSUME BkInv, NEW in, NEW i \in Slots, Retired(i, commit_ack(in))
  PROVE  mem[i].valid /\ mem[i].issued
<1>1. PICK p \in commit_ack(in) : i = commit_pointer[p]
  BY DEF Retired
<1>2. commit_ack0(in) => commit_instr(0).valid
  BY DEF commit_ack0, head, Committing
<1>3. commit_ack1(in) => commit_instr(1).valid
  BY DEF commit_ack1
<1>4. p \in {0, 1}
  BY DEF CommitPorts, commit_ack
<1>5. commit_instr(p).valid
  BY <1>1, <1>2, <1>3, <1>4 DEF commit_ack
<1>6. mem[i].valid
  BY <1>1, <1>5 DEF commit_instr
<1> QED
  BY <1>6 DEF BkInv, SbInv, WindowConsistent

\* Where the new instructions are written there is room.
LEMMA NewSlotsFree ==
  ASSUME BkInv, NEW in, NEW div_done, NEW ld, NEW st, NEW wb, NEW busy0, NEW k,
         Cycle(in, div_done, ld, st, wb, busy0, k)
  PROVE  /\ k \in 0 .. 2 /\ occupancy \in Nat /\ occupancy + k <= NR_SB_ENTRIES
         /\ issue_pointer \in Slots /\ second \in Slots
         /\ k > 0 => ~mem[issue_pointer].issued /\ Dist(issue_pointer) = occupancy
         /\ k = 2 => ~mem[second].issued /\ Dist(second) = occupancy + 1 /\ second # issue_pointer
<1>1. k \in 0 .. 2
  BY DEF Cycle, Go
<1>2. Len(Issued(issue_q, k)) = k
  BY IssuedFacts DEF BkInv, Cycle, Go
<1>3. /\ Issued(issue_q, k) \in Arrivals
      /\ Len(Issued(issue_q, k)) > 0 => ~issue_full(0)
      /\ Len(Issued(issue_q, k)) > 1 => ~issue_full(1)
  BY PortsKept DEF PortContract
<1>4. occupancy + k <= NR_SB_ENTRIES
  BY <1>2, <1>3, RoomForArrivals DEF BkInv
<1>5. /\ first \in Slots /\ occupancy \in 0 .. NR_SB_ENTRIES
      /\ issue_pointer = Plus(first, occupancy)
      /\ \A i \in Slots : /\ Dist(i) \in 0 .. NR_SB_ENTRIES - 1
                          /\ i = Plus(first, Dist(i))
                          /\ mem[i].issued <=> Dist(i) < occupancy
  BY Shape DEF BkInv
<1>6. issue_pointer \in Slots /\ second \in Slots
  BY <1>5 DEF Plus, Slots, second
<1>7. \A x, y \in 0 .. NR_SB_ENTRIES - 1 : Plus(first, x) = Plus(first, y) => x = y
  BY <1>5 DEF Plus, Slots
<1>8. ASSUME k > 0 PROVE Dist(issue_pointer) = occupancy
  <2>1. occupancy \in 0 .. NR_SB_ENTRIES - 1
    BY <1>1, <1>4, <1>5, <1>8
  <2> QED
    BY <1>5, <1>6, <1>7, <2>1
<1>9. ASSUME k = 2 PROVE Dist(second) = occupancy + 1
  <2>1. occupancy + 1 \in 0 .. NR_SB_ENTRIES - 1
    BY <1>1, <1>4, <1>5, <1>9
  <2>2. second = Plus(first, occupancy + 1)
    BY <1>5, <2>1 DEF second, Plus, Slots
  <2> QED
    BY <1>5, <1>6, <1>7, <2>1, <2>2
<1> QED
  BY <1>1, <1>4, <1>5, <1>6, <1>8, <1>9

\* An instruction that stays: it may get its result, and it may be cancelled.
LEMMA KeptSlot ==
  ASSUME BkInv, NEW in, NEW div_done, NEW ld, NEW st, NEW wb, NEW busy0, NEW k,
         Cycle(in, div_done, ld, st, wb, busy0, k), ~flush_id(in),
         NEW i \in Slots, mem[i].issued, ~Retired(i, commit_ack(in))
  PROVE  /\ mem'[i].issued /\ mem'[i].instr = mem[i].instr
         /\ mem'[i].cancelled <=> mem[i].cancelled \/ i \in cancelled(div_done)
         /\ mem'[i].valid <=> mem[i].valid \/ \E w \in wb : w.tid = i
         /\ (\A w \in wb : w.tid # i) => mem'[i].ex = mem[i].ex
<1> DEFINE new == Issued(issue_q, k)
           own == {w \in wb : w.tid = i /\ mem[i].issued}
           c == mem[i].cancelled \/ i \in cancelled(div_done)
           v == mem[i].valid \/ own # {} \/ (mem[i].issued /\ Trapped(mem[i].instr))
           x == mem[i].ex \/ \E w \in own : w.ex
<1>1. mem' = [j \in Slots |-> EntryNext(j, new, wb, cancelled(div_done), commit_ack(in), flush_id(in))]
  BY Zenon DEF Cycle, SbCycle
<1>2. /\ k \in 0 .. 2
      /\ k > 0 => ~mem[issue_pointer].issued
      /\ k = 2 => ~mem[second].issued
  BY NewSlotsFree
<1>3. Len(new) = k
  BY IssuedFacts DEF BkInv, Cycle, Go
<1>4. Written(i, new) = mem[i]
  BY <1>2, <1>3 DEF Written, second
<1>5. mem'[i] = EntryNext(i, new, wb, cancelled(div_done), commit_ack(in), flush_id(in))
  BY <1>1
<1>6. mem'[i] = [issued |-> mem[i].issued, cancelled |-> c, valid |-> v, ex |-> x,
                 instr |-> mem[i].instr]
  BY <1>4, <1>5, Zenon DEF EntryNext
<1>7. own # {} <=> \E w \in wb : w.tid = i
  OBVIOUS
<1>8. Trapped(mem[i].instr) => mem[i].valid
  BY DEF BkInv, EntriesOK
<1>11. (\A w \in wb : w.tid # i) => x = (mem[i].ex \/ FALSE)
  OBVIOUS
<1>12. mem[i].ex \in BOOLEAN
  BY DEF BkInv, SbInv, ScoreboardTypeOK, Entry
<1> HIDE DEF own
<1>9. v <=> mem[i].valid \/ \E w \in wb : w.tid = i
  BY <1>7, <1>8
<1> HIDE DEF c, v, x
<1>10. /\ mem'[i].issued = mem[i].issued /\ mem'[i].cancelled = c /\ mem'[i].valid = v
       /\ mem'[i].instr = mem[i].instr /\ mem'[i].ex = x
  BY <1>6
<1>13. (\A w \in wb : w.tid # i) => mem'[i].ex = mem[i].ex
  BY <1>10, <1>11, <1>12
<1> QED
  BY <1>9, <1>10, <1>13 DEF c

\* the entry of a newly issued instruction d
Fresh(e, d, right) ==
  /\ e.issued /\ ~e.cancelled /\ (e.valid <=> Trapped(d))
  /\ e.instr.kind = d.kind /\ e.instr.rd = d.rd /\ e.instr.wrong = d.wrong
  /\ e.instr.good = right

\* What is written into a free slot.
LEMMA FreshEntry ==
  ASSUME NEW d \in Decoded, NEW right \in BOOLEAN, NEW i \in Slots, NEW new, NEW wb, NEW ack,
         ~mem[i].issued, ~Retired(i, ack), Written(i, new) = NewEntry(Handed(d, right))
  PROVE  Fresh(EntryNext(i, new, wb, {}, ack, FALSE), d, right)
<1> DEFINE n == Handed(d, right)
           own == {w \in wb : w.tid = i /\ mem[i].issued}
           e == EntryNext(i, new, wb, {}, ack, FALSE)
<1>1. /\ n \in Instr
      /\ n.kind = d.kind /\ n.rd = d.rd /\ n.wrong = d.wrong /\ n.good = right
  BY HandedType
<1> HIDE DEF n
<1>2. /\ NewEntry(n).issued /\ ~NewEntry(n).cancelled /\ NewEntry(n).valid = Trapped(n)
      /\ NewEntry(n).instr = n
  BY DEF NewEntry
<1>3. own = {}
  OBVIOUS
<1>4. e = [issued |-> NewEntry(n).issued,
            cancelled |-> NewEntry(n).cancelled \/ i \in {},
            valid |-> NewEntry(n).valid \/ own # {} \/ (mem[i].issued /\ Trapped(mem[i].instr)),
            ex |-> NewEntry(n).ex \/ \E w \in own : w.ex,
            instr |-> NewEntry(n).instr]
  BY Zenon DEF EntryNext, n
<1> HIDE DEF e, own
<1>5. /\ e.issued = NewEntry(n).issued
      /\ e.cancelled <=> NewEntry(n).cancelled
      /\ e.valid <=> NewEntry(n).valid
      /\ e.instr = n
  BY <1>2, <1>3, <1>4
<1>6. Trapped(n) <=> Trapped(d)
  BY <1>1 DEF Trapped
<1>7. Fresh(e, d, right)
  BY <1>1, <1>2, <1>5, <1>6 DEF Fresh
<1> QED
  BY <1>7 DEF e

\* The first instruction issued in a cycle.
LEMMA NewSlot1 ==
  ASSUME BkInv, NEW in, NEW div_done, NEW ld, NEW st, NEW wb, NEW busy0, NEW k,
         Cycle(in, div_done, ld, st, wb, busy0, k), k > 0
  PROVE  Fresh(mem'[issue_pointer], issue_q[1], Good0(issue_q))
<1> DEFINE new == Issued(issue_q, k)
           i == issue_pointer
<1>1. ~flush_id(in) /\ cancelled(div_done) = {}
  BY DEF Cycle, cancelled
<1>2. i \in Slots /\ ~mem[i].issued /\ k \in 0 .. 2
  BY NewSlotsFree
<1>3. ~Retired(i, commit_ack(in))
  BY <1>2, RetiredIsValid
<1>4. Len(new) = k /\ new[1] = NewEntry(Handed(issue_q[1], Good0(issue_q)))
  BY IssuedFacts DEF BkInv, Cycle, Go
<1>5. Written(i, new) = NewEntry(Handed(issue_q[1], Good0(issue_q)))
  BY <1>2, <1>4 DEF Written
<1>6. mem' = [j \in Slots |-> EntryNext(j, new, wb, cancelled(div_done), commit_ack(in), flush_id(in))]
  BY Zenon DEF Cycle, SbCycle
<1>7. mem'[i] = EntryNext(i, new, wb, cancelled(div_done), commit_ack(in), flush_id(in))
  BY <1>2, <1>6
<1>8. EntryNext(i, new, wb, cancelled(div_done), commit_ack(in), flush_id(in))
        = EntryNext(i, new, wb, {}, commit_ack(in), FALSE)
  <2>1. flush_id(in) = FALSE
    BY <1>1 DEF flush_id
  <2> QED
    BY <1>1, <2>1
<1>9. issue_q[1] \in Decoded /\ Good0(issue_q) \in BOOLEAN
  <2>1. issue_q \in Seq(Decoded) /\ k <= Len(issue_q)
    BY DEF BkInv, BkTypeOK, Cycle, Go
  <2> QED
    BY <1>2, <2>1 DEF Good0
<1> HIDE DEF new, i
<1>10. Fresh(EntryNext(i, new, wb, {}, commit_ack(in), FALSE), issue_q[1], Good0(issue_q))
  BY <1>2, <1>3, <1>5, <1>9, FreshEntry
<1> QED
  BY <1>7, <1>8, <1>10 DEF i

\* The second one.
LEMMA NewSlot2 ==
  ASSUME BkInv, NEW in, NEW div_done, NEW ld, NEW st, NEW wb, NEW busy0, NEW k,
         Cycle(in, div_done, ld, st, wb, busy0, k), k = 2
  PROVE  Fresh(mem'[second], issue_q[2], Good1(issue_q))
<1> DEFINE new == Issued(issue_q, k)
           i == second
<1>1. ~flush_id(in) /\ cancelled(div_done) = {}
  BY DEF Cycle, cancelled
<1>2. i \in Slots /\ ~mem[i].issued /\ i # issue_pointer
  BY NewSlotsFree
<1>3. ~Retired(i, commit_ack(in))
  BY <1>2, RetiredIsValid
<1>4. Len(new) = k /\ new[2] = NewEntry(Handed(issue_q[2], Good1(issue_q)))
  BY IssuedFacts DEF BkInv, Cycle, Go
<1>5. Written(i, new) = NewEntry(Handed(issue_q[2], Good1(issue_q)))
  BY <1>2, <1>4 DEF Written, second
<1>6. mem' = [j \in Slots |-> EntryNext(j, new, wb, cancelled(div_done), commit_ack(in), flush_id(in))]
  BY Zenon DEF Cycle, SbCycle
<1>7. mem'[i] = EntryNext(i, new, wb, cancelled(div_done), commit_ack(in), flush_id(in))
  BY <1>2, <1>6
<1>8. EntryNext(i, new, wb, cancelled(div_done), commit_ack(in), flush_id(in))
        = EntryNext(i, new, wb, {}, commit_ack(in), FALSE)
  <2>1. flush_id(in) = FALSE
    BY <1>1 DEF flush_id
  <2> QED
    BY <1>1, <2>1
<1>9. issue_q[2] \in Decoded /\ Good1(issue_q) \in BOOLEAN
  <2>1. issue_q \in Seq(Decoded) /\ k <= Len(issue_q)
    BY DEF BkInv, BkTypeOK, Cycle, Go
  <2>2. Good1(issue_q) \in BOOLEAN
    BY Zenon DEF Good1
  <2> QED
    BY <2>1, <2>2
<1> HIDE DEF new, i
<1>10. Fresh(EntryNext(i, new, wb, {}, commit_ack(in), FALSE), issue_q[2], Good1(issue_q))
  BY <1>2, <1>3, <1>5, <1>9, FreshEntry
<1> QED
  BY <1>7, <1>8, <1>10 DEF i

\* a slot after a cycle without a flush: an instruction that stays or a new one
Stays(i, in) == mem[i].issued /\ ~Retired(i, commit_ack(in))
Enters(i, k) == \/ k > 0 /\ i = issue_pointer
                \/ k = 2 /\ i = second

\* Every other slot is free.
LEMMA SlotsAfter ==
  ASSUME BkInv, NEW in, NEW div_done, NEW ld, NEW st, NEW wb, NEW busy0, NEW k,
         Cycle(in, div_done, ld, st, wb, busy0, k), ~flush_id(in),
         NEW i \in Slots
  PROVE  /\ mem'[i].issued <=> Stays(i, in) \/ Enters(i, k)
         /\ ~(Stays(i, in) /\ Enters(i, k))
<1> DEFINE new == Issued(issue_q, k)
           ack == commit_ack(in)
<1>1. mem' = [j \in Slots |-> EntryNext(j, new, wb, cancelled(div_done), ack, flush_id(in))]
  BY Zenon DEF Cycle, SbCycle
<1>2. mem'[i] = EntryNext(i, new, wb, cancelled(div_done), ack, flush_id(in))
  BY <1>1
<1>3. /\ k \in 0 .. 2
      /\ k > 0 => ~mem[issue_pointer].issued
      /\ k = 2 => ~mem[second].issued
  BY NewSlotsFree
<1>4. CASE Stays(i, in)
  BY <1>3, <1>4, KeptSlot DEF Stays, Enters
<1>5. CASE k > 0 /\ i = issue_pointer
  BY <1>3, <1>5, NewSlot1 DEF Stays, Enters, Fresh
<1>6. CASE k = 2 /\ i = second
  <2>1. Fresh(mem'[second], issue_q[2], Good1(issue_q))
    BY <1>6, NewSlot2
  <2>2. mem'[i].issued /\ ~mem[i].issued
    BY <1>3, <1>6, <2>1 DEF Fresh
  <2> QED
    BY <1>6, <2>2 DEF Stays, Enters
<1>7. CASE ~Stays(i, in) /\ ~Enters(i, k)
  <2>1. ~mem'[i].issued
    <3>1. CASE Retired(i, ack)
      <4>1. mem'[i] = FreeEntry
        BY <1>2, <3>1 DEF EntryNext
      <4> QED
        BY <4>1, FreeEntryType
    <3>2. CASE ~Retired(i, ack)
      <4>1. ~mem[i].issued
        BY <1>7, <3>2 DEF Stays
      <4>2. Len(new) = k
        BY IssuedFacts DEF BkInv, Cycle, Go
      <4>3. Written(i, new) = mem[i]
        <5>1. ~(Len(new) > 0 /\ i = issue_pointer)
          BY <1>3, <1>7, <4>2 DEF Enters
        <5>2. ~(Len(new) > 1 /\ i = Plus(issue_pointer, 1))
          BY <1>3, <1>7, <4>2 DEF Enters, second
        <5> HIDE DEF new
        <5> QED
          BY <5>1, <5>2 DEF Written
      <4> DEFINE own == {w \in wb : w.tid = i /\ mem[i].issued}
                 c == mem[i].cancelled \/ i \in cancelled(div_done)
                 v == mem[i].valid \/ own # {} \/ (mem[i].issued /\ Trapped(mem[i].instr))
                 x == mem[i].ex \/ \E w \in own : w.ex
      <4>4. mem'[i] = [issued |-> mem[i].issued, cancelled |-> c, valid |-> v, ex |-> x,
                       instr |-> mem[i].instr]
        BY <1>2, <3>2, <4>3, Zenon DEF EntryNext
      <4> HIDE DEF c, v, x
      <4> QED
        BY <4>1, <4>4
    <3> QED
      BY <3>1, <3>2
  <2> QED
    BY <1>7, <2>1
<1> QED
  BY <1>3, <1>4, <1>5, <1>6, <1>7 DEF Enters

\* After a flush every slot is free.
LEMMA SlotsFlushed ==
  ASSUME BkInv, NEW in, NEW div_done, NEW ld, NEW st, NEW wb, NEW busy0, NEW k,
         Cycle(in, div_done, ld, st, wb, busy0, k), flush_id(in), NEW i \in Slots
  PROVE  ~mem'[i].issued /\ ~mem'[i].valid
<1>1. mem' = [j \in Slots |-> EntryNext(j, Issued(issue_q, k), wb, cancelled(div_done),
                                        commit_ack(in), flush_id(in))]
  BY Zenon DEF Cycle, SbCycle
<1>2. mem'[i] = FreeEntry
  BY <1>1 DEF EntryNext
<1> QED
  BY <1>2, FreeEntryType

\* How far the instructions are from the head after a cycle without a flush.
LEMMA DistAfter ==
  ASSUME BkInv, NEW in, NEW div_done, NEW ld, NEW st, NEW wb, NEW busy0, NEW k,
         Cycle(in, div_done, ld, st, wb, busy0, k), ~flush_id(in), NEW i \in Slots
  PROVE  /\ num_commit(commit_ack(in)) \in 0 .. 2
         /\ num_commit(commit_ack(in)) <= occupancy
         /\ Dist(i) \in 0 .. NR_SB_ENTRIES - 1
         /\ mem[i].issued <=> Dist(i) < occupancy
         /\ Retired(i, commit_ack(in)) <=> Dist(i) < num_commit(commit_ack(in))
         /\ Stays(i, in) \/ Enters(i, k) => Dist(i)' = Dist(i) - num_commit(commit_ack(in))
<1> DEFINE r == num_commit(commit_ack(in))
<1>1. Allowed(Issued(issue_q, k), cancelled(div_done), commit_ack(in))
  BY PortsKept DEF Allowed, BkInv
<1>2. flush_id(in) = FALSE
  BY DEF flush_id
<1>3. SbCycle(Issued(issue_q, k), wb, cancelled(div_done), commit_ack(in), FALSE)
  BY <1>2 DEF Cycle
<1>4. Dist(i)' = IF Dist(i) >= r THEN Dist(i) - r ELSE Dist(i) + NR_SB_ENTRIES - r
  BY <1>1, <1>3, WindowStep
<1>5. r \in 0 .. 2
  BY DEF num_commit
<1>6. r <= occupancy /\ (Retired(i, commit_ack(in)) <=> Dist(i) < r)
  BY <1>1, RetiredAreOldest DEF Allowed, PortContract
<1>7. Dist(i) \in 0 .. NR_SB_ENTRIES - 1 /\ (mem[i].issued <=> Dist(i) < occupancy)
      /\ occupancy \in Nat
  BY Shape DEF BkInv
<1>8. ASSUME Enters(i, k) PROVE Dist(i) >= occupancy
  BY <1>7, <1>8, NewSlotsFree DEF Enters
<1> HIDE DEF r
<1>9. ASSUME Stays(i, in) \/ Enters(i, k) PROVE Dist(i) >= r
  BY <1>5, <1>6, <1>7, <1>8, <1>9 DEF Stays
<1>10. Stays(i, in) \/ Enters(i, k) => Dist(i)' = Dist(i) - r
  BY <1>4, <1>9
<1> QED
  BY <1>5, <1>6, <1>7, <1>10 DEF r

-----------------------------------------------------------------------------
(***************************************************************************)
(* What a cycle sends to the functional units.                             *)
(***************************************************************************)
\* the requests of the two issue ports
Request1(busy0) == [port |-> 0, unit |-> Unit(issue_q, issue_q[1], busy0),
                    tid |-> issue_pointer, miss |-> issue_q[1].miss]
Request2(busy0) == [port |-> 1, unit |-> Unit(issue_q, issue_q[2], fus_busy1(issue_q, busy0)),
                    tid |-> second, miss |-> issue_q[2].miss]

\* whether they are made
Sends1(k) == k > 0 /\ ~Trapped(issue_q[1])
Sends2(k) == k = 2 /\ ~Trapped(issue_q[2])

\* These are the requests of the next cycle.
LEMMA SentFacts ==
  ASSUME BkInv, NEW in, NEW div_done, NEW ld, NEW st, NEW wb, NEW busy0, NEW k,
         Cycle(in, div_done, ld, st, wb, busy0, k)
  PROVE  /\ \A f : f \in fu_q' <=> \/ Sends1(k) /\ f = Request1(busy0)
                                   \/ Sends2(k) /\ f = Request2(busy0)
         /\ Sends1(k) => Request1(busy0).unit \notin busy0
         /\ Sends2(k) => Request2(busy0).unit \notin fus_busy1(issue_q, busy0)
<1> DEFINE R(j) == [port |-> j - 1,
                    unit |-> Unit(issue_q, issue_q[j], IF j = 1 THEN busy0 ELSE fus_busy1(issue_q, busy0)),
                    tid |-> Plus(issue_pointer, j - 1), miss |-> issue_q[j].miss]
<1>1. fu_q' = {R(j) : j \in {i \in 1 .. k : ~Trapped(issue_q[i])}}
  BY Zenon DEF Cycle, Sent
<1>2. k \in 0 .. 2 /\ issue_pointer \in Slots
  BY NewSlotsFree
<1>3. Plus(issue_pointer, 0) = issue_pointer
  BY <1>2 DEF Plus, Slots
<1>4. R(1) = Request1(busy0)
  <2>1. 1 - 1 = 0
    OBVIOUS
  <2> QED
    BY <1>3, <2>1 DEF Request1
<1>5. R(2) = Request2(busy0)
  <2>1. 2 - 1 = 1 /\ 2 # 1
    OBVIOUS
  <2> QED
    BY <2>1 DEF Request2, second
<1> HIDE DEF R
<1>6. \A f : f \in fu_q' <=> \E j \in 1 .. k : ~Trapped(issue_q[j]) /\ f = R(j)
  BY <1>1
<1>7. \A f : f \in fu_q' <=> \/ Sends1(k) /\ f = Request1(busy0)
                             \/ Sends2(k) /\ f = Request2(busy0)
  <2>1. CASE k = 0
    BY <1>6, <2>1 DEF Sends1, Sends2
  <2>2. CASE k = 1
    <3>1. \A j : j \in 1 .. k <=> j = 1
      BY <2>2
    <3> QED
      BY <1>4, <1>6, <2>2, <3>1 DEF Sends1, Sends2
  <2>3. CASE k = 2
    <3>1. \A j : j \in 1 .. k <=> j = 1 \/ j = 2
      BY <2>3
    <3> QED
      BY <1>4, <1>5, <1>6, <2>3, <3>1 DEF Sends1, Sends2
  <2> QED
    BY <1>2, <2>1, <2>2, <2>3
<1>8. Sends1(k) => Unit(issue_q, issue_q[1], busy0) \notin busy0
  BY DEF Cycle, Go, Sends1
<1>9. Sends2(k) => Unit(issue_q, issue_q[2], fus_busy1(issue_q, busy0))
                     \notin fus_busy1(issue_q, busy0)
  BY DEF Cycle, Go, Sends2
<1> QED
  BY <1>7, <1>8, <1>9 DEF Request1, Request2

\* The instructions in the issue register.
LEMMA QueueType ==
  ASSUME BkInv, NEW j \in 1 .. Len(issue_q)
  PROVE  /\ issue_q[j] \in Decoded /\ WellFormed(issue_q[j])
         /\ issue_q[j].kind \in program.kinds /\ issue_q[j].kind \in Kinds
         /\ issue_q[j].rd \in 0 .. 1 /\ issue_q[j].rs \in 0 .. 1
         /\ issue_q[j].miss \in BOOLEAN /\ issue_q[j].wrong \in BOOLEAN
<1>1. issue_q[j] \in Decoded
  BY DEF BkInv, BkTypeOK
<1> QED
  BY <1>1 DEF BkInv, BkTypeOK, Decoded

\* An instruction goes to the unit of its kind, or to the second ALU.
LEMMA UnitFacts ==
  ASSUME NEW q, NEW n, n.kind \in Kinds, NEW busy
  PROVE  /\ \/ Unit(q, n, busy) = fu(n)
            \/ Unit(q, n, busy) = "ALU2" /\ fu(n) = "ALU" /\ use_alu2(q, busy)
         /\ Unit(q, n, busy) = "ALU" => ~use_alu2(q, busy)
         /\ ~Trapped(n) => Unit(q, n, busy) \in Units
<1>1. Trapped(n) <=> n.kind = "trap"
  BY DEF Trapped
<1> QED
  BY <1>1, UnitOfKind DEF Unit, Units

\* What the second port must not use.
LEMMA Busy1 ==
  ASSUME NEW q, NEW busy0, q[1].kind \in Kinds
  PROVE  /\ busy0 \subseteq fus_busy1(q, busy0) /\ "CSR" \in fus_busy1(q, busy0)
         /\ fu(q[1]) \in {"CTRL_FLOW", "CSR"} \/ (fu(q[1]) = "ALU" /\ ~use_alu2(q, busy0))
              => {"ALU", "CTRL_FLOW"} \subseteq fus_busy1(q, busy0)
         /\ fu(q[1]) = "MULT" => "MULT" \in fus_busy1(q, busy0)
<1> DEFINE own ==
      CASE fu(q[1]) = "NONE"      -> {"NONE"}
        [] fu(q[1]) = "CTRL_FLOW" -> {"ALU", "CTRL_FLOW", "CSR", "LOAD", "STORE"}
        [] fu(q[1]) = "ALU"       -> IF use_alu2(q, busy0) THEN {"ALU2"}
                                     ELSE {"ALU", "CTRL_FLOW", "CSR"}
        [] fu(q[1]) = "CSR"       -> {"ALU", "ALU2", "CTRL_FLOW", "MULT", "LOAD", "STORE", "NONE"}
        [] fu(q[1]) = "MULT"      -> {"MULT"}
        [] fu(q[1]) \in {"LOAD", "STORE"} -> {"LOAD", "STORE"}
<1>1. fus_busy1(q, busy0) = busy0 \union {"CSR"} \union own
  BY Zenon DEF fus_busy1
<1>2. fu(q[1]) = "CTRL_FLOW" => own = {"ALU", "CTRL_FLOW", "CSR", "LOAD", "STORE"}
  OBVIOUS
<1>3. fu(q[1]) = "CSR" => own = {"ALU", "ALU2", "CTRL_FLOW", "MULT", "LOAD", "STORE", "NONE"}
  OBVIOUS
<1>4. fu(q[1]) = "MULT" => own = {"MULT"}
  OBVIOUS
<1>5. fu(q[1]) = "ALU" /\ ~use_alu2(q, busy0) => own = {"ALU", "CTRL_FLOW", "CSR"}
  OBVIOUS
<1> HIDE DEF own
<1> QED
  BY <1>1, <1>2, <1>3, <1>4, <1>5

\* What neither port uses.
LEMMA Busy0 ==
  ASSUME NEW in, NEW div_done, NEW ld, NEW st, NEW wb, NEW busy0, NEW k,
         Cycle(in, div_done, ld, st, wb, busy0, k)
  PROVE  /\ ~flu_ready(in) => {"ALU", "CTRL_FLOW", "CSR", "MULT"} \subseteq busy0
         /\ mult_valid_q => {"ALU", "CTRL_FLOW", "CSR"} \subseteq busy0
<1>1. PICK lsu_ready \in BOOLEAN : busy0 = fus_busy0(flu_ready(in), lsu_ready, mult_valid_q)
  BY DEF Cycle
<1> QED
  BY <1>1 DEF fus_busy0

\* A request for the port of the fixed-latency units, or for the multiplier,
\* finds the multiplier and the divider idle.
LEMMA RequestsApart ==
  ASSUME BkInv, NEW in, NEW div_done, NEW ld, NEW st, NEW wb, NEW busy0, NEW k,
         Cycle(in, div_done, ld, st, wb, busy0, k), NEW f \in fu_q'
  PROVE  /\ f.unit \in {"ALU", "CTRL_FLOW", "CSR", "MULT"} => flu_ready(in)
         /\ f.unit \in {"ALU", "CTRL_FLOW", "CSR"} => ~mult_valid_q
         /\ \A g \in fu_q' : /\ f.unit = "MULT" /\ g.unit = "MULT" => f = g
                             /\ /\ f.unit \in {"ALU", "CTRL_FLOW", "CSR"}
                                /\ g.unit \in {"ALU", "CTRL_FLOW", "CSR"}
                                => f = g
<1> DEFINE busy1 == fus_busy1(issue_q, busy0)
           r1 == Request1(busy0)
           r2 == Request2(busy0)
           K == {"ALU", "CTRL_FLOW", "CSR"}
<1>1. /\ \A g \in fu_q' : \/ Sends1(k) /\ g = r1
                          \/ Sends2(k) /\ g = r2
      /\ Sends1(k) => r1.unit \notin busy0
      /\ Sends2(k) => r2.unit \notin busy1
  BY SentFacts
<1>2. k \in 0 .. 2 /\ k <= Len(issue_q) /\ Len(issue_q) \in Nat
  BY DEF Cycle, Go, BkInv, BkTypeOK
<1>3. Sends1(k) \/ Sends2(k) => issue_q[1].kind \in Kinds
  BY <1>2, QueueType DEF Sends1, Sends2
<1>4. Sends2(k) => busy0 \subseteq busy1 /\ "CSR" \in busy1
  BY <1>3, Busy1
<1>5. f.unit \notin busy0
  BY <1>1, <1>4
<1>6. ~flu_ready(in) => K \union {"MULT"} \subseteq busy0
  BY Busy0
<1>7. mult_valid_q => K \subseteq busy0
  BY Busy0
<1>8. ASSUME Sends1(k), Sends2(k) PROVE ~(r1.unit \in K /\ r2.unit \in K)
  <2>1. /\ \/ r1.unit = fu(issue_q[1])
           \/ r1.unit = "ALU2" /\ fu(issue_q[1]) = "ALU" /\ use_alu2(issue_q, busy0)
        /\ r1.unit = "ALU" => ~use_alu2(issue_q, busy0)
    BY <1>3, <1>8, UnitFacts DEF Request1
  <2>2. ASSUME r1.unit \in K
        PROVE  {"ALU", "CTRL_FLOW"} \subseteq busy1 /\ "CSR" \in busy1
    BY <1>3, <1>8, <2>1, <2>2, Busy1
  <2> QED
    BY <1>1, <1>8, <2>2
<1>9. ASSUME Sends1(k), Sends2(k) PROVE ~(r1.unit = "MULT" /\ r2.unit = "MULT")
  <2>1. \/ r1.unit = fu(issue_q[1])
        \/ r1.unit = "ALU2"
    BY <1>3, <1>9, UnitFacts DEF Request1
  <2>2. r1.unit = "MULT" => "MULT" \in busy1
    BY <1>3, <1>9, <2>1, Busy1
  <2> QED
    BY <1>1, <1>9, <2>2
<1> HIDE DEF r1, r2, K, busy1
<1>10. \A g \in fu_q' : /\ f.unit = "MULT" /\ g.unit = "MULT" => f = g
                        /\ f.unit \in K /\ g.unit \in K => f = g
  BY <1>1, <1>8, <1>9
<1> QED
  BY <1>5, <1>6, <1>7, <1>10 DEF K

\* The write-back port of the fixed-latency units stays free of conflicts.
LEMMA FluStep ==
  ASSUME BkInv, NEW in, NEW div_done, NEW ld, NEW st, NEW wb, NEW busy0, NEW k,
         Cycle(in, div_done, ld, st, wb, busy0, k)
  PROVE  FluOK'
<1> DEFINE K == {"ALU", "CTRL_FLOW", "CSR"}
<1>1. \A f \in fu_q' :
        /\ f.unit \in {"ALU", "CTRL_FLOW", "CSR", "MULT"} => flu_ready(in)
        /\ f.unit \in {"ALU", "CTRL_FLOW", "CSR"} => ~mult_valid_q
        /\ \A g \in fu_q' : /\ f.unit = "MULT" /\ g.unit = "MULT" => f = g
                            /\ /\ f.unit \in {"ALU", "CTRL_FLOW", "CSR"}
                               /\ g.unit \in {"ALU", "CTRL_FLOW", "CSR"}
                               => f = g
  BY RequestsApart
<1>2. flu_ready(in) => div_q' = {}
  <2>1. ASSUME flu_ready(in) PROVE div_q = {} /\ divs = {}
    BY <2>1 DEF flu_ready, mult_ready, div_valid_op, divs
  <2>2. div_q' = SerdivNext(flush_id(in), div_done)
    BY DEF Cycle
  <2> QED
    BY <2>1, <2>2 DEF SerdivNext
<1>3. ~mult_valid_q => mul_q' = {}
  <2>1. mul_q' = MultiplierNext(flush_id(in))
    BY DEF Cycle
  <2>2. ~mult_valid_q => muls = {}
    BY DEF mult_valid_q, muls
  <2> QED
    BY <2>1, <2>2 DEF MultiplierNext
<1>4. one_cycle' = {f \in fu_q' : f.unit \in K} /\ In({"MULT"})' = {f \in fu_q' : f.unit = "MULT"}
  <2>1. one_cycle' = {f \in fu_q' : f.unit \in {"ALU", "CTRL_FLOW", "CSR"}}
    BY DEF one_cycle, In
  <2>2. In({"MULT"})' = {f \in fu_q' : f.unit = "MULT"}
    BY DEF In
  <2> QED
    BY <2>1, <2>2
<1>5. \A f, g \in one_cycle' : f = g
  BY <1>1, <1>4
<1>6. one_cycle' # {} => mul_q' = {} /\ div_q' = {}
  BY <1>1, <1>2, <1>3, <1>4
<1>7. \A f, g \in In({"MULT"})' : f = g
  BY <1>1, <1>4
<1>8. div_q' # {} => In({"MULT"})' = {}
  BY <1>1, <1>2, <1>4
<1> QED
  BY <1>5, <1>6, <1>7, <1>8 DEF FluOK

\* The next requests name the slots issued in this cycle, in the unit of the
\* instruction that was written there.
LEMMA UnitsStep ==
  ASSUME BkInv, NEW in, NEW div_done, NEW ld, NEW st, NEW wb, NEW busy0, NEW k,
         Cycle(in, div_done, ld, st, wb, busy0, k)
  PROVE  /\ UnitsOK'
         /\ fu_q' \subseteq [port : 0 .. 1, unit : Units, tid : Slots, miss : BOOLEAN]
         /\ \A f, g \in fu_q' : f.tid = g.tid => f = g
<1> DEFINE r1 == Request1(busy0)
           r2 == Request2(busy0)
<1>1. \A f \in fu_q' : \/ Sends1(k) /\ f = r1
                       \/ Sends2(k) /\ f = r2
  BY SentFacts
<1>2. /\ k \in 0 .. 2 /\ k <= Len(issue_q) /\ Len(issue_q) \in Nat
      /\ issue_pointer \in Slots /\ second \in Slots
      /\ k = 2 => second # issue_pointer
  <2>1. k <= Len(issue_q) /\ Len(issue_q) \in Nat
    BY DEF Cycle, Go, BkInv, BkTypeOK
  <2> QED
    BY <2>1, NewSlotsFree
<1>3. ASSUME Sends1(k)
      PROVE  /\ r1.tid = issue_pointer /\ r1 \in [port : 0 .. 1, unit : Units, tid : Slots, miss : BOOLEAN]
             /\ \/ r1.unit = fu(mem'[r1.tid].instr)
                \/ r1.unit = "ALU2" /\ mem'[r1.tid].instr.kind = "alu"
             /\ r1.miss => r1.unit = "CTRL_FLOW"
  <2> DEFINE d == issue_q[1]
             n == mem'[issue_pointer].instr
             u == Unit(issue_q, d, busy0)
  <2>1. d.kind \in Kinds /\ d.miss \in BOOLEAN /\ WellFormed(d)
    BY <1>2, <1>3, QueueType DEF Sends1
  <2>2. n.kind = d.kind
    BY <1>3, NewSlot1 DEF Sends1, Fresh
  <2>3. /\ \/ u = fu(d)
           \/ u = "ALU2" /\ fu(d) = "ALU"
        /\ u \in Units
    BY <1>3, <2>1, UnitFacts DEF Sends1
  <2>4. /\ fu(d) = "ALU" <=> d.kind = "alu"
        /\ fu(d) = "CTRL_FLOW" <=> d.kind = "branch"
    BY <2>1, UnitOfKind
  <2>5. fu(n) = fu(d)
    BY <2>2, Zenon DEF fu
  <2>6. d.miss => d.kind = "branch"
    BY <2>1 DEF WellFormed
  <2> HIDE DEF u, d, n
  <2>7. /\ r1.tid = issue_pointer /\ r1.unit = u /\ r1.miss = d.miss
        /\ r1 \in [port : 0 .. 1, unit : Units, tid : Slots, miss : BOOLEAN]
    <3>1. r1 = [port |-> 0, unit |-> u, tid |-> issue_pointer, miss |-> d.miss]
      BY DEF Request1, u, d
    <3> QED
      BY <1>2, <2>1, <2>3, <3>1
  <2> HIDE DEF r1
  <2>8. mem'[r1.tid].instr = n
    BY <2>7 DEF n
  <2> QED
    BY <2>2, <2>3, <2>4, <2>5, <2>6, <2>7, <2>8
<1>4. ASSUME Sends2(k)
      PROVE  /\ r2.tid = second /\ r2 \in [port : 0 .. 1, unit : Units, tid : Slots, miss : BOOLEAN]
             /\ \/ r2.unit = fu(mem'[r2.tid].instr)
                \/ r2.unit = "ALU2" /\ mem'[r2.tid].instr.kind = "alu"
             /\ r2.miss => r2.unit = "CTRL_FLOW"
  <2> DEFINE d == issue_q[2]
             n == mem'[second].instr
             u == Unit(issue_q, d, fus_busy1(issue_q, busy0))
  <2>1. d.kind \in Kinds /\ d.miss \in BOOLEAN /\ WellFormed(d)
    BY <1>2, <1>4, QueueType DEF Sends2
  <2>2. n.kind = d.kind
    BY <1>4, NewSlot2 DEF Sends2, Fresh
  <2>3. /\ \/ u = fu(d)
           \/ u = "ALU2" /\ fu(d) = "ALU"
        /\ u \in Units
    BY <1>4, <2>1, UnitFacts DEF Sends2
  <2>4. /\ fu(d) = "ALU" <=> d.kind = "alu"
        /\ fu(d) = "CTRL_FLOW" <=> d.kind = "branch"
    BY <2>1, UnitOfKind
  <2>5. fu(n) = fu(d)
    BY <2>2, Zenon DEF fu
  <2>6. d.miss => d.kind = "branch"
    BY <2>1 DEF WellFormed
  <2> HIDE DEF u, d, n
  <2>7. /\ r2.tid = second /\ r2.unit = u /\ r2.miss = d.miss
        /\ r2 \in [port : 0 .. 1, unit : Units, tid : Slots, miss : BOOLEAN]
    <3>1. r2 = [port |-> 1, unit |-> u, tid |-> second, miss |-> d.miss]
      BY DEF Request2, u, d
    <3> QED
      BY <1>2, <2>1, <2>3, <3>1
  <2> HIDE DEF r2
  <2>8. mem'[r2.tid].instr = n
    BY <2>7 DEF n
  <2> QED
    BY <2>2, <2>3, <2>4, <2>5, <2>6, <2>7, <2>8
<1> HIDE DEF r1, r2
<1>5. \A f \in fu_q' : f \in [port : 0 .. 1, unit : Units, tid : Slots, miss : BOOLEAN]
  BY <1>1, <1>3, <1>4
<1>6. \A f, g \in fu_q' : f.tid = g.tid => f = g
  BY <1>1, <1>2, <1>3, <1>4 DEF Sends2
<1>7. UnitsOK'
  <2>1. \A f \in fu_q' : /\ \/ f.unit = fu(mem'[f.tid].instr)
                            \/ f.unit = "ALU2" /\ mem'[f.tid].instr.kind = "alu"
                         /\ f.miss => f.unit = "CTRL_FLOW"
    BY <1>1, <1>3, <1>4
  <2> QED
    BY <2>1, Zenon DEF UnitsOK, kind, fu
<1> QED
  BY <1>5, <1>6, <1>7

-----------------------------------------------------------------------------
(***************************************************************************)
(* Where unfinished instructions go.                                       *)
(***************************************************************************)
\* the request in execute, by what becomes of it
ExNow(i) == \E f \in fu_q : f.tid = i /\ f.unit \in {"ALU", "CTRL_FLOW", "CSR", "ALU2"}
ExMul(i) == \E f \in fu_q : f.tid = i /\ f.unit = "MULT" /\ kind(i) = "mul"
ExDiv(i) == \E f \in fu_q : f.tid = i /\ f.unit = "MULT" /\ kind(i) = "div"
ExLsu(i) == \E f \in fu_q : f.tid = i /\ f.unit \in {"LOAD", "STORE"}

\* the request of the load-store unit that ends
Ends(i, done) == \E w \in done : w.tid = i

\* Execution takes one of these four courses.
LEMMA Courses ==
  ASSUME BkInv, NEW i \in Slots
  PROVE  /\ Executing(i) <=> ExNow(i) \/ ExMul(i) \/ ExDiv(i) \/ ExLsu(i)
         /\ ExNow(i) => ~ExMul(i) /\ ~ExDiv(i) /\ ~ExLsu(i)
         /\ ExMul(i) => ~ExDiv(i) /\ ~ExLsu(i)
         /\ ExDiv(i) => ~ExLsu(i)
         /\ ExMul(i) \/ ExDiv(i) => In({"MULT"}) # {}
         /\ \A j \in Slots : (ExMul(i) \/ ExDiv(i)) /\ (ExMul(j) \/ ExDiv(j)) => i = j
<1>1. \A f, g \in fu_q : f.tid = g.tid => f = g
  BY DEF BkInv, PlacesOK
<1>2. \A f \in fu_q : f.unit \in Units /\ f.tid \in Slots
  BY DEF BkInv, BkTypeOK
<1>3. ASSUME NEW f \in fu_q, f.tid = i, f.unit = "MULT"
      PROVE  kind(i) \in {"mul", "div"}
  <2>1. fu(mem[i].instr) = "MULT"
    BY <1>3 DEF BkInv, UnitsOK
  <2>2. mem[i].issued
    BY <1>3, AwaitedIssued DEF BkInv, Awaited, Executing
  <2>3. kind(i) \in Kinds
    <3>1. program.kinds \subseteq Kinds
      BY BackEndAssumption DEF BkInv, BkTypeOK, Workload
    <3> QED
      BY <2>2, <3>1 DEF BkInv, EntriesOK
  <2> QED
    BY <2>1, <2>3, UnitOfKind DEF kind
<1>4. \A f, g \in In({"MULT"}) : f = g
  BY DEF BkInv, FluOK
<1>5. Executing(i) => ExNow(i) \/ ExMul(i) \/ ExDiv(i) \/ ExLsu(i)
  BY <1>2, <1>3 DEF Executing, ExNow, ExMul, ExDiv, ExLsu, Units
<1> QED
  BY <1>1, <1>4, <1>5 DEF Executing, ExNow, ExMul, ExDiv, ExLsu, In

\* What ends in the load-store unit is there.
LEMMA EndsFacts ==
  ASSUME BkInv, NEW kinds, NEW done \in Finishing(kinds)
  PROVE  /\ \A w \in done : /\ w.tid \in lsu /\ kind(w.tid) \in kinds
                            /\ w \in [tid : Slots, ex : BOOLEAN]
         /\ \A v, w \in done : v = w
<1>1. program.faults \in BOOLEAN /\ lsu \subseteq Slots
  BY BackEndAssumption DEF BkInv, BkTypeOK, Workload
<1>2. CASE done = {}
  BY <1>2
<1>3. CASE done # {}
  <2>1. PICK i \in {j \in lsu : kind(j) \in kinds}, e \in {FALSE, program.faults} :
          done = {[tid |-> i, ex |-> e]}
    BY <1>3 DEF Finishing
  <2> DEFINE r == [tid |-> i, ex |-> e]
  <2>2. r.tid = i /\ r \in [tid : Slots, ex : BOOLEAN]
    BY <1>1
  <2>3. i \in lsu /\ kind(i) \in kinds
    BY <2>1
  <2>4. \A w \in done : w = r
    BY <2>1
  <2> HIDE DEF r
  <2>5. kind(r.tid) \in kinds
    BY <2>2, <2>3
  <2> QED
    BY <2>2, <2>3, <2>4, <2>5
<1> QED
  BY <1>2, <1>3

\* The slot whose result is on the write-back port of the fixed-latency units.
LEMMA FluResult ==
  ASSUME BkInv, NEW div_done, NEW i \in Slots
  PROVE  flu_valid(div_done) /\ flu_trans_id(div_done) = i
           <=> \/ \E f \in one_cycle : f.tid = i
               \/ i \in mul_q
               \/ i \in div_q /\ div_done /\ mul_q = {}
<1>1. /\ \A f, g \in one_cycle : f = g
      /\ one_cycle # {} => mul_q = {} /\ div_q = {}
      /\ \A x, y \in mul_q : x = y
      /\ \A x, y \in div_q : x = y
  BY DEF BkInv, FluOK, PlacesOK
<1>2. CASE one_cycle # {}
  <2>1. PICK f \in one_cycle : TRUE
    BY <1>2
  <2>2. one_cycle_data = f
    BY OneCycleData DEF BkInv
  <2>3. ~mult_valid(div_done)
    BY <1>1, <1>2 DEF mult_valid
  <2>4. flu_valid(div_done) /\ flu_trans_id(div_done) = f.tid
    BY <1>2, <2>2, <2>3 DEF flu_valid, flu_trans_id
  <2> QED
    BY <1>1, <1>2, <2>4
<1>3. CASE one_cycle = {}
  <2>1. In({"ALU", "CSR"}) = {}
    BY <1>3 DEF one_cycle, In
  <2>2. CASE mul_q # {}
    <3>1. PICK x \in mul_q : TRUE
      BY <2>2
    <3>2. mul_q = {x}
      BY <1>1, <3>1
    <3>3. flu_valid(div_done) /\ flu_trans_id(div_done) = CHOOSE y \in mul_q : TRUE
      BY <2>1, <2>2 DEF flu_valid, mult_valid, mult_trans_id, flu_trans_id
    <3>4. (CHOOSE y \in mul_q : TRUE) = x
      BY <3>2
    <3> QED
      BY <1>3, <3>2, <3>3, <3>4
  <2>3. CASE mul_q = {} /\ div_q # {} /\ div_done
    <3>1. PICK x \in div_q : TRUE
      BY <2>3
    <3>2. div_q = {x}
      BY <1>1, <3>1
    <3>3. flu_valid(div_done) /\ flu_trans_id(div_done) = CHOOSE y \in div_q : TRUE
      BY <2>1, <2>3 DEF flu_valid, mult_valid, mult_trans_id, flu_trans_id
    <3>4. (CHOOSE y \in div_q : TRUE) = x
      BY <3>2
    <3> QED
      BY <1>3, <2>3, <3>2, <3>3, <3>4
  <2>4. CASE mul_q = {} /\ ~(div_q # {} /\ div_done)
    BY <1>3, <2>4 DEF flu_valid, mult_valid
  <2> QED
    BY <2>2, <2>3, <2>4
<1> QED
  BY <1>2, <1>3

\* Whose results are written back in a cycle.
LEMMA WrittenBack ==
  ASSUME BkInv, NEW in, NEW div_done, NEW ld, NEW st, NEW wb, NEW busy0, NEW k,
         Cycle(in, div_done, ld, st, wb, busy0, k), NEW i \in Slots
  PROVE  Ends(i, wb) <=> \/ ExNow(i)
                         \/ i \in mul_q
                         \/ i \in div_q /\ div_done /\ mul_q = {}
                         \/ Loaded(i) \/ Ends(i, st)
<1> DEFINE A == IF flu_valid(div_done) THEN {[tid |-> flu_trans_id(div_done), ex |-> FALSE]} ELSE {}
           B == {[tid |-> f.tid, ex |-> FALSE] : f \in In({"ALU2"})}
<1>1. wb = A \union B \union load_out \union st
  BY Zenon DEF Cycle, WriteBackPorts
<1>2. Ends(i, A) <=> flu_valid(div_done) /\ flu_trans_id(div_done) = i
  <2> DEFINE r == [tid |-> flu_trans_id(div_done), ex |-> FALSE]
  <2>1. r.tid = flu_trans_id(div_done)
    OBVIOUS
  <2>2. A = IF flu_valid(div_done) THEN {r} ELSE {}
    OBVIOUS
  <2> HIDE DEF r, A
  <2> QED
    BY <2>1, <2>2 DEF Ends
<1>3. Ends(i, B) <=> \E f \in In({"ALU2"}) : f.tid = i
  <2> DEFINE r(f) == [tid |-> f.tid, ex |-> FALSE]
  <2>1. \A f \in In({"ALU2"}) : r(f).tid = f.tid
    OBVIOUS
  <2>2. \A w : w \in B <=> \E f \in In({"ALU2"}) : w = r(f)
    OBVIOUS
  <2> HIDE DEF r, B
  <2> QED
    BY <2>1, <2>2 DEF Ends
<1> HIDE DEF A, B
<1>4. Ends(i, wb) <=> Ends(i, A) \/ Ends(i, B) \/ Loaded(i) \/ Ends(i, st)
  BY <1>1 DEF Ends, Loaded
<1>5. ExNow(i) <=> (\E f \in one_cycle : f.tid = i) \/ (\E f \in In({"ALU2"}) : f.tid = i)
  BY DEF ExNow, one_cycle, In
<1> QED
  BY <1>2, <1>3, <1>4, <1>5, FluResult

\* Where the instructions are after a cycle without a flush.
LEMMA PlacesAfter ==
  ASSUME BkInv, NEW in, NEW div_done, NEW ld, NEW st, NEW wb, NEW busy0, NEW k,
         Cycle(in, div_done, ld, st, wb, busy0, k), ~flush_id(in), NEW i \in Slots
  PROVE  /\ i \in mul_q' <=> ExMul(i)
         /\ i \in div_q' <=> ExDiv(i) \/ (i \in div_q /\ ~(div_done /\ mul_q = {}))
         /\ i \in lsu' <=> (i \in lsu \/ ExLsu(i)) /\ ~Ends(i, ld) /\ ~Ends(i, st)
         /\ Loaded(i)' <=> Ends(i, ld)
         /\ Executing(i)' <=> \/ Sends1(k) /\ i = issue_pointer
                              \/ Sends2(k) /\ i = second
<1>1. i \in mul_q' <=> ExMul(i)
  <2>1. mul_q' = muls
    BY DEF Cycle, MultiplierNext
  <2>2. i \in muls <=> ExMul(i)
    BY DEF muls, In, ExMul
  <2> QED
    BY <2>1, <2>2
<1>2. i \in div_q' <=> ExDiv(i) \/ (i \in div_q /\ ~(div_done /\ mul_q = {}))
  <2>1. div_q' = IF div_q = {} THEN divs ELSE IF div_done /\ mul_q = {} THEN {} ELSE div_q
    BY DEF Cycle, SerdivNext
  <2>2. i \in divs <=> ExDiv(i)
    BY DEF divs, In, ExDiv
  <2>3. div_q # {} => ~ExDiv(i)
    BY Courses DEF BkInv, FluOK
  <2> QED
    BY <2>1, <2>2, <2>3
<1>3. i \in lsu' <=> (i \in lsu \/ ExLsu(i)) /\ ~Ends(i, ld) /\ ~Ends(i, st)
  <2>1. lsu' = (lsu \union {f.tid : f \in In({"LOAD", "STORE"})}) \ {w.tid : w \in ld \union st}
    BY DEF Cycle, LsuNext
  <2> QED
    BY <2>1 DEF In, ExLsu, Ends
<1>4. Loaded(i)' <=> Ends(i, ld)
  <2>1. load_out' = ld
    BY DEF Cycle
  <2> QED
    BY <2>1 DEF Loaded, Ends
<1>5. Executing(i)' <=> \/ Sends1(k) /\ i = issue_pointer
                        \/ Sends2(k) /\ i = second
  <2>1. \A f : f \in fu_q' <=> \/ Sends1(k) /\ f = Request1(busy0)
                               \/ Sends2(k) /\ f = Request2(busy0)
    BY SentFacts
  <2>2. Request1(busy0).tid = issue_pointer /\ Request2(busy0).tid = second
    BY DEF Request1, Request2
  <2> QED
    BY <2>1, <2>2 DEF Executing
<1> QED
  BY <1>1, <1>2, <1>3, <1>4, <1>5

\* What the invariant says of the places of one instruction, and which requests
\* of the load-store unit end.
LEMMA PlacesNow ==
  ASSUME BkInv, NEW in, NEW div_done, NEW ld, NEW st, NEW wb, NEW busy0, NEW k,
         Cycle(in, div_done, ld, st, wb, busy0, k), NEW i \in Slots
  PROVE  /\ mem[i].issued /\ ~mem[i].valid <=> Awaited(i)
         /\ Awaited(i) <=> \/ ExNow(i) \/ ExMul(i) \/ ExDiv(i) \/ ExLsu(i)
                           \/ i \in mul_q \/ i \in div_q \/ i \in lsu
                           \/ Loaded(i) /\ mem[i].issued
         /\ ExNow(i) \/ ExMul(i) \/ ExDiv(i) \/ ExLsu(i)
              => i \notin mul_q /\ i \notin div_q /\ i \notin lsu /\ ~Loaded(i)
         /\ i \in mul_q => i \notin div_q /\ i \notin lsu /\ ~Loaded(i)
         /\ i \in div_q => i \notin lsu /\ ~Loaded(i)
         /\ i \in lsu => ~Loaded(i)
         /\ Ends(i, ld) => i \in lsu
         /\ Ends(i, st) => i \in lsu /\ ~Ends(i, ld)
         /\ Loaded(i) /\ ~mem[i].issued => issue_q = << >>
<1>1. /\ mem[i].issued /\ ~mem[i].valid <=> Awaited(i)
      /\ Executing(i) => i \notin mul_q /\ i \notin div_q /\ i \notin lsu /\ ~Loaded(i)
      /\ i \in mul_q => i \notin div_q /\ i \notin lsu /\ ~Loaded(i)
      /\ i \in div_q => i \notin lsu /\ ~Loaded(i)
      /\ i \in lsu => ~Loaded(i)
      /\ Loaded(i) /\ ~mem[i].issued => issue_q = << >>
  BY DEF BkInv, PlacesOK, Loaded
<1>2. Executing(i) <=> ExNow(i) \/ ExMul(i) \/ ExDiv(i) \/ ExLsu(i)
  BY Courses
<1>3. ld \in Finishing({"load"}) /\ st \in Finishing({"store", "amo"})
  BY DEF Cycle
<1>4. Ends(i, ld) => i \in lsu /\ kind(i) = "load"
  BY <1>3, EndsFacts DEF Ends
<1>5. Ends(i, st) => i \in lsu /\ kind(i) \in {"store", "amo"}
  BY <1>3, EndsFacts DEF Ends
<1>6. Awaited(i) <=> \/ Executing(i)
                     \/ i \in mul_q \/ i \in div_q \/ i \in lsu
                     \/ Loaded(i) /\ mem[i].issued
  BY DEF Awaited
<1> QED
  BY <1>1, <1>2, <1>4, <1>5, <1>6

\* Only slots that enter are named by the next requests, and only slots with an
\* unfinished instruction by the units behind them.
LEMMA PlacesOfWhom ==
  ASSUME BkInv, NEW in, NEW div_done, NEW ld, NEW st, NEW wb, NEW busy0, NEW k,
         Cycle(in, div_done, ld, st, wb, busy0, k), ~flush_id(in), NEW i \in Slots
  PROVE  /\ Executing(i)' => Enters(i, k)
         /\ i \in mul_q' \/ i \in div_q' \/ i \in lsu' \/ Loaded(i)'
              => mem[i].issued /\ ~mem[i].valid /\ Stays(i, in) /\ ~Enters(i, k)
<1>1. Executing(i)' => Enters(i, k)
  BY PlacesAfter DEF Enters, Sends1, Sends2
<1>2. i \in mul_q' \/ i \in div_q' \/ i \in lsu' \/ Loaded(i)' => Awaited(i)
  BY PlacesAfter, PlacesNow
<1>3. Awaited(i) => mem[i].issued /\ ~mem[i].valid
  BY PlacesNow
<1>4. mem[i].issued /\ ~mem[i].valid => Stays(i, in)
  BY RetiredIsValid DEF Stays
<1>5. Stays(i, in) => ~Enters(i, k)
  BY SlotsAfter
<1> QED
  BY <1>1, <1>2, <1>3, <1>4, <1>5

\* After the cycle it is again the unfinished instructions that are in a place.
LEMMA AwaitedStep ==
  ASSUME BkInv, NEW in, NEW div_done, NEW ld, NEW st, NEW wb, NEW busy0, NEW k,
         Cycle(in, div_done, ld, st, wb, busy0, k), ~flush_id(in), NEW i \in Slots
  PROVE  mem'[i].issued /\ ~mem'[i].valid <=> Awaited(i)'
<1>0. Awaited(i)' <=> \/ Executing(i)'
                      \/ i \in mul_q' \/ i \in div_q' \/ i \in lsu'
                      \/ Loaded(i)' /\ mem'[i].issued
  BY DEF Awaited
<1>1. mem'[i].issued <=> Stays(i, in) \/ Enters(i, k)
  BY SlotsAfter
<1>2. CASE Stays(i, in)
  <2>1. ~Enters(i, k)
    BY <1>2, SlotsAfter
  <2>2. mem[i].issued /\ mem'[i].issued
    BY <1>1, <1>2 DEF Stays
  <2>3. mem'[i].valid <=> mem[i].valid \/ Ends(i, wb)
    BY <1>2, KeptSlot DEF Stays, Ends
  <2>4. ~Executing(i)'
    BY <2>1, PlacesOfWhom
  <2>5. /\ i \in mul_q' <=> ExMul(i)
        /\ i \in div_q' <=> ExDiv(i) \/ (i \in div_q /\ ~(div_done /\ mul_q = {}))
        /\ i \in lsu' <=> (i \in lsu \/ ExLsu(i)) /\ ~Ends(i, ld) /\ ~Ends(i, st)
        /\ Loaded(i)' <=> Ends(i, ld)
    BY PlacesAfter
  <2>6. Ends(i, wb) <=> \/ ExNow(i)
                        \/ i \in mul_q
                        \/ i \in div_q /\ div_done /\ mul_q = {}
                        \/ Loaded(i) \/ Ends(i, st)
    BY WrittenBack
  <2>7. ExNow(i) => ~ExMul(i) /\ ~ExDiv(i) /\ ~ExLsu(i)
    BY Courses
  <2> QED
    BY <1>0, <2>2, <2>3, <2>4, <2>5, <2>6, <2>7, PlacesNow
<1>3. CASE Enters(i, k)
  <2>1. ~(i \in mul_q' \/ i \in div_q' \/ i \in lsu' \/ Loaded(i)')
    BY <1>3, PlacesOfWhom
  <2>2. CASE k > 0 /\ i = issue_pointer
    <3>1. mem'[i].issued /\ (mem'[i].valid <=> Trapped(issue_q[1]))
      BY <2>2, NewSlot1 DEF Fresh
    <3>2. ~(Sends2(k) /\ i = second)
      BY <2>2, NewSlotsFree DEF Sends2
    <3>3. Executing(i)' <=> ~Trapped(issue_q[1])
      BY <2>2, <3>2, PlacesAfter DEF Sends1
    <3> QED
      BY <1>0, <2>1, <3>1, <3>3
  <2>3. CASE k = 2 /\ i = second
    <3>1. mem'[i].issued /\ (mem'[i].valid <=> Trapped(issue_q[2]))
      BY <2>3, NewSlot2 DEF Fresh
    <3>2. i # issue_pointer
      BY <2>3, NewSlotsFree
    <3>3. Executing(i)' <=> ~Trapped(issue_q[2])
      BY <2>3, <3>2, PlacesAfter DEF Sends2
    <3> QED
      BY <1>0, <2>1, <3>1, <3>3
  <2> QED
    BY <1>3, <2>2, <2>3 DEF Enters
<1>4. CASE ~Stays(i, in) /\ ~Enters(i, k)
  BY <1>0, <1>1, <1>4, PlacesOfWhom
<1> QED
  BY <1>2, <1>3, <1>4

\* Every place holds one instruction and no two the same.
LEMMA ApartStep ==
  ASSUME BkInv, NEW in, NEW div_done, NEW ld, NEW st, NEW wb, NEW busy0, NEW k,
         Cycle(in, div_done, ld, st, wb, busy0, k), ~flush_id(in), NEW i \in Slots
  PROVE  /\ Executing(i)' => i \notin mul_q' /\ i \notin div_q' /\ i \notin lsu' /\ ~Loaded(i)'
         /\ i \in mul_q' => i \notin div_q' /\ i \notin lsu' /\ ~Loaded(i)'
         /\ i \in div_q' => i \notin lsu' /\ ~Loaded(i)'
         /\ i \in lsu' => ~Loaded(i)'
<1>1. Executing(i)' => ~(i \in mul_q' \/ i \in div_q' \/ i \in lsu' \/ Loaded(i)')
  BY PlacesOfWhom
<1>2. /\ i \in mul_q' <=> ExMul(i)
      /\ i \in div_q' <=> ExDiv(i) \/ (i \in div_q /\ ~(div_done /\ mul_q = {}))
      /\ i \in lsu' <=> (i \in lsu \/ ExLsu(i)) /\ ~Ends(i, ld) /\ ~Ends(i, st)
      /\ Loaded(i)' <=> Ends(i, ld)
  BY PlacesAfter
<1>3. /\ ExMul(i) => ~ExDiv(i) /\ ~ExLsu(i)
      /\ ExDiv(i) => ~ExLsu(i)
  BY Courses
<1> QED
  BY <1>1, <1>2, <1>3, PlacesNow

\* The places after a cycle.
LEMMA PlacesStep ==
  ASSUME BkInv, NEW in, NEW div_done, NEW ld, NEW st, NEW wb, NEW busy0, NEW k,
         Cycle(in, div_done, ld, st, wb, busy0, k)
  PROVE  /\ PlacesOK'
         /\ mul_q' \subseteq Slots /\ div_q' \subseteq Slots /\ lsu' \subseteq Slots
         /\ load_out' \subseteq [tid : Slots, ex : BOOLEAN]
<1>1. /\ load_out' = ld
      /\ \A w \in ld : w.tid \in lsu /\ w \in [tid : Slots, ex : BOOLEAN]
      /\ \A v, w \in ld : v = w
  BY EndsFacts DEF Cycle
<1>2. mul_q' \subseteq Slots /\ div_q' \subseteq Slots /\ lsu' \subseteq Slots
  <2>1. \A f \in fu_q : f.tid \in Slots
    BY FuType DEF BkInv
  <2>2. div_q \subseteq Slots /\ lsu \subseteq Slots
    BY DEF BkInv, BkTypeOK
  <2>3. muls \subseteq Slots /\ divs \subseteq Slots /\ {f.tid : f \in In({"LOAD", "STORE"})} \subseteq Slots
    BY <2>1 DEF muls, divs, In
  <2>4. mul_q' \subseteq muls
    BY DEF Cycle, MultiplierNext
  <2>5. div_q' \subseteq div_q \union divs
    BY DEF Cycle, SerdivNext
  <2>6. lsu' \subseteq lsu \union {f.tid : f \in In({"LOAD", "STORE"})}
    BY DEF Cycle, LsuNext
  <2> QED
    BY <2>2, <2>3, <2>4, <2>5, <2>6
<1>3. \A f, g \in fu_q' : f.tid = g.tid => f = g
  BY UnitsStep
<1>4. CASE flush_id(in)
  <2>1. mul_q' = {} /\ div_q' = {} /\ lsu' = {} /\ issue_q' = << >> /\ k = 0
    BY <1>4 DEF Cycle, MultiplierNext, SerdivNext, LsuNext
  <2>2. fu_q' = {}
    BY <2>1, SentFacts DEF Sends1, Sends2
  <2>3. \A i \in Slots : ~mem'[i].issued
    BY <1>4, SlotsFlushed
  <2>4. \A i \in Slots : ~Awaited(i)' /\ ~Executing(i)'
    BY <2>1, <2>2, <2>3 DEF Awaited, Executing
  <2> QED
    BY <1>1, <1>2, <1>3, <2>1, <2>3, <2>4 DEF PlacesOK
<1>5. CASE ~flush_id(in)
  <2>1. \A i \in Slots : mem'[i].issued /\ ~mem'[i].valid <=> Awaited(i)'
    BY <1>5, AwaitedStep
  <2>2. ASSUME NEW i \in Slots
        PROVE  /\ Executing(i)' => i \notin mul_q' /\ i \notin div_q' /\ i \notin lsu' /\ ~Loaded(i)'
               /\ i \in mul_q' => i \notin div_q' /\ i \notin lsu' /\ ~Loaded(i)'
               /\ i \in div_q' => i \notin lsu' /\ ~Loaded(i)'
               /\ i \in lsu' => ~Loaded(i)'
    BY <1>5, ApartStep
  <2>3. \A i, j \in mul_q' : i = j
    BY <1>2, <1>5, PlacesAfter, Courses
  <2>4. \A i, j \in div_q' : i = j
    <3>1. \A i, j \in div_q : i = j
      BY DEF BkInv, PlacesOK
    <3>2. div_q # {} => In({"MULT"}) = {}
      BY DEF BkInv, FluOK
    <3>3. ASSUME NEW i \in Slots, ExDiv(i) PROVE In({"MULT"}) # {}
      BY <3>3, Courses
    <3>4. \A i, j \in Slots : ExDiv(i) /\ ExDiv(j) => i = j
      BY Courses
    <3>5. \A i \in Slots : i \in div_q' => ExDiv(i) \/ i \in div_q
      BY <1>5, PlacesAfter
    <3> QED
      BY <1>2, <3>1, <3>2, <3>3, <3>4, <3>5
  <2>5. ASSUME NEW w \in load_out' PROVE mem'[w.tid].issued
    <3>1. w.tid \in Slots /\ Loaded(w.tid)'
      BY <1>1, <2>5 DEF Loaded
    <3>2. Stays(w.tid, in)
      BY <1>5, <3>1, PlacesOfWhom
    <3> QED
      BY <1>5, <3>1, <3>2, SlotsAfter
  <2>6. \A v, w \in load_out' : v = w
    BY <1>1
  <2>7. PlacesOK'
    BY <1>3, <2>1, <2>2, <2>3, <2>4, <2>5, <2>6, Zenon DEF PlacesOK
  <2> QED
    BY <1>1, <1>2, <2>7
<1> QED
  BY <1>4, <1>5

-----------------------------------------------------------------------------
(***************************************************************************)
(* The ID <-> Issue register.                                              *)
(***************************************************************************)
\* what the front end may deliver for a program
Deliverable(d) == d \in Decoded /\ WellFormed(d) /\ d.kind \in program.kinds

\* The front end delivers nothing, or an instruction, or two to a dual-issue core;
\* on the wrong path they are all wrong, on the right path what follows a branch
\* miss is wrong.
LEMMA FetchFacts ==
  ASSUME BkTypeOK, NEW room, NEW fetched \in Fetches(room)
  PROVE  /\ Len(fetched) \in 0 .. 2 /\ Len(fetched) <= room
         /\ fetched \in Seq(Decoded)
         /\ \A j \in 1 .. Len(fetched) : Deliverable(fetched[j])
         /\ Len(fetched) > 0 => (fetched[1].wrong <=> wrong_path)
         /\ wrong_path => \A j \in 1 .. Len(fetched) : ~fetched[j].miss
         /\ ~wrong_path /\ Len(fetched) > 1 => (fetched[2].wrong <=> fetched[1].miss)
<1> DEFINE R == {d \in Decoded : d.kind \in program.kinds /\ WellFormed(d) /\ ~d.wrong}
           W == {d \in Decoded : d.kind \in program.kinds /\ WellFormed(d) /\ d.wrong}
<1>0. program \in Programs
  BY DEF BkTypeOK
<1>1. RightPath[program] = R /\ WrongPath[program] = W
  BY <1>0 DEF RightPath, WrongPath
<1>2. ASSUME fetched \in FetchRight[program]
      PROVE  \/ fetched = << >>
             \/ \E d \in R : fetched = << d >>
             \/ \E d \in R, e \in R : fetched = << d, e >> /\ ~d.miss
             \/ \E d \in R, e \in W : fetched = << d, e >> /\ d.miss
  <2> HIDE DEF R, W
  <2> QED
    BY <1>0, <1>1, <1>2 DEF FetchRight
<1>3. ASSUME fetched \in FetchWrong[program]
      PROVE  \/ fetched = << >>
             \/ \E d \in W : fetched = << d >>
             \/ \E d \in W, e \in W : fetched = << d, e >>
  <2> HIDE DEF R, W
  <2> QED
    BY <1>0, <1>1, <1>3 DEF FetchWrong
<1>4. /\ fetched \in IF wrong_path THEN FetchWrong[program] ELSE FetchRight[program]
      /\ Len(fetched) <= room
  BY DEF Fetches
<1>5. \A d \in R : Deliverable(d) /\ d \in Decoded /\ ~d.wrong
  BY DEF Deliverable
<1>6. \A d \in W : Deliverable(d) /\ d \in Decoded /\ d.wrong /\ ~d.miss
  BY DEF Deliverable, WellFormed, Decoded
<1> HIDE DEF R, W
<1>7. CASE fetched = << >>
  <2>1. Len(fetched) = 0 /\ fetched \in Seq(Decoded)
    BY <1>7
  <2> QED
    BY <1>4, <2>1
<1>8. ASSUME NEW d, fetched = << d >>, IF wrong_path THEN d \in W ELSE d \in R
      PROVE  /\ Len(fetched) = 1 /\ fetched \in Seq(Decoded) /\ Deliverable(fetched[1])
             /\ fetched[1].wrong <=> wrong_path
             /\ wrong_path => ~fetched[1].miss
  <2>1. d \in Decoded /\ Deliverable(d) /\ (d.wrong <=> wrong_path) /\ (wrong_path => ~d.miss)
    BY <1>5, <1>6, <1>8
  <2>2. fetched \in Seq(Decoded) /\ Len(fetched) = 1 /\ fetched[1] = d
    BY <1>8, <2>1
  <2> QED
    BY <2>1, <2>2
<1>9. ASSUME NEW d, NEW e, fetched = << d, e >>,
             IF wrong_path THEN d \in W /\ e \in W
             ELSE d \in R /\ IF d.miss THEN e \in W ELSE e \in R
      PROVE  /\ Len(fetched) = 2 /\ fetched \in Seq(Decoded)
             /\ Deliverable(fetched[1]) /\ Deliverable(fetched[2])
             /\ fetched[1].wrong <=> wrong_path
             /\ wrong_path => ~fetched[1].miss /\ ~fetched[2].miss
             /\ ~wrong_path => (fetched[2].wrong <=> fetched[1].miss)
  <2>1. /\ d \in Decoded /\ Deliverable(d) /\ (d.wrong <=> wrong_path)
        /\ e \in Decoded /\ Deliverable(e)
        /\ wrong_path => ~d.miss /\ ~e.miss
        /\ ~wrong_path => (e.wrong <=> d.miss)
    BY <1>5, <1>6, <1>9
  <2>2. fetched \in Seq(Decoded) /\ Len(fetched) = 2 /\ fetched[1] = d /\ fetched[2] = e
    BY <1>9, <2>1
  <2> QED
    BY <2>1, <2>2
<1>10. CASE wrong_path
  <2>1. \/ fetched = << >>
        \/ \E d \in W : fetched = << d >>
        \/ \E d \in W, e \in W : fetched = << d, e >>
    BY <1>3, <1>4, <1>10
  <2>2. ASSUME NEW d \in W, fetched = << d >> PROVE Len(fetched) = 1
    BY <2>2
  <2> QED
    BY <1>4, <1>7, <1>8, <1>9, <1>10, <2>1
<1>11. CASE ~wrong_path
  <2>1. \/ fetched = << >>
        \/ \E d \in R : fetched = << d >>
        \/ \E d \in R, e \in R : fetched = << d, e >> /\ ~d.miss
        \/ \E d \in R, e \in W : fetched = << d, e >> /\ d.miss
    BY <1>2, <1>4, <1>11
  <2> QED
    BY <1>4, <1>7, <1>8, <1>9, <1>11, <2>1
<1> QED
  BY <1>10, <1>11

\* The register after a cycle in which nothing redirects the front end.
LEMMA QueueAfter ==
  ASSUME BkInv, NEW in, NEW div_done, NEW ld, NEW st, NEW wb, NEW busy0, NEW k,
         Cycle(in, div_done, ld, st, wb, busy0, k), ~flush_id(in), ~bmiss
  PROVE  \E fetched \in Fetches((IF SuperscalarEn THEN 2 ELSE 1) - (Len(issue_q) - k)) :
           /\ issue_q' \in Seq(Decoded)
           /\ Len(issue_q') = Len(issue_q) - k + Len(fetched)
           /\ \A j \in 1 .. Len(issue_q) - k : issue_q'[j] = issue_q[j + k]
           /\ \A j \in 1 .. Len(fetched) : issue_q'[Len(issue_q) - k + j] = fetched[j]
           /\ wrong_path' <=> wrong_path \/ \E j \in 1 .. Len(fetched) : fetched[j].miss
<1>1. PICK fetched \in Fetches((IF SuperscalarEn THEN 2 ELSE 1) - (Len(issue_q) - k)) :
        /\ issue_q' = SubSeq(issue_q, k + 1, Len(issue_q)) \o fetched
        /\ wrong_path' = (wrong_path \/ \E j \in DOMAIN fetched : fetched[j].miss)
  BY DEF Cycle
<1>2. k \in 0 .. 2 /\ k <= Len(issue_q) /\ issue_q \in Seq(Decoded) /\ Len(issue_q) \in Nat
  BY DEF Cycle, Go, BkInv, BkTypeOK
<1>3. fetched \in Seq(Decoded) /\ Len(fetched) \in 0 .. 2
  BY FetchFacts DEF BkInv
<1> DEFINE old == SubSeq(issue_q, k + 1, Len(issue_q))
           n == Len(issue_q) - k
<1>4. /\ old \in Seq(Decoded) /\ Len(old) = n
      /\ \A j \in 1 .. n : old[j] = issue_q[j + k]
  <2>1. \A j \in k + 1 .. Len(issue_q) : issue_q[j] \in Decoded
    BY <1>2
  <2>2. k + 1 \in Int /\ Len(issue_q) \in Int
    BY <1>2
  <2>3. /\ old \in Seq(Decoded)
        /\ Len(old) = IF k + 1 <= Len(issue_q) THEN Len(issue_q) - (k + 1) + 1 ELSE 0
        /\ \A j \in 1 .. Len(issue_q) - (k + 1) + 1 : old[j] = issue_q[(k + 1) + j - 1]
    BY <2>1, <2>2, SubSeqProperties
  <2> HIDE DEF old
  <2>4. Len(old) = n
    BY <1>2, <2>3
  <2>5. ASSUME NEW j \in 1 .. n PROVE old[j] = issue_q[j + k]
    <3>1. j \in 1 .. Len(issue_q) - (k + 1) + 1 /\ (k + 1) + j - 1 = j + k
      BY <1>2
    <3> QED
      BY <2>3, <3>1
  <2> QED
    BY <2>3, <2>4, <2>5
<1> HIDE DEF old
<1>5. /\ old \o fetched \in Seq(Decoded) /\ Len(old \o fetched) = Len(old) + Len(fetched)
      /\ \A j \in 1 .. Len(old) + Len(fetched) :
           (old \o fetched)[j] = IF j <= Len(old) THEN old[j] ELSE fetched[j - Len(old)]
  BY <1>3, <1>4, ConcatProperties
<1>6. issue_q' = old \o fetched
  BY <1>1 DEF old
<1>7. \A j \in 1 .. n : issue_q'[j] = issue_q[j + k]
  <2>1. ASSUME NEW j \in 1 .. n PROVE j \in 1 .. Len(old) + Len(fetched) /\ j <= Len(old)
    BY <1>2, <1>3, <1>4
  <2> QED
    BY <1>4, <1>5, <1>6, <2>1
<1>8. \A j \in 1 .. Len(fetched) : issue_q'[n + j] = fetched[j]
  <2>1. ASSUME NEW j \in 1 .. Len(fetched)
        PROVE  n + j \in 1 .. Len(old) + Len(fetched) /\ ~(n + j <= Len(old)) /\ (n + j) - Len(old) = j
    BY <1>2, <1>3, <1>4
  <2> QED
    BY <1>5, <1>6, <2>1
<1>9. DOMAIN fetched = 1 .. Len(fetched)
  BY <1>3
<1>10. Len(issue_q') = n + Len(fetched) /\ issue_q' \in Seq(Decoded)
  BY <1>4, <1>5, <1>6
<1> QED
  BY <1>1, <1>7, <1>8, <1>9, <1>10

\* How many instructions the register holds.
LEMMA QueueLen ==
  ASSUME BkInv, NEW in, NEW div_done, NEW ld, NEW st, NEW wb, NEW busy0, NEW k,
         Cycle(in, div_done, ld, st, wb, busy0, k)
  PROVE  /\ Len(issue_q) \in 0 .. 2 /\ issue_q \in Seq(Decoded)
         /\ k \in 0 .. 2 /\ k <= Len(issue_q)
         /\ k = 2 => SuperscalarEn /\ Len(issue_q) = 2
<1>1. Len(issue_q) \in 0 .. (IF SuperscalarEn THEN 2 ELSE 1)
  BY DEF BkInv, BkTypeOK
<1>2. k \in 0 .. 2 /\ k <= Len(issue_q)
  BY DEF Cycle, Go
<1>3. issue_q \in Seq(Decoded)
  BY DEF BkInv, BkTypeOK
<1>4. Len(issue_q) \in 0 .. 2 /\ (k = 2 => SuperscalarEn /\ Len(issue_q) = 2)
  <2>1. CASE SuperscalarEn
    <3>1. Len(issue_q) \in 0 .. 2
      BY <1>1, <2>1
    <3>2. ASSUME k = 2 PROVE Len(issue_q) = 2
      <4>1. 2 <= Len(issue_q)
        BY <1>2, <3>2, Zenon
      <4> QED
        BY ONLY <3>1, <4>1
    <3> QED
      BY ONLY <2>1, <3>1, <3>2
  <2>2. CASE ~SuperscalarEn
    <3>1. Len(issue_q) \in 0 .. 1
      BY <1>1, <2>2
    <3> QED
      BY <1>2, <3>1
  <2> QED
    BY <2>1, <2>2
<1> QED
  BY <1>2, <1>3, <1>4

\* The types of the issue register.
LEMMA QueueTypeStep ==
  ASSUME BkInv, NEW in, NEW div_done, NEW ld, NEW st, NEW wb, NEW busy0, NEW k,
         Cycle(in, div_done, ld, st, wb, busy0, k)
  PROVE  /\ issue_q' \in Seq(Decoded)
         /\ Len(issue_q') \in 0 .. (IF SuperscalarEn THEN 2 ELSE 1)
         /\ \A j \in 1 .. Len(issue_q') : Deliverable(issue_q'[j])
         /\ wrong_path' \in BOOLEAN
<1>1. CASE flush_id(in) \/ bmiss
  <2>1. issue_q' = << >> /\ wrong_path' = FALSE
    BY <1>1 DEF Cycle
  <2>2. Len(issue_q') = 0 /\ issue_q' \in Seq(Decoded)
    BY <2>1
  <2>3. 0 \in 0 .. (IF SuperscalarEn THEN 2 ELSE 1)
    OBVIOUS
  <2>4. \A j : j \notin 1 .. Len(issue_q')
    BY <2>2
  <2> QED
    BY <2>1, <2>2, <2>3, <2>4
<1>2. CASE ~flush_id(in) /\ ~bmiss
  <2> DEFINE n == Len(issue_q) - k
             cap == IF SuperscalarEn THEN 2 ELSE 1
  <2>1. PICK fetched \in Fetches(cap - n) :
           /\ issue_q' \in Seq(Decoded)
           /\ Len(issue_q') = n + Len(fetched)
           /\ \A j \in 1 .. n : issue_q'[j] = issue_q[j + k]
           /\ \A j \in 1 .. Len(fetched) : issue_q'[n + j] = fetched[j]
           /\ wrong_path' <=> wrong_path \/ \E j \in 1 .. Len(fetched) : fetched[j].miss
    BY <1>2, QueueAfter
  <2>2. k \in 0 .. 2 /\ k <= Len(issue_q) /\ Len(issue_q) \in Nat
    BY DEF Cycle, Go, BkInv, BkTypeOK
  <2>3. /\ Len(fetched) \in 0 .. 2 /\ Len(fetched) <= cap - n
        /\ \A j \in 1 .. Len(fetched) : Deliverable(fetched[j])
    BY FetchFacts DEF BkInv
  <2>4. \A j \in 1 .. Len(issue_q) : Deliverable(issue_q[j])
    BY QueueType DEF Deliverable
  <2>5. cap \in 1 .. 2
    OBVIOUS
  <2>6. Len(issue_q') \in 0 .. cap
    <3> HIDE DEF cap
    <3> QED
      BY <2>1, <2>2, <2>3, <2>5
  <2>7. ASSUME NEW j \in 1 .. Len(issue_q') PROVE Deliverable(issue_q'[j])
    <3>1. CASE j \in 1 .. n
      <4>1. j + k \in 1 .. Len(issue_q)
        BY <2>2, <3>1
      <4> QED
        BY <2>1, <2>4, <3>1, <4>1
    <3>2. CASE j \notin 1 .. n
      <4>1. j - n \in 1 .. Len(fetched) /\ n + (j - n) = j
        BY <2>1, <2>2, <2>3, <3>2
      <4> QED
        BY <2>1, <2>3, <4>1
    <3> QED
      BY <3>1, <3>2
  <2>8. wrong_path' \in BOOLEAN
    <3>1. PICK f \in Fetches(cap - n) : wrong_path' = (wrong_path \/ \E j \in DOMAIN f : f[j].miss)
      BY <1>2 DEF Cycle
    <3> QED
      BY <3>1
  <2> QED
    BY <2>1, <2>6, <2>7, <2>8
<1> QED
  BY <1>1, <1>2

\* A mispredicted branch that is issued is in execute in the next cycle.
LEMMA MissSent ==
  ASSUME BkInv, NEW in, NEW div_done, NEW ld, NEW st, NEW wb, NEW busy0, NEW k,
         Cycle(in, div_done, ld, st, wb, busy0, k), ~bmiss'
  PROVE  /\ k > 0 => ~issue_q[1].miss
         /\ k = 2 => ~issue_q[2].miss
<1>1. k \in 0 .. 2 /\ k <= Len(issue_q) /\ Len(issue_q) \in Nat
  BY DEF Cycle, Go, BkInv, BkTypeOK
<1>2. \A f \in fu_q' : ~f.miss
  BY UnitsStep DEF UnitsOK, bmiss, In
<1>3. \A f : f \in fu_q' <=> \/ Sends1(k) /\ f = Request1(busy0)
                             \/ Sends2(k) /\ f = Request2(busy0)
  BY SentFacts
<1>4. Request1(busy0).miss = issue_q[1].miss /\ Request2(busy0).miss = issue_q[2].miss
  BY DEF Request1, Request2
<1>5. \A j \in 1 .. Len(issue_q) : issue_q[j].miss => ~Trapped(issue_q[j])
  BY QueueType DEF WellFormed, Trapped
<1> QED
  BY <1>1, <1>2, <1>3, <1>4, <1>5 DEF Sends1, Sends2

\* The right path in the issue register.
LEMMA QueueStep ==
  ASSUME BkInv, NEW in, NEW div_done, NEW ld, NEW st, NEW wb, NEW busy0, NEW k,
         Cycle(in, div_done, ld, st, wb, busy0, k)
  PROVE  QueueOK'
<1>1. CASE flush_id(in) \/ bmiss
  <2>1. issue_q' = << >> /\ wrong_path' = FALSE
    BY <1>1 DEF Cycle
  <2>2. Len(issue_q') = 0
    BY <2>1
  <2> QED
    BY <2>1, <2>2 DEF QueueOK
<1>2. CASE ~flush_id(in) /\ ~bmiss /\ ~bmiss'
  <2> DEFINE n == Len(issue_q) - k
             cap == IF SuperscalarEn THEN 2 ELSE 1
  <2>1. PICK fetched \in Fetches(cap - n) :
           /\ Len(issue_q') = n + Len(fetched)
           /\ \A j \in 1 .. n : issue_q'[j] = issue_q[j + k]
           /\ \A j \in 1 .. Len(fetched) : issue_q'[n + j] = fetched[j]
           /\ wrong_path' <=> wrong_path \/ \E j \in 1 .. Len(fetched) : fetched[j].miss
    BY <1>2, QueueAfter
  <2>2. k \in 0 .. 2 /\ k <= Len(issue_q) /\ Len(issue_q) \in 0 .. 2
    BY QueueLen
  <2>3. /\ Len(fetched) \in 0 .. 2 /\ Len(fetched) <= 2 - n
        /\ Len(fetched) > 0 => (fetched[1].wrong <=> wrong_path)
        /\ wrong_path => \A j \in 1 .. Len(fetched) : ~fetched[j].miss
        /\ ~wrong_path /\ Len(fetched) > 1 => (fetched[2].wrong <=> fetched[1].miss)
    <3>1. /\ Len(fetched) \in 0 .. 2 /\ Len(fetched) <= cap - n
          /\ Len(fetched) > 0 => (fetched[1].wrong <=> wrong_path)
          /\ wrong_path => \A j \in 1 .. Len(fetched) : ~fetched[j].miss
          /\ ~wrong_path /\ Len(fetched) > 1 => (fetched[2].wrong <=> fetched[1].miss)
      BY FetchFacts DEF BkInv
    <3>2. cap \in 1 .. 2 /\ n \in Int
      BY <2>2
    <3> HIDE DEF cap, n
    <3> QED
      BY <3>1, <3>2
  <2>4. /\ Len(issue_q) > 0 => ~issue_q[1].wrong
        /\ Len(issue_q) > 1 => (issue_q[2].wrong <=> issue_q[1].miss)
        /\ wrong_path <=> \E j \in 1 .. Len(issue_q) : issue_q[j].miss
    BY <1>2 DEF BkInv, QueueOK
  <2>5. (k > 0 => ~issue_q[1].miss) /\ (k = 2 => ~issue_q[2].miss)
    BY <1>2, MissSent
  <2>6. n \in Int /\ Len(issue_q) = n + k
    BY <2>2
  <2> HIDE DEF n
  <2>7. CASE n = 0
    <3>1. ~wrong_path
      BY <2>2, <2>4, <2>5, <2>6, <2>7
    <3>2. Len(issue_q') = Len(fetched) /\ \A j \in 1 .. Len(fetched) : issue_q'[j] = fetched[j]
      BY <2>1, <2>3, <2>7
    <3>3. Len(fetched) > 0 => issue_q'[1] = fetched[1]
      BY <2>3, <3>2
    <3>4. Len(fetched) > 1 => issue_q'[2] = fetched[2]
      BY <2>3, <3>2
    <3>5. wrong_path' <=> \E j \in 1 .. Len(issue_q') : issue_q'[j].miss
      BY <2>1, <3>1, <3>2
    <3> QED
      BY <2>3, <3>1, <3>2, <3>3, <3>4, <3>5 DEF QueueOK
  <2>8. CASE n = 1
    <3> DEFINE d == issue_q[1 + k]
    <3>1. Len(fetched) \in 0 .. 1 /\ Len(issue_q') = 1 + Len(fetched) /\ issue_q'[1] = d
      <4>1. 1 \in 1 .. n
        BY <2>8
      <4> QED
        BY <2>1, <2>3, <2>8, <4>1
    <3>2. Len(fetched) = 1 => issue_q'[2] = fetched[1]
      BY <2>1, <2>3, <2>8
    <3>3. k \in 0 .. 1 /\ Len(issue_q) = 1 + k
      BY <2>2, <2>6, <2>8
    <3>4. ~d.wrong
      BY <2>2, <2>4, <2>5, <3>3
    <3>5. wrong_path <=> d.miss
      <4>1. CASE k = 0
        <5>1. \A j : j \in 1 .. Len(issue_q) <=> j = 1
          BY <3>3, <4>1
        <5> QED
          BY <2>4, <4>1, <5>1
      <4>2. CASE k = 1
        <5>1. \A j : j \in 1 .. Len(issue_q) <=> j = 1 \/ j = 2
          BY <3>3, <4>2
        <5> QED
          BY <2>4, <2>5, <4>2, <5>1
      <4> QED
        BY <3>3, <4>1, <4>2
    <3> HIDE DEF d
    <3>6. wrong_path' <=> \E j \in 1 .. Len(issue_q') : issue_q'[j].miss
      <4>1. CASE Len(fetched) = 0
        <5>1. \A j : j \in 1 .. Len(issue_q') <=> j = 1
          BY <3>1, <4>1
        <5>2. \A j : j \notin 1 .. Len(fetched)
          BY <4>1
        <5> QED
          BY <2>1, <3>1, <3>5, <5>1, <5>2
      <4>2. CASE Len(fetched) = 1
        <5>1. \A j : j \in 1 .. Len(issue_q') <=> j = 1 \/ j = 2
          BY <3>1, <4>2
        <5>2. \A j : j \in 1 .. Len(fetched) <=> j = 1
          BY <4>2
        <5> QED
          BY <2>1, <3>1, <3>2, <3>5, <4>2, <5>1, <5>2
      <4> QED
        BY <3>1, <4>1, <4>2
    <3> QED
      BY <2>3, <3>1, <3>2, <3>4, <3>5, <3>6 DEF QueueOK
  <2>9. CASE n = 2
    <3>1. k = 0 /\ Len(issue_q) = 2 /\ Len(fetched) = 0 /\ Len(issue_q') = 2
      BY <2>1, <2>2, <2>3, <2>6, <2>9
    <3>2. \A j \in 1 .. 2 : issue_q'[j] = issue_q[j]
      BY <2>1, <2>9, <3>1
    <3>3. issue_q'[1] = issue_q[1] /\ issue_q'[2] = issue_q[2]
      BY <3>2
    <3>4. wrong_path' <=> wrong_path
      <4>1. \A j : j \notin 1 .. Len(fetched)
        BY <3>1
      <4> QED
        BY <2>1, <4>1
    <3> QED
      BY <2>4, <3>1, <3>2, <3>3, <3>4 DEF QueueOK
  <2> QED
    BY <2>2, <2>6, <2>7, <2>8, <2>9
<1> QED
  BY <1>1, <1>2 DEF QueueOK

\* What enters the scoreboard is one of the first k instructions of the register.
LEMMA EntersFacts ==
  ASSUME BkInv, NEW in, NEW div_done, NEW ld, NEW st, NEW wb, NEW busy0, NEW k,
         Cycle(in, div_done, ld, st, wb, busy0, k), NEW i \in Slots, Enters(i, k)
  PROVE  /\ ~flush_id(in) /\ ~bmiss /\ ~issue_q[1].wrong
         /\ 1 \in 1 .. Len(issue_q)
         /\ \/ i = issue_pointer /\ Fresh(mem'[i], issue_q[1], Good0(issue_q))
            \/ /\ k = 2 /\ 2 \in 1 .. Len(issue_q) /\ SuperscalarEn
               /\ i = second /\ Fresh(mem'[i], issue_q[2], Good1(issue_q))
               /\ issue_q[2].wrong <=> issue_q[1].miss
<1>1. /\ k \in 0 .. 2 /\ k <= Len(issue_q) /\ Len(issue_q) \in 0 .. 2
      /\ k = 2 => SuperscalarEn /\ Len(issue_q) = 2
  BY QueueLen
<1>2. k > 0 /\ Len(issue_q) > 0
  BY <1>1 DEF Enters
<1>3. ~flush_id(in) /\ ~bmiss
  BY <1>2 DEF Cycle
<1>4. /\ Len(issue_q) > 0 => ~issue_q[1].wrong
      /\ Len(issue_q) > 1 => (issue_q[2].wrong <=> issue_q[1].miss)
  BY <1>3 DEF BkInv, QueueOK
<1>5. 1 \in 1 .. Len(issue_q)
  BY <1>1, <1>2
<1>6. CASE i = issue_pointer
  BY <1>2, <1>3, <1>4, <1>5, <1>6, NewSlot1
<1>7. CASE k = 2 /\ i = second
  <2>1. 2 \in 1 .. Len(issue_q) /\ Len(issue_q) > 1
    BY <1>1, <1>7
  <2> QED
    BY <1>1, <1>2, <1>3, <1>4, <1>5, <1>7, <2>1, NewSlot2
<1> QED
  BY <1>6, <1>7 DEF Enters

\* What decode wrote stays as it is.
LEMMA EntriesStep ==
  ASSUME BkInv, NEW in, NEW div_done, NEW ld, NEW st, NEW wb, NEW busy0, NEW k,
         Cycle(in, div_done, ld, st, wb, busy0, k)
  PROVE  EntriesOK'
<1> SUFFICES ASSUME NEW i \in Slots, mem'[i].issued
             PROVE  /\ mem'[i].instr.kind \in program.kinds
                    /\ mem'[i].instr.kind \in {"branch", "store", "fence", "sfence", "trap"}
                         => mem'[i].instr.rd = 0
                    /\ Trapped(mem'[i].instr) => mem'[i].valid
  <2>1. program' = program
    BY DEF Cycle
  <2> QED
    BY <2>1, Zenon DEF EntriesOK, kind, Trapped
<1>1. ~flush_id(in)
  BY SlotsFlushed
<1>2. CASE Stays(i, in)
  <2>1. mem[i].issued /\ mem'[i].instr = mem[i].instr /\ (mem[i].valid => mem'[i].valid)
    BY <1>1, <1>2, KeptSlot DEF Stays
  <2> QED
    BY <2>1 DEF BkInv, EntriesOK, kind
<1>3. CASE Enters(i, k)
  <2>1. PICK j \in 1 .. Len(issue_q) : \E right : Fresh(mem'[i], issue_q[j], right)
    BY <1>3, EntersFacts
  <2>2. WellFormed(issue_q[j]) /\ issue_q[j].kind \in program.kinds
    BY QueueType
  <2> QED
    BY <2>1, <2>2 DEF Fresh, WellFormed, Trapped
<1> QED
  BY <1>1, <1>2, <1>3, SlotsAfter

\* Neighbours in the window.
LEMMA Neighbours ==
  ASSUME BkInv, NEW i \in Slots, NEW j \in Slots, mem[i].issued, mem[j].issued
  PROVE  Dist(i) = Dist(j) + 1 <=> i = Plus(j, 1) /\ i # issue_pointer
<1>1. /\ Dist(j) \in 0 .. NR_SB_ENTRIES - 1 /\ j = Plus(first, Dist(j)) /\ Dist(j) < occupancy
      /\ Dist(i) \in 0 .. NR_SB_ENTRIES - 1 /\ i = Plus(first, Dist(i)) /\ Dist(i) < occupancy
      /\ issue_pointer = Plus(first, occupancy)
      /\ first \in Slots /\ occupancy \in 0 .. NR_SB_ENTRIES
  BY Shape DEF BkInv
<1>2. ASSUME Dist(i) = Dist(j) + 1 PROVE i = Plus(j, 1) /\ i # issue_pointer
  BY <1>1, <1>2 DEF Plus, Slots
<1>3. ASSUME i = Plus(j, 1), i # issue_pointer PROVE Dist(i) = Dist(j) + 1
  <2>1. Dist(i) = 0 \/ Dist(i) = Dist(j) + 1
    BY <1>1, <1>3 DEF Plus, Slots
  <2>2. ASSUME Dist(i) = 0, Dist(j) + 1 < occupancy PROVE FALSE
    BY <1>1, <1>3, <2>2 DEF Plus, Slots
  <2>3. ASSUME Dist(i) = 0, Dist(j) + 1 = occupancy PROVE FALSE
    <3>1. i = first
      BY <1>1, <2>3 DEF Plus, Slots
    <3>2. Plus(j, 1) = issue_pointer
      BY <1>1, <2>3 DEF Plus, Slots
    <3> QED
      BY <1>3, <3>2
  <2> QED
    BY <1>1, <2>1, <2>2, <2>3
<1> QED
  BY <1>2, <1>3

\* What the branch unit cancels is on the wrong path, and nothing on the wrong
\* path escapes it.
LEMMA CancelsWrong ==
  ASSUME BkInv, NEW div_done, NEW i \in Slots, mem[i].issued
  PROVE  /\ i \in cancelled(div_done) => mem[i].instr.wrong
         /\ mem[i].instr.wrong => mem[i].cancelled \/ i \in cancelled(div_done)
<1>1. ASSUME i \in cancelled(div_done) PROVE mem[i].instr.wrong
  <2>1. bmiss /\ i = Plus(flu_trans_id(div_done), 1) /\ i # issue_pointer
    BY <1>1 DEF cancelled
  <2>2. PICK f \in fu_q : f.miss
    BY <2>1 DEF bmiss, In
  <2>3. flu_trans_id(div_done) = f.tid /\ f.tid \in Slots /\ mem[f.tid].issued
    BY <2>2, MissedBranch DEF BkInv
  <2>4. Dist(i) = Dist(f.tid) + 1
    BY <2>1, <2>3, Neighbours
  <2> QED
    BY <2>2, <2>4 DEF BkInv, WrongOK
<1>2. ASSUME mem[i].instr.wrong, ~mem[i].cancelled PROVE i \in cancelled(div_done)
  <2>1. PICK f \in fu_q : f.miss /\ Dist(i) = Dist(f.tid) + 1 /\ SuperscalarEn
    BY <1>2 DEF BkInv, WrongOK
  <2>2. bmiss /\ flu_trans_id(div_done) = f.tid /\ f.tid \in Slots /\ mem[f.tid].issued
    BY <2>1, MissedBranch DEF BkInv
  <2>3. i = Plus(f.tid, 1) /\ i # issue_pointer
    BY <2>1, <2>2, Neighbours
  <2> QED
    BY <2>1, <2>2, <2>3 DEF cancelled
<1> QED
  BY <1>1, <1>2

\* Who is in the ID <-> EX registers after a cycle, and how far from the head
\* the new instructions are then.
LEMMA DistNew ==
  ASSUME BkInv, NEW in, NEW div_done, NEW ld, NEW st, NEW wb, NEW busy0, NEW k,
         Cycle(in, div_done, ld, st, wb, busy0, k), ~flush_id(in),
         NEW r, r = num_commit(commit_ack(in)), NEW n, n = occupancy
  PROVE  /\ k \in 0 .. 2 /\ n \in Nat /\ r \in 0 .. 2
         /\ \A i \in Slots : k > 0 /\ i = issue_pointer => Dist(i)' = n - r
         /\ \A i \in Slots : k = 2 /\ i = second => Dist(i)' = n + 1 - r
         /\ \A i \in Slots : mem[i].issued /\ Stays(i, in) => Dist(i)' < n - r
         /\ \A f \in fu_q' : \/ /\ k > 0 /\ f.tid = issue_pointer /\ f.tid \in Slots
                                /\ f.miss = issue_q[1].miss /\ Dist(f.tid)' = n - r
                             \/ /\ k = 2 /\ f.tid = second /\ f.tid \in Slots
                                /\ f.miss = issue_q[2].miss /\ Dist(f.tid)' = n + 1 - r
<1>1. /\ k \in 0 .. 2 /\ n \in Nat /\ r \in 0 .. 2
      /\ issue_pointer \in Slots /\ second \in Slots
      /\ k > 0 => Dist(issue_pointer) = n
      /\ k = 2 => Dist(second) = n + 1
  BY NewSlotsFree, DistAfter
<1>2. ASSUME NEW i \in Slots, k > 0, i = issue_pointer PROVE Dist(i)' = n - r
  BY <1>1, <1>2, DistAfter DEF Enters
<1>3. ASSUME NEW i \in Slots, k = 2, i = second PROVE Dist(i)' = n + 1 - r
  BY <1>1, <1>3, DistAfter DEF Enters
<1>4. ASSUME NEW i \in Slots, mem[i].issued, Stays(i, in) PROVE Dist(i)' < n - r
  <2>1. Dist(i)' = Dist(i) - r /\ Dist(i) < n /\ Dist(i) \in Nat
    BY <1>4, DistAfter
  <2> QED
    BY <1>1, <2>1
<1>5. ASSUME NEW f \in fu_q'
      PROVE  \/ /\ k > 0 /\ f.tid = issue_pointer /\ f.tid \in Slots
                /\ f.miss = issue_q[1].miss /\ Dist(f.tid)' = n - r
             \/ /\ k = 2 /\ f.tid = second /\ f.tid \in Slots
                /\ f.miss = issue_q[2].miss /\ Dist(f.tid)' = n + 1 - r
  <2>1. \/ Sends1(k) /\ f = Request1(busy0)
        \/ Sends2(k) /\ f = Request2(busy0)
    BY SentFacts
  <2>2. CASE Sends1(k) /\ f = Request1(busy0)
    <3>1. k > 0 /\ f.tid = issue_pointer /\ f.miss = issue_q[1].miss /\ f.tid \in Slots
      BY <1>1, <2>2 DEF Request1, Sends1
    <3> QED
      BY <1>2, <3>1
  <2>3. CASE Sends2(k) /\ f = Request2(busy0)
    <3>1. k = 2 /\ f.tid = second /\ f.miss = issue_q[2].miss /\ f.tid \in Slots
      BY <1>1, <2>3 DEF Request2, Sends2
    <3> QED
      BY <1>3, <3>1
  <2> QED
    BY <2>1, <2>2, <2>3
<1> QED
  BY <1>1, <1>2, <1>3, <1>4, <1>5

\* After a cycle the wrong path is again cancelled, or right behind its branch.
LEMMA WrongStep ==
  ASSUME BkInv, NEW in, NEW div_done, NEW ld, NEW st, NEW wb, NEW busy0, NEW k,
         Cycle(in, div_done, ld, st, wb, busy0, k)
  PROVE  WrongOK'
<1> SUFFICES ASSUME NEW i \in Slots, mem'[i].issued
             PROVE  /\ mem'[i].cancelled => mem'[i].instr.wrong
                    /\ mem'[i].instr.wrong /\ ~mem'[i].cancelled =>
                         SuperscalarEn' /\ \E f \in fu_q' : f.miss /\ Dist(i)' = Dist(f.tid)' + 1
                    /\ mem'[i].instr.wrong => fu(mem'[i].instr) # "CSR"
                    /\ \A f \in fu_q' : f.miss /\ Dist(i)' = Dist(f.tid)' + 1 => mem'[i].instr.wrong
  BY Zenon DEF WrongOK, fu
<1>1. ~flush_id(in) /\ SuperscalarEn' = SuperscalarEn
  BY SlotsFlushed DEF Cycle
<1> PICK r : r = num_commit(commit_ack(in))
  OBVIOUS
<1> PICK n : n = occupancy
  OBVIOUS
<1>2. /\ k \in 0 .. 2 /\ n \in Nat /\ r \in 0 .. 2
      /\ k > 0 /\ i = issue_pointer => Dist(i)' = n - r
      /\ k = 2 /\ i = second => Dist(i)' = n + 1 - r
      /\ mem[i].issued /\ Stays(i, in) => Dist(i)' < n - r
  BY <1>1, DistNew
<1>3. ASSUME NEW f \in fu_q'
      PROVE  \/ k > 0 /\ f.miss = issue_q[1].miss /\ Dist(f.tid)' = n - r
             \/ k = 2 /\ f.miss = issue_q[2].miss /\ Dist(f.tid)' = n + 1 - r
  BY <1>1, DistNew
<1>6. CASE Stays(i, in)
  <2>1. /\ mem[i].issued /\ mem'[i].instr = mem[i].instr
        /\ mem'[i].cancelled <=> mem[i].cancelled \/ i \in cancelled(div_done)
    BY <1>1, <1>6, KeptSlot DEF Stays
  <2>2. /\ mem[i].cancelled => mem[i].instr.wrong
        /\ mem[i].instr.wrong => fu(mem[i].instr) # "CSR"
    BY <2>1 DEF BkInv, WrongOK
  <2>3. /\ i \in cancelled(div_done) => mem[i].instr.wrong
        /\ mem[i].instr.wrong => mem[i].cancelled \/ i \in cancelled(div_done)
    BY <2>1, CancelsWrong
  <2>4. Dist(i)' < n - r
    BY <1>2, <1>6, <2>1
  <2>6. Dist(i)' \in Int
    BY <1>1, <1>2, <1>6, <2>1, DistAfter
  <2>5. ASSUME NEW f \in fu_q' PROVE Dist(i)' # Dist(f.tid)' + 1
    BY <1>2, <1>3, <2>4, <2>6
  <2> QED
    BY <2>1, <2>2, <2>3, <2>5
<1>7. CASE k > 0 /\ i = issue_pointer
  <2>1. /\ ~mem'[i].cancelled /\ ~mem'[i].instr.wrong
    <3>1. Enters(i, k) /\ (i # second \/ k # 2)
      BY <1>2, <1>7, NewSlotsFree DEF Enters
    <3>2. Enters(i, k)
      BY <1>7 DEF Enters
    <3>3. Fresh(mem'[i], issue_q[1], Good0(issue_q)) /\ ~issue_q[1].wrong
      BY <3>1, <3>2, EntersFacts
    <3> QED
      BY <3>3 DEF Fresh
  <2>2. ASSUME NEW f \in fu_q' PROVE Dist(i)' # Dist(f.tid)' + 1
    BY <1>2, <1>3, <1>7
  <2> QED
    BY <2>1, <2>2
<1>8. CASE k = 2 /\ i = second
  <2>1. Enters(i, k) /\ i # issue_pointer
    BY <1>8, NewSlotsFree DEF Enters
  <2>2. /\ Fresh(mem'[i], issue_q[2], Good1(issue_q)) /\ SuperscalarEn
        /\ issue_q[2].wrong <=> issue_q[1].miss
        /\ 2 \in 1 .. Len(issue_q) /\ 1 \in 1 .. Len(issue_q)
    BY <1>8, <2>1, EntersFacts
  <2>3. /\ ~mem'[i].cancelled
        /\ mem'[i].instr.wrong <=> issue_q[2].wrong
        /\ mem'[i].instr.kind = issue_q[2].kind
    BY <2>2 DEF Fresh
  <2>4. ASSUME issue_q[1].miss
        PROVE  \E f \in fu_q' : f.miss /\ Dist(i)' = Dist(f.tid)' + 1
    <3>1. issue_q[1].kind = "branch"
      BY <2>2, <2>4, QueueType DEF WellFormed
    <3>2. PICK f \in fu_q' : f.tid = issue_pointer
      <4>1. Sends1(k) /\ Request1(busy0).tid = issue_pointer
        BY <1>8, <3>1 DEF Sends1, Trapped, Request1
      <4> QED
        BY <4>1, SentFacts
    <3>3. f.miss = issue_q[1].miss /\ Dist(f.tid)' = n - r
      <4>1. issue_pointer # second
        BY <1>8, NewSlotsFree
      <4> QED
        BY <1>1, <3>2, <4>1, DistNew
    <3>4. Dist(i)' = Dist(f.tid)' + 1
      BY <1>2, <1>8, <3>3
    <3>5. f.miss
      BY <2>4, <3>3, Zenon
    <3> QED
      BY <3>4, <3>5, Zenon
  <2>5. fu(mem'[i].instr) # "CSR"
    <3>1. Unit(issue_q, issue_q[2], fus_busy1(issue_q, busy0)) \notin fus_busy1(issue_q, busy0)
      BY <1>8 DEF Cycle, Go
    <3>2. issue_q[1].kind \in Kinds /\ issue_q[2].kind \in Kinds
      BY <2>2, QueueType
    <3>3. "CSR" \in fus_busy1(issue_q, busy0)
      BY <3>2, Busy1
    <3>4. fu(issue_q[2]) # "CSR"
      BY <3>1, <3>2, <3>3, UnitFacts
    <3>5. fu(mem'[i].instr) = fu(issue_q[2])
      BY <2>3, Zenon DEF fu
    <3> QED
      BY <3>4, <3>5
  <2>6. ASSUME NEW f \in fu_q', f.miss, Dist(i)' = Dist(f.tid)' + 1 PROVE mem'[i].instr.wrong
    <3>1. Dist(f.tid)' # n + 1 - r
      BY <1>2, <1>8, <2>6
    <3>2. f.miss = issue_q[1].miss
      BY <1>3, <3>1, Zenon
    <3> QED
      BY <2>2, <2>3, <2>6, <3>2, Zenon
  <2>7. mem'[i].instr.wrong => issue_q[1].miss
    BY <2>2, <2>3, Zenon
  <2> QED
    BY <1>1, <2>2, <2>3, <2>4, <2>5, <2>6, <2>7, Zenon
<1> QED
  BY <1>1, <1>6, <1>7, <1>8, SlotsAfter DEF Enters

\* The oldest instruction.
LEMMA HeadFacts ==
  ASSUME BkInv, NEW in \in Answers
  PROVE  /\ first \in Slots /\ head = mem[first] /\ kind0 = mem[first].instr.kind
         /\ head.valid => mem[first].issued
         /\ fu(head.instr) = "CSR" <=> kind0 \in {"csr", "fence", "sfence"}
         /\ head.valid /\ fu(head.instr) = "CSR" => ~drop0
         /\ commit_csr(in) => /\ head.valid /\ ~head.ex /\ fu(head.instr) = "CSR"
                              /\ FenceWaits \/ Retired(first, commit_ack(in))
<1>1. first \in Slots /\ head = mem[first] /\ kind0 = mem[first].instr.kind /\ 0 \in CommitPorts
  BY DEF BkInv, SbInv, ScoreboardTypeOK, CommitPorts, first, head, commit_instr, kind0
<1>2. head.valid => mem[first].issued
  BY <1>1 DEF BkInv, SbInv, WindowConsistent
<1>3. mem[first].instr.kind \in Kinds
  BY <1>1, BackEndAssumption DEF BkInv, SbInv, ScoreboardTypeOK, Entry
<1>4. fu(head.instr) = "CSR" <=> kind0 \in {"csr", "fence", "sfence"}
  BY <1>1, <1>3, UnitOfKind
<1>5. ASSUME head.valid, fu(head.instr) = "CSR" PROVE ~drop0
  BY <1>1, <1>2, <1>5 DEF BkInv, WrongOK, drop0
<1>6. ASSUME commit_csr(in), ~FenceWaits PROVE Retired(first, commit_ack(in))
  <2>1. Committing /\ kind0 = "csr" /\ in # "illegal"
    BY <1>4, <1>6 DEF commit_csr, FenceWaits, Committing
  <2>2. commit_ack0(in)
    BY <2>1 DEF commit_ack0
  <2>3. 0 \in commit_ack(in)
    BY <1>1, <2>2 DEF commit_ack
  <2> QED
    BY <2>3 DEF Retired, first
<1>7. commit_csr(in) => head.valid /\ ~head.ex /\ fu(head.instr) = "CSR"
  BY DEF commit_csr, Committing
<1> QED
  BY <1>1, <1>2, <1>4, <1>5, <1>6, <1>7

\* A new CSR instruction is in execute.
LEMMA NewCsr ==
  ASSUME BkInv, NEW in, NEW div_done, NEW ld, NEW st, NEW wb, NEW busy0, NEW k,
         Cycle(in, div_done, ld, st, wb, busy0, k), NEW i \in Slots,
         Enters(i, k), fu(mem'[i].instr) = "CSR"
  PROVE  \E f \in fu_q' : f.unit = "CSR" /\ f.tid = i
<1>1. ~flush_id(in)
  BY EntersFacts
<1>2. PICK j \in 1 .. Len(issue_q) : \E right : Fresh(mem'[i], issue_q[j], right)
  BY EntersFacts
<1>3. mem'[i].instr.kind = issue_q[j].kind /\ issue_q[j].kind \in Kinds
  BY <1>2, QueueType DEF Fresh
<1>4. mem'[i].instr.kind \in {"csr", "fence", "sfence"}
  BY <1>3, UnitOfKind
<1>5. mem'[i].issued /\ ~mem'[i].valid
  BY <1>2, <1>3, <1>4 DEF Fresh, Trapped
<1>6. Awaited(i)'
  BY <1>1, <1>5, AwaitedStep
<1>7. ~(i \in mul_q' \/ i \in div_q' \/ i \in lsu' \/ Loaded(i)')
  BY <1>1, PlacesOfWhom
<1>8. Executing(i)'
  BY <1>6, <1>7 DEF Awaited
<1>9. PICK f \in fu_q' : f.tid = i
  BY <1>8 DEF Executing
<1>10. UnitsOK'
  BY UnitsStep
<1>11. \/ f.unit = fu(mem'[f.tid].instr)
       \/ f.unit = "ALU2" /\ mem'[f.tid].instr.kind = "alu"
  BY <1>10, <1>9 DEF UnitsOK, kind, fu
<1> QED
  BY <1>4, <1>9, <1>11

\* A fence that waits keeps waiting until it flushes.
LEMMA FenceStays ==
  ASSUME BkInv, NEW in, NEW div_done, NEW ld, NEW st, NEW wb, NEW busy0, NEW k,
         Cycle(in, div_done, ld, st, wb, busy0, k), ~flush_id(in), FenceWaits
  PROVE  FenceWaits'
<1>0. in \in Answers
  BY DEF Cycle
<1>1. /\ first \in Slots /\ head = mem[first] /\ kind0 = mem[first].instr.kind
      /\ mem[first].issued /\ ~drop0 /\ head.valid /\ ~head.ex /\ kind0 \in {"fence", "sfence"}
  BY <1>0, HeadFacts DEF FenceWaits
<1>2. in = "wait"
  <2>1. in \in CASE kind0 \in {"store", "amo", "fence", "sfence"} -> {"wait", "go"}
                  [] kind0 = "csr" -> {"go", "illegal", "flush"}
                  [] OTHER -> {"go"}
    BY <1>0, <1>1, Zenon DEF Answers, Committing
  <2>2. in \in {"wait", "go"}
    BY <1>1, <2>1
  <2>3. in = "go" => flush_id(in)
    BY <1>1 DEF flush_id, commit_ack0, Committing
  <2> QED
    BY <2>2, <2>3
<1>3. ~commit_ack0(in)
  BY <1>1, <1>2 DEF commit_ack0, Committing
<1>4. commit_ack(in) = {}
  BY <1>3 DEF commit_ack, commit_ack1, CommitPorts
<1>5. ~Retired(first, commit_ack(in))
  BY <1>4 DEF Retired
<1>6. \A w \in wb : w.tid # first
  <2>1. ~Awaited(first)
    BY <1>1, AwaitedIssued DEF BkInv
  <2>2. ~Ends(first, wb)
    BY <1>1, <2>1, PlacesNow, WrittenBack
  <2> QED
    BY <2>2 DEF Ends
<1>7. /\ mem'[first].instr = mem[first].instr /\ mem'[first].valid
      /\ mem'[first].ex = mem[first].ex
  BY <1>1, <1>5, <1>6, KeptSlot
<1>8. commit_pointer'[0] = first
  <2>1. commit_pointer' = [p \in CommitPorts |->
                             Plus(Plus(commit_pointer[0], num_commit(commit_ack(in))), p)]
    BY Zenon DEF Cycle, SbCycle, PointersNext
  <2>2. num_commit(commit_ack(in)) = 0
    BY <1>4 DEF num_commit
  <2>3. 0 \in CommitPorts
    BY DEF CommitPorts
  <2> QED
    BY <1>1, <2>1, <2>2, <2>3 DEF Plus, Slots, first
<1>9. mem'[commit_pointer'[0]] = mem'[first]
  BY <1>8
<1> QED
  BY <1>1, <1>7, <1>9 DEF FenceWaits, head, kind0, commit_instr

\* After a cycle the CSR instructions in flight are again in execute or in the
\* CSR buffer.
LEMMA CsrStep ==
  ASSUME BkInv, NEW in, NEW div_done, NEW ld, NEW st, NEW wb, NEW busy0, NEW k,
         Cycle(in, div_done, ld, st, wb, busy0, k)
  PROVE  CsrOK' /\ csr_reg' \subseteq Slots
<1> DEFINE CsrIn(i) == mem[i].issued /\ fu(mem[i].instr) = "CSR"
           Ex(i)    == \E f \in fu_q : f.unit = "CSR" /\ f.tid = i
           ExN(i)   == \E f \in fu_q' : f.unit = "CSR" /\ f.tid = i
<1>0. /\ in \in Answers /\ csr_reg' = CsrBufferNext(flush_id(in), in)
  BY DEF Cycle
<1>1. csr_valid <=> \E f \in fu_q : f.unit = "CSR"
  BY DEF csr_valid, In
<1>2. csr_valid' <=> \E f \in fu_q' : f.unit = "CSR"
  BY DEF csr_valid, In
<1>3. ASSUME \A i \in Slots : mem'[i].issued /\ fu(mem'[i].instr) = "CSR" => ExN(i) \/ csr_reg' = {i},
             csr_valid' => csr_reg' = {}
      PROVE  CsrOK'
  BY <1>3 DEF CsrOK, In, fu
<1>4. ASSUME flush_id(in) PROVE CsrOK' /\ csr_reg' \subseteq Slots
  <2>1. \A i \in Slots : ~mem'[i].issued
    BY <1>4, SlotsFlushed
  <2>2. csr_reg' = {}
    BY <1>0, <1>4 DEF CsrBufferNext
  <2> QED
    BY <1>3, <2>1, <2>2
<1>5. ASSUME ~flush_id(in), FenceWaits PROVE CsrOK'
  BY <1>5, FenceStays DEF CsrOK
<1>6. ASSUME NEW f \in fu_q, f.unit = "CSR" PROVE f.tid \in Slots /\ one_cycle_data = f
  <2>1. f \in one_cycle
    BY <1>6 DEF one_cycle, In
  <2> QED
    BY <2>1, OneCycleData, FuType DEF BkInv
<1>7. ASSUME ~flush_id(in) PROVE csr_reg' \subseteq Slots
  BY <1>0, <1>1, <1>6, <1>7 DEF CsrBufferNext, BkInv, BkTypeOK
<1>8. ASSUME ~flush_id(in), ~FenceWaits PROVE CsrOK'
  <2>1. /\ \A i \in Slots : CsrIn(i) => Ex(i) \/ csr_reg = {i}
        /\ csr_valid => csr_reg = {}
    BY <1>8 DEF BkInv, CsrOK, In
  <2>2. ASSUME NEW i \in Slots, mem'[i].issued, fu(mem'[i].instr) = "CSR", ~ExN(i)
        PROVE  CsrIn(i) /\ ~Retired(i, commit_ack(in))
    <3>1. ~Enters(i, k)
      BY <2>2, NewCsr
    <3>2. Stays(i, in)
      BY <1>8, <2>2, <3>1, SlotsAfter
    <3> QED
      BY <1>8, <2>2, <3>2, KeptSlot DEF Stays
  <2>3. commit_csr(in) => /\ first \in Slots /\ CsrIn(first) /\ mem[first].valid
                          /\ Retired(first, commit_ack(in))
    BY <1>0, <1>8, HeadFacts
  <2>4. ASSUME csr_valid \/ csr_reg # {}, ~commit_csr(in) PROVE ~csr_valid'
    <3>1. ~flu_ready(in)
      BY <2>4 DEF flu_ready, csr_ready
    <3> QED
      BY <1>2, <3>1, RequestsApart
  <2>5. CASE csr_valid
    <3>1. PICK f \in fu_q : f.unit = "CSR"
      BY <1>1, <2>5
    <3>2. \A i \in Slots : CsrIn(i) => i = f.tid
      <4>1. ASSUME NEW i \in Slots, Ex(i) PROVE i = f.tid
        BY <1>6, <3>1, <4>1
      <4> QED
        BY <2>1, <2>5, <4>1
    <3>3. ~mem[f.tid].valid
      BY <1>6, <3>1, AwaitedIssued DEF BkInv, Awaited, Executing
    <3>4. ~commit_csr(in)
      BY <2>3, <3>2, <3>3
    <3>5. csr_reg' = {f.tid}
      BY <1>0, <1>6, <1>8, <2>5, <3>1 DEF CsrBufferNext
    <3>6. ~csr_valid'
      BY <2>4, <2>5, <3>4
    <3> QED
      BY <1>3, <2>2, <3>2, <3>5, <3>6
  <2>6. CASE ~csr_valid /\ commit_csr(in)
    <3>1. csr_reg' = {}
      BY <1>0, <1>8, <2>6 DEF CsrBufferNext
    <3>2. \A i \in Slots : CsrIn(i) => i = first
      BY <1>1, <2>1, <2>3, <2>6
    <3> QED
      BY <1>3, <2>2, <2>3, <2>6, <3>1, <3>2
  <2>7. CASE ~csr_valid /\ ~commit_csr(in)
    <3>1. csr_reg' = csr_reg
      BY <1>0, <1>8, <2>7 DEF CsrBufferNext
    <3>2. \A i \in Slots : CsrIn(i) => csr_reg = {i}
      BY <1>1, <2>1, <2>7
    <3>3. csr_valid' => csr_reg' = {}
      BY <2>4, <2>7, <3>1
    <3> QED
      BY <1>3, <2>2, <3>1, <3>2, <3>3
  <2> QED
    BY <2>5, <2>6, <2>7
<1> QED
  BY <1>4, <1>5, <1>7, <1>8

-----------------------------------------------------------------------------
(***************************************************************************)
(* The invariant holds always.                                             *)
(***************************************************************************)
\* The registers around the scoreboard keep their types.
LEMMA BkTypeStep ==
  ASSUME BkInv, NEW in, NEW div_done, NEW ld, NEW st, NEW wb, NEW busy0, NEW k,
         Cycle(in, div_done, ld, st, wb, busy0, k)
  PROVE  BkTypeOK'
<1>1. program' = program /\ SuperscalarEn' = SuperscalarEn
  BY DEF Cycle
<1>2. program' \in Programs /\ SuperscalarEn' = program'.superscalar
  BY <1>1 DEF BkInv, BkTypeOK
<1>3. /\ issue_q' \in Seq(Decoded)
      /\ Len(issue_q') \in 0 .. (IF SuperscalarEn THEN 2 ELSE 1)
      /\ \A j \in 1 .. Len(issue_q') : Deliverable(issue_q'[j])
      /\ wrong_path' \in BOOLEAN
  BY QueueTypeStep
<1>4. \A j \in 1 .. Len(issue_q') : /\ WellFormed(issue_q'[j])
                                    /\ issue_q'[j].kind \in program'.kinds
  BY <1>1, <1>3 DEF Deliverable
<1>5. Len(issue_q') \in 0 .. (IF SuperscalarEn' THEN 2 ELSE 1)
  BY <1>1, <1>3
<1>6. fu_q' \subseteq [port : 0 .. 1, unit : Units, tid : Slots, miss : BOOLEAN]
  BY UnitsStep
<1>7. /\ mul_q' \subseteq Slots /\ div_q' \subseteq Slots /\ lsu' \subseteq Slots
      /\ load_out' \subseteq [tid : Slots, ex : BOOLEAN]
  BY PlacesStep
<1>8. csr_reg' \subseteq Slots
  BY CsrStep
<1> QED
  BY <1>2, <1>3, <1>4, <1>5, <1>6, <1>7, <1>8, Zenon DEF BkTypeOK, WellFormed

\* It holds after reset.
LEMMA BkInitInv == BackInit => BkInv
<1> SUFFICES ASSUME BackInit PROVE BkInv
  OBVIOUS
<1>1. /\ program \in Programs /\ SuperscalarEn = program.superscalar /\ ScoreboardInit
      /\ issue_q = << >> /\ wrong_path = FALSE
      /\ fu_q = {} /\ mul_q = {} /\ div_q = {} /\ csr_reg = {} /\ lsu = {} /\ load_out = {}
  BY DEF BackInit
<1>2. SbInv
  BY <1>1, SbInitInv
<1>3. \A i \in Slots : ~mem[i].issued /\ ~mem[i].valid
  BY <1>1, FreeEntryType DEF ScoreboardInit
<1>4. BkTypeOK
  <2>1. Len(issue_q) = 0
    BY <1>1
  <2>2. issue_q \in Seq(Decoded)
    BY <1>1
  <2>3. wrong_path \in BOOLEAN
    BY <1>1
  <2> QED
    BY <1>1, <2>1, <2>2, <2>3 DEF BkTypeOK
<1>5. EntriesOK
  BY <1>3 DEF EntriesOK
<1>6. UnitsOK
  BY <1>1 DEF UnitsOK
<1>7. FluOK
  BY <1>1 DEF FluOK, one_cycle, In
<1>8. PlacesOK
  BY <1>1, <1>3 DEF PlacesOK, Executing, Loaded, Awaited
<1>9. QueueOK
  BY <1>1 DEF QueueOK
<1>10. WrongOK
  BY <1>3 DEF WrongOK
<1>11. CsrOK
  BY <1>1, <1>3 DEF CsrOK, csr_valid, In
<1> QED
  BY <1>2, <1>4, <1>5, <1>6, <1>7, <1>8, <1>9, <1>10, <1>11 DEF BkInv

\* Every step keeps it.
LEMMA BkNextInv == BkInv /\ [BackNext]_vars => BkInv'
<1> SUFFICES ASSUME BkInv, [BackNext]_vars PROVE BkInv'
  OBVIOUS
<1>1. CASE BackNext
  <2>1. BkTypeOK
    BY DEF BkInv
  <2> PICK in, div_done, ld, st, wb, busy0, k : Cycle(in, div_done, ld, st, wb, busy0, k)
    BY <1>1, <2>1, StepIsCycle
  <2>2. SbInv'
    BY SbInvStep
  <2>3. BkTypeOK'
    BY BkTypeStep
  <2>4. EntriesOK'
    BY EntriesStep
  <2>5. UnitsOK'
    BY UnitsStep
  <2>6. FluOK'
    BY FluStep
  <2>7. PlacesOK'
    BY PlacesStep
  <2>8. QueueOK'
    BY QueueStep
  <2>9. WrongOK'
    BY WrongStep
  <2>10. CsrOK'
    BY CsrStep
  <2> QED
    BY <2>2, <2>3, <2>4, <2>5, <2>6, <2>7, <2>8, <2>9, <2>10, Zenon DEF BkInv
<1>2. CASE UNCHANGED vars
  <2>1. /\ UNCHANGED << mem, issue_pointer, commit_pointer >>
        /\ UNCHANGED << program, SuperscalarEn, issue_q, wrong_path, fu_q, mul_q, div_q,
                        csr_reg, lsu, load_out >>
    BY <1>2 DEF vars, backVars, scoreboardVars
  <2>2. SbInv'
    BY <2>1 DEF BkInv, SbInv, ScoreboardTypeOK, WindowConsistent, CommitPortsApart, occupancy, Dist
  <2>3. BkTypeOK' /\ QueueOK'
    BY <2>1 DEF BkInv, BkTypeOK, QueueOK, bmiss, In
  <2>4. EntriesOK' /\ UnitsOK' /\ FluOK'
    BY <2>1 DEF BkInv, EntriesOK, UnitsOK, FluOK, kind, fu, one_cycle, In
  <2>5. PlacesOK'
    BY <2>1 DEF BkInv, PlacesOK, Executing, Loaded, Awaited
  <2>6. WrongOK'
    BY <2>1 DEF BkInv, WrongOK, Dist, fu
  <2>7. CsrOK'
    BY <2>1 DEF BkInv, CsrOK, FenceWaits, head, kind0, commit_instr, csr_valid, In, fu
  <2> QED
    BY <2>2, <2>3, <2>4, <2>5, <2>6, <2>7 DEF BkInv
<1> QED
  BY <1>1, <1>2

\* Type correctness of the pipeline and how the scoreboard and the functional
\* units agree, for every program and every size.
THEOREM BackInvariant == BackSpec => []BkInv
BY BkInitInv, BkNextInv, PTL DEF BackSpec

\* The issued bits and the pointers of the scoreboard describe the same window
\* in the pipeline, where the ports are driven by the real units.
THEOREM PipelineWindowConsistent == BackSpec => []WindowConsistent
<1>1. BkInv => WindowConsistent
  BY DEF BkInv, SbInv
<1> QED
  BY <1>1, BackInvariant, PTL

\* The commit ports never offer the same instruction in the pipeline.
THEOREM PipelineCommitPortsApart == BackSpec => []CommitPortsApart
<1>1. BkInv => CommitPortsApart
  BY DEF BkInv, SbInv
<1> QED
  BY <1>1, BackInvariant, PTL

\* Two results never meet at the write-back port of the fixed-latency units,
\* although nothing arbitrates it (flu_trans_id_o).
THEOREM FluPortAlwaysFree == BackSpec => []FluPortFree
<1>1. ASSUME NEW S, \A f, g \in S : f = g PROVE Cardinality(S) <= 1
  <2>1. CASE S = {}
    <3>1. Cardinality(S) = 0
      BY <2>1, FS_EmptySet
    <3> QED
      BY <3>1
  <2>2. CASE S # {}
    <3>1. PICK f \in S : TRUE
      BY <2>2
    <3>2. S = {f}
      BY <1>1, <3>1
    <3>3. Cardinality({f}) = 1
      BY FS_Singleton
    <3> QED
      BY <3>2, <3>3
  <2> QED
    BY <2>1, <2>2
<1>2. BkInv => FluPortFree
  <2> SUFFICES ASSUME FluOK PROVE FluPortFree
    BY DEF BkInv
  <2>1. Cardinality(one_cycle) <= 1
    BY <1>1 DEF FluOK
  <2>2. Cardinality(In({"MULT"})) <= 1
    BY <1>1 DEF FluOK
  <2> QED
    BY <2>1, <2>2 DEF FluOK, FluPortFree, mult_valid
<1> QED
  BY <1>2, BackInvariant, PTL

\* In execute there is exactly what the scoreboard waits for, each instruction
\* in one place: no result is lost or written twice.
THEOREM ResultsAlwaysAwaited == BackSpec => []ResultsAreAwaited
<1>1. ASSUME BkInv, NEW i \in Slots
      PROVE  Holders(i) = IF mem[i].issued /\ ~mem[i].valid THEN 1
                 ELSE IF ~mem[i].issued /\ \E w \in load_out : w.tid = i THEN 1 ELSE 0
  <2> DEFINE E == {f \in fu_q : f.tid = i}
             X == {x \in 1 .. 4 : i \in CASE x = 1 -> mul_q [] x = 2 -> div_q [] x = 3 -> lsu
                                          [] x = 4 -> {w.tid : w \in load_out}}
  <2>1. Holders(i) = Cardinality(E) + Cardinality(X)
    BY DEF Holders
  <2>2. /\ \A f, g \in fu_q : f.tid = g.tid => f = g
        /\ Executing(i) => i \notin mul_q /\ i \notin div_q /\ i \notin lsu /\ ~Loaded(i)
        /\ i \in mul_q => i \notin div_q /\ i \notin lsu /\ ~Loaded(i)
        /\ i \in div_q => i \notin lsu /\ ~Loaded(i)
        /\ i \in lsu => ~Loaded(i)
        /\ mem[i].issued /\ ~mem[i].valid <=> Awaited(i)
    BY <1>1 DEF BkInv, PlacesOK
  <2>3. Cardinality(E) = IF Executing(i) THEN 1 ELSE 0
    <3>1. CASE Executing(i)
      <4>1. PICK f \in fu_q : f.tid = i
        BY <3>1 DEF Executing
      <4>2. E = {f}
        BY <2>2, <4>1
      <4>3. Cardinality({f}) = 1
        BY FS_Singleton
      <4> QED
        BY <3>1, <4>2, <4>3
    <3>2. CASE ~Executing(i)
      <4>1. E = {}
        BY <3>2 DEF Executing
      <4> QED
        BY <3>2, <4>1, FS_EmptySet
    <3> QED
      BY <3>1, <3>2
  <2>4. ASSUME NEW x
        PROVE  x \in X <=> \/ x = 1 /\ i \in mul_q
                           \/ x = 2 /\ i \in div_q
                           \/ x = 3 /\ i \in lsu
                           \/ x = 4 /\ Loaded(i)
    <3>1. Loaded(i) <=> i \in {w.tid : w \in load_out}
      BY DEF Loaded
    <3>2. x \in X <=> x \in 1 .. 4 /\ i \in CASE x = 1 -> mul_q [] x = 2 -> div_q [] x = 3 -> lsu
                                          [] x = 4 -> {w.tid : w \in load_out}
      OBVIOUS
    <3>3. x \in 1 .. 4 <=> x = 1 \/ x = 2 \/ x = 3 \/ x = 4
      OBVIOUS
    <3> HIDE DEF X
    <3>4. CASE x = 1
      BY <3>2, <3>3, <3>4
    <3>5. CASE x = 2
      BY <3>2, <3>3, <3>5
    <3>6. CASE x = 3
      BY <3>2, <3>3, <3>6
    <3>7. CASE x = 4
      BY <3>1, <3>2, <3>3, <3>7
    <3> QED
      BY <3>2, <3>3, <3>4, <3>5, <3>6, <3>7
  <2> HIDE DEF X, E
  <2>5. \A x : Cardinality({x}) = 1
    BY FS_Singleton
  <2>6. Cardinality(X) = IF i \in mul_q \/ i \in div_q \/ i \in lsu \/ Loaded(i) THEN 1 ELSE 0
    <3>1. CASE i \in mul_q
      <4>1. X = {1}
        BY <2>2, <2>4, <3>1
      <4> QED
        BY <2>5, <3>1, <4>1
    <3>2. CASE i \in div_q
      <4>1. X = {2}
        BY <2>2, <2>4, <3>2
      <4> QED
        BY <2>5, <3>2, <4>1
    <3>3. CASE i \in lsu
      <4>1. X = {3}
        BY <2>2, <2>4, <3>3
      <4> QED
        BY <2>5, <3>3, <4>1
    <3>4. CASE Loaded(i)
      <4>1. X = {4}
        BY <2>2, <2>4, <3>4
      <4> QED
        BY <2>5, <3>4, <4>1
    <3>5. CASE ~(i \in mul_q \/ i \in div_q \/ i \in lsu \/ Loaded(i))
      <4>1. X = {}
        BY <2>4, <3>5
      <4> QED
        BY <3>5, <4>1, FS_EmptySet
    <3> QED
      BY <3>1, <3>2, <3>3, <3>4, <3>5
  <2>7. Holders(i) = IF Executing(i) \/ i \in mul_q \/ i \in div_q \/ i \in lsu \/ Loaded(i)
                     THEN 1 ELSE 0
    BY <2>1, <2>2, <2>3, <2>6
  <2> QED
    BY <2>2, <2>7 DEF Awaited, Loaded
<1>2. BkInv => ResultsAreAwaited
  BY <1>1 DEF ResultsAreAwaited
<1> QED
  BY <1>2, BackInvariant, PTL

\* In the pipeline too the ring is a queue of the instructions in program order
\* (InstructionWindow.tla): whatever decode, the functional units, the branch
\* unit and the commit stage do at its ports, none is lost, overwritten, retired
\* twice or out of order.
THEOREM PipelineImplementsWindow == BackSpec => ImplementsWindow
<1>1. BackInit => Queue!Init
  BY WindowInit DEF BackInit
<1>2. ASSUME BkInv, BkInv', [BackNext]_vars PROVE [Queue!Next]_Window
  <2>1. CASE BackNext
    <3>1. BkTypeOK
      BY <1>2 DEF BkInv
    <3> PICK in, div_done, ld, st, wb, busy0, k : Cycle(in, div_done, ld, st, wb, busy0, k)
      BY <2>1, <3>1, StepIsCycle
    <3>2. SbInv /\ SbInv'
      BY <1>2 DEF BkInv
    <3>3. SbCycle(Issued(issue_q, k), wb, cancelled(div_done), commit_ack(in), flush_id(in))
      BY DEF Cycle
    <3>4. Queue!Next
      BY <1>2, <3>2, <3>3, PortsKept, WindowCycle
    <3> QED
      BY <3>4
  <2>2. CASE UNCHANGED vars
    <3>1. UNCHANGED << mem, issue_pointer, commit_pointer >>
      BY <2>2 DEF vars, scoreboardVars
    <3> QED
      BY <3>1 DEF Window, occupancy
  <2> QED
    BY <1>2, <2>1, <2>2
<1> QED
  BY <1>1, <1>2, BkInitInv, BkNextInv, PTL DEF BackSpec, ImplementsWindow, Queue!Spec

-----------------------------------------------------------------------------
(***************************************************************************)
(* Forwarding: what is issued gets the operand of program order.           *)
(***************************************************************************)
\* Every instruction of the right path was computed from the right operand, or
\* it is behind an AMO, whose result nobody can forward: the flush at its end
\* throws away what was issued behind it.
OlderAmo(i) == \E j \in Slots : /\ mem[j].issued /\ ~mem[j].instr.wrong
                                /\ kind(j) = "amo" /\ Dist(j) < Dist(i)

GoodOK == \A i \in Slots : mem[i].issued /\ ~mem[i].instr.wrong =>
                             mem[i].instr.good \/ OlderAmo(i)

\* No program uses both CSR instructions and SFENCE.VMA, which does not ask
\* whether its operand comes from a CSR instruction (rs_is_not_csr).
NoSfenceBehindCsr == \A p \in Programs : "csr" \in p.kinds => "sfence" \notin p.kinds

\* A set of slots has a last one.
LEMMA GreatestSlot ==
  ASSUME NEW S \in SUBSET Slots, S # {}
  PROVE  Greatest(S) \in S /\ \A j \in S : j <= Greatest(S)
<1> DEFINE R == OpToRel(<, Nat)
           T == {NR_SB_ENTRIES - 1 - j : j \in S}
<1>1. IsWellFoundedOn(R, Nat)
  BY NatLessThanWellFounded
<1>2. T \subseteq Nat /\ T # {}
  <2>1. ASSUME NEW j \in S PROVE NR_SB_ENTRIES - 1 - j \in Nat
    <3>1. j \in Slots
      OBVIOUS
    <3> QED
      BY <3>1 DEF Slots
  <2> QED
    BY <2>1
<1>3. \E x \in T : \A y \in T : ~(<<y, x>> \in R)
  BY <1>1, <1>2, WFMin
<1>4. \A x, y \in Nat : <<y, x>> \in R <=> y < x
  BY DEF OpToRel
<1>5. PICK x \in T : \A y \in T : ~(y < x)
  BY <1>2, <1>3, <1>4
<1>6. PICK i \in S : x = NR_SB_ENTRIES - 1 - i
  BY <1>5
<1>7. \A j \in S : j <= i
  <2>1. ASSUME NEW j \in S PROVE j <= i
    <3>1. ~(NR_SB_ENTRIES - 1 - j < x)
      BY <1>5
    <3> QED
      BY <1>6, <3>1 DEF Slots
  <2> QED
    BY <2>1
<1> QED
  BY <1>6, <1>7, Zenon DEF Greatest

\* The youngest instruction among the issued ones of S: the last slot below the
\* issue pointer, else the last slot above it.
LEMMA YoungestSlot ==
  ASSUME BkInv, NEW S \in SUBSET Slots, S # {}, \A i \in S : mem[i].issued
  PROVE  Greatest(IF {i \in S : i < issue_pointer} # {} THEN {i \in S : i < issue_pointer} ELSE S)
           = CHOOSE i \in S : \A j \in S : Dist(j) <= Dist(i)
<1> DEFINE before == {i \in S : i < issue_pointer}
           B == IF before # {} THEN before ELSE S
           g == Greatest(B)
<1>1. B \in SUBSET Slots /\ B # {} /\ B \subseteq S
  OBVIOUS
<1>2. g \in B /\ \A j \in B : j <= g
  BY <1>1, GreatestSlot
<1>3. /\ \A j \in S : j >= issue_pointer \/ j <= g
      /\ g < issue_pointer \/ \A j \in S : j >= issue_pointer
      /\ \A j \in S : g >= issue_pointer => j <= g
  <2>1. /\ \A j \in S : j \in Int
        /\ issue_pointer \in Int
    BY DEF Slots, BkInv, SbInv, ScoreboardTypeOK
  <2> HIDE DEF g
  <2>2. CASE before # {}
    BY <1>2, <2>1, <2>2
  <2>3. CASE before = {}
    BY <1>2, <2>1, <2>3
  <2> QED
    BY <2>2, <2>3
<1> HIDE DEF g, B
<1>4. g \in S /\ g \in Slots
  BY <1>1, <1>2
<1>5. /\ first \in Slots /\ occupancy \in 0 .. NR_SB_ENTRIES
      /\ issue_pointer = Plus(first, occupancy)
  BY Shape DEF BkInv
<1>6. ASSUME NEW j \in S
      PROVE  /\ j \in Slots /\ Dist(j) \in 0 .. NR_SB_ENTRIES - 1 /\ j = Plus(first, Dist(j))
             /\ Dist(j) < occupancy
  BY Shape DEF BkInv
<1>7. ASSUME NEW j \in S PROVE Dist(j) <= Dist(g)
  <2>1. /\ j \in Slots /\ Dist(j) \in 0 .. NR_SB_ENTRIES - 1 /\ j = Plus(first, Dist(j))
        /\ Dist(j) < occupancy
    BY <1>6
  <2>2. /\ Dist(g) \in 0 .. NR_SB_ENTRIES - 1 /\ g = Plus(first, Dist(g))
        /\ Dist(g) < occupancy
    BY <1>4, <1>6
  <2>3. /\ j >= issue_pointer \/ j <= g
        /\ g < issue_pointer \/ j >= issue_pointer
        /\ g >= issue_pointer => j <= g
    BY <1>3
  <2> QED
    BY <1>4, <1>5, <2>1, <2>2, <2>3 DEF Plus, Slots
<1>8. ASSUME NEW i \in S, \A j \in S : Dist(j) <= Dist(i) PROVE i = g
  <2>1. Dist(i) <= Dist(g) /\ Dist(g) <= Dist(i)
    BY <1>4, <1>7, <1>8
  <2>2. Dist(i) \in Int /\ Dist(g) \in Int /\ i = Plus(first, Dist(i)) /\ g = Plus(first, Dist(g))
    BY <1>4, <1>6
  <2>3. Dist(i) = Dist(g)
    BY <2>1, <2>2
  <2> QED
    BY <2>2, <2>3
<1>9. g = CHOOSE i \in S : \A j \in S : Dist(j) <= Dist(i)
  BY <1>4, <1>7, <1>8
<1> QED
  BY <1>9 DEF g, B

\* When nothing stalls, the operand of n is the one of program order and final,
\* or an AMO is in flight.
LEMMA OperandIsRight ==
  ASSUME BkInv, GoodOK, NoSfenceBehindCsr, ~bmiss, NEW wb,
         NEW n \in Decoded, WellFormed(n), n.kind \in program.kinds,
         (~has_raw(n.rs) \/ rs_valid(n, wb)) \/ Trapped(n),
         NEW op, op = IF has_raw(n.rs) THEN raw_idx(n.rs) ELSE RegFile,
         ~\E j \in Slots : mem[j].issued /\ ~mem[j].instr.wrong /\ kind(j) = "amo"
  PROVE  op = Expected(n.rs) /\ (op # RegFile => Final(op))
<1> DEFINE rs == n.rs
           S == same_rd_as_rs(rs)
           W == {i \in Slots : mem[i].issued /\ ~mem[i].instr.wrong /\ mem[i].instr.rd = rs}
<1>1. ASSUME NEW i \in Slots, mem[i].issued PROVE mem[i].cancelled <=> mem[i].instr.wrong
  <2>1. i \notin cancelled(TRUE)
    BY DEF cancelled
  <2>2. mem[i].instr.wrong => mem[i].cancelled \/ i \in cancelled(TRUE)
    BY <1>1, CancelsWrong
  <2>3. mem[i].cancelled => mem[i].instr.wrong
    BY <1>1 DEF BkInv, WrongOK
  <2> QED
    BY <2>1, <2>2, <2>3
<1>2. S = W
  BY <1>1 DEF same_rd_as_rs, still_issued
<1>3. Expected(rs) = IF rs = 0 \/ W = {} THEN RegFile
                     ELSE CHOOSE i \in W : \A j \in W : Dist(j) <= Dist(i)
  BY DEF Expected
<1>4. has_raw(rs) <=> W # {} /\ rs # 0
  BY <1>2 DEF has_raw
<1>5. CASE ~has_raw(rs)
  BY <1>3, <1>4, <1>5
<1>6. CASE has_raw(rs)
  <2>1. W \in SUBSET Slots /\ W # {} /\ \A i \in W : mem[i].issued
    BY <1>4, <1>6
  <2>2. op = raw_idx(rs)
    BY <1>6
  <2>3. op = Greatest(IF {i \in W : i < issue_pointer} # {} THEN {i \in W : i < issue_pointer}
                      ELSE W)
    BY <1>2, <2>2, Zenon DEF raw_idx
  <2>5. ASSUME NEW x, x = CHOOSE i \in W : \A j \in W : Dist(j) <= Dist(i),
               x = Greatest(IF {i \in W : i < issue_pointer} # {}
                            THEN {i \in W : i < issue_pointer} ELSE W)
        PROVE  x \in W
    <3> DEFINE before == {i \in W : i < issue_pointer}
               B == IF before # {} THEN before ELSE W
    <3>1. B \in SUBSET Slots /\ B # {} /\ B \subseteq W
      BY <2>1
    <3>2. Greatest(B) \in B
      BY <3>1, GreatestSlot
    <3> QED
      BY <2>5, <3>1, <3>2
  <2> HIDE DEF W
  <2>4. op = CHOOSE i \in W : \A j \in W : Dist(j) <= Dist(i)
    BY <2>1, <2>3, YoungestSlot
  <2>6. op = Expected(rs)
    BY <1>3, <1>4, <1>6, <2>4
  <2>7. op \in W
    BY <2>3, <2>4, <2>5
  <2>8. op \in Slots /\ mem[op].issued /\ ~mem[op].instr.wrong
    BY <2>7 DEF W
  <2>9. rs_is_not_csr(n)
    <3>1. ~Trapped(n)
      BY <1>4, <1>6 DEF Trapped, WellFormed
    <3> QED
      BY <1>6, <3>1 DEF rs_valid
  <2>10. kind(op) # "csr"
    <3>1. ASSUME kind(op) = "csr" PROVE n.kind = "sfence"
      <4>1. fu(mem[op].instr) = "CSR"
        BY <3>1, UnitOfKind DEF kind, Kinds
      <4> QED
        BY <2>2, <2>9, <4>1 DEF rs_is_not_csr
    <3>2. kind(op) \in program.kinds /\ program \in Programs
      BY <2>8 DEF BkInv, EntriesOK, BkTypeOK
    <3> QED
      BY <3>1, <3>2 DEF NoSfenceBehindCsr
  <2>11. kind(op) # "amo" /\ ~OlderAmo(op)
    BY <2>8 DEF OlderAmo
  <2>12. mem[op].instr.good
    BY <2>8, <2>11 DEF GoodOK
  <2> QED
    BY <2>6, <2>10, <2>11, <2>12 DEF Final
<1> QED
  BY <1>5, <1>6

\* What is issued in a cycle gets the right operand, or there is an AMO in front
\* of it.
LEMMA IssuedIsGood ==
  ASSUME BkInv, GoodOK, NoSfenceBehindCsr,
         NEW in, NEW div_done, NEW ld, NEW st, NEW wb, NEW busy0, NEW k,
         Cycle(in, div_done, ld, st, wb, busy0, k), k > 0,
         ~\E j \in Slots : mem[j].issued /\ ~mem[j].instr.wrong /\ kind(j) = "amo"
  PROVE  /\ Good0(issue_q)
         /\ k = 2 => Good1(issue_q)
<1>1. /\ k \in 0 .. 2 /\ k <= Len(issue_q) /\ Len(issue_q) \in 0 .. 2
      /\ k > 0 => ~stall_raw0(issue_q, wb) \/ Trapped(issue_q[1])
      /\ k = 2 => ~stall_raw1(issue_q, wb) \/ Trapped(issue_q[2])
  BY QueueLen DEF Cycle, Go
<1>2. ~bmiss
  BY <1>1 DEF Cycle
<1>3. 1 \in 1 .. Len(issue_q)
  BY <1>1
<1>4. issue_q[1] \in Decoded /\ WellFormed(issue_q[1]) /\ issue_q[1].kind \in program.kinds
  BY <1>3, QueueType
<1>5. (~has_raw(issue_q[1].rs) \/ rs_valid(issue_q[1], wb)) \/ Trapped(issue_q[1])
  BY <1>1 DEF stall_raw0
<1>6. Good0(issue_q)
  <2> DEFINE op == operand0(issue_q)
  <2>1. op = IF has_raw(issue_q[1].rs) THEN raw_idx(issue_q[1].rs) ELSE RegFile
    BY DEF operand0
  <2> HIDE DEF op
  <2>2. op = Expected(issue_q[1].rs) /\ (op # RegFile => Final(op))
    BY <1>2, <1>4, <1>5, <2>1, OperandIsRight
  <2> QED
    BY <2>2 DEF op, Good0
<1>7. ASSUME k = 2 PROVE Good1(issue_q)
  <2>1. 2 \in 1 .. Len(issue_q)
    BY <1>1, <1>7
  <2>2. issue_q[2] \in Decoded /\ WellFormed(issue_q[2]) /\ issue_q[2].kind \in program.kinds
    BY <2>1, QueueType
  <2>3. ~stall_raw1(issue_q, wb) \/ Trapped(issue_q[2])
    BY <1>1, <1>7
  <2>4. ~issue_q[1].wrong
    BY <1>1, <1>2, <1>3 DEF BkInv, QueueOK
  <2>5. CASE needs_rd0(issue_q)
    <3>1. operand1(issue_q) = issue_pointer
      BY <2>5 DEF operand1
    <3>2. issue_q[2].rs # 0 /\ issue_q[2].rs = issue_q[1].rd
      BY <2>5 DEF needs_rd0
    <3> QED
      BY <1>6, <2>4, <3>1, <3>2 DEF Good1
  <2>6. CASE ~needs_rd0(issue_q)
    <3> DEFINE op == operand1(issue_q)
    <3>1. op = IF has_raw(issue_q[2].rs) THEN raw_idx(issue_q[2].rs) ELSE RegFile
      BY <2>6 DEF operand1
    <3>2. (~has_raw(issue_q[2].rs) \/ rs_valid(issue_q[2], wb)) \/ Trapped(issue_q[2])
      BY <2>3 DEF stall_raw1
    <3> HIDE DEF op
    <3>3. op = Expected(issue_q[2].rs) /\ (op # RegFile => Final(op))
      BY <1>2, <2>2, <3>1, <3>2, OperandIsRight
    <3>4. ~(issue_q[2].rs # 0 /\ issue_q[2].rs = issue_q[1].rd /\ ~issue_q[1].wrong)
      BY <2>6 DEF needs_rd0
    <3> QED
      BY <3>3, <3>4 DEF op, Good1
  <2> QED
    BY <2>5, <2>6
<1> QED
  BY <1>6, <1>7

\* An AMO of the right path does not retire without a flush.
LEMMA AmoStays ==
  ASSUME BkInv, NEW in, in \in Answers, ~flush_id(in), NEW j \in Slots,
         mem[j].issued, ~mem[j].instr.wrong, kind(j) = "amo"
  PROVE  Stays(j, in)
<1> SUFFICES ASSUME Retired(j, commit_ack(in)) PROVE FALSE
  BY DEF Stays
<1>1. PICK p \in commit_ack(in) : j = commit_pointer[p]
  BY DEF Retired
<1>2. p \in CommitPorts /\ (p = 0 \/ p = 1)
  BY DEF commit_ack, CommitPorts
<1>3. CASE p = 0
  <2>1. commit_ack0(in) /\ kind0 = "amo"
    BY <1>1, <1>3 DEF commit_ack, kind0, kind, head, commit_instr
  <2>2. ~drop0
    BY <1>1, <1>3 DEF BkInv, WrongOK, drop0, head, commit_instr
  <2> QED
    BY <2>1, <2>2 DEF commit_ack0, flush_id, amo_valid_commit
<1>4. CASE p = 1
  <2>1. commit_ack1(in)
    BY <1>1, <1>4 DEF commit_ack
  <2>2. fu(mem[j].instr) \in {"ALU", "LOAD", "CTRL_FLOW", "MULT"}
    BY <1>1, <1>4, <2>1 DEF commit_ack1, commit_instr
  <2>3. fu(mem[j].instr) = "STORE"
    BY UnitOfKind DEF kind, Kinds
  <2> QED
    BY <2>2, <2>3
<1> QED
  BY <1>2, <1>3, <1>4

\* After a cycle the operands are right again.
LEMMA GoodStep ==
  ASSUME BkInv, GoodOK, NoSfenceBehindCsr,
         NEW in, NEW div_done, NEW ld, NEW st, NEW wb, NEW busy0, NEW k,
         Cycle(in, div_done, ld, st, wb, busy0, k)
  PROVE  GoodOK'
<1> SUFFICES ASSUME NEW i \in Slots, mem'[i].issued, ~mem'[i].instr.wrong
             PROVE  mem'[i].instr.good \/ OlderAmo(i)'
  BY DEF GoodOK
<1>1. ~flush_id(in) /\ in \in Answers
  BY SlotsFlushed DEF Cycle
<1>2. ASSUME NEW j \in Slots, mem[j].issued, ~mem[j].instr.wrong, kind(j) = "amo"
      PROVE  /\ mem'[j].issued /\ ~mem'[j].instr.wrong /\ mem'[j].instr.kind = "amo"
             /\ Stays(j, in)
  <2>1. Stays(j, in)
    BY <1>1, <1>2, AmoStays
  <2>2. mem'[j].issued /\ mem'[j].instr = mem[j].instr
    BY <1>1, <1>2, <2>1, KeptSlot DEF Stays
  <2> QED
    BY <1>2, <2>1, <2>2 DEF kind
<1>3. ASSUME NEW j \in Slots, mem[j].issued, ~mem[j].instr.wrong, kind(j) = "amo",
             Dist(j)' < Dist(i)'
      PROVE  OlderAmo(i)'
  <2>1. mem'[j].issued /\ ~mem'[j].instr.wrong /\ mem'[j].instr.kind = "amo"
    BY <1>2, <1>3
  <2> QED
    BY <1>3, <2>1 DEF OlderAmo, kind
<1> PICK r : r = num_commit(commit_ack(in))
  OBVIOUS
<1> PICK n : n = occupancy
  OBVIOUS
<1>4. CASE Stays(i, in)
  <2>1. mem[i].issued /\ mem'[i].instr = mem[i].instr
    BY <1>1, <1>4, KeptSlot DEF Stays
  <2>2. mem[i].instr.good \/ OlderAmo(i)
    BY <2>1 DEF GoodOK
  <2>3. ASSUME OlderAmo(i) PROVE OlderAmo(i)'
    <3>1. PICK j \in Slots : /\ mem[j].issued /\ ~mem[j].instr.wrong
                             /\ kind(j) = "amo" /\ Dist(j) < Dist(i)
      BY <2>3 DEF OlderAmo
    <3>2. Stays(j, in)
      BY <1>2, <3>1
    <3>3. /\ Dist(j)' = Dist(j) - r /\ Dist(i)' = Dist(i) - r /\ r \in 0 .. 2
          /\ Dist(i) \in Nat /\ Dist(j) \in Nat
      BY <1>1, <1>4, <3>2, DistAfter
    <3>4. Dist(j)' < Dist(i)'
      BY <3>1, <3>3
    <3> QED
      BY <1>3, <3>1, <3>4
  <2> QED
    BY <2>1, <2>2, <2>3
<1>5. CASE Enters(i, k)
  <2>0. /\ k \in 0 .. 2 /\ n \in Nat /\ r \in 0 .. 2 /\ k > 0
        /\ k > 0 /\ i = issue_pointer => Dist(i)' = n - r
        /\ k = 2 /\ i = second => Dist(i)' = n + 1 - r
        /\ \A j \in Slots : mem[j].issued /\ Stays(j, in) => Dist(j)' < n - r
    <3>1. /\ k \in 0 .. 2 /\ n \in Nat /\ r \in 0 .. 2
          /\ k > 0 /\ i = issue_pointer => Dist(i)' = n - r
          /\ k = 2 /\ i = second => Dist(i)' = n + 1 - r
          /\ \A j \in Slots : mem[j].issued /\ Stays(j, in) => Dist(j)' < n - r
      BY <1>1, DistNew
    <3> QED
      BY <1>5, <3>1 DEF Enters
  <2>1. CASE \E j \in Slots : mem[j].issued /\ ~mem[j].instr.wrong /\ kind(j) = "amo"
    <3>1. PICK j \in Slots : mem[j].issued /\ ~mem[j].instr.wrong /\ kind(j) = "amo"
      BY <2>1
    <3>2. Stays(j, in)
      BY <1>2, <3>1
    <3>3. Dist(j)' < n - r /\ Dist(i)' >= n - r
      BY <1>5, <2>0, <3>1, <3>2 DEF Enters
    <3>4. Dist(j)' \in Int
      BY <1>1, <2>0, <3>2, DistAfter
    <3>5. Dist(i)' \in Int
      BY <1>5, <2>0 DEF Enters
    <3>6. Dist(j)' < Dist(i)'
      BY <2>0, <3>3, <3>4, <3>5
    <3> QED
      BY <1>3, <3>1, <3>6
  <2>2. CASE ~\E j \in Slots : mem[j].issued /\ ~mem[j].instr.wrong /\ kind(j) = "amo"
    <3>1. Good0(issue_q) /\ (k = 2 => Good1(issue_q))
      BY <2>0, <2>2, IssuedIsGood
    <3>2. \/ Fresh(mem'[i], issue_q[1], Good0(issue_q))
          \/ k = 2 /\ Fresh(mem'[i], issue_q[2], Good1(issue_q))
      BY <1>5, EntersFacts
    <3> QED
      BY <3>1, <3>2, Zenon DEF Fresh
  <2> QED
    BY <2>1, <2>2
<1> QED
  BY <1>1, <1>4, <1>5, SlotsAfter

\* In such a state only what sequential execution would retire next can retire.
LEMMA ExactNow ==
  ASSUME BkInv, GoodOK
  PROVE  CommitsAreExact
<1>0. /\ first \in Slots /\ head = mem[first] /\ kind0 = mem[first].instr.kind
      /\ 0 \in CommitPorts /\ Dist(first) = 0
  BY DEF BkInv, SbInv, ScoreboardTypeOK, CommitPorts, first, head, commit_instr, kind0, Dist, Slots
<1>1. ASSUME NEW i \in Slots PROVE Dist(i) \in Nat /\ (Dist(i) = 0 => i = first)
  <2>1. Dist(i) \in 0 .. NR_SB_ENTRIES - 1 /\ i = Plus(first, Dist(i))
    BY Shape DEF BkInv
  <2> QED
    BY <1>0, <2>1 DEF Plus, Slots
<1>2. ASSUME NEW i \in Slots, mem[i].issued, mem[i].instr.wrong, ~mem[i].cancelled
      PROVE  \E j \in Slots : mem[j].issued /\ ~mem[j].valid /\ Dist(i) = Dist(j) + 1
  <2>1. PICK f \in fu_q : f.miss /\ Dist(i) = Dist(f.tid) + 1
    BY <1>2 DEF BkInv, WrongOK
  <2>2. f.tid \in Slots /\ mem[f.tid].issued /\ ~mem[f.tid].valid
    BY <2>1, MissedBranch DEF BkInv
  <2> QED
    BY <2>1, <2>2
<1>3. head.valid => mem[first].issued
  BY <1>0 DEF BkInv, SbInv, WindowConsistent
<1>4. ASSUME head.valid, head.instr.wrong PROVE drop0
  <2>1. CASE ~head.cancelled
    <3>1. PICK j \in Slots : Dist(first) = Dist(j) + 1
      BY <1>0, <1>2, <1>3, <1>4, <2>1
    <3> QED
      BY <1>0, <1>1, <3>1
  <2> QED
    BY <2>1 DEF drop0
<1>5. ASSUME NEW in \in Answers, NEW p \in commit_ack(in)
      PROVE  /\ commit_instr(p).cancelled <=> commit_instr(p).instr.wrong
             /\ commit_instr(p).cancelled \/ commit_instr(p).instr.good
  <2> PICK i \in Slots : i = commit_pointer[p]
    BY DEF BkInv, SbInv, ScoreboardTypeOK, commit_ack
  <2>1. p \in CommitPorts /\ (p = 0 \/ p = 1)
    BY DEF commit_ack, CommitPorts
  <2>2. mem[i].valid /\ mem[i].issued
    BY RetiredIsValid DEF Retired
  <2>3. head.valid
    BY <1>5, <2>1 DEF commit_ack, commit_ack0, commit_ack1, Committing
  <2>4. ASSUME NEW j \in Slots, Dist(j) < Dist(i) PROVE j = first /\ p = 1
    <3>1. p = 0 => Dist(i) = 0
      BY <1>0 DEF first
    <3>2. ASSUME p = 1 PROVE Dist(i) = 1
      <4>1. i = Plus(first, 1)
        BY <2>1, <2>2, <3>2 DEF BkInv, SbInv, CommitPortsApart, first
      <4> QED
        BY <1>0, <4>1 DEF Dist, Plus, Slots, first
    <3> QED
      BY <1>1, <2>1, <2>4, <3>1, <3>2
  <2>5. mem[i].cancelled => mem[i].instr.wrong
    BY <2>2 DEF BkInv, WrongOK
  <2>6. ASSUME mem[i].instr.wrong, ~mem[i].cancelled PROVE FALSE
    <3>1. PICK j \in Slots : mem[j].issued /\ ~mem[j].valid /\ Dist(i) = Dist(j) + 1
      BY <1>2, <2>2, <2>6
    <3>2. Dist(j) < Dist(i)
      BY <1>1, <3>1
    <3> QED
      BY <1>0, <2>3, <2>4, <3>1, <3>2
  <2>7. ASSUME ~mem[i].instr.wrong, ~mem[i].instr.good PROVE FALSE
    <3>1. PICK j \in Slots : kind(j) = "amo" /\ Dist(j) < Dist(i)
      BY <2>2, <2>7 DEF GoodOK, OlderAmo
    <3>2. j = first /\ p = 1
      BY <2>4, <3>1
    <3>3. kind0 # "amo"
      BY <3>2 DEF commit_ack, commit_ack1
    <3> QED
      BY <1>0, <3>1, <3>2, <3>3 DEF kind
  <2>8. commit_instr(p) = mem[i]
    BY DEF commit_instr
  <2> QED
    BY <2>5, <2>6, <2>7, <2>8
<1>6. ASSUME NEW in \in Answers, exception(in) PROVE ~head.instr.wrong
  BY <1>4, <1>6 DEF exception
<1>7. ASSUME NEW in \in Answers, commit_csr(in), kind0 = "csr"
      PROVE  csr_reg = {commit_pointer[0]}
  <2>1. head.valid /\ fu(head.instr) = "CSR"
    BY <1>7, HeadFacts
  <2>2. ~FenceWaits
    BY <1>7 DEF FenceWaits
  <2>3. (\E f \in In({"CSR"}) : f.tid = first) \/ csr_reg = {first}
    BY <1>0, <1>3, <2>1, <2>2 DEF BkInv, CsrOK
  <2>4. ASSUME NEW f \in In({"CSR"}), f.tid = first PROVE FALSE
    <3>1. Awaited(first)
      BY <2>4 DEF Awaited, Executing, In
    <3> QED
      BY <1>0, <2>1, <3>1, AwaitedIssued DEF BkInv
  <2> QED
    BY <2>3, <2>4 DEF first
<1> QED
  BY <1>5, <1>6, <1>7 DEF CommitsAreExact

\* Forwarding, dual issue, branch speculation and the flushes together retire
\* exactly what sequential execution would: every commit is of the right path,
\* was computed from the operand of program order, and every CSR instruction
\* finds its own address in the buffer.  For every number of slots and every set
\* of programs in which no SFENCE.VMA reads what a CSR instruction writes; run
\* sfence_forwarding shows what happens in the others.
THEOREM CommitsAlwaysExact ==
  ASSUME NoSfenceBehindCsr
  PROVE  BackSpec => []CommitsAreExact
<1>1. BackInit => GoodOK
  <2> SUFFICES ASSUME BackInit PROVE GoodOK
    OBVIOUS
  <2>1. \A i \in Slots : ~mem[i].issued
    BY FreeEntryType DEF BackInit, ScoreboardInit
  <2> QED
    BY <2>1 DEF GoodOK
<1>2. BkInv /\ GoodOK /\ [BackNext]_vars => GoodOK'
  <2> SUFFICES ASSUME BkInv, GoodOK, [BackNext]_vars PROVE GoodOK'
    OBVIOUS
  <2>1. CASE BackNext
    <3>1. BkTypeOK
      BY DEF BkInv
    <3> PICK in, div_done, ld, st, wb, busy0, k : Cycle(in, div_done, ld, st, wb, busy0, k)
      BY <2>1, <3>1, StepIsCycle
    <3> QED
      BY GoodStep
  <2>2. CASE UNCHANGED vars
    <3>1. UNCHANGED << mem, issue_pointer, commit_pointer >>
      BY <2>2 DEF vars, scoreboardVars
    <3> QED
      BY <3>1 DEF GoodOK, OlderAmo, kind, Dist
  <2> QED
    BY <2>1, <2>2
<1>3. BkInv /\ GoodOK => CommitsAreExact
  BY ExactNow
<1> QED
  BY <1>1, <1>2, <1>3, BackInvariant, PTL DEF BackSpec
=============================================================================
