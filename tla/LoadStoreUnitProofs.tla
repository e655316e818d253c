------------------------- MODULE LoadStoreUnitProofs -------------------------
(***************************************************************************)
(* Proofs about the store buffer, and about the load-store unit around it: *)
(* for every number of scoreboard slots, every depth of the store and load *)
(* buffers and every program in which no store faults the store buffer is  *)
(* driven as it asks, requests and results stay matched, and memory        *)
(* operations keep their order.                                            *)
(***************************************************************************)
EXTENDS LoadStoreUnit, SequenceTheorems, FiniteSetTheorems, TLAPS

-----------------------------------------------------------------------------
(***************************************************************************)
(* The store buffer on its own, for every depth of its two rings and every *)
(* set of addresses.                                                       *)
(***************************************************************************)
USE DepthAssumption

\* The inductive invariant: the types and the agreement of pointers, counts
\* and valid bits.
SBInv == SBTypeOK /\ RingsConsistent

\* The reset value of a slot (`'{default: 0}') is an invalid entry.
LEMMA ResetEntryType == ResetEntry \in Entry /\ ~ResetEntry.valid
                                             /\ ~ResetEntry.wait_rvalid
<1>1. PICK w \in Word : TRUE
  BY WordAssumption
<1>2. [word |-> w, cbo |-> FALSE] \in Store /\ ~([word |-> w, cbo |-> FALSE]).cbo
  BY DEF Store
<1>3. (CHOOSE s \in Store : ~s.cbo) \in Store
  BY <1>2
<1> QED
  BY <1>3 DEF ResetEntry, Entry

\* After reset both rings are empty.
LEMMA SBInitInv == SBInit => SBInv
<1> SUFFICES ASSUME SBInit PROVE SBInv
  OBVIOUS
<1>1. SBTypeOK
  BY ResetEntryType DEF SBInit, SBTypeOK, SpecSlots, CommitSlots
<1>2. RingsConsistent
  BY ResetEntryType DEF SBInit, RingsConsistent, RingOK, InWindow, Wrap, SpecSlots, CommitSlots
<1> QED
  BY <1>1, <1>2 DEF SBInv

\* core_if keeps the speculative ring well typed and consistent.
LEMMA CoreIfInv ==
  ASSUME SBInv, NEW valid \in BOOLEAN, NEW st \in Store,
         NEW commit \in BOOLEAN, NEW flush \in BOOLEAN,
         InputContract(valid, commit, flush),
         CoreIf(valid, st, commit, flush)
  PROVE  /\ speculative_queue' \in [SpecSlots -> Entry]
         /\ speculative_read_pointer' \in SpecSlots
         /\ speculative_write_pointer' \in SpecSlots
         /\ speculative_status_cnt' \in 0 .. DEPTH_SPEC
         /\ RingOK(speculative_queue', speculative_read_pointer',
                   speculative_write_pointer', speculative_status_cnt', DEPTH_SPEC)
         /\ \A i \in SpecSlots : ~(speculative_queue'[i].wait_rvalid)
<1> USE DEF SBInv, SBTypeOK, RingsConsistent, SpecSlots, CoreIf, InputContract
<1>1. speculative_queue' \in [SpecSlots -> Entry]
  BY DEF SpecQueueNext, Entry
<1>2. /\ speculative_read_pointer' \in SpecSlots
      /\ speculative_write_pointer' \in SpecSlots
  BY DEF Wrap
<1>3. speculative_status_cnt' \in 0 .. DEPTH_SPEC
  BY DEF CountAfter
<1>4. speculative_write_pointer' =
        Wrap(speculative_read_pointer' + speculative_status_cnt', DEPTH_SPEC)
  BY DEF CountAfter, Wrap, RingOK
<1>5. ASSUME NEW i \in 0 .. DEPTH_SPEC - 1
      PROVE  speculative_queue'[i].valid <=>
               InWindow(i, speculative_read_pointer', speculative_status_cnt', DEPTH_SPEC)
  <2>1. speculative_queue[i].valid <=>
          InWindow(i, speculative_read_pointer, speculative_status_cnt, DEPTH_SPEC)
    BY DEF RingOK
  <2>2. speculative_queue'[i].valid <=>
          /\ ~flush
          /\ ~(commit /\ i = speculative_read_pointer)
          /\ \/ valid /\ i = speculative_write_pointer
             \/ speculative_queue[i].valid
    BY DEF SpecQueueNext, Entry
  <2>3. speculative_write_pointer =
          Wrap(speculative_read_pointer + speculative_status_cnt, DEPTH_SPEC)
    BY DEF RingOK
  <2> QED
    BY <2>1, <2>2, <2>3 DEF InWindow, Wrap, CountAfter
<1>6. ASSUME NEW i \in SpecSlots PROVE ~(speculative_queue'[i].wait_rvalid)
  BY DEF SpecQueueNext, Entry
<1> QED
  BY <1>1, <1>2, <1>3, <1>4, <1>5, <1>6 DEF RingOK

\* The head that leaves or is granted is a valid entry, hence the count is not 0.
LEMMA LeavesNonEmpty ==
  ASSUME SBInv, NEW stall \in BOOLEAN, NEW gnt \in BOOLEAN, NEW rvalid \in BOOLEAN,
         Leaves(stall, gnt, rvalid)
  PROVE  commit_status_cnt > 0
<1>1. commit_queue[commit_read_pointer].valid
  BY DEF Leaves, Granted, data_req
<1> QED
  BY <1>1 DEF SBInv, SBTypeOK, RingsConsistent, RingOK, InWindow, CommitSlots

\* store_if keeps the committed ring well typed and consistent.
LEMMA StoreIfInv ==
  ASSUME SBInv, NEW valid \in BOOLEAN, NEW commit \in BOOLEAN, NEW flush \in BOOLEAN,
         NEW stall \in BOOLEAN, NEW gnt \in BOOLEAN, NEW rvalid \in BOOLEAN,
         InputContract(valid, commit, flush),
         StoreIf(commit, stall, gnt, rvalid)
  PROVE  /\ commit_queue' \in [CommitSlots -> Entry]
         /\ commit_read_pointer' \in CommitSlots
         /\ commit_write_pointer' \in CommitSlots
         /\ commit_status_cnt' \in 0 .. DEPTH_COMMIT
         /\ RingOK(commit_queue', commit_read_pointer',
                   commit_write_pointer', commit_status_cnt', DEPTH_COMMIT)
         /\ \A i \in CommitSlots :
              commit_queue'[i].valid /\ commit_queue'[i].wait_rvalid
                => i = commit_read_pointer' /\ commit_queue'[i].st.cbo
<1> DEFINE leaves == Leaves(stall, gnt, rvalid)
           granted == Granted(stall, gnt)
<1> USE DEF SBInv, SBTypeOK, RingsConsistent, CommitSlots, SpecSlots
<1>1. /\ leaves \in BOOLEAN
      /\ granted \in BOOLEAN
      /\ leaves => commit_status_cnt > 0
      /\ granted => /\ commit_queue[commit_read_pointer].valid
                    /\ ~commit_queue[commit_read_pointer].wait_rvalid
      /\ granted /\ ~leaves => commit_queue[commit_read_pointer].st.cbo
  BY LeavesNonEmpty DEF Leaves, Granted, data_req, Entry, Store
<1>2. /\ commit_queue' = CommitQueueNext(commit, stall, gnt, rvalid)
      /\ commit_read_pointer' =
           IF leaves THEN Wrap(commit_read_pointer + 1, DEPTH_COMMIT)
                     ELSE commit_read_pointer
      /\ commit_write_pointer' =
           IF commit THEN Wrap(commit_write_pointer + 1, DEPTH_COMMIT)
                     ELSE commit_write_pointer
      /\ commit_status_cnt' = commit_status_cnt + (IF commit THEN 1 ELSE 0)
                                                - (IF leaves THEN 1 ELSE 0)
  BY DEF StoreIf
<1> HIDE DEF leaves, granted
<1>3. ASSUME NEW i \in CommitSlots
      PROVE  /\ commit /\ i = commit_write_pointer =>
                  commit_queue'[i] = speculative_queue[speculative_read_pointer]
             /\ ~(commit /\ i = commit_write_pointer) =>
                  commit_queue'[i] =
                    [st |-> commit_queue[i].st,
                     valid |-> commit_queue[i].valid
                                 /\ ~(i = commit_read_pointer /\ leaves),
                     wait_rvalid |-> commit_queue[i].wait_rvalid
                                 \/ (i = commit_read_pointer /\ granted
                                       /\ ~(i = commit_read_pointer /\ leaves))]
  BY <1>2 DEF CommitQueueNext, MovedEntry, leaves, granted
<1>4. ASSUME NEW i \in CommitSlots
      PROVE  /\ speculative_queue[speculative_read_pointer] \in Entry
             /\ commit_queue[i].st \in Store
             /\ commit_queue[i].valid \in BOOLEAN
             /\ commit_queue[i].wait_rvalid \in BOOLEAN
  BY DEF Entry
<1>5. ASSUME NEW i \in CommitSlots
      PROVE  /\ commit_queue'[i] \in Entry
             /\ ~(commit /\ i = commit_write_pointer) =>
                  /\ commit_queue'[i].st = commit_queue[i].st
                  /\ commit_queue'[i].valid <=>
                       (commit_queue[i].valid /\ ~(i = commit_read_pointer /\ leaves))
                  /\ commit_queue'[i].wait_rvalid <=>
                       \/ commit_queue[i].wait_rvalid
                       \/ i = commit_read_pointer /\ granted /\ ~leaves
  <2>1. CASE commit /\ i = commit_write_pointer
    BY <2>1, <1>3, <1>4
  <2>2. CASE ~(commit /\ i = commit_write_pointer)
    <3> DEFINE v == commit_queue[i].valid /\ ~(i = commit_read_pointer /\ leaves)
               r == \/ commit_queue[i].wait_rvalid
                    \/ i = commit_read_pointer /\ granted
                         /\ ~(i = commit_read_pointer /\ leaves)
    <3>1. v \in BOOLEAN /\ r \in BOOLEAN
      BY <1>1, <1>4
    <3>2. commit_queue'[i] = [st |-> commit_queue[i].st, valid |-> v, wait_rvalid |-> r]
      BY <2>2, <1>3
    <3>3. r <=> \/ commit_queue[i].wait_rvalid
                \/ i = commit_read_pointer /\ granted /\ ~leaves
      BY <1>1
    <3> HIDE DEF v, r
    <3>4. /\ commit_queue'[i] \in Entry
          /\ commit_queue'[i].st = commit_queue[i].st
          /\ commit_queue'[i].valid = v
          /\ commit_queue'[i].wait_rvalid = r
      BY <3>1, <3>2, <1>4 DEF Entry
    <3> QED
      BY <3>3, <3>4 DEF v
  <2> QED
    BY <2>1, <2>2
<1>6. commit_queue' \in [CommitSlots -> Entry]
  BY <1>2, <1>5 DEF CommitQueueNext
<1>7. /\ commit_read_pointer' \in CommitSlots
      /\ commit_write_pointer' \in CommitSlots
  BY <1>2 DEF Wrap
<1>8. commit_status_cnt' \in 0 .. DEPTH_COMMIT
  BY <1>1, <1>2 DEF InputContract
<1>9. commit_write_pointer' =
        Wrap(commit_read_pointer' + commit_status_cnt', DEPTH_COMMIT)
  BY <1>1, <1>2 DEF InputContract, RingOK, Wrap
<1>10. commit => speculative_queue[speculative_read_pointer].valid
  BY DEF InputContract, RingOK, InWindow
<1>11. ASSUME NEW i \in 0 .. DEPTH_COMMIT - 1
       PROVE  commit_queue'[i].valid <=>
                InWindow(i, commit_read_pointer', commit_status_cnt', DEPTH_COMMIT)
  <2>1. commit_queue[i].valid <=>
          InWindow(i, commit_read_pointer, commit_status_cnt, DEPTH_COMMIT)
    BY DEF RingOK
  <2>2. commit_queue'[i].valid <=>
          \/ commit /\ i = commit_write_pointer
          \/ commit_queue[i].valid /\ ~(i = commit_read_pointer /\ leaves)
    BY <1>3, <1>5, <1>10
  <2>3. commit_write_pointer = Wrap(commit_read_pointer + commit_status_cnt, DEPTH_COMMIT)
    BY DEF RingOK
  <2>4. commit => commit_status_cnt < DEPTH_COMMIT
    BY DEF InputContract
  <2> QED
    BY <1>1, <1>2, <2>1, <2>2, <2>3, <2>4 DEF InWindow, Wrap
<1>12. ASSUME NEW i \in CommitSlots, commit_queue'[i].valid, commit_queue'[i].wait_rvalid
       PROVE  i = commit_read_pointer' /\ commit_queue'[i].st.cbo
  <2>1. ~(commit /\ i = commit_write_pointer)
    BY <1>3, <1>12
  <2>2. /\ commit_queue[i].valid /\ ~(i = commit_read_pointer /\ leaves)
        /\ commit_queue[i].wait_rvalid \/ (i = commit_read_pointer /\ granted /\ ~leaves)
        /\ commit_queue'[i].st = commit_queue[i].st
    BY <2>1, <1>5, <1>12
  <2>3. i = commit_read_pointer /\ commit_queue[i].st.cbo
    BY <2>2, <1>1
  <2> QED
    BY <2>2, <2>3, <1>2
<1> QED
  BY <1>6, <1>7, <1>8, <1>9, <1>11, <1>12 DEF RingOK

\* Every cycle the input contract allows preserves the invariant.
LEMMA SBNextInv == SBInv /\ [SBNext]_sbVars => SBInv'
<1> SUFFICES ASSUME SBInv, [SBNext]_sbVars PROVE SBInv'
  OBVIOUS
<1>1. CASE SBNext
  <2> PICK valid, commit, flush, stall, gnt, rvalid \in BOOLEAN, st \in Store :
        /\ InputContract(valid, commit, flush)
        /\ Cycle(valid, st, commit, flush, stall, gnt, rvalid)
    BY <1>1 DEF SBNext
  <2>1. CoreIf(valid, st, commit, flush) /\ StoreIf(commit, stall, gnt, rvalid)
    BY DEF Cycle
  <2> QED
    BY <2>1, CoreIfInv, StoreIfInv DEF SBInv, SBTypeOK, RingsConsistent
<1>2. CASE UNCHANGED sbVars
  BY <1>2 DEF SBInv, SBTypeOK, RingsConsistent, RingOK, sbVars, specVars, commitVars
<1> QED
  BY <1>1, <1>2

\* The pointers, status counts and valid bits of both rings stay in their
\* ranges and agree with one another, for every depth.
THEOREM RingsAlwaysConsistent == SBSpec => [](SBTypeOK /\ RingsConsistent)
<1>1. SBInv => SBTypeOK /\ RingsConsistent
  BY DEF SBInv
<1> QED
  BY SBInitInv, SBNextInv, <1>1, PTL DEF SBSpec

-----------------------------------------------------------------------------
\* A slot is in the window of a ring exactly when it is the k-th of its stores.
LEMMA WindowIsContents ==
  ASSUME NEW depth \in Nat \ {0}, NEW rd \in 0 .. depth - 1, NEW cnt \in 0 .. depth,
         NEW i \in 0 .. depth - 1
  PROVE  InWindow(i, rd, cnt, depth) <=>
           \E k \in 1 .. cnt : i = Wrap(rd + k - 1, depth)
<1>1. ASSUME InWindow(i, rd, cnt, depth)
      PROVE  \E k \in 1 .. cnt : i = Wrap(rd + k - 1, depth)
  <2> DEFINE k == IF i >= rd THEN i - rd + 1 ELSE i + depth - rd + 1
  <2>1. k \in 1 .. cnt /\ i = Wrap(rd + k - 1, depth)
    BY <1>1 DEF InWindow, Wrap
  <2> QED
    BY <2>1
<1>2. ASSUME NEW k \in 1 .. cnt, i = Wrap(rd + k - 1, depth)
      PROVE  InWindow(i, rd, cnt, depth)
  BY <1>2 DEF InWindow, Wrap
<1> QED
  BY <1>1, <1>2

\* In every state of the invariant the address check sees exactly the stores of
\* the two queues.
LEMMA CheckExact ==
  ASSUME SBInv, NEW w \in Word
  PROVE  page_offset_matches(w, {}) <=>
           \/ \E k \in 1 .. speculative_status_cnt : speculativeStores[k].word = w
           \/ \E k \in 1 .. commit_status_cnt : committedStores[k].word = w
<1> USE DEF SBInv, SBTypeOK, RingsConsistent
<1>1. (\E i \in SpecSlots : speculative_queue[i].valid /\ speculative_queue[i].st.word = w)
        <=> \E k \in 1 .. speculative_status_cnt : speculativeStores[k].word = w
  <2>1. \A k \in 1 .. speculative_status_cnt :
          speculativeStores[k] = speculative_queue[Wrap(speculative_read_pointer + k - 1, DEPTH_SPEC)].st
    BY DEF speculativeStores, Contents
  <2>2. \A k \in 1 .. speculative_status_cnt : Wrap(speculative_read_pointer + k - 1, DEPTH_SPEC) \in SpecSlots
    BY DEF SpecSlots, Wrap
  <2>3. \A i \in SpecSlots : speculative_queue[i].valid <=>
          \E k \in 1 .. speculative_status_cnt : i = Wrap(speculative_read_pointer + k - 1, DEPTH_SPEC)
    BY WindowIsContents DEF SpecSlots, RingOK
  <2> HIDE DEF SBInv, SBTypeOK, RingsConsistent
  <2> QED
    BY ONLY <2>1, <2>2, <2>3
<1>2. (\E i \in CommitSlots : commit_queue[i].valid /\ commit_queue[i].st.word = w)
        <=> \E k \in 1 .. commit_status_cnt : committedStores[k].word = w
  <2>1. \A k \in 1 .. commit_status_cnt :
          committedStores[k] = commit_queue[Wrap(commit_read_pointer + k - 1, DEPTH_COMMIT)].st
    BY DEF committedStores, Contents
  <2>2. \A k \in 1 .. commit_status_cnt : Wrap(commit_read_pointer + k - 1, DEPTH_COMMIT) \in CommitSlots
    BY DEF CommitSlots, Wrap
  <2>3. \A i \in CommitSlots : commit_queue[i].valid <=>
          \E k \in 1 .. commit_status_cnt : i = Wrap(commit_read_pointer + k - 1, DEPTH_COMMIT)
    BY WindowIsContents DEF CommitSlots, RingOK
  <2> HIDE DEF SBInv, SBTypeOK, RingsConsistent
  <2> QED
    BY ONLY <2>1, <2>2, <2>3
<1> QED
  BY <1>1, <1>2 DEF page_offset_matches

\* A load that asks the address checker is told about exactly the stores that
\* have not reached the cache, for every depth and every set of addresses.
THEOREM AddressCheckExact == SBSpec => []PageOffsetExact
<1>1. SBInv => PageOffsetExact
  BY CheckExact DEF PageOffsetExact
<1> QED
  BY SBInitInv, SBNextInv, <1>1, PTL DEF SBSpec

-----------------------------------------------------------------------------
\* A function on 1..n is a sequence of length n.
LEMMA FunctionIsSeq ==
  ASSUME NEW S, NEW n \in Nat, NEW f \in [1 .. n -> S]
  PROVE  f \in Seq(S) /\ Len(f) = n
OBVIOUS

\* The contents of a ring are a sequence of stores, as long as the count says.
LEMMA ContentsType ==
  ASSUME NEW depth \in Nat \ {0}, NEW rd \in 0 .. depth - 1, NEW cnt \in 0 .. depth,
         NEW q \in [0 .. depth - 1 -> Entry]
  PROVE  /\ Contents(q, rd, cnt, depth) \in Seq(Store)
         /\ Len(Contents(q, rd, cnt, depth)) = cnt
         /\ \A k \in 1 .. cnt : Contents(q, rd, cnt, depth)[k] = q[Wrap(rd + k - 1, depth)].st
<1>1. \A k \in 1 .. cnt : q[Wrap(rd + k - 1, depth)].st \in Store
  BY DEF Wrap, Entry
<1>2. /\ Contents(q, rd, cnt, depth) \in [1 .. cnt -> Store]
      /\ \A k \in 1 .. cnt : Contents(q, rd, cnt, depth)[k] = q[Wrap(rd + k - 1, depth)].st
  BY <1>1 DEF Contents
<1>3. cnt \in Nat
  OBVIOUS
<1> QED
  BY <1>2, <1>3, FunctionIsSeq

\* One step of a ring: `pop' moves the read pointer, `push' writes s behind the
\* youngest store, every other slot keeps its store.
RingNext(depth, q, rd, cnt, q2, rd2, cnt2, pop, push, s) ==
  /\ depth \in Nat \ {0}
  /\ rd \in 0 .. depth - 1
  /\ cnt \in 0 .. depth
  /\ q \in [0 .. depth - 1 -> Entry]
  /\ q2 \in [0 .. depth - 1 -> Entry]
  /\ pop \in BOOLEAN /\ (pop => cnt > 0)
  /\ push \in BOOLEAN /\ (push => cnt < depth)
  /\ s \in Store
  /\ \A i \in 0 .. depth - 1 :
       q2[i].st = IF push /\ i = Wrap(rd + cnt, depth) THEN s ELSE q[i].st
  /\ rd2 = IF pop THEN Wrap(rd + 1, depth) ELSE rd
  /\ cnt2 = cnt + (IF push THEN 1 ELSE 0) - (IF pop THEN 1 ELSE 0)

\* the same step on a queue
QueueNext(c, pop, push, s) ==
  (IF pop THEN Tail(c) ELSE c) \o (IF push THEN << s >> ELSE << >>)

\* What a cycle does to the contents of a ring: the oldest store leaves, a new
\* one is appended, or both, and the stores in between do not move.
LEMMA RingStep ==
  ASSUME NEW depth, NEW q, NEW rd, NEW cnt, NEW q2, NEW rd2, NEW cnt2,
         NEW pop, NEW push, NEW s,
         RingNext(depth, q, rd, cnt, q2, rd2, cnt2, pop, push, s)
  PROVE  Contents(q2, rd2, cnt2, depth)
           = QueueNext(Contents(q, rd, cnt, depth), pop, push, s)
<1> USE DEF RingNext
<1> DEFINE c    == Contents(q, rd, cnt, depth)
           c2   == Contents(q2, rd2, cnt2, depth)
           old  == IF pop THEN Tail(c) ELSE c
           new  == IF push THEN << s >> ELSE << >>
<1>1. c \in Seq(Store) /\ Len(c) = cnt /\ \A k \in 1 .. cnt : c[k] = q[Wrap(rd + k - 1, depth)].st
  BY ContentsType
<1>2. rd2 \in 0 .. depth - 1 /\ cnt2 \in 0 .. depth
  BY DEF Wrap
<1>3. c2 \in Seq(Store) /\ Len(c2) = cnt2
        /\ \A k \in 1 .. cnt2 : c2[k] = q2[Wrap(rd2 + k - 1, depth)].st
  <2>1. depth \in Nat \ {0} /\ q2 \in [0 .. depth - 1 -> Entry]
    OBVIOUS
  <2> QED
    BY ONLY <1>2, ContentsType, <2>1
<1>4. pop => c # << >>
  BY <1>1
<1>5. /\ old \in Seq(Store)
      /\ Len(old) = cnt - (IF pop THEN 1 ELSE 0)
      /\ \A k \in 1 .. Len(old) : old[k] = q[Wrap(rd2 + k - 1, depth)].st
  <2>1. CASE pop
    <3>1. /\ Tail(c) \in Seq(Store) /\ Len(Tail(c)) = cnt - 1
          /\ \A k \in 1 .. cnt - 1 : Tail(c)[k] = c[k + 1]
      BY <2>1, <1>1, <1>4, HeadTailProperties
    <3>2. \A k \in 1 .. cnt - 1 : Wrap(rd + (k + 1) - 1, depth) = Wrap(rd2 + k - 1, depth)
      BY <2>1 DEF Wrap
    <3>3. \A k \in 1 .. cnt - 1 : k + 1 \in 1 .. cnt
      OBVIOUS
    <3> QED
      BY <2>1, <3>1, <3>2, <3>3, <1>1
  <2>2. CASE ~pop
    BY <2>2, <1>1
  <2> QED
    BY <2>1, <2>2
<1>6. /\ new \in Seq(Store) /\ Len(new) = (IF push THEN 1 ELSE 0)
      /\ push => new[1] = s
  OBVIOUS
<1>7. /\ old \o new \in Seq(Store) /\ Len(old \o new) = cnt2
      /\ \A k \in 1 .. cnt2 :
           (old \o new)[k] = IF k <= Len(old) THEN old[k] ELSE new[k - Len(old)]
  <2> HIDE DEF old, new
  <2>1. /\ old \o new \in Seq(Store) /\ Len(old \o new) = Len(old) + Len(new)
        /\ \A k \in 1 .. Len(old) + Len(new) :
             (old \o new)[k] = IF k <= Len(old) THEN old[k] ELSE new[k - Len(old)]
    BY <1>5, <1>6, ConcatProperties
  <2>2. Len(old) + Len(new) = cnt2
    BY <1>5, <1>6
  <2> QED
    BY <2>1, <2>2
<1>8. ASSUME NEW k \in 1 .. cnt2 PROVE c2[k] = (old \o new)[k]
  <2>1. /\ c2[k] = q2[Wrap(rd2 + k - 1, depth)].st
        /\ k \in Int
        /\ Wrap(rd2 + k - 1, depth) \in 0 .. depth - 1
    <3> HIDE DEF c2
    <3> QED
      BY <1>2, <1>3 DEF Wrap
  <2>2. CASE k <= Len(old)
    <3>1. Wrap(rd2 + k - 1, depth) # Wrap(rd + cnt, depth) \/ ~push
      BY <2>2, <1>5 DEF Wrap
    <3>2. q2[Wrap(rd2 + k - 1, depth)].st = q[Wrap(rd2 + k - 1, depth)].st
      BY <2>1, <3>1
    <3>3. Len(old) \in Nat /\ k \in 1 .. Len(old)
      BY <2>2, <1>5
    <3> HIDE DEF old, new, c2
    <3>4. (old \o new)[k] = old[k]
      BY <2>2, <1>7
    <3>5. old[k] = q[Wrap(rd2 + k - 1, depth)].st
      BY <3>3, <1>5
    <3> QED
      BY <2>1, <3>2, <3>4, <3>5
  <2>3. CASE k > Len(old)
    <3>1. push /\ k = Len(old) + 1
      BY <2>3, <1>5
    <3>2. Wrap(rd2 + k - 1, depth) = Wrap(rd + cnt, depth)
      <4>1. k = cnt - (IF pop THEN 1 ELSE 0) + 1
        BY <3>1, <1>5
      <4> QED
        BY ONLY <4>1, depth \in Nat \ {0}, rd \in 0 .. depth - 1, cnt \in 0 .. depth,
                push => cnt < depth, pop \in BOOLEAN, pop => cnt > 0, <3>1,
                rd2 = IF pop THEN Wrap(rd + 1, depth) ELSE rd DEF Wrap
    <3>3. c2[k] = s
      BY <2>1, <3>1, <3>2
    <3>4. (old \o new)[k] = new[1]
      BY <3>1, <1>5, <1>7
    <3> QED
      BY <3>1, <3>3, <3>4, <1>6
  <2>4. Len(old) \in Nat
    BY <1>5
  <2> HIDE DEF old, new, c2
  <2> QED
    <3>1. k <= Len(old) \/ k > Len(old)
      BY <2>1, <2>4
    <3> QED
      BY <3>1, <2>2, <2>3, Zenon
<1>9. c2 = old \o new
  <2> HIDE DEF old, new, c2
  <2> QED
    BY <1>3, <1>7, <1>8, SeqEqual
<1> QED
  BY <1>9 DEF QueueNext

\* A ring with count 0 holds no store.
LEMMA EmptyRing ==
  ASSUME NEW depth, NEW rd, NEW q
  PROVE  Contents(q, rd, 0, depth) = << >>
BY DEF Contents

\* core_if, seen as a step of the abstract queue.
LEMMA CoreIfRefines ==
  ASSUME SBInv, NEW valid \in BOOLEAN, NEW st \in Store,
         NEW commit \in BOOLEAN, NEW flush \in BOOLEAN,
         InputContract(valid, commit, flush),
         CoreIf(valid, st, commit, flush)
  PROVE  speculativeStores' =
           IF flush THEN << >>
           ELSE (IF commit THEN Tail(speculativeStores) ELSE speculativeStores)
                  \o (IF valid THEN << st >> ELSE << >>)
<1>1. CASE flush
  BY <1>1, EmptyRing DEF CoreIf, speculativeStores
<1>2. CASE ~flush
  <2>1. /\ speculative_queue' \in [0 .. DEPTH_SPEC - 1 -> Entry]
        /\ speculative_queue \in [0 .. DEPTH_SPEC - 1 -> Entry]
        /\ speculative_read_pointer \in 0 .. DEPTH_SPEC - 1
        /\ speculative_status_cnt \in 0 .. DEPTH_SPEC
        /\ speculative_write_pointer =
             Wrap(speculative_read_pointer + speculative_status_cnt, DEPTH_SPEC)
    BY CoreIfInv DEF SBInv, SBTypeOK, RingsConsistent, RingOK, SpecSlots
  <2>2. commit => speculative_status_cnt > 0
    BY <2>1 DEF InputContract
  <2>3. valid => speculative_status_cnt < DEPTH_SPEC
    BY <2>1 DEF InputContract
  <2>4. \A i \in 0 .. DEPTH_SPEC - 1 :
          speculative_queue'[i].st =
            IF valid /\ i = Wrap(speculative_read_pointer + speculative_status_cnt, DEPTH_SPEC)
            THEN st ELSE speculative_queue[i].st
    BY <2>1 DEF CoreIf, SpecQueueNext, SpecSlots
  <2>5. /\ speculative_read_pointer' =
             IF commit THEN Wrap(speculative_read_pointer + 1, DEPTH_SPEC)
                       ELSE speculative_read_pointer
        /\ speculative_status_cnt' =
             speculative_status_cnt + (IF valid THEN 1 ELSE 0) - (IF commit THEN 1 ELSE 0)
    BY <1>2 DEF CoreIf, CountAfter
  <2>6. RingNext(DEPTH_SPEC, speculative_queue, speculative_read_pointer, speculative_status_cnt,
                 speculative_queue', speculative_read_pointer', speculative_status_cnt',
                 commit, valid, st)
    BY <2>1, <2>2, <2>3, <2>4, <2>5 DEF RingNext
  <2>7. speculativeStores' = QueueNext(speculativeStores, commit, valid, st)
    <3>1. Contents(speculative_queue', speculative_read_pointer', speculative_status_cnt', DEPTH_SPEC)
            = QueueNext(Contents(speculative_queue, speculative_read_pointer,
                                 speculative_status_cnt, DEPTH_SPEC), commit, valid, st)
      BY ONLY <2>6, RingStep
    <3> QED
      BY <3>1 DEF speculativeStores
  <2> QED
    BY <1>2, <2>7 DEF QueueNext
<1> QED
  BY <1>1, <1>2

\* store_if, seen as a step of the abstract queue.
LEMMA StoreIfRefines ==
  ASSUME SBInv, NEW valid \in BOOLEAN, NEW commit \in BOOLEAN, NEW flush \in BOOLEAN,
         NEW stall \in BOOLEAN, NEW gnt \in BOOLEAN, NEW rvalid \in BOOLEAN,
         InputContract(valid, commit, flush),
         StoreIf(commit, stall, gnt, rvalid)
  PROVE  committedStores' =
           (IF Leaves(stall, gnt, rvalid) THEN Tail(committedStores) ELSE committedStores)
             \o (IF commit THEN << Head(speculativeStores) >> ELSE << >>)
<1> DEFINE leaves == Leaves(stall, gnt, rvalid)
           head   == speculative_queue[speculative_read_pointer].st
<1>1. /\ commit_queue' \in [0 .. DEPTH_COMMIT - 1 -> Entry]
      /\ commit_queue \in [0 .. DEPTH_COMMIT - 1 -> Entry]
      /\ commit_read_pointer \in 0 .. DEPTH_COMMIT - 1
      /\ commit_status_cnt \in 0 .. DEPTH_COMMIT
      /\ commit_write_pointer =
           Wrap(commit_read_pointer + commit_status_cnt, DEPTH_COMMIT)
  BY StoreIfInv DEF SBInv, SBTypeOK, RingsConsistent, RingOK, CommitSlots
<1>2. /\ leaves \in BOOLEAN
      /\ leaves => commit_status_cnt > 0
      /\ commit => commit_status_cnt < DEPTH_COMMIT
      /\ commit => speculative_status_cnt > 0
  BY <1>1, LeavesNonEmpty
     DEF InputContract, SBInv, SBTypeOK, Leaves, Granted, data_req, CommitSlots, SpecSlots, Entry, Store
<1>3. head \in Store
  BY DEF SBInv, SBTypeOK, SpecSlots, Entry
<1>4. commit => Head(speculativeStores) = head
  <2>1. /\ speculativeStores \in Seq(Store)
        /\ Len(speculativeStores) = speculative_status_cnt
        /\ \A k \in 1 .. speculative_status_cnt :
             speculativeStores[k] = speculative_queue[Wrap(speculative_read_pointer + k - 1, DEPTH_SPEC)].st
    BY ContentsType DEF SBInv, SBTypeOK, SpecSlots, speculativeStores
  <2>2. Wrap(speculative_read_pointer + 1 - 1, DEPTH_SPEC) = speculative_read_pointer
    BY DEF SBInv, SBTypeOK, SpecSlots, Wrap
  <2>3. commit => 1 \in 1 .. speculative_status_cnt
    BY <1>2 DEF SBInv, SBTypeOK
  <2>4. commit => speculativeStores[1] = head
    BY <2>1, <2>2, <2>3
  <2> QED
    BY <2>1, <2>4
<1>5. \A i \in 0 .. DEPTH_COMMIT - 1 :
        commit_queue'[i].st =
          IF commit /\ i = Wrap(commit_read_pointer + commit_status_cnt, DEPTH_COMMIT)
          THEN head ELSE commit_queue[i].st
  BY <1>1 DEF StoreIf, CommitQueueNext, MovedEntry, CommitSlots
<1>6. /\ commit_read_pointer' =
           IF leaves THEN Wrap(commit_read_pointer + 1, DEPTH_COMMIT) ELSE commit_read_pointer
      /\ commit_status_cnt' =
           commit_status_cnt + (IF commit THEN 1 ELSE 0) - (IF leaves THEN 1 ELSE 0)
  BY DEF StoreIf
<1> HIDE DEF leaves, head
<1>7. RingNext(DEPTH_COMMIT, commit_queue, commit_read_pointer, commit_status_cnt,
               commit_queue', commit_read_pointer', commit_status_cnt',
               leaves, commit, head)
  BY <1>1, <1>2, <1>3, <1>5, <1>6 DEF RingNext
<1>8. committedStores' = QueueNext(committedStores, leaves, commit, head)
  <2>1. Contents(commit_queue', commit_read_pointer', commit_status_cnt', DEPTH_COMMIT)
          = QueueNext(Contents(commit_queue, commit_read_pointer,
                               commit_status_cnt, DEPTH_COMMIT), leaves, commit, head)
    BY ONLY <1>7, RingStep
  <2> QED
    BY <2>1 DEF committedStores
<1> QED
  BY <1>4, <1>8 DEF QueueNext, leaves

\* The rings implement the queue of StoreQueue.tla: for every depth, no store is
\* lost, duplicated or reordered, and a flush takes speculative stores only.
THEOREM RingsImplementStoreQueue == SBSpec => ImplementsStoreQueue
<1>1. SBInit => Abstract!Init
  BY EmptyRing DEF SBInit, Abstract!Init, speculativeStores, committedStores
<1>2. ASSUME SBInv, [SBNext]_sbVars PROVE [Abstract!Next]_(Abstract!vars)
  <2>1. CASE SBNext
    <3> PICK valid, commit, flush, stall, gnt, rvalid \in BOOLEAN, st \in Store :
          /\ InputContract(valid, commit, flush)
          /\ Cycle(valid, st, commit, flush, stall, gnt, rvalid)
      BY <2>1 DEF SBNext
    <3> DEFINE push  == IF valid THEN << st >> ELSE << >>
               drain == Leaves(stall, gnt, rvalid)
    <3>1. CoreIf(valid, st, commit, flush) /\ StoreIf(commit, stall, gnt, rvalid)
      BY DEF Cycle
    <3>2. /\ speculativeStores \in Seq(Store) /\ Len(speculativeStores) = speculative_status_cnt
          /\ committedStores \in Seq(Store) /\ Len(committedStores) = commit_status_cnt
      BY <1>2, ContentsType
         DEF SBInv, SBTypeOK, SpecSlots, CommitSlots, speculativeStores, committedStores
    <3>3. commit => /\ speculativeStores # << >>
                    /\ Len(committedStores) < DEPTH_COMMIT
                    /\ ~flush
      BY <1>2, <3>2 DEF InputContract, SBInv, SBTypeOK
    <3>4. drain => committedStores # << >>
      BY <1>2, <3>2, LeavesNonEmpty
    <3>5. push # << >> => Len(speculativeStores) < DEPTH_SPEC
      BY <1>2, <3>2 DEF InputContract, SBInv, SBTypeOK
    <3>6. speculativeStores' =
            IF flush THEN << >>
            ELSE (IF commit THEN Tail(speculativeStores) ELSE speculativeStores) \o push
      BY <1>2, <3>1, CoreIfRefines
    <3>7. committedStores' =
            (IF drain THEN Tail(committedStores) ELSE committedStores)
              \o (IF commit THEN << Head(speculativeStores) >> ELSE << >>)
      BY <1>2, <3>1, StoreIfRefines
    <3>8. Abstract!Cycle(push, commit, flush, drain)
      BY <3>3, <3>4, <3>5, <3>6, <3>7 DEF Abstract!Cycle
    <3>9. push \in {<< >>} \union {<< s >> : s \in Store} /\ drain \in BOOLEAN
      BY <1>2 DEF Leaves, Granted, data_req, SBInv, SBTypeOK, Entry, Store, CommitSlots
    <3> HIDE DEF push, drain
    <3> QED
      BY <3>8, <3>9 DEF Abstract!Next
  <2>2. CASE UNCHANGED sbVars
    BY <2>2 DEF sbVars, specVars, commitVars, Abstract!vars, speculativeStores, committedStores
  <2> QED
    BY <1>2, <2>1, <2>2
<1> QED
  BY <1>1, <1>2, SBInitInv, SBNextInv, PTL DEF SBSpec, ImplementsStoreQueue, Abstract!Spec

HIDE DepthAssumption

-----------------------------------------------------------------------------
USE WordAssumption, LdBufAssumption

(***************************************************************************)
(* What the theorems assume of the constants.  A store that faults in its  *)
(* second cycle and a store that retires under a debugger break the rules  *)
(* of the unit: the runs faulting_store_pops_twice and single_step_store   *)
(* show how.                                                               *)
(***************************************************************************)
NoStoreFaults == \A p \in Programs : p.faulting \intersect StoreOps = {}
Undisturbed   == NoStoreFaults /\ ~SingleStep

-----------------------------------------------------------------------------
(***************************************************************************)
(* The inductive invariant.                                                *)
(***************************************************************************)
Occupied(i) == scoreboard[i].at # "free"
Awaited(i)  == scoreboard[i].at = "pending" /\ IsLsu(scoreboard[i])
IsStore(i)  == scoreboard[i].kind \in {"store", "cbo"}
IsLoad(i)   == scoreboard[i].kind \in LoadOps

Aborting == {"ABORT_TRANSACTION", "ABORT_TRANSACTION_NI"}
LdWaits  == {"WAIT_GNT", "WAIT_PAGE_OFFSET", "WAIT_TRANSLATION", "WAIT_WB_EMPTY"} \union Aborting
StWaits  == {"WAIT_TRANSLATION", "WAIT_STORE_READY"}

LsuTypes ==
  /\ program \in Programs
  /\ scoreboard \in [Slots -> Instr]
  /\ issue_pointer \in Slots /\ commit_pointer \in Slots /\ issue_cnt \in 0 .. NR_SB_ENTRIES
  /\ fu_data \in LsuCtrl(Slots) /\ byp_mem \in [0 .. 1 -> LsuCtrl(Slots)]
  /\ byp_rd \in 0 .. 1 /\ byp_wr \in 0 .. 1 /\ byp_cnt \in 0 .. 2
  /\ st_state \in StStates /\ st_q \in LsuCtrl(Slots) /\ amo_buffer \in Slots \union {NoAmo}
  /\ ld_state \in LdStates
  /\ ldbuf \in [LdBufSlots -> [valid : BOOLEAN, flushed : BOOLEAN, tid : Slots]]
  /\ ldbuf_last_id \in LdBufSlots
  /\ dc_state \in {"IDLE", "READ", "MISS", "KILL_MISS"}
  /\ load_out \in [valid : BOOLEAN, tid : Slots, ex : BOOLEAN]
  /\ ex_q \in BOOLEAN

\* The window of the scoreboard; only loads fault.
WindowOK ==
  /\ issue_pointer = (commit_pointer + issue_cnt) % NR_SB_ENTRIES
  /\ \A i \in Slots : Occupied(i) <=> Age(i) < issue_cnt
  /\ \A i \in Slots : scoreboard[i].bad => IsLoad(i)

\* The requests that no unit has taken yet, oldest first: those of the FIFO and
\* the one that arrives in this cycle.  The units look at the first.
Queued(k)      == k < byp_cnt \/ (k = byp_cnt /\ fu_data.valid)
NextRequest(k) == IF k < byp_cnt THEN byp_mem[(byp_rd + k) % 2] ELSE fu_data

\* r is the request of an instruction that waits for its result
Own(r) == Awaited(r.tid) /\ r = Request(r.tid, scoreboard[r.tid])

QueueOK ==
  /\ byp_wr = (byp_rd + byp_cnt) % 2
  /\ fu_data.valid => byp_cnt < 2
  /\ ~fu_data.valid => fu_data = Zero
  /\ \A k \in 0 .. 1 : Queued(k) => Own(NextRequest(k))
  /\ Queued(1) => Age(NextRequest(0).tid) < Age(NextRequest(1).tid)

\* A unit that waits has left its request at the head of the FIFO.
WaitsOK ==
  /\ ld_state \in LdWaits => byp_cnt > 0 /\ NextRequest(0).fu = "LOAD"
  /\ st_state \in StWaits => byp_cnt > 0 /\ NextRequest(0).fu = "STORE"

\* The instructions whose requests a unit has taken.
InStore(i)  == st_state = "VALID_STORE" /\ st_q.tid = i
InLoads(i)  == \E j \in LdBufSlots : Live(j) /\ ldbuf[j].tid = i
InReport(i) == load_out.valid /\ load_out.tid = i /\ Occupied(i)
InQueue(i)  == \E k \in 0 .. 1 : Queued(k) /\ NextRequest(k).tid = i

\* They wait, each in one place, and are older than all that are queued.
UnitsOK ==
  /\ st_state = "VALID_STORE" => Own(st_q) /\ st_q.fu = "STORE"
  /\ \A i \in Slots : InLoads(i) \/ InReport(i) => Awaited(i) /\ IsLoad(i)
  /\ \A i \in Slots : ~(InLoads(i) /\ InReport(i))
  /\ \A i \in Slots : InStore(i) \/ InLoads(i) \/ InReport(i) =>
       \A k \in 0 .. 1 : Queued(k) => Age(i) < Age(NextRequest(k).tid)

\* Nothing is lost.
Complete ==
  \A i \in Slots : Awaited(i) => InStore(i) \/ InLoads(i) \/ InReport(i) \/ InQueue(i)

\* The cache serves one load at a time, the one in the load buffer.
LdPortOK ==
  /\ dc_id = ldbuf_last_id
  /\ \A j \in LdBufSlots : ldbuf[j].valid <=> dc_state \in {"READ", "MISS"} /\ j = dc_id
  /\ dc_state = "READ" => ld_state \in {"SEND_TAG", "WAIT_FLUSH"} \union Aborting
  /\ ld_state \in {"SEND_TAG"} \union Aborting => dc_state = "READ"

\* The store in its second cycle has a place in the store buffer or in the AMO
\* buffer, and no exception.
StoreOK ==
  /\ ex_q => st_state = "IDLE"
  /\ st_state = "VALID_STORE" /\ ~IsAmo(st_q) => speculative_status_cnt < DEPTH_SPEC
  /\ st_state = "VALID_STORE" /\ IsAmo(st_q) => amo_buffer = NoAmo

\* The AMO buffer holds the AMO that is done, and stores finish in order.
DoneOK ==
  /\ \A i \in Slots : (scoreboard[i].kind = "amo" /\ scoreboard[i].at = "done") <=> amo_buffer = i
  /\ \A i \in DoneStores, k \in Slots : scoreboard[k].at = "pending" /\ IsStore(k) => Age(i) < Age(k)

\* No store that is older than instruction i and has its page offset is on its
\* way to the cache.
Clear(i) ==
  /\ \A k \in Slots : ~( /\ Age(k) < Age(i)
                         /\ scoreboard[k].at \in {"pending", "done"}
                         /\ IsStore(k)
                         /\ scoreboard[k].word = scoreboard[i].word )
  /\ \A k \in 1 .. commit_status_cnt : committedStores[k].word # scoreboard[i].word

\* The address check of a load holds until the cache grants the load, and on.
ClearOK ==
  /\ \A i \in Slots : InLoads(i) => Clear(i)
  /\ ld_state \in LdWaits \ {"WAIT_PAGE_OFFSET"} => Clear(NextRequest(0).tid)

LsuInv ==
  /\ SBInv /\ LsuTypes /\ WindowOK /\ QueueOK /\ WaitsOK /\ UnitsOK /\ Complete
  /\ LdPortOK /\ StoreOK /\ DoneOK /\ SpeculativeStoresAreDone /\ ClearOK
  /\ NonIdempotentLoadsWait
-----------------------------------------------------------------------------
(***************************************************************************)
(* A cycle, part by part.  The signals of the cycle that its parts share:  *)
(* the cache answers (rvalid), the load is held back (stall), the store    *)
(* unit puts a store (st_put) and has room for the next one.               *)
(***************************************************************************)
rvalid_now(done)  == data_rvalid(kill_req(ex_q), tag_valid, done)
matches_now       == page_offset_matches(lsu_ctrl_now.word, putting)
stall_now(not_ni) == stall_ni(lsu_ctrl_now.op = "load_ni", commit_pointer # lsu_ctrl_now.tid,
                              ~not_ni \/ ~store_buffer_empty)
st_put_now(flush) == store_buffer_valid(ex_q, flush)
room_now(flush)   == ready(st_put_now(flush), commit_lsu, flush) /\ amo_ready
stored            == [word |-> st_q.word, cbo |-> st_q.op = "cbo"]
accepts(hit, flush) == Accepts(st_valid_i, lsu_ctrl_now, hit, room_now(flush))

ControlPart(ack, flush) ==
  (ack => amo_req(no_st_pending, amo_valid_commit)) /\ flush = flush_ex(ack)

BufferPart(flush) ==
  \E st_gnt, st_rvalid \in BOOLEAN :
    Cycle(st_put_now(flush), stored, commit_lsu, flush, FALSE, st_gnt, st_rvalid)

FifoPart(hit, done, granted, not_ni, flush) ==
  BypassStep(fu_data, pop_ld(granted, hit, stall_now(not_ni), ex_q, rvalid_now(done)),
             pop_st(st_valid_i, lsu_ctrl_now, hit, room_now(flush), ex_q), flush)

StorePart(hit, done, ack, flush) ==
  /\ st_state' = StStateNext(st_valid_i, lsu_ctrl_now, hit, room_now(flush), ex_q, flush)
  /\ st_q' = IF st_state' = "IDLE" THEN Zero ELSE lsu_ctrl_now
  /\ amo_buffer' = AmoBufferNext(ex_q, flush, amo_valid_commit, ack)
  /\ \E walk_error \in BOOLEAN :
       ex_q' = (/\ IF lsu_ctrl_now.fu = "LOAD" THEN ld_translation_req(ld_valid_i, rvalid_now(done))
                   ELSE lsu_ctrl_now.fu = "STORE" /\ st_translation_req(st_valid_i, lsu_ctrl_now)
                /\ lsu_ctrl_now.bad /\ (hit \/ walk_error))

LoadPart(hit, done, granted, not_ni, flush) ==
  LET kill   == kill_req(ex_q)
      rvalid == rvalid_now(done)
      windex == ldbuf_windex(rvalid)
  IN  /\ granted => ld_data_req(ld_valid_i, rvalid, matches_now) /\ MayGrant(kill, rvalid)
      /\ ld_state' = LdStateNext(ld_valid_i, rvalid, matches_now, granted, hit,
                                 stall_now(not_ni), ex_q, not_ni, flush)
      /\ ldbuf' = LdBufNext(granted, lsu_ctrl_now.tid, rvalid, dc_id, flush)
      /\ ldbuf_last_id' = IF granted THEN windex ELSE ldbuf_last_id
      /\ CachePort(kill, tag_valid, done, granted, windex)
      /\ load_out' = IF LdFaults(ld_valid_i, rvalid, ex_q)
                     THEN [valid |-> TRUE, tid |-> lsu_ctrl_now.tid, ex |-> TRUE]
                     ELSE IF LdRetires(rvalid, dc_id, ex_q)
                     THEN [valid |-> TRUE, tid |-> ldbuf[dc_id].tid,
                           ex |-> ex_q /\ ld_state = "SEND_TAG"]
                     ELSE NoLoad

BoardPart(ack, flush) ==
  \E issued \in {{}} \union {{n} : n \in IF flush THEN {} ELSE Issuable},
     finish \in OtherUnits \union {NoSlot} :
    Scoreboard([valid |-> st_valid_o(ex_q), tid |-> st_q.tid, ex |-> ex_q],
               finish, issued, commit_ack(ack), flush)

ReadPart(granted, ack) ==
  \E leaves \in BOOLEAN : Reads(granted, lsu_ctrl_now.tid, commit_ack(ack), leaves)

Parts(hit, done, granted, not_ni, ack, flush) ==
  /\ ControlPart(ack, flush)
  /\ program' = program
  /\ BufferPart(flush)
  /\ FifoPart(hit, done, granted, not_ni, flush)
  /\ StorePart(hit, done, ack, flush)
  /\ LoadPart(hit, done, granted, not_ni, flush)
  /\ BoardPart(ack, flush)
  /\ ReadPart(granted, ack)

\* The parts of a cycle, with the inputs they share.
LEMMA CycleParts ==
  ASSUME LsuInv, LsuNext
  PROVE  \E hit, done, granted, not_ni, ack, flush \in BOOLEAN :
           Parts(hit, done, granted, not_ni, ack, flush)
<1>1. PICK hit \in {TRUE, ~(program.mmu /\ Asking)},
           walk_error \in Choice(program.mmu /\ lsu_ctrl_now.bad),
           done \in Choice(dc_state # "IDLE"),
           gnt \in Choice(lsu_ctrl_now.fu = "LOAD" \/ ld_state # "IDLE"),
           st_gnt \in Choice(data_req(FALSE)), st_rvalid \in Choice(OldestIsCbo),
           amo_done \in Choice(amo_valid_commit),
           not_ni \in Choice("load_ni" \in program.kinds) :
         LsuCycle(hit, walk_error, done, gnt, st_gnt, st_rvalid, amo_done, not_ni,
                  OtherUnits \union {NoSlot})
  BY DEF LsuNext
<1>2. /\ hit \in BOOLEAN /\ walk_error \in BOOLEAN /\ done \in BOOLEAN /\ gnt \in BOOLEAN
      /\ st_gnt \in BOOLEAN /\ st_rvalid \in BOOLEAN /\ amo_done \in BOOLEAN
      /\ not_ni \in BOOLEAN
  BY Zenon DEF Choice
<1> DEFINE ack     == amo_done /\ amo_req(no_st_pending, amo_valid_commit)
           flush   == flush_ex(ack)
           granted == /\ ld_data_req(ld_valid_i, rvalid_now(done), matches_now)
                      /\ gnt /\ MayGrant(kill_req(ex_q), rvalid_now(done))
<1>3. ack \in BOOLEAN /\ flush \in BOOLEAN /\ granted \in BOOLEAN
  BY Zenon DEF flush_ex
<1>4. program' = program /\ BufferPart(flush)
  BY <1>1, <1>2, Zenon DEF LsuCycle, BufferPart, st_put_now, stored
<1>5. FifoPart(hit, done, granted, not_ni, flush)
  BY <1>1, Zenon DEF LsuCycle, FifoPart, st_put_now, room_now, rvalid_now, stall_now, matches_now
<1>6. StorePart(hit, done, ack, flush)
  BY <1>1, <1>2, Zenon DEF LsuCycle, StorePart, st_put_now, room_now, rvalid_now
<1>7. LoadPart(hit, done, granted, not_ni, flush)
  BY <1>1, Zenon DEF LsuCycle, LoadPart, rvalid_now, stall_now, matches_now
<1>8. BoardPart(ack, flush)
  BY <1>1, Zenon DEF LsuCycle, BoardPart
<1>9. ControlPart(ack, flush)
  BY Zenon DEF ControlPart
<1>10. ReadPart(granted, ack)
  <2>1. Leaves(FALSE, st_gnt, st_rvalid) \in BOOLEAN
    BY DEF Leaves
  <2>2. Reads(granted, lsu_ctrl_now.tid, commit_ack(ack), Leaves(FALSE, st_gnt, st_rvalid))
    BY <1>1, Zenon DEF LsuCycle, rvalid_now, matches_now
  <2> QED
    BY <2>1, <2>2 DEF ReadPart
<1> HIDE DEF ack, flush, granted
<1>11. Parts(hit, done, granted, not_ni, ack, flush)
  BY <1>4, <1>5, <1>6, <1>7, <1>8, <1>9, <1>10 DEF Parts
<1> QED
  BY <1>2, <1>3, <1>11

-----------------------------------------------------------------------------
(***************************************************************************)
(* The window of the scoreboard.                                           *)
(***************************************************************************)
\* The position of a slot in the window, without the modulus.
LEMMA AgeIs ==
  ASSUME NEW c \in Slots, NEW i \in Slots
  PROVE  /\ (i - c) % NR_SB_ENTRIES = IF i >= c THEN i - c ELSE i - c + NR_SB_ENTRIES
         /\ (i - c) % NR_SB_ENTRIES \in 0 .. NR_SB_ENTRIES - 1
BY LsuAssumption DEF Slots

\* The slot n places behind another one.
LEMMA SlotBehind ==
  ASSUME NEW c \in Slots, NEW n \in 0 .. NR_SB_ENTRIES
  PROVE  /\ (c + n) % NR_SB_ENTRIES =
              IF c + n >= NR_SB_ENTRIES THEN c + n - NR_SB_ENTRIES ELSE c + n
         /\ (c + n) % NR_SB_ENTRIES \in Slots
BY LsuAssumption DEF Slots

\* Ages are numbers; the slot at the commit pointer is the oldest.
LEMMA AgeType ==
  ASSUME LsuTypes, NEW i \in Slots
  PROVE  /\ Age(i) = IF i >= commit_pointer THEN i - commit_pointer
                     ELSE i - commit_pointer + NR_SB_ENTRIES
         /\ Age(i) \in 0 .. NR_SB_ENTRIES - 1
         /\ Age(i) = 0 <=> i = commit_pointer
<1>1. commit_pointer \in Slots
  BY DEF LsuTypes
<1>2. /\ Age(i) = IF i >= commit_pointer THEN i - commit_pointer
                  ELSE i - commit_pointer + NR_SB_ENTRIES
      /\ Age(i) \in 0 .. NR_SB_ENTRIES - 1
  BY <1>1, AgeIs DEF Age
<1> QED
  BY <1>1, <1>2, LsuAssumption DEF Slots

\* Two slots of the same age are the same slot.
LEMMA AgeUnique ==
  ASSUME LsuTypes, NEW i \in Slots, NEW k \in Slots, Age(i) = Age(k)
  PROVE  i = k
<1>1. commit_pointer \in Slots
  BY DEF LsuTypes
<1> QED
  BY <1>1, AgeType, LsuAssumption DEF Slots

\* A write-back changes the progress of one occupied slot.
LEMMA WriteBackIs ==
  ASSUME NEW slots \in [Slots -> Instr], NEW out, out.tid \in Slots, NEW i \in Slots
  PROVE  /\ WriteBack(slots, out) \in [Slots -> Instr]
         /\ WriteBack(slots, out)[i].kind = slots[i].kind
         /\ WriteBack(slots, out)[i].word = slots[i].word
         /\ WriteBack(slots, out)[i].bad = slots[i].bad
         /\ WriteBack(slots, out)[i].at =
              IF out.valid /\ out.tid = i /\ slots[i].at # "free"
              THEN IF out.ex THEN "ex" ELSE "done" ELSE slots[i].at
BY DEF WriteBack, Instr

\* Another unit finishes at most one of its own instructions.
LEMMA FinishIs ==
  ASSUME NEW slots \in [Slots -> Instr], NEW f, NEW i \in Slots
  PROVE  /\ Finish(slots, f) \in [Slots -> Instr]
         /\ Finish(slots, f)[i].kind = slots[i].kind
         /\ Finish(slots, f)[i].word = slots[i].word
         /\ Finish(slots, f)[i].bad = slots[i].bad
         /\ \/ Finish(slots, f)[i].at = slots[i].at
            \/ /\ slots[i].kind = "nop" /\ slots[i].at = "pending"
               /\ Finish(slots, f)[i].at = "done"
BY DEF Finish, Instr

\* The content of a slot that holds nothing.
LEMMA FreeType == Free \in Instr /\ Free.at = "free" /\ Free.kind = "nop" /\ ~Free.bad
BY DEF Free, Instr, Zero, Kinds

(***************************************************************************)
(* What a cycle without a flush does to slot i, unless a new instruction   *)
(* enters it.                                                              *)
(***************************************************************************)
SlotStays(i) ==
  /\ scoreboard'[i].kind = scoreboard[i].kind
  /\ scoreboard'[i].word = scoreboard[i].word
  /\ scoreboard'[i].bad = scoreboard[i].bad
  /\ InStore(i) => scoreboard'[i].at = "done"
  /\ InReport(i) => /\ scoreboard'[i].at \in {"done", "ex"}
                    /\ load_out.ex => scoreboard'[i].at = "ex"
  /\ ~InStore(i) /\ ~InReport(i) =>
       \/ scoreboard'[i].at = scoreboard[i].at
       \/ /\ scoreboard[i].kind = "nop" /\ scoreboard[i].at = "pending"
          /\ scoreboard'[i].at = "done"

\* An instruction that has just been issued.
Fresh(n) ==
  /\ n \in Instr /\ n.at # "free"
  /\ n.bad => n.kind \in LoadOps
  /\ IsLsu(n) => n.at = "pending"

(***************************************************************************)
(* What such a cycle does to the window.                                   *)
(***************************************************************************)
BoardMove(retires, issues) ==
  /\ retires => commit_instr.at = "done"
  /\ commit_pointer' = IF retires THEN (commit_pointer + 1) % NR_SB_ENTRIES ELSE commit_pointer
  /\ issue_pointer' = IF issues THEN (issue_pointer + 1) % NR_SB_ENTRIES ELSE issue_pointer
  /\ issue_cnt' = issue_cnt + (IF issues THEN 1 ELSE 0) - (IF retires THEN 1 ELSE 0)
  /\ scoreboard' \in [Slots -> Instr]
  /\ issues => /\ issue_cnt < NR_SB_ENTRIES
               /\ Fresh(scoreboard'[issue_pointer])
               /\ IsLsu(scoreboard'[issue_pointer]) => lsu_ready
  /\ fu_data' = IF issues /\ IsLsu(scoreboard'[issue_pointer])
                THEN Request(issue_pointer, scoreboard'[issue_pointer]) ELSE Zero
  /\ \A i \in Slots : \/ issues /\ i = issue_pointer
                      \/ retires /\ i = commit_pointer /\ scoreboard'[i] = Free
                      \/ ~(retires /\ i = commit_pointer) /\ SlotStays(i)

\* An instruction that may be issued is well typed, and only loads fault.
LEMMA IssuableFresh ==
  ASSUME LsuTypes, NoStoreFaults, NEW n \in Issuable
  PROVE  /\ Fresh(n) /\ issue_cnt < NR_SB_ENTRIES
         /\ IsLsu(n) => lsu_ready
<1>1. n \in NewInstr /\ (n.bad => n.kind \in program.faulting) /\ (IsLsu(n) => lsu_ready)
  BY DEF Issuable
<1>2. issue_cnt # NR_SB_ENTRIES /\ issue_cnt \in 0 .. NR_SB_ENTRIES
  BY DEF Issuable, LsuTypes
<1>3. program \in Workload /\ program.faulting \intersect StoreOps = {}
  BY LsuAssumption DEF LsuTypes, NoStoreFaults
<1>4. PICK k \in program.kinds, w \in Word, b \in BOOLEAN :
        n = [kind |-> k, word |-> w, bad |-> b,
             at |-> CASE k = "trap" -> "ex" [] k = "fence" -> "done" [] OTHER -> "pending"]
  BY <1>1, SMT DEF NewInstr
<1>5. k \in Kinds /\ w \in Word
  BY <1>3 DEF Workload, Zero
<1>6. ASSUME k = "trap" PROVE Fresh(n)
  BY <1>1, <1>3, <1>4, <1>5, <1>6 DEF Fresh, Instr, IsLsu, Workload, LoadOps, StoreOps
<1>7. ASSUME k = "fence" PROVE Fresh(n)
  BY <1>1, <1>3, <1>4, <1>5, <1>7 DEF Fresh, Instr, IsLsu, Workload, LoadOps, StoreOps
<1>8. ASSUME k # "trap", k # "fence" PROVE Fresh(n)
  BY <1>1, <1>3, <1>4, <1>5, <1>8 DEF Fresh, Instr, IsLsu, Workload, LoadOps, StoreOps
<1>9. issue_cnt < NR_SB_ENTRIES
  BY <1>2, LsuAssumption
<1> QED
  BY <1>1, <1>6, <1>7, <1>8, <1>9

\* Age of the next slot to be issued to.
LEMMA IssueAge ==
  ASSUME LsuTypes, WindowOK, issue_cnt < NR_SB_ENTRIES
  PROVE  Age(issue_pointer) = issue_cnt
<1>1. /\ issue_pointer = (commit_pointer + issue_cnt) % NR_SB_ENTRIES
      /\ commit_pointer \in Slots /\ issue_pointer \in Slots /\ issue_cnt \in 0 .. NR_SB_ENTRIES
  BY DEF LsuTypes, WindowOK
<1>2. issue_pointer = IF commit_pointer + issue_cnt >= NR_SB_ENTRIES
                      THEN commit_pointer + issue_cnt - NR_SB_ENTRIES
                      ELSE commit_pointer + issue_cnt
  BY <1>1, SlotBehind
<1>3. Age(issue_pointer) = IF issue_pointer >= commit_pointer
                           THEN issue_pointer - commit_pointer
                           ELSE issue_pointer - commit_pointer + NR_SB_ENTRIES
  BY <1>1, AgeType
<1> QED
  BY <1>1, <1>2, <1>3, LsuAssumption DEF Slots

\* The slot a new instruction enters is free until then.
LEMMA IssueSlotFree ==
  ASSUME LsuTypes, WindowOK, issue_cnt < NR_SB_ENTRIES
  PROVE  scoreboard[issue_pointer].at = "free"
<1>1. issue_pointer \in Slots /\ (Occupied(issue_pointer) <=> Age(issue_pointer) < issue_cnt)
  BY DEF LsuTypes, WindowOK
<1> QED
  BY <1>1, IssueAge DEF Occupied, LsuTypes

\* The instruction that a unit holds waits for its result.
LEMMA HeldAwaited ==
  ASSUME LsuTypes, UnitsOK, NEW i \in Slots, InStore(i) \/ InLoads(i) \/ InReport(i)
  PROVE  Awaited(i) /\ scoreboard[i].at = "pending" /\ scoreboard[i].kind # "nop"
<1>1. CASE InStore(i)
  BY <1>1 DEF UnitsOK, InStore, Own, Awaited, IsLsu, LoadOps, StoreOps
<1>2. CASE InLoads(i) \/ InReport(i)
  BY <1>2 DEF UnitsOK, Awaited, IsLsu, LoadOps, StoreOps
<1> QED
  BY <1>1, <1>2

\* Without a flush the scoreboard moves as BoardMove says.
LEMMA BoardMoves ==
  ASSUME LsuInv, NoStoreFaults, NEW ack \in BOOLEAN, NEW flush \in BOOLEAN, ~flush,
         BoardPart(ack, flush)
  PROVE  \E retires, issues \in BOOLEAN :
           BoardMove(retires, issues) /\ retires = commit_ack(ack)
<1> DEFINE out     == [valid |-> st_valid_o(ex_q), tid |-> st_q.tid, ex |-> ex_q]
           retires == commit_ack(ack)
<1>1. PICK issued \in {{}} \union {{n} : n \in Issuable}, finish \in OtherUnits \union {NoSlot} :
        Scoreboard(out, finish, issued, retires, flush)
  BY DEF BoardPart
<1> DEFINE finished == Finish(scoreboard, finish)
           loaded   == WriteBack(finished, load_out)
           written  == WriteBack(loaded, out)
           kept     == IF retires THEN [written EXCEPT ![commit_pointer] = Free] ELSE written
           issues   == issued # {}
<1>2. /\ LsuTypes /\ WindowOK /\ UnitsOK /\ StoreOK
      /\ scoreboard \in [Slots -> Instr] /\ load_out.tid \in Slots
      /\ issue_pointer \in Slots /\ commit_pointer \in Slots /\ st_q.tid \in Slots
  BY DEF LsuInv, LsuTypes, LsuCtrl
<1>3. retires \in BOOLEAN /\ issues \in BOOLEAN /\ (retires => commit_instr.at = "done")
  BY DEF commit_ack
<1>4. out.tid = st_q.tid /\ (out.valid <=> st_state = "VALID_STORE") /\ (out.valid => ~out.ex)
  BY <1>2 DEF StoreOK, st_valid_o, StException
<1>5. /\ kept \in [Slots -> Instr]
      /\ retires => kept[commit_pointer] = Free
      /\ \A i \in Slots : ~(retires /\ i = commit_pointer) =>
           /\ kept[i].kind = scoreboard[i].kind
           /\ kept[i].word = scoreboard[i].word
           /\ kept[i].bad = scoreboard[i].bad
           /\ InStore(i) => kept[i].at = "done"
           /\ InReport(i) => /\ kept[i].at \in {"done", "ex"}
                             /\ load_out.ex => kept[i].at = "ex"
           /\ ~InStore(i) /\ ~InReport(i) =>
                \/ kept[i].at = scoreboard[i].at
                \/ /\ scoreboard[i].kind = "nop" /\ scoreboard[i].at = "pending"
                   /\ kept[i].at = "done"
  <2>0. finished \in [Slots -> Instr] /\ loaded \in [Slots -> Instr] /\ written \in [Slots -> Instr]
    <3>1. finished \in [Slots -> Instr]
      BY <1>2, FinishIs
    <3>2. loaded \in [Slots -> Instr]
      BY <1>2, <3>1, WriteBackIs
    <3> QED
      BY <1>2, <1>4, <3>1, <3>2, WriteBackIs
  <2>1. ASSUME NEW i \in Slots
        PROVE  /\ finished[i].kind = scoreboard[i].kind
               /\ finished[i].word = scoreboard[i].word
               /\ finished[i].bad = scoreboard[i].bad
               /\ \/ finished[i].at = scoreboard[i].at
                  \/ /\ scoreboard[i].kind = "nop" /\ scoreboard[i].at = "pending"
                     /\ finished[i].at = "done"
    BY <1>2, FinishIs
  <2>2. ASSUME NEW i \in Slots
        PROVE  /\ loaded[i].kind = finished[i].kind
               /\ loaded[i].word = finished[i].word
               /\ loaded[i].bad = finished[i].bad
               /\ loaded[i].at = IF load_out.valid /\ load_out.tid = i /\ finished[i].at # "free"
                                 THEN IF load_out.ex THEN "ex" ELSE "done" ELSE finished[i].at
    BY <1>2, <2>0, WriteBackIs
  <2>3. ASSUME NEW i \in Slots
        PROVE  /\ written[i].kind = loaded[i].kind
               /\ written[i].word = loaded[i].word
               /\ written[i].bad = loaded[i].bad
               /\ written[i].at = IF out.valid /\ out.tid = i /\ loaded[i].at # "free"
                                  THEN IF out.ex THEN "ex" ELSE "done" ELSE loaded[i].at
    <3> HIDE DEF finished, loaded, out
    <3> QED
      BY <1>2, <1>4, <2>0, WriteBackIs
  <2> HIDE DEF finished, loaded, written, out
  <2>4. ASSUME NEW i \in Slots
        PROVE  /\ InStore(i) => written[i].at = "done"
               /\ InReport(i) => /\ written[i].at \in {"done", "ex"}
                                 /\ load_out.ex => written[i].at = "ex"
               /\ ~InStore(i) /\ ~InReport(i) =>
                    \/ written[i].at = scoreboard[i].at
                    \/ /\ scoreboard[i].kind = "nop" /\ scoreboard[i].at = "pending"
                       /\ written[i].at = "done"
    <3>1. InStore(i) => scoreboard[i].at = "pending" /\ scoreboard[i].kind # "nop"
      BY <1>2, HeldAwaited
    <3>2. InReport(i) => scoreboard[i].at = "pending" /\ scoreboard[i].kind # "nop"
      BY <1>2, HeldAwaited
    <3>3. InStore(i) <=> out.valid /\ out.tid = i
      BY <1>4 DEF InStore
    <3>4. InReport(i) <=> load_out.valid /\ load_out.tid = i /\ scoreboard[i].at # "free"
      BY DEF InReport, Occupied
    <3>5. ~(InStore(i) /\ InReport(i))
      <4>1. InStore(i) => st_q.fu = "STORE" /\ st_q = Request(i, scoreboard[i])
        BY <1>2 DEF InStore, UnitsOK, Own
      <4>2. Request(i, scoreboard[i]).fu = "STORE" => scoreboard[i].kind \notin LoadOps
        BY DEF Request
      <4>3. InReport(i) => scoreboard[i].kind \in LoadOps
        BY <1>2 DEF UnitsOK, IsLoad
      <4> QED
        BY <4>1, <4>2, <4>3, Zenon
    <3>6. load_out.ex \in BOOLEAN
      BY <1>2 DEF LsuTypes
    <3>7. CASE InReport(i)
      BY <2>1, <2>2, <2>3, <3>2, <3>3, <3>4, <3>5, <3>6, <3>7
    <3>8. CASE ~InReport(i)
      BY <1>4, <2>1, <2>2, <2>3, <3>1, <3>3, <3>4, <3>8
    <3> QED
      BY <3>7, <3>8
  <2> QED
    BY <1>2, <2>0, <2>1, <2>2, <2>3, <2>4, FreeType
<1>6. /\ commit_pointer' = IF retires THEN (commit_pointer + 1) % NR_SB_ENTRIES ELSE commit_pointer
      /\ issue_cnt' = issue_cnt + Cardinality(issued) - (IF retires THEN 1 ELSE 0)
      /\ \/ issued = {} /\ scoreboard' = kept /\ UNCHANGED issue_pointer /\ fu_data' = Zero
         \/ \E n \in issued :
              /\ scoreboard' = [kept EXCEPT ![issue_pointer] = n]
              /\ issue_pointer' = (issue_pointer + 1) % NR_SB_ENTRIES
              /\ fu_data' = IF IsLsu(n) THEN Request(issue_pointer, n) ELSE Zero
  BY <1>1, Zenon DEF Scoreboard
<1> HIDE DEF kept, out, retires
<1>7. CASE issued = {}
  <2>1. Cardinality(issued) = 0
    BY <1>7, FS_EmptySet
  <2>2. /\ scoreboard' = kept /\ UNCHANGED issue_pointer /\ fu_data' = Zero
        /\ issue_cnt' = issue_cnt - (IF retires THEN 1 ELSE 0)
    BY <1>2, <1>6, <1>7, <2>1 DEF LsuTypes
  <2>3. BoardMove(retires, FALSE)
    BY <1>2, <1>3, <1>5, <1>6, <2>2 DEF BoardMove, SlotStays, LsuTypes
  <2> QED
    BY <1>3, <2>3 DEF retires
<1>8. CASE issued # {}
  <2>1. PICK n \in Issuable : issued = {n}
    BY <1>8
  <2>2. Cardinality(issued) = 1
    BY <2>1, FS_Singleton
  <2>3. /\ scoreboard' = [kept EXCEPT ![issue_pointer] = n]
        /\ issue_pointer' = (issue_pointer + 1) % NR_SB_ENTRIES
        /\ fu_data' = IF IsLsu(n) THEN Request(issue_pointer, n) ELSE Zero
    BY <1>6, <2>1
  <2>4. Fresh(n) /\ issue_cnt < NR_SB_ENTRIES /\ (IsLsu(n) => lsu_ready) /\ n \in Instr
    BY <1>2, IssuableFresh DEF Fresh
  <2>5. scoreboard' \in [Slots -> Instr] /\ scoreboard'[issue_pointer] = n
    BY <1>2, <1>5, <2>3, <2>4
  <2>6. ASSUME NEW i \in Slots, i # issue_pointer PROVE scoreboard'[i] = kept[i]
    BY <1>2, <1>5, <2>3, <2>6
  <2>7. issue_cnt' = issue_cnt + 1 - (IF retires THEN 1 ELSE 0)
    BY <1>6, <2>2
  <2>8. \A i \in Slots : \/ i = issue_pointer
                         \/ retires /\ i = commit_pointer /\ scoreboard'[i] = Free
                         \/ ~(retires /\ i = commit_pointer) /\ SlotStays(i)
    BY <1>5, <2>6 DEF SlotStays
  <2>9. BoardMove(retires, TRUE)
    BY <1>3, <1>6, <2>3, <2>4, <2>5, <2>7, <2>8 DEF BoardMove
  <2> QED
    BY <1>3, <2>9 DEF retires
<1> QED
  BY <1>7, <1>8

\* A retirement makes every other instruction one place older, and the slot it
\* frees the youngest; the ages are those of the next state.
LEMMA AgesMove ==
  ASSUME LsuTypes, WindowOK, NEW retires \in BOOLEAN, NEW issues \in BOOLEAN,
         BoardMove(retires, issues), NEW i \in Slots
  PROVE  /\ commit_pointer' \in Slots
         /\ retires => issue_cnt > 0
         /\ Age(i)' = IF retires
                      THEN IF i = commit_pointer THEN NR_SB_ENTRIES - 1 ELSE Age(i) - 1
                      ELSE Age(i)
<1>1. /\ commit_pointer \in Slots /\ issue_cnt \in 0 .. NR_SB_ENTRIES
      /\ commit_pointer' = IF retires THEN (commit_pointer + 1) % NR_SB_ENTRIES ELSE commit_pointer
  BY DEF LsuTypes, BoardMove
<1>2. CASE ~retires
  BY <1>1, <1>2 DEF Age
<1>3. CASE retires
  <2>1. 1 \in 0 .. NR_SB_ENTRIES
    BY LsuAssumption
  <2>2. /\ commit_pointer' = IF commit_pointer + 1 >= NR_SB_ENTRIES
                             THEN commit_pointer + 1 - NR_SB_ENTRIES ELSE commit_pointer + 1
        /\ commit_pointer' \in Slots
    BY <1>1, <1>3, <2>1, SlotBehind
  <2>3. Age(i)' = IF i >= commit_pointer' THEN i - commit_pointer'
                  ELSE i - commit_pointer' + NR_SB_ENTRIES
    BY <2>2, AgeIs DEF Age
  <2>4. Age(i) = IF i >= commit_pointer THEN i - commit_pointer
                 ELSE i - commit_pointer + NR_SB_ENTRIES
    BY AgeType
  <2>5. issue_cnt > 0
    <3>1. Occupied(commit_pointer)
      BY <1>3 DEF BoardMove, Occupied, commit_instr
    <3>2. Age(commit_pointer) < issue_cnt /\ Age(commit_pointer) = 0
      BY <1>1, <3>1, AgeType DEF WindowOK
    <3> QED
      BY <1>1, <3>2
  <2> QED
    BY <1>1, <1>3, <2>2, <2>3, <2>4, <2>5, LsuAssumption DEF Slots
<1> QED
  BY <1>2, <1>3

\* The order of two instructions that stay does not change, and the one that is
\* issued is the youngest.
LEMMA OrderKept ==
  ASSUME LsuTypes, WindowOK, NEW retires \in BOOLEAN, NEW issues \in BOOLEAN,
         BoardMove(retires, issues), NEW i \in Slots, ~(retires /\ i = commit_pointer)
  PROVE  /\ \A k \in Slots : ~(retires /\ k = commit_pointer) =>
              (Age(i)' < Age(k)' <=> Age(i) < Age(k))
         /\ \A p \in Slots : issues /\ p = issue_pointer /\ Occupied(i) =>
              Age(i)' < Age(p)' /\ i # p
<1>1. Age(i) \in 0 .. NR_SB_ENTRIES - 1 /\ (Age(i)' = IF retires THEN Age(i) - 1 ELSE Age(i))
  BY AgesMove, AgeType
<1>2. ASSUME NEW k \in Slots, ~(retires /\ k = commit_pointer)
      PROVE  Age(i)' < Age(k)' <=> Age(i) < Age(k)
  <2>1. Age(k) \in 0 .. NR_SB_ENTRIES - 1 /\ (Age(k)' = IF retires THEN Age(k) - 1 ELSE Age(k))
    BY <1>2, AgesMove, AgeType
  <2> QED
    BY <1>1, <2>1, LsuAssumption
<1>3. ASSUME NEW p \in Slots, issues, p = issue_pointer, Occupied(i)
      PROVE  Age(i)' < Age(p)' /\ i # p
  <2>1. issue_cnt < NR_SB_ENTRIES /\ issue_cnt \in 0 .. NR_SB_ENTRIES
    BY <1>3 DEF LsuTypes, BoardMove
  <2>2. Age(p) = issue_cnt /\ Age(i) < issue_cnt
    BY <1>3, <2>1, IssueAge DEF WindowOK
  <2>3. ASSUME retires, p = commit_pointer PROVE FALSE
    BY <1>3, <2>2, <2>3, AgesMove, AgeType
  <2>4. Age(p)' = IF retires THEN Age(p) - 1 ELSE Age(p)
    BY <2>3, AgesMove
  <2> QED
    BY <1>1, <2>1, <2>2, <2>4, LsuAssumption
<1> QED
  BY <1>2, <1>3

\* The window stays consistent.
LEMMA WindowMoves ==
  ASSUME LsuInv, NEW retires \in BOOLEAN, NEW issues \in BOOLEAN, BoardMove(retires, issues)
  PROVE  /\ WindowOK'
         /\ scoreboard' \in [Slots -> Instr] /\ commit_pointer' \in Slots
         /\ issue_pointer' \in Slots /\ issue_cnt' \in 0 .. NR_SB_ENTRIES
<1>1. /\ LsuTypes /\ WindowOK /\ UnitsOK
      /\ commit_pointer \in Slots /\ issue_pointer \in Slots /\ issue_cnt \in 0 .. NR_SB_ENTRIES
      /\ issue_pointer = (commit_pointer + issue_cnt) % NR_SB_ENTRIES
  BY DEF LsuInv, LsuTypes, WindowOK
<1>2. /\ commit_pointer' = IF retires THEN (commit_pointer + 1) % NR_SB_ENTRIES ELSE commit_pointer
      /\ issue_pointer' = IF issues THEN (issue_pointer + 1) % NR_SB_ENTRIES ELSE issue_pointer
      /\ issue_cnt' = issue_cnt + (IF issues THEN 1 ELSE 0) - (IF retires THEN 1 ELSE 0)
      /\ issues => issue_cnt < NR_SB_ENTRIES
      /\ scoreboard' \in [Slots -> Instr]
  BY DEF BoardMove
<1>3. retires => issue_cnt > 0
  BY <1>1, AgesMove
<1>4. issue_cnt' \in 0 .. NR_SB_ENTRIES
  BY <1>1, <1>2, <1>3, LsuAssumption
<1>5. /\ (commit_pointer + 1) % NR_SB_ENTRIES =
            IF commit_pointer + 1 >= NR_SB_ENTRIES
            THEN commit_pointer + 1 - NR_SB_ENTRIES ELSE commit_pointer + 1
      /\ (commit_pointer + 1) % NR_SB_ENTRIES \in Slots
      /\ (issue_pointer + 1) % NR_SB_ENTRIES =
            IF issue_pointer + 1 >= NR_SB_ENTRIES
            THEN issue_pointer + 1 - NR_SB_ENTRIES ELSE issue_pointer + 1
      /\ (issue_pointer + 1) % NR_SB_ENTRIES \in Slots
  <2>1. 1 \in 0 .. NR_SB_ENTRIES
    BY LsuAssumption
  <2> QED
    BY <1>1, <2>1, SlotBehind
<1>6. commit_pointer' \in Slots /\ issue_pointer' \in Slots
  BY <1>1, <1>2, <1>5
<1>7. issue_pointer = IF commit_pointer + issue_cnt >= NR_SB_ENTRIES
                      THEN commit_pointer + issue_cnt - NR_SB_ENTRIES
                      ELSE commit_pointer + issue_cnt
  BY <1>1, SlotBehind
<1>8. issue_pointer' = (commit_pointer' + issue_cnt') % NR_SB_ENTRIES
  <2>1. (commit_pointer' + issue_cnt') % NR_SB_ENTRIES =
           IF commit_pointer' + issue_cnt' >= NR_SB_ENTRIES
           THEN commit_pointer' + issue_cnt' - NR_SB_ENTRIES ELSE commit_pointer' + issue_cnt'
    BY <1>4, <1>6, SlotBehind
  <2>2. commit_pointer' = IF ~retires THEN commit_pointer
                          ELSE IF commit_pointer + 1 >= NR_SB_ENTRIES
                          THEN commit_pointer + 1 - NR_SB_ENTRIES ELSE commit_pointer + 1
    BY <1>2, <1>5
  <2>3. issue_pointer' = IF ~issues THEN issue_pointer
                         ELSE IF issue_pointer + 1 >= NR_SB_ENTRIES
                         THEN issue_pointer + 1 - NR_SB_ENTRIES ELSE issue_pointer + 1
    BY <1>2, <1>5
  <2>4. /\ commit_pointer \in Slots /\ issue_pointer \in Slots /\ issue_cnt \in 0 .. NR_SB_ENTRIES
        /\ issue_cnt' = issue_cnt + (IF issues THEN 1 ELSE 0) - (IF retires THEN 1 ELSE 0)
        /\ issues => issue_cnt < NR_SB_ENTRIES
    BY <1>1, <1>2
  <2>5. issue_pointer' = IF commit_pointer' + issue_cnt' >= NR_SB_ENTRIES
                         THEN commit_pointer' + issue_cnt' - NR_SB_ENTRIES
                         ELSE commit_pointer' + issue_cnt'
    BY ONLY <1>3, <1>7, <2>2, <2>3, <2>4, LsuAssumption DEF Slots
  <2> QED
    BY <2>1, <2>5
<1>9. ASSUME NEW i \in Slots
      PROVE  /\ Occupied(i)' <=> Age(i)' < issue_cnt'
             /\ scoreboard'[i].bad => IsLoad(i)'
  <2>1. /\ Occupied(i) <=> Age(i) < issue_cnt
        /\ scoreboard[i].bad => IsLoad(i)
        /\ Age(i) \in 0 .. NR_SB_ENTRIES - 1
        /\ Age(i) = 0 <=> i = commit_pointer
    BY <1>1, AgeType DEF WindowOK
  <2>2. Age(i)' = IF retires
                  THEN IF i = commit_pointer THEN NR_SB_ENTRIES - 1 ELSE Age(i) - 1
                  ELSE Age(i)
    BY <1>1, AgesMove
  <2>3. issues => Age(issue_pointer) = issue_cnt
    BY <1>1, <1>2, IssueAge
  <2>4. CASE issues /\ i = issue_pointer
    <3>1. Occupied(i)' /\ (scoreboard'[i].bad => IsLoad(i)')
      BY <2>4 DEF BoardMove, Fresh, Occupied, IsLoad
    <3>2. Age(i)' < issue_cnt'
      BY <1>1, <1>2, <1>3, <2>1, <2>2, <2>3, <2>4, LsuAssumption
    <3> QED
      BY <3>1, <3>2
  <2>5. CASE ~(issues /\ i = issue_pointer) /\ retires /\ i = commit_pointer
    <3>1. scoreboard'[i] = Free
      BY <2>5 DEF BoardMove
    <3>2. ~(Age(i)' < issue_cnt')
      BY <1>1, <1>2, <2>2, <2>5, LsuAssumption
    <3> QED
      BY <3>1, <3>2, FreeType DEF Occupied
  <2>6. CASE ~(issues /\ i = issue_pointer) /\ ~(retires /\ i = commit_pointer)
    <3>1. SlotStays(i)
      BY <2>6 DEF BoardMove
    <3>2. Occupied(i)' <=> Occupied(i)
      <4>1. InStore(i) \/ InReport(i) => scoreboard[i].at = "pending"
        BY <1>1, HeldAwaited
      <4> QED
        BY <3>1, <4>1 DEF SlotStays, Occupied
    <3>3. scoreboard'[i].bad => IsLoad(i)'
      BY <2>1, <3>1 DEF SlotStays, IsLoad
    <3>4. Age(i) = issue_cnt /\ issues => i = issue_pointer
      BY <1>1, <2>3, AgeUnique
    <3>5. Age(i)' < issue_cnt' <=> Age(i) < issue_cnt
      BY <1>1, <1>2, <2>1, <2>2, <2>6, <3>4, LsuAssumption
    <3> QED
      BY <2>1, <3>2, <3>3, <3>5
  <2> QED
    BY <2>4, <2>5, <2>6
<1> QED
  BY <1>2, <1>4, <1>6, <1>8, <1>9 DEF WindowOK

-----------------------------------------------------------------------------
(***************************************************************************)
(* The load unit and its port.                                             *)
(***************************************************************************)
\* The fields of a request.
LEMMA RequestIs ==
  ASSUME NEW i, NEW instr
  PROVE  /\ Request(i, instr).valid
         /\ Request(i, instr).tid = i
         /\ Request(i, instr).op = instr.kind
         /\ Request(i, instr).word = instr.word
         /\ Request(i, instr).bad = instr.bad
         /\ Request(i, instr).fu = IF instr.kind \in LoadOps THEN "LOAD" ELSE "STORE"
BY DEF Request

\* The request the units look at is the oldest of those that are queued.
LEMMA HeadIs ==
  ASSUME LsuTypes, QueueOK
  PROVE  /\ lsu_ctrl_now = NextRequest(0)
         /\ lsu_ctrl_now \in LsuCtrl(Slots)
         /\ lsu_ctrl_now.valid <=> Queued(0)
         /\ lsu_ctrl_now.valid => Own(lsu_ctrl_now)
         /\ ~lsu_ctrl_now.valid => lsu_ctrl_now = Zero
         /\ st_valid_i => lsu_ctrl_now.fu = "STORE"
         /\ ld_valid_i => lsu_ctrl_now.fu = "LOAD"
         /\ Zero.fu = "NONE" /\ ~Zero.valid /\ ~Zero.bad
<1>1. /\ byp_rd \in 0 .. 1 /\ byp_cnt \in 0 .. 2
      /\ fu_data \in LsuCtrl(Slots) /\ byp_mem \in [0 .. 1 -> LsuCtrl(Slots)]
  BY DEF LsuTypes
<1>9. (byp_rd + 0) % 2 = byp_rd
  BY <1>1
<1>2. lsu_ctrl_now = NextRequest(0) /\ lsu_ctrl_now \in LsuCtrl(Slots)
  BY <1>1, <1>9 DEF lsu_ctrl_now, lsu_ctrl, NextRequest
<1>3. /\ Queued(0) => Own(NextRequest(0))
      /\ ~fu_data.valid => fu_data = Zero
      /\ 0 \in 0 .. 1
  BY DEF QueueOK
<1>4. Own(NextRequest(0)) => NextRequest(0).valid
  BY DEF Own, Request
<1>5. Queued(0) <=> byp_cnt > 0 \/ fu_data.valid
  BY <1>1 DEF Queued
<1>6. Zero.fu = "NONE" /\ ~Zero.valid /\ ~Zero.bad
  BY DEF Zero
<1>7. byp_cnt = 0 => lsu_ctrl_now = fu_data
  BY DEF lsu_ctrl_now, lsu_ctrl
<1>8. /\ lsu_ctrl_now.valid <=> Queued(0)
      /\ lsu_ctrl_now.valid => Own(lsu_ctrl_now)
      /\ ~lsu_ctrl_now.valid => lsu_ctrl_now = Zero
  BY <1>1, <1>2, <1>3, <1>4, <1>5, <1>7
<1> QED
  BY <1>2, <1>6, <1>8 DEF st_valid_i, ld_valid_i

\* The slot of the load buffer that a granted load enters.
LEMMA WindexSlot ==
  ASSUME LsuTypes, LdPortOK, NEW rvalid \in BOOLEAN
  PROVE  ldbuf_windex(rvalid) \in LdBufSlots
<1>1. 0 \in LdBufSlots /\ dc_id \in LdBufSlots
  BY DEF LdBufSlots, LdPortOK, LsuTypes
<1>2. CASE ldbuf_full
  BY <1>1, <1>2 DEF ldbuf_windex
<1>3. CASE ~ldbuf_full
  <2> DEFINE free == {i \in LdBufSlots : ~ldbuf[i].valid}
  <2>1. \A i \in LdBufSlots : i # dc_id => i \in free
    BY DEF LdPortOK
  <2>2. \E i \in LdBufSlots : i \in free
    BY <1>3 DEF ldbuf_full
  <2>3. \E x \in free : \A y \in free : x <= y
    <3>1. CASE 0 \in free
      BY <3>1 DEF LdBufSlots
    <3>2. CASE 0 \notin free
      <4>1. dc_id = 0 /\ 1 \in free
        BY <1>1, <2>1, <2>2, <3>2 DEF LdBufSlots
      <4>2. \A y \in free : 1 <= y
        BY <3>2 DEF LdBufSlots
      <4> QED
        BY <4>1, <4>2
    <3> QED
      BY <3>1, <3>2
  <2>4. Min(free) \in free
    BY <2>3, Zenon DEF Min
  <2> QED
    BY <1>1, <2>4 DEF ldbuf_windex
<1> QED
  BY <1>2, <1>3

\* The cache grants a load only when the load unit asks for the request at the
\* head of the queue, and when the load before it is answered.
LEMMA GrantIs ==
  ASSUME LsuInv, NEW hit \in BOOLEAN, NEW done \in BOOLEAN, NEW granted \in BOOLEAN,
         NEW not_ni \in BOOLEAN, NEW flush \in BOOLEAN,
         LoadPart(hit, done, granted, not_ni, flush), granted
  PROVE  /\ ld_valid_i
         /\ ld_state = "WAIT_GNT" \/ (ld_state \in {"IDLE", "SEND_TAG"} /\ ~matches_now)
         /\ dc_state = "IDLE" \/ rvalid_now(done)
         /\ dc_state # "KILL_MISS"
<1>1. LsuTypes /\ QueueOK /\ WaitsOK
  BY DEF LsuInv
<1>2. /\ ld_data_req(ld_valid_i, rvalid_now(done), matches_now)
      /\ MayGrant(kill_req(ex_q), rvalid_now(done))
  BY DEF LoadPart
<1>3. ld_state = "WAIT_GNT" => ld_valid_i
  <2>1. ld_state = "WAIT_GNT" => byp_cnt > 0 /\ NextRequest(0).fu = "LOAD"
    BY <1>1 DEF WaitsOK, LdWaits
  <2>2. byp_cnt > 0 => Queued(0)
    BY <1>1 DEF Queued, LsuTypes
  <2> QED
    BY <1>1, <2>1, <2>2, HeadIs DEF ld_valid_i
<1> QED
  BY <1>2, <1>3 DEF ld_data_req, LdLooks, accept_req, MayGrant

\* the load goes to the load buffer and leaves the queue
took(hit, granted, not_ni) == granted /\ hit /\ ~stall_now(not_ni)

\* the load leaves the queue with an exception found while it waited
faults(done) == ld_state = "WAIT_TRANSLATION" /\ ex_q /\ ~rvalid_now(done)

\* The next state of the load unit tells what happened to the load it looks at.
LEMMA LoadStateMoves ==
  ASSUME LsuInv, NEW hit \in BOOLEAN, NEW done \in BOOLEAN, NEW granted \in BOOLEAN,
         NEW not_ni \in BOOLEAN, NEW flush \in BOOLEAN, ~flush,
         LoadPart(hit, done, granted, not_ni, flush)
  PROVE  /\ ld_state' \in LdStates \ {"WAIT_FLUSH"}
         /\ granted => ld_state' \in {"SEND_TAG"} \union Aborting
         /\ ld_state' = "SEND_TAG" <=> took(hit, granted, not_ni)
         /\ ld_state' \in Aborting => granted
         /\ ld_state' \in LdWaits => ld_valid_i /\ ~faults(done)
         /\ took(hit, granted, not_ni) \/ faults(done) => ld_valid_i
         /\ ~(took(hit, granted, not_ni) /\ faults(done))
         /\ took(hit, granted, not_ni) \/ ld_state' \in LdWaits \ {"WAIT_PAGE_OFFSET"} =>
              ~matches_now \/ ld_state \in LdWaits \ {"WAIT_PAGE_OFFSET"}
<1> DEFINE rvalid == rvalid_now(done)
           stall  == stall_now(not_ni)
<1>1. LsuTypes /\ QueueOK /\ WaitsOK
  BY DEF LsuInv
<1>2. ld_state' = LdStateNext(ld_valid_i, rvalid, matches_now, granted, hit, stall, ex_q,
                              not_ni, flush)
  BY DEF LoadPart
<1>3. ld_state \in LdStates /\ ex_q \in BOOLEAN
  BY <1>1 DEF LsuTypes
<1>4. granted => ld_state = "WAIT_GNT" \/ (ld_state \in {"IDLE", "SEND_TAG"} /\ ~matches_now /\ LdLooks(ld_valid_i, rvalid))
  BY DEF LoadPart, ld_data_req, LdLooks
<1>5. ld_state \in LdWaits => ld_valid_i
  <2>1. ld_state \in LdWaits => byp_cnt > 0 /\ NextRequest(0).fu = "LOAD"
    BY <1>1 DEF WaitsOK
  <2>2. byp_cnt > 0 => Queued(0)
    BY <1>1 DEF Queued, LsuTypes
  <2> QED
    BY <1>1, <2>1, <2>2, HeadIs DEF ld_valid_i
<1>6. faults(done) <=> ld_state = "WAIT_TRANSLATION" /\ ex_q /\ ~rvalid
  BY DEF faults
<1>7. took(hit, granted, not_ni) <=> granted /\ hit /\ ~stall
  BY DEF took
<1> HIDE DEF rvalid, stall
<1> USE DEF LdStates, LdWaits, Aborting
<1>8. CASE LdLooks(ld_valid_i, rvalid)
  <2>1. ld_state \in {"IDLE", "SEND_TAG"} /\ ld_valid_i
    BY <1>8 DEF LdLooks, accept_req
  <2>2. ld_state' = IF matches_now THEN "WAIT_PAGE_OFFSET" ELSE IF ~granted THEN "WAIT_GNT"
                    ELSE AfterGrant(hit, stall)
    BY <1>2, <1>8, <2>1 DEF LdStateNext
  <2> QED
    BY <1>4, <1>6, <1>7, <2>1, <2>2 DEF AfterGrant
<1>9. CASE ~LdLooks(ld_valid_i, rvalid) /\ ld_state \in {"IDLE", "SEND_TAG", "WAIT_FLUSH"}
  <2>1. ld_state' = "IDLE"
    BY <1>2, <1>9 DEF LdStateNext
  <2> QED
    BY <1>4, <1>6, <1>7, <1>9, <2>1
<1>10. CASE ld_state = "WAIT_PAGE_OFFSET"
  <2>1. ld_state' = IF matches_now THEN "WAIT_PAGE_OFFSET" ELSE "WAIT_GNT"
    BY <1>2, <1>10 DEF LdStateNext, LdLooks
  <2> QED
    BY <1>4, <1>5, <1>6, <1>7, <1>10, <2>1
<1>11. CASE ld_state = "WAIT_GNT"
  <2>1. ld_state' = IF granted THEN AfterGrant(hit, stall) ELSE "WAIT_GNT"
    BY <1>2, <1>11 DEF LdStateNext, LdLooks
  <2> QED
    BY <1>4, <1>5, <1>6, <1>7, <1>11, <2>1 DEF AfterGrant
<1>12. CASE ld_state \in Aborting \union {"WAIT_WB_EMPTY"}
  <2>1. ld_state' \in {"WAIT_TRANSLATION", "WAIT_WB_EMPTY", "IDLE"}
    BY <1>2, <1>12 DEF LdStateNext, LdLooks
  <2> QED
    BY <1>4, <1>5, <1>6, <1>7, <1>12, <2>1
<1>13. CASE ld_state = "WAIT_TRANSLATION"
  <2>1. ld_state' = IF ex_q THEN "IDLE" ELSE IF hit THEN "WAIT_GNT" ELSE "WAIT_TRANSLATION"
    BY <1>2, <1>3, <1>13 DEF LdStateNext, LdLooks
  <2> QED
    BY <1>3, <1>4, <1>5, <1>6, <1>7, <1>13, <2>1
<1> QED
  BY <1>3, <1>8, <1>9, <1>10, <1>11, <1>12, <1>13

\* The port of the cache serves the load in the load buffer and no other.
LEMMA LoadPortMoves ==
  ASSUME LsuInv, NEW hit \in BOOLEAN, NEW done \in BOOLEAN, NEW granted \in BOOLEAN,
         NEW not_ni \in BOOLEAN, NEW flush \in BOOLEAN,
         LoadPart(hit, done, granted, not_ni, flush)
  PROVE  /\ dc_id' = IF granted THEN ldbuf_windex(rvalid_now(done)) ELSE dc_id
         /\ dc_id' = ldbuf_last_id' /\ dc_id' \in LdBufSlots
         /\ dc_state' \in {"IDLE", "READ", "MISS", "KILL_MISS"}
         /\ dc_state' = "READ" <=> granted
         /\ dc_state' = "MISS" <=> ~granted /\ dc_state \in {"READ", "MISS"} /\ ~rvalid_now(done)
         /\ rvalid_now(done) => dc_state \in {"READ", "MISS"}
<1> DEFINE rvalid == rvalid_now(done)
           kill   == kill_req(ex_q)
           windex == ldbuf_windex(rvalid)
<1>1. LsuTypes /\ LdPortOK
  BY DEF LsuInv
<1>2. /\ CachePort(kill, tag_valid, done, granted, windex)
      /\ ldbuf_last_id' = IF granted THEN windex ELSE ldbuf_last_id
  BY DEF LoadPart
<1>3. rvalid \in BOOLEAN /\ kill \in BOOLEAN /\ tag_valid \in BOOLEAN
  BY DEF rvalid_now, data_rvalid, kill_req, tag_valid
<1>4. dc_state = "READ" => tag_valid
  BY <1>1 DEF LdPortOK, tag_valid, Aborting
<1>5. rvalid <=> \/ dc_state = "READ" /\ (kill \/ (tag_valid /\ done))
                 \/ dc_state = "MISS" /\ (kill \/ done)
  BY DEF rvalid_now, data_rvalid
<1>6. windex \in LdBufSlots
  BY <1>1, <1>3, WindexSlot
<1>7. dc_state \in {"IDLE", "READ", "MISS", "KILL_MISS"} /\ dc_id \in LdBufSlots
      /\ dc_id = ldbuf_last_id
  BY <1>1 DEF LsuTypes, LdPortOK
<1> HIDE DEF rvalid, kill, windex
<1>8. dc_id' = (IF granted THEN windex ELSE dc_id) /\ (granted => dc_state' = "READ")
  BY <1>2 DEF CachePort
<1>9. /\ ~granted /\ dc_state = "READ" => dc_state' = IF kill \/ (tag_valid /\ done) THEN "IDLE"
                                         ELSE IF tag_valid THEN "MISS" ELSE "READ"
      /\ ~granted /\ dc_state = "MISS" => dc_state' = IF kill /\ ~done THEN "KILL_MISS"
                                         ELSE IF done THEN "IDLE" ELSE "MISS"
      /\ ~granted /\ dc_state = "KILL_MISS" => dc_state' = IF done THEN "IDLE" ELSE "KILL_MISS"
      /\ ~granted /\ dc_state = "IDLE" => dc_state' = "IDLE"
  BY <1>2 DEF CachePort
<1>10. dc_id' = ldbuf_last_id' /\ dc_id' \in LdBufSlots
  BY <1>2, <1>6, <1>7, <1>8
<1>11. /\ dc_state' \in {"IDLE", "READ", "MISS", "KILL_MISS"}
       /\ dc_state' = "READ" <=> granted
       /\ dc_state' = "MISS" <=> ~granted /\ dc_state \in {"READ", "MISS"} /\ ~rvalid
       /\ rvalid => dc_state \in {"READ", "MISS"}
  BY <1>3, <1>4, <1>5, <1>7, <1>8, <1>9
<1> QED
  BY <1>8, <1>10, <1>11 DEF rvalid, windex

\* The slots of the load buffer after a cycle.
LEMMA LoadBufferMoves ==
  ASSUME LsuInv, NEW hit \in BOOLEAN, NEW done \in BOOLEAN, NEW granted \in BOOLEAN,
         NEW not_ni \in BOOLEAN, NEW flush \in BOOLEAN,
         LoadPart(hit, done, granted, not_ni, flush)
  PROVE  /\ ldbuf' \in [LdBufSlots -> [valid : BOOLEAN, flushed : BOOLEAN, tid : Slots]]
         /\ \A j \in LdBufSlots :
              /\ ldbuf'[j].valid <=> /\ j = dc_id'
                                     /\ granted \/ (ldbuf[j].valid /\ ~rvalid_now(done))
              /\ granted /\ j = dc_id' => /\ ldbuf'[j].tid = lsu_ctrl_now.tid
                                          /\ ~ldbuf'[j].flushed
              /\ ~granted /\ ldbuf'[j].valid => /\ ldbuf'[j].tid = ldbuf[j].tid
                                                /\ ldbuf'[j].flushed <=> ldbuf[j].flushed \/ flush
<1> DEFINE rvalid == rvalid_now(done)
<1>1. LsuTypes /\ LdPortOK /\ QueueOK
  BY DEF LsuInv
<1>2. /\ ldbuf \in [LdBufSlots -> [valid : BOOLEAN, flushed : BOOLEAN, tid : Slots]]
      /\ \A j \in LdBufSlots : ldbuf[j].valid => dc_state \in {"READ", "MISS"} /\ j = dc_id
      /\ 0 \in Slots
  BY <1>1, LsuAssumption DEF LsuTypes, LdPortOK, Slots
<1>3. lsu_ctrl_now.tid \in Slots
  BY <1>1, HeadIs DEF LsuCtrl
<1>4. ldbuf' = LdBufNext(granted, lsu_ctrl_now.tid, rvalid, dc_id, flush)
  BY DEF LoadPart
<1>5. /\ dc_id' = IF granted THEN ldbuf_windex(rvalid) ELSE dc_id
      /\ rvalid => dc_state \in {"READ", "MISS"}
  BY LoadPortMoves
<1>6. granted => dc_state = "IDLE" \/ rvalid
  BY GrantIs
<1>7. rvalid \in BOOLEAN
  BY DEF rvalid_now, data_rvalid
<1> HIDE DEF rvalid
<1>8. ASSUME NEW j \in LdBufSlots
      PROVE  ldbuf'[j] = IF granted /\ j = dc_id'
                         THEN [valid |-> TRUE, flushed |-> FALSE, tid |-> lsu_ctrl_now.tid]
                         ELSE IF (rvalid /\ j = dc_id) \/ ~ldbuf[j].valid THEN FreeSlot
                         ELSE [ldbuf[j] EXCEPT !.flushed = @ \/ flush]
  BY <1>4, <1>5 DEF LdBufNext
<1>9. ASSUME NEW j \in LdBufSlots
      PROVE  /\ ldbuf'[j] \in [valid : BOOLEAN, flushed : BOOLEAN, tid : Slots]
             /\ ldbuf'[j].valid <=> \/ granted /\ j = dc_id'
                                    \/ ldbuf[j].valid /\ ~(rvalid /\ j = dc_id)
             /\ granted /\ j = dc_id' => ldbuf'[j].tid = lsu_ctrl_now.tid /\ ~ldbuf'[j].flushed
             /\ ldbuf'[j].valid /\ ~(granted /\ j = dc_id') =>
                  /\ ldbuf'[j].tid = ldbuf[j].tid
                  /\ ldbuf'[j].flushed <=> ldbuf[j].flushed \/ flush
  <2>1. CASE granted /\ j = dc_id'
    <3>1. ldbuf'[j] = [valid |-> TRUE, flushed |-> FALSE, tid |-> lsu_ctrl_now.tid]
      BY <1>8, <2>1
    <3>2. /\ ldbuf'[j] \in [valid : BOOLEAN, flushed : BOOLEAN, tid : Slots]
          /\ ldbuf'[j].valid /\ ~ldbuf'[j].flushed /\ ldbuf'[j].tid = lsu_ctrl_now.tid
      BY <1>3, <3>1
    <3> QED
      BY <2>1, <3>2
  <2>2. CASE ~(granted /\ j = dc_id') /\ ((rvalid /\ j = dc_id) \/ ~ldbuf[j].valid)
    <3>1. ldbuf'[j] = FreeSlot
      BY <1>8, <2>2
    <3>2. /\ ldbuf'[j] \in [valid : BOOLEAN, flushed : BOOLEAN, tid : Slots]
          /\ ~ldbuf'[j].valid
      BY <1>2, <3>1 DEF FreeSlot
    <3> QED
      BY <2>2, <3>2
  <2>3. CASE ~(granted /\ j = dc_id') /\ ~((rvalid /\ j = dc_id) \/ ~ldbuf[j].valid)
    <3>1. ldbuf'[j] = [ldbuf[j] EXCEPT !.flushed = ldbuf[j].flushed \/ flush]
      BY <1>8, <2>3
    <3>2. ldbuf[j] \in [valid : BOOLEAN, flushed : BOOLEAN, tid : Slots]
      BY <1>2
    <3>3. PICK f \in BOOLEAN : f = (ldbuf[j].flushed \/ flush)
      OBVIOUS
    <3>4. ldbuf'[j] = [ldbuf[j] EXCEPT !.flushed = f]
      BY <3>1, <3>3, Zenon
    <3>5. /\ ldbuf'[j] \in [valid : BOOLEAN, flushed : BOOLEAN, tid : Slots]
          /\ ldbuf'[j].valid = ldbuf[j].valid /\ ldbuf'[j].tid = ldbuf[j].tid
          /\ ldbuf'[j].flushed = f
      BY <3>2, <3>4
    <3> QED
      BY <2>3, <3>3, <3>5
  <2> QED
    BY <2>1, <2>2, <2>3
<1>10. ldbuf' \in [LdBufSlots -> [valid : BOOLEAN, flushed : BOOLEAN, tid : Slots]]
  <2>1. DOMAIN ldbuf' = LdBufSlots /\ ldbuf' = [j \in LdBufSlots |-> ldbuf'[j]]
    BY <1>4 DEF LdBufNext
  <2> QED
    BY <1>9, <2>1
<1>11. ASSUME NEW j \in LdBufSlots
       PROVE  /\ ldbuf'[j].valid <=> j = dc_id' /\ (granted \/ (ldbuf[j].valid /\ ~rvalid))
              /\ ~granted /\ ldbuf'[j].valid => ~(granted /\ j = dc_id')
  BY <1>2, <1>5, <1>6, <1>9
<1> QED
  BY <1>9, <1>10, <1>11 DEF rvalid

\* At most one load is in the load buffer; it is live unless it is being killed.
LEMMA InLoadsIs ==
  ASSUME LdPortOK, LsuTypes, NEW i \in Slots
  PROVE  InLoads(i) <=>
           /\ ldbuf[dc_id].valid /\ ~ldbuf[dc_id].flushed /\ ldbuf[dc_id].tid = i
           /\ ld_state \notin {"WAIT_FLUSH"} \union Aborting
BY DEF InLoads, Live, LdPortOK, LsuTypes, Aborting

\* A load that is killed is answered at once.
LEMMA KillAnswers ==
  ASSUME NEW done \in BOOLEAN, ldbuf[dc_id].valid, LdPortOK, LsuTypes,
         ld_state \in {"WAIT_FLUSH"} \union Aborting
  PROVE  rvalid_now(done)
BY DEF rvalid_now, data_rvalid, kill_req, LdPortOK, LsuTypes, Aborting

\* The loads after a cycle without a flush: the one that is taken joins them,
\* the one that is answered leaves them for the pipeline register.
LEMMA LoadsMove ==
  ASSUME LsuInv, NEW hit \in BOOLEAN, NEW done \in BOOLEAN, NEW granted \in BOOLEAN,
         NEW not_ni \in BOOLEAN, NEW i \in Slots, NEW flush \in BOOLEAN, ~flush,
         LoadPart(hit, done, granted, not_ni, flush)
  PROVE  /\ LdPortOK'
         /\ load_out' \in [valid : BOOLEAN, tid : Slots, ex : BOOLEAN]
         /\ InLoads(i)' <=> \/ took(hit, granted, not_ni) /\ i = lsu_ctrl_now.tid
                            \/ InLoads(i) /\ ~rvalid_now(done)
         /\ load_out'.valid /\ load_out'.tid = i <=>
              \/ faults(done) /\ i = lsu_ctrl_now.tid
              \/ InLoads(i) /\ rvalid_now(done)
<1> DEFINE rvalid == rvalid_now(done)
           take   == took(hit, granted, not_ni)
<1>1. LsuTypes /\ LdPortOK /\ QueueOK
  BY DEF LsuInv
<1>2. /\ dc_id' = ldbuf_last_id' /\ dc_id' \in LdBufSlots
      /\ dc_state' \in {"IDLE", "READ", "MISS", "KILL_MISS"}
      /\ dc_state' = "READ" <=> granted
      /\ dc_state' = "MISS" <=> ~granted /\ dc_state \in {"READ", "MISS"} /\ ~rvalid
      /\ rvalid => dc_state \in {"READ", "MISS"}
      /\ ~granted => dc_id' = dc_id
  BY LoadPortMoves
<1>3. \A j \in LdBufSlots :
        /\ ldbuf'[j].valid <=> j = dc_id' /\ (granted \/ (ldbuf[j].valid /\ ~rvalid))
        /\ granted /\ j = dc_id' => ldbuf'[j].tid = lsu_ctrl_now.tid /\ ~ldbuf'[j].flushed
        /\ ~granted /\ ldbuf'[j].valid => /\ ldbuf'[j].tid = ldbuf[j].tid
                                          /\ ldbuf'[j].flushed <=> ldbuf[j].flushed
  <2>1. \A j \in LdBufSlots :
          /\ ldbuf'[j].valid <=> j = dc_id' /\ (granted \/ (ldbuf[j].valid /\ ~rvalid))
          /\ granted /\ j = dc_id' => ldbuf'[j].tid = lsu_ctrl_now.tid /\ ~ldbuf'[j].flushed
          /\ ~granted /\ ldbuf'[j].valid => /\ ldbuf'[j].tid = ldbuf[j].tid
                                            /\ ldbuf'[j].flushed <=> ldbuf[j].flushed \/ flush
    BY LoadBufferMoves
  <2> QED
    BY <2>1
<1>4. /\ ld_state' \in LdStates \ {"WAIT_FLUSH"}
      /\ granted => ld_state' \in {"SEND_TAG"} \union Aborting
      /\ ld_state' = "SEND_TAG" <=> take
      /\ ld_state' \in Aborting => granted
      /\ faults(done) => ld_valid_i
      /\ take => granted
  BY LoadStateMoves DEF took
<1>5. granted => dc_state = "IDLE" \/ rvalid
  BY GrantIs
<1>6. /\ dc_id \in LdBufSlots /\ dc_id = ldbuf_last_id
      /\ \A j \in LdBufSlots : ldbuf[j].valid <=> dc_state \in {"READ", "MISS"} /\ j = dc_id
  BY <1>1 DEF LdPortOK, LsuTypes
<1>7. rvalid \in BOOLEAN /\ take \in BOOLEAN
  BY DEF rvalid_now, data_rvalid, took
<1>8. ldbuf[dc_id].valid /\ ld_state \in {"WAIT_FLUSH"} \union Aborting => rvalid
  BY <1>1, KillAnswers
<1> HIDE DEF rvalid, take
<1>9. LdPortOK'
  <2>1. \A j \in LdBufSlots : ldbuf'[j].valid <=> dc_state' \in {"READ", "MISS"} /\ j = dc_id'
    BY <1>2, <1>3, <1>6
  <2>2. dc_state' = "READ" => ld_state' \in {"SEND_TAG", "WAIT_FLUSH"} \union Aborting
    BY <1>2, <1>4
  <2>3. ld_state' \in {"SEND_TAG"} \union Aborting => dc_state' = "READ"
    BY <1>2, <1>4
  <2> QED
    BY <1>2, <2>1, <2>2, <2>3 DEF LdPortOK
<1>10. InLoads(i)' <=> (take /\ i = lsu_ctrl_now.tid) \/ (InLoads(i) /\ ~rvalid)
  <2>1. InLoads(i)' <=> /\ ldbuf'[dc_id'].valid /\ ~ldbuf'[dc_id'].flushed
                        /\ ldbuf'[dc_id'].tid = i
                        /\ ld_state' \notin {"WAIT_FLUSH"} \union Aborting
    <3>1. \A j \in LdBufSlots : ldbuf'[j].valid => j = dc_id' /\ j = ldbuf_last_id'
      BY <1>2, <1>3
    <3> QED
      BY <1>2, <3>1 DEF InLoads, Live, Aborting
  <2>2. InLoads(i) <=> /\ ldbuf[dc_id].valid /\ ~ldbuf[dc_id].flushed /\ ldbuf[dc_id].tid = i
                       /\ ld_state \notin {"WAIT_FLUSH"} \union Aborting
    BY <1>1, InLoadsIs
  <2>3. CASE granted
    <3>1. ldbuf'[dc_id'].valid /\ ~ldbuf'[dc_id'].flushed /\ ldbuf'[dc_id'].tid = lsu_ctrl_now.tid
      BY <1>2, <1>3, <2>3
    <3>2. ld_state' \notin {"WAIT_FLUSH"} \union Aborting <=> take
      BY <1>4, <2>3 DEF LdStates, Aborting
    <3>3. ~(InLoads(i) /\ ~rvalid)
      BY <1>5, <1>6, <2>2, <2>3
    <3> QED
      BY <2>1, <3>1, <3>2, <3>3
  <2>4. CASE ~granted
    <3>1. ld_state' \notin {"WAIT_FLUSH"} \union Aborting /\ ~take
      BY <1>4, <2>4
    <3>2. /\ ldbuf'[dc_id].valid <=> ldbuf[dc_id].valid /\ ~rvalid
          /\ ldbuf'[dc_id].valid => /\ ldbuf'[dc_id].tid = ldbuf[dc_id].tid
                                    /\ ldbuf'[dc_id].flushed <=> ldbuf[dc_id].flushed
      BY <1>2, <1>3, <1>6, <2>4
    <3> QED
      BY <1>2, <1>8, <2>1, <2>2, <2>4, <3>1, <3>2
  <2> QED
    BY <2>3, <2>4
<1>11. /\ load_out' = IF LdFaults(ld_valid_i, rvalid, ex_q)
                      THEN [valid |-> TRUE, tid |-> lsu_ctrl_now.tid, ex |-> TRUE]
                      ELSE IF LdRetires(rvalid, dc_id, ex_q)
                      THEN [valid |-> TRUE, tid |-> ldbuf[dc_id].tid,
                            ex |-> ex_q /\ ld_state = "SEND_TAG"]
                      ELSE NoLoad
  BY DEF LoadPart, rvalid
<1>12. LdFaults(ld_valid_i, rvalid, ex_q) <=> faults(done)
  BY <1>4 DEF LdFaults, faults, rvalid
<1>13. /\ lsu_ctrl_now.tid \in Slots /\ ldbuf[dc_id].tid \in Slots /\ 0 \in Slots
       /\ (ex_q /\ ld_state = "SEND_TAG") \in BOOLEAN
  BY <1>1, <1>6, HeadIs, LsuAssumption DEF LsuTypes, LsuCtrl, Slots
<1>14. LdRetires(rvalid, dc_id, ex_q) <=>
         /\ rvalid /\ ldbuf[dc_id].valid /\ ~ldbuf[dc_id].flushed
         /\ ld_state \notin {"WAIT_FLUSH"} \union Aborting
  <2>1. rvalid => ldbuf[dc_id].valid
    BY <1>2, <1>6
  <2> QED
    BY <1>6, <2>1 DEF LdRetires, kill_req, Aborting
<1>15. /\ load_out' \in [valid : BOOLEAN, tid : Slots, ex : BOOLEAN]
       /\ load_out'.valid /\ load_out'.tid = i <=>
            (faults(done) /\ i = lsu_ctrl_now.tid) \/ (InLoads(i) /\ rvalid)
  <2>1. CASE faults(done)
    <3>1. load_out' = [valid |-> TRUE, tid |-> lsu_ctrl_now.tid, ex |-> TRUE] /\ ~rvalid
      BY <1>11, <1>12, <2>1 DEF faults, rvalid
    <3> QED
      BY <1>13, <2>1, <3>1
  <2>2. CASE ~faults(done) /\ LdRetires(rvalid, dc_id, ex_q)
    <3>1. PICK ex \in BOOLEAN : ex = (ex_q /\ ld_state = "SEND_TAG")
      BY <1>13
    <3>2. load_out' = [valid |-> TRUE, tid |-> ldbuf[dc_id].tid, ex |-> ex]
      BY <1>11, <1>12, <2>2, <3>1, Zenon
    <3>3. InLoads(i) <=> ldbuf[dc_id].tid = i
      BY <1>1, <1>14, <2>2, InLoadsIs
    <3>4. rvalid
      BY <1>14, <2>2
    <3> QED
      BY <1>13, <2>2, <3>2, <3>3, <3>4
  <2>3. CASE ~faults(done) /\ ~LdRetires(rvalid, dc_id, ex_q)
    <3>1. load_out' = NoLoad
      BY <1>11, <1>12, <2>3
    <3>2. ~(InLoads(i) /\ rvalid)
      BY <1>1, <1>14, <2>3, InLoadsIs
    <3> QED
      BY <1>13, <2>3, <3>1, <3>2 DEF NoLoad
  <2> QED
    BY <2>1, <2>2, <2>3
<1> QED
  BY <1>9, <1>10, <1>15 DEF rvalid, take

-----------------------------------------------------------------------------
(***************************************************************************)
(* The store unit and the FIFO.                                            *)
(***************************************************************************)
\* The store unit never sees an exception: only loads fault.
LEMMA NoStoreException ==
  ASSUME LsuTypes, StoreOK
  PROVE  /\ ~StException(ex_q)
         /\ \A flush \in BOOLEAN : st_valid(ex_q, flush) <=> st_state = "VALID_STORE" /\ ~flush
         /\ st_valid_o(ex_q) <=> st_state = "VALID_STORE"
BY DEF LsuTypes, StoreOK, StException, st_valid, st_valid_o

\* A unit that waits has left its request at the head of the queue.
LEMMA WaitingHead ==
  ASSUME LsuTypes, QueueOK, WaitsOK
  PROVE  /\ ld_state \in LdWaits => ld_valid_i
         /\ st_state \in StWaits => st_valid_i
         /\ ~(ld_valid_i /\ st_valid_i)
<1>1. byp_cnt > 0 => Queued(0)
  BY DEF Queued, LsuTypes
<1> QED
  BY <1>1, HeadIs DEF WaitsOK, ld_valid_i, st_valid_i

\* The store unit after a cycle without a flush: it holds the request it has
\* accepted, or waits with the request at the head of the queue.
LEMMA StoreMoves ==
  ASSUME LsuInv, NEW hit \in BOOLEAN, NEW done \in BOOLEAN, NEW ack \in BOOLEAN,
         NEW flush \in BOOLEAN, ~flush, StorePart(hit, done, ack, flush)
  PROVE  /\ st_state' \in StStates
         /\ st_state' = "VALID_STORE" <=> accepts(hit, flush)
         /\ st_state' \in StWaits => st_valid_i /\ ~accepts(hit, flush)
         /\ accepts(hit, flush) => st_valid_i /\ st_q' = lsu_ctrl_now
         /\ st_q' \in LsuCtrl(Slots)
<1> DEFINE room   == room_now(flush)
           accept == accepts(hit, flush)
<1>1. LsuTypes /\ QueueOK /\ WaitsOK /\ StoreOK /\ st_state \in StStates
  BY DEF LsuInv, LsuTypes
<1>2. /\ st_state' = StStateNext(st_valid_i, lsu_ctrl_now, hit, room, ex_q, flush)
      /\ st_q' = IF st_state' = "IDLE" THEN Zero ELSE lsu_ctrl_now
  BY DEF StorePart
<1>3. ~StException(ex_q) /\ (st_state \in StWaits => st_valid_i)
  BY <1>1, NoStoreException, WaitingHead
<1>4. accept <=> Looks(st_valid_i, lsu_ctrl_now) /\ hit /\ room
  BY DEF accepts, Accepts
<1>5. Looks(st_valid_i, lsu_ctrl_now) =>
        st_valid_i /\ st_state \in {"IDLE", "VALID_STORE"}
  BY DEF Looks
<1> HIDE DEF room, accept
<1>6. ASSUME Looks(st_valid_i, lsu_ctrl_now)
      PROVE  /\ st_state' \in StStates /\ st_valid_i
             /\ st_state' = "VALID_STORE" <=> accept
  <2>1. st_state' = IF ~room THEN "WAIT_STORE_READY" ELSE IF ~hit THEN "WAIT_TRANSLATION"
                    ELSE "VALID_STORE"
    BY <1>2, <1>3, <1>5, <1>6 DEF StStateNext
  <2> QED
    BY <1>4, <1>5, <1>6, <2>1 DEF StStates
<1>7. ASSUME ~Looks(st_valid_i, lsu_ctrl_now)
      PROVE  /\ st_state' \in StStates /\ st_state' # "VALID_STORE" /\ ~accept
             /\ st_state' \in StWaits => st_valid_i
  <2>1. st_state' = IF \/ st_state = "WAIT_STORE_READY" /\ ~(room /\ hit)
                       \/ st_state = "WAIT_TRANSLATION" /\ ~hit THEN st_state ELSE "IDLE"
    BY <1>1, <1>2, <1>3, <1>7 DEF StStateNext, StStates
  <2> QED
    BY <1>1, <1>3, <1>4, <1>7, <2>1 DEF StStates, StWaits
<1>8. st_q' \in LsuCtrl(Slots)
  <2>1. Zero \in LsuCtrl(Slots)
    BY LsuAssumption DEF Zero, LsuCtrl, Slots
  <2> QED
    BY <1>1, <1>2, <2>1, HeadIs
<1>9. accept => st_q' = lsu_ctrl_now
  <2>1. accept => st_state' = "VALID_STORE"
    BY <1>6, <1>7
  <2> QED
    BY <1>2, <2>1
<1>10. /\ st_state' \in StStates
       /\ st_state' = "VALID_STORE" <=> accept
       /\ st_state' \in StWaits => st_valid_i /\ ~accept
       /\ accept => st_valid_i
  BY <1>6, <1>7 DEF StWaits
<1> QED
  BY <1>8, <1>9, <1>10 DEF accept

\* The AMO buffer takes the AMO in its second cycle and keeps it.
LEMMA AmoBufferMoves ==
  ASSUME LsuInv, NEW hit \in BOOLEAN, NEW done \in BOOLEAN,
         NEW ack \in BOOLEAN, NEW flush \in BOOLEAN, ~flush,
         ControlPart(ack, flush), StorePart(hit, done, ack, flush)
  PROVE  /\ ~ack
         /\ amo_buffer' = IF st_state = "VALID_STORE" /\ IsAmo(st_q) THEN st_q.tid ELSE amo_buffer
<1>1. LsuTypes /\ StoreOK
  BY DEF LsuInv
<1>2. ~ack
  BY DEF ControlPart, flush_ex, commit_ack, amo_req, amo_valid_commit, IsAmo
<1>3. amo_buffer' = AmoBufferNext(ex_q, flush, amo_valid_commit, ack)
  BY DEF StorePart
<1>4. amo_buffer_valid(ex_q, flush) <=> st_state = "VALID_STORE" /\ IsAmo(st_q)
  BY <1>1, NoStoreException DEF amo_buffer_valid
<1>5. st_state = "VALID_STORE" /\ IsAmo(st_q) => amo_ready
  BY <1>1 DEF StoreOK, amo_ready
<1> QED
  BY <1>2, <1>3, <1>4, <1>5 DEF AmoBufferNext

\* The translation of a store never ends in an exception.
LEMMA ExceptionMoves ==
  ASSUME LsuInv, NEW hit \in BOOLEAN, NEW done \in BOOLEAN, NEW ack \in BOOLEAN,
         NEW flush \in BOOLEAN, ~flush, StorePart(hit, done, ack, flush)
  PROVE  ex_q' \in BOOLEAN /\ (ex_q' => st_state' = "IDLE")
<1>1. LsuTypes /\ QueueOK /\ WaitsOK /\ WindowOK
  BY DEF LsuInv
<1>2. /\ ex_q' \in BOOLEAN
      /\ ex_q' => lsu_ctrl_now.fu \in {"LOAD", "STORE"} /\ lsu_ctrl_now.bad
  BY DEF StorePart
<1>3. ASSUME ex_q' PROVE ~st_valid_i
  <2>1. lsu_ctrl_now.valid /\ Own(lsu_ctrl_now) /\ lsu_ctrl_now.bad
    BY <1>1, <1>2, <1>3, HeadIs
  <2>2. /\ lsu_ctrl_now = Request(lsu_ctrl_now.tid, scoreboard[lsu_ctrl_now.tid])
        /\ lsu_ctrl_now.tid \in Slots
    BY <1>1, <2>1, HeadIs DEF Own, LsuCtrl
  <2>3. scoreboard[lsu_ctrl_now.tid].bad
    BY <2>1, <2>2, RequestIs
  <2>4. scoreboard[lsu_ctrl_now.tid].kind \in LoadOps
    BY <1>1, <2>2, <2>3 DEF WindowOK, IsLoad
  <2>5. lsu_ctrl_now.fu = "LOAD"
    BY <2>2, <2>4, RequestIs
  <2> QED
    BY <2>5 DEF st_valid_i
<1>4. ~st_valid_i => st_state' = "IDLE"
  <2>1. ~st_valid_i => st_state' \notin StWaits /\ st_state' # "VALID_STORE" /\ st_state' \in StStates
    BY StoreMoves
  <2> QED
    BY <2>1 DEF StStates, StWaits
<1> QED
  BY <1>2, <1>3, <1>4

\* The FIFO after a cycle without a flush: the requests move up by the one that
\* is taken, and the one that arrived joins them.
LEMMA FifoMoves ==
  ASSUME LsuTypes, QueueOK, NEW pop_ld_i \in BOOLEAN, NEW pop_st_i \in BOOLEAN,
         NEW flush \in BOOLEAN, ~flush, BypassStep(fu_data, pop_ld_i, pop_st_i, flush),
         ~(pop_ld_i /\ pop_st_i), pop_ld_i \/ pop_st_i => Queued(0),
         NEW pop \in 0 .. 1, pop = IF pop_ld_i \/ pop_st_i THEN 1 ELSE 0
  PROVE  /\ byp_cnt' = byp_cnt + (IF fu_data.valid THEN 1 ELSE 0) - pop
         /\ byp_cnt' \in 0 .. 2 /\ byp_rd' \in 0 .. 1 /\ byp_wr' \in 0 .. 1
         /\ byp_wr' = (byp_rd' + byp_cnt') % 2
         /\ byp_mem' \in [0 .. 1 -> LsuCtrl(Slots)]
         /\ \A k \in 0 .. 1 : k < byp_cnt' =>
              byp_mem'[(byp_rd' + k) % 2] = NextRequest(k + pop)
<1>1. /\ byp_rd \in 0 .. 1 /\ byp_wr \in 0 .. 1 /\ byp_cnt \in 0 .. 2
      /\ byp_wr = (byp_rd + byp_cnt) % 2
      /\ fu_data.valid => byp_cnt < 2
      /\ fu_data.valid \in BOOLEAN
  BY DEF LsuTypes, QueueOK, LsuCtrl
<1>2. pop = 1 => byp_cnt > 0 \/ fu_data.valid
  BY <1>1 DEF Queued
<1>3. PICK push \in 0 .. 1 : push = IF fu_data.valid THEN 1 ELSE 0
  OBVIOUS
<1>4. /\ byp_rd' = (byp_rd + pop) % 2
      /\ byp_wr' = (byp_wr + push) % 2
      /\ byp_cnt' = (byp_cnt + push - pop) % 4
      /\ byp_mem' = StoredMem(fu_data, pop_ld_i, pop_st_i)
  <2>1. pop = (IF pop_ld_i THEN 1 ELSE 0) + (IF pop_st_i THEN 1 ELSE 0)
    OBVIOUS
  <2> QED
    BY <1>3, <2>1 DEF BypassStep
<1>5. byp_cnt' = byp_cnt + push - pop /\ byp_cnt' \in 0 .. 2
  <2>1. byp_cnt + push - pop \in 0 .. 2
    BY <1>1, <1>2, <1>3
  <2> QED
    BY <1>1, <1>4, <2>1
<1>6. byp_rd' \in 0 .. 1 /\ byp_wr' \in 0 .. 1 /\ byp_wr' = (byp_rd' + byp_cnt') % 2
  <2>1. byp_rd' \in 0 .. 1 /\ byp_wr' \in 0 .. 1
    BY <1>1, <1>4
  <2>2. (byp_wr + push) % 2 = (((byp_rd + pop) % 2) + (byp_cnt + push - pop)) % 2
    <3>1. CASE byp_rd = 0
      BY <1>1, <3>1
    <3>2. CASE byp_rd = 1
      BY <1>1, <3>2
    <3> QED
      BY <1>1, <3>1, <3>2
  <2> QED
    BY <1>4, <1>5, <2>1, <2>2
<1>7. ASSUME NEW i \in 0 .. 1
      PROVE  /\ byp_mem'[i] \in LsuCtrl(Slots)
             /\ ~(i = byp_rd /\ pop = 1) =>
                  byp_mem'[i] = IF push = 1 /\ i = byp_wr THEN fu_data ELSE byp_mem[i]
  <2> DEFINE old == IF fu_data.valid /\ i = byp_wr THEN fu_data ELSE byp_mem[i]
  <2>1. old \in LsuCtrl(Slots)
    BY DEF LsuTypes
  <2>2. byp_mem'[i] = IF i = byp_rd /\ (pop_ld_i \/ pop_st_i) THEN [old EXCEPT !.valid = FALSE]
                      ELSE old
    BY <1>4 DEF StoredMem
  <2> HIDE DEF old
  <2>3. [old EXCEPT !.valid = FALSE] \in LsuCtrl(Slots)
    BY <2>1 DEF LsuCtrl
  <2>4. old = IF push = 1 /\ i = byp_wr THEN fu_data ELSE byp_mem[i]
    BY <1>3 DEF old
  <2> QED
    BY <2>1, <2>2, <2>3, <2>4
<1>8. byp_mem' \in [0 .. 1 -> LsuCtrl(Slots)]
  <2>1. byp_mem' = [i \in 0 .. 1 |-> byp_mem'[i]]
    BY <1>4 DEF StoredMem
  <2> QED
    BY <1>7, <2>1
<1>9. ASSUME NEW k \in 0 .. 1, k < byp_cnt'
      PROVE  byp_mem'[(byp_rd' + k) % 2] = NextRequest(k + pop)
  <2>0. (byp_rd' + k) % 2 \in 0 .. 1
    <3>1. byp_rd' \in 0 .. 1
      BY <1>6
    <3>2. PICK r \in 0 .. 1 : r = byp_rd'
      BY <3>1
    <3>3. (r + k) % 2 \in 0 .. 1
      OBVIOUS
    <3> QED
      BY <3>2, <3>3
  <2>1. PICK i \in 0 .. 1 : i = (byp_rd' + k) % 2
    BY <2>0
  <2>2. NextRequest(k + pop) = IF k + pop < byp_cnt THEN byp_mem[(byp_rd + (k + pop)) % 2]
                               ELSE fu_data
    BY DEF NextRequest
  <2>3. i = (byp_rd + (k + pop)) % 2
    <3>1. (((byp_rd + pop) % 2) + k) % 2 = (byp_rd + (k + pop)) % 2
      BY <1>1
    <3> QED
      BY <1>4, <2>1, <3>1
  <2>4. ~(i = byp_rd /\ pop = 1)
    <3>1. ASSUME i = byp_rd, pop = 1 PROVE FALSE
      <4>1. k = 1
        BY <1>1, <2>3, <3>1
      <4>2. byp_cnt' = byp_cnt + push - 1 /\ byp_cnt' > 1
        BY <1>5, <1>9, <3>1, <4>1
      <4>3. push = 0 \/ byp_cnt < 2
        BY <1>1, <1>3
      <4> QED
        BY <1>1, <4>2, <4>3
    <3> QED
      BY <3>1
  <2>5. push = 1 /\ i = byp_wr <=> k + pop >= byp_cnt
    <3>1. k + pop < byp_cnt + push
      BY <1>1, <1>5, <1>9
    <3>2. push = 1 => byp_cnt < 2
      BY <1>1, <1>3
    <3>3. k + pop \in 0 .. 2 /\ k + pop < 2
      BY <1>1, <3>1, <3>2
    <3>4. CASE byp_rd = 0
      BY <1>1, <2>3, <3>1, <3>2, <3>3, <3>4
    <3>5. CASE byp_rd = 1
      BY <1>1, <2>3, <3>1, <3>2, <3>3, <3>5
    <3> QED
      BY <1>1, <3>4, <3>5
  <2>6. k + pop \in 0 .. 2
    OBVIOUS
  <2> QED
    BY <1>1, <1>7, <2>1, <2>2, <2>3, <2>4, <2>5, <2>6
<1> QED
  BY <1>3, <1>5, <1>6, <1>8, <1>9

-----------------------------------------------------------------------------
(***************************************************************************)
(* Requests and results in a cycle without a flush: the store unit accepts *)
(* the request at the head of the queue, or the load unit takes it or      *)
(* reports its exception, and the load in the load buffer is answered.     *)
(***************************************************************************)
Leaving(accept, take, fault) == IF accept \/ take \/ fault THEN 1 ELSE 0

UnitMove(accept, take, fault, answer) ==
  /\ accept => st_valid_i
  /\ take \/ fault => ld_valid_i
  /\ ~(take /\ fault)
  /\ st_state' = "VALID_STORE" <=> accept
  /\ accept => st_q' = lsu_ctrl_now
  /\ \A i \in Slots :
       /\ InLoads(i)' <=> \/ take /\ i = lsu_ctrl_now.tid
                          \/ InLoads(i) /\ ~answer
       /\ load_out'.valid /\ load_out'.tid = i <=>
            \/ fault /\ i = lsu_ctrl_now.tid
            \/ InLoads(i) /\ answer
  /\ byp_cnt' = byp_cnt + (IF fu_data.valid THEN 1 ELSE 0) - Leaving(accept, take, fault)
  /\ byp_cnt' \in 0 .. 2 /\ byp_rd' \in 0 .. 1 /\ byp_wr' \in 0 .. 1
  /\ byp_wr' = (byp_rd' + byp_cnt') % 2
  /\ byp_mem' \in [0 .. 1 -> LsuCtrl(Slots)]
  /\ \A k \in 0 .. 1 : k < byp_cnt' =>
       byp_mem'[(byp_rd' + k) % 2] = NextRequest(k + Leaving(accept, take, fault))

\* One cycle without a flush, for the load port and the store unit together.
LEMMA UnitsMove ==
  ASSUME LsuInv, NEW hit \in BOOLEAN, NEW done \in BOOLEAN, NEW granted \in BOOLEAN,
         NEW not_ni \in BOOLEAN, NEW ack \in BOOLEAN,
         NEW flush \in BOOLEAN, ~flush,
         FifoPart(hit, done, granted, not_ni, flush), StorePart(hit, done, ack, flush),
         LoadPart(hit, done, granted, not_ni, flush)
  PROVE  UnitMove(accepts(hit, flush), took(hit, granted, not_ni), faults(done), rvalid_now(done))
<1> DEFINE accept == accepts(hit, flush)
           take   == took(hit, granted, not_ni)
           fault  == faults(done)
           answer == rvalid_now(done)
           pop    == Leaving(accept, take, fault)
<1>1. LsuTypes /\ QueueOK /\ WaitsOK /\ StoreOK
  BY DEF LsuInv
<1>2. /\ st_state' = "VALID_STORE" <=> accept
      /\ accept => st_valid_i /\ st_q' = lsu_ctrl_now
  BY StoreMoves
<1>3. (take \/ fault => ld_valid_i) /\ ~(take /\ fault)
  BY LoadStateMoves
<1>4. ASSUME NEW i \in Slots
      PROVE  /\ InLoads(i)' <=> \/ take /\ i = lsu_ctrl_now.tid
                                \/ InLoads(i) /\ ~answer
             /\ load_out'.valid /\ load_out'.tid = i <=>
                  \/ fault /\ i = lsu_ctrl_now.tid
                  \/ InLoads(i) /\ answer
  BY LoadsMove
<1>5. pop \in 0 .. 1 /\ take \in BOOLEAN /\ fault \in BOOLEAN /\ accept \in BOOLEAN
  BY DEF Leaving, took, faults, accepts, Accepts
<1>6. BypassStep(fu_data, take \/ fault, accept, flush)
  <2>1. (take \/ fault) = pop_ld(granted, hit, stall_now(not_ni), ex_q, rvalid_now(done))
    BY DEF took, faults, pop_ld
  <2>2. accept = pop_st(st_valid_i, lsu_ctrl_now, hit, room_now(flush), ex_q)
    BY <1>1, <1>5, NoStoreException DEF accepts, pop_st, StException
  <2> HIDE DEF accept, take, fault
  <2> QED
    BY <2>1, <2>2, Zenon DEF FifoPart
<1>7. ~((take \/ fault) /\ accept)
  BY <1>1, <1>2, <1>3, WaitingHead
<1>8. take \/ fault \/ accept => Queued(0)
  BY <1>1, <1>2, <1>3, HeadIs DEF st_valid_i, ld_valid_i
<1>9. pop = IF take \/ fault \/ accept THEN 1 ELSE 0
  BY DEF Leaving
<1>10. /\ byp_cnt' = byp_cnt + (IF fu_data.valid THEN 1 ELSE 0) - pop
       /\ byp_cnt' \in 0 .. 2 /\ byp_rd' \in 0 .. 1 /\ byp_wr' \in 0 .. 1
       /\ byp_wr' = (byp_rd' + byp_cnt') % 2
       /\ byp_mem' \in [0 .. 1 -> LsuCtrl(Slots)]
       /\ \A k \in 0 .. 1 : k < byp_cnt' => byp_mem'[(byp_rd' + k) % 2] = NextRequest(k + pop)
  <2> HIDE DEF accept, take, fault, pop
  <2> DEFINE load_pop == take \/ fault
  <2>1. load_pop \in BOOLEAN /\ (load_pop <=> take \/ fault)
    BY <1>5
  <2>2. BypassStep(fu_data, load_pop, accept, flush)
    BY <1>6
  <2>3. pop = IF load_pop \/ accept THEN 1 ELSE 0
    BY <1>9
  <2>4. ~(load_pop /\ accept) /\ (load_pop \/ accept => Queued(0))
    BY <1>7, <1>8
  <2> HIDE DEF load_pop
  <2> QED
    BY <1>1, <1>5, <2>1, <2>2, <2>3, <2>4, FifoMoves
<1> QED
  BY <1>2, <1>3, <1>4, <1>10 DEF UnitMove

\* The instruction of a queued request is in no unit.
LEMMA QueuedIs ==
  ASSUME LsuInv, NEW k \in 0 .. 1, Queued(k)
  PROVE  /\ NextRequest(k).tid \in Slots
         /\ Own(NextRequest(k)) /\ Awaited(NextRequest(k).tid)
         /\ ~InStore(NextRequest(k).tid) /\ ~InLoads(NextRequest(k).tid)
         /\ ~InReport(NextRequest(k).tid)
<1>1. LsuTypes /\ QueueOK /\ UnitsOK
  BY DEF LsuInv
<1>2. NextRequest(k) \in LsuCtrl(Slots)
  <2>1. byp_rd \in 0 .. 1 /\ byp_mem \in [0 .. 1 -> LsuCtrl(Slots)] /\ fu_data \in LsuCtrl(Slots)
    BY <1>1 DEF LsuTypes
  <2>2. (byp_rd + k) % 2 \in 0 .. 1
    BY <2>1
  <2> QED
    BY <2>1, <2>2 DEF NextRequest
<1>3. NextRequest(k).tid \in Slots
  BY <1>2 DEF LsuCtrl
<1>4. Own(NextRequest(k))
  BY <1>1 DEF QueueOK
<1>5. PICK t \in Slots : t = NextRequest(k).tid
  BY <1>3
<1>6. ASSUME InStore(t) \/ InLoads(t) \/ InReport(t) PROVE FALSE
  <2>1. Age(t) < Age(t)
    BY <1>1, <1>5, <1>6 DEF UnitsOK
  <2> QED
    BY <1>1, <2>1, AgeType
<1> QED
  BY <1>3, <1>4, <1>5, <1>6 DEF Own

\* An instruction that waits and is not reported in this cycle stays as it is.
LEMMA SlotKept ==
  ASSUME LsuInv, NEW retires \in BOOLEAN, NEW issues \in BOOLEAN, BoardMove(retires, issues),
         NEW i \in Slots, Awaited(i), ~InStore(i), ~InReport(i)
  PROVE  /\ scoreboard'[i] = scoreboard[i] /\ Awaited(i)'
         /\ ~(retires /\ i = commit_pointer)
         /\ ~(issues /\ i = issue_pointer)
<1>1. /\ LsuTypes /\ WindowOK
      /\ scoreboard[i] \in Instr
  BY DEF LsuInv, LsuTypes
<1>2. scoreboard[i].at = "pending" /\ scoreboard[i].kind # "nop" /\ IsLsu(scoreboard[i])
  BY DEF Awaited, IsLsu, LoadOps, StoreOps
<1>3. ~(retires /\ i = commit_pointer)
  BY <1>2 DEF BoardMove, commit_instr
<1>4. ~(issues /\ i = issue_pointer)
  <2>1. issues => scoreboard[issue_pointer].at = "free"
    BY <1>1, IssueSlotFree DEF BoardMove
  <2> QED
    BY <1>2, <2>1
<1>5. SlotStays(i) /\ scoreboard'[i] \in Instr
  BY <1>3, <1>4 DEF BoardMove
<1>6. /\ scoreboard'[i].kind = scoreboard[i].kind /\ scoreboard'[i].word = scoreboard[i].word
      /\ scoreboard'[i].bad = scoreboard[i].bad /\ scoreboard'[i].at = scoreboard[i].at
  BY <1>2, <1>5 DEF SlotStays
<1>7. scoreboard'[i] = scoreboard[i]
  BY <1>1, <1>5, <1>6 DEF Instr
<1> QED
  BY <1>2, <1>3, <1>4, <1>7 DEF Awaited

\* The queue after a cycle: the requests that have not left, and the one that
\* is issued.
LEMMA QueueMoves ==
  ASSUME LsuInv, NEW retires \in BOOLEAN, NEW issues \in BOOLEAN, BoardMove(retires, issues),
         NEW accept \in BOOLEAN, NEW take \in BOOLEAN, NEW fault \in BOOLEAN,
         NEW answer \in BOOLEAN, UnitMove(accept, take, fault, answer),
         NEW pop \in 0 .. 1, pop = Leaving(accept, take, fault), NEW k \in 0 .. 1
  PROVE  /\ fu_data'.valid <=> issues /\ IsLsu(scoreboard'[issue_pointer])
         /\ fu_data'.valid => /\ byp_cnt' < 2
                              /\ fu_data' = Request(issue_pointer, scoreboard'[issue_pointer])
         /\ ~fu_data'.valid => fu_data' = Zero
         /\ k < byp_cnt' => /\ Queued(k + pop) /\ k + pop \in 0 .. 1
                            /\ NextRequest(k)' = NextRequest(k + pop)
         /\ k >= byp_cnt' => NextRequest(k)' = fu_data'
         /\ Queued(k) /\ k >= pop => k - pop < byp_cnt'
<1>1. LsuTypes /\ QueueOK /\ byp_cnt \in 0 .. 2
  BY DEF LsuInv, LsuTypes
<1>2. /\ byp_cnt' = byp_cnt + (IF fu_data.valid THEN 1 ELSE 0) - pop
      /\ byp_cnt' \in 0 .. 2
      /\ k < byp_cnt' => byp_mem'[(byp_rd' + k) % 2] = NextRequest(k + pop)
  BY DEF UnitMove
<1>3. /\ fu_data' = IF issues /\ IsLsu(scoreboard'[issue_pointer])
                    THEN Request(issue_pointer, scoreboard'[issue_pointer]) ELSE Zero
      /\ issues /\ IsLsu(scoreboard'[issue_pointer]) => byp_cnt = 0
  BY DEF BoardMove, lsu_ready
<1>4. /\ fu_data'.valid <=> issues /\ IsLsu(scoreboard'[issue_pointer])
      /\ ~fu_data'.valid => fu_data' = Zero
      /\ fu_data'.valid => fu_data' = Request(issue_pointer, scoreboard'[issue_pointer])
  BY <1>3, RequestIs DEF Zero
<1>5. fu_data'.valid => byp_cnt' < 2
  BY <1>1, <1>2, <1>3, <1>4
<1>6. NextRequest(k)' = IF k < byp_cnt' THEN byp_mem'[(byp_rd' + k) % 2] ELSE fu_data'
  BY DEF NextRequest
<1>7. fu_data.valid => byp_cnt < 2
  BY <1>1 DEF QueueOK
<1>8. k < byp_cnt' => Queued(k + pop) /\ k + pop \in 0 .. 1
  BY <1>1, <1>2, <1>7 DEF Queued
<1>9. Queued(k) /\ k >= pop => k - pop < byp_cnt'
  BY <1>1, <1>2 DEF Queued
<1>10. k < byp_cnt' => NextRequest(k)' = NextRequest(k + pop)
  BY <1>2, <1>6
<1>11. k >= byp_cnt' => NextRequest(k)' = fu_data'
  BY <1>2, <1>6
<1> QED
  BY <1>4, <1>5, <1>8, <1>9, <1>10, <1>11

\* The units after a cycle without a flush: what they hold then was waiting
\* before, and is not reported in this cycle.
LEMMA HeldMoves ==
  ASSUME LsuInv, NEW retires \in BOOLEAN, NEW issues \in BOOLEAN, BoardMove(retires, issues),
         NEW accept \in BOOLEAN, NEW take \in BOOLEAN, NEW fault \in BOOLEAN,
         NEW answer \in BOOLEAN, UnitMove(accept, take, fault, answer), NEW i \in Slots
  PROVE  /\ InStore(i)' <=> accept /\ i = lsu_ctrl_now.tid
         /\ InLoads(i)' <=> (take /\ i = lsu_ctrl_now.tid) \/ (InLoads(i) /\ ~answer)
         /\ InReport(i)' <=> (fault /\ i = lsu_ctrl_now.tid) \/ (InLoads(i) /\ answer)
         /\ InStore(i)' \/ InLoads(i)' \/ InReport(i)' =>
              Awaited(i) /\ ~InStore(i) /\ ~InReport(i)
         /\ InLoads(i) => ~InReport(i) /\ ~InStore(i)
<1>1. LsuTypes /\ QueueOK /\ UnitsOK
  BY DEF LsuInv
<1>2. accept \/ take \/ fault => lsu_ctrl_now.valid
  BY DEF UnitMove, st_valid_i, ld_valid_i
<1>3. lsu_ctrl_now.valid /\ i = lsu_ctrl_now.tid =>
        Awaited(i) /\ ~InStore(i) /\ ~InLoads(i) /\ ~InReport(i)
  <2>1. lsu_ctrl_now.valid => Queued(0) /\ lsu_ctrl_now = NextRequest(0)
    BY <1>1, HeadIs
  <2>2. 0 \in 0 .. 1
    OBVIOUS
  <2> QED
    BY <2>1, <2>2, QueuedIs
<1>4. InLoads(i) => Awaited(i) /\ ~InReport(i) /\ ~InStore(i)
  <2>1. InLoads(i) => Awaited(i) /\ IsLoad(i) /\ ~InReport(i)
    BY <1>1 DEF UnitsOK
  <2>2. InStore(i) => scoreboard[i].kind \notin LoadOps
    <3>1. InStore(i) => st_q = Request(i, scoreboard[i]) /\ st_q.fu = "STORE"
      BY <1>1 DEF UnitsOK, InStore, Own
    <3> QED
      BY <3>1, RequestIs
  <2> QED
    BY <2>1, <2>2 DEF IsLoad
<1>5. InStore(i)' <=> accept /\ i = lsu_ctrl_now.tid
  BY DEF UnitMove, InStore
<1>6. /\ InLoads(i)' <=> (take /\ i = lsu_ctrl_now.tid) \/ (InLoads(i) /\ ~answer)
      /\ load_out'.valid /\ load_out'.tid = i <=>
           (fault /\ i = lsu_ctrl_now.tid) \/ (InLoads(i) /\ answer)
  BY DEF UnitMove
<1>7. Awaited(i) /\ ~InStore(i) /\ ~InReport(i) => Occupied(i)'
  BY SlotKept DEF Awaited, Occupied
<1>8. InReport(i)' <=> (fault /\ i = lsu_ctrl_now.tid) \/ (InLoads(i) /\ answer)
  BY <1>2, <1>3, <1>4, <1>6, <1>7 DEF InReport
<1> QED
  BY <1>2, <1>3, <1>4, <1>5, <1>6, <1>8

\* The requests in the queue after a cycle without a flush: those that stay,
\* each still waiting, and the one that is issued.
LEMMA QueuedNext ==
  ASSUME LsuInv, NEW retires \in BOOLEAN, NEW issues \in BOOLEAN, BoardMove(retires, issues),
         NEW accept \in BOOLEAN, NEW take \in BOOLEAN, NEW fault \in BOOLEAN,
         NEW answer \in BOOLEAN, UnitMove(accept, take, fault, answer),
         NEW pop \in 0 .. 1, pop = Leaving(accept, take, fault), NEW k \in 0 .. 1, Queued(k)'
  PROVE  \/ /\ k < byp_cnt' /\ Queued(k + pop) /\ k + pop \in 0 .. 1
            /\ NextRequest(k)' = NextRequest(k + pop)
         \/ /\ k = byp_cnt' /\ issues /\ IsLsu(scoreboard'[issue_pointer])
            /\ NextRequest(k)' = Request(issue_pointer, scoreboard'[issue_pointer])
<1>1. /\ fu_data'.valid => issues /\ IsLsu(scoreboard'[issue_pointer])
      /\ fu_data'.valid => fu_data' = Request(issue_pointer, scoreboard'[issue_pointer])
      /\ k < byp_cnt' => /\ Queued(k + pop) /\ k + pop \in 0 .. 1
                         /\ NextRequest(k)' = NextRequest(k + pop)
      /\ k >= byp_cnt' => NextRequest(k)' = fu_data'
  BY QueueMoves
<1>2. byp_cnt' \in 0 .. 2
  BY DEF UnitMove
<1>3. k < byp_cnt' \/ (k = byp_cnt' /\ fu_data'.valid)
  BY Zenon DEF Queued
<1>4. k = byp_cnt' => k >= byp_cnt'
  BY <1>2
<1> QED
  BY <1>1, <1>3, <1>4

\* The request at place k of the queue after such a cycle: an instruction that
\* waits; what was older than it before stays older.
LEMMA QueuedAfter ==
  ASSUME LsuInv, NEW retires \in BOOLEAN, NEW issues \in BOOLEAN, BoardMove(retires, issues),
         NEW accept \in BOOLEAN, NEW take \in BOOLEAN, NEW fault \in BOOLEAN,
         NEW answer \in BOOLEAN, UnitMove(accept, take, fault, answer),
         NEW pop \in 0 .. 1, pop = Leaving(accept, take, fault), NEW k \in 0 .. 1, Queued(k)'
  PROVE  \E t \in Slots :
           /\ t = NextRequest(k)'.tid
           /\ Awaited(t)' /\ NextRequest(k)' = Request(t, scoreboard'[t])
           /\ k = byp_cnt' => issues /\ t = issue_pointer
           /\ k < byp_cnt' => /\ Queued(k + pop) /\ k + pop \in 0 .. 1
                              /\ t = NextRequest(k + pop).tid
                              /\ Awaited(t) /\ ~InStore(t) /\ ~InReport(t)
           /\ k < byp_cnt' \/ k = byp_cnt'
<1>0. LsuTypes /\ WindowOK /\ issue_pointer \in Slots /\ byp_cnt' \in 0 .. 2
  BY DEF LsuInv, LsuTypes, UnitMove
<1>1. CASE /\ k < byp_cnt' /\ Queued(k + pop) /\ k + pop \in 0 .. 1
           /\ NextRequest(k)' = NextRequest(k + pop)
  <2>1. /\ NextRequest(k + pop).tid \in Slots
        /\ Own(NextRequest(k + pop)) /\ Awaited(NextRequest(k + pop).tid)
        /\ ~InStore(NextRequest(k + pop).tid) /\ ~InReport(NextRequest(k + pop).tid)
    BY <1>1, QueuedIs
  <2>2. PICK t \in Slots : t = NextRequest(k + pop).tid
    BY <2>1
  <2>3. Awaited(t) /\ ~InStore(t) /\ ~InReport(t) /\ NextRequest(k + pop) = Request(t, scoreboard[t])
    BY <2>1, <2>2 DEF Own
  <2>4. scoreboard'[t] = scoreboard[t] /\ Awaited(t)'
    BY <2>3, SlotKept
  <2>5. k # byp_cnt'
    BY <1>0, <1>1
  <2>6. NextRequest(k)'.tid = t
    BY <1>1, <2>2
  <2>7. NextRequest(k)' = Request(t, scoreboard'[t])
    BY <1>1, <2>3, <2>4
  <2> QED
    BY <1>1, <2>2, <2>3, <2>4, <2>5, <2>6, <2>7
<1>2. CASE /\ k = byp_cnt' /\ issues /\ IsLsu(scoreboard'[issue_pointer])
           /\ NextRequest(k)' = Request(issue_pointer, scoreboard'[issue_pointer])
  <2>1. PICK t \in Slots : t = issue_pointer
    BY <1>0
  <2>2. scoreboard'[t].at = "pending" /\ IsLsu(scoreboard'[t])
    BY <1>2, <2>1 DEF BoardMove, Fresh
  <2>3. Awaited(t)'
    BY <2>2 DEF Awaited
  <2>4. NextRequest(k)'.tid = t
    BY <1>2, <2>1, RequestIs
  <2>5. ~(k < byp_cnt')
    BY <1>0, <1>2
  <2> QED
    BY <1>2, <2>1, <2>3, <2>4, <2>5
<1> QED
  BY <1>1, <1>2, QueuedNext

\* The queue stays in order and holds requests of instructions that wait.
LEMMA QueueStays ==
  ASSUME LsuInv, NEW retires \in BOOLEAN, NEW issues \in BOOLEAN, BoardMove(retires, issues),
         NEW accept \in BOOLEAN, NEW take \in BOOLEAN, NEW fault \in BOOLEAN,
         NEW answer \in BOOLEAN, UnitMove(accept, take, fault, answer)
  PROVE  QueueOK'
<1>0. LsuTypes /\ WindowOK /\ QueueOK
  BY DEF LsuInv
<1>1. PICK pop \in 0 .. 1 : pop = Leaving(accept, take, fault)
  BY DEF Leaving
<1>2. byp_wr' = (byp_rd' + byp_cnt') % 2 /\ byp_cnt' \in 0 .. 2
  BY DEF UnitMove
<1>3. 0 \in 0 .. 1 /\ 1 \in 0 .. 1
  OBVIOUS
<1>4. (fu_data'.valid => byp_cnt' < 2) /\ (~fu_data'.valid => fu_data' = Zero)
  BY <1>1, <1>3, QueueMoves
<1>5. ASSUME NEW k \in 0 .. 1, Queued(k)' PROVE Own(NextRequest(k))'
  <2>1. PICK t \in Slots : /\ t = NextRequest(k)'.tid
                           /\ Awaited(t)' /\ NextRequest(k)' = Request(t, scoreboard'[t])
    BY <1>1, <1>5, QueuedAfter
  <2>2. Awaited(NextRequest(k).tid)'
    BY <2>1 DEF Awaited
  <2> QED
    BY <2>1, <2>2 DEF Own
<1>6. ASSUME Queued(1)' PROVE Age(NextRequest(0).tid)' < Age(NextRequest(1).tid)'
  <2>1. 0 < byp_cnt' /\ Queued(0)'
    BY <1>2, <1>6 DEF Queued
  <2>2. PICK t0 \in Slots :
          /\ t0 = NextRequest(0)'.tid
          /\ 0 < byp_cnt' => /\ Queued(0 + pop) /\ 0 + pop \in 0 .. 1
                             /\ t0 = NextRequest(0 + pop).tid
                             /\ Awaited(t0) /\ ~InStore(t0) /\ ~InReport(t0)
    BY <1>1, <1>3, <2>1, QueuedAfter
  <2>3. PICK t1 \in Slots :
          /\ t1 = NextRequest(1)'.tid
          /\ 1 = byp_cnt' => issues /\ t1 = issue_pointer
          /\ 1 < byp_cnt' => /\ Queued(1 + pop) /\ 1 + pop \in 0 .. 1
                             /\ t1 = NextRequest(1 + pop).tid
                             /\ Awaited(t1) /\ ~InStore(t1) /\ ~InReport(t1)
          /\ 1 < byp_cnt' \/ 1 = byp_cnt'
    BY <1>1, <1>3, <1>6, QueuedAfter
  <2>4. ~(retires /\ t0 = commit_pointer) /\ Occupied(t0)
    BY <2>1, <2>2, SlotKept DEF Awaited, Occupied
  <2>5. /\ \A k \in Slots : ~(retires /\ k = commit_pointer) =>
               (Age(t0)' < Age(k)' <=> Age(t0) < Age(k))
        /\ \A p \in Slots : issues /\ p = issue_pointer => Age(t0)' < Age(p)'
    BY <1>0, <2>4, OrderKept
  <2>6. ASSUME 1 < byp_cnt' PROVE Age(t0)' < Age(t1)'
    <3>1. pop = 0
      BY <2>3, <2>6
    <3>2. t0 = NextRequest(0).tid /\ t1 = NextRequest(1).tid /\ Queued(1)
      BY <2>1, <2>2, <2>3, <2>6, <3>1
    <3>3. Age(t0) < Age(t1)
      BY <1>0, <3>2 DEF QueueOK
    <3>4. ~(retires /\ t1 = commit_pointer)
      BY <2>3, <2>6, SlotKept
    <3> QED
      BY <2>5, <3>3, <3>4
  <2>7. Age(t0)' < Age(t1)'
    BY <2>3, <2>5, <2>6
  <2>8. Age(NextRequest(0).tid)' = Age(t0)' /\ Age(NextRequest(1).tid)' = Age(t1)'
    BY <2>2, <2>3, Zenon DEF Age
  <2> QED
    BY <2>7, <2>8
<1> QED
  BY <1>2, <1>4, <1>5, <1>6 DEF QueueOK

\* What a unit holds stays older than everything in the queue.
LEMMA HeldOlder ==
  ASSUME LsuInv, NEW retires \in BOOLEAN, NEW issues \in BOOLEAN, BoardMove(retires, issues),
         NEW accept \in BOOLEAN, NEW take \in BOOLEAN, NEW fault \in BOOLEAN,
         NEW answer \in BOOLEAN, UnitMove(accept, take, fault, answer),
         NEW i \in Slots, InStore(i)' \/ InLoads(i)' \/ InReport(i)',
         NEW k \in 0 .. 1, Queued(k)'
  PROVE  Age(i)' < Age(NextRequest(k).tid)'
<1>0. LsuTypes /\ WindowOK /\ QueueOK /\ UnitsOK
  BY DEF LsuInv
<1>1. PICK pop \in 0 .. 1 : pop = Leaving(accept, take, fault)
  BY DEF Leaving
<1>2. PICK t \in Slots :
        /\ t = NextRequest(k)'.tid
        /\ k = byp_cnt' => issues /\ t = issue_pointer
        /\ k < byp_cnt' => /\ Queued(k + pop) /\ k + pop \in 0 .. 1
                           /\ t = NextRequest(k + pop).tid
                           /\ Awaited(t) /\ ~InStore(t) /\ ~InReport(t)
        /\ k < byp_cnt' \/ k = byp_cnt'
  BY <1>1, QueuedAfter
<1>3. /\ Awaited(i) /\ ~InStore(i) /\ ~InReport(i)
      /\ InLoads(i) \/ ((accept \/ take \/ fault) /\ i = lsu_ctrl_now.tid)
  BY HeldMoves
<1>4. ~(retires /\ i = commit_pointer) /\ Occupied(i)
  BY <1>3, SlotKept DEF Awaited, Occupied
<1>5. /\ \A j \in Slots : ~(retires /\ j = commit_pointer) =>
           (Age(i)' < Age(j)' <=> Age(i) < Age(j))
      /\ \A p \in Slots : issues /\ p = issue_pointer => Age(i)' < Age(p)'
  BY <1>0, <1>4, OrderKept
<1>6. ASSUME k < byp_cnt' PROVE Age(i)' < Age(t)'
  <2>1. Age(i) < Age(t)
    <3>1. CASE InLoads(i)
      BY <1>0, <1>2, <1>6, <3>1 DEF UnitsOK
    <3>2. CASE (accept \/ take \/ fault) /\ i = lsu_ctrl_now.tid
      <4>1. pop = 1
        BY <1>1, <3>2 DEF Leaving
      <4>2. k + pop = 1
        BY <1>2, <1>6, <4>1
      <4>3. Queued(1) /\ t = NextRequest(1).tid
        BY <1>2, <1>6, <4>2
      <4>4. i = NextRequest(0).tid
        BY <1>0, <3>2, HeadIs
      <4> QED
        BY <1>0, <4>3, <4>4 DEF QueueOK
    <3> QED
      BY <1>3, <3>1, <3>2
  <2>2. ~(retires /\ t = commit_pointer)
    BY <1>2, <1>6, SlotKept
  <2> QED
    BY <1>5, <2>1, <2>2
<1>7. Age(i)' < Age(t)'
  BY <1>2, <1>5, <1>6
<1>8. Age(NextRequest(k).tid)' = Age(t)'
  BY <1>2, Zenon DEF Age
<1> QED
  BY <1>7, <1>8

\* The units hold instructions that wait, each in one place.
LEMMA UnitsStay ==
  ASSUME LsuInv, NEW retires \in BOOLEAN, NEW issues \in BOOLEAN, BoardMove(retires, issues),
         NEW accept \in BOOLEAN, NEW take \in BOOLEAN, NEW fault \in BOOLEAN,
         NEW answer \in BOOLEAN, UnitMove(accept, take, fault, answer)
  PROVE  UnitsOK'
<1>0. LsuTypes /\ QueueOK /\ UnitsOK
  BY DEF LsuInv
<1>1. /\ accept => st_valid_i /\ st_q' = lsu_ctrl_now
      /\ st_state' = "VALID_STORE" <=> accept
      /\ take \/ fault => ld_valid_i
      /\ ~(take /\ fault)
  BY DEF UnitMove
<1>2. /\ lsu_ctrl_now = NextRequest(0)
      /\ lsu_ctrl_now.valid => Queued(0) /\ Own(lsu_ctrl_now) /\ lsu_ctrl_now.tid \in Slots
      /\ st_valid_i => lsu_ctrl_now.valid /\ lsu_ctrl_now.fu = "STORE"
      /\ ld_valid_i => lsu_ctrl_now.valid /\ lsu_ctrl_now.fu = "LOAD"
  BY <1>0, HeadIs, QueuedIs DEF st_valid_i, ld_valid_i
<1>3. lsu_ctrl_now.valid => /\ Awaited(lsu_ctrl_now.tid) /\ ~InStore(lsu_ctrl_now.tid)
                            /\ ~InLoads(lsu_ctrl_now.tid) /\ ~InReport(lsu_ctrl_now.tid)
  <2>1. 0 \in 0 .. 1
    OBVIOUS
  <2> QED
    BY <1>2, <2>1, QueuedIs
<1>4. ASSUME accept PROVE Own(st_q)' /\ st_q'.fu = "STORE"
  <2>1. PICK t \in Slots : t = lsu_ctrl_now.tid
    BY <1>1, <1>2, <1>4
  <2>2. /\ Awaited(t) /\ ~InStore(t) /\ ~InReport(t) /\ lsu_ctrl_now = Request(t, scoreboard[t])
    BY <1>1, <1>2, <1>3, <1>4, <2>1 DEF Own
  <2>3. scoreboard'[t] = scoreboard[t] /\ Awaited(t)'
    BY <2>2, SlotKept
  <2>4. st_q' = lsu_ctrl_now /\ lsu_ctrl_now.fu = "STORE"
    BY <1>1, <1>2, <1>4
  <2>5. st_q'.tid = t /\ st_q' = Request(t, scoreboard'[t])
    BY <2>1, <2>2, <2>3, <2>4
  <2>6. Awaited(st_q.tid)'
    BY <2>3, <2>5 DEF Awaited
  <2> QED
    BY <2>4, <2>5, <2>6 DEF Own
<1>5. ASSUME NEW i \in Slots
      PROVE  /\ InLoads(i)' \/ InReport(i)' => Awaited(i)' /\ IsLoad(i)'
             /\ ~(InLoads(i)' /\ InReport(i)')
  <2>1. /\ InLoads(i)' <=> (take /\ i = lsu_ctrl_now.tid) \/ (InLoads(i) /\ ~answer)
        /\ InReport(i)' <=> (fault /\ i = lsu_ctrl_now.tid) \/ (InLoads(i) /\ answer)
        /\ InLoads(i)' \/ InReport(i)' => Awaited(i) /\ ~InStore(i) /\ ~InReport(i)
    BY HeldMoves
  <2>2. ASSUME InLoads(i)' \/ InReport(i)' PROVE Awaited(i)' /\ IsLoad(i)'
    <3>1. scoreboard'[i] = scoreboard[i] /\ Awaited(i)'
      BY <2>1, <2>2, SlotKept
    <3>2. InLoads(i) => IsLoad(i)
      BY <1>0 DEF UnitsOK
    <3>3. (take \/ fault) /\ i = lsu_ctrl_now.tid => IsLoad(i)
      <4>1. (take \/ fault) /\ i = lsu_ctrl_now.tid =>
              lsu_ctrl_now = Request(i, scoreboard[i]) /\ lsu_ctrl_now.fu = "LOAD"
        BY <1>1, <1>2 DEF Own
      <4> QED
        BY <4>1, RequestIs DEF IsLoad
    <3>4. IsLoad(i)
      BY <2>1, <2>2, <3>2, <3>3
    <3> QED
      BY <3>1, <3>4 DEF IsLoad
  <2>3. ~(InLoads(i)' /\ InReport(i)')
    BY <1>1, <1>2, <1>3, <2>1
  <2> QED
    BY <2>2, <2>3
<1>6. ASSUME NEW i \in Slots, InStore(i)' \/ InLoads(i)' \/ InReport(i)',
             NEW k \in 0 .. 1, Queued(k)'
      PROVE  Age(i)' < Age(NextRequest(k).tid)'
  BY <1>6, HeldOlder
<1> QED
  BY <1>1, <1>4, <1>5, <1>6 DEF UnitsOK

\* Every instruction that waits stays in one of the places.
LEMMA NothingLost ==
  ASSUME LsuInv, NEW retires \in BOOLEAN, NEW issues \in BOOLEAN, BoardMove(retires, issues),
         NEW accept \in BOOLEAN, NEW take \in BOOLEAN, NEW fault \in BOOLEAN,
         NEW answer \in BOOLEAN, UnitMove(accept, take, fault, answer),
         NEW i \in Slots, Awaited(i)'
  PROVE  InStore(i)' \/ InLoads(i)' \/ InReport(i)' \/ InQueue(i)'
<1>0. LsuTypes /\ QueueOK /\ Complete /\ byp_cnt' \in 0 .. 2
  BY DEF LsuInv, UnitMove
<1>1. PICK pop \in 0 .. 1 : pop = Leaving(accept, take, fault)
  BY DEF Leaving
<1>2. ASSUME NEW k \in 0 .. 1, Queued(k)', NextRequest(k)'.tid = i PROVE InQueue(i)'
  BY <1>2 DEF InQueue
<1>3. ASSUME issues, i = issue_pointer PROVE InQueue(i)'
  <2>1. IsLsu(scoreboard'[issue_pointer])
    BY <1>3 DEF Awaited
  <2>2. 0 \in 0 .. 1
    OBVIOUS
  <2>3. fu_data'.valid /\ byp_cnt' < 2 /\ fu_data' = Request(issue_pointer, scoreboard'[issue_pointer])
    <3>1. fu_data' = Request(issue_pointer, scoreboard'[issue_pointer])
      BY <1>3, <2>1 DEF BoardMove
    <3>2. fu_data'.valid
      BY <3>1, RequestIs
    <3>3. byp_cnt' < 2
      BY <1>1, <2>2, <3>2, QueueMoves
    <3> QED
      BY <3>1, <3>2, <3>3
  <2>4. PICK k \in 0 .. 1 : k = byp_cnt'
    BY <1>0, <2>3
  <2>5. NextRequest(k)' = fu_data'
    <3>1. k >= byp_cnt'
      BY <2>4
    <3> QED
      BY <1>1, <3>1, QueueMoves
  <2>6. Queued(k)'
    BY <2>3, <2>4 DEF Queued
  <2>7. NextRequest(k)'.tid = i
    BY <1>3, <2>3, <2>5, RequestIs
  <2> QED
    BY <1>2, <2>6, <2>7
<1>4. ASSUME ~(issues /\ i = issue_pointer) PROVE Awaited(i) /\ ~InStore(i) /\ ~InReport(i)
  <2>1. scoreboard'[i] # Free
    BY FreeType DEF Awaited
  <2>2. SlotStays(i)
    BY <1>4, <2>1 DEF BoardMove
  <2>3. scoreboard'[i].at = "pending" /\ IsLsu(scoreboard'[i])
    BY DEF Awaited
  <2> QED
    BY <2>2, <2>3 DEF SlotStays, Awaited, IsLsu
<1>5. ASSUME Awaited(i), ~InStore(i), ~InReport(i), InLoads(i)
      PROVE  InLoads(i)' \/ InReport(i)'
  BY <1>5, HeldMoves
<1>6. ASSUME NEW k \in 0 .. 1, Queued(k), NextRequest(k).tid = i
      PROVE  InStore(i)' \/ InLoads(i)' \/ InReport(i)' \/ InQueue(i)'
  <2>1. CASE k >= pop
    <3>1. k - pop < byp_cnt'
      BY <1>1, <1>6, <2>1, QueueMoves
    <3>2. PICK j \in 0 .. 1 : j = k - pop
      BY <2>1
    <3>3. j < byp_cnt' /\ j + pop = k
      BY <3>1, <3>2
    <3>4. NextRequest(j)' = NextRequest(j + pop)
      BY <1>1, <3>3, QueueMoves
    <3>5. NextRequest(j)'.tid = i
      BY <1>6, <3>3, <3>4
    <3>6. Queued(j)'
      BY <3>3 DEF Queued
    <3> QED
      BY <1>2, <3>5, <3>6
  <2>2. CASE k < pop
    <3>1. pop = 1 /\ k = 0
      BY <2>2
    <3>2. accept \/ take \/ fault
      BY <1>1, <3>1 DEF Leaving
    <3>3. i = lsu_ctrl_now.tid
      BY <1>0, <1>6, <3>1, HeadIs
    <3> QED
      BY <3>2, <3>3, HeldMoves
  <2> QED
    BY <2>1, <2>2
<1>7. ASSUME ~(issues /\ i = issue_pointer)
      PROVE  InLoads(i) \/ \E k \in 0 .. 1 : Queued(k) /\ NextRequest(k).tid = i
  BY <1>0, <1>4, <1>7 DEF Complete, InQueue
<1> QED
  BY <1>3, <1>4, <1>5, <1>6, <1>7

\* A unit that waits keeps its request at the head of the FIFO.
LEMMA WaitsStay ==
  ASSUME LsuInv, NEW retires \in BOOLEAN, NEW issues \in BOOLEAN, BoardMove(retires, issues),
         NEW accept \in BOOLEAN, NEW take \in BOOLEAN, NEW fault \in BOOLEAN,
         NEW answer \in BOOLEAN, UnitMove(accept, take, fault, answer),
         ld_state' \in LdWaits => ld_valid_i /\ ~take /\ ~fault,
         st_state' \in StWaits => st_valid_i /\ ~accept
  PROVE  /\ WaitsOK'
         /\ ld_state' \in LdWaits => NextRequest(0)' = NextRequest(0)
<1>0. LsuTypes /\ QueueOK /\ WaitsOK
  BY DEF LsuInv
<1>1. PICK pop \in 0 .. 1 : pop = Leaving(accept, take, fault)
  BY DEF Leaving
<1>2. /\ accept => st_valid_i
      /\ take \/ fault => ld_valid_i
      /\ ~(ld_valid_i /\ st_valid_i)
  BY <1>0, WaitingHead DEF UnitMove
<1>3. /\ ld_valid_i => Queued(0) /\ NextRequest(0).fu = "LOAD"
      /\ st_valid_i => Queued(0) /\ NextRequest(0).fu = "STORE"
  BY <1>0, HeadIs DEF ld_valid_i, st_valid_i
<1>4. ASSUME (ld_valid_i /\ ~take /\ ~fault) \/ (st_valid_i /\ ~accept)
      PROVE  byp_cnt' > 0 /\ NextRequest(0)' = NextRequest(0)
  <2>1. pop = 0
    BY <1>1, <1>2, <1>4 DEF Leaving
  <2>2. Queued(0) /\ 0 \in 0 .. 1 /\ 0 >= pop
    BY <1>3, <1>4, <2>1
  <2>3. 0 - pop < byp_cnt'
    BY <1>1, <2>2, QueueMoves
  <2>4. byp_cnt' \in 0 .. 2
    BY DEF UnitMove
  <2>5. 0 < byp_cnt' /\ 0 + pop = 0
    BY <2>1, <2>3, <2>4
  <2>6. NextRequest(0)' = NextRequest(0 + pop)
    BY <1>1, <2>2, <2>5, QueueMoves
  <2> QED
    BY <2>4, <2>5, <2>6
<1>5. ld_state' \in LdWaits => byp_cnt' > 0 /\ NextRequest(0)'.fu = "LOAD"
  BY <1>3, <1>4
<1>6. st_state' \in StWaits => byp_cnt' > 0 /\ NextRequest(0)'.fu = "STORE"
  BY <1>3, <1>4
<1>7. WaitsOK'
  BY <1>5, <1>6 DEF WaitsOK
<1> QED
  BY <1>4, <1>7

-----------------------------------------------------------------------------
(***************************************************************************)
(* The store buffer.                                                       *)
(***************************************************************************)
\* slot lists the stores that are done, in program order, as the speculative
\* queue holds them.
Lists(slot) ==
  /\ slot \in [1 .. speculative_status_cnt -> DoneStores]
  /\ \A i \in DoneStores : \E k \in 1 .. speculative_status_cnt : slot[k] = i
  /\ \A j, k \in 1 .. speculative_status_cnt : j < k => Age(slot[j]) < Age(slot[k])
  /\ \A k \in 1 .. speculative_status_cnt :
       speculativeStores[k] = [word |-> scoreboard[slot[k]].word,
                               cbo |-> scoreboard[slot[k]].kind = "cbo"]

\* A store that commits is the oldest of the speculative queue.
LEMMA CommitsFirst ==
  ASSUME LsuTypes, SBTypeOK, NEW slot, Lists(slot), commit_pointer \in DoneStores
  PROVE  speculative_status_cnt > 0 /\ slot[1] = commit_pointer
<1>1. speculative_status_cnt \in Nat
  BY DEF SBTypeOK
<1>2. PICK k \in 1 .. speculative_status_cnt : slot[k] = commit_pointer
  BY DEF Lists
<1>3. 1 \in 1 .. speculative_status_cnt /\ slot[1] \in DoneStores
  BY <1>1, <1>2 DEF Lists
<1>4. slot[1] \in Slots /\ commit_pointer \in Slots
  BY <1>3 DEF DoneStores
<1>5. Age(slot[1]) \in 0 .. NR_SB_ENTRIES - 1 /\ Age(commit_pointer) = 0
  BY <1>4, AgeType
<1>6. 1 < k => Age(slot[1]) < Age(slot[k])
  BY <1>3 DEF Lists
<1> QED
  BY <1>1, <1>2, <1>5, <1>6

\* The store unit and the commit stage keep the assertions of the store buffer.
LEMMA ContractKept ==
  ASSUME LsuInv, ~SingleStep, NEW ack \in BOOLEAN, NEW flush \in BOOLEAN, flush <=> flush_ex(ack)
  PROVE  /\ InputContract(store_buffer_valid(ex_q, flush), commit_lsu, flush)
         /\ stored \in Store
<1>1. LsuTypes /\ SBTypeOK /\ StoreOK /\ SpeculativeStoresAreDone
  BY DEF LsuInv, SBInv
<1>2. flush => ~commit_lsu
  BY DEF flush_ex, commit_ack, commit_lsu
<1>3. speculative_status_cnt = DEPTH_SPEC => ~store_buffer_valid(ex_q, flush)
  <2>1. store_buffer_valid(ex_q, flush) => speculative_status_cnt < DEPTH_SPEC
    BY <1>1 DEF store_buffer_valid, st_valid, StoreOK
  <2>2. speculative_status_cnt \in 0 .. DEPTH_SPEC
    BY <1>1 DEF SBTypeOK
  <2> QED
    BY <2>1, <2>2, DepthAssumption
<1>4. speculative_status_cnt = 0 => ~commit_lsu
  <2>1. PICK slot : Lists(slot)
    BY <1>1 DEF SpeculativeStoresAreDone, Lists
  <2>2. commit_lsu => commit_pointer \in DoneStores
    BY <1>1 DEF commit_lsu, commit_instr, DoneStores, LsuTypes
  <2>3. commit_lsu => speculative_status_cnt > 0
    BY <1>1, <2>1, <2>2, CommitsFirst
  <2> QED
    BY <2>3
<1>5. commit_status_cnt = DEPTH_COMMIT => ~commit_lsu
  BY <1>1 DEF commit_lsu, commit_ready, SBTypeOK
<1>6. stored \in Store
  BY <1>1 DEF stored, Store, LsuTypes, LsuCtrl
<1> QED
  BY <1>2, <1>3, <1>4, <1>5, <1>6 DEF InputContract

\* The slot of the k-th store of a ring, before and after the oldest leaves.
LEMMA WrapMoves ==
  ASSUME NEW depth \in Nat \ {0}, NEW rd \in 0 .. depth - 1
  PROVE  \A k \in 1 .. depth :
           /\ Wrap(rd + (k + 0) - 1, depth) \in 0 .. depth - 1
           /\ Wrap(rd + (k + 1) - 1, depth) \in 0 .. depth - 1
           /\ Wrap(Wrap(rd + 1, depth) + k - 1, depth) = Wrap(rd + (k + 1) - 1, depth)
           /\ Wrap(rd + k - 1, depth) = Wrap(rd + (k + 0) - 1, depth)
BY DEF Wrap

\* A store of a ring is not in the slot behind its youngest store.
LEMMA WrapApart ==
  ASSUME NEW depth \in Nat \ {0}, NEW rd \in 0 .. depth - 1, NEW cnt \in 0 .. depth - 1,
         NEW j \in 1 .. cnt
  PROVE  Wrap(rd + j - 1, depth) # Wrap(rd + cnt, depth)
BY DEF Wrap

\* The stores of the speculative queue after a cycle without a flush.
LEMMA SpeculativeMoves ==
  ASSUME SBInv, NEW valid \in BOOLEAN, NEW st \in Store, NEW commit \in BOOLEAN,
         NEW flush \in BOOLEAN, ~flush,
         InputContract(valid, commit, flush), CoreIf(valid, st, commit, flush),
         NEW c \in 0 .. 1, c = 1 <=> commit
  PROVE  /\ valid => speculative_status_cnt' + c = speculative_status_cnt + 1
         /\ ~valid => speculative_status_cnt' + c = speculative_status_cnt
         /\ \A k \in 1 .. speculative_status_cnt' :
              /\ k + c <= speculative_status_cnt => speculativeStores'[k] = speculativeStores[k + c]
              /\ k + c > speculative_status_cnt =>
                   /\ valid /\ k + c = speculative_status_cnt + 1
                   /\ speculativeStores'[k] = st
<1>1. /\ speculative_queue' \in [0 .. DEPTH_SPEC - 1 -> Entry]
      /\ speculative_queue \in [0 .. DEPTH_SPEC - 1 -> Entry]
      /\ speculative_read_pointer' \in 0 .. DEPTH_SPEC - 1
      /\ speculative_read_pointer \in 0 .. DEPTH_SPEC - 1
      /\ speculative_status_cnt \in 0 .. DEPTH_SPEC
      /\ speculative_status_cnt' \in 0 .. DEPTH_SPEC
      /\ speculative_write_pointer =
           Wrap(speculative_read_pointer + speculative_status_cnt, DEPTH_SPEC)
  BY CoreIfInv DEF SBInv, SBTypeOK, RingsConsistent, RingOK, SpecSlots
<1>2. /\ \A k \in 1 .. speculative_status_cnt : speculativeStores[k] =
           speculative_queue[Wrap(speculative_read_pointer + k - 1, DEPTH_SPEC)].st
      /\ \A k \in 1 .. speculative_status_cnt' : speculativeStores'[k] =
           speculative_queue'[Wrap(speculative_read_pointer' + k - 1, DEPTH_SPEC)].st
  BY DEF speculativeStores, Contents
<1>3. \A i \in 0 .. DEPTH_SPEC - 1 :
        speculative_queue'[i].st =
          IF valid /\ i = Wrap(speculative_read_pointer + speculative_status_cnt, DEPTH_SPEC)
          THEN st ELSE speculative_queue[i].st
  BY <1>1 DEF CoreIf, SpecQueueNext, SpecSlots
<1>4. /\ speculative_read_pointer' =
           IF c = 1 THEN Wrap(speculative_read_pointer + 1, DEPTH_SPEC)
                    ELSE speculative_read_pointer
      /\ speculative_status_cnt' = speculative_status_cnt + (IF valid THEN 1 ELSE 0) - c
  BY DEF CoreIf, CountAfter
<1>5. /\ valid => speculative_status_cnt < DEPTH_SPEC
      /\ c = 1 => speculative_status_cnt > 0
  BY <1>1, DepthAssumption DEF InputContract
<1>6. ASSUME NEW k \in 1 .. speculative_status_cnt'
      PROVE  /\ k + c <= speculative_status_cnt => speculativeStores'[k] = speculativeStores[k + c]
             /\ k + c > speculative_status_cnt =>
                  /\ valid /\ k + c = speculative_status_cnt + 1
                  /\ speculativeStores'[k] = st
  <2>1. PICK i \in 0 .. DEPTH_SPEC - 1 :
          /\ i = Wrap(speculative_read_pointer' + k - 1, DEPTH_SPEC)
          /\ i = Wrap(speculative_read_pointer + (k + c) - 1, DEPTH_SPEC)
    <3>1. k \in 1 .. DEPTH_SPEC /\ DEPTH_SPEC \in Nat \ {0}
      BY <1>1, DepthAssumption
    <3>2. \A j \in 1 .. DEPTH_SPEC :
            /\ Wrap(speculative_read_pointer + (j + 0) - 1, DEPTH_SPEC) \in 0 .. DEPTH_SPEC - 1
            /\ Wrap(speculative_read_pointer + (j + 1) - 1, DEPTH_SPEC) \in 0 .. DEPTH_SPEC - 1
            /\ Wrap(Wrap(speculative_read_pointer + 1, DEPTH_SPEC) + j - 1, DEPTH_SPEC)
                 = Wrap(speculative_read_pointer + (j + 1) - 1, DEPTH_SPEC)
            /\ Wrap(speculative_read_pointer + j - 1, DEPTH_SPEC) = Wrap(speculative_read_pointer + (j + 0) - 1, DEPTH_SPEC)
      BY <1>1, <3>1, WrapMoves
    <3>3. CASE c = 1
      BY <1>4, <3>1, <3>2, <3>3, Zenon
    <3>4. CASE c = 0
      <4>1. speculative_read_pointer' = speculative_read_pointer
        BY <1>4, <3>4
      <4> QED
        BY <3>1, <3>2, <3>4, <4>1, Zenon
    <3> QED
      BY <3>3, <3>4
  <2>2. speculativeStores'[k] = speculative_queue'[i].st
    BY <1>2, <2>1
  <2>3. ASSUME k + c <= speculative_status_cnt
        PROVE  speculativeStores'[k] = speculativeStores[k + c]
    <3>1. PICK j \in 1 .. speculative_status_cnt : j = k + c
      BY <1>1, <2>3
    <3>2. speculativeStores[j] = speculative_queue[i].st
      BY <1>2, <2>1, <3>1
    <3>3. ~(valid /\ i = Wrap(speculative_read_pointer + speculative_status_cnt, DEPTH_SPEC))
      <4>1. ASSUME valid PROVE i # Wrap(speculative_read_pointer + speculative_status_cnt, DEPTH_SPEC)
        <5>1. speculative_status_cnt \in 0 .. DEPTH_SPEC - 1
          BY <1>1, <1>5, <4>1, DepthAssumption
        <5>2. Wrap(speculative_read_pointer + j - 1, DEPTH_SPEC)
                # Wrap(speculative_read_pointer + speculative_status_cnt, DEPTH_SPEC)
          BY <1>1, <5>1, DepthAssumption, WrapApart
        <5> QED
          BY <2>1, <3>1, <5>2
      <4> QED
        BY <4>1
    <3> QED
      BY <1>3, <2>2, <3>1, <3>2, <3>3
  <2>4. ASSUME k + c > speculative_status_cnt
        PROVE  /\ valid /\ k + c = speculative_status_cnt + 1
               /\ speculativeStores'[k] = st
    <3>1. valid /\ k + c = speculative_status_cnt + 1
      BY <1>1, <1>4, <2>4
    <3>2. i = Wrap(speculative_read_pointer + speculative_status_cnt, DEPTH_SPEC)
      <4>1. speculative_read_pointer + (k + c) - 1 = speculative_read_pointer + speculative_status_cnt
        BY <1>1, <3>1
      <4> QED
        BY <2>1, <4>1
    <3> QED
      BY <1>3, <2>2, <3>1, <3>2
  <2> QED
    BY <2>3, <2>4
<1>7. /\ valid => speculative_status_cnt' + c = speculative_status_cnt + 1
      /\ ~valid => speculative_status_cnt' + c = speculative_status_cnt
  BY <1>1, <1>4
<1> QED
  BY <1>6, <1>7

\* What a cycle does to the committed stores: it keeps some of those there were
\* and adds the one that commits.
CommitMove(commit) ==
  /\ \A k \in 1 .. commit_status_cnt' :
       \/ \E j \in 1 .. commit_status_cnt : committedStores'[k] = committedStores[j]
       \/ commit /\ committedStores'[k] = speculativeStores[1]
  /\ commit_status_cnt = 0 /\ ~commit => commit_status_cnt' = 0

\* The stores of the committed queue after a cycle: those it held, and the one
\* that commits.
LEMMA CommittedMoves ==
  ASSUME SBInv, NEW valid \in BOOLEAN, NEW commit \in BOOLEAN, NEW flush \in BOOLEAN,
         NEW stall \in BOOLEAN, NEW gnt \in BOOLEAN, NEW rvalid \in BOOLEAN,
         InputContract(valid, commit, flush), StoreIf(commit, stall, gnt, rvalid)
  PROVE  /\ \A k \in 1 .. commit_status_cnt' :
              \/ \E j \in 1 .. commit_status_cnt : committedStores'[k] = committedStores[j]
              \/ commit /\ committedStores'[k] = speculativeStores[1]
         /\ commit_status_cnt = 0 /\ ~commit => commit_status_cnt' = 0
<1>1. /\ commit_queue \in [0 .. DEPTH_COMMIT - 1 -> Entry]
      /\ commit_read_pointer' \in 0 .. DEPTH_COMMIT - 1
      /\ commit_read_pointer \in 0 .. DEPTH_COMMIT - 1
      /\ commit_status_cnt \in 0 .. DEPTH_COMMIT
      /\ commit_status_cnt' \in 0 .. DEPTH_COMMIT
      /\ commit_write_pointer = Wrap(commit_read_pointer + commit_status_cnt, DEPTH_COMMIT)
      /\ speculative_read_pointer \in 0 .. DEPTH_SPEC - 1
      /\ speculative_status_cnt \in 0 .. DEPTH_SPEC
  BY StoreIfInv DEF SBInv, SBTypeOK, RingsConsistent, RingOK, CommitSlots, SpecSlots
<1>2. PICK l \in 0 .. 1 : l = IF Leaves(stall, gnt, rvalid) THEN 1 ELSE 0
  OBVIOUS
<1>3. l = 1 => commit_status_cnt > 0
  BY <1>2, LeavesNonEmpty
<1>4. /\ commit_read_pointer' = IF l = 1 THEN Wrap(commit_read_pointer + 1, DEPTH_COMMIT)
                                ELSE commit_read_pointer
      /\ commit_status_cnt' = commit_status_cnt + (IF commit THEN 1 ELSE 0) - l
  BY <1>2 DEF StoreIf
<1>5. \A i \in 0 .. DEPTH_COMMIT - 1 :
        commit_queue'[i].st =
          IF commit /\ i = Wrap(commit_read_pointer + commit_status_cnt, DEPTH_COMMIT)
          THEN speculative_queue[speculative_read_pointer].st ELSE commit_queue[i].st
  BY <1>1 DEF StoreIf, CommitQueueNext, MovedEntry, CommitSlots
<1>6. /\ \A k \in 1 .. commit_status_cnt : committedStores[k] =
           commit_queue[Wrap(commit_read_pointer + k - 1, DEPTH_COMMIT)].st
      /\ \A k \in 1 .. commit_status_cnt' : committedStores'[k] =
           commit_queue'[Wrap(commit_read_pointer' + k - 1, DEPTH_COMMIT)].st
  BY DEF committedStores, Contents
<1>7. commit => speculativeStores[1] = speculative_queue[speculative_read_pointer].st
  <2>1. commit => 1 \in 1 .. speculative_status_cnt
    BY <1>1 DEF InputContract
  <2>2. commit => speculativeStores[1] =
                    speculative_queue[Wrap(speculative_read_pointer + 1 - 1, DEPTH_SPEC)].st
    BY <2>1 DEF speculativeStores, Contents
  <2>3. Wrap(speculative_read_pointer + 1 - 1, DEPTH_SPEC) = speculative_read_pointer
    BY <1>1, DepthAssumption DEF Wrap
  <2> QED
    BY <2>2, <2>3
<1>8. ASSUME NEW k \in 1 .. commit_status_cnt'
      PROVE  \/ \E j \in 1 .. commit_status_cnt : committedStores'[k] = committedStores[j]
             \/ commit /\ committedStores'[k] = speculativeStores[1]
  <2>1. PICK i \in 0 .. DEPTH_COMMIT - 1 :
          /\ i = Wrap(commit_read_pointer' + k - 1, DEPTH_COMMIT)
          /\ i = Wrap(commit_read_pointer + (k + l) - 1, DEPTH_COMMIT)
    <3>1. k \in 1 .. DEPTH_COMMIT /\ DEPTH_COMMIT \in Nat \ {0}
      BY <1>1, DepthAssumption
    <3>2. \A j \in 1 .. DEPTH_COMMIT :
            /\ Wrap(commit_read_pointer + (j + 0) - 1, DEPTH_COMMIT) \in 0 .. DEPTH_COMMIT - 1
            /\ Wrap(commit_read_pointer + (j + 1) - 1, DEPTH_COMMIT) \in 0 .. DEPTH_COMMIT - 1
            /\ Wrap(Wrap(commit_read_pointer + 1, DEPTH_COMMIT) + j - 1, DEPTH_COMMIT)
                 = Wrap(commit_read_pointer + (j + 1) - 1, DEPTH_COMMIT)
            /\ Wrap(commit_read_pointer + j - 1, DEPTH_COMMIT) = Wrap(commit_read_pointer + (j + 0) - 1, DEPTH_COMMIT)
      BY <1>1, <3>1, WrapMoves
    <3>3. CASE l = 1
      BY <1>4, <3>1, <3>2, <3>3, Zenon
    <3>4. CASE l = 0
      <4>1. commit_read_pointer' = commit_read_pointer
        BY <1>4, <3>4
      <4> QED
        BY <3>1, <3>2, <3>4, <4>1, Zenon
    <3> QED
      BY <3>3, <3>4
  <2>2. committedStores'[k] = commit_queue'[i].st
    BY <1>6, <2>1
  <2>3. CASE commit /\ i = Wrap(commit_read_pointer + commit_status_cnt, DEPTH_COMMIT)
    BY <1>5, <1>7, <2>2, <2>3
  <2>4. CASE ~(commit /\ i = Wrap(commit_read_pointer + commit_status_cnt, DEPTH_COMMIT))
    <3>1. k + l <= commit_status_cnt
      <4>1. k + l > commit_status_cnt => commit /\ k + l = commit_status_cnt + 1
        BY <1>1, <1>4
      <4>2. k + l = commit_status_cnt + 1 =>
              commit_read_pointer + (k + l) - 1 = commit_read_pointer + commit_status_cnt
        BY <1>1
      <4>3. ~(k + l > commit_status_cnt)
        BY <2>1, <2>4, <4>1, <4>2
      <4> QED
        BY <1>1, <4>3
    <3>2. PICK j \in 1 .. commit_status_cnt : j = k + l
      BY <1>1, <3>1
    <3>3. committedStores[j] = commit_queue[i].st
      BY <1>6, <2>1, <3>2
    <3>4. commit_queue'[i].st = commit_queue[i].st
      BY <1>5, <2>4
    <3>5. committedStores'[k] = committedStores[j]
      BY <2>2, <3>3, <3>4
    <3> QED
      BY <3>5
  <2> QED
    BY <2>3, <2>4
<1>9. commit_status_cnt = 0 /\ ~commit => commit_status_cnt' = 0
  BY <1>3, <1>4
<1> QED
  BY <1>8, <1>9

\* The instruction in the store unit.
LEMMA InStoreIs ==
  ASSUME LsuTypes, UnitsOK, st_state = "VALID_STORE"
  PROVE  /\ st_q.tid \in Slots /\ Awaited(st_q.tid) /\ scoreboard[st_q.tid].at = "pending"
         /\ scoreboard[st_q.tid].kind = st_q.op /\ scoreboard[st_q.tid].word = st_q.word
         /\ IsStore(st_q.tid) <=> ~IsAmo(st_q)
         /\ scoreboard[st_q.tid].kind \notin LoadOps
<1>1. st_q.tid \in Slots
  BY DEF LsuTypes, LsuCtrl
<1>2. PICK t \in Slots : t = st_q.tid
  BY <1>1
<1>3. Awaited(t) /\ st_q = Request(t, scoreboard[t]) /\ st_q.fu = "STORE"
  BY <1>2 DEF UnitsOK, Own
<1>4. scoreboard[t].kind = st_q.op /\ scoreboard[t].word = st_q.word /\ scoreboard[t].kind \notin LoadOps
  BY <1>3, RequestIs
<1>5. scoreboard[t].kind \in StoreOps /\ scoreboard[t].at = "pending"
  BY <1>3, <1>4 DEF Awaited, IsLsu
<1> QED
  BY <1>2, <1>3, <1>4, <1>5 DEF IsStore, IsAmo, StoreOps

\* The stores that are done after a cycle without a flush: the one that commits
\* leaves them, the one in its second cycle joins them.
LEMMA DoneMoves ==
  ASSUME LsuInv, NEW retires \in BOOLEAN, NEW issues \in BOOLEAN, BoardMove(retires, issues),
         NEW commit \in BOOLEAN, commit <=> retires /\ IsStore(commit_pointer),
         NEW put \in BOOLEAN, put <=> st_state = "VALID_STORE" /\ ~IsAmo(st_q),
         NEW i \in Slots
  PROVE  /\ i \in DoneStores' <=> \/ i \in DoneStores /\ ~(commit /\ i = commit_pointer)
                                  \/ put /\ i = st_q.tid
         /\ i \in DoneStores' => /\ ~(issues /\ i = issue_pointer)
                                 /\ ~(retires /\ i = commit_pointer)
                                 /\ scoreboard'[i].kind = scoreboard[i].kind
                                 /\ scoreboard'[i].word = scoreboard[i].word
         /\ i \in DoneStores => Occupied(i) /\ scoreboard[i].at = "done"
         /\ put => scoreboard[st_q.tid].at = "pending" /\ IsStore(st_q.tid) /\ st_q.tid \in Slots
<1>1. LsuTypes /\ WindowOK /\ UnitsOK
  BY DEF LsuInv
<1>2. put => scoreboard[st_q.tid].at = "pending" /\ IsStore(st_q.tid) /\ st_q.tid \in Slots
  BY <1>1, InStoreIs
<1>3. i \in DoneStores <=> IsStore(i) /\ scoreboard[i].at = "done"
  BY DEF DoneStores, IsStore
<1>4. i \in DoneStores' <=> scoreboard'[i].kind \in {"store", "cbo"} /\ scoreboard'[i].at = "done"
  BY DEF DoneStores
<1>5. ASSUME issues, i = issue_pointer
      PROVE  /\ i \in DoneStores' <=> \/ i \in DoneStores /\ ~(commit /\ i = commit_pointer)
                                      \/ put /\ i = st_q.tid
             /\ i \in DoneStores' => /\ ~(issues /\ i = issue_pointer)
                                     /\ ~(retires /\ i = commit_pointer)
                                     /\ scoreboard'[i].kind = scoreboard[i].kind
                                     /\ scoreboard'[i].word = scoreboard[i].word
  <2>1. scoreboard[i].at = "free"
    BY <1>1, <1>5, IssueSlotFree DEF BoardMove
  <2>2. ~(scoreboard'[i].kind \in {"store", "cbo"} /\ scoreboard'[i].at = "done")
    BY <1>5 DEF BoardMove, Fresh, IsLsu, StoreOps
  <2>3. ~(put /\ i = st_q.tid)
    BY <1>2, <2>1
  <2>4. i \notin DoneStores /\ i \notin DoneStores'
    BY <1>3, <1>4, <2>1, <2>2
  <2> QED
    BY <2>3, <2>4
<1>6. ASSUME ~(issues /\ i = issue_pointer), retires, i = commit_pointer
      PROVE  /\ i \in DoneStores' <=> \/ i \in DoneStores /\ ~(commit /\ i = commit_pointer)
                                      \/ put /\ i = st_q.tid
             /\ i \in DoneStores' => /\ ~(issues /\ i = issue_pointer)
                                     /\ ~(retires /\ i = commit_pointer)
                                     /\ scoreboard'[i].kind = scoreboard[i].kind
                                     /\ scoreboard'[i].word = scoreboard[i].word
  <2>1. scoreboard'[i] = Free
    BY <1>6 DEF BoardMove
  <2>2. scoreboard[i].at = "done"
    BY <1>6 DEF BoardMove, commit_instr
  <2>3. ~(put /\ i = st_q.tid)
    BY <1>2, <2>2
  <2>4. i \notin DoneStores'
    BY <1>4, <2>1, FreeType
  <2>5. i \in DoneStores => commit /\ i = commit_pointer
    BY <1>3, <1>6
  <2> QED
    BY <2>3, <2>4, <2>5
<1>7. ASSUME ~(issues /\ i = issue_pointer), ~(retires /\ i = commit_pointer)
      PROVE  /\ i \in DoneStores' <=> \/ i \in DoneStores /\ ~(commit /\ i = commit_pointer)
                                      \/ put /\ i = st_q.tid
             /\ i \in DoneStores' => /\ ~(issues /\ i = issue_pointer)
                                     /\ ~(retires /\ i = commit_pointer)
                                     /\ scoreboard'[i].kind = scoreboard[i].kind
                                     /\ scoreboard'[i].word = scoreboard[i].word
  <2>1. SlotStays(i)
    BY <1>7 DEF BoardMove
  <2>2. InStore(i) <=> st_state = "VALID_STORE" /\ i = st_q.tid
    BY DEF InStore
  <2>3. InReport(i) => IsLoad(i)
    BY <1>1 DEF UnitsOK
  <2>4. InStore(i) => (IsStore(i) <=> ~IsAmo(st_q)) /\ ~IsLoad(i) /\ scoreboard[i].at = "pending"
    BY <1>1, <2>2, InStoreIs DEF IsLoad
  <2>5. IsStore(i) => ~IsLoad(i) /\ scoreboard[i].kind # "nop"
    BY DEF IsStore, IsLoad, LoadOps
  <2>6. /\ scoreboard'[i].kind = scoreboard[i].kind
        /\ scoreboard'[i].word = scoreboard[i].word
    BY <2>1 DEF SlotStays
  <2>7. IsStore(i) => (scoreboard'[i].at = "done" <=> scoreboard[i].at = "done" \/ InStore(i))
    BY <2>1, <2>3, <2>5 DEF SlotStays
  <2>8. scoreboard'[i].kind \in {"store", "cbo"} <=> IsStore(i)
    BY <2>6 DEF IsStore
  <2>9. i \in DoneStores' <=> IsStore(i) /\ (scoreboard[i].at = "done" \/ InStore(i))
    BY <1>4, <2>7, <2>8
  <2>10. put /\ i = st_q.tid <=> InStore(i) /\ IsStore(i)
    BY <2>2, <2>4
  <2>11. ~(commit /\ i = commit_pointer)
    BY <1>7
  <2>12. i \in DoneStores' <=> \/ i \in DoneStores /\ ~(commit /\ i = commit_pointer)
                               \/ put /\ i = st_q.tid
    BY <1>3, <2>9, <2>10, <2>11
  <2> QED
    BY <1>7, <2>6, <2>12
<1>8. i \in DoneStores => Occupied(i) /\ scoreboard[i].at = "done"
  BY <1>3 DEF Occupied
<1>9. \/ issues /\ i = issue_pointer
      \/ ~(issues /\ i = issue_pointer) /\ retires /\ i = commit_pointer
      \/ ~(issues /\ i = issue_pointer) /\ ~(retires /\ i = commit_pointer)
  OBVIOUS
<1>10. /\ i \in DoneStores' <=> \/ i \in DoneStores /\ ~(commit /\ i = commit_pointer)
                                \/ put /\ i = st_q.tid
       /\ i \in DoneStores' => /\ ~(issues /\ i = issue_pointer)
                               /\ ~(retires /\ i = commit_pointer)
                               /\ scoreboard'[i].kind = scoreboard[i].kind
                               /\ scoreboard'[i].word = scoreboard[i].word
  BY <1>5, <1>6, <1>7, <1>9
<1> QED
  BY <1>2, <1>8, <1>10

\* The list of the speculative stores follows: what commits was its first, what
\* is put becomes its last.
LEMMA ListsMove ==
  ASSUME LsuInv, NEW retires \in BOOLEAN, NEW issues \in BOOLEAN, BoardMove(retires, issues),
         NEW commit \in BOOLEAN, commit <=> retires /\ IsStore(commit_pointer),
         NEW put \in BOOLEAN, put <=> st_state = "VALID_STORE" /\ ~IsAmo(st_q),
         NEW flush \in BOOLEAN, ~flush,
         InputContract(put, commit, flush), stored \in Store,
         CoreIf(put, stored, commit, flush)
  PROVE  SpeculativeStoresAreDone'
<1>1. LsuTypes /\ WindowOK /\ UnitsOK /\ DoneOK /\ SBInv /\ SBTypeOK
  BY DEF LsuInv, SBInv
<1>2. PICK slot : Lists(slot)
  BY DEF LsuInv, SpeculativeStoresAreDone, Lists
<1>3. PICK c \in 0 .. 1 : c = 1 <=> commit
  OBVIOUS
<1>4. PICK cnt \in Nat : cnt = speculative_status_cnt
  BY <1>1 DEF SBTypeOK
<1>5. PICK s \in Slots : s = st_q.tid
  BY <1>1 DEF LsuTypes, LsuCtrl
<1>6. commit => cnt > 0
  BY <1>4 DEF InputContract
<1>7. PICK n \in Nat : /\ n = speculative_status_cnt'
                       /\ put => n + c = cnt + 1
                       /\ ~put => n + c = cnt
  <2>1. /\ put => speculative_status_cnt' + c = speculative_status_cnt + 1
        /\ ~put => speculative_status_cnt' + c = speculative_status_cnt
    BY <1>1, <1>3, SpeculativeMoves
  <2>2. speculative_status_cnt' \in Nat
    BY <1>1, CoreIfInv DEF SBTypeOK
  <2> QED
    BY <1>4, <2>1, <2>2
<1>8. \A k \in 1 .. n :
        /\ k + c <= cnt => speculativeStores'[k] = speculativeStores[k + c]
        /\ k + c > cnt => put /\ k + c = cnt + 1 /\ speculativeStores'[k] = stored
  <2>1. \A k \in 1 .. speculative_status_cnt' :
          /\ k + c <= speculative_status_cnt => speculativeStores'[k] = speculativeStores[k + c]
          /\ k + c > speculative_status_cnt =>
               /\ put /\ k + c = speculative_status_cnt + 1
               /\ speculativeStores'[k] = stored
    BY <1>1, <1>3, SpeculativeMoves
  <2> QED
    BY <1>4, <1>7, <2>1, Zenon
<1>9. PICK t : t = [k \in 1 .. n |-> IF k + c <= cnt THEN slot[k + c] ELSE s]
  OBVIOUS
<1>10. \A k \in 1 .. n : IF k + c <= cnt THEN k + c \in 1 .. cnt /\ t[k] = slot[k + c]
                         ELSE put /\ t[k] = s
  BY <1>3, <1>8, <1>9
<1>11. \A k \in 1 .. cnt : slot[k] \in DoneStores /\ slot[k] \in Slots
  BY <1>2, <1>4 DEF Lists, DoneStores
<1>12. \A j, k \in 1 .. cnt : j < k => Age(slot[j]) < Age(slot[k])
  BY <1>2, <1>4 DEF Lists
<1>13. ASSUME commit
       PROVE  cnt > 0 /\ slot[1] = commit_pointer
  <2>1. commit_pointer \in DoneStores
    BY <1>1, <1>13 DEF BoardMove, commit_instr, IsStore, DoneStores, LsuTypes
  <2> QED
    BY <1>1, <1>2, <1>4, <2>1, CommitsFirst
<1>14. \A k \in 1 .. cnt : k > c => ~(commit /\ slot[k] = commit_pointer)
  BY <1>1, <1>3, <1>11, <1>12, <1>13, AgeType
<1>15. put => scoreboard[s].at = "pending" /\ IsStore(s)
  BY <1>5, DoneMoves
<1>16. \A k \in 1 .. n : t[k] \in DoneStores' /\ t[k] \in Slots
  <2> TAKE k \in 1 .. n
  <2>1. PICK i \in Slots : i = t[k]
    BY <1>10, <1>11
  <2>2. \/ i \in DoneStores /\ ~(commit /\ i = commit_pointer)
        \/ put /\ i = st_q.tid
    BY <1>3, <1>5, <1>10, <1>11, <1>14, <2>1
  <2>3. i \in DoneStores'
    BY <2>2, DoneMoves
  <2> QED
    BY <2>1, <2>3
<1>17. n \in Nat /\ (put => n + c = cnt + 1) /\ (~put => n + c = cnt)
  BY <1>7, Zenon
<1>18. \A i \in DoneStores' : \E k \in 1 .. n : t[k] = i
  <2> TAKE i \in DoneStores'
  <2>1. i \in Slots
    BY DEF DoneStores
  <2>2. CASE i \in DoneStores /\ ~(commit /\ i = commit_pointer)
    <3>1. PICK j \in 1 .. cnt : slot[j] = i
      BY <1>2, <1>4, <2>2 DEF Lists
    <3>2. j > c
      BY <1>3, <1>13, <2>2, <3>1
    <3>3. j - c \in 1 .. n /\ (j - c) + c = j
      BY <1>3, <1>17, <3>1, <3>2
    <3>4. PICK k \in 1 .. n : k + c = j
      BY <3>3
    <3> QED
      BY <1>10, <3>1, <3>4
  <2>3. CASE put /\ i = st_q.tid
    <3>1. n \in 1 .. n /\ n + c = cnt + 1
      BY <1>3, <1>6, <1>17, <2>3
    <3>2. t[n] = s
      BY <1>10, <3>1
    <3> QED
      BY <1>5, <2>3, <3>1, <3>2
  <2>4. i \in DoneStores' <=> \/ i \in DoneStores /\ ~(commit /\ i = commit_pointer)
                              \/ put /\ i = st_q.tid
    BY <2>1, DoneMoves
  <2> QED
    BY <2>2, <2>3, <2>4
<1>19. ASSUME NEW j \in 1 .. n, NEW k \in 1 .. n, j < k
       PROVE  Age(t[j])' < Age(t[k])'
  <2>1. PICK a \in Slots, b \in Slots : a = t[j] /\ b = t[k]
    BY <1>16
  <2>2. j + c <= cnt /\ a = slot[j + c] /\ j + c \in 1 .. cnt /\ a \in DoneStores
    BY <1>3, <1>7, <1>10, <1>11, <1>19, <2>1
  <2>3. Age(a) < Age(b)
    <3>1. CASE k + c <= cnt
      BY <1>3, <1>10, <1>12, <1>19, <2>1, <2>2, <3>1
    <3>2. CASE ~(k + c <= cnt)
      <4>1. put /\ b = s
        BY <1>10, <2>1, <3>2
      <4> QED
        BY <1>1, <1>15, <2>2, <4>1 DEF DoneOK
    <3> QED
      BY <3>1, <3>2
  <2>4. ~(retires /\ a = commit_pointer) /\ ~(retires /\ b = commit_pointer)
    BY <1>16, <2>1, DoneMoves
  <2>5. \A x \in Slots : ~(retires /\ x = commit_pointer) => (Age(a)' < Age(x)' <=> Age(a) < Age(x))
    BY <1>1, <2>4, OrderKept
  <2> QED
    BY <2>1, <2>3, <2>4, <2>5
<1>20. ASSUME NEW k \in 1 .. n
       PROVE  speculativeStores'[k] = [word |-> scoreboard'[t[k]].word,
                                       cbo |-> scoreboard'[t[k]].kind = "cbo"]
  <2>1. PICK i \in Slots : i = t[k] /\ i \in DoneStores'
    BY <1>16
  <2>2. scoreboard'[i].kind = scoreboard[i].kind /\ scoreboard'[i].word = scoreboard[i].word
    BY <2>1, DoneMoves
  <2>3. speculativeStores'[k] = [word |-> scoreboard[i].word, cbo |-> scoreboard[i].kind = "cbo"]
    <3>1. CASE k + c <= cnt
      <4>1. PICK j \in 1 .. cnt : j = k + c /\ slot[j] = i
        BY <1>10, <2>1, <3>1
      <4>2. speculativeStores[j] = [word |-> scoreboard[i].word, cbo |-> scoreboard[i].kind = "cbo"]
        BY <1>2, <1>4, <4>1 DEF Lists
      <4> QED
        BY <1>8, <3>1, <4>1, <4>2
    <3>2. CASE ~(k + c <= cnt)
      <4>1. put /\ i = st_q.tid
        BY <1>5, <1>10, <2>1, <3>2
      <4>2. scoreboard[i].kind = st_q.op /\ scoreboard[i].word = st_q.word
        BY <1>1, <4>1, InStoreIs
      <4>3. speculativeStores'[k] = stored
        BY <1>3, <1>4, <1>8, <3>2
      <4> QED
        BY <4>2, <4>3 DEF stored
    <3> QED
      BY <3>1, <3>2
  <2> QED
    BY <2>1, <2>2, <2>3
<1>21. t \in [1 .. n -> DoneStores']
  <2>1. \A k \in 1 .. n : (IF k + c <= cnt THEN slot[k + c] ELSE s) \in DoneStores'
    BY <1>9, <1>16
  <2> QED
    BY <1>9, <2>1
<1> QED
  BY <1>7, <1>18, <1>19, <1>20, <1>21 DEF SpeculativeStoresAreDone

\* The AMO buffer still holds the AMO that is done.
LEMMA AmoDone ==
  ASSUME LsuInv, NEW retires \in BOOLEAN, NEW issues \in BOOLEAN, BoardMove(retires, issues),
         retires => commit_instr.kind # "amo",
         amo_buffer' = IF st_state = "VALID_STORE" /\ IsAmo(st_q) THEN st_q.tid ELSE amo_buffer,
         NEW i \in Slots
  PROVE  (scoreboard'[i].kind = "amo" /\ scoreboard'[i].at = "done") <=> amo_buffer' = i
<1>1. LsuTypes /\ WindowOK /\ UnitsOK /\ DoneOK /\ StoreOK
  BY DEF LsuInv
<1>2. (scoreboard[i].kind = "amo" /\ scoreboard[i].at = "done") <=> amo_buffer = i
  BY <1>1 DEF DoneOK
<1>3. PICK put \in BOOLEAN : put <=> st_state = "VALID_STORE" /\ IsAmo(st_q)
  OBVIOUS
<1>4. put => /\ st_q.tid \in Slots /\ scoreboard[st_q.tid].at = "pending"
             /\ scoreboard[st_q.tid].kind = "amo"
  BY <1>1, <1>3, InStoreIs DEF IsAmo
<1>5. put => ~(scoreboard[i].kind = "amo" /\ scoreboard[i].at = "done")
  BY <1>1, <1>2, <1>3, LsuAssumption DEF StoreOK, Slots
<1>6. amo_buffer' = i <=> \/ put /\ i = st_q.tid
                          \/ ~put /\ scoreboard[i].kind = "amo" /\ scoreboard[i].at = "done"
  BY <1>2, <1>3
<1>7. ASSUME issues, i = issue_pointer
      PROVE  /\ ~(scoreboard'[i].kind = "amo" /\ scoreboard'[i].at = "done")
             /\ amo_buffer' # i
  <2>1. scoreboard[i].at = "free"
    BY <1>1, <1>7, IssueSlotFree DEF BoardMove
  <2>2. ~(scoreboard'[i].kind = "amo" /\ scoreboard'[i].at = "done")
    BY <1>7 DEF BoardMove, Fresh, IsLsu, StoreOps
  <2> QED
    BY <1>4, <1>6, <2>1, <2>2
<1>8. ASSUME ~(issues /\ i = issue_pointer), retires, i = commit_pointer
      PROVE  /\ ~(scoreboard'[i].kind = "amo" /\ scoreboard'[i].at = "done")
             /\ amo_buffer' # i
  <2>1. scoreboard'[i] = Free
    BY <1>8 DEF BoardMove
  <2>2. scoreboard[i].at = "done" /\ scoreboard[i].kind # "amo"
    BY <1>8 DEF BoardMove, commit_instr
  <2> QED
    BY <1>4, <1>6, <2>1, <2>2, FreeType
<1>9. ASSUME ~(issues /\ i = issue_pointer), ~(retires /\ i = commit_pointer)
      PROVE  (scoreboard'[i].kind = "amo" /\ scoreboard'[i].at = "done") <=> amo_buffer' = i
  <2>1. SlotStays(i)
    BY <1>9 DEF BoardMove
  <2>2. scoreboard'[i].kind = scoreboard[i].kind
    BY <2>1 DEF SlotStays
  <2>3. InReport(i) => scoreboard[i].kind # "amo"
    BY <1>1 DEF UnitsOK, IsLoad, LoadOps
  <2>4. InStore(i) => /\ scoreboard[i].kind = "amo" <=> put /\ i = st_q.tid
                      /\ scoreboard[i].at = "pending"
    BY <1>1, <1>3, InStoreIs DEF InStore, IsAmo
  <2>5. put /\ i = st_q.tid => InStore(i)
    BY <1>3 DEF InStore
  <2>6. scoreboard[i].kind = "amo" =>
          (scoreboard'[i].at = "done" <=> scoreboard[i].at = "done" \/ InStore(i))
    BY <2>1, <2>3 DEF SlotStays
  <2> QED
    BY <1>4, <1>5, <1>6, <2>2, <2>4, <2>5, <2>6
<1> QED
  BY <1>7, <1>8, <1>9

\* Stores still finish in program order.
LEMMA DoneInOrder ==
  ASSUME LsuInv, NEW retires \in BOOLEAN, NEW issues \in BOOLEAN, BoardMove(retires, issues),
         NEW commit \in BOOLEAN, commit <=> retires /\ IsStore(commit_pointer),
         NEW i \in Slots, NEW k \in Slots,
         i \in DoneStores', scoreboard'[k].at = "pending", IsStore(k)'
  PROVE  Age(i)' < Age(k)'
<1>1. LsuTypes /\ WindowOK /\ UnitsOK /\ DoneOK /\ Complete
  BY DEF LsuInv
<1>2. PICK put \in BOOLEAN : put <=> st_state = "VALID_STORE" /\ ~IsAmo(st_q)
  OBVIOUS
<1>3. \/ i \in DoneStores
      \/ put /\ i = st_q.tid
  BY <1>2, DoneMoves
<1>4. ~(retires /\ i = commit_pointer)
  BY <1>2, DoneMoves
<1>5. Occupied(i)
  BY <1>2, <1>3, DoneMoves DEF Occupied
<1>6. /\ \A x \in Slots : ~(retires /\ x = commit_pointer) => (Age(i)' < Age(x)' <=> Age(i) < Age(x))
      /\ \A x \in Slots : issues /\ x = issue_pointer /\ Occupied(i) => Age(i)' < Age(x)' /\ i # x
  BY <1>1, <1>4, OrderKept
<1>7. CASE issues /\ k = issue_pointer
  BY <1>5, <1>6, <1>7
<1>8. CASE ~(issues /\ k = issue_pointer)
  <2>1. SlotStays(k) /\ ~(retires /\ k = commit_pointer)
    BY <1>8, FreeType DEF BoardMove
  <2>2. scoreboard[k].kind = scoreboard'[k].kind
    BY <2>1 DEF SlotStays
  <2>3. scoreboard[k].at = "pending" /\ ~InStore(k) /\ ~InReport(k)
    BY <2>1 DEF SlotStays
  <2>4. IsStore(k) /\ ~IsLoad(k) /\ Awaited(k)
    BY <2>2, <2>3 DEF IsStore, IsLoad, Awaited, IsLsu, LoadOps, StoreOps
  <2>5. Age(i) < Age(k)
    <3>1. CASE i \in DoneStores
      BY <1>1, <2>3, <2>4, <3>1 DEF DoneOK
    <3>2. CASE put /\ i = st_q.tid
      <4>1. InStore(i)
        BY <1>2, <3>2 DEF InStore
      <4>2. ~InLoads(k)
        BY <1>1, <2>4 DEF UnitsOK
      <4>3. InQueue(k)
        BY <1>1, <2>3, <2>4, <4>2 DEF Complete
      <4>4. PICK q \in 0 .. 1 : Queued(q) /\ NextRequest(q).tid = k
        BY <4>3 DEF InQueue
      <4>5. \A q1 \in 0 .. 1 : Queued(q1) => Age(i) < Age(NextRequest(q1).tid)
        BY <1>1, <4>1 DEF UnitsOK
      <4> QED
        BY <4>4, <4>5
    <3> QED
      BY <1>3, <3>1, <3>2
  <2> QED
    BY <1>6, <2>1, <2>5
<1> QED
  BY <1>7, <1>8

\* The store in its second cycle still has a place.
LEMMA PlaceKept ==
  ASSUME LsuInv, NEW hit \in BOOLEAN, NEW done \in BOOLEAN, NEW ack \in BOOLEAN,
         NEW flush \in BOOLEAN, ~flush,
         ControlPart(ack, flush), StorePart(hit, done, ack, flush),
         NEW put \in BOOLEAN, put <=> st_put_now(flush),
         NEW commit \in BOOLEAN, commit <=> commit_lsu,
         InputContract(put, commit, flush), stored \in Store,
         CoreIf(put, stored, commit, flush)
  PROVE  StoreOK'
<1>1. LsuTypes /\ SBInv /\ SBTypeOK
  BY DEF LsuInv, SBInv
<1>2. ex_q' => st_state' = "IDLE"
  BY ExceptionMoves
<1>3. st_state' = "VALID_STORE" => accepts(hit, flush)
  BY StoreMoves
<1>4. accepts(hit, flush) => room_now(flush) /\ Looks(st_valid_i, lsu_ctrl_now) /\ st_q' = lsu_ctrl_now
  BY StoreMoves DEF accepts, Accepts
<1>5. ASSUME room_now(flush)
      PROVE  speculative_status_cnt' < DEPTH_SPEC
  <2>1. PICK c \in 0 .. 1 : c = 1 <=> commit
    OBVIOUS
  <2>2. PICK a, b \in Nat : a = speculative_status_cnt /\ b = speculative_status_cnt'
    BY <1>1, CoreIfInv DEF SBTypeOK
  <2>3. /\ put => b + c = a + 1
        /\ ~put => b + c = a
    <3>1. /\ put => speculative_status_cnt' + c = speculative_status_cnt + 1
          /\ ~put => speculative_status_cnt' + c = speculative_status_cnt
      BY <1>1, <2>1, SpeculativeMoves
    <3> QED
      BY <2>2, <3>1, Zenon
  <2>4. /\ a \in Nat /\ b \in Nat /\ DEPTH_SPEC \in Nat
        /\ a <= DEPTH_SPEC /\ (a = DEPTH_SPEC => ~put)
    BY <1>1, <2>2, DepthAssumption DEF SBTypeOK, InputContract
  <2>5. commit \/ CountAfter(st_put_now(flush), commit_lsu) < DEPTH_SPEC
    BY <1>5 DEF room_now, ready
  <2>6. commit \/ b < DEPTH_SPEC
    <3>1. b = CountAfter(put, commit)
      BY <2>2 DEF CoreIf
    <3>2. CountAfter(put, commit) = CountAfter(st_put_now(flush), commit_lsu)
      BY DEF CountAfter
    <3> QED
      BY <2>5, <3>1, <3>2
  <2>7. b < DEPTH_SPEC
    BY <2>1, <2>3, <2>4, <2>6
  <2> QED
    BY <2>2, <2>7
<1>6. ASSUME st_state' = "VALID_STORE", IsAmo(st_q')
      PROVE  amo_buffer' = NoAmo
  <2>1. amo_buffer = NoAmo /\ st_state = "IDLE"
    BY <1>3, <1>4, <1>6 DEF room_now, amo_ready, Looks
  <2> QED
    BY <2>1, AmoBufferMoves
<1> QED
  BY <1>2, <1>3, <1>4, <1>5, <1>6 DEF StoreOK, IsAmo

\* Requests are well typed.
LEMMA RequestTypes ==
  /\ Zero \in LsuCtrl(Slots)
  /\ \A i \in Slots, n \in Instr : IsLsu(n) => Request(i, n) \in LsuCtrl(Slots)
<1>1. Zero.word \in Word
  BY DEF Zero
<1>2. Zero \in LsuCtrl(Slots)
  BY <1>1, LsuAssumption DEF Zero, LsuCtrl, Slots
<1>3. ASSUME NEW i \in Slots, NEW n \in Instr, IsLsu(n)
      PROVE  Request(i, n) \in LsuCtrl(Slots)
  <2>1. n.word \in Word /\ n.bad \in BOOLEAN /\ n.kind \in LoadOps \union StoreOps
    BY <1>3 DEF Instr, IsLsu
  <2> QED
    BY <2>1 DEF Request, LsuCtrl
<1> QED
  BY <1>2, <1>3

\* Every register keeps its type.
LEMMA TypesStay ==
  ASSUME LsuInv, program' = program,
         NEW retires \in BOOLEAN, NEW issues \in BOOLEAN, BoardMove(retires, issues),
         NEW hit \in BOOLEAN, NEW done \in BOOLEAN, NEW granted \in BOOLEAN,
         NEW not_ni \in BOOLEAN, NEW ack \in BOOLEAN, NEW flush \in BOOLEAN, ~flush,
         ControlPart(ack, flush), StorePart(hit, done, ack, flush),
         LoadPart(hit, done, granted, not_ni, flush),
         FifoPart(hit, done, granted, not_ni, flush)
  PROVE  LsuTypes'
<1>1. LsuTypes /\ UnitsOK
  BY DEF LsuInv
<1>2. /\ scoreboard' \in [Slots -> Instr] /\ commit_pointer' \in Slots
      /\ issue_pointer' \in Slots /\ issue_cnt' \in 0 .. NR_SB_ENTRIES
  BY WindowMoves
<1>3. fu_data' \in LsuCtrl(Slots)
  <2>1. CASE issues /\ IsLsu(scoreboard'[issue_pointer])
    <3>1. issue_pointer \in Slots /\ scoreboard'[issue_pointer] \in Instr
      BY <1>1, <2>1 DEF LsuTypes, BoardMove, Fresh
    <3>2. fu_data' = Request(issue_pointer, scoreboard'[issue_pointer])
      BY <2>1 DEF BoardMove
    <3> QED
      BY <2>1, <3>1, <3>2, RequestTypes
  <2>2. CASE ~(issues /\ IsLsu(scoreboard'[issue_pointer]))
    <3>1. fu_data' = Zero
      BY <2>2 DEF BoardMove
    <3> QED
      BY <3>1, RequestTypes
  <2> QED
    BY <2>1, <2>2
<1>4. /\ byp_cnt' \in 0 .. 2 /\ byp_rd' \in 0 .. 1 /\ byp_wr' \in 0 .. 1
      /\ byp_mem' \in [0 .. 1 -> LsuCtrl(Slots)]
  <2>1. UnitMove(accepts(hit, flush), took(hit, granted, not_ni), faults(done), rvalid_now(done))
    BY UnitsMove
  <2> QED
    BY <2>1 DEF UnitMove
<1>5. st_state' \in StStates /\ st_q' \in LsuCtrl(Slots)
  BY StoreMoves
<1>6. amo_buffer' \in Slots \union {NoAmo}
  <2>1. amo_buffer' = IF st_state = "VALID_STORE" /\ IsAmo(st_q) THEN st_q.tid ELSE amo_buffer
    BY AmoBufferMoves
  <2>2. st_state = "VALID_STORE" => st_q.tid \in Slots
    BY <1>1, InStoreIs
  <2> QED
    BY <1>1, <2>1, <2>2 DEF LsuTypes
<1>7. ld_state' \in LdStates
  BY LoadStateMoves
<1>8. ldbuf' \in [LdBufSlots -> [valid : BOOLEAN, flushed : BOOLEAN, tid : Slots]]
  BY LoadBufferMoves
<1>9. ldbuf_last_id' \in LdBufSlots /\ dc_state' \in {"IDLE", "READ", "MISS", "KILL_MISS"}
  BY LoadPortMoves
<1>10. load_out' \in [valid : BOOLEAN, tid : Slots, ex : BOOLEAN]
  BY <1>1, LoadsMove DEF LsuTypes
<1>11. ex_q' \in BOOLEAN
  BY ExceptionMoves
<1>12. program' \in Programs
  BY <1>1 DEF LsuTypes
<1> QED
  BY <1>2, <1>3, <1>4, <1>5, <1>6, <1>7, <1>8, <1>9, <1>10, <1>11, <1>12 DEF LsuTypes

-----------------------------------------------------------------------------
(***************************************************************************)
(* Loads behind stores.                                                    *)
(***************************************************************************)
\* The address check of the load at the head of the queue finds every older
\* store to its page offset.
LEMMA ClearNow ==
  ASSUME LsuInv, ld_valid_i, ~matches_now, NEW t \in Slots, t = lsu_ctrl_now.tid
  PROVE  Clear(t)
<1>1. LsuTypes /\ QueueOK /\ UnitsOK /\ Complete /\ SBInv
  BY DEF LsuInv
<1>2. /\ Queued(0) /\ lsu_ctrl_now = NextRequest(0) /\ Own(lsu_ctrl_now)
      /\ lsu_ctrl_now \in LsuCtrl(Slots)
  BY <1>1, HeadIs DEF ld_valid_i
<1>3. PICK w \in Word : w = lsu_ctrl_now.word
  BY <1>2 DEF LsuCtrl
<1>4. scoreboard[t].word = w
  <2>1. lsu_ctrl_now = Request(t, scoreboard[t])
    BY <1>2 DEF Own
  <2> QED
    BY <1>3, <2>1, RequestIs
<1>5. ~page_offset_matches(w, putting)
  BY <1>3 DEF matches_now
<1>6. ~page_offset_matches(w, {}) /\ w \notin putting
  BY <1>5 DEF page_offset_matches
<1>7. /\ \A k \in 1 .. speculative_status_cnt : speculativeStores[k].word # w
      /\ \A k \in 1 .. commit_status_cnt : committedStores[k].word # w
  BY <1>1, <1>6, CheckExact
<1>8. ASSUME NEW k \in Slots, Age(k) < Age(t), scoreboard[k].at \in {"pending", "done"},
             IsStore(k), scoreboard[k].word = w
      PROVE  FALSE
  <2>1. CASE scoreboard[k].at = "done"
    <3>1. k \in DoneStores
      BY <1>8, <2>1 DEF DoneStores, IsStore
    <3>2. PICK slot : Lists(slot)
      BY DEF LsuInv, SpeculativeStoresAreDone, Lists
    <3>3. PICK j \in 1 .. speculative_status_cnt : slot[j] = k
      BY <3>1, <3>2 DEF Lists
    <3>4. speculativeStores[j] = [word |-> scoreboard[k].word, cbo |-> scoreboard[k].kind = "cbo"]
      BY <3>2, <3>3 DEF Lists
    <3> QED
      BY <1>7, <1>8, <3>3, <3>4
  <2>2. CASE scoreboard[k].at = "pending"
    <3>1. Awaited(k) /\ ~IsLoad(k)
      BY <1>8, <2>2 DEF Awaited, IsLsu, IsStore, IsLoad, StoreOps, LoadOps
    <3>2. ~InLoads(k) /\ ~InReport(k)
      BY <1>1, <3>1 DEF UnitsOK
    <3>3. ~InStore(k)
      <4>1. ASSUME InStore(k) PROVE FALSE
        <5>1. st_state = "VALID_STORE" /\ k = st_q.tid
          BY <4>1 DEF InStore
        <5>2. st_q.word = w
          BY <1>1, <1>8, <5>1, InStoreIs
        <5> QED
          BY <1>6, <5>1, <5>2 DEF putting, st_valid_without_flush
      <4> QED
        BY <4>1
    <3>4. PICK q \in 0 .. 1 : Queued(q) /\ NextRequest(q).tid = k
      BY <1>1, <3>1, <3>2, <3>3 DEF Complete, InQueue
    <3>5. Age(t) \in Int /\ Age(k) \in Int
      BY <1>1, AgeType
    <3>6. CASE q = 0
      BY <1>2, <1>8, <3>4, <3>5, <3>6
    <3>7. CASE q = 1
      <4>1. Age(NextRequest(0).tid) < Age(NextRequest(1).tid)
        BY <1>1, <3>4, <3>7 DEF QueueOK
      <4>2. Age(t) < Age(k)
        BY <1>2, <3>4, <3>7, <4>1
      <4> QED
        BY <1>8, <3>5, <4>2
    <3> QED
      BY <3>6, <3>7
  <2> QED
    BY <1>8, <2>1, <2>2
<1> QED
  BY <1>4, <1>7, <1>8 DEF Clear

\* A load that has passed the check stays clear of older stores.
LEMMA ClearKept ==
  ASSUME LsuInv, NEW retires \in BOOLEAN, NEW issues \in BOOLEAN, BoardMove(retires, issues),
         NEW commit \in BOOLEAN, commit <=> retires /\ IsStore(commit_pointer),
         CommitMove(commit),
         NEW i \in Slots, Awaited(i), ~InStore(i), ~InReport(i), Clear(i)
  PROVE  Clear(i)'
<1>1. LsuTypes /\ WindowOK /\ UnitsOK /\ SBInv /\ SBTypeOK
  BY DEF LsuInv, SBInv
<1>2. /\ scoreboard'[i] = scoreboard[i]
      /\ ~(retires /\ i = commit_pointer) /\ ~(issues /\ i = issue_pointer)
  BY SlotKept
<1>3. Occupied(i)
  BY DEF Awaited, Occupied
<1>4. /\ \A x \in Slots : ~(retires /\ x = commit_pointer) => (Age(i)' < Age(x)' <=> Age(i) < Age(x))
      /\ \A x \in Slots : issues /\ x = issue_pointer /\ Occupied(i) => Age(i)' < Age(x)' /\ i # x
  BY <1>1, <1>2, OrderKept
<1>5. ASSUME NEW k \in Slots, Age(k)' < Age(i)', scoreboard'[k].at \in {"pending", "done"},
             IsStore(k)', scoreboard'[k].word = scoreboard[i].word
      PROVE  FALSE
  <2>1. CASE issues /\ k = issue_pointer
    <3>1. Age(i)' < Age(k)'
      BY <1>3, <1>4, <2>1
    <3>2. Age(i)' \in Int /\ Age(k)' \in Int
      <4>1. Age(i) \in Int /\ Age(k) \in Int /\ NR_SB_ENTRIES \in Int
        BY <1>1, AgeType, LsuAssumption
      <4>2. /\ Age(i)' = IF retires THEN IF i = commit_pointer THEN NR_SB_ENTRIES - 1 ELSE Age(i) - 1
                         ELSE Age(i)
            /\ Age(k)' = IF retires THEN IF k = commit_pointer THEN NR_SB_ENTRIES - 1 ELSE Age(k) - 1
                         ELSE Age(k)
        BY <1>1, AgesMove
      <4> QED
        BY <4>1, <4>2
    <3> QED
      BY <1>5, <3>1, <3>2
  <2>2. CASE ~(issues /\ k = issue_pointer)
    <3>1. SlotStays(k) /\ ~(retires /\ k = commit_pointer)
      BY <1>5, <2>2, FreeType DEF BoardMove
    <3>2. scoreboard[k].kind = scoreboard'[k].kind /\ scoreboard[k].word = scoreboard'[k].word
      BY <3>1 DEF SlotStays
    <3>3. IsStore(k) /\ ~IsLoad(k) /\ scoreboard[k].kind # "nop"
      BY <1>5, <3>2 DEF IsStore, IsLoad, LoadOps
    <3>4. scoreboard[k].at \in {"pending", "done"}
      <4>1. InReport(k) => IsLoad(k)
        BY <1>1 DEF UnitsOK
      <4>2. InStore(k) => scoreboard[k].at = "pending"
        BY <1>1, HeldAwaited
      <4> QED
        BY <1>5, <3>1, <3>3, <4>1, <4>2 DEF SlotStays
    <3>5. Age(k) < Age(i)
      <4>1. \A x \in Slots : ~(retires /\ x = commit_pointer) => (Age(k)' < Age(x)' <=> Age(k) < Age(x))
        BY <1>1, <3>1, OrderKept
      <4> QED
        BY <1>2, <1>5, <4>1
    <3> QED
      BY <1>5, <3>2, <3>3, <3>4, <3>5 DEF Clear
  <2> QED
    BY <2>1, <2>2
<1>6. ASSUME NEW k \in 1 .. commit_status_cnt'
      PROVE  committedStores'[k].word # scoreboard[i].word
  <2>1. \/ \E j \in 1 .. commit_status_cnt : committedStores'[k] = committedStores[j]
        \/ commit /\ committedStores'[k] = speculativeStores[1]
    BY DEF CommitMove
  <2>2. CASE \E j \in 1 .. commit_status_cnt : committedStores'[k] = committedStores[j]
    BY <2>2 DEF Clear
  <2>3. CASE commit /\ committedStores'[k] = speculativeStores[1]
    <3>1. PICK c \in Slots : c = commit_pointer
      BY <1>1 DEF LsuTypes
    <3>2. IsStore(c) /\ scoreboard[c].at = "done" /\ c # i
      BY <1>2, <2>3, <3>1 DEF BoardMove, commit_instr
    <3>3. c \in DoneStores
      BY <3>2 DEF DoneStores, IsStore
    <3>4. PICK slot : Lists(slot)
      BY DEF LsuInv, SpeculativeStoresAreDone, Lists
    <3>5. speculative_status_cnt > 0 /\ slot[1] = c
      BY <1>1, <3>1, <3>3, <3>4, CommitsFirst
    <3>6. 1 \in 1 .. speculative_status_cnt
      BY <1>1, <3>5 DEF SBTypeOK
    <3>7. speculativeStores[1] = [word |-> scoreboard[c].word, cbo |-> scoreboard[c].kind = "cbo"]
      BY <3>4, <3>5, <3>6 DEF Lists
    <3>8. Age(c) < Age(i)
      <4>1. Age(c) = 0 /\ Age(i) # 0 /\ Age(i) \in 0 .. NR_SB_ENTRIES - 1
        BY <1>1, <3>1, <3>2, AgeType
      <4> QED
        BY <4>1, LsuAssumption
    <3>9. scoreboard[c].word # scoreboard[i].word
      BY <3>2, <3>8 DEF Clear
    <3> QED
      BY <2>3, <3>7, <3>9
  <2> QED
    BY <2>1, <2>2, <2>3
<1> QED
  BY <1>2, <1>5, <1>6 DEF Clear

\* A unit that waits keeps its request, and a load that leaves the queue, or that
\* waits behind the address check, has passed it.
HeadMove(accept, take, fault) ==
  /\ ld_state' \in LdWaits => ld_valid_i /\ ~take /\ ~fault
  /\ st_state' \in StWaits => st_valid_i /\ ~accept
  /\ take \/ ld_state' \in LdWaits \ {"WAIT_PAGE_OFFSET"} =>
       ~matches_now \/ ld_state \in LdWaits \ {"WAIT_PAGE_OFFSET"}

\* The load at the head of the queue is clear when it leaves, and while it waits
\* in any state behind the check.
LEMMA ClearStays ==
  ASSUME LsuInv, NEW retires \in BOOLEAN, NEW issues \in BOOLEAN, BoardMove(retires, issues),
         NEW accept \in BOOLEAN, NEW take \in BOOLEAN, NEW fault \in BOOLEAN,
         NEW answer \in BOOLEAN, UnitMove(accept, take, fault, answer),
         HeadMove(accept, take, fault),
         NEW commit \in BOOLEAN, commit <=> retires /\ IsStore(commit_pointer),
         CommitMove(commit)
  PROVE  ClearOK'
<1>1. LsuTypes /\ QueueOK /\ ClearOK
  BY DEF LsuInv
<1>2. ASSUME take \/ ld_state' \in LdWaits \ {"WAIT_PAGE_OFFSET"}
      PROVE  lsu_ctrl_now.tid \in Slots /\ Clear(lsu_ctrl_now.tid)
  <2>1. ld_valid_i
    BY <1>2 DEF UnitMove, HeadMove
  <2>2. /\ lsu_ctrl_now = NextRequest(0) /\ lsu_ctrl_now \in LsuCtrl(Slots)
    BY <1>1, HeadIs
  <2>3. PICK t \in Slots : t = lsu_ctrl_now.tid
    BY <2>2 DEF LsuCtrl
  <2>4. CASE ~matches_now
    BY <2>1, <2>3, <2>4, ClearNow
  <2>5. CASE ld_state \in LdWaits \ {"WAIT_PAGE_OFFSET"}
    BY <1>1, <2>2, <2>3, <2>5 DEF ClearOK
  <2> QED
    BY <1>2, <2>4, <2>5 DEF HeadMove
<1>3. ASSUME NEW i \in Slots, InLoads(i)'
      PROVE  Clear(i)'
  <2>1. /\ (take /\ i = lsu_ctrl_now.tid) \/ InLoads(i)
        /\ Awaited(i) /\ ~InStore(i) /\ ~InReport(i)
    BY <1>3, HeldMoves
  <2>2. Clear(i)
    BY <1>1, <1>2, <2>1 DEF ClearOK
  <2> QED
    BY <2>1, <2>2, ClearKept
<1>4. ASSUME ld_state' \in LdWaits \ {"WAIT_PAGE_OFFSET"}
      PROVE  Clear(NextRequest(0).tid)'
  <2>1. PICK t \in Slots : t = lsu_ctrl_now.tid
    BY <1>2, <1>4
  <2>2. Clear(t)
    BY <1>2, <1>4, <2>1
  <2>3. /\ lsu_ctrl_now = NextRequest(0) /\ Queued(0)
    BY <1>1, <1>4, HeadIs DEF ld_valid_i, HeadMove
  <2>4. NextRequest(0)' = NextRequest(0)
    BY <1>4, WaitsStay DEF HeadMove
  <2>5. Awaited(t) /\ ~InStore(t) /\ ~InReport(t)
    BY <2>1, <2>3, QueuedIs
  <2>6. Clear(t)'
    BY <2>2, <2>5, ClearKept
  <2>7. NextRequest(0).tid' = t
    BY <2>1, <2>3, <2>4
  <2> QED
    BY <2>6, <2>7, Zenon DEF Clear, Age
<1> QED
  BY <1>3, <1>4 DEF ClearOK

\* A load of a non-idempotent region is the oldest instruction, and no store is
\* on its way.
LEMMA AloneStays ==
  ASSUME LsuInv, NEW retires \in BOOLEAN, NEW issues \in BOOLEAN, BoardMove(retires, issues),
         NEW accept \in BOOLEAN, NEW take \in BOOLEAN, NEW fault \in BOOLEAN,
         NEW answer \in BOOLEAN, UnitMove(accept, take, fault, answer),
         \A j \in LdBufSlots : ldbuf'[j].tid \in Slots,
         take => \E not_ni \in BOOLEAN : ~stall_now(not_ni),
         NEW commit \in BOOLEAN, commit <=> retires /\ IsStore(commit_pointer),
         CommitMove(commit)
  PROVE  NonIdempotentLoadsWait'
<1>1. LsuTypes /\ QueueOK /\ NonIdempotentLoadsWait /\ SBInv
  BY DEF LsuInv
<1>2. ASSUME NEW i \in Slots, InLoads(i)', scoreboard'[i].kind = "load_ni"
      PROVE  i = commit_pointer' /\ commit_status_cnt' = 0
  <2>1. /\ (take /\ i = lsu_ctrl_now.tid) \/ InLoads(i)
        /\ Awaited(i) /\ ~InStore(i) /\ ~InReport(i)
    BY <1>2, HeldMoves
  <2>2. scoreboard[i].kind = "load_ni"
    BY <1>2, <2>1, SlotKept
  <2>3. i = commit_pointer /\ commit_status_cnt = 0
    <3>1. CASE InLoads(i)
      <4>1. PICK j \in LdBufSlots : Live(j) /\ ldbuf[j].tid = i
        BY <3>1 DEF InLoads
      <4> QED
        BY <1>1, <2>2, <4>1 DEF NonIdempotentLoadsWait, no_st_pending
    <3>2. CASE take /\ i = lsu_ctrl_now.tid
      <4>1. Queued(0) /\ Own(lsu_ctrl_now)
        BY <1>1, <3>2, HeadIs DEF UnitMove, ld_valid_i
      <4>2. lsu_ctrl_now = Request(i, scoreboard[i])
        BY <3>2, <4>1 DEF Own
      <4>3. lsu_ctrl_now.op = "load_ni"
        BY <2>2, <4>2, RequestIs
      <4>4. PICK not_ni \in BOOLEAN : ~stall_now(not_ni)
        BY <3>2
      <4> QED
        BY <3>2, <4>3, <4>4 DEF stall_now, stall_ni, store_buffer_empty, no_st_pending
    <3> QED
      BY <2>1, <3>1, <3>2
  <2>4. ~retires
    BY <2>1, <2>3 DEF BoardMove, commit_instr, Awaited
  <2>5. commit_pointer' = commit_pointer
    BY <2>4 DEF BoardMove
  <2>6. commit_status_cnt' = 0
    BY <1>1, <2>3, <2>4 DEF CommitMove
  <2> QED
    BY <2>3, <2>5, <2>6
<1>3. ASSUME NEW j \in LdBufSlots, Live(j)', scoreboard'[ldbuf'[j].tid].kind = "load_ni"
      PROVE  ldbuf'[j].tid = commit_pointer' /\ commit_status_cnt' = 0
  <2>1. PICK i \in Slots : i = ldbuf'[j].tid
    BY <1>3
  <2>2. InLoads(i)'
    BY <1>3, <2>1 DEF InLoads
  <2> QED
    BY <1>2, <1>3, <2>1, <2>2
<1> QED
  BY <1>3 DEF NonIdempotentLoadsWait, no_st_pending

-----------------------------------------------------------------------------
(***************************************************************************)
(* A cycle without a flush.                                                *)
(***************************************************************************)
\* What the store buffer sees: the store in its second cycle, and the store
\* that commits.
BufferMove(put, commit, flush, stall, gnt, rvalid) ==
  /\ put <=> st_state = "VALID_STORE" /\ ~IsAmo(st_q) /\ ~flush
  /\ put <=> st_put_now(flush)
  /\ commit <=> commit_lsu
  /\ InputContract(put, commit, flush) /\ stored \in Store
  /\ CoreIf(put, stored, commit, flush)
  /\ StoreIf(commit, stall, gnt, rvalid)

\* The store buffer in a cycle, with its signals gathered in BufferMove.
LEMMA BufferMoves ==
  ASSUME LsuInv, ~SingleStep, NEW ack \in BOOLEAN, NEW flush \in BOOLEAN,
         ControlPart(ack, flush), BufferPart(flush)
  PROVE  \E put, commit, stall, gnt, rvalid \in BOOLEAN :
           BufferMove(put, commit, flush, stall, gnt, rvalid)
<1>1. LsuTypes /\ StoreOK
  BY DEF LsuInv
<1>2. PICK gnt \in BOOLEAN, rvalid \in BOOLEAN :
        Cycle(st_put_now(flush), stored, commit_lsu, flush, FALSE, gnt, rvalid)
  BY DEF BufferPart
<1>3. PICK stall \in BOOLEAN : stall = FALSE
  OBVIOUS
<1>4. st_put_now(flush) \in BOOLEAN /\ commit_lsu \in BOOLEAN
  BY Zenon DEF st_put_now, store_buffer_valid, commit_lsu
<1>5. PICK put \in BOOLEAN : put = st_put_now(flush)
  BY <1>4
<1>6. PICK commit \in BOOLEAN : commit = commit_lsu
  BY <1>4
<1>7. CoreIf(put, stored, commit, flush) /\ StoreIf(commit, stall, gnt, rvalid)
  <2>1. Cycle(put, stored, commit, flush, stall, gnt, rvalid)
    BY <1>2, <1>3, <1>5, <1>6, Zenon
  <2> QED
    BY <2>1 DEF Cycle
<1>8. InputContract(put, commit, flush) /\ stored \in Store
  <2>1. flush <=> flush_ex(ack)
    BY DEF ControlPart
  <2>2. InputContract(store_buffer_valid(ex_q, flush), commit_lsu, flush) /\ stored \in Store
    BY <2>1, ContractKept
  <2> QED
    BY <1>5, <1>6, <2>2, Zenon DEF st_put_now
<1>9. put <=> st_state = "VALID_STORE" /\ ~IsAmo(st_q) /\ ~flush
  BY <1>1, <1>5, NoStoreException DEF st_put_now, store_buffer_valid
<1>10. BufferMove(put, commit, flush, stall, gnt, rvalid)
  BY <1>5, <1>6, <1>7, <1>8, <1>9 DEF BufferMove
<1> QED
  BY <1>10

\* The store that commits is the one that retires.
LEMMA CommitRetires ==
  ASSUME NEW retires \in BOOLEAN, NEW ack \in BOOLEAN, retires = commit_ack(ack),
         NEW commit \in BOOLEAN, commit <=> commit_lsu
  PROVE  /\ commit <=> retires /\ IsStore(commit_pointer)
         /\ retires /\ ~ack => commit_instr.kind # "amo"
BY DEF commit_ack, commit_lsu, commit_instr, IsStore

\* The invariant of the store buffer.
LEMMA BufferStays ==
  ASSUME LsuInv, ~SingleStep, NEW ack \in BOOLEAN, NEW flush \in BOOLEAN,
         ControlPart(ack, flush), BufferPart(flush)
  PROVE  SBNext /\ SBInv'
<1>1. PICK put, commit, stall, gnt, rvalid \in BOOLEAN :
        BufferMove(put, commit, flush, stall, gnt, rvalid)
  BY BufferMoves
<1>2. PICK st \in Store : st = stored
  BY <1>1 DEF BufferMove
<1>3. Cycle(put, st, commit, flush, stall, gnt, rvalid) /\ InputContract(put, commit, flush)
  BY <1>1, <1>2 DEF Cycle, BufferMove
<1> DEFINE Step(valid, com, flu, sta, gra, rva, new) ==
             /\ InputContract(valid, com, flu)
             /\ Cycle(valid, new, com, flu, sta, gra, rva)
<1>4. SBNext
  <2>1. Step(put, commit, flush, stall, gnt, rvalid, st)
    BY <1>3
  <2>2. (\E valid, com, flu, sta, gra, rva \in BOOLEAN : \E new \in Store :
            Step(valid, com, flu, sta, gra, rva, new)) => SBNext
    BY DEF SBNext
  <2> HIDE DEF Step
  <2>3. \E new \in Store : Step(put, commit, flush, stall, gnt, rvalid, new)
    BY <2>1
  <2>4. \E sta, gra, rva \in BOOLEAN : \E new \in Store :
            Step(put, commit, flush, sta, gra, rva, new)
    BY <2>3
  <2>5. \E flu, sta, gra, rva \in BOOLEAN : \E new \in Store :
            Step(put, commit, flu, sta, gra, rva, new)
    BY <2>4
  <2>6. \E com, flu, sta, gra, rva \in BOOLEAN : \E new \in Store :
            Step(put, com, flu, sta, gra, rva, new)
    BY <2>5
  <2>7. \E valid, com, flu, sta, gra, rva \in BOOLEAN : \E new \in Store :
            Step(valid, com, flu, sta, gra, rva, new)
    BY <2>6
  <2> QED
    BY <2>2, <2>7
<1> QED
  BY <1>4, SBNextInv DEF LsuInv

\* A cycle without a flush keeps the invariant.
LEMMA QuietStep ==
  ASSUME LsuInv, NoStoreFaults, ~SingleStep,
         NEW hit \in BOOLEAN, NEW done \in BOOLEAN, NEW granted \in BOOLEAN,
         NEW not_ni \in BOOLEAN, NEW ack \in BOOLEAN, NEW flush \in BOOLEAN, ~flush,
         Parts(hit, done, granted, not_ni, ack, flush)
  PROVE  LsuInv'
<1>1. /\ ControlPart(ack, flush) /\ program' = program /\ BufferPart(flush)
      /\ FifoPart(hit, done, granted, not_ni, flush) /\ StorePart(hit, done, ack, flush)
      /\ LoadPart(hit, done, granted, not_ni, flush) /\ BoardPart(ack, flush)
  BY DEF Parts
<1>2. LsuTypes /\ SBInv
  BY DEF LsuInv
<1>3. UnitMove(accepts(hit, flush), took(hit, granted, not_ni), faults(done), rvalid_now(done))
  BY <1>1, UnitsMove
<1>4. SBInv'
  BY <1>1, BufferStays
<1>5. \E put, commit, stall, gnt, rvalid \in BOOLEAN :
        BufferMove(put, commit, flush, stall, gnt, rvalid)
  BY <1>1, BufferMoves
<1>6. PICK retires \in BOOLEAN, issues \in BOOLEAN :
        BoardMove(retires, issues) /\ retires = commit_ack(ack)
  BY <1>1, BoardMoves
<1>7. LsuTypes'
  BY <1>1, <1>6, TypesStay
<1>8. PICK accept \in BOOLEAN, take \in BOOLEAN, fault \in BOOLEAN, answer \in BOOLEAN :
        /\ accept = accepts(hit, flush) /\ take = took(hit, granted, not_ni)
        /\ fault = faults(done) /\ answer = rvalid_now(done)
  <2>1. /\ accepts(hit, flush) \in BOOLEAN /\ took(hit, granted, not_ni) \in BOOLEAN
        /\ faults(done) \in BOOLEAN /\ rvalid_now(done) \in BOOLEAN
    BY Zenon DEF accepts, Accepts, took, faults, rvalid_now, data_rvalid
  <2> QED
    BY <2>1
<1>9. UnitMove(accept, take, fault, answer)
  BY <1>3, <1>8, Zenon
<1>10. PICK put \in BOOLEAN, commit \in BOOLEAN, stall \in BOOLEAN, gnt \in BOOLEAN,
            rvalid \in BOOLEAN : BufferMove(put, commit, flush, stall, gnt, rvalid)
  BY <1>5
<1>11. /\ put <=> st_state = "VALID_STORE" /\ ~IsAmo(st_q)
       /\ put <=> st_put_now(flush)
       /\ commit <=> commit_lsu
       /\ InputContract(put, commit, flush) /\ stored \in Store
       /\ CoreIf(put, stored, commit, flush) /\ StoreIf(commit, stall, gnt, rvalid)
  BY <1>10 DEF BufferMove
<1>12. commit <=> retires /\ IsStore(commit_pointer)
  BY <1>6, <1>11, CommitRetires
<1>13. ld_state' \in LdWaits => ld_valid_i /\ ~take /\ ~fault
  <2>1. ld_state' \in LdWaits => ld_valid_i /\ ~faults(done)
    BY <1>1, LoadStateMoves
  <2>2. ld_state' = "SEND_TAG" <=> took(hit, granted, not_ni)
    BY <1>1, LoadStateMoves
  <2> QED
    BY <1>8, <2>1, <2>2 DEF LdWaits, Aborting
<1>14. st_state' \in StWaits => st_valid_i /\ ~accept
  BY <1>1, <1>8, StoreMoves
<1>15. CommitMove(commit)
  BY <1>2, <1>11, CommittedMoves DEF CommitMove
<1>16. WindowOK'
  BY <1>6, WindowMoves
<1>17. QueueOK'
  BY <1>6, <1>9, QueueStays
<1>18. WaitsOK'
  BY <1>6, <1>9, <1>13, <1>14, WaitsStay
<1>19. UnitsOK'
  BY <1>6, <1>9, UnitsStay
<1>20. Complete'
  BY <1>6, <1>9, NothingLost DEF Complete
<1>21. LdPortOK'
  BY <1>1, <1>2, LoadsMove DEF LsuTypes
<1>22. StoreOK'
  BY <1>1, <1>11, PlaceKept
<1>23. DoneOK'
  <2>1. ~ack /\ amo_buffer' = IF st_state = "VALID_STORE" /\ IsAmo(st_q) THEN st_q.tid ELSE amo_buffer
    BY <1>1, AmoBufferMoves
  <2>2. retires => commit_instr.kind # "amo"
    BY <1>6, <1>11, <2>1, CommitRetires
  <2>3. \A i \in Slots : (scoreboard'[i].kind = "amo" /\ scoreboard'[i].at = "done") <=> amo_buffer' = i
    BY <1>6, <2>1, <2>2, AmoDone
  <2>4. \A i \in DoneStores', k \in Slots :
          scoreboard'[k].at = "pending" /\ IsStore(k)' => Age(i)' < Age(k)'
    <3> TAKE i \in DoneStores', k \in Slots
    <3>1. i \in Slots
      BY DEF DoneStores
    <3> QED
      BY <1>6, <1>12, <3>1, DoneInOrder
  <2> QED
    BY <2>3, <2>4 DEF DoneOK
<1>24. SpeculativeStoresAreDone'
  BY <1>6, <1>11, <1>12, ListsMove
<1>25. ClearOK'
  <2>1. take \/ ld_state' \in LdWaits \ {"WAIT_PAGE_OFFSET"} =>
          ~matches_now \/ ld_state \in LdWaits \ {"WAIT_PAGE_OFFSET"}
    <3>1. took(hit, granted, not_ni) \/ ld_state' \in LdWaits \ {"WAIT_PAGE_OFFSET"} =>
            ~matches_now \/ ld_state \in LdWaits \ {"WAIT_PAGE_OFFSET"}
      BY <1>1, LoadStateMoves
    <3> QED
      BY <1>8, <3>1
  <2>2. HeadMove(accept, take, fault)
    BY <1>13, <1>14, <2>1 DEF HeadMove
  <2> QED
    BY <1>6, <1>9, <1>12, <1>15, <2>2, ClearStays
<1>26. NonIdempotentLoadsWait'
  <2>1. take => \E n \in BOOLEAN : ~stall_now(n)
    BY <1>8 DEF took
  <2>2. \A j \in LdBufSlots : ldbuf'[j].tid \in Slots
    BY <1>7 DEF LsuTypes
  <2> QED
    BY <1>6, <1>9, <1>12, <1>15, <2>1, <2>2, AloneStays
<1> QED
  BY <1>7, <1>4, <1>16, <1>17, <1>18, <1>19, <1>20, <1>21, <1>22, <1>23, <1>24, <1>25, <1>26
  DEF LsuInv

-----------------------------------------------------------------------------
(***************************************************************************)
(* A flush, and the reset.                                                 *)
(***************************************************************************)
\* The window is empty and no unit holds a request; a killed load may still be
\* on its way to the cache.
Cleared ==
  /\ SBInv /\ LsuTypes /\ LdPortOK
  /\ scoreboard = [i \in Slots |-> Free]
  /\ issue_pointer = 0 /\ commit_pointer = 0 /\ issue_cnt = 0
  /\ fu_data = Zero /\ byp_rd = 0 /\ byp_wr = 0 /\ byp_cnt = 0
  /\ st_state = "IDLE" /\ amo_buffer = NoAmo
  /\ ld_state \in {"IDLE", "WAIT_FLUSH"} /\ \A j \in LdBufSlots : ~Live(j)
  /\ speculative_status_cnt = 0

\* The state behind a flush or a reset satisfies the invariant.
LEMMA ClearedInv == Cleared => LsuInv
<1> SUFFICES ASSUME Cleared PROVE LsuInv
  OBVIOUS
<1>1. SBInv /\ LsuTypes /\ LdPortOK
  BY DEF Cleared
<1>2. \A i \in Slots : scoreboard[i] = Free
  BY DEF Cleared
<1>3. \A i \in Slots : /\ scoreboard[i].at = "free" /\ scoreboard[i].kind = "nop"
                       /\ ~scoreboard[i].bad
  BY <1>2, FreeType
<1>4. Zero.valid = FALSE /\ Zero = fu_data
  BY DEF Zero, Cleared
<1>5. \A k \in 0 .. 1 : ~Queued(k)
  BY <1>4 DEF Queued, Cleared
<1>6. \A i \in Slots : ~InStore(i) /\ ~InLoads(i) /\ ~InReport(i) /\ ~Awaited(i)
  BY <1>3 DEF Cleared, InStore, InLoads, InReport, Awaited, Occupied
<1>7. WindowOK
  <2>1. issue_pointer = (commit_pointer + issue_cnt) % NR_SB_ENTRIES
    <3>1. 0 \in Slots /\ 0 \in 0 .. NR_SB_ENTRIES
      BY LsuAssumption DEF Slots
    <3>2. (0 + 0) % NR_SB_ENTRIES = 0
      BY <3>1, SlotBehind, LsuAssumption
    <3> QED
      BY <3>2 DEF Cleared
  <2>2. \A i \in Slots : Age(i) \in 0 .. NR_SB_ENTRIES - 1
    BY <1>1, AgeType
  <2>3. \A i \in Slots : ~Occupied(i) /\ ~(Age(i) < issue_cnt)
    BY <1>3, <2>2 DEF Occupied, Cleared
  <2> QED
    BY <1>3, <2>1, <2>3 DEF WindowOK
<1>8. QueueOK
  BY <1>4, <1>5 DEF QueueOK, Cleared
<1>9. WaitsOK
  BY DEF WaitsOK, LdWaits, StWaits, Aborting, Cleared
<1>10. UnitsOK
  BY <1>6 DEF UnitsOK, Cleared
<1>11. Complete
  BY <1>6 DEF Complete
<1>12. StoreOK
  BY DEF StoreOK, Cleared
<1>13. DoneStores = {}
  BY <1>3 DEF DoneStores
<1>14. DoneOK
  BY <1>3, <1>13, LsuAssumption DEF DoneOK, Cleared, Slots
<1>15. SpeculativeStoresAreDone
  <2>1. 1 .. speculative_status_cnt = {}
    BY DEF Cleared
  <2>2. PICK slot : slot = [k \in {} |-> 0]
    OBVIOUS
  <2>3. slot \in [{} -> DoneStores]
    BY <2>2
  <2> QED
    BY <1>13, <2>1, <2>3 DEF SpeculativeStoresAreDone
<1>16. ClearOK
  BY <1>6 DEF ClearOK, LdWaits, Aborting, Cleared
<1>17. NonIdempotentLoadsWait
  BY DEF NonIdempotentLoadsWait, Cleared
<1> QED
  BY <1>1, <1>7, <1>8, <1>9, <1>10, <1>11, <1>12, <1>14, <1>15, <1>16, <1>17 DEF LsuInv

\* The same of the next state.
LEMMA ClearedNext == Cleared' => LsuInv'
BY ClearedInv, PTL

\* Only the load that was granted last occupies the buffer.
LEMMA LoadBufferValid ==
  ASSUME LsuInv, NEW hit \in BOOLEAN, NEW done \in BOOLEAN, NEW granted \in BOOLEAN,
         NEW not_ni \in BOOLEAN, NEW flush \in BOOLEAN,
         LoadPart(hit, done, granted, not_ni, flush), NEW j \in LdBufSlots
  PROVE  ldbuf'[j].valid <=> /\ j = dc_id'
                             /\ granted \/ (ldbuf[j].valid /\ ~rvalid_now(done))
BY LoadBufferMoves

\* A flush leaves the load unit without a request; what is on its way is killed.
LEMMA LoadFlush ==
  ASSUME LsuInv, NEW hit \in BOOLEAN, NEW done \in BOOLEAN, NEW granted \in BOOLEAN,
         NEW not_ni \in BOOLEAN, NEW flush \in BOOLEAN, flush,
         LoadPart(hit, done, granted, not_ni, flush)
  PROVE  /\ LdPortOK' /\ ld_state' = "WAIT_FLUSH"
         /\ \A j \in LdBufSlots : ~Live(j)'
         /\ load_out' \in [valid : BOOLEAN, tid : Slots, ex : BOOLEAN]
<1> DEFINE rvalid == rvalid_now(done)
<1>1. LsuTypes /\ LdPortOK /\ QueueOK
  BY DEF LsuInv
<1>2. /\ dc_id' = ldbuf_last_id' /\ dc_id' \in LdBufSlots
      /\ dc_state' = "READ" <=> granted
      /\ dc_state' = "MISS" <=> ~granted /\ dc_state \in {"READ", "MISS"} /\ ~rvalid
      /\ ~granted => dc_id' = dc_id
  BY LoadPortMoves
<1>3. \A j \in LdBufSlots :
        ldbuf'[j].valid <=> j = dc_id' /\ (granted \/ (ldbuf[j].valid /\ ~rvalid))
  BY LoadBufferValid
<1>4. ld_state' = "WAIT_FLUSH"
  BY DEF LoadPart, LdStateNext
<1>5. /\ dc_id \in LdBufSlots
      /\ \A j \in LdBufSlots : ldbuf[j].valid <=> dc_state \in {"READ", "MISS"} /\ j = dc_id
  BY <1>1 DEF LdPortOK, LsuTypes
<1>6. rvalid \in BOOLEAN
  BY DEF rvalid_now, data_rvalid
<1> HIDE DEF rvalid
<1>7. LdPortOK'
  <2>1. \A j \in LdBufSlots : ldbuf'[j].valid <=> dc_state' \in {"READ", "MISS"} /\ j = dc_id'
    BY <1>2, <1>3, <1>5
  <2> QED
    BY <1>2, <1>4, <2>1 DEF LdPortOK, Aborting
<1>8. \A j \in LdBufSlots : ~Live(j)'
  BY <1>2, <1>3, <1>4 DEF Live
<1>9. /\ load_out' = IF LdFaults(ld_valid_i, rvalid, ex_q)
                     THEN [valid |-> TRUE, tid |-> lsu_ctrl_now.tid, ex |-> TRUE]
                     ELSE IF LdRetires(rvalid, dc_id, ex_q)
                     THEN [valid |-> TRUE, tid |-> ldbuf[dc_id].tid,
                           ex |-> ex_q /\ ld_state = "SEND_TAG"]
                     ELSE NoLoad
  BY DEF LoadPart, rvalid
<1>10. /\ lsu_ctrl_now.tid \in Slots /\ ldbuf[dc_id].tid \in Slots /\ 0 \in Slots
       /\ (ex_q /\ ld_state = "SEND_TAG") \in BOOLEAN
  BY <1>1, <1>5, HeadIs, LsuAssumption DEF LsuTypes, LsuCtrl, Slots
<1>11. PICK ex \in BOOLEAN : ex = (ex_q /\ ld_state = "SEND_TAG")
  BY <1>10
<1>12. \/ load_out' = [valid |-> TRUE, tid |-> lsu_ctrl_now.tid, ex |-> TRUE]
       \/ load_out' = [valid |-> TRUE, tid |-> ldbuf[dc_id].tid, ex |-> ex]
       \/ load_out' = NoLoad
  BY <1>9, <1>11, Zenon
<1>13. load_out' \in [valid : BOOLEAN, tid : Slots, ex : BOOLEAN]
  <2>1. CASE load_out' = [valid |-> TRUE, tid |-> lsu_ctrl_now.tid, ex |-> TRUE]
    BY <1>10, <2>1
  <2>2. CASE load_out' = [valid |-> TRUE, tid |-> ldbuf[dc_id].tid, ex |-> ex]
    BY <1>10, <2>2
  <2>3. CASE load_out' = NoLoad
    BY <1>10, <2>3 DEF NoLoad
  <2> QED
    BY <1>12, <2>1, <2>2, <2>3
<1> QED
  BY <1>4, <1>7, <1>8, <1>13

\* A flush empties the AMO buffer: an AMO that commits is acknowledged.
LEMMA AmoFlush ==
  ASSUME ~SingleStep, NEW ack \in BOOLEAN, NEW flush \in BOOLEAN, flush,
         NEW hit \in BOOLEAN, NEW done \in BOOLEAN,
         ControlPart(ack, flush), StorePart(hit, done, ack, flush)
  PROVE  amo_buffer' = NoAmo
<1>1. flush_ex(ack)
  BY DEF ControlPart
<1>2. amo_valid_commit => ack
  BY <1>1 DEF amo_valid_commit, flush_ex, commit_ack, IsAmo
<1> QED
  BY <1>2 DEF StorePart, AmoBufferNext

\* A cycle with a flush leaves the unit empty.
LEMMA FlushStep ==
  ASSUME LsuInv, NoStoreFaults, ~SingleStep,
         NEW hit \in BOOLEAN, NEW done \in BOOLEAN, NEW granted \in BOOLEAN,
         NEW not_ni \in BOOLEAN, NEW ack \in BOOLEAN, NEW flush \in BOOLEAN, flush,
         Parts(hit, done, granted, not_ni, ack, flush)
  PROVE  Cleared'
<1>1. /\ ControlPart(ack, flush) /\ program' = program /\ BufferPart(flush)
      /\ FifoPart(hit, done, granted, not_ni, flush) /\ StorePart(hit, done, ack, flush)
      /\ LoadPart(hit, done, granted, not_ni, flush) /\ BoardPart(ack, flush)
  BY DEF Parts
<1>2. LsuTypes
  BY DEF LsuInv
<1>3. SBInv'
  BY <1>1, BufferStays
<1>4. /\ scoreboard' = [i \in Slots |-> Free]
      /\ issue_pointer' = 0 /\ commit_pointer' = 0 /\ issue_cnt' = 0
      /\ fu_data' = Zero
  BY <1>1 DEF BoardPart, Scoreboard
<1>5. /\ byp_mem' = [i \in 0 .. 1 |-> Zero]
      /\ byp_rd' = 0 /\ byp_wr' = 0 /\ byp_cnt' = 0
  BY <1>1 DEF FifoPart, BypassStep
<1>6. st_state' = "IDLE" /\ st_q' = Zero
  BY <1>1 DEF StorePart, StStateNext
<1>7. amo_buffer' = NoAmo
  BY <1>1, AmoFlush
<1>8. /\ LdPortOK' /\ ld_state' = "WAIT_FLUSH"
      /\ \A j \in LdBufSlots : ~Live(j)'
      /\ load_out' \in [valid : BOOLEAN, tid : Slots, ex : BOOLEAN]
  BY <1>1, LoadFlush
<1>9. ex_q' \in BOOLEAN
  BY <1>1, Zenon DEF StorePart
<1>10. speculative_status_cnt' = 0
  BY <1>1 DEF BufferPart, Cycle, CoreIf
<1>11. LsuTypes'
  <2>1. program' \in Programs
    BY <1>1, <1>2 DEF LsuTypes
  <2>2. /\ scoreboard' \in [Slots -> Instr] /\ 0 \in Slots /\ 0 \in 0 .. NR_SB_ENTRIES
    BY <1>4, FreeType, LsuAssumption DEF Slots
  <2>3. ldbuf' \in [LdBufSlots -> [valid : BOOLEAN, flushed : BOOLEAN, tid : Slots]]
    BY <1>1, LoadBufferMoves
  <2>4. ldbuf_last_id' \in LdBufSlots /\ dc_state' \in {"IDLE", "READ", "MISS", "KILL_MISS"}
    BY <1>1, LoadPortMoves
  <2>5. byp_mem' \in [0 .. 1 -> LsuCtrl(Slots)]
    BY <1>5, RequestTypes
  <2>6. fu_data' \in LsuCtrl(Slots) /\ st_q' \in LsuCtrl(Slots)
    BY <1>4, <1>6, RequestTypes
  <2>7. st_state' \in StStates /\ ld_state' \in LdStates
    BY <1>6, <1>8 DEF StStates, LdStates
  <2>8. issue_pointer' \in Slots /\ commit_pointer' \in Slots /\ issue_cnt' \in 0 .. NR_SB_ENTRIES
    BY <1>4, <2>2
  <2>9. byp_rd' \in 0 .. 1 /\ byp_wr' \in 0 .. 1 /\ byp_cnt' \in 0 .. 2
    BY <1>5
  <2> QED
    BY <1>7, <1>8, <1>9, <2>1, <2>2, <2>3, <2>4, <2>5, <2>6, <2>7, <2>8, <2>9 DEF LsuTypes
<1> QED
  BY <1>3, <1>4, <1>5, <1>6, <1>7, <1>8, <1>10, <1>11 DEF Cleared

\* The reset.
LEMMA LsuInitInv == LsuInit => LsuInv
<1> SUFFICES ASSUME LsuInit PROVE Cleared
  BY ClearedInv
<1>1. SBInv /\ speculative_status_cnt = 0
  BY SBInitInv DEF LsuInit, SBInit
<1>2. 0 \in Slots /\ 0 \in LdBufSlots
  BY LsuAssumption DEF Slots, LdBufSlots
<1>3. \A j \in LdBufSlots : ldbuf[j] = FreeSlot
  BY DEF LsuInit, LoadUnitInit
<1>4. FreeSlot \in [valid : BOOLEAN, flushed : BOOLEAN, tid : Slots] /\ ~FreeSlot.valid
  BY <1>2 DEF FreeSlot
<1>5. LdPortOK /\ \A j \in LdBufSlots : ~Live(j)
  BY <1>3, <1>4 DEF LsuInit, LoadUnitInit, LdPortOK, Live, Aborting
<1>6. LsuTypes
  <2>1. scoreboard \in [Slots -> Instr] /\ 0 \in 0 .. NR_SB_ENTRIES
    BY FreeType, LsuAssumption DEF LsuInit
  <2>2. byp_mem \in [0 .. 1 -> LsuCtrl(Slots)] /\ Zero \in LsuCtrl(Slots)
    BY RequestTypes DEF LsuInit, BypassInit
  <2>3. ldbuf \in [LdBufSlots -> [valid : BOOLEAN, flushed : BOOLEAN, tid : Slots]]
    BY <1>4 DEF LsuInit, LoadUnitInit
  <2>4. load_out \in [valid : BOOLEAN, tid : Slots, ex : BOOLEAN]
    BY <1>2 DEF LsuInit, NoLoad
  <2>5. /\ program \in Programs
        /\ issue_pointer \in Slots /\ commit_pointer \in Slots /\ issue_cnt \in 0 .. NR_SB_ENTRIES
        /\ fu_data \in LsuCtrl(Slots) /\ ex_q \in BOOLEAN
        /\ dc_state \in {"IDLE", "READ", "MISS", "KILL_MISS"}
    BY <1>2, <2>1, <2>2 DEF LsuInit
  <2>6. byp_rd \in 0 .. 1 /\ byp_wr \in 0 .. 1 /\ byp_cnt \in 0 .. 2
    BY DEF LsuInit, BypassInit
  <2>7. st_state \in StStates /\ st_q \in LsuCtrl(Slots) /\ amo_buffer \in Slots \union {NoAmo}
    BY <2>2 DEF LsuInit, StoreUnitInit, StStates
  <2>8. ld_state \in LdStates /\ ldbuf_last_id \in LdBufSlots
    BY <1>2 DEF LsuInit, LoadUnitInit, LdStates
  <2> QED
    BY <2>1, <2>2, <2>3, <2>4, <2>5, <2>6, <2>7, <2>8 DEF LsuTypes
<1> QED
  BY <1>1, <1>5, <1>6 DEF Cleared, LsuInit, BypassInit, StoreUnitInit, LoadUnitInit

\* Every cycle preserves the invariant.
LEMMA LsuNextInv ==
  ASSUME NoStoreFaults, ~SingleStep, LsuInv, [LsuNext]_vars
  PROVE  LsuInv'
<1>1. CASE LsuNext
  <2>1. PICK hit, done, granted, not_ni, ack, flush \in BOOLEAN :
          Parts(hit, done, granted, not_ni, ack, flush)
    BY <1>1, CycleParts
  <2>2. CASE flush
    BY <2>1, <2>2, FlushStep, ClearedNext
  <2>3. CASE ~flush
    BY <2>1, <2>3, QuietStep
  <2> QED
    BY <2>2, <2>3
<1>2. CASE UNCHANGED vars
  <2> USE <1>2 DEF vars, sbVars, specVars, commitVars, bypVars, stVars, ldVars, coreVars, portVars
  <2>1. SBInv'
    BY SBNextInv DEF LsuInv
  <2>2. LsuTypes' /\ WindowOK'
    BY DEF LsuInv, LsuTypes, WindowOK, Age, Occupied, IsLoad
  <2>3. QueueOK'
    BY DEF LsuInv, QueueOK, Queued, NextRequest, Own, Awaited, Age
  <2>4. WaitsOK'
    BY DEF LsuInv, WaitsOK, NextRequest
  <2>5. UnitsOK'
    BY DEF LsuInv, UnitsOK, Own, Awaited, IsLoad, InStore, InLoads, InReport, Live, Occupied,
           Queued, NextRequest, Age
  <2>6. Complete'
    BY DEF LsuInv, Complete, Awaited, InStore, InLoads, InReport, InQueue, Live, Occupied,
           Queued, NextRequest
  <2>7. LdPortOK' /\ StoreOK'
    BY DEF LsuInv, LdPortOK, StoreOK
  <2>8. DoneOK'
    BY DEF LsuInv, DoneOK, DoneStores, IsStore, Age
  <2>9. SpeculativeStoresAreDone'
    <3>1. /\ DoneStores' = DoneStores /\ speculative_status_cnt' = speculative_status_cnt
          /\ speculativeStores' = speculativeStores /\ scoreboard' = scoreboard
      BY DEF DoneStores, speculativeStores, Contents
    <3>2. PICK slot : Lists(slot)
      BY DEF LsuInv, SpeculativeStoresAreDone, Lists
    <3>3. \A j, k \in 1 .. speculative_status_cnt : j < k => Age(slot[j])' < Age(slot[k])'
      BY <3>2 DEF Lists, Age
    <3> HIDE <1>2
    <3> QED
      BY <3>1, <3>2, <3>3 DEF SpeculativeStoresAreDone, Lists
  <2>10. ClearOK'
    BY DEF LsuInv, ClearOK, Clear, InLoads, Live, NextRequest, IsStore, Age, committedStores,
           Contents
  <2>11. NonIdempotentLoadsWait'
    BY DEF LsuInv, NonIdempotentLoadsWait, Live, no_st_pending
  <2> QED
    BY <2>1, <2>2, <2>3, <2>4, <2>5, <2>6, <2>7, <2>8, <2>9, <2>10, <2>11 DEF LsuInv
<1> QED
  BY <1>1, <1>2

-----------------------------------------------------------------------------
(***************************************************************************)
(* The theorems.                                                           *)
(***************************************************************************)
\* In every state the registers of the load-store unit agree with the window of
\* the scoreboard: LsuInv is an invariant.
THEOREM LsuInvariant ==
  ASSUME Undisturbed
  PROVE  LsuSpec => []LsuInv
<1>1. LsuInit => LsuInv
  BY LsuInitInv
<1>2. LsuInv /\ [LsuNext]_vars => LsuInv'
  BY LsuNextInv DEF Undisturbed
<1> QED
  BY <1>1, <1>2, PTL DEF LsuSpec

\* The store unit and the commit stage never violate an assertion at the end of
\* store_buffer.sv.
THEOREM BufferContractKept ==
  ASSUME Undisturbed
  PROVE  LsuSpec => []BufferContract
<1>1. ASSUME LsuInv PROVE BufferContract
  <2> SUFFICES ASSUME NEW ack \in BOOLEAN
               PROVE  InputContract(store_buffer_valid(ex_q, flush_ex(ack)), commit_lsu, flush_ex(ack))
    BY DEF BufferContract
  <2>1. flush_ex(ack) \in BOOLEAN
    BY Zenon DEF flush_ex
  <2>2. PICK flush \in BOOLEAN : flush = flush_ex(ack)
    BY <2>1
  <2>3. InputContract(store_buffer_valid(ex_q, flush), commit_lsu, flush)
    BY <1>1, <2>2, ContractKept DEF Undisturbed
  <2> QED
    BY <2>2, <2>3, Zenon
<1> QED
  BY <1>1, LsuInvariant, PTL

\* The store that commit_i moves to the committed queue is the one the commit
\* stage retires: the speculative queue lists the finished stores in order.
THEOREM SpeculativeQueueExact ==
  ASSUME Undisturbed
  PROVE  LsuSpec => []SpeculativeStoresAreDone
<1>1. LsuInv => SpeculativeStoresAreDone
  BY DEF LsuInv
<1> QED
  BY <1>1, LsuInvariant, PTL

\* An AMO is sent to the cache as the oldest instruction, with no store before
\* it in the store buffer, and what is sent is its own entry of the AMO buffer.
THEOREM AmoAlwaysAlone ==
  ASSUME Undisturbed
  PROVE  LsuSpec => []AmoRunsAlone
<1>1. ASSUME LsuInv PROVE AmoRunsAlone
  <2>1. commit_pointer \in Slots
    BY <1>1 DEF LsuInv, LsuTypes
  <2>2. amo_valid_commit => amo_buffer = commit_pointer
    BY <1>1, <2>1 DEF LsuInv, DoneOK, amo_valid_commit, IsAmo, commit_instr
  <2> QED
    BY <2>2 DEF AmoRunsAlone, amo_req, no_st_pending
<1> QED
  BY <1>1, LsuInvariant, PTL

\* A result is written back only to an instruction that waits for it, a load by
\* the load unit and a store by the store unit.
THEOREM WriteBacksAlwaysOwn ==
  ASSUME Undisturbed
  PROVE  LsuSpec => []WriteBackIsOwn
<1>1. ASSUME LsuInv PROVE WriteBackIsOwn
  <2>1. LsuTypes /\ UnitsOK /\ StoreOK
    BY <1>1 DEF LsuInv
  <2>2. ASSUME load_out.valid, scoreboard[load_out.tid].at # "free"
        PROVE  /\ scoreboard[load_out.tid].at = "pending"
               /\ scoreboard[load_out.tid].kind \in LoadOps
    <3>1. PICK t \in Slots : t = load_out.tid
      BY <2>1 DEF LsuTypes
    <3>2. InReport(t)
      BY <2>2, <3>1 DEF InReport, Occupied
    <3>3. Awaited(t) /\ IsLoad(t)
      BY <2>1, <3>2 DEF UnitsOK
    <3> QED
      BY <3>1, <3>3 DEF Awaited, IsLoad
  <2>3. ASSUME st_valid_o(ex_q)
        PROVE  /\ scoreboard[st_q.tid].at = "pending"
               /\ scoreboard[st_q.tid].kind \in StoreOps
    <3>1. st_state = "VALID_STORE"
      BY <2>1, <2>3, NoStoreException
    <3>2. /\ st_q.tid \in Slots /\ Awaited(st_q.tid) /\ scoreboard[st_q.tid].at = "pending"
          /\ scoreboard[st_q.tid].kind \notin LoadOps
      BY <2>1, <3>1, InStoreIs
    <3> QED
      BY <3>2 DEF Awaited, IsLsu
  <2> QED
    BY <2>2, <2>3 DEF WriteBackIsOwn
<1> QED
  BY <1>1, LsuInvariant, PTL

\* While the cache reads for a load, no older store to its page offset is on its
\* way to the cache.
THEOREM LoadsAlwaysSeeOlderStores ==
  ASSUME Undisturbed
  PROVE  LsuSpec => []LoadsSeeOlderStores
<1>1. ASSUME LsuInv PROVE LoadsSeeOlderStores
  <2> SUFFICES ASSUME NEW j \in LdBufSlots, Live(j), NEW i \in Slots, i = ldbuf[j].tid
               PROVE  Clear(i)
    <3>1. \A j \in LdBufSlots : ldbuf[j].tid \in Slots
      BY <1>1 DEF LsuInv, LsuTypes
    <3> QED
      BY <3>1 DEF LoadsSeeOlderStores, Clear, IsStore
  <2>1. InLoads(i)
    BY DEF InLoads
  <2> QED
    BY <1>1, <2>1 DEF LsuInv, ClearOK
<1> QED
  BY <1>1, LsuInvariant, PTL

\* A load of a non-idempotent region is never executed speculatively.
THEOREM NonIdempotentLoadsAlwaysWait ==
  ASSUME Undisturbed
  PROVE  LsuSpec => []NonIdempotentLoadsWait
<1>1. LsuInv => NonIdempotentLoadsWait
  BY DEF LsuInv
<1> QED
  BY <1>1, LsuInvariant, PTL

(***************************************************************************)
(* Loads and fences.  An instruction that has read the cache is a load     *)
(* that is on its way, that is reported in this cycle, or that is done.    *)
(* One that read too early still stands behind a fence, and that fence     *)
(* flushes it when it retires.                                             *)
(***************************************************************************)
HasRead(i) ==
  \/ InLoads(i)
  \/ InReport(i) /\ ~load_out.ex
  \/ scoreboard[i].at = "done" /\ IsLoad(i)

ReadsOK ==
  /\ fenced = 0
  /\ \A i \in Slots : i \in early /\ HasRead(i) => \E f \in Slots : FenceBefore(f, i)

\* No store that precedes a fence stays in the commit queue when the fence
\* retires, and a read is marked in the cycle of its grant only.
LEMMA ReadMarks ==
  ASSUME ReadsOK, NEW ack \in BOOLEAN, NEW granted \in BOOLEAN, ReadPart(granted, ack)
  PROVE  /\ fenced' = 0
         /\ \A i \in Slots : i \in early' =>
              \/ \E f \in Slots : FenceBefore(f, i)
              \/ i \in early /\ (granted => i # lsu_ctrl_now.tid)
<1>1. PICK leaves \in BOOLEAN : Reads(granted, lsu_ctrl_now.tid, commit_ack(ack), leaves)
  BY DEF ReadPart
<1>2. fenced = 0
  BY DEF ReadsOK
<1>3. fenced' = 0
  <2>1. commit_ack(ack) /\ commit_instr.kind = "fence" => commit_status_cnt = 0
    BY DEF commit_ack, no_st_pending
  <2> QED
    BY <1>1, <1>2, <2>1 DEF Reads
<1>4. early' = IF ~granted THEN early
               ELSE IF ReadsEarly(lsu_ctrl_now.tid) THEN early \union {lsu_ctrl_now.tid}
               ELSE early \ {lsu_ctrl_now.tid}
  BY <1>1 DEF Reads
<1>5. ReadsEarly(lsu_ctrl_now.tid) => \E f \in Slots : FenceBefore(f, lsu_ctrl_now.tid)
  BY <1>2 DEF ReadsEarly
<1> QED
  BY <1>3, <1>4, <1>5, Zenon

\* In a cycle without a flush no fence retires, and one that stands before an
\* instruction stays there.
LEMMA FenceStays ==
  ASSUME LsuInv, NEW ack \in BOOLEAN, NEW flush \in BOOLEAN, ~flush, ControlPart(ack, flush),
         NEW retires \in BOOLEAN, NEW issues \in BOOLEAN, BoardMove(retires, issues),
         retires = commit_ack(ack),
         NEW f \in Slots, NEW i \in Slots, FenceBefore(f, i)
  PROVE  FenceBefore(f, i)'
<1>1. LsuTypes /\ WindowOK /\ UnitsOK
  BY DEF LsuInv
<1>2. scoreboard[f].kind = "fence" /\ Occupied(f) /\ Age(f) < Age(i)
  BY DEF FenceBefore, Occupied
<1>3. ~(retires /\ f = commit_pointer)
  BY <1>2 DEF ControlPart, flush_ex, commit_instr
<1>4. ~(retires /\ i = commit_pointer)
  <2>1. Age(f) \in 0 .. NR_SB_ENTRIES - 1 /\ (i = commit_pointer => Age(i) = 0)
    BY <1>1, AgeType
  <2> QED
    BY <1>2, <2>1, LsuAssumption
<1>5. Age(f)' < Age(i)'
  BY <1>1, <1>2, <1>3, <1>4, OrderKept
<1>6. SlotStays(f)
  <2>1. ~(issues /\ f = issue_pointer)
    BY <1>1, <1>2, IssueSlotFree DEF BoardMove, Occupied
  <2> QED
    BY <1>3, <2>1 DEF BoardMove
<1>7. scoreboard'[f].kind = "fence" /\ scoreboard'[f].at # "free"
  BY <1>2, <1>6 DEF SlotStays, Occupied
<1> QED
  BY <1>5, <1>7 DEF FenceBefore

\* An exception found while a load waits for its translation is reported as one.
LEMMA FaultReported ==
  ASSUME NEW hit \in BOOLEAN, NEW done \in BOOLEAN, NEW granted \in BOOLEAN,
         NEW not_ni \in BOOLEAN, NEW flush \in BOOLEAN,
         LoadPart(hit, done, granted, not_ni, flush), faults(done), ld_valid_i
  PROVE  load_out'.ex
<1>1. LdFaults(ld_valid_i, rvalid_now(done), ex_q)
  BY DEF faults, LdFaults
<1>2. load_out' = [valid |-> TRUE, tid |-> lsu_ctrl_now.tid, ex |-> TRUE]
  BY <1>1 DEF LoadPart
<1> QED
  BY <1>2

\* An instruction that has read after a cycle without a flush had read before
\* it, unless it is granted the cache in this cycle.
LEMMA ReadBefore ==
  ASSUME LsuInv, NEW accept \in BOOLEAN, NEW take \in BOOLEAN, NEW fault \in BOOLEAN,
         NEW answer \in BOOLEAN, UnitMove(accept, take, fault, answer),
         NEW granted \in BOOLEAN, take => granted, fault => load_out'.ex,
         NEW retires \in BOOLEAN, NEW issues \in BOOLEAN, BoardMove(retires, issues),
         NEW i \in Slots, HasRead(i)', granted => i # lsu_ctrl_now.tid
  PROVE  HasRead(i)
<1>1. LsuTypes /\ WindowOK /\ UnitsOK
  BY DEF LsuInv
<1>2. /\ InLoads(i)' <=> (take /\ i = lsu_ctrl_now.tid) \/ (InLoads(i) /\ ~answer)
      /\ InReport(i)' <=> (fault /\ i = lsu_ctrl_now.tid) \/ (InLoads(i) /\ answer)
  BY HeldMoves
<1>3. ASSUME InLoads(i)' PROVE HasRead(i)
  BY <1>2, <1>3 DEF HasRead
<1>4. ASSUME InReport(i)', ~load_out'.ex PROVE HasRead(i)
  <2>1. ~fault
    BY <1>4
  <2> QED
    BY <1>2, <1>4, <2>1 DEF HasRead
<1>5. ASSUME scoreboard'[i].at = "done", scoreboard'[i].kind \in LoadOps PROVE HasRead(i)
  <2>1. ~(issues /\ i = issue_pointer)
    BY <1>5 DEF BoardMove, Fresh, IsLsu
  <2>2. scoreboard'[i] # Free
    BY <1>5, FreeType
  <2>3. SlotStays(i)
    BY <2>1, <2>2 DEF BoardMove
  <2>4. IsLoad(i) /\ scoreboard[i].kind # "nop"
    BY <1>5, <2>3 DEF SlotStays, IsLoad, LoadOps
  <2>5. ~InStore(i)
    BY <1>1, <2>4, InStoreIs DEF InStore, IsLoad
  <2>6. CASE InReport(i)
    <3>1. ~load_out.ex
      BY <1>5, <2>3, <2>6 DEF SlotStays
    <3> QED
      BY <2>6, <3>1 DEF HasRead
  <2>7. CASE ~InReport(i)
    <3>1. scoreboard[i].at = "done"
      BY <1>5, <2>3, <2>4, <2>5, <2>7 DEF SlotStays
    <3> QED
      BY <2>4, <3>1 DEF HasRead
  <2> QED
    BY <2>6, <2>7
<1> QED
  BY <1>3, <1>4, <1>5 DEF HasRead, IsLoad

\* A cycle without a flush keeps every load that read too early behind a fence.
LEMMA ReadsQuiet ==
  ASSUME LsuInv, ReadsOK, NoStoreFaults,
         NEW hit \in BOOLEAN, NEW done \in BOOLEAN, NEW granted \in BOOLEAN,
         NEW not_ni \in BOOLEAN, NEW ack \in BOOLEAN, NEW flush \in BOOLEAN, ~flush,
         Parts(hit, done, granted, not_ni, ack, flush)
  PROVE  ReadsOK'
<1>1. /\ ControlPart(ack, flush) /\ ReadPart(granted, ack)
      /\ FifoPart(hit, done, granted, not_ni, flush) /\ StorePart(hit, done, ack, flush)
      /\ LoadPart(hit, done, granted, not_ni, flush) /\ BoardPart(ack, flush)
  BY DEF Parts
<1>2. UnitMove(accepts(hit, flush), took(hit, granted, not_ni), faults(done), rvalid_now(done))
  BY <1>1, UnitsMove
<1>3. PICK retires \in BOOLEAN, issues \in BOOLEAN :
        BoardMove(retires, issues) /\ retires = commit_ack(ack)
  BY <1>1, BoardMoves
<1>4. PICK accept \in BOOLEAN, take \in BOOLEAN, fault \in BOOLEAN, answer \in BOOLEAN :
        /\ accept = accepts(hit, flush) /\ take = took(hit, granted, not_ni)
        /\ fault = faults(done) /\ answer = rvalid_now(done)
  <2>1. /\ accepts(hit, flush) \in BOOLEAN /\ took(hit, granted, not_ni) \in BOOLEAN
        /\ faults(done) \in BOOLEAN /\ rvalid_now(done) \in BOOLEAN
    BY Zenon DEF accepts, Accepts, took, faults, rvalid_now, data_rvalid
  <2> QED
    BY <2>1
<1>5. UnitMove(accept, take, fault, answer)
  BY <1>2, <1>4, Zenon
<1>6. take => granted
  BY <1>4 DEF took
<1>7. fault => load_out'.ex
  BY <1>1, <1>4, <1>5, FaultReported DEF UnitMove
<1>8. /\ fenced' = 0
      /\ \A i \in Slots : i \in early' =>
           \/ \E f \in Slots : FenceBefore(f, i)
           \/ i \in early /\ (granted => i # lsu_ctrl_now.tid)
  BY <1>1, ReadMarks
<1>9. ASSUME NEW i \in Slots, i \in early', HasRead(i)'
      PROVE  \E f \in Slots : FenceBefore(f, i)'
  <2>1. PICK f \in Slots : FenceBefore(f, i)
    <3>1. CASE i \in early /\ (granted => i # lsu_ctrl_now.tid)
      <4>1. granted => i # lsu_ctrl_now.tid
        BY <3>1
      <4>2. HasRead(i)
        BY <1>3, <1>5, <1>9, <1>6, <1>7, <4>1, ReadBefore
      <4> QED
        BY <3>1, <4>2 DEF ReadsOK
    <3> QED
      BY <1>8, <1>9, <3>1
  <2>2. FenceBefore(f, i)'
    BY <1>1, <1>3, <2>1, FenceStays
  <2> QED
    BY <2>2
<1> QED
  BY <1>8, <1>9 DEF ReadsOK

\* A cycle with a flush leaves no instruction that has read.
LEMMA ReadsFlushed ==
  ASSUME LsuInv, ReadsOK, NoStoreFaults, ~SingleStep,
         NEW hit \in BOOLEAN, NEW done \in BOOLEAN, NEW granted \in BOOLEAN,
         NEW not_ni \in BOOLEAN, NEW ack \in BOOLEAN, NEW flush \in BOOLEAN, flush,
         Parts(hit, done, granted, not_ni, ack, flush)
  PROVE  ReadsOK'
<1>1. /\ ReadPart(granted, ack) /\ LoadPart(hit, done, granted, not_ni, flush)
      /\ BoardPart(ack, flush)
  BY DEF Parts
<1>2. fenced' = 0
  BY <1>1, ReadMarks
<1>3. \A j \in LdBufSlots : ~Live(j)'
  BY <1>1, LoadFlush
<1>4. scoreboard' = [i \in Slots |-> Free]
  BY <1>1 DEF BoardPart, Scoreboard
<1>5. ASSUME NEW i \in Slots PROVE ~HasRead(i)'
  <2>1. scoreboard'[i].at = "free"
    BY <1>4, FreeType
  <2> QED
    BY <1>3, <2>1 DEF HasRead, InLoads, InReport, Occupied
<1> QED
  BY <1>2, <1>5 DEF ReadsOK

\* A load that completes read the cache after every store that precedes a fence
\* before it: loads may run ahead of a fence, but do not survive it.
THEOREM FencesAlwaysOrderAccesses ==
  ASSUME Undisturbed
  PROVE  LsuSpec => []FencesOrderAccesses
<1>1. LsuInit => LsuInv /\ ReadsOK
  BY LsuInitInv DEF LsuInit, ReadsOK
<1>2. LsuInv /\ ReadsOK /\ [LsuNext]_vars => LsuInv' /\ ReadsOK'
  <2>1. ASSUME LsuInv, ReadsOK, LsuNext PROVE ReadsOK'
    <3>1. PICK hit, done, granted, not_ni, ack, flush \in BOOLEAN :
            Parts(hit, done, granted, not_ni, ack, flush)
      BY <2>1, CycleParts
    <3>2. CASE flush
      BY <2>1, <3>1, <3>2, ReadsFlushed DEF Undisturbed
    <3>3. CASE ~flush
      BY <2>1, <3>1, <3>3, ReadsQuiet DEF Undisturbed
    <3> QED
      BY <3>2, <3>3
  <2>2. ASSUME ReadsOK, UNCHANGED vars PROVE ReadsOK'
    BY <2>2 DEF vars, ldVars, coreVars, portVars, readVars, ReadsOK, HasRead, InLoads, Live,
                InReport, Occupied, IsLoad, FenceBefore, Age
  <2> QED
    BY <2>1, <2>2, LsuNextInv DEF Undisturbed
<1>3. ASSUME LsuInv, ReadsOK PROVE FencesOrderAccesses
  <2>1. LsuTypes
    BY <1>3 DEF LsuInv
  <2>2. PICK c \in Slots : c = commit_pointer
    BY <2>1 DEF LsuTypes
  <2>3. ASSUME commit_instr.at = "done", commit_instr.kind \in LoadOps, c \in early PROVE FALSE
    <3>1. HasRead(c)
      BY <2>2, <2>3 DEF HasRead, IsLoad, commit_instr
    <3>2. PICK f \in Slots : FenceBefore(f, c)
      BY <1>3, <2>3, <3>1 DEF ReadsOK
    <3>3. Age(f) < 0 /\ Age(f) \in 0 .. NR_SB_ENTRIES - 1
      BY <2>1, <2>2, <3>2, AgeType DEF FenceBefore
    <3> QED
      BY <3>3, LsuAssumption
  <2> QED
    BY <2>2, <2>3 DEF FencesOrderAccesses
<1> QED
  BY <1>1, <1>2, <1>3, PTL DEF LsuSpec

\* The unit drives the store buffer as its specification asks, so that what is
\* proved of the buffer holds inside the unit.
THEOREM LsuDrivesStoreBuffer ==
  ASSUME Undisturbed
  PROVE  LsuSpec => SBSpec
<1>1. LsuInit => SBInit
  BY DEF LsuInit
<1>2. ASSUME LsuInv, LsuNext PROVE SBNext
  <2>1. PICK hit, done, granted, not_ni, ack, flush \in BOOLEAN :
          Parts(hit, done, granted, not_ni, ack, flush)
    BY <1>2, CycleParts
  <2>2. ControlPart(ack, flush) /\ BufferPart(flush)
    BY <2>1 DEF Parts
  <2> QED
    BY <1>2, <2>2, BufferStays DEF Undisturbed
<1>3. LsuInv /\ [LsuNext]_vars => [SBNext]_sbVars
  BY <1>2 DEF vars
<1> QED
  BY <1>1, <1>3, LsuInvariant, PTL DEF LsuSpec, SBSpec

\* Inside the unit too the rings of the store buffer stay consistent, its address
\* check is exact, and it implements one queue of stores.
THEOREM LsuStoreQueue ==
  ASSUME Undisturbed
  PROVE  LsuSpec => []RingsConsistent /\ []PageOffsetExact /\ ImplementsStoreQueue
BY LsuDrivesStoreBuffer, RingsAlwaysConsistent, AddressCheckExact, RingsImplementStoreQueue, PTL

-----------------------------------------------------------------------------
\* The number of places of a kind that hold a request of slot i is 0 or 1.
LEMMA AtMostOne ==
  ASSUME NEW A, NEW held \in BOOLEAN, ~held => A = {}, held => \E x : A = {x}
  PROVE  Cardinality(A) = IF held THEN 1 ELSE 0
BY FS_EmptySet, FS_Singleton

\* The request of an instruction in the queue is there once.
LEMMA QueuedOnce ==
  ASSUME LsuInv, NEW i \in Slots
  PROVE  LET fifo == {k \in 0 .. 1 : InFifo(k) /\ FifoEntry(k).valid /\ FifoEntry(k).tid = i}
         IN  /\ fu_data.valid /\ fu_data.tid = i => InQueue(i) /\ fifo = {}
             /\ fifo # {} => InQueue(i) /\ \E x : fifo = {x}
             /\ InQueue(i) => (fu_data.valid /\ fu_data.tid = i) \/ fifo # {}
<1> DEFINE fifo == {k \in 0 .. 1 : InFifo(k) /\ FifoEntry(k).valid /\ FifoEntry(k).tid = i}
<1>1. LsuTypes /\ QueueOK
  BY DEF LsuInv
<1>2. \A k \in 0 .. 1 : Queued(k) => NextRequest(k).valid /\ NextRequest(k).tid \in Slots
  <2> SUFFICES ASSUME NEW k \in 0 .. 1, Queued(k)
               PROVE  NextRequest(k).valid /\ NextRequest(k).tid \in Slots
    OBVIOUS
  <2>1. Own(NextRequest(k)) /\ NextRequest(k).tid \in Slots
    BY QueuedIs
  <2>2. NextRequest(k) = Request(NextRequest(k).tid, scoreboard[NextRequest(k).tid])
    BY <2>1 DEF Own
  <2> QED
    BY <2>1, <2>2, RequestIs
<1>3. \A k \in 0 .. 1 : InFifo(k) => Queued(k) /\ FifoEntry(k) = NextRequest(k)
  BY DEF InFifo, FifoEntry, Queued, NextRequest
<1>4. \A k \in 0 .. 1 : k \in fifo <=> InFifo(k) /\ NextRequest(k).tid = i
  BY <1>2, <1>3
<1>5. ASSUME fu_data.valid
      PROVE  byp_cnt \in 0 .. 1 /\ Queued(byp_cnt) /\ NextRequest(byp_cnt) = fu_data
  BY <1>1, <1>5 DEF LsuTypes, QueueOK, Queued, NextRequest
<1>6. ~(Queued(0) /\ Queued(1) /\ NextRequest(0).tid = i /\ NextRequest(1).tid = i)
  <2>1. Age(i) \in Int
    BY <1>1, AgeType
  <2> QED
    BY <1>1, <2>1 DEF QueueOK
<1>7. \A k \in 0 .. 1 : InFifo(k) => InFifo(0)
  BY <1>1 DEF InFifo, LsuTypes
<1>8. ASSUME fu_data.valid, fu_data.tid = i
      PROVE  InQueue(i) /\ \A k \in 0 .. 1 : k \notin fifo
  <2>1. InQueue(i)
    BY <1>5, <1>8 DEF InQueue
  <2>2. ASSUME NEW k \in 0 .. 1, k \in fifo
        PROVE  FALSE
    <3>1. InFifo(k) /\ Queued(k) /\ NextRequest(k).tid = i
      BY <1>3, <1>4, <2>2
    <3>2. byp_cnt = 1 /\ k = 0
      BY <1>5, <1>8, <3>1 DEF InFifo
    <3> QED
      BY <1>5, <1>6, <1>8, <3>1, <3>2
  <2> QED
    BY <2>1, <2>2
<1>9. ASSUME NEW k \in 0 .. 1, k \in fifo
      PROVE  InQueue(i) /\ \A q \in 0 .. 1 : q \in fifo => q = k
  <2>1. InFifo(k) /\ Queued(k) /\ NextRequest(k).tid = i
    BY <1>3, <1>4, <1>9
  <2>2. InQueue(i)
    BY <2>1 DEF InQueue
  <2>3. \A q \in 0 .. 1 : q \in fifo => Queued(q) /\ NextRequest(q).tid = i
    BY <1>3, <1>4
  <2>4. \A q \in 0 .. 1 : q \in fifo => q = k
    BY <1>6, <2>1, <2>3
  <2> QED
    BY <2>2, <2>4
<1>10. ASSUME InQueue(i)
       PROVE  (fu_data.valid /\ fu_data.tid = i) \/ \E k \in 0 .. 1 : k \in fifo
  <2>1. PICK k \in 0 .. 1 : Queued(k) /\ NextRequest(k).tid = i
    BY <1>10 DEF InQueue
  <2>2. CASE k < byp_cnt
    BY <1>4, <2>1, <2>2 DEF InFifo
  <2>3. CASE ~(k < byp_cnt)
    BY <2>1, <2>3 DEF Queued, NextRequest
  <2> QED
    BY <2>2, <2>3
<1>11. fifo \subseteq 0 .. 1
  OBVIOUS
<1> HIDE DEF fifo
<1>12. fifo # {} => InQueue(i) /\ \E x : fifo = {x}
  <2> SUFFICES ASSUME NEW k \in 0 .. 1, k \in fifo
               PROVE  InQueue(i) /\ \E x : fifo = {x}
    BY <1>11
  <2>1. fifo = {k}
    BY <1>9, <1>11
  <2> QED
    BY <1>9, <2>1
<1>13. /\ fu_data.valid /\ fu_data.tid = i => InQueue(i) /\ fifo = {}
       /\ InQueue(i) => (fu_data.valid /\ fu_data.tid = i) \/ fifo # {}
  BY <1>8, <1>10, <1>11
<1> QED
  BY <1>12, <1>13 DEF fifo

\* A number that is 1 when a place is taken and 0 when it is not.
LEMMA Flag == \A taken \in BOOLEAN : \E n \in 0 .. 1 :
                n = (IF taken THEN 1 ELSE 0) /\ (n = 1 <=> taken)
OBVIOUS

\* An awaited instruction is in one place, any other in none.
LEMMA OnePlace ==
  ASSUME LsuInv, NEW i \in Slots
  PROVE  Places(i) = IF Awaited(i) THEN 1 ELSE 0
<1> DEFINE arriving == fu_data.valid /\ fu_data.tid = i
           fifo     == {k \in 0 .. 1 : InFifo(k) /\ FifoEntry(k).valid /\ FifoEntry(k).tid = i}
           loads    == {j \in LdBufSlots : Live(j) /\ ldbuf[j].tid = i}
<1>1. LsuTypes /\ QueueOK /\ UnitsOK /\ Complete /\ LdPortOK
  BY DEF LsuInv
<1>2. /\ arriving => InQueue(i) /\ fifo = {}
      /\ fifo # {} => InQueue(i) /\ \E x : fifo = {x}
      /\ InQueue(i) => arriving \/ fifo # {}
  BY QueuedOnce
<1>3. /\ InLoads(i) => \E x : loads = {x}
      /\ ~InLoads(i) => loads = {}
  <2>1. \A j \in LdBufSlots : j \in loads => j = dc_id
    BY <1>1 DEF Live, LdPortOK
  <2> QED
    BY <2>1 DEF InLoads
<1>4. PICK a \in 0 .. 1 : a = (IF arriving THEN 1 ELSE 0) /\ (a = 1 <=> arriving)
  BY Flag
<1>5. PICK b \in 0 .. 1 : b = Cardinality(fifo) /\ (b = 1 <=> fifo # {})
  <2>1. PICK held \in BOOLEAN : held <=> fifo # {}
    OBVIOUS
  <2>2. Cardinality(fifo) = IF held THEN 1 ELSE 0
    <3>1. ~held => fifo = {}
      BY <2>1
    <3>2. held => \E x : fifo = {x}
      BY <1>2, <2>1
    <3> HIDE DEF fifo
    <3> QED
      BY <3>1, <3>2, AtMostOne
  <2> HIDE DEF fifo
  <2> QED
    BY <2>1, <2>2
<1>6. PICK c \in 0 .. 1 : c = (IF InStore(i) THEN 1 ELSE 0) /\ (c = 1 <=> InStore(i))
  BY Flag DEF InStore
<1>7. PICK d \in 0 .. 1 : d = Cardinality(loads) /\ (d = 1 <=> InLoads(i))
  <2>1. PICK held \in BOOLEAN : held <=> InLoads(i)
    OBVIOUS
  <2>2. Cardinality(loads) = IF held THEN 1 ELSE 0
    <3>1. ~held => loads = {}
      BY <1>3, <2>1
    <3>2. held => \E x : loads = {x}
      BY <1>3, <2>1
    <3> HIDE DEF loads
    <3> QED
      BY <3>1, <3>2, AtMostOne
  <2> HIDE DEF loads
  <2> QED
    BY <2>1, <2>2
<1>8. PICK e \in 0 .. 1 : e = (IF InReport(i) THEN 1 ELSE 0) /\ (e = 1 <=> InReport(i))
  BY Flag DEF InReport
<1>9. Places(i) = a + b + c + d + e
  BY <1>4, <1>5, <1>6, <1>7, <1>8, Zenon DEF Places, InStore, InReport, Occupied
<1>10. InQueue(i) => Awaited(i) /\ ~InStore(i) /\ ~InLoads(i) /\ ~InReport(i)
  <2>1. ASSUME NEW k \in 0 .. 1, Queued(k), NextRequest(k).tid = i
        PROVE  Awaited(i) /\ ~InStore(i) /\ ~InLoads(i) /\ ~InReport(i)
    BY <2>1, QueuedIs
  <2> QED
    BY <2>1 DEF InQueue
<1>11. InStore(i) => ~InLoads(i) /\ ~InReport(i)
  BY <1>1, InStoreIs DEF InStore, UnitsOK, IsLoad
<1>12. ~(InLoads(i) /\ InReport(i))
  BY <1>1 DEF UnitsOK
<1>13. InStore(i) \/ InLoads(i) \/ InReport(i) => Awaited(i)
  BY <1>1, HeldAwaited
<1>14. Awaited(i) => InStore(i) \/ InLoads(i) \/ InReport(i) \/ InQueue(i)
  BY <1>1 DEF Complete
<1> HIDE DEF arriving, fifo, loads
<1>15. /\ a = 1 => b # 1 /\ InQueue(i)
       /\ b = 1 => InQueue(i)
       /\ InQueue(i) => a = 1 \/ b = 1
  BY <1>2, <1>4, <1>5, Zenon
<1>16. CASE Awaited(i)
  <2>1. a + b + c + d + e = 1
    BY <1>6, <1>7, <1>8, <1>10, <1>11, <1>12, <1>14, <1>15, <1>16
  <2> QED
    BY <1>9, <1>16, <2>1
<1>17. CASE ~Awaited(i)
  <2>1. a + b + c + d + e = 0
    BY <1>6, <1>7, <1>8, <1>10, <1>13, <1>15, <1>17
  <2> QED
    BY <1>9, <1>17, <2>1
<1> QED
  BY <1>16, <1>17

\* A memory instruction that waits for its result is in one place of the unit,
\* and the unit holds no request of any other instruction: nothing is lost,
\* executed twice, or left over from before a flush.
THEOREM RequestsAlwaysOnce ==
  ASSUME Undisturbed
  PROVE  LsuSpec => []EveryRequestOnce
<1>1. LsuInv => EveryRequestOnce
  BY OnePlace DEF EveryRequestOnce, Awaited
<1> QED
  BY <1>1, LsuInvariant, PTL
=============================================================================
