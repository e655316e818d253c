---------------------------- MODULE StoreBuffer -----------------------------
(***************************************************************************)
(* The store buffer of the load-store unit (core/store_buffer.sv): a       *)
(* speculative and a committed queue of stores, each a ring of registers   *)
(* with a read pointer, a write pointer, a status count and one valid bit  *)
(* per slot.  A step is one clock cycle; the parameters of Cycle are the   *)
(* input ports of that cycle.  Every component of the store path that      *)
(* talks to these ports is in LoadStoreUnit.tla; here the ports obey only  *)
(* what the assertions at the end of the source ask of them.               *)
(***************************************************************************)
EXTENDS Integers, Sequences, FiniteSets, PageOffset

CONSTANTS DEPTH_SPEC,    \* slots of the speculative queue
          DEPTH_COMMIT   \* slots of the commit queue

ASSUME DepthAssumption == /\ DEPTH_SPEC \in Nat \ {0}
                          /\ DEPTH_COMMIT \in Nat \ {0}

VARIABLES speculative_queue,          \* slot -> entry
          speculative_read_pointer,
          speculative_write_pointer,
          speculative_status_cnt,
          commit_queue,
          commit_read_pointer,
          commit_write_pointer,
          commit_status_cnt

specVars   == << speculative_queue, speculative_read_pointer,
                 speculative_write_pointer, speculative_status_cnt >>
commitVars == << commit_queue, commit_read_pointer,
                 commit_write_pointer, commit_status_cnt >>
sbVars     == << specVars, commitVars >>

SpecSlots   == 0 .. DEPTH_SPEC - 1
CommitSlots == 0 .. DEPTH_COMMIT - 1

(***************************************************************************)
(* A store is its page offset and whether it is a cache-block operation    *)
(* (cbo_op # CBO_NONE); data, byte enables and the page are carried along  *)
(* by the code without being looked at.                                    *)
(***************************************************************************)
Store == [word : Word, cbo : BOOLEAN]
Entry == [st : Store, valid : BOOLEAN, wait_rvalid : BOOLEAN]

ResetEntry == [st |-> CHOOSE s \in Store : ~s.cbo,
               valid |-> FALSE, wait_rvalid |-> FALSE]

\* The pointers are $clog2(DEPTH) bits wide: they wrap.
Wrap(p, depth) == IF p >= depth THEN p - depth ELSE p

SBInit == /\ speculative_queue = [i \in SpecSlots |-> ResetEntry]
          /\ speculative_read_pointer = 0
          /\ speculative_write_pointer = 0
          /\ speculative_status_cnt = 0
          /\ commit_queue = [i \in CommitSlots |-> ResetEntry]
          /\ commit_read_pointer = 0
          /\ commit_write_pointer = 0
          /\ commit_status_cnt = 0

-----------------------------------------------------------------------------
(***************************************************************************)
(* Outputs.                                                                *)
(***************************************************************************)
commit_ready  == commit_status_cnt < DEPTH_COMMIT
no_st_pending == commit_status_cnt = 0
store_buffer_empty == speculative_status_cnt = 0 /\ no_st_pending

\* speculative_status_cnt_n, before the flush resets it
CountAfter(valid, commit) ==
  speculative_status_cnt + (IF valid THEN 1 ELSE 0) - (IF commit THEN 1 ELSE 0)

\* ready_o: computed from the count the queue will have after this cycle
ready(valid, commit, flush) ==
  \/ (IF flush THEN 0 ELSE CountAfter(valid, commit)) < DEPTH_SPEC
  \/ commit

\* page_offset_matches_o for the page offset w; `putting' are the page offsets
\* of the store being put in this cycle (valid_without_flush_i), none or one
page_offset_matches(w, putting) ==
  \/ \E i \in CommitSlots : commit_queue[i].valid /\ commit_queue[i].st.word = w
  \/ \E i \in SpecSlots : /\ speculative_queue[i].valid
                          /\ speculative_queue[i].st.word = w
  \/ w \in putting

\* req_port_o.data_req
data_req(stall) ==
  LET head == commit_queue[commit_read_pointer]
  IN  head.valid /\ ~stall /\ ~head.wait_rvalid

-----------------------------------------------------------------------------
(***************************************************************************)
(* core_if: the speculative queue.                                         *)
(***************************************************************************)
\* Mutant: a flush resets the count and the pointer but not the valid bits.
SpecQueueNext_FlushKeepsValid(valid, st, commit, flush) ==
  [i \in SpecSlots |->
     LET old  == speculative_queue[i]
         put  == valid /\ i = speculative_write_pointer
         gone == commit /\ i = speculative_read_pointer
     IN  [st |-> IF put THEN st ELSE old.st,
          valid |-> ~gone /\ (put \/ old.valid),
          wait_rvalid |-> ~put /\ old.wait_rvalid]]

SpecQueueNext(valid, st, commit, flush) ==
  [i \in SpecSlots |->
     LET old  == speculative_queue[i]
         put  == valid /\ i = speculative_write_pointer
         gone == flush \/ (commit /\ i = speculative_read_pointer)
     IN  [st |-> IF put THEN st ELSE old.st,
          valid |-> ~gone /\ (put \/ old.valid),
          wait_rvalid |-> ~put /\ old.wait_rvalid]]

\* Mutant: a flush leaves the write pointer where it is.
CoreIf_FlushKeepsPointer(valid, st, commit, flush) ==
  /\ speculative_queue' = SpecQueueNext(valid, st, commit, flush)
  /\ speculative_read_pointer' =
       IF commit THEN Wrap(speculative_read_pointer + 1, DEPTH_SPEC)
                 ELSE speculative_read_pointer
  /\ speculative_write_pointer' =
       IF valid THEN Wrap(speculative_write_pointer + 1, DEPTH_SPEC)
                ELSE speculative_write_pointer
  /\ speculative_status_cnt' = IF flush THEN 0 ELSE CountAfter(valid, commit)

CoreIf(valid, st, commit, flush) ==
  /\ speculative_queue' = SpecQueueNext(valid, st, commit, flush)
  /\ speculative_read_pointer' =
       IF commit THEN Wrap(speculative_read_pointer + 1, DEPTH_SPEC)
                 ELSE speculative_read_pointer
  /\ speculative_write_pointer' =
       IF flush THEN speculative_read_pointer
       ELSE IF valid THEN Wrap(speculative_write_pointer + 1, DEPTH_SPEC)
       ELSE speculative_write_pointer
  /\ speculative_status_cnt' = IF flush THEN 0 ELSE CountAfter(valid, commit)

(***************************************************************************)
(* store_if: the commit queue and its request port to the data cache.  The *)
(* oldest store leaves when it is granted; a cache-block operation is      *)
(* granted, waits for its rvalid and leaves then.                          *)
(***************************************************************************)
Granted(stall, gnt) == data_req(stall) /\ gnt

Leaves(stall, gnt, rvalid) ==
  LET head == commit_queue[commit_read_pointer]
  IN  \/ Granted(stall, gnt) /\ (~head.st.cbo \/ rvalid)
      \/ head.valid /\ head.wait_rvalid /\ rvalid

\* Mutant: the entry that moves is read behind the read pointer.
MovedEntry_NextSlot ==
  [speculative_queue[Wrap(speculative_read_pointer + 1, DEPTH_SPEC)]
     EXCEPT !.valid = TRUE]

\* what a commit copies to the tail of the commit queue
MovedEntry == speculative_queue[speculative_read_pointer]

CommitQueueNext(commit, stall, gnt, rvalid) ==
  [i \in CommitSlots |->
     LET old     == commit_queue[i]
         leaves  == i = commit_read_pointer /\ Leaves(stall, gnt, rvalid)
         granted == i = commit_read_pointer /\ Granted(stall, gnt)
     IN  IF commit /\ i = commit_write_pointer
         THEN MovedEntry
         ELSE [st |-> old.st,
               valid |-> old.valid /\ ~leaves,
               wait_rvalid |-> old.wait_rvalid \/ (granted /\ ~leaves)]]

StoreIf(commit, stall, gnt, rvalid) ==
  LET leaves == Leaves(stall, gnt, rvalid)
  IN  /\ commit_queue' = CommitQueueNext(commit, stall, gnt, rvalid)
      /\ commit_read_pointer' =
           IF leaves THEN Wrap(commit_read_pointer + 1, DEPTH_COMMIT)
                     ELSE commit_read_pointer
      /\ commit_write_pointer' =
           IF commit THEN Wrap(commit_write_pointer + 1, DEPTH_COMMIT)
                     ELSE commit_write_pointer
      /\ commit_status_cnt' = commit_status_cnt + (IF commit THEN 1 ELSE 0)
                                                - (IF leaves THEN 1 ELSE 0)

Cycle(valid, st, commit, flush, stall, gnt, rvalid) ==
  /\ CoreIf(valid, st, commit, flush)
  /\ StoreIf(commit, stall, gnt, rvalid)

(***************************************************************************)
(* What the assertions commit_and_flush, speculative_buffer_overflow,      *)
(* speculative_buffer_underflow and commit_buffer_overflow require of the  *)
(* input ports.  LoadStoreUnit.tla shows that the store unit and the commit*)
(* stage keep to it, except while a debugger single-steps the core.        *)
(***************************************************************************)
InputContract(valid, commit, flush) ==
  /\ flush => ~commit
  /\ speculative_status_cnt = DEPTH_SPEC => ~valid
  /\ speculative_status_cnt = 0 => ~commit
  /\ commit_status_cnt = DEPTH_COMMIT => ~commit

SBNext ==
  \E valid, commit, flush, stall, gnt, rvalid \in BOOLEAN : \E st \in Store :
    /\ InputContract(valid, commit, flush)
    /\ Cycle(valid, st, commit, flush, stall, gnt, rvalid)

SBSpec == SBInit /\ [][SBNext]_sbVars

-----------------------------------------------------------------------------
(***************************************************************************)
(* Properties.                                                             *)
(***************************************************************************)
\* Slots hold entries, and pointers and counts stay within the depth of their
\* queue: the increments of core_if and store_if wrap and never run past it.
SBTypeOK ==
  /\ speculative_queue \in [SpecSlots -> Entry]
  /\ speculative_read_pointer \in SpecSlots
  /\ speculative_write_pointer \in SpecSlots
  /\ speculative_status_cnt \in 0 .. DEPTH_SPEC
  /\ commit_queue \in [CommitSlots -> Entry]
  /\ commit_read_pointer \in CommitSlots
  /\ commit_write_pointer \in CommitSlots
  /\ commit_status_cnt \in 0 .. DEPTH_COMMIT

\* slot i lies in the window of cnt slots that starts at the read pointer rd
InWindow(i, rd, cnt, depth) ==
  (IF i >= rd THEN i - rd ELSE i + depth - rd) < cnt

\* pointers, count and valid bits of a ring tell the same story
RingOK(queue, rd, wr, cnt, depth) ==
  /\ wr = Wrap(rd + cnt, depth)
  /\ \A i \in 0 .. depth - 1 : queue[i].valid <=> InWindow(i, rd, cnt, depth)

\* The three descriptions of each queue that the code keeps side by side (the
\* two pointers, the status count, the valid bits) never disagree, whatever
\* pushes, commits, flushes and grants coincide in a cycle (store_buffer.sv
\* core_if and store_if update them in separate statements); and only the
\* oldest committed store, and only a cache-block operation, waits for rvalid.
RingsConsistent ==
  /\ RingOK(speculative_queue, speculative_read_pointer,
            speculative_write_pointer, speculative_status_cnt, DEPTH_SPEC)
  /\ RingOK(commit_queue, commit_read_pointer,
            commit_write_pointer, commit_status_cnt, DEPTH_COMMIT)
  /\ \A i \in SpecSlots : ~speculative_queue[i].wait_rvalid
  /\ \A i \in CommitSlots :
       commit_queue[i].valid /\ commit_queue[i].wait_rvalid
         => i = commit_read_pointer /\ commit_queue[i].st.cbo

\* the stores of a ring, oldest first
Contents(queue, rd, cnt, depth) ==
  [k \in 1 .. cnt |-> queue[Wrap(rd + k - 1, depth)].st]

speculativeStores == Contents(speculative_queue, speculative_read_pointer,
                              speculative_status_cnt, DEPTH_SPEC)
committedStores   == Contents(commit_queue, commit_read_pointer,
                              commit_status_cnt, DEPTH_COMMIT)

\* The address check of a load (address_checker) sees exactly the stores that
\* are still on their way to the cache: it neither misses one, which would let
\* the load read a stale value, nor keeps matching one that was flushed or
\* drained, which would stall the load for ever.
PageOffsetExact ==
  \A w \in Word :
    page_offset_matches(w, {}) <=>
      \/ \E k \in 1 .. speculative_status_cnt : speculativeStores[k].word = w
      \/ \E k \in 1 .. commit_status_cnt : committedStores[k].word = w

\* The two rings implement one queue of stores in program order whose older
\* part survives every flush and leaves in order: no store is lost, duplicated,
\* reordered or resurrected by the rings (StoreQueue.tla).
Abstract == INSTANCE StoreQueue WITH speculative <- speculativeStores,
                                     committed <- committedStores
ImplementsStoreQueue == Abstract!Spec

=============================================================================
