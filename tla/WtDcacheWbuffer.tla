-------------------------- MODULE WtDcacheWbuffer ---------------------------
(***************************************************************************)
(* The write buffer of the write-through data cache                        *)
(* (wt_dcache_wbuffer.sv).  A store is merged into the entry of its word;  *)
(* its bytes are sent to memory in transactions, and when the answer is    *)
(* back they are written into the cache, if the line is there, and leave   *)
(* the buffer.  Whether the line is there is looked up in the tags two     *)
(* cycles earlier, and must be forgotten when a line of the set changes.   *)
(***************************************************************************)
EXTENDS WtDcacheMem

CONSTANTS WtDcacheWbufDepth, DCACHE_MAX_TX,
          NonIdempotent \* words whose stores go out one at a time

ASSUME WbufferAssumption ==
  WtDcacheWbufDepth \in Nat \ {0} /\ DCACHE_MAX_TX \in Nat \ {0}

VARIABLES wbuffer,    \* wbuffer_q
          tx_stat,    \* tx_stat_q
          rtrn,       \* i_rtrn_id_fifo: answered transactions
          check_q1,   \* second stage of the lookup: check_*_q1, rd_hit_oh_q
          wr_cl_q,    \* wr_cl_vld_q
          dirty_lock, \* i_dirty_rr: the entry that waits to be sent
          ni_pending  \* ni_pending_q

wbVars == <<wbuffer, tx_stat, rtrn, check_q1, wr_cl_q, dirty_lock, ni_pending>>

Slots == 0 .. WtDcacheWbufDepth - 1
TxIds == 0 .. DCACHE_MAX_TX - 1

\* The fields of an empty entry and of a free transaction are not read.
FreeSlot == [word |-> None, valid |-> {}, dirty |-> {}, txblock |-> {},
             checked |-> FALSE, hit_oh |-> {}]
FreeTx   == [vld |-> FALSE, be |-> {}, ptr |-> None]
NoCheck  == [en |-> FALSE, ptr |-> None, hit_oh |-> {}]

WbufferInit ==
  /\ wbuffer = [k \in Slots |-> FreeSlot]
  /\ tx_stat = [t \in TxIds |-> FreeTx]
  /\ rtrn = <<>> /\ check_q1 = NoCheck /\ wr_cl_q = FALSE
  /\ dirty_lock = None /\ ni_pending = {}

valid == {k \in Slots : wbuffer[k].valid # {}}
wbuffer_empty == valid = {}
tocheck == {k \in valid : ~wbuffer[k].checked}

\* Mutant: a word is sent again while a transaction is under way
bdirty_Resend(k) == wbuffer[k].dirty

bdirty(k) == IF wbuffer[k].txblock # {} THEN {} ELSE wbuffer[k].dirty

dirty == {k \in Slots : bdirty(k) # {}}

free_tx == {t \in TxIds : ~tx_stat[t].vld}

wb_miss_req == dirty # {} /\ free_tx # {}
tx_id == Min(free_tx)

\* the arbiter keeps its choice until the entry is sent
DirtyPtr == IF dirty_lock # None THEN {dirty_lock}
            ELSE IF dirty # {} THEN dirty ELSE {None}

\* toSize32, to_byte_enable4: an aligned block as a whole, else a byte
Aligned(d) == \E n \in {1, 2, 4, 8}, b \in Byte :
                 b % n = 0 /\ d = b .. b + n - 1
tx_be(k) == LET d == bdirty(k) IN IF Aligned(d) THEN d ELSE {Min(d)}

-----------------------------------------------------------------------------
(* the answered transaction *)

rtrn_id  == Head(rtrn)
rtrn_ptr == tx_stat[rtrn_id].ptr
wr_data_be == tx_stat[rtrn_id].be \ wbuffer[rtrn_ptr].dirty

evictable == rtrn # <<>> /\ wbuffer[rtrn_ptr].checked

\* the ways to write: none if the line is absent or the bytes were stored anew
wr_req == IF evictable /\ wr_data_be # {} THEN wbuffer[rtrn_ptr].hit_oh ELSE {}

evict(wr_ack) == evictable /\ (wr_req = {} \/ wr_ack)

-----------------------------------------------------------------------------
(* the store port *)

wbuffer_hit(w) == {k \in valid : wbuffer[k].word = w}
wr_ptr(w) == IF wbuffer_hit(w) # {} THEN Min(wbuffer_hit(w))
             ELSE Min(Slots \ valid)

\* Mutant: a device store is merged with the one before it
st_gnt_Merged(w) == wbuffer_hit(w) # {} \/ Slots \ valid # {}

st_gnt(w) == /\ wbuffer_hit(w) # {} \/ Slots \ valid # {}
             /\ ~(w \in NonIdempotent /\ ni_pending # {})

\* Mutant: a refill in the cycle before the lookup returns is missed
inval_hit_Now(wr_cl) == IF wr_cl THEN valid ELSE {}

\* all words are in the set that is written
inval_hit(wr_cl) == IF wr_cl \/ wr_cl_q THEN valid ELSE {}

\* p_buffer for one entry; sent: the entry whose bytes go out, or None
\* st = [word, be]: the store that is accepted, st.word = None if there is none
SlotNext(k, wr_cl, wr_ack, sent, st) ==
  LET e       == wbuffer[k]
      looked  == check_q1.en /\ check_q1.ptr = k /\ e.valid # {}
      leaves  == evict(wr_ack) /\ rtrn_ptr = k
      sends   == sent = k
      writes  == st.word # None /\ wr_ptr(st.word) = k
      be      == IF leaves THEN tx_stat[rtrn_id].be ELSE {}
      out     == IF sends THEN tx_be(k) ELSE {}
      new     == IF writes THEN st.be ELSE {}
      kept    == e.valid \ (be \ e.dirty)
      checked == /\ looked \/ e.checked
                 /\ k \notin inval_hit(wr_cl)
                 /\ kept # {} /\ ~writes
  IN  IF kept \cup new = {} THEN FreeSlot
      ELSE [word    |-> IF writes THEN st.word ELSE e.word,
            valid   |-> kept \cup new,
            dirty   |-> (e.dirty \ out) \cup new,
            txblock |-> (e.txblock \ be) \cup out,
            checked |-> checked,
            hit_oh  |-> CASE ~checked          -> {}
                          [] checked /\ looked -> check_q1.hit_oh
                          [] OTHER             -> e.hit_oh]

TxNext(t, wr_ack, sent) ==
  CASE sent # None /\ t = tx_id         ->
         [vld |-> TRUE, be |-> tx_be(sent), ptr |-> sent]
    [] evict(wr_ack) /\ t = rtrn_id     -> FreeTx
    [] OTHER                            -> tx_stat[t]

\* One cycle: ptr is the choice of the arbiter, sent says whether memory took
\* it, answer is the transaction whose answer arrives.
WbufferCycle(wr_cl, wr_ack, ptr, sent, answer, st) ==
  LET out == IF sent THEN ptr ELSE None
  IN  /\ wbuffer' = [k \in Slots |-> SlotNext(k, wr_cl, wr_ack, out, st)]
      /\ tx_stat' = [t \in TxIds |-> TxNext(t, wr_ack, out)]
      /\ rtrn' = (IF evict(wr_ack) THEN Tail(rtrn) ELSE rtrn)
                   \o (IF answer # None THEN <<answer>> ELSE <<>>)
      /\ check_q1' = IF rd_q.port = WrPort
                     THEN [en |-> TRUE, ptr |-> rd_q.slot, hit_oh |-> rd_q.hits]
                     ELSE NoCheck
      /\ wr_cl_q' = wr_cl
      /\ dirty_lock' = IF sent THEN None ELSE ptr
      /\ ni_pending' =
           {k \in Slots :
              IF st.word # None /\ wr_ptr(st.word) = k
              THEN st.word \in NonIdempotent
              ELSE k \in ni_pending /\ wbuffer'[k].valid # {}}
=============================================================================
