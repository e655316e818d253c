--------------------------- MODULE WtDcacheProofs ---------------------------
(***************************************************************************)
(* Proofs about the write-through data cache, for every number of ways,    *)
(* lines, words, bytes, read ports, buffer entries and transactions, and   *)
(* every program: loads return what the core stored last, the bookkeeping  *)
(* of stores and misses is exact, no line is in two ways, an atomic        *)
(* operation sees the stores before it, and device stores go out alone.    *)
(***************************************************************************)
EXTENDS WtDcache, FiniteSetTheorems, SequenceTheorems, WellFoundedInduction, TLAPS

USE DcacheAssumption, ReadPortAssumption, WbufferAssumption, WorkloadAssumption

-----------------------------------------------------------------------------
(***************************************************************************)
(* The inductive invariant.                                                *)
(***************************************************************************)
Phases == {"idle", "sent", "done"}

\* the copies of bytes: in the arrays, in memory and in its messages
CopiesTyped ==
  /\ cache \in [Way -> [vld : BOOLEAN, line : Line \cup {None}, current : SUBSET Cell]]
  /\ rd_q \in [port : 0 .. WrPort \cup {None}, slot : Slots \cup {None},
               hits : SUBSET Way, current : SUBSET Byte]
  /\ main \in SUBSET Cell
  /\ m_load \in [phase : Phases, current : SUBSET Cell]
  /\ m_store \in [TxIds -> [phase : Phases, word : Word \cup {None},
                            be : SUBSET Byte, current : SUBSET Byte]]

WbufferTyped ==
  /\ wbuffer \in [Slots -> [word : Word \cup {None}, valid : SUBSET Byte, dirty : SUBSET Byte,
                            txblock : SUBSET Byte, checked : BOOLEAN, hit_oh : SUBSET Way]]
  /\ tx_stat \in [TxIds -> [vld : BOOLEAN, be : SUBSET Byte, ptr : Slots \cup {None}]]
  /\ rtrn \in Seq(TxIds)
  /\ check_q1 \in [en : BOOLEAN, ptr : Slots \cup {None}, hit_oh : SUBSET Way]
  /\ wr_cl_q \in BOOLEAN /\ dirty_lock \in Slots \cup {None} /\ ni_pending \in SUBSET Slots

MissunitTyped ==
  /\ mu_state \in MuStates /\ locked \in 0 .. WrPort \cup {None}
  /\ mshr \in [word : Word \cup {None}, nc : BOOLEAN, way : Way \cup {None},
               port : ReadPort \cup {None}]
  /\ mshr_vld \in BOOLEAN /\ mshr_vld_q1 \in BOOLEAN /\ collided \in SUBSET ReadPort
  /\ stores_inflight \in Nat /\ cache_en \in BOOLEAN /\ flush_ack_q \in BOOLEAN

CoreTyped ==
  /\ ld \in [ReadPort -> [state : CtrlStates, word : Word \cup {None}]]
  /\ program \in Programs /\ enable_i \in BOOLEAN /\ flush_i \in BOOLEAN
  /\ amo \in {"none", "req", "sent", "inv", "done"}

DcTypeOK == CopiesTyped /\ WbufferTyped /\ MissunitTyped /\ CoreTyped

-----------------------------------------------------------------------------
\* An entry holds what is dirty and what is under way, and is its word's only one.
EntriesOK ==
  /\ \A k \in Slots : wbuffer[k].valid = wbuffer[k].dirty \cup wbuffer[k].txblock
  /\ \A k \in valid : wbuffer[k].word \in Word
  /\ \A k, j \in valid : wbuffer[k].word = wbuffer[j].word => k = j

Member(q, x) == \E i \in 1 .. Len(q) : q[i] = x
Distinct(q)  == \A i, j \in 1 .. Len(q) : q[i] = q[j] => i = j

Answered(t) == Member(rtrn, t)
Inflight == {t \in TxIds : m_store[t].phase # "idle"}
Live     == {t \in TxIds : tx_stat[t].vld}

\* A transaction belongs to one entry and is either with memory or answered.
TransactionsOK ==
  /\ \A t \in TxIds : t \in Live <=> t \in Inflight \/ Answered(t)
  /\ \A t \in Inflight : ~Answered(t)
  /\ \A t \in Live : LET k == tx_stat[t].ptr
                     IN  /\ k \in Slots /\ tx_stat[t].be # {}
                         /\ wbuffer[k].txblock = tx_stat[t].be
                         /\ t \in Inflight => /\ m_store[t].word = wbuffer[k].word
                                              /\ m_store[t].be = tx_stat[t].be
  /\ \A t, u \in Live : tx_stat[t].ptr = tx_stat[u].ptr => t = u
  /\ Distinct(rtrn)
  /\ stores_inflight = Cardinality(Inflight)

\* The choice that the arbiter and the miss unit hold is still there.
ArbiterOK ==
  /\ dirty_lock # None => dirty_lock \in dirty
  /\ locked = WrPort <=> mu_state = "STORE_WAIT"
  /\ locked \in ReadPort <=> mu_state = "LOAD_WAIT"
  /\ mu_state = "STORE_WAIT" => dirty_lock # None /\ free_tx # {}

\* The port that waits for a line is the one of the MSHR.
MissOK ==
  /\ mshr_vld <=> m_load.phase # "idle"
  /\ \A p \in ReadPort :
       /\ In(p, {"MISS_WAIT", "KILL_MISS"}) <=> mshr_vld /\ mshr.port = p
       /\ In(p, {"MISS_WAIT", "KILL_MISS"}) => ld[p].word = mshr.word
       /\ ~In(p, {"IDLE"}) => ld[p].word \in Word
       /\ p \in reading => rd_q.port = p
  /\ mshr_vld => mshr.word \in Word /\ mshr.way \in Way /\ mshr.port \in ReadPort
  /\ mu_state = "LOAD_WAIT" => locked \in miss_req /\ ~mshr_vld
  /\ mu_state \in {"FLUSH", "AMO", "AMO_WAIT"} => ~mshr_vld

\* A load and a store of one line are never under way together, nor is one of
\* them while the other waits for memory to take it.
LineApart(t, w) == wbuffer[tx_stat[t].ptr].word.line # w.line

ApartOK ==
  /\ mshr_vld => \A t \in Live : LineApart(t, mshr.word)
  /\ mu_state = "LOAD_WAIT" => \A t \in Live : LineApart(t, ld[locked].word)
  /\ mu_state = "STORE_WAIT" /\ mshr_vld =>
       wbuffer[dirty_lock].word.line # mshr.word.line

\* What a lookup found is still true, unless a line was written meanwhile,
\* which is remembered.
LookupOK ==
  /\ \A p \in reading : rd_q.hits = hits_of(ld[p].word)
  /\ rd_q.port = WrPort => /\ rd_q.slot \in valid
                           /\ rd_q.hits = hits_of(wbuffer[rd_q.slot].word)
  /\ check_q1.en /\ check_q1.ptr \in valid /\ ~wr_cl_q =>
       check_q1.hit_oh = hits_of(wbuffer[check_q1.ptr].word)
  /\ \A k \in valid : wbuffer[k].checked =>
       wbuffer[k].hit_oh = hits_of(wbuffer[k].word)

\* A line that is asked for or fetched is in no way, unless its port has
\* been told to look again.
LinesOK ==
  /\ cache_en => \A w \in Word : \A y, z \in hits_of(w) : y = z
  /\ mshr_vld /\ ~mshr.nc => hits_of(mshr.word) = {}
  /\ cache_en => \A p \in miss_req : hits_of(ld[p].word) = {} \/ p \in collided
  /\ cache_en /\ mu_state = "LOAD_WAIT" => hits_of(ld[locked].word) = {}

\* Every byte is current in the buffer or, if it is not there, in all its
\* copies; what is under way is current until the core stores it anew.
DataOK ==
  /\ \A w \in Word, b \in Byte : b \notin wbuffer_be(w) =>
       /\ <<w, b>> \in main
       /\ cache_en => \A y \in hits_of(w) : <<w, b>> \in cache[y].current
       /\ m_load.phase = "done" /\ w.line = mshr.word.line => <<w, b>> \in m_load.current
       /\ \A p \in reading : ld[p].word = w /\ rd_q.hits # {} /\ cache_en => b \in rd_q.current
  /\ \A t \in Live : \A b \in tx_stat[t].be \ wbuffer[tx_stat[t].ptr].dirty :
       IF m_store[t].phase = "sent" THEN b \in m_store[t].current
       ELSE <<wbuffer[tx_stat[t].ptr].word, b>> \in main

\* An atomic operation is sent when the buffer is empty and finds no copy.
AmoOK ==
  /\ amo \in {"sent", "inv", "done"} <=> mu_state = "AMO_WAIT"
  /\ mu_state = "AMO" => amo = "req"
  /\ mu_state \in {"AMO", "AMO_WAIT"} => wbuffer_empty
  /\ amo # "none" => program.amo \in Word
  /\ amo \in {"inv", "done"} => hits_of(program.amo) = {}

\* Pending device stores are remembered, and there is at most one.
DevicesOK ==
  /\ ni_pending = ni_entries
  /\ \A k, j \in ni_entries : k = j

DcInv == /\ DcTypeOK /\ EntriesOK /\ TransactionsOK /\ ArbiterOK /\ MissOK
         /\ ApartOK /\ LookupOK /\ LinesOK /\ DataOK /\ AmoOK /\ DevicesOK
-----------------------------------------------------------------------------
(***************************************************************************)
(* A cycle, with the abbreviations of its definition named.                *)
(***************************************************************************)
At(ptr) == [p \in 0 .. WrPort |-> IF p \in ReadPort THEN ld[p].word
                                  ELSE IF ptr = None THEN None ELSE wbuffer[ptr].word]
Req  == miss_req \cup (IF wb_miss_req THEN {WrPort} ELSE {})
Busy == flush_i \/ (enable_i /\ ~cache_en) \/ amo # "none"
Mem(ptr)      == mem_req(Req, At(ptr), Busy)
Out(ptr, ack) == IF ack THEN Mem(ptr) ELSE "none"
Outdated(st)  == IF st.word = None THEN {} ELSE Cells(st.word, st.be)

WordWrite(ret, sel) ==
  wr_req # {} /\ wr_ack_o(wr_req, wbuffer[rtrn_ptr].word, wr_cl_we(ret), sel.port, rd_word(sel))

Inputs(kill, ret, ack, ptr, way, st, sel) ==
  /\ kill \in SUBSET Killable /\ ret \in Messages /\ ack \in BOOLEAN
  /\ ptr \in DirtyPtr /\ way \in Way /\ st \in StoreReqs
  /\ sel \in Selections(kill, wr_cl_vld(ret))
  /\ ack => Mem(ptr) # "none"

CoreStep(kill, ret, ack, ptr, st, sel) ==
  /\ CacheNext([we |-> wr_cl_we(ret), fill |-> ~flush_en /\ cl_write_en(ret),
                line |-> IF mshr_vld THEN mshr.word.line ELSE None,
                current |-> m_load.current],
               IF WordWrite(ret, sel)
               THEN [ways |-> wr_req, word |-> wbuffer[rtrn_ptr].word, be |-> wr_data_be]
               ELSE [ways |-> {}, word |-> None, be |-> {}],
               Outdated(st))
  /\ rd_q' = Lookup(sel, kill, Outdated(st))
  /\ WbufferCycle(wr_cl_vld(ret), WordWrite(ret, sel), ptr, Out(ptr, ack) = "store",
                  IF store_ack(ret) THEN ret.id ELSE None, st)
  /\ ld' = [p \in ReadPort |->
              CtrlNext(p, kill, wr_cl_vld(ret), sel, p \in replay(Req, At(ptr), Busy),
                       Out(ptr, ack) = "load" /\ p = miss_port(Req),
                       load_ack(ret) /\ mshr.port = p)]

CycleStep(kill, ret, ack, ptr, way, st, sel) ==
  /\ Inputs(kill, ret, ack, ptr, way, st, sel)
  /\ CoreStep(kill, ret, ack, ptr, st, sel)
  /\ MissunitCycle(Req, At(ptr), ret, ack,
                   [nc |-> Mem(ptr) = "load" /\ miss_nc(miss_port(Req)), way |-> way],
                   enable_i, flush_i, amo # "none")
  /\ MemoryNext(Out(ptr, ack), ptr, ret, Outdated(st))
  /\ EnvNext(Out(ptr, ack), ret)
  /\ program' = program

\* The steps of the specification.
LEMMA Steps ==
  ASSUME DcNext
  PROVE  \/ \E t \in TxIds : PerformStore(t)
         \/ PerformLoad
         \/ PerformAmo
         \/ \E kill, ret, ack, ptr, way, st, sel : CycleStep(kill, ret, ack, ptr, way, st, sel)
<1>1. ASSUME NEW kill \in SUBSET Killable, NEW ret \in Messages, NEW ack \in BOOLEAN,
             NEW ptr \in DirtyPtr, NEW way \in Way, NEW st \in StoreReqs,
             Cycle(kill, ret, ack, ptr, way, st)
      PROVE  \E sel : CycleStep(kill, ret, ack, ptr, way, st, sel)
  BY ZenonT(60), <1>1 DEF Cycle, CycleStep, CoreStep, Inputs, At, Req, Busy, Mem, Out, Outdated, WordWrite
<1> QED
  BY <1>1 DEF DcNext

-----------------------------------------------------------------------------
(***************************************************************************)
(* Lemmas about the parts of a cycle.                                      *)
(***************************************************************************)
\* Priority encoders (lzc, the arbiters) choose a member.
LEMMA MinIn ==
  ASSUME NEW S \in SUBSET Nat, S # {}
  PROVE  Min(S) \in S
<1> DEFINE R == OpToRel(<, Nat)
<1>1. IsWellFoundedOn(R, Nat)
  BY NatLessThanWellFounded
<1>2. \E x \in S : \A y \in S : ~(<<y, x>> \in R)
  BY <1>1, WFMin
<1>3. \A x, y \in Nat : <<y, x>> \in R <=> y < x
  BY DEF OpToRel
<1>4. PICK x \in S : \A y \in S : ~(y < x)
  BY <1>2, <1>3
<1>5. \A y \in S : x =< y
  BY <1>4
<1> QED
  BY <1>5 DEF Min

\* An entry to be sent: it has no transaction, and what goes out is dirty.
LEMMA DirtyEntry ==
  ASSUME DcInv, NEW k \in dirty
  PROVE  /\ k \in Slots /\ k \in valid /\ wbuffer[k].txblock = {}
         /\ tx_be(k) \in SUBSET Byte /\ tx_be(k) # {} /\ tx_be(k) \subseteq wbuffer[k].dirty
<1>1. k \in Slots /\ wbuffer[k].txblock = {} /\ bdirty(k) = wbuffer[k].dirty
      /\ wbuffer[k].dirty # {} /\ wbuffer[k].dirty \in SUBSET Byte
  BY DEF dirty, bdirty, DcInv, DcTypeOK, WbufferTyped
<1>2. k \in valid
  BY <1>1 DEF DcInv, EntriesOK, valid
<1>3. bdirty(k) \in SUBSET Nat
  BY <1>1 DEF Byte
<1>4. Min(bdirty(k)) \in bdirty(k)
  BY <1>1, <1>3, MinIn
<1> QED
  BY <1>1, <1>2, <1>4 DEF tx_be

\* The free transaction that a store takes.
LEMMA FreeTransaction ==
  ASSUME free_tx # {}
  PROVE  tx_id \in TxIds /\ tx_id \notin Live
<1>1. free_tx \in SUBSET Nat
  BY DEF free_tx, TxIds
<1>2. tx_id \in free_tx
  BY <1>1, MinIn DEF tx_id
<1> QED
  BY <1>2 DEF free_tx, Live

\* The transaction whose answer is processed next.
LEMMA HeadTransaction ==
  ASSUME DcInv, rtrn # <<>>
  PROVE  /\ rtrn_id \in Live /\ rtrn_id \notin Inflight /\ Answered(rtrn_id)
         /\ rtrn_ptr \in Slots /\ rtrn_ptr \in valid
         /\ wbuffer[rtrn_ptr].txblock = tx_stat[rtrn_id].be
         /\ tx_stat[rtrn_id].be # {} /\ tx_stat[rtrn_id].be \in SUBSET Byte
<1>1. rtrn \in Seq(TxIds) /\ Len(rtrn) \in Nat /\ Len(rtrn) # 0
  BY DEF DcInv, DcTypeOK, WbufferTyped
<1>2. rtrn_id = rtrn[1] /\ 1 \in 1 .. Len(rtrn) /\ rtrn_id \in TxIds
  BY <1>1 DEF rtrn_id
<1>3. Answered(rtrn_id)
  BY <1>2 DEF Answered, Member
<1>4. rtrn_id \in Live /\ rtrn_id \notin Inflight
  BY <1>2, <1>3 DEF DcInv, TransactionsOK
<1>5. rtrn_ptr \in Slots /\ wbuffer[rtrn_ptr].txblock = tx_stat[rtrn_id].be
      /\ tx_stat[rtrn_id].be # {}
  BY <1>4 DEF DcInv, TransactionsOK, rtrn_ptr
<1>6. rtrn_ptr \in valid
  BY <1>5 DEF DcInv, EntriesOK, valid
<1>7. tx_stat[rtrn_id].be \in SUBSET Byte
  BY <1>2 DEF DcInv, DcTypeOK, WbufferTyped
<1> QED
  BY <1>3, <1>4, <1>5, <1>6, <1>7

\* What the miss unit hears: a held request, or those that are not masked.
LEMMA Masked ==
  ASSUME DcInv
  PROVE  /\ Req \subseteq 0 .. WrPort
         /\ mu_state = "STORE_WAIT" => miss_req_masked(Req) = {WrPort}
         /\ mu_state = "LOAD_WAIT" => miss_req_masked(Req) = {locked} /\ miss_port(Req) = locked
         /\ mu_state \notin {"STORE_WAIT", "LOAD_WAIT"} =>
              miss_req_masked(Req) = IF mask_reads THEN Req \cap {WrPort} ELSE Req
         /\ miss_req_masked(Req) # {} => miss_port(Req) \in miss_req_masked(Req)
<1>1. Req \subseteq 0 .. WrPort
  BY DEF Req, miss_req, ReadPort, WrPort
<1>2. /\ locked \in ReadPort \cup {WrPort, None} /\ WrPort \notin ReadPort
      /\ None \notin ReadPort /\ None # WrPort
  BY DEF DcInv, DcTypeOK, MissunitTyped, ReadPort, WrPort
<1>3. /\ locked = WrPort <=> mu_state = "STORE_WAIT"
      /\ locked \in ReadPort <=> mu_state = "LOAD_WAIT"
  BY DEF DcInv, ArbiterOK
<1>4. miss_req_masked(Req) \in SUBSET Nat
  BY <1>1, <1>2 DEF miss_req_masked, ReadPort, WrPort
<1>5. miss_req_masked(Req) # {} => miss_port(Req) \in miss_req_masked(Req)
  BY <1>4, MinIn DEF miss_port
<1> QED
  BY <1>1, <1>2, <1>3, <1>5 DEF miss_req_masked

\* A store goes to memory only from a dirty entry, with a free transaction, and
\* not while its line is fetched.
LEMMA StoreRequest ==
  ASSUME DcInv, NEW ptr \in DirtyPtr, Mem(ptr) = "store"
  PROVE  /\ ptr \in dirty /\ free_tx # {}
         /\ mshr_vld => wbuffer[ptr].word.line # mshr.word.line
         /\ mu_state \in {"STORE_WAIT", "DRAIN", "IDLE"}
<1> DEFINE p == miss_port(Req)
           any == miss_req_masked(Req) # {}
<1>1. \/ mu_state = "STORE_WAIT"
      \/ mu_state = "DRAIN" /\ any /\ ~rdwr_collision(At(ptr)[WrPort])
      \/ mu_state = "IDLE" /\ any /\ p = WrPort /\ ~rdwr_collision(At(ptr)[p])
  BY DEF Mem, mem_req
<1>2. CASE mu_state = "STORE_WAIT"
  <2>1. dirty_lock # None /\ free_tx # {} /\ dirty_lock \in dirty
    BY <1>2 DEF DcInv, ArbiterOK
  <2>2. ptr = dirty_lock
    BY <2>1 DEF DirtyPtr
  <2> QED
    BY <1>2, <2>1, <2>2 DEF DcInv, ApartOK
<1>3. CASE mu_state # "STORE_WAIT"
  <2>1. WrPort \in Req /\ ~rdwr_collision(At(ptr)[WrPort]) /\ mu_state \in {"DRAIN", "IDLE"}
    BY <1>1, <1>3, Masked DEF mask_reads
  <2>2. WrPort \notin miss_req
    BY DEF miss_req, ReadPort, WrPort
  <2>3. dirty # {} /\ free_tx # {}
    BY <2>1, <2>2 DEF Req, wb_miss_req
  <2>4. ptr \in dirty
    BY <2>3 DEF DirtyPtr, DcInv, ArbiterOK
  <2>5. ptr # None /\ WrPort \notin ReadPort /\ WrPort \in 0 .. WrPort
    BY <2>4 DEF dirty, Slots, ReadPort, WrPort
  <2>6. At(ptr)[WrPort] = wbuffer[ptr].word
    BY <2>5 DEF At
  <2>7. mshr_vld => mshr.word # None
    BY DEF DcInv, MissOK
  <2> QED
    BY <2>1, <2>3, <2>4, <2>6, <2>7 DEF rdwr_collision, SameLine
<1> QED
  BY <1>2, <1>3

\* A load goes to memory only from a port that asks and is not told to look
\* again, when no load is under way and no store of its line.
LEMMA LoadRequest ==
  ASSUME DcInv, NEW ptr \in DirtyPtr, Mem(ptr) = "load"
  PROVE  LET p == miss_port(Req)
         IN  /\ p \in miss_req /\ p \in ReadPort /\ ~mshr_vld
             /\ p \notin replay(Req, At(ptr), Busy)
             /\ \A t \in Live : LineApart(t, ld[p].word)
             /\ cache_en => hits_of(ld[p].word) = {}
             /\ mu_state \in {"IDLE", "LOAD_WAIT"}
<1> DEFINE p == miss_port(Req)
           any == miss_req_masked(Req) # {}
<1>1. \/ mu_state = "LOAD_WAIT"
      \/ /\ mu_state = "IDLE" /\ any /\ p # WrPort
         /\ p \notin rdrd_collision(Req, At(ptr)) /\ ~tx_collision(At(ptr)[p])
  BY DEF Mem, mem_req
<1>2. CASE mu_state = "LOAD_WAIT"
  <2>1. p = locked
    BY <1>2, Masked
  <2>2. locked \in miss_req /\ ~mshr_vld /\ locked \in ReadPort
    BY <1>2 DEF DcInv, MissOK, miss_req
  <2>3. p \notin replay(Req, At(ptr), Busy)
    BY <1>2 DEF replay
  <2> QED
    BY <1>2, <2>1, <2>2, <2>3 DEF DcInv, ApartOK, LinesOK
<1>3. CASE mu_state # "LOAD_WAIT"
  <2>1. p \in Req /\ p # WrPort /\ ~mask_reads
    BY <1>1, <1>3, Masked
  <2>2. p \in miss_req /\ p \in ReadPort /\ ~mshr_vld
    BY <2>1 DEF Req, mask_reads, miss_req
  <2>3. p \notin collided
    BY <1>1, <1>3, <2>1 DEF rdrd_collision
  <2>4. At(ptr)[p] = ld[p].word
    BY <2>2 DEF At, ReadPort, WrPort
  <2>5. \A t \in Live : LineApart(t, ld[p].word)
    BY <1>1, <1>3, <2>4 DEF tx_collision, LineApart, Live
  <2>6. cache_en => hits_of(ld[p].word) = {}
    BY <2>2, <2>3 DEF DcInv, LinesOK
  <2>7. p \notin replay(Req, At(ptr), Busy)
    BY <1>1, <1>3 DEF replay
  <2> QED
    BY <1>1, <1>3, <2>2, <2>5, <2>6, <2>7
<1> QED
  BY <1>2, <1>3

\* There are finitely many transaction ids.
LEMMA FiniteTxIds == IsFiniteSet(TxIds)
<1>1. 0 \in Int /\ DCACHE_MAX_TX - 1 \in Int
  OBVIOUS
<1>2. IsFiniteSet(0 .. DCACHE_MAX_TX - 1)
  BY ONLY <1>1, FS_Interval
<1> QED
  BY ONLY <1>2 DEF TxIds

\* What a message from memory says of the memory side.
LEMMA MessageFacts ==
  ASSUME DcInv, NEW ret \in Messages
  PROVE  /\ ret.type \in {"none", "load", "store", "amo", "inv"} /\ ret.ways \in SUBSET Way
         /\ ret.type = "load" => m_load.phase = "done"
         /\ ret.type = "store" => ret.id \in TxIds /\ m_store[ret.id].phase = "done"
         /\ ret.type = "amo" => amo = "done"
         /\ load_ack(ret) <=> ret.type = "load"
         /\ store_ack(ret) <=> ret.type = "store"
<1>1. /\ ret.type \in {"none", "load", "store", "amo", "inv"} /\ ret.ways \in SUBSET Way
      /\ ret.type = "load" => m_load.phase = "done"
      /\ ret.type = "store" => ret.id \in TxIds /\ m_store[ret.id].phase = "done"
      /\ ret.type = "amo" => amo = "done"
  BY DEF Messages, NoMessage
<1>2. load_ack(ret) <=> ret.type = "load"
  BY <1>1 DEF load_ack, DcInv, MissOK
<1>3. ASSUME ret.type = "store" PROVE stores_inflight > 0
  <2>1. ret.id \in Inflight
    BY <1>1, <1>3 DEF Inflight
  <2>2. IsFiniteSet(Inflight)
    BY FiniteTxIds, FS_Subset DEF Inflight
  <2>3. Cardinality(Inflight) \in Nat /\ Cardinality(Inflight) # 0
    BY <2>1, <2>2, FS_CardinalityType, FS_EmptySet
  <2> QED
    BY <2>3 DEF DcInv, TransactionsOK
<1>4. store_ack(ret) <=> ret.type = "store"
  BY <1>3 DEF store_ack
<1> QED
  BY <1>1, <1>2, <1>4

\* An accepted store: its word, its bytes and its entry.
LEMMA StoreFacts ==
  ASSUME DcInv, NEW st \in StoreReqs, st.word # None
  PROVE  /\ amo = "none" /\ st.word \in Word /\ st.be \in SUBSET Byte /\ st.be # {}
         /\ wr_ptr(st.word) \in Slots
         /\ \A k \in valid : wbuffer[k].word = st.word <=> k = wr_ptr(st.word)
         /\ st.word \in NonIdempotent => ni_pending = {}
<1>1. program \in Workload /\ {} \notin program.be
  BY DEF DcInv, DcTypeOK, CoreTyped
<1>2. /\ amo = "none" /\ st.word \in program.stores /\ st.be \in program.be
      /\ st_gnt(st.word)
  BY DEF StoreReqs, NoStoreReq
<1>3. st.word \in Word /\ st.be \in SUBSET Byte /\ st.be # {}
  BY <1>1, <1>2 DEF Workload
<1>4. valid \subseteq Slots /\ Slots \subseteq Nat
  BY DEF valid, Slots
<1>5. wbuffer_hit(st.word) # {} => wr_ptr(st.word) \in wbuffer_hit(st.word)
  BY <1>4, MinIn DEF wr_ptr, wbuffer_hit
<1>6. wbuffer_hit(st.word) = {} => wr_ptr(st.word) \in Slots \ valid
  BY <1>2, <1>4, MinIn DEF wr_ptr, st_gnt
<1>7. \A k, j \in valid : wbuffer[k].word = wbuffer[j].word => k = j
  BY DEF DcInv, EntriesOK
<1> QED
  BY <1>2, <1>3, <1>4, <1>5, <1>6, <1>7 DEF wbuffer_hit, st_gnt

\* The read of a cycle: none while a line is written; a port that may read, or
\* an entry whose line is to be looked up.
LEMMA ReadFacts ==
  ASSUME DcInv, NEW kill \in SUBSET Killable, NEW wr_cl \in BOOLEAN,
         NEW sel \in Selections(kill, wr_cl)
  PROVE  /\ wr_cl => sel = NoSel
         /\ sel.port \in ReadPort \cup {WrPort, None}
         /\ sel.port = WrPort => sel.slot \in tocheck /\ sel.word = None
         /\ sel.port \in ReadPort /\ sel.word = None => sel.port \in rd_req
         /\ sel.word # None => /\ sel.port \in ReadPort /\ sel.word \in Word
                               /\ accepts(sel.port, kill, wr_cl)
<1>1. program.ports \subseteq ReadPort /\ program.loads \subseteq Word
  BY DEF DcInv, DcTypeOK, CoreTyped, Workload
<1>2. WrPort \notin ReadPort /\ None \notin ReadPort /\ None # WrPort
  BY DEF WrPort, ReadPort
<1>3. rd_req \subseteq ReadPort
  BY DEF rd_req
<1> QED
  BY <1>1, <1>2, <1>3 DEF Selections, NoSel

-----------------------------------------------------------------------------
\* The cycle's line write fills the way of the MSHR.
Fills(ret) == ret.type = "load" /\ ~mshr.nc

\* The ways that hold line l.
Holds(c, l) == {y \in Way : c[y].vld /\ c[y].line = l}

\* The ways that hit a word are those that hold its line.
LEMMA HitsHolds == \A w : hits_of(w) = Holds(cache, w.line)
BY DEF hits_of, Holds

\* A step of a way: its line is filled, discarded, or kept with the bytes that
\* leave the write buffer.
LEMMA WayStep ==
  ASSUME DcInv, NEW kill, NEW ret, NEW ack, NEW ptr, NEW way, NEW st, NEW sel,
         CycleStep(kill, ret, ack, ptr, way, st, sel), NEW y \in Way
  PROVE  /\ y \in wr_cl_we(ret) /\ Fills(ret) =>
              /\ cache'[y].vld /\ cache'[y].line = mshr.word.line
              /\ cache'[y].current = m_load.current \ Outdated(st)
         /\ y \in wr_cl_we(ret) /\ ~Fills(ret) => ~(cache'[y].vld)
         /\ y \notin wr_cl_we(ret) =>
              cache'[y].vld = cache[y].vld /\ cache'[y].line = cache[y].line
         /\ y \notin wr_cl_we(ret) /\ WordWrite(ret, sel) /\ y \in wr_req =>
              cache'[y].current =
                (cache[y].current \cup Cells(wbuffer[rtrn_ptr].word, wr_data_be)) \ Outdated(st)
         /\ y \notin wr_cl_we(ret) /\ ~(WordWrite(ret, sel) /\ y \in wr_req) =>
              cache'[y].current = cache[y].current \ Outdated(st)
         /\ cache'[y] \in [vld : BOOLEAN, line : Line \cup {None}, current : SUBSET Cell]
<1>1. ret \in Messages
  BY DEF CycleStep, Inputs
<1>2. flush_en => ~mshr_vld
  BY DEF DcInv, MissOK, flush_en
<1>3. load_ack(ret) <=> ret.type = "load" /\ mshr_vld
  BY <1>1, MessageFacts DEF load_ack
<1> DEFINE wr == IF WordWrite(ret, sel)
                 THEN [ways |-> wr_req, word |-> wbuffer[rtrn_ptr].word, be |-> wr_data_be]
                 ELSE [ways |-> {}, word |-> None, be |-> {}]
           fill == ~flush_en /\ cl_write_en(ret)
           line == IF mshr_vld THEN mshr.word.line ELSE None
<1>4. cache'[y] =
        CASE y \in wr_cl_we(ret) /\ fill ->
               [vld |-> TRUE, line |-> line, current |-> m_load.current \ Outdated(st)]
          [] y \in wr_cl_we(ret) /\ ~fill -> EmptyWay
          [] y \notin wr_cl_we(ret) /\ y \in wr.ways ->
               [cache[y] EXCEPT !.current = (@ \cup Cells(wr.word, wr.be)) \ Outdated(st)]
          [] OTHER -> [cache[y] EXCEPT !.current = @ \ Outdated(st)]
  BY Zenon DEF CycleStep, CoreStep, CacheNext
<1>5. /\ WordWrite(ret, sel) => wr.ways = wr_req /\ wr.word = wbuffer[rtrn_ptr].word
                                /\ wr.be = wr_data_be
      /\ ~WordWrite(ret, sel) => wr.ways = {}
  OBVIOUS
<1>6. cache[y] \in [vld : BOOLEAN, line : Line \cup {None}, current : SUBSET Cell]
  BY DEF DcInv, DcTypeOK, CopiesTyped
<1>7. (fill <=> Fills(ret)) /\ (fill => line = mshr.word.line)
  BY <1>1, <1>2, <1>3, MessageFacts DEF cl_write_en, Fills
<1>8. line \in Line \cup {None}
  BY DEF DcInv, MissOK, Line
<1>9. m_load.current \in SUBSET Cell
  BY DEF DcInv, DcTypeOK, CopiesTyped
<1>10. WordWrite(ret, sel) => Cells(wbuffer[rtrn_ptr].word, wr_data_be) \in SUBSET Cell
  <2>1. WordWrite(ret, sel) => rtrn # <<>>
    BY DEF WordWrite, wr_req, evictable
  <2>2. ASSUME rtrn # <<>> PROVE rtrn_ptr \in valid /\ tx_stat[rtrn_id].be \in SUBSET Byte
    BY <2>2, HeadTransaction
  <2>3. rtrn_ptr \in valid => wbuffer[rtrn_ptr].word \in Word
    BY DEF DcInv, EntriesOK
  <2> QED
    BY <2>1, <2>2, <2>3 DEF Cells, Cell, wr_data_be
<1> HIDE DEF wr, fill, line
<1>11. CASE y \in wr_cl_we(ret) /\ fill
  <2>1. cache'[y] = [vld |-> TRUE, line |-> line, current |-> m_load.current \ Outdated(st)]
    BY <1>4, <1>11
  <2> DEFINE new == m_load.current \ Outdated(st)
  <2>2. new \in SUBSET Cell
    BY <1>9
  <2>3. Fills(ret) /\ line = mshr.word.line
    BY <1>7, <1>11
  <2> HIDE DEF new
  <2>4. /\ cache'[y].vld /\ cache'[y].line = line /\ cache'[y].current = new
        /\ cache'[y] \in [vld : BOOLEAN, line : Line \cup {None}, current : SUBSET Cell]
    BY <2>1, <2>2, <1>8 DEF new
  <2> QED
    BY <2>3, <2>4, <1>11 DEF new
<1>12. CASE y \in wr_cl_we(ret) /\ ~fill
  <2>1. cache'[y] = EmptyWay
    BY <1>4, <1>12
  <2>2. ~Fills(ret)
    BY <1>7, <1>12
  <2>3. /\ ~(cache'[y].vld)
        /\ cache'[y] \in [vld : BOOLEAN, line : Line \cup {None}, current : SUBSET Cell]
    BY <2>1 DEF EmptyWay
  <2> QED
    BY <2>2, <2>3, <1>12
<1>13. CASE y \notin wr_cl_we(ret) /\ y \in wr.ways
  <2>1. cache'[y] = [cache[y] EXCEPT !.current = (@ \cup Cells(wr.word, wr.be)) \ Outdated(st)]
    BY <1>4, <1>13
  <2>2. WordWrite(ret, sel)
    BY <1>5, <1>13
  <2> DEFINE new == (cache[y].current \cup Cells(wbuffer[rtrn_ptr].word, wr_data_be)) \ Outdated(st)
  <2>3. cache'[y] = [cache[y] EXCEPT !.current = new]
    BY <2>1, <2>2, <1>5
  <2>4. new \in SUBSET Cell
    BY <2>2, <1>6, <1>10
  <2>5. y \in wr_req
    BY <2>2, <1>5, <1>13
  <2> HIDE DEF new
  <2>6. /\ cache'[y].vld = cache[y].vld /\ cache'[y].line = cache[y].line
        /\ cache'[y].current = new
        /\ cache'[y] \in [vld : BOOLEAN, line : Line \cup {None}, current : SUBSET Cell]
    BY <2>3, <2>4, <1>6
  <2> QED
    BY <2>2, <2>5, <2>6, <1>13 DEF new
<1>14. CASE y \notin wr_cl_we(ret) /\ y \notin wr.ways
  <2>1. cache'[y] = [cache[y] EXCEPT !.current = @ \ Outdated(st)]
    BY <1>4, <1>14
  <2> DEFINE new == cache[y].current \ Outdated(st)
  <2>2. cache'[y] = [cache[y] EXCEPT !.current = new]
    BY <2>1
  <2>3. new \in SUBSET Cell
    BY <1>6
  <2>4. ~(WordWrite(ret, sel) /\ y \in wr_req)
    BY <1>5, <1>14
  <2> HIDE DEF new
  <2>5. /\ cache'[y].vld = cache[y].vld /\ cache'[y].line = cache[y].line
        /\ cache'[y].current = new
        /\ cache'[y] \in [vld : BOOLEAN, line : Line \cup {None}, current : SUBSET Cell]
    BY <2>2, <2>3, <1>6
  <2> QED
    BY <2>4, <2>5, <1>14 DEF new
<1> QED
  BY <1>11, <1>12, <1>13, <1>14

\* Which ways hold a line after a cycle.
LEMMA LineStep ==
  ASSUME DcInv, NEW kill, NEW ret, NEW ack, NEW ptr, NEW way, NEW st, NEW sel,
         CycleStep(kill, ret, ack, ptr, way, st, sel)
  PROVE  /\ wr_cl_vld(ret) \in BOOLEAN
         /\ flush_en => wr_cl_vld(ret) /\ ~mshr_vld /\ ret.type # "load"
         /\ Fills(ret) => wr_cl_vld(ret) /\ mshr_vld
         /\ ~wr_cl_vld(ret) => wr_cl_we(ret) = {}
         /\ \A l : Holds(cache', l) = IF flush_en THEN {}
                    ELSE IF ret.type = "inv" THEN Holds(cache, l) \ ret.ways
                    ELSE IF Fills(ret)
                      THEN (Holds(cache, l) \ {mshr.way}) \cup
                           (IF l = mshr.word.line THEN {mshr.way} ELSE {})
                    ELSE Holds(cache, l)
         /\ ~wr_cl_vld(ret) => \A l : Holds(cache', l) = Holds(cache, l)
<1>1. ret \in Messages
  BY DEF CycleStep, Inputs
<1>2. flush_en => ~mshr_vld
  BY DEF DcInv, MissOK, flush_en
<1>3. /\ load_ack(ret) <=> ret.type = "load"
      /\ load_ack(ret) => mshr_vld
      /\ ret.ways \in SUBSET Way
  BY <1>1, MessageFacts DEF load_ack
<1>4. wr_cl_we(ret) = IF flush_en THEN Way ELSE IF ret.type = "inv" THEN ret.ways
                      ELSE IF Fills(ret) THEN {mshr.way} ELSE {}
  BY <1>2, <1>3 DEF wr_cl_we, cl_write_en, Fills
<1>5. ~flush_en /\ cl_write_en(ret) <=> Fills(ret)
  BY <1>2, <1>3 DEF cl_write_en, Fills
<1>6. wr_cl_vld(ret) \in BOOLEAN
  BY DEF wr_cl_vld, load_ack
<1>7. /\ flush_en => wr_cl_vld(ret) /\ ~mshr_vld /\ ret.type # "load"
      /\ Fills(ret) => wr_cl_vld(ret) /\ mshr_vld
      /\ ~wr_cl_vld(ret) => wr_cl_we(ret) = {}
  BY <1>2, <1>3, <1>4 DEF wr_cl_vld, Fills
<1>8. ASSUME NEW y \in Way
      PROVE  /\ y \in wr_cl_we(ret) /\ Fills(ret) =>
                  cache'[y].vld /\ cache'[y].line = mshr.word.line
             /\ y \in wr_cl_we(ret) /\ ~Fills(ret) => ~(cache'[y].vld)
             /\ y \notin wr_cl_we(ret) =>
                  cache'[y].vld = cache[y].vld /\ cache'[y].line = cache[y].line
  BY WayStep
<1>9. Fills(ret) => mshr.way \in Way
  BY <1>7 DEF DcInv, MissOK
<1>10. ASSUME NEW l
       PROVE  Holds(cache', l) = IF flush_en THEN {}
                    ELSE IF ret.type = "inv" THEN Holds(cache, l) \ ret.ways
                    ELSE IF Fills(ret)
                      THEN (Holds(cache, l) \ {mshr.way}) \cup
                           (IF l = mshr.word.line THEN {mshr.way} ELSE {})
                    ELSE Holds(cache, l)
  BY <1>3, <1>4, <1>7, <1>8, <1>9 DEF Holds, Fills
<1>11. ASSUME ~wr_cl_vld(ret), NEW l PROVE Holds(cache', l) = Holds(cache, l)
  <2>1. wr_cl_we(ret) = {} /\ ~flush_en /\ ~Fills(ret)
    BY <1>7, <1>11
  <2> QED
    BY ZenonT(60), <2>1, <1>4, <1>10
<1> QED
  BY <1>6, <1>7, <1>10, <1>11

-----------------------------------------------------------------------------
\* What happens to entry k of the write buffer in a cycle.
Evicts(ret, sel)    == evict(WordWrite(ret, sel))
Leaves(k, ret, sel) == Evicts(ret, sel) /\ rtrn_ptr = k
Sends(k, ptr, ack)  == Out(ptr, ack) = "store" /\ ptr = k
Writes(k, st)       == st.word # None /\ wr_ptr(st.word) = k

\* A step of an entry: dirty bytes go out, stored ones come, a transaction
\* ends as a whole, and a lookup counts only if no line was written meanwhile.
LEMMA SlotStep ==
  ASSUME DcInv, NEW kill, NEW ret, NEW ack, NEW ptr, NEW way, NEW st, NEW sel,
         CycleStep(kill, ret, ack, ptr, way, st, sel), NEW k \in Slots
  PROVE  LET e == wbuffer[k]
             n == wbuffer'[k]
         IN  /\ n \in [word : Word \cup {None}, valid : SUBSET Byte, dirty : SUBSET Byte,
                       txblock : SUBSET Byte, checked : BOOLEAN, hit_oh : SUBSET Way]
             /\ n.dirty = (e.dirty \ (IF Sends(k, ptr, ack) THEN tx_be(k) ELSE {}))
                            \cup (IF Writes(k, st) THEN st.be ELSE {})
             /\ n.txblock = IF Leaves(k, ret, sel) THEN {}
                            ELSE IF Sends(k, ptr, ack) THEN tx_be(k) ELSE e.txblock
             /\ n.valid = n.dirty \cup n.txblock
             /\ n.valid # {} => n.word = IF Writes(k, st) THEN st.word ELSE e.word
             /\ n.valid # {} /\ ~Writes(k, st) => k \in valid
             /\ k \in valid /\ n.valid # {} => n.word = e.word
             /\ n.checked => /\ k \in valid /\ n.valid # {} /\ ~Writes(k, st)
                             /\ ~wr_cl_vld(ret) /\ ~wr_cl_q
                             /\ \/ /\ check_q1.en /\ check_q1.ptr = k
                                   /\ n.hit_oh = check_q1.hit_oh
                                \/ e.checked /\ n.hit_oh = e.hit_oh
<1> DEFINE e == wbuffer[k]
           n == wbuffer'[k]
           leaves == Leaves(k, ret, sel)
           sends  == Sends(k, ptr, ack)
           writes == Writes(k, st)
           be   == IF leaves THEN tx_stat[rtrn_id].be ELSE {}
           out  == IF sends THEN tx_be(k) ELSE {}
           new  == IF writes THEN st.be ELSE {}
           kept == e.valid \ (be \ e.dirty)
           looked  == check_q1.en /\ check_q1.ptr = k /\ e.valid # {}
           checked == /\ looked \/ e.checked
                      /\ k \notin inval_hit(wr_cl_vld(ret))
                      /\ kept # {} /\ ~writes
<1>1. /\ ret \in Messages /\ ack \in BOOLEAN /\ ptr \in DirtyPtr /\ st \in StoreReqs
  BY DEF CycleStep, Inputs
<1>2. Out(ptr, ack) = "store" => ptr \in dirty /\ ptr # None
  BY <1>1, StoreRequest DEF Out, dirty, Slots
<1>3. sends => /\ k \in dirty /\ k \in valid /\ e.txblock = {} /\ tx_be(k) \in SUBSET Byte
               /\ tx_be(k) # {} /\ tx_be(k) \subseteq e.dirty
  BY <1>2, DirtyEntry DEF Sends
<1>4. leaves => be = e.txblock /\ be # {} /\ be \in SUBSET Byte
  BY HeadTransaction DEF Leaves, Evicts, evict, evictable
<1>5. writes => /\ st.word \in Word /\ st.be \in SUBSET Byte /\ st.be # {}
                /\ (k \in valid => e.word = st.word)
  BY <1>1, StoreFacts DEF Writes
<1>6. e.valid = e.dirty \cup e.txblock
  BY DEF DcInv, EntriesOK
<1>7. e \in [word : Word \cup {None}, valid : SUBSET Byte, dirty : SUBSET Byte,
             txblock : SUBSET Byte, checked : BOOLEAN, hit_oh : SUBSET Way]
  BY DEF DcInv, DcTypeOK, WbufferTyped
<1>8. n = IF kept \cup new = {} THEN FreeSlot
          ELSE [word    |-> IF writes THEN st.word ELSE e.word,
                valid   |-> kept \cup new,
                dirty   |-> (e.dirty \ out) \cup new,
                txblock |-> (e.txblock \ be) \cup out,
                checked |-> checked,
                hit_oh  |-> CASE ~checked          -> {}
                              [] checked /\ looked -> check_q1.hit_oh
                              [] OTHER             -> e.hit_oh]
  <2>1. n = SlotNext(k, wr_cl_vld(ret), WordWrite(ret, sel),
                     IF Out(ptr, ack) = "store" THEN ptr ELSE None, st)
    BY DEF CycleStep, CoreStep, WbufferCycle
  <2>2. ((IF Out(ptr, ack) = "store" THEN ptr ELSE None) = k) <=> sends
    BY <1>2 DEF Sends, Slots
  <2> QED
    BY <2>1, <2>2 DEF SlotNext, Leaves, Evicts, Writes
<1>9. ~(leaves /\ sends)
  BY <1>3, <1>4
<1>10. k \in valid <=> e.valid # {}
  BY DEF valid
<1>11. check_q1.hit_oh \in SUBSET Way
  BY DEF DcInv, DcTypeOK, WbufferTyped
<1>12. checked => /\ k \in valid /\ ~wr_cl_vld(ret) /\ ~wr_cl_q /\ ~writes
  BY <1>10 DEF inval_hit
<1> HIDE DEF leaves, sends, writes, n, e
<1>13. kept = IF leaves THEN e.dirty ELSE e.valid
  BY <1>4, <1>6
<1> HIDE DEF be, kept
<1>14. /\ n \in [word : Word \cup {None}, valid : SUBSET Byte, dirty : SUBSET Byte,
                 txblock : SUBSET Byte, checked : BOOLEAN, hit_oh : SUBSET Way]
  <2>1. checked \in BOOLEAN
    BY <1>7
  <2> HIDE DEF checked, looked
  <2>2. kept \in SUBSET Byte /\ new \in SUBSET Byte /\ out \in SUBSET Byte
    BY <1>3, <1>5, <1>7, <1>13
  <2> HIDE DEF new, out
  <2>3. FreeSlot \in [word : Word \cup {None}, valid : SUBSET Byte, dirty : SUBSET Byte,
                 txblock : SUBSET Byte, checked : BOOLEAN, hit_oh : SUBSET Way]
    BY DEF FreeSlot
  <2>4. (IF writes THEN st.word ELSE e.word) \in Word \cup {None}
    BY <1>5, <1>7
  <2>5. CASE kept \cup new = {}
    BY <2>3, <2>5, <1>8
  <2>6. CASE kept \cup new # {}
    BY <2>1, <2>2, <2>4, <2>6, <1>7, <1>8, <1>11
  <2> QED
    BY <2>5, <2>6
<1>15. /\ n.dirty = (e.dirty \ out) \cup new
       /\ n.txblock = IF leaves THEN {} ELSE IF sends THEN out ELSE e.txblock
       /\ n.valid = n.dirty \cup n.txblock
       /\ n.valid = kept \cup new
  <2>1. e.dirty \subseteq kept
    BY <1>6, <1>13
  <2>2. (e.txblock \ be) \cup out = IF leaves THEN {} ELSE IF sends THEN out ELSE e.txblock
    BY <1>3, <1>4, <1>9 DEF be
  <2>3. CASE kept \cup new = {}
    <3>1. e.dirty = {} /\ new = {} /\ ~sends
      BY <2>1, <2>3, <1>3
    <3>2. ~leaves => e.txblock = {}
      BY <2>3, <1>6, <1>13
    <3>3. n.dirty = {} /\ n.txblock = {} /\ n.valid = {}
      BY <2>3, <1>8 DEF FreeSlot
    <3> QED
      BY <3>1, <3>2, <3>3, <2>3
  <2>4. CASE kept \cup new # {}
    <3>1. /\ n.dirty = (e.dirty \ out) \cup new
          /\ n.txblock = (e.txblock \ be) \cup out
          /\ n.valid = kept \cup new
      BY <2>4, <1>8
    <3>2. kept = (e.dirty \ out) \cup (IF leaves THEN {} ELSE IF sends THEN out ELSE e.txblock)
      BY <1>3, <1>6, <1>9, <1>13
    <3> QED
      BY <3>1, <3>2, <2>2
  <2> QED
    BY <2>3, <2>4
<1>16. /\ n.valid # {} => n.word = IF writes THEN st.word ELSE e.word
       /\ n.valid # {} /\ ~writes => k \in valid
       /\ k \in valid /\ n.valid # {} => n.word = e.word
  <2>1. n.valid # {} => n.word = IF writes THEN st.word ELSE e.word
    BY <1>8, <1>15
  <2>2. n.valid # {} /\ ~writes => k \in valid
    BY <1>6, <1>10, <1>13, <1>15
  <2> QED
    BY <2>1, <2>2, <1>5
<1>17. n.checked => /\ k \in valid /\ n.valid # {} /\ ~writes /\ ~wr_cl_vld(ret) /\ ~wr_cl_q
                    /\ \/ check_q1.en /\ check_q1.ptr = k /\ n.hit_oh = check_q1.hit_oh
                       \/ e.checked /\ n.hit_oh = e.hit_oh
  <2>1. CASE kept \cup new = {}
    BY <2>1, <1>8 DEF FreeSlot
  <2>2. CASE kept \cup new # {}
    <3>1. n.checked = checked
      BY <2>2, <1>8
    <3>2. checked => n.hit_oh = IF looked THEN check_q1.hit_oh ELSE e.hit_oh
      BY <2>2, <1>8
    <3> QED
      BY <2>2, <3>1, <3>2, <1>12, <1>15
  <2> QED
    BY <2>1, <2>2
<1> QED
  BY <1>14, <1>15, <1>16, <1>17 DEF e, n, leaves, sends, writes

\* The entry whose bytes go out and the transaction it takes.
LEMMA SendFacts ==
  ASSUME DcInv, NEW kill, NEW ret, NEW ack, NEW ptr, NEW way, NEW st, NEW sel,
         CycleStep(kill, ret, ack, ptr, way, st, sel), Out(ptr, ack) = "store"
  PROVE  /\ ptr \in dirty /\ ptr \in Slots /\ ptr # None
         /\ free_tx # {} /\ tx_id \in TxIds /\ tx_id \notin Live
<1>1. ack \in BOOLEAN /\ ptr \in DirtyPtr
  BY DEF CycleStep, Inputs
<1> QED
  BY <1>1, StoreRequest, FreeTransaction DEF Out, dirty, Slots

\* The transaction that ends: its bytes are written into the ways that hold
\* the line, unless there are none or the bytes have been stored anew.
LEMMA EvictFacts ==
  ASSUME DcInv, NEW ret, NEW sel, Evicts(ret, sel)
  PROVE  /\ rtrn # <<>> /\ rtrn_id \in Live /\ rtrn_id \notin Inflight
         /\ rtrn_ptr \in valid /\ wbuffer[rtrn_ptr].checked
         /\ \/ wr_data_be = {} \/ wbuffer[rtrn_ptr].hit_oh = {}
            \/ WordWrite(ret, sel)
BY HeadTransaction DEF Evicts, evict, evictable, wr_req

\* A step of a transaction.
LEMMA TxStep ==
  ASSUME DcInv, NEW kill, NEW ret, NEW ack, NEW ptr, NEW way, NEW st, NEW sel,
         CycleStep(kill, ret, ack, ptr, way, st, sel), NEW t \in TxIds
  PROVE  tx_stat'[t] = IF Out(ptr, ack) = "store" /\ t = tx_id
                       THEN [vld |-> TRUE, be |-> tx_be(ptr), ptr |-> ptr]
                       ELSE IF Evicts(ret, sel) /\ t = rtrn_id THEN FreeTx ELSE tx_stat[t]
<1>1. tx_stat' = [u \in TxIds |-> TxNext(u, WordWrite(ret, sel),
                                         IF Out(ptr, ack) = "store" THEN ptr ELSE None)]
  BY DEF CycleStep, CoreStep, WbufferCycle
<1>2. Out(ptr, ack) = "store" => ptr # None /\ tx_id \notin Live
  BY SendFacts
<1>3. Evicts(ret, sel) => rtrn_id \in Live
  BY EvictFacts
<1> QED
  BY <1>1, <1>2, <1>3 DEF TxNext, Evicts

\* A step of the queue of answered transactions.
LEMMA QueueStep ==
  ASSUME DcInv, NEW kill, NEW ret, NEW ack, NEW ptr, NEW way, NEW st, NEW sel,
         CycleStep(kill, ret, ack, ptr, way, st, sel)
  PROVE  rtrn' = (IF Evicts(ret, sel) THEN Tail(rtrn) ELSE rtrn)
                   \o (IF ret.type = "store" THEN <<ret.id>> ELSE <<>>)
<1>1. ret \in Messages
  BY DEF CycleStep, Inputs
<1>2. store_ack(ret) <=> ret.type = "store"
  BY <1>1, MessageFacts
<1>3. store_ack(ret) => ret.id # None
  BY <1>1, <1>2, MessageFacts DEF TxIds
<1> QED
  BY <1>2, <1>3 DEF CycleStep, CoreStep, WbufferCycle, Evicts

\* The bytes of c that the cycle's store does not overwrite.
Fresh(c, w, st) == {b \in c : <<w, b>> \notin Outdated(st)}

\* What memory has of the stores after a cycle.
LEMMA MemStoreStep ==
  ASSUME DcInv, NEW kill, NEW ret, NEW ack, NEW ptr, NEW way, NEW st, NEW sel,
         CycleStep(kill, ret, ack, ptr, way, st, sel), NEW t \in TxIds
  PROVE  LET m == m_store[t]
             n == m_store'[t]
         IN  /\ Out(ptr, ack) = "store" /\ t = tx_id =>
                  /\ n.phase = "sent" /\ n.word = wbuffer[ptr].word /\ n.be = tx_be(ptr)
                  /\ n.current = Fresh(tx_be(ptr), wbuffer[ptr].word, st)
             /\ ret.type = "store" /\ ret.id = t =>
                  /\ ~(Out(ptr, ack) = "store" /\ t = tx_id)
                  /\ n.phase = "idle"
             /\ ~(Out(ptr, ack) = "store" /\ t = tx_id) /\ ~(ret.type = "store" /\ ret.id = t) =>
                  /\ n.phase = m.phase /\ n.word = m.word /\ n.be = m.be
                  /\ n.current = Fresh(m.current, m.word, st)
             /\ n \in [phase : Phases, word : Word \cup {None},
                       be : SUBSET Byte, current : SUBSET Byte]
<1>1. m_store' = [u \in TxIds |->
           CASE Out(ptr, ack) = "store" /\ u = tx_id ->
                  [phase |-> "sent", word |-> wbuffer[ptr].word, be |-> tx_be(ptr),
                   current |-> Fresh(tx_be(ptr), wbuffer[ptr].word, st)]
             [] ret.type = "store" /\ ret.id = u -> NoStore
             [] OTHER -> [m_store[u] EXCEPT !.current = Fresh(@, m_store[u].word, st)]]
  BY Zenon DEF CycleStep, MemoryNext, Fresh
<1>2. ret \in Messages
  BY DEF CycleStep, Inputs
<1>3. Out(ptr, ack) = "store" => /\ tx_be(ptr) \in SUBSET Byte
                                 /\ wbuffer[ptr].word \in Word \cup {None}
  BY SendFacts, DirtyEntry DEF DcInv, DcTypeOK, WbufferTyped
<1>4. Out(ptr, ack) = "store" /\ ret.type = "store" => tx_id # ret.id
  BY <1>2, SendFacts, MessageFacts DEF Inflight, DcInv, TransactionsOK
<1>5. m_store[t] \in [phase : Phases, word : Word \cup {None},
                      be : SUBSET Byte, current : SUBSET Byte]
  BY DEF DcInv, DcTypeOK, CopiesTyped
<1>6. \A c, w : Fresh(c, w, st) \subseteq c
  BY DEF Fresh
<1>7. CASE Out(ptr, ack) = "store" /\ t = tx_id
  <2>1. m_store'[t] = [phase |-> "sent", word |-> wbuffer[ptr].word, be |-> tx_be(ptr),
                       current |-> Fresh(tx_be(ptr), wbuffer[ptr].word, st)]
    BY <1>1, <1>4, <1>7
  <2>2. Fresh(tx_be(ptr), wbuffer[ptr].word, st) \in SUBSET Byte
    BY <1>3, <1>6, <1>7
  <2> QED
    BY <2>1, <2>2, <1>3, <1>4, <1>7 DEF Phases
<1>8. CASE ret.type = "store" /\ ret.id = t
  <2>1. m_store'[t] = NoStore
    BY <1>1, <1>4, <1>8
  <2> QED
    BY <2>1, <1>4, <1>8 DEF NoStore, Phases
<1>9. CASE ~(Out(ptr, ack) = "store" /\ t = tx_id) /\ ~(ret.type = "store" /\ ret.id = t)
  <2>1. m_store'[t] = [m_store[t] EXCEPT !.current = Fresh(@, m_store[t].word, st)]
    BY <1>1, <1>9
  <2>2. Fresh(m_store[t].current, m_store[t].word, st) \in SUBSET Byte
    BY <1>5, <1>6
  <2> QED
    BY <2>1, <2>2, <1>5, <1>9
<1> QED
  BY <1>7, <1>8, <1>9

-----------------------------------------------------------------------------
(***************************************************************************)
(* A cycle preserves the bookkeeping of the stores.                        *)
(***************************************************************************)
\* A buffer word keeps one entry.
LEMMA EntriesStep ==
  ASSUME DcInv, NEW kill, NEW ret, NEW ack, NEW ptr, NEW way, NEW st, NEW sel,
         CycleStep(kill, ret, ack, ptr, way, st, sel)
  PROVE  EntriesOK'
<1>1. \A k \in Slots : /\ wbuffer'[k].valid = wbuffer'[k].dirty \cup wbuffer'[k].txblock
                       /\ wbuffer'[k].valid # {} =>
                            wbuffer'[k].word = IF Writes(k, st) THEN st.word ELSE wbuffer[k].word
                       /\ wbuffer'[k].valid # {} /\ ~Writes(k, st) => k \in valid
  BY SlotStep
<1>2. st \in StoreReqs
  BY DEF CycleStep, Inputs
<1>3. st.word # None => /\ st.word \in Word
                        /\ \A k \in valid : wbuffer[k].word = st.word <=> k = wr_ptr(st.word)
  BY <1>2, StoreFacts
<1>4. /\ \A k \in valid : wbuffer[k].word \in Word
      /\ \A k, j \in valid : wbuffer[k].word = wbuffer[j].word => k = j
  BY DEF DcInv, EntriesOK
<1>5. valid' = {k \in Slots : wbuffer'[k].valid # {}}
  BY DEF valid
<1>6. \A k \in valid' : wbuffer'[k].word \in Word
  BY <1>1, <1>3, <1>4, <1>5 DEF Writes
<1>7. ASSUME NEW k \in valid', NEW j \in valid', wbuffer'[k].word = wbuffer'[j].word
      PROVE  k = j
  <2>1. CASE Writes(k, st) /\ Writes(j, st)
    BY <2>1 DEF Writes
  <2>2. CASE Writes(k, st) /\ ~Writes(j, st)
    BY <2>2, <1>1, <1>3, <1>5, <1>7 DEF Writes
  <2>3. CASE ~Writes(k, st) /\ Writes(j, st)
    BY <2>3, <1>1, <1>3, <1>5, <1>7 DEF Writes
  <2>4. CASE ~Writes(k, st) /\ ~Writes(j, st)
    BY <2>4, <1>1, <1>4, <1>5, <1>7
  <2> QED
    BY <2>1, <2>2, <2>3, <2>4
<1> QED
  BY <1>1, <1>6, <1>7 DEF EntriesOK

\* A queue without repetitions whose head is taken.
LEMMA TailOf ==
  ASSUME NEW q \in Seq(TxIds), q # <<>>, Distinct(q)
  PROVE  /\ Tail(q) \in Seq(TxIds) /\ Distinct(Tail(q))
         /\ \A x : Member(Tail(q), x) <=> Member(q, x) /\ x # Head(q)
<1> DEFINE r == Tail(q)
<1>1. /\ Len(q) \in Nat /\ Len(q) >= 1 /\ Head(q) = q[1] /\ 1 \in 1 .. Len(q)
      /\ r \in Seq(TxIds) /\ Len(r) = Len(q) - 1
      /\ \A i \in 1 .. Len(r) : r[i] = q[i + 1]
  OBVIOUS
<1> HIDE DEF r
<1>2. \A i \in 1 .. Len(r) : i + 1 \in 1 .. Len(q) /\ i + 1 # 1
  BY <1>1
<1>3. \A i \in 1 .. Len(q) : i # 1 => i - 1 \in 1 .. Len(r) /\ r[i - 1] = q[i]
  BY <1>1
<1>4. Distinct(r)
  BY <1>1, <1>2 DEF Distinct
<1>5. ASSUME NEW x PROVE Member(r, x) <=> Member(q, x) /\ x # Head(q)
  BY <1>1, <1>2, <1>3 DEF Member, Distinct
<1> QED
  BY <1>1, <1>4, <1>5 DEF r

\* A queue without repetitions to which a new element is added.
LEMMA AppendedTo ==
  ASSUME NEW q \in Seq(TxIds), NEW x \in TxIds, Distinct(q), ~Member(q, x)
  PROVE  /\ q \o <<x>> \in Seq(TxIds) /\ Distinct(q \o <<x>>)
         /\ \A y : Member(q \o <<x>>, y) <=> Member(q, y) \/ y = x
<1> DEFINE n == Append(q, x)
<1>1. q \o <<x>> = n
  BY AppendIsConcat
<1>2. /\ n \in Seq(TxIds) /\ Len(n) = Len(q) + 1 /\ n[Len(q) + 1] = x /\ Len(q) \in Nat
      /\ \A i \in 1 .. Len(q) : n[i] = q[i]
  BY AppendProperties
<1> HIDE DEF n
<1>3. 1 .. Len(n) = (1 .. Len(q)) \cup {Len(q) + 1}
  BY <1>2
<1>4. Distinct(n)
  BY <1>2, <1>3 DEF Distinct, Member
<1>5. ASSUME NEW y PROVE Member(n, y) <=> Member(q, y) \/ y = x
  BY <1>2, <1>3 DEF Member
<1> QED
  BY <1>1, <1>2, <1>4, <1>5

\* The answered transactions after a cycle.
LEMMA AnsweredStep ==
  ASSUME DcInv, NEW kill, NEW ret, NEW ack, NEW ptr, NEW way, NEW st, NEW sel,
         CycleStep(kill, ret, ack, ptr, way, st, sel)
  PROVE  /\ rtrn' \in Seq(TxIds) /\ Distinct(rtrn')
         /\ \A t : Answered(t)' <=> \/ Answered(t) /\ ~(Evicts(ret, sel) /\ t = rtrn_id)
                                    \/ ret.type = "store" /\ t = ret.id
<1> DEFINE r == IF Evicts(ret, sel) THEN Tail(rtrn) ELSE rtrn
<1>1. ret \in Messages
  BY DEF CycleStep, Inputs
<1>2. rtrn \in Seq(TxIds) /\ Distinct(rtrn)
  BY DEF DcInv, DcTypeOK, WbufferTyped, TransactionsOK
<1>3. /\ Evicts(ret, sel) => rtrn # <<>>
      /\ rtrn' = r \o (IF ret.type = "store" THEN <<ret.id>> ELSE <<>>)
  BY EvictFacts, QueueStep
<1>4. /\ r \in Seq(TxIds) /\ Distinct(r)
      /\ \A t : Member(r, t) <=> Answered(t) /\ ~(Evicts(ret, sel) /\ t = rtrn_id)
  BY <1>2, <1>3, TailOf DEF Answered, rtrn_id
<1> HIDE DEF r
<1>5. CASE ret.type = "store"
  <2>1. ret.id \in TxIds /\ ~Answered(ret.id)
    BY <1>1, <1>5, MessageFacts DEF Inflight, DcInv, TransactionsOK
  <2>2. ~Member(r, ret.id) /\ rtrn' = r \o <<ret.id>>
    BY <1>3, <1>4, <1>5, <2>1
  <2>3. /\ rtrn' \in Seq(TxIds) /\ Distinct(rtrn')
        /\ \A t : Member(rtrn', t) <=> Member(r, t) \/ t = ret.id
    BY <1>4, <2>1, <2>2, AppendedTo
  <2> QED
    BY <1>4, <1>5, <2>3 DEF Answered, Member
<1>6. CASE ret.type # "store"
  <2>1. rtrn' = r
    BY <1>3, <1>4, <1>6
  <2> QED
    BY <1>4, <1>6, <2>1 DEF Answered, Member
<1> QED
  BY <1>5, <1>6

\* The transactions under way after a cycle.
LEMMA LiveStep ==
  ASSUME DcInv, NEW kill, NEW ret, NEW ack, NEW ptr, NEW way, NEW st, NEW sel,
         CycleStep(kill, ret, ack, ptr, way, st, sel), NEW t \in TxIds
  PROVE  t \in Live' <=> \/ t \in Live /\ ~(Evicts(ret, sel) /\ t = rtrn_id)
                         \/ Out(ptr, ack) = "store" /\ t = tx_id
<1>1. tx_stat'[t] = IF Out(ptr, ack) = "store" /\ t = tx_id
                    THEN [vld |-> TRUE, be |-> tx_be(ptr), ptr |-> ptr]
                    ELSE IF Evicts(ret, sel) /\ t = rtrn_id THEN FreeTx ELSE tx_stat[t]
  BY TxStep
<1>2. t \in Live' <=> tx_stat'[t].vld
  BY DEF Live
<1>3. t \in Live <=> tx_stat[t].vld
  BY DEF Live
<1> QED
  BY <1>1, <1>2, <1>3 DEF FreeTx

\* Those that memory has.
LEMMA InflightStep ==
  ASSUME DcInv, NEW kill, NEW ret, NEW ack, NEW ptr, NEW way, NEW st, NEW sel,
         CycleStep(kill, ret, ack, ptr, way, st, sel), NEW t \in TxIds
  PROVE  t \in Inflight' <=> \/ t \in Inflight /\ ~(ret.type = "store" /\ t = ret.id)
                             \/ Out(ptr, ack) = "store" /\ t = tx_id
<1>1. t \in Inflight' <=> m_store'[t].phase # "idle"
  BY DEF Inflight
<1>2. t \in Inflight <=> m_store[t].phase # "idle"
  BY DEF Inflight
<1>3. /\ Out(ptr, ack) = "store" /\ t = tx_id => m_store'[t].phase = "sent"
      /\ ret.type = "store" /\ ret.id = t => m_store'[t].phase = "idle"
      /\ ~(Out(ptr, ack) = "store" /\ t = tx_id) /\ ~(ret.type = "store" /\ ret.id = t) =>
           m_store'[t].phase = m_store[t].phase
  BY MemStoreStep
<1> QED
  BY <1>1, <1>2, <1>3

\* The entry of a transaction that goes on.
LEMMA OngoingStep ==
  ASSUME DcInv, NEW kill, NEW ret, NEW ack, NEW ptr, NEW way, NEW st, NEW sel,
         CycleStep(kill, ret, ack, ptr, way, st, sel),
         NEW t \in Live', ~(Out(ptr, ack) = "store" /\ t = tx_id)
  PROVE  LET k == tx_stat[t].ptr
         IN  /\ t \in Live /\ t \in TxIds /\ tx_stat'[t] = tx_stat[t]
             /\ k \in Slots /\ k \in valid
             /\ ~Leaves(k, ret, sel) /\ ~Sends(k, ptr, ack)
             /\ wbuffer'[k].txblock = wbuffer[k].txblock
             /\ wbuffer'[k].word = wbuffer[k].word
<1> DEFINE k == tx_stat[t].ptr
<1>1. t \in TxIds
  BY DEF Live
<1>2. t \in Live /\ ~(Evicts(ret, sel) /\ t = rtrn_id)
  BY <1>1, LiveStep
<1>3. tx_stat'[t] = tx_stat[t]
  BY <1>1, <1>2, TxStep
<1>4. k \in Slots /\ tx_stat[t].be # {} /\ wbuffer[k].txblock = tx_stat[t].be
  BY <1>2 DEF DcInv, TransactionsOK
<1>5. ~Leaves(k, ret, sel)
  <2>1. Evicts(ret, sel) => rtrn_id \in Live
    BY EvictFacts
  <2> QED
    BY <2>1, <1>2 DEF Leaves, rtrn_ptr, DcInv, TransactionsOK
<1>6. ~Sends(k, ptr, ack)
  BY <1>4, SendFacts, DirtyEntry DEF Sends
<1>7. k \in valid
  BY <1>4 DEF DcInv, EntriesOK, valid
<1>8. wbuffer'[k].txblock = wbuffer[k].txblock /\ wbuffer'[k].valid # {}
  BY <1>4, <1>5, <1>6, SlotStep
<1>9. wbuffer'[k].word = wbuffer[k].word
  BY <1>4, <1>7, <1>8, SlotStep
<1> QED
  BY <1>1, <1>2, <1>3, <1>4, <1>5, <1>6, <1>7, <1>8, <1>9

\* The entry of a transaction that begins.
LEMMA BeginStep ==
  ASSUME DcInv, NEW kill, NEW ret, NEW ack, NEW ptr, NEW way, NEW st, NEW sel,
         CycleStep(kill, ret, ack, ptr, way, st, sel), Out(ptr, ack) = "store"
  PROVE  /\ tx_id \in TxIds /\ tx_id \in Live' /\ tx_id \notin Live
         /\ tx_stat'[tx_id] = [vld |-> TRUE, be |-> tx_be(ptr), ptr |-> ptr]
         /\ ptr \in Slots /\ ptr \in valid
         /\ ~Leaves(ptr, ret, sel) /\ Sends(ptr, ptr, ack)
         /\ wbuffer[ptr].txblock = {} /\ wbuffer'[ptr].txblock = tx_be(ptr) /\ tx_be(ptr) # {}
         /\ wbuffer'[ptr].word = wbuffer[ptr].word
<1>1. /\ ptr \in dirty /\ ptr \in Slots /\ tx_id \in TxIds /\ tx_id \notin Live
  BY SendFacts
<1>2. /\ tx_stat'[tx_id] = [vld |-> TRUE, be |-> tx_be(ptr), ptr |-> ptr]
      /\ tx_id \in Live'
  BY <1>1, TxStep, LiveStep
<1>3. ptr \in valid /\ tx_be(ptr) # {} /\ wbuffer[ptr].txblock = {}
  BY <1>1, DirtyEntry
<1>4. ~Leaves(ptr, ret, sel)
  <2>1. Evicts(ret, sel) => rtrn_id \in Live
    BY EvictFacts
  <2> QED
    BY <2>1, <1>3 DEF Leaves, rtrn_ptr, DcInv, TransactionsOK
<1>5. Sends(ptr, ptr, ack)
  BY DEF Sends
<1>6. wbuffer'[ptr].txblock = tx_be(ptr) /\ wbuffer'[ptr].valid # {}
  BY <1>1, <1>3, <1>4, <1>5, SlotStep
<1>7. wbuffer'[ptr].word = wbuffer[ptr].word
  BY <1>1, <1>3, <1>6, SlotStep
<1> QED
  BY <1>1, <1>2, <1>3, <1>4, <1>5, <1>6, <1>7

\* The miss unit's count of stores is that of memory.
LEMMA CountStep ==
  ASSUME DcInv, NEW kill, NEW ret, NEW ack, NEW ptr, NEW way, NEW st, NEW sel,
         CycleStep(kill, ret, ack, ptr, way, st, sel)
  PROVE  stores_inflight' = Cardinality(Inflight')
<1> DEFINE sent == Out(ptr, ack) = "store"
           answered == ret.type = "store"
           gone == IF answered THEN {ret.id} ELSE {}
           come == IF sent THEN {tx_id} ELSE {}
           rest == Inflight \ gone
<1>1. ret \in Messages
  BY DEF CycleStep, Inputs
<1>2. answered => ret.id \in Inflight
  BY <1>1, MessageFacts DEF Inflight
<1>3. store_ack(ret) <=> answered
  BY <1>1, MessageFacts
<1>4. Mem(ptr) = "store" /\ ack <=> sent
  BY DEF Out
<1>5. stores_inflight' = stores_inflight + (IF sent THEN 1 ELSE 0) - (IF answered THEN 1 ELSE 0)
  <2>1. stores_inflight' = stores_inflight_d(Mem(ptr) = "store" /\ ack, store_ack(ret))
    BY DEF CycleStep, MissunitCycle, Mem, Busy
  <2> QED
    BY <2>1, <1>3, <1>4 DEF stores_inflight_d
<1>6. sent => tx_id \in TxIds /\ tx_id \notin Inflight
  BY SendFacts DEF DcInv, TransactionsOK, Inflight
<1>7. Inflight' = rest \cup come
  <2>1. Inflight' \subseteq TxIds /\ rest \cup come \subseteq TxIds
    BY <1>6 DEF Inflight
  <2>2. \A t \in TxIds : t \in Inflight' <=> \/ t \in Inflight /\ ~(answered /\ t = ret.id)
                                             \/ sent /\ t = tx_id
    BY InflightStep
  <2> QED
    BY <2>1, <2>2
<1>8. IsFiniteSet(Inflight) /\ Cardinality(Inflight) \in Nat
  BY FiniteTxIds, FS_Subset, FS_CardinalityType DEF Inflight
<1>9. stores_inflight = Cardinality(Inflight)
  BY DEF DcInv, TransactionsOK
<1> HIDE DEF sent, answered
<1>10. IsFiniteSet(rest) /\ Cardinality(rest) = stores_inflight - (IF answered THEN 1 ELSE 0)
  <2>1. CASE answered
    BY <2>1, <1>2, <1>8, <1>9, FS_RemoveElement
  <2>2. CASE ~answered
    <3>1. rest = Inflight
      BY <2>2
    <3> QED
      BY <2>2, <3>1, <1>8, <1>9
  <2> QED
    BY <2>1, <2>2
<1>11. sent => tx_id \notin rest
  BY <1>6
<1> HIDE DEF rest
<1>12. Cardinality(rest \cup come) = Cardinality(rest) + (IF sent THEN 1 ELSE 0)
  <2>1. CASE sent
    BY <2>1, <1>10, <1>11, FS_AddElement
  <2>2. CASE ~sent
    <3>1. rest \cup come = rest /\ Cardinality(rest) \in Nat
      BY <2>2, <1>10, FS_CardinalityType
    <3> QED
      BY <2>2, <3>1
  <2> QED
    BY <2>1, <2>2
<1> QED
  BY <1>5, <1>7, <1>8, <1>9, <1>10, <1>12

\* A cycle preserves what ties transactions to entries and to memory.
LEMMA TransactionsStep ==
  ASSUME DcInv, NEW kill, NEW ret, NEW ack, NEW ptr, NEW way, NEW st, NEW sel,
         CycleStep(kill, ret, ack, ptr, way, st, sel)
  PROVE  TransactionsOK'
<1> DEFINE sent == Out(ptr, ack) = "store"
           answered == ret.type = "store"
           ends == Evicts(ret, sel)
<1>1. ret \in Messages
  BY DEF CycleStep, Inputs
<1>2. answered => ret.id \in Inflight /\ ret.id \in TxIds
  BY <1>1, MessageFacts DEF Inflight
<1>3. sent => tx_id \in TxIds /\ tx_id \notin Live
  BY SendFacts
<1>4. ends => rtrn_id \in Live /\ rtrn_id \notin Inflight
  BY EvictFacts
<1>5. /\ \A t \in TxIds : t \in Live <=> t \in Inflight \/ Answered(t)
      /\ \A t \in Inflight : ~Answered(t)
  BY DEF DcInv, TransactionsOK
<1>6. \A t \in TxIds : /\ t \in Live' <=> \/ t \in Live /\ ~(ends /\ t = rtrn_id)
                                          \/ sent /\ t = tx_id
                       /\ t \in Inflight' <=> \/ t \in Inflight /\ ~(answered /\ t = ret.id)
                                              \/ sent /\ t = tx_id
  BY LiveStep, InflightStep
<1>7. \A t : Answered(t)' <=> \/ Answered(t) /\ ~(ends /\ t = rtrn_id)
                              \/ answered /\ t = ret.id
  BY AnsweredStep
<1>8. \A t \in TxIds : /\ t \in Live' <=> t \in Inflight' \/ Answered(t)'
                       /\ t \in Inflight' => ~Answered(t)'
  BY <1>2, <1>3, <1>4, <1>5, <1>6, <1>7
<1>9. Inflight' \subseteq TxIds /\ Live' \subseteq TxIds
  BY DEF Inflight, Live
<1>10. ASSUME NEW t \in Live'
       PROVE  LET k == tx_stat'[t].ptr
              IN  /\ k \in Slots /\ tx_stat'[t].be # {}
                  /\ wbuffer'[k].txblock = tx_stat'[t].be
                  /\ t \in Inflight' => /\ m_store'[t].word = wbuffer'[k].word
                                        /\ m_store'[t].be = tx_stat'[t].be
  <2>1. CASE sent /\ t = tx_id
    <3>1. m_store'[t].word = wbuffer[ptr].word /\ m_store'[t].be = tx_be(ptr)
      BY <2>1, <1>9, MemStoreStep
    <3>2. /\ tx_stat'[t] = [vld |-> TRUE, be |-> tx_be(ptr), ptr |-> ptr]
          /\ ptr \in Slots /\ wbuffer'[ptr].txblock = tx_be(ptr) /\ tx_be(ptr) # {}
          /\ wbuffer'[ptr].word = wbuffer[ptr].word
      BY <2>1, BeginStep
    <3> QED
      BY <3>1, <3>2
  <2>2. CASE ~(sent /\ t = tx_id)
    <3> DEFINE k == tx_stat[t].ptr
    <3>1. /\ t \in Live /\ t \in TxIds /\ tx_stat'[t] = tx_stat[t] /\ k \in Slots
          /\ wbuffer'[k].txblock = wbuffer[k].txblock
          /\ wbuffer'[k].word = wbuffer[k].word
      BY <2>2, OngoingStep
    <3>2. /\ tx_stat[t].be # {} /\ wbuffer[k].txblock = tx_stat[t].be
          /\ t \in Inflight => m_store[t].word = wbuffer[k].word /\ m_store[t].be = tx_stat[t].be
      BY <3>1 DEF DcInv, TransactionsOK
    <3>3. ASSUME t \in Inflight'
          PROVE  t \in Inflight /\ m_store'[t].word = m_store[t].word
                                /\ m_store'[t].be = m_store[t].be
      <4>1. t \in Inflight /\ ~(answered /\ ret.id = t)
        BY <2>2, <3>1, <3>3, <1>6
      <4> QED
        BY <2>2, <3>1, <4>1, MemStoreStep
    <3> QED
      BY <3>1, <3>2, <3>3
  <2> QED
    BY <2>1, <2>2
<1>11. ASSUME NEW t \in Live', NEW u \in Live', tx_stat'[t].ptr = tx_stat'[u].ptr
       PROVE  t = u
  <2>0. ASSUME sent
        PROVE  wbuffer[ptr].txblock = {} /\ tx_stat'[tx_id].ptr = ptr
    <3>1. /\ tx_stat'[tx_id] = [vld |-> TRUE, be |-> tx_be(ptr), ptr |-> ptr]
          /\ wbuffer[ptr].txblock = {}
      BY <2>0, BeginStep
    <3> QED
      BY <3>1
  <2>1. ASSUME NEW v \in Live', ~(sent /\ v = tx_id)
        PROVE  /\ v \in Live /\ tx_stat'[v].ptr = tx_stat[v].ptr
               /\ sent => tx_stat'[v].ptr # ptr
    <3>1. v \in Live /\ tx_stat'[v] = tx_stat[v]
      BY <2>1, OngoingStep
    <3>2. wbuffer[tx_stat[v].ptr].txblock # {}
      BY <3>1 DEF DcInv, TransactionsOK
    <3> QED
      BY <3>1, <3>2, <2>0
  <2>3. CASE sent /\ (t = tx_id \/ u = tx_id)
    BY <2>0, <2>1, <2>3, <1>11
  <2>4. CASE ~(sent /\ (t = tx_id \/ u = tx_id))
    <3>1. tx_stat[t].ptr = tx_stat[u].ptr /\ t \in Live /\ u \in Live
      BY <2>1, <2>4, <1>11
    <3> QED
      BY <3>1 DEF DcInv, TransactionsOK
  <2> QED
    BY <2>3, <2>4
<1>12. Distinct(rtrn)'
  BY AnsweredStep DEF Distinct
<1>13. stores_inflight' = Cardinality(Inflight')
  BY CountStep
<1> HIDE DEF sent, answered, ends
<1> QED
  BY <1>8, <1>9, <1>10, <1>11, <1>12, <1>13 DEF TransactionsOK

-----------------------------------------------------------------------------
(***************************************************************************)
(* A cycle of the miss unit and of a load port.                            *)
(***************************************************************************)
\* What memory sees in each state of the miss unit.
LEMMA RequestFacts ==
  ASSUME NEW ptr
  PROVE  /\ Mem(ptr) \in {"none", "store", "load", "amo"}
         /\ Mem(ptr) = "amo" <=> mu_state = "AMO"
         /\ mu_state \in {"FLUSH", "AMO_WAIT"} => Mem(ptr) = "none"
         /\ mu_state = "IDLE" /\ Busy => Mem(ptr) = "none"
         /\ mu_state = "STORE_WAIT" => Mem(ptr) = "store"
         /\ mu_state = "LOAD_WAIT" => Mem(ptr) = "load"
         /\ mu_state = "DRAIN" => Mem(ptr) \in {"none", "store"}
BY DEF Mem, mem_req

\* The state machine of the miss unit.
LEMMA MuStep ==
  ASSUME DcInv, NEW kill, NEW ret, NEW ack, NEW ptr, NEW way, NEW st, NEW sel,
         CycleStep(kill, ret, ack, ptr, way, st, sel)
  PROVE  /\ mu_state' \in MuStates
         /\ mu_state' = "STORE_WAIT" <=> Mem(ptr) = "store" /\ ~ack /\ mu_state # "DRAIN"
         /\ mu_state' = "LOAD_WAIT" <=> Mem(ptr) = "load" /\ ~ack
         /\ mu_state' = "FLUSH" => mu_state = "IDLE" /\ drained /\ Mem(ptr) = "none"
         /\ mu_state' = "AMO" => \/ mu_state = "AMO" /\ ~ack
                                 \/ mu_state = "IDLE" /\ drained /\ Mem(ptr) = "none"
                                    /\ amo # "none"
         /\ mu_state' = "AMO_WAIT" <=> \/ mu_state = "AMO" /\ ack
                                       \/ mu_state = "AMO_WAIT" /\ ret.type # "amo"
         /\ locked' = IF mu_state' = "STORE_WAIT" THEN WrPort
                      ELSE IF mu_state' = "LOAD_WAIT" THEN miss_port(Req) ELSE None
<1> DEFINE flush == flush_i \/ (enable_i /\ ~cache_en)
           amo_i == amo # "none"
<1>1. /\ mu_state' = mu_next(Req, At(ptr), ret, ack, enable_i, flush_i, amo_i)
      /\ locked' = CASE mu_state' = "STORE_WAIT" -> WrPort
                     [] mu_state' = "LOAD_WAIT"  -> miss_port(Req)
                     [] OTHER -> None
  BY DEF CycleStep, MissunitCycle
<1>2. mu_state' =
       CASE mu_state = "IDLE" /\ flush  -> IF drained THEN "FLUSH" ELSE "DRAIN"
         [] mu_state = "IDLE" /\ ~flush /\ amo_i -> IF drained THEN "AMO" ELSE "DRAIN"
         [] mu_state = "IDLE" /\ Mem(ptr) = "store" /\ ~ack -> "STORE_WAIT"
         [] mu_state = "IDLE" /\ Mem(ptr) = "load" /\ ~ack  -> "LOAD_WAIT"
         [] mu_state \in {"STORE_WAIT", "LOAD_WAIT"} /\ ack -> "IDLE"
         [] mu_state = "DRAIN" /\ drained -> "IDLE"
         [] mu_state = "FLUSH"            -> "IDLE"
         [] mu_state = "AMO" /\ ack       -> "AMO_WAIT"
         [] mu_state = "AMO_WAIT" /\ ret.type = "amo" -> "IDLE"
         [] OTHER -> mu_state
  BY <1>1 DEF mu_next, Mem, Busy
<1>3. /\ Busy <=> flush \/ amo_i
      /\ mu_state \in MuStates /\ ack \in BOOLEAN
  BY DEF Busy, DcInv, DcTypeOK, MissunitTyped, CycleStep, Inputs
<1> HIDE DEF flush, amo_i
<1>4. mu_state' =
        IF mu_state = "IDLE"
        THEN IF flush THEN IF drained THEN "FLUSH" ELSE "DRAIN"
             ELSE IF amo_i THEN IF drained THEN "AMO" ELSE "DRAIN"
             ELSE IF Mem(ptr) = "store" /\ ~ack THEN "STORE_WAIT"
             ELSE IF Mem(ptr) = "load" /\ ~ack THEN "LOAD_WAIT" ELSE "IDLE"
        ELSE IF mu_state \in {"STORE_WAIT", "LOAD_WAIT"} THEN IF ack THEN "IDLE" ELSE mu_state
        ELSE IF mu_state = "DRAIN" THEN IF drained THEN "IDLE" ELSE "DRAIN"
        ELSE IF mu_state = "FLUSH" THEN "IDLE"
        ELSE IF mu_state = "AMO" THEN IF ack THEN "AMO_WAIT" ELSE "AMO"
        ELSE IF ret.type = "amo" THEN "IDLE" ELSE "AMO_WAIT"
  <2>1. CASE mu_state = "IDLE"
    <3>1. flush \/ amo_i => Mem(ptr) = "none"
      BY <2>1, <1>3, RequestFacts
    <3> QED
      BY <3>1, <2>1, <1>2
  <2>2. CASE mu_state # "IDLE"
    BY <2>2, <1>2, <1>3 DEF MuStates
  <2> QED
    BY <2>1, <2>2
<1>5. amo_i <=> amo # "none"
  BY DEF amo_i
<1>6. locked' = IF mu_state' = "STORE_WAIT" THEN WrPort
                ELSE IF mu_state' = "LOAD_WAIT" THEN miss_port(Req) ELSE None
  BY <1>1
<1> HIDE <1>1, <1>2
<1>7. /\ Mem(ptr) \in {"none", "store", "load", "amo"}
      /\ Mem(ptr) = "amo" <=> mu_state = "AMO"
      /\ mu_state \in {"FLUSH", "AMO_WAIT"} => Mem(ptr) = "none"
      /\ mu_state = "IDLE" /\ (flush \/ amo_i) => Mem(ptr) = "none"
      /\ mu_state = "STORE_WAIT" => Mem(ptr) = "store"
      /\ mu_state = "LOAD_WAIT" => Mem(ptr) = "load"
      /\ mu_state = "DRAIN" => Mem(ptr) \in {"none", "store"}
  BY <1>3, RequestFacts
<1>8. flush \in BOOLEAN /\ amo_i \in BOOLEAN /\ drained \in BOOLEAN
  BY DEF flush, amo_i, drained, DcInv, DcTypeOK, CoreTyped
<1> QED
  BY <1>3, <1>4, <1>5, <1>6, <1>7, <1>8 DEF MuStates

\* The MSHR: taken by a load that is sent, free when its line is back.
LEMMA MshrStep ==
  ASSUME DcInv, NEW kill, NEW ret, NEW ack, NEW ptr, NEW way, NEW st, NEW sel,
         CycleStep(kill, ret, ack, ptr, way, st, sel)
  PROVE  LET p == miss_port(Req)
         IN  /\ mshr_vld' <=> Out(ptr, ack) = "load" \/ (mshr_vld /\ ret.type # "load")
             /\ m_load'.phase # "idle" <=> Out(ptr, ack) = "load"
                                             \/ (m_load.phase # "idle" /\ ret.type # "load")
             /\ Out(ptr, ack) = "load" =>
                  /\ p \in miss_req /\ p \in ReadPort /\ ~mshr_vld
                  /\ mshr'.word = ld[p].word /\ mshr'.nc = miss_nc(p)
                  /\ mshr'.way \in Way /\ mshr'.port = p
                  /\ p \notin replay(Req, At(ptr), Busy)
             /\ mshr_vld => mshr' = mshr
<1> DEFINE p == miss_port(Req)
           start == Out(ptr, ack) = "load"
<1>1. ret \in Messages /\ ptr \in DirtyPtr /\ way \in Way /\ ack \in BOOLEAN
  BY DEF CycleStep, Inputs
<1>2. load_ack(ret) <=> ret.type = "load"
  BY <1>1, MessageFacts
<1>3. start <=> Mem(ptr) = "load" /\ ack
  BY DEF Out
<1>4. /\ mshr_vld' = (start \/ (mshr_vld /\ ~load_ack(ret)))
      /\ mshr' = CASE start ->
                        [word |-> At(ptr)[p], nc |-> Mem(ptr) = "load" /\ miss_nc(p),
                         way |-> way, port |-> p]
                   [] ~start /\ ~mshr_vld -> NoMiss
                   [] OTHER -> mshr
  BY <1>3 DEF CycleStep, MissunitCycle, Mem, Busy
<1>5. start => /\ p \in miss_req /\ p \in ReadPort /\ ~mshr_vld
               /\ p \notin replay(Req, At(ptr), Busy)
  BY <1>1, <1>3, LoadRequest
<1>6. start => At(ptr)[p] = ld[p].word
  BY <1>5 DEF At, ReadPort, WrPort
<1>7. m_load' = CASE start -> [NoLoad EXCEPT !.phase = "sent"]
                  [] ret.type = "load" -> NoLoad
                  [] OTHER -> [m_load EXCEPT !.current = @ \ Outdated(st)]
  BY DEF CycleStep, MemoryNext
<1>8. start => ret.type # "load"
  BY <1>2, <1>5 DEF load_ack
<1>9. m_load \in [phase : Phases, current : SUBSET Cell]
  BY DEF DcInv, DcTypeOK, CopiesTyped
<1>10. mshr_vld => mshr' = mshr
  BY <1>4, <1>5
<1>11. m_load'.phase = IF start THEN "sent" ELSE IF ret.type = "load" THEN "idle"
                       ELSE m_load.phase
  BY <1>7, <1>8, <1>9 DEF NoLoad
<1>12. mshr_vld \in BOOLEAN /\ mshr_vld' \in BOOLEAN
  BY <1>4 DEF DcInv, DcTypeOK, MissunitTyped, load_ack
<1>13. mshr_vld' <=> start \/ (mshr_vld /\ ret.type # "load")
  BY <1>2, <1>4, <1>12
<1>14. start => /\ mshr'.word = ld[p].word /\ mshr'.nc = miss_nc(p)
                /\ mshr'.way \in Way /\ mshr'.port = p
  <2> SUFFICES ASSUME start PROVE /\ mshr'.word = ld[p].word /\ mshr'.nc = miss_nc(p)
                                  /\ mshr'.way \in Way /\ mshr'.port = p
    OBVIOUS
  <2>1. mshr' = [word |-> At(ptr)[p], nc |-> Mem(ptr) = "load" /\ miss_nc(p),
                 way |-> way, port |-> p]
    BY <1>4
  <2>2. (Mem(ptr) = "load" /\ miss_nc(p)) = miss_nc(p)
    BY <1>3 DEF miss_nc
  <2> QED
    BY <2>1, <2>2, <1>1, <1>6
<1> QED
  BY <1>5, <1>10, <1>11, <1>13, <1>14

\* A step of load port p.
Acked(p, ptr, ack)  == Out(ptr, ack) = "load" /\ p = miss_port(Req)
Returned(p, ret)    == ret.type = "load" /\ mshr.port = p
Replayed(p, ptr)    == p \in replay(Req, At(ptr), Busy)
Taken(p, sel)       == sel.port = p /\ sel.word # None
Waiting(p)          == In(p, {"MISS_WAIT", "KILL_MISS"})

\* The next state of a load port.
LEMMA CtrlStep ==
  ASSUME DcInv, NEW kill, NEW ret, NEW ack, NEW ptr, NEW way, NEW st, NEW sel,
         CycleStep(kill, ret, ack, ptr, way, st, sel), NEW p \in ReadPort
  PROVE  LET n == ld'[p]
         IN  /\ n \in [state : CtrlStates, word : Word \cup {None}]
             /\ n.state # "IDLE" =>
                  IF Taken(p, sel) THEN n.word \in Word /\ n.word = sel.word /\ n.state = "READ"
                  ELSE n.word = ld[p].word /\ ld[p].state # "IDLE"
             /\ n.state \in {"READ", "REPLAY_READ"} =>
                  /\ sel.port = p /\ ~wr_cl_vld(ret) /\ looks(sel, kill)
                  /\ n.word = rd_word(sel) /\ rd_word(sel) \in Word
             /\ n.state \in {"MISS_REQ", "KILL_MISS_ACK"} =>
                  \/ p \in miss_req /\ ~Acked(p, ptr, ack)
                  \/ p \in reading /\ ~wr_cl_vld(ret) /\ (rd_q.hits = {} \/ ~cache_en)
             /\ p \in miss_req /\ ~Acked(p, ptr, ack) /\ ~Replayed(p, ptr) =>
                  n.state \in {"MISS_REQ", "KILL_MISS_ACK"}
             /\ n.state \in {"MISS_WAIT", "KILL_MISS"} <=>
                  \/ Waiting(p) /\ ~Returned(p, ret)
                  \/ Acked(p, ptr, ack)
<1> DEFINE wr_cl == wr_cl_vld(ret)
           acked == Acked(p, ptr, ack)
           replayed == Replayed(p, ptr)
           returned == Returned(p, ret)
           new == Taken(p, sel)
           dies == p \in kill
           s == ld[p].state
           n == ld'[p]
           again == sel.port = p /\ sel.word = None
           ans == answers(p, wr_cl)
<1>1. /\ ret \in Messages /\ ack \in BOOLEAN /\ ptr \in DirtyPtr /\ kill \in SUBSET Killable
      /\ sel \in Selections(kill, wr_cl) /\ wr_cl \in BOOLEAN
  BY LineStep DEF CycleStep, Inputs
<1>2. load_ack(ret) <=> ret.type = "load"
  BY <1>1, MessageFacts
<1>3. n = CtrlNext(p, kill, wr_cl, sel, replayed, acked, load_ack(ret) /\ mshr.port = p)
  BY DEF CycleStep, CoreStep, Acked, Replayed
<1>4. (load_ack(ret) /\ mshr.port = p) = returned
  BY <1>2 DEF Returned, load_ack
<1>5. acked => p \in miss_req /\ ~replayed
  BY <1>1, LoadRequest DEF Acked, Replayed, Out
<1>6. ASSUME new
      PROVE  /\ ~wr_cl /\ sel.word \in Word
             /\ s = "IDLE" \/ (s \in {"READ", "REPLAY_READ"} /\ ~dies /\ ans)
  <2>1. sel.word \in Word /\ accepts(p, kill, wr_cl)
    BY <1>1, <1>6, ReadFacts DEF Taken
  <2>2. ~wr_cl
    BY <1>1, <1>6, ReadFacts DEF Taken, NoSel
  <2> QED
    BY <2>1, <2>2 DEF accepts, answers, reading, In
<1>7. sel.port = p => ~wr_cl
  BY <1>1, ReadFacts DEF NoSel, ReadPort
<1>8. sel.port = p => rd_word(sel) = IF sel.word = None THEN ld[p].word ELSE sel.word
  BY DEF rd_word
<1>9. looks(sel, kill) <=> \/ sel.word # None
                           \/ sel.port \in ReadPort /\ In(sel.port, {"REPLAY_REQ"})
                              /\ sel.port \notin kill
  BY DEF looks
<1>10. /\ s \in CtrlStates /\ ld[p].word \in Word \cup {None}
       /\ ld[p] = [state |-> s, word |-> ld[p].word]
       /\ s # "IDLE" => ld[p].word \in Word
  BY DEF DcInv, DcTypeOK, CoreTyped, MissOK, In
<1>11. /\ p \in reading <=> s \in {"READ", "REPLAY_READ"}
       /\ p \in miss_req <=> s \in {"MISS_REQ", "KILL_MISS_ACK"}
       /\ Waiting(p) <=> s \in {"MISS_WAIT", "KILL_MISS"}
  BY DEF reading, miss_req, Waiting, In
<1>12. ans <=> p \in reading /\ ~wr_cl /\ rd_q.hits # {} /\ cache_en
  BY DEF answers
<1> DEFINE to(x) == [state |-> x, word |-> ld[p].word]
<1>13. n = IF new THEN [state |-> "READ", word |-> sel.word]
           ELSE IF s \in {"READ", "REPLAY_READ"} THEN
             IF dies \/ ans THEN IdlePort ELSE IF wr_cl THEN to("REPLAY_REQ") ELSE to("MISS_REQ")
           ELSE IF s = "MISS_REQ" THEN
             IF dies THEN IF acked THEN to("KILL_MISS") ELSE to("KILL_MISS_ACK")
             ELSE IF replayed THEN to("REPLAY_REQ")
             ELSE IF acked THEN to("MISS_WAIT") ELSE to(s)
           ELSE IF s = "MISS_WAIT" THEN
             IF returned THEN IdlePort ELSE IF dies THEN to("KILL_MISS") ELSE to(s)
           ELSE IF s = "REPLAY_REQ" THEN
             IF dies THEN IdlePort ELSE IF sel.port = p THEN to("REPLAY_READ") ELSE to(s)
           ELSE IF s = "KILL_MISS_ACK" THEN
             IF replayed THEN IdlePort ELSE IF acked THEN to("KILL_MISS") ELSE to(s)
           ELSE IF s = "KILL_MISS" THEN IF returned THEN IdlePort ELSE to(s)
           ELSE to(s)
  <2>1. \A x : [ld[p] EXCEPT !.state = x] = to(x)
    BY <1>10
  <2>2. ld[p] = to(s)
    BY <1>10
  <2>3. n = CtrlNext(p, kill, wr_cl, sel, replayed, acked, returned)
    BY <1>3, <1>4
  <2> HIDE DEF to, s, n, ans, wr_cl
  <2>4. CASE new
    BY <2>3, <2>4, <1>6 DEF CtrlNext, Taken, In, s
  <2>5. CASE ~new /\ s \in {"READ", "REPLAY_READ"}
    BY <2>1, <2>2, <2>3, <2>5, <1>11, <1>12 DEF CtrlNext, Taken, In, s, wr_cl, ans
  <2>6. CASE ~new /\ s = "MISS_REQ"
    BY <2>1, <2>2, <2>3, <2>6, <1>11 DEF CtrlNext, Taken, In, s
  <2>7. CASE ~new /\ s = "MISS_WAIT"
    BY <2>1, <2>2, <2>3, <2>7, <1>11 DEF CtrlNext, Taken, In, s, withdrawn
  <2>8. CASE ~new /\ s = "REPLAY_REQ"
    BY <2>1, <2>2, <2>3, <2>8, <1>11 DEF CtrlNext, Taken, In, s
  <2>9. CASE ~new /\ s = "KILL_MISS_ACK"
    BY <2>1, <2>2, <2>3, <2>9, <1>11 DEF CtrlNext, Taken, In, s
  <2>10. CASE ~new /\ s = "KILL_MISS"
    BY <2>1, <2>2, <2>3, <2>10, <1>11 DEF CtrlNext, Taken, In, s
  <2>11. CASE ~new /\ s = "IDLE"
    BY <2>1, <2>2, <2>3, <2>11, <1>11 DEF CtrlNext, Taken, In, s
  <2>12. s \in CtrlStates
    BY <1>10
  <2> QED
    BY <2>4, <2>5, <2>6, <2>7, <2>8, <2>9, <2>10, <2>11, <2>12 DEF CtrlStates
<1>14. sel.port = p /\ sel.word = None => s \in {"READ", "REPLAY_READ", "REPLAY_REQ"}
  BY <1>1, ReadFacts DEF rd_req, In
<1>15. IdlePort = [state |-> "IDLE", word |-> None]
  BY DEF IdlePort
<1>16. sel.port = p => (looks(sel, kill) <=> sel.word # None \/ (s = "REPLAY_REQ" /\ ~dies))
  BY <1>9 DEF In
<1> HIDE DEF acked, replayed, returned, dies, s, n, ans, wr_cl
<1>17. new <=> sel.port = p /\ sel.word # None
  BY DEF Taken
<1> HIDE DEF new
<1>18. n.state \in CtrlStates /\ n.word \in Word \cup {None}
       /\ n = [state |-> n.state, word |-> n.word]
  BY <1>6, <1>10, <1>13, <1>15 DEF CtrlStates
<1>19. n.state # "IDLE" => IF new THEN n.word \in Word /\ n.word = sel.word /\ n.state = "READ"
                           ELSE n.word = ld[p].word /\ s # "IDLE"
  BY <1>6, <1>10, <1>13, <1>15
<1>20. n.state \in {"READ", "REPLAY_READ"} =>
         /\ sel.port = p /\ ~wr_cl /\ looks(sel, kill)
         /\ n.word = rd_word(sel) /\ rd_word(sel) \in Word
  BY <1>6, <1>7, <1>8, <1>10, <1>13, <1>15, <1>16, <1>17
<1>21. n.state \in {"MISS_REQ", "KILL_MISS_ACK"} =>
         \/ s \in {"MISS_REQ", "KILL_MISS_ACK"} /\ ~acked
         \/ p \in reading /\ ~wr_cl /\ (rd_q.hits = {} \/ ~cache_en)
  <2>1. CASE s \in {"READ", "REPLAY_READ"}
    <3>1. n.state \in {"MISS_REQ", "KILL_MISS_ACK"} => ~ans /\ ~wr_cl
      BY <2>1, <1>13, <1>15
    <3>2. p \in reading
      BY <2>1, <1>11
    <3>3. ~ans /\ ~wr_cl => rd_q.hits = {} \/ ~cache_en
      BY <3>2, <1>12
    <3> QED
      BY <3>1, <3>2, <3>3
  <2>2. CASE s \notin {"READ", "REPLAY_READ"}
    BY <2>2, <1>6, <1>10, <1>13, <1>15
  <2> QED
    BY <2>1, <2>2
<1>22. s \in {"MISS_REQ", "KILL_MISS_ACK"} /\ ~acked /\ ~replayed =>
         n.state \in {"MISS_REQ", "KILL_MISS_ACK"}
  BY <1>6, <1>13
<1>23. n.state \in {"MISS_WAIT", "KILL_MISS"} <=>
         \/ s \in {"MISS_WAIT", "KILL_MISS"} /\ ~returned
         \/ acked
  BY <1>5, <1>6, <1>10, <1>11, <1>13, <1>15
<1> QED
  BY <1>11, <1>18, <1>19, <1>20, <1>21, <1>22, <1>23 DEF acked, replayed, returned, s, n, wr_cl, new

\* The lookup of a cycle.
LEMMA LookupStep ==
  ASSUME DcInv, NEW kill, NEW ret, NEW ack, NEW ptr, NEW way, NEW st, NEW sel,
         CycleStep(kill, ret, ack, ptr, way, st, sel)
  PROVE  /\ sel.port = WrPort =>
              /\ sel.slot \in tocheck /\ ~wr_cl_vld(ret)
              /\ rd_q'.port = WrPort /\ rd_q'.slot = sel.slot
              /\ rd_q'.hits = hits_of(wbuffer[sel.slot].word)
         /\ sel.port # WrPort => rd_q'.port # WrPort
         /\ sel.port \in ReadPort /\ looks(sel, kill) =>
              /\ rd_q'.port = sel.port /\ rd_q'.hits = hits_of(rd_word(sel))
              /\ rd_q'.hits # {} =>
                   \E y \in hits_of(rd_word(sel)) : \A b \in Byte :
                      <<rd_word(sel), b>> \in cache[y].current \ Outdated(st) => b \in rd_q'.current
         /\ rd_q' \in [port : 0 .. WrPort \cup {None}, slot : Slots \cup {None},
                       hits : SUBSET Way, current : SUBSET Byte]
<1> DEFINE w == rd_word(sel)
           hits == hits_of(w)
           current == IF hits = {} THEN {}
                      ELSE BytesOf(w, cache[Min(hits)].current \ Outdated(st))
<1>1. kill \in SUBSET Killable /\ sel \in Selections(kill, wr_cl_vld(ret)) /\ wr_cl_vld(ret) \in BOOLEAN
  BY LineStep DEF CycleStep, Inputs
<1>2. /\ wr_cl_vld(ret) => sel.port = None
      /\ sel.port \in ReadPort \cup {WrPort, None}
      /\ sel.port = WrPort => sel.slot \in tocheck
  BY <1>1, ReadFacts DEF NoSel
<1>3. WrPort \notin ReadPort /\ None # WrPort /\ None \notin ReadPort /\ WrPort \in 0 .. WrPort
      /\ ReadPort \subseteq 0 .. WrPort /\ tocheck \subseteq Slots
  BY DEF WrPort, ReadPort, tocheck, valid
<1>4. rd_q' = Lookup(sel, kill, Outdated(st))
  BY DEF CycleStep, CoreStep
<1>5. hits \in SUBSET Way /\ (hits # {} => Min(hits) \in hits)
  BY MinIn DEF hits_of
<1>6. \A v : hits_of(v) \in SUBSET Way
  BY DEF hits_of
<1>7. CASE sel.port = WrPort
  <2>1. rd_q' = [port |-> WrPort, slot |-> sel.slot, current |-> {},
                 hits |-> hits_of(wbuffer[sel.slot].word)]
    BY <1>4, <1>7 DEF Lookup
  <2> QED
    BY <2>1, <1>2, <1>3, <1>6, <1>7
<1>8. CASE sel.port # WrPort /\ ~looks(sel, kill)
  <2>1. rd_q' = NoRead
    BY <1>4, <1>8 DEF Lookup
  <2> QED
    BY <2>1, <1>3, <1>8 DEF NoRead
<1>9. CASE sel.port # WrPort /\ looks(sel, kill)
  <2>1. sel.port \in ReadPort
    BY <1>1, <1>9, ReadFacts DEF looks
  <2>2. rd_q' = [port |-> sel.port, slot |-> None, hits |-> hits, current |-> current]
    BY <1>4, <1>9 DEF Lookup
  <2>3. current \in SUBSET Byte
    BY DEF BytesOf
  <2>4. hits # {} => \E y \in hits : \A b \in Byte :
          <<w, b>> \in cache[y].current \ Outdated(st) => b \in current
    BY <1>5 DEF BytesOf
  <2> HIDE DEF current, hits
  <2>5. /\ rd_q'.port = sel.port /\ rd_q'.hits = hits /\ rd_q'.current = current
        /\ rd_q' \in [port : 0 .. WrPort \cup {None}, slot : Slots \cup {None},
                       hits : SUBSET Way, current : SUBSET Byte]
    BY <2>1, <2>2, <2>3, <1>3, <1>5
  <2> QED
    BY <2>1, <2>4, <2>5, <1>9 DEF hits
<1> QED
  BY <1>7, <1>8, <1>9

\* An entry that waits to be sent goes on to wait.
LEMMA DirtyStays ==
  ASSUME DcInv, NEW kill, NEW ret, NEW ack, NEW ptr, NEW way, NEW st, NEW sel,
         CycleStep(kill, ret, ack, ptr, way, st, sel),
         Out(ptr, ack) # "store", ptr \in dirty
  PROVE  ptr \in dirty' /\ wbuffer'[ptr].word = wbuffer[ptr].word
<1>1. ptr \in Slots /\ ptr \in valid /\ wbuffer[ptr].txblock = {} /\ wbuffer[ptr].dirty # {}
  BY DirtyEntry
<1>2. ~Sends(ptr, ptr, ack)
  BY DEF Sends
<1>3. /\ wbuffer'[ptr].txblock = {} /\ wbuffer'[ptr].dirty # {}
      /\ wbuffer'[ptr].word = wbuffer[ptr].word
  BY <1>1, <1>2, SlotStep
<1> QED
  BY <1>1, <1>3 DEF dirty, bdirty

\* A cycle preserves what the arbiters hold.
LEMMA ArbiterStep ==
  ASSUME DcInv, NEW kill, NEW ret, NEW ack, NEW ptr, NEW way, NEW st, NEW sel,
         CycleStep(kill, ret, ack, ptr, way, st, sel)
  PROVE  ArbiterOK'
<1>1. ack \in BOOLEAN /\ ptr \in DirtyPtr
  BY DEF CycleStep, Inputs
<1>2. dirty_lock' = IF Out(ptr, ack) = "store" THEN None ELSE ptr
  BY DEF CycleStep, CoreStep, WbufferCycle
<1>3. ptr # None => ptr \in dirty
  BY <1>1 DEF DirtyPtr, DcInv, ArbiterOK
<1>4. ASSUME Out(ptr, ack) # "store", ptr \in dirty
      PROVE  ptr \in dirty'
  BY <1>4, DirtyStays
<1>5. /\ mu_state' = "STORE_WAIT" <=> Mem(ptr) = "store" /\ ~ack /\ mu_state # "DRAIN"
      /\ mu_state' = "LOAD_WAIT" <=> Mem(ptr) = "load" /\ ~ack
      /\ locked' = IF mu_state' = "STORE_WAIT" THEN WrPort
                   ELSE IF mu_state' = "LOAD_WAIT" THEN miss_port(Req) ELSE None
  BY MuStep
<1>6. Mem(ptr) = "load" => miss_port(Req) \in ReadPort
  BY <1>1, LoadRequest
<1>7. WrPort \notin ReadPort /\ None # WrPort /\ None \notin ReadPort
  BY DEF WrPort, ReadPort
<1>8. ASSUME mu_state' = "STORE_WAIT"
      PROVE  dirty_lock' # None /\ free_tx' # {}
  <2>1. Mem(ptr) = "store" /\ Out(ptr, ack) # "store"
    BY <1>5, <1>8 DEF Out
  <2>2. ptr \in dirty /\ ptr \in Slots /\ free_tx # {}
    BY <1>1, <2>1, StoreRequest DEF dirty
  <2>3. tx_id \in TxIds /\ tx_id \notin Live
    BY <2>2, FreeTransaction
  <2>4. tx_id \notin Live'
    BY <2>1, <2>3, LiveStep
  <2>5. tx_id \in free_tx'
    BY <2>3, <2>4 DEF free_tx, Live
  <2> QED
    BY <1>2, <2>1, <2>2, <2>5 DEF Slots
<1> QED
  BY <1>2, <1>3, <1>4, <1>5, <1>6, <1>7, <1>8 DEF ArbiterOK

\* A cycle preserves what ties the MSHR to the port that waits and to memory.
LEMMA MissStep ==
  ASSUME DcInv, NEW kill, NEW ret, NEW ack, NEW ptr, NEW way, NEW st, NEW sel,
         CycleStep(kill, ret, ack, ptr, way, st, sel)
  PROVE  MissOK'
<1> DEFINE q == miss_port(Req)
           start == Out(ptr, ack) = "load"
<1>1. ack \in BOOLEAN /\ ptr \in DirtyPtr
  BY DEF CycleStep, Inputs
<1>2. /\ mshr_vld' <=> start \/ (mshr_vld /\ ret.type # "load")
      /\ m_load'.phase # "idle" <=> start \/ (m_load.phase # "idle" /\ ret.type # "load")
      /\ start => /\ q \in miss_req /\ q \in ReadPort /\ ~mshr_vld
                  /\ mshr'.word = ld[q].word /\ mshr'.way \in Way /\ mshr'.port = q
      /\ mshr_vld => mshr' = mshr
  BY MshrStep
<1>3. /\ mshr_vld <=> m_load.phase # "idle"
      /\ \A p \in ReadPort : /\ Waiting(p) <=> mshr_vld /\ mshr.port = p
                             /\ Waiting(p) => ld[p].word = mshr.word
                             /\ ld[p].state # "IDLE" => ld[p].word \in Word
      /\ mshr_vld => mshr.word \in Word /\ mshr.way \in Way /\ mshr.port \in ReadPort
  BY DEF DcInv, MissOK, Waiting, In
<1>4. mshr_vld' <=> m_load'.phase # "idle"
  BY <1>2, <1>3
<1>5. ASSUME NEW p \in ReadPort
      PROVE  /\ In(p, {"MISS_WAIT", "KILL_MISS"})' <=> mshr_vld' /\ mshr'.port = p
             /\ In(p, {"MISS_WAIT", "KILL_MISS"})' => ld'[p].word = mshr'.word
             /\ ~In(p, {"IDLE"})' => ld'[p].word \in Word
             /\ p \in reading' => rd_q'.port = p
  <2>1. /\ ld'[p].state \in {"MISS_WAIT", "KILL_MISS"} <=>
             (Waiting(p) /\ ~Returned(p, ret)) \/ Acked(p, ptr, ack)
        /\ ld'[p].state # "IDLE" =>
             IF Taken(p, sel) THEN ld'[p].word \in Word /\ ld'[p].state = "READ"
             ELSE ld'[p].word = ld[p].word /\ ld[p].state # "IDLE"
        /\ ld'[p].state \in {"READ", "REPLAY_READ"} => sel.port = p /\ looks(sel, kill)
    BY CtrlStep
  <2>2. ld'[p].state \in {"MISS_WAIT", "KILL_MISS"} <=> mshr_vld' /\ mshr'.port = p
    <3>1. CASE start
      BY <3>1, <1>2, <1>3, <2>1 DEF Acked
    <3>2. CASE ~start
      BY <3>2, <1>2, <1>3, <2>1 DEF Acked, Returned
    <3> QED
      BY <3>1, <3>2
  <2>3. ld'[p].state \in {"MISS_WAIT", "KILL_MISS"} => ld'[p].word = mshr'.word
    <3>1. ld'[p].state \in {"MISS_WAIT", "KILL_MISS"} => ld'[p].word = ld[p].word
      BY <2>1
    <3>2. CASE start
      BY <3>1, <3>2, <1>2, <1>3, <2>1 DEF Acked
    <3>3. CASE ~start
      BY <3>1, <3>3, <1>2, <1>3, <2>1 DEF Acked, Returned
    <3> QED
      BY <3>2, <3>3
  <2>4. ld'[p].state # "IDLE" => ld'[p].word \in Word
    BY <1>3, <2>1
  <2>5. p \in reading' => rd_q'.port = p
    BY <2>1, LookupStep DEF reading, In
  <2> QED
    BY <2>2, <2>3, <2>4, <2>5 DEF In
<1>6. mshr_vld' => mshr'.word \in Word /\ mshr'.way \in Way /\ mshr'.port \in ReadPort
  <2>1. start => ld[q].word \in Word
    BY <1>2, <1>3 DEF miss_req, In
  <2> QED
    BY <1>2, <1>3, <2>1
<1>7. ASSUME mu_state' = "LOAD_WAIT"
      PROVE  locked' \in miss_req' /\ ~mshr_vld'
  <2>1. Mem(ptr) = "load" /\ ~ack /\ locked' = q /\ ~start
    BY <1>7, MuStep DEF Out
  <2>2. q \in miss_req /\ q \in ReadPort /\ ~mshr_vld /\ ~Replayed(q, ptr)
    BY <1>1, <2>1, LoadRequest DEF Replayed
  <2>3. ~Acked(q, ptr, ack)
    BY <2>1 DEF Acked
  <2>4. ld'[q].state \in {"MISS_REQ", "KILL_MISS_ACK"}
    BY <2>2, <2>3, CtrlStep
  <2> QED
    BY <1>2, <2>1, <2>2, <2>4 DEF miss_req, In
<1>8. ASSUME mu_state' \in {"FLUSH", "AMO", "AMO_WAIT"}
      PROVE  ~mshr_vld'
  <2>1. \/ mu_state = "IDLE" /\ drained /\ Mem(ptr) = "none"
        \/ mu_state \in {"AMO", "AMO_WAIT"}
    BY <1>8, MuStep
  <2>2. ~mshr_vld
    BY <2>1 DEF drained, DcInv, MissOK
  <2>3. ~start
    BY <2>1, RequestFacts DEF Out
  <2> QED
    BY <1>2, <2>2, <2>3
<1> QED
  BY <1>4, <1>5, <1>6, <1>7, <1>8 DEF MissOK

-----------------------------------------------------------------------------
(***************************************************************************)
(* A cycle preserves what keeps loads and stores of a line apart and what  *)
(* is known of the ways.                                                   *)
(***************************************************************************)
LEMMA ApartStep ==
  ASSUME DcInv, NEW kill, NEW ret, NEW ack, NEW ptr, NEW way, NEW st, NEW sel,
         CycleStep(kill, ret, ack, ptr, way, st, sel)
  PROVE  ApartOK'
<1> DEFINE q == miss_port(Req)
           start == Out(ptr, ack) = "load"
           sent == Out(ptr, ack) = "store"
<1>1. ack \in BOOLEAN /\ ptr \in DirtyPtr
  BY DEF CycleStep, Inputs
<1>2. /\ mshr_vld' <=> start \/ (mshr_vld /\ ret.type # "load")
      /\ start => mshr'.word = ld[q].word
      /\ mshr_vld => mshr' = mshr
  BY MshrStep
<1>3. Mem(ptr) = "load" => \A t \in Live : LineApart(t, ld[q].word)
  BY <1>1, LoadRequest
<1>4. Mem(ptr) = "store" => ptr \in dirty /\ (mshr_vld => wbuffer[ptr].word.line # mshr.word.line)
  BY <1>1, StoreRequest
<1>5. ASSUME NEW t \in Live', ~(sent /\ t = tx_id)
      PROVE  t \in Live /\ wbuffer'[tx_stat'[t].ptr].word = wbuffer[tx_stat[t].ptr].word
  <2>1. t \in Live /\ tx_stat'[t] = tx_stat[t]
        /\ wbuffer'[tx_stat[t].ptr].word = wbuffer[tx_stat[t].ptr].word
    BY <1>5, OngoingStep
  <2> QED
    BY <2>1
<1>6. ASSUME mshr_vld', NEW t \in Live'
      PROVE  LineApart(t, mshr.word)'
  <2>1. CASE start
    <3>1. ~sent /\ Mem(ptr) = "load"
      BY <2>1 DEF Out
    <3>2. LineApart(t, ld[q].word)
      BY <3>1, <1>3, <1>5
    <3> QED
      BY <2>1, <3>1, <3>2, <1>2, <1>5 DEF LineApart
  <2>2. CASE ~start /\ ~(sent /\ t = tx_id)
    <3>1. mshr_vld /\ mshr' = mshr
      BY <2>2, <1>2, <1>6
    <3>2. LineApart(t, mshr.word)
      BY <2>2, <3>1, <1>5 DEF DcInv, ApartOK
    <3> QED
      BY <2>2, <3>1, <3>2, <1>5 DEF LineApart
  <2>3. CASE ~start /\ sent /\ t = tx_id
    <3>1. mshr_vld /\ mshr' = mshr /\ Mem(ptr) = "store"
      BY <2>3, <1>2, <1>6 DEF Out
    <3>2. tx_stat'[t].ptr = ptr /\ wbuffer'[ptr].word = wbuffer[ptr].word
      <4>1. /\ tx_stat'[tx_id] = [vld |-> TRUE, be |-> tx_be(ptr), ptr |-> ptr]
            /\ wbuffer'[ptr].word = wbuffer[ptr].word
        BY <2>3, BeginStep
      <4> QED
        BY <2>3, <4>1
    <3> QED
      BY <3>1, <3>2, <1>4 DEF LineApart
  <2> QED
    BY <2>1, <2>2, <2>3
<1>7. ASSUME mu_state' = "LOAD_WAIT", NEW t \in Live'
      PROVE  LineApart(t, ld[locked].word)'
  <2>1. Mem(ptr) = "load" /\ ~ack /\ locked' = q /\ ~start /\ ~sent
    BY <1>7, MuStep DEF Out
  <2>2. q \in miss_req /\ q \in ReadPort /\ ~Replayed(q, ptr) /\ ~Acked(q, ptr, ack)
    BY <1>1, <2>1, LoadRequest DEF Replayed, Acked
  <2>3. ld'[q].word = ld[q].word
    BY <2>2, CtrlStep
  <2>4. LineApart(t, ld[q].word)
    BY <2>1, <1>3, <1>5
  <2> QED
    BY <2>1, <2>3, <2>4, <1>5 DEF LineApart
<1>8. ASSUME mu_state' = "STORE_WAIT", mshr_vld'
      PROVE  wbuffer'[dirty_lock'].word.line # mshr'.word.line
  <2>1. Mem(ptr) = "store" /\ ~ack /\ ~start /\ ~sent
    BY <1>8, MuStep DEF Out
  <2>2. dirty_lock' = ptr
    BY <2>1 DEF CycleStep, CoreStep, WbufferCycle
  <2>3. wbuffer'[ptr].word = wbuffer[ptr].word
    BY <2>1, <1>4, DirtyStays
  <2> QED
    BY <2>1, <2>2, <2>3, <1>2, <1>4, <1>8
<1> QED
  BY <1>6, <1>7, <1>8 DEF ApartOK

\* A cycle preserves what is known of the tag lookups.
LEMMA LookupOKStep ==
  ASSUME DcInv, NEW kill, NEW ret, NEW ack, NEW ptr, NEW way, NEW st, NEW sel,
         CycleStep(kill, ret, ack, ptr, way, st, sel)
  PROVE  LookupOK'
<1>1. ~wr_cl_vld(ret) => \A l : Holds(cache', l) = Holds(cache, l)
  BY LineStep
<1>2. ASSUME NEW p \in reading'
      PROVE  rd_q'.hits = hits_of(ld[p].word)'
  <2>1. p \in ReadPort /\ ld'[p].state \in {"READ", "REPLAY_READ"}
    BY DEF reading, In
  <2>2. /\ sel.port = p /\ ~wr_cl_vld(ret) /\ looks(sel, kill)
        /\ ld'[p].word = rd_word(sel)
    BY <2>1, CtrlStep
  <2>3. rd_q'.hits = hits_of(rd_word(sel))
    BY <2>1, <2>2, LookupStep
  <2>4. hits_of(ld[p].word)' = Holds(cache', ld'[p].word.line)
    BY DEF hits_of, Holds
  <2> QED
    BY <1>1, <2>2, <2>3, <2>4, HitsHolds
<1>3. ASSUME rd_q'.port = WrPort
      PROVE  rd_q'.slot \in valid' /\ rd_q'.hits = hits_of(wbuffer[rd_q.slot].word)'
  <2> DEFINE k == sel.slot
  <2>1. /\ k \in tocheck /\ ~wr_cl_vld(ret) /\ rd_q'.slot = k
        /\ rd_q'.hits = hits_of(wbuffer[k].word)
    BY <1>3, LookupStep
  <2>2. k \in Slots /\ k \in valid /\ ~wbuffer[k].checked
    BY <2>1 DEF tocheck, valid
  <2>3. ~Leaves(k, ret, sel)
    BY <2>2, EvictFacts DEF Leaves
  <2>4. ASSUME Sends(k, ptr, ack) PROVE tx_be(k) # {}
    <3>1. Out(ptr, ack) = "store" /\ ptr = k
      BY <2>4 DEF Sends
    <3>2. k \in dirty
      BY <3>1, SendFacts
    <3> QED
      BY <3>2, DirtyEntry
  <2>5. wbuffer'[k].valid # {}
    <3>1. wbuffer[k].dirty # {} \/ wbuffer[k].txblock # {}
      BY <2>2 DEF DcInv, EntriesOK, valid
    <3>2. wbuffer[k].dirty # {} => wbuffer'[k].dirty # {} \/ wbuffer'[k].txblock # {}
      BY <2>2, <2>3, <2>4, SlotStep
    <3>3. wbuffer[k].txblock # {} => wbuffer'[k].txblock # {}
      BY <2>2, <2>3, <2>4, SlotStep
    <3> QED
      BY <2>2, <3>1, <3>2, <3>3, SlotStep
  <2>6. wbuffer'[k].word = wbuffer[k].word
    BY <2>2, <2>5, SlotStep
  <2>7. hits_of(wbuffer[rd_q.slot].word)' = Holds(cache', wbuffer'[rd_q'.slot].word.line)
    BY DEF hits_of, Holds
  <2> QED
    BY <1>1, <2>1, <2>2, <2>5, <2>6, <2>7, HitsHolds DEF valid
<1>4. ASSUME check_q1'.en, check_q1'.ptr \in valid', ~wr_cl_q'
      PROVE  check_q1'.hit_oh = hits_of(wbuffer[check_q1.ptr].word)'
  <2>1. /\ check_q1' = IF rd_q.port = WrPort
                       THEN [en |-> TRUE, ptr |-> rd_q.slot, hit_oh |-> rd_q.hits]
                       ELSE NoCheck
        /\ wr_cl_q' = wr_cl_vld(ret)
    BY DEF CycleStep, CoreStep, WbufferCycle
  <2>2. rd_q.port = WrPort /\ check_q1'.ptr = rd_q.slot /\ check_q1'.hit_oh = rd_q.hits
    BY <1>4, <2>1 DEF NoCheck
  <2>3. /\ rd_q.slot \in valid /\ rd_q.slot \in Slots
        /\ rd_q.hits = hits_of(wbuffer[rd_q.slot].word)
    BY <2>2 DEF DcInv, LookupOK, valid
  <2>4. wbuffer'[rd_q.slot].word = wbuffer[rd_q.slot].word
    BY <1>4, <2>2, <2>3, SlotStep DEF valid
  <2>5. hits_of(wbuffer[check_q1.ptr].word)' = Holds(cache', wbuffer'[check_q1'.ptr].word.line)
    BY DEF hits_of, Holds
  <2> QED
    BY <1>1, <1>4, <2>1, <2>2, <2>3, <2>4, <2>5, HitsHolds
<1>5. ASSUME NEW k \in valid', wbuffer'[k].checked
      PROVE  wbuffer'[k].hit_oh = hits_of(wbuffer[k].word)'
  <2>1. k \in Slots
    BY DEF valid
  <2>2. /\ k \in valid /\ ~wr_cl_vld(ret) /\ ~wr_cl_q /\ wbuffer'[k].valid # {}
        /\ \/ check_q1.en /\ check_q1.ptr = k /\ wbuffer'[k].hit_oh = check_q1.hit_oh
           \/ wbuffer[k].checked /\ wbuffer'[k].hit_oh = wbuffer[k].hit_oh
    BY <1>5, <2>1, SlotStep
  <2>3. wbuffer'[k].word = wbuffer[k].word
    BY <2>1, <2>2, SlotStep
  <2>4. wbuffer'[k].hit_oh = hits_of(wbuffer[k].word)
    BY <2>2 DEF DcInv, LookupOK
  <2>5. hits_of(wbuffer[k].word)' = Holds(cache', wbuffer'[k].word.line)
    BY DEF hits_of, Holds
  <2> QED
    BY <1>1, <2>2, <2>3, <2>4, <2>5, HitsHolds
<1> QED
  BY <1>2, <1>3, <1>4, <1>5 DEF LookupOK

\* What is asked for or fetched is in no way, and no line comes twice.
LEMMA LinesStep ==
  ASSUME DcInv, NEW kill, NEW ret, NEW ack, NEW ptr, NEW way, NEW st, NEW sel,
         CycleStep(kill, ret, ack, ptr, way, st, sel)
  PROVE  LinesOK'
<1> DEFINE q == miss_port(Req)
           start == Out(ptr, ack) = "load"
<1>1. ack \in BOOLEAN /\ ptr \in DirtyPtr /\ ret \in Messages
  BY DEF CycleStep, Inputs
<1>2. /\ cache_en' = (enable_i /\ (cache_en \/ mu_state = "FLUSH"))
      /\ collided' = rdrd_collision(Req, At(ptr)) \ {WrPort}
  BY DEF CycleStep, MissunitCycle
<1>3. \A l : Holds(cache', l) = IF flush_en THEN {}
                    ELSE IF ret.type = "inv" THEN Holds(cache, l) \ ret.ways
                    ELSE IF Fills(ret)
                      THEN (Holds(cache, l) \ {mshr.way}) \cup
                           (IF l = mshr.word.line THEN {mshr.way} ELSE {})
                    ELSE Holds(cache, l)
  BY LineStep
<1>4. /\ ~wr_cl_vld(ret) => \A l : Holds(cache', l) = Holds(cache, l)
      /\ Fills(ret) => mshr_vld /\ ~mshr.nc /\ ret.type = "load"
  BY LineStep DEF Fills
<1>5. \A l : Holds(cache', l) \subseteq Holds(cache, l) \/ (Fills(ret) /\ l = mshr.word.line)
  BY <1>3
<1>6. \A l : flush_en => Holds(cache', l) = {}
  BY <1>3
<1>7. cache_en' /\ ~flush_en => cache_en
  BY <1>2 DEF flush_en
<1>8. \A w : hits_of(w) = Holds(cache, w.line)
  BY HitsHolds
<1>9. /\ mshr_vld' <=> start \/ (mshr_vld /\ ret.type # "load")
      /\ start => /\ mshr'.word = ld[q].word /\ mshr'.nc = miss_nc(q) /\ ~mshr_vld
      /\ mshr_vld => mshr' = mshr
  BY MshrStep
<1>10. Mem(ptr) = "load" => /\ q \in miss_req /\ q \in ReadPort /\ ~mshr_vld
                            /\ ~Replayed(q, ptr)
                            /\ cache_en => Holds(cache, ld[q].word.line) = {}
                            /\ ~flush_en
  BY <1>1, <1>8, LoadRequest DEF Replayed, flush_en
<1>11. Fills(ret) => Holds(cache, mshr.word.line) = {}
  BY <1>4, <1>8 DEF DcInv, LinesOK
<1>12. ASSUME cache_en', NEW w \in Word, NEW y \in hits_of(w)', NEW z \in hits_of(w)'
       PROVE  y = z
  <2>1. hits_of(w)' = Holds(cache', w.line)
    BY DEF hits_of, Holds
  <2>2. CASE flush_en
    BY <2>1, <2>2, <1>6
  <2>3. CASE Fills(ret) /\ w.line = mshr.word.line /\ ~flush_en
    BY <2>1, <2>3, <1>3, <1>4, <1>11
  <2>4. CASE ~flush_en /\ ~(Fills(ret) /\ w.line = mshr.word.line)
    <3>1. y \in hits_of(w) /\ z \in hits_of(w)
      BY <2>1, <2>4, <1>5, <1>8
    <3> QED
      BY <2>4, <3>1, <1>7, <1>12 DEF DcInv, LinesOK
  <2> QED
    BY <2>2, <2>3, <2>4
<1>13. ASSUME mshr_vld', ~mshr'.nc
       PROVE  hits_of(mshr.word)' = {}
  <2>1. hits_of(mshr.word)' = Holds(cache', mshr'.word.line)
    BY DEF hits_of, Holds
  <2>2. CASE start
    <3>1. Mem(ptr) = "load" /\ ~mshr_vld /\ ~Fills(ret)
      BY <2>2, <1>4, <1>9 DEF Out
    <3>2. cache_en
      BY <2>2, <1>9, <1>13 DEF miss_nc
    <3>3. Holds(cache, mshr'.word.line) = {}
      BY <2>2, <3>1, <3>2, <1>9, <1>10
    <3> QED
      BY <2>1, <3>1, <3>3, <1>5
  <2>3. CASE ~start
    <3>1. mshr_vld /\ mshr' = mshr /\ ~Fills(ret)
      BY <2>3, <1>4, <1>9, <1>13
    <3>2. Holds(cache, mshr.word.line) = {}
      BY <3>1, <1>8, <1>13 DEF DcInv, LinesOK
    <3> QED
      BY <2>1, <3>1, <3>2, <1>5
  <2> QED
    BY <2>2, <2>3
<1>14. ASSUME cache_en', NEW p \in miss_req'
       PROVE  hits_of(ld[p].word)' = {} \/ p \in collided'
  <2>1. hits_of(ld[p].word)' = Holds(cache', ld'[p].word.line)
    BY DEF hits_of, Holds
  <2>2. p \in ReadPort /\ ld'[p].state \in {"MISS_REQ", "KILL_MISS_ACK"}
    BY DEF miss_req, In
  <2>3. /\ \/ p \in miss_req
           \/ p \in reading /\ ~wr_cl_vld(ret) /\ (rd_q.hits = {} \/ ~cache_en)
        /\ ld'[p].word = ld[p].word
    <3>1. ld'[p].state # "READ" /\ ld'[p].state # "IDLE"
      BY <2>2
    <3> QED
      BY <2>2, <3>1, CtrlStep
  <2>4. CASE flush_en
    BY <2>1, <2>4, <1>6
  <2>5. CASE ~flush_en /\ p \in miss_req
    <3>1. p \in Req /\ p # WrPort /\ At(ptr)[p] = ld[p].word
      BY <2>2, <2>5 DEF Req, At, WrPort, ReadPort
    <3>2. p \in collided => p \in collided'
      BY <3>1, <1>2 DEF rdrd_collision
    <3>3. Fills(ret) /\ ld[p].word.line = mshr.word.line => p \in collided'
      <4>1. Fills(ret) => mshr_vld /\ mshr.word # None
        BY <1>4 DEF DcInv, MissOK
      <4> QED
        BY <3>1, <4>1, <1>2 DEF rdrd_collision, SameLine
    <3>4. Holds(cache, ld[p].word.line) = {} \/ p \in collided
      BY <2>5, <1>7, <1>8, <1>14 DEF DcInv, LinesOK
    <3> QED
      BY <2>1, <2>3, <3>2, <3>3, <3>4, <1>5
  <2>6. CASE ~flush_en /\ p \in reading /\ ~wr_cl_vld(ret) /\ (rd_q.hits = {} \/ ~cache_en)
    <3>1. rd_q.hits = {} /\ rd_q.hits = hits_of(ld[p].word)
      BY <2>6, <1>7, <1>14 DEF DcInv, LookupOK
    <3> QED
      BY <2>1, <2>3, <2>6, <3>1, <1>4, <1>8
  <2> QED
    BY <2>3, <2>4, <2>5, <2>6
<1>15. ASSUME cache_en', mu_state' = "LOAD_WAIT"
       PROVE  hits_of(ld[locked].word)' = {}
  <2>1. hits_of(ld[locked].word)' = Holds(cache', ld'[locked'].word.line)
    BY DEF hits_of, Holds
  <2>2. Mem(ptr) = "load" /\ ~ack /\ locked' = q
    BY <1>15, MuStep
  <2>3. ld'[q].word = ld[q].word
    <3>1. ~Acked(q, ptr, ack) /\ q \in miss_req /\ q \in ReadPort /\ ~Replayed(q, ptr)
      BY <2>2, <1>10 DEF Acked, Out
    <3>2. ld'[q].state \in {"MISS_REQ", "KILL_MISS_ACK"}
      BY <3>1, CtrlStep
    <3> QED
      BY <3>1, <3>2, CtrlStep
  <2>4. Holds(cache, ld[q].word.line) = {} /\ ~Fills(ret)
    BY <2>2, <1>4, <1>7, <1>10, <1>15
  <2> QED
    BY <2>1, <2>2, <2>3, <2>4, <1>5
<1> QED
  BY <1>12, <1>13, <1>14, <1>15 DEF LinesOK

\* An entry that is stored into is the accepted store's.
LEMMA WriteFacts ==
  ASSUME DcInv, NEW kill, NEW ret, NEW ack, NEW ptr, NEW way, NEW st, NEW sel,
         CycleStep(kill, ret, ack, ptr, way, st, sel), NEW k \in Slots, Writes(k, st)
  PROVE  /\ amo = "none" /\ wbuffer'[k].valid # {} /\ wbuffer'[k].word = st.word
         /\ st.word \in Word
         /\ st.word \in NonIdempotent => ni_pending = {}
<1>1. st \in StoreReqs
  BY DEF CycleStep, Inputs
<1>2. /\ amo = "none" /\ st.word \in Word /\ st.be # {}
      /\ st.word \in NonIdempotent => ni_pending = {}
  BY <1>1, StoreFacts DEF Writes
<1>3. wbuffer'[k].valid # {}
  BY <1>2, SlotStep
<1>4. wbuffer'[k].word = st.word
  BY <1>3, SlotStep
<1> QED
  BY <1>2, <1>3, <1>4

\* A cycle preserves what is known of an atomic operation under way.
LEMMA AmoStep ==
  ASSUME DcInv, NEW kill, NEW ret, NEW ack, NEW ptr, NEW way, NEW st, NEW sel,
         CycleStep(kill, ret, ack, ptr, way, st, sel)
  PROVE  AmoOK'
<1> DEFINE out == Out(ptr, ack)
<1>1. /\ ret \in Messages /\ ack \in BOOLEAN /\ program' = program
      /\ amo' \in CASE amo = "none" -> {"none"} \cup (IF program.amo # None THEN {"req"} ELSE {})
                    [] amo = "req" /\ out = "amo"                -> {"sent"}
                    [] amo = "sent" /\ ret.type = "inv" /\ ret.ways = Way -> {"inv"}
                    [] amo = "done" /\ ret.type = "amo"          -> {"none"}
                    [] OTHER                                     -> {amo}
  BY DEF CycleStep, Inputs, EnvNext
<1>2. /\ amo = "none" => amo' = "none" \/ (amo' = "req" /\ program.amo # None)
      /\ amo = "req" => amo' = IF out = "amo" THEN "sent" ELSE "req"
      /\ amo = "sent" => amo' = IF ret.type = "inv" /\ ret.ways = Way THEN "inv" ELSE "sent"
      /\ amo = "inv" => amo' = "inv"
      /\ amo = "done" => amo' = IF ret.type = "amo" THEN "none" ELSE "done"
  BY <1>1
<1>3. amo \in {"none", "req", "sent", "inv", "done"}
  BY DEF DcInv, DcTypeOK, CoreTyped
<1>4. ret.type = "amo" => amo = "done"
  BY <1>1, MessageFacts
<1>5. /\ amo \in {"sent", "inv", "done"} <=> mu_state = "AMO_WAIT"
      /\ mu_state = "AMO" => amo = "req"
      /\ mu_state \in {"AMO", "AMO_WAIT"} => wbuffer_empty
      /\ amo # "none" => program.amo \in Word
      /\ amo \in {"inv", "done"} => hits_of(program.amo) = {}
  BY DEF DcInv, AmoOK
<1>6. /\ mu_state' = "AMO" => \/ mu_state = "AMO" /\ ~ack
                              \/ mu_state = "IDLE" /\ drained /\ Mem(ptr) = "none"
                                 /\ amo # "none"
      /\ mu_state' = "AMO_WAIT" <=> \/ mu_state = "AMO" /\ ack
                                    \/ mu_state = "AMO_WAIT" /\ ret.type # "amo"
  BY MuStep
<1>7. out = "amo" <=> mu_state = "AMO" /\ ack
  BY <1>1, RequestFacts DEF Out
<1>8. amo' \in {"sent", "inv", "done"} <=> mu_state' = "AMO_WAIT"
  <2>1. CASE mu_state = "AMO_WAIT"
    BY <2>1, <1>2, <1>3, <1>4, <1>5, <1>6
  <2>2. CASE mu_state # "AMO_WAIT"
    BY <2>2, <1>2, <1>3, <1>5, <1>6, <1>7
  <2> QED
    BY <2>1, <2>2
<1>9. mu_state' = "AMO" => amo' = "req"
  BY <1>2, <1>3, <1>5, <1>6, <1>7
<1>10. ASSUME mu_state' \in {"AMO", "AMO_WAIT"}
       PROVE  wbuffer_empty'
  <2>1. amo # "none" /\ wbuffer_empty
    BY <1>5, <1>6, <1>10 DEF drained
  <2>2. \A k \in Slots : ~Writes(k, st)
    BY <2>1, WriteFacts
  <2>3. \A k \in Slots : wbuffer'[k].valid # {} => k \in valid
    BY <2>2, SlotStep
  <2> QED
    BY <2>1, <2>3 DEF wbuffer_empty, valid
<1>11. amo' # "none" => program'.amo \in Word
  <2>1. program.amo \in Word \cup {None}
    BY DEF DcInv, DcTypeOK, CoreTyped, Workload
  <2> QED
    BY <2>1, <1>1, <1>2, <1>5
<1>12. ASSUME amo' \in {"inv", "done"}
       PROVE  hits_of(program.amo)' = {}
  <2>1. hits_of(program.amo)' = Holds(cache', program.amo.line)
    BY <1>1 DEF hits_of, Holds
  <2>2. /\ mu_state = "AMO_WAIT"
        /\ (amo = "sent" /\ ret.type = "inv" /\ ret.ways = Way) \/ hits_of(program.amo) = {}
    BY <1>2, <1>3, <1>5, <1>12
  <2>3. ~flush_en /\ ~mshr_vld
    BY <2>2 DEF flush_en, DcInv, MissOK
  <2>4. ~Fills(ret)
    BY <2>3, LineStep
  <2>5. Holds(cache', program.amo.line) =
          IF ret.type = "inv" THEN Holds(cache, program.amo.line) \ ret.ways
          ELSE Holds(cache, program.amo.line)
    BY <2>3, <2>4, LineStep
  <2>6. Holds(cache, program.amo.line) \subseteq Way
    BY DEF Holds
  <2> QED
    BY <2>1, <2>2, <2>5, <2>6, HitsHolds
<1> QED
  BY <1>8, <1>9, <1>10, <1>11, <1>12 DEF AmoOK

\* One device store at a time.
LEMMA DevicesStep ==
  ASSUME DcInv, NEW kill, NEW ret, NEW ack, NEW ptr, NEW way, NEW st, NEW sel,
         CycleStep(kill, ret, ack, ptr, way, st, sel)
  PROVE  DevicesOK'
<1>1. ni_pending' = {k \in Slots : IF Writes(k, st) THEN st.word \in NonIdempotent
                                   ELSE k \in ni_pending /\ wbuffer'[k].valid # {}}
  BY DEF CycleStep, CoreStep, WbufferCycle, Writes
<1>2. ni_pending = ni_entries /\ \A k, j \in ni_entries : k = j
  BY DEF DcInv, DevicesOK
<1>3. ni_entries' = {k \in Slots : wbuffer'[k].valid # {} /\ wbuffer'[k].word \in NonIdempotent}
  BY DEF ni_entries, valid
<1>4. ASSUME NEW k \in Slots
      PROVE  k \in ni_entries' <=> IF Writes(k, st) THEN st.word \in NonIdempotent
                                   ELSE k \in ni_entries /\ wbuffer'[k].valid # {}
  <2>1. CASE Writes(k, st)
    <3>1. wbuffer'[k].valid # {} /\ wbuffer'[k].word = st.word
      BY <2>1, WriteFacts
    <3> QED
      BY <2>1, <3>1, <1>3
  <2>2. CASE ~Writes(k, st)
    <3>1. wbuffer'[k].valid # {} => k \in valid /\ wbuffer'[k].word = wbuffer[k].word
      BY <2>2, SlotStep
    <3>2. k \in ni_entries <=> k \in valid /\ wbuffer[k].word \in NonIdempotent
      BY DEF ni_entries
    <3> QED
      BY <2>2, <3>1, <3>2, <1>3
  <2> QED
    BY <2>1, <2>2
<1>5. ni_pending' = ni_entries'
  BY <1>1, <1>2, <1>3, <1>4
<1>6. \A k, j : Writes(k, st) /\ Writes(j, st) => k = j
  BY DEF Writes
<1>7. \A k \in Slots : Writes(k, st) /\ st.word \in NonIdempotent => ni_entries = {}
  BY <1>2, WriteFacts
<1>8. ASSUME NEW k \in ni_entries', NEW j \in ni_entries' PROVE k = j
  BY <1>2, <1>3, <1>4, <1>6, <1>7
<1> QED
  BY <1>5, <1>8 DEF DevicesOK

-----------------------------------------------------------------------------
(***************************************************************************)
(* A cycle keeps every byte current somewhere.                             *)
(***************************************************************************)
\* The write buffer bf holds byte b of word w.
InBuffer(bf, w, b) == \E k \in Slots : bf[k].word = w /\ b \in bf[k].valid

\* The byte leaves the buffer in this cycle.
LeavesBuffer(w, b, ret, sel) ==
  Evicts(ret, sel) /\ wbuffer[rtrn_ptr].word = w /\ b \in wr_data_be

\* The bytes of a word in the write buffer.
LEMMA BufferHolds == \A w, b : b \in wbuffer_be(w) <=> InBuffer(wbuffer, w, b)
BY DEF wbuffer_be, wbuffer_hit, valid, InBuffer

\* A byte that the buffer does not hold after a cycle was not stored in it, and
\* was not there before or belongs to the transaction that ends.
LEMMA OutsideStep ==
  ASSUME DcInv, NEW kill, NEW ret, NEW ack, NEW ptr, NEW way, NEW st, NEW sel,
         CycleStep(kill, ret, ack, ptr, way, st, sel),
         NEW w \in Word, NEW b \in Byte, ~InBuffer(wbuffer', w, b)
  PROVE  /\ <<w, b>> \notin Outdated(st)
         /\ ~InBuffer(wbuffer, w, b) \/ LeavesBuffer(w, b, ret, sel)
<1>1. \A k \in Slots : wbuffer'[k].word = w => b \notin wbuffer'[k].valid
  BY DEF InBuffer
<1>2. <<w, b>> \notin Outdated(st)
  <2>1. SUFFICES ASSUME <<w, b>> \in Outdated(st) PROVE FALSE
    OBVIOUS
  <2>2. st.word = w /\ b \in st.be /\ st.word # None /\ st \in StoreReqs
    BY <2>1 DEF Outdated, Cells, CycleStep, Inputs
  <2> DEFINE k == wr_ptr(w)
  <2>3. k \in Slots /\ Writes(k, st)
    BY <2>2, StoreFacts DEF Writes
  <2>4. wbuffer'[k].word = w
    BY <2>2, <2>3, WriteFacts
  <2>5. b \in wbuffer'[k].dirty /\ wbuffer'[k].valid = wbuffer'[k].dirty \cup wbuffer'[k].txblock
    BY <2>2, <2>3, SlotStep
  <2> QED
    BY <1>1, <2>3, <2>4, <2>5
<1>3. ASSUME NEW k \in Slots, wbuffer[k].word = w, b \in wbuffer[k].valid
      PROVE  LeavesBuffer(w, b, ret, sel)
  <2>1. k \in valid
    BY <1>3 DEF valid
  <2>2. b \notin wbuffer'[k].valid
    <3>1. wbuffer'[k].valid # {} => wbuffer'[k].word = w
      BY <1>3, <2>1, SlotStep
    <3> QED
      BY <1>1, <3>1
  <2>3. b \notin wbuffer'[k].dirty /\ b \notin wbuffer'[k].txblock
    BY <2>2, SlotStep
  <2>4. Sends(k, ptr, ack) => /\ ~Leaves(k, ret, sel) /\ wbuffer[k].txblock = {}
    <3>1. ASSUME Sends(k, ptr, ack) PROVE k \in dirty
      <4>1. Out(ptr, ack) = "store" /\ ptr = k
        BY <3>1 DEF Sends
      <4> QED
        BY <4>1, SendFacts
    <3>2. ASSUME k \in dirty PROVE wbuffer[k].txblock = {}
      BY <3>2, DirtyEntry
    <3>3. ASSUME Leaves(k, ret, sel) PROVE wbuffer[k].txblock # {}
      BY <3>3, HeadTransaction DEF Leaves, Evicts, evict, evictable
    <3> QED
      BY <3>1, <3>2, <3>3
  <2>5. b \notin wbuffer[k].dirty
    <3>1. Sends(k, ptr, ack) => wbuffer'[k].txblock = tx_be(k)
      BY <2>4, SlotStep
    <3> QED
      BY <2>3, <3>1, SlotStep
  <2>6. b \in wbuffer[k].txblock
    BY <1>3, <2>5 DEF DcInv, EntriesOK
  <2>7. Leaves(k, ret, sel)
    BY <2>3, <2>4, <2>6, SlotStep
  <2>8. Evicts(ret, sel) /\ rtrn_ptr = k /\ rtrn # <<>>
    BY <2>7 DEF Leaves, Evicts, evict, evictable
  <2>9. wbuffer[rtrn_ptr].txblock = tx_stat[rtrn_id].be
    BY <2>8, HeadTransaction
  <2> QED
    BY <1>3, <2>5, <2>6, <2>8, <2>9 DEF LeavesBuffer, wr_data_be
<1> QED
  BY <1>2, <1>3 DEF InBuffer

\* What leaves the buffer is in memory, belongs to no line that is fetched, and
\* is written into the ways that hold its line.
LEMMA LeavesFacts ==
  ASSUME DcInv, NEW ret, NEW sel, NEW w, NEW b, LeavesBuffer(w, b, ret, sel)
  PROVE  /\ <<w, b>> \in main
         /\ mshr_vld => mshr.word.line # w.line
         /\ hits_of(w) # {} => WordWrite(ret, sel) /\ wr_req = hits_of(w)
<1>1. Evicts(ret, sel) /\ wbuffer[rtrn_ptr].word = w /\ b \in wr_data_be
  BY DEF LeavesBuffer
<1>2. /\ rtrn # <<>> /\ rtrn_id \in Live /\ rtrn_id \notin Inflight
      /\ rtrn_ptr \in valid /\ wbuffer[rtrn_ptr].checked
      /\ \/ wr_data_be = {} \/ wbuffer[rtrn_ptr].hit_oh = {}
         \/ WordWrite(ret, sel)
  BY <1>1, EvictFacts
<1>3. b \in tx_stat[rtrn_id].be \ wbuffer[tx_stat[rtrn_id].ptr].dirty
  BY <1>1 DEF wr_data_be, rtrn_ptr
<1>4. m_store[rtrn_id].phase # "sent"
  BY <1>2 DEF Inflight, Live
<1>5. <<w, b>> \in main
  BY <1>1, <1>2, <1>3, <1>4 DEF DcInv, DataOK, rtrn_ptr
<1>6. mshr_vld => mshr.word.line # w.line
  BY <1>1, <1>2 DEF DcInv, ApartOK, LineApart, rtrn_ptr
<1>7. wbuffer[rtrn_ptr].hit_oh = hits_of(w)
  BY <1>1, <1>2 DEF DcInv, LookupOK
<1>8. WordWrite(ret, sel) => wr_req = wbuffer[rtrn_ptr].hit_oh
  BY DEF WordWrite, wr_req
<1> QED
  BY <1>1, <1>2, <1>5, <1>6, <1>7, <1>8

\* What the arrays hold of a cell that the cycle does not overwrite.
LEMMA CopyStep ==
  ASSUME DcInv, NEW kill, NEW ret, NEW ack, NEW ptr, NEW way, NEW st, NEW sel,
         CycleStep(kill, ret, ack, ptr, way, st, sel),
         NEW w, NEW b, <<w, b>> \notin Outdated(st), NEW y \in Way
  PROVE  /\ y \in wr_cl_we(ret) /\ Fills(ret) /\ <<w, b>> \in m_load.current =>
              <<w, b>> \in cache'[y].current
         /\ y \notin wr_cl_we(ret) /\ <<w, b>> \in cache[y].current =>
              <<w, b>> \in cache'[y].current
         /\ /\ y \notin wr_cl_we(ret) /\ WordWrite(ret, sel) /\ y \in wr_req
            /\ w = wbuffer[rtrn_ptr].word /\ b \in wr_data_be
            => <<w, b>> \in cache'[y].current
BY WayStep DEF Cells

\* The ways that hold a line after a cycle: one that is filled, or those that
\* were not written.
LEMMA WaysStep ==
  ASSUME DcInv, NEW kill, NEW ret, NEW ack, NEW ptr, NEW way, NEW st, NEW sel,
         CycleStep(kill, ret, ack, ptr, way, st, sel),
         NEW l, NEW y \in Holds(cache', l)
  PROVE  /\ y \in wr_cl_we(ret) => Fills(ret) /\ l = mshr.word.line
         /\ y \notin wr_cl_we(ret) => y \in Holds(cache, l)
<1>1. y \in Way
  BY DEF Holds
<1>2. /\ y \in wr_cl_we(ret) /\ Fills(ret) => cache'[y].line = mshr.word.line
      /\ y \in wr_cl_we(ret) /\ ~Fills(ret) => ~(cache'[y].vld)
      /\ y \notin wr_cl_we(ret) =>
           cache'[y].vld = cache[y].vld /\ cache'[y].line = cache[y].line
  BY <1>1, WayStep
<1> QED
  BY <1>1, <1>2 DEF Holds

\* A load that memory has performed waits to be sent.
LEMMA LoadStep ==
  ASSUME DcInv, NEW kill, NEW ret, NEW ack, NEW ptr, NEW way, NEW st, NEW sel,
         CycleStep(kill, ret, ack, ptr, way, st, sel)
  PROVE  /\ m_load' \in [phase : Phases, current : SUBSET Cell]
         /\ m_load'.phase = "done" => /\ m_load.phase = "done"
                                      /\ m_load'.current = m_load.current \ Outdated(st)
<1>1. m_load' = IF Out(ptr, ack) = "load" THEN [NoLoad EXCEPT !.phase = "sent"]
                ELSE IF ret.type = "load" THEN NoLoad
                ELSE [m_load EXCEPT !.current = @ \ Outdated(st)]
  <2>1. ret \in Messages /\ ack \in BOOLEAN /\ ptr \in DirtyPtr
    BY DEF CycleStep, Inputs
  <2>2. Out(ptr, ack) = "load" => ~mshr_vld
    BY MshrStep
  <2>3. Out(ptr, ack) = "load" => ret.type # "load"
    BY <2>1, <2>2, MessageFacts DEF load_ack
  <2>4. m_load' = CASE Out(ptr, ack) = "load" -> [NoLoad EXCEPT !.phase = "sent"]
                    [] ret.type = "load" -> NoLoad
                    [] OTHER -> [m_load EXCEPT !.current = @ \ Outdated(st)]
    BY DEF CycleStep, MemoryNext
  <2> QED
    BY <2>3, <2>4
<1>2. m_load \in [phase : Phases, current : SUBSET Cell]
  BY DEF DcInv, DcTypeOK, CopiesTyped
<1> QED
  BY <1>1, <1>2 DEF NoLoad, Phases

\* Every byte stays current where it has to be.
LEMMA DataStep ==
  ASSUME DcInv, NEW kill, NEW ret, NEW ack, NEW ptr, NEW way, NEW st, NEW sel,
         CycleStep(kill, ret, ack, ptr, way, st, sel)
  PROVE  DataOK'
<1>1. /\ ret \in Messages /\ st \in StoreReqs
      /\ main' = main \ Outdated(st)
      /\ cache_en' = (enable_i /\ (cache_en \/ mu_state = "FLUSH"))
  BY DEF CycleStep, Inputs, MemoryNext, MissunitCycle
<1>2. cache_en' /\ ~flush_en => cache_en
  BY <1>1 DEF flush_en
<1>3. ASSUME NEW w \in Word, NEW b \in Byte, ~InBuffer(wbuffer', w, b)
      PROVE  /\ <<w, b>> \in main'
             /\ cache_en' => \A y \in hits_of(w)' : <<w, b>> \in cache'[y].current
             /\ m_load'.phase = "done" /\ w.line = mshr'.word.line =>
                  <<w, b>> \in m_load'.current
             /\ \A p \in reading' : ld'[p].word = w /\ rd_q'.hits # {} /\ cache_en' =>
                  b \in rd_q'.current
  <2>1. /\ <<w, b>> \notin Outdated(st)
        /\ ~InBuffer(wbuffer, w, b) \/ LeavesBuffer(w, b, ret, sel)
    BY <1>3, OutsideStep
  <2>2. ~InBuffer(wbuffer, w, b) =>
          /\ <<w, b>> \in main
          /\ cache_en => \A y \in hits_of(w) : <<w, b>> \in cache[y].current
          /\ m_load.phase = "done" /\ w.line = mshr.word.line => <<w, b>> \in m_load.current
    BY BufferHolds DEF DcInv, DataOK
  <2>3. <<w, b>> \in main'
    BY <2>1, <2>2, <1>1, LeavesFacts
  <2>4. m_load.phase = "done" /\ w.line = mshr.word.line => <<w, b>> \in m_load.current
    <3>1. m_load.phase = "done" => mshr_vld
      BY DEF DcInv, MissOK
    <3> QED
      BY <2>1, <2>2, <3>1, LeavesFacts
  <2>5. ASSUME cache_en', NEW y \in hits_of(w)'
        PROVE  <<w, b>> \in cache'[y].current
    <3>1. y \in Way /\ y \in Holds(cache', w.line)
      BY <2>5 DEF hits_of, Holds
    <3>2. ~flush_en /\ cache_en
      BY <3>1, <1>2, <2>5, LineStep
    <3>3. CASE y \in wr_cl_we(ret)
      <4>1. Fills(ret) /\ w.line = mshr.word.line
        BY <3>1, <3>2, <3>3, WaysStep
      <4>2. m_load.phase = "done"
        BY <4>1, <1>1, MessageFacts DEF Fills
      <4> QED
        BY <4>1, <4>2, <2>1, <2>4, <3>1, <3>3, CopyStep
    <3>4. CASE y \notin wr_cl_we(ret)
      <4>1. y \in hits_of(w)
        BY <3>1, <3>4, WaysStep, HitsHolds
      <4>2. CASE ~InBuffer(wbuffer, w, b)
        BY <4>1, <4>2, <2>1, <2>2, <3>1, <3>2, <3>4, CopyStep
      <4>3. CASE LeavesBuffer(w, b, ret, sel)
        <5>1. WordWrite(ret, sel) /\ y \in wr_req
          BY <4>1, <4>3, LeavesFacts
        <5>2. w = wbuffer[rtrn_ptr].word /\ b \in wr_data_be
          BY <4>3 DEF LeavesBuffer
        <5> QED
          BY <5>1, <5>2, <2>1, <3>1, <3>4, CopyStep
      <4> QED
        BY <2>1, <4>2, <4>3
    <3> QED
      BY <3>3, <3>4
  <2>6. ASSUME m_load'.phase = "done", w.line = mshr'.word.line
        PROVE  <<w, b>> \in m_load'.current
    <3>1. m_load.phase = "done" /\ m_load'.current = m_load.current \ Outdated(st)
      BY <2>6, LoadStep
    <3>2. mshr' = mshr
      BY <3>1, MshrStep DEF DcInv, MissOK
    <3> QED
      BY <3>1, <3>2, <2>1, <2>4, <2>6
  <2>7. ASSUME NEW p \in reading', ld'[p].word = w, rd_q'.hits # {}, cache_en'
        PROVE  b \in rd_q'.current
    <3>1. p \in ReadPort /\ ld'[p].state \in {"READ", "REPLAY_READ"}
      BY <2>7 DEF reading, In
    <3>2. /\ sel.port = p /\ ~wr_cl_vld(ret) /\ looks(sel, kill) /\ rd_word(sel) = w
      BY <2>7, <3>1, CtrlStep
    <3>3. rd_q'.hits = hits_of(w)
      BY <3>1, <3>2, LookupStep
    <3>4. PICK y \in hits_of(w) : <<w, b>> \in cache[y].current \ Outdated(st)
                                    => b \in rd_q'.current
      <4>1. \E y \in hits_of(rd_word(sel)) : \A c \in Byte :
               <<rd_word(sel), c>> \in cache[y].current \ Outdated(st) => c \in rd_q'.current
        BY <2>7, <3>1, <3>2, LookupStep
      <4> QED
        BY <3>2, <4>1
    <3>5. ~flush_en /\ cache_en
      BY <1>2, <2>7, <3>2, LineStep
    <3>6. ~LeavesBuffer(w, b, ret, sel)
      <4>1. SUFFICES ASSUME LeavesBuffer(w, b, ret, sel) PROVE FALSE
        OBVIOUS
      <4>2. WordWrite(ret, sel) /\ wbuffer[rtrn_ptr].word = w
        BY <4>1, <3>4, LeavesFacts DEF LeavesBuffer
      <4>3. sel.port \notin {None, WrPort}
        BY <3>1, <3>2 DEF ReadPort, WrPort
      <4> QED
        BY <4>2, <4>3, <3>2 DEF WordWrite, wr_ack_o
    <3> QED
      BY <2>1, <2>2, <3>4, <3>5, <3>6
  <2> QED
    BY <2>3, <2>5, <2>6, <2>7
<1>4. ASSUME NEW t \in Live',
             NEW b \in tx_stat'[t].be \ wbuffer'[tx_stat'[t].ptr].dirty
      PROVE  IF m_store'[t].phase = "sent" THEN b \in m_store'[t].current
             ELSE <<wbuffer'[tx_stat'[t].ptr].word, b>> \in main'
  <2>0. t \in TxIds
    BY DEF Live
  <2>1. ASSUME NEW k \in valid, b \notin wbuffer'[k].dirty
        PROVE  <<wbuffer[k].word, b>> \notin Outdated(st)
    <3>1. SUFFICES ASSUME <<wbuffer[k].word, b>> \in Outdated(st) PROVE FALSE
      OBVIOUS
    <3>2. st.word = wbuffer[k].word /\ b \in st.be /\ st.word # None
      BY <3>1 DEF Outdated, Cells
    <3>3. Writes(k, st) /\ k \in Slots
      BY <1>1, <3>2, StoreFacts DEF Writes, valid
    <3> QED
      BY <2>1, <3>2, <3>3, SlotStep
  <2>2. CASE Out(ptr, ack) = "store" /\ t = tx_id
    <3>1. /\ tx_stat'[t] = [vld |-> TRUE, be |-> tx_be(ptr), ptr |-> ptr]
          /\ ptr \in valid
      BY <2>2, BeginStep
    <3>2. b \in tx_be(ptr) /\ b \notin wbuffer'[ptr].dirty
      BY <3>1
    <3>3. <<wbuffer[ptr].word, b>> \notin Outdated(st)
      BY <3>1, <3>2, <2>1
    <3>4. m_store'[t].phase = "sent" /\
          m_store'[t].current = Fresh(tx_be(ptr), wbuffer[ptr].word, st)
      BY <2>0, <2>2, MemStoreStep
    <3> QED
      BY <3>2, <3>3, <3>4 DEF Fresh
  <2>3. CASE ~(Out(ptr, ack) = "store" /\ t = tx_id)
    <3> DEFINE k == tx_stat[t].ptr
    <3>1. /\ t \in Live /\ tx_stat'[t] = tx_stat[t] /\ k \in Slots /\ k \in valid
          /\ ~Sends(k, ptr, ack) /\ wbuffer'[k].word = wbuffer[k].word
      BY <2>3, OngoingStep
    <3>2. b \in tx_stat[t].be /\ b \notin wbuffer'[k].dirty
      BY <3>1
    <3>3. <<wbuffer[k].word, b>> \notin Outdated(st)
      BY <3>1, <3>2, <2>1
    <3>4. b \notin wbuffer[k].dirty
      BY <3>1, <3>2, SlotStep
    <3>5. IF m_store[t].phase = "sent" THEN b \in m_store[t].current
          ELSE <<wbuffer[k].word, b>> \in main
      BY <3>1, <3>2, <3>4 DEF DcInv, DataOK
    <3>6. CASE ret.type = "store" /\ ret.id = t
      <4>1. m_store[t].phase = "done" /\ m_store'[t].phase = "idle"
        BY <2>0, <3>6, <1>1, MessageFacts, MemStoreStep
      <4> QED
        BY <4>1, <3>1, <3>3, <3>5, <1>1
    <3>7. CASE ~(ret.type = "store" /\ ret.id = t)
      <4>1. /\ m_store'[t].phase = m_store[t].phase
            /\ m_store'[t].current = Fresh(m_store[t].current, m_store[t].word, st)
        BY <2>0, <2>3, <3>7, MemStoreStep
      <4>2. m_store[t].phase = "sent" => m_store[t].word = wbuffer[k].word
        BY <2>0, <3>1 DEF DcInv, TransactionsOK, Inflight
      <4> QED
        BY <4>1, <4>2, <3>1, <3>3, <3>5, <1>1 DEF Fresh
    <3> QED
      BY <3>6, <3>7
  <2> QED
    BY <2>2, <2>3
<1>5. \A w, b : b \in wbuffer_be(w)' <=> InBuffer(wbuffer', w, b)
  BY DEF wbuffer_be, wbuffer_hit, valid, InBuffer
<1> QED
  BY <1>3, <1>4, <1>5 DEF DataOK

-----------------------------------------------------------------------------
(***************************************************************************)
(* A cycle keeps the variables in their types.                             *)
(***************************************************************************)
LEMMA CopiesTypedStep ==
  ASSUME DcInv, NEW kill, NEW ret, NEW ack, NEW ptr, NEW way, NEW st, NEW sel,
         CycleStep(kill, ret, ack, ptr, way, st, sel)
  PROVE  CopiesTyped'
<1>1. cache' = [y \in Way |-> cache'[y]]
  BY Zenon DEF CycleStep, CoreStep, CacheNext
<1>2. \A y \in Way : cache'[y] \in [vld : BOOLEAN, line : Line \cup {None}, current : SUBSET Cell]
  BY WayStep
<1>3. cache' \in [Way -> [vld : BOOLEAN, line : Line \cup {None}, current : SUBSET Cell]]
  BY <1>1, <1>2
<1>4. rd_q' \in [port : 0 .. WrPort \cup {None}, slot : Slots \cup {None},
                 hits : SUBSET Way, current : SUBSET Byte]
  BY LookupStep
<1>5. main' \in SUBSET Cell
  BY DEF CycleStep, MemoryNext, DcInv, DcTypeOK, CopiesTyped
<1>6. m_load' \in [phase : Phases, current : SUBSET Cell]
  BY LoadStep
<1>7. m_store' = [t \in TxIds |-> m_store'[t]]
  <2> DEFINE G(u) == CASE Out(ptr, ack) = "store" /\ u = tx_id ->
                            [phase |-> "sent", word |-> wbuffer[ptr].word, be |-> tx_be(ptr),
                             current |-> Fresh(tx_be(ptr), wbuffer[ptr].word, st)]
                       [] ret.type = "store" /\ ret.id = u -> NoStore
                       [] OTHER -> [m_store[u] EXCEPT !.current = Fresh(@, m_store[u].word, st)]
  <2>1. m_store' = [u \in TxIds |-> G(u)]
    BY Zenon DEF CycleStep, MemoryNext, Fresh
  <2> HIDE DEF G
  <2> QED
    BY <2>1
<1>8. \A t \in TxIds : m_store'[t] \in [phase : Phases, word : Word \cup {None},
                                        be : SUBSET Byte, current : SUBSET Byte]
  BY MemStoreStep
<1>9. m_store' \in [TxIds -> [phase : Phases, word : Word \cup {None},
                              be : SUBSET Byte, current : SUBSET Byte]]
  BY <1>7, <1>8
<1> QED
  BY <1>3, <1>4, <1>5, <1>6, <1>9 DEF CopiesTyped, Slots, TxIds, WrPort, Byte, Cell, Line

\* A cycle preserves the types of the write buffer.
LEMMA WbufferTypedStep ==
  ASSUME DcInv, NEW kill, NEW ret, NEW ack, NEW ptr, NEW way, NEW st, NEW sel,
         CycleStep(kill, ret, ack, ptr, way, st, sel)
  PROVE  WbufferTyped'
<1> DEFINE Entry == [word : Word \cup {None}, valid : SUBSET Byte, dirty : SUBSET Byte,
                     txblock : SUBSET Byte, checked : BOOLEAN, hit_oh : SUBSET Way]
           Tx == [vld : BOOLEAN, be : SUBSET Byte, ptr : Slots \cup {None}]
<1>1. wbuffer' \in [Slots -> Entry]
  <2>1. wbuffer' = [k \in Slots |-> wbuffer'[k]]
    BY Zenon DEF CycleStep, CoreStep, WbufferCycle
  <2>2. \A k \in Slots : wbuffer'[k] \in Entry
    BY SlotStep
  <2> QED
    BY <2>1, <2>2
<1>2. tx_stat' \in [TxIds -> Tx]
  <2>1. tx_stat' = [t \in TxIds |-> tx_stat'[t]]
    BY Zenon DEF CycleStep, CoreStep, WbufferCycle
  <2>2. ASSUME NEW t \in TxIds PROVE tx_stat'[t] \in Tx
    <3>1. Out(ptr, ack) = "store" => ptr \in Slots /\ ptr \in dirty
      BY SendFacts
    <3>2. ptr \in dirty => tx_be(ptr) \in SUBSET Byte
      BY DirtyEntry
    <3>3. tx_stat[t] \in Tx
      BY DEF DcInv, DcTypeOK, WbufferTyped
    <3>4. FreeTx \in Tx
      BY DEF FreeTx
    <3> HIDE DEF Tx
    <3>5. CASE Out(ptr, ack) = "store" /\ t = tx_id
      <4>1. tx_stat'[t] = [vld |-> TRUE, be |-> tx_be(ptr), ptr |-> ptr]
        BY <3>5, TxStep
      <4> QED
        BY <3>1, <3>2, <3>5, <4>1 DEF Tx
    <3>6. CASE ~(Out(ptr, ack) = "store" /\ t = tx_id)
      <4>1. tx_stat'[t] = FreeTx \/ tx_stat'[t] = tx_stat[t]
        BY <3>6, TxStep
      <4> QED
        BY <3>3, <3>4, <4>1
    <3> QED
      BY <3>5, <3>6
  <2> QED
    BY <2>1, <2>2
<1>3. rtrn' \in Seq(TxIds)
  BY AnsweredStep
<1>4. check_q1' \in [en : BOOLEAN, ptr : Slots \cup {None}, hit_oh : SUBSET Way]
  <2>1. check_q1' = IF rd_q.port = WrPort
                    THEN [en |-> TRUE, ptr |-> rd_q.slot, hit_oh |-> rd_q.hits]
                    ELSE NoCheck
    BY DEF CycleStep, CoreStep, WbufferCycle
  <2>2. rd_q.slot \in Slots \cup {None} /\ rd_q.hits \in SUBSET Way
    BY DEF DcInv, DcTypeOK, CopiesTyped
  <2> QED
    BY <2>1, <2>2 DEF NoCheck
<1>5. wr_cl_q' \in BOOLEAN
  BY ZenonT(60), LineStep DEF CycleStep, CoreStep, WbufferCycle
<1>6. dirty_lock' \in Slots \cup {None}
  <2>1. dirty_lock' = IF Out(ptr, ack) = "store" THEN None ELSE ptr
    BY DEF CycleStep, CoreStep, WbufferCycle
  <2>2. ptr \in DirtyPtr
    BY DEF CycleStep, Inputs
  <2>3. dirty_lock \in Slots \cup {None} /\ dirty \subseteq Slots
    BY DEF DcInv, DcTypeOK, WbufferTyped, dirty
  <2> QED
    BY <2>1, <2>2, <2>3 DEF DirtyPtr
<1>7. ni_pending' \in SUBSET Slots
  BY DEF CycleStep, CoreStep, WbufferCycle
<1> QED
  BY <1>1, <1>2, <1>3, <1>4, <1>5, <1>6, <1>7 DEF WbufferTyped, Slots, TxIds, Byte

\* A cycle preserves the types of the miss unit.
LEMMA MissunitTypedStep ==
  ASSUME DcInv, NEW kill, NEW ret, NEW ack, NEW ptr, NEW way, NEW st, NEW sel,
         CycleStep(kill, ret, ack, ptr, way, st, sel)
  PROVE  MissunitTyped'
<1> DEFINE q == miss_port(Req)
           start == Mem(ptr) = "load" /\ ack
<1>1. /\ mshr_vld' = (start \/ (mshr_vld /\ ~load_ack(ret)))
      /\ mshr_vld_q1' = mshr_vld
      /\ collided' = rdrd_collision(Req, At(ptr)) \ {WrPort}
      /\ cache_en' = (enable_i /\ (cache_en \/ mu_state = "FLUSH"))
      /\ flush_ack_q' \in {flush_i, FALSE, flush_ack_q}
      /\ ptr \in DirtyPtr /\ way \in Way
  BY DEF CycleStep, MissunitCycle, Inputs, Mem, Busy
<1>2. MissunitTyped /\ CoreTyped
  BY DEF DcInv, DcTypeOK
<1>3. mu_state' \in MuStates
  BY MuStep
<1>4. locked' \in 0 .. WrPort \cup {None}
  <2>1. Mem(ptr) = "load" => q \in ReadPort
    BY <1>1, LoadRequest
  <2>2. ReadPort \subseteq 0 .. WrPort /\ WrPort \in 0 .. WrPort
    BY DEF ReadPort, WrPort
  <2> QED
    BY <2>1, <2>2, MuStep
<1>5. mshr' \in [word : Word \cup {None}, nc : BOOLEAN, way : Way \cup {None},
                 port : ReadPort \cup {None}]
  <2> DEFINE new == [word |-> At(ptr)[q], nc |-> Mem(ptr) = "load" /\ miss_nc(q),
                     way |-> way, port |-> q]
  <2>1. mshr' = IF start THEN new ELSE IF ~mshr_vld THEN NoMiss ELSE mshr
    BY DEF CycleStep, MissunitCycle, Mem, Busy
  <2>2. ASSUME start
        PROVE  new \in [word : Word \cup {None}, nc : BOOLEAN, way : Way \cup {None},
                        port : ReadPort \cup {None}]
    <3>1. q \in ReadPort
      BY <1>1, <2>2, LoadRequest
    <3>2. At(ptr)[q] = ld[q].word
      BY <3>1 DEF At, ReadPort, WrPort
    <3>3. ld[q].word \in Word \cup {None}
      BY <1>2, <3>1 DEF CoreTyped
    <3>4. (Mem(ptr) = "load" /\ miss_nc(q)) \in BOOLEAN
      BY DEF miss_nc
    <3> QED
      BY <3>1, <3>2, <3>3, <3>4, <1>1
  <2>3. NoMiss \in [word : Word \cup {None}, nc : BOOLEAN, way : Way \cup {None},
                    port : ReadPort \cup {None}]
    BY DEF NoMiss
  <2> HIDE DEF new, start
  <2> QED
    BY <2>1, <2>2, <2>3, <1>2 DEF MissunitTyped
<1>6. collided' \in SUBSET ReadPort
  <2>1. rdrd_collision(Req, At(ptr)) \subseteq Req /\ Req \subseteq ReadPort \cup {WrPort}
    BY DEF rdrd_collision, Req, miss_req
  <2> QED
    BY <1>1, <2>1
<1>7. stores_inflight' \in Nat
  <2>1. IsFiniteSet(Inflight')
    BY FiniteTxIds, FS_Subset DEF Inflight
  <2> QED
    BY <2>1, CountStep, FS_CardinalityType
<1>8. /\ mshr_vld' \in BOOLEAN /\ mshr_vld_q1' \in BOOLEAN
      /\ cache_en' \in BOOLEAN /\ flush_ack_q' \in BOOLEAN
  BY <1>1, <1>2 DEF MissunitTyped, CoreTyped
<1> QED
  BY <1>3, <1>4, <1>5, <1>6, <1>7, <1>8 DEF MissunitTyped, WrPort, ReadPort

\* A cycle preserves the types of the ports and of the program.
LEMMA CoreTypedStep ==
  ASSUME DcInv, NEW kill, NEW ret, NEW ack, NEW ptr, NEW way, NEW st, NEW sel,
         CycleStep(kill, ret, ack, ptr, way, st, sel)
  PROVE  CoreTyped'
<1>1. CoreTyped
  BY DEF DcInv, DcTypeOK
<1>2. ld' = [p \in ReadPort |-> ld'[p]]
  BY Zenon DEF CycleStep, CoreStep
<1>3. \A p \in ReadPort : ld'[p] \in [state : CtrlStates, word : Word \cup {None}]
  BY CtrlStep
<1>4. /\ enable_i' \in IF program.switch THEN BOOLEAN ELSE {enable_i}
      /\ flush_i' \in IF flush_i THEN {~(flush_en /\ flush_ack_q)} ELSE {FALSE, program.flush}
      /\ program' = program
  BY DEF CycleStep, EnvNext
<1>5. program.flush \in BOOLEAN
  BY <1>1 DEF CoreTyped, Workload
<1>6. enable_i' \in BOOLEAN /\ flush_i' \in BOOLEAN
  BY <1>1, <1>4, <1>5 DEF CoreTyped, flush_en
<1>7. amo' \in {"none", "req", "sent", "inv", "done"}
  BY <1>1 DEF CoreTyped, CycleStep, EnvNext
<1> QED
  BY <1>1, <1>2, <1>3, <1>4, <1>6, <1>7 DEF CoreTyped, ReadPort

\* A clock cycle preserves the invariant.
LEMMA CycleInv ==
  ASSUME DcInv, NEW kill, NEW ret, NEW ack, NEW ptr, NEW way, NEW st, NEW sel,
         CycleStep(kill, ret, ack, ptr, way, st, sel)
  PROVE  DcInv'
<1>1. DcTypeOK'
  BY CopiesTypedStep, WbufferTypedStep, MissunitTypedStep, CoreTypedStep DEF DcTypeOK
<1> QED
  BY <1>1, EntriesStep, TransactionsStep, ArbiterStep, MissStep, ApartStep, LookupOKStep,
     LinesStep, DataStep, AmoStep, DevicesStep DEF DcInv

-----------------------------------------------------------------------------
(***************************************************************************)
(* The other steps.                                                        *)
(***************************************************************************)
\* After reset nothing is under way and the cache is off.
LEMMA InitInv ==
  ASSUME DcInit
  PROVE  DcInv
<1> USE DEF DcInit, MemInit, WbufferInit, MissunitInit, CtrlInit
<1>1. DcTypeOK
  <2>1. \A y \in Way : cache[y] \in [vld : BOOLEAN, line : Line \cup {None}, current : SUBSET Cell]
    <3>1. ASSUME NEW y \in Way
          PROVE  cache[y] = EmptyWay \/ cache[y] \in [vld : {TRUE}, line : Line, current : {{}}]
      OBVIOUS
    <3>2. EmptyWay \in [vld : BOOLEAN, line : Line \cup {None}, current : SUBSET Cell]
      BY DEF EmptyWay
    <3>3. [vld : {TRUE}, line : Line, current : {{}}]
            \subseteq [vld : BOOLEAN, line : Line \cup {None}, current : SUBSET Cell]
      OBVIOUS
    <3> QED
      BY <3>1, <3>2, <3>3
  <2>2. CopiesTyped
    BY <2>1 DEF CopiesTyped, NoRead, NoLoad, NoStore, Phases
  <2>3. WbufferTyped
    <3>1. wbuffer \in [Slots -> [word : Word \cup {None}, valid : SUBSET Byte,
                                dirty : SUBSET Byte, txblock : SUBSET Byte,
                                checked : BOOLEAN, hit_oh : SUBSET Way]]
      BY DEF FreeSlot
    <3>2. tx_stat \in [TxIds -> [vld : BOOLEAN, be : SUBSET Byte, ptr : Slots \cup {None}]]
      BY DEF FreeTx
    <3>3. rtrn \in Seq(TxIds)
      OBVIOUS
    <3>4. check_q1 \in [en : BOOLEAN, ptr : Slots \cup {None}, hit_oh : SUBSET Way]
      BY DEF NoCheck
    <3> QED
      BY <3>1, <3>2, <3>3, <3>4 DEF WbufferTyped
  <2>4. MissunitTyped
    BY DEF MissunitTyped, MuStates, NoMiss
  <2>5. CoreTyped
    BY DEF CoreTyped, IdlePort, CtrlStates
  <2> QED
    BY <2>2, <2>3, <2>4, <2>5 DEF DcTypeOK
<1>2. valid = {} /\ Live = {} /\ Inflight = {} /\ ni_entries = {} /\ reading = {} /\ miss_req = {}
  BY DEF valid, Live, Inflight, ni_entries, reading, miss_req, In, FreeSlot, FreeTx, NoStore,
         IdlePort
<1>3. EntriesOK
  BY <1>2 DEF EntriesOK, FreeSlot
<1>4. TransactionsOK
  <2>1. Cardinality(Inflight) = 0
    BY <1>2, FS_EmptySet
  <2>2. \A t : ~Answered(t)
    BY DEF Answered, Member
  <2> QED
    BY <1>2, <2>1, <2>2 DEF TransactionsOK, Distinct
<1>5. ArbiterOK
  BY DEF ArbiterOK, WrPort, ReadPort
<1>6. MissOK
  BY <1>2 DEF MissOK, NoLoad, In, IdlePort
<1>7. ApartOK /\ LookupOK /\ LinesOK
  BY <1>2 DEF ApartOK, LookupOK, LinesOK, NoCheck, NoRead, WrPort
<1>8. DataOK
  BY <1>2 DEF DataOK, NoLoad, Cell
<1>9. AmoOK
  BY DEF AmoOK
<1>10. DevicesOK
  BY <1>2 DEF DevicesOK
<1> QED
  BY <1>1, <1>3, <1>4, <1>5, <1>6, <1>7, <1>8, <1>9, <1>10 DEF DcInv

\* Memory performs a store: what it overwrites is in the buffer.
LEMMA PerformStoreInv ==
  ASSUME DcInv, NEW t \in TxIds, PerformStore(t)
  PROVE  DcInv'
<1> DEFINE k == tx_stat[t].ptr
           w == wbuffer[k].word
<1>1. /\ m_store[t].phase = "sent"
      /\ m_store' = [m_store EXCEPT ![t].phase = "done"]
      /\ main' = (main \ Cells(m_store[t].word, m_store[t].be))
                   \cup Cells(m_store[t].word, m_store[t].current)
      /\ UNCHANGED <<arrayVars, wbVars, muVars, ld, program, enable_i, flush_i, amo, m_load>>
  BY DEF PerformStore
<1> HIDE DEF PerformStore
<1>2. t \in Live /\ t \in Inflight
  BY <1>1 DEF DcInv, TransactionsOK, Inflight
<1>3. /\ k \in Slots /\ wbuffer[k].txblock = tx_stat[t].be
      /\ m_store[t].word = w /\ m_store[t].be = tx_stat[t].be /\ tx_stat[t].be # {}
  BY <1>2 DEF DcInv, TransactionsOK
<1>4. k \in valid /\ w \in Word /\ tx_stat[t].be \subseteq wbuffer[k].valid
  BY <1>3 DEF DcInv, EntriesOK, valid
<1>5. m_store[t] \in [phase : Phases, word : Word \cup {None}, be : SUBSET Byte, current : SUBSET Byte]
      /\ m_store \in [TxIds -> [phase : Phases, word : Word \cup {None},
                                be : SUBSET Byte, current : SUBSET Byte]]
  BY DEF DcInv, DcTypeOK, CopiesTyped
<1>6. \A u \in TxIds : /\ m_store'[u].phase = IF u = t THEN "done" ELSE m_store[u].phase
                       /\ m_store'[u].word = m_store[u].word
                       /\ m_store'[u].be = m_store[u].be
                       /\ m_store'[u].current = m_store[u].current
  BY <1>1, <1>5
<1>7. UNCHANGED <<cache, rd_q, wbuffer, tx_stat, rtrn, check_q1, wr_cl_q, dirty_lock, ni_pending,
                  mu_state, locked, mshr, mshr_vld, mshr_vld_q1, collided, stores_inflight,
                  cache_en, flush_ack_q, ld, program, enable_i, flush_i, amo, m_load>>
  BY <1>1 DEF arrayVars, wbVars, muVars
<1>8. Inflight' = Inflight
  BY <1>1, <1>6 DEF Inflight
<1>9. valid' = valid /\ Live' = Live /\ wbuffer_empty' = wbuffer_empty
      /\ dirty' = dirty /\ free_tx' = free_tx /\ ni_entries' = ni_entries
      /\ reading' = reading /\ miss_req' = miss_req
  BY <1>7 DEF valid, Live, wbuffer_empty, dirty, bdirty, free_tx, ni_entries, reading, miss_req, In
<1>10. main' \in SUBSET Cell
  BY <1>1, <1>3, <1>4, <1>5 DEF DcInv, DcTypeOK, CopiesTyped, Cells, Cell
<1>11. m_store' \in [TxIds -> [phase : Phases, word : Word \cup {None},
                               be : SUBSET Byte, current : SUBSET Byte]]
  BY <1>1, <1>5 DEF Phases
<1>12. DcTypeOK'
  <2>1. CopiesTyped'
    BY <1>7, <1>10, <1>11 DEF DcInv, DcTypeOK, CopiesTyped, Slots, TxIds, WrPort, Byte, Cell, Line
  <2>2. WbufferTyped' /\ MissunitTyped' /\ CoreTyped'
    BY <1>7 DEF DcInv, DcTypeOK, WbufferTyped, MissunitTyped, CoreTyped
  <2> QED
    BY <2>1, <2>2 DEF DcTypeOK
<1>13. TransactionsOK'
  BY <1>6, <1>7, <1>8, <1>9 DEF DcInv, TransactionsOK, Answered, Live
<1>14. \A v \in Word, b \in Byte : b \notin wbuffer_be(v) /\ <<v, b>> \in main => <<v, b>> \in main'
  <2>1. ASSUME NEW v \in Word, NEW b \in Byte, ~InBuffer(wbuffer, v, b), <<v, b>> \in main
        PROVE  <<v, b>> \in main'
    BY <2>1, <1>1, <1>3, <1>4 DEF InBuffer, Cells
  <2> QED
    BY <2>1, BufferHolds
<1>15. ASSUME NEW u \in Live, NEW b \in tx_stat[u].be \ wbuffer[tx_stat[u].ptr].dirty
       PROVE  IF m_store'[u].phase = "sent" THEN b \in m_store'[u].current
              ELSE <<wbuffer[tx_stat[u].ptr].word, b>> \in main'
  <2>1. u \in TxIds
    BY DEF Live
  <2>2. IF m_store[u].phase = "sent" THEN b \in m_store[u].current
        ELSE <<wbuffer[tx_stat[u].ptr].word, b>> \in main
    BY <1>15 DEF DcInv, DataOK
  <2>3. CASE u = t
    BY <2>1, <2>2, <2>3, <1>1, <1>3, <1>6 DEF Cells
  <2>4. CASE u # t
    <3>1. tx_stat[u].ptr # k
      BY <2>4, <1>2 DEF DcInv, TransactionsOK
    <3>2. tx_stat[u].ptr \in valid
      BY <1>15 DEF DcInv, TransactionsOK, EntriesOK, valid
    <3>3. wbuffer[tx_stat[u].ptr].word # w
      BY <3>1, <3>2, <1>4 DEF DcInv, EntriesOK
    <3> QED
      BY <2>1, <2>2, <2>4, <3>3, <1>1, <1>3, <1>6 DEF Cells
  <2> QED
    BY <2>3, <2>4
<1>16. /\ \A v : wbuffer_be(v)' = wbuffer_be(v)
       /\ \A v : hits_of(v)' = hits_of(v)
  BY <1>7 DEF wbuffer_be, wbuffer_hit, valid, hits_of
<1>17. DataOK'
  BY <1>7, <1>9, <1>14, <1>15, <1>16 DEF DcInv, DataOK
<1>18. EntriesOK' /\ ArbiterOK' /\ MissOK' /\ ApartOK' /\ DevicesOK'
  BY <1>7, <1>9 DEF DcInv, EntriesOK, ArbiterOK, MissOK, ApartOK, LineApart, DevicesOK, In, WrPort,
                    ReadPort
<1>19. LookupOK' /\ LinesOK' /\ AmoOK'
  BY <1>7, <1>9, <1>16 DEF DcInv, LookupOK, LinesOK, AmoOK, WrPort
<1> QED
  BY <1>12, <1>13, <1>17, <1>18, <1>19 DEF DcInv

\* Memory performs the load: it reads what is current in memory.
LEMMA PerformLoadInv ==
  ASSUME DcInv, PerformLoad
  PROVE  DcInv'
<1>1. /\ m_load.phase = "sent"
      /\ m_load' = [phase |-> "done", current |-> main \cap LineCells(mshr.word.line)]
      /\ UNCHANGED <<cache, rd_q, wbuffer, tx_stat, rtrn, check_q1, wr_cl_q, dirty_lock, ni_pending,
                     mu_state, locked, mshr, mshr_vld, mshr_vld_q1, collided, stores_inflight,
                     cache_en, flush_ack_q, ld, program, enable_i, flush_i, amo, main, m_store>>
  BY DEF PerformLoad, arrayVars, wbVars, muVars
<1>2. valid' = valid /\ Live' = Live /\ Inflight' = Inflight /\ wbuffer_empty' = wbuffer_empty
      /\ dirty' = dirty /\ free_tx' = free_tx /\ ni_entries' = ni_entries
      /\ reading' = reading /\ miss_req' = miss_req
  BY <1>1 DEF valid, Live, Inflight, wbuffer_empty, dirty, bdirty, free_tx, ni_entries, reading,
              miss_req, In
<1>3. /\ \A v : wbuffer_be(v)' = wbuffer_be(v)
      /\ \A v : hits_of(v)' = hits_of(v)
  BY <1>1 DEF wbuffer_be, wbuffer_hit, valid, hits_of
<1>4. DcTypeOK'
  <2>1. m_load' \in [phase : Phases, current : SUBSET Cell]
    BY <1>1 DEF Phases, DcInv, DcTypeOK, CopiesTyped
  <2>2. CopiesTyped'
    BY <1>1, <2>1 DEF DcInv, DcTypeOK, CopiesTyped, Slots, TxIds, WrPort, Byte, Cell, Line
  <2>3. WbufferTyped' /\ MissunitTyped' /\ CoreTyped'
    BY <1>1 DEF DcInv, DcTypeOK, WbufferTyped, MissunitTyped, CoreTyped
  <2> QED
    BY <2>2, <2>3 DEF DcTypeOK
<1>5. \A v \in Word, b \in Byte :
        <<v, b>> \in main /\ v.line = mshr.word.line => <<v, b>> \in m_load'.current
  BY <1>1 DEF LineCells, Cell
<1>6. DataOK'
  BY <1>1, <1>2, <1>3, <1>5 DEF DcInv, DataOK
<1>7. MissOK'
  BY <1>1, <1>2 DEF DcInv, MissOK, In
<1>8. EntriesOK' /\ ArbiterOK' /\ TransactionsOK' /\ ApartOK' /\ DevicesOK'
  BY <1>1, <1>2 DEF DcInv, EntriesOK, ArbiterOK, TransactionsOK, Answered, ApartOK, LineApart,
                    DevicesOK, WrPort, ReadPort
<1>9. LookupOK' /\ LinesOK' /\ AmoOK'
  BY <1>1, <1>2, <1>3 DEF DcInv, LookupOK, LinesOK, AmoOK, WrPort
<1> QED
  BY <1>4, <1>6, <1>7, <1>8, <1>9 DEF DcInv

\* Memory performs the atomic operation: nothing else holds its word.
LEMMA PerformAmoInv ==
  ASSUME DcInv, PerformAmo
  PROVE  DcInv'
<1> DEFINE new == Cells(program.amo, Byte)
           stale == {b \in rd_q.current : rd_q.port \in ReadPort =>
                                            <<ld[rd_q.port].word, b>> \notin new}
<1>1. /\ amo = "inv" /\ amo' = "done" /\ main' = main \cup new
      /\ cache' = [y \in Way |-> [cache[y] EXCEPT !.current = @ \ new]]
      /\ rd_q' = [rd_q EXCEPT !.current = stale]
      /\ m_load' = [m_load EXCEPT !.current = @ \ new]
      /\ UNCHANGED <<wbuffer, tx_stat, rtrn, check_q1, wr_cl_q, dirty_lock, ni_pending,
                     mu_state, locked, mshr, mshr_vld, mshr_vld_q1, collided, stores_inflight,
                     cache_en, flush_ack_q, ld, program, enable_i, flush_i, m_store>>
  BY DEF PerformAmo, wbVars, muVars
<1>2. valid' = valid /\ Live' = Live /\ Inflight' = Inflight /\ wbuffer_empty' = wbuffer_empty
      /\ dirty' = dirty /\ free_tx' = free_tx /\ ni_entries' = ni_entries
      /\ reading' = reading /\ miss_req' = miss_req
  BY <1>1 DEF valid, Live, Inflight, wbuffer_empty, dirty, bdirty, free_tx, ni_entries, reading,
              miss_req, In
<1>3. /\ mu_state = "AMO_WAIT" /\ program.amo \in Word /\ hits_of(program.amo) = {}
      /\ ~mshr_vld /\ m_load.phase = "idle"
  BY <1>1 DEF DcInv, AmoOK, MissOK
<1>4. CopiesTyped
  BY DEF DcInv, DcTypeOK
<1>5. ASSUME NEW y \in Way
      PROVE  /\ cache'[y].vld = cache[y].vld /\ cache'[y].line = cache[y].line
             /\ cache'[y].current = cache[y].current \ new
             /\ cache'[y] \in [vld : BOOLEAN, line : Line \cup {None}, current : SUBSET Cell]
  <2>1. cache[y] \in [vld : BOOLEAN, line : Line \cup {None}, current : SUBSET Cell]
    BY <1>4 DEF CopiesTyped
  <2>2. cache'[y] = [cache[y] EXCEPT !.current = @ \ new]
    BY <1>1
  <2> QED
    BY <2>1, <2>2
<1>6. /\ rd_q'.port = rd_q.port /\ rd_q'.slot = rd_q.slot /\ rd_q'.hits = rd_q.hits
      /\ rd_q'.current = stale
      /\ rd_q' \in [port : 0 .. WrPort \cup {None}, slot : Slots \cup {None},
                    hits : SUBSET Way, current : SUBSET Byte]
  <2>1. rd_q \in [port : 0 .. WrPort \cup {None}, slot : Slots \cup {None},
                  hits : SUBSET Way, current : SUBSET Byte]
    BY <1>4 DEF CopiesTyped
  <2>2. stale \in SUBSET Byte
    BY <2>1
  <2> HIDE DEF stale
  <2> QED
    BY <1>1, <2>1, <2>2
<1>7. /\ m_load'.phase = m_load.phase
      /\ m_load' \in [phase : Phases, current : SUBSET Cell]
  BY <1>1, <1>4 DEF CopiesTyped
<1>8. main' \in SUBSET Cell
  BY <1>1, <1>3, <1>4 DEF CopiesTyped, Cells, Cell
<1>9. /\ \A v : wbuffer_be(v)' = wbuffer_be(v)
      /\ \A v : hits_of(v)' = hits_of(v)
  <2>1. \A v : wbuffer_be(v)' = wbuffer_be(v)
    BY <1>1 DEF wbuffer_be, wbuffer_hit, valid
  <2>2. \A v : hits_of(v)' = hits_of(v)
    BY <1>5 DEF hits_of
  <2> QED
    BY <2>1, <2>2
<1>10. DcTypeOK'
  <2>1. cache' = [y \in Way |-> cache'[y]]
    BY <1>1
  <2>2. cache' \in [Way -> [vld : BOOLEAN, line : Line \cup {None}, current : SUBSET Cell]]
    BY <2>1, <1>5
  <2>3. CopiesTyped'
    BY <1>1, <1>4, <1>6, <1>7, <1>8, <2>2
       DEF CopiesTyped, Slots, TxIds, WrPort, Byte, Cell, Line
  <2>4. WbufferTyped' /\ MissunitTyped'
    BY <1>1 DEF DcInv, DcTypeOK, WbufferTyped, MissunitTyped
  <2>5. CoreTyped'
    BY <1>1 DEF DcInv, DcTypeOK, CoreTyped
  <2> QED
    BY <2>3, <2>4, <2>5 DEF DcTypeOK
<1>11. ASSUME NEW w \in Word, NEW b \in Byte, b \notin wbuffer_be(w)
       PROVE  /\ <<w, b>> \in main'
              /\ cache_en => \A y \in hits_of(w) : <<w, b>> \in cache'[y].current
              /\ \A p \in reading : ld[p].word = w /\ rd_q.hits # {} /\ cache_en =>
                   b \in rd_q'.current
  <2>1. /\ <<w, b>> \in main
        /\ cache_en => \A y \in hits_of(w) : <<w, b>> \in cache[y].current
        /\ \A p \in reading : ld[p].word = w /\ rd_q.hits # {} /\ cache_en => b \in rd_q.current
    BY <1>11 DEF DcInv, DataOK
  <2>2. hits_of(w) # {} => <<w, b>> \notin new
    BY <1>3 DEF Cells
  <2>3. ASSUME NEW p \in reading, ld[p].word = w, rd_q.hits # {}, cache_en
        PROVE  b \in rd_q'.current
    <3>1. rd_q.port = p /\ rd_q.hits = hits_of(w)
      BY <2>3 DEF DcInv, MissOK, LookupOK, reading
    <3> QED
      BY <2>1, <2>2, <2>3, <3>1, <1>6
  <2>4. ASSUME cache_en, NEW y \in hits_of(w)
        PROVE  <<w, b>> \in cache'[y].current
    BY <2>1, <2>2, <2>4, <1>5 DEF hits_of
  <2> QED
    BY <2>1, <2>3, <2>4, <1>1
<1>12. DataOK'
  <2>1. \A w \in Word, b \in Byte : b \notin wbuffer_be(w)' =>
       /\ <<w, b>> \in main'
       /\ cache_en' => \A y \in hits_of(w)' : <<w, b>> \in cache'[y].current
       /\ m_load'.phase = "done" /\ w.line = mshr'.word.line => <<w, b>> \in m_load'.current
       /\ \A p \in reading' : ld'[p].word = w /\ rd_q'.hits # {} /\ cache_en' => b \in rd_q'.current
    BY ZenonT(60), <1>1, <1>2, <1>3, <1>6, <1>7, <1>9, <1>11
  <2>2. \A t \in Live' : \A b \in tx_stat'[t].be \ wbuffer'[tx_stat'[t].ptr].dirty :
       IF m_store'[t].phase = "sent" THEN b \in m_store'[t].current
       ELSE <<wbuffer'[tx_stat'[t].ptr].word, b>> \in main'
    BY <1>1, <1>2 DEF DcInv, DataOK
  <2> QED
    BY <2>1, <2>2 DEF DataOK
<1>13. MissOK'
  BY <1>1, <1>2, <1>6, <1>7 DEF DcInv, MissOK, In
<1>14. EntriesOK' /\ ArbiterOK' /\ TransactionsOK' /\ ApartOK' /\ DevicesOK'
  BY <1>1, <1>2 DEF DcInv, EntriesOK, ArbiterOK, TransactionsOK, Answered, ApartOK, LineApart,
                    DevicesOK, WrPort, ReadPort
<1>15. LookupOK' /\ LinesOK'
  BY ZenonT(60), <1>1, <1>2, <1>6, <1>9 DEF DcInv, LookupOK, LinesOK, WrPort
<1>16. AmoOK'
  BY <1>1, <1>2, <1>3, <1>9 DEF DcInv, AmoOK
<1> QED
  BY <1>10, <1>12, <1>13, <1>14, <1>15, <1>16 DEF DcInv

\* Nothing changes in a step of the rest of the system.
LEMMA StutterInv ==
  ASSUME DcInv, UNCHANGED vars
  PROVE  DcInv'
<1>1. UNCHANGED <<cache, rd_q, wbuffer, tx_stat, rtrn, check_q1, wr_cl_q, dirty_lock, ni_pending,
                  mu_state, locked, mshr, mshr_vld, mshr_vld_q1, collided, stores_inflight,
                  cache_en, flush_ack_q, ld, program, enable_i, flush_i, amo, main, m_load, m_store>>
  BY DEF vars, arrayVars, wbVars, muVars, envVars
<1>2. valid' = valid /\ Live' = Live /\ Inflight' = Inflight /\ wbuffer_empty' = wbuffer_empty
      /\ dirty' = dirty /\ free_tx' = free_tx /\ ni_entries' = ni_entries
      /\ reading' = reading /\ miss_req' = miss_req
  BY <1>1 DEF valid, Live, Inflight, wbuffer_empty, dirty, bdirty, free_tx, ni_entries, reading,
              miss_req, In
<1>3. /\ \A v : wbuffer_be(v)' = wbuffer_be(v)
      /\ \A v : hits_of(v)' = hits_of(v)
  BY <1>1 DEF wbuffer_be, wbuffer_hit, valid, hits_of
<1>4. CopiesTyped'
  BY <1>1 DEF DcInv, DcTypeOK, CopiesTyped, Slots, TxIds, WrPort, Byte, Cell, Line
<1>5. WbufferTyped' /\ MissunitTyped' /\ CoreTyped'
  BY <1>1 DEF DcInv, DcTypeOK, WbufferTyped, MissunitTyped, CoreTyped
<1>6. DataOK'
  BY <1>1, <1>2, <1>3 DEF DcInv, DataOK
<1>7. MissOK'
  BY <1>1, <1>2 DEF DcInv, MissOK, In
<1>8. EntriesOK' /\ ArbiterOK' /\ TransactionsOK' /\ ApartOK' /\ DevicesOK'
  BY <1>1, <1>2 DEF DcInv, EntriesOK, ArbiterOK, TransactionsOK, Answered, ApartOK, LineApart,
                    DevicesOK, WrPort, ReadPort
<1>9. LookupOK' /\ LinesOK' /\ AmoOK'
  BY <1>1, <1>2, <1>3 DEF DcInv, LookupOK, LinesOK, AmoOK, WrPort
<1> QED
  BY <1>4, <1>5, <1>6, <1>7, <1>8, <1>9 DEF DcInv, DcTypeOK

\* The invariant is inductive.
LEMMA NextInv ==
  ASSUME DcInv, [DcNext]_vars
  PROVE  DcInv'
BY Steps, PerformStoreInv, PerformLoadInv, PerformAmoInv, CycleInv, StutterInv

\* The bookkeeping of the data cache, and where each byte is current, are as the
\* invariant says at all times.
THEOREM DcInvariant == DcSpec => []DcInv
<1>1. DcInit => DcInv
  BY InitInv
<1>2. DcInv /\ [DcNext]_vars => DcInv'
  BY NextInv
<1> QED
  BY <1>1, <1>2, PTL DEF DcSpec

\* The buffer holds bytes of words.
LEMMA BufferTyped ==
  ASSUME DcInv, NEW w
  PROVE  wbuffer_be(w) \subseteq Byte
<1>1. \A k \in Slots : wbuffer[k].valid \subseteq Byte
  BY DEF DcInv, DcTypeOK, WbufferTyped
<1> QED
  BY <1>1 DEF wbuffer_be, wbuffer_hit, valid

-----------------------------------------------------------------------------
(***************************************************************************)
(* What the invariant shows.                                               *)
(***************************************************************************)
LEMMA AtMostOne ==
  ASSUME NEW S, \A x, y \in S : x = y
  PROVE  Cardinality(S) =< 1
<1>1. CASE S = {}
  BY <1>1, FS_EmptySet
<1>2. CASE S # {}
  <2>1. PICK x \in S : TRUE
    BY <1>2
  <2>2. S = {x}
    BY <2>1
  <2>3. Cardinality({x}) = 1
    BY FS_Singleton
  <2> QED
    BY <2>2, <2>3
<1> QED
  BY <1>1, <1>2

\* The write buffer has one entry for a word, and its transactions, the queue of
\* answers and the miss unit's count of stores agree with what memory has.
THEOREM TransactionsAlwaysMatch == DcSpec => []TransactionsMatch
<1>1. ASSUME DcInv PROVE TransactionsMatch
  <2>1. \A k \in Slots : wbuffer[k].valid = wbuffer[k].dirty \cup wbuffer[k].txblock
    BY <1>1 DEF DcInv, EntriesOK
  <2>2. ASSUME NEW w \in Word PROVE Cardinality(wbuffer_hit(w)) =< 1
    <3>1. \A k, j \in wbuffer_hit(w) : k = j
      BY <1>1 DEF DcInv, EntriesOK, wbuffer_hit
    <3> QED
      BY <3>1, AtMostOne
  <2>3. ASSUME NEW t \in TxIds
        PROVE  /\ tx_stat[t].vld <=>
                    (m_store[t].phase # "idle" \/ \E i \in 1 .. Len(rtrn) : rtrn[i] = t)
               /\ tx_stat[t].vld => /\ wbuffer[tx_stat[t].ptr].txblock = tx_stat[t].be
                                    /\ m_store[t].phase # "idle" =>
                                         wbuffer[tx_stat[t].ptr].word = m_store[t].word
    BY <1>1 DEF DcInv, TransactionsOK, Live, Inflight, Answered, Member
  <2>4. stores_inflight = Cardinality({t \in TxIds : m_store[t].phase # "idle"})
    BY <1>1 DEF DcInv, TransactionsOK, Inflight
  <2> QED
    BY <2>1, <2>2, <2>3, <2>4 DEF TransactionsMatch
<1> QED
  BY <1>1, DcInvariant, PTL

\* Exactly the port that the MSHR names waits for a line, killed or not.
THEOREM MissesAlwaysAwaited == DcSpec => []MissesAreAwaited
<1>1. ASSUME DcInv PROVE MissesAreAwaited
  BY <1>1 DEF DcInv, MissOK, MissesAreAwaited
<1> QED
  BY <1>1, DcInvariant, PTL

\* No line is in two ways, whichever ports missed on it.
THEOREM NeverDuplicateLines == DcSpec => []NoDuplicateLines
<1>1. ASSUME DcInv PROVE NoDuplicateLines
  <2>1. ASSUME cache_en, NEW w \in Word PROVE Cardinality(hits_of(w)) =< 1
    <3>1. \A y, z \in hits_of(w) : y = z
      BY <1>1, <2>1 DEF DcInv, LinesOK
    <3> QED
      BY <3>1, AtMostOne
  <2> QED
    BY <2>1 DEF NoDuplicateLines
<1> QED
  BY <1>1, DcInvariant, PTL

\* A byte that has left the write buffer is current in memory and in the ways.
THEOREM CopiesAlwaysCurrent == DcSpec => []CopiesCurrent
<1>1. ASSUME DcInv PROVE CopiesCurrent
  <2>1. ASSUME NEW w \in Word, NEW b \in Byte, b \notin wbuffer_be(w)
        PROVE  /\ <<w, b>> \in main
               /\ cache_en => \A y \in hits_of(w) : <<w, b>> \in cache[y].current
    BY <1>1, <2>1 DEF DcInv, DataOK
  <2> QED
    BY <2>1 DEF CopiesCurrent, Cell
<1> QED
  BY <1>1, DcInvariant, PTL

\* Every load, from a hit or from a refill, returns what the core stored last.
THEOREM LoadsAlwaysCurrent == DcSpec => []LoadsAreCurrent
<1>1. ASSUME DcInv, NEW p \in ReadPort, answers(p, FALSE)
      PROVE  rd_data(ld[p].word, rd_q.current) = Byte
  <2> DEFINE w == ld[p].word
  <2>1. p \in reading /\ rd_q.hits # {} /\ cache_en
    BY <1>1 DEF answers
  <2>2. w \in Word
    BY <1>1, <2>1 DEF DcInv, MissOK, reading, In
  <2>3. \A b \in Byte : b \in wbuffer_be(w) \/ b \in rd_q.current
    BY <1>1, <2>1, <2>2 DEF DcInv, DataOK
  <2>4. rd_q.current \subseteq Byte
    BY <1>1 DEF DcInv, DcTypeOK, CopiesTyped
  <2>5. wbuffer_be(w) \subseteq Byte
    BY <1>1, BufferTyped
  <2> QED
    BY <2>3, <2>4, <2>5 DEF rd_data
<1>2. ASSUME DcInv, NEW p \in ReadPort, In(p, {"MISS_WAIT"}), m_load.phase = "done"
      PROVE  rd_data(ld[p].word, BytesOf(ld[p].word, m_load.current)) = Byte
  <2> DEFINE w == ld[p].word
  <2>1. w \in Word /\ w = mshr.word
    BY <1>2 DEF DcInv, MissOK, In
  <2>2. \A b \in Byte : b \in wbuffer_be(w) \/ <<w, b>> \in m_load.current
    BY <1>2, <2>1 DEF DcInv, DataOK
  <2>3. wbuffer_be(w) \subseteq Byte
    BY <1>2, BufferTyped
  <2> QED
    BY <2>2, <2>3 DEF rd_data, BytesOf
<1>3. DcInv => LoadsAreCurrent
  BY <1>1, <1>2 DEF LoadsAreCurrent
<1> QED
  BY <1>3, DcInvariant, PTL

\* An atomic operation is performed when every earlier store is in memory and
\* no way and no refill holds its line.
THEOREM AmoAlwaysSeesStores == DcSpec => []AmoSeesStores
<1>1. ASSUME DcInv, amo \in {"sent", "inv"}
      PROVE  Cells(program.amo, Byte) \subseteq main /\ wbuffer_empty
  <2>1. wbuffer_empty /\ program.amo \in Word
    BY <1>1 DEF DcInv, AmoOK
  <2>2. wbuffer_be(program.amo) = {}
    BY <2>1 DEF wbuffer_empty, wbuffer_be, wbuffer_hit
  <2>3. \A b \in Byte : <<program.amo, b>> \in main
    BY <1>1, <2>1, <2>2 DEF DcInv, DataOK
  <2> QED
    BY <2>1, <2>3 DEF Cells
<1>2. ASSUME DcInv, amo \in {"inv", "done"}
      PROVE  hits_of(program.amo) = {} /\ ~mshr_vld
  BY <1>2 DEF DcInv, AmoOK, MissOK
<1>3. DcInv => AmoSeesStores
  BY <1>1, <1>2 DEF AmoSeesStores
<1> QED
  BY <1>3, DcInvariant, PTL

\* While a store to a device word is in the buffer no other is accepted, nor is
\* anything merged into it.
LEMMA DevicesAlone ==
  ASSUME DcInv, NEW kill, NEW ret, NEW ack, NEW ptr, NEW way, NEW st, NEW sel,
         CycleStep(kill, ret, ack, ptr, way, st, sel),
         ni_entries # {}, ni_entries' # {}
  PROVE  /\ ni_entries' = ni_entries
         /\ \A k \in ni_entries : wbuffer'[k].dirty \subseteq wbuffer[k].dirty
<1>1. ni_pending # {} /\ \A k, j \in ni_entries : k = j
  BY DEF DcInv, DevicesOK
<1>2. \A k \in Slots : Writes(k, st) => st.word \notin NonIdempotent
  BY <1>1, WriteFacts
<1>3. ASSUME NEW k \in ni_entries' PROVE k \in ni_entries
  <2>1. k \in Slots /\ wbuffer'[k].valid # {} /\ wbuffer'[k].word \in NonIdempotent
    BY DEF ni_entries, valid
  <2>2. ~Writes(k, st)
    BY <2>1, <1>2, WriteFacts
  <2>3. k \in valid /\ wbuffer'[k].word = wbuffer[k].word
    BY <2>1, <2>2, SlotStep
  <2> QED
    BY <2>1, <2>3 DEF ni_entries
<1>4. ASSUME NEW k \in ni_entries PROVE wbuffer'[k].dirty \subseteq wbuffer[k].dirty
  <2>1. k \in Slots /\ k \in valid /\ wbuffer[k].word \in NonIdempotent
    BY DEF ni_entries, valid
  <2>2. ~Writes(k, st)
    <3>1. SUFFICES ASSUME Writes(k, st) PROVE FALSE
      OBVIOUS
    <3>2. wbuffer'[k].valid # {} /\ wbuffer'[k].word = st.word
      BY <2>1, <3>1, WriteFacts
    <3>3. wbuffer'[k].word = wbuffer[k].word
      BY <2>1, <3>2, SlotStep
    <3> QED
      BY <1>2, <2>1, <3>1, <3>2, <3>3
  <2> QED
    BY <2>1, <2>2, SlotStep
<1> QED
  BY <1>1, <1>3, <1>4

\* A device store waits until the one before it has reached memory.
THEOREM NonIdempotentStoresAlwaysAlone == DcSpec => NonIdempotentStoresAlone
<1> DEFINE Alone == ni_entries # {} /\ ni_entries' # {} =>
                      ni_entries' = ni_entries /\
                      \A k \in ni_entries : wbuffer'[k].dirty \subseteq wbuffer[k].dirty
<1>1. ASSUME DcInv, DcNext PROVE Alone
  <2>1. ASSUME UNCHANGED wbuffer PROVE Alone
    BY <2>1 DEF ni_entries, valid
  <2>2. ASSUME NEW t \in TxIds, PerformStore(t) PROVE Alone
    BY <2>1, <2>2 DEF PerformStore, wbVars
  <2>3. ASSUME PerformLoad PROVE Alone
    BY <2>1, <2>3 DEF PerformLoad, wbVars
  <2>4. ASSUME PerformAmo PROVE Alone
    BY <2>1, <2>4 DEF PerformAmo, wbVars
  <2>5. ASSUME NEW kill, NEW ret, NEW ack, NEW ptr, NEW way, NEW st, NEW sel,
               CycleStep(kill, ret, ack, ptr, way, st, sel)
        PROVE  Alone
    BY <1>1, <2>5, DevicesAlone
  <2> QED
    BY <1>1, <2>2, <2>3, <2>4, <2>5, Steps
<1>2. DcInv /\ [DcNext]_vars => [Alone]_vars
  BY <1>1
<1> QED
  BY <1>2, DcInvariant, PTL DEF DcSpec, NonIdempotentStoresAlone
=============================================================================
