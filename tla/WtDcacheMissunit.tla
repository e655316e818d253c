-------------------------- MODULE WtDcacheMissunit --------------------------
(***************************************************************************)
(* The miss unit of the write-through data cache (wt_dcache_missunit.sv):  *)
(* the one way to memory of the load ports, the write buffer and the       *)
(* atomic operations.  One load (MSHR) and several stores may be under     *)
(* way; a load and a store of the same line never are.                     *)
(***************************************************************************)
EXTENDS WtDcacheWbuffer

VARIABLES mu_state,        \* state_q
          locked,          \* miss_req_masked_q while a request waits
          mshr, mshr_vld,  \* mshr_q, mshr_vld_q
          mshr_vld_q1,
          collided,        \* mshr_rdrd_collision_q
          stores_inflight,
          cache_en,        \* enable_q
          flush_ack_q

muVars == <<mu_state, locked, mshr, mshr_vld, mshr_vld_q1, collided,
            stores_inflight, cache_en, flush_ack_q>>

MuStates == {"IDLE", "DRAIN", "AMO", "FLUSH", "STORE_WAIT", "LOAD_WAIT", "AMO_WAIT"}

NoMiss == [word |-> None, nc |-> FALSE, way |-> None, port |-> None]

MissunitInit ==
  /\ mu_state = "FLUSH" /\ locked = None
  /\ mshr = NoMiss /\ mshr_vld = FALSE /\ mshr_vld_q1 = FALSE
  /\ collided = {} /\ stores_inflight = 0
  /\ cache_en = FALSE /\ flush_ack_q = FALSE

-----------------------------------------------------------------------------
(* p_rtrn_logic: ret = [type, id, ways], the message from memory *)

load_ack(ret)  == ret.type = "load" /\ mshr_vld
store_ack(ret) == ret.type = "store" /\ stores_inflight > 0

flush_en    == mu_state = "FLUSH"
cl_write_en(ret) == load_ack(ret) /\ ~mshr.nc

wr_cl_we(ret) == CASE flush_en           -> Way
                   [] ~flush_en /\ ret.type = "inv" -> ret.ways
                   [] ~flush_en /\ cl_write_en(ret) -> {mshr.way}
                   [] OTHER              -> {}
wr_cl_vld(ret) == load_ack(ret) \/ wr_cl_we(ret) # {}

-----------------------------------------------------------------------------
(***************************************************************************)
(* Arbitration.  req is the set of ports that have a miss, at[p] the word  *)
(* of port p.  Only the write buffer is heard while a load is under way.   *)
(***************************************************************************)
mask_reads == mshr_vld \/ mu_state = "DRAIN"

miss_req_masked(req) ==
  IF locked # None THEN {locked}
  ELSE IF mask_reads THEN req \cap {WrPort} ELSE req

miss_port(req) == Min(miss_req_masked(req))

SameLine(w) == mshr.word # None /\ w.line = mshr.word.line

\* Mutant: a port that asked while the line was on its way is not
\* told that it has arrived
rdrd_collision_Forgotten(req, at) == {}

rdrd_collision(req, at) ==
  {p \in req : p \in collided \/ (SameLine(at[p]) /\ (mshr_vld \/ mshr_vld_q1))}

rdwr_collision(w) == mshr_vld /\ SameLine(w)

\* Mutant: a load is sent although stores of its line are under way
tx_collision_Ignored(w) == FALSE

tx_collision(w) ==
  \E t \in TxIds : tx_stat[t].vld /\ wbuffer[tx_stat[t].ptr].word.line = w.line

\* Nothing is under way, so that lines can be discarded or an atomic operation
\* can be sent.
\* Mutant: the stores in the buffer are not waited for
drained_MshrOnly == ~mshr_vld

drained == wbuffer_empty /\ ~mshr_vld

\* The request that memory sees: none, a store, a load or an atomic operation;
\* busy: a flush, an enabling or an atomic operation goes first.  That a load
\* needs a free MSHR is implied by the mask.
mem_req(req, at, busy) ==
  LET p == miss_port(req)
      any == miss_req_masked(req) # {}
  IN  CASE mu_state = "STORE_WAIT" -> "store"
        [] mu_state = "LOAD_WAIT"  -> "load"
        [] mu_state = "AMO"        -> "amo"
        [] \/ mu_state = "DRAIN" /\ any /\ ~rdwr_collision(at[WrPort])
           \/ mu_state = "IDLE" /\ ~busy /\ any /\ p = WrPort /\ ~rdwr_collision(at[p])
             -> "store"
        [] /\ mu_state = "IDLE" /\ ~busy /\ any /\ p # WrPort
           /\ p \notin rdrd_collision(req, at) /\ ~tx_collision(at[p])
             -> "load"
        [] OTHER -> "none"

\* the port that must look its line up again
replay(req, at, busy) ==
  {p \in rdrd_collision(req, at) :
     /\ mu_state = "IDLE" /\ ~busy /\ p # WrPort
     /\ p \in miss_req_masked(req) /\ p = miss_port(req)}

\* p_fsm; enable_i, flush_i and amo_i are inputs, ack says that memory took
\* the request
mu_next(req, at, ret, ack, enable_i, flush_i, amo_i) ==
  LET flush == flush_i \/ (enable_i /\ ~cache_en)
      mem   == mem_req(req, at, flush \/ amo_i)
  IN  CASE mu_state = "IDLE" /\ flush  -> IF drained THEN "FLUSH" ELSE "DRAIN"
        [] mu_state = "IDLE" /\ ~flush /\ amo_i -> IF drained THEN "AMO" ELSE "DRAIN"
        [] mu_state = "IDLE" /\ mem = "store" /\ ~ack -> "STORE_WAIT"
        [] mu_state = "IDLE" /\ mem = "load" /\ ~ack  -> "LOAD_WAIT"
        [] mu_state \in {"STORE_WAIT", "LOAD_WAIT"} /\ ack -> "IDLE"
        [] mu_state = "DRAIN" /\ drained -> "IDLE"
        [] mu_state = "FLUSH"            -> "IDLE"
        [] mu_state = "AMO" /\ ack       -> "AMO_WAIT"
        [] mu_state = "AMO_WAIT" /\ ret.type = "amo" -> "IDLE"
        [] OTHER -> mu_state

\* Mutant: an answer in the cycle of a new store is not counted.
stores_inflight_d_SentFirst(sent, acked) ==
  stores_inflight + (CASE sent -> 1 [] ~sent /\ acked -> -1 [] OTHER -> 0)

stores_inflight_d(sent, acked) ==
  stores_inflight + (IF sent THEN 1 ELSE 0) - (IF acked THEN 1 ELSE 0)

\* miss = [nc, way]: what the cache port says of its miss and the way to replace
MissunitCycle(req, at, ret, ack, miss, enable_i, flush_i, amo_i) ==
  LET busy == flush_i \/ (enable_i /\ ~cache_en) \/ amo_i
      mem  == mem_req(req, at, busy)
      p    == miss_port(req)
      mshr_allocate == mem = "load" /\ ack
      store_sent    == mem = "store" /\ ack
      next == mu_next(req, at, ret, ack, enable_i, flush_i, amo_i)
  IN  /\ mu_state' = next
      /\ locked' = CASE next = "STORE_WAIT" -> WrPort
                     [] next = "LOAD_WAIT"  -> p
                     [] OTHER -> None
      /\ mshr_vld' = (mshr_allocate \/ (mshr_vld /\ ~load_ack(ret)))
      /\ mshr' = CASE mshr_allocate ->
                        [word |-> at[p], nc |-> miss.nc, way |-> miss.way, port |-> p]
                   [] ~mshr_allocate /\ ~mshr_vld -> NoMiss \* not read again
                   [] OTHER -> mshr
      /\ mshr_vld_q1' = mshr_vld
      /\ collided' = rdrd_collision(req, at) \ {WrPort}
      /\ stores_inflight' = stores_inflight_d(store_sent, store_ack(ret))
      /\ cache_en' = (enable_i /\ (cache_en \/ mu_state = "FLUSH"))
      /\ flush_ack_q' = CASE mu_state = "IDLE" /\ next = "FLUSH" -> flush_i
                          [] mu_state = "FLUSH"                  -> FALSE
                          [] OTHER -> flush_ack_q
=============================================================================
