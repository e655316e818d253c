----------------------------- MODULE StoreUnit ------------------------------
(***************************************************************************)
(* The control of the store unit (core/store_unit.sv) and the one-entry    *)
(* AMO buffer (core/amo_buffer.sv).  The operators give the outputs of one *)
(* clock cycle as functions of the registers and of the input ports; the   *)
(* store buffer the unit writes to is StoreBuffer.tla.                     *)
(***************************************************************************)
EXTENDS Integers

CONSTANT NoAmo        \* the AMO buffer is empty

VARIABLES st_state,   \* state_q
          st_q,       \* the request latched for its second cycle: st_data_q,
                      \* st_be_q, amo_op_q, cbo_op_q, trans_id_q
          amo_buffer  \* i_amo_fifo

stVars == << st_state, st_q, amo_buffer >>

StStates == {"IDLE", "VALID_STORE", "WAIT_TRANSLATION", "WAIT_STORE_READY"}

IsAmo(req) == req.op = "amo"

(***************************************************************************)
(* The access exception of the previous cycle's translation hits whatever  *)
(* the unit is doing unless it is idle.                                    *)
(***************************************************************************)
StException(ex) == ex /\ st_state # "IDLE"

\* valid_o: the store (or its exception) is reported to the scoreboard
st_valid_o(ex) == st_state = "VALID_STORE" \/ StException(ex)

\* Mutant: a store that faults is put into the buffer all the same.
st_valid_Faulting(ex, flush) == st_state = "VALID_STORE" /\ ~flush

st_valid(ex, flush) == st_state = "VALID_STORE" /\ ~flush /\ ~StException(ex)

st_valid_without_flush == st_state = "VALID_STORE"

store_buffer_valid(ex, flush) == st_valid(ex, flush) /\ ~IsAmo(st_q)
amo_buffer_valid(ex, flush)   == st_valid(ex, flush) /\ IsAmo(st_q)

amo_ready == amo_buffer = NoAmo

\* a request is looked at in this cycle; an AMO is not looked at behind the
\* second cycle of another request, as the AMO buffer has one entry
Looks(valid, ctrl) ==
  valid /\ (st_state = "IDLE" \/ (st_state = "VALID_STORE" /\ ~IsAmo(ctrl)))

st_translation_req(valid, ctrl) ==
  Looks(valid, ctrl) \/ st_state \in {"WAIT_STORE_READY", "WAIT_TRANSLATION"}

\* the request is translated and has room: it goes to its second cycle
Accepts(valid, ctrl, hit, st_ready) == Looks(valid, ctrl) /\ hit /\ st_ready

pop_st(valid, ctrl, hit, st_ready, ex) ==
  Accepts(valid, ctrl, hit, st_ready) \/ StException(ex)

\* state_d
StStateNext(valid, ctrl, hit, st_ready, ex, flush) ==
  CASE flush \/ StException(ex) -> "IDLE"
    [] OTHER ->
       CASE Looks(valid, ctrl) -> IF ~st_ready THEN "WAIT_STORE_READY"
                                  ELSE IF ~hit THEN "WAIT_TRANSLATION"
                                  ELSE "VALID_STORE"
         [] st_state = "WAIT_STORE_READY" /\ ~(st_ready /\ hit) -> "WAIT_STORE_READY"
         [] st_state = "WAIT_TRANSLATION" /\ ~hit -> "WAIT_TRANSLATION"
         [] OTHER -> "IDLE"

(***************************************************************************)
(* The AMO buffer: flushed unless the commit stage is waiting for this very*)
(* AMO, popped by the acknowledgement of the cache.                        *)
(***************************************************************************)
\* Mutant: a flush never empties the AMO buffer.
AmoBufferNext_NoFlush(ex, flush, amo_valid_commit, ack) ==
  IF ack THEN NoAmo
  ELSE IF amo_buffer_valid(ex, flush) /\ amo_ready THEN st_q.tid
  ELSE amo_buffer

AmoBufferNext(ex, flush, amo_valid_commit, ack) ==
  IF (flush /\ ~amo_valid_commit) \/ ack THEN NoAmo
  ELSE IF amo_buffer_valid(ex, flush) /\ amo_ready THEN st_q.tid
  ELSE amo_buffer

\* Mutant: the AMO does not wait for the committed stores.
amo_req_NotDrained(no_st_pending_i, amo_valid_commit) ==
  amo_valid_commit /\ amo_buffer # NoAmo

\* amo_req_o.req
amo_req(no_st_pending_i, amo_valid_commit) ==
  no_st_pending_i /\ amo_valid_commit /\ amo_buffer # NoAmo

StoreUnitInit(reset) == st_state = "IDLE" /\ st_q = reset /\ amo_buffer = NoAmo
=============================================================================
