------------------------------ MODULE LoadUnit ------------------------------
(***************************************************************************)
(* The control of the load unit (core/load_unit.sv): the FSM that requests *)
(* a load from the data cache one cycle before its translation is known,   *)
(* and the buffer of outstanding loads that matches responses to requests. *)
(* The operators give the outputs of one clock cycle as functions of the   *)
(* registers and of the input ports.                                       *)
(***************************************************************************)
EXTENDS Integers, FiniteSetsExt

CONSTANT NrLoadBufEntries

ASSUME LdBufAssumption == NrLoadBufEntries \in Nat \ {0}

VARIABLES ld_state,      \* state_q
          ldbuf,         \* slot -> ldbuf_valid_q, ldbuf_flushed_q, ldbuf_q.trans_id
          ldbuf_last_id  \* ldbuf_last_id_q

ldVars == << ld_state, ldbuf, ldbuf_last_id >>

LdStates == {"IDLE", "WAIT_GNT", "SEND_TAG", "WAIT_PAGE_OFFSET",
             "ABORT_TRANSACTION", "ABORT_TRANSACTION_NI",
             "WAIT_TRANSLATION", "WAIT_FLUSH", "WAIT_WB_EMPTY"}

LdBufSlots == 0 .. NrLoadBufEntries - 1
LDBUF_FALLTHROUGH == NrLoadBufEntries = 1

\* a slot without a load; the code leaves the fields of such a slot as they
\* are and sets all of them before it reads them again
FreeSlot == [valid |-> FALSE, flushed |-> FALSE, tid |-> 0]

LoadUnitInit == /\ ld_state = "IDLE"
                /\ ldbuf = [i \in LdBufSlots |-> FreeSlot]
                /\ ldbuf_last_id = 0

ldbuf_full == \A i \in LdBufSlots : ldbuf[i].valid

\* ldbuf_windex: the first free slot, or the one being read in fall-through mode
ldbuf_windex(rvalid) ==
  IF (LDBUF_FALLTHROUGH /\ rvalid) \/ ldbuf_full THEN 0
  ELSE Min({i \in LdBufSlots : ~ldbuf[i].valid})

-----------------------------------------------------------------------------
(***************************************************************************)
(* load_control.                                                           *)
(***************************************************************************)
accept_req(valid, rvalid) ==
  valid /\ (~ldbuf_full \/ (LDBUF_FALLTHROUGH /\ rvalid))

\* IDLE and SEND_TAG look at the next request
LdLooks(valid, rvalid) ==
  ld_state \in {"IDLE", "SEND_TAG"} /\ accept_req(valid, rvalid)

ld_translation_req(valid, rvalid) ==
  LdLooks(valid, rvalid) \/ ld_state \in {"WAIT_GNT", "WAIT_TRANSLATION"}

ld_data_req(valid, rvalid, matches) ==
  (LdLooks(valid, rvalid) /\ ~matches) \/ ld_state = "WAIT_GNT"

kill_req(ex) ==
  \/ ld_state \in {"WAIT_FLUSH", "ABORT_TRANSACTION", "ABORT_TRANSACTION_NI"}
  \/ ld_state = "SEND_TAG" /\ ex

tag_valid == ld_state \in {"SEND_TAG", "WAIT_FLUSH",
                           "ABORT_TRANSACTION", "ABORT_TRANSACTION_NI"}

\* stall_ni: a non-idempotent load waits until it is the oldest instruction
\* and every earlier store is done
\* Mutant: it does not wait for its turn to commit.
stall_ni_Speculative(ni, not_commit_time, inflight_stores) == ni /\ inflight_stores

stall_ni(ni, not_commit_time, inflight_stores) ==
  ni /\ (inflight_stores \/ not_commit_time)

\* Mutant: the request leaves the FIFO although its translation missed.
pop_ld_OnMiss(granted, hit, stall, ex, rvalid) ==
  \/ granted /\ ~stall
  \/ ld_state = "WAIT_TRANSLATION" /\ ex /\ ~rvalid

pop_ld(granted, hit, stall, ex, rvalid) ==
  \/ granted /\ hit /\ ~stall
  \/ ld_state = "WAIT_TRANSLATION" /\ ex /\ ~rvalid

AfterGrant(hit, stall) == IF ~hit  THEN "ABORT_TRANSACTION"
                          ELSE IF stall THEN "ABORT_TRANSACTION_NI"
                          ELSE "SEND_TAG"

\* state_d
LdStateNext(valid, rvalid, matches, gnt, hit, stall, ex, not_ni, flush) ==
  CASE flush -> "WAIT_FLUSH"
    [] ~flush /\ LdLooks(valid, rvalid) -> IF matches THEN "WAIT_PAGE_OFFSET"
                                           ELSE IF ~gnt THEN "WAIT_GNT"
                                           ELSE AfterGrant(hit, stall)
    [] ~flush /\ ld_state = "WAIT_PAGE_OFFSET" ->
         IF matches THEN "WAIT_PAGE_OFFSET" ELSE "WAIT_GNT"
    [] ~flush /\ ld_state = "WAIT_GNT" -> IF gnt THEN AfterGrant(hit, stall) ELSE "WAIT_GNT"
    [] ~flush /\ ld_state = "ABORT_TRANSACTION"    -> "WAIT_TRANSLATION"
    [] ~flush /\ ld_state = "ABORT_TRANSACTION_NI" -> "WAIT_WB_EMPTY"
    [] ~flush /\ ld_state = "WAIT_WB_EMPTY" /\ not_ni -> "WAIT_TRANSLATION"
    [] ~flush /\ ld_state = "WAIT_TRANSLATION" /\ ~ex ->
         IF hit THEN "WAIT_GNT" ELSE "WAIT_TRANSLATION"
    [] OTHER -> "IDLE"   \* WAIT_WB_EMPTY starts over when the buffer is not empty yet

-----------------------------------------------------------------------------
(***************************************************************************)
(* ldbuf_comb and rvalid_output: the buffer of outstanding loads.          *)
(***************************************************************************)
LdBufNext(granted, tid, rvalid, rid, flush) ==
  [i \in LdBufSlots |->
     IF granted /\ i = ldbuf_windex(rvalid)
     THEN [valid |-> TRUE, flushed |-> FALSE, tid |-> tid]
     ELSE IF (rvalid /\ i = rid) \/ ~ldbuf[i].valid THEN FreeSlot
     ELSE [ldbuf[i] EXCEPT !.flushed = @ \/ flush]]

\* Mutant: the answer to a killed request is reported.
LdRetires_Killed(rvalid, rid, ex) == rvalid /\ ~ldbuf[rid].flushed

\* the load whose response arrives is reported unless it was flushed or it is
\* the one being killed right now; an exception in SEND_TAG is its own
LdRetires(rvalid, rid, ex) ==
  /\ rvalid
  /\ ~ldbuf[rid].flushed
  /\ \/ ldbuf_last_id # rid
     \/ ~kill_req(ex)
     \/ ex /\ ld_state = "SEND_TAG"

\* an exception found while waiting for the translation is reported unless a
\* response takes the port in this cycle
LdFaults(valid, rvalid, ex) ==
  ld_state = "WAIT_TRANSLATION" /\ ~rvalid /\ ex /\ valid
=============================================================================
