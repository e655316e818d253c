---------------------------- MODULE WtDcacheCtrl ----------------------------
(***************************************************************************)
(* The load ports of the write-through data cache (wt_dcache_ctrl.sv), one *)
(* for the load unit and one for the page table walker: look a word up,    *)
(* and on a miss ask the miss unit for its line.  The requester sends the  *)
(* tag in the cycle after the grant and may withdraw its request in every  *)
(* cycle.                                                                  *)
(***************************************************************************)
EXTENDS WtDcacheMissunit

VARIABLE ld \* port -> state_q and the word (address_tag_q, _idx_q, _off_q)

CtrlStates == {"IDLE", "READ", "MISS_REQ", "MISS_WAIT", "KILL_MISS",
               "KILL_MISS_ACK", "REPLAY_REQ", "REPLAY_READ"}

IdlePort == [state |-> "IDLE", word |-> None]

CtrlInit == ld = [p \in ReadPort |-> IdlePort]

In(p, states) == ld[p].state \in states

reading  == {p \in ReadPort : In(p, {"READ", "REPLAY_READ"})}
miss_req == {p \in ReadPort : In(p, {"MISS_REQ", "KILL_MISS_ACK"})}

\* rd_req_o of a port that does not depend on a new request
rd_req == {p \in ReadPort : In(p, {"READ", "REPLAY_READ", "REPLAY_REQ"})}

miss_nc(p) == ~cache_en \/ ld[p].word.line \notin Cacheable

\* READ, REPLAY_READ: the lookup of the last cycle answers the load
answers(p, wr_cl) == p \in reading /\ ~wr_cl /\ rd_q.hits # {} /\ cache_en

\* may the port take a new request in this cycle, if the arbiter lets it read
accepts(p, kill, wr_cl) ==
  In(p, {"IDLE"}) \/ (p \notin kill /\ answers(p, wr_cl))

\* Mutant: the port forgets that an answer is still to come
withdrawn_AtOnce(p, returned) == IdlePort

\* a request withdrawn in MISS_WAIT
withdrawn(p, returned) ==
  IF returned THEN IdlePort ELSE [ld[p] EXCEPT !.state = "KILL_MISS"]

\* p_fsm of port p; wr_cl: a line is written; sel = [port, word] is the read
\* that the arrays do in this cycle, word = None if it is no new request
CtrlNext(p, kill, wr_cl, sel, replayed, acked, returned) ==
  LET dies  == p \in kill
      to(s) == [ld[p] EXCEPT !.state = s]
      new   == sel.port = p /\ sel.word # None
  IN  CASE new -> [state |-> "READ", word |-> sel.word]
        [] ~new /\ p \in reading ->
             CASE dies \/ answers(p, wr_cl) -> IdlePort
               [] ~dies /\ wr_cl            -> to("REPLAY_REQ")
               [] OTHER                     -> to("MISS_REQ")
        [] In(p, {"MISS_REQ"}) ->
             CASE dies /\ acked            -> to("KILL_MISS")
               [] dies /\ ~acked           -> to("KILL_MISS_ACK")
               [] ~dies /\ replayed        -> to("REPLAY_REQ")
               [] ~dies /\ ~replayed /\ acked -> to("MISS_WAIT")
               [] OTHER                    -> ld[p]
        [] In(p, {"MISS_WAIT"}) ->
             CASE dies               -> withdrawn(p, returned)
               [] ~dies /\ returned -> IdlePort
               [] OTHER              -> ld[p]
        [] In(p, {"REPLAY_REQ"}) ->
             CASE dies                      -> IdlePort
               [] ~dies /\ sel.port = p     -> to("REPLAY_READ")
               [] OTHER                     -> ld[p]
        [] In(p, {"KILL_MISS_ACK"}) ->
             CASE replayed              -> IdlePort
               [] ~replayed /\ acked    -> to("KILL_MISS")
               [] OTHER                 -> ld[p]
        [] In(p, {"KILL_MISS"}) -> IF returned THEN IdlePort ELSE ld[p]
        [] OTHER -> ld[p]

\* a lookup that its requester looks at in the next cycle
looks(sel, kill) ==
  \/ sel.word # None
  \/ sel.port \in ReadPort /\ In(sel.port, {"REPLAY_REQ"}) /\ sel.port \notin kill
=============================================================================
