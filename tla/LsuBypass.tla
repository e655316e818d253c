----------------------------- MODULE LsuBypass ------------------------------
(***************************************************************************)
(* The two-entry FIFO between the issue stage and the load and store units *)
(* (core/lsu_bypass.sv).  The issue stage sees "ready" only while the FIFO *)
(* is empty, but it issues one cycle ahead, so a second request may still  *)
(* arrive.  When the FIFO is empty the request of this cycle is bypassed.  *)
(***************************************************************************)
EXTENDS Integers, PageOffset

VARIABLES byp_mem,   \* 0..1 -> request
          byp_rd,    \* read_pointer_q, one bit
          byp_wr,    \* write_pointer_q, one bit
          byp_cnt    \* status_cnt_q, two bits

bypVars == << byp_mem, byp_rd, byp_wr, byp_cnt >>

(***************************************************************************)
(* lsu_ctrl_t.  `op' tells a load from a non-idempotent load, a store from *)
(* a cache-block operation and an AMO; `bad' says that its translation or  *)
(* its alignment raises an exception.                                      *)
(***************************************************************************)
LoadOps  == {"load", "load_ni"}
StoreOps == {"store", "cbo", "amo"}

LsuCtrl(TransId) == [valid : BOOLEAN, fu : {"LOAD", "STORE", "NONE"},
                     op : LoadOps \union StoreOps \union {"none"},
                     word : Word, bad : BOOLEAN, tid : TransId]

\* '0: what the LSU sees when nothing was issued to it, and a cleared slot
Zero == [valid |-> FALSE, fu |-> "NONE", op |-> "none",
         word |-> CHOOSE w \in Word : TRUE, bad |-> FALSE, tid |-> 0]

BypassInit == /\ byp_mem = [i \in 0 .. 1 |-> Zero]
              /\ byp_rd = 0 /\ byp_wr = 0 /\ byp_cnt = 0

lsu_ready == byp_cnt = 0

\* lsu_ctrl_o: the request `req' of this cycle, or the oldest stored one
lsu_ctrl(req) == IF byp_cnt = 0 THEN req ELSE byp_mem[byp_rd]

\* the slots after a push and a pop
StoredMem(req, pop_ld, pop_st) ==
  [i \in 0 .. 1 |->
     LET stored == IF req.valid /\ i = byp_wr THEN req ELSE byp_mem[i]
     IN  IF i = byp_rd /\ (pop_ld \/ pop_st) THEN [stored EXCEPT !.valid = FALSE]
                                             ELSE stored]

BypassStep(req, pop_ld, pop_st, flush) ==
  LET pops == (IF pop_ld THEN 1 ELSE 0) + (IF pop_st THEN 1 ELSE 0)
      push == IF req.valid THEN 1 ELSE 0
  IN  IF flush
      THEN /\ byp_mem' = [i \in 0 .. 1 |-> Zero]
           /\ byp_rd' = 0 /\ byp_wr' = 0 /\ byp_cnt' = 0
      ELSE /\ byp_mem' = IF pop_ld /\ pop_st THEN [i \in 0 .. 1 |-> Zero]
                         ELSE StoredMem(req, pop_ld, pop_st)
           /\ byp_rd' = (byp_rd + pops) % 2
           /\ byp_wr' = (byp_wr + push) % 2
           /\ byp_cnt' = (byp_cnt + push - pops) % 4
=============================================================================
