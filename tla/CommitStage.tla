---------------------------- MODULE CommitStage -----------------------------
(***************************************************************************)
(* The commit stage (core/commit_stage.sv) and the flushes the controller  *)
(* derives from it (core/controller.sv): which of the oldest instructions  *)
(* retire in this cycle, and whether everything behind them is thrown      *)
(* away.  Both are combinational.  `in' is the answer the oldest           *)
(* instruction gets from outside in this cycle:                            *)
(*   "wait"   the store buffer has no room for a store, still holds stores *)
(*            when a fence asks, or the cache has not finished the AMO     *)
(*            (commit_lsu_ready_i, no_st_pending_i, amo_resp_i.ack are 0)  *)
(*   "go"     it can retire                                                *)
(*   "illegal", "flush"   the CSR file refuses the access, or executes it  *)
(*            with a side effect that needs a flush (csr_exception_i,      *)
(*            flush_csr_i)                                                 *)
(***************************************************************************)
EXTENDS IssueReadOperands

head == commit_instr(0)
kind0 == head.instr.kind
drop0 == head.cancelled

\* the head is valid and has no exception of its own
Committing == head.valid /\ ~head.ex

amo_valid_commit == Committing /\ kind0 = "amo"

\* the answers that can come in this state
Answers == IF ~Committing THEN {"wait"}
           ELSE CASE kind0 \in {"store", "amo", "fence", "sfence"} -> {"wait", "go"}
                  [] kind0 = "csr" -> {"go", "illegal", "flush"}
                  [] OTHER -> {"go"}

\* a FENCE that waits for the stores is acknowledged to the CSR buffer already
commit_csr(in) == /\ Committing /\ fu(head.instr) = "CSR" /\ ~drop0
                  /\ in # "illegal"

commit_ack0(in) ==
  \/ head.valid /\ head.ex /\ drop0
  \/ /\ Committing
     /\ kind0 \in {"store", "amo"} => in = "go"
     /\ kind0 \in {"fence", "sfence"} => in = "go" \/ drop0
     /\ kind0 = "csr" => in # "illegal" \/ drop0

commit_ack1(in) ==
  /\ NrCommitPorts = 2
  /\ commit_ack0(in) /\ commit_instr(1).valid
  /\ fu(head.instr) # "CSR" /\ kind0 # "amo"
  /\ ~commit_instr(1).ex
  /\ fu(commit_instr(1).instr) \in {"ALU", "LOAD", "CTRL_FLOW", "MULT"}

commit_ack(in) == {p \in CommitPorts : IF p = 0 THEN commit_ack0(in) ELSE commit_ack1(in)}

\* exception_o: the head is taken as an exception, not retired
exception(in) ==
  /\ head.valid /\ ~drop0
  /\ head.ex \/ in = "illegal"

\* flush_id_o and flush_ex_o of the controller: exception, FENCE, FENCE.I and
\* SFENCE.VMA, AMO, and CSR side effects
flush_id(in) ==
  \/ exception(in)
  \/ commit_ack0(in) /\ ~drop0 /\ kind0 \in {"fence", "sfence"}
  \/ amo_valid_commit /\ in = "go"
  \/ commit_csr(in) /\ in = "flush"
=============================================================================
