------------------------- MODULE IssueReadOperands --------------------------
(***************************************************************************)
(* Issue and read operands (core/issue_read_operands.sv, raw_checker.sv):  *)
(* whether the instructions at the head of decode can be sent to their     *)
(* functional units in this cycle, and where their operand comes from.     *)
(* The state it looks at is the scoreboard's; its own registers (ID <-> EX)*)
(* are in BackEnd.tla.                                                     *)
(*                                                                         *)
(* Registers are x0 and one other, x1; an instruction reads one register   *)
(* (the checks of rs1, rs2 and rs3 are copies of each other) and rs = 0    *)
(* also stands for an operand that is no register.                         *)
(***************************************************************************)
EXTENDS Scoreboard

CONSTANT ALUBypass   \* forwarding inside an issue packet, superscalar only

\* CVA6Cfg.SuperscalarEn: a parameter of the build, fixed in the initial state
\* so that one run covers single and dual issue
VARIABLE SuperscalarEn

fu(n) == CASE n.kind = "alu"                        -> "ALU"
           [] n.kind = "branch"                     -> "CTRL_FLOW"
           [] n.kind \in {"mul", "div"}             -> "MULT"
           [] n.kind = "load"                       -> "LOAD"
           [] n.kind \in {"store", "amo"}           -> "STORE"
           [] n.kind \in {"csr", "fence", "sfence"} -> "CSR"
           [] n.kind = "trap"                       -> "NONE"

-----------------------------------------------------------------------------
(***************************************************************************)
(* Structural hazards.  fus_busy0 and fus_busy1 are the units that port 0  *)
(* and port 1 must not use in this cycle; port 1 also avoids what port 0   *)
(* takes, whether or not port 0 can issue.                                 *)
(***************************************************************************)
\* Mutant: a one-cycle instruction may follow a multiplication.
fus_busy0_AfterMult(flu_ready, lsu_ready, mult_valid) ==
  (IF flu_ready THEN {} ELSE {"ALU", "CTRL_FLOW", "CSR", "MULT"})
    \union (IF lsu_ready THEN {} ELSE {"LOAD", "STORE"})

fus_busy0(flu_ready, lsu_ready, mult_valid) ==
  (IF flu_ready THEN {} ELSE {"ALU", "CTRL_FLOW", "CSR", "MULT"})
    \union (IF mult_valid THEN {"ALU", "CTRL_FLOW", "CSR"} ELSE {})
    \union (IF lsu_ready THEN {} ELSE {"LOAD", "STORE"})

is_alu_bypass(q) == ALUBypass /\ Len(q) = 2 /\ fu(q[1]) = "ALU" /\ fu(q[2]) = "ALU"

\* ALU instructions take the second ALU when it is free; a pair that may be
\* fused takes the first ALU first.  (The source compares the units of both
\* ports whether or not port 1 holds an instruction: what an empty port still
\* holds only decides which of two free ALUs is taken.)
use_alu2(q, busy) ==
  /\ SuperscalarEn
  /\ IF is_alu_bypass(q) THEN "ALU" \in busy ELSE "ALU2" \notin busy

fus_busy1(q, busy0) ==
  busy0 \union {"CSR"} \union
  CASE fu(q[1]) = "NONE"      -> {"NONE"}
    [] fu(q[1]) = "CTRL_FLOW" -> {"ALU", "CTRL_FLOW", "CSR", "LOAD", "STORE"}
    [] fu(q[1]) = "ALU"       -> IF use_alu2(q, busy0) THEN {"ALU2"}
                                 ELSE {"ALU", "CTRL_FLOW", "CSR"}
    [] fu(q[1]) = "CSR"       -> {"ALU", "ALU2", "CTRL_FLOW", "MULT", "LOAD", "STORE", "NONE"}
    [] fu(q[1]) = "MULT"      -> {"MULT"}
    [] fu(q[1]) \in {"LOAD", "STORE"} -> {"LOAD", "STORE"}

\* the unit instruction n of packet q is sent to
Unit(q, n, busy) == IF fu(n) = "ALU" /\ use_alu2(q, busy) THEN "ALU2" ELSE fu(n)

-----------------------------------------------------------------------------
(***************************************************************************)
(* Data hazards.  raw_checker finds the youngest instruction of the        *)
(* scoreboard that writes rs: the last slot below the issue pointer, else  *)
(* the last slot above it.                                                 *)
(***************************************************************************)
Greatest(S) == CHOOSE i \in S : \A j \in S : j <= i

same_rd_as_rs(rs) == {i \in Slots : still_issued(i) /\ mem[i].instr.rd = rs}

raw_idx(rs) ==
  LET same   == same_rd_as_rs(rs)
      before == {i \in same : i < issue_pointer}
  IN  Greatest(IF before # {} THEN before ELSE same)

has_raw(rs) == same_rd_as_rs(rs) # {} /\ rs # 0

\* the result of slot i is in the scoreboard or on a write-back port now
fwd_res_valid(i, wb) ==
  \/ mem[i].valid /\ ~mem[i].ex
  \/ \E w \in wb : w.tid = i /\ ~w.ex

\* Mutant: results of CSR instructions are forwarded to everyone.
rs_is_not_csr_Never(n) == TRUE

\* a CSR instruction's result is not its scoreboard result; SFENCE.VMA does not ask
rs_is_not_csr(n) ==
  \/ fu(mem[raw_idx(n.rs)].instr) # "CSR"
  \/ n.kind = "sfence"

rs_valid(n, wb) == fwd_res_valid(raw_idx(n.rs), wb) /\ rs_is_not_csr(n)

\* the second instruction of the packet reads what the first one writes
needs_rd0(q) == q[2].rs = q[1].rd /\ q[2].rs # 0

stall_raw0(q, wb) == has_raw(q[1].rs) /\ ~rs_valid(q[1], wb)

stall_raw1(q, wb) ==
  \/ has_raw(q[2].rs) /\ ~rs_valid(q[2], wb)
  \/ needs_rd0(q) /\ ~is_alu_bypass(q)

\* issue_ack: how many instructions of packet q are issued
Issuable(q, wb, flu_ready, lsu_ready, mult_valid) ==
  LET busy0 == fus_busy0(flu_ready, lsu_ready, mult_valid)
      busy1 == fus_busy1(q, busy0)
      ack0  == /\ Len(q) > 0 /\ ~issue_full(0)
               /\ Unit(q, q[1], busy0) \notin busy0
               /\ ~stall_raw0(q, wb) \/ Trapped(q[1])
      ack1  == /\ Len(q) > 1 /\ ~issue_full(1)
               /\ Unit(q, q[2], busy1) \notin busy1
               /\ ~stall_raw1(q, wb) \/ Trapped(q[2])
  IN  IF ~ack0 THEN 0 ELSE IF ack1 THEN 2 ELSE 1

\* where the operand comes from: a slot of the scoreboard (or of the first
\* instruction of the packet, by the ALU bypass), or the register file
RegFile == -1

operand0(q) == IF has_raw(q[1].rs) THEN raw_idx(q[1].rs) ELSE RegFile
operand1(q) == IF needs_rd0(q) THEN issue_pointer
               ELSE IF has_raw(q[2].rs) THEN raw_idx(q[2].rs) ELSE RegFile
=============================================================================
