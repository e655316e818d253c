----------------------------- MODULE MCPerfModel ----------------------------
(***************************************************************************)
(* Instances of the performance model for TLC: the programs whose          *)
(* executions are replayed, on a core with one and with two issue ports.   *)
(***************************************************************************)
EXTENDS PerfModel

Instr(kind, addr, size, target, rd, rs) ==
  [kind |-> kind, addr |-> addr, size |-> size, target |-> target,
   rd |-> rd, rs |-> rs]

\* the arguments of Model(): defaults of the code with one and two issue
\* ports, and a small scoreboard without renaming and forwarding
Single(code) == [issue |-> 1, commit |-> 2, sb_len |-> 8, fetch_size |-> 4,
                 has_forwarding |-> TRUE, has_renaming |-> TRUE,
                 code |-> code]
Dual(code)   == [Single(code) EXCEPT !.issue = 2, !.fetch_size = 8]
Small(code)  == [Dual(code) EXCEPT !.sb_len = 2, !.commit = 1,
                                   !.has_forwarding = FALSE,
                                   !.has_renaming = FALSE]

\* four instructions for the units, each of them dependent on the one before
\* or none
Units ==
  {{Instr(ks[k], 4 + 4 * k, 4, 0, IF dep THEN 1 ELSE k, IF dep THEN {1} ELSE {})
      : k \in 1 .. 4}
   : ks \in [1 .. 4 -> {"alu", "mul", "load", "store"}], dep \in BOOLEAN}

\* a loop of three instructions of both sizes at every offset, closed by a
\* branch or a jump
Loops ==
  {LET size(k) == IF k \in long THEN 4 ELSE 2
       at(k)   == base + 2 * (k - 1) + 2 * Cardinality(long \cap 1 .. (k - 1))
   IN  {Instr(IF k = 3 THEN last ELSE "alu", at(k), size(k), at(t), 0, {})
          : k \in 1 .. 3} \cup {Instr("alu", at(4), 2, 0, 0, {})}
   : long \in SUBSET (1 .. 3), base \in {8, 10, 12, 14},
     last \in {"branch", "jump"}, t \in {1, 2, 3}}

\* calls up to two deep, direct, indirect and between coroutines
Calls(f, g) ==
  {Instr("call", 8, 4, 16, 1, {}), Instr("alu", 12, 4, 0, 0, {}),
   Instr(f, 16, 2, 24, 1, {}), Instr("ret", 18, 2, 0, 0, {1}),
   Instr(g, 24, 4, 24, 1, {1}), Instr("ret", 28, 4, 0, 0, {1})}

MCModels ==
  {Single(c) : c \in Units \cup Loops} \cup {Dual(c) : c \in Units \cup Loops}
    \cup {Small(c) : c \in Units}
    \cup {Dual(Calls(f, g)) : f \in {"call", "regcall"}, g \in {"alu", "coret"}}
=============================================================================
