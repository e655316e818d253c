------------------------- MODULE InstructionWindow --------------------------
(***************************************************************************)
(* What the scoreboard promises to the issue and the commit stage: the     *)
(* instructions in flight form one queue in program order.  They enter at  *)
(* the back, at most NrIssuePorts in a cycle, leave at the front, at most  *)
(* NrCommitPorts in a cycle, and otherwise only disappear all at once.     *)
(***************************************************************************)
EXTENDS Naturals, Sequences

CONSTANTS Instr, NR_SB_ENTRIES, NrIssuePorts, NrCommitPorts

VARIABLE window

Init == window = << >>

Cycle(new, retired, flush) ==
  /\ Len(window) + Len(new) <= NR_SB_ENTRIES
  /\ retired <= Len(window)
  /\ window' = IF flush THEN << >>
               ELSE SubSeq(window, retired + 1, Len(window)) \o new

Arrivals == UNION {[1 .. n -> Instr] : n \in 0 .. NrIssuePorts}

Next == \E new \in Arrivals, retired \in 0 .. NrCommitPorts, flush \in BOOLEAN :
          Cycle(new, retired, flush)

Spec == Init /\ [][Next]_window
=============================================================================
