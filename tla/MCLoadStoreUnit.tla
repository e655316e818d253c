-------------------------- MODULE MCLoadStoreUnit ---------------------------
(***************************************************************************)
(* Instances of the load-store unit for TLC: the programs, each a choice   *)
(* of the kinds of instructions that meet in the pipeline.                 *)
(***************************************************************************)
EXTENDS LoadStoreUnit

Runs(kinds, faulting, words, mmu) ==
  [kinds |-> kinds, faulting |-> faulting, loads |-> words, stores |-> words, mmu |-> mmu]

OneWord == {CHOOSE w \in Word : TRUE}

\* what may be in flight together
Stores     == Runs({"store", "cbo", "amo", "fence"}, {"store"}, OneWord, TRUE)
Loads      == Runs({"load", "store"}, {}, Word, FALSE)
LoadFaults == Runs({"load", "store"}, {"load"}, OneWord, TRUE)
InOut      == Runs({"load_ni", "store", "nop"}, {"load_ni"}, OneWord, FALSE)
\* loads that the stores before a fence do not hold up
Fences     == [Runs({"load", "store", "fence"}, {}, OneWord, FALSE) EXCEPT !.loads = Word \ OneWord]

MCPrograms == {Stores, Loads, LoadFaults, InOut, Fences}

\* all the units that wait for one another
MCContention == {Runs({"load", "store", "amo"}, {"load"}, OneWord, FALSE)}

\* the two programs that break a rule of the code
MCStoreFaults == {Runs({"load", "store", "nop"}, {"store"}, Word, FALSE)}
MCOneStore    == {Runs({"store"}, {}, OneWord, FALSE)}
=============================================================================
