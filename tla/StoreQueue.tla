----------------------------- MODULE StoreQueue -----------------------------
(***************************************************************************)
(* What the store buffer promises to the rest of the load-store unit: one  *)
(* queue of stores in program order, cut in two.  The older part,          *)
(* committed, belongs to stores that will definitely happen and is handed  *)
(* to the data cache in order; the younger part, speculative, may still be *)
(* thrown away by a pipeline flush.  Everything else about the component   *)
(* (rings, pointers, status counts, valid bits) is an implementation       *)
(* matter of StoreBuffer.tla.                                              *)
(***************************************************************************)
EXTENDS Naturals, Sequences

CONSTANTS Store,         \* the requests a store unit can put in the queue
          DEPTH_SPEC,    \* capacity of the speculative part
          DEPTH_COMMIT   \* capacity of the committed part

VARIABLES speculative, committed

vars == << speculative, committed >>

Init == /\ speculative = << >>
        /\ committed = << >>

(***************************************************************************)
(* One clock cycle.  `push' is the sequence of the stores that arrive (none*)
(* or one), `commit' moves the oldest speculative store to the committed   *)
(* part, `flush' forgets the speculative stores and `drain' hands the      *)
(* oldest committed store to the cache.                                    *)
(***************************************************************************)
Cycle(push, commit, flush, drain) ==
  /\ commit => /\ speculative # << >>
               /\ Len(committed) < DEPTH_COMMIT
               /\ ~flush
  /\ drain => committed # << >>
  /\ push # << >> => Len(speculative) < DEPTH_SPEC
  /\ speculative' =
       IF flush THEN << >>
       ELSE (IF commit THEN Tail(speculative) ELSE speculative) \o push
  /\ committed' =
       (IF drain THEN Tail(committed) ELSE committed)
         \o (IF commit THEN << Head(speculative) >> ELSE << >>)

Next == \E push \in {<< >>} \union {<< s >> : s \in Store} :
          \E commit, flush, drain \in BOOLEAN : Cycle(push, commit, flush, drain)

Spec == Init /\ [][Next]_vars
=============================================================================
