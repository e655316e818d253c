---------------------------- MODULE WtDcachePkg -----------------------------
(***************************************************************************)
(* What the parts of the write-through data cache share.  A word has a     *)
(* line and a place in it; all lines compete for the ways of one set.      *)
(*                                                                         *)
(* Data is not modelled by value.  Every copy of a byte (in a way, in      *)
(* memory, in a message) either is current, i.e. what the core stored      *)
(* there last, or is not; a copy of a copy is as current as the original,  *)
(* and a store makes all copies but the one in the write buffer outdated.  *)
(***************************************************************************)
EXTENDS Integers, Sequences, FiniteSetsExt

CONSTANTS Word,      \* records [line, off]
          NrBytes,   \* bytes of a word
          Way,       \* ways of the set
          Cacheable, \* lines in cacheable regions
          None

ASSUME DcacheAssumption ==
  /\ NrBytes \in Nat \ {0}
  /\ Way \subseteq Nat /\ Way # {}
  /\ None \notin Nat /\ None \notin Word

Byte == 0 .. NrBytes - 1
Line == {w.line : w \in Word}
Cell == Word \X Byte

Cells(w, be) == {w} \X be
LineCells(l) == {c \in Cell : c[1].line = l}
BytesOf(w, cells) == {b \in Byte : <<w, b>> \in cells}
=============================================================================
