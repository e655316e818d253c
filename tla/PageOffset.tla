----------------------------- MODULE PageOffset -----------------------------
(***************************************************************************)
(* The addresses of the load-store unit: bits [11:3], the ones the address *)
(* checker of the store buffer compares.                                   *)
(***************************************************************************)
CONSTANT Word

ASSUME WordAssumption == Word # {}
=============================================================================
