-------------------------------- MODULE Lists --------------------------------
(***************************************************************************)
(* Lists as scripts use them: loops that collect, filter or fold.          *)
(***************************************************************************)
EXTENDS Integers, Sequences, SequencesExt

IsList(s) == s \in Seq(Range(s))

\* what F gives for each member, one after the other
Each(list, F(_)) == FlattenSeq([n \in DOMAIN list |-> F(list[n])])

\* the members that T holds of, in their order
Those(list, T(_)) == Each(list, LAMBDA x : IF T(x) THEN << x >> ELSE << >>)

\* a loop over the list that changes state in every round
Loop(Round(_, _), start, list) ==
  LET after[n \in 0 .. Len(list)] == IF n = 0 THEN start ELSE Round(after[n - 1], list[n])
  IN  after[Len(list)]
=============================================================================
