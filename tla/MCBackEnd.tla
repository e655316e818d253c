------------------------------ MODULE MCBackEnd -----------------------------
(***************************************************************************)
(* Instances of the pipeline for TLC: the programs, each a choice of the   *)
(* kinds of instructions that meet in it.                                  *)
(***************************************************************************)
EXTENDS BackEnd

MCInstr == [kind : Kinds, rd : 0 .. 1, wrong : BOOLEAN, good : BOOLEAN]

Runs(kinds, faults) == [kinds |-> kinds, faults |-> faults, superscalar |-> FALSE]

Dual(kinds) == [kinds |-> kinds, faults |-> FALSE, superscalar |-> TRUE]

\* single issue
Stores  == Runs({"store", "fence", "csr", "trap"}, TRUE)
Faults  == Runs({"load"}, TRUE)
Atomics == Runs({"amo", "sfence", "trap"}, FALSE)
Flu     == Runs({"alu", "mul", "div", "csr"}, FALSE)

MCScalar == {Stores, Faults, Atomics, Flu}

\* dual issue
MCDual == {Dual({"alu", "branch"}), Dual({"mul", "branch"})}

MCPrograms == MCScalar \union MCDual

\* all the units that wait for one another
MCContention == {Runs({"load", "amo", "csr", "div"}, FALSE)}

\* the program that takes an operand from a CSR instruction
MCSfence == {Runs({"csr", "sfence"}, FALSE)}
=============================================================================
