---------------------------- MODULE MCRegression ----------------------------
(***************************************************************************)
(* Instances of the regression runner for TLC: a package, the test lists   *)
(* and the command lines that meet.                                        *)
(***************************************************************************)
EXTENDS Regression

\* XLEN reaches two fields, one of them over a second localparam
MCBase == << param("CVA6ConfigXlen", "32"), param("Xlen", "CVA6ConfigXlen"), param("CVA6ConfigF", "0"),
             cfg("XLEN", "unsigned", "CVA6ConfigXlen"), cfg("VLEN", "", "Xlen"),
             cfg("RVF", "bit", "CVA6ConfigF"), cfg("RVS", "bit", "1") >>

entry(test, iterations, fields, needs) ==
  [import |-> "", test |-> test, iterations |-> iterations, fields |-> fields, needs |-> needs,
   file |-> [name |-> test, ext |-> "S", exists |-> TRUE]]

import(list) == [import |-> list, test |-> "", iterations |-> 0, fields |-> {}, needs |-> << >>,
                 file |-> [name |-> "", ext |-> "S", exists |-> FALSE]]

Common   == {"gcc_opts", "path_var"}
Directed == Common \union {"asm_tests"}
Random   == Common \union {"gen_test"}

MCTestLists ==
  [main |-> << import("isa"), entry("random", 3, Random, << >>), entry("skipped", 0, Random, << >>) >>,
   isa  |-> << entry("add64", 1, Directed, << << "VLEN", "64" >> >>), entry("fadd", 1, Directed, << << "RVF", "1" >>, << "XLEN", "64" >> >>),
               entry("quiet", 1, {"gen_test", "no_iss"}, << >>) >>,
   c    |-> << entry("add32", 1, Directed, << >>), entry("hello", 1, Common \union {"c_tests"}, << >>) >>,
   csr  |-> << entry("riscv_csr_test", 1, {}, << >>) >>,
   bad  |-> << entry("two", 1, Directed \union {"gen_test"}, << >>), entry("bare", 1, {"asm_tests"}, << >>) >>]

A == [target |-> "cv32a65x", changes |-> << >>, iss |-> << "spike" >>, steps |-> Steps,
      test |-> {}, testlist |-> "main", iterations |-> 0, batch_size |-> 0, gen_sv_seed |-> 0,
      seed |-> None, start_seed |-> None, seed_yaml |-> FALSE, co |-> FALSE, so |-> FALSE,
      simulator |-> "vcs", c_tests |-> << >>, elf_tests |-> << >>, asm_tests |-> << >>]

Both == << "veri", "spike" >>
set(how, name, value) == [how |-> how, name |-> name, value |-> value]
file(name, ext, exists) == [name |-> name, ext |-> ext, exists |-> exists]

Batches == [A EXCEPT !.test = {"random"}, !.batch_size = 2, !.start_seed = 1]
Hw      == [A EXCEPT !.target = "hwconfig", !.testlist = "isa", !.test = {"add64", "fadd"}, !.iss = << "veri" >>]

MCInvocations ==
  { Batches, [Batches EXCEPT !.seed_yaml = TRUE, !.start_seed = 7],
    [Batches EXCEPT !.start_seed = None, !.steps = {"gen"}],
    [A EXCEPT !.test = {"random"}, !.iterations = 2, !.iss = Both],
    [A EXCEPT !.test = {"random"}, !.seed = 3, !.iss = Both],
    [A EXCEPT !.seed = 3, !.start_seed = 4],
    [Batches EXCEPT !.seed = 3, !.start_seed = None],
    [Hw EXCEPT !.changes = << set("", "XLEN", "64") >>],
    [Hw EXCEPT !.changes = << set("", "RVF", "1"), set("", "VLEN", "64"), set("", "RVS", "0") >>],
    [Hw EXCEPT !.changes = << set("*", "RVF", "1"), set("+", "CVA6ConfigXlen", "64") >>],
    [Hw EXCEPT !.changes = << set("", "RVX", "1") >>],
    [A EXCEPT !.testlist = "isa"],
    [A EXCEPT !.testlist = "isa", !.test = {"quiet"}, !.iss = Both],
    [A EXCEPT !.testlist = "c", !.iss = Both, !.gen_sv_seed = 2],
    [A EXCEPT !.testlist = "c", !.iss = Both], [A EXCEPT !.testlist = "isa", !.test = {"quiet"}, !.iss = << "xrun", "spike" >>],
    [A EXCEPT !.testlist = "csr"],
    [A EXCEPT !.testlist = "bad", !.test = {"two"}], [A EXCEPT !.testlist = "bad", !.test = {"bare"}],
    [A EXCEPT !.co = TRUE], [A EXCEPT !.co = TRUE, !.so = TRUE],
    [A EXCEPT !.c_tests = << file("hello", "c", TRUE), file("gone", "c", FALSE) >>],
    [A EXCEPT !.elf_tests = << file("ready", "o", TRUE) >>, !.iss = Both, !.asm_tests = << file("x", "S", TRUE) >>],
    [A EXCEPT !.asm_tests = << file("program", "elf", TRUE) >>],
    [A EXCEPT !.test = {"random"}, !.simulator = "unknown"], [A EXCEPT !.iss = << "veri", "unknown" >>],
    [A EXCEPT !.target = "unknown"] }

\* three instructions with a branch among them, and a trap handled before the end
MCMeaning(p) ==
  << ex("0x80000000", "li", << "a0:1" >>) >>
    \o (IF p[1] = "source" THEN << ex("0x80000004", "csrw", << Trap >>) >> ELSE << ex("0x80000004", "bnez", << >>) >>)
    \o << ex("0x80000008", "addi", << "a1:2" >>), ex("0x8000000c", "ecall", << >>), ex("0x80000100", "li", << "a0:7" >>) >>

Debug == << ex("0x800", "j", << >>), ex("0x804", "csrr", << "s0:0" >>), ex("0x808", "illegal", << Trap >>), ex("0x890", "dret", << >>) >>

Insert(s, i, t) == SubSeq(s, 1, i) \o t \o SubSeq(s, i + 1, Len(s))

\* as prescribed, with a visit of the debugger, a wrong value, a write lost, and a
\* difference behind the ecall
MCOutcomes(e) == {e, Insert(e, 1, Debug), Insert(e, 3, Debug),
                  [e EXCEPT ![3].effects = << "a1:3" >>], [e EXCEPT ![1].effects = << >>], SubSeq(e, 1, 4)}

\* what the theorems about the runner assume holds here
ASSUME MCHypotheses ==
  /\ \E rank \in [DOMAIN TestLists -> 0 .. 1] : ImportsFall(rank)
  /\ OneSizePerTest /\ DirectedEntries /\ NamesApart
  /\ \A p \in {<< "source", "add64" >>, << "generated", "random", 11, 0 >>, << "csr", 12, 0 >>} : PlainExecution(p)
  /\ Package(Base) /\ \E rank \in [DOMAIN params(Base) -> 0 .. 1] : Falls(params(Base), rank)
  /\ \A a \in Invocations : Changes(a.changes) /\ Literals(Base, a.changes)
=============================================================================
