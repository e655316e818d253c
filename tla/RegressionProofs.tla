-------------------------- MODULE RegressionProofs --------------------------
(***************************************************************************)
(* Proofs about the regression runner: for any number of invocations, all  *)
(* test lists, command lines, configurations and behaviours of the         *)
(* simulators, tandem reports are those of the last simulation, a rerun    *)
(* generates the same programs, the tests that were selected are run, logs *)
(* tell what was executed, and verdicts are about it.                      *)
(***************************************************************************)
EXTENDS Regression, UserConfigProofs

-----------------------------------------------------------------------------
(***************************************************************************)
(* Tandem reports.                                                         *)
(***************************************************************************)
\* A simulation that failed is the last command of its invocation, so nothing
\* writes its report again before the next invocation forgets it.
FailureIsLast == \A r \in ran : ~r.ok => status # "running"

ReportInv == TandemReportsAreOwn /\ FailureIsLast

-----------------------------------------------------------------------------
\* ReportInv before the first command.
LEMMA ReportInvInit == RegressionInit => ReportInv
  BY DEF RegressionInit, ReportInv, TandemReportsAreOwn, FailureIsLast

\* Every command but a simulation leaves the reports alone.
LEMMA OtherCommandsInv ==
  ASSUME ReportInv,
         \/ StartIteration \/ Finish \/ GiveUp
         \/ CompileDirected \/ Compare \/ Summarize
         \/ RunCmd \/ CsrTest \/ GenerateBatch \/ SaveSeeds \/ Gcc
  PROVE  ReportInv'
<1>1. UNCHANGED << reports, ran >> /\ status = "running"
  BY DEF StartIteration, Finish, GiveUp, CompileDirected, Compare, Summarize, RunCmd, CsrTest,
         GenerateBatch, SaveSeeds, Gcc, outdir, ghosts, Do
<1> QED
  BY <1>1 DEF ReportInv, TandemReportsAreOwn, FailureIsLast

\* A simulation that does not come to its end leaves the initial report.
LEMMA SimulateInv ==
  ASSUME ReportInv, Simulate
  PROVE  ReportInv'
<1> DEFINE c    == Head(todo)
           pair == Tandem /\ c.iss # "spike"
           run(ok) == [iss |-> c.iss, log |-> c.log, yaml |-> c.yaml, k |-> iteration, ok |-> ok]
<1>1. status = "running" /\ \A r \in ran : r.ok
  BY DEF Simulate, Do, ReportInv, FailureIsLast
<1>2. \/ ran' = ran \union {run(TRUE)}
      \/ /\ ran' = ran \union {run(FALSE)} /\ status' = "failed"
         /\ reports' = IF pair THEN initial_report(c) ELSE reports
  BY DEF Simulate, Exit
<1>3. CASE ran' = ran \union {run(TRUE)}
  BY <1>1, <1>3 DEF ReportInv, TandemReportsAreOwn, FailureIsLast
<1>4. CASE /\ ran' = ran \union {run(FALSE)} /\ status' = "failed"
           /\ reports' = IF pair THEN initial_report(c) ELSE reports
  <2>1. FailureIsLast'
    BY <1>4 DEF FailureIsLast
  <2>2. ASSUME pair
        PROVE  /\ << c.iss, c.yaml >> \in DOMAIN reports'
               /\ reports'[<< c.iss, c.yaml >>] = UNKNOWN
    BY <1>4, <2>2 DEF initial_report, report_written, put, single
  <2>3. TandemReportsAreOwn'
    BY <1>1, <1>4, <2>2 DEF TandemReportsAreOwn
  <2> QED
    BY <2>1, <2>3 DEF ReportInv
<1> QED
  BY <1>2, <1>3, <1>4

\* Every step preserves ReportInv.
LEMMA ReportInvStep == ReportInv /\ [RegressionNext]_vars => ReportInv'
<1>1. ASSUME ReportInv, UNCHANGED vars PROVE ReportInv'
  BY <1>1 DEF vars, process, outdir, ghosts, ReportInv, TandemReportsAreOwn, FailureIsLast
<1>2. ASSUME ReportInv, Invoke PROVE ReportInv'
  <2>1. ran' = {}
    BY <1>2 DEF Invoke
  <2> QED
    BY <2>1 DEF ReportInv, TandemReportsAreOwn, FailureIsLast
<1>3. ASSUME ReportInv, RegressionNext PROVE ReportInv'
  BY <1>2, <1>3, OtherCommandsInv, SimulateInv DEF RegressionNext
<1> QED
  BY <1>1, <1>3

-----------------------------------------------------------------------------
\* verif/sim/cva6.py, generate_yaml_report before and after a simulation: after
\* one that failed or hit its timeout there is a report, and it is not that of
\* an earlier simulation.
THEOREM TandemReportsOwn == RegressionSpec => []TandemReportsAreOwn
<1>1. ReportInv => TandemReportsAreOwn
  BY DEF ReportInv
<1> QED
  BY <1>1, ReportInvInit, ReportInvStep, PTL DEF RegressionSpec

-----------------------------------------------------------------------------
(***************************************************************************)
(* The test list.                                                          *)
(***************************************************************************)
\* Found, taken apart
Chosen(a, e) == (a.test = {} \/ e.test \in a.test) /\ e.iterations > 0

With(a, e) == IF a.iterations > 0 THEN [e EXCEPT !.iterations = a.iterations] ELSE e

Part(a, f, e) ==
  CASE e.import # ""                     -> f[e.import]
    [] e.import = "" /\ Chosen(a, e)     -> << With(a, e) >>
    [] e.import = "" /\ ~Chosen(a, e)    -> << >>

Parts(a, f, l) == [i \in DOMAIN TestLists[l] |-> Part(a, f, TestLists[l][i])]

Searched(a, f, l) == FlattenSeq(Parts(a, f, l))

\* what Found takes from the lists
Picked(a, e) ==
  \E l \in DOMAIN TestLists : \E d \in Range(TestLists[l]) :
    d.import = "" /\ Chosen(a, d) /\ e = With(a, d)

\* Imports are looked at in the lists below only.
LEMMA SearchedBelow ==
  ASSUME NEW a, NEW f, NEW g, NEW l,
         \A e \in Range(TestLists[l]) : e.import # "" => f[e.import] = g[e.import]
  PROVE  Searched(a, f, l) = Searched(a, g, l)
<1>1. ASSUME NEW i \in DOMAIN TestLists[l]
      PROVE  Part(a, f, TestLists[l][i]) = Part(a, g, TestLists[l][i])
  <2>1. TestLists[l][i] \in Range(TestLists[l])
    BY DEF Range
  <2>2. CASE TestLists[l][i].import # ""
    BY <2>1, <2>2 DEF Part
  <2>3. CASE TestLists[l][i].import = ""
    BY <2>3 DEF Part
  <2> QED
    BY <2>2, <2>3
<1>2. Parts(a, f, l) = Parts(a, g, l)
  BY <1>1 DEF Parts
<1> QED
  BY <1>2 DEF Searched

\* There is a function from the lists to what is found in them.
LEMMA FoundExists ==
  ASSUME NEW a, ImportsEnd
  PROVE  \E f : f = [l \in DOMAIN TestLists |-> Searched(a, f, l)]
<1>0. PICK depth \in Nat : \E rank \in [DOMAIN TestLists -> 0 .. depth] : ImportsFall(rank)
  BY DEF ImportsEnd
<1>1. PICK rank \in [DOMAIN TestLists -> 0 .. depth] : ImportsFall(rank)
  BY <1>0
<1> DEFINE Low(n) == {l \in DOMAIN TestLists : rank[l] < n}
           Bad == {n \in Nat : ~\E f : f = [l \in Low(n) |-> Searched(a, f, l)]}
<1>2. Bad = {}
  <2>1. SUFFICES ASSUME Bad # {} PROVE FALSE
    OBVIOUS
  <2>2. PICK n \in Bad : \A m \in Bad : n <= m
    <3>1. Bad \subseteq Nat
      OBVIOUS
    <3> QED
      BY <2>1, <3>1, LeastOf
  <2>3. n # 0
    <3> DEFINE f == [l \in Low(0) |-> 0]
    <3>1. Low(0) = {}
      BY <1>1
    <3>2. f = [l \in Low(0) |-> Searched(a, f, l)]
      BY <3>1
    <3> QED
      BY <2>2, <3>2
  <2>4. n - 1 \in Nat /\ n - 1 \notin Bad
    BY <2>2, <2>3
  <2>5. PICK f : f = [l \in Low(n - 1) |-> Searched(a, f, l)]
    BY <2>4
  <2>6. PICK g : g = [l \in Low(n) |-> Searched(a, f, l)]
    OBVIOUS
  <2>7. ASSUME NEW l \in Low(n) PROVE Searched(a, f, l) = Searched(a, g, l)
    <3>1. ASSUME NEW e \in Range(TestLists[l]), e.import # ""
          PROVE  f[e.import] = g[e.import]
      <4>1. e.import \in DOMAIN TestLists /\ rank[e.import] < rank[l]
        BY <1>1, <3>1, RegressionAssumption DEF Entry, ImportsFall
      <4>2. e.import \in Low(n - 1) /\ e.import \in Low(n)
        BY <1>1, <2>4, <4>1
      <4> QED
        BY <2>5, <2>6, <4>2
    <3>2. \A e \in Range(TestLists[l]) : e.import # "" => f[e.import] = g[e.import]
      BY <3>1
    <3> HIDE DEF Low, Bad
    <3>3. (\A e \in Range(TestLists[l]) : e.import # "" => f[e.import] = g[e.import])
            => Searched(a, f, l) = Searched(a, g, l)
      BY SearchedBelow
    <3> QED
      BY <3>2, <3>3
  <2>8. g = [l \in Low(n) |-> Searched(a, g, l)]
    BY <2>6, <2>7
  <2> QED
    BY <2>2, <2>8
<1>3. PICK f : f = [l \in Low(depth + 1) |-> Searched(a, f, l)]
  <2> HIDE DEF Low
  <2>1. depth + 1 \notin Bad
    BY <1>2, Zenon
  <2> QED
    BY <2>1
<1>4. Low(depth + 1) = DOMAIN TestLists
  BY <1>1
<1> QED
  BY <1>3, <1>4

\* openhw_process_regression_list gives a list of entries that were selected.
LEMMA FoundPicks ==
  ASSUME NEW a, ImportsEnd, a.testlist \in DOMAIN TestLists
  PROVE  IsList(Found(a)) /\ \A e \in Range(Found(a)) : Picked(a, e)
<1> DEFINE f == CHOOSE f : f = [l \in DOMAIN TestLists |-> Searched(a, f, l)]
<1>1. Found(a) = f[a.testlist]
  BY DEF Found, Searched, Parts, Part, Chosen, With
<1>2. f = [l \in DOMAIN TestLists |-> Searched(a, f, l)]
  BY FoundExists
<1> HIDE DEF f
<1>0. PICK depth \in Nat : \E rank \in [DOMAIN TestLists -> 0 .. depth] : ImportsFall(rank)
  BY DEF ImportsEnd
<1>3. PICK rank \in [DOMAIN TestLists -> 0 .. depth] : ImportsFall(rank)
  BY <1>0
<1> DEFINE Right(l) == IsList(f[l]) /\ \A e \in Range(f[l]) : Picked(a, e)
           Bad == {n \in Nat : \E l \in DOMAIN TestLists : rank[l] = n /\ ~Right(l)}
<1>4. Bad = {}
  <2>1. SUFFICES ASSUME Bad # {} PROVE FALSE
    OBVIOUS
  <2>2. PICK n \in Bad : \A m \in Bad : n <= m
    <3>1. Bad \subseteq Nat
      OBVIOUS
    <3> QED
      BY <2>1, <3>1, LeastOf
  <2>3. PICK l \in DOMAIN TestLists : rank[l] = n /\ ~Right(l)
    BY <2>2
  <2>4. \A m \in DOMAIN TestLists : rank[m] < rank[l] => Right(m)
    <3>1. \A m \in DOMAIN TestLists : rank[m] \in Nat
      BY <1>3
    <3> HIDE DEF Right
    <3> QED
      BY <2>2, <2>3, <3>1
  <2>5. ASSUME NEW i \in DOMAIN TestLists[l]
        PROVE  /\ IsList(Parts(a, f, l)[i])
               /\ \A e \in Range(Parts(a, f, l)[i]) : Picked(a, e)
    <3> DEFINE d == TestLists[l][i]
    <3>1. d \in Range(TestLists[l]) /\ Entry(d) /\ Parts(a, f, l)[i] = Part(a, f, d)
      BY RegressionAssumption DEF Range, Parts
    <3>2. CASE d.import # ""
      <4>1. d.import \in DOMAIN TestLists /\ rank[d.import] < rank[l]
        BY <1>3, <3>1, <3>2 DEF Entry, ImportsFall
      <4>2. Part(a, f, d) = f[d.import]
        BY <3>2 DEF Part
      <4> QED
        BY <2>4, <3>1, <4>1, <4>2
    <3>3. CASE d.import = "" /\ Chosen(a, d)
      <4>1. Parts(a, f, l)[i] = << With(a, d) >> /\ Picked(a, With(a, d))
        BY <3>1, <3>3 DEF Part, Picked
      <4> QED
        BY <4>1, ShortLists
    <3>4. CASE d.import = "" /\ ~Chosen(a, d)
      <4>1. Parts(a, f, l)[i] = << >>
        BY <3>1, <3>4 DEF Part
      <4> QED
        BY <4>1, ShortLists
    <3> QED
      BY <3>2, <3>3, <3>4
  <2>6. /\ IsList(Searched(a, f, l))
        /\ Range(Searched(a, f, l)) = UNION {Range(Parts(a, f, l)[i]) : i \in DOMAIN TestLists[l]}
    <3>1. IsList(TestLists[l]) /\ Parts(a, f, l) = [i \in DOMAIN TestLists[l] |-> Parts(a, f, l)[i]]
      BY RegressionAssumption DEF Parts
    <3> QED
      BY <2>5, <3>1, EachRange DEF Searched
  <2>7. f[l] = Searched(a, f, l)
    BY <1>2
  <2> QED
    BY <2>3, <2>5, <2>6, <2>7
<1>5. Right(a.testlist)
  <2>1. rank[a.testlist] \in Nat
    BY <1>3
  <2> HIDE DEF Right
  <2> QED
    BY <1>4, <2>1
<1> QED
  BY <1>1, <1>5

-----------------------------------------------------------------------------
(***************************************************************************)
(* The commands of an iteration: what it simulates, what it generates, and *)
(* whether it comes to its end.                                            *)
(***************************************************************************)
Sims(s)    == {<< c.iss, c.log >> : c \in {d \in Range(s) : d.op = "simulate"}}
Gens(s)    == {c \in Range(s) : c.op = "generate"}
Crashes(s) == {c \in Range(s) : c.op = "crash"}

\* what is known of the options after parse_args
Options(a) ==
  /\ a.testlist \in DOMAIN TestLists
  /\ {a.iterations, a.batch_size, a.gen_sv_seed} \subseteq Nat
  /\ IsList(a.iss) /\ IsList(a.c_tests) /\ IsList(a.elf_tests) /\ IsList(a.asm_tests)

\* A list without commands.
LEMMA NoCommands == IsList(<< >>) /\ Sims(<< >>) = {} /\ Gens(<< >>) = {} /\ Crashes(<< >>) = {}
  BY ShortLists DEF Sims, Gens, Crashes

\* A list with one command.
LEMMA OneCommand ==
  ASSUME NEW c
  PROVE  /\ IsList(<< c >>)
         /\ Sims(<< c >>) = IF c.op = "simulate" THEN {<< c.iss, c.log >>} ELSE {}
         /\ Gens(<< c >>) = IF c.op = "generate" THEN {c} ELSE {}
         /\ Crashes(<< c >>) = IF c.op = "crash" THEN {c} ELSE {}
<1>1. IsList(<< c >>) /\ Range(<< c >>) = {c}
  BY ShortLists
<1> QED
  BY <1>1 DEF Sims, Gens, Crashes

\* Commands one after the other.
LEMMA MoreCommands ==
  ASSUME NEW s, NEW t, IsList(s), IsList(t)
  PROVE  /\ IsList(s \o t)
         /\ Sims(s \o t) = Sims(s) \union Sims(t)
         /\ Gens(s \o t) = Gens(s) \union Gens(t)
         /\ Crashes(s \o t) = Crashes(s) \union Crashes(t)
<1>1. IsList(s \o t) /\ Range(s \o t) = Range(s) \union Range(t)
  BY Concat
<1> QED
  BY <1>1 DEF Sims, Gens, Crashes

\* Commands for every member of a list.
LEMMA EachCommands ==
  ASSUME NEW list, IsList(list), NEW ss, ss = [n \in DOMAIN list |-> ss[n]],
         \A n \in DOMAIN list : IsList(ss[n])
  PROVE  /\ IsList(FlattenSeq(ss))
         /\ Sims(FlattenSeq(ss)) = UNION {Sims(ss[n]) : n \in DOMAIN list}
         /\ Gens(FlattenSeq(ss)) = UNION {Gens(ss[n]) : n \in DOMAIN list}
         /\ Crashes(FlattenSeq(ss)) = UNION {Crashes(ss[n]) : n \in DOMAIN list}
<1>1. IsList(FlattenSeq(ss)) /\ Range(FlattenSeq(ss)) = UNION {Range(ss[n]) : n \in DOMAIN list}
  BY EachRange
<1>2. Sims(FlattenSeq(ss)) = UNION {Sims(ss[n]) : n \in DOMAIN list}
  BY <1>1 DEF Sims
<1>3. Gens(FlattenSeq(ss)) = UNION {Gens(ss[n]) : n \in DOMAIN list}
  BY <1>1 DEF Gens
<1>4. Crashes(FlattenSeq(ss)) = UNION {Crashes(ss[n]) : n \in DOMAIN list}
  BY <1>1 DEF Crashes
<1> QED
  BY <1>1, <1>2, <1>3, <1>4

\* A command for every index.
LEMMA MapCommands ==
  ASSUME NEW n \in Nat, NEW f, f = [i \in 1 .. n |-> f[i]]
  PROVE  /\ IsList(f)
         /\ \A x : x \in Sims(f) <=> \E i \in 1 .. n : f[i].op = "simulate" /\ x = << f[i].iss, f[i].log >>
         /\ \A x : x \in Gens(f) <=> \E i \in 1 .. n : f[i].op = "generate" /\ x = f[i]
<1>1. IsList(f) /\ Range(f) = {f[i] : i \in 1 .. n}
  BY MapList
<1> QED
  BY <1>1 DEF Sims, Gens, Crashes

\* An exception in the code that prepares an iteration.
LEMMA CrashCommand == IsList(Crash) /\ Sims(Crash) = {} /\ Gens(Crash) = {} /\ Crashes(Crash) # {}
<1>1. PICK c : c = [op |-> "crash"]
  OBVIOUS
<1>2. Crash = << c >> /\ c.op = "crash"
  BY <1>1 DEF Crash
<1> QED
  BY <1>2, OneCommand

\* A simulator without an entry in its YAML file ends the invocation.
LEMMA KnownSimulators ==
  ASSUME NEW iss, NEW s, IsList(s)
  PROVE  /\ IsList(parse_iss_yaml(iss, s))
         /\ Gens(parse_iss_yaml(iss, s)) \subseteq Gens(s)
         /\ Crashes(parse_iss_yaml(iss, s)) = {} => parse_iss_yaml(iss, s) = s
  BY CrashCommand DEF parse_iss_yaml

\* A directed test: it is simulated on every simulator, under the log of the test.
LEMMA DirectedCommands ==
  ASSUME NEW a, Options(a), NEW k, NEW file, NEW name
  PROVE  /\ IsList(run_test(a, k, file, name)) /\ Gens(run_test(a, k, file, name)) = {}
         /\ Crashes(run_test(a, k, file, name)) = {} =>
              Sims(run_test(a, k, file, name)) = {<< iss, log_of_test(a, name, k) >> : iss \in Range(a.iss)}
<1> DEFINE e   == IF file.ext = "o" THEN << "given", file.name >> ELSE << "directed_tests", file.name >>
           log == log_of_test(a, name, k)
           sim(iss) == simulation(iss, e, log, << name, NoIndex, a.target >>)
           compile == IF file.ext = "o" THEN << >> ELSE << [op |-> "compile_directed", elf |-> e, file |-> file] >>
           ss  == [n \in DOMAIN a.iss |-> parse_iss_yaml(a.iss[n], << sim(a.iss[n]) >>)]
           compare == IF Len(a.iss) = 2 THEN << comparison(e, log) >> ELSE << >>
<1>1. run_test(a, k, file, name) = (compile \o FlattenSeq(ss)) \o compare
  BY DEF run_test, Each
<1>2. IsList(compile) /\ Sims(compile) = {} /\ Gens(compile) = {}
  <2>1. PICK c : c = [op |-> "compile_directed", elf |-> e, file |-> file]
    OBVIOUS
  <2>2. c.op = "compile_directed" /\ compile \in {<< >>, << c >>}
    BY <2>1
  <2> HIDE DEF compile
  <2> QED
    BY <2>2, NoCommands, OneCommand
<1>3. IsList(compare) /\ Sims(compare) = {} /\ Gens(compare) = {}
  <2>1. PICK c : c = comparison(e, log)
    OBVIOUS
  <2>2. c.op = "compare" /\ compare \in {<< >>, << c >>}
    BY <2>1 DEF comparison
  <2> HIDE DEF compare
  <2> QED
    BY <2>2, NoCommands, OneCommand
<1>4. ASSUME NEW n \in DOMAIN a.iss
      PROVE  /\ IsList(ss[n]) /\ Gens(ss[n]) = {}
             /\ Crashes(ss[n]) = {} => Sims(ss[n]) = {<< a.iss[n], log >>}
  <2>1. PICK c : c = sim(a.iss[n])
    OBVIOUS
  <2>2. c.op = "simulate" /\ c.iss = a.iss[n] /\ c.log = log /\ ss[n] = parse_iss_yaml(a.iss[n], << c >>)
    BY <2>1 DEF simulation
  <2> HIDE DEF ss, log
  <2>3. IsList(<< c >>) /\ Gens(<< c >>) = {} /\ Sims(<< c >>) = {<< a.iss[n], log >>}
    BY <2>2, OneCommand
  <2> QED
    BY <2>2, <2>3, KnownSimulators
<1>5. /\ IsList(FlattenSeq(ss)) /\ Gens(FlattenSeq(ss)) = {}
      /\ Crashes(FlattenSeq(ss)) = {} =>
           Sims(FlattenSeq(ss)) = {<< iss, log >> : iss \in Range(a.iss)}
  <2>1. IsList(a.iss) /\ ss = [n \in DOMAIN a.iss |-> ss[n]]
    BY DEF Options
  <2> HIDE DEF ss, log
  <2>2. /\ IsList(FlattenSeq(ss))
        /\ Sims(FlattenSeq(ss)) = UNION {Sims(ss[n]) : n \in DOMAIN a.iss}
        /\ Gens(FlattenSeq(ss)) = UNION {Gens(ss[n]) : n \in DOMAIN a.iss}
        /\ Crashes(FlattenSeq(ss)) = UNION {Crashes(ss[n]) : n \in DOMAIN a.iss}
    BY <1>4, <2>1, EachCommands
  <2>3. Gens(FlattenSeq(ss)) = {}
    BY <1>4, <2>2
  <2>4. ASSUME Crashes(FlattenSeq(ss)) = {}
        PROVE  Sims(FlattenSeq(ss)) = {<< iss, log >> : iss \in Range(a.iss)}
    <3>1. \A n \in DOMAIN a.iss : Sims(ss[n]) = {<< a.iss[n], log >>}
      BY <1>4, <2>2, <2>4
    <3>2. UNION {Sims(ss[n]) : n \in DOMAIN a.iss} = UNION {{<< a.iss[n], log >>} : n \in DOMAIN a.iss}
      BY <3>1
    <3>3. UNION {{<< a.iss[n], log >>} : n \in DOMAIN a.iss} = {<< iss, log >> : iss \in Range(a.iss)}
      BY DEF Range
    <3> QED
      BY <2>2, <3>2, <3>3
  <2> QED
    BY <2>2, <2>3, <2>4
<1> HIDE DEF compile, compare, ss, log
<1>6. /\ IsList(compile \o FlattenSeq(ss))
      /\ Sims(compile \o FlattenSeq(ss)) = Sims(FlattenSeq(ss))
      /\ Gens(compile \o FlattenSeq(ss)) = {}
      /\ Crashes(FlattenSeq(ss)) \subseteq Crashes(compile \o FlattenSeq(ss))
  BY <1>2, <1>5, MoreCommands
<1>7. /\ IsList((compile \o FlattenSeq(ss)) \o compare)
      /\ Sims((compile \o FlattenSeq(ss)) \o compare) = Sims(FlattenSeq(ss))
      /\ Gens((compile \o FlattenSeq(ss)) \o compare) = {}
      /\ Crashes(FlattenSeq(ss)) \subseteq Crashes((compile \o FlattenSeq(ss)) \o compare)
  BY <1>3, <1>6, MoreCommands
<1>8. log = log_of_test(a, name, k)
  BY DEF log
<1> QED
  BY <1>1, <1>5, <1>7, <1>8

\* A directed test whose file can be used.
LEMMA OneTestCommands ==
  ASSUME NEW a, Options(a), NEW k, NEW file, NEW name
  PROVE  /\ IsList(one_test(a, k, file, name)) /\ Gens(one_test(a, k, file, name)) = {}
         /\ Crashes(one_test(a, k, file, name)) = {} =>
              Sims(one_test(a, k, file, name)) = {<< iss, log_of_test(a, name, k) >> : iss \in Range(a.iss)}
<1>1. one_test(a, k, file, name) \in {run_test(a, k, file, name), Crash}
  BY DEF one_test
<1> QED
  BY <1>1, DirectedCommands, CrashCommand

\* commands for every member of a list, which has a name and a file
OneTests(a, k, list, ss, names) ==
  /\ ss = [n \in DOMAIN list |-> ss[n]]
  /\ \A n \in DOMAIN list : \E f : ss[n] = one_test(a, k, f, names[n])

\* the simulations of tests with these names
NamedSims(a, k, list, names) ==
  {<< iss, log_of_test(a, names[n], k) >> : n \in DOMAIN list, iss \in Range(a.iss)}

\* Directed tests, of the command line or of the test list.
LEMMA DirectedTests ==
  ASSUME NEW a, Options(a), NEW k, NEW list, IsList(list), NEW ss, NEW names,
         OneTests(a, k, list, ss, names)
  PROVE  /\ IsList(FlattenSeq(ss)) /\ Gens(FlattenSeq(ss)) = {}
         /\ Crashes(FlattenSeq(ss)) = {} =>
              Sims(FlattenSeq(ss)) = NamedSims(a, k, list, names)
<1> DEFINE logs_of(n) == {<< iss, log_of_test(a, names[n], k) >> : iss \in Range(a.iss)}
<1>1. \A n \in DOMAIN list : /\ IsList(ss[n]) /\ Gens(ss[n]) = {}
                             /\ Crashes(ss[n]) = {} => Sims(ss[n]) = logs_of(n)
  BY OneTestCommands DEF OneTests
<1>2. /\ IsList(FlattenSeq(ss))
      /\ Sims(FlattenSeq(ss)) = UNION {Sims(ss[n]) : n \in DOMAIN list}
      /\ Gens(FlattenSeq(ss)) = UNION {Gens(ss[n]) : n \in DOMAIN list}
      /\ Crashes(FlattenSeq(ss)) = UNION {Crashes(ss[n]) : n \in DOMAIN list}
  <2>1. ss = [n \in DOMAIN list |-> ss[n]]
    BY DEF OneTests
  <2> QED
    BY <1>1, <2>1, EachCommands
<1> HIDE DEF logs_of
<1>3. Gens(FlattenSeq(ss)) = {}
  BY <1>1, <1>2
<1>4. ASSUME Crashes(FlattenSeq(ss)) = {}
      PROVE  Sims(FlattenSeq(ss)) = UNION {logs_of(n) : n \in DOMAIN list}
  <2>1. \A n \in DOMAIN list : Sims(ss[n]) = logs_of(n)
    BY <1>1, <1>2, <1>4
  <2> QED
    BY <1>2, <2>1
<1>5. UNION {logs_of(n) : n \in DOMAIN list} = NamedSims(a, k, list, names)
  BY DEF logs_of, NamedSims
<1> QED
  BY <1>2, <1>3, <1>4, <1>5

\* a batch of a test for the generator
Batch(a, e, c) == e.test # "riscv_csr_test" /\ \E i \in 0 .. batches(a, e) - 1 : c = batch(a, e, i)

\* The number of batches.
LEMMA Batches ==
  ASSUME NEW a, Options(a), NEW e, e.iterations \in Nat
  PROVE  batches(a, e) \in Nat
<1>1. CASE a.batch_size = 0
  BY <1>1 DEF batches
<1>2. CASE a.batch_size # 0
  <2>1. /\ a.batch_size \in Nat \ {0} /\ e.iterations + a.batch_size - 1 \in Nat
        /\ batches(a, e) = (e.iterations + a.batch_size - 1) \div a.batch_size
    BY <1>2 DEF batches, Options
  <2> QED
    BY <2>1
<1> QED
  BY <1>1, <1>2

\* The batches of one test.
LEMMA GenerateCommands ==
  ASSUME NEW a, Options(a), NEW e, e.iterations \in Nat
  PROVE  /\ IsList(generate(a, e)) /\ Sims(generate(a, e)) = {}
         /\ \A c \in Gens(generate(a, e)) : Batch(a, e, c)
<1>1. CASE e.test = "riscv_csr_test"
  <2>1. PICK c : c = [op |-> "csr_test", iterations |-> e.iterations]
    OBVIOUS
  <2>2. c.op = "csr_test" /\ generate(a, e) = << c >>
    BY <1>1, <2>1 DEF generate
  <2> QED
    BY <2>2, OneCommand
<1>2. CASE e.test # "riscv_csr_test" /\ has(e, "gen_test")
  <2> DEFINE f == [i \in 1 .. batches(a, e) |-> batch(a, e, i - 1)]
  <2>1. generate(a, e) = f
    BY <1>2 DEF generate
  <2>2. f = [i \in 1 .. batches(a, e) |-> f[i]] /\ batches(a, e) \in Nat
    BY Batches
  <2>3. \A i \in 1 .. batches(a, e) : f[i].op = "generate" /\ f[i] = batch(a, e, i - 1)
    BY DEF batch
  <2> HIDE DEF f
  <2>4. /\ IsList(f)
        /\ \A x : x \in Sims(f) <=>
                  \E i \in 1 .. batches(a, e) : f[i].op = "simulate" /\ x = << f[i].iss, f[i].log >>
        /\ \A x : x \in Gens(f) <=> \E i \in 1 .. batches(a, e) : f[i].op = "generate" /\ x = f[i]
    BY <2>2, MapCommands
  <2>5. Sims(f) = {}
    BY <2>3, <2>4
  <2>6. \A c \in Gens(f) : Batch(a, e, c)
    BY <1>2, <2>2, <2>3, <2>4 DEF Batch
  <2> QED
    BY <2>1, <2>4, <2>5, <2>6
<1>3. CASE ~(e.test = "riscv_csr_test" \/ has(e, "gen_test"))
  <2>1. generate(a, e) = Crash
    BY <1>3 DEF generate
  <2> QED
    BY <2>1, CrashCommand
<1> QED
  BY <1>1, <1>2, <1>3

\* gen: nothing is simulated, and what is generated are batches of the tests.
LEMMA GenCommands ==
  ASSUME NEW a, Options(a), NEW list, IsList(list), \A e \in Range(list) : e.iterations \in Nat
  PROVE  /\ IsList(gen(a, list)) /\ Sims(gen(a, list)) = {}
         /\ \A c \in Gens(gen(a, list)) : \E e \in Range(list) : Batch(a, e, c)
<1> DEFINE build == IF a.so \/ (Len(list) = 1 /\ list[1].test = "riscv_csr_test") THEN << >>
                    ELSE << [op |-> "run_cmd"] >>
           ss    == [n \in DOMAIN list |-> generate(a, list[n])]
           save  == << [op |-> "save_seeds"] >>
           all   == IF a.co THEN << >> ELSE FlattenSeq(ss) \o save
<1>1. gen(a, list) \in {<< >>, (get_generator_cmd(a) \o build) \o all}
  BY DEF gen, Each
<1>2. IsList(get_generator_cmd(a)) /\ Sims(get_generator_cmd(a)) = {} /\ Gens(get_generator_cmd(a)) = {}
  BY NoCommands, CrashCommand DEF get_generator_cmd
<1>3. IsList(build) /\ Sims(build) = {} /\ Gens(build) = {}
  <2>1. PICK c : c = [op |-> "run_cmd"]
    OBVIOUS
  <2>2. c.op = "run_cmd" /\ build \in {<< >>, << c >>}
    BY <2>1
  <2> HIDE DEF build
  <2> QED
    BY <2>2, NoCommands, OneCommand
<1>4. IsList(save) /\ Sims(save) = {} /\ Gens(save) = {}
  <2>1. PICK c : c = [op |-> "save_seeds"]
    OBVIOUS
  <2>2. c.op = "save_seeds" /\ save = << c >>
    BY <2>1
  <2> HIDE DEF save
  <2> QED
    BY <2>2, OneCommand
<1>5. /\ IsList(FlattenSeq(ss)) /\ Sims(FlattenSeq(ss)) = {}
      /\ \A c \in Gens(FlattenSeq(ss)) : \E e \in Range(list) : Batch(a, e, c)
  <2>1. \A n \in DOMAIN list : /\ list[n] \in Range(list)
                               /\ IsList(ss[n]) /\ Sims(ss[n]) = {}
                               /\ \A c \in Gens(ss[n]) : Batch(a, list[n], c)
    BY GenerateCommands DEF Range
  <2>2. ss = [n \in DOMAIN list |-> ss[n]]
    OBVIOUS
  <2> HIDE DEF ss
  <2>3. /\ IsList(FlattenSeq(ss))
        /\ Sims(FlattenSeq(ss)) = UNION {Sims(ss[n]) : n \in DOMAIN list}
        /\ Gens(FlattenSeq(ss)) = UNION {Gens(ss[n]) : n \in DOMAIN list}
    BY <2>1, <2>2, EachCommands
  <2>4. Sims(FlattenSeq(ss)) = {}
    BY <2>1, <2>3
  <2>5. ASSUME NEW c \in Gens(FlattenSeq(ss)) PROVE \E e \in Range(list) : Batch(a, e, c)
    <3>1. PICK n \in DOMAIN list : c \in Gens(ss[n])
      BY <2>3
    <3> QED
      BY <2>1, <3>1
  <2> QED
    BY <2>3, <2>4, <2>5
<1> HIDE DEF build, ss, save
<1>6. IsList(FlattenSeq(ss) \o save) /\ Sims(FlattenSeq(ss) \o save) = {} /\ Gens(FlattenSeq(ss) \o save) = Gens(FlattenSeq(ss))
  <2>1. /\ IsList(FlattenSeq(ss) \o save)
        /\ Sims(FlattenSeq(ss) \o save) = Sims(FlattenSeq(ss)) \union Sims(save)
        /\ Gens(FlattenSeq(ss) \o save) = Gens(FlattenSeq(ss)) \union Gens(save)
    BY <1>4, <1>5, MoreCommands
  <2> QED
    BY <1>4, <1>5, <2>1
<1>7. IsList(all) /\ Sims(all) = {} /\ Gens(all) \subseteq Gens(FlattenSeq(ss))
  BY <1>6, NoCommands
<1> HIDE DEF all
<1>8. IsList(get_generator_cmd(a) \o build) /\ Sims(get_generator_cmd(a) \o build) = {} /\ Gens(get_generator_cmd(a) \o build) = {}
  BY <1>2, <1>3, MoreCommands
<1>9. /\ IsList((get_generator_cmd(a) \o build) \o all) /\ Sims((get_generator_cmd(a) \o build) \o all) = {}
      /\ Gens((get_generator_cmd(a) \o build) \o all) = Gens(all)
  BY <1>7, <1>8, MoreCommands
<1> QED
  BY <1>1, <1>5, <1>7, <1>9, NoCommands

\* Nothing is generated or simulated by gcc_compile.
LEMMA GccCommands ==
  ASSUME NEW list, IsList(list), \A e \in Range(list) : e.iterations \in Nat
  PROVE  IsList(gcc_compile(list)) /\ Sims(gcc_compile(list)) = {} /\ Gens(gcc_compile(list)) = {}
<1> DEFINE body(e) == IF has(e, "no_gcc") THEN << >>
                      ELSE [i \in 1 .. e.iterations |->
                              [op |-> "gcc", elf |-> asm_elf(e, i - 1), program |-> << e.test, i - 1 >>]]
           ss == [n \in DOMAIN list |-> body(list[n])]
<1>1. gcc_compile(list) = FlattenSeq(ss)
  BY DEF gcc_compile, Each, per_program
<1>2. ASSUME NEW n \in DOMAIN list PROVE IsList(ss[n]) /\ Sims(ss[n]) = {} /\ Gens(ss[n]) = {}
  <2>1. PICK e : e = list[n] /\ e.iterations \in Nat /\ ss[n] = body(e)
    BY DEF Range
  <2>2. CASE has(e, "no_gcc")
    BY <2>1, <2>2, NoCommands
  <2>3. CASE ~has(e, "no_gcc")
    <3>1. PICK k \in Nat : k = e.iterations
      BY <2>1
    <3>2. PICK f : f = [i \in 1 .. k |->
                          [op |-> "gcc", elf |-> asm_elf(e, i - 1), program |-> << e.test, i - 1 >>]]
      OBVIOUS
    <3>3. f = [i \in 1 .. k |-> f[i]] /\ ss[n] = f /\ \A i \in 1 .. k : f[i].op = "gcc"
      BY <2>1, <2>3, <3>1, <3>2
    <3> HIDE DEF ss
    <3> QED
      BY <3>3, MapCommands
  <2> QED
    BY <2>2, <2>3
<1>3. ss = [n \in DOMAIN list |-> ss[n]]
  OBVIOUS
<1> HIDE DEF ss
<1>4. /\ IsList(FlattenSeq(ss))
      /\ Sims(FlattenSeq(ss)) = UNION {Sims(ss[n]) : n \in DOMAIN list}
      /\ Gens(FlattenSeq(ss)) = UNION {Gens(ss[n]) : n \in DOMAIN list}
  BY <1>2, <1>3, EachCommands
<1> QED
  BY <1>1, <1>2, <1>4

\* the logs of the programs of a test
ProgramLogs(a, e) == {log_of_program(a, e, i) : i \in 0 .. e.iterations - 1}

\* a simulation for every index
Simulations(f, k, iss, ls) ==
  /\ f = [i \in 1 .. k |-> f[i]]
  /\ \A i \in 1 .. k : f[i].op = "simulate" /\ f[i].iss = iss /\ f[i].log = ls[i - 1]

\* What is simulated then.
LEMMA SimulationList ==
  ASSUME NEW k \in Nat, NEW f, NEW iss, NEW ls, Simulations(f, k, iss, ls)
  PROVE  IsList(f) /\ Gens(f) = {} /\ \A x : x \in Sims(f) <=> \E i \in 0 .. k - 1 : x = << iss, ls[i] >>
<1>0. /\ f = [i \in 1 .. k |-> f[i]]
      /\ \A i \in 1 .. k : f[i].op = "simulate" /\ f[i].iss = iss /\ f[i].log = ls[i - 1]
  BY DEF Simulations
<1>1. /\ IsList(f)
      /\ \A x : x \in Sims(f) <=> \E i \in 1 .. k : f[i].op = "simulate" /\ x = << f[i].iss, f[i].log >>
      /\ \A x : x \in Gens(f) <=> \E i \in 1 .. k : f[i].op = "generate" /\ x = f[i]
  BY <1>0, MapCommands
<1>2. Gens(f) = {}
  BY <1>0, <1>1
<1>3. ASSUME NEW x PROVE x \in Sims(f) <=> \E i \in 0 .. k - 1 : x = << iss, ls[i] >>
  <2>1. x \in Sims(f) <=> \E i \in 1 .. k : x = << iss, ls[i - 1] >>
    BY <1>0, <1>1
  <2>2. ASSUME NEW i \in 1 .. k PROVE i - 1 \in 0 .. k - 1
    OBVIOUS
  <2>3. ASSUME NEW i \in 0 .. k - 1 PROVE i + 1 \in 1 .. k /\ (i + 1) - 1 = i
    OBVIOUS
  <2> QED
    BY <2>1, <2>2, <2>3
<1> QED
  BY <1>1, <1>2, <1>3

\* what iss_sim does for one simulator and one test
IssTest(a, iss, e) ==
  IF has(e, "no_iss") THEN << >>
  ELSE [i \in 1 .. e.iterations |->
          simulation(iss, asm_elf(e, i - 1), log_of_program(a, e, i - 1), << e.test, i - 1, a.target >>)]

\* One simulator and one test.
LEMMA IssTestCommands ==
  ASSUME NEW a, NEW iss, NEW e, e.iterations \in Nat
  PROVE  /\ IsList(IssTest(a, iss, e)) /\ Gens(IssTest(a, iss, e)) = {}
         /\ Sims(IssTest(a, iss, e)) = IF has(e, "no_iss") THEN {} ELSE {iss} \X ProgramLogs(a, e)
<1>1. CASE has(e, "no_iss")
  BY <1>1, NoCommands DEF IssTest
<1>2. CASE ~has(e, "no_iss")
  <2>0. PICK s : s = IssTest(a, iss, e)
    OBVIOUS
  <2>1. PICK k \in Nat : k = e.iterations
    OBVIOUS
  <2>2. PICK ls : ls = [i \in 0 .. k - 1 |-> log_of_program(a, e, i)]
    OBVIOUS
  <2>3. \A i \in 1 .. k : s[i].op = "simulate" /\ s[i].iss = iss /\ s[i].log = ls[i - 1]
    BY <1>2, <2>0, <2>1, <2>2 DEF simulation, IssTest
  <2>4. s = [i \in 1 .. k |-> s[i]]
    BY <1>2, <2>0, <2>1 DEF IssTest
  <2>5. IsList(s) /\ Gens(s) = {} /\ \A x : x \in Sims(s) <=> \E i \in 0 .. k - 1 : x = << iss, ls[i] >>
    <3>1. Simulations(s, k, iss, ls)
      BY <2>3, <2>4, Zenon DEF Simulations
    <3> QED
      BY <3>1, SimulationList
  <2>6. \A x : x \in {iss} \X ProgramLogs(a, e) <=> \E i \in 0 .. k - 1 : x = << iss, ls[i] >>
    BY <2>1, <2>2 DEF ProgramLogs
  <2>7. Sims(s) = {iss} \X ProgramLogs(a, e)
    BY <2>5, <2>6
  <2> QED
    BY <1>2, <2>0, <2>5, <2>7
<1> QED
  BY <1>1, <1>2

\* the simulations of the tests for the generator
GeneratedSims(a, list) ==
  {<< iss, log >> : iss \in Range(a.iss), log \in UNION {ProgramLogs(a, e) : e \in {d \in Range(list) : ~has(d, "no_iss")}}}

\* iss_sim simulates every program of the tests without no_iss on every simulator.
LEMMA IssCommands ==
  ASSUME NEW a, Options(a), NEW list, IsList(list), \A e \in Range(list) : e.iterations \in Nat
  PROVE  /\ IsList(iss_sim(a, list)) /\ Gens(iss_sim(a, list)) = {}
         /\ Crashes(iss_sim(a, list)) = {} => Sims(iss_sim(a, list)) = GeneratedSims(a, list)
<1> DEFINE on(iss) == [n \in DOMAIN list |-> IssTest(a, iss, list[n])]
           ss == [m \in DOMAIN a.iss |-> parse_iss_yaml(a.iss[m], FlattenSeq(on(a.iss[m])))]
           logs_of == UNION {ProgramLogs(a, e) : e \in {d \in Range(list) : ~has(d, "no_iss")}}
<1>1. iss_sim(a, list) = FlattenSeq(ss)
  BY DEF iss_sim, Each, per_program, IssTest
<1>2. ASSUME NEW iss
      PROVE  /\ IsList(FlattenSeq(on(iss))) /\ Gens(FlattenSeq(on(iss))) = {}
             /\ Sims(FlattenSeq(on(iss))) = {iss} \X logs_of
  <2>1. PICK ls : ls = on(iss)
    OBVIOUS
  <2>2. ls = [n \in DOMAIN list |-> ls[n]]
    BY <2>1
  <2>3. ASSUME NEW n \in DOMAIN list
        PROVE  /\ IsList(ls[n]) /\ Gens(ls[n]) = {}
               /\ \A x : x \in Sims(ls[n]) <=> ~has(list[n], "no_iss") /\ x \in {iss} \X ProgramLogs(a, list[n])
    <3>1. list[n].iterations \in Nat
      BY DEF Range
    <3>2. ls[n] = IssTest(a, iss, list[n])
      BY <2>1
    <3>3. /\ IsList(ls[n]) /\ Gens(ls[n]) = {}
          /\ Sims(ls[n]) = IF has(list[n], "no_iss") THEN {} ELSE {iss} \X ProgramLogs(a, list[n])
      BY <3>1, <3>2, IssTestCommands
    <3> QED
      BY <3>3
  <2>4. /\ IsList(FlattenSeq(ls))
        /\ Sims(FlattenSeq(ls)) = UNION {Sims(ls[n]) : n \in DOMAIN list}
        /\ Gens(FlattenSeq(ls)) = UNION {Gens(ls[n]) : n \in DOMAIN list}
    BY <2>2, <2>3, EachCommands
  <2>5. Gens(FlattenSeq(ls)) = {}
    BY <2>3, <2>4
  <2>6. ASSUME NEW x PROVE x \in Sims(FlattenSeq(ls)) <=> x \in {iss} \X logs_of
    <3>1. x \in Sims(FlattenSeq(ls)) <=>
            \E n \in DOMAIN list : ~has(list[n], "no_iss") /\ x \in {iss} \X ProgramLogs(a, list[n])
      BY <2>3, <2>4
    <3>2. x \in {iss} \X logs_of <=>
            \E e \in Range(list) : ~has(e, "no_iss") /\ x \in {iss} \X ProgramLogs(a, e)
      OBVIOUS
    <3> QED
      BY <3>1, <3>2 DEF Range
  <2> QED
    BY <2>1, <2>4, <2>5, <2>6
<1>3. ASSUME NEW m \in DOMAIN a.iss
      PROVE  /\ IsList(ss[m]) /\ Gens(ss[m]) = {}
             /\ Crashes(ss[m]) = {} => Sims(ss[m]) = {a.iss[m]} \X logs_of
  <2>1. PICK s : s = FlattenSeq(on(a.iss[m]))
    OBVIOUS
  <2>2. ss[m] = parse_iss_yaml(a.iss[m], s) /\ IsList(s) /\ Gens(s) = {} /\ Sims(s) = {a.iss[m]} \X logs_of
    BY <1>2, <2>1
  <2> HIDE DEF ss, logs_of
  <2> QED
    BY <2>2, KnownSimulators
<1>4. IsList(a.iss) /\ ss = [m \in DOMAIN a.iss |-> ss[m]]
  BY DEF Options
<1> HIDE DEF ss
<1>5. /\ IsList(FlattenSeq(ss))
      /\ Sims(FlattenSeq(ss)) = UNION {Sims(ss[m]) : m \in DOMAIN a.iss}
      /\ Gens(FlattenSeq(ss)) = UNION {Gens(ss[m]) : m \in DOMAIN a.iss}
      /\ Crashes(FlattenSeq(ss)) = UNION {Crashes(ss[m]) : m \in DOMAIN a.iss}
  BY <1>3, <1>4, EachCommands
<1>6. Gens(FlattenSeq(ss)) = {}
  BY <1>3, <1>5
<1>7. ASSUME Crashes(FlattenSeq(ss)) = {}, NEW x
      PROVE  x \in Sims(FlattenSeq(ss)) <=> x \in GeneratedSims(a, list)
  <2> HIDE DEF logs_of
  <2>1. \A m \in DOMAIN a.iss : Sims(ss[m]) = {a.iss[m]} \X logs_of
    BY <1>3, <1>5, <1>7
  <2>2. x \in Sims(FlattenSeq(ss)) <=> \E m \in DOMAIN a.iss : x \in {a.iss[m]} \X logs_of
    BY <1>5, <2>1
  <2>3. x \in GeneratedSims(a, list) <=> \E iss \in Range(a.iss) : x \in {iss} \X logs_of
    BY DEF GeneratedSims, logs_of
  <2> QED
    BY <2>2, <2>3 DEF Range
<1> QED
  BY <1>1, <1>5, <1>6, <1>7

\* Nothing is generated or simulated by iss_cmp.
LEMMA CmpCommands ==
  ASSUME NEW a, NEW list, IsList(list), \A e \in Range(list) : e.iterations \in Nat
  PROVE  IsList(iss_cmp(a, list)) /\ Sims(iss_cmp(a, list)) = {} /\ Gens(iss_cmp(a, list)) = {}
<1> DEFINE body(e) == [i \in 1 .. e.iterations |-> comparison(asm_elf(e, i - 1), log_of_program(a, e, i - 1))]
           ss   == [n \in DOMAIN list |-> body(list[n])]
           last == << [op |-> "summarize"] >>
<1>1. iss_cmp(a, list) \in {<< >>, FlattenSeq(ss) \o last}
  BY DEF iss_cmp, Each, per_program
<1>2. ASSUME NEW n \in DOMAIN list PROVE IsList(ss[n]) /\ Sims(ss[n]) = {} /\ Gens(ss[n]) = {}
  <2>1. PICK e : e = list[n] /\ e.iterations \in Nat /\ ss[n] = body(e)
    BY DEF Range
  <2>2. PICK k \in Nat : k = e.iterations
    BY <2>1
  <2>3. PICK f : f = [i \in 1 .. k |-> comparison(asm_elf(e, i - 1), log_of_program(a, e, i - 1))]
    OBVIOUS
  <2>4. f = [i \in 1 .. k |-> f[i]] /\ ss[n] = f /\ \A i \in 1 .. k : f[i].op = "compare"
    BY <2>1, <2>2, <2>3 DEF comparison
  <2> HIDE DEF ss
  <2> QED
    BY <2>4, MapCommands
<1>3. ss = [n \in DOMAIN list |-> ss[n]]
  OBVIOUS
<1>4. IsList(last) /\ Sims(last) = {} /\ Gens(last) = {}
  <2>1. PICK c : c = [op |-> "summarize"]
    OBVIOUS
  <2>2. c.op = "summarize" /\ last = << c >>
    BY <2>1
  <2> HIDE DEF last
  <2> QED
    BY <2>2, OneCommand
<1> HIDE DEF ss, last
<1>5. /\ IsList(FlattenSeq(ss))
      /\ Sims(FlattenSeq(ss)) = UNION {Sims(ss[n]) : n \in DOMAIN list}
      /\ Gens(FlattenSeq(ss)) = UNION {Gens(ss[n]) : n \in DOMAIN list}
  BY <1>2, <1>3, EachCommands
<1>6. /\ IsList(FlattenSeq(ss) \o last)
      /\ Sims(FlattenSeq(ss) \o last) = Sims(FlattenSeq(ss)) \union Sims(last)
      /\ Gens(FlattenSeq(ss) \o last) = Gens(FlattenSeq(ss)) \union Gens(last)
  BY <1>4, <1>5, MoreCommands
<1>7. Sims(FlattenSeq(ss)) = {} /\ Gens(FlattenSeq(ss)) = {}
  BY <1>2, <1>5
<1> QED
  BY <1>1, <1>4, <1>6, <1>7, NoCommands

\* What argparse accepts and parse_args leaves.
LEMMA LoadedOptions ==
  ASSUME NEW i \in Invocations
  PROVE  Options(loaded(i))
<1>1. Args(i)
  BY RegressionAssumption
<1>2. PICK rest_of : rest_of = Those(i.iss, LAMBDA s : s # "spike")
  OBVIOUS
<1>3. IsList(rest_of)
  <2> DEFINE K == {s \in Range(i.iss) : s # "spike"}
             ss == [n \in DOMAIN i.iss |-> IF i.iss[n] \in K THEN << i.iss[n] >> ELSE << >>]
  <2>1. \A n \in DOMAIN i.iss : i.iss[n] \in K <=> i.iss[n] # "spike"
    BY DEF Range
  <2>2. ss = [n \in DOMAIN i.iss |-> IF i.iss[n] # "spike" THEN << i.iss[n] >> ELSE << >>]
    BY <2>1
  <2>3. rest_of = FlattenSeq(ss)
    BY <1>2, <2>2 DEF Those, Each
  <2>4. ss = [n \in DOMAIN i.iss |-> ss[n]] /\ IsList(i.iss)
        /\ \A n \in DOMAIN i.iss : ss[n] = IF i.iss[n] \in K THEN << i.iss[n] >> ELSE << >>
    BY <1>1 DEF Args
  <2> HIDE DEF ss, K
  <2> QED
    BY <2>3, <2>4, ThoseRange
<1>4. IsList(ordered(i.iss))
  <2>1. ordered(i.iss) \in {i.iss, << "spike" >> \o rest_of}
    BY <1>2 DEF ordered
  <2>2. IsList(i.iss)
    BY <1>1 DEF Args
  <2>3. IsList(<< "spike" >>)
    BY ShortLists
  <2>4. IsList(<< "spike" >> \o rest_of)
    BY <1>3, <2>3, Concat
  <2> QED
    BY <2>1, <2>2, <2>4
<1>5. iterations_of(i) \in Nat
  BY <1>1 DEF Args, iterations_of
<1>6. /\ loaded(i).iss = ordered(i.iss) /\ loaded(i).iterations = iterations_of(i)
      /\ loaded(i).testlist = i.testlist
      /\ loaded(i).batch_size = i.batch_size /\ loaded(i).gen_sv_seed = i.gen_sv_seed
      /\ loaded(i).c_tests = i.c_tests /\ loaded(i).elf_tests = i.elf_tests
      /\ loaded(i).asm_tests = i.asm_tests
  BY <1>1 DEF Args, loaded
<1> QED
  BY <1>1, <1>4, <1>5, <1>6 DEF Args, Options

\* the tests of main(), after the options and after the needs
FoundFor(a) == IF arg_tests(a) # << >> \/ a.co THEN << >> ELSE Found(a)
Able(a)     == Those(FoundFor(a), NeedsMet)
Directed(a) == Those(Able(a), asm_directed)
InC(a)      == Those(Able(a), c_directed)
Matched(a)  == Those(Able(a), LAMBDA e : ~asm_directed(e) /\ ~c_directed(e))

\* They are the entries of the test list with the needs that are met, parted by
\* their fields.
LEMMA TestsOf ==
  ASSUME NEW a, Options(a), ImportsEnd
  PROVE  /\ IsList(FoundFor(a)) /\ Range(FoundFor(a)) \subseteq Range(Found(a))
         /\ IsList(Able(a)) /\ \A e : e \in Range(Able(a)) <=> e \in Range(FoundFor(a)) /\ NeedsMet(e)
         /\ IsList(Directed(a)) /\ \A e : e \in Range(Directed(a)) <=> e \in Range(Able(a)) /\ asm_directed(e)
         /\ IsList(Matched(a)) /\ \A e : e \in Range(Matched(a)) <=>
                                         e \in Range(Able(a)) /\ ~asm_directed(e) /\ ~c_directed(e)
         /\ IsList(InC(a))
<1>1. IsList(FoundFor(a)) /\ Range(FoundFor(a)) \subseteq Range(Found(a))
  BY FoundPicks, ShortLists DEF FoundFor, Options
<1>2. IsList(Able(a)) /\ \A e : e \in Range(Able(a)) <=> e \in Range(FoundFor(a)) /\ NeedsMet(e)
  <2> DEFINE list == FoundFor(a)
             K == {e \in Range(list) : NeedsMet(e)}
             ss == [n \in DOMAIN list |-> IF list[n] \in K THEN << list[n] >> ELSE << >>]
  <2>1. \A n \in DOMAIN list : list[n] \in K <=> NeedsMet(list[n])
    BY DEF Range
  <2>2. ss = [n \in DOMAIN list |-> IF NeedsMet(list[n]) THEN << list[n] >> ELSE << >>]
    BY <2>1
  <2>3. Able(a) = FlattenSeq(ss)
    BY <2>2 DEF Able, Those, Each
  <2>4. ss = [n \in DOMAIN list |-> ss[n]] /\ IsList(list)
        /\ (\A n \in DOMAIN list : ss[n] = IF list[n] \in K THEN << list[n] >> ELSE << >>)
        /\ \A e : e \in Range(list) \intersect K <=> e \in Range(list) /\ NeedsMet(e)
    BY <1>1
  <2> HIDE DEF ss, K, list
  <2>5. IsList(FlattenSeq(ss)) /\ Range(FlattenSeq(ss)) = Range(list) \intersect K
    BY <2>4, ThoseRange
  <2> QED
    BY <2>3, <2>4, <2>5 DEF list
<1>3. IsList(Directed(a)) /\ \A e : e \in Range(Directed(a)) <=> e \in Range(Able(a)) /\ asm_directed(e)
  <2> DEFINE list == Able(a)
             K == {e \in Range(list) : asm_directed(e)}
             ss == [n \in DOMAIN list |-> IF list[n] \in K THEN << list[n] >> ELSE << >>]
  <2>1. \A n \in DOMAIN list : list[n] \in K <=> asm_directed(list[n])
    BY DEF Range
  <2>2. ss = [n \in DOMAIN list |-> IF asm_directed(list[n]) THEN << list[n] >> ELSE << >>]
    BY <2>1
  <2>3. Directed(a) = FlattenSeq(ss)
    BY <2>2 DEF Directed, Those, Each
  <2>4. ss = [n \in DOMAIN list |-> ss[n]] /\ IsList(list)
        /\ (\A n \in DOMAIN list : ss[n] = IF list[n] \in K THEN << list[n] >> ELSE << >>)
        /\ \A e : e \in Range(list) \intersect K <=> e \in Range(list) /\ asm_directed(e)
    BY <1>2
  <2> HIDE DEF ss, K, list
  <2>5. IsList(FlattenSeq(ss)) /\ Range(FlattenSeq(ss)) = Range(list) \intersect K
    BY <2>4, ThoseRange
  <2> QED
    BY <2>3, <2>4, <2>5 DEF list
<1>4. IsList(Matched(a)) /\ \A e : e \in Range(Matched(a)) <=>
                                   e \in Range(Able(a)) /\ ~asm_directed(e) /\ ~c_directed(e)
  <2> DEFINE list == Able(a)
             T(e) == ~asm_directed(e) /\ ~c_directed(e)
             K == {e \in Range(list) : T(e)}
             ss == [n \in DOMAIN list |-> IF list[n] \in K THEN << list[n] >> ELSE << >>]
  <2>1. \A n \in DOMAIN list : list[n] \in K <=> T(list[n])
    BY DEF Range
  <2>2. ss = [n \in DOMAIN list |-> IF T(list[n]) THEN << list[n] >> ELSE << >>]
    BY <2>1
  <2>3. Matched(a) = FlattenSeq(ss)
    BY <2>2 DEF Matched, Those, Each
  <2>4. ss = [n \in DOMAIN list |-> ss[n]] /\ IsList(list)
        /\ (\A n \in DOMAIN list : ss[n] = IF list[n] \in K THEN << list[n] >> ELSE << >>)
        /\ \A e : e \in Range(list) \intersect K <=> e \in Range(list) /\ T(e)
    BY <1>2
  <2> HIDE DEF ss, K, list
  <2>5. IsList(FlattenSeq(ss)) /\ Range(FlattenSeq(ss)) = Range(list) \intersect K
    BY <2>4, ThoseRange
  <2> QED
    BY <2>3, <2>4, <2>5 DEF list
<1>5. IsList(InC(a))
  <2> DEFINE list == Able(a)
             K == {e \in Range(list) : c_directed(e)}
             ss == [n \in DOMAIN list |-> IF list[n] \in K THEN << list[n] >> ELSE << >>]
  <2>1. \A n \in DOMAIN list : list[n] \in K <=> c_directed(list[n])
    BY DEF Range
  <2>2. ss = [n \in DOMAIN list |-> IF c_directed(list[n]) THEN << list[n] >> ELSE << >>]
    BY <2>1
  <2>3. InC(a) = FlattenSeq(ss)
    BY <2>2 DEF InC, Those, Each
  <2>4. ss = [n \in DOMAIN list |-> ss[n]] /\ IsList(list)
        /\ \A n \in DOMAIN list : ss[n] = IF list[n] \in K THEN << list[n] >> ELSE << >>
    BY <1>2
  <2> HIDE DEF ss, K, list
  <2>5. IsList(FlattenSeq(ss))
    BY <2>4, ThoseRange
  <2> QED
    BY <2>3, <2>5
<1> QED
  BY <1>1, <1>2, <1>3, <1>4, <1>5

\* What is found can be counted.
LEMMA FoundEntries ==
  ASSUME NEW a, Options(a), ImportsEnd
  PROVE  IsList(Found(a)) /\ \A e \in Range(Found(a)) : Picked(a, e) /\ e.iterations \in Nat
<1>1. IsList(Found(a)) /\ \A e \in Range(Found(a)) : Picked(a, e)
  BY FoundPicks DEF Options
<1>2. ASSUME NEW e \in Range(Found(a)) PROVE e.iterations \in Nat
  <2>1. PICK l \in DOMAIN TestLists : \E d \in Range(TestLists[l]) : e = With(a, d)
    BY <1>1 DEF Picked
  <2>2. PICK d \in Range(TestLists[l]) : e = With(a, d)
    BY <2>1
  <2>3. Entry(d)
    BY RegressionAssumption
  <2>4. "iterations" \in DOMAIN d /\ d.iterations \in Nat /\ a.iterations \in Nat
    BY <2>3 DEF Entry, Options
  <2> QED
    BY <2>2, <2>4 DEF With
<1> QED
  BY <1>1, <1>2

\* what ends the preparation of an iteration
Faulty(a) ==
  \/ \E i \in DOMAIN FoundFor(a) : NeedsError(a, FoundFor(a)[i])
  \/ \E i \in DOMAIN Able(a) : ExclusiveError(Able(a)[i])
  \/ arg_tests(a) = << >> /\ ~a.co /\ Able(a) = << >>

\* the parts of an iteration
GivenTests(a, k)   == Each(arg_tests(a), LAMBDA f : one_test(a, k, f, f.name))
CopyPart(a)        == [i \in DOMAIN InC(a) |-> [op |-> "run_cmd"]]
GivenPart(a, k)    == GivenTests(a, k) \o CopyPart(a)
DirectedPart(a, k) == Each(Directed(a), LAMBDA e : one_test(a, k, e.file, e.test))
GenPart(a, k)      == When("gen" \in a.steps, DirectedPart(a, k) \o gen(a, Matched(a)))
IssPart(a)         == When("iss_sim" \in a.steps, iss_sim(a, Matched(a)))
ElfPart(a)         == When(~a.co, When("gcc_compile" \in a.steps, gcc_compile(Matched(a)))
                                  \o IssPart(a)
                                  \o When("iss_cmp" \in a.steps, iss_cmp(a, Matched(a))))

\* They are all there is.
LEMMA CommandParts ==
  ASSUME NEW a, NEW k
  PROVE  Commands(a, k) = IF Faulty(a) THEN Crash ELSE GivenPart(a, k) \o GenPart(a, k) \o ElfPart(a)
BY DEF Commands, Faulty, GivenPart, GivenTests, CopyPart, InC, DirectedPart, GenPart, IssPart, ElfPart, FoundFor, Able, Directed, Matched

\* The directed tests of the command line.
LEMMA GivenTestCommands ==
  ASSUME NEW a, Options(a), NEW k
  PROVE  /\ IsList(GivenTests(a, k)) /\ Gens(GivenTests(a, k)) = {}
         /\ arg_tests(a) = << >> => Sims(GivenTests(a, k)) = {}
<1> DEFINE list == arg_tests(a)
           ss == [n \in DOMAIN list |-> one_test(a, k, list[n], list[n].name)]
           names == [n \in DOMAIN list |-> list[n].name]
<1>1. GivenTests(a, k) = FlattenSeq(ss)
  BY DEF GivenTests, Each
<1>2. IsList(list)
  BY DEF arg_tests, Options
<1>3. ss = [n \in DOMAIN list |-> ss[n]] /\ OneTests(a, k, list, ss, names)
  BY DEF OneTests
<1>4. \A n \in DOMAIN list : IsList(ss[n])
  BY OneTestCommands
<1> HIDE DEF ss, names
<1>5. IsList(FlattenSeq(ss)) /\ Gens(FlattenSeq(ss)) = {}
  BY <1>2, <1>3, DirectedTests
<1>6. ASSUME list = << >> PROVE Sims(FlattenSeq(ss)) = {}
  <2>1. DOMAIN list = {}
    BY <1>6
  <2>2. Sims(FlattenSeq(ss)) = UNION {Sims(ss[n]) : n \in DOMAIN list}
    BY <1>2, <1>3, <1>4, EachCommands
  <2> HIDE DEF list
  <2> QED
    BY <2>1, <2>2
<1> QED
  BY <1>1, <1>5, <1>6

\* Copies are no commands of interest.
LEMMA Copies ==
  ASSUME NEW a, Options(a), ImportsEnd
  PROVE  IsList(CopyPart(a)) /\ \A c \in Range(CopyPart(a)) : c.op = "run_cmd"
<1>1. PICK n \in Nat : DOMAIN InC(a) = 1 .. n
  BY TestsOf DEF IsList
<1>2. PICK d : d = [op |-> "run_cmd"]
  OBVIOUS
<1>3. CopyPart(a) = [i \in 1 .. n |-> d]
  BY <1>1, <1>2 DEF CopyPart
<1>4. \A c \in Range(CopyPart(a)) : c = d
  BY <1>3 DEF Range
<1>5. CopyPart(a) \in Seq(Range(CopyPart(a)))
  BY <1>3 DEF Range
<1> QED
  BY <1>2, <1>4, <1>5 DEF IsList

\* The commands before those of the test list.
LEMMA GivenCommands ==
  ASSUME NEW a, Options(a), ImportsEnd, NEW k
  PROVE  /\ IsList(GivenPart(a, k)) /\ Gens(GivenPart(a, k)) = {}
         /\ arg_tests(a) = << >> => Sims(GivenPart(a, k)) = {}
<1>1. PICK s : s = GivenTests(a, k)
  OBVIOUS
<1>2. PICK t : t = CopyPart(a)
  OBVIOUS
<1>3. IsList(s) /\ Gens(s) = {} /\ (arg_tests(a) = << >> => Sims(s) = {})
  BY <1>1, GivenTestCommands
<1>4. IsList(t) /\ \A c \in Range(t) : c.op = "run_cmd"
  BY <1>2, Copies
<1>5. Gens(t) = {} /\ Sims(t) = {}
  BY <1>4 DEF Gens, Sims
<1>6. IsList(s \o t) /\ Sims(s \o t) = Sims(s) \union Sims(t) /\ Gens(s \o t) = Gens(s) \union Gens(t)
  BY <1>3, <1>4, MoreCommands
<1>7. GivenPart(a, k) = s \o t
  BY <1>1, <1>2 DEF GivenPart
<1> QED
  BY <1>3, <1>5, <1>6, <1>7

\* the simulations of the directed tests of the test list
DirectedSims(a, k) == {<< iss, log_of_test(a, e.test, k) >> : iss \in Range(a.iss), e \in Range(Directed(a))}

\* The directed tests of the test list.
LEMMA ListedCommands ==
  ASSUME NEW a, Options(a), ImportsEnd, NEW k
  PROVE  /\ IsList(DirectedPart(a, k)) /\ Gens(DirectedPart(a, k)) = {}
         /\ Crashes(DirectedPart(a, k)) = {} =>
              \A x : x \in Sims(DirectedPart(a, k)) <=> x \in DirectedSims(a, k)
<1> DEFINE list == Directed(a)
           ss == [n \in DOMAIN list |-> one_test(a, k, list[n].file, list[n].test)]
           names == [n \in DOMAIN list |-> list[n].test]
<1>1. DirectedPart(a, k) = FlattenSeq(ss)
  BY DEF DirectedPart, Each
<1>2. IsList(list)
  BY TestsOf
<1>3. OneTests(a, k, list, ss, names)
  BY DEF OneTests
<1>4. \A n \in DOMAIN list : names[n] = list[n].test
  OBVIOUS
<1> HIDE DEF ss, names, list
<1>5. /\ IsList(FlattenSeq(ss)) /\ Gens(FlattenSeq(ss)) = {}
      /\ Crashes(FlattenSeq(ss)) = {} => Sims(FlattenSeq(ss)) = NamedSims(a, k, list, names)
  BY <1>2, <1>3, DirectedTests
<1>6. ASSUME NEW x PROVE x \in NamedSims(a, k, list, names) <=> x \in DirectedSims(a, k)
  <2>1. x \in DirectedSims(a, k) <=>
          \E iss \in Range(a.iss), e \in Range(list) : x = << iss, log_of_test(a, e.test, k) >>
    BY DEF DirectedSims, list
  <2>2. (\E iss \in Range(a.iss), e \in Range(list) : x = << iss, log_of_test(a, e.test, k) >>)
          <=> \E iss \in Range(a.iss), n \in DOMAIN list : x = << iss, log_of_test(a, list[n].test, k) >>
    BY DEF Range
  <2> QED
    BY <1>4, <2>1, <2>2 DEF NamedSims
<1> QED
  BY <1>1, <1>5, <1>6

\* The tests that stay with the generator can be counted.
LEMMA MatchedEntries ==
  ASSUME NEW a, Options(a), ImportsEnd
  PROVE  /\ IsList(Matched(a)) /\ Range(Matched(a)) \subseteq Range(Found(a))
         /\ \A e \in Range(Matched(a)) : e.iterations \in Nat
  BY TestsOf, FoundEntries

\* The generator comes after the directed tests.
LEMMA GenPartCommands ==
  ASSUME NEW a, Options(a), ImportsEnd, NEW k
  PROVE  /\ IsList(GenPart(a, k))
         /\ \A c \in Gens(GenPart(a, k)) : \E e \in Range(Found(a)) : Batch(a, e, c)
         /\ "gen" \in a.steps /\ Crashes(GenPart(a, k)) = {} =>
              \A x : x \in Sims(GenPart(a, k)) <=> x \in DirectedSims(a, k)
<1>1. PICK d : d = DirectedPart(a, k)
  OBVIOUS
<1>2. PICK g : g = gen(a, Matched(a))
  OBVIOUS
<1>3. /\ IsList(d) /\ Gens(d) = {}
      /\ Crashes(d) = {} => \A x : x \in Sims(d) <=> x \in DirectedSims(a, k)
  BY <1>1, ListedCommands
<1>4. /\ IsList(g) /\ Sims(g) = {}
      /\ \A c \in Gens(g) : \E e \in Range(Matched(a)) : Batch(a, e, c)
  BY <1>2, MatchedEntries, GenCommands
<1>5. \A c \in Gens(g) : \E e \in Range(Found(a)) : Batch(a, e, c)
  BY <1>4, MatchedEntries
<1>6. GenPart(a, k) = IF "gen" \in a.steps THEN d \o g ELSE << >>
  BY <1>1, <1>2 DEF GenPart, When
<1>7. /\ IsList(d \o g) /\ Sims(d \o g) = Sims(d) \union Sims(g) /\ Gens(d \o g) = Gens(d) \union Gens(g)
      /\ Crashes(d \o g) = Crashes(d) \union Crashes(g)
  BY <1>3, <1>4, MoreCommands
<1>8. CASE "gen" \in a.steps
  <2>1. GenPart(a, k) = d \o g
    BY <1>6, <1>8
  <2>2. Sims(d \o g) = Sims(d) /\ Gens(d \o g) = Gens(g)
    BY <1>3, <1>4, <1>7
  <2>3. Crashes(d \o g) = {} => Crashes(d) = {}
    BY <1>7
  <2> QED
    BY <1>3, <1>5, <1>7, <2>1, <2>2, <2>3
<1>9. CASE "gen" \notin a.steps
  <2>1. GenPart(a, k) = << >>
    BY <1>6, <1>9
  <2> QED
    BY <1>9, <2>1, NoCommands
<1> QED
  BY <1>8, <1>9

\* Compilation, simulation and comparison.
LEMMA ElfPartCommands ==
  ASSUME NEW a, Options(a), ImportsEnd
  PROVE  /\ IsList(ElfPart(a)) /\ Gens(ElfPart(a)) = {}
         /\ ~a.co /\ "iss_sim" \in a.steps /\ Crashes(ElfPart(a)) = {} =>
              Sims(ElfPart(a)) = GeneratedSims(a, Matched(a))
<1>1. PICK list : list = Matched(a)
  OBVIOUS
<1>2. IsList(list) /\ \A e \in Range(list) : e.iterations \in Nat
  BY <1>1, MatchedEntries
<1>3. PICK p : p = When("gcc_compile" \in a.steps, gcc_compile(list))
  OBVIOUS
<1>4. PICK q : q = When("iss_sim" \in a.steps, iss_sim(a, list))
  OBVIOUS
<1>5. PICK r : r = When("iss_cmp" \in a.steps, iss_cmp(a, list))
  OBVIOUS
<1>6. IsList(p) /\ Sims(p) = {} /\ Gens(p) = {}
  BY <1>2, <1>3, GccCommands, NoCommands DEF When
<1>7. IsList(r) /\ Sims(r) = {} /\ Gens(r) = {}
  BY <1>2, <1>5, CmpCommands, NoCommands DEF When
<1>8. /\ IsList(q) /\ Gens(q) = {}
      /\ "iss_sim" \in a.steps /\ Crashes(q) = {} => Sims(q) = GeneratedSims(a, list)
  BY <1>2, <1>4, IssCommands, NoCommands DEF When
<1>9. PICK u : u = p \o q
  OBVIOUS
<1>10. PICK s : s = u \o r
  OBVIOUS
<1>14. IsList(s) /\ Sims(s) = Sims(q) /\ Gens(s) = {} /\ Crashes(q) \subseteq Crashes(s)
  <2>1. /\ IsList(u) /\ Sims(u) = Sims(p) \union Sims(q) /\ Gens(u) = Gens(p) \union Gens(q)
        /\ Crashes(u) = Crashes(p) \union Crashes(q)
    BY <1>6, <1>8, <1>9, MoreCommands
  <2>2. /\ IsList(s) /\ Sims(s) = Sims(u) \union Sims(r) /\ Gens(s) = Gens(u) \union Gens(r)
        /\ Crashes(s) = Crashes(u) \union Crashes(r)
    BY <1>7, <1>10, <2>1, MoreCommands
  <2> QED
    BY <1>6, <1>7, <1>8, <2>1, <2>2
<1>11. ElfPart(a) = IF a.co THEN << >> ELSE s
  BY <1>1, <1>3, <1>4, <1>5, <1>9, <1>10 DEF ElfPart, IssPart, When
<1>12. CASE a.co
  <2>1. ElfPart(a) = << >>
    BY <1>11, <1>12
  <2> QED
    BY <1>12, <2>1, NoCommands
<1>13. CASE ~a.co
  <2>1. ElfPart(a) = s
    BY <1>11, <1>13
  <2> QED
    BY <1>1, <1>8, <1>14, <2>1
<1> QED
  BY <1>12, <1>13

\* What an iteration generates are batches of tests of the list, and with all
\* steps an iteration that can be prepared simulates the directed and the
\* generated tests.
LEMMA CommandsOf ==
  ASSUME NEW a, Options(a), ImportsEnd, NEW k
  PROVE  /\ IsList(Commands(a, k))
         /\ \A c \in Gens(Commands(a, k)) : \E e \in Range(Found(a)) : Batch(a, e, c)
         /\ Crashes(Commands(a, k)) = {} => ~Faulty(a)
         /\ whole_run(a) /\ arg_tests(a) = << >> /\ Crashes(Commands(a, k)) = {} =>
              \A x : x \in Sims(Commands(a, k)) <=> x \in DirectedSims(a, k) \union GeneratedSims(a, Matched(a))
<1>1. PICK p : p = GivenPart(a, k)
  OBVIOUS
<1>2. PICK q : q = GenPart(a, k)
  OBVIOUS
<1>3. PICK r : r = ElfPart(a)
  OBVIOUS
<1>4. /\ IsList(p) /\ Gens(p) = {}
      /\ arg_tests(a) = << >> => Sims(p) = {}
  BY <1>1, GivenCommands
<1>5. /\ IsList(q)
      /\ \A c \in Gens(q) : \E e \in Range(Found(a)) : Batch(a, e, c)
      /\ whole_run(a) /\ Crashes(q) = {} => \A x : x \in Sims(q) <=> x \in DirectedSims(a, k)
  BY <1>2, GenPartCommands DEF whole_run, Steps
<1>6. /\ IsList(r) /\ Gens(r) = {}
      /\ whole_run(a) /\ Crashes(r) = {} => Sims(r) = GeneratedSims(a, Matched(a))
  BY <1>3, ElfPartCommands DEF whole_run, Steps
<1>7. PICK u : u = p \o q
  OBVIOUS
<1>8. PICK s : s = u \o r
  OBVIOUS
<1>9. /\ IsList(s) /\ Sims(s) = Sims(p) \union Sims(q) \union Sims(r) /\ Gens(s) = Gens(q)
      /\ Crashes(s) = Crashes(p) \union Crashes(q) \union Crashes(r)
  <2>1. /\ IsList(u) /\ Sims(u) = Sims(p) \union Sims(q) /\ Gens(u) = Gens(p) \union Gens(q)
        /\ Crashes(u) = Crashes(p) \union Crashes(q)
    BY <1>4, <1>5, <1>7, MoreCommands
  <2>2. /\ IsList(s) /\ Sims(s) = Sims(u) \union Sims(r) /\ Gens(s) = Gens(u) \union Gens(r)
        /\ Crashes(s) = Crashes(u) \union Crashes(r)
    BY <1>6, <1>8, <2>1, MoreCommands
  <2> QED
    BY <1>4, <1>6, <2>1, <2>2
<1>10. Commands(a, k) = IF Faulty(a) THEN Crash ELSE s
  BY <1>1, <1>2, <1>3, <1>7, <1>8, CommandParts
<1>11. CASE Faulty(a)
  <2>1. Commands(a, k) = Crash
    BY <1>10, <1>11
  <2> QED
    BY <2>1, CrashCommand
<1>12. CASE ~Faulty(a)
  <2>1. Commands(a, k) = s
    BY <1>10, <1>12
  <2>2. ASSUME whole_run(a), arg_tests(a) = << >>, Crashes(s) = {}, NEW x
        PROVE  x \in Sims(s) <=> x \in DirectedSims(a, k) \union GeneratedSims(a, Matched(a))
    <3>1. Crashes(q) = {} /\ Crashes(r) = {}
      BY <1>9, <2>2
    <3>2. x \in Sims(s) <=> x \in Sims(q) \/ x \in Sims(r)
      BY <1>4, <1>9, <2>2
    <3> QED
      BY <1>5, <1>6, <2>2, <3>1, <3>2
  <2> QED
    BY <1>5, <1>9, <1>12, <2>1, <2>2
<1> QED
  BY <1>11, <1>12

-----------------------------------------------------------------------------
(***************************************************************************)
(* Replay.                                                                 *)
(***************************************************************************)
\* the batch a program belongs to
BatchOf(size, i) == IF size = 0 THEN 0 ELSE i \div size

\* a program as its test, its number and the seed of its batch make it
AsSeeded(seed, size, p, x) ==
  LET b == BatchOf(size, p[2])
  IN  << p[1], b >> \in DOMAIN seed /\ x = << "generated", p[1], seed[<< p[1], b >>], p[2] - b * size >>

\* the program is one of a test that was found
Asked(p) ==
  /\ p = << p[1], p[2] >> /\ p[1] # "riscv_csr_test"
  /\ \E e \in Range(Found(args)) : e.test = p[1] /\ p[2] \in 0 .. e.iterations - 1

\* a running invocation works on its options and generates batches of its tests
LoadedRun ==
  /\ \E i \in Invocations : args = loaded(i)
  /\ IsList(todo) /\ \A c \in Gens(todo) : \E e \in Range(Found(args)) : Batch(args, e, c)

\* what was generated in this iteration is there, made of the seeds drawn in it
SeedsDrawn ==
  \A p \in recorded.now : Asked(p) /\ p \in DOMAIN asm /\ AsSeeded(sim_seed, args.batch_size, p, asm[p])

\* what was generated when seed.yaml was written was made of the seeds in it
SeedsSaved == \A p \in DOMAIN recorded.programs : AsSeeded(seeds, recorded.batch_size, p, recorded.programs[p])

RecordedParts ==
  recorded = [now |-> recorded.now, programs |-> recorded.programs, batch_size |-> recorded.batch_size]

ReplayInv ==
  /\ RecordedParts
  /\ status = "running" => LoadedRun
  /\ status = "running" /\ todo # << >> => SeedsDrawn
  /\ SeedsSaved

\* Division.
LEMMA Quotient ==
  ASSUME NEW n \in Nat \ {0}, NEW q \in Nat, NEW i \in Nat
  PROVE  i \div n = q <=> q * n <= i /\ i < q * n + n
BY Z3

\* Multiplication.
LEMMA Product ==
  ASSUME NEW p \in Nat, NEW q \in Nat, NEW n \in Nat, p <= q
  PROVE  p * n <= q * n /\ (p + 1) * n = p * n + n /\ p * n \in Nat
BY Z3

\* A batch has the programs of its number, up to the last of the test.
LEMMA InBatch ==
  ASSUME NEW a, Options(a), NEW e, e.iterations \in Nat, NEW c, Batch(a, e, c)
  PROVE  /\ c.op = "generate" /\ c.test = e.test /\ c.test # "riscv_csr_test"
         /\ c.batch \in Nat /\ c.first = c.batch * a.batch_size
         /\ \A i : i \in c.first .. c.first + c.size - 1 <=>
                   i \in 0 .. e.iterations - 1 /\ BatchOf(a.batch_size, i) = c.batch
<1>1. PICK q \in 0 .. batches(a, e) - 1 : c = batch(a, e, q)
  BY DEF Batch
<1>2. PICK n \in Nat : n = a.batch_size
  BY DEF Options
<1>3. PICK t \in Nat : t = e.iterations
  OBVIOUS
<1>4. PICK b \in Nat : b = batches(a, e)
  BY Batches
<1>5. /\ c.op = "generate" /\ c.test = e.test /\ c.batch = q /\ c.first = q * n
      /\ c.size = IF q < b - 1 THEN n ELSE t - q * n
  BY <1>1, <1>2, <1>3, <1>4 DEF batch
<1>6. c.test # "riscv_csr_test" /\ q \in Nat /\ q <= b - 1
  BY <1>1, <1>4, <1>5 DEF Batch
<1>7. ASSUME NEW i
      PROVE  i \in q * n .. q * n + c.size - 1 <=> i \in 0 .. t - 1 /\ BatchOf(n, i) = q
  <2>1. CASE n = 0
    <3>1. b = 1 /\ q = 0
      BY <1>2, <1>4, <1>6, <2>1 DEF batches
    <3>2. c.size = t /\ q * n = 0
      BY <1>5, <2>1, <3>1
    <3> QED
      BY <2>1, <3>1, <3>2 DEF BatchOf
  <2>2. CASE n # 0
    <3>1. b = (t + n - 1) \div n
      BY <1>2, <1>3, <1>4, <2>2 DEF batches
    <3>2. b * n <= t + n - 1 /\ t + n - 1 < b * n + n
      BY <2>2, <3>1, Quotient
    <3>3. q * n \in Nat /\ q * n + n <= b * n
      <4>1. (q + 1) * n <= b * n /\ (q + 1) * n = q * n + n /\ q * n \in Nat
        BY <1>6, Product
      <4> QED
        BY <4>1
    <3>4. i \in Nat => (BatchOf(n, i) = q <=> q * n <= i /\ i < q * n + n)
      BY <1>6, <2>2, Quotient DEF BatchOf
    <3>5. CASE q < b - 1
      <4>1. q * n + n + n <= b * n
        <5>1. (q + 2) * n <= b * n /\ (q + 2) * n = q * n + n + n
          BY <1>6, <3>5, Z3
        <5> QED
          BY <5>1
      <4>2. c.size = n /\ q * n + n <= t
        <5>1. PICK x \in Nat : x = q * n
          BY <3>3
        <5>2. PICK y \in Int : y = b * n
          OBVIOUS
        <5>3. x + n + n <= y /\ y <= t + n - 1
          BY <3>2, <4>1, <5>1, <5>2
        <5> QED
          BY <1>5, <3>5, <5>1, <5>3
      <4> QED
        BY <3>3, <3>4, <4>2
    <3>6. CASE q = b - 1
      <4>1. c.size = t - q * n /\ b * n = q * n + n
        <5>1. b = q + 1
          BY <3>6
        <5> QED
          BY <1>5, <1>6, <3>6, <5>1, Product
      <4>2. PICK x \in Nat : x = q * n
        BY <3>3
      <4>3. t <= x + n /\ x < t
        BY <3>2, <4>1, <4>2
      <4> QED
        BY <3>4, <4>1, <4>2, <4>3
    <3> QED
      BY <1>6, <3>5, <3>6
  <2> QED
    BY <2>1, <2>2
<1> QED
  BY <1>2, <1>3, <1>5, <1>6, <1>7

\* The options of a running invocation.
LEMMA RunningOptions ==
  ASSUME ImportsEnd, OneSizePerTest, LoadedRun
  PROVE  /\ Options(args) /\ \A e \in Range(Found(args)) : e.iterations \in Nat
         /\ \A d, e \in Range(Found(args)) : d.test = e.test => d.iterations = e.iterations
<1>1. PICK i \in Invocations : args = loaded(i)
  BY DEF LoadedRun
<1>2. Options(args)
  BY <1>1, LoadedOptions
<1>3. \A e \in Range(Found(args)) : e.iterations \in Nat
  BY <1>2, FoundEntries
<1> QED
  BY <1>1, <1>2, <1>3 DEF OneSizePerTest

\* Before the first invocation.
LEMMA ReplayInit == RegressionInit => ReplayInv
<1>1. RegressionInit => SeedsSaved
  BY DEF RegressionInit, SeedsSaved, NoFile
<1> QED
  BY <1>1 DEF RegressionInit, ReplayInv, RecordedParts

\* An invocation starts without commands.
LEMMA ReplayInvoke == ReplayInv /\ Invoke => ReplayInv'
<1> SUFFICES ASSUME ReplayInv, Invoke PROVE ReplayInv'
  OBVIOUS
<1>1. todo' = << >> /\ UNCHANGED << seeds, recorded >> /\ \E i \in Invocations : args' = loaded(i)
  BY DEF Invoke
<1>2. LoadedRun'
  BY <1>1, NoCommands DEF LoadedRun
<1>3. SeedsSaved' /\ RecordedParts'
  BY <1>1 DEF ReplayInv, SeedsSaved, RecordedParts
<1> QED
  BY <1>1, <1>2, <1>3 DEF ReplayInv

\* An iteration starts with nothing generated.
LEMMA ReplayStart == ReplayInv /\ ImportsEnd /\ StartIteration => ReplayInv'
<1> SUFFICES ASSUME ReplayInv, ImportsEnd, StartIteration PROVE ReplayInv'
  OBVIOUS
<1>1. /\ status = "running" /\ todo' = Commands(args, iteration) /\ UNCHANGED << args, seeds >>
      /\ recorded' = [recorded EXCEPT !.now = {}]
  BY DEF StartIteration, outdir
<1>2. PICK i \in Invocations : args = loaded(i)
  BY <1>1 DEF ReplayInv, LoadedRun
<1>3. Options(args)
  BY <1>2, LoadedOptions
<1>4. LoadedRun'
  <2>1. PICK s : s = Commands(args, iteration)
    OBVIOUS
  <2>2. IsList(s) /\ \A c \in Gens(s) : \E e \in Range(Found(args)) : Batch(args, e, c)
    BY <1>3, <2>1, CommandsOf
  <2>3. todo' = s /\ args' = args
    BY <1>1, <2>1
  <2> QED
    BY <1>2, <2>2, <2>3 DEF LoadedRun
<1>5. recorded'.now = {} /\ recorded'.programs = recorded.programs /\ recorded'.batch_size = recorded.batch_size
  BY <1>1 DEF ReplayInv, RecordedParts
<1>6. SeedsDrawn' /\ SeedsSaved' /\ RecordedParts'
  BY <1>1, <1>5 DEF ReplayInv, SeedsDrawn, SeedsSaved, RecordedParts
<1> QED
  BY <1>4, <1>6 DEF ReplayInv

\* The next command is one of the rest.
LEMMA NextCommand ==
  ASSUME LoadedRun, todo # << >>, todo' = Tail(todo), UNCHANGED args
  PROVE  LoadedRun'
<1>1. PICK s : s = Tail(todo)
  OBVIOUS
<1>2. IsList(s) /\ Range(s) \subseteq Range(todo)
  BY <1>1, HeadAndTail DEF LoadedRun
<1>3. Gens(s) \subseteq Gens(todo)
  BY <1>2 DEF Gens
<1>4. todo' = s
  BY <1>1
<1> QED
  BY <1>2, <1>3, <1>4 DEF LoadedRun

\* What a failed invocation leaves.
LEMMA ReplayEnd ==
  ASSUME ReplayInv, status' # "running", UNCHANGED << seeds, recorded >>
  PROVE  ReplayInv'
BY DEF ReplayInv, SeedsSaved, RecordedParts

\* Commands that neither generate programs nor save seeds.
LEMMA ReplayOthers ==
  ASSUME ReplayInv,
         \/ Finish \/ GiveUp \/ CompileDirected \/ Simulate \/ Compare \/ Summarize \/ RunCmd \/ Gcc
  PROVE  ReplayInv'
<1>1. /\ UNCHANGED << args, asm, sim_seed, seeds, recorded >>
      /\ \/ status' # "running"
         \/ status = "running" /\ todo # << >> /\ todo' = Tail(todo) /\ status' = status
  BY DEF Finish, GiveUp, CompileDirected, Simulate, Compare, Summarize, RunCmd, Gcc,
         Do, Next1, Exit, rest, outdir, ghosts
<1>2. ASSUME status = "running", todo # << >>, todo' = Tail(todo), status' = status PROVE ReplayInv'
  <2>1. LoadedRun'
    BY <1>1, <1>2, NextCommand DEF ReplayInv
  <2>2. SeedsSaved' /\ RecordedParts'
    BY <1>1 DEF ReplayInv, SeedsSaved, RecordedParts
  <2>3. SeedsDrawn'
    BY <1>1, <1>2 DEF ReplayInv, SeedsDrawn, Asked
  <2> QED
    BY <2>1, <2>2, <2>3 DEF ReplayInv
<1> QED
  BY <1>1, <1>2, ReplayEnd

\* The script for CSR tests writes no other programs.
LEMMA ReplayCsrTest == ReplayInv /\ CsrTest => ReplayInv'
<1> SUFFICES ASSUME ReplayInv, CsrTest PROVE ReplayInv'
  OBVIOUS
<1>1. UNCHANGED << args, sim_seed, seeds, recorded >> /\ status = "running" /\ todo # << >>
  BY DEF CsrTest, Do, rest, ghosts
<1>2. CASE Exit
  BY <1>1, <1>2, ReplayEnd DEF Exit
<1>3. CASE /\ Next1
           /\ \E r \in RandomSeeds :
                asm' = put([k \in {<< "riscv_csr_test", i >> : i \in 0 .. Head(todo).iterations - 1} |->
                              << "csr", r, k[2] >>], asm)
  <2>1. PICK new : asm' = put(new, asm) /\ \A k \in DOMAIN new : k[1] = "riscv_csr_test"
    <3> DEFINE K == {<< "riscv_csr_test", i >> : i \in 0 .. Head(todo).iterations - 1}
               F(r) == [k \in K |-> << "csr", r, k[2] >>]
    <3>1. PICK r : asm' = put(F(r), asm)
      BY <1>3
    <3>2. \A k \in DOMAIN F(r) : k[1] = "riscv_csr_test"
      OBVIOUS
    <3> HIDE DEF F
    <3> QED
      BY <3>1, <3>2
  <2>2. ASSUME NEW p \in recorded.now PROVE p \in DOMAIN asm' /\ asm'[p] = asm[p]
    <3>1. p \in DOMAIN asm /\ p[1] # "riscv_csr_test"
      BY <1>1 DEF ReplayInv, SeedsDrawn, Asked
    <3> QED
      BY <2>1, <3>1 DEF put
  <2>3. SeedsDrawn'
    BY <1>1, <2>2 DEF ReplayInv, SeedsDrawn, Asked
  <2>4. LoadedRun'
    BY <1>1, <1>3, NextCommand DEF ReplayInv, Next1
  <2>5. SeedsSaved' /\ RecordedParts'
    BY <1>1 DEF ReplayInv, SeedsSaved, RecordedParts
  <2> QED
    BY <2>3, <2>4, <2>5 DEF ReplayInv
<1> QED
  BY <1>2, <1>3 DEF CsrTest

\* seed.yaml and the programs it is about are replaced together.
LEMMA ReplaySave == ReplayInv /\ SaveSeeds => ReplayInv'
<1> SUFFICES ASSUME ReplayInv, SaveSeeds PROVE ReplayInv'
  OBVIOUS
<1>1. /\ UNCHANGED << args, sim_seed, asm, status >> /\ status = "running" /\ todo # << >> /\ todo' = Tail(todo)
      /\ seeds' = IF sim_seed = NoFile THEN seeds ELSE sim_seed
      /\ recorded' = IF sim_seed = NoFile THEN recorded
                     ELSE [now |-> {}, programs |-> [p \in recorded.now |-> asm[p]],
                           batch_size |-> args.batch_size]
  BY DEF SaveSeeds, Do, Next1, rest
<1>2. LoadedRun' /\ SeedsDrawn
  BY <1>1, NextCommand DEF ReplayInv
<1>3. CASE sim_seed = NoFile
  <2>1. UNCHANGED << seeds, recorded >>
    BY <1>1, <1>3
  <2> QED
    BY <1>1, <1>2, <2>1 DEF ReplayInv, SeedsDrawn, SeedsSaved, RecordedParts, Asked
<1>4. CASE sim_seed # NoFile
  <2>1. /\ seeds' = sim_seed /\ recorded'.now = {} /\ recorded'.batch_size = args.batch_size
        /\ recorded'.programs = [p \in recorded.now |-> asm[p]] /\ RecordedParts'
    BY <1>1, <1>4 DEF RecordedParts
  <2>2. SeedsSaved'
    BY <1>2, <2>1 DEF SeedsDrawn, SeedsSaved
  <2>3. SeedsDrawn'
    BY <2>1 DEF SeedsDrawn
  <2> QED
    BY <1>2, <2>1, <2>2, <2>3 DEF ReplayInv
<1> QED
  BY <1>3, <1>4

\* the programs of a batch
Programs(c, s) ==
  [p \in {<< c.test, i >> : i \in c.first .. c.first + c.size - 1} |->
     << "generated", c.test, s, p[2] - c.first >>]

\* A batch that is generated: its seed replaces the one of the same batch, and
\* the programs of both are the same.
LEMMA ReplayGenerated ==
  ASSUME ReplayInv, ImportsEnd, OneSizePerTest, status = "running", todo # << >>, Head(todo).op = "generate",
         NEW s, asm' = put(Programs(Head(todo), s), asm),
         sim_seed' = put(single(<< Head(todo).test, Head(todo).batch >>, s), sim_seed),
         recorded' = [recorded EXCEPT !.now = @ \union DOMAIN Programs(Head(todo), 0)],
         todo' = Tail(todo), UNCHANGED << status, args, seeds >>
  PROVE  ReplayInv'
<1>1. LoadedRun /\ SeedsDrawn /\ SeedsSaved /\ RecordedParts
  BY DEF ReplayInv
<1>2. PICK c : c = Head(todo)
  OBVIOUS
<1>3. c \in Gens(todo)
  <2>1. c \in Range(todo)
    BY <1>1, <1>2, HeadAndTail DEF LoadedRun
  <2> QED
    BY <1>2, <2>1 DEF Gens
<1>4. PICK e \in Range(Found(args)) : Batch(args, e, c)
  BY <1>1, <1>3 DEF LoadedRun
<1>5. /\ Options(args) /\ e.iterations \in Nat
      /\ \A d \in Range(Found(args)) : d.test = e.test => d.iterations = e.iterations
  BY <1>1, RunningOptions
<1>6. /\ c.op = "generate" /\ c.test = e.test /\ c.test # "riscv_csr_test"
      /\ c.batch \in Nat /\ c.first = c.batch * args.batch_size
      /\ \A i : i \in c.first .. c.first + c.size - 1 <=>
                i \in 0 .. e.iterations - 1 /\ BatchOf(args.batch_size, i) = c.batch
  BY <1>4, <1>5, InBatch
<1> DEFINE id == << c.test, c.batch >>
           D == {<< c.test, i >> : i \in c.first .. c.first + c.size - 1}
<1>7. /\ DOMAIN Programs(c, s) = D /\ DOMAIN Programs(c, 0) = D
      /\ \A p \in D : Programs(c, s)[p] = << "generated", c.test, s, p[2] - c.first >>
  BY DEF Programs
<1>8. /\ recorded'.now = recorded.now \union D /\ recorded'.programs = recorded.programs
      /\ recorded'.batch_size = recorded.batch_size /\ RecordedParts'
  BY <1>1, <1>2, <1>7 DEF RecordedParts
<1>9. /\ DOMAIN asm' = D \union DOMAIN asm
      /\ \A p \in D : asm'[p] = << "generated", c.test, s, p[2] - c.first >>
      /\ \A p \in DOMAIN asm \ D : asm'[p] = asm[p]
  BY <1>2, <1>7 DEF put
<1>10. /\ DOMAIN sim_seed' = {id} \union DOMAIN sim_seed
       /\ sim_seed'[id] = s /\ \A x \in DOMAIN sim_seed : x # id => sim_seed'[x] = sim_seed[x]
  BY <1>2 DEF put, single
<1>11. ASSUME NEW p \in D
       PROVE  Asked(p)' /\ p \in DOMAIN asm' /\ AsSeeded(sim_seed, args.batch_size, p, asm[p])'
  <2>1. PICK i \in c.first .. c.first + c.size - 1 : p = << c.test, i >>
    OBVIOUS
  <2>2. i \in 0 .. e.iterations - 1 /\ BatchOf(args.batch_size, i) = c.batch /\ p[1] = c.test /\ p[2] = i
    BY <1>6, <2>1
  <2>3. Asked(p)'
    BY <1>4, <1>6, <2>1, <2>2 DEF Asked
  <2>4. asm'[p] = << "generated", c.test, s, i - c.batch * args.batch_size >>
    BY <1>6, <1>9, <2>2
  <2> QED
    BY <1>9, <1>10, <2>2, <2>3, <2>4 DEF AsSeeded
<1>12. ASSUME NEW p \in recorded.now, p \notin D
       PROVE  Asked(p)' /\ p \in DOMAIN asm' /\ AsSeeded(sim_seed, args.batch_size, p, asm[p])'
  <2>1. Asked(p) /\ p \in DOMAIN asm /\ AsSeeded(sim_seed, args.batch_size, p, asm[p])
    BY <1>1 DEF SeedsDrawn
  <2>2. << p[1], BatchOf(args.batch_size, p[2]) >> # id
    <3>1. PICK d \in Range(Found(args)) : d.test = p[1] /\ p[2] \in 0 .. d.iterations - 1
      BY <2>1 DEF Asked
    <3>2. p = << p[1], p[2] >>
      BY <2>1 DEF Asked
    <3>3. ASSUME p[1] = c.test, BatchOf(args.batch_size, p[2]) = c.batch PROVE FALSE
      <4>1. p[2] \in 0 .. e.iterations - 1
        BY <1>5, <1>6, <3>1, <3>3
      <4>2. p[2] \in c.first .. c.first + c.size - 1
        BY <1>6, <3>3, <4>1
      <4> QED
        BY <1>12, <3>2, <3>3, <4>2
    <3> QED
      BY <3>3
  <2>3. asm'[p] = asm[p] /\ p \in DOMAIN asm'
    BY <1>9, <1>12, <2>1
  <2>4. Asked(p)'
    BY <2>1 DEF Asked
  <2>5. AsSeeded(sim_seed, args.batch_size, p, asm[p])'
    BY <1>10, <2>1, <2>2, <2>3 DEF AsSeeded
  <2> QED
    BY <2>3, <2>4, <2>5
<1>13. SeedsDrawn'
  BY <1>8, <1>11, <1>12 DEF SeedsDrawn
<1>14. SeedsSaved'
  BY <1>1, <1>8 DEF SeedsSaved
<1>15. LoadedRun'
  BY <1>1, NextCommand
<1> QED
  BY <1>8, <1>13, <1>14, <1>15 DEF ReplayInv

\* A batch.
LEMMA ReplayGenerate == ReplayInv /\ ImportsEnd /\ OneSizePerTest /\ GenerateBatch => ReplayInv'
<1> SUFFICES ASSUME ReplayInv, ImportsEnd, OneSizePerTest, GenerateBatch PROVE ReplayInv'
  OBVIOUS
<1>1. /\ UNCHANGED << args, seeds >> /\ status = "running" /\ todo # << >> /\ Head(todo).op = "generate"
  BY DEF GenerateBatch, Do, rest
<1>2. \/ /\ \E s : /\ asm' = put(Programs(Head(todo), s), asm)
                   /\ sim_seed' = put(single(<< Head(todo).test, Head(todo).batch >>, s), sim_seed)
         /\ recorded' = [recorded EXCEPT !.now = @ \union DOMAIN Programs(Head(todo), 0)]
         /\ todo' = Tail(todo) /\ UNCHANGED status
      \/ status' = "failed" /\ UNCHANGED recorded
  BY DEF GenerateBatch, Next1, Exit, Programs
<1>3. CASE status' = "failed" /\ UNCHANGED recorded
  BY <1>1, <1>3, ReplayEnd
<1>4. CASE /\ \E s : /\ asm' = put(Programs(Head(todo), s), asm)
                     /\ sim_seed' = put(single(<< Head(todo).test, Head(todo).batch >>, s), sim_seed)
           /\ recorded' = [recorded EXCEPT !.now = @ \union DOMAIN Programs(Head(todo), 0)]
           /\ todo' = Tail(todo) /\ UNCHANGED status
  BY <1>1, <1>4, ReplayGenerated
<1> QED
  BY <1>2, <1>3, <1>4

\* Every step preserves ReplayInv.
LEMMA ReplayStep ==
  ASSUME ImportsEnd, OneSizePerTest, ReplayInv, [RegressionNext]_vars
  PROVE  ReplayInv'
<1>1. CASE UNCHANGED vars
  BY <1>1 DEF vars, process, outdir, ghosts, ReplayInv, LoadedRun, SeedsDrawn, SeedsSaved, RecordedParts, Asked
<1>2. CASE RegressionNext
  BY <1>2, ReplayInvoke, ReplayStart, ReplayOthers, ReplayCsrTest, ReplayGenerate, ReplaySave
  DEF RegressionNext
<1> QED
  BY <1>1, <1>2

\* A batch is generated from the seed that is recorded for it.
LEMMA ReplayBatch ==
  ASSUME ImportsEnd, OneSizePerTest, ReplayInv, [RegressionNext]_vars,
         args.seed_yaml, args.batch_size = recorded.batch_size, Do("generate"),
         NEW p \in DOMAIN recorded.programs, p \in recorded'.now \ recorded.now
  PROVE  asm'[p] = recorded.programs[p]
<1>1. status = "running" /\ todo # << >> /\ Head(todo).op = "generate"
  BY DEF Do
<1>2. GenerateBatch
  <2>1. CASE UNCHANGED vars
    BY <2>1 DEF vars, ghosts
  <2>2. ~Invoke /\ ~StartIteration /\ ~Finish
    BY <1>1 DEF Invoke, StartIteration, Finish
  <2>3. /\ ~GiveUp /\ ~CompileDirected /\ ~Simulate /\ ~Compare /\ ~Summarize /\ ~RunCmd
        /\ ~CsrTest /\ ~SaveSeeds /\ ~Gcc
    BY <1>1 DEF GiveUp, CompileDirected, Simulate, Compare, Summarize, RunCmd, CsrTest, SaveSeeds, Gcc, Do
  <2> QED
    BY <2>1, <2>2, <2>3 DEF RegressionNext
<1>3. LoadedRun /\ SeedsSaved /\ RecordedParts
  BY <1>1 DEF ReplayInv
<1>4. PICK c : c = Head(todo)
  OBVIOUS
<1>5. c \in Gens(todo)
  <2>1. c \in Range(todo)
    BY <1>1, <1>3, <1>4, HeadAndTail DEF LoadedRun
  <2> QED
    BY <1>1, <1>4, <2>1 DEF Gens
<1>6. PICK e \in Range(Found(args)) : Batch(args, e, c)
  BY <1>3, <1>5 DEF LoadedRun
<1>7. Options(args) /\ e.iterations \in Nat
  BY <1>3, RunningOptions
<1>8. /\ c.batch \in Nat /\ c.first = c.batch * args.batch_size
      /\ \A i : i \in c.first .. c.first + c.size - 1 <=>
                i \in 0 .. e.iterations - 1 /\ BatchOf(args.batch_size, i) = c.batch
  BY <1>6, <1>7, InBatch
<1> DEFINE id == << c.test, c.batch >>
<1>9. PICK s \in SeedGen_get(args, id, c.test_iter) :
        /\ asm' = put(Programs(c, s), asm)
        /\ recorded' = [recorded EXCEPT !.now = @ \union DOMAIN Programs(c, 0)]
  BY <1>2, <1>4 DEF GenerateBatch, Programs
<1>10. recorded'.now = recorded.now \union DOMAIN Programs(c, 0)
  BY <1>3, <1>9 DEF RecordedParts
<1>11. PICK i \in c.first .. c.first + c.size - 1 : p = << c.test, i >>
  BY <1>10 DEF Programs
<1>12. p[1] = c.test /\ p[2] = i /\ BatchOf(args.batch_size, i) = c.batch
  BY <1>8, <1>11
<1>13. id \in DOMAIN seeds /\ recorded.programs[p] = << "generated", c.test, seeds[id], i - c.first >>
  <2>1. AsSeeded(seeds, args.batch_size, p, recorded.programs[p])
    BY <1>3 DEF SeedsSaved
  <2> QED
    BY <1>8, <1>12, <2>1 DEF AsSeeded
<1>14. s = seeds[id]
  BY <1>9, <1>13 DEF SeedGen_get
<1>15. asm'[p] = << "generated", c.test, s, i - c.first >>
  BY <1>9, <1>11, <1>12 DEF put, Programs
<1> QED
  BY <1>13, <1>14, <1>15

-----------------------------------------------------------------------------
\* verif/sim/cva6.py, SeedGen.get and do_simulate: a rerun with seed.yaml and the
\* batch size it was written with generates every program again, from whatever
\* command lines, failures and reruns there were in between.
THEOREM ReplayAlwaysReproduces ==
  ASSUME ImportsEnd, OneSizePerTest
  PROVE  RegressionSpec => ReplayReproduces
<1> DEFINE Reproduced ==
             args.seed_yaml /\ args.batch_size = recorded.batch_size /\ Do("generate") =>
               \A p \in DOMAIN recorded.programs :
                 p \in recorded'.now \ recorded.now => asm'[p] = recorded.programs[p]
<1>1. ReplayInv /\ [RegressionNext]_vars => ReplayInv'
  BY ReplayStep
<1>2. ReplayInv /\ [RegressionNext]_vars => Reproduced
  <2> SUFFICES ASSUME ReplayInv, [RegressionNext]_vars,
                      args.seed_yaml, args.batch_size = recorded.batch_size, Do("generate"),
                      NEW p \in DOMAIN recorded.programs, p \in recorded'.now \ recorded.now
               PROVE  asm'[p] = recorded.programs[p]
    OBVIOUS
  <2> QED
    BY ReplayBatch
<1>3. RegressionSpec => [][Reproduced]_vars
  <2> HIDE DEF Reproduced
  <2> QED
    BY <1>1, <1>2, ReplayInit, PTL DEF RegressionSpec
<1> QED
  BY <1>3 DEF ReplayReproduces

-----------------------------------------------------------------------------
(***************************************************************************)
(* The tests that are run.                                                 *)
(***************************************************************************)
\* do_simulate raises a KeyError for an entry it cannot generate.
LEMMA GenerateCrashes ==
  ASSUME NEW a, NEW e, Crashes(generate(a, e)) = {}
  PROVE  Generable(e)
<1> SUFFICES ASSUME ~Generable(e) PROVE FALSE
  OBVIOUS
<1>1. generate(a, e) = Crash
  BY DEF generate, Generable
<1> QED
  BY <1>1, CrashCommand

\* So it does for a list with such an entry.
LEMMA GenCrashes ==
  ASSUME NEW a, Options(a), NEW list, IsList(list), \A e \in Range(list) : e.iterations \in Nat,
         ~a.co, ~a.so, Crashes(gen(a, list)) = {}
  PROVE  \A e \in Range(list) : Generable(e)
<1> DEFINE build == IF Len(list) = 1 /\ list[1].test = "riscv_csr_test" THEN << >>
                    ELSE << [op |-> "run_cmd"] >>
           ss    == [n \in DOMAIN list |-> generate(a, list[n])]
           save  == << [op |-> "save_seeds"] >>
<1>1. CASE list = << >>
  BY <1>1, ShortLists
<1>2. CASE list # << >>
  <2>1. gen(a, list) = (get_generator_cmd(a) \o build) \o (FlattenSeq(ss) \o save)
    BY <1>2 DEF gen, Each
  <2>2. IsList(get_generator_cmd(a)) /\ IsList(build) /\ IsList(save)
    BY NoCommands, CrashCommand, OneCommand DEF get_generator_cmd
  <2>3. \A n \in DOMAIN list : IsList(ss[n])
    BY GenerateCommands DEF Range
  <2>4. ss = [n \in DOMAIN list |-> ss[n]]
    OBVIOUS
  <2>5. \A n \in DOMAIN list : Crashes(ss[n]) = {} => Generable(list[n])
    BY GenerateCrashes
  <2> HIDE DEF build, ss, save
  <2>6. IsList(FlattenSeq(ss)) /\ Crashes(FlattenSeq(ss)) = UNION {Crashes(ss[n]) : n \in DOMAIN list}
    BY <2>3, <2>4, EachCommands
  <2>7. IsList(get_generator_cmd(a) \o build)
    BY <2>2, MoreCommands
  <2>8. /\ IsList(FlattenSeq(ss) \o save)
        /\ Crashes(FlattenSeq(ss) \o save) = Crashes(FlattenSeq(ss)) \union Crashes(save)
    BY <2>2, <2>6, MoreCommands
  <2>9. Crashes(FlattenSeq(ss) \o save) \subseteq Crashes(gen(a, list))
    <3>1. PICK s : s = get_generator_cmd(a) \o build
      OBVIOUS
    <3>2. PICK t : t = FlattenSeq(ss) \o save
      OBVIOUS
    <3>3. PICK g : g = gen(a, list)
      OBVIOUS
    <3>4. IsList(s) /\ IsList(t) /\ g = s \o t
      BY <2>1, <2>7, <2>8, <3>1, <3>2, <3>3
    <3>5. Crashes(g) = Crashes(s) \union Crashes(t)
      BY <3>4, MoreCommands
    <3> QED
      BY <3>2, <3>3, <3>5
  <2>10. \A n \in DOMAIN list : Crashes(ss[n]) = {}
    BY <2>6, <2>8, <2>9
  <2> QED
    BY <2>5, <2>10 DEF Range
<1> QED
  BY <1>1, <1>2

\* An iteration that can be prepared has no such entry among the tests for the generator.
LEMMA PreparedTests ==
  ASSUME NEW a, Options(a), ImportsEnd, NEW k, whole_run(a), Crashes(Commands(a, k)) = {}
  PROVE  ~Faulty(a) /\ \A e \in Range(Matched(a)) : Generable(e)
<1>1. ~Faulty(a)
  BY CommandsOf
<1>2. PICK p : p = GivenPart(a, k)
  OBVIOUS
<1>3. PICK d : d = DirectedPart(a, k)
  OBVIOUS
<1>4. PICK g : g = gen(a, Matched(a))
  OBVIOUS
<1>5. PICK r : r = ElfPart(a)
  OBVIOUS
<1>6. IsList(p) /\ IsList(d) /\ IsList(r)
  BY <1>2, <1>3, <1>5, GivenCommands, ListedCommands, ElfPartCommands
<1>7. IsList(g)
  BY <1>4, MatchedEntries, GenCommands
<1>8. PICK q : q = d \o g
  OBVIOUS
<1>9. PICK u : u = p \o q
  OBVIOUS
<1>10. Commands(a, k) = u \o r
  BY <1>1, <1>2, <1>3, <1>4, <1>5, <1>8, <1>9, CommandParts DEF GenPart, When, whole_run, Steps
<1>11. IsList(q) /\ Crashes(g) \subseteq Crashes(q)
  BY <1>6, <1>7, <1>8, MoreCommands
<1>12. IsList(u) /\ Crashes(q) \subseteq Crashes(u)
  BY <1>6, <1>9, <1>11, MoreCommands
<1>13. Crashes(u) \subseteq Crashes(u \o r)
  BY <1>6, <1>12, MoreCommands
<1>14. Crashes(g) = {}
  BY <1>10, <1>11, <1>12, <1>13
<1> QED
  BY <1>1, <1>4, <1>14, MatchedEntries, GenCrashes DEF whole_run

\* an entry that was found, with its fields
Selected(e) == IsList(e.needs) /\ (has(e, "asm_tests") \/ has(e, "c_tests") => substituted(e) \/ ~Generable(e))

\* Only the iterations of an entry are replaced.
LEMMA SelectedEntries ==
  ASSUME NEW a, Options(a), ImportsEnd, DirectedEntries
  PROVE  \A e \in Range(Found(a)) : Selected(e)
<1> SUFFICES ASSUME NEW e \in Range(Found(a)) PROVE Selected(e)
  OBVIOUS
<1>1. Picked(a, e)
  BY FoundPicks DEF Options
<1>2. PICK l \in DOMAIN TestLists : \E d \in Range(TestLists[l]) : e = With(a, d)
  BY <1>1 DEF Picked
<1>3. PICK d \in Range(TestLists[l]) : e = With(a, d)
  BY <1>2
<1>4. Entry(d) /\ (has(d, "asm_tests") \/ has(d, "c_tests") => substituted(d) \/ ~Generable(d))
  BY RegressionAssumption DEF DirectedEntries
<1>5. e.fields = d.fields /\ e.needs = d.needs /\ e.test = d.test
  BY <1>3, <1>4 DEF Entry, With
<1> QED
  BY <1>4, <1>5 DEF Entry, Selected, has, substituted, Generable

\* what the options ask for of the configuration holds of the package
Configured(a) ==
  /\ known_target(a)
  /\ a.target = "hwconfig" => package = derive_config(Base, a.changes) /\ package # Error

\* the needs of an entry, by what was asked for
NeedsAsked(a, e) == \A n \in DOMAIN e.needs : Requested(Base, a.changes, e.needs[n][1]) = e.needs[n][2]

\* When the needs can be looked up, they are met if the changes ask for it.
LEMMA NeedsAreAsked ==
  ASSUME NEW a, Configured(a), Package(Base), ChainsEnd(params(Base)), Changes(a.changes),
         Literals(Base, a.changes), NEW e, IsList(e.needs), ~NeedsError(a, e)
  PROVE  NeedsMet(e) <=> NeedsAsked(a, e)
<1> DEFINE known_need(n) == e.needs[n][1] \in DOMAIN get_config(package)
<1>1. DOMAIN e.needs = 1 .. Len(e.needs) /\ Len(e.needs) \in Nat
  BY ListOf DEF IsList
<1>2. \A n \in DOMAIN e.needs : a.target # "hwconfig" \/ ~known_need(n) => \E m \in 1 .. n - 1 : ~met(e.needs[m])
  BY DEF NeedsError
<1>3. CASE a.target # "hwconfig"
  <2>1. 1 \notin DOMAIN e.needs
    BY <1>2, <1>3
  <2>2. DOMAIN e.needs = {}
    BY <1>1, <2>1
  <2> QED
    BY <2>2 DEF NeedsMet, NeedsAsked
<1>4. CASE a.target = "hwconfig"
  <2>1. ASSUME NEW n \in DOMAIN e.needs, known_need(n)
        PROVE  met(e.needs[n]) <=> Requested(Base, a.changes, e.needs[n][1]) = e.needs[n][2]
    <3>1. PICK f : f = e.needs[n][1]
      OBVIOUS
    <3>2. package = derive_config(Base, a.changes) /\ derive_config(Base, a.changes) # Error
      BY <1>4 DEF Configured
    <3>3. f \in DOMAIN get_config(derive_config(Base, a.changes))
      BY <2>1, <3>1, <3>2
    <3>4. get_config(derive_config(Base, a.changes))[f] = Requested(Base, a.changes, f)
      BY <3>2, <3>3, DerivedIsRequested
    <3> QED
      BY <3>1, <3>2, <3>4 DEF met
  <2>2. CASE \A n \in DOMAIN e.needs : known_need(n)
    BY <2>1, <2>2 DEF NeedsMet, NeedsAsked
  <2>3. CASE \E n \in DOMAIN e.needs : ~known_need(n)
    <3> DEFINE Unknown == {n \in DOMAIN e.needs : ~known_need(n)}
    <3>1. PICK n \in Unknown : \A m \in Unknown : n <= m
      <4>1. Unknown \subseteq Nat /\ Unknown # {}
        BY <1>1, <2>3
      <4> QED
        BY <4>1, LeastOf
    <3>2. PICK m \in 1 .. n - 1 : ~met(e.needs[m])
      BY <1>2, <3>1
    <3>3. m \in DOMAIN e.needs /\ m < n
      BY <1>1, <3>1, <3>2
    <3>4. known_need(m)
      BY <1>1, <3>1, <3>3
    <3>5. ~(Requested(Base, a.changes, e.needs[m][1]) = e.needs[m][2])
      BY <2>1, <3>2, <3>3, <3>4
    <3> QED
      BY <3>2, <3>3, <3>5 DEF NeedsMet, NeedsAsked
  <2> QED
    BY <2>2, <2>3
<1> QED
  BY <1>3, <1>4

\* The options that decide what is run, when all steps are.
WholeList(a) == whole_run(a) /\ arg_tests(a) = << >>

\* what one iteration simulates, and what lets it
IterationSims(a, j) == DirectedSims(a, j) \union GeneratedSims(a, Matched(a))

Prepared(a) == ~Faulty(a) /\ \A e \in Range(Matched(a)) : Generable(e)

\* An iteration simulates what is expected of the tests with the needs that are met.
LEMMA RunsOfIteration ==
  ASSUME NEW a, Options(a), ImportsEnd, DirectedEntries, WholeList(a), Prepared(a),
         NEW j \in 0 .. repeats(a) - 1, NEW iss, NEW log
  PROVE  << iss, log >> \in IterationSims(a, j) <=>
           iss \in Range(a.iss) /\ \E e \in Range(Able(a)) : << log, j + 1 >> \in runs_of(a, e)
<1> DEFINE In(e) == \/ e \in Range(Directed(a)) /\ log = log_of_test(a, e.test, j)
                    \/ e \in Range(Matched(a)) /\ ~has(e, "no_iss") /\ log \in ProgramLogs(a, e)
<1>1. /\ \A e \in Range(Able(a)) : e \in Range(Found(a))
      /\ \A e : e \in Range(Directed(a)) <=> e \in Range(Able(a)) /\ asm_directed(e)
      /\ \A e : e \in Range(Matched(a)) <=> e \in Range(Able(a)) /\ ~asm_directed(e) /\ ~c_directed(e)
  BY TestsOf
<1>2. << iss, log >> \in IterationSims(a, j) <=> iss \in Range(a.iss) /\ \E e \in Range(Able(a)) : In(e)
  <2>1. << iss, log >> \in DirectedSims(a, j) <=>
          iss \in Range(a.iss) /\ \E e \in Range(Directed(a)) : log = log_of_test(a, e.test, j)
    BY DEF DirectedSims
  <2>2. << iss, log >> \in GeneratedSims(a, Matched(a)) <=>
          iss \in Range(a.iss) /\ \E e \in Range(Matched(a)) : ~has(e, "no_iss") /\ log \in ProgramLogs(a, e)
    BY DEF GeneratedSims
  <2> QED
    BY <1>1, <2>1, <2>2 DEF IterationSims
<1>3. repeats(a) \in Nat
  BY DEF repeats, Options
<1>4. ASSUME NEW e \in Range(Able(a)) PROVE In(e) <=> << log, j + 1 >> \in runs_of(a, e)
  <2>1. has(e, "asm_tests") \/ has(e, "c_tests") => substituted(e) \/ ~Generable(e)
    BY <1>1, SelectedEntries DEF Selected
  <2>2. e \in Range(Matched(a)) => Generable(e)
    BY DEF Prepared
  <2>3. CASE has(e, "asm_tests")
    <3>1. runs_of(a, e) = {<< log_of_test(a, e.test, k), k + 1 >> : k \in 0 .. repeats(a) - 1}
      BY <2>3 DEF runs_of
    <3>2. << log, j + 1 >> \in runs_of(a, e) <=> log = log_of_test(a, e.test, j)
      <4>1. << log, j + 1 >> \in runs_of(a, e) <=>
              \E k \in 0 .. repeats(a) - 1 : log = log_of_test(a, e.test, k) /\ j + 1 = k + 1
        BY <3>1
      <4>2. \A k \in 0 .. repeats(a) - 1 : j + 1 = k + 1 <=> k = j
        BY <1>3
      <4> QED
        BY <4>1, <4>2
    <3>3. e \in Range(Directed(a)) /\ e \notin Range(Matched(a))
      BY <1>1, <2>1, <2>2, <2>3 DEF asm_directed, c_directed
    <3> QED
      BY <3>2, <3>3
  <2>4. CASE ~has(e, "asm_tests") /\ (has(e, "c_tests") \/ has(e, "no_iss"))
    <3>1. runs_of(a, e) = {}
      BY <2>4 DEF runs_of
    <3>2. e \notin Range(Directed(a)) /\ (e \in Range(Matched(a)) => has(e, "no_iss"))
      BY <1>1, <2>1, <2>2, <2>4 DEF asm_directed, c_directed
    <3> QED
      BY <3>1, <3>2
  <2>5. CASE ~has(e, "asm_tests") /\ ~has(e, "c_tests") /\ ~has(e, "no_iss")
    <3>1. runs_of(a, e) =
            {<< << e.test, i, a.target >>, k >> : i \in 0 .. e.iterations - 1, k \in 1 .. repeats(a)}
      BY <2>5 DEF runs_of
    <3>2. j + 1 \in 1 .. repeats(a)
      BY <1>3
    <3>3. << log, j + 1 >> \in runs_of(a, e) <=> log \in ProgramLogs(a, e)
      BY <3>1, <3>2 DEF ProgramLogs, log_of_program
    <3>4. e \notin Range(Directed(a)) /\ e \in Range(Matched(a))
      BY <1>1, <2>5 DEF asm_directed, c_directed
    <3> QED
      BY <2>5, <3>3, <3>4
  <2> QED
    BY <2>3, <2>4, <2>5
<1> HIDE DEF In
<1> QED
  BY <1>2, <1>4

\* The tests that can be run as asked are those with the needs that are met.
LEMMA RunnableTests ==
  ASSUME NEW a, Options(a), ImportsEnd, DirectedEntries, WholeList(a), Prepared(a), Configured(a),
         Package(Base), ChainsEnd(params(Base)), Changes(a.changes), Literals(Base, a.changes)
  PROVE  \A e : e \in Range(Runnable(a)) <=> e \in Range(Able(a))
<1>1. FoundFor(a) = Found(a) /\ IsList(Found(a))
  BY FoundEntries DEF FoundFor, WholeList, whole_run
<1>2. ASSUME NEW e \in Range(Found(a)) PROVE NeedsMet(e) <=> NeedsAsked(a, e)
  <2>1. IsList(e.needs)
    BY SelectedEntries DEF Selected
  <2>2. ~NeedsError(a, e)
    <3>1. PICK i \in DOMAIN Found(a) : e = Found(a)[i]
      BY DEF Range
    <3> QED
      BY <1>1, <3>1 DEF Prepared, Faulty
  <2> QED
    BY <2>1, <2>2, NeedsAreAsked
<1>3. \A e : e \in Range(Runnable(a)) <=> e \in Range(Found(a)) /\ NeedsAsked(a, e)
  <2> DEFINE list == Found(a)
             K == {e \in Range(list) : NeedsAsked(a, e)}
             ss == [n \in DOMAIN list |-> IF list[n] \in K THEN << list[n] >> ELSE << >>]
  <2>1. \A n \in DOMAIN list : list[n] \in K <=> NeedsAsked(a, list[n])
    BY DEF Range
  <2>2. ss = [n \in DOMAIN list |-> IF NeedsAsked(a, list[n]) THEN << list[n] >> ELSE << >>]
    BY <2>1
  <2>3. Runnable(a) = FlattenSeq(ss)
    BY <2>2 DEF Runnable, Those, Each, NeedsAsked
  <2>4. ss = [n \in DOMAIN list |-> ss[n]]
        /\ \A n \in DOMAIN list : ss[n] = IF list[n] \in K THEN << list[n] >> ELSE << >>
    OBVIOUS
  <2>5. Range(list) \intersect K = K
    OBVIOUS
  <2> HIDE DEF ss
  <2>6. Range(FlattenSeq(ss)) = Range(list) \intersect K
    <3> HIDE DEF K
    <3> QED
      BY <1>1, <2>4, ThoseRange
  <2> QED
    BY <2>3, <2>5, <2>6
<1> QED
  BY <1>1, <1>2, <1>3, TestsOf

\* a simulation that was run, one that is left in this iteration, and one that is
\* due in the iterations so far
Simulated(iss, log, k) == \E r \in ran : r.iss = iss /\ r.log = log /\ r.k = k

Coming(iss, log, k) == k = iteration /\ << iss, log >> \in Sims(todo)

Due(iss, log, k) == \E j \in 0 .. iteration - 1 : k = j + 1 /\ << iss, log >> \in IterationSims(args, j)

\* what was run and what is left is what is due, unless the iteration ends in a crash
RunsAreDue ==
  WholeList(args) /\ Crashes(todo) = {} =>
    /\ iteration # 0 => Prepared(args)
    /\ \A iss, log, k : Simulated(iss, log, k) \/ Coming(iss, log, k) <=> Due(iss, log, k)

\* an invocation that did not fail
UnderWay ==
  /\ \E i \in Invocations : args = loaded(i)
  /\ IsList(todo) /\ iteration \in 0 .. repeats(args)
  /\ Configured(args)
  /\ RunsAreDue

SelectInv ==
  /\ status \in {"running", "ok"} => UnderWay
  /\ status = "ok" => todo = << >> /\ iteration = repeats(args)

\* As long as options and package stay, so does what the tests are.
LEMMA SameTests ==
  ASSUME UNCHANGED << args, package >>
  PROVE  /\ (Configured(args)' <=> Configured(args)) /\ (Prepared(args)' <=> Prepared(args))
         /\ \A j : IterationSims(args, j)' = IterationSims(args, j)
<1>1. Able(args)' = Able(args)
  BY DEF Able, Those, Each, NeedsMet, met
<1>2. Directed(args)' = Directed(args) /\ Matched(args)' = Matched(args)
  BY <1>1 DEF Directed, Matched, Those, Each
<1>3. Faulty(args)' <=> Faulty(args)
  BY <1>1 DEF Faulty, NeedsError, met
<1>4. Prepared(args)' <=> Prepared(args)
  BY <1>2, <1>3 DEF Prepared
<1>5. Configured(args)' <=> Configured(args)
  BY DEF Configured
<1>6. \A j : IterationSims(args, j)' = IterationSims(args, j)
  BY <1>2 DEF IterationSims, DirectedSims, GeneratedSims
<1> QED
  BY <1>4, <1>5, <1>6

\* No invocation is under way at first.
LEMMA SelectInit == RegressionInit => SelectInv
BY DEF RegressionInit, SelectInv

\* An invocation starts with nothing run and nothing left to run.
LEMMA SelectInvoke == SelectInv /\ Invoke => SelectInv'
<1> SUFFICES ASSUME SelectInv, Invoke PROVE SelectInv'
  OBVIOUS
<1>1. PICK a \in Invocations, tools_fit \in check_tools_version :
        /\ args' = loaded(a)
        /\ IF usage_error(a) \/ ~known_target(a) \/ derived(a) = Error
           THEN tools_fit /\ status' = "failed" /\ UNCHANGED package
           ELSE status' = (IF tools_fit THEN "running" ELSE "failed") /\ package' = derived(a)
  BY DEF Invoke
<1>2. iteration' = 0 /\ todo' = << >> /\ ran' = {} /\ status' # "ok"
  BY <1>1 DEF Invoke
<1>3. ASSUME status' = "running" PROVE UnderWay'
  <2>1. known_target(a) /\ derived(a) # Error /\ package' = derived(a)
    BY <1>1, <1>3
  <2>2. args'.target = a.target /\ args'.changes = a.changes /\ Options(args')
    <3>1. PICK x : x = loaded(a)
      OBVIOUS
    <3>2. Options(x)
      BY <3>1, LoadedOptions
    <3>3. x.target = a.target /\ x.changes = a.changes
      BY <3>1, RegressionAssumption DEF loaded, Args
    <3> QED
      BY <1>1, <3>1, <3>2, <3>3
  <2>3. Configured(args)'
    BY <2>1, <2>2 DEF Configured, known_target, derived
  <2>4. IsList(todo') /\ iteration' \in 0 .. repeats(args')
    BY <1>2, <2>2, NoCommands DEF repeats, Options
  <2>5. RunsAreDue'
    <3>1. Sims(todo') = {}
      BY <1>2, NoCommands
    <3>2. \A iss, log, k : ~Simulated(iss, log, k)' /\ ~Coming(iss, log, k)' /\ ~Due(iss, log, k)'
      BY <1>2, <3>1 DEF Simulated, Coming, Due
    <3> QED
      BY <1>2, <3>2 DEF RunsAreDue
  <2> QED
    BY <1>1, <2>3, <2>4, <2>5 DEF UnderWay
<1> QED
  BY <1>2, <1>3 DEF SelectInv

\* A new iteration adds what is due in it.
LEMMA SelectStart ==
  ASSUME ImportsEnd, SelectInv, StartIteration
  PROVE  SelectInv'
<1>1. /\ status = "running" /\ status' = "running" /\ todo = << >> /\ iteration < repeats(args)
      /\ todo' = Commands(args, iteration) /\ iteration' = iteration + 1
      /\ UNCHANGED << args, package, ran >>
  BY DEF StartIteration, outdir
<1>2. UnderWay /\ iteration \in Nat /\ repeats(args) \in Nat /\ Options(args)
  <2>1. UnderWay
    BY <1>1 DEF SelectInv
  <2>2. Options(args)
    BY <2>1, LoadedOptions DEF UnderWay
  <2> QED
    BY <2>1, <2>2 DEF UnderWay, repeats, Options
<1>3. PICK s : s = Commands(args, iteration)
  OBVIOUS
<1>4. /\ IsList(s)
      /\ WholeList(args) /\ Crashes(s) = {} =>
           Prepared(args) /\ \A x : x \in Sims(s) <=> x \in IterationSims(args, iteration)
  BY <1>2, <1>3, CommandsOf, PreparedTests DEF WholeList, IterationSims, Prepared
<1>5. todo' = s
  BY <1>1, <1>3
<1>6. ASSUME WholeList(args), Crashes(s) = {}
      PROVE  Prepared(args)' /\ \A iss, log, k : Simulated(iss, log, k)' \/ Coming(iss, log, k)' <=> Due(iss, log, k)'
  <2>1. Prepared(args)' /\ \A j : IterationSims(args, j)' = IterationSims(args, j)
    BY <1>1, <1>4, <1>6, SameTests
  <2>2. ASSUME NEW iss, NEW log, NEW k
        PROVE  Simulated(iss, log, k)' \/ Coming(iss, log, k)' <=> Due(iss, log, k)'
    <3>1. Simulated(iss, log, k) <=> Due(iss, log, k)
      <4>1. Sims(todo) = {} /\ Crashes(todo) = {}
        BY <1>1, NoCommands
      <4> QED
        BY <1>2, <1>6, <4>1 DEF UnderWay, RunsAreDue, Coming
    <3>2. Simulated(iss, log, k)' <=> Simulated(iss, log, k)
      BY <1>1 DEF Simulated
    <3>3. Coming(iss, log, k)' <=> k = iteration + 1 /\ << iss, log >> \in IterationSims(args, iteration)
      BY <1>1, <1>4, <1>5, <1>6 DEF Coming
    <3>4. Due(iss, log, k)' <=> \E j \in 0 .. iteration : k = j + 1 /\ << iss, log >> \in IterationSims(args, j)
      <4>1. iteration' - 1 = iteration
        BY <1>1, <1>2
      <4> QED
        BY <2>1, <4>1 DEF Due
    <3>5. 0 .. iteration = (0 .. iteration - 1) \union {iteration}
      BY <1>2
    <3> QED
      BY <3>1, <3>2, <3>3, <3>4, <3>5 DEF Due
  <2> QED
    BY <2>1, <2>2
<1>7. RunsAreDue'
  BY <1>1, <1>5, <1>6 DEF RunsAreDue, WholeList
<1>8. UnderWay'
  <2>1. Configured(args)'
    BY <1>1, <1>2, SameTests DEF UnderWay
  <2>2. iteration' \in 0 .. repeats(args')
    BY <1>1, <1>2
  <2>3. IsList(todo')
    BY <1>4, <1>5
  <2> QED
    BY <1>1, <1>2, <1>7, <2>1, <2>2, <2>3 DEF UnderWay
<1> QED
  BY <1>1, <1>8 DEF SelectInv

\* The last iteration.
LEMMA SelectFinish ==
  ASSUME SelectInv, Finish
  PROVE  SelectInv'
<1>1. /\ status = "running" /\ todo = << >> /\ iteration = repeats(args)
      /\ UNCHANGED << args, iteration, todo, package, ran >>
  BY DEF Finish, outdir, ghosts
<1>2. UnderWay
  BY <1>1 DEF SelectInv
<1>3. RunsAreDue'
  <2>1. \A iss, log, k : /\ Simulated(iss, log, k)' <=> Simulated(iss, log, k)
                         /\ Coming(iss, log, k)' <=> Coming(iss, log, k)
                         /\ Due(iss, log, k)' <=> Due(iss, log, k)
    BY <1>1, SameTests DEF Simulated, Coming, Due
  <2> QED
    BY <1>1, <1>2, <2>1, SameTests DEF UnderWay, RunsAreDue, WholeList
<1>4. UnderWay'
  BY <1>1, <1>2, <1>3, SameTests DEF UnderWay
<1> QED
  BY <1>1, <1>4 DEF SelectInv

\* A command that is neither a crash nor the end of the invocation.
LEMMA SelectCommand ==
  ASSUME SelectInv, status = "running", status' = status, todo # << >>, todo' = Tail(todo),
         UNCHANGED << args, iteration, package >>, NEW c, c = Head(todo), c.op # "crash",
         \A iss, log, k : Simulated(iss, log, k)' <=>
           \/ Simulated(iss, log, k)
           \/ c.op = "simulate" /\ iss = c.iss /\ log = c.log /\ k = iteration
  PROVE  SelectInv'
<1>1. UnderWay
  BY DEF SelectInv
<1>2. PICK s : s = Tail(todo)
  OBVIOUS
<1>3. IsList(s) /\ Range(todo) = {c} \union Range(s)
  BY <1>1, <1>2, HeadAndTail DEF UnderWay
<1>4. Crashes(todo) = Crashes(s)
  BY <1>3 DEF Crashes
<1>5. \A iss, log : << iss, log >> \in Sims(todo) <=>
        << iss, log >> \in Sims(s) \/ (c.op = "simulate" /\ iss = c.iss /\ log = c.log)
  BY <1>3 DEF Sims
<1>6. todo' = s
  BY <1>2
<1>7. RunsAreDue'
  <2>1. ASSUME NEW iss, NEW log, NEW k
        PROVE  Simulated(iss, log, k)' \/ Coming(iss, log, k)' <=> Simulated(iss, log, k) \/ Coming(iss, log, k)
    BY <1>5, <1>6 DEF Coming
  <2>2. \A iss, log, k : Due(iss, log, k)' <=> Due(iss, log, k)
    BY SameTests DEF Due
  <2>3. (Prepared(args)' <=> Prepared(args)) /\ RunsAreDue
    BY <1>1, SameTests DEF UnderWay
  <2> QED
    BY <1>4, <1>6, <2>1, <2>2, <2>3 DEF RunsAreDue, WholeList
<1>8. UnderWay'
  BY <1>1, <1>3, <1>6, <1>7, SameTests DEF UnderWay
<1> QED
  BY <1>8 DEF SelectInv

\* A command that ends the invocation.
LEMMA SelectEnd ==
  ASSUME Exit
  PROVE  SelectInv'
BY DEF Exit, SelectInv

\* A simulation is run.
LEMMA SelectSimulate ==
  ASSUME SelectInv, Simulate
  PROVE  SelectInv'
<1>1. PICK c : c = Head(todo)
  OBVIOUS
<1>2. /\ status = "running" /\ todo # << >> /\ c.op = "simulate" /\ UNCHANGED << args, iteration, package >>
  BY <1>1 DEF Simulate, Do, rest
<1>3. \/ Exit
      \/ /\ ran' = ran \union {[iss |-> c.iss, log |-> c.log, yaml |-> c.yaml, k |-> iteration, ok |-> TRUE]}
         /\ Next1
  BY <1>1 DEF Simulate
<1>4. ASSUME ran' = ran \union {[iss |-> c.iss, log |-> c.log, yaml |-> c.yaml, k |-> iteration, ok |-> TRUE]},
             Next1
      PROVE  SelectInv'
  <2>1. ASSUME NEW iss, NEW log, NEW k
        PROVE  Simulated(iss, log, k)' <=>
                 \/ Simulated(iss, log, k)
                 \/ c.op = "simulate" /\ iss = c.iss /\ log = c.log /\ k = iteration
    <3>1. PICK x : x = [iss |-> c.iss, log |-> c.log, yaml |-> c.yaml, k |-> iteration, ok |-> TRUE]
      OBVIOUS
    <3>2. x.iss = c.iss /\ x.log = c.log /\ x.k = iteration /\ ran' = ran \union {x}
      BY <1>4, <3>1
    <3> QED
      BY <1>2, <3>2 DEF Simulated
  <2>2. todo' = Tail(todo) /\ status' = status /\ c.op # "crash"
    BY <1>2, <1>4 DEF Next1
  <2> QED
    BY <1>1, <1>2, <2>1, <2>2, SelectCommand
<1> QED
  BY <1>3, <1>4, SelectEnd

\* The other commands run no simulation.
LEMMA SelectOthers ==
  ASSUME SelectInv,
         \/ GiveUp \/ CompileDirected \/ Compare \/ Summarize \/ RunCmd \/ CsrTest \/ GenerateBatch
         \/ SaveSeeds \/ Gcc
  PROVE  SelectInv'
<1>1. PICK c : c = Head(todo)
  OBVIOUS
<1>2. /\ status = "running" /\ todo # << >> /\ UNCHANGED << args, iteration, package, ran >>
      /\ c.op # "simulate"
      /\ Exit \/ (Next1 /\ c.op # "crash")
  BY <1>1 DEF GiveUp, CompileDirected, Compare, Summarize, RunCmd, CsrTest, GenerateBatch, SaveSeeds, Gcc,
              Do, rest, ghosts
<1>3. ASSUME Next1, c.op # "crash" PROVE SelectInv'
  <2>1. todo' = Tail(todo) /\ status' = status
    BY <1>3 DEF Next1
  <2>2. \A iss, log, k : Simulated(iss, log, k)' <=>
          \/ Simulated(iss, log, k)
          \/ c.op = "simulate" /\ iss = c.iss /\ log = c.log /\ k = iteration
    BY <1>2 DEF Simulated
  <2> QED
    BY <1>1, <1>2, <1>3, <2>1, <2>2, SelectCommand
<1> QED
  BY <1>2, <1>3, SelectEnd

\* No step breaks it.
LEMMA SelectStep ==
  ASSUME ImportsEnd, SelectInv, [RegressionNext]_vars
  PROVE  SelectInv'
<1>1. CASE UNCHANGED vars
  <2>1. UNCHANGED << args, status, iteration, todo, package, ran >>
    BY <1>1 DEF vars, process, outdir, ghosts
  <2>2. \A iss, log, k : /\ Simulated(iss, log, k)' <=> Simulated(iss, log, k)
                         /\ Coming(iss, log, k)' <=> Coming(iss, log, k)
                         /\ Due(iss, log, k)' <=> Due(iss, log, k)
    BY <2>1, SameTests DEF Simulated, Coming, Due
  <2>3. RunsAreDue => RunsAreDue'
    BY <2>1, <2>2, SameTests DEF RunsAreDue, WholeList
  <2>4. UnderWay => UnderWay'
    BY <2>1, <2>3, SameTests DEF UnderWay
  <2> QED
    BY <2>1, <2>4 DEF SelectInv
<1> QED
  BY <1>1, SelectInvoke, SelectStart, SelectFinish, SelectSimulate, SelectOthers DEF RegressionNext

\* When an invocation has come to its end, what was run is what is expected.
LEMMA SelectedAtEnd ==
  ASSUME ImportsEnd, DirectedEntries, PlainChanges, SelectInv
  PROVE  SelectedTestsRun
<1> SUFFICES ASSUME status = "ok", whole_run(args), arg_tests(args) = << >>
             PROVE  {<< r.iss, r.log, r.k >> : r \in ran}
                      = {<< args.iss[j], x[1], x[2] >> : j \in DOMAIN args.iss, x \in Expected(args)}
  BY DEF SelectedTestsRun
<1>1. UnderWay /\ todo = << >> /\ iteration = repeats(args) /\ WholeList(args)
  BY DEF SelectInv, WholeList
<1>2. PICK i \in Invocations : args = loaded(i)
  BY <1>1 DEF UnderWay
<1>3. Options(args) /\ args.changes = i.changes
  <2>1. PICK x : x = loaded(i)
    OBVIOUS
  <2>2. Options(x)
    BY <2>1, LoadedOptions
  <2>3. x.changes = i.changes
    BY <2>1, RegressionAssumption DEF loaded, Args
  <2> QED
    BY <1>2, <2>1, <2>2, <2>3
<1>4. repeats(args) \in Nat /\ repeats(args) # 0
  BY <1>3 DEF repeats, Options
<1>5. Sims(todo) = {} /\ Crashes(todo) = {}
  BY <1>1, NoCommands
<1>6. Prepared(args) /\ \A iss, log, k : Simulated(iss, log, k) <=> Due(iss, log, k)
  BY <1>1, <1>4, <1>5 DEF UnderWay, RunsAreDue, Coming
<1>7. \A e : e \in Range(Runnable(args)) <=> e \in Range(Able(args))
  BY <1>1, <1>3, <1>6, RunnableTests DEF UnderWay, PlainChanges
<1>8. \A y : y \in Expected(args) <=> \E e \in Range(Able(args)) : y \in runs_of(args, e)
  <2>1. PICK asked : asked = Runnable(args)
    OBVIOUS
  <2>2. \A y : y \in Expected(args) <=> \E n \in DOMAIN asked : y \in runs_of(args, asked[n])
    BY <2>1 DEF Expected
  <2>3. \A y : y \in Expected(args) <=> \E e \in Range(asked) : y \in runs_of(args, e)
    BY <2>2 DEF Range
  <2> QED
    BY <1>7, <2>1, <2>3
<1>9. \A e, y : y \in runs_of(args, e) => \E log : \E j \in 0 .. repeats(args) - 1 : y = << log, j + 1 >>
  <2>1. ASSUME NEW e, NEW y \in runs_of(args, e)
        PROVE  \E log : \E j \in 0 .. repeats(args) - 1 : y = << log, j + 1 >>
    <3>1. \/ \E k \in 0 .. repeats(args) - 1 : y = << log_of_test(args, e.test, k), k + 1 >>
          \/ \E n \in 0 .. e.iterations - 1, k \in 1 .. repeats(args) : y = << << e.test, n, args.target >>, k >>
      BY DEF runs_of
    <3>2. ASSUME NEW n, NEW k \in 1 .. repeats(args), y = << << e.test, n, args.target >>, k >>
          PROVE  \E log : \E j \in 0 .. repeats(args) - 1 : y = << log, j + 1 >>
      <4>1. k - 1 \in 0 .. repeats(args) - 1 /\ (k - 1) + 1 = k
        BY <1>4
      <4> QED
        BY <3>2, <4>1
    <3> QED
      BY <3>1, <3>2
  <2> QED
    BY <2>1
<1>10. ASSUME NEW iss, NEW log, NEW k
       PROVE  Due(iss, log, k) <=> iss \in Range(args.iss) /\ << log, k >> \in Expected(args)
  <2>1. Due(iss, log, k) <=>
          \E j \in 0 .. repeats(args) - 1 :
            k = j + 1 /\ iss \in Range(args.iss) /\ \E e \in Range(Able(args)) : << log, j + 1 >> \in runs_of(args, e)
    BY <1>1, <1>3, <1>6, RunsOfIteration DEF Due
  <2>2. << log, k >> \in Expected(args) => \E j \in 0 .. repeats(args) - 1 : k = j + 1
    BY <1>8, <1>9
  <2> QED
    BY <1>8, <2>1, <2>2
<1> DEFINE L == {<< r.iss, r.log, r.k >> : r \in ran}
           R == {<< args.iss[j], x[1], x[2] >> : j \in DOMAIN args.iss, x \in Expected(args)}
<1>11. ASSUME NEW z \in L PROVE z \in R
  <2>1. PICK iss, log, k : z = << iss, log, k >> /\ Simulated(iss, log, k)
    BY DEF Simulated
  <2>2. iss \in Range(args.iss) /\ << log, k >> \in Expected(args)
    BY <1>6, <1>10, <2>1
  <2>3. PICK j \in DOMAIN args.iss : iss = args.iss[j]
    BY <2>2 DEF Range
  <2>4. PICK x \in Expected(args) : x = << log, k >>
    BY <2>2
  <2> QED
    BY <2>1, <2>3, <2>4
<1>12. ASSUME NEW z \in R PROVE z \in L
  <2>1. PICK j \in DOMAIN args.iss, x \in Expected(args) : z = << args.iss[j], x[1], x[2] >>
    OBVIOUS
  <2>2. PICK log, k : x = << log, k >>
    BY <1>8, <1>9
  <2>3. Simulated(args.iss[j], log, k)
    <3>1. args.iss[j] \in Range(args.iss)
      BY DEF Range
    <3> QED
      BY <1>6, <1>10, <2>2, <3>1
  <2> QED
    BY <2>1, <2>2, <2>3 DEF Simulated
<1> HIDE DEF L, R
<1>13. L = R
  BY <1>11, <1>12
<1> QED
  BY <1>13 DEF L, R

\* An invocation with all steps that ends without an error has run every test
\* that was selected and that the configuration can run, in every iteration and
\* on every simulator, and nothing else: imports are followed to their end, the
\* needs are looked up in the derived package, which has what the changes ask
\* for, and each iteration of main() lists the commands of the same tests.
THEOREM SelectedTestsAreRun ==
  ASSUME ImportsEnd, DirectedEntries, PlainChanges
  PROVE  RegressionSpec => []SelectedTestsRun
<1>1. SelectInv /\ [RegressionNext]_vars => SelectInv'
  BY SelectStep
<1>2. SelectInv => SelectedTestsRun
  BY SelectedAtEnd
<1>3. RegressionSpec => []SelectInv
  <2> HIDE DEF SelectInv
  <2> QED
    BY <1>1, SelectInit, PTL DEF RegressionSpec
<1> QED
  BY <1>2, <1>3, PTL

-----------------------------------------------------------------------------
(***************************************************************************)
(* The readers of the logs.                                                *)
(***************************************************************************)
\* the first n members
First(ss, n) == [i \in 1 .. n |-> ss[i]]

Joins(ss, f, n) == f = [i \in 1 .. n |-> Joined(ss, f, i)]

\* Two functions that join the same lists agree.
LEMMA JoinsAgree ==
  ASSUME NEW ss, NEW m \in Nat \ {0}, NEW n \in Nat, n <= m,
         NEW f, Joins(ss, f, m), NEW g, Joins(ss, g, n)
  PROVE  \A i \in 1 .. n : f[i] = g[i]
<1> DEFINE Bad == {i \in 1 .. n : f[i] # g[i]}
<1>1. SUFFICES ASSUME Bad # {} PROVE FALSE
  OBVIOUS
<1>2. PICK i \in Bad : \A j \in Bad : i <= j
  <2>1. Bad \subseteq Nat
    OBVIOUS
  <2> QED
    BY <1>1, <2>1, LeastOf
<1>3. i \in 1 .. n /\ i \in 1 .. m /\ f[i] # g[i]
  BY <1>2
<1>4. f[i] = Joined(ss, f, i) /\ g[i] = Joined(ss, g, i)
  BY <1>3 DEF Joins
<1>5. i # 1 => f[i - 1] = g[i - 1]
  <2>1. ASSUME i # 1 PROVE i - 1 \in 1 .. n /\ i - 1 \notin Bad
    <3>1. i - 1 \in 1 .. n
      BY <1>3, <2>1
    <3>2. ~(i <= i - 1)
      BY <1>3
    <3> HIDE DEF Bad
    <3> QED
      BY <1>2, <3>1, <3>2
  <2> QED
    BY <2>1
<1> QED
  BY <1>3, <1>4, <1>5 DEF Joined

\* One list more.
LEMMA FlattenStep ==
  ASSUME NEW ss, NEW n \in Nat \ {0}, \A i \in 1 .. n : IsList(ss[i])
  PROVE  /\ FlattenSeq(First(ss, n)) = FlattenSeq(First(ss, n - 1)) \o ss[n]
         /\ IsList(FlattenSeq(First(ss, n)))
<1> DEFINE long == First(ss, n)
           short == First(ss, n - 1)
<1>1. /\ IsList(long) /\ DOMAIN long = 1 .. n /\ \A i \in 1 .. n : long[i] = ss[i]
      /\ IsList(short) /\ DOMAIN short = 1 .. n - 1 /\ \A i \in 1 .. n - 1 : short[i] = ss[i]
  <2>1. n - 1 \in Nat /\ long = [i \in 1 .. n |-> long[i]] /\ short = [i \in 1 .. n - 1 |-> short[i]]
    BY DEF First
  <2>2. DOMAIN long = 1 .. n /\ DOMAIN short = 1 .. n - 1
    BY DEF First
  <2>3. (\A i \in 1 .. n : long[i] = ss[i]) /\ \A i \in 1 .. n - 1 : short[i] = ss[i]
    BY DEF First
  <2> HIDE DEF long, short
  <2> QED
    BY <2>1, <2>2, <2>3, MapList
<1>2. Len(long) = n /\ Len(short) = n - 1
  <2> HIDE DEF long, short
  <2>1. /\ DOMAIN long = 1 .. Len(long) /\ Len(long) \in Nat
        /\ DOMAIN short = 1 .. Len(short) /\ Len(short) \in Nat
    BY <1>1, ListOf DEF IsList
  <2> QED
    BY <1>1, <2>1
<1>3. IsList(FlattenSeq(long))
  <2> HIDE DEF long, short
  <2> QED
    BY <1>1, FlattenRange
<1>4. PICK f : f = [i \in 1 .. n |-> Joined(long, f, i)] /\ FlattenSeq(long) = f[n]
  <2> HIDE DEF long, short
  <2> QED
    BY <1>2, FlattenJoins
<1>5. CASE n = 1
  <2>1. f[1] = ss[1]
    BY <1>1, <1>4, <1>5 DEF Joined
  <2>2. FlattenSeq(short) = << >>
    <3>1. short = << >>
      BY <1>2, <1>5 DEF First
    <3> QED
      BY <1>2, <1>5, <3>1 DEF FlattenSeq
  <2>3. << >> \o ss[1] = ss[1]
    BY <1>5 DEF IsList
  <2> QED
    BY <1>3, <1>4, <1>5, <2>1, <2>2, <2>3
<1>6. CASE n # 1
  <2>1. PICK g : g = [i \in 1 .. n - 1 |-> Joined(short, g, i)] /\ FlattenSeq(short) = g[n - 1]
    <3>1. Len(short) \in Nat \ {0}
      BY <1>2, <1>6
    <3> HIDE DEF short, long
    <3> QED
      BY <1>2, <3>1, FlattenJoins
  <2>2. g = [i \in 1 .. n - 1 |-> Joined(long, g, i)]
    <3>1. \A i \in 1 .. n - 1 : Joined(short, g, i) = Joined(long, g, i)
      BY <1>1 DEF Joined
    <3> QED
      BY <2>1, <3>1
  <2>3. f[n - 1] = g[n - 1]
    <3>1. PICK k \in Nat : k = n - 1 /\ k <= n /\ k \in 1 .. k
      BY <1>6
    <3> HIDE DEF long, short
    <3>2. Joins(long, g, k)
      BY <2>2, <3>1 DEF Joins
    <3>3. Joins(long, f, n)
      BY <1>4 DEF Joins
    <3>4. \A i \in 1 .. k : f[i] = g[i]
      BY <3>1, <3>2, <3>3, JoinsAgree
    <3> QED
      BY <3>1, <3>4
  <2>4. f[n] = f[n - 1] \o ss[n]
    <3>1. n \in 1 .. n /\ long[n] = ss[n]
      BY <1>1
    <3> HIDE DEF long, short
    <3>2. f[n] = Joined(long, f, n)
      BY <1>4, <3>1
    <3> QED
      BY <1>6, <3>1, <3>2 DEF Joined
  <2> QED
    BY <1>3, <1>4, <2>1, <2>3, <2>4
<1> QED
  BY <1>5, <1>6

\* No list.
LEMMA FlattenNone ==
  ASSUME NEW ss
  PROVE  First(ss, 0) = << >> /\ FlattenSeq(First(ss, 0)) = << >>
<1>1. First(ss, 0) = << >>
  BY DEF First
<1> QED
  BY <1>1 DEF FlattenSeq

-----------------------------------------------------------------------------
(***************************************************************************)
(* The readers, line by line.                                              *)
(***************************************************************************)
Reads(who, r, l) == IF who = "spike" THEN spike_line(r, l) ELSE verilator_line(r, l)

Round(who, start, log, f, n) == IF n = 0 THEN start ELSE Reads(who, f[n - 1], log[n])

Rounds(who, start, log, f, N) == f = [n \in 0 .. N |-> Round(who, start, log, f, n)]

\* the state of a reader after a log
ReadFrom(who, start, log) == (CHOOSE f : Rounds(who, start, log, f, Len(log)))[Len(log)]

\* There are such states.
LEMMA RoundsExist ==
  ASSUME NEW who, NEW start, NEW log, NEW N \in Nat
  PROVE  \E f : Rounds(who, start, log, f, N)
<1> DEFINE Bad == {k \in Nat : ~\E f : Rounds(who, start, log, f, k)}
<1>1. SUFFICES ASSUME Bad # {} PROVE FALSE
  OBVIOUS
<1>2. PICK k \in Bad : \A m \in Bad : k <= m
  <2>1. Bad \subseteq Nat
    OBVIOUS
  <2> QED
    BY <1>1, <2>1, LeastOf
<1>3. k \in Nat /\ k # 0
  <2> DEFINE f == [n \in 0 .. 0 |-> start]
  <2>1. Rounds(who, start, log, f, 0)
    BY DEF Rounds, Round
  <2>2. 0 \notin Bad
    BY <2>1
  <2> QED
    BY <1>2, <2>2
<1>4. PICK f : Rounds(who, start, log, f, k - 1)
  <2>1. k - 1 \in Nat /\ ~(k <= k - 1)
    BY <1>3
  <2>2. k - 1 \notin Bad
    <3> HIDE DEF Bad
    <3> QED
      BY <1>2, <2>1
  <2> QED
    BY <2>1, <2>2
<1> DEFINE g == [n \in 0 .. k |-> Round(who, start, log, f, n)]
<1>5. ASSUME NEW n \in 0 .. k PROVE Round(who, start, log, f, n) = Round(who, start, log, g, n)
  <2>1. n # 0 => f[n - 1] = g[n - 1]
    BY <1>3, <1>4 DEF Rounds
  <2> QED
    BY <2>1 DEF Round
<1>6. Rounds(who, start, log, g, k)
  BY <1>5 DEF Rounds
<1> QED
  BY <1>2, <1>6

\* Reading the same lines from the same state gives the same states.
LEMMA RoundsAgree ==
  ASSUME NEW who, NEW start, NEW m \in Nat, NEW n \in Nat, NEW d \in Nat, d + n <= m,
         NEW log, NEW f, Rounds(who, start, log, f, m),
         NEW more, NEW from, NEW g, Rounds(who, from, more, g, n),
         from = f[d], \A i \in 1 .. n : more[i] = log[d + i]
  PROVE  \A i \in 0 .. n : f[d + i] = g[i]
<1> DEFINE Bad == {i \in 0 .. n : f[d + i] # g[i]}
<1>1. SUFFICES ASSUME Bad # {} PROVE FALSE
  OBVIOUS
<1>2. PICK i \in Bad : \A j \in Bad : i <= j
  <2>1. Bad \subseteq Nat
    OBVIOUS
  <2> QED
    BY <1>1, <2>1, LeastOf
<1>3. i \in 0 .. n /\ d + i \in 0 .. m /\ f[d + i] # g[i]
  BY <1>2
<1>4. f[d + i] = Round(who, start, log, f, d + i) /\ g[i] = Round(who, from, more, g, i)
  BY <1>3 DEF Rounds
<1>5. i # 0
  BY <1>3, <1>4 DEF Round
<1>6. f[d + i - 1] = g[i - 1]
  <2>1. i - 1 \in 0 .. n /\ ~(i <= i - 1) /\ d + (i - 1) = d + i - 1
    BY <1>3, <1>5
  <2>2. i - 1 \notin Bad
    <3> HIDE DEF Bad
    <3> QED
      BY <1>2, <2>1
  <2> QED
    BY <2>1, <2>2
<1>7. more[i] = log[d + i] /\ d + i # 0
  BY <1>3, <1>5
<1> QED
  BY <1>3, <1>4, <1>5, <1>6, <1>7 DEF Round

\* the states the lines of a log go through
LEMMA AfterRounds ==
  ASSUME NEW who, NEW start, NEW log, IsList(log)
  PROVE  \E f : Rounds(who, start, log, f, Len(log)) /\ ReadFrom(who, start, log) = f[Len(log)]
<1>1. Len(log) \in Nat
  BY ListOf DEF IsList
<1> QED
  BY <1>1, RoundsExist DEF ReadFrom

\* They are determined.
LEMMA RoundsSame ==
  ASSUME NEW who, NEW start, NEW log, NEW n \in Nat,
         NEW f, Rounds(who, start, log, f, n), NEW g, Rounds(who, start, log, g, n)
  PROVE  f = g
<1> DEFINE Bad == {i \in 0 .. n : f[i] # g[i]}
<1>1. Bad = {}
  <2>1. SUFFICES ASSUME Bad # {} PROVE FALSE
    OBVIOUS
  <2>2. PICK i \in Bad : \A j \in Bad : i <= j
    <3>1. Bad \subseteq Nat
      OBVIOUS
    <3> QED
      BY <2>1, <3>1, LeastOf
  <2>3. i \in 0 .. n /\ f[i] # g[i]
    BY <2>2
  <2>4. f[i] = Round(who, start, log, f, i) /\ g[i] = Round(who, start, log, g, i)
    BY <2>3 DEF Rounds
  <2>5. i # 0
    BY <2>3, <2>4 DEF Round
  <2>6. i - 1 \in 0 .. n /\ ~(i <= i - 1)
    BY <2>3, <2>5
  <2>7. i - 1 \notin Bad
    <3> HIDE DEF Bad
    <3> QED
      BY <2>2, <2>6
  <2> QED
    BY <2>3, <2>4, <2>6, <2>7 DEF Round
<1> QED
  BY <1>1 DEF Rounds

\* Any such states end in this one.
LEMMA AfterIs ==
  ASSUME NEW who, NEW start, NEW log, IsList(log), NEW f, Rounds(who, start, log, f, Len(log))
  PROVE  ReadFrom(who, start, log) = f[Len(log)]
<1>1. PICK g : Rounds(who, start, log, g, Len(log)) /\ ReadFrom(who, start, log) = g[Len(log)]
  BY AfterRounds
<1>2. PICK n \in Nat : n = Len(log)
  BY ListOf DEF IsList
<1>3. f = g
  BY <1>1, <1>2, RoundsSame
<1> QED
  BY <1>1, <1>3

\* Reading two logs one after the other.
LEMMA AfterJoin ==
  ASSUME NEW who, NEW start, NEW s, NEW t, IsList(s), IsList(t)
  PROVE  ReadFrom(who, start, s \o t) = ReadFrom(who, ReadFrom(who, start, s), t)
<1>1. PICK m \in Nat, n \in Nat : m = Len(s) /\ n = Len(t)
  BY ListOf DEF IsList
<1>2. /\ IsList(s \o t) /\ Len(s \o t) = m + n
      /\ \A i \in 1 .. m : (s \o t)[i] = s[i]
      /\ \A i \in 1 .. n : (s \o t)[m + i] = t[i]
  <2>1. s \in Seq(Range(s) \union Range(t)) /\ t \in Seq(Range(s) \union Range(t))
    BY SeqMonotonic DEF IsList
  <2>2. /\ Len(s \o t) = Len(s) + Len(t)
        /\ \A i \in 1 .. Len(s) + Len(t) : (s \o t)[i] = IF i <= Len(s) THEN s[i] ELSE t[i - Len(s)]
    BY <2>1, ConcatProperties
  <2> QED
    BY <1>1, <2>2, Concat
<1>3. PICK st : st = s \o t
  OBVIOUS
<1>4. PICK mn \in Nat : mn = m + n
  OBVIOUS
<1>44. PICK f : Rounds(who, start, st, f, mn) /\ ReadFrom(who, start, st) = f[mn]
  <2>1. IsList(st) /\ Len(st) = mn
    BY <1>2, <1>3, <1>4
  <2> QED
    BY <2>1, AfterRounds
<1>5. PICK g : Rounds(who, start, s, g, m) /\ ReadFrom(who, start, s) = g[m]
  BY <1>1, AfterRounds
<1>6. PICK mid : mid = ReadFrom(who, start, s)
  OBVIOUS
<1>7. PICK h : Rounds(who, mid, t, h, n) /\ ReadFrom(who, mid, t) = h[n]
  BY <1>1, AfterRounds
<1>8. f[0] = start
  BY <1>44 DEF Rounds, Round
<1>9. \A i \in 0 .. m : f[i] = g[i]
  <2>1. PICK z \in Nat : z = 0
    OBVIOUS
  <2>2. PICK from : from = start
    OBVIOUS
  <2>3. z + m <= mn /\ from = f[z] /\ \A i \in 1 .. m : s[i] = st[z + i]
    BY <1>2, <1>3, <1>4, <1>8, <2>1, <2>2
  <2>5. Rounds(who, from, s, g, m)
    BY <1>5, <2>2
  <2>4. \A i \in 0 .. m : f[z + i] = g[i]
    BY <1>44, <2>3, <2>5, RoundsAgree
  <2> QED
    BY <2>1, <2>4
<1>10. mid = f[m]
  BY <1>5, <1>6, <1>9
<1>11. \A i \in 0 .. n : f[m + i] = h[i]
  <2>1. m + n <= mn /\ \A i \in 1 .. n : t[i] = st[m + i]
    BY <1>2, <1>3, <1>4
  <2> QED
    BY <1>44, <1>7, <1>10, <2>1, RoundsAgree
<1> QED
  BY <1>3, <1>4, <1>44, <1>6, <1>7, <1>11

\* No line, and one.
LEMMA AfterFew ==
  ASSUME NEW who, NEW r
  PROVE  ReadFrom(who, r, << >>) = r /\ \A l : ReadFrom(who, r, << l >>) = Reads(who, r, l)
<1>1. ReadFrom(who, r, << >>) = r
  <2>1. PICK f : Rounds(who, r, << >>, f, 0) /\ ReadFrom(who, r, << >>) = f[0]
    <3>1. IsList(<< >>) /\ Len(<< >>) = 0
      BY ShortLists
    <3> QED
      BY <3>1, AfterRounds
  <2> QED
    BY <2>1 DEF Rounds, Round
<1>2. ASSUME NEW l PROVE ReadFrom(who, r, << l >>) = Reads(who, r, l)
  <2>1. PICK log : log = << l >>
    OBVIOUS
  <2>2. IsList(log) /\ Len(log) = 1 /\ log[1] = l
    BY <2>1, ShortLists
  <2>3. PICK f : Rounds(who, r, log, f, 1) /\ ReadFrom(who, r, log) = f[1]
    BY <2>2, AfterRounds
  <2>4. f[0] = r /\ f[1] = Reads(who, f[0], l)
    BY <2>2, <2>3 DEF Rounds, Round
  <2> QED
    BY <2>1, <2>3, <2>4
<1> QED
  BY <1>1, <1>2

\* The loops of the scripts.
LEMMA ProcessIs ==
  ASSUME NEW log, IsList(log)
  PROVE  /\ process_spike_sim_log(log) = written(yielded(ReadFrom("spike", Reader, log)))
         /\ process_verilator_sim_log(log)
              = written(yielded(ReadFrom("rtl", [Reader EXCEPT !.in_trampoline = TRUE], log)))
<1>1. PICK N \in Nat : N = Len(log)
  BY ListOf DEF IsList
<1>2. Loop(spike_line, Reader, log) = ReadFrom("spike", Reader, log)
  <2> DEFINE f == CHOOSE f : f = [n \in 0 .. N |-> IF n = 0 THEN Reader ELSE spike_line(f[n - 1], log[n])]
  <2>1. Loop(spike_line, Reader, log) = f[N]
    BY <1>1 DEF Loop
  <2>2. ASSUME NEW g PROVE Rounds("spike", Reader, log, g, N) <=>
                           g = [n \in 0 .. N |-> IF n = 0 THEN Reader ELSE spike_line(g[n - 1], log[n])]
    BY DEF Rounds, Round, Reads
  <2>3. \E g : Rounds("spike", Reader, log, g, N)
    BY RoundsExist
  <2>4. Rounds("spike", Reader, log, f, N)
    BY <2>2, <2>3
  <2> HIDE DEF f
  <2> QED
    BY <1>1, <2>1, <2>4, AfterIs
<1>3. ASSUME NEW start PROVE Loop(verilator_line, start, log) = ReadFrom("rtl", start, log)
  <2> DEFINE f == CHOOSE f : f = [n \in 0 .. N |-> IF n = 0 THEN start ELSE verilator_line(f[n - 1], log[n])]
  <2>1. Loop(verilator_line, start, log) = f[N]
    BY <1>1 DEF Loop
  <2>2. ASSUME NEW g PROVE Rounds("rtl", start, log, g, N) <=>
                           g = [n \in 0 .. N |-> IF n = 0 THEN start ELSE verilator_line(g[n - 1], log[n])]
    BY DEF Rounds, Round, Reads
  <2>3. \E g : Rounds("rtl", start, log, g, N)
    BY RoundsExist
  <2>4. Rounds("rtl", start, log, f, N)
    BY <2>2, <2>3
  <2> HIDE DEF f
  <2> QED
    BY <1>1, <2>1, <2>4, AfterIs
<1> QED
  BY <1>2, <1>3 DEF process_spike_sim_log, process_verilator_sim_log

-----------------------------------------------------------------------------
(***************************************************************************)
(* One instruction.                                                        *)
(***************************************************************************)
State(t, d, i, s, o) == [in_trampoline |-> t, in_debug |-> d, instr |-> i, stopped |-> s, out |-> o]

Instr(op, at, g) == [op |-> op, at |-> at, gpr |-> g]

\* what a reader skips behind the boot code
Skipped(who, at) == IF who = "spike" THEN at = "0x10000" ELSE at = "0x800"

Yield(i, o) == IF i = NoInstr THEN o ELSE Append(o, i)

\* An instruction is no missing one.
LEMMA InstrIs == \A op, at, g : Instr(op, at, g) # NoInstr
<1>1. ASSUME NEW op, NEW at, NEW g PROVE Instr(op, at, g) # NoInstr
  <2>1. "gpr" \in DOMAIN Instr(op, at, g) /\ "gpr" \notin DOMAIN NoInstr
    BY DEF Instr, NoInstr
  <2> QED
    BY <2>1
<1> QED
  BY <1>1

\* What a state yields.
LEMMA YieldedIs ==
  ASSUME NEW t, NEW d, NEW i, NEW s, NEW o
  PROVE  yielded(State(t, d, i, s, o)) = Yield(i, o)
  BY DEF yielded, State, Yield

CoreAs(who, i, o, op, at) ==
  Reads(who, State(FALSE, FALSE, i, FALSE, o), line("core", at, op))
    = State(FALSE, FALSE, Instr(op, at, << >>), op = "ecall", Yield(i, o))

\* A core line.
LEMMA ReadsCore ==
  ASSUME NEW who, NEW i, NEW o, NEW op, NEW at, ~Skipped(who, at)
  PROVE  CoreAs(who, i, o, op, at)
<1>1. PICK r : r = State(FALSE, FALSE, i, FALSE, o)
  OBVIOUS
<1>2. PICK l : l = line("core", at, op)
  OBVIOUS
<1>3. /\ r.stopped = FALSE /\ r.in_trampoline = FALSE /\ r.in_debug = FALSE
      /\ l.kind = "core" /\ l.at = at /\ l.what = op
  BY <1>1, <1>2 DEF State, line
<1>4. [r EXCEPT !.in_trampoline = FALSE] = r
  <2>1. r = [r EXCEPT !.in_trampoline = r.in_trampoline]
    BY <1>1 DEF State
  <2> QED
    BY <1>3, <2>1
<1>5. Reads(who, r, l) = step(r, l)
  BY <1>3, <1>4 DEF Reads, Skipped, spike_line, verilator_line, is_at
<1>6. step(r, l) = [r EXCEPT !.out = yielded(r), !.instr = read_instr(l), !.stopped = l.what = "ecall"]
  BY <1>3 DEF step
<1>7. yielded(r) = Yield(i, o) /\ read_instr(l) = Instr(op, at, << >>)
  <2>1. yielded(r) = Yield(i, o)
    BY <1>1 DEF yielded, State, Yield
  <2>2. read_instr(l) = Instr(op, at, << >>)
    BY <1>3 DEF read_instr, Instr
  <2> QED
    BY <2>1, <2>2
<1> QED
  BY <1>1, <1>2, <1>3, <1>5, <1>6, <1>7 DEF State, CoreAs

\* The line of an effect.
effect_line(at, x) == IF x = Trap THEN line("illegal", at, Trap) ELSE line("commit", at, x)

\* A state with another instruction in hand.
LEMMA StateWith ==
  ASSUME NEW t, NEW d, NEW i, NEW s, NEW o, NEW j
  PROVE  [State(t, d, i, s, o) EXCEPT !.instr = j] = State(t, d, j, s, o)
  BY Z3 DEF State

ReadsAs(who, op, at, g, o, x) ==
  Reads(who, State(FALSE, FALSE, Instr(op, at, g), FALSE, o), effect_line(at, x))
    = IF x = Trap THEN State(FALSE, FALSE, NoInstr, FALSE, Append(o, Instr(op, at, g)))
                  ELSE State(FALSE, FALSE, Instr(op, at, Append(g, x)), FALSE, o)

\* A commit or an illegal instruction.
LEMMA ReadsEffect ==
  ASSUME NEW who, NEW op, NEW at, NEW g, NEW o, NEW x
  PROVE  ReadsAs(who, op, at, g, o, x)
<1>1. PICK r : r = State(FALSE, FALSE, Instr(op, at, g), FALSE, o)
  OBVIOUS
<1>2. PICK l : l = effect_line(at, x)
  OBVIOUS
<1>3. /\ r.stopped = FALSE /\ r.in_trampoline = FALSE /\ r.in_debug = FALSE
      /\ r.instr # NoInstr /\ r.instr = Instr(op, at, g) /\ r.out = o
      /\ l.kind = (IF x = Trap THEN "illegal" ELSE "commit") /\ l.what = x
  BY <1>1, <1>2, InstrIs DEF State, effect_line, line
<1>4. [r EXCEPT !.in_trampoline = FALSE] = r
  <2>1. r = [r EXCEPT !.in_trampoline = r.in_trampoline]
    BY <1>1 DEF State
  <2> QED
    BY <1>3, <2>1
<1>5. Reads(who, r, l) = step(r, l)
  BY <1>3, <1>4 DEF Reads, spike_line, verilator_line, is_at
<1>6. CASE x = Trap
  <2>1. step(r, l) = [r EXCEPT !.out = Append(o, Instr(op, at, g)), !.instr = NoInstr]
    BY <1>3, <1>6 DEF step
  <2> QED
    BY <1>1, <1>2, <1>5, <1>6, <2>1 DEF State, ReadsAs
<1>7. CASE x # Trap
  <2>1. step(r, l) = [r EXCEPT !.instr.gpr = Append(@, l.what)]
    BY <1>3, <1>7 DEF step
  <2>2. [r EXCEPT !.instr.gpr = Append(@, x)] = State(FALSE, FALSE, Instr(op, at, Append(g, x)), FALSE, o)
    <3>1. PICK h : h = Append(g, x)
      OBVIOUS
    <3>2. r.instr.gpr = g
      BY <1>3 DEF Instr
    <3>3. [r.instr EXCEPT !.gpr = h] = Instr(op, at, h)
      BY <1>3 DEF Instr
    <3>4. [r EXCEPT !.instr.gpr = h] = [r EXCEPT !.instr = Instr(op, at, h)]
      BY <3>3
    <3>5. [r EXCEPT !.instr = Instr(op, at, h)] = State(FALSE, FALSE, Instr(op, at, h), FALSE, o)
      <4>1. PICK i, j : i = Instr(op, at, g) /\ j = Instr(op, at, h)
        OBVIOUS
      <4>2. PICK no : no = FALSE
        OBVIOUS
      <4>3. r = State(no, no, i, no, o)
        BY <1>1, <4>1, <4>2
      <4>4. [r EXCEPT !.instr = j] = State(no, no, j, no, o)
        <5>1. [State(no, no, i, no, o) EXCEPT !.instr = j] = State(no, no, j, no, o)
          BY StateWith
        <5> QED
          BY <4>3, <5>1
      <4> QED
        BY <4>1, <4>2, <4>4
    <3> QED
      BY <3>1, <3>2, <3>4, <3>5
  <2> QED
    BY <1>1, <1>2, <1>3, <1>5, <1>7, <2>1, <2>2 DEF ReadsAs
<1> QED
  BY <1>6, <1>7

StoppedAs(who, t, d, i, o, l) == Reads(who, State(t, d, i, TRUE, o), l) = State(t, d, i, TRUE, o)

\* Behind the last ecall nothing is read.
LEMMA ReadsStopped ==
  ASSUME NEW who, NEW t, NEW d, NEW i, NEW o, NEW l
  PROVE  StoppedAs(who, t, d, i, o, l)
  BY DEF StoppedAs, Reads, spike_line, verilator_line, State

\* The debugger.
LEMMA ReadsDebug ==
  ASSUME NEW i, NEW o, NEW at, NEW x
  PROVE  /\ Reads("rtl", State(FALSE, TRUE, i, FALSE, o), line("core", at, x))
              = State(FALSE, at # "0x890", i, FALSE, o)
         /\ Reads("rtl", State(FALSE, FALSE, i, FALSE, o), line("core", "0x800", x)) = State(FALSE, TRUE, i, FALSE, o)
         /\ Reads("rtl", State(FALSE, TRUE, i, FALSE, o), effect_line(at, x)) = State(FALSE, TRUE, i, FALSE, o)
<1>1. ASSUME NEW l
      PROVE  Reads("rtl", State(FALSE, TRUE, i, FALSE, o), l) = State(FALSE, ~is_at(l, "0x890"), i, FALSE, o)
  BY DEF Reads, verilator_line, State
<1>2. ASSUME NEW l, is_at(l, "0x800")
      PROVE  Reads("rtl", State(FALSE, FALSE, i, FALSE, o), l) = State(FALSE, TRUE, i, FALSE, o)
  BY <1>2 DEF Reads, verilator_line, State
<1>3. is_at(line("core", at, x), "0x890") <=> at = "0x890"
  BY DEF is_at, line
<1>4. is_at(line("core", "0x800", x), "0x800")
  BY DEF is_at, line
<1>5. is_at(effect_line(at, x), "0x890") = FALSE
  BY DEF is_at, effect_line, line
<1> QED
  BY <1>1, <1>2, <1>3, <1>4, <1>5

\* the effects that commit a register, as far as the first k
Commit(eff) == [k \in DOMAIN eff |-> IF eff[k] # Trap THEN << eff[k] >> ELSE << >>]

Kept(eff, k) == FlattenSeq(First(Commit(eff), k))

\* the lines of the effects
Effects(at, eff) == [k \in DOMAIN eff |-> effect_line(at, eff[k])]

\* One effect more.
LEMMA KeptStep ==
  ASSUME NEW eff, IsList(eff), NEW k \in DOMAIN eff
  PROVE  /\ IsList(Kept(eff, k)) /\ Kept(eff, 0) = << >>
         /\ Kept(eff, k) = IF eff[k] # Trap THEN Append(Kept(eff, k - 1), eff[k]) ELSE Kept(eff, k - 1)
<1>1. PICK ss : ss = Commit(eff)
  OBVIOUS
<1>2. /\ DOMAIN eff = 1 .. Len(eff) /\ Len(eff) \in Nat
      /\ \A i \in DOMAIN eff : ss[i] = IF eff[i] # Trap THEN << eff[i] >> ELSE << >>
  BY <1>1, ListOf DEF Commit, IsList
<1>3. \A i \in DOMAIN eff : IsList(ss[i])
  BY <1>2, ShortLists
<1>4. k \in Nat \ {0} /\ \A i \in 1 .. k : i \in DOMAIN eff
  BY <1>2
<1>5. Kept(eff, k) = Kept(eff, k - 1) \o ss[k] /\ IsList(Kept(eff, k))
  BY <1>1, <1>3, <1>4, FlattenStep DEF Kept
<1>6. Kept(eff, 0) = << >>
  BY FlattenNone DEF Kept
<1>7. IsList(Kept(eff, k - 1))
  <2>1. CASE k = 1
    BY <1>6, <2>1, ShortLists
  <2>2. CASE k # 1
    <3>1. PICK m \in Nat \ {0} : m = k - 1 /\ \A i \in 1 .. m : i \in DOMAIN eff
      BY <1>4, <2>2
    <3>2. IsList(FlattenSeq(First(ss, m)))
      BY <1>3, <3>1, FlattenStep
    <3> QED
      BY <1>1, <3>1, <3>2 DEF Kept
  <2> QED
    BY <2>1, <2>2
<1>8. PICK g : g = Kept(eff, k - 1)
  OBVIOUS
<1>9. g \o << >> = g
  BY <1>7, <1>8 DEF IsList
<1>10. g \o << eff[k] >> = Append(g, eff[k])
  <2>1. g \in Seq(Range(g) \union {eff[k]})
    BY <1>7, <1>8, SeqMonotonic DEF IsList
  <2> QED
    BY <2>1, AppendIsConcat
<1> QED
  BY <1>2, <1>5, <1>6, <1>8, <1>9, <1>10

\* The trap is the last effect.
TrapsLast(eff) == IsList(eff) /\ \A k \in DOMAIN eff : eff[k] = Trap => k = Len(eff)

\* A state between two instructions, that yields what it should.
Between(r, o) ==
  \E i, out : r = State(FALSE, FALSE, i, FALSE, out) /\ Yield(i, out) = o

\* Behind the lines of its effects an instruction is ready to be yielded.
LEMMA EffectsRead ==
  ASSUME NEW who, NEW op, NEW at, NEW o, NEW eff, TrapsLast(eff)
  PROVE  Between(ReadFrom(who, State(FALSE, FALSE, Instr(op, at, << >>), FALSE, o), Effects(at, eff)),
                 Append(o, Instr(op, at, Kept(eff, Len(eff)))))
<1>1. PICK n \in Nat : n = Len(eff) /\ DOMAIN eff = 1 .. n
  BY ListOf DEF IsList, TrapsLast
<1>2. PICK log : log = Effects(at, eff)
  OBVIOUS
<1>3. IsList(log) /\ Len(log) = n /\ \A k \in 1 .. n : log[k] = effect_line(at, eff[k])
  <2>1. log = [k \in 1 .. n |-> log[k]] /\ \A k \in 1 .. n : log[k] = effect_line(at, eff[k])
    BY <1>1, <1>2 DEF Effects
  <2>2. IsList(log) /\ DOMAIN log = 1 .. n
    BY <2>1, MapList
  <2>3. DOMAIN log = 1 .. Len(log) /\ Len(log) \in Nat
    BY <2>2, ListOf DEF IsList
  <2> QED
    BY <2>1, <2>2, <2>3
<1>4. PICK start : start = State(FALSE, FALSE, Instr(op, at, << >>), FALSE, o)
  OBVIOUS
<1>5. PICK f : Rounds(who, start, log, f, n) /\ ReadFrom(who, start, log) = f[n]
  BY <1>3, AfterRounds
<1>6. f[0] = start /\ \A k \in 1 .. n : f[k] = Reads(who, f[k - 1], effect_line(at, eff[k]))
  BY <1>3, <1>5 DEF Rounds, Round
<1> DEFINE Whole(k) == f[k] = State(FALSE, FALSE, Instr(op, at, Kept(eff, k)), FALSE, o)
           Done(k) == /\ k = n
                      /\ f[k] = State(FALSE, FALSE, NoInstr, FALSE, Append(o, Instr(op, at, Kept(eff, k))))
           Bad == {k \in 0 .. n : ~(Whole(k) \/ Done(k))}
<1>7. Bad = {}
  <2>1. SUFFICES ASSUME Bad # {} PROVE FALSE
    OBVIOUS
  <2>2. PICK k \in Bad : \A j \in Bad : k <= j
    <3>1. Bad \subseteq Nat
      <4> HIDE DEF Whole, Done
      <4> QED
        OBVIOUS
    <3> HIDE DEF Bad
    <3> QED
      BY <2>1, <3>1, LeastOf
  <2>3. k \in 0 .. n /\ ~Whole(k) /\ ~Done(k)
    BY <2>2
  <2>4. k # 0
    <3>1. Kept(eff, 0) = << >>
      BY FlattenNone DEF Kept
    <3> QED
      BY <1>4, <1>6, <2>3, <3>1
  <2>5. k - 1 \in 0 .. n /\ k \in 1 .. n /\ k - 1 # n /\ ~(k <= k - 1)
    BY <2>3, <2>4
  <2>6. Whole(k - 1)
    <3>1. k - 1 \notin Bad
      <4> HIDE DEF Bad
      <4> QED
        BY <2>2, <2>5
    <3> HIDE DEF Whole
    <3> QED
      BY <2>5, <3>1
  <2>7. PICK g, x : g = Kept(eff, k - 1) /\ x = eff[k]
    OBVIOUS
  <2>8. f[k] = IF x = Trap THEN State(FALSE, FALSE, NoInstr, FALSE, Append(o, Instr(op, at, g)))
                           ELSE State(FALSE, FALSE, Instr(op, at, Append(g, x)), FALSE, o)
    <3>1. f[k] = Reads(who, State(FALSE, FALSE, Instr(op, at, g), FALSE, o), effect_line(at, x))
      BY <1>6, <2>5, <2>6, <2>7
    <3>2. Reads(who, State(FALSE, FALSE, Instr(op, at, g), FALSE, o), effect_line(at, x))
            = IF x = Trap THEN State(FALSE, FALSE, NoInstr, FALSE, Append(o, Instr(op, at, g)))
                          ELSE State(FALSE, FALSE, Instr(op, at, Append(g, x)), FALSE, o)
      <4>1. ReadsAs(who, op, at, g, o, x)
        BY ReadsEffect
      <4> QED
        BY <4>1 DEF ReadsAs
    <3> QED
      BY <3>1, <3>2
  <2>9. Kept(eff, k) = IF x # Trap THEN Append(g, x) ELSE g
    BY <1>1, <2>5, <2>7, KeptStep DEF TrapsLast
  <2>10. CASE x = Trap
    <3>1. k = n
      BY <1>1, <2>5, <2>7, <2>10 DEF TrapsLast
    <3> QED
      BY <2>3, <2>8, <2>9, <2>10, <3>1
  <2>11. CASE x # Trap
    BY <2>3, <2>8, <2>9, <2>11
  <2> QED
    BY <2>10, <2>11
<1>8. Whole(n) \/ Done(n)
  <2> HIDE DEF Whole, Done
  <2> QED
    BY <1>7
<1>9. PICK x : x = Instr(op, at, Kept(eff, n))
  OBVIOUS
<1>10. x # NoInstr
  BY <1>9, InstrIs
<1>11. Yield(x, o) = Append(o, x) /\ Yield(NoInstr, Append(o, x)) = Append(o, x)
  BY <1>10 DEF Yield
<1>12. f[n] = State(FALSE, FALSE, x, FALSE, o) \/ f[n] = State(FALSE, FALSE, NoInstr, FALSE, Append(o, x))
  BY <1>8, <1>9
<1>13. Between(f[n], Append(o, x))
  BY <1>11, <1>12 DEF Between
<1> QED
  BY <1>1, <1>2, <1>4, <1>5, <1>9, <1>13

-----------------------------------------------------------------------------
\* what is written of one entry
Entry1(x) == IF x.gpr # << >> \/ x.op \in {"wfi", "ecall"} THEN << x >> ELSE << >>

\* What is written of a list with one entry more.
LEMMA WrittenMore ==
  ASSUME NEW o, IsList(o), NEW x
  PROVE  IsList(written(o)) /\ written(Append(o, x)) = written(o) \o Entry1(x)
<1>1. PICK n \in Nat : n = Len(o) /\ DOMAIN o = 1 .. n
  BY ListOf DEF IsList
<1>2. PICK t : t = Append(o, x)
  OBVIOUS
<1>3. IsList(t) /\ DOMAIN t = 1 .. n + 1 /\ t[n + 1] = x /\ \A k \in 1 .. n : t[k] = o[k]
  <2> DEFINE S == Range(o) \union {x}
  <2>1. o \in Seq(S) /\ x \in S
    BY DEF IsList
  <2>2. t \in Seq(S) /\ Len(t) = n + 1 /\ t[n + 1] = x /\ \A i \in 1 .. n : t[i] = o[i]
    <3> HIDE DEF S
    <3> QED
      BY <1>1, <1>2, <2>1, AppendProperties
  <2> HIDE DEF S
  <2> QED
    BY <2>2, ListOf
<1> DEFINE ss == [k \in 1 .. n + 1 |-> Entry1(t[k])]
<1>4. \A k \in 1 .. n + 1 : IsList(ss[k])
  <2>1. \A y : IsList(Entry1(y))
    BY ShortLists DEF Entry1
  <2> QED
    BY <2>1
<1>5. written(t) = FlattenSeq(First(ss, n + 1))
  <2>1. written(t) = FlattenSeq([k \in DOMAIN t |-> IF t[k].gpr # << >> \/ t[k].op \in {"wfi", "ecall"} THEN << t[k] >> ELSE << >>])
    BY DEF written, Those, Each
  <2>2. [k \in DOMAIN t |-> IF t[k].gpr # << >> \/ t[k].op \in {"wfi", "ecall"} THEN << t[k] >> ELSE << >>] = First(ss, n + 1)
    BY <1>3 DEF First, Entry1
  <2> QED
    BY <2>1, <2>2
<1>6. written(o) = FlattenSeq(First(ss, n))
  <2>1. written(o) = FlattenSeq([k \in DOMAIN o |-> IF o[k].gpr # << >> \/ o[k].op \in {"wfi", "ecall"} THEN << o[k] >> ELSE << >>])
    BY DEF written, Those, Each
  <2>2. [k \in DOMAIN o |-> IF o[k].gpr # << >> \/ o[k].op \in {"wfi", "ecall"} THEN << o[k] >> ELSE << >>] = First(ss, n)
    BY <1>1, <1>3 DEF First, Entry1
  <2> QED
    BY <2>1, <2>2
<1>7. ss[n + 1] = Entry1(x)
  BY <1>3
<1> HIDE DEF ss
<1>8. PICK m \in Nat \ {0} : m = n + 1
  OBVIOUS
<1>9. FlattenSeq(First(ss, m)) = FlattenSeq(First(ss, m - 1)) \o ss[m]
  BY <1>4, <1>8, FlattenStep
<1>10. IsList(FlattenSeq(First(ss, n)))
  <2>1. CASE n = 0
    BY <2>1, FlattenNone, ShortLists
  <2>2. CASE n # 0
    <3>1. n \in Nat \ {0} /\ \A i \in 1 .. n : IsList(ss[i])
      BY <1>4, <2>2
    <3> QED
      BY <3>1, FlattenStep
  <2> QED
    BY <2>1, <2>2
<1>11. m - 1 = n
  BY <1>8
<1> QED
  BY <1>2, <1>5, <1>6, <1>7, <1>8, <1>9, <1>10, <1>11

-----------------------------------------------------------------------------
(***************************************************************************)
(* Whole logs.                                                             *)
(***************************************************************************)
\* the parts of Visible
Debug(e, i) ==
  \E b \in 1 .. i : e[b].at = "0x800" /\ \A x \in b .. i - 1 : e[x].at # "0x890"

Before(e, i) == \A j \in 1 .. i - 1 : e[j].op # "ecall" \/ Debug(e, j)

Nth(e, i) ==
  IF Before(e, i) /\ ~Debug(e, i)
  THEN Entry1(Instr(e[i].op, e[i].at, Kept(e[i].effects, Len(e[i].effects))))
  ELSE << >>

Nths(e) == [i \in DOMAIN e |-> Nth(e, i)]

Shown(e, n) == FlattenSeq(First(Nths(e), n))

\* the debugger is still there behind the first n instructions
Stays(e, n) == \E b \in 1 .. n : e[b].at = "0x800" /\ \A x \in b .. n : e[x].at # "0x890"

\* What is visible of an execution.
LEMMA VisibleIs ==
  ASSUME NEW e, IsList(e), \A i \in DOMAIN e : IsList(e[i].effects)
  PROVE  Visible(e) = Shown(e, Len(e))
<1> DEFINE debug(i) == \E b \in 1 .. i : /\ e[b].at = "0x800"
                                         /\ \A x \in b .. i - 1 : e[x].at # "0x890"
           before(i) == \A j \in 1 .. i - 1 : e[j].op # "ecall" \/ debug(j)
           commits(i) == Those(e[i].effects, LAMBDA x : x # Trap)
           shown(i) == before(i) /\ ~debug(i) /\ (commits(i) # << >> \/ e[i].op \in {"wfi", "ecall"})
           nth(i) == IF shown(i) THEN << [op |-> e[i].op, at |-> e[i].at, gpr |-> commits(i)] >> ELSE << >>
<1>1. Visible(e) = FlattenSeq([i \in DOMAIN e |-> nth(i)])
  BY DEF Visible
<1>2. DOMAIN e = 1 .. Len(e)
  BY ListOf DEF IsList
<1>3. ASSUME NEW i \in DOMAIN e PROVE nth(i) = Nth(e, i)
  <2>1. debug(i) <=> Debug(e, i)
    BY DEF Debug
  <2>2. before(i) <=> Before(e, i)
    BY DEF Before, Debug
  <2>3. commits(i) = Kept(e[i].effects, Len(e[i].effects))
    <3>1. PICK eff : eff = e[i].effects /\ IsList(eff) /\ DOMAIN eff = 1 .. Len(eff)
      BY ListOf DEF IsList
    <3>2. Those(eff, LAMBDA x : x # Trap) = FlattenSeq([k \in DOMAIN eff |-> IF eff[k] # Trap THEN << eff[k] >> ELSE << >>])
      BY DEF Those, Each
    <3>3. [k \in DOMAIN eff |-> IF eff[k] # Trap THEN << eff[k] >> ELSE << >>] = First(Commit(eff), Len(eff))
      BY <3>1 DEF First, Commit
    <3> QED
      BY <3>1, <3>2, <3>3 DEF Kept
  <2> HIDE DEF debug, before, commits
  <2> QED
    BY <2>1, <2>2, <2>3 DEF Nth, Entry1, Instr
<1>4. [i \in DOMAIN e |-> nth(i)] = First(Nths(e), Len(e))
  <2> HIDE DEF nth
  <2> QED
    BY <1>2, <1>3 DEF First, Nths
<1> QED
  BY <1>1, <1>4 DEF Shown

\* One instruction more.
LEMMA DebugNext ==
  ASSUME NEW e, NEW n \in Nat \ {0}
  PROVE  /\ Debug(e, n) <=> Stays(e, n - 1) \/ e[n].at = "0x800"
         /\ Stays(e, n) <=> Debug(e, n) /\ e[n].at # "0x890"
         /\ Before(e, n + 1) <=> Before(e, n) /\ (e[n].op # "ecall" \/ Debug(e, n))
<1>1. \A b : b \in 1 .. n <=> b \in 1 .. n - 1 \/ b = n
  OBVIOUS
<1>2. Debug(e, n) <=> Stays(e, n - 1) \/ e[n].at = "0x800"
  <2>1. n .. n - 1 = {} /\ n \in 1 .. n
    OBVIOUS
  <2> QED
    BY <1>1, <2>1 DEF Debug, Stays
<1>3. Stays(e, n) <=> Debug(e, n) /\ e[n].at # "0x890"
  <2>1. \A b \in 1 .. n : \A x : x \in b .. n <=> x \in b .. n - 1 \/ x = n
    OBVIOUS
  <2> QED
    BY <2>1 DEF Debug, Stays
<1>4. Before(e, n + 1) <=> Before(e, n) /\ (e[n].op # "ecall" \/ Debug(e, n))
  <2>1. n + 1 - 1 = n
    OBVIOUS
  <2> QED
    BY <1>1, <2>1 DEF Before
<1> QED
  BY <1>2, <1>3, <1>4

\* At the beginning.
LEMMA DebugFirst ==
  ASSUME NEW e
  PROVE  ~Stays(e, 0) /\ Before(e, 1) /\ Shown(e, 0) = << >>
  BY FlattenNone DEF Stays, Before, Shown

\* the state behind the first n instructions
Known(e, n, r) ==
  \E d, s, t \in BOOLEAN : \E i, o :
    /\ r = State(t, d, i, s, o)
    /\ s <=> ~Before(e, n + 1)
    /\ ~s => t = FALSE /\ (d <=> Stays(e, n))
    /\ IsList(Yield(i, o)) /\ written(Yield(i, o)) = Shown(e, n)

\* Lines that do not change the state.
LEMMA NothingRead ==
  ASSUME NEW who, NEW r, NEW log, IsList(log), \A l \in Range(log) : Reads(who, r, l) = r
  PROVE  ReadFrom(who, r, log) = r
<1>1. PICK n \in Nat : n = Len(log) /\ DOMAIN log = 1 .. n
  BY ListOf DEF IsList
<1>2. \A k \in 1 .. n : Reads(who, r, log[k]) = r
  BY <1>1 DEF Range
<1>3. PICK f : f = [k \in 0 .. n |-> r]
  OBVIOUS
<1>4. Rounds(who, r, log, f, n)
  BY <1>2, <1>3 DEF Rounds, Round
<1>5. ReadFrom(who, r, log) = f[n]
  BY <1>1, <1>4, AfterIs
<1> QED
  BY <1>3, <1>5

\* the lines of an instruction
Block(e, i) == << line("core", e[i].at, e[i].op) >> \o Effects(e[i].at, e[i].effects)

\* They are a list.
LEMMA BlockIs ==
  ASSUME NEW at, NEW eff, IsList(eff)
  PROVE  /\ IsList(Effects(at, eff)) /\ \A l \in Range(Effects(at, eff)) : \E x : l = effect_line(at, x)
         /\ eff = << >> => Effects(at, eff) = << >>
<1>1. PICK n \in Nat : n = Len(eff) /\ DOMAIN eff = 1 .. n
  BY ListOf DEF IsList
<1>2. PICK log : log = Effects(at, eff)
  OBVIOUS
<1>3. log = [k \in 1 .. n |-> log[k]] /\ \A k \in 1 .. n : log[k] = effect_line(at, eff[k])
  BY <1>1, <1>2 DEF Effects
<1>4. IsList(log) /\ Range(log) = {log[k] : k \in 1 .. n}
  BY <1>3, MapList
<1>5. \A l \in Range(log) : \E x : l = effect_line(at, x)
  BY <1>3, <1>4
<1>6. eff = << >> => log = << >>
  BY <1>2 DEF Effects
<1> QED
  BY <1>2, <1>4, <1>5, <1>6

Execution(who, e) == (who = "spike" /\ OnSpike(e)) \/ (who = "rtl" /\ OnRtl(e))

\* What is shown of one instruction more.
LEMMA ShownNext ==
  ASSUME NEW e, Plain(e), NEW n \in DOMAIN e
  PROVE  /\ Shown(e, n) = Shown(e, n - 1) \o Nth(e, n) /\ IsList(Shown(e, n))
         /\ IsList(Shown(e, n - 1)) /\ n \in Nat \ {0}
<1>1. DOMAIN e = 1 .. Len(e) /\ Len(e) \in Nat
  BY ListOf DEF Plain, IsList
<1>2. PICK ss : ss = Nths(e)
  OBVIOUS
<1>3. \A i \in DOMAIN e : IsList(ss[i]) /\ ss[i] = Nth(e, i)
  BY <1>2, ShortLists DEF Nths, Nth, Entry1
<1>4. n \in Nat \ {0} /\ \A i \in 1 .. n : i \in DOMAIN e
  BY <1>1
<1>5. Shown(e, n) = Shown(e, n - 1) \o Nth(e, n) /\ IsList(Shown(e, n))
  BY <1>2, <1>3, <1>4, FlattenStep DEF Shown
<1>6. IsList(Shown(e, n - 1))
  <2>1. CASE n = 1
    BY <2>1, DebugFirst, ShortLists
  <2>2. CASE n # 1
    <3>1. PICK m \in Nat \ {0} : m = n - 1 /\ \A i \in 1 .. m : i \in DOMAIN e
      BY <1>4, <2>2
    <3>2. IsList(FlattenSeq(First(ss, m)))
      BY <1>3, <3>1, FlattenStep
    <3> QED
      BY <1>2, <3>1, <3>2 DEF Shown
  <2> QED
    BY <2>1, <2>2
<1> QED
  BY <1>4, <1>5, <1>6

\* A list with one entry more.
LEMMA AppendList ==
  ASSUME NEW s, IsList(s), NEW x
  PROVE  IsList(Append(s, x))
<1> DEFINE S == Range(s) \union {x}
<1>1. s \in Seq(S) /\ x \in S
  BY DEF IsList
<1>2. Append(s, x) \in Seq(S)
  <2> HIDE DEF S
  <2> QED
    BY <1>1, AppendProperties
<1> HIDE DEF S
<1> QED
  BY <1>2, ListOf

\* Nothing more is shown.
LEMMA KnownSame ==
  ASSUME NEW e, Plain(e), NEW n \in DOMAIN e, Nth(e, n) = << >>
  PROVE  Shown(e, n) = Shown(e, n - 1)
<1>1. PICK s : s = Shown(e, n - 1) /\ IsList(s)
  BY ShownNext
<1>2. Shown(e, n) = s \o << >>
  BY <1>1, ShownNext
<1> QED
  BY <1>1, <1>2 DEF IsList

\* An instruction behind the last ecall.
LEMMA KnownStopped ==
  ASSUME NEW who, NEW e, Plain(e), NEW n \in DOMAIN e, NEW r, Known(e, n - 1, r), ~Before(e, n)
  PROVE  Known(e, n, ReadFrom(who, r, Block(e, n)))
<1>1. n \in Nat \ {0} /\ (n - 1) + 1 = n
  BY ListOf DEF Plain, IsList
<1>2. PICK d, t \in BOOLEAN : \E i, o :
        /\ r = State(t, d, i, TRUE, o)
        /\ IsList(Yield(i, o)) /\ written(Yield(i, o)) = Shown(e, n - 1)
  BY <1>1 DEF Known
<1>22. PICK i, o :
        /\ r = State(t, d, i, TRUE, o)
        /\ IsList(Yield(i, o)) /\ written(Yield(i, o)) = Shown(e, n - 1)
  BY <1>2
<1>3. ReadFrom(who, r, Block(e, n)) = r
  <2>1. IsList(Block(e, n))
    BY ShortLists, BlockIs, Concat DEF Block, Plain
  <2>2. ASSUME NEW l PROVE Reads(who, r, l) = r
    <3>2. StoppedAs(who, t, d, i, o, l)
      BY ReadsStopped
    <3> QED
      BY <1>22, <3>2 DEF StoppedAs
  <2> QED
    BY <2>1, <2>2, NothingRead
<1>4. ~Before(e, n + 1)
  BY <1>1, DebugNext
<1>5. Nth(e, n) = << >>
  BY DEF Nth
<1>6. Shown(e, n) = Shown(e, n - 1)
  BY <1>5, KnownSame
<1> QED
  BY <1>22, <1>3, <1>4, <1>6 DEF Known

\* An instruction of the debugger.
LEMMA KnownDebug ==
  ASSUME NEW e, Plain(e), NEW n \in DOMAIN e, NEW r, Known(e, n - 1, r), Before(e, n), Debug(e, n)
  PROVE  Known(e, n, ReadFrom("rtl", r, Block(e, n)))
<1>1. n \in Nat \ {0} /\ (n - 1) + 1 = n
  BY ListOf DEF Plain, IsList
<1>20. PICK d \in BOOLEAN : \E i, o :
        /\ r = State(FALSE, d, i, FALSE, o) /\ (d <=> Stays(e, n - 1))
        /\ IsList(Yield(i, o)) /\ written(Yield(i, o)) = Shown(e, n - 1)
  BY <1>1 DEF Known
<1>2. PICK i, o :
        /\ r = State(FALSE, d, i, FALSE, o) /\ (d <=> Stays(e, n - 1))
        /\ IsList(Yield(i, o)) /\ written(Yield(i, o)) = Shown(e, n - 1)
  BY <1>20
<1>3. PICK at, op, eff : at = e[n].at /\ op = e[n].op /\ eff = e[n].effects
  OBVIOUS
<1>4. PICK q : q = State(FALSE, at # "0x890", i, FALSE, o)
  OBVIOUS
<1>5. Reads("rtl", r, line("core", at, op)) = q
  <2>1. CASE d
    <3>1. r = State(FALSE, TRUE, i, FALSE, o)
      BY <1>2, <2>1
    <3> QED
      BY <1>4, <3>1, ReadsDebug
  <2>2. CASE ~d
    <3>1. r = State(FALSE, FALSE, i, FALSE, o) /\ at = "0x800"
      BY <1>1, <1>2, <1>3, <2>2, DebugNext
    <3>2. q = State(FALSE, TRUE, i, FALSE, o)
      BY <1>4, <3>1
    <3> QED
      BY <3>1, <3>2, ReadsDebug
  <2> QED
    BY <2>1, <2>2
<1>6. ReadFrom("rtl", q, Effects(at, eff)) = q
  <2>1. IsList(Effects(at, eff)) /\ \A l \in Range(Effects(at, eff)) : \E x : l = effect_line(at, x)
    BY <1>3, BlockIs DEF Plain
  <2>2. CASE at = "0x890"
    <3>1. Effects(at, eff) = << >>
      BY <1>3, <2>2, BlockIs DEF Plain
    <3> QED
      BY <3>1, AfterFew
  <2>3. CASE at # "0x890"
    <3>1. q = State(FALSE, TRUE, i, FALSE, o)
      BY <1>4, <2>3
    <3>2. ASSUME NEW l \in Range(Effects(at, eff)) PROVE Reads("rtl", q, l) = q
      <4>1. PICK x : l = effect_line(at, x)
        BY <2>1
      <4> QED
        BY <3>1, <4>1, ReadsDebug
    <3> QED
      BY <2>1, <3>2, NothingRead
  <2> QED
    BY <2>2, <2>3
<1>7. ReadFrom("rtl", r, Block(e, n)) = q
  <2>1. PICK c, log : c = << line("core", at, op) >> /\ log = Effects(at, eff)
    OBVIOUS
  <2>2. IsList(c) /\ IsList(log) /\ Block(e, n) = c \o log
    BY <1>3, <2>1, ShortLists, BlockIs DEF Block, Plain
  <2>3. ReadFrom("rtl", r, c) = q
    BY <1>5, <2>1, AfterFew
  <2> QED
    BY <1>6, <2>1, <2>2, <2>3, AfterJoin
<1>8. Before(e, n + 1) /\ (Stays(e, n) <=> at # "0x890")
  BY <1>1, <1>3, DebugNext
<1>9. Nth(e, n) = << >>
  BY DEF Nth
<1>10. Shown(e, n) = Shown(e, n - 1)
  BY <1>9, KnownSame
<1>11. PICK f, g \in BOOLEAN : f = FALSE /\ g = (at # "0x890") /\ q = State(f, g, i, f, o)
  BY <1>4
<1> QED
  BY <1>2, <1>7, <1>8, <1>10, <1>11 DEF Known

\* Any other instruction.
LEMMA KnownPlain ==
  ASSUME NEW who, NEW e, Plain(e), NEW n \in DOMAIN e, NEW r, Known(e, n - 1, r), Before(e, n), ~Debug(e, n),
         ~Skipped(who, e[n].at)
  PROVE  Known(e, n, ReadFrom(who, r, Block(e, n)))
<1>1. n \in Nat \ {0} /\ (n - 1) + 1 = n
  BY ListOf DEF Plain, IsList
<1>2. ~Stays(e, n - 1) /\ ~Stays(e, n) /\ (Before(e, n + 1) <=> e[n].op # "ecall")
  BY <1>1, DebugNext
<1>3. PICK i, o : /\ r = State(FALSE, FALSE, i, FALSE, o)
                  /\ IsList(Yield(i, o)) /\ written(Yield(i, o)) = Shown(e, n - 1)
  BY <1>1, <1>2 DEF Known
<1>4. PICK at, op, eff : at = e[n].at /\ op = e[n].op /\ eff = e[n].effects
  OBVIOUS
<1>5. PICK y : y = Yield(i, o)
  OBVIOUS
<1>6. PICK x : x = Instr(op, at, Kept(eff, Len(eff)))
  OBVIOUS
<1>7. written(Append(y, x)) = Shown(e, n) /\ IsList(Append(y, x))
  <2>1. Nth(e, n) = Entry1(x)
    BY <1>4, <1>6 DEF Nth
  <2>2. written(Append(y, x)) = written(y) \o Entry1(x)
    BY <1>3, <1>5, WrittenMore
  <2> QED
    BY <1>3, <1>5, <2>1, <2>2, ShownNext, AppendList
<1>8. PICK c, log : c = << line("core", at, op) >> /\ log = Effects(at, eff)
  OBVIOUS
<1>9. IsList(c) /\ IsList(log) /\ Block(e, n) = c \o log
  BY <1>4, <1>8, ShortLists, BlockIs DEF Block, Plain
<1>10. PICK q : q = State(FALSE, FALSE, Instr(op, at, << >>), op = "ecall", y)
  OBVIOUS
<1>11. ReadFrom(who, r, c) = q
  <2>1. CoreAs(who, i, o, op, at)
    BY <1>4, ReadsCore
  <2>2. PICK l : l = line("core", at, op)
    OBVIOUS
  <2>3. Reads(who, r, l) = q
    BY <1>3, <1>5, <1>10, <2>1, <2>2 DEF CoreAs
  <2>4. ReadFrom(who, r, << l >>) = Reads(who, r, l)
    BY AfterFew
  <2> QED
    BY <1>8, <2>2, <2>3, <2>4
<1>12. ReadFrom(who, r, Block(e, n)) = ReadFrom(who, q, log)
  BY <1>9, <1>11, AfterJoin
<1>13. CASE op = "ecall"
  <2>1. eff = << >> /\ log = << >>
    BY <1>4, <1>8, <1>13, BlockIs DEF Plain
  <2>2. PICK f, g \in BOOLEAN : f = FALSE /\ g = TRUE /\ q = State(f, f, Instr(op, at, << >>), g, y)
    BY <1>10, <1>13
  <2>3. ReadFrom(who, q, log) = q
    BY <2>1, AfterFew
  <2>4. x = Instr(op, at, << >>)
    <3>1. Len(eff) = 0 /\ Kept(eff, 0) = << >>
      BY <2>1, FlattenNone DEF Kept
    <3> QED
      BY <1>6, <3>1
  <2>5. Yield(x, y) = Append(y, x)
    BY <1>6, InstrIs DEF Yield
  <2> QED
    BY <1>2, <1>4, <1>7, <1>12, <1>13, <2>2, <2>3, <2>4, <2>5 DEF Known
<1>14. CASE op # "ecall"
  <2>1. TrapsLast(eff)
    BY <1>4 DEF Plain, TrapsLast
  <2>2. q = State(FALSE, FALSE, Instr(op, at, << >>), FALSE, y)
    BY <1>10, <1>14
  <2>3. Between(ReadFrom(who, q, log), Append(y, x))
    BY <1>6, <1>8, <2>1, <2>2, EffectsRead
  <2>4. PICK j, p : ReadFrom(who, q, log) = State(FALSE, FALSE, j, FALSE, p) /\ Yield(j, p) = Append(y, x)
    BY <2>3 DEF Between
  <2>5. PICK f \in BOOLEAN : f = FALSE /\ ReadFrom(who, q, log) = State(f, f, j, f, p)
    BY <2>4
  <2> QED
    BY <1>2, <1>4, <1>7, <1>12, <1>14, <2>4, <2>5 DEF Known
<1> QED
  BY <1>13, <1>14

\* One instruction more.
LEMMA KnownNext ==
  ASSUME NEW who, NEW e, Execution(who, e), NEW n \in DOMAIN e, NEW r, Known(e, n - 1, r)
  PROVE  Known(e, n, ReadFrom(who, r, Block(e, n)))
<1>1. Plain(e)
  BY DEF Execution, OnSpike, OnRtl
<1>2. CASE ~Before(e, n)
  BY <1>1, <1>2, KnownStopped
<1>3. CASE Before(e, n) /\ Debug(e, n)
  <2>1. who = "rtl"
    <3>1. SUFFICES ASSUME OnSpike(e) PROVE FALSE
      BY DEF Execution
    <3>2. PICK b \in 1 .. n : e[b].at = "0x800"
      BY <1>3 DEF Debug
    <3>3. b \in DOMAIN e
      BY <1>1, ListOf DEF Plain, IsList
    <3> QED
      BY <3>1, <3>2, <3>3 DEF OnSpike
  <2> QED
    BY <1>1, <1>3, <2>1, KnownDebug
<1>4. CASE Before(e, n) /\ ~Debug(e, n)
  <2>1. ~Skipped(who, e[n].at)
    <3>1. CASE who = "spike"
      BY <3>1 DEF Execution, OnSpike, Skipped
    <3>2. CASE who # "spike"
      <4>1. n \in Nat \ {0}
        BY <1>1, ListOf DEF Plain, IsList
      <4>2. e[n].at # "0x800"
        BY <1>4, <4>1, DebugNext
      <4> QED
        BY <3>2, <4>2 DEF Skipped
    <3> QED
      BY <3>1, <3>2
  <2> QED
    BY <1>1, <1>4, <2>1, KnownPlain
<1> QED
  BY <1>2, <1>3, <1>4

Blocks(e) == [i \in DOMAIN e |-> Block(e, i)]

\* The log of an execution is the lines of its instructions.
LEMMA LogIs ==
  ASSUME NEW e, Plain(e)
  PROVE  /\ log_of(e) = FlattenSeq(First(Blocks(e), Len(e)))
         /\ \A i \in DOMAIN e : IsList(Blocks(e)[i]) /\ Blocks(e)[i] = Block(e, i)
<1>1. DOMAIN e = 1 .. Len(e)
  BY ListOf DEF Plain, IsList
<1>2. ASSUME NEW i \in DOMAIN e
      PROVE  IsList(Block(e, i))
  <2>1. PICK c, log : c = << line("core", e[i].at, e[i].op) >> /\ log = Effects(e[i].at, e[i].effects)
    OBVIOUS
  <2>2. IsList(c) /\ IsList(log)
    BY <2>1, ShortLists, BlockIs DEF Plain
  <2> QED
    BY <2>1, <2>2, Concat DEF Block
<1>3. log_of(e) = FlattenSeq([i \in DOMAIN e |-> Block(e, i)])
  BY DEF log_of, Block, Effects, effect_line
<1>4. [i \in DOMAIN e |-> Block(e, i)] = First(Blocks(e), Len(e))
  BY <1>1 DEF First, Blocks
<1> QED
  BY <1>2, <1>3, <1>4 DEF Blocks

\* What a reader that is ready has read behind the log of an execution.
LEMMA LogRead ==
  ASSUME NEW who, NEW e, Execution(who, e)
  PROVE  Known(e, Len(e), ReadFrom(who, Reader, log_of(e))) /\ IsList(log_of(e))
<1>1. Plain(e)
  BY DEF Execution, OnSpike, OnRtl
<1>2. PICK N \in Nat : N = Len(e) /\ DOMAIN e = 1 .. N
  BY <1>1, ListOf DEF Plain, IsList
<1>3. PICK bs : bs = Blocks(e)
  OBVIOUS
<1>4. \A i \in 1 .. N : IsList(bs[i]) /\ bs[i] = Block(e, i)
  BY <1>1, <1>2, <1>3, LogIs
<1> DEFINE Log(n) == FlattenSeq(First(bs, n))
           Good(n) == IsList(Log(n)) /\ Known(e, n, ReadFrom(who, Reader, Log(n)))
           Bad == {n \in 0 .. N : ~Good(n)}
<1>5. Good(0)
  <2>1. Log(0) = << >>
    BY FlattenNone
  <2>2. PICK f \in BOOLEAN : f = FALSE /\ Reader = State(f, f, NoInstr, f, << >>)
    BY DEF Reader, State
  <2>3. Yield(NoInstr, << >>) = << >>
    BY DEF Yield
  <2>4. written(<< >>) = << >>
    <3>1. written(<< >>) = FlattenSeq(<< >>)
      BY DEF written, Those, Each
    <3> QED
      BY <3>1 DEF FlattenSeq
  <2>5. ReadFrom(who, Reader, << >>) = Reader
    BY AfterFew
  <2>6. Known(e, 0, Reader)
    <3>1. 0 + 1 = 1 /\ IsList(<< >>)
      BY ShortLists
    <3> QED
      BY <2>2, <2>3, <2>4, <3>1, DebugFirst DEF Known
  <2> HIDE DEF Log
  <2> QED
    BY <2>1, <2>5, <2>6, ShortLists
<1>6. Bad = {}
  <2>1. SUFFICES ASSUME Bad # {} PROVE FALSE
    OBVIOUS
  <2>2. PICK n \in Bad : \A j \in Bad : n <= j
    <3>1. Bad \subseteq Nat
      <4> HIDE DEF Good
      <4> QED
        OBVIOUS
    <3> HIDE DEF Bad
    <3> QED
      BY <2>1, <3>1, LeastOf
  <2>3. n \in 0 .. N /\ ~Good(n)
    <3> HIDE DEF Good
    <3> QED
      BY <2>2
  <2>4. n \in 1 .. N /\ n - 1 \in 0 .. N /\ ~(n <= n - 1)
    <3> HIDE DEF Good
    <3> QED
      BY <1>5, <2>3
  <2>5. Good(n - 1)
    <3>1. n - 1 \notin Bad
      <4> HIDE DEF Bad
      <4> QED
        BY <2>2, <2>4
    <3> HIDE DEF Good
    <3> QED
      BY <2>4, <3>1
  <2>6. Log(n) = Log(n - 1) \o Block(e, n) /\ IsList(Log(n)) /\ IsList(Block(e, n))
    <3>1. n \in Nat \ {0} /\ \A i \in 1 .. n : i \in 1 .. N
      BY <2>4
    <3> QED
      BY <1>4, <2>4, <3>1, FlattenStep
  <2> HIDE DEF Log
  <2>7. PICK r : r = ReadFrom(who, Reader, Log(n - 1)) /\ Known(e, n - 1, r)
    BY <2>5
  <2>8. ReadFrom(who, Reader, Log(n)) = ReadFrom(who, r, Block(e, n))
    BY <2>5, <2>6, <2>7, AfterJoin
  <2>9. Known(e, n, ReadFrom(who, r, Block(e, n)))
    BY <1>2, <2>4, <2>7, KnownNext
  <2> QED
    BY <2>3, <2>6, <2>8, <2>9
<1>7. Good(N)
  <2> HIDE DEF Good
  <2> QED
    BY <1>6
<1>8. log_of(e) = Log(N)
  BY <1>1, <1>2, <1>3, LogIs
<1> HIDE DEF Log
<1> QED
  BY <1>2, <1>7, <1>8

\* What a reader yields in the end.
LEMMA KnownEnd ==
  ASSUME NEW e, Plain(e), NEW r, Known(e, Len(e), r)
  PROVE  written(yielded(r)) = Visible(e)
<1>1. PICK d, s, t \in BOOLEAN : \E i, o :
        r = State(t, d, i, s, o) /\ written(Yield(i, o)) = Shown(e, Len(e))
  BY DEF Known
<1>2. PICK i, o : r = State(t, d, i, s, o) /\ written(Yield(i, o)) = Shown(e, Len(e))
  BY <1>1
<1>3. yielded(r) = Yield(i, o)
  BY <1>2, YieldedIs
<1>4. Visible(e) = Shown(e, Len(e))
  BY VisibleIs DEF Plain
<1> QED
  BY <1>2, <1>3, <1>4

\* A state before or behind the end of the boot code.
LEMMA BootWith ==
  ASSUME NEW t, NEW d, NEW i, NEW s, NEW o, NEW u
  PROVE  [State(t, d, i, s, o) EXCEPT !.in_trampoline = u] = State(u, d, i, s, o)
  BY Z3 DEF State

\* The boot code is skipped.
LEMMA BootRead ==
  /\ IsList(boot) /\ ReadFrom("spike", Reader, boot) = Reader
  /\ \A l : l = line("core", "0x10000", "li") \/ l = line("commit", "0x10000", "s0") =>
       Reads("rtl", [Reader EXCEPT !.in_trampoline = TRUE], l) = [Reader EXCEPT !.in_trampoline = TRUE]
  /\ \A op : Reads("rtl", [Reader EXCEPT !.in_trampoline = TRUE], line("core", "0x80000000", op))
               = Reads("rtl", Reader, line("core", "0x80000000", op))
<1>1. PICK a, b, c : /\ a = line("core", "0x10000", "auipc") /\ b = line("commit", "0x10000", "t0")
                     /\ c = line("core", "0x10010", "jr")
  OBVIOUS
<1>2. PICK T : T = [Reader EXCEPT !.in_trampoline = TRUE]
  OBVIOUS
<1>3. /\ T.stopped = FALSE /\ T.in_trampoline = TRUE /\ T.in_debug = FALSE
      /\ Reader.stopped = FALSE /\ Reader.in_trampoline = FALSE /\ Reader.in_debug = FALSE
      /\ [T EXCEPT !.in_trampoline = FALSE] = Reader /\ [T EXCEPT !.in_trampoline = TRUE] = T
      /\ [Reader EXCEPT !.in_trampoline = FALSE] = Reader
  <2>1. PICK no, yes, i, o : no = FALSE /\ yes = TRUE /\ i = NoInstr /\ o = << >>
    OBVIOUS
  <2>2. Reader = State(no, no, i, no, o)
    BY <2>1 DEF Reader, State
  <2>3. T = State(yes, no, i, no, o)
    <3>1. [State(no, no, i, no, o) EXCEPT !.in_trampoline = yes] = State(yes, no, i, no, o)
      BY BootWith
    <3>2. T = [Reader EXCEPT !.in_trampoline = yes]
      BY <1>2, <2>1
    <3> QED
      BY <2>2, <3>1, <3>2
  <2>4. /\ T.stopped = FALSE /\ T.in_trampoline = TRUE /\ T.in_debug = FALSE
        /\ Reader.stopped = FALSE /\ Reader.in_trampoline = FALSE /\ Reader.in_debug = FALSE
    BY <2>1, <2>2, <2>3 DEF State
  <2>5. [T EXCEPT !.in_trampoline = FALSE] = Reader /\ [T EXCEPT !.in_trampoline = TRUE] = T
    <3>1. /\ [State(yes, no, i, no, o) EXCEPT !.in_trampoline = no] = State(no, no, i, no, o)
          /\ [State(yes, no, i, no, o) EXCEPT !.in_trampoline = yes] = State(yes, no, i, no, o)
      BY BootWith
    <3>2. [T EXCEPT !.in_trampoline = no] = Reader /\ [T EXCEPT !.in_trampoline = yes] = T
      BY <2>2, <2>3, <3>1
    <3> QED
      BY <2>1, <3>2
  <2>6. [Reader EXCEPT !.in_trampoline = FALSE] = Reader
    BY <2>1, <2>2, BootWith
  <2> QED
    BY <2>4, <2>5, <2>6
<1>4. is_at(a, "0x10000") = TRUE /\ is_at(b, "0x10010") = FALSE /\ is_at(c, "0x10010") = TRUE
  BY <1>1 DEF is_at, line
<1>5. /\ Reads("spike", Reader, a) = T /\ Reads("spike", T, b) = T /\ Reads("spike", T, c) = Reader
  BY <1>2, <1>3, <1>4 DEF Reads, spike_line
<1>6. ReadFrom("spike", Reader, boot) = Reader /\ IsList(boot)
  <2>1. PICK u, v, w : u = << a >> /\ v = << b >> /\ w = << c >>
    OBVIOUS
  <2>2. IsList(u) /\ IsList(v) /\ IsList(w)
    BY <2>1, ShortLists
  <2>3. boot = (u \o v) \o w
    BY <1>1, <2>1 DEF boot
  <2>4. IsList(u \o v)
    BY <2>2, Concat
  <2>5. ReadFrom("spike", Reader, u \o v) = T
    <3>1. ReadFrom("spike", Reader, u) = T /\ ReadFrom("spike", T, v) = T
      <4>1. /\ ReadFrom("spike", Reader, << a >>) = Reads("spike", Reader, a)
            /\ ReadFrom("spike", T, << b >>) = Reads("spike", T, b)
        BY AfterFew
      <4> QED
        BY <1>5, <2>1, <4>1
    <3> QED
      BY <2>2, <3>1, AfterJoin
  <2>6. ReadFrom("spike", T, w) = Reader
    <3>1. ReadFrom("spike", T, << c >>) = Reads("spike", T, c)
      BY AfterFew
    <3> QED
      BY <1>5, <2>1, <3>1
  <2>7. IsList((u \o v) \o w)
    BY <2>2, <2>4, Concat
  <2>8. ReadFrom("spike", Reader, (u \o v) \o w) = Reader
    BY <2>2, <2>4, <2>5, <2>6, AfterJoin
  <2> QED
    BY <2>3, <2>7, <2>8
<1>7. ASSUME NEW l, l = line("core", "0x10000", "li") \/ l = line("commit", "0x10000", "s0")
      PROVE  Reads("rtl", T, l) = T
  <2>1. is_at(l, "0x80000000") = FALSE
    BY <1>7 DEF is_at, line
  <2> QED
    BY <1>3, <2>1 DEF Reads, verilator_line
<1>8. ASSUME NEW op
      PROVE  Reads("rtl", T, line("core", "0x80000000", op)) = Reads("rtl", Reader, line("core", "0x80000000", op))
  <2>1. PICK l : l = line("core", "0x80000000", op)
    OBVIOUS
  <2>2. is_at(l, "0x80000000") = TRUE /\ is_at(l, "0x800") = FALSE
    BY <2>1 DEF is_at, line
  <2>3. Reads("rtl", T, l) = step(Reader, l) /\ Reads("rtl", Reader, l) = step(Reader, l)
    BY <1>3, <2>2 DEF Reads, verilator_line
  <2> QED
    BY <2>1, <2>3
<1> QED
  BY <1>2, <1>6, <1>7, <1>8

BeginAlike(who, start, e) ==
  Reads(who, start, line("core", e[1].at, e[1].op)) = Reads(who, Reader, line("core", e[1].at, e[1].op))

\* A state that reads the first line as one does that is ready reads the log alike.
LEMMA FirstLine ==
  ASSUME NEW who, NEW e, Plain(e), e # << >>, NEW start, BeginAlike(who, start, e)
  PROVE  ReadFrom(who, start, log_of(e)) = ReadFrom(who, Reader, log_of(e))
<1>1. PICK N \in Nat : N = Len(e) /\ DOMAIN e = 1 .. N
  BY ListOf DEF Plain, IsList
<1>2. PICK bs : bs = Blocks(e)
  OBVIOUS
<1>3. \A i \in 1 .. N : IsList(bs[i]) /\ bs[i] = Block(e, i)
  BY <1>1, <1>2, LogIs
<1>4. 1 \in 1 .. N
  <2>1. e \in Seq(Range(e))
    BY DEF Plain, IsList
  <2>2. Len(e) # 0
    BY <2>1, EmptySeq
  <2> QED
    BY <1>1, <2>2
<1> DEFINE Log(n) == FlattenSeq(First(bs, n))
           Same(n) == ReadFrom(who, start, Log(n)) = ReadFrom(who, Reader, Log(n))
           Bad == {n \in 1 .. N : ~Same(n)}
<1>5. ASSUME NEW n \in 1 .. N
      PROVE  Log(n) = Log(n - 1) \o bs[n] /\ IsList(Log(n)) /\ IsList(bs[n])
  <2>1. n \in Nat \ {0} /\ \A i \in 1 .. n : i \in 1 .. N
    OBVIOUS
  <2> QED
    BY <1>3, <2>1, FlattenStep
<1>6. Same(1)
  <2>1. PICK c, log : c = << line("core", e[1].at, e[1].op) >> /\ log = Effects(e[1].at, e[1].effects)
    OBVIOUS
  <2>2. IsList(c) /\ IsList(log)
    BY <1>1, <1>4, <2>1, ShortLists, BlockIs DEF Plain
  <2>3. Log(1) = c \o log
    <3>1. Log(0) = << >>
      BY FlattenNone
    <3>2. Log(1) = Log(0) \o bs[1]
      <4>1. 1 - 1 = 0
        OBVIOUS
      <4> HIDE DEF Log
      <4> QED
        BY <1>4, <1>5, <4>1
    <3>3. bs[1] = c \o log
      BY <1>3, <1>4, <2>1 DEF Block
    <3>4. << >> \o bs[1] = bs[1]
      <4>1. IsList(bs[1])
        BY <1>4, <1>5
      <4> QED
        BY <4>1 DEF IsList
    <3> HIDE DEF Log
    <3> QED
      BY <3>1, <3>2, <3>3, <3>4
  <2>4. PICK l : l = line("core", e[1].at, e[1].op)
    OBVIOUS
  <2>5. /\ ReadFrom(who, start, << l >>) = Reads(who, start, l)
        /\ ReadFrom(who, Reader, << l >>) = Reads(who, Reader, l)
    BY AfterFew
  <2>6. ReadFrom(who, start, c) = ReadFrom(who, Reader, c)
    BY <2>1, <2>4, <2>5 DEF BeginAlike
  <2>7. /\ ReadFrom(who, start, c \o log) = ReadFrom(who, ReadFrom(who, start, c), log)
        /\ ReadFrom(who, Reader, c \o log) = ReadFrom(who, ReadFrom(who, Reader, c), log)
    BY <2>2, AfterJoin
  <2> HIDE DEF Log
  <2> QED
    BY <2>3, <2>6, <2>7
<1>7. Bad = {}
  <2>1. SUFFICES ASSUME Bad # {} PROVE FALSE
    OBVIOUS
  <2>2. PICK n \in Bad : \A j \in Bad : n <= j
    <3>1. Bad \subseteq Nat
      <4> HIDE DEF Same
      <4> QED
        OBVIOUS
    <3> HIDE DEF Bad
    <3> QED
      BY <2>1, <3>1, LeastOf
  <2>3. n \in 1 .. N /\ ~Same(n)
    <3> HIDE DEF Same
    <3> QED
      BY <2>2
  <2>4. PICK m \in 1 .. N : m = n - 1 /\ ~(n <= m)
    <3>1. n # 1
      <4> HIDE DEF Same
      <4> QED
        BY <1>6, <2>3
    <3> HIDE DEF Same
    <3> QED
      BY <2>3, <3>1
  <2>5. Same(m)
    <3>1. m \notin Bad
      <4> HIDE DEF Bad
      <4> QED
        BY <2>2, <2>4
    <3> HIDE DEF Same
    <3> QED
      BY <2>4, <3>1
  <2>6. Log(n) = Log(m) \o bs[n] /\ IsList(Log(m)) /\ IsList(bs[n])
    <3> HIDE DEF Log
    <3> QED
      BY <1>5, <2>3, <2>4
  <2> HIDE DEF Log
  <2>7. /\ ReadFrom(who, start, Log(m) \o bs[n]) = ReadFrom(who, ReadFrom(who, start, Log(m)), bs[n])
        /\ ReadFrom(who, Reader, Log(m) \o bs[n]) = ReadFrom(who, ReadFrom(who, Reader, Log(m)), bs[n])
    BY <2>6, AfterJoin
  <2> QED
    BY <2>3, <2>5, <2>6, <2>7
<1>8. Same(N)
  <2>1. N \in 1 .. N
    BY <1>4
  <2> HIDE DEF Same
  <2> QED
    BY <1>7, <2>1
<1>9. log_of(e) = Log(N)
  BY <1>1, <1>2, LogIs
<1> HIDE DEF Log
<1> QED
  BY <1>8, <1>9

\* What is compared is what both simulators show: the rows of the csv file that
\* is made from a log are the visible part of the execution, for every execution
\* (process_spike_sim_log and process_verilator_sim_log).
THEOREM LogsTellExecutions ==
  ASSUME NEW e
  PROVE  /\ OnSpike(e) => process_spike_sim_log(spike_log(e)) = Visible(e)
         /\ OnRtl(e)   => process_verilator_sim_log(rtl_log(e)) = Visible(e)
<1>1. ASSUME OnSpike(e) PROVE process_spike_sim_log(spike_log(e)) = Visible(e)
  <2>1. Execution("spike", e) /\ Plain(e)
    BY <1>1 DEF Execution, OnSpike
  <2>2. PICK b, log : b = boot /\ log = log_of(e)
    OBVIOUS
  <2>3. IsList(b) /\ IsList(log) /\ ReadFrom("spike", Reader, b) = Reader
    BY <2>1, <2>2, BootRead, LogRead
  <2>4. spike_log(e) = b \o log /\ IsList(b \o log)
    BY <2>2, <2>3, Concat DEF spike_log
  <2>5. ReadFrom("spike", Reader, b \o log) = ReadFrom("spike", Reader, log)
    BY <2>3, AfterJoin
  <2>6. Known(e, Len(e), ReadFrom("spike", Reader, log))
    BY <2>1, <2>2, LogRead
  <2>7. written(yielded(ReadFrom("spike", Reader, log))) = Visible(e)
    BY <2>1, <2>6, KnownEnd
  <2>8. process_spike_sim_log(b \o log) = written(yielded(ReadFrom("spike", Reader, b \o log)))
    BY <2>4, ProcessIs
  <2> QED
    BY <2>4, <2>5, <2>7, <2>8
<1>2. ASSUME OnRtl(e) PROVE process_verilator_sim_log(rtl_log(e)) = Visible(e)
  <2>1. Execution("rtl", e) /\ Plain(e)
    BY <1>2 DEF Execution, OnRtl
  <2>2. PICK a, c, log, T : /\ a = line("core", "0x10000", "li") /\ c = line("commit", "0x10000", "s0")
                            /\ log = log_of(e) /\ T = [Reader EXCEPT !.in_trampoline = TRUE]
    OBVIOUS
  <2>3. PICK u, v : u = << a >> /\ v = << c >>
    OBVIOUS
  <2>4. IsList(u) /\ IsList(v) /\ IsList(log) /\ IsList(u \o v)
    BY <2>1, <2>2, <2>3, ShortLists, Concat, LogRead
  <2>5. rtl_log(e) = (u \o v) \o log /\ IsList((u \o v) \o log)
    <3>1. << a, c >> = u \o v
      BY <2>2, <2>3 DEF line
    <3> QED
      BY <2>2, <2>4, <3>1, Concat DEF rtl_log
  <2>6. ReadFrom("rtl", T, u \o v) = T
    <3>1. ReadFrom("rtl", T, << a >>) = Reads("rtl", T, a) /\ ReadFrom("rtl", T, << c >>) = Reads("rtl", T, c)
      BY AfterFew
    <3>2. Reads("rtl", T, a) = T /\ Reads("rtl", T, c) = T
      BY <2>2, BootRead
    <3>3. ReadFrom("rtl", T, u) = T /\ ReadFrom("rtl", T, v) = T
      BY <2>3, <3>1, <3>2
    <3> QED
      BY <2>4, <3>3, AfterJoin
  <2>7. ReadFrom("rtl", T, (u \o v) \o log) = ReadFrom("rtl", T, log)
    BY <2>4, <2>6, AfterJoin
  <2>8. Known(e, Len(e), ReadFrom("rtl", Reader, log))
    BY <2>1, <2>2, LogRead
  <2>9. written(yielded(ReadFrom("rtl", Reader, log))) = Visible(e)
    BY <2>1, <2>8, KnownEnd
  <2>10. yielded(ReadFrom("rtl", T, log)) = yielded(ReadFrom("rtl", Reader, log))
    <3>1. CASE e = << >>
      <4>1. log = << >>
        <5>1. log_of(e) = FlattenSeq(First(Blocks(e), 0))
          <6>1. Len(e) = 0
            BY <3>1
          <6> QED
            BY <2>1, <6>1, LogIs
        <5> QED
          BY <2>2, <5>1, FlattenNone
      <4>2. ReadFrom("rtl", T, log) = T /\ ReadFrom("rtl", Reader, log) = Reader
        BY <4>1, AfterFew
      <4>3. yielded(T) = yielded(Reader)
        <5>1. T.instr = Reader.instr /\ T.out = Reader.out
          BY <2>2 DEF Reader
        <5> QED
          BY <5>1 DEF yielded
      <4> QED
        BY <4>2, <4>3
    <3>2. CASE e # << >>
      <4>1. e[1].at = "0x80000000"
        BY <1>2, <3>2 DEF OnRtl
      <4>2. BeginAlike("rtl", T, e)
        BY <2>2, <4>1, BootRead DEF BeginAlike
      <4> QED
        BY <2>1, <2>2, <3>2, <4>2, FirstLine
    <3> QED
      BY <3>1, <3>2
  <2>11. process_verilator_sim_log((u \o v) \o log) = written(yielded(ReadFrom("rtl", T, (u \o v) \o log)))
    BY <2>2, <2>5, ProcessIs
  <2> QED
    BY <2>5, <2>7, <2>9, <2>10, <2>11
<1> QED
  BY <1>1, <1>2

-----------------------------------------------------------------------------
(***************************************************************************)
(* The order of commands: a comparison comes behind the simulations whose  *)
(* logs it reads, and nothing that spoils them comes in between.           *)
(***************************************************************************)
\* a simulation of what comparison c is about
Shows(x, iss, c) == x.op = "simulate" /\ x.iss = iss /\ x.log = c.log /\ x.elf = c.elf

\* a command after which the log of c is no longer one of its program
Spoils(x, iss, c) ==
  \/ x.op \in {"compile_directed", "gcc"} /\ x.elf = c.elf
  \/ x.op = "simulate" /\ x.iss = iss /\ x.log = c.log /\ x.elf # c.elf

\* from position p to position q of s there is a good log
StillShows(s, p, q, iss) ==
  Shows(s[p], iss, s[q]) /\ \A x \in p + 1 .. q - 1 : ~Spoils(s[x], iss, s[q])

\* position q of s is not reached, or has both logs
Backed(a, s, q) ==
  \/ \E p \in 1 .. q - 1 : s[p].op = "crash"
  \/ \A j \in 1 .. 2 : \E p \in 1 .. q - 1 : StillShows(s, p, q, a.iss[j])

\* the logs that may be written
Tested(a, log) ==
  \/ arg_tests(a) # << >>
  \/ \E d \in Range(Directed(a)) : log[1] = d.test /\ (a.gen_sv_seed = 0 => log[2] = NoIndex)
  \/ \E e \in Range(Matched(a)) : ~has(e, "no_iss") /\ log \in ProgramLogs(a, e)

\* The comparisons of s are about logs of s, or about such as are never written.
Supplied(a, s) ==
  \A q \in DOMAIN s : s[q].op = "compare" => Backed(a, s, q) \/ ~Tested(a, s[q].log)

\* Two lists one after the other, by position.
LEMMA ConcatAt ==
  ASSUME NEW s, NEW t, IsList(s), IsList(t)
  PROVE  /\ IsList(s \o t) /\ Len(s) \in Nat /\ Len(t) \in Nat
         /\ DOMAIN s = 1 .. Len(s) /\ DOMAIN t = 1 .. Len(t) /\ DOMAIN (s \o t) = 1 .. Len(s) + Len(t)
         /\ \A i \in 1 .. Len(s) : (s \o t)[i] = s[i]
         /\ \A i \in 1 .. Len(t) : (s \o t)[Len(s) + i] = t[i]
<1>1. PICK m \in Nat, n \in Nat : m = Len(s) /\ n = Len(t) /\ DOMAIN s = 1 .. m /\ DOMAIN t = 1 .. n
  BY ListOf DEF IsList
<1>2. s \in Seq(Range(s) \union Range(t)) /\ t \in Seq(Range(s) \union Range(t))
  BY SeqMonotonic DEF IsList
<1>3. /\ Len(s \o t) = Len(s) + Len(t)
      /\ \A i \in 1 .. Len(s) + Len(t) : (s \o t)[i] = IF i <= Len(s) THEN s[i] ELSE t[i - Len(s)]
  BY <1>2, ConcatProperties
<1>4. IsList(s \o t)
  BY Concat
<1>5. DOMAIN (s \o t) = 1 .. m + n
  BY <1>1, <1>3, <1>4, ListOf DEF IsList
<1> QED
  BY <1>1, <1>3, <1>4, <1>5

\* What is backed in a list is backed in a longer one.
LEMMA BackedWithin ==
  ASSUME NEW a, NEW s, NEW t, NEW d \in Nat, NEW q \in Nat \ {0},
         \A i \in 1 .. q : t[d + i] = s[i], Backed(a, s, q)
  PROVE  Backed(a, t, d + q)
<1>1. t[d + q] = s[q]
  OBVIOUS
<1>2. ASSUME NEW p \in 1 .. q - 1
      PROVE  d + p \in 1 .. d + q - 1 /\ t[d + p] = s[p]
  OBVIOUS
<1>3. CASE \E p \in 1 .. q - 1 : s[p].op = "crash"
  <2>1. PICK p \in 1 .. q - 1 : s[p].op = "crash"
    BY <1>3
  <2> QED
    BY <1>2, <2>1 DEF Backed
<1>4. CASE \A j \in 1 .. 2 : \E p \in 1 .. q - 1 : StillShows(s, p, q, a.iss[j])
  <2>1. ASSUME NEW j \in 1 .. 2 PROVE \E p \in 1 .. d + q - 1 : StillShows(t, p, d + q, a.iss[j])
    <3>1. PICK p \in 1 .. q - 1 : StillShows(s, p, q, a.iss[j])
      BY <1>4
    <3>2. PICK r \in 1 .. d + q - 1 : r = d + p /\ t[r] = s[p]
      BY <1>2
    <3>3. ASSUME NEW x \in r + 1 .. d + q - 1 PROVE ~Spoils(t[x], a.iss[j], t[d + q])
      <4>1. PICK y \in p + 1 .. q - 1 : y = x - d
        BY <3>2
      <4>2. y \in 1 .. q - 1 /\ x = d + y
        BY <4>1
      <4>3. t[x] = s[y]
        BY <1>2, <4>2
      <4> QED
        BY <1>1, <3>1, <4>1, <4>3 DEF StillShows
    <3> QED
      BY <1>1, <3>1, <3>2, <3>3 DEF StillShows
  <2> QED
    BY <2>1 DEF Backed
<1> QED
  BY <1>3, <1>4 DEF Backed

\* Lists that are supplied, one after the other.
LEMMA SuppliedJoin ==
  ASSUME NEW a, NEW u, NEW v, IsList(u), IsList(v), Supplied(a, u), Supplied(a, v)
  PROVE  Supplied(a, u \o v)
<1>1. PICK s : s = u \o v
  OBVIOUS
<1>2. PICK m \in Nat, n \in Nat : m = Len(u) /\ n = Len(v)
  BY ConcatAt
<1>3. /\ DOMAIN u = 1 .. m /\ DOMAIN v = 1 .. n /\ DOMAIN s = 1 .. m + n
      /\ \A i \in 1 .. m : s[i] = u[i]
      /\ \A i \in 1 .. n : s[m + i] = v[i]
  BY <1>1, <1>2, ConcatAt
<1>4. ASSUME NEW q \in DOMAIN s, s[q].op = "compare", Tested(a, s[q].log)
      PROVE  Backed(a, s, q)
  <2>1. CASE q <= m
    <3>1. q \in 1 .. m /\ q \in Nat \ {0} /\ s[q] = u[q] /\ \A i \in 1 .. q : i \in 1 .. m
      BY <1>3, <2>1
    <3>2. Backed(a, u, q)
      BY <1>3, <1>4, <3>1 DEF Supplied
    <3>3. PICK z \in Nat : z = 0
      OBVIOUS
    <3>4. z + q = q /\ \A i \in 1 .. q : s[z + i] = u[i]
      BY <1>3, <3>1, <3>3
    <3>5. Backed(a, s, z + q)
      BY <3>1, <3>2, <3>4, BackedWithin
    <3> QED
      BY <3>4, <3>5
  <2>2. CASE ~(q <= m)
    <3>1. PICK r \in 1 .. n : q = m + r
      <4>1. q - m \in 1 .. n /\ q = m + (q - m)
        BY <1>3, <2>2
      <4> QED
        BY <4>1
    <3>2. r \in Nat \ {0} /\ s[q] = v[r] /\ \A i \in 1 .. r : s[m + i] = v[i]
      BY <1>3, <3>1
    <3>3. Backed(a, v, r)
      BY <1>3, <1>4, <3>2 DEF Supplied
    <3>4. Backed(a, s, m + r)
      BY <3>2, <3>3, BackedWithin
    <3> QED
      BY <3>1, <3>4
  <2> QED
    BY <2>1, <2>2, <1>3
<1> QED
  BY <1>1, <1>4 DEF Supplied

\* Lists without a comparison.
LEMMA NoComparison ==
  ASSUME NEW a, NEW s, IsList(s), \A c \in Range(s) : c.op # "compare"
  PROVE  Supplied(a, s)
<1>1. \A q \in DOMAIN s : s[q] \in Range(s)
  BY DEF Range
<1> QED
  BY <1>1 DEF Supplied

\* Lists that are supplied, for every member of a list.
LEMMA SuppliedEach ==
  ASSUME NEW a, NEW list, IsList(list), NEW ss, ss = [n \in DOMAIN list |-> ss[n]],
         \A n \in DOMAIN list : IsList(ss[n]) /\ Supplied(a, ss[n])
  PROVE  Supplied(a, FlattenSeq(ss))
<1>1. PICK N \in Nat : N = Len(list) /\ DOMAIN list = 1 .. N
  BY ListOf DEF IsList
<1>2. ss = First(ss, N)
  BY <1>1 DEF First
<1> DEFINE Joint(n) == FlattenSeq(First(ss, n))
           Bad == {n \in 0 .. N : ~Supplied(a, Joint(n))}
<1>3. Joint(0) = << >>
  BY FlattenNone
<1>4. Supplied(a, << >>)
  BY NoComparison, ShortLists
<1>5. Bad = {}
  <2>1. SUFFICES ASSUME Bad # {} PROVE FALSE
    OBVIOUS
  <2>2. PICK n \in Bad : \A j \in Bad : n <= j
    <3>1. Bad \subseteq Nat
      <4> HIDE DEF Joint
      <4> QED
        OBVIOUS
    <3> HIDE DEF Bad
    <3> QED
      BY <2>1, <3>1, LeastOf
  <2>3. n \in 0 .. N /\ ~Supplied(a, Joint(n))
    <3> HIDE DEF Joint
    <3> QED
      BY <2>2
  <2>4. n \in 1 .. N /\ n - 1 \in 0 .. N /\ ~(n <= n - 1)
    <3>1. n # 0
      <4> HIDE DEF Joint
      <4> QED
        BY <1>3, <1>4, <2>3
    <3> HIDE DEF Joint
    <3> QED
      BY <2>3, <3>1
  <2>5. Supplied(a, Joint(n - 1))
    <3>1. n - 1 \notin Bad
      <4> HIDE DEF Bad
      <4> QED
        BY <2>2, <2>4
    <3> HIDE DEF Joint
    <3> QED
      BY <2>4, <3>1
  <2>6. Joint(n) = Joint(n - 1) \o ss[n] /\ IsList(ss[n]) /\ Supplied(a, ss[n])
    <3>1. n \in Nat \ {0} /\ \A i \in 1 .. n : i \in 1 .. N
      BY <2>4
    <3> QED
      BY <1>1, <2>4, <3>1, FlattenStep
  <2>7. IsList(Joint(n - 1))
    <3>1. CASE n = 1
      <4>1. n - 1 = 0
        BY <3>1
      <4> HIDE DEF Joint
      <4> QED
        BY <1>3, <4>1, ShortLists
    <3>2. CASE n # 1
      <4>1. PICK m \in Nat \ {0} : m = n - 1 /\ \A i \in 1 .. m : i \in 1 .. N
        BY <2>4, <3>2
      <4>2. IsList(FlattenSeq(First(ss, m)))
        BY <1>1, <4>1, FlattenStep
      <4> QED
        BY <4>1, <4>2
    <3> QED
      BY <3>1, <3>2
  <2> HIDE DEF Joint
  <2> QED
    BY <2>3, <2>5, <2>6, <2>7, SuppliedJoin
<1>6. Supplied(a, Joint(N))
  <2> HIDE DEF Joint
  <2> QED
    BY <1>5
<1> QED
  BY <1>2, <1>6

\* every log of comparison c is written in u, and nothing spoils it
ShownIn(a, u, v, c) ==
  /\ \/ \E x \in Range(u) : x.op = "crash"
     \/ \A j \in 1 .. 2 : \E x \in Range(u) : Shows(x, a.iss[j], c)
  /\ \A x \in Range(u) \union Range(v) : \A j \in 1 .. 2 : ~Spoils(x, a.iss[j], c)

\* Comparisons behind the simulations.
LEMMA SuppliedBehind ==
  ASSUME NEW a, NEW u, NEW v, IsList(u), IsList(v), \A x \in Range(u) : x.op # "compare",
         \A c \in Range(v) : c.op = "compare" /\ Tested(a, c.log) => ShownIn(a, u, v, c)
  PROVE  Supplied(a, u \o v)
<1>1. PICK s : s = u \o v
  OBVIOUS
<1>2. PICK m \in Nat, n \in Nat : m = Len(u) /\ n = Len(v)
  BY ConcatAt
<1>3. /\ DOMAIN u = 1 .. m /\ DOMAIN v = 1 .. n /\ DOMAIN s = 1 .. m + n
      /\ \A i \in 1 .. m : s[i] = u[i]
      /\ \A i \in 1 .. n : s[m + i] = v[i]
  BY <1>1, <1>2, ConcatAt
<1>4. ASSUME NEW i \in 1 .. m + n PROVE s[i] \in Range(u) \union Range(v)
  <2>1. CASE i \in 1 .. m
    BY <1>3, <2>1 DEF Range
  <2>2. CASE i \notin 1 .. m
    <3>1. i - m \in 1 .. n /\ i = m + (i - m)
      BY <2>2
    <3>2. s[i] = v[i - m]
      BY <1>3, <3>1
    <3> QED
      BY <1>3, <3>1, <3>2 DEF Range
  <2> QED
    BY <2>1, <2>2
<1>5. ASSUME NEW q \in DOMAIN s, s[q].op = "compare", Tested(a, s[q].log)
      PROVE  Backed(a, s, q)
  <2>1. PICK c : c = s[q]
    OBVIOUS
  <2>2. q \in Nat /\ m < q /\ q <= m + n /\ c \in Range(v)
    <3>1. q \notin 1 .. m
      <4>1. ASSUME q \in 1 .. m PROVE FALSE
        <5>1. c \in Range(u)
          BY <1>3, <2>1, <4>1 DEF Range
        <5> QED
          BY <1>5, <2>1, <5>1
      <4> QED
        BY <4>1
    <3>2. q - m \in 1 .. n /\ q = m + (q - m) /\ q \in Nat /\ m < q /\ q <= m + n
      BY <1>3, <3>1
    <3>3. c = v[q - m]
      BY <1>3, <2>1, <3>2
    <3> QED
      BY <1>3, <3>2, <3>3 DEF Range
  <2>3. ShownIn(a, u, v, c)
    BY <1>5, <2>1, <2>2
  <2>4. ASSUME NEW x \in Range(u) PROVE \E p \in 1 .. q - 1 : s[p] = x
    <3>1. PICK p \in 1 .. m : u[p] = x
      BY <1>3 DEF Range
    <3>2. p \in 1 .. q - 1
      BY <2>2
    <3> QED
      BY <1>3, <3>1, <3>2
  <2>5. CASE \E x \in Range(u) : x.op = "crash"
    BY <2>4, <2>5 DEF Backed
  <2>6. CASE \A j \in 1 .. 2 : \E x \in Range(u) : Shows(x, a.iss[j], c)
    <3>1. ASSUME NEW j \in 1 .. 2 PROVE \E p \in 1 .. q - 1 : StillShows(s, p, q, a.iss[j])
      <4>1. PICK x \in Range(u) : Shows(x, a.iss[j], c)
        BY <2>6
      <4>2. PICK p \in 1 .. q - 1 : s[p] = x
        BY <2>4
      <4>3. ASSUME NEW y \in p + 1 .. q - 1 PROVE ~Spoils(s[y], a.iss[j], c)
        <5>1. y \in 1 .. m + n
          BY <2>2
        <5> QED
          BY <1>4, <2>3, <5>1 DEF ShownIn
      <4> QED
        BY <2>1, <4>1, <4>2, <4>3 DEF StillShows
    <3> QED
      BY <3>1 DEF Backed
  <2> QED
    BY <2>3, <2>5, <2>6 DEF ShownIn
<1> QED
  BY <1>1, <1>5 DEF Supplied

\* Lists one after the other, in any order of joining.
LEMMA ConcatThree ==
  ASSUME NEW s, NEW t, NEW u, IsList(s), IsList(t), IsList(u)
  PROVE  (s \o t) \o u = s \o (t \o u)
<1> DEFINE S == Range(s) \union Range(t) \union Range(u)
<1>1. s \in Seq(S) /\ t \in Seq(S) /\ u \in Seq(S)
  BY SeqMonotonic DEF IsList
<1> HIDE DEF S
<1> QED
  BY <1>1, ConcatAssociative

\* What a command of run_test is.
OfTest(c, log) == c.op \in {"compile_directed", "simulate", "crash", "compare"} /\ (c.op = "simulate" => c.log = log)

\* A directed test is simulated before its logs are compared, on what was compiled.
LEMMA RunTestSupplied ==
  ASSUME NEW a, Options(a), NEW k, NEW file, NEW name
  PROVE  /\ Supplied(a, run_test(a, k, file, name))
         /\ \A c \in Range(run_test(a, k, file, name)) : OfTest(c, log_of_test(a, name, k))
<1> DEFINE e   == IF file.ext = "o" THEN << "given", file.name >> ELSE << "directed_tests", file.name >>
           log == log_of_test(a, name, k)
           sim(iss) == simulation(iss, e, log, << name, NoIndex, a.target >>)
           compile == IF file.ext = "o" THEN << >> ELSE << [op |-> "compile_directed", elf |-> e, file |-> file] >>
           ss  == [n \in DOMAIN a.iss |-> parse_iss_yaml(a.iss[n], << sim(a.iss[n]) >>)]
           last == IF Len(a.iss) = 2 THEN << comparison(e, log) >> ELSE << >>
<1>1. run_test(a, k, file, name) = (compile \o FlattenSeq(ss)) \o last
  BY DEF run_test, Each
<1>2. IsList(compile) /\ \A c \in Range(compile) : c.op = "compile_directed"
  <2>1. PICK c : c = [op |-> "compile_directed", elf |-> e, file |-> file]
    OBVIOUS
  <2>2. c.op = "compile_directed" /\ compile \in {<< >>, << c >>}
    BY <2>1
  <2> HIDE DEF compile
  <2> QED
    BY <2>2, ShortLists
<1>3. /\ IsList(last) /\ \A c \in Range(last) : c.op = "compare" /\ c.elf = e /\ c.log = log
      /\ last # << >> => Len(a.iss) = 2
  <2>1. PICK c : c = comparison(e, log)
    OBVIOUS
  <2>2. c.op = "compare" /\ c.elf = e /\ c.log = log
    BY <2>1 DEF comparison
  <2>3. last = (IF Len(a.iss) = 2 THEN << c >> ELSE << >>)
    BY <2>1
  <2> HIDE DEF last, e, log
  <2> QED
    BY <2>2, <2>3, ShortLists
<1>4. ASSUME NEW n \in DOMAIN a.iss
      PROVE  /\ IsList(ss[n])
             /\ \A x \in Range(ss[n]) : x.op = "crash" \/ (x.op = "simulate" /\ x.elf = e /\ x.log = log)
             /\ \E x \in Range(ss[n]) : x.op = "crash" \/ (x.op = "simulate" /\ x.iss = a.iss[n] /\ x.elf = e /\ x.log = log)
  <2>1. PICK x, y : x = sim(a.iss[n]) /\ y = [op |-> "crash"]
    OBVIOUS
  <2>2. /\ x.op = "simulate" /\ x.iss = a.iss[n] /\ x.log = log /\ x.elf = e /\ y.op = "crash"
    BY <2>1 DEF simulation
  <2>3. ss[n] \in {<< x >>, << y >>}
    BY <2>1 DEF parse_iss_yaml, Crash
  <2> HIDE DEF ss, log, e
  <2> QED
    BY <2>2, <2>3, ShortLists
<1>5. PICK f : f = FlattenSeq(ss)
  OBVIOUS
<1>6. IsList(a.iss) /\ ss = [n \in DOMAIN a.iss |-> ss[n]]
  BY DEF Options
<1> HIDE DEF compile, ss, last, log, e
<1>7. IsList(f) /\ Range(f) = UNION {Range(ss[n]) : n \in DOMAIN a.iss}
  BY <1>4, <1>5, <1>6, EachRange
<1>8. \A x \in Range(f) : x.op = "crash" \/ (x.op = "simulate" /\ x.elf = e /\ x.log = log)
  BY <1>4, <1>7
<1>9. ASSUME NEW c \in Range(last) PROVE ShownIn(a, f, last, c)
  <2>1. c.elf = e /\ c.log = log
    BY <1>3
  <2>2. Len(a.iss) = 2
    <3>1. last # << >>
      BY ShortLists
    <3> QED
      BY <1>3, <3>1
  <2>3. \A j \in 1 .. 2 : \E x \in Range(f) : x.op = "crash" \/ Shows(x, a.iss[j], c)
    <3>1. DOMAIN a.iss = 1 .. 2
      BY <1>6, <2>2, ListOf DEF IsList
    <3> QED
      BY <1>4, <1>7, <2>1, <3>1 DEF Shows
  <2>4. \A x \in Range(f) \union Range(last) : \A j \in 1 .. 2 : ~Spoils(x, a.iss[j], c)
    <3>1. \A x \in Range(f) \union Range(last) :
            x.op \notin {"compile_directed", "gcc"} /\ (x.op = "simulate" => x.elf = c.elf)
      BY <1>3, <1>8, <2>1
    <3> QED
      BY <3>1 DEF Spoils
  <2> QED
    BY <2>3, <2>4 DEF ShownIn
<1>10. Supplied(a, f \o last) /\ IsList(f \o last) /\ Range(f \o last) = Range(f) \union Range(last)
  <2>1. \A x \in Range(f) : x.op # "compare"
    BY <1>8
  <2> QED
    BY <1>3, <1>7, <1>9, <2>1, SuppliedBehind, Concat
<1>11. Supplied(a, compile)
  <2>1. \A c \in Range(compile) : c.op # "compare"
    BY <1>2
  <2> QED
    BY <1>2, <2>1, NoComparison
<1>12. run_test(a, k, file, name) = compile \o (f \o last)
  BY <1>1, <1>2, <1>3, <1>5, <1>7, ConcatThree
<1>13. /\ Supplied(a, compile \o (f \o last))
       /\ Range(compile \o (f \o last)) = Range(compile) \union Range(f) \union Range(last)
  <2>1. Range(compile \o (f \o last)) = Range(compile) \union Range(f \o last)
    BY <1>2, <1>10, Concat
  <2>2. Supplied(a, compile \o (f \o last))
    BY <1>2, <1>10, <1>11, SuppliedJoin
  <2> QED
    BY <1>10, <2>1, <2>2
<1>14. log = log_of_test(a, name, k)
  BY DEF log
<1>15. \A c \in Range(compile) \union Range(f) \union Range(last) : OfTest(c, log)
  BY <1>2, <1>3, <1>8 DEF OfTest
<1> QED
  BY <1>12, <1>13, <1>14, <1>15

\* Directed tests one after the other.
LEMMA TestsSupplied ==
  ASSUME NEW a, Options(a), NEW k, NEW list, IsList(list), NEW ss, NEW names,
         OneTests(a, k, list, ss, names)
  PROVE  /\ Supplied(a, FlattenSeq(ss))
         /\ \A c \in Range(FlattenSeq(ss)) : \E n \in DOMAIN list : OfTest(c, log_of_test(a, names[n], k))
<1>1. ASSUME NEW file, NEW name
      PROVE  /\ IsList(one_test(a, k, file, name)) /\ Supplied(a, one_test(a, k, file, name))
             /\ \A c \in Range(one_test(a, k, file, name)) : OfTest(c, log_of_test(a, name, k))
  <2>1. one_test(a, k, file, name) \in {run_test(a, k, file, name), Crash}
    BY DEF one_test
  <2>2. Supplied(a, Crash) /\ \A c \in Range(Crash) : OfTest(c, log_of_test(a, name, k))
    <3>1. PICK c : c = [op |-> "crash"]
      OBVIOUS
    <3>2. Crash = << c >> /\ c.op = "crash"
      BY <3>1 DEF Crash
    <3>3. IsList(Crash) /\ Range(Crash) = {c}
      BY <3>2, ShortLists
    <3>4. \A d \in Range(Crash) : d.op # "compare" /\ OfTest(d, log_of_test(a, name, k))
      BY <3>2, <3>3 DEF OfTest
    <3> QED
      BY <3>3, <3>4, NoComparison
  <2>3. IsList(one_test(a, k, file, name))
    BY OneTestCommands
  <2> QED
    BY <2>1, <2>2, <2>3, RunTestSupplied
<1>2. ss = [n \in DOMAIN list |-> ss[n]]
  BY DEF OneTests
<1>3. ASSUME NEW n \in DOMAIN list
      PROVE  IsList(ss[n]) /\ Supplied(a, ss[n]) /\ \A c \in Range(ss[n]) : OfTest(c, log_of_test(a, names[n], k))
  <2>1. PICK f : ss[n] = one_test(a, k, f, names[n])
    BY DEF OneTests
  <2> QED
    BY <1>1, <2>1
<1>4. Supplied(a, FlattenSeq(ss))
  BY <1>2, <1>3, SuppliedEach
<1>5. Range(FlattenSeq(ss)) = UNION {Range(ss[n]) : n \in DOMAIN list}
  BY <1>2, <1>3, EachRange
<1> QED
  BY <1>3, <1>4, <1>5

-----------------------------------------------------------------------------
(***************************************************************************)
(* The members of the other parts.                                         *)
(***************************************************************************)
\* Nothing is compared while programs are generated.
LEMMA GenMembers ==
  ASSUME NEW a, Options(a), NEW list, IsList(list), \A e \in Range(list) : e.iterations \in Nat
  PROVE  IsList(gen(a, list)) /\ \A c \in Range(gen(a, list)) : c.op \notin {"compare", "simulate"}
<1> DEFINE build == IF a.so \/ (Len(list) = 1 /\ list[1].test = "riscv_csr_test") THEN << >>
                    ELSE << [op |-> "run_cmd"] >>
           ss    == [n \in DOMAIN list |-> generate(a, list[n])]
           save  == << [op |-> "save_seeds"] >>
           all   == IF a.co THEN << >> ELSE FlattenSeq(ss) \o save
           Apart(s) == IsList(s) /\ \A c \in Range(s) : c.op \notin {"compare", "simulate"}
<1>1. gen(a, list) \in {<< >>, (get_generator_cmd(a) \o build) \o all}
  BY DEF gen, Each
<1>2. Apart(<< >>) /\ \A c : c.op \notin {"compare", "simulate"} => Apart(<< c >>)
  BY ShortLists
<1>3. Apart(Crash)
  <2>1. PICK c : c = [op |-> "crash"]
    OBVIOUS
  <2>2. Crash = << c >> /\ c.op \notin {"compare", "simulate"}
    BY <2>1 DEF Crash
  <2> HIDE DEF Apart
  <2> QED
    BY <1>2, <2>2
<1>4. Apart(get_generator_cmd(a))
  <2> HIDE DEF Apart
  <2> QED
    BY <1>2, <1>3 DEF get_generator_cmd
<1>5. Apart(build)
  <2>1. PICK c : c = [op |-> "run_cmd"]
    OBVIOUS
  <2>2. c.op \notin {"compare", "simulate"} /\ build \in {<< >>, << c >>}
    BY <2>1
  <2> HIDE DEF build, Apart
  <2> QED
    BY <1>2, <2>2
<1>6. Apart(save)
  <2>1. PICK c : c = [op |-> "save_seeds"]
    OBVIOUS
  <2>2. c.op \notin {"compare", "simulate"} /\ save = << c >>
    BY <2>1
  <2> HIDE DEF save, Apart
  <2> QED
    BY <1>2, <2>2
<1>7. ASSUME NEW n \in DOMAIN list PROVE Apart(ss[n])
  <2>1. PICK e : e = list[n] /\ e.iterations \in Nat /\ ss[n] = generate(a, e)
    BY DEF Range
  <2>2. CASE e.test = "riscv_csr_test"
    <3>1. PICK c : c = [op |-> "csr_test", iterations |-> e.iterations]
      OBVIOUS
    <3>2. c.op \notin {"compare", "simulate"} /\ ss[n] = << c >>
      BY <2>1, <2>2, <3>1 DEF generate
    <3> HIDE DEF Apart, ss
    <3> QED
      BY <1>2, <3>2
  <2>3. CASE e.test # "riscv_csr_test" /\ has(e, "gen_test")
    <3>1. PICK k \in Nat : k = batches(a, e)
      BY <2>1, Batches
    <3>2. PICK f : f = [i \in 1 .. k |-> batch(a, e, i - 1)]
      OBVIOUS
    <3>3. ss[n] = f /\ f = [i \in 1 .. k |-> f[i]] /\ \A i \in 1 .. k : f[i].op = "generate"
      BY <2>1, <2>3, <3>1, <3>2 DEF generate, batch
    <3>4. IsList(f) /\ Range(f) = {f[i] : i \in 1 .. k}
      BY <3>3, MapList
    <3> HIDE DEF ss
    <3> QED
      BY <3>3, <3>4
  <2>4. CASE ~(e.test = "riscv_csr_test" \/ has(e, "gen_test"))
    <3>1. ss[n] = Crash
      BY <2>1, <2>4 DEF generate
    <3> HIDE DEF Apart, ss
    <3> QED
      BY <1>3, <3>1
  <2> QED
    BY <2>2, <2>3, <2>4
<1>8. ASSUME NEW s, NEW t, Apart(s), Apart(t) PROVE Apart(s \o t)
  BY <1>8, Concat
<1>9. Apart(FlattenSeq(ss))
  <2>1. ss = [n \in DOMAIN list |-> ss[n]]
    OBVIOUS
  <2> HIDE DEF ss
  <2>2. IsList(FlattenSeq(ss)) /\ Range(FlattenSeq(ss)) = UNION {Range(ss[n]) : n \in DOMAIN list}
    BY <1>7, <2>1, EachRange
  <2> QED
    BY <1>7, <2>2
<1> HIDE DEF build, ss, save, Apart
<1>10. Apart(all)
  BY <1>2, <1>6, <1>8, <1>9
<1> HIDE DEF all
<1>11. Apart(gen(a, list))
  BY <1>1, <1>2, <1>4, <1>5, <1>8, <1>10
<1> QED
  BY <1>11 DEF Apart

\* gcc_compile compiles.
LEMMA GccMembers ==
  ASSUME NEW list, IsList(list), \A e \in Range(list) : e.iterations \in Nat
  PROVE  IsList(gcc_compile(list)) /\ \A c \in Range(gcc_compile(list)) : c.op = "gcc"
<1> DEFINE body(e) == IF has(e, "no_gcc") THEN << >>
                      ELSE [i \in 1 .. e.iterations |->
                              [op |-> "gcc", elf |-> asm_elf(e, i - 1), program |-> << e.test, i - 1 >>]]
           ss == [n \in DOMAIN list |-> body(list[n])]
<1>1. gcc_compile(list) = FlattenSeq(ss)
  BY DEF gcc_compile, Each, per_program
<1>2. ASSUME NEW n \in DOMAIN list PROVE IsList(ss[n]) /\ \A c \in Range(ss[n]) : c.op = "gcc"
  <2>1. PICK e : e = list[n] /\ e.iterations \in Nat /\ ss[n] = body(e)
    BY DEF Range
  <2>2. CASE has(e, "no_gcc")
    BY <2>1, <2>2, ShortLists
  <2>3. CASE ~has(e, "no_gcc")
    <3>1. PICK k \in Nat : k = e.iterations
      BY <2>1
    <3>2. PICK f : f = [i \in 1 .. k |->
                          [op |-> "gcc", elf |-> asm_elf(e, i - 1), program |-> << e.test, i - 1 >>]]
      OBVIOUS
    <3>3. f = [i \in 1 .. k |-> f[i]] /\ ss[n] = f /\ \A i \in 1 .. k : f[i].op = "gcc"
      BY <2>1, <2>3, <3>1, <3>2
    <3>4. IsList(f) /\ Range(f) = {f[i] : i \in 1 .. k}
      BY <3>3, MapList
    <3> HIDE DEF ss
    <3> QED
      BY <3>3, <3>4
  <2> QED
    BY <2>2, <2>3
<1>3. ss = [n \in DOMAIN list |-> ss[n]]
  OBVIOUS
<1> HIDE DEF ss
<1>4. IsList(FlattenSeq(ss)) /\ Range(FlattenSeq(ss)) = UNION {Range(ss[n]) : n \in DOMAIN list}
  BY <1>2, <1>3, EachRange
<1> QED
  BY <1>1, <1>2, <1>4

\* c is about program i of test e
OfProgram(a, c, e, i) == c.log = log_of_program(a, e, i) /\ c.elf = asm_elf(e, i)

\* iss_cmp compares the logs of the programs of every test, if there are two.
LEMMA CmpMembers ==
  ASSUME NEW a, NEW list, IsList(list), \A e \in Range(list) : e.iterations \in Nat
  PROVE  /\ IsList(iss_cmp(a, list))
         /\ \A c \in Range(iss_cmp(a, list)) :
              \/ c.op = "summarize"
              \/ /\ c.op = "compare" /\ Len(a.iss) = 2
                 /\ \E e \in Range(list) : \E i \in 0 .. e.iterations - 1 : OfProgram(a, c, e, i)
<1> DEFINE body(e) == [i \in 1 .. e.iterations |-> comparison(asm_elf(e, i - 1), log_of_program(a, e, i - 1))]
           ss   == [n \in DOMAIN list |-> body(list[n])]
           last == << [op |-> "summarize"] >>
<1>1. iss_cmp(a, list) = IF Len(a.iss) # 2 THEN << >> ELSE FlattenSeq(ss) \o last
  BY DEF iss_cmp, Each, per_program
<1>2. ASSUME NEW n \in DOMAIN list
      PROVE  /\ IsList(ss[n])
             /\ \A c \in Range(ss[n]) : /\ c.op = "compare"
                                        /\ \E i \in 0 .. list[n].iterations - 1 : OfProgram(a, c, list[n], i)
  <2>1. PICK e : e = list[n] /\ e.iterations \in Nat /\ ss[n] = body(e)
    BY DEF Range
  <2>2. PICK k \in Nat : k = e.iterations
    BY <2>1
  <2>3. PICK f : f = [i \in 1 .. k |-> comparison(asm_elf(e, i - 1), log_of_program(a, e, i - 1))]
    OBVIOUS
  <2>4. /\ f = [i \in 1 .. k |-> f[i]] /\ ss[n] = f
        /\ \A i \in 1 .. k : f[i].op = "compare" /\ OfProgram(a, f[i], e, i - 1)
    BY <2>1, <2>2, <2>3 DEF comparison, OfProgram
  <2>5. IsList(f) /\ Range(f) = {f[i] : i \in 1 .. k}
    BY <2>4, MapList
  <2>6. \A i \in 1 .. k : i - 1 \in 0 .. e.iterations - 1
    BY <2>2
  <2> HIDE DEF ss
  <2> QED
    BY <2>1, <2>4, <2>5, <2>6
<1>3. ss = [n \in DOMAIN list |-> ss[n]]
  OBVIOUS
<1>4. IsList(last) /\ \A c \in Range(last) : c.op = "summarize"
  <2>1. PICK c : c = [op |-> "summarize"]
    OBVIOUS
  <2>2. c.op = "summarize" /\ last = << c >>
    BY <2>1
  <2> HIDE DEF last
  <2> QED
    BY <2>2, ShortLists
<1> HIDE DEF ss, last
<1>5. IsList(FlattenSeq(ss)) /\ Range(FlattenSeq(ss)) = UNION {Range(ss[n]) : n \in DOMAIN list}
  BY <1>2, <1>3, EachRange
<1>6. IsList(FlattenSeq(ss) \o last) /\ Range(FlattenSeq(ss) \o last) = Range(FlattenSeq(ss)) \union Range(last)
  BY <1>4, <1>5, Concat
<1>7. ASSUME NEW c \in Range(FlattenSeq(ss))
      PROVE  c.op = "compare" /\ \E e \in Range(list) : \E i \in 0 .. e.iterations - 1 : OfProgram(a, c, e, i)
  <2>1. PICK n \in DOMAIN list : c \in Range(ss[n])
    BY <1>5
  <2>2. list[n] \in Range(list)
    BY DEF Range
  <2> QED
    BY <1>2, <2>1, <2>2
<1>8. CASE Len(a.iss) # 2
  <2>1. iss_cmp(a, list) = << >>
    BY <1>1, <1>8
  <2> QED
    BY <2>1, ShortLists
<1>9. CASE Len(a.iss) = 2
  <2>1. iss_cmp(a, list) = FlattenSeq(ss) \o last
    BY <1>1, <1>9
  <2> QED
    BY <1>4, <1>6, <1>7, <1>9, <2>1
<1> QED
  BY <1>8, <1>9

\* c simulates program i of test e
SimulatesProgram(a, c, iss, e, i) == c.op = "simulate" /\ c.iss = iss /\ OfProgram(a, c, e, i)

\* One simulator and one test.
LEMMA IssTestMembers ==
  ASSUME NEW a, NEW iss, NEW e, e.iterations \in Nat
  PROVE  /\ \A c \in Range(IssTest(a, iss, e)) :
              ~has(e, "no_iss") /\ \E i \in 0 .. e.iterations - 1 : SimulatesProgram(a, c, iss, e, i)
         /\ \A i \in 0 .. e.iterations - 1 : ~has(e, "no_iss") =>
              \E c \in Range(IssTest(a, iss, e)) : SimulatesProgram(a, c, iss, e, i)
<1>1. CASE has(e, "no_iss")
  BY <1>1, ShortLists DEF IssTest
<1>2. CASE ~has(e, "no_iss")
  <2>1. PICK k \in Nat : k = e.iterations
    OBVIOUS
  <2>2. PICK f : f = IssTest(a, iss, e)
    OBVIOUS
  <2>3. f = [i \in 1 .. k |-> f[i]] /\ \A i \in 1 .. k : SimulatesProgram(a, f[i], iss, e, i - 1)
    BY <1>2, <2>1, <2>2 DEF IssTest, simulation, SimulatesProgram, OfProgram
  <2>4. Range(f) = {f[i] : i \in 1 .. k}
    BY <2>3, MapList
  <2>5. \A i \in 1 .. k : i - 1 \in 0 .. k - 1
    OBVIOUS
  <2>6. ASSUME NEW i \in 0 .. k - 1 PROVE \E c \in Range(f) : SimulatesProgram(a, c, iss, e, i)
    <3>1. i + 1 \in 1 .. k /\ (i + 1) - 1 = i
      OBVIOUS
    <3> QED
      BY <2>3, <2>4, <3>1
  <2>7. ASSUME NEW c \in Range(f) PROVE \E i \in 0 .. k - 1 : SimulatesProgram(a, c, iss, e, i)
    <3>1. PICK i \in 1 .. k : c = f[i]
      BY <2>4
    <3>2. SimulatesProgram(a, c, iss, e, i - 1)
      BY <2>3, <3>1
    <3> QED
      BY <2>5, <3>2
  <2> QED
    BY <1>2, <2>1, <2>2, <2>6, <2>7
<1> QED
  BY <1>1, <1>2

\* iss_sim simulates every program of the tests without no_iss on every simulator,
\* or crashes, and does nothing else.
LEMMA IssMembers ==
  ASSUME NEW a, Options(a), NEW list, IsList(list), \A e \in Range(list) : e.iterations \in Nat
  PROVE  /\ IsList(iss_sim(a, list))
         /\ \A c \in Range(iss_sim(a, list)) :
              \/ c.op = "crash"
              \/ /\ c.op = "simulate"
                 /\ \E e \in Range(list) : ~has(e, "no_iss") /\ \E i \in 0 .. e.iterations - 1 : OfProgram(a, c, e, i)
         /\ \A iss \in Range(a.iss) : \A e \in Range(list) : \A i \in 0 .. e.iterations - 1 : ~has(e, "no_iss") =>
              \E c \in Range(iss_sim(a, list)) : c.op = "crash" \/ SimulatesProgram(a, c, iss, e, i)
<1> DEFINE on(iss) == [n \in DOMAIN list |-> IssTest(a, iss, list[n])]
           ss == [m \in DOMAIN a.iss |-> parse_iss_yaml(a.iss[m], FlattenSeq(on(a.iss[m])))]
<1>1. iss_sim(a, list) = FlattenSeq(ss)
  BY DEF iss_sim, Each, per_program, IssTest
<1>2. ASSUME NEW iss
      PROVE  /\ IsList(FlattenSeq(on(iss)))
             /\ \A c \in Range(FlattenSeq(on(iss))) : \E e \in Range(list) :
                  ~has(e, "no_iss") /\ \E i \in 0 .. e.iterations - 1 : SimulatesProgram(a, c, iss, e, i)
             /\ \A e \in Range(list) : \A i \in 0 .. e.iterations - 1 : ~has(e, "no_iss") =>
                  \E c \in Range(FlattenSeq(on(iss))) : SimulatesProgram(a, c, iss, e, i)
  <2>1. PICK ls : ls = on(iss)
    OBVIOUS
  <2>2. ls = [n \in DOMAIN list |-> ls[n]] /\ \A n \in DOMAIN list : ls[n] = IssTest(a, iss, list[n])
    BY <2>1
  <2>3. \A n \in DOMAIN list : list[n] \in Range(list) /\ list[n].iterations \in Nat
    BY DEF Range
  <2>4. \A n \in DOMAIN list : IsList(ls[n])
    BY <2>2, <2>3, IssTestCommands
  <2>5. IsList(FlattenSeq(ls)) /\ Range(FlattenSeq(ls)) = UNION {Range(ls[n]) : n \in DOMAIN list}
    BY <2>2, <2>4, EachRange
  <2>6. ASSUME NEW c \in Range(FlattenSeq(ls))
        PROVE  \E e \in Range(list) : ~has(e, "no_iss") /\ \E i \in 0 .. e.iterations - 1 : SimulatesProgram(a, c, iss, e, i)
    <3>1. PICK n \in DOMAIN list : c \in Range(ls[n])
      BY <2>5
    <3>2. PICK e \in Range(list) : e = list[n] /\ e.iterations \in Nat /\ ls[n] = IssTest(a, iss, e)
      BY <2>2, <2>3
    <3> QED
      BY <3>1, <3>2, IssTestMembers
  <2>7. ASSUME NEW e \in Range(list), NEW i \in 0 .. e.iterations - 1, ~has(e, "no_iss")
        PROVE  \E c \in Range(FlattenSeq(ls)) : SimulatesProgram(a, c, iss, e, i)
    <3>1. PICK n \in DOMAIN list : list[n] = e
      BY DEF Range
    <3>2. ls[n] = IssTest(a, iss, e)
      BY <2>2, <3>1
    <3>3. PICK c \in Range(ls[n]) : SimulatesProgram(a, c, iss, e, i)
      BY <2>7, <3>2, IssTestMembers
    <3> QED
      BY <2>5, <3>3
  <2> QED
    BY <2>1, <2>5, <2>6, <2>7
<1> HIDE DEF on
<1>3. ASSUME NEW m \in DOMAIN a.iss
      PROVE  /\ IsList(ss[m])
             /\ \A c \in Range(ss[m]) : c.op = "crash" \/ \E e \in Range(list) :
                  ~has(e, "no_iss") /\ \E i \in 0 .. e.iterations - 1 : SimulatesProgram(a, c, a.iss[m], e, i)
             /\ \A e \in Range(list) : \A i \in 0 .. e.iterations - 1 : ~has(e, "no_iss") =>
                  \E c \in Range(ss[m]) : c.op = "crash" \/ SimulatesProgram(a, c, a.iss[m], e, i)
  <2>1. PICK x : x = [op |-> "crash"]
    OBVIOUS
  <2>2. PICK s : s = FlattenSeq(on(a.iss[m]))
    OBVIOUS
  <2>3. ss[m] \in {s, << x >>} /\ x.op = "crash"
    BY <2>1, <2>2 DEF parse_iss_yaml, Crash
  <2>4. IsList(<< x >>) /\ Range(<< x >>) = {x}
    BY ShortLists
  <2> HIDE DEF ss
  <2>5. CASE ss[m] = << x >>
    BY <2>3, <2>4, <2>5
  <2>6. CASE ss[m] = s
    <3>1. PICK iss : iss = a.iss[m]
      OBVIOUS
    <3> QED
      BY <1>2, <2>2, <2>6, <3>1
  <2> QED
    BY <2>3, <2>5, <2>6
<1>4. IsList(a.iss) /\ ss = [m \in DOMAIN a.iss |-> ss[m]]
  BY DEF Options
<1> HIDE DEF ss
<1>5. IsList(FlattenSeq(ss)) /\ Range(FlattenSeq(ss)) = UNION {Range(ss[m]) : m \in DOMAIN a.iss}
  BY <1>3, <1>4, EachRange
<1>6. ASSUME NEW c \in Range(FlattenSeq(ss))
      PROVE  \/ c.op = "crash"
             \/ /\ c.op = "simulate"
                /\ \E e \in Range(list) : ~has(e, "no_iss") /\ \E i \in 0 .. e.iterations - 1 : OfProgram(a, c, e, i)
  <2>1. PICK m \in DOMAIN a.iss : c \in Range(ss[m])
    BY <1>5
  <2> QED
    BY <1>3, <2>1 DEF SimulatesProgram
<1>7. ASSUME NEW iss \in Range(a.iss), NEW e \in Range(list), NEW i \in 0 .. e.iterations - 1, ~has(e, "no_iss")
      PROVE  \E c \in Range(FlattenSeq(ss)) : c.op = "crash" \/ SimulatesProgram(a, c, iss, e, i)
  <2>1. PICK m \in DOMAIN a.iss : a.iss[m] = iss
    BY DEF Range
  <2>2. PICK c \in Range(ss[m]) : c.op = "crash" \/ SimulatesProgram(a, c, iss, e, i)
    BY <1>3, <1>7, <2>1
  <2> QED
    BY <1>5, <2>2
<1> QED
  BY <1>1, <1>5, <1>6, <1>7

\* The directed tests of the command line are supplied.
LEMMA GivenTestsSupplied ==
  ASSUME NEW a, Options(a), NEW k
  PROVE  /\ IsList(GivenTests(a, k)) /\ Supplied(a, GivenTests(a, k))
         /\ \A c \in Range(GivenTests(a, k)) : c.op = "simulate" => Tested(a, c.log)
<1> DEFINE list == arg_tests(a)
           ss == [n \in DOMAIN list |-> one_test(a, k, list[n], list[n].name)]
           names == [n \in DOMAIN list |-> list[n].name]
<1>1. GivenTests(a, k) = FlattenSeq(ss)
  BY DEF GivenTests, Each
<1>2. IsList(list)
  BY DEF arg_tests, Options
<1>3. OneTests(a, k, list, ss, names)
  BY DEF OneTests
<1> HIDE DEF ss, names
<1>4. /\ Supplied(a, FlattenSeq(ss))
      /\ \A c \in Range(FlattenSeq(ss)) : \E n \in DOMAIN list : OfTest(c, log_of_test(a, names[n], k))
  BY <1>2, <1>3, TestsSupplied
<1>5. ASSUME NEW c \in Range(FlattenSeq(ss)) PROVE Tested(a, c.log)
  <2>1. PICK n \in DOMAIN list : OfTest(c, log_of_test(a, names[n], k))
    BY <1>4
  <2>2. list # << >>
    BY <2>1
  <2> QED
    BY <2>2 DEF Tested
<1> QED
  BY <1>1, <1>4, <1>5, GivenTestCommands

\* So are the commands before those of the test list.
LEMMA GivenSupplied ==
  ASSUME NEW a, Options(a), ImportsEnd, NEW k
  PROVE  /\ IsList(GivenPart(a, k)) /\ Supplied(a, GivenPart(a, k))
         /\ \A c \in Range(GivenPart(a, k)) : c.op = "simulate" => Tested(a, c.log)
<1>1. PICK s : s = GivenTests(a, k)
  OBVIOUS
<1>2. PICK t : t = CopyPart(a)
  OBVIOUS
<1>3. IsList(s) /\ Supplied(a, s) /\ \A c \in Range(s) : c.op = "simulate" => Tested(a, c.log)
  BY <1>1, GivenTestsSupplied
<1>4. IsList(t) /\ \A c \in Range(t) : c.op = "run_cmd"
  BY <1>2, Copies
<1>5. \A c \in Range(t) : c.op # "compare" /\ c.op # "simulate"
  BY <1>4
<1>6. Supplied(a, t)
  BY <1>4, <1>5, NoComparison
<1>7. Supplied(a, s \o t)
  BY <1>3, <1>4, <1>6, SuppliedJoin
<1>8. IsList(s \o t) /\ Range(s \o t) = Range(s) \union Range(t)
  BY <1>3, <1>4, Concat
<1>9. \A c \in Range(s \o t) : c.op = "simulate" => Tested(a, c.log)
  BY <1>3, <1>5, <1>8
<1>10. GivenPart(a, k) = s \o t
  BY <1>1, <1>2 DEF GivenPart
<1> QED
  BY <1>7, <1>8, <1>9, <1>10

\* The directed tests of the test list are supplied.
LEMMA DirectedSupplied ==
  ASSUME NEW a, Options(a), ImportsEnd, NEW k
  PROVE  /\ IsList(DirectedPart(a, k)) /\ Supplied(a, DirectedPart(a, k))
         /\ \A c \in Range(DirectedPart(a, k)) : c.op = "simulate" => Tested(a, c.log)
<1> DEFINE list == Directed(a)
           ss == [n \in DOMAIN list |-> one_test(a, k, list[n].file, list[n].test)]
           names == [n \in DOMAIN list |-> list[n].test]
<1>1. DirectedPart(a, k) = FlattenSeq(ss)
  BY DEF DirectedPart, Each
<1>2. IsList(list)
  BY TestsOf
<1>3. OneTests(a, k, list, ss, names)
  BY DEF OneTests
<1>4. \A n \in DOMAIN list : names[n] = list[n].test /\ list[n] \in Range(Directed(a))
  BY DEF Range
<1> HIDE DEF ss, names, list
<1>5. /\ Supplied(a, FlattenSeq(ss))
      /\ \A c \in Range(FlattenSeq(ss)) : \E n \in DOMAIN list : OfTest(c, log_of_test(a, names[n], k))
  BY <1>2, <1>3, TestsSupplied
<1>6. ASSUME NEW c \in Range(FlattenSeq(ss)), c.op = "simulate" PROVE Tested(a, c.log)
  <2>1. PICK n \in DOMAIN list : OfTest(c, log_of_test(a, names[n], k))
    BY <1>5
  <2>2. PICK d \in Range(Directed(a)) : names[n] = d.test
    BY <1>4
  <2>3. PICK log : log = log_of_test(a, d.test, k)
    OBVIOUS
  <2>4. c.log = log
    BY <1>6, <2>1, <2>2, <2>3 DEF OfTest
  <2>5. a.gen_sv_seed \in Nat
    BY DEF Options
  <2>6. log[1] = d.test /\ (a.gen_sv_seed = 0 => log[2] = NoIndex)
    BY <2>3, <2>5 DEF log_of_test
  <2> QED
    BY <2>4, <2>6 DEF Tested
<1> QED
  BY <1>1, <1>5, <1>6, ListedCommands

\* The log of a program of a test is written only if a test of its name is simulated.
LEMMA TestedProgram ==
  ASSUME NEW a, Options(a), ImportsEnd, TestsApart(a), arg_tests(a) = << >>,
         NEW e \in Range(Matched(a)), NEW i \in 0 .. e.iterations - 1,
         Tested(a, log_of_program(a, e, i))
  PROVE  \E f \in Range(Matched(a)) : ~has(f, "no_iss") /\ f.test = e.test /\ i \in 0 .. f.iterations - 1
<1>1. PICK log : log = log_of_program(a, e, i) /\ log[1] = e.test /\ log[2] = i
  BY DEF log_of_program
<1>2. CASE \E d \in Range(Directed(a)) : log[1] = d.test /\ (a.gen_sv_seed = 0 => log[2] = NoIndex)
  <2>1. PICK d \in Range(Directed(a)) : log[1] = d.test /\ (a.gen_sv_seed = 0 => log[2] = NoIndex)
    BY <1>2
  <2>2. e.iterations \in Nat
    BY MatchedEntries
  <2>3. i # NoIndex
    BY <2>2 DEF NoIndex
  <2>4. a.gen_sv_seed \in Nat /\ a.gen_sv_seed # 0
    BY <1>1, <2>1, <2>3 DEF Options
  <2>5. a.gen_sv_seed > 0
    BY <2>4
  <2>6. d \in Range(Found(a)) /\ asm_directed(d) /\ e \in Range(Found(a)) /\ ~asm_directed(e)
    BY TestsOf
  <2>7. ~has(e, "no_iss")
    BY <1>1, <2>1, <2>5, <2>6 DEF TestsApart
  <2> QED
    BY <2>7
<1>3. CASE \E f \in Range(Matched(a)) : ~has(f, "no_iss") /\ log \in ProgramLogs(a, f)
  <2>1. PICK f \in Range(Matched(a)) : ~has(f, "no_iss") /\ log \in ProgramLogs(a, f)
    BY <1>3
  <2>2. PICK j \in 0 .. f.iterations - 1 : log = log_of_program(a, f, j)
    BY <2>1 DEF ProgramLogs
  <2>3. f.test = e.test /\ j = i
    BY <1>1, <2>2 DEF log_of_program
  <2> QED
    BY <2>1, <2>2, <2>3
<1> QED
  BY <1>1, <1>2, <1>3 DEF Tested

\* Programs are compiled, simulated and then compared.
LEMMA ElfSupplied ==
  ASSUME NEW a, Options(a), ImportsEnd, TestsApart(a), whole_run(a)
  PROVE  /\ IsList(ElfPart(a)) /\ Supplied(a, ElfPart(a))
         /\ \A c \in Range(ElfPart(a)) : c.op = "simulate" => Tested(a, c.log)
<1>1. PICK list : list = Matched(a)
  OBVIOUS
<1>2. IsList(list) /\ \A e \in Range(list) : e.iterations \in Nat
  BY <1>1, MatchedEntries
<1>3. PICK p : p = gcc_compile(list)
  OBVIOUS
<1>4. PICK u : u = iss_sim(a, list)
  OBVIOUS
<1>5. PICK v : v = iss_cmp(a, list)
  OBVIOUS
<1>6. IsList(p) /\ \A c \in Range(p) : c.op = "gcc"
  BY <1>2, <1>3, GccMembers
<1>7. /\ IsList(u)
      /\ \A c \in Range(u) :
           \/ c.op = "crash"
           \/ /\ c.op = "simulate"
              /\ \E e \in Range(list) : ~has(e, "no_iss") /\ \E i \in 0 .. e.iterations - 1 : OfProgram(a, c, e, i)
      /\ \A iss \in Range(a.iss) : \A e \in Range(list) : \A i \in 0 .. e.iterations - 1 : ~has(e, "no_iss") =>
           \E c \in Range(u) : c.op = "crash" \/ SimulatesProgram(a, c, iss, e, i)
  BY <1>2, <1>4, IssMembers
<1>8. /\ IsList(v)
      /\ \A c \in Range(v) :
           \/ c.op = "summarize"
           \/ /\ c.op = "compare" /\ Len(a.iss) = 2
              /\ \E e \in Range(list) : \E i \in 0 .. e.iterations - 1 : OfProgram(a, c, e, i)
  BY <1>2, <1>5, CmpMembers
<1>9. ASSUME NEW c \in Range(v), c.op = "compare", Tested(a, c.log) PROVE ShownIn(a, u, v, c)
  <2>1. PICK e \in Range(list) : Len(a.iss) = 2 /\ \E i \in 0 .. e.iterations - 1 : OfProgram(a, c, e, i)
    BY <1>8, <1>9
  <2>2. PICK i \in 0 .. e.iterations - 1 : Len(a.iss) = 2 /\ OfProgram(a, c, e, i)
    BY <2>1
  <2>3. c.log = log_of_program(a, e, i) /\ c.elf = asm_elf(e, i)
    BY <2>2 DEF OfProgram
  <2>4. arg_tests(a) = << >>
    <3>1. CASE arg_tests(a) # << >>
      <4>1. FoundFor(a) = << >>
        BY <3>1 DEF FoundFor
      <4>2. Range(FoundFor(a)) = {}
        BY <4>1, ShortLists
      <4>3. e \in Range(FoundFor(a))
        BY <1>1, TestsOf
      <4> QED
        BY <4>2, <4>3
    <3> QED
      BY <3>1
  <2>5. PICK f \in Range(list) : ~has(f, "no_iss") /\ f.test = e.test /\ i \in 0 .. f.iterations - 1
    BY <1>1, <1>9, <2>3, <2>4, TestedProgram
  <2>6. OfProgram(a, c, f, i)
    BY <2>3, <2>5 DEF OfProgram, log_of_program, asm_elf
  <2>7. \A j \in 1 .. 2 : a.iss[j] \in Range(a.iss)
    <3>1. IsList(a.iss)
      BY DEF Options
    <3>2. DOMAIN a.iss = 1 .. 2
      BY <2>2, <3>1, ConcatAt
    <3> QED
      BY <3>2 DEF Range
  <2>8. ASSUME NEW x \in Range(u) \union Range(v), NEW j \in 1 .. 2 PROVE ~Spoils(x, a.iss[j], c)
    <3>1. x.op \notin {"compile_directed", "gcc"}
      BY <1>7, <1>8
    <3>2. ASSUME x.op = "simulate", x.log = c.log PROVE x.elf = c.elf
      <4>1. PICK d \in Range(list) : \E n \in 0 .. d.iterations - 1 : OfProgram(a, x, d, n)
        BY <1>7, <1>8, <3>2
      <4>2. PICK n \in 0 .. d.iterations - 1 : OfProgram(a, x, d, n)
        BY <4>1
      <4>3. d.test = e.test /\ n = i
        BY <2>3, <3>2, <4>2 DEF OfProgram, log_of_program
      <4> QED
        BY <2>3, <4>2, <4>3 DEF OfProgram, asm_elf
    <3> QED
      BY <3>1, <3>2 DEF Spoils
  <2>9. (\E x \in Range(u) : x.op = "crash") \/ \A j \in 1 .. 2 : \E x \in Range(u) : Shows(x, a.iss[j], c)
    <3>1. CASE ~\E x \in Range(u) : x.op = "crash"
      <4>1. ASSUME NEW j \in 1 .. 2 PROVE \E x \in Range(u) : Shows(x, a.iss[j], c)
        <5>1. PICK iss \in Range(a.iss) : iss = a.iss[j]
          BY <2>7
        <5>2. PICK x \in Range(u) : SimulatesProgram(a, x, iss, f, i)
          BY <1>7, <2>5, <3>1
        <5>3. Shows(x, iss, c)
          BY <2>6, <5>2 DEF Shows, SimulatesProgram, OfProgram
        <5> QED
          BY <5>1, <5>3
      <4> QED
        BY <4>1
    <3> QED
      BY <3>1
  <2> QED
    BY <2>8, <2>9 DEF ShownIn
<1>10. \A x \in Range(u) : x.op # "compare"
  BY <1>7
<1>11. PICK w : w = u \o v
  OBVIOUS
<1>12. Supplied(a, w)
  BY <1>7, <1>8, <1>9, <1>10, <1>11, SuppliedBehind
<1>13. IsList(w) /\ Range(w) = Range(u) \union Range(v)
  BY <1>7, <1>8, <1>11, Concat
<1>14. Supplied(a, p)
  BY <1>6, NoComparison
<1>15. Supplied(a, p \o w) /\ IsList(p \o w) /\ Range(p \o w) = Range(p) \union Range(w)
  BY <1>6, <1>12, <1>13, <1>14, SuppliedJoin, Concat
<1>16. ElfPart(a) = (p \o u) \o v
  BY <1>1, <1>3, <1>4, <1>5 DEF ElfPart, IssPart, When, whole_run, Steps
<1>17. ElfPart(a) = p \o w
  BY <1>6, <1>7, <1>8, <1>11, <1>16, ConcatThree
<1>18. ASSUME NEW c \in Range(u), c.op = "simulate" PROVE Tested(a, c.log)
  <2>1. PICK e \in Range(list) : ~has(e, "no_iss") /\ \E i \in 0 .. e.iterations - 1 : OfProgram(a, c, e, i)
    BY <1>7, <1>18
  <2>2. c.log \in ProgramLogs(a, e)
    BY <2>1 DEF OfProgram, ProgramLogs
  <2> QED
    BY <1>1, <2>1, <2>2 DEF Tested
<1>19. ASSUME NEW c \in Range(p \o w), c.op = "simulate" PROVE c \in Range(u)
  BY <1>6, <1>8, <1>13, <1>15, <1>19
<1> QED
  BY <1>15, <1>17, <1>18, <1>19

\* In a whole iteration, every comparison whose logs are written is about logs of
\* what was compiled.
LEMMA CommandsSupplied ==
  ASSUME NEW a, Options(a), ImportsEnd, TestsApart(a), whole_run(a), NEW k
  PROVE  /\ IsList(Commands(a, k)) /\ Supplied(a, Commands(a, k))
         /\ \A c \in Range(Commands(a, k)) : c.op = "simulate" => Tested(a, c.log)
<1>1. PICK p : p = GivenPart(a, k)
  OBVIOUS
<1>2. PICK d : d = DirectedPart(a, k)
  OBVIOUS
<1>3. PICK g : g = gen(a, Matched(a))
  OBVIOUS
<1>4. PICK r : r = ElfPart(a)
  OBVIOUS
<1> DEFINE Fine(s) == /\ IsList(s) /\ Supplied(a, s)
                      /\ \A c \in Range(s) : c.op = "simulate" => Tested(a, c.log)
<1>5. Fine(p) /\ Fine(d) /\ Fine(r)
  BY <1>1, <1>2, <1>4, GivenSupplied, DirectedSupplied, ElfSupplied
<1>6. Fine(g)
  <2>1. IsList(g) /\ \A c \in Range(g) : c.op \notin {"compare", "simulate"}
    BY <1>3, MatchedEntries, GenMembers
  <2>2. \A c \in Range(g) : c.op # "compare"
    BY <2>1
  <2> QED
    BY <2>1, <2>2, NoComparison
<1>7. ASSUME NEW s, NEW t, Fine(s), Fine(t) PROVE Fine(s \o t)
  <2>1. IsList(s \o t) /\ Range(s \o t) = Range(s) \union Range(t)
    BY <1>7, Concat
  <2>2. Supplied(a, s \o t)
    BY <1>7, SuppliedJoin
  <2> QED
    BY <1>7, <2>1, <2>2
<1>8. Fine(Crash)
  <2>1. PICK c : c = [op |-> "crash"]
    OBVIOUS
  <2>2. Crash = << c >> /\ c.op = "crash"
    BY <2>1 DEF Crash
  <2>3. IsList(Crash) /\ Range(Crash) = {c}
    BY <2>2, ShortLists
  <2>4. \A x \in Range(Crash) : x.op # "compare" /\ x.op # "simulate"
    BY <2>2, <2>3
  <2> QED
    BY <2>3, <2>4, NoComparison
<1> HIDE DEF Fine
<1>9. PICK q : q = d \o g
  OBVIOUS
<1>10. Fine(q)
  BY <1>5, <1>6, <1>7, <1>9
<1>11. PICK s : s = p \o q
  OBVIOUS
<1>12. Fine(s)
  BY <1>5, <1>7, <1>10, <1>11
<1>13. Fine(s \o r)
  BY <1>5, <1>7, <1>12
<1>14. Commands(a, k) = IF Faulty(a) THEN Crash ELSE s \o r
  BY <1>1, <1>2, <1>3, <1>4, <1>9, <1>11, CommandParts DEF GenPart, When, whole_run, Steps
<1>15. Fine(Commands(a, k))
  BY <1>8, <1>13, <1>14
<1> QED
  BY <1>15 DEF Fine

-----------------------------------------------------------------------------
(***************************************************************************)
(* Verdicts.                                                               *)
(***************************************************************************)
\* the log comparison c reads is a whole one of its program
Current(iss, c) ==
  /\ << iss, c.log >> \in DOMAIN logs
  /\ logs[<< iss, c.log >>].whole /\ logs[<< iss, c.log >>].program = program(c.elf)

\* it is there or will be, and nothing spoils it before position q of s
AtHand(s, q, iss) ==
  \/ \E p \in 1 .. q - 1 : StillShows(s, p, q, iss)
  \/ Current(iss, s[q]) /\ \A x \in 1 .. q - 1 : ~Spoils(s[x], iss, s[q])

\* position q of s is not reached, finds both logs, or one is never written
Ready(a, s, q) ==
  \/ ~Tested(a, s[q].log)
  \/ \E p \in 1 .. q - 1 : s[p].op = "crash"
  \/ \A j \in 1 .. 2 : AtHand(s, q, a.iss[j])

\* The simulations are among those that count, the comparisons are ready.
Underway(a, s) ==
  /\ IsList(s) /\ \A c \in Range(s) : c.op = "simulate" => Tested(a, c.log)
  /\ \A r \in ran : Tested(a, r.log)
  /\ \A q \in DOMAIN s : s[q].op = "compare" => Ready(a, s, q)

\* A whole log tells an execution that its reader understands.
LogsAreWhole ==
  \A id \in DOMAIN logs : logs[id].whole =>
    IF id[1] = "spike" THEN OnSpike(logs[id].exec) ELSE OnRtl(logs[id].exec)

CountsVerdicts ==
  /\ regr = [passed |-> regr.passed, failed |-> regr.failed, summary |-> regr.summary]
  /\ regr.passed \in Nat /\ regr.failed \in Nat

VerdictInv ==
  /\ CountsVerdicts /\ LogsAreWhole
  /\ status = "running" => \E i \in Invocations : args = loaded(i)
  /\ status = "running" /\ whole_run(args) => Underway(args, todo)

\* As long as the package stays, so do the logs that may be written.
LEMMA SameTested ==
  ASSUME UNCHANGED package, NEW a
  PROVE  \A log : Tested(a, log)' <=> Tested(a, log)
<1>1. Able(a)' = Able(a)
  BY DEF Able, Those, Each, NeedsMet, met
<1>2. Directed(a)' = Directed(a) /\ Matched(a)' = Matched(a)
  BY <1>1 DEF Directed, Matched, Those, Each
<1> QED
  BY <1>2 DEF Tested

\* A command that does not spoil a log leaves it, and a simulation writes it.
LEMMA CurrentStays ==
  ASSUME RegressionNext, status = "running", status' = "running", todo # << >>,
         NEW h, h = Head(todo), NEW iss, NEW c
  PROVE  /\ Current(iss, c) /\ ~Spoils(h, iss, c) => Current(iss, c)'
         /\ Shows(h, iss, c) => Current(iss, c)'
<1>1. PICK id : id = << iss, c.log >>
  OBVIOUS
<1>2. CASE UNCHANGED << elf, logs >> /\ h.op # "simulate"
  BY <1>2 DEF Current, program, Shows
<1>3. ASSUME h.op \in {"compile_directed", "gcc"}, UNCHANGED logs, NEW x, elf' = put(single(h.elf, x), elf)
      PROVE  /\ Current(iss, c) /\ ~Spoils(h, iss, c) => Current(iss, c)'
             /\ Shows(h, iss, c) => Current(iss, c)'
  <2>1. ASSUME NEW e, e # h.elf PROVE program(e)' = program(e)
    <3>1. DOMAIN single(h.elf, x) = {h.elf}
      BY DEF single
    <3>2. e \in DOMAIN elf' <=> e \in DOMAIN elf
      BY <1>3, <2>1, <3>1 DEF put
    <3>3. e \in DOMAIN elf => elf'[e] = elf[e]
      BY <1>3, <2>1, <3>1 DEF put
    <3> QED
      BY <3>2, <3>3 DEF program
  <2>2. ~Spoils(h, iss, c) => c.elf # h.elf
    BY <1>3 DEF Spoils
  <2>3. ASSUME Current(iss, c), ~Spoils(h, iss, c) PROVE Current(iss, c)'
    <3>1. program(c.elf)' = program(c.elf)
      BY <2>1, <2>2, <2>3
    <3> QED
      BY <1>3, <2>3, <3>1 DEF Current
  <2> QED
    BY <1>3, <2>3 DEF Shows
<1>4. CASE Simulate
  <2>1. PICK p : p = program(h.elf)
    OBVIOUS
  <2>2. PICK x : logs' = put(single(<< h.iss, h.log >>, [program |-> p, exec |-> x, whole |-> TRUE]), logs)
    BY <1>4, <2>1 DEF Simulate, Exit
  <2>3. UNCHANGED elf
    BY <1>4 DEF Simulate
  <2>4. PICK at : at = << h.iss, h.log >>
    OBVIOUS
  <2>5. PICK new : new = [program |-> p, exec |-> x, whole |-> TRUE]
    OBVIOUS
  <2>6. new.program = p /\ new.whole
    BY <2>5
  <2>7. DOMAIN single(at, new) = {at} /\ single(at, new)[at] = new
    BY DEF single
  <2>8. logs' = put(single(at, new), logs)
    BY <2>2, <2>4, <2>5
  <2>9. DOMAIN logs' = {at} \union DOMAIN logs /\ logs'[at] = new /\ \A n \in DOMAIN logs : n # at => logs'[n] = logs[n]
    BY <2>7, <2>8 DEF put
  <2>10. \A e : program(e)' = program(e)
    BY <2>3 DEF program
  <2>11. ASSUME Shows(h, iss, c) PROVE Current(iss, c)'
    <3>1. id = at /\ p = program(c.elf)
      BY <1>1, <2>1, <2>4, <2>11 DEF Shows
    <3> QED
      BY <1>1, <2>6, <2>9, <2>10, <3>1 DEF Current
  <2>12. ASSUME Current(iss, c), ~Spoils(h, iss, c) PROVE Current(iss, c)'
    <3>1. CASE id = at
      <4>1. h.iss = iss /\ h.log = c.log /\ h.op = "simulate"
        BY <1>1, <1>4, <2>4, <3>1 DEF Simulate, Do
      <4>2. Shows(h, iss, c)
        BY <2>12, <4>1 DEF Shows, Spoils
      <4> QED
        BY <2>11, <4>2
    <3>2. CASE id # at
      BY <1>1, <2>9, <2>10, <2>12, <3>2 DEF Current
    <3> QED
      BY <3>1, <3>2
  <2> QED
    BY <2>11, <2>12
<1>5. CASE CompileDirected
  BY <1>3, <1>5 DEF CompileDirected, Do, Exit
<1>6. CASE Gcc
  BY <1>3, <1>6 DEF Gcc, Do, Exit
<1>7. CASE ~(Simulate \/ CompileDirected \/ Gcc)
  <2>1. UNCHANGED << elf, logs >> /\ h.op # "simulate"
    BY <1>7 DEF RegressionNext, Invoke, StartIteration, Finish, GiveUp, Compare, Summarize, RunCmd, CsrTest,
                GenerateBatch, SaveSeeds, Do, rest
  <2> QED
    BY <1>2, <2>1
<1> QED
  BY <1>4, <1>5, <1>6, <1>7

\* One command on, a log that was at hand still is.
LEMMA AtHandNext ==
  ASSUME RegressionNext, status = "running", status' = "running", todo # << >>,
         NEW h, h = Head(todo), NEW s, NEW t, NEW q \in Nat \ {0}, s[1] = h,
         \A i \in 1 .. q : t[i] = s[i + 1], NEW iss, AtHand(s, q + 1, iss)
  PROVE  AtHand(t, q, iss)'
<1>1. PICK c : c = s[q + 1]
  OBVIOUS
<1>2. t[q] = c
  BY <1>1
<1>3. /\ Current(iss, c) /\ ~Spoils(h, iss, c) => Current(iss, c)'
      /\ Shows(h, iss, c) => Current(iss, c)'
  BY CurrentStays
<1>4. ASSUME NEW d \in 1 .. q, \A x \in d + 1 .. q : ~Spoils(s[x], iss, c)
      PROVE  \A x \in d .. q - 1 : ~Spoils(t[x], iss, c)
  <2>1. ASSUME NEW x \in d .. q - 1 PROVE ~Spoils(t[x], iss, c)
    <3>1. x + 1 \in d + 1 .. q /\ x \in 1 .. q
      OBVIOUS
    <3> QED
      BY <1>4, <3>1
  <2> QED
    BY <2>1
<1>5. (q + 1) - 1 = q
  OBVIOUS
<1>6. PICK one \in 1 .. q : one = 1
  OBVIOUS
<1>7. ASSUME Current(iss, c)', \A x \in one + 1 .. q : ~Spoils(s[x], iss, c) PROVE AtHand(t, q, iss)'
  <2>1. \A x \in one .. q - 1 : ~Spoils(t[x], iss, c)
    BY <1>4, <1>7
  <2>2. \A x \in 1 .. q - 1 : ~Spoils(t[x], iss, c)
    BY <1>6, <2>1
  <2> QED
    BY <1>2, <1>7, <2>2 DEF AtHand
<1>8. CASE \E p \in 1 .. q : StillShows(s, p, q + 1, iss)
  <2>1. PICK p \in 1 .. q : StillShows(s, p, q + 1, iss)
    BY <1>8
  <2>2. Shows(s[p], iss, c) /\ \A x \in p + 1 .. q : ~Spoils(s[x], iss, c)
    BY <1>1, <1>5, <2>1 DEF StillShows
  <2>3. CASE p = 1
    <3>1. Current(iss, c)'
      BY <1>3, <2>2, <2>3
    <3>2. one = p
      BY <1>6, <2>3
    <3> QED
      BY <1>7, <2>2, <3>1, <3>2
  <2>4. CASE p # 1
    <3>1. PICK r \in 1 .. q - 1 : p = r + 1
      <4>1. p - 1 \in 1 .. q - 1 /\ p = (p - 1) + 1
        BY <2>4
      <4> QED
        BY <4>1
    <3>2. Shows(t[r], iss, c)
      <4>1. r \in 1 .. q
        OBVIOUS
      <4> QED
        BY <2>2, <3>1, <4>1
    <3>3. \A x \in r + 1 .. q - 1 : ~Spoils(t[x], iss, c)
      BY <1>4, <2>2, <3>1
    <3> QED
      BY <1>2, <3>2, <3>3 DEF AtHand, StillShows
  <2> QED
    BY <2>3, <2>4
<1>9. CASE Current(iss, c) /\ \A x \in 1 .. q : ~Spoils(s[x], iss, c)
  <2>1. ~Spoils(h, iss, c)
    <3>1. 1 \in 1 .. q
      OBVIOUS
    <3> QED
      BY <1>9, <3>1
  <2>2. \A x \in one + 1 .. q : ~Spoils(s[x], iss, c)
    BY <1>6, <1>9
  <2> QED
    BY <1>3, <1>7, <1>9, <2>1, <2>2
<1> QED
  BY <1>1, <1>5, <1>8, <1>9 DEF AtHand

\* One command on, a comparison that was ready still is.
LEMMA ReadyNext ==
  ASSUME RegressionNext, status = "running", status' = "running", todo # << >>, UNCHANGED package,
         NEW h, h = Head(todo), h.op # "crash", NEW s, NEW t, NEW q \in Nat \ {0}, s[1] = h,
         \A i \in 1 .. q : t[i] = s[i + 1], NEW a, Ready(a, s, q + 1)
  PROVE  Ready(a, t, q)'
<1>1. t[q] = s[q + 1] /\ (q + 1) - 1 = q
  OBVIOUS
<1>2. CASE ~Tested(a, s[q + 1].log)
  <2>1. PICK log : log = s[q + 1].log
    OBVIOUS
  <2>2. ~Tested(a, log)'
    BY <1>2, <2>1, SameTested
  <2>3. t[q].log = log
    BY <1>1, <2>1
  <2> QED
    BY <2>2, <2>3 DEF Ready
<1>3. CASE \E p \in 1 .. q : s[p].op = "crash"
  <2>1. PICK p \in 1 .. q : s[p].op = "crash"
    BY <1>3
  <2>2. p - 1 \in 1 .. q - 1 /\ p - 1 \in 1 .. q /\ (p - 1) + 1 = p
    <3>1. p # 1
      BY <2>1
    <3> QED
      BY <3>1
  <2>3. t[p - 1].op = "crash"
    BY <2>1, <2>2
  <2> QED
    BY <2>2, <2>3 DEF Ready
<1>4. CASE \A j \in 1 .. 2 : AtHand(s, q + 1, a.iss[j])
  <2>1. ASSUME NEW j \in 1 .. 2 PROVE AtHand(t, q, a.iss[j])'
    <3>1. PICK iss : iss = a.iss[j]
      OBVIOUS
    <3>2. AtHand(s, q + 1, iss)
      BY <1>4, <3>1
    <3>3. AtHand(t, q, iss)'
      BY <3>2, AtHandNext
    <3> QED
      BY <3>1, <3>3
  <2> QED
    BY <2>1 DEF Ready
<1> QED
  BY <1>1, <1>2, <1>3, <1>4 DEF Ready

\* Every command leaves the rest ready.
LEMMA UnderwayNext ==
  ASSUME RegressionNext, status = "running", status' = "running", todo # << >>,
         NEW a, Underway(a, todo)
  PROVE  Underway(a, todo)'
<1>1. PICK s : s = todo
  OBVIOUS
<1>2. PICK t : t = Tail(s)
  OBVIOUS
<1>3. PICK h : h = Head(todo)
  OBVIOUS
<1>4. todo' = t /\ UNCHANGED package /\ h.op # "crash"
  BY <1>1, <1>2, <1>3
     DEF RegressionNext, Invoke, StartIteration, Finish, GiveUp, CompileDirected, Simulate, Compare, Summarize,
         RunCmd, CsrTest, GenerateBatch, SaveSeeds, Gcc, Do, Next1, Exit, rest
<1>5. IsList(s) /\ s # << >> /\ Underway(a, s)
  BY <1>1 DEF Underway
<1>6. h \in Range(s) /\ IsList(t) /\ Range(s) = {h} \union Range(t)
  BY <1>1, <1>2, <1>3, <1>5, HeadAndTail
<1>7. PICK n \in Nat : DOMAIN t = 1 .. n /\ s[1] = h /\ DOMAIN s = 1 .. n + 1 /\ \A i \in 1 .. n : t[i] = s[i + 1]
  <2>1. PICK n \in Nat : n = Len(t) /\ DOMAIN t = 1 .. n
    BY <1>6, ConcatAt
  <2>2. PICK m \in Nat : m = Len(s) /\ DOMAIN s = 1 .. m
    BY <1>5, ConcatAt
  <2>3. n = m - 1 /\ \A i \in 1 .. n : t[i] = s[i + 1]
    BY <1>2, <1>5, <2>1, <2>2, HeadTailProperties DEF IsList
  <2>4. s[1] = h
    BY <1>1, <1>3, <1>5 DEF IsList
  <2> QED
    BY <2>1, <2>2, <2>3, <2>4
<1>8. ASSUME NEW q \in DOMAIN t, t[q].op = "compare" PROVE Ready(a, t, q)'
  <2>1. q \in Nat \ {0} /\ q + 1 \in DOMAIN s /\ t[q] = s[q + 1] /\ \A i \in 1 .. q : t[i] = s[i + 1]
    BY <1>7
  <2>2. Ready(a, s, q + 1)
    BY <1>5, <1>8, <2>1 DEF Underway
  <2> QED
    BY <1>3, <1>4, <1>7, <2>1, <2>2, ReadyNext
<1>9. \A log : Tested(a, log)' <=> Tested(a, log)
  BY <1>4, SameTested
<1>10. \A r \in ran' : r \in ran \/ (h.op = "simulate" /\ r.log = h.log)
  BY <1>3 DEF RegressionNext, Invoke, StartIteration, Finish, GiveUp, CompileDirected, Simulate, Compare, Summarize,
         RunCmd, CsrTest, GenerateBatch, SaveSeeds, Gcc, Do, ghosts
<1>11. \A r \in ran' : Tested(a, r.log)
  BY <1>5, <1>6, <1>10 DEF Underway
<1>12. Underway(a, t)'
  BY <1>5, <1>6, <1>8, <1>9, <1>11 DEF Underway
<1> QED
  BY <1>4, <1>12

\* An iteration starts with commands whose comparisons are ready.
LEMMA UnderwayStart ==
  ASSUME ImportsEnd, StartIteration, NEW a, a = args, Options(a), TestsApart(a), whole_run(a), Underway(a, todo)
  PROVE  Underway(a, todo)'
<1>1. PICK s : s = Commands(a, iteration)
  OBVIOUS
<1>2. todo' = s /\ UNCHANGED << package, ran >>
  BY <1>1 DEF StartIteration, outdir
<1>3. IsList(s) /\ Supplied(a, s) /\ \A c \in Range(s) : c.op = "simulate" => Tested(a, c.log)
  BY <1>1, CommandsSupplied
<1>4. \A log : Tested(a, log)' <=> Tested(a, log)
  BY <1>2, SameTested
<1>5. ASSUME NEW q \in DOMAIN s, s[q].op = "compare" PROVE Ready(a, s, q)'
  <2>1. Backed(a, s, q) \/ ~Tested(a, s[q].log)
    BY <1>3, <1>5 DEF Supplied
  <2>2. CASE Backed(a, s, q)
    BY <2>2 DEF Backed, Ready, AtHand
  <2>3. CASE ~Tested(a, s[q].log)
    <3>1. PICK log : log = s[q].log
      OBVIOUS
    <3>2. ~Tested(a, log)'
      BY <1>4, <2>3, <3>1
    <3> QED
      BY <3>1, <3>2 DEF Ready
  <2> QED
    BY <2>1, <2>2, <2>3
<1>6. Underway(a, s)'
  BY <1>2, <1>3, <1>4, <1>5 DEF Underway
<1> QED
  BY <1>2, <1>6

\* What the logs tell.
LEMMA LogsStep ==
  ASSUME PlainExecutions, LogsAreWhole, [RegressionNext]_vars
  PROVE  LogsAreWhole'
<1>1. CASE Simulate
  <2>1. PICK h : h = Head(todo)
    OBVIOUS
  <2>2. PICK p : p = program(h.elf)
    OBVIOUS
  <2>3. PICK at : at = << h.iss, h.log >>
    OBVIOUS
  <2>4. at[1] = h.iss
    BY <2>3
  <2>5. PICK y : \E x : /\ logs' = put(single(at, [program |-> p, exec |-> x, whole |-> y]), logs)
                        /\ y => x \in IF h.iss = "spike" THEN {Meaning(p)} ELSE Outcomes(Meaning(p))
    <3>1. CASE \E x \in IF h.iss = "spike" THEN {Meaning(p)} ELSE Outcomes(Meaning(p)) :
                 logs' = put(single(at, [program |-> p, exec |-> x, whole |-> TRUE]), logs)
      BY <3>1
    <3>2. CASE logs' = put(single(at, [program |-> p, exec |-> << >>, whole |-> FALSE]), logs)
      BY <3>2
    <3> QED
      BY <1>1, <2>1, <2>2, <2>3, <3>1, <3>2 DEF Simulate
  <2>6. PICK x : /\ logs' = put(single(at, [program |-> p, exec |-> x, whole |-> y]), logs)
                 /\ y => x \in IF h.iss = "spike" THEN {Meaning(p)} ELSE Outcomes(Meaning(p))
    BY <2>5
  <2>7. PICK new : new = [program |-> p, exec |-> x, whole |-> y]
    OBVIOUS
  <2>8. new.exec = x /\ new.whole = y
    BY <2>7
  <2>9. y => IF at[1] = "spike" THEN OnSpike(x) ELSE OnRtl(x)
    <3>1. y => x \in IF h.iss = "spike" THEN {Meaning(p)} ELSE Outcomes(Meaning(p))
      BY <2>6
    <3>2. CASE h.iss = "spike"
      <4>1. y => x = Meaning(p)
        BY <3>1, <3>2
      <4> QED
        BY <2>4, <3>2, <4>1 DEF PlainExecutions, PlainExecution
    <3>3. CASE h.iss # "spike"
      <4>1. y => x \in Outcomes(Meaning(p))
        BY <3>1, <3>3
      <4> QED
        BY <2>4, <3>3, <4>1 DEF PlainExecutions, PlainExecution
    <3> QED
      BY <3>2, <3>3
  <2>10. DOMAIN single(at, new) = {at} /\ single(at, new)[at] = new
    BY DEF single
  <2>11. logs' = put(single(at, new), logs)
    <3>1. logs' = put(single(at, [program |-> p, exec |-> x, whole |-> y]), logs)
      BY <2>6
    <3> QED
      BY <2>7, <3>1
  <2>12. DOMAIN logs' = {at} \union DOMAIN logs /\ logs'[at] = new /\ \A n \in DOMAIN logs : n # at => logs'[n] = logs[n]
    BY <2>10, <2>11 DEF put
  <2> QED
    BY <2>8, <2>9, <2>12 DEF LogsAreWhole
<1>2. CASE ~Simulate
  <2>1. UNCHANGED logs
    BY <1>2 DEF RegressionNext, Invoke, StartIteration, Finish, GiveUp, CompileDirected, Compare, Summarize,
         RunCmd, CsrTest, GenerateBatch, SaveSeeds, Gcc, vars, outdir
  <2> QED
    BY <2>1 DEF LogsAreWhole
<1> QED
  BY <1>1, <1>2

\* The counts of the report.
LEMMA CountsStep ==
  ASSUME CountsVerdicts, [RegressionNext]_vars
  PROVE  /\ CountsVerdicts'
         /\ regr'.passed + regr'.failed > regr.passed + regr.failed => Compare
<1>1. CASE Compare
  <2>1. \/ UNCHANGED regr
        \/ regr' = [regr EXCEPT !.passed = @ + 1]
        \/ regr' = [regr EXCEPT !.failed = @ + 1]
    BY <1>1 DEF Compare
  <2>2. CountsVerdicts'
    BY <2>1 DEF CountsVerdicts
  <2> QED
    BY <1>1, <2>2
<1>2. CASE Summarize
  <2>1. regr' = [regr EXCEPT !.summary = << regr.passed, regr.failed >>]
    BY <1>2 DEF Summarize
  <2>2. PICK n : n = << regr.passed, regr.failed >>
    OBVIOUS
  <2>3. regr' = [regr EXCEPT !.summary = n]
    BY <2>1, <2>2
  <2>4. regr' = [passed |-> regr.passed, failed |-> regr.failed, summary |-> n]
    BY <2>3 DEF CountsVerdicts
  <2>5. regr'.passed = regr.passed /\ regr'.failed = regr.failed /\ regr'.summary = n
    BY <2>4
  <2> QED
    BY <2>4, <2>5 DEF CountsVerdicts
<1>3. CASE ~(Compare \/ Summarize)
  <2>1. UNCHANGED regr
    BY <1>3 DEF RegressionNext, Invoke, StartIteration, Finish, GiveUp, CompileDirected, Simulate,
         RunCmd, CsrTest, GenerateBatch, SaveSeeds, Gcc, vars, outdir
  <2> QED
    BY <2>1 DEF CountsVerdicts
<1> QED
  BY <1>1, <1>2, <1>3

\* No verdict is under way at first.
LEMMA VerdictInit == RegressionInit => VerdictInv
<1> SUFFICES ASSUME RegressionInit PROVE VerdictInv
  OBVIOUS
<1>1. CountsVerdicts
  BY DEF RegressionInit, CountsVerdicts
<1>2. LogsAreWhole
  BY DEF RegressionInit, NoFile, LogsAreWhole
<1> QED
  BY <1>1, <1>2 DEF RegressionInit, VerdictInv

\* No step breaks it.
LEMMA VerdictStep ==
  ASSUME ImportsEnd, NamesApart, PlainExecutions, VerdictInv, [RegressionNext]_vars
  PROVE  VerdictInv'
<1>1. CountsVerdicts' /\ LogsAreWhole'
  BY CountsStep, LogsStep DEF VerdictInv
<1>2. CASE status' # "running"
  BY <1>1, <1>2 DEF VerdictInv
<1>3. CASE UNCHANGED vars
  <2>1. UNCHANGED << args, status, todo, package, ran, logs, elf >>
    BY <1>3 DEF vars, process, outdir, ghosts
  <2>2. PICK a, s : a = args /\ s = todo
    OBVIOUS
  <2>3. \A log : Tested(a, log)' <=> Tested(a, log)
    BY <2>1, SameTested
  <2>4. \A iss, c : Current(iss, c)' <=> Current(iss, c)
    BY <2>1 DEF Current, program
  <2>5. \A q, iss : AtHand(s, q, iss) => AtHand(s, q, iss)'
    BY <2>4 DEF AtHand
  <2>6. \A q : Ready(a, s, q) => Ready(a, s, q)'
    BY <2>3, <2>5 DEF Ready
  <2>7. Underway(a, s) => Underway(a, s)'
    BY <2>1, <2>3, <2>6 DEF Underway
  <2>8. args' = a /\ todo' = s
    BY <2>1, <2>2
  <2>9. whole_run(args)' <=> whole_run(args)
    BY <2>1
  <2> QED
    BY <1>1, <2>1, <2>2, <2>7, <2>8, <2>9 DEF VerdictInv
<1>4. CASE Invoke /\ status' = "running"
  <2>1. PICK t : t = << >>
    OBVIOUS
  <2>2. todo' = t /\ ran' = {} /\ \E i \in Invocations : args' = loaded(i)
    BY <1>4, <2>1 DEF Invoke
  <2>3. IsList(t) /\ Range(t) = {} /\ DOMAIN t = {}
    BY <2>1, ShortLists
  <2>4. \A a : Underway(a, t)'
    BY <2>2, <2>3 DEF Underway
  <2> QED
    BY <1>1, <2>2, <2>4 DEF VerdictInv
<1>5. CASE RegressionNext /\ status = "running" /\ status' = "running"
  <2>1. UNCHANGED args
    BY <1>5 DEF RegressionNext, Invoke, StartIteration, Finish, GiveUp, CompileDirected, Simulate, Compare, Summarize,
         RunCmd, CsrTest, GenerateBatch, SaveSeeds, Gcc, rest
  <2>2. PICK i \in Invocations : args = loaded(i)
    BY <1>5 DEF VerdictInv
  <2>3. PICK a : a = args
    OBVIOUS
  <2>4. Options(a) /\ TestsApart(a)
    BY <2>2, <2>3, LoadedOptions DEF NamesApart
  <2>5. ASSUME whole_run(a) PROVE Underway(a, todo)'
    <3>1. Underway(a, todo)
      BY <1>5, <2>3, <2>5 DEF VerdictInv
    <3>2. CASE StartIteration
      BY <2>3, <2>4, <2>5, <3>1, <3>2, UnderwayStart
    <3>3. CASE ~StartIteration
      <4>1. todo # << >>
        BY <1>5, <3>3 DEF RegressionNext, Invoke, Finish, GiveUp, CompileDirected, Simulate, Compare, Summarize,
             RunCmd, CsrTest, GenerateBatch, SaveSeeds, Gcc, Do
      <4> QED
        BY <1>5, <3>1, <4>1, UnderwayNext
    <3> QED
      BY <3>2, <3>3
  <2>6. args' = a
    BY <2>1, <2>3
  <2> QED
    BY <1>1, <2>2, <2>3, <2>5, <2>6 DEF VerdictInv
<1>6. RegressionNext /\ status' = "running" /\ status # "running" => Invoke
  BY DEF RegressionNext, StartIteration, Finish, GiveUp, CompileDirected, Simulate, Compare, Summarize,
         RunCmd, CsrTest, GenerateBatch, SaveSeeds, Gcc, Do
<1> QED
  BY <1>2, <1>3, <1>4, <1>5, <1>6

\* A comparison whose log was written finds both logs of its program.
LEMMA VerdictCurrent ==
  ASSUME VerdictInv, Compare, whole_run(args), NEW c, c = Head(todo), \E r \in ran : r.log = c.log
  PROVE  \A j \in 1 .. 2 : Current(args.iss[j], c)
<1>1. PICK s : s = todo
  OBVIOUS
<1>2. PICK a : a = args
  OBVIOUS
<1>3. status = "running" /\ s # << >> /\ c.op = "compare"
  BY <1>1 DEF Compare, Do
<1>4. Underway(a, s) /\ IsList(s)
  BY <1>1, <1>2, <1>3 DEF VerdictInv, Underway
<1>5. PICK one : one = 1
  OBVIOUS
<1>6. s[one] = c /\ one \in DOMAIN s
  <2>1. PICK n \in Nat : n = Len(s) /\ DOMAIN s = 1 .. n
    BY <1>4, ConcatAt
  <2>2. n # 0
    BY <1>3, <1>4, <2>1, EmptySeq DEF IsList
  <2>3. Head(s) = s[1]
    BY <1>4 DEF IsList
  <2> QED
    BY <1>1, <1>5, <2>1, <2>2, <2>3
<1>7. Ready(a, s, one) /\ Tested(a, c.log)
  BY <1>3, <1>4, <1>6 DEF Underway
<1>8. ~\E p : p \in 1 .. one - 1
  BY <1>5
<1>9. \A j \in 1 .. 2 : AtHand(s, one, a.iss[j])
  BY <1>6, <1>7, <1>8 DEF Ready
<1>10. ASSUME NEW j \in 1 .. 2 PROVE Current(a.iss[j], c)
  BY <1>6, <1>8, <1>9 DEF AtHand
<1> QED
  BY <1>2, <1>10

\* Its verdict is about what both simulators show.
LEMMA VerdictIsTrue ==
  ASSUME VerdictInv, [RegressionNext]_vars, whole_run(args),
         regr'.passed + regr'.failed > regr.passed + regr.failed,
         NEW c, c = Head(todo), \E r \in ran : r.log = c.log
  PROVE  /\ \A j \in 1 .. 2 : /\ logs[<< args.iss[j], c.log >>].whole
                              /\ logs[<< args.iss[j], c.log >>].program = program(c.elf)
         /\ regr'.passed > regr.passed
              <=> Visible(logs[<< args.iss[1], c.log >>].exec) = Visible(logs[<< args.iss[2], c.log >>].exec)
<1>1. Compare
  BY CountsStep DEF VerdictInv
<1>2. \A j \in 1 .. 2 : Current(args.iss[j], c)
  BY <1>1, VerdictCurrent
<1>3. ASSUME NEW j \in 1 .. 2
      PROVE  trace_csv(args.iss[j], logs[<< args.iss[j], c.log >>]) = Visible(logs[<< args.iss[j], c.log >>].exec)
  <2>1. PICK iss : iss = args.iss[j]
    OBVIOUS
  <2>2. PICK id : id = << iss, c.log >>
    OBVIOUS
  <2>3. id[1] = iss
    BY <2>2
  <2>4. PICK x : x = logs[id].exec
    OBVIOUS
  <2>5. id \in DOMAIN logs /\ logs[id].whole
    BY <1>2, <2>1, <2>2 DEF Current
  <2>6. IF iss = "spike" THEN OnSpike(x) ELSE OnRtl(x)
    BY <2>3, <2>4, <2>5 DEF VerdictInv, LogsAreWhole
  <2>7. trace_csv(iss, logs[id]) = IF iss = "spike" THEN process_spike_sim_log(spike_log(x))
                                                    ELSE process_verilator_sim_log(rtl_log(x))
    BY <2>4 DEF trace_csv
  <2>8. trace_csv(iss, logs[id]) = Visible(x)
    BY <2>6, <2>7, LogsTellExecutions
  <2> QED
    BY <2>1, <2>2, <2>4, <2>8
<1>4. PICK one, two : one = 1 /\ two = 2
  OBVIOUS
<1>5. PICK n, m : n = trace_csv(args.iss[1], logs[<< args.iss[1], c.log >>])
               /\ m = trace_csv(args.iss[2], logs[<< args.iss[2], c.log >>])
  OBVIOUS
<1>6. \A j \in 1 .. 2 : << args.iss[j], c.log >> \in DOMAIN logs
  BY <1>2 DEF Current
<1>8. /\ regr.passed \in Nat /\ regr.failed \in Nat
      /\ regr = [passed |-> regr.passed, failed |-> regr.failed, summary |-> regr.summary]
  BY DEF VerdictInv, CountsVerdicts
<1>12. \A j \in 1 .. 2 : supported(args.iss[j])
  <2> SUFFICES ASSUME ~\A j \in 1 .. 2 : supported(args.iss[j]) PROVE FALSE
    OBVIOUS
  <2>1. regr' = regr
    BY <1>1 DEF Compare
  <2> QED
    BY <1>8, <2>1
<1>7. regr' = IF n = m THEN [regr EXCEPT !.passed = @ + 1] ELSE [regr EXCEPT !.failed = @ + 1]
  BY <1>1, <1>5, <1>6, <1>12 DEF Compare
<1>9. regr'.passed > regr.passed <=> n = m
  BY <1>7, <1>8
<1>10. n = Visible(logs[<< args.iss[1], c.log >>].exec) /\ m = Visible(logs[<< args.iss[2], c.log >>].exec)
  BY <1>3, <1>5
<1>11. \A j \in 1 .. 2 : /\ logs[<< args.iss[j], c.log >>].whole
                         /\ logs[<< args.iss[j], c.log >>].program = program(c.elf)
  BY <1>2 DEF Current
<1> QED
  BY <1>9, <1>10, <1>11

-----------------------------------------------------------------------------
\* verif/sim/cva6.py, run_test, iss_sim, iss_cmp and the readers of the logs:
\* whatever failed, was repeated or overwritten before, a comparison is about two
\* logs of what was compiled last and passes exactly when they show the same.
THEOREM VerdictsAlwaysTrue ==
  ASSUME ImportsEnd, NamesApart, PlainExecutions
  PROVE  RegressionSpec => VerdictsAreTrue
<1> DEFINE True ==
             LET c == Head(todo)
                 e(j) == logs[<< args.iss[j], c.log >>]
             IN  regr'.passed + regr'.failed > regr.passed + regr.failed /\ whole_run(args)
                 /\ (\E r \in ran : r.log = c.log)
                 => /\ \A j \in 1 .. 2 : e(j).whole /\ e(j).program = program(c.elf)
                    /\ regr'.passed > regr.passed <=> Visible(e(1).exec) = Visible(e(2).exec)
<1>1. VerdictInv /\ [RegressionNext]_vars => VerdictInv'
  BY VerdictStep
<1>2. VerdictInv /\ [RegressionNext]_vars => True
  <2> SUFFICES ASSUME VerdictInv, [RegressionNext]_vars PROVE True
    OBVIOUS
  <2>1. PICK c : c = Head(todo)
    OBVIOUS
  <2> QED
    BY <2>1, VerdictIsTrue
<1>3. RegressionSpec => [][True]_vars
  <2> HIDE DEF True
  <2> QED
    BY <1>1, <1>2, VerdictInit, PTL DEF RegressionSpec
<1> QED
  BY <1>3 DEF VerdictsAreTrue
=============================================================================
