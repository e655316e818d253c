----------------------------- MODULE Regression -----------------------------
(***************************************************************************)
(* The regression runner (verif/sim/cva6.py).  A campaign is a series of   *)
(* invocations on one output directory, which is never cleaned: noclean is *)
(* TRUE whatever the command line says.  main() is sequential, and none of *)
(* its loops depends on a result, so each of its iterations is unrolled    *)
(* into the commands it executes; one that fails ends the invocation.      *)
(*                                                                         *)
(* Without --debug, --lsf_cmd and --custom_target; without the ISSs        *)
(* ovpsim, sail and whisper, which have log readers of their own and are   *)
(* not in cva6.yaml; and without the generator's simulator ius, whose exit *)
(* status is not looked at.  Whether SPIKE_TANDEM is set does not change   *)
(* during a campaign.                                                      *)
(***************************************************************************)
EXTENDS UserConfig, TraceCsv, FiniteSets

CONSTANTS Invocations,     \* the command lines, see Args
          MaxInvocations,  \* bound: the length of a campaign
          TestLists,       \* the test lists, by name: sequences of entries
          Base,            \* the lines of the base configuration of target hwconfig
          KnownTools,      \* the entries of the YAML files of ISSs and RTL simulators
          RtlTools,        \* those whose names contain veri, vsim, vcs or questa
          RandomSeeds,     \* what random.getrandbits(31) may give
          Tandem,          \* SPIKE_TANDEM is set
          Meaning(_),      \* the execution of a program the ISA prescribes
          Outcomes(_)      \* the executions the RTL may show instead

None    == -1       \* an option that was not given
NoIndex == -1       \* a log name without an iteration number

Steps == {"gen", "gcc_compile", "iss_sim", "iss_cmp"}

\* the options of parse_args that decide what is run, when argparse accepts them
Args(a) ==
  /\ a.testlist \in DOMAIN TestLists /\ a.steps \subseteq Steps /\ a.iss # << >>
  /\ {a.iterations, a.batch_size, a.gen_sv_seed} \subseteq Nat
  /\ {a.seed, a.start_seed} \subseteq Nat \union {None}
  /\ {a.co, a.so, a.seed_yaml} \subseteq BOOLEAN
  /\ IsList(a.iss) /\ IsList(a.changes) /\ IsList(a.c_tests) /\ IsList(a.elf_tests) /\ IsList(a.asm_tests)
  /\ {"iss", "iterations"} \subseteq DOMAIN a

\* an entry of a test list, or the name of a list to import
Entry(e) ==
  /\ e.iterations \in Nat /\ {"test", "iterations", "needs", "fields"} \subseteq DOMAIN e
  /\ IsList(e.needs)
  /\ e.import # "" => e.import \in DOMAIN TestLists

ASSUME RegressionAssumption ==
  /\ KnownTools \intersect {"ovpsim", "sail", "whisper", "ius"} = {}
  /\ RtlTools \subseteq KnownTools
  /\ MaxInvocations \in Nat /\ RandomSeeds \subseteq Nat /\ Tandem \in BOOLEAN
  /\ \A a \in Invocations : Args(a)
  /\ \A l \in DOMAIN TestLists : IsList(TestLists[l]) /\ \A e \in Range(TestLists[l]) : Entry(e)
  /\ IsList(Base)

VARIABLES args,       \* the command line after parse_args and load_config
          status,     \* of the invocation: "idle", "running", "ok", "failed"
          iteration,  \* test_iteration of main
          todo,       \* the commands of the iteration that are left
          sim_seed,   \* the seeds do_simulate has drawn
          count,      \* invocations so far
          package,    \* hwconfig_config_pkg.sv
          asm,        \* asm_tests: the generated programs
          elf,        \* the compiled programs
          logs,       \* the simulation logs
          reports,    \* the tandem reports *.log.yaml
          seeds,      \* seed.yaml
          regr,       \* iss_regr.log: its [PASSED] and [FAILED] lines, its last summary
          ran,        \* ghost: the simulations of this invocation
          recorded    \* ghost: the programs whose seeds were saved last, and the batch size

process == << args, status, iteration, todo, sim_seed, count >>
outdir  == << package, asm, elf, logs, reports, seeds, regr >>
ghosts  == << ran, recorded >>
vars    == << process, outdir, ghosts >>

-----------------------------------------------------------------------------
(***************************************************************************)
(* The command line.                                                       *)
(***************************************************************************)
\* parse_args.  The help text excludes --seed_yaml with the others, too; the
\* code does not look at it.
usage_error(a) == a.seed # None /\ (a.start_seed # None \/ a.iterations > 1)

iterations_of(a) == IF a.seed # None /\ a.iterations = 0 THEN 1 ELSE a.iterations

\* Spike's log goes first whenever Spike takes part
ordered(iss) ==
  IF \E i \in DOMAIN iss : iss[i] = "spike"
  THEN << "spike" >> \o Those(iss, LAMBDA s : s # "spike")
  ELSE iss

\* load_config: the package of target hwconfig is derived first
derived(a) == IF a.target = "hwconfig" THEN derive_config(Base, a.changes) ELSE package

\* the versions of the compiler, Spike and Verilator, as required or not
check_tools_version == BOOLEAN

known_target(a) == a.target \in {"hwconfig", "cv32a65x"}

loaded(a) == [a EXCEPT !.iterations = iterations_of(a), !.iss = ordered(a.iss)]

\* how often main() repeats everything
repeats(a) == IF a.gen_sv_seed > 0 THEN a.gen_sv_seed ELSE 1

-----------------------------------------------------------------------------
(***************************************************************************)
(* The test list.                                                          *)
(***************************************************************************)
has(e, field) == field \in e.fields

\* openhw_process_regression_list; an imported list is searched in its place
Found(a) ==
  LET chosen(e) == /\ a.test = {} \/ e.test \in a.test
                   /\ e.iterations > 0
      with(e)   == IF a.iterations > 0 THEN [e EXCEPT !.iterations = a.iterations] ELSE e
      list[l \in DOMAIN TestLists] ==
        FlattenSeq([i \in DOMAIN TestLists[l] |->
          LET e == TestLists[l][i]
          IN  CASE e.import # ""                -> list[e.import]
                [] e.import = "" /\ chosen(e)   -> << with(e) >>
                [] e.import = "" /\ ~chosen(e)  -> << >>])
  IN  list[a.testlist]

met(need) == get_config(package)[need[1]] = need[2]

\* the needs are looked at up to the first that is not met; without target
\* hwconfig the options are a string, which has no such key
NeedsError(a, e) ==
  \E n \in DOMAIN e.needs :
    /\ a.target # "hwconfig" \/ e.needs[n][1] \notin DOMAIN get_config(package)
    /\ \A m \in 1 .. n - 1 : met(e.needs[m])

NeedsMet(e) == \A n \in DOMAIN e.needs : met(e.needs[n])

\* gcc_opts and path_var are read first: an entry without them is passed over
\* and stays with the tests for the generator
substituted(e) == {"gcc_opts", "path_var"} \subseteq e.fields

ExclusiveError(e) ==
  /\ substituted(e)
  /\ Cardinality(e.fields \intersect {"asm_tests", "c_tests", "gen_test"}) > 1
  /\ has(e, "asm_tests") \/ has(e, "c_tests")

asm_directed(e) == substituted(e) /\ has(e, "asm_tests")
c_directed(e)   == substituted(e) /\ has(e, "c_tests")

-----------------------------------------------------------------------------
(***************************************************************************)
(* Commands.  A log is named after the test, an index and the target.      *)
(***************************************************************************)
Crash == << [op |-> "crash"] >>

log_of_test(a, name, k) == << name, IF a.gen_sv_seed > 0 THEN k ELSE NoIndex, a.target >>

\* the command of a tool, from its YAML file
parse_iss_yaml(iss, commands) == IF iss \in KnownTools THEN commands ELSE Crash

simulation(iss, e, log, yaml) == [op |-> "simulate", iss |-> iss, elf |-> e, log |-> log, yaml |-> yaml]
comparison(e, log)            == [op |-> "compare", elf |-> e, log |-> log]

\* run_test; the tandem report is named without the number of the iteration
run_test(a, k, file, name) ==
  LET e   == IF file.ext = "o" THEN << "given", file.name >> ELSE << "directed_tests", file.name >>
      log == log_of_test(a, name, k)
  IN  (IF file.ext = "o" THEN << >> ELSE << [op |-> "compile_directed", elf |-> e, file |-> file] >>)
      \o Each(a.iss, LAMBDA iss :
           parse_iss_yaml(iss, << simulation(iss, e, log, << name, NoIndex, a.target >>) >>))
      \o IF Len(a.iss) = 2 THEN << comparison(e, log) >> ELSE << >>

\* directed tests on the command line; --c_tests hides the others, --elf_tests
\* hides --asm_tests
arg_tests(a) == CASE a.c_tests # << >>   -> a.c_tests
                  [] a.c_tests = << >> /\ a.elf_tests # << >> -> a.elf_tests
                  [] OTHER -> a.asm_tests

one_test(a, k, file, name) ==
  IF file.exists /\ file.ext \in {"c", "S", "o"} THEN run_test(a, k, file, name) ELSE Crash

batches(a, e) ==
  IF a.batch_size = 0 THEN 1 ELSE (e.iterations + a.batch_size - 1) \div a.batch_size

batch(a, e, i) ==
  [op |-> "generate", test |-> e.test, batch |-> i, test_iter |-> i * batches(a, e),
   first |-> i * a.batch_size,
   size |-> IF i < batches(a, e) - 1 THEN a.batch_size ELSE e.iterations - i * a.batch_size]

\* do_simulate for one test
generate(a, e) ==
  CASE e.test = "riscv_csr_test" -> << [op |-> "csr_test", iterations |-> e.iterations] >>
    [] e.test # "riscv_csr_test" /\ has(e, "gen_test") -> [i \in 1 .. batches(a, e) |-> batch(a, e, i - 1)]
    [] OTHER -> Crash          \* KeyError: 'gen_test'

\* the command of the RTL simulator, from its YAML file
get_generator_cmd(a) == IF a.simulator \in KnownTools THEN << >> ELSE Crash

gen(a, list) ==
  IF (a.co /\ a.so) \/ (~a.co /\ list = << >>) THEN << >>
  ELSE get_generator_cmd(a)
       \o (IF a.so \/ (Len(list) = 1 /\ list[1].test = "riscv_csr_test") THEN << >>
           ELSE << [op |-> "run_cmd"] >>)
       \o IF a.co THEN << >>
          ELSE Each(list, LAMBDA e : generate(a, e)) \o << [op |-> "save_seeds"] >>

\* the programs of a generator test
per_program(e, F(_)) == [i \in 1 .. e.iterations |-> F(i - 1)]

asm_elf(e, i) == << "asm_tests", e.test, i >>

gcc_compile(list) ==
  Each(list, LAMBDA e :
    IF has(e, "no_gcc") THEN << >>
    ELSE per_program(e, LAMBDA i : [op |-> "gcc", elf |-> asm_elf(e, i), program |-> << e.test, i >>]))

log_of_program(a, e, i) == << e.test, i, a.target >>

iss_sim(a, list) ==
  Each(a.iss, LAMBDA iss : parse_iss_yaml(iss, Each(list, LAMBDA e :
    IF has(e, "no_iss") THEN << >>
    ELSE per_program(e, LAMBDA i :
           simulation(iss, asm_elf(e, i), log_of_program(a, e, i), << e.test, i, a.target >>)))))

iss_cmp(a, list) ==
  IF Len(a.iss) # 2 THEN << >>
  ELSE Each(list, LAMBDA e : per_program(e, LAMBDA i : comparison(asm_elf(e, i), log_of_program(a, e, i))))
       \o << [op |-> "summarize"] >>

When(c, s) == IF c THEN s ELSE << >>

\* One iteration of main().  Directed tests in C are collected and copied, but
\* only the list of directed assembly tests is run.
Commands(a, k) ==
  LET given     == arg_tests(a)
      found     == IF given # << >> \/ a.co THEN << >> ELSE Found(a)
      able      == Those(found, NeedsMet)
      directed  == Those(able, asm_directed)
      matched   == Those(able, LAMBDA e : ~asm_directed(e) /\ ~c_directed(e))
      run_given == Each(given, LAMBDA f : one_test(a, k, f, f.name))
      copy      == [i \in DOMAIN Those(able, c_directed) |-> [op |-> "run_cmd"]]
  IN  IF \E i \in DOMAIN found : NeedsError(a, found[i]) THEN Crash
      ELSE IF \/ \E i \in DOMAIN able : ExclusiveError(able[i])
              \/ given = << >> /\ ~a.co /\ able = << >> THEN Crash
      ELSE run_given \o copy
           \o When("gen" \in a.steps, Each(directed, LAMBDA e : one_test(a, k, e.file, e.test))
                                      \o gen(a, matched))
           \o When(~a.co, When("gcc_compile" \in a.steps, gcc_compile(matched))
                          \o When("iss_sim" \in a.steps, iss_sim(a, matched))
                          \o When("iss_cmp" \in a.steps, iss_cmp(a, matched)))

-----------------------------------------------------------------------------
NoFile == [x \in {} |-> x]

single(name, content) == [n \in {name} |-> content]

\* a directory after new files were written over the old ones
put(new, old) ==
  [n \in DOMAIN new \union DOMAIN old |-> IF n \in DOMAIN new THEN new[n] ELSE old[n]]

NoArgs == [seed_yaml |-> FALSE]

RegressionInit ==
  /\ args = NoArgs /\ status = "idle" /\ iteration = 0 /\ todo = << >> /\ sim_seed = NoFile /\ count = 0
  /\ package = Base /\ asm = NoFile /\ elf = NoFile /\ logs = NoFile /\ reports = NoFile
  /\ seeds = NoFile /\ regr = [passed |-> 0, failed |-> 0, summary |-> << 0, 0 >>]
  /\ ran = {} /\ recorded = [now |-> {}, programs |-> NoFile, batch_size |-> 0]

\* main() up to the first iteration: the options, the configuration, the versions
\* of the tools, the output directory
Invoke ==
  /\ status # "running" /\ count < MaxInvocations
  /\ count' = count + 1 /\ iteration' = 0 /\ todo' = << >> /\ sim_seed' = NoFile /\ ran' = {}
  /\ \E a \in Invocations, tools_fit \in check_tools_version :
       /\ args' = loaded(a)
       /\ IF usage_error(a) \/ ~known_target(a) \/ derived(a) = Error
          THEN tools_fit /\ status' = "failed" /\ UNCHANGED package
          ELSE status' = (IF tools_fit THEN "running" ELSE "failed") /\ package' = derived(a)
  /\ UNCHANGED << asm, elf, logs, reports, seeds, regr, recorded >>

StartIteration ==
  /\ status = "running" /\ todo = << >> /\ iteration < repeats(args)
  /\ todo' = Commands(args, iteration)
  /\ iteration' = iteration + 1
  /\ sim_seed' = NoFile /\ recorded' = [recorded EXCEPT !.now = {}]
  /\ UNCHANGED << args, status, count, outdir, ran >>

Finish ==
  /\ status = "running" /\ todo = << >> /\ iteration = repeats(args)
  /\ status' = "ok"
  /\ UNCHANGED << args, iteration, todo, sim_seed, count, outdir, ghosts >>

\* the command that is executed, and what becomes of the invocation
Do(op) == status = "running" /\ todo # << >> /\ Head(todo).op = op

Next1 == todo' = Tail(todo) /\ UNCHANGED status
Exit  == status' = "failed" /\ todo' = << >>

rest == << args, iteration, count, package >>

GiveUp ==
  /\ Do("crash") /\ Exit
  /\ UNCHANGED << rest, sim_seed, asm, elf, logs, reports, seeds, regr, ghosts >>

CompileDirected ==
  /\ Do("compile_directed")
  /\ \/ Next1 /\ elf' = put(single(Head(todo).elf, << "source", Head(todo).file.name >>), elf)
     \/ Exit /\ UNCHANGED elf
  /\ UNCHANGED << rest, sim_seed, asm, logs, reports, seeds, regr, ghosts >>

NoProgram == << >>

program(e) ==
  CASE e[1] = "given" -> << "source", e[2] >>
    [] e[1] # "given" /\ e \in DOMAIN elf -> elf[e]
    [] OTHER -> NoProgram

UNKNOWN  == "UNKNOWN"
SUCCESS  == "SUCCESS"
MISMATCH == "MISMATCH"

\* the file of a report is replaced
report_written(c, result) == put(single(<< c.iss, c.yaml >>, result), reports)

\* Mutant: the report of the last simulation is left until there is a new one.
initial_report_None(c) == reports

\* generate_yaml_report before the simulation
initial_report(c) == report_written(c, UNKNOWN)

\* An ISS on one program, with its tandem report around it.  It fails, runs into
\* the timeout or is interrupted with a log that ends anywhere, or it writes the
\* log of a whole execution; only then it writes its report.
Simulate ==
  /\ Do("simulate")
  /\ LET c    == Head(todo)
         p    == program(c.elf)
         id   == << c.iss, c.log >>
         pair == Tandem /\ c.iss # "spike"
     IN  \/ /\ p # NoProgram
            /\ \E x \in IF c.iss = "spike" THEN {Meaning(p)} ELSE Outcomes(Meaning(p)) :
                 /\ logs' = put(single(id, [program |-> p, exec |-> x, whole |-> TRUE]), logs)
                 /\ reports' = IF ~pair THEN reports
                               ELSE report_written(c, IF Visible(x) = Visible(Meaning(p)) THEN SUCCESS ELSE MISMATCH)
            /\ ran' = ran \union {[iss |-> c.iss, log |-> c.log, yaml |-> c.yaml, k |-> iteration, ok |-> TRUE]}
            /\ Next1
         \/ /\ logs' = put(single(id, [program |-> p, exec |-> << >>, whole |-> FALSE]), logs)
            /\ reports' = IF pair THEN initial_report(c) ELSE reports
            /\ ran' = ran \union {[iss |-> c.iss, log |-> c.log, yaml |-> c.yaml, k |-> iteration, ok |-> FALSE]}
            /\ Exit
  /\ UNCHANGED << rest, sim_seed, asm, elf, seeds, regr, recorded >>

\* compare_iss_log: a trace of each log, by the name of its simulator
supported(iss) == iss = "spike" \/ iss \in RtlTools

trace_csv(iss, log) ==
  IF iss = "spike" THEN process_spike_sim_log(spike_log(log.exec))
                   ELSE process_verilator_sim_log(rtl_log(log.exec))

Compare ==
  /\ Do("compare")
  /\ LET c    == Head(todo)
         id   == [j \in 1 .. 2 |-> << args.iss[j], c.log >>]
         csv  == [j \in 1 .. 2 |-> trace_csv(args.iss[j], logs[id[j]])]
     IN  IF \E j \in 1 .. 2 : id[j] \notin DOMAIN logs \/ ~supported(args.iss[j])
         THEN Exit /\ UNCHANGED regr
         ELSE /\ regr' = IF csv[1] = csv[2] THEN [regr EXCEPT !.passed = @ + 1]
                                            ELSE [regr EXCEPT !.failed = @ + 1]
              /\ Next1
  /\ UNCHANGED << rest, sim_seed, asm, elf, logs, reports, seeds, ghosts >>

\* save_regr_report counts every line of the file, also those of earlier
\* invocations, and does not change the exit status
Summarize ==
  /\ Do("summarize")
  /\ regr' = [regr EXCEPT !.summary = << regr.passed, regr.failed >>]
  /\ Next1
  /\ UNCHANGED << rest, sim_seed, asm, elf, logs, reports, seeds, ghosts >>

\* a command of which no other reads a file: a directed test in C is copied, or
\* the generator is built
RunCmd ==
  /\ Do("run_cmd")
  /\ Next1 \/ Exit
  /\ UNCHANGED << rest, sim_seed, asm, elf, logs, reports, seeds, regr, ghosts >>

\* run_csr_test: a script of its own, which takes no seed
CsrTest ==
  /\ Do("csr_test")
  /\ \/ /\ \E r \in RandomSeeds :
             asm' = put([k \in {<< "riscv_csr_test", i >> : i \in 0 .. Head(todo).iterations - 1} |->
                               << "csr", r, k[2] >>], asm)
        /\ Next1
     \/ Exit /\ UNCHANGED asm
  /\ UNCHANGED << rest, sim_seed, elf, logs, reports, seeds, regr, ghosts >>

\* Mutant: the options of the command line come before the recorded seeds.
SeedGen_get_RerunLast(a, test_id, test_iter) ==
  CASE a.start_seed # None -> {a.start_seed + test_iter}
    [] a.start_seed = None /\ a.seed_yaml /\ test_id \in DOMAIN seeds -> {seeds[test_id]}
    [] a.start_seed = None /\ a.seed # None -> {a.seed}
    [] OTHER -> RandomSeeds

\* Recorded seeds come first.  --start_seed counts in steps of the number of
\* batches: test_iter is i * batch_cnt.  With --seed there is one batch, number
\* 0, as the code asserts: parse_args makes it one iteration.
SeedGen_get(a, test_id, test_iter) ==
  CASE a.seed_yaml /\ test_id \in DOMAIN seeds -> {seeds[test_id]}
    [] ~(a.seed_yaml /\ test_id \in DOMAIN seeds) /\ a.seed # None -> {a.seed}
    [] ~(a.seed_yaml /\ test_id \in DOMAIN seeds) /\ a.seed = None /\ a.start_seed # None -> {a.start_seed + test_iter}
    [] OTHER -> RandomSeeds

\* One batch.  The programs are a function of the seed and their place in the
\* batch.  A generator that fails leaves no seed in seed.yaml.
GenerateBatch ==
  /\ Do("generate")
  /\ LET c    == Head(todo)
         id   == << c.test, c.batch >>
         new(s) == [p \in {<< c.test, i >> : i \in c.first .. c.first + c.size - 1} |->
                      << "generated", c.test, s, p[2] - c.first >>]
         drawn == SeedGen_get(args, id, c.test_iter)
     IN  \/ /\ \E s \in drawn : asm' = put(new(s), asm) /\ sim_seed' = put(single(id, s), sim_seed)
            /\ recorded' = [recorded EXCEPT !.now = @ \union DOMAIN new(0)]
            /\ Next1
         \/ /\ \E s \in drawn : asm' \in {asm, put(new(s), asm)}
            /\ Exit /\ UNCHANGED << sim_seed, recorded >>
  /\ UNCHANGED << rest, elf, logs, reports, seeds, regr, ran >>

\* seed.yaml is replaced, also when it names other tests; seedlist.yaml, which
\* nothing reads, is left out
SaveSeeds ==
  /\ Do("save_seeds")
  /\ seeds' = IF sim_seed = NoFile THEN seeds ELSE sim_seed
  /\ recorded' = IF sim_seed = NoFile THEN recorded
                 ELSE [now |-> {}, programs |-> [p \in recorded.now |-> asm[p]],
                       batch_size |-> args.batch_size]
  /\ Next1
  /\ UNCHANGED << rest, sim_seed, asm, elf, logs, reports, regr, ran >>

Gcc ==
  /\ Do("gcc")
  /\ LET c == Head(todo)
     IN  \/ /\ c.program \in DOMAIN asm
            /\ elf' = put(single(c.elf, asm[c.program]), elf)
            /\ Next1 \/ Exit                     \* elf2bin may fail
         \/ Exit /\ UNCHANGED elf
  /\ UNCHANGED << rest, sim_seed, asm, logs, reports, seeds, regr, ghosts >>

RegressionNext ==
  \/ Invoke \/ StartIteration \/ Finish \/ GiveUp
  \/ CompileDirected \/ Simulate \/ Compare \/ Summarize
  \/ RunCmd \/ CsrTest \/ GenerateBatch \/ SaveSeeds \/ Gcc

RegressionSpec == RegressionInit /\ [][RegressionNext]_vars

-----------------------------------------------------------------------------
(***************************************************************************)
(* Properties.                                                             *)
(***************************************************************************)
whole_run(a) == a.steps = Steps /\ ~a.co /\ ~a.so

\* the entries of the test list that the options select and the configuration
\* that was asked for can run
Runnable(a) ==
  Those(Found(a), LAMBDA e : \A n \in DOMAIN e.needs :
                     Requested(Base, a.changes, e.needs[n][1]) = e.needs[n][2])

\* the logs of a test, with the iterations they are written in
runs_of(a, e) ==
  CASE has(e, "asm_tests") -> {<< log_of_test(a, e.test, k), k + 1 >> : k \in 0 .. repeats(a) - 1}
    [] ~has(e, "asm_tests") /\ (has(e, "c_tests") \/ has(e, "no_iss")) -> {}
    [] OTHER -> {<< << e.test, i, a.target >>, k >> : i \in 0 .. e.iterations - 1, k \in 1 .. repeats(a)}

Expected(a) ==
  LET asked == Runnable(a)
  IN  UNION {runs_of(a, asked[i]) : i \in DOMAIN asked}

\* An invocation with all steps that ends without an error has run every test
\* that was selected and that the configuration can run, on every simulator and
\* in every iteration, and nothing else.  (openhw_process_regression_list, the
\* needs, derive_config, get_config and the loops of main; directed tests in C
\* never run, see README.)
SelectedTestsRun ==
  status = "ok" /\ whole_run(args) /\ arg_tests(args) = << >> =>
    {<< r.iss, r.log, r.k >> : r \in ran}
      = {<< args.iss[j], x[1], x[2] >> : j \in DOMAIN args.iss, x \in Expected(args)}

\* When all steps are run, a comparison is about two logs of the program that was
\* compiled last, and says [PASSED] exactly when both simulators show the same
\* execution.  (the names of logs in run_test, iss_sim and iss_cmp; the readers
\* of both logs.  A test with no_iss is compared although nothing simulates it.)
VerdictsAreTrue ==
  [][LET c == Head(todo)
         e(j) == logs[<< args.iss[j], c.log >>]
     IN  regr'.passed + regr'.failed > regr.passed + regr.failed /\ whole_run(args)
         /\ (\E r \in ran : r.log = c.log)
         => /\ \A j \in 1 .. 2 : e(j).whole /\ e(j).program = program(c.elf)
            /\ regr'.passed > regr.passed <=> Visible(e(1).exec) = Visible(e(2).exec)]_vars

\* After a simulation that did not come to its end, its tandem report does not
\* speak of an earlier one.  (generate_yaml_report before and after the
\* simulation.)
TandemReportsAreOwn ==
  \A r \in ran : Tandem /\ r.iss # "spike" /\ ~r.ok =>
    << r.iss, r.yaml >> \in DOMAIN reports /\ reports[<< r.iss, r.yaml >>] = UNKNOWN

\* "Rerun the generator with the seed specification from a prior regression":
\* with the batch size of the regression that wrote seed.yaml, every program is
\* generated as it was then, whatever other seed options are given and whatever
\* became of the programs in between.  (SeedGen.get, do_simulate and seed.yaml.)
ReplayReproduces ==
  [][args.seed_yaml /\ args.batch_size = recorded.batch_size /\ Do("generate") =>
        \A p \in DOMAIN recorded.programs :
          p \in recorded'.now \ recorded.now => asm'[p] = recorded.programs[p]]_vars

-----------------------------------------------------------------------------
(***************************************************************************)
(* What is proved of the runner is about test lists and command lines like *)
(* these.                                                                  *)
(***************************************************************************)
\* No list imports itself, directly or through others.
ImportsFall(rank) ==
  \A l \in DOMAIN TestLists : \A e \in Range(TestLists[l]) :
    e.import # "" => rank[e.import] < rank[l]

ImportsEnd == \E depth \in Nat : \E rank \in [DOMAIN TestLists -> 0 .. depth] : ImportsFall(rank)

\* Entries of a test list that have the same name ask for the same number of
\* programs: the batches of a test are told apart by its name and a number.
OneSizePerTest ==
  \A i \in Invocations : \A d, e \in Range(Found(loaded(i))) : d.test = e.test => d.iterations = e.iterations

\* what do_simulate can generate
Generable(e) == e.test = "riscv_csr_test" \/ has(e, "gen_test")

\* Entries that name directed tests have the fields that are read first, or are
\* none the generator takes.
DirectedEntries ==
  \A l \in DOMAIN TestLists : \A e \in Range(TestLists[l]) :
    has(e, "asm_tests") \/ has(e, "c_tests") => substituted(e) \/ ~Generable(e)

\* the base configuration and what the command lines change in it
PlainChanges ==
  /\ Package(Base) /\ ChainsEnd(params(Base))
  /\ \A i \in Invocations : Changes(i.changes) /\ Literals(Base, i.changes)
\* When everything is repeated, no test without simulation has the name of a
\* directed one: they would share their logs.
TestsApart(a) ==
  a.gen_sv_seed > 0 =>
    \A d, e \in Range(Found(a)) : asm_directed(d) /\ ~asm_directed(e) /\ has(e, "no_iss") => d.test # e.test

NamesApart == \A i \in Invocations : TestsApart(loaded(i))

\* What programs do on either simulator, its log can tell.
PlainExecution(p) == OnSpike(Meaning(p)) /\ \A x \in Outcomes(Meaning(p)) : OnRtl(x)

PlainExecutions == \A p : PlainExecution(p)
=============================================================================
