# TLA+ models of CVA6 (Ariane)

CVA6 is a RISC-V application core in SystemVerilog: six pipeline stages, single
or dual issue in order, a scoreboard with out-of-order write-back and in-order
commit, an MMU, and a choice of data caches.  Around it the repository holds
Python programs that keep state of their own: a cycle model of the core
(`perf-model/`), a tool that imports third-party sources (`util/vendor.py`), a
runner of regressions (`verif/sim/cva6.py`), and generators of configurations
and reference documents (`util/user_config.py`, `docs/scripts/`,
`config/gen_from_riscv_config/`).  This directory holds TLA+ models of the
parts of both kinds that are hard to test, the TLC runs that check them on
small instances, and TLAPS proofs for all instances.

Paths without a directory are in `src/core/`, cache files in
`src/core/cache_subsystem/`; Python programs are named from `src/`.  `PROJECT.json` maps every definition to the lines
it models.

1. [The system](#1-the-system)
2. [The modules](#2-the-modules)
3. [How the models relate to the code](#3-how-the-models-relate-to-the-code)
4. [The runs](#4-the-runs)
5. [Disagreements found](#5-disagreements-found)
6. [The proofs](#6-the-proofs)
7. [Only model-checked, and not modelled](#7-only-model-checked-and-not-modelled)
8. [The plan](#8-the-plan)
9. [Running it](#9-running-it)

## 1. The system

### Components

| Component | State | Operations | What makes it correct |
|---|---|---|---|
| **Store buffer** `store_buffer.sv` | speculative and commit queue: slots with valid bits, two pointers and a count each | push, commit (speculative to committed), flush, send the oldest committed store, check the page offset of a load | one queue in program order; nothing lost, duplicated or resurrected; the address check sees exactly what is queued |
| **Store unit, AMO buffer** `store_unit.sv`, `amo_buffer.sv` | state machine, request under translation; one AMO | accept, translate, write back, pop | each request once; an AMO runs alone and survives the flush of its own commit |
| **Load unit** `load_unit.sv` | state machine of ten states, load buffer with flushed bits | request before translation, send the tag or kill, match answers to requests | answers reach the load that asked; killed and flushed loads stay silent; no load overtakes an earlier store to its page offset |
| **LSU bypass** `lsu_bypass.sv` | two-entry FIFO, count that wraps | bypass, push, pop | no request lost although *ready* is seen a cycle late |
| **Load-store unit** `load_store_unit.sv` | the above, exception register, output register of loads | arbitration of the translation port, write-back | every instruction answered once; loads, stores, AMOs and fences in order |
| **Scoreboard** `scoreboard.sv` | ring of entries, issue pointer, two commit pointers | issue up to 2, write back, cancel, commit up to 2, flush | the ring is a window in program order; commit ports never offer one entry twice |
| **Issue, operand read** `issue_read_operands.sv`, `raw_checker.sv` | ID/EX registers | hazards, forwarding, structural stalls | operands are those of program order |
| **Execute** `ex_stage.sv`, `mult.sv`, `multiplier.sv`, `serdiv.sv`, `csr_buffer.sv`, `branch_unit.sv` | multiplier register, divider occupancy, CSR buffer | execute, share one write-back port, resolve branches | results never collide; every result is awaited |
| **Commit, controller** `commit_stage.sv`, `controller.sv` | none (combinational), fence wait | retire, trap, flush | what retires is what sequential execution retires |
| **Write-through data cache** `wt_dcache*.sv` | arrays, port state machines, write buffer with byte states, transactions, MSHR | load, store, merge, send, refill, invalidate, flush, AMO | loads see the last store; no stale or duplicate copy; answers match requests |
| **MMU** `cva6_mmu/*.sv` | TLBs, page-table walker | look up, walk, flush | no translation from before a flush; a killed walk writes nothing |
| **Front end** `frontend/*.sv`, `instr_realign.sv` | queues, predictors, replay address | fetch, predict, realign, replay | the instruction stream has no gap and no duplicate |
| **Instruction cache** `cva6_icache.sv` | state machine, arrays | fetch, kill, flush, refill | killed fetches stay silent; refills go to the right line |
| **Write-back data cache** `std_nbdcache.sv`, `miss_handler.sv`, `cache_ctrl.sv` | arrays with dirty bits, MSHR, port state machines | load, store, evict, bypass, AMO, flush | dirty data never lost; ports see each other's misses |
| **Bus adapters** `wt_axi_adapter.sv`, `axi_adapter.sv`, `axi_shim.sv`, `wt_l15_adapter.sv` | FIFOs, burst counters | requests to bursts, ids | responses in the order the cache expects |
| **CSR file** `csr_regfile.sv` | control and status registers | read, write, trap, return, debug | privilege semantics |
| **Decoders** `decoder.sv`, `compressed_decoder.sv`, `macro_decoder.sv`, `zcmt_decoder.sv` | macro sequencer | decode, expand | encodings |
| **Datapath** `alu.sv`, `fpu_wrap.sv`, `aes.sv` | none of interest | compute | arithmetic |
| **PMP, triggers** `pmp/`, `trigger_module.sv` | none (CSR inputs) | match addresses | matching rules |
| **CVXIF, accelerator port** `cvxif_*.sv`, `acc_dispatcher.sv` | handshake state | off-load an instruction | transaction protocol |
| **Performance model** `src/perf-model/model.py`, `isa.py` | instruction queue length, return stack, branch history, busy units, scoreboard | replay a trace cycle by cycle | structural limits respected, predictors sound, run loop ends |
| **Import tool** `util/vendor.py` | description, lock file, target directory, patches, git index and commits | check, refresh patches, clone, copy, patch, write the lock, commit; each may fail or be the last | what a run leaves can be rebuilt from lock file and patches; a crash never blocks later runs |
| **Regression runner** `verif/sim/cva6.py` with two log readers | one output directory, kept over invocations: configuration package, programs, logs, tandem reports, seeds, counts | select tests, derive configuration, generate, compile, simulate, compare, save and replay seeds | every selected test runs; a verdict is about this run; a replay gives the same programs |
| **Configuration derivation** `util/user_config.py` | lines of a package | parse, follow localparams, change fields and parameters | the value asked for is the value derived |
| **Port documents** `docs/scripts/` | parameters, black list, port under construction, ties per reason | read parameters, black list, scan a source, print | each port once, tied exactly when the configuration ties it |
| **Register documents** `config/gen_from_riscv_config/scripts/` | specification, groups, described rows, last reset value | merge, filter, fold families, describe fields, print | each existing register in exactly one row, with its reset value |
| **Periphery, test benches, CI** `corev_apu/`, `verif/`, `.gitlab-ci/`, `vendor/` | | | not modelled |

### Interactions

```
 fetch -> decode -> [issue_q] -> issue/read operands -> [fu_q] -> execute units --.
                        ^               |  ^ forwarding                            | write-back
                        |               v  |                                       v
                      flush          scoreboard <----------------------------------'
                        |               | commit ports 0, 1
                        '-- controller -+ commit stage --> CSR file, store buffer, AMO buffer
                                                          |
 LSU: bypass FIFO -> load unit ---------------------------+-> data cache load port
                  -> store unit -> speculative | committed -> data cache store port
                                   AMO buffer -------------> data cache AMO port
 data cache: ports, write buffer -> miss unit -> memory (several requests, any order)
```

Everything is synchronous: in each clock cycle every unit sees the registers of
all others and combinational outputs that depend on one another.  The
concurrency is that of *events falling into one cycle* (push, commit, flush,
grant, answer) and of *events that meet several cycles later* (a flush and the
answer of a load that was under way).  The commit signals carry no identity: the
store buffer, the AMO buffer and the CSR buffer simply act on what they hold, so
they are right only if the instruction order of three separate units agrees.

### What is hard

- Flushes reach units that have requests outside the core; answers come later
  and must be dropped, although the slot may have been reused.
- Three queues (scoreboard, store buffer, data-cache write buffer) each have
  pointers, counts and valid bits updated in separate statements.
- *Ready* signals are seen a cycle late, or promise room that depends on a
  commit in the same cycle.
- One write-back port is shared without an arbiter; only the issue rules keep
  results apart.
- Each of issue, commit and resolution can touch two instructions in a cycle.
- Load and store units, buffers, fences and AMOs all wait for one another.
- The data cache keeps three copies of a byte (write buffer, way, memory), with
  transactions, refills and invalidations under way between them.

- The tools keep files from one run to the next and can be stopped anywhere: a
  lock without its sources, a report of an earlier simulation, seeds of other
  tests, an untracked patch.
- The document generators read line by line and carry what they saw last to
  lines it is not about.

The list in `PROJECT.json` under `hazards` names the lines and, for each, the
properties that would notice.

## 2. The modules

| Module | Models | Extends |
|---|---|---|
| `PageOffset` | the addresses the LSU compares (bits 11:3) | |
| `StoreQueue` | **abstract**: one queue of stores cut in a speculative and a committed part | |
| `StoreBuffer` | `store_buffer.sv`; refines `StoreQueue` | `PageOffset` |
| `LsuBypass` | `lsu_bypass.sv` | `PageOffset` |
| `StoreUnit`, `LoadUnit` | `store_unit.sv` with `amo_buffer.sv`, `load_unit.sv` | |
| `LoadStoreUnit` | `load_store_unit.sv`: composition of the four above with scoreboard window, commit, controller flush and cache port | all four |
| `LoadStoreUnitProofs` | proofs of the store buffer for every depth and set of words, and of the unit for every size of its queues and every program without store faults | `LoadStoreUnit` |
| `InstructionWindow` | **abstract**: the instructions in flight as a queue in program order | |
| `Scoreboard` | `scoreboard.sv`; refines `InstructionWindow` | |
| `IssueReadOperands` | `issue_read_operands.sv`, `raw_checker.sv` | `Scoreboard` |
| `CommitStage` | `commit_stage.sv`, flushes of `controller.sv` | `IssueReadOperands` |
| `BackEnd` | decode register to commit, execute units inside, LSU seen from outside | `CommitStage` |
| `BackEndProofs` | proofs of the scoreboard for every number of slots and for one or two ports, and of the back end for every size and program | `BackEnd` |
| `WtDcachePkg` | words, lines, bytes of the write-through cache | |
| `WtDcacheMem` | arrays, tag lookup, bank and line-write conflicts | `WtDcachePkg` |
| `WtDcacheWbuffer` | `wt_dcache_wbuffer.sv` | `WtDcacheMem` |
| `WtDcacheMissunit` | `wt_dcache_missunit.sv` | `WtDcacheWbuffer` |
| `WtDcacheCtrl` | `wt_dcache_ctrl.sv` | `WtDcacheMissunit` |
| `WtDcache` | composition, memory, and what drives the cache | `WtDcacheCtrl` |
| `WtDcacheProofs` | proofs for every number of ways, ports, entries and transactions | `WtDcache` |
| `PerfModel` | `perf-model/model.py`, classification of `isa.py` | |
| `PerfModelProofs` | proofs for every program and size of the core | `PerfModel` |
| `Vendor` | `util/vendor.py` with git and the upstream repositories | |
| `VendorProofs` | proofs for every description, command line and number of failures | `Vendor` |
| `Lists` | loops over lists: collect, filter, fold | |
| `UserConfig` | `util/user_config.py` | `Lists` |
| `UserConfigProofs` | lemmas about lists; proofs for every package and sequence of changes | `UserConfig` |
| `TraceCsv` | readers of the logs of Spike and of the RTL tracer | `Lists` |
| `Regression` | `verif/sim/cva6.py` | `UserConfig`, `TraceCsv` |
| `RegressionProofs` | proofs for every campaign, test list and set of tools | `Regression`, `UserConfigProofs` |
| `PortDocument` | `spec_builder.py`, `parameters_extractor.py`, `define_blacklist.py` | `UserConfig` |
| `CsrDocument` | `csr_updater.py`, `csr_factorizer.py`, `CsrParser` and `RstAddressBlock` of `utils.py` | |
| `Documents` | both generators as processes that write documents | `PortDocument`, `CsrDocument` |
| `DocumentsProofs` | proofs of the port documents for every package, source file and order of targets | `Documents`, `UserConfigProofs` |
| `MC...` | instances for TLC | |

In modules that model hardware a step is one clock cycle.  Variables are the
registers (`x_q` of the code without the suffix, or with it where the bare name
is taken) and each has one next-state operator; combinational signals are
operators of the registers and of the inputs of the cycle.  Inputs from parts that are not
in the module (a grant, an answer, a TLB miss, the next instruction) are chosen
freely in each step, restricted only by what the part guarantees.

In the modules of the tools a step is one change of the file system or one
command the tool executes, since that is where it may fail or be stopped; in
`Documents` it is one line or register.

Operators whose name has a suffix after an underscore and whose comment starts
with `Mutant:` (for example `MovedEntry_NextSlot`) are not part of a model: each
is a plausible slip in one definition, and replacing the definition by it makes
TLC find the listed property violated.  They document what a property
is sensitive to.

## 3. How the models relate to the code

**Load-store unit.**  `LsuCycle` computes one cycle of all units.  An address is
its page offset plus a kind (`load_ni` lies in a non-idempotent region); a fault
is a bit that the issue of an instruction chooses, and it comes out of the
translation.  With `mmu` set, the DTLB may miss, the walk takes any number of
cycles, and may itself end in an error.  The scoreboard is reduced to
the progress of each slot (*pending*, *done*, *ex*), the commit stage to the
conditions that concern memory instructions.  The cache port is that of
`wt_dcache_ctrl`: one load at a time, granted and answered in any cycle; a kill
is answered at once, and a killed miss is still waited for.  Alignment, byte enables, hypervisor inputs and physical addresses
(`dtlb_ppn`) are left out.

**Back end.**  `BackCycle` is one cycle from the decode register to commit.
Data is reduced to whether it is *right*: an instruction carries two ghost bits,
`wrong` (it was fetched behind a mispredicted branch) and `good` (the operand it
took was the value of program order).  An operand is right if it comes
from the youngest older writer that will retire, and carries that writer's final
value.  Registers are x0 and x1 and an instruction reads one of them: the checks of
`rs1`, `rs2` and `rs3` are copies.  A *trap* is any instruction that comes with
an exception or an interrupt from decode; *fence* and *sfence* stand for all
instructions that flush.  `SpeculativeSb` is taken to be on for dual issue, as
the configurations set it.  The functional unit of an empty second port
holds a stale value, which only decides which of two ALUs is taken.  Outside:
WFI, debug and trigger breaks, CVXIF, FPU, AES, Zcmp macros.

**Write-through data cache.**  The cache is one set of ways, so
that the index of a line write always matches and FLUSH lasts one cycle.
A `Cell` is one byte of one word.  Data is reduced to whether a
copy of a cell is *current*, that is, equal to what the core stored last: `main`
is the set of current cells of memory, each way has such a set, and bytes in the
write buffer are current by definition.  A store makes every other
copy of its bytes not current at the moment it is merged.  Memory takes requests
in `Cycle` and performs them in separate steps (`PerformLoad`, `PerformStore`,
`PerformAmo`) in any order; an answer may arrive any number of cycles later.
A victim is any way (the code takes the first invalid one, then a pseudo-random
one: over-approximated), the round-robin arbiters make any
choice but keep it while they are locked, transaction ids are interchangeable and the lowest free one
is taken.  An AMO meets no store of the same core, which is what
`AmoRunsAlone` of the load-store unit guarantees, and it invalidates the line as
`wt_axi_adapter` does.  LR/SC back-off only delays the acknowledgement, which
is free anyway.

**Performance model.**  A step is one call that `run_cycle` makes.  The trace is
an execution of a small program and is chosen lazily, one instruction when the
one before issues, since the code never looks further ahead.  The only
time the control depends on is the age of the last issue, capped at 6, the
constant it is compared with.  Two history variables state what the
code claims: `fetched` is the queue of fetch blocks that the byte counter stands
for, `calls` the calls that have not returned.  Reading and decoding traces
and the event reports are left out.

**Import tool.**  `main` holds the local variables of `main()` and the statement
that is next; `Steps` are its statements that touch files or git.  A step that
fails, or the machine that stops, ends the run with the files as they are
(`Fail`; `RmtreeFails` removes a part of a directory; a lock file cut off
between `open` and `dump` is `Torn`).  The *content* of a copied item is the
upstream revision it came from and the set of patches applied to it.  The
directories of up to two items of the mapping are the target; paths are
sequences of components, and one of the instances
nests one item in another.  git is external: an index and a last commit, each
with a target, patches and a lock.  The maintainer starts the tool, restores
tracked files (`Restore`), deletes a lock that cannot be read (`DeleteLock`);
upstream moves on.  Excluded files, authors' names and the text of commit
messages are left out, but for which upstream changes the shortlog lists.

**Regression runner.**  None of the loops of `main` depends on a result, so that
an iteration is the sequence of the commands it will execute, `todo`, and a step
executes one.  `sys.exit`, an uncaught exception and a command that fails all
end the invocation (`Exit`); the next starts on the same directory, because
`noclean` is TRUE whatever the command line says.  Logs are named by simulator, test
and index, exactly as the code composes the names, so that one may overwrite
another.  An execution is a sequence of entries (address,
operation, effects); simulators write it as lines of their log, and `TraceCsv`
gives the trace the readers make of them, with trampoline, debug ROM and
traps.  `Requested` states what a change on the command line should do without
following dictionaries.  A comparison ends the invocation for a simulator whose logs
have no reader (`supported`: the `xrun-*` simulators).  Left out: `--debug`, `--lsf_cmd`, `--custom_target`,
`seedlist.yaml`, how tools are called, the simulators that have branches of their own in the code but
are not in `cva6.yaml` (ovpsim, sail, whisper), and the generator's simulator ius, whose
exit status is ignored (`RegressionAssumption`).

**Port documents.**  A source file is a sequence of lines of a few kinds.  The
model reads it as the code does (`source_line`): comment and connexion are
kept until a port takes them.  `SpecBuilder` does not get as far as the source when
the configuration cannot be derived, a parameter has no value, or
`define_blacklist` looks up one that is not there: the code ends
in an exception and writes no document of ports.  (The documents of the parameters, which are
left out, are written before `define_blacklist` runs.)  The property states each row from the lines
themselves.

**Register documents.**  A register has a prefix, a number and a suffix instead
of a name that is taken apart with regular expressions; legal values have the
forms the code distinguishes.  `factorizer` is translated with the order of its tests,
since it is the order that goes wrong.  The property looks at each
register that should exist and counts the rows for it.
The Markdown and AsciiDoc writers, which print the same rows, and the ISA and
Spike generators are left out.

## 4. The runs

| Run | Specification | Distinct states | Question |
|---|---|---|---|
| `lsu` | `LsuSpec` | 435,857 | ordering, matching and contract of the whole LSU; store buffer consistent, its address check exact, implements `StoreQueue` |
| `lsu_progress` | `LsuFairSpec` | 7,595 | every memory instruction leaves the window |
| `single_step_store` | `LsuSpec`, `SingleStep` | violation | assertion of the store buffer, see section 5 |
| `faulting_store_pops_twice` | `LsuSpec` | violation | transaction ids, see section 5 |
| `back_end` | `BackSpec` | 338,334 | exact commits with single and dual issue; ring and ports of the scoreboard |
| `back_progress` | `BackFairSpec` | 11,868 | every instruction retires, decode is not blocked; the scoreboard implements `InstructionWindow` |
| `sfence_forwarding` | `BackSpec` | violation | forwarding from CSR instructions, see section 5 |
| `wt_dcache` | `DcSpec` | 128,544 | coherence of the copies, bookkeeping of requests |
| `perf_model` | `PerfSpec` | 149,287 | structural limits, predictors, termination |
| `vendor` | `VendorFairSpec` | 770,451 | reproducible imports under failures and crashes, recovery |
| `regression` | `RegressionSpec` | 299,448 | what two invocations on one directory run, report and replay |
| `docs` | `DocumentsSpec` | 3,330 | documents against sources, for every order of targets |

### Properties

*Store buffer.*  `RingsConsistent`: pointers, count and valid bits of both rings
agree whatever coincides in a cycle.  `PageOffsetExact`: the address checker
matches exactly the queued stores.  `ImplementsStoreQueue`: refinement.

*Load-store unit.*  `BufferContract`: the store and commit units drive the store
buffer as its assertions require, which is the assumption (`InputContract`) of
the proofs about the store buffer alone.  `SpeculativeStoresAreDone`: the store that
`commit_lsu_o` moves is the one that retires (the speculative queue lists the
finished stores by age).  `EveryRequestOnce`: a
waiting instruction is in exactly one place of the unit; programs with
faulting stores are exempt because of finding 2.  `WriteBackIsOwn`,
`LoadsSeeOlderStores`, `NonIdempotentLoadsWait`, `AmoRunsAlone`, and the liveness
property `InstructionsLeave`.  `FencesOrderAccesses`: a load that completes has
not read the cache before a store that precedes a fence before it had left for
the cache.  The load unit knows nothing of fences, so such loads are granted in
many states; they must be lost with the flush of the fence.  Two history
variables say which they are: `early` holds the slots whose instruction was
granted too early, `fenced` counts stores that outlived a fence in the commit queue.
It breaks when a fence does not flush, and when it does not wait for the buffer.

*Back end.*  `WindowConsistent`, `CommitPortsApart`, `ImplementsWindow` of the
scoreboard.  `CommitsAreExact`: whatever retires is on the right path, computed
from the right operand, and a CSR instruction finds its own address in the
buffer; a branch miss drops exactly the wrong instructions.  `ResultsAreAwaited`:
exactly the instructions without a result are in execute, each once.
`FluPortFree`: the fixed-latency units never meet on their port.
`InstructionsRetire`: liveness.

*Data cache.*  `LoadsAreCurrent`: a load returns, byte for byte, what the core
stored last.  `CopiesCurrent`: a byte that has left the write buffer is current
in memory and in its line.  `NoDuplicateLines`, `TransactionsMatch`: the
assertions of the code, and more.  `MissesAreAwaited`: exactly one port waits
for a line that is on its way.  `AmoSeesStores`, `NonIdempotentStoresAlone`.

*Performance model.*  `OnePerPort`: no two results on a write-back port in a
cycle.  `HasExact`: the byte counter is as good as a queue of fetch blocks.
`ReturnsPredictedRight`, and `TraceRetires`: every run ends.

*Import tool.*  `SuccessIsReproducible`: a run that ends without an error leaves
every item as lock file and patches describe it, whatever earlier runs left.
`LockIsProven`: a lock file names only a revision that was imported and patched
to the end.  `CommitsReproducible`: a commit contains what it takes to rebuild
it, and its message lists the upstream changes since the last one; it excepts
untracked patches (section 5).  `ImportsRecover`: liveness.

*Regression runner.*  `SelectedTestsRun`: an invocation that ends well has run
the tests selected that the derived configuration can run, on every simulator, in every
iteration, and nothing else.  `VerdictsAreTrue`: a comparison is about the
program compiled last and passes exactly when both executions agree.
`TandemReportsAreOwn`: a simulation that did not end shows no earlier verdict.
`ReplayReproduces`: `--seed_yaml` gives the programs of the earlier regression.

*Documents.*  `PortsAreDocumented` and `CsrsAreDocumented`, in terms of the
sources and not of the state of a reader.

### Bounds, and why they are enough

- *LSU*: 3 scoreboard slots, store queues of depth 2 and 1, 2 load buffer entries.
  The speculative queue fills, empties and wraps; the proofs remove the bounds
  for programs whose stores do not fault.
  The FIFO holds 2, so three instructions fill it and have one in a unit; the
  load buffer fills; the commit queue of depth 1 makes commit
  wait.  All kinds at once are out of reach of a run of minutes, so a run is a choice of one of
  several *programs* (initial states), each a set of kinds that interact: stores,
  CBOs, AMOs and fences with faults; loads and stores to two page offsets;
  faulting loads under translation; non-idempotent loads behind slow
  instructions; loads, stores and fences, where loads and stores keep to page offsets of their
  own, so that the address check does not hold the loads back.  What is lost: interactions of three of these groups.
- *Back end*: 4 slots hold two packets, so that a ring with two instructions
  entering and two leaving wraps at every position; the proofs hold for all
  sizes and mixes of instructions.  Four programs with single issue and two commit ports, two with
  dual issue, in the manner of the LSU; the number of issue ports is part of the
  program.  `back_progress` has two slots, so that the ring is full most of the time.
- *Data cache*: two ways and two lines that compete, two words in a line, two
  bytes in a word (so a store can be partial), two load ports, two write buffer
  entries, two transactions: each resource can be full, and two requests of
  the same kind can be under way together.  Seven programs.  The proofs remove
  these bounds.
- *Performance model*: traces of up to 9 instructions, 1,924 programs: all
  sequences of four unit operations, all loops of three instructions of both
  sizes at all offsets in a fetch block, and calls two deep.  Branch history of
  2 entries and a stack of 2 make both alias and overflow.
- *Import tool*: two upstream repositories of two and one revisions, one patch,
  two failures, four descriptions, eight command lines.  Two failures make one
  interrupted run meet another.  Proved without these bounds, but for the two
  items of a mapping.
- *Regression runner*: every pair of 27 command lines (`MaxInvocations` is 2), which
  is what it takes for one to meet what another left; up to three programs
  from a generator with batches of two; two random seeds; six executions per
  program, with a debugger visit, a wrong value, a missing write and a
  difference behind the end of the comparison.
- *Documents*: six targets of one package, one of which cannot be derived, ten register files, in any
  order; families of two to five registers instead of 29 or 64.

Deadlock is checked in every run but three: `perf_model`, whose run loop ends,
`vendor`, where failures and revisions run out while a lock may be unreadable,
and `regression`, which ends after `MaxInvocations`.

### Fairness

`LsuFairSpec` and `BackFairSpec` assume weak fairness of `Answered`: a cycle in
which memory grants and answers whatever it is asked, a walk ends, and the
other units finish.  The clock never stops and the environment is not
allowed to refuse for ever; the fairness is on the *answers* only.
What instructions arrive, whether they fault, and what hits remains free.
`PerfSpec` assumes weak fairness of its next-state relation: `run()` is a loop
that nothing interrupts.  `VendorFairSpec` assumes that a run that was started goes on (weak fairness of
`Steps`), that a maintainer deletes a lock file that cannot be read (weak fairness of
`DeleteLock`; only a person can do that), and that the tool is started again
and again with nothing but `--update` (strong fairness of `Start`, because other
runs come between).  Failures are bounded, so they end.  The other runs check
safety and assume none.

## 5. Disagreements found

1. **Single-stepping a store** (`single_step_store`, `BufferContract`).  When a
   debugger steps the core, `csr_regfile.sv:2217` raises `set_debug_pc_o` in the
   cycle of the commit, the controller flushes the execute stage in that
   cycle, and `commit_lsu_o` is raised in the same one.  `store_buffer.sv:298-302`
   asserts that commit and flush never meet.  In `core_if` the read pointer
   advances while the write pointer is reset to the old read pointer: the next
   store goes one slot behind the one the next commit reads.
2. **A faulting store pops twice** (`faulting_store_pops_twice`,
   `WriteBackIsOwn`).  A store is popped from the bypass FIFO when it is accepted, and
   `store_unit.sv:240-246` pops again when it faults in its second cycle.
   A load that the load unit had taken loses its request and is answered under
   transaction id 0.
3. **SFENCE.VMA forwards from a CSR instruction** (`sfence_forwarding`,
   `CommitsAreExact`).  `cva6_issue_stage.adoc:142` says that forwarding from CSR
   instructions is not possible; `issue_read_operands.sv:552-567` exempts
   `SFENCE_VMA`, and the forwarded value is operand *a* of the CSR instruction,
   not the value read from the CSR.

The passing runs leave these cases out by name: `SingleStep = FALSE`, no loads
in the program whose stores fault (`StoresFault`), and no program with both CSR
instructions and SFENCE.VMA.

Observations without a run: the comment at `model.py:256-260` puts the
multiplier on the port of the FPU and the second ALU, but `FusBusy.cycle` keeps
the ALU free after a multiplication, as if they shared one (`OnePerPort` is stated for the
latter); the prediction of the last branch is evaluated anew in every cycle its
successor is stalled (`model.py:415`), so that one branch may be reported both
as missed and as hit; `isa.py` does not know the AMO and MISC-MEM opcodes.

*Import tool.*  An interrupted `--refresh-patches` leaves untracked patches, which
`git_is_clean_workdir` (`--untracked-files=no`) does not see, so that the next
`--commit` commits a tree patched with files it does not contain.
An override of `upstream.ref` has no effect (the code reads `upstream.rev`), and
overrides of `upstream.*` are ignored while there is a lock and no `--update`.
A lock file that was cut off stops every run until somebody deletes it.

*Regression runner.*  Directed tests in C of a test list are collected and copied and
never run, although the comment above says they are; a directed test without
`gcc_opts` is left in the list for the generator, which then fails
with a `KeyError`; a seed is offset by `i * batch_cnt`, where the help says it
counts up; that `--seed_yaml` excludes other seeds is not enforced; a comparison that
fails does not change the exit status; counts in the report accumulate over
invocations; tests with `no_iss` are compared although nothing simulated
them; a generator that fails loses the seeds of earlier batches; `needs`
with a target other than `hwconfig` end in an exception; so does the comparison of a simulator
without a reader, whose error message `"Unsupported ISS" % iss` has no place for the name; `find_root_def` does not end on
localparams that refer to each other; fields that share a localparam change together.

*Documents.*  `input debug_from_trigger_i` has no type (`id_stage.sv:107`,
`decoder.sv:105`), does not match the expression for ports and is in no
document; the PMP ports of `csr_regfile.sv:179` have the connexion
`ACC_DISPATCHER` and are reported as tied; some ties (RVF, PRIV, MMU)
are reported for every target; the comment of `cva6.sv:224` would become the
description of the next port that has none of its own.  A group with exactly one plain numbered
register, or one that a suffixed register opens, ends the register generator
with an exception; a missing reset value shows that of the register before;
fields of folded rows are numbered right only for rows that start at 0 or 2;
the pattern for `hpmcounter` also holds for `mhpmcounter`; of a list of
legal values only the last entry is kept; a second `exclude` replaces the
first.

## 6. The proofs

| Theorem | Says |
|---|---|
| `LoadStoreUnitProofs!RingsAlwaysConsistent` | `SBSpec => [](SBTypeOK /\ RingsConsistent)` |
| `LoadStoreUnitProofs!AddressCheckExact` | `SBSpec => []PageOffsetExact` |
| `LoadStoreUnitProofs!RingsImplementStoreQueue` | `SBSpec => ImplementsStoreQueue` |
| `LoadStoreUnitProofs!LsuInvariant` | `LsuSpec => []LsuInv` (*u*) |
| `LoadStoreUnitProofs!BufferContractKept` | `LsuSpec => []BufferContract` (*u*) |
| `LoadStoreUnitProofs!SpeculativeQueueExact` | `LsuSpec => []SpeculativeStoresAreDone` (*u*) |
| `LoadStoreUnitProofs!AmoAlwaysAlone` | `LsuSpec => []AmoRunsAlone` (*u*) |
| `LoadStoreUnitProofs!RequestsAlwaysOnce` | `LsuSpec => []EveryRequestOnce` (*u*) |
| `LoadStoreUnitProofs!WriteBacksAlwaysOwn` | `LsuSpec => []WriteBackIsOwn` (*u*) |
| `LoadStoreUnitProofs!LoadsAlwaysSeeOlderStores` | `LsuSpec => []LoadsSeeOlderStores` (*u*) |
| `LoadStoreUnitProofs!NonIdempotentLoadsAlwaysWait` | `LsuSpec => []NonIdempotentLoadsWait` (*u*) |
| `LoadStoreUnitProofs!FencesAlwaysOrderAccesses` | `LsuSpec => []FencesOrderAccesses` (*u*) |
| `LoadStoreUnitProofs!LsuStoreQueue` | `LsuSpec => []RingsConsistent /\ []PageOffsetExact /\ ImplementsStoreQueue` (*u*) |
| `BackEndProofs!WindowAlwaysConsistent` | `ScoreboardSpec => [](ScoreboardTypeOK /\ WindowConsistent)` |
| `BackEndProofs!CommitPortsAlwaysApart` | `ScoreboardSpec => []CommitPortsApart` |
| `BackEndProofs!RingImplementsWindow` | `ScoreboardSpec => ImplementsWindow` |
| `BackEndProofs!BackInvariant` | `BackSpec => []BkInv` |
| `BackEndProofs!PipelineWindowConsistent` | `BackSpec => []WindowConsistent` |
| `BackEndProofs!PipelineCommitPortsApart` | `BackSpec => []CommitPortsApart` |
| `BackEndProofs!PipelineImplementsWindow` | `BackSpec => ImplementsWindow` |
| `BackEndProofs!FluPortAlwaysFree` | `BackSpec => []FluPortFree` |
| `BackEndProofs!ResultsAlwaysAwaited` | `BackSpec => []ResultsAreAwaited` |
| `BackEndProofs!CommitsAlwaysExact` | `BackSpec => []CommitsAreExact` (*s*) |
| `WtDcacheProofs!DcInvariant` | `DcSpec => []DcInv` |
| `WtDcacheProofs!TransactionsAlwaysMatch` | `DcSpec => []TransactionsMatch` |
| `WtDcacheProofs!MissesAlwaysAwaited` | `DcSpec => []MissesAreAwaited` |
| `WtDcacheProofs!NeverDuplicateLines` | `DcSpec => []NoDuplicateLines` |
| `WtDcacheProofs!CopiesAlwaysCurrent` | `DcSpec => []CopiesCurrent` |
| `WtDcacheProofs!LoadsAlwaysCurrent` | `DcSpec => []LoadsAreCurrent` |
| `WtDcacheProofs!AmoAlwaysSeesStores` | `DcSpec => []AmoSeesStores` |
| `WtDcacheProofs!NonIdempotentStoresAlwaysAlone` | `DcSpec => NonIdempotentStoresAlone` |
| `PerfModelProofs!OnePerPortAlways` | `PerfSpec => []OnePerPort` |
| `PerfModelProofs!ReturnsAlwaysPredictedRight` | `PerfSpec => []ReturnsPredictedRight` |
| `PerfModelProofs!HasAlwaysExact` | `PerfSpec => []HasExact` |
| `VendorProofs!LockProven` | `VendorSpec => []LockIsProven` |
| `VendorProofs!SuccessReproducible` | `VendorSpec => []SuccessIsReproducible` |
| `VendorProofs!CommitsAreReproducible` | `VendorSpec => CommitsReproducible` |
| `RegressionProofs!TandemReportsOwn` | `RegressionSpec => []TandemReportsAreOwn` |
| `RegressionProofs!ReplayAlwaysReproduces` | `RegressionSpec => ReplayReproduces` (*i*, *o*) |
| `RegressionProofs!SelectedTestsAreRun` | `RegressionSpec => []SelectedTestsRun` (*i*, *d*, *c*) |
| `RegressionProofs!LogsTellExecutions` | what a reader makes of a log is the visible part of the execution (*p*) |
| `RegressionProofs!VerdictsAlwaysTrue` | `RegressionSpec => VerdictsAreTrue` (*i*, *a*, *p*) |
| `UserConfigProofs!DerivedIsRequested` | every field read from a derived package has the value `Requested` (*c*) |
| `DocumentsProofs!PortsAlwaysDocumented` | `DocumentsSpec => []PortsAreDocumented` (*c*, *n*) |

Two hypotheses about instructions stand in the theorems themselves, because the code breaks the
property without them, as a run shows:

- (*u*) `Undisturbed`: no store of a program faults, and the debugger does not
  single-step.  A store that faults in its second cycle pops the FIFO twice
  (`faulting_store_pops_twice`), and a single step flushes in the cycle in which
  a store commits (`single_step_store`).  Loads may fault and may miss the DTLB.
- (*s*) `NoSfenceBehindCsr`: no program has both CSR instructions and SFENCE.VMA,
  whose operand is forwarded from a CSR instruction before it is known
  (`sfence_forwarding`).  The programs of `back_end` satisfy it.

The theorems about the tools have hypotheses about their input files, each of
which the files of the repository meet.  They are defined at the end of
`UserConfig`, `TraceCsv`, `Regression` and `Documents`, and TLC evaluates them on the
instances of the runs (`MCHypotheses`; (*p*) for a program of each kind):

- (*i*) `ImportsEnd`: no test list imports itself, directly or through others.
  The code would call itself for ever.
- (*o*) `OneSizePerTest`: entries of one test name ask for the same
  number of programs.  Of two that do not, only the seeds of the second are kept, and
  the first cannot be replayed.
- (*d*) `DirectedEntries`: an entry with directed tests has the fields that are read
  first, or is none the generator takes.  One without `gcc_opts` stays in the list for
  the generator (section 5).
- (*c*) `Package`, `ChainsEnd`, `Changes`, `Literals` (for campaigns `PlainChanges`, for
  documents `PlainTargets`): the lines have their parts, no localparam refers to
  itself, on which `find_root_def` would not end, changes have one of the
  three prefixes, and what they put in a place is not the name of a localparam, which
  `find_root_def` would follow with the dictionaries of the old package.
- (*a*) `NamesApart`: when everything is repeated (`--gen_sv_seed`), no test with `no_iss`
  has the name of a directed one.  Iteration *k* of the directed test writes the log
  that the comparison of program *k* of the other reads.
- (*p*) `OnSpike`, `OnRtl` (for all programs `PlainExecutions`): an instruction traps
  at most once and after what it commits; an ecall and the `dret` of the debug ROM
  commit nothing; Spike does not come back to the boot code and has no debugger, the
  RTL begins a program at `0x80000000`, where its reader begins.
- (*n*) `SourceFiles`: a module has no two ports of one name, which SystemVerilog
  forbids.

What is assumed of the constants: `WordAssumption` (there is an address),
`DepthAssumption` (both depths are positive; the code wraps by the width of the
pointer and so needs powers of two, which is a special case), `LdBufAssumption`
and `LsuAssumption` (positive sizes; the mark of an empty AMO buffer is no
transaction id), `ScoreboardAssumption` (more than one
slot, one or two issue and commit ports), `BackEndAssumption` (what instructions
carry; dual issue only with two ports), `DcacheAssumption`, `ReadPortAssumption`
and `WbufferAssumption` (positive sizes, ways are numbers, the mark for nothing
is none of them), `WorkloadAssumption` (types; a store
writes at least one byte), `PerfAssumption` and `ReplayAssumption` (positive
sizes, a fetch size up to 16 bytes; instructions have 2 or 4 bytes and even
addresses), `VendorAssumption` and
`DescAssumption` (types of the constants, mappings of one or two items; patches
are numbers, since they are applied in the order of their names) and
`RegressionAssumption` (types of the constants: command lines as argparse accepts
them, entries of test lists with the fields that are always read, imports
that exist; programs, executions and tools are arbitrary).  TLC evaluates all of them.  `SBSpec` assumes the assertions of
`store_buffer.sv` of its environment, `ScoreboardSpec` assumes `PortContract`;
`LsuDrivesStoreBuffer` (`LsuSpec => SBSpec`) and the `Pipeline...` theorems say
that the modelled environments keep to them.

**Store buffer** (first part of `LoadStoreUnitProofs`).  `SBInv == SBTypeOK /\ RingsConsistent`.  Types alone are not
inductive: that a count stays below the depth follows from the assertions, that
the slot at the write pointer is free follows only from the agreement
of pointers, count and valid bits.  `CoreIfInv` and `StoreIfInv`
prove preservation for the two always-blocks, which meet
in the cycle of a commit; `SBNextInv` puts them together.  The address
check follows from `WindowIsContents`: the slots with a valid bit are exactly
those of the queue's contents.  The refinement rests on `RingStep`: a ring
whose pointers move by *pop* and *push*, and whose slots in the remaining window
keep their contents, changes its contents as a sequence does.  `CoreIfRefines` and
`StoreIfRefines` instantiate it for the two queues.

**Scoreboard** (first part of `BackEndProofs`).  `SbInv == ScoreboardTypeOK /\ WindowConsistent /\
CommitPortsApart`.  The third is needed: without it both ports could retire one
entry and the pointer would run past the oldest instruction.
`RoomForArrivals` shows that `issue_full` leaves room for what enters,
`RetiredAreOldest` that what the ports acknowledge is a prefix of the window,
`CancelledIsIssued` that a branch cancels only what is in flight or enters in this
cycle.  `EntryStep` and `PointerStep` give the next entry of a slot and the next
pointers, `WindowStep` and `FlushStep` combine them, and `WindowQueueStep` shows
that the window then changes as the abstract queue does.

**Load-store unit.**  None of its properties is inductive, since each relies on
every other unit doing its part.  `LsuInv` describes the unit from the scoreboard:
`QueueOK`: what is queued, in the FIFO or at its input, are requests of
instructions that wait, oldest first; `UnitsOK`: what a unit has taken
is older than all that, and in one unit; `Complete`: nothing else waits;
`WaitsOK`: a unit that waits has left its request at the head; `LdPortOK`: the
cache serves the load of the last load buffer entry; `StoreOK`: a store in its second cycle has room;
`DoneOK`: stores finish in order and the AMO buffer holds the AMO that is done;
`SpeculativeStoresAreDone`; `ClearOK`: the address check of a load, once passed, stays true until
the cache has answered, which holds because every store that could come
is younger; `NonIdempotentLoadsWait`; and `SBInv` of the store buffer.
`CycleParts` cuts the cycle into one part per unit.  For a cycle
without a flush there is one lemma on how each part of the state moves
(`BoardMoves`, `FifoMoves`, `LoadsMove`, `UnitsMove`, `BufferMoves` and so on) and one on each conjunct
(`QueueStays`, `UnitsStay`, `NothingLost`, `ListsMove`, `ClearStays`...).  A
cycle that flushes ends, like reset, in `Cleared`, where nothing
is in flight but answers to killed loads, and `ClearedInv` covers both.
`EveryRequestOnce` counts places; `OnePlace` derives the count from
`QueueOK`, `UnitsOK` and `Complete`.  The unit's steps are steps of `SBSpec`, so that
the theorems about the store buffer alone hold inside.
`FencesOrderAccesses` needs `ReadsOK` next to `LsuInv`: no store outlives a fence
(`fenced` is 0), and an instruction whose early read is in the load unit, in its
report or in the window still has its fence before it, so that the flush of the
fence reaches it first; an instruction that starts again in its slot is granted again.

**Back end.**  `BkInv` extends `SbInv`.  `EntriesOK` and `UnitsOK` say
what decode wrote and which unit has what; `PlacesOK`, that an
unfinished instruction is in one place; `FluOK`, what makes the missing arbiter harmless: a
one-cycle instruction and a finished multiplication or division never coincide.
`QueueOK` and `WrongOK` locate the wrong path: behind a branch that is
still in the issue register, in the slot right behind the branch that is
in execute, or cancelled.  `CsrOK` is the one that could not be guessed from
the property: CSR instructions in flight are alone, in execute or in the
buffer, *unless* a fence at the head waits for the stores; then the buffer may hold
what the fence will throw away.  `GoodOK`, on top of `BkInv`, says
that an instruction in flight on the right path has the operand of program order, unless an AMO is ahead of it that has
not retired: its result is written at commit only, and the
flush it brings removes whatever was issued with the old value.
`PipelineImplementsWindow` reuses `WindowCycle` of the scoreboard.

**Data cache.**  `DcInv` has a conjunct for each thing one unit relies on
another for: `EntriesOK`, `TransactionsOK` and `ArbiterOK` for the write
buffer, its transactions and what the arbiters hold; `MissOK` for the port the
MSHR names; `ApartOK`, that a load and a store of one line are never
under way together; `LookupOK`, that what a tag lookup found is still
true one and two cycles later or is remembered to be stale; `LinesOK`, that a line that is
asked for is in no way unless its port is to look again; `AmoOK`,
`DevicesOK`.  On these rests `DataOK`: a byte that is not in the
buffer is current in memory, in every way, in the refill under way
and in the word just read; what a transaction carries is current unless the core
has stored it anew.  Each conjunct has a lemma for `Cycle` (`CycleInv` puts them together),
and there is one lemma for each of the steps of memory.

**Import tool.**  `VendorInv` adds to the two properties what a run has
established where it is (`RunOK`): which items are complete, which patches
of the item at hand are left, that without `--update` the lock file still is the
one that was read, and that every lock in the working tree, in the index and in the last commit is
proven, because `Restore` may bring any of them back.  `CommitInv` adds
what a run that will commit knows of git: until it adds files the index
is the last commit, which `git_is_clean_workdir` established and
only `--refresh-patches` disturbs; and where the shortlog begins.  The action property
follows from both in the step that commits.

**Regression runner.**  `ReportInv == TandemReportsAreOwn /\ FailureIsLast`: without
the second, the next command of the invocation could write the report again; a failed
simulation ends its invocation, and the next forgets what ran.
The other two properties speak of what an iteration *will* execute, so their
invariants relate `todo` to the command line.  `CommandsOf` says which
simulations, batches and crashes the commands of an iteration consist of, for
every test list: each loop of `main` is a map or a filter over a list, and one
lemma per loop (`DirectedTests`, `GenCommands`, `GccCommands`, `IssCommands`,
`CmpCommands`) gives its commands as a set.  Recursive functions over
lists and imports are treated by a least counterexample instead of
induction: the lists on which a definition has no solution would have a shortest one
(`JoinsExist`, `FoundExists`).
`ReplayInv`: the seeds drawn so far are those of the seed file or of the options, once
per test, and what was recorded with `seed.yaml` was generated from the seeds in
it; batches are told apart by division (`InBatch`).
`SelectInv`: as long as an invocation has not failed, what it has simulated and
what is left is exactly what is due up to this iteration (`RunsAreDue`), unless the
iteration ends in a crash.  `SelectedEntries` and `RunnableTests` relate the
lists the code filters several times to the tests of the command line that the
derived configuration can run, where `DerivedIsRequested` enters.
`LogsTellExecutions` is an induction over the lines of a log.  `Known` says what a reader
knows behind instruction *n*: what it has yielded and the entry in hand are
what `Visible` shows of the first *n* (`Shown`), or it has stopped at an ecall, or it is in the
debug ROM exactly when the execution is (`KnownPlain`, `KnownDebug`,
`KnownStopped`).
`VerdictInv` says of each comparison that is left: its logs are in the directory and are
whole logs of the program as it is compiled now, or a simulation that is still to come
writes them, and no command before the comparison spoils them (`Ready`).  That is so at the
beginning of an iteration because of the order of its commands: `CommandsSupplied`
goes through all combinations of lists (`RunTestSupplied`, `SuppliedBehind`), and
comparisons without a log fall under the precondition of the property
(`TestedProgram`, where (*a*) enters).  Every command then keeps what is ready
(`ReadyNext`), since only a compilation or a simulation under the same name spoils a
log (`CurrentStays`).

**Configuration derivation.**  The property states a derived value by the path of
places from a field to its literal; the code replaces lines.
`AlongChains` gives induction along a chain of localparams whose rank falls,
`PathEnd` says that the path ends where `find_root_def` does, `ChangeIs` which
line a change replaces, and `DerivedIs` what is in every place after the first *n*
changes.  Paths do not change, since only ends are rewritten or a value in front
cuts them off (`DecidedPath`); so the first place of the path that was changed decides.

**Port documents.**  `PortInv` adds two conjuncts to the property: while
`spec_builder` reads (`Builds`), what it carries from line to line and what it has collected
are what the property says of the lines read so far (`KnownAfter`); at other times
the reader is in its initial state.  `ReadNext` is one line: `AboutNext` for
the comment and the connexion that wait for a port, `TableNext` and `ListsNext` for
the table and the lists of tied ports, which grow by what `PortsNext` and `ReasonsNext`
say.  `LongerInjective` and `AddedIs` count entries of a list that is
extended in several places at once.  `ParametersAre` takes the
parameters of the blacklist from `DerivedIsRequested`.

**Performance model.**  `PortInv` relates the units that are taken to the age of what is
in the scoreboard: when an instruction may issue, whatever will finish in the
same cycle has taken the unit this one needs (`UnitsTaken`), and a
multiplication is remembered over the end of the cycle (`MulRemembered`),
at which all other units are freed.  `RasInv` says that the stack
is a suffix of the calls that have not returned: it may forget calls but never invents one,
and what a return dropped is where the trace goes on.  `HasInv` adds to `PortInv` that the
counter is the size of the fetched blocks less what is consumed of
the first (`QueueInv`), and why the counter has been corrected in time:
the scoreboard has a place in the third cycle behind a prediction at the latest
(`BoardInv`), so that `try_issue` looks back at the prediction before
its event is forgotten.

The proofs use the definitions that TLC checks, and each theorem's property is a
property of a run as well.

## 7. Only model-checked, and not modelled

*Only model-checked*:

- the liveness properties `InstructionsLeave`, `InstructionsRetire`,
  `ImportsRecover` and `TraceRetires` (liveness under fairness and `ENABLED` are
  outside of what TLAPS 1.4.5 proves);
- the properties of the load-store unit for programs with faulting stores:
  the run `lsu` has such a program, in which all of them but `EveryRequestOnce`
  hold (`WriteBackIsOwn` fails in the program of finding 2), but after a request
  is lost no invariant of the form of `LsuInv` does;
- `CsrsAreDocumented`: `factorizer` closes a group when the next register does
  not fit it, so that what it prints depends on the order of the register file;
  which files come out right (section 5 lists those that do not) would
  be a hypothesis about the text of each file, and the run checks ten files that cover
  its branches instead.

Liveness of the data cache is not stated: it would rest on the fairness of the
bank arbitration, which the model leaves open.

*Not modelled*: the MMU, the front end, the instruction cache, the write-back
cache and the bus adapters (planned below); the HPDcache, whose sources are a submodule;
CSR file, decoders, ALU, FPU, AES, PMP (tables and datapath, for
which simulation against the ISA model is the better tool; the pipeline models
use their outputs as free choices); CVXIF and the accelerator port (off in
the modelled configuration); SoC periphery and test benches; the scripts that
print reports of finished traces or CI jobs, which keep no state and decide nothing.

Hazards of these parts that a later model should answer: the late answer of an
aborted page walk (`cva6_ptw.sv:637`), page-size bits of the last lookup used
for this one (`cva6_mmu.sv:557`), replay of a fetch from a remembered address
(`instr_queue.sv:276`), the handshake of a data-cache flush (`controller.sv:164`).

*Left out of modelled parts*: more than one set of the data cache, and so which
index a line write or a flush step hits; the controller's wait for a data-cache
flush on a fence; physical addresses in the LSU (`load_store_unit.sv:366`); Zcmp write-back to
`trans_id - 1` (`scoreboard.sv:202`); WFI and debug entry at commit; the options
and writers named in section 3 for the tools.

## 8. The plan

Done, in this order: store buffer, load-store unit; scoreboard, issue, commit,
back end; proofs of the store buffer and of the scoreboard; performance model;
write-through data cache; import tool with its proofs; regression runner with
configurations and log readers; port and register documents; proofs of the
runner's reports and of the performance model; inductive invariants of the
compositions and the proofs of all safety properties of the data cache, the
back end and the load-store unit, and of the byte counter of the performance model;
proofs of configuration derivation, of test selection, replay, log readers and
verdicts, and of the port documents.

Next, models:

1. *MMU*: walker, DTLB, ITLB, shared TLB.  No entry from before an SFENCE is
   used after it; a killed walk writes nothing; the late answer of an aborted
   walk is dropped (`cva6_ptw.sv:637`); page-size bits and PPN
   belong together (`cva6_mmu.sv:557`).
2. *Front end*: instruction queue with replay (`instr_queue.sv:276`), refining a
   queue of instructions in program order, and realignment of compressed
   instructions against a reference definition.
3. *Instruction cache*: state machine under kills, flushes, invalidations.
4. *Bus adapters*: `wt_axi_adapter` between miss unit and bus, refining the
   memory of `WtDcache`; the controller's flush handshake (`controller.sv:164`).
5. *Write-back cache*: ports against the miss handler, against the same
   notion of current copies as `WtDcache`.
6. Serial divider and FIFO as pure algorithms against reference definitions.

Next, proofs: `CommitsAreExact` with the weaker hypothesis that no SFENCE.VMA is in
flight behind a CSR instruction; the refinements of the front-end queue and of the adapters.

## 9. Running it

```
tlc -workers 2 -config MCLsu.cfg MCLoadStoreUnit.tla     # any run of section 4
tlapm UserConfigProofs.tla                               # any module of section 6
```

| Run | Module | Config |
|---|---|---|
| `lsu`, `lsu_progress` | `MCLoadStoreUnit` | `MCLsu.cfg`, `MCLsuProgress.cfg` |
| `single_step_store`, `faulting_store_pops_twice` | `MCLoadStoreUnit` | `MCLsuStep.cfg`, `MCLsuStoreFault.cfg` |
| `back_end`, `back_progress`, `sfence_forwarding` | `MCBackEnd` | `MCBackEnd.cfg`, `MCBackProgress.cfg`, `MCBackSfence.cfg` |
| `wt_dcache` | `MCWtDcache` | `MCWtDcache.cfg` |
| `perf_model` | `MCPerfModel` | `MCPerfModel.cfg` |
| `vendor` | `MCVendor` | `MCVendor.cfg` |
| `regression` | `MCRegression` | `MCRegression.cfg` |
| `docs` | `MCDocuments` | `MCDocuments.cfg` |
