--------------------------- MODULE LoadStoreUnit ----------------------------
(***************************************************************************)
(* The load-store unit (core/load_store_unit.sv) between the scoreboard    *)
(* and the data cache: the bypass FIFO, the load unit, the store unit with *)
(* its store and AMO buffers, the translation port they share, and the     *)
(* pipeline register behind the load unit.  Around it stand the parts that *)
(* drive it: the issue register of the execute stage, the window of the    *)
(* scoreboard, the commit stage with the controller's flush, and the load  *)
(* port of the write-through data cache.  A step is one clock cycle.       *)
(***************************************************************************)
EXTENDS StoreBuffer, LsuBypass, StoreUnit, LoadUnit

CONSTANTS NR_SB_ENTRIES,  \* scoreboard slots
          Programs,       \* the programs that may run, see Workload
          SingleStep      \* dcsr.step: a debugger steps through the program

\* A "nop" stands for any instruction of another functional unit, a "fence"
\* for FENCE, FENCE.I and SFENCE.VMA, a "trap" for an instruction that enters
\* the scoreboard with an exception or an interrupt.
Kinds == LoadOps \union StoreOps \union {"nop", "fence", "trap"}

\* What matters of a program: the kinds of instructions it uses, the kinds
\* whose translation may raise an exception, the page offsets it loads from and
\* those it stores to, and whether address translation is enabled, so that the
\* DTLB may miss.
Workload == [kinds : SUBSET Kinds, faulting : SUBSET (LoadOps \union StoreOps),
             loads : SUBSET Word, stores : SUBSET Word, mmu : BOOLEAN]

ASSUME LsuAssumption ==
  /\ NR_SB_ENTRIES \in Nat \ {0}
  /\ Programs \subseteq Workload
  /\ SingleStep \in BOOLEAN
  /\ NoAmo \notin 0 .. NR_SB_ENTRIES - 1

VARIABLES program,         \* the program that runs
          scoreboard,      \* slot -> instruction and its progress
          issue_pointer, commit_pointer, issue_cnt,
          fu_data,         \* the request the issue stage registered for this cycle
          ex_q,            \* mmu_exception: of the translation of the last cycle
          dc_state, dc_id, \* the load port of the cache and the load it serves
          load_out,        \* i_pipe_reg_load
          fenced, early    \* history of the fences, read by no action (see Reads)

coreVars == << scoreboard, issue_pointer, commit_pointer, issue_cnt, fu_data >>
portVars == << ex_q, dc_state, dc_id, load_out >>
readVars == << fenced, early >>
vars == << program, sbVars, bypVars, stVars, ldVars, coreVars, portVars, readVars >>

Slots == 0 .. NR_SB_ENTRIES - 1

Free == [kind |-> "nop", word |-> Zero.word, bad |-> FALSE, at |-> "free"]
Instr == [kind : Kinds, word : Word, bad : BOOLEAN, at : {"pending", "done", "ex", "free"}]

NoLoad == [valid |-> FALSE, tid |-> 0, ex |-> FALSE]

LsuInit ==
  /\ program \in Programs
  /\ SBInit /\ BypassInit /\ StoreUnitInit(Zero) /\ LoadUnitInit
  /\ scoreboard = [i \in Slots |-> Free]
  /\ issue_pointer = 0 /\ commit_pointer = 0 /\ issue_cnt = 0
  /\ fu_data = Zero /\ ex_q = FALSE
  /\ dc_state = "IDLE" /\ dc_id = 0 /\ load_out = NoLoad
  /\ fenced = 0 /\ early = {}

-----------------------------------------------------------------------------
(***************************************************************************)
(* Commit stage and controller, port 0.                                    *)
(***************************************************************************)
commit_instr == scoreboard[commit_pointer]

\* Mutant: the commit queue is not asked for room.
commit_lsu_IgnoresReady == /\ commit_instr.at = "done"
                           /\ commit_instr.kind \in {"store", "cbo"}

commit_lsu == /\ commit_instr.at = "done"
              /\ commit_instr.kind \in {"store", "cbo"}
              /\ commit_ready

amo_valid_commit == commit_instr.at = "done" /\ IsAmo([op |-> commit_instr.kind])

\* ack: amo_resp_i.ack
\* Mutant: a fence does not wait for the committed stores.
commit_ack_FenceEarly(ack) ==
  /\ commit_instr.at = "done"
  /\ commit_instr.kind \in {"store", "cbo"} => commit_ready
  /\ commit_instr.kind = "amo" => ack

commit_ack(ack) ==
  /\ commit_instr.at = "done"
  /\ commit_instr.kind \in {"store", "cbo"} => commit_ready
  /\ commit_instr.kind = "fence" => no_st_pending
  /\ commit_instr.kind = "amo" => ack

\* Mutant: a fence does not flush what was executed behind it.
flush_ex_NotByFence(ack) ==
  \/ commit_instr.at = "ex"
  \/ commit_ack(ack) /\ (commit_instr.kind = "amo" \/ SingleStep)

\* flush_ex_o: an exception, a fence, an AMO, or a completed debugger step
flush_ex(ack) ==
  \/ commit_instr.at = "ex"
  \/ commit_ack(ack) /\ (commit_instr.kind \in {"fence", "amo"} \/ SingleStep)

-----------------------------------------------------------------------------
(***************************************************************************)
(* The load port of the write-through cache (wt_dcache_ctrl.sv): one load  *)
(* at a time; a kill is answered at once, a killed miss is waited for; a   *)
(* read that completes may grant the next one in the same cycle.  MISS     *)
(* stands for the miss and the replay states.                              *)
(***************************************************************************)
data_rvalid(kill, tag, done) ==
  \/ dc_state = "READ" /\ (kill \/ (tag /\ done))
  \/ dc_state = "MISS" /\ (kill \/ done)

MayGrant(kill, rvalid) ==
  dc_state = "IDLE" \/ (dc_state \in {"READ", "MISS"} /\ rvalid /\ ~kill)

CachePort(kill, tag, done, granted, wid) ==
  /\ dc_id' = IF granted THEN wid ELSE dc_id
  /\ dc_state' =
       CASE granted -> "READ"
         [] ~granted /\ dc_state = "READ" -> IF kill \/ (tag /\ done) THEN "IDLE"
                                             ELSE IF tag THEN "MISS" ELSE "READ"
         [] ~granted /\ dc_state = "MISS" -> IF kill /\ ~done THEN "KILL_MISS"
                                             ELSE IF done THEN "IDLE" ELSE "MISS"
         [] ~granted /\ dc_state = "KILL_MISS" -> IF done THEN "IDLE" ELSE "KILL_MISS"
         [] ~granted /\ dc_state = "IDLE" -> "IDLE"

-----------------------------------------------------------------------------
(***************************************************************************)
(* The scoreboard: write-back, retirement, issue, flush.                   *)
(***************************************************************************)
\* a write-back reaches a slot only while an instruction is pending in it or
\* done (mem_q[trans_id].issued)
WriteBack(slots, out) ==
  IF out.valid /\ slots[out.tid].at # "free"
  THEN [slots EXCEPT ![out.tid].at = IF out.ex THEN "ex" ELSE "done"]
  ELSE slots

\* an instruction of another unit finishes
Finish(slots, i) ==
  IF i \in Slots /\ slots[i].kind = "nop" /\ slots[i].at = "pending"
  THEN [slots EXCEPT ![i].at = "done"] ELSE slots

Request(i, instr) ==
  [valid |-> TRUE, fu |-> IF instr.kind \in LoadOps THEN "LOAD" ELSE "STORE",
   op |-> instr.kind, word |-> instr.word, bad |-> instr.bad, tid |-> i]

IsLsu(instr) == instr.kind \in LoadOps \union StoreOps

\* what may be issued in this cycle, none or one: a memory operation needs
\* lsu_ready, which looks at the FIFO only
NewInstr ==
  {[kind |-> k, word |-> w, bad |-> b,
    at |-> CASE k = "trap" -> "ex" [] k = "fence" -> "done" [] OTHER -> "pending"] :
       k \in program.kinds, w \in Word, b \in BOOLEAN}

accessed(kind) == IF kind \in LoadOps THEN program.loads ELSE program.stores

Issuable ==
  IF issue_cnt = NR_SB_ENTRIES THEN {}
  ELSE {n \in NewInstr : /\ IsLsu(n) => lsu_ready /\ n.word \in accessed(n.kind)
                         /\ ~IsLsu(n) => n.word = Zero.word
                         /\ n.bad => n.kind \in program.faulting}

Scoreboard(st_out, finish, issued, retires, flush) ==
  LET written == WriteBack(WriteBack(Finish(scoreboard, finish), load_out), st_out)
      kept    == IF retires THEN [written EXCEPT ![commit_pointer] = Free] ELSE written
      next    == (commit_pointer + 1) % NR_SB_ENTRIES
  IN  IF flush
      THEN /\ scoreboard' = [i \in Slots |-> Free]
           /\ issue_pointer' = 0 /\ commit_pointer' = 0 /\ issue_cnt' = 0
           /\ fu_data' = Zero
      ELSE /\ commit_pointer' = IF retires THEN next ELSE commit_pointer
           /\ issue_cnt' = issue_cnt + Cardinality(issued) - (IF retires THEN 1 ELSE 0)
           /\ \/ /\ issued = {}
                 /\ scoreboard' = kept
                 /\ UNCHANGED issue_pointer
                 /\ fu_data' = Zero
              \/ \E n \in issued :
                   /\ scoreboard' = [kept EXCEPT ![issue_pointer] = n]
                   /\ issue_pointer' = (issue_pointer + 1) % NR_SB_ENTRIES
                   /\ fu_data' = IF IsLsu(n) THEN Request(issue_pointer, n) ELSE Zero

-----------------------------------------------------------------------------
(***************************************************************************)
(* What the reads of the cache owe to the fences.  `fenced' counts the     *)
(* stores of the commit queue that precede a retired fence; `early' holds  *)
(* the slots whose instruction was granted the cache while a store that    *)
(* precedes a fence before it had not left for the cache.                  *)
(***************************************************************************)
\* position of slot i in the window: 0 is the oldest instruction
Age(i) == (i - commit_pointer) % NR_SB_ENTRIES

\* a fence in slot f stands before the instruction in slot t
FenceBefore(f, t) == /\ scoreboard[f].kind = "fence" /\ scoreboard[f].at # "free"
                     /\ Age(f) < Age(t)

StoresBefore(f) == \/ commit_status_cnt > 0
                   \/ \E s \in Slots : /\ scoreboard[s].kind \in StoreOps
                                       /\ scoreboard[s].at # "free"
                                       /\ Age(s) < Age(f)

ReadsEarly(t) == fenced > 0 \/ \E f \in Slots : FenceBefore(f, t) /\ StoresBefore(f)

Reads(granted, tid, retires, leaves) ==
  LET older == IF retires /\ commit_instr.kind = "fence" THEN commit_status_cnt ELSE fenced
  IN  /\ fenced' = IF older > 0 /\ leaves THEN older - 1 ELSE older
      /\ early' = IF ~granted THEN early
                  ELSE IF ReadsEarly(tid) THEN early \union {tid} ELSE early \ {tid}

-----------------------------------------------------------------------------
(***************************************************************************)
(* One clock cycle.  The inputs: whether the DTLB hits and whether a walk  *)
(* ends in an error, whether the cache completes a load, would grant the   *)
(* next one, grants or completes a store and completes an AMO, whether its *)
(* write buffer holds no non-idempotent store, and which instruction of    *)
(* another unit may finish.  What is issued is free.                       *)
(***************************************************************************)
lsu_ctrl_now == lsu_ctrl(fu_data)
st_valid_i   == lsu_ctrl_now.valid /\ lsu_ctrl_now.fu = "STORE"
ld_valid_i   == lsu_ctrl_now.valid /\ lsu_ctrl_now.fu = "LOAD"

\* Mutant: the store in its second cycle is left out of the address check.
putting_Nothing == {}

putting == IF st_valid_without_flush THEN {st_q.word} ELSE {}

LsuCycle(hit, walk_error, done, gnt, st_gnt, st_rvalid, amo_done, not_ni, finishing) ==
  LET ctrl    == lsu_ctrl_now
      ack     == amo_done /\ amo_req(no_st_pending, amo_valid_commit)
      flush   == flush_ex(ack)
      commit  == commit_lsu
      st_put  == store_buffer_valid(ex_q, flush)
      room    == ready(st_put, commit, flush) /\ amo_ready
      kill    == kill_req(ex_q)
      rvalid  == data_rvalid(kill, tag_valid, done)
      matches == page_offset_matches(ctrl.word, putting)
      stall   == stall_ni(ctrl.op = "load_ni", commit_pointer # ctrl.tid,
                          ~not_ni \/ ~store_buffer_empty)
      asks    == ld_data_req(ld_valid_i, rvalid, matches)
      granted == asks /\ gnt /\ MayGrant(kill, rvalid)
      popLd   == pop_ld(granted, hit, stall, ex_q, rvalid)
      popSt   == pop_st(st_valid_i, ctrl, hit, room, ex_q)
      stNext  == StStateNext(st_valid_i, ctrl, hit, room, ex_q, flush)
      asksTr  == IF ctrl.fu = "LOAD" THEN ld_translation_req(ld_valid_i, rvalid)
                 ELSE ctrl.fu = "STORE" /\ st_translation_req(st_valid_i, ctrl)
      stOut   == [valid |-> st_valid_o(ex_q), tid |-> st_q.tid, ex |-> ex_q]
      retires == commit_ack(ack)
  IN  /\ UNCHANGED program
      /\ Cycle(st_put, [word |-> st_q.word, cbo |-> st_q.op = "cbo"], commit, flush,
               FALSE, st_gnt, st_rvalid)
      /\ BypassStep(fu_data, popLd, popSt, flush)
      /\ st_state' = stNext
      /\ st_q' = IF stNext = "IDLE" THEN Zero ELSE ctrl   \* not read in IDLE
      /\ amo_buffer' = AmoBufferNext(ex_q, flush, amo_valid_commit, ack)
      /\ ld_state' = LdStateNext(ld_valid_i, rvalid, matches, granted, hit, stall, ex_q,
                                 not_ni, flush)
      /\ ldbuf' = LdBufNext(granted, ctrl.tid, rvalid, dc_id, flush)
      /\ ldbuf_last_id' = IF granted THEN ldbuf_windex(rvalid) ELSE ldbuf_last_id
      /\ CachePort(kill, tag_valid, done, granted, ldbuf_windex(rvalid))
      /\ load_out' = IF LdFaults(ld_valid_i, rvalid, ex_q)
                     THEN [valid |-> TRUE, tid |-> ctrl.tid, ex |-> TRUE]
                     ELSE IF LdRetires(rvalid, dc_id, ex_q)
                     THEN [valid |-> TRUE, tid |-> ldbuf[dc_id].tid,
                           ex |-> ex_q /\ ld_state = "SEND_TAG"]
                     ELSE NoLoad
      /\ ex_q' = (asksTr /\ ctrl.bad /\ (hit \/ walk_error))
      /\ \E issued \in {{}} \union {{n} : n \in IF flush THEN {} ELSE Issuable},
            finish \in finishing :
           Scoreboard(stOut, finish, issued, retires, flush)
      /\ Reads(granted, ctrl.tid, retires, Leaves(FALSE, st_gnt, st_rvalid))

\* an input is free only in states in which somebody looks at it
Choice(relevant) == IF relevant THEN BOOLEAN ELSE {FALSE}

Asking == lsu_ctrl_now.valid \/ ld_state # "IDLE" \/ st_state # "IDLE"

OldestIsCbo == commit_status_cnt > 0 /\ commit_queue[commit_read_pointer].st.cbo

NoSlot == NR_SB_ENTRIES

OtherUnits == {i \in Slots : scoreboard[i].kind = "nop" /\ scoreboard[i].at = "pending"}

LsuNext ==
  \E hit \in {TRUE, ~(program.mmu /\ Asking)}, walk_error \in Choice(program.mmu /\ lsu_ctrl_now.bad),
     done \in Choice(dc_state # "IDLE"), gnt \in Choice(lsu_ctrl_now.fu = "LOAD" \/ ld_state # "IDLE"),
     st_gnt \in Choice(data_req(FALSE)), st_rvalid \in Choice(OldestIsCbo),
     amo_done \in Choice(amo_valid_commit),
     not_ni \in Choice("load_ni" \in program.kinds) :
    LsuCycle(hit, walk_error, done, gnt, st_gnt, st_rvalid, amo_done, not_ni,
             OtherUnits \union {NoSlot})

LsuSpec == LsuInit /\ [][LsuNext]_vars

(***************************************************************************)
(* A cycle in which the memory system answers everything it is asked and   *)
(* the other units finish.  That such cycles keep coming is all the        *)
(* liveness of the unit rests on; what is issued in them is free.          *)
(***************************************************************************)
Answered ==
  LsuCycle(TRUE, FALSE, TRUE, TRUE, TRUE, TRUE, TRUE, TRUE,
           IF OtherUnits = {} THEN {NoSlot} ELSE OtherUnits)

LsuFairSpec == LsuSpec /\ WF_vars(Answered)

-----------------------------------------------------------------------------
(***************************************************************************)
(* Properties.                                                             *)
(***************************************************************************)
\* The store unit and the commit stage keep every assertion at the end of
\* store_buffer.sv: no push into a full queue, no commit out of an empty one
\* or into a full one, and no commit in the cycle of a flush.
BufferContract ==
  \A ack \in BOOLEAN :
    (ack => amo_valid_commit) =>
      InputContract(store_buffer_valid(ex_q, flush_ex(ack)), commit_lsu, flush_ex(ack))

\* the stores that the scoreboard believes finished and not retired
DoneStores == {i \in Slots : scoreboard[i].kind \in {"store", "cbo"} /\ scoreboard[i].at = "done"}

\* The speculative queue holds exactly the stores that the scoreboard believes
\* finished and not retired, in program order: the store that commit_i moves is
\* the one the commit stage retires (commit_i carries no identity).
SpeculativeStoresAreDone ==
  \E slot \in [1 .. speculative_status_cnt -> DoneStores] :
    /\ \A i \in DoneStores : \E k \in 1 .. speculative_status_cnt : slot[k] = i
    /\ \A j, k \in 1 .. speculative_status_cnt : j < k => Age(slot[j]) < Age(slot[k])
    /\ \A k \in 1 .. speculative_status_cnt :
         speculativeStores[k] = [word |-> scoreboard[slot[k]].word,
                                 cbo |-> scoreboard[slot[k]].kind = "cbo"]

\* An atomic operation is sent to the cache only while it is the oldest
\* instruction and every earlier store has drained, and what is sent is the
\* entry it put into the AMO buffer itself, not one left from before a flush
\* (amo_buffer.sv flush_amo_buffer, amo_req_o.req).
AmoRunsAlone ==
  amo_req(no_st_pending, amo_valid_commit) =>
    amo_buffer = commit_pointer /\ commit_status_cnt = 0

\* a load that the cache will answer and whose answer counts
Live(j) ==
  /\ ldbuf[j].valid /\ ~ldbuf[j].flushed
  /\ ~(j = ldbuf_last_id /\ ld_state \in {"ABORT_TRANSACTION", "ABORT_TRANSACTION_NI",
                                          "WAIT_FLUSH"})

InFifo(k) == k < byp_cnt
FifoEntry(k) == byp_mem[(byp_rd + k) % 2]

\* how many places of the LSU hold a request of slot i
Places(i) ==
  LET One(b) == IF b THEN 1 ELSE 0
  IN  One(fu_data.valid /\ fu_data.tid = i)
      + Cardinality({k \in 0 .. 1 : InFifo(k) /\ FifoEntry(k).valid /\ FifoEntry(k).tid = i})
      + One(st_state = "VALID_STORE" /\ st_q.tid = i)
      + Cardinality({j \in LdBufSlots : Live(j) /\ ldbuf[j].tid = i})
      + One(load_out.valid /\ load_out.tid = i /\ scoreboard[i].at # "free")

StoresFault == program.faulting \intersect StoreOps # {}

\* A memory instruction waiting for its result is in exactly one place of the
\* load-store unit, and the unit holds no request of any other instruction: no
\* request is lost between the FIFO, the units and the buffers, executed twice,
\* or left over from before a flush.  Programs in which a store faults are
\* exempt: a store that faults in its second cycle pops the FIFO twice.
EveryRequestOnce ==
  \/ StoresFault
  \/ \A i \in Slots :
       Places(i) = IF scoreboard[i].at = "pending" /\ IsLsu(scoreboard[i]) THEN 1 ELSE 0

\* A result is written back only to an instruction of the unit that reports it
\* and that still waits for it; a load answered late, after a flush, finds its
\* slot free (the pipeline register behind the load unit is not flushed).
WriteBackIsOwn ==
  /\ load_out.valid /\ scoreboard[load_out.tid].at # "free" =>
       /\ scoreboard[load_out.tid].at = "pending"
       /\ scoreboard[load_out.tid].kind \in LoadOps
  /\ st_valid_o(ex_q) => /\ scoreboard[st_q.tid].at = "pending"
                         /\ scoreboard[st_q.tid].kind \in StoreOps

\* While the cache reads for a load, every earlier store to the same page
\* offset has left the store buffer, so that the cache returns its data; the
\* address check happens once, the grant may come many cycles later.
LoadsSeeOlderStores ==
  \A j \in LdBufSlots : Live(j) =>
    LET i == ldbuf[j].tid
    IN  /\ \A k \in Slots : ~( /\ Age(k) < Age(i)
                               /\ scoreboard[k].at \in {"pending", "done"}
                               /\ scoreboard[k].kind \in {"store", "cbo"}
                               /\ scoreboard[k].word = scoreboard[i].word )
        /\ \A k \in 1 .. commit_status_cnt : committedStores[k].word # scoreboard[i].word

\* A load from a non-idempotent region reaches the cache only as the oldest
\* instruction and behind all stores: it is never executed speculatively.
NonIdempotentLoadsWait ==
  \A j \in LdBufSlots :
    Live(j) /\ scoreboard[ldbuf[j].tid].kind = "load_ni" =>
      ldbuf[j].tid = commit_pointer /\ no_st_pending

\* Every instruction leaves the window, retired or flushed: the waiting states
\* of the load unit, the store unit, the two buffers and the commit stage never
\* wait for each other in a circle.
InstructionsLeave ==
  \A i \in Slots : scoreboard[i].at # "free" ~> scoreboard[i].at = "free"

\* A load that completes did not read the cache before a store that precedes a
\* fence before it had left for the cache.  A load may well be granted that
\* early, behind a fence that waits at the commit port (the load unit knows
\* nothing of fences); it must then not survive the fence, neither in the load
\* unit nor as a late answer, and no store may outlive the fence in the buffer.
FencesOrderAccesses ==
  commit_instr.at = "done" /\ commit_instr.kind \in LoadOps => commit_pointer \notin early
=============================================================================
