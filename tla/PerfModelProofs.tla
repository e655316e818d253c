--------------------------- MODULE PerfModelProofs --------------------------
(***************************************************************************)
(* Proofs that the schedule of the performance model never uses a          *)
(* write-back port twice in a cycle, that its return stack never gives a   *)
(* wrong address, and that its byte counter is as good as a queue of fetch *)
(* blocks: for every program, every number of issue and commit ports,      *)
(* every size of a fetch block, length of the scoreboard and depth of the  *)
(* stack.                                                                  *)
(***************************************************************************)
EXTENDS PerfModel, SequenceTheorems, TLAPS

Units == {"alu", "mul", "branch", "ldu", "stu", "alu2", "issued_mul"}
Ports == {"LSU", "ALU2", "FLU"}

InstrSet == UNION {m.code : m \in Models}
Entry    == [instr : InstrSet, done : BOOLEAN, cycles_since_issue : Nat, wb : Ports]

\* which kinds of instructions an entry of each port holds
PortFits(e) ==
  /\ e.wb = "LSU" => duration(e.instr) = 2
  /\ e.wb = "ALU2" => duration(e.instr) = 1

\* the part of the state that matters
PerfTypes ==
  /\ model \in Models
  /\ phase \in {"cycle", "commit", "execute", "issue", "fetch"}
  /\ head \in InstrSet \union {NoInstr}
  /\ fus \in [Units -> BOOLEAN]
  /\ scoreboard \in Seq(Entry)
  /\ \A k \in DOMAIN scoreboard : PortFits(scoreboard[k])

age(e)  == e.cycles_since_issue
long(e) == duration(e.instr) = 2

\* A multiplication that was issued in this cycle is remembered until the next
\* one, in which it keeps the ALU and the branch unit free.
MulRemembered(e) ==
  e.wb = "FLU" /\ long(e) /\ age(e) = 0 =>
    /\ phase \in {"issue", "fetch", "cycle"} => fus["issued_mul"]
    /\ phase \in {"commit", "execute"} => fus["alu"] /\ fus["branch"]

\* While instructions issue, whatever finishes together with an instruction
\* that might issue now has taken the unit this instruction needs.
UnitsTaken(e) ==
  phase = "issue" =>
    /\ e.wb = "LSU" /\ age(e) = 0              => fus["ldu"] /\ fus["stu"]
    /\ e.wb = "ALU2" /\ age(e) = 0             => fus["alu2"]
    /\ e.wb = "FLU" /\ ~long(e) /\ age(e) = 0  => fus["alu"] /\ fus["branch"]
    /\ e.wb = "FLU" /\ long(e) /\ age(e) = 0   => fus["mul"]
    /\ e.wb = "FLU" /\ long(e) /\ age(e) = 1   => fus["alu"] /\ fus["branch"]

PortInv ==
  /\ PerfTypes
  /\ \A k \in DOMAIN scoreboard : MulRemembered(scoreboard[k]) /\ UnitsTaken(scoreboard[k])
  /\ OnePerPort

-----------------------------------------------------------------------------
\* Every instruction takes one cycle or two.
LEMMA Durations == \A i : duration(i) \in {1, 2}
  BY DEF duration

\* What issuing does to the units, and the port the instruction will use.
LEMMA UnitsOf ==
  ASSUME NEW i, fus \in [Units -> BOOLEAN], is_ready_for(i)
  PROVE  /\ FusIssue(i) \in [Units -> BOOLEAN]
         /\ \A u \in Units : fus[u] => FusIssue(i)[u]
         /\ \/ /\ WbPort(i) = "LSU" /\ duration(i) = 2
               /\ ~(fus["ldu"] /\ fus["stu"]) /\ FusIssue(i)["ldu"] /\ FusIssue(i)["stu"]
            \/ /\ WbPort(i) = "ALU2" /\ duration(i) = 1
               /\ ~fus["alu2"] /\ FusIssue(i)["alu2"]
            \/ /\ WbPort(i) = "FLU" /\ duration(i) = 1
               /\ ~(fus["alu"] /\ fus["branch"]) /\ FusIssue(i)["alu"] /\ FusIssue(i)["branch"]
            \/ /\ WbPort(i) = "FLU" /\ duration(i) = 2
               /\ ~fus["mul"] /\ FusIssue(i)["mul"] /\ FusIssue(i)["issued_mul"]
<1> USE DEF Units
<1>1. \A us : /\ Take(us) \in [Units -> BOOLEAN]
              /\ \A u \in Units : (fus[u] => Take(us)[u]) /\ (u \in us => Take(us)[u])
  BY DEF Take
<1>2. \E us : FusIssue(i) = Take(us)
  BY DEF FusIssue
<1>3. CASE i.kind \in {"load", "store"}
  <2>1. to_fu(i) \in {"LDU", "STU"} /\ (to_fu(i) = "LDU" <=> i.kind = "load")
    BY <1>3 DEF to_fu, is_branch, is_regjump
  <2>2. FusIssue(i) = Take({"ldu", "stu"}) /\ ~(fus["ldu"] /\ fus["stu"])
    BY <2>1 DEF FusIssue, is_ready_for
  <2>3. /\ FusIssue(i) \in [Units -> BOOLEAN] /\ \A u \in Units : fus[u] => FusIssue(i)[u]
        /\ FusIssue(i)["ldu"] /\ FusIssue(i)["stu"]
    BY <1>1, <2>2
  <2>4. WbPort(i) = "LSU" /\ duration(i) = 2
    BY <1>3, <2>1 DEF WbPort, duration
  <2> QED
    BY <2>2, <2>3, <2>4
<1>4. CASE i.kind = "mul"
  <2>1. to_fu(i) = "MUL"
    BY <1>4 DEF to_fu, is_branch, is_regjump
  <2>2. FusIssue(i) = Take({"mul", "issued_mul"}) /\ ~fus["mul"]
    BY <2>1 DEF FusIssue, is_ready_for
  <2> QED
    BY <1>1, <1>4, <2>1, <2>2 DEF WbPort, duration
<1>5. CASE is_branch(i) \/ is_regjump(i)
  <2>1. to_fu(i) = "BRANCH" /\ duration(i) = 1 /\ i.kind \notin {"load", "store"}
    BY <1>5 DEF to_fu, is_branch, is_regjump, duration
  <2>2. FusIssue(i) = Take({"alu", "branch", "stu"}) /\ ~fus["branch"]
    BY <2>1 DEF FusIssue, is_ready_for
  <2> QED
    BY <1>1, <2>1, <2>2 DEF WbPort
<1>6. CASE ~(i.kind \in {"load", "store", "mul"} \/ is_branch(i) \/ is_regjump(i))
  <2>1. to_fu(i) = "ALU" /\ duration(i) = 1
    BY <1>6 DEF to_fu, duration
  <2>2. CASE alu2_ready
    <3>1. FusIssue(i) = Take({"alu2"}) /\ ~fus["alu2"]
      BY <2>1, <2>2 DEF FusIssue, alu2_ready
    <3> QED
      BY <1>1, <1>6, <2>1, <2>2, <3>1 DEF WbPort
  <2>3. CASE ~alu2_ready
    <3>1. FusIssue(i) = Take({"alu", "branch"}) /\ ~fus["alu"]
      BY <2>1, <2>3 DEF FusIssue, is_ready_for
    <3> QED
      BY <1>1, <1>6, <2>1, <2>3, <3>1 DEF WbPort
  <2> QED
    BY <2>2, <2>3
<1> QED
  BY <1>3, <1>4, <1>5, <1>6

\* PortInv when the model is created.
LEMMA PortInvInit == PerfInit => PortInv
<1> SUFFICES ASSUME PerfInit PROVE PortInv
  OBVIOUS
<1>1. scoreboard = << >> /\ DOMAIN scoreboard = {}
  BY DEF PerfInit
<1>2. PerfTypes
  BY <1>1 DEF PerfInit, PerfTypes, InstrSet, FusInit, Units
<1> QED
  BY <1>1, <1>2 DEF PortInv, OnePerPort

\* The cycle begins: only a multiplication of the last one counts.
LEMMA StartCycleInv ==
  ASSUME PortInv, StartCycle
  PROVE  PortInv'
<1> USE DEF PortInv, StartCycle, traceVars, issueVars
<1>1. /\ phase = "cycle" /\ phase' = "commit" /\ UNCHANGED << model, head, scoreboard >>
      /\ fus' = FusCycle
  OBVIOUS
<1>2. /\ fus' \in [Units -> BOOLEAN]
      /\ fus'["alu"] = fus["issued_mul"] /\ fus'["branch"] = fus["issued_mul"]
  BY <1>1 DEF FusCycle, FusInit, Units, PerfTypes
<1>3. PerfTypes'
  BY <1>1, <1>2 DEF PerfTypes, PortFits
<1>4. \A k \in DOMAIN scoreboard' : MulRemembered(scoreboard[k])' /\ UnitsTaken(scoreboard[k])'
  BY <1>1, <1>2 DEF MulRemembered, UnitsTaken, long, age
<1>5. OnePerPort'
  BY <1>1 DEF OnePerPort
<1> QED
  BY <1>3, <1>4, <1>5

\* Retiring removes entries and changes no unit.
LEMMA CommitInv ==
  ASSUME PortInv, Commit \/ CommitNothing
  PROVE  PortInv'
<1> USE DEF PortInv, Commit, CommitNothing, NextPort, traceVars, issueVars
<1>1. /\ phase = "commit" /\ phase' \in {"commit", "execute"} /\ UNCHANGED << model, head, fus >>
      /\ scoreboard' = scoreboard \/ (scoreboard # << >> /\ scoreboard' = Tail(scoreboard))
  BY DEF can_commit
<1>2. /\ scoreboard' \in Seq(Entry)
      /\ \E s \in {0, 1} : \A k \in DOMAIN scoreboard' : /\ k + s \in DOMAIN scoreboard
                                                         /\ scoreboard'[k] = scoreboard[k + s] /\ k \in Nat
  <2>1. scoreboard \in Seq(Entry)
    BY DEF PerfTypes
  <2>2. CASE scoreboard' = scoreboard
    BY <2>1, <2>2
  <2>3. CASE scoreboard # << >> /\ scoreboard' = Tail(scoreboard)
    BY <2>1, <2>3, HeadTailProperties
  <2> QED
    BY <1>1, <2>2, <2>3
<1>3. PICK s \in {0, 1} : \A k \in DOMAIN scoreboard' : /\ k + s \in DOMAIN scoreboard
                                                        /\ scoreboard'[k] = scoreboard[k + s] /\ k \in Nat
  BY <1>2
<1>4. PerfTypes'
  BY <1>1, <1>2, <1>3 DEF PerfTypes, PortFits
<1>5. \A k \in DOMAIN scoreboard' : MulRemembered(scoreboard[k])' /\ UnitsTaken(scoreboard[k])'
  BY <1>1, <1>3 DEF MulRemembered, UnitsTaken, long, age
<1>6. OnePerPort'
  <2> SUFFICES ASSUME NEW j \in DOMAIN scoreboard', NEW k \in DOMAIN scoreboard', j # k,
                      scoreboard'[j].wb = scoreboard'[k].wb
               PROVE  scoreboard'[j].cycles_since_issue - duration(scoreboard'[j].instr)
                        # scoreboard'[k].cycles_since_issue - duration(scoreboard'[k].instr)
    BY DEF OnePerPort
  <2>1. j + s # k + s
    BY <1>3
  <2> QED
    BY <1>3, <2>1 DEF OnePerPort
<1> QED
  BY <1>4, <1>5, <1>6

\* Everything in the scoreboard ages by a cycle.
LEMMA ExecuteInv ==
  ASSUME PortInv, Execute
  PROVE  PortInv'
<1> USE DEF PortInv, Execute, traceVars, issueVars
<1>1. phase = "execute" /\ phase' = "issue" /\ UNCHANGED << model, head, fus >>
  OBVIOUS
<1>2. /\ DOMAIN scoreboard' = DOMAIN scoreboard
      /\ \A k \in DOMAIN scoreboard :
           /\ scoreboard'[k].cycles_since_issue = scoreboard[k].cycles_since_issue + 1
           /\ scoreboard'[k].instr = scoreboard[k].instr /\ scoreboard'[k].wb = scoreboard[k].wb
           /\ scoreboard[k] \in Entry /\ scoreboard'[k] \in Entry
  <2>1. \A k \in DOMAIN scoreboard : scoreboard[k] \in Entry
    <3>1. scoreboard \in Seq(Entry)
      BY DEF PerfTypes
    <3> QED
      BY ONLY <3>1, ElementOfSeq, LenProperties
  <2> DEFINE Aged(e, d, n) == [e EXCEPT !.cycles_since_issue = n, !.done = d]
  <2>2. ASSUME NEW e \in Entry, NEW d \in BOOLEAN, NEW n \in Nat
        PROVE  /\ Aged(e, d, n) \in Entry /\ Aged(e, d, n).cycles_since_issue = n
               /\ Aged(e, d, n).instr = e.instr /\ Aged(e, d, n).wb = e.wb
    BY ONLY e \in Entry, d \in BOOLEAN, n \in Nat DEF Entry
  <2>3. \A k \in DOMAIN scoreboard : \E d \in BOOLEAN :
          scoreboard'[k] = Aged(scoreboard[k], d, scoreboard[k].cycles_since_issue + 1)
    BY <2>1 DEF Entry
  <2>4. DOMAIN scoreboard' = DOMAIN scoreboard
    OBVIOUS
  <2>5. \A k \in DOMAIN scoreboard : scoreboard[k].cycles_since_issue + 1 \in Nat
    BY ONLY <2>1 DEF Entry
  <2> HIDE DEF Aged, PortInv, Execute
  <2> QED
    BY <2>1, <2>2, <2>3, <2>4, <2>5
<1>3. scoreboard' \in Seq(Entry)
  <2>1. scoreboard \in Seq(Entry)
    BY DEF PerfTypes
  <2>2. \E n \in Nat : DOMAIN scoreboard = 1 .. n
    BY ONLY <2>1, LenProperties
  <2>3. scoreboard' = [k \in DOMAIN scoreboard |-> scoreboard'[k]]
    OBVIOUS
  <2> HIDE DEF PortInv, Execute
  <2> QED
    BY <1>2, <2>2, <2>3, SeqDef
<1>4. PerfTypes'
  BY <1>1, <1>2, <1>3 DEF PerfTypes, PortFits
<1>5. ASSUME NEW k \in DOMAIN scoreboard'
      PROVE  MulRemembered(scoreboard[k])' /\ UnitsTaken(scoreboard[k])'
  <2>1. /\ scoreboard'[k].cycles_since_issue # 0
        /\ scoreboard'[k].cycles_since_issue = 1 => scoreboard[k].cycles_since_issue = 0
    BY ONLY <1>2, k \in DOMAIN scoreboard' DEF Entry
  <2>2. MulRemembered(scoreboard[k])
    BY <1>2
  <2> HIDE DEF PortInv, Execute
  <2> QED
    BY <1>1, <1>2, <2>1, <2>2 DEF MulRemembered, UnitsTaken, long, age
<1>6. OnePerPort'
  <2> HIDE DEF Execute
  <2> SUFFICES ASSUME NEW j \in DOMAIN scoreboard', NEW k \in DOMAIN scoreboard', j # k,
                      scoreboard'[j].wb = scoreboard'[k].wb
               PROVE  scoreboard'[j].cycles_since_issue - duration(scoreboard'[j].instr)
                        # scoreboard'[k].cycles_since_issue - duration(scoreboard'[k].instr)
    BY DEF OnePerPort
  <2>1. scoreboard[j].cycles_since_issue - duration(scoreboard[j].instr)
          # scoreboard[k].cycles_since_issue - duration(scoreboard[k].instr)
    BY <1>2 DEF OnePerPort
  <2>2. scoreboard[j].cycles_since_issue \in Nat /\ scoreboard[k].cycles_since_issue \in Nat
    BY ONLY <1>2, j \in DOMAIN scoreboard', k \in DOMAIN scoreboard' DEF Entry
  <2> HIDE DEF PortInv
  <2>3. duration(scoreboard[j].instr) \in Nat /\ duration(scoreboard[k].instr) \in Nat
    BY ONLY Durations
  <2> QED
    BY <1>2, <2>1, <2>2, <2>3
<1> QED
  BY <1>4, <1>5, <1>6

\* The instruction that issues finishes with no other on its port: what would
\* finish together with it has taken its unit.
LEMMA IssueInv ==
  ASSUME PortInv, Issue
  PROVE  PortInv'
<1> DEFINE new == [instr |-> head, done |-> FALSE, cycles_since_issue |-> 0, wb |-> WbPort(head)]
           n   == Len(scoreboard) + 1
<1>1. /\ phase = "issue" /\ phase' \in {"issue", "fetch"} /\ UNCHANGED model
      /\ fus' = FusIssue(head) /\ scoreboard' = Append(scoreboard, new)
      /\ head # NoInstr /\ is_ready_for(head) /\ head' \in Trace(head)
  BY DEF Issue, NextPort, blocked, can_issue
<1>2. PerfTypes /\ OnePerPort /\ \A k \in DOMAIN scoreboard : UnitsTaken(scoreboard[k]) /\ MulRemembered(scoreboard[k])
  BY DEF PortInv
<1>3. head \in InstrSet /\ head' \in InstrSet \union {NoInstr}
  BY <1>1, <1>2 DEF PerfTypes, Trace, Following, InstrSet
<1>4. /\ fus' \in [Units -> BOOLEAN]
      /\ \A u \in Units : fus[u] => fus'[u]
      /\ \/ /\ new.wb = "LSU" /\ long(new)
            /\ ~(fus["ldu"] /\ fus["stu"]) /\ fus'["ldu"] /\ fus'["stu"]
         \/ /\ new.wb = "ALU2" /\ duration(head) = 1
            /\ ~fus["alu2"] /\ fus'["alu2"]
         \/ /\ new.wb = "FLU" /\ duration(head) = 1
            /\ ~(fus["alu"] /\ fus["branch"]) /\ fus'["alu"] /\ fus'["branch"]
         \/ /\ new.wb = "FLU" /\ long(new)
            /\ ~fus["mul"] /\ fus'["mul"] /\ fus'["issued_mul"]
  BY <1>1, <1>2, UnitsOf DEF PerfTypes, long
<1>5. new \in Entry /\ PortFits(new) /\ new.instr = head /\ new.cycles_since_issue = 0
  BY <1>3, <1>4 DEF Entry, Ports, PortFits, long
<1> HIDE DEF new
<1>6. /\ scoreboard' \in Seq(Entry) /\ DOMAIN scoreboard' = DOMAIN scoreboard \union {n}
      /\ n \notin DOMAIN scoreboard /\ scoreboard'[n] = new
      /\ \A k \in DOMAIN scoreboard : scoreboard'[k] = scoreboard[k] /\ scoreboard[k] \in Entry
  BY <1>1, <1>2, <1>5, AppendProperties DEF PerfTypes
<1> HIDE DEF n
<1>7. PerfTypes'
  BY <1>1, <1>2, <1>3, <1>4, <1>5, <1>6 DEF PerfTypes, PortFits
<1>8. ASSUME NEW k \in DOMAIN scoreboard'
      PROVE  MulRemembered(scoreboard[k])' /\ UnitsTaken(scoreboard[k])'
  <2>1. CASE k \in DOMAIN scoreboard
    <3>1. UnitsTaken(scoreboard[k]) /\ MulRemembered(scoreboard[k]) /\ scoreboard'[k] = scoreboard[k]
      BY <1>2, <1>6, <2>1
    <3> QED
      BY ONLY <1>1, <1>4, <3>1 DEF UnitsTaken, MulRemembered, long, age, Units
  <2>2. CASE k = n
    <3>1. scoreboard'[k] = new
      BY <1>6, <2>2
    <3> QED
      BY ONLY <1>1, <1>4, <1>5, <3>1 DEF UnitsTaken, MulRemembered, long, age
  <2> QED
    BY <1>6, <2>1, <2>2
<1>9. \A k \in DOMAIN scoreboard :
        scoreboard[k].wb = new.wb =>
          scoreboard[k].cycles_since_issue - duration(scoreboard[k].instr) # 0 - duration(head)
  <2> SUFFICES ASSUME NEW k \in DOMAIN scoreboard, scoreboard[k].wb = new.wb
               PROVE  scoreboard[k].cycles_since_issue - duration(scoreboard[k].instr) # 0 - duration(head)
    OBVIOUS
  <2>1. UnitsTaken(scoreboard[k]) /\ PortFits(scoreboard[k]) /\ scoreboard[k].cycles_since_issue \in Nat
    BY <1>2, <1>6 DEF PerfTypes, Entry
  <2>2. duration(scoreboard[k].instr) \in {1, 2} /\ duration(head) \in {1, 2}
    BY Durations
  <2> QED
    BY ONLY <1>1, <1>4, <1>5, <2>1, <2>2, scoreboard[k].wb = new.wb DEF UnitsTaken, PortFits, long, age
<1>10. OnePerPort'
  <2> SUFFICES ASSUME NEW j \in DOMAIN scoreboard', NEW k \in DOMAIN scoreboard', j # k,
                      scoreboard'[j].wb = scoreboard'[k].wb
               PROVE  scoreboard'[j].cycles_since_issue - duration(scoreboard'[j].instr)
                        # scoreboard'[k].cycles_since_issue - duration(scoreboard'[k].instr)
    BY DEF OnePerPort
  <2>1. CASE j \in DOMAIN scoreboard /\ k \in DOMAIN scoreboard
    BY <1>2, <1>6, <2>1 DEF OnePerPort
  <2>2. CASE j = n
    BY <1>5, <1>6, <1>9, <2>2
  <2>3. CASE k = n
    BY <1>5, <1>6, <1>9, <2>3
  <2> QED
    BY <1>6, <2>1, <2>2, <2>3
<1> QED
  BY <1>7, <1>8, <1>10 DEF PortInv

\* Nothing issues, or the next block is fetched.
LEMMA IdleInv ==
  ASSUME PortInv, IssueNothing \/ IssueStalls \/ FetchBlock
  PROVE  PortInv'
<1> USE DEF PortInv, IssueNothing, IssueStalls, FetchBlock, NextPort, traceVars, issueVars
<1>1. /\ phase \in {"issue", "fetch"} /\ phase' \in {"issue", "fetch", "cycle"}
      /\ phase = "fetch" => phase' = "cycle"
      /\ UNCHANGED << model, head, fus, scoreboard >>
  OBVIOUS
<1>2. PerfTypes'
  BY <1>1 DEF PerfTypes, PortFits
<1>3. \A k \in DOMAIN scoreboard' : MulRemembered(scoreboard[k])' /\ UnitsTaken(scoreboard[k])'
  BY <1>1 DEF MulRemembered, UnitsTaken, long, age
<1>4. OnePerPort'
  BY <1>1 DEF OnePerPort
<1> QED
  BY <1>2, <1>3, <1>4

\* Every step preserves PortInv.
LEMMA PortInvStep == PortInv /\ [PerfNext]_vars => PortInv'
<1>1. ASSUME PortInv, UNCHANGED vars PROVE PortInv'
  BY <1>1 DEF vars, PortInv, PerfTypes, PortFits, MulRemembered, UnitsTaken, OnePerPort, long, age
<1>2. ASSUME PortInv, PerfNext PROVE PortInv'
  BY <1>2, StartCycleInv, CommitInv, ExecuteInv, IssueInv, IdleInv DEF PerfNext
<1> QED
  BY <1>1, <1>2

-----------------------------------------------------------------------------
\* perf-model/model.py, FusBusy: whatever the trace, the arguments of Model()
\* and the predictions, no two instructions of the scoreboard finish in one
\* cycle on the same write-back port.
THEOREM OnePerPortAlways == PerfSpec => []OnePerPort
<1>1. PortInv => OnePerPort
  BY DEF PortInv
<1> QED
  BY <1>1, PortInvInit, PortInvStep, PTL DEF PerfSpec

-----------------------------------------------------------------------------
(***************************************************************************)
(* The return stack.                                                       *)
(***************************************************************************)
Addr == {next_addr(i) : i \in InstrSet}

\* s is what c ends with
IsSuffixOf(s, c) ==
  /\ s \in Seq(Addr) /\ c \in Seq(Addr) /\ Len(s) <= Len(c)
  /\ \A k \in 1 .. Len(s) : s[k] = c[Len(c) - Len(s) + k]

\* The stack holds the youngest calls that have not returned; what a return
\* dropped is where the trace goes on.
RasInv ==
  /\ model \in Models
  /\ head \in InstrSet \union {NoInstr}
  /\ DOMAIN ras = {"stack", "last_dropped"} /\ DOMAIN last_issued = {"instr", "age"}
  /\ IsSuffixOf(ras.stack, calls)
  /\ (/\ head # NoInstr /\ last_issued.instr # NoInstr
      /\ is_ret(last_issued.instr) /\ ras.last_dropped # NoInstr) => ras.last_dropped = head.addr

\* All but the last address of a sequence.
LEMMA FrontProperties ==
  ASSUME NEW s \in Seq(Addr), s # << >>
  PROVE  /\ SubSeq(s, 1, Len(s) - 1) \in Seq(Addr) /\ Len(SubSeq(s, 1, Len(s) - 1)) = Len(s) - 1
         /\ \A k \in 1 .. Len(s) - 1 : SubSeq(s, 1, Len(s) - 1)[k] = s[k]
<1> DEFINE n == Len(s) - 1
<1>1. n \in Nat /\ \A i \in 1 .. n : i \in 1 .. Len(s)
  BY EmptySeq, LenProperties
<1>2. \A i \in 1 .. n : s[i] \in Addr
  BY ONLY <1>1, s \in Seq(Addr), ElementOfSeq
<1> HIDE DEF n
<1>3. /\ SubSeq(s, 1, n) \in Seq(Addr) /\ Len(SubSeq(s, 1, n)) = (IF 1 <= n THEN n - 1 + 1 ELSE 0)
      /\ \A i \in 1 .. n - 1 + 1 : SubSeq(s, 1, n)[i] = s[1 + i - 1]
  BY ONLY <1>1, <1>2, SubSeqProperties
<1>4. n - 1 + 1 = n /\ \A i \in 1 .. n : 1 + i - 1 = i
  BY ONLY <1>1
<1>5. Len(SubSeq(s, 1, n)) = n /\ \A i \in 1 .. n : SubSeq(s, 1, n)[i] = s[i]
  BY ONLY <1>1, <1>3, <1>4
<1> QED
  BY <1>3, <1>5 DEF n

\* Both stacks lose their last address.
LEMMA SuffixPop ==
  ASSUME NEW s, NEW c, IsSuffixOf(s, c), s # << >>
  PROVE  /\ c # << >> /\ s[Len(s)] = c[Len(c)]
         /\ IsSuffixOf(SubSeq(s, 1, Len(s) - 1), SubSeq(c, 1, Len(c) - 1))
<1> DEFINE m == Len(s)  n == Len(c)
<1>1. s \in Seq(Addr) /\ c \in Seq(Addr) /\ m \in Nat /\ n \in Nat /\ m > 0 /\ m <= n
  BY EmptySeq, LenProperties DEF IsSuffixOf
<1>2. s[m] = c[n]
  BY <1>1 DEF IsSuffixOf
<1> DEFINE S == SubSeq(s, 1, m - 1)  C == SubSeq(c, 1, n - 1)
<1>3. /\ S \in Seq(Addr) /\ Len(S) = m - 1 /\ \A k \in 1 .. m - 1 : S[k] = s[k]
      /\ C \in Seq(Addr) /\ Len(C) = n - 1 /\ \A k \in 1 .. n - 1 : C[k] = c[k]
  <2>1. c # << >>
    BY <1>1, EmptySeq
  <2> QED
    BY <1>1, <2>1, FrontProperties
<1>4. \A k \in 1 .. m - 1 : s[k] = c[n - m + k] /\ n - m + k \in 1 .. n - 1
  BY <1>1 DEF IsSuffixOf
<1> HIDE DEF S, C
<1>5. Len(S) <= Len(C) /\ \A k \in 1 .. Len(S) : S[k] = C[Len(C) - Len(S) + k]
  <2> HIDE DEF m, n
  <2>1. Len(S) <= Len(C) /\ Len(C) - Len(S) = n - m
    BY ONLY <1>1, <1>3
  <2>2. \A k \in 1 .. Len(S) : S[k] = C[n - m + k]
    BY ONLY <1>1, <1>3, <1>4
  <2> QED
    BY ONLY <2>1, <2>2
<1>6. IsSuffixOf(S, C)
  BY ONLY <1>3, <1>5 DEF IsSuffixOf
<1> QED
  BY <1>1, <1>2, <1>6, EmptySeq DEF S, C

\* The empty stack is what every trace ends with.
LEMMA SuffixEmpty == \A c \in Seq(Addr) : IsSuffixOf(<< >>, c)
  BY EmptySeq, LenProperties DEF IsSuffixOf

\* A call pushes one address on both; a stack that overflows forgets its first.
LEMMA SuffixPush ==
  ASSUME NEW s, NEW c, IsSuffixOf(s, c), NEW a \in Addr
  PROVE  IsSuffixOf(Push(s, a), Append(c, a))
<1> DEFINE m == Len(s)  n == Len(c)  S == Append(s, a)  C == Append(c, a)
<1>1. s \in Seq(Addr) /\ c \in Seq(Addr) /\ m \in Nat /\ n \in Nat /\ m <= n
  BY LenProperties DEF IsSuffixOf
<1>2. /\ S \in Seq(Addr) /\ Len(S) = m + 1 /\ S[m + 1] = a /\ \A k \in 1 .. m : S[k] = s[k]
      /\ C \in Seq(Addr) /\ Len(C) = n + 1 /\ C[n + 1] = a /\ \A k \in 1 .. n : C[k] = c[k]
  BY <1>1, AppendProperties
<1>3. \A k \in 1 .. m : s[k] = c[n - m + k] /\ n - m + k \in 1 .. n
  BY <1>1 DEF IsSuffixOf
<1> HIDE DEF S, C
<1>4. \A k \in 1 .. m + 1 : S[k] = C[n - m + k]
  <2> HIDE DEF m, n
  <2> SUFFICES ASSUME NEW k \in 1 .. m + 1 PROVE S[k] = C[n - m + k]
    OBVIOUS
  <2>1. CASE k = m + 1
    <3>1. n - m + k = n + 1
      BY ONLY <1>1, <2>1
    <3> QED
      BY ONLY <1>2, <2>1, <3>1
  <2>2. CASE k \in 1 .. m
    BY ONLY <1>2, <1>3, <2>2
  <2>3. k = m + 1 \/ k \in 1 .. m
    BY ONLY <1>1, k \in 1 .. m + 1
  <2> QED
    BY <2>1, <2>2, <2>3
<1>5. IsSuffixOf(S, C)
  BY <1>1, <1>2, <1>4 DEF IsSuffixOf
<1>6. /\ Tail(S) \in Seq(Addr) /\ Len(Tail(S)) = m
      /\ \A k \in 1 .. m : Tail(S)[k] = S[k + 1]
  BY <1>1, <1>2, EmptySeq, HeadTailProperties
<1>7. IsSuffixOf(Tail(S), C)
  <2> DEFINE T == Tail(S)
  <2>1. T \in Seq(Addr) /\ Len(T) = m /\ \A k \in 1 .. m : T[k] = S[k + 1]
    BY <1>6
  <2> HIDE DEF T, m, n
  <2>2. \A k \in 1 .. m : k + 1 \in 1 .. m + 1 /\ n - m + (k + 1) = (n + 1) - m + k
    BY ONLY <1>1
  <2>3. Len(T) <= Len(C) /\ \A k \in 1 .. m : T[k] = C[(n + 1) - m + k]
    BY ONLY <1>1, <1>2, <1>4, <2>1, <2>2
  <2>4. IsSuffixOf(T, C)
    BY ONLY <1>2, <2>1, <2>3 DEF IsSuffixOf
  <2> QED
    BY <2>4 DEF T
<1> QED
  BY <1>5, <1>7 DEF Push, S, C

\* RasInv when the model is created.
LEMMA RasInvInit == PerfInit => RasInv
<1> SUFFICES ASSUME PerfInit PROVE RasInv
  OBVIOUS
<1>1. /\ model \in Models /\ head \in InstrSet /\ ras.stack = << >> /\ calls = << >> /\ last_issued.instr = NoInstr
      /\ DOMAIN ras = {"stack", "last_dropped"} /\ DOMAIN last_issued = {"instr", "age"}
  BY DEF PerfInit, InstrSet, NoIssue
<1> QED
  BY <1>1, SuffixEmpty, EmptySeq DEF RasInv

\* An instruction issues: a call pushes, a return drops.
LEMMA IssueRasInv ==
  ASSUME RasInv, Issue
  PROVE  RasInv'
<1>1. /\ UNCHANGED model /\ head # NoInstr /\ head \in InstrSet /\ head' \in Trace(head)
      /\ ras' = RasResolve(head) /\ calls' = CallsAfter(head)
      /\ last_issued'.instr = head /\ DOMAIN last_issued' = {"instr", "age"}
  BY DEF Issue, blocked, RasInv
<1>2. head' \in InstrSet \union {NoInstr} /\ (head' # NoInstr => head' \in Following(head))
  BY <1>1 DEF Trace, Following, InstrSet, RasInv
<1> DEFINE r == IF is_ret(head) THEN Drop(ras) ELSE ras
           c == IF is_ret(head) /\ calls # << >> THEN SubSeq(calls, 1, Len(calls) - 1) ELSE calls
<1>3. IsSuffixOf(ras.stack, calls) /\ calls \in Seq(Addr)
  BY DEF RasInv, IsSuffixOf
<1>4. /\ IsSuffixOf(r.stack, c) /\ DOMAIN r = {"stack", "last_dropped"}
      /\ is_ret(head) /\ r.last_dropped # NoInstr => calls # << >> /\ r.last_dropped = calls[Len(calls)]
  <2>1. CASE ~is_ret(head)
    BY <1>3, <2>1 DEF RasInv
  <2>2. CASE is_ret(head) /\ ras.stack = << >>
    <3>1. r = [ras EXCEPT !.last_dropped = NoInstr]
      BY <2>2 DEF Drop
    <3>2. r.stack = << >> /\ r.last_dropped = NoInstr /\ DOMAIN r = {"stack", "last_dropped"}
      BY <2>2, <3>1 DEF RasInv
    <3>3. c \in Seq(Addr)
      <4>1. CASE calls # << >>
        BY <1>3, <4>1, FrontProperties
      <4> QED
        BY <1>3, <4>1
    <3> QED
      BY <3>1, <3>2, <3>3, SuffixEmpty
  <2>3. CASE is_ret(head) /\ ras.stack # << >>
    <3>1. /\ r.stack = SubSeq(ras.stack, 1, Len(ras.stack) - 1) /\ r.last_dropped = ras.stack[Len(ras.stack)]
          /\ DOMAIN r = {"stack", "last_dropped"}
      BY <2>3 DEF Drop
    <3>2. /\ calls # << >> /\ ras.stack[Len(ras.stack)] = calls[Len(calls)]
          /\ IsSuffixOf(SubSeq(ras.stack, 1, Len(ras.stack) - 1), SubSeq(calls, 1, Len(calls) - 1))
      BY <1>3, <2>3, SuffixPop
    <3> QED
      BY <2>3, <3>1, <3>2
  <2> QED
    BY <2>1, <2>2, <2>3
<1>5. /\ IsSuffixOf(ras'.stack, calls') /\ DOMAIN ras' = {"stack", "last_dropped"}
      /\ ras'.last_dropped = r.last_dropped
  <2>1. next_addr(head) \in Addr
    BY <1>1 DEF Addr
  <2>2. CASE is_call(head)
    <3>1. ras' = [r EXCEPT !.stack = Push(r.stack, next_addr(head))] /\ calls' = Append(c, next_addr(head))
      BY <1>1, <2>2 DEF RasResolve, CallsAfter
    <3> QED
      BY <1>4, <2>1, <3>1, SuffixPush
  <2>3. CASE ~is_call(head)
    BY <1>1, <1>4, <2>3 DEF RasResolve, CallsAfter
  <2> QED
    BY <2>2, <2>3
<1>6. ASSUME head' # NoInstr, is_ret(head), ras'.last_dropped # NoInstr
      PROVE  ras'.last_dropped = head'.addr
  <2>1. calls # << >> /\ ras'.last_dropped = calls[Len(calls)]
    BY <1>4, <1>5, <1>6
  <2>2. Successors(head) = {calls[Len(calls)]}
    BY <1>6, <2>1 DEF Successors, is_ret, is_branch, is_jump
  <2> QED
    BY <1>2, <1>6, <2>1, <2>2 DEF Following
<1> QED
  BY <1>1, <1>2, <1>5, <1>6 DEF RasInv

\* Every step preserves RasInv.
LEMMA RasInvStep == RasInv /\ [PerfNext]_vars => RasInv'
<1>1. ASSUME RasInv, UNCHANGED << model, head, ras, calls, last_issued.instr, DOMAIN last_issued >>
      PROVE  RasInv'
  BY <1>1 DEF RasInv
<1>2. ASSUME RasInv, [PerfNext]_vars, ~Issue
      PROVE  UNCHANGED << model, head, ras, calls, last_issued.instr, DOMAIN last_issued >>
  <2>1. UNCHANGED << model, head, ras, calls >> /\ (UNCHANGED last_issued \/ FetchBlock)
    BY <1>2 DEF PerfNext, vars, StartCycle, Commit, CommitNothing, Execute, IssueNothing, IssueStalls, FetchBlock,
                traceVars, issueVars
  <2>2. CASE FetchBlock
    <3>1. \E n : last_issued' = [last_issued EXCEPT !.age = n]
      BY <2>2 DEF FetchBlock
    <3> QED
      BY <1>2, <2>1, <3>1 DEF RasInv
  <2> QED
    BY <2>1, <2>2
<1> QED
  BY <1>1, <1>2, IssueRasInv

\* perf-model/model.py, Ras: whatever the trace and however deep its calls, an
\* address that a return takes from the stack is where the trace goes on.
THEOREM ReturnsAlwaysPredictedRight == PerfSpec => []ReturnsPredictedRight
<1>1. RasInv => ReturnsPredictedRight
  BY DEF RasInv, ReturnsPredictedRight, bmiss, predict_pc, predict_regjump, is_ret, is_branch
<1> QED
  BY <1>1, RasInvInit, RasInvStep, PTL DEF PerfSpec

-----------------------------------------------------------------------------
(***************************************************************************)
(* The byte counter of the instruction queue.                              *)
(***************************************************************************)
\* A counter value whose remainder is removed stands for whole blocks.
LEMMA TruncateBlocks ==
  ASSUME NEW b \in Int, NEW at \in 0 .. fetch_size - 1, fetch_size \in {4, 8, 16}
  PROVE  Truncate(fetch_size * b - at, 0) = fetch_size * (b - (IF at # 0 THEN 1 ELSE 0))
<1>1. CASE fetch_size = 4
  BY <1>1 DEF Truncate, addr_index
<1>2. CASE fetch_size = 8
  BY <1>2 DEF Truncate, addr_index
<1>3. CASE fetch_size = 16
  BY <1>3 DEF Truncate, addr_index
<1> QED
  BY <1>1, <1>2, <1>3

\* An instruction at address a leaves the counter at the end of it, whether the
\* bytes in front of it are still counted or not.
LEMMA TruncateInstr ==
  ASSUME NEW b \in Int, NEW a \in Nat, NEW s \in {2, 4}, NEW at \in {0, addr_index(a)},
         fetch_size \in {4, 8, 16}
  PROVE  Truncate((fetch_size * b - at) - s, addr_index(a + s))
           = fetch_size * (b - ((addr_index(a) + s) \div fetch_size))
               - ((addr_index(a) + s) % fetch_size)
<1>1. CASE fetch_size = 4
  BY <1>1 DEF Truncate, addr_index
<1>2. CASE fetch_size = 8
  BY <1>2 DEF Truncate, addr_index
<1>3. CASE fetch_size = 16
  BY <1>3 DEF Truncate, addr_index
<1> QED
  BY <1>1, <1>2, <1>3

\* The counter q stands for the queue of blocks f.
Counts(q, f) ==
  /\ q.len = fetch_size * f.blocks - f.at
  /\ f.blocks \in Int /\ f.at \in 0 .. fetch_size - 1

\* A redirection.
LEMMA JumpCounts ==
  ASSUME NEW q, NEW f, Counts(q, f), q.new_fetch \in BOOLEAN, fetch_size \in {4, 8, 16}
  PROVE  Counts(Jump(q), BlocksJump(f, q.new_fetch)) /\ BlocksJump(f, q.new_fetch).at = 0
<1> DEFINE b == f.blocks - (IF q.new_fetch THEN 1 ELSE 0)
           n == IF q.new_fetch THEN q.len - fetch_size ELSE q.len
<1>1. b \in Int /\ n = fetch_size * b - f.at
  <2>1. CASE fetch_size = 4
    BY <2>1 DEF Counts
  <2>2. CASE fetch_size = 8
    BY <2>2 DEF Counts
  <2>3. CASE fetch_size = 16
    BY <2>3 DEF Counts
  <2> QED
    BY <2>1, <2>2, <2>3
<1>2. Jump(q).len = Truncate(n, 0)
  BY DEF Jump
<1>3. /\ BlocksJump(f, q.new_fetch).blocks = b - (IF f.at # 0 THEN 1 ELSE 0)
      /\ BlocksJump(f, q.new_fetch).at = 0
  BY DEF BlocksJump
<1>4. f.at \in 0 .. fetch_size - 1
  BY DEF Counts
<1> HIDE DEF b, n
<1>5. Jump(q).len = fetch_size * (b - (IF f.at # 0 THEN 1 ELSE 0))
  BY <1>1, <1>2, <1>4, TruncateBlocks
<1>6. b - (IF f.at # 0 THEN 1 ELSE 0) \in Int /\ 0 \in 0 .. fetch_size - 1
  BY <1>1
<1>7. \A c \in Int : fetch_size * c = fetch_size * c - 0
  OBVIOUS
<1> QED
  BY <1>3, <1>5, <1>6, <1>7 DEF Counts

\* An instruction of the program.
Regular(i) == i.addr \in Nat /\ i.addr % 2 = 0 /\ i.size \in {2, 4}

\* An instruction leaves the queue.
LEMMA RemoveCounts ==
  ASSUME NEW q, NEW f, Counts(q, f), NEW i, Regular(i),
         f.at \in {0, addr_index(i.addr)}, fetch_size \in {4, 8, 16},
         DOMAIN q = {"len", "new_fetch"}, q.new_fetch \in BOOLEAN
  PROVE  /\ Counts(Remove(q, i), BlocksRemove(f, i, q.new_fetch))
         /\ Remove(q, i).new_fetch \in BOOLEAN /\ DOMAIN Remove(q, i) = {"len", "new_fetch"}
         /\ is_jump(i) => BlocksRemove(f, i, q.new_fetch).at = 0
         /\ ~is_jump(i) => BlocksRemove(f, i, q.new_fetch).at = addr_index(next_addr(i))
<1> DEFINE end == addr_index(i.addr) + i.size
           g == [blocks |-> f.blocks - (end \div fetch_size), at |-> end % fetch_size]
           r == [q EXCEPT !.len = Truncate(q.len - i.size, addr_index(next_addr(i)))]
<1>1. /\ end % fetch_size = addr_index(next_addr(i))
      /\ end % fetch_size \in 0 .. fetch_size - 1 /\ end \div fetch_size \in Int
  <2>1. CASE fetch_size = 4
    BY <2>1 DEF Regular, addr_index, next_addr
  <2>2. CASE fetch_size = 8
    BY <2>2 DEF Regular, addr_index, next_addr
  <2>3. CASE fetch_size = 16
    BY <2>3 DEF Regular, addr_index, next_addr
  <2> QED
    BY <2>1, <2>2, <2>3
<1>2. Truncate(q.len - i.size, addr_index(next_addr(i)))
        = fetch_size * (f.blocks - (end \div fetch_size)) - (end % fetch_size)
  <2>1. /\ f.blocks \in Int /\ i.addr \in Nat /\ i.size \in {2, 4}
        /\ q.len = fetch_size * f.blocks - f.at
    BY DEF Counts, Regular
  <2> HIDE DEF end
  <2>2. Truncate((fetch_size * f.blocks - f.at) - i.size, addr_index(i.addr + i.size))
          = fetch_size * (f.blocks - ((addr_index(i.addr) + i.size) \div fetch_size))
               - ((addr_index(i.addr) + i.size) % fetch_size)
    BY <2>1, TruncateInstr
  <2> QED
    BY <2>1, <2>2, Zenon DEF next_addr, end
<1>3. f.blocks - (end \div fetch_size) \in Int
  BY <1>1 DEF Counts
<1>4. /\ r.len = Truncate(q.len - i.size, addr_index(next_addr(i)))
      /\ r.new_fetch = q.new_fetch /\ DOMAIN r = {"len", "new_fetch"}
  OBVIOUS
<1> HIDE DEF end
<1>5. g.blocks = f.blocks - (end \div fetch_size) /\ g.at = end % fetch_size
  OBVIOUS
<1>6. /\ Remove(q, i) = IF is_jump(i) THEN Jump(r) ELSE r
      /\ BlocksRemove(f, i, q.new_fetch) = IF is_jump(i) THEN BlocksJump(g, q.new_fetch) ELSE g
  BY Zenon DEF Remove, BlocksRemove, end
<1> HIDE DEF g, r
<1>7. Counts(r, g)
  BY <1>1, <1>2, <1>3, <1>4, <1>5 DEF Counts
<1>8. CASE is_jump(i)
  <2>1. Counts(Jump(r), BlocksJump(g, r.new_fetch)) /\ BlocksJump(g, r.new_fetch).at = 0
    BY <1>4, <1>7, JumpCounts
  <2>2. Jump(r).new_fetch = FALSE /\ DOMAIN Jump(r) = {"len", "new_fetch"}
    BY DEF Jump
  <2> QED
    BY <1>4, <1>6, <1>8, <2>1, <2>2
<1>9. CASE ~is_jump(i)
  BY <1>1, <1>4, <1>5, <1>6, <1>7, <1>9
<1> QED
  BY <1>8, <1>9

\* Where an instruction may begin in a block: never at its last byte.
LEMMA EvenRests ==
  ASSUME NEW a \in Nat, a % 2 = 0
  PROVE  /\ a % 4 = 2 \/ a % 4 = 0
         /\ a % 8 = 6 \/ a % 8 \in 0 .. 4
         /\ a % 16 = 14 \/ a % 16 \in 0 .. 12
<1>1. a % 4 = 2 \/ a % 4 = 0
  OBVIOUS
<1>2. a % 8 = 6 \/ a % 8 \in 0 .. 4
  OBVIOUS
<1>3. a % 16 = 14 \/ a % 16 \in 0 .. 12
  <2>1. a % 16 \in 0 .. 15
    OBVIOUS
  <2>2. (a % 16) % 2 = 0
    OBVIOUS
  <2> QED
    BY <2>1, <2>2
<1> QED
  BY <1>1, <1>2, <1>3

\* A counter that stands for the blocks knows whether the instruction is there.
LEMMA CountsHas ==
  ASSUME NEW q, NEW f, Counts(q, f), NEW i, Regular(i),
         f.at \in {0, addr_index(i.addr)}, fetch_size \in {4, 8, 16}
  PROVE  Has(q, i) <=> f.blocks >= BlocksNeeded(i)
<1>1. /\ i.addr \in Nat /\ i.addr % 2 = 0 /\ i.size \in {2, 4}
      /\ q.len = fetch_size * f.blocks - f.at /\ f.blocks \in Int
  BY DEF Regular, Counts
<1> DEFINE x == addr_index(i.addr)
<1>2. x \in Nat /\ (x = fetch_size - 2 \/ x <= fetch_size - 4)
  <2>1. /\ i.addr % 4 = 2 \/ i.addr % 4 = 0
        /\ i.addr % 8 = 6 \/ i.addr % 8 \in 0 .. 4
        /\ i.addr % 16 = 14 \/ i.addr % 16 \in 0 .. 12
    BY <1>1, EvenRests
  <2>2. x = i.addr % fetch_size
    BY DEF addr_index
  <2> HIDE DEF x
  <2>3. CASE fetch_size = 4
    BY <2>1, <2>2, <2>3
  <2>4. CASE fetch_size = 8
    BY <2>1, <2>2, <2>4
  <2>5. CASE fetch_size = 16
    BY <2>1, <2>2, <2>5
  <2> QED
    BY <2>3, <2>4, <2>5
<1>3. Has(q, i) <=> q.len - (IF x = fetch_size - 2 /\ i.size = 4 THEN fetch_size - 2 ELSE 0) >= i.size
  BY DEF Has, is_crossword
<1>4. BlocksNeeded(i) = IF x = fetch_size - 2 /\ i.size = 4 THEN 2 ELSE 1
  BY DEF BlocksNeeded, is_crossword
<1>5. f.at = 0 \/ f.at = x
  OBVIOUS
<1> HIDE DEF x
<1>6. CASE fetch_size = 4
  BY <1>1, <1>2, <1>3, <1>4, <1>5, <1>6
<1>7. CASE fetch_size = 8
  BY <1>1, <1>2, <1>3, <1>4, <1>5, <1>7
<1>8. CASE fetch_size = 16
  BY <1>1, <1>2, <1>3, <1>4, <1>5, <1>8
<1> QED
  BY <1>6, <1>7, <1>8

\* The fetch blocks have 4, 8 or 16 bytes.
LEMMA FetchSize ==
  ASSUME model \in Models
  PROVE  fetch_size \in {4, 8, 16}
<1> DEFINE s == model.fetch_size
<1>1. s \in 0 .. 16
  BY ReplayAssumption
<1>2. \E n \in {4, 8, 16} : n >= s /\ \A m \in {4, 8, 16} : m >= s => n <= m
  <2>1. CASE s <= 4
    BY <1>1, <2>1
  <2>2. CASE s > 4 /\ s <= 8
    BY <1>1, <2>2
  <2>3. CASE s > 8
    BY <1>1, <2>3
  <2> QED
    BY <1>1, <2>1, <2>2, <2>3
<1> QED
  BY <1>2, Zenon DEF fetch_size

-----------------------------------------------------------------------------
(***************************************************************************)
(* The scoreboard passes: whoever issues after a jump finds a place in it  *)
(* before the penalty of a wrong prediction is over.                       *)
(***************************************************************************)
\* The last instruction that issued is as old as the entries below, except
\* that they have not been executed yet in the cycle that runs.
lag == IF phase \in {"issue", "fetch"} THEN 0 ELSE 1

Settled(e) ==
  /\ e.done <=> age(e) >= duration(e.instr)
  /\ age(e) >= last_issued.age - lag

\* The trace has left the straight line, and try_issue has not looked back yet
\* at the prediction.
Pending ==
  predicted /\ events = {} /\ head.addr # next_addr(last_issued.instr)

\* It looks back as soon as the scoreboard has a place, and the scoreboard has
\* one in the third cycle: by then its oldest instruction is done.
Young ==
  /\ last_issued.age <= 3
  /\ phase = "fetch" => last_issued.age <= 2
  /\ (/\ last_issued.age = 3
      /\ phase \in {"execute", "issue"} \/ (phase = "commit" /\ port > 0))
       => Len(scoreboard) < model.sb_len

BoardInv ==
  /\ port \in Nat /\ last_issued.age \in Nat /\ DOMAIN last_issued = {"instr", "age"}
  /\ Len(scoreboard) <= model.sb_len
  /\ \A k \in DOMAIN scoreboard : Settled(scoreboard[k])
  /\ head # NoInstr /\ Pending => Young

\* What the arguments of Model() are.
LEMMA Arguments ==
  ASSUME PortInv
  PROVE  /\ {model.issue, model.commit, model.sb_len} \subseteq Nat \ {0}
         /\ Len(scoreboard) \in Nat
         /\ \A k \in DOMAIN scoreboard : scoreboard[k].cycles_since_issue \in Nat /\ scoreboard[k] \in Entry
<1>1. model \in Models /\ scoreboard \in Seq(Entry)
  BY DEF PortInv, PerfTypes
<1>2. {model.issue, model.commit, model.sb_len} \subseteq Nat \ {0}
  BY <1>1, ReplayAssumption
<1>3. Len(scoreboard) \in Nat /\ \A k \in DOMAIN scoreboard : scoreboard[k] \in Entry
  BY ONLY <1>1, ElementOfSeq, LenProperties
<1> QED
  BY ONLY <1>2, <1>3 DEF Entry

\* The scoreboard of a new model is empty.
LEMMA BoardInit == PerfInit => PortInv /\ BoardInv
<1> SUFFICES ASSUME PerfInit PROVE BoardInv
  BY PortInvInit
<1>1. scoreboard = << >> /\ DOMAIN scoreboard = {} /\ Len(scoreboard) = 0
  BY DEF PerfInit
<1>2. model.sb_len \in Nat
  BY PortInvInit, Arguments
<1>3. last_issued.age = 0 /\ DOMAIN last_issued = {"instr", "age"} /\ port = 0 /\ phase = "cycle"
  BY DEF PerfInit, NoIssue
<1> QED
  BY <1>1, <1>2, <1>3 DEF BoardInv, Young

\* The cycle begins.
LEMMA StartCycleBoard ==
  ASSUME PortInv, BoardInv, StartCycle
  PROVE  BoardInv'
<1>1. /\ phase = "cycle" /\ phase' = "commit" /\ port' = 0
      /\ UNCHANGED << model, scoreboard, head, events, last_issued >>
  BY DEF StartCycle, traceVars, issueVars
<1>2. Pending' = Pending
  BY <1>1 DEF Pending, predicted
<1>3. head # NoInstr /\ Pending => last_issued.age <= 3
  BY DEF BoardInv, Young
<1> QED
  BY <1>1, <1>2, <1>3 DEF BoardInv, Young, Settled, lag, age

\* The oldest instruction retires, if it is done; in the third cycle it is.
LEMMA CommitBoard ==
  ASSUME PortInv, BoardInv, Commit \/ CommitNothing
  PROVE  BoardInv'
<1>1. /\ phase = "commit" /\ UNCHANGED << model, head, events, last_issued >>
      /\ \/ can_commit /\ scoreboard' = Tail(scoreboard)
         \/ ~can_commit /\ scoreboard' = scoreboard
      /\ \/ phase' = "commit" /\ port' = port + 1
         \/ phase' = "execute" /\ port' = 0
  BY DEF Commit, CommitNothing, NextPort, traceVars, issueVars
<1>2. /\ scoreboard \in Seq(Entry) /\ model.sb_len \in Nat \ {0} /\ Len(scoreboard) \in Nat
      /\ port \in Nat /\ last_issued.age \in Nat
  BY Arguments DEF PortInv, PerfTypes, BoardInv
<1>3. /\ Len(scoreboard') <= model.sb_len
      /\ can_commit => Len(scoreboard') < model.sb_len
      /\ \A k \in DOMAIN scoreboard' : \E j \in DOMAIN scoreboard : scoreboard'[k] = scoreboard[j]
  <2>1. Len(scoreboard) <= model.sb_len
    BY DEF BoardInv
  <2>2. CASE can_commit /\ scoreboard' = Tail(scoreboard)
    <3>1. scoreboard # << >>
      BY <2>2 DEF can_commit
    <3>2. /\ Len(Tail(scoreboard)) = Len(scoreboard) - 1
          /\ \A k \in 1 .. Len(Tail(scoreboard)) : Tail(scoreboard)[k] = scoreboard[k + 1]
          /\ Tail(scoreboard) \in Seq(Entry)
      BY <1>2, <3>1, HeadTailProperties
    <3>3. DOMAIN scoreboard' = 1 .. Len(scoreboard) - 1 /\ DOMAIN scoreboard = 1 .. Len(scoreboard)
      BY <1>2, <2>2, <3>2, LenProperties
    <3>4. \A k \in 1 .. Len(scoreboard) - 1 : k + 1 \in 1 .. Len(scoreboard)
      BY <1>2
    <3>5. \A k \in DOMAIN scoreboard' : scoreboard'[k] = scoreboard[k + 1]
      BY <2>2, <3>2, <3>3
    <3>6. Len(scoreboard') < model.sb_len
      BY ONLY <1>2, <2>1, <2>2, <3>2
    <3> QED
      BY <1>2, <3>3, <3>4, <3>5, <3>6
  <2>3. CASE ~can_commit /\ scoreboard' = scoreboard
    BY <2>1, <2>3
  <2> QED
    BY <1>1, <2>2, <2>3
<1>4. \A k \in DOMAIN scoreboard' : Settled(scoreboard[k])'
  <2> SUFFICES ASSUME NEW k \in DOMAIN scoreboard' PROVE Settled(scoreboard[k])'
    OBVIOUS
  <2>1. PICK j \in DOMAIN scoreboard : scoreboard'[k] = scoreboard[j]
    BY <1>3
  <2>2. Settled(scoreboard[j])
    BY DEF BoardInv
  <2>3. lag' = lag
    BY <1>1 DEF lag
  <2> QED
    BY <1>1, <2>1, <2>2, <2>3 DEF Settled, age
<1>5. ASSUME head # NoInstr, Pending
      PROVE  Young'
  <2>1. Young
    BY <1>5 DEF BoardInv
  <2>2. CASE can_commit
    BY <1>1, <1>3, <2>1, <2>2 DEF Young
  <2>3. CASE ~can_commit /\ port > 0
    BY <1>1, <1>2, <2>1, <2>3 DEF Young
  <2>4. CASE ~can_commit /\ port = 0
    <3>1. CASE last_issued.age = 3
      <4>1. CASE scoreboard = << >>
        BY <1>1, <1>2, <2>1, <2>4, <4>1 DEF Young
      <4>2. CASE scoreboard # << >>
        <5>1. 1 \in DOMAIN scoreboard /\ Head(scoreboard) = scoreboard[1]
          BY <1>2, <4>2, EmptySeq, LenProperties
        <5>2. Settled(scoreboard[1]) /\ lag = 1 /\ scoreboard[1].cycles_since_issue \in Nat
          BY <1>1, <5>1, Arguments DEF BoardInv, lag
        <5>3. scoreboard[1].cycles_since_issue >= 2
          BY <3>1, <5>2 DEF Settled, age
        <5>4. scoreboard[1].done
          BY <5>2, <5>3, Durations DEF Settled, age
        <5> QED
          BY <2>4, <4>2, <5>1, <5>4 DEF can_commit
      <4> QED
        BY <4>1, <4>2
    <3>2. CASE last_issued.age # 3
      BY <1>1, <2>1, <3>2 DEF Young
    <3> QED
      BY <3>1, <3>2
  <2> QED
    BY <1>2, <2>2, <2>3, <2>4
<1>6. Pending' = Pending /\ port' \in Nat
  BY <1>1, <1>2 DEF Pending, predicted
<1> QED
  BY <1>1, <1>3, <1>4, <1>5, <1>6 DEF BoardInv

\* Everything in the scoreboard is executed for a cycle.
LEMMA ExecuteBoard ==
  ASSUME PortInv, BoardInv, Execute
  PROVE  BoardInv'
<1>1. /\ phase = "execute" /\ phase' = "issue" /\ port' = 0
      /\ UNCHANGED << model, head, events, last_issued >>
  BY DEF Execute, traceVars, issueVars
<1>2. /\ DOMAIN scoreboard' = DOMAIN scoreboard
      /\ \A k \in DOMAIN scoreboard :
           /\ scoreboard'[k].instr = scoreboard[k].instr
           /\ scoreboard'[k].cycles_since_issue = scoreboard[k].cycles_since_issue + 1
           /\ scoreboard'[k].done <=>
                scoreboard[k].done \/ scoreboard[k].cycles_since_issue + 1 = duration(scoreboard[k].instr)
  <2>1. /\ DOMAIN scoreboard' = DOMAIN scoreboard
        /\ \A k \in DOMAIN scoreboard :
             scoreboard'[k] = [scoreboard[k] EXCEPT
               !.cycles_since_issue = scoreboard[k].cycles_since_issue + 1,
               !.done = scoreboard[k].done
                          \/ scoreboard[k].cycles_since_issue + 1 = duration(scoreboard[k].instr)]
    BY DEF Execute
  <2>2. \A k \in DOMAIN scoreboard : scoreboard[k] \in Entry
    BY Arguments
  <2> SUFFICES ASSUME NEW k \in DOMAIN scoreboard
               PROVE  /\ scoreboard'[k].instr = scoreboard[k].instr
                      /\ scoreboard'[k].cycles_since_issue = scoreboard[k].cycles_since_issue + 1
                      /\ scoreboard'[k].done <=>
                           scoreboard[k].done
                             \/ scoreboard[k].cycles_since_issue + 1 = duration(scoreboard[k].instr)
    BY <2>1
  <2> DEFINE e == scoreboard[k]
  <2>3. /\ scoreboard'[k] = [e EXCEPT !.cycles_since_issue = e.cycles_since_issue + 1,
                                      !.done = e.done \/ e.cycles_since_issue + 1 = duration(e.instr)]
        /\ e \in Entry
    BY <2>1, <2>2
  <2> HIDE DEF e
  <2>4. /\ scoreboard'[k].instr = e.instr /\ scoreboard'[k].cycles_since_issue = e.cycles_since_issue + 1
        /\ scoreboard'[k].done <=> e.done \/ e.cycles_since_issue + 1 = duration(e.instr)
    BY ONLY <2>3 DEF Entry
  <2> QED
    BY <2>4 DEF e
<1>3. \A k \in DOMAIN scoreboard' : Settled(scoreboard[k])'
  <2> SUFFICES ASSUME NEW k \in DOMAIN scoreboard' PROVE Settled(scoreboard[k])'
    OBVIOUS
  <2> DEFINE c == scoreboard[k].cycles_since_issue
             d == duration(scoreboard[k].instr)
  <2>1. Settled(scoreboard[k]) /\ c \in Nat /\ lag = 1 /\ lag' = 0 /\ last_issued.age \in Nat
    BY <1>1, <1>2, Arguments DEF BoardInv, lag
  <2>2. /\ scoreboard[k].done <=> c >= d
        /\ c >= last_issued.age - 1 /\ d \in Nat
    BY <2>1, Durations DEF Settled, age
  <2>3. /\ scoreboard'[k].cycles_since_issue = c + 1 /\ duration(scoreboard'[k].instr) = d
        /\ scoreboard'[k].done <=> scoreboard[k].done \/ c + 1 = d
    BY <1>2
  <2> HIDE DEF c, d
  <2>4. c + 1 >= last_issued.age - 0 /\ (scoreboard'[k].done <=> c + 1 >= d)
    BY <2>1, <2>2, <2>3
  <2> QED
    BY <1>1, <2>1, <2>3, <2>4 DEF Settled, age
<1>4. Len(scoreboard') = Len(scoreboard)
  <2>1. scoreboard' \in Seq(Entry) /\ scoreboard \in Seq(Entry)
    BY ExecuteInv DEF PortInv, PerfTypes
  <2> QED
    BY ONLY <1>2, <2>1, LenProperties
<1>5. Pending' = Pending
  BY <1>1 DEF Pending, predicted
<1> QED
  BY <1>1, <1>3, <1>4, <1>5 DEF BoardInv, Young

\* Nothing issues: a prediction that has been looked back at is not pending,
\* and one that has not was kept from it by a full scoreboard.
LEMMA IdleBoard ==
  ASSUME PortInv, BoardInv, IssueNothing \/ IssueStalls
  PROVE  BoardInv' /\ (IssueStalls => ~Pending')
<1>1. /\ phase = "issue" /\ UNCHANGED << model, scoreboard, head, last_issued >>
      /\ \/ phase' = "issue" /\ port' = port + 1
         \/ phase' = "fetch" /\ port' = 0
      /\ IssueNothing => blocked /\ UNCHANGED events
      /\ IssueStalls => events' = events \union outcome
  BY DEF IssueNothing, IssueStalls, NextPort, traceVars, issueVars
<1>2. IssueStalls => ~Pending'
  <2> SUFFICES ASSUME IssueStalls, Pending' PROVE FALSE
    OBVIOUS
  <2>1. predicted' = predicted /\ predicted'
    BY <1>1 DEF Pending, predicted
  <2>2. outcome # {}
    BY <2>1 DEF outcome
  <2> QED
    BY <1>1, <2>2 DEF Pending
<1>3. ASSUME head # NoInstr, IssueNothing, Pending'
      PROVE  Young'
  <2>1. Young
    BY <1>1, <1>3 DEF BoardInv, Pending, predicted
  <2>2. Len(scoreboard) >= model.sb_len
    BY <1>1, <1>3 DEF blocked
  <2>3. last_issued.age # 3
    BY <1>1, <2>1, <2>2, Arguments DEF Young
  <2>4. last_issued.age <= 2
    BY <2>1, <2>3 DEF Young, BoardInv
  <2> QED
    BY <1>1, <2>4 DEF Young, BoardInv
<1>4. lag' = lag /\ port' \in Nat
  BY <1>1 DEF lag, BoardInv
<1> QED
  BY <1>1, <1>2, <1>3, <1>4 DEF BoardInv, Settled, age

\* A cycle ends.
LEMMA FetchBoard ==
  ASSUME PortInv, BoardInv, FetchBlock
  PROVE  BoardInv'
<1>1. /\ phase = "fetch" /\ phase' = "cycle" /\ port' = 0
      /\ UNCHANGED << model, scoreboard, head, events >>
      /\ last_issued' = [last_issued EXCEPT !.age = IF last_issued.age < Resolved
                                                    THEN last_issued.age + 1 ELSE last_issued.age]
  BY DEF FetchBlock, traceVars
<1>2. /\ last_issued'.instr = last_issued.instr /\ DOMAIN last_issued' = {"instr", "age"}
      /\ last_issued'.age \in Nat /\ last_issued'.age <= last_issued.age + 1
  BY <1>1 DEF BoardInv, Resolved
<1>3. Pending' = Pending
  BY <1>1, <1>2 DEF Pending, predicted
<1>4. lag = 0 /\ lag' = 1
  BY <1>1 DEF lag
<1>5. \A k \in DOMAIN scoreboard' : Settled(scoreboard[k])'
  <2> SUFFICES ASSUME NEW k \in DOMAIN scoreboard PROVE Settled(scoreboard[k])'
    BY <1>1
  <2>1. Settled(scoreboard[k]) /\ scoreboard[k].cycles_since_issue \in Nat /\ last_issued.age \in Nat
    BY Arguments DEF BoardInv
  <2>2. scoreboard[k].cycles_since_issue >= last_issued'.age - 1
    BY <1>2, <1>4, <2>1 DEF Settled, age
  <2> QED
    BY <1>1, <1>4, <2>1, <2>2 DEF Settled, age
<1>6. head # NoInstr /\ Pending => last_issued'.age <= 3
  BY <1>1, <1>2 DEF BoardInv, Young
<1> QED
  BY <1>1, <1>2, <1>3, <1>5, <1>6 DEF BoardInv, Young

\* An instruction issues: its own age is what counts from now on.
LEMMA IssueBoard ==
  ASSUME PortInv, BoardInv, Issue
  PROVE  BoardInv'
<1> DEFINE new == [instr |-> head, done |-> FALSE, cycles_since_issue |-> 0, wb |-> WbPort(head)]
<1>1. /\ phase = "issue" /\ UNCHANGED model /\ last_issued' = [instr |-> head, age |-> 0]
      /\ \/ phase' = "issue" /\ port' = port + 1
         \/ phase' = "fetch" /\ port' = 0
      /\ scoreboard' = Append(scoreboard, new) /\ ~blocked /\ head \in InstrSet
  BY DEF Issue, NextPort, blocked, PortInv, PerfTypes
<1>2. new \in Entry /\ scoreboard \in Seq(Entry)
  BY <1>1 DEF Entry, WbPort, Ports, PortInv, PerfTypes
<1>3. new.instr = head /\ new.done = FALSE /\ new.cycles_since_issue = 0
  OBVIOUS
<1>4. last_issued'.age = 0 /\ DOMAIN last_issued' = {"instr", "age"} /\ port' \in Nat /\ lag = 0 /\ lag' = 0
  BY <1>1 DEF BoardInv, lag
<1> HIDE DEF new
<1>5. /\ Len(scoreboard') = Len(scoreboard) + 1
      /\ \A k \in DOMAIN scoreboard' : scoreboard'[k] = new \/ (k \in DOMAIN scoreboard /\ scoreboard'[k] = scoreboard[k])
  BY <1>1, <1>2, AppendProperties
<1>6. Len(scoreboard') <= model.sb_len
  <2>1. ~(Len(scoreboard) >= model.sb_len)
    BY <1>1 DEF blocked
  <2> QED
    BY <1>5, <2>1, Arguments
<1>7. \A k \in DOMAIN scoreboard' : Settled(scoreboard[k])'
  <2> SUFFICES ASSUME NEW k \in DOMAIN scoreboard' PROVE Settled(scoreboard[k])'
    OBVIOUS
  <2>1. CASE scoreboard'[k] = new
    <3>1. ~(0 >= duration(head))
      BY Durations
    <3> QED
      BY <1>3, <1>4, <2>1, <3>1 DEF Settled, age
  <2>2. CASE k \in DOMAIN scoreboard /\ scoreboard'[k] = scoreboard[k]
    <3>1. Settled(scoreboard[k]) /\ scoreboard[k].cycles_since_issue \in Nat
      BY <2>2, Arguments DEF BoardInv
    <3> QED
      BY <1>4, <2>2, <3>1 DEF Settled, age
  <2> QED
    BY <1>5, <2>1, <2>2
<1> QED
  BY <1>1, <1>4, <1>6, <1>7 DEF BoardInv, Young

-----------------------------------------------------------------------------
(***************************************************************************)
(* The counter stands for the blocks, after whatever sequence of fetches,  *)
(* redirections and instructions.                                          *)
(***************************************************************************)
\* The blocks are consumed up to the next instruction, or not at all.
Aligned == fetched.at \in {0, addr_index(head.addr)}

QueueInv ==
  /\ Counts(iq, fetched)
  /\ iq.new_fetch \in BOOLEAN /\ DOMAIN iq = {"len", "new_fetch"}
  /\ DOMAIN fetched = {"blocks", "at"}
  /\ head # NoInstr => Aligned \/ Pending

HasInv == PortInv /\ BoardInv /\ QueueInv

\* What does not change with the model.
LEMMA SameSize ==
  ASSUME model' = model
  PROVE  fetch_size' = fetch_size /\ \A a : addr_index(a)' = addr_index(a)
  BY DEF fetch_size, addr_index

\* When an instruction may issue, the last prediction has been looked back at:
\* the queue has been flushed or redirected, or goes straight on.
LEMMA Managed ==
  ASSUME HasInv, phase = "issue", ~blocked
  PROVE  /\ Regular(head)
         /\ Counts(iq_managed, fetched_managed)
         /\ fetched_managed.at \in {0, addr_index(head.addr)}
         /\ iq_managed.new_fetch \in BOOLEAN /\ DOMAIN iq_managed = {"len", "new_fetch"}
         /\ DOMAIN fetched_managed = {"blocks", "at"}
<1>1. head # NoInstr /\ model \in Models /\ head \in InstrSet /\ fetch_size \in {4, 8, 16}
  BY FetchSize DEF HasInv, PortInv, PerfTypes, blocked
<1>2. Regular(head)
  BY <1>1, ReplayAssumption DEF InstrSet, Regular
<1>3. /\ Counts(iq, fetched) /\ iq.new_fetch \in BOOLEAN /\ DOMAIN iq = {"len", "new_fetch"}
      /\ DOMAIN fetched = {"blocks", "at"}
      /\ Aligned \/ Pending
  BY <1>1 DEF HasInv, QueueInv
<1>4. CASE flushes
  <2>1. iq_managed = [len |-> 0, new_fetch |-> FALSE] /\ fetched_managed = [blocks |-> 0, at |-> 0]
    <3>1. ~jumps
      BY <1>4 DEF flushes, jumps
    <3> QED
      BY <1>4, <3>1 DEF iq_managed, fetched_managed, Flush, BlocksFlush
  <2>2. iq_managed.len = 0 /\ fetched_managed.blocks = 0 /\ fetched_managed.at = 0
    BY <2>1
  <2>3. Counts(iq_managed, fetched_managed)
    BY <1>1, <2>2 DEF Counts
  <2> QED
    BY <1>2, <2>1, <2>3
<1>5. CASE ~flushes /\ jumps
  <2>1. iq_managed = Jump(iq) /\ fetched_managed = BlocksJump(fetched, iq.new_fetch)
    BY <1>5 DEF iq_managed, fetched_managed
  <2>2. Counts(iq_managed, fetched_managed) /\ fetched_managed.at = 0
    BY <1>1, <1>3, <2>1, JumpCounts
  <2>3. Jump(iq).new_fetch = FALSE /\ DOMAIN Jump(iq) = {"len", "new_fetch"}
    BY DEF Jump
  <2>4. DOMAIN BlocksJump(fetched, iq.new_fetch) = {"blocks", "at"}
    BY DEF BlocksJump
  <2> QED
    BY <1>2, <2>1, <2>2, <2>3, <2>4
<1>6. CASE ~flushes /\ ~jumps
  <2>1. iq_managed = iq /\ fetched_managed = fetched
    BY <1>6 DEF iq_managed, fetched_managed
  <2>2. ~Pending
    <3> SUFFICES ASSUME Pending PROVE FALSE
      OBVIOUS
    <3>1. last_issued.age <= 3 /\ last_issued.age \in Nat
      BY <1>1 DEF HasInv, BoardInv, Young
    <3>2. last_issued.age < Resolved
      BY <3>1 DEF Resolved
    <3> QED
      BY <1>6, <3>2 DEF flushes, jumps, Pending
  <2> QED
    BY <1>2, <1>3, <2>1, <2>2 DEF Aligned
<1> QED
  BY <1>4, <1>5, <1>6

\* Where the trace goes on: straight, or behind a jump the queue has followed,
\* or where a prediction will be looked back at.
LEMMA Onward ==
  ASSUME NEW i, NEW j \in Following(i)
  PROVE  is_jump(i) \/ j.addr = next_addr(i) \/ is_branch(i) \/ is_regjump(i)
<1>1. j.addr \in Successors(i)
  BY DEF Following
<1>2. CASE ~(is_jump(i) \/ is_branch(i) \/ is_regjump(i))
  <2>1. ~is_ret(i) /\ ~is_call(i)
    BY <1>2 DEF is_jump, is_branch, is_regjump, is_ret, is_call
  <2>2. Successors(i) = {next_addr(i)}
    BY <1>2, <2>1 DEF Successors
  <2> QED
    BY <1>1, <2>2
<1> QED
  BY <1>2

\* HasInv when the model is created.
LEMMA HasInit == PerfInit => HasInv
<1> SUFFICES ASSUME PerfInit PROVE QueueInv
  BY BoardInit DEF HasInv
<1>1. /\ iq.len = fetch_size /\ iq.new_fetch = TRUE /\ DOMAIN iq = {"len", "new_fetch"}
      /\ fetched.blocks = 1 /\ fetched.at = 0 /\ DOMAIN fetched = {"blocks", "at"}
      /\ fetch_size \in {4, 8, 16}
  BY FetchSize DEF PerfInit
<1>2. fetch_size = fetch_size * 1 - 0 /\ 0 \in 0 .. fetch_size - 1
  BY <1>1
<1>3. Counts(iq, fetched)
  BY <1>1, <1>2 DEF Counts
<1>4. Aligned
  BY <1>1 DEF Aligned
<1> QED
  BY <1>1, <1>3, <1>4 DEF QueueInv

\* Nothing but the queue and the trace matters.
LEMMA QueueKept ==
  ASSUME QueueInv, UNCHANGED << model, iq, fetched, head, events, last_issued >>
  PROVE  QueueInv'
<1>1. fetch_size' = fetch_size /\ addr_index(head.addr)' = addr_index(head.addr)
  BY DEF fetch_size, addr_index
<1>2. Counts(iq, fetched)' /\ (Aligned' <=> Aligned) /\ (Pending' <=> Pending)
  BY <1>1 DEF Counts, QueueInv, Aligned, Pending, predicted
<1> QED
  BY <1>2 DEF QueueInv

\* A block arrives.
LEMMA FetchQueue ==
  ASSUME HasInv, FetchBlock
  PROVE  QueueInv'
<1>1. /\ iq' = [len |-> iq.len + fetch_size, new_fetch |-> TRUE]
      /\ fetched' = [fetched EXCEPT !.blocks = fetched.blocks + 1]
      /\ UNCHANGED << model, head, events >>
      /\ \E n : last_issued' = [last_issued EXCEPT !.age = n]
  BY DEF FetchBlock, Fetch, traceVars
<1>2. Counts(iq, fetched) /\ DOMAIN fetched = {"blocks", "at"} /\ fetch_size \in {4, 8, 16}
  BY FetchSize DEF HasInv, QueueInv, PortInv, PerfTypes
<1>3. /\ iq'.len = iq.len + fetch_size /\ iq'.new_fetch = TRUE /\ DOMAIN iq' = {"len", "new_fetch"}
      /\ fetched'.blocks = fetched.blocks + 1 /\ fetched'.at = fetched.at /\ DOMAIN fetched' = {"blocks", "at"}
  BY <1>1, <1>2
<1>4. fetch_size' = fetch_size /\ addr_index(head.addr)' = addr_index(head.addr)
  BY <1>1 DEF fetch_size, addr_index
<1>5. iq.len + fetch_size = fetch_size * (fetched.blocks + 1) - fetched.at
  <2>1. CASE fetch_size = 4
    BY <1>2, <2>1 DEF Counts
  <2>2. CASE fetch_size = 8
    BY <1>2, <2>2 DEF Counts
  <2>3. CASE fetch_size = 16
    BY <1>2, <2>3 DEF Counts
  <2> QED
    BY <1>2, <2>1, <2>2, <2>3
<1>6. Counts(iq, fetched)'
  BY <1>2, <1>3, <1>4, <1>5 DEF Counts
<1>7. last_issued'.instr = last_issued.instr
  BY <1>1 DEF HasInv, BoardInv
<1>8. (Aligned' <=> Aligned) /\ (Pending' <=> Pending)
  BY <1>1, <1>3, <1>4, <1>7 DEF Aligned, Pending, predicted
<1> QED
  BY <1>1, <1>3, <1>6, <1>8 DEF HasInv, QueueInv

\* The next instruction stays, the last prediction has been looked back at.
LEMMA StallQueue ==
  ASSUME HasInv, IssueStalls
  PROVE  QueueInv'
<1>1. /\ phase = "issue" /\ ~blocked /\ iq' = iq_managed /\ fetched' = fetched_managed
      /\ UNCHANGED << model, head >>
  BY DEF IssueStalls
<1>2. fetch_size' = fetch_size /\ addr_index(head.addr)' = addr_index(head.addr)
  BY <1>1 DEF fetch_size, addr_index
<1>3. /\ Counts(iq_managed, fetched_managed) /\ fetched_managed.at \in {0, addr_index(head.addr)}
      /\ iq_managed.new_fetch \in BOOLEAN /\ DOMAIN iq_managed = {"len", "new_fetch"}
      /\ DOMAIN fetched_managed = {"blocks", "at"}
  BY <1>1, Managed
<1>4. Counts(iq, fetched)' /\ Aligned'
  BY <1>1, <1>2, <1>3 DEF Counts, Aligned
<1> QED
  BY <1>1, <1>3, <1>4 DEF QueueInv

\* The next instruction leaves.
LEMMA IssueQueue ==
  ASSUME HasInv, Issue
  PROVE  QueueInv'
<1>1. /\ phase = "issue" /\ ~blocked /\ iq' = Remove(iq_managed, head) /\ events' = {}
      /\ fetched' = BlocksRemove(fetched_managed, head, iq_managed.new_fetch)
      /\ UNCHANGED model /\ last_issued'.instr = head /\ head' \in Trace(head) /\ head # NoInstr
  BY DEF Issue, blocked
<1>2. fetch_size' = fetch_size /\ addr_index(head.addr)' = addr_index(head'.addr)
  BY <1>1 DEF fetch_size, addr_index
<1>3. /\ Regular(head) /\ Counts(iq_managed, fetched_managed)
      /\ fetched_managed.at \in {0, addr_index(head.addr)}
      /\ iq_managed.new_fetch \in BOOLEAN /\ DOMAIN iq_managed = {"len", "new_fetch"}
      /\ fetch_size \in {4, 8, 16}
  BY <1>1, Managed, FetchSize DEF HasInv, PortInv, PerfTypes
<1>4. /\ Counts(iq', fetched')
      /\ iq'.new_fetch \in BOOLEAN /\ DOMAIN iq' = {"len", "new_fetch"}
      /\ is_jump(head) => fetched'.at = 0
      /\ ~is_jump(head) => fetched'.at = addr_index(next_addr(head))
  BY <1>1, <1>3, RemoveCounts
<1>5. DOMAIN fetched' = {"blocks", "at"}
  BY <1>1 DEF BlocksRemove, BlocksJump
<1>6. Counts(iq, fetched)'
  BY <1>2, <1>4 DEF Counts
<1>7. ASSUME head' # NoInstr, ~is_jump(head), head'.addr # next_addr(head)
      PROVE  Pending'
  <2>1. head' \in Following(head)
    BY <1>1, <1>7 DEF Trace
  <2>2. is_branch(head) \/ is_regjump(head)
    BY <1>7, <2>1, Onward
  <2> QED
    BY <1>1, <1>7, <2>2 DEF Pending, predicted
<1>8. head' # NoInstr => Aligned' \/ Pending'
  <2>1. CASE is_jump(head)
    BY <1>4, <2>1 DEF Aligned
  <2>2. CASE ~is_jump(head) /\ head'.addr = next_addr(head)
    <3>1. fetched'.at = addr_index(head.addr)'
      BY <1>2, <1>4, <2>2
    <3> QED
      BY <3>1 DEF Aligned
  <2> QED
    BY <1>7, <2>1, <2>2
<1> QED
  BY <1>4, <1>5, <1>6, <1>8 DEF QueueInv

\* Every step preserves HasInv.
LEMMA HasStep == HasInv /\ [PerfNext]_vars => HasInv'
<1>1. ASSUME HasInv, UNCHANGED vars
      PROVE  HasInv'
  <2>1. PortInv' /\ QueueInv'
    BY <1>1, PortInvStep, QueueKept DEF HasInv, vars
  <2>2. BoardInv'
    BY <1>1 DEF HasInv, BoardInv, Young, Settled, lag, age, Pending, predicted, vars
  <2> QED
    BY <2>1, <2>2 DEF HasInv
<1>2. ASSUME HasInv, PerfNext
      PROVE  HasInv'
  <2>1. PortInv' /\ PortInv /\ BoardInv /\ QueueInv
    BY <1>2, PortInvStep DEF HasInv
  <2>2. BoardInv'
    BY <1>2, <2>1, StartCycleBoard, CommitBoard, ExecuteBoard, IdleBoard, FetchBoard, IssueBoard DEF PerfNext
  <2>3. CASE StartCycle \/ Commit \/ CommitNothing \/ Execute \/ IssueNothing
    <3>1. UNCHANGED << model, iq, fetched, head, events, last_issued >>
      BY <2>3 DEF StartCycle, Commit, CommitNothing, Execute, IssueNothing, traceVars, issueVars
    <3> QED
      BY <2>1, <2>2, <3>1, QueueKept DEF HasInv
  <2> QED
    BY <1>2, <2>1, <2>2, <2>3, FetchQueue, StallQueue, IssueQueue DEF HasInv, PerfNext
<1> QED
  BY <1>1, <1>2

\* perf-model/model.py, IqLen: whatever was fetched, flushed, redirected and
\* issued before, has() says yes exactly if the fetched blocks hold the whole
\* of the next instruction, for every size of a fetch block.
THEOREM HasAlwaysExact == PerfSpec => []HasExact
<1>1. ASSUME HasInv
      PROVE  HasExact
  <2> SUFFICES ASSUME phase = "issue", ~blocked
               PROVE  Has(iq_managed, head) <=> fetched_managed.blocks >= BlocksNeeded(head)
    BY DEF HasExact
  <2>1. /\ Regular(head) /\ Counts(iq_managed, fetched_managed)
        /\ fetched_managed.at \in {0, addr_index(head.addr)}
    BY <1>1, Managed
  <2>2. fetch_size \in {4, 8, 16}
    BY <1>1, FetchSize DEF HasInv, PortInv, PerfTypes
  <2> QED
    BY <2>1, <2>2, CountsHas
<1> QED
  BY <1>1, HasInit, HasStep, PTL DEF PerfSpec
=============================================================================
