------------------------------ MODULE WtDcache ------------------------------
(***************************************************************************)
(* The write-through data cache (wt_dcache.sv): load ports, write buffer,  *)
(* miss unit and arrays.  A step is a clock cycle of all of them, or the   *)
(* moment at which memory performs a request; between the two moments of   *)
(* sending and performing, requests may overtake each other.  Around it    *)
(* stand the load-store unit, the controller and the CSRs, which drive it. *)
(***************************************************************************)
EXTENDS WtDcacheCtrl

CONSTANT Programs

\* What a program does: the ports that load and their words, the words it
\* stores and the bytes of a store, the word of its atomic operation (or None),
\* whether requests are withdrawn, lines are invalidated from outside, the
\* cache is flushed, and switched off and on.
Workload == [ports : SUBSET ReadPort, loads : SUBSET Word, stores : SUBSET Word,
             be : SUBSET SUBSET Byte, amo : Word \cup {None},
             kill : BOOLEAN, inv : BOOLEAN, flush : BOOLEAN, switch : BOOLEAN]

ASSUME WorkloadAssumption ==
  Programs \subseteq Workload /\ \A r \in Programs : {} \notin r.be

VARIABLES program,
          enable_i, flush_i, \* from the CSRs and the controller
          amo,     \* the atomic operation: "none", "req", "sent", "inv", "done"
          main,    \* the cells that are current in memory
          m_load,  \* the load that memory has
          m_store  \* the stores that memory has

envVars == <<program, enable_i, flush_i, amo, main, m_load, m_store>>
vars == <<arrayVars, wbVars, muVars, ld, envVars>>

NoLoad  == [phase |-> "idle", current |-> {}]
NoStore == [phase |-> "idle", word |-> None, be |-> {}, current |-> {}]

DcInit ==
  /\ MemInit /\ WbufferInit /\ MissunitInit /\ CtrlInit
  /\ program \in Programs
  /\ enable_i = TRUE /\ flush_i = FALSE /\ amo = "none"
  /\ main = Cell /\ m_load = NoLoad /\ m_store = [t \in TxIds |-> NoStore]

-----------------------------------------------------------------------------
(***************************************************************************)
(* Memory performs the requests it has in any order.                       *)
(***************************************************************************)
PerformStore(t) ==
  /\ m_store[t].phase = "sent"
  /\ m_store' = [m_store EXCEPT ![t].phase = "done"]
  /\ main' = (main \ Cells(m_store[t].word, m_store[t].be))
               \cup Cells(m_store[t].word, m_store[t].current)
  /\ UNCHANGED <<arrayVars, wbVars, muVars, ld, program, enable_i, flush_i, amo, m_load>>

PerformLoad ==
  /\ m_load.phase = "sent"
  /\ m_load' = [phase |-> "done", current |-> main \cap LineCells(mshr.word.line)]
  /\ UNCHANGED <<arrayVars, wbVars, muVars, ld, program, enable_i, flush_i, amo, main, m_store>>

\* The word has a new value, which no other copy has; no store is under way.
PerformAmo ==
  LET new == Cells(program.amo, Byte)
  IN  /\ amo = "inv" /\ amo' = "done"
      /\ main' = main \cup new
      /\ cache' = [y \in Way |-> [cache[y] EXCEPT !.current = @ \ new]]
      /\ rd_q' = [rd_q EXCEPT !.current =
                    {b \in @ : rd_q.port \in ReadPort => <<ld[rd_q.port].word, b>> \notin new}]
      /\ m_load' = [m_load EXCEPT !.current = @ \ new]
      /\ UNCHANGED <<wbVars, muVars, ld, program, enable_i, flush_i, m_store>>

\* What memory may send in a cycle.  The adapter answers the sending of an
\* atomic operation with an invalidation of the whole set.
NoMessage == [type |-> "none", id |-> None, ways |-> {}]

Messages ==
  {NoMessage}
  \cup (IF m_load.phase = "done" THEN {[NoMessage EXCEPT !.type = "load"]} ELSE {})
  \cup {[type |-> "store", id |-> t, ways |-> {}] :
          t \in {u \in TxIds : m_store[u].phase = "done"}}
  \cup (IF amo = "done" THEN {[NoMessage EXCEPT !.type = "amo"]} ELSE {})
  \cup (IF amo = "sent" THEN {[type |-> "inv", id |-> None, ways |-> Way]} ELSE {})
  \cup (IF program.inv
        THEN {[type |-> "inv", id |-> None, ways |-> {y}] : y \in Way} ELSE {})

-----------------------------------------------------------------------------
(***************************************************************************)
(* One clock cycle.                                                        *)
(***************************************************************************)
NoStoreReq == [word |-> None, be |-> {}]

\* The commit stage sends no store while an atomic operation is at its head.
StoreReqs ==
  {NoStoreReq} \cup
  (IF amo # "none" THEN {}
   ELSE {[word |-> w, be |-> be] : w \in {v \in program.stores : st_gnt(v)},
                                   be \in program.be})

\* the states in which a withdrawn request is noticed
Killable == {p \in ReadPort : program.kill /\
               In(p, {"READ", "REPLAY_READ", "MISS_REQ", "MISS_WAIT", "REPLAY_REQ"})}

\* The read arbiter: nobody reads while a line is written, and the load ports
\* come before the write buffer.  Requests that are not granted leave no trace,
\* so that only the granted one is chosen.
NoSel == [port |-> None, word |-> None, slot |-> None]

Selections(kill, wr_cl) ==
  LET new   == {[port |-> p, word |-> w, slot |-> None] :
                  p \in {q \in program.ports : accepts(q, kill, wr_cl)}, w \in program.loads}
      again == {[port |-> p, word |-> None, slot |-> None] : p \in rd_req}
      check == {[port |-> WrPort, word |-> None, slot |-> k] : k \in tocheck}
  IN  CASE wr_cl                              -> {NoSel}
        [] ~wr_cl /\ again # {}               -> new \cup again
        [] ~wr_cl /\ again = {} /\ check # {} -> new \cup check
        [] OTHER                              -> new \cup {NoSel}

\* the word whose bank is read
rd_word(sel) == IF sel.word = None THEN ld[sel.port].word ELSE sel.word

Lookup(sel, kill, outdated) ==
  IF sel.port = WrPort
  THEN [port |-> WrPort, slot |-> sel.slot, current |-> {},
        hits |-> hits_of(wbuffer[sel.slot].word)]
  ELSE IF looks(sel, kill)
  THEN LET w == rd_word(sel)
           hits == hits_of(w)
       IN  [port |-> sel.port, slot |-> None, hits |-> hits,
            current |-> IF hits = {} THEN {}
                        ELSE BytesOf(w, cache[Min(hits)].current \ outdated)]
  ELSE NoRead

\* what the memory system holds after a cycle; out: the request it took
MemoryNext(out, ptr, ret, outdated) ==
  LET fresh(c, w) == {b \in c : <<w, b>> \notin outdated}
  IN  /\ main' = main \ outdated
      /\ m_load' = CASE out = "load"        -> [NoLoad EXCEPT !.phase = "sent"]
                     [] ret.type = "load"   -> NoLoad
                     [] OTHER -> [m_load EXCEPT !.current = @ \ outdated]
      /\ m_store' = [t \in TxIds |->
           CASE out = "store" /\ t = tx_id ->
                  [phase |-> "sent", word |-> wbuffer[ptr].word, be |-> tx_be(ptr),
                   current |-> fresh(tx_be(ptr), wbuffer[ptr].word)]
             [] ret.type = "store" /\ ret.id = t -> NoStore
             [] OTHER -> [m_store[t] EXCEPT !.current = fresh(@, m_store[t].word)]]

\* The controller holds its flush, the load-store unit its atomic operation
\* until they are acknowledged.
EnvNext(out, ret) ==
  /\ enable_i' \in IF program.switch THEN BOOLEAN ELSE {enable_i}
  /\ flush_i' \in IF flush_i THEN {~(flush_en /\ flush_ack_q)}
                  ELSE {FALSE, program.flush}
  /\ amo' \in CASE amo = "none" -> {"none"} \cup (IF program.amo # None THEN {"req"} ELSE {})
                [] amo = "req" /\ out = "amo"                -> {"sent"}
                [] amo = "sent" /\ ret.type = "inv" /\ ret.ways = Way -> {"inv"}
                [] amo = "done" /\ ret.type = "amo"          -> {"none"}
                [] OTHER                                     -> {amo}

Cycle(kill, ret, ack, ptr, way, st) ==
  LET at == [p \in 0 .. WrPort |-> IF p \in ReadPort THEN ld[p].word
                                   ELSE IF ptr = None THEN None ELSE wbuffer[ptr].word]
      req   == miss_req \cup (IF wb_miss_req THEN {WrPort} ELSE {})
      amo_i == amo # "none"
      busy  == flush_i \/ (enable_i /\ ~cache_en) \/ amo_i
      mem   == mem_req(req, at, busy)
      out   == IF ack THEN mem ELSE "none"
      wr_cl == wr_cl_vld(ret)
      outdated == IF st.word = None THEN {} ELSE Cells(st.word, st.be)
  IN  /\ ack => mem # "none"
      /\ (mem = "load" /\ ack) \/ way = Min(Way)
      /\ \E sel \in Selections(kill, wr_cl) :
           LET wr_ack == wr_ack_o(wr_req, wbuffer[rtrn_ptr].word, wr_cl_we(ret), sel.port,
                                  rd_word(sel))
               word_write == wr_req # {} /\ wr_ack
           IN  /\ CacheNext([we |-> wr_cl_we(ret), fill |-> ~flush_en /\ cl_write_en(ret),
                             line |-> IF mshr_vld THEN mshr.word.line ELSE None,
                             current |-> m_load.current],
                            IF word_write
                            THEN [ways |-> wr_req, word |-> wbuffer[rtrn_ptr].word,
                                  be |-> wr_data_be]
                            ELSE [ways |-> {}, word |-> None, be |-> {}],
                            outdated)
               /\ rd_q' = Lookup(sel, kill, outdated)
               /\ WbufferCycle(wr_cl, word_write, ptr, out = "store",
                               IF store_ack(ret) THEN ret.id ELSE None, st)
               /\ ld' = [p \in ReadPort |->
                    CtrlNext(p, kill, wr_cl, sel, p \in replay(req, at, busy),
                             out = "load" /\ p = miss_port(req),
                             load_ack(ret) /\ mshr.port = p)]
      /\ MissunitCycle(req, at, ret, ack,
                       [nc |-> mem = "load" /\ miss_nc(miss_port(req)), way |-> way],
                       enable_i, flush_i, amo_i)
      /\ MemoryNext(out, ptr, ret, outdated)
      /\ EnvNext(out, ret)
      /\ UNCHANGED program

\* The answer to a load: the bytes of the write buffer, which are current, are
\* laid over what was read.
wbuffer_be(w) == UNION {wbuffer[k].valid : k \in wbuffer_hit(w)}
rd_data(w, rdata) == wbuffer_be(w) \cup rdata

DcNext ==
  \/ \E t \in TxIds : PerformStore(t)
  \/ PerformLoad
  \/ PerformAmo
  \/ \E kill \in SUBSET Killable, ret \in Messages, ack \in BOOLEAN,
        ptr \in DirtyPtr, way \in Way, st \in StoreReqs :
       Cycle(kill, ret, ack, ptr, way, st)

DcSpec == DcInit /\ [][DcNext]_vars

-----------------------------------------------------------------------------
(***************************************************************************)
(* Properties.                                                             *)
(***************************************************************************)
\* A load returns what the core stored last, whether it hits, with the bytes
\* of the write buffer laid over the word read one cycle earlier, or misses and
\* takes the word from the returning line: no store is lost between the buffer,
\* the transaction in flight, the refill and the arrays.
LoadsAreCurrent ==
  \A p \in ReadPort :
    LET w == ld[p].word
    IN  /\ answers(p, FALSE) => rd_data(w, rd_q.current) = Byte
        /\ In(p, {"MISS_WAIT"}) /\ m_load.phase = "done" =>
             rd_data(w, BytesOf(w, m_load.current)) = Byte

\* A byte that has left the write buffer is current in memory and in the way
\* that holds its line, so that discarding lines, which a write-through cache
\* does without writing them back, loses nothing.
CopiesCurrent ==
  \A c \in Cell :
    c[2] \notin wbuffer_be(c[1]) =>
      /\ c \in main
      /\ cache_en => \A y \in hits_of(c[1]) : c \in cache[y].current

\* No line is in two ways (the assertion tag_write_duplicate of wt_dcache_mem):
\* two ports that miss on the same line do not both fetch it.
NoDuplicateLines ==
  cache_en => \A w \in Word : Cardinality(hits_of(w)) <= 1

\* The bookkeeping of the stores under way is exact (the assertions byteStates,
\* hot1, tx_valid0 and tx_valid1 of wt_dcache_wbuffer): every word has one
\* entry and at most one transaction, whose bytes stay until it is answered,
\* and the miss unit's count of stores is the number memory has.
TransactionsMatch ==
  /\ \A k \in Slots : wbuffer[k].valid = wbuffer[k].dirty \cup wbuffer[k].txblock
  /\ \A w \in Word : Cardinality(wbuffer_hit(w)) <= 1
  /\ \A t \in TxIds :
       LET answered == \E i \in 1 .. Len(rtrn) : rtrn[i] = t
       IN  /\ tx_stat[t].vld <=> (m_store[t].phase # "idle" \/ answered)
           /\ tx_stat[t].vld => /\ wbuffer[tx_stat[t].ptr].txblock = tx_stat[t].be
                                /\ m_store[t].phase # "idle" =>
                                     wbuffer[tx_stat[t].ptr].word = m_store[t].word
  /\ stores_inflight = Cardinality({t \in TxIds : m_store[t].phase # "idle"})

\* Exactly the port that waits for a line, killed or not, is the one the miss
\* unit will tell, and memory has its request: no port waits for ever and no
\* answer goes to a port that has taken up something else.
MissesAreAwaited ==
  /\ mshr_vld <=> m_load.phase # "idle"
  /\ \A p \in ReadPort :
       /\ In(p, {"MISS_WAIT", "KILL_MISS"}) <=> mshr_vld /\ mshr.port = p
       /\ p \in reading => rd_q.port = p

\* An atomic operation finds every earlier store to its word in memory, and
\* when memory performs it no way and no refill holds the line.
AmoSeesStores ==
  /\ amo \in {"sent", "inv"} => Cells(program.amo, Byte) \subseteq main /\ wbuffer_empty
  /\ amo \in {"inv", "done"} => hits_of(program.amo) = {} /\ ~mshr_vld

ni_entries == {k \in valid : wbuffer[k].word \in NonIdempotent}

\* A store to a non-idempotent word waits until the one before it has reached
\* memory, and is neither merged into it nor overtaken by it.
NonIdempotentStoresAlone ==
  [][ni_entries # {} /\ ni_entries' # {} =>
       ni_entries' = ni_entries /\
       \A k \in ni_entries : wbuffer'[k].dirty \subseteq wbuffer[k].dirty]_vars
=============================================================================
