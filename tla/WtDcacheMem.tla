---------------------------- MODULE WtDcacheMem -----------------------------
(***************************************************************************)
(* The arrays of the write-through data cache (wt_dcache_mem.sv): one tag  *)
(* lookup per cycle, whose result is known in the next one, cache line     *)
(* writes, which exclude everything else, and word writes of the write     *)
(* buffer, which may not meet a read in the same bank.                     *)
(***************************************************************************)
EXTENDS WtDcachePkg

CONSTANT NrReadPorts

ASSUME ReadPortAssumption == NrReadPorts \in Nat \ {0}

VARIABLES cache, \* way -> valid bit, tag, which of its bytes are current
          rd_q   \* the lookup of the last cycle, if its requester still waits

arrayVars == <<cache, rd_q>>

ReadPort == 0 .. NrReadPorts - 1
WrPort == NrReadPorts  \* the write buffer, the last port

EmptyWay == [vld |-> FALSE, line |-> None, current |-> {}]
NoRead   == [port |-> None, slot |-> None, hits |-> {}, current |-> {}]

\* After reset the arrays hold anything.
MemInit ==
  /\ cache \in [Way -> {EmptyWay} \cup
                       [vld : {TRUE}, line : Line, current : {{}}]]
  /\ rd_q = NoRead

hits_of(w) == {y \in Way : cache[y].vld /\ cache[y].line = w.line}

\* word write: not while a line is written, nor into the bank of a read
wr_ack_o(wr_req, w, wr_cl_we, sel, rd_word) ==
  /\ wr_req # {} /\ wr_cl_we = {}
  /\ sel \in {None, WrPort} \/ rd_word.off # w.off

\* cl = [we, fill, line, current]: the cache line write of this cycle;
\* wr = [ways, word, be]: its word write, which brings what the core stored
\* last; outdated: the cells the core overwrites in this cycle
CacheNext(cl, wr, outdated) ==
  cache' = [y \in Way |->
    CASE y \in cl.we /\ cl.fill ->
           [vld |-> TRUE, line |-> cl.line, current |-> cl.current \ outdated]
      [] y \in cl.we /\ ~cl.fill -> EmptyWay
      [] y \notin cl.we /\ y \in wr.ways ->
           [cache[y] EXCEPT !.current = (@ \cup Cells(wr.word, wr.be)) \ outdated]
      [] OTHER -> [cache[y] EXCEPT !.current = @ \ outdated]]
=============================================================================
