----------------------------- MODULE MCDocuments -----------------------------
(***************************************************************************)
(* Instances of the document generators for TLC: source files with the     *)
(* kinds of ports there are, and register files as those of cv32a65x with  *)
(* shorter families and narrower registers.                                *)
(***************************************************************************)
EXTENDS Documents

field(kind, name) == src(kind, name, None)
port(name)        == src("port", name, None)
about(what, from) == src("comment", what, from)

MCStruct == << field("field", "early"), field("struct", ""), field("comment", "width"), field("field", "XLEN"),
               field("field", "DebugEn"), field("comment", "hypervisor"), field("field", "RVH"), field("field", "RVV"),
               field("field", "RVS"), field("field", "RVA"), field("end", ""), field("field", "late") >>

\* the last field is the one a change can make and the struct does not name
MCBase == << param("ConfigH", "0"), param("ConfigS", "ConfigH"), cfg("early", "", "x"), cfg("XLEN", "unsigned", "32"),
             cfg("DebugEn", "bit", "1"), cfg("RVH", "bit", "ConfigH"), cfg("RVV", "bit", "0"),
             cfg("RVS", "bit", "ConfigS"), cfg("RVA", "bit", "1"), cfg("late", "", "x") >>

set(how, name, value) == [how |-> how, name |-> name, value |-> value]

Id == << about("clock", "SUBSYSTEM"), port("clk_i"), about("request", "EX_STAGE"), port("debug_req_i"), port("v_i"),
         about("probes", "RVFI"), port("rvfi_o"), field("other", ""), port("vs_i"), port("fence_i") >>

Ex == << about("stray", "RVFI"), about("satp", "CSR"), port("satp_ppn_i"), port("asid_i"), about("amo", "CACHE"),
         field("other", ""), port("amo_resp_i"), about("pmp", "ACC_DISPATCHER"), port("v_i"), port("tvm_i"), port("alu_o") >>

target(changes, lines) == [changes |-> changes, lines |-> lines]

MCTargets == << target(<< >>, Id), target(<< >>, Ex),
                target(<< set("", "RVS", "1") >>, Ex),
                target(<< set("*", "RVS", "1"), set("", "RVA", "0") >>, Ex),
                target(<< set("+", "ConfigH", "1"), set("", "DebugEn", "0"), set("", "RVV", "1") >>, Id),
                target(<< set("", "RVA", "0"), set("", "RVX", "1") >>, Ex) >>

-----------------------------------------------------------------------------
values(form, items)  == [form |-> form, items |-> items]
part(name, num, lsb, width, type, v) ==
  [name |-> name, num |-> num, lsb |-> lsb, width |-> width, reserved |-> FALSE,
   type |-> type, implemented |-> FALSE, values |-> v]
hole(lsb, width) == [part("", NoNumber, lsb, width, "", values("none", << >>)) EXCEPT !.reserved = TRUE]

rv32(type, v, fields) == [accessible |-> TRUE, width |-> 8, type |-> type, values |-> v, fields |-> fields]
Absent == [rv32("", values("none", << >>), << >>) EXCEPT !.accessible = FALSE]

reg(prefix, num, suffix, address, value, r) ==
  [prefix |-> prefix, num |-> num, suffix |-> suffix, address |-> address, reset |-> value, priv_mode |-> "M",
   description |-> << prefix, num >>, rv32 |-> r, rv64 |-> [accessible |-> FALSE]]

Zero  == values("int", << << 0 >> >>)
AnyValue   == values("range", << << 0, 255 >> >>)
Entry == values("list", << << 0 >>, << 0, 1, 3 >> >>)

mhpm(n, h)  == reg("mhpmcounter", n, h, IF h = "h" THEN 2944 + n ELSE 2816 + n, 0, rv32("ro_constant", Zero, << >>))
hpm(n)      == [reg("hpmcounter", n, "", 3072 + n, 0, rv32("warl", AnyValue, << >>)) EXCEPT !.priv_mode = "U"]
event(n)    == reg("mhpmevent", n, "", 800 + n, 0, rv32("ro_constant", Zero, << >>))
pmpcfg(n, type) ==
  reg("pmpcfg", n, "", 928 + n, 0,
      rv32("", Zero, [k \in 1 .. 4 |-> part("pmpcfg", 4 * n + k - 1, 2 * k - 2, 2, type, AnyValue)]))
pmpaddr(n, type) == reg("pmpaddr", n, "", 944 + n, 0, rv32(type, values("bitmask", << << 254, 0 >> >>), << >>))
mstatus == reg("mstatus", NoNumber, "", 768, 24,
               rv32("", Zero, << hole(0, 3), part("mie", NoNumber, 3, 2, "wlrl", Entry),
                                 part("mpp", NoNumber, 5, 2, "warl", values("unreadable", << >>)),
                                 part("sd", NoNumber, 7, 1, "", Zero) >>))
mhartid == reg("mhartid", NoNumber, "", 3860, 5, rv32("ro_constant", values("none", << >>), << >>))
dcsr    == reg("dcsr", NoNumber, "", 1968, 3, rv32("rw", AnyValue, << >>))
icache  == reg("icache", NoNumber, "", 1984, 1, rv32("rw", AnyValue, << >>))
wide    == [reg("mtime", NoNumber, "", 3073, 0, Absent) EXCEPT !.rv64 = [accessible |-> TRUE]]
ghost(n) == reg("hpmcounter", n, "", 3072 + n, 0, Absent)
late    == reg("mtval", NoNumber, "", 835, NoReset, rv32("warl", AnyValue, << >>))
obscure == reg("mtvec", NoNumber, "", 773, 0, rv32("warl", values("unreadable", << >>), << >>))
strange == reg("mstateen", NoNumber, "", 780, 0, rv32("wpri", AnyValue, << >>))
odd     == reg("mseccfg", NoNumber, "", 775, 0,
               rv32("", Zero, << part("first", NoNumber, 0, 8, "warl", values("unreadable", << >>)) >>))

\* the second register has no reset value to replace
Entries == (<< "mhartid", NoNumber, "" >> :> [reset |-> 6, rv32 |-> rv32("ro", AnyValue, << >>)])
             @@ (<< "mtval", NoNumber, "" >> :> [reset |-> 4, rv32 |-> rv32("rw", AnyValue, << >>)])
Plain   == [entries |-> << >>, range |-> << >>, exclude |-> ""]
Short   == [entries |-> Entries, range |-> ("pmpaddr" :> 3) @@ ("hpmcounter" :> 5), exclude |-> "U"]

platform(spec, custom, debug, update) == [src |-> spec, custom |-> custom, debug |-> debug, update |-> update]

Counters == << mhpm(3, ""), mhpm(4, ""), mhpm(5, ""), mhpm(3, "h"), mhpm(4, "h"), mhpm(5, "h") >>
Pmp == << pmpcfg(0, "warl"), pmpcfg(1, "warl"), pmpcfg(2, "ro_constant"), pmpcfg(3, "ro_constant"),
          pmpaddr(0, "warl"), pmpaddr(1, "warl"), pmpaddr(2, "ro_constant"), pmpaddr(3, "ro_constant"), pmpaddr(4, "ro_constant") >>

MCPlatforms ==
  << platform(<< mstatus, mhartid >> \o Counters \o << event(3), event(4), ghost(3), wide >> \o Pmp, << icache >>, << >>, Plain),
     platform(<< hpm(3), hpm(4), mstatus, mhartid >> \o Counters \o SubSeq(Pmp, 1, 4) \o << pmpaddr(0, "warl"), pmpaddr(1, "warl"), pmpaddr(2, "warl"), pmpaddr(3, "warl") >>,
              << icache, late >>, << dcsr, [icache EXCEPT !.reset = 0] >>, Short),
     platform(<< pmpcfg(0, "warl"), pmpcfg(1, "warl"), event(3), event(4) >> \o Counters, << >>, << dcsr >>, Plain),
     platform(<< event(3), event(4), hpm(3), hpm(4), mhartid, late >> , << >>, << >>, Plain),
     platform(<< pmpaddr(0, "warl"), event(3), event(4) >>, << >>, << >>, Plain),
     platform(<< mhpm(3, "h"), mhpm(4, ""), mhpm(5, ""), event(3), event(4) >>, << >>, << >>, Plain),
     platform(<< late >>, << >>, << >>, Plain),
     platform(<< mhartid, obscure >>, << >>, << >>, Plain),
     platform(<< mhartid, strange >>, << >>, << >>, Plain),
     platform(<< mhartid, odd >>, << >>, << >>, Plain) >>

\* what the theorem about the port documents assumes holds here
ASSUME MCHypotheses ==
  /\ Package(Base) /\ \E rank \in [DOMAIN params(Base) -> 0 .. 1] : Falls(params(Base), rank)
  /\ \A t \in DOMAIN Targets : Changes(Targets[t].changes) /\ Literals(Base, Targets[t].changes)
  /\ SourceFiles
=============================================================================
