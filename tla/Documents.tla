------------------------------ MODULE Documents ------------------------------
(***************************************************************************)
(* The two generators of reference documents.  spec_builder reads a source *)
(* file line by line and prints its ports; riscv_config_gen formats and    *)
(* folds the registers of a target, describes them one by one and prints   *)
(* them.  A document stays until the same generator writes it again.       *)
(***************************************************************************)
EXTENDS PortDocument, CsrDocument

CONSTANTS
  Base,       \* lines of the package the targets are derived from
  Struct,     \* lines of config_pkg.sv
  Targets,    \* sequence of targets: the changes and the lines of a source file
  Platforms   \* sequence of register files: src, custom, debug and update

VARIABLES
  running,    \* "none", or the part of a generator that runs
  job,        \* the target or platform it works for
  rest,       \* lines or registers it has not read
  parameters, \* what parameters_extractor returned
  black_list, \* and the ports that are tied because of it
  reading,    \* what spec_builder knows of the file it reads
  described,  \* registers the other generator has described
  reset,      \* the reset value it read last
  ports,      \* document of the ports, none or one
  csrs        \* document of the registers, none or one

vars == << running, job, rest, parameters, black_list, reading, described, reset, ports, csrs >>

Init ==
  /\ running = "none" /\ job = 0 /\ rest = << >> /\ parameters = << >> /\ black_list = << >>
  /\ reading = Document /\ described = << >> /\ reset = NoReset
  /\ ports = << >> /\ csrs = << >>

\* the generator ends; what it keeps in variables is gone
stop ==
  /\ running' = "none" /\ job' = 0 /\ rest' = << >> /\ parameters' = << >> /\ black_list' = << >>
  /\ reading' = Document /\ described' = << >> /\ reset' = NoReset

-----------------------------------------------------------------------------
\* main of spec_builder up to the source file.  It ends before it has written a
\* document of ports when there is no package of the target, no value for a
\* parameter, or no parameter that define_blacklist looks up; in the last case
\* the documents of the parameters, which are left out, have been written.
SpecBuilder(t) ==
  /\ running = "none"
  /\ derive_config(Base, Targets[t].changes) # Error
  /\ \E found \in {parameters_extractor(Struct, derive_config(Base, Targets[t].changes))} :
       /\ found.complete
       /\ looked_up \subseteq DOMAIN found.parameters
       /\ parameters' = found.parameters
       /\ black_list' = define_blacklist(found.parameters)
  /\ running' = "spec_builder" /\ job' = t
  /\ rest' = Targets[t].lines
  /\ UNCHANGED << reading, described, reset, ports, csrs >>

ReadLine ==
  /\ running = "spec_builder" /\ rest # << >>
  /\ reading' = source_line(black_list, reading, Head(rest))
  /\ rest' = Tail(rest)
  /\ UNCHANGED << running, job, parameters, black_list, described, reset, ports, csrs >>

PrintPorts ==
  /\ running = "spec_builder" /\ rest = << >>
  /\ ports' = << [job |-> job, parameters |-> parameters, module |-> print_to_adoc(reading)] >>
  /\ stop
  /\ UNCHANGED csrs

-----------------------------------------------------------------------------
CsrGenerator(p) ==
  /\ running = "none"
  /\ running' = "factorizer" /\ job' = p
  /\ rest' = csr_formatter(Platforms[p].src, Platforms[p].custom, Platforms[p].debug, Platforms[p].update)
  /\ UNCHANGED << parameters, black_list, reading, described, reset, ports, csrs >>

Factorize ==
  /\ running = "factorizer"
  /\ \E folded \in {factorizer(rest)} :
       /\ ~folded.crash
       /\ rest' = folded.rows
  /\ running' = "returnDocument"
  /\ UNCHANGED << job, parameters, black_list, reading, described, reset, ports, csrs >>

\* one register of returnDocument
DescribeRegister ==
  /\ running = "returnDocument" /\ rest # << >>
  /\ reset' = reset_of(Head(rest), reset) /\ reset' # NoReset
  /\ \E register \in {returnRegister(Head(rest), reset')} :
       /\ ~register.crash
       /\ described' = IF printed(Head(rest)) THEN Append(described, register_row(Head(rest), reset', register.field))
                       ELSE described
  /\ rest' = Tail(rest)
  /\ UNCHANGED << running, job, parameters, black_list, reading, ports, csrs >>

\* an exception: a group that does not fit, no reset value yet, or nothing that
\* can be printed for a field
GiveUp ==
  /\ \/ running = "factorizer" /\ factorizer(rest).crash
     \/ /\ running = "returnDocument" /\ rest # << >>
        /\ \/ reset_of(Head(rest), reset) = NoReset
           \/ returnRegister(Head(rest), reset_of(Head(rest), reset)).crash
  /\ stop
  /\ UNCHANGED << ports, csrs >>

PrintRegisters ==
  /\ running = "returnDocument" /\ rest = << >>
  /\ csrs' = << [job |-> job, rows |-> described] >>
  /\ stop
  /\ UNCHANGED ports

Next ==
  \/ \E t \in DOMAIN Targets : SpecBuilder(t)
  \/ ReadLine
  \/ PrintPorts
  \/ \E p \in DOMAIN Platforms : CsrGenerator(p)
  \/ Factorize
  \/ DescribeRegister
  \/ GiveUp
  \/ PrintRegisters

DocumentsSpec == Init /\ [][Next]_vars

-----------------------------------------------------------------------------
(***************************************************************************)
(* The ports, stated without reading line by line.                         *)
(***************************************************************************)
\* the ports in the first n lines
PortsOf(lines, n) == {i \in DOMAIN lines : i <= n /\ lines[i].kind = "port"}

\* the comment that is nearest above a line, unless a port has taken it
AboutPort(lines, i) ==
  LET above == {j \in 1 .. i - 1 : lines[j].kind = "comment" /\ \A k \in j .. i - 1 : lines[k].kind # "port"}
  IN  IF above = {} THEN src("comment", None, None) ELSE lines[Max(above)]

\* what is reported as tied in a target
TiesOf(t) == Fixed \union {b \in Conditional : Requested(Base, Targets[t].changes, b.reason) = "0"}

\* the one that applies to a port; what a port connects to goes before its name
TieOf(ties, lines, i) ==
  LET connexion == AboutPort(lines, i).connexion
  IN  {b \in ties : b.key = IF \E e \in ties : e.key = connexion THEN connexion ELSE lines[i].name}

FreePorts(ties, lines, n) == {i \in PortsOf(lines, n) : TieOf(ties, lines, i) = {}}

\* the reasons for which the first n lines have tied ports, and those ports
Reasons(ties, lines, n) == {b.reason : b \in UNION {TieOf(ties, lines, i) : i \in PortsOf(lines, n)}}

TiedFor(ties, lines, n, r) ==
  UNION {{<< lines[i].name, b.tied >> : b \in {e \in TieOf(ties, lines, i) : e.reason = r}} : i \in PortsOf(lines, n)}

\* the table has the free ports in their order, each with its comment
TableIs(ties, lines, n, table) ==
  LET free == FreePorts(ties, lines, n)
  IN  /\ Len(table) = Cardinality(free)
      /\ \A i \in free :
           table[Cardinality({j \in free : j <= i})] =
             [name |-> lines[i].name, description |-> AboutPort(lines, i).name, connexion |-> AboutPort(lines, i).connexion]

\* a list for each reason, which has each of its ports once
ListsAre(ties, lines, n, comments) ==
  /\ \A c, d \in DOMAIN comments : comments[c].reason = comments[d].reason => c = d
  /\ {comments[c].reason : c \in DOMAIN comments} = Reasons(ties, lines, n)
  /\ \A c \in DOMAIN comments :
       /\ Range(comments[c].tied) = TiedFor(ties, lines, n, comments[c].reason)
       /\ IsInjective(comments[c].tied)

\* In the document of a target every parameter has the value that was asked
\* for, every port appears once, with the comment written for it, and a port is
\* listed as tied, once for its reason, exactly when that configuration
\* switches its part off (spec_builder, parameters_extractor, define_blacklist
\* and user_config).
PortsAreDocumented ==
  \A k \in DOMAIN ports : \A ties \in {TiesOf(ports[k].job)} :
    LET t     == ports[k].job
        lines == Targets[t].lines
    IN  /\ \A p \in DOMAIN ports[k].parameters :
             ports[k].parameters[p].value = Requested(Base, Targets[t].changes, p)
        /\ TableIs(ties, lines, Len(lines), ports[k].module.ports)
        /\ ListsAre(ties, lines, Len(lines), ports[k].module.comments)

-----------------------------------------------------------------------------
(***************************************************************************)
(* The registers of a platform, stated without groups.                     *)
(***************************************************************************)
RegistersOf(p) ==
  LET with(q)  == Platforms[p][q]
      named(n, s) == {s[i] : i \in {j \in DOMAIN s : name_of(s[j]) = n}}
      names    == UNION {{name_of(with(q)[i]) : i \in DOMAIN with(q)} : q \in {"src", "custom", "debug"}}
      given(n) == IF named(n, with("custom")) # {} THEN named(n, with("custom"))
                  ELSE IF named(n, with("debug")) # {} THEN named(n, with("debug")) ELSE named(n, with("src"))
      update   == with("update")
      final(n) == {IF n \in DOMAIN update.entries THEN updated(r, update.entries[n]) ELSE r : r \in given(n)}
      below(r, k) == (k = r.prefix \/ (k = "hpmcounter" /\ r.prefix = "mhpmcounter")) => r.num + 1 <= update.range[k]
  IN  {r \in UNION {final(n) : n \in names} :
         /\ r.rv32.accessible \/ r.rv64.accessible
         /\ update.exclude # "" => r.priv_mode # update.exclude
         /\ numbered(r) => \A k \in DOMAIN update.range : below(r, k)}

Covers(row, r) ==
  row.prefix = r.prefix /\ row.suffix = r.suffix /\ r.num \in row.first .. row.last

\* The numbers of the fields of a folded row are right for rows that start with
\* register 0 or 2, which the configurations of the repository keep to.
FieldNamesFit(row, r) ==
  row.folded /\ row.first \in {0, 2} =>
    \A k \in DOMAIN r.rv32.fields :
      r.rv32.fields[k].reserved \/ r.rv32.fields[k].num = 4 * r.num + row.field[k].name.num

\* Every register of a platform is in exactly one row, which has its address,
\* its privilege and its kind of legal values, and no row speaks of a register
\* that is excluded, out of range or not there; the fields of a row show the
\* bits of its reset value (csr_formatter, factorizer and CsrParser).
CsrsAreDocumented ==
  \A n \in DOMAIN csrs :
    LET p    == csrs[n].job
        rows == csrs[n].rows
        all  == RegistersOf(p)
        members(row) == {r \in all : Covers(row, r)}
        first(row)   == CHOOSE r \in members(row) : r.num = row.first
    IN  /\ \A r \in all : Cardinality({k \in DOMAIN rows : Covers(rows[k], r)}) = 1
        /\ \A k \in DOMAIN rows :
             LET row == rows[k]
             IN  /\ {r.num : r \in members(row)} = row.first .. row.last
                 /\ {r.address : r \in members(row)} \subseteq row.addresses[1] .. row.addresses[2]
                 /\ \A e \in {1, 2} : \E r \in members(row) : r.address = row.addresses[e]
                 /\ \A r, s \in members(row) : legal(r) = legal(s)
                 /\ \A r \in members(row) :
                      /\ row.priv = r.priv_mode
                      /\ row.access = "RO" <=> r.address \in 3072 .. 4095
                      /\ r.rv32.accessible => FieldNamesFit(row, r)
                 /\ first(row).reset # NoReset => row.reset = first(row).reset
                 /\ row.reset = FoldLeft(LAMBDA s, f : s + f.reset * 2 ^ f.lsb, 0, row.field)

-----------------------------------------------------------------------------
(***************************************************************************)
(* What is proved of the port documents is about packages and source files *)
(* like these.                                                             *)
(***************************************************************************)
PlainTargets ==
  /\ Package(Base) /\ ChainsEnd(params(Base))
  /\ \A t \in DOMAIN Targets : Changes(Targets[t].changes) /\ Literals(Base, Targets[t].changes)

\* A module has no two ports of one name.
SourceFiles ==
  \A t \in DOMAIN Targets :
    /\ IsList(Targets[t].lines)
    /\ \A i, j \in PortsOf(Targets[t].lines, Len(Targets[t].lines)) :
         Targets[t].lines[i].name = Targets[t].lines[j].name => i = j
=============================================================================
