----------------------------- MODULE CsrDocument -----------------------------
(***************************************************************************)
(* The document of the control and status registers of a target           *)
(* (config/gen_from_riscv_config/scripts).  csr_formatter merges the       *)
(* specifications, factorizer folds families of numbered registers into    *)
(* rows such as pmpcfg[0-1], CsrParser describes the fields of each row    *)
(* and RstAddressBlock lists the rows of the registers that exist.         *)
(*                                                                         *)
(* A specification is an ordered dictionary, here a sequence of registers  *)
(* with different names.  A name is a prefix, a number and a suffix.       *)
(* Order and layout of the printed rows are left out.                      *)
(***************************************************************************)
EXTENDS Integers, Sequences, SequencesExt, FiniteSetsExt, TLC

NoNumber == -1
NoReset  == -1

name_of(r)  == << r.prefix, r.num, r.suffix >>
numbered(r) == r.num # NoNumber

-----------------------------------------------------------------------------
(***************************************************************************)
(* csr_formatter.  The entries of an updater replace those that the        *)
(* registers they name have; the entry rv32 is replaced as a whole.        *)
(***************************************************************************)
\* dict.update
merge(spec, other) ==
  LET named(n) == SelectSeq(other, LAMBDA r : name_of(r) = n)
      old      == {name_of(spec[i]) : i \in DOMAIN spec}
  IN  [i \in DOMAIN spec |->
         IF named(name_of(spec[i])) = << >> THEN spec[i] ELSE named(name_of(spec[i]))[1]]
      \o SelectSeq(other, LAMBDA r : name_of(r) \notin old)

\* the entries of a register; a reset value may be missing
present(r) == DOMAIN r \ (IF r.reset = NoReset THEN {"reset"} ELSE {})

updated(r, entry) == [k \in DOMAIN r |-> IF k \in DOMAIN entry \intersect present(r) THEN entry[k] ELSE r[k]]

csr_recursive_update(spec, update) ==
  [i \in DOMAIN spec |->
     IF name_of(spec[i]) \in DOMAIN update.entries THEN updated(spec[i], update.entries[name_of(spec[i])]) ELSE spec[i]]

\* re.search does not look for the start of a name: a range given for
\* hpmcounter also holds for mhpmcounter
in_name(key, prefix) == key = prefix \/ (key = "hpmcounter" /\ prefix = "mhpmcounter")

out_of_range(r, update) ==
  numbered(r) /\ \E k \in DOMAIN update.range : in_name(k, r.prefix) /\ r.num >= update.range[k]

excluded(r, update) == update.exclude # "" /\ r.priv_mode = update.exclude

csr_formatter(src, custom, debug, update) ==
  LET data == csr_recursive_update(merge(merge(src, debug), custom), update)
  IN  SelectSeq(data, LAMBDA r : ~excluded(r, update) /\ ~out_of_range(r, update))

-----------------------------------------------------------------------------
(***************************************************************************)
(* factorizer.  A group is a run of numbered registers with one prefix and *)
(* the same kinds of legal values: its plain registers, which become one   *)
(* row, and those with a suffix, which become another.                     *)
(***************************************************************************)
\* of the fields, or of a register without fields
legal(r) ==
  LET own == SelectSeq(r.rv32.fields, LAMBDA f : ~f.reserved /\ f.type # "")
  IN  IF r.rv32.fields = << >> THEN << "register", r.rv32.type >>
      ELSE << "fields" >> \o [i \in DOMAIN own |-> own[i].type]

NoGroup == [prefix |-> "", legal |-> << >>, regs |-> << >>, descr |-> << >>, sufs |-> << >>,
            first |-> NoNumber, suffix_descr |-> << >>, rows |-> << >>, crash |-> FALSE]

\* one row for the registers first to last; r is the one it is copied from
folded_row(r, suffix, first, last, addresses, desc) ==
  [r EXCEPT !.num = first, !.suffix = suffix, !.description = desc] @@
  [folded |-> TRUE, last |-> last, addresses |-> addresses]

single(r) == r @@ [folded |-> FALSE, last |-> r.num, addresses |-> << r.address, r.address >>]

ByNumber(regs)    == SortSeq(regs, LAMBDA r, s : r.num < s.num)
ByAddress(regs)   == SortSeq(regs, LAMBDA r, s : r.address < s.address)
ends(regs)        == << regs[1].address, Last(regs).address >>

\* the rows of a group that is followed by another one
closed(g) ==
  LET of(regs, suffix, first) ==
        IF regs = << >> THEN << >>
        ELSE << folded_row(ByNumber(regs)[1], suffix, first, Last(regs).num, ends(ByAddress(regs)), ByNumber(regs)[1].description) >>
  IN  of(g.regs, "", g.first) \o of(g.sufs, "h", g.first)

\* the rows of the last group, in the order of the specification
last_rows(g) ==
  LET of(regs, suffix, descr) ==
        IF regs = << >> THEN << >>
        ELSE << folded_row(regs[1], suffix, g.first, Last(regs).num, ends(regs), descr[1]) >>
  IN  of(g.regs, "", g.descr) \o of(g.sufs, "h", g.suffix_descr)

\* descr has no entry for the register that opens a group, and a name with a
\* suffix is not a number: no row for such a group
unfit(g) == g.regs # << >> /\ (g.descr = << >> \/ g.regs[1].suffix # "")

\* Mutant: a group is closed by another prefix only.
same_group_Prefix(g, r) == g.prefix = r.prefix

same_group(g, r) == g.prefix = r.prefix /\ g.legal = legal(r)

add_to_group(g, r) ==
  CASE same_group(g, r) /\ r.suffix = "" ->
         [g EXCEPT !.regs = Append(@, r), !.descr = Append(@, r.description)]
    [] same_group(g, r) /\ r.suffix # "" ->
         [g EXCEPT !.sufs = Append(@, r), !.suffix_descr = Append(@, r.description)]
    [] ~same_group(g, r) ->
         [g EXCEPT !.prefix = r.prefix, !.legal = legal(r), !.regs = << r >>, !.descr = << >>, !.sufs = << >>,
                   !.first = r.num, !.crash = @ \/ unfit(g),
                   !.rows = IF unfit(g) THEN @ ELSE @ \o closed(g)]

\* rows replace their registers; those that do not exist are left as they are
factorizer(data) ==
  LET folded == SelectSeq(data, LAMBDA r : numbered(r) /\ r.rv32.accessible)
      kept   == SelectSeq(data, LAMBDA r : ~(numbered(r) /\ r.rv32.accessible))
      g      == FoldLeft(add_to_group, NoGroup, folded)
  IN  [crash |-> g.crash \/ (g.regs # << >> /\ g.descr = << >>),
       rows  |-> [i \in DOMAIN kept |-> single(kept[i])] \o g.rows \o IF g.descr = << >> THEN << >> ELSE last_rows(g)]

-----------------------------------------------------------------------------
(***************************************************************************)
(* CsrParser.  The legal values of a field are a form and a sequence of    *)
(* lists of numbers; only a field with a list of entries has several.      *)
(***************************************************************************)
LegalTypes == {"warl", "wlrl", "ro_constant", "ro_variable", "rw", "ro"}

Unset == [form |-> "unset", items |-> << >>]

\* the last entry of a list replaces those before it
legal_value(values) ==
  IF values.form = "none" THEN [form |-> "No Legal values", items |-> << >>]
  ELSE [form |-> values.form, items |-> Last(values.items)]

field_reset(reset, f) == (reset \div 2 ^ f.lsb) % 2 ^ f.width

\* The fields of a folded row are named for the register i of the row, which
\* is right if the row starts with register 0 or 2.
field_name(r, f) ==
  IF r.folded THEN [text |-> f.name, num |-> IF f.num \in 0 .. 3 THEN f.num ELSE f.num - 8, folded |-> TRUE]
  ELSE [text |-> f.name, num |-> f.num, folded |-> FALSE]

Locals == [name |-> << >>, legal |-> Unset, field |-> << >>, crash |-> FALSE]

field_row(name, legal_values, f, reset, access) ==
  [name |-> name, lsb |-> f.lsb, width |-> f.width, reset |-> field_reset(reset, f),
   access |-> access, legal |-> legal_values]

\* One field.  A name without a number and values the expression does not
\* match leave the local variable of the field before, if there is one.
add_field(r, reset, s, f) ==
  LET name == IF f.reserved THEN << [text |-> "Reserved", num |-> f.lsb, folded |-> FALSE] >>
              ELSE IF r.folded /\ f.num = NoNumber THEN s.name
              ELSE << field_name(r, f) >>
      values == CASE f.reserved -> [form |-> "", items |-> << >>]
                  [] ~f.reserved /\ f.type = "" -> [form |-> IF f.implemented THEN "" ELSE "0x0", items |-> << >>]
                  [] ~f.reserved /\ f.type \in LegalTypes /\ f.values.form # "unreadable" -> legal_value(f.values)
                  [] OTHER -> s.legal
      access == CASE f.reserved -> "WPRI"
                  [] ~f.reserved /\ f.type = "" -> "ro_constant"
                  [] ~f.reserved /\ f.type \in LegalTypes -> f.type
                  [] OTHER -> ""
  IN  IF s.crash \/ name = << >> \/ values = Unset THEN [s EXCEPT !.crash = TRUE]
      ELSE [s EXCEPT !.name = name, !.legal = values, !.field = Append(@, field_row(name[1], values, f, reset, access))]

\* A register without fields.  A mask is printed as a range.  A kind of legal
\* values that is not known leaves nothing to print, like unreadable values.
whole_register(r, reset) ==
  LET all    == [lsb |-> 0, width |-> r.rv32.width]
      name   == [text |-> r.prefix, num |-> IF r.folded THEN NoNumber ELSE r.num, folded |-> r.folded]
      values == r.rv32.values
      legal_values == IF r.rv32.type = "" THEN [form |-> "", items |-> << >>]
                      ELSE IF values.form = "bitmask" THEN [form |-> "range", items |-> Last(values.items)]
                      ELSE legal_value(values)
      access == IF r.rv32.type = "" THEN "ro" ELSE r.rv32.type
  IN  IF r.rv32.type # "" /\ (r.rv32.type \notin LegalTypes \/ values.form = "unreadable") THEN [Locals EXCEPT !.crash = TRUE]
      ELSE [Locals EXCEPT !.field = << field_row(name, legal_values, all, reset, access) >>]

returnRegister(r, reset) ==
  IF r.rv32.accessible /\ r.rv32.fields # << >>
  THEN FoldLeft(LAMBDA s, f : add_field(r, reset, s, f), Locals, r.rv32.fields)
  ELSE whole_register(r, reset)

\* a register without a reset value gets that of the register before it
reset_of(r, before) == IF r.reset = NoReset THEN before ELSE r.reset

-----------------------------------------------------------------------------
(***************************************************************************)
(* RstAddressBlock: the registers that exist on RV32 or RV64.              *)
(***************************************************************************)
\* address bits 11 and 10
get_access_privilege(addresses) == IF (addresses[1] \div 1024) % 4 = 3 THEN "RO" ELSE "RW"

\* returnDocument for one register, and what is printed for it
register_row(r, reset, field) ==
  [prefix |-> r.prefix, suffix |-> r.suffix, first |-> r.num, last |-> r.last, folded |-> r.folded,
   addresses |-> r.addresses, reset |-> reset, priv |-> r.priv_mode,
   access |-> get_access_privilege(r.addresses), description |-> r.description,
   field |-> field]

printed(r) == r.rv32.accessible \/ r.rv64.accessible
=============================================================================
