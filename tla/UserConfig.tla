----------------------------- MODULE UserConfig -----------------------------
(***************************************************************************)
(* Reading and changing a configuration package (util/user_config.py).     *)
(* A package is a sequence of lines: localparams, fields of cva6_cfg, and  *)
(* others.  The value of a field is a literal or the name of a localparam, *)
(* possibly in a cast; a localparam may again refer to a localparam.       *)
(* Literals are abstract; the two of the type bit are "0" and "1".         *)
(***************************************************************************)
EXTENDS Lists

Error == "error"     \* an exception: a name the dictionaries do not have

param(name, value)     == [kind |-> "param", name |-> name, cast |-> "", value |-> value]
cfg(name, cast, value) == [kind |-> "cfg", name |-> name, cast |-> cast, value |-> value]

\* parse with get_index: the last line that defines each name wins
i_dict(lines, kind) ==
  LET here == {i \in DOMAIN lines : lines[i].kind = kind}
  IN  [n \in {lines[i].name : i \in here} |->
         CHOOSE i \in here : lines[i].name = n /\ \A j \in here : lines[j].name = n => j <= i]

i_params(lines) == i_dict(lines, "param")
i_config(lines) == i_dict(lines, "cfg")

params(lines) == [n \in DOMAIN i_params(lines) |-> lines[i_params(lines)[n]].value]

\* the casting of a field, and the value inside it
find_casting(lines, name) == lines[i_config(lines)[name]]

\* The localparam at the end of the chain that starts at name.  The code loops
\* for ever on a chain that comes back to itself; the packages have none.
find_root_def(name, ps) ==
  LET root[n \in DOMAIN ps] == IF ps[n] \in DOMAIN ps THEN root[ps[n]] ELSE n
  IN  root[name]

\* build_param, build_cfg: only the value of the line changes
replace_line(lines, i, value) == [lines EXCEPT ![i].value = value]

replace_param(lines, name, value) == replace_line(lines, i_params(lines)[name], value)
replace_cfg(lines, name, value)   == replace_line(lines, i_config(lines)[name], value)

\* Mutant: the chain of localparams is followed one step only.
change_NoRoot(original, lines, c) ==
  CASE c.how = "*" /\ c.name \in DOMAIN i_config(original) -> replace_cfg(lines, c.name, c.value)
    [] c.how = "+" /\ c.name \in DOMAIN i_params(original) -> replace_param(lines, c.name, c.value)
    [] c.how = "" /\ c.name \in DOMAIN i_config(original) ->
         LET value == find_casting(original, c.name).value
         IN  IF value \in DOMAIN params(original) THEN replace_param(lines, value, c.value)
             ELSE replace_cfg(lines, c.name, c.value)

\* One change.  The dictionaries were read before the first one, so the root of
\* a field is looked up in the original package.
change(original, lines, c) ==
  CASE c.how = "*" /\ c.name \in DOMAIN i_config(original) -> replace_cfg(lines, c.name, c.value)
    [] c.how = "+" /\ c.name \in DOMAIN i_params(original) -> replace_param(lines, c.name, c.value)
    [] c.how = "" /\ c.name \in DOMAIN i_config(original) ->
         LET value == find_casting(original, c.name).value
         IN  IF value \in DOMAIN params(original)
             THEN replace_param(lines, find_root_def(value, params(original)), c.value)
             ELSE replace_cfg(lines, c.name, c.value)

\* the names derive_config finds
known(lines, c) ==
  c.name \in IF c.how = "+" THEN DOMAIN i_params(lines) ELSE DOMAIN i_config(lines)

\* derive_config up to write_file: nothing is written after an exception
derive_config(lines, changes) ==
  IF \E i \in DOMAIN changes : ~known(lines, changes[i]) THEN Error
  ELSE Loop(LAMBDA l, c : change(lines, l, c), lines, changes)

\* to_py_casting: bool(int(x)) for bit; other literals stand for their value
to_py(cast, value) == IF cast = "bit" THEN IF value = "0" THEN "0" ELSE "1" ELSE value

evaluate(field, ps) ==
  LET value == field.value
  IN  to_py(field.cast, IF value \in DOMAIN ps THEN ps[find_root_def(value, ps)] ELSE value)

get_config(lines) ==
  [n \in DOMAIN i_config(lines) |-> evaluate(find_casting(lines, n), params(lines))]

-----------------------------------------------------------------------------
(***************************************************************************)
(* What changes mean, stated without dictionaries and rewritten lines: a   *)
(* field takes its value from a path of places, its own and the            *)
(* localparams behind it; a change puts a literal in one place.            *)
(***************************************************************************)
\* the places the value of a field goes through, up to the literal
Path(lines, field) ==
  LET ps == params(lines)
      behind[n \in DOMAIN ps] == << << "param", n >> >> \o IF ps[n] \in DOMAIN ps THEN behind[ps[n]] ELSE << >>
      value == find_casting(lines, field).value
  IN  << << "cfg", field >> >> \o IF value \in DOMAIN ps THEN behind[value] ELSE << >>

\* without prefix a change is made where the literal is
Place(lines, c) ==
  CASE c.how = "*" -> << "cfg", c.name >>
    [] c.how = "+" -> << "param", c.name >>
    [] c.how = ""  -> Last(Path(lines, c.name))

\* the first place of the path that was changed decides, and there the last change
Requested(lines, changes, field) ==
  LET path == Path(lines, field)
      at(n)   == {i \in DOMAIN changes : Place(lines, changes[i]) = path[n]}
      changed == {n \in DOMAIN path : at(n) # {}}
      first   == CHOOSE n \in changed : \A m \in changed : n <= m
      latest  == CHOOSE i \in at(first) : \A j \in at(first) : j <= i
  IN  IF changed = {} THEN get_config(lines)[field]
      ELSE to_py(find_casting(lines, field).cast, changes[latest].value)

-----------------------------------------------------------------------------
(***************************************************************************)
(* What is proved of derive_config is about packages and changes like     *)
(* these.                                                                  *)
(***************************************************************************)
\* lines with their parts; changes with one of the three prefixes
Package(lines) == IsList(lines) /\ \A i \in DOMAIN lines : {"kind", "name", "cast", "value"} \subseteq DOMAIN lines[i]

Changes(changes) == IsList(changes) /\ \A i \in DOMAIN changes : changes[i].how \in {"*", "+", ""}

\* no localparam refers to itself, directly or through others
Falls(ps, rank) == \A n \in DOMAIN ps : ps[n] \in DOMAIN ps => rank[ps[n]] < rank[n]

ChainsEnd(ps) == \E depth \in Nat : \E rank \in [DOMAIN ps -> 0 .. depth] : Falls(ps, rank)

\* what is put in a place is not the name of a localparam
Literals(lines, changes) == \A i \in DOMAIN changes : changes[i].value \notin DOMAIN params(lines)
=============================================================================
