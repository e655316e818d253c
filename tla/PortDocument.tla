---------------------------- MODULE PortDocument ----------------------------
(***************************************************************************)
(* The port and parameter documents of a target (docs/scripts).  The       *)
(* parameters are the fields of cva6_user_cfg_t with the values of the     *)
(* package; they decide which ports of a source file are listed in its     *)
(* table and which are listed as tied to a value, with the reason.         *)
(*                                                                         *)
(* A source file is a sequence of lines, of which only comments of the     *)
(* form "text - connexion" and ports count.  A port without a data type    *)
(* does not match the expression for ports, so it is no port here.         *)
(***************************************************************************)
EXTENDS UserConfig, FiniteSets

\* a line of a module or of config_pkg.sv
src(kind, name, connexion) == [kind |-> kind, name |-> name, connexion |-> connexion]

None == "none"

-----------------------------------------------------------------------------
(***************************************************************************)
(* parameters_extractor.                                                   *)
(***************************************************************************)
TBC == "TO_BE_COMPLETED"

Scan == [enable |-> FALSE, over |-> FALSE, descript |-> TBC, found |-> << >>]

\* from the first packed struct to the line that ends cva6_user_cfg_t
scan_line(s, l) ==
  CASE s.over -> s
    [] ~s.over /\ l.kind = "struct"             -> [s EXCEPT !.enable = TRUE]
    [] ~s.over /\ l.kind = "end"                -> [s EXCEPT !.over = TRUE]
    [] ~s.over /\ s.enable /\ l.kind = "comment" -> [s EXCEPT !.descript = l.name]
    [] ~s.over /\ s.enable /\ l.kind = "field" ->
         [s EXCEPT !.found = Append(@, [name |-> l.name, description |-> s.descript]), !.descript = TBC]
    [] OTHER -> s

\* every parameter must have a value in the package of the target
parameters_extractor(struct, package) ==
  LET found    == FoldLeft(scan_line, Scan, struct).found
      config   == get_config(package)
      names    == {found[i].name : i \in DOMAIN found}
      latest(n) == CHOOSE i \in DOMAIN found : found[i].name = n /\ \A j \in DOMAIN found : found[j].name = n => j <= i
  IN  [complete   |-> names \subseteq DOMAIN config,
       parameters |-> [n \in names \intersect DOMAIN config |->
                         [value |-> config[n], description |-> found[latest(n)].description]]]

-----------------------------------------------------------------------------
(***************************************************************************)
(* define_blacklist.  A key is a port or the component a port connects to. *)
(* RVF, PRIV and others are reported as switched off for every target.     *)
(***************************************************************************)
Fixed == { [key |-> "dtlb_hit_i", reason |-> "any", tied |-> "1"],
           [key |-> "RVFI", reason |-> "IsRVFI", tied |-> "0"],
           [key |-> "ACC_DISPATCHER", reason |-> "EnableAccelerator", tied |-> "0"],
           [key |-> "PERF_COUNTERS", reason |-> "PerfCounterEn", tied |-> "0"],
           [key |-> "frm_i", reason |-> "RVF", tied |-> "0"],
           [key |-> "priv_lvl_i", reason |-> "PRIV", tied |-> "MachineMode"],
           [key |-> "tvm_i", reason |-> "PRIV", tied |-> "0"],
           [key |-> "fence_i", reason |-> "FenceEn", tied |-> "0"],
           [key |-> "flush_tlb_i", reason |-> "MMUPresent", tied |-> "0"] }

Conditional == { [key |-> "debug_req_i", reason |-> "DebugEn", tied |-> "0"],
                 [key |-> "v_i", reason |-> "RVH", tied |-> "0"],
                 [key |-> "vs_i", reason |-> "RVV", tied |-> "0"],
                 [key |-> "satp_ppn_i", reason |-> "RVS", tied |-> "0"],
                 [key |-> "asid_i", reason |-> "RVS", tied |-> "0"],
                 [key |-> "amo_resp_i", reason |-> "RVA", tied |-> "0"] }

looked_up == {b.reason : b \in Conditional}

off(parameters, b) == parameters[b.reason].value = "0"

define_blacklist(parameters) ==
  LET entries == Fixed \union {b \in Conditional : off(parameters, b)}
  IN  [k \in {b.key : b \in entries} |-> CHOOSE b \in entries : b.key = k]

-----------------------------------------------------------------------------
(***************************************************************************)
(* The document of one source file.                                        *)
(***************************************************************************)
\* the entry that applies to a port; the component it connects to goes first
tied(black_list, name, connexion) ==
  CASE connexion \in DOMAIN black_list -> << black_list[connexion] >>
    [] connexion \notin DOMAIN black_list /\ name \in DOMAIN black_list -> << black_list[name] >>
    [] OTHER -> << >>

Document == [description |-> None, connexion |-> None, ports |-> << >>, comments |-> << >>]

\* one comment for each reason, in the order in which the reasons appear
add_comment(comments, reason, entry) ==
  LET at == {i \in DOMAIN comments : comments[i].reason = reason}
  IN  IF at = {} THEN Append(comments, [reason |-> reason, tied |-> << entry >>])
      ELSE [comments EXCEPT ![CHOOSE i \in at : TRUE].tied = Append(@, entry)]

\* Mutant: what a comment says stays for the ports that follow.
source_line_Kept(black_list, d, l) ==
  LET entry == tied(black_list, l.name, d.connexion)
  IN  CASE l.kind = "comment" -> [d EXCEPT !.description = l.name, !.connexion = l.connexion]
        [] l.kind = "port" /\ entry = << >> ->
             [d EXCEPT !.ports = Append(@, [name |-> l.name, description |-> d.description, connexion |-> d.connexion])]
        [] l.kind = "port" /\ entry # << >> ->
             [d EXCEPT !.comments = add_comment(@, entry[1].reason, << l.name, entry[1].tied >>)]
        [] OTHER -> d

\* a comment is kept until the next port, which takes it
source_line(black_list, d, l) ==
  LET entry == tied(black_list, l.name, d.connexion)
      taken == [d EXCEPT !.description = None, !.connexion = None]
  IN  CASE l.kind = "comment" -> [d EXCEPT !.description = l.name, !.connexion = l.connexion]
        [] l.kind = "port" /\ entry = << >> ->
             [taken EXCEPT !.ports = Append(@, [name |-> l.name, description |-> d.description, connexion |-> d.connexion])]
        [] l.kind = "port" /\ entry # << >> ->
             [taken EXCEPT !.comments = add_comment(@, entry[1].reason, << l.name, entry[1].tied >>)]
        [] OTHER -> d

\* what is printed for a file
print_to_adoc(d) == [ports |-> d.ports, comments |-> d.comments]
=============================================================================
