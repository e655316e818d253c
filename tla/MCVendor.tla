------------------------------ MODULE MCVendor ------------------------------
(***************************************************************************)
(* Instances of the import tool for TLC: the descriptions and the command  *)
(* lines that meet.                                                        *)
(***************************************************************************)
EXTENDS Vendor

CONSTANTS u1, u2

MCUrl == {u1, u2}

MCLastRev == [u \in MCUrl |-> IF u = u1 THEN 2 ELSE 1]

D(branch, dir, repo, mapping) ==
  [upstream |-> [url |-> u1, rev |-> branch], patch_dir |-> dir,
   patch_repo |-> repo, mapping |-> mapping]

To(path, file, patch_dir) == [to |-> path, file |-> file, patch_dir |-> patch_dir]

Straight  == D(Master, TRUE, TRUE, NoMapping)
TwoDirs   == D(Master, TRUE, FALSE, << To(<< "rtl" >>, FALSE, TRUE), To(<< "tb", "top" >>, TRUE, FALSE) >>)
OuterLate == D(1, FALSE, FALSE, << To(<< "rtl", "core" >>, FALSE, FALSE), To(<< "rtl" >>, FALSE, FALSE) >>)
Escaping  == D(1, FALSE, FALSE, << To(<< "rtl", "..", "..", "x" >>, FALSE, FALSE) >>)

MCDescs == {Straight, TwoDirs, OuterLate, Escaping}

A(update, refresh, commit_, over) ==
  [update |-> update, refresh_patches |-> refresh, commit |-> commit_,
   desc_overrides |-> over, url |-> u2]

MCArgs == {A(FALSE, FALSE, FALSE, {}), A(TRUE, FALSE, FALSE, {}), A(FALSE, FALSE, TRUE, {}),
           A(TRUE, FALSE, TRUE, {}), A(TRUE, TRUE, TRUE, {}), A(FALSE, TRUE, FALSE, {}),
           A(TRUE, FALSE, FALSE, {<< "upstream", "url" >>, << "upstream", "ref" >>}),
           A(TRUE, FALSE, FALSE, {<< "patch_repo", "url" >>})}
=============================================================================
