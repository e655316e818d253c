------------------------------- MODULE Vendor -------------------------------
(***************************************************************************)
(* Import of third-party sources (util/vendor.py): a description names an  *)
(* upstream repository, a lock file the revision that was imported last.   *)
(* main() is a sequence of steps that change files, and may stop behind    *)
(* every one of them: an exception, a program that fails, Ctrl-C or the    *)
(* end of the machine.  The maintainer starts it again, restores tracked   *)
(* files with git and deletes a lock file that cannot be read.             *)
(*                                                                         *)
(* What a file contains is the upstream revision it was copied from and    *)
(* the patches applied to it.                                              *)
(***************************************************************************)
EXTENDS Integers, Sequences, FiniteSets

CONSTANTS Url,          \* upstream repositories
          LastRev,      \* bound: the branch of u ends at revision LastRev[u]
          Patch,        \* patch files, numbered in the order of their names
          Descs,        \* the descriptions a run may start from, see Desc
          Args,         \* the command lines, see CommandLine
          MaxFailures,  \* bound: how often steps fail
          Master,       \* a revision given as the name of the branch
          NoLock, Torn, \* there is no lock file; it is cut off
          NoMapping, Absent

Rev      == Nat \ {0}
Upstream == [url : Url, rev : Rev \union {Master}]

CommandLine == [update : BOOLEAN, refresh_patches : BOOLEAN, commit : BOOLEAN,
                desc_overrides : SUBSET {<< "upstream", "url" >>, << "upstream", "ref" >>,
                                         << "patch_repo", "url" >>,
                                         << "patch_repo", "rev_base" >>,
                                         << "patch_repo", "rev_patched" >>},
                url : Url]

ASSUME VendorAssumption ==
  /\ LastRev \in [Url -> Rev] /\ MaxFailures \in Nat
  /\ Args \subseteq CommandLine
  /\ Patch \subseteq Nat
  /\ Master \notin Rev
  /\ NoLock \notin Upstream /\ Torn \notin Upstream /\ NoLock # Torn

VARIABLES desc,      \* the description file
          head,      \* what the branch of each upstream repository points to
          exported,  \* the patches between rev_base and rev_patched
          target,    \* target_dir: what each item of the mapping was copied from
          patches,   \* patch_dir: the *.patch files
          lock,      \* the lock file
          index,     \* git: the staged tree
          commit,    \* git: the tree of the last commit
          main,      \* the running process, see Start
          outcome,   \* of the last run: "ok", "failed", or "none" after manual changes
          failures,  \* how often a step failed
          proven     \* ghost: revisions that were imported to the end once

files == << target, patches, lock >>
git   == << index, commit >>
world == << desc, head, exported >>
ghosts == << failures, proven >>
vars  == << world, files, git, main, outcome, ghosts >>

-----------------------------------------------------------------------------
(***************************************************************************)
(* The description.                                                        *)
(***************************************************************************)
\* os.path.normpath on a sequence of path components
normpath(p) ==
  LET norm[n \in 0 .. Len(p)] ==
        IF n = 0 THEN << >>
        ELSE LET q == norm[n - 1]
             IN  CASE p[n] = "."  -> q
                   [] p[n] = ".." /\ q # << >> /\ q[Len(q)] # ".." -> SubSeq(q, 1, Len(q) - 1)
                   [] OTHER -> Append(q, p[n])
  IN  norm[Len(p)]

bad_path(p) == LET q == normpath(p) IN q # << >> /\ q[1] \in {"..", "/"}

\* at most MaxItems items, and a mapping is not empty
MaxItems == 2
Item     == 1 .. MaxItems

ASSUME DescAssumption ==
  \A d \in Descs : /\ d.upstream \in Upstream
                   /\ d.mapping = NoMapping \/ (d.mapping \in Seq([to : Seq(STRING), file : BOOLEAN, patch_dir : BOOLEAN])
                                                /\ Len(d.mapping) \in Item)

\* the items that are copied, with the default that copies everything
items(d) ==
  IF d.mapping # NoMapping THEN d.mapping
  ELSE << [to |-> << "." >>, file |-> FALSE, patch_dir |-> d.patch_dir] >>

has_patch_dir(d) == \E i \in DOMAIN d.mapping : d.mapping[i].patch_dir

PatchRepoFields == {<< "patch_repo", f >> : f \in {"url", "rev_base", "rev_patched"}}

\* apply_overrides: a field that is given on the command line creates the dict
patch_repo(d, a) ==
  IF d.patch_repo THEN PatchRepoFields ELSE PatchRepoFields \intersect a.desc_overrides

\* the checks of Desc.__init__
DescError(d, a) ==
  LET repo == patch_repo(d, a)
  IN  \/ repo \notin {{}, PatchRepoFields}
      \/ repo # {} /\ ~d.patch_dir
      \/ repo # {} /\ d.mapping # NoMapping
      \/ d.mapping # NoMapping /\ d.patch_dir # has_patch_dir(d)
      \/ d.mapping # NoMapping /\ \E i \in DOMAIN d.mapping : bad_path(d.mapping[i].to)

\* Only upstream.url has an effect: the key upstream.ref may be given, but what
\* is read is upstream.rev.
overridden(d, a) ==
  IF << "upstream", "url" >> \in a.desc_overrides THEN [d.upstream EXCEPT !.url = a.url]
                                                  ELSE d.upstream

-----------------------------------------------------------------------------
(***************************************************************************)
(* The working tree and git.                                               *)
(***************************************************************************)
worktree == [target |-> target, patches |-> patches, lock |-> lock]

\* Mutant: any tree will do.
git_is_clean_workdir_Always == TRUE

\* nothing staged, and no tracked file changed or deleted; what git does not
\* track is not looked at (--untracked-files=no)
git_is_clean_workdir ==
  /\ index = commit
  /\ \A i \in Item : commit.target[i] # Absent => target[i] = commit.target[i]
  /\ commit.patches \subseteq patches
  /\ commit.lock # NoLock => lock = commit.lock

\* what an import of upstream revision u leaves of item i, with patches ps
ImportOf(d, u, ps) ==
  [i \in Item |-> IF i > Len(items(d)) THEN Absent
                  ELSE [from |-> u, applied |-> IF items(d)[i].patch_dir THEN ps ELSE {}]]

EmptyTarget == [i \in Item |-> Absent]
EmptyTree   == [target |-> EmptyTarget, patches |-> {}, lock |-> NoLock]

Idle == [pc |-> "idle"]

\* A project that never imported anything, one whose lock file somebody wrote
\* by hand with the name of a branch, and one that imported revision 1.
VendorInit ==
  /\ desc \in Descs
  /\ head = [u \in Url |-> 1]
  /\ exported = {}
  /\ \E ps \in IF desc.patch_dir THEN SUBSET Patch ELSE {{}} :
       commit \in {[EmptyTree EXCEPT !.patches = ps],
                   [EmptyTree EXCEPT !.patches = ps, !.lock = [url |-> desc.upstream.url, rev |-> Master]],
                   LET u == [url |-> desc.upstream.url, rev |-> 1]
                   IN  [target |-> ImportOf(desc, u, ps), patches |-> ps, lock |-> u]}
  /\ index = commit
  /\ target = commit.target /\ patches = commit.patches /\ lock = commit.lock
  /\ main = Idle /\ outcome = "none" /\ failures = 0
  /\ proven = {u \in {commit.lock} : u \in Upstream /\ u.rev # Master}

-----------------------------------------------------------------------------
(***************************************************************************)
(* The steps of main().                                                    *)
(***************************************************************************)
At(pc) == main.pc = pc

Goto(pc) == main' = [main EXCEPT !.pc = pc]

Stop(how) == main' = Idle /\ outcome' = how

\* LockDesc: a lock file without its upstream field is an error, not a missing file
LockError == lock = Torn

\* Everything that only reads and may end the run: the checks of the
\* description and of the lock file, the clean working directory for --commit,
\* the patch repository for --refresh-patches.
Refused(a) ==
  \/ DescError(desc, a)
  \/ LockError
  \/ a.commit /\ ~git_is_clean_workdir
  \/ a.refresh_patches /\ patch_repo(desc, a) = {}

\* Without a lock file the run updates; without --update the upstream field of
\* the lock file replaces the one of the description, overrides included.
Start(a) ==
  /\ At("idle")
  /\ IF Refused(a) THEN Stop("failed")
     ELSE LET update == a.update \/ lock = NoLock
          IN  /\ main' = [pc     |-> IF a.refresh_patches THEN "unlink" ELSE "clone",
                          args   |-> a,
                          update |-> update,
                          up     |-> IF update THEN overridden(desc, a) ELSE lock,
                          old    |-> lock, changed_url |-> lock # NoLock /\ lock.url # overridden(desc, a).url,
                          rev    |-> 0, item |-> 1, todo |-> {}, shortlog |-> {}]
              /\ outcome' = "none"
  /\ UNCHANGED << world, files, git, ghosts >>

\* refresh_patches removes every patch, clones the patch repository and writes
\* its patches one by one
Unlink(p) ==
  /\ At("unlink") /\ p \in patches
  /\ patches' = patches \ {p}
  /\ UNCHANGED << main, outcome, target, lock, world, git, ghosts >>

ClonePatchRepo ==
  /\ At("unlink") /\ patches = {}
  /\ main' = [main EXCEPT !.pc = "export", !.todo = exported]
  /\ UNCHANGED << outcome, files, world, git, ghosts >>

FirstOf(ps) == CHOOSE p \in ps : \A q \in ps : p <= q

Export ==
  /\ At("export")
  /\ IF main.todo = {} THEN Goto("clone") /\ UNCHANGED patches
     ELSE LET p == FirstOf(main.todo)
          IN  /\ patches' = patches \union {p}
              /\ main' = [main EXCEPT !.todo = @ \ {p}]
  /\ UNCHANGED << outcome, target, lock, world, git, ghosts >>

\* the revision the clone has checked out
clone_git_repo == IF main.up.rev = Master THEN head[main.up.url] ELSE main.up.rev

\* Mutant: nobody compares the revision with the locked one.
RevisionMismatch_Never == FALSE

RevisionMismatch == ~main.update /\ clone_git_repo # main.old.rev

Clone ==
  /\ At("clone")
  /\ IF RevisionMismatch THEN Stop("failed")
     ELSE main' = [main EXCEPT !.pc = "rmtree", !.rev = clone_git_repo] /\ UNCHANGED outcome
  /\ UNCHANGED << files, world, git, ghosts >>

\* the upstream field with the revision that was cloned
cloned == [url |-> main.up.url, rev |-> main.rev]

present == {i \in Item : target[i] # Absent}

\* Mutant: the target directory is not emptied first.
Rmtree_Nothing ==
  /\ At("rmtree")
  /\ Goto("copy")
  /\ UNCHANGED << outcome, files, world, git, ghosts >>

\* shutil.rmtree(ignore_errors=True)
Rmtree ==
  /\ At("rmtree")
  /\ target' = EmptyTarget
  /\ Goto("copy")
  /\ UNCHANGED << outcome, patches, lock, world, git, ghosts >>

\* what it could not delete stays, and nobody notices
RmtreeFails ==
  /\ At("rmtree") /\ failures < MaxFailures
  /\ \E left \in SUBSET present \ {{}} :
       target' = [i \in Item |-> IF i \in left THEN target[i] ELSE Absent]
  /\ Goto("copy")
  /\ failures' = failures + 1
  /\ UNCHANGED << outcome, patches, lock, world, git, proven >>

to_path(i) == normpath(items(desc)[i].to)

\* copytree wants to create the directory itself: nothing may be there, nor may
\* an earlier item have created it on the way to its own directory
FileExists(i) ==
  \E j \in present : j <= Len(items(desc)) /\
    \E n \in 0 .. Len(to_path(j)) : to_path(i) = SubSeq(to_path(j), 1, n)

Copy ==
  /\ At("copy")
  /\ LET i == main.item
     IN  IF FileExists(i) /\ ~items(desc)[i].file
         THEN Stop("failed") /\ UNCHANGED target
         ELSE /\ target' = [target EXCEPT ![i] = [from |-> cloned, applied |-> {}]]
              /\ main' = [main EXCEPT !.pc = "patch",
                            !.todo = IF items(desc)[i].patch_dir THEN patches ELSE {}]
              /\ UNCHANGED outcome
  /\ UNCHANGED << patches, lock, world, git, ghosts >>

\* git apply, in the order of the file names
ApplyPatch ==
  /\ At("patch") /\ main.todo # {}
  /\ LET p == FirstOf(main.todo)
     IN  /\ target' = [target EXCEPT ![main.item].applied = @ \union {p}]
         /\ main' = [main EXCEPT !.todo = @ \ {p}]
  /\ UNCHANGED << outcome, patches, lock, world, git, ghosts >>

AfterImport == IF main.update THEN "open" ELSE IF main.args.commit THEN "add" ELSE "end"

\* git log old..new
produce_shortlog(old, new) == old + 1 .. new

\* the changes since the last import, when both revisions are of one repository
\* (a branch name in the lock file is resolved in the new clone)
shortlog ==
  IF ~main.update \/ main.old = NoLock \/ main.changed_url THEN {}
  ELSE produce_shortlog(IF main.old.rev = Master THEN head[main.up.url] ELSE main.old.rev, main.rev)

ItemDone ==
  /\ At("patch") /\ main.todo = {}
  /\ IF main.item < Len(items(desc))
     THEN main' = [main EXCEPT !.pc = "copy", !.item = @ + 1] /\ UNCHANGED proven
     ELSE /\ main' = [main EXCEPT !.pc = AfterImport, !.shortlog = shortlog]
          /\ proven' = proven \union {cloned}
  /\ UNCHANGED << outcome, files, world, git, failures >>

\* open(.., 'w') empties the lock file before anything is written into it
OpenLock ==
  /\ At("open")
  /\ lock' = Torn
  /\ Goto("dump")
  /\ UNCHANGED << outcome, target, patches, world, git, ghosts >>

\* Mutant: the lock file gets the URL of the description.
DumpLock_DescUrl ==
  /\ At("dump")
  /\ lock' = [cloned EXCEPT !.url = desc.upstream.url]
  /\ Goto(IF main.args.commit THEN "add" ELSE "end")
  /\ UNCHANGED << outcome, target, patches, world, git, ghosts >>

DumpLock ==
  /\ At("dump")
  /\ lock' = cloned
  /\ Goto(IF main.args.commit THEN "add" ELSE "end")
  /\ UNCHANGED << outcome, target, patches, world, git, ghosts >>

\* git add of commit_paths
staged ==
  [target  |-> target,
   patches |-> IF main.args.refresh_patches THEN patches ELSE index.patches,
   lock    |-> lock]

Add ==
  /\ At("add")
  /\ index' = staged
  /\ Goto("commit")
  /\ UNCHANGED << outcome, files, commit, world, ghosts >>

\* a commit that git refuses is only a warning
Commit ==
  /\ At("commit")
  /\ commit' \in {commit, index}
  /\ Goto("end")
  /\ UNCHANGED << outcome, files, index, world, ghosts >>

End ==
  /\ At("end")
  /\ Stop("ok")
  /\ UNCHANGED << files, world, git, ghosts >>

\* The process ends where it stands.
Fail ==
  /\ ~At("idle") /\ failures < MaxFailures
  /\ failures' = failures + 1
  /\ Stop("failed")
  /\ UNCHANGED << files, world, git, proven >>

Steps == \/ \E p \in Patch : Unlink(p)
         \/ ClonePatchRepo \/ Export \/ Clone \/ Rmtree \/ Copy \/ ApplyPatch \/ ItemDone
         \/ OpenLock \/ DumpLock \/ Add \/ Commit \/ End

-----------------------------------------------------------------------------
(***************************************************************************)
(* The maintainer between two runs, and the repositories at any time.      *)
(***************************************************************************)
\* git stash: what git tracks goes back to the last commit, the rest stays
Restore ==
  /\ At("idle") /\ outcome # "none"
  /\ index' = commit
  /\ target' = [i \in Item |-> IF commit.target[i] # Absent \/ index.target[i] # Absent
                               THEN commit.target[i] ELSE target[i]]
  /\ patches' = commit.patches \union (patches \ index.patches)
  /\ lock' = IF commit.lock # NoLock \/ index.lock # NoLock THEN commit.lock ELSE lock
  /\ outcome' = "none"
  /\ UNCHANGED << main, commit, world, ghosts >>

\* a lock file that cannot be read is named in the error message
DeleteLock ==
  /\ At("idle") /\ lock = Torn
  /\ lock' = NoLock
  /\ outcome' = "none"
  /\ UNCHANGED << main, target, patches, git, world, ghosts >>

UpstreamMoves ==
  /\ \/ \E u \in Url : head[u] < LastRev[u] /\ head' = [head EXCEPT ![u] = @ + 1] /\ UNCHANGED exported
     \/ \E p \in Patch \ exported : exported' = exported \union {p} /\ UNCHANGED head
  /\ UNCHANGED << desc, files, git, main, outcome, ghosts >>

VendorNext ==
  \/ \E a \in Args : Start(a)
  \/ Steps \/ Fail \/ RmtreeFails
  \/ Restore \/ DeleteLock \/ UpstreamMoves

VendorSpec == VendorInit /\ [][VendorNext]_vars

\* A run that was started goes on, a lock file that cannot be read is deleted,
\* and the tool is started again and again with nothing but --update.
Plain(a) == a.update /\ ~a.refresh_patches /\ ~a.commit /\ a.desc_overrides = {}

VendorFairSpec ==
  /\ VendorSpec
  /\ WF_vars(Steps) /\ WF_vars(DeleteLock)
  /\ \A a \in Args : Plain(a) => SF_vars(Start(a))

-----------------------------------------------------------------------------
(***************************************************************************)
(* Properties.                                                             *)
(***************************************************************************)
\* A run that ends without an error leaves the target directory exactly as the
\* lock file and the patches describe it, whatever earlier runs left behind:
\* partial imports, stale directories, an interrupted refresh, a branch that
\* moved, an override on the command line.
SuccessIsReproducible ==
  outcome = "ok" =>
    /\ lock \in Upstream /\ lock.rev \in Rev
    /\ \A i \in DOMAIN items(desc) : target[i] = ImportOf(desc, lock, patches)[i]

\* The revision in the lock file was imported and patched to the end at least
\* once: a run that fails or is killed never leaves a lock on a revision that
\* nobody has been able to import.
LockIsProven == lock \in Upstream /\ lock.rev # Master => lock \in proven

\* Every commit the tool makes can be rebuilt from what it contains, provided
\* that no untracked patch lay in patch_dir (an interrupted --refresh-patches
\* leaves some, and git_is_clean_workdir does not see them); and its message
\* lists exactly the upstream changes since the last commit.
CommitsReproducible ==
  [][commit' # commit =>
       /\ patches \subseteq index.patches =>
            commit'.target = ImportOf(desc, commit'.lock, commit'.patches)
       /\ commit.lock \in Upstream /\ commit.lock.rev # Master =>
            main.shortlog = IF commit.lock.url # commit'.lock.url THEN {}
                            ELSE commit.lock.rev + 1 .. commit'.lock.rev]_vars

\* An item can always be copied, in whatever order the runs failed before.
Importable(d) ==
  /\ \A a \in Args : Plain(a) => ~DescError(d, a)
  /\ \A i, j \in DOMAIN items(d) : i # j =>
       ~\E n \in 0 .. Len(normpath(items(d)[j].to)) :
          normpath(items(d)[i].to) = SubSeq(normpath(items(d)[j].to), 1, n)

\* With a description that can be imported, failures that end and a maintainer
\* who deletes what cannot be read, imports succeed again and again: no crash
\* leaves files behind that stop every later run.
ImportsRecover == Importable(desc) => []<>(outcome = "ok")
=============================================================================
