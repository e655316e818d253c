---------------------------- MODULE VendorProofs ----------------------------
(***************************************************************************)
(* Proofs about the import tool for all repositories, descriptions of at   *)
(* most two items, patches and command lines, and for any number of        *)
(* failures: a lock file names a revision that was imported to the end,    *)
(* a run that ends well leaves what the lock file says, and every commit   *)
(* can be rebuilt from what it contains.                                   *)
(***************************************************************************)
EXTENDS Vendor, WellFoundedInduction, TLAPS

USE VendorAssumption, DescAssumption

-----------------------------------------------------------------------------
(***************************************************************************)
(* The inductive invariant.                                                *)
(***************************************************************************)
Lock == Upstream \union {NoLock, Torn}

\* what the files and repositories can be
FilesOK ==
  /\ desc \in Descs /\ head \in [Url -> Rev]
  /\ DOMAIN target = Item
  /\ {lock, index.lock, commit.lock} \subseteq Lock
  /\ patches \subseteq Patch /\ index.patches \subseteq Patch /\ commit.patches \subseteq Patch
  /\ exported \subseteq Patch

\* Every lock file there is, in the working tree and in git.
LocksAreProven ==
  \A l \in {lock, index.lock, commit.lock} : l \in Upstream /\ l.rev # Master => l \in proven

Fields == {"pc", "args", "update", "up", "old", "changed_url", "rev", "item", "todo", "shortlog"}

Reading  == {"unlink", "export", "clone"}
Copying  == {"rmtree", "copy", "patch"}
Writing  == {"open", "dump"}
Locked   == {"add", "commit", "end"}

\* the patches of item i, and the item once it is imported
Want(i) == IF items(desc)[i].patch_dir THEN patches ELSE {}
Done(i) == target[i] = [from |-> cloned, applied |-> Want(i)]

\* What a run knows of the revision: without update it is the one of the lock
\* file, which is not written until the import is complete.
RevisionOK ==
  /\ main.up \in Upstream /\ main.update \in BOOLEAN
  /\ ~main.update => lock = main.old /\ main.up = main.old
  /\ main.pc \in Copying \union Writing \union Locked =>
       main.rev \in Rev /\ (~main.update => main.rev = main.old.rev)
  /\ main.pc \in Writing => main.update /\ cloned \in proven
  /\ main.pc \in Locked => lock = cloned

\* The items that are imported already, and the patches of the one at hand.
ItemsOK ==
  /\ main.item \in DOMAIN items(desc)
  /\ main.pc \in Reading \union {"rmtree"} => main.item = 1
  /\ main.pc = "export" => main.todo \subseteq Patch
  /\ main.pc \in {"copy", "patch"} => \A i \in 1 .. main.item - 1 : Done(i)
  /\ main.pc = "patch" => /\ main.todo \subseteq Want(main.item)
                          /\ target[main.item] = [from |-> cloned, applied |-> Want(main.item) \ main.todo]
  /\ main.pc \in Writing \union Locked => \A i \in DOMAIN items(desc) : Done(i)

RunOK ==
  main.pc # "idle" =>
    /\ DOMAIN main = Fields
    /\ main.pc \in Reading \union Copying \union Writing \union Locked
    /\ outcome = "none"
    /\ RevisionOK /\ ItemsOK

VendorInv == FilesOK /\ LocksAreProven /\ RunOK /\ SuccessIsReproducible

-----------------------------------------------------------------------------
\* A set of patches has a first one, so git apply is given one of them.
LEMMA FirstOfIn ==
  ASSUME NEW ps, ps \subseteq Patch, ps # {}
  PROVE  FirstOf(ps) \in ps
<1> DEFINE R == OpToRel(<, Nat)
<1>1. IsWellFoundedOn(R, Nat)
  BY NatLessThanWellFounded
<1>2. ps \subseteq Nat
  OBVIOUS
<1>3. \E p \in ps : \A q \in ps : ~(<< q, p >> \in R)
  BY <1>1, <1>2, WFMin
<1>4. \A p, q \in Nat : << q, p >> \in R <=> q < p
  BY DEF OpToRel
<1>5. PICK p \in ps : \A q \in ps : ~(q < p)
  BY <1>2, <1>3, <1>4
<1>6. \A q \in ps : p <= q
  BY <1>2, <1>5
<1> QED
  BY <1>6 DEF FirstOf

\* A description names between one and two items.
LEMMA ItemsOfDesc ==
  ASSUME desc \in Descs
  PROVE  Len(items(desc)) \in Item /\ DOMAIN items(desc) = 1 .. Len(items(desc)) /\ DOMAIN items(desc) \subseteq Item
<1>1. CASE desc.mapping # NoMapping
  BY <1>1 DEF items, Item, MaxItems
<1>2. CASE desc.mapping = NoMapping
  BY <1>2 DEF items, Item, MaxItems
<1> QED
  BY <1>1, <1>2

\* The first state: the lock file of a project that imported something.
LEMMA VendorInitInv == VendorInit => VendorInv
<1> SUFFICES ASSUME VendorInit PROVE VendorInv
  OBVIOUS
<1> USE DEF VendorInit
<1>1. PICK ps \in IF desc.patch_dir THEN SUBSET Patch ELSE {{}} :
        commit \in {[EmptyTree EXCEPT !.patches = ps],
                   [EmptyTree EXCEPT !.patches = ps, !.lock = [url |-> desc.upstream.url, rev |-> Master]],
                   LET u == [url |-> desc.upstream.url, rev |-> 1]
                   IN  [target |-> ImportOf(desc, u, ps), patches |-> ps, lock |-> u]}
  OBVIOUS
<1>2. ps \subseteq Patch
  BY <1>1
<1>3. desc.upstream.url \in Url /\ 1 \in Rev
  BY DEF Upstream, Rev
<1>4. /\ DOMAIN commit.target = Item /\ commit.patches = ps
      /\ commit.lock = NoLock \/ commit.lock \in Upstream
  <2> DEFINE one == [EmptyTree EXCEPT !.patches = ps]
             two == [EmptyTree EXCEPT !.patches = ps, !.lock = [url |-> desc.upstream.url, rev |-> Master]]
             u   == [url |-> desc.upstream.url, rev |-> 1]
             three == [target |-> ImportOf(desc, u, ps), patches |-> ps, lock |-> u]
  <2>1. DOMAIN EmptyTarget = Item
    BY DEF EmptyTarget
  <2>2. one.target = EmptyTarget /\ one.patches = ps /\ one.lock = NoLock
    BY DEF EmptyTree
  <2>3. two.target = EmptyTarget /\ two.patches = ps /\ two.lock \in Upstream
    BY <1>3 DEF EmptyTree, Upstream
  <2>4. DOMAIN three.target = Item /\ three.patches = ps /\ three.lock \in Upstream
    BY <1>3 DEF ImportOf, Upstream
  <2>5. commit \in {one, two, three}
    BY <1>1
  <2> HIDE DEF one, two, three
  <2> QED
    BY ONLY <2>1, <2>2, <2>3, <2>4, <2>5
<1>5. FilesOK
  BY <1>2, <1>3, <1>4 DEF FilesOK, Lock
<1>6. LocksAreProven
  BY DEF LocksAreProven
<1>7. RunOK /\ SuccessIsReproducible
  BY DEF RunOK, Idle, SuccessIsReproducible
<1> QED
  BY <1>5, <1>6, <1>7 DEF VendorInv

\* The run starts with the revision of the description or of the lock file.
LEMMA StartInv ==
  ASSUME VendorInv, NEW a \in Args, Start(a)
  PROVE  VendorInv'
<1> USE DEF VendorInv, Start, Stop, At, ghosts, world, files, git
<1>1. UNCHANGED << desc, head, exported, target, patches, lock, index, commit, proven >>
  OBVIOUS
<1>2. FilesOK' /\ LocksAreProven'
  BY <1>1 DEF FilesOK, LocksAreProven
<1>3. CASE Refused(a)
  <2>1. main'.pc = "idle" /\ outcome' = "failed"
    BY <1>3 DEF Idle
  <2> QED
    BY <1>2, <2>1 DEF RunOK, SuccessIsReproducible
<1>4. CASE ~Refused(a)
  <2> DEFINE update == a.update \/ lock = NoLock
             up     == IF update THEN overridden(desc, a) ELSE lock
  <2>1. /\ DOMAIN main' = Fields /\ main'.pc \in {"unlink", "clone"} /\ outcome' = "none"
        /\ main'.update = update /\ main'.up = up /\ main'.old = lock /\ main'.item = 1
    BY <1>4 DEF Fields
  <2>2. update \in BOOLEAN
    BY DEF CommandLine
  <2>3. overridden(desc, a) \in Upstream
    <3>1. desc.upstream \in Upstream /\ a.url \in Url
      BY DEF FilesOK, CommandLine
    <3> QED
      BY <3>1 DEF overridden, Upstream
  <2>4. ~update => lock \in Upstream
    BY <1>4 DEF Refused, LockError, FilesOK, Lock
  <2>5. RevisionOK'
    BY <1>1, <2>1, <2>2, <2>3, <2>4 DEF RevisionOK, Copying, Writing, Locked
  <2>6. ItemsOK'
    BY <1>1, <2>1, ItemsOfDesc DEF ItemsOK, Copying, Writing, Locked, FilesOK, Item, MaxItems
  <2> QED
    BY <1>2, <2>1, <2>5, <2>6 DEF RunOK, SuccessIsReproducible, Reading
<1> QED
  BY <1>3, <1>4

\* The run does not look at the target directory while it refreshes patches.
LEMMA ReadingInv ==
  ASSUME VendorInv, (\E p \in Patch : Unlink(p)) \/ ClonePatchRepo \/ Export
  PROVE  VendorInv'
<1> USE DEF VendorInv, Unlink, ClonePatchRepo, Export, Goto, At, ghosts, world, files, git
<1>1. /\ UNCHANGED << desc, head, exported, target, lock, index, commit, proven, outcome >>
      /\ main.pc \in {"unlink", "export"} /\ main'.pc \in Reading
  BY DEF RunOK, Fields, Reading
<1>2. /\ DOMAIN main' = Fields
      /\ main'.up = main.up /\ main'.update = main.update /\ main'.old = main.old /\ main'.item = main.item
  BY <1>1 DEF RunOK, Fields
<1>3. /\ patches' \subseteq Patch
      /\ main'.pc = "export" => main'.todo \subseteq Patch
  <2>1. CASE \E p \in Patch : Unlink(p)
    BY <1>1, <2>1 DEF FilesOK, RunOK, ItemsOK
  <2>2. CASE ClonePatchRepo
    BY <1>1, <2>2 DEF FilesOK, RunOK, Fields
  <2>3. CASE Export /\ main.todo = {}
    BY <1>1, <2>3 DEF FilesOK, RunOK, Fields
  <2>4. CASE Export /\ main.todo # {}
    <3>1. main.todo \subseteq Patch
      BY <2>4 DEF RunOK, ItemsOK
    <3>2. FirstOf(main.todo) \in Patch
      BY <2>4, <3>1, FirstOfIn
    <3>3. patches' = patches \union {FirstOf(main.todo)} /\ main'.todo = main.todo \ {FirstOf(main.todo)}
      BY <2>4 DEF RunOK, Fields
    <3> QED
      BY <3>1, <3>2, <3>3 DEF FilesOK
  <2> QED
    BY <2>1, <2>2, <2>3, <2>4
<1>4. FilesOK'
  BY <1>1, <1>3 DEF FilesOK
<1>5. LocksAreProven'
  BY <1>1 DEF LocksAreProven
<1>6. RevisionOK'
  BY <1>1, <1>2 DEF RunOK, RevisionOK, Reading, Copying, Writing, Locked
<1>7. ItemsOK'
  BY <1>1, <1>2, <1>3 DEF RunOK, ItemsOK, Reading, Copying, Writing, Locked
<1> QED
  BY <1>1, <1>2, <1>4, <1>5, <1>6, <1>7 DEF RunOK, SuccessIsReproducible, Reading

\* A revision that differs from the one of the lock file ends the run.
LEMMA CloneInv ==
  ASSUME VendorInv, Clone
  PROVE  VendorInv'
<1> USE DEF VendorInv, Clone, Stop, At, ghosts, world, files, git
<1>1. UNCHANGED << desc, head, exported, target, patches, lock, index, commit, proven >>
  OBVIOUS
<1>2. FilesOK' /\ LocksAreProven'
  BY <1>1 DEF FilesOK, LocksAreProven
<1>3. CASE RevisionMismatch
  BY <1>2, <1>3 DEF RunOK, SuccessIsReproducible, Idle
<1>4. CASE ~RevisionMismatch
  <2>1. /\ DOMAIN main' = Fields /\ main'.pc = "rmtree" /\ outcome' = "none" /\ main'.rev = clone_git_repo
        /\ main'.up = main.up /\ main'.update = main.update /\ main'.old = main.old /\ main'.item = main.item
    BY <1>4 DEF RunOK, Fields
  <2>2. main.up \in Upstream
    BY DEF RunOK, RevisionOK
  <2>3. clone_git_repo \in Rev
    BY <2>2 DEF clone_git_repo, Upstream, FilesOK
  <2>4. RevisionOK'
    BY <1>1, <1>4, <2>1, <2>3 DEF RunOK, RevisionOK, RevisionMismatch, Writing, Locked
  <2>5. ItemsOK'
    BY <1>1, <2>1 DEF RunOK, ItemsOK, Reading, Writing, Locked
  <2> QED
    BY <1>2, <2>1, <2>4, <2>5 DEF RunOK, SuccessIsReproducible, Copying
<1> QED
  BY <1>3, <1>4

\* The target directory is emptied, or part of it stays.
LEMMA RmtreeInv ==
  ASSUME VendorInv, Rmtree \/ RmtreeFails
  PROVE  VendorInv'
<1> USE DEF VendorInv, Rmtree, RmtreeFails, Goto, At, ghosts, world, files, git
<1>1. /\ UNCHANGED << desc, head, exported, patches, lock, index, commit, proven, outcome >>
      /\ main.pc = "rmtree" /\ DOMAIN target' = Item
  BY DEF EmptyTarget
<1>2. /\ DOMAIN main' = Fields /\ main'.pc = "copy"
      /\ main'.up = main.up /\ main'.update = main.update /\ main'.old = main.old
      /\ main'.rev = main.rev /\ main'.item = main.item
  BY <1>1 DEF RunOK, Fields
<1>3. FilesOK' /\ LocksAreProven'
  BY <1>1 DEF FilesOK, LocksAreProven
<1>4. RevisionOK'
  BY <1>1, <1>2 DEF RunOK, RevisionOK, Copying, Writing, Locked
<1>5. ItemsOK'
  BY <1>1, <1>2 DEF RunOK, ItemsOK, Reading, Writing, Locked
<1> QED
  BY <1>1, <1>2, <1>3, <1>4, <1>5 DEF RunOK, SuccessIsReproducible, Copying

\* An item is copied with the revision that was cloned, or the run ends.
LEMMA CopyInv ==
  ASSUME VendorInv, Copy
  PROVE  VendorInv'
<1> USE DEF VendorInv, Copy, Stop, At, ghosts, world, files, git
<1>1. /\ UNCHANGED << desc, head, exported, patches, lock, index, commit, proven >>
      /\ main.pc = "copy" /\ desc \in Descs
  BY DEF FilesOK
<1>2. CASE main' = Idle /\ outcome' = "failed" /\ target' = target
  BY <1>1, <1>2 DEF FilesOK, LocksAreProven, RunOK, SuccessIsReproducible, Idle
<1>3. CASE /\ target' = [target EXCEPT ![main.item] = [from |-> cloned, applied |-> {}]]
           /\ main' = [main EXCEPT !.pc = "patch",
                                  !.todo = IF items(desc)[main.item].patch_dir THEN patches ELSE {}]
           /\ UNCHANGED outcome
  <2>1. /\ DOMAIN main' = Fields /\ main'.pc = "patch" /\ outcome' = "none"
        /\ main'.up = main.up /\ main'.update = main.update /\ main'.old = main.old
        /\ main'.rev = main.rev /\ main'.item = main.item
        /\ main'.todo = Want(main.item)
    BY <1>1, <1>3 DEF RunOK, Fields, Want
  <2>2. main.item \in 1 .. Len(items(desc)) /\ main.item \in Item
    BY <1>1, ItemsOfDesc DEF RunOK, ItemsOK
  <2>3. FilesOK' /\ LocksAreProven'
    BY <1>1, <1>3 DEF FilesOK, LocksAreProven
  <2>4. RevisionOK'
    BY <1>1, <2>1 DEF RunOK, RevisionOK, Copying, Writing, Locked
  <2>5. /\ target'[main.item] = [from |-> cloned, applied |-> {}]
        /\ \A i \in 1 .. main.item - 1 : target'[i] = target[i]
    BY <1>3, <2>2 DEF FilesOK, Item, MaxItems
  <2>6. ItemsOK'
    <3>1. cloned' = cloned /\ \A i : Want(i)' = Want(i)
      BY <1>1, <2>1 DEF cloned, Want
    <3>2. (\A i \in 1 .. main.item - 1 : Done(i))'
      BY <1>1, <2>1, <2>5, <3>1 DEF RunOK, ItemsOK, Done
    <3>3. (/\ main.todo \subseteq Want(main.item)
           /\ target[main.item] = [from |-> cloned, applied |-> Want(main.item) \ main.todo])'
      BY <1>1, <2>1, <2>5, <3>1 DEF Want
    <3>4. (main.item \in DOMAIN items(desc))'
      BY <1>1, <2>1 DEF RunOK, ItemsOK
    <3> HIDE DEF VendorInv, Copy
    <3> QED
      BY <2>1, <3>2, <3>3, <3>4 DEF ItemsOK, Reading, Writing, Locked
  <2> QED
    BY <1>1, <2>1, <2>3, <2>4, <2>6 DEF RunOK, SuccessIsReproducible, Copying
<1> QED
  BY <1>2, <1>3

\* git apply takes one patch after the other from those of the item.
LEMMA ApplyPatchInv ==
  ASSUME VendorInv, ApplyPatch
  PROVE  VendorInv'
<1> USE DEF VendorInv, ApplyPatch, At, ghosts, world, files, git
<1> DEFINE p == FirstOf(main.todo)
<1>1. /\ UNCHANGED << desc, head, exported, patches, lock, index, commit, proven, outcome >>
      /\ main.pc = "patch" /\ desc \in Descs
  BY DEF FilesOK
<1>2. /\ DOMAIN main' = Fields /\ main'.pc = "patch"
      /\ main'.up = main.up /\ main'.update = main.update /\ main'.old = main.old
      /\ main'.rev = main.rev /\ main'.item = main.item
      /\ main'.todo = main.todo \ {p}
  BY <1>1 DEF RunOK, Fields
<1>3. main.item \in 1 .. Len(items(desc)) /\ main.item \in Item
  BY <1>1, ItemsOfDesc DEF RunOK, ItemsOK
<1>4. /\ main.todo \subseteq Want(main.item)
      /\ target[main.item] = [from |-> cloned, applied |-> Want(main.item) \ main.todo]
  BY <1>1 DEF RunOK, ItemsOK
<1>5. p \in main.todo
  <2>1. main.todo \subseteq Patch
    BY <1>4 DEF Want, FilesOK
  <2> QED
    BY <2>1, FirstOfIn
<1>6. /\ target'[main.item] = [from |-> cloned, applied |-> Want(main.item) \ main'.todo]
      /\ \A i \in 1 .. main.item - 1 : target'[i] = target[i]
      /\ DOMAIN target' = Item
  <2>1. target' = [target EXCEPT ![main.item].applied = @ \union {p}]
    OBVIOUS
  <2>2. main.item \in DOMAIN target /\ DOMAIN target = Item
    BY <1>3 DEF FilesOK
  <2>3. target'[main.item] = [target[main.item] EXCEPT !.applied = @ \union {p}]
    BY <2>1, <2>2
  <2>4. target'[main.item] = [from |-> cloned, applied |-> (Want(main.item) \ main.todo) \union {p}]
    <3>1. \A u, ps, q : [[from |-> u, applied |-> ps] EXCEPT !.applied = @ \union {q}]
                      = [from |-> u, applied |-> ps \union {q}]
      BY ONLY TRUE
    <3> HIDE DEF p, VendorInv, ApplyPatch
    <3> QED
      BY ONLY <1>4, <2>3, <3>1
  <2>5. (Want(main.item) \ main.todo) \union {p} = Want(main.item) \ main'.todo
    <3> HIDE DEF p, VendorInv, ApplyPatch
    <3> QED
      BY ONLY <1>2, <1>4, <1>5
  <2>6. \A i \in Item : i # main.item => target'[i] = target[i]
    BY <2>1, <2>2
  <2>7. DOMAIN target' = Item
    BY <2>1, <2>2
  <2>8. \A i \in 1 .. main.item - 1 : i \in Item /\ i # main.item
    BY ONLY <1>3 DEF Item, MaxItems
  <2> HIDE DEF p, VendorInv, ApplyPatch
  <2> QED
    BY ONLY <2>4, <2>5, <2>6, <2>7, <2>8
<1>7. FilesOK' /\ LocksAreProven'
  BY <1>1, <1>6 DEF FilesOK, LocksAreProven
<1>8. RevisionOK'
  BY <1>1, <1>2 DEF RunOK, RevisionOK, Copying, Writing, Locked
<1>9. ItemsOK'
  <2>1. cloned' = cloned /\ \A i : Want(i)' = Want(i)
    BY <1>1, <1>2 DEF cloned, Want
  <2>2. (\A i \in 1 .. main.item - 1 : Done(i))'
    BY <1>1, <1>2, <1>6, <2>1 DEF RunOK, ItemsOK, Done
  <2>3. (/\ main.todo \subseteq Want(main.item)
         /\ target[main.item] = [from |-> cloned, applied |-> Want(main.item) \ main.todo])'
    BY <1>1, <1>2, <1>4, <1>6, <2>1 DEF Want
  <2>4. (main.item \in DOMAIN items(desc))'
    BY <1>1, <1>2 DEF RunOK, ItemsOK
  <2> HIDE DEF VendorInv, ApplyPatch
  <2> QED
    BY <1>2, <2>2, <2>3, <2>4 DEF ItemsOK, Reading, Writing, Locked
<1> QED
  BY <1>1, <1>2, <1>7, <1>8, <1>9 DEF RunOK, SuccessIsReproducible, Copying

\* The item is complete: the next one, or the lock file, or, when nothing is
\* to be updated, the end.
LEMMA ItemDoneInv ==
  ASSUME VendorInv, ItemDone
  PROVE  VendorInv'
<1> USE DEF VendorInv, ItemDone, At, ghosts, world, files, git
<1>1. /\ UNCHANGED << desc, head, exported, target, patches, lock, index, commit, outcome >>
      /\ main.pc = "patch" /\ desc \in Descs /\ proven \subseteq proven'
  BY DEF FilesOK
<1>2. /\ DOMAIN main' = Fields
      /\ main'.up = main.up /\ main'.update = main.update /\ main'.old = main.old /\ main'.rev = main.rev
  BY <1>1 DEF RunOK, Fields
<1>3. main.item \in 1 .. Len(items(desc)) /\ main.item \in Item /\ DOMAIN items(desc) = 1 .. Len(items(desc))
  BY <1>1, ItemsOfDesc DEF RunOK, ItemsOK
<1>4. FilesOK' /\ LocksAreProven'
  BY <1>1 DEF FilesOK, LocksAreProven
<1>5. \A i \in 1 .. main.item : Done(i)
  <2>1. Done(main.item)
    BY <1>1 DEF RunOK, ItemsOK, Done
  <2> QED
    BY <1>1, <1>3, <2>1 DEF RunOK, ItemsOK, Item, MaxItems
<1>6. cloned' = cloned /\ \A i : Done(i)' <=> Done(i)
  BY <1>1, <1>2 DEF cloned, Done, Want
<1>7. CASE main.item < Len(items(desc))
  <2>1. main'.pc = "copy" /\ main'.item = main.item + 1
    BY <1>1, <1>7 DEF RunOK, Fields
  <2>2. RevisionOK'
    BY <1>1, <1>2, <2>1 DEF RunOK, RevisionOK, Copying, Writing, Locked
  <2>3. (main.item \in DOMAIN items(desc))'
    BY <1>1, <1>3, <1>7, <2>1 DEF Item
  <2>4. (\A i \in 1 .. main.item - 1 : Done(i))'
    BY <1>3, <1>5, <1>6, <2>1 DEF Item, MaxItems
  <2>5. ItemsOK'
    BY ONLY <2>1, <2>3, <2>4 DEF ItemsOK, Reading, Writing, Locked
  <2> QED
    BY <1>1, <1>2, <1>4, <2>1, <2>2, <2>5 DEF RunOK, SuccessIsReproducible, Copying
<1>8. CASE ~(main.item < Len(items(desc)))
  <2>1. main'.pc = AfterImport /\ main'.item = main.item /\ proven' = proven \union {cloned}
    BY <1>1, <1>8 DEF RunOK, Fields
  <2>2. main'.pc \in {"open", "add", "end"} /\ (main'.pc = "open" <=> main.update)
    BY <2>1 DEF AfterImport
  <2>3. main.rev \in Rev /\ main.up \in Upstream /\ (~main.update => lock = main.up /\ main.up.rev = main.rev)
    BY <1>1 DEF RunOK, RevisionOK, Copying
  <2>4. ~main.update => lock = cloned
    BY <2>3 DEF cloned, Upstream
  <2>5. RevisionOK'
    BY <1>1, <1>2, <1>6, <2>1, <2>2, <2>3, <2>4 DEF RunOK, RevisionOK, Copying, Writing, Locked
  <2>6. (main.item \in DOMAIN items(desc))'
    BY <1>1, <1>3, <2>1
  <2>7. (\A i \in DOMAIN items(desc) : Done(i))'
    BY <1>1, <1>3, <1>5, <1>6, <1>8 DEF Item, MaxItems
  <2>8. ItemsOK'
    BY ONLY <2>2, <2>6, <2>7 DEF ItemsOK, Reading, Writing, Locked
  <2> QED
    BY <1>1, <1>2, <1>4, <2>2, <2>5, <2>8 DEF RunOK, SuccessIsReproducible, Writing, Locked
<1> QED
  BY <1>7, <1>8

\* The lock file is written only after its revision has been imported.
LEMMA WritingInv ==
  ASSUME VendorInv, OpenLock \/ DumpLock
  PROVE  VendorInv'
<1> USE DEF VendorInv, OpenLock, DumpLock, Goto, At, ghosts, world, files, git
<1>1. /\ UNCHANGED << desc, head, exported, target, patches, index, commit, proven, outcome >>
      /\ main.pc \in Writing
  BY DEF Writing
<1>2. /\ DOMAIN main' = Fields
      /\ main'.up = main.up /\ main'.update = main.update /\ main'.old = main.old
      /\ main'.rev = main.rev /\ main'.item = main.item
      /\ \/ main'.pc = "dump" /\ lock' = Torn
         \/ main'.pc \in {"add", "end"} /\ lock' = cloned
  BY <1>1 DEF RunOK, Fields, Writing
<1>3. cloned \in Upstream /\ cloned \in proven /\ main.update
  BY <1>1 DEF RunOK, RevisionOK, cloned, Upstream
<1>4. FilesOK' /\ LocksAreProven'
  BY <1>1, <1>2, <1>3 DEF FilesOK, LocksAreProven, Lock
<1>5. cloned' = cloned /\ \A i : Done(i)' <=> Done(i)
  BY <1>1, <1>2 DEF cloned, Done, Want
<1>6. RevisionOK'
  BY <1>1, <1>2, <1>3, <1>5 DEF RunOK, RevisionOK, Copying, Writing, Locked
<1>7. ItemsOK'
  <2>1. (main.item \in DOMAIN items(desc) /\ \A i \in DOMAIN items(desc) : Done(i))'
    BY <1>1, <1>2, <1>5 DEF RunOK, ItemsOK, Writing
  <2> QED
    BY ONLY <1>2, <2>1 DEF ItemsOK, Reading, Writing, Locked
<1> QED
  BY <1>1, <1>2, <1>4, <1>6, <1>7 DEF RunOK, SuccessIsReproducible, Writing, Locked

\* What git stages and commits are files that are proven already.
LEMMA GitInv ==
  ASSUME VendorInv, Add \/ Commit
  PROVE  VendorInv'
<1> USE DEF VendorInv, Add, Commit, Goto, At, ghosts, world, files, git
<1>1. /\ UNCHANGED << desc, head, exported, target, patches, lock, proven, outcome >>
      /\ main.pc \in Locked
  BY DEF Locked
<1>2. /\ DOMAIN main' = Fields /\ main'.pc \in Locked
      /\ main'.up = main.up /\ main'.update = main.update /\ main'.old = main.old
      /\ main'.rev = main.rev /\ main'.item = main.item
  BY <1>1 DEF RunOK, Fields, Locked
<1>3. /\ index'.lock \in {lock, index.lock} /\ commit'.lock \in {index.lock, commit.lock}
      /\ index'.patches \in {patches, index.patches} /\ commit'.patches \in {index.patches, commit.patches}
  BY DEF staged
<1>4. FilesOK'
  BY <1>1, <1>3 DEF FilesOK
<1>5. LocksAreProven'
  BY <1>1, <1>3 DEF LocksAreProven
<1>6. cloned' = cloned /\ \A i : Done(i)' <=> Done(i)
  BY <1>1, <1>2 DEF cloned, Done, Want
<1>7. RevisionOK'
  BY <1>1, <1>2, <1>6 DEF RunOK, RevisionOK, Copying, Writing, Locked
<1>8. ItemsOK'
  <2>1. (main.item \in DOMAIN items(desc) /\ \A i \in DOMAIN items(desc) : Done(i))'
    BY <1>1, <1>2, <1>6 DEF RunOK, ItemsOK
  <2> QED
    BY ONLY <1>2, <2>1 DEF ItemsOK, Reading, Writing, Locked
<1> QED
  BY <1>1, <1>2, <1>4, <1>5, <1>7, <1>8 DEF RunOK, SuccessIsReproducible, Locked

\* A run that comes to its end has imported every item with the revision in
\* the lock file, whether it wrote that file or only read it.
LEMMA EndInv ==
  ASSUME VendorInv, End
  PROVE  VendorInv'
<1> USE DEF VendorInv, End, Stop, At, ghosts, world, files, git
<1>1. /\ UNCHANGED << desc, head, exported, target, patches, lock, index, commit, proven >>
      /\ main.pc = "end" /\ main'.pc = "idle" /\ desc \in Descs
  BY DEF FilesOK, Idle
<1>2. FilesOK' /\ LocksAreProven' /\ RunOK'
  BY <1>1 DEF FilesOK, LocksAreProven, RunOK
<1>3. lock = cloned /\ main.up \in Upstream /\ main.rev \in Rev
  BY <1>1 DEF RunOK, RevisionOK, Locked
<1>4. lock \in Upstream /\ lock.rev \in Rev
  BY <1>3 DEF cloned, Upstream
<1>5. ASSUME NEW i \in DOMAIN items(desc)
      PROVE  target[i] = ImportOf(desc, lock, patches)[i]
  <2>1. i \in Item /\ ~(i > Len(items(desc)))
    BY <1>1, ItemsOfDesc DEF Item, MaxItems
  <2>2. target[i] = [from |-> lock, applied |-> Want(i)]
    BY <1>1, <1>3 DEF RunOK, ItemsOK, Locked, Done
  <2> QED
    BY <2>1, <2>2 DEF ImportOf, Want
<1>6. SuccessIsReproducible
  BY <1>4, <1>5 DEF SuccessIsReproducible
<1>7. SuccessIsReproducible'
  BY <1>1, <1>4, <1>5 DEF SuccessIsReproducible
<1> QED
  BY <1>2, <1>7

\* A process that stops anywhere leaves the files as they are.
LEMMA FailInv ==
  ASSUME VendorInv, Fail
  PROVE  VendorInv'
<1> USE DEF VendorInv, Fail, Stop, ghosts, world, files, git
<1>1. UNCHANGED << desc, head, exported, target, patches, lock, index, commit, proven >>
  OBVIOUS
<1> QED
  BY <1>1 DEF FilesOK, LocksAreProven, RunOK, Idle, SuccessIsReproducible

\* What the maintainer does between two runs, and the repositories at any time.
LEMMA OutsideInv ==
  ASSUME VendorInv, Restore \/ DeleteLock \/ UpstreamMoves
  PROVE  VendorInv'
<1> USE DEF VendorInv, At, ghosts, world, files, git
<1>1. CASE Restore
  <2>1. /\ UNCHANGED << desc, head, exported, main, commit, proven >>
        /\ main.pc = "idle" /\ outcome' = "none" /\ index' = commit
        /\ DOMAIN target' = Item
        /\ lock' \in {lock, commit.lock} /\ patches' \subseteq commit.patches \union patches
    BY <1>1 DEF Restore
  <2> QED
    BY <2>1 DEF FilesOK, LocksAreProven, RunOK, SuccessIsReproducible
<1>2. CASE DeleteLock
  <2>1. /\ UNCHANGED << desc, head, exported, main, target, patches, index, commit, proven >>
        /\ main.pc = "idle" /\ outcome' = "none" /\ lock' = NoLock
    BY <1>2 DEF DeleteLock
  <2>2. FilesOK'
    BY <2>1 DEF FilesOK, Lock
  <2>3. LocksAreProven'
    BY <2>1 DEF LocksAreProven
  <2> QED
    BY <2>1, <2>2, <2>3 DEF RunOK, SuccessIsReproducible
<1>3. CASE UpstreamMoves
  <2>1. UNCHANGED << desc, target, patches, lock, index, commit, proven, main, outcome >>
    BY <1>3 DEF UpstreamMoves
  <2>2. head' \in [Url -> Rev] /\ exported' \subseteq Patch
    <3>1. \A u \in Url : head[u] + 1 \in Rev
      BY DEF FilesOK, Rev
    <3> QED
      BY <1>3, <3>1 DEF UpstreamMoves, FilesOK
  <2>3. FilesOK' /\ LocksAreProven' /\ SuccessIsReproducible'
    BY <2>1, <2>2 DEF FilesOK, LocksAreProven, SuccessIsReproducible
  <2>4. cloned' = cloned /\ \A i : (Done(i)' <=> Done(i)) /\ Want(i)' = Want(i)
    BY <2>1 DEF cloned, Done, Want
  <2>5. RevisionOK' <=> RevisionOK
    BY <2>1, <2>4 DEF RevisionOK
  <2>6. ItemsOK' <=> ItemsOK
    BY <2>1, <2>4 DEF ItemsOK
  <2> QED
    BY <2>1, <2>3, <2>5, <2>6 DEF RunOK
<1> QED
  BY <1>1, <1>2, <1>3

\* Every step of the tool, of the maintainer and of the repositories.
LEMMA VendorStep == VendorInv /\ [VendorNext]_vars => VendorInv'
<1>1. ASSUME VendorInv, UNCHANGED vars PROVE VendorInv'
  <2>1. UNCHANGED << desc, head, exported, target, patches, lock, index, commit, main, outcome, proven >>
    BY <1>1 DEF vars, world, files, git, ghosts
  <2>2. FilesOK' /\ LocksAreProven' /\ SuccessIsReproducible'
    BY <1>1, <2>1 DEF VendorInv, FilesOK, LocksAreProven, SuccessIsReproducible
  <2>3. (RevisionOK' <=> RevisionOK) /\ (ItemsOK' <=> ItemsOK)
    BY <2>1 DEF RevisionOK, ItemsOK, cloned, Done, Want
  <2> QED
    BY <1>1, <2>1, <2>2, <2>3 DEF VendorInv, RunOK
<1>2. ASSUME VendorInv, VendorNext PROVE VendorInv'
  BY <1>2, StartInv, ReadingInv, CloneInv, RmtreeInv, CopyInv, ApplyPatchInv, ItemDoneInv, WritingInv,
     GitInv, EndInv, FailInv, OutsideInv DEF VendorNext, Steps
<1> QED
  BY <1>1, <1>2

-----------------------------------------------------------------------------
\* The inductive invariant: what each step of main() may rely on, whatever
\* earlier runs left behind and wherever they stopped.
THEOREM VendorInvariant == VendorSpec => []VendorInv
<1> QED
  BY VendorInitInv, VendorStep, PTL DEF VendorSpec

\* util/vendor.py writes the lock file after import_from_upstream and every
\* patch: the revision it names was imported to the end at least once.
THEOREM LockProven == VendorSpec => []LockIsProven
<1>1. VendorInv => LockIsProven
  BY DEF VendorInv, LocksAreProven, LockIsProven
<1> QED
  BY <1>1, VendorInvariant, PTL

\* util/vendor.py: when main() returns without an error, the target directory
\* is what the description, the lock file and the patches say.
THEOREM SuccessReproducible == VendorSpec => []SuccessIsReproducible
<1>1. VendorInv => SuccessIsReproducible
  BY DEF VendorInv
<1> QED
  BY <1>1, VendorInvariant, PTL

-----------------------------------------------------------------------------
(***************************************************************************)
(* The commits of the import tool (--commit): each of them can be rebuilt  *)
(* from the lock file and the patches it contains, and its message lists   *)
(* the upstream changes since the commit before.                           *)
(***************************************************************************)
(***************************************************************************)
(* What a run that will commit knows about git, on top of VendorInv.       *)
(***************************************************************************)
\* A mapping of one item leaves the place of a second one alone.
TreeOK(t) == /\ t = [i \in Item |-> t[i]]
             /\ \A i \in Item : i > Len(items(desc)) => t[i] = Absent

TreesOK == TreeOK(target) /\ TreeOK(index.target) /\ TreeOK(commit.target)

\* --commit begins with a clean working directory, and only --refresh-patches
\* changes what git tracks before it is added.
StagingOK ==
  /\ main.args \in CommandLine
  /\ main.pc \in {"unlink", "export"} => main.args.refresh_patches
  /\ main.pc \in {"add", "commit"} => main.args.commit
  /\ main.args.commit /\ main.pc \notin {"commit", "end"} =>
       index = commit /\ (~main.args.refresh_patches => commit.patches \subseteq patches)
  /\ main.pc = "commit" =>
       /\ index.target = target /\ index.lock = lock
       /\ index.patches \subseteq patches
       /\ main.args.refresh_patches => index.patches = patches

\* The old lock file is the one of the last commit, and the shortlog begins
\* with its revision.
ShortlogOK ==
  /\ main.args.commit /\ main.pc # "end" /\ commit.lock # NoLock => main.old = commit.lock
  /\ main.update /\ main.old \in Upstream => (main.changed_url <=> main.old.url # main.up.url)
  /\ main.pc \in Writing \union Locked /\ main.old \in Upstream /\ main.old.rev # Master =>
       main.shortlog = IF ~main.update \/ main.changed_url THEN {} ELSE main.old.rev + 1 .. main.rev

CommittingOK == main.pc # "idle" => StagingOK /\ ShortlogOK

CommitInv == TreesOK /\ CommittingOK

-----------------------------------------------------------------------------
\* CommitInv before the first run.
LEMMA CommitInvInit == VendorInit => CommitInv
<1> SUFFICES ASSUME VendorInit PROVE CommitInv
  OBVIOUS
<1>1. PICK ps \in IF desc.patch_dir THEN SUBSET Patch ELSE {{}} :
        commit \in {[EmptyTree EXCEPT !.patches = ps],
                   [EmptyTree EXCEPT !.patches = ps, !.lock = [url |-> desc.upstream.url, rev |-> Master]],
                   LET u == [url |-> desc.upstream.url, rev |-> 1]
                   IN  [target |-> ImportOf(desc, u, ps), patches |-> ps, lock |-> u]}
  BY DEF VendorInit
<1>2. TreeOK(EmptyTarget)
  BY DEF TreeOK, EmptyTarget
<1>3. \A u : TreeOK(ImportOf(desc, u, ps))
  BY DEF TreeOK, ImportOf
<1>4. commit.target = EmptyTarget \/ \E u : commit.target = ImportOf(desc, u, ps)
  <2> DEFINE one == [EmptyTree EXCEPT !.patches = ps]
             two == [EmptyTree EXCEPT !.patches = ps, !.lock = [url |-> desc.upstream.url, rev |-> Master]]
             u   == [url |-> desc.upstream.url, rev |-> 1]
             three == [target |-> ImportOf(desc, u, ps), patches |-> ps, lock |-> u]
  <2>1. one.target = EmptyTarget /\ two.target = EmptyTarget /\ three.target = ImportOf(desc, u, ps)
    BY DEF EmptyTree
  <2>2. commit \in {one, two, three}
    BY <1>1
  <2> HIDE DEF one, two, three
  <2> QED
    BY ONLY <2>1, <2>2
<1>5. index = commit /\ target = commit.target /\ main = Idle
  BY DEF VendorInit
<1> QED
  BY <1>2, <1>3, <1>4, <1>5 DEF CommitInv, TreesOK, CommittingOK, Idle

\* The clean working directory of --commit.
LEMMA StartCommitInv ==
  ASSUME VendorInv, CommitInv, NEW a \in Args, Start(a)
  PROVE  CommitInv'
<1> USE DEF Start, Stop, At, ghosts, world, files, git
<1>1. UNCHANGED << desc, target, patches, lock, index, commit >>
  OBVIOUS
<1>2. TreesOK'
  BY <1>1 DEF CommitInv, TreesOK, TreeOK
<1>3. CASE Refused(a)
  <2>1. main'.pc = "idle"
    BY <1>3 DEF Idle
  <2> QED
    BY <1>2, <2>1 DEF CommitInv, CommittingOK
<1>4. CASE ~Refused(a)
  <2> DEFINE update == a.update \/ lock = NoLock
             up     == IF update THEN overridden(desc, a) ELSE lock
  <2>1. /\ main'.pc = (IF a.refresh_patches THEN "unlink" ELSE "clone")
        /\ main'.args = a /\ main'.update = update /\ main'.up = up /\ main'.old = lock
        /\ main'.changed_url = (lock # NoLock /\ lock.url # overridden(desc, a).url)
    BY <1>4
  <2>2. a \in CommandLine
    OBVIOUS
  <2>3. a.commit => git_is_clean_workdir
    BY <1>4 DEF Refused
  <2>4. main'.pc \in {"unlink", "clone"} /\ (main'.pc = "unlink" => a.refresh_patches)
    BY <2>1
  <2> HIDE DEF Start
  <2>5. StagingOK'
    BY <1>1, <2>1, <2>2, <2>3, <2>4 DEF StagingOK, git_is_clean_workdir
  <2>6. (main.args.commit /\ main.pc # "end" /\ commit.lock # NoLock => main.old = commit.lock)'
    BY <1>1, <2>1, <2>3 DEF git_is_clean_workdir
  <2>7. (main.update /\ main.old \in Upstream => (main.changed_url <=> main.old.url # main.up.url))'
    BY <1>1, <2>1
  <2>8. ShortlogOK'
    BY <2>4, <2>6, <2>7 DEF ShortlogOK, Writing, Locked
  <2> QED
    BY <1>2, <2>5, <2>8 DEF CommitInv, CommittingOK
<1> QED
  BY <1>3, <1>4

\* What stays the same while a run is under way.
Same == /\ main'.args = main.args /\ main'.update = main.update /\ main'.up = main.up
        /\ main'.old = main.old /\ main'.changed_url = main.changed_url

\* Patches change only when they are refreshed.
LEMMA ReadingCommitInv ==
  ASSUME VendorInv, CommitInv, (\E p \in Patch : Unlink(p)) \/ ClonePatchRepo \/ Export
  PROVE  CommitInv'
<1>1. /\ UNCHANGED << desc, target, lock, index, commit >> /\ Same
      /\ main.pc \in {"unlink", "export"} /\ main'.pc \in {"unlink", "export", "clone"}
  BY DEF VendorInv, RunOK, Fields, Same, Unlink, ClonePatchRepo, Export, Goto, At, ghosts, world, files, git
<1>2. main.args.refresh_patches
  BY <1>1 DEF CommitInv, CommittingOK, StagingOK
<1>3. TreesOK'
  BY <1>1 DEF CommitInv, TreesOK, TreeOK
<1>4. StagingOK'
  BY <1>1, <1>2 DEF CommitInv, CommittingOK, StagingOK, Same
<1>5. ShortlogOK'
  BY <1>1 DEF CommitInv, CommittingOK, ShortlogOK, Same, Writing, Locked
<1> QED
  BY <1>3, <1>4, <1>5 DEF CommitInv, CommittingOK

\* The target directory changes; git and the patches do not.
LEMMA CopyingCommitInv ==
  ASSUME VendorInv, CommitInv, Clone \/ Rmtree \/ RmtreeFails \/ Copy \/ ApplyPatch
  PROVE  CommitInv'
<1>1. UNCHANGED << desc, patches, lock, index, commit >> /\ main.pc \in {"clone"} \union Copying
  BY DEF Copying, Clone, Rmtree, RmtreeFails, Copy, ApplyPatch, At, ghosts, world, files, git
<1>2. main'.pc = "idle" \/ (main'.pc \in Copying /\ Same)
  <2>1. DOMAIN main = Fields /\ main.pc # "idle"
    BY <1>1 DEF VendorInv, RunOK, Copying
  <2>2. CASE main' = Idle
    BY <2>2 DEF Idle
  <2>3. CASE Clone /\ main' # Idle
    BY <2>1, <2>3 DEF Fields, Same, Copying, Clone, Stop
  <2>4. CASE Rmtree \/ RmtreeFails
    BY <2>1, <2>4 DEF Fields, Same, Copying, Rmtree, RmtreeFails, Goto
  <2>5. CASE Copy /\ main' # Idle
    <3>1. \E todo : main' = [main EXCEPT !.pc = "patch", !.todo = todo]
      BY <2>5 DEF Copy, Stop
    <3> QED
      BY <2>1, <3>1 DEF Fields, Same, Copying
  <2>6. CASE ApplyPatch
    <3>1. main.pc = "patch" /\ \E todo : main' = [main EXCEPT !.todo = todo]
      BY <2>6 DEF ApplyPatch, At
    <3> QED
      BY <2>1, <3>1 DEF Fields, Same, Copying
  <2> QED
    BY <2>2, <2>3, <2>4, <2>5, <2>6
<1>3. TreeOK(target)'
  <2>1. TreeOK(target)
    BY DEF CommitInv, TreesOK
  <2>2. CASE Clone
    BY <1>1, <2>1, <2>2 DEF TreeOK, Clone, files
  <2>3. CASE Rmtree
    BY <1>1, <2>1, <2>3 DEF TreeOK, Rmtree, EmptyTarget
  <2>4. CASE RmtreeFails
    <3>1. PICK left : target' = [i \in Item |-> IF i \in left THEN target[i] ELSE Absent]
      BY <2>4 DEF RmtreeFails
    <3> QED
      BY <1>1, <2>1, <3>1 DEF TreeOK
  <2>5. ASSUME Copy \/ ApplyPatch PROVE TreeOK(target)'
    <3>1. main.item \in 1 .. Len(items(desc)) /\ main.item \in Item /\ Len(items(desc)) \in Item
      <4>1. main.pc \in {"copy", "patch"} /\ desc \in Descs
        BY <2>5 DEF Copy, ApplyPatch, At, VendorInv, FilesOK
      <4> QED
        BY <4>1, ItemsOfDesc DEF VendorInv, RunOK, ItemsOK
    <3>2. target' = target \/ \E v : target' = [target EXCEPT ![main.item] = v]
      <4>1. CASE Copy
        BY <4>1 DEF Copy
      <4>2. CASE ApplyPatch
        <5>1. target' = [target EXCEPT ![main.item].applied = @ \union {FirstOf(main.todo)}]
          BY <4>2 DEF ApplyPatch
        <5>2. target' = [target EXCEPT ![main.item] =
                           [target[main.item] EXCEPT !.applied = target[main.item].applied \union {FirstOf(main.todo)}]]
          BY ONLY <5>1
        <5> QED
          BY <5>2
      <4> QED
        BY <2>5, <4>1, <4>2
    <3>3. target' = [i \in Item |-> target'[i]]
      BY ONLY <2>1, <3>2 DEF TreeOK
    <3>4. \A i \in Item : i > Len(items(desc)) => target'[i] = target[i]
      BY ONLY <2>1, <3>1, <3>2 DEF TreeOK, Item, MaxItems
    <3> QED
      BY ONLY <1>1, <2>1, <3>3, <3>4 DEF TreeOK
  <2> QED
    BY <2>2, <2>3, <2>4, <2>5
<1>4. TreesOK'
  BY <1>1, <1>3 DEF CommitInv, TreesOK, TreeOK
<1>5. CASE main'.pc = "idle"
  BY <1>4, <1>5 DEF CommitInv, CommittingOK
<1>6. CASE main'.pc \in Copying /\ Same
  <2>1. StagingOK'
    BY <1>1, <1>6 DEF CommitInv, CommittingOK, StagingOK, Same, Copying
  <2>2. ShortlogOK'
    BY <1>1, <1>6 DEF CommitInv, CommittingOK, ShortlogOK, Same, Copying, Writing, Locked
  <2> QED
    BY <1>4, <2>1, <2>2 DEF CommitInv, CommittingOK
<1> QED
  BY <1>2, <1>5, <1>6

\* The shortlog is made when the last item is done.
LEMMA ItemDoneCommitInv ==
  ASSUME VendorInv, CommitInv, ItemDone
  PROVE  CommitInv'
<1>1. UNCHANGED << desc, target, patches, lock, index, commit >> /\ main.pc = "patch" /\ Same
  BY DEF ItemDone, At, VendorInv, RunOK, Fields, Same, ghosts, world, files, git
<1>2. TreesOK'
  BY <1>1 DEF CommitInv, TreesOK, TreeOK
<1>3. \/ main'.pc = "copy"
      \/ /\ main'.pc = AfterImport /\ main'.shortlog = shortlog /\ main'.rev = main.rev
  BY <1>1 DEF ItemDone, VendorInv, RunOK, Fields
<1>4. main'.pc \in {"copy", "open", "add", "end"} /\ (main'.pc = "add" => main.args.commit)
  BY <1>3 DEF AfterImport
<1>5. StagingOK'
  BY <1>1, <1>4 DEF CommitInv, CommittingOK, StagingOK, Same
<1>6. ShortlogOK'
  <2>1. main.old \in Upstream /\ main.old.rev # Master =>
          shortlog = IF ~main.update \/ main.changed_url THEN {} ELSE main.old.rev + 1 .. main.rev
    BY DEF shortlog, produce_shortlog
  <2> QED
    BY <1>1, <1>3, <1>4, <2>1 DEF CommitInv, CommittingOK, ShortlogOK, Same, Writing, Locked
<1> QED
  BY <1>2, <1>5, <1>6 DEF CommitInv, CommittingOK

\* The lock file is written, and the tree is staged.
LEMMA StagingCommitInv ==
  ASSUME VendorInv, CommitInv, OpenLock \/ DumpLock \/ Add
  PROVE  CommitInv'
<1>1. /\ UNCHANGED << desc, target, patches, commit >> /\ main.pc \in Writing \union {"add"} /\ Same
      /\ main'.rev = main.rev /\ main'.shortlog = main.shortlog
      /\ \/ /\ main'.pc \in {"dump", "add", "end"} /\ (main'.pc = "add" => main.args.commit)
            /\ UNCHANGED index
         \/ /\ main.pc = "add" /\ main'.pc = "commit" /\ index' = staged /\ UNCHANGED lock
  BY DEF OpenLock, DumpLock, Add, Goto, At, VendorInv, RunOK, Fields, Same, Writing, ghosts, world, files, git
<1>2. index'.target \in {index.target, target}
  BY <1>1 DEF staged
<1>3. TreesOK'
  BY <1>1, <1>2 DEF CommitInv, TreesOK, TreeOK
<1>4. StagingOK'
  <2>1. CASE main'.pc = "commit"
    <3>1. main.pc = "add" /\ index' = staged /\ UNCHANGED lock
      BY <1>1, <2>1
    <3>2. index = commit /\ main.args.commit /\ (~main.args.refresh_patches => commit.patches \subseteq patches)
      BY <3>1 DEF CommitInv, CommittingOK, StagingOK
    <3>3. /\ index'.target = target /\ index'.lock = lock
          /\ index'.patches = IF main.args.refresh_patches THEN patches ELSE index.patches
      BY <3>1 DEF staged
    <3> QED
      BY <1>1, <2>1, <3>1, <3>2, <3>3 DEF CommitInv, CommittingOK, StagingOK, Same
  <2>2. CASE main'.pc # "commit"
    BY <1>1, <2>2 DEF CommitInv, CommittingOK, StagingOK, Same, Writing
  <2> QED
    BY <2>1, <2>2
<1>5. ShortlogOK'
  BY <1>1 DEF CommitInv, CommittingOK, ShortlogOK, Same, Writing, Locked
<1> QED
  BY <1>3, <1>4, <1>5 DEF CommitInv, CommittingOK

\* What is committed is what was staged.
LEMMA GitCommitInv ==
  ASSUME VendorInv, CommitInv, Commit
  PROVE  CommitInv'
<1>1. /\ UNCHANGED << desc, target, patches, lock, index >> /\ main.pc = "commit" /\ main'.pc = "end" /\ Same
      /\ main'.rev = main.rev /\ main'.shortlog = main.shortlog /\ commit' \in {commit, index}
  BY DEF Commit, Goto, At, VendorInv, RunOK, Fields, Same, ghosts, world, files, git
<1>2. TreesOK'
  BY <1>1 DEF CommitInv, TreesOK, TreeOK
<1>3. StagingOK'
  BY <1>1 DEF CommitInv, CommittingOK, StagingOK, Same
<1>4. ShortlogOK'
  BY <1>1 DEF CommitInv, CommittingOK, ShortlogOK, Same, Locked
<1> QED
  BY <1>2, <1>3, <1>4 DEF CommitInv, CommittingOK

\* Between two runs.
LEMMA OutsideCommitInv ==
  ASSUME VendorInv, CommitInv, End \/ Fail \/ Restore \/ DeleteLock \/ UpstreamMoves
  PROVE  CommitInv'
<1>1. CASE End \/ Fail \/ DeleteLock
  <2>1. UNCHANGED << desc, target, index, commit >> /\ main'.pc = "idle"
    BY <1>1 DEF End, Fail, DeleteLock, Stop, Idle, At, world, files, git
  <2> QED
    BY <2>1 DEF CommitInv, TreesOK, TreeOK, CommittingOK
<1>2. CASE Restore
  <2>1. /\ UNCHANGED << desc, commit >> /\ main'.pc = "idle" /\ index' = commit
        /\ target' = [i \in Item |-> IF commit.target[i] # Absent \/ index.target[i] # Absent
                                     THEN commit.target[i] ELSE target[i]]
    BY <1>2 DEF Restore, At, world
  <2>2. TreeOK(target)'
    BY <2>1 DEF CommitInv, TreesOK, TreeOK
  <2> QED
    BY <2>1, <2>2 DEF CommitInv, TreesOK, TreeOK, CommittingOK
<1>3. CASE UpstreamMoves
  <2>1. UNCHANGED << desc, target, patches, lock, index, commit, main >>
    BY <1>3 DEF UpstreamMoves, files, git
  <2> QED
    BY <2>1 DEF CommitInv, TreesOK, TreeOK, CommittingOK, StagingOK, ShortlogOK
<1> QED
  BY <1>1, <1>2, <1>3

\* Every step preserves CommitInv.
LEMMA CommitInvStep == VendorInv /\ CommitInv /\ [VendorNext]_vars => CommitInv'
<1>1. ASSUME CommitInv, UNCHANGED vars PROVE CommitInv'
  <2>1. UNCHANGED << desc, target, patches, lock, index, commit, main >>
    BY <1>1 DEF vars, world, files, git
  <2> QED
    BY <1>1, <2>1 DEF CommitInv, TreesOK, TreeOK, CommittingOK, StagingOK, ShortlogOK
<1>2. ASSUME VendorInv, CommitInv, VendorNext PROVE CommitInv'
  BY <1>2, StartCommitInv, ReadingCommitInv, CopyingCommitInv, ItemDoneCommitInv, StagingCommitInv,
     GitCommitInv, OutsideCommitInv DEF VendorNext, Steps
<1> QED
  BY <1>1, <1>2

-----------------------------------------------------------------------------
\* The commit changes in one step of the tool only.
LEMMA OnlyCommitCommits ==
  ASSUME [VendorNext]_vars, commit' # commit
  PROVE  Commit /\ UNCHANGED << desc, lock, patches, target >>
BY DEF VendorNext, Steps, vars, world, files, git, ghosts, Start, Stop, Unlink, ClonePatchRepo, Export, Clone, Rmtree,
       RmtreeFails, Copy, ApplyPatch, ItemDone, OpenLock, DumpLock, Add, Commit, End, Fail, Restore, DeleteLock,
       UpstreamMoves

CommitReproducible ==
  commit' # commit =>
    /\ patches \subseteq index.patches =>
         commit'.target = ImportOf(desc, commit'.lock, commit'.patches)
    /\ commit.lock \in Upstream /\ commit.lock.rev # Master =>
         main.shortlog = IF commit.lock.url # commit'.lock.url THEN {}
                         ELSE commit.lock.rev + 1 .. commit'.lock.rev

\* The step that commits satisfies the action property.
LEMMA CommitStep == VendorInv /\ CommitInv /\ [VendorNext]_vars => CommitReproducible
<1> SUFFICES ASSUME VendorInv, CommitInv, [VendorNext]_vars, commit' # commit
             PROVE  CommitReproducible
  BY DEF CommitReproducible
<1>1. Commit
  BY OnlyCommitCommits
<1>2. main.pc = "commit" /\ commit' = index /\ desc \in Descs
  BY <1>1 DEF Commit, At, VendorInv, FilesOK
<1>3. StagingOK /\ ShortlogOK /\ RevisionOK /\ ItemsOK
  BY <1>2 DEF CommitInv, CommittingOK, VendorInv, RunOK
<1>4. /\ index.target = target /\ index.lock = lock /\ index.patches \subseteq patches
      /\ lock = cloned /\ main.args.commit
  BY <1>2, <1>3 DEF StagingOK, RevisionOK, Locked
<1>5. ASSUME patches \subseteq index.patches
      PROVE  commit'.target = ImportOf(desc, commit'.lock, commit'.patches)
  <2>1. index.patches = patches
    BY <1>4, <1>5
  <2>2. TreeOK(target)
    BY DEF CommitInv, TreesOK
  <2>3. \A i \in Item : target[i] = ImportOf(desc, lock, patches)[i]
    <3> SUFFICES ASSUME NEW i \in Item PROVE target[i] = ImportOf(desc, lock, patches)[i]
      OBVIOUS
    <3>1. Len(items(desc)) \in Item /\ DOMAIN items(desc) = 1 .. Len(items(desc))
      BY <1>2, ItemsOfDesc
    <3>2. CASE i > Len(items(desc))
      BY <2>2, <3>2 DEF TreeOK, ImportOf
    <3>3. CASE ~(i > Len(items(desc)))
      <4>1. i \in DOMAIN items(desc)
        BY <3>1, <3>3 DEF Item, MaxItems
      <4>2. target[i] = [from |-> lock, applied |-> Want(i)]
        BY <1>2, <1>3, <1>4, <4>1 DEF ItemsOK, Locked, Done
      <4> QED
        BY <3>3, <4>2 DEF ImportOf, Want
    <3> QED
      BY <3>2, <3>3
  <2>4. target = ImportOf(desc, lock, patches)
    <3>1. ImportOf(desc, lock, patches) = [i \in Item |-> ImportOf(desc, lock, patches)[i]]
      BY DEF ImportOf
    <3> QED
      BY ONLY <2>2, <2>3, <3>1 DEF TreeOK
  <2> QED
    BY <1>2, <1>4, <2>1, <2>4
<1>6. ASSUME commit.lock \in Upstream, commit.lock.rev # Master
      PROVE  main.shortlog = IF commit.lock.url # commit'.lock.url THEN {}
                             ELSE commit.lock.rev + 1 .. commit'.lock.rev
  <2>1. main.old = commit.lock
    BY <1>2, <1>3, <1>4, <1>6 DEF ShortlogOK
  <2>2. main.shortlog = IF ~main.update \/ main.changed_url THEN {} ELSE main.old.rev + 1 .. main.rev
    BY <1>2, <1>3, <1>6, <2>1 DEF ShortlogOK, Locked
  <2>3. commit'.lock = cloned /\ cloned.url = main.up.url /\ cloned.rev = main.rev
    BY <1>2, <1>4 DEF cloned
  <2>4. CASE main.update
    BY <1>3, <1>6, <2>1, <2>2, <2>3, <2>4 DEF ShortlogOK
  <2>5. CASE ~main.update
    <3>1. main.up = main.old /\ main.rev = main.old.rev /\ main.rev \in Rev
      BY <1>2, <1>3, <2>5 DEF RevisionOK, Locked
    <3>2. main.rev + 1 .. main.rev = {}
      BY <3>1 DEF Rev
    <3> QED
      BY <2>1, <2>2, <2>3, <2>5, <3>1, <3>2
  <2> QED
    BY <2>4, <2>5
<1> QED
  BY <1>5, <1>6 DEF CommitReproducible

\* util/vendor.py, main() and commit_paths: what --commit commits is what the
\* committed lock file and patches describe, and the shortlog in its message
\* goes from the revision of the last commit to that of this one.
THEOREM CommitsAreReproducible == VendorSpec => CommitsReproducible
<1>1. VendorInv /\ CommitInv /\ [VendorNext]_vars => [CommitReproducible]_vars
  BY CommitStep
<1>2. CommitsReproducible <=> [][CommitReproducible]_vars
  BY PTL DEF CommitsReproducible, CommitReproducible
<1> QED
  BY <1>1, <1>2, CommitInvInit, CommitInvStep, VendorInvariant, PTL DEF VendorSpec
=============================================================================
