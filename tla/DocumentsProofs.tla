--------------------------- MODULE DocumentsProofs ---------------------------
(***************************************************************************)
(* Proof about the port documents: for all packages, series of changes and *)
(* source files, and in whatever order documents are generated.            *)
(***************************************************************************)
EXTENDS Documents, UserConfigProofs, FiniteSetTheorems

-----------------------------------------------------------------------------
(***************************************************************************)
(* The comment above a line.                                               *)
(***************************************************************************)
NoComment == src("comment", None, None)

\* There is none above the first line.
LEMMA AboutFirst == ASSUME NEW lines PROVE AboutPort(lines, 1) = NoComment
<1>1. {j \in 1 .. 1 - 1 : lines[j].kind = "comment" /\ \A k \in j .. 1 - 1 : lines[k].kind # "port"} = {}
  OBVIOUS
<1> QED
  BY <1>1 DEF AboutPort, NoComment

\* Above the next line it is the line itself, none behind a port, or the one
\* that was above the line.
LEMMA AboutNext ==
  ASSUME NEW lines, NEW i \in Nat \ {0}
  PROVE  AboutPort(lines, i + 1) = CASE lines[i].kind = "comment" -> lines[i]
                                     [] lines[i].kind = "port"    -> NoComment
                                     [] OTHER                     -> AboutPort(lines, i)
<1> DEFINE above(m) == {j \in 1 .. m - 1 : lines[j].kind = "comment" /\ \A k \in j .. m - 1 : lines[k].kind # "port"}
<1>1. \A m : AboutPort(lines, m) = IF above(m) = {} THEN NoComment ELSE lines[Max(above(m))]
  BY DEF AboutPort, NoComment
<1>2. CASE lines[i].kind = "comment"
  <2>1. i \in above(i + 1) /\ above(i + 1) \subseteq 1 .. i
    BY <1>2
  <2>2. Max(above(i + 1)) = i
    <3> DEFINE S == above(i + 1)
    <3> HIDE DEF above
    <3>1. \A x \in S : (\A y \in S : x >= y) => x = i
      BY <2>1
    <3>2. i \in S /\ \A y \in S : i >= y
      BY <2>1
    <3> HIDE DEF S
    <3>3. Max(S) = i
      BY <3>1, <3>2 DEF Max
    <3> QED
      BY <3>3 DEF S
  <2> HIDE DEF above
  <2> QED
    BY <1>1, <1>2, <2>1, <2>2
<1>3. CASE lines[i].kind = "port"
  <2>1. above(i + 1) = {}
    BY <1>3
  <2> HIDE DEF above
  <2> QED
    BY <1>1, <1>3, <2>1
<1>4. CASE lines[i].kind \notin {"comment", "port"}
  <2>1. above(i + 1) = above(i)
    <3>1. ASSUME NEW j \in 1 .. i - 1, \A k \in j .. i - 1 : lines[k].kind # "port"
          PROVE  \A k \in j .. i : lines[k].kind # "port"
      BY <1>4, <3>1
    <3>2. above(i) \subseteq above(i + 1)
      BY <3>1
    <3>3. above(i + 1) \subseteq above(i)
      BY <1>4
    <3> QED
      BY <3>2, <3>3
  <2> HIDE DEF above
  <2> QED
    BY <1>1, <1>4, <2>1
<1> QED
  BY <1>2, <1>3, <1>4

-----------------------------------------------------------------------------
(***************************************************************************)
(* The entries of the blacklist.                                           *)
(***************************************************************************)
\* the dictionary that define_blacklist makes of its entries
Dictionary(ties) == [k \in {b.key : b \in ties} |-> CHOOSE b \in ties : b.key = k]

\* No two entries have one key.
LEMMA KeysDiffer ==
  ASSUME NEW b \in Fixed \union Conditional, NEW e \in Fixed \union Conditional, b.key = e.key
  PROVE  b = e
BY DEF Fixed, Conditional

\* At most one entry applies to a port, and it is the one the dictionary gives.
LEMMA TiedIs ==
  ASSUME NEW ties, ties \subseteq Fixed \union Conditional, NEW lines, NEW i,
         NEW entry, entry = tied(Dictionary(ties), lines[i].name, AboutPort(lines, i).connexion)
  PROVE  \/ TieOf(ties, lines, i) = {} /\ entry = << >>
         \/ \E b \in ties : TieOf(ties, lines, i) = {b} /\ entry = << b >>
<1> DEFINE connexion == AboutPort(lines, i).connexion
           name      == lines[i].name
           keys      == {b.key : b \in ties}
           key       == IF \E e \in ties : e.key = connexion THEN connexion ELSE name
<1>1. TieOf(ties, lines, i) = {b \in ties : b.key = key}
  BY DEF TieOf
<1>2. DOMAIN Dictionary(ties) = keys
  BY DEF Dictionary
<1>3. (\E e \in ties : e.key = connexion) <=> connexion \in keys
  OBVIOUS
<1>4. entry = CASE connexion \in keys -> << Dictionary(ties)[connexion] >>
                [] connexion \notin keys /\ name \in keys -> << Dictionary(ties)[name] >>
                [] OTHER -> << >>
  BY <1>2 DEF tied
<1>5. entry = IF key \in keys THEN << Dictionary(ties)[key] >> ELSE << >>
  BY <1>3, <1>4
<1>6. CASE key \notin keys
  BY <1>1, <1>5, <1>6
<1>7. CASE key \in keys
  <2>1. PICK b \in ties : b.key = key
    BY <1>7
  <2>2. \A e \in ties : e.key = key => e = b
    BY <2>1, KeysDiffer
  <2>3. Dictionary(ties)[key] = b
    BY <1>7, <2>1, <2>2 DEF Dictionary
  <2>4. TieOf(ties, lines, i) = {b}
    BY <1>1, <2>1, <2>2
  <2> HIDE DEF key, keys
  <2> QED
    BY <1>5, <1>7, <2>3, <2>4
<1> QED
  BY <1>6, <1>7

-----------------------------------------------------------------------------
(***************************************************************************)
(* One more line: what the first n lines say, and the next one.            *)
(***************************************************************************)
\* The next line is a port or adds none.
LEMMA PortsNext ==
  ASSUME NEW lines, NEW n \in Nat, n + 1 \in DOMAIN lines, DOMAIN lines \subseteq Nat
  PROVE  PortsOf(lines, n + 1) = IF lines[n + 1].kind = "port" THEN PortsOf(lines, n) \union {n + 1} ELSE PortsOf(lines, n)
<1>1. \A i \in DOMAIN lines : i <= n + 1 <=> i <= n \/ i = n + 1
  OBVIOUS
<1> QED
  BY <1>1 DEF PortsOf

\* the row of a port
Row(lines, i) ==
  [name |-> lines[i].name, description |-> AboutPort(lines, i).name, connexion |-> AboutPort(lines, i).connexion]

\* Where a member of a set of numbers comes in their order.
LEMMA Places ==
  ASSUME NEW n \in Nat, NEW S, S \subseteq 1 .. n, NEW i \in S
  PROVE  Cardinality({j \in S : j <= i}) \in 1 .. Cardinality(S)
<1> DEFINE T == {j \in S : j <= i}
<1>1. IsFiniteSet(1 .. n)
  BY FS_Interval
<1>2. IsFiniteSet(S)
  BY <1>1, FS_Subset
<1>3. T \subseteq S /\ T # {}
  OBVIOUS
<1> HIDE DEF T
<1>4. IsFiniteSet(T) /\ Cardinality(T) <= Cardinality(S)
  BY <1>2, <1>3, FS_Subset
<1>5. Cardinality(T) \in Nat /\ Cardinality(S) \in Nat /\ Cardinality(T) # 0
  BY <1>2, <1>3, <1>4, FS_CardinalityType, FS_EmptySet
<1>6. Cardinality(T) \in 1 .. Cardinality(S)
  BY <1>4, <1>5
<1> QED
  BY <1>6 DEF T

\* A line that is no free port leaves the table as it is.
LEMMA TableStays ==
  ASSUME NEW ties, NEW lines, NEW n, NEW m, NEW table, FreePorts(ties, lines, m) = FreePorts(ties, lines, n),
         TableIs(ties, lines, n, table)
  PROVE  TableIs(ties, lines, m, table)
BY DEF TableIs

\* A free port goes to the end of the table.
LEMMA TableNext ==
  ASSUME NEW ties, NEW lines, NEW n \in Nat, n + 1 \in DOMAIN lines, DOMAIN lines \subseteq Nat \ {0},
         lines[n + 1].kind = "port", TieOf(ties, lines, n + 1) = {},
         NEW table, IsList(table), TableIs(ties, lines, n, table)
  PROVE  LET new == Append(table, Row(lines, n + 1))
         IN  IsList(new) /\ TableIs(ties, lines, n + 1, new)
<1> DEFINE free == FreePorts(ties, lines, n)
           i    == n + 1
           new  == Append(table, Row(lines, i))
           at(S, k) == Cardinality({j \in S : j <= k})
<1>1. free \subseteq 1 .. n
  BY DEF FreePorts, PortsOf
<1>2. FreePorts(ties, lines, i) = free \union {i}
  BY PortsNext DEF FreePorts
<1>3. IsFiniteSet(free) /\ Cardinality(free) \in Nat /\ Cardinality(free \union {i}) = Cardinality(free) + 1
  <2>1. IsFiniteSet(1 .. n) /\ i \notin free
    BY <1>1, FS_Interval
  <2>2. IsFiniteSet(free)
    BY <1>1, <2>1, FS_Subset
  <2> HIDE DEF free, i
  <2> QED
    BY <2>1, <2>2, FS_AddElement, FS_CardinalityType
<1>4. Len(table) = Cardinality(free) /\ \A k \in free : table[at(free, k)] = Row(lines, k)
  BY DEF TableIs, Row
<1>5. PICK row : row = Row(lines, i)
  OBVIOUS
<1>6. PICK S : table \in Seq(S) /\ row \in S
  <2>1. table \in Seq(Range(table) \union {row})
    BY DEF IsList
  <2> QED
    BY <2>1
<1>7. /\ new \in Seq(S) /\ Len(new) = Len(table) + 1 /\ new[Len(table) + 1] = row
      /\ \A k \in 1 .. Len(table) : new[k] = table[k]
  <2> HIDE DEF i
  <2> QED
    BY <1>5, <1>6, AppendProperties
<1>8. at(free \union {i}, i) = Len(table) + 1
  <2>1. {j \in free \union {i} : j <= i} = free \union {i}
    BY <1>1
  <2> QED
    BY <1>3, <1>4, <2>1
<1>9. ASSUME NEW k \in free PROVE at(free \union {i}, k) = at(free, k) /\ at(free, k) \in 1 .. Len(table)
  <2>1. {j \in free \union {i} : j <= k} = {j \in free : j <= k}
    BY <1>1
  <2>2. at(free, k) \in 1 .. Cardinality(free)
    <3> HIDE DEF free
    <3> QED
      BY <1>1, Places
  <2> QED
    BY <1>4, <2>1, <2>2
<1>10. IsList(new)
  BY <1>7, ListOf
<1>11. Len(new) = Cardinality(free \union {i})
  BY <1>3, <1>4, <1>7
<1>12. \A k \in free \union {i} : new[at(free \union {i}, k)] = Row(lines, k)
  <2> HIDE DEF free, at, new, i
  <2> QED
    BY <1>4, <1>5, <1>7, <1>8, <1>9
<1>13. TableIs(ties, lines, i, new)
  <2> HIDE DEF new, free, i
  <2> QED
    BY <1>2, <1>11, <1>12 DEF TableIs, Row
<1> QED
  BY <1>10, <1>13

-----------------------------------------------------------------------------
(***************************************************************************)
(* One more tied port.                                                     *)
(***************************************************************************)
\* a list of comments with their parts
Comment(c)         == c = [reason |-> c.reason, tied |-> c.tied] /\ IsList(c.tied)
Comments(comments) == IsList(comments) /\ \A k \in DOMAIN comments : Comment(comments[k])

\* What add_comment returns: the list of the reason has the entry at its end, and
\* the list is new when there is none.
Added(old, new, reason, entry) ==
  \/ /\ \A c \in DOMAIN old : old[c].reason # reason
     /\ DOMAIN new = DOMAIN old \union {Len(old) + 1}
     /\ \A c \in DOMAIN old : new[c] = old[c]
     /\ new[Len(old) + 1] = [reason |-> reason, tied |-> << entry >>]
  \/ \E a \in DOMAIN old :
       /\ old[a].reason = reason
       /\ DOMAIN new = DOMAIN old
       /\ \A c \in DOMAIN old \ {a} : new[c] = old[c]
       /\ new[a] = [reason |-> reason, tied |-> Append(old[a].tied, entry)]

\* A list that is longer by one member.
LEMMA Longer ==
  ASSUME NEW s, IsList(s), NEW x
  PROVE  /\ IsList(Append(s, x)) /\ Range(Append(s, x)) = Range(s) \union {x}
         /\ DOMAIN s = 1 .. Len(s) /\ Len(s) \in Nat /\ DOMAIN Append(s, x) = 1 .. Len(s) + 1
         /\ Append(s, x)[Len(s) + 1] = x /\ \A k \in DOMAIN s : Append(s, x)[k] = s[k]
<1> DEFINE S == Range(s) \union {x}
           t == Append(s, x)
<1>1. s \in Seq(S) /\ x \in S
  BY DEF IsList
<1>2. t \in Seq(S) /\ Len(t) = Len(s) + 1 /\ t[Len(s) + 1] = x /\ \A k \in 1 .. Len(s) : t[k] = s[k]
  <2> HIDE DEF S
  <2> QED
    BY <1>1, AppendProperties
<1>3. DOMAIN s = 1 .. Len(s) /\ Len(s) \in Nat
  BY ListOf DEF IsList
<1>4. IsList(t) /\ DOMAIN t = 1 .. Len(s) + 1
  <2> HIDE DEF t, S
  <2> QED
    BY <1>2, <1>3, ListOf
<1>5. Range(t) = S
  <2> HIDE DEF t
  <2>1. 1 .. Len(s) + 1 = DOMAIN s \union {Len(s) + 1}
    BY <1>3
  <2>2. Range(t) = {t[k] : k \in DOMAIN s} \union {t[Len(s) + 1]}
    BY <1>4, <2>1 DEF Range
  <2>3. {t[k] : k \in DOMAIN s} = Range(s)
    BY <1>2, <1>3 DEF Range
  <2> QED
    BY <1>2, <2>2, <2>3
<1> QED
  BY <1>2, <1>3, <1>4, <1>5

\* An entry that is not in a list with different members may go to its end.
LEMMA LongerInjective ==
  ASSUME NEW s, IsList(s), NEW x, IsInjective(s), x \notin Range(s)
  PROVE  IsInjective(Append(s, x))
<1>1. /\ DOMAIN s = 1 .. Len(s) /\ Len(s) \in Nat /\ DOMAIN Append(s, x) = 1 .. Len(s) + 1
      /\ Append(s, x)[Len(s) + 1] = x /\ \A k \in DOMAIN s : Append(s, x)[k] = s[k]
  BY Longer
<1>2. \A k \in DOMAIN s : s[k] # x
  BY DEF Range
<1>3. \A k \in DOMAIN Append(s, x) : k \in DOMAIN s \/ k = Len(s) + 1
  BY <1>1
<1> QED
  BY <1>1, <1>2, <1>3 DEF IsInjective

\* add_comment, case by case
LEMMA AddedIs ==
  ASSUME NEW old, Comments(old), NEW reason, NEW entry
  PROVE  Comments(add_comment(old, reason, entry)) /\ Added(old, add_comment(old, reason, entry), reason, entry)
<1> DEFINE at  == {i \in DOMAIN old : old[i].reason = reason}
           new == add_comment(old, reason, entry)
<1>1. IsList(old) /\ \A k \in DOMAIN old : Comment(old[k])
  BY DEF Comments
<1>2. CASE at = {}
  <2>1. PICK c : c = [reason |-> reason, tied |-> << entry >>]
    OBVIOUS
  <2>2. new = Append(old, c)
    BY <1>2, <2>1 DEF add_comment
  <2>3. /\ IsList(new) /\ DOMAIN old = 1 .. Len(old) /\ Len(old) \in Nat /\ DOMAIN new = 1 .. Len(old) + 1
        /\ new[Len(old) + 1] = c /\ \A k \in DOMAIN old : new[k] = old[k]
    <3> HIDE DEF new
    <3> QED
      BY <1>1, <2>2, Longer
  <2>4. DOMAIN new = DOMAIN old \union {Len(old) + 1}
    BY <2>3
  <2>5. Comment(c)
    BY <2>1, ShortLists DEF Comment
  <2> HIDE DEF new
  <2> QED
    BY <1>1, <1>2, <2>1, <2>3, <2>4, <2>5 DEF Comments, Added, new
<1>3. CASE at # {}
  <2>1. PICK a \in at : a = CHOOSE i \in at : TRUE
    BY <1>3
  <2>2. PICK c : c = [reason |-> reason, tied |-> Append(old[a].tied, entry)]
    OBVIOUS
  <2>3. old[a] = [reason |-> old[a].reason, tied |-> old[a].tied] /\ IsList(old[a].tied) /\ old[a].reason = reason
    BY <1>1 DEF Comment
  <2>4. new = [old EXCEPT ![a] = c]
    <3>1. new = [old EXCEPT ![a].tied = Append(@, entry)]
      BY <1>3, <2>1 DEF add_comment
    <3>2. [old[a] EXCEPT !.tied = Append(old[a].tied, entry)] = c
      BY <2>2, <2>3
    <3> QED
      BY <3>1, <3>2
  <2>5. Comment(c)
    BY <2>2, <2>3, Longer DEF Comment
  <2>6. DOMAIN new = DOMAIN old /\ new[a] = c /\ \A k \in DOMAIN old \ {a} : new[k] = old[k]
    BY <2>4
  <2>7. IsList(new)
    <3>1. old \in Seq(Range(old) \union {c}) /\ c \in Range(old) \union {c}
      BY <1>1 DEF IsList
    <3>2. new \in Seq(Range(old) \union {c})
      BY <2>4, <3>1
    <3> QED
      BY <3>2, ListOf
  <2> HIDE DEF new
  <2> QED
    BY <1>1, <2>2, <2>3, <2>5, <2>6, <2>7 DEF Comments, Added, new
<1> QED
  BY <1>2, <1>3

\* reason and entry of one more tied port
OneMore(ties, lines, n, m, reason, entry) ==
  /\ Reasons(ties, lines, m) = Reasons(ties, lines, n) \union {reason}
  /\ \A r : TiedFor(ties, lines, m, r) = TiedFor(ties, lines, n, r) \union (IF reason = r THEN {entry} ELSE {})

\* The reasons and the entries of one more line.
LEMMA ReasonsNext ==
  ASSUME NEW ties, NEW lines, NEW n, NEW m, NEW i, PortsOf(lines, m) = PortsOf(lines, n) \union {i},
         NEW b, TieOf(ties, lines, i) = {b}, NEW entry, entry = << lines[i].name, b.tied >>
  PROVE  OneMore(ties, lines, n, m, b.reason, entry)
<1> DEFINE P == PortsOf(lines, n)
           tie(k) == TieOf(ties, lines, k)
           pairs(k, r) == {<< lines[k].name, e.tied >> : e \in {e \in tie(k) : e.reason = r}}
<1>1. Reasons(ties, lines, m) = Reasons(ties, lines, n) \union {b.reason}
  <2>1. UNION {tie(k) : k \in P \union {i}} = (UNION {tie(k) : k \in P}) \union {b}
    <3>1. tie(i) = {b}
      OBVIOUS
    <3> HIDE DEF tie, P
    <3> QED
      BY <3>1
  <2> QED
    BY <2>1 DEF Reasons
<1>2. ASSUME NEW r
      PROVE  TiedFor(ties, lines, m, r) =
               TiedFor(ties, lines, n, r) \union (IF b.reason = r THEN {<< lines[i].name, b.tied >>} ELSE {})
  <2>1. pairs(i, r) = IF b.reason = r THEN {<< lines[i].name, b.tied >>} ELSE {}
    OBVIOUS
  <2>2. TiedFor(ties, lines, m, r) = UNION {pairs(k, r) : k \in P \union {i}} /\ TiedFor(ties, lines, n, r) = UNION {pairs(k, r) : k \in P}
    BY DEF TiedFor
  <2>3. UNION {pairs(k, r) : k \in P \union {i}} = (UNION {pairs(k, r) : k \in P}) \union pairs(i, r)
    <3> HIDE DEF pairs, P
    <3> QED
      OBVIOUS
  <2> HIDE DEF pairs, P
  <2> QED
    BY <2>1, <2>2, <2>3
<1> QED
  BY <1>1, <1>2 DEF OneMore

\* A line that is no tied port leaves reasons and entries as they are.
LEMMA ReasonsStay ==
  ASSUME NEW ties, NEW lines, NEW n, NEW m, NEW i, TieOf(ties, lines, i) = {},
         PortsOf(lines, m) = PortsOf(lines, n) \/ PortsOf(lines, m) = PortsOf(lines, n) \union {i}
  PROVE  /\ Reasons(ties, lines, m) = Reasons(ties, lines, n)
         /\ \A r : TiedFor(ties, lines, m, r) = TiedFor(ties, lines, n, r)
<1> DEFINE P == PortsOf(lines, n)
           Q == PortsOf(lines, m)
           tie(k) == TieOf(ties, lines, k)
           pairs(k, r) == {<< lines[k].name, e.tied >> : e \in {e \in tie(k) : e.reason = r}}
<1>1. tie(i) = {} /\ \A r : pairs(i, r) = {}
  OBVIOUS
<1>2. /\ Reasons(ties, lines, n) = {b.reason : b \in UNION {tie(k) : k \in P}}
      /\ Reasons(ties, lines, m) = {b.reason : b \in UNION {tie(k) : k \in Q}}
      /\ \A r : TiedFor(ties, lines, n, r) = UNION {pairs(k, r) : k \in P}
      /\ \A r : TiedFor(ties, lines, m, r) = UNION {pairs(k, r) : k \in Q}
  BY DEF Reasons, TiedFor
<1>3. P = Q \/ Q = P \union {i}
  OBVIOUS
<1> HIDE DEF P, Q, tie, pairs
<1>4. UNION {tie(k) : k \in Q} = UNION {tie(k) : k \in P}
  BY <1>1, <1>3
<1>5. \A r : UNION {pairs(k, r) : k \in Q} = UNION {pairs(k, r) : k \in P}
  BY <1>1, <1>3
<1> QED
  BY <1>2, <1>4, <1>5

\* Such a line leaves the lists as they are.
LEMMA ListsStay ==
  ASSUME NEW ties, NEW lines, NEW n, NEW m, NEW comments, ListsAre(ties, lines, n, comments),
         Reasons(ties, lines, m) = Reasons(ties, lines, n),
         \A r : TiedFor(ties, lines, m, r) = TiedFor(ties, lines, n, r)
  PROVE  ListsAre(ties, lines, m, comments)
BY DEF ListsAre

\* A tied port goes to the list of its reason, which does not have it yet.
LEMMA ListsNext ==
  ASSUME NEW ties, NEW lines, NEW n, NEW m, NEW old, NEW new, NEW reason, NEW entry,
         Comments(old), ListsAre(ties, lines, n, old), Added(old, new, reason, entry),
         OneMore(ties, lines, n, m, reason, entry),
         entry \notin TiedFor(ties, lines, n, reason),
         reason \notin Reasons(ties, lines, n) => TiedFor(ties, lines, n, reason) = {}
  PROVE  ListsAre(ties, lines, m, new)
<1> DEFINE had(r) == TiedFor(ties, lines, n, r)
           has_(r) == TiedFor(ties, lines, m, r)
<1>1. /\ \A c, d \in DOMAIN old : old[c].reason = old[d].reason => c = d
      /\ {old[c].reason : c \in DOMAIN old} = Reasons(ties, lines, n)
      /\ \A c \in DOMAIN old : Range(old[c].tied) = had(old[c].reason) /\ IsInjective(old[c].tied) /\ IsList(old[c].tied)
  BY DEF ListsAre, Comments, Comment
<1>2. \A r : r # reason => has_(r) = had(r)
  BY DEF OneMore
<1>3. has_(reason) = had(reason) \union {entry} /\ entry \notin had(reason)
  BY DEF OneMore
<1>4. DOMAIN old = 1 .. Len(old) /\ Len(old) \in Nat
  BY ListOf DEF Comments, IsList
<1> HIDE DEF had, has_
<1>5. CASE /\ \A c \in DOMAIN old : old[c].reason # reason
           /\ DOMAIN new = DOMAIN old \union {Len(old) + 1}
           /\ \A c \in DOMAIN old : new[c] = old[c]
           /\ new[Len(old) + 1] = [reason |-> reason, tied |-> << entry >>]
  <2>1. new[Len(old) + 1].reason = reason /\ new[Len(old) + 1].tied = << entry >> /\ Len(old) + 1 \notin DOMAIN old
    BY <1>4, <1>5
  <2>2. reason \notin Reasons(ties, lines, n)
    BY <1>1, <1>5
  <2>3. has_(reason) = {entry}
    BY <1>3, <2>2 DEF had
  <2>4. Range(<< entry >>) = {entry} /\ IsInjective(<< entry >>)
    BY ShortLists DEF IsInjective
  <2>5. ASSUME NEW c \in DOMAIN new PROVE Range(new[c].tied) = has_(new[c].reason) /\ IsInjective(new[c].tied)
    <3>1. CASE c = Len(old) + 1
      BY <2>1, <2>3, <2>4, <3>1
    <3>2. CASE c \in DOMAIN old
      BY <1>1, <1>2, <1>5, <3>2
    <3> QED
      BY <1>5, <3>1, <3>2
  <2>6. \A c, d \in DOMAIN new : new[c].reason = new[d].reason => c = d
    BY <1>1, <1>5, <2>1
  <2>7. {new[c].reason : c \in DOMAIN new} = {old[c].reason : c \in DOMAIN old} \union {reason}
    BY <1>5, <2>1
  <2> QED
    BY <1>1, <2>5, <2>6, <2>7 DEF ListsAre, OneMore, has_
<1>6. CASE \E a \in DOMAIN old :
             /\ old[a].reason = reason
             /\ DOMAIN new = DOMAIN old
             /\ \A c \in DOMAIN old \ {a} : new[c] = old[c]
             /\ new[a] = [reason |-> reason, tied |-> Append(old[a].tied, entry)]
  <2>1. PICK a \in DOMAIN old :
             /\ old[a].reason = reason
             /\ DOMAIN new = DOMAIN old
             /\ \A c \in DOMAIN old \ {a} : new[c] = old[c]
             /\ new[a] = [reason |-> reason, tied |-> Append(old[a].tied, entry)]
    BY <1>6
  <2>2. PICK s : s = old[a].tied
    OBVIOUS
  <2>3. IsList(s) /\ Range(s) = had(reason) /\ IsInjective(s)
    BY <1>1, <2>1, <2>2
  <2>4. Range(Append(s, entry)) = has_(reason) /\ IsInjective(Append(s, entry))
    BY <1>3, <2>3, Longer, LongerInjective
  <2>5. new[a].reason = reason /\ new[a].tied = Append(s, entry)
    BY <2>1, <2>2
  <2>6. ASSUME NEW c \in DOMAIN new PROVE Range(new[c].tied) = has_(new[c].reason) /\ IsInjective(new[c].tied)
    <3>1. CASE c = a
      BY <2>4, <2>5, <3>1
    <3>2. CASE c # a
      <4>1. c \in DOMAIN old \ {a} /\ old[c].reason # reason
        BY <1>1, <2>1, <3>2
      <4> QED
        BY <1>1, <1>2, <2>1, <4>1
    <3> QED
      BY <3>1, <3>2
  <2>7. \A c \in DOMAIN new : new[c].reason = old[c].reason
    BY <2>1, <2>5
  <2>8. {new[c].reason : c \in DOMAIN new} = {old[c].reason : c \in DOMAIN old} \union {reason}
    BY <2>1, <2>7
  <2>9. \A c, d \in DOMAIN new : new[c].reason = new[d].reason => c = d
    BY <1>1, <2>1, <2>7
  <2> QED
    BY <1>1, <2>6, <2>8, <2>9 DEF ListsAre, OneMore, has_
<1> QED
  BY <1>5, <1>6 DEF Added

-----------------------------------------------------------------------------
(***************************************************************************)
(* Reading a source file.                                                  *)
(***************************************************************************)
\* what spec_builder knows after n lines
KnownAfter(ties, lines, n, d) ==
  /\ d = [description |-> AboutPort(lines, n + 1).name, connexion |-> AboutPort(lines, n + 1).connexion,
          ports |-> d.ports, comments |-> d.comments]
  /\ IsList(d.ports) /\ TableIs(ties, lines, n, d.ports)
  /\ Comments(d.comments) /\ ListsAre(ties, lines, n, d.comments)

NamesDiffer(lines) ==
  \A i, j \in PortsOf(lines, Len(lines)) : lines[i].name = lines[j].name => i = j

\* At the first line it knows nothing.
LEMMA ReadFirst ==
  ASSUME NEW ties, NEW lines, IsList(lines)
  PROVE  KnownAfter(ties, lines, 0, Document)
<1>1. DOMAIN lines = 1 .. Len(lines) /\ Len(lines) \in Nat
  BY ListOf DEF IsList
<1>2. PortsOf(lines, 0) = {}
  BY <1>1 DEF PortsOf
<1>3. TableIs(ties, lines, 0, << >>)
  <2>1. FreePorts(ties, lines, 0) = {}
    BY <1>2 DEF FreePorts
  <2> QED
    BY <2>1, FS_EmptySet DEF TableIs
<1>4. ListsAre(ties, lines, 0, << >>)
  <2>1. Reasons(ties, lines, 0) = {}
    BY <1>2 DEF Reasons
  <2> QED
    BY <2>1 DEF ListsAre
<1>5. IsList(<< >>) /\ Comments(<< >>)
  BY ShortLists DEF Comments
<1>6. AboutPort(lines, 0 + 1) = NoComment
  BY AboutFirst
<1>7. AboutPort(lines, 0 + 1).name = None /\ AboutPort(lines, 0 + 1).connexion = None
  BY <1>6 DEF NoComment, src
<1> QED
  BY <1>3, <1>4, <1>5, <1>7 DEF KnownAfter, Document

\* The next line adds what it says.
LEMMA ReadNext ==
  ASSUME NEW ties, ties \subseteq Fixed \union Conditional, NEW lines, IsList(lines), NamesDiffer(lines),
         NEW n \in Nat, n < Len(lines), NEW d, KnownAfter(ties, lines, n, d)
  PROVE  KnownAfter(ties, lines, n + 1, source_line(Dictionary(ties), d, lines[n + 1]))
<1> DEFINE i == n + 1
           l == lines[i]
           about(k) == AboutPort(lines, k)
           new == source_line(Dictionary(ties), d, l)
<1>1. DOMAIN lines = 1 .. Len(lines) /\ Len(lines) \in Nat
  BY ListOf DEF IsList
<1>2. i \in DOMAIN lines /\ i \in Nat \ {0} /\ DOMAIN lines \subseteq Nat \ {0}
  BY <1>1
<1>3. about(i + 1) = CASE l.kind = "comment" -> l [] l.kind = "port" -> NoComment [] OTHER -> about(i)
  <2> HIDE DEF i
  <2> QED
    BY <1>2, AboutNext
<1>4. PICK entry : entry = tied(Dictionary(ties), l.name, about(i).connexion)
  OBVIOUS
<1>5. \/ TieOf(ties, lines, i) = {} /\ entry = << >>
      \/ \E b \in ties : TieOf(ties, lines, i) = {b} /\ entry = << b >>
  <2> HIDE DEF i
  <2> QED
    BY <1>4, TiedIs
<1>6. PortsOf(lines, i) = IF l.kind = "port" THEN PortsOf(lines, n) \union {i} ELSE PortsOf(lines, n)
  BY <1>2, PortsNext
<1>7. /\ d = [description |-> about(i).name, connexion |-> about(i).connexion, ports |-> d.ports, comments |-> d.comments]
      /\ IsList(d.ports) /\ TableIs(ties, lines, n, d.ports)
      /\ Comments(d.comments) /\ ListsAre(ties, lines, n, d.comments)
  BY DEF KnownAfter
<1>8. d.connexion = about(i).connexion /\ d.description = about(i).name
  BY <1>7
<1>9. CASE l.kind # "port"
  <2>1. new = [description |-> about(i + 1).name, connexion |-> about(i + 1).connexion, ports |-> d.ports, comments |-> d.comments]
    <3>1. CASE l.kind = "comment"
      <4>1. new = [d EXCEPT !.description = l.name, !.connexion = l.connexion]
        BY <3>1 DEF source_line
      <4>2. about(i + 1) = l
        BY <1>3, <3>1
      <4> HIDE DEF l, about, i, new
      <4> QED
        BY <1>7, <4>1, <4>2
    <3>2. CASE l.kind # "comment"
      <4>1. new = d
        BY <1>9, <3>2 DEF source_line
      <4>2. about(i + 1) = about(i)
        BY <1>3, <1>9, <3>2
      <4> QED
        BY <1>7, <4>1, <4>2
    <3> QED
      BY <3>1, <3>2
  <2>2. PortsOf(lines, i) = PortsOf(lines, n)
    BY <1>6, <1>9
  <2>3. TableIs(ties, lines, i, d.ports)
    BY <1>7, <2>2, TableStays DEF FreePorts
  <2>4. ListsAre(ties, lines, i, d.comments)
    <3>1. Reasons(ties, lines, i) = Reasons(ties, lines, n) /\ \A r : TiedFor(ties, lines, i, r) = TiedFor(ties, lines, n, r)
      BY <2>2 DEF Reasons, TiedFor
    <3> HIDE DEF i
    <3> QED
      BY <1>7, <3>1, ListsStay
  <2>5. new.ports = d.ports /\ new.comments = d.comments
    BY <2>1
  <2> HIDE DEF new, about, i
  <2>6. KnownAfter(ties, lines, i, new)
    BY <1>7, <2>1, <2>3, <2>4, <2>5 DEF KnownAfter, about
  <2> QED
    BY <2>6 DEF new, i
<1>10. CASE l.kind = "port" /\ TieOf(ties, lines, i) = {} /\ entry = << >>
  <2>1. PICK row : row = Row(lines, i)
    OBVIOUS
  <2>2. row = [name |-> l.name, description |-> d.description, connexion |-> d.connexion]
    BY <1>8, <2>1 DEF Row
  <2>3. about(i + 1) = NoComment
    BY <1>3, <1>10
  <2>4. about(i + 1).name = None /\ about(i + 1).connexion = None
    BY <2>3 DEF NoComment, src
  <2>5. new = [[d EXCEPT !.description = None, !.connexion = None] EXCEPT !.ports = Append(@, row)]
    BY <1>4, <1>8, <1>10, <2>2 DEF source_line
  <2>6. new = [description |-> None, connexion |-> None, ports |-> Append(d.ports, row), comments |-> d.comments]
    <3> HIDE DEF new, l, i, about
    <3> QED
      BY <1>7, <2>5
  <2>7. IsList(Append(d.ports, row)) /\ TableIs(ties, lines, i, Append(d.ports, row))
    BY <1>2, <1>7, <1>10, <2>1, TableNext
  <2>8. ListsAre(ties, lines, i, d.comments)
    <3>1. Reasons(ties, lines, i) = Reasons(ties, lines, n) /\ \A r : TiedFor(ties, lines, i, r) = TiedFor(ties, lines, n, r)
      <4> HIDE DEF i
      <4> QED
        BY <1>6, <1>10, ReasonsStay
    <3> HIDE DEF i
    <3> QED
      BY <1>7, <3>1, ListsStay
  <2>9. new.ports = Append(d.ports, row) /\ new.comments = d.comments
    BY <2>6
  <2> HIDE DEF new, about, i
  <2>10. KnownAfter(ties, lines, i, new)
    BY <1>7, <2>4, <2>6, <2>7, <2>8, <2>9 DEF KnownAfter, about
  <2> QED
    BY <2>10 DEF new, i
<1>11. ASSUME l.kind = "port", NEW b \in ties, TieOf(ties, lines, i) = {b}, entry = << b >>
       PROVE  KnownAfter(ties, lines, n + 1, source_line(Dictionary(ties), d, lines[n + 1]))
  <2>1. PICK item : item = << l.name, b.tied >>
    OBVIOUS
  <2>2. PICK lists : lists = add_comment(d.comments, b.reason, item)
    OBVIOUS
  <2>3. about(i + 1) = NoComment
    BY <1>3, <1>11
  <2>4. about(i + 1).name = None /\ about(i + 1).connexion = None
    BY <2>3 DEF NoComment, src
  <2>5. new = [[d EXCEPT !.description = None, !.connexion = None] EXCEPT !.comments = add_comment(@, b.reason, item)]
    <3>1. entry # << >> /\ entry[1] = b
      BY <1>11
    <3>2. tied(Dictionary(ties), l.name, d.connexion) = entry
      BY <1>4, <1>8
    <3> QED
      BY <1>11, <2>1, <3>1, <3>2 DEF source_line
  <2>6. new = [description |-> None, connexion |-> None, ports |-> d.ports, comments |-> lists]
    <3> HIDE DEF new, l, i, about
    <3> QED
      BY <1>7, <2>2, <2>5
  <2>7. Comments(lists) /\ Added(d.comments, lists, b.reason, item)
    BY <1>7, <2>2, AddedIs
  <2>8. TableIs(ties, lines, i, d.ports)
    <3>1. FreePorts(ties, lines, i) = FreePorts(ties, lines, n)
      BY <1>6, <1>11 DEF FreePorts
    <3> QED
      BY <1>7, <3>1, TableStays
  <2>9. OneMore(ties, lines, n, i, b.reason, item)
    <3>1. PortsOf(lines, i) = PortsOf(lines, n) \union {i}
      BY <1>6, <1>11
    <3>2. item = << lines[i].name, b.tied >> /\ TieOf(ties, lines, i) = {b}
      BY <1>11, <2>1
    <3> HIDE DEF i
    <3> QED
      BY <3>1, <3>2, ReasonsNext
  <2>10. item \notin TiedFor(ties, lines, n, b.reason)
    <3>1. SUFFICES ASSUME item \in TiedFor(ties, lines, n, b.reason) PROVE FALSE
      OBVIOUS
    <3>2. PICK k \in PortsOf(lines, n) : \E e : item = << lines[k].name, e.tied >>
      BY <3>1 DEF TiedFor
    <3>3. lines[k].name = lines[i].name
      BY <2>1, <3>2
    <3>4. k \in PortsOf(lines, Len(lines)) /\ i \in PortsOf(lines, Len(lines)) /\ k # i
      BY <1>1, <1>2, <1>11, <3>2 DEF PortsOf
    <3> QED
      BY <3>3, <3>4 DEF NamesDiffer
  <2>11. b.reason \notin Reasons(ties, lines, n) => TiedFor(ties, lines, n, b.reason) = {}
    BY DEF Reasons, TiedFor
  <2>12. ListsAre(ties, lines, i, lists)
    <3> HIDE DEF i
    <3>1. PICK reason : reason = b.reason
      OBVIOUS
    <3> QED
      BY <1>7, <2>7, <2>9, <2>10, <2>11, <3>1, ListsNext
  <2>13. new.ports = d.ports /\ new.comments = lists
    BY <2>6
  <2> HIDE DEF new, about, i
  <2>14. KnownAfter(ties, lines, i, new)
    BY <1>7, <2>4, <2>6, <2>7, <2>8, <2>12, <2>13 DEF KnownAfter, about
  <2> QED
    BY <2>14 DEF new, i
<1> QED
  BY <1>5, <1>9, <1>10, <1>11

-----------------------------------------------------------------------------
(***************************************************************************)
(* Generating documents.                                                   *)
(***************************************************************************)
\* what is left of a list after n members
Left(lines, n, r) == IsList(r) /\ Len(r) + n = Len(lines) /\ \A k \in 1 .. Len(r) : r[k] = lines[n + k]

AsRequested(t, ps) == \A p \in DOMAIN ps : ps[p].value = Requested(Base, Targets[t].changes, p)

\* While spec_builder runs it knows what the lines say that it has read; other
\* parts leave its variables alone.
Builds ==
  /\ job \in DOMAIN Targets
  /\ AsRequested(job, parameters)
  /\ black_list = Dictionary(TiesOf(job))
  /\ \E n \in Nat : Left(Targets[job].lines, n, rest) /\ KnownAfter(TiesOf(job), Targets[job].lines, n, reading)

PortInv ==
  /\ PortsAreDocumented
  /\ running # "spec_builder" => reading = Document
  /\ running = "spec_builder" => Builds

\* The parameters of a target have the values that were asked for.
LEMMA ParametersAre ==
  ASSUME PlainTargets, NEW t \in DOMAIN Targets, derive_config(Base, Targets[t].changes) # Error,
         NEW found, found = parameters_extractor(Struct, derive_config(Base, Targets[t].changes))
  PROVE  AsRequested(t, found.parameters)
<1> DEFINE changes == Targets[t].changes
<1>1. PICK read : read = get_config(derive_config(Base, changes))
  OBVIOUS
<1>2. \A p \in DOMAIN read : read[p] = Requested(Base, changes, p)
  BY <1>1, DerivedIsRequested DEF PlainTargets
<1>3. \A p \in DOMAIN found.parameters : p \in DOMAIN read /\ found.parameters[p].value = read[p]
  BY <1>1 DEF parameters_extractor
<1> QED
  BY <1>2, <1>3 DEF AsRequested

\* The blacklist is made of the ties of the target.
LEMMA BlacklistIs ==
  ASSUME NEW t, NEW ps, AsRequested(t, ps), looked_up \subseteq DOMAIN ps
  PROVE  define_blacklist(ps) = Dictionary(TiesOf(t))
<1>1. \A b \in Conditional : off(ps, b) <=> Requested(Base, Targets[t].changes, b.reason) = "0"
  BY DEF looked_up, AsRequested, off
<1>2. Fixed \union {b \in Conditional : off(ps, b)} = TiesOf(t)
  BY <1>1 DEF TiesOf
<1> QED
  BY <1>2 DEF define_blacklist, Dictionary

\* A document that is not written anew stays right.
LEMMA DocumentStays == PortsAreDocumented /\ UNCHANGED ports => PortsAreDocumented'
BY DEF PortsAreDocumented

LEMMA PortInit == Init => PortInv
BY DEF Init, PortInv, PortsAreDocumented

\* spec_builder begins with the first line.
LEMMA PortBegins ==
  ASSUME PlainTargets, SourceFiles, PortInv, NEW t \in DOMAIN Targets, SpecBuilder(t)
  PROVE  PortInv'
<1> DEFINE lines == Targets[t].lines
<1>1. /\ running = "none" /\ derive_config(Base, Targets[t].changes) # Error
      /\ running' = "spec_builder" /\ job' = t /\ rest' = lines /\ UNCHANGED << reading, ports >>
  BY DEF SpecBuilder
<1>2. PICK found : /\ found = parameters_extractor(Struct, derive_config(Base, Targets[t].changes))
                   /\ looked_up \subseteq DOMAIN found.parameters
                   /\ parameters' = found.parameters /\ black_list' = define_blacklist(found.parameters)
  BY DEF SpecBuilder
<1>3. PICK ps : ps = found.parameters
  OBVIOUS
<1>4. AsRequested(t, ps)
  BY <1>1, <1>2, <1>3, ParametersAre
<1>5. black_list' = Dictionary(TiesOf(t))
  BY <1>2, <1>3, <1>4, BlacklistIs
<1>6. IsList(lines)
  BY DEF SourceFiles
<1>7. KnownAfter(TiesOf(t), lines, 0, Document)
  <2> HIDE DEF lines
  <2> QED
    BY <1>6, ReadFirst
<1>8. Left(lines, 0, lines)
  <2> HIDE DEF lines
  <2>1. Len(lines) \in Nat
    BY <1>6, ListOf DEF IsList
  <2> QED
    BY <1>6, <2>1 DEF Left
<1>9. reading' = Document
  BY <1>1 DEF PortInv
<1>10. Builds'
  <2>1. AsRequested(t, parameters')
    BY <1>2, <1>3, <1>4
  <2>2. KnownAfter(TiesOf(t), lines, 0, reading')
    BY <1>7, <1>9
  <2>3. Left(Targets[job'].lines, 0, rest') /\ KnownAfter(TiesOf(job'), Targets[job'].lines, 0, reading')
    BY <1>1, <1>8, <2>2
  <2>4. job' \in DOMAIN Targets /\ AsRequested(job', parameters') /\ black_list' = Dictionary(TiesOf(job'))
    BY <1>1, <1>5, <2>1
  <2> QED
    BY <2>3, <2>4 DEF Builds, AsRequested, TiesOf
<1> QED
  BY <1>1, <1>10, DocumentStays DEF PortInv

\* What is left behind one more line.
LEMMA LeftNext ==
  ASSUME NEW lines, IsList(lines), NEW n \in Nat, NEW r, Left(lines, n, r), r # << >>
  PROVE  n < Len(lines) /\ Head(r) = lines[n + 1] /\ Left(lines, n + 1, Tail(r))
<1>1. r \in Seq(Range(r)) /\ Len(lines) \in Nat /\ Len(r) \in Nat
  BY ListOf DEF Left, IsList
<1>2. /\ Len(r) # 0 /\ Head(r) = r[1]
      /\ Tail(r) \in Seq(Range(r)) /\ Len(Tail(r)) = Len(r) - 1 /\ \A k \in 1 .. Len(Tail(r)) : Tail(r)[k] = r[k + 1]
  BY <1>1, EmptySeq, HeadTailProperties
<1>3. Len(r) + n = Len(lines) /\ \A k \in 1 .. Len(r) : r[k] = lines[n + k]
  BY DEF Left
<1>4. n < Len(lines) /\ Head(r) = lines[n + 1]
  BY <1>1, <1>2, <1>3
<1>5. IsList(Tail(r)) /\ Len(Tail(r)) + (n + 1) = Len(lines)
  <2>1. IsList(Tail(r))
    BY <1>2, ListOf
  <2> QED
    BY <1>1, <1>2, <1>3, <2>1
<1>6. \A k \in 1 .. Len(Tail(r)) : Tail(r)[k] = lines[(n + 1) + k]
  <2>1. ASSUME NEW k \in 1 .. Len(Tail(r)) PROVE Tail(r)[k] = lines[(n + 1) + k]
    <3>1. k + 1 \in 1 .. Len(r) /\ Tail(r)[k] = r[k + 1] /\ n + (k + 1) = (n + 1) + k
      BY <1>1, <1>2
    <3> QED
      BY <1>3, <3>1
  <2> QED
    BY <2>1
<1> QED
  BY <1>4, <1>5, <1>6 DEF Left

\* It reads one more line.
LEMMA PortReads == ASSUME SourceFiles, PortInv, ReadLine PROVE PortInv'
<1> DEFINE lines == Targets[job].lines
           ties  == TiesOf(job)
<1>1. /\ running = "spec_builder" /\ rest # << >>
      /\ reading' = source_line(black_list, reading, Head(rest)) /\ rest' = Tail(rest)
      /\ UNCHANGED << running, job, parameters, black_list, ports >>
  BY DEF ReadLine
<1>2. Builds
  BY <1>1 DEF PortInv
<1>3. PICK n \in Nat : Left(lines, n, rest) /\ KnownAfter(ties, lines, n, reading)
  BY <1>2 DEF Builds
<1>4. IsList(lines) /\ NamesDiffer(lines)
  BY <1>2 DEF Builds, SourceFiles, NamesDiffer
<1>5. n < Len(lines) /\ Head(rest) = lines[n + 1] /\ Left(lines, n + 1, rest')
  <2> HIDE DEF lines
  <2> QED
    BY <1>1, <1>3, <1>4, LeftNext
<1>6. ties \subseteq Fixed \union Conditional
  BY DEF TiesOf
<1>7. KnownAfter(ties, lines, n + 1, reading')
  <2>1. reading' = source_line(Dictionary(ties), reading, lines[n + 1])
    BY <1>1, <1>2, <1>5 DEF Builds
  <2> HIDE DEF lines, ties
  <2> QED
    BY <1>3, <1>4, <1>5, <1>6, <2>1, ReadNext
<1>8. Builds'
  <2>1. \E m \in Nat : Left(Targets[job'].lines, m, rest') /\ KnownAfter(TiesOf(job'), Targets[job'].lines, m, reading')
    BY <1>1, <1>5, <1>7
  <2>2. job' \in DOMAIN Targets /\ AsRequested(job', parameters') /\ black_list' = Dictionary(TiesOf(job'))
    BY <1>1, <1>2 DEF Builds
  <2> QED
    BY <2>1, <2>2 DEF Builds, AsRequested, TiesOf
<1> QED
  BY <1>1, <1>8, DocumentStays DEF PortInv

\* It prints what it knows after the last line.
LEMMA PortPrints == ASSUME SourceFiles, PortInv, PrintPorts PROVE PortInv'
<1> DEFINE lines == Targets[job].lines
           ties  == TiesOf(job)
<1>1. /\ running = "spec_builder" /\ rest = << >> /\ running' = "none" /\ reading' = Document
      /\ ports' = << [job |-> job, parameters |-> parameters, module |-> print_to_adoc(reading)] >>
  BY DEF PrintPorts, stop
<1>2. Builds
  BY <1>1 DEF PortInv
<1>3. PICK n \in Nat : Left(lines, n, rest) /\ KnownAfter(ties, lines, n, reading)
  BY <1>2 DEF Builds
<1>4. n = Len(lines)
  <2>1. IsList(lines)
    BY <1>2 DEF Builds, SourceFiles
  <2>2. Len(lines) \in Nat
    <3> HIDE DEF lines
    <3> QED
      BY <2>1, ListOf DEF IsList
  <2> QED
    BY <1>1, <1>3, <2>2 DEF Left
<1>5. PICK doc : doc = [job |-> job, parameters |-> parameters, module |-> print_to_adoc(reading)]
  OBVIOUS
<1>6. /\ ports' = << doc >> /\ doc.job = job /\ doc.parameters = parameters
      /\ doc.module.ports = reading.ports /\ doc.module.comments = reading.comments
  BY <1>1, <1>5 DEF print_to_adoc
<1>7. AsRequested(job, parameters)
  BY <1>2 DEF Builds
<1>8. TableIs(ties, lines, Len(lines), reading.ports) /\ ListsAre(ties, lines, Len(lines), reading.comments)
  BY <1>3, <1>4 DEF KnownAfter
<1>9. PortsAreDocumented'
  <2>1. DOMAIN ports' = {1} /\ ports'[1] = doc
    BY <1>6
  <2> HIDE DEF lines, ties
  <2>2. /\ \A p \in DOMAIN doc.parameters : doc.parameters[p].value = Requested(Base, Targets[doc.job].changes, p)
        /\ TableIs(TiesOf(doc.job), Targets[doc.job].lines, Len(Targets[doc.job].lines), doc.module.ports)
        /\ ListsAre(TiesOf(doc.job), Targets[doc.job].lines, Len(Targets[doc.job].lines), doc.module.comments)
    BY <1>6, <1>7, <1>8 DEF AsRequested, lines, ties
  <2>3. \A k \in DOMAIN ports' : ports'[k] = doc
    BY <2>1
  <2> QED
    BY <2>2, <2>3 DEF PortsAreDocumented
<1> QED
  BY <1>1, <1>9 DEF PortInv

\* The other generator leaves it alone.
LEMMA PortOthers ==
  ASSUME PortInv,
         \/ \E p \in DOMAIN Platforms : CsrGenerator(p)
         \/ Factorize \/ DescribeRegister \/ GiveUp \/ PrintRegisters \/ UNCHANGED vars
  PROVE  PortInv'
<1>1. CASE UNCHANGED vars
  BY <1>1 DEF vars, PortInv, PortsAreDocumented, Builds, AsRequested, TiesOf
<1>2. CASE UNCHANGED ports /\ running # "spec_builder" /\ running' # "spec_builder" /\ reading' \in {reading, Document}
  BY <1>2, DocumentStays DEF PortInv
<1>3. ASSUME NEW p \in DOMAIN Platforms, CsrGenerator(p) PROVE PortInv'
  BY <1>2, <1>3 DEF CsrGenerator
<1>4. CASE Factorize
  BY <1>2, <1>4 DEF Factorize
<1>5. CASE DescribeRegister
  BY <1>2, <1>5 DEF DescribeRegister
<1>6. CASE GiveUp
  BY <1>2, <1>6 DEF GiveUp, stop
<1>7. CASE PrintRegisters
  BY <1>2, <1>7 DEF PrintRegisters, stop
<1> QED
  BY <1>1, <1>3, <1>4, <1>5, <1>6, <1>7

LEMMA PortStep == PlainTargets /\ SourceFiles /\ PortInv /\ [Next]_vars => PortInv'
<1> SUFFICES ASSUME PlainTargets, SourceFiles, PortInv, [Next]_vars PROVE PortInv'
  OBVIOUS
<1>1. ASSUME NEW t \in DOMAIN Targets, SpecBuilder(t) PROVE PortInv'
  BY <1>1, PortBegins
<1> QED
  BY <1>1, PortReads, PortPrints, PortOthers DEF Next

-----------------------------------------------------------------------------
\* spec_builder, parameters_extractor, define_blacklist and user_config: whatever
\* documents are generated one after the other, the document of a target has the
\* parameters that were asked for and every port of the source file once, in the
\* table with its comment or in the list of what ties it.
THEOREM PortsAlwaysDocumented ==
  ASSUME PlainTargets, SourceFiles
  PROVE  DocumentsSpec => []PortsAreDocumented
<1>1. PortInv /\ [Next]_vars => PortInv'
  BY PortStep
<1>2. PortInv => PortsAreDocumented
  BY DEF PortInv
<1> QED
  BY <1>1, <1>2, PortInit, PTL DEF DocumentsSpec
=============================================================================
