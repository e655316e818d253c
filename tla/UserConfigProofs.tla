-------------------------- MODULE UserConfigProofs --------------------------
(***************************************************************************)
(* Proofs about configurations: for every package and every series of      *)
(* changes, what is read back from the derived package is what the changes *)
(* ask for.                                                                *)
(***************************************************************************)
EXTENDS UserConfig, SequenceTheorems, WellFoundedInduction, TLAPS

-----------------------------------------------------------------------------
(***************************************************************************)
(* Lists.  What a recursive function computes is shown for the least       *)
(* argument for which it is not so.                                        *)
(***************************************************************************)
\* A set of numbers has a least one.
LEMMA LeastOf ==
  ASSUME NEW S, S \subseteq Nat, S # {}
  PROVE  \E n \in S : \A m \in S : n <= m
<1>1. IsWellFoundedOn(OpToRel(<, Nat), Nat)
  BY NatLessThanWellFounded
<1>2. PICK n \in S : \A m \in S : ~(<< m, n >> \in OpToRel(<, Nat))
  BY <1>1, WFMin
<1>3. \A m \in S : ~(m < n)
  BY <1>2 DEF OpToRel
<1> QED
  BY <1>3

\* the i-th value of the function FlattenSeq defines
Joined(ss, f, i) == IF i = 1 THEN ss[i] ELSE f[i - 1] \o ss[i]

\* There is such a function.
LEMMA JoinsExist ==
  ASSUME NEW ss, NEW N \in Nat \ {0}
  PROVE  \E f : f = [i \in 1 .. N |-> Joined(ss, f, i)]
<1> DEFINE Bad == {n \in Nat \ {0} : ~\E f : f = [i \in 1 .. n |-> Joined(ss, f, i)]}
<1>1. SUFFICES ASSUME Bad # {} PROVE FALSE
  OBVIOUS
<1>2. PICK n \in Bad : \A m \in Bad : n <= m
  BY <1>1, LeastOf
<1>3. n # 1
  <2> DEFINE f == [i \in 1 .. 1 |-> ss[1]]
  <2>1. f = [i \in 1 .. 1 |-> Joined(ss, f, i)]
    BY DEF Joined
  <2> QED
    BY <2>1
<1>4. PICK f : f = [i \in 1 .. n - 1 |-> Joined(ss, f, i)]
  <2>1. n - 1 \in Nat \ {0} /\ n - 1 \notin Bad
    BY <1>2, <1>3
  <2> QED
    BY <2>1
<1> DEFINE g == [i \in 1 .. n |-> Joined(ss, f, i)]
<1>5. ASSUME NEW i \in 1 .. n PROVE Joined(ss, f, i) = Joined(ss, g, i)
  <2>1. i # 1 => f[i - 1] = g[i - 1]
    BY <1>2, <1>4
  <2> QED
    BY <2>1 DEF Joined
<1>6. g = [i \in 1 .. n |-> Joined(ss, g, i)]
  BY <1>5
<1> QED
  BY <1>2, <1>6

\* FlattenSeq takes its last value.
LEMMA FlattenJoins ==
  ASSUME NEW ss, Len(ss) \in Nat \ {0}
  PROVE  \E f : f = [i \in 1 .. Len(ss) |-> Joined(ss, f, i)] /\ FlattenSeq(ss) = f[Len(ss)]
<1> DEFINE N == Len(ss)
           flatten == CHOOSE f : f = [i \in 1 .. N |-> Joined(ss, f, i)]
<1>3. flatten = [i \in 1 .. N |-> Joined(ss, flatten, i)]
  BY JoinsExist
<1>4. FlattenSeq(ss) = flatten[N]
  BY DEF FlattenSeq, Joined
<1> QED
  BY <1>3, <1>4

\* A sequence is a list of its members.
LEMMA ListOf ==
  ASSUME NEW S, NEW s \in Seq(S)
  PROVE  IsList(s) /\ Range(s) \subseteq S /\ DOMAIN s = 1 .. Len(s) /\ Len(s) \in Nat
<1>1. Len(s) \in Nat /\ s \in [1 .. Len(s) -> S] /\ DOMAIN s = 1 .. Len(s)
  BY LenProperties
<1>2. s \in [1 .. Len(s) -> Range(s)]
  BY <1>1 DEF Range
<1>3. s \in Seq(Range(s))
  BY <1>1, <1>2
<1> QED
  BY <1>1, <1>3 DEF IsList, Range

\* The members of two lists one after the other.
LEMMA Concat ==
  ASSUME NEW s, NEW t, IsList(s), IsList(t)
  PROVE  IsList(s \o t) /\ Range(s \o t) = Range(s) \union Range(t)
<1> DEFINE S == Range(s) \union Range(t)
<1>1. s \in Seq(S) /\ t \in Seq(S)
  BY SeqMonotonic DEF IsList
<1>2. /\ s \o t \in Seq(S) /\ Len(s \o t) = Len(s) + Len(t)
      /\ \A i \in 1 .. Len(s) + Len(t) : (s \o t)[i] = IF i <= Len(s) THEN s[i] ELSE t[i - Len(s)]
  BY <1>1, ConcatProperties
<1>3. /\ Len(s) \in Nat /\ Len(t) \in Nat /\ DOMAIN s = 1 .. Len(s) /\ DOMAIN t = 1 .. Len(t)
      /\ DOMAIN (s \o t) = 1 .. Len(s) + Len(t)
  BY <1>1, <1>2, LenProperties
<1>4. IsList(s \o t) /\ Range(s \o t) \subseteq S
  BY <1>2, ListOf
<1>5. ASSUME NEW i \in 1 .. Len(s) PROVE s[i] \in Range(s \o t)
  BY <1>2, <1>3 DEF Range
<1>6. ASSUME NEW i \in 1 .. Len(t) PROVE t[i] \in Range(s \o t)
  <2>1. i + Len(s) \in DOMAIN (s \o t) /\ (s \o t)[i + Len(s)] = t[i]
    BY <1>2, <1>3
  <2> QED
    BY <2>1 DEF Range
<1>7. Range(s) \subseteq Range(s \o t) /\ Range(t) \subseteq Range(s \o t)
  BY <1>3, <1>5, <1>6 DEF Range
<1> QED
  BY <1>4, <1>7

\* The members of a list of lists.
LEMMA FlattenRange ==
  ASSUME NEW ss, IsList(ss), \A i \in DOMAIN ss : IsList(ss[i])
  PROVE  IsList(FlattenSeq(ss)) /\ Range(FlattenSeq(ss)) = UNION {Range(ss[i]) : i \in DOMAIN ss}
<1>1. DOMAIN ss = 1 .. Len(ss) /\ Len(ss) \in Nat
  BY ListOf DEF IsList
<1>2. CASE Len(ss) = 0
  <2>1. FlattenSeq(ss) = ss /\ DOMAIN ss = {}
    BY <1>1, <1>2 DEF FlattenSeq
  <2> DEFINE all == UNION {Range(ss[i]) : i \in DOMAIN ss}
  <2>2. Range(ss) = {} /\ all = {}
    BY <2>1 DEF Range
  <2> SUFFICES Range(FlattenSeq(ss)) = all /\ IsList(FlattenSeq(ss))
    OBVIOUS
  <2> HIDE DEF all
  <2> QED
    BY <2>1, <2>2
<1>3. CASE Len(ss) # 0
  <2>1. PICK f : f = [i \in 1 .. Len(ss) |-> Joined(ss, f, i)] /\ FlattenSeq(ss) = f[Len(ss)]
    BY <1>1, <1>3, FlattenJoins
  <2> DEFINE Upto(n) == UNION {Range(ss[i]) : i \in 1 .. n}
             Bad == {n \in 1 .. Len(ss) : ~(IsList(f[n]) /\ Range(f[n]) = Upto(n))}
  <2>0. Upto(Len(ss)) = UNION {Range(ss[i]) : i \in DOMAIN ss}
    BY <1>1
  <2>2. SUFFICES ASSUME Bad # {} PROVE FALSE
    <3> HIDE DEF Upto
    <3>1. Len(ss) \notin Bad => IsList(FlattenSeq(ss)) /\ Range(FlattenSeq(ss)) = Upto(Len(ss))
      BY <1>1, <1>3, <2>1
    <3> HIDE DEF Bad
    <3> QED
      BY <2>0, <3>1
  <2>3. PICK n \in Bad : \A m \in Bad : n <= m
    <3>1. Bad \subseteq Nat
      OBVIOUS
    <3> QED
      BY <2>2, <3>1, LeastOf
  <2>4. n # 1
    <3>1. f[1] = ss[1] /\ Upto(1) = Range(ss[1]) /\ 1 \in DOMAIN ss
      BY <1>1, <1>3, <2>1 DEF Joined
    <3> QED
      BY <2>3, <3>1
  <2>5. n - 1 \in 1 .. Len(ss) /\ n - 1 \notin Bad
    BY <1>1, <2>3, <2>4
  <2>6. f[n] = f[n - 1] \o ss[n]
    BY <2>1, <2>3, <2>4 DEF Joined
  <2>7. IsList(f[n]) /\ Range(f[n]) = Upto(n - 1) \union Range(ss[n])
    BY <1>1, <2>3, <2>5, <2>6, Concat
  <2>8. Upto(n) = Upto(n - 1) \union Range(ss[n])
    <3>1. 1 .. n = (1 .. n - 1) \union {n}
      BY <2>5
    <3> QED
      BY <3>1
  <2> QED
    BY <2>3, <2>7, <2>8
<1> QED
  BY <1>2, <1>3

\* A function on 1 .. n is a list.
LEMMA MapList ==
  ASSUME NEW n \in Nat, NEW f, f = [i \in 1 .. n |-> f[i]]
  PROVE  IsList(f) /\ DOMAIN f = 1 .. n /\ Range(f) = {f[i] : i \in 1 .. n}
<1>1. DOMAIN f = 1 .. n /\ Range(f) = {f[i] : i \in 1 .. n}
  BY DEF Range
<1>2. f \in [1 .. n -> Range(f)]
  BY <1>1
<1>3. f \in Seq(Range(f))
  BY <1>2
<1> QED
  BY <1>1, <1>3 DEF IsList

\* The members of a list of lists that is computed from a list.
LEMMA EachRange ==
  ASSUME NEW list, IsList(list), NEW ss, ss = [n \in DOMAIN list |-> ss[n]],
         \A n \in DOMAIN list : IsList(ss[n])
  PROVE  IsList(FlattenSeq(ss)) /\ Range(FlattenSeq(ss)) = UNION {Range(ss[n]) : n \in DOMAIN list}
<1>1. DOMAIN list = 1 .. Len(list) /\ Len(list) \in Nat
  BY ListOf DEF IsList
<1>2. IsList(ss) /\ DOMAIN ss = DOMAIN list
  BY <1>1, MapList
<1> QED
  BY <1>2, FlattenRange

\* Short lists.
LEMMA ShortLists ==
  /\ IsList(<< >>) /\ Range(<< >>) = {}
  /\ \A x : IsList(<< x >>) /\ Range(<< x >>) = {x}
<1>1. Range(<< >>) = {} /\ << >> \in Seq({})
  BY DEF Range
<1>2. ASSUME NEW x PROVE Range(<< x >>) = {x} /\ << x >> \in Seq({x})
  BY DEF Range
<1> QED
  BY <1>1, <1>2 DEF IsList

\* The first member and the others.
LEMMA HeadAndTail ==
  ASSUME NEW s, IsList(s), s # << >>
  PROVE  Head(s) \in Range(s) /\ IsList(Tail(s)) /\ Range(s) = {Head(s)} \union Range(Tail(s))
<1>1. /\ Tail(s) \in Seq(Range(s)) /\ Len(Tail(s)) = Len(s) - 1
      /\ \A i \in 1 .. Len(Tail(s)) : Tail(s)[i] = s[i + 1]
  BY HeadTailProperties DEF IsList
<1>2. DOMAIN s = 1 .. Len(s) /\ Len(s) \in Nat \ {0}
  BY EmptySeq, LenProperties DEF IsList
<1>3. IsList(Tail(s)) /\ DOMAIN Tail(s) = 1 .. Len(Tail(s)) /\ Range(Tail(s)) \subseteq Range(s)
  BY <1>1, ListOf
<1>4. Head(s) = s[1]
  BY DEF IsList
<1>5. ASSUME NEW i \in 1 .. Len(s), i # 1 PROVE s[i] \in Range(Tail(s))
  <2>1. i - 1 \in DOMAIN Tail(s) /\ Tail(s)[i - 1] = s[i]
    BY <1>1, <1>2, <1>3, <1>5
  <2> QED
    BY <2>1 DEF Range
<1>6. Head(s) \in Range(s)
  BY <1>2, <1>4 DEF Range
<1>7. Range(s) \subseteq {Head(s)} \union Range(Tail(s))
  <2>1. ASSUME NEW x \in Range(s) PROVE x \in {Head(s)} \union Range(Tail(s))
    <3>1. PICK i \in 1 .. Len(s) : x = s[i]
      BY <1>2 DEF Range
    <3> QED
      BY <1>4, <1>5, <3>1
  <2> QED
    BY <2>1
<1> QED
  BY <1>3, <1>6, <1>7

\* The members of a list that are in a set.
LEMMA ThoseRange ==
  ASSUME NEW list, IsList(list), NEW K, NEW ss, ss = [n \in DOMAIN list |-> ss[n]],
         \A n \in DOMAIN list : ss[n] = IF list[n] \in K THEN << list[n] >> ELSE << >>
  PROVE  IsList(FlattenSeq(ss)) /\ Range(FlattenSeq(ss)) = Range(list) \intersect K
<1>1. \A n \in DOMAIN list : IsList(ss[n]) /\ Range(ss[n]) = {list[n]} \intersect K
  <2>1. ASSUME NEW n \in DOMAIN list PROVE IsList(ss[n]) /\ Range(ss[n]) = {list[n]} \intersect K
    <3>1. CASE list[n] \in K
      BY <3>1, ShortLists
    <3>2. CASE list[n] \notin K
      BY <3>2, ShortLists
    <3> QED
      BY <3>1, <3>2
  <2> QED
    BY <2>1
<1>2. IsList(FlattenSeq(ss)) /\ Range(FlattenSeq(ss)) = UNION {Range(ss[n]) : n \in DOMAIN list}
  BY <1>1, EachRange
<1>3. UNION {Range(ss[n]) : n \in DOMAIN list} = UNION {{list[n]} \intersect K : n \in DOMAIN list}
  BY <1>1
<1>4. UNION {{list[n]} \intersect K : n \in DOMAIN list} = Range(list) \intersect K
  BY DEF Range
<1> QED
  BY <1>2, <1>3, <1>4

-----------------------------------------------------------------------------
(***************************************************************************)
(* Configuration: what the rewritten package says of a field is what the   *)
(* changes ask for.                                                        *)
(***************************************************************************)
\* A set of indices has a greatest one.
LEMMA GreatestOf ==
  ASSUME NEW n \in Nat, NEW S, S \subseteq 1 .. n, S # {}
  PROVE  \E i \in S : \A j \in S : j <= i
<1> DEFINE T == {n - i : i \in S}
<1>1. T \subseteq Nat /\ T # {}
  <2>1. ASSUME NEW i \in S PROVE n - i \in Nat
    <3>1. i \in 1 .. n
      OBVIOUS
    <3> QED
      BY <3>1
  <2> QED
    BY <2>1
<1>2. PICK t \in T : \A u \in T : t <= u
  BY <1>1, LeastOf
<1>3. PICK i \in S : t = n - i
  OBVIOUS
<1>4. ASSUME NEW j \in S PROVE j <= i
  <2>1. n - i <= n - j
    BY <1>2, <1>3
  <2> QED
    BY <2>1
<1> QED
  BY <1>4

\* the last line that defines a name
Defines(lines, kind, n, i) ==
  /\ i \in DOMAIN lines /\ lines[i].kind = kind /\ lines[i].name = n
  /\ \A j \in DOMAIN lines : lines[j].kind = kind /\ lines[j].name = n => j <= i

\* The dictionaries have that line of every name.
LEMMA DictIs ==
  ASSUME NEW lines, IsList(lines), NEW kind
  PROVE  /\ \A n : n \in DOMAIN i_dict(lines, kind) <=>
                   \E i \in DOMAIN lines : lines[i].kind = kind /\ lines[i].name = n
         /\ \A n \in DOMAIN i_dict(lines, kind) : Defines(lines, kind, n, i_dict(lines, kind)[n])
<1> DEFINE here == {i \in DOMAIN lines : lines[i].kind = kind}
           last(n) == CHOOSE i \in here : lines[i].name = n /\ \A j \in here : lines[j].name = n => j <= i
<1>1. i_dict(lines, kind) = [n \in {lines[i].name : i \in here} |-> last(n)]
  BY DEF i_dict
<1>2. DOMAIN lines = 1 .. Len(lines) /\ Len(lines) \in Nat
  BY ListOf DEF IsList
<1>3. ASSUME NEW n, \E i \in here : lines[i].name = n
      PROVE  last(n) \in here /\ lines[last(n)].name = n /\ \A j \in here : lines[j].name = n => j <= last(n)
  <2> DEFINE S == {i \in here : lines[i].name = n}
  <2>1. S # {} /\ S \subseteq 1 .. Len(lines)
    BY <1>2, <1>3
  <2>2. PICK i \in S : \A j \in S : j <= i
    BY <1>2, <2>1, GreatestOf
  <2>3. i \in here /\ lines[i].name = n /\ \A j \in here : lines[j].name = n => j <= i
    BY <2>2
  <2> HIDE DEF here, S
  <2> QED
    BY <2>3
<1>4. ASSUME NEW n \in DOMAIN i_dict(lines, kind) PROVE Defines(lines, kind, n, i_dict(lines, kind)[n])
  <2>1. \E i \in here : lines[i].name = n
    BY <1>1
  <2>2. i_dict(lines, kind)[n] = last(n)
    BY <1>1
  <2> HIDE DEF last
  <2> QED
    BY <1>3, <2>1, <2>2 DEF Defines
<1>5. \A n : n \in DOMAIN i_dict(lines, kind) <=> \E i \in DOMAIN lines : lines[i].kind = kind /\ lines[i].name = n
  BY <1>1
<1> QED
  BY <1>4, <1>5

\* packages that differ in values only
Alike(l, m) ==
  /\ DOMAIN m = DOMAIN l /\ IsList(m)
  /\ \A i \in DOMAIN l : /\ "value" \in DOMAIN m[i]
                         /\ m[i].kind = l[i].kind /\ m[i].name = l[i].name /\ m[i].cast = l[i].cast

\* They have the same dictionaries.
LEMMA SameDict ==
  ASSUME NEW l, NEW m, IsList(l), Alike(l, m), NEW kind
  PROVE  i_dict(m, kind) = i_dict(l, kind)
<1>1. \A n : n \in DOMAIN i_dict(m, kind) <=> n \in DOMAIN i_dict(l, kind)
  BY DictIs DEF Alike
<1>2. ASSUME NEW n \in DOMAIN i_dict(l, kind) PROVE i_dict(m, kind)[n] = i_dict(l, kind)[n]
  <2>1. PICK i : i = i_dict(l, kind)[n] /\ Defines(l, kind, n, i)
    BY DictIs
  <2>2. PICK j : j = i_dict(m, kind)[n] /\ Defines(m, kind, n, j)
    BY <1>1, DictIs DEF Alike
  <2>3. DOMAIN l = 1 .. Len(l) /\ Len(l) \in Nat
    BY ListOf DEF IsList
  <2>4. i \in DOMAIN l /\ j \in DOMAIN l /\ j <= i /\ i <= j
    BY <2>1, <2>2 DEF Defines, Alike
  <2> QED
    BY <2>1, <2>2, <2>3, <2>4
<1>3. /\ i_dict(l, kind) = [n \in DOMAIN i_dict(l, kind) |-> i_dict(l, kind)[n]]
      /\ i_dict(m, kind) = [n \in DOMAIN i_dict(m, kind) |-> i_dict(m, kind)[n]]
  BY DEF i_dict
<1>4. DOMAIN i_dict(m, kind) = DOMAIN i_dict(l, kind)
  BY <1>1
<1> QED
  BY <1>2, <1>3, <1>4

\* the places of a package, and their lines
PlacesOf(lines) == ({"cfg"} \X DOMAIN i_config(lines)) \union ({"param"} \X DOMAIN i_params(lines))

LineAt(lines, pl) == IF pl[1] = "cfg" THEN i_config(lines)[pl[2]] ELSE i_params(lines)[pl[2]]

\* Every place has a line of its own.
LEMMA PlacesApart ==
  ASSUME NEW lines, IsList(lines)
  PROVE  /\ \A p \in PlacesOf(lines) : LineAt(lines, p) \in DOMAIN lines
         /\ \A p, q \in PlacesOf(lines) : LineAt(lines, p) = LineAt(lines, q) => p = q
<1>1. ASSUME NEW p \in PlacesOf(lines)
      PROVE  LineAt(lines, p) \in DOMAIN lines /\ p = << lines[LineAt(lines, p)].kind, lines[LineAt(lines, p)].name >>
  <2>1. CASE p \in {"cfg"} \X DOMAIN i_config(lines)
    BY <2>1, DictIs DEF LineAt, Defines, i_config
  <2>2. CASE p \in {"param"} \X DOMAIN i_params(lines)
    BY <2>2, DictIs DEF LineAt, Defines, i_params
  <2> QED
    BY <2>1, <2>2 DEF PlacesOf
<1> QED
  BY <1>1

\* One step of a chain of localparams: to the last name, or collecting places.
Follow(what, ps, f, n) ==
  IF what = "root" THEN IF ps[n] \in DOMAIN ps THEN f[ps[n]] ELSE n
  ELSE << << "param", n >> >> \o IF ps[n] \in DOMAIN ps THEN f[ps[n]] ELSE << >>

\* There is a function that follows the chains.
LEMMA FollowExists ==
  ASSUME NEW ps, ChainsEnd(ps), NEW what
  PROVE  \E f : f = [n \in DOMAIN ps |-> Follow(what, ps, f, n)]
<1>1. PICK depth \in Nat : \E rank \in [DOMAIN ps -> 0 .. depth] : Falls(ps, rank)
  BY DEF ChainsEnd
<1>2. PICK rank \in [DOMAIN ps -> 0 .. depth] : Falls(ps, rank)
  BY <1>1
<1> DEFINE Low(k) == {n \in DOMAIN ps : rank[n] < k}
           Bad == {k \in Nat : ~\E f : f = [n \in Low(k) |-> Follow(what, ps, f, n)]}
<1>3. Bad = {}
  <2>1. SUFFICES ASSUME Bad # {} PROVE FALSE
    OBVIOUS
  <2>2. PICK k \in Bad : \A m \in Bad : k <= m
    <3>1. Bad \subseteq Nat
      OBVIOUS
    <3> QED
      BY <2>1, <3>1, LeastOf
  <2>3. k # 0
    <3> DEFINE f == [n \in Low(0) |-> 0]
    <3>1. Low(0) = {}
      BY <1>2
    <3>2. f = [n \in Low(0) |-> Follow(what, ps, f, n)]
      BY <3>1
    <3> QED
      BY <2>2, <3>2
  <2>4. k - 1 \in Nat /\ k - 1 \notin Bad
    <3>1. k \in Nat
      BY <2>2
    <3> HIDE DEF Bad
    <3> QED
      BY <2>2, <2>3, <3>1
  <2>5. PICK f : f = [n \in Low(k - 1) |-> Follow(what, ps, f, n)]
    BY <2>4
  <2>6. PICK g : g = [n \in Low(k) |-> Follow(what, ps, f, n)]
    OBVIOUS
  <2>7. ASSUME NEW n \in Low(k) PROVE Follow(what, ps, f, n) = Follow(what, ps, g, n)
    <3>1. ASSUME ps[n] \in DOMAIN ps PROVE f[ps[n]] = g[ps[n]]
      <4>1. rank[ps[n]] < rank[n]
        BY <1>2, <3>1 DEF Falls
      <4>2. ps[n] \in Low(k - 1) /\ ps[n] \in Low(k)
        BY <1>2, <2>4, <3>1, <4>1
      <4> QED
        BY <2>5, <2>6, <4>2
    <3> HIDE DEF Low, Bad
    <3> QED
      BY <3>1 DEF Follow
  <2>8. g = [n \in Low(k) |-> Follow(what, ps, g, n)]
    BY <2>6, <2>7
  <2> QED
    BY <2>2, <2>8
<1>4. PICK f : f = [n \in Low(depth + 1) |-> Follow(what, ps, f, n)]
  <2> HIDE DEF Low
  <2>1. depth + 1 \notin Bad
    BY <1>3, Zenon
  <2> QED
    BY <2>1
<1>5. Low(depth + 1) = DOMAIN ps
  BY <1>2
<1> QED
  BY <1>4, <1>5

\* find_root_def follows a chain of localparams to its end.
LEMMA RootIs ==
  ASSUME NEW ps, ChainsEnd(ps), NEW n \in DOMAIN ps
  PROVE  find_root_def(n, ps) = IF ps[n] \in DOMAIN ps THEN find_root_def(ps[n], ps) ELSE n
<1> DEFINE root == CHOOSE root : root = [m \in DOMAIN ps |-> IF ps[m] \in DOMAIN ps THEN root[ps[m]] ELSE m]
<1>1. \E f : f = [m \in DOMAIN ps |-> IF ps[m] \in DOMAIN ps THEN f[ps[m]] ELSE m]
  <2>1. PICK f : f = [m \in DOMAIN ps |-> Follow("root", ps, f, m)]
    BY FollowExists
  <2>2. f = [m \in DOMAIN ps |-> IF ps[m] \in DOMAIN ps THEN f[ps[m]] ELSE m]
    BY <2>1 DEF Follow
  <2> QED
    BY <2>2
<1>2. root = [m \in DOMAIN ps |-> IF ps[m] \in DOMAIN ps THEN root[ps[m]] ELSE m]
  BY <1>1
<1>3. \A m : find_root_def(m, ps) = root[m]
  BY DEF find_root_def
<1> HIDE DEF root
<1> QED
  BY <1>2, <1>3

\* the places behind a localparam
Behind(ps, n) ==
  LET behind[m \in DOMAIN ps] == << << "param", m >> >> \o IF ps[m] \in DOMAIN ps THEN behind[ps[m]] ELSE << >>
  IN  behind[n]

\* They are its own and those behind the one it refers to.
LEMMA BehindIs ==
  ASSUME NEW ps, ChainsEnd(ps), NEW n \in DOMAIN ps
  PROVE  Behind(ps, n) = << << "param", n >> >> \o IF ps[n] \in DOMAIN ps THEN Behind(ps, ps[n]) ELSE << >>
<1> DEFINE behind == CHOOSE behind : behind = [m \in DOMAIN ps |-> << << "param", m >> >> \o IF ps[m] \in DOMAIN ps THEN behind[ps[m]] ELSE << >>]
<1>1. \E f : f = [m \in DOMAIN ps |-> << << "param", m >> >> \o IF ps[m] \in DOMAIN ps THEN f[ps[m]] ELSE << >>]
  <2>1. PICK f : f = [m \in DOMAIN ps |-> Follow("behind", ps, f, m)]
    BY FollowExists
  <2>2. f = [m \in DOMAIN ps |-> << << "param", m >> >> \o IF ps[m] \in DOMAIN ps THEN f[ps[m]] ELSE << >>]
    BY <2>1 DEF Follow
  <2> QED
    BY <2>2
<1>2. behind = [m \in DOMAIN ps |-> << << "param", m >> >> \o IF ps[m] \in DOMAIN ps THEN behind[ps[m]] ELSE << >>]
  BY <1>1
<1>3. \A m : Behind(ps, m) = behind[m]
  BY DEF Behind
<1> HIDE DEF behind
<1> QED
  BY <1>2, <1>3

\* a path: one place and those behind it
LEMMA PathIs ==
  ASSUME NEW lines, NEW field
  PROVE  Path(lines, field) =
           << << "cfg", field >> >>
             \o IF find_casting(lines, field).value \in DOMAIN params(lines)
                THEN Behind(params(lines), find_casting(lines, field).value) ELSE << >>
BY DEF Path, Behind

\* What holds of a localparam whenever it holds of the one it refers to holds of all.
LEMMA AlongChains ==
  ASSUME NEW ps, ChainsEnd(ps), NEW S,
         \A n \in DOMAIN ps : (ps[n] \in DOMAIN ps => ps[n] \in S) => n \in S
  PROVE  DOMAIN ps \subseteq S
<1>1. PICK depth \in Nat : \E rank \in [DOMAIN ps -> 0 .. depth] : Falls(ps, rank)
  BY DEF ChainsEnd
<1>2. PICK rank \in [DOMAIN ps -> 0 .. depth] : Falls(ps, rank)
  BY <1>1
<1> DEFINE Bad == {rank[n] : n \in DOMAIN ps \ S}
<1>3. SUFFICES ASSUME Bad # {} PROVE FALSE
  OBVIOUS
<1>4. PICK k \in Bad : \A m \in Bad : k <= m
  <2>1. Bad \subseteq Nat
    BY <1>2
  <2> QED
    BY <1>3, <2>1, LeastOf
<1>5. PICK n \in DOMAIN ps \ S : k = rank[n]
  BY <1>4
<1>6. ps[n] \in DOMAIN ps /\ ps[n] \notin S
  BY <1>5
<1>7. rank[ps[n]] < rank[n] /\ rank[ps[n]] \in Bad
  BY <1>2, <1>5, <1>6 DEF Falls
<1>8. rank[ps[n]] \in Int /\ rank[n] \in Int
  BY <1>2, <1>5, <1>6
<1> HIDE DEF Bad
<1>9. rank[n] <= rank[ps[n]]
  BY <1>4, <1>5, <1>7
<1> QED
  BY <1>7, <1>8, <1>9

\* The members of a list with one more in front.
LEMMA InFront ==
  ASSUME NEW x, NEW t, IsList(t)
  PROVE  /\ IsList(Cons(x, t)) /\ DOMAIN Cons(x, t) = 1 .. Len(t) + 1 /\ Len(Cons(x, t)) = Len(t) + 1
         /\ DOMAIN t = 1 .. Len(t) /\ Len(t) \in Nat
         /\ Cons(x, t)[1] = x /\ \A i \in 1 .. Len(t) : Cons(x, t)[i + 1] = t[i]
         /\ Range(Cons(x, t)) = {x} \union Range(t)
<1> DEFINE S == {x} \union Range(t)
           s == << x >> \o t
<1>1. t \in Seq(S) /\ << x >> \in Seq(S) /\ Len(<< x >>) = 1
  BY SeqMonotonic DEF IsList
<1>2. /\ s \in Seq(S) /\ Len(s) = 1 + Len(t)
      /\ \A i \in 1 .. 1 + Len(t) : s[i] = IF i <= 1 THEN << x >>[i] ELSE t[i - 1]
  BY <1>1, ConcatProperties
<1>3. IsList(s) /\ Range(s) = {x} \union Range(t)
  BY ShortLists, Concat
<1>4. DOMAIN t = 1 .. Len(t) /\ Len(t) \in Nat /\ DOMAIN s = 1 .. Len(s)
  BY <1>1, <1>2, LenProperties
<1> HIDE DEF s
<1>5. s[1] = x
  BY <1>2, <1>4
<1>6. ASSUME NEW i \in 1 .. Len(t) PROVE s[i + 1] = t[i]
  <2>1. i + 1 \in 1 .. 1 + Len(t) /\ ~(i + 1 <= 1) /\ (i + 1) - 1 = i
    BY <1>4
  <2> QED
    BY <1>2, <2>1
<1>7. s = Cons(x, t)
  BY DEF s, Cons
<1> QED
  BY <1>2, <1>3, <1>4, <1>5, <1>6, <1>7

\* The places behind a localparam are localparams, up to the end of its chain.
LEMMA BehindPlaces ==
  ASSUME NEW ps, ChainsEnd(ps), NEW n \in DOMAIN ps
  PROVE  /\ IsList(Behind(ps, n)) /\ Len(Behind(ps, n)) # 0
         /\ Range(Behind(ps, n)) \subseteq {"param"} \X DOMAIN ps
         /\ Last(Behind(ps, n)) = << "param", find_root_def(n, ps) >>
         /\ find_root_def(n, ps) \in DOMAIN ps
<1> DEFINE P(m) == /\ IsList(Behind(ps, m)) /\ Len(Behind(ps, m)) # 0
                   /\ Range(Behind(ps, m)) \subseteq {"param"} \X DOMAIN ps
                   /\ Last(Behind(ps, m)) = << "param", find_root_def(m, ps) >>
                   /\ find_root_def(m, ps) \in DOMAIN ps
           S == {m \in DOMAIN ps : P(m)}
<1>1. ASSUME NEW m \in DOMAIN ps, ps[m] \in DOMAIN ps => ps[m] \in S PROVE m \in S
  <2>1. CASE ps[m] \in DOMAIN ps
    <3>1. PICK t : t = Behind(ps, ps[m])
      OBVIOUS
    <3> PICK x : x = << "param", m >>
      OBVIOUS
    <3>2. PICK s : s = Cons(x, t)
      OBVIOUS
    <3>3. Behind(ps, m) = s /\ find_root_def(m, ps) = find_root_def(ps[m], ps)
      BY <2>1, <3>1, <3>2, BehindIs, RootIs DEF Cons
    <3>4. /\ IsList(t) /\ Len(t) # 0 /\ Range(t) \subseteq {"param"} \X DOMAIN ps
          /\ Last(t) = << "param", find_root_def(ps[m], ps) >> /\ find_root_def(ps[m], ps) \in DOMAIN ps
      BY <1>1, <2>1, <3>1
    <3>5. /\ IsList(s) /\ Len(s) = Len(t) + 1 /\ Len(t) \in Nat
          /\ \A i \in 1 .. Len(t) : s[i + 1] = t[i]
          /\ Range(s) = {x} \union Range(t)
      BY <3>2, <3>4, InFront
    <3>6. Last(s) = Last(t) /\ Len(s) # 0
      BY <3>4, <3>5 DEF Last
    <3> QED
      BY <3>3, <3>4, <3>5, <3>6
  <2>2. CASE ps[m] \notin DOMAIN ps
    <3>1. PICK t : t = << >>
      OBVIOUS
    <3> PICK x : x = << "param", m >>
      OBVIOUS
    <3>2. PICK s : s = Cons(x, t)
      OBVIOUS
    <3>3. Behind(ps, m) = s /\ find_root_def(m, ps) = m
      BY <2>2, <3>1, <3>2, BehindIs, RootIs DEF Cons
    <3>4. IsList(t) /\ Range(t) = {} /\ Len(t) = 0
      BY <3>1, ShortLists
    <3>5. IsList(s) /\ Len(s) = 1 /\ s[1] = x /\ Range(s) = {x}
      BY <3>2, <3>4, InFront
    <3>6. Last(s) = << "param", m >>
      BY <3>5 DEF Last
    <3> QED
      BY <3>3, <3>5, <3>6
  <2> QED
    BY <2>1, <2>2
<1>2. DOMAIN ps \subseteq S
  <2> HIDE DEF S
  <2> QED
    BY <1>1, AlongChains
<1> QED
  BY <1>2

\* A path ends where the literal is.
LEMMA PathEnd ==
  ASSUME NEW lines, ChainsEnd(params(lines)), NEW field
  PROVE  LET value == find_casting(lines, field).value
         IN  Last(Path(lines, field)) =
               IF value \in DOMAIN params(lines) THEN << "param", find_root_def(value, params(lines)) >>
               ELSE << "cfg", field >>
<1> DEFINE value == find_casting(lines, field).value
           ps == params(lines)
<1>1. PICK t : t = IF value \in DOMAIN ps THEN Behind(ps, value) ELSE << >>
  OBVIOUS
<1>2. PICK x : x = << "cfg", field >>
  OBVIOUS
<1>3. Path(lines, field) = Cons(x, t)
  BY <1>1, <1>2, PathIs DEF Cons
<1>4. CASE value \in DOMAIN ps
  <2>1. IsList(t) /\ Len(t) # 0 /\ Last(t) = << "param", find_root_def(value, ps) >>
    BY <1>1, <1>4, BehindPlaces
  <2>2. /\ Len(Cons(x, t)) = Len(t) + 1 /\ Len(t) \in Nat
        /\ \A i \in 1 .. Len(t) : Cons(x, t)[i + 1] = t[i]
    BY <2>1, InFront
  <2>3. Cons(x, t)[Len(Cons(x, t))] = t[Len(t)]
    BY <2>1, <2>2
  <2> QED
    BY <1>3, <1>4, <2>1, <2>3 DEF Last
<1>5. CASE value \notin DOMAIN ps
  <2>1. IsList(t) /\ Len(t) = 0
    BY <1>1, <1>5, ShortLists
  <2>2. Len(Cons(x, t)) = Len(t) + 1 /\ Cons(x, t)[1] = x
    BY <2>1, InFront
  <2>3. Len(Cons(x, t)) = 1
    BY <2>1, <2>2
  <2> QED
    BY <1>2, <1>3, <1>5, <2>2, <2>3 DEF Last
<1> QED
  BY <1>4, <1>5

\* r is m but for the value v of line i; both are packages like l
Replaced(l, m, i, v, r) ==
  Alike(l, r) /\ r[i].value = v /\ \A j \in DOMAIN l : j # i => r[j].value = m[j].value

\* Only the value of one line changes.
LEMMA ReplaceIs ==
  ASSUME NEW l, IsList(l), NEW m, Alike(l, m), NEW i \in DOMAIN l, NEW v
  PROVE  Replaced(l, m, i, v, replace_line(m, i, v))
<1> DEFINE r == [j \in DOMAIN m |-> IF j = i THEN [m[i] EXCEPT !.value = v] ELSE m[j]]
<1>1. replace_line(m, i, v) = r
  BY DEF replace_line
<1>2. DOMAIN l = 1 .. Len(l) /\ Len(l) \in Nat /\ DOMAIN m = DOMAIN l
  BY ListOf DEF IsList, Alike
<1>3. IsList(r) /\ DOMAIN r = DOMAIN l
  BY <1>2, MapList
<1>4. ASSUME NEW j \in DOMAIN l
      PROVE  /\ "value" \in DOMAIN r[j]
             /\ r[j].kind = l[j].kind /\ r[j].name = l[j].name /\ r[j].cast = l[j].cast
             /\ r[j].value = IF j = i THEN v ELSE m[j].value
  <2>1. r[j] = IF j = i THEN [m[j] EXCEPT !.value = v] ELSE m[j]
    BY <1>2
  <2>2. /\ "value" \in DOMAIN m[j]
        /\ m[j].kind = l[j].kind /\ m[j].name = l[j].name /\ m[j].cast = l[j].cast
    BY DEF Alike
  <2>3. PICK x : x = m[j]
    OBVIOUS
  <2>4. PICK y : y = [x EXCEPT !.value = v]
    OBVIOUS
  <2>5. "value" \in DOMAIN y /\ y.value = v /\ y.kind = x.kind /\ y.name = x.name /\ y.cast = x.cast
    BY <2>2, <2>3, <2>4
  <2>6. r[j] = IF j = i THEN y ELSE x
    BY <2>1, <2>3, <2>4
  <2> HIDE DEF r
  <2>7. CASE j = i
    BY <2>2, <2>3, <2>5, <2>6, <2>7
  <2>8. CASE j # i
    BY <2>2, <2>3, <2>6, <2>8
  <2> QED
    BY <2>7, <2>8
<1> HIDE DEF r
<1> QED
  BY <1>1, <1>3, <1>4 DEF Alike, Replaced

\* Names are places.
LEMMA PlacesAre ==
  ASSUME NEW l, NEW n
  PROVE  /\ n \in DOMAIN i_config(l) => << "cfg", n >> \in PlacesOf(l) /\ LineAt(l, << "cfg", n >>) = i_config(l)[n]
         /\ n \in DOMAIN i_params(l) => << "param", n >> \in PlacesOf(l) /\ LineAt(l, << "param", n >>) = i_params(l)[n]
BY DEF PlacesOf, LineAt

\* a change with one of the prefixes, of a name that is there
Valid(l, c) == c.how \in {"*", "+", ""} /\ known(l, c)

\* e is m but for the value in the place of the change c
Changed(l, m, c, e) ==
  Place(l, c) \in PlacesOf(l) /\ e = replace_line(m, LineAt(l, Place(l, c)), c.value)

\* A change of a known name replaces the value in the place it is about.
LEMMA ChangeIs ==
  ASSUME NEW l, IsList(l), ChainsEnd(params(l)), NEW m, Alike(l, m), NEW c, Valid(l, c)
  PROVE  Changed(l, m, c, change(l, m, c))
<1> USE DEF Changed
<1>0. c.how \in {"*", "+", ""} /\ known(l, c)
  BY DEF Valid
<1>1. i_config(m) = i_config(l) /\ i_params(m) = i_params(l)
  BY SameDict DEF i_config, i_params
<1>2. DOMAIN params(l) = DOMAIN i_params(l)
  BY DEF params
<1>3. CASE c.how = "*"
  <2>1. c.name \in DOMAIN i_config(l) /\ Place(l, c) = << "cfg", c.name >>
    BY <1>0, <1>3 DEF known, Place
  <2>2. change(l, m, c) = replace_cfg(m, c.name, c.value)
    BY <1>3, <2>1 DEF change
  <2> QED
    BY <1>1, <2>1, <2>2, PlacesAre DEF replace_cfg
<1>4. CASE c.how = "+"
  <2>1. c.name \in DOMAIN i_params(l) /\ Place(l, c) = << "param", c.name >>
    BY <1>0, <1>4 DEF known, Place
  <2>2. change(l, m, c) = replace_param(m, c.name, c.value)
    BY <1>4, <2>1 DEF change
  <2> QED
    BY <1>1, <2>1, <2>2, PlacesAre DEF replace_param
<1>5. CASE c.how = ""
  <2>1. c.name \in DOMAIN i_config(l) /\ Place(l, c) = Last(Path(l, c.name))
    BY <1>0, <1>5 DEF known, Place
  <2>2. PICK value : value = find_casting(l, c.name).value
    OBVIOUS
  <2>3. Place(l, c) = IF value \in DOMAIN params(l) THEN << "param", find_root_def(value, params(l)) >>
                      ELSE << "cfg", c.name >>
    BY <2>1, <2>2, PathEnd
  <2>4. change(l, m, c) = IF value \in DOMAIN params(l)
                          THEN replace_param(m, find_root_def(value, params(l)), c.value)
                          ELSE replace_cfg(m, c.name, c.value)
    BY <1>5, <2>1, <2>2 DEF change
  <2>5. CASE value \in DOMAIN params(l)
    <3>1. find_root_def(value, params(l)) \in DOMAIN i_params(l)
      BY <1>2, <2>5, BehindPlaces
    <3> QED
      BY <1>1, <2>3, <2>4, <2>5, <3>1, PlacesAre DEF replace_param
  <2>6. CASE value \notin DOMAIN params(l)
    BY <1>1, <2>1, <2>3, <2>4, <2>6, PlacesAre DEF replace_cfg
  <2> QED
    BY <2>5, <2>6
<1> QED
  BY <1>0, <1>3, <1>4, <1>5

\* the package after n changes, in terms of the packages before
Derived(l, changes, f, n) == IF n = 0 THEN l ELSE change(l, f[n - 1], changes[n])

\* There are such packages.
LEMMA DerivedExists ==
  ASSUME NEW l, NEW changes, NEW N \in Nat
  PROVE  \E f : f = [n \in 0 .. N |-> Derived(l, changes, f, n)]
<1> DEFINE Bad == {k \in Nat : ~\E f : f = [n \in 0 .. k |-> Derived(l, changes, f, n)]}
<1>1. SUFFICES ASSUME Bad # {} PROVE FALSE
  OBVIOUS
<1>2. PICK k \in Bad : \A m \in Bad : k <= m
  <2>1. Bad \subseteq Nat
    OBVIOUS
  <2> QED
    BY <1>1, <2>1, LeastOf
<1>3. k # 0
  <2> DEFINE f == [n \in 0 .. 0 |-> l]
  <2>1. f = [n \in 0 .. 0 |-> Derived(l, changes, f, n)]
    BY DEF Derived
  <2> QED
    BY <1>2, <2>1
<1>4. PICK f : f = [n \in 0 .. k - 1 |-> Derived(l, changes, f, n)]
  <2>1. k \in Nat
    BY <1>2
  <2>2. k - 1 \in Nat /\ k - 1 \notin Bad
    <3> HIDE DEF Bad
    <3> QED
      BY <1>2, <1>3, <2>1
  <2> QED
    BY <2>2
<1> DEFINE g == [n \in 0 .. k |-> Derived(l, changes, f, n)]
<1>5. ASSUME NEW n \in 0 .. k PROVE Derived(l, changes, f, n) = Derived(l, changes, g, n)
  <2>1. n # 0 => f[n - 1] = g[n - 1]
    BY <1>2, <1>4
  <2> QED
    BY <2>1 DEF Derived
<1>6. g = [n \in 0 .. k |-> Derived(l, changes, g, n)]
  BY <1>5
<1> QED
  BY <1>2, <1>6

\* the last of the first n changes that is about a place
Latest(l, changes, n, p, i) ==
  /\ i \in 1 .. n /\ Place(l, changes[i]) = p
  /\ \A j \in 1 .. n : Place(l, changes[j]) = p => j <= i

\* what a place has after the first n changes
Holds(l, changes, n, p, x) ==
  \/ (\A j \in 1 .. n : Place(l, changes[j]) # p) /\ x = l[LineAt(l, p)].value
  \/ \E i \in 1 .. n : Latest(l, changes, n, p, i) /\ x = changes[i].value

\* derive_config leaves in every place what was put there last.
LEMMA DerivedIs ==
  ASSUME NEW l, Package(l), ChainsEnd(params(l)), NEW changes, Changes(changes),
         derive_config(l, changes) # Error
  PROVE  /\ Alike(l, derive_config(l, changes))
         /\ \A p \in PlacesOf(l) :
              Holds(l, changes, Len(changes), p, derive_config(l, changes)[LineAt(l, p)].value)
<1>1. DOMAIN changes = 1 .. Len(changes) /\ Len(changes) \in Nat /\ IsList(l)
  BY ListOf DEF Changes, Package, IsList
<1>2. \A i \in DOMAIN changes : known(l, changes[i])
  BY DEF derive_config
<1>3. PICK N \in Nat : N = Len(changes)
  BY <1>1
<1> DEFINE d == CHOOSE f : f = [n \in 0 .. N |-> Derived(l, changes, f, n)]
<1>4. d = [n \in 0 .. N |-> Derived(l, changes, d, n)]
  BY DerivedExists
<1>5. derive_config(l, changes) = d[N]
  BY <1>2, <1>3 DEF derive_config, Loop, Derived
<1> HIDE DEF d
<1> DEFINE P(n) == Alike(l, d[n]) /\ \A p \in PlacesOf(l) : Holds(l, changes, n, p, d[n][LineAt(l, p)].value)
           Bad == {n \in 0 .. N : ~P(n)}
<1>6. Bad = {}
  <2>1. SUFFICES ASSUME Bad # {} PROVE FALSE
    OBVIOUS
  <2>2. PICK n \in Bad : \A m \in Bad : n <= m
    <3>1. Bad \subseteq Nat
      OBVIOUS
    <3> QED
      BY <2>1, <3>1, LeastOf
  <2>3. n \in 0 .. N /\ ~P(n)
    BY <2>2
  <2>4. n # 0
    <3>1. d[0] = l
      BY <1>4 DEF Derived
    <3>2. Alike(l, l)
      BY <1>1 DEF Alike, Package
    <3>3. \A p \in PlacesOf(l) : Holds(l, changes, 0, p, l[LineAt(l, p)].value)
      BY DEF Holds
    <3> QED
      BY <2>3, <3>1, <3>2, <3>3
  <2>5. n - 1 \in 0 .. N /\ P(n - 1)
    <3>1. n - 1 \in 0 .. N /\ n - 1 \notin Bad
      <4>1. n \in Nat /\ n - 1 \in 0 .. N
        BY <2>3, <2>4
      <4> HIDE DEF Bad
      <4> QED
        BY <2>2, <4>1
    <3> HIDE DEF P
    <3> QED
      BY <3>1
  <2>6. PICK m : m = d[n - 1]
    OBVIOUS
  <2>7. PICK c : c = changes[n]
    OBVIOUS
  <2>8. PICK pl : pl = Place(l, c)
    OBVIOUS
  <2>9. Valid(l, c) /\ Alike(l, m)
    <3>1. n \in DOMAIN changes
      BY <1>1, <1>3, <2>3, <2>4
    <3>2. c.how \in {"*", "+", ""} /\ known(l, c)
      BY <1>2, <2>7, <3>1 DEF Changes
    <3>3. Alike(l, m)
      BY <2>5, <2>6
    <3> QED
      BY <3>2, <3>3 DEF Valid
  <2>10. Changed(l, m, c, d[n])
    <3>1. d[n] = change(l, m, c)
      BY <1>4, <2>3, <2>4, <2>6, <2>7 DEF Derived
    <3> HIDE DEF P, Bad
    <3>2. Changed(l, m, c, change(l, m, c))
      BY <1>1, <2>9, ChangeIs
    <3> QED
      BY <3>1, <3>2
  <2>11. pl \in PlacesOf(l) /\ LineAt(l, pl) \in DOMAIN l
    BY <1>1, <2>8, <2>10, PlacesApart DEF Changed
  <2>12. Replaced(l, m, LineAt(l, pl), c.value, d[n])
    <3>1. PICK i \in DOMAIN l : i = LineAt(l, pl)
      BY <2>11
    <3>2. PICK v : v = c.value
      OBVIOUS
    <3>3. d[n] = replace_line(m, i, v)
      BY <2>8, <2>10, <3>1, <3>2 DEF Changed
    <3> HIDE DEF P, Bad
    <3>4. Replaced(l, m, i, v, replace_line(m, i, v))
      BY <1>1, <2>9, ReplaceIs
    <3> QED
      BY <3>1, <3>2, <3>3, <3>4
  <2>13. ASSUME NEW p \in PlacesOf(l) PROVE Holds(l, changes, n, p, d[n][LineAt(l, p)].value)
    <3>1. CASE p = pl
      <4>1. Latest(l, changes, n, p, n)
        BY <2>3, <2>4, <2>7, <2>8, <3>1 DEF Latest
      <4> QED
        BY <2>3, <2>4, <2>7, <2>12, <3>1, <4>1 DEF Holds, Replaced
    <3>2. CASE p # pl
      <4>1. LineAt(l, p) # LineAt(l, pl) /\ LineAt(l, p) \in DOMAIN l
        BY <1>1, <2>11, <3>2, PlacesApart
      <4>2. PICK x : x = m[LineAt(l, p)].value
        OBVIOUS
      <4>3. d[n][LineAt(l, p)].value = x /\ Holds(l, changes, n - 1, p, x)
        BY <2>5, <2>6, <2>12, <4>1, <4>2 DEF Replaced
      <4>4. \A j \in 1 .. n : Place(l, changes[j]) = p => j \in 1 .. n - 1
        BY <2>3, <2>7, <2>8, <3>2
      <4>5. \A j \in 1 .. n - 1 : j \in 1 .. n
        BY <2>3
      <4> QED
        BY <4>3, <4>4, <4>5 DEF Holds, Latest
    <3> QED
      BY <3>1, <3>2
  <2> QED
    BY <2>3, <2>12, <2>13 DEF Replaced
<1>7. P(N)
  <2> HIDE DEF P
  <2> QED
    BY <1>6
<1> QED
  BY <1>3, <1>5, <1>7

\* a literal, or what the localparam at the end of the chain has
Value(ps, v) == IF v \in DOMAIN ps THEN ps[find_root_def(v, ps)] ELSE v

\* A localparam has the value of what it refers to.
LEMMA ValueIs ==
  ASSUME NEW ps, ChainsEnd(ps), NEW v
  PROVE  Value(ps, v) = IF v \in DOMAIN ps THEN Value(ps, ps[v]) ELSE v
<1>1. CASE v \in DOMAIN ps
  <2>1. CASE ps[v] \in DOMAIN ps
    BY <1>1, <2>1, RootIs DEF Value
  <2>2. CASE ps[v] \notin DOMAIN ps
    BY <1>1, <2>2, RootIs DEF Value
  <2> QED
    BY <2>1, <2>2
<1>2. CASE v \notin DOMAIN ps
  BY <1>2 DEF Value
<1> QED
  BY <1>1, <1>2

\* some change is about the place p; the last one puts y there
Touched(l, changes, p) == \E j \in 1 .. Len(changes) : Place(l, changes[j]) = p

Puts(l, changes, p, y) ==
  \E i \in 1 .. Len(changes) : Latest(l, changes, Len(changes), p, i) /\ y = changes[i].value

\* along the places of t, the first changed place decides y; if there is none y is x
Decides(l, changes, t, x, y) ==
  \/ (\A k \in DOMAIN t : ~Touched(l, changes, t[k])) /\ y = x
  \/ \E k \in DOMAIN t : /\ \A j \in DOMAIN t : j < k => ~Touched(l, changes, t[j])
                         /\ Puts(l, changes, t[k], y)

\* A place in front decides, or leaves it to the others.
LEMMA ConsDecides ==
  ASSUME NEW l, NEW changes, NEW p, NEW t, IsList(t), NEW x, NEW y,
         \/ Puts(l, changes, p, y)
         \/ ~Touched(l, changes, p) /\ Decides(l, changes, t, x, y)
  PROVE  Decides(l, changes, Cons(p, t), x, y)
<1>1. PICK s : s = Cons(p, t)
  OBVIOUS
<1>2. /\ DOMAIN s = 1 .. Len(t) + 1 /\ DOMAIN t = 1 .. Len(t) /\ Len(t) \in Nat
      /\ s[1] = p /\ \A i \in 1 .. Len(t) : s[i + 1] = t[i]
  BY <1>1, InFront
<1>3. \A i \in 2 .. Len(t) + 1 : i - 1 \in 1 .. Len(t) /\ s[i] = t[i - 1]
  <2>1. ASSUME NEW i \in 2 .. Len(t) + 1 PROVE i - 1 \in 1 .. Len(t) /\ s[i] = t[i - 1]
    <3>1. i - 1 \in 1 .. Len(t) /\ (i - 1) + 1 = i
      BY <1>2
    <3>2. s[(i - 1) + 1] = t[i - 1]
      BY <1>2, <3>1
    <3> QED
      BY <3>1, <3>2
  <2> QED
    BY <2>1
<1>4. CASE Puts(l, changes, p, y)
  <2>1. 1 \in DOMAIN s /\ \A j \in DOMAIN s : ~(j < 1)
    BY <1>2
  <2> QED
    BY <1>1, <1>2, <1>4, <2>1 DEF Decides
<1>5. CASE ~Touched(l, changes, p) /\ \A k \in DOMAIN t : ~Touched(l, changes, t[k])
  <2>1. CASE Puts(l, changes, p, y)
    BY <1>4, <2>1
  <2>2. CASE Decides(l, changes, t, x, y) /\ ~Puts(l, changes, p, y)
    <3>1. y = x
      BY <1>5, <2>2 DEF Decides, Puts, Touched, Latest
    <3>2. ASSUME NEW k \in DOMAIN s PROVE ~Touched(l, changes, s[k])
      <4>1. k = 1 \/ k \in 2 .. Len(t) + 1
        BY <1>2
      <4> QED
        BY <1>2, <1>3, <1>5, <4>1
    <3> QED
      BY <1>1, <3>1, <3>2 DEF Decides
  <2> QED
    BY <2>1, <2>2
<1>6. ASSUME ~Touched(l, changes, p), NEW k \in DOMAIN t, Puts(l, changes, t[k], y),
             \A j \in DOMAIN t : j < k => ~Touched(l, changes, t[j])
      PROVE  Decides(l, changes, s, x, y)
  <2>1. k + 1 \in DOMAIN s /\ s[k + 1] = t[k]
    BY <1>2
  <2>2. ASSUME NEW j \in DOMAIN s, j < k + 1 PROVE ~Touched(l, changes, s[j])
    <3>1. j = 1 \/ (j \in 2 .. Len(t) + 1 /\ j - 1 < k)
      BY <1>2, <2>2
    <3> QED
      BY <1>2, <1>3, <1>6, <3>1
  <2> QED
    BY <1>6, <2>1, <2>2 DEF Decides
<1> QED
  BY <1>1, <1>4, <1>5, <1>6 DEF Decides

\* lines and changes derive_config gets through
Derives(l, changes) ==
  /\ Package(l) /\ ChainsEnd(params(l)) /\ Changes(changes) /\ Literals(l, changes)
  /\ derive_config(l, changes) # Error

\* The derived package has the same places; what is in them is decided place by place.
LEMMA DerivedPlaces ==
  ASSUME NEW l, NEW changes, Derives(l, changes), NEW e, e = derive_config(l, changes)
  PROVE  /\ i_config(e) = i_config(l) /\ i_params(e) = i_params(l)
         /\ \A n \in DOMAIN i_config(l) : find_casting(e, n).cast = find_casting(l, n).cast
         /\ \A p \in PlacesOf(l) :
              LET x == l[LineAt(l, p)].value
                  y == e[LineAt(l, p)].value
              IN  \/ Puts(l, changes, p, y) /\ y \notin DOMAIN params(l)
                  \/ ~Touched(l, changes, p) /\ y = x
<1>1. IsList(l) /\ Package(l) /\ ChainsEnd(params(l)) /\ Changes(changes) /\ derive_config(l, changes) # Error
  BY DEF Derives, Package
<1>2. Alike(l, e) /\ \A p \in PlacesOf(l) : Holds(l, changes, Len(changes), p, e[LineAt(l, p)].value)
  BY <1>1, DerivedIs
<1>3. i_config(e) = i_config(l) /\ i_params(e) = i_params(l)
  BY <1>1, <1>2, SameDict DEF i_config, i_params
<1>4. ASSUME NEW n \in DOMAIN i_config(l) PROVE find_casting(e, n).cast = find_casting(l, n).cast
  <2>1. i_config(l)[n] \in DOMAIN l
    BY <1>1, DictIs DEF Defines, i_config
  <2> QED
    BY <1>2, <1>3, <2>1 DEF find_casting, Alike
<1>5. \A i \in 1 .. Len(changes) : changes[i].value \notin DOMAIN params(l)
  BY <1>1, ListOf DEF Derives, Literals, Changes, IsList
<1>6. ASSUME NEW p \in PlacesOf(l), NEW x, x = l[LineAt(l, p)].value, NEW y, y = e[LineAt(l, p)].value
      PROVE  \/ Puts(l, changes, p, y) /\ y \notin DOMAIN params(l)
             \/ ~Touched(l, changes, p) /\ y = x
  <2>1. Holds(l, changes, Len(changes), p, y)
    BY <1>2, <1>6
  <2> QED
    BY <1>5, <1>6, <2>1 DEF Holds, Puts, Touched
<1> QED
  BY <1>3, <1>4, <1>6

\* Its localparams are those of the original, and their chains end too.
LEMMA DerivedParams ==
  ASSUME NEW l, NEW changes, Derives(l, changes), NEW pe, pe = params(derive_config(l, changes)),
         NEW ps, ps = params(l)
  PROVE  /\ DOMAIN pe = DOMAIN ps /\ ChainsEnd(ps) /\ ChainsEnd(pe)
         /\ \A n \in DOMAIN ps : \/ Puts(l, changes, << "param", n >>, pe[n]) /\ pe[n] \notin DOMAIN ps
                                 \/ ~Touched(l, changes, << "param", n >>) /\ pe[n] = ps[n]
<1>1. PICK e : e = derive_config(l, changes)
  OBVIOUS
<1>2. DOMAIN pe = DOMAIN ps /\ DOMAIN ps = DOMAIN i_params(l)
  BY <1>1, DerivedPlaces DEF params
<1>3. ASSUME NEW n \in DOMAIN ps
      PROVE  \/ Puts(l, changes, << "param", n >>, pe[n]) /\ pe[n] \notin DOMAIN ps
             \/ ~Touched(l, changes, << "param", n >>) /\ pe[n] = ps[n]
  <2>1. PICK p : p = << "param", n >>
    OBVIOUS
  <2>2. p \in PlacesOf(l) /\ LineAt(l, p) = i_params(l)[n]
    BY <1>2, <2>1, PlacesAre
  <2>3. ps[n] = l[LineAt(l, p)].value
    BY <1>2, <2>2 DEF params
  <2>4. pe[n] = e[LineAt(l, p)].value
    BY <1>1, <1>2, <2>2, DerivedPlaces DEF params
  <2>5. \/ Puts(l, changes, p, e[LineAt(l, p)].value) /\ e[LineAt(l, p)].value \notin DOMAIN params(l)
        \/ ~Touched(l, changes, p) /\ e[LineAt(l, p)].value = l[LineAt(l, p)].value
    BY <1>1, <2>2, DerivedPlaces
  <2> QED
    BY <2>1, <2>3, <2>4, <2>5
<1>4. ChainsEnd(ps)
  BY DEF Derives
<1>5. ChainsEnd(pe)
  <2>1. PICK depth \in Nat : \E rank \in [DOMAIN ps -> 0 .. depth] : Falls(ps, rank)
    BY <1>4 DEF ChainsEnd
  <2>2. PICK rank \in [DOMAIN ps -> 0 .. depth] : Falls(ps, rank)
    BY <2>1
  <2>3. Falls(pe, rank)
    BY <1>2, <1>3, <2>2 DEF Falls
  <2> QED
    BY <1>2, <2>2, <2>3 DEF ChainsEnd
<1> QED
  BY <1>2, <1>3, <1>4, <1>5

\* the places behind what a place has
After(ps, x) == IF x \in DOMAIN ps THEN Behind(ps, x) ELSE << >>

\* Along a chain of localparams the first changed one decides.
LEMMA DecidedBehind ==
  ASSUME NEW l, NEW changes, Derives(l, changes), NEW pe, pe = params(derive_config(l, changes)),
         NEW ps, ps = params(l), NEW x
  PROVE  /\ IsList(After(ps, x))
         /\ Decides(l, changes, After(ps, x), Value(ps, x), Value(pe, x))
<1>1. /\ DOMAIN pe = DOMAIN ps /\ ChainsEnd(ps) /\ ChainsEnd(pe)
      /\ \A n \in DOMAIN ps : \/ Puts(l, changes, << "param", n >>, pe[n]) /\ pe[n] \notin DOMAIN ps
                              \/ ~Touched(l, changes, << "param", n >>) /\ pe[n] = ps[n]
  BY DerivedParams
<1> DEFINE S == {n \in DOMAIN ps : Decides(l, changes, After(ps, n), Value(ps, n), Value(pe, n))}
<1>2. \A n : IsList(After(ps, n))
  BY <1>1, BehindPlaces, ShortLists DEF After
<1>3. ASSUME NEW n, n \notin DOMAIN ps PROVE Decides(l, changes, After(ps, n), Value(ps, n), Value(pe, n))
  <2>1. After(ps, n) = << >> /\ Value(ps, n) = n /\ Value(pe, n) = n
    BY <1>1, <1>3 DEF After, Value
  <2> QED
    BY <2>1 DEF Decides
<1>4. ASSUME NEW n \in DOMAIN ps, ps[n] \in DOMAIN ps => ps[n] \in S PROVE n \in S
  <2>1. Decides(l, changes, After(ps, ps[n]), Value(ps, ps[n]), Value(pe, ps[n]))
    BY <1>3, <1>4
  <2>2. PICK t : t = After(ps, ps[n])
    OBVIOUS
  <2>3. PICK p : p = << "param", n >>
    OBVIOUS
  <2>4. After(ps, n) = Cons(p, t)
    BY <1>1, <2>2, <2>3, BehindIs DEF After, Cons
  <2>5. Value(ps, n) = Value(ps, ps[n]) /\ Value(pe, n) = Value(pe, pe[n])
    BY <1>1, ValueIs
  <2>6. \/ Puts(l, changes, p, Value(pe, n))
        \/ ~Touched(l, changes, p) /\ Decides(l, changes, t, Value(ps, n), Value(pe, n))
    <3>1. CASE Puts(l, changes, << "param", n >>, pe[n]) /\ pe[n] \notin DOMAIN ps
      BY <1>1, <2>3, <2>5, <3>1 DEF Value
    <3>2. CASE ~Touched(l, changes, << "param", n >>) /\ pe[n] = ps[n]
      BY <2>1, <2>2, <2>3, <2>5, <3>2
    <3> QED
      BY <1>1, <3>1, <3>2
  <2>7. Decides(l, changes, Cons(p, t), Value(ps, n), Value(pe, n))
    BY <1>2, <2>2, <2>6, ConsDecides
  <2> QED
    BY <2>4, <2>7
<1>5. DOMAIN ps \subseteq S
  <2> HIDE DEF S
  <2> QED
    BY <1>1, <1>4, AlongChains
<1> QED
  BY <1>2, <1>3, <1>5

\* And so it does along the path of a field.
LEMMA DecidedPath ==
  ASSUME NEW l, NEW changes, Derives(l, changes), NEW e, e = derive_config(l, changes),
         NEW n \in DOMAIN i_config(l)
  PROVE  /\ IsList(Path(l, n))
         /\ Decides(l, changes, Path(l, n), Value(params(l), find_casting(l, n).value),
                    Value(params(e), find_casting(e, n).value))
<1>1. PICK x : x = find_casting(l, n).value
  OBVIOUS
<1>2. PICK y : y = find_casting(e, n).value
  OBVIOUS
<1>3. PICK t : t = After(params(l), x)
  OBVIOUS
<1>4. PICK p : p = << "cfg", n >>
  OBVIOUS
<1>5. Path(l, n) = Cons(p, t)
  BY <1>1, <1>3, <1>4, PathIs DEF Cons, After
<1>6. IsList(t) /\ Decides(l, changes, t, Value(params(l), x), Value(params(e), x))
  BY <1>3, DecidedBehind
<1>7. \/ Puts(l, changes, p, y) /\ y \notin DOMAIN params(l)
      \/ ~Touched(l, changes, p) /\ y = x
  <2>1. p \in PlacesOf(l) /\ LineAt(l, p) = i_config(l)[n]
    BY <1>4, PlacesAre
  <2>2. i_config(e) = i_config(l)
    BY DerivedPlaces
  <2>3. x = l[LineAt(l, p)].value /\ y = e[LineAt(l, p)].value
    BY <1>1, <1>2, <2>1, <2>2 DEF find_casting
  <2>4. \/ Puts(l, changes, p, e[LineAt(l, p)].value) /\ e[LineAt(l, p)].value \notin DOMAIN params(l)
        \/ ~Touched(l, changes, p) /\ e[LineAt(l, p)].value = l[LineAt(l, p)].value
    BY <2>1, DerivedPlaces
  <2> QED
    BY <2>3, <2>4
<1>8. \/ Puts(l, changes, p, Value(params(e), y))
      \/ ~Touched(l, changes, p) /\ Decides(l, changes, t, Value(params(l), x), Value(params(e), y))
  <2>1. DOMAIN params(e) = DOMAIN params(l)
    BY DerivedParams
  <2>2. CASE Puts(l, changes, p, y) /\ y \notin DOMAIN params(l)
    BY <2>1, <2>2 DEF Value
  <2>3. CASE ~Touched(l, changes, p) /\ y = x
    BY <1>6, <2>3
  <2> QED
    BY <1>7, <2>2, <2>3
<1>9. IsList(Cons(p, t)) /\ Decides(l, changes, Cons(p, t), Value(params(l), x), Value(params(e), y))
  BY <1>6, <1>8, ConsDecides, InFront
<1> QED
  BY <1>1, <1>2, <1>5, <1>9

\* What decides along the path is what is requested.
LEMMA RequestedIs ==
  ASSUME NEW l, NEW changes, IsList(changes), NEW n \in DOMAIN i_config(l), IsList(Path(l, n)),
         NEW x, x = Value(params(l), find_casting(l, n).value), NEW y,
         Decides(l, changes, Path(l, n), x, y)
  PROVE  Requested(l, changes, n) = to_py(find_casting(l, n).cast, y)
<1> DEFINE path == Path(l, n)
           at(k) == {i \in DOMAIN changes : Place(l, changes[i]) = path[k]}
           changed == {k \in DOMAIN path : at(k) # {}}
           first == CHOOSE k \in changed : \A m \in changed : k <= m
           latest == CHOOSE i \in at(first) : \A j \in at(first) : j <= i
<1>1. Requested(l, changes, n) =
        IF changed = {} THEN get_config(l)[n] ELSE to_py(find_casting(l, n).cast, changes[latest].value)
  BY DEF Requested
<1>2. /\ DOMAIN path = 1 .. Len(path) /\ Len(path) \in Nat
      /\ DOMAIN changes = 1 .. Len(changes) /\ Len(changes) \in Nat
  BY ListOf DEF IsList
<1>3. ASSUME NEW k \in DOMAIN path PROVE k \in changed <=> Touched(l, changes, path[k])
  BY <1>2 DEF Touched
<1>4. CASE (\A k \in DOMAIN path : ~Touched(l, changes, path[k])) /\ y = x
  <2>1. changed = {}
    BY <1>3, <1>4
  <2>2. get_config(l)[n] = to_py(find_casting(l, n).cast, x)
    BY DEF get_config, evaluate, Value
  <2> QED
    BY <1>1, <1>4, <2>1, <2>2
<1>5. ASSUME NEW k \in DOMAIN path, \A j \in DOMAIN path : j < k => ~Touched(l, changes, path[j]),
             Puts(l, changes, path[k], y)
      PROVE  Requested(l, changes, n) = to_py(find_casting(l, n).cast, y)
  <2>1. PICK i \in 1 .. Len(changes) :
          Latest(l, changes, Len(changes), path[k], i) /\ y = changes[i].value
    BY <1>5 DEF Puts
  <2>2. Touched(l, changes, path[k])
    BY <2>1 DEF Latest, Touched
  <2>3. k \in changed /\ \A m \in changed : k <= m
    <3>1. k \in changed
      BY <1>3, <2>2
    <3>2. ASSUME NEW m \in changed PROVE k <= m
      <4>1. m \in DOMAIN path /\ Touched(l, changes, path[m])
        BY <1>3
      <4> QED
        BY <1>2, <1>5, <4>1
    <3> QED
      BY <3>1, <3>2
  <2>4. first = k
    <3>1. changed \subseteq Int
      BY <1>2
    <3>2. first \in changed /\ \A m \in changed : first <= m
      <4> HIDE DEF changed
      <4> QED
        BY <2>3
    <3> HIDE DEF changed, first
    <3>3. first \in Int /\ k \in Int /\ first <= k /\ k <= first
      BY <2>3, <3>1, <3>2
    <3> QED
      BY <3>3
  <2>5. i \in at(k) /\ \A j \in at(k) : j <= i
    BY <1>2, <2>1 DEF Latest
  <2>6. latest = i
    <3>1. at(k) \subseteq Int
      BY <1>2
    <3>2. latest \in at(k) /\ \A j \in at(k) : j <= latest
      <4> HIDE DEF at, first
      <4> QED
        BY <2>4, <2>5
    <3> HIDE DEF at, latest
    <3>3. latest \in Int /\ i \in Int /\ latest <= i /\ i <= latest
      BY <2>5, <3>1, <3>2
    <3> QED
      BY <3>3
  <2>7. changed # {}
    BY <2>3
  <2> HIDE DEF changed, latest
  <2> QED
    BY <1>1, <2>1, <2>6, <2>7
<1> QED
  BY <1>4, <1>5 DEF Decides

\* The derived configuration has the fields of the original, and each has the
\* value the changes ask for: derive_config rewrites the line at the end of the
\* chain, and find_root_def finds it again when the package is read back.
THEOREM DerivedIsRequested ==
  ASSUME NEW lines, NEW changes, Package(lines), ChainsEnd(params(lines)), Changes(changes),
         Literals(lines, changes), derive_config(lines, changes) # Error
  PROVE  LET read == get_config(derive_config(lines, changes))
         IN  /\ DOMAIN read = DOMAIN i_config(lines)
             /\ \A n \in DOMAIN read : read[n] = Requested(lines, changes, n)
<1>1. PICK e : e = derive_config(lines, changes)
  OBVIOUS
<1>2. Derives(lines, changes)
  BY DEF Derives
<1>3. DOMAIN get_config(e) = DOMAIN i_config(lines)
  BY <1>1, <1>2, DerivedPlaces DEF get_config
<1>4. ASSUME NEW n \in DOMAIN i_config(lines) PROVE get_config(e)[n] = Requested(lines, changes, n)
  <2>1. PICK y : y = Value(params(e), find_casting(e, n).value)
    OBVIOUS
  <2>2. get_config(e)[n] = to_py(find_casting(e, n).cast, y)
    BY <1>1, <1>2, <2>1, DerivedPlaces DEF get_config, evaluate, Value
  <2>3. find_casting(e, n).cast = find_casting(lines, n).cast
    BY <1>1, <1>2, DerivedPlaces
  <2>4. PICK x : x = Value(params(lines), find_casting(lines, n).value)
    OBVIOUS
  <2>5. IsList(Path(lines, n)) /\ Decides(lines, changes, Path(lines, n), x, y)
    BY <1>1, <1>2, <2>1, <2>4, DecidedPath
  <2>6. Requested(lines, changes, n) = to_py(find_casting(lines, n).cast, y)
    BY <2>4, <2>5, RequestedIs DEF Changes
  <2> QED
    BY <2>2, <2>3, <2>6
<1> QED
  BY <1>1, <1>3, <1>4
=============================================================================
