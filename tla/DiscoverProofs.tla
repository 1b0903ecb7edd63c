--------------------------- MODULE DiscoverProofs ---------------------------
(***************************************************************************)
(* Proofs about Discover: what a scan finds, and which version it picks,   *)
(* for any search directories and whatever changes while they are read.    *)
(*                                                                         *)
(* SceneOf(t) has the types, in a scan that begins with t.  StableInv is   *)
(* about entries nobody touches, FirstInv about scans during which nothing *)
(* changes: both say of the entries that have been handled so far what the *)
(* properties say of all of them in the end.                               *)
(***************************************************************************)
EXTENDS Discover, VersionProofs, FiniteSetTheorems

NamesOf(t) == {x.name : x \in EntriesOf(t)}
ImagesOf(t) ==
  [name : {Basename(x).name : x \in EntriesOf(t)}, path : EntriesOf(t) \cup Versions]

Ascending(s) == \A i, j \in DOMAIN s : i < j => Precedes(s[i], s[j])

Reading == {"entries", "versions"}

(* Versions of an entry that can be picked.                                  *)
Pickable(x) == {v \in Of(x) : Matches(v, x) /\ v.mode \in Wanted(Basename(x).suffix)}

SceneOf(t) ==
  /\ present \subseteq AllOf(t) /\ changes \in 0 .. t.changes
  /\ pc \in Reading \cup {"directory", "done", "failed"} /\ k \in 1 .. Dirs + 1
  /\ pc = "done" => k = Dirs + 1
  /\ images \in Seq(ImagesOf(t))
  /\ pc \in Reading => k <= Dirs /\ names \in Seq(NamesOf(t)) /\ Ascending(names)
  /\ pc = "versions" =>
       /\ entry \in EntriesOf(t) /\ entry.dir = k
       /\ names # <<>> /\ entry.name = Head(names)
       /\ ~Skipped(entry) /\ Versioned(entry)
       /\ vnames \subseteq Of(entry) /\ best \in Pickable(entry) \cup {None}

Scene == \E t \in AtFirst : SceneOf(t)

(* Entries whose turn is over.                                               *)
Handled(x) == x.dir < k \/ (x.dir = k /\ pc \in Reading /\ x.name \notin Range(names))

(* An entry that is there all the time.                                      *)
Waiting(x) ==
  /\ vnames \subseteq present
  /\ best # None \/ vnames \cap Usable(x) # {}

StableInv ==
  /\ pc # "failed" => \A x \in Listed :
       Untouched(x) /\ IsImage(x) /\ Handled(x) => Seen(Basename(x).name)
  /\ pc = "versions" /\ entry \in Listed /\ Untouched(entry) /\ IsImage(entry) => Waiting(entry)

(* A version is not better than another one, as far as NewestIsPicked goes.  *)
AtMost(w, b) ==
  LET p == Parse(w.e)  q == Parse(b.e)
  IN /\ p.left # 0 => q.left # 0
     /\ (p.left # 0) = (q.left # 0) => CompareVersions(p.version, q.version) <= 0

(* The versions looked at so far, if the best of them is b.                  *)
Judged(x, b) ==
  \A v \in (Of(x) \cap present) \ vnames : Matches(v, x) =>
    /\ v.mode # "dangling"
    /\ v \in Pickable(x) => b # None /\ AtMost(v, b)

SourceOf(path) == {x \in Listed : path \in IF Versioned(x) THEN Of(x) ELSE {x}}

(* An image comes from the first entry of its name, and is its newest one.   *)
CameFrom(name, path) ==
  /\ \E x \in SourceOf(path) : IsImage(x) /\ name = Basename(x).name /\ Handled(x)
  /\ path \in Versions => \A x \in SourceOf(path) : \A w \in Usable(x) : AtMost(w, path)

Leads(path, x) == \E y \in SourceOf(path) : y = x \/ Before(y, x)

AllCome == \A i \in DOMAIN images : CameFrom(images[i].name, images[i].path)

OneEach == \A i, j \in DOMAIN images : i # j => images[i].name # images[j].name

AllLed ==
  \A x \in Listed : IsImage(x) /\ Handled(x) =>
    \E i \in DOMAIN images : images[i].name = Basename(x).name /\ Leads(images[i].path, x)

HandledBefore ==
  pc \in Reading => \A x \in Listed : x.dir = k /\ Handled(x) =>
    \A i \in DOMAIN names : Precedes(x.name, names[i])

BestSoFar ==
  pc = "versions" =>
    /\ entry \in Listed /\ vnames \subseteq present
    /\ best \in present \cup {None} /\ Judged(entry, best)

FirstInv ==
  touched = {} /\ pc # "failed" =>
    AllCome /\ OneEach /\ AllLed /\ HandledBefore /\ BestSoFar

(* The images come in the order of the search directories until they are     *)
(* sorted, and then in the order of their names.                             *)
ByDirectory ==
  \A i \in DOMAIN images : /\ images[i].path.dir \in 1 .. k
                           /\ \A j \in DOMAIN images : i < j => images[i].path.dir <= images[j].path.dir

ByName ==
  \A i, j \in DOMAIN images : i < j =>
    LET c == CompareVersions(Text(images[i].name), Text(images[j].name))
    IN c < 0 \/ (c = 0 /\ images[i].path.dir <= images[j].path.dir)

OrderInv == /\ pc \in Reading \cup {"directory"} => ByDirectory
            /\ pc = "done" => ByName

IInv == Scene /\ StableInv /\ FirstInv /\ OrderInv

----------------------------------------------------------------------------
(* Putting a finite set in order.  Below[x] are the members that come before *)
(* x; their number is the place of x.                                        *)
IsOrder(S, B) ==
  /\ \A x \in S : B[x] \subseteq S /\ x \notin B[x]
  /\ \A x, y \in S : x # y => x \in B[y] \/ y \in B[x]
  /\ \A x, y \in S : x \in B[y] => B[x] \subseteq B[y]

LEMMA Placed ==
  ASSUME NEW S, IsFiniteSet(S), NEW B, IsOrder(S, B)
  PROVE  /\ Cardinality(S) \in Nat
         /\ \A x \in S : Cardinality(B[x]) \in 0 .. Cardinality(S) - 1
         /\ \A x, y \in S : x \in B[y] <=> Cardinality(B[x]) < Cardinality(B[y])
         /\ \A x, y \in S : Cardinality(B[x]) = Cardinality(B[y]) => x = y
         /\ \A p \in 1 .. Cardinality(S) : \E x \in S : Cardinality(B[x]) = p - 1
<1>1. Cardinality(S) \in Nat
  BY FS_CardinalityType
<1>2. \A x \in S : IsFiniteSet(B[x]) /\ Cardinality(B[x]) \in Nat
  BY FS_Subset, FS_CardinalityType DEF IsOrder
<1>3. ASSUME NEW x \in S PROVE Cardinality(B[x]) < Cardinality(S)
  <2>1. B[x] \in SUBSET S /\ B[x] # S
    BY DEF IsOrder
  <2>2. Cardinality(B[x]) <= Cardinality(S) /\ Cardinality(S) # Cardinality(B[x])
    BY <2>1, FS_Subset
  <2> QED BY <1>1, <1>2, <2>2
<1>4. ASSUME NEW x \in S, NEW y \in S, x \in B[y]
      PROVE  Cardinality(B[x]) < Cardinality(B[y])
  <2>1. B[x] \in SUBSET B[y] /\ B[x] # B[y]
    BY <1>4 DEF IsOrder
  <2>2. Cardinality(B[x]) <= Cardinality(B[y]) /\ Cardinality(B[y]) # Cardinality(B[x])
    BY <1>2, <2>1, FS_Subset
  <2> QED BY <1>2, <2>2
<1>5. ASSUME NEW x \in S, NEW y \in S
      PROVE  /\ x \in B[y] <=> Cardinality(B[x]) < Cardinality(B[y])
             /\ Cardinality(B[x]) = Cardinality(B[y]) => x = y
  <2>1. x # y => x \in B[y] \/ y \in B[x]
    BY DEF IsOrder
  <2>2. x = y => x \notin B[y]
    BY DEF IsOrder
  <2> QED BY <1>2, <1>4, <2>1, <2>2
<1>6. ASSUME NEW p \in 1 .. Cardinality(S)
      PROVE  \E x \in S : Cardinality(B[x]) = p - 1
  <2> DEFINE r == [x \in S |-> Cardinality(B[x]) + 1]
  <2>1. r \in [S -> 1 .. Cardinality(S)]
    BY <1>1, <1>2, <1>3
  <2>2. \A x, y \in S : r[x] = r[y] => x = y
    BY <1>2, <1>5
  <2>3. r \in Injection(S, 1 .. Cardinality(S))
    BY <2>1, <2>2 DEF Injection, IsInjective
  <2>4. IsFiniteSet(1 .. Cardinality(S)) /\ Cardinality(1 .. Cardinality(S)) = Cardinality(S)
    BY <1>1, FS_Interval
  <2>5. r \in Surjection(S, 1 .. Cardinality(S))
    BY <2>3, <2>4, FS_Injection
  <2>6. \E x \in S : r[x] = p
    BY <2>5 DEF Surjection
  <2> QED BY <1>2, <2>6
<1> QED BY <1>1, <1>2, <1>3, <1>5, <1>6

(* Names: there is one order of them.                                        *)
LEMMA CodesApart ==
  ASSUME NEW v \in Seq(DOMAIN Code), NEW w \in Seq(DOMAIN Code), Codes(v) = Codes(w)
  PROVE  v = w
<1>1. /\ Len(v) \in Nat /\ DOMAIN v = 1 .. Len(v) /\ \A i \in DOMAIN v : v[i] \in DOMAIN Code
      /\ Len(w) \in Nat /\ DOMAIN w = 1 .. Len(w) /\ \A i \in DOMAIN w : w[i] \in DOMAIN Code
  OBVIOUS
<1>2. \A c \in DOMAIN Code : Code[c] \in DOMAIN Ascii /\ Ascii[Code[c]] = c
  BY DEF Code
<1>3. DOMAIN v = DOMAIN w /\ \A i \in DOMAIN v : Code[v[i]] = Code[w[i]]
  <2>1. DOMAIN Codes(v) = DOMAIN v /\ DOMAIN Codes(w) = DOMAIN w
    BY DEF Codes
  <2>2. DOMAIN v = DOMAIN w
    BY <2>1
  <2>3. ASSUME NEW i \in DOMAIN v PROVE Code[v[i]] = Code[w[i]]
    <3>1. Codes(v)[i] = Code[v[i]] /\ Codes(w)[i] = Code[w[i]]
      BY <2>2 DEF Codes
    <3> QED BY <3>1
  <2> QED BY <2>2, <2>3
<1>4. \A i \in DOMAIN v : v[i] = w[i]
  BY <1>1, <1>2, <1>3
<1> QED BY <1>1, <1>3, <1>4, SeqEqual

LEMMA NamesOrdered ==
  ASSUME NEW t \in AtFirst, NEW x \in NamesOf(t), NEW y \in NamesOf(t), NEW z \in NamesOf(t)
  PROVE  /\ ~Precedes(x, x)
         /\ x # y => Precedes(x, y) \/ Precedes(y, x)
         /\ Precedes(x, y) /\ Precedes(y, z) => Precedes(x, z)
<1>1. /\ \A n \in NamesOf(t) : Text(n) \in Seq(DOMAIN Code)
      /\ \A n, m \in NamesOf(t) : Text(n) = Text(m) => n = m
  BY DiscoverAssumption DEF NamesOf
<1> DEFINE c(n) == Codes(Text(n))
<1>2. \A n \in NamesOf(t) : c(n) \in Seq(Int)
  BY <1>1, CodesIs
<1>3. x # y => c(x) # c(y)
  BY <1>1, CodesApart
<1>4. \A n, m \in NamesOf(t) : Precedes(n, m) <=> Lexicographic(c(n), c(m)) < 0
  BY DEF Precedes
<1> HIDE DEF c
<1>5. /\ c(x) = c(x) => Lexicographic(c(x), c(x)) = 0
      /\ c(x) # c(y) => Lexicographic(c(x), c(y)) # 0
  BY <1>2, LexicographicIs, NotBelowSelf
<1>6. /\ Lexicographic(c(x), c(y)) \in Results /\ Lexicographic(c(y), c(x)) = -Lexicographic(c(x), c(y))
      /\ Lexicographic(c(y), c(z)) \in Results /\ Lexicographic(c(x), c(z)) \in Results
      /\ Transitive(Lexicographic(c(x), c(y)), Lexicographic(c(y), c(z)), Lexicographic(c(x), c(z)))
  BY <1>2, LexicographicOrder
<1> QED BY <1>3, <1>4, <1>5, <1>6 DEF Results, Transitive

(* readDirNames: all names of a directory, in this order.                    *)
LEMMA NamesRead ==
  ASSUME NEW t \in AtFirst, present \subseteq AllOf(t), NEW d
  PROVE  /\ ReadDirNames(d) \in Seq(NamesOf(t)) /\ Ascending(ReadDirNames(d))
         /\ \A x \in Listed : x.dir = d => x.name \in Range(ReadDirNames(d))
<1> DEFINE E == {x \in Listed : x.dir = d}
           S == {x.name : x \in E}
           B == [n \in S |-> {m \in S : Precedes(m, n)}]
           N == Cardinality(S)
           s == ReadDirNames(d)
<1>1. Listed \subseteq EntriesOf(t) /\ IsFiniteSet(AllOf(t))
  BY DiscoverAssumption DEF Listed, EntriesOf
<1>2. S \subseteq NamesOf(t)
  BY <1>1 DEF NamesOf
<1>3. IsFiniteSet(S)
  <2> DEFINE f == [x \in E |-> x.name]
  <2>1. E \in SUBSET AllOf(t)
    BY <1>1 DEF EntriesOf
  <2>2. IsFiniteSet(E)
    BY <1>1, <2>1, FS_Subset
  <2>3. f \in Surjection(E, S)
    BY DEF Surjection
  <2> HIDE DEF f, E, S
  <2> QED BY <2>2, <2>3, FS_Surjection
<1> HIDE DEF E, S
<1>4. \A n \in S : B[n] = {m \in S : Precedes(m, n)}
  OBVIOUS
<1>5. IsOrder(S, B)
  <2>1. \A n \in S : B[n] \subseteq S /\ n \notin B[n]
    BY <1>2, <1>4, NamesOrdered
  <2>2. \A m, n \in S : m # n => m \in B[n] \/ n \in B[m]
    BY <1>2, <1>4, NamesOrdered
  <2>3. ASSUME NEW m \in S, NEW n \in S, m \in B[n], NEW l \in B[m] PROVE l \in B[n]
    <3>1. l \in S /\ Precedes(l, m) /\ Precedes(m, n)
      BY <1>4, <2>3
    <3>2. Precedes(l, n)
      BY <1>2, <3>1, NamesOrdered
    <3> QED BY <1>4, <3>1, <3>2
  <2> QED BY <2>1, <2>2, <2>3 DEF IsOrder
<1>6. s = [i \in 1..N |-> CHOOSE n \in S : Cardinality({m \in S : Precedes(m, n)}) = i - 1]
  BY DEF ReadDirNames, S, E
<1> HIDE DEF B, s
<1>7. /\ N \in Nat
      /\ \A n \in S : Cardinality(B[n]) \in 0 .. N - 1
      /\ \A m, n \in S : m \in B[n] <=> Cardinality(B[m]) < Cardinality(B[n])
      /\ \A m, n \in S : Cardinality(B[m]) = Cardinality(B[n]) => m = n
      /\ \A p \in 1 .. N : \E n \in S : Cardinality(B[n]) = p - 1
  BY <1>3, <1>5, Placed
<1>8. ASSUME NEW i \in 1 .. N
      PROVE  s[i] \in S /\ Cardinality(B[s[i]]) = i - 1
  <2>1. s[i] = CHOOSE n \in S : Cardinality({m \in S : Precedes(m, n)}) = i - 1
    BY <1>6
  <2>2. \E n \in S : Cardinality({m \in S : Precedes(m, n)}) = i - 1
    BY <1>4, <1>7
  <2>3. s[i] \in S /\ Cardinality({m \in S : Precedes(m, s[i])}) = i - 1
    BY <2>1, <2>2
  <2> QED BY <1>4, <2>3
<1>9. DOMAIN s = 1 .. N
  BY <1>6
<1> HIDE DEF N
<1>10. s \in Seq(NamesOf(t))
  <2>1. s = [i \in 1 .. N |-> s[i]]
    <3> DEFINE e(i) == CHOOSE n \in S : Cardinality({m \in S : Precedes(m, n)}) = i - 1
    <3>1. s = [i \in 1 .. N |-> e(i)]
      BY <1>6
    <3> HIDE DEF e
    <3> QED BY <3>1
  <2>2. \A i \in 1 .. N : s[i] \in NamesOf(t)
    BY <1>2, <1>8
  <2> QED BY <1>7, <2>1, <2>2
<1>11. Ascending(s)
  <2> SUFFICES ASSUME NEW i \in 1 .. N, NEW j \in 1 .. N, i < j
               PROVE  Precedes(s[i], s[j])
    BY <1>9 DEF Ascending
  <2>1. /\ s[i] \in S /\ Cardinality(B[s[i]]) = i - 1
        /\ s[j] \in S /\ Cardinality(B[s[j]]) = j - 1
    BY <1>8
  <2>2. s[i] \in B[s[j]]
    BY <1>7, <2>1
  <2> QED BY <1>4, <2>1, <2>2
<1>12. ASSUME NEW x \in Listed, x.dir = d PROVE x.name \in Range(s)
  <2>1. x.name \in S
    BY <1>12 DEF S, E
  <2>2. PICK p \in 1 .. N : Cardinality(B[x.name]) = p - 1
    <3>1. Cardinality(B[x.name]) + 1 \in 1 .. N
      BY <1>7, <2>1
    <3> QED BY <1>7, <2>1, <3>1
  <2>3. s[p] = x.name
    BY <1>7, <1>8, <2>1, <2>2
  <2> QED BY <1>9, <2>3 DEF Range
<1> QED BY <1>10, <1>11, <1>12 DEF s

(* Taking the members of 1 .. n in an order is a permutation.                *)
Arranges(n, B, K, p) ==
  /\ IsOrder(1 .. n, B) /\ \A i \in 1 .. n : K[i] = B[i] \cup {i}
  /\ p = [q \in 1 .. n |-> p[q]]
  /\ \A q \in 1 .. n : (\E i \in 1 .. n : Cardinality(K[i]) = q) =>
                           p[q] \in 1 .. n /\ Cardinality(K[p[q]]) = q

LEMMA Arranged ==
  ASSUME NEW n \in Nat, NEW B, NEW K, NEW p, Arranges(n, B, K, p)
  PROVE  /\ p \in [1 .. n -> 1 .. n]
         /\ \A i, j \in 1 .. n : p[i] = p[j] => i = j
         /\ \A i \in 1 .. n : \E j \in 1 .. n : p[j] = i
         /\ \A i, j \in 1 .. n : i < j => p[i] \in B[p[j]]
<1> DEFINE c(i) == Cardinality(B[i])
<1>1. IsFiniteSet(1 .. n) /\ Cardinality(1 .. n) = n
  BY FS_Interval
<1>2. /\ \A x \in 1 .. n : c(x) \in 0 .. n - 1
      /\ \A x, y \in 1 .. n : x \in B[y] <=> c(x) < c(y)
      /\ \A x, y \in 1 .. n : c(x) = c(y) => x = y
      /\ \A q \in 1 .. n : \E x \in 1 .. n : c(x) = q - 1
  <2> DEFINE S == 1 .. n
  <2>1. IsFiniteSet(S) /\ IsOrder(S, B) /\ Cardinality(S) = n
    BY <1>1 DEF Arranges
  <2> HIDE DEF S
  <2>2. /\ \A x \in S : Cardinality(B[x]) \in 0 .. Cardinality(S) - 1
        /\ \A x, y \in S : x \in B[y] <=> Cardinality(B[x]) < Cardinality(B[y])
        /\ \A x, y \in S : Cardinality(B[x]) = Cardinality(B[y]) => x = y
        /\ \A q \in 1 .. Cardinality(S) : \E x \in S : Cardinality(B[x]) = q - 1
    BY <2>1, Placed
  <2> QED BY <2>1, <2>2 DEF S
<1>3. ASSUME NEW i \in 1 .. n PROVE Cardinality(K[i]) = c(i) + 1
  <2>1. i \notin B[i] /\ B[i] \in SUBSET (1 .. n)
    BY DEF Arranges, IsOrder
  <2>2. IsFiniteSet(B[i])
    BY <1>1, <2>1, FS_Subset
  <2>3. K[i] = B[i] \cup {i}
    BY DEF Arranges
  <2> QED BY <2>1, <2>2, <2>3, FS_AddElement
<1> HIDE DEF c
<1>4. ASSUME NEW q \in 1 .. n PROVE p[q] \in 1 .. n /\ c(p[q]) = q - 1
  <2>1. PICK x \in 1 .. n : c(x) = q - 1
    BY <1>2
  <2>2. Cardinality(K[x]) = q
    BY <1>3, <2>1
  <2>3. p[q] \in 1 .. n /\ Cardinality(K[p[q]]) = q
    BY <2>2 DEF Arranges
  <2>4. Cardinality(K[p[q]]) = c(p[q]) + 1 /\ c(p[q]) \in 0 .. n - 1
    BY <1>2, <1>3, <2>3
  <2> QED BY <2>3, <2>4
<1>7. p \in [1 .. n -> 1 .. n]
  BY <1>4 DEF Arranges
<1>9. ASSUME NEW i \in 1 .. n, NEW j \in 1 .. n
      PROVE  (p[i] = p[j] => i = j) /\ (i < j => p[i] \in B[p[j]])
  <2>1. c(p[i]) = i - 1 /\ c(p[j]) = j - 1 /\ p[i] \in 1 .. n /\ p[j] \in 1 .. n
    BY <1>4
  <2>2. p[i] \in B[p[j]] <=> c(p[i]) < c(p[j])
    BY <1>2, <2>1
  <2> QED BY <2>1, <2>2
<1>10. ASSUME NEW i \in 1 .. n PROVE \E j \in 1 .. n : p[j] = i
  <2>1. c(i) + 1 \in 1 .. n
    BY <1>2
  <2>2. PICK j \in 1 .. n : j = c(i) + 1
    BY <2>1
  <2>3. c(p[j]) = c(i) /\ p[j] \in 1 .. n
    BY <1>2, <1>4, <2>2
  <2> QED BY <1>2, <2>3
<1> QED BY <1>7, <1>9, <1>10

(* Sort: the same images in another order, the same every time.              *)
LEMMA SortedIs ==
  ASSUME NEW t \in AtFirst, NEW s \in Seq(ImagesOf(t))
  PROVE  /\ Sorted(s) \in Seq(ImagesOf(t)) /\ DOMAIN Sorted(s) = DOMAIN s
         /\ \E p \in [DOMAIN s -> DOMAIN s] :
              /\ \A i \in DOMAIN s : Sorted(s)[i] = s[p[i]]
              /\ \A i, j \in DOMAIN s : p[i] = p[j] => i = j
              /\ \A i \in DOMAIN s : \E j \in DOMAIN s : p[j] = i
              /\ \A i, j \in DOMAIN s : i < j =>
                   \/ CompareVersions(Text(s[p[i]].name), Text(s[p[j]].name)) < 0
                   \/ /\ CompareVersions(Text(s[p[i]].name), Text(s[p[j]].name)) = 0
                      /\ p[i] < p[j]
<1> DEFINE n == Len(s)
           D == 1 .. n
           cmp(i, j) == CompareVersions(Text(s[i].name), Text(s[j].name))
           all == {s[i].name : i \in DOMAIN s}
           order == [xy \in all \X all |-> CompareVersions(Text(xy[1]), Text(xy[2]))]
           told(i) == {j \in DOMAIN s : \/ order[<<s[j].name, s[i].name>>] < 0
                                        \/ order[<<s[j].name, s[i].name>>] = 0 /\ j <= i}
           K == [i \in D |-> {j \in D : cmp(j, i) < 0 \/ (cmp(j, i) = 0 /\ j <= i)}]
           B == [i \in D |-> {j \in D : cmp(j, i) < 0 \/ (cmp(j, i) = 0 /\ j < i)}]
           chosen(q) == CHOOSE i \in DOMAIN s : Cardinality(told(i)) = q
           e(q) == CHOOSE i \in D : Cardinality(K[i]) = q
           p == [q \in D |-> e(q)]
<1>1. n \in Nat /\ DOMAIN s = D /\ \A i \in D : s[i] \in ImagesOf(t)
  OBVIOUS
<1>2. \A i \in D : IsText(Text(s[i].name))
  <2>1. \A x \in EntriesOf(t) : IsText(Text(Basename(x).name))
    BY DiscoverAssumption DEF IsText
  <2> QED BY <1>1, <2>1 DEF ImagesOf
<1>3. \A i, j \in D : order[<<s[j].name, s[i].name>>] = cmp(j, i)
  <2>1. \A x, y \in all : order[<<x, y>>] = CompareVersions(Text(x), Text(y))
    <3> HIDE DEF all
    <3> QED OBVIOUS
  <2>2. \A i \in D : s[i].name \in all
    BY <1>1
  <2> HIDE DEF all, order, D
  <2> QED BY <2>1, <2>2
<1>4. Sorted(s) = [q \in DOMAIN s |-> s[chosen(q)]]
  BY DEF Sorted
<1> HIDE DEF order, all, chosen
<1>5. \A i \in D : told(i) = K[i]
  BY <1>1, <1>3
<1>6. \A i, j, l \in D :
        /\ cmp(i, j) \in {-1, 0, 1} /\ cmp(j, i) = -cmp(i, j)
        /\ cmp(i, j) <= 0 /\ cmp(j, l) <= 0 =>
             cmp(i, l) <= 0 /\ (cmp(i, l) = 0 <=> cmp(i, j) = 0 /\ cmp(j, l) = 0)
  BY <1>2, VersionsOrdered DEF Results, Transitive
<1>7. \A i \in D : i \in Nat
  BY <1>1
<1> HIDE DEF told, n, cmp
<1>8. Sorted(s) = [q \in D |-> s[e(q)]]
  <2> HIDE DEF K
  <2>1. \A q : chosen(q) = CHOOSE i \in D : Cardinality(told(i)) = q
    BY <1>1 DEF chosen
  <2>2. \A q : (CHOOSE i \in D : Cardinality(told(i)) = q) = e(q)
    <3> HIDE DEF D
    <3> QED BY <1>5
  <2>3. \A q : chosen(q) = e(q)
    BY <2>1, <2>2
  <2> HIDE DEF D, e
  <2> QED BY <1>1, <1>4, <2>3
<1> HIDE DEF D
<1>9. IsOrder(D, B)
  <2>1. ASSUME NEW i \in D PROVE B[i] \subseteq D /\ i \notin B[i]
    BY <1>6, <1>7
  <2>2. ASSUME NEW i \in D, NEW j \in D, i # j PROVE i \in B[j] \/ j \in B[i]
    BY <1>6, <1>7, <2>2
  <2>3. ASSUME NEW i \in D, NEW j \in D, i \in B[j], NEW l \in B[i] PROVE l \in B[j]
    <3>1. /\ cmp(i, j) < 0 \/ (cmp(i, j) = 0 /\ i < j)
          /\ l \in D /\ (cmp(l, i) < 0 \/ (cmp(l, i) = 0 /\ l < i))
      BY <2>3
    <3>2. /\ cmp(i, j) \in {-1, 0, 1} /\ cmp(l, i) \in {-1, 0, 1} /\ cmp(l, j) \in {-1, 0, 1}
          /\ cmp(l, i) <= 0 /\ cmp(i, j) <= 0 =>
               cmp(l, j) <= 0 /\ (cmp(l, j) = 0 <=> cmp(l, i) = 0 /\ cmp(i, j) = 0)
          /\ i \in Nat /\ j \in Nat /\ l \in Nat
      BY <1>6, <1>7, <3>1
    <3>3. cmp(l, j) < 0 \/ (cmp(l, j) = 0 /\ l < j)
      BY <3>1, <3>2
    <3> QED BY <3>1, <3>3
  <2> HIDE DEF B
  <2> QED BY <2>1, <2>2, <2>3 DEF IsOrder
<1>10. \A i \in D : K[i] = B[i] \cup {i}
  <2> SUFFICES ASSUME NEW i \in D PROVE K[i] = B[i] \cup {i}
    OBVIOUS
  <2>1. cmp(i, i) = 0
    <3>1. cmp(i, i) \in {-1, 0, 1} /\ cmp(i, i) = -cmp(i, i)
      BY <1>6
    <3> QED BY <3>1
  <2>2. \A j \in D : j <= i <=> j < i \/ j = i
    BY <1>7
  <2>3. i <= i
    BY <1>7
  <2> QED BY <2>1, <2>2, <2>3
<1>11. \A i, j \in D : i \in B[j] => cmp(i, j) < 0 \/ (cmp(i, j) = 0 /\ i < j)
  OBVIOUS
<1> HIDE DEF B, K
<1>12. /\ p \in [D -> D]
       /\ \A i, j \in D : p[i] = p[j] => i = j
       /\ \A i \in D : \E j \in D : p[j] = i
       /\ \A i, j \in D : i < j => p[i] \in B[p[j]]
  <2>1. \A q \in D : (\E i \in D : Cardinality(K[i]) = q) => e(q) \in D /\ Cardinality(K[e(q)]) = q
    OBVIOUS
  <2> HIDE DEF e
  <2>2. p = [q \in D |-> p[q]] /\ \A q \in D : p[q] = e(q)
    OBVIOUS
  <2> HIDE DEF p
  <2>3. n \in Nat /\ Arranges(n, B, K, p)
    <3>1. \A q \in D : (\E i \in D : Cardinality(K[i]) = q) => p[q] \in D /\ Cardinality(K[p[q]]) = q
      BY <2>1, <2>2
    <3> QED BY <1>1, <1>9, <1>10, <2>2, <3>1 DEF D, Arranges
  <2> QED BY <2>3, Arranged DEF D
<1>13. \A q \in D : e(q) = p[q]
  <2> HIDE DEF e
  <2> QED OBVIOUS
<1> HIDE DEF p, e
<1>16. Sorted(s) = [q \in D |-> s[p[q]]]
  BY <1>8, <1>13
<1>17. Sorted(s) \in Seq(ImagesOf(t)) /\ DOMAIN Sorted(s) = D
  <2>1. \A q \in D : s[p[q]] \in ImagesOf(t)
    BY <1>1, <1>12
  <2> QED BY <1>1, <1>16, <2>1 DEF D
<1>14. \A i \in D : Sorted(s)[i] = s[p[i]]
  BY <1>16
<1>15. ASSUME NEW i \in D, NEW j \in D, i < j
       PROVE  cmp(p[i], p[j]) < 0 \/ (cmp(p[i], p[j]) = 0 /\ p[i] < p[j])
  BY <1>11, <1>12, <1>15
<1> QED BY <1>1, <1>12, <1>14, <1>15, <1>17 DEF cmp

----------------------------------------------------------------------------
(* What a version says of itself.                                            *)
LEMMA PieceText ==
  ASSUME NEW s, IsText(s), NEW i \in Nat \ {0}, NEW j \in 0 .. Len(s)
  PROVE  IsText(SubSeq(s, i, j))
<1>1. Len(s) \in Nat /\ \A l \in 1 .. Len(s) : s[l] \in STRING
  BY DEF IsText
<1>2. SubSeq(s, i, j) = [l \in 1 .. (IF i <= j THEN j - i + 1 ELSE 0) |-> s[i + l - 1]]
  BY <1>1 DEF IsText
<1> DEFINE m == IF i <= j THEN j - i + 1 ELSE 0
<1>3. m \in Nat /\ \A l \in 1 .. m : i + l - 1 \in 1 .. Len(s)
  BY <1>1
<1> HIDE DEF m
<1>4. [l \in 1 .. m |-> s[i + l - 1]] \in Seq(STRING)
  BY <1>1, <1>3
<1> QED BY <1>2, <1>4 DEF IsText, m

LEMMA LastIndexIs ==
  ASSUME NEW s, IsText(s), NEW c
  PROVE  LastIndex(s, c) \in 0 .. Len(s)
<1> DEFINE at == {l \in DOMAIN s : s[l] = c}
           U == {n \in Nat : \E l \in at : n = Len(s) - l}
<1>1. Len(s) \in Nat /\ at \subseteq 1 .. Len(s)
  BY TextFacts
<1>2. LastIndex(s, c) = IF at = {} THEN 0 ELSE CHOOSE l \in at : \A m \in at : m <= l
  BY DEF LastIndex
<1> HIDE DEF at
<1>3. CASE at = {}
  BY <1>1, <1>2, <1>3
<1>4. CASE at # {}
  <2>1. U # {} /\ U \subseteq Nat
    <3>1. PICK l \in at : TRUE
      BY <1>4
    <3>2. Len(s) - l \in Nat
      BY <1>1
    <3>3. Len(s) - l \in U
      BY <3>2
    <3> QED BY <3>3
  <2> HIDE DEF U
  <2>2. PICK n \in U : \A m \in U : n <= m
    BY <2>1, Least
  <2>3. \E l \in at : n = Len(s) - l
    BY <2>2 DEF U
  <2>4. PICK l \in at : n = Len(s) - l
    BY <2>3
  <2>5. ASSUME NEW m \in at PROVE m <= l
    <3>1. Len(s) - m \in U
      BY <1>1 DEF U
    <3>2. n <= Len(s) - m
      BY <2>2, <3>1
    <3> QED BY <1>1, <2>4, <3>2
  <2>6. LastIndex(s, c) \in at
    BY <1>2, <1>4, <2>5
  <2>7. LastIndex(s, c) \in 1 .. Len(s)
    BY <1>1, <2>6, Zenon
  <2> QED BY <1>1, <2>7
<1> QED BY <1>3, <1>4

(* The value of digits from the front: the function exists, and gives numbers. *)
Digit(s, n, f) == IF n = 0 THEN 0 ELSE f[n - 1] * Base(s) + DigitValue(s[n])

LEMMA DigitIs ==
  ASSUME NEW s
  PROVE  Base(s) \in Nat /\ \A c : DigitValue(c) \in Nat
<1>1. Base(s) \in Nat
  BY DEF Base
<1>2. \A c : DigitValue(c) \in {0, 1, 2, 3, 4, 8, 9}
  BY Zenon DEF DigitValue
<1> QED BY <1>1, <1>2

LEMMA ValuesExist ==
  ASSUME NEW s, NEW n \in Nat
  PROVE  \E f : f = [l \in 0 .. n |-> Digit(s, l, f)] /\ \A l \in 0 .. n : f[l] \in Nat
<1> DEFINE Some(m) == \E f : /\ f = [l \in 0 .. m |-> Digit(s, l, f)]
                              /\ \A l \in 0 .. m : f[l] \in Nat
           T == {m \in Nat : ~Some(m)}
<1>1. SUFFICES ASSUME T # {} PROVE FALSE
  OBVIOUS
<1>2. PICK m \in T : \A l \in T : m <= l
  <2>1. T \subseteq Nat
    OBVIOUS
  <2> HIDE DEF T
  <2> QED BY <1>1, <2>1, Least
<1>3. m \in Nat /\ ~Some(m)
  OBVIOUS
<1>4. Base(s) \in Nat /\ \A c : DigitValue(c) \in Nat
  BY DigitIs
<1>5. CASE m = 0
  <2> DEFINE g == [l \in 0 .. 0 |-> 0]
  <2>1. \A l \in 0 .. 0 : l = 0
    OBVIOUS
  <2>2. \A l \in 0 .. 0 : Digit(s, l, g) = 0
    BY <2>1 DEF Digit
  <2>3. g = [l \in 0 .. 0 |-> Digit(s, l, g)] /\ \A l \in 0 .. 0 : g[l] \in Nat
    BY <2>2
  <2> QED BY <1>3, <1>5, <2>3
<1>6. CASE m # 0
  <2>1. m - 1 \in Nat /\ m - 1 \notin T
    BY <1>2, <1>3, <1>6
  <2>2. Some(m - 1)
    BY <2>1
  <2>3. PICK f : /\ f = [l \in 0 .. m - 1 |-> Digit(s, l, f)]
                 /\ \A l \in 0 .. m - 1 : f[l] \in Nat
    BY <2>2
  <2> DEFINE g == [l \in 0 .. m |-> Digit(s, l, f)]
  <2>4. \A l \in 0 .. m - 1 : f[l] = Digit(s, l, f) /\ l \in 0 .. m
    BY <1>3, <2>3
  <2>5. \A l \in 0 .. m : g[l] = Digit(s, l, f)
    OBVIOUS
  <2>6. g = [l \in 0 .. m |-> g[l]]
    OBVIOUS
  <2> HIDE DEF g
  <2>7. ASSUME NEW l \in 0 .. m
        PROVE  Digit(s, l, f) = Digit(s, l, g) /\ Digit(s, l, f) \in Nat
    <3>1. CASE l = 0
      BY <3>1 DEF Digit
    <3>2. CASE l # 0
      <4>1. l - 1 \in 0 .. m - 1
        BY <1>3, <3>2
      <4>2. f[l - 1] = g[l - 1] /\ f[l - 1] \in Nat
        BY <2>3, <2>4, <2>5, <4>1
      <4>3. Digit(s, l, f) = f[l - 1] * Base(s) + DigitValue(s[l])
            /\ Digit(s, l, g) = g[l - 1] * Base(s) + DigitValue(s[l])
        BY <3>2 DEF Digit
      <4>4. f[l - 1] * Base(s) \in Nat
        BY <1>4, <4>2
      <4> QED BY <1>4, <4>2, <4>3, <4>4
    <3> QED BY <3>1, <3>2
  <2>8. g = [l \in 0 .. m |-> Digit(s, l, g)] /\ \A l \in 0 .. m : g[l] \in Nat
    <3>1. \A l \in 0 .. m : g[l] = Digit(s, l, g)
      BY <2>5, <2>7
    <3>2. g = [l \in 0 .. m |-> Digit(s, l, g)]
      BY <2>6, <3>1, Zenon
    <3> QED BY <2>5, <2>7, <3>2
  <2>9. Some(m)
    BY <2>8
  <2> QED BY <1>3, <2>9
<1> QED BY <1>5, <1>6

LEMMA UnsignedIs ==
  ASSUME NEW s, IsText(s)
  PROVE  ParseUnsigned(s) \in Nat \cup {-1}
<1> DEFINE V(n) == CHOOSE f : f = [l \in 0 .. n |->
                                     IF l = 0 THEN 0 ELSE f[l - 1] * Base(s) + DigitValue(s[l])]
<1>1. ParseUnsigned(s) = IF \/ s = <<>> \/ \E l \in DOMAIN s : DigitValue(s[l]) >= Base(s)
                            \/ V(Len(s))[Len(s)] > MaxUnsigned
                         THEN -1 ELSE V(Len(s))[Len(s)]
  BY Zenon DEF ParseUnsigned
<1>2. ASSUME NEW n \in Nat PROVE V(n)[n] \in Nat
  <2>1. \E f : f = [l \in 0 .. n |-> Digit(s, l, f)] /\ \A l \in 0 .. n : f[l] \in Nat
    BY ValuesExist, Zenon
  <2>2. \E f : /\ f = [l \in 0 .. n |->
                         IF l = 0 THEN 0 ELSE f[l - 1] * Base(s) + DigitValue(s[l])]
               /\ \A l \in 0 .. n : f[l] \in Nat
    BY <2>1, Zenon DEF Digit
  <2>3. V(n) = [l \in 0 .. n |->
                  IF l = 0 THEN 0 ELSE V(n)[l - 1] * Base(s) + DigitValue(s[l])]
    BY <2>2, Zenon
  <2>4. \A l \in 0 .. n :
          V(n)[l] = IF l = 0 THEN 0 ELSE V(n)[l - 1] * Base(s) + DigitValue(s[l])
    <3> DEFINE G(l) == IF l = 0 THEN 0 ELSE V(n)[l - 1] * Base(s) + DigitValue(s[l])
    <3>1. V(n) = [l \in 0 .. n |-> G(l)]
      BY <2>3, Zenon
    <3> HIDE DEF G, V
    <3>2. \A l \in 0 .. n : V(n)[l] = G(l)
      BY <3>1, Zenon
    <3> QED BY <3>2 DEF G
  <2> HIDE DEF V
  <2>5. Base(s) \in Nat /\ \A c : DigitValue(c) \in Nat
    BY DigitIs
  <2> DEFINE T == {l \in Nat : l <= n /\ V(n)[l] \notin Nat}
  <2>6. SUFFICES ASSUME T # {} PROVE FALSE
    OBVIOUS
  <2>7. PICK m \in T : \A l \in T : m <= l
    <3>1. T \subseteq Nat
      OBVIOUS
    <3> HIDE DEF T
    <3> QED BY <2>6, <3>1, Least
  <2>8. m \in 0 .. n /\ V(n)[m] \notin Nat
    OBVIOUS
  <2>9. m # 0
    BY <2>4, <2>8
  <2>10. m - 1 \in Nat /\ m - 1 \notin T
    BY <2>7, <2>8, <2>9
  <2>11. V(n)[m - 1] \in Nat
    BY <2>8, <2>10
  <2>12. V(n)[m - 1] * Base(s) \in Nat
    BY <2>5, <2>11
  <2> QED BY <2>4, <2>5, <2>8, <2>9, <2>12
<1> HIDE DEF V
<1>3. V(Len(s))[Len(s)] \in Nat
  BY <1>2, TextFacts
<1> QED BY <1>1, <1>3

LEMMA TriesAre ==
  ASSUME NEW s, IsText(s), s # <<>>
  PROVE  ParseTries(s).ok => ParseTries(s).left \in Nat
<1> DEFINE n == Past(s, 2, Digits)
           left == ParseUnsigned(SubSeq(s, 2, n - 1))
           rest == SubSeq(s, n + 1, Len(s))
           done == IF Ended(s, n) THEN 0 ELSE ParseUnsigned(rest)
           bad == \/ n = 2
                  \/ ~Ended(s, n) /\ (s[n] # "-" \/ ~(CharsOf(rest) \subseteq Digits))
                  \/ left = -1 \/ done = -1
<1>1. ParseTries(s) = IF bad THEN NotOk ELSE [ok |-> TRUE, left |-> left, done |-> done]
  BY Zenon DEF ParseTries
<1>2. Len(s) \in Nat /\ Len(s) # 0
  BY DEF IsText
<1>3. left \in Nat \cup {-1}
  <2>1. Place(s, 2)
    BY <1>2 DEF Place
  <2>2. n \in 2 .. Len(s) + 1
    BY <2>1, PastIs
  <2> HIDE DEF n
  <2>3. 2 \in Nat \ {0} /\ n - 1 \in 0 .. Len(s)
    BY <1>2, <2>2
  <2>4. IsText(SubSeq(s, 2, n - 1))
    BY <2>3, PieceText
  <2> QED BY <2>4, UnsignedIs
<1>4. ~bad => left # -1
  OBVIOUS
<1> HIDE DEF bad, left, done, n
<1>5. NotOk.ok = FALSE
  BY DEF NotOk
<1> QED BY <1>1, <1>3, <1>4, <1>5

(* What a version says has the types the comparison needs.                   *)
LEMMA ParseIs ==
  ASSUME NEW e, IsText(e)
  PROVE  IsText(Parse(e).version) /\ Parse(e).left \in Nat
<1> DEFINE plus == LastIndex(e, "+")
           tries == IF plus = 0 THEN NotOk ELSE ParseTries(SubSeq(e, plus, Len(e)))
           counted == IF tries.ok THEN SubSeq(e, 1, plus - 1) ELSE e
           underscore == LastIndex(counted, "_")
<1>1. /\ Parse(e).version = IF underscore = 0 THEN counted ELSE SubSeq(counted, 1, underscore - 1)
      /\ Parse(e).left = IF tries.ok THEN tries.left ELSE TriesUnset
  BY DEF Parse
<1>2. plus \in 0 .. Len(e) /\ Len(e) \in Nat
  BY LastIndexIs, TextFacts
<1>3. plus = 0 => ~tries.ok
  BY DEF NotOk
<1>4. tries.ok => tries.left \in Nat
  <2>1. CASE plus = 0
    BY <1>3, <2>1
  <2>2. CASE plus # 0
    <3> DEFINE s == SubSeq(e, plus, Len(e))
    <3> HIDE DEF plus
    <3>1. IsText(s)
      BY <1>2, <2>2, PieceText
    <3>2. s # <<>>
      <4>1. Len(s) = Len(e) - plus + 1
        BY <1>2, <2>2 DEF IsText
      <4>2. Len(s) # 0
        BY <1>2, <4>1
      <4> HIDE DEF s
      <4> QED BY <4>2
    <3> HIDE DEF s
    <3>3. ParseTries(s).ok => ParseTries(s).left \in Nat
      BY <3>1, <3>2, TriesAre
    <3> QED BY <2>2, <3>3 DEF s
  <2> QED BY <2>1, <2>2
<1> HIDE DEF tries, plus
<1>5. IsText(counted)
  <2>1. tries.ok => 1 \in Nat \ {0} /\ plus - 1 \in 0 .. Len(e)
    BY <1>2, <1>3
  <2>2. tries.ok => IsText(SubSeq(e, 1, plus - 1))
    BY <2>1, PieceText
  <2> QED BY <2>2
<1> HIDE DEF counted
<1>6. underscore \in 0 .. Len(counted) /\ Len(counted) \in Nat
  BY <1>5, LastIndexIs, TextFacts
<1> HIDE DEF underscore
<1>7. underscore # 0 => IsText(SubSeq(counted, 1, underscore - 1))
  <2>1. underscore # 0 => 1 \in Nat \ {0} /\ underscore - 1 \in 0 .. Len(counted)
    BY <1>6
  <2> QED BY <1>5, <2>1, PieceText
<1>8. TriesUnset \in Nat
  BY VPickAssumption DEF TriesUnset
<1> QED BY <1>1, <1>4, <1>5, <1>7, <1>8

(* A list of comparisons is decided by the first two of them, if they tell.  *)
LEMMA FirstDecides ==
  ASSUME NEW p \in Results, NEW q \in Results, NEW c, NEW d, NEW e, NEW f, NEW g
  PROVE  p # 0 \/ q # 0 => Decide(<<p, q, c, d, e, f, g>>) = Then(p, q)
<1> DEFINE R == <<p, q, c, d, e, f, g>>
           T == {l \in DOMAIN R : R[l] # 0}
<1>1. DOMAIN R = 1 .. 7 /\ R[1] = p /\ R[2] = q
  OBVIOUS
<1>2. Decide(R) = IF T = {} THEN 0 ELSE R[LeastOf(T)]
  BY DEF Decide, LeastOf
<1>3. T \subseteq 1 .. 7 /\ T \subseteq Nat
  BY <1>1
<1>4. (1 \in T <=> p # 0) /\ (2 \in T <=> q # 0)
  BY <1>1
<1>5. \A l \in T : 1 <= l
  BY <1>3
<1>6. 1 \notin T => \A l \in T : 2 <= l
  BY <1>3
<1> HIDE DEF T, R
<1>7. CASE p # 0
  <2>1. 1 \in T /\ LeastOf(T) = 1
    BY <1>3, <1>4, <1>5, <1>7, LeastOfIs
  <2>2. Decide(R) = p
    BY <1>1, <1>2, <2>1
  <2> QED BY <1>7, <2>2 DEF Then, R
<1>8. CASE p = 0 /\ q # 0
  <2>1. 2 \in T /\ LeastOf(T) = 2
    BY <1>3, <1>4, <1>6, <1>8, LeastOfIs
  <2>2. Decide(R) = q
    BY <1>1, <1>2, <2>1
  <2> QED BY <1>8, <2>2 DEF Then, R
<1> QED BY <1>7, <1>8

(* A version that is preferred is at least as good, and one that is not is   *)
(* at most as good.                                                          *)
LEMMA BetterMeans ==
  ASSUME NEW v \in Versions, NEW w \in Versions
  PROVE  /\ Better(Parse(v.e), v.file, Parse(w.e), w.file) => AtMost(w, v)
         /\ ~Better(Parse(v.e), v.file, Parse(w.e), w.file) => AtMost(v, w)
<1> DEFINE x == Parse(v.e)
           y == Parse(w.e)
           a == x.left # 0
           b == y.left # 0
           p == CmpBool(x.left # 0, y.left # 0)
           q == CompareVersions(x.version, y.version)
           third == CmpBool(x.arch = Native, y.arch = Native)
           fourth == IF Secondary = NoArch THEN 0 ELSE CmpBool(x.arch = Secondary, y.arch = Secondary)
           fifth == Sign(x.left - y.left)
           sixth == Sign(y.done - x.done)
           last == Sign(v.file - w.file)
<1>1. IsText(x.version) /\ x.left \in Nat /\ IsText(y.version) /\ y.left \in Nat
  <2>1. IsText(v.e) /\ IsText(w.e)
    BY DiscoverAssumption DEF IsText
  <2> QED BY <2>1, ParseIs
<1>2. Better(x, v.file, y, w.file) <=> Decide(<<p, q, third, fourth, fifth, sixth, last>>) > 0
  BY Zenon DEF Better
<1> HIDE DEF x, y
<1>3. q \in Results /\ CompareVersions(y.version, x.version) = -q
  BY <1>1, VersionsOrdered
<1>4. p \in Results /\ (p = 0 <=> (a <=> b)) /\ (p = 1 <=> a /\ ~b) /\ (p = -1 <=> ~a /\ b)
  BY DEF CmpBool, Results
<1>5. /\ AtMost(w, v) <=> (b => a) /\ ((b = a) => CompareVersions(y.version, x.version) <= 0)
      /\ AtMost(v, w) <=> (a => b) /\ ((a = b) => q <= 0)
  BY DEF AtMost, x, y
<1> HIDE DEF p, q, third, fourth, fifth, sixth, last, a, b
<1>6. p # 0 \/ q # 0 => Decide(<<p, q, third, fourth, fifth, sixth, last>>) = Then(p, q)
  BY <1>3, <1>4, FirstDecides
<1>7. a \in BOOLEAN /\ b \in BOOLEAN
  BY DEF a, b
<1>8. CASE p # 0
  <2>1. Better(x, v.file, y, w.file) <=> p > 0
    BY <1>2, <1>6, <1>8 DEF Then
  <2> QED BY <1>4, <1>5, <1>7, <1>8, <2>1 DEF Results, x, y
<1>9. CASE p = 0 /\ q # 0
  <2>1. Better(x, v.file, y, w.file) <=> q > 0
    BY <1>2, <1>6, <1>9 DEF Then
  <2> QED BY <1>3, <1>4, <1>5, <1>7, <1>9, <2>1 DEF Results, x, y
<1>10. CASE p = 0 /\ q = 0
  BY <1>3, <1>4, <1>5, <1>7, <1>10
<1> QED BY <1>8, <1>9, <1>10 DEF Results

LEMMA AtMostChain ==
  ASSUME NEW u \in Versions, NEW v \in Versions, NEW w \in Versions
  PROVE  AtMost(u, u) /\ (AtMost(u, v) /\ AtMost(v, w) => AtMost(u, w))
<1> DEFINE x == Parse(u.e)
           y == Parse(v.e)
           z == Parse(w.e)
<1>1. IsText(x.version) /\ IsText(y.version) /\ IsText(z.version)
  <2>1. IsText(u.e) /\ IsText(v.e) /\ IsText(w.e)
    BY DiscoverAssumption DEF IsText
  <2> QED BY <2>1, ParseIs
<1>2. /\ CompareVersions(x.version, x.version) \in Results
      /\ CompareVersions(x.version, x.version) = -CompareVersions(x.version, x.version)
      /\ CompareVersions(x.version, y.version) \in Results
      /\ CompareVersions(y.version, z.version) \in Results
      /\ CompareVersions(x.version, z.version) \in Results
      /\ Transitive(CompareVersions(x.version, y.version), CompareVersions(y.version, z.version),
                    CompareVersions(x.version, z.version))
  <2> HIDE DEF x, y, z
  <2> QED BY <1>1, VersionsOrdered
<1> QED BY <1>2 DEF AtMost, Results, Transitive

----------------------------------------------------------------------------
(* The scan.                                                                 *)
LEMMA ListedAre ==
  ASSUME NEW t \in AtFirst, SceneOf(t)
  PROVE  /\ Listed \subseteq EntriesOf(t) /\ \A x \in Listed : x \notin Versions
         /\ \A x \in EntriesOf(t) : x.dir \in 1 .. Dirs
         /\ \A x, y \in EntriesOf(t) : x.dir = y.dir /\ x.name = y.name => x = y
<1>1. Listed \subseteq EntriesOf(t) /\ \A x \in Listed : x \notin Versions
  BY DEF SceneOf, Listed, EntriesOf
<1>2. \A x, y \in EntriesOf(t) : x.dir = y.dir /\ x.name = y.name => x = y
  BY DiscoverAssumption
<1>3. \A x \in EntriesOf(t) : x.dir \in 1 .. Dirs
  BY DiscoverAssumption
<1> QED BY <1>1, <1>2, <1>3

(* Going on to the next name.                                                *)
LEMMA NamesLeft ==
  ASSUME NEW t \in AtFirst, names \in Seq(NamesOf(t)), Ascending(names), names # <<>>
  PROVE  /\ Tail(names) \in Seq(NamesOf(t)) /\ Ascending(Tail(names))
         /\ Range(names) = Range(Tail(names)) \cup {Head(names)}
         /\ Head(names) \notin Range(Tail(names)) /\ 1 \in DOMAIN names /\ names[1] = Head(names)
         /\ \A j \in DOMAIN Tail(names) :
              /\ Precedes(Head(names), Tail(names)[j])
              /\ j + 1 \in DOMAIN names /\ Tail(names)[j] = names[j + 1]
<1> DEFINE n == Len(names)
           s == Tail(names)
<1>1. /\ n \in Nat /\ n # 0 /\ DOMAIN names = 1 .. n /\ Head(names) = names[1]
      /\ s \in Seq(NamesOf(t)) /\ DOMAIN s = 1 .. n - 1 /\ \A j \in 1 .. n - 1 : s[j] = names[j + 1]
      /\ \A j \in 1 .. n : names[j] \in NamesOf(t)
  OBVIOUS
<1> HIDE DEF n, s
<1>2. Ascending(s)
  <2> SUFFICES ASSUME NEW i \in 1 .. n - 1, NEW j \in 1 .. n - 1, i < j
               PROVE  Precedes(s[i], s[j])
    BY <1>1 DEF Ascending
  <2>1. i + 1 \in DOMAIN names /\ j + 1 \in DOMAIN names /\ i + 1 < j + 1
    BY <1>1
  <2>2. Precedes(names[i + 1], names[j + 1])
    BY <2>1 DEF Ascending
  <2> QED BY <1>1, <2>2
<1>3. ASSUME NEW j \in 1 .. n - 1 PROVE Precedes(Head(names), s[j])
  <2>1. 1 \in DOMAIN names /\ j + 1 \in DOMAIN names /\ 1 < j + 1
    BY <1>1
  <2>2. Precedes(names[1], names[j + 1])
    BY <2>1 DEF Ascending
  <2> QED BY <1>1, <2>2
<1>4. Head(names) \notin Range(s)
  <2>1. ~Precedes(names[1], names[1])
    <3>1. names[1] \in NamesOf(t)
      BY <1>1
    <3> QED BY <3>1, NamesOrdered
  <2> QED BY <1>1, <1>3, <2>1 DEF Range
<1>5. Range(names) = Range(s) \cup {Head(names)}
  <2>1. ASSUME NEW j \in 1 .. n PROVE j = 1 \/ j - 1 \in 1 .. n - 1
    BY <1>1
  <2>2. \A j \in 1 .. n : j = 1 \/ names[j] = s[j - 1]
    BY <1>1, <2>1
  <2>3. \A j \in 1 .. n - 1 : j + 1 \in 1 .. n
    BY <1>1
  <2>4. 1 \in 1 .. n
    BY <1>1
  <2>5. ASSUME NEW m PROVE m \in Range(names) <=> m \in Range(s) \cup {Head(names)}
    <3>1. m \in Range(names) <=> \E j \in 1 .. n : m = names[j]
      BY <1>1, Zenon DEF Range
    <3>2. m \in Range(s) <=> \E j \in 1 .. n - 1 : m = s[j]
      BY <1>1, Zenon DEF Range
    <3> QED BY <1>1, <2>1, <2>2, <2>3, <2>4, <3>1, <3>2
  <2> QED BY <2>5
<1> QED BY <1>1, <1>2, <1>3, <1>4, <1>5 DEF s

LEMMA NowHandled ==
  ASSUME NEW t \in AtFirst, SceneOf(t), pc \in Reading, pc' \in Reading, names # <<>>,
         names' = Tail(names), k' = k, NEW x
  PROVE  Handled(x)' <=> Handled(x) \/ (x.dir = k /\ x.name = Head(names))
<1>1. Range(names) = Range(names') \cup {Head(names)} /\ Head(names) \notin Range(names')
  BY NamesLeft DEF SceneOf
<1> QED BY <1>1 DEF Handled

(* The images found so far, and perhaps one more.                            *)
Grows(name, path) ==
  \/ images' = images
  \/ \E n \in Nat :
            /\ DOMAIN images' = DOMAIN images \cup {n} /\ \A i \in DOMAIN images : i < n
            /\ images'[n].name = name /\ images'[n].path = path
            /\ \A i \in DOMAIN images : images'[i] = images[i]

LEMMA FoundIs ==
  ASSUME NEW t \in AtFirst, images \in Seq(ImagesOf(t)), NEW image, NEW path,
         image.name \in {Basename(x).name : x \in EntriesOf(t)},
         path \in EntriesOf(t) \cup Versions, Found(image, path)
  PROVE  /\ images' \in Seq(ImagesOf(t)) /\ Grows(image.name, path)
         /\ image.ok => Seen(image.name)'
         /\ ~image.ok \/ Seen(image.name) => images' = images
         /\ \A name : Seen(name) => Seen(name)'
<1> DEFINE new == [name |-> image.name, path |-> path]
           n == Len(images) + 1
<1>1. new \in ImagesOf(t) /\ new.name = image.name /\ new.path = path
  BY DEF ImagesOf
<1>2. CASE ~(image.ok /\ ~Seen(image.name))
  <2>1. images' = images
    BY <1>2 DEF Found
  <2> QED BY <1>2, <2>1 DEF Grows, Seen
<1>3. CASE image.ok /\ ~Seen(image.name)
  <2>1. images' = Append(images, new)
    BY <1>3 DEF Found
  <2> HIDE DEF new
  <2>2. /\ images' \in Seq(ImagesOf(t)) /\ n \in Nat /\ DOMAIN images = 1 .. n - 1
        /\ DOMAIN images' = 1 .. n
        /\ images'[n] = new /\ \A i \in 1 .. n - 1 : images'[i] = images[i]
    BY <1>1, <2>1
  <2> HIDE DEF n
  <2>3. 1 .. n = 1 .. n - 1 \cup {n} /\ \A i \in 1 .. n - 1 : i < n
    <3>1. n - 1 \in Nat
      BY DEF n
    <3> QED BY <2>2, <3>1
  <2>4. Grows(image.name, path)
    BY <1>1, <2>2, <2>3 DEF Grows
  <2>5. Seen(image.name)' /\ \A name : Seen(name) => Seen(name)'
    BY <1>1, <2>2, <2>3 DEF Seen
  <2> QED BY <1>3, <2>2, <2>4, <2>5
<1> QED BY <1>2, <1>3

(* Steps of the scan that go on with the next name: what they keep.          *)
LEMMA NextName ==
  ASSUME NEW t \in AtFirst, SceneOf(t), pc \in Reading, names # <<>>,
         names' = Tail(names), Scan("entries"), k' = k, images' \in Seq(ImagesOf(t))
  PROVE  SceneOf(t)'
<1>1. names' \in Seq(NamesOf(t)) /\ Ascending(names')
  BY NamesLeft DEF SceneOf
<1> QED BY <1>1 DEF SceneOf, Scan, Reading

LEMMA ResolvedIs ==
  ASSUME NEW t \in AtFirst, SceneOf(t), NEW x \in Resolved
  PROVE  /\ x \in Listed /\ x \in EntriesOf(t) /\ x.dir = k /\ x.name = Head(names)
         /\ Resolved = {x}
<1>1. x \in Listed /\ x \in EntriesOf(t) /\ x.dir = k /\ x.name = Head(names)
  BY ListedAre DEF Resolved
<1>2. \A y \in Resolved : y = x
  <2> SUFFICES ASSUME NEW y \in Resolved PROVE y = x
    OBVIOUS
  <2>1. y \in EntriesOf(t) /\ y.dir = x.dir /\ y.name = x.name
    BY <1>1, ListedAre DEF Resolved
  <2> QED BY <1>1, <2>1, ListedAre
<1> QED BY <1>1, <1>2

LEMMA TakesIs ==
  ASSUME NEW t \in AtFirst, SceneOf(t), NEW x \in Resolved,
         Found(MakeImage(Basename(x).name, x.name, x.mode), x)
  PROVE  /\ images' \in Seq(ImagesOf(t)) /\ Grows(Basename(x).name, x)
         /\ \A name : Seen(name) => Seen(name)'
         /\ x.mode \in {"reg", "blk"} \/ (x.mode = "dir" /\ ~EndsIn(x.name, ".mstack")) =>
              Seen(Basename(x).name)'
         /\ \/ images' = images
            \/ x.mode \in {"reg", "blk"} \/ (x.mode = "dir" /\ ~EndsIn(x.name, ".mstack"))
         /\ Seen(Basename(x).name) => images' = images
<1> DEFINE image == MakeImage(Basename(x).name, x.name, x.mode)
<1>1. x \in EntriesOf(t)
  BY ResolvedIs
<1>2. /\ image.name = Basename(x).name
      /\ image.ok <=> x.mode \in {"reg", "blk"} \/ (x.mode = "dir" /\ ~EndsIn(x.name, ".mstack"))
  BY DEF MakeImage
<1>3. images \in Seq(ImagesOf(t))
  BY DEF SceneOf
<1> HIDE DEF image
<1>4. Found(image, x)
  BY DEF image
<1>5. image.name \in {Basename(y).name : y \in EntriesOf(t)} /\ x \in EntriesOf(t) \cup Versions
  BY <1>1, <1>2
<1>6. /\ images' \in Seq(ImagesOf(t)) /\ Grows(image.name, x)
      /\ image.ok => Seen(image.name)'
      /\ ~image.ok \/ Seen(image.name) => images' = images
      /\ \A name : Seen(name) => Seen(name)'
  BY <1>3, <1>4, <1>5, FoundIs
<1> QED BY <1>2, <1>6

LEMMA PickedIs ==
  ASSUME NEW t \in AtFirst, SceneOf(t), pc = "versions", best # None,
         NEW x, x = entry, NEW b, b = best,
         Found(MakeImage(Basename(x).name, b.suffix, b.mode), b)
  PROVE  /\ images' \in Seq(ImagesOf(t)) /\ Grows(Basename(x).name, b)
         /\ \A name : Seen(name) => Seen(name)'
         /\ b.mode \in {"reg", "blk"} \/ (b.mode = "dir" /\ ~EndsIn(b.suffix, ".mstack")) =>
              Seen(Basename(x).name)'
         /\ \/ images' = images
            \/ b.mode \in {"reg", "blk"} \/ (b.mode = "dir" /\ ~EndsIn(b.suffix, ".mstack"))
         /\ Seen(Basename(x).name) => images' = images
<1> DEFINE image == MakeImage(Basename(x).name, b.suffix, b.mode)
<1>1. x \in EntriesOf(t) /\ b \in Versions
  BY DEF SceneOf, Pickable, Of
<1>2. /\ image.name = Basename(x).name
      /\ image.ok <=> b.mode \in {"reg", "blk"} \/ (b.mode = "dir" /\ ~EndsIn(b.suffix, ".mstack"))
  BY DEF MakeImage
<1>3. images \in Seq(ImagesOf(t))
  BY DEF SceneOf
<1> HIDE DEF image
<1>4. Found(image, b)
  BY DEF image
<1>5. image.name \in {Basename(y).name : y \in EntriesOf(t)} /\ b \in EntriesOf(t) \cup Versions
  BY <1>1, <1>2
<1>6. /\ images' \in Seq(ImagesOf(t)) /\ Grows(image.name, b)
      /\ image.ok => Seen(image.name)'
      /\ ~image.ok \/ Seen(image.name) => images' = images
      /\ \A name : Seen(name) => Seen(name)'
  BY <1>3, <1>4, <1>5, FoundIs
<1> QED BY <1>2, <1>6

(* The types of a scan.                                                      *)
LEMMA SceneKept ==
  ASSUME NEW t \in AtFirst, SceneOf(t), [Next]_vars
  PROVE  SceneOf(t)'
<1>1. CASE OpenDirectory
  <2>1. present \subseteq AllOf(t) /\ k \in 1 .. Dirs + 1
    BY DEF SceneOf
  <2>2. names' \in Seq(NamesOf(t)) /\ Ascending(names')
    BY <1>1, <2>1, NamesRead DEF OpenDirectory
  <2> QED BY <1>1, <2>2, <2>1 DEF SceneOf, OpenDirectory, Scan, Reading
<1>2. CASE NextDirectory
  <2>1. Dirs \in Nat /\ k \in 1 .. Dirs + 1 /\ k <= Dirs
    BY <1>2, DiscoverAssumption DEF SceneOf, NextDirectory, Reading
  <2>2. k + 1 \in 1 .. Dirs + 1
    BY <2>1
  <2> QED BY <1>2, <2>2 DEF SceneOf, NextDirectory, Scan, Reading
<1>3. CASE Passes
  BY <1>3, NextName DEF Passes, SceneOf, Reading
<1>4. CASE Takes
  <2>1. PICK x \in Resolved : Found(MakeImage(Basename(x).name, x.name, x.mode), x)
    BY <1>4 DEF Takes
  <2>2. images' \in Seq(ImagesOf(t))
    BY <2>1, TakesIs
  <2> QED BY <1>4, <2>2, NextName DEF Takes, Reading
<1>5. CASE Looks
  <2>1. PICK x \in Resolved : ~Skipped(x) /\ Versioned(x) /\ entry' = x /\ vnames' = Of(x) \cap present
    BY <1>5 DEF Looks
  <2>2. x \in EntriesOf(t) /\ x.dir = k /\ x.name = Head(names)
    BY ResolvedIs
  <2> QED BY <1>5, <2>1, <2>2 DEF SceneOf, Looks, Scan, Reading
<1>6. ASSUME NEW v \in vnames, Version(v) PROVE SceneOf(t)'
  <2>1. v \in Of(entry) /\ best \in Pickable(entry) \cup {None}
    BY <1>6 DEF SceneOf, Version
  <2>2. best' \in Pickable(entry) \cup {None}
    BY <1>6, <2>1 DEF Version, Pickable
  <2> QED BY <1>6, <2>2 DEF SceneOf, Version, Scan, Reading
<1>7. ASSUME NEW v \in vnames, VersionGone(v) PROVE SceneOf(t)'
  BY <1>7, NextName DEF VersionGone, Leave, SceneOf, Reading
<1>8. CASE Picked
  <2> SUFFICES ASSUME NEW x, x = entry, NEW b, b = best PROVE SceneOf(t)'
    OBVIOUS
  <2>1. images' \in Seq(ImagesOf(t))
    BY <1>8, PickedIs DEF Picked, SceneOf
  <2> QED BY <1>8, <2>1, NextName DEF Picked, Leave, SceneOf, Reading
<1>9. CASE Return
  <2>1. images' \in Seq(ImagesOf(t))
    BY <1>9, SortedIs DEF Return, SceneOf
  <2>2. k = Dirs + 1
    BY <1>9, DiscoverAssumption DEF Return, SceneOf
  <2> QED BY <1>9, <2>1, <2>2 DEF SceneOf, Return, Scan, Reading
<1>10. CASE ScanFails
  <2>1. images' \in Seq(ImagesOf(t))
    BY <1>10 DEF ScanFails
  <2> QED BY <1>10, <2>1 DEF SceneOf, ScanFails, Scan, Reading
<1>11. CASE Change
  <2>1. t.changes \in Nat /\ changes \in 0 .. t.changes /\ changes > 0
    BY <1>11, DiscoverAssumption DEF Change, SceneOf
  <2>2. Changing \subseteq AllOf(t) /\ changes' \in 0 .. t.changes
    BY <1>11, <2>1 DEF Change, AllOf
  <2>3. present' \subseteq AllOf(t)
    BY <1>11, <2>2 DEF Change, SceneOf
  <2> QED BY <1>11, <2>2, <2>3 DEF SceneOf, Change
<1>12. CASE UNCHANGED vars
  BY <1>12 DEF SceneOf, vars
<1> QED BY <1>1, <1>2, <1>3, <1>4, <1>5, <1>6, <1>7, <1>8, <1>9, <1>10, <1>11, <1>12 DEF Next

(* The suffix of a versioned directory ends like its name without the ".v".  *)
LEMMA CutIs ==
  ASSUME NEW s \in Seq(STRING), NEW part
  PROVE  /\ Cut(s, part) \in Seq(STRING) /\ Len(Cut(s, part)) <= Len(s)
         /\ EndsIn(s, part) => Len(Cut(s, part)) < Len(s)
<1>1. CASE ~EndsIn(s, part)
  BY <1>1 DEF Cut
<1>2. CASE EndsIn(s, part)
  <2>1. s # <<>> /\ Cut(s, part) = SubSeq(s, 1, Len(s) - 1)
    BY <1>2 DEF Cut, EndsIn
  <2>2. Len(s) \in Nat /\ Len(s) # 0
    BY <2>1
  <2> DEFINE n == Len(s)
  <2>3. SubSeq(s, 1, n - 1) \in Seq(STRING) /\ Len(SubSeq(s, 1, n - 1)) = n - 1
    <3>1. \A i \in 1 .. n : s[i] \in STRING
      OBVIOUS
    <3>2. 1 \in 1 .. n + 1 /\ n - 1 \in 0 .. n
      BY <2>2
    <3>3. SubSeq(s, 1, n - 1) \in Seq(STRING)
      BY <2>2, <3>2, PieceText DEF IsText
    <3>4. SubSeq(s, 1, n - 1) = [i \in 1 .. n - 1 |-> s[i]]
      BY <2>2
    <3>5. n - 1 \in Nat
      BY <2>2
    <3>6. DOMAIN SubSeq(s, 1, n - 1) = 1 .. n - 1
      BY <3>4, Zenon
    <3> HIDE DEF n
    <3>7. ASSUME NEW g \in Seq(STRING), NEW m \in Nat, DOMAIN g = 1 .. m PROVE Len(g) = m
      BY <3>7
    <3> QED BY <3>3, <3>5, <3>6, <3>7
  <2> QED BY <2>1, <2>2, <2>3
<1> QED BY <1>1, <1>2

LEMMA TailIs ==
  ASSUME NEW s \in Seq(STRING), NEW n \in Seq(STRING), Len(n) <= Len(s), NEW part
  PROVE  EndsIn(Tail2(s, n), part) <=> Len(n) < Len(s) /\ s[Len(s)] = part
<1> DEFINE g == SubSeq(s, Len(n) + 1, Len(s))
<1>1. Len(s) \in Nat /\ Len(n) \in Nat
  OBVIOUS
<1>2. g \in Seq(STRING) /\ Len(g) = Len(s) - Len(n) /\ \A i \in 1 .. Len(g) : g[i] = s[Len(n) + i]
  BY <1>1
<1>3. EndsIn(Tail2(s, n), part) <=> g # <<>> /\ g[Len(g)] = part
  BY DEF EndsIn, Tail2
<1> HIDE DEF g
<1>4. CASE Len(n) = Len(s)
  <2>1. g = <<>>
    BY <1>1, <1>2, <1>4
  <2> QED BY <1>1, <1>3, <1>4, <2>1
<1>5. CASE Len(n) < Len(s)
  <2>1. Len(g) \in 1 .. Len(g) /\ g # <<>>
    BY <1>1, <1>2, <1>5
  <2>2. g[Len(g)] = s[Len(n) + Len(g)] /\ Len(n) + Len(g) = Len(s)
    BY <1>1, <1>2, <2>1
  <2> QED BY <1>3, <1>5, <2>1, <2>2
<1> QED BY <1>1, <1>4, <1>5

LEMMA SuffixIs ==
  ASSUME NEW t \in AtFirst, NEW x \in EntriesOf(t), Versioned(x)
  PROVE  EndsIn(Cut(x.name, ".v"), ".mstack") <=> EndsIn(Basename(x).suffix, ".mstack")
<1> DEFINE f == Cut(x.name, ".v")
           formats == {".raw", ".mstack", ""}
           format == IF \E g \in formats : EndsIn(f, g) THEN f[Len(f)] ELSE ""
           stem == Cut(f, format)
           name == IF ClassSuffix = "" THEN stem ELSE Cut(stem, ClassSuffix)
<1>1. Basename(x) = ExtractImageBasename(f, ClassSuffix, formats)
  BY Zenon DEF Basename, Versioned
<1>2. Basename(x).suffix = Tail2(f, name)
  <2>1. ExtractImageBasename(f, ClassSuffix, formats) =
          [ok |-> (formats = {} \/ format \in formats) /\ ImageNameIsValid(name),
           name |-> name, suffix |-> Tail2(f, name)]
    BY Zenon DEF ExtractImageBasename
  <2> HIDE DEF f, name, format, formats
  <2> QED BY <1>1, <2>1
<1>3. f \in Seq(STRING)
  <2>1. x.name \in Seq(STRING)
    BY DiscoverAssumption
  <2> QED BY <2>1, CutIs
<1>4. EndsIn(f, ".mstack") => format = ".mstack"
  BY DEF EndsIn
<1> HIDE DEF format, f
<1>5. /\ stem \in Seq(STRING) /\ Len(stem) <= Len(f)
      /\ EndsIn(f, format) => Len(stem) < Len(f)
  BY <1>3, CutIs
<1> HIDE DEF stem
<1>6. name \in Seq(STRING) /\ Len(name) <= Len(stem)
  <2>1. Cut(stem, ClassSuffix) \in Seq(STRING) /\ Len(Cut(stem, ClassSuffix)) <= Len(stem)
    BY <1>5, CutIs
  <2>2. Len(stem) <= Len(stem)
    BY <1>5
  <2> QED BY <1>5, <2>1, <2>2
<1> HIDE DEF name
<1>7. Len(name) \in Nat /\ Len(stem) \in Nat /\ Len(f) \in Nat
  BY <1>3, <1>5, <1>6
<1>8. EndsIn(Tail2(f, name), ".mstack") <=> Len(name) < Len(f) /\ f[Len(f)] = ".mstack"
  BY <1>3, <1>5, <1>6, <1>7, TailIs
<1>9. Len(f) # 0 => f # <<>>
  OBVIOUS
<1>10. EndsIn(f, ".mstack") => Len(name) < Len(f)
  BY <1>4, <1>5, <1>6, <1>7
<1> QED BY <1>2, <1>7, <1>8, <1>9, <1>10 DEF f, EndsIn

----------------------------------------------------------------------------
(* What does not change while nobody else changes anything.                  *)
LEMMA SameEntries ==
  ASSUME present' = present, touched' = touched
  PROVE  /\ Listed' = Listed
         /\ \A x : /\ Untouched(x)' <=> Untouched(x)
                   /\ Usable(x)' = Usable(x)
                   /\ IsImage(x)' <=> IsImage(x)
         /\ \A path : SourceOf(path)' = SourceOf(path)
<1>1. Listed' = Listed
  BY DEF Listed
<1>2. \A x : Usable(x)' = Usable(x)
  BY DEF Usable
<1>3. \A x : Broken(x)' <=> Broken(x)
  BY DEF Broken
<1>4. \A x : IsImage(x)' <=> IsImage(x)
  BY <1>2, <1>3 DEF IsImage
<1>5. \A path : SourceOf(path)' = SourceOf(path)
  BY <1>1 DEF SourceOf
<1> QED BY <1>1, <1>2, <1>4, <1>5 DEF Untouched

FoundWhen(x) == Untouched(x) /\ IsImage(x) /\ Handled(x) => Seen(Basename(x).name)

LEMMA StillFound ==
  ASSUME StableInv, pc # "failed", present' = present, touched' = touched,
         \A name : Seen(name) => Seen(name)',
         \A x \in Listed : Untouched(x) /\ IsImage(x) /\ Handled(x)' =>
                             Handled(x) \/ Seen(Basename(x).name)'
  PROVE  \A x \in Listed' : FoundWhen(x)'
<1> SUFFICES ASSUME NEW x \in Listed', Untouched(x)', IsImage(x)', Handled(x)'
             PROVE  Seen(Basename(x).name)'
  BY DEF FoundWhen
<1>1. x \in Listed /\ Untouched(x) /\ IsImage(x)
  BY SameEntries
<1>2. Handled(x) => Seen(Basename(x).name)
  BY <1>1 DEF StableInv
<1> QED BY <1>1, <1>2

(* Within a versioned directory.                                             *)
LEMMA EntryWaits ==
  ASSUME NEW t \in AtFirst, SceneOf(t), pc = "versions", StableInv,
         entry \in Listed, Untouched(entry), IsImage(entry)
  PROVE  /\ \A v \in vnames : Matches(v, entry) => Resolves(v)
         /\ vnames = {} => best # None
<1>1. Waiting(entry)
  BY DEF StableInv
<1>2. vnames = {} => best # None
  BY <1>1 DEF Waiting
<1>3. ASSUME NEW v \in vnames, Matches(v, entry) PROVE Resolves(v)
  <2>1. v \in Of(entry) \cap present /\ entry \in present
    BY <1>1 DEF SceneOf, Waiting, Listed
  <2>2. v.mode # "dangling"
    BY <1>3, <2>1 DEF IsImage, Broken, SceneOf
  <2> QED BY <2>1, <2>2 DEF Resolves
<1> QED BY <1>2, <1>3

LEMMA VersionWaits ==
  ASSUME NEW t \in AtFirst, SceneOf(t), StableInv, NEW v \in vnames, Version(v),
         entry' \in Listed', Untouched(entry)', IsImage(entry)'
  PROVE  Waiting(entry)'
<1> SUFFICES ASSUME NEW x, x = entry PROVE Waiting(entry)'
  OBVIOUS
<1>1. pc = "versions" /\ entry' = x /\ present' = present /\ touched' = touched
      /\ vnames' = vnames \ {v} /\ v \in Versions
  BY DEF Version, Scan, SceneOf, Of
<1>2. x \in Listed /\ Untouched(x) /\ IsImage(x) /\ Usable(x)' = Usable(x)
  BY <1>1, SameEntries
<1>3. Waiting(x) /\ x = entry
  BY <1>1, <1>2 DEF StableInv
<1>4. best' = IF Matches(v, x) /\ v.mode \in Wanted(Basename(x).suffix) /\ BestOf(v, x) THEN v ELSE best
  BY DEF Version
<1>5. best # None => best' # None
  BY <1>1, <1>4, DiscoverAssumption
<1>6. best = None => best' # None \/ vnames' \cap Usable(x) # {}
  <2> SUFFICES ASSUME best = None, best' = None PROVE vnames' \cap Usable(x) # {}
    OBVIOUS
  <2>1. PICK u \in vnames \cap Usable(x) : TRUE
    BY <1>3 DEF Waiting
  <2>2. v \notin Usable(x)
    BY <1>1, <1>4, DiscoverAssumption DEF Usable, BestOf
  <2> QED BY <1>1, <2>1, <2>2
<1> QED BY <1>1, <1>2, <1>3, <1>5, <1>6 DEF Waiting

(* Picking from a directory that is an image finds it.                       *)
LEMMA PickedFinds ==
  ASSUME NEW t \in AtFirst, SceneOf(t), pc = "versions", NEW x, x = entry, IsImage(x), best # None,
         NEW b, b = best, Found(MakeImage(Basename(x).name, b.suffix, b.mode), b)
  PROVE  Seen(Basename(x).name)'
<1>1. x \in EntriesOf(t) /\ Versioned(x) /\ b \in Pickable(x)
  BY DEF SceneOf
<1>2. b.mode \in Wanted(Basename(x).suffix) /\ b.suffix = Basename(x).suffix
  BY <1>1 DEF Pickable, Matches
<1>3. ~EndsIn(Cut(x.name, ".v"), ".mstack")
  BY <1>1 DEF IsImage
<1>4. ~EndsIn(b.suffix, ".mstack")
  BY <1>1, <1>2, <1>3, SuffixIs
<1>5. b.mode \in {"reg", "blk"} \/ b.mode = "dir"
  BY <1>2 DEF Wanted
<1> QED BY <1>4, <1>5, PickedIs

LEMMA StableKept ==
  ASSUME NEW t \in AtFirst, SceneOf(t), StableInv, [Next]_vars
  PROVE  StableInv'
<1> USE DEF FoundWhen
<1>1. CASE OpenDirectory
  <2>1. present \subseteq AllOf(t) /\ present' = present /\ touched' = touched /\ k' = k
        /\ images' = images /\ pc = "directory" /\ pc' = "entries"
    BY <1>1 DEF SceneOf, OpenDirectory, Scan
  <2>2. \A x \in Listed : x.dir = k => x.name \in Range(names')
    BY <1>1, <2>1, NamesRead DEF OpenDirectory
  <2>3. \A x \in Listed : Handled(x)' => Handled(x)
    BY <2>1, <2>2 DEF Handled
  <2>4. \A x \in Listed' : FoundWhen(x)'
    BY <2>1, <2>3, StillFound DEF Seen
  <2> QED BY <2>1, <2>4 DEF StableInv
<1>2. CASE NextDirectory
  <2>1. present' = present /\ touched' = touched /\ k' = k + 1 /\ images' = images
        /\ pc = "entries" /\ pc' = "directory" /\ names = <<>> /\ k \in 1 .. Dirs + 1
    BY <1>2 DEF SceneOf, NextDirectory, Scan
  <2>2. \A x \in Listed : x.dir \in Int
    BY ListedAre
  <2>3. \A x \in Listed : Handled(x)' => x.dir < k \/ x.dir = k
    BY <2>1, <2>2 DEF Handled, Reading
  <2>4. \A x \in Listed : Handled(x)' => Handled(x)
    BY <2>1, <2>3 DEF Handled, Reading, Range
  <2>5. \A x \in Listed' : FoundWhen(x)'
    BY <2>1, <2>4, StillFound DEF Seen
  <2> QED BY <2>1, <2>5 DEF StableInv
<1>3. CASE Passes
  <2>1. present' = present /\ touched' = touched /\ k' = k /\ images' = images /\ pc = "entries"
        /\ pc' = "entries" /\ names # <<>> /\ names' = Tail(names) /\ \A x \in Resolved : Skipped(x)
    BY <1>3 DEF Passes, Scan
  <2>2. ASSUME NEW x \in Listed, IsImage(x), Handled(x)' PROVE Handled(x)
    <3>1. x \in Resolved => FALSE
      BY <2>1, <2>2 DEF IsImage
    <3>2. Handled(x) \/ (x.dir = k /\ x.name = Head(names))
      BY <2>1, <2>2, NowHandled DEF Reading
    <3> QED BY <3>1, <3>2 DEF Resolved
  <2>3. \A x \in Listed' : FoundWhen(x)'
    BY <2>1, <2>2, StillFound DEF Seen
  <2> QED BY <2>1, <2>3 DEF StableInv
<1>4. CASE Takes
  <2>1. present' = present /\ touched' = touched /\ k' = k /\ pc = "entries"
        /\ pc' = "entries" /\ names # <<>> /\ names' = Tail(names)
    BY <1>4 DEF Takes, Scan
  <2>2. PICK x \in Resolved : /\ ~Skipped(x) /\ ~Versioned(x)
                              /\ Found(MakeImage(Basename(x).name, x.name, x.mode), x)
    BY <1>4 DEF Takes
  <2>3. IsImage(x) => Seen(Basename(x).name)'
    BY <2>2, TakesIs DEF IsImage
  <2>4. \A name : Seen(name) => Seen(name)'
    BY <2>2, TakesIs
  <2>5. ASSUME NEW y \in Listed, IsImage(y), Handled(y)' PROVE Handled(y) \/ Seen(Basename(y).name)'
    <3>1. Handled(y) \/ y \in Resolved
      BY <2>1, <2>5, NowHandled DEF Reading, Resolved
    <3>2. y \in Resolved => y = x
      BY <2>2, ResolvedIs
    <3> QED BY <2>3, <2>5, <3>1, <3>2
  <2>6. \A y \in Listed' : FoundWhen(y)'
    BY <2>1, <2>4, <2>5, StillFound
  <2> QED BY <2>1, <2>6 DEF StableInv
<1>5. CASE Looks
  <2>1. present' = present /\ touched' = touched /\ k' = k /\ images' = images /\ pc = "entries"
        /\ pc' = "versions" /\ names' = names
    BY <1>5 DEF Looks, Scan
  <2>2. \A x \in Listed : Handled(x)' => Handled(x)
    BY <2>1 DEF Handled, Reading
  <2>3. \A x \in Listed' : FoundWhen(x)'
    BY <2>1, <2>2, StillFound DEF Seen
  <2>4. PICK x : x \in Resolved /\ Versioned(x) /\ entry' = x /\ vnames' = Of(x) \cap present
    BY <1>5 DEF Looks
  <2>5. IsImage(x) => vnames' \cap Usable(x) # {}
    BY <2>4 DEF IsImage, Usable
  <2>6. IsImage(entry)' => Waiting(entry)'
    BY <2>1, <2>4, <2>5, SameEntries DEF Waiting
  <2> QED BY <2>1, <2>3, <2>6 DEF StableInv
<1>6. ASSUME NEW v \in vnames, Version(v) PROVE StableInv'
  <2>1. present' = present /\ touched' = touched /\ k' = k /\ images' = images /\ pc = "versions"
        /\ pc' = "versions" /\ names' = names
    BY <1>6 DEF Version, Scan
  <2>2. \A x \in Listed : Handled(x)' => Handled(x)
    BY <2>1 DEF Handled, Reading
  <2>3. \A x \in Listed' : FoundWhen(x)'
    BY <2>1, <2>2, StillFound DEF Seen
  <2>4. entry' \in Listed' /\ Untouched(entry)' /\ IsImage(entry)' => Waiting(entry)'
    BY <1>6, VersionWaits
  <2> QED BY <2>3, <2>4 DEF StableInv
<1>7. ASSUME NEW v \in vnames, VersionGone(v) PROVE StableInv'
  <2>1. present' = present /\ touched' = touched /\ k' = k /\ images' = images /\ pc = "versions"
        /\ pc' = "entries" /\ names' = Tail(names)
    BY <1>7 DEF VersionGone, Scan, Leave
  <2>2. names # <<>> /\ entry \in EntriesOf(t) /\ entry.dir = k /\ entry.name = Head(names)
    BY <2>1 DEF SceneOf
  <2>3. ASSUME NEW x \in Listed, Untouched(x), IsImage(x), Handled(x)' PROVE Handled(x)
    <3>1. Handled(x) \/ (x.dir = k /\ x.name = Head(names))
      BY <2>1, <2>2, <2>3, NowHandled DEF Reading
    <3>2. x.dir = k /\ x.name = Head(names) => x = entry
      BY <2>2, ListedAre
    <3>3. x # entry
      BY <1>7, <2>1, <2>3, EntryWaits DEF VersionGone
    <3> QED BY <3>1, <3>2, <3>3
  <2>4. \A x \in Listed' : FoundWhen(x)'
    BY <2>1, <2>3, StillFound DEF Seen
  <2> QED BY <2>1, <2>4 DEF StableInv
<1>8. CASE Picked
  <2> SUFFICES ASSUME NEW e, e = entry, NEW b, b = best PROVE StableInv'
    OBVIOUS
  <2>1. present' = present /\ touched' = touched /\ k' = k /\ pc = "versions"
        /\ pc' = "entries" /\ names' = Tail(names) /\ vnames = {}
    BY <1>8 DEF Picked, Scan, Leave
  <2>2. names # <<>> /\ e \in EntriesOf(t) /\ e.dir = k /\ e.name = Head(names)
    BY <2>1 DEF SceneOf
  <2>3. b # None => Found(MakeImage(Basename(e).name, b.suffix, b.mode), b)
    BY <1>8 DEF Picked
  <2>4. ASSUME NEW x \in Listed, Untouched(x), IsImage(x), Handled(x)'
        PROVE  Handled(x) \/ Seen(Basename(x).name)'
    <3>1. Handled(x) \/ (x.dir = k /\ x.name = Head(names))
      BY <2>1, <2>2, <2>4, NowHandled DEF Reading
    <3>2. x.dir = k /\ x.name = Head(names) => x = e
      BY <2>2, ListedAre
    <3>3. x = e => b # None
      BY <2>1, <2>4, EntryWaits
    <3>4. x = e => Seen(Basename(x).name)'
      BY <2>1, <2>3, <2>4, <3>3, PickedFinds
    <3> QED BY <3>1, <3>2, <3>4
  <2>5. \A name : Seen(name) => Seen(name)'
    <3>1. CASE b = None
      BY <1>8, <3>1 DEF Picked, Seen
    <3>2. CASE b # None
      BY <2>1, <2>3, <3>2, PickedIs
    <3> QED BY <3>1, <3>2
  <2>6. \A x \in Listed' : FoundWhen(x)'
    BY <2>1, <2>4, <2>5, StillFound
  <2> QED BY <2>1, <2>6 DEF StableInv
<1>9. CASE Return
  <2>1. present' = present /\ touched' = touched /\ k' = k /\ images' = Sorted(images)
        /\ pc = "directory" /\ pc' = "done"
    BY <1>9 DEF Return, Scan
  <2>2. \A x \in Listed : Handled(x)' => Handled(x)
    BY <2>1 DEF Handled, Reading
  <2>3. \A name : Seen(name) => Seen(name)'
    BY <2>1, SortedIs DEF Seen, SceneOf
  <2>4. \A x \in Listed' : FoundWhen(x)'
    BY <2>1, <2>2, <2>3, StillFound
  <2> QED BY <2>1, <2>4 DEF StableInv
<1>10. CASE ScanFails
  BY <1>10 DEF ScanFails, Scan, StableInv
<1>11. CASE Change
  <2>1. PICK c \in Changing : /\ touched' = touched \cup {c}
                              /\ present' = IF c \in present THEN present \ {c} ELSE present \cup {c}
    BY <1>11 DEF Change
  <2>2. UNCHANGED <<pc, k, names, entry, vnames, best, images>> /\ pc # "failed"
    BY <1>11 DEF Change
  <2>3. ASSUME NEW x, x \in Listed', Untouched(x)'
        PROVE  /\ x \in Listed /\ Untouched(x) /\ (IsImage(x)' <=> IsImage(x))
               /\ Versioned(x) => Of(x) \cap present' = Of(x) \cap present
    <3>1. x # c /\ x \in Listed /\ Untouched(x)
      BY <2>1, <2>3 DEF Listed, Untouched
    <3>2. Versioned(x) => Of(x) \cap present' = Of(x) \cap present
      BY <2>1, <2>3 DEF Untouched
    <3>3. Versioned(x) => Usable(x)' = Usable(x) /\ (Broken(x)' <=> Broken(x))
      BY <3>2 DEF Usable, Broken
    <3>4. IsImage(x)' <=> IsImage(x)
      BY <3>3 DEF IsImage
    <3> QED BY <3>1, <3>2, <3>4
  <2>4. \A x \in Listed' : FoundWhen(x)'
    BY <2>2, <2>3 DEF StableInv, Handled, Seen
  <2>5. ASSUME pc' = "versions", entry' \in Listed', Untouched(entry)', IsImage(entry)'
        PROVE  Waiting(entry)'
    <3> SUFFICES ASSUME NEW x, x = entry PROVE Waiting(entry)'
      OBVIOUS
    <3>1. x \in Listed /\ Untouched(x) /\ IsImage(x) /\ entry' = x /\ x \in Listed' /\ Untouched(x)'
      BY <2>2, <2>3, <2>5
    <3>2. Waiting(x) /\ Versioned(x) /\ vnames \subseteq Of(x)
      BY <2>2, <2>5, <3>1 DEF StableInv, SceneOf
    <3>3. Of(x) \cap present' = Of(x) \cap present
      BY <2>3, <3>1, <3>2
    <3> QED BY <2>2, <3>1, <3>2, <3>3 DEF Waiting, Usable
  <2> QED BY <2>2, <2>4, <2>5 DEF StableInv
<1>12. CASE UNCHANGED vars
  <2>1. present' = present /\ touched' = touched
        /\ UNCHANGED <<pc, k, names, entry, vnames, best, images>>
    BY <1>12 DEF vars
  <2>2. \A x : Handled(x)' <=> Handled(x)
    BY <2>1 DEF Handled
  <2> QED BY <2>1, <2>2, SameEntries DEF StableInv, Seen, Waiting
<1> QED BY <1>1, <1>2, <1>3, <1>4, <1>5, <1>6, <1>7, <1>8, <1>9, <1>10, <1>11, <1>12 DEF Next

----------------------------------------------------------------------------
(* The first entry of a name, while nothing changes.                         *)
LEMMA StillLed ==
  ASSUME present' = present, touched' = touched,
         \A x \in Listed : Handled(x) => Handled(x)'
  PROVE  /\ \A name, path : CameFrom(name, path) => CameFrom(name, path)'
         /\ \A path, x : Leads(path, x)' <=> Leads(path, x)
<1>1. ASSUME NEW name, NEW path, CameFrom(name, path) PROVE CameFrom(name, path)'
  <2>1. SourceOf(path)' = SourceOf(path) /\ SourceOf(path) \subseteq Listed
    BY SameEntries DEF SourceOf
  <2>2. PICK x \in SourceOf(path) : IsImage(x) /\ name = Basename(x).name /\ Handled(x)
    BY <1>1 DEF CameFrom
  <2>3. x \in SourceOf(path)' /\ IsImage(x)' /\ name = Basename(x).name /\ Handled(x)'
    BY <2>1, <2>2, SameEntries
  <2>4. \A y : Usable(y)' = Usable(y)
    BY SameEntries
  <2>5. path \in Versions => \A y \in SourceOf(path)' : \A w \in Usable(y)' : AtMost(w, path)
    BY <1>1, <2>1, <2>4 DEF CameFrom
  <2> QED BY <2>3, <2>5 DEF CameFrom
<1>2. \A path, x : Leads(path, x)' <=> Leads(path, x)
  BY SameEntries DEF Leads
<1> QED BY <1>1, <1>2

LEMMA FirstSame ==
  ASSUME AllCome, OneEach, AllLed, present' = present, touched' = touched, images' = images,
         \A x \in Listed : Handled(x) => Handled(x)',
         \A x \in Listed : IsImage(x) /\ Handled(x)' => Handled(x)
  PROVE  AllCome' /\ OneEach' /\ AllLed'
<1>1. AllCome'
  BY StillLed DEF AllCome
<1>2. OneEach'
  BY DEF OneEach
<1>3. AllLed'
  <2> SUFFICES ASSUME NEW x \in Listed', IsImage(x)', Handled(x)'
               PROVE  \E i \in DOMAIN images : images[i].name = Basename(x).name
                                               /\ Leads(images[i].path, x)'
    BY DEF AllLed
  <2>1. x \in Listed /\ IsImage(x) /\ Handled(x)
    BY SameEntries
  <2> QED BY <2>1, StillLed DEF AllLed
<1> QED BY <1>1, <1>2, <1>3

LEMMA EarlierLeads ==
  ASSUME NEW t \in AtFirst, SceneOf(t), AllCome, HandledBefore, pc \in Reading, names # <<>>,
         NEW x \in Listed, x.dir = k, x.name = Head(names), Seen(Basename(x).name)
  PROVE  \E i \in DOMAIN images : images[i].name = Basename(x).name /\ Leads(images[i].path, x)
<1>1. PICK i \in DOMAIN images : images[i].name = Basename(x).name
  BY DEF Seen
<1>2. PICK y \in SourceOf(images[i].path) : Handled(y)
  BY DEF AllCome, CameFrom
<1>3. y \in Listed
  BY DEF SourceOf
<1>4. 1 \in DOMAIN names /\ names[1] = Head(names)
  BY NamesLeft DEF SceneOf
<1>5. y.dir < k \/ (y.dir = k /\ Precedes(y.name, x.name))
  BY <1>2, <1>3, <1>4 DEF Handled, HandledBefore
<1>6. Before(y, x)
  BY <1>5 DEF Before
<1> QED BY <1>1, <1>6 DEF Leads

LEMMA FirstGrows ==
  ASSUME NEW t \in AtFirst, SceneOf(t), AllCome, OneEach, AllLed, HandledBefore,
         pc \in Reading, pc' \in Reading, names # <<>>, names' = Tail(names), k' = k,
         present' = present, touched' = touched,
         NEW x \in Listed, x.dir = k, x.name = Head(names),
         NEW name, name = Basename(x).name, NEW path, Grows(name, path),
         IsImage(x) => Seen(name)',
         images' = images \/ (~Seen(name) /\ x \in SourceOf(path) /\ CameFrom(name, path)')
  PROVE  AllCome' /\ OneEach' /\ AllLed'
<1>1. \A y \in Listed : (Handled(y) => Handled(y)') /\ (Handled(y)' => Handled(y) \/ y = x)
  <2>1. \A y \in Listed : y.dir = k /\ y.name = Head(names) => y = x
    BY ListedAre
  <2> QED BY <2>1, NowHandled
<1>2. \A i \in DOMAIN images : i \in DOMAIN images' /\ images'[i] = images[i]
  BY DEF Grows
<1>3. CASE images' = images
  <2>1. AllCome'
    BY <1>1, <1>3, StillLed DEF AllCome
  <2>2. OneEach'
    BY <1>3 DEF OneEach
  <2>3. ASSUME NEW y \in Listed', IsImage(y)', Handled(y)'
        PROVE  \E i \in DOMAIN images : images[i].name = Basename(y).name /\ Leads(images[i].path, y)
    <3>1. y \in Listed /\ IsImage(y) /\ (Handled(y) \/ y = x)
      BY <1>1, <2>3, SameEntries
    <3>2. CASE Handled(y)
      BY <3>1, <3>2 DEF AllLed
    <3>3. CASE y = x
      <4>1. Seen(Basename(x).name)
        BY <1>3, <3>1, <3>3 DEF Seen
      <4> QED BY <3>3, <4>1, EarlierLeads
    <3> QED BY <3>1, <3>2, <3>3
  <2>4. AllLed'
    BY <1>1, <1>3, <2>3, StillLed DEF AllLed
  <2> QED BY <2>1, <2>2, <2>4
<1>4. CASE images' # images
  <2>1. PICK n : /\ DOMAIN images' = DOMAIN images \cup {n} /\ n \notin DOMAIN images
                 /\ images'[n].name = name /\ images'[n].path = path
    <3>1. PICK n \in Nat :
                   /\ DOMAIN images' = DOMAIN images \cup {n} /\ \A i \in DOMAIN images : i < n
                   /\ images'[n].name = name /\ images'[n].path = path
      BY <1>4 DEF Grows
    <3>2. \A i \in DOMAIN images : i \in Nat
      BY DEF SceneOf
    <3>3. n \notin DOMAIN images
      BY <3>1, <3>2
    <3> QED BY <3>1, <3>3
  <2>2. ~Seen(name) /\ x \in SourceOf(path) /\ CameFrom(name, path)'
    BY <1>4
  <2>3. AllCome'
    BY <1>1, <1>2, <2>1, <2>2, StillLed DEF AllCome
  <2>4. OneEach'
    BY <1>2, <2>1, <2>2 DEF OneEach, Seen
  <2>5. ASSUME NEW y \in Listed', IsImage(y)', Handled(y)'
        PROVE  \E i \in DOMAIN images' : images'[i].name = Basename(y).name /\ Leads(images'[i].path, y)
    <3>1. y \in Listed /\ IsImage(y) /\ (Handled(y) \/ y = x)
      BY <1>1, <2>5, SameEntries
    <3>2. CASE Handled(y)
      <4>1. PICK i \in DOMAIN images : images[i].name = Basename(y).name /\ Leads(images[i].path, y)
        BY <3>1, <3>2 DEF AllLed
      <4> QED BY <1>2, <4>1
    <3>3. CASE y = x
      <4>1. Leads(path, x)
        BY <2>2 DEF Leads
      <4> QED BY <2>1, <3>3, <4>1
    <3> QED BY <3>1, <3>2, <3>3
  <2>6. AllLed'
    BY <1>1, <2>5, StillLed DEF AllLed
  <2> QED BY <2>3, <2>4, <2>6
<1> QED BY <1>3, <1>4

LEMMA BeforeKept ==
  ASSUME NEW t \in AtFirst, SceneOf(t), HandledBefore, pc \in Reading, pc' \in Reading,
         names # <<>>, names' = Tail(names), k' = k, present' = present
  PROVE  HandledBefore'
<1> SUFFICES ASSUME NEW x \in Listed, x.dir = k, Handled(x)', NEW i \in DOMAIN names'
             PROVE  Precedes(x.name, names'[i])
  BY DEF HandledBefore, Listed
<1>1. Handled(x) \/ x.name = Head(names)
  BY NowHandled
<1>2. Precedes(Head(names), names'[i]) /\ i + 1 \in DOMAIN names /\ names'[i] = names[i + 1]
  BY NamesLeft DEF SceneOf
<1> QED BY <1>1, <1>2 DEF HandledBefore

(* The best of the versions looked at, with one more of them.                *)
LEMMA VersionJudged ==
  ASSUME NEW t \in AtFirst, SceneOf(t), BestSoFar, NEW v \in vnames, Version(v)
  PROVE  BestSoFar'
<1> SUFFICES ASSUME NEW x, x = entry, NEW b, b = best PROVE BestSoFar'
  OBVIOUS
<1>1. /\ pc = "versions" /\ entry' = x /\ present' = present /\ vnames' = vnames \ {v}
      /\ x \in Listed /\ v \in present /\ v \in Versions /\ b \in present \cup {None}
      /\ b \in Versions \cup {None} /\ vnames \subseteq present
  BY DEF Version, Scan, SceneOf, Of, Pickable, BestSoFar
<1>2. \A u \in (Of(x) \cap present) \ vnames : Matches(u, x) =>
        u.mode # "dangling" /\ (u \in Pickable(x) => b # None /\ AtMost(u, b))
  BY <1>1 DEF BestSoFar, Judged
<1>3. Matches(v, x) => v.mode # "dangling"
  BY DEF Version, Resolves
<1>4. best' = IF Matches(v, x) /\ v.mode \in Wanted(Basename(x).suffix) /\ BestOf(v, x) THEN v ELSE b
  BY DEF Version
<1>5. BestOf(v, x) <=> b = None \/ Better(Parse(v.e), v.file, Parse(b.e), b.file)
  BY DEF BestOf
<1>6. Listed' = Listed /\ None \notin Versions
  BY <1>1, DiscoverAssumption DEF Listed
<1> DEFINE good == v.mode \in Wanted(Basename(x).suffix)
           better == b = None \/ Better(Parse(v.e), v.file, Parse(b.e), b.file)
<1>7. PICK c : c = best' /\ c = IF Matches(v, x) /\ good /\ better THEN v ELSE b
  BY <1>4, <1>5
<1>8. v \in Pickable(x) => Matches(v, x) /\ good
  BY DEF Pickable
<1>9. b # None => /\ better => AtMost(b, v)
                  /\ ~better => AtMost(v, b)
  BY <1>1, BetterMeans
<1>10. AtMost(v, v)
  BY <1>1, AtMostChain
<1> HIDE DEF good, better
<1>11. ASSUME NEW u \in (Of(x) \cap present) \ (vnames \ {v}), Matches(u, x)
       PROVE  u.mode # "dangling" /\ (u \in Pickable(x) => c # None /\ AtMost(u, c))
  <2>1. CASE u = v
    <3>1. v \in Pickable(x) => c # None /\ AtMost(v, c)
      BY <1>1, <1>6, <1>7, <1>8, <1>9, <1>10 DEF better
    <3> QED BY <1>3, <1>11, <2>1, <3>1
  <2>2. CASE u # v
    <3>1. u.mode # "dangling" /\ (u \in Pickable(x) => b # None /\ AtMost(u, b))
      BY <1>2, <1>11, <2>2
    <3>2. u \in Versions
      BY DEF Of
    <3>3. b # None /\ better /\ AtMost(u, b) => AtMost(u, v)
      BY <1>1, <1>9, <3>2, AtMostChain
    <3> QED BY <1>1, <1>6, <1>7, <3>1, <3>3
  <2> QED BY <2>1, <2>2
<1>12. Judged(x, c)'
  BY <1>1, <1>11 DEF Judged
<1> QED BY <1>1, <1>6, <1>7, <1>12 DEF BestSoFar

(* Which image a versioned directory gives.                                  *)
LEMMA PickedComes ==
  ASSUME NEW t \in AtFirst, SceneOf(t), BestSoFar, pc = "versions", vnames = {},
         NEW x, x = entry, NEW b, b = best
  PROVE  /\ IsImage(x) => b # None
         /\ b # None /\ (b.mode \in {"reg", "blk"} \/ (b.mode = "dir" /\ ~EndsIn(b.suffix, ".mstack"))) =>
              /\ x \in SourceOf(b) /\ IsImage(x)
              /\ \A y \in SourceOf(b) : \A w \in Usable(y) : AtMost(w, b)
<1>1. /\ x \in EntriesOf(t) /\ x \in Listed /\ Versioned(x) /\ ~Skipped(x)
      /\ b \in Pickable(x) \cup {None} /\ b \in present \cup {None}
  BY DEF SceneOf, BestSoFar
<1>2. \A u \in Of(x) \cap present : Matches(u, x) =>
        u.mode # "dangling" /\ (u \in Pickable(x) => b # None /\ AtMost(u, b))
  BY DEF BestSoFar, Judged
<1>3. Usable(x) \subseteq Pickable(x) \cap (Of(x) \cap present)
  BY DEF Usable, Pickable
<1>4. \A u \in Usable(x) : b # None /\ AtMost(u, b)
  BY <1>2, <1>3 DEF Usable
<1>5. IsImage(x) => b # None
  BY <1>1, <1>4 DEF IsImage
<1>6. ASSUME b # None, b.mode \in {"reg", "blk"} \/ (b.mode = "dir" /\ ~EndsIn(b.suffix, ".mstack"))
      PROVE  x \in SourceOf(b) /\ IsImage(x)
  <2>1. b \in Of(x) \cap present /\ Matches(b, x) /\ b.mode \in Wanted(Basename(x).suffix)
    BY <1>1, <1>6 DEF Pickable
  <2>2. b \in Usable(x) /\ b.suffix = Basename(x).suffix
    BY <2>1 DEF Usable, Matches
  <2>3. ~Broken(x)
    BY <1>2 DEF Broken
  <2>4. ~EndsIn(Basename(x).suffix, ".mstack")
    BY <1>6, <2>1, <2>2 DEF Wanted, EndsIn
  <2>5. ~EndsIn(Cut(x.name, ".v"), ".mstack")
    BY <1>1, <2>4, SuffixIs
  <2>6. x.mode = "dir" /\ ~EndsIn(x.name, ".mstack")
    BY <1>1 DEF Versioned, EndsIn
  <2>7. x \in SourceOf(b)
    BY <1>1, <2>1 DEF SourceOf
  <2> QED BY <1>1, <2>2, <2>3, <2>5, <2>6, <2>7 DEF IsImage
<1>7. ASSUME b # None, NEW y \in SourceOf(b) PROVE y = x
  <2>1. y \in Listed /\ b \in Versions /\ b \in Of(x)
    BY <1>1, <1>7 DEF SourceOf, Pickable, Of
  <2>2. b \in Of(y)
    BY <2>1, ListedAre DEF SourceOf
  <2>3. y.dir = x.dir /\ y.name = x.name
    BY <2>1, <2>2 DEF Of
  <2> QED BY <1>1, <2>1, <2>3, ListedAre
<1> QED BY <1>4, <1>5, <1>6, <1>7

LEMMA FirstKept ==
  ASSUME NEW t \in AtFirst, SceneOf(t), FirstInv, [Next]_vars
  PROVE  FirstInv'
<1> SUFFICES ASSUME touched' = {}, pc' # "failed"
             PROVE  (AllCome /\ OneEach /\ AllLed /\ HandledBefore /\ BestSoFar)'
  BY DEF FirstInv
<1> DEFINE Firsts == AllCome /\ OneEach /\ AllLed
           Now == touched = {} /\ AllCome /\ OneEach /\ AllLed /\ HandledBefore /\ BestSoFar
<1>0. touched = {} /\ pc # "failed" => Now
  BY DEF FirstInv
<1>1. CASE OpenDirectory
  <2>1. present \subseteq AllOf(t) /\ present' = present /\ touched' = touched /\ k' = k
        /\ images' = images /\ pc = "directory" /\ pc' = "entries"
    BY <1>1 DEF SceneOf, OpenDirectory, Scan
  <2>2. Now
    BY <1>0, <2>1
  <2>3. \A x \in Listed : x.dir = k => x.name \in Range(names')
    BY <1>1, <2>1, NamesRead DEF OpenDirectory
  <2>4. \A x \in Listed : Handled(x)' <=> x.dir < k
    BY <2>1, <2>3 DEF Handled
  <2>5. \A x \in Listed : Handled(x) <=> x.dir < k
    BY <2>1 DEF Handled, Reading
  <2>6. Firsts'
    BY <2>1, <2>2, <2>4, <2>5, FirstSame
  <2>7. \A x \in Listed : Handled(x)' => x.dir # k
    <3>1. \A x \in Listed : x.dir \in Int /\ k \in Int
      BY ListedAre DEF SceneOf
    <3> QED BY <2>4, <3>1
  <2>8. HandledBefore'
    BY <2>1, <2>7 DEF HandledBefore, Listed
  <2> QED BY <2>1, <2>6, <2>8 DEF BestSoFar
<1>2. CASE NextDirectory
  <2>1. present' = present /\ touched' = touched /\ k' = k + 1 /\ images' = images
        /\ pc = "entries" /\ pc' = "directory" /\ names = <<>> /\ k \in 1 .. Dirs + 1
    BY <1>2 DEF SceneOf, NextDirectory, Scan
  <2>2. Now
    BY <1>0, <2>1
  <2>3. \A x \in Listed : x.dir \in Int
    BY ListedAre
  <2>4. \A x \in Listed : Handled(x) <=> x.dir < k \/ x.dir = k
    BY <2>1 DEF Handled, Reading, Range
  <2>5. \A x \in Listed : Handled(x)' <=> x.dir < k + 1
    BY <2>1 DEF Handled, Reading
  <2>6. \A x \in Listed : Handled(x)' <=> Handled(x)
    BY <2>1, <2>3, <2>4, <2>5
  <2>7. Firsts'
    BY <2>1, <2>2, <2>6, FirstSame
  <2> QED BY <2>1, <2>7 DEF HandledBefore, BestSoFar, Reading
<1>3. CASE Passes
  <2>1. present' = present /\ touched' = touched /\ k' = k /\ images' = images /\ pc = "entries"
        /\ pc' = "entries" /\ names # <<>> /\ names' = Tail(names) /\ \A x \in Resolved : Skipped(x)
    BY <1>3 DEF Passes, Scan
  <2>2. Now /\ pc \in Reading /\ pc' \in Reading
    BY <1>0, <2>1 DEF Reading
  <2>3. ASSUME NEW x \in Listed, IsImage(x), Handled(x)' PROVE Handled(x)
    <3>1. x \notin Resolved
      BY <2>1, <2>3 DEF IsImage
    <3>2. Handled(x) \/ (x.dir = k /\ x.name = Head(names))
      BY <2>1, <2>2, <2>3, NowHandled
    <3> QED BY <3>1, <3>2 DEF Resolved
  <2>4. \A x \in Listed : Handled(x) => Handled(x)'
    BY <2>1, <2>2, NowHandled
  <2>5. Firsts'
    BY <2>1, <2>2, <2>3, <2>4, FirstSame
  <2>6. HandledBefore'
    BY <2>1, <2>2, BeforeKept
  <2> QED BY <2>1, <2>5, <2>6 DEF BestSoFar
<1>4. CASE Takes
  <2>1. present' = present /\ touched' = touched /\ k' = k /\ pc = "entries"
        /\ pc' = "entries" /\ names # <<>> /\ names' = Tail(names)
    BY <1>4 DEF Takes, Scan
  <2>2. Now /\ pc \in Reading /\ pc' \in Reading
    BY <1>0, <2>1 DEF Reading
  <2>3. PICK x \in Resolved : /\ ~Skipped(x) /\ ~Versioned(x)
                              /\ Found(MakeImage(Basename(x).name, x.name, x.mode), x)
    BY <1>4 DEF Takes
  <2>4. x \in Listed /\ x.dir = k /\ x.name = Head(names)
    BY <2>3, ResolvedIs
  <2> DEFINE ok == x.mode \in {"reg", "blk"} \/ (x.mode = "dir" /\ ~EndsIn(x.name, ".mstack"))
  <2>5. /\ Grows(Basename(x).name, x) /\ (ok => Seen(Basename(x).name)')
        /\ images' = images \/ ok
        /\ Seen(Basename(x).name) => images' = images
    BY <2>3, TakesIs
  <2>6. ok <=> IsImage(x)
    BY <2>3 DEF IsImage, EndsIn
  <2>7. x \in SourceOf(x)
    BY <2>3, <2>4 DEF SourceOf
  <2>8. Handled(x)'
    BY <2>1, <2>2, <2>4, NowHandled
  <2>9. IsImage(x) => CameFrom(Basename(x).name, x)'
    <3>1. SourceOf(x)' = SourceOf(x) /\ (IsImage(x)' <=> IsImage(x)) /\ x \notin Versions
      BY <2>1, <2>4, SameEntries, ListedAre
    <3> QED BY <2>7, <2>8, <3>1 DEF CameFrom
  <2> HIDE DEF ok
  <2>10. Firsts'
    BY <2>1, <2>2, <2>4, <2>5, <2>6, <2>7, <2>9, FirstGrows
  <2>11. HandledBefore'
    BY <2>1, <2>2, BeforeKept
  <2> QED BY <2>1, <2>10, <2>11 DEF BestSoFar
<1>5. CASE Looks
  <2>1. present' = present /\ touched' = touched /\ k' = k /\ images' = images /\ pc = "entries"
        /\ pc' = "versions" /\ names' = names
    BY <1>5 DEF Looks, Scan
  <2>2. Now
    BY <1>0, <2>1
  <2>3. \A x \in Listed : Handled(x)' <=> Handled(x)
    BY <2>1 DEF Handled, Reading
  <2>4. Firsts'
    BY <2>1, <2>2, <2>3, FirstSame
  <2>5. HandledBefore'
    BY <2>1, <2>2, <2>3 DEF HandledBefore, Listed, Reading
  <2>6. PICK x : x \in Resolved /\ entry' = x /\ vnames' = Of(x) \cap present
    BY <1>5 DEF Looks
  <2>7. x \in Listed /\ Listed' = Listed /\ best' = None
    BY <1>5, <2>1, <2>6, SameEntries, ResolvedIs DEF Looks
  <2>8. Judged(x, None)'
    BY <2>1, <2>6 DEF Judged
  <2>9. BestSoFar'
    BY <2>1, <2>6, <2>7, <2>8 DEF BestSoFar
  <2> QED BY <2>4, <2>5, <2>9
<1>6. ASSUME NEW v \in vnames, Version(v)
      PROVE  (AllCome /\ OneEach /\ AllLed /\ HandledBefore /\ BestSoFar)'
  <2>1. present' = present /\ touched' = touched /\ k' = k /\ images' = images /\ pc = "versions"
        /\ pc' = "versions" /\ names' = names
    BY <1>6 DEF Version, Scan
  <2>2. Now
    BY <1>0, <2>1
  <2>3. \A x \in Listed : Handled(x)' <=> Handled(x)
    BY <2>1 DEF Handled, Reading
  <2>4. Firsts'
    BY <2>1, <2>2, <2>3, FirstSame
  <2>5. HandledBefore'
    BY <2>1, <2>2, <2>3 DEF HandledBefore, Listed, Reading
  <2>6. BestSoFar'
    BY <1>6, <2>2, VersionJudged
  <2> QED BY <2>4, <2>5, <2>6
<1>7. ASSUME NEW v \in vnames, VersionGone(v)
      PROVE  (AllCome /\ OneEach /\ AllLed /\ HandledBefore /\ BestSoFar)'
  <2>1. present' = present /\ touched' = touched /\ k' = k /\ images' = images /\ pc = "versions"
        /\ pc' = "entries" /\ names' = Tail(names)
    BY <1>7 DEF VersionGone, Scan, Leave
  <2>2. Now /\ pc \in Reading /\ pc' \in Reading
    BY <1>0, <2>1 DEF Reading
  <2>3. names # <<>> /\ entry \in EntriesOf(t) /\ entry.dir = k /\ entry.name = Head(names)
        /\ vnames \subseteq Of(entry)
    BY <2>1 DEF SceneOf
  <2>4. ~IsImage(entry)
    <3>1. v \in Of(entry) \cap present /\ Matches(v, entry) /\ entry \in present
      BY <1>7, <2>1, <2>2, <2>3 DEF BestSoFar, VersionGone, Listed
    <3>2. v.mode = "dangling"
      BY <1>7, <3>1 DEF VersionGone, Resolves
    <3> QED BY <2>1, <3>1, <3>2 DEF IsImage, Broken, SceneOf
  <2>5. ASSUME NEW x \in Listed, IsImage(x), Handled(x)' PROVE Handled(x)
    <3>1. Handled(x) \/ (x.dir = k /\ x.name = Head(names))
      BY <2>1, <2>2, <2>3, <2>5, NowHandled
    <3>2. x.dir = k /\ x.name = Head(names) => x = entry
      BY <2>3, ListedAre
    <3> QED BY <2>4, <2>5, <3>1, <3>2
  <2>6. \A x \in Listed : Handled(x) => Handled(x)'
    BY <2>1, <2>2, <2>3, NowHandled
  <2>7. Firsts'
    BY <2>1, <2>2, <2>5, <2>6, FirstSame
  <2>8. HandledBefore'
    BY <2>1, <2>2, <2>3, BeforeKept
  <2> QED BY <2>1, <2>7, <2>8 DEF BestSoFar
<1>8. CASE Picked
  <2> SUFFICES ASSUME NEW x, x = entry, NEW b, b = best
               PROVE  (AllCome /\ OneEach /\ AllLed /\ HandledBefore /\ BestSoFar)'
    OBVIOUS
  <2>1. present' = present /\ touched' = touched /\ k' = k /\ pc = "versions"
        /\ pc' = "entries" /\ names' = Tail(names) /\ vnames = {}
    BY <1>8 DEF Picked, Scan, Leave
  <2>2. Now /\ pc \in Reading /\ pc' \in Reading
    BY <1>0, <2>1 DEF Reading
  <2>3. names # <<>> /\ x \in Listed /\ x.dir = k /\ x.name = Head(names)
    BY <2>1, <2>2 DEF SceneOf, BestSoFar
  <2> DEFINE ok == b.mode \in {"reg", "blk"} \/ (b.mode = "dir" /\ ~EndsIn(b.suffix, ".mstack"))
  <2>4. /\ IsImage(x) => b # None
        /\ b # None /\ ok => /\ x \in SourceOf(b) /\ IsImage(x)
                             /\ \A y \in SourceOf(b) : \A w \in Usable(y) : AtMost(w, b)
    BY <2>1, <2>2, PickedComes
  <2>5. Handled(x)'
    BY <2>1, <2>2, <2>3, NowHandled
  <2>6. b # None /\ ok => CameFrom(Basename(x).name, b)'
    <3> SUFFICES ASSUME b # None, ok PROVE CameFrom(Basename(x).name, b)'
      OBVIOUS
    <3>1. SourceOf(b)' = SourceOf(b) /\ (IsImage(x)' <=> IsImage(x)) /\ \A y : Usable(y)' = Usable(y)
      BY <2>1, SameEntries
    <3> HIDE DEF ok
    <3>2. \E y \in SourceOf(b)' : IsImage(y)' /\ Basename(x).name = Basename(y).name /\ Handled(y)'
      BY <2>4, <2>5, <3>1
    <3>3. \A y \in SourceOf(b)' : \A w \in Usable(y)' : AtMost(w, b)
      BY <2>4, <3>1
    <3> QED BY <3>2, <3>3 DEF CameFrom
  <2>7. /\ Grows(Basename(x).name, b)
        /\ IsImage(x) => Seen(Basename(x).name)'
        /\ images' = images \/ (b # None /\ ok)
        /\ Seen(Basename(x).name) => images' = images
    <3>1. CASE b = None
      BY <1>8, <2>4, <3>1 DEF Picked, Grows
    <3>2. CASE b # None
      <4>1. Found(MakeImage(Basename(x).name, b.suffix, b.mode), b)
        BY <1>8, <3>2 DEF Picked
      <4> HIDE DEF ok
      <4>2. IsImage(x) => Seen(Basename(x).name)'
        BY <2>1, <3>2, <4>1, PickedFinds
      <4> QED BY <2>1, <3>2, <4>1, <4>2, PickedIs DEF ok
    <3> QED BY <3>1, <3>2
  <2> HIDE DEF ok
  <2>8. Firsts'
    BY <2>1, <2>2, <2>3, <2>4, <2>6, <2>7, FirstGrows
  <2>9. HandledBefore'
    BY <2>1, <2>2, <2>3, BeforeKept
  <2> QED BY <2>1, <2>8, <2>9 DEF BestSoFar
<1>9. CASE Return
  <2>1. present' = present /\ touched' = touched /\ k' = k /\ images' = Sorted(images)
        /\ pc = "directory" /\ pc' = "done"
    BY <1>9 DEF Return, Scan
  <2>2. Now
    BY <1>0, <2>1
  <2>3. \A x \in Listed : Handled(x)' <=> Handled(x)
    BY <2>1 DEF Handled, Reading
  <2>4. PICK p \in [DOMAIN images -> DOMAIN images] :
          /\ \A i \in DOMAIN images : images'[i] = images[p[i]]
          /\ \A i, j \in DOMAIN images : p[i] = p[j] => i = j
          /\ \A i \in DOMAIN images : \E j \in DOMAIN images : p[j] = i
    <3>1. images \in Seq(ImagesOf(t))
      BY DEF SceneOf
    <3>2. \E p \in [DOMAIN images -> DOMAIN images] :
            /\ \A i \in DOMAIN images : Sorted(images)[i] = images[p[i]]
            /\ \A i, j \in DOMAIN images : p[i] = p[j] => i = j
            /\ \A i \in DOMAIN images : \E j \in DOMAIN images : p[j] = i
      BY <3>1, SortedIs, Zenon
    <3> QED BY <2>1, <3>2, Zenon
  <2>5. DOMAIN images' = DOMAIN images
    BY <2>1, SortedIs DEF SceneOf
  <2>6. \A i \in DOMAIN images : p[i] \in DOMAIN images
    OBVIOUS
  <2>7. AllCome'
    BY <2>1, <2>2, <2>3, <2>4, <2>5, <2>6, StillLed DEF AllCome
  <2>8. OneEach'
    BY <2>2, <2>4, <2>5, <2>6 DEF OneEach
  <2>9. AllLed'
    <3> SUFFICES ASSUME NEW x \in Listed', IsImage(x)', Handled(x)'
                 PROVE  \E i \in DOMAIN images' : images'[i].name = Basename(x).name
                                                  /\ Leads(images'[i].path, x)
      BY <2>1, <2>3, StillLed DEF AllLed
    <3>1. x \in Listed /\ IsImage(x) /\ Handled(x)
      BY <2>1, <2>3, SameEntries
    <3>2. PICK i \in DOMAIN images : images[i].name = Basename(x).name /\ Leads(images[i].path, x)
      BY <2>2, <3>1 DEF AllLed
    <3> QED BY <2>4, <2>5, <3>2
  <2> QED BY <2>1, <2>7, <2>8, <2>9 DEF HandledBefore, BestSoFar, Reading
<1>10. CASE ScanFails
  BY <1>10 DEF ScanFails, Scan
<1>11. CASE Change
  <2>1. touched' # {}
    BY <1>11 DEF Change
  <2> QED BY <2>1
<1>12. CASE UNCHANGED vars
  <2>1. present' = present /\ touched' = touched
        /\ UNCHANGED <<pc, k, names, entry, vnames, best, images>>
    BY <1>12 DEF vars
  <2>2. Now
    BY <1>0, <2>1
  <2>3. \A x : Handled(x)' <=> Handled(x)
    BY <2>1 DEF Handled
  <2>4. Firsts'
    BY <2>1, <2>2, <2>3, FirstSame
  <2>5. HandledBefore'
    BY <2>1, <2>2, <2>3 DEF HandledBefore, Listed
  <2>6. BestSoFar'
    BY <2>1, <2>2 DEF BestSoFar, Judged, Listed
  <2> QED BY <2>4, <2>5, <2>6
<1> QED BY <1>1, <1>2, <1>3, <1>4, <1>5, <1>6, <1>7, <1>8, <1>9, <1>10, <1>11, <1>12 DEF Next

----------------------------------------------------------------------------
(* The order of the images.                                                  *)
LEMMA DirectoryKept ==
  ASSUME NEW t \in AtFirst, SceneOf(t), ByDirectory, NEW name, NEW path, Grows(name, path),
         k' = k, path.dir = k
  PROVE  ByDirectory'
<1>1. k \in 1 .. k /\ k \in Nat
  BY DEF SceneOf
<1>2. CASE images' = images
  BY <1>2 DEF ByDirectory
<1>3. CASE images' # images
  <2>1. PICK n \in Nat :
                 /\ DOMAIN images' = DOMAIN images \cup {n} /\ \A i \in DOMAIN images : i < n
                 /\ images'[n].path = path
                 /\ \A i \in DOMAIN images : images'[i] = images[i]
    BY <1>3 DEF Grows
  <2>2. \A i \in DOMAIN images : i \in Nat
    BY DEF SceneOf
  <2>3. \A i \in DOMAIN images' : images'[i].path.dir \in 1 .. k
    BY <1>1, <2>1 DEF ByDirectory
  <2>4. ASSUME NEW i \in DOMAIN images', NEW j \in DOMAIN images', i < j
        PROVE  images'[i].path.dir <= images'[j].path.dir
    <3>1. CASE i \in DOMAIN images /\ j \in DOMAIN images
      BY <2>1, <2>4, <3>1 DEF ByDirectory
    <3>2. CASE j = n
      <4>1. images'[i].path.dir \in 1 .. k /\ images'[j].path.dir = k
        BY <2>1, <2>3, <3>2
      <4> QED BY <1>1, <4>1
    <3>3. CASE i = n /\ j \in DOMAIN images
      <4>1. j < n /\ n < j /\ j \in Nat
        BY <2>1, <2>2, <2>4, <3>3
      <4> QED BY <4>1
    <3> QED BY <2>1, <3>1, <3>2, <3>3
  <2> QED BY <2>3, <2>4 DEF ByDirectory
<1> QED BY <1>2, <1>3

LEMMA OrderKept ==
  ASSUME NEW t \in AtFirst, SceneOf(t), OrderInv, [Next]_vars
  PROVE  OrderInv'
<1> DEFINE Scanning == pc \in Reading \cup {"directory"}
<1>1. CASE OpenDirectory \/ Passes \/ Looks \/ \E v \in vnames : Version(v) \/ VersionGone(v)
  <2>1. Scanning /\ Scanning' /\ k' = k /\ images' = images
    BY <1>1 DEF OpenDirectory, Passes, Looks, Version, VersionGone, Scan, Reading
  <2> QED BY <2>1 DEF OrderInv, ByDirectory, Reading
<1>2. CASE NextDirectory
  <2>1. Scanning /\ Scanning' /\ k' = k + 1 /\ images' = images /\ k \in Nat
    BY <1>2 DEF NextDirectory, Scan, Reading, SceneOf
  <2>2. \A d \in 1 .. k : d \in 1 .. k + 1
    BY <2>1
  <2> QED BY <2>1, <2>2 DEF OrderInv, ByDirectory, Reading
<1>3. CASE Takes
  <2>1. Scanning /\ Scanning' /\ k' = k
    BY <1>3 DEF Takes, Scan, Reading
  <2>2. PICK x \in Resolved : Found(MakeImage(Basename(x).name, x.name, x.mode), x)
    BY <1>3 DEF Takes
  <2>3. x.dir = k /\ Grows(Basename(x).name, x)
    BY <2>2, ResolvedIs, TakesIs
  <2>4. ByDirectory'
    BY <2>1, <2>3, DirectoryKept DEF OrderInv
  <2> QED BY <2>1, <2>4 DEF OrderInv, Reading
<1>4. CASE Picked
  <2> SUFFICES ASSUME NEW x, x = entry, NEW b, b = best PROVE OrderInv'
    OBVIOUS
  <2>1. Scanning /\ Scanning' /\ k' = k /\ pc = "versions"
    BY <1>4 DEF Picked, Scan, Reading
  <2>2. CASE b = None
    <3>1. images' = images
      BY <1>4, <2>2 DEF Picked
    <3> QED BY <2>1, <3>1 DEF OrderInv, ByDirectory, Reading
  <2>3. CASE b # None
    <3>1. Found(MakeImage(Basename(x).name, b.suffix, b.mode), b)
      BY <1>4, <2>3 DEF Picked
    <3>2. Grows(Basename(x).name, b)
      BY <2>1, <2>3, <3>1, PickedIs
    <3>3. b.dir = k
      BY <2>1, <2>3 DEF SceneOf, Pickable, Of
    <3>4. ByDirectory'
      BY <2>1, <3>2, <3>3, DirectoryKept DEF OrderInv
    <3> QED BY <2>1, <3>4 DEF OrderInv, Reading
  <2> QED BY <2>2, <2>3
<1>5. CASE Return
  <2>1. pc = "directory" /\ pc' = "done" /\ images' = Sorted(images)
    BY <1>5 DEF Return, Scan
  <2>2. images \in Seq(ImagesOf(t))
    BY DEF SceneOf
  <2> DEFINE c(i, j) == CompareVersions(Text(images[i].name), Text(images[j].name))
  <2>3. /\ DOMAIN Sorted(images) = DOMAIN images
        /\ \E p \in [DOMAIN images -> DOMAIN images] :
             /\ \A i \in DOMAIN images : Sorted(images)[i] = images[p[i]]
             /\ \A i, j \in DOMAIN images : i < j =>
                  c(p[i], p[j]) < 0 \/ (c(p[i], p[j]) = 0 /\ p[i] < p[j])
    BY <2>2, SortedIs, Zenon
  <2>4. PICK p \in [DOMAIN images -> DOMAIN images] :
             /\ \A i \in DOMAIN images : Sorted(images)[i] = images[p[i]]
             /\ \A i, j \in DOMAIN images : i < j =>
                  c(p[i], p[j]) < 0 \/ (c(p[i], p[j]) = 0 /\ p[i] < p[j])
    BY <2>3, Zenon
  <2>5. ByName'
    <3> SUFFICES ASSUME NEW i \in DOMAIN images, NEW j \in DOMAIN images, i < j
                 PROVE  LET d == CompareVersions(Text(images'[i].name), Text(images'[j].name))
                        IN  d < 0 \/ (d = 0 /\ images'[i].path.dir <= images'[j].path.dir)
      BY <2>1, <2>3 DEF ByName
    <3>1. images'[i] = images[p[i]] /\ images'[j] = images[p[j]]
          /\ p[i] \in DOMAIN images /\ p[j] \in DOMAIN images
      BY <2>1, <2>4
    <3>2. c(p[i], p[j]) < 0 \/ (c(p[i], p[j]) = 0 /\ p[i] < p[j])
      BY <2>4
    <3>3. p[i] < p[j] => images[p[i]].path.dir <= images[p[j]].path.dir
      BY <2>1, <3>1 DEF OrderInv, ByDirectory
    <3> QED BY <3>1, <3>2, <3>3
  <2> QED BY <2>1, <2>5 DEF OrderInv, Reading
<1>6. CASE ScanFails
  BY <1>6 DEF ScanFails, Scan, OrderInv, Reading
<1>7. CASE Change
  BY <1>7 DEF Change, OrderInv, ByDirectory, Reading
<1>8. CASE UNCHANGED vars
  BY <1>8 DEF vars, OrderInv, ByDirectory, ByName, Reading
<1> QED BY <1>1, <1>2, <1>3, <1>4, <1>5, <1>6, <1>7, <1>8 DEF Next

(* The invariant.                                                            *)
LEMMA AtFirstIInv ==
  ASSUME Init
  PROVE  IInv
<1>1. PICK t \in AtFirst : present = t.present /\ changes = t.changes
  BY DEF Init
<1>2. /\ pc = "directory" /\ k = 1 /\ images = <<>> /\ touched = {}
  BY DEF Init
<1>3. SceneOf(t)
  <2>1. present \subseteq AllOf(t)
    BY <1>1 DEF AllOf
  <2>2. changes \in 0 .. t.changes /\ k \in 1 .. Dirs + 1
    BY <1>1, <1>2, DiscoverAssumption
  <2> QED BY <1>2, <2>1, <2>2 DEF SceneOf, Reading
<1>4. \A x \in Listed : ~Handled(x)
  <2>1. \A x \in Listed : x.dir \in 1 .. Dirs
    BY <1>3, ListedAre
  <2>2. \A x \in Listed : ~(x.dir < 1)
    BY <2>1
  <2> QED BY <1>2, <2>2 DEF Handled, Reading
<1>5. StableInv
  BY <1>2, <1>4 DEF StableInv
<1>6. FirstInv
  <2>1. DOMAIN images = {}
    BY <1>2
  <2> QED BY <1>2, <1>4, <2>1 DEF FirstInv, AllCome, OneEach, AllLed, HandledBefore, BestSoFar, Reading
<1>7. OrderInv
  <2>1. DOMAIN images = {}
    BY <1>2
  <2> QED BY <1>2, <2>1 DEF OrderInv, ByDirectory
<1> QED BY <1>3, <1>5, <1>6, <1>7 DEF IInv, Scene

LEMMA Invariant == Spec => []IInv
<1>1. Init => IInv
  BY AtFirstIInv
<1>2. IInv /\ [Next]_vars => IInv'
  <2> SUFFICES ASSUME IInv, [Next]_vars PROVE IInv'
    OBVIOUS
  <2>1. PICK t \in AtFirst : SceneOf(t)
    BY DEF IInv, Scene
  <2>2. SceneOf(t)'
    BY <2>1, SceneKept
  <2>3. StableInv' /\ FirstInv' /\ OrderInv'
    BY <2>1, StableKept, FirstKept, OrderKept DEF IInv
  <2> QED BY <2>2, <2>3 DEF IInv, Scene
<1> QED BY <1>1, <1>2, PTL DEF Spec

(* When the scan is over every entry has been handled.                       *)
LEMMA AllHandled ==
  ASSUME IInv, pc = "done"
  PROVE  \A x \in Listed : Handled(x)
<1>1. PICK t \in AtFirst : SceneOf(t)
  BY DEF IInv, Scene
<1>2. k = Dirs + 1 /\ Dirs \in Nat /\ \A x \in Listed : x.dir \in 1 .. Dirs
  BY <1>1, ListedAre, DiscoverAssumption DEF SceneOf
<1>3. \A x \in Listed : x.dir < k
  BY <1>2
<1> QED BY <1>3 DEF Handled

(* An image nobody touches is found, or another one of its name is, whatever *)
(* other programs add and remove during the scan (discover.go:168-227).      *)
THEOREM StableFound == Spec => []StableIsFound
<1>1. IInv => StableIsFound
  BY AllHandled DEF IInv, StableInv, StableIsFound
<1> QED BY <1>1, Invariant, PTL

(* If nothing changes, what is found is the first entry of each name, by     *)
(* search directory and then by file name, and nothing else (SPEC.md:52).    *)
THEOREM FirstFound == Spec => []FirstIsFound
<1>1. IInv => FirstIsFound
  <2> SUFFICES ASSUME IInv, pc = "done", touched = {}
               PROVE  /\ \A i \in DOMAIN images : \E x \in Source(i) : IsImage(x)
                      /\ \A i, j \in DOMAIN images : i # j => images[i].name # images[j].name
                      /\ \A x \in Listed : IsImage(x) =>
                           \E i \in DOMAIN images : /\ images[i].name = Basename(x).name
                                                   /\ \E y \in Source(i) : y = x \/ Before(y, x)
    BY DEF FirstIsFound
  <2>1. AllCome /\ OneEach /\ AllLed
    BY DEF IInv, FirstInv
  <2>2. \A i : Source(i) = SourceOf(images[i].path)
    BY DEF Source, SourceOf
  <2>3. \A i \in DOMAIN images : \E x \in Source(i) : IsImage(x)
    BY <2>1, <2>2 DEF AllCome, CameFrom
  <2>4. \A x \in Listed : IsImage(x) =>
          \E i \in DOMAIN images : /\ images[i].name = Basename(x).name
                                  /\ \E y \in Source(i) : y = x \/ Before(y, x)
    BY <2>1, <2>2, AllHandled DEF AllLed, Leads
  <2> QED BY <2>1, <2>3, <2>4 DEF OneEach
<1> QED BY <1>1, Invariant, PTL

(* The version picked has tries left if any usable one has, and none of      *)
(* those is newer (SPEC.md:47-48, vpick.go:148-176).                         *)
THEOREM NewestPicked == Spec => []NewestIsPicked
<1>1. IInv => NewestIsPicked
  <2> SUFFICES ASSUME IInv, pc = "done", touched = {}, NEW i \in DOMAIN images,
                      images[i].path \in Versions, NEW x \in Source(i), NEW w \in Usable(x)
               PROVE  LET p == Parse(images[i].path.e)  q == Parse(w.e)
                      IN /\ q.left > 0 => p.left > 0
                         /\ (q.left > 0) = (p.left > 0) => CompareVersions(q.version, p.version) <= 0
    BY DEF NewestIsPicked
  <2> DEFINE b == images[i].path
  <2>1. x \in SourceOf(b)
    BY DEF Source, SourceOf
  <2>2. AtMost(w, b)
    BY <2>1 DEF IInv, FirstInv, AllCome, CameFrom
  <2>3. w \in Versions
    BY DEF Usable, Of
  <2>4. IsText(w.e) /\ IsText(b.e)
    BY <2>3, DiscoverAssumption DEF IsText
  <2>5. Parse(w.e).left \in Nat /\ Parse(b.e).left \in Nat
    BY <2>4, ParseIs
  <2>6. (Parse(w.e).left # 0 <=> Parse(w.e).left > 0) /\ (Parse(b.e).left # 0 <=> Parse(b.e).left > 0)
    BY <2>5
  <2> QED BY <2>2, <2>6 DEF AtMost
<1> QED BY <1>1, Invariant, PTL

(* The images come in the order of their names as versions, which is that of *)
(* the keys of these names, and those of the same version in the order of    *)
(* the search directories (discover.go:355-361).                             *)
THEOREM ImagesAlwaysSorted == Spec => []ImagesSorted
<1>1. IInv => ImagesSorted
  <2> SUFFICES ASSUME IInv, pc = "done", NEW i \in DOMAIN images, NEW j \in DOMAIN images, i < j
               PROVE  \E x \in {Key(Text(images[i].name))}, y \in {Key(Text(images[j].name))} :
                        \/ Lexicographic(x, y) < 0
                        \/ x = y /\ images[i].path.dir <= images[j].path.dir
    BY DEF ImagesSorted
  <2> DEFINE a == Text(images[i].name)
             b == Text(images[j].name)
             c == CompareVersions(a, b)
  <2>1. PICK t \in AtFirst : SceneOf(t)
    BY DEF IInv, Scene
  <2>2. images[i] \in ImagesOf(t) /\ images[j] \in ImagesOf(t)
    BY <2>1 DEF SceneOf
  <2>3. \A x \in EntriesOf(t) : IsText(Text(Basename(x).name))
    BY DiscoverAssumption DEF IsText
  <2>4. IsText(a) /\ IsText(b)
    BY <2>2, <2>3 DEF ImagesOf
  <2>5. c < 0 \/ (c = 0 /\ images[i].path.dir <= images[j].path.dir)
    BY DEF IInv, OrderInv, ByName
  <2> HIDE DEF a, b
  <2>6. Lexicographic(Key(a), Key(b)) = c
    BY <2>4, KeysCompare, Zenon
  <2>7. c = 0 => Key(a) = Key(b)
    BY <2>4, SameKeys, Zenon
  <2> HIDE DEF c
  <2>8. \/ Lexicographic(Key(a), Key(b)) < 0
        \/ Key(a) = Key(b) /\ images[i].path.dir <= images[j].path.dir
    BY <2>5, <2>6, <2>7
  <2> QED BY <2>8 DEF a, b
<1> QED BY <1>1, Invariant, PTL
=============================================================================
