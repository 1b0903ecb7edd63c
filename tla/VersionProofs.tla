--------------------------- MODULE VersionProofs ---------------------------
(***************************************************************************)
(* Proofs about VersionCompare: comparing two strings in parallel, with    *)
(* what is compared of one depending on what the other has, is a total     *)
(* preorder of all strings.                                                *)
(*                                                                         *)
(* Comparisons give -1, 0 or 1.  Transitive says of the comparisons of x   *)
(* with y, y with z and x with z what an order asks of them; Chained is    *)
(* how that of comparisons made one after the other follows.               *)
(*                                                                         *)
(* The second part shows that it is the order of keys, Key being written   *)
(* from one string alone: Body and Lead are the parts of a key, Grown what *)
(* it is from a place on, and IsKeyOf the function of Key.  A comparison   *)
(* of keys is taken apart where the two sides of a \o do not tell them     *)
(* apart (BeginFirst), so that one turn of CompareVersions and one part of *)
(* the keys say the same (GrownFirst).                                     *)
(***************************************************************************)
EXTENDS VersionCompare, SequenceTheorems, WellFoundedInduction, TLAPS

Results == {-1, 0, 1}

Transitive(p, q, r) == p <= 0 /\ q <= 0 => r <= 0 /\ (r = 0 <=> p = 0 /\ q = 0)

Then(p, q) == IF p # 0 THEN p ELSE q

----------------------------------------------------------------------------
(* Every set of numbers has a least one.                                     *)
LEMMA Least ==
  ASSUME NEW T, T \subseteq Nat, T # {}
  PROVE  \E n \in T : \A m \in T : n <= m
<1> DEFINE R == {ss \in Nat \X Nat : ss[1] < ss[2]}
<1>1. IsWellFoundedOn(R, Nat)
  BY NatLessThanWellFounded DEF OpToRel
<1>2. PICK n \in T : \A m \in T : ~(<<m, n>> \in R)
  <2> HIDE DEF R
  <2> QED BY <1>1, WFMin
<1>3. ASSUME NEW m \in T
      PROVE  n <= m
  <2>1. m \in Nat /\ n \in Nat
    OBVIOUS
  <2>2. <<m, n>> \in R <=> m < n
    <3>1. <<m, n>> \in Nat \X Nat
      BY <2>1
    <3> QED BY <3>1
  <2> HIDE DEF R
  <2>3. ~(m < n)
    BY <1>2, <2>2
  <2> QED BY <2>1, <2>3
<1> QED BY <1>3

(* Comparisons made one after the other.                                     *)
LEMMA Chained ==
  ASSUME NEW p1 \in Results, NEW q1 \in Results, NEW r1 \in Results, NEW p2, NEW q2, NEW r2,
         p1 = 0 => p2 \in Results, q1 = 0 => q2 \in Results, r1 = 0 => r2 \in Results,
         Transitive(p1, q1, r1),
         p1 = 0 /\ q1 = 0 /\ r1 = 0 => Transitive(p2, q2, r2)
  PROVE  Transitive(Then(p1, p2), Then(q1, q2), Then(r1, r2))
BY DEF Results, Transitive, Then

LEMMA ThenTypes ==
  ASSUME NEW p \in Results, NEW q, p = 0 => q \in Results
  PROVE  /\ Then(p, q) \in Results
         /\ Then(p, q) = 0 <=> p = 0 /\ q = 0
BY DEF Results, Then

LEMMA Reversed ==
  ASSUME NEW p \in Results, NEW q, p = 0 => q \in Results, NEW s, NEW t,
         s = -p, p = 0 => t = -q
  PROVE  Then(s, t) = -Then(p, q)
BY DEF Results, Then

LEMMA BoolOrder ==
  ASSUME NEW x \in BOOLEAN, NEW y \in BOOLEAN, NEW z \in BOOLEAN
  PROVE  /\ CmpBool(x, y) \in Results /\ CmpBool(y, x) = -CmpBool(x, y)
         /\ CmpBool(x, y) = 0 <=> (x <=> y)
         /\ Transitive(CmpBool(x, y), CmpBool(y, z), CmpBool(x, z))
BY DEF CmpBool, Results, Transitive

LEMMA SignOrder ==
  ASSUME NEW x \in Int, NEW y \in Int, NEW z \in Int
  PROVE  /\ Sign(x - y) \in Results /\ Sign(y - x) = -Sign(x - y)
         /\ Sign(x - y) = 0 <=> x = y
         /\ Transitive(Sign(x - y), Sign(y - z), Sign(x - z))
BY DEF Sign, Results, Transitive

LeastOf(T) == CHOOSE k \in T : \A l \in T : k <= l

LEMMA LeastOfIs ==
  ASSUME NEW T, T \subseteq Nat, NEW n \in T, \A m \in T : n <= m
  PROVE  LeastOf(T) = n
<1>1. LeastOf(T) \in T /\ \A l \in T : LeastOf(T) <= l
  BY DEF LeastOf
<1>2. LeastOf(T) \in Nat /\ n \in Nat /\ LeastOf(T) <= n /\ n <= LeastOf(T)
  BY <1>1
<1> QED BY <1>2

(* Decide of three and of four comparisons.                                  *)
LEMMA DecideThree ==
  ASSUME NEW p \in Results, NEW q \in Results, NEW r \in Results
  PROVE  Decide(<<p, q, r>>) = Then(p, Then(q, r))
<1> DEFINE R == <<p, q, r>>
           T == {k \in DOMAIN R : R[k] # 0}
<1>1. DOMAIN R = 1 .. 3 /\ R[1] = p /\ R[2] = q /\ R[3] = r
  OBVIOUS
<1>2. Decide(R) = IF T = {} THEN 0 ELSE R[LeastOf(T)]
  BY DEF Decide, LeastOf
<1>3. T \subseteq 1 .. 3 /\ T \subseteq Nat
  BY <1>1
<1>4. /\ 1 \in T <=> p # 0
      /\ 2 \in T <=> q # 0
      /\ 3 \in T <=> r # 0
  BY <1>1
<1> HIDE DEF T, R
<1>5. Decide(R) = Then(p, Then(q, r))
  <2>1. CASE p # 0
    <3>1. \A m \in T : 1 <= m
      BY <1>3
    <3> QED BY <1>1, <1>2, LeastOfIs, <1>3, <1>4, <2>1, <3>1 DEF Then
  <2>2. CASE p = 0 /\ q # 0
    <3>1. \A m \in T : 2 <= m
      BY <1>3, <1>4, <2>2
    <3> QED BY <1>1, <1>2, LeastOfIs, <1>3, <1>4, <2>2, <3>1 DEF Then
  <2>3. CASE p = 0 /\ q = 0 /\ r # 0
    <3>1. \A m \in T : 3 <= m
      BY <1>3, <1>4, <2>3
    <3> QED BY <1>1, <1>2, LeastOfIs, <1>3, <1>4, <2>3, <3>1 DEF Then
  <2>4. CASE p = 0 /\ q = 0 /\ r = 0
    <3>1. T = {}
      BY <1>3, <1>4, <2>4
    <3> QED BY <1>2, <2>4, <3>1 DEF Then
  <2> QED BY <2>1, <2>2, <2>3, <2>4
<1> QED BY <1>5 DEF R

LEMMA DecideFour ==
  ASSUME NEW p \in Results, NEW q \in Results, NEW r \in Results, NEW s \in Results
  PROVE  Decide(<<p, q, r, s>>) = Then(p, Then(q, Then(r, s)))
<1> DEFINE R == <<p, q, r, s>>
           T == {k \in DOMAIN R : R[k] # 0}
<1>1. DOMAIN R = 1 .. 4 /\ R[1] = p /\ R[2] = q /\ R[3] = r /\ R[4] = s
  OBVIOUS
<1>2. Decide(R) = IF T = {} THEN 0 ELSE R[LeastOf(T)]
  BY DEF Decide, LeastOf
<1>3. T \subseteq 1 .. 4 /\ T \subseteq Nat
  BY <1>1
<1>4. /\ 1 \in T <=> p # 0
      /\ 2 \in T <=> q # 0
      /\ 3 \in T <=> r # 0
      /\ 4 \in T <=> s # 0
  BY <1>1
<1> HIDE DEF T, R
<1>5. Decide(R) = Then(p, Then(q, Then(r, s)))
  <2>1. CASE p # 0
    <3>1. \A m \in T : 1 <= m
      BY <1>3
    <3> QED BY <1>1, <1>2, LeastOfIs, <1>3, <1>4, <2>1, <3>1 DEF Then
  <2>2. CASE p = 0 /\ q # 0
    <3>1. \A m \in T : 2 <= m
      BY <1>3, <1>4, <2>2
    <3> QED BY <1>1, <1>2, LeastOfIs, <1>3, <1>4, <2>2, <3>1 DEF Then
  <2>3. CASE p = 0 /\ q = 0 /\ r # 0
    <3>1. \A m \in T : 3 <= m
      BY <1>3, <1>4, <2>3
    <3> QED BY <1>1, <1>2, LeastOfIs, <1>3, <1>4, <2>3, <3>1 DEF Then
  <2>4. CASE p = 0 /\ q = 0 /\ r = 0 /\ s # 0
    <3>1. \A m \in T : 4 <= m
      BY <1>3, <1>4, <2>4
    <3> QED BY <1>1, <1>2, LeastOfIs, <1>3, <1>4, <2>4, <3>1 DEF Then
  <2>5. CASE p = 0 /\ q = 0 /\ r = 0 /\ s = 0
    <3>1. T = {}
      BY <1>3, <1>4, <2>5
    <3> QED BY <1>2, <2>5, <3>1 DEF Then
  <2> QED BY <2>1, <2>2, <2>3, <2>4, <2>5
<1> QED BY <1>5 DEF R

----------------------------------------------------------------------------
(* Sequences of integers: x comes before y at k.                             *)
Below(x, y, k) ==
  /\ k \in 1 .. Len(y)
  /\ \A l \in 1 .. k - 1 : l <= Len(x) /\ x[l] = y[l]
  /\ k > Len(x) \/ x[k] < y[k]

LEMMA LexicographicIs ==
  ASSUME NEW x \in Seq(Int), NEW y \in Seq(Int)
  PROVE  \/ x = y /\ Lexicographic(x, y) = 0
         \/ Lexicographic(x, y) = -1 /\ \E k \in Nat : Below(x, y, k)
         \/ Lexicographic(x, y) = 1 /\ \E k \in Nat : Below(y, x, k)
<1> DEFINE A == {k \in DOMAIN x \cap DOMAIN y : x[k] # y[k]}
<1>1. /\ DOMAIN x = 1 .. Len(x) /\ DOMAIN y = 1 .. Len(y) /\ Len(x) \in Nat /\ Len(y) \in Nat
      /\ \A k \in 1 .. Len(x) : x[k] \in Int
      /\ \A k \in 1 .. Len(y) : y[k] \in Int
  OBVIOUS
<1>2. Lexicographic(x, y) = IF A = {} THEN Sign(Len(x) - Len(y))
                            ELSE LET k == CHOOSE k \in A : \A l \in A : k <= l IN Sign(x[k] - y[k])
  BY DEF Lexicographic
<1>3. CASE A = {}
  <2>1. \A k \in 1 .. Len(x) : k <= Len(y) => x[k] = y[k]
    BY <1>1, <1>3
  <2>2. CASE Len(x) = Len(y)
    <3>1. x = y
      BY <1>1, <2>1, <2>2, SeqEqual
    <3> QED BY <1>1, <1>2, <1>3, <2>2, <3>1 DEF Sign
  <2>3. CASE Len(x) < Len(y)
    <3>1. Below(x, y, Len(x) + 1)
      BY <1>1, <2>1, <2>3 DEF Below
    <3> QED BY <1>1, <1>2, <1>3, <2>3, <3>1 DEF Sign
  <2>4. CASE Len(x) > Len(y)
    <3>1. Below(y, x, Len(y) + 1)
      BY <1>1, <2>1, <2>4 DEF Below
    <3> QED BY <1>1, <1>2, <1>3, <2>4, <3>1 DEF Sign
  <2>5. Len(x) = Len(y) \/ Len(x) < Len(y) \/ Len(x) > Len(y)
    <3>1. \A m, n \in Nat : m = n \/ m < n \/ m > n
      OBVIOUS
    <3> QED BY <1>1, <3>1
  <2> QED BY <2>2, <2>3, <2>4, <2>5
<1>4. CASE A # {}
  <2> DEFINE k == CHOOSE k \in A : \A l \in A : k <= l
  <2>1. A \subseteq Nat
    BY <1>1
  <2>2. k \in A /\ \A l \in A : k <= l
    <3> HIDE DEF A
    <3> QED BY <1>4, <2>1, Least
  <2>3. Lexicographic(x, y) = Sign(x[k] - y[k])
    BY <1>2, <1>4
  <2>4. k \in 1 .. Len(x) /\ k \in 1 .. Len(y) /\ x[k] # y[k]
    BY <1>1, <2>2
  <2>5. \A l \in 1 .. k - 1 : l <= Len(x) /\ l <= Len(y) /\ x[l] = y[l]
    <3> SUFFICES ASSUME NEW l \in 1 .. k - 1
                 PROVE  l <= Len(x) /\ l <= Len(y) /\ x[l] = y[l]
      OBVIOUS
    <3>1. l \in 1 .. Len(x) /\ l \in 1 .. Len(y) /\ ~(k <= l)
      BY <1>1, <2>4
    <3>2. l \notin A
      BY <2>2, <3>1
    <3> QED BY <1>1, <3>1, <3>2
  <2> HIDE DEF k, A
  <2>a. x[k] \in Int /\ y[k] \in Int /\ k \in Nat
    BY <1>1, <2>4
  <2>6. CASE x[k] < y[k]
    <3>1. Below(x, y, k)
      BY <2>4, <2>5, <2>6 DEF Below
    <3>2. Sign(x[k] - y[k]) = -1
      BY <2>a, <2>6 DEF Sign
    <3> QED BY <2>3, <2>a, <3>1, <3>2
  <2>7. CASE x[k] > y[k]
    <3>1. Below(y, x, k)
      BY <2>4, <2>5, <2>7, <2>a DEF Below
    <3>2. Sign(x[k] - y[k]) = 1
      BY <2>a, <2>7 DEF Sign
    <3> QED BY <2>3, <2>a, <3>1, <3>2
  <2>8. x[k] < y[k] \/ x[k] > y[k]
    BY <2>4, <2>a
  <2> QED BY <2>6, <2>7, <2>8
<1> QED BY <1>3, <1>4

LEMMA NotBothBelow ==
  ASSUME NEW x \in Seq(Int), NEW y \in Seq(Int), NEW k \in Nat, NEW m \in Nat,
         Below(x, y, k), Below(y, x, m)
  PROVE  FALSE
<1>1. /\ Len(x) \in Nat /\ Len(y) \in Nat
      /\ \A l \in 1 .. Len(x) : x[l] \in Int
      /\ \A l \in 1 .. Len(y) : y[l] \in Int
  OBVIOUS
<1>2. k \in 1 .. Len(y) /\ m \in 1 .. Len(x)
  BY DEF Below
<1>3. CASE k < m
  <2>1. k <= Len(x) /\ x[k] < y[k] /\ y[k] = x[k]
    BY <1>1, <1>2, <1>3 DEF Below
  <2> QED BY <1>1, <1>2, <2>1
<1>4. CASE m < k
  <2>1. m <= Len(y) /\ y[m] < x[m] /\ x[m] = y[m]
    BY <1>1, <1>2, <1>4 DEF Below
  <2> QED BY <1>1, <1>2, <2>1
<1>5. CASE m = k
  <2>1. x[k] < y[k] /\ y[k] < x[k]
    BY <1>1, <1>2, <1>5 DEF Below
  <2> QED BY <1>1, <1>2, <1>5, <2>1
<1> QED BY <1>1, <1>2, <1>3, <1>4, <1>5

LEMMA NotBelowSelf ==
  ASSUME NEW x \in Seq(Int), NEW k \in Nat
  PROVE  ~Below(x, x, k)
BY DEF Below

LEMMA BelowBelow ==
  ASSUME NEW x \in Seq(Int), NEW y \in Seq(Int), NEW z \in Seq(Int),
         NEW k \in Nat, NEW m \in Nat, Below(x, y, k), Below(y, z, m)
  PROVE  \E n \in Nat : Below(x, z, n)
<1>1. /\ Len(x) \in Nat /\ Len(y) \in Nat /\ Len(z) \in Nat
      /\ k \in 1 .. Len(y) /\ m \in 1 .. Len(z)
  BY DEF Below
<1>2. CASE k < m
  <2>1. Below(x, z, k)
    BY <1>1, <1>2 DEF Below
  <2> QED BY <2>1
<1>3. CASE m < k
  <2>1. Below(x, z, m)
    BY <1>1, <1>3 DEF Below
  <2> QED BY <2>1
<1>4. CASE m = k
  <2>1. Below(x, z, k)
    BY <1>1, <1>4 DEF Below
  <2> QED BY <2>1
<1> QED BY <1>2, <1>3, <1>4

LEMMA LexicographicOrder ==
  ASSUME NEW x \in Seq(Int), NEW y \in Seq(Int), NEW z \in Seq(Int)
  PROVE  /\ Lexicographic(x, y) \in Results /\ Lexicographic(y, x) = -Lexicographic(x, y)
         /\ Transitive(Lexicographic(x, y), Lexicographic(y, z), Lexicographic(x, z))
<1>1. Lexicographic(x, y) \in Results /\ Lexicographic(y, z) \in Results
      /\ Lexicographic(x, z) \in Results
  BY LexicographicIs DEF Results
<1>2. Lexicographic(y, x) = -Lexicographic(x, y)
  BY LexicographicIs, NotBothBelow, NotBelowSelf
<1>3. ASSUME Lexicographic(x, y) <= 0, Lexicographic(y, z) <= 0
      PROVE  Lexicographic(x, z) <= 0
             /\ (Lexicographic(x, z) = 0 <=> Lexicographic(x, y) = 0 /\ Lexicographic(y, z) = 0)
  <2>1. CASE x = y
    BY <1>3, <2>1, LexicographicIs, NotBelowSelf
  <2>2. CASE y = z
    BY <1>3, <2>2, LexicographicIs, NotBelowSelf
  <2>3. CASE x # y /\ y # z
    <3>1. (\E k \in Nat : Below(x, y, k)) /\ (\E m \in Nat : Below(y, z, m))
          /\ Lexicographic(x, y) = -1 /\ Lexicographic(y, z) = -1
      BY <1>3, <2>3, LexicographicIs
    <3>2. \E n \in Nat : Below(x, z, n)
      BY <3>1, BelowBelow
    <3>3. Lexicographic(x, z) = -1
      BY <3>2, LexicographicIs, NotBothBelow, NotBelowSelf
    <3> QED BY <3>1, <3>3
  <2> QED BY <2>1, <2>2, <2>3
<1> QED BY <1>1, <1>2, <1>3 DEF Transitive

----------------------------------------------------------------------------
(* Strings, whatever characters they have: a character is a one-letter string. *)
IsText(s) == s \in Seq(STRING)

LEMMA TextFacts ==
  ASSUME NEW s, IsText(s)
  PROVE  Len(s) \in Nat /\ DOMAIN s = 1 .. Len(s)
BY DEF IsText

Place(s, i) == i \in 1 .. Len(s) + 1

LEMMA PlaceIs == ASSUME NEW s, IsText(s), NEW i, Place(s, i) PROVE i \in Nat
BY TextFacts DEF Place

LEMMA PastIs ==
  ASSUME NEW s, IsText(s), NEW i, Place(s, i), NEW chars
  PROVE  /\ Past(s, i, chars) \in i .. Len(s) + 1 /\ Place(s, Past(s, i, chars))
         /\ \A l \in i .. Past(s, i, chars) - 1 : s[l] \in chars
         /\ ~IsIn(s, Past(s, i, chars), chars)
         /\ IsIn(s, i, chars) => Past(s, i, chars) > i
         /\ ~IsIn(s, i, chars) => Past(s, i, chars) = i
<1> DEFINE A == {k \in i .. Len(s) + 1 : ~IsIn(s, k, chars)}
<1>1. Len(s) \in Nat /\ i \in 1 .. Len(s) + 1
  BY TextFacts DEF Place
<1>2. PICK n \in A : \A m \in A : n <= m
  <2>1. A \subseteq Nat
    BY <1>1
  <2>2. Len(s) + 1 \in A
    BY <1>1 DEF IsIn, Ended
  <2> HIDE DEF A
  <2> QED BY <2>1, <2>2, Least
<1>3. n \in i .. Len(s) + 1 /\ ~IsIn(s, n, chars)
  BY <1>2
<1>4. ASSUME NEW l \in i .. n - 1
      PROVE  s[l] \in chars
  <2>1. l \in i .. Len(s) + 1 /\ ~(n <= l)
    BY <1>1, <1>3
  <2>2. IsIn(s, l, chars)
    BY <1>2, <2>1
  <2> QED BY <2>2 DEF IsIn
<1> DEFINE p == Past(s, i, chars)
<1>5. /\ p \in i .. Len(s) + 1
      /\ \A l \in i .. p - 1 : s[l] \in chars
      /\ ~IsIn(s, p, chars)
  BY <1>3, <1>4 DEF Past
<1> HIDE DEF p
<1>6. IsIn(s, i, chars) => p > i
  BY <1>1, <1>5
<1>7. ~IsIn(s, i, chars) => p = i
  <2> SUFFICES ASSUME ~IsIn(s, i, chars), p # i PROVE FALSE
    OBVIOUS
  <2>1. i \in i .. p - 1
    BY <1>1, <1>5
  <2>2. ~Ended(s, i)
    BY <1>1, <1>5 DEF Ended
  <2> QED BY <1>5, <2>1, <2>2 DEF IsIn
<1> QED BY <1>1, <1>5, <1>6, <1>7 DEF p, Place

(* Letters and digits have codes.                                            *)
LEMMA CodeIs ==
  /\ \A c \in DOMAIN Code : Code[c] \in Int
  /\ Digits \subseteq DOMAIN Code /\ Letters \subseteq DOMAIN Code
<1> DEFINE S == {Ascii[k] : k \in DOMAIN Ascii}
<1>1. DOMAIN Ascii = 1 .. 33
  BY DEF Ascii
<1>2. DOMAIN Code = S /\ \A c \in S : Code[c] = CHOOSE k \in DOMAIN Ascii : Ascii[k] = c
  BY DEF Code
<1>3. ASSUME NEW c \in S
      PROVE  Code[c] \in Int
  <2>1. Code[c] \in DOMAIN Ascii
    BY <1>2
  <2> QED BY <1>1, <2>1
<1>4. /\ Ascii[4] = "0" /\ Ascii[5] = "1" /\ Ascii[6] = "2" /\ Ascii[7] = "3" /\ Ascii[8] = "4"
      /\ Ascii[9] = "8" /\ Ascii[10] = "9" /\ Ascii[11] = "A"
  BY DEF Ascii
<1>5. Digits \subseteq S /\ "A" \in S
  BY <1>1, <1>4 DEF Digits
<1> HIDE DEF S
<1> QED BY <1>2, <1>3, <1>5 DEF Letters

LEMMA CodesIs ==
  ASSUME NEW w \in Seq(DOMAIN Code)
  PROVE  Codes(w) \in Seq(Int)
<1>1. Len(w) \in Nat /\ DOMAIN w = 1 .. Len(w) /\ \A k \in 1 .. Len(w) : w[k] \in DOMAIN Code
  OBVIOUS
<1>2. Codes(w) = [k \in 1 .. Len(w) |-> Code[w[k]]]
  BY <1>1 DEF Codes
<1>3. \A k \in 1 .. Len(w) : Code[w[k]] \in Int
  BY <1>1, CodeIs
<1> QED BY <1>1, <1>2, <1>3

(* A piece of a string whose characters have codes.                          *)
LEMMA PieceIs ==
  ASSUME NEW s, IsText(s), NEW i, Place(s, i), NEW k \in i .. Len(s) + 1, NEW chars,
         chars \subseteq DOMAIN Code, \A l \in i .. k - 1 : s[l] \in chars
  PROVE  /\ SubSeq(s, i, k - 1) \in Seq(DOMAIN Code)
         /\ Len(SubSeq(s, i, k - 1)) \in Nat
<1>1. Len(s) \in Nat /\ i \in Int /\ k - 1 \in Int
  BY TextFacts DEF Place
<1>2. \A l \in i .. k - 1 : s[l] \in DOMAIN Code
  OBVIOUS
<1>3. SubSeq(s, i, k - 1) \in Seq(DOMAIN Code)
  BY <1>1, <1>2, SubSeqProperties
<1> QED BY <1>3

----------------------------------------------------------------------------
(* What is compared of two segments: numbers if both have one, else words.   *)
Content(a, i, b, j) ==
  IF Numeric(a, i, b, j) THEN CmpNumbers(a, i, b, j) ELSE CmpWords(a, i, b, j)

Number(s, i) == Significant(s, i, Past(s, i, Digits))
Word(s, i) == SubSeq(s, i, Past(s, i, Letters) - 1)

LEMMA NumberIs ==
  ASSUME NEW s, IsText(s), NEW i, Place(s, i)
  PROVE  Len(Number(s, i)) \in Nat /\ Codes(Number(s, i)) \in Seq(Int)
<1> DEFINE k == Past(s, i, Digits)
           z == Past(s, i, {"0"})
<1>1. /\ Len(s) \in Nat /\ i \in Nat
      /\ k \in i .. Len(s) + 1 /\ (\A l \in i .. k - 1 : s[l] \in Digits)
      /\ z \in i .. Len(s) + 1 /\ Place(s, z)
  BY TextFacts, PastIs DEF Place
<1>2. Number(s, i) = SubSeq(s, z, k - 1)
  BY DEF Number, Significant
<1> HIDE DEF k, z
<1>3. \A l \in z .. k - 1 : s[l] \in DOMAIN Code
  BY <1>1, CodeIs
<1>4. SubSeq(s, z, k - 1) \in Seq(DOMAIN Code)
  BY <1>1, <1>3, SubSeqProperties
<1>5. Len(SubSeq(s, z, k - 1)) \in Nat
  BY <1>4, LenProperties
<1>6. Codes(SubSeq(s, z, k - 1)) \in Seq(Int)
  BY <1>4, CodesIs
<1> QED BY <1>2, <1>5, <1>6

LEMMA WordIs ==
  ASSUME NEW s, IsText(s), NEW i, Place(s, i)
  PROVE  Codes(Word(s, i)) \in Seq(Int)
BY PastIs, PieceIs, CodesIs, CodeIs DEF Word

LEMMA ContentIs ==
  ASSUME NEW a, IsText(a), NEW i, Place(a, i), NEW b, IsText(b), NEW j, Place(b, j)
  PROVE  Content(a, i, b, j) =
           Then(CmpBool(IsIn(a, i, Digits), IsIn(b, j, Digits)),
                IF IsIn(a, i, Digits)
                THEN Then(Sign(Len(Number(a, i)) - Len(Number(b, j))),
                          Lexicographic(Codes(Number(a, i)), Codes(Number(b, j))))
                ELSE Lexicographic(Codes(Word(a, i)), Codes(Word(b, j))))
<1> DEFINE da == IsIn(a, i, Digits)
           db == IsIn(b, j, Digits)
           k == Past(a, i, Digits)
           l == Past(b, j, Digits)
           size == Sign(Len(Number(a, i)) - Len(Number(b, j)))
           lex == Lexicographic(Codes(Number(a, i)), Codes(Number(b, j)))
<1>1. da \in BOOLEAN /\ db \in BOOLEAN
  BY DEF IsIn
<1>2. i \in Int /\ j \in Int /\ k \in Int /\ l \in Int
  <2>1. Place(a, k) /\ Place(b, l)
    BY PastIs
  <2> QED BY <2>1, PlaceIs
<1>3. (k # i <=> da) /\ (l # j <=> db)
  BY PastIs, <1>2
<1>4. size \in Results /\ lex \in Results
  <2>1. Len(Number(a, i)) \in Int /\ Len(Number(b, j)) \in Int
    BY NumberIs
  <2>2. size \in Results
    BY <2>1, SignOrder
  <2>3. Codes(Number(a, i)) \in Seq(Int) /\ Codes(Number(b, j)) \in Seq(Int)
    BY NumberIs
  <2>4. lex \in Results
    BY <2>3, LexicographicOrder
  <2> QED BY <2>2, <2>4
<1>5. CASE da \/ db
  <2>1. CmpBool(k # i, l # j) = CmpBool(da, db)
    BY <1>1, <1>3 DEF CmpBool
  <2>2. Content(a, i, b, j) = Decide(<<CmpBool(k # i, l # j), size, lex>>)
    BY <1>5 DEF Content, Numeric, CmpNumbers, Number
  <2>3. CmpBool(da, db) \in Results
    BY <1>1, BoolOrder
  <2> HIDE DEF da, db, size, lex, k, l
  <2>4. Decide(<<CmpBool(da, db), size, lex>>) = Then(CmpBool(da, db), Then(size, lex))
    BY <1>4, <2>3, DecideThree
  <2>5. Content(a, i, b, j) = Then(CmpBool(da, db), Then(size, lex))
    BY <2>1, <2>2, <2>4
  <2>6. CmpBool(da, db) = 0 => da
    BY <1>1, <1>5 DEF CmpBool
  <2>7. Content(a, i, b, j) = Then(CmpBool(da, db), IF da THEN Then(size, lex)
                                 ELSE Lexicographic(Codes(Word(a, i)), Codes(Word(b, j))))
    BY <2>5, <2>6 DEF Then
  <2> QED BY <2>7 DEF da, db, size, lex
<1>6. CASE ~da /\ ~db
  <2>1. Content(a, i, b, j) = Lexicographic(Codes(Word(a, i)), Codes(Word(b, j)))
    BY <1>6 DEF Content, Numeric, CmpWords, Word
  <2>2. CmpBool(da, db) = 0
    BY <1>1, <1>6 DEF CmpBool
  <2> HIDE DEF size, lex
  <2> QED BY <1>6, <2>1, <2>2 DEF Then
<1> QED BY <1>5, <1>6

LEMMA LengthFirst ==
  ASSUME NEW x \in Seq(Int), NEW y \in Seq(Int), NEW l \in Nat, NEW m \in Nat
  PROVE  /\ Then(Sign(l - m), Lexicographic(x, y)) \in Results
         /\ Then(Sign(m - l), Lexicographic(y, x)) = -Then(Sign(l - m), Lexicographic(x, y))
<1>1. Sign(l - m) \in Results /\ Sign(m - l) = -Sign(l - m)
  <2>1. l \in Int /\ m \in Int
    OBVIOUS
  <2> QED BY <2>1, SignOrder, Zenon
<1>2. Lexicographic(x, y) \in Results /\ Lexicographic(y, x) = -Lexicographic(x, y)
  BY LexicographicOrder
<1> QED BY <1>1, <1>2, ThenTypes, Reversed

LEMMA LengthOrder ==
  ASSUME NEW x \in Seq(Int), NEW y \in Seq(Int), NEW z \in Seq(Int),
         NEW l \in Nat, NEW m \in Nat, NEW n \in Nat
  PROVE  Transitive(Then(Sign(l - m), Lexicographic(x, y)), Then(Sign(m - n), Lexicographic(y, z)),
                    Then(Sign(l - n), Lexicographic(x, z)))
<1>1. /\ Sign(l - m) \in Results /\ Sign(m - n) \in Results /\ Sign(l - n) \in Results
      /\ Transitive(Sign(l - m), Sign(m - n), Sign(l - n))
  <2>1. l \in Int /\ m \in Int /\ n \in Int
    OBVIOUS
  <2>2. Sign(l - m) \in Results /\ Transitive(Sign(l - m), Sign(m - n), Sign(l - n))
    BY <2>1, SignOrder, Zenon
  <2>3. Sign(m - n) \in Results /\ Sign(l - n) \in Results
    BY <2>1, SignOrder, Zenon
  <2> QED BY <2>2, <2>3
<1>2. /\ Lexicographic(x, y) \in Results /\ Lexicographic(y, z) \in Results
      /\ Lexicographic(x, z) \in Results
      /\ Transitive(Lexicographic(x, y), Lexicographic(y, z), Lexicographic(x, z))
  BY LexicographicOrder
<1> QED BY <1>1, <1>2, Chained

LEMMA ContentOrder ==
  ASSUME NEW a, IsText(a), NEW i, Place(a, i), NEW b, IsText(b), NEW j, Place(b, j),
         NEW c, IsText(c), NEW k, Place(c, k)
  PROVE  /\ Content(a, i, b, j) \in Results
         /\ Content(b, j, a, i) = -Content(a, i, b, j)
         /\ Content(a, i, b, j) = 0 => (IsIn(a, i, Digits) <=> IsIn(b, j, Digits))
         /\ Transitive(Content(a, i, b, j), Content(b, j, c, k), Content(a, i, c, k))
<1> DEFINE da == IsIn(a, i, Digits)
           db == IsIn(b, j, Digits)
           dc == IsIn(c, k, Digits)
           N(s, p, t, q) == Then(Sign(Len(Number(s, p)) - Len(Number(t, q))),
                                 Lexicographic(Codes(Number(s, p)), Codes(Number(t, q))))
           W(s, p, t, q) == Lexicographic(Codes(Word(s, p)), Codes(Word(t, q)))
           R(s, p, t, q) == IF IsIn(s, p, Digits) THEN N(s, p, t, q) ELSE W(s, p, t, q)
<1>1. /\ Content(a, i, b, j) = Then(CmpBool(da, db), R(a, i, b, j))
      /\ Content(b, j, a, i) = Then(CmpBool(db, da), R(b, j, a, i))
      /\ Content(b, j, c, k) = Then(CmpBool(db, dc), R(b, j, c, k))
      /\ Content(a, i, c, k) = Then(CmpBool(da, dc), R(a, i, c, k))
  BY ContentIs
<1>2. /\ N(a, i, b, j) \in Results /\ N(b, j, c, k) \in Results /\ N(a, i, c, k) \in Results
      /\ N(b, j, a, i) = -N(a, i, b, j)
      /\ Transitive(N(a, i, b, j), N(b, j, c, k), N(a, i, c, k))
  <2>1. /\ Len(Number(a, i)) \in Nat /\ Codes(Number(a, i)) \in Seq(Int)
        /\ Len(Number(b, j)) \in Nat /\ Codes(Number(b, j)) \in Seq(Int)
        /\ Len(Number(c, k)) \in Nat /\ Codes(Number(c, k)) \in Seq(Int)
    BY NumberIs
  <2>2. N(a, i, b, j) \in Results /\ N(b, j, a, i) = -N(a, i, b, j)
    BY <2>1, LengthFirst, Zenon
  <2>3. N(b, j, c, k) \in Results /\ N(a, i, c, k) \in Results
    BY <2>1, LengthFirst, Zenon
  <2>4. Transitive(N(a, i, b, j), N(b, j, c, k), N(a, i, c, k))
    BY <2>1, LengthOrder, Zenon
  <2> QED BY <2>2, <2>3, <2>4
<1>3. /\ W(a, i, b, j) \in Results /\ W(b, j, c, k) \in Results /\ W(a, i, c, k) \in Results
      /\ W(b, j, a, i) = -W(a, i, b, j)
      /\ Transitive(W(a, i, b, j), W(b, j, c, k), W(a, i, c, k))
  BY WordIs, LexicographicOrder
<1>4. da \in BOOLEAN /\ db \in BOOLEAN /\ dc \in BOOLEAN
  BY DEF IsIn
<1>5. /\ CmpBool(da, db) \in Results /\ CmpBool(db, dc) \in Results /\ CmpBool(da, dc) \in Results
      /\ CmpBool(db, da) = -CmpBool(da, db)
      /\ Transitive(CmpBool(da, db), CmpBool(db, dc), CmpBool(da, dc))
      /\ CmpBool(da, db) = 0 => (da <=> db)
      /\ CmpBool(db, dc) = 0 => (db <=> dc)
  BY <1>4, BoolOrder
<1> HIDE DEF N, W
<1>6. /\ R(a, i, b, j) \in Results /\ R(b, j, c, k) \in Results /\ R(a, i, c, k) \in Results
      /\ CmpBool(da, db) = 0 => R(b, j, a, i) = -R(a, i, b, j)
      /\ CmpBool(da, db) = 0 /\ CmpBool(db, dc) = 0
           => Transitive(R(a, i, b, j), R(b, j, c, k), R(a, i, c, k))
  BY <1>2, <1>3, <1>5
<1> HIDE DEF R, da, db, dc
<1>7. Content(a, i, b, j) \in Results /\ (Content(a, i, b, j) = 0 => CmpBool(da, db) = 0)
  BY <1>1, <1>5, <1>6, ThenTypes
<1>8. Content(b, j, a, i) = -Content(a, i, b, j)
  BY <1>1, <1>5, <1>6, Reversed
<1>9. Transitive(Content(a, i, b, j), Content(b, j, c, k), Content(a, i, c, k))
  BY <1>1, <1>5, <1>6, Chained
<1> QED BY <1>5, <1>7, <1>8, <1>9 DEF da, db

----------------------------------------------------------------------------
(* Where a segment is read from.                                             *)
LEMMA StepIs ==
  ASSUME NEW s, IsText(s), NEW i, Place(s, i), NEW n
  PROVE  Place(s, Step(s, i, n)) /\ Step(s, i, n) >= i
BY PlaceIs, TextFacts DEF Place, Step, Has, Ended

LEMMA StepsAre ==
  ASSUME NEW s, IsText(s), NEW i, Place(s, i)
  PROVE  LET x == Steps(s, i)
         IN /\ Place(s, x[1]) /\ Place(s, x[2]) /\ Place(s, x[3]) /\ Place(s, x[4]) /\ Place(s, x[5])
            /\ i <= x[1] /\ x[1] <= x[2] /\ x[2] <= x[3] /\ x[3] <= x[4] /\ x[4] <= x[5]
            /\ x[1] = Past(s, i, CharsOf(s) \ VersionChars)
            /\ x[2] = Step(s, x[1], 1) /\ x[3] = Step(s, x[2], 2) /\ x[4] = Step(s, x[3], 3)
            /\ x[5] = Step(s, x[4], 4)
<1> DEFINE u == Past(s, i, CharsOf(s) \ VersionChars)
           v == Step(s, u, 1)
           w == Step(s, v, 2)
           y == Step(s, w, 3)
           z == Step(s, y, 4)
<1>1. Steps(s, i) = <<u, v, w, y, z>>
  BY DEF Steps
<1>2. Place(s, u) /\ i <= u
  BY PastIs, PlaceIs
<1> HIDE DEF u
<1>3. Place(s, v) /\ u <= v
  BY <1>2, StepIs
<1>4. v = Step(s, u, 1)
  OBVIOUS
<1> HIDE DEF v
<1>5. Place(s, w) /\ v <= w
  BY <1>3, StepIs
<1>6. w = Step(s, v, 2)
  OBVIOUS
<1> HIDE DEF w
<1>7. Place(s, y) /\ w <= y
  BY <1>5, StepIs
<1>8. y = Step(s, w, 3)
  OBVIOUS
<1> HIDE DEF y
<1>9. Place(s, z) /\ y <= z
  BY <1>7, StepIs
<1>10. z = Step(s, y, 4)
  OBVIOUS
<1> HIDE DEF z
<1> QED BY <1>1, <1>2, <1>3, <1>4, <1>5, <1>6, <1>7, <1>8, <1>9, <1>10 DEF u

----------------------------------------------------------------------------
(* What is ordered stays so after comparisons that are: p of x with y, o of  *)
(* y with x, q of y with z, r of x with z.                                   *)
Ordered(p, o, q, r) ==
  /\ p \in Results /\ q \in Results /\ r \in Results
  /\ o = -p
  /\ Transitive(p, q, r)

LEMMA ThenOrdered ==
  ASSUME NEW p1, NEW o1, NEW q1, NEW r1, NEW p2, NEW o2, NEW q2, NEW r2,
         Ordered(p1, o1, q1, r1), p2 \in Results, q2 \in Results, r2 \in Results,
         p1 = 0 => o2 = -p2,
         p1 = 0 /\ q1 = 0 /\ r1 = 0 => Transitive(p2, q2, r2)
  PROVE  Ordered(Then(p1, p2), Then(o1, o2), Then(q1, q2), Then(r1, r2))
<1>1. /\ p1 \in Results /\ q1 \in Results /\ r1 \in Results
      /\ o1 = -p1 /\ Transitive(p1, q1, r1)
  BY DEF Ordered
<1>2. /\ Then(p1, p2) \in Results /\ Then(q1, q2) \in Results /\ Then(r1, r2) \in Results
  BY <1>1, ThenTypes
<1>3. Then(o1, o2) = -Then(p1, p2)
  BY <1>1, Reversed
<1>4. Transitive(Then(p1, p2), Then(q1, q2), Then(r1, r2))
  BY <1>1, Chained
<1> QED BY <1>2, <1>3, <1>4 DEF Ordered

LEMMA BothOrdered ==
  ASSUME NEW p1, NEW o1, NEW q1, NEW r1, NEW p2, NEW o2, NEW q2, NEW r2,
         Ordered(p1, o1, q1, r1), Ordered(p2, o2, q2, r2)
  PROVE  /\ Ordered(Then(p1, p2), Then(o1, o2), Then(q1, q2), Then(r1, r2))
         /\ Then(p1, p2) = 0 => p1 = 0 /\ p2 = 0
<1>1. /\ p2 \in Results /\ q2 \in Results /\ r2 \in Results
      /\ o2 = -p2 /\ Transitive(p2, q2, r2)
  BY DEF Ordered
<1>2. Then(p1, p2) = 0 => p1 = 0 /\ p2 = 0
  BY DEF Then
<1> QED BY <1>1, <1>2, ThenOrdered

(* Segments that begin at i and j.                                           *)
Marked(s, i, n) == Has(s, Steps(s, i)[n], Separators[n])
Over(s, i) == Ended(s, Steps(s, i)[2])
Start(s, i) == Steps(s, i)[5]

Marks(a, i, b, j, n) == CmpBool(~Marked(a, i, n), ~Marked(b, j, n))

LEMMA MarksOrder ==
  ASSUME NEW a, NEW i, NEW b, NEW j, NEW c, NEW k, NEW n
  PROVE  /\ Ordered(Marks(a, i, b, j, n), Marks(b, j, a, i, n), Marks(b, j, c, k, n), Marks(a, i, c, k, n))
         /\ Marks(a, i, b, j, n) = 0 => (Marked(a, i, n) <=> Marked(b, j, n))
<1> DEFINE x == ~Marked(a, i, n)
           y == ~Marked(b, j, n)
           z == ~Marked(c, k, n)
<1>1. x \in BOOLEAN /\ y \in BOOLEAN /\ z \in BOOLEAN
  OBVIOUS
<1>2. /\ Marks(a, i, b, j, n) = CmpBool(x, y) /\ Marks(b, j, a, i, n) = CmpBool(y, x)
      /\ Marks(b, j, c, k, n) = CmpBool(y, z) /\ Marks(a, i, c, k, n) = CmpBool(x, z)
      /\ Marked(a, i, n) <=> ~x
      /\ Marked(b, j, n) <=> ~y
  BY DEF Marks
<1> HIDE DEF x, y, z
<1>3. CmpBool(x, y) \in Results /\ CmpBool(y, x) = -CmpBool(x, y)
      /\ (CmpBool(x, y) = 0 <=> (x <=> y))
  BY <1>1, BoolOrder
<1>4. CmpBool(y, z) \in Results /\ CmpBool(x, z) \in Results
  BY <1>1, BoolOrder
<1>5. Transitive(CmpBool(x, y), CmpBool(y, z), CmpBool(x, z))
  BY <1>1, BoolOrder
<1> QED BY <1>2, <1>3, <1>4, <1>5 DEF Ordered

Segment(a, i, b, j) ==
  Then(Marks(a, i, b, j, 2), Then(Marks(a, i, b, j, 3),
    Then(Marks(a, i, b, j, 4), Content(a, Start(a, i), b, Start(b, j)))))

LEMMA SegmentIs ==
  ASSUME NEW a, IsText(a), NEW i, Place(a, i), NEW b, IsText(b), NEW j, Place(b, j)
  PROVE  CmpSegments(a, Steps(a, i), b, Steps(b, j)) = Segment(a, i, b, j)
<1> DEFINE m2 == Marks(a, i, b, j, 2)
           m3 == Marks(a, i, b, j, 3)
           m4 == Marks(a, i, b, j, 4)
           t == Content(a, Start(a, i), b, Start(b, j))
<1>1. m2 \in Results /\ m3 \in Results /\ m4 \in Results
  BY MarksOrder DEF Ordered
<1>2. Place(a, Start(a, i)) /\ Place(b, Start(b, j))
  BY StepsAre DEF Start
<1>3. t \in Results
  BY <1>2, ContentOrder
<1>4. CmpSegments(a, Steps(a, i), b, Steps(b, j)) = Decide(<<m2, m3, m4, t>>)
  BY DEF CmpSegments, CmpSeparator, Marks, Marked, Content, Start
<1>5. Segment(a, i, b, j) = Then(m2, Then(m3, Then(m4, t)))
  BY DEF Segment
<1> HIDE DEF m2, m3, m4, t
<1>6. Decide(<<m2, m3, m4, t>>) = Then(m2, Then(m3, Then(m4, t)))
  BY <1>1, <1>3, DecideFour
<1> QED BY <1>4, <1>5, <1>6

LEMMA SegmentOrder ==
  ASSUME NEW a, IsText(a), NEW i, Place(a, i), NEW b, IsText(b), NEW j, Place(b, j),
         NEW c, IsText(c), NEW k, Place(c, k)
  PROVE  /\ Ordered(Segment(a, i, b, j), Segment(b, j, a, i), Segment(b, j, c, k), Segment(a, i, c, k))
         /\ Segment(a, i, b, j) = 0 =>
              /\ Marks(a, i, b, j, 2) = 0 /\ Marks(a, i, b, j, 3) = 0 /\ Marks(a, i, b, j, 4) = 0
              /\ Content(a, Start(a, i), b, Start(b, j)) = 0
<1> DEFINE T(s, p, t, q) == Content(s, Start(s, p), t, Start(t, q))
           U(s, p, t, q) == Then(Marks(s, p, t, q, 4), T(s, p, t, q))
           V(s, p, t, q) == Then(Marks(s, p, t, q, 3), U(s, p, t, q))
<1>1. Place(a, Start(a, i)) /\ Place(b, Start(b, j)) /\ Place(c, Start(c, k))
  BY StepsAre DEF Start
<1>2. Ordered(T(a, i, b, j), T(b, j, a, i), T(b, j, c, k), T(a, i, c, k))
  <2>1. T(b, j, c, k) \in Results /\ T(a, i, c, k) \in Results
    BY <1>1, ContentOrder
  <2>2. T(a, i, b, j) \in Results /\ T(b, j, a, i) = -T(a, i, b, j)
        /\ Transitive(T(a, i, b, j), T(b, j, c, k), T(a, i, c, k))
    BY <1>1, ContentOrder
  <2> QED BY <2>1, <2>2 DEF Ordered
<1> HIDE DEF T
<1> DEFINE M(n) == Ordered(Marks(a, i, b, j, n), Marks(b, j, a, i, n),
                           Marks(b, j, c, k, n), Marks(a, i, c, k, n))
<1>m. M(2) /\ M(3) /\ M(4)
  BY MarksOrder
<1>3. Ordered(U(a, i, b, j), U(b, j, a, i), U(b, j, c, k), U(a, i, c, k))
      /\ (U(a, i, b, j) = 0 => Marks(a, i, b, j, 4) = 0 /\ T(a, i, b, j) = 0)
  BY <1>2, <1>m, BothOrdered
<1> HIDE DEF U
<1>4. Ordered(V(a, i, b, j), V(b, j, a, i), V(b, j, c, k), V(a, i, c, k))
      /\ (V(a, i, b, j) = 0 => Marks(a, i, b, j, 3) = 0 /\ U(a, i, b, j) = 0)
  BY <1>3, <1>m, BothOrdered
<1>5. /\ Segment(a, i, b, j) = Then(Marks(a, i, b, j, 2), V(a, i, b, j))
      /\ Segment(b, j, a, i) = Then(Marks(b, j, a, i, 2), V(b, j, a, i))
      /\ Segment(b, j, c, k) = Then(Marks(b, j, c, k, 2), V(b, j, c, k))
      /\ Segment(a, i, c, k) = Then(Marks(a, i, c, k, 2), V(a, i, c, k))
  BY DEF Segment, U, T
<1> HIDE DEF V
<1>6. Ordered(Segment(a, i, b, j), Segment(b, j, a, i), Segment(b, j, c, k), Segment(a, i, c, k))
      /\ (Segment(a, i, b, j) = 0 => Marks(a, i, b, j, 2) = 0 /\ V(a, i, b, j) = 0)
  BY <1>4, <1>5, <1>m, BothOrdered
<1> QED BY <1>3, <1>4, <1>6 DEF T

(* What a round compares before it goes on.                                  *)
Ends(a, i, b, j) == CmpBool(~Over(a, i), ~Over(b, j))
Turn(a, i, b, j) ==
  Then(Marks(a, i, b, j, 1),
       Then(Ends(a, i, b, j), IF Over(a, i) THEN 0 ELSE Segment(a, i, b, j)))

LEMMA EndsOrder ==
  ASSUME NEW a, NEW i, NEW b, NEW j, NEW c, NEW k
  PROVE  /\ Ordered(Ends(a, i, b, j), Ends(b, j, a, i), Ends(b, j, c, k), Ends(a, i, c, k))
         /\ Ends(a, i, b, j) = 0 => (Over(a, i) <=> Over(b, j))
         /\ Ends(b, j, c, k) = 0 => (Over(b, j) <=> Over(c, k))
<1> DEFINE x == ~Over(a, i)
           y == ~Over(b, j)
           z == ~Over(c, k)
<1>1. x \in BOOLEAN /\ y \in BOOLEAN /\ z \in BOOLEAN
  OBVIOUS
<1>2. /\ Ends(a, i, b, j) = CmpBool(x, y) /\ Ends(b, j, a, i) = CmpBool(y, x)
      /\ Ends(b, j, c, k) = CmpBool(y, z) /\ Ends(a, i, c, k) = CmpBool(x, z)
      /\ Over(a, i) <=> ~x
      /\ Over(b, j) <=> ~y
      /\ Over(c, k) <=> ~z
  BY DEF Ends
<1> HIDE DEF x, y, z
<1>3. CmpBool(x, y) \in Results /\ CmpBool(y, x) = -CmpBool(x, y)
      /\ (CmpBool(x, y) = 0 <=> (x <=> y))
  BY <1>1, BoolOrder
<1>4. CmpBool(y, z) \in Results /\ CmpBool(x, z) \in Results /\ (CmpBool(y, z) = 0 <=> (y <=> z))
  BY <1>1, BoolOrder
<1>5. Transitive(CmpBool(x, y), CmpBool(y, z), CmpBool(x, z))
  BY <1>1, BoolOrder
<1> QED BY <1>2, <1>3, <1>4, <1>5 DEF Ordered

LEMMA TurnOrder ==
  ASSUME NEW a, IsText(a), NEW i, Place(a, i), NEW b, IsText(b), NEW j, Place(b, j),
         NEW c, IsText(c), NEW k, Place(c, k)
  PROVE  /\ Ordered(Turn(a, i, b, j), Turn(b, j, a, i), Turn(b, j, c, k), Turn(a, i, c, k))
         /\ Turn(a, i, b, j) = 0 => (Over(a, i) <=> Over(b, j))
         /\ Turn(b, j, c, k) = 0 => (Over(b, j) <=> Over(c, k))
<1> DEFINE S(s, p, t, q) == IF Over(s, p) THEN 0 ELSE Segment(s, p, t, q)
           E(s, p, t, q) == Then(Ends(s, p, t, q), S(s, p, t, q))
<1>1. Ordered(Segment(a, i, b, j), Segment(b, j, a, i), Segment(b, j, c, k), Segment(a, i, c, k))
  BY SegmentOrder
<1>2. /\ S(a, i, b, j) \in Results /\ S(b, j, c, k) \in Results /\ S(a, i, c, k) \in Results
  BY <1>1 DEF Ordered, Results
<1>3. /\ Ordered(Ends(a, i, b, j), Ends(b, j, a, i), Ends(b, j, c, k), Ends(a, i, c, k))
      /\ Ends(a, i, b, j) = 0 => (Over(a, i) <=> Over(b, j))
      /\ Ends(b, j, c, k) = 0 => (Over(b, j) <=> Over(c, k))
  BY EndsOrder
<1>4. Ends(a, i, b, j) = 0 => S(b, j, a, i) = -S(a, i, b, j)
  BY <1>1, <1>3 DEF Ordered
<1>5. Ends(a, i, b, j) = 0 /\ Ends(b, j, c, k) = 0
        => Transitive(S(a, i, b, j), S(b, j, c, k), S(a, i, c, k))
  <2>1. Transitive(0, 0, 0)
    BY DEF Transitive
  <2> QED BY <1>1, <1>3, <2>1 DEF Ordered
<1> HIDE DEF S
<1>6. Ordered(E(a, i, b, j), E(b, j, a, i), E(b, j, c, k), E(a, i, c, k))
  BY <1>2, <1>3, <1>4, <1>5, ThenOrdered
<1>7. /\ E(a, i, b, j) = 0 => Ends(a, i, b, j) = 0
      /\ E(b, j, c, k) = 0 => Ends(b, j, c, k) = 0
  BY DEF Then
<1>8. /\ Turn(a, i, b, j) = Then(Marks(a, i, b, j, 1), E(a, i, b, j))
      /\ Turn(b, j, a, i) = Then(Marks(b, j, a, i, 1), E(b, j, a, i))
      /\ Turn(b, j, c, k) = Then(Marks(b, j, c, k, 1), E(b, j, c, k))
      /\ Turn(a, i, c, k) = Then(Marks(a, i, c, k, 1), E(a, i, c, k))
  BY DEF Turn, S
<1> HIDE DEF E
<1>9. Ordered(Marks(a, i, b, j, 1), Marks(b, j, a, i, 1), Marks(b, j, c, k, 1), Marks(a, i, c, k, 1))
  BY MarksOrder
<1>10. Ordered(Turn(a, i, b, j), Turn(b, j, a, i), Turn(b, j, c, k), Turn(a, i, c, k))
  BY <1>6, <1>8, <1>9, BothOrdered
<1>11. /\ Turn(a, i, b, j) = 0 => E(a, i, b, j) = 0
       /\ Turn(b, j, c, k) = 0 => E(b, j, c, k) = 0
  BY <1>8 DEF Then
<1> QED BY <1>3, <1>7, <1>10, <1>11

----------------------------------------------------------------------------
(* Where s is read on from, if the round told nothing: this does not depend  *)
(* on the other string, as both have a number or none has.                   *)
Onward(s, i) == Past(s, Start(s, i), IF IsIn(s, Start(s, i), Digits) THEN Digits ELSE Letters)

LEMMA OnwardIs ==
  ASSUME NEW s, IsText(s), NEW i, Place(s, i)
  PROVE  /\ Place(s, Onward(s, i))
         /\ ~Over(s, i) => Onward(s, i) > i
<1> DEFINE x == Steps(s, i)
           u == x[1]
           v == x[2]
           w == x[3]
           y == x[4]
           z == x[5]
           chars == IF IsIn(s, z, Digits) THEN Digits ELSE Letters
           o == Past(s, z, chars)
<1>1. /\ Place(s, u) /\ Place(s, v) /\ Place(s, w) /\ Place(s, y) /\ Place(s, z)
      /\ i <= u /\ u <= v /\ v <= w /\ w <= y /\ y <= z
      /\ u = Past(s, i, CharsOf(s) \ VersionChars)
      /\ v = Step(s, u, 1) /\ w = Step(s, v, 2) /\ y = Step(s, w, 3) /\ z = Step(s, y, 4)
  BY StepsAre
<1> HIDE DEF x, u, v, w, y, z
<1>2. Place(s, o) /\ o \in z .. Len(s) + 1 /\ (IsIn(s, z, chars) => o > z)
  BY <1>1, PastIs
<1>3. i \in Nat /\ u \in Nat /\ v \in Nat /\ w \in Nat /\ y \in Nat /\ z \in Nat /\ o \in Nat
  BY <1>1, <1>2, PlaceIs
<1>4. Onward(s, i) = o /\ (Over(s, i) <=> Ended(s, v))
  BY DEF Onward, Start, Over, z, v, x
<1>5. ASSUME ~Ended(s, v)
      PROVE  o > i
  <2>1. o >= z
    BY <1>2, <1>3
  <2> SUFFICES ASSUME z = i
               PROVE  o > z
    BY <1>1, <1>3, <2>1
  <2>2. u = i /\ v = i /\ w = i /\ y = i
    BY <1>1, <1>3
  <2>3. /\ ~Has(s, i, "~") /\ ~Has(s, i, "-") /\ ~Has(s, i, "^") /\ ~Has(s, i, ".")
    <3>1. Separators[1] = "~" /\ Separators[2] = "-" /\ Separators[3] = "^" /\ Separators[4] = "."
      BY DEF Separators
    <3>2. i + 1 # i
      BY <1>3
    <3>3. ASSUME NEW n, Step(s, i, n) = i
          PROVE  ~Has(s, i, Separators[n])
      BY <3>2, <3>3 DEF Step
    <3>4. Step(s, i, 1) = i /\ Step(s, i, 2) = i /\ Step(s, i, 3) = i /\ Step(s, i, 4) = i
      BY <1>1, <2>2
    <3> QED BY <3>1, <3>3, <3>4
  <2>4. s[i] \in VersionChars
    <3>1. ~IsIn(s, i, CharsOf(s) \ VersionChars)
      BY <1>1, <2>2, PastIs
    <3>2. s[i] \in CharsOf(s)
      <4>1. i \in 1 .. Len(s) + 1 /\ Len(s) \in Nat /\ DOMAIN s = 1 .. Len(s)
        BY TextFacts DEF Place
      <4>2. ~(i > Len(s))
        BY <1>5, <2>2 DEF Ended
      <4>3. i \in DOMAIN s
        BY <4>1, <4>2
      <4> QED BY <4>3 DEF CharsOf
    <3> QED BY <1>5, <2>2, <3>1, <3>2 DEF IsIn
  <2>5. s[i] \in Digits \cup Letters
    BY <1>5, <2>2, <2>3, <2>4 DEF VersionChars, Has
  <2>6. IsIn(s, z, chars)
    BY <1>5, <2>2, <2>5 DEF IsIn
  <2> QED BY <1>2, <2>6
<1> QED BY <1>2, <1>4, <1>5

----------------------------------------------------------------------------
(* The rounds from every pair of positions on.                               *)
Pairs(a, b) == (1 .. Len(a) + 1) \X (1 .. Len(b) + 1)

Goes(a, b, f, p) ==
  Then(Turn(a, p[1], b, p[2]),
       IF Over(a, p[1]) THEN 0 ELSE f[<<Onward(a, p[1]), Onward(b, p[2])>>])

Compares(a, b, f) == f = [p \in Pairs(a, b) |-> Goes(a, b, f, p)]

(* A round as CompareVersions has it.                                        *)
Written(a, b, f, p) ==
  LET x == Steps(a, p[1])  y == Steps(b, p[2])
      chars == Kind(a, x[5], b, y[5])
  IN IF CmpSeparator(a, x, b, y, 1) # 0 THEN CmpSeparator(a, x, b, y, 1)
     ELSE IF Ended(a, x[2]) \/ Ended(b, y[2]) THEN CmpBool(~Ended(a, x[2]), ~Ended(b, y[2]))
     ELSE IF CmpSegments(a, x, b, y) # 0 THEN CmpSegments(a, x, b, y)
     ELSE f[<<Past(a, x[5], chars), Past(b, y[5], chars)>>]

LEMMA WrittenSo ==
  ASSUME NEW a, IsText(a), NEW b, IsText(b), NEW f, NEW p \in Pairs(a, b)
  PROVE  Written(a, b, f, p) = Goes(a, b, f, p)
<1> DEFINE i == p[1]
           j == p[2]
           x == Steps(a, i)
           y == Steps(b, j)
           chars == Kind(a, x[5], b, y[5])
           next == f[<<Past(a, x[5], chars), Past(b, y[5], chars)>>]
           own == f[<<Onward(a, i), Onward(b, j)>>]
           m == Marks(a, i, b, j, 1)
           e == Ends(a, i, b, j)
           s == Segment(a, i, b, j)
<1>1. Place(a, i) /\ Place(b, j)
  BY DEF Place, Pairs
<1>2. Written(a, b, f, p) =
        IF m # 0 THEN m ELSE IF Over(a, i) \/ Over(b, j) THEN e ELSE IF s # 0 THEN s ELSE next
  BY <1>1, SegmentIs DEF Written, Marks, Marked, CmpSeparator, Over, Ends
<1>3. Goes(a, b, f, p) = Then(Then(m, Then(e, IF Over(a, i) THEN 0 ELSE s)),
                              IF Over(a, i) THEN 0 ELSE own)
  BY DEF Goes, Turn
<1>4. s = 0 => next = own
  <2> SUFFICES ASSUME s = 0
               PROVE  next = own
    OBVIOUS
  <2>1. Content(a, x[5], b, y[5]) = 0
    BY <1>1, SegmentOrder DEF Start
  <2>2. Place(a, x[5]) /\ Place(b, y[5])
    BY <1>1, StepsAre
  <2>3. IsIn(a, x[5], Digits) <=> IsIn(b, y[5], Digits)
    BY <2>1, <2>2, ContentOrder
  <2>4. /\ chars = IF IsIn(a, x[5], Digits) THEN Digits ELSE Letters
        /\ chars = IF IsIn(b, y[5], Digits) THEN Digits ELSE Letters
    BY <2>3 DEF Kind, Numeric
  <2> QED BY <2>4 DEF Onward, Start
<1>5. e = CmpBool(~Over(a, i), ~Over(b, j))
  BY DEF Ends
<1> HIDE DEF i, j, m, e, s, next, own
<1>6. CASE Over(a, i) /\ Over(b, j)
  BY <1>2, <1>3, <1>5, <1>6 DEF Then, CmpBool
<1>7. CASE Over(a, i) /\ ~Over(b, j)
  BY <1>2, <1>3, <1>5, <1>7 DEF Then, CmpBool
<1>8. CASE ~Over(a, i) /\ Over(b, j)
  BY <1>2, <1>3, <1>5, <1>8 DEF Then, CmpBool
<1>9. CASE ~Over(a, i) /\ ~Over(b, j)
  BY <1>2, <1>3, <1>4, <1>5, <1>9 DEF Then, CmpBool
<1> QED BY <1>6, <1>7, <1>8, <1>9

(* There are such rounds: each pair leads to one further on.                 *)
Rest(a, b, n) == {p \in Pairs(a, b) : p[1] > Len(a) + 1 - n}

LEMMA PairsAre ==
  ASSUME NEW a, IsText(a), NEW b, IsText(b), NEW p \in Pairs(a, b)
  PROVE  /\ Place(a, p[1]) /\ Place(b, p[2]) /\ p[1] \in Nat /\ p = <<p[1], p[2]>>
         /\ Place(a, Onward(a, p[1])) /\ Onward(a, p[1]) \in Nat
         /\ <<Onward(a, p[1]), Onward(b, p[2])>> \in Pairs(a, b)
         /\ ~Over(a, p[1]) => Onward(a, p[1]) > p[1]
<1>1. Place(a, p[1]) /\ Place(b, p[2]) /\ p = <<p[1], p[2]>>
  BY DEF Pairs, Place
<1>2. Place(a, Onward(a, p[1])) /\ Place(b, Onward(b, p[2]))
      /\ (~Over(a, p[1]) => Onward(a, p[1]) > p[1])
  BY <1>1, OnwardIs
<1>3. p[1] \in Nat /\ Onward(a, p[1]) \in Nat
  BY <1>1, <1>2, PlaceIs
<1>4. <<Onward(a, p[1]), Onward(b, p[2])>> \in Pairs(a, b)
  BY <1>2 DEF Pairs, Place
<1> QED BY <1>1, <1>2, <1>3, <1>4

LEMMA RoundsExist ==
  ASSUME NEW a, IsText(a), NEW b, IsText(b), NEW n \in Nat
  PROVE  \E f : f = [p \in Rest(a, b, n) |-> Goes(a, b, f, p)]
<1> DEFINE Some(m) == \E f : f = [p \in Rest(a, b, m) |-> Goes(a, b, f, p)]
           T == {m \in Nat : ~Some(m)}
<1>1. SUFFICES ASSUME T # {} PROVE FALSE
  OBVIOUS
<1>2. PICK m \in T : \A l \in T : m <= l
  <2>1. T \subseteq Nat
    OBVIOUS
  <2> HIDE DEF T
  <2> QED BY <1>1, <2>1, Least
<1>3. m \in Nat /\ ~Some(m)
  OBVIOUS
<1>4. Len(a) \in Nat
  BY TextFacts
<1>5. CASE m = 0
  <2>1. \A p \in Pairs(a, b) : p[1] \in 1 .. Len(a) + 1
    BY DEF Pairs
  <2>2. Rest(a, b, 0) = {}
    BY <1>4, <2>1 DEF Rest
  <2> DEFINE g == [p \in {} |-> 0]
  <2>3. g = [p \in Rest(a, b, 0) |-> Goes(a, b, g, p)]
    BY <2>2
  <2> QED BY <1>3, <1>5, <2>3
<1>6. CASE m # 0
  <2>1. m - 1 \in Nat /\ m - 1 \notin T
    BY <1>2, <1>3, <1>6
  <2>2. Some(m - 1)
    BY <2>1
  <2>3. PICK f : f = [p \in Rest(a, b, m - 1) |-> Goes(a, b, f, p)]
    BY <2>2
  <2> DEFINE g == [p \in Rest(a, b, m) |-> Goes(a, b, f, p)]
  <2>4. ASSUME NEW p \in Rest(a, b, m)
        PROVE  Goes(a, b, f, p) = Goes(a, b, g, p)
    <3> DEFINE q == <<Onward(a, p[1]), Onward(b, p[2])>>
    <3>1. p \in Pairs(a, b) /\ p[1] > Len(a) + 1 - m
      BY DEF Rest
    <3>2. CASE Over(a, p[1])
      BY <3>2 DEF Goes
    <3>3. CASE ~Over(a, p[1])
      <4>1. q \in Pairs(a, b) /\ q[1] > p[1] /\ q[1] \in Nat /\ p[1] \in Nat
        BY <3>1, <3>3, PairsAre
      <4>2. q[1] > Len(a) + 1 - m /\ q[1] > Len(a) + 1 - (m - 1)
        BY <1>3, <1>4, <3>1, <4>1
      <4> HIDE DEF q
      <4>3. q \in Rest(a, b, m) /\ q \in Rest(a, b, m - 1)
        BY <4>1, <4>2 DEF Rest
      <4>4. g[q] = Goes(a, b, f, q) /\ f[q] = Goes(a, b, f, q)
        BY <2>3, <4>3, Zenon
      <4>5. f[q] = g[q]
        BY <4>4
      <4> QED BY <4>5 DEF Goes, q
    <3> QED BY <3>2, <3>3
  <2>5. g = [p \in Rest(a, b, m) |-> Goes(a, b, g, p)]
    <3>1. g = [p \in Rest(a, b, m) |-> Goes(a, b, f, p)]
      OBVIOUS
    <3> HIDE DEF g
    <3> QED BY <2>4, <3>1, Zenon
  <2> HIDE DEF g
  <2>6. Some(m)
    BY <2>5
  <2> QED BY <1>3, <2>6
<1> QED BY <1>5, <1>6

LEMMA CompareIs ==
  ASSUME NEW a, IsText(a), NEW b, IsText(b)
  PROVE  \E f : Compares(a, b, f) /\ CompareVersions(a, b) = f[<<1, 1>>]
<1> DEFINE g == CHOOSE f : f = [p \in Pairs(a, b) |-> Written(a, b, f, p)]
<1>1. CompareVersions(a, b) = g[<<1, 1>>]
  BY DEF CompareVersions, Written, Pairs
<1>2. \A f : [p \in Pairs(a, b) |-> Written(a, b, f, p)] = [p \in Pairs(a, b) |-> Goes(a, b, f, p)]
  BY WrittenSo, Zenon
<1>3. \E f : f = [p \in Pairs(a, b) |-> Written(a, b, f, p)]
  <2>1. Len(a) \in Nat /\ \A p \in Pairs(a, b) : p[1] \in 1 .. Len(a) + 1
    BY TextFacts DEF Pairs
  <2>2. Rest(a, b, Len(a) + 1) = Pairs(a, b)
    BY <2>1 DEF Rest
  <2>3. Len(a) + 1 \in Nat
    BY <2>1
  <2>4. \E f : f = [p \in Pairs(a, b) |-> Goes(a, b, f, p)]
    BY <2>2, <2>3, RoundsExist
  <2> QED BY <1>2, <2>4
<1>4. g = [p \in Pairs(a, b) |-> Written(a, b, g, p)]
  BY <1>3, Zenon
<1> HIDE DEF g
<1>5. Compares(a, b, g)
  BY <1>2, <1>4 DEF Compares
<1> QED BY <1>1, <1>5

LEMMA ComparesStep ==
  ASSUME NEW a, IsText(a), NEW b, IsText(b), NEW f, Compares(a, b, f), NEW p \in Pairs(a, b)
  PROVE  f[p] = Then(Turn(a, p[1], b, p[2]),
                     IF Over(a, p[1]) THEN 0 ELSE f[<<Onward(a, p[1]), Onward(b, p[2])>>])
<1>1. f = [q \in Pairs(a, b) |-> Goes(a, b, f, q)]
  BY DEF Compares
<1>2. f[p] = Goes(a, b, f, p)
  BY <1>1, Zenon
<1> QED BY <1>2 DEF Goes

LEMMA ComparesTypes ==
  ASSUME NEW a, IsText(a), NEW b, IsText(b), NEW f, Compares(a, b, f), NEW p \in Pairs(a, b)
  PROVE  f[p] \in Results
<1> DEFINE T == {m \in Nat : \E q \in Pairs(a, b) : f[q] \notin Results /\ m = Len(a) + 1 - q[1]}
<1>1. Len(a) \in Nat
  BY TextFacts
<1>2. SUFFICES ASSUME T # {} PROVE FALSE
  <2>1. p[1] \in 1 .. Len(a) + 1
    BY DEF Pairs
  <2>2. Len(a) + 1 - p[1] \in Nat
    BY <1>1, <2>1
  <2>3. T = {} => f[p] \in Results
    BY <2>2
  <2> QED BY <2>3
<1>3. PICK m \in T : \A l \in T : m <= l
  <2>1. T \subseteq Nat
    OBVIOUS
  <2> HIDE DEF T
  <2> QED BY <1>2, <2>1, Least
<1>4. PICK q \in Pairs(a, b) : f[q] \notin Results /\ m = Len(a) + 1 - q[1]
  OBVIOUS
<1> DEFINE r == <<Onward(a, q[1]), Onward(b, q[2])>>
           more == IF Over(a, q[1]) THEN 0 ELSE f[r]
<1>5. /\ Place(a, q[1]) /\ Place(b, q[2]) /\ q[1] \in Nat
      /\ r \in Pairs(a, b) /\ r[1] \in Nat /\ Place(a, r[1])
      /\ ~Over(a, q[1]) => r[1] > q[1]
  BY PairsAre
<1>6. f[q] = Then(Turn(a, q[1], b, q[2]), more)
  BY ComparesStep
<1>7. Turn(a, q[1], b, q[2]) \in Results
  BY <1>5, TurnOrder DEF Ordered
<1>8. more \in Results
  <2>1. CASE Over(a, q[1])
    BY <2>1 DEF Results
  <2>2. CASE ~Over(a, q[1])
    <3>1. r[1] > q[1] /\ r[1] \in 1 .. Len(a) + 1
      BY <1>5, <2>2 DEF Place
    <3> DEFINE l == Len(a) + 1 - r[1]
    <3>2. l \in Nat /\ ~(m <= l)
      BY <1>1, <1>4, <1>5, <3>1
    <3>3. f[r] \notin Results => l \in T
      <4> HIDE DEF r
      <4> QED BY <1>5, <3>2
    <3>4. f[r] \in Results
      <4> HIDE DEF T, r, l
      <4> QED BY <1>3, <3>2, <3>3
    <3> QED BY <2>2, <3>4
  <2> QED BY <2>1, <2>2
<1> HIDE DEF r, more, T
<1>9. f[q] \in Results
  BY <1>6, <1>7, <1>8, ThenTypes
<1> QED BY <1>4, <1>9

(* The rounds of a with b, b with a, b with c and a with c from the same     *)
(* positions on are ordered.                                                 *)
LEMMA ComparesOrdered ==
  ASSUME NEW a, IsText(a), NEW b, IsText(b), NEW c, IsText(c), NEW f, Compares(a, b, f),
         NEW g, Compares(b, a, g), NEW h, Compares(b, c, h), NEW e, Compares(a, c, e),
         NEW i, Place(a, i), NEW j, Place(b, j), NEW k, Place(c, k)
  PROVE  Ordered(f[<<i, j>>], g[<<j, i>>], h[<<j, k>>], e[<<i, k>>])
<1> DEFINE Good(x, y, z) == Ordered(f[<<x, y>>], g[<<y, x>>], h[<<y, z>>], e[<<x, z>>])
           T == {m \in Nat : \E x, y, z : /\ Place(a, x) /\ Place(b, y) /\ Place(c, z)
                                          /\ ~Good(x, y, z) /\ m = Len(a) + 1 - x}
<1>1. Len(a) \in Nat
  BY TextFacts
<1>2. ASSUME NEW x, Place(a, x)
      PROVE  Len(a) + 1 - x \in Nat /\ x \in Nat
  BY <1>1, <1>2 DEF Place
<1>3. SUFFICES ASSUME T # {} PROVE FALSE
  <2>1. Len(a) + 1 - i \in Nat
    BY <1>2
  <2> HIDE DEF Good
  <2>2. T = {} => Good(i, j, k)
    BY <2>1
  <2> QED BY <2>2 DEF Good
<1> HIDE DEF Good
<1>4. PICK m \in T : \A l \in T : m <= l
  <2>1. T \subseteq Nat
    OBVIOUS
  <2> HIDE DEF T
  <2> QED BY <1>3, <2>1, Least
<1>5. PICK x, y, z : /\ Place(a, x) /\ Place(b, y) /\ Place(c, z)
                     /\ ~Good(x, y, z) /\ m = Len(a) + 1 - x
  OBVIOUS
<1> DEFINE u == Onward(a, x)
           v == Onward(b, y)
           w == Onward(c, z)
           p1 == Turn(a, x, b, y)
           o1 == Turn(b, y, a, x)
           q1 == Turn(b, y, c, z)
           r1 == Turn(a, x, c, z)
           p2 == IF Over(a, x) THEN 0 ELSE f[<<u, v>>]
           o2 == IF Over(b, y) THEN 0 ELSE g[<<v, u>>]
           q2 == IF Over(b, y) THEN 0 ELSE h[<<v, w>>]
           r2 == IF Over(a, x) THEN 0 ELSE e[<<u, w>>]
<1>6. /\ <<x, y>> \in Pairs(a, b) /\ <<y, x>> \in Pairs(b, a)
      /\ <<y, z>> \in Pairs(b, c) /\ <<x, z>> \in Pairs(a, c)
  BY <1>5 DEF Pairs, Place
<1>7. /\ Place(a, u) /\ Place(b, v) /\ Place(c, w)
      /\ ~Over(a, x) => u > x
  BY <1>5, OnwardIs
<1>8. /\ <<u, v>> \in Pairs(a, b) /\ <<v, u>> \in Pairs(b, a)
      /\ <<v, w>> \in Pairs(b, c) /\ <<u, w>> \in Pairs(a, c)
  BY <1>7 DEF Pairs, Place
<1>9. f[<<x, y>>] = Then(p1, p2) /\ g[<<y, x>>] = Then(o1, o2)
  BY <1>6, ComparesStep
<1>10. h[<<y, z>>] = Then(q1, q2) /\ e[<<x, z>>] = Then(r1, r2)
  BY <1>6, ComparesStep
<1>11. /\ Ordered(p1, o1, q1, r1)
       /\ p1 = 0 => (Over(a, x) <=> Over(b, y))
       /\ q1 = 0 => (Over(b, y) <=> Over(c, z))
  BY <1>5, TurnOrder
<1>12. p2 \in Results /\ q2 \in Results /\ r2 \in Results
  <2>1. f[<<u, v>>] \in Results /\ h[<<v, w>>] \in Results /\ e[<<u, w>>] \in Results
    BY <1>8, ComparesTypes
  <2>2. 0 \in Results
    BY DEF Results
  <2> QED BY <2>1, <2>2
<1>13. ~Over(a, x) => Good(u, v, w)
  <2> SUFFICES ASSUME ~Over(a, x), ~Good(u, v, w)
               PROVE  FALSE
    OBVIOUS
  <2> DEFINE l == Len(a) + 1 - u
  <2>1. l \in Nat /\ ~(m <= l)
    BY <1>1, <1>2, <1>5, <1>7
  <2>2. l \in T
    <3> HIDE DEF u, v, w
    <3> QED BY <1>7, <2>1
  <2> HIDE DEF l, T
  <2> QED BY <1>4, <2>1, <2>2
<1>14. p1 = 0 => o2 = -p2
  <2>1. ~Over(a, x) => g[<<v, u>>] = -f[<<u, v>>]
    BY <1>13 DEF Good, Ordered
  <2> QED BY <1>11, <2>1
<1>15. p1 = 0 /\ q1 = 0 => Transitive(p2, q2, r2)
  <2>1. ~Over(a, x) => Transitive(f[<<u, v>>], h[<<v, w>>], e[<<u, w>>])
    BY <1>13 DEF Good, Ordered
  <2>2. Transitive(0, 0, 0)
    BY DEF Transitive
  <2> QED BY <1>11, <2>1, <2>2
<1> HIDE DEF p1, o1, q1, r1, p2, o2, q2, r2, T
<1>16. Ordered(Then(p1, p2), Then(o1, o2), Then(q1, q2), Then(r1, r2))
  BY <1>11, <1>12, <1>14, <1>15, ThenOrdered
<1> QED BY <1>5, <1>9, <1>10, <1>16 DEF Good

(* CompareVersions is a total preorder of all strings: of two, one is at     *)
(* least the other, whichever is given first (version.go:26-38), and no      *)
(* string is between two that are the same.                                  *)
THEOREM VersionsOrdered ==
  ASSUME NEW a, IsText(a), NEW b, IsText(b), NEW c, IsText(c)
  PROVE  /\ CompareVersions(a, b) \in Results
         /\ CompareVersions(b, a) = -CompareVersions(a, b)
         /\ Transitive(CompareVersions(a, b), CompareVersions(b, c), CompareVersions(a, c))
<1>1. Place(a, 1) /\ Place(b, 1) /\ Place(c, 1)
  BY TextFacts DEF Place
<1>2. PICK f : Compares(a, b, f) /\ CompareVersions(a, b) = f[<<1, 1>>]
  BY CompareIs
<1>3. PICK g : Compares(b, a, g) /\ CompareVersions(b, a) = g[<<1, 1>>]
  BY CompareIs
<1>4. PICK h : Compares(b, c, h) /\ CompareVersions(b, c) = h[<<1, 1>>]
  BY CompareIs
<1>5. PICK e : Compares(a, c, e) /\ CompareVersions(a, c) = e[<<1, 1>>]
  BY CompareIs
<1>6. Ordered(f[<<1, 1>>], g[<<1, 1>>], h[<<1, 1>>], e[<<1, 1>>])
  BY <1>1, <1>2, <1>3, <1>4, <1>5, ComparesOrdered
<1> QED BY <1>2, <1>3, <1>4, <1>5, <1>6 DEF Ordered

----------------------------------------------------------------------------
(* The lexicographic comparison of what is joined.                           *)
LEMMA LexicographicCases ==
  ASSUME NEW x \in Seq(Int), NEW y \in Seq(Int)
  PROVE  /\ Lexicographic(x, x) = 0
         /\ \/ x = y
            \/ \E k \in Nat : Below(x, y, k) /\ Lexicographic(x, y) = -1
            \/ \E k \in Nat : Below(y, x, k) /\ Lexicographic(x, y) = 1
BY LexicographicIs, NotBelowSelf

LEMMA BelowIs ==
  ASSUME NEW x \in Seq(Int), NEW y \in Seq(Int), NEW k \in Nat, Below(x, y, k)
  PROVE  Lexicographic(x, y) = -1 /\ Lexicographic(y, x) = 1
<1>1. Lexicographic(x, y) = -1
  BY LexicographicIs, NotBothBelow, NotBelowSelf
<1>2. Lexicographic(y, x) = 1
  BY LexicographicIs, NotBothBelow, NotBelowSelf
<1> QED BY <1>1, <1>2

(* Sequences that differ somewhere both have an element: what follows does   *)
(* not matter.                                                               *)
Differ(x, y, k) ==
  /\ k \in 1 .. Len(x) /\ k <= Len(y)
  /\ \A l \in 1 .. k - 1 : x[l] = y[l]
  /\ x[k] < y[k]

LEMMA DifferBelow ==
  ASSUME NEW x \in Seq(Int), NEW y \in Seq(Int), NEW k, Differ(x, y, k)
  PROVE  Lexicographic(x, y) = -1 /\ Lexicographic(y, x) = 1
<1>1. Len(x) \in Nat /\ Len(y) \in Nat /\ k \in Nat
  BY DEF Differ
<1>2. Below(x, y, k)
  BY <1>1 DEF Differ, Below
<1> QED BY <1>1, <1>2, BelowIs

LEMMA JoinIs ==
  ASSUME NEW x \in Seq(Int), NEW z \in Seq(Int)
  PROVE  /\ x \o z \in Seq(Int) /\ Len(x \o z) = Len(x) + Len(z)
         /\ Len(x) \in Nat /\ Len(z) \in Nat
         /\ \A k \in 1 .. Len(x) : (x \o z)[k] = x[k]
         /\ \A k \in 1 .. Len(z) : (x \o z)[Len(x) + k] = z[k]
OBVIOUS

LEMMA JoinDiffer ==
  ASSUME NEW x \in Seq(Int), NEW y \in Seq(Int), NEW u \in Seq(Int), NEW v \in Seq(Int),
         NEW k, Differ(x, y, k)
  PROVE  Differ(x \o u, y \o v, k)
<1>1. /\ Len(x \o u) = Len(x) + Len(u) /\ Len(y \o v) = Len(y) + Len(v)
      /\ Len(x) \in Nat /\ Len(u) \in Nat /\ Len(y) \in Nat /\ Len(v) \in Nat
      /\ \A l \in 1 .. Len(x) : (x \o u)[l] = x[l]
      /\ \A l \in 1 .. Len(y) : (y \o v)[l] = y[l]
  BY JoinIs
<1>2. k \in 1 .. Len(x \o u) /\ k <= Len(y \o v)
  BY <1>1 DEF Differ
<1>3. \A l \in 1 .. k : (x \o u)[l] = x[l] /\ (y \o v)[l] = y[l]
  BY <1>1 DEF Differ
<1>4. \A l \in 1 .. k - 1 : (x \o u)[l] = (y \o v)[l]
  BY <1>1, <1>3 DEF Differ
<1>5. (x \o u)[k] < (y \o v)[k]
  BY <1>1, <1>3 DEF Differ
<1> QED BY <1>2, <1>4, <1>5 DEF Differ

(* The same beginning does not matter.                                       *)
LEMMA JoinBelow ==
  ASSUME NEW x \in Seq(Int), NEW u \in Seq(Int), NEW v \in Seq(Int), NEW k \in Nat, Below(u, v, k)
  PROVE  Below(x \o u, x \o v, Len(x) + k)
<1> DEFINE p == x \o u
           q == x \o v
<1>1. /\ Len(p) = Len(x) + Len(u) /\ Len(q) = Len(x) + Len(v)
      /\ Len(x) \in Nat /\ Len(u) \in Nat /\ Len(v) \in Nat
      /\ \A l \in 1 .. Len(x) : p[l] = x[l] /\ q[l] = x[l]
      /\ \A l \in 1 .. Len(u) : p[Len(x) + l] = u[l]
      /\ \A l \in 1 .. Len(v) : q[Len(x) + l] = v[l]
  BY JoinIs
<1>a. p = x \o u /\ q = x \o v
  OBVIOUS
<1> HIDE DEF p, q
<1>2. /\ k \in 1 .. Len(v) /\ (k > Len(u) \/ u[k] < v[k])
      /\ \A l \in 1 .. k - 1 : l <= Len(u) /\ u[l] = v[l]
  BY DEF Below
<1>3. ASSUME NEW l \in 1 .. Len(x) + k - 1
      PROVE  l <= Len(p) /\ p[l] = q[l]
  <2>1. CASE l <= Len(x)
    BY <1>1, <2>1
  <2>2. CASE l > Len(x)
    <3> DEFINE m == l - Len(x)
    <3>1. m \in 1 .. k - 1 /\ m \in 1 .. Len(v) /\ l = Len(x) + m
      BY <1>1, <1>2, <2>2
    <3> HIDE DEF m
    <3>2. m <= Len(u) /\ u[m] = v[m]
      BY <1>2, <3>1
    <3> QED BY <1>1, <3>1, <3>2
  <2> QED BY <1>1, <2>1, <2>2
<1>4. Len(x) + k \in 1 .. Len(q)
  BY <1>1, <1>2
<1>5. Len(x) + k > Len(p) \/ p[Len(x) + k] < q[Len(x) + k]
  <2>1. CASE k > Len(u)
    BY <1>1, <2>1
  <2>2. CASE k <= Len(u)
    <3>1. p[Len(x) + k] = u[k] /\ q[Len(x) + k] = v[k] /\ u[k] < v[k]
      BY <1>1, <1>2, <2>2
    <3> QED BY <3>1
  <2> QED BY <1>1, <2>1, <2>2
<1>6. Len(x) + k \in Nat /\ (Len(x) + k) - 1 = Len(x) + k - 1
  BY <1>1
<1>7. Below(p, q, Len(x) + k)
  BY <1>3, <1>4, <1>5, <1>6 DEF Below
<1> QED BY <1>a, <1>7

LEMMA SameBegin ==
  ASSUME NEW x \in Seq(Int), NEW u \in Seq(Int), NEW v \in Seq(Int)
  PROVE  Lexicographic(x \o u, x \o v) = Lexicographic(u, v)
<1>1. x \o u \in Seq(Int) /\ x \o v \in Seq(Int) /\ Len(x) \in Nat
  BY JoinIs
<1> DEFINE p == x \o u
           q == x \o v
<1>2. p \in Seq(Int) /\ q \in Seq(Int) /\ (u = v => p = q)
  BY <1>1
<1>3. \A k \in Nat : /\ Below(u, v, k) => Below(p, q, Len(x) + k)
                     /\ Below(v, u, k) => Below(q, p, Len(x) + k)
  BY JoinBelow
<1>4. \A k \in Nat : Len(x) + k \in Nat
  BY <1>1
<1> HIDE DEF p, q
<1>5. ASSUME u = v PROVE Lexicographic(p, q) = Lexicographic(u, v)
  <2>1. Lexicographic(p, p) = 0 /\ Lexicographic(u, u) = 0
    BY <1>2, LexicographicCases
  <2> QED BY <1>2, <1>5, <2>1
<1>6. ASSUME NEW k \in Nat, Below(u, v, k), Lexicographic(u, v) = -1
      PROVE  Lexicographic(p, q) = -1
  BY <1>2, <1>3, <1>4, <1>6, BelowIs
<1>7. ASSUME NEW k \in Nat, Below(v, u, k), Lexicographic(u, v) = 1
      PROVE  Lexicographic(p, q) = 1
  BY <1>2, <1>3, <1>4, <1>7, BelowIs
<1>8. Lexicographic(p, q) = Lexicographic(u, v)
  <2>1. \/ u = v
        \/ \E k \in Nat : Below(u, v, k) /\ Lexicographic(u, v) = -1
        \/ \E k \in Nat : Below(v, u, k) /\ Lexicographic(u, v) = 1
    BY LexicographicCases
  <2> QED BY <1>5, <1>6, <1>7, <2>1
<1> QED BY <1>8 DEF p, q

(* Beginnings of the same length are compared first.                         *)
LEMMA BeginFirst ==
  ASSUME NEW x \in Seq(Int), NEW y \in Seq(Int), NEW u \in Seq(Int), NEW v \in Seq(Int),
         Len(x) = Len(y)
  PROVE  Lexicographic(x \o u, y \o v) = Then(Lexicographic(x, y), Lexicographic(u, v))
<1>1. x \o u \in Seq(Int) /\ y \o v \in Seq(Int) /\ Len(x) \in Nat /\ Len(y) \in Nat
  BY JoinIs
<1>2. CASE x = y
  <2>1. Lexicographic(x, y) = 0
    BY <1>2, LexicographicCases
  <2>2. Lexicographic(x \o u, y \o v) = Lexicographic(u, v)
    BY <1>2, SameBegin
  <2> QED BY <2>1, <2>2 DEF Then
<1>3. ASSUME NEW k \in Nat, Below(x, y, k), Lexicographic(x, y) = -1
      PROVE  Lexicographic(x \o u, y \o v) = -1
  <2>1. Differ(x, y, k)
    BY <1>1, <1>3 DEF Differ, Below
  <2> QED BY <1>1, <2>1, JoinDiffer, DifferBelow
<1>4. ASSUME NEW k \in Nat, Below(y, x, k), Lexicographic(x, y) = 1
      PROVE  Lexicographic(x \o u, y \o v) = 1
  <2>1. Differ(y, x, k)
    BY <1>1, <1>4 DEF Differ, Below
  <2> QED BY <1>1, <2>1, JoinDiffer, DifferBelow
<1>5. \/ x = y
      \/ \E k \in Nat : Below(x, y, k) /\ Lexicographic(x, y) = -1
      \/ \E k \in Nat : Below(y, x, k) /\ Lexicographic(x, y) = 1
  BY LexicographicCases
<1> QED BY <1>2, <1>3, <1>4, <1>5 DEF Then

LEMMA One ==
  ASSUME NEW m \in Int, NEW n \in Int
  PROVE  /\ <<m>> \in Seq(Int) /\ Len(<<m>>) = 1
         /\ Lexicographic(<<m>>, <<n>>) = Sign(m - n)
<1>1. <<m>> \in Seq(Int) /\ <<n>> \in Seq(Int) /\ Len(<<m>>) = 1 /\ Len(<<n>>) = 1
      /\ <<m>>[1] = m /\ <<n>>[1] = n
  OBVIOUS
<1> DEFINE x == <<m>>
           y == <<n>>
<1>2. x \in Seq(Int) /\ y \in Seq(Int) /\ Len(x) = 1 /\ Len(y) = 1 /\ x[1] = m /\ y[1] = n
  BY <1>1
<1>3. m = n => x = y
  OBVIOUS
<1> HIDE DEF x, y
<1>4. CASE m = n
  <2>1. Lexicographic(x, y) = 0
    BY <1>2, <1>3, <1>4, LexicographicCases
  <2> QED BY <1>2, <1>4, <2>1 DEF Sign, x, y
<1>5. CASE m < n
  <2>1. Differ(x, y, 1)
    BY <1>2, <1>5 DEF Differ
  <2>2. Lexicographic(x, y) = -1
    BY <1>2, <2>1, DifferBelow
  <2> QED BY <1>2, <1>5, <2>2 DEF Sign, x, y
<1>6. CASE m > n
  <2>1. Differ(y, x, 1)
    BY <1>2, <1>6 DEF Differ
  <2>2. Lexicographic(x, y) = 1
    BY <1>2, <2>1, DifferBelow
  <2> QED BY <1>2, <1>6, <2>2 DEF Sign, x, y
<1> QED BY <1>4, <1>5, <1>6

LEMMA OneFirst ==
  ASSUME NEW m \in Int, NEW n \in Int, NEW u \in Seq(Int), NEW v \in Seq(Int)
  PROVE  /\ <<m>> \o u \in Seq(Int)
         /\ Lexicographic(<<m>> \o u, <<n>> \o v) = Then(Sign(m - n), Lexicographic(u, v))
<1>1. <<m>> \in Seq(Int) /\ <<n>> \in Seq(Int) /\ Len(<<m>>) = Len(<<n>>)
  BY One
<1>2. Lexicographic(<<m>>, <<n>>) = Sign(m - n)
  BY One
<1>3. Lexicographic(<<m>> \o u, <<n>> \o v) = Then(Lexicographic(<<m>>, <<n>>), Lexicographic(u, v))
  BY <1>1, BeginFirst, Zenon
<1>4. <<m>> \o u \in Seq(Int)
  BY <1>1, JoinIs, Zenon
<1> QED BY <1>2, <1>3, <1>4

(* Words with an end that is less than any letter, whatever follows.         *)
Closed(s) == s \o <<0>>
Positive(s) == \A l \in 1 .. Len(s) : s[l] > 0

LEMMA ClosedIs ==
  ASSUME NEW s \in Seq(Int)
  PROVE  /\ Closed(s) \in Seq(Int) /\ Len(Closed(s)) = Len(s) + 1 /\ Len(s) \in Nat
         /\ \A l \in 1 .. Len(s) : Closed(s)[l] = s[l]
         /\ Closed(s)[Len(s) + 1] = 0
BY DEF Closed

LEMMA ClosedDiffer ==
  ASSUME NEW s \in Seq(Int), NEW t \in Seq(Int), NEW k \in Nat, Below(s, t, k), Positive(t)
  PROVE  Differ(Closed(s), Closed(t), k)
<1> DEFINE u == Closed(s)
           v == Closed(t)
<1>1. /\ Len(u) = Len(s) + 1 /\ Len(s) \in Nat /\ u[Len(s) + 1] = 0
      /\ \A l \in 1 .. Len(s) : u[l] = s[l]
      /\ Len(v) = Len(t) + 1 /\ Len(t) \in Nat
      /\ \A l \in 1 .. Len(t) : v[l] = t[l]
  BY ClosedIs
<1> HIDE DEF u, v
<1>2. /\ k \in 1 .. Len(t) /\ (k > Len(s) \/ s[k] < t[k])
      /\ \A l \in 1 .. k - 1 : l <= Len(s) /\ s[l] = t[l]
  BY DEF Below
<1>3. k - 1 <= Len(s)
  <2>1. k - 1 = 0 \/ k - 1 \in 1 .. k - 1
    BY <1>1, <1>2
  <2> QED BY <1>1, <1>2, <2>1
<1>4. k \in 1 .. Len(u) /\ k <= Len(v)
  BY <1>1, <1>2, <1>3
<1>5. ASSUME NEW l \in 1 .. k - 1
      PROVE  u[l] = v[l]
  <2>1. l \in 1 .. Len(s) /\ l \in 1 .. Len(t) /\ s[l] = t[l]
    BY <1>1, <1>2
  <2> QED BY <1>1, <2>1
<1>6. v[k] = t[k] /\ t[k] > 0
  BY <1>1, <1>2 DEF Positive
<1>7. u[k] < v[k]
  <2>1. CASE k > Len(s)
    <3>1. k = Len(s) + 1
      BY <1>1, <1>2, <1>3, <2>1
    <3> QED BY <1>1, <1>6, <3>1
  <2>2. CASE k <= Len(s)
    <3>1. k \in 1 .. Len(s) /\ ~(k > Len(s))
      BY <1>1, <1>2, <2>2
    <3>2. u[k] = s[k] /\ s[k] < t[k]
      BY <1>1, <1>2, <3>1
    <3> QED BY <1>6, <3>2
  <2> QED BY <1>1, <1>2, <2>1, <2>2
<1> QED BY <1>4, <1>5, <1>7 DEF Differ, u, v

LEMMA WordFirst ==
  ASSUME NEW x \in Seq(Int), NEW y \in Seq(Int), NEW u \in Seq(Int), NEW v \in Seq(Int),
         Positive(x), Positive(y)
  PROVE  Lexicographic(Closed(x) \o u, Closed(y) \o v) = Then(Lexicographic(x, y), Lexicographic(u, v))
<1>1. Closed(x) \in Seq(Int) /\ Closed(y) \in Seq(Int)
  BY ClosedIs
<1>2. Closed(x) \o u \in Seq(Int) /\ Closed(y) \o v \in Seq(Int)
  BY <1>1, JoinIs
<1>3. CASE x = y
  <2>1. Lexicographic(x, y) = 0
    BY <1>3, LexicographicCases
  <2>2. Lexicographic(Closed(x) \o u, Closed(y) \o v) = Lexicographic(u, v)
    BY <1>1, <1>3, SameBegin
  <2> QED BY <2>1, <2>2 DEF Then
<1>4. ASSUME NEW k \in Nat, Below(x, y, k), Lexicographic(x, y) = -1
      PROVE  Lexicographic(Closed(x) \o u, Closed(y) \o v) = -1
  <2>1. Differ(Closed(x), Closed(y), k)
    BY <1>4, ClosedDiffer
  <2>2. Differ(Closed(x) \o u, Closed(y) \o v, k)
    BY <1>1, <2>1, JoinDiffer
  <2> QED BY <1>2, <2>2, DifferBelow
<1>5. ASSUME NEW k \in Nat, Below(y, x, k), Lexicographic(x, y) = 1
      PROVE  Lexicographic(Closed(x) \o u, Closed(y) \o v) = 1
  <2>1. Differ(Closed(y), Closed(x), k)
    BY <1>5, ClosedDiffer
  <2>2. Differ(Closed(y) \o v, Closed(x) \o u, k)
    BY <1>1, <2>1, JoinDiffer
  <2> QED BY <1>2, <2>2, DifferBelow
<1>6. \/ x = y
      \/ \E k \in Nat : Below(x, y, k) /\ Lexicographic(x, y) = -1
      \/ \E k \in Nat : Below(y, x, k) /\ Lexicographic(x, y) = 1
  BY LexicographicCases
<1> QED BY <1>3, <1>4, <1>5, <1>6 DEF Then

----------------------------------------------------------------------------
(* The parts of a key.                                                       *)
LEMMA CodePositive ==
  /\ \A c \in DOMAIN Code : Code[c] \in Int /\ Code[c] > 0
  /\ Digits \cap Letters = {}
<1> DEFINE S == {Ascii[l] : l \in DOMAIN Ascii}
<1>1. DOMAIN Ascii = 1 .. 33
  BY DEF Ascii
<1>2. DOMAIN Code = S /\ \A c \in S : Code[c] = CHOOSE l \in DOMAIN Ascii : Ascii[l] = c
  BY DEF Code
<1>3. ASSUME NEW c \in S
      PROVE  Code[c] \in 1 .. 33 /\ Ascii[Code[c]] = c
  <2>1. Code[c] \in DOMAIN Ascii /\ Ascii[Code[c]] = c
    BY <1>2
  <2> QED BY <1>1, <2>1
<1>4. ASSUME NEW c \in S
      PROVE  Code[c] \in Int /\ Code[c] > 0
  BY <1>3
<1>5. /\ Ascii[1] = "+" /\ Ascii[2] = "-" /\ Ascii[3] = "." /\ Ascii[4] = "0" /\ Ascii[5] = "1"
      /\ Ascii[6] = "2" /\ Ascii[7] = "3" /\ Ascii[8] = "4" /\ Ascii[9] = "8" /\ Ascii[10] = "9"
      /\ Ascii[11] = "A" /\ Ascii[12] = "^" /\ Ascii[13] = "_"
  BY DEF Ascii
<1>a. /\ Ascii[14] = "a" /\ Ascii[15] = "b" /\ Ascii[16] = "c" /\ Ascii[17] = "d" /\ Ascii[18] = "e"
      /\ Ascii[19] = "f" /\ Ascii[20] = "k" /\ Ascii[21] = "m" /\ Ascii[22] = "n" /\ Ascii[23] = "o"
      /\ Ascii[24] = "p" /\ Ascii[25] = "r" /\ Ascii[26] = "s" /\ Ascii[27] = "t" /\ Ascii[28] = "u"
      /\ Ascii[29] = "v" /\ Ascii[30] = "w" /\ Ascii[31] = "x" /\ Ascii[32] = "y" /\ Ascii[33] = "~"
  BY DEF Ascii
<1>6. Digits \subseteq S /\ "a" \in S
  <2>1. Digits \subseteq S
    <3>1. \A l \in 1 .. 33 : Ascii[l] \in S
      BY <1>1
    <3> HIDE DEF S
    <3>2. Ascii[4] \in S /\ Ascii[5] \in S /\ Ascii[6] \in S /\ Ascii[7] \in S
          /\ Ascii[8] \in S /\ Ascii[9] \in S /\ Ascii[10] \in S
      BY <3>1
    <3> QED BY <1>5, <3>2 DEF Digits
  <2>2. Ascii[14] \in S
    BY <1>1
  <2> QED BY <1>a, <2>1, <2>2
<1> HIDE DEF S
<1>7. ASSUME NEW c \in Letters
      PROVE  c = "A" \/ Code[c] >= Code["a"]
  BY DEF Letters
<1>8. Code["a"] > 13
  <2>1. ASSUME NEW l \in 1 .. 13
        PROVE  Ascii[l] # "a"
    <3>1. l \in {1, 2, 3, 4, 5, 6, 7, 8, 9, 10, 11, 12, 13}
      OBVIOUS
    <3> QED BY <1>5, <3>1
  <2>2. Code["a"] \in 1 .. 33 /\ Ascii[Code["a"]] = "a"
    BY <1>3, <1>6
  <2> QED BY <2>1, <2>2
<1>9. ASSUME NEW c \in Digits
      PROVE  c \notin Letters
  <2>1. c # "A"
    BY DEF Digits
  <2>2. Code[c] \in 1 .. 33 /\ Ascii[Code[c]] = c
    BY <1>3, <1>6
  <2>3. ASSUME NEW l \in 14 .. 33
        PROVE  Ascii[l] \notin Digits
    <3>1. l \in {14, 15, 16, 17, 18, 19, 20, 21, 22, 23, 24, 25, 26, 27, 28, 29, 30, 31, 32, 33}
      OBVIOUS
    <3> QED BY <1>a, <3>1 DEF Digits
  <2>4. Code[c] < 14
    BY <2>2, <2>3
  <2>5. Code["a"] \in Int
    BY <1>4, <1>6
  <2> QED BY <1>7, <1>8, <2>1, <2>2, <2>4, <2>5
<1> QED BY <1>2, <1>4, <1>9

LEMMA CodesPositive ==
  ASSUME NEW w \in Seq(DOMAIN Code)
  PROVE  Codes(w) \in Seq(Int) /\ Positive(Codes(w)) /\ Len(Codes(w)) = Len(w)
<1>1. Len(w) \in Nat /\ DOMAIN w = 1 .. Len(w) /\ \A l \in 1 .. Len(w) : w[l] \in DOMAIN Code
  BY LenProperties
<1>2. Codes(w) = [l \in 1 .. Len(w) |-> Code[w[l]]]
  BY <1>1 DEF Codes
<1>3. \A l \in 1 .. Len(w) : Code[w[l]] \in Int /\ Code[w[l]] > 0
  BY <1>1, CodePositive
<1>4. Codes(w) \in Seq(Int) /\ Len(Codes(w)) = Len(w)
  BY <1>1, <1>2, <1>3
<1>5. Positive(Codes(w))
  BY <1>2, <1>3, <1>4 DEF Positive
<1> QED BY <1>4, <1>5

Absent(s, i, n) == IF Marked(s, i, n) THEN 0 ELSE 1

LEMMA AbsentMarks ==
  ASSUME NEW a, NEW i, NEW b, NEW j, NEW n
  PROVE  /\ Absent(a, i, n) \in Int
         /\ Sign(Absent(a, i, n) - Absent(b, j, n)) = Marks(a, i, b, j, n)
<1>1. CASE Marked(a, i, n)
  BY <1>1 DEF Absent, Marks, CmpBool, Sign
<1>2. CASE ~Marked(a, i, n)
  BY <1>2 DEF Absent, Marks, CmpBool, Sign
<1> QED BY <1>1, <1>2

(* What is at place p.                                                       *)
Body(s, p) ==
  IF IsIn(s, p, Digits) THEN <<1, Len(Number(s, p))>> \o Codes(Number(s, p))
                        ELSE <<0>> \o Codes(Word(s, p)) \o <<0>>

LEMMA NumberText ==
  ASSUME NEW s, IsText(s), NEW p, Place(s, p)
  PROVE  Number(s, p) \in Seq(DOMAIN Code)
<1> DEFINE l == Past(s, p, Digits)
           z == Past(s, p, {"0"})
<1>1. /\ Len(s) \in Nat /\ p \in Nat
      /\ l \in p .. Len(s) + 1 /\ (\A m \in p .. l - 1 : s[m] \in Digits)
      /\ z \in p .. Len(s) + 1 /\ Place(s, z)
  <2>1. Len(s) \in Nat /\ p \in Nat
    BY TextFacts, PlaceIs
  <2>2. l \in p .. Len(s) + 1 /\ (\A m \in p .. l - 1 : s[m] \in Digits)
    BY PastIs, Zenon
  <2>3. z \in p .. Len(s) + 1 /\ Place(s, z)
    BY PastIs, Zenon
  <2> QED BY <2>1, <2>2, <2>3
<1>2. Number(s, p) = SubSeq(s, z, l - 1)
  BY DEF Number, Significant
<1> HIDE DEF l, z
<1>3. \A m \in z .. l - 1 : s[m] \in DOMAIN Code
  BY <1>1, CodeIs
<1> QED BY <1>1, <1>2, <1>3, SubSeqProperties

LEMMA WordText ==
  ASSUME NEW s, IsText(s), NEW p, Place(s, p)
  PROVE  Word(s, p) \in Seq(DOMAIN Code)
BY PastIs, PieceIs, CodeIs DEF Word

(* A body with u behind it. *)
AsNumber(s, p, u) ==
  /\ Body(s, p) \o u = <<1>> \o (<<Len(Number(s, p))>> \o (Codes(Number(s, p)) \o u))
  /\ Body(s, p) \in Seq(Int) /\ Body(s, p) \o u \in Seq(Int)
  /\ Codes(Number(s, p)) \in Seq(Int) /\ Len(Number(s, p)) \in Nat
  /\ Len(Codes(Number(s, p))) = Len(Number(s, p))

AsWord(s, p, u) ==
  /\ Body(s, p) \o u = <<0>> \o (Closed(Codes(Word(s, p))) \o u)
  /\ Body(s, p) \in Seq(Int) /\ Body(s, p) \o u \in Seq(Int)
  /\ Codes(Word(s, p)) \in Seq(Int) /\ Positive(Codes(Word(s, p)))

LEMMA NumberBody ==
  ASSUME NEW s, IsText(s), NEW p, Place(s, p), IsIn(s, p, Digits), NEW u \in Seq(Int)
  PROVE  AsNumber(s, p, u)
<1> DEFINE c == Codes(Number(s, p))
           n == Len(Number(s, p))
<1>1. c \in Seq(Int) /\ n \in Nat /\ Len(c) = n
  BY NumberText, CodesPositive, LenProperties
<1>2. Body(s, p) = <<1, n>> \o c
  BY DEF Body
<1> HIDE DEF c, n
<1>3. /\ (<<1, n>> \o c) \o u = <<1>> \o (<<n>> \o (c \o u))
      /\ <<1, n>> \o c \in Seq(Int) /\ (<<1, n>> \o c) \o u \in Seq(Int)
  BY <1>1
<1> QED BY <1>1, <1>2, <1>3 DEF c, n, AsNumber

LEMMA WordBody ==
  ASSUME NEW s, IsText(s), NEW p, Place(s, p), ~IsIn(s, p, Digits), NEW u \in Seq(Int)
  PROVE  AsWord(s, p, u)
<1> DEFINE c == Codes(Word(s, p))
<1>1. c \in Seq(Int) /\ Positive(c)
  BY WordText, CodesPositive
<1>2. Body(s, p) = <<0>> \o c \o <<0>>
  BY DEF Body
<1> HIDE DEF c
<1>3. /\ (<<0>> \o c \o <<0>>) \o u = <<0>> \o ((c \o <<0>>) \o u)
      /\ <<0>> \o c \o <<0>> \in Seq(Int) /\ (<<0>> \o c \o <<0>>) \o u \in Seq(Int)
  BY <1>1
<1> QED BY <1>1, <1>2, <1>3 DEF c, Closed, AsWord

(* The contents of two segments are compared first, then what follows.       *)
LEMMA BodyFirst ==
  ASSUME NEW a, IsText(a), NEW p, Place(a, p), NEW b, IsText(b), NEW q, Place(b, q),
         NEW u \in Seq(Int), NEW v \in Seq(Int)
  PROVE  Lexicographic(Body(a, p) \o u, Body(b, q) \o v)
           = Then(Content(a, p, b, q), Lexicographic(u, v))
<1> DEFINE da == IsIn(a, p, Digits)
           db == IsIn(b, q, Digits)
           size == Sign(Len(Number(a, p)) - Len(Number(b, q)))
           number == Lexicographic(Codes(Number(a, p)), Codes(Number(b, q)))
           word == Lexicographic(Codes(Word(a, p)), Codes(Word(b, q)))
           rest == Lexicographic(u, v)
           x == Body(a, p) \o u
           y == Body(b, q) \o v
<1>a. (da => AsNumber(a, p, u)) /\ (~da => AsWord(a, p, u))
  BY NumberBody, WordBody
<1>b. (db => AsNumber(b, q, v)) /\ (~db => AsWord(b, q, v))
  BY NumberBody, WordBody
<1>c. da \in BOOLEAN /\ db \in BOOLEAN
  BY DEF IsIn
<1>d. CmpBool(da, db) = IF da <=> db THEN 0 ELSE IF da THEN 1 ELSE -1
  BY <1>c DEF CmpBool
<1>1. Content(a, p, b, q) = Then(CmpBool(da, db), IF da THEN Then(size, number) ELSE word)
  BY ContentIs
<1>2. CASE da /\ db
  <2> DEFINE c == Codes(Number(a, p))
             d == Codes(Number(b, q))
             m == Len(Number(a, p))
             n == Len(Number(b, q))
  <2>1. x = <<1>> \o (<<m>> \o (c \o u)) /\ c \in Seq(Int) /\ m \in Nat /\ Len(c) = m
    BY <1>a, <1>b, <1>2 DEF AsNumber
  <2>2. y = <<1>> \o (<<n>> \o (d \o v)) /\ d \in Seq(Int) /\ n \in Nat /\ Len(d) = n
    BY <1>a, <1>b, <1>2 DEF AsNumber
  <2>3. Content(a, p, b, q) = Then(size, number)
    BY <1>1, <1>d, <1>2 DEF Then
  <2>4. size = Sign(m - n) /\ number = Lexicographic(c, d)
    OBVIOUS
  <2> HIDE DEF x, y, c, d, m, n, size, number
  <2>5. c \o u \in Seq(Int) /\ d \o v \in Seq(Int) /\ m \in Int /\ n \in Int
    BY <2>1, <2>2, JoinIs
  <2> DEFINE cu == c \o u
             dv == d \o v
  <2>6. cu \in Seq(Int) /\ dv \in Seq(Int)
    BY <2>5
  <2>7. m = n => Lexicographic(cu, dv) = Then(number, rest)
    BY <2>1, <2>2, <2>4, BeginFirst
  <2> HIDE DEF cu, dv, rest
  <2>8. /\ <<m>> \o cu \in Seq(Int) /\ <<n>> \o dv \in Seq(Int)
        /\ Lexicographic(<<m>> \o cu, <<n>> \o dv) = Then(size, Lexicographic(cu, dv))
    BY <2>4, <2>5, <2>6, OneFirst
  <2>9. Lexicographic(x, y) = Then(Sign(1 - 1), Lexicographic(<<m>> \o cu, <<n>> \o dv))
    <3>1. 1 \in Int
      OBVIOUS
    <3>2. x = <<1>> \o (<<m>> \o cu) /\ y = <<1>> \o (<<n>> \o dv)
      BY <2>1, <2>2 DEF cu, dv
    <3> QED BY <2>8, <3>1, <3>2, OneFirst, Zenon
  <2>10. Lexicographic(x, y) = Then(size, Lexicographic(cu, dv))
    BY <2>8, <2>9 DEF Sign, Then
  <2>11. m # n => size # 0
    BY <2>4, <2>5 DEF Sign
  <2>12. Then(size, Lexicographic(cu, dv)) = Then(Then(size, number), rest)
    <3>1. CASE m = n
      <4>1. size = 0
        BY <2>4, <2>5, <3>1 DEF Sign
      <4> QED BY <2>7, <3>1, <4>1 DEF Then
    <3>2. CASE m # n
      BY <2>11, <3>2 DEF Then
    <3> QED BY <3>1, <3>2
  <2> QED BY <2>3, <2>10, <2>12 DEF x, y, rest
<1>3. CASE ~da /\ ~db
  <2> DEFINE c == Codes(Word(a, p))
             d == Codes(Word(b, q))
  <2>1. x = <<0>> \o (Closed(c) \o u) /\ c \in Seq(Int) /\ Positive(c)
    BY <1>a, <1>b, <1>3 DEF AsWord
  <2>2. y = <<0>> \o (Closed(d) \o v) /\ d \in Seq(Int) /\ Positive(d)
    BY <1>a, <1>b, <1>3 DEF AsWord
  <2>3. Content(a, p, b, q) = word
    BY <1>1, <1>d, <1>3 DEF Then
  <2>4. word = Lexicographic(c, d)
    OBVIOUS
  <2> HIDE DEF x, y, c, d, word
  <2> DEFINE cu == Closed(c) \o u
             dv == Closed(d) \o v
  <2>5. cu \in Seq(Int) /\ dv \in Seq(Int)
    BY <2>1, <2>2, ClosedIs, JoinIs
  <2>6. Lexicographic(cu, dv) = Then(word, rest)
    BY <2>1, <2>2, <2>4, WordFirst
  <2> HIDE DEF rest
  <2>7. Lexicographic(x, y) = Then(Sign(0 - 0), Lexicographic(cu, dv))
    <3>1. 0 \in Int
      OBVIOUS
    <3>2. x = <<0>> \o cu /\ y = <<0>> \o dv
      BY <2>1, <2>2
    <3> HIDE DEF cu, dv
    <3> QED BY <2>5, <3>1, <3>2, OneFirst, Zenon
  <2> HIDE DEF cu, dv
  <2>8. Lexicographic(x, y) = Lexicographic(cu, dv)
    BY <2>7 DEF Sign, Then
  <2> QED BY <2>3, <2>6, <2>8 DEF x, y, rest
<1>4. CASE da /\ ~db
  <2> DEFINE w == <<Len(Number(a, p))>> \o (Codes(Number(a, p)) \o u)
             z == Closed(Codes(Word(b, q))) \o v
  <2>1. x = <<1>> \o w /\ w \in Seq(Int)
    <3>1. x = <<1>> \o w /\ Codes(Number(a, p)) \in Seq(Int) /\ Len(Number(a, p)) \in Nat
      BY <1>a, <1>b, <1>4 DEF AsNumber
    <3>2. Codes(Number(a, p)) \o u \in Seq(Int)
      BY <3>1, JoinIs
    <3>3. Len(Number(a, p)) \in Int
      BY <3>1
    <3> QED BY <3>1, <3>2, <3>3, OneFirst, Zenon
  <2>2. y = <<0>> \o z /\ z \in Seq(Int)
    <3>1. y = <<0>> \o z /\ Codes(Word(b, q)) \in Seq(Int)
      BY <1>a, <1>b, <1>4 DEF AsWord
    <3>2. Closed(Codes(Word(b, q))) \in Seq(Int)
      BY <3>1, ClosedIs
    <3>3. z \in Seq(Int)
      BY <3>2, JoinIs, Zenon
    <3> QED BY <3>1, <3>3
  <2> HIDE DEF x, y, w, z
  <2>3. Lexicographic(x, y) = Then(Sign(1 - 0), Lexicographic(w, z))
    <3>1. 0 \in Int /\ 1 \in Int
      OBVIOUS
    <3> QED BY <2>1, <2>2, <3>1, OneFirst, Zenon
  <2>4. Lexicographic(x, y) = 1
    BY <2>3 DEF Sign, Then
  <2>5. Content(a, p, b, q) = 1
    BY <1>1, <1>d, <1>4 DEF Then
  <2> QED BY <2>4, <2>5 DEF x, y, Then
<1>5. CASE ~da /\ db
  <2> DEFINE w == <<Len(Number(b, q))>> \o (Codes(Number(b, q)) \o v)
             z == Closed(Codes(Word(a, p))) \o u
  <2>1. y = <<1>> \o w /\ w \in Seq(Int)
    <3>1. y = <<1>> \o w /\ Codes(Number(b, q)) \in Seq(Int) /\ Len(Number(b, q)) \in Nat
      BY <1>a, <1>b, <1>5 DEF AsNumber
    <3>2. Codes(Number(b, q)) \o v \in Seq(Int)
      BY <3>1, JoinIs
    <3>3. Len(Number(b, q)) \in Int
      BY <3>1
    <3> QED BY <3>1, <3>2, <3>3, OneFirst, Zenon
  <2>2. x = <<0>> \o z /\ z \in Seq(Int)
    <3>1. x = <<0>> \o z /\ Codes(Word(a, p)) \in Seq(Int)
      BY <1>a, <1>b, <1>5 DEF AsWord
    <3>2. Closed(Codes(Word(a, p))) \in Seq(Int)
      BY <3>1, ClosedIs
    <3>3. z \in Seq(Int)
      BY <3>2, JoinIs, Zenon
    <3> QED BY <3>1, <3>3
  <2> HIDE DEF x, y, w, z
  <2>3. Lexicographic(x, y) = Then(Sign(0 - 1), Lexicographic(z, w))
    <3>1. 0 \in Int /\ 1 \in Int
      OBVIOUS
    <3>2. Lexicographic(<<0>> \o z, <<1>> \o w) = Then(Sign(0 - 1), Lexicographic(z, w))
      BY <2>1, <2>2, <3>1, OneFirst
    <3> QED BY <2>1, <2>2, <3>2
  <2>4. Lexicographic(x, y) = -1
    BY <2>3 DEF Sign, Then
  <2>5. Content(a, p, b, q) = -1
    BY <1>1, <1>d, <1>5 DEF Then
  <2> QED BY <2>4, <2>5 DEF x, y, Then
<1> QED BY <1>2, <1>3, <1>4, <1>5

(* Where the characters are no longer of chars. *)
LEMMA PastUnique ==
  ASSUME NEW s, IsText(s), NEW i, Place(s, i), NEW chars, NEW k \in i .. Len(s) + 1,
         \A l \in i .. k - 1 : s[l] \in chars, ~IsIn(s, k, chars)
  PROVE  Past(s, i, chars) = k
<1> DEFINE p == Past(s, i, chars)
<1>1. /\ p \in i .. Len(s) + 1 /\ (\A l \in i .. p - 1 : s[l] \in chars)
      /\ ~IsIn(s, p, chars)
  BY PastIs, Zenon
<1>2. i \in Nat /\ Len(s) \in Nat
  BY TextFacts, PlaceIs
<1> HIDE DEF p
<1>3. ASSUME p < k
      PROVE  FALSE
  <2>1. p \in i .. k - 1 /\ ~(p > Len(s))
    BY <1>1, <1>2, <1>3
  <2> QED BY <1>1, <2>1 DEF IsIn, Ended
<1>4. ASSUME k < p
      PROVE  FALSE
  <2>1. k \in i .. p - 1 /\ ~(k > Len(s))
    BY <1>1, <1>2, <1>4
  <2> QED BY <1>1, <2>1 DEF IsIn, Ended
<1>5. p = k
  BY <1>1, <1>2, <1>3, <1>4
<1> QED BY <1>5 DEF p

(* The digits and letters that Key reads. *)
DigitsAt(s, p) == SubSeq(s, p, Past(s, p, Digits) - 1)
ValueOf(d) == SubSeq(d, Past(d, 1, {"0"}), Len(d))

LEMMA CutText ==
  ASSUME NEW s, IsText(s), NEW p, Place(s, p), NEW k \in p .. Len(s) + 1
  PROVE  LET d == SubSeq(s, p, k - 1)
         IN /\ IsText(d) /\ Len(d) = k - p /\ p \in Nat /\ k \in Nat /\ p <= k
            /\ \A l \in 1 .. k - p : d[l] = s[p + l - 1]
<1>1. Len(s) \in Nat /\ p \in Nat /\ k \in Nat /\ p <= k /\ k <= Len(s) + 1 /\ 1 <= p
  <2>1. Len(s) \in Nat /\ p \in 1 .. Len(s) + 1
    BY TextFacts DEF Place
  <2> QED BY <2>1
<1>2. \A l \in 1 .. Len(s) : s[l] \in STRING
  BY DEF IsText
<1>3. p \in Int /\ k - 1 \in Int /\ \A l \in p .. k - 1 : s[l] \in STRING
  BY <1>1, <1>2
<1> DEFINE d == SubSeq(s, p, k - 1)
<1>4. /\ d \in Seq(STRING)
      /\ Len(d) = IF p <= k - 1 THEN (k - 1) - p + 1 ELSE 0
      /\ \A l \in 1 .. (k - 1) - p + 1 : d[l] = s[p + l - 1]
  BY <1>3, SubSeqProperties
<1> HIDE DEF d
<1>5. Len(d) = k - p /\ (k - 1) - p + 1 = k - p
  BY <1>1, <1>4
<1>6. \A l \in 1 .. k - p : d[l] = s[p + l - 1]
  BY <1>4, <1>5
<1> QED BY <1>1, <1>4, <1>5, <1>6 DEF d, IsText

LEMMA ValueIs ==
  ASSUME NEW s, IsText(s), NEW p, Place(s, p)
  PROVE  ValueOf(DigitsAt(s, p)) = Number(s, p)
<1> DEFINE k == Past(s, p, Digits)
           d == DigitsAt(s, p)
           z == Past(d, 1, {"0"})
           y == p + z - 1
<1>1. /\ k \in p .. Len(s) + 1 /\ ~IsIn(s, k, Digits)
      /\ \A l \in p .. k - 1 : s[l] \in Digits
  BY PastIs, Zenon
<1>2. /\ IsText(d) /\ Len(d) = k - p /\ p \in Nat /\ k \in Nat /\ p <= k
      /\ \A l \in 1 .. k - p : d[l] = s[p + l - 1]
  BY <1>1, CutText DEF DigitsAt
<1>3. Place(d, 1)
  BY <1>2, TextFacts DEF Place
<1>4. z \in 1 .. Len(d) + 1 /\ ~IsIn(d, z, {"0"}) /\ \A l \in 1 .. z - 1 : d[l] \in {"0"}
  BY <1>2, <1>3, PastIs, Zenon
<1>5. ValueOf(d) = SubSeq(d, z, Len(d)) /\ Number(s, p) = SubSeq(s, Past(s, p, {"0"}), k - 1)
  BY DEF ValueOf, Number, Significant
<1>6. Len(s) \in Nat /\ k <= Len(s) + 1
  BY <1>1, <1>2, TextFacts
<1>7. y = p + z - 1 /\ z \in Nat /\ z <= k - p + 1 /\ 1 <= z
  BY <1>2, <1>4
<1> HIDE DEF k, d, z, y
<1>8. y \in p .. Len(s) + 1 /\ y \in Nat /\ y <= k
  BY <1>2, <1>6, <1>7
<1>9. \A l \in p .. y - 1 : s[l] \in {"0"}
  <2> SUFFICES ASSUME NEW l \in p .. y - 1
               PROVE  s[l] \in {"0"}
    OBVIOUS
  <2> DEFINE m == l - p + 1
  <2>1. m \in 1 .. z - 1 /\ m \in 1 .. k - p /\ p + m - 1 = l
    BY <1>2, <1>7
  <2> HIDE DEF m
  <2> QED BY <1>2, <1>4, <2>1
<1>10. ~IsIn(s, y, {"0"})
  <2>1. CASE z <= k - p
    <3>1. z \in 1 .. k - p
      BY <1>2, <1>7, <2>1
    <3>2. d[z] = s[y] /\ ~(z > Len(d))
      BY <1>2, <1>7, <3>1
    <3> QED BY <1>4, <3>2 DEF IsIn, Ended
  <2>2. CASE z > k - p
    <3>1. y = k
      BY <1>2, <1>7, <2>2
    <3>2. "0" \in Digits
      BY DEF Digits
    <3> QED BY <1>1, <3>1, <3>2 DEF IsIn
  <2> QED BY <1>2, <1>7, <2>1, <2>2
<1>11. Past(s, p, {"0"}) = y
  BY <1>8, <1>9, <1>10, PastUnique
<1>12. Place(s, y) /\ k \in y .. Len(s) + 1
  BY <1>2, <1>6, <1>7, <1>8 DEF Place
<1> DEFINE v == SubSeq(s, y, k - 1)
           w == SubSeq(d, z, (Len(d) + 1) - 1)
<1>13. IsText(v) /\ Len(v) = k - y /\ \A l \in 1 .. k - y : v[l] = s[y + l - 1]
  BY <1>12, CutText
<1>14. Place(d, z) /\ Len(d) + 1 \in z .. Len(d) + 1
  BY <1>2, <1>4 DEF Place
<1>15. IsText(w) /\ Len(w) = (Len(d) + 1) - z /\ \A l \in 1 .. (Len(d) + 1) - z : w[l] = d[z + l - 1]
  BY <1>2, <1>14, CutText
<1> HIDE DEF v, w
<1>16. (Len(d) + 1) - z = k - y /\ (Len(d) + 1) - 1 = Len(d)
  BY <1>2, <1>7, <1>8
<1>17. \A l \in 1 .. k - y : v[l] = w[l]
  <2> SUFFICES ASSUME NEW l \in 1 .. k - y
               PROVE  v[l] = w[l]
    OBVIOUS
  <2> DEFINE m == z + l - 1
  <2>1. m \in 1 .. k - p /\ p + m - 1 = y + l - 1 /\ l \in 1 .. (Len(d) + 1) - z
    BY <1>2, <1>7, <1>8, <1>16
  <2>2. w[l] = d[m]
    BY <1>15, <2>1
  <2> HIDE DEF m
  <2>3. d[m] = s[p + m - 1]
    BY <1>2, <2>1
  <2> QED BY <1>13, <2>1, <2>2, <2>3
<1>18. v = w
  <2>1. Len(v) = Len(w) /\ \A l \in 1 .. Len(v) : v[l] = w[l]
    BY <1>13, <1>15, <1>16, <1>17
  <2> QED BY <1>13, <1>15, <2>1, SeqEqual DEF IsText
<1> QED BY <1>5, <1>11, <1>16, <1>18 DEF v, w, d

----------------------------------------------------------------------------
(* The key from each place on.                                               *)
Lead(s, i) == <<Absent(s, i, 1), 1, Absent(s, i, 2), Absent(s, i, 3), Absent(s, i, 4)>>

Grown(s, f, i) ==
  IF Over(s, i) THEN <<Absent(s, i, 1), 0>>
  ELSE Lead(s, i) \o Body(s, Start(s, i)) \o f[Onward(s, i)]

Places(s) == 1 .. Len(s) + 1

IsKeyOf(s, f) == f = [i \in Places(s) |-> Grown(s, f, i)]

(* A part of it as Key has it.                                               *)
KeyWritten(s, f, i) ==
  LET x == Steps(s, i)
      digits == SubSeq(s, x[5], Past(s, x[5], Digits) - 1)
      letters == SubSeq(s, x[5], Past(s, x[5], Letters) - 1)
      value == SubSeq(digits, Past(digits, 1, {"0"}), Len(digits))
      absent == [n \in 1..4 |-> IF Has(s, x[n], Separators[n]) THEN 0 ELSE 1]
  IN IF Ended(s, x[2]) THEN <<absent[1], 0>>
     ELSE <<absent[1], 1, absent[2], absent[3], absent[4]>>
          \o (IF digits # <<>> THEN <<1, Len(value)>> \o Codes(value)
                               ELSE <<0>> \o Codes(letters) \o <<0>>)
          \o f[x[5] + Len(digits) + Len(letters)]

LEMMA DigitsHere ==
  ASSUME NEW s, IsText(s), NEW p, Place(s, p), IsIn(s, p, Digits)
  PROVE  /\ DigitsAt(s, p) # <<>>
         /\ p + Len(DigitsAt(s, p)) + Len(Word(s, p)) = Past(s, p, Digits)
<1> DEFINE k == Past(s, p, Digits)
           d == DigitsAt(s, p)
           w == Word(s, p)
<1>1. k \in p .. Len(s) + 1 /\ k > p
  BY PastIs, Zenon
<1>2. IsText(d) /\ Len(d) = k - p /\ p \in Nat /\ k \in Nat
  BY <1>1, CutText DEF DigitsAt
<1>3. ~IsIn(s, p, Letters)
  BY CodePositive DEF IsIn
<1>4. Past(s, p, Letters) = p /\ p \in p .. Len(s) + 1
  BY <1>3, PastIs
<1>5. Len(w) = p - p
  BY <1>4, CutText DEF Word
<1> HIDE DEF k, d, w
<1>6. Len(d) # 0
  BY <1>1, <1>2
<1>7. d # <<>>
  BY <1>6
<1>8. p + Len(d) + Len(w) = k
  BY <1>2, <1>5
<1> QED BY <1>7, <1>8 DEF k, d, w

LEMMA LettersHere ==
  ASSUME NEW s, IsText(s), NEW p, Place(s, p), ~IsIn(s, p, Digits)
  PROVE  /\ DigitsAt(s, p) = <<>>
         /\ p + Len(DigitsAt(s, p)) + Len(Word(s, p)) = Past(s, p, Letters)
<1> DEFINE k == Past(s, p, Letters)
           d == DigitsAt(s, p)
           w == Word(s, p)
<1>1. k \in p .. Len(s) + 1
  BY PastIs, Zenon
<1>2. Len(w) = k - p /\ p \in Nat /\ k \in Nat
  BY <1>1, CutText DEF Word
<1>3. Past(s, p, Digits) = p /\ p \in p .. Len(s) + 1
  BY PastIs
<1>4. IsText(d) /\ Len(d) = p - p
  BY <1>3, CutText DEF DigitsAt
<1> HIDE DEF k, d, w
<1>5. Len(d) = 0
  BY <1>2, <1>4
<1>6. d = <<>>
  BY <1>4, <1>5, EmptySeq DEF IsText
<1>7. p + Len(d) + Len(w) = k
  BY <1>2, <1>5
<1> QED BY <1>6, <1>7 DEF k, d, w

LEMMA KeyWrittenSo ==
  ASSUME NEW s, IsText(s), NEW f, NEW i \in Places(s)
  PROVE  KeyWritten(s, f, i) = Grown(s, f, i)
<1> DEFINE p == Start(s, i)
           d == DigitsAt(s, p)
           w == Word(s, p)
           body == IF d # <<>> THEN <<1, Len(ValueOf(d))>> \o Codes(ValueOf(d))
                               ELSE <<0>> \o Codes(w) \o <<0>>
<1>1. Place(s, i) /\ Place(s, p)
  BY StepsAre DEF Place, Places, Start
<1> DEFINE ab == [n \in 1..4 |-> IF Has(s, Steps(s, i)[n], Separators[n]) THEN 0 ELSE 1]
<1>a. KeyWritten(s, f, i) =
        IF Over(s, i) THEN <<ab[1], 0>>
        ELSE <<ab[1], 1, ab[2], ab[3], ab[4]>> \o body \o f[p + Len(d) + Len(w)]
  BY Zenon DEF KeyWritten, Over, DigitsAt, ValueOf, Word, Start
<1>b. ab[1] = Absent(s, i, 1) /\ ab[2] = Absent(s, i, 2) /\ ab[3] = Absent(s, i, 3)
      /\ ab[4] = Absent(s, i, 4)
  BY DEF Absent, Marked
<1> HIDE DEF ab
<1>2. KeyWritten(s, f, i) =
        IF Over(s, i) THEN <<Absent(s, i, 1), 0>> ELSE Lead(s, i) \o body \o f[p + Len(d) + Len(w)]
  BY <1>a, <1>b, Zenon DEF Lead
<1>3. body = Body(s, p)
  <2>1. CASE IsIn(s, p, Digits)
    <3>1. d # <<>> /\ ValueOf(d) = Number(s, p)
      BY <1>1, <2>1, DigitsHere, ValueIs
    <3> HIDE DEF p, d, w
    <3> QED BY <2>1, <3>1 DEF Body
  <2>2. CASE ~IsIn(s, p, Digits)
    <3>1. d = <<>>
      BY <1>1, <2>2, LettersHere
    <3> HIDE DEF p, d
    <3> QED BY <2>2, <3>1 DEF Body
  <2> QED BY <2>1, <2>2
<1>4. p + Len(d) + Len(w) = Onward(s, i)
  <2>1. CASE IsIn(s, p, Digits)
    BY <1>1, <2>1, DigitsHere DEF Onward
  <2>2. CASE ~IsIn(s, p, Digits)
    BY <1>1, <2>2, LettersHere DEF Onward
  <2> QED BY <2>1, <2>2
<1> QED BY <1>2, <1>3, <1>4 DEF Grown

Later(s, n) == {i \in Places(s) : i > Len(s) + 1 - n}

LEMMA PlacesAre ==
  ASSUME NEW s, IsText(s), NEW i \in Places(s)
  PROVE  /\ Place(s, i) /\ i \in Nat /\ Len(s) \in Nat
         /\ Onward(s, i) \in Places(s) /\ Onward(s, i) \in Nat
         /\ ~Over(s, i) => Onward(s, i) > i
<1>1. Place(s, i)
  BY DEF Place, Places
<1>2. Place(s, Onward(s, i)) /\ (~Over(s, i) => Onward(s, i) > i)
  BY <1>1, OnwardIs
<1> QED BY <1>1, <1>2, PlaceIs, TextFacts DEF Place, Places

(* Joining one integer after the other. *)
Put(m, u) == <<m>> \o u

LEMMA PutIs ==
  ASSUME NEW m \in Int, NEW u \in Seq(Int)
  PROVE  /\ Put(m, u) \in Seq(Int) /\ Len(Put(m, u)) = Len(u) + 1 /\ Len(u) \in Nat
         /\ Put(m, u)[1] = m
         /\ \A l \in 1 .. Len(u) : Put(m, u)[l + 1] = u[l]
BY DEF Put

(* Joining two sequences. *)
Join(u, v) == u \o v

LEMMA JoinAssociates ==
  ASSUME NEW u \in Seq(Int), NEW v \in Seq(Int), NEW w \in Seq(Int)
  PROVE  Join(u, v) \in Seq(Int) /\ Join(Join(u, v), w) = Join(u, Join(v, w))
<1>1. u \o v \in Seq(Int)
  OBVIOUS
<1> DEFINE uv == u \o v
           vw == v \o w
           x == uv \o w
           y == u \o vw
<1>2. /\ uv \in Seq(Int) /\ Len(uv) = Len(u) + Len(v) /\ Len(u) \in Nat /\ Len(v) \in Nat
      /\ \A l \in 1 .. Len(u) : uv[l] = u[l]
      /\ \A l \in 1 .. Len(v) : uv[Len(u) + l] = v[l]
  BY JoinIs
<1>3. /\ vw \in Seq(Int) /\ Len(vw) = Len(v) + Len(w) /\ Len(w) \in Nat
      /\ \A l \in 1 .. Len(v) : vw[l] = v[l]
      /\ \A l \in 1 .. Len(w) : vw[Len(v) + l] = w[l]
  BY JoinIs
<1> HIDE DEF uv, vw
<1>4. /\ x \in Seq(Int) /\ Len(x) = Len(uv) + Len(w)
      /\ \A l \in 1 .. Len(uv) : x[l] = uv[l]
      /\ \A l \in 1 .. Len(w) : x[Len(uv) + l] = w[l]
  BY <1>2, JoinIs
<1>5. /\ y \in Seq(Int) /\ Len(y) = Len(u) + Len(vw)
      /\ \A l \in 1 .. Len(u) : y[l] = u[l]
      /\ \A l \in 1 .. Len(vw) : y[Len(u) + l] = vw[l]
  BY <1>3, JoinIs
<1> HIDE DEF x, y
<1>6. ASSUME NEW l \in 1 .. Len(x)
      PROVE  x[l] = y[l]
  <2>1. CASE l <= Len(u)
    <3>1. l \in 1 .. Len(u) /\ l \in 1 .. Len(uv)
      BY <1>2, <1>4, <2>1
    <3> QED BY <1>2, <1>4, <1>5, <3>1
  <2>2. CASE l > Len(u) /\ l <= Len(u) + Len(v)
    <3> DEFINE n == l - Len(u)
    <3>1. n \in 1 .. Len(v) /\ n \in 1 .. Len(vw) /\ l \in 1 .. Len(uv) /\ l = Len(u) + n
      BY <1>2, <1>3, <1>4, <2>2
    <3> HIDE DEF n
    <3>2. y[Len(u) + n] = vw[n] /\ vw[n] = v[n] /\ uv[Len(u) + n] = v[n] /\ x[l] = uv[l]
      BY <1>2, <1>3, <1>4, <1>5, <3>1
    <3> QED BY <3>1, <3>2
  <2>3. CASE l > Len(u) + Len(v)
    <3> DEFINE n == l - (Len(u) + Len(v))
    <3>1. /\ n \in 1 .. Len(w) /\ Len(v) + n \in 1 .. Len(vw)
          /\ l = Len(uv) + n /\ l = Len(u) + (Len(v) + n)
      BY <1>2, <1>3, <1>4, <2>3
    <3> HIDE DEF n
    <3>2. y[Len(u) + (Len(v) + n)] = vw[Len(v) + n] /\ vw[Len(v) + n] = w[n] /\ x[Len(uv) + n] = w[n]
      BY <1>3, <1>4, <1>5, <3>1
    <3> QED BY <3>1, <3>2
  <2> QED BY <1>2, <2>1, <2>2, <2>3
<1>7. Len(x) = Len(y)
  BY <1>2, <1>3, <1>4, <1>5
<1>8. x = y
  BY <1>4, <1>5, <1>6, <1>7, SeqEqual
<1> QED BY <1>1, <1>8, Zenon DEF Join, x, y, uv, vw

LEMMA PutJoins ==
  ASSUME NEW m \in Int, NEW t \in Seq(Int), NEW u \in Seq(Int)
  PROVE  Join(Put(m, t), u) = Put(m, Join(t, u))
<1> DEFINE one == <<m>>
<1>1. one \in Seq(Int) /\ \A x : Put(m, x) = Join(one, x)
  BY DEF Put, Join
<1> HIDE DEF one
<1>2. Join(Join(one, t), u) = Join(one, Join(t, u))
  BY <1>1, JoinAssociates, Zenon
<1> QED BY <1>1, <1>2

TuplePuts(m1, m2, m3, m4, m5) ==
  /\ <<m4, m5>> = Put(m4, <<m5>>)
  /\ <<m3, m4, m5>> = Put(m3, <<m4, m5>>)
  /\ <<m2, m3, m4, m5>> = Put(m2, <<m3, m4, m5>>)
  /\ <<m1, m2, m3, m4, m5>> = Put(m1, <<m2, m3, m4, m5>>)

LEMMA TuplePut ==
  ASSUME NEW m1 \in Int, NEW m2 \in Int, NEW m3 \in Int, NEW m4 \in Int, NEW m5 \in Int
  PROVE  TuplePuts(m1, m2, m3, m4, m5)
<1>1. <<m4, m5>> = Put(m4, <<m5>>)
  <2> DEFINE t == <<m5>>
             w == <<m4, m5>>
             p == Put(m4, t)
  <2>1. t \in Seq(Int) /\ Len(t) = 1 /\ t[1] = m5
    OBVIOUS
  <2>2. w \in Seq(Int) /\ Len(w) = 2 /\ w[1] = m4 /\ w[2] = m5
    OBVIOUS
  <2> HIDE DEF t, w
  <2>3. /\ p \in Seq(Int) /\ Len(p) = Len(t) + 1 /\ p[1] = m4
        /\ \A l \in 1 .. Len(t) : p[l + 1] = t[l]
    BY <2>1, PutIs, Zenon
  <2> HIDE DEF p
  <2>4. p[1 + 1] = t[1]
    BY <2>1, <2>3
  <2>5. Len(p) = 2 /\ p[2] = t[1]
    BY <2>1, <2>3, <2>4
  <2>6. \A l \in 1 .. 2 : l = 1 \/ l = 2
    OBVIOUS
  <2>7. \A l \in 1 .. Len(p) : w[l] = p[l]
    BY <2>1, <2>2, <2>3, <2>5, <2>6
  <2>8. w = p
    BY <2>2, <2>3, <2>5, <2>7, SeqEqual
  <2> QED BY <2>8 DEF p, t, w
<1>2. <<m3, m4, m5>> = Put(m3, <<m4, m5>>)
  <2> DEFINE t == <<m4, m5>>
             w == <<m3, m4, m5>>
             p == Put(m3, t)
  <2>1. t \in Seq(Int) /\ Len(t) = 2 /\ t[1] = m4 /\ t[2] = m5
    OBVIOUS
  <2>2. w \in Seq(Int) /\ Len(w) = 3 /\ w[1] = m3 /\ w[2] = m4 /\ w[3] = m5
    OBVIOUS
  <2> HIDE DEF t, w
  <2>3. /\ p \in Seq(Int) /\ Len(p) = Len(t) + 1 /\ p[1] = m3
        /\ \A l \in 1 .. Len(t) : p[l + 1] = t[l]
    BY <2>1, PutIs, Zenon
  <2> HIDE DEF p
  <2>4. p[1 + 1] = t[1] /\ p[2 + 1] = t[2]
    BY <2>1, <2>3
  <2>5. Len(p) = 3 /\ p[2] = t[1] /\ p[3] = t[2]
    BY <2>1, <2>3, <2>4
  <2>6. \A l \in 1 .. 3 : l = 1 \/ l = 2 \/ l = 3
    OBVIOUS
  <2>7. \A l \in 1 .. Len(p) : w[l] = p[l]
    BY <2>1, <2>2, <2>3, <2>5, <2>6
  <2>8. w = p
    BY <2>2, <2>3, <2>5, <2>7, SeqEqual
  <2> QED BY <2>8 DEF p, t, w
<1>3. <<m2, m3, m4, m5>> = Put(m2, <<m3, m4, m5>>)
  <2> DEFINE t == <<m3, m4, m5>>
             w == <<m2, m3, m4, m5>>
             p == Put(m2, t)
  <2>1. t \in Seq(Int) /\ Len(t) = 3 /\ t[1] = m3 /\ t[2] = m4 /\ t[3] = m5
    OBVIOUS
  <2>2. w \in Seq(Int) /\ Len(w) = 4 /\ w[1] = m2 /\ w[2] = m3 /\ w[3] = m4 /\ w[4] = m5
    OBVIOUS
  <2> HIDE DEF t, w
  <2>3. /\ p \in Seq(Int) /\ Len(p) = Len(t) + 1 /\ p[1] = m2
        /\ \A l \in 1 .. Len(t) : p[l + 1] = t[l]
    BY <2>1, PutIs, Zenon
  <2> HIDE DEF p
  <2>4. p[1 + 1] = t[1] /\ p[2 + 1] = t[2] /\ p[3 + 1] = t[3]
    BY <2>1, <2>3
  <2>5. Len(p) = 4 /\ p[2] = t[1] /\ p[3] = t[2] /\ p[4] = t[3]
    BY <2>1, <2>3, <2>4
  <2>6. \A l \in 1 .. 4 : l = 1 \/ l = 2 \/ l = 3 \/ l = 4
    OBVIOUS
  <2>7. \A l \in 1 .. Len(p) : w[l] = p[l]
    BY <2>1, <2>2, <2>3, <2>5, <2>6
  <2>8. w = p
    BY <2>2, <2>3, <2>5, <2>7, SeqEqual
  <2> QED BY <2>8 DEF p, t, w
<1>4. <<m1, m2, m3, m4, m5>> = Put(m1, <<m2, m3, m4, m5>>)
  <2> DEFINE t == <<m2, m3, m4, m5>>
             w == <<m1, m2, m3, m4, m5>>
             p == Put(m1, t)
  <2>1. t \in Seq(Int) /\ Len(t) = 4 /\ t[1] = m2 /\ t[2] = m3 /\ t[3] = m4 /\ t[4] = m5
    OBVIOUS
  <2>2. w \in Seq(Int) /\ Len(w) = 5 /\ w[1] = m1 /\ w[2] = m2 /\ w[3] = m3 /\ w[4] = m4 /\ w[5] = m5
    OBVIOUS
  <2> HIDE DEF t, w
  <2>3. /\ p \in Seq(Int) /\ Len(p) = Len(t) + 1 /\ p[1] = m1
        /\ \A l \in 1 .. Len(t) : p[l + 1] = t[l]
    BY <2>1, PutIs, Zenon
  <2> HIDE DEF p
  <2>4. p[1 + 1] = t[1] /\ p[2 + 1] = t[2] /\ p[3 + 1] = t[3] /\ p[4 + 1] = t[4]
    BY <2>1, <2>3
  <2>5. Len(p) = 5 /\ p[2] = t[1] /\ p[3] = t[2] /\ p[4] = t[3] /\ p[5] = t[4]
    BY <2>1, <2>3, <2>4
  <2>6. \A l \in 1 .. 5 : l = 1 \/ l = 2 \/ l = 3 \/ l = 4 \/ l = 5
    OBVIOUS
  <2>7. \A l \in 1 .. Len(p) : w[l] = p[l]
    BY <2>1, <2>2, <2>3, <2>5, <2>6
  <2>8. w = p
    BY <2>2, <2>3, <2>5, <2>7, SeqEqual
  <2> QED BY <2>8 DEF p, t, w
<1> QED BY <1>1, <1>2, <1>3, <1>4, Zenon DEF TuplePuts

FivePuts(m1, m2, m3, m4, m5, u) ==
  /\ <<m1, m2, m3, m4, m5>> \in Seq(Int)
  /\ Join(<<m1, m2, m3, m4, m5>>, u) = Put(m1, Put(m2, Put(m3, Put(m4, Put(m5, u)))))

LEMMA FivePut ==
  ASSUME NEW m1 \in Int, NEW m2 \in Int, NEW m3 \in Int, NEW m4 \in Int, NEW m5 \in Int, NEW u \in Seq(Int)
  PROVE  FivePuts(m1, m2, m3, m4, m5, u)
<1> DEFINE t1 == <<m5>>
           t2 == <<m4, m5>>
           t3 == <<m3, m4, m5>>
           t4 == <<m2, m3, m4, m5>>
           t5 == <<m1, m2, m3, m4, m5>>
<1>1. t1 \in Seq(Int) /\ t2 \in Seq(Int) /\ t3 \in Seq(Int) /\ t4 \in Seq(Int) /\ t5 \in Seq(Int)
  OBVIOUS
<1>2. t2 = Put(m4, t1) /\ t3 = Put(m3, t2) /\ t4 = Put(m2, t3) /\ t5 = Put(m1, t4)
  <2>1. TuplePuts(m1, m2, m3, m4, m5)
    BY TuplePut, Zenon
  <2> QED BY <2>1, Zenon DEF TuplePuts
<1>5. Join(t1, u) = Put(m5, u)
  BY DEF Put, Join
<1> HIDE DEF t1, t2, t3, t4, t5
<1>6. Join(t2, u) = Put(m4, Join(t1, u))
  BY <1>1, <1>2, PutJoins
<1>7. Join(t3, u) = Put(m3, Join(t2, u))
  BY <1>1, <1>2, PutJoins
<1>8. Join(t4, u) = Put(m2, Join(t3, u))
  BY <1>1, <1>2, PutJoins
<1>9. Join(t5, u) = Put(m1, Join(t4, u))
  BY <1>1, <1>2, PutJoins
<1>10. Join(t5, u) = Put(m1, Put(m2, Put(m3, Put(m4, Put(m5, u)))))
  BY <1>5, <1>6, <1>7, <1>8, <1>9, Zenon
<1> QED BY <1>1, <1>10, Zenon DEF t5, FivePuts

LEMMA PutFirst ==
  ASSUME NEW m \in Int, NEW n \in Int, NEW u \in Seq(Int), NEW v \in Seq(Int)
  PROVE  /\ Put(m, u) \in Seq(Int)
         /\ Lexicographic(Put(m, u), Put(n, v)) = Then(Sign(m - n), Lexicographic(u, v))
BY OneFirst DEF Put

FourFirsts(m2, n2, m3, n3, m4, n4, u, v) ==
  /\ Put(1, Put(m2, Put(m3, Put(m4, u)))) \in Seq(Int)
  /\ Lexicographic(Put(1, Put(m2, Put(m3, Put(m4, u)))), Put(1, Put(n2, Put(n3, Put(n4, v)))))
       = Then(Sign(m2 - n2), Then(Sign(m3 - n3), Then(Sign(m4 - n4), Lexicographic(u, v))))

PutsFirst(m, n, u, v) == Lexicographic(Put(m, u), Put(n, v)) = Then(Sign(m - n), Lexicographic(u, v))

LEMMA PutsAre ==
  ASSUME NEW m \in Int, NEW n \in Int, NEW u \in Seq(Int), NEW v \in Seq(Int)
  PROVE  PutsFirst(m, n, u, v)
BY PutFirst DEF PutsFirst

LEMMA FourFirst ==
  ASSUME NEW m2 \in Int, NEW n2 \in Int, NEW m3 \in Int, NEW n3 \in Int,
         NEW m4 \in Int, NEW n4 \in Int, NEW u \in Seq(Int), NEW v \in Seq(Int)
  PROVE  FourFirsts(m2, n2, m3, n3, m4, n4, u, v)
<1> DEFINE u4 == Put(m4, u)
           v4 == Put(n4, v)
           u3 == Put(m3, u4)
           v3 == Put(n3, v4)
           u2 == Put(m2, u3)
           v2 == Put(n2, v3)
           u1 == Put(1, u2)
           v1 == Put(1, v2)
<1>1. /\ u4 \in Seq(Int) /\ v4 \in Seq(Int)
      /\ Lexicographic(u4, v4) = Then(Sign(m4 - n4), Lexicographic(u, v))
  BY PutFirst
<1> HIDE DEF u4, v4
<1>2. /\ u3 \in Seq(Int) /\ v3 \in Seq(Int)
      /\ Lexicographic(u3, v3) = Then(Sign(m3 - n3), Lexicographic(u4, v4))
  BY <1>1, PutFirst
<1> HIDE DEF u3, v3
<1>3. /\ u2 \in Seq(Int) /\ v2 \in Seq(Int)
      /\ Lexicographic(u2, v2) = Then(Sign(m2 - n2), Lexicographic(u3, v3))
  BY <1>2, PutFirst
<1> HIDE DEF u2, v2
<1>4. /\ u1 \in Seq(Int)
      /\ Lexicographic(u1, v1) = Then(Sign(1 - 1), Lexicographic(u2, v2))
  <2>1. 1 \in Int
    OBVIOUS
  <2> QED BY <1>3, <2>1, PutFirst
<1> HIDE DEF u1, v1
<1>5. Lexicographic(u1, v1) = Lexicographic(u2, v2)
  BY <1>4 DEF Sign, Then
<1>6. Lexicographic(u1, v1) = Then(Sign(m2 - n2), Then(Sign(m3 - n3), Then(Sign(m4 - n4), Lexicographic(u, v))))
  BY <1>1, <1>2, <1>3, <1>5, Zenon
<1> QED BY <1>4, <1>6, Zenon DEF FourFirsts, u1, v1, u2, v2, u3, v3, u4, v4

(* What is left of a string that is not over. *)
LEMMA GrownOn ==
  ASSUME NEW s, IsText(s), NEW i \in Places(s), NEW f, ~Over(s, i), f[Onward(s, i)] \in Seq(Int)
  PROVE  /\ Body(s, Start(s, i)) \o f[Onward(s, i)] \in Seq(Int)
         /\ Grown(s, f, i) =
              Put(Absent(s, i, 1), Put(1, Put(Absent(s, i, 2), Put(Absent(s, i, 3),
                Put(Absent(s, i, 4), Body(s, Start(s, i)) \o f[Onward(s, i)])))))
<1> DEFINE b == Body(s, Start(s, i))
           r == f[Onward(s, i)]
           a1 == Absent(s, i, 1)
           a2 == Absent(s, i, 2)
           a3 == Absent(s, i, 3)
           a4 == Absent(s, i, 4)
<1>1. a1 \in Int /\ a2 \in Int /\ a3 \in Int /\ a4 \in Int
  BY AbsentMarks
<1>2. Place(s, Start(s, i))
  BY StepsAre DEF Place, Places, Start
<1>3. b \in Seq(Int) /\ r \in Seq(Int)
  BY <1>2, NumberBody, WordBody DEF AsNumber, AsWord
<1>4. Grown(s, f, i) = Join(Join(<<a1, 1, a2, a3, a4>>, b), r)
  BY DEF Grown, Lead, Join
<1> HIDE DEF b, r, a1, a2, a3, a4
<1>5. b \o r \in Seq(Int) /\ Join(b, r) = b \o r
  BY <1>3 DEF Join
<1>8. 1 \in Int
  OBVIOUS
<1> DEFINE lead == <<a1, 1, a2, a3, a4>>
<1>6. lead \in Seq(Int) /\ Join(lead, Join(b, r)) = Put(a1, Put(1, Put(a2, Put(a3, Put(a4, Join(b, r))))))
  <2>1. Join(b, r) \in Seq(Int)
    BY <1>5
  <2>2. FivePuts(a1, 1, a2, a3, a4, Join(b, r))
    BY <1>1, <1>8, <2>1, FivePut, Zenon
  <2> QED BY <2>2, Zenon DEF FivePuts
<1>7. Grown(s, f, i) = Join(lead, Join(b, r))
  <2> HIDE DEF lead
  <2>1. Grown(s, f, i) = Join(Join(lead, b), r)
    BY <1>4 DEF lead
  <2> QED BY <1>3, <1>6, <2>1, JoinAssociates, Zenon
<1> HIDE DEF lead
<1>9. Grown(s, f, i) = Put(a1, Put(1, Put(a2, Put(a3, Put(a4, b \o r)))))
  BY <1>5, <1>6, <1>7, Zenon
<1> QED BY <1>5, <1>9 DEF b, r, a1, a2, a3, a4

LEMMA GrownTypes ==
  ASSUME NEW s, IsText(s), NEW i \in Places(s), NEW f, ~Over(s, i) => f[Onward(s, i)] \in Seq(Int)
  PROVE  Grown(s, f, i) \in Seq(Int)
<1>1. CASE Over(s, i)
  <2>1. Grown(s, f, i) = <<Absent(s, i, 1), 0>> /\ Absent(s, i, 1) \in Int
    BY <1>1, AbsentMarks DEF Grown
  <2> QED BY <2>1
<1>2. CASE ~Over(s, i)
  <2> DEFINE u == Body(s, Start(s, i)) \o f[Onward(s, i)]
             a1 == Absent(s, i, 1)
             a2 == Absent(s, i, 2)
             a3 == Absent(s, i, 3)
             a4 == Absent(s, i, 4)
             t == Put(1, Put(a2, Put(a3, Put(a4, u))))
  <2>1. u \in Seq(Int) /\ Grown(s, f, i) = Put(a1, t)
    BY <1>2, GrownOn
  <2>2. a1 \in Int /\ a2 \in Int /\ a3 \in Int /\ a4 \in Int
    BY AbsentMarks
  <2> HIDE DEF u, a1, a2, a3, a4
  <2>3. t \in Seq(Int)
    <3>1. FourFirsts(a2, a2, a3, a3, a4, a4, u, u)
      BY <2>1, <2>2, FourFirst, Zenon
    <3> QED BY <3>1, Zenon DEF FourFirsts
  <2> HIDE DEF t
  <2> QED BY <2>1, <2>2, <2>3, PutFirst
<1> QED BY <1>1, <1>2

(* What is left of two strings is compared like in one round.                *)
LEMMA GrownFirst ==
  ASSUME NEW a, IsText(a), NEW i \in Places(a), NEW b, IsText(b), NEW j \in Places(b), NEW f, NEW g,
         ~Over(a, i) => f[Onward(a, i)] \in Seq(Int),
         ~Over(b, j) => g[Onward(b, j)] \in Seq(Int)
  PROVE  Lexicographic(Grown(a, f, i), Grown(b, g, j))
           = Then(Turn(a, i, b, j),
                  IF Over(a, i) THEN 0 ELSE Lexicographic(f[Onward(a, i)], g[Onward(b, j)]))
<1> DEFINE x == Grown(a, f, i)
           y == Grown(b, g, j)
           m1 == Absent(a, i, 1)
           n1 == Absent(b, j, 1)
           u == Body(a, Start(a, i)) \o f[Onward(a, i)]
           v == Body(b, Start(b, j)) \o g[Onward(b, j)]
           m2 == Absent(a, i, 2)
           n2 == Absent(b, j, 2)
           m3 == Absent(a, i, 3)
           n3 == Absent(b, j, 3)
           m4 == Absent(a, i, 4)
           n4 == Absent(b, j, 4)
           tx == Put(1, Put(m2, Put(m3, Put(m4, u))))
           ty == Put(1, Put(n2, Put(n3, Put(n4, v))))
           mark == Marks(a, i, b, j, 1)
           ends == Ends(a, i, b, j)
           segment == Segment(a, i, b, j)
           rest == Lexicographic(f[Onward(a, i)], g[Onward(b, j)])
<1>1. m1 \in Int /\ n1 \in Int /\ Sign(m1 - n1) = mark
  BY AbsentMarks
<1>2. Turn(a, i, b, j) = Then(mark, Then(ends, IF Over(a, i) THEN 0 ELSE segment))
  BY DEF Turn
<1>3. ends = IF Over(a, i) <=> Over(b, j) THEN 0 ELSE IF ~Over(a, i) THEN 1 ELSE -1
  <2>1. (~Over(a, i)) \in BOOLEAN /\ (~Over(b, j)) \in BOOLEAN
    OBVIOUS
  <2> QED BY <2>1 DEF Ends, CmpBool
<1>4. ASSUME NEW p \in Seq(Int), NEW q \in Seq(Int), x = Put(m1, p), y = Put(n1, q)
      PROVE  Lexicographic(x, y) = Then(Sign(m1 - n1), Lexicographic(p, q))
  <2>1. Lexicographic(Put(m1, p), Put(n1, q)) = Then(Sign(m1 - n1), Lexicographic(p, q))
    <3> HIDE DEF m1, n1
    <3> QED BY <1>1, PutFirst
  <2> QED BY <1>4, <2>1, Zenon
<1>a. 0 \in Int /\ 1 \in Int
  OBVIOUS
<1>5. ASSUME NEW s, NEW h, NEW k, Over(s, k), Absent(s, k, 1) \in Int
      PROVE  Grown(s, h, k) = Put(Absent(s, k, 1), <<0>>)
  <2>1. Grown(s, h, k) = <<Absent(s, k, 1), 0>>
    BY <1>5 DEF Grown
  <2> QED BY <1>5, <2>1 DEF Put
<1> DEFINE none == <<>>
<1>6. <<0>> = Put(0, none) /\ <<0>> \in Seq(Int) /\ none \in Seq(Int)
  BY DEF Put
<1> HIDE DEF none
<1>7. ~Over(a, i) => x = Put(m1, tx) /\ u \in Seq(Int)
  BY GrownOn
<1>8. ~Over(b, j) => y = Put(n1, ty) /\ v \in Seq(Int)
  BY GrownOn
<1>9. /\ Over(a, i) => x = Put(m1, <<0>>)
      /\ Over(b, j) => y = Put(n1, <<0>>)
  BY <1>1, <1>5
<1>10. /\ m2 \in Int /\ m3 \in Int /\ m4 \in Int /\ n2 \in Int /\ n3 \in Int /\ n4 \in Int
       /\ Sign(m2 - n2) = Marks(a, i, b, j, 2)
       /\ Sign(m3 - n3) = Marks(a, i, b, j, 3)
       /\ Sign(m4 - n4) = Marks(a, i, b, j, 4)
  BY AbsentMarks
<1> HIDE DEF u, v, m2, m3, m4, n2, n3, n4
<1>11. /\ ~Over(a, i) => tx \in Seq(Int)
       /\ ~Over(b, j) => ty \in Seq(Int)
  <2>1. ~Over(a, i) => FourFirsts(m2, n2, m3, n3, m4, n4, u, u)
    BY <1>7, <1>10, FourFirst, Zenon
  <2>2. ~Over(b, j) => FourFirsts(n2, n2, n3, n3, n4, n4, v, v)
    BY <1>8, <1>10, FourFirst, Zenon
  <2> QED BY <2>1, <2>2, Zenon DEF FourFirsts
<1>12. CASE Over(a, i) /\ Over(b, j)
  <2>1. Lexicographic(x, y) = Then(Sign(m1 - n1), Lexicographic(<<0>>, <<0>>))
    BY <1>4, <1>6, <1>9, <1>12, Zenon
  <2>2. Lexicographic(<<0>>, <<0>>) = 0
    BY <1>6, LexicographicCases, Zenon
  <2> HIDE DEF x, y, m1, n1, mark, ends, segment, rest
  <2>3. Lexicographic(x, y) = Then(Turn(a, i, b, j), 0)
    BY <1>1, <1>2, <1>3, <1>12, <2>1, <2>2 DEF Then
  <2> QED BY <1>12, <2>3 DEF x, y
<1>13. CASE Over(a, i) /\ ~Over(b, j)
  <2> DEFINE w == Put(n2, Put(n3, Put(n4, v)))
  <2>1. w \in Seq(Int) /\ ty = Put(1, w)
    BY <1>8, <1>10, <1>13, PutFirst
  <2> HIDE DEF x, y, m1, n1, mark, ends, segment, rest, tx, ty, w
  <2>2. Lexicographic(x, y) = Then(Sign(m1 - n1), Lexicographic(<<0>>, ty))
    BY <1>4, <1>6, <1>8, <1>9, <1>11, <1>13, Zenon
  <2>3. Lexicographic(Put(0, none), Put(1, w)) = Then(Sign(0 - 1), Lexicographic(none, w))
    <3>1. PutsFirst(0, 1, none, w)
      BY <1>a, <1>6, <2>1, PutsAre, Zenon
    <3> QED BY <3>1, Zenon DEF PutsFirst
  <2>4. Lexicographic(Put(0, none), Put(1, w)) = -1
    BY <2>3 DEF Sign, Then
  <2>5. Lexicographic(<<0>>, ty) = -1
    BY <1>6, <2>1, <2>4, Zenon
  <2>6. Lexicographic(x, y) = Then(Turn(a, i, b, j), 0)
    BY <1>1, <1>2, <1>3, <1>13, <2>2, <2>5 DEF Then
  <2> QED BY <1>13, <2>6 DEF x, y
<1>14. CASE ~Over(a, i) /\ Over(b, j)
  <2> DEFINE w == Put(m2, Put(m3, Put(m4, u)))
  <2>1. w \in Seq(Int) /\ tx = Put(1, w)
    BY <1>7, <1>10, <1>14, PutFirst
  <2> HIDE DEF x, y, m1, n1, mark, ends, segment, rest, tx, ty, w
  <2>2. Lexicographic(x, y) = Then(Sign(m1 - n1), Lexicographic(tx, <<0>>))
    BY <1>4, <1>6, <1>7, <1>9, <1>11, <1>14, Zenon
  <2>3. Lexicographic(Put(1, w), Put(0, none)) = Then(Sign(1 - 0), Lexicographic(w, none))
    <3>1. PutsFirst(1, 0, w, none)
      BY <1>a, <1>6, <2>1, PutsAre, Zenon
    <3> QED BY <3>1, Zenon DEF PutsFirst
  <2>4. Lexicographic(Put(1, w), Put(0, none)) = 1
    BY <2>3 DEF Sign, Then
  <2>5. Lexicographic(tx, <<0>>) = 1
    BY <1>6, <2>1, <2>4, Zenon
  <2>6. ends = 1
    BY <1>3, <1>14
  <2>7. Lexicographic(x, y) = Then(Turn(a, i, b, j), rest)
    BY <1>1, <1>2, <1>14, <2>2, <2>5, <2>6 DEF Then
  <2> QED BY <1>14, <2>7 DEF x, y, rest
<1>15. CASE ~Over(a, i) /\ ~Over(b, j)
  <2> DEFINE d2 == Marks(a, i, b, j, 2)
             d3 == Marks(a, i, b, j, 3)
             d4 == Marks(a, i, b, j, 4)
             content == Content(a, Start(a, i), b, Start(b, j))
  <2>1. Lexicographic(tx, ty) = Then(d2, Then(d3, Then(d4, Lexicographic(u, v))))
    <3>1. Lexicographic(tx, ty) = Then(Sign(m2 - n2), Then(Sign(m3 - n3),
                                    Then(Sign(m4 - n4), Lexicographic(u, v))))
      <4>1. FourFirsts(m2, n2, m3, n3, m4, n4, u, v)
        BY <1>7, <1>8, <1>10, <1>15, FourFirst, Zenon
      <4> QED BY <4>1, Zenon DEF FourFirsts
    <3> HIDE DEF tx, ty, d2, d3, d4
    <3>2. Sign(m2 - n2) = d2 /\ Sign(m3 - n3) = d3 /\ Sign(m4 - n4) = d4
      BY <1>10 DEF d2, d3, d4
    <3> QED BY <3>1, <3>2, Zenon
  <2>2. Lexicographic(u, v) = Then(content, rest)
    <3>1. Place(a, Start(a, i)) /\ Place(b, Start(b, j))
      BY StepsAre DEF Place, Places, Start
    <3> QED BY <1>15, <3>1, BodyFirst DEF u, v
  <2>3. segment = Then(d2, Then(d3, Then(d4, content)))
    BY DEF Segment
  <2> HIDE DEF x, y, m1, n1, mark, ends, segment, rest, tx, ty, d2, d3, d4, content
  <2>4. Lexicographic(x, y) = Then(Sign(m1 - n1), Lexicographic(tx, ty))
    BY <1>4, <1>7, <1>8, <1>11, <1>15, Zenon
  <2>5. Lexicographic(tx, ty) = Then(segment, rest)
    BY <2>1, <2>2, <2>3 DEF Then
  <2>6. ends = 0
    BY <1>3, <1>15
  <2>7. Turn(a, i, b, j) = Then(mark, segment)
    BY <1>2, <1>15, <2>6 DEF Then
  <2>8. Lexicographic(x, y) = Then(Turn(a, i, b, j), rest)
    BY <1>1, <2>4, <2>5, <2>7 DEF Then
  <2> QED BY <1>15, <2>8 DEF x, y, rest
<1> QED BY <1>12, <1>13, <1>14, <1>15

GrowAlike(a, f, i, b, g, j) ==
  Lexicographic(Grown(a, f, i), Grown(b, g, j))
    = Then(Turn(a, i, b, j), IF Over(a, i) THEN 0 ELSE Lexicographic(f[Onward(a, i)], g[Onward(b, j)]))

LEMMA GrowsAlike ==
  ASSUME NEW a, IsText(a), NEW i \in Places(a), NEW b, IsText(b), NEW j \in Places(b), NEW f, NEW g,
         f[Onward(a, i)] \in Seq(Int), g[Onward(b, j)] \in Seq(Int)
  PROVE  GrowAlike(a, f, i, b, g, j)
BY GrownFirst DEF GrowAlike

(* The function of Key exists.                                               *)
LEMMA KeysExist ==
  ASSUME NEW s, IsText(s), NEW n \in Nat
  PROVE  \E f : f = [i \in Later(s, n) |-> Grown(s, f, i)]
<1> DEFINE Some(m) == \E f : f = [i \in Later(s, m) |-> Grown(s, f, i)]
           T == {m \in Nat : ~Some(m)}
<1>1. SUFFICES ASSUME T # {} PROVE FALSE
  OBVIOUS
<1>2. PICK m \in T : \A l \in T : m <= l
  <2>1. T \subseteq Nat
    OBVIOUS
  <2> HIDE DEF T
  <2> QED BY <1>1, <2>1, Least
<1>3. m \in Nat /\ ~Some(m)
  OBVIOUS
<1>4. Len(s) \in Nat
  BY TextFacts
<1>5. CASE m = 0
  <2>1. Later(s, 0) = {}
    BY <1>4 DEF Later, Places
  <2> DEFINE g == [i \in {} |-> 0]
  <2>2. g = [i \in Later(s, 0) |-> Grown(s, g, i)]
    BY <2>1
  <2> QED BY <1>3, <1>5, <2>2
<1>6. CASE m # 0
  <2>1. m - 1 \in Nat /\ m - 1 \notin T
    BY <1>2, <1>3, <1>6
  <2>2. Some(m - 1)
    BY <2>1
  <2>3. PICK f : f = [i \in Later(s, m - 1) |-> Grown(s, f, i)]
    BY <2>2
  <2> DEFINE g == [i \in Later(s, m) |-> Grown(s, f, i)]
  <2>4. ASSUME NEW i \in Later(s, m)
        PROVE  Grown(s, f, i) = Grown(s, g, i)
    <3> DEFINE q == Onward(s, i)
    <3>1. i \in Places(s) /\ i > Len(s) + 1 - m
      BY DEF Later
    <3>2. CASE Over(s, i)
      BY <3>2 DEF Grown
    <3>3. CASE ~Over(s, i)
      <4>1. q \in Places(s) /\ q > i /\ q \in Nat /\ i \in Nat
        BY <3>1, <3>3, PlacesAre
      <4>2. q > Len(s) + 1 - m /\ q > Len(s) + 1 - (m - 1)
        BY <1>3, <1>4, <3>1, <4>1
      <4> HIDE DEF q
      <4>3. q \in Later(s, m) /\ q \in Later(s, m - 1)
        BY <4>1, <4>2 DEF Later
      <4>4. g[q] = Grown(s, f, q) /\ f[q] = Grown(s, f, q)
        BY <2>3, <4>3, Zenon
      <4>5. f[q] = g[q]
        BY <4>4
      <4> HIDE DEF g
      <4> QED BY <3>3, <4>5, Zenon DEF Grown, q
    <3> QED BY <3>2, <3>3
  <2>5. g = [i \in Later(s, m) |-> Grown(s, g, i)]
    <3>1. g = [i \in Later(s, m) |-> Grown(s, f, i)]
      OBVIOUS
    <3> HIDE DEF g
    <3> QED BY <2>4, <3>1, Zenon
  <2> HIDE DEF g
  <2>6. Some(m)
    BY <2>5
  <2> QED BY <1>3, <2>6
<1> QED BY <1>5, <1>6

LEMMA KeyIs ==
  ASSUME NEW s, IsText(s)
  PROVE  \E f : IsKeyOf(s, f) /\ Key(s) = f[1]
<1> DEFINE g == CHOOSE f : f = [i \in Places(s) |-> KeyWritten(s, f, i)]
<1>1. Key(s) = g[1]
  BY DEF Key, KeyWritten, Places
<1>2. \A f : [i \in Places(s) |-> KeyWritten(s, f, i)] = [i \in Places(s) |-> Grown(s, f, i)]
  BY KeyWrittenSo, Zenon
<1>3. \E f : f = [i \in Places(s) |-> KeyWritten(s, f, i)]
  <2>1. Len(s) \in Nat
    BY TextFacts
  <2>2. Later(s, Len(s) + 1) = Places(s)
    BY <2>1 DEF Later, Places
  <2>3. Len(s) + 1 \in Nat
    BY <2>1
  <2>4. \E f : f = [i \in Places(s) |-> Grown(s, f, i)]
    BY <2>2, <2>3, KeysExist
  <2> QED BY <1>2, <2>4
<1>4. g = [i \in Places(s) |-> KeyWritten(s, g, i)]
  BY <1>3, Zenon
<1> HIDE DEF g
<1>5. IsKeyOf(s, g)
  BY <1>2, <1>4 DEF IsKeyOf
<1> QED BY <1>1, <1>5

LEMMA KeyStep ==
  ASSUME NEW s, NEW f, IsKeyOf(s, f), NEW i \in Places(s)
  PROVE  f[i] = Grown(s, f, i)
<1>1. f = [l \in Places(s) |-> Grown(s, f, l)]
  BY DEF IsKeyOf
<1> QED BY <1>1, Zenon

LEMMA KeyTypes ==
  ASSUME NEW s, IsText(s), NEW f, IsKeyOf(s, f), NEW i \in Places(s)
  PROVE  f[i] \in Seq(Int)
<1> DEFINE T == {m \in Nat : \E l \in Places(s) : f[l] \notin Seq(Int) /\ m = Len(s) + 1 - l}
<1>1. Len(s) \in Nat /\ \A l \in Places(s) : l \in 1 .. Len(s) + 1
  BY TextFacts DEF Places
<1>2. SUFFICES ASSUME T # {} PROVE FALSE
  <2>1. Len(s) + 1 - i \in Nat
    BY <1>1
  <2>2. T = {} => f[i] \in Seq(Int)
    BY <2>1
  <2> QED BY <2>2
<1>3. PICK m \in T : \A l \in T : m <= l
  <2>1. T \subseteq Nat
    OBVIOUS
  <2> HIDE DEF T
  <2> QED BY <1>2, <2>1, Least
<1>4. PICK l \in Places(s) : f[l] \notin Seq(Int) /\ m = Len(s) + 1 - l
  OBVIOUS
<1> DEFINE q == Onward(s, l)
<1>5. /\ l \in Nat /\ q \in Places(s) /\ q \in Nat
      /\ ~Over(s, l) => q > l
  BY PlacesAre
<1>6. ~Over(s, l) => f[q] \in Seq(Int)
  <2> SUFFICES ASSUME ~Over(s, l), f[q] \notin Seq(Int)
               PROVE  FALSE
    OBVIOUS
  <2> DEFINE n == Len(s) + 1 - q
  <2> HIDE DEF q
  <2>1. n \in Nat /\ ~(m <= n)
    BY <1>1, <1>4, <1>5
  <2>2. n \in T
    BY <1>5, <2>1
  <2> HIDE DEF n, T
  <2> QED BY <1>3, <2>1, <2>2
<1>7. f[l] = Grown(s, f, l)
  BY KeyStep
<1>8. Grown(s, f, l) \in Seq(Int)
  BY <1>6, GrownTypes
<1> QED BY <1>4, <1>7, <1>8

(* The keys of what is left of two strings compare like the strings do.      *)
LEMMA KeyFirst ==
  ASSUME NEW a, IsText(a), NEW b, IsText(b), NEW f, IsKeyOf(a, f), NEW g, IsKeyOf(b, g),
         NEW h, Compares(a, b, h), NEW i \in Places(a), NEW j \in Places(b)
  PROVE  Lexicographic(f[i], g[j]) = h[<<i, j>>]
<1> DEFINE Good(x, y) == Lexicographic(f[x], g[y]) = h[<<x, y>>]
           T == {m \in Nat : \E x \in Places(a), y \in Places(b) : ~Good(x, y) /\ m = Len(a) + 1 - x}
<1>1. Len(a) \in Nat /\ \A x \in Places(a) : x \in 1 .. Len(a) + 1
  BY TextFacts DEF Places
<1>2. SUFFICES ASSUME T # {} PROVE FALSE
  <2>1. Len(a) + 1 - i \in Nat
    BY <1>1
  <2> HIDE DEF Good
  <2>2. T = {} => Good(i, j)
    BY <2>1
  <2> QED BY <2>2 DEF Good
<1> HIDE DEF Good
<1>3. PICK m \in T : \A l \in T : m <= l
  <2>1. T \subseteq Nat
    OBVIOUS
  <2> HIDE DEF T
  <2> QED BY <1>2, <2>1, Least
<1>4. PICK x \in Places(a), y \in Places(b) : ~Good(x, y) /\ m = Len(a) + 1 - x
  OBVIOUS
<1> DEFINE u == Onward(a, x)
           v == Onward(b, y)
<1>5. /\ x \in Nat /\ u \in Places(a) /\ u \in Nat
      /\ ~Over(a, x) => u > x
  BY PlacesAre
<1>6. v \in Places(b)
  BY PlacesAre
<1>7. ~Over(a, x) => Good(u, v)
  <2> SUFFICES ASSUME ~Over(a, x), ~Good(u, v)
               PROVE  FALSE
    OBVIOUS
  <2> DEFINE n == Len(a) + 1 - u
  <2> HIDE DEF u, v
  <2>1. n \in Nat /\ ~(m <= n)
    BY <1>1, <1>4, <1>5
  <2>2. n \in T
    BY <1>5, <1>6, <2>1
  <2> HIDE DEF n, T
  <2> QED BY <1>3, <2>1, <2>2
<1>8. f[x] = Grown(a, f, x) /\ g[y] = Grown(b, g, y)
  BY KeyStep
<1>9. f[u] \in Seq(Int) /\ g[v] \in Seq(Int)
  BY <1>5, <1>6, KeyTypes
<1>10. Lexicographic(f[x], g[y])
         = Then(Turn(a, x, b, y), IF Over(a, x) THEN 0 ELSE Lexicographic(f[u], g[v]))
  <2>1. Lexicographic(Grown(a, f, x), Grown(b, g, y))
          = Then(Turn(a, x, b, y), IF Over(a, x) THEN 0 ELSE Lexicographic(f[u], g[v]))
    <3>1. GrowAlike(a, f, x, b, g, y)
      BY <1>9, GrowsAlike, Zenon
    <3> QED BY <3>1, Zenon DEF GrowAlike
  <2> QED BY <1>8, <2>1
<1>11. h[<<x, y>>] = Then(Turn(a, x, b, y), IF Over(a, x) THEN 0 ELSE h[<<u, v>>])
  <2>1. <<x, y>> \in Pairs(a, b)
    BY DEF Pairs, Places
  <2> QED BY <2>1, ComparesStep
<1> HIDE DEF u, v, T
<1>12. (IF Over(a, x) THEN 0 ELSE Lexicographic(f[u], g[v])) = IF Over(a, x) THEN 0 ELSE h[<<u, v>>]
  BY <1>7, Zenon DEF Good
<1>13. Good(x, y)
  BY <1>10, <1>11, <1>12, Zenon DEF Good
<1> QED BY <1>4, <1>13

(* Comparing two strings in parallel, a segment at a time                    *)
(* (version.go:26-100), is comparing a key of the one with a key of the      *)
(* other, the first difference deciding: the order of versions is that of    *)
(* the keys, whatever strings are compared.                                  *)
THEOREM KeysCompare ==
  ASSUME NEW a, IsText(a), NEW b, IsText(b)
  PROVE  /\ Key(a) \in Seq(Int) /\ Key(b) \in Seq(Int)
         /\ Lexicographic(Key(a), Key(b)) = CompareVersions(a, b)
<1>1. 1 \in Places(a) /\ 1 \in Places(b)
  BY TextFacts DEF Places
<1>2. PICK f : IsKeyOf(a, f) /\ Key(a) = f[1]
  BY KeyIs
<1>3. PICK g : IsKeyOf(b, g) /\ Key(b) = g[1]
  BY KeyIs
<1>4. PICK h : Compares(a, b, h) /\ CompareVersions(a, b) = h[<<1, 1>>]
  BY CompareIs
<1>5. f[1] \in Seq(Int) /\ g[1] \in Seq(Int)
  BY <1>1, <1>2, <1>3, KeyTypes
<1>6. Lexicographic(f[1], g[1]) = h[<<1, 1>>]
  BY <1>1, <1>2, <1>3, <1>4, KeyFirst
<1> QED BY <1>2, <1>3, <1>4, <1>5, <1>6

(* Two strings have the same key just when neither is newer.                 *)
LEMMA SameKeys ==
  ASSUME NEW a, IsText(a), NEW b, IsText(b), CompareVersions(a, b) = 0
  PROVE  Key(a) = Key(b)
<1>1. Key(a) \in Seq(Int) /\ Key(b) \in Seq(Int) /\ Lexicographic(Key(a), Key(b)) = 0
  BY KeysCompare
<1> QED BY <1>1, LexicographicIs
=============================================================================
