--------------------------- MODULE VersionCompare ---------------------------
(***************************************************************************)
(* The order of versions and of image names, internal/discover/version.go: *)
(* two strings are read in parallel, a segment at a time.                  *)
(***************************************************************************)
EXTENDS Integers, Sequences, FiniteSets

(* The characters of the model in the order of their codes.                  *)
Ascii == <<"+", "-", ".", "0", "1", "2", "3", "4", "8", "9", "A", "^", "_",
           "a", "b", "c", "d", "e", "f", "k", "m", "n", "o", "p", "r", "s", "t", "u", "v",
           "w", "x", "y", "~">>
Code == [c \in {Ascii[k] : k \in DOMAIN Ascii} |-> CHOOSE k \in DOMAIN Ascii : Ascii[k] = c]

(* isDigit, isAlpha and isVersionChar.                                       *)
Digits == {"0", "1", "2", "3", "4", "8", "9"}
Letters == {"A"} \cup {c \in DOMAIN Code : Code[c] \in Code["a"] .. Code["y"]}
VersionChars == Digits \cup Letters \cup {"~", "-", "^", "."}

CharsOf(s) == {s[k] : k \in DOMAIN s}

Ended(s, i) == i > Len(s)
Has(s, i, c) == ~Ended(s, i) /\ s[i] = c
IsIn(s, i, chars) == ~Ended(s, i) /\ s[i] \in chars

(* The first position from i on where the characters are no longer of chars. *)
Past(s, i, chars) ==
  CHOOSE k \in i .. Len(s) + 1 :
    (\A l \in i .. k - 1 : s[l] \in chars) /\ ~IsIn(s, k, chars)

Sign(n) == IF n < 0 THEN -1 ELSE IF n > 0 THEN 1 ELSE 0

CmpBool(x, y) == IF x = y THEN 0 ELSE IF x THEN 1 ELSE -1

(* The first difference of two sequences of integers decides, then the length. *)
Lexicographic(x, y) ==
  LET apart == {k \in DOMAIN x \cap DOMAIN y : x[k] # y[k]}
  IN IF apart = {} THEN Sign(Len(x) - Len(y))
     ELSE LET k == CHOOSE k \in apart : \A l \in apart : k <= l
          IN Sign(x[k] - y[k])

Codes(s) == [k \in DOMAIN s |-> Code[s[k]]]

(* Mutant of Significant: leading zeros count. *)
SignificantWithZeros(s, i, end) == SubSeq(s, i, end - 1)

(* The digits from i up to end, without leading zeros.                       *)
Significant(s, i, end) == SubSeq(s, Past(s, i, {"0"}), end - 1)

(* The first comparison of a list that tells the strings apart, 0 if none.   *)
Decide(results) ==
  LET telling == {k \in DOMAIN results : results[k] # 0}
  IN IF telling = {} THEN 0
     ELSE results[CHOOSE k \in telling : \A l \in telling : k <= l]

Separators == <<"~", "-", "^", ".">>

(* Where a segment of s that begins at i is read from, each separator being  *)
(* stepped over if it is there: x[n] is the place of the n-th separator,     *)
(* x[5] that of what they introduce.                                         *)
Step(s, i, n) == IF Has(s, i, Separators[n]) THEN i + 1 ELSE i

Steps(s, i) ==
  LET first == Past(s, i, CharsOf(s) \ VersionChars)
      second == Step(s, first, 1)
      third == Step(s, second, 2)
      fourth == Step(s, third, 3)
  IN <<first, second, third, fourth, Step(s, fourth, 4)>>

(* A string without a separator comes after one with it.                     *)
CmpSeparator(a, x, b, y, n) ==
  CmpBool(~Has(a, x[n], Separators[n]), ~Has(b, y[n], Separators[n]))

(* What is compared of both strings, a number if there is one.               *)
Numeric(a, i, b, j) == IsIn(a, i, Digits) \/ IsIn(b, j, Digits)
Kind(a, i, b, j) == IF Numeric(a, i, b, j) THEN Digits ELSE Letters

CmpNumbers(a, i, b, j) ==
  LET k == Past(a, i, Digits)  l == Past(b, j, Digits)
      m == Significant(a, i, k)  n == Significant(b, j, l)
  IN Decide(<<CmpBool(k # i, l # j), Sign(Len(m) - Len(n)), Lexicographic(Codes(m), Codes(n))>>)

CmpWords(a, i, b, j) ==
  Lexicographic(Codes(SubSeq(a, i, Past(a, i, Letters) - 1)),
                Codes(SubSeq(b, j, Past(b, j, Letters) - 1)))

(* Two segments: the strings tell apart unless both go on.                   *)
CmpSegments(a, x, b, y) ==
  Decide(<<CmpSeparator(a, x, b, y, 2), CmpSeparator(a, x, b, y, 3), CmpSeparator(a, x, b, y, 4),
           IF Numeric(a, x[5], b, y[5]) THEN CmpNumbers(a, x[5], b, y[5])
                                        ELSE CmpWords(a, x[5], b, y[5])>>)

CompareVersions(a, b) ==
  LET Round[p \in (1 .. Len(a) + 1) \X (1 .. Len(b) + 1)] ==
        LET x == Steps(a, p[1])  y == Steps(b, p[2])
            chars == Kind(a, x[5], b, y[5])
        IN IF CmpSeparator(a, x, b, y, 1) # 0 THEN CmpSeparator(a, x, b, y, 1)
           ELSE IF Ended(a, x[2]) \/ Ended(b, y[2]) THEN CmpBool(~Ended(a, x[2]), ~Ended(b, y[2]))
           ELSE IF CmpSegments(a, x, b, y) # 0 THEN CmpSegments(a, x, b, y)
           ELSE Round[<<Past(a, x[5], chars), Past(b, y[5], chars)>>]
  IN Round[<<1, 1>>]

(* A key of one string alone, in the same order (for a property): its        *)
(* segments, each of them ranked by '~', the end of the string, the          *)
(* separators, numbers above words, and the text.                            *)
Key(s) ==
  LET Rest[i \in 1..Len(s) + 1] ==
        LET x == Steps(s, i)
            digits == SubSeq(s, x[5], Past(s, x[5], Digits) - 1)
            letters == SubSeq(s, x[5], Past(s, x[5], Letters) - 1)
            value == SubSeq(digits, Past(digits, 1, {"0"}), Len(digits))
            absent == [n \in 1..4 |-> IF Has(s, x[n], Separators[n]) THEN 0 ELSE 1]
        IN IF Ended(s, x[2]) THEN <<absent[1], 0>>
           ELSE <<absent[1], 1, absent[2], absent[3], absent[4]>>
                \o (IF digits # <<>> THEN <<1, Len(value)>> \o Codes(value)
                                     ELSE <<0>> \o Codes(letters) \o <<0>>)
                \o Rest[x[5] + Len(digits) + Len(letters)]
  IN Rest[1]
=============================================================================
