-------------------------------- MODULE VPick --------------------------------
(***************************************************************************)
(* The entries of versioned directories, internal/discover/vpick.go: what  *)
(* <version>[_<arch>][+<left>[-<done>]] says, and which entry is better.   *)
(* An entry is a sequence of characters; an architecture is one of them.   *)
(***************************************************************************)
EXTENDS VersionCompare

CONSTANTS
  Native, Secondary, Foreign,  \* architectures
  NoArch,
  MaxUnsigned                  \* 2^32 - 1, which also stands for no counter

ASSUME VPickAssumption == MaxUnsigned \in Nat \ {0}

TriesUnset == MaxUnsigned

Architectures == {Native, Secondary, Foreign}

LastIndex(s, c) ==
  LET at == {k \in DOMAIN s : s[k] = c}
  IN IF at = {} THEN 0 ELSE CHOOSE k \in at : \A l \in at : l <= k

(* What does not parse.                                                      *)
NotOk == [ok |-> FALSE, left |-> 0, done |-> 0]

DigitValue(c) ==
  CASE c = "0" -> 0 [] c = "1" -> 1 [] c = "2" -> 2 [] c = "3" -> 3
    [] c = "4" -> 4 [] c = "8" -> 8 [] OTHER -> 9

(* A leading zero selects octal.                                             *)
Base(s) == IF Len(s) > 1 /\ s[1] = "0" THEN 8 ELSE 10

(* parseUnsigned of a string of digits: -1 if it is empty, has a digit the   *)
(* base does not have, or is too large.                                      *)
ParseUnsigned(s) ==
  LET value[k \in 0..Len(s)] == IF k = 0 THEN 0 ELSE value[k - 1] * Base(s) + DigitValue(s[k])
  IN IF \/ s = <<>> \/ \E k \in DOMAIN s : DigitValue(s[k]) >= Base(s)
        \/ value[Len(s)] > MaxUnsigned
     THEN -1 ELSE value[Len(s)]

(* parseTries: a suffix +<left> or +<left>-<done>.                           *)
ParseTries(s) ==
  LET n == Past(s, 2, Digits)
      left == ParseUnsigned(SubSeq(s, 2, n - 1))
      rest == SubSeq(s, n + 1, Len(s))
      done == IF Ended(s, n) THEN 0 ELSE ParseUnsigned(rest)
  IN IF \/ n = 2
        \/ ~Ended(s, n) /\ (s[n] # "-" \/ ~(CharsOf(rest) \subseteq Digits))
        \/ left = -1 \/ done = -1
     THEN NotOk ELSE [ok |-> TRUE, left |-> left, done |-> done]

VersionIsValid(s) == s # <<>> /\ CharsOf(s) \subseteq VersionChars

(* What pickVersion reads from an entry: the counter if there is a valid one *)
(* behind the last '+', then the architecture behind the last '_'.           *)
Parse(e) ==
  LET plus == LastIndex(e, "+")
      tries == IF plus = 0 THEN NotOk ELSE ParseTries(SubSeq(e, plus, Len(e)))
      counted == IF tries.ok THEN SubSeq(e, 1, plus - 1) ELSE e
      underscore == LastIndex(counted, "_")
      tail == SubSeq(counted, underscore + 1, Len(counted))
  IN [version |-> IF underscore = 0 THEN counted ELSE SubSeq(counted, 1, underscore - 1),
      arch |-> IF underscore # 0 /\ Len(tail) = 1 /\ tail[1] \in Architectures
               THEN tail[1] ELSE NoArch,
      left |-> IF tries.ok THEN tries.left ELSE TriesUnset,
      done |-> IF tries.ok THEN tries.done ELSE TriesUnset]

(* Entries that are passed over: of a foreign architecture (NoArch also says *)
(* that there is no secondary one), or without a valid version.              *)
Eligible(e) ==
  /\ Parse(e).arch \in {NoArch, Native} \cup ({Secondary} \ {NoArch})
  /\ VersionIsValid(Parse(e).version)

(* Mutant of Better: the newest version comes first. *)
BetterNewest(x, xfile, y, yfile) ==
  Decide(<<CompareVersions(x.version, y.version),
           CmpBool(x.left # 0, y.left # 0),
           CmpBool(x.arch = Native, y.arch = Native),
           IF Secondary = NoArch THEN 0 ELSE CmpBool(x.arch = Secondary, y.arch = Secondary),
           Sign(x.left - y.left), Sign(y.done - x.done), Sign(xfile - yfile)>>) > 0

(* better: x of the file xfile is preferred to y of the file yfile.          *)
Better(x, xfile, y, yfile) ==
  Decide(<<CmpBool(x.left # 0, y.left # 0),
           CompareVersions(x.version, y.version),
           CmpBool(x.arch = Native, y.arch = Native),
           IF Secondary = NoArch THEN 0 ELSE CmpBool(x.arch = Secondary, y.arch = Secondary),
           Sign(x.left - y.left), Sign(y.done - x.done), Sign(xfile - yfile)>>) > 0
=============================================================================
