---------------------------- MODULE ImagePolicy ----------------------------
(***************************************************************************)
(* Image policies, internal/image/policy.go: what the partition of a       *)
(* designator may be used for and how it has to be protected.  Flags are   *)
(* sets; a policy has rules for some designators and a default.            *)
(***************************************************************************)
EXTENDS Sequences, FiniteSets

Designators ==
  {"root", "usr", "home", "srv", "esp", "xbootldr", "swap", "root-verity",
   "usr-verity", "root-verity-sig", "usr-verity-sig", "tmp", "var"}

PartInvalid == "invalid"

VerityHash(d) == CASE d = "root" -> "root-verity"
                   [] d = "usr" -> "usr-verity"
                   [] OTHER -> PartInvalid

VeritySig(d) == CASE d = "root" -> "root-verity-sig"
                  [] d = "usr" -> "usr-verity-sig"
                  [] OTHER -> PartInvalid

VerityData(d) == CASE d \in {"root-verity", "root-verity-sig"} -> "root"
                   [] d \in {"usr-verity", "usr-verity-sig"} -> "usr"
                   [] OTHER -> PartInvalid

IsVerityHash(d) == d \in {"root-verity", "usr-verity"}
IsVeritySig(d) == d \in {"root-verity-sig", "usr-verity-sig"}

----------------------------------------------------------------------------
PolOpen == {"verity", "signed", "encrypted", "encryptedwithintegrity",
            "unprotected", "unused", "absent"}
PolIgnore == {"unused", "absent"}
PolEncrypted == {"encrypted", "encryptedwithintegrity"}
UseMask == PolOpen
ReadOnlyMask == {"read-only-on", "read-only-off"}
GrowFSMask == {"growfs-on", "growfs-off"}
PFlagsMask == ReadOnlyMask \cup GrowFSMask
FSTypeMask == {"btrfs", "erofs", "ext4", "f2fs", "squashfs", "vfat", "xfs"}
Flags == UseMask \cup PFlagsMask \cup FSTypeMask

Words == Flags \cup {"open", "ignore"}

(* Mutant of FlagsOfWord: an unknown word is kept. *)
FlagsOfAnyWord(w) == CASE w = "open" -> PolOpen [] w = "ignore" -> PolIgnore [] OTHER -> {w}

(* policyFlagFromString of a word.                                           *)
FlagsOfWord(w) == CASE w = "open" -> PolOpen
                    [] w = "ignore" -> PolIgnore
                    [] OTHER -> {w} \cap Flags

(* Mutant of Prints: read-only-on where both are allowed. *)
PrintsOn(f, mask) == IF mask \subseteq f /\ mask = ReadOnlyMask
                     THEN {"read-only-on"} ELSE f \cap mask

(* A pair of flags is printed if just one of them is there: both, like none, *)
(* say that it does not matter.                                              *)
Prints(f, mask) == IF mask \subseteq f THEN {} ELSE f \cap mask

(* String: the words a set of flags is written with.                         *)
WordsOfFlags(f) ==
  (CASE f \cap UseMask = PolOpen -> {"open"}
     [] f \cap UseMask = PolIgnore -> {"ignore"}
     [] OTHER -> f \cap UseMask)
  \cup Prints(f, ReadOnlyMask) \cup Prints(f, GrowFSMask) \cup (f \cap FSTypeMask)

(* parsePolicyFlags: what words mean; those unknown are dropped if graceful, *)
(* and an error otherwise.                                                   *)
KnownWords(ws) == ws \subseteq Words
FlagsOfWords(ws) == UNION {FlagsOfWord(w) : w \in ws}

----------------------------------------------------------------------------
IsPolicy(p) ==
  /\ p = [rules |-> p.rules, def |-> p.def] /\ p.def \subseteq Flags
  /\ DOMAIN p.rules \subseteq Designators
  /\ p.rules \in [DOMAIN p.rules -> SUBSET Flags]

(* The default of a class, classDefaultPolicy.                               *)
ClassPolicyProtection == PolOpen \ {"unused"}
ClassDefaultPolicy(class) ==
  [rules |-> [d \in IF class = "confext" THEN {"root"} ELSE {"root", "usr"}
                |-> ClassPolicyProtection],
   def |-> PolIgnore]

(* Aspects not mentioned do not matter.                                      *)
Fill(f, mask) == IF f \cap mask = {} THEN f \cup mask ELSE f
ExtendPolicyFlags(f) == Fill(Fill(Fill(f, UseMask), ReadOnlyMask), GrowFSMask)

(* What does not apply to a designator is taken out: a verity partition is   *)
(* not protected itself, and most have no verity partition.                  *)
Inapplicable(d) ==
  (IF VerityData(d) # PartInvalid THEN {"verity", "signed"} \cup PolEncrypted ELSE {})
  \cup (IF VerityHash(d) = PartInvalid THEN {"verity", "signed"} ELSE {})

NormalizePolicyFlags(f, d) ==
  LET e == ExtendPolicyFlags(f) \ Inapplicable(d)
  IN IF e \cap UseMask = {"absent"} THEN e \ PFlagsMask ELSE e

(* Where there is no rule for a verity partition, what its data partition    *)
(* has to be protected with makes one.                                       *)
Needs(d) == IF IsVeritySig(d) THEN {"signed"} ELSE {"verity", "signed"}

(* Mutant of Derives: a hash partition needs a signature. *)
DerivesSigned(pol, d) ==
  /\ VerityData(d) \in DOMAIN pol.rules
  /\ NormalizePolicyFlags(pol.rules[VerityData(d)], VerityData(d)) \cap {"signed"} # {}

Derives(pol, d) ==
  /\ VerityData(d) \in DOMAIN pol.rules
  /\ NormalizePolicyFlags(pol.rules[VerityData(d)], VerityData(d)) \cap Needs(d) # {}

Derived(f) == {"unprotected"} \cup (f \cap (PolIgnore \cup PFlagsMask))

(* get, and the default where it says nothing.                               *)
Exhaustive(pol, d) ==
  NormalizePolicyFlags(
    IF d \in DOMAIN pol.rules THEN pol.rules[d]
    ELSE IF Derives(pol, d)
         THEN Derived(NormalizePolicyFlags(pol.rules[VerityData(d)], VerityData(d)))
         ELSE pol.def, d)

----------------------------------------------------------------------------
(* mayUse: "no" is an error, "ignored" means that it is passed over.         *)
MayUse(pol, d) ==
  LET f == Exhaustive(pol, d) \cap UseMask
  IN CASE f = {"absent"} -> "no"
       [] f \ {"absent"} = {"unused"} -> "ignored"
       [] OTHER -> "yes"

(* checkProtection: what was found has something in common with what the     *)
(* policy wants.                                                             *)
CheckProtection(pol, d, found) == found \cap Exhaustive(pol, d) # {}

(* checkPartitionFlags: wanting the opposite of what is set is an error.     *)
CheckPartitionFlags(pol, d, readonly, growfs) ==
  /\ Exhaustive(pol, d) \cap ReadOnlyMask #
       {IF readonly THEN "read-only-off" ELSE "read-only-on"}
  /\ Exhaustive(pol, d) \cap GrowFSMask #
       {IF growfs THEN "growfs-off" ELSE "growfs-on"}

(* checkFS: where file systems are named it must be one of them.             *)
CheckFS(pol, d, fs) ==
  Exhaustive(pol, d) \cap FSTypeMask # {} => fs \in Exhaustive(pol, d) \cap FSTypeMask
=============================================================================
