------------------------------- MODULE Dissect -------------------------------
(***************************************************************************)
(* What of a raw image is mounted, and how it is protected: the sidecar    *)
(* files, the kind of image, the partition picked for every designator,    *)
(* the checks of the image policy and where the root hash and its          *)
(* signature come from.  A step is one of the checks, or a partition of    *)
(* the table.  Attaching devices is left to ImageMount.                    *)
(***************************************************************************)
EXTENDS ImagePolicy, VersionCompare

CONSTANTS
  Native, Secondary, NoArch,  \* architectures; there may be no secondary one
  VarUUID,                    \* what a /var partition of this host is called
  Inputs   \* what is mounted: [image, policy, sidecars, settings], see below;
           \* sidecars: the hashes root and usr next to the image, the hash
           \* tree, and whether rootsig and usrsig are "none", "empty", "given"

(* An image: the file system that is seen on all of it ("none" if there is   *)
(* no known one), and its partition table.  A partition's type is a          *)
(* designator, "linux" or "unknown"; in an MBR it is "83", "ea" or "other".  *)
(* A root hash is the pair of partition UUIDs it stands for, <<>> if there   *)
(* is none and <<"bad">> where what should be one is malformed.              *)
ZeroUUID == "zero"
NoHash == <<>>
BadHash == <<"bad">>

Part(type, arch, label, uuid, attrs, fs, hash) ==
  [type |-> type, arch |-> arch, label |-> label, uuid |-> uuid, attrs |-> attrs,
   fs |-> fs, hash |-> hash]

(* Tables are sequences of partitions, whose labels are strings.             *)
ASSUME DissectAssumption ==
  \A i \in Inputs :
    LET table == i.image.table
    IN /\ Len(table) \in Nat /\ DOMAIN table = 1 .. Len(table)
       /\ \A k \in DOMAIN table : table[k].label \in Seq(STRING)

(* Environment variables that are set to false, and things this host lacks.  *)
Settings == {"no-sidecar", "no-embedded", "no-guess", "no-signature",
             "no-machine-id", "not-trusted"}

VARIABLES
  image, policy, sidecars, settings,
  verity,           \* veritySettings: hash, sig (whose it is), tree, designator
  stage, next,      \* next: the partition to look at
  parts,            \* the partition picked for each designator, 0 if none
  byType,           \* the designators whose partition was picked by its type
  ignored,          \* designators the policy ignores
  generic, multiple,
  mounted           \* for root and usr, how they are mounted

input == <<image, policy, sidecars, settings>>
dissected == <<parts, byType, ignored, generic, multiple>>
vars == <<input, verity, stage, next, dissected, mounted>>

Unknown == [hash |-> NoHash, sig |-> NoHash, tree |-> FALSE, designator |-> PartInvalid]

Init ==
  /\ \E i \in Inputs : /\ image = i.image /\ policy = i.policy
                       /\ sidecars = i.sidecars /\ settings = i.settings
  /\ verity = Unknown
  /\ stage = "sidecars" /\ next = 1
  /\ parts = [d \in Designators |-> 0] /\ byType = {} /\ ignored = {}
  /\ generic = 0 /\ multiple = FALSE
  /\ mounted = [d \in {} |-> "plain"]

Goto(s) == stage' = s
Fail == Goto("failed") /\ UNCHANGED <<verity, next, dissected, mounted>>

Found(d) == d # PartInvalid /\ parts[d] # 0
P(d) == image.table[parts[d]]

----------------------------------------------------------------------------
(* loadVeritySidecars: the root hash of the root partition before that of    *)
(* the usr partition, a signature only of the one that is used.              *)
SidecarHash == IF sidecars.root # NoHash THEN sidecars.root ELSE sidecars.usr
SidecarFile == IF sidecars.root # NoHash THEN sidecars.rootsig ELSE sidecars.usrsig

(* Mutant of SidecarSig: the signature files are read one after the other. *)
LastSidecarSig == IF sidecars.usrsig = "given" THEN sidecars.usr
                  ELSE IF sidecars.rootsig = "given" THEN sidecars.root ELSE NoHash

(* The hash the signature is for.                                            *)
SidecarSig == IF SidecarHash # NoHash /\ SidecarFile = "given" THEN SidecarHash ELSE NoHash

LoadVeritySidecars ==
  /\ stage = "sidecars"
  /\ IF "no-sidecar" \in settings
     THEN Goto("kind") /\ UNCHANGED <<verity, next, dissected, mounted>>
     ELSE IF SidecarHash = BadHash \/ (SidecarHash # NoHash /\ SidecarFile = "empty")
     THEN Fail
     ELSE /\ verity' = [hash |-> SidecarHash,
                        sig |-> SidecarSig,
                        tree |-> sidecars.tree,
                        designator |-> IF sidecars.root # NoHash THEN "root"
                                       ELSE IF sidecars.usr # NoHash THEN "usr" ELSE PartInvalid]
          /\ Goto("kind") /\ UNCHANGED <<next, dissected, mounted>>
  /\ UNCHANGED input

(* A hash tree file makes the image a single file system; otherwise a GPT    *)
(* comes before a file system and that before an MBR.                        *)
Single == image.fs \notin {"none", "ambiguous"} /\ (verity.tree \/ image.kind \in {"mbr", "none"})
Partitioned == ~verity.tree /\ (image.kind = "gpt" \/ (image.kind = "mbr" /\ image.fs = "none"))

(* rootHashUUIDs: the hash stands for the UUIDs of two partitions.           *)
BadUUIDs == verity.hash # NoHash /\ ZeroUUID \in {verity.hash[1], verity.hash[2]}

ChooseKind ==
  /\ stage = "kind"
  /\ CASE Single -> Goto("single")
       [] Partitioned /\ ~BadUUIDs -> Goto("parts")
       [] OTHER -> Goto("failed")
  /\ UNCHANGED <<input, verity, next, dissected, mounted>>

----------------------------------------------------------------------------
(* The loop of dissect and dissectMBR.                                       *)
Here == image.table[next]
AtPart == stage = "parts" /\ next \in DOMAIN image.table

(* A root hash that is given picks the partition with its UUID.              *)
Wanted(p, d, n) == verity.hash # NoHash
                     /\ d = (IF verity.designator = "usr" THEN "usr" ELSE "root")
                     => p.uuid = verity.hash[n]

(* readSig fails, or there is no machine ID to compare /var with.            *)
Unreadable(p) ==
  \/ IsVeritySig(p.type) /\ verity.hash # NoHash /\ p.hash = BadHash
  \/ p.type = "var" /\ "no-machine-id" \in settings

OfOtherData(p) == VerityData(p.type) # PartInvalid /\ verity.designator # PartInvalid
                    /\ VerityData(p.type) # verity.designator

(* Partitions not considered on any account.                                 *)
Unmarked(p) == /\ p.label # <<"_empty">>
               /\ "noauto" \in p.attrs => p.type = "esp"
               /\ ~OfOtherData(p)

Eligible(p) ==
  /\ p.type = "esp" => "noblock" \notin p.attrs
  /\ p.type \in {"root", "usr"} => Wanted(p, p.type, 1)
  /\ IsVerityHash(p.type) => Wanted(p, VerityData(p.type), 2)
  /\ IsVeritySig(p.type) => verity.hash \in {NoHash, p.hash}
  /\ p.type = "var" => p.uuid = VarUUID

Arch(d) == IF d \in byType THEN P(d).arch ELSE NoArch

(* compareArch as a rank: native, then secondary, then everything else.      *)
Rank(arch) == IF arch = Native THEN 2
              ELSE IF Secondary # NoArch /\ arch = Secondary THEN 1 ELSE 0

Versioned(d) == d \in {"root", "usr"} \/ IsVerityHash(d) \/ IsVeritySig(d)

(* Mutant of Replaces: the first one of an architecture stays. *)
ReplacesOther(p, d) == Rank(p.arch) > Rank(Arch(d))

(* A better architecture, or a newer version of one as good.                 *)
Replaces(p, d) ==
  \/ Rank(p.arch) > Rank(Arch(d))
  \/ /\ Rank(p.arch) = Rank(Arch(d)) /\ Versioned(d)
     /\ CompareVersions(p.label, P(d).label) > 0

Skip ==
  /\ AtPart /\ next' = next + 1
  /\ IF image.kind = "gpt"
     THEN \/ ~Unmarked(Here) \/ Here.type = "unknown"
          \/ Here.type \in Designators /\ ~Unreadable(Here) /\ ~Eligible(Here)
     ELSE Here.type = "other" \/ (Here.type = "83" /\ "boot" \notin Here.attrs)
  /\ UNCHANGED <<input, verity, stage, dissected, mounted>>

(* What may be the root partition if none is found.                          *)
Generic ==
  /\ AtPart /\ next' = next + 1
  /\ IF image.kind = "gpt" THEN Unmarked(Here) /\ Here.type = "linux"
                           ELSE Here.type = "83" /\ "boot" \in Here.attrs
  /\ IF generic # 0 THEN multiple' = TRUE /\ UNCHANGED generic
                    ELSE generic' = next /\ UNCHANGED multiple
  /\ UNCHANGED <<input, verity, stage, parts, byType, ignored, mounted>>

Candidate(p) == p.type \in Designators /\ Unmarked(p) /\ ~Unreadable(p) /\ Eligible(p)

(* consider: the policy decides whether the partition is looked at.          *)
Consider ==
  /\ AtPart /\ image.kind = "gpt" /\ Candidate(Here)
  /\ LET d == Here.type
     IN CASE MayUse(policy, d) = "no" -> Fail
          [] MayUse(policy, d) = "ignored" ->
               /\ ignored' = IF Found(d) THEN ignored ELSE ignored \cup {d}
               /\ next' = next + 1
               /\ UNCHANGED <<verity, stage, parts, byType, generic, multiple, mounted>>
          [] OTHER ->
               /\ IF ~Found(d) \/ Replaces(Here, d)
                  THEN /\ parts' = [parts EXCEPT ![d] = next]
                       /\ byType' = byType \cup {d} /\ ignored' = ignored \ {d}
                  ELSE UNCHANGED <<parts, byType, ignored>>
               /\ next' = next + 1
               /\ UNCHANGED <<verity, stage, generic, multiple, mounted>>
  /\ UNCHANGED input

CannotRead ==
  /\ AtPart /\ image.kind = "gpt" /\ Unmarked(Here) /\ Unreadable(Here)
  /\ Fail /\ UNCHANGED input

(* The extended boot loader partition of an MBR.                             *)
Boot ==
  /\ AtPart /\ image.kind = "mbr" /\ Here.type = "ea"
  /\ CASE MayUse(policy, "xbootldr") = "no" -> Fail
       [] MayUse(policy, "xbootldr") = "ignored" ->
            /\ ignored' = IF Found("xbootldr") THEN ignored ELSE ignored \cup {"xbootldr"}
            /\ next' = next + 1
            /\ UNCHANGED <<verity, stage, parts, byType, generic, multiple, mounted>>
       [] OTHER ->
            /\ parts' = IF Found("xbootldr") THEN parts ELSE [parts EXCEPT !["xbootldr"] = next]
            /\ next' = next + 1
            /\ UNCHANGED <<verity, stage, byType, ignored, generic, multiple, mounted>>
  /\ UNCHANGED input

----------------------------------------------------------------------------
(* finish: verity partitions need what they protect, and root and usr have   *)
(* one architecture; then a generic partition may be root.                   *)
Orphaned(d) ==
  \/ ~Found(d) /\ (Found(VerityHash(d)) \/ Found(VeritySig(d)))
  \/ Found(VeritySig(d)) /\ ~Found(VerityHash(d))

Mismatched == Found("root") /\ Found("usr") /\ NoArch \notin {Arch("root"), Arch("usr")}
                /\ Arch("root") # Arch("usr")

NeedsGeneric == ~Found("root") /\ ~Found("usr") /\ (verity.hash = NoHash \/ verity.designator # "usr")

TakeGeneric ==
  /\ stage = "parts" /\ next \notin DOMAIN image.table
  /\ IF \/ \E d \in {"root", "usr"} : Orphaned(d)
        \/ Mismatched
        \/ NeedsGeneric /\ (multiple \/ (generic # 0 /\ MayUse(policy, "root") = "no"))
     THEN Fail
     ELSE /\ IF NeedsGeneric /\ generic # 0
             THEN IF MayUse(policy, "root") = "yes"
                  THEN parts' = [parts EXCEPT !["root"] = generic] /\ UNCHANGED ignored
                  ELSE ignored' = ignored \cup {"root"} /\ UNCHANGED parts
             ELSE UNCHANGED <<parts, ignored>>
          /\ Goto("finish")
          /\ UNCHANGED <<verity, next, byType, generic, multiple, mounted>>
  /\ UNCHANGED input

(* The root hash or the hash tree is for a partition that is not there.      *)
Missing ==
  \/ verity.designator # PartInvalid /\ ~Found(verity.designator)
  \/ /\ verity.hash # NoHash
     /\ LET d == IF verity.designator = "usr" THEN "usr" ELSE "root"
        IN ~Found(d) \/ ~Found(VerityHash(d))

Inconsistent ==
  \/ ~Found("root") /\ ~Found("usr")
  \/ Found("root-verity") /\ (Found("usr-verity") \/ Found("usr"))

(* Mutant of FoundFlags: a signature partition is not needed. *)
FoundProtected(d) ==
  IF Found(d) THEN PolEncrypted \cup {"unprotected", "unused", "verity", "signed"}
  ELSE IF d \in ignored THEN {"unused"} ELSE {"absent"}

(* How the policy sees a partition: those found may be encrypted, and are    *)
(* protected by the other partitions there are.                              *)
FoundFlags(d) ==
  IF Found(d)
  THEN PolEncrypted \cup {"unprotected", "unused"}
         \cup (IF Found(VerityHash(d)) THEN {"verity"} ELSE {})
         \cup (IF Found(VerityHash(d)) /\ Found(VeritySig(d)) THEN {"signed"} ELSE {})
  ELSE IF d \in ignored THEN {"unused"} ELSE {"absent"}

(* Only partitions of a GPT found by their types have flags.                 *)
Attr(d, flag) == d \in byType /\ flag \in P(d).attrs

Finish ==
  /\ stage = "finish"
  /\ IF \/ Inconsistent \/ Missing
        \/ \E d \in Designators :
             \/ ~CheckProtection(policy, d, FoundFlags(d))
             \/ Found(d) /\ ~CheckPartitionFlags(policy, d, Attr(d, "readonly"), Attr(d, "growfs"))
     THEN Goto("failed") ELSE Goto("filesystems")
  /\ UNCHANGED <<input, verity, next, dissected, mounted>>

(* checkFilesystems: now it is known what is encrypted.                      *)
ProbedFlags(d) ==
  IF ~IsVerityHash(d) /\ ~IsVeritySig(d) /\ P(d).fs = "crypto_LUKS"
  THEN {"unused"} \cup PolEncrypted
  ELSE {"unused", "unprotected", "verity", "signed"}

Ambiguous(d) == ~IsVerityHash(d) /\ ~IsVeritySig(d) /\ P(d).fs = "ambiguous"

CheckFilesystems ==
  /\ stage = "filesystems"
  /\ IF \E d \in Designators :
          Found(d) /\ (Ambiguous(d) \/ ~CheckProtection(policy, d, ProbedFlags(d)))
     THEN Goto("failed") ELSE Goto("roothash")
  /\ UNCHANGED <<input, verity, next, dissected, mounted>>

----------------------------------------------------------------------------
(* Mutant of ProtectedBy: the root partition, if nothing is known. *)
RootProtectedBy(v) == IF v.designator # PartInvalid THEN v.designator
                      ELSE IF Found("root-verity") THEN "root" ELSE PartInvalid

(* Where the root hash comes from: the signature partition, unless all is    *)
(* known, then the UUIDs of the partitions.                                  *)
ProtectedBy(v) == IF v.designator # PartInvalid THEN v.designator
                  ELSE IF Found("root-verity") THEN "root"
                  ELSE IF Found("usr-verity") THEN "usr" ELSE PartInvalid

LoadsSig(v) ==
  LET d == ProtectedBy(v)
  IN /\ v.hash = NoHash \/ v.sig = NoHash
     /\ "no-embedded" \notin settings
     /\ d # PartInvalid /\ Found(d) /\ Found(VerityHash(d)) /\ Found(VeritySig(d))

SigHash(v) == P(VeritySig(ProtectedBy(v))).hash
SigMismatch(v) == SigHash(v) = BadHash \/ v.hash \notin {NoHash, SigHash(v)}

Guesses(v) ==
  LET d == ProtectedBy(v)
  IN /\ v.hash = NoHash /\ "no-guess" \notin settings
     /\ d # PartInvalid /\ Found(d) /\ Found(VerityHash(d))

Guessed(v) ==
  IF Guesses(v)
  THEN LET d == ProtectedBy(v)
       IN [v EXCEPT !.hash = <<P(d).uuid, P(VerityHash(d)).uuid>>, !.designator = d]
  ELSE v

FindRootHash ==
  /\ stage = "roothash"
  /\ IF LoadsSig(verity)
     THEN IF SigMismatch(verity) THEN Fail
          ELSE /\ verity' = Guessed([verity EXCEPT !.hash = SigHash(verity),
                                       !.sig = SigHash(verity),
                                       !.designator = ProtectedBy(verity)])
               /\ Goto("root") /\ UNCHANGED <<next, dissected, mounted>>
     ELSE /\ verity' = Guessed(verity)
          /\ Goto("root") /\ UNCHANGED <<next, dissected, mounted>>
  /\ UNCHANGED input

----------------------------------------------------------------------------
Covers == verity.designator \in {"root", PartInvalid} /\ verity.hash # NoHash /\ verity.tree

(* useVerity, and what mountUnpartitioned asks instead.                      *)
UseVerity(d) ==
  /\ Exhaustive(policy, d) \cap {"verity", "signed"} # {}
  /\ IF stage = "single" THEN Covers
     ELSE /\ verity.hash # NoHash /\ Found(VerityHash(d))
          /\ verity.designator = d \/ (verity.designator = PartInvalid /\ d = "root")

(* setupVerity: the signature is checked if the policy has use for one; it   *)
(* has to be good unless the policy is content without.                      *)
ChecksSig(d) == /\ verity.sig # NoHash /\ "signed" \in Exhaustive(policy, d)
                /\ "no-signature" \notin settings

Trusted(d) == ChecksSig(d) /\ "not-trusted" \notin settings

(* How the partition is mounted, "refused" if it is not.                     *)
Protection(d) ==
  IF ~UseVerity(d) THEN "unprotected"
  ELSE IF Trusted(d) THEN "signed"
  ELSE IF "verity" \in Exhaustive(policy, d) THEN "verity" ELSE "refused"

FSTypeAllowed(fs) == fs \in FSTypeMask

(* mountDevice: file systems that are mounted of themselves.                 *)
Mounts(d, fs) ==
  /\ FSTypeAllowed(fs) /\ CheckFS(policy, d, fs)
  /\ Protection(d) # "refused"

With(d) == mounted' = [x \in DOMAIN mounted \cup {d} |->
                         IF x = d THEN Protection(d) ELSE mounted[x]]

(* mountUnpartitioned: all of the image is the root partition.               *)
SingleFlags == IF Covers THEN IF verity.sig # NoHash THEN {"signed"} ELSE {"verity"}
               ELSE IF image.fs = "crypto_LUKS" THEN PolEncrypted ELSE {"unprotected"}

MountUnpartitioned ==
  /\ stage = "single"
  /\ IF /\ MayUse(policy, "root") = "yes"
        /\ CheckProtection(policy, "root", SingleFlags)
        /\ CheckPartitionFlags(policy, "root", FALSE, FALSE)
        /\ Mounts("root", image.fs)
     THEN With("root") /\ Goto("mounted") ELSE Goto("failed") /\ UNCHANGED mounted
  /\ UNCHANGED <<input, verity, next, dissected>>

(* The partitions that are found, root before usr; an image without root     *)
(* gets an empty file system.                                                *)
MountPart(d, then) ==
  /\ stage = d
  /\ IF ~Found(d) THEN Goto(then) /\ UNCHANGED mounted
     ELSE IF Mounts(d, P(d).fs) THEN With(d) /\ Goto(then)
     ELSE Goto("failed") /\ mounted' = [x \in {} |-> "plain"]
  /\ UNCHANGED <<input, verity, next, dissected>>

Finished == stage \in {"mounted", "failed"} /\ UNCHANGED vars

Next ==
  \/ LoadVeritySidecars \/ ChooseKind \/ Skip \/ Generic \/ Consider \/ CannotRead \/ Boot
  \/ TakeGeneric \/ Finish \/ CheckFilesystems \/ FindRootHash
  \/ MountUnpartitioned \/ MountPart("root", "usr") \/ MountPart("usr", "mounted") \/ Finished

Spec == Init /\ [][Next]_vars

----------------------------------------------------------------------------
(* Once the table is read, the partition of a designator is the best of all  *)
(* that come into question, the first if there are several, whatever the     *)
(* order of the table; there is none only if there is no candidate or the    *)
(* policy ignores them.                                                      *)
Candidates(d) == {k \in DOMAIN image.table : image.table[k].type = d /\ Candidate(image.table[k])}

Preferred(p, q, d) ==
  \/ Rank(p.arch) > Rank(q.arch)
  \/ Rank(p.arch) = Rank(q.arch) /\ Versioned(d) /\ CompareVersions(p.label, q.label) > 0

BestPicked ==
  stage = "finish" /\ image.kind = "gpt" =>
    \A d \in Designators :
      /\ d \in byType =>
           /\ parts[d] \in Candidates(d)
           /\ \A k \in Candidates(d) \ {parts[d]} :
                /\ ~Preferred(image.table[k], P(d), d)
                /\ k < parts[d] => Preferred(P(d), image.table[k], d)
      /\ MayUse(policy, d) # "yes" => ~Found(d)
      /\ MayUse(policy, d) = "yes" /\ Candidates(d) # {} => d \in byType

(* A partition is only mounted in a way the policy allows: with verity and a *)
(* verified signature, with verity, or as it is (dissect.go:245-284).  That  *)
(* takes the root hash to be looked for in the UUIDs, and a policy without   *)
(* the flags that say nothing about plain partitions, "encrypted" and        *)
(* "unused".                                                                 *)
PolicyKept ==
  stage = "mounted" /\ "no-guess" \notin settings =>
    \A d \in DOMAIN mounted :
      (PolEncrypted \cup {"unused"}) \cap Exhaustive(policy, d) = {}
        => mounted[d] \in Exhaustive(policy, d)

(* Verity is used wherever there is a hash partition or a hash tree with its *)
(* root hash and the policy allows it, for usr as for root                   *)
(* (docs/VERITY.md:150-153).                                                 *)
VerityIsUsed ==
  stage = "mounted" /\ "no-guess" \notin settings =>
    \A d \in DOMAIN mounted :
      /\ Exhaustive(policy, d) \cap {"verity", "signed"} # {}
      /\ IF Partitioned THEN Found(VerityHash(d)) ELSE Covers
      => mounted[d] \in {"verity", "signed"}

(* The signature that is verified is one of the root hash that is used, and  *)
(* a root hash next to the image is the one that is used.                    *)
SignatureOfHash ==
  stage = "mounted" =>
    /\ verity.sig \in {NoHash, verity.hash}
    /\ "no-sidecar" \notin settings /\ SidecarHash # NoHash => verity.hash = SidecarHash
    /\ \A d \in DOMAIN mounted : mounted[d] = "signed" => verity.sig # NoHash
=============================================================================
