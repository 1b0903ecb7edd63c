--------------------------- MODULE DissectProofs ---------------------------
(***************************************************************************)
(* Proofs about Dissect, for any images, tables of partitions, policies,   *)
(* sidecar files and settings.  IInv follows the root hash, the table and  *)
(* what is mounted from stage to stage.  PickInv says of the partitions    *)
(* looked at so far what BestPicked says of all of them.                   *)
(***************************************************************************)
EXTENDS Dissect, VersionProofs

Stages ==
  {"sidecars", "kind", "single", "parts", "finish", "filesystems", "roothash",
   "root", "usr", "mounted", "failed"}

(* Before the root hash is looked for in the table; while there is a table   *)
(* to look at; and when finish is through with it.                           *)
Early == {"sidecars", "kind", "single", "parts", "finish", "filesystems", "roothash"}
OfTable == {"parts", "finish", "filesystems", "roothash", "root", "usr"}
Checked == {"filesystems", "roothash", "root", "usr"}

Data == {"root", "usr"}

Shape ==
  /\ stage \in Stages
  /\ verity = [hash |-> verity.hash, sig |-> verity.sig, tree |-> verity.tree,
               designator |-> verity.designator]
  /\ verity.designator \in Data \cup {PartInvalid}
  /\ parts = [d \in Designators |-> parts[d]]

(* The root hash: what the sidecar files say stays, and a signature is of    *)
(* the hash.                                                                 *)
HashInv ==
  /\ verity.sig \in {NoHash, verity.hash}
  /\ stage = "sidecars" => verity = Unknown
  /\ stage \in Early => (verity.designator = PartInvalid <=> verity.hash = NoHash)
  /\ stage \notin {"sidecars", "failed"} /\ "no-sidecar" \notin settings /\ SidecarHash # NoHash
       => verity.hash = SidecarHash

(* The partitions: verity partitions of what the hash is not for are left    *)
(* out, and each protects one that is there.                                 *)
TableInv ==
  /\ stage = "single" => ~Partitioned
  /\ stage \in OfTable => Partitioned
  /\ stage \in {"sidecars", "kind", "single"} => \A d \in Data : ~Found(VerityHash(d))
  /\ stage \in Early => \A d \in Data : Found(VerityHash(d)) => verity.designator \in {PartInvalid, d}
  /\ stage \in Checked \cup {"finish"} => \A d \in Data : Found(VerityHash(d)) => Found(d)
  /\ stage \in Checked =>
       /\ ~Inconsistent
       /\ \A d \in Designators : CheckProtection(policy, d, FoundFlags(d))
  /\ stage \in {"filesystems", "roothash"} => ~Missing
  /\ stage \in {"root", "usr"} /\ "no-guess" \notin settings =>
       \A d \in Data : Found(VerityHash(d)) => verity.hash # NoHash /\ verity.designator = d

(* What is mounted, as it has to be.                                         *)
Kept(d, m) ==
  /\ m = "signed" => verity.sig # NoHash
  /\ "no-guess" \notin settings =>
       /\ (PolEncrypted \cup {"unused"}) \cap Exhaustive(policy, d) = {}
            => m \in Exhaustive(policy, d)
       /\ /\ Exhaustive(policy, d) \cap {"verity", "signed"} # {}
          /\ IF Partitioned THEN Found(VerityHash(d)) ELSE Covers
          => m \in {"verity", "signed"}

MountedInv ==
  /\ stage \in Early => DOMAIN mounted = {}
  /\ stage # "failed" => \A d \in DOMAIN mounted : Kept(d, mounted[d])

IInv == Shape /\ HashInv /\ TableInv /\ MountedInv

----------------------------------------------------------------------------
(* The partitions that belong to root and to usr.                            *)
LEMMA Belong ==
  /\ VerityHash("root") = "root-verity" /\ VerityHash("usr") = "usr-verity"
  /\ VeritySig("root") = "root-verity-sig" /\ VeritySig("usr") = "usr-verity-sig"
  /\ VerityData("root-verity") = "root" /\ VerityData("usr-verity") = "usr"
BY DEF VerityHash, VeritySig, VerityData

LEMMA Names ==
  /\ PartInvalid \notin Designators
  /\ \A d \in Data : d \in Designators /\ VerityHash(d) \in Designators
                       /\ VeritySig(d) \in Designators /\ VerityHash(d) \notin Data
  /\ VerityHash("root") # VerityHash("usr")
BY Belong DEF Designators, PartInvalid, Data

(* A step to "failed" that leaves everything else keeps the invariant.       *)
LEMMA FailKeeps ==
  ASSUME IInv, Fail, UNCHANGED input
  PROVE  IInv'
<1>1. /\ stage' = "failed"
      /\ UNCHANGED <<verity, parts, mounted, settings, sidecars, policy>>
  BY DEF Fail, Goto, dissected, input
<1>2. Shape'
  BY <1>1 DEF IInv, Shape, Stages
<1>3. HashInv'
  BY <1>1 DEF IInv, HashInv, Early
<1>4. TableInv'
  BY <1>1 DEF TableInv, OfTable, Checked, Early
<1>5. MountedInv'
  BY <1>1 DEF MountedInv, Early
<1> QED BY <1>2, <1>3, <1>4, <1>5 DEF IInv

LEMMA InitHolds == Init => IInv
<1> SUFFICES ASSUME Init PROVE IInv
  OBVIOUS
<1>1. stage = "sidecars" /\ verity = Unknown /\ parts = [d \in Designators |-> 0]
      /\ mounted = [d \in {} |-> "plain"]
  BY DEF Init
<1>2. Shape
  BY <1>1 DEF Shape, Unknown, Stages
<1>3. HashInv
  BY <1>1 DEF HashInv, Unknown
<1>4. TableInv
  <2>1. \A d \in Data : ~Found(VerityHash(d))
    BY <1>1, Names DEF Found
  <2> QED BY <1>1, <2>1 DEF TableInv, OfTable, Checked
<1>5. MountedInv
  BY <1>1 DEF MountedInv
<1> QED BY <1>2, <1>3, <1>4, <1>5 DEF IInv

LEMMA LoadKeeps ==
  ASSUME IInv, LoadVeritySidecars
  PROVE  IInv'
<1>1. stage = "sidecars" /\ verity = Unknown /\ UNCHANGED input
  BY DEF IInv, HashInv, LoadVeritySidecars
<1>2. UNCHANGED <<image, policy, settings, sidecars>>
  BY <1>1 DEF input
<1>3. CASE "no-sidecar" \in settings
  <2>1. stage' = "kind" /\ UNCHANGED <<verity, parts, mounted>>
    BY <1>3 DEF LoadVeritySidecars, Goto, dissected
  <2>2. Shape'
    BY <2>1 DEF IInv, Shape, Stages
  <2>3. HashInv'
    BY <1>1, <1>2, <1>3, <2>1 DEF IInv, HashInv, Unknown
  <2>4. TableInv'
    BY <1>1, <2>1 DEF IInv, TableInv, OfTable, Checked, Early, Found, Unknown
  <2>5. MountedInv'
    BY <1>1, <2>1 DEF IInv, MountedInv, Early
  <2> QED BY <2>2, <2>3, <2>4, <2>5 DEF IInv
<1>4. CASE "no-sidecar" \notin settings /\ (SidecarHash = BadHash \/ (SidecarHash # NoHash /\ SidecarFile = "empty"))
  <2>1. Fail
    BY <1>4 DEF LoadVeritySidecars
  <2> QED BY <1>1, <2>1, FailKeeps
<1>5. CASE "no-sidecar" \notin settings /\ ~(SidecarHash = BadHash \/ (SidecarHash # NoHash /\ SidecarFile = "empty"))
  <2> DEFINE e == IF sidecars.root # NoHash THEN "root"
                  ELSE IF sidecars.usr # NoHash THEN "usr" ELSE PartInvalid
  <2>1. /\ stage' = "kind" /\ UNCHANGED <<parts, mounted>>
        /\ verity' = [hash |-> SidecarHash, sig |-> SidecarSig, tree |-> sidecars.tree,
                      designator |-> e]
    BY <1>5 DEF LoadVeritySidecars, Goto, dissected
  <2>2. e \in Data \cup {PartInvalid} /\ (e = PartInvalid <=> SidecarHash = NoHash)
    BY DEF Data, PartInvalid, SidecarHash
  <2>3. verity'.hash = SidecarHash /\ verity'.sig = SidecarSig /\ verity'.designator = e
    BY <2>1
  <2>4. SidecarHash' = SidecarHash
    BY <1>2 DEF SidecarHash
  <2>5. SidecarSig \in {NoHash, SidecarHash}
    BY DEF SidecarSig
  <2> HIDE DEF e
  <2>6. Shape'
    BY <2>1, <2>2 DEF IInv, Shape, Stages
  <2>7. HashInv'
    BY <2>1, <2>2, <2>3, <2>4, <2>5 DEF HashInv
  <2>8. TableInv'
    <3>1. \A d \in Data : ~Found(VerityHash(d))'
      BY <1>1, <2>1 DEF IInv, TableInv, Found
    <3> QED BY <2>1, <3>1 DEF TableInv, OfTable, Checked
  <2>9. MountedInv'
    BY <1>1, <2>1 DEF IInv, MountedInv, Early
  <2> QED BY <2>6, <2>7, <2>8, <2>9 DEF IInv
<1> QED BY <1>3, <1>4, <1>5

LEMMA KindKeeps ==
  ASSUME IInv, ChooseKind
  PROVE  IInv'
<1>1. stage = "kind" /\ UNCHANGED <<verity, next, dissected, mounted, input>>
  BY DEF ChooseKind
<1>2. UNCHANGED <<image, policy, settings, sidecars, verity, parts, mounted>>
  BY <1>1 DEF input, dissected
<1>3. \/ stage' = "single" /\ Single
      \/ stage' = "parts" /\ Partitioned
      \/ stage' = "failed"
  BY Zenon DEF ChooseKind, Goto
<1>4. Single => ~Partitioned
  BY DEF Single, Partitioned
<1>5. (Partitioned <=> Partitioned') /\ SidecarHash' = SidecarHash
      /\ \A d : Found(d)' <=> Found(d)
  BY <1>2 DEF Partitioned, SidecarHash, Found
<1>6. Shape'
  BY <1>2, <1>3 DEF IInv, Shape, Stages
<1>7. HashInv'
  BY <1>1, <1>2, <1>3, <1>5 DEF IInv, HashInv, Early
<1>8. TableInv'
  BY <1>1, <1>2, <1>3, <1>4, <1>5 DEF IInv, TableInv, OfTable, Checked, Early
<1>9. MountedInv'
  BY <1>1, <1>2, <1>3 DEF IInv, MountedInv, Early
<1> QED BY <1>6, <1>7, <1>8, <1>9 DEF IInv

(* A step that reads the table and leaves verity partitions of other data    *)
(* alone.                                                                    *)
LEMMA ReadKeeps ==
  ASSUME IInv, stage = "parts", UNCHANGED <<stage, input, verity, mounted>>,
         parts' = [d \in Designators |-> parts'[d]],
         \A d \in Data : parts'[VerityHash(d)] = parts[VerityHash(d)]
                          \/ verity.designator \in {PartInvalid, d}
  PROVE  IInv'
<1>1. UNCHANGED <<image, policy, settings, sidecars>>
  BY DEF input
<1>2. \A d \in Data : Found(VerityHash(d))' => verity.designator \in {PartInvalid, d}
  BY DEF IInv, TableInv, Found, Early
<1>3. Partitioned' /\ SidecarHash' = SidecarHash
  BY <1>1 DEF Partitioned, SidecarHash, IInv, TableInv, OfTable
<1>4. Shape'
  BY <1>1 DEF IInv, Shape
<1>5. HashInv'
  BY <1>1, <1>3 DEF IInv, HashInv
<1>6. TableInv'
  BY <1>2, <1>3 DEF TableInv, Checked
<1>7. MountedInv'
  BY DEF IInv, MountedInv, Early
<1> QED BY <1>4, <1>5, <1>6, <1>7 DEF IInv

LEMMA SkipKeeps ==
  ASSUME IInv, Skip \/ Generic
  PROVE  IInv'
<1>1. stage = "parts" /\ UNCHANGED <<stage, input, verity, mounted, parts>>
  BY DEF Skip, Generic, AtPart, dissected
<1>2. parts' = [d \in Designators |-> parts'[d]]
  BY <1>1 DEF IInv, Shape
<1> QED BY <1>1, <1>2, ReadKeeps

LEMMA ConsiderKeeps ==
  ASSUME IInv, Consider
  PROVE  IInv'
<1>1. stage = "parts" /\ Candidate(Here) /\ UNCHANGED input
  BY DEF Consider, AtPart
<1>2. Fail \/ (UNCHANGED <<stage, verity, mounted>>
               /\ parts' \in {parts, [parts EXCEPT ![Here.type] = next]})
  BY Zenon DEF Consider
<1>3. CASE Fail
  BY <1>1, <1>3, FailKeeps
<1>4. CASE UNCHANGED <<stage, verity, mounted>> /\ parts' = parts
  <2>1. parts' = [d \in Designators |-> parts'[d]]
    BY <1>4 DEF IInv, Shape
  <2> QED BY <1>1, <1>4, <2>1, ReadKeeps
<1>5. CASE UNCHANGED <<stage, verity, mounted>> /\ parts' = [parts EXCEPT ![Here.type] = next]
  <2>1. parts' = [d \in Designators |-> parts'[d]]
    BY <1>5 DEF IInv, Shape
  <2>2. ASSUME NEW d \in Data
        PROVE  parts'[VerityHash(d)] = parts[VerityHash(d)] \/ verity.designator \in {PartInvalid, d}
    <3>1. CASE Here.type # VerityHash(d)
      BY <1>5, <2>1, <3>1, Names DEF IInv, Shape
    <3>2. CASE Here.type = VerityHash(d)
      <4>1. VerityData(Here.type) = d /\ d # PartInvalid
        BY <3>2, Belong DEF Data, PartInvalid
      <4>2. ~OfOtherData(Here)
        BY <1>1 DEF Candidate, Unmarked
      <4> QED BY <4>1, <4>2 DEF OfOtherData
    <3> QED BY <3>1, <3>2
  <2> QED BY <1>1, <1>5, <2>1, <2>2, ReadKeeps
<1> QED BY <1>2, <1>3, <1>4, <1>5

LEMMA BootKeeps ==
  ASSUME IInv, Boot \/ CannotRead
  PROVE  IInv'
<1>1. stage = "parts" /\ UNCHANGED input
  BY DEF Boot, CannotRead, AtPart
<1>2. Fail \/ (UNCHANGED <<stage, verity, mounted>>
               /\ parts' \in {parts, [parts EXCEPT !["xbootldr"] = next]})
  BY Zenon DEF Boot, CannotRead
<1>3. CASE Fail
  BY <1>1, <1>3, FailKeeps
<1>4. CASE UNCHANGED <<stage, verity, mounted>> /\ parts' \in {parts, [parts EXCEPT !["xbootldr"] = next]}
  <2>1. parts' = [d \in Designators |-> parts'[d]]
    BY <1>4 DEF IInv, Shape
  <2>2. \A d \in Data : parts'[VerityHash(d)] = parts[VerityHash(d)]
    BY <1>4, Belong DEF IInv, Shape, Data, Designators
  <2> QED BY <1>1, <1>4, <2>1, <2>2, ReadKeeps
<1> QED BY <1>2, <1>3, <1>4

LEMMA TakeKeeps ==
  ASSUME IInv, TakeGeneric
  PROVE  IInv'
<1>1. stage = "parts" /\ UNCHANGED input
  BY DEF TakeGeneric
<1>2. CASE Fail
  BY <1>1, <1>2, FailKeeps
<1>3. CASE ~Fail
  <2> DEFINE bad == \/ \E d \in {"root", "usr"} : Orphaned(d)
                    \/ Mismatched
                    \/ NeedsGeneric /\ (multiple \/ (generic # 0 /\ MayUse(policy, "root") = "no"))
             taken == /\ IF NeedsGeneric /\ generic # 0
                         THEN IF MayUse(policy, "root") = "yes"
                              THEN parts' = [parts EXCEPT !["root"] = generic] /\ UNCHANGED ignored
                              ELSE ignored' = ignored \cup {"root"} /\ UNCHANGED parts
                         ELSE UNCHANGED <<parts, ignored>>
                      /\ Goto("finish")
                      /\ UNCHANGED <<verity, next, byType, generic, multiple, mounted>>
  <2>a. IF bad THEN Fail ELSE taken
    BY DEF TakeGeneric
  <2>b. ~bad /\ taken
    <3> HIDE DEF bad, taken
    <3> QED BY <1>3, <2>a
  <2>0. \A d \in Data : ~Orphaned(d)
    BY <2>b DEF Data
  <2>1. /\ stage' = "finish" /\ UNCHANGED <<verity, mounted>>
        /\ \A d \in Data : ~Orphaned(d)
        /\ parts' = parts \/ (parts' = [parts EXCEPT !["root"] = generic] /\ generic # 0)
    BY <2>0, <2>b DEF Goto
  <2>2. UNCHANGED <<image, policy, settings, sidecars>>
    BY <1>1 DEF input
  <2>3. parts' = [d \in Designators |-> parts'[d]]
    BY <2>1 DEF IInv, Shape
  <2>4. ASSUME NEW d \in Data
        PROVE  /\ Found(VerityHash(d))' => Found(VerityHash(d))
               /\ Found(d) => Found(d)'
    BY <2>1, Belong DEF IInv, Shape, Found, Designators, Data, PartInvalid
  <2>5. \A d \in Data : Found(VerityHash(d)) => Found(d)
    BY <2>1 DEF Orphaned
  <2>6. Partitioned' /\ SidecarHash' = SidecarHash
    BY <1>1, <2>1, <2>2 DEF Partitioned, SidecarHash, IInv, TableInv, OfTable
  <2>7. Shape'
    BY <2>1, <2>3 DEF IInv, Shape, Stages
  <2>8. HashInv'
    BY <1>1, <2>1, <2>2, <2>6 DEF IInv, HashInv, Early
  <2>9. TableInv'
    BY <1>1, <2>1, <2>4, <2>5, <2>6 DEF IInv, TableInv, Checked, Early
  <2>10. MountedInv'
    BY <1>1, <2>1 DEF IInv, MountedInv, Early
  <2> QED BY <2>7, <2>8, <2>9, <2>10 DEF IInv
<1> QED BY <1>2, <1>3

(* The two checks that only compare.                                         *)
LEMMA FinishKeeps ==
  ASSUME IInv, Finish
  PROVE  IInv'
<1>1. stage = "finish" /\ UNCHANGED <<input, verity, next, dissected, mounted>>
  BY DEF Finish
<1>2. UNCHANGED <<image, policy, settings, sidecars, verity, parts, ignored, byType, mounted>>
  BY <1>1 DEF input, dissected
<1>3. CASE stage' = "failed"
  <2>1. Fail
    BY <1>1, <1>3 DEF Fail, Goto
  <2> QED BY <1>1, <2>1, FailKeeps
<1>4. CASE stage' # "failed"
  <2>1. /\ stage' = "filesystems" /\ ~Inconsistent /\ ~Missing
        /\ \A d \in Designators : CheckProtection(policy, d, FoundFlags(d))
    BY <1>4 DEF Finish, Goto
  <2>2. \A d : Found(d)' <=> Found(d)
    BY <1>2 DEF Found
  <2>3. (Partitioned' <=> Partitioned) /\ SidecarHash' = SidecarHash
        /\ (Inconsistent' <=> Inconsistent) /\ (Missing' <=> Missing)
    BY <1>2, <2>2 DEF Partitioned, SidecarHash, Inconsistent, Missing
  <2>4. \A d \in Designators : CheckProtection(policy, d, FoundFlags(d))'
    BY <1>2, <2>1, <2>2, Zenon DEF FoundFlags
  <2>5. Shape'
    BY <1>2, <2>1 DEF IInv, Shape, Stages
  <2>6. HashInv'
    BY <1>1, <1>2, <2>1, <2>3 DEF IInv, HashInv, Early
  <2>7. TableInv'
    BY <1>1, <1>2, <2>1, <2>2, <2>3, <2>4 DEF IInv, TableInv, Checked, Early, OfTable
  <2>8. MountedInv'
    BY <1>1, <1>2, <2>1 DEF IInv, MountedInv, Early
  <2> QED BY <2>5, <2>6, <2>7, <2>8 DEF IInv
<1> QED BY <1>3, <1>4

LEMMA FilesystemsKeep ==
  ASSUME IInv, CheckFilesystems
  PROVE  IInv'
<1>1. stage = "filesystems" /\ UNCHANGED <<input, verity, next, dissected, mounted>>
      /\ stage' \in {"failed", "roothash"}
  BY DEF CheckFilesystems, Goto
<1>2. UNCHANGED <<image, policy, settings, sidecars, verity, parts, ignored, byType, mounted>>
  BY <1>1 DEF input, dissected
<1>3. CASE stage' = "failed"
  <2>1. Fail
    BY <1>1, <1>3 DEF Fail, Goto
  <2> QED BY <1>1, <2>1, FailKeeps
<1>4. CASE stage' = "roothash"
  <2>2. \A d : Found(d)' <=> Found(d)
    BY <1>2 DEF Found
  <2>3. (Partitioned' <=> Partitioned) /\ SidecarHash' = SidecarHash
        /\ (Inconsistent' <=> Inconsistent) /\ (Missing' <=> Missing)
    BY <1>2, <2>2 DEF Partitioned, SidecarHash, Inconsistent, Missing
  <2>4. \A d \in Designators : CheckProtection(policy, d, FoundFlags(d))'
    <3>1. \A d \in Designators : CheckProtection(policy, d, FoundFlags(d))
      BY <1>1 DEF IInv, TableInv, Checked
    <3> QED BY <1>2, <3>1, <2>2, Zenon DEF FoundFlags
  <2>5. Shape'
    BY <1>2, <1>4 DEF IInv, Shape, Stages
  <2>6. HashInv'
    BY <1>1, <1>2, <1>4, <2>3 DEF IInv, HashInv, Early
  <2>7. TableInv'
    BY <1>1, <1>2, <1>4, <2>2, <2>3, <2>4 DEF IInv, TableInv, Checked, Early, OfTable
  <2>8. MountedInv'
    BY <1>1, <1>2, <1>4 DEF IInv, MountedInv, Early
  <2> QED BY <2>5, <2>6, <2>7, <2>8 DEF IInv
<1> QED BY <1>1, <1>3, <1>4

(* When the root hash has been looked for, it is known where the UUIDs may   *)
(* be asked and there is a hash partition.                                   *)
LEMMA RootHashKeeps ==
  ASSUME IInv, FindRootHash
  PROVE  IInv'
<1>1. stage = "roothash" /\ UNCHANGED input
  BY DEF FindRootHash
<1>2. UNCHANGED <<image, policy, settings, sidecars>>
  BY <1>1 DEF input
<1>3. CASE Fail
  BY <1>1, <1>3, FailKeeps
<1>4. CASE ~Fail
  <2> DEFINE v == IF LoadsSig(verity)
                  THEN [verity EXCEPT !.hash = SigHash(verity), !.sig = SigHash(verity),
                                      !.designator = ProtectedBy(verity)]
                  ELSE verity
  <2>1. /\ stage' = "root" /\ UNCHANGED <<dissected, mounted>> /\ verity' = Guessed(v)
        /\ LoadsSig(verity) => ~SigMismatch(verity)
    BY <1>4 DEF FindRootHash, Goto
  <2>2. UNCHANGED <<parts, ignored, byType>>
    BY <2>1 DEF dissected
  <2>3. /\ v = [hash |-> v.hash, sig |-> v.sig, tree |-> v.tree, designator |-> v.designator]
        /\ v.designator \in Data \cup {PartInvalid} /\ v.tree = verity.tree
        /\ v.sig \in {NoHash, v.hash}
        /\ v.hash = verity.hash \/ verity.hash = NoHash
        /\ v.designator = PartInvalid => v = verity
    BY <2>1 DEF IInv, Shape, HashInv, LoadsSig, SigMismatch, ProtectedBy, Data
  <2>4. /\ v.designator = PartInvalid => v.hash = NoHash
        /\ v.designator # PartInvalid /\ verity.designator # PartInvalid => v.designator = verity.designator
    BY <1>1, <2>3 DEF IInv, HashInv, Early, ProtectedBy
  <2>5. ProtectedBy(v) = ProtectedBy(verity)
    BY DEF ProtectedBy
  <2> HIDE DEF v
  <2>6. ASSUME NEW d \in Data, Found(VerityHash(d))
        PROVE  ProtectedBy(verity) = d /\ Found(d)
    <3>1. Found(d) /\ ~Inconsistent /\ verity.designator \in {PartInvalid, d}
      BY <1>1, <2>6 DEF IInv, TableInv, Checked, Early
    <3> QED BY <3>1, <2>6, Belong DEF ProtectedBy, Inconsistent, Data
  <2>7. /\ verity' = [hash |-> verity'.hash, sig |-> verity'.sig, tree |-> verity'.tree,
                      designator |-> verity'.designator]
        /\ verity'.designator \in Data \cup {PartInvalid} /\ verity'.tree = verity.tree
        /\ verity'.sig \in {NoHash, verity'.hash}
        /\ verity'.hash = verity.hash \/ verity.hash = NoHash
    <3>1. CASE Guesses(v)
      <4>1. ProtectedBy(v) \in Data /\ v.hash = NoHash
        BY <2>3, <3>1 DEF ProtectedBy, Guesses, Data
      <4> QED BY <2>1, <2>3, <3>1, <4>1 DEF Guessed
    <3>2. CASE ~Guesses(v)
      BY <2>1, <2>3, <3>2 DEF Guessed
    <3> QED BY <3>1, <3>2
  <2>8. ASSUME "no-guess" \notin settings, NEW d \in Data, Found(VerityHash(d))
        PROVE  verity'.hash # NoHash /\ verity'.designator = d
    <3>1. ProtectedBy(v) = d /\ Found(d) /\ d # PartInvalid
      BY <2>5, <2>6, <2>8 DEF Data, PartInvalid
    <3>2. CASE v.hash = NoHash
      <4>1. Guesses(v)
        BY <2>8, <3>1, <3>2 DEF Guesses
      <4> QED BY <2>1, <2>3, <3>1, <4>1 DEF Guessed, NoHash
    <3>3. CASE v.hash # NoHash
      <4>1. verity' = v
        BY <2>1, <3>3 DEF Guessed, Guesses
      <4>2. v.designator = d
        BY <2>3, <2>4, <3>1, <3>3 DEF ProtectedBy
      <4> QED BY <3>3, <4>1, <4>2
    <3> QED BY <3>2, <3>3
  <2>9. \A d : Found(d)' <=> Found(d)
    BY <2>2 DEF Found
  <2>10. Partitioned' /\ SidecarHash' = SidecarHash /\ ~Inconsistent'
    BY <1>1, <1>2, <2>7, <2>9 DEF Partitioned, SidecarHash, Inconsistent, IInv, TableInv, OfTable, Checked
  <2>11. \A d \in Designators : CheckProtection(policy, d, FoundFlags(d))'
    <3>1. \A d \in Designators : CheckProtection(policy, d, FoundFlags(d))
      BY <1>1 DEF IInv, TableInv, Checked
    <3> QED BY <1>2, <2>2, <2>9, <3>1, Zenon DEF FoundFlags
  <2>12. Shape'
    BY <2>1, <2>2, <2>7 DEF IInv, Shape, Stages
  <2>13. HashInv'
    BY <1>1, <1>2, <2>1, <2>7, <2>10 DEF IInv, HashInv, Early
  <2>14. TableInv'
    BY <1>1, <1>2, <2>1, <2>6, <2>8, <2>9, <2>10, <2>11 DEF TableInv, Early
  <2>15. MountedInv'
    BY <1>1, <2>1 DEF IInv, MountedInv, Early
  <2> QED BY <2>12, <2>13, <2>14, <2>15 DEF IInv
<1> QED BY <1>3, <1>4

----------------------------------------------------------------------------
(* An image without partitions is mounted as the policy asks: what it is     *)
(* protected with was checked, and so is how it is mounted.                  *)
LEMMA SingleKept ==
  ASSUME IInv, stage = "single", CheckProtection(policy, "root", SingleFlags),
         Protection("root") # "refused"
  PROVE  Kept("root", Protection("root"))
<1> DEFINE E == Exhaustive(policy, "root")
           m == Protection("root")
<1>1. ~Partitioned
  BY DEF IInv, TableInv
<1>2. UseVerity("root") <=> E \cap {"verity", "signed"} # {} /\ Covers
  BY DEF UseVerity
<1>3. SingleFlags \cap E # {}
  BY DEF CheckProtection
<1>4. CASE ~UseVerity("root")
  <2>1. m = "unprotected"
    BY <1>4 DEF Protection
  <2>2. ~Covers \/ E \cap {"verity", "signed"} = {}
    BY <1>2, <1>4
  <2>3. ~Covers
    BY <1>3, <2>2 DEF SingleFlags
  <2>4. (PolEncrypted \cup {"unused"}) \cap E = {} => "unprotected" \in E
    BY <1>3, <2>3 DEF SingleFlags
  <2> QED BY <1>1, <2>1, <2>3, <2>4 DEF Kept
<1>5. CASE UseVerity("root") /\ Trusted("root")
  <2>1. m = "signed" /\ verity.sig # NoHash /\ "signed" \in E
    BY <1>5 DEF Protection, Trusted, ChecksSig
  <2> QED BY <2>1 DEF Kept
<1>6. CASE UseVerity("root") /\ ~Trusted("root")
  <2>1. m = "verity" /\ "verity" \in E
    BY <1>6 DEF Protection
  <2> QED BY <2>1 DEF Kept
<1> QED BY <1>4, <1>5, <1>6

(* A partition is, too: if its hash partition was found, the root hash is    *)
(* known and for it.                                                         *)
LEMMA PartKept ==
  ASSUME IInv, NEW d \in Data, stage = d, Found(d), Protection(d) # "refused"
  PROVE  Kept(d, Protection(d))
<1> DEFINE E == Exhaustive(policy, d)
           m == Protection(d)
<1>1. Partitioned /\ CheckProtection(policy, d, FoundFlags(d))
  BY Names DEF IInv, TableInv, OfTable, Checked, Data
<1>2. "no-guess" \notin settings /\ Found(VerityHash(d)) => verity.hash # NoHash /\ verity.designator = d
  BY DEF IInv, TableInv, Data
<1>3. CASE ~UseVerity(d)
  <2>1. m = "unprotected"
    BY <1>3 DEF Protection
  <2>2. stage # "single"
    BY DEF Data
  <2>3. "no-guess" \notin settings => E \cap {"verity", "signed"} = {} \/ ~Found(VerityHash(d))
    BY <1>2, <1>3, <2>2 DEF UseVerity
  <2>4. FoundFlags(d) = PolEncrypted \cup {"unprotected", "unused"}
         \cup (IF Found(VerityHash(d)) THEN {"verity"} ELSE {})
         \cup (IF Found(VerityHash(d)) /\ Found(VeritySig(d)) THEN {"signed"} ELSE {})
    BY DEF FoundFlags
  <2>5. "no-guess" \notin settings /\ (PolEncrypted \cup {"unused"}) \cap E = {} => "unprotected" \in E
    BY <1>1, <2>3, <2>4 DEF CheckProtection
  <2> QED BY <1>1, <2>1, <2>3, <2>5 DEF Kept
<1>4. CASE UseVerity(d) /\ Trusted(d)
  <2>1. m = "signed" /\ verity.sig # NoHash /\ "signed" \in E
    BY <1>4 DEF Protection, Trusted, ChecksSig
  <2> QED BY <2>1 DEF Kept
<1>5. CASE UseVerity(d) /\ ~Trusted(d)
  <2>1. m = "verity" /\ "verity" \in E
    BY <1>5 DEF Protection
  <2> QED BY <2>1 DEF Kept
<1> QED BY <1>3, <1>4, <1>5

(* Mounting changes nothing but what is mounted and the place.               *)
LEMMA MountKeeps ==
  ASSUME IInv, UNCHANGED <<input, verity, next, dissected>>, stage' \in Stages \ Early,
         stage' # "failed" => \A d \in DOMAIN mounted' : Kept(d, mounted'[d]),
         stage \notin {"sidecars", "failed"} \/ stage' = "failed",
         stage' \in {"root", "usr"} => stage \in {"root", "usr"}
  PROVE  IInv'
<1>1. UNCHANGED <<image, policy, settings, sidecars, verity, parts, ignored, byType>>
  BY DEF input, dissected
<1>2. \A d : Found(d)' <=> Found(d)
  BY <1>1 DEF Found
<1>3. (Partitioned' <=> Partitioned) /\ SidecarHash' = SidecarHash
      /\ (Inconsistent' <=> Inconsistent) /\ (Covers' <=> Covers)
  BY <1>1, <1>2 DEF Partitioned, SidecarHash, Inconsistent, Covers
<1>4. ASSUME stage' \in {"root", "usr"}
      PROVE  \A d \in Designators : CheckProtection(policy, d, FoundFlags(d))'
  <2>1. \A d \in Designators : CheckProtection(policy, d, FoundFlags(d))
    BY <1>4 DEF IInv, TableInv, Checked
  <2> QED BY <1>1, <1>2, <2>1, Zenon DEF FoundFlags
<1>5. Shape'
  BY <1>1 DEF IInv, Shape
<1>6. HashInv'
  BY <1>1, <1>3 DEF IInv, HashInv, Stages, Early
<1>7. TableInv'
  BY <1>1, <1>2, <1>3, <1>4 DEF IInv, TableInv, OfTable, Checked, Stages, Early
<1>8. MountedInv'
  <2>1. \A d, m : Kept(d, m)' <=> Kept(d, m)
    BY <1>1, <1>2, <1>3 DEF Kept
  <2> QED BY <2>1 DEF MountedInv
<1> QED BY <1>5, <1>6, <1>7, <1>8 DEF IInv

LEMMA WithKeeps ==
  ASSUME NEW d, With(d), Kept(d, Protection(d)), \A x \in DOMAIN mounted : Kept(x, mounted[x])
  PROVE  \A x \in DOMAIN mounted' : Kept(x, mounted'[x])
BY DEF With

LEMMA UnpartitionedKeeps ==
  ASSUME IInv, MountUnpartitioned
  PROVE  IInv'
<1>1. stage = "single" /\ UNCHANGED <<input, verity, next, dissected>>
  BY DEF MountUnpartitioned
<1>2. CASE stage' = "failed"
  BY <1>1, <1>2, MountKeeps DEF Stages, Early
<1>3. CASE stage' # "failed"
  <2>1. /\ stage' = "mounted" /\ With("root") /\ Protection("root") # "refused"
        /\ CheckProtection(policy, "root", SingleFlags)
    BY <1>3 DEF MountUnpartitioned, Goto, Mounts
  <2>2. Kept("root", Protection("root"))
    BY <1>1, <2>1, SingleKept
  <2>3. \A x \in DOMAIN mounted : Kept(x, mounted[x])
    BY <1>1 DEF IInv, MountedInv
  <2>4. \A x \in DOMAIN mounted' : Kept(x, mounted'[x])
    BY <2>1, <2>2, <2>3, WithKeeps
  <2> QED BY <1>1, <2>1, <2>4, MountKeeps DEF Stages, Early
<1> QED BY <1>2, <1>3

LEMMA MountPartKeeps ==
  ASSUME IInv, NEW d \in Data, NEW then \in {"usr", "mounted"}, MountPart(d, then)
  PROVE  IInv'
<1>1. stage = d /\ UNCHANGED <<input, verity, next, dissected>>
  BY DEF MountPart
<1>2. CASE stage' = "failed"
  BY <1>1, <1>2, MountKeeps DEF Stages, Early
<1>3. CASE stage' # "failed"
  <2>1. stage' = then /\ (UNCHANGED mounted \/ (Found(d) /\ With(d) /\ Protection(d) # "refused"))
    BY <1>3 DEF MountPart, Goto, Mounts
  <2>2. \A x \in DOMAIN mounted : Kept(x, mounted[x])
    BY <1>1 DEF IInv, MountedInv, Data
  <2>3. \A x \in DOMAIN mounted' : Kept(x, mounted'[x])
    BY <1>1, <2>1, <2>2, PartKept, WithKeeps
  <2> QED BY <1>1, <2>1, <2>3, MountKeeps DEF Stages, Early, Data
<1> QED BY <1>2, <1>3

LEMMA StutterKeeps ==
  ASSUME IInv, UNCHANGED vars
  PROVE  IInv'
<1>1. UNCHANGED <<image, policy, settings, sidecars, verity, parts, ignored, byType, stage, mounted>>
  BY DEF vars, input, dissected
<1>2. (\A d : Found(d)' <=> Found(d)) /\ (Partitioned' <=> Partitioned)
      /\ SidecarHash' = SidecarHash /\ (Covers' <=> Covers)
  BY <1>1 DEF Found, Partitioned, SidecarHash, Covers
<1>3. (Inconsistent' <=> Inconsistent) /\ (Missing' <=> Missing)
  BY <1>1, <1>2 DEF Inconsistent, Missing
<1>4. \A d : CheckProtection(policy, d, FoundFlags(d))' <=> CheckProtection(policy, d, FoundFlags(d))
  BY <1>1, <1>2, Zenon DEF FoundFlags
<1>5. Shape' /\ HashInv'
  BY <1>1, <1>2 DEF IInv, Shape, HashInv
<1>6. TableInv'
  BY <1>1, <1>2, <1>3, <1>4 DEF IInv, TableInv
<1>7. MountedInv'
  <2>1. \A d, m : Kept(d, m)' <=> Kept(d, m)
    BY <1>1, <1>2 DEF Kept
  <2> QED BY <1>1, <2>1 DEF IInv, MountedInv
<1> QED BY <1>5, <1>6, <1>7 DEF IInv

LEMMA InvariantHolds == Spec => []IInv
<1>0. "root" \in Data /\ "usr" \in Data
  BY DEF Data
<1>1. IInv /\ [Next]_vars => IInv'
  BY <1>0, StutterKeeps, LoadKeeps, KindKeeps, SkipKeeps, ConsiderKeeps, BootKeeps, TakeKeeps,
     FinishKeeps, FilesystemsKeep, RootHashKeeps, UnpartitionedKeeps, MountPartKeeps
  DEF Next, Finished
<1> QED BY <1>1, InitHolds, PTL DEF Spec

----------------------------------------------------------------------------
(* A partition is only mounted in a way the policy allows                    *)
(* (dissect.go:245-284, image.go:335), where the root hash may be looked for *)
(* in the UUIDs and the policy of its designator has neither "unused" nor    *)
(* any of the encrypted flags: that FoundFlags may be any of the latter does *)
(* not let one through.                                                      *)
THEOREM PolicyAlwaysKept == Spec => []PolicyKept
<1>1. IInv => PolicyKept
  BY DEF IInv, MountedInv, Kept, PolicyKept
<1> QED BY <1>1, InvariantHolds, PTL

(* Verity is used wherever there is a hash partition or a hash tree, the     *)
(* policy allows it and the root hash may be looked for in the UUIDs: for    *)
(* usr as for root (docs/VERITY.md:150-153).                                 *)
THEOREM VerityAlwaysUsed == Spec => []VerityIsUsed
<1>1. IInv => VerityIsUsed
  BY DEF IInv, MountedInv, Kept, VerityIsUsed
<1> QED BY <1>1, InvariantHolds, PTL

(* The signature is one of the root hash, and what is next to the image      *)
(* comes before what is in it (sidecar.go, dissect.go).                      *)
THEOREM SignatureFits == Spec => []SignatureOfHash
<1>1. IInv => SignatureOfHash
  BY DEF IInv, HashInv, MountedInv, Kept, SignatureOfHash
<1> QED BY <1>1, InvariantHolds, PTL

----------------------------------------------------------------------------
(* Which of two partitions is preferred: never both, and one that is         *)
(* preferred to p is preferred to all that p is not worse than.              *)
LEMMA PreferredOrder ==
  ASSUME NEW p, NEW q, NEW r, NEW d,
         p.label \in Seq(STRING), q.label \in Seq(STRING), r.label \in Seq(STRING)
  PROVE  /\ ~(Preferred(p, q, d) /\ Preferred(q, p, d))
         /\ Preferred(p, q, d) /\ ~Preferred(r, q, d) => Preferred(p, r, d)
<1> DEFINE a == CompareVersions(p.label, q.label)
           b == CompareVersions(q.label, r.label)
           c == CompareVersions(p.label, r.label)
           x == CompareVersions(q.label, p.label)
           y == CompareVersions(r.label, q.label)
           z == CompareVersions(r.label, p.label)
<1>1. IsText(p.label) /\ IsText(q.label) /\ IsText(r.label)
  BY DEF IsText
<1>2. a \in Results /\ x = -a
  BY <1>1, VersionsOrdered
<1>3. b \in Results /\ y = -b
  BY <1>1, VersionsOrdered
<1>4. c \in Results /\ z = -c
  BY <1>1, VersionsOrdered
<1>5. Transitive(y, x, z)
  BY <1>1, VersionsOrdered
<1>6. Rank(p.arch) \in 0 .. 2 /\ Rank(q.arch) \in 0 .. 2 /\ Rank(r.arch) \in 0 .. 2
  BY DEF Rank
<1>7. /\ Preferred(p, q, d) <=> \/ Rank(p.arch) > Rank(q.arch)
                                \/ Rank(p.arch) = Rank(q.arch) /\ Versioned(d) /\ a > 0
      /\ Preferred(q, p, d) <=> \/ Rank(q.arch) > Rank(p.arch)
                                \/ Rank(q.arch) = Rank(p.arch) /\ Versioned(d) /\ x > 0
      /\ Preferred(r, q, d) <=> \/ Rank(r.arch) > Rank(q.arch)
                                \/ Rank(r.arch) = Rank(q.arch) /\ Versioned(d) /\ y > 0
      /\ Preferred(p, r, d) <=> \/ Rank(p.arch) > Rank(r.arch)
                                \/ Rank(p.arch) = Rank(r.arch) /\ Versioned(d) /\ c > 0
  BY DEF Preferred
<1> HIDE DEF a, b, c, x, y, z
<1>8. /\ a = -1 \/ a = 0 \/ a = 1
      /\ b = -1 \/ b = 0 \/ b = 1
      /\ c = -1 \/ c = 0 \/ c = 1
  BY <1>2, <1>3, <1>4 DEF Results
<1>9. a > 0 /\ ~(y > 0) => c > 0
  BY <1>2, <1>3, <1>4, <1>5, <1>8 DEF Transitive
<1>10. ~(a > 0 /\ x > 0)
  BY <1>2, <1>8
<1> QED BY <1>6, <1>7, <1>9, <1>10

(* Of the partitions of the table t with numbers in s, n is the best.        *)
BestAmong(t, s, d, n) ==
  /\ n \in s
  /\ \A k \in s \ {n} : /\ ~Preferred(t[k], t[n], d)
                        /\ k < n => Preferred(t[n], t[k], d)

LEMMA BestOfOne == ASSUME NEW t, NEW d, NEW n PROVE BestAmong(t, {n}, d, n)
BY DEF BestAmong

(* The next one takes its place, if it is preferred, or leaves it.           *)
LEMMA BestOfNext ==
  ASSUME NEW t, NEW s, s \subseteq Nat, NEW d, NEW n, NEW m \in Nat,
         \A k \in s : k < m, \A k \in s \cup {m} : t[k].label \in Seq(STRING),
         BestAmong(t, s, d, n)
  PROVE  BestAmong(t, s \cup {m}, d, IF Preferred(t[m], t[n], d) THEN m ELSE n)
<1>1. n \in s /\ n \in Nat /\ n < m
  BY DEF BestAmong
<1>2. CASE Preferred(t[m], t[n], d)
  <2>1. ASSUME NEW k \in s
        PROVE  Preferred(t[m], t[k], d) /\ ~Preferred(t[k], t[m], d)
    <3>1. k = n \/ ~Preferred(t[k], t[n], d)
      BY DEF BestAmong
    <3>2. Preferred(t[m], t[k], d)
      BY <1>1, <1>2, <3>1, PreferredOrder
    <3> QED BY <3>2, PreferredOrder
  <2>2. BestAmong(t, s \cup {m}, d, m)
    BY <2>1 DEF BestAmong
  <2> QED BY <1>2, <2>2
<1>3. CASE ~Preferred(t[m], t[n], d)
  <2>1. ~(m < n)
    BY <1>1
  <2>2. BestAmong(t, s \cup {m}, d, n)
    BY <1>3, <2>1 DEF BestAmong
  <2> QED BY <1>3, <2>2
<1> QED BY <1>2, <1>3

----------------------------------------------------------------------------
(* The candidates that were looked at, and what is picked of those in s.     *)
Looked(d) == {k \in Candidates(d) : k < next}

PickedOf(d, s) ==
  /\ d \in byType => BestAmong(image.table, s, d, parts[d])
  /\ Found(d) => MayUse(policy, d) = "yes"
  /\ MayUse(policy, d) = "yes" /\ s # {} => d \in byType

PickInv ==
  /\ next \in Nat \ {0}
  /\ Len(image.table) \in Nat /\ DOMAIN image.table = 1 .. Len(image.table)
  /\ \A k \in DOMAIN image.table : image.table[k].label \in Seq(STRING)
  /\ stage \in {"sidecars", "kind"} =>
       next = 1 /\ byType = {} /\ parts = [d \in Designators |-> 0]
  /\ stage = "parts" /\ image.kind = "gpt" =>
       \A d \in Designators : PickedOf(d, Looked(d)) /\ (Found(d) => d \in byType)
  /\ stage = "finish" /\ image.kind = "gpt" =>
       \A d \in Designators : PickedOf(d, Candidates(d))

(* Candidates do not change while the table is read.                         *)
LEMMA CandidatesStay ==
  ASSUME UNCHANGED <<input, verity>>
  PROVE  \A d : Candidates(d)' = Candidates(d)
<1>1. UNCHANGED <<image, policy, settings, sidecars, verity>>
  BY DEF input
<1>2. \A p : /\ Unmarked(p)' <=> Unmarked(p)
             /\ Unreadable(p)' <=> Unreadable(p)
             /\ Eligible(p)' <=> Eligible(p)
  BY <1>1 DEF Unmarked, OfOtherData, Unreadable, Eligible, Wanted
<1> QED BY <1>1, <1>2 DEF Candidates, Candidate

(* A step after which nothing is promised.                                   *)
LEMMA PickIdle ==
  ASSUME PickInv, UNCHANGED input, next' = next,
         stage' \notin {"sidecars", "kind", "finish"}, stage' = "parts" => image.kind # "gpt"
  PROVE  PickInv'
<1>1. image' = image
  BY DEF input
<1> QED BY <1>1 DEF PickInv

LEMMA PickInit == Init => PickInv
<1> SUFFICES ASSUME Init PROVE PickInv
  OBVIOUS
<1>1. PICK i \in Inputs : image = i.image
  BY DEF Init
<1>2. /\ Len(image.table) \in Nat /\ DOMAIN image.table = 1 .. Len(image.table)
      /\ \A k \in DOMAIN image.table : image.table[k].label \in Seq(STRING)
  BY <1>1, DissectAssumption
<1>3. /\ stage = "sidecars" /\ next = 1 /\ byType = {} /\ parts = [d \in Designators |-> 0]
  BY DEF Init
<1> QED BY <1>2, <1>3 DEF PickInv

LEMMA PickLoad ==
  ASSUME PickInv, LoadVeritySidecars
  PROVE  PickInv'
<1>1. /\ stage = "sidecars" /\ UNCHANGED input /\ UNCHANGED <<next, dissected>>
      /\ stage' \in {"kind", "failed"}
  BY Zenon DEF LoadVeritySidecars, Fail, Goto
<1>2. UNCHANGED <<image, next, parts, byType>>
  BY <1>1 DEF input, dissected
<1> QED BY <1>1, <1>2 DEF PickInv

LEMMA PickKind ==
  ASSUME PickInv, ChooseKind
  PROVE  PickInv'
<1>1. /\ stage = "kind" /\ UNCHANGED <<image, policy, next, parts, byType>>
      /\ stage' \in {"single", "parts", "failed"}
  BY Zenon DEF ChooseKind, Goto, input, dissected
<1>2. next = 1 /\ byType = {} /\ parts = [d \in Designators |-> 0]
  BY <1>1 DEF PickInv
<1>3. \A d \in Designators : ~Found(d)' /\ Looked(d)' = {}
  <2>1. ASSUME NEW d \in Designators
        PROVE  ~Found(d)'
    BY <1>1, <1>2 DEF Found
  <2>2. ASSUME NEW d, NEW k \in Candidates(d)'
        PROVE  ~(k < next')
    <3>1. k \in DOMAIN image.table
      BY <1>1 DEF Candidates
    <3> QED BY <1>1, <1>2, <3>1 DEF PickInv
  <2> QED BY <2>1, <2>2 DEF Looked
<1>4. \A d \in Designators : PickedOf(d, Looked(d))'
  BY <1>1, <1>2, <1>3 DEF PickedOf
<1> QED BY <1>1, <1>3, <1>4 DEF PickInv

(* A step to the next partition of a GPT, for each designator: it is not a   *)
(* candidate, the policy ignores it, or it was considered.                   *)
LEMMA PickNext ==
  ASSUME IInv, PickInv, AtPart, image.kind = "gpt",
         UNCHANGED <<input, verity, stage>>, next' = next + 1,
         \A d \in Designators :
           \/ parts'[d] = parts[d] /\ (d \in byType' <=> d \in byType)
                /\ (next \in Candidates(d) => MayUse(policy, d) # "yes")
           \/ /\ next \in Candidates(d) /\ MayUse(policy, d) = "yes"
              /\ IF ~Found(d) \/ Replaces(Here, d)
                 THEN parts'[d] = next /\ d \in byType'
                 ELSE parts'[d] = parts[d] /\ (d \in byType' <=> d \in byType)
  PROVE  PickInv'
<1>1. UNCHANGED <<image, policy>> /\ stage = "parts" /\ next \in DOMAIN image.table
  BY DEF input, AtPart
<1>2. next \in Nat \ {0} /\ \A d : Candidates(d) \subseteq 1 .. Len(image.table)
      /\ Len(image.table) \in Nat /\ DOMAIN image.table = 1 .. Len(image.table)
  BY <1>1 DEF PickInv, Candidates
<1>3. ASSUME NEW d
      PROVE  /\ Looked(d)' = Looked(d) \cup (Candidates(d) \cap {next})
             /\ Looked(d) \subseteq Nat /\ \A k \in Looked(d) : k < next
  <2>1. Candidates(d)' = Candidates(d)
    BY CandidatesStay
  <2>2. \A k \in Candidates(d) : k \in Nat /\ (k < next + 1 <=> k < next \/ k = next)
    BY <1>2
  <2>3. Looked(d)' = {k \in Candidates(d) : k < next + 1}
    BY <2>1 DEF Looked
  <2> QED BY <2>2, <2>3 DEF Looked
<1>4. ASSUME NEW d \in Designators
      PROVE  PickedOf(d, Looked(d))' /\ (Found(d)' => d \in byType')
  <2>0. d # PartInvalid
    BY Names
  <2>1. PickedOf(d, Looked(d)) /\ (Found(d) => d \in byType)
    BY <1>1 DEF PickInv
  <2>2. CASE /\ parts'[d] = parts[d] /\ (d \in byType' <=> d \in byType)
             /\ next \notin Candidates(d)
    <3>1. Looked(d)' = Looked(d) /\ (Found(d)' <=> Found(d))
      BY <1>3, <2>2 DEF Found
    <3> QED BY <1>1, <2>1, <2>2, <3>1 DEF PickedOf
  <2>3. CASE /\ parts'[d] = parts[d] /\ (d \in byType' <=> d \in byType)
             /\ MayUse(policy, d) # "yes"
    <3>1. ~Found(d) /\ ~Found(d)'
      BY <2>1, <2>3 DEF PickedOf, Found
    <3>2. d \notin byType
      <4> SUFFICES ASSUME d \in byType PROVE FALSE
        OBVIOUS
      <4>1. parts[d] \in Candidates(d)
        BY <2>1 DEF PickedOf, BestAmong, Looked
      <4>2. parts[d] # 0
        BY <1>2, <4>1
      <4> QED BY <2>0, <3>1, <4>2 DEF Found
    <3> QED BY <1>1, <2>3, <3>1, <3>2 DEF PickedOf
  <2>4. CASE next \in Candidates(d) /\ MayUse(policy, d) = "yes" /\ ~Found(d)
              /\ parts'[d] = next /\ d \in byType'
    <3>1. Looked(d) = {}
      <4> SUFFICES ASSUME Looked(d) # {} PROVE FALSE
        OBVIOUS
      <4>1. d \in byType /\ parts[d] \in Candidates(d)
        BY <2>1, <2>4 DEF PickedOf, BestAmong, Looked
      <4>2. parts[d] # 0
        BY <1>2, <4>1
      <4> QED BY <2>0, <2>4, <4>2 DEF Found
    <3>2. Looked(d)' = {next}
      BY <1>3, <2>4, <3>1
    <3>3. BestAmong(image.table, {next}, d, next)
      BY BestOfOne
    <3> QED BY <1>1, <2>4, <3>2, <3>3 DEF PickedOf, BestAmong
  <2>5. CASE /\ next \in Candidates(d) /\ MayUse(policy, d) = "yes" /\ Found(d)
             /\ IF Replaces(Here, d) THEN parts'[d] = next /\ d \in byType'
                ELSE parts'[d] = parts[d] /\ (d \in byType' <=> d \in byType)
    <3> DEFINE t == image.table
               n == parts[d]
               m == next
               s == Looked(d)
    <3>1. d \in byType /\ BestAmong(t, s, d, n)
      BY <2>1, <2>5 DEF PickedOf
    <3>2. Replaces(Here, d) <=> Preferred(t[m], t[n], d)
      BY <3>1, Zenon DEF Replaces, Preferred, Here, Arch, P
    <3>3. \A k \in s \cup {m} : t[k].label \in Seq(STRING)
      BY <1>1 DEF PickInv, Looked, Candidates
    <3>4. s \subseteq Nat /\ m \in Nat /\ \A k \in s : k < m
      BY <1>2, <1>3
    <3>5. BestAmong(t, s \cup {m}, d, IF Preferred(t[m], t[n], d) THEN m ELSE n)
      <4> HIDE DEF t, n, m, s
      <4> QED BY <3>1, <3>3, <3>4, BestOfNext
    <3>6. Looked(d)' = s \cup {m}
      BY <1>3, <2>5
    <3>7. parts'[d] = (IF Preferred(t[m], t[n], d) THEN m ELSE n) /\ d \in byType'
      BY <2>5, <3>1, <3>2
    <3>8. BestAmong(t, Looked(d)', d, parts'[d])
      BY <3>5, <3>6, <3>7
    <3> QED BY <1>1, <2>5, <3>7, <3>8 DEF PickedOf, BestAmong
  <2> QED BY <2>2, <2>3, <2>4, <2>5
<1>5. next' \in Nat \ {0}
  BY <1>2
<1> QED BY <1>1, <1>4, <1>5 DEF PickInv

LEMMA PickSkip ==
  ASSUME IInv, PickInv, Skip \/ Generic
  PROVE  PickInv'
<1>1. AtPart /\ UNCHANGED <<input, verity, stage, parts, byType>> /\ next' = next + 1
  BY DEF Skip, Generic, dissected
<1>2. CASE image.kind = "gpt"
  <2>1. Here.type \notin Designators \/ ~Unmarked(Here) \/ ~Eligible(Here)
    BY <1>2 DEF Skip, Generic, Designators
  <2>2. \A d : next \notin Candidates(d)
    BY <2>1 DEF Candidates, Candidate, Here
  <2> QED BY <1>1, <1>2, <2>2, PickNext
<1>3. CASE image.kind # "gpt"
  <2>1. stage = "parts" /\ UNCHANGED image
    BY <1>1 DEF AtPart, input
  <2> QED BY <1>1, <1>3, <2>1 DEF PickInv
<1> QED BY <1>2, <1>3

LEMMA PickFail ==
  ASSUME PickInv, Fail, UNCHANGED input
  PROVE  PickInv'
BY PickIdle DEF Fail, Goto

LEMMA PickConsider ==
  ASSUME IInv, PickInv, Consider
  PROVE  PickInv'
<1>1. AtPart /\ image.kind = "gpt" /\ Candidate(Here) /\ UNCHANGED input
  BY DEF Consider
<1> DEFINE d == Here.type
           kept == UNCHANGED <<verity, stage>> /\ next' = next + 1
<1>2. \/ Fail
      \/ kept /\ MayUse(policy, d) = "ignored" /\ UNCHANGED <<parts, byType>>
      \/ /\ kept /\ MayUse(policy, d) \notin {"no", "ignored"}
         /\ IF ~Found(d) \/ Replaces(Here, d)
            THEN parts' = [parts EXCEPT ![d] = next] /\ byType' = byType \cup {d}
            ELSE UNCHANGED <<parts, byType>>
  BY Zenon DEF Consider
<1>3. MayUse(policy, d) \in {"no", "ignored", "yes"}
  BY Zenon DEF MayUse
<1>4. d \in Designators /\ next \in Candidates(d)
      /\ \A e \in Designators \ {d} : next \notin Candidates(e)
  BY <1>1 DEF Candidates, Candidate, Here, AtPart
<1>5. parts = [e \in Designators |-> parts[e]]
  BY DEF IInv, Shape
<1>6. CASE Fail
  BY <1>1, <1>6, PickFail
<1>7. CASE kept /\ MayUse(policy, d) = "ignored" /\ UNCHANGED <<parts, byType>>
  <2>1. \A e \in Designators : next \in Candidates(e) => MayUse(policy, e) # "yes"
    BY <1>4, <1>7
  <2> QED BY <1>1, <1>7, <2>1, PickNext
<1>8. CASE /\ kept /\ MayUse(policy, d) \notin {"no", "ignored"}
           /\ IF ~Found(d) \/ Replaces(Here, d)
              THEN parts' = [parts EXCEPT ![d] = next] /\ byType' = byType \cup {d}
              ELSE UNCHANGED <<parts, byType>>
  <2>1. ASSUME NEW e \in Designators \ {d}
        PROVE  parts'[e] = parts[e] /\ (e \in byType' <=> e \in byType) /\ next \notin Candidates(e)
    <3> HIDE DEF d
    <3> QED BY <1>4, <1>5, <1>8
  <2>2. /\ next \in Candidates(d) /\ MayUse(policy, d) = "yes"
        /\ IF ~Found(d) \/ Replaces(Here, d)
           THEN parts'[d] = next /\ d \in byType'
           ELSE parts'[d] = parts[d] /\ (d \in byType' <=> d \in byType)
    <3> HIDE DEF d
    <3> QED BY <1>3, <1>4, <1>5, <1>8
  <2> HIDE DEF d
  <2> QED BY <1>1, <1>8, <2>1, <2>2, PickNext
<1> QED BY <1>2, <1>6, <1>7, <1>8

LEMMA PickBoot ==
  ASSUME PickInv, Boot \/ CannotRead
  PROVE  PickInv'
<1>1. AtPart /\ UNCHANGED input
  BY DEF Boot, CannotRead
<1>2. Fail \/ (image.kind = "mbr" /\ UNCHANGED stage /\ next' = next + 1)
  BY Zenon DEF Boot, CannotRead
<1>3. CASE Fail
  BY <1>1, <1>3, PickFail
<1>4. CASE image.kind = "mbr" /\ UNCHANGED stage /\ next' = next + 1
  <2>1. stage = "parts" /\ image' = image
    BY <1>1 DEF AtPart, input
  <2> QED BY <1>4, <2>1 DEF PickInv
<1> QED BY <1>2, <1>3, <1>4

LEMMA PickTake ==
  ASSUME IInv, PickInv, TakeGeneric
  PROVE  PickInv'
<1>1. stage = "parts" /\ next \notin DOMAIN image.table /\ UNCHANGED input
  BY DEF TakeGeneric
<1>2. CASE Fail
  BY <1>1, <1>2, PickFail
<1>3. CASE ~Fail
  <2> DEFINE bad == \/ \E d \in {"root", "usr"} : Orphaned(d)
                    \/ Mismatched
                    \/ NeedsGeneric /\ (multiple \/ (generic # 0 /\ MayUse(policy, "root") = "no"))
             taken == /\ IF NeedsGeneric /\ generic # 0
                         THEN IF MayUse(policy, "root") = "yes"
                              THEN parts' = [parts EXCEPT !["root"] = generic] /\ UNCHANGED ignored
                              ELSE ignored' = ignored \cup {"root"} /\ UNCHANGED parts
                         ELSE UNCHANGED <<parts, ignored>>
                      /\ Goto("finish")
                      /\ UNCHANGED <<verity, next, byType, generic, multiple, mounted>>
  <2>1. IF bad THEN Fail ELSE taken
    BY DEF TakeGeneric
  <2>2. taken
    <3> HIDE DEF bad, taken
    <3> QED BY <1>3, <2>1
  <2>3. /\ stage' = "finish" /\ UNCHANGED <<verity, next, byType>>
        /\ \/ parts' = parts
           \/ /\ parts' = [parts EXCEPT !["root"] = generic]
              /\ ~Found("root") /\ MayUse(policy, "root") = "yes"
    BY <2>2 DEF Goto, NeedsGeneric
  <2>4. UNCHANGED <<image, policy>>
    BY <1>1 DEF input
  <2>5. ASSUME NEW d \in Designators, image.kind = "gpt"
        PROVE  PickedOf(d, Candidates(d))'
    <3>1. PickedOf(d, Looked(d)) /\ (Found(d) => d \in byType)
      BY <1>1, <2>5 DEF PickInv
    <3>2. Looked(d) = Candidates(d)
      <4>1. \A k \in Candidates(d) : k \in 1 .. Len(image.table)
        BY DEF Candidates, PickInv
      <4>2. Len(image.table) \in Nat /\ next \in Nat /\ next \notin 1 .. Len(image.table)
        BY <1>1 DEF PickInv
      <4>3. next # 0 => \A k \in Candidates(d) : k < next
        BY <4>1, <4>2
      <4>4. next # 0
        BY <1>1, <2>5 DEF PickInv
      <4> QED BY <4>3, <4>4 DEF Looked
    <3>3. Candidates(d)' = Candidates(d)
      BY <1>1, <2>3, CandidatesStay
    <3>4. d \in byType => Found(d)
      <4>1. d \in byType => parts[d] \in Candidates(d)
        BY <3>1, <3>2 DEF PickedOf, BestAmong
      <4>2. d # PartInvalid /\ 0 \notin Candidates(d)
        BY Names DEF PickInv, Candidates
      <4> QED BY <4>1, <4>2 DEF Found
    <3>5. parts = [e \in Designators |-> parts[e]]
      BY DEF IInv, Shape
    <3>6. parts'[d] = parts[d] \/ (d = "root" /\ ~Found("root") /\ MayUse(policy, "root") = "yes")
      BY <2>3, <3>5
    <3>7. CASE parts'[d] = parts[d]
      <4>1. Found(d)' <=> Found(d)
        BY <3>7 DEF Found
      <4> QED BY <2>3, <2>4, <3>1, <3>2, <3>3, <3>7, <4>1 DEF PickedOf
    <3>8. CASE d = "root" /\ ~Found("root") /\ MayUse(policy, "root") = "yes"
      BY <2>3, <2>4, <3>1, <3>2, <3>3, <3>4, <3>8 DEF PickedOf
    <3> QED BY <3>6, <3>7, <3>8
  <2> QED BY <2>3, <2>4, <2>5 DEF PickInv
<1> QED BY <1>2, <1>3

LEMMA PickLater ==
  ASSUME PickInv,
         \/ Finish \/ CheckFilesystems \/ FindRootHash \/ MountUnpartitioned
         \/ MountPart("root", "usr") \/ MountPart("usr", "mounted")
  PROVE  PickInv'
<1>1. UNCHANGED <<input, next>>
  BY DEF Finish, CheckFilesystems, FindRootHash, MountUnpartitioned, MountPart, Fail
<1>2. stage' \in {"failed", "filesystems", "roothash", "root", "usr", "mounted"}
  BY DEF Finish, CheckFilesystems, FindRootHash, MountUnpartitioned, MountPart, Fail, Goto
<1> QED BY <1>1, <1>2, PickIdle

LEMMA PickStutter ==
  ASSUME PickInv, UNCHANGED vars
  PROVE  PickInv'
<1>1. UNCHANGED <<image, policy, settings, sidecars, verity, parts, byType, stage, next, input>>
  BY DEF vars, input, dissected
<1>2. \A d : Candidates(d)' = Candidates(d)
  BY <1>1, CandidatesStay
<1>3. \A d : Looked(d)' = Looked(d) /\ (Found(d)' <=> Found(d))
  BY <1>1, <1>2 DEF Looked, Found
<1>4. \A d, s : PickedOf(d, s)' <=> PickedOf(d, s)
  BY <1>1, <1>3 DEF PickedOf
<1> QED BY <1>1, <1>2, <1>3, <1>4 DEF PickInv

LEMMA PickHolds == Spec => []PickInv
<1>1. IInv /\ PickInv /\ [Next]_vars => PickInv'
  BY PickStutter, PickLoad, PickKind, PickSkip, PickConsider, PickBoot, PickTake, PickLater
  DEF Next, Finished
<1> QED BY <1>1, PickInit, InvariantHolds, PTL DEF Spec

(* Once the table is read, the partition of a designator is the best of all  *)
(* that come into question, the first if there are several, whatever the     *)
(* order of the table (dissect.go:138-167): that takes versions to be        *)
(* totally ordered, as each partition is compared to the best so far only.   *)
THEOREM BestAlwaysPicked == Spec => []BestPicked
<1>1. PickInv => BestPicked
  BY DEF PickInv, PickedOf, BestAmong, BestPicked, P
<1> QED BY <1>1, PickHolds, PTL
=============================================================================
