----------------------------- MODULE MCDissect -----------------------------
(* Tables of partitions that differ in what decides between them, and, for   *)
(* the policies, images with every combination of root and usr partitions    *)
(* and what protects them.                                                   *)
EXTENDS Dissect, SequencesExt

V(n) == <<n>>
Plain(type, arch, label, uuid) == Part(type, arch, label, uuid, {}, "ext4", NoHash)
H == <<"r", "rv">>
U == <<"u", "uv">>

Root == Plain("root", Native, V("1"), "r")
RootVerity == Plain("root-verity", Native, V("1"), "rv")
RootSig == Part("root-verity-sig", Native, V("1"), "rs", {}, "none", H)
Usr == Plain("usr", Native, V("1"), "u")
UsrVerity == Plain("usr-verity", Native, V("1"), "uv")
UsrSig == Part("usr-verity-sig", Native, V("1"), "us", {}, "none", U)

Gpt(s) == [fs |-> "none", kind |-> "gpt", table |-> s]
Mbr(s) == [fs |-> "none", kind |-> "mbr", table |-> s]

\* Tables, one partition after the other.
PickParts ==
  {Root, Plain("root", Native, <<"1", "0">>, "r2"), Plain("root", Native, V("2"), "r3"),
   Plain("root", Secondary, V("3"), "r4"), Plain("root", "sparc", V("4"), "r5"),
   Plain("root", "alpha", V("8"), "r6"), Plain("root", Native, <<"_empty">>, "r7"),
   Usr, RootVerity, Plain("root-verity", Secondary, V("3"), "rv2"),
   Plain("linux", NoArch, V("1"), "l"), Plain("home", NoArch, V("2"), "h"),
   Part("esp", NoArch, V("1"), "e", {"noauto"}, "vfat", NoHash),
   Part("esp", NoArch, V("2"), "e2", {"noblock"}, "vfat", NoHash),
   Part("srv", NoArch, V("1"), "s", {"noauto"}, "ext4", NoHash),
   Plain("var", NoArch, V("1"), VarUUID), Plain("var", NoArch, V("1"), "v")}

MbrParts ==
  {Part("83", NoArch, V("1"), "", {"boot"}, "ext4", NoHash),
   Part("83", NoArch, V("1"), "", {}, "ext4", NoHash),
   Part("ea", NoArch, V("1"), "", {}, "vfat", NoHash),
   Part("other", NoArch, V("1"), "", {}, "ext4", NoHash)}

PickImages == {Gpt(s) : s \in BoundedSeq(PickParts, 3)} \cup {Mbr(s) : s \in BoundedSeq(MbrParts, 3)}

Rules(f, def) == [rules |-> f, def |-> def]
RootRule(f) == Rules([d \in {"root"} |-> f], PolIgnore)
BothRule(f) == Rules([d \in {"root", "usr"} |-> f], PolIgnore)

PickPolicies ==
  {Rules([d \in {} |-> {}], PolOpen), ClassDefaultPolicy("sysext"),
   Rules([d \in {"home", "xbootldr", "srv"} |-> {"absent"}], PolOpen)}
NoSidecars == [root |-> NoHash, usr |-> NoHash, rootsig |-> "none", usrsig |-> "none",
               tree |-> FALSE]
PickSidecars == {NoSidecars}
PickSettings == {{}, {"no-machine-id"}}

\* Policies and what protects an image.
Luks(p) == [p EXCEPT !.fs = "crypto_LUKS"]
Flag(p, a) == [p EXCEPT !.attrs = {a}]

PolicyImages ==
  {Gpt(s) : s \in
     {<<Root>>, <<Root, Usr>>, <<Root, RootVerity>>, <<Root, RootVerity, RootSig>>,
      <<Root, RootVerity, Usr>>, <<Usr, UsrVerity>>, <<Usr, UsrVerity, UsrSig, Root>>,
      <<Usr>>, <<Root, RootVerity, Usr, UsrVerity>>, <<Luks(Root)>>, <<Flag(Root, "readonly")>>,
      <<Flag(Usr, "growfs")>>, <<RootVerity>>, <<Root, RootSig>>,
      <<Root, RootVerity, [RootSig EXCEPT !.hash = BadHash]>>,
      <<Root, RootVerity, [RootSig EXCEPT !.hash = U]>>,
      <<Root, [RootVerity EXCEPT !.uuid = "x"], RootSig>>,
      <<[Root EXCEPT !.fs = "ambiguous"]>>, <<[Root EXCEPT !.arch = Secondary], Usr>>,
      <<Plain("linux", NoArch, V("1"), "l")>>}}
  \cup {[fs |-> fs, kind |-> kind, table |-> <<>>] :
          fs \in {"ext4", "ext3", "crypto_LUKS", "none", "ambiguous"},
          kind \in {"none", "broken"}}

PolicyPolicies ==
  {ClassDefaultPolicy("sysext"), ClassDefaultPolicy("confext"),
   BothRule({"verity", "absent"}), BothRule({"signed", "absent"}), RootRule({"signed"}),
   BothRule({"verity", "signed", "absent"}), RootRule({"unprotected"}),
   BothRule({"unprotected", "signed", "absent", "read-only-off", "growfs-off"}),
   BothRule({"unprotected", "absent", "xfs"}), RootRule({"absent"}),
   Rules([d \in {} |-> {}], PolOpen)}

Files(root, usr, rootsig, usrsig, tree) ==
  [root |-> root, usr |-> usr, rootsig |-> rootsig, usrsig |-> usrsig, tree |-> tree]

PolicySidecars ==
  {NoSidecars, Files(NoHash, NoHash, "none", "none", TRUE), Files(BadHash, U, "none", "none", FALSE),
   Files(<<"r", ZeroUUID>>, NoHash, "none", "none", FALSE),
   Files(H, NoHash, "none", "none", FALSE), Files(H, U, "given", "given", FALSE),
   Files(H, U, "none", "given", TRUE), Files(H, NoHash, "given", "none", TRUE),
   Files(NoHash, U, "given", "given", FALSE), Files(NoHash, U, "none", "empty", FALSE),
   Files(NoHash, U, "given", "none", TRUE), Files(<<"r", "x">>, NoHash, "none", "none", FALSE)}

PolicySettings == SUBSET (Settings \ {"no-machine-id"})

MCInputs ==
  [image : PickImages, policy : PickPolicies, sidecars : PickSidecars, settings : PickSettings]
    \cup [image : PolicyImages, policy : PolicyPolicies, sidecars : PolicySidecars,
          settings : PolicySettings]
=============================================================================
