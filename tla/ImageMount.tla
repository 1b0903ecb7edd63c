----------------------------- MODULE ImageMount -----------------------------
(***************************************************************************)
(* Mounting raw images, internal/image: loop devices, dm-verity devices    *)
(* and mounts of several processes, with what the kernel does when the     *)
(* last user of a device goes away.  The image is opened, its partitions   *)
(* and the policy are chosen before anything is attached: that is left to  *)
(* Dissect and ImagePolicy.                                                *)
(***************************************************************************)
EXTENDS Integers, Sequences, FiniteSets

CONSTANTS
  Procs, NoProc,
  Loops,         \* loop devices; the kernel would add one when none is free
  Disk,          \* a block device that is an image
  NoFile, Other, \* nothing, or a file of another program, behind a loop device
  NoName,
  Attempts,      \* loopAttachAttempts
  BusyRetries,   \* how often DM_DEV_REMOVE is tried before it is deferred
  Bounds         \* which mounts take place, and what is bounded how (see below)

(* A file system, one with a hash tree in a second file, a partitioned image *)
(* with verity, root and usr, and such an image on a block device.           *)
AllKinds == {"plain", "external", "ddi", "device"}

(* A bound is on the processes that mount an image, the kinds of images and  *)
(* the ways to treat signatures, the attempts the kernel turns down without  *)
(* reason, the steps that fail, the processes killed, the loop devices taken *)
(* and the dm devices opened by other programs.                              *)

(* No signature to check; one that must be valid; one that may be ignored;   *)
(* and a policy that asks for a signature where there is none.               *)
AllSignatures == {"none", "must", "may", "missing"}

(* A dm device has the name of a device and a disk sequence number.          *)
Devices == Loops \cup {Disk}
Names == Devices \X Nat
Files == Procs \X {"data", "hash"}

ASSUME ImageMountAssumption ==
  /\ Attempts \in Nat \ {0} /\ BusyRetries \in Nat
  /\ Disk \notin Loops /\ NoProc \notin Procs
  /\ NoFile # Other /\ NoFile \notin Files /\ Other \notin Files
  /\ NoName \notin Names /\ \A d \in Devices : d \notin Names
  /\ \A b \in Bounds : b.kinds \subseteq AllKinds /\ b.signatures \subseteq AllSignatures

VARIABLES
  bounds,            \* the member of Bounds
  kind, signature,   \* of each process' image
  file,              \* what is behind each loop device
  diskseq, lastseq,  \* disk sequence numbers of the loop devices, and the last
  ctl,               \* who holds the lock on /dev/loop-control
  locked,            \* loop devices whose lock another program holds
  pc,                \* where each process is
  cand, attempt,     \* the device LOOP_CTL_GET_FREE gave, and the attempts made
  held,              \* m.loops: the devices a process holds open
  dm,                \* m.verity
  tries, then,       \* dmRemove: its attempts, and what follows it
  trusted,           \* whether the signature is known to be good, or not needed
  dms,               \* dm devices
  busy,              \* those some other program has open
  mounts,            \* file systems mounted
  hiccups, faults, crashes, others, opens

image == <<bounds, kind, signature>>
loopdevs == <<file, diskseq, lastseq, locked>>
procs == <<pc, cand, attempt, held, dm, tries, then, trusted>>
counts == <<hiccups, faults, crashes, others, opens>>
vars == <<image, loopdevs, ctl, procs, dms, busy, mounts, counts>>

Verity(p) == kind[p] # "plain"
FilesOf(p) == CASE kind[p] = "external" -> <<"data", "hash">>
                [] kind[p] = "device" -> <<>>
                [] OTHER -> <<"data">>
TargetsOf(p) == IF kind[p] = "ddi" THEN <<"root", "usr">> ELSE <<"root">>

Places == {"absent", "open", "get", "configure", "create", "load", "fallback", "resume",
           "mount", "relinquish", "close", "cleanup", "remove", "detach",
           "done", "failed", "dead"}

Init ==
  /\ bounds \in Bounds
  /\ kind \in [Procs -> bounds.kinds \cup {"plain"}]
  /\ signature \in [Procs -> bounds.signatures \cup {"none"}]
  /\ \A p \in Procs :
       /\ IF p \in bounds.procs THEN kind[p] \in bounds.kinds ELSE kind[p] = "plain"
       /\ IF Verity(p) THEN signature[p] \in bounds.signatures ELSE signature[p] = "none"
  /\ file = [d \in Loops |-> NoFile] /\ diskseq = [d \in Loops |-> 0] /\ lastseq = 0
  /\ ctl = NoProc /\ locked = {}
  /\ pc = [p \in Procs |-> IF p \in bounds.procs THEN "open" ELSE "absent"]
  /\ cand = [p \in Procs |-> Disk]
  /\ attempt = [p \in Procs |-> 0] /\ tries = [p \in Procs |-> 0]
  /\ held = [p \in Procs |-> <<>>] /\ dm = [p \in Procs |-> NoName]
  /\ then = [p \in Procs |-> "detach"] /\ trusted = [p \in Procs |-> FALSE]
  /\ dms = {} /\ busy = {} /\ mounts = {}
  /\ hiccups = 0 /\ faults = 0 /\ crashes = 0 /\ others = 0 /\ opens = 0

----------------------------------------------------------------------------
(* What the kernel does of itself after a step: a dm device to be removed    *)
(* goes with its last user, and so does (LO_FLAGS_AUTOCLEAR) what one of the *)
(* processes put behind a loop device.                                       *)
InUse(n) == n \in busy' \/ \E m \in mounts' : m.dev = n

LoopInUse(d) ==
  \/ \E p \in Procs : \E i \in DOMAIN held'[p] : held'[p][i] = d
  \/ \E x \in dms' : d \in x.on
  \/ \E m \in mounts' : m.dev = d

Kernel(devices, behind) ==
  /\ dms' = {x \in devices : x.deferred => InUse(x.name)}
  /\ file' = [d \in Loops |-> IF behind[d] # Other /\ ~LoopInUse(d)
                              THEN NoFile ELSE behind[d]]

Goto(p, place) == pc' = [pc EXCEPT ![p] = place]

Faults == faults < bounds.faults /\ faults' = faults + 1

----------------------------------------------------------------------------
(* A block device with partitions is used as it is, openBlockDevice; other   *)
(* images get a loop device for each of their files.                         *)
Borrow(p) == held' = [held EXCEPT ![p] = <<Disk>>]

Open(p) ==
  /\ pc[p] = "open"
  /\ IF kind[p] = "device"
     THEN Borrow(p) /\ Goto(p, "create")
     ELSE UNCHANGED held /\ Goto(p, "get")
  /\ UNCHANGED <<image, loopdevs, ctl, cand, attempt, dm, tries, then, trusted,
                 dms, busy, mounts, counts>>

(* LOOP_CTL_GET_FREE, under the lock on /dev/loop-control.                   *)
GetFree(p) ==
  /\ pc[p] = "get" /\ ctl = NoProc
  /\ ctl' = p
  /\ \E d \in Loops : file[d] = NoFile /\ cand' = [cand EXCEPT ![p] = d]
  /\ Goto(p, "configure")
  /\ UNCHANGED <<image, loopdevs, attempt, held, dm, tries, then, trusted,
                 dms, busy, mounts, counts>>

Attached(p) ==
  IF Len(held'[p]) < Len(FilesOf(p)) THEN "get"
  ELSE IF Verity(p) THEN "create" ELSE "mount"

(* loopConfigure finds the device free and binds the file to it.             *)
Configure(p) ==
  /\ pc[p] = "configure" /\ cand[p] \notin locked /\ file[cand[p]] = NoFile
  /\ file' = [file EXCEPT ![cand[p]] = <<p, FilesOf(p)[Len(held[p]) + 1]>>]
  /\ lastseq' = lastseq + 1 /\ diskseq' = [diskseq EXCEPT ![cand[p]] = lastseq + 1]
  /\ held' = [held EXCEPT ![p] = Append(@, cand[p])]
  /\ attempt' = [attempt EXCEPT ![p] = 0]
  /\ ctl' = NoProc /\ Goto(p, Attached(p))
  /\ UNCHANGED <<image, locked, cand, dm, tries, then, trusted, dms, busy, mounts, counts>>

(* Mutant of Again: the attempts are counted from one. *)
AgainOnceMore(p) ==
  /\ attempt' = [attempt EXCEPT ![p] = @ + 1]
  /\ ctl' = NoProc
  /\ Goto(p, IF attempt[p] < Attempts THEN "get" ELSE "cleanup")
  /\ UNCHANGED <<image, loopdevs, cand, held, dm, tries, then, trusted, dms, busy, mounts>>

(* Another attempt, up to loopAttachAttempts.                                *)
Again(p) ==
  /\ attempt' = [attempt EXCEPT ![p] = @ + 1]
  /\ ctl' = NoProc
  /\ Goto(p, IF attempt[p] + 1 < Attempts THEN "get" ELSE "cleanup")
  /\ UNCHANGED <<image, loopdevs, cand, held, dm, tries, then, trusted, dms, busy, mounts>>

(* Somebody else was faster.                                                 *)
Taken(p) ==
  /\ pc[p] = "configure" /\ cand[p] \notin locked /\ file[cand[p]] # NoFile
  /\ Again(p)
  /\ UNCHANGED counts

(* Partitions of an earlier user, a device going away, or no direct I/O.     *)
Hiccup(p) ==
  /\ pc[p] = "configure" /\ hiccups < bounds.hiccups /\ hiccups' = hiccups + 1
  /\ Again(p)
  /\ UNCHANGED <<faults, crashes, others, opens>>

(* Any other error of loopAttach, the file being unbound again.              *)
AttachFails(p) ==
  /\ pc[p] = "configure" /\ Faults
  /\ ctl' = NoProc /\ Goto(p, "cleanup")
  /\ UNCHANGED <<image, loopdevs, cand, attempt, held, dm, tries, then, trusted,
                 dms, busy, mounts, hiccups, crashes, others, opens>>

----------------------------------------------------------------------------
(* Mutant of VerityDMName: the disk sequence number is left out. *)
NameOfDevice(p) == <<held[p][1], 0>>

(* dm-verity.  The device is named after the first device of the image and   *)
(* its disk sequence number.                                                 *)
VerityDMName(p) ==
  IF held[p][1] = Disk THEN <<Disk, 0>> ELSE <<held[p][1], diskseq[held[p][1]]>>

Named(n) == \E x \in dms : x.name = n

(* The kernel is asked to check the signature first.                         *)
AsksKernel(p) == signature[p] \in {"must", "may"} /\ then[p] # "fallback"

(* Mutant of Create: a device of that name is removed to make room. *)
CreateMakingRoom(p) ==
  /\ pc[p] = "create" /\ signature[p] # "missing"
  /\ dms' = {x \in dms : x.name # VerityDMName(p)} \cup
             {[name |-> VerityDMName(p), by |-> p, on |-> {}, live |-> FALSE, deferred |-> FALSE]}
  /\ Goto(p, "load")
  /\ UNCHANGED <<image, loopdevs, ctl, cand, attempt, held, dm, tries, then, trusted,
                 busy, mounts, counts>>

(* DM_DEV_CREATE, if a table may be loaded at all and the name is free.      *)
Create(p) ==
  /\ pc[p] = "create" /\ signature[p] # "missing" /\ ~Named(VerityDMName(p))
  /\ dms' = dms \cup {[name |-> VerityDMName(p), by |-> p, on |-> {},
                       live |-> FALSE, deferred |-> FALSE]}
  /\ Goto(p, "load")
  /\ UNCHANGED <<image, loopdevs, ctl, cand, attempt, held, dm, tries, then, trusted,
                 busy, mounts, counts>>

CreateFails(p) ==
  /\ pc[p] = "create" /\ (signature[p] = "missing" \/ Named(VerityDMName(p)))
  /\ Goto(p, "cleanup")
  /\ UNCHANGED <<image, loopdevs, ctl, cand, attempt, held, dm, tries, then, trusted,
                 dms, busy, mounts, counts>>

(* DM_DEFERRED_REMOVE for a device that is in use.                           *)
Deferring(x) == [x EXCEPT !.deferred = TRUE]
Marked(n) == {IF x.name = n THEN Deferring(x) ELSE x : x \in dms}

(* On an error the device is removed, and then comes next.                   *)
RemoveThen(p, next) ==
  /\ then' = [then EXCEPT ![p] = next] /\ tries' = [tries EXCEPT ![p] = 0]
  /\ Goto(p, "remove")

Load(p) ==
  /\ pc[p] = "load"
  /\ LET under == {held[p][i] : i \in DOMAIN held[p]} \cap Loops
     IN dms' = {IF x.name = VerityDMName(p) THEN [x EXCEPT !.on = under] ELSE x : x \in dms}
  /\ trusted' = [trusted EXCEPT ![p] = @ \/ AsksKernel(p) \/ signature[p] = "none"]
  /\ Goto(p, "resume")
  /\ UNCHANGED <<image, loopdevs, ctl, cand, attempt, held, dm, tries, then,
                 busy, mounts, counts>>

KernelRefuses(p) ==
  /\ pc[p] = "load" /\ AsksKernel(p)
  /\ RemoveThen(p, "fallback")
  /\ UNCHANGED <<image, loopdevs, ctl, cand, attempt, held, dm, trusted,
                 dms, busy, mounts, counts>>

(* Mutant of Fallback: the policy is not asked. *)
FallbackAnyway(p) ==
  /\ pc[p] = "fallback"
  /\ trusted' \in {trusted, [trusted EXCEPT ![p] = TRUE]} /\ Goto(p, "create")
  /\ UNCHANGED <<image, loopdevs, ctl, cand, attempt, held, dm, tries, then,
                 dms, busy, mounts, counts>>

(* The signature is checked against the certificates; one that is not good   *)
(* is only passed over if the policy takes plain verity, too.                *)
Fallback(p) ==
  /\ pc[p] = "fallback"
  /\ \/ trusted' = [trusted EXCEPT ![p] = TRUE] /\ Goto(p, "create")
     \/ UNCHANGED trusted /\ Goto(p, IF signature[p] = "may" THEN "create" ELSE "cleanup")
  /\ UNCHANGED <<image, loopdevs, ctl, cand, attempt, held, dm, tries, then,
                 dms, busy, mounts, counts>>

Resume(p) ==
  /\ pc[p] = "resume"
  /\ dms' = {IF x.name = VerityDMName(p) THEN [x EXCEPT !.live = TRUE] ELSE x : x \in dms}
  /\ dm' = [dm EXCEPT ![p] = VerityDMName(p)]
  /\ Goto(p, "mount")
  /\ UNCHANGED <<image, loopdevs, ctl, cand, attempt, held, tries, then, trusted,
                 busy, mounts, counts>>

(* Loading or resuming fails, or the device node cannot be made.             *)
ActivationFails(p) ==
  /\ pc[p] \in {"load", "resume"} /\ Faults
  /\ RemoveThen(p, "cleanup")
  /\ UNCHANGED <<image, loopdevs, ctl, cand, attempt, held, dm, trusted,
                 dms, busy, mounts, hiccups, crashes, others, opens>>

(* Mutant of TryRemove: a busy device is tried for ever. *)
TryRemoveAgain(p) ==
  /\ pc[p] = "remove" /\ UNCHANGED <<busy, mounts, held>>
  /\ LET n == VerityDMName(p) IN
     IF ~InUse(n)
     THEN Kernel({x \in dms : x.name # n}, file) /\ Goto(p, then[p]) /\ UNCHANGED tries
     ELSE tries' = [tries EXCEPT ![p] = 1 - @] /\ UNCHANGED <<pc, dms, file>>
  /\ UNCHANGED <<image, diskseq, lastseq, locked, ctl, cand, attempt, dm, then, trusted, counts>>

(* dmRemove: a device that is in use is tried again, then marked.            *)
TryRemove(p) ==
  /\ pc[p] = "remove" /\ UNCHANGED <<busy, mounts, held>>
  /\ LET n == VerityDMName(p) IN
     IF ~InUse(n)
     THEN Kernel({x \in dms : x.name # n}, file) /\ Goto(p, then[p]) /\ UNCHANGED tries
     ELSE IF tries[p] < BusyRetries
     THEN tries' = [tries EXCEPT ![p] = @ + 1] /\ UNCHANGED <<pc, dms, file>>
     ELSE Kernel(Marked(n), file) /\ Goto(p, then[p]) /\ UNCHANGED tries
  /\ UNCHANGED <<image, diskseq, lastseq, locked, ctl, cand, attempt, dm, then, trusted, counts>>

----------------------------------------------------------------------------
MountsOf(p) == {m \in mounts : m.by = p}

(* The next file system is mounted, from the dm device if there is one.      *)
Mount(p) ==
  /\ pc[p] = "mount"
  /\ LET i == Cardinality(MountsOf(p)) + 1 IN
     /\ mounts' = mounts \cup
          {[by |-> p, at |-> TargetsOf(p)[i],
            dev |-> IF Verity(p) THEN dm[p] ELSE held[p][1]]}
     /\ Goto(p, IF i < Len(TargetsOf(p)) THEN "mount" ELSE "relinquish")
  /\ UNCHANGED <<image, loopdevs, ctl, cand, attempt, held, dm, tries, then, trusted,
                 dms, busy, counts>>

(* Mounting or marking the dm device fails.                                  *)
MountFails(p) ==
  /\ pc[p] \in {"mount", "relinquish"} /\ Faults
  /\ Goto(p, "cleanup")
  /\ UNCHANGED <<image, loopdevs, ctl, cand, attempt, held, dm, tries, then, trusted,
                 dms, busy, mounts, hiccups, crashes, others, opens>>

(* verityDevice.relinquish: the dm device goes with its last user.           *)
Deferred(p) == Marked(dm[p])

(* Mutant of Relinquish: nothing is done if the device is busy. *)
RelinquishUnlessBusy(p) ==
  /\ pc[p] = "relinquish" /\ UNCHANGED <<busy, mounts, held>>
  /\ Kernel(IF Verity(p) /\ dm[p] \notin busy THEN Deferred(p)
                                              ELSE dms, file)
  /\ dm' = [dm EXCEPT ![p] = NoName]
  /\ Goto(p, "close")
  /\ UNCHANGED <<image, diskseq, lastseq, locked, ctl, cand, attempt, tries, then, trusted, counts>>

(* relinquish: first the dm device is marked for removal with its last user, *)
(* then the loop devices are closed.                                         *)
Relinquish(p) ==
  /\ pc[p] = "relinquish" /\ UNCHANGED <<busy, mounts, held>>
  /\ Kernel(IF Verity(p) THEN Deferred(p) ELSE dms, file)
  /\ dm' = [dm EXCEPT ![p] = NoName]
  /\ Goto(p, "close")
  /\ UNCHANGED <<image, diskseq, lastseq, locked, ctl, cand, attempt, tries, then, trusted, counts>>

(* The loop devices are closed, after success or in the end of cleanup.      *)
Close(p) ==
  /\ pc[p] \in {"close", "detach"}
  /\ held' = [held EXCEPT ![p] = <<>>] /\ UNCHANGED <<busy, mounts>>
  /\ Kernel(dms, file)
  /\ Goto(p, IF pc[p] = "close" THEN "done" ELSE "failed")
  /\ UNCHANGED <<image, diskseq, lastseq, locked, ctl, cand, attempt, dm, tries, then, trusted, counts>>

(* cleanup: the mounts in reverse, the dm device, the loop devices.          *)
CleanupUnmount(p) ==
  /\ pc[p] = "cleanup" /\ MountsOf(p) # {}
  /\ mounts' = mounts \ {CHOOSE m \in MountsOf(p) :
                           m.at = TargetsOf(p)[Cardinality(MountsOf(p))]}
  /\ UNCHANGED <<busy, held>> /\ Kernel(dms, file)
  /\ UNCHANGED <<image, diskseq, lastseq, locked, ctl, pc, cand, attempt, dm, tries, then,
                 trusted, counts>>

CleanupDevices(p) ==
  /\ pc[p] = "cleanup" /\ MountsOf(p) = {}
  /\ IF dm[p] # NoName
     THEN RemoveThen(p, "detach") /\ dm' = [dm EXCEPT ![p] = NoName]
     ELSE Goto(p, "detach") /\ UNCHANGED <<tries, then, dm>>
  /\ UNCHANGED <<image, loopdevs, ctl, cand, attempt, held, trusted, dms, busy, mounts, counts>>

----------------------------------------------------------------------------
(* The surroundings.  SIGKILL closes all a process has open.                 *)
Crash(p) ==
  /\ pc[p] \notin {"absent", "done", "failed", "dead"} /\ crashes < bounds.crashes
  /\ crashes' = crashes + 1
  /\ Goto(p, "dead")
  /\ held' = [held EXCEPT ![p] = <<>>] /\ dm' = [dm EXCEPT ![p] = NoName]
  /\ ctl' = IF ctl = p THEN NoProc ELSE ctl
  /\ UNCHANGED <<busy, mounts>> /\ Kernel(dms, file)
  /\ UNCHANGED <<image, diskseq, lastseq, locked, cand, attempt, tries, then, trusted,
                 hiccups, faults, others, opens>>

(* The image is unmounted, later and by whomever.                            *)
Unmounted(p) ==
  /\ pc[p] \in {"done", "dead"}
  /\ \E m \in MountsOf(p) : mounts' = mounts \ {m}
  /\ UNCHANGED <<busy, held>> /\ Kernel(dms, file)
  /\ UNCHANGED <<image, diskseq, lastseq, locked, ctl, pc, cand, attempt, dm, tries, then,
                 trusted, counts>>

(* Other programs use loop devices without the lock on /dev/loop-control,    *)
(* and open dm devices for a moment.                                         *)
OtherBinds(d) ==
  /\ file[d] = NoFile /\ others < bounds.others /\ others' = others + 1
  /\ file' = [file EXCEPT ![d] = Other]
  /\ lastseq' = lastseq + 1 /\ diskseq' = [diskseq EXCEPT ![d] = lastseq + 1]
  /\ locked' \in {locked, locked \cup {d}}
  /\ UNCHANGED <<image, ctl, procs, dms, busy, mounts, hiccups, faults, crashes, opens>>

OtherReleases(d) ==
  /\ file[d] = Other
  /\ file' = [file EXCEPT ![d] = NoFile] /\ locked' = locked \ {d}
  /\ UNCHANGED <<image, diskseq, lastseq, ctl, procs, dms, busy, mounts, counts>>

OtherOpens ==
  /\ opens < bounds.opens /\ opens' = opens + 1
  /\ \E x \in dms : x.name \notin busy /\ busy' = busy \cup {x.name}
  /\ UNCHANGED <<image, loopdevs, ctl, procs, dms, mounts, hiccups, faults, crashes, others>>

OtherCloses(n) ==
  /\ n \in busy /\ busy' = busy \ {n} /\ UNCHANGED <<mounts, held>>
  /\ Kernel(dms, file)
  /\ UNCHANGED <<image, diskseq, lastseq, locked, ctl, pc, cand, attempt, dm, tries, then,
                 trusted, counts>>

Proceeds(p) ==
  \/ Open(p) \/ GetFree(p) \/ Configure(p) \/ Taken(p) \/ Hiccup(p) \/ AttachFails(p)
  \/ Create(p) \/ CreateFails(p) \/ Load(p) \/ KernelRefuses(p) \/ Fallback(p)
  \/ Resume(p) \/ ActivationFails(p) \/ TryRemove(p) \/ Mount(p) \/ MountFails(p)
  \/ Relinquish(p) \/ Close(p) \/ CleanupUnmount(p) \/ CleanupDevices(p)

Next ==
  \/ \E p \in Procs : Proceeds(p) \/ Crash(p) \/ Unmounted(p)
  \/ \E d \in Loops : OtherBinds(d) \/ OtherReleases(d)
  \/ OtherOpens \/ \E n \in busy : OtherCloses(n)

Spec == Init /\ [][Next]_vars

(* A process runs on, and other programs let go of loop devices: a dm device *)
(* they may keep open.                                                       *)
FairSpec ==
  /\ Spec
  /\ \A p \in Procs : WF_vars(Proceeds(p))
  /\ \A d \in Loops : WF_vars(OtherReleases(d))
----------------------------------------------------------------------------
(* The variables have the types of the fields of mounter, loopDevice and     *)
(* verityDevice, internal/image/image.go:87-103.                             *)
TypeOK ==
  /\ kind \in [Procs -> AllKinds] /\ signature \in [Procs -> AllSignatures]
  /\ file \in [Loops -> {NoFile, Other} \cup Files]
  /\ diskseq \in [Loops -> 0..lastseq] /\ lastseq \in Nat
  /\ ctl \in Procs \cup {NoProc} /\ locked \subseteq Loops
  /\ pc \in [Procs -> Places] /\ cand \in [Procs -> Devices]
  /\ attempt \in [Procs -> 0..Attempts] /\ tries \in [Procs -> 0..BusyRetries]
  /\ held \in [Procs -> Seq(Devices)] /\ dm \in [Procs -> Names \cup {NoName}]
  /\ then \in [Procs -> {"fallback", "cleanup", "detach"}]
  /\ trusted \in [Procs -> BOOLEAN]
  /\ \A x \in dms : /\ x.name \in Names /\ x.by \in Procs /\ x.on \subseteq Loops
                    /\ x.live \in BOOLEAN /\ x.deferred \in BOOLEAN
  /\ busy \subseteq Names
  /\ \A m \in mounts : m.by \in Procs /\ m.dev \in Devices \cup Names

(* "On error nothing stays mounted or attached" (image.go:66-67), whatever   *)
(* the step that failed and the steps that failed after it: but for a dm     *)
(* device another program has open, which goes when that closes it.          *)
FailureLeavesNothing ==
  \A p \in Procs : pc[p] = "failed" =>
    /\ MountsOf(p) = {} /\ held[p] = <<>> /\ ctl # p
    /\ \A x \in dms : x.by = p => x.deferred /\ x.name \in busy
    /\ \A d \in Loops : file[d] \in {<<p, "data">>, <<p, "hash">>} =>
         \E x \in dms : x.by = p /\ d \in x.on

(* "On success unmounting the mount points releases the loop and dm devices" *)
(* (image.go:67-68), also those of an attempt with the signature in the      *)
(* kernel that was given up before.                                          *)
SuccessHandsOver ==
  \A p \in Procs : pc[p] = "done" /\ MountsOf(p) = {} =>
    /\ \A x \in dms : x.by = p => x.name \in busy /\ x.deferred
    /\ (\A x \in dms : x.by # p) =>
         \A d \in Loops : file[d] \notin {<<p, "data">>, <<p, "hash">>}

(* Together, what Mount promises of the devices it takes (image.go:66-68).   *)
ReleasesEverything == FailureLeavesNothing /\ SuccessHandsOver

(* A mounted file system keeps showing the files of the image it was mounted *)
(* from: neither its loop devices nor its dm device are taken from under it  *)
(* and given to another image (verity.go:360-365, loop.go:254-275).          *)
MountsShowOwnImage ==
  \A m \in mounts :
    LET under == {d \in Loops : m.dev = d} IN
    /\ \A d \in under : file[d] = <<m.by, "data">>
    /\ m.dev \notin Devices =>
         \E x \in dms : /\ x.name = m.dev /\ x.by = m.by /\ x.live
                       /\ \A d \in x.on : file[d] \in {<<m.by, "data">>, <<m.by, "hash">>}

(* Where the policy wants a signature, no device is ever brought to life     *)
(* without one that the kernel or the certificates vouch for                 *)
(* (image.go:405-434), over both attempts of activateVerity.                 *)
SignedOnly ==
  \A x \in dms : x.live =>
    /\ signature[x.by] = "must" => trusted[x.by]
    /\ signature[x.by] # "missing"

(* The name of a dm device is free when it is needed for the first time      *)
(* (verity.go:154-156: "unique per attachment"), also if devices of killed   *)
(* processes were left behind.  Not so for images on a block device, which   *)
(* have no disk sequence number of their own attachment.                     *)
NamesNeverCollide ==
  \A p \in Procs : pc[p] = "create" /\ then[p] # "fallback" /\ kind[p] # "device" =>
    ~Named(VerityDMName(p))

(* A mount ends, done or cleaned up after: neither the attempts to attach    *)
(* (loop.go:72) nor those to remove a busy device (verity.go:489) go on for  *)
(* ever, and the lock on /dev/loop-control comes round.                      *)
MountEnds == \A p \in Procs : <>(pc[p] \in {"absent", "done", "failed", "dead"})
=============================================================================
