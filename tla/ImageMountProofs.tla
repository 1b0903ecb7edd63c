-------------------------- MODULE ImageMountProofs --------------------------
(***************************************************************************)
(* Proofs about ImageMount, for any processes, loop devices, images,       *)
(* policies on signatures, attempts and bounds.                            *)
(***************************************************************************)
EXTENDS ImageMount, TLAPS, SequenceTheorems

----------------------------------------------------------------------------
(* The inductive invariant.  A dm device and a mount as they are recorded.   *)
DmDevice == [name : Names, by : Procs, on : SUBSET Loops, live : BOOLEAN, deferred : BOOLEAN]

(* What LoopInUse and InUse say, of a state rather than of the state a step  *)
(* leads to.                                                                 *)
LoopUsed(d) ==
  \/ \E p \in Procs : \E i \in DOMAIN held[p] : held[p][i] = d
  \/ \E x \in dms : d \in x.on
  \/ \E m \in mounts : m.dev = d
NameUsed(n) == n \in busy \/ \E m \in mounts : m.dev = n

Typed == TypeOK /\ dms \subseteq DmDevice

(* Processes: what one holds at which place of Mount.                        *)
Holds(p) ==
  /\ held[p] \in Seq(IF kind[p] = "device" THEN {Disk} ELSE Loops)
  /\ Len(held[p]) <= IF kind[p] = "device" THEN 1 ELSE Len(FilesOf(p))
  /\ pc[p] \in {"absent", "open", "done", "failed", "dead"} => held[p] = <<>>
  /\ pc[p] \in {"open", "get", "configure"} => attempt[p] < Attempts
  /\ pc[p] \in {"get", "configure"} => kind[p] # "device" /\ Len(held[p]) < Len(FilesOf(p))
  /\ pc[p] = "configure" => cand[p] \in Loops
  /\ pc[p] \in {"create", "load", "fallback", "resume", "remove"} => Verity(p)
  /\ pc[p] \in {"create", "load", "fallback", "resume", "remove", "mount", "relinquish"} =>
       held[p] # <<>>
  /\ pc[p] \in {"mount", "relinquish"} /\ Verity(p) => dm[p] # NoName
  /\ dm[p] # NoName => /\ Verity(p) /\ held[p] # <<>> /\ dm[p] = VerityDMName(p)
                       /\ pc[p] \in {"mount", "relinquish", "cleanup"}
  /\ ctl = p => pc[p] = "configure"

(* Signatures: how far the two attempts of activateVerity have come.         *)
Checks(p) ==
  /\ pc[p] \in {"absent", "open", "get", "configure"} => then[p] = "detach"
  /\ pc[p] = "fallback" => then[p] = "fallback"
  /\ pc[p] \in {"create", "load"} => then[p] \in {"detach", "fallback"}
  /\ pc[p] \in {"create", "load"} /\ then[p] = "fallback" => trusted[p] \/ signature[p] = "may"
  /\ pc[p] = "load" => signature[p] # "missing"
  /\ pc[p] = "resume" => trusted[p] \/ signature[p] = "may"

(* Loop devices: what a process holds shows its own files, and a loop device *)
(* shows a file of a process only while something uses it.                   *)
OwnFile(d, p) == file[d] \in {<<p, "data">>, <<p, "hash">>}
Shows(p) ==
  \A i \in DOMAIN held[p] : held[p][i] \in Loops => file[held[p][i]] = <<p, FilesOf(p)[i]>>
Needed(d) == file[d] \in Files => LoopUsed(d)

(* dm devices: no two have one name, nor two one process, as the name of a   *)
(* device stays the one its process asks for while it holds the image.       *)
Distinct == \A x, y \in dms : x.name = y.name => x = y

Recorded(x) ==
  /\ held[x.by] # <<>> => x.name = VerityDMName(x.by)
  /\ x.name[1] \in Loops => x.name[2] <= lastseq
  /\ \A d \in Loops : x.name = <<d, diskseq[d]>> /\ file[d] \in Files => OwnFile(d, x.by)
  /\ \A d \in x.on : OwnFile(d, x.by)

Stage(x) ==
  /\ Verity(x.by) /\ signature[x.by] # "missing"
  /\ pc[x.by] \notin {"absent", "open", "get", "configure"}
  /\ pc[x.by] = "create" => then[x.by] = "fallback"
  /\ pc[x.by] = "load" => x.on = {}
  /\ pc[x.by] \in {"create", "fallback", "close", "done", "detach", "failed"} => x.deferred
  /\ pc[x.by] = "cleanup" /\ dm[x.by] = NoName => x.deferred
  /\ x.deferred => NameUsed(x.name)

Device(p) ==
  pc[p] \in {"load", "resume", "remove"} \/ dm[p] # NoName =>
    \E x \in dms : /\ x.by = p /\ x.name = VerityDMName(p) /\ ~x.deferred
                   /\ dm[p] # NoName => x.live

(* Mounts: each is of a process that has come that far, and shows its image. *)
Mounted(m) ==
  /\ pc[m.by] \in {"mount", "relinquish", "close", "done", "cleanup", "dead"}
  /\ m.dev \in Loops => file[m.dev] = <<m.by, "data">>
  /\ m.dev \notin Devices => \E x \in dms : x.name = m.dev /\ x.by = m.by /\ x.live

Processes == \A p \in Procs : Holds(p) /\ Checks(p)
LoopDevices == (\A p \in Procs : Shows(p)) /\ (\A d \in Loops : Needed(d))
DmDevices == /\ Distinct /\ (\A x \in dms : Recorded(x) /\ Stage(x))
             /\ \A p \in Procs : Device(p)
Mounts == \A m \in mounts : Mounted(m)

IInv == Typed /\ Processes /\ LoopDevices /\ DmDevices /\ Mounts /\ SignedOnly

----------------------------------------------------------------------------
(* An image has one file or two, or none that needs a loop device; the first *)
(* is the one with the data.                                                 *)
LEMMA FilesFacts ==
  ASSUME NEW p \in Procs, kind[p] \in AllKinds, kind[p] # "device"
  PROVE  /\ FilesOf(p) \in Seq({"data", "hash"}) /\ Len(FilesOf(p)) \in 1..2
         /\ FilesOf(p)[1] = "data"
         /\ \A i \in 1..Len(FilesOf(p)) : FilesOf(p)[i] \in {"data", "hash"}
  <1>1. FilesOf(p) = <<"data", "hash">> \/ FilesOf(p) = <<"data">>
    BY DEF AllKinds, FilesOf
  <1>2. CASE FilesOf(p) = <<"data", "hash">>
    BY <1>2
  <1>3. CASE FilesOf(p) = <<"data">>
    BY <1>3
  <1> QED BY <1>1, <1>2, <1>3

(* The name a dm device of a process gets is a name.                         *)
LEMMA NameFacts ==
  ASSUME TypeOK, NEW p \in Procs, held[p] # <<>>
  PROVE  /\ held[p][1] \in Devices /\ 1 \in DOMAIN held[p] /\ VerityDMName(p) \in Names
         /\ VerityDMName(p)[1] = held[p][1]
         /\ held[p][1] \in Loops => VerityDMName(p) = <<held[p][1], diskseq[held[p][1]]>>
  <1>1. held[p] \in Seq(Devices) /\ Len(held[p]) > 0
    BY EmptySeq DEF TypeOK
  <1>2. 1 \in DOMAIN held[p] /\ held[p][1] \in Devices
    BY <1>1
  <1>3. held[p][1] # Disk => diskseq[held[p][1]] \in Nat
    BY <1>2 DEF TypeOK, Devices
  <1> QED
    BY <1>2, <1>3, ImageMountAssumption DEF VerityDMName, Names, Devices

(* What a step leaves alone that only moves a process: the loop devices, the *)
(* dm devices, the mounts and what the processes hold.                       *)
Still == UNCHANGED <<image, loopdevs, held, dms, busy, mounts>>

(* A step that leaves the devices alone leaves every process the name of its *)
(* dm device.                                                                *)
LEMMA StillNames ==
  ASSUME Still
  PROVE  \A p \in Procs : VerityDMName(p)' = VerityDMName(p)
  BY DEF Still, loopdevs, VerityDMName

(* The other processes are where they were.                                  *)
OthersStay(p) ==
  \A o \in Procs : o # p =>
    /\ pc'[o] = pc[o] /\ then'[o] = then[o] /\ trusted'[o] = trusted[o] /\ dm'[o] = dm[o]
    /\ attempt'[o] = attempt[o] /\ cand'[o] = cand[o] /\ held'[o] = held[o]
    /\ ctl' = o => ctl = o

(* What the invariant says of a process, of its dm devices and its mounts.   *)
About(p) ==
  /\ Holds(p) /\ Checks(p) /\ Device(p)
  /\ \A x \in dms : x.by = p => Stage(x)
  /\ \A m \in mounts : m.by = p => Mounted(m)

(* A step that moves one process and touches no device keeps the invariant   *)
(* if it keeps what that says of the process.                                *)
LEMMA ControlStep ==
  ASSUME IInv, Still, NEW p \in Procs, OthersStay(p), Typed',
         trusted[p] => trusted'[p], About(p)'
  PROVE  IInv'
  <1> USE DEF Still, image, loopdevs
  <1>1. \A o \in Procs : VerityDMName(o)' = VerityDMName(o) /\ (Verity(o)' <=> Verity(o))
                         /\ FilesOf(o)' = FilesOf(o)
    BY DEF VerityDMName, Verity, FilesOf
  <1>2. Processes'
    <2> SUFFICES ASSUME NEW o \in Procs PROVE (Holds(o) /\ Checks(o))'
      BY DEF Processes
    <2>1. CASE o = p
      BY <2>1 DEF About
    <2>2. CASE o # p
      BY <2>2, <1>1 DEF IInv, Processes, Holds, Checks, OthersStay
    <2> QED BY <2>1, <2>2
  <1>3. LoopDevices'
    BY <1>1 DEF IInv, LoopDevices, Shows, Needed, LoopUsed
  <1>4. Distinct' /\ \A x \in dms' : Recorded(x)'
    BY <1>1 DEF IInv, DmDevices, Distinct, Recorded, OwnFile, Typed, DmDevice
  <1>5. ASSUME NEW x \in dms' PROVE Stage(x)'
    <2>1. CASE x.by = p
      BY <2>1 DEF About
    <2>2. CASE x.by # p
      BY <2>2, <1>1 DEF IInv, DmDevices, Stage, OthersStay, Typed, DmDevice, NameUsed
    <2> QED BY <2>1, <2>2
  <1>6. ASSUME NEW o \in Procs PROVE Device(o)'
    <2>1. CASE o = p
      BY <2>1 DEF About
    <2>2. CASE o # p
      BY <2>2, <1>1 DEF IInv, DmDevices, Device, OthersStay
    <2> QED BY <2>1, <2>2
  <1>7. Mounts'
    <2> SUFFICES ASSUME NEW m \in mounts' PROVE Mounted(m)'
      BY DEF Mounts
    <2>1. CASE m.by = p
      BY <2>1 DEF About
    <2>2. CASE m.by # p
      BY <2>2 DEF IInv, Mounts, Mounted, OthersStay, Typed, TypeOK
    <2> QED BY <2>1, <2>2
  <1>8. SignedOnly'
    BY DEF IInv, SignedOnly, OthersStay, Typed, DmDevice
  <1> QED BY <1>2, <1>3, <1>4, <1>5, <1>6, <1>7, <1>8 DEF IInv, DmDevices

----------------------------------------------------------------------------
(* Steps that only move a process.  First, a free device is asked for.       *)
LEMMA GetFreeStep ==
  ASSUME IInv, NEW p \in Procs, GetFree(p) PROVE IInv'
  <1> USE DEF GetFree, Goto, Still, image, loopdevs, counts
  <1>1. Still /\ OthersStay(p) /\ trusted' = trusted
    BY DEF OthersStay, IInv, Typed, TypeOK
  <1>2. Typed'
    BY DEF IInv, Typed, TypeOK, Places, Devices, DmDevice
  <1>3. Holds(p)'
    BY <1>1, ImageMountAssumption DEF IInv, Processes, Holds, Typed, TypeOK, Verity,
       FilesOf, VerityDMName
  <1>4. Checks(p)'
    BY <1>1, ImageMountAssumption DEF IInv, Processes, Checks, Typed, TypeOK, AsksKernel
  <1>5. Device(p)'
    <2>1. pc'[p] = "configure" /\ dm'[p] = dm[p] /\ dms' = dms
      BY DEF IInv, Typed, TypeOK
    <2>2. VerityDMName(p)' = VerityDMName(p)
      BY <1>1, StillNames
    <2>3. Device(p)
      BY DEF IInv, DmDevices
    <2> QED BY <2>1, <2>2, <2>3 DEF Device
  <1>6. \A x \in dms' : x.by = p => Stage(x)'
    BY <1>1, ImageMountAssumption DEF IInv, DmDevices, Stage, Typed, TypeOK, DmDevice,
       Verity, NameUsed, Processes, Checks, Holds
  <1>7. \A m \in mounts' : m.by = p => Mounted(m)'
    BY <1>1, ImageMountAssumption DEF IInv, Mounts, Mounted, Typed, TypeOK
  <1> QED BY <1>1, <1>2, <1>3, <1>4, <1>5, <1>6, <1>7, ControlStep DEF About

(* Another attempt to attach, or giving up after the last, which is both     *)
(* what Taken and Hiccup do (loop.go): nothing was attached by it.           *)
LEMMA AgainStep ==
  ASSUME IInv, NEW p \in Procs, pc[p] = "configure", Again(p) PROVE IInv'
  <1> USE DEF Again, Goto, Still, image, loopdevs
  <1>1. Still /\ OthersStay(p) /\ trusted' = trusted
    BY ImageMountAssumption DEF OthersStay, IInv, Typed, TypeOK
  <1>2. Typed'
    BY ImageMountAssumption DEF IInv, Typed, TypeOK, Places, Processes, Holds, DmDevice
  <1>3. Holds(p)'
    BY <1>1, ImageMountAssumption DEF IInv, Processes, Holds, Typed, TypeOK, Verity,
       FilesOf, VerityDMName
  <1>4. Checks(p)'
    BY <1>1, ImageMountAssumption DEF IInv, Processes, Checks, Typed, TypeOK, AsksKernel
  <1>5. Device(p)'
    <2>1. pc'[p] \in {"get", "cleanup"} /\ dm'[p] = dm[p] /\ dms' = dms
      BY DEF IInv, Typed, TypeOK
    <2>2. VerityDMName(p)' = VerityDMName(p)
      BY <1>1, StillNames
    <2>3. Device(p)
      BY DEF IInv, DmDevices
    <2> QED BY <2>1, <2>2, <2>3 DEF Device
  <1>6. \A x \in dms' : x.by = p => Stage(x)'
    BY <1>1, ImageMountAssumption DEF IInv, DmDevices, Stage, Typed, TypeOK, DmDevice,
       Verity, NameUsed, Processes, Checks, Holds
  <1>7. \A m \in mounts' : m.by = p => Mounted(m)'
    BY <1>1, ImageMountAssumption DEF IInv, Mounts, Mounted, Typed, TypeOK
  <1> QED BY <1>1, <1>2, <1>3, <1>4, <1>5, <1>6, <1>7, ControlStep DEF About

(* Attaching fails for good: what was attached before stays recorded for     *)
(* cleanup.                                                                  *)
LEMMA AttachFailsStep ==
  ASSUME IInv, NEW p \in Procs, AttachFails(p) PROVE IInv'
  <1> USE DEF AttachFails, Goto, Still, image, loopdevs
  <1>1. Still /\ OthersStay(p) /\ trusted' = trusted
    BY ImageMountAssumption DEF OthersStay, IInv, Typed, TypeOK
  <1>2. Typed'
    BY DEF IInv, Typed, TypeOK, Places, DmDevice
  <1>3. Holds(p)'
    BY <1>1, ImageMountAssumption DEF IInv, Processes, Holds, Typed, TypeOK, Verity,
       FilesOf, VerityDMName
  <1>4. Checks(p)'
    BY <1>1, ImageMountAssumption DEF IInv, Processes, Checks, Typed, TypeOK, AsksKernel
  <1>5. Device(p)'
    <2>1. pc'[p] \in {"get", "cleanup"} /\ dm'[p] = dm[p] /\ dms' = dms
      BY DEF IInv, Typed, TypeOK
    <2>2. VerityDMName(p)' = VerityDMName(p)
      BY <1>1, StillNames
    <2>3. Device(p)
      BY DEF IInv, DmDevices
    <2> QED BY <2>1, <2>2, <2>3 DEF Device
  <1>6. \A x \in dms' : x.by = p => Stage(x)'
    BY <1>1, ImageMountAssumption DEF IInv, DmDevices, Stage, Typed, TypeOK, DmDevice,
       Verity, NameUsed, Processes, Checks, Holds
  <1>7. \A m \in mounts' : m.by = p => Mounted(m)'
    BY <1>1, ImageMountAssumption DEF IInv, Mounts, Mounted, Typed, TypeOK
  <1> QED BY <1>1, <1>2, <1>3, <1>4, <1>5, <1>6, <1>7, ControlStep DEF About

(* No device is made where a signature is missing or the name is taken; in   *)
(* the second attempt the device of that name is the own one, still to be    *)
(* removed.                                                                  *)
LEMMA CreateFailsStep ==
  ASSUME IInv, NEW p \in Procs, CreateFails(p) PROVE IInv'
  <1> USE DEF CreateFails, Goto, Still, image, loopdevs, counts
  <1>1. Still /\ OthersStay(p) /\ trusted' = trusted
    BY DEF OthersStay, IInv, Typed, TypeOK
  <1>2. Typed'
    BY DEF IInv, Typed, TypeOK, Places, DmDevice
  <1>3. Holds(p)'
    BY <1>1 DEF IInv, Processes, Holds, Typed, TypeOK, Verity, FilesOf, VerityDMName
  <1>4. Checks(p)'
    BY <1>1 DEF IInv, Processes, Checks, Typed, TypeOK, AsksKernel
  <1>5. Device(p)'
    <2>1. pc'[p] = "cleanup" /\ dm'[p] = dm[p] /\ dms' = dms
      BY DEF IInv, Typed, TypeOK
    <2>2. VerityDMName(p)' = VerityDMName(p)
      BY <1>1, StillNames
    <2>3. Device(p)
      BY DEF IInv, DmDevices
    <2> QED BY <2>1, <2>2, <2>3 DEF Device
  <1>6. \A x \in dms' : x.by = p => Stage(x)'
    BY <1>1 DEF IInv, DmDevices, Stage, Typed, TypeOK, DmDevice, Verity, NameUsed,
       Processes, Checks, Holds
  <1>7. \A m \in mounts' : m.by = p => Mounted(m)'
    BY <1>1 DEF IInv, Mounts, Mounted, Typed, TypeOK
  <1> QED BY <1>1, <1>2, <1>3, <1>4, <1>5, <1>6, <1>7, ControlStep DEF About

(* The kernel refuses the signature: the device just made goes before the    *)
(* certificates are asked.                                                   *)
LEMMA KernelRefusesStep ==
  ASSUME IInv, NEW p \in Procs, KernelRefuses(p) PROVE IInv'
  <1> USE DEF KernelRefuses, RemoveThen, Goto, Still, image, loopdevs, counts
  <1>1. Still /\ OthersStay(p) /\ trusted' = trusted
    BY DEF OthersStay, IInv, Typed, TypeOK
  <1>2. Typed'
    BY ImageMountAssumption DEF IInv, Typed, TypeOK, Places, DmDevice
  <1>3. Holds(p)'
    BY <1>1 DEF IInv, Processes, Holds, Typed, TypeOK, Verity, FilesOf, VerityDMName
  <1>4. Checks(p)'
    BY <1>1 DEF IInv, Processes, Checks, Typed, TypeOK, AsksKernel
  <1>5. Device(p)'
    BY <1>1, StillNames DEF IInv, DmDevices, Device, Typed, TypeOK, Processes, Holds
  <1>6. \A x \in dms' : x.by = p => Stage(x)'
    BY <1>1 DEF IInv, DmDevices, Stage, Typed, TypeOK, DmDevice, Verity, NameUsed,
       Processes, Checks, Holds
  <1>7. \A m \in mounts' : m.by = p => Mounted(m)'
    BY <1>1 DEF IInv, Mounts, Mounted, Typed, TypeOK
  <1> QED BY <1>1, <1>2, <1>3, <1>4, <1>5, <1>6, <1>7, ControlStep DEF About

(* The certificates decide: trusted, passed over where the policy allows     *)
(* that, or cleaned up after.                                                *)
LEMMA FallbackStep ==
  ASSUME IInv, NEW p \in Procs, Fallback(p) PROVE IInv'
  <1> USE DEF Fallback, Goto, Still, image, loopdevs, counts
  <1>1. Still /\ OthersStay(p) /\ (trusted[p] => trusted'[p])
    BY DEF OthersStay, IInv, Typed, TypeOK
  <1>2. Typed'
    BY DEF IInv, Typed, TypeOK, Places, DmDevice
  <1>3. Holds(p)'
    <2>1. /\ pc[p] = "fallback" /\ pc'[p] \in {"create", "cleanup"} /\ dm'[p] = dm[p]
          /\ held' = held /\ ctl' = ctl /\ kind' = kind
      BY DEF IInv, Typed, TypeOK
    <2>2. FilesOf(p)' = FilesOf(p) /\ (Verity(p)' <=> Verity(p))
      BY <1>1 DEF FilesOf, Verity
    <2>3. Holds(p)
      BY DEF IInv, Processes
    <2>4. dm[p] = NoName
      BY <2>1, <2>3 DEF Holds
    <2> QED BY <2>1, <2>2, <2>3, <2>4 DEF Holds
  <1>4. Checks(p)'
    BY <1>1 DEF IInv, Processes, Checks, Typed, TypeOK, AsksKernel
  <1>5. Device(p)'
    <2>1. dm'[p] = NoName /\ pc'[p] \in {"create", "cleanup"}
      BY DEF IInv, Processes, Holds, Typed, TypeOK
    <2> QED BY <2>1 DEF Device
  <1>6. \A x \in dms' : x.by = p => Stage(x)'
    BY <1>1 DEF IInv, DmDevices, Stage, Typed, TypeOK, DmDevice, Verity, NameUsed,
       Processes, Checks, Holds
  <1>7. \A m \in mounts' : m.by = p => Mounted(m)'
    BY <1>1 DEF IInv, Mounts, Mounted, Typed, TypeOK
  <1> QED BY <1>1, <1>2, <1>3, <1>4, <1>5, <1>6, <1>7, ControlStep DEF About

(* Loading or resuming fails: the device goes before cleanup runs, which     *)
(* therefore finds none.                                                     *)
LEMMA ActivationFailsStep ==
  ASSUME IInv, NEW p \in Procs, ActivationFails(p) PROVE IInv'
  <1> USE DEF ActivationFails, RemoveThen, Goto, Still, image, loopdevs
  <1>1. Still /\ OthersStay(p) /\ trusted' = trusted
    BY DEF OthersStay, IInv, Typed, TypeOK
  <1>2. Typed'
    BY ImageMountAssumption DEF IInv, Typed, TypeOK, Places, DmDevice
  <1>3. Holds(p)'
    BY <1>1 DEF IInv, Processes, Holds, Typed, TypeOK, Verity, FilesOf, VerityDMName
  <1>4. Checks(p)'
    BY <1>1 DEF IInv, Processes, Checks, Typed, TypeOK, AsksKernel
  <1>5. Device(p)'
    BY <1>1, StillNames DEF IInv, DmDevices, Device, Typed, TypeOK, Processes, Holds
  <1>6. \A x \in dms' : x.by = p => Stage(x)'
    BY <1>1 DEF IInv, DmDevices, Stage, Typed, TypeOK, DmDevice, Verity, NameUsed,
       Processes, Checks, Holds
  <1>7. \A m \in mounts' : m.by = p => Mounted(m)'
    BY <1>1 DEF IInv, Mounts, Mounted, Typed, TypeOK
  <1> QED BY <1>1, <1>2, <1>3, <1>4, <1>5, <1>6, <1>7, ControlStep DEF About

(* A mount or marking the device fails: cleanup finds the device recorded.   *)
LEMMA MountFailsStep ==
  ASSUME IInv, NEW p \in Procs, MountFails(p) PROVE IInv'
  <1> USE DEF MountFails, Goto, Still, image, loopdevs
  <1>1. Still /\ OthersStay(p) /\ trusted' = trusted
    BY DEF OthersStay, IInv, Typed, TypeOK
  <1>2. Typed'
    BY DEF IInv, Typed, TypeOK, Places, DmDevice
  <1>3. Holds(p)'
    BY <1>1 DEF IInv, Processes, Holds, Typed, TypeOK, Verity, FilesOf, VerityDMName
  <1>4. Checks(p)'
    BY <1>1 DEF IInv, Processes, Checks, Typed, TypeOK, AsksKernel
  <1>5. Device(p)'
    <2>1. dm'[p] = dm[p] /\ pc'[p] = "cleanup" /\ Device(p)
      BY DEF IInv, DmDevices, Typed, TypeOK
    <2> QED BY <1>1, <2>1, StillNames DEF Device
  <1>6. \A x \in dms' : x.by = p => Stage(x)'
    BY <1>1 DEF IInv, DmDevices, Stage, Typed, TypeOK, DmDevice, Verity, NameUsed,
       Processes, Checks, Holds
  <1>7. \A m \in mounts' : m.by = p => Mounted(m)'
    BY <1>1 DEF IInv, Mounts, Mounted, Typed, TypeOK
  <1> QED BY <1>1, <1>2, <1>3, <1>4, <1>5, <1>6, <1>7, ControlStep DEF About

(* cleanup, with the mounts gone, turns to the dm device and then to the     *)
(* loop devices.                                                             *)
LEMMA CleanupDevicesStep ==
  ASSUME IInv, NEW p \in Procs, CleanupDevices(p) PROVE IInv'
  <1> USE DEF CleanupDevices, RemoveThen, Goto, Still, image, loopdevs, counts, MountsOf
  <1>1. Still /\ OthersStay(p) /\ trusted' = trusted
    BY DEF OthersStay, IInv, Typed, TypeOK
  <1>2. Typed'
    <2>1. CASE dm[p] # NoName
      <3>0. pc' = [pc EXCEPT ![p] = "remove"] /\ tries' = [tries EXCEPT ![p] = 0]
        BY <2>1
      <3>1. pc' \in [Procs -> Places] /\ tries' \in [Procs -> 0..BusyRetries]
        <4>1. "remove" \in Places /\ 0 \in 0..BusyRetries
          BY ImageMountAssumption DEF Places
        <4> HIDE DEF CleanupDevices
        <4> QED BY <3>0, <4>1 DEF IInv, Typed, TypeOK
      <3>2. dm' \in [Procs -> Names \cup {NoName}]
        BY <2>1 DEF IInv, Typed, TypeOK
      <3>3. then' \in [Procs -> {"fallback", "cleanup", "detach"}]
        BY <2>1 DEF IInv, Typed, TypeOK
      <3> QED BY <3>1, <3>2, <3>3 DEF IInv, Typed, TypeOK
    <2>2. CASE dm[p] = NoName
      BY <2>2 DEF IInv, Typed, TypeOK, Places, DmDevice
    <2> QED BY <2>1, <2>2
  <1>3. Holds(p)'
    BY <1>1 DEF IInv, Processes, Holds, Typed, TypeOK, Verity, FilesOf, VerityDMName
  <1>4. Checks(p)'
    BY <1>1 DEF IInv, Processes, Checks, Typed, TypeOK, AsksKernel
  <1>5. Device(p)'
    <2>1. CASE dm[p] # NoName
      <3>1. Device(p) /\ dm'[p] = NoName
        BY <2>1 DEF IInv, DmDevices, Typed, TypeOK
      <3> QED BY <1>1, <2>1, <3>1, StillNames DEF Device
    <2>2. CASE dm[p] = NoName
      <3>1. dm'[p] = NoName /\ pc'[p] = "detach"
        BY <2>2 DEF IInv, Typed, TypeOK
      <3> QED BY <3>1 DEF Device
    <2> QED BY <2>1, <2>2
  <1>6. \A x \in dms' : x.by = p => Stage(x)'
    BY <1>1 DEF IInv, DmDevices, Stage, Typed, TypeOK, DmDevice, Verity, NameUsed,
       Processes, Checks, Holds
  <1>7. \A m \in mounts' : m.by = p => Mounted(m)'
    BY <1>1 DEF IInv, Mounts, Mounted, Typed, TypeOK
  <1> QED BY <1>1, <1>2, <1>3, <1>4, <1>5, <1>6, <1>7, ControlStep DEF About

----------------------------------------------------------------------------
(* A loop device a process holds shows the file it was taken for.            *)
LEMMA HeldFile ==
  ASSUME IInv, NEW p \in Procs, NEW i \in DOMAIN held[p], held[p][i] \in Loops
  PROVE  /\ kind[p] # "device" /\ i \in 1..Len(FilesOf(p))
         /\ file[held[p][i]] = <<p, FilesOf(p)[i]>>
         /\ file[held[p][i]] \in Files /\ OwnFile(held[p][i], p)
  <1>1. /\ held[p] \in Seq(IF kind[p] = "device" THEN {Disk} ELSE Loops)
        /\ Len(held[p]) <= IF kind[p] = "device" THEN 1 ELSE Len(FilesOf(p))
    BY DEF IInv, Processes, Holds
  <1>2. kind[p] # "device" /\ kind[p] \in AllKinds
    BY <1>1, ImageMountAssumption DEF IInv, Typed, TypeOK
  <1>3. i \in 1..Len(FilesOf(p)) /\ FilesOf(p)[i] \in {"data", "hash"}
    BY <1>1, <1>2, FilesFacts
  <1>4. file[held[p][i]] = <<p, FilesOf(p)[i]>>
    BY DEF IInv, LoopDevices, Shows
  <1> QED BY <1>2, <1>3, <1>4 DEF Files, OwnFile

----------------------------------------------------------------------------
(* Steps that make a dm device or change that of the process.                *)
LEMMA DeviceStep ==
  ASSUME IInv, NEW p \in Procs, UNCHANGED <<image, loopdevs, held, busy, mounts>>,
         OthersStay(p), Typed', trusted[p] => trusted'[p], About(p)',
         \A x : x.by # p => (x \in dms <=> x \in dms'),
         \A x, y \in dms' : x.by = p /\ x.name = y.name => x = y,
         \A x \in dms' : x.by = p => Recorded(x)',
         \A x \in dms : x.by = p => \A d \in x.on : LoopUsed(d)',
         \A x \in dms' : x.by = p /\ x.live =>
           signature[p] # "missing" /\ (signature[p] = "must" => trusted'[p])
  PROVE  IInv'
  <1> USE DEF image, loopdevs
  <1>1. \A o \in Procs : VerityDMName(o)' = VerityDMName(o) /\ (Verity(o)' <=> Verity(o))
                         /\ FilesOf(o)' = FilesOf(o)
    BY DEF VerityDMName, Verity, FilesOf
  <1>2. Processes'
    <2> SUFFICES ASSUME NEW o \in Procs PROVE (Holds(o) /\ Checks(o))'
      BY DEF Processes
    <2>1. CASE o = p
      BY <2>1 DEF About
    <2>2. CASE o # p
      BY <2>2, <1>1 DEF IInv, Processes, Holds, Checks, OthersStay
    <2> QED BY <2>1, <2>2
  <1>3. LoopDevices'
    <2>1. ASSUME NEW o \in Procs PROVE Shows(o)'
      BY <1>1 DEF IInv, LoopDevices, Shows
    <2>2. ASSUME NEW d \in Loops, LoopUsed(d) PROVE LoopUsed(d)'
      <3>1. CASE \E x \in dms : d \in x.on
        BY <3>1 DEF LoopUsed
      <3>2. CASE ~\E x \in dms : d \in x.on
        BY <2>2, <3>2 DEF LoopUsed
      <3> QED BY <3>1, <3>2
    <2> QED BY <2>1, <2>2 DEF IInv, LoopDevices, Needed
  <1>4. Distinct' /\ \A x \in dms' : Recorded(x)'
    <2>1. ASSUME NEW x \in dms' PROVE Recorded(x)'
      <3>1. CASE x.by = p
        BY <3>1
      <3>2. CASE x.by # p
        BY <3>2, <1>1 DEF IInv, DmDevices, Recorded, OwnFile, Typed, DmDevice
      <3> QED BY <3>1, <3>2
    <2>2. Distinct'
      BY DEF IInv, DmDevices, Distinct
    <2> QED BY <2>1, <2>2
  <1>5. ASSUME NEW x \in dms' PROVE Stage(x)'
    <2>1. CASE x.by = p
      BY <2>1 DEF About
    <2>2. CASE x.by # p
      BY <2>2, <1>1 DEF IInv, DmDevices, Stage, OthersStay, Typed, DmDevice, NameUsed
    <2> QED BY <2>1, <2>2
  <1>6. ASSUME NEW o \in Procs PROVE Device(o)'
    <2>1. CASE o = p
      BY <2>1 DEF About
    <2>2. CASE o # p
      <3>1. Device(o) /\ pc'[o] = pc[o] /\ dm'[o] = dm[o]
        BY <2>2 DEF IInv, DmDevices, OthersStay
      <3> QED BY <2>2, <3>1, <1>1 DEF Device
    <2> QED BY <2>1, <2>2
  <1>7. Mounts'
    <2> SUFFICES ASSUME NEW m \in mounts' PROVE Mounted(m)'
      BY DEF Mounts
    <2>1. CASE m.by = p
      BY <2>1 DEF About
    <2>2. CASE m.by # p
      <3>1. Mounted(m) /\ pc'[m.by] = pc[m.by]
        BY <2>2 DEF IInv, Mounts, OthersStay, Typed, TypeOK
      <3> QED BY <2>2, <3>1 DEF Mounted
    <2> QED BY <2>1, <2>2
  <1>8. SignedOnly'
    <2> SUFFICES ASSUME NEW x \in dms', x.live
                 PROVE  /\ signature[x.by] = "must" => trusted'[x.by]
                        /\ signature[x.by] # "missing"
      BY DEF SignedOnly
    <2>1. CASE x.by = p
      BY <2>1
    <2>2. CASE x.by # p
      BY <2>2 DEF IInv, SignedOnly, OthersStay, Typed, DmDevice
    <2> QED BY <2>1, <2>2
  <1> QED BY <1>2, <1>3, <1>4, <1>5, <1>6, <1>7, <1>8 DEF IInv, DmDevices

(* The devices with the name a process asks for are its own, as soon as it   *)
(* has made one.                                                             *)
LEMMA OwnName ==
  ASSUME IInv, NEW p \in Procs, pc[p] \in {"load", "resume", "remove"} \/ dm[p] # NoName
  PROVE  /\ held[p] # <<>> /\ VerityDMName(p) \in Names
         /\ \A x \in dms : x.name = VerityDMName(p) <=> x.by = p
         /\ \A x, y \in dms : x.by = p /\ y.by = p => x = y
         /\ \E x \in dms : /\ x.by = p /\ x.name = VerityDMName(p) /\ ~x.deferred
                           /\ dm[p] # NoName => x.live
  <1>1. held[p] # <<>>
    BY DEF IInv, Processes, Holds
  <1>2. VerityDMName(p) \in Names
    BY <1>1, NameFacts DEF IInv, Typed
  <1>3. PICK x \in dms : /\ x.by = p /\ x.name = VerityDMName(p) /\ ~x.deferred
                         /\ dm[p] # NoName => x.live
    BY DEF IInv, DmDevices, Device
  <1>4. \A y \in dms : y.by = p => y.name = VerityDMName(p)
    BY <1>1 DEF IInv, DmDevices, Recorded
  <1>5. \A y \in dms : y.name = VerityDMName(p) => y = x
    BY <1>3 DEF IInv, DmDevices, Distinct
  <1> QED BY <1>1, <1>2, <1>3, <1>4, <1>5

(* DM_DEV_CREATE makes the only device of its name and the only one of its   *)
(* process.                                                                  *)
LEMMA CreateStep ==
  ASSUME IInv, NEW p \in Procs, Create(p) PROVE IInv'
  <1> DEFINE n == VerityDMName(p)
  <1>0. PICK new : new = [name |-> n, by |-> p, on |-> {}, live |-> FALSE, deferred |-> FALSE]
    OBVIOUS
  <1>1. /\ pc[p] = "create" /\ signature[p] # "missing" /\ \A x \in dms : x.name # n
        /\ dms' = dms \cup {new} /\ pc' = [pc EXCEPT ![p] = "load"]
        /\ UNCHANGED <<image, loopdevs, ctl, cand, attempt, held, dm, tries, then, trusted,
                       busy, mounts, counts>>
    BY <1>0 DEF Create, Goto, Named
  <1> USE DEF image, loopdevs
  <1>2. held[p] # <<>> /\ Verity(p) /\ kind[p] \in AllKinds /\ dm[p] = NoName
    BY <1>1 DEF IInv, Processes, Holds, Typed, TypeOK
  <1>3. /\ n \in Names /\ n[1] = held[p][1] /\ held[p][1] \in Devices /\ 1 \in DOMAIN held[p]
        /\ held[p][1] \in Loops => n = <<held[p][1], diskseq[held[p][1]]>>
    BY <1>2, NameFacts DEF IInv, Typed
  <1>4. n' = n
    BY <1>1 DEF VerityDMName
  <1>5. new \in DmDevice
    BY <1>0, <1>3 DEF DmDevice
  <1>6. \A x \in dms : x.by # p
    BY <1>1, <1>2 DEF IInv, DmDevices, Recorded
  <1>7. UNCHANGED <<image, loopdevs, held, busy, mounts>> /\ OthersStay(p) /\ trusted' = trusted
    BY <1>1 DEF OthersStay, IInv, Typed, TypeOK
  <1>8. \A x : x \in dms' <=> x \in dms \/ x = new
    BY <1>1
  <1>9. Typed'
    <2>1. pc' \in [Procs -> Places]
      BY <1>1 DEF IInv, Typed, TypeOK, Places
    <2>2. dms' \subseteq DmDevice
      BY <1>8, <1>5 DEF IInv, Typed
    <2>3. \A x \in dms' : /\ x.name \in Names /\ x.by \in Procs /\ x.on \subseteq Loops
                          /\ x.live \in BOOLEAN /\ x.deferred \in BOOLEAN
      BY <2>2 DEF DmDevice
    <2> QED BY <1>1, <2>1, <2>2, <2>3 DEF IInv, Typed, TypeOK, counts
  <1>10. /\ new.by = p /\ new.name = n /\ new.on = {} /\ ~new.live /\ ~new.deferred
    BY <1>0
  <1>11. Recorded(new)'
    <2>1. ASSUME held[p][1] \in Loops
          PROVE  OwnFile(held[p][1], p)
      <3>1. file[held[p][1]] = <<p, FilesOf(p)[1]>>
        BY <1>3, <2>1 DEF IInv, LoopDevices, Shows
      <3>2. kind[p] # "device"
        BY <2>1, <1>2, <1>3, ImageMountAssumption DEF IInv, Processes, Holds
      <3> QED BY <1>2, <3>1, <3>2, FilesFacts DEF OwnFile
    <2>2. n[1] \in Loops => n[2] <= lastseq
      BY <1>3 DEF IInv, Typed, TypeOK
    <2>3. \A d \in Loops : n = <<d, diskseq[d]>> => d = held[p][1]
      BY <1>3
    <2> QED BY <1>1, <1>4, <1>10, <2>1, <2>2, <2>3 DEF Recorded, OwnFile, n
  <1>12. About(p)'
    <2>1. pc'[p] = "load"
      BY <1>1 DEF IInv, Typed, TypeOK
    <2>2. Holds(p)'
      BY <1>1, <1>2, <2>1 DEF IInv, Processes, Holds, Verity, FilesOf, VerityDMName
    <2>3. Checks(p)'
      BY <1>1, <2>1 DEF IInv, Processes, Checks
    <2>4. Device(p)'
      BY <1>1, <1>4, <1>8, <1>10, <1>2 DEF Device
    <2>5. \A x \in dms' : x.by = p => x = new
      BY <1>6, <1>8
    <2>6. Stage(new)'
      BY <1>1, <1>2, <1>10, <2>1 DEF Stage, Verity
    <2>7. \A m \in mounts' : m.by = p => Mounted(m)'
      BY <1>1 DEF IInv, Mounts, Mounted
    <2> QED BY <2>2, <2>3, <2>4, <2>5, <2>6, <2>7 DEF About
  <1>13. \A x, y \in dms' : x.by = p /\ x.name = y.name => x = y
    BY <1>1, <1>6, <1>8, <1>10
  <1>14. \A x : x.by # p => (x \in dms <=> x \in dms')
    BY <1>8, <1>10
  <1> QED BY <1>6, <1>7, <1>8, <1>9, <1>10, <1>11, <1>12, <1>13, <1>14, DeviceStep

(* What a change of one's own device, its files, that it is live or to be    *)
(* removed, leaves as it was.                                                *)
LEMMA OwnDeviceStep ==
  ASSUME IInv, NEW p \in Procs, pc[p] \in {"load", "resume"},
         UNCHANGED <<image, loopdevs, held, busy, mounts>>, OthersStay(p),
         NEW x \in dms, x.by = p, NEW y \in DmDevice, y.by = p, y.name = x.name,
         y.live => signature[p] # "missing" /\ (signature[p] = "must" => trusted'[p]),
         \A d \in x.on : LoopUsed(d)', \A d \in y.on : OwnFile(d, p),
         dms' = (dms \ {x}) \cup {y},
         Typed', trusted[p] => trusted'[p],
         Holds(p)', Checks(p)', Device(p)', Stage(y)',
         pc'[p] \in {"resume", "mount"}
  PROVE  IInv'
  <1>1. \A z \in dms : z.name = x.name <=> z = x
    BY DEF IInv, DmDevices, Distinct
  <1>2. \A z \in dms : z.by = p <=> z = x
    BY OwnName
  <1>3. \A z \in dms' : z.by = p <=> z = y
    BY <1>2
  <1>4. \A z : z.by # p => (z \in dms <=> z \in dms')
    OBVIOUS
  <1>5. \A u, v \in dms' : u.by = p /\ u.name = v.name => u = v
    BY <1>1, <1>2, <1>3
  <1>6. Recorded(y)'
    <2>1. Recorded(x) /\ VerityDMName(p)' = VerityDMName(p)
      BY DEF IInv, DmDevices, VerityDMName, loopdevs
    <2> QED BY <2>1 DEF Recorded, OwnFile, loopdevs
  <1>7. About(p)'
    <2>1. \A m \in mounts' : m.by # p
      BY DEF IInv, Mounts, Mounted
    <2> QED BY <1>3, <2>1 DEF About
  <1> QED BY <1>2, <1>3, <1>4, <1>5, <1>6, <1>7, DeviceStep

(* A table is loaded: the device now stands on the loop devices of its       *)
(* process, and the process is trusted or its signature may be ignored.      *)
LEMMA LoadStep ==
  ASSUME IInv, NEW p \in Procs, Load(p) PROVE IInv'
  <1> DEFINE H == {held[p][i] : i \in DOMAIN held[p]} \cap Loops
  <1>1. /\ pc[p] = "load" /\ pc' = [pc EXCEPT ![p] = "resume"]
        /\ trusted' = [trusted EXCEPT ![p] = @ \/ AsksKernel(p) \/ signature[p] = "none"]
        /\ dms' = {IF x.name = VerityDMName(p) THEN [x EXCEPT !.on = H] ELSE x : x \in dms}
        /\ UNCHANGED <<image, loopdevs, ctl, cand, attempt, held, dm, tries, then,
                       busy, mounts, counts>>
    BY DEF Load, Goto
  <1> USE DEF image, loopdevs
  <1>2. PICK x \in dms : x.by = p /\ x.name = VerityDMName(p) /\ ~x.deferred
    BY <1>1, OwnName
  <1>3. PICK y : y = [x EXCEPT !.on = H]
    OBVIOUS
  <1>4. x \in DmDevice /\ H \subseteq Loops
    BY DEF IInv, Typed
  <1>5. /\ y \in DmDevice /\ y.by = p /\ y.name = x.name /\ y.on = H
        /\ y.live = x.live /\ y.deferred = x.deferred
    BY <1>2, <1>3, <1>4 DEF DmDevice
  <1> HIDE DEF H
  <1>6. dms' = (dms \ {x}) \cup {y}
    <2>1. \A z \in dms : z.name = VerityDMName(p) <=> z = x
      BY <1>1, <1>2, OwnName
    <2>2. dms' = {IF z = x THEN y ELSE z : z \in dms}
      BY <1>1, <1>3, <2>1
    <2> QED BY <2>2
  <1>7. /\ Verity(p) /\ held[p] # <<>> /\ x.on = {} /\ signature[p] # "missing"
        /\ signature[p] \in AllSignatures /\ kind[p] \in AllKinds /\ dm[p] = NoName
    BY <1>1, <1>2 DEF IInv, Processes, Holds, Checks, DmDevices, Stage, Typed, TypeOK
  <1>8. pc'[p] = "resume" /\ OthersStay(p)
    BY <1>1 DEF OthersStay, IInv, Typed, TypeOK
  <1>9. trusted'[p] = (trusted[p] \/ AsksKernel(p) \/ signature[p] = "none")
    BY <1>1 DEF IInv, Typed, TypeOK
  <1>10. trusted'[p] \/ signature[p] = "may"
    <2>1. then[p] = "fallback" => trusted[p] \/ signature[p] = "may"
      BY <1>1 DEF IInv, Processes, Checks
    <2> QED BY <2>1, <1>7, <1>9 DEF AsksKernel, AllSignatures
  <1>11. Typed'
    <2>1. pc' \in [Procs -> Places]
      BY <1>1 DEF IInv, Typed, TypeOK, Places
    <2>2. trusted' \in [Procs -> BOOLEAN]
      BY <1>1 DEF IInv, Typed, TypeOK, AsksKernel
    <2>3. dms' \subseteq DmDevice
      BY <1>5, <1>6 DEF IInv, Typed
    <2>4. \A z \in dms' : /\ z.name \in Names /\ z.by \in Procs /\ z.on \subseteq Loops
                          /\ z.live \in BOOLEAN /\ z.deferred \in BOOLEAN
      BY <2>3 DEF DmDevice
    <2> QED BY <1>1, <2>1, <2>2, <2>3, <2>4 DEF IInv, Typed, TypeOK, counts
  <1>12. \A d \in y.on : OwnFile(d, p)
    <2> SUFFICES ASSUME NEW i \in DOMAIN held[p], held[p][i] \in Loops
                 PROVE  OwnFile(held[p][i], p)
      BY <1>5 DEF H
    <2> QED BY HeldFile
  <1>13. Holds(p)'
    BY <1>1, <1>7, <1>8 DEF IInv, Processes, Holds, Verity, FilesOf, VerityDMName
  <1>14. Checks(p)'
    BY <1>1, <1>8, <1>10 DEF Checks
  <1>15. Device(p)'
    <2>1. y.by = p /\ y.name = VerityDMName(p)' /\ ~y.deferred /\ dm'[p] = NoName
      BY <1>1, <1>2, <1>5, <1>7 DEF VerityDMName
    <2> QED BY <2>1, <1>6 DEF Device
  <1>16. Stage(y)'
    BY <1>1, <1>2, <1>5, <1>7, <1>8 DEF Stage, Verity
  <1>17. y.live => signature[p] # "missing" /\ (signature[p] = "must" => trusted'[p])
    BY <1>7, <1>10
  <1> QED BY <1>1, <1>2, <1>5, <1>6, <1>7, <1>8, <1>9, <1>11, <1>12, <1>13, <1>14, <1>15,
         <1>16,
             <1>17, OwnDeviceStep

(* The device is brought to life, and recorded, only with a signature that   *)
(* is good or may be ignored.                                                *)
LEMMA ResumeStep ==
  ASSUME IInv, NEW p \in Procs, Resume(p) PROVE IInv'
  <1>1. /\ pc[p] = "resume" /\ pc' = [pc EXCEPT ![p] = "mount"]
        /\ dm' = [dm EXCEPT ![p] = VerityDMName(p)]
        /\ dms' = {IF x.name = VerityDMName(p) THEN [x EXCEPT !.live = TRUE] ELSE x : x \in dms}
        /\ UNCHANGED <<image, loopdevs, ctl, cand, attempt, held, tries, then, trusted,
                       busy, mounts, counts>>
    BY DEF Resume, Goto
  <1> USE DEF image, loopdevs
  <1>2. PICK x \in dms : x.by = p /\ x.name = VerityDMName(p) /\ ~x.deferred
    BY <1>1, OwnName
  <1>3. PICK y : y = [x EXCEPT !.live = TRUE]
    OBVIOUS
  <1>4. x \in DmDevice
    BY DEF IInv, Typed
  <1>5. /\ y \in DmDevice /\ y.by = p /\ y.name = x.name /\ y.on = x.on
        /\ y.live /\ y.deferred = x.deferred
    BY <1>2, <1>3, <1>4 DEF DmDevice
  <1>6. dms' = (dms \ {x}) \cup {y}
    <2>1. \A z \in dms : z.name = VerityDMName(p) <=> z = x
      BY <1>1, <1>2, OwnName
    <2>2. dms' = {IF z = x THEN y ELSE z : z \in dms}
      BY <1>1, <1>3, <2>1
    <2> QED BY <2>2
  <1>7. /\ Verity(p) /\ held[p] # <<>> /\ signature[p] # "missing"
        /\ trusted[p] \/ signature[p] = "may"
        /\ \A d \in x.on : OwnFile(d, p)
    BY <1>1, <1>2 DEF IInv, Processes, Holds, Checks, DmDevices, Stage, Recorded
  <1>8. /\ pc'[p] = "mount" /\ OthersStay(p) /\ dm'[p] = VerityDMName(p)
        /\ VerityDMName(p) \in Names /\ VerityDMName(p)' = VerityDMName(p)
    <2>1. VerityDMName(p) \in Names
      BY <1>1, OwnName
    <2>2. VerityDMName(p)' = VerityDMName(p)
      BY <1>1 DEF VerityDMName
    <2> QED BY <1>1, <2>1, <2>2 DEF OthersStay, IInv, Typed, TypeOK
  <1>9. Typed'
    <2>1. pc' \in [Procs -> Places]
      BY <1>1 DEF IInv, Typed, TypeOK, Places
    <2>2. dm' \in [Procs -> Names \cup {NoName}]
      BY <1>1, <1>8 DEF IInv, Typed, TypeOK
    <2>3. dms' \subseteq DmDevice
      BY <1>5, <1>6 DEF IInv, Typed
    <2>4. \A z \in dms' : /\ z.name \in Names /\ z.by \in Procs /\ z.on \subseteq Loops
                          /\ z.live \in BOOLEAN /\ z.deferred \in BOOLEAN
      BY <2>3 DEF DmDevice
    <2> QED BY <1>1, <2>1, <2>2, <2>3, <2>4 DEF IInv, Typed, TypeOK, counts
  <1>10. Holds(p)'
    <2>1. Holds(p) /\ pc'[p] = "mount" /\ Verity(p)' /\ FilesOf(p)' = FilesOf(p)
      BY <1>1, <1>7, <1>8 DEF IInv, Processes, Verity, FilesOf
    <2> QED BY <1>1, <1>7, <1>8, <2>1, ImageMountAssumption DEF Holds
  <1>11. Checks(p)'
    BY <1>1, <1>8 DEF Checks
  <1>12. Device(p)'
    BY <1>2, <1>5, <1>6, <1>8 DEF Device
  <1>13. Stage(y)'
    BY <1>1, <1>2, <1>5, <1>7, <1>8, ImageMountAssumption DEF Stage, Verity
  <1>14. \A d \in x.on : LoopUsed(d)'
    BY <1>5, <1>6 DEF LoopUsed
  <1> QED BY <1>1, <1>2, <1>5, <1>6, <1>7, <1>8, <1>9, <1>10, <1>11, <1>12, <1>13, <1>14,
             OwnDeviceStep

----------------------------------------------------------------------------
(* What stays true of a process a step does not move, of its devices and of  *)
(* its mounts.                                                               *)
Apart(o) ==
  /\ UNCHANGED <<kind, signature>>
  /\ pc'[o] = pc[o] /\ then'[o] = then[o] /\ trusted'[o] = trusted[o] /\ dm'[o] = dm[o]
  /\ attempt'[o] = attempt[o] /\ cand'[o] = cand[o] /\ held'[o] = held[o]
  /\ held[o] # <<>> => VerityDMName(o)' = VerityDMName(o)
  /\ ctl' = o => ctl = o

(* What the invariant says of a process is still true if the step is not one *)
(* of it.                                                                    *)
LEMMA ApartProcess ==
  ASSUME NEW o \in Procs, Apart(o), Holds(o), Checks(o)
  PROVE  Holds(o)' /\ Checks(o)'
  <1>1. (Verity(o)' <=> Verity(o)) /\ FilesOf(o)' = FilesOf(o)
    BY DEF Apart, Verity, FilesOf
  <1>2. Holds(o)'
    BY <1>1 DEF Apart, Holds
  <1>3. Checks(o)'
    BY DEF Apart, Checks
  <1> QED BY <1>2, <1>3

(* So is what it says of the stage of its devices, if their names are still  *)
(* in use.                                                                   *)
LEMMA ApartStage ==
  ASSUME NEW x \in DmDevice, Apart(x.by), Stage(x), NameUsed(x.name) => NameUsed(x.name)'
  PROVE  Stage(x)'
  <1>1. Verity(x.by)' <=> Verity(x.by)
    BY DEF Apart, Verity
  <1> QED BY <1>1 DEF Apart, Stage

(* So is what it says of their names and files, if no loop device changes.   *)
LEMMA ApartRecorded ==
  ASSUME NEW x \in DmDevice, Apart(x.by), Recorded(x), UNCHANGED loopdevs
  PROVE  Recorded(x)'
  BY DEF Apart, Recorded, OwnFile, loopdevs

(* So is that it has its device, if no device goes.                          *)
LEMMA ApartDevice ==
  ASSUME NEW o \in Procs, Apart(o), Holds(o), Device(o), dms \subseteq dms'
  PROVE  Device(o)'
  BY DEF Apart, Device, Holds

(* So is that its loop devices show its files, if those do not change.       *)
LEMMA ApartShows ==
  ASSUME NEW o \in Procs, Apart(o), Shows(o),
         \A i \in DOMAIN held[o] : held[o][i] \in Loops => file'[held[o][i]] = file[held[o][i]]
  PROVE  Shows(o)'
  BY DEF Apart, Shows, FilesOf

----------------------------------------------------------------------------
(* Attaching the image and mounting it.  A block device is used as it is.    *)
LEMMA OpenStep ==
  ASSUME IInv, NEW p \in Procs, Open(p) PROVE IInv'
  <1>1. /\ pc[p] = "open" /\ held[p] = <<>> /\ kind[p] \in AllKinds /\ dm[p] = NoName
        /\ attempt[p] < Attempts /\ then[p] = "detach"
        /\ UNCHANGED <<image, loopdevs, ctl, cand, attempt, dm, tries, then, trusted,
                       dms, busy, mounts, counts>>
    BY DEF Open, IInv, Processes, Holds, Checks, Typed, TypeOK
  <1>2. CASE kind[p] # "device"
    <2> USE <1>2 DEF Open, Goto, Still, image, loopdevs, counts
    <2>1. Still /\ OthersStay(p) /\ trusted' = trusted /\ pc'[p] = "get"
      BY DEF OthersStay, IInv, Typed, TypeOK
    <2>2. Typed'
      BY DEF IInv, Typed, TypeOK, Places, DmDevice
    <2>3. Holds(p)'
      BY <1>1, <2>1, FilesFacts DEF IInv, Processes, Holds, FilesOf
    <2>4. Checks(p)' /\ Device(p)'
      BY <1>1, <2>1 DEF Checks, Device
    <2>5. \A x \in dms' : x.by = p => Stage(x)'
      BY <1>1 DEF IInv, DmDevices, Stage
    <2>6. \A m \in mounts' : m.by = p => Mounted(m)'
      BY <1>1 DEF IInv, Mounts, Mounted
    <2> QED BY <2>1, <2>2, <2>3, <2>4, <2>5, <2>6, ControlStep DEF About
  <1>3. CASE kind[p] = "device"
    <2>1. held' = [held EXCEPT ![p] = <<Disk>>] /\ pc' = [pc EXCEPT ![p] = "create"]
      BY <1>3 DEF Open, Borrow, Goto
    <2> USE <1>1 DEF image, loopdevs
    <2>2. /\ held'[p] = <<Disk>> /\ pc'[p] = "create"
          /\ \A o \in Procs : o # p => held'[o] = held[o] /\ pc'[o] = pc[o]
      BY <2>1 DEF IInv, Typed, TypeOK
    <2>3. \A o \in Procs : o # p => Apart(o)
      BY <2>2 DEF Apart, VerityDMName
    <2>4. \A x \in dms : x.by # p /\ x.by \in Procs
      BY DEF IInv, DmDevices, Stage, Typed, DmDevice
    <2>5. Typed'
      BY <2>1 DEF IInv, Typed, TypeOK, Places, Devices, DmDevice, counts
    <2>6. Processes'
      <3>1. (Holds(p) /\ Checks(p))'
        <4>1. Len(<<Disk>>) = 1 /\ <<Disk>> \in Seq({Disk}) /\ <<Disk>> # <<>>
          OBVIOUS
        <4>2. Verity(p)' /\ ctl' # p
          BY <1>3 DEF Verity, IInv, Processes, Holds
        <4> QED BY <1>3, <2>2, <4>1, <4>2 DEF Holds, Checks
      <3>2. ASSUME NEW o \in Procs, o # p PROVE (Holds(o) /\ Checks(o))'
        BY <2>3, <3>2, ApartProcess DEF IInv, Processes
      <3> QED BY <3>1, <3>2 DEF Processes
    <2>7. LoopDevices'
      <3>1. Shows(p)'
        BY <2>2, ImageMountAssumption DEF Shows
      <3>2. ASSUME NEW o \in Procs, o # p PROVE Shows(o)'
        BY <2>3, <3>2, ApartShows DEF IInv, LoopDevices
      <3>3. ASSUME NEW d \in Loops, LoopUsed(d) PROVE LoopUsed(d)'
        <4>1. \A o \in Procs : \A i \in DOMAIN held[o] : i \in DOMAIN held'[o] /\ held'[o][i] = held[o][i]
          BY <2>2
        <4> QED BY <3>3, <4>1 DEF LoopUsed
      <3> QED BY <3>1, <3>2, <3>3 DEF IInv, LoopDevices, Needed
    <2>8. DmDevices'
      <3>1. Distinct'
        BY DEF IInv, DmDevices, Distinct
      <3>2. ASSUME NEW x \in dms PROVE Recorded(x)' /\ Stage(x)'
        BY <2>3, <2>4, ApartRecorded, ApartStage DEF IInv, DmDevices, NameUsed, Typed
      <3>3. ASSUME NEW o \in Procs PROVE Device(o)'
        <4>1. CASE o = p
          BY <2>2, <4>1 DEF Device
        <4>2. CASE o # p
          BY <2>3, <4>2, ApartDevice DEF IInv, DmDevices, Processes
        <4> QED BY <4>1, <4>2
      <3> QED BY <3>1, <3>2, <3>3 DEF DmDevices
    <2>9. Mounts'
      <3> SUFFICES ASSUME NEW m \in mounts PROVE Mounted(m)'
        BY DEF Mounts
      <3>1. Mounted(m) /\ m.by # p /\ m.by \in Procs
        BY DEF IInv, Mounts, Mounted, Typed, TypeOK
      <3> QED BY <2>2, <3>1 DEF Mounted
    <2>10. SignedOnly'
      BY DEF IInv, SignedOnly
    <2> QED BY <2>5, <2>6, <2>7, <2>8, <2>9, <2>10 DEF IInv
  <1> QED BY <1>2, <1>3

(* Mounting puts the live device of the process, or its loop device, under   *)
(* the mount.                                                                *)
LEMMA MountStep ==
  ASSUME IInv, NEW p \in Procs, Mount(p) PROVE IInv'
  <1>1. PICK m : /\ mounts' = mounts \cup {m} /\ m.by = p
                 /\ m.dev = IF Verity(p) THEN dm[p] ELSE held[p][1]
    <2> DEFINE i == Cardinality(MountsOf(p)) + 1
               new == [by |-> p, at |-> TargetsOf(p)[i],
                       dev |-> IF Verity(p) THEN dm[p] ELSE held[p][1]]
    <2>1. mounts' = mounts \cup {new}
      BY DEF Mount
    <2>2. new.by = p /\ new.dev = IF Verity(p) THEN dm[p] ELSE held[p][1]
      OBVIOUS
    <2> QED BY <2>1, <2>2
  <1>2. PICK place \in {"mount", "relinquish"} : pc' = [pc EXCEPT ![p] = place]
    BY DEF Mount, Goto
  <1>3. /\ pc[p] = "mount"
        /\ UNCHANGED <<image, loopdevs, ctl, cand, attempt, held, dm, tries, then, trusted,
                       dms, busy, counts>>
    BY DEF Mount
  <1> USE <1>3 DEF image, loopdevs
  <1>4. /\ pc'[p] = place /\ place \in Places
        /\ \A o \in Procs : o # p => pc'[o] = pc[o]
    BY <1>2 DEF IInv, Typed, TypeOK, Places
  <1>5. \A o \in Procs : /\ VerityDMName(o)' = VerityDMName(o) /\ (o # p => Apart(o))
    BY <1>4 DEF Apart, VerityDMName
  <1>6. /\ held[p] # <<>> /\ kind[p] \in AllKinds /\ Holds(p)
        /\ Verity(p) => dm[p] # NoName /\ dm[p] = VerityDMName(p)
    BY DEF IInv, Processes, Holds, Typed, TypeOK
  <1>7. held[p][1] \in Devices /\ 1 \in DOMAIN held[p] /\ VerityDMName(p) \in Names
    BY <1>6, NameFacts DEF IInv, Typed
  <1>8. Typed'
    <2>1. pc' \in [Procs -> Places]
      BY <1>2, <1>4 DEF IInv, Typed, TypeOK
    <2>2. \A k \in mounts' : k.by \in Procs /\ k.dev \in Devices \cup Names
      BY <1>1, <1>6, <1>7 DEF IInv, Typed, TypeOK
    <2> QED BY <2>1, <2>2 DEF IInv, Typed, TypeOK, counts
  <1>9. Processes'
    <2>1. (Holds(p) /\ Checks(p))'
      <3>1. (Verity(p)' <=> Verity(p)) /\ FilesOf(p)' = FilesOf(p)
        BY DEF Verity, FilesOf
      <3>2. Holds(p)'
        BY <1>4, <1>5, <1>6, <3>1 DEF Holds
      <3> QED BY <1>4, <3>2 DEF Checks
    <2>2. ASSUME NEW o \in Procs, o # p PROVE (Holds(o) /\ Checks(o))'
      BY <1>5, <2>2, ApartProcess DEF IInv, Processes
    <2> QED BY <2>1, <2>2 DEF Processes
  <1>10. LoopDevices'
    <2>1. \A o \in Procs : Shows(o)'
      BY DEF IInv, LoopDevices, Shows, FilesOf
    <2>2. \A d \in Loops : LoopUsed(d) => LoopUsed(d)'
      BY <1>1 DEF LoopUsed
    <2> QED BY <2>1, <2>2 DEF IInv, LoopDevices, Needed
  <1>11. DmDevices'
    <2>1. Distinct' /\ \A x \in dms : Recorded(x)'
      BY <1>5 DEF IInv, DmDevices, Distinct, Recorded, OwnFile, Typed, DmDevice
    <2>2. \A x \in dms : Stage(x)'
      <3> SUFFICES ASSUME NEW x \in dms PROVE Stage(x)'
        OBVIOUS
      <3>1. Stage(x) /\ x \in DmDevice /\ x.by \in Procs
        BY DEF IInv, DmDevices, Typed, DmDevice
      <3>2. NameUsed(x.name) => NameUsed(x.name)'
        BY <1>1 DEF NameUsed
      <3>3. CASE x.by = p
        BY <1>4, <3>1, <3>2, <3>3 DEF Stage, Verity
      <3>4. CASE x.by # p
        BY <1>5, <3>1, <3>2, <3>4, ApartStage
      <3> QED BY <3>3, <3>4
    <2>3. \A o \in Procs : Device(o)'
      <3>1. Device(p)'
        BY <1>4, <1>5 DEF IInv, DmDevices, Device
      <3>2. ASSUME NEW o \in Procs, o # p PROVE Device(o)'
        BY <1>5, <3>2, ApartDevice DEF IInv, DmDevices, Processes
      <3> QED BY <3>1, <3>2
    <2> QED BY <2>1, <2>2, <2>3 DEF DmDevices
  <1>12. Mounts'
    <2>1. ASSUME NEW k \in mounts PROVE Mounted(k)'
      <3>1. Mounted(k) /\ k.by \in Procs
        BY DEF IInv, Mounts, Typed, TypeOK
      <3> QED BY <1>4, <3>1 DEF Mounted
    <2>2. Mounted(m)'
      <3>1. CASE Verity(p)
        <4>1. m.dev = VerityDMName(p) /\ m.dev \notin Devices
          BY <1>1, <1>6, <1>7, <3>1, ImageMountAssumption
        <4>2. \E x \in dms : x.name = m.dev /\ x.by = p /\ x.live
          BY <1>6, <3>1, <4>1 DEF IInv, DmDevices, Device
        <4> QED BY <1>1, <1>4, <4>1, <4>2 DEF Mounted, Devices
      <3>2. CASE ~Verity(p)
        <4>1. kind[p] # "device" /\ m.dev = held[p][1]
          BY <1>1, <3>2 DEF Verity
        <4>2. m.dev \in Loops
          BY <1>6, <1>7, <4>1 DEF Holds
        <4>3. file[m.dev] = <<p, "data">>
          BY <1>6, <1>7, <4>1, <4>2, FilesFacts DEF IInv, LoopDevices, Shows
        <4> QED BY <1>1, <1>4, <4>2, <4>3 DEF Mounted, Devices
      <3> QED BY <3>1, <3>2
    <2> QED BY <1>1, <2>1, <2>2 DEF Mounts
  <1>13. SignedOnly'
    BY DEF IInv, SignedOnly
  <1> QED BY <1>8, <1>9, <1>10, <1>11, <1>12, <1>13 DEF IInv

(* loopConfigure takes a device nobody has, so nothing that any process      *)
(* holds, mounts or stands a dm device on changes; with a new disk sequence  *)
(* number no dm device left behind has the name it leads to.                 *)
LEMMA ConfigureStep ==
  ASSUME IInv, NEW p \in Procs, Configure(p) PROVE IInv'
  <1> DEFINE d == cand[p]
             f == FilesOf(p)[Len(held[p]) + 1]
  <1>1. /\ pc[p] = "configure" /\ file[d] = NoFile
        /\ file' = [file EXCEPT ![d] = <<p, f>>]
        /\ lastseq' = lastseq + 1 /\ diskseq' = [diskseq EXCEPT ![d] = lastseq + 1]
        /\ held' = [held EXCEPT ![p] = Append(held[p], d)]
        /\ attempt' = [attempt EXCEPT ![p] = 0]
        /\ ctl' = NoProc
        /\ UNCHANGED <<image, locked, cand, dm, tries, then, trusted, dms, busy, mounts, counts>>
    BY DEF Configure, IInv, Typed, TypeOK
  <1> USE DEF image
  <1>2. PICK place \in {"get", "create", "mount"} :
          /\ pc' = [pc EXCEPT ![p] = place]
          /\ place = "get" => Len(held'[p]) < Len(FilesOf(p))
          /\ place = "create" <=> (place # "get" /\ Verity(p))
    <2>1. Attached(p) \in {"get", "create", "mount"} /\ pc' = [pc EXCEPT ![p] = Attached(p)]
      BY DEF Configure, Goto, Attached
    <2>2. Attached(p) = "get" => Len(held'[p]) < Len(FilesOf(p))
      BY DEF Attached
    <2>3. Attached(p) = "create" <=> (Attached(p) # "get" /\ Verity(p))
      BY DEF Attached
    <2> QED BY <2>1, <2>2, <2>3
  <1>3. /\ kind[p] \in AllKinds /\ kind[p] # "device" /\ d \in Loops /\ dm[p] = NoName
        /\ held[p] \in Seq(Loops) /\ Len(held[p]) < Len(FilesOf(p)) /\ then[p] = "detach"
        /\ lastseq \in Nat
    BY <1>1 DEF IInv, Processes, Holds, Checks, Typed, TypeOK
  <1>4. f \in {"data", "hash"} /\ Len(held[p]) + 1 \in 1..Len(FilesOf(p))
    BY <1>3, FilesFacts
  <1>5. /\ pc'[p] = place /\ held'[p] = Append(held[p], d) /\ attempt'[p] = 0
        /\ file'[d] = <<p, f>> /\ diskseq'[d] = lastseq + 1
        /\ \A o \in Procs : o # p => pc'[o] = pc[o] /\ held'[o] = held[o] /\ attempt'[o] = attempt[o]
        /\ \A e \in Loops : e # d => file'[e] = file[e] /\ diskseq'[e] = diskseq[e]
    BY <1>1, <1>2, <1>3 DEF IInv, Typed, TypeOK
  <1> HIDE DEF d, f
  <1>6. /\ held'[p] \in Seq(Loops) /\ Len(held'[p]) = Len(held[p]) + 1 /\ held'[p] # <<>>
        /\ \A i \in DOMAIN held[p] : i \in DOMAIN held'[p] /\ held'[p][i] = held[p][i]
        /\ DOMAIN held'[p] = DOMAIN held[p] \cup {Len(held[p]) + 1}
        /\ held'[p][Len(held[p]) + 1] = d
    BY <1>3, <1>5
  <1>7. NoFile \notin Files /\ Other \notin Files /\ NoFile # Other
    BY ImageMountAssumption
  <1>8. \A x \in dms : x.by # p /\ x.by \in Procs /\ x \in DmDevice
    BY <1>1 DEF IInv, DmDevices, Stage, Typed, DmDevice
  <1>9. \A o \in Procs : \A i \in DOMAIN held[o] : held[o][i] \in Loops =>
          held[o][i] # d /\ OwnFile(held[o][i], o)
    BY <1>1, <1>7, HeldFile
  <1>10. \A o \in Procs : o # p => Apart(o)
    <2> SUFFICES ASSUME NEW o \in Procs, o # p PROVE Apart(o)
      OBVIOUS
    <2>1. ASSUME held[o] # <<>> PROVE VerityDMName(o)' = VerityDMName(o)
      <3>1. held[o][1] \in Devices /\ 1 \in DOMAIN held[o]
        BY <2>1, NameFacts DEF IInv, Typed
      <3>2. held'[o] = held[o] /\ (held[o][1] \in Loops => held[o][1] # d)
        BY <1>5, <1>9, <3>1
      <3>3. held[o][1] # Disk => diskseq'[held[o][1]] = diskseq[held[o][1]]
        BY <1>5, <3>1, <3>2 DEF Devices
      <3> QED BY <3>2, <3>3 DEF VerityDMName
    <2>2. ctl' = o => ctl = o
      BY <1>1, ImageMountAssumption
    <2> QED BY <1>1, <1>5, <2>1, <2>2 DEF Apart
  <1>11. Typed'
    <2>1. pc' \in [Procs -> Places] /\ attempt' \in [Procs -> 0..Attempts]
      BY <1>1, <1>2, ImageMountAssumption DEF IInv, Typed, TypeOK, Places
    <2>2. file' \in [Loops -> {NoFile, Other} \cup Files]
      BY <1>1, <1>4 DEF IInv, Typed, TypeOK, Files
    <2>3. diskseq' \in [Loops -> 0..lastseq'] /\ lastseq' \in Nat
      <3>1. diskseq \in [Loops -> 0..(lastseq + 1)] /\ lastseq + 1 \in 0..(lastseq + 1)
        BY <1>3 DEF IInv, Typed, TypeOK
      <3> QED BY <1>1, <1>3, <3>1
    <2>4. held' \in [Procs -> Seq(Devices)]
      <3>1. Append(held[p], d) \in Seq(Devices)
        BY <1>3 DEF Devices
      <3> QED BY <1>1, <3>1 DEF IInv, Typed, TypeOK
    <2>5. ctl' \in Procs \cup {NoProc}
      BY <1>1
    <2> QED BY <1>1, <2>1, <2>2, <2>3, <2>4, <2>5 DEF IInv, Typed, TypeOK, counts
  <1>12. Processes'
    <2>1. Holds(p)'
      <3>1. (Verity(p)' <=> Verity(p)) /\ FilesOf(p)' = FilesOf(p)
        BY <1>1 DEF Verity, FilesOf
      <3>2. Len(held[p]) \in Nat /\ Len(FilesOf(p)) \in Nat
        BY <1>3, FilesFacts
      <3>3. dm'[p] = NoName /\ ctl' # p /\ attempt'[p] < Attempts /\ kind'[p] # "device"
        BY <1>1, <1>3, <1>5, ImageMountAssumption
      <3> QED BY <1>2, <1>3, <1>5, <1>6, <3>1, <3>2, <3>3 DEF Holds
    <2>2. Checks(p)'
      BY <1>1, <1>2, <1>3, <1>5 DEF Checks
    <2>3. ASSUME NEW o \in Procs, o # p PROVE (Holds(o) /\ Checks(o))'
      BY <1>10, <2>3, ApartProcess DEF IInv, Processes
    <2> QED BY <2>1, <2>2, <2>3 DEF Processes
  <1>13. LoopDevices'
    <2>1. Shows(p)'
      <3> SUFFICES ASSUME NEW i \in DOMAIN held'[p], held'[p][i] \in Loops
                   PROVE  file'[held'[p][i]] = <<p, FilesOf(p)[i]>>
        BY <1>1 DEF Shows, FilesOf
      <3>1. CASE i \in DOMAIN held[p]
        <4>1. held'[p][i] = held[p][i] /\ held[p][i] \in Loops
          BY <1>6, <3>1
        <4>2. file[held[p][i]] = <<p, FilesOf(p)[i]>> /\ held[p][i] # d
          BY <1>9, <3>1, <4>1, HeldFile
        <4> QED BY <1>5, <4>1, <4>2
      <3>2. CASE i = Len(held[p]) + 1
        BY <1>5, <1>6, <3>2 DEF f
      <3> QED BY <1>6, <3>1, <3>2
    <2>2. ASSUME NEW o \in Procs, o # p PROVE Shows(o)'
      BY <1>5, <1>9, <1>10, <2>2, ApartShows DEF IInv, LoopDevices
    <2>3. ASSUME NEW e \in Loops PROVE Needed(e)'
      <3>1. CASE e = d
        <4>1. Len(held[p]) + 1 \in DOMAIN held'[p] /\ held'[p][Len(held[p]) + 1] = d
          BY <1>6
        <4> QED BY <3>1, <4>1 DEF Needed, LoopUsed
      <3>2. CASE e # d
        <4>1. LoopUsed(e) => LoopUsed(e)'
          <5>1. \A o \in Procs : \A i \in DOMAIN held[o] :
                  i \in DOMAIN held'[o] /\ held'[o][i] = held[o][i]
            BY <1>5, <1>6
          <5> QED BY <1>1, <5>1 DEF LoopUsed
        <4> QED BY <1>5, <3>2, <4>1 DEF IInv, LoopDevices, Needed
      <3> QED BY <3>1, <3>2
    <2> QED BY <2>1, <2>2, <2>3 DEF LoopDevices
  <1>14. DmDevices'
    <2>1. Distinct'
      BY <1>1 DEF IInv, DmDevices, Distinct
    <2>2. ASSUME NEW x \in dms PROVE Stage(x)'
      <3>1. NameUsed(x.name) => NameUsed(x.name)'
        BY <1>1 DEF NameUsed
      <3> QED BY <1>8, <1>10, <3>1, ApartStage DEF IInv, DmDevices
    <2>3. ASSUME NEW x \in dms PROVE Recorded(x)'
      <3>1. Recorded(x) /\ Apart(x.by) /\ x \in DmDevice
        BY <1>8, <1>10 DEF IInv, DmDevices
      <3>2. held'[x.by] # <<>> => x.name = VerityDMName(x.by)'
        BY <3>1 DEF Recorded, Apart
      <3>3. x.name[1] \in Loops => x.name[2] <= lastseq' /\ x.name[2] <= lastseq
        <4>1. x.name[2] \in Nat
          BY <3>1 DEF DmDevice, Names
        <4> QED BY <1>1, <1>3, <3>1, <4>1 DEF Recorded
      <3>4. ASSUME NEW e \in Loops, x.name = <<e, diskseq'[e]>>, file'[e] \in Files
            PROVE  OwnFile(e, x.by)'
        <4>1. e # d
          BY <1>3, <1>5, <3>3, <3>4
        <4> QED BY <1>5, <3>1, <3>4, <4>1 DEF Recorded, OwnFile
      <3>5. ASSUME NEW e \in x.on PROVE OwnFile(e, x.by)'
        <4>1. e \in Loops /\ OwnFile(e, x.by)
          BY <3>1 DEF DmDevice, Recorded
        <4>2. file[e] \in Files
          BY <1>8, <4>1 DEF OwnFile, Files
        <4>3. e # d
          BY <1>1, <1>7, <4>2
        <4> QED BY <1>5, <4>1, <4>3 DEF OwnFile
      <3> QED BY <3>2, <3>3, <3>4, <3>5 DEF Recorded
    <2>4. ASSUME NEW o \in Procs PROVE Device(o)'
      <3>1. CASE o = p
        BY <1>1, <1>3, <1>5, <3>1 DEF Device
      <3>2. CASE o # p
        BY <1>1, <1>10, <3>2, ApartDevice DEF IInv, DmDevices, Processes
      <3> QED BY <3>1, <3>2
    <2> QED BY <1>1, <2>1, <2>2, <2>3, <2>4 DEF DmDevices
  <1>15. Mounts'
    <2> SUFFICES ASSUME NEW m \in mounts PROVE Mounted(m)'
      BY <1>1 DEF Mounts
    <2>1. Mounted(m) /\ m.by # p /\ m.by \in Procs
      BY <1>1 DEF IInv, Mounts, Mounted, Typed, TypeOK
    <2>2. m.dev \in Loops => m.dev # d
      <3>1. <<m.by, "data">> \in Files
        BY <2>1 DEF Files
      <3> QED BY <1>1, <1>7, <2>1, <3>1 DEF Mounted
    <2> QED BY <1>1, <1>5, <2>1, <2>2 DEF Mounted
  <1>16. SignedOnly'
    BY <1>1 DEF IInv, SignedOnly
  <1> QED BY <1>11, <1>12, <1>13, <1>14, <1>15, <1>16 DEF IInv

----------------------------------------------------------------------------
(* Another program takes a free loop device or lets go of its own: none of   *)
(* the devices that show a file of a process.                                *)
LEMMA FileStep ==
  ASSUME IInv, UNCHANGED <<image, procs, ctl, dms, busy, mounts>>, NEW d \in Loops,
         file[d] \notin Files, file'[d] \notin Files, Typed',
         \A e \in Loops : e # d => file'[e] = file[e] /\ diskseq'[e] = diskseq[e],
         diskseq'[d] \in {diskseq[d], lastseq + 1}, lastseq' \in {lastseq, lastseq + 1}
  PROVE  IInv'
  <1> USE DEF image, procs
  <1>1. lastseq \in Nat
    BY DEF IInv, Typed, TypeOK
  <1>2. \A o \in Procs : \A i \in DOMAIN held[o] : held[o][i] \in Loops =>
          held[o][i] # d /\ file[held[o][i]] = <<o, FilesOf(o)[i]>>
    BY HeldFile
  <1>3. \A o \in Procs : Apart(o)
    <2> SUFFICES ASSUME NEW o \in Procs PROVE Apart(o)
      OBVIOUS
    <2>1. ASSUME held[o] # <<>> PROVE VerityDMName(o)' = VerityDMName(o)
      <3>1. held[o][1] \in Devices /\ 1 \in DOMAIN held[o]
        BY <2>1, NameFacts DEF IInv, Typed
      <3> QED BY <1>2, <3>1 DEF VerityDMName, Devices
    <2> QED BY <2>1 DEF Apart
  <1>4. Processes'
    BY <1>3, ApartProcess DEF IInv, Processes
  <1>5. LoopDevices'
    <2>1. \A o \in Procs : Shows(o)'
      BY <1>2, <1>3, ApartShows DEF IInv, LoopDevices
    <2>2. \A e \in Loops : LoopUsed(e)' <=> LoopUsed(e)
      BY DEF LoopUsed
    <2>3. \A e \in Loops : Needed(e)'
      BY <2>2 DEF IInv, LoopDevices, Needed
    <2> QED BY <2>1, <2>3 DEF LoopDevices
  <1>6. DmDevices'
    <2>1. Distinct'
      BY DEF IInv, DmDevices, Distinct
    <2>2. ASSUME NEW x \in dms PROVE Stage(x)' /\ x \in DmDevice /\ x.by \in Procs
      <3>1. NameUsed(x.name) => NameUsed(x.name)'
        BY DEF NameUsed
      <3> QED BY <1>3, <3>1, ApartStage DEF IInv, DmDevices, Typed, DmDevice
    <2>3. ASSUME NEW x \in dms PROVE Recorded(x)'
      <3>1. Recorded(x) /\ Apart(x.by) /\ x \in DmDevice
        BY <1>3, <2>2 DEF IInv, DmDevices
      <3>2. held'[x.by] # <<>> => x.name = VerityDMName(x.by)'
        BY <3>1 DEF Recorded, Apart
      <3>3. x.name[1] \in Loops => x.name[2] <= lastseq'
        <4>1. x.name[2] \in Nat
          BY <3>1 DEF DmDevice, Names
        <4> QED BY <1>1, <3>1, <4>1 DEF Recorded
      <3>4. ASSUME NEW e \in Loops, x.name = <<e, diskseq'[e]>>, file'[e] \in Files
            PROVE  OwnFile(e, x.by)'
        <4>1. e # d
          BY <3>4
        <4> QED BY <3>1, <3>4, <4>1 DEF Recorded, OwnFile
      <3>5. ASSUME NEW e \in x.on PROVE OwnFile(e, x.by)'
        <4>1. e \in Loops /\ OwnFile(e, x.by)
          BY <3>1 DEF DmDevice, Recorded
        <4>2. file[e] \in Files
          BY <2>2, <4>1 DEF OwnFile, Files
        <4> QED BY <4>1, <4>2 DEF OwnFile
      <3> QED BY <3>2, <3>3, <3>4, <3>5 DEF Recorded
    <2>4. \A o \in Procs : Device(o)'
      BY <1>3, ApartDevice DEF IInv, DmDevices, Processes
    <2> QED BY <2>1, <2>2, <2>3, <2>4 DEF DmDevices
  <1>7. Mounts'
    <2> SUFFICES ASSUME NEW m \in mounts PROVE Mounted(m)'
      BY DEF Mounts
    <2>1. Mounted(m) /\ m.by \in Procs
      BY DEF IInv, Mounts, Typed, TypeOK
    <2>2. m.dev \in Loops => m.dev # d
      BY <2>1 DEF Mounted, Files
    <2> QED BY <2>1, <2>2 DEF Mounted
  <1>8. SignedOnly'
    BY DEF IInv, SignedOnly
  <1> QED BY <1>4, <1>5, <1>6, <1>7, <1>8 DEF IInv

(* Another program takes a free loop device.                                 *)
LEMMA OtherBindsStep ==
  ASSUME IInv, NEW d \in Loops, OtherBinds(d) PROVE IInv'
  <1>1. lastseq \in Nat /\ NoFile \notin Files /\ Other \notin Files
    BY ImageMountAssumption DEF IInv, Typed, TypeOK
  <1>2. /\ file[d] = NoFile /\ file' = [file EXCEPT ![d] = Other]
        /\ lastseq' = lastseq + 1 /\ diskseq' = [diskseq EXCEPT ![d] = lastseq + 1]
        /\ locked' \in {locked, locked \cup {d}}
        /\ UNCHANGED <<image, procs, ctl, dms, busy, mounts>>
    BY DEF OtherBinds
  <1>3. /\ file'[d] = Other /\ diskseq'[d] = lastseq + 1
        /\ \A e \in Loops : e # d => file'[e] = file[e] /\ diskseq'[e] = diskseq[e]
    BY <1>2 DEF IInv, Typed, TypeOK
  <1>4. Typed'
    <2>1. file' \in [Loops -> {NoFile, Other} \cup Files] /\ locked' \subseteq Loops
      BY <1>2 DEF IInv, Typed, TypeOK
    <2>2. diskseq' \in [Loops -> 0..lastseq'] /\ lastseq' \in Nat
      <3>1. diskseq \in [Loops -> 0..(lastseq + 1)] /\ lastseq + 1 \in 0..(lastseq + 1)
        BY <1>1 DEF IInv, Typed, TypeOK
      <3> QED BY <1>1, <1>2, <3>1
    <2> QED BY <1>2, <2>1, <2>2 DEF IInv, Typed, TypeOK, image, procs
  <1> QED BY <1>1, <1>2, <1>3, <1>4, FileStep

(* Another program lets go of its loop device.                               *)
LEMMA OtherReleasesStep ==
  ASSUME IInv, NEW d \in Loops, OtherReleases(d) PROVE IInv'
  <1>1. NoFile \notin Files /\ Other \notin Files
    BY ImageMountAssumption
  <1>2. /\ file[d] = Other /\ file' = [file EXCEPT ![d] = NoFile] /\ locked' = locked \ {d}
        /\ UNCHANGED <<image, diskseq, lastseq, procs, ctl, dms, busy, mounts>>
    BY DEF OtherReleases
  <1>3. file'[d] = NoFile /\ \A e \in Loops : e # d => file'[e] = file[e] /\ diskseq'[e] = diskseq[e]
    BY <1>2 DEF IInv, Typed, TypeOK
  <1>4. Typed'
    BY <1>2 DEF IInv, Typed, TypeOK, image, procs
  <1> QED BY <1>1, <1>2, <1>3, <1>4, FileStep

----------------------------------------------------------------------------
(* Steps after which the kernel clears up: devices and mounts go, those of   *)
(* the process or those nobody uses any more.                                *)
LEMMA KernelStep ==
  ASSUME IInv, NEW p, NEW D,
         UNCHANGED <<image, diskseq, lastseq>>, Kernel(D, file), Typed',
         mounts' \subseteq mounts, busy' \subseteq busy,
         \A o \in Procs : held'[o] \in {held[o], <<>>},
         OthersStay(p), p \in Procs => (trusted[p] => trusted'[p]),
         p \in Procs => Holds(p)' /\ Checks(p)' /\ Device(p)',
         \A m \in mounts' : m.by = p =>
           pc'[p] \in {"mount", "relinquish", "close", "done", "cleanup", "dead"},
         D \subseteq DmDevice,
         \A x \in dms : x.by # p => x \in D,
         \A y \in D : \E x \in dms : /\ x.name = y.name /\ x.by = y.by /\ x.on = y.on
                                     /\ x.live = y.live /\ (x.by # p => x = y),
         \A x, y \in D : x.name = y.name => x = y,
         \A y \in D : y.by = p /\ (y.deferred => NameUsed(y.name)') => Stage(y)',
         \A x \in dms : NameUsed(x.name)' =>
           \E y \in D : y.name = x.name /\ y.by = x.by /\ y.on = x.on /\ y.live = x.live
  PROVE  IInv'
  <1> USE DEF image
  <1>1. /\ dms' = {x \in D : x.deferred => NameUsed(x.name)'}
        /\ file' = [d \in Loops |-> IF file[d] # Other /\ ~LoopUsed(d)' THEN NoFile ELSE file[d]]
    BY DEF Kernel, InUse, NameUsed, LoopInUse, LoopUsed
  <1>2. NoFile \notin Files /\ Other \notin Files
    BY ImageMountAssumption
  <1>3. \A d \in Loops : /\ LoopUsed(d)' => file'[d] = file[d]
                         /\ file'[d] \in Files => file'[d] = file[d] /\ LoopUsed(d)'
    BY <1>1, <1>2
  <1>4. \A y \in dms' : y \in D /\ y \in DmDevice /\ y.by \in Procs /\ (y.deferred => NameUsed(y.name)')
    BY <1>1 DEF DmDevice
  <1>5. \A o \in Procs : \A i \in DOMAIN held'[o] :
          /\ held'[o] = held[o] /\ i \in DOMAIN held[o]
          /\ held[o][i] \in Loops => LoopUsed(held[o][i])'
    BY DEF LoopUsed
  <1>6. \A o \in Procs : held'[o] # <<>> => held'[o] = held[o] /\ VerityDMName(o)' = VerityDMName(o)
    BY DEF VerityDMName
  <1>7. \A o \in Procs : o # p => Apart(o)
    BY <1>6 DEF OthersStay, Apart
  <1>8. Processes'
    BY <1>7, ApartProcess DEF IInv, Processes
  <1>9. LoopDevices'
    <2>1. \A o \in Procs : Shows(o)'
      <3> SUFFICES ASSUME NEW o \in Procs, NEW i \in DOMAIN held'[o], held'[o][i] \in Loops
                   PROVE  file'[held'[o][i]] = <<o, FilesOf(o)[i]>>
        BY DEF Shows, FilesOf
      <3>1. held'[o] = held[o] /\ i \in DOMAIN held[o] /\ file'[held[o][i]] = file[held[o][i]]
        BY <1>3, <1>5
      <3> QED BY <3>1, HeldFile
    <2> QED BY <1>3, <2>1 DEF LoopDevices, Needed
  <1>10. \A y \in dms' : \E x \in dms : /\ x.name = y.name /\ x.by = y.by /\ x.on = y.on
                                        /\ x.live = y.live /\ (x.by # p => x = y)
    BY <1>4
  <1>11. Distinct'
    BY <1>4 DEF Distinct
  <1>12. ASSUME NEW y \in dms' PROVE Recorded(y)' /\ Stage(y)'
    <2>1. PICK x \in dms : /\ x.name = y.name /\ x.by = y.by /\ x.on = y.on
                           /\ x.live = y.live /\ (x.by # p => x = y)
      BY <1>10
    <2>2. Recorded(x) /\ Stage(x) /\ y \in DmDevice /\ y.by \in Procs
      BY <1>4, <2>1 DEF IInv, DmDevices
    <2>3. Recorded(y)'
      <3>1. held'[y.by] # <<>> => y.name = VerityDMName(y.by)'
        BY <1>6, <2>1, <2>2 DEF Recorded
      <3>2. y.name[1] \in Loops => y.name[2] <= lastseq'
        BY <2>1, <2>2 DEF Recorded
      <3>3. ASSUME NEW d \in Loops, y.name = <<d, diskseq'[d]>>, file'[d] \in Files
            PROVE  OwnFile(d, y.by)'
        BY <1>3, <2>1, <2>2, <3>3 DEF Recorded, OwnFile
      <3>4. ASSUME NEW d \in y.on PROVE OwnFile(d, y.by)'
        <4>1. d \in Loops /\ LoopUsed(d)'
          BY <2>2 DEF DmDevice, LoopUsed
        <4> QED BY <1>3, <2>1, <2>2, <4>1 DEF Recorded, OwnFile
      <3> QED BY <3>1, <3>2, <3>3, <3>4 DEF Recorded
    <2>4. Stage(y)'
      <3>1. CASE y.by = p
        BY <1>4, <3>1
      <3>2. CASE y.by # p
        <4>1. x = y /\ Apart(y.by)
          BY <1>7, <2>1, <2>2, <3>2
        <4>2. Verity(y.by)' <=> Verity(y.by)
          BY DEF Verity
        <4> QED BY <1>4, <2>2, <4>1, <4>2 DEF Stage, Apart
      <3> QED BY <3>1, <3>2
    <2> QED BY <2>3, <2>4
  <1>13. ASSUME NEW o \in Procs PROVE Device(o)'
    <2>1. CASE o = p
      BY <2>1
    <2>2. CASE o # p
      <3> SUFFICES ASSUME pc'[o] \in {"load", "resume", "remove"} \/ dm'[o] # NoName
                   PROVE  \E x \in dms' : /\ x.by = o /\ x.name = VerityDMName(o)' /\ ~x.deferred
                                          /\ dm'[o] # NoName => x.live
        BY DEF Device
      <3>1. Apart(o) /\ Holds(o) /\ Device(o)
        BY <1>7, <2>2 DEF IInv, DmDevices, Processes
      <3>2. held[o] # <<>> /\ VerityDMName(o)' = VerityDMName(o)
        BY <3>1 DEF Holds, Apart
      <3>3. PICK x \in dms : /\ x.by = o /\ x.name = VerityDMName(o) /\ ~x.deferred
                             /\ dm[o] # NoName => x.live
        BY <3>1 DEF Device, Apart
      <3>4. x \in dms'
        BY <1>1, <2>2, <3>3
      <3> QED BY <3>1, <3>2, <3>3, <3>4 DEF Apart
    <2> QED BY <2>1, <2>2
  <1>14. Mounts'
    <2> SUFFICES ASSUME NEW m \in mounts' PROVE Mounted(m)'
      BY DEF Mounts
    <2>1. m \in mounts /\ Mounted(m) /\ m.by \in Procs
      BY DEF IInv, Mounts, Typed, TypeOK
    <2>2. pc'[m.by] \in {"mount", "relinquish", "close", "done", "cleanup", "dead"}
      BY <2>1, <1>7 DEF Mounted, Apart
    <2>3. m.dev \in Loops => file'[m.dev] = <<m.by, "data">>
      <3>1. m.dev \in Loops => LoopUsed(m.dev)'
        BY DEF LoopUsed
      <3> QED BY <1>3, <2>1, <3>1 DEF Mounted
    <2>4. ASSUME m.dev \notin Devices PROVE \E x \in dms' : x.name = m.dev /\ x.by = m.by /\ x.live
      <3>1. PICK x \in dms : x.name = m.dev /\ x.by = m.by /\ x.live
        BY <2>1, <2>4 DEF Mounted
      <3>2. NameUsed(x.name)'
        BY <3>1 DEF NameUsed
      <3>3. PICK y \in D : y.name = x.name /\ y.by = x.by /\ y.on = x.on /\ y.live = x.live
        BY <3>2
      <3> QED BY <1>1, <3>1, <3>2, <3>3
    <2> QED BY <2>2, <2>3, <2>4 DEF Mounted
  <1>15. SignedOnly'
    <2> SUFFICES ASSUME NEW y \in dms', y.live
                 PROVE  /\ signature[y.by] = "must" => trusted'[y.by]
                        /\ signature[y.by] # "missing"
      BY DEF SignedOnly
    <2>1. PICK x \in dms : x.by = y.by /\ x.live = y.live
      BY <1>10
    <2>2. y.by \in Procs
      BY <1>4
    <2>3. trusted[y.by] => trusted'[y.by]
      BY <2>2 DEF OthersStay
    <2>4. (signature[x.by] = "must" => trusted[x.by]) /\ signature[x.by] # "missing"
      BY <2>1 DEF IInv, SignedOnly
    <2> QED BY <2>1, <2>3, <2>4
  <1> QED BY <1>8, <1>9, <1>11, <1>12, <1>13, <1>14, <1>15 DEF IInv, DmDevices

(* Such a step by which no device of the process changes.                    *)
LEMMA ReleaseStep ==
  ASSUME IInv, NEW p,
         UNCHANGED <<image, diskseq, lastseq>>, Kernel(dms, file), Typed',
         mounts' \subseteq mounts, busy' \subseteq busy,
         \A o \in Procs : held'[o] \in {held[o], <<>>},
         OthersStay(p), p \in Procs => (trusted[p] => trusted'[p]),
         p \in Procs => Holds(p)' /\ Checks(p)' /\ Device(p)',
         \A m \in mounts' : m.by = p =>
           pc'[p] \in {"mount", "relinquish", "close", "done", "cleanup", "dead"},
         \A y \in dms : y.by = p /\ (y.deferred => NameUsed(y.name)') => Stage(y)'
  PROVE  IInv'
  <1>1. dms \subseteq DmDevice /\ \A x, y \in dms : x.name = y.name => x = y
    BY DEF IInv, Typed, DmDevices, Distinct
  <1> QED BY <1>1, KernelStep

(* What the kernel leaves is of the types there were.                        *)
LEMMA KernelTypes ==
  ASSUME Typed, NEW D, D \subseteq DmDevice, Kernel(D, file)
  PROVE  /\ file' \in [Loops -> {NoFile, Other} \cup Files] /\ dms' \subseteq DmDevice
         /\ \A x \in dms' : /\ x.name \in Names /\ x.by \in Procs /\ x.on \subseteq Loops
                            /\ x.live \in BOOLEAN /\ x.deferred \in BOOLEAN
  <1>1. dms' \subseteq DmDevice
    BY DEF Kernel
  <1>2. file' \in [Loops -> {NoFile, Other} \cup Files]
    <2>1. \A d \in Loops : file[d] \in {NoFile, Other} \cup Files
      BY DEF Typed, TypeOK
    <2> QED BY <2>1 DEF Kernel
  <1> QED BY <1>1, <1>2 DEF DmDevice

(* Another program closes a dm device, which goes if it was only waiting for *)
(* that.                                                                     *)
LEMMA OtherClosesStep ==
  ASSUME IInv, NEW n \in busy, OtherCloses(n) PROVE IInv'
  <1> USE DEF OtherCloses, image, counts
  <1>1. NoProc \notin Procs /\ \A m \in mounts : m.by \in Procs
    BY ImageMountAssumption DEF IInv, Typed, TypeOK
  <1>2. dms \subseteq DmDevice /\ \A y \in dms : y.by \in Procs
    BY DEF IInv, Typed, DmDevice
  <1>3. Typed'
    <2>1. /\ file' \in [Loops -> {NoFile, Other} \cup Files] /\ dms' \subseteq DmDevice
          /\ \A x \in dms' : /\ x.name \in Names /\ x.by \in Procs /\ x.on \subseteq Loops
                             /\ x.live \in BOOLEAN /\ x.deferred \in BOOLEAN
      BY <1>2, KernelTypes DEF IInv
    <2>2. busy' \subseteq Names
      BY DEF IInv, Typed, TypeOK
    <2> HIDE DEF OtherCloses
    <2>3. UNCHANGED <<image, diskseq, lastseq, locked, ctl, pc, cand, attempt, held, dm, tries, then,
                      trusted, mounts>>
      BY DEF OtherCloses
    <2> QED BY <2>1, <2>2, <2>3 DEF IInv, Typed, TypeOK
  <1>4. OthersStay(NoProc)
    BY DEF OthersStay
  <1> QED BY <1>1, <1>2, <1>3, <1>4, ReleaseStep

(* The image is unmounted, and what was left under it goes.                  *)
LEMMA UnmountedStep ==
  ASSUME IInv, NEW p \in Procs, Unmounted(p) PROVE IInv'
  <1>1. /\ pc[p] \in {"done", "dead"} /\ mounts' \subseteq mounts /\ Kernel(dms, file)
        /\ UNCHANGED <<image, diskseq, lastseq, locked, ctl, pc, cand, attempt, held, dm, tries, then,
                       trusted, busy>>
    BY DEF Unmounted
  <1> USE DEF image
  <1>2. dms \subseteq DmDevice
    BY DEF IInv, Typed
  <1>3. Typed'
    <2>1. /\ file' \in [Loops -> {NoFile, Other} \cup Files] /\ dms' \subseteq DmDevice
          /\ \A x \in dms' : /\ x.name \in Names /\ x.by \in Procs /\ x.on \subseteq Loops
                             /\ x.live \in BOOLEAN /\ x.deferred \in BOOLEAN
      BY <1>1, <1>2, KernelTypes DEF IInv
    <2> QED BY <1>1, <2>1 DEF IInv, Typed, TypeOK
  <1>4. OthersStay(p)
    BY <1>1 DEF OthersStay
  <1>5. held[p] = <<>> /\ dm[p] = NoName /\ Holds(p) /\ Checks(p)
    BY <1>1 DEF IInv, Processes, Holds
  <1>6. Holds(p)' /\ Checks(p)' /\ Device(p)'
    <2>1. Holds(p)' /\ Checks(p)'
      BY <1>1, <1>5, ApartProcess DEF Apart
    <2>2. Device(p)'
      BY <1>1, <1>5 DEF Device
    <2> QED BY <2>1, <2>2
  <1>7. ASSUME NEW y \in dms, y.by = p, y.deferred => NameUsed(y.name)' PROVE Stage(y)'
    BY <1>1, <1>7 DEF IInv, DmDevices, Stage, Verity
  <1> QED BY <1>1, <1>3, <1>4, <1>6, <1>7, ReleaseStep

(* cleanup unmounts one file system; the dm device is not marked yet and     *)
(* stays.                                                                    *)
LEMMA CleanupUnmountStep ==
  ASSUME IInv, NEW p \in Procs, CleanupUnmount(p) PROVE IInv'
  <1>1. /\ pc[p] = "cleanup" /\ mounts' \subseteq mounts /\ Kernel(dms, file)
        /\ UNCHANGED <<image, diskseq, lastseq, locked, ctl, pc, cand, attempt, held, dm, tries, then,
                       trusted, busy>>
    BY DEF CleanupUnmount
  <1> USE DEF image
  <1>2. dms \subseteq DmDevice
    BY DEF IInv, Typed
  <1>3. Typed'
    <2>1. /\ file' \in [Loops -> {NoFile, Other} \cup Files] /\ dms' \subseteq DmDevice
          /\ \A x \in dms' : /\ x.name \in Names /\ x.by \in Procs /\ x.on \subseteq Loops
                             /\ x.live \in BOOLEAN /\ x.deferred \in BOOLEAN
      BY <1>1, <1>2, KernelTypes DEF IInv
    <2> QED BY <1>1, <2>1 DEF IInv, Typed, TypeOK
  <1>4. OthersStay(p)
    BY <1>1 DEF OthersStay
  <1>5. Holds(p) /\ Checks(p) /\ Device(p) /\ VerityDMName(p)' = VerityDMName(p)
    BY <1>1 DEF IInv, Processes, DmDevices, VerityDMName
  <1>6. Holds(p)' /\ Checks(p)' /\ Device(p)'
    <2>1. Holds(p)' /\ Checks(p)'
      BY <1>1, <1>5, ApartProcess DEF Apart
    <2>2. ASSUME NEW x \in dms, ~x.deferred PROVE x \in dms'
      BY <1>1, <2>2 DEF Kernel
    <2>3. Device(p)'
      BY <1>1, <1>5, <2>2 DEF Device
    <2> QED BY <2>1, <2>3
  <1>7. ASSUME NEW y \in dms, y.by = p, y.deferred => NameUsed(y.name)' PROVE Stage(y)'
    BY <1>1, <1>7 DEF IInv, DmDevices, Stage, Verity
  <1> QED BY <1>1, <1>3, <1>4, <1>6, <1>7, ReleaseStep

(* Closing the loop devices: those not under a dm device or a mount go.      *)
LEMMA CloseStep ==
  ASSUME IInv, NEW p \in Procs, Close(p) PROVE IInv'
  <1>1. /\ pc[p] \in {"close", "detach"} /\ held' = [held EXCEPT ![p] = <<>>]
        /\ UNCHANGED <<busy, mounts>> /\ Kernel(dms, file)
        /\ UNCHANGED <<image, diskseq, lastseq, locked, ctl, cand, attempt, dm, tries, then, trusted>>
    BY DEF Close
  <1>2. PICK place \in {"done", "failed"} :
          pc' = [pc EXCEPT ![p] = place] /\ (place = "done" => pc[p] = "close")
                                         /\ (place = "failed" => pc[p] = "detach")
    BY <1>1 DEF Close, Goto
  <1> USE DEF image
  <1>3. /\ pc'[p] = place /\ held'[p] = <<>>
        /\ \A o \in Procs : o # p => pc'[o] = pc[o] /\ held'[o] = held[o]
    BY <1>1, <1>2 DEF IInv, Typed, TypeOK
  <1>4. dms \subseteq DmDevice
    BY DEF IInv, Typed
  <1>5. Typed'
    <2>1. /\ file' \in [Loops -> {NoFile, Other} \cup Files] /\ dms' \subseteq DmDevice
          /\ \A x \in dms' : /\ x.name \in Names /\ x.by \in Procs /\ x.on \subseteq Loops
                             /\ x.live \in BOOLEAN /\ x.deferred \in BOOLEAN
      BY <1>1, <1>4, KernelTypes DEF IInv
    <2>2. pc' \in [Procs -> Places]
      BY <1>2 DEF IInv, Typed, TypeOK, Places
    <2>3. held' \in [Procs -> Seq(Devices)]
      BY <1>1 DEF IInv, Typed, TypeOK
    <2> QED BY <1>1, <2>1, <2>2, <2>3 DEF IInv, Typed, TypeOK
  <1>6. OthersStay(p)
    BY <1>1, <1>3 DEF OthersStay
  <1>7. Holds(p) /\ dm[p] = NoName
    BY <1>1 DEF IInv, Processes, Holds
  <1>8. Holds(p)' /\ Checks(p)' /\ Device(p)'
    <2>1. held'[p] \in Seq(IF kind[p] = "device" THEN {Disk} ELSE Loops)
      BY <1>3
    <2>2. Len(held'[p]) <= IF kind[p] = "device" THEN 1 ELSE Len(FilesOf(p)')
      <3>1. kind[p] # "device" => Len(FilesOf(p)) \in Nat
        BY FilesFacts DEF IInv, Typed, TypeOK
      <3>2. FilesOf(p)' = FilesOf(p) /\ Len(held'[p]) = 0
        BY <1>1, <1>3 DEF FilesOf
      <3> QED BY <3>1, <3>2
    <2>3. ctl' # p
      BY <1>1, <1>7 DEF Holds
    <2>4. Holds(p)'
      BY <1>1, <1>2, <1>3, <1>7, <2>1, <2>2, <2>3 DEF Holds
    <2> QED BY <1>1, <1>3, <1>7, <2>4 DEF Checks, Device
  <1>9. ASSUME NEW y \in dms, y.by = p, y.deferred => NameUsed(y.name)' PROVE Stage(y)'
    <2>1. Stage(y)
      BY DEF IInv, DmDevices
    <2> QED BY <1>1, <1>3, <1>9, <2>1 DEF Stage, Verity
  <1>10. \A m \in mounts' : m.by = p => pc'[p] = "done"
    BY <1>1, <1>2, <1>3 DEF IInv, Mounts, Mounted
  <1>11. \A o \in Procs : held'[o] \in {held[o], <<>>}
    BY <1>3
  <1> QED BY <1>1, <1>5, <1>6, <1>8, <1>9, <1>10, <1>11, ReleaseStep

(* A process is killed: the kernel closes what it had open, whatever place   *)
(* it was at.                                                                *)
LEMMA CrashStep ==
  ASSUME IInv, NEW p \in Procs, Crash(p) PROVE IInv'
  <1>1. /\ pc' = [pc EXCEPT ![p] = "dead"] /\ held' = [held EXCEPT ![p] = <<>>]
        /\ dm' = [dm EXCEPT ![p] = NoName] /\ pc[p] \notin {"absent", "done", "failed", "dead"}
        /\ ctl' = IF ctl = p THEN NoProc ELSE ctl
        /\ UNCHANGED <<busy, mounts>> /\ Kernel(dms, file)
        /\ UNCHANGED <<image, diskseq, lastseq, locked, cand, attempt, tries, then, trusted>>
    BY DEF Crash, Goto
  <1> USE DEF image
  <1>2. /\ pc'[p] = "dead" /\ held'[p] = <<>> /\ dm'[p] = NoName
        /\ \A o \in Procs : o # p => pc'[o] = pc[o] /\ held'[o] = held[o] /\ dm'[o] = dm[o]
    BY <1>1 DEF IInv, Typed, TypeOK
  <1>3. dms \subseteq DmDevice
    BY DEF IInv, Typed
  <1>4. Typed'
    <2>1. /\ file' \in [Loops -> {NoFile, Other} \cup Files] /\ dms' \subseteq DmDevice
          /\ \A x \in dms' : /\ x.name \in Names /\ x.by \in Procs /\ x.on \subseteq Loops
                             /\ x.live \in BOOLEAN /\ x.deferred \in BOOLEAN
      BY <1>1, <1>3, KernelTypes DEF IInv
    <2>2. pc' \in [Procs -> Places]
      BY <1>1 DEF IInv, Typed, TypeOK, Places
    <2>3. held' \in [Procs -> Seq(Devices)]
      BY <1>1 DEF IInv, Typed, TypeOK
    <2>4. dm' \in [Procs -> Names \cup {NoName}] /\ ctl' \in Procs \cup {NoProc}
      BY <1>1 DEF IInv, Typed, TypeOK
    <2> QED BY <1>1, <2>1, <2>2, <2>3, <2>4 DEF IInv, Typed, TypeOK
  <1>5. OthersStay(p)
    BY <1>1, <1>2, ImageMountAssumption DEF OthersStay
  <1>6. Holds(p)' /\ Checks(p)' /\ Device(p)'
    <2>1. held'[p] \in Seq(IF kind[p] = "device" THEN {Disk} ELSE Loops)
      BY <1>2
    <2>2. Len(held'[p]) <= IF kind[p] = "device" THEN 1 ELSE Len(FilesOf(p)')
      <3>1. kind[p] # "device" => Len(FilesOf(p)) \in Nat
        BY FilesFacts DEF IInv, Typed, TypeOK
      <3>2. FilesOf(p)' = FilesOf(p) /\ Len(held'[p]) = 0
        BY <1>1, <1>2 DEF FilesOf
      <3> QED BY <3>1, <3>2
    <2>3. ctl' # p
      BY <1>1, ImageMountAssumption
    <2>4. Holds(p)'
      BY <1>1, <1>2, <2>1, <2>2, <2>3 DEF Holds
    <2> QED BY <1>2, <2>4 DEF Checks, Device
  <1>7. ASSUME NEW y \in dms, y.by = p, y.deferred => NameUsed(y.name)' PROVE Stage(y)'
    <2>1. Stage(y)
      BY DEF IInv, DmDevices
    <2> QED BY <1>1, <1>2, <1>7, <2>1 DEF Stage, Verity
  <1>8. \A o \in Procs : held'[o] \in {held[o], <<>>}
    BY <1>2
  <1> QED BY <1>1, <1>2, <1>4, <1>5, <1>6, <1>7, <1>8, ReleaseStep

(* The dm device is marked for removal with its last user before anything is *)
(* closed.                                                                   *)
LEMMA RelinquishStep ==
  ASSUME IInv, NEW p \in Procs, Relinquish(p) PROVE IInv'
  <1> DEFINE D == IF Verity(p) THEN Deferred(p) ELSE dms
  <1>1. /\ pc[p] = "relinquish" /\ pc' = [pc EXCEPT ![p] = "close"]
        /\ dm' = [dm EXCEPT ![p] = NoName] /\ Kernel(D, file)
        /\ UNCHANGED <<busy, mounts, held>>
        /\ UNCHANGED <<image, diskseq, lastseq, locked, ctl, cand, attempt, tries, then, trusted>>
    BY DEF Relinquish, Goto
  <1> USE DEF image
  <1>2. /\ pc'[p] = "close" /\ dm'[p] = NoName
        /\ \A o \in Procs : o # p => pc'[o] = pc[o] /\ dm'[o] = dm[o]
    BY <1>1 DEF IInv, Typed, TypeOK
  <1>3. dms \subseteq DmDevice /\ Distinct
    BY DEF IInv, Typed, DmDevices
  <1>4. Verity(p) => dm[p] # NoName /\ dm[p] = VerityDMName(p)
    BY <1>1 DEF IInv, Processes, Holds
  <1>5. \A x \in dms : x.by = p => Verity(p) /\ x.name = dm[p]
    <2>1. \A x \in dms : x.by = p => Verity(p)
      BY DEF IInv, DmDevices, Stage
    <2> QED BY <1>4, <2>1, OwnName
  <1>6. \A x \in dms : x.by # p /\ Verity(p) => x.name # dm[p]
    BY <1>4, OwnName
  <1>7. \A x \in dms : /\ Deferring(x) \in DmDevice /\ Deferring(x).name = x.name
                       /\ Deferring(x).by = x.by /\ Deferring(x).on = x.on
                       /\ Deferring(x).live = x.live /\ Deferring(x).deferred
    BY <1>3 DEF DmDevice, Deferring
  <1>8. /\ \A x \in dms : IF x.by = p THEN Deferring(x) \in D ELSE x \in D
        /\ \A y \in D : \E x \in dms : y = IF x.by = p THEN Deferring(x) ELSE x
    BY <1>5, <1>6 DEF Deferred, Marked
  <1> HIDE DEF D
  <1>9. /\ D \subseteq DmDevice /\ \A x, y \in D : x.name = y.name => x = y
        /\ \A x \in dms : x.by # p => x \in D
        /\ \A x \in dms : \E y \in D : y.name = x.name /\ y.by = x.by /\ y.on = x.on /\ y.live = x.live
        /\ \A y \in D : \E x \in dms : /\ x.name = y.name /\ x.by = y.by /\ x.on = y.on
                                       /\ x.live = y.live /\ (x.by # p => x = y)
        /\ \A y \in D : y.by = p => y.deferred
    BY <1>3, <1>7, <1>8 DEF Distinct
  <1>10. Typed'
    <2>1. /\ file' \in [Loops -> {NoFile, Other} \cup Files] /\ dms' \subseteq DmDevice
          /\ \A x \in dms' : /\ x.name \in Names /\ x.by \in Procs /\ x.on \subseteq Loops
                             /\ x.live \in BOOLEAN /\ x.deferred \in BOOLEAN
      BY <1>1, <1>9, KernelTypes DEF IInv
    <2>2. pc' \in [Procs -> Places]
      BY <1>1 DEF IInv, Typed, TypeOK, Places
    <2>3. dm' \in [Procs -> Names \cup {NoName}]
      BY <1>1 DEF IInv, Typed, TypeOK
    <2> QED BY <1>1, <2>1, <2>2, <2>3 DEF IInv, Typed, TypeOK
  <1>11. OthersStay(p)
    BY <1>1, <1>2 DEF OthersStay
  <1>12. Holds(p)' /\ Checks(p)' /\ Device(p)'
    <2>1. (Verity(p)' <=> Verity(p)) /\ FilesOf(p)' = FilesOf(p) /\ Holds(p)
      BY <1>1 DEF Verity, FilesOf, IInv, Processes
    <2>2. Holds(p)'
      BY <1>1, <1>2, <2>1 DEF Holds
    <2> QED BY <1>2, <2>2 DEF Checks, Device
  <1>13. ASSUME NEW y \in D, y.by = p, y.deferred => NameUsed(y.name)' PROVE Stage(y)'
    <2>1. PICK x \in dms : x.name = y.name /\ x.by = y.by
      BY <1>9
    <2>2. Stage(x) /\ y.deferred
      BY <1>9, <1>13, <2>1 DEF IInv, DmDevices
    <2> QED BY <1>1, <1>2, <1>13, <2>1, <2>2 DEF Stage, Verity
  <1>14. \A m \in mounts' : m.by = p => pc'[p] = "close"
    BY <1>2
  <1> QED BY <1>1, <1>9, <1>10, <1>11, <1>12, <1>13, <1>14, KernelStep

(* Removing a device and marking it for removal with its last user.          *)
LEMMA RemoveStep ==
  ASSUME IInv, NEW p \in Procs, pc[p] = "remove",
         NEW D, Kernel(D, file),
         \/ D = {x \in dms : x.name # VerityDMName(p)} /\ ~NameUsed(VerityDMName(p))'
         \/ D = Marked(VerityDMName(p)),
         pc' = [pc EXCEPT ![p] = then[p]],
         UNCHANGED <<busy, mounts, held>>,
         UNCHANGED <<image, diskseq, lastseq, locked, ctl, cand, attempt, dm, tries, then, trusted>>
  PROVE  IInv'
  <1> USE DEF image
  <1>1. /\ pc'[p] = then[p] /\ then[p] \in {"fallback", "cleanup", "detach"}
        /\ dm[p] = NoName /\ \A o \in Procs : o # p => pc'[o] = pc[o]
    BY DEF IInv, Typed, TypeOK, Processes, Holds
  <1>2. dms \subseteq DmDevice /\ Distinct
    BY DEF IInv, Typed, DmDevices
  <1>3. \A x \in dms : x.name = VerityDMName(p) <=> x.by = p
    BY OwnName
  <1>4. \A x \in dms : /\ Deferring(x) \in DmDevice /\ Deferring(x).name = x.name
                       /\ Deferring(x).by = x.by /\ Deferring(x).on = x.on
                       /\ Deferring(x).live = x.live /\ Deferring(x).deferred
    BY <1>2 DEF DmDevice, Deferring
  <1>5. /\ \A x \in dms : x.by # p => x \in D
        /\ \A x \in dms : x.by = p /\ NameUsed(x.name)' => Deferring(x) \in D
        /\ \A y \in D : \E x \in dms : y = IF x.by = p THEN Deferring(x) ELSE x
    <2>1. CASE D = {x \in dms : x.name # VerityDMName(p)} /\ ~NameUsed(VerityDMName(p))'
      <3>1. VerityDMName(p)' = VerityDMName(p)
        BY DEF VerityDMName
      <3>2. \A x \in dms : x.by = p => ~NameUsed(x.name)'
        BY <1>3, <2>1, <3>1 DEF NameUsed
      <3>3. \A y \in D : y \in dms /\ y.by # p
        BY <1>3, <2>1
      <3> QED BY <1>3, <2>1, <3>2, <3>3
    <2>2. CASE D = Marked(VerityDMName(p))
      BY <1>3, <2>2 DEF Marked
    <2> QED BY <2>1, <2>2
  <1>6. /\ D \subseteq DmDevice /\ \A x, y \in D : x.name = y.name => x = y
        /\ \A x \in dms : NameUsed(x.name)' =>
             \E y \in D : y.name = x.name /\ y.by = x.by /\ y.on = x.on /\ y.live = x.live
        /\ \A y \in D : \E x \in dms : /\ x.name = y.name /\ x.by = y.by /\ x.on = y.on
                                       /\ x.live = y.live /\ (x.by # p => x = y)
        /\ \A y \in D : y.by = p => y.deferred
    BY <1>2, <1>4, <1>5 DEF Distinct
  <1>7. Typed'
    <2>1. /\ file' \in [Loops -> {NoFile, Other} \cup Files] /\ dms' \subseteq DmDevice
          /\ \A x \in dms' : /\ x.name \in Names /\ x.by \in Procs /\ x.on \subseteq Loops
                             /\ x.live \in BOOLEAN /\ x.deferred \in BOOLEAN
      BY <1>6, KernelTypes DEF IInv
    <2>2. pc' \in [Procs -> Places]
      BY <1>1 DEF IInv, Typed, TypeOK, Places
    <2> QED BY <2>1, <2>2 DEF IInv, Typed, TypeOK
  <1>8. OthersStay(p)
    BY <1>1 DEF OthersStay
  <1>9. Holds(p)' /\ Checks(p)' /\ Device(p)'
    <2>1. (Verity(p)' <=> Verity(p)) /\ FilesOf(p)' = FilesOf(p) /\ Holds(p) /\ Verity(p)
      BY DEF Verity, FilesOf, IInv, Processes, Holds
    <2>2. Holds(p)'
      BY <1>1, <2>1 DEF Holds
    <2> QED BY <1>1, <2>2 DEF Checks, Device
  <1>10. ASSUME NEW y \in D, y.by = p, y.deferred => NameUsed(y.name)' PROVE Stage(y)'
    <2>1. PICK x \in dms : x.name = y.name /\ x.by = y.by
      BY <1>6
    <2>2. Stage(x) /\ y.deferred
      BY <1>6, <1>10, <2>1 DEF IInv, DmDevices
    <2> QED BY <1>1, <1>10, <2>1, <2>2 DEF Stage, Verity
  <1>11. \A m \in mounts' : m.by # p
    BY DEF IInv, Mounts, Mounted
  <1> QED BY <1>5, <1>6, <1>7, <1>8, <1>9, <1>10, <1>11, KernelStep

(* dmRemove removes the device, tries again, or marks it.                    *)
LEMMA TryRemoveStep ==
  ASSUME IInv, NEW p \in Procs, TryRemove(p) PROVE IInv'
  <1> DEFINE n == VerityDMName(p)
  <1>1. /\ pc[p] = "remove" /\ UNCHANGED <<busy, mounts, held>>
        /\ UNCHANGED <<image, diskseq, lastseq, locked, ctl, cand, attempt, dm, then, trusted, counts>>
    BY DEF TryRemove
  <1>2. CASE ~InUse(n)
    <2>1. /\ Kernel({x \in dms : x.name # n}, file) /\ pc' = [pc EXCEPT ![p] = then[p]]
          /\ UNCHANGED tries
      BY <1>2 DEF TryRemove, Goto
    <2>2. n' = n
      BY <1>1 DEF VerityDMName
    <2>3. ~NameUsed(n)'
      BY <1>2, <2>2 DEF InUse, NameUsed
    <2> QED BY <1>1, <2>1, <2>3, RemoveStep
  <1>3. CASE InUse(n) /\ tries[p] < BusyRetries
    <2>1. tries' = [tries EXCEPT ![p] = @ + 1] /\ UNCHANGED <<pc, dms, file>>
      BY <1>3 DEF TryRemove
    <2>2. Still /\ OthersStay(p) /\ trusted' = trusted
      BY <1>1, <2>1 DEF Still, OthersStay, image, loopdevs
    <2>3. Typed'
      <3>1. tries' \in [Procs -> 0..BusyRetries]
        BY <1>3, <2>1, ImageMountAssumption DEF IInv, Typed, TypeOK
      <3> QED BY <1>1, <2>1, <3>1 DEF IInv, Typed, TypeOK, image
    <2>4. Apart(p)
      BY <1>1, <2>1 DEF Apart, VerityDMName, image
    <2>5. Holds(p)' /\ Checks(p)'
      BY <2>4, ApartProcess DEF IInv, Processes
    <2>6. Device(p)'
      BY <2>1, <2>4, ApartDevice DEF IInv, Processes, DmDevices
    <2>7. \A x \in dms' : x.by = p => Stage(x)'
      BY <1>1, <2>1, <2>4, ApartStage DEF IInv, DmDevices, Typed, NameUsed
    <2>8. \A m \in mounts' : m.by = p => Mounted(m)'
      BY <1>1 DEF IInv, Mounts, Mounted
    <2> QED BY <2>2, <2>3, <2>5, <2>6, <2>7, <2>8, ControlStep DEF About
  <1>4. CASE InUse(n) /\ ~(tries[p] < BusyRetries)
    <2>1. /\ Kernel(Marked(n), file) /\ pc' = [pc EXCEPT ![p] = then[p]]
          /\ UNCHANGED tries
      BY <1>4 DEF TryRemove, Goto
    <2> QED BY <1>1, <2>1, RemoveStep
  <1> QED BY <1>2, <1>3, <1>4

(* Another program opens a dm device: names come into use only.              *)
LEMMA OtherOpensStep ==
  ASSUME IInv, OtherOpens PROVE IInv'
  <1>1. /\ busy \subseteq busy' /\ \E x \in dms : busy' = busy \cup {x.name}
        /\ UNCHANGED <<image, loopdevs, ctl, procs, dms, mounts>>
    BY DEF OtherOpens
  <1> USE DEF image, loopdevs, procs
  <1>2. \A o \in Procs : Apart(o)
    BY <1>1 DEF Apart, VerityDMName
  <1>3. Typed'
    BY <1>1 DEF IInv, Typed, TypeOK
  <1>4. Processes'
    BY <1>2, ApartProcess DEF IInv, Processes
  <1>5. LoopDevices'
    <2>1. \A o \in Procs : Shows(o)'
      BY <1>1, <1>2, ApartShows DEF IInv, LoopDevices
    <2>2. \A d \in Loops : LoopUsed(d) => LoopUsed(d)'
      BY <1>1 DEF LoopUsed
    <2> QED BY <1>1, <2>1, <2>2 DEF IInv, LoopDevices, Needed
  <1>6. DmDevices'
    <2>1. Distinct'
      BY <1>1 DEF IInv, DmDevices, Distinct
    <2>2. ASSUME NEW x \in dms PROVE Stage(x)' /\ Recorded(x)'
      <3>1. x \in DmDevice /\ x.by \in Procs /\ (NameUsed(x.name) => NameUsed(x.name)')
        BY <1>1 DEF IInv, Typed, DmDevice, NameUsed
      <3> QED BY <1>1, <1>2, <3>1, ApartStage, ApartRecorded DEF IInv, DmDevices
    <2>3. \A o \in Procs : Device(o)'
      BY <1>1, <1>2, ApartDevice DEF IInv, DmDevices, Processes
    <2> QED BY <1>1, <2>1, <2>2, <2>3 DEF DmDevices
  <1>7. Mounts' /\ SignedOnly'
    BY <1>1 DEF IInv, Mounts, Mounted, SignedOnly
  <1> QED BY <1>3, <1>4, <1>5, <1>6, <1>7 DEF IInv

----------------------------------------------------------------------------
(* The invariant holds in the beginning, when nothing is held or attached.   *)
LEMMA InitHolds == Init => IInv
  <1> SUFFICES ASSUME Init PROVE IInv
    OBVIOUS
  <1> USE DEF Init
  <1>1. /\ \A p \in Procs : kind[p] \in AllKinds /\ signature[p] \in AllSignatures
        /\ kind \in [Procs -> AllKinds] /\ signature \in [Procs -> AllSignatures]
    <2>1. bounds.kinds \cup {"plain"} \subseteq AllKinds
          /\ bounds.signatures \cup {"none"} \subseteq AllSignatures
      BY ImageMountAssumption DEF AllKinds, AllSignatures
    <2> QED BY <2>1
  <1>2. \A p \in Procs : held[p] = <<>> /\ pc[p] \in {"absent", "open"} /\ attempt[p] = 0
                         /\ then[p] = "detach" /\ dm[p] = NoName
    OBVIOUS
  <1>3. Typed
    <2>1. held \in [Procs -> Seq(Devices)] /\ dm \in [Procs -> Names \cup {NoName}]
      OBVIOUS
    <2>2. pc \in [Procs -> Places] /\ cand \in [Procs -> Devices]
      BY DEF Places, Devices
    <2>3. /\ attempt \in [Procs -> 0..Attempts] /\ tries \in [Procs -> 0..BusyRetries]
          /\ then \in [Procs -> {"fallback", "cleanup", "detach"}] /\ trusted \in [Procs -> BOOLEAN]
      BY ImageMountAssumption
    <2>4. file \in [Loops -> {NoFile, Other} \cup Files] /\ diskseq \in [Loops -> 0..lastseq]
          /\ lastseq \in Nat
      OBVIOUS
    <2> QED BY <1>1, <2>1, <2>2, <2>3, <2>4 DEF Typed, TypeOK
  <1>4. Processes
    <2> SUFFICES ASSUME NEW p \in Procs PROVE Holds(p) /\ Checks(p)
      BY DEF Processes
    <2>1. held[p] \in Seq(IF kind[p] = "device" THEN {Disk} ELSE Loops)
      BY <1>2
    <2>2. Len(held[p]) <= IF kind[p] = "device" THEN 1 ELSE Len(FilesOf(p))
      BY <1>1, <1>2, FilesFacts
    <2>3. attempt[p] < Attempts /\ ctl # p
      BY <1>2, ImageMountAssumption
    <2>4. Holds(p)
      BY <1>2, <2>1, <2>2, <2>3 DEF Holds
    <2> QED BY <1>2, <2>4 DEF Checks
  <1>5. LoopDevices
    BY <1>2, ImageMountAssumption DEF LoopDevices, Shows, Needed
  <1>6. DmDevices /\ Mounts /\ SignedOnly
    BY <1>2 DEF DmDevices, Distinct, Device, Mounts, SignedOnly
  <1> QED BY <1>3, <1>4, <1>5, <1>6 DEF IInv

(* Every step keeps the invariant.                                           *)
LEMMA NextKeeps == IInv /\ [Next]_vars => IInv'
  <1> SUFFICES ASSUME IInv, [Next]_vars PROVE IInv'
    OBVIOUS
  <1>1. ASSUME NEW p \in Procs, Proceeds(p) PROVE IInv'
    <2>1. CASE Open(p) \/ GetFree(p) \/ Configure(p) \/ Taken(p) \/ Hiccup(p) \/ AttachFails(p)
      <3>1. Taken(p) \/ Hiccup(p) => pc[p] = "configure" /\ Again(p)
        BY DEF Taken, Hiccup
      <3> QED BY <2>1, <3>1, OpenStep, GetFreeStep, ConfigureStep, AgainStep,
             AttachFailsStep
    <2>2. CASE Create(p) \/ CreateFails(p) \/ Load(p) \/ KernelRefuses(p) \/ Fallback(p)
               \/ Resume(p) \/ ActivationFails(p)
      BY <2>2, CreateStep, CreateFailsStep, LoadStep, KernelRefusesStep, FallbackStep,
         ResumeStep,
         ActivationFailsStep
    <2>3. CASE TryRemove(p) \/ Mount(p) \/ MountFails(p) \/ Relinquish(p) \/ Close(p)
               \/ CleanupUnmount(p) \/ CleanupDevices(p)
      BY <2>3, TryRemoveStep, MountStep, MountFailsStep, RelinquishStep, CloseStep,
         CleanupUnmountStep, CleanupDevicesStep
    <2> QED BY <1>1, <2>1, <2>2, <2>3 DEF Proceeds
  <1>2. ASSUME NEW p \in Procs, Crash(p) \/ Unmounted(p) PROVE IInv'
    BY <1>2, CrashStep, UnmountedStep
  <1>3. ASSUME NEW d \in Loops, OtherBinds(d) \/ OtherReleases(d) PROVE IInv'
    BY <1>3, OtherBindsStep, OtherReleasesStep
  <1>4. ASSUME NEW n \in busy, OtherCloses(n) PROVE IInv'
    BY <1>4, OtherClosesStep
  <1>5. CASE OtherOpens
    BY <1>5, OtherOpensStep
  <1>6. CASE UNCHANGED vars
    <2> USE <1>6 DEF vars, image, loopdevs, procs
    <2>1. \A o \in Procs : Apart(o)
      BY DEF Apart, VerityDMName
    <2>2. Typed'
      BY DEF IInv, Typed, TypeOK
    <2>3. Processes'
      BY <2>1, ApartProcess DEF IInv, Processes
    <2>4. LoopDevices'
      BY <2>1, ApartShows DEF IInv, LoopDevices, Needed, LoopUsed
    <2>5. DmDevices'
      BY <2>1, ApartStage, ApartRecorded, ApartDevice DEF IInv, DmDevices, Distinct,
         Processes,
         Typed, DmDevice, NameUsed
    <2>6. Mounts' /\ SignedOnly'
      BY DEF IInv, Mounts, Mounted, SignedOnly
    <2> QED BY <2>2, <2>3, <2>4, <2>5, <2>6 DEF IInv
  <1> QED BY <1>1, <1>2, <1>3, <1>4, <1>5, <1>6 DEF Next

(* So it holds throughout.                                                   *)
LEMMA InvariantHolds == Spec => []IInv
  BY InitHolds, NextKeeps, PTL DEF Spec

----------------------------------------------------------------------------
(* The variables have the types of the fields of mounter, loopDevice and     *)
(* verityDevice (internal/image/image.go:87-103).                            *)
THEOREM Types == Spec => []TypeOK
  <1>1. IInv => TypeOK
    BY DEF IInv, Typed
  <1> QED BY <1>1, InvariantHolds, PTL

(* Where the policy asks for a signature, no dm device is brought to life    *)
(* unless the kernel checked one, or the certificates in user space did      *)
(* after the kernel had refused it (image.go:405-434), over both attempts of *)
(* activateVerity, whatever fails and whoever is killed.                     *)
THEOREM OnlySigned == Spec => []SignedOnly
  <1>1. IInv => SignedOnly
    BY DEF IInv
  <1> QED BY <1>1, InvariantHolds, PTL

(* A mounted file system keeps showing the files of its own image: no loop   *)
(* device and no dm device is taken from under it and given to another       *)
(* (verity.go:360-365, loop.go:254-275).                                     *)
THEOREM OwnImages == Spec => []MountsShowOwnImage
  <1>1. ASSUME IInv PROVE MountsShowOwnImage
    <2> SUFFICES ASSUME NEW m \in mounts
                 PROVE  /\ \A d \in Loops : m.dev = d => file[d] = <<m.by, "data">>
                        /\ m.dev \notin Devices =>
                             \E x \in dms : /\ x.name = m.dev /\ x.by = m.by /\ x.live
                                           /\ \A d \in x.on : OwnFile(d, m.by)
      BY DEF MountsShowOwnImage, OwnFile
    <2>1. Mounted(m)
      BY <1>1 DEF IInv, Mounts
    <2>2. \A x \in dms : \A d \in x.on : OwnFile(d, x.by)
      BY <1>1 DEF IInv, DmDevices, Recorded
    <2> QED BY <2>1, <2>2 DEF Mounted
  <1> QED BY <1>1, InvariantHolds, PTL

(* The name of a dm device is free when it is first asked for, whatever      *)
(* devices killed processes left behind (verity.go:154-156); images on a     *)
(* block device, which have no disk sequence number, are left out.           *)
THEOREM FreshNames == Spec => []NamesNeverCollide
  <1>1. ASSUME IInv PROVE NamesNeverCollide
    <2> SUFFICES ASSUME NEW p \in Procs, pc[p] = "create", then[p] # "fallback", kind[p] # "device",
                        NEW x \in dms, x.name = VerityDMName(p)
                 PROVE  FALSE
      BY DEF NamesNeverCollide, Named
    <2>1. held[p] # <<>> /\ held[p] \in Seq(Loops)
      BY <1>1 DEF IInv, Processes, Holds
    <2>2. held[p][1] \in Loops /\ 1 \in DOMAIN held[p]
      BY <2>1, EmptySeq
    <2>3. x.name = <<held[p][1], diskseq[held[p][1]]>>
      BY <1>1, <2>1, <2>2, NameFacts DEF IInv, Typed
    <2>4. file[held[p][1]] \in Files /\ OwnFile(held[p][1], p)
      BY <1>1, <2>2, HeldFile
    <2>5. OwnFile(held[p][1], x.by)
      BY <1>1, <2>2, <2>3, <2>4 DEF IInv, DmDevices, Recorded
    <2>6. x.by = p
      BY <2>4, <2>5 DEF OwnFile
    <2> QED BY <1>1, <2>6 DEF IInv, DmDevices, Stage
  <1> QED BY <1>1, InvariantHolds, PTL

(* A device marked for removal and not under a mount of its process is one   *)
(* some other program has open.                                              *)
LEMMA LeftIsBusy ==
  ASSUME IInv, NEW x \in dms, x.deferred, MountsOf(x.by) = {}
  PROVE  x.name \in busy
  <1>1. NameUsed(x.name) /\ x \in DmDevice
    BY DEF IInv, DmDevices, Stage, Typed
  <1>2. ASSUME NEW m \in mounts, m.dev = x.name PROVE FALSE
    <2>1. m.dev \notin Devices
      BY <1>1, <1>2, ImageMountAssumption DEF DmDevice
    <2>2. PICK y \in dms : y.name = x.name /\ y.by = m.by
      BY <1>2, <2>1 DEF IInv, Mounts, Mounted
    <2>3. y = x
      BY <2>2 DEF IInv, DmDevices, Distinct
    <2> QED BY <2>2, <2>3 DEF MountsOf
  <1> QED BY <1>1, <1>2 DEF NameUsed

(* Nothing is attached for a process that holds nothing, but under its dm    *)
(* device or its mounts.                                                     *)
LEMMA LeftIsUnderDevice ==
  ASSUME IInv, NEW p \in Procs, held[p] = <<>>, MountsOf(p) = {},
         NEW d \in Loops, OwnFile(d, p)
  PROVE  \E x \in dms : x.by = p /\ d \in x.on
  <1>1. LoopUsed(d)
    BY DEF IInv, LoopDevices, Needed, OwnFile, Files
  <1>2. ASSUME NEW o \in Procs, NEW i \in DOMAIN held[o], held[o][i] = d PROVE FALSE
    <2>1. OwnFile(d, o)
      BY <1>2, HeldFile
    <2>2. o = p
      BY <2>1 DEF OwnFile
    <2> QED BY <1>2, <2>2
  <1>3. ASSUME NEW m \in mounts, m.dev = d PROVE FALSE
    <2>1. file[d] = <<m.by, "data">>
      BY <1>3 DEF IInv, Mounts, Mounted
    <2>2. m.by = p
      BY <2>1 DEF OwnFile
    <2> QED BY <2>2 DEF MountsOf
  <1>4. ASSUME NEW x \in dms, d \in x.on PROVE x.by = p
    <2>1. OwnFile(d, x.by)
      BY <1>4 DEF IInv, DmDevices, Recorded
    <2> QED BY <2>1 DEF OwnFile
  <1> QED BY <1>1, <1>2, <1>3, <1>4 DEF LoopUsed

(* Of an operation that has ended: after an error nothing of it stays        *)
(* mounted or attached, and after success unmounting releases everything     *)
(* (image.go:66-68), but for a dm device another program has open, which     *)
(* then goes when that closes it.  A process that was killed is not covered. *)
THEOREM EverythingReleased == Spec => []ReleasesEverything
  <1>1. ASSUME IInv PROVE ReleasesEverything
    <2>1. FailureLeavesNothing
      <3> SUFFICES ASSUME NEW p \in Procs, pc[p] = "failed"
                   PROVE  /\ MountsOf(p) = {} /\ held[p] = <<>> /\ ctl # p
                          /\ \A x \in dms : x.by = p => x.deferred /\ x.name \in busy
                          /\ \A d \in Loops : OwnFile(d, p) => \E x \in dms : x.by = p /\ d \in x.on
        BY DEF FailureLeavesNothing, OwnFile
      <3>1. held[p] = <<>> /\ ctl # p
        BY <1>1 DEF IInv, Processes, Holds
      <3>2. MountsOf(p) = {}
        BY <1>1 DEF IInv, Mounts, Mounted, MountsOf
      <3>3. \A x \in dms : x.by = p => x.deferred
        BY <1>1 DEF IInv, DmDevices, Stage
      <3> QED BY <1>1, <3>1, <3>2, <3>3, LeftIsBusy, LeftIsUnderDevice
    <2>2. SuccessHandsOver
      <3> SUFFICES ASSUME NEW p \in Procs, pc[p] = "done", MountsOf(p) = {}
                   PROVE  /\ \A x \in dms : x.by = p => x.name \in busy /\ x.deferred
                          /\ (\A x \in dms : x.by # p) => \A d \in Loops : ~OwnFile(d, p)
        BY DEF SuccessHandsOver, OwnFile
      <3>1. held[p] = <<>>
        BY <1>1 DEF IInv, Processes, Holds
      <3>2. \A x \in dms : x.by = p => x.deferred
        BY <1>1 DEF IInv, DmDevices, Stage
      <3> QED BY <1>1, <3>1, <3>2, LeftIsBusy, LeftIsUnderDevice
    <2> QED BY <2>1, <2>2 DEF ReleasesEverything
  <1> QED BY <1>1, InvariantHolds, PTL
=============================================================================
