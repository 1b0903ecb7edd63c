------------------------------ MODULE Discover ------------------------------
(***************************************************************************)
(* Discovery of the images of a class, internal/discover/discover.go: the  *)
(* search directories are read one after the other while other programs,   *)
(* such as systemd-sysupdate, add and remove images and versions of them.  *)
(***************************************************************************)
EXTENDS VPick

CONSTANTS
  Dirs,          \* number of search directories, the first with priority
  ClassSuffix,   \* ".sysext" or ".confext"
  Versions,      \* entries of versioned directories, which are in the
                 \* search directory dir and called vdir: [dir, vdir, base,
                 \* e, suffix, mode, file] for <base>_<e><suffix>
  AtFirst,       \* what there may be when the scan begins, [present, changes]:
                 \* Versions, entries of search directories [dir, name, mode],
                 \* and (a bound) how many of them are added or removed
  Changing,      \* those that other programs may add or remove
  None,          \* no entry
  Text(_)        \* an image name, spelled

VARIABLES
  present,       \* the entries and versions there are
  changes,       \* how many may still be added or removed
  touched,       \* those added or removed during the scan
  pc, k,         \* k: number of the search directory
  names,         \* names read from it that are still to be looked at
  entry,         \* the versioned directory being looked at
  vnames, best,  \* its entries that are still to be looked at, and the best
  images         \* the images found

vars == <<present, changes, touched, pc, k, names, entry, vnames, best, images>>

Init ==
  /\ \E t \in AtFirst : present = t.present /\ changes = t.changes
  /\ touched = {}
  /\ pc = "directory" /\ k = 1 /\ names = <<>>
  /\ entry = None /\ vnames = {} /\ best = None /\ images = <<>>

----------------------------------------------------------------------------
(* Names are sequences of parts, the suffixes each being one.                *)
EndsIn(s, part) == s # <<>> /\ s[Len(s)] = part
Cut(s, part) == IF EndsIn(s, part) THEN SubSeq(s, 1, Len(s) - 1) ELSE s
Tail2(s, t) == SubSeq(s, Len(t) + 1, Len(s))

ImageNameIsValid(s) == s # <<>> /\ s[1] # "#"

(* extractImageBasename: a suffix of the format, if one is required, and     *)
(* then that of the class, if it is there, are removed.                      *)
ExtractImageBasename(fname, class, formats) ==
  LET format == IF \E f \in formats : EndsIn(fname, f) THEN fname[Len(fname)] ELSE ""
      stem == Cut(fname, format)
      name == IF class = "" THEN stem ELSE Cut(stem, class)
  IN [ok |-> (formats = {} \/ format \in formats) /\ ImageNameIsValid(name),
      name |-> name, suffix |-> Tail2(fname, name)]

(* The name of the image an entry would be, by its mode.                     *)
Basename(x) ==
  CASE x.mode = "reg" -> ExtractImageBasename(x.name, ClassSuffix, {".raw"})
    [] x.mode = "dir" /\ EndsIn(x.name, ".v") ->
         ExtractImageBasename(Cut(x.name, ".v"), ClassSuffix, {".raw", ".mstack", ""})
    [] x.mode = "dir" /\ ~EndsIn(x.name, ".v") ->
         ExtractImageBasename(x.name, ClassSuffix, {".mstack", ""})
    [] x.mode = "blk" -> ExtractImageBasename(x.name, "", {})
    [] OTHER -> [ok |-> FALSE, name |-> <<>>, suffix |-> <<>>]

Versioned(x) == x.mode = "dir" /\ EndsIn(x.name, ".v")

(* makeImage: directories of the format mstack are refused.                  *)
MakeImage(name, path, mode) ==
  [ok |-> mode \in {"reg", "blk"} \/ (mode = "dir" /\ ~EndsIn(path, ".mstack")),
   name |-> name]

(* The versions and entries there may be in a scan that begins with t.       *)
AllOf(t) == t.present \cup IF t.changes > 0 THEN Changing ELSE {}
EntriesOf(t) == AllOf(t) \ Versions

(* A directory has one entry of a name, and names have a spelling.           *)
ASSUME DiscoverAssumption ==
  /\ Dirs \in Nat /\ None \notin Versions
  /\ \A v \in Versions : v.e \in Seq(STRING) /\ v.file \in Int
  /\ \A t \in AtFirst :
       /\ IsFiniteSet(AllOf(t)) /\ t.changes \in Nat
       /\ \A x \in EntriesOf(t) :
            /\ x.dir \in 1..Dirs /\ x.name \in Seq(STRING)
            /\ Text(x.name) \in Seq(DOMAIN Code)
            /\ Text(Basename(x).name) \in Seq(STRING)
       /\ \A x, y \in EntriesOf(t) :
            /\ Text(x.name) = Text(y.name) => x.name = y.name
            /\ x.dir = y.dir /\ x.name = y.name => x = y

Wanted(suffix) == IF EndsIn(suffix, ".raw") THEN {"reg", "blk"} ELSE {"dir"}

----------------------------------------------------------------------------
Scan(place) == pc' = place /\ UNCHANGED <<present, changes, touched>>

Listed == present \ Versions

(* The order of file names is that of their bytes.                           *)
Precedes(m, n) == Lexicographic(Codes(Text(m)), Codes(Text(n))) < 0

(* readDirNames: the names, sorted.                                          *)
ReadDirNames(d) ==
  LET there == {x.name : x \in {x \in Listed : x.dir = d}}
  IN [i \in 1..Cardinality(there) |->
        CHOOSE n \in there : Cardinality({m \in there : Precedes(m, n)}) = i - 1]

OpenDirectory ==
  /\ pc = "directory" /\ k <= Dirs
  /\ names' = ReadDirNames(k)
  /\ Scan("entries") /\ UNCHANGED <<k, entry, vnames, best, images>>

NextDirectory ==
  /\ pc = "entries" /\ names = <<>>
  /\ k' = k + 1
  /\ Scan("directory") /\ UNCHANGED <<names, entry, vnames, best, images>>

Seen(name) == \E i \in DOMAIN images : images[i].name = name

(* The entry of the next name, if it is still there and is not temporary.    *)
Resolved == {x \in Listed : x.dir = k /\ x.name = Head(names)}

Skipped(x) == x.name[1] = ".sysupdate." \/ ~Basename(x).ok \/ x.mode = "dangling"

(* Mutant of Passes: an entry that is gone ends the directory. *)
PassesAll ==
  /\ pc = "entries" /\ names # <<>>
  /\ \A x \in Resolved : Skipped(x)
  /\ names' = IF Resolved = {} THEN <<>> ELSE Tail(names)
  /\ Scan("entries") /\ UNCHANGED <<k, entry, vnames, best, images>>

Passes ==
  /\ pc = "entries" /\ names # <<>>
  /\ \A x \in Resolved : Skipped(x)
  /\ names' = Tail(names)
  /\ Scan("entries") /\ UNCHANGED <<k, entry, vnames, best, images>>

(* Mutant of Found: a later image of a name replaces the first. *)
FoundLast(image, path) ==
  images' = IF ~image.ok THEN images
            ELSE Append(SelectSeq(images, LAMBDA i : i.name # image.name),
                        [name |-> image.name, path |-> path])

Found(image, path) ==
  images' = IF image.ok /\ ~Seen(image.name)
            THEN Append(images, [name |-> image.name, path |-> path]) ELSE images

Takes ==
  /\ pc = "entries" /\ names # <<>>
  /\ \E x \in Resolved : /\ ~Skipped(x) /\ ~Versioned(x)
                         /\ Found(MakeImage(Basename(x).name, x.name, x.mode), x)
  /\ names' = Tail(names)
  /\ Scan("entries") /\ UNCHANGED <<k, entry, vnames, best>>

(* pickVersion: the entries that are called like the directory.              *)
Of(x) == {v \in Versions : v.dir = x.dir /\ v.vdir = x.name}

Looks ==
  /\ pc = "entries" /\ names # <<>>
  /\ \E x \in Resolved : /\ ~Skipped(x) /\ Versioned(x)
                         /\ entry' = x /\ vnames' = Of(x) \cap present
  /\ best' = None
  /\ Scan("versions") /\ UNCHANGED <<k, names, images>>

Matches(v, x) ==
  v.base = Basename(x).name /\ v.suffix = Basename(x).suffix /\ Eligible(v.e)

BestOf(v, x) == IF best = None THEN TRUE ELSE Better(Parse(v.e), v.file, Parse(best.e), best.file)

Leave == names' = Tail(names) /\ entry' = None /\ vnames' = {} /\ best' = None

(* Versions are read in the order of their names.                            *)
First(v) == \A w \in vnames : v.file <= w.file

Resolves(v) == {v, entry} \subseteq present /\ v.mode # "dangling"

Version(v) ==
  /\ pc = "versions" /\ v \in vnames /\ First(v)
  /\ ~Matches(v, entry) \/ Resolves(v)
  /\ vnames' = vnames \ {v}
  /\ best' = IF Matches(v, entry) /\ v.mode \in Wanted(Basename(entry).suffix) /\ BestOf(v, entry)
             THEN v ELSE best
  /\ Scan("versions") /\ UNCHANGED <<k, names, entry, images>>

(* An entry that does not resolve: the directory is given up.                *)
VersionGone(v) ==
  /\ pc = "versions" /\ v \in vnames /\ First(v)
  /\ Matches(v, entry) /\ ~Resolves(v)
  /\ Leave
  /\ Scan("entries") /\ UNCHANGED <<k, images>>

Picked ==
  /\ pc = "versions" /\ vnames = {}
  /\ IF best = None THEN UNCHANGED images
     ELSE Found(MakeImage(Basename(entry).name, best.suffix, best.mode), best)
  /\ Leave
  /\ Scan("entries") /\ UNCHANGED k

(* Sort: stable, by name.                                                    *)
Sorted(s) ==
  LET all == {s[i].name : i \in DOMAIN s}
      order == [mn \in all \X all |-> CompareVersions(Text(mn[1]), Text(mn[2]))]
      place(i) == Cardinality({j \in DOMAIN s :
                     \/ order[<<s[j].name, s[i].name>>] < 0
                     \/ order[<<s[j].name, s[i].name>>] = 0 /\ j <= i})
  IN [p \in DOMAIN s |-> s[CHOOSE i \in DOMAIN s : place(i) = p]]

Return ==
  /\ pc = "directory" /\ k > Dirs
  /\ images' = Sorted(images)
  /\ Scan("done") /\ UNCHANGED <<k, names, entry, vnames, best>>

(* Any other error of resolving or reading ends the scan.                    *)
ScanFails ==
  /\ pc \in {"directory", "entries"} /\ k <= Dirs
  /\ images' = <<>> /\ names' = <<>>
  /\ Scan("failed") /\ UNCHANGED <<k, entry, vnames, best>>

(* Other programs add and remove entries and versions.                       *)
Change ==
  /\ pc \notin {"done", "failed"} /\ changes > 0 /\ changes' = changes - 1
  /\ \E x \in Changing :
       /\ touched' = touched \cup {x}
       /\ present' = IF x \in present THEN present \ {x} ELSE present \cup {x}
  /\ UNCHANGED <<pc, k, names, entry, vnames, best, images>>

Next ==
  \/ OpenDirectory \/ NextDirectory \/ Passes \/ Takes \/ Looks \/ Picked \/ Return \/ ScanFails
  \/ \E v \in vnames : Version(v) \/ VersionGone(v)
  \/ Change

Spec == Init /\ [][Next]_vars

(* What SPEC.md:32-60 says each entry is, if nothing changes.                *)
Usable(x) == {v \in Of(x) \cap present : Matches(v, x) /\ v.mode \in Wanted(Basename(x).suffix)}
Broken(x) == \E v \in Of(x) \cap present : Matches(v, x) /\ v.mode = "dangling"

IsImage(x) ==
  /\ ~Skipped(x) /\ x.mode \in {"reg", "blk", "dir"}
  /\ x.mode = "dir" => ~EndsIn(x.name, ".mstack")
  /\ Versioned(x) => /\ Usable(x) # {} /\ ~Broken(x)
                     /\ ~EndsIn(Cut(x.name, ".v"), ".mstack")

Before(x, y) == x.dir < y.dir \/ (x.dir = y.dir /\ Precedes(x.name, y.name))

----------------------------------------------------------------------------
(* The entry an image comes from.                                            *)
Source(i) == {x \in Listed : images[i].path \in IF Versioned(x) THEN Of(x) ELSE {x}}

(* Of the entries of a name the first one is found, by search directory and  *)
(* then by file name, whatever it is ("shadows all later ones", SPEC.md:52), *)
(* and nothing else (discover.go:168-227).                                   *)
FirstIsFound ==
  pc = "done" /\ touched = {} =>
    /\ \A i \in DOMAIN images : \E x \in Source(i) : IsImage(x)
    /\ \A i, j \in DOMAIN images : i # j => images[i].name # images[j].name
    /\ \A x \in Listed : IsImage(x) =>
         \E i \in DOMAIN images : /\ images[i].name = Basename(x).name
                                 /\ \E y \in Source(i) : y = x \/ Before(y, x)

(* The images come in the order of the keys of their names, and those whose  *)
(* names say the same version stay in the order of the search directories:   *)
(* the order of the layers is the same every time (discover.go:355-361), so  *)
(* comparing two names in parallel has to be a total preorder.               *)
ImagesSorted ==
  pc = "done" => \A i, j \in DOMAIN images : i < j =>
    \E x \in {Key(Text(images[i].name))}, y \in {Key(Text(images[j].name))} :
      \/ Lexicographic(x, y) < 0
      \/ x = y /\ images[i].path.dir <= images[j].path.dir

(* The version picked has tries left if any usable one has, and is the       *)
(* newest of those (SPEC.md:47-48), although counters come in octal and with *)
(* bounds, and versions in any order.                                        *)
NewestIsPicked ==
  pc = "done" /\ touched = {} =>
    \A i \in DOMAIN images : images[i].path \in Versions =>
      \A x \in Source(i) : \A w \in Usable(x) :
        LET picked == Parse(images[i].path.e)  other == Parse(w.e)
        IN /\ other.left > 0 => picked.left > 0
           /\ (other.left > 0) = (picked.left > 0) =>
                CompareVersions(other.version, picked.version) <= 0

(* An image that is there all through the scan is found, or another one of   *)
(* its name is, whatever comes and goes beside it.                           *)
Untouched(x) == x \notin touched /\ (Versioned(x) => Of(x) \cap touched = {})

StableIsFound ==
  pc = "done" => \A x \in Listed : Untouched(x) /\ IsImage(x) => Seen(Basename(x).name)
=============================================================================
