----------------------------- MODULE MCDiscover -----------------------------
(* Small trees for Discover: two search directories of the class sysext with *)
(* entries of every kind, most of them called a, and versions of a.          *)
EXTENDS Discover, SequencesExt

E(d, n, m) == [dir |-> d, name |-> n, mode |-> m]
V(n, x, m, f) == [dir |-> 1, vdir |-> <<"a", ".raw", ".v">>, base |-> <<"a">>,
                  e |-> x, suffix |-> n, mode |-> m, file |-> f]

VDir == E(1, <<"a", ".raw", ".v">>, "dir")
Later == E(2, <<"a", ".raw">>, "reg")

MCEntries ==
  {E(1, <<"a">>, "dir"), VDir, E(1, <<"a", ".mstack">>, "dir"),
   E(1, <<"a", ".confext">>, "dir"), E(1, <<"b", "1">>, "blk"), E(1, <<"a", ".raw">>, "dangling"),
   Later, E(2, <<"a", ".sysext", ".raw">>, "reg"), E(2, <<"b", "0", "1">>, "dir"),
   E(2, <<".sysupdate.", "a">>, "dir")}

(* Counters: none left; 8 in octal; no octal number; too large.              *)
One == V(<<".raw">>, <<"1">>, "reg", 2)
Eight == V(<<".raw">>, <<"1", "_", "native", "+", "0", "1", "0">>, "reg", 5)
MCVersions ==
  {One, Eight,
   V(<<".raw">>, <<"1", "+", "9", "9">>, "reg", 1),
   V(<<".raw">>, <<"1", "+", "3", "-", "1">>, "blk", 3),
   V(<<".sysext", ".raw">>, <<"3">>, "reg", 4),
   V(<<".raw">>, <<"2", "+", "0">>, "reg", 6),
   V(<<".raw">>, <<"2", "+", "0", "8">>, "reg", 7),
   V(<<".raw">>, <<"3", "_", "foreign">>, "reg", 8),
   V(<<".raw">>, <<"4">>, "dangling", 9),
   V(<<".raw">>, <<"8">>, "dir", 10)}

(* Names that are compared, among them those of version.go:19-20.            *)
Documented ==
  {<<"1", "2", "2", ".", "1">>, <<"1", "2", "3", "~", "r", "c", "1", "-", "1">>,
   <<"1", "2", "3">>, <<"1", "2", "3", "-", "a">>, <<"1", "2", "3", "-", "a", ".", "1">>,
   <<"1", "2", "3", "-", "1">>, <<"1", "2", "3", "-", "1", ".", "1">>,
   <<"1", "2", "3", "^", "p", "o", "s", "t", "1">>, <<"1", "2", "3", ".", "a", "-", "1">>,
   <<"1", "2", "3", ".", "1", "-", "1">>, <<"1", "2", "3", "a", "-", "1">>,
   <<"1", "2", "4", "-", "1">>}
MCStrings ==
  (BoundedSeq({"~", "-", "^", ".", "0", "1", "a"}, 2)
    \cup [1..3 -> {"0", "1"}] \cup Documented)
    \ {<<>>, <<".">>, <<".", ".">>}

MCText(n) ==
  LET Spelled(part) ==
        CASE part = ".confext" -> <<".", "c", "o", "n", "f", "e", "x", "t">>
          [] part = ".sysext" -> <<".", "s", "y", "s", "e", "x", "t">>
          [] part = ".sysupdate." -> <<".", "s", "y", "s", "u", "p", "d", "a", "t", "e", ".">>
          [] part = ".mstack" -> <<".", "m", "s", "t", "a", "c", "k">>
          [] part = ".raw" -> <<".", "r", "a", "w">>
          [] part = ".v" -> <<".", "v">>
          [] OTHER -> <<part>>
  IN FlattenSeq([i \in DOMAIN n |-> Spelled(n[i])])

(* Trees of any of the entries, and of any versions; pairs of names; and a   *)
(* few trees to which something happens twice during the scan.               *)
MCTrees ==
  {[present |-> S \cup D, changes |-> 0] :
     S \in SUBSET (MCEntries \ {VDir}), D \in {{}, {VDir, One}}}
    \cup {[present |-> {VDir} \cup S \cup T, changes |-> 0] :
            S \in SUBSET MCVersions, T \in {{}, {Later}}}
    \cup {[present |-> {E(1, m, "blk"), E(2, n, "blk")}, changes |-> 0] : m, n \in MCStrings}
    \cup {[present |-> {E(1, <<"a", ".mstack">>, "blk")}, changes |-> 0]}
    \cup {[present |-> S, changes |-> 2] :
            S \in {{VDir, One, Eight}, {VDir, One, Later}, {VDir, Eight, E(1, <<"a">>, "dir"), Later}}}

MCChanging == MCEntries \cup MCVersions
=============================================================================
