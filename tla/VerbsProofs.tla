---------------------------- MODULE VerbsProofs ----------------------------
(***************************************************************************)
(* Proofs of the safety properties of Verbs, for any number of processes,    *)
(* hierarchies, images and services, of errors, kills and installations, of  *)
(* service commands that fail, and any units in the fields of the images.    *)
(*                                                                           *)
(* LockInv says where the engine is, by the place of the process that        *)
(* holds the lock.  WholeInv says when hierarchies may differ while          *)
(* nothing went wrong, CurrentInv when a refresh has merged what is          *)
(* installed, and ServicesInv which services are stopped or restarted at     *)
(* each place; the last is about verbs that never overlap, as the two        *)
(* properties of the services are.  That every listed unit gets its turn is  *)
(* a fact about the sorted lists (InOrderIs), proved by induction on the     *)
(* least number.                                                             *)
(***************************************************************************)
EXTENDS Verbs, SequenceTheorems, WellFoundedInduction, TLAPS

Places ==
  {"idle", "check", "collect", "prestop", "probe", "wait", "old", "ready",
   "stop", "new", "undo", "after", "apply"}

(* The places where a process holds the lock.                                *)
Inside == {"old", "ready", "stop", "new", "undo"}

(* What a hierarchy shows: nothing, or a merge of some images.               *)
Some(images) == [names |-> images, mutable |-> FALSE, merged |-> TRUE]
Shown == {E!Bare} \cup {Some(images) : images \in (SUBSET Images) \ {{}}}

TypeInv ==
  /\ bounds \in Bounds /\ disk \subseteq Images
  /\ installs \in Nat /\ faults \in Nat /\ kills \in Nat
  /\ running \in [Services -> SUBSET (Images \cup {Host})]
  /\ refusals \in Nat /\ refused \subseteq Services
  /\ pc \in [Procs -> Places] /\ verb \in [Procs -> VerbNames \cup {"none"}]
  /\ snap \in [Procs -> SUBSET Images] /\ todo \in [Procs -> Seq(UnitNames)]
  /\ DOMAIN acts = Procs /\ DOMAIN result = Procs
  /\ pend \in [Procs -> BOOLEAN] /\ since \in [Procs -> BOOLEAN]
  /\ current \in BOOLEAN /\ restarted \in BOOLEAN
  /\ holder \in Procs \cup {NoProc}
  /\ phase \in {"free", "old", "new", "done", "over"}
  /\ view \in [H -> Shown] /\ goal \in [H -> Shown]

(* What holds of the verb and the images of a process at each place.         *)
AskedAt(p) ==
  /\ pc[p] # "idle" => p \in bounds.procs /\ verb[p] \in VerbNames
  /\ pc[p] = "check" => verb[p] = "merge"
  /\ pc[p] \in {"collect", "prestop"} => verb[p] = "unmerge"
  /\ pc[p] = "old" => verb[p] # "unmerge"
  /\ pc[p] = "stop" => verb[p] = "refresh" /\ Found(p) = {}
  /\ pc[p] = "new" => verb[p] # "unmerge" /\ Found(p) # {}
  /\ since[p] => pc[p] # "idle" /\ verb[p] = "refresh" /\ snap[p] = disk

(* The engine is where the process that holds the lock is.                   *)
EngineAt(p) ==
  /\ pc[p] \in Inside <=> holder = p
  /\ holder = p => ask = [verb |-> verb[p], images |-> snap[p], mutable |-> FALSE]
  /\ pc[p] \in {"old", "ready", "stop"} => phase = "old"
  /\ pc[p] = "new" => phase = "new" /\ goal = [h \in H |-> Some(Found(p))]
  /\ pc[p] = "undo" =>
       /\ phase \in {"over", "done"}
       /\ phase = "over" /\ goal # E!AllBare => verb[p] # "unmerge" /\ Found(p) # {}

LockInv ==
  /\ phase = "free" <=> holder = NoProc
  /\ phase \in {"free", "old"} => goal = E!AllBare
  /\ \A h \in H : phase = "new" => view[h] \in {goal[h], E!Bare}
  /\ \A p \in Procs : AskedAt(p) /\ EngineAt(p)

Uniform == \A h, k \in H : view[h] = view[k]

Calm == faults = 0 /\ kills = 0

(* Without an error or a kill the hierarchies differ only in between.        *)
TheWhole ==
  /\ phase \in {"free", "done", "over"} => Uniform
  /\ phase = "over" => goal = E!AllBare

WholeAt(p) ==
  /\ pc[p] = "old" => Uniform
  /\ pc[p] = "ready" => Uniform \/ verb[p] = "unmerge" \/ Replaces(p)

WholeInv == Calm => TheWhole /\ \A p \in Procs : WholeAt(p)

(* Places where the hierarchies are changed, or about to be.                 *)
Working == {"old", "ready", "stop", "new"}

UpToDate == \A h \in H : view[h].names = disk \cap Fits

CurrentInv ==
  current /\ Calm => UpToDate /\ \A p \in Procs : pc[p] \notin Working

In(s) == {s[i] : i \in 1 .. Len(s)}

(* A service that is to be restarted runs from the scripts merged now, or    *)
(* did not start when it was told to.                                        *)
Fresh(u) ==
  Exists(u, Merged) => \/ running[ServiceOf[u]] = Providers(ServiceOf[u], Merged)
                       \/ ServiceOf[u] \in refused

(* A service is down, or did not stop when it was told to.                   *)
Stopped(u) == MustStop(u, running, Merged) => ServiceOf[u] \in refused

RestartsAt(p) ==
  /\ pc[p] \in {"undo", "after", "apply"} /\ result[p] = "nothing" => view = E!AllBare
  /\ pc[p] = "apply" =>
       /\ result[p] \in {"merged", "nothing"}
       /\ result[p] = "merged" => acts[p] = CollectActions(Merged)
       /\ \A u \in CollectActions(Merged).restart : u \in In(todo[p]) \/ Fresh(u)

StopsAt(p) ==
  /\ pc[p] \in {"prestop", "stop"} =>
       \A u \in Listed : u \in In(todo[p]) \/ Stopped(u)
  /\ pc[p] \in {"probe", "wait", "ready"} /\ verb[p] = "unmerge" =>
       \A u \in Listed : Stopped(u)

ServicesInv ==
  OneAtATime =>
    /\ \A p \in Procs : RestartsAt(p) /\ StopsAt(p)
    /\ restarted => \A p \in Procs : Idle(p)
    /\ restarted => \A u \in CollectActions(Merged).restart : Fresh(u)

IInv ==
  /\ TypeInv /\ LockInv /\ WholeInv /\ CurrentInv /\ ServicesInv

----------------------------------------------------------------------------
(* The lists of units.                                                       *)

(* Every set of numbers has a least one.                                     *)
LEMMA Least ==
  ASSUME NEW T, T \subseteq Nat, T # {}
  PROVE  \E n \in T : \A m \in T : n <= m
<1> DEFINE R == {ss \in Nat \X Nat : ss[1] < ss[2]}
<1>1. IsWellFoundedOn(R, Nat)
  BY NatLessThanWellFounded DEF OpToRel
<1>2. PICK n \in T : \A m \in T : ~(<<m, n>> \in R)
  <2> HIDE DEF R
  <2> QED BY <1>1, WFMin
<1>3. ASSUME NEW m \in T
      PROVE  n <= m
  <2>1. m \in Nat /\ n \in Nat
    OBVIOUS
  <2>2. <<m, n>> \in R <=> m < n
    <3>1. <<m, n>> \in Nat \X Nat
      BY <2>1
    <3> QED BY <3>1
  <2> HIDE DEF R
  <2>3. ~(m < n)
    BY <1>2, <2>2
  <2> QED BY <2>1, <2>3
<1> QED BY <1>3

(* The sorted list of the first n units, as a table.                         *)
Table(f, units, n) ==
  f = [k \in 0 .. n |->
         IF k = 0 THEN <<>>
         ELSE IF Units[k] \in units THEN Append(f[k - 1], Units[k])
         ELSE f[k - 1]]

(* There is one for any number of units.                                     *)
LEMMA TableExists ==
  ASSUME NEW units, NEW n \in Nat
  PROVE  \E f : Table(f, units, n)
<1> DEFINE T == {m \in Nat : ~\E f : Table(f, units, m)}
<1>1. SUFFICES ASSUME T # {} PROVE FALSE
  OBVIOUS
<1>2. PICK m \in T : \A l \in T : m <= l
  <2>1. T \subseteq Nat
    OBVIOUS
  <2> HIDE DEF T
  <2> QED BY <1>1, <2>1, Least
<1>3. m \in Nat /\ ~\E f : Table(f, units, m)
  OBVIOUS
<1>4. CASE m = 0
  <2> DEFINE g == [k \in 0 .. 0 |-> <<>>]
  <2>1. Table(g, units, 0)
    BY DEF Table
  <2> QED BY <1>3, <1>4, <2>1
<1>5. CASE m # 0
  <2>1. m - 1 \in Nat /\ m - 1 \notin T
    BY <1>2, <1>3, <1>5
  <2>2. PICK f : Table(f, units, m - 1)
    BY <2>1
  <2> DEFINE step == IF Units[m] \in units
                     THEN Append(f[m - 1], Units[m]) ELSE f[m - 1]
             g == [k \in 0 .. m |-> IF k = m THEN step ELSE f[k]]
  <2>3. ASSUME NEW k \in 0 .. m
        PROVE  g[k] = IF k = 0 THEN <<>>
                      ELSE IF Units[k] \in units THEN Append(g[k - 1], Units[k])
                      ELSE g[k - 1]
    <3>1. CASE k = m
      <4>1. m - 1 \in 0 .. m /\ m - 1 # m
        BY <1>3, <1>5
      <4>2. g[m - 1] = f[m - 1] /\ g[m] = step
        BY <1>3, <4>1
      <4> HIDE DEF g
      <4> QED BY <1>5, <3>1, <4>2
    <3>2. CASE k # m
      <4>1. k \in 0 .. m - 1 /\ (k # 0 => k - 1 \in 0 .. m /\ k - 1 # m)
        BY <1>3, <3>2
      <4>2. f[k] = IF k = 0 THEN <<>>
                   ELSE IF Units[k] \in units THEN Append(f[k - 1], Units[k])
                   ELSE f[k - 1]
        BY <2>2, <4>1, Zenon DEF Table
      <4>3. g[k] = f[k] /\ (k # 0 => g[k - 1] = f[k - 1])
        BY <3>2, <4>1
      <4> HIDE DEF g
      <4> QED BY <4>2, <4>3
    <3> QED BY <3>1, <3>2
  <2>4. g = [k \in 0 .. m |-> g[k]]
    OBVIOUS
  <2> HIDE DEF g
  <2>5. Table(g, units, m)
    BY <2>3, <2>4 DEF Table
  <2> QED BY <1>3, <2>5
<1> QED BY <1>4, <1>5

(* sortedKeys returns the units it is given, and only units there are.       *)
LEMMA SortedIs ==
  ASSUME NEW units
  PROVE  /\ Sorted(units) \in Seq(UnitNames)
         /\ units \cap UnitNames \subseteq In(Sorted(units))
<1> DEFINE N == Len(Units)
<1>1. /\ N \in Nat /\ Units \in Seq(UnitNames) /\ DOMAIN Units = 1 .. N
      /\ \A i \in 1 .. N : Units[i] \in UnitNames
  BY ServicesAssumption, LenProperties DEF UnitNames
<1>2. PICK f : Table(f, units, N) /\ Sorted(units) = f[N]
  <2> DEFINE keys[n \in 0 .. Len(Units)] ==
        IF n = 0 THEN <<>>
        ELSE IF Units[n] \in units THEN Append(keys[n - 1], Units[n])
        ELSE keys[n - 1]
  <2>1. keys = CHOOSE f : Table(f, units, N)
    BY DEF Table
  <2>2. Sorted(units) = keys[N]
    BY DEF Sorted
  <2> HIDE DEF keys
  <2>3. \E f : Table(f, units, N)
    BY <1>1, TableExists
  <2>4. Table(keys, units, N)
    BY <2>1, <2>3
  <2> QED BY <2>2, <2>4
<1> HIDE DEF N
<1> DEFINE P(n) == /\ f[n] \in Seq(UnitNames)
                   /\ \A i \in 1 .. n : Units[i] \in units => Units[i] \in In(f[n])
           T == {n \in 0 .. N : ~P(n)}
<1>3. T = {}
  <2>1. SUFFICES ASSUME T # {} PROVE FALSE
    OBVIOUS
  <2>2. PICK n \in T : \A m \in T : n <= m
    <3>1. T \subseteq Nat
      BY <1>1
    <3> HIDE DEF T
    <3> QED BY <2>1, <3>1, Least
  <2>3. n \in 0 .. N /\ ~P(n)
    OBVIOUS
  <2>4. CASE n = 0
    <3>1. f[0] = <<>>
      <4>1. 0 \in 0 .. N
        BY <1>1
      <4> QED BY <1>2, <4>1, Zenon DEF Table
    <3>2. P(0)
      BY <3>1
    <3> QED BY <2>3, <2>4, <3>2
  <2>5. CASE n # 0
    <3>1. n - 1 \in 0 .. N /\ n - 1 \notin T /\ n \in 1 .. N
      BY <1>1, <2>2, <2>3, <2>5
    <3>2. P(n - 1)
      BY <3>1
    <3>3. f[n] = IF Units[n] \in units THEN Append(f[n - 1], Units[n]) ELSE f[n - 1]
      BY <1>2, <2>3, <2>5, Zenon DEF Table
    <3>4. CASE Units[n] \in units
      <4> DEFINE s == f[n - 1]
                 l == Len(s)
      <4>1. s \in Seq(UnitNames) /\ Units[n] \in UnitNames
        BY <1>1, <3>1, <3>2
      <4> HIDE DEF s
      <4>2. /\ Append(s, Units[n]) \in Seq(UnitNames) /\ l \in Nat
            /\ Len(Append(s, Units[n])) = l + 1
            /\ Append(s, Units[n])[l + 1] = Units[n]
            /\ \A i \in 1 .. l : Append(s, Units[n])[i] = s[i]
        BY <4>1, AppendProperties
      <4> HIDE DEF l
      <4>3. In(s) \subseteq In(Append(s, Units[n])) /\ Units[n] \in In(Append(s, Units[n]))
        BY <4>2 DEF In, l
      <4>4. f[n] = Append(s, Units[n])
        BY <3>3, <3>4 DEF s
      <4>5. \A i \in 1 .. n - 1 : Units[i] \in units => Units[i] \in In(s)
        BY <3>2 DEF s
      <4>6. P(n)
        BY <3>1, <4>2, <4>3, <4>4, <4>5
      <4> QED BY <2>3, <4>6
    <3>5. CASE Units[n] \notin units
      <4>1. P(n)
        <5>1. f[n] = f[n - 1]
          BY <3>3, <3>5
        <5>2. \A i \in 1 .. n : i = n \/ i \in 1 .. n - 1
          BY <3>1
        <5> QED BY <3>2, <3>5, <5>1, <5>2
      <4> QED BY <2>3, <4>1
    <3> QED BY <3>4, <3>5
  <2> QED BY <2>4, <2>5
<1>4. P(N)
  BY <1>1, <1>3
<1> QED BY <1>1, <1>2, <1>4 DEF UnitNames

(* All units of both lists get their turn.                                   *)
LEMMA InOrderIs ==
  ASSUME NEW a
  PROVE  /\ InOrder(a) \in Seq(UnitNames)
         /\ (a.restart \cup a.reload) \cap UnitNames \subseteq In(InOrder(a))
<1> DEFINE s == Sorted(a.restart)
           t == Sorted(a.reload)
<1>1. /\ s \in Seq(UnitNames) /\ a.restart \cap UnitNames \subseteq In(s)
      /\ t \in Seq(UnitNames) /\ a.reload \cap UnitNames \subseteq In(t)
  BY SortedIs
<1>2. InOrder(a) = s \o t
  BY DEF InOrder
<1> HIDE DEF s, t
<1>3. /\ s \o t \in Seq(UnitNames) /\ Len(s) \in Nat /\ Len(t) \in Nat
      /\ Len(s \o t) = Len(s) + Len(t)
      /\ \A i \in 1 .. Len(s) + Len(t) :
           (s \o t)[i] = IF i <= Len(s) THEN s[i] ELSE t[i - Len(s)]
  BY <1>1, ConcatProperties
<1>4. In(s) \subseteq In(s \o t)
  <2> SUFFICES ASSUME NEW i \in 1 .. Len(s) PROVE s[i] \in In(s \o t)
    BY DEF In
  <2>1. i \in 1 .. Len(s) + Len(t) /\ i <= Len(s)
    BY <1>3
  <2> QED BY <1>3, <2>1 DEF In
<1>5. In(t) \subseteq In(s \o t)
  <2> SUFFICES ASSUME NEW i \in 1 .. Len(t) PROVE t[i] \in In(s \o t)
    BY DEF In
  <2> DEFINE k == Len(s) + i
  <2>1. k \in 1 .. Len(s) + Len(t) /\ ~(k <= Len(s)) /\ k - Len(s) = i
    BY <1>3
  <2> HIDE DEF k
  <2>2. (s \o t)[k] = t[i]
    BY <1>3, <2>1
  <2> QED BY <1>3, <2>1, <2>2 DEF In
<1> QED BY <1>1, <1>2, <1>3, <1>4, <1>5

(* One unit after the other.                                                 *)
LEMMA HeadOrTail ==
  ASSUME NEW s \in Seq(UnitNames), s # <<>>
  PROVE  /\ Head(s) \in UnitNames /\ Tail(s) \in Seq(UnitNames)
         /\ In(s) = {Head(s)} \cup In(Tail(s))
<1>1. /\ Len(s) \in Nat \ {0} /\ Head(s) = s[1] /\ Head(s) \in UnitNames
      /\ Tail(s) \in Seq(UnitNames) /\ Len(Tail(s)) = Len(s) - 1
      /\ \A i \in 1 .. Len(s) - 1 : Tail(s)[i] = s[i + 1]
  BY HeadTailProperties, EmptySeq, LenProperties
<1>2. In(s) \subseteq {Head(s)} \cup In(Tail(s))
  <2> SUFFICES ASSUME NEW i \in 1 .. Len(s) PROVE s[i] \in {Head(s)} \cup In(Tail(s))
    BY DEF In
  <2>1. CASE i = 1
    BY <1>1, <2>1
  <2>2. CASE i # 1
    <3>1. i - 1 \in 1 .. Len(s) - 1 /\ (i - 1) + 1 = i
      BY <1>1, <2>2
    <3>2. Tail(s)[i - 1] = s[i]
      BY <1>1, <3>1
    <3> QED BY <1>1, <3>1, <3>2 DEF In
  <2> QED BY <2>1, <2>2
<1>3. {Head(s)} \cup In(Tail(s)) \subseteq In(s)
  <2>1. s[1] \in In(s)
    BY <1>1 DEF In
  <2>2. ASSUME NEW i \in 1 .. Len(s) - 1 PROVE Tail(s)[i] \in In(s)
    <3>1. i + 1 \in 1 .. Len(s)
      BY <1>1
    <3> QED BY <1>1, <3>1 DEF In
  <2> QED BY <1>1, <2>1, <2>2 DEF In
<1> QED BY <1>1, <1>2, <1>3

(* The end of a list.                                                        *)
LEMMA Done == In(<<>>) = {}
BY DEF In

----------------------------------------------------------------------------
(* Types.                                                                    *)

(* E!Stop and E!Leave only leave values that were there.                     *)
LEMMA StopTypes ==
  ASSUME TypeInv, E!Stop
  PROVE  /\ view' \in [H -> Shown] /\ goal' \in [H -> Shown]
         /\ holder' = holder /\ ask' = ask /\ phase' = "over"
BY DEF TypeInv, E!Stop, Shown

(* What belongs to a process is cleared when it ends.                        *)
LEMMA GoneTypes ==
  ASSUME TypeInv, NEW p \in Procs, Gone(p)
  PROVE  /\ pc' \in [Procs -> Places] /\ verb' \in [Procs -> VerbNames \cup {"none"}]
         /\ snap' \in [Procs -> SUBSET Images] /\ todo' \in [Procs -> Seq(UnitNames)]
         /\ DOMAIN acts' = Procs /\ DOMAIN result' = Procs
         /\ pend' \in [Procs -> BOOLEAN] /\ since' \in [Procs -> BOOLEAN]
<1>1. <<>> \in Seq(UnitNames)
  BY EmptySeq
<1> QED BY <1>1 DEF TypeInv, Gone, Places

(* The lock of a process that dies is released.                              *)
LEMMA DiesTypes ==
  ASSUME TypeInv, NEW p \in Procs, Dies(p)
  PROVE  /\ holder' \in Procs \cup {NoProc}
         /\ phase' \in {"free", "old", "new", "done", "over"}
         /\ view' \in [H -> Shown] /\ goal' \in [H -> Shown]
<1>1. CASE holder = p
  BY <1>1 DEF TypeInv, Dies, E!Leave, E!AllBare, Shown
<1>2. CASE holder # p
  BY <1>2 DEF TypeInv, Dies, engine, openrc
<1> QED BY <1>1, <1>2

(* What is merged are images.                                                *)
LEMMA MergedImages ==
  ASSUME TypeInv
  PROVE  Merged \subseteq Images /\ \A h \in H : view[h].names \subseteq Images
<1>1. ASSUME NEW h \in H PROVE view[h].names \subseteq Images
  BY DEF TypeInv, Shown, Some, E!Bare
<1> QED BY <1>1 DEF Merged

(* Failures are counted, and those of a service remembered.                  *)
LEMMA RefusesTypes ==
  ASSUME TypeInv, NEW services, services \subseteq Services, Refuses(services)
  PROVE  /\ refusals' \in Nat /\ refused' \subseteq Services
         /\ refused \subseteq refused' /\ services \subseteq refused'
BY DEF TypeInv, Refuses

(* A unit with a script is a service.                                        *)
LEMMA UnitIsService ==
  ASSUME NEW u \in UnitNames, NEW exts,
         MustStop(u, running, exts) \/ Exists(u, exts)
  PROVE  ServiceOf[u] \in Services
BY ServicesAssumption DEF MustStop, Exists

(* What becomes of a unit to stop.                                           *)
LEMMA StopsTypes ==
  ASSUME TypeInv, NEW u \in UnitNames, StopsOrSkips(u) \/ StopFails(u)
  PROVE  /\ running' \in [Services -> SUBSET (Images \cup {Host})]
         /\ refusals' \in Nat /\ refused' \subseteq Services /\ refused \subseteq refused'
<1>1. CASE StopFails(u)
  <2>1. ServiceOf[u] \in Services
    BY <1>1, UnitIsService DEF StopFails
  <2>2. Refuses({ServiceOf[u]}) /\ running' = running
    BY <1>1 DEF StopFails
  <2> QED BY <2>1, <2>2, RefusesTypes DEF TypeInv
<1>2. CASE StopsOrSkips(u)
  BY <1>2 DEF TypeInv, StopsOrSkips, Obeys, openrc
<1> QED BY <1>1, <1>2

(* What becomes of a unit to restart or to reload.                           *)
LEMMA AppliesTypes ==
  ASSUME TypeInv, NEW u \in UnitNames, NEW a, AppliesOrSkips(u, a) \/ ApplyFails(u)
  PROVE  /\ running' \in [Services -> SUBSET (Images \cup {Host})]
         /\ refusals' \in Nat /\ refused' \subseteq Services /\ refused \subseteq refused'
<1>1. CASE ApplyFails(u)
  <2>1. ServiceOf[u] \in Services
    BY <1>1, UnitIsService DEF ApplyFails
  <2>2. Refuses({ServiceOf[u]})
    BY <1>1 DEF ApplyFails
  <2>3. running' \in [Services -> SUBSET (Images \cup {Host})]
    BY <1>1 DEF ApplyFails, TypeInv
  <2> QED BY <2>1, <2>2, <2>3, RefusesTypes
<1>2. CASE AppliesOrSkips(u, a)
  <2>1. Providers(ServiceOf[u], Merged) \subseteq Images \cup {Host}
    BY MergedImages DEF Providers
  <2> QED BY <1>2, <2>1 DEF TypeInv, AppliesOrSkips, Obeys, openrc
<1> QED BY <1>1, <1>2

(* The services of a set of units.                                           *)
ServicesOf(units) == {ServiceOf[u] : u \in units} \cap Services

(* What stopProvidedServices begins with.                                    *)
LEMMA StoppingTypes ==
  ASSUME TypeInv, NEW p \in Procs, NEW a, Stopping(p, a)
  PROVE  /\ todo' \in [Procs -> Seq(UnitNames)]
         /\ \A q \in Procs \ {p} : todo'[q] = todo[q]
         /\ refusals' \in Nat /\ refused' \subseteq Services /\ refused \subseteq refused'
         /\ \/ todo'[p] = InOrder(a)
            \/ ServicesOf(a.restart \cup a.reload) \subseteq refused'
<1>1. CASE todo' = [todo EXCEPT ![p] = InOrder(a)] /\ Obeys
  BY <1>1, InOrderIs DEF TypeInv, Obeys
<1>2. CASE todo' = [todo EXCEPT ![p] = <<>>] /\ Refuses(ServicesOf(a.restart \cup a.reload))
  <2>1. ServicesOf(a.restart \cup a.reload) \subseteq Services
    BY DEF ServicesOf
  <2>2. <<>> \in Seq(UnitNames)
    BY EmptySeq
  <2>3. /\ refusals' \in Nat /\ refused' \subseteq Services /\ refused \subseteq refused'
        /\ ServicesOf(a.restart \cup a.reload) \subseteq refused'
    BY <1>2, <2>1, RefusesTypes
  <2> QED BY <1>2, <2>2, <2>3 DEF TypeInv
<1> QED BY <1>1, <1>2 DEF Stopping, ServicesOf

(* A verb that ends because it cannot tell what the services need.           *)
GivesUp(p) ==
  /\ pc[p] \in {"collect", "after"} /\ Gone(p) /\ Refuses({})
  /\ UNCHANGED <<disk, counts, running, engine, current, restarted>>

(* There are two places for that.                                            *)
LEMMA FailsOrSkips ==
  ASSUME NEW p, CollectFails(p) \/ SkipApply(p)
  PROVE  GivesUp(p)
BY DEF CollectFails, SkipApply, GivesUp

(* TypeInv holds at first, and every step keeps it.                          *)
LEMMA TypeInit == Init => TypeInv
<1> SUFFICES ASSUME Init PROVE TypeInv
  OBVIOUS
<1>1. <<>> \in Seq(UnitNames)
  BY EmptySeq
<1> QED BY <1>1 DEF Init, TypeInv, Places, Shown, E!Init, E!AllBare

(* One step of TypeInv, by the actions.                                      *)
LEMMA TypeNext == TypeInv /\ [Next]_vars => TypeInv'
<1> SUFFICES ASSUME TypeInv, [Next]_vars PROVE TypeInv'
  OBVIOUS
<1>1. CASE UNCHANGED vars
  BY <1>1 DEF TypeInv, vars, counts, openrc, history, engine
<1>2. ASSUME NEW p \in Procs, Proceeds(p) PROVE TypeInv'
  <2>1. CASE CheckMerged(p)
    <3>1. CASE Gone(p) /\ UNCHANGED <<current, restarted>>
      BY <2>1, <3>1, GoneTypes DEF TypeInv, CheckMerged, counts, openrc, engine
    <3>2. CASE Goto(p, "probe") /\ UNCHANGED <<Locals, history>>
      BY <2>1, <3>2 DEF CheckMerged, TypeInv, counts, openrc, Locals, history, engine,
         Goto, Places
    <3> QED BY <2>1, <3>1, <3>2 DEF CheckMerged
  <2>2. CASE CollectUnlocked(p)
    BY <2>2, StoppingTypes DEF CollectUnlocked, TypeInv, counts, history, engine, Goto,
       Places
  <2>3. CASE StopNext(p)
    <3>1. todo' \in [Procs -> Seq(UnitNames)] /\ Head(todo[p]) \in UnitNames
      BY <2>3, HeadOrTail DEF TypeInv, StopNext
    <3>2. /\ running' \in [Services -> SUBSET (Images \cup {Host})]
          /\ refusals' \in Nat /\ refused' \subseteq Services
      BY <2>3, <3>1, StopsTypes DEF StopNext
    <3> QED BY <2>3, <3>1, <3>2 DEF StopNext, TypeInv, counts, history, engine, Places
  <2>4. CASE Prestopped(p)
    BY <2>4 DEF Prestopped, TypeInv, counts, openrc, Locals, history, engine, Goto, Places
  <2>5. CASE Probe(p)
    BY <2>5 DEF Probe, TypeInv, counts, openrc, Locals, history, engine, Goto, Places
  <2>6. CASE Enter(p)
    BY <2>6 DEF Enter, E!Take, TypeInv, counts, openrc, Locals, history, engine, Goto,
       Places
  <2>7. CASE Refuse(p)
    BY <2>7, StopTypes DEF Refuse, Reports, TypeInv, counts, openrc, Locals, history,
       engine, Goto, Places
  <2>8. CASE Prepare(p)
    BY <2>8 DEF Prepare, TypeInv, counts, openrc, Locals, history, engine, Goto, Places
  <2>9. CASE NothingToDo(p)
    BY <2>9, StopTypes DEF NothingToDo, Reports, TypeInv, counts, openrc, Locals, history,
       engine, Goto, Places
  <2>10. CASE BeforeUnmerge(p)
    BY <2>10, StoppingTypes DEF BeforeUnmerge, TypeInv, counts, history, engine, Goto,
       Places
  <2>11. CASE \E h \in H : Hide(p, h)
    BY <2>11 DEF Hide, E!Hide, TypeInv, counts, openrc, Locals, history, engine, Goto,
       Places, Shown
  <2>12. CASE \E h \in H : Show(p, h)
    BY <2>12 DEF Show, E!Show, TypeInv, counts, openrc, Locals, history, engine, Goto,
       Places
  <2>13. CASE \E h \in H : Undo(p, h)
    BY <2>13 DEF Undo, E!Undo, TypeInv, counts, openrc, Locals, history, engine, Goto,
       Places, Shown
  <2>14. CASE Unmerged(p)
    BY <2>14, StopTypes DEF Unmerged, Reports, TypeInv, counts, openrc, Locals, history,
       engine, Goto, Places
  <2>15. CASE Decide(p)
    <3>1. goal' \in [H -> Shown]
      BY <2>15 DEF TypeInv, Decide, Found, Shown, Some
    <3> QED BY <2>15, <3>1 DEF Decide, E!Decide, TypeInv, counts, openrc, Locals, history,
       engine, Goto, Places
  <2>16. CASE Commit(p)
    <3>1. PICK r : Reports(p, r)
      BY <2>16, Zenon DEF Commit
    <3>2. faults' \in Nat
      BY <2>16 DEF Commit, TypeInv
    <3>3. current' \in BOOLEAN
      BY <3>1 DEF Reports
    <3>4. /\ pc' \in [Procs -> Places] /\ DOMAIN result' = Procs
          /\ UNCHANGED <<verb, snap, acts, todo, pend, since, restarted>>
      BY <3>1 DEF Reports, Goto, TypeInv, Places
    <3>5. /\ UNCHANGED <<disk, bounds, installs, kills, openrc, holder, view, goal>>
          /\ phase' = "done"
      BY <2>16 DEF Commit, E!Commit
    <3> QED BY <3>2, <3>3, <3>4, <3>5 DEF TypeInv, openrc
  <2>17. CASE EngineFails(p)
    BY <2>17, StopTypes DEF EngineFails, Reports, TypeInv, counts, openrc, Locals,
       history, engine, Goto, Places
  <2>18. CASE Unlock(p)
    BY <2>18 DEF Unlock, E!Leave, E!AllBare, Shown, TypeInv, counts, openrc, Locals,
       history, engine, Goto, Places
  <2>19. CASE Redeliver(p)
    BY <2>19, GoneTypes DEF TypeInv, Redeliver, counts, openrc, engine
  <2>20. CASE AfterEngine(p)
    BY <2>20, InOrderIs DEF AfterEngine, TypeInv, counts, openrc, Locals, history, engine,
       Goto, Places
  <2>21. CASE NoActionsDue(p)
    BY <2>21, GoneTypes DEF TypeInv, NoActionsDue, counts, openrc, engine
  <2>22. CASE ApplyNext(p)
    <3>1. todo' \in [Procs -> Seq(UnitNames)] /\ Head(todo[p]) \in UnitNames
      BY <2>22, HeadOrTail DEF TypeInv, ApplyNext
    <3>2. /\ running' \in [Services -> SUBSET (Images \cup {Host})]
          /\ refusals' \in Nat /\ refused' \subseteq Services
      BY <2>22, <3>1, AppliesTypes DEF ApplyNext
    <3> QED BY <2>22, <3>1, <3>2 DEF ApplyNext, TypeInv, counts, history, engine, Places
  <2>23. CASE Applied(p)
    BY <2>23, GoneTypes DEF TypeInv, Applied, counts, openrc, engine
  <2>24. CASE CollectFails(p) \/ SkipApply(p)
    <3>1. GivesUp(p)
      BY <2>24, FailsOrSkips
    <3>2. refusals' \in Nat /\ refused' \subseteq Services
      BY <3>1, RefusesTypes DEF GivesUp
    <3> QED BY <3>1, <3>2, GoneTypes DEF TypeInv, GivesUp, counts, engine
  <2> QED BY <1>2, <2>1, <2>2, <2>3, <2>4, <2>5, <2>6, <2>7, <2>8, <2>9, <2>10, <2>11,
         <2>12, <2>13, <2>14, <2>15, <2>16, <2>17, <2>18, <2>19, <2>20, <2>21, <2>22,
         <2>23, <2>24 DEF Proceeds
<1>3. ASSUME NEW p \in Procs, Signal(p) PROVE TypeInv'
  <2>1. CASE pc[p] \in Held
    BY <1>3, <2>1 DEF Signal, TypeInv, counts, openrc, engine
  <2>2. CASE pc[p] \notin Held
    <3>1. Dies(p) /\ Gone(p)
      BY <1>3, <2>2 DEF Signal, Dies
    <3> QED BY <1>3, <3>1, DiesTypes, GoneTypes DEF Signal, TypeInv, counts, openrc
  <2> QED BY <2>1, <2>2
<1>4. ASSUME NEW p \in Procs, Kill(p) PROVE TypeInv'
  <2>1. Dies(p) /\ Gone(p)
    BY <1>4 DEF Kill, Dies
  <2>2. kills' \in Nat
    BY <1>4 DEF Kill, TypeInv
  <2> QED BY <1>4, <2>1, <2>2, DiesTypes, GoneTypes DEF Kill, TypeInv, openrc
<1>5. ASSUME NEW p \in Procs, NEW v \in VerbNames, Start(p, v) PROVE TypeInv'
  BY <1>5 DEF Start, Goto, TypeInv, Places, VerbNames, counts, openrc, engine
<1>6. CASE Install
  <2>1. installs' \in Nat /\ disk' \subseteq Images /\ since' \in [Procs -> BOOLEAN]
    BY <1>6 DEF Install, TypeInv
  <2> QED BY <1>6, <2>1 DEF Install, TypeInv, Locals, openrc, engine
<1>7. ASSUME NEW s \in Services, AdminStarts(s) PROVE TypeInv'
  <2>1. running' \in [Services -> SUBSET (Images \cup {Host})]
    BY <1>7, MergedImages DEF TypeInv, AdminStarts, Providers
  <2> QED BY <1>7, <2>1 DEF AdminStarts, Obeys, TypeInv, counts, openrc, Locals, history,
     engine
<1> QED BY <1>1, <1>2, <1>3, <1>4, <1>5, <1>6, <1>7 DEF Next

----------------------------------------------------------------------------
(* A step of a process leaves the others where they are.                     *)
Kept(p) ==
  /\ bounds' = bounds /\ disk' = disk
  /\ \A q \in Procs \ {p} :
       /\ pc'[q] = pc[q] /\ verb'[q] = verb[q] /\ snap'[q] = snap[q]
       /\ acts'[q] = acts[q] /\ todo'[q] = todo[q] /\ result'[q] = result[q]
       /\ since'[q] = since[q]

(* What p may do with the lock.                                              *)
Handed(p) ==
  \/ UNCHANGED engine
  \/ holder = p /\ holder' \in {p, NoProc}
  \/ holder = NoProc /\ holder' = p

TheLock ==
  /\ phase = "free" <=> holder = NoProc
  /\ phase \in {"free", "old"} => goal = E!AllBare
  /\ \A h \in H : phase = "new" => view[h] \in {goal[h], E!Bare}

(* The end of p is nothing to the others.                                    *)
LEMMA GoneKept ==
  ASSUME TypeInv, NEW p \in Procs, Gone(p)
  PROVE  /\ \A q \in Procs \ {p} :
              /\ pc'[q] = pc[q] /\ verb'[q] = verb[q] /\ snap'[q] = snap[q]
              /\ acts'[q] = acts[q] /\ todo'[q] = todo[q] /\ result'[q] = result[q]
              /\ since'[q] = since[q]
         /\ pc'[p] = "idle" /\ since'[p] = FALSE
BY DEF TypeInv, Gone

(* LockInv after a step of p, from what it says of p and of the engine.      *)
LEMMA LockStep ==
  ASSUME TypeInv, LockInv, NEW p \in Procs, Kept(p), Handed(p), TheLock',
         AskedAt(p)', EngineAt(p)'
  PROVE  LockInv'
<1>1. ASSUME NEW q \in Procs \ {p} PROVE AskedAt(q)' /\ EngineAt(q)'
  <2>1. Found(q)' = Found(q)
    BY DEF Kept, Found
  <2>2. AskedAt(q) /\ EngineAt(q)
    BY DEF LockInv
  <2>3. AskedAt(q)'
    BY <2>1, <2>2 DEF AskedAt, Kept
  <2>4. CASE UNCHANGED engine
    <3>1. /\ pc'[q] = pc[q] /\ verb'[q] = verb[q] /\ snap'[q] = snap[q]
          /\ holder' = holder /\ ask' = ask /\ phase' = phase /\ goal' = goal
      BY <2>4 DEF Kept, engine, openrc
    <3>2. E!AllBare' = E!AllBare
      BY DEF E!AllBare
    <3> QED BY <2>1, <2>2, <2>3, <3>1, <3>2 DEF EngineAt
  <2>5. CASE ~UNCHANGED engine
    <3>1. holder # q /\ holder' # q
      BY <2>5, VerbsAssumption DEF Handed
    <3>2. pc'[q] \notin Inside
      <4>1. pc[q] \notin Inside
        BY <2>2, <3>1 DEF EngineAt
      <4> QED BY <4>1 DEF Kept
    <3> QED BY <2>3, <3>1, <3>2 DEF EngineAt, Inside
  <2> QED BY <2>3, <2>4, <2>5
<1> QED BY <1>1 DEF LockInv, TheLock

(* A step of p that leaves the engine alone.                                 *)
LEMMA LockApart ==
  ASSUME TypeInv, LockInv, NEW p \in Procs, Kept(p), UNCHANGED engine,
         pc[p] \notin Inside, pc'[p] \notin Inside, AskedAt(p)'
  PROVE  LockInv'
<1>1. Handed(p)
  BY DEF Handed
<1>2. TheLock'
  BY DEF LockInv, TheLock, engine, openrc, E!AllBare
<1>3. holder # p /\ holder' # p
  BY DEF LockInv, EngineAt, engine, openrc
<1>4. EngineAt(p)'
  BY <1>3 DEF EngineAt, Inside
<1> QED BY <1>1, <1>2, <1>4, LockStep

(* A step of p with the lock that leaves the engine alone.                   *)
LEMMA LockLocal ==
  ASSUME TypeInv, LockInv, NEW p \in Procs, Kept(p), UNCHANGED engine,
         pc[p] \in Inside,
         pc'[p] \in {"old", "ready", "stop"} => pc[p] \in {"old", "ready", "stop"},
         pc'[p] \in {"new", "undo"} => pc'[p] = pc[p], pc'[p] \in Inside,
         verb'[p] = verb[p], snap'[p] = snap[p], AskedAt(p)'
  PROVE  LockInv'
<1>1. Handed(p)
  BY DEF Handed
<1>2. TheLock'
  BY DEF LockInv, TheLock, engine, openrc, E!AllBare
<1>3. EngineAt(p)
  BY DEF LockInv
<1>4. Found(p)' = Found(p)
  BY DEF Found
<1>5. EngineAt(p)'
  BY <1>3, <1>4 DEF EngineAt, engine, openrc, Inside, E!AllBare
<1> QED BY <1>1, <1>2, <1>5, LockStep

(* p ends, and the lock with it.                                             *)
LEMMA LockDies ==
  ASSUME TypeInv, LockInv, NEW p \in Procs, Dies(p), bounds' = bounds, disk' = disk
  PROVE  LockInv'
<1>1. Kept(p) /\ pc'[p] = "idle" /\ since'[p] = FALSE
  BY GoneKept DEF Dies, Kept
<1>2. AskedAt(p)'
  BY <1>1 DEF AskedAt
<1>3. CASE holder = p
  <2>1. E!Leave
    BY <1>3 DEF Dies
  <2>2. Handed(p) /\ TheLock' /\ holder' = NoProc
    BY <1>3, <2>1 DEF Handed, TheLock, E!Leave, E!AllBare
  <2>3. EngineAt(p)'
    BY <1>1, <2>2, VerbsAssumption DEF EngineAt, Inside
  <2> QED BY <1>1, <1>2, <2>2, <2>3, LockStep
<1>4. CASE holder # p
  <2>1. UNCHANGED engine
    BY <1>4 DEF Dies
  <2>2. pc[p] \notin Inside /\ pc'[p] \notin Inside
    BY <1>1, <1>4 DEF LockInv, EngineAt, Inside
  <2> QED BY <1>1, <1>2, <2>1, <2>2, LockApart
<1> QED BY <1>3, <1>4

(* E!Stop by p, which had not shown all of a new merge.                      *)
LEMMA LockStops ==
  ASSUME TypeInv, LockInv, NEW p \in Procs, Kept(p), E!Stop,
         pc[p] \in Inside, pc'[p] = "undo",
         verb'[p] = verb[p], snap'[p] = snap[p], since'[p] = since[p]
  PROVE  LockInv'
<1>1. holder = p /\ holder' = p /\ EngineAt(p) /\ AskedAt(p)
  BY DEF LockInv, EngineAt, E!Stop
<1>2. Found(p)' = Found(p)
  BY DEF Found
<1>3. Handed(p) /\ TheLock'
  BY <1>1, VerbsAssumption DEF Handed, TheLock, E!Stop
<1>4. AskedAt(p)'
  BY <1>1, <1>2 DEF AskedAt, Kept, Inside
<1>5. CASE phase = "old"
  <2>1. goal' = E!AllBare
    BY <1>5 DEF LockInv, E!Stop, E!AllBare
  <2>2. E!AllBare' = E!AllBare
    BY DEF E!AllBare
  <2> QED BY <1>1, <1>3, <1>4, <2>1, <2>2, LockStep DEF EngineAt, E!Stop, Inside
<1>6. CASE phase = "new"
  <2>1. verb[p] # "unmerge" /\ Found(p) # {}
    BY <1>1, <1>6 DEF EngineAt, AskedAt, Inside
  <2>2. EngineAt(p)'
    BY <1>1, <1>2, <2>1 DEF EngineAt, E!Stop, Inside
  <2> QED BY <1>3, <1>4, <2>2, LockStep
<1> QED BY <1>5, <1>6 DEF E!Stop

(* All steps of p leave the others where they are.                           *)
LEMMA ProceedsKept ==
  ASSUME TypeInv, NEW p \in Procs, Proceeds(p)
  PROVE  Kept(p)
<1>1. CASE CheckMerged(p)
  <2>1. CASE Gone(p)
    BY <1>1, <2>1, GoneKept DEF Kept, CheckMerged, counts, openrc
  <2>2. CASE ~Gone(p)
    BY <1>1, <2>2 DEF Kept, CheckMerged, TypeInv, counts, openrc, Locals, history, Goto
  <2> QED BY <2>1, <2>2
<1>2. CASE CollectUnlocked(p)
  BY <1>2, StoppingTypes DEF Kept, CollectUnlocked, TypeInv, counts, history, Goto
<1>3. CASE StopNext(p)
  BY <1>3 DEF Kept, StopNext, TypeInv, counts, openrc, Locals, history, Goto
<1>4. CASE Prestopped(p)
  BY <1>4 DEF Kept, Prestopped, TypeInv, counts, openrc, Locals, history, Goto
<1>5. CASE Probe(p)
  BY <1>5 DEF Kept, Probe, TypeInv, counts, openrc, Locals, history, Goto
<1>6. CASE Enter(p)
  BY <1>6 DEF Kept, Enter, TypeInv, counts, openrc, Locals, history, Goto
<1>7. CASE Refuse(p)
  BY <1>7 DEF Kept, Refuse, TypeInv, counts, openrc, Locals, history, Goto, Reports
<1>8. CASE Prepare(p)
  BY <1>8 DEF Kept, Prepare, TypeInv, counts, openrc, Locals, history, Goto
<1>9. CASE NothingToDo(p)
  BY <1>9 DEF Kept, NothingToDo, TypeInv, counts, openrc, Locals, history, Goto, Reports
<1>10. CASE BeforeUnmerge(p)
  BY <1>10, StoppingTypes DEF Kept, BeforeUnmerge, TypeInv, counts, history, Goto
<1>11. CASE \E h \in H : Hide(p, h)
  BY <1>11 DEF Kept, Hide, TypeInv, counts, openrc, Locals, history, Goto
<1>12. CASE \E h \in H : Show(p, h)
  BY <1>12 DEF Kept, Show, TypeInv, counts, openrc, Locals, history, Goto
<1>13. CASE \E h \in H : Undo(p, h)
  BY <1>13 DEF Kept, Undo, TypeInv, counts, openrc, Locals, history, Goto
<1>14. CASE Unmerged(p)
  BY <1>14 DEF Kept, Unmerged, TypeInv, counts, openrc, Locals, history, Goto, Reports
<1>15. CASE Decide(p)
  BY <1>15 DEF Kept, Decide, TypeInv, counts, openrc, Locals, history, Goto
<1>16. CASE Commit(p)
  BY <1>16 DEF Kept, Commit, TypeInv, counts, openrc, Locals, history, Goto, Reports
<1>17. CASE EngineFails(p)
  BY <1>17 DEF Kept, EngineFails, TypeInv, counts, openrc, Locals, history, Goto, Reports
<1>18. CASE Unlock(p)
  BY <1>18 DEF Kept, Unlock, TypeInv, counts, openrc, Locals, history, Goto
<1>19. CASE Redeliver(p)
  BY <1>19, GoneKept DEF Kept, Redeliver, counts, openrc
<1>20. CASE AfterEngine(p)
  BY <1>20 DEF Kept, AfterEngine, TypeInv, counts, openrc, Locals, history, Goto
<1>21. CASE NoActionsDue(p)
  BY <1>21, GoneKept DEF Kept, NoActionsDue, counts, openrc
<1>22. CASE ApplyNext(p)
  BY <1>22 DEF Kept, ApplyNext, TypeInv, counts, openrc, Locals, history, Goto
<1>23. CASE Applied(p)
  BY <1>23, GoneKept DEF Kept, Applied, counts, openrc
<1>24. CASE CollectFails(p) \/ SkipApply(p)
  BY <1>24, FailsOrSkips, GoneKept DEF Kept, GivesUp, counts
<1> QED BY <1>1, <1>2, <1>3, <1>4, <1>5, <1>6, <1>7, <1>8, <1>9, <1>10, <1>11, <1>12, <1>13,
       <1>14, <1>15, <1>16, <1>17, <1>18, <1>19, <1>20, <1>21, <1>22, <1>23,
       <1>24 DEF Proceeds

(* Where a verb begins.                                                      *)
StartsAt(v) == CASE v = "merge" -> "check" [] v = "refresh" -> "probe"
                 [] v = "unmerge" -> "collect"

(* The three verbs.                                                          *)
LEMMA Starts ==
  /\ StartsAt("merge") = "check"
  /\ StartsAt("refresh") = "probe"
  /\ StartsAt("unmerge") = "collect"
BY DEF StartsAt

(* LockInv holds at first.                                                   *)
LEMMA LockInit == Init => LockInv
BY VerbsAssumption DEF Init, LockInv, AskedAt, EngineAt, Inside, E!Init, E!AllBare

(* LockInv and what a process does of itself, by the actions.                *)
LEMMA LockProceeds ==
  ASSUME TypeInv, LockInv, NEW p \in Procs, Proceeds(p)
  PROVE  LockInv'
<1>1. Kept(p) /\ AskedAt(p) /\ EngineAt(p)
  BY ProceedsKept DEF LockInv
<1>2. \A h \in H : E!AllBare[h] = E!Bare
  BY DEF E!AllBare
<1>3. CASE CheckMerged(p)
  <2>1. pc[p] \notin Inside /\ UNCHANGED engine
    BY <1>3 DEF CheckMerged, Inside
  <2>2. AskedAt(p)' /\ pc'[p] \notin Inside
    <3>1. CASE Gone(p)
      BY <3>1, GoneKept DEF AskedAt, Inside
    <3>2. CASE ~Gone(p)
      <4>1. pc'[p] = "probe"
        /\ verb'[p] = verb[p] /\ snap'[p] = snap[p] /\ since'[p] = since[p]
        BY <1>3, <3>2 DEF CheckMerged, TypeInv, Goto, Locals, history, counts, openrc,
           Inside
      <4> QED BY <1>1, <1>3, <4>1 DEF AskedAt, Inside, Kept, CheckMerged
    <3> QED BY <3>1, <3>2
  <2> QED BY <1>1, <2>1, <2>2, LockApart
<1>4. CASE CollectUnlocked(p)
  <2>1. /\ pc[p] \notin Inside /\ pc[p] # "idle" /\ UNCHANGED engine /\ pc'[p] = "prestop"
        /\ verb'[p] = verb[p] /\ snap'[p] = snap[p] /\ since'[p] = since[p]
    BY <1>4 DEF CollectUnlocked, TypeInv, Goto, Locals, history, counts, openrc, Inside
  <2>2. AskedAt(p)' /\ pc'[p] \notin Inside
    BY <1>1, <1>4, <2>1 DEF AskedAt, Inside, Kept, Found, CollectUnlocked
  <2> QED BY <1>1, <2>1, <2>2, LockApart
<1>5. CASE StopNext(p)
  <2>1. /\ pc'[p] = pc[p] /\ pc[p] \in {"prestop", "stop"} /\ UNCHANGED engine
        /\ verb'[p] = verb[p] /\ snap'[p] = snap[p] /\ since'[p] = since[p]
    BY <1>5 DEF StopNext, TypeInv, Goto, Locals, history, counts, openrc, Inside
  <2>2. AskedAt(p)'
    BY <1>1, <2>1 DEF AskedAt, Kept, Found
  <2> QED BY <1>1, <2>1, <2>2, LockApart, LockLocal DEF Inside
<1>6. CASE Prestopped(p)
  <2>1. /\ pc[p] \notin Inside /\ pc[p] # "idle" /\ UNCHANGED engine /\ pc'[p] = "probe"
        /\ verb'[p] = verb[p] /\ snap'[p] = snap[p] /\ since'[p] = since[p]
    BY <1>6 DEF Prestopped, TypeInv, Goto, Locals, history, counts, openrc, Inside
  <2>2. AskedAt(p)' /\ pc'[p] \notin Inside
    BY <1>1, <1>6, <2>1 DEF AskedAt, Inside, Kept, Found, Prestopped
  <2> QED BY <1>1, <2>1, <2>2, LockApart
<1>7. CASE Probe(p)
  <2>1. /\ pc[p] \notin Inside /\ pc[p] # "idle" /\ UNCHANGED engine /\ pc'[p] = "wait"
        /\ verb'[p] = verb[p] /\ snap'[p] = snap[p] /\ since'[p] = since[p]
    BY <1>7 DEF Probe, TypeInv, Goto, Locals, history, counts, openrc, Inside
  <2>2. AskedAt(p)' /\ pc'[p] \notin Inside
    BY <1>1, <1>7, <2>1 DEF AskedAt, Inside, Kept, Found, Probe
  <2> QED BY <1>1, <2>1, <2>2, LockApart
<1>8. CASE Enter(p)
  <2>1. /\ holder = NoProc /\ holder' = p /\ phase' = "old" /\ goal' = goal
        /\ pc'[p] = (IF verb[p] = "unmerge" THEN "ready" ELSE "old")
        /\ verb'[p] = verb[p] /\ snap'[p] = snap[p] /\ since'[p] = since[p]
        /\ pc[p] = "wait" /\ ask' = [verb |-> verb[p], images |-> snap[p], mutable |-> FALSE]
        /\ phase = "free"
    BY <1>8 DEF LockInv, E!Take, Enter, TypeInv, Goto, Locals, history, counts, openrc,
       Inside
  <2>2. Handed(p) /\ TheLock'
    BY <2>1, VerbsAssumption DEF LockInv, Handed, TheLock, E!AllBare
  <2>3. AskedAt(p)'
    BY <1>1, <2>1 DEF AskedAt, Kept, Found
  <2>4. EngineAt(p)'
    BY <2>1 DEF EngineAt, Inside
  <2> QED BY <1>1, <2>2, <2>3, <2>4, LockStep
<1>9. CASE Refuse(p)
  <2>1. /\ E!Stop /\ pc[p] \in Inside /\ pc'[p] = "undo"
        /\ verb'[p] = verb[p] /\ snap'[p] = snap[p] /\ since'[p] = since[p]
    BY <1>9 DEF Refuse, TypeInv, Goto, Locals, history, counts, openrc, Inside, Works,
       Reports
  <2> QED BY <1>1, <2>1, LockStops
<1>10. CASE Prepare(p)
  <2>1. /\ pc'[p] = "ready" /\ pc[p] = "old" /\ UNCHANGED engine
        /\ verb'[p] = verb[p] /\ snap'[p] = snap[p] /\ since'[p] = since[p]
    BY <1>10 DEF Prepare, TypeInv, Goto, Locals, history, counts, openrc, Inside, Works
  <2>2. AskedAt(p)'
    BY <1>1, <1>10, <2>1 DEF AskedAt, Kept, Found, Prepare
  <2> QED BY <1>1, <2>1, <2>2, LockLocal DEF Inside
<1>11. CASE NothingToDo(p)
  <2>1. /\ E!Stop /\ pc[p] \in Inside /\ pc'[p] = "undo"
        /\ verb'[p] = verb[p] /\ snap'[p] = snap[p] /\ since'[p] = since[p]
    BY <1>11 DEF NothingToDo, TypeInv, Goto, Locals, history, counts, openrc, Inside,
       Works, Reports
  <2> QED BY <1>1, <2>1, LockStops
<1>12. CASE BeforeUnmerge(p)
  <2>1. /\ pc'[p] = "stop" /\ pc[p] = "ready" /\ UNCHANGED engine
        /\ verb'[p] = verb[p] /\ snap'[p] = snap[p] /\ since'[p] = since[p]
    BY <1>12 DEF BeforeUnmerge, TypeInv, Goto, Locals, history, counts, openrc, Inside,
       Works
  <2>2. AskedAt(p)'
    BY <1>1, <1>12, <2>1 DEF AskedAt, Kept, Found, BeforeUnmerge
  <2> QED BY <1>1, <2>1, <2>2, LockLocal DEF Inside
<1>13. CASE \E h \in H : Hide(p, h)
  <2>1. PICK h \in H : Hide(p, h)
    BY <1>13
  <2>2. /\ holder = p /\ pc'[p] = pc[p]
        /\ verb'[p] = verb[p] /\ snap'[p] = snap[p] /\ since'[p] = since[p]
        /\ UNCHANGED <<holder, ask, phase>>
    BY <2>1 DEF Hide, TypeInv, Goto, Locals, history, counts, openrc, Inside, Works, E!Hide
  <2>3. Found(p)' = Found(p) /\ AskedAt(p)'
    BY <1>1, <2>2 DEF AskedAt, Kept, Found
  <2>4. phase = "old" /\ goal' = goal /\ pc[p] \in {"ready", "stop"}
    BY <2>1 DEF Hide, Works, E!Hide
  <2>5. Handed(p) /\ TheLock'
    BY <2>2, <2>4 DEF LockInv, Handed, TheLock, E!AllBare
  <2>6. EngineAt(p)'
    BY <1>1, <2>2, <2>4 DEF EngineAt, Inside
  <2> QED BY <1>1, <2>3, <2>5, <2>6, LockStep
<1>14. CASE \E h \in H : Show(p, h)
  <2>1. PICK h \in H : Show(p, h)
    BY <1>14
  <2>2. /\ holder = p /\ pc'[p] = pc[p]
        /\ verb'[p] = verb[p] /\ snap'[p] = snap[p] /\ since'[p] = since[p]
        /\ UNCHANGED <<holder, ask, phase>>
    BY <2>1 DEF Show, TypeInv, Goto, Locals, history, counts, openrc, Inside, Works, E!Show
  <2>3. Found(p)' = Found(p) /\ AskedAt(p)'
    BY <1>1, <2>2 DEF AskedAt, Kept, Found
  <2>4. /\ phase = "new" /\ goal' = goal /\ pc[p] = "new"
        /\ view' = [view EXCEPT ![h] = goal[h]]
    BY <2>1 DEF Show, Works, E!Show
  <2>5. Handed(p) /\ TheLock'
    BY <2>2, <2>4 DEF LockInv, TypeInv, Handed, TheLock
  <2>6. EngineAt(p)'
    BY <1>1, <2>2, <2>3, <2>4 DEF EngineAt, Inside
  <2> QED BY <1>1, <2>3, <2>5, <2>6, LockStep
<1>15. CASE \E h \in H : Undo(p, h)
  <2>1. PICK h \in H : Undo(p, h)
    BY <1>15
  <2>2. /\ holder = p /\ pc'[p] = pc[p]
        /\ verb'[p] = verb[p] /\ snap'[p] = snap[p] /\ since'[p] = since[p]
        /\ UNCHANGED <<holder, ask, phase>>
    BY <2>1 DEF Undo, TypeInv, Goto, Locals, history, counts, openrc, Inside, Works, E!Undo
  <2>3. Found(p)' = Found(p) /\ AskedAt(p)'
    BY <1>1, <2>2 DEF AskedAt, Kept, Found
  <2>4. phase = "over" /\ goal[h] # E!Bare /\ pc[p] = "undo"
    BY <2>1 DEF Undo, Works, E!Undo
  <2>5. Handed(p) /\ TheLock'
    BY <2>2, <2>4 DEF LockInv, Handed, TheLock
  <2>6. EngineAt(p)'
    BY <1>1, <1>2, <2>2, <2>3, <2>4 DEF EngineAt, Inside
  <2> QED BY <1>1, <2>3, <2>5, <2>6, LockStep
<1>16. CASE Unmerged(p)
  <2>1. /\ E!Stop /\ pc[p] \in Inside /\ pc'[p] = "undo"
        /\ verb'[p] = verb[p] /\ snap'[p] = snap[p] /\ since'[p] = since[p]
    BY <1>16 DEF Unmerged, TypeInv, Goto, Locals, history, counts, openrc, Inside, Works,
       Reports
  <2> QED BY <1>1, <2>1, LockStops
<1>17. CASE Decide(p)
  <2>1. /\ holder = p /\ holder' = p /\ ask' = ask /\ phase' = "new" /\ view' = view
        /\ view = E!AllBare /\ goal' = [h \in H |-> Some(Found(p))]
        /\ verb'[p] = verb[p] /\ snap'[p] = snap[p] /\ since'[p] = since[p]
        /\ pc'[p] = "new" /\ pc[p] = "ready" /\ Found(p) # {}
        /\ ask.verb # "unmerge"
    BY <1>17 DEF Decide, TypeInv, Goto, Locals, history, counts, openrc, Inside, E!Decide,
       Works, Some
  <2>2. Found(p)' = Found(p) /\ verb[p] # "unmerge"
    BY <1>1, <2>1 DEF Found, EngineAt
  <2>3. Handed(p) /\ TheLock'
    BY <1>2, <2>1, VerbsAssumption DEF Handed, TheLock
  <2>4. AskedAt(p)'
    BY <1>1, <2>1, <2>2 DEF AskedAt, Kept
  <2>5. EngineAt(p)'
    BY <1>1, <2>1, <2>2 DEF EngineAt, Inside
  <2> QED BY <1>1, <2>3, <2>4, <2>5, LockStep
<1>18. CASE Commit(p)
  <2>1. PICK r : Reports(p, r)
    BY <1>18, Zenon DEF Commit
  <2>2. /\ holder = p /\ UNCHANGED <<holder, ask, view, goal>> /\ phase' = "done"
        /\ pc'[p] = "undo" /\ pc[p] = "new"
        /\ verb'[p] = verb[p] /\ snap'[p] = snap[p] /\ since'[p] = since[p]
    BY <1>18, <2>1 DEF Commit, TypeInv, Goto, Locals, history, counts, openrc, Inside,
       E!Commit, Works, Reports
  <2>3. Handed(p) /\ TheLock'
    BY <2>2, VerbsAssumption DEF Handed, TheLock
  <2>4. AskedAt(p)'
    BY <1>1, <2>2 DEF AskedAt, Kept, Found
  <2>5. EngineAt(p)'
    BY <1>1, <2>2 DEF EngineAt, Inside
  <2> QED BY <1>1, <2>3, <2>4, <2>5, LockStep
<1>19. CASE EngineFails(p)
  <2>1. /\ E!Stop /\ pc[p] \in Inside /\ pc'[p] = "undo"
        /\ verb'[p] = verb[p] /\ snap'[p] = snap[p] /\ since'[p] = since[p]
    BY <1>19 DEF EngineFails, TypeInv, Goto, Locals, history, counts, openrc, Inside,
       Works, Reports
  <2> QED BY <1>1, <2>1, LockStops
<1>20. CASE Unlock(p)
  <2>1. /\ holder = p /\ E!Leave /\ pc'[p] = "after" /\ pc[p] = "undo"
        /\ verb'[p] = verb[p] /\ snap'[p] = snap[p] /\ since'[p] = since[p]
    BY <1>20 DEF Unlock, TypeInv, Goto, Locals, history, counts, openrc, Inside, Works
  <2>2. Handed(p) /\ TheLock' /\ holder' = NoProc
    BY <2>1 DEF Handed, TheLock, E!Leave, E!AllBare
  <2>3. AskedAt(p)'
    BY <1>1, <2>1 DEF AskedAt, Kept, Found
  <2>4. EngineAt(p)'
    BY <2>1, <2>2, VerbsAssumption DEF EngineAt, Inside
  <2> QED BY <1>1, <2>2, <2>3, <2>4, LockStep
<1>21. CASE Redeliver(p)
  <2>1. pc[p] \notin Inside /\ pc'[p] = "idle" /\ since'[p] = FALSE /\ UNCHANGED engine
    BY <1>21, GoneKept DEF Redeliver, Inside
  <2>2. AskedAt(p)' /\ pc'[p] \notin Inside
    BY <2>1 DEF AskedAt, Inside
  <2> QED BY <1>1, <2>1, <2>2, LockApart
<1>22. CASE AfterEngine(p)
  <2>1. /\ pc[p] \notin Inside /\ pc[p] # "idle" /\ UNCHANGED engine /\ pc'[p] = "apply"
        /\ verb'[p] = verb[p] /\ snap'[p] = snap[p] /\ since'[p] = since[p]
    BY <1>22 DEF AfterEngine, TypeInv, Goto, Locals, history, counts, openrc, Inside
  <2>2. AskedAt(p)' /\ pc'[p] \notin Inside
    BY <1>1, <1>22, <2>1 DEF AskedAt, Inside, Kept, Found, AfterEngine
  <2> QED BY <1>1, <2>1, <2>2, LockApart
<1>23. CASE NoActionsDue(p)
  <2>1. pc[p] \notin Inside /\ pc'[p] = "idle" /\ since'[p] = FALSE /\ UNCHANGED engine
    BY <1>23, GoneKept DEF NoActionsDue, Inside
  <2>2. AskedAt(p)' /\ pc'[p] \notin Inside
    BY <2>1 DEF AskedAt, Inside
  <2> QED BY <1>1, <2>1, <2>2, LockApart
<1>24. CASE ApplyNext(p)
  <2>1. /\ pc[p] \notin Inside /\ pc[p] # "idle" /\ UNCHANGED engine /\ pc'[p] = "apply"
        /\ verb'[p] = verb[p] /\ snap'[p] = snap[p] /\ since'[p] = since[p]
    BY <1>24 DEF ApplyNext, TypeInv, Goto, Locals, history, counts, openrc, Inside
  <2>2. AskedAt(p)' /\ pc'[p] \notin Inside
    BY <1>1, <1>24, <2>1 DEF AskedAt, Inside, Kept, Found, ApplyNext
  <2> QED BY <1>1, <2>1, <2>2, LockApart
<1>25. CASE Applied(p)
  <2>1. pc[p] \notin Inside /\ pc'[p] = "idle" /\ since'[p] = FALSE /\ UNCHANGED engine
    BY <1>25, GoneKept DEF Applied, Inside
  <2>2. AskedAt(p)' /\ pc'[p] \notin Inside
    BY <2>1 DEF AskedAt, Inside
  <2> QED BY <1>1, <2>1, <2>2, LockApart
<1>26. CASE CollectFails(p) \/ SkipApply(p)
  <2>1. pc[p] \notin Inside /\ pc'[p] = "idle" /\ since'[p] = FALSE /\ UNCHANGED engine
    BY <1>26, FailsOrSkips, GoneKept DEF GivesUp, Inside
  <2>2. AskedAt(p)' /\ pc'[p] \notin Inside
    BY <2>1 DEF AskedAt, Inside
  <2> QED BY <1>1, <2>1, <2>2, LockApart
<1> QED BY <1>3, <1>4, <1>5, <1>6, <1>7, <1>8, <1>9, <1>10, <1>11, <1>12, <1>13, <1>14,
       <1>15, <1>16, <1>17, <1>18, <1>19, <1>20, <1>21, <1>22, <1>23, <1>24, <1>25,
       <1>26 DEF Proceeds

(* A step of nobody with the lock or of a verb.                              *)
LEMMA LockKept ==
  ASSUME LockInv, UNCHANGED <<bounds, pc, verb, snap, holder, ask, view, phase, goal>>,
         \A p \in Procs : since'[p] => since[p] /\ disk' = disk
  PROVE  LockInv'
<1>1. E!AllBare' = E!AllBare /\ \A p \in Procs : Found(p)' = Found(p)
  BY DEF E!AllBare, Found
<1>2. ASSUME NEW p \in Procs PROVE AskedAt(p)' /\ EngineAt(p)'
  <2>1. AskedAt(p) /\ EngineAt(p)
    BY DEF LockInv
  <2>2. AskedAt(p)'
    BY <1>1, <2>1 DEF AskedAt
  <2>3. EngineAt(p)'
    BY <1>1, <2>1 DEF EngineAt
  <2> QED BY <2>2, <2>3
<1> QED BY <1>1, <1>2 DEF LockInv

(* LockInv and every step.                                                   *)
LEMMA LockNext == TypeInv /\ LockInv /\ [Next]_vars => LockInv'
<1> SUFFICES ASSUME TypeInv, LockInv, [Next]_vars PROVE LockInv'
  OBVIOUS
<1>1. CASE UNCHANGED vars
  BY <1>1, LockKept DEF vars, counts, openrc, history, engine
<1>2. ASSUME NEW p \in Procs, Proceeds(p) PROVE LockInv'
  BY <1>2, LockProceeds
<1>3. ASSUME NEW p \in Procs, Signal(p) PROVE LockInv'
  <2>1. CASE pc[p] \in Held
    <3>1. /\ UNCHANGED <<pc, verb, snap, acts, todo, result, since, engine, bounds, disk>>
      BY <1>3, <2>1 DEF Signal, counts, openrc
    <3>2. Kept(p)
      BY <3>1 DEF Kept
    <3>3. AskedAt(p)'
      BY <3>1 DEF LockInv, AskedAt, Found
    <3> QED BY <3>1, <3>2, <3>3, LockApart, LockLocal DEF Inside
  <2>2. CASE pc[p] \notin Held
    BY <1>3, <2>2, LockDies DEF Signal, counts, openrc
  <2> QED BY <2>1, <2>2
<1>4. ASSUME NEW p \in Procs, Kill(p) PROVE LockInv'
  BY <1>4, LockDies DEF Kill
<1>5. ASSUME NEW p \in Procs, NEW v \in VerbNames, Start(p, v) PROVE LockInv'
  <2>1. /\ Kept(p) /\ UNCHANGED engine /\ pc[p] \notin Inside
    BY <1>5 DEF Start, Kept, Goto, TypeInv, counts, openrc, Idle, Inside
  <2>2. /\ p \in bounds'.procs /\ verb'[p] = v /\ snap'[p] = IF v = "unmerge" THEN {} ELSE disk'
        /\ since'[p] = (v = "refresh") /\ pc'[p] = StartsAt(v)
    BY <1>5, Zenon DEF Start, Goto, TypeInv, counts, openrc, StartsAt
  <2>3. AskedAt(p)' /\ pc'[p] \notin Inside
    BY <2>2, Starts DEF AskedAt, VerbNames, Inside
  <2> QED BY <2>1, <2>3, LockApart
<1>6. CASE Install
  <2>1. /\ UNCHANGED <<bounds, pc, verb, snap, holder, ask, view, phase, goal>>
        /\ \A p \in Procs : since'[p] = FALSE
    BY <1>6 DEF Install, Locals, openrc, engine
  <2> QED BY <2>1, LockKept
<1>7. ASSUME NEW s \in Services, AdminStarts(s) PROVE LockInv'
  BY <1>7, LockKept DEF AdminStarts, counts, openrc, Locals, history, engine
<1> QED BY <1>1, <1>2, <1>3, <1>4, <1>5, <1>6, <1>7 DEF Next

----------------------------------------------------------------------------
(* Nothing is left half merged.                                              *)

(* Errors and kills are counted.                                             *)
LEMMA CalmBefore == TypeInv /\ [Next]_vars /\ Calm' => Calm
<1> SUFFICES ASSUME TypeInv, [Next]_vars, Calm' PROVE Calm
  OBVIOUS
<1>1. faults' \in {faults, faults + 1} /\ kills' \in {kills, kills + 1}
  <2>1. CASE UNCHANGED vars
    BY <2>1 DEF vars, counts, openrc
  <2>2. ASSUME NEW p \in Procs, Proceeds(p)
        PROVE  faults' \in {faults, faults + 1} /\ kills' = kills
    <3>1. CASE Commit(p) \/ EngineFails(p)
      BY <3>1 DEF Commit, EngineFails
    <3>2. CASE ~(Commit(p) \/ EngineFails(p))
      <4>1. UNCHANGED counts
        BY <2>2, <3>2 DEF Proceeds, CheckMerged, CollectUnlocked, CollectFails, StopNext,
           Prestopped, Probe, Enter, Refuse, Prepare, NothingToDo, BeforeUnmerge, Hide, Show, Undo,
           Unmerged, Decide, Unlock, Redeliver, AfterEngine, SkipApply, NoActionsDue, ApplyNext, Applied
      <4> QED BY <4>1 DEF counts, openrc
    <3> QED BY <3>1, <3>2
  <2>3. ASSUME NEW p \in Procs, Signal(p) PROVE UNCHANGED <<faults, kills>>
    BY <2>3 DEF Signal, counts, openrc
  <2>4. ASSUME NEW p \in Procs, Kill(p) PROVE faults' = faults /\ kills' = kills + 1
    BY <2>4 DEF Kill
  <2>5. ASSUME NEW p \in Procs, NEW v \in VerbNames, Start(p, v)
        PROVE  UNCHANGED <<faults, kills>>
    BY <2>5 DEF Start, counts, openrc
  <2>6. Install => UNCHANGED <<faults, kills>>
    BY DEF Install
  <2>7. ASSUME NEW s \in Services, AdminStarts(s) PROVE UNCHANGED <<faults, kills>>
    BY <2>7 DEF AdminStarts, counts, openrc
  <2> QED BY <2>1, <2>2, <2>3, <2>4, <2>5, <2>6, <2>7 DEF Next
<1> QED BY <1>1 DEF TypeInv, Calm

(* A step of p that holds the lock, or changes nothing that is shown.        *)
LEMMA WholeStep ==
  ASSUME LockInv, WholeInv, Calm' => Calm, NEW p \in Procs, Kept(p),
         UNCHANGED view \/ holder = p,
         Calm /\ Calm' => TheWhole' /\ WholeAt(p)'
  PROVE  WholeInv'
<1> SUFFICES ASSUME Calm, Calm' PROVE TheWhole' /\ \A q \in Procs : WholeAt(q)'
  BY DEF WholeInv
<1>1. ASSUME NEW q \in Procs \ {p} PROVE WholeAt(q)'
  <2>1. CASE UNCHANGED view
    <3>1. WholeAt(q)
      BY DEF WholeInv
    <3>2. /\ Uniform' = Uniform /\ Found(q)' = Found(q) /\ pc'[q] = pc[q] /\ verb'[q] = verb[q]
      BY <2>1 DEF Kept, Uniform, Found
    <3>3. Replaces(q) => Replaces(q)'
      BY <2>1, <3>2 DEF Replaces
    <3> QED BY <3>1, <3>2, <3>3 DEF WholeAt
  <2>2. CASE holder = p
    <3>1. pc[q] \notin Inside
      BY <2>2 DEF LockInv, EngineAt
    <3> QED BY <3>1 DEF WholeAt, Kept, Inside
  <2> QED BY <2>1, <2>2
<1> QED BY <1>1

(* A step of p outside the engine, or in it without a change of the engine.  *)
LEMMA WholeApart ==
  ASSUME LockInv, WholeInv, Calm' => Calm, NEW p \in Procs, Kept(p), UNCHANGED engine,
         pc'[p] \in {"old", "ready"} => pc'[p] = pc[p] /\ UNCHANGED <<verb, snap>>
  PROVE  WholeInv'
<1>1. UNCHANGED <<view, phase, goal>>
  BY DEF engine, openrc
<1>2. Uniform' = Uniform /\ E!AllBare' = E!AllBare
  BY <1>1 DEF Uniform, E!AllBare
<1>3. ASSUME Calm PROVE TheWhole' /\ WholeAt(p)'
  <2>1. TheWhole /\ WholeAt(p)
    BY <1>3 DEF WholeInv
  <2>2. TheWhole'
    BY <1>1, <1>2, <2>1 DEF TheWhole
  <2>3. CASE pc'[p] \in {"old", "ready"}
    <3>1. Replaces(p) => Replaces(p)'
      BY <1>1, <2>3 DEF Replaces, Found
    <3> QED BY <1>2, <2>1, <2>2, <2>3, <3>1 DEF WholeAt
  <2>4. CASE pc'[p] \notin {"old", "ready"}
    BY <2>2, <2>4 DEF WholeAt
  <2> QED BY <2>3, <2>4
<1> QED BY <1>1, <1>3, WholeStep

(* p stops with nothing changed.                                             *)
LEMMA WholeStops ==
  ASSUME LockInv, WholeInv, Calm' => Calm, NEW p \in Procs, Kept(p), E!Stop, UNCHANGED view,
         pc[p] \in {"old", "ready", "stop"}, pc'[p] = "undo", Calm => Uniform
  PROVE  WholeInv'
<1>1. phase = "old" /\ goal = E!AllBare /\ holder = p
  BY DEF LockInv, EngineAt, Inside
<1>2. goal' = E!AllBare /\ E!AllBare' = E!AllBare
  BY <1>1 DEF E!Stop, E!AllBare
<1>3. Uniform' = Uniform
  BY DEF Uniform
<1>4. ASSUME Calm PROVE TheWhole' /\ WholeAt(p)'
  BY <1>2, <1>3, <1>4 DEF TheWhole, WholeAt
<1> QED BY <1>4, WholeStep

(* p ends: unless it is killed, without the lock.                            *)
LEMMA WholeDies ==
  ASSUME TypeInv, LockInv, WholeInv, Calm' => Calm, NEW p \in Procs, Dies(p), disk' = disk,
         bounds' = bounds, pc[p] \notin Inside
  PROVE  WholeInv'
<1>1. Kept(p) /\ pc'[p] = "idle"
  BY GoneKept DEF Dies, Kept
<1>2. holder # p
  BY DEF LockInv, EngineAt
<1> QED BY <1>1, <1>2, WholeApart DEF Dies

(* WholeInv holds at first.                                                  *)
LEMMA WholeInit == Init => WholeInv
BY DEF Init, WholeInv, TheWhole, WholeAt, Uniform, E!Init, E!AllBare

(* WholeInv and what a process does of itself, by the actions.               *)
LEMMA WholeProceeds ==
  ASSUME TypeInv, LockInv, WholeInv, Calm' => Calm, NEW p \in Procs, Proceeds(p)
  PROVE  WholeInv'
<1>1. Kept(p) /\ AskedAt(p) /\ EngineAt(p)
  BY ProceedsKept DEF LockInv
<1>2. CASE CheckMerged(p)
  <2>1. UNCHANGED engine /\ pc'[p] \in {"idle", "probe"}
    BY <1>2, GoneKept DEF CheckMerged, TypeInv, Goto, Locals, openrc
  <2> QED BY <1>1, <2>1, WholeApart
<1>3. CASE CollectUnlocked(p)
  <2>1. UNCHANGED engine /\ pc'[p] \notin {"old", "ready"}
    BY <1>3 DEF CollectUnlocked, TypeInv, Goto, Locals, openrc
  <2> QED BY <1>1, <2>1, WholeApart
<1>4. CASE StopNext(p)
  <2>1. UNCHANGED engine /\ pc'[p] \notin {"old", "ready"}
    BY <1>4 DEF StopNext, TypeInv, Goto, Locals, openrc
  <2> QED BY <1>1, <2>1, WholeApart
<1>5. CASE Prestopped(p)
  <2>1. UNCHANGED engine /\ pc'[p] \notin {"old", "ready"}
    BY <1>5 DEF Prestopped, TypeInv, Goto, Locals, openrc
  <2> QED BY <1>1, <2>1, WholeApart
<1>6. CASE Probe(p)
  <2>1. UNCHANGED engine /\ pc'[p] \notin {"old", "ready"}
    BY <1>6 DEF Probe, TypeInv, Goto, Locals, openrc
  <2> QED BY <1>1, <2>1, WholeApart
<1>7. CASE Enter(p)
  <2>1. /\ phase = "free" /\ phase' = "old" /\ view' = view /\ verb' = verb
        /\ pc'[p] \in {"old", "ready"}
    BY <1>7 DEF Enter, TypeInv, Goto, Locals, openrc, E!Take
  <2>2. Uniform' = Uniform
    BY <2>1 DEF Uniform
  <2>3. ASSUME Calm PROVE TheWhole' /\ WholeAt(p)'
    BY <2>1, <2>2, <2>3 DEF WholeInv, TheWhole, WholeAt
  <2> QED BY <1>1, <2>1, <2>3, WholeStep
<1>8. CASE Refuse(p)
  <2>1. /\ E!Stop /\ UNCHANGED view /\ pc[p] \in {"old", "ready", "stop"} /\ pc'[p] = "undo"
    BY <1>8 DEF Refuse, TypeInv, Goto, Locals, openrc, Works, Reports
  <2>2. Calm => Uniform
    BY <1>8 DEF Refuse, Works, WholeInv, WholeAt
  <2> QED BY <1>1, <2>1, <2>2, WholeStops
<1>9. CASE Prepare(p)
  <2>1. UNCHANGED engine /\ pc[p] = "old" /\ pc'[p] = "ready" /\ phase = "old"
    BY <1>1, <1>9 DEF Prepare, TypeInv, Goto, Locals, openrc, Works, EngineAt
  <2>2. UNCHANGED <<view, phase, goal>> /\ Uniform' = Uniform
    BY <2>1 DEF engine, openrc, Uniform
  <2>3. ASSUME Calm PROVE TheWhole' /\ WholeAt(p)'
    BY <2>1, <2>2, <2>3 DEF WholeInv, TheWhole, WholeAt
  <2> QED BY <1>1, <2>2, <2>3, WholeStep
<1>10. CASE NothingToDo(p)
  <2>1. /\ E!Stop /\ UNCHANGED view /\ pc[p] \in {"old", "ready", "stop"} /\ pc'[p] = "undo"
    BY <1>10 DEF NothingToDo, TypeInv, Goto, Locals, openrc, Works, Reports
  <2>2. Calm => Uniform
    <3>1. CASE \A h \in H : view[h] = E!Bare
      BY <3>1 DEF Uniform
    <3>2. CASE ~\A h \in H : view[h] = E!Bare
      <4>1. /\ verb[p] # "unmerge"
            /\ \E h \in H : view[h] # E!Bare /\ view[h].names = Found(p)
        BY <1>10, <3>2 DEF NothingToDo
      <4>2. ~Replaces(p) /\ pc[p] = "ready"
        BY <1>10, <4>1 DEF Replaces, NothingToDo, Works
      <4> QED BY <4>1, <4>2 DEF WholeInv, WholeAt
    <3> QED BY <3>1, <3>2
  <2> QED BY <1>1, <2>1, <2>2, WholeStops
<1>11. CASE BeforeUnmerge(p)
  <2>1. UNCHANGED engine /\ pc'[p] \notin {"old", "ready"}
    BY <1>11 DEF BeforeUnmerge, TypeInv, Goto, Locals, openrc
  <2> QED BY <1>1, <2>1, WholeApart
<1>12. CASE \E h \in H : Hide(p, h)
  <2>1. PICK h \in H : Hide(p, h)
    BY <1>12
  <2>2. /\ holder = p /\ phase = "old" /\ phase' = "old" /\ UNCHANGED <<pc, verb, snap>>
        /\ view' = [view EXCEPT ![h] = E!Bare]
        /\ pc[p] = "stop" \/ (pc[p] = "ready" /\ (verb[p] = "unmerge" \/ Replaces(p)))
    BY <2>1 DEF Hide, Works, Locals, openrc, E!Hide
  <2>3. Replaces(p) => Replaces(p)'
    BY <2>2 DEF Replaces, Found, TypeInv
  <2>4. TheWhole' /\ WholeAt(p)'
    BY <2>2, <2>3 DEF TheWhole, WholeAt
  <2> QED BY <1>1, <2>2, <2>4, WholeStep
<1>13. CASE \E h \in H : Show(p, h)
  <2>1. PICK h \in H : Show(p, h)
    BY <1>13
  <2>2. holder = p /\ phase' = "new" /\ pc'[p] = "new"
    BY <2>1 DEF Show, TypeInv, Goto, Locals, openrc, Works, E!Show
  <2>3. TheWhole' /\ WholeAt(p)'
    BY <2>2 DEF TheWhole, WholeAt
  <2> QED BY <1>1, <2>2, <2>3, WholeStep
<1>14. CASE \E h \in H : Undo(p, h)
  <2>1. PICK h \in H : Undo(p, h)
    BY <1>14
  <2>2. holder = p /\ phase = "over" /\ goal[h] # E!Bare
    BY <2>1 DEF Undo, Works, E!Undo
  <2>3. ~Calm
    BY <2>2 DEF WholeInv, TheWhole, E!AllBare
  <2> QED BY <2>3 DEF WholeInv
<1>15. CASE Unmerged(p)
  <2>1. /\ E!Stop /\ UNCHANGED view /\ pc[p] \in {"old", "ready", "stop"} /\ pc'[p] = "undo"
    BY <1>15 DEF Unmerged, TypeInv, Goto, Locals, openrc, Works, Reports
  <2>2. Calm => Uniform
    BY <1>15 DEF Unmerged, Uniform
  <2> QED BY <1>1, <2>1, <2>2, WholeStops
<1>16. CASE Decide(p)
  <2>2. holder = p /\ phase' = "new" /\ pc'[p] = "new"
    BY <1>16 DEF Decide, TypeInv, Goto, Locals, openrc, Works, E!Decide
  <2>3. TheWhole' /\ WholeAt(p)'
    BY <2>2 DEF TheWhole, WholeAt
  <2> QED BY <1>1, <2>2, <2>3, WholeStep
<1>17. CASE Commit(p)
  <2>1. PICK r : Reports(p, r)
    BY <1>17, Zenon DEF Commit
  <2>2. /\ UNCHANGED view /\ view = goal /\ phase' = "done" /\ pc'[p] = "undo" /\ pc[p] = "new"
    BY <1>17, <2>1 DEF Commit, E!Commit, Works, Reports, Goto, TypeInv
  <2>3. view = [h \in H |-> Some(Found(p))]
    BY <1>1, <2>2 DEF EngineAt
  <2>4. TheWhole' /\ WholeAt(p)'
    BY <2>2, <2>3 DEF TheWhole, WholeAt, Uniform
  <2> QED BY <1>1, <2>2, <2>4, WholeStep
<1>18. CASE EngineFails(p)
  <2>1. faults' = faults + 1
    BY <1>18 DEF EngineFails
  <2> QED BY <2>1 DEF WholeInv, Calm, TypeInv
<1>19. CASE Unlock(p)
  <2>1. /\ UNCHANGED view /\ phase' = "free" /\ pc[p] = "undo" /\ pc'[p] = "after"
    BY <1>19 DEF Unlock, TypeInv, Goto, Locals, openrc, Works, E!Leave
  <2>2. Uniform' = Uniform /\ phase \in {"over", "done"}
    BY <1>1, <2>1 DEF Uniform, EngineAt
  <2>3. ASSUME Calm PROVE TheWhole' /\ WholeAt(p)'
    BY <2>1, <2>2, <2>3 DEF WholeInv, TheWhole, WholeAt
  <2> QED BY <1>1, <2>1, <2>3, WholeStep
<1>20. CASE Redeliver(p)
  <2>1. UNCHANGED engine /\ pc'[p] = "idle"
    BY <1>20, GoneKept DEF Redeliver
  <2> QED BY <1>1, <2>1, WholeApart
<1>21. CASE AfterEngine(p)
  <2>1. UNCHANGED engine /\ pc'[p] \notin {"old", "ready"}
    BY <1>21 DEF AfterEngine, TypeInv, Goto, Locals, openrc
  <2> QED BY <1>1, <2>1, WholeApart
<1>22. CASE NoActionsDue(p)
  <2>1. UNCHANGED engine /\ pc'[p] = "idle"
    BY <1>22, GoneKept DEF NoActionsDue
  <2> QED BY <1>1, <2>1, WholeApart
<1>23. CASE ApplyNext(p)
  <2>1. UNCHANGED engine /\ pc'[p] \notin {"old", "ready"}
    BY <1>23 DEF ApplyNext, TypeInv, Goto, Locals, openrc
  <2> QED BY <1>1, <2>1, WholeApart
<1>24. CASE Applied(p)
  <2>1. UNCHANGED engine /\ pc'[p] = "idle"
    BY <1>24, GoneKept DEF Applied
  <2> QED BY <1>1, <2>1, WholeApart
<1>25. CASE CollectFails(p) \/ SkipApply(p)
  <2>1. UNCHANGED engine /\ pc'[p] = "idle"
    BY <1>25, FailsOrSkips, GoneKept DEF GivesUp
  <2> QED BY <1>1, <2>1, WholeApart
<1> QED BY <1>2, <1>3, <1>4, <1>5, <1>6, <1>7, <1>8, <1>9, <1>10, <1>11, <1>12, <1>13,
       <1>14, <1>15, <1>16, <1>17, <1>18, <1>19, <1>20, <1>21, <1>22, <1>23, <1>24,
       <1>25 DEF Proceeds

(* A step that changes neither the engine nor where a process is.            *)
LEMMA WholeKept ==
  ASSUME WholeInv, Calm' => Calm, UNCHANGED <<pc, verb, snap, view, phase, goal>>
  PROVE  WholeInv'
<1>1. Uniform' = Uniform /\ E!AllBare' = E!AllBare
  BY DEF Uniform, E!AllBare
<1>2. ASSUME NEW p \in Procs, WholeAt(p) PROVE WholeAt(p)'
  <2>1. Replaces(p) => Replaces(p)'
    BY DEF Replaces, Found
  <2> QED BY <1>1, <1>2, <2>1 DEF WholeAt
<1> QED BY <1>1, <1>2 DEF WholeInv, TheWhole

(* WholeInv and every step.                                                  *)
LEMMA WholeNext == TypeInv /\ LockInv /\ WholeInv /\ [Next]_vars => WholeInv'
<1> SUFFICES ASSUME TypeInv, LockInv, WholeInv, [Next]_vars PROVE WholeInv'
  OBVIOUS
<1>0. Calm' => Calm
  BY CalmBefore
<1>1. CASE UNCHANGED vars
  BY <1>0, <1>1, WholeKept DEF vars, engine, openrc
<1>2. ASSUME NEW p \in Procs, Proceeds(p) PROVE WholeInv'
  BY <1>0, <1>2, WholeProceeds
<1>3. ASSUME NEW p \in Procs, Signal(p) PROVE WholeInv'
  <2>1. CASE pc[p] \in Held
    BY <1>0, <1>3, <2>1, WholeKept DEF Signal, engine, openrc
  <2>2. CASE pc[p] \notin Held
    <3>1. Dies(p) /\ disk' = disk /\ bounds' = bounds /\ pc[p] \notin Inside
      BY <1>3, <2>2 DEF Signal, counts, openrc, Held, Inside
    <3> QED BY <1>0, <3>1, WholeDies
  <2> QED BY <2>1, <2>2
<1>4. ASSUME NEW p \in Procs, Kill(p) PROVE WholeInv'
  <2>1. kills' = kills + 1
    BY <1>4 DEF Kill
  <2> QED BY <2>1 DEF WholeInv, Calm, TypeInv
<1>5. ASSUME NEW p \in Procs, NEW v \in VerbNames, Start(p, v) PROVE WholeInv'
  <2>1. Kept(p) /\ UNCHANGED engine
    BY <1>5 DEF Start, Kept, Goto, TypeInv, counts, openrc
  <2>2. pc'[p] = StartsAt(v)
    BY <1>5, Zenon DEF Start, Goto, TypeInv, StartsAt
  <2>3. pc'[p] \notin {"old", "ready"}
    BY <2>2, Starts DEF VerbNames
  <2> QED BY <1>0, <2>1, <2>3, WholeApart
<1>6. CASE Install
  BY <1>0, <1>6, WholeKept DEF Install, Locals, openrc, engine
<1>7. ASSUME NEW s \in Services, AdminStarts(s) PROVE WholeInv'
  BY <1>0, <1>7, WholeKept DEF AdminStarts, Locals, openrc, engine
<1> QED BY <1>1, <1>2, <1>3, <1>4, <1>5, <1>6, <1>7 DEF Next

----------------------------------------------------------------------------
(* What a refresh merged is what is installed.                               *)

(* Without other verbs, the others are idle.                                 *)
LEMMA Alone ==
  ASSUME LockInv, OneAtATime, NEW p \in Procs, p \in bounds.procs
  PROVE  \A q \in Procs \ {p} : pc[q] = "idle"
BY DEF LockInv, AskedAt, OneAtATime

(* A step of p.                                                              *)
LEMMA CurrentStep ==
  ASSUME LockInv, CurrentInv, Calm' => Calm, NEW p \in Procs, Kept(p),
         Calm /\ Calm' /\ current' => /\ UpToDate' /\ pc'[p] \notin Working
                                      /\ current \/ holder = p
  PROVE  CurrentInv'
<1> SUFFICES ASSUME Calm', current'
             PROVE  UpToDate' /\ \A q \in Procs : pc'[q] \notin Working
  BY DEF CurrentInv
<1>1. ASSUME NEW q \in Procs \ {p} PROVE pc'[q] \notin Working
  <2>1. CASE current
    BY <2>1 DEF CurrentInv, Kept
  <2>2. CASE holder = p
    BY <2>2 DEF LockInv, EngineAt, Inside, Working, Kept
  <2> QED BY <2>1, <2>2
<1> QED BY <1>1

(* A step of p that the hierarchies do not change by.                        *)
LEMMA CurrentApart ==
  ASSUME LockInv, CurrentInv, Calm' => Calm, NEW p \in Procs, Kept(p), UNCHANGED view,
         current' => current, pc'[p] \in Working => pc[p] \in Working \/ ~current'
  PROVE  CurrentInv'
<1>1. UpToDate' = UpToDate
  BY DEF UpToDate, Kept
<1> QED BY <1>1, CurrentStep DEF CurrentInv

(* A step of p while it works on the hierarchies.                            *)
LEMMA CurrentWorks ==
  ASSUME CurrentInv, Calm' => Calm, NEW p \in Procs, pc[p] \in Working, current' => current
  PROVE  CurrentInv'
BY DEF CurrentInv

(* The refresh that p works on merges the images on disk.                    *)
LEMMA CurrentAt ==
  ASSUME LockInv, NEW p \in Procs, since[p]
  PROVE  verb[p] = "refresh" /\ Found(p) = disk \cap Fits
BY DEF LockInv, AskedAt, Found

(* A hierarchy with a merge shows images.                                    *)
LEMMA NotBare ==
  ASSUME TypeInv, NEW h \in H
  PROVE  view[h] = E!Bare <=> view[h].names = {}
<1>1. view[h] \in Shown
  BY DEF TypeInv
<1>2. E!Bare.names = {}
  BY DEF E!Bare
<1>3. ASSUME NEW images \in (SUBSET Images) \ {{}}, view[h] = Some(images)
      PROVE  view[h].names # {}
  BY <1>3 DEF Some
<1> QED BY <1>1, <1>2, <1>3 DEF Shown

(* CurrentInv holds at first.                                                *)
LEMMA CurrentInit == Init => CurrentInv
BY DEF Init, CurrentInv

(* CurrentInv and what a process does of itself, by the actions.             *)
LEMMA CurrentProceeds ==
  ASSUME TypeInv, LockInv, WholeInv, CurrentInv, Calm' => Calm, NEW p \in Procs, Proceeds(p)
  PROVE  CurrentInv'
<1>1. Kept(p) /\ AskedAt(p) /\ EngineAt(p)
  BY ProceedsKept DEF LockInv
<1>2. CASE CheckMerged(p)
  <2>1. /\ UNCHANGED view /\ current' = current
        /\ pc'[p] \notin Working \/ pc[p] \in Working
    BY <1>2, GoneKept DEF CheckMerged, TypeInv, Goto, Locals, history, engine, Working
  <2> QED BY <1>1, <2>1, CurrentApart
<1>3. CASE CollectUnlocked(p)
  <2>1. /\ UNCHANGED view /\ current' = current
        /\ pc'[p] \notin Working \/ pc[p] \in Working
    BY <1>3 DEF CollectUnlocked, TypeInv, Goto, Locals, history, engine, Working
  <2> QED BY <1>1, <2>1, CurrentApart
<1>4. CASE StopNext(p)
  <2>1. /\ UNCHANGED view /\ current' = current
        /\ pc'[p] \notin Working \/ pc[p] \in Working
    BY <1>4 DEF StopNext, TypeInv, Goto, Locals, history, engine, Working
  <2> QED BY <1>1, <2>1, CurrentApart
<1>5. CASE Prestopped(p)
  <2>1. /\ UNCHANGED view /\ current' = current
        /\ pc'[p] \notin Working \/ pc[p] \in Working
    BY <1>5 DEF Prestopped, TypeInv, Goto, Locals, history, engine, Working
  <2> QED BY <1>1, <2>1, CurrentApart
<1>6. CASE Probe(p)
  <2>1. /\ UNCHANGED view /\ current' = current
        /\ pc'[p] \notin Working \/ pc[p] \in Working
    BY <1>6 DEF Probe, TypeInv, Goto, Locals, history, engine, Working
  <2> QED BY <1>1, <2>1, CurrentApart
<1>7. CASE Enter(p)
  BY <1>7 DEF Enter, CurrentInv
<1>8. CASE Refuse(p)
  BY <1>8 DEF Refuse, Reports, CurrentInv
<1>9. CASE Prepare(p)
  <2>1. /\ UNCHANGED view /\ current' = current
        /\ pc'[p] \notin Working \/ pc[p] \in Working
    BY <1>9 DEF Prepare, TypeInv, Goto, Locals, history, engine, Working, Works
  <2> QED BY <1>1, <2>1, CurrentApart
<1>10. CASE NothingToDo(p)
  <2>1. /\ UNCHANGED view /\ pc'[p] = "undo" /\ pc[p] = "ready" /\ holder = p
        /\ current' => since[p]
    BY <1>10 DEF NothingToDo, TypeInv, Goto, Works, Reports
  <2>2. ASSUME Calm, current' PROVE UpToDate'
    <3>1. verb[p] = "refresh" /\ Found(p) = disk \cap Fits
      BY <2>1, <2>2, CurrentAt
    <3>2. UpToDate' = UpToDate
      BY <1>1, <2>1 DEF UpToDate, Kept
    <3>3. CASE Found(p) = {}
      <4>1. \A h \in H : view[h] = E!Bare
        BY <1>10, <3>3 DEF NothingToDo
      <4> QED BY <3>1, <3>2, <3>3, <4>1 DEF UpToDate, E!Bare
    <3>4. CASE Found(p) # {}
      <4>1. PICK h \in H : view[h] # E!Bare /\ view[h].names = Found(p)
        BY <1>10, <3>1, <3>4 DEF NothingToDo
      <4>2. ~Replaces(p)
        BY <4>1 DEF Replaces
      <4>3. Uniform
        BY <2>1, <2>2, <3>1, <4>2 DEF WholeInv, WholeAt
      <4> QED BY <3>1, <3>2, <4>1, <4>3 DEF UpToDate, Uniform
    <3> QED BY <3>3, <3>4
  <2> QED BY <1>1, <2>1, <2>2, CurrentStep DEF Working
<1>11. CASE BeforeUnmerge(p)
  <2>1. /\ UNCHANGED view /\ current' = current
        /\ pc'[p] \notin Working \/ pc[p] \in Working
    BY <1>11 DEF BeforeUnmerge, TypeInv, Goto, Locals, history, engine, Working, Works
  <2> QED BY <1>1, <2>1, CurrentApart
<1>12. CASE \E h \in H : Hide(p, h)
  BY <1>12, CurrentWorks DEF Hide, Works, Working, history
<1>13. CASE \E h \in H : Show(p, h)
  BY <1>13, CurrentWorks DEF Show, Works, Working, history
<1>14. CASE \E h \in H : Undo(p, h)
  <2>1. PICK h \in H : phase = "over" /\ goal[h] # E!Bare
    BY <1>14 DEF Undo, E!Undo
  <2>2. ~Calm
    BY <2>1 DEF WholeInv, TheWhole, E!AllBare
  <2> QED BY <2>2 DEF CurrentInv
<1>15. CASE Unmerged(p)
  <2>1. /\ UNCHANGED view /\ pc'[p] = "undo" /\ pc[p] = "stop" /\ holder = p
        /\ current' => since[p]
    BY <1>15 DEF Unmerged, TypeInv, Goto, Works, Reports
  <2>2. ASSUME current' PROVE UpToDate'
    <3>1. Found(p) = disk \cap Fits
      BY <2>1, <2>2, CurrentAt
    <3>2. UpToDate' = UpToDate
      BY <1>1, <2>1 DEF UpToDate, Kept
    <3>3. Found(p) = {} /\ \A h \in H : view[h] = E!Bare
      BY <1>1, <2>1, <1>15 DEF Unmerged, AskedAt
    <3> QED BY <3>1, <3>2, <3>3 DEF UpToDate, E!Bare
  <2> QED BY <1>1, <2>1, <2>2, CurrentStep DEF Working
<1>16. CASE Decide(p)
  BY <1>16, CurrentWorks DEF Decide, Works, Working, history
<1>17. CASE Commit(p)
  <2>1. PICK r : Reports(p, r)
    BY <1>17, Zenon DEF Commit
  <2>2. /\ UNCHANGED view /\ pc'[p] = "undo" /\ pc[p] = "new" /\ holder = p /\ view = goal
        /\ current' => since[p]
    BY <1>17, <2>1 DEF Commit, TypeInv, Goto, Works, E!Commit, Reports
  <2>3. ASSUME current' PROVE UpToDate'
    <3>1. Found(p) = disk \cap Fits
      BY <2>2, <2>3, CurrentAt
    <3>2. UpToDate' = UpToDate
      BY <1>1, <2>2 DEF UpToDate, Kept
    <3>3. view = [h \in H |-> Some(Found(p))]
      BY <1>1, <2>2 DEF EngineAt
    <3> QED BY <3>1, <3>2, <3>3 DEF UpToDate, Some
  <2> QED BY <1>1, <2>2, <2>3, CurrentStep DEF Working
<1>18. CASE EngineFails(p)
  BY <1>18 DEF EngineFails, Reports, CurrentInv
<1>19. CASE Unlock(p)
  <2>1. /\ UNCHANGED view /\ current' = current
        /\ pc'[p] \notin Working \/ pc[p] \in Working
    BY <1>19 DEF Unlock, TypeInv, Goto, Locals, history, engine, Working, E!Leave
  <2> QED BY <1>1, <2>1, CurrentApart
<1>20. CASE Redeliver(p)
  <2>1. /\ UNCHANGED view /\ current' = current
        /\ pc'[p] \notin Working \/ pc[p] \in Working
    BY <1>20, GoneKept DEF Redeliver, TypeInv, Goto, Locals, history, engine, Working
  <2> QED BY <1>1, <2>1, CurrentApart
<1>21. CASE AfterEngine(p)
  <2>1. /\ UNCHANGED view /\ current' = current
        /\ pc'[p] \notin Working \/ pc[p] \in Working
    BY <1>21 DEF AfterEngine, TypeInv, Goto, Locals, history, engine, Working
  <2> QED BY <1>1, <2>1, CurrentApart
<1>22. CASE NoActionsDue(p)
  <2>1. /\ UNCHANGED view /\ current' = current
        /\ pc'[p] \notin Working \/ pc[p] \in Working
    BY <1>22, GoneKept DEF NoActionsDue, TypeInv, Goto, Locals, history, engine, Working
  <2> QED BY <1>1, <2>1, CurrentApart
<1>23. CASE ApplyNext(p)
  <2>1. /\ UNCHANGED view /\ current' = current
        /\ pc'[p] \notin Working \/ pc[p] \in Working
    BY <1>23 DEF ApplyNext, TypeInv, Goto, Locals, history, engine, Working
  <2> QED BY <1>1, <2>1, CurrentApart
<1>24. CASE Applied(p)
  <2>1. /\ UNCHANGED view /\ current' = current
        /\ pc'[p] \notin Working \/ pc[p] \in Working
    BY <1>24, GoneKept DEF Applied, TypeInv, Goto, Locals, history, engine, Working
  <2> QED BY <1>1, <2>1, CurrentApart
<1>25. CASE CollectFails(p) \/ SkipApply(p)
  <2>1. UNCHANGED view /\ current' = current /\ pc'[p] = "idle"
    BY <1>25, FailsOrSkips, GoneKept DEF GivesUp, engine
  <2> QED BY <1>1, <2>1, CurrentApart DEF Working
<1> QED BY <1>2, <1>3, <1>4, <1>5, <1>6, <1>7, <1>8, <1>9, <1>10, <1>11, <1>12, <1>13, <1>14,
       <1>15, <1>16, <1>17, <1>18, <1>19, <1>20, <1>21, <1>22, <1>23, <1>24,
          <1>25 DEF Proceeds

(* A step that neither the images nor the hierarchies nor a verb change by.  *)
LEMMA CurrentKept ==
  ASSUME CurrentInv, Calm' => Calm, UNCHANGED <<disk, pc, view, current>>
  PROVE  CurrentInv'
BY DEF CurrentInv, UpToDate

(* CurrentInv and every step.                                                *)
LEMMA CurrentNext ==
  TypeInv /\ LockInv /\ WholeInv /\ CurrentInv /\ [Next]_vars => CurrentInv'
<1> SUFFICES ASSUME TypeInv, LockInv, WholeInv, CurrentInv, [Next]_vars PROVE CurrentInv'
  OBVIOUS
<1>0. Calm' => Calm
  BY CalmBefore
<1>1. CASE UNCHANGED vars
  BY <1>0, <1>1, CurrentKept DEF vars, history, engine
<1>2. ASSUME NEW p \in Procs, Proceeds(p) PROVE CurrentInv'
  BY <1>0, <1>2, CurrentProceeds
<1>3. ASSUME NEW p \in Procs, Signal(p) PROVE CurrentInv'
  <2>1. CASE pc[p] \in Held
    BY <1>0, <1>3, <2>1, CurrentKept DEF Signal, engine
  <2>2. CASE pc[p] \notin Held
    <3>1. /\ Dies(p) /\ bounds' = bounds /\ disk' = disk /\ current' = current
          /\ pc[p] \notin Inside
      BY <1>3, <2>2 DEF Signal, counts, Held, Inside
    <3>2. Kept(p) /\ pc'[p] = "idle"
      BY <3>1, GoneKept DEF Dies, Kept
    <3>3. UNCHANGED view
      BY <3>1 DEF Dies, engine, LockInv, EngineAt
    <3> QED BY <1>0, <3>1, <3>2, <3>3, CurrentApart DEF Working
  <2> QED BY <2>1, <2>2
<1>4. ASSUME NEW p \in Procs, Kill(p) PROVE CurrentInv'
  <2>1. kills' = kills + 1
    BY <1>4 DEF Kill
  <2> QED BY <2>1 DEF CurrentInv, Calm, TypeInv
<1>5. ASSUME NEW p \in Procs, NEW v \in VerbNames, Start(p, v) PROVE CurrentInv'
  <2>1. Kept(p) /\ UNCHANGED view /\ current' = current
    BY <1>5 DEF Start, Kept, Goto, TypeInv, counts, engine
  <2>2. pc'[p] = StartsAt(v)
    BY <1>5, Zenon DEF Start, Goto, TypeInv, StartsAt
  <2>3. pc'[p] \notin Working
    BY <2>2, Starts DEF VerbNames, Working
  <2> QED BY <1>0, <2>1, <2>3, CurrentApart
<1>6. CASE Install
  BY <1>6 DEF Install, CurrentInv
<1>7. ASSUME NEW s \in Services, AdminStarts(s) PROVE CurrentInv'
  BY <1>0, <1>7, CurrentKept DEF AdminStarts, history, engine
<1> QED BY <1>1, <1>2, <1>3, <1>4, <1>5, <1>6, <1>7 DEF Next

----------------------------------------------------------------------------
(* The services.                                                             *)

(* Listed units are units, to be restarted or to be reloaded.                *)
LEMMA ListedNames ==
  ASSUME TypeInv
  PROVE  /\ Listed \subseteq UnitNames
         /\ \A u \in Listed : u \in CollectActions(Merged).restart
                               \/ u \in CollectActions(Merged).reload
<1>1. \A x \in Merged : Restart[x] \subseteq UnitNames /\ Reload[x] \subseteq UnitNames
  BY MergedImages, ServicesAssumption
<1> QED BY <1>1 DEF Listed, CollectActions

(* The units of the merged extensions, all of them in the list to go through. *)
LEMMA AllInOrder ==
  ASSUME TypeInv
  PROVE  LET s == InOrder(CollectActions(Merged))
         IN  /\ s \in Seq(UnitNames) /\ Listed \subseteq In(s)
             /\ CollectActions(Merged).restart \subseteq In(s)
BY ListedNames, InOrderIs DEF Listed

(* Nothing is merged, nothing is listed.                                     *)
LEMMA NothingListed ==
  ASSUME view = E!AllBare
  PROVE  CollectActions(Merged).restart = {}
<1>1. Merged = {}
  BY DEF Merged, E!AllBare, E!Bare
<1> QED BY <1>1 DEF CollectActions

(* With less merged, less is listed and less has to be stopped.              *)
LEMMA LessListed ==
  ASSUME Merged' \subseteq Merged, UNCHANGED <<running, refused>>
  PROVE  /\ Listed' \subseteq Listed
         /\ \A u \in Listed' : Stopped(u) => Stopped(u)'
<1>1. Listed' \subseteq Listed
  BY DEF Listed, CollectActions
<1>2. ASSUME NEW u, Stopped(u) PROVE Stopped(u)'
  BY <1>2 DEF Stopped, MustStop, Providers
<1> QED BY <1>1, <1>2

(* When stopProvidedServices begins, each listed unit is on its list, or has *)
(* been given up.                                                            *)
LEMMA StopsList ==
  ASSUME TypeInv, NEW p \in Procs, Stopping(p, CollectActions(Merged)),
         UNCHANGED <<view, running>>
  PROVE  \A u \in Listed' : u \in In(todo'[p]) \/ Stopped(u)'
<1>1. Merged' = Merged
  BY DEF Merged
<1>2. Listed' = Listed
  BY <1>1 DEF Listed, CollectActions
<1>3. CASE todo'[p] = InOrder(CollectActions(Merged))
  BY <1>2, <1>3, AllInOrder
<1>4. CASE ServicesOf(Listed) \subseteq refused'
  <2>1. ASSUME NEW u \in Listed, MustStop(u, running, Merged) PROVE ServiceOf[u] \in refused'
    <3>1. ServiceOf[u] \in Services
      BY <2>1, ListedNames, UnitIsService
    <3> QED BY <1>4, <3>1 DEF ServicesOf
  <2> QED BY <1>1, <1>2, <2>1 DEF Stopped
<1> QED BY <1>3, <1>4, StoppingTypes DEF Listed

(* A unit that had its turn is stopped, and the others stay so.              *)
LEMMA OneStops ==
  ASSUME TypeInv, NEW u \in UnitNames, StopsOrSkips(u) \/ StopFails(u), UNCHANGED view
  PROVE  Stopped(u)' /\ \A v \in UnitNames : Stopped(v) => Stopped(v)'
<1>1. Merged' = Merged
  BY DEF Merged
<1>2. refused \subseteq refused'
  BY StopsTypes
<1>3. ASSUME NEW v \in UnitNames, MustStop(v, running', Merged) PROVE MustStop(v, running, Merged)
  <2>1. ServiceOf[v] \in Services
    BY <1>3, ServicesAssumption DEF MustStop
  <2>2. running'[ServiceOf[v]] \in {running[ServiceOf[v]], {}}
    BY <2>1 DEF StopsOrSkips, StopFails, TypeInv, openrc
  <2> QED BY <1>3, <2>2 DEF MustStop
<1>4. MustStop(u, running', Merged) => ServiceOf[u] \in refused'
  <2>1. CASE StopFails(u)
    BY <2>1 DEF StopFails, Refuses
  <2>2. CASE ~MustStop(u, running, Merged)
    BY <1>3, <2>2
  <2>3. CASE StopsOrSkips(u) /\ MustStop(u, running, Merged)
    <3>1. ServiceOf[u] \in Services
      BY <2>3, UnitIsService
    <3>2. running'[ServiceOf[u]] = {}
      BY <2>3, <3>1 DEF StopsOrSkips, TypeInv
    <3> QED BY <3>2 DEF MustStop
  <2> QED BY <2>1, <2>2, <2>3
<1> QED BY <1>1, <1>2, <1>3, <1>4 DEF Stopped

(* A unit to restart that had its turn is fresh, and the others stay so.     *)
LEMMA OneApplies ==
  ASSUME TypeInv, NEW u \in UnitNames, NEW a, AppliesOrSkips(u, a) \/ ApplyFails(u),
         UNCHANGED view
  PROVE  /\ u \notin a.reload => Fresh(u)'
         /\ \A v \in UnitNames : Fresh(v) => Fresh(v)'
<1>1. Merged' = Merged
  BY DEF Merged
<1>2. refused \subseteq refused'
  BY AppliesTypes
<1>3. ASSUME u \notin a.reload, Exists(u, Merged), ServiceOf[u] \notin refused'
      PROVE  running'[ServiceOf[u]] = Providers(ServiceOf[u], Merged)
  <2>1. ServiceOf[u] \in Services
    BY <1>3, UnitIsService
  <2>2. ~ApplyFails(u) /\ ~Reloads(u, a, running)
    BY <1>3 DEF ApplyFails, Refuses, Reloads
  <2> QED BY <1>3, <2>1, <2>2 DEF AppliesOrSkips, TypeInv
<1>4. ASSUME NEW v \in UnitNames, Fresh(v), Exists(v, Merged), ServiceOf[v] \notin refused'
      PROVE  running'[ServiceOf[v]] = Providers(ServiceOf[v], Merged)
  <2>1. ServiceOf[v] \in Services /\ running[ServiceOf[v]] = Providers(ServiceOf[v], Merged)
    BY <1>2, <1>4, UnitIsService DEF Fresh
  <2>2. CASE ApplyFails(u)
    <3>1. ServiceOf[v] # ServiceOf[u]
      BY <1>4, <2>2 DEF ApplyFails, Refuses
    <3> QED BY <2>1, <2>2, <3>1 DEF ApplyFails, TypeInv
  <2>3. CASE AppliesOrSkips(u, a)
    BY <2>1, <2>3 DEF AppliesOrSkips, TypeInv, openrc
  <2> QED BY <2>2, <2>3
<1> QED BY <1>1, <1>3, <1>4 DEF Fresh

(* A step of p, which was not idle and is not at its end.                    *)
LEMMA ServicesStep ==
  ASSUME LockInv, NEW p \in Procs, Kept(p), p \in bounds.procs,
         OneAtATime => RestartsAt(p)' /\ StopsAt(p)' /\ ~restarted'
  PROVE  ServicesInv'
<1> SUFFICES ASSUME OneAtATime'
             PROVE  /\ \A q \in Procs : RestartsAt(q)' /\ StopsAt(q)'
                    /\ ~restarted'
  BY DEF ServicesInv
<1>1. OneAtATime
  BY DEF OneAtATime, Kept
<1>2. \A q \in Procs \ {p} : pc'[q] = "idle"
  BY <1>1, Alone DEF Kept
<1>3. \A q \in Procs \ {p} : RestartsAt(q)' /\ StopsAt(q)'
  BY <1>2 DEF RestartsAt, StopsAt
<1> QED BY <1>1, <1>3

(* A step that changes no service and nothing that is shown.                 *)
LEMMA ServicesKept ==
  ASSUME ServicesInv, UNCHANGED <<bounds, openrc, view, pc, verb, acts, todo, result>>,
         restarted' => restarted
  PROVE  ServicesInv'
<1>1. Merged' = Merged
  BY DEF Merged
<1>2. Listed' = Listed /\ CollectActions(Merged)' = CollectActions(Merged)
  BY <1>1 DEF Listed, CollectActions
<1>3. \A u : Fresh(u)' = Fresh(u) /\ Stopped(u)' = Stopped(u)
  BY <1>1 DEF Fresh, Stopped, MustStop, Exists, Providers, openrc
<1>4. E!AllBare' = E!AllBare
  BY DEF E!AllBare
<1>5. \A p \in Procs : RestartsAt(p) /\ StopsAt(p) => RestartsAt(p)' /\ StopsAt(p)'
  BY <1>1, <1>2, <1>3, <1>4 DEF RestartsAt, StopsAt
<1> QED BY <1>2, <1>3, <1>5 DEF ServicesInv, OneAtATime, Idle

(* p goes where nothing is asked of it.                                      *)
LEMMA ServicesFree ==
  ASSUME LockInv, NEW p \in Procs, Kept(p), p \in bounds.procs, OneAtATime => ~restarted',
         \/ pc'[p] \in {"idle", "check", "collect", "old", "new"}
         \/ pc'[p] \in {"probe", "wait", "ready"} /\ verb'[p] # "unmerge"
         \/ pc'[p] \in {"undo", "after"} /\ result'[p] # "nothing"
  PROVE  ServicesInv'
BY ServicesStep DEF RestartsAt, StopsAt

(* Nothing changes but the place.                                            *)
LEMMA ServicesOn ==
  ASSUME LockInv, ServicesInv, NEW p \in Procs, Kept(p), p \in bounds.procs,
         OneAtATime => ~restarted',
         UNCHANGED <<view, openrc>>, verb'[p] = verb[p], result'[p] = result[p],
         OneAtATime /\ verb[p] = "unmerge" /\ pc'[p] \in {"probe", "wait", "ready"} =>
           \A u \in Listed : Stopped(u),
         pc'[p] \in {"idle", "probe", "wait", "old", "ready", "new", "after"},
         pc'[p] = "after" => pc[p] = "undo"
  PROVE  ServicesInv'
<1>1. Merged' = Merged
  BY DEF Merged
<1>2. Listed' = Listed
  BY <1>1 DEF Listed, CollectActions
<1>3. \A u : Stopped(u)' = Stopped(u)
  BY <1>1 DEF Stopped, MustStop, Providers, openrc
<1>4. E!AllBare' = E!AllBare
  BY DEF E!AllBare
<1>5. ASSUME OneAtATime PROVE RestartsAt(p)' /\ StopsAt(p)'
  <2>1. RestartsAt(p)
    BY <1>5 DEF ServicesInv
  <2> QED BY <1>2, <1>3, <1>4, <1>5, <2>1 DEF RestartsAt, StopsAt
<1> QED BY <1>5, ServicesStep

(* ServicesInv holds at first.                                               *)
LEMMA ServicesInit == Init => ServicesInv
BY DEF Init, ServicesInv, RestartsAt, StopsAt

(* ServicesInv and what a process does of itself, by the actions.            *)
LEMMA ServicesProceeds ==
  ASSUME TypeInv, LockInv, ServicesInv, NEW p \in Procs, Proceeds(p)
  PROVE  ServicesInv'
<1>1. Kept(p) /\ AskedAt(p) /\ EngineAt(p)
  BY ProceedsKept DEF LockInv
<1>2. pc[p] # "idle"
  BY DEF Proceeds, CheckMerged, CollectUnlocked, CollectFails, StopNext, Prestopped,
     Probe, Enter, Refuse, Prepare, NothingToDo, BeforeUnmerge, Hide, Show, Undo, Works,
     Unmerged, Decide, Commit, EngineFails, Unlock, Redeliver, AfterEngine, SkipApply, NoActionsDue,
     ApplyNext, Applied
<1>3. p \in bounds.procs
  BY <1>1, <1>2 DEF AskedAt
<1>4. OneAtATime => ~restarted /\ RestartsAt(p) /\ StopsAt(p)
  BY <1>2 DEF ServicesInv, Idle
<1>5. CASE CheckMerged(p)
  <2>1. /\ restarted' = restarted
        /\ pc'[p] = "idle" \/ (pc'[p] = "probe" /\ verb'[p] = verb[p] /\ verb[p] = "merge")
    BY <1>1, <1>5, GoneKept DEF CheckMerged, TypeInv, Goto, Locals, openrc, history,
       engine, AskedAt
  <2> QED BY <1>1, <1>3, <1>4, <2>1, ServicesFree
<1>6. CASE CollectUnlocked(p)
  <2>1. /\ restarted' = restarted /\ pc'[p] = "prestop" /\ UNCHANGED <<view, running>>
        /\ Stopping(p, CollectActions(Merged))
    BY <1>6 DEF CollectUnlocked, TypeInv, Goto, history, engine
  <2>9. RestartsAt(p)' /\ StopsAt(p)'
    BY <2>1, StopsList DEF RestartsAt, StopsAt
  <2> QED BY <1>1, <1>3, <1>4, <2>1, <2>9, ServicesStep
<1>7. CASE StopNext(p)
  <2>0. PICK u : u = Head(todo[p])
    OBVIOUS
  <2>1. /\ restarted' = restarted /\ pc'[p] = pc[p] /\ UNCHANGED view
        /\ pc[p] \in {"prestop", "stop"} /\ todo[p] # <<>> /\ todo'[p] = Tail(todo[p])
        /\ StopsOrSkips(u) \/ StopFails(u)
    BY <1>7, <2>0 DEF StopNext, TypeInv, history, engine
  <2>2. Merged' = Merged
    BY <2>1 DEF Merged
  <2>3. Listed' = Listed /\ In(todo[p]) = {u} \cup In(Tail(todo[p])) /\ u \in UnitNames
    BY <2>0, <2>1, <2>2, HeadOrTail DEF TypeInv, Listed, CollectActions
  <2>4. Stopped(u)' /\ \A v \in UnitNames : Stopped(v) => Stopped(v)'
    BY <2>1, <2>3, OneStops
  <2>9. OneAtATime => RestartsAt(p)' /\ StopsAt(p)'
    BY <1>4, <2>1, <2>3, <2>4, ListedNames DEF RestartsAt, StopsAt
  <2> QED BY <1>1, <1>3, <1>4, <2>1, <2>9, ServicesStep
<1>8. CASE Prestopped(p)
  <2>1. /\ restarted' = restarted /\ pc'[p] = "probe" /\ pc[p] = "prestop"
        /\ UNCHANGED <<view, openrc>> /\ verb'[p] = verb[p] /\ result'[p] = result[p]
    BY <1>8 DEF Prestopped, TypeInv, Goto, Locals, openrc, history, engine
  <2>2. In(todo[p]) = {}
    BY <1>8, Done DEF Prestopped
  <2>3. OneAtATime => \A u \in Listed : Stopped(u)
    BY <1>4, <2>1, <2>2 DEF StopsAt
  <2> QED BY <1>1, <1>3, <1>4, <2>1, <2>3, ServicesOn
<1>9. CASE Probe(p)
  <2>1. /\ restarted' = restarted /\ pc'[p] = "wait" /\ pc[p] = "probe"
        /\ UNCHANGED <<view, openrc>> /\ verb'[p] = verb[p] /\ result'[p] = result[p]
    BY <1>9 DEF Probe, TypeInv, Goto, Locals, openrc, history, engine
  <2>3. OneAtATime /\ verb[p] = "unmerge" => \A u \in Listed : Stopped(u)
    BY <1>4, <2>1 DEF StopsAt
  <2> QED BY <1>1, <1>3, <1>4, <2>1, <2>3, ServicesOn
<1>10. CASE Enter(p)
  <2>1. /\ restarted' = restarted /\ pc[p] = "wait" /\ pc'[p] \in {"old", "ready"}
        /\ UNCHANGED <<view, openrc>> /\ verb'[p] = verb[p] /\ result'[p] = result[p]
    BY <1>10 DEF Enter, TypeInv, Goto, Locals, openrc, history, engine, E!Take
  <2>2. OneAtATime /\ verb[p] = "unmerge" => \A u \in Listed : Stopped(u)
    BY <1>4, <2>1 DEF StopsAt
  <2> QED BY <1>1, <1>3, <1>4, <2>1, <2>2, ServicesOn
<1>11. CASE Refuse(p)
  <2>1. restarted' = restarted /\ pc'[p] = "undo" /\ result'[p] # "nothing"
    BY <1>11 DEF Refuse, TypeInv, Goto, Locals, openrc, history, engine, Reports
  <2> QED BY <1>1, <1>3, <1>4, <2>1, ServicesFree
<1>12. CASE Prepare(p)
  <2>1. restarted' = restarted /\ pc'[p] = "ready" /\ verb'[p] # "unmerge"
    BY <1>1, <1>12 DEF Prepare, TypeInv, Goto, Locals, openrc, history, engine, AskedAt,
       Works
  <2> QED BY <1>1, <1>3, <1>4, <2>1, ServicesFree
<1>13. CASE NothingToDo(p)
  <2>1. restarted' = restarted /\ pc'[p] = "undo" /\ UNCHANGED view
    BY <1>13 DEF NothingToDo, TypeInv, Goto, Locals, openrc, history, engine, Reports
  <2>2. result'[p] = "nothing" => \A h \in H : view[h] = E!Bare
    BY <1>13 DEF NothingToDo, Reports, TypeInv
  <2>3. result'[p] = "nothing" => view' = E!AllBare /\ E!AllBare' = E!AllBare
    BY <2>1, <2>2 DEF TypeInv, E!AllBare
  <2>9. RestartsAt(p)' /\ StopsAt(p)'
    BY <2>1, <2>3 DEF RestartsAt, StopsAt
  <2> QED BY <1>1, <1>3, <1>4, <2>1, <2>9, ServicesStep
<1>14. CASE BeforeUnmerge(p)
  <2>1. /\ restarted' = restarted /\ pc'[p] = "stop" /\ UNCHANGED <<view, running>>
        /\ Stopping(p, CollectActions(Merged))
    BY <1>14 DEF BeforeUnmerge, TypeInv, Goto, history, engine
  <2>9. RestartsAt(p)' /\ StopsAt(p)'
    BY <2>1, StopsList DEF RestartsAt, StopsAt
  <2> QED BY <1>1, <1>3, <1>4, <2>1, <2>9, ServicesStep
<1>15. CASE \E h \in H : Hide(p, h)
  <2>2. PICK h \in H : Hide(p, h)
    BY <1>15
  <2>1. /\ restarted' = restarted /\ pc'[p] = pc[p] /\ pc[p] \in {"stop", "ready"}
        /\ UNCHANGED <<running, refused, verb, todo>> /\ view' = [view EXCEPT ![h] = E!Bare]
    BY <2>2 DEF Hide, history, openrc, Locals, Works, E!Hide
  <2>3. Merged' \subseteq Merged
    BY <2>1 DEF TypeInv, Merged, E!Bare
  <2>4. Listed' \subseteq Listed /\ \A u \in Listed' : Stopped(u) => Stopped(u)'
    BY <2>1, <2>3, LessListed
  <2>9. OneAtATime => RestartsAt(p)' /\ StopsAt(p)'
    BY <1>4, <2>1, <2>4 DEF RestartsAt, StopsAt
  <2> QED BY <1>1, <1>3, <1>4, <2>1, <2>9, ServicesStep
<1>16. CASE \E h \in H : Show(p, h)
  <2>1. restarted' = restarted /\ pc'[p] = "new"
    BY <1>16 DEF Show, TypeInv, Goto, Locals, openrc, history, engine, Works
  <2> QED BY <1>1, <1>3, <1>4, <2>1, ServicesFree
<1>17. CASE \E h \in H : Undo(p, h)
  <2>2. PICK h \in H : Undo(p, h)
    BY <1>17
  <2>1. /\ restarted' = restarted /\ pc'[p] = "undo" /\ pc[p] = "undo" /\ UNCHANGED result
        /\ view' = [view EXCEPT ![h] = E!Bare]
    BY <2>2 DEF Undo, history, openrc, Locals, Works
  <2>3. view = E!AllBare => view' = E!AllBare /\ E!AllBare' = E!AllBare
    BY <2>1 DEF E!AllBare
  <2>9. OneAtATime => RestartsAt(p)' /\ StopsAt(p)'
    BY <1>4, <2>1, <2>3 DEF RestartsAt, StopsAt
  <2> QED BY <1>1, <1>3, <1>4, <2>1, <2>9, ServicesStep
<1>18. CASE Unmerged(p)
  <2>1. restarted' = restarted /\ pc'[p] = "undo" /\ UNCHANGED view
    BY <1>18 DEF Unmerged, TypeInv, Goto, Locals, openrc, history, engine, Reports
  <2>2. result'[p] = "nothing" => \A h \in H : view[h] = E!Bare
    BY <1>18 DEF Unmerged, Reports, TypeInv
  <2>3. result'[p] = "nothing" => view' = E!AllBare /\ E!AllBare' = E!AllBare
    BY <2>1, <2>2 DEF TypeInv, E!AllBare
  <2>9. RestartsAt(p)' /\ StopsAt(p)'
    BY <2>1, <2>3 DEF RestartsAt, StopsAt
  <2> QED BY <1>1, <1>3, <1>4, <2>1, <2>9, ServicesStep
<1>19. CASE Decide(p)
  <2>1. restarted' = restarted /\ pc'[p] = "new"
    BY <1>19 DEF Decide, TypeInv, Goto, Locals, openrc, history, engine, Works
  <2> QED BY <1>1, <1>3, <1>4, <2>1, ServicesFree
<1>20. CASE Commit(p)
  <2>1. restarted' = restarted /\ pc'[p] = "undo" /\ result'[p] # "nothing"
    <3>1. PICK r \in {"merged", "uncleaned"} : Reports(p, r)
      BY <1>20, Zenon DEF Commit
    <3> QED BY <3>1 DEF Reports, Goto, TypeInv
  <2> QED BY <1>1, <1>3, <1>4, <2>1, ServicesFree
<1>21. CASE EngineFails(p)
  <2>1. restarted' = restarted /\ pc'[p] = "undo" /\ result'[p] # "nothing"
    BY <1>21 DEF EngineFails, TypeInv, Goto, Locals, openrc, history, engine, Reports
  <2> QED BY <1>1, <1>3, <1>4, <2>1, ServicesFree
<1>22. CASE Unlock(p)
  <2>1. /\ restarted' = restarted /\ pc[p] = "undo" /\ pc'[p] = "after"
        /\ UNCHANGED <<view, openrc>> /\ verb'[p] = verb[p] /\ result'[p] = result[p]
    BY <1>22 DEF Unlock, TypeInv, Goto, Locals, openrc, history, engine, Works, E!Leave
  <2> QED BY <1>1, <1>3, <1>4, <2>1, ServicesOn
<1>23. CASE Redeliver(p)
  <2>1. restarted' = restarted /\ pc'[p] = "idle"
    BY <1>23, GoneKept DEF Redeliver
  <2> QED BY <1>1, <1>3, <1>4, <2>1, ServicesFree
<1>24. CASE AfterEngine(p)
  <2>1. /\ restarted' = restarted /\ pc[p] = "after" /\ pc'[p] = "apply"
        /\ UNCHANGED <<view, running, result>> /\ result[p] \in {"merged", "nothing"}
        /\ result[p] = "merged" => /\ acts'[p] = CollectActions(Merged)
                                   /\ todo'[p] = InOrder(CollectActions(Merged))
    BY <1>24 DEF AfterEngine, TypeInv, Goto, Locals, openrc, history, engine
  <2>2. Merged' = Merged
    BY <2>1 DEF Merged
  <2>3. E!AllBare' = E!AllBare /\ CollectActions(Merged)' = CollectActions(Merged)
    BY <2>2 DEF E!AllBare, CollectActions
  <2>4. result[p] = "merged" => CollectActions(Merged).restart \subseteq In(todo'[p])
    BY <2>1, AllInOrder
  <2>5. OneAtATime /\ result[p] = "nothing" =>
          view = E!AllBare /\ CollectActions(Merged).restart = {}
    BY <1>4, <2>1, NothingListed DEF RestartsAt
  <2>9. OneAtATime => RestartsAt(p)' /\ StopsAt(p)'
    BY <2>1, <2>3, <2>4, <2>5 DEF RestartsAt, StopsAt
  <2> QED BY <1>1, <1>3, <1>4, <2>1, <2>9, ServicesStep
<1>25. CASE NoActionsDue(p)
  <2>1. restarted' = restarted /\ pc'[p] = "idle"
    BY <1>25, GoneKept DEF NoActionsDue
  <2> QED BY <1>1, <1>3, <1>4, <2>1, ServicesFree
<1>26. CASE ApplyNext(p)
  <2>0. PICK u : u = Head(todo[p])
    OBVIOUS
  <2>1. /\ restarted' = restarted /\ pc[p] = "apply" /\ pc'[p] = "apply"
        /\ UNCHANGED <<view, acts, result>> /\ todo[p] # <<>> /\ todo'[p] = Tail(todo[p])
        /\ AppliesOrSkips(u, acts[p]) \/ ApplyFails(u)
    BY <1>26, <2>0 DEF ApplyNext, TypeInv, history, engine
  <2>2. Merged' = Merged
    BY <2>1 DEF Merged
  <2>3. E!AllBare' = E!AllBare /\ CollectActions(Merged)' = CollectActions(Merged)
    BY <2>2 DEF E!AllBare, CollectActions
  <2>4. In(todo[p]) = {u} \cup In(Tail(todo[p])) /\ u \in UnitNames
    BY <2>0, <2>1, HeadOrTail DEF TypeInv
  <2>5. /\ u \notin acts[p].reload => Fresh(u)'
        /\ \A v \in UnitNames : Fresh(v) => Fresh(v)'
    BY <2>1, <2>4, OneApplies
  <2>6. ASSUME OneAtATime, u \in CollectActions(Merged).restart PROVE Fresh(u)'
    <3>1. acts[p] = CollectActions(Merged)
      BY <1>4, <2>1, <2>6, NothingListed DEF RestartsAt
    <3>2. u \notin acts[p].reload
      BY <2>6, <3>1 DEF CollectActions
    <3> QED BY <2>5, <3>2
  <2>7. CollectActions(Merged).restart \subseteq UnitNames
    BY ListedNames DEF Listed
  <2>9. OneAtATime => RestartsAt(p)' /\ StopsAt(p)'
    BY <1>4, <2>1, <2>3, <2>4, <2>5, <2>6, <2>7 DEF RestartsAt, StopsAt
  <2> QED BY <1>1, <1>3, <1>4, <2>1, <2>9, ServicesStep
<1>27. CASE Applied(p)
  <2>1. /\ pc'[p] = "idle" /\ UNCHANGED <<openrc, view>> /\ pc[p] = "apply" /\ todo[p] = <<>>
    BY <1>27, GoneKept DEF Applied, engine, openrc
  <2>2. Merged' = Merged
    BY <2>1 DEF Merged
  <2>3. CollectActions(Merged)' = CollectActions(Merged) /\ \A u : Fresh(u)' = Fresh(u)
    BY <2>1, <2>2 DEF CollectActions, Fresh, Exists, Providers, openrc
  <2>4. ASSUME OneAtATime' PROVE \A q \in Procs : pc'[q] = "idle"
    <3>1. OneAtATime
      BY <1>1, <2>4 DEF OneAtATime, Kept
    <3>2. \A q \in Procs \ {p} : pc'[q] = "idle"
      BY <1>1, <1>3, <3>1, Alone DEF Kept
    <3> QED BY <2>1, <3>2
  <2>5. ASSUME OneAtATime PROVE \A u \in CollectActions(Merged).restart : Fresh(u)
    BY <1>4, <2>1, <2>5, Done DEF RestartsAt
  <2>6. OneAtATime' => OneAtATime
    BY <1>1 DEF OneAtATime, Kept
  <2>7. \A q \in Procs : pc'[q] = "idle" => RestartsAt(q)' /\ StopsAt(q)'
    BY DEF RestartsAt, StopsAt
  <2> QED BY <2>3, <2>4, <2>5, <2>6, <2>7 DEF ServicesInv, Idle
<1>28. CASE CollectFails(p) \/ SkipApply(p)
  <2>1. restarted' = restarted /\ pc'[p] = "idle"
    BY <1>28, FailsOrSkips, GoneKept DEF GivesUp
  <2> QED BY <1>1, <1>3, <1>4, <2>1, ServicesFree
<1> QED BY <1>5, <1>6, <1>7, <1>8, <1>9, <1>10, <1>11, <1>12, <1>13, <1>14, <1>15, <1>16,
       <1>17, <1>18, <1>19, <1>20, <1>21, <1>22, <1>23, <1>24, <1>25, <1>26, <1>27,
       <1>28 DEF Proceeds

(* ServicesInv and every step.                                               *)
LEMMA ServicesNext == TypeInv /\ LockInv /\ ServicesInv /\ [Next]_vars => ServicesInv'
<1> SUFFICES ASSUME TypeInv, LockInv, ServicesInv, [Next]_vars PROVE ServicesInv'
  OBVIOUS
<1>1. CASE UNCHANGED vars
  BY <1>1, ServicesKept DEF vars, counts, openrc, history, engine
<1>2. ASSUME NEW p \in Procs, Proceeds(p) PROVE ServicesInv'
  BY <1>2, ServicesProceeds
<1>3. ASSUME NEW p \in Procs, Dies(p), pc[p] # "idle",
             UNCHANGED <<bounds, disk, restarted>>
      PROVE  ServicesInv'
  <2>1. Kept(p) /\ pc'[p] = "idle" /\ p \in bounds.procs
    BY <1>3, GoneKept DEF Dies, Kept, LockInv, AskedAt
  <2>2. OneAtATime => ~restarted'
    BY <1>3 DEF ServicesInv, Idle
  <2> QED BY <2>1, <2>2, ServicesFree
<1>4. ASSUME NEW p \in Procs, Signal(p) PROVE ServicesInv'
  <2>1. CASE pc[p] \in Held
    BY <1>4, <2>1, ServicesKept DEF Signal, counts, openrc, engine
  <2>2. CASE pc[p] \notin Held
    BY <1>3, <1>4, <2>2 DEF Signal, counts, openrc, Idle
  <2> QED BY <2>1, <2>2
<1>5. ASSUME NEW p \in Procs, Kill(p) PROVE ServicesInv'
  BY <1>3, <1>5 DEF Kill, Idle
<1>6. ASSUME NEW p \in Procs, NEW v \in VerbNames, Start(p, v) PROVE ServicesInv'
  <2>1. /\ Kept(p) /\ p \in bounds.procs /\ ~restarted' /\ verb'[p] = v
    BY <1>6 DEF Start, Kept, Goto, TypeInv, counts, openrc
  <2>2. pc'[p] = StartsAt(v)
    BY <1>6, Zenon DEF Start, Goto, TypeInv, StartsAt
  <2>3. pc'[p] \in {"check", "collect"} \/ (pc'[p] = "probe" /\ verb'[p] # "unmerge")
    BY <2>1, <2>2, Starts DEF VerbNames
  <2> QED BY <2>1, <2>3, ServicesFree
<1>7. CASE Install
  BY <1>7, ServicesKept DEF Install, Locals, openrc, engine
<1>8. ASSUME NEW s \in Services, AdminStarts(s) PROVE ServicesInv'
  <2>1. /\ UNCHANGED <<bounds, view, pc, restarted>> /\ \A p \in Procs : pc[p] = "idle"
        /\ running' = [running EXCEPT ![s] = Providers(s, Merged)] /\ refused' = refused
    BY <1>8 DEF AdminStarts, Obeys, Idle, counts, openrc, history, engine
  <2>2. Merged' = Merged
    BY <2>1 DEF Merged
  <2>3. CollectActions(Merged)' = CollectActions(Merged)
    BY <2>2 DEF CollectActions
  <2>4. ASSUME NEW u, Fresh(u) PROVE Fresh(u)'
    <3>1. CASE ServiceOf[u] = s
      <4>1. running'[ServiceOf[u]] = Providers(ServiceOf[u], Merged)
        BY <2>1, <3>1 DEF TypeInv
      <4> QED BY <2>2, <4>1 DEF Fresh, Providers
    <3>2. CASE ServiceOf[u] # s
      BY <2>1, <2>2, <2>4, <3>2 DEF Fresh, Exists, Providers, TypeInv
    <3> QED BY <3>1, <3>2
  <2>5. \A p \in Procs : RestartsAt(p)' /\ StopsAt(p)'
    BY <2>1 DEF RestartsAt, StopsAt
  <2> QED BY <2>1, <2>3, <2>4, <2>5 DEF ServicesInv, OneAtATime, Idle
<1> QED BY <1>1, <1>2, <1>4, <1>5, <1>6, <1>7, <1>8 DEF Next

----------------------------------------------------------------------------
(* The invariant of all theorems below.                                      *)
LEMMA Invariant == Spec => []IInv
<1>1. Init => IInv
  BY TypeInit, LockInit, WholeInit, CurrentInit, ServicesInit DEF IInv
<1>2. IInv /\ [Next]_vars => IInv'
  BY TypeNext, LockNext, WholeNext, CurrentNext, ServicesNext DEF IInv
<1> QED BY <1>1, <1>2, PTL DEF Spec

(* However many processes run verbs, and whenever SIGINT, SIGTERM or SIGHUP  *)
(* come: without an error or a SIGKILL, all hierarchies show the same when   *)
(* nobody holds the lock, because critical holds the signals back.           *)
THEOREM WholeAlways == Spec => []NeverHalfMerged
<1>1. IInv => NeverHalfMerged
  BY DEF IInv, WholeInv, Calm, TheWhole, Uniform, NeverHalfMerged
<1> QED BY <1>1, Invariant, PTL

(* However many processes run verbs: if the refresh that had the lock last   *)
(* began after the last change of the installed images and succeeded, they   *)
(* are what is merged, without an error of the engine or a SIGKILL.  What it *)
(* merges it discovered before it had the lock; what is merged it looks up   *)
(* with the lock.                                                            *)
THEOREM CurrentAlways == Spec => []RefreshedIsCurrent
<1>1. IInv => RefreshedIsCurrent
  BY DEF IInv, CurrentInv, Calm, UpToDate, RefreshedIsCurrent
<1> QED BY <1>1, Invariant, PTL

(* With one process running verbs (OneAtATime): when a verb is through with  *)
(* its service actions, each unit that the merged extensions want restarted  *)
(* runs from what is merged, or the restart of its service failed, whichever *)
(* units share a service or are listed twice.                                *)
THEOREM FreshAlways == Spec => []RestartedRunMerged
<1>1. IInv => RestartedRunMerged
  BY DEF IInv, ServicesInv, Fresh, RestartedRunMerged
<1> QED BY <1>1, Invariant, PTL

(* With one process running verbs (OneAtATime): no step unmerges for good    *)
(* while a service that runs from a merged script and that its extension     *)
(* lists is up, unless its own stop failed or OpenRC could not be asked.     *)
THEOREM StoppedFirst == Spec => StoppedBeforeUnmerged
<1> DEFINE Step == OneAtATime /\ TakenDown =>
                     \A u \in Listed : MustStop(u, running, Merged) => ServiceOf[u] \in refused
<1>1. ASSUME IInv, [Next]_vars PROVE [Step]_vars
  <2> SUFFICES ASSUME Next, OneAtATime, TakenDown
               PROVE  \A u \in Listed : Stopped(u)
    BY <1>1 DEF Stopped
  <2>0. TypeInv /\ LockInv /\ ServicesInv
    BY <1>1 DEF IInv
  <2>1. view' # view /\ faults' = faults /\ (ask.verb = "unmerge" \/ ask.images \cap Fits = {})
    <3>1. view' = view => Merged' = Merged
      BY DEF Merged
    <3> QED BY <3>1 DEF TakenDown
  <2>2. ASSUME NEW p \in Procs, Proceeds(p) PROVE \A u \in Listed : Stopped(u)
    <3>1. CASE \E h \in H : Hide(p, h) \/ Show(p, h) \/ Undo(p, h)
      <4>1. PICK h \in H : Hide(p, h) \/ Show(p, h) \/ Undo(p, h)
        BY <3>1
      <4>2. holder = p
        BY <4>1 DEF Hide, Show, Undo, Works
      <4>3. AskedAt(p) /\ EngineAt(p) /\ StopsAt(p)
        BY <2>0 DEF LockInv, ServicesInv
      <4>4. verb[p] = "unmerge" \/ Found(p) = {}
        BY <2>1, <4>2, <4>3 DEF EngineAt, Found
      <4>5. CASE Hide(p, h)
        <5>1. \/ pc[p] = "stop" /\ todo[p] = <<>>
              \/ pc[p] = "ready" /\ verb[p] = "unmerge"
          BY <4>4, <4>5 DEF Hide, Works, Replaces
        <5> QED BY <4>3, <5>1, Done DEF StopsAt
      <4>6. CASE Show(p, h)
        <5>1. pc[p] = "new"
          BY <4>6 DEF Show, Works
        <5> QED BY <4>3, <4>4, <5>1 DEF AskedAt
      <4>7. CASE Undo(p, h)
        <5>1. pc[p] = "undo" /\ phase = "over" /\ goal # E!AllBare
          BY <4>7 DEF Undo, Works, E!Undo, E!AllBare
        <5> QED BY <4>3, <4>4, <5>1 DEF EngineAt
      <4> QED BY <4>1, <4>5, <4>6, <4>7
    <3>2. CASE EngineFails(p)
      BY <2>0, <2>1, <3>2 DEF EngineFails, TypeInv
    <3>3. CASE ~(\E h \in H : Hide(p, h) \/ Show(p, h) \/ Undo(p, h)) /\ ~EngineFails(p)
      <4>1. UNCHANGED view
        BY <2>2, <3>3 DEF Proceeds, CheckMerged, CollectUnlocked, CollectFails, StopNext,
           Prestopped,
           Probe, Enter, E!Take, Refuse, Prepare, NothingToDo, BeforeUnmerge, Unmerged,
           Decide, E!Decide, Commit, E!Commit, Unlock, E!Leave, Redeliver, AfterEngine,
           SkipApply, NoActionsDue, ApplyNext, Applied, engine, openrc
      <4> QED BY <2>1, <4>1
    <3> QED BY <3>1, <3>2, <3>3
  <2>3. ASSUME NEW p \in Procs, Signal(p) \/ Kill(p) PROVE FALSE
    <3>1. UNCHANGED view
      BY <2>3 DEF Signal, Kill, Dies, E!Leave, engine, openrc
    <3> QED BY <2>1, <3>1
  <2>4. ASSUME NEW p \in Procs, NEW v \in VerbNames, Start(p, v) PROVE FALSE
    BY <2>1, <2>4 DEF Start, engine, openrc
  <2>5. ~Install
    BY <2>1 DEF Install, engine, openrc
  <2>6. ASSUME NEW s \in Services, AdminStarts(s) PROVE FALSE
    BY <2>1, <2>6 DEF AdminStarts, engine, openrc
  <2> QED BY <2>2, <2>3, <2>4, <2>5, <2>6 DEF Next
<1>2. StoppedBeforeUnmerged <=> [][Step]_vars
  BY PTL DEF StoppedBeforeUnmerged
<1> QED BY <1>1, <1>2, Invariant, PTL DEF Spec
=============================================================================
