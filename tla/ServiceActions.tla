--------------------------- MODULE ServiceActions ---------------------------
(***************************************************************************)
(* What the extension-release files of the merged extensions ask of the    *)
(* service manager, and what is made of it for OpenRC: internal/service    *)
(* and cmd/sysext/services.go.  Operators only; Verbs uses them.           *)
(***************************************************************************)
EXTENDS Integers, Sequences

CONSTANTS
  Images,    \* extension images; two versions of an extension are two images
  Services,  \* services of OpenRC
  Host,      \* the host system, as a provider of init scripts
  Ships,     \* the services whose init script an image or Host ships
  Units,     \* names in the unit fields, in the order of their bytes
  NoService, \* what a unit stands for that is none of OpenRC's business
  ServiceOf, \* the service of a unit, or NoService
  Valid,     \* the units whose names UnitNameIsValid takes
  Restart,   \* EXTENSION_RESTART_UNITS of each image
  Reload,    \* EXTENSION_RELOAD_OR_RESTART_UNITS of each image
  Reloadable \* services whose script defines reload()

UnitNames == {Units[i] : i \in DOMAIN Units}

ASSUME ServicesAssumption ==
  /\ Host \notin Images /\ NoService \notin Services
  /\ Ships \in [Images \cup {Host} -> SUBSET Services]
  /\ Units \in Seq(UnitNames)
  /\ ServiceOf \in [UnitNames -> Services \cup {NoService}]
  /\ Restart \in [Images -> SUBSET UnitNames]
  /\ Reload \in [Images -> SUBSET UnitNames]

NoActions == [restart |-> {}, reload |-> {}]

(* The units the merged extensions list, a unit in both fields only among    *)
(* those to restart; names that are not valid are dropped with a warning.    *)
CollectActions(exts) ==
  LET listed(field) == UNION {field[x] : x \in exts} \cap Valid
  IN  [restart |-> listed(Restart), reload |-> listed(Reload) \ listed(Restart)]

(* sortedKeys *)
Sorted(units) ==
  LET keys[n \in 0 .. Len(Units)] ==
        IF n = 0 THEN <<>>
        ELSE IF Units[n] \in units THEN Append(keys[n - 1], Units[n])
        ELSE keys[n - 1]
  IN keys[Len(Units)]

(* Both lists go to OpenRC one unit after the other, the restarts first.     *)
InOrder(a) == Sorted(a.restart) \o Sorted(a.reload)

(* Who ships the init script of a service while exts are merged: nobody if   *)
(* rc-service does not know it.                                              *)
Providers(s, exts) == {x \in exts \cup {Host} : s \in Ships[x]}

(* StopProvidedBy stops a service that was started, has a script, and has it *)
(* in the tree of an extension.                                              *)
MustStop(unit, started, exts) ==
  LET s == ServiceOf[unit]
  IN  /\ s # NoService
      /\ started[s] # {}
      /\ Providers(s, exts) \ {Host} # {}

(* Apply skips units that are no services and services without a script.     *)
Exists(unit, exts) ==
  /\ ServiceOf[unit] # NoService
  /\ Providers(ServiceOf[unit], exts) # {}

(* A unit to reload is reloaded when it runs and its script can reload it,   *)
(* else restarted; restarting starts a stopped service.                      *)
Reloads(unit, a, started) ==
  /\ unit \in a.reload
  /\ started[ServiceOf[unit]] # {}
  /\ ServiceOf[unit] \in Reloadable
=============================================================================
