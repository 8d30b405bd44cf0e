------------------------------ MODULE DmcChanges ------------------------------
(***************************************************************************)
(* The change versions of the console (DMC): OpenDoveConcurrentBackedMap   *)
(* and getNextOdcsChange / getNextOdgwChange of OpenDoveSBInterfaces.      *)
(*                                                                         *)
(* The console keeps one map from versions to objects for all its objects. *)
(* A change of an object enters the object once more, at the next version; *)
(* a removal is a change to a tombstone.  DCS leader and gateways ask for  *)
(* the object at a version and are told the version to ask for next.       *)
(*                                                                         *)
(*   db    int2OpenDoveObjectMap: the object at each version 1..Len(db)    *)
(*   last  each object's last change version, 0 before it is created       *)
(*   tomb  its tombstone flag                                              *)
(***************************************************************************)
EXTENDS Naturals, Sequences

NoChanges(objects) ==
    [db |-> <<>>, last |-> [o \in objects |-> 0], tomb |-> [o \in objects |-> FALSE]]

(* putIfAbsent and update: the object gets the next version.               *)
ChangeObject(dmc, o, tomb) ==
    [db |-> Append(dmc.db, o),
     last |-> [dmc.last EXCEPT ![o] = Len(dmc.db) + 1],
     tomb |-> [dmc.tomb EXCEPT ![o] = tomb]]

(* Two maps of objects count for themselves and are not synchronised: two  *)
(* changes at the same time take the same version, and putIfAbsent enters  *)
(* only the first of them.                                                 *)
ChangeAtOnce(dmc, o, tomb, o2, tomb2) ==
    LET first == ChangeObject(dmc, o, tomb)
    IN  [first EXCEPT !.last[o2] = Len(first.db), !.tomb[o2] = tomb2]

(* 204 beyond the last version; an error for one that is not in the map.   *)
versionExists(dmc, version) == version \in 1 .. Len(dmc.db)

(* The version after the object's last change, not after the one asked for.*)
NextChange(dmc, version) == dmc.last[dmc.db[version]] + 1

(* The objects that are passed over by that and do not change again later. *)
PassedOver(dmc, version) ==
    {dmc.db[k] : k \in {x \in version + 1 .. NextChange(dmc, version) - 1 :
                           dmc.last[dmc.db[x]] = x /\ dmc.db[x] # dmc.db[version]}}
=============================================================================
