--------------------------- MODULE MCMassTransfer ---------------------------
(***************************************************************************)
(* Instances of DcsMassTransfer for TLC.  The objects are named after what *)
(* they stand for: lists of VNIDs, a subnet, a tunnel, endpoints, and the  *)
(* receiver and the sender that one tunnel is of one multicast group.      *)
(***************************************************************************)
EXTENDS DcsMassTransfer

CONSTANTS vnids1, vnids2, subnet, tunnel, vm1, vm2, vm3, mcrecv, mcsend

\* The order in which transfer_start visits the objects.
Visits == <<vnids1, vnids2, subnet, tunnel, vm1, vm2, vm3, mcrecv, mcsend>>

MCRank ==
  [o \in Object |->
     Cardinality({i \in DOMAIN Visits :
       Visits[i] \in Object /\ \E j \in DOMAIN Visits : i <= j /\ Visits[j] = o})]

MCStage ==
  [o \in Object |->
     CASE o \in {vnids1, vnids2} -> transfer_vnids
       [] o = subnet             -> transfer_subnets
       [] o = tunnel             -> transfer_tunnels
       [] o \in {vm1, vm2, vm3}  -> transfer_endpoints
       [] o \in {mcrecv, mcsend} -> transfer_multicasts]

\* Receiver and sender of one tunnel have one key.
MCKey == [o \in Object |-> IF o = mcsend THEN mcrecv ELSE o]

Window1 == [i \in Stages |-> 1]
Window2 == [i \in Stages |-> 2]
=============================================================================
