------------------------------- MODULE MCWire -------------------------------
(***************************************************************************)
(* DpsWire with one or two values of each kind: two IPv4 addresses and two *)
(* vnids, so that swapped fields show, one MAC address and one IPv6        *)
(* address.  Words are model values; a wider field is a sequence of them.  *)
(***************************************************************************)
EXTENDS DpsWire

CONSTANTS v1, v2, m1, m2, a1, a2, b1, b2, b3, b4

MCMac == {<<m1, m2>>}
MCIp6 == {<<b1, b2, b3, b4>>}
MCSender == [family |-> AF_INET, port |-> 902, ip |-> a2]
MCClientLoc == [family |-> AF_INET6, port |-> 902, ip |-> <<b1, b2, b3, b4>>]
=============================================================================
