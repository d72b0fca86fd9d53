---------------------------- MODULE MacAddresses ----------------------------
(***************************************************************************)
(* Ethernet addresses as src/src/macmap.c tells them apart.  The byte       *)
(* patterns the code compares (33:33:..., 01:00:5e:..., all ff, all 00) cut *)
(* the six-byte values into four classes, and no other part of the server   *)
(* looks inside an address, so an address is its class and its identity.    *)
(***************************************************************************)
CONSTANTS
    Unicast,    \* addresses of none of the classes below
    Multicast,  \* 01:00:5e:... and 33:33:...
    Broadcast,  \* ff:ff:ff:ff:ff:ff
    Zero        \* 00:00:00:00:00:00

\* The classes are disjoint: no address fits two of the byte patterns.
ASSUME MacClasses ==
    /\ Unicast \cap Multicast = {}
    /\ {Broadcast, Zero} \cap (Unicast \cup Multicast) = {}
    /\ Broadcast # Zero

Macs == Unicast \cup Multicast \cup {Broadcast, Zero}

IsZero(mac) == mac = Zero

IsBroadcast(mac) == mac = Broadcast

IsMulticast(mac) == mac \in Multicast

IsValid(mac) == ~IsBroadcast(mac) /\ ~IsZero(mac)

IsLoop(dst, src) == dst = src
=============================================================================
