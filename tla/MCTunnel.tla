------------------------------ MODULE MCTunnel ------------------------------
(* A small tunnel for TLC: a plain client and a bridge with two hosts. *)
EXTENDS Tunnel, TLC

CONSTANTS a, b, A, B, C, M, Bcast, Nil

TwoClients == {a, b}
ThreePorts == 1 .. 3
UnicastABC == {A, B, C}
MulticastM == {M}
Addresses == (a :> A) @@ (b :> B)
Behind == (a :> {A, B}) @@ (b :> {C})
Targets == (a :> {C, Bcast}) @@ (b :> {A})
Connects == (a :> 2) @@ (b :> 1)
JustB == {b}
=============================================================================
