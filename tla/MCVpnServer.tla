---------------------------- MODULE MCVpnServer ----------------------------
(* Small instances of VpnServer for TLC: the traffic a cfg chooses from. *)
EXTENDS VpnSwitch

CONSTANTS A, B, C, M, Bcast, Nil

Request(mac, macAt, bridge) ==
    [type |-> "request", ctrl |-> FALSE, kill |-> NoKill, key |-> TRUE,
     macAt |-> macAt, mac |-> mac, bridge |-> bridge, vars |-> 2, cut |-> FALSE]
Frame(src, dst) == [type |-> "frame", src |-> src, dst |-> dst]

JoinA == Request(A, "last", FALSE)
JoinB == Request(B, "inside", FALSE)
JoinAnon == Request(Nil, "absent", FALSE)
JoinBridge == Request(B, "last", TRUE)
Malformed == [JoinA EXCEPT !.cut = TRUE]
List == [JoinAnon EXCEPT !.ctrl = TRUE]
Kill(n) == [List EXCEPT !.kill = n]

UnicastAB == {A, B}
UnicastABC == {A, B, C}
MulticastM == {M}

\* Clients that broadcast to one another, one of them sending its address first,
\* and control requests that kill the client at descriptor 2, when there is one.
ForwardRequests == {JoinB, JoinAnon, Kill(2)}
ForwardMessages == {Frame(B, Bcast), Close}

\* A tap device and a client that both are bridges, addresses moving around, and a
\* request and a message that are refused.
SwitchRequests == {JoinA, JoinBridge, List, Malformed}
SwitchMessages == {Frame(A, C), Frame(C, A), Short}
SwitchTapFrames == {Frame(C, B), Frame(A, Bcast)}

\* One request of a kind, where the question is about that kind.
ListRequests == {List}
KillRequests == {JoinAnon, Kill(1)}
NoMessages == {}

\* Clients that broadcast to one another, for the liveness runs.
LiveRequests == {JoinA}
LiveMessages == {Frame(A, Bcast)}
=============================================================================
