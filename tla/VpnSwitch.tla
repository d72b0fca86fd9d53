----------------------------- MODULE VpnSwitch -----------------------------
(***************************************************************************)
(* The server implements the learning switch of EthernetSwitch: a port is a *)
(* live peer, its addresses are peer->mac and peer->macs once mac_collected *)
(* is set, and what it was given is what was written to its socket followed *)
(* by what waits in its write buffer.                                       *)
(***************************************************************************)
EXTENDS VpnServer

KnownMacs ==
    [fd \in Fds |-> IF peer[fd].macCollected
                    THEN {peer[fd].mac} \cup peer[fd].macs ELSE {}]

FrameOf(item) == [src |-> item.src, dst |-> item.dst]

\* The frames among the items of a queue.
FramesIn(items) ==
    LET upTo[n \in 0 .. Len(items)] ==
          IF n = 0 THEN <<>>
          ELSE IF items[n].type = "frame" THEN Append(upTo[n - 1], FrameOf(items[n]))
          ELSE upTo[n - 1]
    IN upTo[Len(items)]

FramesGiven == [fd \in Fds |-> FramesIn(Output(fd))]

Switch == INSTANCE EthernetSwitch WITH
    Ports <- Fds, plugged <- live, known <- KnownMacs,
    bridges <- {fd \in live : peer[fd].bridge}, out <- FramesGiven

\* Every step of the server is a step of the learning switch or none: frames
\* reach exactly the peers their destination selects, once and in order, and a
\* peer that is not a bridge speaks for one address only.
ImplementsSwitch == Switch!SwitchSpec
=============================================================================
