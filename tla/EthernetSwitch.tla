--------------------------- MODULE EthernetSwitch ---------------------------
(***************************************************************************)
(* What the vpn-ws server promises the hosts behind it: a learning switch.  *)
(* Each client and the tap device is a port.  A port has an address once it *)
(* announced one or sent a frame, a bridge port may have several, and a     *)
(* frame is given whole and in order to the ports its destination selects.  *)
(* A port may be unplugged at any time, also by the frame it fails to take. *)
(***************************************************************************)
EXTENDS Sequences, MacAddresses

CONSTANTS Ports, NoBroadcast, NoMulticast

VARIABLES
    plugged,  \* the ports in use
    known,    \* the addresses seen at each port
    bridges,  \* the ports that may have more than one
    out       \* the frames given to each port since it was plugged in

svars == <<plugged, known, bridges, out>>

FrameTypes == [src : Macs, dst : Macs]

SwitchInit ==
    /\ plugged \in SUBSET Ports /\ bridges \in SUBSET plugged
    /\ known \in [Ports -> {{}} \cup {{m} : m \in Macs}]
    /\ \A p \in Ports \ plugged : known[p] = {}
    /\ out = [p \in Ports |-> <<>>]

Plug(p) ==
    /\ p \notin plugged
    /\ plugged' = plugged \cup {p}
    /\ UNCHANGED <<known, bridges, out>>

Unplugged(S) ==
    /\ plugged' = plugged \ S
    /\ bridges' = bridges \ S

Unplug(S) ==
    /\ Unplugged(S)
    /\ known' = [p \in Ports |-> IF p \in S THEN {} ELSE known[p]]
    /\ out' = [p \in Ports |-> IF p \in S THEN <<>> ELSE out[p]]

\* The upgrade request names the port's address, and whether it is a bridge.
Announce(p, mac, bridge) ==
    /\ p \in plugged /\ known[p] = {}
    /\ known' = [known EXCEPT ![p] = {mac}]
    /\ bridges' = IF bridge THEN bridges \cup {p} ELSE bridges
    /\ UNCHANGED <<plugged, out>>

BecomeBridge(p) ==
    /\ p \in plugged /\ known[p] = {}
    /\ bridges' = bridges \cup {p}
    /\ UNCHANGED <<plugged, known, out>>

\* Ports with an address take part in the switching.
Active == {p \in plugged : known[p] # {}}

Holders(mac) == {p \in plugged : mac \in known[p]}

\* The sets of ports a frame may be given to: every other active port for a
\* group address, one port that has the address, and when no port has it every
\* other active bridge.  A frame from an address to itself goes nowhere.
Selections(p, f) ==
    IF f.dst = Zero \/ f.dst = f.src THEN {{}}
    ELSE IF \/ ~NoMulticast /\ IsMulticast(f.dst)
            \/ ~NoBroadcast /\ IsBroadcast(f.dst)
    THEN {Active \ {p}}
    ELSE IF Holders(f.dst) # {} THEN {{q} : q \in Holders(f.dst)}
    ELSE {(Active \cap bridges) \ {p}}

\* A valid source: one this port has, or may add to what it has.
MayUse(p, src) ==
    /\ IsValid(src)
    /\ src \in known[p] \/ known[p] = {} \/ p \in bridges

Relay(p, f) ==
    /\ p \in plugged /\ MayUse(p, f.src)
    /\ \E to \in Selections(p, f) : \E dead \in SUBSET to :
        /\ Unplugged(dead)
        /\ known' = [q \in Ports |->
             IF q \in dead THEN {} ELSE IF q = p THEN known[p] \cup {f.src} ELSE known[q]]
        /\ out' = [q \in Ports |->
             IF q \in dead THEN <<>>
             ELSE IF q \in to THEN Append(out[q], f) ELSE out[q]]

SwitchNext ==
    \/ \E p \in Ports : Plug(p) \/ BecomeBridge(p)
    \/ \E S \in SUBSET plugged : Unplug(S)
    \/ \E p \in Ports, mac \in Macs, b \in BOOLEAN : Announce(p, mac, b)
    \/ \E p \in Ports, f \in FrameTypes : Relay(p, f)

SwitchSpec == SwitchInit /\ [][SwitchNext]_svars
=============================================================================
