------------------------------- MODULE Tunnel -------------------------------
(***************************************************************************)
(* Tap device to tap device: vpn-ws clients around a vpn-ws server.         *)
(*                                                                         *)
(* The server is the learning switch that VpnServer implements (see         *)
(* VpnSwitch), the clients keep the promise that VpnClient implements (see  *)
(* VpnLink), and this module adds what lies between them: connections, each *)
(* one a port of the switch, with what is on its way in both directions.    *)
(* A client that gives its connection up may be back with a new one long    *)
(* before the server has noticed the end of the old one, whose port keeps   *)
(* its address and the frames that are not read yet.                        *)
(***************************************************************************)
EXTENDS Naturals, EthernetSwitch

CONSTANTS
    Clients,
    NoPort,
    Address,       \* the address each client announces, that of its tap device
    Hosts,         \* the addresses frames from its tap device come from
    BridgeClients, \* the clients started with --bridge
    Destinations,  \* where each client's frames are sent to
    MaxConns,      \* bound: connections of each client
    MaxSends       \* bound: frames sent

ASSUME TunnelConstants ==
    /\ Ports \subseteq Nat /\ NoPort \notin Ports /\ Clients # {}
    /\ Address \in [Clients -> Unicast]
    /\ \A c, d \in Clients : Address[c] = Address[d] => c = d
    /\ Hosts \in [Clients -> SUBSET Unicast] /\ BridgeClients \subseteq Clients
    /\ Destinations \in [Clients -> SUBSET Macs]
    /\ MaxConns \in [Clients -> Nat] /\ MaxSends \in Nat

VARIABLES
    client,  \* each client's end of its connection
    owner,   \* the client that opened the connection of a port
    up,      \* sent on the connection of a port, not read by the server
    tap,     \* history: the frames written to each client's tap device
    sends    \* bound: frames sent

vars == <<svars, client, owner, up, tap, sends>>

\* queue: frames on their way to the client; conn: its connections so far.
Down == [state |-> "down", port |-> NoPort, queue |-> <<>>, torn |-> FALSE, conn |-> 0]

From(q, i) == SubSeq(q, i, Len(q))

\* Is the client that opened the connection of this port still there?
Attached(p) == p \in plugged /\ client[owner[p]].port = p

-----------------------------------------------------------------------------
(* Connections *)

\* The client connects, the server accepts: the lowest free descriptor.
Connect(c) ==
    /\ client[c].state = "down" /\ client[c].conn < MaxConns[c]
    /\ \E p \in Ports \ plugged :
        /\ \A q \in Ports \ plugged : p <= q
        /\ Plug(p)
        /\ client' = [client EXCEPT ![c].state = "asked", ![c].port = p, ![c].conn = @ + 1]
        /\ owner' = [owner EXCEPT ![p] = c]
    /\ UNCHANGED <<up, tap, sends>>

\* The handshake: the address is in the table, the answer on its way.
ServerAnnounces(p) ==
    /\ p \in plugged
    /\ Announce(p, Address[owner[p]], owner[p] \in BridgeClients)
    /\ client' = IF Attached(p) THEN [client EXCEPT ![owner[p]].state = "answered"]
                 ELSE client
    /\ UNCHANGED <<owner, up, tap, sends>>

\* What was read with the answer is thrown away, perhaps with half a frame.
Upgrade(c) ==
    /\ client[c].state = "answered"
    /\ \E k \in 0 .. Len(client[c].queue) : \E cut \in {FALSE, k > 0} :
        client' = [client EXCEPT ![c].state = "open", ![c].torn = cut,
                                 ![c].queue = From(@, k + 1)]
    /\ UNCHANGED <<svars, owner, up, tap, sends>>

\* Mutant of GaveUp: frames of this connection are left for the next one.
GaveUpWithQueue(c) ==
    [client EXCEPT ![c] = [Down EXCEPT !.conn = client[c].conn, !.queue = client[c].queue]]

GaveUp(c) == [client EXCEPT ![c] = [Down EXCEPT !.conn = client[c].conn]]

\* The client closes its connection, whatever the reason.
GiveUp(c) ==
    /\ client[c].state # "down"
    /\ client' = GaveUp(c)
    /\ UNCHANGED <<svars, owner, up, tap, sends>>

-----------------------------------------------------------------------------
(* The server *)

\* Mutant of Reached: frames go by the client that opened the connection.
ReachedByOwner ==
    [c \in Clients |->
       LET new(p) == From(out'[p], Len(out[p]) + 1)
           mine == {p \in plugged' : owner[p] = c /\ new(p) # <<>>}
       IN IF client[c].port = NoPort THEN client[c]
          ELSE IF client[c].port \notin plugged' THEN [client[c] EXCEPT !.port = NoPort]
          ELSE IF mine = {} THEN client[c]
          ELSE [client[c] EXCEPT !.queue = @ \o new(CHOOSE p \in mine : TRUE)]]

\* Mutant of Reached: the end of a connection is not seen.
ReachedForEver ==
    [c \in Clients |->
       LET p == client[c].port
       IN IF p = NoPort \/ p \notin plugged' THEN client[c]
          ELSE [client[c] EXCEPT !.queue = @ \o From(out'[p], Len(out[p]) + 1)]]

\* The clients after a step of the switch: what it gave to a port is on its way to the
\* client there, though it may never get there: a frame that waits in the server's
\* write_buf can stay in it.  A port that is unplugged ends the connection.
Reached ==
    [c \in Clients |->
       LET p == client[c].port
       IN IF p = NoPort THEN client[c]
          ELSE IF p \notin plugged' THEN [client[c] EXCEPT !.port = NoPort]
          ELSE [client[c] EXCEPT !.queue = @ \o From(out'[p], Len(out[p]) + 1)]]

\* Frames that were not read are lost with their port.
Unread(q) == [p \in Ports |-> IF p \in plugged' THEN q[p] ELSE <<>>]

\* Mutant of Read: the frame stays in the buffer.
ReadAgain(p) == up

Read(p) == [up EXCEPT ![p] = Tail(@)]

ServerRelays(p) ==
    /\ up[p] # <<>>
    /\ Relay(p, Head(up[p]))
    /\ client' = Reached /\ up' = Unread(Read(p))
    /\ UNCHANGED <<owner, tap, sends>>

\* A frame from an address that is not this port's.
ServerIgnores(p) ==
    /\ up[p] # <<>> /\ ~MayUse(p, Head(up[p]).src)
    /\ up' = Read(p)
    /\ UNCHANGED <<svars, client, owner, tap, sends>>

Unplugs(p) ==
    /\ Unplug({p})
    /\ client' = Reached /\ up' = Unread(up)
    /\ UNCHANGED <<owner, tap, sends>>

\* Mutant of ServerReaps: only a connection with something to read is looked at.
ServerReapsOnInput(p) == p \in plugged /\ ~Attached(p) /\ up[p] # <<>> /\ Unplugs(p)

\* The end of a connection the client has closed is noticed, or a write to it
\* fails; what was not read may be lost with it.
ServerReaps(p) == p \in plugged /\ ~Attached(p) /\ Unplugs(p)

\* A request is refused, a peer killed, a call on it fails.
ServerDrops(p) == Attached(p) /\ Unplugs(p)

-----------------------------------------------------------------------------
(* Frames *)

\* A frame that the kernel routes to the client's tap device; it is lost when
\* the other end is closed already.
SendFrame(c, src, dst) ==
    /\ client[c].state = "open" /\ sends < MaxSends
    /\ sends' = sends + 1
    /\ LET f == [src |-> src, dst |-> dst, id |-> sends + 1, from |-> c, conn |-> client[c].conn]
           p == client[c].port
       IN up' = IF p = NoPort THEN up ELSE [up EXCEPT ![p] = Append(@, f)]
    /\ UNCHANGED <<svars, client, owner, tap>>

\* A frame is written to the tap device.
Handle(c) ==
    /\ client[c].state = "open" /\ client[c].queue # <<>>
    /\ tap' = [tap EXCEPT ![c] =
                 Append(@, [frame |-> Head(client[c].queue), conn |-> client[c].conn])]
    /\ client' = [client EXCEPT ![c].queue = Tail(@)]
    /\ UNCHANGED <<svars, owner, up, sends>>

\* The rest of a cut frame is parsed as a header and swallows others.
Swallow(c) ==
    /\ client[c].torn
    /\ \E k \in 1 .. Len(client[c].queue) :
        client' = [client EXCEPT ![c].queue = From(@, k + 1)]
    /\ UNCHANGED <<svars, owner, up, tap, sends>>

-----------------------------------------------------------------------------
Init ==
    /\ plugged = {} /\ bridges = {}
    /\ known = [p \in Ports |-> {}] /\ out = [p \in Ports |-> <<>>]
    /\ client = [c \in Clients |-> Down]
    /\ owner \in [Ports -> {CHOOSE c \in Clients : TRUE}]
    /\ up = [p \in Ports |-> <<>>] /\ tap = [c \in Clients |-> <<>>] /\ sends = 0

ServerStep(p) ==
    \/ ServerAnnounces(p) \/ ServerRelays(p) \/ ServerIgnores(p)
    \/ ServerReaps(p) \/ ServerDrops(p)

ClientStep(c) ==
    \/ Connect(c) \/ Upgrade(c) \/ GiveUp(c) \/ Handle(c) \/ Swallow(c)
    \/ \E src \in Hosts[c], dst \in Destinations[c] : SendFrame(c, src, dst)

Next == (\E p \in Ports : ServerStep(p)) \/ (\E c \in Clients : ClientStep(c))

Spec == Init /\ [][Next]_vars

\* The liveness the components have by themselves: the server reaps connections that
\* are closed (HangupReaped of VpnServer, but for one that frames without end keep from
\* its turn: here they are MaxSends), a client notices that it is cut off (CloseNoticed
\* of VpnClient).  Nothing makes a client connect or stay, or a frame arrive.
Fairness ==
    /\ \A p \in Ports : WF_vars(ServerReaps(p))
    /\ \A c \in Clients : WF_vars(client[c].port = NoPort /\ GiveUp(c))

FairSpec == Spec /\ Fairness

-----------------------------------------------------------------------------
(* Properties *)

Conns == UNION {1 .. MaxConns[c] : c \in Clients}

FramesOf(c) ==
    [src : Hosts[c], dst : Destinations[c], id : 1 .. MaxSends, from : {c},
     conn : 1 .. MaxConns[c]]

Frames == UNION {FramesOf(c) : c \in Clients}

\* Type correctness, and the two ends of a connection agree on who is there.
TypeOK ==
    /\ plugged \subseteq Ports /\ bridges \subseteq plugged
    /\ known \in [Ports -> SUBSET Macs] /\ out \in [Ports -> Seq(Frames)]
    /\ client \in [Clients ->
         [state : {"down", "asked", "answered", "open"}, port : Ports \cup {NoPort},
          queue : Seq(Frames), torn : BOOLEAN, conn : {0} \cup Conns]]
    /\ owner \in [Ports -> Clients] /\ up \in [Ports -> Seq(Frames)]
    /\ \A c \in Clients : client[c].conn <= MaxConns[c]
    /\ tap \in [Clients -> Seq([frame : Frames, conn : Conns])]
    /\ sends \in 0 .. MaxSends
    /\ \A c \in Clients : client[c].port # NoPort =>
         client[c].port \in plugged /\ owner[client[c].port] = c

\* What one client sent on one of its connections reaches another in the order
\* it was sent, nothing twice, over any number of connections of the receiver.
InOrder ==
    \A c \in Clients : \A i, j \in DOMAIN tap[c] :
        LET f == tap[c][i].frame
            g == tap[c][j].frame
        IN i < j /\ f.from = g.from /\ f.conn = g.conn => f.id < g.id

\* A client that is not a bridge never gets its own frames back, but for those
\* the server still reads from a connection the client had before.
NoEcho ==
    \A c \in Clients \ BridgeClients : \A i \in DOMAIN tap[c] :
        tap[c][i].frame.from = c => tap[c][i].frame.conn < tap[c][i].conn

\* A client that is not a bridge gets frames to its own address and to groups
\* only, also when its descriptor was another client's before.
Private ==
    \A c \in Clients \ BridgeClients : \A i \in DOMAIN tap[c] :
        LET dst == tap[c][i].frame.dst
        IN dst = Address[c] \/ IsBroadcast(dst) \/ IsMulticast(dst)

\* When a client stays connected, its address is in the end at its port only:
\* the port of a connection it had before does not keep it for good.
AddressSettles ==
    \A c \in Clients :
        <>[](client[c].state = "open" /\ client[c].port # NoPort) =>
            <>[](Holders(Address[c]) = {client[c].port})

LinkState(c) == IF client[c].state = "answered" THEN "asked" ELSE client[c].state

\* How much of what its tap device was given is from earlier connections.
Past(c) ==
    CHOOSE k \in 0 .. Len(tap[c]) :
        \A i \in DOMAIN tap[c] : i > k <=> tap[c][i].conn = client[c].conn

LinkHandled(c) ==
    IF client[c].state = "down" THEN <<>>
    ELSE [i \in 1 .. Len(tap[c]) - Past(c) |-> tap[c][Past(c) + i].frame]

Link(c) == INSTANCE ClientLink WITH
    Messages <- Frames, state <- LinkState(c), queue <- client[c].queue,
    torn <- client[c].torn, handled <- LinkHandled(c)

\* Seen from its tap device each client does what VpnClient was shown to do.
ClientsKeepPromise ==
    [][\A c \in Clients : Link(c)!LinkNext \/ UNCHANGED Link(c)!lvars]_vars
=============================================================================
