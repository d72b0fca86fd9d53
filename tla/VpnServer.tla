----------------------------- MODULE VpnServer -----------------------------
(***************************************************************************)
(* The vpn-ws server: the event loop of src/src/main.c, the peer table of   *)
(* src/src/socket.c and src/src/memory.c, the per-descriptor handler of     *)
(* src/src/io.c and the handshake and control requests of src/src/uwsgi.c.  *)
(*                                                                         *)
(* The server is one thread.  It waits for ready descriptors (Wait), takes  *)
(* them one by one (Accept, ManageWrite, ManageRead...), and a handler that *)
(* has read something goes round the "again" loop of vpn_ws_manage_fd, one  *)
(* step per message, until it returns.  Between two of those steps the rest *)
(* of the world moves: clients connect, send, stop reading and hang up.     *)
(*                                                                         *)
(* A socket carries whole items in order: a message of the client, a 101    *)
(* reply, a JSON reply or a frame.  An item cut by a short read or a short   *)
(* write stays whole in the buffer it was cut from.                         *)
(***************************************************************************)
EXTENDS Integers, Sequences, FiniteSets, MacAddresses

CONSTANTS
    FirstFd, LastFd,  \* the descriptors accept() and open() may return
    ServerFd,         \* the listening socket
    HasTap,           \* --tuntap was given
    TapMac,           \* the address of that device
    ConfBridge,       \* --bridge
    NoBroadcast,      \* --no-broadcast
    NoMulticast,      \* --no-multicast
    MaxVars,          \* room for request variables in a peer (64 in the code)
    SyscallsFail,     \* may allocations and system calls fail?
    Requests,         \* the first message of a connection, one of these
    Messages,         \* what a websocket client may send afterwards
    TapFrames,        \* the frames the kernel may route to the tap device
    MaxConns,         \* bound: connections opened in a behaviour
    MaxSends          \* bound: messages and tap frames sent in a behaviour

Fds == FirstFd .. LastFd
TapFd == FirstFd
NoFd == LastFd + 1
NoKill == -1

(***************************************************************************)
(* What travels.  In a request, "macAt" places the X-vpn-ws-MAC variable:   *)
(* absent, ill-formed, last of the packet, or followed by another variable; *)
(* "cut" says that some variable has a zero key length.                     *)
(***************************************************************************)
RequestType ==
    [type : {"request"}, ctrl : BOOLEAN, kill : Int, key : BOOLEAN,
     macAt : {"absent", "bad", "last", "inside"}, mac : Macs,
     bridge : BOOLEAN, vars : Nat, cut : BOOLEAN]
FrameType == [type : {"frame"}, src : Macs, dst : Macs]
Ping == [type |-> "ping"]      \* opcodes 9 and 10
Short == [type |-> "short"]    \* too short to hold an ethernet header
Close == [type |-> "close"]    \* opcode 8, or one that is not known
MessageType == FrameType \cup {Ping, Short, Close}
Reply101 == [type |-> "101"]
Json == [type |-> "json"]
\* A forwarded frame, in a websocket frame or bare for the tap device.
ItemType == {Reply101, Json}
    \cup [type : {"frame"}, src : Macs, dst : Macs, enc : {"ws", "raw"}]

ASSUME FdsAssumption ==
    /\ FirstFd \in Nat /\ LastFd \in Nat /\ FirstFd <= LastFd
    /\ ServerFd \in Nat /\ ServerFd < FirstFd
ASSUME OptionsAssumption ==
    /\ HasTap \in BOOLEAN /\ ConfBridge \in BOOLEAN /\ SyscallsFail \in BOOLEAN
    /\ NoBroadcast \in BOOLEAN /\ NoMulticast \in BOOLEAN
    /\ TapMac \in Macs /\ MaxVars \in Nat
ASSUME TrafficAssumption ==
    /\ Requests \subseteq RequestType
    /\ Messages \subseteq MessageType /\ TapFrames \subseteq FrameType
    /\ MaxConns \in Nat /\ MaxSends \in Nat

VARIABLES
    live,     \* the descriptors with an entry in vpn_ws_conf.peers
    peersN,   \* vpn_ws_conf.peers_n, the size of that table
    peer,     \* the vpn_ws_peer of each descriptor
    sock,     \* what the kernel and the client at the other end hold
    pending,  \* how many connections wait for accept()
    batch,    \* the events of the last epoll_wait() not handled yet
    cur,      \* the descriptor in the "again" loop, or NoFd
    dirty,    \* vpn_ws_manage_fd's flag of the same name
    fault,    \* undefined behaviour the run has met
    conns, sends  \* bounds: connections opened, messages sent

world == <<pending, conns, sends>>
vars == <<live, peersN, peer, sock, pending, batch, cur, dirty, fault, conns, sends>>

-----------------------------------------------------------------------------
(* Peers and sockets *)

\* A calloc'ed peer.
FreshPeer ==
    [handshake |-> 0, isWriting |-> FALSE, macCollected |-> FALSE, mac |-> Zero,
     raw |-> FALSE, bridge |-> FALSE, macs |-> {}, ctrl |-> FALSE, vars |-> 0,
     buf |-> <<>>, writeBuf |-> <<>>]

TapPeer == [FreshPeer EXCEPT !.handshake = 1, !.macCollected = TRUE,
                             !.mac = TapMac, !.raw = TRUE, !.bridge = ConfBridge]

\* interest: what epoll watches; inq: sent by the client and not read;
\* full: a write would block; hup: the client is gone; sent: history of what
\* was written to the socket.
FreshSock ==
    [interest |-> "in", inq |-> <<>>, full |-> FALSE, hup |-> FALSE, sent |-> <<>>]

Lowest(S) == {fd \in S : \A g \in S : fd <= g}

\* How many items of the queue q may one write leave behind?  -1: it fails.
\* A tap device takes a frame at once.
Outcomes(fd, q) ==
    IF sock[fd].hup THEN {-1}
    ELSE (IF peer[fd].raw THEN {0}
          ELSE IF sock[fd].full THEN {Len(q)} ELSE 0 .. Len(q))
         \cup (IF SyscallsFail THEN {-1} ELSE {})

Unwritten(q, left) == SubSeq(q, Len(q) - left + 1, Len(q))

SockWrote(s, q, left) ==
    [s EXCEPT !.sent = @ \o SubSeq(q, 1, Len(q) - left), !.full = @ \/ left > 0]

\* Mutant of SockBlocked: the socket is not watched for output.
SockBlockedUnwatched(s, q, left) == SockWrote(s, q, left)

\* The reply to a request is blocked: watch for room to write.
SockBlocked(s, q, left) == [SockWrote(s, q, left) EXCEPT !.interest = "out"]

\* Mutant of SockForwarded: only a peer already in the writing state is watched.
SockForwardedUnwatched(fd, q, left) ==
    IF left > 0 /\ peer[fd].isWriting THEN SockBlocked(sock[fd], q, left)
    ELSE SockWrote(sock[fd], q, left)

\* A forwarded frame is written, and watched if some of it stays behind; a
\* peer in the writing state is already watched.
SockForwarded(fd, q, left) ==
    IF left > 0 /\ ~peer[fd].isWriting THEN SockBlocked(sock[fd], q, left)
    ELSE SockWrote(sock[fd], q, left)

\* Mutant of Destroy: the entry of the table still points to the peer.
DestroyDangling(S) ==
    /\ live' = live \ S
    /\ peer' = peer
    /\ sock' = [fd \in Fds |-> IF fd \in S THEN FreshSock ELSE sock[fd]]

Destroy(S) ==
    /\ live' = live \ S
    /\ peer' = [fd \in Fds |-> IF fd \in S THEN FreshPeer ELSE peer[fd]]
    /\ sock' = [fd \in Fds |-> IF fd \in S THEN FreshSock ELSE sock[fd]]

-----------------------------------------------------------------------------
(* The event loop *)

Ready(fd) ==
    \/ sock[fd].hup
    \/ sock[fd].interest = "in" /\ sock[fd].inq # <<>>
    \/ sock[fd].interest = "out" /\ ~sock[fd].full

AllReady == {fd \in live : Ready(fd)}
            \cup (IF pending > 0 THEN {ServerFd} ELSE {})

Running == fault = "none"

Idle == Running /\ cur = NoFd

\* epoll_wait() returns every descriptor that is ready.
Wait ==
    /\ Idle /\ batch = {} /\ AllReady # {}
    /\ batch' = AllReady
    /\ UNCHANGED <<live, peersN, peer, sock, cur, dirty, fault, world>>

\* The handler of fd returns; a non-zero value ends the batch.
Return(fd, stop) ==
    /\ cur' = NoFd /\ dirty' = FALSE
    /\ batch' = IF stop THEN {} ELSE batch \ {fd}

-----------------------------------------------------------------------------
(* vpn_ws_peer_accept, vpn_ws_peer_create *)

\* Mutants of Grown: the new size is one short; it is added to the old one.
GrownShort(fd) == IF fd > peersN THEN fd ELSE peersN
GrownBy(fd) == peersN + fd + 1

\* The table is grown so that fd is an index of it.
Grown(fd) == IF fd >= peersN THEN fd + 1 ELSE peersN

Accepting == Idle /\ ServerFd \in batch

Accept ==
    /\ Accepting /\ pending > 0
    /\ \E fd \in Lowest(Fds \ live) :
        /\ live' = live \cup {fd}
        /\ peersN' = Grown(fd)
        /\ peer' = [peer EXCEPT ![fd] = FreshPeer]
        /\ sock' = [sock EXCEPT ![fd] = FreshSock]
    /\ pending' = pending - 1
    /\ Return(ServerFd, FALSE)
    /\ UNCHANGED <<fault, conns, sends>>

\* accept() fails: no descriptor is left, or another error.
AcceptFails ==
    /\ Accepting /\ (Fds \subseteq live \/ SyscallsFail)
    /\ Return(ServerFd, FALSE)
    /\ UNCHANGED <<live, peersN, peer, sock, fault, world>>

\* accept() returns a descriptor, but it or the table's growth cannot be set
\* up, or the table grows and then there is no memory for the peer.
CreateFails ==
    /\ Accepting /\ SyscallsFail /\ pending > 0
    /\ \E fd \in Lowest(Fds \ live) : peersN' \in {peersN, Grown(fd)}
    /\ pending' = pending - 1
    /\ Return(ServerFd, FALSE)
    /\ UNCHANGED <<live, peer, sock, fault, conns, sends>>

-----------------------------------------------------------------------------
(* vpn_ws_manage_fd, up to the "again" label *)

Managing(fd) == Idle /\ fd \in batch \ {ServerFd}

\* An event of a peer destroyed earlier in the batch: "[BUG] fd %d not found".
ManageMissing(fd) ==
    /\ Managing(fd) /\ fd \notin live
    /\ Return(fd, TRUE)
    /\ UNCHANGED <<live, peersN, peer, sock, fault, world>>

WritingEvent(fd) == Managing(fd) /\ fd \in live /\ peer[fd].isWriting

\* vpn_ws_continue_write() fails: the client is gone, or nothing is left to
\* write and a write of zero bytes returns zero.
WriteFails(fd) ==
    /\ WritingEvent(fd)
    /\ sock[fd].hup \/ peer[fd].writeBuf = <<>> \/ SyscallsFail
    /\ Destroy({fd})
    /\ Return(fd, TRUE)
    /\ UNCHANGED <<peersN, fault, world>>

\* Part of the buffer, or nothing of it, is taken.
WriteSome(fd) ==
    /\ WritingEvent(fd)
    /\ LET q == peer[fd].writeBuf
       IN \E left \in Outcomes(fd, q) \ {0, -1} :
            /\ peer' = [peer EXCEPT ![fd].writeBuf = Unwritten(q, left)]
            /\ sock' = [sock EXCEPT ![fd] = SockWrote(@, q, left)]
    /\ Return(fd, FALSE)
    /\ UNCHANGED <<live, peersN, fault, world>>

\* The whole buffer is taken: close after the last reply, or watch input again.
WriteAll(fd) ==
    /\ WritingEvent(fd) /\ peer[fd].writeBuf # <<>>
    /\ 0 \in Outcomes(fd, peer[fd].writeBuf)
    /\ IF peer[fd].handshake > 1
       THEN Destroy({fd}) /\ Return(fd, TRUE)
       ELSE /\ peer' = [peer EXCEPT ![fd].isWriting = FALSE, ![fd].writeBuf = <<>>]
            /\ sock' = [sock EXCEPT ![fd] =
                  [SockWrote(@, peer[fd].writeBuf, 0) EXCEPT !.interest = "in"]]
            /\ Return(fd, FALSE)
            /\ UNCHANGED live
    /\ UNCHANGED <<peersN, fault, world>>

ReadingEvent(fd) == Managing(fd) /\ fd \in live /\ ~peer[fd].isWriting

\* Mutants of ReadFails: EAGAIN taken for an error; end of file not noticed.
ReadFailsOnEagain(fd) ==
    /\ ReadingEvent(fd) /\ sock[fd].inq = <<>>
    /\ Destroy({fd}) /\ Return(fd, TRUE)
    /\ UNCHANGED <<peersN, fault, world>>
ReadFailsNotAtEof(fd) ==
    /\ ReadingEvent(fd) /\ SyscallsFail
    /\ Destroy({fd}) /\ Return(fd, TRUE)
    /\ UNCHANGED <<peersN, fault, world>>

\* End of file, a read error or no memory for the buffer.
ReadFails(fd) ==
    /\ ReadingEvent(fd)
    /\ (sock[fd].hup /\ sock[fd].inq = <<>>) \/ SyscallsFail
    /\ Destroy({fd})
    /\ Return(fd, TRUE)
    /\ UNCHANGED <<peersN, fault, world>>

\* EAGAIN, or a read that brings no message to its end.
ReadNothing(fd) ==
    /\ ReadingEvent(fd) /\ ~(sock[fd].hup /\ sock[fd].inq = <<>>)
    /\ peer[fd].raw => sock[fd].inq = <<>>
    /\ Return(fd, FALSE)
    /\ UNCHANGED <<live, peersN, peer, sock, fault, world>>

\* Mutant of ReadMessages: a peer watched for output is not read.
ReadMessagesWhenWatched(fd) ==
    /\ ReadingEvent(fd) /\ sock[fd].inq # <<>> /\ sock[fd].interest = "in"
    /\ peer' = [peer EXCEPT ![fd].buf = @ \o sock[fd].inq]
    /\ sock' = [sock EXCEPT ![fd].inq = <<>>]
    /\ cur' = fd /\ batch' = batch \ {fd}
    /\ UNCHANGED <<live, peersN, dirty, fault, world>>

\* A read that completes the next k messages; one frame from a tap device.
ReadMessages(fd) ==
    /\ ReadingEvent(fd) /\ sock[fd].inq # <<>>
    /\ LET q == sock[fd].inq
       IN \E k \in 1 .. (IF peer[fd].raw THEN 1 ELSE Len(q)) :
            /\ peer' = [peer EXCEPT ![fd].buf = @ \o SubSeq(q, 1, k)]
            /\ sock' = [sock EXCEPT ![fd].inq = SubSeq(q, k + 1, Len(q))]
    /\ cur' = fd /\ batch' = batch \ {fd}
    /\ UNCHANGED <<live, peersN, dirty, fault, world>>

\* The buffer is written, but epoll_ctl() does not go back to watching input.
WatchInputFails(fd) ==
    /\ WritingEvent(fd) /\ SyscallsFail /\ peer[fd].writeBuf # <<>>
    /\ 0 \in Outcomes(fd, peer[fd].writeBuf) /\ peer[fd].handshake <= 1
    /\ peer' = [peer EXCEPT ![fd].isWriting = FALSE, ![fd].writeBuf = <<>>]
    /\ sock' = [sock EXCEPT ![fd] = SockWrote(@, peer[fd].writeBuf, 0)]
    /\ Return(fd, TRUE)
    /\ UNCHANGED <<live, peersN, fault, world>>

-----------------------------------------------------------------------------
(* The "again" loop: one message of peer->buf at a time *)

Looping(fd) == Running /\ cur = fd

\* Mutant of Consumed: the message stays in the buffer.
ConsumedNothing(b) == b

\* memmove() of what follows the message to the start of the buffer.
Consumed(b) == Tail(b)

\* The handler returns having destroyed its peer (and the peers in S).
LoopFails(fd, S) ==
    /\ Destroy(S \cup {fd})
    /\ Return(fd, TRUE)
    /\ UNCHANGED <<peersN, fault, world>>

\* No complete message is left.
LoopEnds(fd) ==
    /\ Looping(fd) /\ peer[fd].buf = <<>>
    /\ Return(fd, dirty)
    /\ UNCHANGED <<live, peersN, peer, sock, fault, world>>

-----------------------------------------------------------------------------
(* vpn_ws_handshake *)

\* The peer has not completed its handshake and its request has arrived.
Shaking(fd) ==
    /\ Looping(fd) /\ peer[fd].handshake = 0 /\ peer[fd].buf # <<>>

ParsedVars(fd) == peer[fd].vars + Head(peer[fd].buf).vars

\* vpn_ws_uwsgi_parse() fails.
BadPacket(fd) == Head(peer[fd].buf).cut \/ ParsedVars(fd) > MaxVars

\* A websocket request has a key, and an address of 17 characters if any.
GoodUpgrade(r) == ~r.ctrl /\ r.key /\ r.macAt # "bad"

HandshakeFails(fd) ==
    /\ Shaking(fd)
    /\ LET r == Head(peer[fd].buf)
       IN BadPacket(fd) \/ ~(r.ctrl \/ GoodUpgrade(r))
    /\ LoopFails(fd, {})

\* Reading the address writes a NUL after each of its six bytes, the last one
\* over the byte that follows the variable: the key length of the next
\* variable, or the first byte of the message after the request.
AddressRead(b) ==
    CASE Head(b).macAt = "inside" -> [b EXCEPT ![1].cut = TRUE]
      [] Head(b).macAt = "last" /\ Len(b) > 1 /\ b[2] \in {Close, Ping} -> [b EXCEPT ![2] = Short]
      [] OTHER -> b

Upgraded(fd) ==
    LET r == Head(peer[fd].buf)
    IN [peer[fd] EXCEPT
          !.vars = ParsedVars(fd),
          !.mac = IF r.macAt = "absent" THEN @ ELSE r.mac,
          !.macCollected = @ \/ r.macAt # "absent",
          !.bridge = @ \/ r.bridge,
          !.buf = AddressRead(@)]

\* The 101 reply is appended to the write buffer and written.  If some of it
\* stays there the handshake is not over and the request is not consumed.
HandshakeUpgrade(fd) ==
    /\ Shaking(fd) /\ ~BadPacket(fd) /\ GoodUpgrade(Head(peer[fd].buf))
    /\ LET q == Append(peer[fd].writeBuf, Reply101)
           p == Upgraded(fd)
       IN \E left \in Outcomes(fd, q) :
            \/ left = -1 /\ LoopFails(fd, {})
            \/ /\ left = 0
               /\ peer' = [peer EXCEPT ![fd] =
                    [p EXCEPT !.handshake = 1, !.buf = Consumed(@), !.writeBuf = <<>>]]
               /\ sock' = [sock EXCEPT ![fd] = SockWrote(@, q, 0)]
               /\ UNCHANGED <<live, peersN, batch, cur, dirty, fault, world>>
            \/ /\ left > 0
               /\ peer' = [peer EXCEPT ![fd] =
                    [p EXCEPT !.isWriting = TRUE, !.writeBuf = Unwritten(q, left)]]
               /\ sock' = [sock EXCEPT ![fd] = SockBlocked(@, q, left)]
               /\ Return(fd, dirty)
               /\ UNCHANGED <<live, peersN, fault, world>>

-----------------------------------------------------------------------------
(* vpn_ws_ctrl_json *)

ControlRequest(fd) ==
    Shaking(fd) /\ ~BadPacket(fd) /\ Head(peer[fd].buf).ctrl

\* ?kill=N destroys peer N unless it is the tap device or a control client.
Victims(fd) ==
    {v \in live \ {fd} : v = Head(peer[fd].buf).kill /\ ~peer[v].raw /\ ~peer[v].ctrl}

\* The table has no entry peersN, but the range check lets it through.
KillBeyondTable(fd) == Head(peer[fd].buf).kill = peersN

\* The reply is written and the connection closed; what cannot be written at
\* once is left to the event loop.
Control(fd) ==
    /\ ControlRequest(fd)
    /\ LET q == Append(peer[fd].writeBuf, Json)
           dead == Victims(fd)
       IN \E left \in Outcomes(fd, q) :
            \/ left <= 0 /\ LoopFails(fd, dead)
            \/ /\ left > 0
               /\ live' = live \ dead
               /\ peer' = [g \in Fds |->
                    IF g \in dead THEN FreshPeer
                    ELSE IF g = fd THEN [peer[fd] EXCEPT
                        !.ctrl = TRUE, !.vars = ParsedVars(fd), !.handshake = 1,
                        !.isWriting = TRUE, !.writeBuf = Unwritten(q, left)]
                    ELSE peer[g]]
               /\ sock' = [g \in Fds |->
                    IF g \in dead THEN FreshSock
                    ELSE IF g = fd THEN SockBlocked(sock[fd], q, left)
                    ELSE sock[g]]
               /\ Return(fd, dirty)
               /\ UNCHANGED <<peersN, fault, world>>

\* The entry read beyond the table is whatever the memory holds.
ControlFault(fd) ==
    /\ ControlRequest(fd) /\ KillBeyondTable(fd)
    /\ fault' = "entry beyond the table"
    /\ UNCHANGED <<live, peersN, peer, sock, batch, cur, dirty, world>>

\* No memory for the reply.
ControlFails(fd) ==
    /\ ControlRequest(fd) /\ SyscallsFail
    /\ \E S \in {{}, Victims(fd)} : LoopFails(fd, S)

-----------------------------------------------------------------------------
(* Frames *)

\* A control client's reply was blocked: the handshake counts as completed,
\* but its request is still in the buffer.
RequestLeft(fd) ==
    peer[fd].handshake > 0 /\ peer[fd].buf # <<>> /\ Head(peer[fd].buf) \in RequestType

\* Whatever else such a client sends has the websocket parser read the request.
\* What it makes of it is not modelled: a behaviour ends here.
Misread(fd) ==
    /\ Looping(fd) /\ RequestLeft(fd)
    /\ fault' = "request read as a message"
    /\ UNCHANGED <<live, peersN, peer, sock, batch, cur, dirty, world>>

\* The next message of a peer that has completed its handshake.
Receiving(fd) ==
    /\ Looping(fd) /\ peer[fd].handshake > 0 /\ peer[fd].buf # <<>>
    /\ ~RequestLeft(fd)

Decapitated(fd) == [peer[fd] EXCEPT !.buf = Consumed(@)]

\* Mutant of Accepted: any valid source address will do.
AcceptedAnySource(fd, m) == IsValid(m.src)

\* Only a bridge may use more than one source address.
Accepted(fd, m) ==
    /\ IsValid(m.src)
    /\ peer[fd].macCollected => (peer[fd].mac = m.src \/ peer[fd].bridge)

\* Mutant of Learned: a bridge's new address replaces the one it had.
LearnedOver(p, src) == [p EXCEPT !.mac = src, !.macCollected = TRUE]

Learned(p, src) ==
    IF ~p.macCollected THEN [p EXCEPT !.mac = src, !.macCollected = TRUE]
    ELSE IF p.mac = src THEN p
    ELSE [p EXCEPT !.macs = @ \cup {src}]

ReceiveClose(fd) ==
    /\ Receiving(fd) /\ Head(peer[fd].buf) = Close
    /\ LoopFails(fd, {})

\* The message is decapitated and nothing else happens.
Ignore(fd) ==
    /\ Receiving(fd)
    /\ LET m == Head(peer[fd].buf)
       IN \/ m \in {Ping, Short}
          \/ m.type = "frame" /\ ~Accepted(fd, m)
    /\ peer' = [peer EXCEPT ![fd] = Decapitated(fd)]
    /\ UNCHANGED <<live, peersN, sock, batch, cur, dirty, fault, world>>

\* No memory for a new address of a bridge.
LearnFails(fd) ==
    /\ Receiving(fd) /\ SyscallsFail
    /\ LET m == Head(peer[fd].buf)
       IN /\ m.type = "frame" /\ Accepted(fd, m)
          /\ Learned(peer[fd], m.src).macs # peer[fd].macs
    /\ LoopFails(fd, {})

\* Mutant of Others: "already accounted ?" left out.
OthersUnregistered(fd) == live \ {fd}

Others(fd) == {g \in live \ {fd} : peer[g].macCollected}

Group(dst) ==
    (~NoMulticast /\ IsMulticast(dst)) \/ (~NoBroadcast /\ IsBroadcast(dst))

\* vpn_ws_peer_by_mac and vpn_ws_peer_by_bridge_mac take the first match.
ByMac(mac) ==
    Lowest({g \in live : peer[g].macCollected /\ peer[g].mac = mac})
ByBridgeMac(mac) ==
    Lowest({g \in live : peer[g].macCollected /\ mac \in peer[g].macs})

Recipients(fd, m) ==
    IF IsZero(m.dst) \/ IsLoop(m.dst, m.src) THEN {}
    ELSE IF Group(m.dst) THEN Others(fd)
    ELSE IF ByMac(m.dst) # {} THEN ByMac(m.dst)
    ELSE IF ByBridgeMac(m.dst) # {} THEN ByBridgeMac(m.dst)
    ELSE {g \in Others(fd) : peer[g].bridge}

\* The websocket header is added, removed or kept.
Encoded(m, to) ==
    [type |-> "frame", src |-> m.src, dst |-> m.dst,
     enc |-> IF peer[to].raw THEN "raw" ELSE "ws"]

\* Every recipient's write buffer gets the frame and is written.  A recipient
\* that fails is destroyed; one that cannot take it all is watched for output.
Forward(fd) ==
    /\ Receiving(fd) /\ Head(peer[fd].buf).type = "frame"
    /\ LET m == Head(peer[fd].buf)
           to == Recipients(fd, m)
           q == [t \in to |-> Append(peer[t].writeBuf, Encoded(m, t))]
           learned == [peer EXCEPT ![fd] = Learned(Decapitated(fd), m.src)]
       IN /\ Accepted(fd, m)
          /\ \E left \in [to -> UNION {Outcomes(t, q[t]) : t \in to}] :
               LET dead == {t \in to : left[t] = -1}
                   blocked == {t \in to : left[t] > 0}
               IN /\ \A t \in to : left[t] \in Outcomes(t, q[t])
                  /\ live' = live \ dead
                  /\ peer' = [g \in Fds |->
                       IF g \in dead THEN FreshPeer
                       ELSE IF g \in to
                       THEN [learned[g] EXCEPT !.writeBuf = Unwritten(q[g], left[g])]
                       ELSE learned[g]]
                  /\ sock' = [g \in Fds |->
                       IF g \in dead THEN FreshSock
                       ELSE IF g \in to THEN SockForwarded(g, q[g], left[g])
                       ELSE sock[g]]
                  /\ dirty' = (dirty \/ dead \cup blocked # {})
                  /\ fault' = IF fd \in dead THEN "freed peer used" ELSE fault
    /\ UNCHANGED <<peersN, batch, cur, world>>

-----------------------------------------------------------------------------
(* Clients and the network, modelled from what the server can observe *)

Connect ==
    /\ Running /\ conns < MaxConns
    /\ pending' = pending + 1 /\ conns' = conns + 1
    /\ UNCHANGED <<live, peersN, peer, sock, batch, cur, dirty, fault, sends>>

\* The request of a connection, some time after it was opened.
ClientRequests(fd, r) ==
    /\ Running /\ fd \in live /\ ~sock[fd].hup
    /\ peer[fd].handshake = 0 /\ peer[fd].buf = <<>> /\ sock[fd].inq = <<>>
    /\ sock' = [sock EXCEPT ![fd].inq = <<r>>]
    /\ UNCHANGED <<live, peersN, peer, batch, cur, dirty, fault, world>>

Sends(fd, m) ==
    /\ Running /\ sends < MaxSends /\ sends' = sends + 1
    /\ sock' = [sock EXCEPT ![fd].inq = Append(@, m)]
    /\ UNCHANGED <<live, peersN, peer, pending, batch, cur, dirty, fault, conns>>

\* A client sends more behind its request, also before it got a reply.
ClientSends(fd, m) ==
    /\ fd \in live /\ ~sock[fd].hup /\ ~peer[fd].raw
    /\ peer[fd].handshake > 0 \/ peer[fd].buf # <<>> \/ sock[fd].inq # <<>>
    /\ Sends(fd, m)

\* The kernel routes a frame to the tap device.
TapReceives(m) == TapFd \in live /\ peer[TapFd].raw /\ Sends(TapFd, m)

\* The client reads: there is room in the socket again.
Drain(fd) ==
    /\ Running /\ fd \in live /\ sock[fd].full /\ ~sock[fd].hup
    /\ sock' = [sock EXCEPT ![fd].full = FALSE]
    /\ UNCHANGED <<live, peersN, peer, batch, cur, dirty, fault, world>>

Hangup(fd) ==
    /\ Running /\ fd \in live /\ ~peer[fd].raw /\ ~sock[fd].hup
    /\ sock' = [sock EXCEPT ![fd].hup = TRUE]
    /\ UNCHANGED <<live, peersN, peer, batch, cur, dirty, fault, world>>

-----------------------------------------------------------------------------
Init ==
    /\ live = IF HasTap THEN {TapFd} ELSE {}
    /\ peersN = IF HasTap THEN TapFd + 1 ELSE 0
    /\ peer = [fd \in Fds |-> IF HasTap /\ fd = TapFd THEN TapPeer ELSE FreshPeer]
    /\ sock = [fd \in Fds |-> FreshSock]
    /\ pending = 0 /\ batch = {} /\ cur = NoFd /\ dirty = FALSE
    /\ fault = "none" /\ conns = 0 /\ sends = 0

EventStep(fd) ==
    \/ ManageMissing(fd)
    \/ WriteFails(fd) \/ WriteSome(fd) \/ WriteAll(fd) \/ WatchInputFails(fd)
    \/ ReadFails(fd) \/ ReadNothing(fd) \/ ReadMessages(fd)

LoopStep(fd) ==
    \/ LoopEnds(fd)
    \/ HandshakeFails(fd) \/ HandshakeUpgrade(fd)
    \/ Control(fd) \/ ControlFault(fd) \/ ControlFails(fd)
    \/ Misread(fd) \/ ReceiveClose(fd) \/ Ignore(fd) \/ LearnFails(fd) \/ Forward(fd)

ServerStep ==
    \/ Wait \/ Accept \/ AcceptFails \/ CreateFails
    \/ \E fd \in Fds : EventStep(fd) \/ LoopStep(fd)

ClientStep ==
    \/ Connect
    \/ \E fd \in Fds, r \in Requests : ClientRequests(fd, r)
    \/ \E fd \in Fds, m \in Messages : ClientSends(fd, m)
    \/ \E m \in TapFrames : TapReceives(m)
    \/ \E fd \in Fds : Drain(fd) \/ Hangup(fd)

Next == ServerStep \/ ClientStep

Spec == Init /\ [][Next]_vars

\* The server runs.  Reads that are made do not find the start of a message for
\* ever, a client that is there goes on reading, and what is written to it when it
\* does is in the end all there is.  Nothing is said of which reads and writes the
\* server gets to: that is up to its loop.
Fairness ==
    /\ WF_vars(ServerStep)
    /\ \A fd \in Fds :
        /\ []<><<ReadNothing(fd) /\ ENABLED ReadMessages(fd)>>_vars => []<><<ReadMessages(fd)>>_vars
        /\ []<><<WriteSome(fd)>>_vars => []<><<WriteAll(fd)>>_vars
        /\ WF_vars(Drain(fd))

FairSpec == Spec /\ Fairness

-----------------------------------------------------------------------------
(* Properties *)

\* Everything a live peer was ever given to write, in order.
Output(fd) == sock[fd].sent \o peer[fd].writeBuf

PeerType ==
    [handshake : {0, 1}, isWriting : BOOLEAN, macCollected : BOOLEAN,
     mac : Macs, raw : BOOLEAN, bridge : BOOLEAN, macs : SUBSET Macs,
     ctrl : BOOLEAN, vars : 0 .. MaxVars, buf : Seq(RequestType \cup MessageType),
     writeBuf : Seq(ItemType)]

SockType ==
    [interest : {"in", "out"}, inq : Seq(RequestType \cup MessageType),
     full : BOOLEAN, hup : BOOLEAN, sent : Seq(ItemType)]

\* Type correctness of the peer table, the sockets and the loop's variables.
TypeOK ==
    /\ live \in SUBSET Fds
    /\ peersN \in 0 .. LastFd + 1
    /\ peer \in [Fds -> PeerType]
    /\ sock \in [Fds -> SockType]
    /\ pending \in Nat
    /\ batch \in SUBSET (Fds \cup {ServerFd})
    /\ cur \in Fds \cup {NoFd}
    /\ dirty \in BOOLEAN
    /\ fault \in {"none", "entry beyond the table", "freed peer used", "request read as a message"}
    /\ conns \in 0 .. MaxConns /\ sends \in 0 .. MaxSends

\* Every index the loop uses lies inside vpn_ws_conf.peers (manage_fd reads
\* peers[fd] for each event, also for those of peers destroyed meanwhile), and
\* a descriptor that is closed keeps nothing of the peer that had it before.
TableOK ==
    /\ \A fd \in live \cup (batch \ {ServerFd}) : fd < peersN
    /\ \A fd \in Fds \ live : peer[fd] = FreshPeer /\ sock[fd] = FreshSock

\* The uwsgi parser only ever sees a request, also when the first reply was not
\* written at once and when other messages are already behind the request, and the
\* websocket parser is never given the request of a websocket client.  It is given
\* the one of a control client whose reply was blocked (Misread).
RightParser ==
    \A fd \in live :
        cur = fd /\ peer[fd].buf # <<>> =>
            /\ peer[fd].handshake = 0 => Head(peer[fd].buf) \in RequestType
            /\ RequestLeft(fd) => peer[fd].ctrl

\* Data that could not be written is watched for: as long as a peer has bytes
\* in its write buffer, or is in the writing state, epoll reports its socket
\* when there is room again, whoever put the bytes there.
PendingWatched ==
    \A fd \in live :
        peer[fd].isWriting \/ peer[fd].writeBuf # <<>> => sock[fd].interest = "out"

\* Every event still to be handled is of a live peer: the cycle is left when a peer
\* was destroyed, and "[BUG] fd not found" cannot happen.  A kill= request whose
\* reply is blocked destroys a peer and does not leave the cycle.
BatchLive == ~dirty => batch \ {ServerFd} \subseteq live

\* The HTTP reply is the first thing a client gets, although broadcasts of
\* others are forwarded to it as soon as its address is known, and a control
\* client gets nothing but its JSON reply, until its request is misread.
ReplyFirst ==
    \A fd \in live :
        ~peer[fd].raw /\ Output(fd) # <<>> =>
            /\ Output(fd)[1] \in {Reply101, Json}
            /\ peer[fd].ctrl => Output(fd) = <<Json>>

\* What a peer sends comes back to it only if it is a bridge, and only a frame for
\* an address learned from that bridge: the peers a frame is for are looked up
\* without leaving out the one it came from.
NoHairpin ==
    [][\A fd \in live \cap live' :
         cur = fd /\ Receiving(fd) /\ Output(fd)' # Output(fd) =>
            /\ peer[fd].bridge
            /\ Head(peer[fd].buf).dst \in {peer[fd].mac} \cup peer[fd].macs]_vars

\* An event for a descriptor that is not ready any more, such as one closed
\* and accepted again within the batch, does nothing to the peer it names.
SpuriousEventHarmless ==
    [][\A fd \in live :
         Managing(fd) /\ fd \notin batch' /\ ~Ready(fd) =>
            fd \in live' /\ peer[fd]' = peer[fd]]_vars

\* The events of fd are dropped again and again: others end the batch before its
\* turn.  Epoll reports the descriptor again, but in the same order.
Dropped(fd) ==
    fd \in batch \ batch' /\ \E g \in Fds \ {fd} : EventStep(g) \/ LoopStep(g)
Starved(fd) == []<><<Dropped(fd)>>_vars

\* A peer in the writing state leaves it, by writing everything or by dying,
\* unless other peers' broadcasts starve it.
WritingEnds ==
    \A fd \in Fds : Starved(fd) \/ (peer[fd].isWriting ~> ~peer[fd].isWriting)

\* What is in a write buffer is written, or the peer dies.
FlushedEventually == \A fd \in Fds : peer[fd].writeBuf # <<>> ~> peer[fd].writeBuf = <<>>

\* The peer of a client that is gone is destroyed and its descriptor closed, unless
\* it is starved, also while connections wait that no descriptor is left for.
HangupReaped ==
    \A fd \in Fds : Starved(fd) \/ (sock[fd].hup ~> ~sock[fd].hup)

\* What a client sent is read, or the peer dies, unless it is starved: a peer with
\* something to write is read all the same, until it is in the writing state.
InputConsumed ==
    \A fd \in Fds : Starved(fd) \/ (sock[fd].inq # <<>> ~> sock[fd].inq = <<>>)

\* The connection of a control client is closed once its reply is written.
CtrlClosed == \A fd \in Fds : peer[fd].ctrl ~> ~peer[fd].ctrl
=============================================================================
