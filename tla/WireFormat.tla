----------------------------- MODULE WireFormat -----------------------------
(***************************************************************************)
(* The bytes of one connection to the server: the uwsgi request the web     *)
(* server in front sends (src/src/uwsgi.c), the websocket messages of the   *)
(* client behind it (src/src/client.c), how the server parses both out of   *)
(* peer->buf while they arrive in pieces (src/src/websocket.c), and what it *)
(* writes to a tap device and to another client (src/src/io.c).             *)
(*                                                                         *)
(* VpnServer takes messages for whole items; this module is what stands     *)
(* behind that.  Sequences are indexed from 1, the code's buffers from 0.   *)
(***************************************************************************)
EXTENDS ControlApi

CONSTANTS
    Vars,         \* the requests' variables: sequences of [key, value]
    KeyVar, MacVar,  \* the keys of the websocket key and of the address
    QueryVar,     \* the key of the query string
    KillKey,      \* "kill"
    Queries,      \* the query strings of control requests
    PeerTables,   \* what the peer table may hold when one is answered
    JsonRoom,     \* how much of a list the first buffer holds, 8192 with the HTTP header
    Address,      \* the address a client announces, six bytes
    Payloads,     \* what the client may send as a frame
    TapPayloads,  \* frames the tap device may give to the same recipients
    Mask,         \* the client's masking key
    ChunkSizes,   \* how much one read may bring
    MaxFrames     \* bound: messages sent by the client and the tap device

Byte == 0 .. 255
MacVarLength == 17

\* "kill" has no equal sign.
ASSUME WireConstants ==
    /\ KillKey \in Seq(Byte) /\ \A i \in DOMAIN KillKey : KillKey[i] # Equal
    /\ Mask \in [1 .. 4 -> Byte] /\ Address \in [1 .. 6 -> Byte]
    /\ ChunkSizes \subseteq Nat \ {0} /\ MaxFrames \in Nat

\* A tuntap device gives at most 1500 bytes, a tap device less than 65536.
ASSUME FrameSizes ==
    \A p \in Payloads \cup TapPayloads : p \in Seq(Byte) /\ Len(p) < 65536

\* A key and a value of a request each fit the 16 bits of their length.
Variable ==
    {var \in [key : Seq(Byte), value : Seq(Byte)] : Len(var.key) < 65536 /\ Len(var.value) < 65536}

VARIABLES
    stream,    \* bytes on their way to the server
    buf,       \* peer->buf, peer->pos bytes of it
    state,     \* "shaking", "blocked" (the 101 is not out), "reread" (it is
               \* out, the request still in buf), "open", "closed"
    answered,  \* the client has got its 101
    mac,       \* peer->mac, once mac_collected
    toTap,     \* what was written to the tap device, write by write
    toPeer,    \* the bytes written to another client
    queue,     \* history: what was sent and is not handled yet, <<>> if no frame
    handled,   \* history: frames the tap device should have got
    given,     \* history: frames the other client should have got
    frames,    \* bound: frames sent
    asked,     \* history: the query string of a control request
    reply      \* what a control request is answered

vars == <<stream, buf, state, answered, mac, toTap, toPeer, queue, handled, given,
          frames, asked, reply>>
history == <<toTap, toPeer, queue, handled, given>>

From(q, i) == SubSeq(q, i, Len(q))

-----------------------------------------------------------------------------
(* Numbers *)

\* vpn_ws_le16, vpn_ws_be16 and vpn_ws_be64, of the bytes of q from i on.
Le16(q, i) == q[i] + 256 * q[i + 1]

Be(q, i, n) ==
    LET sum[k \in 0 .. n] == IF k = 0 THEN 0 ELSE 256 * sum[k - 1] + q[i + k - 1]
    IN sum[n]

\* A number below 65536 in n bytes.
BeBytes(value, n) ==
    [i \in 1 .. n |-> CASE i = n -> value % 256 [] i = n - 1 -> value \div 256 [] OTHER -> 0]

\* The operator ^ of two bytes, bit by bit.
Xor(a, b) ==
    LET bit(k) == IF (a \div k) % 2 = (b \div k) % 2 THEN 0 ELSE k
    IN bit(1) + bit(2) + bit(4) + bit(8) + bit(16) + bit(32) + bit(64) + bit(128)

-----------------------------------------------------------------------------
(* Lists of things in a buffer, one behind the other *)

\* The places a loop comes to from start on, when it goes from i to next[i] and
\* ends where it does not get on.
Chain(next, start) ==
    LET f[i \in DOMAIN next] == <<i>> \o (IF next[i] = i THEN <<>> ELSE f[next[i]])
    IN f[start]

-----------------------------------------------------------------------------
(* uwsgi requests *)

\* What the web server sends: modifier1, the size of the variables, modifier2,
\* and each variable's key and value with their lengths in front.
LeBytes(value) == <<value % 256, value \div 256>>

UwsgiVar(var) == LeBytes(Len(var.key)) \o var.key \o LeBytes(Len(var.value)) \o var.value

UwsgiVars(v) == FlattenSeq([i \in DOMAIN v |-> UwsgiVar(v[i])])

UwsgiPacket(modifier1, v) ==
    <<modifier1>> \o LeBytes(Len(UwsgiVars(v))) \o <<0>> \o UwsgiVars(v)

AllRequests == Vars \cup {<<[key |-> QueryVar, value |-> qs]>> : qs \in Queries}

\* And all of them the 16 bits of the size in front.
ASSUME RequestSizes == \A v \in AllRequests : v \in Seq(Variable) /\ Len(UwsgiVars(v)) < 65536

UwsgiSize(b) == 4 + Le16(b, 2)

\* Is the whole packet there?
UwsgiArrived(b) == Len(b) >= 4 /\ Len(b) >= UwsgiSize(b)

\* What the loop goes over: behind the first i bytes comes a key and its value,
\* and where they do not fit it does not get on.
UwsgiNext(b) ==
    [i \in 4 .. UwsgiSize(b) |->
        LET keylen == Le16(b, i + 1)
            j == i + 2 + keylen
            next == j + 2 + Le16(b, j + 1)
        IN IF /\ i + 2 <= UwsgiSize(b) /\ keylen # 0
              /\ j + 2 <= UwsgiSize(b) /\ next <= UwsgiSize(b)
           THEN next ELSE i]

\* The variables of a packet, each with its key and the place of its value.
UwsgiParse(b) ==
    LET starts == Chain(UwsgiNext(b), 4)
        j(k) == starts[k] + 2 + Le16(b, starts[k] + 1)
    IN [ok |-> Last(starts) = UwsgiSize(b),
        vars |-> [k \in 1 .. Len(starts) - 1 |->
                    [key |-> SubSeq(b, starts[k] + 3, j(k)),
                     at |-> j(k) + 3, len |-> Le16(b, j(k) + 1)]]]

\* vpn_ws_peer_get_var: the last one of that name.
Found(v, key) == {i \in DOMAIN v : v[i].key = key /\ \A j \in i + 1 .. Len(v) : v[j].key # key}

\* Mutant of AddressAt: the pairs of digits are taken to touch one another.
AddressAtPacked(b, at) == [i \in 1 .. 6 |-> 16 * b[at + 2 * (i - 1)] + b[at + 2 * (i - 1) + 1]]

\* Two hexadecimal digits, a separator, and so on.
AddressAt(b, at) == [i \in 1 .. 6 |-> 16 * b[at + 3 * (i - 1)] + b[at + 3 * (i - 1) + 1]]

\* strtoul() needs a NUL after each pair; the last one falls behind the value.
Terminated(b, at) ==
    [j \in DOMAIN b |-> IF \E i \in 1 .. 6 : j = at + 3 * i - 1 THEN 0 ELSE b[j]]

\* A request that announces an address announces this one, a pair of digits for each
\* byte with a separator behind it, and the name of a variable behind it, of whose
\* length the last NUL hits the lower byte, is short.
\* Control requests announce none.
ASSUME RequestAddresses ==
    /\ QueryVar # MacVar
    /\ \A v \in Vars : \A k \in 1 .. Len(v) :
         v[k].key = MacVar /\ Len(v[k].value) = MacVarLength =>
            /\ \A i \in 1 .. 6 :
                 Address[i] = 16 * v[k].value[3 * i - 2] + v[k].value[3 * i - 1]
            /\ k < Len(v) => Len(v[k + 1].key) < 256

-----------------------------------------------------------------------------
(* websocket messages *)

\* The loop over the payload with the masking key.
Masked(p) == [i \in DOMAIN p |-> Xor(p[i], Mask[((i - 1) % 4) + 1])]

\* The start of a message of n bytes: the length is in the second byte or, when that
\* is 126 or 127, in the 2 or 8 bytes behind it.
FrameHead(mask, n, ext) ==
    <<130, mask + (CASE ext = 0 -> n [] ext = 2 -> 126 [] OTHER -> 127)>> \o BeBytes(n, ext)

Shortest(n) == IF n < 126 THEN 0 ELSE 2

\* vpn_ws_websocket_parse takes any form that can say the length.
LengthForms(n) == {Shortest(n), 2, 8}

\* A frame as a client sends it; src/src/client.c takes the shortest form, other
\* clients need not.
ClientFrame(p, ext) == FrameHead(128, Len(p), ext) \o Mask \o Masked(p)

\* What src/src/client.c sends when it is idle.
ClientPing == <<137, 0>>

\* What other websocket clients send before they hang up.
CloseMessage == <<136, 128>> \o Mask

\* vpn_ws_write_websocket; no tap device gives a frame of more than 65535 bytes.
ServerFrame(p) == FrameHead(0, Len(p), Shortest(Len(p))) \o p

Incomplete == [header |-> 0, len |-> 0, verdict |-> "incomplete"]

\* vpn_ws_websocket_parse: the sizes of the header and of the whole message.
WebsocketParse(b) ==
    LET code == b[2] % 128
        ext == CASE code = 126 -> 2 [] code = 127 -> 8 [] OTHER -> 0
        header == 2 + ext + (IF b[2] >= 128 THEN 4 ELSE 0)
        len == header + (IF ext = 0 THEN code ELSE Be(b, 3, ext))
        opcode == b[1] % 16
    IN IF Len(b) < 2 THEN Incomplete
       ELSE IF Len(b) < header THEN Incomplete
       ELSE IF Len(b) < len THEN Incomplete
       ELSE [header |-> header, len |-> len,
             verdict |-> CASE opcode \in 0 .. 2 -> "frame"
                           [] opcode \in {9, 10} -> "ignore"
                           [] OTHER -> "close"]

HasMask(b) == b[2] >= 128

\* Mutant of Unmasked: the key is off by one.
UnmaskedShifted(p, key) == [i \in DOMAIN p |-> Xor(p[i], key[(i % 4) + 1])]

Unmasked(p, key) == [i \in DOMAIN p |-> Xor(p[i], key[((i - 1) % 4) + 1])]

\* The payload of the message at the start of b, of sizes m.
Payload(b, m) ==
    LET body == SubSeq(b, m.header + 1, m.len)
    IN IF HasMask(b) THEN Unmasked(body, SubSeq(b, m.header - 3, m.header)) ELSE body

\* Mutant of Forwarded: the header keeps its mask bit.
ForwardedMasked(b, m) ==
    IF HasMask(b) THEN SubSeq(b, 1, m.header - 4) \o Payload(b, m)
    ELSE SubSeq(b, 1, m.len)

\* The message without its mask: the header moves over the masking key.
Forwarded(b, m) ==
    IF HasMask(b)
    THEN <<b[1], b[2] % 128>> \o SubSeq(b, 3, m.header - 4) \o Payload(b, m)
    ELSE SubSeq(b, 1, m.len)

\* data_len < 14: the length without the masking key, but with the header, which can
\* make up for missing bytes of the frame when it is longer than needed.
HasEthernet(b, m) == m.len - (IF HasMask(b) THEN 4 ELSE 0) >= 14

\* Do the two addresses the switch reads lie inside the message?
Inside(m) == m.header + 12 <= m.len

-----------------------------------------------------------------------------
(* The server *)

Serving == state \in {"shaking", "reread", "open"}

\* A read brings n bytes, or all there are, when no message is complete.
Arrive(n) ==
    /\ Serving /\ stream # <<>>
    /\ state = "shaking" => ~UwsgiArrived(buf)
    /\ state = "open" => WebsocketParse(buf) = Incomplete
    /\ LET k == IF n <= Len(stream) THEN n ELSE Len(stream)
       IN buf' = buf \o SubSeq(stream, 1, k) /\ stream' = From(stream, k + 1)
    /\ state' = IF state = "reread" THEN "shaking" ELSE state
    /\ UNCHANGED <<answered, mac, history, frames>>

\* What vpn_ws_handshake wants of a request.  That its variables have room in
\* peer->vars is in VpnServer.
Acceptable(parsed) ==
    /\ parsed.ok /\ Found(parsed.vars, KeyVar) # {}
    /\ \A i \in Found(parsed.vars, MacVar) : parsed.vars[i].len = MacVarLength

\* vpn_ws_handshake.  If the reply cannot be written at once the request is not
\* consumed, but the NULs have been written into it.
Handshake ==
    /\ state = "shaking" /\ UwsgiArrived(buf) /\ buf[1] # 1
    /\ LET parsed == UwsgiParse(buf)
           macs == Found(parsed.vars, MacVar)
           at == parsed.vars[CHOOSE i \in macs : TRUE].at
           b == IF macs = {} THEN buf ELSE Terminated(buf, at)
       IN IF Acceptable(parsed)
          THEN /\ mac' = IF macs = {} THEN mac ELSE AddressAt(buf, at)
               /\ \/ /\ state' = "open" /\ answered' = TRUE
                     /\ buf' = From(b, UwsgiSize(buf) + 1)
                  \/ state' = "blocked" /\ buf' = b /\ UNCHANGED answered
          ELSE state' = "closed" /\ UNCHANGED <<buf, mac, answered>>
    /\ UNCHANGED <<stream, history, frames>>

NoReply == [to |-> "nobody", fd |-> 0, table |-> <<>>, text |-> <<>>]

ListReply(table) == [to |-> "list", fd |-> 0, table |-> table, text |-> PeerList(table)]

\* json_append is given the buffer by value: when there is no more room and realloc()
\* has moved it, the rest is written to the freed one and that is what is sent.
NotAList == [NoReply EXCEPT !.to = "freed"]

ListReplies(table) ==
    {ListReply(table)} \cup IF Len(PeerList(table)) > JsonRoom THEN {NotAList} ELSE {}

\* vpn_ws_ctrl_json: a request to kill a descriptor, or for the list of peers.
\* What becomes of either, and of a reply that blocks, is VpnServer's Control.
ControlReplies(qs) ==
    LET kill == QsGet(qs, KillKey)
    IN IF kill # <<>> THEN {[NoReply EXCEPT !.to = "kill", !.fd = StrToUint(kill)]}
       ELSE UNION {ListReplies(table) : table \in PeerTables}

\* vpn_ws_handshake of a control request: it is answered, the connection closed.
Control ==
    /\ state = "shaking" /\ UwsgiArrived(buf) /\ buf[1] = 1
    /\ LET parsed == UwsgiParse(buf)
           query == Found(parsed.vars, QueryVar)
           value(i) == SubSeq(buf, parsed.vars[i].at, parsed.vars[i].at + parsed.vars[i].len - 1)
       IN IF ~parsed.ok THEN UNCHANGED reply
          ELSE reply' \in ControlReplies(IF query = {} THEN <<>>
                                         ELSE value(CHOOSE i \in query : TRUE))
    /\ state' = "closed"
    /\ UNCHANGED <<stream, buf, answered, mac, history, frames, asked>>

\* The rest of the reply is written; the request is parsed again when more has
\* been read.
ReplyWritten ==
    /\ state = "blocked"
    /\ state' = "reread" /\ answered' = TRUE
    /\ UNCHANGED <<stream, buf, mac, history, frames>>

\* Mutant of Taken: one byte of the message stays.
TakenShort(b, m) == From(b, m.len)

\* decapitate: what follows the message moves to the start of the buffer.
Taken(b, m) == From(b, m.len + 1)

\* A frame, here one for every other peer, a tap device and a client.  Whether one whose
\* addresses are read from behind it goes on depends on what is there.
HandleFrame ==
    /\ state = "open"
    /\ LET m == WebsocketParse(buf)
       IN /\ m.verdict = "frame"
          /\ \/ /\ HasEthernet(buf, m)
                /\ toTap' = Append(toTap, Payload(buf, m))
                /\ toPeer' = toPeer \o Forwarded(buf, m)
                /\ handled' = Append(handled, Head(queue))
                /\ given' = Append(given, Head(queue))
             \/ /\ ~(HasEthernet(buf, m) /\ Inside(m))
                /\ UNCHANGED <<toTap, toPeer, handled, given>>
          /\ queue' = From(queue, 2)
          /\ buf' = Taken(buf, m)
    /\ UNCHANGED <<stream, state, answered, mac, frames>>

HandlePing ==
    /\ state = "open" /\ WebsocketParse(buf).verdict = "ignore"
    /\ buf' = Taken(buf, WebsocketParse(buf)) /\ queue' = From(queue, 2)
    /\ UNCHANGED <<stream, state, answered, mac, toTap, toPeer, handled, given, frames>>

HandleClose ==
    /\ state = "open" /\ WebsocketParse(buf).verdict = "close"
    /\ state' = "closed"
    /\ UNCHANGED <<stream, buf, answered, mac, history, frames>>

\* A frame of the tap device for the same client.
TapFrame(p) ==
    /\ Serving /\ frames < MaxFrames /\ frames' = frames + 1
    /\ toPeer' = toPeer \o ServerFrame(p)
    /\ given' = Append(given, p)
    /\ UNCHANGED <<stream, buf, state, answered, mac, toTap, queue, handled>>

-----------------------------------------------------------------------------
(* The client *)

ClientSends(bytes) ==
    /\ answered /\ state # "closed" /\ frames < MaxFrames /\ frames' = frames + 1
    /\ stream' = stream \o bytes
    /\ UNCHANGED <<buf, state, answered, mac, toTap, toPeer, handled, given>>

SendFrame(p, ext) == ClientSends(ClientFrame(p, ext)) /\ queue' = Append(queue, p)

SendControl(bytes) == ClientSends(bytes) /\ queue' = Append(queue, <<>>)

Init ==
    /\ \/ stream \in {UwsgiPacket(0, v) : v \in Vars} /\ asked = <<>>
       \/ /\ asked \in Queries
          /\ stream = UwsgiPacket(1, <<[key |-> QueryVar, value |-> asked]>>)
    /\ reply = NoReply
    /\ buf = <<>> /\ state = "shaking" /\ answered = FALSE /\ mac = <<>>
    /\ toTap = <<>> /\ toPeer = <<>> /\ queue = <<>> /\ handled = <<>> /\ given = <<>>
    /\ frames = 0

Tunnelling ==
    \/ \E n \in ChunkSizes : Arrive(n)
    \/ Handshake \/ ReplyWritten
    \/ HandleFrame \/ HandlePing \/ HandleClose
    \/ \E p \in TapPayloads : TapFrame(p)
    \/ \E p \in Payloads : \E ext \in LengthForms(Len(p)) : SendFrame(p, ext)
    \/ \E bytes \in {ClientPing, CloseMessage} : SendControl(bytes)

Next == Control \/ (Tunnelling /\ UNCHANGED <<asked, reply>>)

Spec == Init /\ [][Next]_vars

-----------------------------------------------------------------------------
(* Properties *)

\* Another client goes from message to message; what is no frame ends that.
FrameNext(b) ==
    [i \in 0 .. Len(b) |->
        LET m == WebsocketParse(From(b, i + 1))
        IN IF m.verdict = "frame" THEN i + m.len ELSE i]

\* What it finds in the bytes b, and whether they are all used.
FramesFound(b) ==
    LET starts == Chain(FrameNext(b), 0)
        rest(k) == From(b, starts[k] + 1)
    IN [all |-> Last(starts) = Len(b),
        payloads |-> [k \in 1 .. Len(starts) - 1 |-> Payload(rest(k), WebsocketParse(rest(k)))]]

\* A tap device gets each frame of the client once, whole and unmasked, however
\* the bytes arrived and also when the handshake had to be done twice.
TapGetsFrames == toTap = handled

\* Another client finds the same frames in what it is sent, with the header
\* that came with them or one made for a frame of the tap device.
PeerGetsFrames == FramesFound(toPeer) = [all |-> TRUE, payloads |-> given]

\* When all bytes have arrived and nothing more can be parsed, nothing is left:
\* no message is cut, held back or taken for a part of another.
NothingLeft ==
    state = "open" /\ stream = <<>> /\ WebsocketParse(buf) = Incomplete =>
        buf = <<>> /\ queue = <<>>

\* The address announced is the address of the request, also when the request
\* is parsed again with the NULs of the first time in it.
AddressAnnounced == mac \in {<<>>, Address}

\* The parts of a query string between ampersands.
Parts(qs) ==
    {part \in (DOMAIN qs) \X (DOMAIN qs) :
        /\ part[1] <= part[2] /\ \A i \in part[1] .. part[2] : qs[i] # Amp
        /\ part[1] > 1 => qs[part[1] - 1] = Amp
        /\ part[2] < Len(qs) => qs[part[2] + 1] = Amp}

\* The parts that are "kill=" and something, by where they start.
Kills(qs) ==
    {part \in Parts(qs) :
        LET text == SubSeq(qs, part[1], part[2])
        IN Len(text) > Len(KillKey) + 1
           /\ SubSeq(text, 1, Len(KillKey) + 1) = KillKey \o <<Equal>>}

\* Are these the digits of n, the last one first?
Stands(digits, n) ==
    LET rest[k \in 0 .. Len(digits)] == IF k = 0 THEN n ELSE rest[k - 1] \div 10
    IN /\ rest[Len(digits)] = 0
       /\ \A k \in DOMAIN digits : digits[k] = Zero + (rest[Len(digits) - k] % 10)

\* The descriptor a part names, when what it has behind "kill=" is a number an int holds.
Named(part, n) ==
    \A v \in 0 .. IntHalf - 1 :
        Stands(SubSeq(asked, part[1] + Len(KillKey) + 1, part[2]), v) => n = v

\* A control request kills the descriptor named by the first part of its query
\* string that asks for it, and nobody when none does.  A number that overflows an int
\* names another one.
KillNamed ==
    /\ reply.to = "kill" => \E part \in Kills(asked) :
        /\ Named(part, reply.fd)
        /\ \A other \in Kills(asked) : part[1] <= other[1]
    /\ reply.to \in {"list", "freed"} => Kills(asked) = {}

=============================================================================
