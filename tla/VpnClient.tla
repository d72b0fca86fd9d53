----------------------------- MODULE VpnClient -----------------------------
(***************************************************************************)
(* The vpn-ws client: the loop of main() in src/src/client.c with the       *)
(* functions it calls (vpn_ws_connect, vpn_ws_wait_101, vpn_ws_client_read, *)
(* vpn_ws_full_write, vpn_ws_client_destroy) and the OpenSSL calls of       *)
(* src/src/ssl.c.  The client is one process that bridges a tap device and  *)
(* one connection, waits in select(), and opens a new connection whenever   *)
(* it gives the old one up.                                                 *)
(*                                                                         *)
(* The other end is the server's peer for this client, as far as the client *)
(* can tell: it writes what fits into the connection, keeps the rest in its *)
(* write buffer, and from then on is watched for output only.               *)
(***************************************************************************)
EXTENDS Integers, Sequences

CONSTANTS
    Transports,   \* the schemes of the server's URL: "ws", "wss"
    MaxThrottle,  \* the longest sleep between two attempts (30 in the code)
    Messages,     \* what the server may send once the connection is up
    Frames,       \* those of them that carry an ethernet frame
    Reply101, Refusal,  \* the answers to the upgrade request
    Close,        \* a message of opcode 8, or of one that is not known
    Torn,         \* the rest of a message whose beginning was thrown away
    Request, WsPing, TapFrame,  \* what the client sends
    Capacity,     \* items a connection holds in each direction
    MaxSends,     \* bound: messages the server sends on a connection
    MaxTap        \* bound: frames that wait at the tap device

ASSUME ClientConstants ==
    /\ Transports \subseteq {"ws", "wss"}
    /\ MaxThrottle \in Nat \ {0} /\ Capacity \in Nat \ {0}
    /\ MaxSends \in Nat /\ MaxTap \in Nat
    /\ Frames \subseteq Messages /\ Close \notin Frames
    /\ {Reply101, Refusal, Torn} \cap Messages = {}
    /\ Torn \notin {Reply101, Refusal, Close} /\ Reply101 # Refusal
    /\ Request \notin {WsPing, TapFrame}

VARIABLES
    pc,        \* where main() is
    throttle,  \* seconds to sleep before the next attempt
    tls,       \* wss:// rather than ws://
    ssl,       \* vpn_ws_conf.ssl_ctx: NULL, a session in use, or one freed
    rset,      \* the descriptors select() has reported
    buf,       \* peer->buf, as the messages it holds
    out,       \* what vpn_ws_client_write still has to write
    link,      \* the connection and the server's end of it
    hist,      \* history: what became of the server's messages
    tapq,      \* how many frames wait at the tap device
    fault      \* undefined behaviour the run has met

vars == <<pc, throttle, tls, ssl, rset, buf, out, link, hist, tapq, fault>>

\* down, up: what is on its way to the client and to the server; held: how much
\* of down the SSL session has decrypted already; gone: the server has closed;
\* srvBuf: the server's write buffer; srvOut: it is watched for output only.
NewLink == [down |-> <<>>, held |-> 0, up |-> <<>>, gone |-> FALSE,
            srvBuf |-> <<>>, srvOut |-> FALSE]

\* given: messages of the server on this connection; lost: how many of them
\* were thrown away; torn: one was cut in two; handled: those parsed whole.
NewHist == [given |-> <<>>, lost |-> 0, torn |-> FALSE, handled |-> <<>>]

Running == fault = "none" /\ pc # "exited"

At(label) == Running /\ pc = label

-----------------------------------------------------------------------------
(* Giving a connection up and opening the next one *)

\* Mutant of NextThrottle: the sleep is never cut back.
NextThrottleUnbounded == throttle + 1

NextThrottle == (IF throttle >= MaxThrottle THEN 0 ELSE throttle) + 1

\* vpn_ws_ssl_close() of the session s: the shutdown waits for room to write
\* to a live server, then the session is freed; vpn_ws_conf.ssl_ctx keeps
\* pointing to it.
SslClose(s) ==
    /\ s = "open" => link.gone \/ Len(link.up) < Capacity
    /\ ssl' = IF s = "open" THEN "freed" ELSE s
    /\ fault' = IF s = "freed" THEN "freed SSL session closed" ELSE fault

\* Mutant of Reconnect: the next peer gets the read buffer of this one.
ReconnectKeepsBuf(s) ==
    /\ SslClose(s)
    /\ throttle' = NextThrottle
    /\ pc' = "connect" /\ rset' = {} /\ out' = <<>>
    /\ link' = NewLink /\ hist' = NewHist
    /\ UNCHANGED <<tls, buf>>

\* vpn_ws_client_destroy() with the session s, and back to "reconnect".
Reconnect(s) ==
    /\ SslClose(s)
    /\ throttle' = NextThrottle
    /\ pc' = "connect" /\ rset' = {} /\ buf' = <<>> /\ out' = <<>>
    /\ link' = NewLink /\ hist' = NewHist
    /\ UNCHANGED tls

\* vpn_ws_connect() fails before there is a session (the name, the socket), or
\* in the TLS handshake, which leaves NULL.
ConnectFails ==
    /\ At("connect")
    /\ Reconnect(ssl) \/ (tls /\ Reconnect("null"))
    /\ UNCHANGED tapq

\* No memory for the peer: there is nothing to destroy.
NoPeer ==
    /\ At("connect")
    /\ throttle' = NextThrottle
    /\ UNCHANGED <<pc, tls, ssl, rset, buf, out, link, hist, tapq, fault>>

\* vpn_ws_ssl_handshake() succeeds, for wss.
NewSession == IF tls THEN "open" ELSE ssl

\* The request is sent over the blocking socket.
Connect ==
    /\ At("connect")
    /\ pc' = "wait101"
    /\ ssl' = NewSession
    /\ link' = [link EXCEPT !.up = <<Request>>]
    /\ UNCHANGED <<throttle, tls, rset, buf, out, hist, tapq, fault>>

-----------------------------------------------------------------------------
(* Reading the connection *)

\* What one read may take of link.down, and what an SSL session then holds.  A
\* session reads one record at a time and first gives away what it holds.
Takes ==
    LET n == Len(link.down)
    IN IF ~tls THEN {<<k, 0>> : k \in 1 .. n}
       ELSE IF link.held > 0 THEN {<<k, link.held - k>> : k \in 1 .. link.held}
       ELSE {t \in (1 .. n) \X (0 .. n) : t[1] + t[2] <= n}

From(q, i) == SubSeq(q, i, Len(q))

\* A cut between two messages, or inside the first one.
Cuts(q) == {q} \cup (IF q = <<>> THEN {} ELSE {<<Torn>> \o Tail(q)})

\* The answer is there: vpn_ws_rnrn() has seen the end of its headers.  Whatever
\* the same reads brought behind it is dropped with the buffer.
Upgraded ==
    /\ At("wait101") /\ link.down # <<>> /\ Head(link.down) = Reply101
    /\ \E t \in Takes : \E rest \in Cuts(From(link.down, t[1] + 1)) :
        /\ link' = [link EXCEPT !.down = rest, !.held = t[2]]
        /\ hist' = [hist EXCEPT !.lost = t[1] - 1,
                                !.torn = rest # <<>> /\ Head(rest) = Torn]
    /\ pc' = "select"
    /\ UNCHANGED <<throttle, tls, ssl, rset, buf, out, tapq, fault>>

\* Another answer, none at all, or the socket cannot be made non-blocking.
UpgradeFails ==
    /\ At("wait101") /\ (link.gone \/ link.down # <<>>)
    /\ Reconnect(ssl)
    /\ UNCHANGED tapq

\* Mutants of Readable: a descriptor is left out of the set.
ReadableNotSocket == IF tapq > 0 THEN {"tap"} ELSE {}
ReadableNotTap == IF link.gone \/ Len(link.down) > link.held THEN {"socket"} ELSE {}

\* What an SSL session holds cannot be seen at its socket.
Readable ==
    (IF link.gone \/ Len(link.down) > link.held THEN {"socket"} ELSE {})
    \cup (IF tapq > 0 THEN {"tap"} ELSE {})

\* select() also reports a socket that has a part of a message or of a record, and
\* "is a bit flacky".
Select ==
    /\ At("select")
    /\ rset' \in {Readable \cup more : more \in SUBSET {"socket", "tap"}} \ {{}}
    /\ pc' = IF "socket" \in rset' THEN "read" ELSE "tap"
    /\ UNCHANGED <<throttle, tls, ssl, buf, out, link, hist, tapq, fault>>

\* "the process manager will save us here"
SelectFails ==
    /\ At("select") /\ pc' = "exited"
    /\ UNCHANGED <<throttle, tls, ssl, rset, buf, out, link, hist, tapq, fault>>

\* Nothing for 17 seconds.
SelectTimeout ==
    /\ At("select") /\ Readable = {}
    /\ rset' = {} /\ out' = <<WsPing>> /\ pc' = "write"
    /\ UNCHANGED <<throttle, tls, ssl, buf, link, hist, tapq, fault>>

Read ==
    /\ At("read")
    /\ \E t \in Takes :
        /\ buf' = buf \o SubSeq(link.down, 1, t[1])
        /\ link' = [link EXCEPT !.down = From(@, t[1] + 1), !.held = t[2]]
    /\ pc' = "parse"
    /\ UNCHANGED <<throttle, tls, ssl, rset, out, hist, tapq, fault>>

\* A read that completes no message; a read of an SSL session waits instead.
ReadNothing ==
    /\ At("read") /\ ~tls /\ ~(link.gone /\ link.down = <<>>)
    /\ pc' = "parse"
    /\ UNCHANGED <<throttle, tls, ssl, rset, buf, out, link, hist, tapq, fault>>

\* Mutant of ReadFails: end of file is not an error.
ReadFailsNever == At("read") /\ FALSE /\ UNCHANGED vars

\* End of file or an error.
ReadFails ==
    /\ At("read") /\ link.gone
    /\ Reconnect(ssl)
    /\ UNCHANGED tapq

-----------------------------------------------------------------------------
(* Parsing *)

Parsing == At("parse") /\ buf # <<>>

\* Mutant of Decapitated: the memmove() takes a message too many.
DecapitatedTwice(b) == From(b, 3)

Decapitated(b) == Tail(b)

\* A frame is written to the tap device, anything else ignored.
ParseMessage ==
    /\ Parsing /\ Head(buf) \in Messages \ {Close}
    /\ buf' = Decapitated(buf)
    /\ hist' = [hist EXCEPT !.handled = Append(@, Head(buf))]
    /\ UNCHANGED <<pc, throttle, tls, ssl, rset, out, link, tapq, fault>>

\* The rest of a cut message is parsed as a header, with whatever follows it
\* for its payload.
ParseTorn ==
    /\ Parsing /\ Head(buf) = Torn
    /\ \E i \in 2 .. Len(buf) + 1 : buf' \in Cuts(From(buf, i))
    /\ UNCHANGED <<pc, throttle, tls, ssl, rset, out, link, hist, tapq, fault>>

ParseFails ==
    /\ Parsing /\ Head(buf) \in {Close, Torn}
    /\ Reconnect(ssl)
    /\ UNCHANGED tapq

\* "being not able to write on tuntap is really bad..."
TapWriteFails ==
    /\ Parsing /\ Head(buf) \in Frames \cup {Torn}
    /\ pc' = "exited"
    /\ UNCHANGED <<throttle, tls, ssl, rset, buf, out, link, hist, tapq, fault>>

\* No complete message is left; the length of a torn one may be anything.
ParseEnds ==
    /\ At("parse") /\ (buf # <<>> => Head(buf) = Torn)
    /\ pc' = IF "tap" \in rset THEN "tap" ELSE "select"
    /\ UNCHANGED <<throttle, tls, ssl, rset, buf, out, link, hist, tapq, fault>>

-----------------------------------------------------------------------------
(* The tap device, and writing to the connection *)

TapRead ==
    /\ At("tap") /\ tapq > 0
    /\ tapq' = tapq - 1
    /\ out' = <<TapFrame>> /\ pc' = "write"
    /\ UNCHANGED <<throttle, tls, ssl, rset, buf, link, hist, fault>>

\* EAGAIN: there was nothing to read.
TapReadAgain ==
    /\ At("tap") /\ tapq = 0 /\ pc' = "select"
    /\ UNCHANGED <<throttle, tls, ssl, rset, buf, out, link, hist, tapq, fault>>

TapReadFails ==
    /\ At("tap") /\ pc' = "exited"
    /\ UNCHANGED <<throttle, tls, ssl, rset, buf, out, link, hist, tapq, fault>>

Room == Len(link.up) < Capacity

\* vpn_ws_full_write() and SSL_write() wait, without a timeout and without
\* reading, until there is room.
Write ==
    /\ At("write") /\ ~link.gone /\ Room
    /\ link' = [link EXCEPT !.up = @ \o out]
    /\ out' = <<>> /\ pc' = "select"
    /\ UNCHANGED <<throttle, tls, ssl, rset, buf, hist, tapq, fault>>

WriteFails ==
    /\ At("write") /\ link.gone
    /\ Reconnect(ssl)
    /\ UNCHANGED tapq

-----------------------------------------------------------------------------
(* The kernel and the server's end of the connection *)

Connected == pc \notin {"connect", "exited"} /\ fault = "none" /\ ~link.gone

\* The server has answered the request, which is the first thing it reads.
Answered == Connected /\ \A i \in DOMAIN link.up : link.up[i] # Request

client == <<pc, throttle, tls, ssl, rset, buf, out, fault>>

TapArrives ==
    /\ Running /\ tapq < MaxTap /\ tapq' = tapq + 1
    /\ UNCHANGED <<client, link, hist>>

\* The request is answered, before anything else is sent.
ServerAnswers(reply) ==
    /\ Connected /\ ~Answered
    /\ link' = [link EXCEPT !.up = Tail(@), !.down = <<reply>>]
    /\ UNCHANGED <<client, hist, tapq>>

\* A frame is forwarded to this peer: it is appended to the write buffer, and
\* what does not fit stays there with the socket watched for output.
ServerSends(m) ==
    /\ Answered
    /\ Len(hist.given) < MaxSends
    /\ LET q == Append(link.srvBuf, m)
           room == Capacity - (Len(link.down) - link.held)
           n == IF Len(q) <= room THEN Len(q) ELSE room
       IN link' = [link EXCEPT !.down = @ \o SubSeq(q, 1, n),
                               !.srvBuf = From(q, n + 1),
                               !.srvOut = @ \/ n < Len(q)]
    /\ hist' = [hist EXCEPT !.given = Append(@, m)]
    /\ UNCHANGED <<client, tapq>>

\* A peer watched for output is read only when its socket has room.
ServerReads ==
    /\ Answered /\ link.up # <<>>
    /\ link.srvOut => Len(link.down) - link.held < Capacity
    /\ link' = [link EXCEPT !.up = Tail(@)]
    /\ UNCHANGED <<client, hist, tapq>>

ServerCloses ==
    /\ Connected
    /\ link' = [link EXCEPT !.gone = TRUE]
    /\ UNCHANGED <<client, hist, tapq>>

-----------------------------------------------------------------------------
Init ==
    /\ pc = "connect" /\ throttle = 0
    /\ tls \in {t = "wss" : t \in Transports}
    /\ ssl = "null" /\ rset = {} /\ buf = <<>> /\ out = <<>>
    /\ link = NewLink /\ hist = NewHist
    /\ tapq = 0 /\ fault = "none"

ClientStep ==
    \/ ConnectFails \/ NoPeer \/ Connect
    \/ Upgraded \/ UpgradeFails
    \/ Select \/ SelectFails \/ SelectTimeout
    \/ Read \/ ReadNothing \/ ReadFails
    \/ ParseMessage \/ ParseTorn \/ ParseFails \/ TapWriteFails \/ ParseEnds
    \/ TapRead \/ TapReadAgain \/ TapReadFails
    \/ Write \/ WriteFails

Environment ==
    \/ TapArrives
    \/ \E reply \in {Reply101, Refusal} : ServerAnswers(reply)
    \/ \E m \in Messages : ServerSends(m)
    \/ ServerReads \/ ServerCloses

Next == ClientStep \/ Environment

Spec == Init /\ [][Next]_vars

\* The process runs, a read of something that is there brings it in the end,
\* and the server reads what it can.
Fairness == WF_vars(ClientStep) /\ SF_vars(Read) /\ WF_vars(ServerReads)

FairSpec == Spec /\ Fairness

-----------------------------------------------------------------------------
(* Properties *)

Down == {Reply101, Refusal, Torn} \cup Messages

\* Type correctness; the sleep stays between 0 and MaxThrottle seconds.
TypeOK ==
    /\ pc \in {"connect", "wait101", "select", "read", "parse", "tap", "write", "exited"}
    /\ throttle \in 0 .. MaxThrottle
    /\ tls \in BOOLEAN /\ ssl \in {"null", "open", "freed"}
    /\ rset \subseteq {"socket", "tap"}
    /\ buf \in Seq(Messages \cup {Torn}) /\ out \in Seq({WsPing, TapFrame})
    /\ link \in [down : Seq(Down), held : Nat, up : Seq({Request, WsPing, TapFrame}),
                 gone : BOOLEAN, srvBuf : Seq(Messages), srvOut : BOOLEAN]
    /\ link.held <= Len(link.down) /\ Len(link.up) <= Capacity
    /\ hist \in [given : Seq(Messages), lost : Nat, torn : BOOLEAN,
                 handled : Seq(Messages)]
    /\ tapq \in 0 .. MaxTap
    /\ fault \in {"none", "freed SSL session closed"}

\* Messages on their way: in the client's buffer, the connection, the server's.
Underway == buf \o link.down \o link.srvBuf

\* Once the upgrade is answered, every message of the server is handled once
\* and in order, but for those that were read together with the answer.
InOrder ==
    pc \notin {"connect", "wait101", "exited"} /\ ~hist.torn =>
        From(hist.given, hist.lost + 1) = hist.handled \o Underway

\* The session that is shut down is the one of the connection that is given up:
\* a client comes back to "reconnect" whenever the server disconnects.
SessionsClosedOnce == fault = "none"

\* The client waits for room, to write or to shut its SSL session down.
WaitsForRoom ==
    \/ pc = "write"
    \/ pc = "parse" /\ ssl = "open" /\ buf # <<>> /\ Head(buf) \in {Close, Torn}

\* Client and server each wait for the other to read.
DeadBlocked ==
    /\ WaitsForRoom /\ ~link.gone
    /\ Len(link.up) >= Capacity
    /\ link.srvOut /\ Len(link.down) - link.held >= Capacity

\* The client and its server never block one another for good: whichever of
\* the two directions is full, somebody reads it.
NeverDeadBlocked == ~DeadBlocked

\* The server's closing is noticed, wherever the client is: it gives the
\* connection up and tries the next one.
CloseNoticed == link.gone ~> ~link.gone \/ ~Running

\* What the server sent is read, unless each side waits for the other; only what
\* an SSL session holds already may wait for the next record.
ServerHeard ==
    Len(link.down) > link.held ~> Len(link.down) <= link.held \/ DeadBlocked \/ ~Running

\* Frames do not wait at the tap device while there is a connection, unless each
\* side waits for the other, or SSL_read() for the rest of a record.
TapServed ==
    tapq > 0 ~>
        \/ tapq = 0 \/ pc \in {"connect", "wait101"} \/ DeadBlocked \/ ~Running
        \/ tls /\ pc = "read" /\ link.down = <<>>
=============================================================================
