-------------------------- MODULE VpnParserProofs --------------------------
(***************************************************************************)
(* Proofs that the bytes of a connection are parsed for what they are, and  *)
(* that its first reply comes first.  OrderInv says of one peer and socket   *)
(* what has come in and not been handled, and what has gone out or is about *)
(* to; most steps of the server move items within one of those two.         *)
(***************************************************************************)
EXTENDS VpnServerProofs

\* What the client of a peer has sent and the server has not consumed, and what
\* the server has ever given the peer to write.
In(p, s) == p.buf \o s.inq
Out(p, s) == s.sent \o p.writeBuf

MessagesFrom(q, n) == \A i \in n .. Len(q) : q[i] \in MessageType

\* The request is the first thing in and, until it is consumed, the only request;
\* a control client's is never consumed.
InInv(p, s) ==
    /\ p.handshake = 0 => MessagesFrom(In(p, s), 2)
    /\ p.handshake # 0 /\ ~p.ctrl => MessagesFrom(In(p, s), 1)

RequestKept(p) == p.buf # <<>> /\ Head(p.buf) \in RequestType

\* The reply is the first thing out, and a control client's reply the only one.
OutInv(p, s) ==
    /\ ~p.raw /\ Out(p, s) = <<>> => p.handshake = 0 /\ ~p.macCollected
    /\ ~p.raw /\ Out(p, s) # <<>> => Out(p, s)[1] = IF p.ctrl THEN Json ELSE Reply101
    /\ p.ctrl => /\ ~p.raw /\ ~p.macCollected /\ p.handshake # 0
                 /\ RequestKept(p) /\ Len(Out(p, s)) = 1
    /\ p.handshake = 0 /\ p.buf # <<>> /\ Head(p.buf).ctrl => Out(p, s) = <<>>

OrderInv(p, s) == InInv(p, s) /\ OutInv(p, s)

Ordered == \A fd \in Fds : OrderInv(peer[fd], sock[fd])

-----------------------------------------------------------------------------
(* What comes in and what goes out *)

\* A write moves items from the buffer to the socket and changes neither the
\* order nor the number of what goes out.
LEMMA WrittenOut ==
    ASSUME NEW a \in Seq(ItemType), NEW q \in Seq(ItemType), NEW left \in 0 .. Len(q)
    PROVE  (a \o SubSeq(q, 1, Len(q) - left)) \o Unwritten(q, left) = a \o q
<1> DEFINE n == Len(q)
           front == SubSeq(q, 1, n - left)
           back == SubSeq(q, n - left + 1, n)
<1>1. n \in Nat /\ \A i \in 1 .. n : q[i] \in ItemType
  BY ElementOfSeq, LenProperties
<1>2. front \in Seq(ItemType) /\ back \in Seq(ItemType)
  <2>1. /\ \A i \in 1 .. n - left : q[i] \in ItemType
        /\ \A i \in n - left + 1 .. n : q[i] \in ItemType
    BY <1>1
  <2>2. QED
    BY <1>1, <2>1, SubSeqProperties
<1>3. front \o back = q
  <2> DEFINE k == n - left
  <2>1. /\ 1 \in 1 .. Len(q) + 1 /\ k \in 1 - 1 .. Len(q)
        /\ Len(q) \in k .. Len(q) /\ n = Len(q)
    BY <1>1
  <2> HIDE DEF k, n
  <2>2. SubSeq(q, 1, k) \o SubSeq(q, k + 1, Len(q)) = SubSeq(q, 1, Len(q))
    BY <2>1, ConcatAdjacentSubSeq
  <2>3. QED
    BY <2>1, <2>2, SubSeqFull DEF k
<1> HIDE DEF front, back
<1>4. (a \o front) \o back = a \o (front \o back)
  BY <1>2, ConcatAssociative
<1>5. QED
  BY <1>3, <1>4 DEF front, back, Unwritten

\* What is appended to a write buffer goes out last.
LEMMA AppendedOut ==
    ASSUME NEW a \in Seq(ItemType), NEW b \in Seq(ItemType), NEW item \in ItemType
    PROVE  /\ a \o Append(b, item) \in Seq(ItemType)
           /\ Len(a \o Append(b, item)) = Len(a \o b) + 1
           /\ (a \o Append(b, item))[1] = IF a \o b = <<>> THEN item ELSE (a \o b)[1]
<1>1. <<item>> \in Seq(ItemType) /\ Len(<<item>>) = 1 /\ <<item>>[1] = item
  OBVIOUS
<1>2. a \o Append(b, item) = (a \o b) \o <<item>>
  BY <1>1, AppendIsConcat, ConcatAssociative
<1> DEFINE c == a \o b
<1>3. c \in Seq(ItemType) /\ Len(c) \in Nat /\ (c # <<>> => Len(c) > 0) /\ Len(<<>>) = 0
  BY ConcatProperties, LenProperties, EmptySeq
<1> HIDE DEF c
<1>4. /\ c \o <<item>> \in Seq(ItemType) /\ Len(c \o <<item>>) = Len(c) + 1
      /\ \A i \in 1 .. Len(c) + 1 :
            (c \o <<item>>)[i] = IF i <= Len(c) THEN c[i] ELSE <<item>>[i - Len(c)]
  BY <1>1, <1>3, ConcatProperties
<1>5. (c \o <<item>>)[1] = IF c = <<>> THEN item ELSE c[1]
  BY <1>1, <1>3, <1>4
<1>6. QED
  BY <1>2, <1>4, <1>5 DEF c

\* In and Out are sequences; nothing is in or out when both their parts are empty.
LEMMA InOutTyped ==
    ASSUME NEW p \in PeerType, NEW s \in SockType
    PROVE  /\ In(p, s) \in Seq(RequestType \cup MessageType)
           /\ Len(In(p, s)) = Len(p.buf) + Len(s.inq)
           /\ Len(p.buf) \in Nat /\ Len(s.inq) \in Nat
           /\ (p.buf # <<>> => Len(p.buf) > 0) /\ (s.inq # <<>> => Len(s.inq) > 0)
           /\ \A i \in 1 .. Len(p.buf) + Len(s.inq) :
                 In(p, s)[i] = IF i <= Len(p.buf) THEN p.buf[i] ELSE s.inq[i - Len(p.buf)]
           /\ Out(p, s) \in Seq(ItemType) /\ Len(Out(p, s)) \in Nat
           /\ (Out(p, s) = <<>> <=> Len(Out(p, s)) = 0)
           /\ Out(p, s) = <<>> <=> s.sent = <<>> /\ p.writeBuf = <<>>
<1>1. p.buf \in Seq(RequestType \cup MessageType) /\ s.inq \in Seq(RequestType \cup MessageType)
      /\ s.sent \in Seq(ItemType) /\ p.writeBuf \in Seq(ItemType)
  BY DEF PeerType, SockType
<1>2. /\ In(p, s) \in Seq(RequestType \cup MessageType)
      /\ Len(In(p, s)) = Len(p.buf) + Len(s.inq)
      /\ \A i \in 1 .. Len(p.buf) + Len(s.inq) :
            In(p, s)[i] = IF i <= Len(p.buf) THEN p.buf[i] ELSE s.inq[i - Len(p.buf)]
  BY <1>1, ConcatProperties DEF In
<1>3. /\ Len(p.buf) \in Nat /\ Len(s.inq) \in Nat
      /\ (p.buf # <<>> => Len(p.buf) > 0) /\ (s.inq # <<>> => Len(s.inq) > 0)
  BY <1>1, LenProperties, EmptySeq
<1>4. Out(p, s) \in Seq(ItemType)
  BY <1>1, ConcatProperties DEF Out
<1>5. Out(p, s) = <<>> <=> s.sent = <<>> /\ p.writeBuf = <<>>
  BY <1>1, ConcatEqualIffEmpty DEF Out
<1>6. Len(Out(p, s)) \in Nat /\ (Out(p, s) = <<>> <=> Len(Out(p, s)) = 0)
  BY <1>4, LenProperties, EmptySeq
<1>7. QED
  BY <1>2, <1>3, <1>4, <1>5, <1>6

-----------------------------------------------------------------------------
(* OrderInv is preserved by what the steps do to one peer and its socket *)

LEMMA FreshOrder == OrderInv(FreshPeer, FreshSock) /\ OrderInv(TapPeer, FreshSock)
<1>1. FreshPeer \in PeerType /\ FreshSock \in SockType /\ TapPeer \in PeerType
  BY FreshFd, TapFdInv DEF FdInv
<1>2. /\ FreshPeer.handshake = 0 /\ FreshPeer.buf = <<>> /\ FreshPeer.writeBuf = <<>>
      /\ ~FreshPeer.macCollected /\ ~FreshPeer.ctrl
      /\ FreshSock.inq = <<>> /\ FreshSock.sent = <<>>
      /\ TapPeer.handshake = 1 /\ TapPeer.buf = <<>> /\ TapPeer.raw /\ ~TapPeer.ctrl
  BY DEF FreshPeer, FreshSock, TapPeer
<1>3. /\ Len(In(FreshPeer, FreshSock)) = 0 /\ Len(In(TapPeer, FreshSock)) = 0
      /\ Out(FreshPeer, FreshSock) = <<>>
  <2>1. Len(<<>>) = 0
    BY EmptySeq
  <2>2. /\ Len(In(FreshPeer, FreshSock)) = Len(FreshPeer.buf) + Len(FreshSock.inq)
        /\ Len(In(TapPeer, FreshSock)) = Len(TapPeer.buf) + Len(FreshSock.inq)
        /\ Out(FreshPeer, FreshSock) = <<>> <=>
              FreshSock.sent = <<>> /\ FreshPeer.writeBuf = <<>>
    BY <1>1, InOutTyped
  <2>3. QED
    BY <1>2, <2>1, <2>2
<1>4. QED
  BY <1>2, <1>3 DEF OrderInv, InInv, OutInv, MessagesFrom

\* Items move inside In or inside Out, and no mark of the peer changes.
LEMMA MovedOrder ==
    ASSUME NEW p, NEW s, OrderInv(p, s), NEW p1, NEW s1,
           In(p1, s1) = In(p, s), Out(p1, s1) = Out(p, s),
           p1.handshake = p.handshake, p1.raw = p.raw, p1.ctrl = p.ctrl,
           p1.macCollected = p.macCollected, p1.ctrl => RequestKept(p1),
           p1.handshake = 0 /\ p1.buf # <<>> /\ Head(p1.buf).ctrl => Out(p, s) = <<>>
    PROVE  OrderInv(p1, s1)
BY DEF OrderInv, InInv, OutInv

\* A part of the write buffer is written.
LEMMA WrittenOrder ==
    ASSUME NEW p, NEW s, FdInv(p, s), OrderInv(p, s), NEW left \in 0 .. Len(p.writeBuf),
           NEW p1 \in PeerType, p1.writeBuf = Unwritten(p.writeBuf, left),
           p1.buf = p.buf, p1.handshake = p.handshake, p1.raw = p.raw, p1.ctrl = p.ctrl,
           p1.macCollected = p.macCollected,
           NEW s1, s1.inq = s.inq, s1.sent = SockWrote(s, p.writeBuf, left).sent
    PROVE  OrderInv(p1, s1)
<1>1. p \in PeerType /\ s \in SockType /\ p.writeBuf \in Seq(ItemType) /\ s.sent \in Seq(ItemType)
  BY DEF FdInv, PeerType, SockType
<1>2. SockWrote(s, p.writeBuf, left).sent = s.sent \o SubSeq(p.writeBuf, 1, Len(p.writeBuf) - left)
  BY <1>1 DEF SockWrote, SockType
<1>3. Out(p1, s1) = Out(p, s)
  <2> DEFINE a == s.sent
             q == p.writeBuf
  <2>1. a \in Seq(ItemType) /\ q \in Seq(ItemType) /\ left \in 0 .. Len(q)
    BY <1>1
  <2>2. Out(p1, s1) = (a \o SubSeq(q, 1, Len(q) - left)) \o Unwritten(q, left)
    BY <1>2 DEF Out
  <2>3. Out(p, s) = a \o q
    BY DEF Out
  <2> HIDE DEF a, q
  <2>4. QED
    BY <2>1, <2>2, <2>3, WrittenOut
<1>4. In(p1, s1) = In(p, s)
  BY DEF In
<1>5. p1.ctrl => RequestKept(p1)
  BY DEF OrderInv, OutInv, RequestKept
<1>6. p1.handshake = 0 /\ p1.buf # <<>> /\ Head(p1.buf).ctrl => Out(p, s) = <<>>
  BY DEF OrderInv, OutInv
<1>7. QED
  BY <1>3, <1>4, <1>5, <1>6, MovedOrder

\* Messages are read from the socket of a peer.
LEMMA ReadOrder ==
    ASSUME NEW p, NEW s, FdInv(p, s), OrderInv(p, s), s.inq # <<>>, NEW k \in 1 .. Len(s.inq)
    PROVE  OrderInv([p EXCEPT !.buf = @ \o SubSeq(s.inq, 1, k)],
                    [s EXCEPT !.inq = SubSeq(s.inq, k + 1, Len(s.inq))])
<1> DEFINE Bytes == RequestType \cup MessageType
           got == SubSeq(s.inq, 1, k)
           rest == SubSeq(s.inq, k + 1, Len(s.inq))
           p1 == [p EXCEPT !.buf = @ \o got]
           s1 == [s EXCEPT !.inq = rest]
<1>1. p \in PeerType /\ s \in SockType /\ p.buf \in Seq(Bytes) /\ s.inq \in Seq(Bytes)
  BY DEF FdInv, PeerType, SockType
<1>2. Len(s.inq) \in Nat /\ \A i \in 1 .. Len(s.inq) : s.inq[i] \in Bytes
  BY <1>1, ElementOfSeq, LenProperties
<1>4. got \in Seq(Bytes) /\ rest \in Seq(Bytes)
  <2>1. /\ \A i \in 1 .. k : s.inq[i] \in Bytes
        /\ \A i \in k + 1 .. Len(s.inq) : s.inq[i] \in Bytes
    BY <1>2
  <2>2. QED
    BY <1>2, <2>1, SubSeqProperties
<1>5. got \o rest = s.inq
  <2> DEFINE n == Len(s.inq)
  <2>1. 1 \in 1 .. Len(s.inq) + 1 /\ k \in 1 - 1 .. Len(s.inq)
        /\ Len(s.inq) \in k .. Len(s.inq)
    BY <1>2
  <2>2. SubSeq(s.inq, 1, k) \o SubSeq(s.inq, k + 1, Len(s.inq)) = SubSeq(s.inq, 1, Len(s.inq))
    BY <1>1, <2>1, ConcatAdjacentSubSeq
  <2>3. QED
    BY <1>1, <2>2, SubSeqFull
<1> HIDE DEF got, rest
<1>6. /\ p1.buf = p.buf \o got /\ s1.inq = rest /\ p1.writeBuf = p.writeBuf
      /\ s1.sent = s.sent /\ p1.handshake = p.handshake /\ p1.raw = p.raw
      /\ p1.ctrl = p.ctrl /\ p1.macCollected = p.macCollected
  BY <1>1 DEF PeerType, SockType
<1> HIDE DEF p1, s1, Bytes
<1>7. In(p1, s1) = In(p, s) /\ Out(p1, s1) = Out(p, s)
  <2>1. (p.buf \o got) \o rest = p.buf \o (got \o rest)
    <3> DEFINE b == p.buf
    <3>1. b \in Seq(Bytes)
      BY <1>1
    <3> HIDE DEF b
    <3>2. (b \o got) \o rest = b \o (got \o rest)
      BY <1>4, <3>1, ConcatAssociative
    <3>3. QED
      BY <3>2 DEF b
  <2>2. QED
    BY <1>5, <1>6, <2>1 DEF In, Out
<1>8. p.buf # <<>> => Head(p1.buf) = Head(p.buf) /\ p1.buf # <<>>
  BY <1>1, <1>4, <1>6, ConcatProperties, LenProperties, EmptySeq
<1>9. p1.handshake = 0 /\ Head(p1.buf).ctrl => Out(p, s) = <<>>
  <2>1. CASE p.buf = <<>>
    BY <1>1, <1>6, <2>1, InOutTyped DEF FdInv, ShakeInv
  <2>2. CASE p.buf # <<>>
    BY <1>8, <1>6, <2>2 DEF OrderInv, OutInv
  <2>3. QED
    BY <2>1, <2>2
<1>10. p1.ctrl => RequestKept(p1)
  BY <1>8, <1>6 DEF OrderInv, OutInv, RequestKept
<1>11. OrderInv(p1, s1)
  BY <1>6, <1>7, <1>9, <1>10, MovedOrder
<1>12. QED
  BY <1>11 DEF p1, s1, got, rest

\* The first item is consumed: what was behind it moves up.
LEMMA ConsumedIn ==
    ASSUME NEW p \in PeerType, NEW s \in SockType, p.buf # <<>>, MessagesFrom(In(p, s), 2),
           NEW p1 \in PeerType, NEW s1 \in SockType, p1.buf = Tail(p.buf), s1.inq = s.inq
    PROVE  MessagesFrom(In(p1, s1), 1)
<1> DEFINE n == Len(p.buf)
           m == Len(s.inq)
<1>1. /\ n \in Nat /\ m \in Nat /\ n > 0 /\ Len(In(p, s)) = n + m
      /\ \A i \in 1 .. n + m : In(p, s)[i] = IF i <= n THEN p.buf[i] ELSE s.inq[i - n]
  BY InOutTyped
<1>2. Len(p1.buf) = n - 1 /\ \A i \in 1 .. n - 1 : p1.buf[i] = p.buf[i + 1]
  <2>1. p.buf \in Seq(RequestType \cup MessageType)
    BY DEF PeerType
  <2>2. QED
    BY <2>1, HeadTailProperties
<1>3. /\ Len(In(p1, s1)) = n - 1 + m
      /\ \A i \in 1 .. n - 1 + m :
            In(p1, s1)[i] = IF i <= n - 1 THEN p1.buf[i] ELSE s.inq[i - (n - 1)]
  BY <1>2, InOutTyped
<1> HIDE DEF n, m
<1>4. \A i \in 1 .. n - 1 + m : In(p1, s1)[i] = In(p, s)[i + 1]
  <2> SUFFICES ASSUME NEW i \in 1 .. n - 1 + m PROVE In(p1, s1)[i] = In(p, s)[i + 1]
    OBVIOUS
  <2>1. i + 1 \in 1 .. n + m /\ i + 1 - n = i - (n - 1)
    BY <1>1
  <2>2. In(p, s)[i + 1] = IF i + 1 <= n THEN p.buf[i + 1] ELSE s.inq[i + 1 - n]
    BY <1>1, <2>1
  <2>3. CASE i + 1 <= n
    BY <1>1, <1>2, <1>3, <2>2, <2>3
  <2>4. CASE ~(i + 1 <= n)
    <3>1. ~(i <= n - 1)
      BY <1>1, <2>4
    <3>2. QED
      BY <1>3, <2>1, <2>2, <2>4, <3>1
  <2>5. QED
    BY <2>3, <2>4
<1>5. \A i \in 1 .. n - 1 + m : i + 1 \in 2 .. n + m
  BY <1>1
<1>6. QED
  BY <1>1, <1>3, <1>4, <1>5 DEF MessagesFrom

\* Reading the address out of a request leaves a request of its kind, and
\* messages behind it.
LEMMA AddressReadIn ==
    ASSUME NEW p \in PeerType, NEW s \in SockType, p.buf # <<>>, Head(p.buf) \in RequestType,
           MessagesFrom(In(p, s), 2), NEW p1 \in PeerType, NEW s1 \in SockType,
           p1.buf = AddressRead(p.buf), s1.inq = s.inq
    PROVE  /\ MessagesFrom(In(p1, s1), 2)
           /\ p1.buf # <<>> /\ Head(p1.buf).ctrl = Head(p.buf).ctrl
<1> DEFINE Bytes == RequestType \cup MessageType
           b == p.buf
           n == Len(b)
           m == Len(s.inq)
<1>1. b \in Seq(Bytes) /\ p1.buf \in Seq(Bytes)
  BY DEF PeerType
<1>2. /\ n \in Nat /\ m \in Nat /\ n > 0 /\ Len(In(p, s)) = n + m
      /\ \A i \in 1 .. n + m : In(p, s)[i] = IF i <= n THEN b[i] ELSE s.inq[i - n]
  BY InOutTyped
<1>3. Head(b) = b[1] /\ b[1] \in Bytes /\ b[1] \in RequestType
  BY <1>1, <1>2, ElementOfSeq
<1>4. /\ Len(p1.buf) = n
      /\ p1.buf[1].ctrl = b[1].ctrl
      /\ \A i \in 2 .. n : p1.buf[i] = b[i] \/ p1.buf[i] = Short
  <2>1. CASE b[1].macAt = "inside"
    <3> DEFINE c == [b[1] EXCEPT !.cut = TRUE]
    <3>1. AddressRead(b) = [b EXCEPT ![1] = c]
      BY <1>3, <2>1 DEF AddressRead
    <3>2. c \in Bytes /\ c.ctrl = b[1].ctrl
      BY <1>3 DEF RequestType
    <3>3. 1 \in 1 .. Len(b)
      BY <1>2
    <3> HIDE DEF c, Bytes, b
    <3>4. /\ Len([b EXCEPT ![1] = c]) = Len(b)
          /\ \A j \in 1 .. Len(b) : [b EXCEPT ![1] = c][j] = IF j = 1 THEN c ELSE b[j]
      BY <1>1, <3>2, <3>3, ExceptSeq
    <3>5. \A i \in 2 .. n : i \in 1 .. Len(b) /\ i # 1
      BY <1>2
    <3>6. p1.buf = [b EXCEPT ![1] = c]
      BY <3>1 DEF b
    <3>7. QED
      BY <3>2, <3>3, <3>4, <3>5, <3>6
  <2>2. CASE b[1].macAt # "inside" /\ b[1].macAt = "last" /\ Len(b) > 1 /\ b[2] \in {Close, Ping}
    <3>1. AddressRead(b) = [b EXCEPT ![2] = Short]
      BY <1>3, <2>2 DEF AddressRead
    <3>2. Short \in Bytes
      BY DEF MessageType
    <3>3. 2 \in 1 .. Len(b) /\ 1 \in 1 .. Len(b)
      BY <1>2, <2>2
    <3> HIDE DEF Bytes, b
    <3>4. /\ Len([b EXCEPT ![2] = Short]) = Len(b)
          /\ \A j \in 1 .. Len(b) : [b EXCEPT ![2] = Short][j] = IF j = 2 THEN Short ELSE b[j]
      BY <1>1, <3>2, <3>3, ExceptSeq
    <3>5. \A i \in 2 .. n : i \in 1 .. Len(b)
      BY <1>2
    <3>6. p1.buf = [b EXCEPT ![2] = Short]
      BY <3>1 DEF b
    <3>7. QED
      BY <3>3, <3>4, <3>5, <3>6
  <2>3. CASE /\ b[1].macAt # "inside"
             /\ ~(b[1].macAt = "last" /\ Len(b) > 1 /\ b[2] \in {Close, Ping})
    <3>1. AddressRead(b) = b
      BY <1>3, <2>3 DEF AddressRead
    <3>2. QED
      BY <3>1
  <2>4. QED
    BY <2>1, <2>2, <2>3
<1>5. p1.buf # <<>> /\ Head(p1.buf) = p1.buf[1]
  BY <1>1, <1>2, <1>4, EmptySeq
<1>6. /\ Len(In(p1, s1)) = n + m
      /\ \A i \in 1 .. n + m : In(p1, s1)[i] = IF i <= n THEN p1.buf[i] ELSE s.inq[i - n]
  BY <1>4, InOutTyped
<1>7. MessagesFrom(In(p1, s1), 2)
  <2> SUFFICES ASSUME NEW i \in 2 .. n + m PROVE In(p1, s1)[i] \in MessageType
    BY <1>6 DEF MessagesFrom
  <2>1. In(p, s)[i] \in MessageType /\ i \in 1 .. n + m /\ Short \in MessageType
    <3>1. Short \in MessageType
      BY DEF MessageType
    <3> HIDE DEF n, m
    <3>2. QED
      BY <1>2, <3>1 DEF MessagesFrom
  <2> HIDE DEF n, m, b
  <2>2. CASE i <= n
    <3>1. i \in 2 .. n
      BY <1>2, <2>2
    <3>2. QED
      BY <1>2, <1>4, <1>6, <2>1, <2>2, <3>1
  <2>3. CASE ~(i <= n)
    BY <1>2, <1>6, <2>1, <2>3
  <2>4. QED
    BY <2>2, <2>3
<1>8. QED
  BY <1>3, <1>4, <1>5, <1>7

\* A request of a websocket client is answered, the reply written or not.
LEMMA UpgradedOrder ==
    ASSUME NEW fd \in Fds, FdInv(peer[fd], sock[fd]), OrderInv(peer[fd], sock[fd]),
           peer[fd].handshake = 0, peer[fd].buf # <<>>, ~BadPacket(fd), ~Head(peer[fd].buf).ctrl,
           NEW left \in 0 .. Len(Append(peer[fd].writeBuf, Reply101))
    PROVE  LET p == Upgraded(fd)
               q == Append(peer[fd].writeBuf, Reply101)
           IN /\ left = 0 =>
                   OrderInv([p EXCEPT !.handshake = 1, !.buf = Consumed(@), !.writeBuf = <<>>],
                            SockWrote(sock[fd], q, 0))
              /\ OrderInv([p EXCEPT !.isWriting = TRUE, !.writeBuf = Unwritten(q, left)],
                          SockBlocked(sock[fd], q, left))
              /\ ~p.ctrl
<1> DEFINE p0 == peer[fd]
           s0 == sock[fd]
           p == Upgraded(fd)
           q == Append(p0.writeBuf, Reply101)
<1>1. /\ p0 \in PeerType /\ s0 \in SockType /\ Head(p0.buf) \in RequestType
      /\ p0.writeBuf \in Seq(ItemType) /\ s0.sent \in Seq(ItemType) /\ Reply101 \in ItemType
      /\ s0.inq \in Seq(RequestType \cup MessageType)
  BY DEF FdInv, ShakeInv, PeerType, SockType, ItemType
<1>2. /\ p \in PeerType /\ p.buf = AddressRead(p0.buf) /\ ~p.raw /\ p.handshake = 0
  BY UpgradedTyped
<1>3. ~p.ctrl
  <2>1. ~p0.ctrl
    BY DEF OrderInv, OutInv
  <2>2. p.ctrl = p0.ctrl
    BY <1>1 DEF Upgraded, PeerType
  <2>3. QED
    BY <2>1, <2>2
<1>4. q \in Seq(ItemType) /\ Len(q) \in Nat
  BY <1>1, AppendProperties, LenProperties
<1>5. /\ s0.sent \o q \in Seq(ItemType) /\ s0.sent \o q # <<>>
      /\ (s0.sent \o q)[1] = Reply101
  <2> DEFINE a == s0.sent
             b == p0.writeBuf
  <2>1. a \in Seq(ItemType) /\ b \in Seq(ItemType)
    BY <1>1
  <2>2. a \o b # <<>> => (a \o b)[1] = Reply101
    <3>1. ~p0.raw /\ ~p0.ctrl
      BY DEF OrderInv, OutInv, FdInv, ShakeInv
    <3>2. Out(p0, s0) # <<>> => Out(p0, s0)[1] = Reply101
      BY <3>1 DEF OrderInv, OutInv
    <3>3. QED
      BY <3>2 DEF Out
  <2>3. Len(a \o b) \in Nat
    BY <2>1, ConcatProperties, LenProperties
  <2> HIDE DEF a, b
  <2>4. /\ a \o Append(b, Reply101) \in Seq(ItemType)
        /\ Len(a \o Append(b, Reply101)) = Len(a \o b) + 1
        /\ (a \o Append(b, Reply101))[1] = IF a \o b = <<>> THEN Reply101 ELSE (a \o b)[1]
    BY <1>1, <2>1, AppendedOut
  <2>5. a \o Append(b, Reply101) # <<>>
    BY <2>3, <2>4, EmptySeq
  <2>6. QED
    BY <2>2, <2>4, <2>5 DEF a, b
<1> HIDE DEF p0, s0, p, q
<1>6. /\ SockWrote(s0, q, left) \in SockType /\ SockBlocked(s0, q, left) \in SockType
      /\ Unwritten(q, left) \in Seq(ItemType) /\ (left = 0 => Unwritten(q, left) = <<>>)
      /\ SockWrote(s0, q, left).inq = s0.inq /\ SockBlocked(s0, q, left).inq = s0.inq
      /\ SockWrote(s0, q, left).sent = s0.sent \o SubSeq(q, 1, Len(q) - left)
      /\ SockBlocked(s0, q, left).sent = s0.sent \o SubSeq(q, 1, Len(q) - left)
  <2>1. left \in 0 .. Len(q)
    BY DEF q, p0
  <2>2. /\ SockWrote(s0, q, left).inq = s0.inq /\ SockBlocked(s0, q, left).inq = s0.inq
        /\ SockWrote(s0, q, left).sent = s0.sent \o SubSeq(q, 1, Len(q) - left)
        /\ SockBlocked(s0, q, left).sent = s0.sent \o SubSeq(q, 1, Len(q) - left)
    BY <1>1 DEF SockWrote, SockBlocked, SockType
  <2>3. QED
    BY <1>1, <1>4, <2>1, <2>2, WriteProperties
<1>7. (s0.sent \o SubSeq(q, 1, Len(q) - left)) \o Unwritten(q, left) = s0.sent \o q
  <2> DEFINE a == s0.sent
  <2>1. a \in Seq(ItemType) /\ left \in 0 .. Len(q)
    BY <1>1 DEF q, p0
  <2> HIDE DEF a
  <2>2. (a \o SubSeq(q, 1, Len(q) - left)) \o Unwritten(q, left) = a \o q
    BY <1>4, <2>1, WrittenOut
  <2>3. QED
    BY <2>2 DEF a
<1>8. /\ MessagesFrom(In(p, s0), 2) /\ p.buf # <<>>
      /\ ~Head(p.buf).ctrl
  <2>1. MessagesFrom(In(p0, s0), 2) /\ p0.buf # <<>> /\ ~Head(p0.buf).ctrl
    BY DEF OrderInv, InInv, p0, s0
  <2>2. QED
    BY <1>1, <1>2, <2>1, AddressReadIn
<1>9. ASSUME left = 0
      PROVE  OrderInv([p EXCEPT !.handshake = 1, !.buf = Consumed(@), !.writeBuf = <<>>],
                      SockWrote(s0, q, 0))
  <2> DEFINE p1 == [p EXCEPT !.handshake = 1, !.buf = Consumed(@), !.writeBuf = <<>>]
             s1 == SockWrote(s0, q, 0)
  <2>1. p.buf \in Seq(RequestType \cup MessageType) /\ Tail(p.buf) \in Seq(RequestType \cup MessageType)
    BY <1>2, <1>8, HeadTailProperties DEF PeerType
  <2>2. p1 \in PeerType /\ s1 \in SockType /\ s1.inq = s0.inq
    BY <1>2, <1>6, <1>9, <2>1, EmptySeq DEF PeerType, Consumed
  <2>3. /\ p1.buf = Tail(p.buf) /\ p1.writeBuf = <<>> /\ p1.handshake = 1
        /\ ~p1.ctrl /\ ~p1.raw
    BY <1>2, <1>3 DEF PeerType, Consumed
  <2> HIDE DEF p1
  <2>4. MessagesFrom(In(p1, s1), 1)
    BY <1>1, <1>2, <1>8, <2>2, <2>3, ConsumedIn
  <2>5. Out(p1, s1) = s0.sent \o q
    BY <1>6, <1>7, <1>9, <2>3 DEF Out
  <2>6. OrderInv(p1, s1)
    BY <1>5, <2>3, <2>4, <2>5 DEF OrderInv, InInv, OutInv
  <2>7. QED
    BY <2>6 DEF p1
<1>10. OrderInv([p EXCEPT !.isWriting = TRUE, !.writeBuf = Unwritten(q, left)],
                SockBlocked(s0, q, left))
  <2> DEFINE p1 == [p EXCEPT !.isWriting = TRUE, !.writeBuf = Unwritten(q, left)]
             s1 == SockBlocked(s0, q, left)
  <2>1. p1.buf = p.buf /\ p1.writeBuf = Unwritten(q, left) /\ p1.handshake = 0
        /\ ~p1.ctrl /\ ~p1.raw
    BY <1>2, <1>3 DEF PeerType
  <2> HIDE DEF p1
  <2>2. In(p1, s1) = In(p, s0)
    BY <1>6, <2>1 DEF In
  <2>3. Out(p1, s1) = s0.sent \o q
    BY <1>6, <1>7, <2>1 DEF Out
  <2>4. OrderInv(p1, s1)
    BY <1>5, <1>8, <2>1, <2>2, <2>3 DEF OrderInv, InInv, OutInv
  <2>5. QED
    BY <2>4 DEF p1
<1>11. QED
  BY <1>3, <1>9, <1>10 DEF p, q, p0, s0

\* A control request is answered and some of the reply is left.
LEMMA ControlledOrder ==
    ASSUME NEW fd \in Fds, FdInv(peer[fd], sock[fd]), OrderInv(peer[fd], sock[fd]),
           peer[fd].handshake = 0, peer[fd].buf # <<>>, Head(peer[fd].buf).ctrl,
           NEW left \in 0 .. Len(Append(peer[fd].writeBuf, Json))
    PROVE  LET q == Append(peer[fd].writeBuf, Json)
           IN OrderInv([peer[fd] EXCEPT
                           !.ctrl = TRUE, !.vars = ParsedVars(fd), !.handshake = 1,
                           !.isWriting = TRUE, !.writeBuf = Unwritten(q, left)],
                       SockBlocked(sock[fd], q, left))
<1> DEFINE p0 == peer[fd]
           s0 == sock[fd]
           q == Append(p0.writeBuf, Json)
           p1 == [p0 EXCEPT !.ctrl = TRUE, !.vars = ParsedVars(fd), !.handshake = 1,
                            !.isWriting = TRUE, !.writeBuf = Unwritten(q, left)]
           s1 == SockBlocked(s0, q, left)
<1>1. /\ p0 \in PeerType /\ s0 \in SockType /\ ~p0.raw
      /\ p0.writeBuf \in Seq(ItemType) /\ s0.sent \in Seq(ItemType) /\ Json \in ItemType
  BY DEF FdInv, ShakeInv, PeerType, SockType, ItemType
<1>2. Out(p0, s0) = <<>>
  BY DEF OrderInv, OutInv
<1>3. s0.sent = <<>> /\ p0.writeBuf = <<>> /\ ~p0.macCollected
  BY <1>1, <1>2, InOutTyped DEF OrderInv, InInv, OutInv
<1>4. RequestKept(p0)
  BY DEF FdInv, ShakeInv, RequestKept
<1>5. q \in Seq(ItemType) /\ left \in 0 .. Len(q)
  BY <1>1, AppendProperties
<1>6. s0.sent \o q = <<Json>>
  <2>1. q = <<Json>>
    BY <1>3
  <2>2. <<Json>> \in Seq(ItemType)
    BY <1>1
  <2> HIDE DEF q
  <2>3. QED
    BY <1>3, <2>1, <2>2, ConcatEmptySeq
<1>7. /\ p1.raw = p0.raw /\ p1.macCollected = p0.macCollected /\ p1.handshake = 1 /\ p1.buf = p0.buf
      /\ p1.ctrl /\ p1.writeBuf = Unwritten(q, left)
  BY <1>1 DEF PeerType
<1>8. s1.sent = s0.sent \o SubSeq(q, 1, Len(q) - left)
  BY <1>1 DEF SockWrote, SockBlocked, SockType
<1> HIDE DEF p0, s0, p1, s1, q
<1>9. Out(p1, s1) = <<Json>>
  <2> DEFINE a == s0.sent
  <2>1. a \in Seq(ItemType)
    BY <1>1
  <2> HIDE DEF a
  <2>2. (a \o SubSeq(q, 1, Len(q) - left)) \o Unwritten(q, left) = a \o q
    BY <1>5, <2>1, WrittenOut
  <2>3. QED
    BY <1>6, <1>7, <1>8, <2>2 DEF a, Out
<1>10. Out(p1, s1) # <<>> /\ Len(Out(p1, s1)) = 1 /\ Out(p1, s1)[1] = Json
  BY <1>9
<1>11. OrderInv(p1, s1)
  BY <1>1, <1>3, <1>4, <1>7, <1>10 DEF OrderInv, InInv, OutInv, RequestKept
<1>12. QED
  BY <1>11 DEF p0, s0, p1, s1, q

\* A message of a peer past its handshake is consumed, its source learned.
LEMMA ConsumedOrder ==
    ASSUME NEW fd \in Fds, FdInv(peer[fd], sock[fd]), OrderInv(peer[fd], sock[fd]),
           peer[fd].handshake > 0, peer[fd].buf # <<>>, ~peer[fd].ctrl, NEW src \in Macs
    PROVE  /\ OrderInv(Decapitated(fd), sock[fd])
           /\ OrderInv(Learned(Decapitated(fd), src), sock[fd])
           /\ ~Decapitated(fd).ctrl /\ ~Learned(Decapitated(fd), src).ctrl
<1> DEFINE p == peer[fd]
           s == sock[fd]
           d == Decapitated(fd)
           l == Learned(d, src)
<1>1. p \in PeerType /\ s \in SockType /\ p.handshake # 0
  BY DEF FdInv, PeerType
<1>2. d \in PeerType /\ l \in PeerType
  BY ConsumedFd DEF FdInv
<1>3. /\ d.buf = Tail(p.buf) /\ d.handshake = p.handshake /\ d.raw = p.raw
      /\ d.ctrl = p.ctrl /\ d.writeBuf = p.writeBuf
  BY <1>1 DEF Decapitated, Consumed, PeerType
<1>4. /\ l.buf = d.buf /\ l.handshake = d.handshake /\ l.raw = d.raw
      /\ l.ctrl = d.ctrl /\ l.writeBuf = d.writeBuf
  BY <1>2 DEF Learned, PeerType
<1> HIDE DEF p, s, d, l
<1>5. MessagesFrom(In(p, s), 2)
  <2>1. MessagesFrom(In(p, s), 1)
    BY <1>1 DEF OrderInv, InInv, p, s
  <2>2. Len(In(p, s)) \in Nat
    BY <1>1, InOutTyped, LenProperties
  <2>3. QED
    BY <2>1, <2>2 DEF MessagesFrom
<1>6. MessagesFrom(In(d, s), 1)
  BY <1>1, <1>2, <1>3, <1>5, ConsumedIn DEF p
<1>7. In(l, s) = In(d, s) /\ Out(d, s) = Out(p, s) /\ Out(l, s) = Out(p, s)
  BY <1>3, <1>4 DEF In, Out
<1>8. ~p.ctrl /\ (~p.raw => Out(p, s) # <<>> /\ Out(p, s)[1] = Reply101)
  BY <1>1 DEF OrderInv, OutInv, p, s
<1>9. OrderInv(d, s) /\ OrderInv(l, s)
  BY <1>1, <1>3, <1>4, <1>6, <1>7, <1>8 DEF OrderInv, InInv, OutInv
<1>10. QED
  BY <1>3, <1>4, <1>8, <1>9 DEF d, l, p, s

\* A frame is appended to the write buffer of a peer that has had its reply, or
\* of the tap device.
LEMMA ForwardedOrder ==
    ASSUME NEW p, NEW t \in Fds, FdInv(p, sock[t]), OrderInv(p, sock[t]), ~p.ctrl,
           p.raw \/ Out(p, sock[t]) # <<>>, NEW item \in ItemType,
           NEW left \in 0 .. Len(Append(p.writeBuf, item))
    PROVE  LET q == Append(p.writeBuf, item)
           IN OrderInv([p EXCEPT !.writeBuf = Unwritten(q, left)], SockForwarded(t, q, left))
<1> DEFINE s == sock[t]
           q == Append(p.writeBuf, item)
           p1 == [p EXCEPT !.writeBuf = Unwritten(q, left)]
           s1 == SockForwarded(t, q, left)
<1>1. /\ p \in PeerType /\ s \in SockType
      /\ p.writeBuf \in Seq(ItemType) /\ s.sent \in Seq(ItemType)
  BY DEF FdInv, PeerType, SockType
<1>2. q \in Seq(ItemType) /\ left \in 0 .. Len(q)
  BY <1>1, AppendProperties
<1>3. s1.inq = s.inq /\ s1.sent = s.sent \o SubSeq(q, 1, Len(q) - left)
  BY <1>1 DEF SockForwarded, SockWrote, SockBlocked, SockType
<1>4. /\ p1.raw = p.raw /\ p1.handshake = p.handshake /\ p1.buf = p.buf
      /\ p1.ctrl = p.ctrl /\ p1.writeBuf = Unwritten(q, left)
  BY <1>1 DEF PeerType
<1> DEFINE a == s.sent
           b == p.writeBuf
<1>5. a \in Seq(ItemType) /\ b \in Seq(ItemType)
  BY <1>1
<1>6. Out(p1, s1) = a \o q
  <2> HIDE DEF a, q, p1, s1
  <2>1. (a \o SubSeq(q, 1, Len(q) - left)) \o Unwritten(q, left) = a \o q
    BY <1>2, <1>5, WrittenOut
  <2>2. QED
    BY <1>3, <1>4, <2>1 DEF a, Out
<1>7. Out(p, s) = a \o b /\ q = Append(b, item)
  BY DEF Out
<1> HIDE DEF s, q, p1, s1, a, b
<1>8. /\ Out(p1, s1) # <<>>
      /\ Out(p1, s1)[1] = IF Out(p, s) = <<>> THEN item ELSE Out(p, s)[1]
  <2>1. /\ a \o q \in Seq(ItemType) /\ Len(a \o q) = Len(a \o b) + 1
        /\ (a \o q)[1] = IF a \o b = <<>> THEN item ELSE (a \o b)[1]
    BY <1>5, <1>7, AppendedOut
  <2>2. Len(a \o b) \in Nat
    BY <1>5, ConcatProperties, LenProperties
  <2>3. a \o q # <<>>
    BY <2>1, <2>2, EmptySeq
  <2>4. QED
    BY <1>6, <1>7, <2>1, <2>3
<1>9. In(p1, s1) = In(p, s)
  BY <1>3, <1>4 DEF In
<1>10. p.raw \/ Out(p, s) # <<>>
  BY DEF s
<1>11. OrderInv(p, s) /\ (p.raw => p.handshake = 1)
  BY DEF s, FdInv, ShakeInv
<1>12. OrderInv(p1, s1)
  BY <1>4, <1>8, <1>9, <1>10, <1>11 DEF OrderInv, InInv, OutInv
<1>13. QED
  BY <1>12 DEF p1, s1, q

\* A message arrives.
LEMMA SentOrder ==
    ASSUME NEW p, NEW s, FdInv(p, s), OrderInv(p, s), NEW m \in MessageType
    PROVE  OrderInv(p, [s EXCEPT !.inq = Append(@, m)])
<1> DEFINE s1 == [s EXCEPT !.inq = Append(@, m)]
<1>1. p \in PeerType /\ s \in SockType /\ s1 \in SockType
  <2>1. p \in PeerType /\ s \in SockType
    BY DEF FdInv
  <2>2. Append(s.inq, m) \in Seq(RequestType \cup MessageType)
    BY <2>1, AppendProperties DEF SockType
  <2>3. QED
    BY <2>1, <2>2 DEF SockType
<1>2. s1.inq = Append(s.inq, m) /\ s1.sent = s.sent
  BY <1>1 DEF SockType
<1> HIDE DEF s1
<1>3. Out(p, s1) = Out(p, s)
  BY <1>2 DEF Out
<1>4. \A i \in 1 .. Len(In(p, s1)) :
        (i \in 1 .. Len(In(p, s)) /\ In(p, s1)[i] = In(p, s)[i]) \/ In(p, s1)[i] = m
  <2> DEFINE n == Len(p.buf)
             k == Len(s.inq)
  <2>1. /\ n \in Nat /\ k \in Nat /\ Len(In(p, s)) = n + k
        /\ \A i \in 1 .. n + k : In(p, s)[i] = IF i <= n THEN p.buf[i] ELSE s.inq[i - n]
    BY <1>1, InOutTyped
  <2>2. /\ Len(s1.inq) = k + 1 /\ s1.inq[k + 1] = m
        /\ \A i \in 1 .. k : s1.inq[i] = s.inq[i]
    <3>1. s.inq \in Seq(RequestType \cup MessageType)
      BY <1>1 DEF SockType
    <3>2. QED
      BY <1>2, <3>1, AppendProperties
  <2>3. /\ Len(In(p, s1)) = n + (k + 1)
        /\ \A i \in 1 .. n + (k + 1) :
              In(p, s1)[i] = IF i <= n THEN p.buf[i] ELSE s1.inq[i - n]
    BY <1>1, <2>2, InOutTyped
  <2> HIDE DEF n, k
  <2>4. ASSUME NEW i \in 1 .. n + (k + 1)
        PROVE  (i \in 1 .. n + k /\ In(p, s1)[i] = In(p, s)[i]) \/ In(p, s1)[i] = m
    <3>1. CASE i <= n
      BY <2>1, <2>3, <3>1
    <3>2. CASE ~(i <= n) /\ i <= n + k
      <4>1. i - n \in 1 .. k /\ i \in 1 .. n + k
        BY <2>1, <3>2
      <4>2. QED
        BY <2>1, <2>2, <2>3, <3>2, <4>1
    <3>3. CASE i = n + (k + 1)
      <4>1. i - n = k + 1 /\ ~(i <= n)
        BY <2>1, <3>3
      <4>2. QED
        BY <2>2, <2>3, <4>1
    <3>4. QED
      BY <2>1, <3>1, <3>2, <3>3
  <2>5. QED
    BY <2>1, <2>3, <2>4
<1>5. \A j \in {1, 2} : MessagesFrom(In(p, s), j) => MessagesFrom(In(p, s1), j)
  <2>1. Len(In(p, s)) \in Nat /\ Len(In(p, s1)) \in Nat
    BY <1>1, InOutTyped, LenProperties
  <2>2. QED
    BY <1>4, <2>1 DEF MessagesFrom
<1>6. OrderInv(p, s1)
  BY <1>3, <1>5 DEF OrderInv, InInv, OutInv
<1>7. QED
  BY <1>6 DEF s1

\* The request of a connection arrives.
LEMMA RequestedOrder ==
    ASSUME NEW p, NEW s, FdInv(p, s), OrderInv(p, s), NEW r \in RequestType,
           p.handshake = 0, p.buf = <<>>
    PROVE  OrderInv(p, [s EXCEPT !.inq = <<r>>])
<1> DEFINE s1 == [s EXCEPT !.inq = <<r>>]
<1>1. p \in PeerType /\ s \in SockType /\ s1 \in SockType
  <2>1. <<r>> \in Seq(RequestType \cup MessageType)
    OBVIOUS
  <2>2. QED
    BY <2>1 DEF FdInv, SockType
<1>2. s1.inq = <<r>> /\ s1.sent = s.sent
  BY <1>1 DEF SockType
<1> HIDE DEF s1
<1>3. Out(p, s1) = Out(p, s)
  BY <1>2 DEF Out
<1>4. Len(In(p, s1)) = 1
  <2>1. Len(p.buf) = 0 /\ Len(s1.inq) = 1
    BY <1>2, EmptySeq
  <2>2. Len(In(p, s1)) = Len(p.buf) + Len(s1.inq)
    BY <1>1, InOutTyped
  <2>3. QED
    BY <2>1, <2>2
<1>5. ~p.ctrl
  BY DEF OrderInv, OutInv
<1>6. OrderInv(p, s1)
  BY <1>3, <1>4, <1>5 DEF OrderInv, InInv, OutInv, MessagesFrom
<1>7. QED
  BY <1>6 DEF s1

-----------------------------------------------------------------------------
(* Ordered is preserved by every step *)

LEMMA InitOrder == Init => Ordered
<1> SUFFICES ASSUME Init PROVE Ordered
  OBVIOUS
<1>1. \A fd \in Fds : OrderInv(peer[fd], sock[fd])
  BY FreshOrder DEF Init
<1>2. QED
  BY <1>1 DEF Ordered

\* A step that changes one live peer and its socket.
LEMMA OneFdOrder ==
    ASSUME IInv, Ordered, NEW fd \in live, NEW p, NEW s, OrderInv(p, s),
           peer' = [peer EXCEPT ![fd] = p], sock' = [sock EXCEPT ![fd] = s]
    PROVE  Ordered'
<1>1. /\ fd \in Fds /\ live \subseteq Fds
      /\ peer \in [Fds -> PeerType] /\ sock \in [Fds -> SockType]
  BY DEF IInv, TypeOK
<1>2. \A g \in Fds : peer'[g] = (IF g = fd THEN p ELSE peer[g])
                     /\ sock'[g] = (IF g = fd THEN s ELSE sock[g])
  BY <1>1
<1>3. \A g \in Fds : OrderInv(peer'[g], sock'[g])
  BY <1>2 DEF Ordered
<1>4. QED
  BY <1>3 DEF Ordered

\* A step that destroys peers.
LEMMA DestroyOrder ==
    ASSUME IInv, Ordered, NEW S, Destroy(S)
    PROVE  Ordered'
<1>2. \A g \in Fds : peer'[g] = (IF g \in S THEN FreshPeer ELSE peer[g])
                     /\ sock'[g] = (IF g \in S THEN FreshSock ELSE sock[g])
  BY DEF Destroy
<1>3. \A g \in Fds : OrderInv(peer'[g], sock'[g])
  BY <1>2, FreshOrder DEF Ordered
<1>4. QED
  BY <1>3 DEF Ordered

\* A step that changes neither a peer nor a socket.
LEMMA QuietOrder ==
    ASSUME IInv, Ordered, UNCHANGED <<peer, sock>>
    PROVE  Ordered'
BY DEF Ordered

\* accept() finds a descriptor that is free, and makes a fresh peer.
LEMMA AcceptOrder == ASSUME IInv, Ordered, Accept PROVE Ordered'
<1>1. PICK fd \in Lowest(Fds \ live) :
        /\ live' = live \cup {fd}
        /\ peer' = [peer EXCEPT ![fd] = FreshPeer]
        /\ sock' = [sock EXCEPT ![fd] = FreshSock]
  BY DEF Accept
<1>2. fd \in Fds /\ live \subseteq Fds /\ peer \in [Fds -> PeerType] /\ sock \in [Fds -> SockType]
  BY <1>1 DEF Lowest, IInv, TypeOK
<1>3. \A g \in Fds : OrderInv(peer'[g], sock'[g])
  <2>1. \A g \in Fds : /\ peer'[g] = (IF g = fd THEN FreshPeer ELSE peer[g])
                       /\ sock'[g] = (IF g = fd THEN FreshSock ELSE sock[g])
    BY <1>1, <1>2
  <2>2. QED
    BY <2>1, FreshOrder DEF Ordered
<1>4. QED
  BY <1>3 DEF Ordered

\* An event of the batch is handled, up to the "again" loop.
LEMMA EventOrder ==
    ASSUME IInv, Ordered, NEW fd \in Fds, EventStep(fd)
    PROVE  Ordered'
<1>1. /\ peer[fd] \in PeerType /\ sock[fd] \in SockType
      /\ FdInv(peer[fd], sock[fd]) /\ OrderInv(peer[fd], sock[fd])
      /\ peer \in [Fds -> PeerType] /\ sock \in [Fds -> SockType]
  BY DEF IInv, TypeOK, Ordered
<1>2. /\ peer[fd].writeBuf \in Seq(ItemType) /\ Len(peer[fd].writeBuf) \in Nat
      /\ Outcomes(fd, peer[fd].writeBuf) \subseteq -1 .. Len(peer[fd].writeBuf)
  BY <1>1, OutcomesRange, LenProperties DEF PeerType, IInv
<1>3. CASE ManageMissing(fd) \/ ReadNothing(fd)
  BY <1>3, QuietOrder DEF ManageMissing, ReadNothing, Return
<1>4. CASE WriteFails(fd) \/ ReadFails(fd)
  BY <1>4, DestroyOrder DEF WriteFails, ReadFails, Return
<1>5. CASE WriteSome(fd)
  <2> DEFINE q == peer[fd].writeBuf
  <2>1. PICK left \in Outcomes(fd, q) \ {0, -1} :
          /\ peer' = [peer EXCEPT ![fd].writeBuf = Unwritten(q, left)]
          /\ sock' = [sock EXCEPT ![fd] = SockWrote(@, q, left)]
    BY <1>5 DEF WriteSome
  <2>2. left \in 0 .. Len(q) /\ fd \in live
    BY <1>2, <1>5 DEF WriteSome, WritingEvent
  <2> DEFINE p == [peer[fd] EXCEPT !.writeBuf = Unwritten(q, left)]
             s == SockWrote(sock[fd], q, left)
  <2>3. p \in PeerType /\ s.inq = sock[fd].inq
    BY <1>1, <1>2, <2>2, WriteProperties DEF PeerType, SockWrote, SockType
  <2>4. OrderInv(p, s)
    BY <1>1, <2>2, <2>3, WrittenOrder DEF PeerType
  <2>5. peer' = [peer EXCEPT ![fd] = p] /\ sock' = [sock EXCEPT ![fd] = s]
    BY <2>1
  <2>6. live' = live /\ cur' = NoFd
    BY <1>5 DEF WriteSome, Return
  <2> HIDE DEF p, s
  <2>7. QED
    BY <2>2, <2>4, <2>5, <2>6, OneFdOrder
<1>6. CASE WriteAll(fd) \/ WatchInputFails(fd)
  <2> DEFINE q == peer[fd].writeBuf
             p == [peer[fd] EXCEPT !.isWriting = FALSE, !.writeBuf = <<>>]
             s == SockWrote(sock[fd], q, 0)
             t == [s EXCEPT !.interest = "in"]
  <2>1. fd \in live
    BY <1>6 DEF WriteAll, WatchInputFails, WritingEvent
  <2>2. ~(peer[fd].handshake > 1)
    <3>1. peer[fd].handshake \in {0, 1}
      BY <1>1 DEF PeerType
    <3>2. QED
      BY <3>1
  <2>3. 0 \in 0 .. Len(q)
    BY <1>2
  <2>4. /\ Unwritten(q, 0) = <<>> /\ s \in SockType
        /\ s.inq = sock[fd].inq /\ t.inq = s.inq /\ t.sent = s.sent
    <3>1. Unwritten(q, 0) = <<>> /\ s \in SockType
      <4> HIDE DEF q
      <4>1. QED
        BY <1>1, <1>2, <2>3, WriteProperties DEF q
    <3>2. s.inq = sock[fd].inq
      BY <1>1 DEF SockWrote, SockType
    <3> HIDE DEF s
    <3>3. QED
      BY <3>1, <3>2 DEF SockType
  <2>5. p \in PeerType /\ p.writeBuf = Unwritten(q, 0) /\ p.buf = peer[fd].buf
        /\ p.handshake = peer[fd].handshake /\ p.raw = peer[fd].raw
        /\ p.ctrl = peer[fd].ctrl /\ p.macCollected = peer[fd].macCollected
    BY <1>1, <2>4, EmptySeq DEF PeerType
  <2>6. /\ peer' = [peer EXCEPT ![fd] = p]
        /\ sock' = [sock EXCEPT ![fd] = s] \/ sock' = [sock EXCEPT ![fd] = t]
    BY <1>6, <2>2 DEF WriteAll, WatchInputFails
  <2>7. live' = live /\ cur' = NoFd
    BY <1>6, <2>2 DEF WriteAll, WatchInputFails, Return
  <2> HIDE DEF p
  <2>8. OrderInv(p, s)
    BY <1>1, <2>3, <2>4, <2>5, WrittenOrder
  <2>9. OrderInv(p, t)
    <3> HIDE DEF t
    <3>1. QED
      BY <1>1, <2>3, <2>4, <2>5, WrittenOrder
  <2> HIDE DEF s, t
  <2>10. QED
    BY <2>1, <2>6, <2>7, <2>8, <2>9, OneFdOrder
<1>7. CASE ReadMessages(fd)
  <2> DEFINE q == sock[fd].inq
  <2>1. PICK k \in 1 .. (IF peer[fd].raw THEN 1 ELSE Len(q)) :
          /\ peer' = [peer EXCEPT ![fd].buf = @ \o SubSeq(q, 1, k)]
          /\ sock' = [sock EXCEPT ![fd].inq = SubSeq(q, k + 1, Len(q))]
    BY <1>7 DEF ReadMessages
  <2>2. q # <<>> /\ fd \in live /\ live' = live /\ cur' = fd
    BY <1>7 DEF ReadMessages, ReadingEvent
  <2>3. Len(q) \in Nat \ {0}
    BY <1>1, <2>2, EmptySeq DEF SockType
  <2>4. k \in 1 .. Len(q)
    BY <2>3
  <2> DEFINE p == [peer[fd] EXCEPT !.buf = @ \o SubSeq(q, 1, k)]
             s == [sock[fd] EXCEPT !.inq = SubSeq(q, k + 1, Len(q))]
  <2>5. OrderInv(p, s)
    BY <1>1, <2>2, <2>4, ReadOrder
  <2>6. peer' = [peer EXCEPT ![fd] = p] /\ sock' = [sock EXCEPT ![fd] = s]
    BY <2>1
  <2> HIDE DEF p, s
  <2>7. QED
    BY <2>2, <2>5, <2>6, OneFdOrder
<1>8. QED
  BY <1>3, <1>4, <1>5, <1>6, <1>7 DEF EventStep

\* The peers of dead destroyed, and one other peer and its socket changed.
LEMMA DestroyAndOneFdOrder ==
    ASSUME IInv, Ordered, NEW dead, NEW fd \in live, NEW p, NEW s, OrderInv(p, s),
           peer' = [g \in Fds |-> IF g \in dead THEN FreshPeer ELSE IF g = fd THEN p ELSE peer[g]],
           sock' = [g \in Fds |-> IF g \in dead THEN FreshSock ELSE IF g = fd THEN s ELSE sock[g]]
    PROVE  Ordered'
<1>1. live \subseteq Fds
  BY DEF IInv, TypeOK
<1>2. \A g \in Fds : OrderInv(peer'[g], sock'[g])
  BY FreshOrder DEF Ordered
<1>3. QED
  BY <1>2 DEF Ordered

\* A handshake or control request.
LEMMA HandshakeOrder ==
    ASSUME IInv, Ordered, NEW fd \in Fds,
           HandshakeFails(fd) \/ HandshakeUpgrade(fd)
             \/ Control(fd) \/ ControlFault(fd) \/ ControlFails(fd)
    PROVE  Ordered'
<1>1. /\ TypeOK /\ FdInv(peer[fd], sock[fd]) /\ OrderInv(peer[fd], sock[fd])
      /\ peer[fd] \in PeerType /\ sock[fd] \in SockType
  BY DEF IInv, TypeOK, Ordered
<1>2. fd \in live /\ peer[fd].handshake = 0 /\ peer[fd].buf # <<>> /\ cur = fd
  <2>1. cur = fd /\ fault = "none" /\ peer[fd].handshake = 0 /\ peer[fd].buf # <<>>
    BY DEF HandshakeFails, HandshakeUpgrade, Control, ControlFault, ControlFails,
           ControlRequest, Shaking, Looping, Running
  <2>2. QED
    BY <2>1, FdFacts DEF IInv, LoopInv
<1>3. ASSUME NEW S, LoopFails(fd, S)
      PROVE  Ordered'
  BY <1>3, DestroyOrder DEF LoopFails, Return
<1>4. CASE HandshakeFails(fd)
  BY <1>3, <1>4 DEF HandshakeFails
<1>5. CASE ControlFails(fd)
  BY <1>3, <1>5 DEF ControlFails
<1>6. CASE ControlFault(fd)
  BY <1>6, QuietOrder DEF ControlFault
<1>7. CASE HandshakeUpgrade(fd)
  <2> DEFINE q == Append(peer[fd].writeBuf, Reply101)
             p == Upgraded(fd)
  <2>1. PICK left \in Outcomes(fd, q) :
            \/ left = -1 /\ LoopFails(fd, {})
            \/ /\ left = 0
               /\ peer' = [peer EXCEPT ![fd] =
                    [p EXCEPT !.handshake = 1, !.buf = Consumed(@), !.writeBuf = <<>>]]
               /\ sock' = [sock EXCEPT ![fd] = SockWrote(@, q, 0)]
               /\ UNCHANGED <<live, peersN, batch, cur, dirty, fault, world>>
            \/ /\ left > 0
               /\ peer' = [peer EXCEPT ![fd] =
                    [p EXCEPT !.isWriting = TRUE, !.writeBuf = Unwritten(q, left)]]
               /\ sock' = [sock EXCEPT ![fd] = SockBlocked(@, q, left)]
               /\ Return(fd, dirty)
               /\ UNCHANGED <<live, peersN, fault, world>>
    BY <1>7 DEF HandshakeUpgrade
  <2>2. ~BadPacket(fd) /\ ~Head(peer[fd].buf).ctrl
    BY <1>7 DEF HandshakeUpgrade, GoodUpgrade
  <2>3. q \in Seq(ItemType)
    BY <1>1, AppendProperties DEF PeerType, ItemType
  <2>4. left \in -1 .. Len(q) /\ Len(q) \in Nat
    BY <1>1, <2>3, OutcomesRange, LenProperties
  <2>5. CASE left = -1
    BY <1>3, <2>1, <2>5
  <2>6. CASE left = 0
    <3> DEFINE r == [p EXCEPT !.handshake = 1, !.buf = Consumed(@), !.writeBuf = <<>>]
               s == SockWrote(sock[fd], q, 0)
    <3>1. OrderInv(r, s) /\ ~p.ctrl
      <4>1. left \in 0 .. Len(q)
        BY <2>4, <2>6
      <4>2. QED
        BY <1>1, <1>2, <2>2, <2>6, <4>1, UpgradedOrder
    <3>2. ~r.ctrl
      BY <1>1, <1>2, <2>2, <3>1, UpgradedTyped DEF PeerType
    <3>3. /\ peer' = [peer EXCEPT ![fd] = r] /\ sock' = [sock EXCEPT ![fd] = s]
          /\ live' = live /\ cur' = fd
      BY <1>2, <2>1, <2>4, <2>6
    <3> HIDE DEF r, s
    <3>4. QED
      BY <1>2, <3>1, <3>2, <3>3, OneFdOrder
  <2>7. CASE left > 0
    <3> DEFINE r == [p EXCEPT !.isWriting = TRUE, !.writeBuf = Unwritten(q, left)]
               s == SockBlocked(sock[fd], q, left)
    <3>1. left \in 0 .. Len(q)
      BY <2>4, <2>7
    <3>2. OrderInv(r, s)
      BY <1>1, <1>2, <2>2, <3>1, UpgradedOrder
    <3>3. /\ peer' = [peer EXCEPT ![fd] = r] /\ sock' = [sock EXCEPT ![fd] = s]
          /\ Return(fd, dirty) /\ live' = live
      <4>1. left # -1 /\ left # 0
        BY <2>4, <2>7
      <4>2. QED
        BY <2>1, <4>1
    <3>4. cur' = NoFd
      BY <3>3 DEF Return
    <3> HIDE DEF r, s
    <3>5. QED
      BY <1>2, <3>2, <3>3, <3>4, OneFdOrder
  <2>8. QED
    BY <2>4, <2>5, <2>6, <2>7
<1>8. CASE Control(fd)
  <2> DEFINE q == Append(peer[fd].writeBuf, Json)
             dead == Victims(fd)
  <2>1. PICK left \in Outcomes(fd, q) :
            \/ left <= 0 /\ LoopFails(fd, dead)
            \/ /\ left > 0
               /\ live' = live \ dead
               /\ peer' = [g \in Fds |->
                    IF g \in dead THEN FreshPeer
                    ELSE IF g = fd THEN [peer[fd] EXCEPT
                        !.ctrl = TRUE, !.vars = ParsedVars(fd), !.handshake = 1,
                        !.isWriting = TRUE, !.writeBuf = Unwritten(q, left)]
                    ELSE peer[g]]
               /\ sock' = [g \in Fds |->
                    IF g \in dead THEN FreshSock
                    ELSE IF g = fd THEN SockBlocked(sock[fd], q, left)
                    ELSE sock[g]]
               /\ Return(fd, dirty)
               /\ UNCHANGED <<peersN, fault, world>>
    BY <1>8 DEF Control
  <2>2. Head(peer[fd].buf).ctrl
    BY <1>8 DEF Control, ControlRequest
  <2>3. q \in Seq(ItemType)
    BY <1>1, AppendProperties DEF PeerType, ItemType
  <2>4. left \in -1 .. Len(q) /\ Len(q) \in Nat
    BY <1>1, <2>3, OutcomesRange, LenProperties
  <2>5. CASE left <= 0
    BY <1>3, <2>1, <2>4, <2>5
  <2>6. CASE left > 0
    <3> DEFINE r == [peer[fd] EXCEPT
                       !.ctrl = TRUE, !.vars = ParsedVars(fd), !.handshake = 1,
                       !.isWriting = TRUE, !.writeBuf = Unwritten(q, left)]
               s == SockBlocked(sock[fd], q, left)
    <3>1. left \in 0 .. Len(q)
      BY <2>4, <2>6
    <3>2. OrderInv(r, s)
      BY <1>1, <1>2, <2>2, <3>1, ControlledOrder
    <3>3. /\ live' = live \ dead /\ Return(fd, dirty)
          /\ peer' = [g \in Fds |-> IF g \in dead THEN FreshPeer ELSE IF g = fd THEN r ELSE peer[g]]
          /\ sock' = [g \in Fds |-> IF g \in dead THEN FreshSock ELSE IF g = fd THEN s ELSE sock[g]]
      <4>1. ~(left <= 0)
        BY <2>4, <2>6
      <4>2. QED
        BY <2>1, <4>1
    <3>4. cur' = NoFd /\ live' \subseteq live
      BY <3>3 DEF Return
    <3> HIDE DEF r, s, dead
    <3>5. QED
      BY <1>2, <3>2, <3>3, <3>4, DestroyAndOneFdOrder
  <2>7. QED
    BY <2>4, <2>5, <2>6
<1>9. QED
  BY <1>4, <1>5, <1>6, <1>7, <1>8

\* A message is only taken from a client that is no control client.
LEMMA ReceivingClient ==
    ASSUME Ordered, NEW fd \in Fds, Receiving(fd)
    PROVE  ~peer[fd].ctrl
BY DEF Ordered, OrderInv, OutInv, Receiving, RequestLeft, RequestKept

\* A frame is forwarded: a control client is not among its recipients, and the
\* others have had their reply.
LEMMA ForwardOrder ==
    ASSUME IInv, Ordered, NEW fd \in live, cur = fd, Forward(fd)
    PROVE  Ordered'
<1> DEFINE m == Head(peer[fd].buf)
           to == Recipients(fd, m)
           q == [t \in to |-> Append(peer[t].writeBuf, Encoded(m, t))]
           learned == [peer EXCEPT ![fd] = Learned(Decapitated(fd), m.src)]
<1>1. /\ TypeOK /\ live \subseteq Fds /\ fd \in Fds /\ peer \in [Fds -> PeerType]
      /\ \A g \in Fds : FdInv(peer[g], sock[g]) /\ OrderInv(peer[g], sock[g])
      /\ ~peer[fd].ctrl
  BY ReceivingClient DEF IInv, TypeOK, Ordered, Forward
<1>2. peer[fd].handshake > 0 /\ peer[fd].buf # <<>> /\ m.type = "frame"
  BY DEF Forward, Receiving
<1>3. m.src \in Macs /\ m.dst \in Macs
  <2>1. peer[fd].buf \in Seq(RequestType \cup MessageType)
    BY <1>1 DEF PeerType
  <2>2. m \in RequestType \cup MessageType
    BY <1>2, <2>1, HeadTailProperties
  <2>3. QED
    BY <1>2, <2>2 DEF RequestType, MessageType, FrameType, Ping, Short, Close
<1>4. PICK left \in [to -> UNION {Outcomes(t, q[t]) : t \in to}] :
        LET dead == {t \in to : left[t] = -1}
        IN /\ \A t \in to : left[t] \in Outcomes(t, q[t])
           /\ live' = live \ dead
           /\ peer' = [g \in Fds |->
                IF g \in dead THEN FreshPeer
                ELSE IF g \in to
                THEN [learned[g] EXCEPT !.writeBuf = Unwritten(q[g], left[g])]
                ELSE learned[g]]
           /\ sock' = [g \in Fds |->
                IF g \in dead THEN FreshSock
                ELSE IF g \in to THEN SockForwarded(g, q[g], left[g])
                ELSE sock[g]]
  BY DEF Forward
<1> DEFINE dead == {t \in to : left[t] = -1}
<1>5. to \subseteq Fds /\ \A t \in to : peer[t].macCollected
  BY <1>1, RecipientsKnown
<1>6. \A g \in Fds : /\ FdInv(learned[g], sock[g]) /\ OrderInv(learned[g], sock[g])
                     /\ learned[g].writeBuf = peer[g].writeBuf
                     /\ g = fd => ~learned[g].ctrl
                     /\ peer[g].macCollected =>
                          ~learned[g].ctrl /\ (learned[g].raw \/ Out(learned[g], sock[g]) # <<>>)
  <2> SUFFICES ASSUME NEW g \in Fds
               PROVE  /\ FdInv(learned[g], sock[g]) /\ OrderInv(learned[g], sock[g])
                      /\ learned[g].writeBuf = peer[g].writeBuf
                      /\ g = fd => ~learned[g].ctrl
                      /\ peer[g].macCollected =>
                           ~learned[g].ctrl /\ (learned[g].raw \/ Out(learned[g], sock[g]) # <<>>)
    OBVIOUS
  <2>1. learned[g] = IF g = fd THEN Learned(Decapitated(fd), m.src) ELSE peer[g]
    BY <1>1
  <2> HIDE DEF learned, m
  <2>2. CASE g = fd
    <3> DEFINE l == Learned(Decapitated(fd), m.src)
    <3>1. /\ FdInv(l, sock[fd]) /\ OrderInv(l, sock[fd]) /\ ~l.ctrl
          /\ l.writeBuf = peer[fd].writeBuf /\ l.handshake > 0
      BY <1>1, <1>2, <1>3, ConsumedFd, ConsumedOrder
    <3>2. l.raw \/ Out(l, sock[fd]) # <<>>
      BY <3>1 DEF OrderInv, OutInv
    <3> HIDE DEF l
    <3>3. QED
      BY <2>1, <2>2, <3>1, <3>2 DEF l
  <2>3. CASE g # fd
    BY <1>1, <2>1, <2>3 DEF OrderInv, OutInv
  <2>4. QED
    BY <2>2, <2>3
<1> DEFINE after(g) == [learned[g] EXCEPT !.writeBuf = Unwritten(q[g], left[g])]
<1>7. \A t \in to : t \notin dead => OrderInv(after(t), SockForwarded(t, q[t], left[t]))
  <2> SUFFICES ASSUME NEW t \in to, t \notin dead
               PROVE  OrderInv([learned[t] EXCEPT !.writeBuf = Unwritten(q[t], left[t])],
                               SockForwarded(t, q[t], left[t]))
    OBVIOUS
  <2> DEFINE item == Encoded(m, t)
  <2>1. item \in ItemType
    BY <1>3 DEF Encoded, ItemType
  <2>2. t \in Fds /\ q[t] = Append(learned[t].writeBuf, item) /\ peer[t].macCollected
    BY <1>5, <1>6
  <2>3. q[t] \in Seq(ItemType)
    <3>1. learned[t].writeBuf \in Seq(ItemType)
      BY <1>6, <2>2 DEF FdInv, PeerType
    <3>2. QED
      BY <2>1, <2>2, <3>1, AppendProperties
  <2>4. left[t] \in 0 .. Len(q[t])
    <3>1. left[t] \in Outcomes(t, q[t]) /\ left[t] # -1
      BY <1>4
    <3>2. left[t] \in -1 .. Len(q[t]) /\ Len(q[t]) \in Nat
      BY <1>1, <2>2, <2>3, <3>1, OutcomesRange, LenProperties
    <3>3. QED
      BY <3>1, <3>2
  <2> HIDE DEF learned, q, item
  <2>5. QED
    BY <1>6, <2>1, <2>2, <2>4, ForwardedOrder
<1>8. \A g \in Fds : learned[g] \in PeerType /\ after(g).ctrl = learned[g].ctrl
  <2>1. \A g \in Fds : learned[g] \in PeerType
    BY <1>6 DEF FdInv
  <2>2. QED
    BY <2>1 DEF PeerType
<1> HIDE DEF m, to, q, learned, after
<1>9. \A g \in Fds : /\ peer'[g] = IF g \in dead THEN FreshPeer
                                   ELSE IF g \in to THEN after(g) ELSE learned[g]
                     /\ sock'[g] = IF g \in dead THEN FreshSock
                                   ELSE IF g \in to THEN SockForwarded(g, q[g], left[g])
                                   ELSE sock[g]
  BY <1>4 DEF after
<1> HIDE DEF dead
<1>10. \A g \in Fds : OrderInv(peer'[g], sock'[g])
  BY <1>6, <1>7, <1>9, FreshOrder
<1>11. QED
  BY <1>10 DEF Ordered

\* A message of a peer past its handshake, or the end of the "again" loop.
LEMMA FrameOrder ==
    ASSUME IInv, Ordered, NEW fd \in Fds,
           \/ LoopEnds(fd) \/ Misread(fd)
           \/ ReceiveClose(fd) \/ Ignore(fd) \/ LearnFails(fd) \/ Forward(fd)
    PROVE  Ordered'
<1>1. /\ FdInv(peer[fd], sock[fd]) /\ OrderInv(peer[fd], sock[fd])
      /\ sock \in [Fds -> SockType]
  BY DEF IInv, TypeOK, Ordered
<1>2. fd \in live /\ cur = fd
  <2>1. cur = fd /\ fault = "none"
    BY DEF LoopEnds, Misread, ReceiveClose, Ignore, LearnFails, Forward, Receiving, Looping, Running
  <2>2. QED
    BY <2>1, FdFacts DEF IInv, LoopInv
<1>3. CASE LoopEnds(fd) \/ Misread(fd)
  BY <1>3, QuietOrder DEF LoopEnds, Misread
<1>4. CASE ReceiveClose(fd) \/ LearnFails(fd)
  BY <1>4, DestroyOrder DEF ReceiveClose, LearnFails, LoopFails, Return
<1>5. CASE Ignore(fd)
  <2> DEFINE p == Decapitated(fd)
             s == sock[fd]
  <2>1. /\ peer' = [peer EXCEPT ![fd] = p] /\ UNCHANGED <<live, sock, cur>>
        /\ peer[fd].handshake > 0 /\ peer[fd].buf # <<>> /\ ~peer[fd].ctrl
    BY <1>5, ReceivingClient DEF Ignore, Receiving
  <2>2. OrderInv(p, s) /\ ~p.ctrl
    <3>1. Broadcast \in Macs
      BY DEF Macs
    <3>2. QED
      BY <1>1, <1>2, <2>1, <3>1, ConsumedOrder
  <2>3. sock' = [sock EXCEPT ![fd] = s] /\ live' = live /\ cur' = fd
    BY <1>1, <1>2, <2>1
  <2> HIDE DEF p, s
  <2>4. QED
    BY <1>2, <2>1, <2>2, <2>3, OneFdOrder
<1>6. CASE Forward(fd)
  BY <1>2, <1>6, ForwardOrder
<1>7. QED
  BY <1>3, <1>4, <1>5, <1>6

\* A socket of a live peer changes in the world outside, nothing else of it.
LEMMA SocketOrder ==
    ASSUME IInv, Ordered, NEW fd \in live, NEW s, OrderInv(peer[fd], s),
           sock' = [sock EXCEPT ![fd] = s], UNCHANGED <<live, peer, cur>>
    PROVE  Ordered'
<1>1. \A g \in Fds : sock'[g] = IF g = fd THEN s ELSE sock[g]
  BY DEF IInv, TypeOK
<1>2. \A g \in Fds : OrderInv(peer'[g], sock'[g])
  BY <1>1 DEF Ordered
<1>3. QED
  BY <1>2 DEF Ordered

\* Clients and the kernel at the other end of the tap device.
LEMMA ClientOrder == ASSUME IInv, Ordered, ClientStep PROVE Ordered'
<1>1. /\ live \subseteq Fds /\ sock \in [Fds -> SockType]
      /\ \A fd \in Fds : FdInv(peer[fd], sock[fd]) /\ OrderInv(peer[fd], sock[fd])
  BY DEF IInv, TypeOK, Ordered
<1>2. CASE Connect
  BY <1>2, QuietOrder DEF Connect
<1>3. ASSUME NEW fd \in live, NEW m \in MessageType, Sends(fd, m)
      PROVE  Ordered'
  <2> DEFINE s == [sock[fd] EXCEPT !.inq = Append(@, m)]
  <2>1. OrderInv(peer[fd], s)
    BY <1>1, <1>3, SentOrder
  <2>2. sock' = [sock EXCEPT ![fd] = s] /\ UNCHANGED <<live, peer, cur>>
    BY <1>3 DEF Sends
  <2> HIDE DEF s
  <2>3. QED
    BY <2>1, <2>2, SocketOrder
<1>4. ASSUME NEW fd \in Fds, NEW m \in Messages, ClientSends(fd, m)
      PROVE  Ordered'
  <2>1. fd \in live /\ Sends(fd, m) /\ m \in MessageType
    BY <1>4, TrafficAssumption DEF ClientSends
  <2>2. QED
    BY <1>3, <2>1
<1>5. ASSUME NEW m \in TapFrames, TapReceives(m)
      PROVE  Ordered'
  <2>1. TapFd \in live /\ peer[TapFd].raw /\ Sends(TapFd, m) /\ m \in MessageType
    BY <1>5, TrafficAssumption DEF TapReceives, MessageType
  <2>2. QED
    BY <1>3, <2>1
<1>6. ASSUME NEW fd \in Fds, Drain(fd) \/ Hangup(fd)
      PROVE  Ordered'
  <2>1. PICK s : /\ s = [sock[fd] EXCEPT !.full = FALSE] \/ s = [sock[fd] EXCEPT !.hup = TRUE]
                 /\ sock' = [sock EXCEPT ![fd] = s]
    BY <1>6 DEF Drain, Hangup
  <2>2. s.inq = sock[fd].inq /\ s.sent = sock[fd].sent
    BY <1>1, <2>1 DEF SockType
  <2>3. In(peer[fd], s) = In(peer[fd], sock[fd]) /\ Out(peer[fd], s) = Out(peer[fd], sock[fd])
    BY <2>2 DEF In, Out
  <2>4. OrderInv(peer[fd], s)
    BY <1>1, <2>2, <2>3 DEF OrderInv, InInv, OutInv
  <2>5. fd \in live /\ UNCHANGED <<live, peer, cur>>
    BY <1>6 DEF Drain, Hangup
  <2>6. QED
    BY <2>1, <2>4, <2>5, SocketOrder
<1>7. ASSUME NEW fd \in Fds, NEW r \in Requests, ClientRequests(fd, r)
      PROVE  Ordered'
  <2> DEFINE s == [sock[fd] EXCEPT !.inq = <<r>>]
  <2>1. fd \in live /\ r \in RequestType /\ peer[fd].handshake = 0 /\ peer[fd].buf = <<>>
    BY <1>7, TrafficAssumption DEF ClientRequests
  <2>2. OrderInv(peer[fd], s)
    BY <1>1, <2>1, RequestedOrder
  <2>3. sock' = [sock EXCEPT ![fd] = s] /\ UNCHANGED <<live, peer, cur>>
    BY <1>7 DEF ClientRequests
  <2> HIDE DEF s
  <2>4. QED
    BY <2>1, <2>2, <2>3, SocketOrder
<1>8. QED
  BY <1>2, <1>4, <1>5, <1>6, <1>7 DEF ClientStep

LEMMA NextOrder == IInv /\ Ordered /\ [Next]_vars => Ordered'
<1> SUFFICES ASSUME IInv, Ordered, [Next]_vars PROVE Ordered'
  OBVIOUS
<1>1. CASE ServerStep
  <2>1. CASE Wait \/ AcceptFails \/ CreateFails
    BY <2>1, QuietOrder DEF Wait, AcceptFails, CreateFails, Return
  <2>2. CASE Accept
    BY <2>2, AcceptOrder
  <2>3. ASSUME NEW fd \in Fds, EventStep(fd) PROVE Ordered'
    BY <2>3, EventOrder
  <2>4. ASSUME NEW fd \in Fds, LoopStep(fd) PROVE Ordered'
    BY <2>4, HandshakeOrder, FrameOrder DEF LoopStep
  <2>5. QED
    BY <1>1, <2>1, <2>2, <2>3, <2>4 DEF ServerStep
<1>2. CASE ClientStep
  BY <1>2, ClientOrder
<1>3. CASE UNCHANGED vars
  BY <1>3, QuietOrder DEF vars
<1>4. QED
  BY <1>1, <1>2, <1>3 DEF Next

-----------------------------------------------------------------------------
(* The theorems *)

\* What comes in and goes out of every peer keeps its order, in every state.
THEOREM OrderInvariance == Spec => [](IInv /\ Ordered)
<1>1. Init => IInv /\ Ordered
  BY InitInv, InitOrder
<1>2. IInv /\ Ordered /\ [Next]_vars => (IInv /\ Ordered)'
  BY NextInv, NextOrder
<1>3. QED
  BY <1>1, <1>2, PTL DEF Spec

\* The uwsgi parser is only ever run on a request, also when it is run again
\* because the reply was blocked, and the websocket parser never on the request
\* of a websocket client.
THEOREM ParserCorrect == Spec => []RightParser
<1>1. ASSUME IInv, Ordered PROVE RightParser
  <2> SUFFICES ASSUME NEW fd \in live, cur = fd, peer[fd].buf # <<>>
               PROVE  /\ peer[fd].handshake = 0 => Head(peer[fd].buf) \in RequestType
                      /\ RequestLeft(fd) => peer[fd].ctrl
    BY DEF RightParser
  <2> DEFINE p == peer[fd]
             s == sock[fd]
  <2>1. p \in PeerType /\ s \in SockType /\ FdInv(p, s) /\ OrderInv(p, s)
    BY <1>1 DEF IInv, TypeOK, Ordered
  <2>2. p.handshake = 0 => Head(p.buf) \in RequestType
    BY <2>1 DEF FdInv, ShakeInv
  <2>3. ASSUME p.handshake # 0, ~p.ctrl PROVE Head(p.buf) \notin RequestType
    <3>1. MessagesFrom(In(p, s), 1)
      BY <2>1, <2>3 DEF OrderInv, InInv
    <3>2. In(p, s)[1] = p.buf[1] /\ 1 \in 1 .. Len(In(p, s))
      <4>1. /\ Len(p.buf) \in Nat /\ Len(s.inq) \in Nat /\ Len(p.buf) > 0
            /\ Len(In(p, s)) = Len(p.buf) + Len(s.inq)
            /\ \A i \in 1 .. Len(p.buf) + Len(s.inq) :
                  In(p, s)[i] = IF i <= Len(p.buf) THEN p.buf[i] ELSE s.inq[i - Len(p.buf)]
        BY <2>1, InOutTyped
      <4> DEFINE n == Len(p.buf)
                 m == Len(s.inq)
      <4>2. n \in Nat /\ m \in Nat /\ n > 0
        BY <4>1
      <4> HIDE DEF n, m
      <4>3. 1 \in 1 .. n + m /\ 1 <= n
        BY <4>2
      <4>4. QED
        BY <4>1, <4>3 DEF n, m
    <3>3. Head(p.buf) \in MessageType
      BY <3>1, <3>2 DEF MessagesFrom
    <3>4. MessageType \cap RequestType = {}
      BY DEF MessageType, RequestType, FrameType, Ping, Short, Close
    <3>5. QED
      BY <3>3, <3>4
  <2>4. QED
    BY <2>1, <2>2, <2>3 DEF RequestLeft, PeerType
<1>2. QED
  BY <1>1, OrderInvariance, PTL

\* Nothing is written to a client before the reply to its request, although its
\* address may be known and frames forwarded to it while that reply is blocked,
\* and a control client gets its JSON reply and nothing more.
THEOREM ReplyIsFirst == Spec => []ReplyFirst
<1>1. ASSUME IInv, Ordered PROVE ReplyFirst
  <2> SUFFICES ASSUME NEW fd \in live, ~peer[fd].raw, Output(fd) # <<>>
               PROVE  /\ Output(fd)[1] \in {Reply101, Json}
                      /\ peer[fd].ctrl => Output(fd) = <<Json>>
    BY DEF ReplyFirst
  <2> DEFINE p == peer[fd]
             s == sock[fd]
  <2>1. p \in PeerType /\ s \in SockType /\ OrderInv(p, s) /\ Output(fd) = Out(p, s)
    BY <1>1 DEF IInv, TypeOK, Ordered, Output, Out
  <2>2. Output(fd)[1] = IF p.ctrl THEN Json ELSE Reply101
    BY <2>1 DEF OrderInv, OutInv
  <2>3. ASSUME p.ctrl PROVE Output(fd) = <<Json>>
    <3> DEFINE o == Output(fd)
    <3>1. o \in Seq(ItemType) /\ Len(o) = 1 /\ o[1] = Json
      BY <2>1, <2>2, <2>3, InOutTyped DEF OrderInv, OutInv
    <3>2. <<Json>> \in Seq(ItemType) /\ Len(<<Json>>) = 1 /\ <<Json>>[1] = Json
      BY DEF ItemType
    <3> HIDE DEF o
    <3>3. o = <<Json>>
      <4>1. \A i \in 1 .. Len(o) : o[i] = <<Json>>[i]
        BY <3>1, <3>2
      <4>2. QED
        BY <3>1, <3>2, <4>1, SeqEqual
    <3>4. QED
      BY <3>3 DEF o
  <2>4. QED
    BY <2>2, <2>3
<1>2. QED
  BY <1>1, OrderInvariance, PTL
=============================================================================
