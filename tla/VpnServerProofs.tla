-------------------------- MODULE VpnServerProofs --------------------------
(***************************************************************************)
(* Proofs about VpnServer for every number of descriptors, connections and  *)
(* messages.  The inductive invariant IInv says of each descriptor, peer    *)
(* and socket together, what the handlers rely on (FdInv), and of the loop   *)
(* what its variables point to (LoopInv).                                   *)
(***************************************************************************)
EXTENDS VpnServer, SequenceTheorems, TLAPS

\* A peer that has not completed its handshake: the parser is on its request,
\* or the request has not arrived and the server has done nothing for it.
ShakeInv(p, s) ==
    /\ p.raw => p.handshake = 1
    /\ p.handshake = 0 /\ p.buf # <<>> => Head(p.buf) \in RequestType
    /\ p.handshake = 0 /\ p.buf = <<>> =>
         /\ ~p.isWriting /\ ~p.macCollected
         /\ p.writeBuf = <<>> /\ s.sent = <<>>
         /\ s.inq # <<>> => Head(s.inq) \in RequestType

WatchInv(p, s) == p.isWriting \/ p.writeBuf # <<>> => s.interest = "out"

FdInv(p, s) == p \in PeerType /\ s \in SockType /\ WatchInv(p, s) /\ ShakeInv(p, s)

LoopInv ==
    /\ fault = "none" => cur \in live \cup {NoFd}
    /\ cur \in live => ~peer[cur].isWriting

IInv ==
    /\ TypeOK /\ TableOK /\ LoopInv
    /\ \A fd \in Fds : FdInv(peer[fd], sock[fd])

\* The descriptors are natural numbers; neither NoFd nor ServerFd is one.
LEMMA FdFacts ==
    /\ TapFd \in Fds /\ NoFd \notin Fds /\ ServerFd \notin Fds /\ NoFd # ServerFd
    /\ \A fd \in Fds : fd \in Nat /\ fd <= LastFd
    /\ LastFd \in Nat /\ ServerFd \in Nat
BY FdsAssumption DEF Fds, TapFd, NoFd

-----------------------------------------------------------------------------
(* Writing a queue of items *)

\* What a write leaves behind and what it adds to the history are sequences of
\* items; a complete write leaves nothing behind.
LEMMA WriteProperties ==
    ASSUME NEW q \in Seq(ItemType), NEW left \in 0 .. Len(q), NEW s \in SockType
    PROVE  /\ Unwritten(q, left) \in Seq(ItemType)
           /\ left = 0 => Unwritten(q, left) = <<>>
           /\ SockWrote(s, q, left) \in SockType
           /\ SockBlocked(s, q, left) \in SockType
           /\ SockWrote(s, q, left).interest = s.interest
           /\ SockBlocked(s, q, left).interest = "out"
<1>1. Len(q) \in Nat /\ \A i \in 1 .. Len(q) : q[i] \in ItemType
  BY ElementOfSeq, LenProperties
<1>2. Unwritten(q, left) \in Seq(ItemType)
  <2>1. \A i \in Len(q) - left + 1 .. Len(q) : q[i] \in ItemType
    BY <1>1
  <2>2. QED
    BY <1>1, <2>1, SubSeqProperties DEF Unwritten
<1>3. left = 0 => Unwritten(q, left) = <<>>
  BY <1>1, SubSeqEmpty DEF Unwritten
<1>4. SubSeq(q, 1, Len(q) - left) \in Seq(ItemType)
  <2>1. \A i \in 1 .. Len(q) - left : q[i] \in ItemType
    BY <1>1
  <2>2. QED
    BY <1>1, <2>1, SubSeqProperties
<1>5. s.sent \o SubSeq(q, 1, Len(q) - left) \in Seq(ItemType)
  BY <1>4, ConcatProperties DEF SockType
<1>6. QED
  BY <1>2, <1>3, <1>5 DEF SockWrote, SockBlocked, SockType

\* A write fails or leaves between nothing and everything behind.
LEMMA OutcomesRange ==
    ASSUME TypeOK, NEW fd \in Fds, NEW q \in Seq(ItemType)
    PROVE  Outcomes(fd, q) \subseteq -1 .. Len(q)
<1>1. Len(q) \in Nat
  BY LenProperties
<1>2. peer[fd] \in PeerType /\ sock[fd] \in SockType
  BY DEF TypeOK
<1>3. QED
  BY <1>1, <1>2 DEF Outcomes

-----------------------------------------------------------------------------
(* FdInv is preserved by what the steps do to one peer and its socket *)

LEMMA FreshFd == FdInv(FreshPeer, FreshSock)
BY MacClasses, OptionsAssumption DEF FdInv, FreshPeer, FreshSock, PeerType, SockType,
   WatchInv, ShakeInv, Macs

LEMMA TapFdInv == FdInv(TapPeer, FreshSock)
<1>1. FreshPeer \in PeerType /\ FreshSock \in SockType
  BY FreshFd DEF FdInv
<1>2. TapPeer \in PeerType
  BY <1>1, OptionsAssumption DEF TapPeer, PeerType
<1>3. TapPeer.handshake = 1 /\ ~TapPeer.isWriting /\ TapPeer.writeBuf = <<>>
  BY DEF TapPeer, FreshPeer
<1>4. QED
  BY <1>1, <1>2, <1>3 DEF FdInv, WatchInv, ShakeInv

LEMMA WriteSomeFd ==
    ASSUME NEW p, NEW s, FdInv(p, s), p.isWriting, NEW left \in 0 .. Len(p.writeBuf)
    PROVE  FdInv([p EXCEPT !.writeBuf = Unwritten(p.writeBuf, left)],
                 SockWrote(s, p.writeBuf, left))
<1>1. p \in PeerType /\ s \in SockType /\ p.writeBuf \in Seq(ItemType)
  BY DEF FdInv, PeerType
<1>2. SockWrote(s, p.writeBuf, left).inq = s.inq
  BY <1>1 DEF SockWrote, SockType
<1>3. QED
  BY <1>1, <1>2, WriteProperties DEF FdInv, PeerType, WatchInv, ShakeInv

LEMMA WriteAllFd ==
    ASSUME NEW p, NEW s, FdInv(p, s), p.isWriting
    PROVE  LET p1 == [p EXCEPT !.isWriting = FALSE, !.writeBuf = <<>>]
               s1 == SockWrote(s, p.writeBuf, 0)
           IN FdInv(p1, s1) /\ FdInv(p1, [s1 EXCEPT !.interest = "in"])
<1>1. p \in PeerType /\ s \in SockType /\ p.writeBuf \in Seq(ItemType) /\ Len(p.writeBuf) \in Nat
  BY LenProperties DEF FdInv, PeerType
<1>2. SockWrote(s, p.writeBuf, 0) \in SockType
  BY <1>1, WriteProperties
<1>3. p.handshake = 0 => p.buf # <<>> /\ Head(p.buf) \in RequestType
  BY DEF FdInv, ShakeInv
<1>4. p.raw => p.handshake = 1
  BY DEF FdInv, ShakeInv
<1>5. [p EXCEPT !.isWriting = FALSE, !.writeBuf = <<>>] \in PeerType
  BY <1>1, EmptySeq DEF PeerType
<1>6. QED
  BY <1>1, <1>2, <1>3, <1>4, <1>5 DEF FdInv, PeerType, SockType, WatchInv, ShakeInv

LEMMA ReadFd ==
    ASSUME NEW p, NEW s, FdInv(p, s), s.inq # <<>>, NEW k \in 1 .. Len(s.inq)
    PROVE  FdInv([p EXCEPT !.buf = @ \o SubSeq(s.inq, 1, k)],
                 [s EXCEPT !.inq = SubSeq(s.inq, k + 1, Len(s.inq))])
<1> DEFINE Bytes == RequestType \cup MessageType
           got == SubSeq(s.inq, 1, k)
           rest == SubSeq(s.inq, k + 1, Len(s.inq))
<1>1. p \in PeerType /\ s \in SockType /\ p.buf \in Seq(Bytes) /\ s.inq \in Seq(Bytes)
  BY DEF FdInv, PeerType, SockType
<1>2. Len(s.inq) \in Nat /\ \A i \in 1 .. Len(s.inq) : s.inq[i] \in Bytes
  BY <1>1, ElementOfSeq, LenProperties
<1>3. got \in Seq(Bytes) /\ Len(got) = k /\ got[1] = s.inq[1]
  <2>1. \A i \in 1 .. k : s.inq[i] \in Bytes
    BY <1>2
  <2>2. QED
    BY <1>2, <2>1, SubSeqProperties
<1>4. rest \in Seq(Bytes)
  <2>1. \A i \in k + 1 .. Len(s.inq) : s.inq[i] \in Bytes
    BY <1>2
  <2>2. QED
    BY <1>2, <2>1, SubSeqProperties
<1>5. p.buf \o got \in Seq(Bytes) /\ p.buf \o got # <<>>
  <2>1. p.buf \o got \in Seq(Bytes) /\ Len(p.buf \o got) = Len(p.buf) + k
    BY <1>1, <1>3, ConcatProperties
  <2>2. Len(p.buf) \in Nat
    BY <1>1, LenProperties
  <2>3. QED
    BY <2>1, <2>2, EmptySeq
<1>6. Head(p.buf \o got) = IF p.buf = <<>> THEN Head(s.inq) ELSE Head(p.buf)
  <2>1. CASE p.buf = <<>>
    BY <2>1, <1>1, <1>3, ConcatEmptySeq
  <2>2. CASE p.buf # <<>>
    BY <2>2, <1>1, <1>3, ConcatProperties, LenProperties, EmptySeq
  <2>3. QED
    BY <2>1, <2>2
<1>7. p.handshake = 0 => Head(p.buf \o got) \in RequestType
  BY <1>6 DEF FdInv, ShakeInv
<1> HIDE DEF got, rest, Bytes
<1>8. QED
  BY <1>1, <1>4, <1>5, <1>7 DEF FdInv, PeerType, SockType, WatchInv, ShakeInv, got, rest, Bytes

\* Reading the address out of a request leaves a request at the head.
LEMMA AddressReadProperties ==
    ASSUME NEW b \in Seq(RequestType \cup MessageType), b # <<>>, Head(b) \in RequestType
    PROVE  /\ AddressRead(b) \in Seq(RequestType \cup MessageType)
           /\ AddressRead(b) # <<>>
           /\ Head(AddressRead(b)) \in RequestType
           /\ Tail(AddressRead(b)) \in Seq(RequestType \cup MessageType)
<1> DEFINE Bytes == RequestType \cup MessageType
<1>1. Len(b) \in Nat /\ Len(b) > 0 /\ Head(b) = b[1] /\ b[1] \in Bytes
  BY EmptySeq, LenProperties, HeadTailProperties
<1>2. SUFFICES /\ AddressRead(b) \in Seq(Bytes)
               /\ Len(AddressRead(b)) = Len(b)
               /\ AddressRead(b)[1] \in RequestType
  BY <1>1, EmptySeq, HeadTailProperties, LenProperties
<1>3. CASE Head(b).macAt = "inside"
  <2>1. [b[1] EXCEPT !.cut = TRUE] \in RequestType
    BY <1>1 DEF RequestType
  <2>2. AddressRead(b) = [b EXCEPT ![1] = [b[1] EXCEPT !.cut = TRUE]]
    BY <1>3 DEF AddressRead
  <2> DEFINE c == [b[1] EXCEPT !.cut = TRUE]
  <2>3. c \in Bytes /\ 1 \in 1 .. Len(b)
    BY <1>1, <2>1
  <2> HIDE DEF c
  <2>4. /\ [b EXCEPT ![1] = c] \in Seq(Bytes)
        /\ Len([b EXCEPT ![1] = c]) = Len(b)
        /\ \A j \in 1 .. Len(b) : [b EXCEPT ![1] = c][j] = IF j = 1 THEN c ELSE b[j]
    BY <2>3, ExceptSeq
  <2>5. QED
    BY <1>1, <2>1, <2>2, <2>3, <2>4 DEF c
<1>4. CASE Head(b).macAt = "last" /\ Len(b) > 1 /\ b[2] \in {Close, Ping}
  <2>1. AddressRead(b) = [b EXCEPT ![2] = Short]
    BY <1>4 DEF AddressRead
  <2>2. Short \in Bytes /\ 2 \in 1 .. Len(b)
    BY <1>1, <1>4 DEF MessageType
  <2>3. /\ [b EXCEPT ![2] = Short] \in Seq(Bytes)
        /\ Len([b EXCEPT ![2] = Short]) = Len(b)
        /\ \A j \in 1 .. Len(b) : [b EXCEPT ![2] = Short][j] = IF j = 2 THEN Short ELSE b[j]
    BY <2>2, ExceptSeq
  <2>4. QED
    BY <1>1, <2>1, <2>3
<1>5. CASE /\ Head(b).macAt # "inside"
           /\ ~(Head(b).macAt = "last" /\ Len(b) > 1 /\ b[2] \in {Close, Ping})
  <2>1. AddressRead(b) = b
    BY <1>5 DEF AddressRead
  <2>2. QED
    BY <1>1, <2>1
<1>6. QED
  BY <1>3, <1>4, <1>5

\* Only the writing state of the peer is left alone by an upgrade request.
LEMMA UpgradedTyped ==
    ASSUME NEW fd \in Fds, FdInv(peer[fd], sock[fd]),
           peer[fd].handshake = 0, peer[fd].buf # <<>>, ~BadPacket(fd)
    PROVE  /\ Upgraded(fd) \in PeerType
           /\ Upgraded(fd).buf = AddressRead(peer[fd].buf)
           /\ Upgraded(fd).isWriting = peer[fd].isWriting
           /\ ~Upgraded(fd).raw /\ Upgraded(fd).handshake = 0
<1> DEFINE r == Head(peer[fd].buf)
<1>1. peer[fd] \in PeerType /\ r \in RequestType /\ ~peer[fd].raw
  BY DEF FdInv, ShakeInv
<1>2. AddressRead(peer[fd].buf) \in Seq(RequestType \cup MessageType)
  BY <1>1, AddressReadProperties DEF PeerType
<1>3. ParsedVars(fd) \in 0 .. MaxVars
  BY <1>1, OptionsAssumption DEF BadPacket, ParsedVars, PeerType, RequestType
<1>4. r.mac \in Macs /\ r.bridge \in BOOLEAN
  BY <1>1 DEF RequestType
<1>5. Upgraded(fd) = [peer[fd] EXCEPT
          !.vars = ParsedVars(fd),
          !.mac = IF r.macAt = "absent" THEN @ ELSE r.mac,
          !.macCollected = @ \/ r.macAt # "absent",
          !.bridge = @ \/ r.bridge,
          !.buf = AddressRead(@)]
  BY DEF Upgraded
<1> HIDE DEF r
<1>6. QED
  BY <1>1, <1>2, <1>3, <1>4, <1>5 DEF PeerType

\* A request that is upgraded, its reply written or not.
LEMMA UpgradedFd ==
    ASSUME NEW fd \in Fds, FdInv(peer[fd], sock[fd]),
           peer[fd].handshake = 0, peer[fd].buf # <<>>, ~BadPacket(fd),
           NEW left \in 0 .. Len(Append(peer[fd].writeBuf, Reply101))
    PROVE  LET p == Upgraded(fd)
               q == Append(peer[fd].writeBuf, Reply101)
           IN /\ left = 0 =>
                   FdInv([p EXCEPT !.handshake = 1, !.buf = Consumed(@), !.writeBuf = <<>>],
                         SockWrote(sock[fd], q, 0))
              /\ FdInv([p EXCEPT !.isWriting = TRUE, !.writeBuf = Unwritten(q, left)],
                       SockBlocked(sock[fd], q, left))
<1> DEFINE r == Head(peer[fd].buf)
           p == Upgraded(fd)
           q == Append(peer[fd].writeBuf, Reply101)
<1>1. peer[fd] \in PeerType /\ sock[fd] \in SockType /\ r \in RequestType /\ ~peer[fd].raw
      /\ (peer[fd].isWriting \/ peer[fd].writeBuf # <<>> => sock[fd].interest = "out")
  BY DEF FdInv, ShakeInv, WatchInv
<1>2. q \in Seq(ItemType)
  BY <1>1, AppendProperties DEF PeerType, ItemType
<1>3. /\ AddressRead(peer[fd].buf) \in Seq(RequestType \cup MessageType)
      /\ AddressRead(peer[fd].buf) # <<>>
      /\ Head(AddressRead(peer[fd].buf)) \in RequestType
      /\ Tail(AddressRead(peer[fd].buf)) \in Seq(RequestType \cup MessageType)
  BY <1>1, AddressReadProperties DEF PeerType
<1>6. p \in PeerType /\ p.buf = AddressRead(peer[fd].buf) /\ ~p.raw /\ p.handshake = 0
      /\ p.isWriting = peer[fd].isWriting
  BY UpgradedTyped
<1> HIDE DEF p, q
<1>7. ASSUME left = 0
      PROVE  FdInv([p EXCEPT !.handshake = 1, !.buf = Consumed(@), !.writeBuf = <<>>],
                   SockWrote(sock[fd], q, 0))
  <2>1. SockWrote(sock[fd], q, 0) \in SockType
    BY <1>1, <1>2, <1>7, WriteProperties, LenProperties
  <2>2. [p EXCEPT !.handshake = 1, !.buf = Consumed(@), !.writeBuf = <<>>] \in PeerType
    BY <1>3, <1>6, EmptySeq DEF PeerType, Consumed
  <2>4. SockWrote(sock[fd], q, 0).interest = sock[fd].interest
    BY <1>1, <1>2, <1>7, WriteProperties, LenProperties
  <2>5. QED
    BY <1>1, <2>1, <2>2, <2>4, <1>6 DEF FdInv, WatchInv, ShakeInv, PeerType
<1>8. FdInv([p EXCEPT !.isWriting = TRUE, !.writeBuf = Unwritten(q, left)],
            SockBlocked(sock[fd], q, left))
  <2>1. /\ SockBlocked(sock[fd], q, left) \in SockType
        /\ SockBlocked(sock[fd], q, left).interest = "out"
        /\ Unwritten(q, left) \in Seq(ItemType)
    BY <1>1, <1>2, WriteProperties DEF q
  <2>2. [p EXCEPT !.isWriting = TRUE, !.writeBuf = Unwritten(q, left)] \in PeerType
    BY <1>6, <2>1 DEF PeerType
  <2>3. QED
    BY <1>3, <1>6, <2>1, <2>2 DEF FdInv, WatchInv, ShakeInv, PeerType
<1>9. QED
  BY <1>7, <1>8 DEF p, q

\* A control request whose reply is blocked.
LEMMA ControlledFd ==
    ASSUME NEW fd \in Fds, FdInv(peer[fd], sock[fd]),
           peer[fd].handshake = 0, peer[fd].buf # <<>>, ~BadPacket(fd),
           NEW left \in 0 .. Len(Append(peer[fd].writeBuf, Json))
    PROVE  LET q == Append(peer[fd].writeBuf, Json)
           IN FdInv([peer[fd] EXCEPT
                        !.ctrl = TRUE, !.vars = ParsedVars(fd), !.handshake = 1,
                        !.isWriting = TRUE, !.writeBuf = Unwritten(q, left)],
                    SockBlocked(sock[fd], q, left))
<1> DEFINE q == Append(peer[fd].writeBuf, Json)
<1>1. /\ peer[fd] \in PeerType /\ sock[fd] \in SockType
      /\ Head(peer[fd].buf) \in RequestType
  BY DEF FdInv, ShakeInv
<1>2. q \in Seq(ItemType)
  BY <1>1, AppendProperties DEF PeerType, ItemType
<1>3. ParsedVars(fd) \in 0 .. MaxVars
  BY <1>1, OptionsAssumption DEF BadPacket, ParsedVars, PeerType, RequestType
<1>4. /\ SockBlocked(sock[fd], q, left) \in SockType
      /\ SockBlocked(sock[fd], q, left).interest = "out"
      /\ Unwritten(q, left) \in Seq(ItemType)
  BY <1>1, <1>2, WriteProperties
<1> HIDE DEF q
<1>5. [peer[fd] EXCEPT !.ctrl = TRUE, !.vars = ParsedVars(fd), !.handshake = 1,
                       !.isWriting = TRUE, !.writeBuf = Unwritten(q, left)] \in PeerType
  BY <1>1, <1>3, <1>4 DEF PeerType
<1>6. QED
  BY <1>1, <1>4, <1>5 DEF FdInv, WatchInv, ShakeInv, PeerType, q

\* A message of a peer past its handshake is consumed, its source learned.
LEMMA ConsumedFd ==
    ASSUME NEW fd \in Fds, FdInv(peer[fd], sock[fd]), peer[fd].handshake > 0,
           peer[fd].buf # <<>>, NEW src \in Macs
    PROVE  /\ FdInv(Decapitated(fd), sock[fd])
           /\ FdInv(Learned(Decapitated(fd), src), sock[fd])
           /\ Decapitated(fd).isWriting = peer[fd].isWriting
           /\ Learned(Decapitated(fd), src).isWriting = peer[fd].isWriting
           /\ Learned(Decapitated(fd), src).writeBuf = peer[fd].writeBuf
           /\ Learned(Decapitated(fd), src).handshake > 0
<1> DEFINE d == Decapitated(fd)
<1>1. /\ peer[fd] \in PeerType /\ Tail(peer[fd].buf) \in Seq(RequestType \cup MessageType)
      /\ peer[fd].handshake # 0
  BY HeadTailProperties DEF FdInv, PeerType
<1>2. d \in PeerType /\ d.handshake # 0 /\ d.handshake = peer[fd].handshake
      /\ d.isWriting = peer[fd].isWriting /\ d.writeBuf = peer[fd].writeBuf /\ d.raw = peer[fd].raw
  BY <1>1 DEF Decapitated, Consumed, PeerType
<1> HIDE DEF d
<1>3. FdInv(d, sock[fd])
  BY <1>1, <1>2 DEF FdInv, WatchInv, ShakeInv
<1>4. /\ Learned(d, src) \in PeerType /\ Learned(d, src).handshake = d.handshake
      /\ Learned(d, src).isWriting = d.isWriting /\ Learned(d, src).writeBuf = d.writeBuf
      /\ Learned(d, src).raw = d.raw
  BY <1>2 DEF Learned, PeerType
<1>5. FdInv(Learned(d, src), sock[fd])
  BY <1>1, <1>2, <1>4 DEF FdInv, WatchInv, ShakeInv
<1>6. QED
  BY <1>2, <1>3, <1>4, <1>5 DEF d

\* A frame is appended to the write buffer of a peer whose address is known.
LEMMA ForwardedFd ==
    ASSUME NEW p, NEW t \in Fds, FdInv(p, sock[t]), p.isWriting = peer[t].isWriting,
           NEW item \in ItemType,
           p.macCollected \/ p.handshake > 0, NEW left \in 0 .. Len(Append(p.writeBuf, item))
    PROVE  LET q == Append(p.writeBuf, item)
           IN FdInv([p EXCEPT !.writeBuf = Unwritten(q, left)], SockForwarded(t, q, left))
<1> DEFINE q == Append(p.writeBuf, item)
           s == sock[t]
<1>1. p \in PeerType /\ s \in SockType
  BY DEF FdInv
<1>2. q \in Seq(ItemType)
  BY <1>1, AppendProperties DEF PeerType
<1>3. /\ SockWrote(s, q, left) \in SockType /\ SockBlocked(s, q, left) \in SockType
      /\ SockWrote(s, q, left).interest = s.interest
      /\ SockBlocked(s, q, left).interest = "out"
      /\ Unwritten(q, left) \in Seq(ItemType) /\ (left = 0 => Unwritten(q, left) = <<>>)
  BY <1>1, <1>2, WriteProperties
<1>4. left \in Nat
  BY <1>2, LenProperties
<1> HIDE DEF q
<1>5. [p EXCEPT !.writeBuf = Unwritten(q, left)] \in PeerType
  BY <1>1, <1>3 DEF PeerType
<1>6. p.handshake = 0 => p.buf # <<>> /\ Head(p.buf) \in RequestType
  BY <1>1 DEF FdInv, ShakeInv, PeerType
<1>7. p.raw => p.handshake = 1
  BY DEF FdInv, ShakeInv
<1>8. /\ SockForwarded(t, q, left) \in SockType
      /\ p.isWriting \/ Unwritten(q, left) # <<>> => SockForwarded(t, q, left).interest = "out"
  BY <1>3, <1>4, <1>1 DEF SockForwarded, FdInv, WatchInv, PeerType
<1>9. QED
  BY <1>1, <1>5, <1>6, <1>7, <1>8 DEF FdInv, WatchInv, ShakeInv, PeerType, q

-----------------------------------------------------------------------------
(* The invariant holds initially and is preserved by every step *)

LEMMA InitInv == Init => IInv
<1> SUFFICES ASSUME Init PROVE IInv
  OBVIOUS
<1>1. \A fd \in Fds : FdInv(peer[fd], sock[fd])
  BY FreshFd, TapFdInv DEF Init
<1>2. TypeOK
  <2>1. peer \in [Fds -> PeerType] /\ sock \in [Fds -> SockType]
    BY <1>1 DEF Init, FdInv
  <2>2. live \in SUBSET Fds /\ peersN \in 0 .. LastFd + 1
    BY FdFacts DEF Init
  <2>3. pending \in Nat /\ conns \in 0 .. MaxConns /\ sends \in 0 .. MaxSends
    BY TrafficAssumption, EmptySeq DEF Init
  <2>4. QED
    BY <2>1, <2>2, <2>3 DEF Init, TypeOK
<1>3. TableOK
  BY FdFacts DEF Init, TableOK
<1>4. LoopInv
  BY FdFacts DEF Init, LoopInv
<1>5. QED
  BY <1>1, <1>2, <1>3, <1>4 DEF IInv

\* What the handlers do to the rest of the state.
Elsewhere ==
    /\ batch' \subseteq batch /\ dirty' \in BOOLEAN
    /\ UNCHANGED <<peersN, fault, world>>

\* A step that changes one live peer and its socket.
LEMMA OneFdStep ==
    ASSUME IInv, NEW fd \in live, NEW p, NEW s, FdInv(p, s),
           peer' = [peer EXCEPT ![fd] = p], sock' = [sock EXCEPT ![fd] = s],
           live' = live, Elsewhere,
           cur' = NoFd \/ (cur' = fd /\ ~p.isWriting)
    PROVE  IInv'
<1>1. fd \in Fds /\ peer \in [Fds -> PeerType] /\ sock \in [Fds -> SockType]
  BY DEF IInv, TypeOK
<1>2. \A g \in Fds : peer'[g] = (IF g = fd THEN p ELSE peer[g])
                     /\ sock'[g] = (IF g = fd THEN s ELSE sock[g])
  BY <1>1
<1>3. \A g \in Fds : FdInv(peer'[g], sock'[g])
  BY <1>2 DEF IInv
<1>4. TypeOK'
  BY <1>1, <1>3 DEF IInv, TypeOK, FdInv, Elsewhere, world
<1>5. TableOK'
  BY <1>2 DEF IInv, TableOK, Elsewhere
<1>6. LoopInv'
  <2>1. live \subseteq Fds
    BY DEF IInv, TypeOK
  <2>2. peer'[fd] = p
    BY <1>1, <1>2
  <2>3. QED
    BY <2>1, <2>2, FdFacts DEF LoopInv
<1>7. QED
  BY <1>3, <1>4, <1>5, <1>6 DEF IInv

\* A step that destroys peers and returns to the event loop.
LEMMA DestroyStep ==
    ASSUME IInv, NEW S, Destroy(S), Elsewhere, cur' = NoFd
    PROVE  IInv'
<1>1. peer \in [Fds -> PeerType] /\ sock \in [Fds -> SockType] /\ live \subseteq Fds
  BY DEF IInv, TypeOK
<1>2. \A g \in Fds : peer'[g] = (IF g \in S THEN FreshPeer ELSE peer[g])
                     /\ sock'[g] = (IF g \in S THEN FreshSock ELSE sock[g])
  BY DEF Destroy
<1>3. \A g \in Fds : FdInv(peer'[g], sock'[g])
  BY <1>2, FreshFd DEF IInv
<1>4. TypeOK'
  <2>1. peer' \in [Fds -> PeerType] /\ sock' \in [Fds -> SockType] /\ live' \in SUBSET Fds
    BY <1>1, <1>3 DEF Destroy, FdInv
  <2>2. QED
    BY <2>1 DEF IInv, TypeOK, Elsewhere, world
<1>5. TableOK'
  BY <1>2 DEF IInv, TableOK, Elsewhere, Destroy
<1>6. LoopInv'
  BY <1>1, FdFacts DEF LoopInv, Destroy
<1>7. QED
  BY <1>3, <1>4, <1>5, <1>6 DEF IInv

\* A step that changes neither a peer nor a socket.
LEMMA QuietStep ==
    ASSUME IInv, UNCHANGED <<live, peer, sock>>, Elsewhere, cur' = NoFd
    PROVE  IInv'
<1>1. TypeOK'
  BY DEF IInv, TypeOK, Elsewhere, world
<1>2. TableOK'
  BY DEF IInv, TableOK, Elsewhere
<1>3. LoopInv'
  BY FdFacts DEF IInv, TypeOK, LoopInv
<1>4. QED
  BY <1>1, <1>2, <1>3 DEF IInv

\* The table does not shrink when it grows for a descriptor, and has it.
LEMMA GrownProperties ==
    ASSUME NEW fd \in Fds, peersN \in 0 .. LastFd + 1
    PROVE  Grown(fd) \in 0 .. LastFd + 1 /\ fd < Grown(fd) /\ peersN <= Grown(fd)
BY FdFacts DEF Grown

\* The event loop and accept().
LEMMA LoopStepInv ==
    ASSUME IInv, Wait \/ Accept \/ AcceptFails \/ CreateFails
    PROVE  IInv'
<1>1. /\ TypeOK /\ TableOK /\ LoopInv
      /\ \A fd \in Fds : FdInv(peer[fd], sock[fd])
  BY DEF IInv
<1>2. live \subseteq Fds /\ batch \subseteq Fds \cup {ServerFd} /\ peersN \in 0 .. LastFd + 1
  BY <1>1 DEF TypeOK
<1>3. \A g \in live \cup (batch \ {ServerFd}) : g \in Nat /\ g < peersN
  BY <1>1, <1>2, FdFacts DEF TableOK
<1>4. CASE Wait
  <2>1. AllReady \subseteq live \cup {ServerFd}
    BY DEF AllReady
  <2>2. TypeOK'
    BY <1>1, <1>2, <1>4, <2>1 DEF Wait, TypeOK, world
  <2>3. TableOK'
    BY <1>1, <1>4, <2>1 DEF Wait, TableOK
  <2>4. LoopInv'
    BY <1>1, <1>4 DEF Wait, LoopInv
  <2>5. QED
    BY <1>1, <1>4, <2>2, <2>3, <2>4 DEF Wait, IInv
<1>5. CASE Accept
  <2> PICK fd \in Lowest(Fds \ live) :
        /\ live' = live \cup {fd}
        /\ peersN' = Grown(fd)
        /\ peer' = [peer EXCEPT ![fd] = FreshPeer]
        /\ sock' = [sock EXCEPT ![fd] = FreshSock]
    BY <1>5 DEF Accept
  <2>1. fd \in Fds \ live /\ pending - 1 \in Nat
    <3>1. fd \in Fds \ live
      BY DEF Lowest
    <3>2. pending \in Nat /\ pending > 0
      BY <1>1, <1>5 DEF Accept, TypeOK
    <3>3. QED
      BY <3>1, <3>2
  <2>2. peer \in [Fds -> PeerType] /\ sock \in [Fds -> SockType]
    BY <1>1 DEF TypeOK
  <2>3. \A g \in Fds : /\ peer'[g] = (IF g = fd THEN FreshPeer ELSE peer[g])
                       /\ sock'[g] = (IF g = fd THEN FreshSock ELSE sock[g])
    BY <2>2
  <2>4. \A g \in Fds : FdInv(peer'[g], sock'[g])
    BY <1>1, <2>1, <2>3, FreshFd
  <2>5. peersN' \in 0 .. LastFd + 1 /\ fd < peersN' /\ peersN <= peersN'
    BY <1>2, <2>1, GrownProperties
  <2>6. batch' \subseteq batch /\ cur' = NoFd /\ dirty' = FALSE
        /\ pending' = pending - 1 /\ UNCHANGED <<fault, conns, sends>>
    BY <1>5 DEF Accept, Return
  <2>7. TypeOK'
    <3>1. peer' \in [Fds -> PeerType] /\ sock' \in [Fds -> SockType]
      BY <2>2, <2>4 DEF FdInv
    <3>2. QED
      BY <1>1, <2>1, <2>5, <2>6, <3>1 DEF TypeOK
  <2>8. TableOK'
    <3>1. \A g \in live' \cup (batch' \ {ServerFd}) : g < peersN'
      BY <1>2, <1>3, <2>1, <2>5, <2>6
    <3>2. QED
      BY <1>1, <3>1, <2>1, <2>3 DEF TableOK
  <2>9. LoopInv'
    BY <1>2, <2>1, <2>6, FdFacts DEF LoopInv
  <2>10. QED
    BY <2>4, <2>7, <2>8, <2>9 DEF IInv
<1>6. CASE AcceptFails
  BY <1>6, QuietStep DEF AcceptFails, Return, Elsewhere
<1>7. CASE CreateFails
  <2>1. PICK fd \in Lowest(Fds \ live) : peersN' \in {peersN, Grown(fd)}
    BY <1>7 DEF CreateFails
  <2>2. fd \in Fds /\ pending - 1 \in Nat
    <3>1. fd \in Fds
      BY <2>1 DEF Lowest
    <3>2. pending \in Nat /\ pending > 0
      BY <1>1, <1>7 DEF CreateFails, TypeOK
    <3>3. QED
      BY <3>1, <3>2
  <2>3. peersN' \in 0 .. LastFd + 1 /\ peersN <= peersN'
    BY <1>2, <2>1, <2>2, GrownProperties
  <2>4. /\ batch' \subseteq batch /\ cur' = NoFd /\ dirty' = FALSE
        /\ pending' = pending - 1 /\ UNCHANGED <<live, peer, sock, fault, conns, sends>>
    BY <1>7 DEF CreateFails, Return
  <2>5. TypeOK'
    BY <1>1, <2>2, <2>3, <2>4 DEF TypeOK
  <2>6. TableOK'
    <3>1. \A g \in live' \cup (batch' \ {ServerFd}) : g < peersN'
      BY <1>2, <1>3, <2>3, <2>4
    <3>2. QED
      BY <1>1, <3>1, <2>4 DEF TableOK
  <2>7. LoopInv'
    BY <1>2, <2>4, FdFacts DEF LoopInv
  <2>8. QED
    BY <1>1, <2>4, <2>5, <2>6, <2>7 DEF IInv
<1>8. QED
  BY <1>4, <1>5, <1>6, <1>7

\* An event of the batch is handled, up to the "again" loop.
LEMMA EventStepInv ==
    ASSUME IInv, NEW fd \in Fds, EventStep(fd)
    PROVE  IInv'
<1>1. /\ TypeOK /\ FdInv(peer[fd], sock[fd]) /\ live \subseteq Fds
      /\ peer \in [Fds -> PeerType] /\ sock \in [Fds -> SockType]
  BY DEF IInv, TypeOK
<1>2. /\ peer[fd].writeBuf \in Seq(ItemType) /\ Len(peer[fd].writeBuf) \in Nat
      /\ Outcomes(fd, peer[fd].writeBuf) \subseteq -1 .. Len(peer[fd].writeBuf)
  BY <1>1, OutcomesRange, LenProperties DEF PeerType
<1>3. CASE ManageMissing(fd) \/ ReadNothing(fd)
  BY <1>3, QuietStep DEF ManageMissing, ReadNothing, Return, Elsewhere
<1>4. CASE WriteFails(fd) \/ ReadFails(fd)
  <2>1. Destroy({fd}) /\ Elsewhere /\ cur' = NoFd
    BY <1>4 DEF WriteFails, ReadFails, Return, Elsewhere
  <2>2. QED
    BY <2>1, DestroyStep
<1>5. CASE WriteSome(fd)
  <2> DEFINE q == peer[fd].writeBuf
  <2>1. PICK left \in Outcomes(fd, q) \ {0, -1} :
          /\ peer' = [peer EXCEPT ![fd].writeBuf = Unwritten(q, left)]
          /\ sock' = [sock EXCEPT ![fd] = SockWrote(@, q, left)]
    BY <1>5 DEF WriteSome
  <2>2. left \in 0 .. Len(q) /\ fd \in live /\ peer[fd].isWriting
    BY <1>2, <1>5 DEF WriteSome, WritingEvent
  <2> DEFINE p == [peer[fd] EXCEPT !.writeBuf = Unwritten(q, left)]
             s == SockWrote(sock[fd], q, left)
  <2>3. FdInv(p, s)
    BY <1>1, <2>2, WriteSomeFd
  <2>4. peer' = [peer EXCEPT ![fd] = p] /\ sock' = [sock EXCEPT ![fd] = s]
    BY <2>1
  <2>5. live' = live /\ Elsewhere /\ cur' = NoFd
    BY <1>5 DEF WriteSome, Return, Elsewhere
  <2> HIDE DEF p, s
  <2>6. QED
    BY <2>2, <2>3, <2>4, <2>5, OneFdStep
<1>6. CASE WriteAll(fd) \/ WatchInputFails(fd)
  <2> DEFINE p == [peer[fd] EXCEPT !.isWriting = FALSE, !.writeBuf = <<>>]
             s == SockWrote(sock[fd], peer[fd].writeBuf, 0)
             t == [s EXCEPT !.interest = "in"]
  <2>1. fd \in live /\ peer[fd].isWriting
    BY <1>6 DEF WriteAll, WatchInputFails, WritingEvent
  <2>2. ~(peer[fd].handshake > 1)
    <3>1. peer[fd].handshake \in {0, 1}
      BY <1>1 DEF PeerType
    <3>2. QED
      BY <3>1
  <2>3. FdInv(p, s) /\ FdInv(p, t)
    BY <1>1, <2>1, WriteAllFd
  <2>4. /\ peer' = [peer EXCEPT ![fd] = p]
        /\ sock' = [sock EXCEPT ![fd] = s] \/ sock' = [sock EXCEPT ![fd] = t]
    BY <1>6, <2>2 DEF WriteAll, WatchInputFails
  <2>5. live' = live /\ Elsewhere /\ cur' = NoFd
    BY <1>6, <2>2 DEF WriteAll, WatchInputFails, Return, Elsewhere
  <2> HIDE DEF p, s, t
  <2>6. QED
    BY <2>1, <2>3, <2>4, <2>5, OneFdStep
<1>7. CASE ReadMessages(fd)
  <2> DEFINE q == sock[fd].inq
  <2>1. PICK k \in 1 .. (IF peer[fd].raw THEN 1 ELSE Len(q)) :
          /\ peer' = [peer EXCEPT ![fd].buf = @ \o SubSeq(q, 1, k)]
          /\ sock' = [sock EXCEPT ![fd].inq = SubSeq(q, k + 1, Len(q))]
    BY <1>7 DEF ReadMessages
  <2>2. q # <<>> /\ fd \in live /\ ~peer[fd].isWriting
    BY <1>7 DEF ReadMessages, ReadingEvent
  <2>3. Len(q) \in Nat \ {0}
    BY <1>1, <2>2, EmptySeq DEF SockType
  <2>4. k \in 1 .. Len(q)
    BY <2>3
  <2> DEFINE p == [peer[fd] EXCEPT !.buf = @ \o SubSeq(q, 1, k)]
             s == [sock[fd] EXCEPT !.inq = SubSeq(q, k + 1, Len(q))]
  <2>5. FdInv(p, s)
    BY <1>1, <2>2, <2>4, ReadFd
  <2>6. peer' = [peer EXCEPT ![fd] = p] /\ sock' = [sock EXCEPT ![fd] = s]
    BY <2>1
  <2>7. ~p.isWriting
    BY <1>1, <2>2 DEF PeerType
  <2>8. live' = live /\ Elsewhere /\ cur' = fd
    BY <1>1, <1>7 DEF ReadMessages, Elsewhere, TypeOK
  <2> HIDE DEF p, s
  <2>9. QED
    BY <2>2, <2>5, <2>6, <2>7, <2>8, OneFdStep
<1>8. QED
  BY <1>3, <1>4, <1>5, <1>6, <1>7 DEF EventStep

\* The peers of dead destroyed, and one other peer and its socket changed.
LEMMA DestroyAndOneFdStep ==
    ASSUME IInv, NEW dead \in SUBSET Fds, NEW fd \in live \ dead, NEW p, NEW s, FdInv(p, s),
           live' = live \ dead,
           peer' = [g \in Fds |-> IF g \in dead THEN FreshPeer ELSE IF g = fd THEN p ELSE peer[g]],
           sock' = [g \in Fds |-> IF g \in dead THEN FreshSock ELSE IF g = fd THEN s ELSE sock[g]],
           Elsewhere, cur' = NoFd
    PROVE  IInv'
<1>1. fd \in Fds /\ live \subseteq Fds
  BY DEF IInv, TypeOK
<1>2. \A g \in Fds : FdInv(peer'[g], sock'[g])
  BY FreshFd DEF IInv
<1>3. TypeOK'
  <2>1. peer' \in [Fds -> PeerType] /\ sock' \in [Fds -> SockType] /\ live' \in SUBSET Fds
    BY <1>1, <1>2 DEF FdInv
  <2>2. QED
    BY <2>1 DEF IInv, TypeOK, Elsewhere, world
<1>4. TableOK'
  BY DEF IInv, TableOK, Elsewhere
<1>5. LoopInv'
  BY <1>1, FdFacts DEF LoopInv
<1>6. QED
  BY <1>2, <1>3, <1>4, <1>5 DEF IInv

\* A handshake or control request.
LEMMA HandshakeInv ==
    ASSUME IInv, NEW fd \in Fds,
           HandshakeFails(fd) \/ HandshakeUpgrade(fd)
             \/ Control(fd) \/ ControlFault(fd) \/ ControlFails(fd)
    PROVE  IInv'
<1>1. /\ TypeOK /\ FdInv(peer[fd], sock[fd]) /\ live \subseteq Fds
      /\ peer \in [Fds -> PeerType] /\ sock \in [Fds -> SockType]
  BY DEF IInv, TypeOK
<1>2. /\ fd \in live /\ peer[fd].handshake = 0 /\ peer[fd].buf # <<>>
      /\ ~peer[fd].isWriting /\ cur = fd
  <2>1. cur = fd /\ fault = "none" /\ peer[fd].handshake = 0 /\ peer[fd].buf # <<>>
    BY DEF HandshakeFails, HandshakeUpgrade, Control, ControlFault, ControlFails,
           ControlRequest, Shaking, Looping, Running
  <2>2. QED
    BY <2>1, FdFacts DEF IInv, LoopInv
<1>3. ASSUME NEW S, LoopFails(fd, S)
      PROVE  IInv'
  <2>1. Destroy(S \cup {fd}) /\ Elsewhere /\ cur' = NoFd
    BY <1>3 DEF LoopFails, Return, Elsewhere
  <2>2. QED
    BY <2>1, DestroyStep
<1>4. CASE HandshakeFails(fd)
  BY <1>3, <1>4 DEF HandshakeFails
<1>5. CASE ControlFails(fd)
  BY <1>3, <1>5 DEF ControlFails
<1>6. CASE ControlFault(fd)
  <2>1. /\ fault' = "entry beyond the table"
        /\ UNCHANGED <<live, peersN, peer, sock, batch, cur, dirty, world>>
    BY <1>6 DEF ControlFault
  <2>2. TypeOK'
    BY <2>1 DEF IInv, TypeOK, world
  <2>3. TableOK' /\ LoopInv'
    BY <2>1 DEF IInv, TableOK, LoopInv
  <2>4. QED
    BY <2>1, <2>2, <2>3 DEF IInv
<1>7. CASE HandshakeUpgrade(fd)
  <2> DEFINE q == Append(peer[fd].writeBuf, Reply101)
             p == Upgraded(fd)
  <2>1. PICK left \in Outcomes(fd, q) :
            \/ left = -1 /\ LoopFails(fd, {})
            \/ /\ left = 0
               /\ peer' = [peer EXCEPT ![fd] =
                    [p EXCEPT !.handshake = 1, !.buf = Consumed(@), !.writeBuf = <<>>]]
               /\ sock' = [sock EXCEPT ![fd] = SockWrote(@, q, 0)]
               /\ UNCHANGED <<live, peersN, batch, cur, dirty, fault, world>>
            \/ /\ left > 0
               /\ peer' = [peer EXCEPT ![fd] =
                    [p EXCEPT !.isWriting = TRUE, !.writeBuf = Unwritten(q, left)]]
               /\ sock' = [sock EXCEPT ![fd] = SockBlocked(@, q, left)]
               /\ Return(fd, dirty)
               /\ UNCHANGED <<live, peersN, fault, world>>
    BY <1>7 DEF HandshakeUpgrade
  <2>2. ~BadPacket(fd)
    BY <1>7 DEF HandshakeUpgrade
  <2>3. q \in Seq(ItemType)
    BY <1>1, AppendProperties DEF PeerType, ItemType
  <2>4. left \in -1 .. Len(q) /\ Len(q) \in Nat
    BY <1>1, <2>3, OutcomesRange, LenProperties
  <2>5. CASE left = -1
    BY <1>3, <2>1, <2>5
  <2>6. CASE left = 0
    <3> DEFINE r == [p EXCEPT !.handshake = 1, !.buf = Consumed(@), !.writeBuf = <<>>]
               s == SockWrote(sock[fd], q, 0)
    <3>1. FdInv(r, s)
      <4>1. left \in 0 .. Len(q)
        BY <2>4, <2>6
      <4>2. QED
        BY <1>1, <1>2, <2>2, <2>6, <4>1, UpgradedFd
    <3>2. ~r.isWriting
      BY <1>1, <1>2, <2>2, UpgradedTyped DEF PeerType
    <3>3. /\ peer' = [peer EXCEPT ![fd] = r] /\ sock' = [sock EXCEPT ![fd] = s]
          /\ live' = live /\ cur' = fd
          /\ UNCHANGED <<peersN, batch, dirty, fault, world>>
      BY <1>2, <2>1, <2>4, <2>6
    <3>4. Elsewhere
      BY <1>1, <3>3 DEF Elsewhere, TypeOK
    <3> HIDE DEF r, s
    <3>5. QED
      BY <1>2, <3>1, <3>2, <3>3, <3>4, OneFdStep
  <2>7. CASE left > 0
    <3> DEFINE r == [p EXCEPT !.isWriting = TRUE, !.writeBuf = Unwritten(q, left)]
               s == SockBlocked(sock[fd], q, left)
    <3>1. left \in 0 .. Len(q)
      BY <2>4, <2>7
    <3>2. FdInv(r, s)
      BY <1>1, <1>2, <2>2, <3>1, UpgradedFd
    <3>3. /\ peer' = [peer EXCEPT ![fd] = r] /\ sock' = [sock EXCEPT ![fd] = s]
          /\ Return(fd, dirty) /\ UNCHANGED <<live, peersN, fault, world>>
      <4>1. left # -1 /\ left # 0
        BY <2>4, <2>7
      <4>2. QED
        BY <2>1, <4>1
    <3>4. live' = live /\ cur' = NoFd /\ Elsewhere
      BY <3>3 DEF Return, Elsewhere
    <3> HIDE DEF r, s
    <3>5. QED
      BY <1>2, <3>2, <3>3, <3>4, OneFdStep
  <2>8. QED
    BY <2>4, <2>5, <2>6, <2>7
<1>8. CASE Control(fd)
  <2> DEFINE q == Append(peer[fd].writeBuf, Json)
             dead == Victims(fd)
  <2>1. PICK left \in Outcomes(fd, q) :
            \/ left <= 0 /\ LoopFails(fd, dead)
            \/ /\ left > 0
               /\ live' = live \ dead
               /\ peer' = [g \in Fds |->
                    IF g \in dead THEN FreshPeer
                    ELSE IF g = fd THEN [peer[fd] EXCEPT
                        !.ctrl = TRUE, !.vars = ParsedVars(fd), !.handshake = 1,
                        !.isWriting = TRUE, !.writeBuf = Unwritten(q, left)]
                    ELSE peer[g]]
               /\ sock' = [g \in Fds |->
                    IF g \in dead THEN FreshSock
                    ELSE IF g = fd THEN SockBlocked(sock[fd], q, left)
                    ELSE sock[g]]
               /\ Return(fd, dirty)
               /\ UNCHANGED <<peersN, fault, world>>
    BY <1>8 DEF Control
  <2>2. ~BadPacket(fd)
    BY <1>8 DEF Control, ControlRequest
  <2>3. q \in Seq(ItemType)
    BY <1>1, AppendProperties DEF PeerType, ItemType
  <2>4. left \in -1 .. Len(q) /\ Len(q) \in Nat
    BY <1>1, <2>3, OutcomesRange, LenProperties
  <2>5. CASE left <= 0
    BY <1>3, <2>1, <2>4, <2>5
  <2>6. CASE left > 0
    <3> DEFINE r == [peer[fd] EXCEPT
                       !.ctrl = TRUE, !.vars = ParsedVars(fd), !.handshake = 1,
                       !.isWriting = TRUE, !.writeBuf = Unwritten(q, left)]
               s == SockBlocked(sock[fd], q, left)
    <3>1. left \in 0 .. Len(q)
      BY <2>4, <2>6
    <3>2. FdInv(r, s)
      BY <1>1, <1>2, <2>2, <3>1, ControlledFd
    <3>3. /\ live' = live \ dead /\ Return(fd, dirty) /\ UNCHANGED <<peersN, fault, world>>
          /\ peer' = [g \in Fds |-> IF g \in dead THEN FreshPeer ELSE IF g = fd THEN r ELSE peer[g]]
          /\ sock' = [g \in Fds |-> IF g \in dead THEN FreshSock ELSE IF g = fd THEN s ELSE sock[g]]
      <4>1. ~(left <= 0)
        BY <2>4, <2>6
      <4>2. QED
        BY <2>1, <4>1
    <3>6. cur' = NoFd /\ Elsewhere
      BY <3>3 DEF Return, Elsewhere
    <3>4. dead \in SUBSET Fds /\ fd \in live \ dead
      BY <1>1, <1>2 DEF Victims
    <3> HIDE DEF r, s, dead
    <3>5. QED
      BY <3>2, <3>3, <3>4, <3>6, DestroyAndOneFdStep
  <2>7. QED
    BY <2>4, <2>5, <2>6
<1>9. QED
  BY <1>4, <1>5, <1>6, <1>7, <1>8

\* Whoever a frame is for is a live peer, and its address is known.
LEMMA RecipientsKnown ==
    ASSUME NEW fd, NEW m
    PROVE  Recipients(fd, m) \subseteq {g \in live : peer[g].macCollected}
BY DEF Recipients, Others, ByMac, ByBridgeMac, Lowest

\* A frame is forwarded to its recipients.
LEMMA ForwardInv ==
    ASSUME IInv, NEW fd \in live, ~peer[fd].isWriting, cur = fd, Forward(fd)
    PROVE  IInv'
<1> DEFINE m == Head(peer[fd].buf)
           to == Recipients(fd, m)
           q == [t \in to |-> Append(peer[t].writeBuf, Encoded(m, t))]
           learned == [peer EXCEPT ![fd] = Learned(Decapitated(fd), m.src)]
<1>1. /\ TypeOK /\ TableOK /\ LoopInv /\ live \subseteq Fds /\ fd \in Fds
      /\ peer \in [Fds -> PeerType] /\ sock \in [Fds -> SockType]
      /\ \A g \in Fds : FdInv(peer[g], sock[g])
  BY DEF IInv, TypeOK
<1>2. peer[fd].handshake > 0 /\ peer[fd].buf # <<>> /\ m.type = "frame"
  BY DEF Forward, Receiving
<1>3. m.src \in Macs /\ m.dst \in Macs
  <2>1. peer[fd].buf \in Seq(RequestType \cup MessageType)
    BY <1>1 DEF PeerType
  <2>2. m \in RequestType \cup MessageType
    BY <1>2, <2>1, HeadTailProperties
  <2>3. QED
    BY <1>2, <2>2 DEF RequestType, MessageType, FrameType, Ping, Short, Close
<1>4. PICK left \in [to -> UNION {Outcomes(t, q[t]) : t \in to}] :
        LET dead == {t \in to : left[t] = -1}
            blocked == {t \in to : left[t] > 0}
        IN /\ \A t \in to : left[t] \in Outcomes(t, q[t])
           /\ live' = live \ dead
           /\ peer' = [g \in Fds |->
                IF g \in dead THEN FreshPeer
                ELSE IF g \in to
                THEN [learned[g] EXCEPT !.writeBuf = Unwritten(q[g], left[g])]
                ELSE learned[g]]
           /\ sock' = [g \in Fds |->
                IF g \in dead THEN FreshSock
                ELSE IF g \in to THEN SockForwarded(g, q[g], left[g])
                ELSE sock[g]]
           /\ dirty' = (dirty \/ dead \cup blocked # {})
           /\ fault' = IF fd \in dead THEN "freed peer used" ELSE fault
  BY DEF Forward
<1> DEFINE dead == {t \in to : left[t] = -1}
<1>5. to \subseteq live /\ to \subseteq Fds /\ \A t \in to : peer[t].macCollected
  BY <1>1, RecipientsKnown
<1>6. \A g \in Fds : /\ FdInv(learned[g], sock[g])
                     /\ learned[g].isWriting = peer[g].isWriting
                     /\ learned[g].writeBuf = peer[g].writeBuf
                     /\ peer[g].macCollected => learned[g].macCollected \/ learned[g].handshake > 0
  <2> SUFFICES ASSUME NEW g \in Fds
               PROVE  /\ FdInv(learned[g], sock[g])
                      /\ learned[g].isWriting = peer[g].isWriting
                      /\ learned[g].writeBuf = peer[g].writeBuf
                      /\ peer[g].macCollected => learned[g].macCollected \/ learned[g].handshake > 0
    OBVIOUS
  <2>1. learned[g] = IF g = fd THEN Learned(Decapitated(fd), m.src) ELSE peer[g]
    BY <1>1
  <2> HIDE DEF learned, m
  <2>2. CASE g = fd
    BY <1>1, <1>2, <1>3, <2>1, <2>2, ConsumedFd
  <2>3. CASE g # fd
    BY <1>1, <2>1, <2>3
  <2>4. QED
    BY <2>2, <2>3
<1> DEFINE after(g) == [learned[g] EXCEPT !.writeBuf = Unwritten(q[g], left[g])]
<1>7. \A t \in to : t \notin dead => FdInv(after(t), SockForwarded(t, q[t], left[t]))
  <2> SUFFICES ASSUME NEW t \in to, t \notin dead
               PROVE  FdInv([learned[t] EXCEPT !.writeBuf = Unwritten(q[t], left[t])],
                            SockForwarded(t, q[t], left[t]))
    OBVIOUS
  <2> DEFINE item == Encoded(m, t)
  <2>1. item \in ItemType
    BY <1>3 DEF Encoded, ItemType
  <2>2. t \in Fds /\ q[t] = Append(learned[t].writeBuf, item) /\ peer[t].macCollected
    BY <1>5, <1>6
  <2>3. q[t] \in Seq(ItemType)
    <3>1. learned[t].writeBuf \in Seq(ItemType)
      BY <1>6, <2>2 DEF FdInv, PeerType
    <3>2. QED
      BY <2>1, <2>2, <3>1, AppendProperties
  <2>4. left[t] \in 0 .. Len(q[t])
    <3>1. left[t] \in Outcomes(t, q[t]) /\ left[t] # -1
      BY <1>4
    <3>2. left[t] \in -1 .. Len(q[t]) /\ Len(q[t]) \in Nat
      BY <1>1, <2>2, <2>3, <3>1, OutcomesRange, LenProperties
    <3>3. QED
      BY <3>1, <3>2
  <2> HIDE DEF learned, q, item
  <2>5. QED
    BY <1>6, <2>1, <2>2, <2>4, ForwardedFd
<1>8. /\ live' = live \ dead /\ dead \subseteq to
      /\ dirty' \in BOOLEAN
      /\ fault' = IF fd \in dead THEN "freed peer used" ELSE fault
      /\ UNCHANGED <<peersN, batch, cur, world>>
      /\ \A g \in Fds : /\ peer'[g] = IF g \in dead THEN FreshPeer
                                      ELSE IF g \in to THEN after(g) ELSE learned[g]
                        /\ sock'[g] = IF g \in dead THEN FreshSock
                                      ELSE IF g \in to THEN SockForwarded(g, q[g], left[g])
                                      ELSE sock[g]
  <2>1. dirty' \in BOOLEAN /\ UNCHANGED <<peersN, batch, cur, world>>
    BY <1>1, <1>4 DEF Forward, TypeOK
  <2> HIDE DEF learned, q, to
  <2>2. QED
    BY <1>4, <2>1
<1>9. peer' = [g \in Fds |-> peer'[g]] /\ sock' = [g \in Fds |-> sock'[g]]
  <2> HIDE DEF learned, q, to
  <2>1. QED
    BY <1>4
<1>10. \A g \in Fds : ~(g \in dead) => peer'[g].isWriting = peer[g].isWriting
  <2>1. \A g \in Fds : learned[g] \in PeerType
    BY <1>6 DEF FdInv
  <2>2. \A g \in Fds : after(g).isWriting = learned[g].isWriting
    BY <2>1 DEF PeerType
  <2> HIDE DEF learned, q, to, dead, after
  <2>3. QED
    BY <1>6, <1>8, <2>2
<1>11. \A g \in Fds \ live : g \notin to /\ g # fd /\ learned[g] = peer[g]
  BY <1>1, <1>5
<1> HIDE DEF m, to, q, learned, dead, after
<1>12. \A g \in Fds : FdInv(peer'[g], sock'[g])
  <2> SUFFICES ASSUME NEW g \in Fds PROVE FdInv(peer'[g], sock'[g])
    OBVIOUS
  <2>1. CASE g \in dead
    BY <2>1, <1>8, FreshFd
  <2>2. CASE g \notin dead /\ g \in to
    BY <2>2, <1>7, <1>8
  <2>3. CASE g \notin dead /\ g \notin to
    BY <2>3, <1>6, <1>8
  <2>4. QED
    BY <2>1, <2>2, <2>3
<1>13. TypeOK'
  <2>1. peer' \in [Fds -> PeerType] /\ sock' \in [Fds -> SockType]
    BY <1>9, <1>12 DEF FdInv
  <2>2. QED
    BY <1>1, <1>8, <2>1 DEF TypeOK, world
<1>14. TableOK'
  BY <1>1, <1>8, <1>11 DEF TableOK
<1>15. LoopInv'
  <2>1. cur' = fd
    BY <1>8
  <2>2. fault' = "none" => fd \in live'
    BY <1>8
  <2>3. fd \in live' => ~peer'[fd].isWriting
    BY <1>1, <1>8, <1>10
  <2>4. QED
    BY <2>1, <2>2, <2>3 DEF LoopInv
<1>16. QED
  BY <1>12, <1>13, <1>14, <1>15 DEF IInv

\* A message of a peer past its handshake, or the end of the "again" loop.
LEMMA FrameInv ==
    ASSUME IInv, NEW fd \in Fds,
           \/ LoopEnds(fd) \/ Misread(fd)
           \/ ReceiveClose(fd) \/ Ignore(fd) \/ LearnFails(fd) \/ Forward(fd)
    PROVE  IInv'
<1>1. /\ TypeOK /\ FdInv(peer[fd], sock[fd]) /\ live \subseteq Fds
      /\ peer \in [Fds -> PeerType] /\ sock \in [Fds -> SockType]
  BY DEF IInv, TypeOK
<1>2. fd \in live /\ ~peer[fd].isWriting /\ cur = fd
  <2>1. cur = fd /\ fault = "none"
    BY DEF LoopEnds, Misread, ReceiveClose, Ignore, LearnFails, Forward, Receiving, Looping, Running
  <2>2. QED
    BY <2>1, FdFacts DEF IInv, LoopInv
<1>3. CASE LoopEnds(fd)
  BY <1>3, QuietStep DEF LoopEnds, Return, Elsewhere
<1>4. CASE ReceiveClose(fd) \/ LearnFails(fd)
  <2>1. Destroy({} \cup {fd}) /\ Elsewhere /\ cur' = NoFd
    BY <1>4 DEF ReceiveClose, LearnFails, LoopFails, Return, Elsewhere
  <2>2. QED
    BY <2>1, DestroyStep
<1>5. CASE Ignore(fd)
  <2> DEFINE p == Decapitated(fd)
             s == sock[fd]
  <2>1. /\ peer' = [peer EXCEPT ![fd] = p] /\ UNCHANGED <<live, peersN, sock, batch, cur, dirty, fault, world>>
        /\ peer[fd].handshake > 0 /\ peer[fd].buf # <<>>
    BY <1>5 DEF Ignore, Receiving
  <2>2. FdInv(p, s) /\ ~p.isWriting
    <3>1. Broadcast \in Macs
      BY DEF Macs
    <3>2. QED
      BY <1>1, <1>2, <2>1, <3>1, ConsumedFd
  <2>3. sock' = [sock EXCEPT ![fd] = s] /\ live' = live /\ cur' = fd /\ Elsewhere
    BY <1>1, <1>2, <2>1 DEF Elsewhere, TypeOK
  <2> HIDE DEF p, s
  <2>4. QED
    BY <1>2, <2>1, <2>2, <2>3, OneFdStep
<1>6. CASE Forward(fd)
  BY <1>2, <1>6, ForwardInv
<1>7. CASE Misread(fd)
  <2>1. /\ fault' = "request read as a message"
        /\ UNCHANGED <<live, peersN, peer, sock, batch, cur, dirty, world>>
    BY <1>7 DEF Misread
  <2>2. TypeOK'
    BY <2>1 DEF IInv, TypeOK, world
  <2>3. TableOK' /\ LoopInv'
    BY <2>1 DEF IInv, TableOK, LoopInv
  <2>4. QED
    BY <2>1, <2>2, <2>3 DEF IInv
<1>8. QED
  BY <1>3, <1>4, <1>5, <1>6, <1>7

\* A socket of a live peer changes in the world outside, nothing else of it.
LEMMA SocketStep ==
    ASSUME IInv, NEW fd \in live, NEW s, FdInv(peer[fd], s),
           sock' = [sock EXCEPT ![fd] = s], sends' \in 0 .. MaxSends,
           UNCHANGED <<live, peersN, peer, pending, batch, cur, dirty, fault, conns>>
    PROVE  IInv'
<1>1. fd \in Fds /\ sock \in [Fds -> SockType] /\ s \in SockType
  BY DEF IInv, TypeOK, FdInv
<1>2. \A g \in Fds : sock'[g] = IF g = fd THEN s ELSE sock[g]
  BY <1>1
<1>3. \A g \in Fds : FdInv(peer'[g], sock'[g])
  BY <1>2 DEF IInv
<1>4. TypeOK'
  BY <1>1 DEF IInv, TypeOK
<1>5. TableOK'
  BY <1>2 DEF IInv, TableOK
<1>6. LoopInv'
  BY DEF IInv, LoopInv
<1>7. QED
  BY <1>3, <1>4, <1>5, <1>6 DEF IInv

\* A message arrives at a peer past its handshake, or behind the request of one.
LEMMA SentFd ==
    ASSUME NEW p, NEW s, FdInv(p, s), NEW m \in MessageType,
           p.handshake = 1 \/ p.buf # <<>> \/ s.inq # <<>>
    PROVE  FdInv(p, [s EXCEPT !.inq = Append(@, m)])
<1>1. p \in PeerType /\ s \in SockType
  BY DEF FdInv
<1>2. Append(s.inq, m) \in Seq(RequestType \cup MessageType)
  BY <1>1, AppendProperties DEF SockType
<1>3. [s EXCEPT !.inq = Append(@, m)] \in SockType
  BY <1>1, <1>2 DEF SockType
<1>4. s.inq # <<>> => Head(Append(s.inq, m)) = Head(s.inq)
  <2>1. s.inq \in Seq(RequestType \cup MessageType)
    BY <1>1 DEF SockType
  <2>2. QED
    BY <2>1, LenProperties, EmptySeq, AppendProperties
<1>5. QED
  BY <1>1, <1>3, <1>4 DEF FdInv, WatchInv, ShakeInv, SockType

\* Clients and the kernel at the other end of the tap device.
LEMMA ClientStepInv == ASSUME IInv, ClientStep PROVE IInv'
<1>1. /\ TypeOK /\ live \subseteq Fds
      /\ peer \in [Fds -> PeerType] /\ sock \in [Fds -> SockType]
      /\ \A fd \in Fds : FdInv(peer[fd], sock[fd])
  BY DEF IInv, TypeOK
<1>2. MaxConns \in Nat /\ MaxSends \in Nat /\ sends \in 0 .. MaxSends /\ conns \in 0 .. MaxConns
  BY <1>1, TrafficAssumption DEF TypeOK
<1>3. sends < MaxSends => sends + 1 \in 0 .. MaxSends
  BY <1>2
<1>4. conns < MaxConns => conns + 1 \in 0 .. MaxConns
  BY <1>2
<1>5. CASE Connect
  <2>1. /\ pending' = pending + 1 /\ conns' = conns + 1 /\ conns < MaxConns
        /\ UNCHANGED <<live, peersN, peer, sock, batch, cur, dirty, fault, sends>>
    BY <1>5 DEF Connect
  <2>2. pending + 1 \in Nat
    <3>1. pending \in Nat
      BY <1>1 DEF TypeOK
    <3>2. QED
      BY <3>1
  <2>3. TypeOK'
    BY <1>1, <1>4, <2>1, <2>2 DEF TypeOK
  <2>4. TableOK' /\ LoopInv'
    BY <2>1 DEF IInv, TableOK, LoopInv
  <2>5. QED
    BY <1>1, <2>1, <2>3, <2>4 DEF IInv
<1>6. ASSUME NEW fd \in live, NEW m \in MessageType, Sends(fd, m),
             peer[fd].handshake = 1 \/ peer[fd].buf # <<>> \/ sock[fd].inq # <<>>
      PROVE  IInv'
  <2> DEFINE s == [sock[fd] EXCEPT !.inq = Append(@, m)]
  <2>1. FdInv(peer[fd], s)
    BY <1>1, <1>6, SentFd
  <2>2. sock' = [sock EXCEPT ![fd] = s] /\ sends' \in 0 .. MaxSends
    BY <1>6, <1>3 DEF Sends
  <2>3. UNCHANGED <<live, peersN, peer, pending, batch, cur, dirty, fault, conns>>
    BY <1>6 DEF Sends
  <2> HIDE DEF s
  <2>4. QED
    BY <2>1, <2>2, <2>3, SocketStep
<1>7. ASSUME NEW fd \in Fds, NEW m \in Messages, ClientSends(fd, m)
      PROVE  IInv'
  <2>1. peer[fd].handshake \in {0, 1} /\ (peer[fd].handshake > 0 => peer[fd].handshake = 1)
    BY <1>1 DEF PeerType
  <2>2. QED
    BY <1>6, <1>7, <2>1, TrafficAssumption DEF ClientSends
<1>8. ASSUME NEW m \in TapFrames, TapReceives(m)
      PROVE  IInv'
  <2>1. TapFd \in live /\ peer[TapFd].handshake = 1 /\ Sends(TapFd, m)
    BY <1>1, <1>8 DEF TapReceives, FdInv, ShakeInv
  <2>2. QED
    BY <1>6, <2>1, TrafficAssumption DEF MessageType
<1>9. ASSUME NEW fd \in Fds, Drain(fd) \/ Hangup(fd)
      PROVE  IInv'
  <2>1. PICK s : /\ s = [sock[fd] EXCEPT !.full = FALSE] \/ s = [sock[fd] EXCEPT !.hup = TRUE]
                 /\ sock' = [sock EXCEPT ![fd] = s]
    BY <1>9 DEF Drain, Hangup
  <2>2. FdInv(peer[fd], s)
    BY <1>1, <2>1 DEF FdInv, WatchInv, ShakeInv, SockType
  <2>3. /\ fd \in live /\ sends' \in 0 .. MaxSends
        /\ UNCHANGED <<live, peersN, peer, pending, batch, cur, dirty, fault, conns>>
    BY <1>1, <1>9 DEF Drain, Hangup, world, TypeOK
  <2>4. QED
    BY <2>1, <2>2, <2>3, SocketStep
<1>10. ASSUME NEW fd \in Fds, NEW r \in Requests, ClientRequests(fd, r)
       PROVE  IInv'
  <2> DEFINE s == [sock[fd] EXCEPT !.inq = <<r>>]
  <2>1. fd \in live /\ r \in RequestType /\ peer[fd].handshake = 0 /\ peer[fd].buf = <<>>
    BY <1>10, TrafficAssumption DEF ClientRequests
  <2>2. <<r>> \in Seq(RequestType \cup MessageType) /\ Head(<<r>>) = r
    BY <2>1
  <2>3. s \in SockType
    BY <1>1, <2>2 DEF SockType
  <2>4. FdInv(peer[fd], s)
    BY <1>1, <2>1, <2>2, <2>3 DEF FdInv, WatchInv, ShakeInv, SockType
  <2>5. sock' = [sock EXCEPT ![fd] = s] /\ sends' \in 0 .. MaxSends
        /\ UNCHANGED <<live, peersN, peer, pending, batch, cur, dirty, fault, conns>>
    BY <1>1, <1>10 DEF ClientRequests, world, TypeOK
  <2> HIDE DEF s
  <2>6. QED
    BY <2>1, <2>4, <2>5, SocketStep
<1>11. QED
  BY <1>5, <1>7, <1>8, <1>9, <1>10 DEF ClientStep

LEMMA NextInv == IInv /\ [Next]_vars => IInv'
<1> SUFFICES ASSUME IInv, [Next]_vars PROVE IInv'
  OBVIOUS
<1>1. CASE ServerStep
  <2>1. CASE Wait \/ Accept \/ AcceptFails \/ CreateFails
    BY <2>1, LoopStepInv
  <2>2. ASSUME NEW fd \in Fds, EventStep(fd) PROVE IInv'
    BY <2>2, EventStepInv
  <2>3. ASSUME NEW fd \in Fds, LoopStep(fd) PROVE IInv'
    BY <2>3, HandshakeInv, FrameInv DEF LoopStep
  <2>4. QED
    BY <1>1, <2>1, <2>2, <2>3 DEF ServerStep
<1>2. CASE ClientStep
  BY <1>2, ClientStepInv
<1>3. CASE UNCHANGED vars
  <2>1. UNCHANGED <<live, peersN, peer, sock, pending, batch, cur, dirty, fault, conns, sends>>
    BY <1>3 DEF vars
  <2>2. TypeOK'
    BY <2>1 DEF IInv, TypeOK
  <2>3. TableOK' /\ LoopInv'
    BY <2>1 DEF IInv, TableOK, LoopInv
  <2>4. QED
    BY <2>1, <2>2, <2>3 DEF IInv
<1>4. QED
  BY <1>1, <1>2, <1>3 DEF Next

-----------------------------------------------------------------------------
(* The theorems *)

\* The inductive invariant of the server: every reachable state satisfies it.
THEOREM Invariance == Spec => []IInv
BY InitInv, NextInv, PTL DEF Spec

\* The peer table, the peers, the sockets and the loop's variables keep their
\* types through accept, the handshake, control requests, forwarding and every
\* failure; in particular no peer keeps more variables than vpn_ws_peer holds.
THEOREM TypeCorrect == Spec => []TypeOK
<1>1. IInv => TypeOK
  BY DEF IInv
<1>2. QED
  BY <1>1, Invariance, PTL

\* vpn_ws_manage_fd reads peers[fd] for every event of the batch: that index is
\* inside the table, and an entry that is not in use remembers no earlier peer.
THEOREM TableCorrect == Spec => []TableOK
<1>1. IInv => TableOK
  BY DEF IInv
<1>2. QED
  BY <1>1, Invariance, PTL

\* Whatever is left in a write buffer, by the handshake, a control reply, a
\* frame forwarded by another peer or a partial write of the event loop, has
\* its socket watched for output.
THEOREM PendingAlwaysWatched == Spec => []PendingWatched
<1>1. IInv => PendingWatched
  BY DEF IInv, TypeOK, FdInv, WatchInv, PendingWatched
<1>2. QED
  BY <1>1, Invariance, PTL
=============================================================================
