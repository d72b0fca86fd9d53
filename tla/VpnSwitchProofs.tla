-------------------------- MODULE VpnSwitchProofs --------------------------
(***************************************************************************)
(* Proof that the server implements the learning switch of EthernetSwitch,  *)
(* for every number of descriptors, addresses and messages.  Beside IInv it  *)
(* needs what a peer keeps of its request: a handshake whose reply blocked   *)
(* is done again, and must announce the same address as before.             *)
(***************************************************************************)
EXTENDS VpnParserProofs, VpnSwitch, WellFoundedInduction

-----------------------------------------------------------------------------
(* The frames of a queue: FramesIn is defined by recursion over its length, *)
(* and least counterexamples take the place of induction.                   *)

Below == {p \in Nat \X Nat : p[1] < p[2]}

LEMMA Least == ASSUME NEW T \in SUBSET Nat, T # {} PROVE \E m \in T : \A k \in T : m <= k
<1>1. IsWellFoundedOn(Below, Nat)
  BY NatLessThanWellFounded DEF OpToRel, Below
<1>2. PICK m \in T : \A k \in T : ~(<<k, m>> \in Below)
  BY <1>1, WFMin
<1>3. ASSUME NEW k \in T PROVE m <= k
  <2>1. m \in Nat /\ k \in Nat
    OBVIOUS
  <2>2. <<k, m>> \in Nat \X Nat
    BY <2>1
  <2>3. ~(k < m)
    BY <1>2, <2>2 DEF Below
  <2>4. QED
    BY <2>1, <2>3
<1>4. QED
  BY <1>3

\* The frames of the first n items of q, when f has those of the first n - 1.
UpTo(q, f, n) ==
    IF n = 0 THEN <<>>
    ELSE IF q[n].type = "frame" THEN Append(f[n - 1], FrameOf(q[n]))
    ELSE f[n - 1]

\* f collects the frames of the first k items of q.
Collects(f, q, k) == f = [n \in 0 .. k |-> UpTo(q, f, n)]

LEMMA CollectsExists ==
    ASSUME NEW q, NEW k \in Nat
    PROVE  \E f : Collects(f, q, k)
<1> DEFINE T == {n \in Nat : ~\E f : Collects(f, q, n)}
<1>1. SUFFICES ASSUME T # {} PROVE FALSE
  OBVIOUS
<1>2. T \in SUBSET Nat
  OBVIOUS
<1>3. PICK m \in T : \A n \in T : m <= n
  BY <1>1, <1>2, Least
<1>4. m \in Nat /\ ~\E f : Collects(f, q, m)
  OBVIOUS
<1>5. CASE m = 0
  <2> DEFINE f == [n \in 0 .. 0 |-> <<>>]
  <2>1. \A n \in 0 .. 0 : UpTo(q, f, n) = <<>>
    BY DEF UpTo
  <2>2. f = [n \in 0 .. 0 |-> UpTo(q, f, n)]
    BY <2>1
  <2>3. QED
    BY <1>4, <1>5, <2>2 DEF Collects
<1>6. CASE m # 0
  <2>1. m - 1 \in Nat /\ m - 1 \notin T
    BY <1>3, <1>4, <1>6
  <2>2. PICK f : Collects(f, q, m - 1)
    BY <2>1
  <2> DEFINE g == [n \in 0 .. m |-> IF n = m THEN UpTo(q, f, m) ELSE f[n]]
  <2>3. ASSUME NEW n \in 0 .. m PROVE g[n] = UpTo(q, g, n)
    <3>1. n # 0 => g[n - 1] = f[n - 1]
      BY <1>4
    <3>2. UpTo(q, g, n) = UpTo(q, f, n)
      BY <3>1 DEF UpTo
    <3>3. n # m => f[n] = UpTo(q, f, n)
      <4>1. n # m => n \in 0 .. m - 1
        BY <1>4
      <4>2. QED
        BY <2>2, <4>1 DEF Collects
    <3>4. QED
      BY <3>2, <3>3
  <2> HIDE DEF g
  <2>4. g = [n \in 0 .. m |-> g[n]]
    BY DEF g
  <2>5. g = [n \in 0 .. m |-> UpTo(q, g, n)]
    BY <2>3, <2>4
  <2>6. QED
    BY <1>4, <2>5 DEF Collects
<1>7. QED
  BY <1>5, <1>6

\* What is collected of the first items does not depend on the others.
LEMMA CollectsSame ==
    ASSUME NEW q, NEW r, NEW k \in Nat, NEW l \in Nat, k <= l,
           \A i \in 1 .. k : q[i] = r[i],
           NEW f, Collects(f, q, k), NEW g, Collects(g, r, l)
    PROVE  f[k] = g[k]
<1> DEFINE T == {n \in 0 .. k : f[n] # g[n]}
<1>1. SUFFICES ASSUME T # {} PROVE FALSE
  OBVIOUS
<1>2. T \in SUBSET Nat
  OBVIOUS
<1>3. PICK m \in T : \A n \in T : m <= n
  BY <1>1, <1>2, Least
<1>4. m \in 0 .. k /\ m \in 0 .. l /\ f[m] # g[m]
  OBVIOUS
<1>5. f[m] = UpTo(q, f, m) /\ g[m] = UpTo(r, g, m)
  BY <1>4 DEF Collects
<1>6. m # 0
  BY <1>4, <1>5 DEF UpTo
<1>7. m - 1 \in 0 .. k /\ m - 1 \notin T
  BY <1>3, <1>4, <1>6
<1>8. f[m - 1] = g[m - 1] /\ q[m] = r[m]
  BY <1>4, <1>6, <1>7
<1>9. UpTo(q, f, m) = UpTo(r, g, m)
  BY <1>8 DEF UpTo
<1>10. QED
  BY <1>4, <1>5, <1>9

LEMMA FramesInCollected ==
    ASSUME NEW q, Len(q) \in Nat
    PROVE  \E f : Collects(f, q, Len(q)) /\ FramesIn(q) = f[Len(q)]
<1> DEFINE f == CHOOSE g : Collects(g, q, Len(q))
<1>1. Collects(f, q, Len(q))
  BY CollectsExists
<1>2. FramesIn(q) = f[Len(q)]
  BY DEF FramesIn, Collects, UpTo
<1>3. QED
  BY <1>1, <1>2

\* An item behind a queue adds itself, if it is a frame.
LEMMA FramesInAppend ==
    ASSUME NEW S, NEW q \in Seq(S), NEW x \in S
    PROVE  FramesIn(Append(q, x)) =
             IF x.type = "frame" THEN Append(FramesIn(q), FrameOf(x)) ELSE FramesIn(q)
<1> DEFINE r == Append(q, x)
           k == Len(q)
<1>1. /\ k \in Nat /\ Len(r) = k + 1 /\ r[k + 1] = x
      /\ \A i \in 1 .. k : q[i] = r[i]
  BY AppendProperties, LenProperties
<1> HIDE DEF r
<1>2. PICK f : Collects(f, q, k) /\ FramesIn(q) = f[k]
  BY <1>1, FramesInCollected
<1>3. PICK g : Collects(g, r, k + 1) /\ FramesIn(r) = g[k + 1]
  BY <1>1, FramesInCollected
<1> HIDE DEF k
<1>4. f[k] = g[k]
  BY <1>1, <1>2, <1>3, CollectsSame
<1>5. k + 1 \in 0 .. k + 1 /\ k + 1 # 0 /\ (k + 1) - 1 = k
  BY <1>1
<1>6. g[k + 1] = UpTo(r, g, k + 1)
  BY <1>3, <1>5 DEF Collects
<1>7. UpTo(r, g, k + 1) = IF x.type = "frame" THEN Append(g[k], FrameOf(x)) ELSE g[k]
  BY <1>1, <1>5 DEF UpTo
<1>8. QED
  BY <1>2, <1>3, <1>4, <1>6, <1>7 DEF r

LEMMA FramesInNone == FramesIn(<<>>) = <<>>
<1>1. Len(<<>>) = 0
  OBVIOUS
<1>2. PICK f : Collects(f, <<>>, 0) /\ FramesIn(<<>>) = f[0]
  BY <1>1, FramesInCollected
<1>3. f[0] = UpTo(<<>>, f, 0)
  BY <1>2 DEF Collects
<1>4. QED
  BY <1>2, <1>3 DEF UpTo

\* A reply adds no frame to what goes out, and a frame adds itself.
LEMMA GivenAppend ==
    ASSUME NEW a \in Seq(ItemType), NEW b \in Seq(ItemType), NEW item \in ItemType
    PROVE  FramesIn(a \o Append(b, item)) =
             IF item.type = "frame" THEN Append(FramesIn(a \o b), FrameOf(item))
             ELSE FramesIn(a \o b)
<1>1. <<item>> \in Seq(ItemType) /\ a \o b \in Seq(ItemType)
  BY ConcatProperties
<1>2. Append(b, item) = b \o <<item>> /\ Append(a \o b, item) = (a \o b) \o <<item>>
  BY <1>1, AppendIsConcat
<1>3. a \o Append(b, item) = Append(a \o b, item)
  BY <1>1, <1>2, ConcatAssociative
<1> DEFINE c == a \o b
<1>4. c \in Seq(ItemType)
  BY <1>1
<1> HIDE DEF c
<1>5. FramesIn(Append(c, item)) =
        IF item.type = "frame" THEN Append(FramesIn(c), FrameOf(item)) ELSE FramesIn(c)
  BY <1>4, FramesInAppend
<1>6. QED
  BY <1>3, <1>5 DEF c

\* Whatever a write of q leaves behind, q is what goes out after the history.
LEMMA OutWritten ==
    ASSUME NEW s \in SockType, NEW q \in Seq(ItemType), NEW left \in 0 .. Len(q),
           NEW p1, p1.writeBuf = Unwritten(q, left),
           NEW s1, s1.sent = SockWrote(s, q, left).sent
    PROVE  Out(p1, s1) = s.sent \o q
<1> DEFINE a == s.sent
<1>1. a \in Seq(ItemType)
  BY DEF SockType
<1>2. s1.sent = a \o SubSeq(q, 1, Len(q) - left)
  BY DEF SockWrote, SockType
<1> HIDE DEF a
<1>3. (a \o SubSeq(q, 1, Len(q) - left)) \o Unwritten(q, left) = a \o q
  BY <1>1, WrittenOut
<1>4. QED
  BY <1>2, <1>3 DEF Out, a

-----------------------------------------------------------------------------
(* The ports of the switch *)

\* A port as the switch sees it: its addresses and the frames it was given.
KnownTo(p) == IF p.macCollected THEN {p.mac} \cup p.macs ELSE {}
Given(p, s) == FramesIn(Out(p, s))

SamePort(p, s, p1, s1) ==
    /\ KnownTo(p1) = KnownTo(p) /\ p1.bridge = p.bridge
    /\ Given(p1, s1) = Given(p, s)

\* What a peer announced is in the request at the head of its buffer, for as
\* long as the reply to that request is blocked.
Announced(p, r) == r.macAt # "absent" /\ p.mac = r.mac /\ (r.bridge => p.bridge)

AddressInv(p) ==
    /\ ~p.macCollected => p.macs = {}
    /\ p.handshake = 0 /\ p.macCollected => p.buf # <<>> /\ Announced(p, Head(p.buf))

Addressed == \A fd \in Fds : AddressInv(peer[fd])

\* What a step has to show.
SwitchStep == Switch!SwitchNext \/ UNCHANGED Switch!svars

LEMMA Ports ==
    /\ KnownMacs = [fd \in Fds |-> KnownTo(peer[fd])]
    /\ FramesGiven = [fd \in Fds |-> Given(peer[fd], sock[fd])]
BY DEF KnownMacs, KnownTo, FramesGiven, Given, Output, Out

LEMMA PortsAfter ==
    /\ KnownMacs' = [fd \in Fds |-> KnownTo(peer'[fd])]
    /\ FramesGiven' = [fd \in Fds |-> Given(peer'[fd], sock'[fd])]
BY DEF KnownMacs, KnownTo, FramesGiven, Given, Output, Out

LEMMA FreshPort ==
    /\ KnownTo(FreshPeer) = {} /\ Given(FreshPeer, FreshSock) = <<>>
    /\ AddressInv(FreshPeer) /\ ~FreshPeer.bridge
<1>1. /\ ~FreshPeer.macCollected /\ FreshPeer.macs = {} /\ ~FreshPeer.bridge
      /\ FreshPeer.writeBuf = <<>> /\ FreshSock.sent = <<>>
  BY DEF FreshPeer, FreshSock
<1>2. <<>> \o <<>> = <<>>
  OBVIOUS
<1>3. QED
  BY <1>1, <1>2, FramesInNone DEF KnownTo, Given, Out, AddressInv

\* No port changes.
LEMMA SamePorts ==
    ASSUME live \subseteq Fds, live' = live,
           \A g \in Fds : SamePort(peer[g], sock[g], peer'[g], sock'[g])
    PROVE  SwitchStep
<1>1. KnownMacs' = KnownMacs /\ FramesGiven' = FramesGiven
  BY Ports, PortsAfter DEF SamePort
<1>2. {fd \in live : peer[fd].bridge}' = {fd \in live : peer[fd].bridge}
  BY DEF SamePort
<1>3. QED
  BY <1>1, <1>2 DEF SwitchStep, Switch!svars

\* One peer and its socket change, and the port they are does not.
LEMMA OnePort ==
    ASSUME IInv, Addressed, NEW fd \in Fds, NEW p, NEW s, AddressInv(p),
           SamePort(peer[fd], sock[fd], p, s), live' = live,
           peer' = [peer EXCEPT ![fd] = p], sock' = [sock EXCEPT ![fd] = s]
    PROVE  Addressed' /\ SwitchStep
<1>1. peer \in [Fds -> PeerType] /\ sock \in [Fds -> SockType] /\ live \subseteq Fds
  BY DEF IInv, TypeOK
<1>2. \A g \in Fds : peer'[g] = (IF g = fd THEN p ELSE peer[g])
                     /\ sock'[g] = (IF g = fd THEN s ELSE sock[g])
  BY <1>1
<1>3. \A g \in Fds : SamePort(peer[g], sock[g], peer'[g], sock'[g])
  BY <1>2 DEF SamePort
<1>4. QED
  BY <1>1, <1>2, <1>3, SamePorts DEF Addressed

\* Peers are destroyed and their ports unplugged; the others stay what they are.
LEMMA UnplugPorts ==
    ASSUME IInv, Addressed, NEW S \in SUBSET live, live' = live \ S,
           \A g \in S : peer'[g] = FreshPeer /\ sock'[g] = FreshSock,
           \A g \in Fds \ S : AddressInv(peer'[g]) /\ SamePort(peer[g], sock[g], peer'[g], sock'[g])
    PROVE  Addressed' /\ SwitchStep
<1>1. live \subseteq Fds
  BY DEF IInv, TypeOK
<1>2. Addressed'
  BY FreshPort DEF Addressed
<1>3. KnownMacs' = [g \in Fds |-> IF g \in S THEN {} ELSE KnownMacs[g]]
  BY Ports, PortsAfter, FreshPort DEF SamePort
<1>4. FramesGiven' = [g \in Fds |-> IF g \in S THEN <<>> ELSE FramesGiven[g]]
  BY Ports, PortsAfter, FreshPort DEF SamePort
<1>5. {g \in live : peer[g].bridge}' = {g \in live : peer[g].bridge} \ S
  BY <1>1 DEF SamePort
<1>6. Switch!Unplug(S)
  BY <1>3, <1>4, <1>5 DEF Switch!Unplug, Switch!Unplugged
<1>7. QED
  BY <1>2, <1>6 DEF SwitchStep, Switch!SwitchNext

LEMMA DestroyPorts ==
    ASSUME IInv, Addressed, NEW S \in SUBSET live, Destroy(S)
    PROVE  Addressed' /\ SwitchStep
<1>1. live \subseteq Fds /\ live' = live \ S
  BY DEF IInv, TypeOK, Destroy
<1>2. \A g \in S : peer'[g] = FreshPeer /\ sock'[g] = FreshSock
  BY <1>1 DEF Destroy
<1>3. \A g \in Fds \ S : AddressInv(peer'[g]) /\ SamePort(peer[g], sock[g], peer'[g], sock'[g])
  BY DEF Destroy, Addressed, SamePort
<1>4. QED
  BY <1>1, <1>2, <1>3, UnplugPorts

LEMMA QuietPorts ==
    ASSUME IInv, Addressed, UNCHANGED <<live, peer, sock>>
    PROVE  Addressed' /\ SwitchStep
<1>1. live \subseteq Fds /\ \A g \in Fds : SamePort(peer[g], sock[g], peer'[g], sock'[g])
  BY DEF IInv, TypeOK, SamePort
<1>2. QED
  BY <1>1, SamePorts DEF Addressed

-----------------------------------------------------------------------------
(* What the steps do to one port *)

\* Bytes are read behind a request that is there already, if there is one.
LEMMA ReadPort ==
    ASSUME NEW p, NEW s, FdInv(p, s), AddressInv(p), s.inq # <<>>, NEW k \in 1 .. Len(s.inq)
    PROVE  LET p1 == [p EXCEPT !.buf = @ \o SubSeq(s.inq, 1, k)]
               s1 == [s EXCEPT !.inq = SubSeq(s.inq, k + 1, Len(s.inq))]
           IN AddressInv(p1) /\ SamePort(p, s, p1, s1)
<1> DEFINE Bytes == RequestType \cup MessageType
           got == SubSeq(s.inq, 1, k)
           p1 == [p EXCEPT !.buf = @ \o got]
           s1 == [s EXCEPT !.inq = SubSeq(s.inq, k + 1, Len(s.inq))]
<1>1. p \in PeerType /\ s \in SockType /\ p.buf \in Seq(Bytes) /\ s.inq \in Seq(Bytes)
  BY DEF FdInv, PeerType, SockType
<1>2. Len(s.inq) \in Nat /\ \A i \in 1 .. Len(s.inq) : s.inq[i] \in Bytes
  BY <1>1, ElementOfSeq, LenProperties
<1>3. got \in Seq(Bytes)
  <2>1. \A i \in 1 .. k : s.inq[i] \in Bytes
    BY <1>2
  <2>2. QED
    BY <1>2, <2>1, SubSeqProperties
<1> HIDE DEF got, Bytes
<1>4. p.buf # <<>> => p.buf \o got # <<>> /\ Head(p.buf \o got) = Head(p.buf)
  <2>1. /\ Len(p.buf) \in Nat /\ Len(got) \in Nat /\ Len(p.buf \o got) = Len(p.buf) + Len(got)
        /\ p.buf \o got \in Seq(Bytes)
        /\ (p.buf # <<>> => Len(p.buf) > 0 /\ Head(p.buf) = p.buf[1] /\ (p.buf \o got)[1] = p.buf[1])
    BY <1>1, <1>3, ConcatProperties, LenProperties, EmptySeq, HeadTailProperties
  <2>2. QED
    BY <2>1, EmptySeq, HeadTailProperties
<1>5. /\ p1.buf = p.buf \o got /\ p1.handshake = p.handshake /\ p1.macCollected = p.macCollected
      /\ p1.mac = p.mac /\ p1.macs = p.macs /\ p1.bridge = p.bridge /\ p1.writeBuf = p.writeBuf
      /\ s1.sent = s.sent
  BY <1>1 DEF PeerType, SockType
<1> HIDE DEF p1, s1
<1>6. AddressInv(p1)
  BY <1>4, <1>5 DEF AddressInv, Announced
<1>7. SamePort(p, s, p1, s1)
  BY <1>5 DEF SamePort, KnownTo, Given, Out
<1>8. QED
  BY <1>6, <1>7 DEF p1, s1, got

\* The write buffer is written, or part of it.
LEMMA WrittenPort ==
    ASSUME NEW p, NEW s, FdInv(p, s), AddressInv(p), NEW left \in 0 .. Len(p.writeBuf),
           NEW p1, p1.writeBuf = Unwritten(p.writeBuf, left),
           p1.buf = p.buf, p1.handshake = p.handshake, p1.macCollected = p.macCollected,
           p1.mac = p.mac, p1.macs = p.macs, p1.bridge = p.bridge,
           NEW s1, s1.sent = SockWrote(s, p.writeBuf, left).sent
    PROVE  AddressInv(p1) /\ SamePort(p, s, p1, s1)
<1> DEFINE q == p.writeBuf
<1>1. s \in SockType /\ q \in Seq(ItemType) /\ left \in 0 .. Len(q)
      /\ p1.writeBuf = Unwritten(q, left) /\ s1.sent = SockWrote(s, q, left).sent
  BY DEF FdInv, PeerType
<1> HIDE DEF q
<1>2. Out(p1, s1) = s.sent \o q
  BY <1>1, OutWritten
<1>3. Out(p1, s1) = Out(p, s)
  BY <1>2 DEF Out, q
<1>4. QED
  BY <1>3 DEF AddressInv, Announced, SamePort, KnownTo, Given

\* The event loop, accept() and the events of the batch.
LEMMA EventPorts ==
    ASSUME IInv, Addressed,
           Wait \/ AcceptFails \/ CreateFails \/ \E fd \in Fds : EventStep(fd)
    PROVE  Addressed' /\ SwitchStep
<1>1. CASE Wait \/ AcceptFails \/ CreateFails
  BY <1>1, QuietPorts DEF Wait, AcceptFails, CreateFails
<1>2. ASSUME NEW fd \in Fds, EventStep(fd) PROVE Addressed' /\ SwitchStep
  <2>1. /\ peer[fd] \in PeerType /\ sock[fd] \in SockType /\ FdInv(peer[fd], sock[fd])
        /\ AddressInv(peer[fd])
    BY DEF IInv, TypeOK, Addressed
  <2>2. CASE ManageMissing(fd) \/ ReadNothing(fd)
    BY <2>2, QuietPorts DEF ManageMissing, ReadNothing
  <2>3. CASE WriteFails(fd) \/ ReadFails(fd)
    <3>1. {fd} \in SUBSET live /\ Destroy({fd})
      BY <2>3 DEF WriteFails, ReadFails, WritingEvent, ReadingEvent
    <3>2. QED
      BY <3>1, DestroyPorts
  <2>4. ASSUME NEW p, NEW s, peer' = [peer EXCEPT ![fd] = p], sock' = [sock EXCEPT ![fd] = s],
               live' = live, AddressInv(p) /\ SamePort(peer[fd], sock[fd], p, s)
        PROVE  Addressed' /\ SwitchStep
    BY <2>4, OnePort
  <2>5. CASE WriteSome(fd)
    <3> DEFINE q == peer[fd].writeBuf
    <3>1. PICK left \in Outcomes(fd, q) \ {0, -1} :
            /\ peer' = [peer EXCEPT ![fd].writeBuf = Unwritten(q, left)]
            /\ sock' = [sock EXCEPT ![fd] = SockWrote(@, q, left)]
      BY <2>5 DEF WriteSome
    <3> DEFINE p == [peer[fd] EXCEPT !.writeBuf = Unwritten(q, left)]
               s == SockWrote(sock[fd], q, left)
    <3>2. left \in 0 .. Len(q)
      <4>1. Outcomes(fd, q) \subseteq -1 .. Len(q) /\ Len(q) \in Nat
        BY <2>1, OutcomesRange, LenProperties DEF IInv, PeerType
      <4>2. QED
        BY <4>1
    <3>3. /\ p.writeBuf = Unwritten(q, left)
          /\ p.buf = peer[fd].buf /\ p.handshake = peer[fd].handshake
          /\ p.macCollected = peer[fd].macCollected
          /\ p.mac = peer[fd].mac /\ p.macs = peer[fd].macs /\ p.bridge = peer[fd].bridge
      BY <2>1 DEF PeerType
    <3>4. peer' = [peer EXCEPT ![fd] = p] /\ sock' = [sock EXCEPT ![fd] = s] /\ live' = live
      BY <2>5, <3>1 DEF WriteSome
    <3>5. s.sent = SockWrote(sock[fd], q, left).sent
      OBVIOUS
    <3> HIDE DEF p, s
    <3>6. AddressInv(p) /\ SamePort(peer[fd], sock[fd], p, s)
      BY <2>1, <3>2, <3>3, <3>5, WrittenPort
    <3>7. QED
      BY <2>4, <3>4, <3>6
  <2>6. CASE WriteAll(fd) \/ WatchInputFails(fd)
    <3> DEFINE q == peer[fd].writeBuf
               p == [peer[fd] EXCEPT !.isWriting = FALSE, !.writeBuf = <<>>]
               r == SockWrote(sock[fd], q, 0)
               t == [r EXCEPT !.interest = "in"]
    <3>1. ~(peer[fd].handshake > 1)
      <4>1. peer[fd].handshake \in {0, 1}
        BY <2>1 DEF PeerType
      <4>2. QED
        BY <4>1
    <3>2. /\ peer' = [peer EXCEPT ![fd] = p] /\ live' = live
          /\ sock' = [sock EXCEPT ![fd] = r] \/ sock' = [sock EXCEPT ![fd] = t]
      BY <2>6, <3>1 DEF WriteAll, WatchInputFails
    <3>3. 0 \in 0 .. Len(q) /\ Unwritten(q, 0) = <<>> /\ r \in SockType
      <4>1. Len(q) \in Nat /\ q \in Seq(ItemType)
        BY <2>1, LenProperties DEF PeerType
      <4>2. QED
        BY <2>1, <4>1, WriteProperties
    <3>4. /\ p.writeBuf = Unwritten(q, 0)
          /\ p.buf = peer[fd].buf /\ p.handshake = peer[fd].handshake
          /\ p.macCollected = peer[fd].macCollected
          /\ p.mac = peer[fd].mac /\ p.macs = peer[fd].macs /\ p.bridge = peer[fd].bridge
      BY <2>1, <3>3 DEF PeerType
    <3>5. t.sent = r.sent /\ r.sent = SockWrote(sock[fd], q, 0).sent
      BY <3>3 DEF SockType
    <3>6. ASSUME NEW s, sock' = [sock EXCEPT ![fd] = s], s.sent = SockWrote(sock[fd], q, 0).sent
          PROVE  Addressed' /\ SwitchStep
      <4> HIDE DEF p, r, t
      <4>1. AddressInv(p) /\ SamePort(peer[fd], sock[fd], p, s)
        BY <2>1, <3>3, <3>4, <3>6, WrittenPort
      <4>2. QED
        BY <2>4, <3>2, <3>6, <4>1
    <3> HIDE DEF p, r, t
    <3>7. QED
      BY <3>2, <3>5, <3>6
  <2>7. CASE ReadMessages(fd)
    <3> DEFINE q == sock[fd].inq
    <3>1. PICK k \in 1 .. (IF peer[fd].raw THEN 1 ELSE Len(q)) :
            /\ peer' = [peer EXCEPT ![fd].buf = @ \o SubSeq(q, 1, k)]
            /\ sock' = [sock EXCEPT ![fd].inq = SubSeq(q, k + 1, Len(q))]
      BY <2>7 DEF ReadMessages
    <3>2. q # <<>> /\ k \in 1 .. Len(q)
      <4>1. q # <<>> /\ Len(q) \in Nat /\ Len(q) # 0
        BY <2>1, <2>7, EmptySeq, LenProperties DEF ReadMessages, SockType
      <4>2. QED
        BY <3>1, <4>1
    <3> DEFINE p == [peer[fd] EXCEPT !.buf = @ \o SubSeq(q, 1, k)]
               s == [sock[fd] EXCEPT !.inq = SubSeq(q, k + 1, Len(q))]
    <3>3. AddressInv(p) /\ SamePort(peer[fd], sock[fd], p, s)
      BY <2>1, <3>2, ReadPort
    <3>4. peer' = [peer EXCEPT ![fd] = p] /\ sock' = [sock EXCEPT ![fd] = s] /\ live' = live
      BY <2>7, <3>1 DEF ReadMessages
    <3> HIDE DEF p, s
    <3>5. QED
      BY <2>4, <3>3, <3>4
  <2>8. QED
    BY <1>2, <2>2, <2>3, <2>5, <2>6, <2>7 DEF EventStep
<1>3. QED
  BY <1>1, <1>2

\* A connection is accepted: its descriptor is plugged in.
LEMMA AcceptPort == ASSUME IInv, Addressed, Accept PROVE Addressed' /\ SwitchStep
<1>1. PICK fd \in Lowest(Fds \ live) :
        /\ live' = live \cup {fd}
        /\ peer' = [peer EXCEPT ![fd] = FreshPeer] /\ sock' = [sock EXCEPT ![fd] = FreshSock]
  BY DEF Accept
<1>2. fd \in Fds \ live
  BY DEF Lowest
<1>3. peer[fd] = FreshPeer /\ sock[fd] = FreshSock
  BY <1>2 DEF IInv, TableOK
<1>4. peer' = peer /\ sock' = sock
  BY <1>1, <1>2, <1>3 DEF IInv, TypeOK
<1>5. KnownMacs' = KnownMacs /\ FramesGiven' = FramesGiven
  BY <1>4, Ports, PortsAfter
<1>6. {g \in live : peer[g].bridge}' = {g \in live : peer[g].bridge}
  BY <1>1, <1>3, <1>4, FreshPort
<1>7. Switch!Plug(fd)
  BY <1>1, <1>2, <1>5, <1>6 DEF Switch!Plug
<1>8. QED
  BY <1>2, <1>4, <1>7 DEF SwitchStep, Switch!SwitchNext, Addressed

\* Reading the address out of a request changes neither it nor the bridge mark.
LEMMA AddressReadHead ==
    ASSUME NEW b \in Seq(RequestType \cup MessageType), b # <<>>, Head(b) \in RequestType
    PROVE  LET r == Head(AddressRead(b))
           IN r.macAt = Head(b).macAt /\ r.mac = Head(b).mac /\ r.bridge = Head(b).bridge
<1> DEFINE Bytes == RequestType \cup MessageType
           Same(r) == r.macAt = b[1].macAt /\ r.mac = b[1].mac /\ r.bridge = b[1].bridge
<1>1. Len(b) \in Nat /\ Len(b) > 0 /\ Head(b) = b[1] /\ b[1] \in Bytes /\ b[1] \in RequestType
  BY EmptySeq, LenProperties, HeadTailProperties
<1>2. CASE Head(b).macAt = "inside"
  <2> DEFINE c == [b[1] EXCEPT !.cut = TRUE]
             d == [b EXCEPT ![1] = c]
  <2>1. c \in RequestType /\ Same(c)
    BY <1>1 DEF RequestType
  <2>2. AddressRead(b) = d
    BY <1>2 DEF AddressRead
  <2>3. c \in Bytes /\ 1 \in 1 .. Len(b)
    BY <1>1, <2>1
  <2> HIDE DEF c
  <2>4. d \in Seq(Bytes) /\ Len(d) = Len(b) /\ d[1] = c
    BY <2>3, ExceptSeq
  <2> HIDE DEF d, Bytes
  <2>5. Head(d) = c
    BY <1>1, <2>4, EmptySeq, HeadTailProperties
  <2>6. QED
    BY <1>1, <2>1, <2>2, <2>5
<1>3. CASE Head(b).macAt = "last" /\ Len(b) > 1 /\ b[2] \in {Close, Ping}
  <2> DEFINE d == [b EXCEPT ![2] = Short]
  <2>1. Short \in Bytes /\ 2 \in 1 .. Len(b) /\ 1 \in 1 .. Len(b)
    BY <1>1, <1>3 DEF MessageType
  <2>2. d \in Seq(Bytes) /\ Len(d) = Len(b) /\ d[1] = b[1]
    BY <2>1, ExceptSeq
  <2>3. AddressRead(b) = d
    BY <1>3 DEF AddressRead, RequestType
  <2> HIDE DEF d, Bytes
  <2>4. Head(d) = b[1]
    BY <1>1, <2>2, EmptySeq, HeadTailProperties
  <2>5. QED
    BY <1>1, <2>3, <2>4
<1>4. CASE /\ Head(b).macAt # "inside"
           /\ ~(Head(b).macAt = "last" /\ Len(b) > 1 /\ b[2] \in {Close, Ping})
  BY <1>4 DEF AddressRead
<1>5. QED
  BY <1>2, <1>3, <1>4

\* A port without an address gets one, or the mark of a bridge.
LEMMA AnnouncedPort ==
    ASSUME IInv, Addressed, NEW fd \in live, NEW p, NEW s, AddressInv(p), live' = live,
           peer' = [peer EXCEPT ![fd] = p], sock' = [sock EXCEPT ![fd] = s],
           Given(p, s) = Given(peer[fd], sock[fd]), KnownTo(peer[fd]) = {},
           \/ KnownTo(p) = {} /\ p.bridge
           \/ \E mac \in Macs, b \in BOOLEAN :
                KnownTo(p) = {mac} /\ p.bridge = (peer[fd].bridge \/ b)
    PROVE  Addressed' /\ SwitchStep
<1>1. peer \in [Fds -> PeerType] /\ sock \in [Fds -> SockType] /\ live \subseteq Fds
  BY DEF IInv, TypeOK
<1>2. \A g \in Fds : peer'[g] = (IF g = fd THEN p ELSE peer[g])
                     /\ sock'[g] = (IF g = fd THEN s ELSE sock[g])
  BY <1>1
<1>3. Addressed'
  BY <1>2 DEF Addressed
<1>4. FramesGiven' = FramesGiven
  BY <1>2, Ports, PortsAfter
<1>5. KnownMacs' = [KnownMacs EXCEPT ![fd] = KnownTo(p)] /\ KnownMacs[fd] = {}
  BY <1>1, <1>2, Ports, PortsAfter
<1>6. {g \in live : peer[g].bridge}' =
        IF p.bridge THEN {g \in live : peer[g].bridge} \cup {fd}
        ELSE {g \in live : peer[g].bridge} \ {fd}
  BY <1>1, <1>2
<1>7. CASE KnownTo(p) = {} /\ p.bridge
  <2>1. KnownMacs' = KnownMacs
    BY <1>1, <1>5, <1>7, Ports
  <2>2. Switch!BecomeBridge(fd)
    BY <1>4, <1>5, <1>6, <1>7, <2>1 DEF Switch!BecomeBridge
  <2>3. QED
    BY <1>1, <1>3, <2>2 DEF SwitchStep, Switch!SwitchNext
<1>8. ASSUME NEW mac \in Macs, NEW b \in BOOLEAN,
             KnownTo(p) = {mac} /\ p.bridge = (peer[fd].bridge \/ b)
      PROVE  SwitchStep
  <2>1. {g \in live : peer[g].bridge}' =
          IF b THEN {g \in live : peer[g].bridge} \cup {fd} ELSE {g \in live : peer[g].bridge}
    BY <1>1, <1>2, <1>6, <1>8
  <2>2. Switch!Announce(fd, mac, b)
    BY <1>4, <1>5, <1>8, <2>1 DEF Switch!Announce
  <2>3. mac \in Switch!Macs
    BY DEF Switch!Macs, Macs
  <2>4. QED
    BY <1>1, <2>2, <2>3 DEF SwitchStep, Switch!SwitchNext
<1>9. QED
  BY <1>3, <1>7, <1>8

\* An upgrade names the peer's address and its bridge mark once: when the
\* request is handled again, they are what they were.
LEMMA UpgradedPort ==
    ASSUME NEW fd \in Fds, FdInv(peer[fd], sock[fd]), AddressInv(peer[fd]),
           peer[fd].handshake = 0, peer[fd].buf # <<>>, ~BadPacket(fd),
           NEW p, NEW up, up = Upgraded(fd),
           p.macCollected = up.macCollected, p.mac = up.mac, p.macs = up.macs,
           p.bridge = up.bridge, p.handshake # 0 \/ p.buf = up.buf
    PROVE  LET old == peer[fd]
           IN /\ AddressInv(p)
              /\ \/ KnownTo(p) = KnownTo(old) /\ p.bridge = old.bridge
                 \/ /\ KnownTo(old) = {}
                    /\ \/ KnownTo(p) = {} /\ p.bridge
                       \/ \E mac \in Macs, b \in BOOLEAN :
                            KnownTo(p) = {mac} /\ p.bridge = (old.bridge \/ b)
<1> DEFINE old == peer[fd]
           r == Head(old.buf)
<1>1. old \in PeerType /\ r \in RequestType
  BY DEF FdInv, ShakeInv
<1>2. /\ up.mac = (IF r.macAt = "absent" THEN old.mac ELSE r.mac)
      /\ up.macCollected = (old.macCollected \/ r.macAt # "absent")
      /\ up.bridge = (old.bridge \/ r.bridge) /\ up.macs = old.macs
  BY <1>1 DEF Upgraded, PeerType
<1>3. r.mac \in Macs /\ r.bridge \in BOOLEAN
  BY <1>1 DEF RequestType
<1>4. p.handshake = 0 =>
        /\ p.buf # <<>>
        /\ Head(p.buf).macAt = r.macAt /\ Head(p.buf).mac = r.mac /\ Head(p.buf).bridge = r.bridge
  <2>1. up.buf = AddressRead(old.buf)
    BY UpgradedTyped
  <2>2. old.buf \in Seq(RequestType \cup MessageType) /\ old.buf # <<>>
    BY <1>1 DEF PeerType
  <2>3. QED
    BY <1>1, <2>1, <2>2, AddressReadProperties, AddressReadHead
<1>5. /\ ~old.macCollected => old.macs = {}
      /\ old.macCollected => r.macAt # "absent" /\ old.mac = r.mac /\ (r.bridge => old.bridge)
  BY DEF AddressInv, Announced
<1>6. old.bridge \in BOOLEAN /\ old.macCollected \in BOOLEAN
  BY <1>1 DEF PeerType
<1> HIDE DEF r, old
<1>7. AddressInv(p)
  BY <1>2, <1>4, <1>5, <1>6 DEF AddressInv, Announced
<1>8. CASE old.macCollected
  <2>1. p.macCollected /\ p.mac = old.mac /\ p.macs = old.macs
    BY <1>2, <1>5, <1>8
  <2>2. p.bridge = (old.bridge \/ r.bridge) /\ (r.bridge => old.bridge)
    BY <1>2, <1>5, <1>8
  <2>3. p.bridge = old.bridge
    BY <1>3, <1>6, <2>2
  <2>4. KnownTo(p) = KnownTo(old)
    BY <1>8, <2>1 DEF KnownTo
  <2>5. QED
    BY <1>7, <2>3, <2>4 DEF old
<1>9. CASE ~old.macCollected /\ r.macAt = "absent"
  <2>1. ~p.macCollected
    BY <1>2, <1>9
  <2>2. KnownTo(p) = {} /\ KnownTo(old) = {}
    BY <1>9, <2>1 DEF KnownTo
  <2>3. p.bridge = (old.bridge \/ r.bridge)
    BY <1>2
  <2>4. p.bridge \/ p.bridge = old.bridge
    BY <1>3, <1>6, <2>3
  <2>5. QED
    BY <1>7, <2>2, <2>4 DEF old
<1>10. CASE ~old.macCollected /\ r.macAt # "absent"
  <2>1. p.macCollected /\ p.mac = r.mac /\ p.macs = {}
    BY <1>2, <1>5, <1>10
  <2>2. KnownTo(p) = {r.mac} /\ KnownTo(old) = {}
    BY <1>10, <2>1 DEF KnownTo
  <2>3. p.bridge = (old.bridge \/ r.bridge)
    BY <1>2
  <2>4. QED
    BY <1>7, <1>3, <2>2, <2>3 DEF old
<1>11. QED
  BY <1>6, <1>8, <1>9, <1>10

\* The descriptor in the "again" loop is that of a live peer.
LEMMA LoopingLive == ASSUME IInv, NEW fd \in Fds, Looping(fd) PROVE fd \in live
<1>1. fault = "none" /\ cur = fd
  BY DEF Looping, Running
<1>2. QED
  BY <1>1, FdFacts DEF IInv, LoopInv

\* A handshake or control request.
LEMMA HandshakePorts ==
    ASSUME IInv, Addressed, NEW fd \in Fds,
           HandshakeFails(fd) \/ HandshakeUpgrade(fd)
             \/ Control(fd) \/ ControlFault(fd) \/ ControlFails(fd)
    PROVE  Addressed' /\ SwitchStep
<1>1. /\ peer[fd] \in PeerType /\ sock[fd] \in SockType /\ FdInv(peer[fd], sock[fd])
      /\ AddressInv(peer[fd]) /\ live \subseteq Fds
      /\ peer \in [Fds -> PeerType] /\ sock \in [Fds -> SockType]
  BY DEF IInv, TypeOK, Addressed
<1>2. Shaking(fd) /\ fd \in live
  <2>1. Shaking(fd)
    BY DEF HandshakeFails, HandshakeUpgrade, Control, ControlFault, ControlFails, ControlRequest
  <2>2. QED
    BY <2>1, LoopingLive DEF Shaking
<1>3. ASSUME NEW S \in SUBSET live, LoopFails(fd, S) PROVE Addressed' /\ SwitchStep
  <2>1. S \cup {fd} \in SUBSET live /\ Destroy(S \cup {fd})
    BY <1>2, <1>3 DEF LoopFails
  <2>2. QED
    BY <2>1, DestroyPorts
<1>4. Victims(fd) \in SUBSET live /\ {} \in SUBSET live
  BY DEF Victims
<1>5. CASE HandshakeFails(fd) \/ ControlFails(fd)
  BY <1>3, <1>4, <1>5 DEF HandshakeFails, ControlFails
<1>6. CASE ControlFault(fd)
  BY <1>6, QuietPorts DEF ControlFault
<1>7. \A item \in {Reply101, Json} :
        /\ Append(peer[fd].writeBuf, item) \in Seq(ItemType)
        /\ FramesIn(sock[fd].sent \o Append(peer[fd].writeBuf, item)) = Given(peer[fd], sock[fd])
  <2> SUFFICES ASSUME NEW item \in {Reply101, Json}
               PROVE  /\ Append(peer[fd].writeBuf, item) \in Seq(ItemType)
                      /\ FramesIn(sock[fd].sent \o Append(peer[fd].writeBuf, item)) =
                           Given(peer[fd], sock[fd])
    OBVIOUS
  <2>1. item \in ItemType /\ item.type # "frame"
    BY DEF ItemType, Reply101, Json
  <2>2. peer[fd].writeBuf \in Seq(ItemType) /\ sock[fd].sent \in Seq(ItemType)
    BY <1>1 DEF PeerType, SockType
  <2>3. Append(peer[fd].writeBuf, item) \in Seq(ItemType)
    BY <2>1, <2>2, AppendProperties
  <2>4. FramesIn(sock[fd].sent \o Append(peer[fd].writeBuf, item)) =
          FramesIn(sock[fd].sent \o peer[fd].writeBuf)
    BY <2>1, <2>2, GivenAppend
  <2>5. QED
    BY <2>3, <2>4 DEF Given, Out
<1>8. CASE HandshakeUpgrade(fd)
  <2> DEFINE q == Append(peer[fd].writeBuf, Reply101)
             p == Upgraded(fd)
  <2>1. PICK left \in Outcomes(fd, q) :
            \/ left = -1 /\ LoopFails(fd, {})
            \/ /\ left = 0
               /\ peer' = [peer EXCEPT ![fd] =
                    [p EXCEPT !.handshake = 1, !.buf = Consumed(@), !.writeBuf = <<>>]]
               /\ sock' = [sock EXCEPT ![fd] = SockWrote(@, q, 0)]
               /\ UNCHANGED <<live, peersN, batch, cur, dirty, fault, world>>
            \/ /\ left > 0
               /\ peer' = [peer EXCEPT ![fd] =
                    [p EXCEPT !.isWriting = TRUE, !.writeBuf = Unwritten(q, left)]]
               /\ sock' = [sock EXCEPT ![fd] = SockBlocked(@, q, left)]
               /\ UNCHANGED <<live, peersN, fault, world>>
    BY <1>8 DEF HandshakeUpgrade
  <2>2. peer[fd].handshake = 0 /\ peer[fd].buf # <<>> /\ ~BadPacket(fd)
    BY <1>8 DEF HandshakeUpgrade, Shaking
  <2>3. q \in Seq(ItemType) /\ Len(q) \in Nat /\ left \in -1 .. Len(q)
        /\ FramesIn(sock[fd].sent \o q) = Given(peer[fd], sock[fd])
    <3>1. q \in Seq(ItemType) /\ Len(q) \in Nat
      BY <1>7, LenProperties
    <3>2. QED
      BY <1>7, <3>1, OutcomesRange DEF IInv
  <2> DEFINE a == [p EXCEPT !.handshake = 1, !.buf = Consumed(@), !.writeBuf = <<>>]
             b == [p EXCEPT !.isWriting = TRUE, !.writeBuf = Unwritten(q, left)]
             s == SockWrote(sock[fd], q, 0)
             t == SockBlocked(sock[fd], q, left)
  <2>4. p \in PeerType
    BY <1>1, <2>2, UpgradedTyped
  <2> HIDE DEF q
  <2>5. /\ a.macCollected = p.macCollected /\ a.mac = p.mac /\ a.macs = p.macs
        /\ a.bridge = p.bridge /\ a.handshake # 0 /\ a.writeBuf = <<>>
        /\ b.macCollected = p.macCollected /\ b.mac = p.mac /\ b.macs = p.macs
        /\ b.bridge = p.bridge /\ b.buf = p.buf /\ b.writeBuf = Unwritten(q, left)
    <3> HIDE DEF p
    <3>1. QED
      BY <2>4 DEF PeerType
  <2>6. ASSUME left >= 0 PROVE t.sent = SockWrote(sock[fd], q, left).sent
    <3>1. SockWrote(sock[fd], q, left) \in SockType
      BY <1>1, <2>3, <2>6, WriteProperties
    <3>2. QED
      BY <3>1 DEF SockBlocked, SockType
  <2>7. Unwritten(q, 0) = <<>>
    <3>1. 0 \in 0 .. Len(q)
      BY <2>3
    <3>2. QED
      BY <1>1, <2>3, <3>1, WriteProperties
  <2>8. ASSUME NEW c, NEW u,
               (c = a /\ u = s /\ left = 0) \/ (c = b /\ u = t /\ left > 0),
               peer' = [peer EXCEPT ![fd] = c], sock' = [sock EXCEPT ![fd] = u], live' = live
        PROVE  Addressed' /\ SwitchStep
    <3>1. /\ c.macCollected = p.macCollected /\ c.mac = p.mac /\ c.macs = p.macs
          /\ c.bridge = p.bridge /\ (c.handshake # 0 \/ c.buf = p.buf)
          /\ left \in 0 .. Len(q) /\ c.writeBuf = Unwritten(q, left)
          /\ u.sent = SockWrote(sock[fd], q, left).sent
      <4> HIDE DEF a, b, t, p, q
      <4>1. QED
        BY <2>3, <2>5, <2>6, <2>7, <2>8
    <3> HIDE DEF a, b, s, t, q
    <3>2. Out(c, u) = sock[fd].sent \o q
      BY <1>1, <2>3, <3>1, OutWritten
    <3>3. Given(c, u) = Given(peer[fd], sock[fd])
      BY <2>3, <3>2 DEF Given
    <3>4. /\ AddressInv(c)
          /\ \/ KnownTo(c) = KnownTo(peer[fd]) /\ c.bridge = peer[fd].bridge
             \/ /\ KnownTo(peer[fd]) = {}
                /\ \/ KnownTo(c) = {} /\ c.bridge
                   \/ \E mac \in Macs, x \in BOOLEAN :
                        KnownTo(c) = {mac} /\ c.bridge = (peer[fd].bridge \/ x)
      <4> HIDE DEF p
      <4>1. p = Upgraded(fd)
        BY DEF p
      <4>2. QED
        BY <1>1, <2>2, <3>1, <4>1, UpgradedPort
    <3>5. CASE KnownTo(c) = KnownTo(peer[fd]) /\ c.bridge = peer[fd].bridge
      BY <2>8, <3>3, <3>4, <3>5, OnePort DEF SamePort
    <3>6. CASE ~(KnownTo(c) = KnownTo(peer[fd]) /\ c.bridge = peer[fd].bridge)
      BY <1>2, <2>8, <3>3, <3>4, <3>6, AnnouncedPort
    <3>7. QED
      BY <3>5, <3>6
  <2>9. \/ LoopFails(fd, {})
        \/ left = 0 /\ live' = live /\ peer' = [peer EXCEPT ![fd] = a]
             /\ sock' = [sock EXCEPT ![fd] = s]
        \/ left > 0 /\ live' = live /\ peer' = [peer EXCEPT ![fd] = b]
             /\ sock' = [sock EXCEPT ![fd] = t]
    BY <2>1
  <2> HIDE DEF a, b, s, t, p
  <2>10. CASE left = 0 /\ live' = live /\ peer' = [peer EXCEPT ![fd] = a]
              /\ sock' = [sock EXCEPT ![fd] = s]
    BY <2>8, <2>10
  <2>11. CASE left > 0 /\ live' = live /\ peer' = [peer EXCEPT ![fd] = b]
              /\ sock' = [sock EXCEPT ![fd] = t]
    BY <2>8, <2>11
  <2>12. QED
    BY <1>3, <1>4, <2>9, <2>10, <2>11
<1>9. CASE Control(fd)
  <2> DEFINE q == Append(peer[fd].writeBuf, Json)
             dead == Victims(fd)
  <2>1. PICK left \in Outcomes(fd, q) :
            \/ LoopFails(fd, dead)
            \/ /\ left > 0
               /\ live' = live \ dead
               /\ peer' = [g \in Fds |->
                    IF g \in dead THEN FreshPeer
                    ELSE IF g = fd THEN [peer[fd] EXCEPT
                        !.ctrl = TRUE, !.vars = ParsedVars(fd), !.handshake = 1,
                        !.isWriting = TRUE, !.writeBuf = Unwritten(q, left)]
                    ELSE peer[g]]
               /\ sock' = [g \in Fds |->
                    IF g \in dead THEN FreshSock
                    ELSE IF g = fd THEN SockBlocked(sock[fd], q, left)
                    ELSE sock[g]]
    BY <1>9 DEF Control
  <2> DEFINE p == [peer[fd] EXCEPT
                     !.ctrl = TRUE, !.vars = ParsedVars(fd), !.handshake = 1,
                     !.isWriting = TRUE, !.writeBuf = Unwritten(q, left)]
             s == SockBlocked(sock[fd], q, left)
  <2>2. q \in Seq(ItemType) /\ Len(q) \in Nat /\ left \in -1 .. Len(q)
        /\ FramesIn(sock[fd].sent \o q) = Given(peer[fd], sock[fd])
    <3>1. q \in Seq(ItemType) /\ Len(q) \in Nat
      BY <1>7, LenProperties
    <3>2. QED
      BY <1>7, <3>1, OutcomesRange DEF IInv
  <2>3. /\ p.macCollected = peer[fd].macCollected /\ p.mac = peer[fd].mac
        /\ p.macs = peer[fd].macs /\ p.bridge = peer[fd].bridge
        /\ p.handshake # 0 /\ p.writeBuf = Unwritten(q, left)
    <3> HIDE DEF q
    <3>1. QED
      BY <1>1 DEF PeerType
  <2>4. ASSUME left > 0 PROVE AddressInv(p) /\ SamePort(peer[fd], sock[fd], p, s)
    <3>1. left \in 0 .. Len(q)
      BY <2>2, <2>4
    <3>2. SockWrote(sock[fd], q, left) \in SockType
      BY <1>1, <2>2, <3>1, WriteProperties
    <3>3. s.sent = SockWrote(sock[fd], q, left).sent
      BY <3>2 DEF SockBlocked, SockType
    <3> HIDE DEF p, s, q
    <3>4. Out(p, s) = sock[fd].sent \o q
      BY <1>1, <2>2, <2>3, <3>1, <3>3, OutWritten
    <3>5. QED
      BY <1>1, <2>2, <2>3, <3>4 DEF SamePort, KnownTo, Given, AddressInv
  <2>5. \/ LoopFails(fd, dead)
        \/ /\ left > 0 /\ live' = live \ dead
           /\ peer' = [g \in Fds |-> IF g \in dead THEN FreshPeer ELSE IF g = fd THEN p ELSE peer[g]]
           /\ sock' = [g \in Fds |-> IF g \in dead THEN FreshSock ELSE IF g = fd THEN s ELSE sock[g]]
    BY <2>1
  <2>6. dead \in SUBSET live
    BY <1>4
  <2> HIDE DEF p, s, dead, q
  <2>7. CASE left > 0 /\ live' = live \ dead
             /\ peer' = [g \in Fds |-> IF g \in dead THEN FreshPeer ELSE IF g = fd THEN p ELSE peer[g]]
             /\ sock' = [g \in Fds |-> IF g \in dead THEN FreshSock ELSE IF g = fd THEN s ELSE sock[g]]
    <3>1. \A g \in dead : peer'[g] = FreshPeer /\ sock'[g] = FreshSock
      BY <1>1, <2>6, <2>7
    <3>2. \A g \in Fds \ dead :
            AddressInv(peer'[g]) /\ SamePort(peer[g], sock[g], peer'[g], sock'[g])
      BY <2>4, <2>7 DEF Addressed, SamePort
    <3>3. QED
      BY <2>6, <2>7, <3>1, <3>2, UnplugPorts
  <2>8. QED
    BY <1>3, <2>5, <2>6, <2>7
<1>10. QED
  BY <1>5, <1>6, <1>8, <1>9

-----------------------------------------------------------------------------
(* Frames are given to the ports their destination selects *)

\* The first match is one of the matches, and there is one if anything matches.
LEMMA LowestProperties ==
    ASSUME NEW S \in SUBSET Fds
    PROVE  /\ S # {} => Lowest(S) # {}
           /\ \A fd \in Lowest(S) : fd \in S /\ Lowest(S) = {fd}
<1>1. S \in SUBSET Nat
  BY FdFacts
<1>2. ASSUME S # {} PROVE Lowest(S) # {}
  <2>1. PICK fd \in S : \A g \in S : fd <= g
    BY <1>1, <1>2, Least
  <2>2. QED
    BY <2>1 DEF Lowest
<1>3. ASSUME NEW fd \in Lowest(S) PROVE fd \in S /\ Lowest(S) = {fd}
  <2>1. fd \in S /\ \A g \in S : fd <= g
    BY DEF Lowest
  <2>2. ASSUME NEW g \in Lowest(S) PROVE g = fd
    <3>1. g \in S /\ g <= fd /\ fd <= g
      BY <2>1 DEF Lowest
    <3>2. QED
      BY <1>1, <2>1, <3>1
  <2>3. QED
    BY <2>1, <2>2
<1>4. QED
  BY <1>2, <1>3

LEMMA RecipientsSelected ==
    ASSUME IInv, NEW fd \in Fds, NEW m
    PROVE  Recipients(fd, m) \in Switch!Selections(fd, [src |-> m.src, dst |-> m.dst])
<1> DEFINE f == [src |-> m.src, dst |-> m.dst]
           bridges == {g \in live : peer[g].bridge}
           byMac == {g \in live : peer[g].macCollected /\ peer[g].mac = m.dst}
           byBridge == {g \in live : peer[g].macCollected /\ m.dst \in peer[g].macs}
<1>1. live \subseteq Fds /\ byMac \in SUBSET Fds /\ byBridge \in SUBSET Fds
  BY DEF IInv, TypeOK
<1>2. \A g \in live : KnownMacs[g] = KnownTo(peer[g])
  BY <1>1, Ports
<1>3. Switch!Active = {g \in live : peer[g].macCollected}
  BY <1>2 DEF Switch!Active, KnownTo
<1>4. Switch!Holders(m.dst) = byMac \cup byBridge
  BY <1>2 DEF Switch!Holders, KnownTo
<1>5. f.dst = m.dst /\ f.src = m.src
  OBVIOUS
<1>6. Others(fd) = Switch!Active \ {fd}
  BY <1>3 DEF Others
<1>7. {g \in Others(fd) : peer[g].bridge} = (Switch!Active \cap bridges) \ {fd}
  BY <1>3 DEF Others
<1>8. ByMac(m.dst) = Lowest(byMac) /\ ByBridgeMac(m.dst) = Lowest(byBridge)
  BY DEF ByMac, ByBridgeMac
<1> HIDE DEF f, bridges, byMac, byBridge
<1>9. Switch!Selections(fd, f) =
        IF m.dst = Zero \/ m.dst = m.src THEN {{}}
        ELSE IF Group(m.dst) THEN {Switch!Active \ {fd}}
        ELSE IF byMac \cup byBridge # {} THEN {{q} : q \in byMac \cup byBridge}
        ELSE {(Switch!Active \cap bridges) \ {fd}}
  BY <1>4, <1>5 DEF Switch!Selections, Group, Switch!IsMulticast, Switch!IsBroadcast,
     IsMulticast, IsBroadcast, bridges
<1>10. Recipients(fd, m) =
        IF m.dst = Zero \/ m.dst = m.src THEN {}
        ELSE IF Group(m.dst) THEN Others(fd)
        ELSE IF Lowest(byMac) # {} THEN Lowest(byMac)
        ELSE IF Lowest(byBridge) # {} THEN Lowest(byBridge)
        ELSE {g \in Others(fd) : peer[g].bridge}
  BY <1>8 DEF Recipients, IsZero, IsLoop
<1>11. ASSUME Lowest(byMac) # {} PROVE Lowest(byMac) \in {{q} : q \in byMac \cup byBridge}
  BY <1>1, <1>11, LowestProperties
<1>12. ASSUME Lowest(byBridge) # {} PROVE Lowest(byBridge) \in {{q} : q \in byMac \cup byBridge}
  BY <1>1, <1>12, LowestProperties
<1>13. /\ Lowest(byMac) = {} => byMac = {}
       /\ Lowest(byBridge) = {} => byBridge = {}
  BY <1>1, LowestProperties
<1>14. /\ byMac = {} => Lowest(byMac) = {}
       /\ byBridge = {} => Lowest(byBridge) = {}
  BY DEF Lowest
<1>15. Recipients(fd, m) \in Switch!Selections(fd, f)
  <2>1. CASE m.dst = Zero \/ m.dst = m.src
    BY <2>1, <1>9, <1>10
  <2>2. CASE ~(m.dst = Zero \/ m.dst = m.src) /\ Group(m.dst)
    BY <2>2, <1>6, <1>9, <1>10
  <2>3. CASE ~(m.dst = Zero \/ m.dst = m.src) /\ ~Group(m.dst) /\ byMac \cup byBridge # {}
    BY <2>3, <1>9, <1>10, <1>11, <1>12, <1>13
  <2>4. CASE ~(m.dst = Zero \/ m.dst = m.src) /\ ~Group(m.dst) /\ byMac \cup byBridge = {}
    BY <2>4, <1>7, <1>9, <1>10, <1>14
  <2>5. QED
    BY <2>1, <2>2, <2>3, <2>4
<1>16. QED
  BY <1>15 DEF f

\* A peer past its handshake has its message consumed and its source learned.
LEMMA LearnedPort ==
    ASSUME NEW fd \in Fds, peer[fd] \in PeerType, AddressInv(peer[fd]),
           peer[fd].handshake > 0, peer[fd].buf # <<>>, NEW src \in Macs
    PROVE  LET d == Decapitated(fd)
               p == Learned(d, src)
           IN /\ d \in PeerType /\ AddressInv(d) /\ SamePort(peer[fd], sock[fd], d, sock[fd])
              /\ p \in PeerType /\ AddressInv(p) /\ p.bridge = peer[fd].bridge
              /\ p.writeBuf = peer[fd].writeBuf
              /\ KnownTo(p) = KnownTo(peer[fd]) \cup {src}
<1> DEFINE d == Decapitated(fd)
           p == Learned(d, src)
           old == peer[fd]
<1>1. old \in PeerType /\ old.handshake = 1
      /\ Tail(old.buf) \in Seq(RequestType \cup MessageType)
  BY HeadTailProperties DEF PeerType
<1>2. ~old.macCollected => old.macs = {}
  BY DEF AddressInv
<1>3. d = [old EXCEPT !.buf = Tail(old.buf)]
  BY DEF Decapitated, Consumed
<1> HIDE DEF d, old
<1>4. /\ d \in PeerType /\ d.handshake = 1 /\ d.bridge = old.bridge /\ d.macs = old.macs
      /\ d.mac = old.mac /\ d.macCollected = old.macCollected /\ d.writeBuf = old.writeBuf
  BY <1>1, <1>3 DEF PeerType
<1>5. AddressInv(d) /\ SamePort(old, sock[fd], d, sock[fd])
  BY <1>2, <1>4 DEF AddressInv, SamePort, KnownTo, Given, Out
<1>6. /\ p \in PeerType /\ p.handshake = 1 /\ p.bridge = old.bridge
      /\ p.writeBuf = old.writeBuf /\ p.macCollected
      /\ ~old.macCollected => p.mac = src /\ p.macs = {}
      /\ old.macCollected /\ old.mac = src => p.mac = old.mac /\ p.macs = old.macs
      /\ old.macCollected /\ old.mac # src => p.mac = old.mac /\ p.macs = old.macs \cup {src}
  BY <1>2, <1>4 DEF Learned, PeerType
<1> HIDE DEF p
<1>7. AddressInv(p)
  BY <1>6 DEF AddressInv
<1>8. KnownTo(p) = KnownTo(old) \cup {src}
  <2>1. CASE ~old.macCollected
    BY <1>6, <2>1 DEF KnownTo
  <2>2. CASE old.macCollected /\ old.mac = src
    BY <1>6, <2>2 DEF KnownTo
  <2>3. CASE old.macCollected /\ old.mac # src
    BY <1>6, <2>3 DEF KnownTo
  <2>4. QED
    BY <2>1, <2>2, <2>3
<1>9. QED
  BY <1>4, <1>5, <1>6, <1>7, <1>8 DEF d, old, p

\* A frame is appended to what a recipient is given.
LEMMA ForwardedPort ==
    ASSUME NEW t \in Fds, sock[t] \in SockType, NEW p \in PeerType, AddressInv(p),
           p.writeBuf = peer[t].writeBuf,
           NEW item \in ItemType, item.type = "frame",
           NEW left \in 0 .. Len(Append(p.writeBuf, item))
    PROVE  LET q == Append(p.writeBuf, item)
               p1 == [p EXCEPT !.writeBuf = Unwritten(q, left)]
               s1 == SockForwarded(t, q, left)
           IN /\ AddressInv(p1) /\ KnownTo(p1) = KnownTo(p) /\ p1.bridge = p.bridge
              /\ Given(p1, s1) = Append(Given(peer[t], sock[t]), FrameOf(item))
<1> DEFINE b == p.writeBuf
           q == Append(b, item)
           p1 == [p EXCEPT !.writeBuf = Unwritten(q, left)]
           s1 == SockForwarded(t, q, left)
           s == sock[t]
<1>1. b \in Seq(ItemType) /\ s.sent \in Seq(ItemType) /\ left \in 0 .. Len(q) /\ s \in SockType
  BY DEF PeerType, SockType
<1> HIDE DEF b
<1>2. q \in Seq(ItemType)
  BY <1>1, AppendProperties
<1> HIDE DEF q
<1>3. /\ p1.writeBuf = Unwritten(q, left) /\ p1.handshake = p.handshake /\ p1.buf = p.buf
      /\ p1.macCollected = p.macCollected /\ p1.mac = p.mac /\ p1.macs = p.macs
      /\ p1.bridge = p.bridge
  BY DEF PeerType
<1> HIDE DEF p1, s
<1>4. s1.sent = SockWrote(s, q, left).sent
  <2>1. SockWrote(s, q, left) \in SockType
    BY <1>1, <1>2, WriteProperties
  <2>2. QED
    BY <2>1 DEF SockForwarded, SockBlocked, SockType, s
<1> HIDE DEF s1
<1>5. Out(p1, s1) = s.sent \o q
  BY <1>1, <1>2, <1>3, <1>4, OutWritten
<1>6. FramesIn(s.sent \o q) = Append(FramesIn(s.sent \o b), FrameOf(item))
  BY <1>1, GivenAppend DEF q
<1>7. s.sent \o b = Out(peer[t], sock[t])
  BY DEF Out, s, b
<1>8. AddressInv(p1) /\ KnownTo(p1) = KnownTo(p)
  BY <1>3 DEF AddressInv, Announced, KnownTo
<1>9. Given(p1, s1) = Append(Given(peer[t], sock[t]), FrameOf(item))
  BY <1>5, <1>6, <1>7 DEF Given
<1>10. QED
  BY <1>3, <1>8, <1>9 DEF p1, s1, q, b

\* A frame is relayed: its recipients are given it or die, its source is learned.
LEMMA ForwardPorts ==
    ASSUME IInv, Addressed, NEW fd \in Fds, Forward(fd)
    PROVE  Addressed' /\ SwitchStep
<1> DEFINE m == Head(peer[fd].buf)
           to == Recipients(fd, m)
           q == [t \in to |-> Append(peer[t].writeBuf, Encoded(m, t))]
           learned == [peer EXCEPT ![fd] = Learned(Decapitated(fd), m.src)]
           f == [src |-> m.src, dst |-> m.dst]
<1>1. /\ TypeOK /\ live \subseteq Fds
      /\ peer \in [Fds -> PeerType] /\ sock \in [Fds -> SockType]
      /\ \A g \in Fds : AddressInv(peer[g])
  BY DEF IInv, TypeOK, Addressed
<1>2. /\ peer[fd].handshake > 0 /\ peer[fd].buf # <<>> /\ m.type = "frame" /\ Accepted(fd, m)
      /\ Looping(fd)
  BY DEF Forward, Receiving
<1>3. fd \in live
  BY <1>2, LoopingLive
<1>4. m.src \in Macs /\ m.dst \in Macs
  <2>1. m \in RequestType \cup MessageType
    BY <1>1, <1>2, HeadTailProperties DEF PeerType
  <2>2. QED
    BY <1>2, <2>1 DEF RequestType, MessageType, FrameType, Ping, Short, Close
<1>5. PICK left \in [to -> UNION {Outcomes(t, q[t]) : t \in to}] :
        LET dead == {t \in to : left[t] = -1}
        IN /\ \A t \in to : left[t] \in Outcomes(t, q[t])
           /\ live' = live \ dead
           /\ peer' = [g \in Fds |->
                IF g \in dead THEN FreshPeer
                ELSE IF g \in to
                THEN [learned[g] EXCEPT !.writeBuf = Unwritten(q[g], left[g])]
                ELSE learned[g]]
           /\ sock' = [g \in Fds |->
                IF g \in dead THEN FreshSock
                ELSE IF g \in to THEN SockForwarded(g, q[g], left[g])
                ELSE sock[g]]
  BY DEF Forward
<1> DEFINE dead == {t \in to : left[t] = -1}
           after(g) == [learned[g] EXCEPT !.writeBuf = Unwritten(q[g], left[g])]
<1>6. to \subseteq live /\ to \subseteq Fds /\ dead \in SUBSET to
  BY <1>1, RecipientsKnown
<1>7. \A g \in Fds : /\ learned[g] \in PeerType /\ AddressInv(learned[g])
                     /\ learned[g].bridge = peer[g].bridge
                     /\ learned[g].writeBuf = peer[g].writeBuf
                     /\ KnownTo(learned[g]) =
                          IF g = fd THEN KnownTo(peer[g]) \cup {m.src} ELSE KnownTo(peer[g])
  <2>1. \A g \in Fds : learned[g] = IF g = fd THEN Learned(Decapitated(fd), m.src) ELSE peer[g]
    BY <1>1
  <2> HIDE DEF learned, m
  <2>2. QED
    BY <1>1, <1>2, <1>4, <2>1, LearnedPort
<1>8. \A t \in to : t \notin dead =>
        /\ AddressInv(after(t)) /\ KnownTo(after(t)) = KnownTo(learned[t])
        /\ after(t).bridge = learned[t].bridge
        /\ Given(after(t), SockForwarded(t, q[t], left[t])) = Append(Given(peer[t], sock[t]), f)
  <2> SUFFICES ASSUME NEW t \in to, t \notin dead
               PROVE  LET p1 == [learned[t] EXCEPT !.writeBuf = Unwritten(q[t], left[t])]
                      IN /\ AddressInv(p1) /\ KnownTo(p1) = KnownTo(learned[t])
                         /\ p1.bridge = learned[t].bridge
                         /\ Given(p1, SockForwarded(t, q[t], left[t])) =
                              Append(Given(peer[t], sock[t]), f)
    OBVIOUS
  <2> DEFINE item == Encoded(m, t)
  <2>1. item \in ItemType /\ item.type = "frame" /\ FrameOf(item) = f
    BY <1>4 DEF Encoded, ItemType, FrameOf
  <2>2. t \in Fds /\ q[t] = Append(learned[t].writeBuf, item)
    BY <1>6, <1>7
  <2>3. q[t] \in Seq(ItemType)
    <3> DEFINE w == learned[t].writeBuf
    <3>1. w \in Seq(ItemType) /\ q[t] = Append(w, item)
      BY <1>7, <2>2 DEF PeerType
    <3> HIDE DEF w, q, item
    <3>2. Append(w, item) \in Seq(ItemType)
      BY <2>1, <3>1, AppendProperties
    <3>3. QED
      BY <3>1, <3>2
  <2>4. left[t] \in 0 .. Len(q[t])
    <3>1. left[t] \in Outcomes(t, q[t]) /\ left[t] # -1
      BY <1>5
    <3>2. left[t] \in -1 .. Len(q[t]) /\ Len(q[t]) \in Nat
      BY <1>1, <2>2, <2>3, <3>1, OutcomesRange, LenProperties
    <3>3. QED
      BY <3>1, <3>2
  <2>5. learned[t] \in PeerType /\ AddressInv(learned[t])
        /\ learned[t].writeBuf = peer[t].writeBuf /\ sock[t] \in SockType
    BY <1>1, <1>7, <2>2
  <2>6. left[t] \in 0 .. Len(Append(learned[t].writeBuf, item))
    BY <2>2, <2>4
  <2> HIDE DEF learned, q, item, f, to, dead
  <2>7. QED
    BY <2>1, <2>2, <2>5, <2>6, ForwardedPort
<1>9. live' = live \ dead
  BY <1>5
<1>10. \A g \in Fds : /\ peer'[g] = IF g \in dead THEN FreshPeer
                                   ELSE IF g \in to THEN after(g) ELSE learned[g]
                      /\ sock'[g] = IF g \in dead THEN FreshSock
                                   ELSE IF g \in to THEN SockForwarded(g, q[g], left[g])
                                   ELSE sock[g]
  <2> HIDE DEF learned, q, to
  <2>1. QED
    BY <1>5
<1>11. to \in Switch!Selections(fd, f)
  BY RecipientsSelected, IInv
<1>12. f.src = m.src /\ f \in Switch!FrameTypes
  BY <1>4 DEF Switch!FrameTypes, Switch!Macs, Macs
<1>13. Switch!MayUse(fd, m.src)
  <2>1. IsValid(m.src) /\ (peer[fd].macCollected => (peer[fd].mac = m.src \/ peer[fd].bridge))
    BY <1>2 DEF Accepted
  <2>2. KnownMacs[fd] = KnownTo(peer[fd])
    BY Ports
  <2> HIDE DEF m
  <2>3. QED
    BY <1>3, <2>1, <2>2 DEF KnownTo, Switch!MayUse, Switch!IsValid, Switch!IsBroadcast,
       Switch!IsZero, IsValid, IsBroadcast, IsZero
<1> HIDE DEF m, to, q, learned, dead, after, f
<1>14. \A g \in Fds :
         /\ AddressInv(peer'[g])
         /\ g \notin dead => peer'[g].bridge = peer[g].bridge
         /\ KnownTo(peer'[g]) = IF g \in dead THEN {}
                                ELSE IF g = fd THEN KnownTo(peer[g]) \cup {m.src}
                                ELSE KnownTo(peer[g])
         /\ Given(peer'[g], sock'[g]) =
              IF g \in dead THEN <<>>
              ELSE IF g \in to THEN Append(Given(peer[g], sock[g]), f)
              ELSE Given(peer[g], sock[g])
  <2> SUFFICES ASSUME NEW g \in Fds
               PROVE  /\ AddressInv(peer'[g])
                      /\ g \notin dead => peer'[g].bridge = peer[g].bridge
                      /\ KnownTo(peer'[g]) = IF g \in dead THEN {}
                                             ELSE IF g = fd THEN KnownTo(peer[g]) \cup {m.src}
                                             ELSE KnownTo(peer[g])
                      /\ Given(peer'[g], sock'[g]) =
                           IF g \in dead THEN <<>>
                           ELSE IF g \in to THEN Append(Given(peer[g], sock[g]), f)
                           ELSE Given(peer[g], sock[g])
    OBVIOUS
  <2>1. CASE g \in dead
    BY <1>10, <2>1, FreshPort
  <2>2. CASE g \notin dead /\ g \in to
    BY <1>7, <1>8, <1>10, <2>2
  <2>3. CASE g \notin dead /\ g \notin to
    <3>1. peer'[g] = learned[g] /\ sock'[g] = sock[g] /\ learned[g].writeBuf = peer[g].writeBuf
      BY <1>6, <1>7, <1>10, <2>3
    <3>2. Given(peer'[g], sock'[g]) = Given(peer[g], sock[g])
      BY <3>1 DEF Given, Out
    <3>3. QED
      BY <1>7, <2>3, <3>1, <3>2
  <2>4. QED
    BY <2>1, <2>2, <2>3
<1>15. KnownMacs' = [g \in Fds |->
         IF g \in dead THEN {} ELSE IF g = fd THEN KnownMacs[g] \cup {f.src} ELSE KnownMacs[g]]
  BY <1>12, <1>14, Ports, PortsAfter
<1>16. FramesGiven' = [g \in Fds |->
         IF g \in dead THEN <<>>
         ELSE IF g \in to THEN Append(FramesGiven[g], f) ELSE FramesGiven[g]]
  BY <1>14, Ports, PortsAfter
<1>17. {g \in live : peer[g].bridge}' = {g \in live : peer[g].bridge} \ dead
  BY <1>1, <1>9, <1>14
<1>18. KnownMacs' = [g \in Fds |->
         IF g \in dead THEN {} ELSE IF g = fd THEN KnownMacs[fd] \cup {f.src} ELSE KnownMacs[g]]
  BY <1>15
<1>19. PICK h, T, D : h = f /\ T = to /\ D = dead
  OBVIOUS
<1>20. Switch!Unplugged(D)
  BY <1>9, <1>17, <1>19 DEF Switch!Unplugged
<1>21. Switch!Relay(fd, h)
  <2>1. fd \in live /\ Switch!MayUse(fd, h.src)
    BY <1>3, <1>12, <1>13, <1>19
  <2>2. T \in Switch!Selections(fd, h) /\ D \in SUBSET T /\ Switch!Unplugged(D)
    BY <1>6, <1>11, <1>19, <1>20
  <2>3. KnownMacs' = [g \in Fds |->
          IF g \in D THEN {} ELSE IF g = fd THEN KnownMacs[fd] \cup {h.src} ELSE KnownMacs[g]]
    BY <1>18, <1>19
  <2>4. FramesGiven' = [g \in Fds |->
          IF g \in D THEN <<>>
          ELSE IF g \in T THEN Append(FramesGiven[g], h) ELSE FramesGiven[g]]
    BY <1>16, <1>19
  <2>5. QED
    BY <2>1, <2>2, <2>3, <2>4 DEF Switch!Relay
<1>22. Addressed'
  BY <1>14 DEF Addressed
<1>23. h \in Switch!FrameTypes
  BY <1>12, <1>19
<1>24. QED
  BY <1>21, <1>22, <1>23 DEF SwitchStep, Switch!SwitchNext

\* A message of a peer past its handshake, or the end of the "again" loop.
LEMMA FramePorts ==
    ASSUME IInv, Addressed, NEW fd \in Fds,
           LoopEnds(fd) \/ Misread(fd) \/ ReceiveClose(fd) \/ Ignore(fd) \/ LearnFails(fd)
             \/ Forward(fd)
    PROVE  Addressed' /\ SwitchStep
<1>1. CASE LoopEnds(fd) \/ Misread(fd)
  BY <1>1, QuietPorts DEF LoopEnds, Misread
<1>2. CASE ReceiveClose(fd) \/ LearnFails(fd)
  <2>1. Looping(fd) /\ Destroy({} \cup {fd})
    BY <1>2 DEF ReceiveClose, LearnFails, LoopFails, Receiving
  <2>2. {} \cup {fd} \in SUBSET live
    BY <2>1, LoopingLive
  <2>3. QED
    BY <2>1, <2>2, DestroyPorts
<1>3. CASE Ignore(fd)
  <2> DEFINE p == Decapitated(fd)
             s == sock[fd]
  <2>1. AddressInv(p) /\ SamePort(peer[fd], s, p, s)
    <3>1. peer[fd] \in PeerType /\ AddressInv(peer[fd]) /\ Broadcast \in Macs
      BY DEF IInv, TypeOK, Addressed, Macs
    <3>2. peer[fd].handshake > 0 /\ peer[fd].buf # <<>>
      BY <1>3 DEF Ignore, Receiving
    <3>3. QED
      BY <3>1, <3>2, LearnedPort
  <2>2. peer' = [peer EXCEPT ![fd] = p] /\ sock' = [sock EXCEPT ![fd] = s] /\ live' = live
    BY <1>3 DEF Ignore, IInv, TypeOK
  <2>3. SamePort(peer[fd], sock[fd], p, s)
    BY <2>1
  <2> HIDE DEF p, s
  <2>4. QED
    BY <2>1, <2>2, <2>3, OnePort
<1>4. CASE Forward(fd)
  BY <1>4, ForwardPorts
<1>5. QED
  BY <1>1, <1>2, <1>3, <1>4

\* What clients and the kernel do gives no frame to anyone.
LEMMA ClientPorts == ASSUME IInv, Addressed, ClientStep PROVE Addressed' /\ SwitchStep
<1>1. UNCHANGED <<live, peer>>
  BY DEF ClientStep, Connect, ClientRequests, ClientSends, TapReceives, Sends, Drain, Hangup
<1>2. \A g \in Fds : sock'[g].sent = sock[g].sent
  <2>1. sock \in [Fds -> SockType]
    BY DEF IInv, TypeOK
  <2>2. \/ sock' = sock
        \/ \E fd \in Fds : \E x : sock' = [sock EXCEPT ![fd].inq = x]
        \/ \E fd \in Fds : sock' = [sock EXCEPT ![fd].full = FALSE]
        \/ \E fd \in Fds : sock' = [sock EXCEPT ![fd].hup = TRUE]
    <3>1. TapFd \in Fds
      BY FdFacts
    <3>2. QED
      BY <3>1 DEF ClientStep, Connect, ClientRequests, ClientSends, TapReceives, Sends, Drain, Hangup
  <2>3. ASSUME NEW fd \in Fds, NEW s, s.sent = sock[fd].sent, sock' = [sock EXCEPT ![fd] = s]
        PROVE  \A g \in Fds : sock'[g].sent = sock[g].sent
    BY <2>1, <2>3
  <2>4. ASSUME NEW fd \in Fds, NEW x, sock' = [sock EXCEPT ![fd].inq = x]
        PROVE  \A g \in Fds : sock'[g].sent = sock[g].sent
    <3> DEFINE s == [sock[fd] EXCEPT !.inq = x]
    <3>1. s.sent = sock[fd].sent /\ sock' = [sock EXCEPT ![fd] = s]
      BY <2>1, <2>4 DEF SockType
    <3> HIDE DEF s
    <3>2. QED
      BY <2>3, <3>1
  <2>5. ASSUME NEW fd \in Fds,
               sock' = [sock EXCEPT ![fd].full = FALSE] \/ sock' = [sock EXCEPT ![fd].hup = TRUE]
        PROVE  \A g \in Fds : sock'[g].sent = sock[g].sent
    <3> DEFINE s == [sock[fd] EXCEPT !.full = FALSE]
               t == [sock[fd] EXCEPT !.hup = TRUE]
    <3>1. /\ s.sent = sock[fd].sent /\ t.sent = sock[fd].sent
          /\ sock' = [sock EXCEPT ![fd] = s] \/ sock' = [sock EXCEPT ![fd] = t]
      BY <2>1, <2>5 DEF SockType
    <3> HIDE DEF s, t
    <3>2. QED
      BY <2>3, <3>1
  <2>6. QED
    BY <2>2, <2>4, <2>5
<1>3. \A g \in Fds : SamePort(peer[g], sock[g], peer'[g], sock'[g])
  BY <1>1, <1>2 DEF SamePort, Given, Out
<1>4. live \subseteq Fds
  BY DEF IInv, TypeOK
<1>5. QED
  BY <1>1, <1>3, <1>4, SamePorts DEF Addressed

-----------------------------------------------------------------------------
(* The refinement *)

LEMMA InitPorts == ASSUME Init PROVE Addressed /\ Switch!SwitchInit
<1>1. live \subseteq Fds
  BY FdFacts DEF Init
<1>2. /\ TapPeer.macCollected /\ TapPeer.mac = TapMac /\ TapPeer.macs = {}
      /\ TapPeer.handshake = 1 /\ TapPeer.writeBuf = <<>>
  BY DEF TapPeer, FreshPeer
<1>3. AddressInv(TapPeer) /\ KnownTo(TapPeer) = {TapMac}
  BY <1>2 DEF AddressInv, KnownTo
<1>4. Given(TapPeer, FreshSock) = <<>>
  <2>1. FreshPeer.writeBuf = <<>>
    BY DEF FreshPeer
  <2>2. QED
    BY <1>2, <2>1, FreshPort DEF Given, Out
<1>5. \A g \in Fds : peer[g] = (IF HasTap /\ g = TapFd THEN TapPeer ELSE FreshPeer)
                     /\ sock[g] = FreshSock
  BY DEF Init
<1>6. Addressed
  BY <1>3, <1>5, FreshPort DEF Addressed
<1>7. FramesGiven = [g \in Fds |-> <<>>]
  BY <1>4, <1>5, Ports, FreshPort
<1>8. \A g \in Fds : KnownMacs[g] = IF HasTap /\ g = TapFd THEN {TapMac} ELSE {}
  BY <1>3, <1>5, Ports, FreshPort
<1>9. KnownMacs \in [Fds -> {{}} \cup {{mac} : mac \in Switch!Macs}]
  <2>1. TapMac \in Switch!Macs
    BY OptionsAssumption DEF Switch!Macs, Macs
  <2>2. \A g \in Fds : KnownMacs[g] \in {{}} \cup {{mac} : mac \in Switch!Macs}
    BY <1>8, <2>1
  <2>3. KnownMacs = [g \in Fds |-> KnownMacs[g]]
    BY Ports
  <2>4. QED
    BY <2>2, <2>3
<1>10. \A g \in Fds \ live : KnownMacs[g] = {}
  BY <1>8 DEF Init
<1>11. QED
  BY <1>1, <1>6, <1>7, <1>9, <1>10 DEF Switch!SwitchInit

LEMMA NextPorts == IInv /\ Addressed /\ [Next]_vars => Addressed' /\ SwitchStep
<1> SUFFICES ASSUME IInv, Addressed, [Next]_vars PROVE Addressed' /\ SwitchStep
  OBVIOUS
<1>1. CASE Wait \/ AcceptFails \/ CreateFails \/ \E fd \in Fds : EventStep(fd)
  BY <1>1, EventPorts
<1>2. CASE Accept
  BY <1>2, AcceptPort
<1>3. ASSUME NEW fd \in Fds, LoopStep(fd) PROVE Addressed' /\ SwitchStep
  BY <1>3, HandshakePorts, FramePorts DEF LoopStep
<1>4. CASE ClientStep
  BY <1>4, ClientPorts
<1>5. CASE UNCHANGED vars
  BY <1>5, QuietPorts DEF vars
<1>6. QED
  BY <1>1, <1>2, <1>3, <1>4, <1>5 DEF Next, ServerStep

\* Every behaviour of the server is one of the learning switch, whatever the
\* number of descriptors, addresses and messages, whichever requests and frames
\* its clients send and whichever system calls fail: frames reach exactly the
\* peers their destination selects, once and in order, through blocked writes
\* and repeated handshakes, and only a bridge speaks for several addresses.
THEOREM ServerKeepsSwitch == Spec => ImplementsSwitch
<1>1. IInv /\ Addressed /\ [Next]_vars => Addressed' /\ [Switch!SwitchNext]_Switch!svars
  BY NextPorts DEF SwitchStep
<1>2. Init => IInv /\ Addressed /\ Switch!SwitchInit
  BY InitInv, InitPorts
<1>3. QED
  BY <1>1, <1>2, NextInv, PTL DEF Spec, ImplementsSwitch, Switch!SwitchSpec
=============================================================================
