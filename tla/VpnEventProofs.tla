--------------------------- MODULE VpnEventProofs ---------------------------
(***************************************************************************)
(* Proof that an event which has become stale while it waited in the batch  *)
(* does no harm.  What makes it true spans three places: a full socket has  *)
(* bytes waiting for it (FullInv), the descriptor in the "again" loop has    *)
(* left the batch, and a handler that blocks another peer says so in dirty. *)
(***************************************************************************)
EXTENDS VpnServerProofs

\* A write that finds no room leaves something behind; a tap device has room.
FullInv(p, s) == s.full => p.writeBuf # <<>> /\ ~p.raw

\* What cannot be written now has not become so since the batch was returned.
NotBlocked(s) == s.interest = "in" \/ ~s.full \/ s.hup

BatchInv ==
    /\ cur = NoFd => ~dirty
    /\ cur \notin batch
    /\ ~dirty => \A b \in batch \cap live : NotBlocked(sock[b])

Fresh ==
    /\ \A fd \in Fds : FullInv(peer[fd], sock[fd])
    /\ BatchInv

-----------------------------------------------------------------------------
(* FullInv is preserved by what the steps do to one peer and its socket *)

LEMMA FreshFull == FullInv(FreshPeer, FreshSock) /\ FullInv(TapPeer, FreshSock)
BY DEF FullInv, FreshSock

\* A write leaves the socket full exactly when it was full or bytes are left.
LEMMA WroteFull ==
    ASSUME NEW s \in SockType, NEW q \in Seq(ItemType), NEW left \in 0 .. Len(q)
    PROVE  /\ SockWrote(s, q, left).full = (s.full \/ left > 0)
           /\ SockBlocked(s, q, left).full = (s.full \/ left > 0)
           /\ left > 0 => Unwritten(q, left) # <<>>
           /\ left = Len(q) => Unwritten(q, left) = q
<1>1. Len(q) \in Nat /\ \A i \in 1 .. Len(q) : q[i] \in ItemType
  BY ElementOfSeq, LenProperties
<1>2. /\ SockWrote(s, q, left).full = (s.full \/ left > 0)
      /\ SockBlocked(s, q, left).full = (s.full \/ left > 0)
  BY DEF SockWrote, SockBlocked, SockType
<1>3. left > 0 => Unwritten(q, left) # <<>>
  <2> SUFFICES ASSUME left > 0 PROVE Unwritten(q, left) # <<>>
    OBVIOUS
  <2> DEFINE n == Len(q)
             m == n - left + 1
  <2>1. n \in Nat /\ m \in Int /\ m <= n /\ \A i \in m .. n : q[i] \in ItemType
    BY <1>1
  <2> HIDE DEF m, n
  <2>2. Len(SubSeq(q, m, n)) = n - m + 1
    BY <2>1, SubSeqProperties
  <2>3. Len(SubSeq(q, m, n)) # 0
    BY <2>1, <2>2
  <2>4. SubSeq(q, m, n) # <<>>
    BY <2>3, EmptySeq
  <2>5. QED
    BY <2>4 DEF m, n, Unwritten
<1>4. left = Len(q) => Unwritten(q, left) = q
  <2>1. Len(q) - Len(q) + 1 = 1
    BY <1>1
  <2>2. QED
    BY <2>1, SubSeqFull DEF Unwritten
<1>5. QED
  BY <1>2, <1>3, <1>4

\* A complete write to a websocket client needs a socket that is not full.
LEMMA OutcomesFull ==
    ASSUME NEW fd \in Fds, sock[fd] \in SockType, NEW q \in Seq(ItemType), q # <<>>,
           0 \in Outcomes(fd, q), ~peer[fd].raw
    PROVE  ~sock[fd].full
<1>1. Len(q) \in Nat \ {0}
  BY EmptySeq
<1>2. QED
  BY <1>1 DEF Outcomes, SockType

\* Bytes are written: some are left, or the socket is not full.
LEMMA WrittenFull ==
    ASSUME NEW fd \in Fds, NEW p, p.raw = peer[fd].raw, sock[fd] \in SockType,
           FullInv(peer[fd], sock[fd]),
           NEW q \in Seq(ItemType), q # <<>>, NEW left \in Outcomes(fd, q), left \in 0 .. Len(q),
           p.writeBuf = Unwritten(q, left), NEW s,
           s.full = (sock[fd].full \/ left > 0)
    PROVE  FullInv(p, s)
<1>1. CASE left > 0
  <2>1. ~peer[fd].raw
    BY <1>1 DEF Outcomes
  <2>2. p.writeBuf # <<>>
    BY <1>1, WroteFull
  <2>3. QED
    BY <2>1, <2>2 DEF FullInv
<1>2. CASE ~(left > 0)
  <2>1. left = 0
    BY <1>2, LenProperties
  <2>2. ~sock[fd].full
    BY <2>1, OutcomesFull DEF FullInv
  <2>3. QED
    BY <1>2, <2>2 DEF FullInv
<1>3. QED
  BY <1>1, <1>2

-----------------------------------------------------------------------------
(* Fresh is preserved by every step *)

LEMMA InitFresh == Init => Fresh
<1> SUFFICES ASSUME Init PROVE Fresh
  OBVIOUS
<1>1. \A fd \in Fds : FullInv(peer[fd], sock[fd])
  BY FreshFull DEF Init
<1>2. BatchInv
  BY DEF Init, BatchInv
<1>3. QED
  BY <1>1, <1>2 DEF Fresh

\* A handler has taken fd from the batch, and ends the batch if it was dirty.
Leaves(fd) ==
    /\ batch' \subseteq batch \ {fd}
    /\ dirty => dirty' \/ batch' = {}
    /\ \/ cur' = NoFd /\ dirty' = FALSE
       \/ cur' = fd

\* A step of a handler: whatever is still in the batch is as it was, or dirty.
LEMMA HandlerStep ==
    ASSUME IInv, Fresh, NEW fd \in Fds, Leaves(fd),
           \A g \in Fds : FullInv(peer'[g], sock'[g]),
           live' \subseteq live,
           \A g \in batch' \cap live' : dirty' \/ sock'[g] = sock[g] \/ NotBlocked(sock'[g])
    PROVE  Fresh'
<1>1. batch \subseteq Fds \cup {ServerFd}
  BY DEF IInv, TypeOK
<1>2. cur' = NoFd => ~dirty'
  BY FdFacts DEF Leaves
<1>3. cur' \notin batch'
  BY <1>1, FdFacts DEF Leaves
<1>4. ASSUME ~dirty', NEW b \in batch' \cap live' PROVE NotBlocked(sock'[b])
  <2>1. ~dirty /\ b \in batch \cap live
    BY <1>4 DEF Leaves
  <2>2. NotBlocked(sock[b])
    BY <2>1 DEF Fresh, BatchInv
  <2>3. QED
    BY <1>4, <2>2
<1>5. BatchInv'
  BY <1>2, <1>3, <1>4 DEF BatchInv, NotBlocked
<1>6. QED
  BY <1>5 DEF Fresh

\* A handler changes its own peer and socket.
LEMMA OneFdFresh ==
    ASSUME IInv, Fresh, NEW fd \in Fds, NEW p, NEW s, FullInv(p, s), Leaves(fd),
           peer' = [peer EXCEPT ![fd] = p], sock' = [sock EXCEPT ![fd] = s], live' = live
    PROVE  Fresh'
<1>1. peer \in [Fds -> PeerType] /\ sock \in [Fds -> SockType] /\ live \subseteq Fds
  BY DEF IInv, TypeOK
<1>2. \A g \in Fds : peer'[g] = (IF g = fd THEN p ELSE peer[g])
                     /\ sock'[g] = (IF g = fd THEN s ELSE sock[g])
  BY <1>1
<1>3. \A g \in Fds : FullInv(peer'[g], sock'[g])
  BY <1>2 DEF Fresh
<1>4. \A g \in batch' \cap live' : sock'[g] = sock[g]
  BY <1>1, <1>2 DEF Leaves
<1>5. QED
  BY <1>3, <1>4, HandlerStep

\* A handler destroys peers.
LEMMA DestroyFresh ==
    ASSUME IInv, Fresh, NEW fd \in Fds, NEW S, Destroy(S), Leaves(fd)
    PROVE  Fresh'
<1>1. live \subseteq Fds
  BY DEF IInv, TypeOK
<1>2. \A g \in Fds : peer'[g] = (IF g \in S THEN FreshPeer ELSE peer[g])
                     /\ sock'[g] = (IF g \in S THEN FreshSock ELSE sock[g])
  BY DEF Destroy
<1>3. \A g \in Fds : FullInv(peer'[g], sock'[g])
  BY <1>2, FreshFull DEF Fresh
<1>4. live' \subseteq live /\ \A g \in live' : sock'[g] = sock[g]
  BY <1>1, <1>2 DEF Destroy
<1>5. QED
  BY <1>3, <1>4, HandlerStep

\* A handler changes nothing.
LEMMA QuietFresh ==
    ASSUME IInv, Fresh, NEW fd \in Fds, UNCHANGED <<live, peer, sock>>, Leaves(fd)
    PROVE  Fresh'
BY HandlerStep DEF Fresh

\* The event loop and accept().
LEMMA LoopFresh ==
    ASSUME IInv, Fresh, Wait \/ Accept \/ AcceptFails \/ CreateFails
    PROVE  Fresh'
<1>1. /\ batch \subseteq Fds \cup {ServerFd} /\ live \subseteq Fds
      /\ \A fd \in Fds : FullInv(peer[fd], sock[fd])
      /\ peer \in [Fds -> PeerType] /\ sock \in [Fds -> SockType]
  BY DEF IInv, TypeOK, Fresh
<1>2. CASE Wait
  <2>1. /\ cur = NoFd /\ batch' = AllReady /\ UNCHANGED <<live, peer, sock, cur, dirty>>
    BY <1>2 DEF Wait, Idle
  <2>2. AllReady \subseteq Fds \cup {ServerFd}
    BY <1>1 DEF AllReady
  <2>3. \A b \in AllReady \cap live : NotBlocked(sock[b])
    <3>1. ServerFd \notin live
      BY <1>1, FdFacts
    <3>2. QED
      BY <3>1 DEF AllReady, Ready, NotBlocked
  <2>4. BatchInv'
    BY <2>1, <2>2, <2>3, FdFacts DEF BatchInv, Fresh, NotBlocked
  <2>5. QED
    BY <1>1, <2>1, <2>4 DEF Fresh
<1>3. ASSUME /\ cur = NoFd /\ batch' \subseteq batch /\ cur' = NoFd /\ dirty' = FALSE
             /\ UNCHANGED <<live, peer, sock>>
      PROVE  Fresh'
  <2>1. BatchInv'
    BY <1>1, <1>3, FdFacts DEF BatchInv, Fresh, NotBlocked
  <2>2. QED
    BY <1>1, <1>3, <2>1 DEF Fresh
<1>4. CASE AcceptFails \/ CreateFails
  BY <1>3, <1>4 DEF AcceptFails, CreateFails, Accepting, Idle, Return
<1>5. CASE Accept
  <2>1. PICK fd \in Lowest(Fds \ live) :
          /\ live' = live \cup {fd}
          /\ peer' = [peer EXCEPT ![fd] = FreshPeer]
          /\ sock' = [sock EXCEPT ![fd] = FreshSock]
    BY <1>5 DEF Accept
  <2>2. fd \in Fds
    BY <2>1 DEF Lowest
  <2>3. \A g \in Fds : /\ peer'[g] = (IF g = fd THEN FreshPeer ELSE peer[g])
                       /\ sock'[g] = (IF g = fd THEN FreshSock ELSE sock[g])
    BY <1>1, <2>1
  <2>4. cur = NoFd /\ batch' \subseteq batch /\ cur' = NoFd /\ dirty' = FALSE
    BY <1>5 DEF Accept, Accepting, Idle, Return
  <2>5. \A b \in batch' \cap live' : NotBlocked(sock'[b])
    <3> SUFFICES ASSUME NEW b \in batch' \cap live' PROVE NotBlocked(sock'[b])
      OBVIOUS
    <3>1. b \in Fds
      BY <1>1, <2>1, <2>2
    <3>2. CASE b = fd
      BY <2>3, <3>1, <3>2 DEF NotBlocked, FreshSock
    <3>3. CASE b # fd
      <4>1. b \in batch \cap live /\ sock'[b] = sock[b]
        BY <2>1, <2>3, <2>4, <3>1, <3>3
      <4>2. QED
        BY <2>4, <4>1 DEF Fresh, BatchInv
    <3>4. QED
      BY <3>2, <3>3
  <2>6. BatchInv'
    BY <1>1, <2>4, <2>5, FdFacts DEF BatchInv, NotBlocked
  <2>7. QED
    BY <1>1, <2>3, <2>6, FreshFull DEF Fresh
<1>6. QED
  BY <1>2, <1>4, <1>5

\* An event of the batch is handled, up to the "again" loop.
LEMMA EventFresh ==
    ASSUME IInv, Fresh, NEW fd \in Fds, EventStep(fd)
    PROVE  Fresh'
<1>1. /\ peer[fd] \in PeerType /\ sock[fd] \in SockType /\ FullInv(peer[fd], sock[fd])
      /\ peer \in [Fds -> PeerType] /\ sock \in [Fds -> SockType]
  BY DEF IInv, TypeOK, Fresh
<1>2. /\ peer[fd].writeBuf \in Seq(ItemType) /\ Len(peer[fd].writeBuf) \in Nat
      /\ Outcomes(fd, peer[fd].writeBuf) \subseteq -1 .. Len(peer[fd].writeBuf)
  BY <1>1, OutcomesRange, LenProperties DEF PeerType, IInv
<1>3. ~dirty
  <2>1. cur = NoFd
    BY DEF EventStep, ManageMissing, WriteFails, WriteSome, WriteAll, WatchInputFails,
           ReadFails, ReadNothing, ReadMessages, WritingEvent, ReadingEvent, Managing, Idle
  <2>2. QED
    BY <2>1 DEF Fresh, BatchInv
<1>4. ASSUME NEW stop, Return(fd, stop) PROVE Leaves(fd)
  BY <1>3, <1>4 DEF Return, Leaves
<1>5. CASE ManageMissing(fd) \/ ReadNothing(fd)
  BY <1>4, <1>5, QuietFresh DEF ManageMissing, ReadNothing
<1>6. CASE WriteFails(fd) \/ ReadFails(fd)
  BY <1>4, <1>6, DestroyFresh DEF WriteFails, ReadFails
<1>7. CASE WriteSome(fd)
  <2> DEFINE q == peer[fd].writeBuf
  <2>1. PICK left \in Outcomes(fd, q) \ {0, -1} :
          /\ peer' = [peer EXCEPT ![fd].writeBuf = Unwritten(q, left)]
          /\ sock' = [sock EXCEPT ![fd] = SockWrote(@, q, left)]
    BY <1>7 DEF WriteSome
  <2>2. left \in 0 .. Len(q)
    BY <1>2
  <2> DEFINE p == [peer[fd] EXCEPT !.writeBuf = Unwritten(q, left)]
             s == SockWrote(sock[fd], q, left)
  <2>3. p.raw = peer[fd].raw /\ p.writeBuf = Unwritten(q, left)
        /\ s.full = (sock[fd].full \/ left > 0)
    BY <1>1, <1>2, <2>2, WroteFull DEF PeerType
  <2>4. FullInv(p, s)
    <3>1. q # <<>>
      <4>1. Len(q) # 0
        BY <2>1, <2>2
      <4>2. QED
        BY <4>1, EmptySeq
    <3> HIDE DEF p, s, q
    <3>2. q \in Seq(ItemType) /\ left \in Outcomes(fd, q)
      BY <1>2, <2>1 DEF q
    <3>3. QED
      BY <1>1, <2>2, <2>3, <3>1, <3>2, WrittenFull
  <2>5. peer' = [peer EXCEPT ![fd] = p] /\ sock' = [sock EXCEPT ![fd] = s] /\ live' = live
    BY <1>7, <2>1 DEF WriteSome
  <2>6. Leaves(fd)
    BY <1>4, <1>7 DEF WriteSome
  <2> HIDE DEF p, s
  <2>7. QED
    BY <2>4, <2>5, <2>6, OneFdFresh
<1>8. CASE WriteAll(fd) \/ WatchInputFails(fd)
  <2> DEFINE q == peer[fd].writeBuf
             p == [peer[fd] EXCEPT !.isWriting = FALSE, !.writeBuf = <<>>]
             s == SockWrote(sock[fd], q, 0)
             t == [s EXCEPT !.interest = "in"]
  <2>1. q # <<>> /\ 0 \in Outcomes(fd, q) /\ q \in Seq(ItemType) /\ 0 \in 0 .. Len(q)
    <3>1. q # <<>> /\ 0 \in Outcomes(fd, q)
      BY <1>8 DEF WriteAll, WatchInputFails
    <3> HIDE DEF q
    <3>2. QED
      BY <1>2, <3>1 DEF q
  <2>2. ~(peer[fd].handshake > 1)
    <3>1. peer[fd].handshake \in {0, 1}
      BY <1>1 DEF PeerType
    <3>2. QED
      BY <3>1
  <2>3. ~s.full /\ ~t.full
    <3>1. s \in SockType /\ s.full = (sock[fd].full \/ 0 > 0)
      <4> HIDE DEF q
      <4>1. QED
        BY <1>1, <2>1, WroteFull, WriteProperties
    <3>2. ~sock[fd].full
      BY <1>1, <2>1, OutcomesFull DEF FullInv
    <3> HIDE DEF s
    <3>3. QED
      BY <3>1, <3>2 DEF SockType
  <2>4. FullInv(p, s) /\ FullInv(p, t)
    BY <2>3 DEF FullInv
  <2>5. /\ peer' = [peer EXCEPT ![fd] = p] /\ live' = live
        /\ sock' = [sock EXCEPT ![fd] = s] \/ sock' = [sock EXCEPT ![fd] = t]
    BY <1>8, <2>2 DEF WriteAll, WatchInputFails
  <2>6. Leaves(fd)
    BY <1>4, <1>8, <2>2 DEF WriteAll, WatchInputFails
  <2> HIDE DEF p, s, t
  <2>7. QED
    BY <2>4, <2>5, <2>6, OneFdFresh
<1>9. CASE ReadMessages(fd)
  <2> DEFINE q == sock[fd].inq
  <2>1. PICK k \in 1 .. (IF peer[fd].raw THEN 1 ELSE Len(q)) :
          /\ peer' = [peer EXCEPT ![fd].buf = @ \o SubSeq(q, 1, k)]
          /\ sock' = [sock EXCEPT ![fd].inq = SubSeq(q, k + 1, Len(q))]
    BY <1>9 DEF ReadMessages
  <2> DEFINE p == [peer[fd] EXCEPT !.buf = @ \o SubSeq(q, 1, k)]
             s == [sock[fd] EXCEPT !.inq = SubSeq(q, k + 1, Len(q))]
  <2>2. FullInv(p, s)
    BY <1>1 DEF FullInv, PeerType, SockType
  <2>3. peer' = [peer EXCEPT ![fd] = p] /\ sock' = [sock EXCEPT ![fd] = s] /\ live' = live
    BY <1>9, <2>1 DEF ReadMessages
  <2>4. Leaves(fd)
    BY <1>3, <1>9 DEF ReadMessages, Leaves
  <2> HIDE DEF p, s
  <2>5. QED
    BY <2>2, <2>3, <2>4, OneFdFresh
<1>10. QED
  BY <1>5, <1>6, <1>7, <1>8, <1>9 DEF EventStep

\* A handshake or control request.
LEMMA HandshakeFresh ==
    ASSUME IInv, Fresh, NEW fd \in Fds,
           HandshakeFails(fd) \/ HandshakeUpgrade(fd)
             \/ Control(fd) \/ ControlFault(fd) \/ ControlFails(fd)
    PROVE  Fresh'
<1>1. /\ TypeOK /\ FdInv(peer[fd], sock[fd]) /\ FullInv(peer[fd], sock[fd])
      /\ peer[fd] \in PeerType /\ sock[fd] \in SockType /\ live \subseteq Fds
  BY DEF IInv, TypeOK, Fresh
<1>2. /\ peer[fd].handshake = 0 /\ peer[fd].buf # <<>> /\ cur = fd /\ fd \notin batch
      /\ ~peer[fd].raw /\ dirty \in BOOLEAN
  <2>1. cur = fd /\ peer[fd].handshake = 0 /\ peer[fd].buf # <<>>
    BY DEF HandshakeFails, HandshakeUpgrade, Control, ControlFault, ControlFails,
           ControlRequest, Shaking, Looping, Running
  <2>2. fd \notin batch
    BY <2>1 DEF Fresh, BatchInv
  <2>3. ~peer[fd].raw
    <3>1. ShakeInv(peer[fd], sock[fd])
      BY <1>1 DEF FdInv
    <3>2. QED
      BY <2>1, <3>1 DEF ShakeInv
  <2>4. dirty \in BOOLEAN
    BY <1>1 DEF TypeOK
  <2>5. QED
    BY <2>1, <2>2, <2>3, <2>4
<1>3. ASSUME NEW S, LoopFails(fd, S)
      PROVE  Fresh'
  <2>1. Leaves(fd)
    BY <1>3 DEF LoopFails, Return, Leaves
  <2>2. QED
    BY <1>3, <2>1, DestroyFresh DEF LoopFails
<1>4. ASSUME Return(fd, dirty) PROVE Leaves(fd)
  BY <1>4 DEF Return, Leaves
<1>5. ASSUME UNCHANGED <<batch, cur, dirty>> PROVE Leaves(fd)
  BY <1>2, <1>5 DEF Leaves
<1>6. CASE HandshakeFails(fd)
  BY <1>3, <1>6 DEF HandshakeFails
<1>7. CASE ControlFails(fd)
  BY <1>3, <1>7 DEF ControlFails
<1>8. CASE ControlFault(fd)
  BY <1>5, <1>8, QuietFresh DEF ControlFault
<1>9. CASE HandshakeUpgrade(fd)
  <2> DEFINE q == Append(peer[fd].writeBuf, Reply101)
             p == Upgraded(fd)
  <2>1. PICK left \in Outcomes(fd, q) :
            \/ left = -1 /\ LoopFails(fd, {})
            \/ /\ left = 0
               /\ peer' = [peer EXCEPT ![fd] =
                    [p EXCEPT !.handshake = 1, !.buf = Consumed(@), !.writeBuf = <<>>]]
               /\ sock' = [sock EXCEPT ![fd] = SockWrote(@, q, 0)]
               /\ UNCHANGED <<live, peersN, batch, cur, dirty, fault, world>>
            \/ /\ left > 0
               /\ peer' = [peer EXCEPT ![fd] =
                    [p EXCEPT !.isWriting = TRUE, !.writeBuf = Unwritten(q, left)]]
               /\ sock' = [sock EXCEPT ![fd] = SockBlocked(@, q, left)]
               /\ Return(fd, dirty)
               /\ UNCHANGED <<live, peersN, fault, world>>
    BY <1>9 DEF HandshakeUpgrade
  <2>2. p \in PeerType /\ ~p.raw
    BY <1>1, <1>2, <1>9, UpgradedTyped DEF HandshakeUpgrade
  <2>3. q \in Seq(ItemType) /\ q # <<>>
    <3>1. peer[fd].writeBuf \in Seq(ItemType) /\ Reply101 \in ItemType
      BY <1>1 DEF PeerType, ItemType
    <3>2. QED
      BY <3>1, AppendProperties
  <2>4. left \in -1 .. Len(q) /\ Len(q) \in Nat
    BY <1>1, <2>3, OutcomesRange, LenProperties
  <2>5. CASE left = -1
    BY <1>3, <2>1, <2>5
  <2>6. CASE left = 0
    <3> DEFINE r == [p EXCEPT !.handshake = 1, !.buf = Consumed(@), !.writeBuf = <<>>]
               s == SockWrote(sock[fd], q, 0)
    <3>1. ~s.full
      <4>1. ~sock[fd].full
        BY <1>1, <1>2, <2>3, <2>6, OutcomesFull
      <4>2. 0 \in 0 .. Len(q)
        BY <2>4
      <4> HIDE DEF q
      <4>3. s.full = (sock[fd].full \/ 0 > 0)
        BY <1>1, <2>3, <4>2, WroteFull
      <4> HIDE DEF s
      <4>4. QED
        BY <1>1, <4>1, <4>3 DEF SockType
    <3>2. FullInv(r, s)
      BY <3>1 DEF FullInv
    <3>3. peer' = [peer EXCEPT ![fd] = r] /\ sock' = [sock EXCEPT ![fd] = s]
          /\ UNCHANGED <<live, batch, cur, dirty>>
      BY <2>1, <2>4, <2>6
    <3> HIDE DEF r, s
    <3>4. QED
      BY <1>5, <3>2, <3>3, OneFdFresh
  <2>7. CASE left > 0
    <3> DEFINE r == [p EXCEPT !.isWriting = TRUE, !.writeBuf = Unwritten(q, left)]
               s == SockBlocked(sock[fd], q, left)
    <3>1. left \in 0 .. Len(q)
      BY <2>4, <2>7
    <3>2. r.writeBuf = Unwritten(q, left) /\ ~r.raw
      BY <2>2 DEF PeerType
    <3>3. FullInv(r, s)
      <4> HIDE DEF r, s, q
      <4>1. Unwritten(q, left) # <<>>
        BY <1>1, <2>3, <2>7, <3>1, WroteFull
      <4>2. QED
        BY <3>2, <4>1 DEF FullInv
    <3>4. peer' = [peer EXCEPT ![fd] = r] /\ sock' = [sock EXCEPT ![fd] = s]
          /\ Return(fd, dirty) /\ live' = live
      <4>1. left # -1 /\ left # 0
        BY <2>4, <2>7
      <4>2. QED
        BY <2>1, <4>1
    <3> HIDE DEF r, s
    <3>5. QED
      BY <1>4, <3>3, <3>4, OneFdFresh
  <2>8. QED
    BY <2>4, <2>5, <2>6, <2>7
<1>10. CASE Control(fd)
  <2> DEFINE q == Append(peer[fd].writeBuf, Json)
             dead == Victims(fd)
  <2>1. PICK left \in Outcomes(fd, q) :
            \/ left <= 0 /\ LoopFails(fd, dead)
            \/ /\ left > 0
               /\ live' = live \ dead
               /\ peer' = [g \in Fds |->
                    IF g \in dead THEN FreshPeer
                    ELSE IF g = fd THEN [peer[fd] EXCEPT
                        !.ctrl = TRUE, !.vars = ParsedVars(fd), !.handshake = 1,
                        !.isWriting = TRUE, !.writeBuf = Unwritten(q, left)]
                    ELSE peer[g]]
               /\ sock' = [g \in Fds |->
                    IF g \in dead THEN FreshSock
                    ELSE IF g = fd THEN SockBlocked(sock[fd], q, left)
                    ELSE sock[g]]
               /\ Return(fd, dirty)
               /\ UNCHANGED <<peersN, fault, world>>
    BY <1>10 DEF Control
  <2>3. q \in Seq(ItemType)
    BY <1>1, AppendProperties DEF PeerType, ItemType
  <2>4. left \in -1 .. Len(q) /\ Len(q) \in Nat
    BY <1>1, <2>3, OutcomesRange, LenProperties
  <2>5. CASE left <= 0
    BY <1>3, <2>1, <2>4, <2>5
  <2>6. CASE left > 0
    <3> DEFINE r == [peer[fd] EXCEPT
                       !.ctrl = TRUE, !.vars = ParsedVars(fd), !.handshake = 1,
                       !.isWriting = TRUE, !.writeBuf = Unwritten(q, left)]
               s == SockBlocked(sock[fd], q, left)
    <3>1. left \in 0 .. Len(q)
      BY <2>4, <2>6
    <3>2. r.writeBuf = Unwritten(q, left) /\ ~r.raw
      BY <1>1, <1>2 DEF PeerType
    <3>3. FullInv(r, s)
      <4> HIDE DEF r, s, q
      <4>1. Unwritten(q, left) # <<>>
        BY <1>1, <2>3, <2>6, <3>1, WroteFull
      <4>2. QED
        BY <3>2, <4>1 DEF FullInv
    <3>4. /\ live' = live \ dead /\ Return(fd, dirty)
          /\ peer' = [g \in Fds |-> IF g \in dead THEN FreshPeer ELSE IF g = fd THEN r ELSE peer[g]]
          /\ sock' = [g \in Fds |-> IF g \in dead THEN FreshSock ELSE IF g = fd THEN s ELSE sock[g]]
      <4>1. ~(left <= 0)
        BY <2>4, <2>6
      <4>2. QED
        BY <2>1, <4>1
    <3> HIDE DEF r, s, dead
    <3>5. \A g \in Fds : FullInv(peer'[g], sock'[g])
      BY <3>3, <3>4, FreshFull DEF Fresh
    <3>6. Leaves(fd)
      BY <1>4, <3>4
    <3>7. \A g \in batch' \cap live' : sock'[g] = sock[g]
      BY <1>1, <1>2, <3>4, <3>6 DEF Leaves
    <3>8. QED
      BY <3>4, <3>5, <3>6, <3>7, HandlerStep
  <2>7. QED
    BY <2>4, <2>5, <2>6
<1>11. QED
  BY <1>6, <1>7, <1>8, <1>9, <1>10

\* Consuming a message and learning an address leave output alone.
LEMMA LearnedFull ==
    ASSUME NEW fd \in Fds, peer[fd] \in PeerType, NEW src
    PROVE  /\ Decapitated(fd).raw = peer[fd].raw
           /\ Decapitated(fd).writeBuf = peer[fd].writeBuf
           /\ Learned(Decapitated(fd), src).raw = peer[fd].raw
           /\ Learned(Decapitated(fd), src).writeBuf = peer[fd].writeBuf
           /\ DOMAIN Learned(Decapitated(fd), src) = DOMAIN peer[fd]
BY DEF Decapitated, Learned, PeerType

\* A frame is forwarded: a recipient that blocks is reported in dirty.
LEMMA ForwardFresh ==
    ASSUME IInv, Fresh, NEW fd \in Fds, Forward(fd)
    PROVE  Fresh'
<1> DEFINE m == Head(peer[fd].buf)
           to == Recipients(fd, m)
           q == [t \in to |-> Append(peer[t].writeBuf, Encoded(m, t))]
           learned == [peer EXCEPT ![fd] = Learned(Decapitated(fd), m.src)]
<1>1. /\ TypeOK /\ live \subseteq Fds /\ cur = fd /\ fd \notin batch
      /\ peer \in [Fds -> PeerType] /\ sock \in [Fds -> SockType]
      /\ \A g \in Fds : FullInv(peer[g], sock[g])
  BY DEF IInv, TypeOK, Fresh, BatchInv, Forward, Receiving, Looping
<1>2. peer[fd].handshake > 0 /\ peer[fd].buf # <<>> /\ m.type = "frame"
  BY DEF Forward, Receiving
<1>3. m.src \in Macs /\ m.dst \in Macs
  <2>1. peer[fd].buf \in Seq(RequestType \cup MessageType)
    BY <1>1 DEF PeerType
  <2>2. m \in RequestType \cup MessageType
    BY <1>2, <2>1, HeadTailProperties
  <2>3. QED
    BY <1>2, <2>2 DEF RequestType, MessageType, FrameType, Ping, Short, Close
<1>4. PICK left \in [to -> UNION {Outcomes(t, q[t]) : t \in to}] :
        LET dead == {t \in to : left[t] = -1}
            blocked == {t \in to : left[t] > 0}
        IN /\ \A t \in to : left[t] \in Outcomes(t, q[t])
           /\ live' = live \ dead
           /\ peer' = [g \in Fds |->
                IF g \in dead THEN FreshPeer
                ELSE IF g \in to
                THEN [learned[g] EXCEPT !.writeBuf = Unwritten(q[g], left[g])]
                ELSE learned[g]]
           /\ sock' = [g \in Fds |->
                IF g \in dead THEN FreshSock
                ELSE IF g \in to THEN SockForwarded(g, q[g], left[g])
                ELSE sock[g]]
           /\ dirty' = (dirty \/ dead \cup blocked # {})
           /\ fault' = IF fd \in dead THEN "freed peer used" ELSE fault
  BY DEF Forward
<1> DEFINE dead == {t \in to : left[t] = -1}
           after(g) == [learned[g] EXCEPT !.writeBuf = Unwritten(q[g], left[g])]
<1>5. to \subseteq live
  BY RecipientsKnown
<1>6. \A g \in Fds : /\ learned[g].raw = peer[g].raw
                     /\ learned[g].writeBuf = peer[g].writeBuf
                     /\ DOMAIN learned[g] = DOMAIN peer[g]
  <2>1. \A g \in Fds : learned[g] = IF g = fd THEN Learned(Decapitated(fd), m.src) ELSE peer[g]
    BY <1>1
  <2> HIDE DEF learned, m
  <2>2. QED
    BY <1>1, <2>1, LearnedFull
<1>7. ASSUME NEW t \in to, t \notin dead
      PROVE  /\ FullInv(after(t), SockForwarded(t, q[t], left[t]))
             /\ ~dirty' => left[t] = 0
             /\ left[t] = 0 => SockForwarded(t, q[t], left[t]).full = sock[t].full
             /\ left[t] = 0 => sock[t].full = FALSE
  <2> DEFINE item == Encoded(m, t)
  <2>1. item \in ItemType
    BY <1>3 DEF Encoded, ItemType
  <2>2. t \in Fds /\ q[t] = Append(peer[t].writeBuf, item)
    BY <1>1, <1>5
  <2>3. q[t] \in Seq(ItemType) /\ q[t] # <<>>
    <3>1. peer[t].writeBuf \in Seq(ItemType)
      BY <1>1, <2>2 DEF PeerType
    <3>2. QED
      BY <2>1, <2>2, <3>1, AppendProperties
  <2>4. left[t] \in Outcomes(t, q[t]) /\ left[t] \in 0 .. Len(q[t]) /\ Len(q[t]) \in Nat
    <3>1. left[t] \in Outcomes(t, q[t]) /\ left[t] # -1
      BY <1>4, <1>7
    <3>2. left[t] \in -1 .. Len(q[t]) /\ Len(q[t]) \in Nat
      BY <1>1, <2>2, <2>3, <3>1, OutcomesRange, LenProperties
    <3>3. QED
      BY <3>1, <3>2
  <2>5. after(t).raw = peer[t].raw /\ after(t).writeBuf = Unwritten(q[t], left[t])
    <3> HIDE DEF learned, q
    <3>1. "writeBuf" \in DOMAIN learned[t]
      BY <1>1, <1>6, <2>2 DEF PeerType
    <3>2. QED
      BY <1>6, <2>2, <3>1
  <2>6. SockForwarded(t, q[t], left[t]).full = (sock[t].full \/ left[t] > 0)
    <3> HIDE DEF q
    <3>1. QED
      BY <1>1, <2>2, <2>3, <2>4, WroteFull DEF SockForwarded
  <2>7. FullInv(after(t), SockForwarded(t, q[t], left[t]))
    <3> DEFINE p == after(t)
               n == left[t]
               qt == q[t]
               s == SockForwarded(t, qt, n)
    <3>1. /\ t \in Fds /\ p.raw = peer[t].raw /\ sock[t] \in SockType
          /\ FullInv(peer[t], sock[t]) /\ qt \in Seq(ItemType) /\ qt # <<>>
          /\ n \in Outcomes(t, qt) /\ n \in 0 .. Len(qt)
          /\ p.writeBuf = Unwritten(qt, n) /\ s.full = (sock[t].full \/ n > 0)
      BY <1>1, <2>2, <2>3, <2>4, <2>5, <2>6
    <3> HIDE DEF p, n, qt, s
    <3>2. FullInv(p, s)
      BY <3>1, WrittenFull
    <3>3. QED
      BY <3>2 DEF p, n, qt, s
  <2>8. ~dirty' => left[t] = 0
    <3>1. dirty' = (dirty \/ dead \cup {u \in to : left[u] > 0} # {})
      BY <1>4
    <3>2. ~dirty' => ~(left[t] > 0)
      BY <3>1
    <3>3. QED
      BY <2>4, <3>2
  <2>9. left[t] = 0 => sock[t].full = FALSE
    <3>1. CASE peer[t].raw
      BY <1>1, <2>2, <3>1 DEF FullInv, SockType
    <3>2. CASE ~peer[t].raw
      <4> HIDE DEF q
      <4>1. QED
        BY <1>1, <2>2, <2>3, <2>4, <3>2, OutcomesFull DEF SockType
    <3>3. QED
      BY <3>1, <3>2
  <2>10. left[t] = 0 => SockForwarded(t, q[t], left[t]).full = sock[t].full
    <3> HIDE DEF q
    <3>1. sock[t].full \in BOOLEAN
      BY <1>1, <2>2 DEF SockType
    <3>2. QED
      BY <2>6, <3>1
  <2>11. QED
    BY <2>7, <2>8, <2>9, <2>10
<1>8. /\ live' = live \ dead /\ dead \subseteq to
      /\ dirty' = (dirty \/ dead \cup {t \in to : left[t] > 0} # {})
      /\ UNCHANGED <<batch, cur>>
      /\ \A g \in Fds : /\ peer'[g] = IF g \in dead THEN FreshPeer
                                      ELSE IF g \in to THEN after(g) ELSE learned[g]
                        /\ sock'[g] = IF g \in dead THEN FreshSock
                                      ELSE IF g \in to THEN SockForwarded(g, q[g], left[g])
                                      ELSE sock[g]
  <2>1. UNCHANGED <<batch, cur>>
    BY DEF Forward
  <2> HIDE DEF learned, q, to
  <2>2. QED
    BY <1>4, <2>1
<1> HIDE DEF m, to, q, learned, dead, after
<1>9. \A g \in Fds : FullInv(peer'[g], sock'[g])
  <2> SUFFICES ASSUME NEW g \in Fds PROVE FullInv(peer'[g], sock'[g])
    OBVIOUS
  <2>1. CASE g \in dead
    BY <2>1, <1>8, FreshFull
  <2>2. CASE g \notin dead /\ g \in to
    BY <2>2, <1>7, <1>8
  <2>3. CASE g \notin dead /\ g \notin to
    BY <2>3, <1>1, <1>6, <1>8 DEF FullInv
  <2>4. QED
    BY <2>1, <2>2, <2>3
<1>10. Leaves(fd)
  BY <1>1, <1>8 DEF Leaves
<1>11. \A g \in batch' \cap live' : dirty' \/ sock'[g] = sock[g] \/ NotBlocked(sock'[g])
  <2> SUFFICES ASSUME NEW g \in batch' \cap live', ~dirty'
               PROVE  sock'[g] = sock[g] \/ NotBlocked(sock'[g])
    OBVIOUS
  <2>1. g \in Fds /\ g \notin dead
    BY <1>1, <1>8
  <2>2. CASE g \in to
    <3>1. left[g] = 0 /\ sock'[g] = SockForwarded(g, q[g], left[g])
      BY <1>7, <1>8, <2>1, <2>2
    <3>2. sock'[g].full = FALSE
      BY <1>7, <2>1, <2>2, <3>1
    <3>3. QED
      BY <3>2 DEF NotBlocked
  <2>3. CASE g \notin to
    BY <1>8, <2>1, <2>3
  <2>4. QED
    BY <2>2, <2>3
<1>12. QED
  BY <1>8, <1>9, <1>10, <1>11, HandlerStep

\* A message of a peer past its handshake, or the end of the "again" loop.
LEMMA FrameFresh ==
    ASSUME IInv, Fresh, NEW fd \in Fds,
           LoopEnds(fd) \/ Misread(fd) \/ ReceiveClose(fd) \/ Ignore(fd) \/ LearnFails(fd)
             \/ Forward(fd)
    PROVE  Fresh'
<1>1. /\ peer \in [Fds -> PeerType] /\ sock \in [Fds -> SockType]
      /\ FullInv(peer[fd], sock[fd]) /\ dirty \in BOOLEAN
  BY DEF IInv, TypeOK, Fresh
<1>2. cur = fd /\ fd \notin batch
  BY DEF LoopEnds, Misread, ReceiveClose, Ignore, LearnFails, Forward, Receiving, Looping,
         Fresh, BatchInv
<1>3. CASE LoopEnds(fd)
  <2>1. Leaves(fd)
    BY <1>3 DEF LoopEnds, Return, Leaves
  <2>2. QED
    BY <1>3, <2>1, QuietFresh DEF LoopEnds
<1>4. CASE ReceiveClose(fd) \/ LearnFails(fd)
  <2>1. LoopFails(fd, {})
    BY <1>4 DEF ReceiveClose, LearnFails
  <2>2. Leaves(fd)
    BY <2>1 DEF LoopFails, Return, Leaves
  <2>3. QED
    BY <2>1, <2>2, DestroyFresh DEF LoopFails
<1>5. CASE Ignore(fd)
  <2> DEFINE p == Decapitated(fd)
             s == sock[fd]
  <2>1. /\ peer' = [peer EXCEPT ![fd] = p] /\ live' = live
        /\ UNCHANGED <<sock, batch, cur, dirty>>
    BY <1>5 DEF Ignore
  <2>2. FullInv(p, s)
    BY <1>1, LearnedFull DEF FullInv
  <2>3. sock' = [sock EXCEPT ![fd] = s] /\ Leaves(fd)
    BY <1>1, <1>2, <2>1 DEF Leaves
  <2> HIDE DEF p, s
  <2>4. QED
    BY <2>1, <2>2, <2>3, OneFdFresh
<1>6. CASE Forward(fd)
  BY <1>6, ForwardFresh
<1>7. CASE Misread(fd)
  <2>1. UNCHANGED <<live, peer, sock, batch, cur, dirty>>
    BY <1>7 DEF Misread
  <2>2. QED
    BY <2>1 DEF Fresh, BatchInv, NotBlocked
<1>8. QED
  BY <1>3, <1>4, <1>5, <1>6, <1>7

\* Clients make sockets readable or writable, or hang up; they never fill one.
LEMMA ClientFresh == ASSUME IInv, Fresh, ClientStep PROVE Fresh'
<1>1. /\ live \subseteq Fds /\ sock \in [Fds -> SockType] /\ TapFd \in Fds
      /\ \A g \in Fds : FullInv(peer[g], sock[g])
  BY FdFacts DEF IInv, TypeOK, Fresh
<1>2. ASSUME UNCHANGED <<live, peer, batch, cur, dirty>>,
             \A g \in Fds : /\ sock'[g].interest = sock[g].interest
                            /\ sock'[g].full => sock[g].full
                            /\ sock[g].hup => sock'[g].hup
      PROVE  Fresh'
  <2>1. \A g \in Fds : FullInv(peer'[g], sock'[g])
    BY <1>1, <1>2 DEF FullInv
  <2>2. \A b \in batch \cap live : NotBlocked(sock[b]) => NotBlocked(sock'[b])
    BY <1>1, <1>2 DEF NotBlocked
  <2>3. BatchInv'
    BY <1>2, <2>2 DEF Fresh, BatchInv, NotBlocked
  <2>4. QED
    BY <2>1, <2>3 DEF Fresh
<1>3. ASSUME NEW fd \in Fds, NEW s, sock' = [sock EXCEPT ![fd] = s],
             s.interest = sock[fd].interest, s.full => sock[fd].full, sock[fd].hup => s.hup,
             UNCHANGED <<live, peer, batch, cur, dirty>>
      PROVE  Fresh'
  BY <1>1, <1>2, <1>3
<1>4. CASE Connect
  BY <1>2, <1>4 DEF Connect
<1>5. ASSUME NEW fd \in Fds, NEW m, Sends(fd, m) PROVE Fresh'
  <2> DEFINE s == [sock[fd] EXCEPT !.inq = Append(@, m)]
  <2>1. sock' = [sock EXCEPT ![fd] = s] /\ UNCHANGED <<live, peer, batch, cur, dirty>>
    BY <1>5 DEF Sends
  <2>2. s.interest = sock[fd].interest /\ s.full = sock[fd].full /\ s.hup = sock[fd].hup
    BY <1>1 DEF SockType
  <2> HIDE DEF s
  <2>3. QED
    BY <1>3, <2>1, <2>2
<1>6. ASSUME NEW fd \in Fds, NEW r, ClientRequests(fd, r) PROVE Fresh'
  <2> DEFINE s == [sock[fd] EXCEPT !.inq = <<r>>]
  <2>1. sock' = [sock EXCEPT ![fd] = s] /\ UNCHANGED <<live, peer, batch, cur, dirty>>
    BY <1>6 DEF ClientRequests
  <2>2. s.interest = sock[fd].interest /\ s.full = sock[fd].full /\ s.hup = sock[fd].hup
    BY <1>1 DEF SockType
  <2> HIDE DEF s
  <2>3. QED
    BY <1>3, <2>1, <2>2
<1>7. ASSUME NEW fd \in Fds, Drain(fd) PROVE Fresh'
  <2> DEFINE s == [sock[fd] EXCEPT !.full = FALSE]
  <2>1. sock' = [sock EXCEPT ![fd] = s] /\ UNCHANGED <<live, peer, batch, cur, dirty>>
    BY <1>7 DEF Drain
  <2>2. s.interest = sock[fd].interest /\ ~s.full /\ s.hup = sock[fd].hup
    BY <1>1 DEF SockType
  <2> HIDE DEF s
  <2>3. QED
    BY <1>3, <2>1, <2>2
<1>8. ASSUME NEW fd \in Fds, Hangup(fd) PROVE Fresh'
  <2> DEFINE s == [sock[fd] EXCEPT !.hup = TRUE]
  <2>1. sock' = [sock EXCEPT ![fd] = s] /\ UNCHANGED <<live, peer, batch, cur, dirty>>
    BY <1>8 DEF Hangup
  <2>2. s.interest = sock[fd].interest /\ s.full = sock[fd].full /\ s.hup
    BY <1>1 DEF SockType
  <2> HIDE DEF s
  <2>3. QED
    BY <1>3, <2>1, <2>2
<1>9. QED
  BY <1>1, <1>4, <1>5, <1>6, <1>7, <1>8 DEF ClientStep, ClientSends, TapReceives

LEMMA NextFresh == IInv /\ Fresh /\ [Next]_vars => Fresh'
<1> SUFFICES ASSUME IInv, Fresh, [Next]_vars PROVE Fresh'
  OBVIOUS
<1>1. CASE ServerStep
  <2>1. CASE Wait \/ Accept \/ AcceptFails \/ CreateFails
    BY <2>1, LoopFresh
  <2>2. ASSUME NEW fd \in Fds, EventStep(fd) PROVE Fresh'
    BY <2>2, EventFresh
  <2>3. ASSUME NEW fd \in Fds, LoopStep(fd) PROVE Fresh'
    BY <2>3, HandshakeFresh, FrameFresh DEF LoopStep
  <2>4. QED
    BY <1>1, <2>1, <2>2, <2>3 DEF ServerStep
<1>2. CASE ClientStep
  BY <1>2, ClientFresh
<1>3. CASE UNCHANGED vars
  <2>1. UNCHANGED <<live, peer, sock, batch, cur, dirty>>
    BY <1>3 DEF vars
  <2>2. QED
    BY <2>1 DEF Fresh, BatchInv, NotBlocked
<1>4. QED
  BY <1>1, <1>2, <1>3 DEF Next

-----------------------------------------------------------------------------
(* The theorem *)

\* The event of a live peer that is not ready any more.
LEMMA StaleEvent ==
    ASSUME ~SyscallsFail, IInv, Fresh, NEW fd \in live, fd \in batch, ~Ready(fd), EventStep(fd)
    PROVE  fd \in live' /\ peer'[fd] = peer[fd]
<1>1. /\ fd \in Fds /\ peer[fd] \in PeerType /\ sock[fd] \in SockType
      /\ FullInv(peer[fd], sock[fd]) /\ FdInv(peer[fd], sock[fd])
      /\ peer \in [Fds -> PeerType]
  BY DEF IInv, TypeOK, Fresh
<1>2. /\ ~sock[fd].hup
      /\ sock[fd].interest = "in" => sock[fd].inq = <<>>
      /\ sock[fd].interest = "out" => sock[fd].full
      /\ sock[fd].interest \in {"in", "out"}
  BY <1>1 DEF Ready, SockType
<1>3. NotBlocked(sock[fd])
  <2>1. cur = NoFd
    BY DEF EventStep, ManageMissing, WriteFails, WriteSome, WriteAll, WatchInputFails,
           ReadFails, ReadNothing, ReadMessages, WritingEvent, ReadingEvent, Managing, Idle
  <2>2. QED
    BY <2>1 DEF Fresh, BatchInv
<1>4. sock[fd].interest = "in" /\ sock[fd].inq = <<>>
  BY <1>2, <1>3 DEF NotBlocked
<1>5. ~peer[fd].isWriting
  BY <1>1, <1>4 DEF FdInv, WatchInv
<1>6. ReadNothing(fd)
  BY <1>2, <1>4, <1>5 DEF EventStep, ManageMissing, WriteFails, WriteSome, WriteAll,
     WatchInputFails, ReadFails, ReadMessages, WritingEvent, ReadingEvent
<1>7. QED
  BY <1>6 DEF ReadNothing

\* An event that waits in the batch while the loop of another handler blocks,
\* destroys or refills the descriptor it is for does nothing to the peer that
\* has it by then: where system calls do not fail, no peer is destroyed and
\* nothing is parsed or written on behalf of a readiness that is no longer there.
THEOREM StaleEventsHarmless ==
    ASSUME ~SyscallsFail
    PROVE  Spec => SpuriousEventHarmless
<1> DEFINE Harmless == \A fd \in live :
                Managing(fd) /\ fd \notin batch' /\ ~Ready(fd) =>
                   fd \in live' /\ peer[fd]' = peer[fd]
<1>1. IInv /\ Fresh /\ [Next]_vars => [Harmless]_vars
  <2> SUFFICES ASSUME IInv, Fresh, Next, NEW fd \in live,
                      Managing(fd), fd \notin batch', ~Ready(fd)
               PROVE  fd \in live' /\ peer'[fd] = peer[fd]
    OBVIOUS
  <2>1. /\ fd \in Fds /\ fd \in batch /\ fd # ServerFd /\ cur = NoFd /\ live \subseteq Fds
        /\ peer \in [Fds -> PeerType]
    BY DEF IInv, TypeOK, Managing, Idle
  <2>2. CASE ClientStep
    <3>1. batch' = batch
      BY <2>2 DEF ClientStep, Connect, ClientRequests, ClientSends, TapReceives, Sends, Drain, Hangup
    <3>2. QED
      BY <2>1, <3>1
  <2>3. CASE Wait \/ Accept \/ AcceptFails \/ CreateFails
    BY <2>1, <2>3 DEF Wait, Accept, AcceptFails, CreateFails, Return
  <2>4. ASSUME NEW g \in Fds, LoopStep(g) PROVE FALSE
    <3>1. cur = g
      BY <2>4 DEF LoopStep, LoopEnds, HandshakeFails, HandshakeUpgrade, Control, ControlFault,
             ControlFails, ControlRequest, Shaking, Misread, ReceiveClose, Ignore, LearnFails, Forward,
             Receiving, Looping
    <3>2. QED
      BY <2>1, <2>4, <3>1, FdFacts
  <2>5. ASSUME NEW g \in Fds, g # fd, EventStep(g) PROVE fd \in live' /\ peer'[fd] = peer[fd]
    <3>1. CASE ManageMissing(g) \/ ReadNothing(g)
      BY <3>1 DEF ManageMissing, ReadNothing
    <3>2. CASE WriteFails(g) \/ ReadFails(g)
      BY <2>1, <2>5, <3>2 DEF WriteFails, ReadFails, Destroy
    <3>3. CASE WriteSome(g) \/ WatchInputFails(g)
      BY <2>1, <2>5, <3>3 DEF WriteSome, WatchInputFails
    <3>4. CASE WriteAll(g)
      BY <2>1, <2>5, <3>4 DEF WriteAll, Destroy
    <3>5. CASE ReadMessages(g)
      BY <2>1, <2>5, <3>5 DEF ReadMessages
    <3>6. QED
      BY <2>5, <3>1, <3>2, <3>3, <3>4, <3>5 DEF EventStep
  <2>6. CASE EventStep(fd)
    BY <2>1, <2>6, StaleEvent
  <2>7. QED
    BY <2>2, <2>3, <2>4, <2>5, <2>6 DEF Next, ServerStep
<1>2. IInv /\ Fresh /\ [Next]_vars => Fresh'
  BY NextFresh
<1>3. Spec => []Fresh
  BY <1>2, InitFresh, Invariance, PTL DEF Spec
<1>4. QED
  BY <1>1, <1>3, Invariance, PTL DEF Spec, SpuriousEventHarmless
-----------------------------------------------------------------------------
(***************************************************************************)
(* What holds of a server whose clients do not kill each other.  That is an  *)
(* assumption about the requests the server is sent, so the invariant       *)
(* (Simple) follows a request from the socket to the parser: what the server *)
(* acts on is what a client has sent.                                       *)
(***************************************************************************)

NoKills == \A r \in Requests : r.kill = NoKill

\* A request as the assumption allows it.
Plain(r) == NoKills => r.kill = NoKill

\* The request of a peer in its handshake is plain, wherever it is by now, and
\* a peer that is no bridge has one address.
SimpleFd(p, s) ==
    /\ p.handshake = 0 /\ p.buf # <<>> => Plain(Head(p.buf))
    /\ p.handshake = 0 /\ p.buf = <<>> /\ s.inq # <<>> => Plain(Head(s.inq))
    /\ ~p.bridge => p.macs = {}

Simple == \A fd \in Fds : SimpleFd(peer[fd], sock[fd])

-----------------------------------------------------------------------------
(* SimpleFd is preserved by what the steps do to one peer and its socket *)

LEMMA FreshSimple == SimpleFd(FreshPeer, FreshSock) /\ SimpleFd(TapPeer, FreshSock)
BY DEF SimpleFd, FreshPeer, FreshSock, TapPeer

\* Bytes are read.
LEMMA ReadSimple ==
    ASSUME NEW p, NEW s, FdInv(p, s), SimpleFd(p, s), s.inq # <<>>, NEW k \in 1 .. Len(s.inq)
    PROVE  SimpleFd([p EXCEPT !.buf = @ \o SubSeq(s.inq, 1, k)],
                    [s EXCEPT !.inq = SubSeq(s.inq, k + 1, Len(s.inq))])
<1> DEFINE Bytes == RequestType \cup MessageType
           got == SubSeq(s.inq, 1, k)
<1>1. p \in PeerType /\ s \in SockType /\ p.buf \in Seq(Bytes) /\ s.inq \in Seq(Bytes)
  BY DEF FdInv, PeerType, SockType
<1>2. Len(s.inq) \in Nat /\ \A i \in 1 .. Len(s.inq) : s.inq[i] \in Bytes
  BY <1>1, ElementOfSeq, LenProperties
<1>3. got \in Seq(Bytes) /\ Len(got) = k /\ got[1] = s.inq[1]
  <2>1. \A i \in 1 .. k : s.inq[i] \in Bytes
    BY <1>2
  <2>2. QED
    BY <1>2, <2>1, SubSeqProperties
<1>4. p.buf \o got # <<>>
  <2>1. Len(p.buf \o got) = Len(p.buf) + k /\ Len(p.buf) \in Nat
    BY <1>1, <1>3, ConcatProperties, LenProperties
  <2>2. QED
    BY <2>1, EmptySeq
<1>5. Head(p.buf \o got) = IF p.buf = <<>> THEN Head(s.inq) ELSE Head(p.buf)
  <2>1. CASE p.buf = <<>>
    BY <2>1, <1>1, <1>3, ConcatEmptySeq
  <2>2. CASE p.buf # <<>>
    BY <2>2, <1>1, <1>3, ConcatProperties, LenProperties, EmptySeq
  <2>3. QED
    BY <2>1, <2>2
<1> HIDE DEF got, Bytes
<1>6. QED
  BY <1>1, <1>4, <1>5 DEF SimpleFd, PeerType, SockType, got

\* Reading the address cuts a request, but asks for nothing else.
LEMMA AddressReadPlain ==
    ASSUME NEW b \in Seq(RequestType \cup MessageType), b # <<>>,
           Head(b) \in RequestType, Plain(Head(b))
    PROVE  Plain(Head(AddressRead(b)))
<1> DEFINE Bytes == RequestType \cup MessageType
<1>1. Len(b) \in Nat /\ Len(b) > 0 /\ Head(b) = b[1] /\ b[1] \in Bytes
  BY EmptySeq, LenProperties, HeadTailProperties
<1>2. CASE Head(b).macAt = "inside"
  <2> DEFINE c == [b[1] EXCEPT !.cut = TRUE]
             d == [b EXCEPT ![1] = c]
  <2>1. c \in RequestType /\ Plain(c)
    BY <1>1 DEF RequestType, Plain
  <2>2. AddressRead(b) = d
    BY <1>2 DEF AddressRead
  <2>3. c \in Bytes /\ 1 \in 1 .. Len(b)
    BY <1>1, <2>1
  <2> HIDE DEF c
  <2>4. d \in Seq(Bytes) /\ Len(d) = Len(b) /\ d[1] = c
    BY <2>3, ExceptSeq
  <2> HIDE DEF d, Bytes
  <2>5. Head(d) = c
    BY <1>1, <2>4, EmptySeq, HeadTailProperties
  <2>6. QED
    BY <2>1, <2>2, <2>5
<1>3. CASE Head(b).macAt = "last" /\ Len(b) > 1 /\ b[2] \in {Close, Ping}
  <2> DEFINE d == [b EXCEPT ![2] = Short]
  <2>1. Short \in Bytes /\ 2 \in 1 .. Len(b) /\ 1 \in 1 .. Len(b)
    BY <1>1, <1>3 DEF MessageType
  <2>2. d \in Seq(Bytes) /\ Len(d) = Len(b) /\ d[1] = b[1]
    BY <2>1, ExceptSeq
  <2>3. AddressRead(b) = d
    BY <1>3 DEF AddressRead, RequestType
  <2> HIDE DEF d, Bytes
  <2>4. Head(d) = b[1]
    BY <1>1, <2>2, EmptySeq, HeadTailProperties
  <2>5. QED
    BY <1>1, <2>3, <2>4
<1>4. CASE /\ Head(b).macAt # "inside"
           /\ ~(Head(b).macAt = "last" /\ Len(b) > 1 /\ b[2] \in {Close, Ping})
  BY <1>4 DEF AddressRead
<1>5. QED
  BY <1>2, <1>3, <1>4

\* A request is accepted, its reply written or not.
LEMMA UpgradedSimple ==
    ASSUME NEW fd \in Fds, FdInv(peer[fd], sock[fd]), SimpleFd(peer[fd], sock[fd]),
           peer[fd].handshake = 0, peer[fd].buf # <<>>, ~BadPacket(fd), NEW w, NEW s
    PROVE  LET p == Upgraded(fd)
           IN /\ SimpleFd([p EXCEPT !.handshake = 1, !.buf = Consumed(@), !.writeBuf = w], s)
              /\ SimpleFd([p EXCEPT !.isWriting = TRUE, !.writeBuf = w], s)
<1> DEFINE p == Upgraded(fd)
           r == Head(peer[fd].buf)
<1>1. peer[fd] \in PeerType /\ r \in RequestType /\ Plain(r)
  BY DEF FdInv, ShakeInv, SimpleFd
<1>2. p \in PeerType /\ p.buf = AddressRead(peer[fd].buf) /\ p.handshake = 0
  BY UpgradedTyped
<1>3. p.buf # <<>> /\ Plain(Head(p.buf))
  BY <1>1, <1>2, AddressReadProperties, AddressReadPlain DEF PeerType
<1>4. ~p.bridge => p.macs = {}
  <2>1. p.bridge = (peer[fd].bridge \/ r.bridge) /\ p.macs = peer[fd].macs
    BY <1>1 DEF Upgraded, PeerType
  <2>2. QED
    BY <1>1, <2>1 DEF SimpleFd
<1> HIDE DEF p
<1>5. QED
  BY <1>2, <1>3, <1>4 DEF SimpleFd, PeerType, p

\* A message is consumed; a peer that is no bridge learns at most its address.
LEMMA LearnedSimple ==
    ASSUME NEW fd \in Fds, FdInv(peer[fd], sock[fd]), SimpleFd(peer[fd], sock[fd]),
           peer[fd].handshake > 0, NEW m
    PROVE  LET p == Learned(Decapitated(fd), m.src)
           IN /\ SimpleFd(Decapitated(fd), sock[fd])
              /\ Accepted(fd, m) => SimpleFd(p, sock[fd])
<1> DEFINE d == Decapitated(fd)
           p == Learned(d, m.src)
<1>1. peer[fd] \in PeerType /\ peer[fd].handshake = 1
  BY DEF FdInv, PeerType
<1>2. /\ d.handshake = 1 /\ d.bridge = peer[fd].bridge /\ d.macs = peer[fd].macs
      /\ d.mac = peer[fd].mac /\ d.macCollected = peer[fd].macCollected
      /\ DOMAIN d = DOMAIN peer[fd]
  BY <1>1 DEF Decapitated, PeerType
<1>3. /\ p.handshake = 1 /\ p.bridge = peer[fd].bridge
      /\ Accepted(fd, m) /\ ~peer[fd].bridge => p.macs = {}
      /\ DOMAIN p = DOMAIN peer[fd]
  BY <1>1, <1>2 DEF Learned, Accepted, SimpleFd, PeerType
<1> HIDE DEF d, p
<1>4. QED
  BY <1>1, <1>2, <1>3 DEF SimpleFd, PeerType, d, p

-----------------------------------------------------------------------------
(* Simple is preserved by every step *)

LEMMA InitSimple == Init => Simple
BY FreshSimple DEF Init, Simple

\* One peer and its socket change.
LEMMA OneFdSimple ==
    ASSUME IInv, Simple, NEW fd \in Fds, NEW p, NEW s, SimpleFd(p, s),
           peer' = [peer EXCEPT ![fd] = p], sock' = [sock EXCEPT ![fd] = s]
    PROVE  Simple'
<1>1. peer \in [Fds -> PeerType] /\ sock \in [Fds -> SockType]
  BY DEF IInv, TypeOK
<1>2. \A g \in Fds : peer'[g] = (IF g = fd THEN p ELSE peer[g])
                     /\ sock'[g] = (IF g = fd THEN s ELSE sock[g])
  BY <1>1
<1>3. QED
  BY <1>2 DEF Simple

LEMMA DestroySimple == ASSUME Simple, NEW S, Destroy(S) PROVE Simple'
BY FreshSimple DEF Destroy, Simple

LEMMA QuietSimple == ASSUME Simple, UNCHANGED <<peer, sock>> PROVE Simple'
BY DEF Simple

\* The event loop, accept() and the events of the batch.
LEMMA EventSimple ==
    ASSUME IInv, Simple,
           Wait \/ Accept \/ AcceptFails \/ CreateFails \/ \E fd \in Fds : EventStep(fd)
    PROVE  Simple'
<1>1. CASE Wait \/ AcceptFails \/ CreateFails
  BY <1>1, QuietSimple DEF Wait, AcceptFails, CreateFails
<1>2. CASE Accept
  <2>1. PICK fd \in Lowest(Fds \ live) :
          peer' = [peer EXCEPT ![fd] = FreshPeer] /\ sock' = [sock EXCEPT ![fd] = FreshSock]
    BY <1>2 DEF Accept
  <2>2. fd \in Fds
    BY <2>1 DEF Lowest
  <2>3. QED
    BY <2>1, <2>2, FreshSimple, OneFdSimple
<1>3. ASSUME NEW fd \in Fds, EventStep(fd) PROVE Simple'
  <2>1. /\ peer[fd] \in PeerType /\ sock[fd] \in SockType /\ FdInv(peer[fd], sock[fd])
        /\ SimpleFd(peer[fd], sock[fd])
    BY DEF IInv, TypeOK, Simple
  <2>2. CASE ManageMissing(fd) \/ ReadNothing(fd)
    BY <2>2, QuietSimple DEF ManageMissing, ReadNothing
  <2>3. CASE WriteFails(fd) \/ ReadFails(fd)
    BY <2>3, DestroySimple DEF WriteFails, ReadFails
  <2>4. ASSUME NEW p, NEW s, peer' = [peer EXCEPT ![fd] = p], sock' = [sock EXCEPT ![fd] = s],
               p.handshake = peer[fd].handshake, p.buf = peer[fd].buf,
               p.bridge = peer[fd].bridge, p.macs = peer[fd].macs, s.inq = sock[fd].inq
        PROVE  Simple'
    <3>1. SimpleFd(p, s)
      BY <2>1, <2>4 DEF SimpleFd
    <3>2. QED
      BY <2>4, <3>1, OneFdSimple
  <2>5. CASE WriteSome(fd)
    <3> DEFINE q == peer[fd].writeBuf
    <3>1. PICK left \in Outcomes(fd, q) \ {0, -1} :
            /\ peer' = [peer EXCEPT ![fd].writeBuf = Unwritten(q, left)]
            /\ sock' = [sock EXCEPT ![fd] = SockWrote(@, q, left)]
      BY <2>5 DEF WriteSome
    <3> DEFINE p == [peer[fd] EXCEPT !.writeBuf = Unwritten(q, left)]
               s == SockWrote(sock[fd], q, left)
    <3>2. /\ p.handshake = peer[fd].handshake /\ p.buf = peer[fd].buf
          /\ p.bridge = peer[fd].bridge /\ p.macs = peer[fd].macs /\ s.inq = sock[fd].inq
      BY <2>1 DEF SockWrote, PeerType, SockType
    <3>3. peer' = [peer EXCEPT ![fd] = p] /\ sock' = [sock EXCEPT ![fd] = s]
      BY <3>1
    <3> HIDE DEF p, s
    <3>4. QED
      BY <2>4, <3>2, <3>3
  <2>6. CASE WriteAll(fd) \/ WatchInputFails(fd)
    <3> DEFINE q == peer[fd].writeBuf
               p == [peer[fd] EXCEPT !.isWriting = FALSE, !.writeBuf = <<>>]
               s == SockWrote(sock[fd], q, 0)
               t == [s EXCEPT !.interest = "in"]
    <3>1. ~(peer[fd].handshake > 1)
      <4>1. peer[fd].handshake \in {0, 1}
        BY <2>1 DEF PeerType
      <4>2. QED
        BY <4>1
    <3>2. /\ peer' = [peer EXCEPT ![fd] = p]
          /\ sock' = [sock EXCEPT ![fd] = s] \/ sock' = [sock EXCEPT ![fd] = t]
      BY <2>6, <3>1 DEF WriteAll, WatchInputFails
    <3>3. /\ p.handshake = peer[fd].handshake /\ p.buf = peer[fd].buf
          /\ p.bridge = peer[fd].bridge /\ p.macs = peer[fd].macs
          /\ s.inq = sock[fd].inq /\ t.inq = sock[fd].inq
      BY <2>1 DEF SockWrote, PeerType, SockType
    <3> HIDE DEF p, s, t
    <3>4. QED
      BY <2>4, <3>2, <3>3
  <2>7. CASE ReadMessages(fd)
    <3> DEFINE q == sock[fd].inq
    <3>1. PICK k \in 1 .. (IF peer[fd].raw THEN 1 ELSE Len(q)) :
            /\ peer' = [peer EXCEPT ![fd].buf = @ \o SubSeq(q, 1, k)]
            /\ sock' = [sock EXCEPT ![fd].inq = SubSeq(q, k + 1, Len(q))]
      BY <2>7 DEF ReadMessages
    <3>2. q # <<>> /\ k \in 1 .. Len(q)
      <4>1. q # <<>> /\ Len(q) \in Nat /\ Len(q) # 0
        BY <2>1, <2>7, EmptySeq, LenProperties DEF ReadMessages, SockType
      <4>2. QED
        BY <3>1, <4>1
    <3> DEFINE p == [peer[fd] EXCEPT !.buf = @ \o SubSeq(q, 1, k)]
               s == [sock[fd] EXCEPT !.inq = SubSeq(q, k + 1, Len(q))]
    <3>3. SimpleFd(p, s)
      BY <2>1, <3>2, ReadSimple
    <3>4. peer' = [peer EXCEPT ![fd] = p] /\ sock' = [sock EXCEPT ![fd] = s]
      BY <3>1
    <3> HIDE DEF p, s
    <3>5. QED
      BY <3>3, <3>4, OneFdSimple
  <2>8. QED
    BY <1>3, <2>2, <2>3, <2>5, <2>6, <2>7 DEF EventStep
<1>4. QED
  BY <1>1, <1>2, <1>3

\* A handshake or control request.
LEMMA HandshakeSimple ==
    ASSUME IInv, Simple, NEW fd \in Fds,
           HandshakeFails(fd) \/ HandshakeUpgrade(fd)
             \/ Control(fd) \/ ControlFault(fd) \/ ControlFails(fd)
    PROVE  Simple'
<1>1. /\ peer[fd] \in PeerType /\ sock[fd] \in SockType /\ FdInv(peer[fd], sock[fd])
      /\ SimpleFd(peer[fd], sock[fd])
  BY DEF IInv, TypeOK, Simple
<1>2. ASSUME NEW S, LoopFails(fd, S) PROVE Simple'
  BY <1>2, DestroySimple DEF LoopFails
<1>3. CASE HandshakeFails(fd) \/ ControlFails(fd)
  BY <1>2, <1>3 DEF HandshakeFails, ControlFails
<1>4. CASE ControlFault(fd)
  BY <1>4, QuietSimple DEF ControlFault
<1>5. CASE HandshakeUpgrade(fd)
  <2> DEFINE q == Append(peer[fd].writeBuf, Reply101)
             p == Upgraded(fd)
  <2>1. PICK left \in Outcomes(fd, q) :
            \/ left = -1 /\ LoopFails(fd, {})
            \/ /\ peer' = [peer EXCEPT ![fd] =
                    [p EXCEPT !.handshake = 1, !.buf = Consumed(@), !.writeBuf = <<>>]]
               /\ sock' = [sock EXCEPT ![fd] = SockWrote(@, q, 0)]
            \/ /\ peer' = [peer EXCEPT ![fd] =
                    [p EXCEPT !.isWriting = TRUE, !.writeBuf = Unwritten(q, left)]]
               /\ sock' = [sock EXCEPT ![fd] = SockBlocked(@, q, left)]
    BY <1>5 DEF HandshakeUpgrade
  <2>2. peer[fd].handshake = 0 /\ peer[fd].buf # <<>> /\ ~BadPacket(fd)
    BY <1>5 DEF HandshakeUpgrade, Shaking
  <2> DEFINE a == [p EXCEPT !.handshake = 1, !.buf = Consumed(@), !.writeBuf = <<>>]
             b == [p EXCEPT !.isWriting = TRUE, !.writeBuf = Unwritten(q, left)]
             s == SockWrote(sock[fd], q, 0)
             t == SockBlocked(sock[fd], q, left)
  <2>3. SimpleFd(a, s) /\ SimpleFd(b, t)
    BY <1>1, <2>2, UpgradedSimple
  <2>4. \/ LoopFails(fd, {})
        \/ peer' = [peer EXCEPT ![fd] = a] /\ sock' = [sock EXCEPT ![fd] = s]
        \/ peer' = [peer EXCEPT ![fd] = b] /\ sock' = [sock EXCEPT ![fd] = t]
    BY <2>1
  <2> HIDE DEF a, b, s, t
  <2>5. QED
    BY <1>2, <2>3, <2>4, OneFdSimple
<1>6. CASE Control(fd)
  <2> DEFINE q == Append(peer[fd].writeBuf, Json)
             dead == Victims(fd)
  <2>1. PICK left \in Outcomes(fd, q) :
            \/ LoopFails(fd, dead)
            \/ /\ peer' = [g \in Fds |->
                    IF g \in dead THEN FreshPeer
                    ELSE IF g = fd THEN [peer[fd] EXCEPT
                        !.ctrl = TRUE, !.vars = ParsedVars(fd), !.handshake = 1,
                        !.isWriting = TRUE, !.writeBuf = Unwritten(q, left)]
                    ELSE peer[g]]
               /\ sock' = [g \in Fds |->
                    IF g \in dead THEN FreshSock
                    ELSE IF g = fd THEN SockBlocked(sock[fd], q, left)
                    ELSE sock[g]]
    BY <1>6 DEF Control
  <2> DEFINE r == [peer[fd] EXCEPT
                     !.ctrl = TRUE, !.vars = ParsedVars(fd), !.handshake = 1,
                     !.isWriting = TRUE, !.writeBuf = Unwritten(q, left)]
             s == SockBlocked(sock[fd], q, left)
  <2>2. SimpleFd(r, s)
    <3>1. r.handshake = 1 /\ r.bridge = peer[fd].bridge /\ r.macs = peer[fd].macs
      BY <1>1 DEF PeerType
    <3> HIDE DEF r, s
    <3>2. QED
      BY <1>1, <3>1 DEF SimpleFd
  <2>3. \/ LoopFails(fd, dead)
        \/ /\ peer' = [g \in Fds |-> IF g \in dead THEN FreshPeer ELSE IF g = fd THEN r ELSE peer[g]]
           /\ sock' = [g \in Fds |-> IF g \in dead THEN FreshSock ELSE IF g = fd THEN s ELSE sock[g]]
    BY <2>1
  <2> HIDE DEF r, s, dead
  <2>4. QED
    BY <1>2, <2>2, <2>3, FreshSimple DEF Simple
<1>7. QED
  BY <1>3, <1>4, <1>5, <1>6

\* A frame is forwarded to its recipients.
LEMMA ForwardSimple == ASSUME IInv, Simple, NEW fd \in Fds, Forward(fd) PROVE Simple'
<1> DEFINE m == Head(peer[fd].buf)
           to == Recipients(fd, m)
           q == [t \in to |-> Append(peer[t].writeBuf, Encoded(m, t))]
           learned == [peer EXCEPT ![fd] = Learned(Decapitated(fd), m.src)]
<1>1. /\ peer \in [Fds -> PeerType] /\ sock \in [Fds -> SockType]
      /\ \A g \in Fds : FdInv(peer[g], sock[g]) /\ SimpleFd(peer[g], sock[g])
  BY DEF IInv, TypeOK, Simple
<1>2. peer[fd].handshake > 0 /\ Accepted(fd, m)
  BY DEF Forward, Receiving
<1>3. PICK left \in [to -> UNION {Outcomes(t, q[t]) : t \in to}] :
        LET dead == {t \in to : left[t] = -1}
        IN /\ peer' = [g \in Fds |->
                IF g \in dead THEN FreshPeer
                ELSE IF g \in to
                THEN [learned[g] EXCEPT !.writeBuf = Unwritten(q[g], left[g])]
                ELSE learned[g]]
           /\ sock' = [g \in Fds |->
                IF g \in dead THEN FreshSock
                ELSE IF g \in to THEN SockForwarded(g, q[g], left[g])
                ELSE sock[g]]
  BY DEF Forward
<1> DEFINE dead == {t \in to : left[t] = -1}
           after(g) == [learned[g] EXCEPT !.writeBuf = Unwritten(q[g], left[g])]
<1>4. \A g \in Fds : learned[g] \in PeerType /\ SimpleFd(learned[g], sock[g])
  <2>1. \A g \in Fds : learned[g] = IF g = fd THEN Learned(Decapitated(fd), m.src) ELSE peer[g]
    BY <1>1
  <2>2. Learned(Decapitated(fd), m.src) \in PeerType
    <3>1. m \in RequestType \cup MessageType /\ peer[fd].buf # <<>> /\ m.type = "frame"
      BY <1>1, HeadTailProperties DEF Forward, Receiving, PeerType
    <3>2. m.src \in Macs
      BY <3>1 DEF RequestType, MessageType, FrameType, Ping, Short, Close
    <3> HIDE DEF m
    <3>3. peer[fd].buf # <<>>
      BY DEF Forward, Receiving
    <3>4. QED
      BY <1>1, <1>2, <3>2, <3>3, ConsumedFd DEF FdInv
  <2>3. SimpleFd(Learned(Decapitated(fd), m.src), sock[fd])
    BY <1>1, <1>2, LearnedSimple
  <2> HIDE DEF learned, m
  <2>4. QED
    BY <1>1, <2>1, <2>2, <2>3
<1> HIDE DEF learned, q, to, m
<1>5. \A g \in to : g \in Fds => SimpleFd(after(g), SockForwarded(g, q[g], left[g]))
  <2> SUFFICES ASSUME NEW g \in to, g \in Fds
               PROVE  SimpleFd(after(g), SockForwarded(g, q[g], left[g]))
    OBVIOUS
  <2> DEFINE p == after(g)
             s == SockForwarded(g, q[g], left[g])
  <2>1. /\ p.handshake = learned[g].handshake /\ p.buf = learned[g].buf
        /\ p.bridge = learned[g].bridge /\ p.macs = learned[g].macs
    BY <1>4 DEF PeerType
  <2>2. s.inq = sock[g].inq
    BY <1>1 DEF SockForwarded, SockBlocked, SockWrote, SockType
  <2> HIDE DEF p, s
  <2>3. SimpleFd(p, s)
    BY <1>4, <2>1, <2>2 DEF SimpleFd
  <2>4. QED
    BY <2>3 DEF p, s
<1>6. \A g \in Fds : /\ peer'[g] = IF g \in dead THEN FreshPeer
                                   ELSE IF g \in to THEN after(g) ELSE learned[g]
                     /\ sock'[g] = IF g \in dead THEN FreshSock
                                   ELSE IF g \in to THEN SockForwarded(g, q[g], left[g])
                                   ELSE sock[g]
  BY <1>3
<1> HIDE DEF dead, after
<1>7. QED
  BY <1>4, <1>5, <1>6, FreshSimple DEF Simple

\* A message of a peer past its handshake, or the end of the "again" loop.
LEMMA FrameSimple ==
    ASSUME IInv, Simple, NEW fd \in Fds,
           LoopEnds(fd) \/ Misread(fd) \/ ReceiveClose(fd) \/ Ignore(fd) \/ LearnFails(fd)
             \/ Forward(fd)
    PROVE  Simple'
<1>1. CASE LoopEnds(fd) \/ Misread(fd)
  BY <1>1, QuietSimple DEF LoopEnds, Misread
<1>2. CASE ReceiveClose(fd) \/ LearnFails(fd)
  BY <1>2, DestroySimple DEF ReceiveClose, LearnFails, LoopFails
<1>3. CASE Ignore(fd)
  <2> DEFINE p == Decapitated(fd)
             s == sock[fd]
  <2>1. SimpleFd(p, s)
    BY <1>3, LearnedSimple DEF IInv, Simple, Ignore, Receiving
  <2>2. peer' = [peer EXCEPT ![fd] = p] /\ sock' = [sock EXCEPT ![fd] = s]
    BY <1>3 DEF Ignore, IInv, TypeOK
  <2> HIDE DEF p, s
  <2>3. QED
    BY <2>1, <2>2, OneFdSimple
<1>4. CASE Forward(fd)
  BY <1>4, ForwardSimple
<1>5. QED
  BY <1>1, <1>2, <1>3, <1>4

\* Clients send: the first message is a request of Requests.
LEMMA ClientSimple == ASSUME IInv, Simple, ClientStep PROVE Simple'
<1>1. /\ TapFd \in Fds /\ sock \in [Fds -> SockType]
      /\ \A g \in Fds : FdInv(peer[g], sock[g]) /\ SimpleFd(peer[g], sock[g])
  BY FdFacts DEF IInv, TypeOK, Simple
<1>2. ASSUME NEW fd \in Fds, NEW s, sock' = [sock EXCEPT ![fd] = s], peer' = peer,
             \/ s.inq = sock[fd].inq
             \/ ~(peer[fd].handshake = 0 /\ peer[fd].buf = <<>>)
             \/ sock[fd].inq # <<>> /\ Head(s.inq) = Head(sock[fd].inq)
             \/ Plain(Head(s.inq))
      PROVE  Simple'
  <2>1. SimpleFd(peer[fd], s)
    BY <1>1, <1>2 DEF SimpleFd
  <2>2. QED
    BY <1>1, <1>2, <2>1 DEF Simple
<1>3. CASE Connect
  BY <1>3, QuietSimple DEF Connect
<1>4. ASSUME NEW fd \in Fds, NEW m \in MessageType, Sends(fd, m),
             peer[fd].handshake > 0 \/ peer[fd].buf # <<>> \/ sock[fd].inq # <<>>
      PROVE  Simple'
  <2> DEFINE s == [sock[fd] EXCEPT !.inq = Append(@, m)]
  <2>1. sock' = [sock EXCEPT ![fd] = s] /\ peer' = peer
    BY <1>4 DEF Sends
  <2>2. CASE peer[fd].handshake > 0 \/ peer[fd].buf # <<>>
    <3>1. ~(peer[fd].handshake = 0 /\ peer[fd].buf = <<>>)
      BY <2>2
    <3> HIDE DEF s
    <3>2. QED
      BY <1>2, <2>1, <3>1
  <2>3. CASE sock[fd].inq # <<>>
    <3>1. sock[fd].inq \in Seq(RequestType \cup MessageType) /\ m \in RequestType \cup MessageType
      BY <1>1 DEF SockType
    <3>2. Head(Append(sock[fd].inq, m)) = Head(sock[fd].inq)
      BY <2>3, <3>1, AppendProperties, EmptySeq, LenProperties, HeadTailProperties
    <3>3. Head(s.inq) = Head(sock[fd].inq)
      BY <1>1, <3>2 DEF SockType
    <3> HIDE DEF s
    <3>4. QED
      BY <1>2, <2>1, <2>3, <3>3
  <2>4. QED
    BY <1>4, <2>2, <2>3
<1>5. ASSUME NEW fd \in Fds, NEW r \in Requests, ClientRequests(fd, r) PROVE Simple'
  <2> DEFINE s == [sock[fd] EXCEPT !.inq = <<r>>]
  <2>1. sock' = [sock EXCEPT ![fd] = s] /\ peer' = peer
    BY <1>5 DEF ClientRequests
  <2>2. Plain(Head(s.inq))
    <3>1. s.inq = <<r>>
      BY <1>1 DEF SockType
    <3>2. Head(<<r>>) = r
      OBVIOUS
    <3>3. Plain(r)
      BY <1>5 DEF Plain, NoKills
    <3>4. QED
      BY <3>1, <3>2, <3>3
  <2> HIDE DEF s
  <2>3. QED
    BY <1>2, <2>1, <2>2
<1>6. ASSUME NEW fd \in Fds, NEW m \in Messages, ClientSends(fd, m) PROVE Simple'
  BY <1>4, <1>6, TrafficAssumption DEF ClientSends
<1>7. ASSUME NEW m \in TapFrames, TapReceives(m) PROVE Simple'
  <2>1. peer[TapFd].handshake = 1 /\ Sends(TapFd, m)
    BY <1>1, <1>7 DEF TapReceives, FdInv, ShakeInv
  <2>2. m \in MessageType
    BY TrafficAssumption DEF MessageType
  <2>3. QED
    BY <1>1, <1>4, <2>1, <2>2
<1>8. ASSUME NEW fd \in Fds, Drain(fd) \/ Hangup(fd) PROVE Simple'
  <2>1. PICK s : /\ s = [sock[fd] EXCEPT !.full = FALSE] \/ s = [sock[fd] EXCEPT !.hup = TRUE]
                 /\ sock' = [sock EXCEPT ![fd] = s]
    BY <1>8 DEF Drain, Hangup
  <2>2. s.inq = sock[fd].inq /\ peer' = peer
    BY <1>1, <1>8, <2>1 DEF SockType, Drain, Hangup
  <2>3. QED
    BY <1>2, <2>1, <2>2
<1>9. QED
  BY <1>3, <1>5, <1>6, <1>7, <1>8 DEF ClientStep

LEMMA NextSimple == IInv /\ Simple /\ [Next]_vars => Simple'
<1> SUFFICES ASSUME IInv, Simple, [Next]_vars PROVE Simple'
  OBVIOUS
<1>1. CASE Wait \/ Accept \/ AcceptFails \/ CreateFails \/ \E fd \in Fds : EventStep(fd)
  BY <1>1, EventSimple
<1>2. ASSUME NEW fd \in Fds, LoopStep(fd) PROVE Simple'
  BY <1>2, HandshakeSimple, FrameSimple DEF LoopStep
<1>3. CASE ClientStep
  BY <1>3, ClientSimple
<1>4. CASE UNCHANGED vars
  BY <1>4, QuietSimple DEF vars
<1>5. QED
  BY <1>1, <1>2, <1>3, <1>4 DEF Next, ServerStep

LEMMA SimpleInvariance == Spec => [](IInv /\ Fresh /\ Simple)
<1>1. Spec => []Simple
  BY InitSimple, NextSimple, Invariance, PTL DEF Spec
<1>2. Spec => []Fresh
  BY InitFresh, NextFresh, Invariance, PTL DEF Spec
<1>3. QED
  BY <1>1, <1>2, Invariance, PTL

-----------------------------------------------------------------------------
(* Nobody is killed: the batch names live peers *)

\* A handler says so when it destroys a peer other than at the request of one.
LEMMA HandlerLive ==
    ASSUME NoKills, IInv, Fresh, Simple, NEW fd \in Fds, EventStep(fd) \/ LoopStep(fd)
    PROVE  /\ batch' \subseteq batch /\ (dirty => dirty' \/ batch' = {})
           /\ live' = live \/ dirty' \/ batch' = {}
<1>1. /\ peer[fd] \in PeerType /\ FdInv(peer[fd], sock[fd]) /\ SimpleFd(peer[fd], sock[fd])
      /\ cur = NoFd => ~dirty
      /\ live \subseteq Fds
  BY DEF IInv, TypeOK, Simple, Fresh, BatchInv
<1>2. ASSUME NEW S, LoopFails(fd, S) PROVE batch' = {}
  BY <1>2 DEF LoopFails, Return
<1>3. CASE EventStep(fd)
  <2>1. ~dirty
    BY <1>1, <1>3 DEF EventStep, ManageMissing, WriteFails, WriteSome, WriteAll, WatchInputFails,
           ReadFails, ReadNothing, ReadMessages, WritingEvent, ReadingEvent, Managing, Idle
  <2>2. batch' \subseteq batch
    BY <1>3 DEF EventStep, ManageMissing, WriteFails, WriteSome, WriteAll, WatchInputFails,
           ReadFails, ReadNothing, ReadMessages, Return
  <2>3. live' = live \/ batch' = {}
    BY <1>3 DEF EventStep, ManageMissing, WriteFails, WriteSome, WriteAll, WatchInputFails,
           ReadFails, ReadNothing, ReadMessages, Return
  <2>4. QED
    BY <2>1, <2>2, <2>3
<1>4. CASE HandshakeFails(fd) \/ ControlFails(fd) \/ ReceiveClose(fd) \/ LearnFails(fd)
  BY <1>2, <1>4 DEF HandshakeFails, ControlFails, ReceiveClose, LearnFails
<1>5. CASE ControlFault(fd) \/ Misread(fd) \/ Ignore(fd)
  <2>1. UNCHANGED <<live, batch, dirty>>
    BY <1>5 DEF ControlFault, Misread, Ignore
  <2>2. QED
    BY <2>1
<1>6. CASE LoopEnds(fd)
  BY <1>6 DEF LoopEnds, Return
<1>7. CASE HandshakeUpgrade(fd)
  <2>1. \/ LoopFails(fd, {})
        \/ UNCHANGED <<live, batch, dirty>>
        \/ Return(fd, dirty) /\ live' = live
    BY <1>7 DEF HandshakeUpgrade
  <2>2. QED
    BY <1>2, <2>1 DEF Return
<1>8. CASE Control(fd)
  <2>1. Victims(fd) = {}
    <3>1. Plain(Head(peer[fd].buf))
      BY <1>1, <1>8 DEF Control, ControlRequest, Shaking, SimpleFd
    <3>2. \A v \in live : v # NoKill
      <4>1. \A v \in Fds : v \in Nat
        BY FdFacts
      <4>2. QED
        BY <1>1, <4>1 DEF NoKill
    <3>3. QED
      BY <3>1, <3>2 DEF Victims, Plain
  <2>2. \/ LoopFails(fd, Victims(fd))
        \/ Return(fd, dirty) /\ live' = live \ Victims(fd)
    BY <1>8 DEF Control
  <2>3. QED
    BY <1>2, <2>1, <2>2 DEF Return
<1>9. CASE Forward(fd)
  <2>1. batch' = batch /\ \E dead, blocked :
           live' = live \ dead /\ dirty' = (dirty \/ dead \cup blocked # {})
    BY <1>9 DEF Forward
  <2>2. QED
    BY <2>1
<1>10. QED
  BY <1>3, <1>4, <1>5, <1>6, <1>7, <1>8, <1>9 DEF LoopStep

LEMMA NextLive ==
    ASSUME NoKills, IInv, Fresh, Simple, BatchLive, [Next]_vars
    PROVE  BatchLive'
<1>1. /\ cur = NoFd => ~dirty
      /\ ServerFd \notin live
  BY FdFacts DEF IInv, TypeOK, Fresh, BatchInv
<1>2. ASSUME NEW fd \in Fds, EventStep(fd) \/ LoopStep(fd) PROVE BatchLive'
  BY <1>2, HandlerLive DEF BatchLive
<1>3. CASE Wait
  BY <1>3 DEF Wait, AllReady, BatchLive
<1>4. CASE Accept \/ AcceptFails \/ CreateFails
  <2>1. batch' \subseteq batch /\ live \subseteq live'
    BY <1>4 DEF Accept, AcceptFails, CreateFails, Return
  <2>2. ~dirty
    BY <1>1, <1>4 DEF Accept, AcceptFails, CreateFails, Accepting, Idle
  <2>3. QED
    BY <2>1, <2>2 DEF BatchLive
<1>5. CASE ClientStep
  <2>1. UNCHANGED <<live, batch, dirty>>
    BY <1>5 DEF ClientStep, Connect, ClientRequests, ClientSends, TapReceives, Sends, Drain, Hangup
  <2>2. QED
    BY <2>1 DEF BatchLive
<1>6. CASE UNCHANGED vars
  BY <1>6 DEF vars, BatchLive
<1>7. QED
  BY <1>2, <1>3, <1>4, <1>5, <1>6 DEF Next, ServerStep

\* Whatever destroys a peer while events wait, a frame forwarded to it, a write
\* or a read that fails, ends the batch; only ?kill= together with a reply that
\* blocks does not, and no client asks for that here.
THEOREM BatchStaysLive ==
    ASSUME NoKills
    PROVE  Spec => []BatchLive
<1>1. Init => BatchLive
  BY DEF Init, BatchLive
<1>2. IInv /\ Fresh /\ Simple /\ BatchLive /\ [Next]_vars => BatchLive'
  BY NextLive
<1>3. QED
  BY <1>1, <1>2, SimpleInvariance, PTL DEF Spec

-----------------------------------------------------------------------------
(* Only a bridge gets a frame of its own, and only for an address of its own *)

\* The sender of an accepted frame among its recipients.
LEMMA OwnFrame ==
    ASSUME NEW fd \in Fds, NEW m, SimpleFd(peer[fd], sock[fd]), Accepted(fd, m),
           fd \in Recipients(fd, m)
    PROVE  peer[fd].bridge /\ m.dst \in {peer[fd].mac} \cup peer[fd].macs
<1>1. /\ fd \notin Others(fd) /\ ~IsLoop(m.dst, m.src)
      /\ fd \in ByMac(m.dst) \/ fd \in ByBridgeMac(m.dst)
  BY DEF Recipients, Others
<1>2. CASE fd \in ByMac(m.dst)
  <2>1. peer[fd].macCollected /\ peer[fd].mac = m.dst
    BY <1>2 DEF ByMac, Lowest
  <2>2. QED
    BY <1>1, <2>1 DEF Accepted, IsLoop
<1>3. CASE fd \in ByBridgeMac(m.dst)
  BY <1>3 DEF ByBridgeMac, Lowest, SimpleFd
<1>4. QED
  BY <1>1, <1>2, <1>3

\* vpn_ws_manage_fd_write finds recipients by address and by bridge; among those it
\* finds the peer that sent the frame can only be a bridge, which the frame goes
\* back to if it is for the bridge's own address or for one learned from it.
THEOREM NothingComesBack == Spec => NoHairpin
<1> DEFINE Back == \A fd \in live \cap live' :
                     cur = fd /\ Receiving(fd) /\ Output(fd)' # Output(fd) =>
                       /\ peer[fd].bridge
                       /\ Head(peer[fd].buf).dst \in {peer[fd].mac} \cup peer[fd].macs
<1>1. IInv /\ Fresh /\ Simple /\ [Next]_vars => [Back]_vars
  <2> SUFFICES ASSUME IInv, Fresh, Simple, Next, NEW fd \in live \cap live',
                      cur = fd, Receiving(fd), Output(fd)' # Output(fd)
               PROVE  /\ peer[fd].bridge
                      /\ Head(peer[fd].buf).dst \in {peer[fd].mac} \cup peer[fd].macs
    OBVIOUS
  <2>1. /\ fd \in Fds /\ cur # NoFd /\ live \subseteq Fds
        /\ peer \in [Fds -> PeerType] /\ sock \in [Fds -> SockType]
        /\ SimpleFd(peer[fd], sock[fd]) /\ peer[fd].handshake # 0 /\ peer[fd].buf # <<>>
    <3>1. TypeOK /\ peer[fd].handshake > 0 /\ peer[fd].buf # <<>>
      BY DEF IInv, Receiving
    <3>2. fd \in Fds /\ cur # NoFd
      BY <3>1, FdFacts DEF TypeOK
    <3>3. peer[fd].handshake # 0
      BY <3>1
    <3>4. QED
      BY <3>1, <3>2, <3>3 DEF TypeOK, Simple
  <2>2. ASSUME peer'[fd].writeBuf = peer[fd].writeBuf, sock'[fd].sent = sock[fd].sent
        PROVE  Output(fd)' = Output(fd)
    BY <2>2 DEF Output
  <2>3. ASSUME ClientStep PROVE FALSE
    <3>1. peer' = peer
      BY <2>3 DEF ClientStep, Connect, ClientRequests, ClientSends, TapReceives, Sends, Drain, Hangup
    <3>2. sock'[fd].sent = sock[fd].sent
      <4>1. \/ sock' = sock
            \/ \E g \in Fds : \E m : sock' = [sock EXCEPT ![g].inq = m]
            \/ \E g \in Fds : sock' = [sock EXCEPT ![g].full = FALSE]
            \/ \E g \in Fds : sock' = [sock EXCEPT ![g].hup = TRUE]
        BY <2>3, FdFacts DEF ClientStep, Connect, ClientRequests, ClientSends, TapReceives,
                             Sends, Drain, Hangup
      <4>2. ASSUME NEW g \in Fds, NEW s, sock' = [sock EXCEPT ![g] = s], s.sent = sock[g].sent
            PROVE  sock'[fd].sent = sock[fd].sent
        BY <2>1, <4>2
      <4>3. \A g \in Fds : sock[g] \in SockType
        BY <2>1
      <4>4. ASSUME NEW g \in Fds, NEW t,
                   \/ sock' = [sock EXCEPT ![g].inq = t]
                   \/ sock' = [sock EXCEPT ![g].full = FALSE]
                   \/ sock' = [sock EXCEPT ![g].hup = TRUE]
            PROVE  sock'[fd].sent = sock[fd].sent
        <5>1. PICK s : /\ sock' = [sock EXCEPT ![g] = s]
                       /\ \/ s = [sock[g] EXCEPT !.inq = t]
                          \/ s = [sock[g] EXCEPT !.full = FALSE]
                          \/ s = [sock[g] EXCEPT !.hup = TRUE]
          BY <4>4
        <5>2. s.sent = sock[g].sent
          BY <4>3, <5>1 DEF SockType
        <5>3. QED
          BY <4>2, <5>1, <5>2
      <4>5. QED
        BY <4>1, <4>4
    <3>3. QED
      BY <2>2, <3>1, <3>2
  <2>4. ASSUME Wait \/ Accept \/ AcceptFails \/ CreateFails PROVE FALSE
    BY <2>1, <2>4 DEF Wait, Accept, AcceptFails, CreateFails, Accepting, Idle
  <2>5. ASSUME NEW g \in Fds, EventStep(g) PROVE FALSE
    BY <2>1, <2>5 DEF EventStep, ManageMissing, WriteFails, WriteSome, WriteAll, WatchInputFails,
           ReadFails, ReadNothing, ReadMessages, WritingEvent, ReadingEvent, Managing, Idle
  <2> DEFINE m == Head(peer[fd].buf)
             to == Recipients(fd, m)
  <2>6. ASSUME NEW g \in Fds, LoopStep(g) PROVE Forward(fd) /\ fd \in to
    <3>1. g = fd /\ ~Shaking(fd) /\ ~LoopEnds(fd) /\ ~Misread(fd)
      BY <2>1, <2>6 DEF LoopStep, LoopEnds, HandshakeFails, HandshakeUpgrade, Control, ControlFault,
             ControlFails, ControlRequest, Shaking, Misread, ReceiveClose, Ignore, LearnFails, Forward,
             Receiving, Looping
    <3>2. CASE ReceiveClose(fd) \/ LearnFails(fd)
      <4>1. fd \notin live'
        BY <3>2 DEF ReceiveClose, LearnFails, LoopFails, Destroy
      <4>2. QED
        BY <4>1
    <3>3. CASE Ignore(fd)
      <4>1. peer'[fd] = Decapitated(fd) /\ sock' = sock
        BY <2>1, <3>3 DEF Ignore
      <4>2. QED
        BY <2>1, <2>2, <4>1, LearnedFull
    <3>4. ASSUME Forward(fd), fd \notin to PROVE FALSE
      <4>1. fd \notin to
        BY <3>4
      <4>2. peer'[fd] = Learned(Decapitated(fd), m.src) /\ sock'[fd] = sock[fd]
        <5>1. /\ [peer EXCEPT ![fd] = Learned(Decapitated(fd), m.src)][fd]
                    = Learned(Decapitated(fd), m.src)
          BY <2>1
        <5>2. QED
          BY <2>1, <3>4, <4>1, <5>1 DEF Forward
      <4>3. QED
        BY <2>1, <2>2, <4>2, LearnedFull
    <3>5. QED
      BY <2>6, <3>1, <3>2, <3>3, <3>4 DEF LoopStep, HandshakeFails, HandshakeUpgrade,
         Control, ControlFault, ControlFails, ControlRequest
  <2>7. Forward(fd) /\ fd \in to
    BY <2>3, <2>4, <2>5, <2>6 DEF Next, ServerStep
  <2>8. Accepted(fd, m)
    BY <2>7 DEF Forward
  <2> HIDE DEF m, to
  <2>9. peer[fd].bridge /\ m.dst \in {peer[fd].mac} \cup peer[fd].macs
    BY <2>1, <2>7, <2>8, OwnFrame DEF to
  <2>10. QED
    BY <2>9 DEF m
<1>2. QED
  BY <1>1, SimpleInvariance, PTL DEF Spec, NoHairpin
=============================================================================
