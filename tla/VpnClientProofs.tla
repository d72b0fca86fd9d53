-------------------------- MODULE VpnClientProofs --------------------------
(***************************************************************************)
(* Proofs about the client for any transport, capacity, message and number  *)
(* of them.  What the server has given a connection is, from the answer on,  *)
(* what was thrown away with the answer, what was handled and what is        *)
(* underway, in this order; the steps of the two ends only move the borders. *)
(***************************************************************************)
EXTENDS VpnLink, SequenceTheorems, TLAPS

\* Messages, and the rest of one.
Items == Messages \cup {Torn}

Idle == link = NewLink /\ hist = NewHist /\ buf = <<>>

\* The request is on its way to the server, or its answer is in the connection,
\* and what was given after it behind.
Asked ==
    /\ link.up = <<Request>>
    /\ link.down = <<>> /\ link.srvBuf = <<>> /\ hist.given = <<>>

Replied ==
    /\ link.up = <<>>
    /\ link.down # <<>> /\ Head(link.down) \in {Reply101, Refusal}
    /\ Tail(link.down) \in Seq(Messages)
    /\ hist.given = Tail(link.down) \o link.srvBuf

Waiting ==
    /\ buf = <<>> /\ link.held = 0
    /\ hist.lost = 0 /\ ~hist.torn /\ hist.handled = <<>>
    /\ Asked \/ Replied

\* No request and no answer is left; until a message is cut nothing is missing.
Opened ==
    /\ link.up \in Seq({WsPing, TapFrame}) /\ link.down \in Seq(Items)
    /\ hist.lost <= Len(hist.given)
    /\ ~hist.torn =>
         /\ buf \in Seq(Messages) /\ link.down \in Seq(Messages)
         /\ From(hist.given, hist.lost + 1) = hist.handled \o Underway

\* A read leaves no more in the kernel than was there, and a write brings one.
Sizes ==
    /\ ~tls => link.held = 0
    /\ Len(link.down) - link.held <= Capacity
    /\ Len(out) <= 1

Stages ==
    /\ pc = "connect" => Idle
    /\ pc = "wait101" => Waiting
    /\ pc \notin {"connect", "wait101"} => Opened

LinkType ==
    [down : Seq(Down), held : Nat, up : Seq({Request, WsPing, TapFrame}),
     gone : BOOLEAN, srvBuf : Seq(Messages), srvOut : BOOLEAN]

HistType ==
    [given : Seq(Messages), lost : Nat, torn : BOOLEAN, handled : Seq(Messages)]

\* TypeOK, with names for the types of the two records.
Types ==
    /\ pc \in {"connect", "wait101", "select", "read", "parse", "tap", "write", "exited"}
    /\ throttle \in 0 .. MaxThrottle
    /\ tls \in BOOLEAN /\ ssl \in {"null", "open", "freed"}
    /\ rset \subseteq {"socket", "tap"}
    /\ buf \in Seq(Items) /\ out \in Seq({WsPing, TapFrame})
    /\ link \in LinkType /\ link.held <= Len(link.down) /\ Len(link.up) <= Capacity
    /\ hist \in HistType
    /\ tapq \in 0 .. MaxTap
    /\ fault \in {"none", "freed SSL session closed"}

CInv == Types /\ Sizes /\ Stages

-----------------------------------------------------------------------------
(* Sequences *)

\* What From leaves out and what it leaves make up the sequence.
LEMMA FromProperties ==
    ASSUME NEW S, NEW q \in Seq(S), NEW i \in 1 .. Len(q) + 1
    PROVE  /\ From(q, i) \in Seq(S) /\ Len(From(q, i)) = Len(q) - i + 1
           /\ \A j \in 1 .. Len(q) - i + 1 : From(q, i)[j] = q[j + i - 1]
           /\ SubSeq(q, 1, i - 1) \in Seq(S) /\ Len(SubSeq(q, 1, i - 1)) = i - 1
           /\ SubSeq(q, 1, i - 1) \o From(q, i) = q
<1>1. Len(q) \in Nat /\ i \in Int /\ \A j \in 1 .. Len(q) : q[j] \in S
  BY ElementOfSeq, LenProperties
<1>2. /\ From(q, i) \in Seq(S) /\ Len(From(q, i)) = Len(q) - i + 1
      /\ \A j \in 1 .. Len(q) - i + 1 : From(q, i)[j] = q[j + i - 1]
  <2>1. \A j \in i .. Len(q) : q[j] \in S
    BY <1>1
  <2>2. /\ SubSeq(q, i, Len(q)) \in Seq(S)
        /\ Len(SubSeq(q, i, Len(q))) = IF i <= Len(q) THEN Len(q) - i + 1 ELSE 0
        /\ \A j \in 1 .. Len(q) - i + 1 : SubSeq(q, i, Len(q))[j] = q[i + j - 1]
    BY <1>1, <2>1, SubSeqProperties
  <2>3. QED
    BY <1>1, <2>2 DEF From
<1>3. SubSeq(q, 1, i - 1) \in Seq(S) /\ Len(SubSeq(q, 1, i - 1)) = i - 1
  <2> DEFINE k == i - 1
  <2>1. k \in Int /\ k \in 0 .. Len(q) /\ \A j \in 1 .. k : q[j] \in S
    BY <1>1
  <2> HIDE DEF k
  <2>2. /\ SubSeq(q, 1, k) \in Seq(S)
        /\ Len(SubSeq(q, 1, k)) = IF 1 <= k THEN k - 1 + 1 ELSE 0
    BY <2>1, SubSeqProperties
  <2>3. Len(SubSeq(q, 1, k)) = k
    BY <2>1, <2>2
  <2>4. QED
    BY <2>2, <2>3 DEF k
<1>4. SubSeq(q, 1, i - 1) \o From(q, i) = q
  <2> DEFINE k == i - 1
  <2>1. /\ 1 \in 1 .. Len(q) + 1 /\ k \in 1 - 1 .. Len(q)
        /\ Len(q) \in k .. Len(q) /\ i = k + 1
    BY <1>1
  <2> HIDE DEF k
  <2>2. SubSeq(q, 1, k) \o SubSeq(q, k + 1, Len(q)) = SubSeq(q, 1, Len(q))
    BY <2>1, ConcatAdjacentSubSeq
  <2>3. QED
    BY <2>1, <2>2, SubSeqFull DEF From, k
<1>5. QED
  BY <1>2, <1>3, <1>4

\* A part of the first of two sequences can be left out before or after joining
\* them.
LEMMA FromConcat ==
    ASSUME NEW S, NEW a \in Seq(S), NEW b \in Seq(S), NEW i \in 1 .. Len(a) + 1
    PROVE  From(a \o b, i) = From(a, i) \o b
<1>1. Len(a) \in Nat /\ Len(b) \in Nat
  BY LenProperties
<1>2. /\ a \o b \in Seq(S) /\ Len(a \o b) = Len(a) + Len(b)
      /\ \A j \in 1 .. Len(a) + Len(b) : (a \o b)[j] = IF j <= Len(a) THEN a[j] ELSE b[j - Len(a)]
  BY ConcatProperties
<1>3. /\ From(a, i) \in Seq(S) /\ Len(From(a, i)) = Len(a) - i + 1
      /\ \A j \in 1 .. Len(a) - i + 1 : From(a, i)[j] = a[j + i - 1]
  BY FromProperties
<1>4. i \in 1 .. Len(a \o b) + 1
  BY <1>1, <1>2
<1>5. /\ From(a \o b, i) \in Seq(S) /\ Len(From(a \o b, i)) = Len(a) + Len(b) - i + 1
      /\ \A j \in 1 .. Len(a) + Len(b) - i + 1 : From(a \o b, i)[j] = (a \o b)[j + i - 1]
  <2> DEFINE c == a \o b
  <2>1. c \in Seq(S) /\ i \in 1 .. Len(c) + 1 /\ Len(c) = Len(a) + Len(b)
    BY <1>2, <1>4
  <2> HIDE DEF c
  <2>2. /\ From(c, i) \in Seq(S) /\ Len(From(c, i)) = Len(c) - i + 1
        /\ \A j \in 1 .. Len(c) - i + 1 : From(c, i)[j] = c[j + i - 1]
    BY <2>1, FromProperties
  <2>3. QED
    BY <2>1, <2>2 DEF c
<1>6. /\ From(a, i) \o b \in Seq(S)
      /\ Len(From(a, i) \o b) = (Len(a) - i + 1) + Len(b)
      /\ \A j \in 1 .. (Len(a) - i + 1) + Len(b) : (From(a, i) \o b)[j] =
            IF j <= Len(a) - i + 1 THEN From(a, i)[j] ELSE b[j - (Len(a) - i + 1)]
  <2> DEFINE f == From(a, i)
  <2>1. f \in Seq(S) /\ Len(f) = Len(a) - i + 1
    BY <1>3
  <2> HIDE DEF f
  <2>2. /\ f \o b \in Seq(S) /\ Len(f \o b) = Len(f) + Len(b)
        /\ \A j \in 1 .. Len(f) + Len(b) : (f \o b)[j] =
              IF j <= Len(f) THEN f[j] ELSE b[j - Len(f)]
    BY <2>1, ConcatProperties
  <2>3. QED
    BY <2>1, <2>2 DEF f
<1>7. Len(From(a \o b, i)) = Len(From(a, i) \o b)
  BY <1>1, <1>5, <1>6
<1>8. ASSUME NEW j \in 1 .. Len(From(a \o b, i))
      PROVE  From(a \o b, i)[j] = (From(a, i) \o b)[j]
  <2>1. j \in 1 .. Len(a) + Len(b) - i + 1 /\ j + i - 1 \in 1 .. Len(a) + Len(b)
    BY <1>1, <1>5
  <2>2. From(a \o b, i)[j] = (a \o b)[j + i - 1]
    BY <2>1, <1>5
  <2>3. CASE j <= Len(a) - i + 1
    <3>1. /\ (a \o b)[j + i - 1] = a[j + i - 1] /\ From(a, i)[j] = a[j + i - 1]
          /\ (From(a, i) \o b)[j] = From(a, i)[j]
      BY <1>1, <2>1, <2>3, <1>2, <1>3, <1>6
    <3>2. QED
      BY <2>2, <3>1
  <2>4. CASE ~(j <= Len(a) - i + 1)
    <3>1. (a \o b)[j + i - 1] = b[j + i - 1 - Len(a)]
      BY <1>1, <2>1, <2>4, <1>2
    <3>2. (From(a, i) \o b)[j] = b[j - (Len(a) - i + 1)]
      BY <1>1, <2>1, <2>4, <1>6
    <3>3. j + i - 1 - Len(a) = j - (Len(a) - i + 1)
      BY <1>1, <2>1
    <3>4. QED
      BY <2>2, <3>1, <3>2, <3>3
  <2>5. QED
    BY <2>3, <2>4
<1>9. QED
  BY <1>5, <1>6, <1>7, <1>8, SeqEqual

\* Appending is joining with a sequence of one.
LEMMA AppendOne ==
    ASSUME NEW S, NEW q \in Seq(S), NEW m \in S
    PROVE  /\ Append(q, m) = q \o <<m>> /\ <<m>> \in Seq(S)
           /\ Append(q, m) \in Seq(S) /\ Len(Append(q, m)) = Len(q) + 1
BY AppendIsConcat, AppendProperties

\* A cut changes the first item at most.
LEMMA CutsProperties ==
    ASSUME NEW q \in Seq(Items), NEW r \in Cuts(q)
    PROVE  /\ r \in Seq(Items) /\ Len(r) = Len(q)
           /\ r # q => r # <<>> /\ Head(r) = Torn
<1>1. CASE r = q
  BY <1>1
<1>2. CASE r # q
  <2>1. q # <<>> /\ r = <<Torn>> \o Tail(q)
    BY <1>2 DEF Cuts
  <2>2. Tail(q) \in Seq(Items) /\ Len(Tail(q)) = Len(q) - 1 /\ Len(q) \in Nat
    BY <2>1, HeadTailProperties, LenProperties
  <2>3. <<Torn>> \in Seq(Items) /\ Len(<<Torn>>) = 1 /\ <<Torn>>[1] = Torn
    BY DEF Items
  <2>4. /\ r \in Seq(Items) /\ Len(r) = 1 + Len(Tail(q))
        /\ r[1] = Torn
    BY <2>1, <2>2, <2>3, ConcatProperties
  <2>5. QED
    BY <2>2, <2>4
<1>3. QED
  BY <1>1, <1>2

-----------------------------------------------------------------------------
(* Steps that move no message *)

LEMMA FreshTyped ==
    /\ NewLink \in LinkType /\ NewHist \in HistType
    /\ NewLink.held <= Len(NewLink.down) /\ Len(NewLink.up) <= Capacity
<1>1. \A S : <<>> \in Seq(S) /\ Len(<<>>) = 0
  BY EmptySeq
<1>2. NewLink \in LinkType
  BY <1>1 DEF NewLink, LinkType
<1>3. NewHist \in HistType
  BY <1>1 DEF NewHist, HistType
<1>4. NewLink.held <= Len(NewLink.down) /\ Len(NewLink.up) <= Capacity
  BY <1>1, ClientConstants DEF NewLink
<1>5. QED
  BY <1>2, <1>3, <1>4

LEMMA InitCInv == Init => CInv
<1> SUFFICES ASSUME Init PROVE CInv
  OBVIOUS
<1>1. Types
  <2>1. <<>> \in Seq(Items) /\ <<>> \in Seq({WsPing, TapFrame})
    BY EmptySeq
  <2>2. 0 \in 0 .. MaxThrottle /\ 0 \in 0 .. MaxTap
    BY ClientConstants
  <2>3. PICK t \in Transports : tls = (t = "wss")
    BY DEF Init
  <2>4. tls \in BOOLEAN
    BY <2>3
  <2>5. QED
    BY <2>1, <2>2, <2>4, FreshTyped DEF Init, Types
<1>2. Sizes /\ Stages
  BY ClientConstants DEF Init, Sizes, Stages, Idle, NewLink, NewHist
<1>3. QED
  BY <1>1, <1>2 DEF CInv

\* Whatever a connection held is gone with it.
LEMMA ReconnectCInv ==
    ASSUME CInv, NEW s \in {"null", "open", "freed"}, Reconnect(s), UNCHANGED tapq
    PROVE  CInv'
<1>1. /\ pc' = "connect" /\ rset' = {} /\ buf' = <<>> /\ out' = <<>>
      /\ link' = NewLink /\ hist' = NewHist /\ tls' = tls
  BY DEF Reconnect
<1>2. throttle' \in 0 .. MaxThrottle
  <2>1. throttle \in 0 .. MaxThrottle /\ MaxThrottle \in Nat
    BY ClientConstants DEF CInv, Types
  <2>2. MaxThrottle # 0
    BY ClientConstants
  <2>3. NextThrottle \in 0 .. MaxThrottle
    BY <2>1, <2>2 DEF NextThrottle
  <2>4. QED
    BY <2>3 DEF Reconnect
<1>3. /\ ssl' \in {"null", "open", "freed"}
      /\ fault' \in {"none", "freed SSL session closed"}
  BY DEF CInv, Types, Reconnect, SslClose
<1>4. Types'
  <2>1. <<>> \in Seq(Items) /\ <<>> \in Seq({WsPing, TapFrame})
    BY EmptySeq
  <2>2. tls \in BOOLEAN /\ tapq \in 0 .. MaxTap
    BY DEF CInv, Types
  <2>3. QED
    BY <1>1, <1>2, <1>3, <2>1, <2>2, FreshTyped DEF Types
<1>5. (Sizes /\ Stages)'
  BY <1>1, ClientConstants DEF Sizes, Stages, Idle, NewLink, NewHist
<1>6. QED
  BY <1>4, <1>5 DEF CInv

\* Neither the connection nor the read buffer changes.
LEMMA QuietCInv ==
    ASSUME CInv, UNCHANGED <<tls, buf, link, hist, throttle, ssl, fault>>,
           pc \notin {"connect", "wait101"},
           pc' \in {"select", "read", "parse", "tap", "write", "exited"},
           rset' \subseteq {"socket", "tap"}, tapq' \in 0 .. MaxTap,
           out' \in Seq({WsPing, TapFrame}), Len(out') <= 1
    PROVE  CInv'
<1>1. Types'
  BY DEF CInv, Types
<1>2. Sizes'
  BY DEF CInv, Sizes
<1>3. Stages'
  BY DEF CInv, Stages, Opened, Underway
<1>4. QED
  BY <1>1, <1>2, <1>3 DEF CInv

LEMMA QuietStepsCInv ==
    ASSUME CInv,
           \/ Select \/ SelectFails \/ SelectTimeout \/ ReadNothing \/ TapWriteFails
           \/ ParseEnds \/ TapRead \/ TapReadAgain \/ TapReadFails
    PROVE  CInv'
<1> USE DEF At, Running
<1>1. /\ rset \subseteq {"socket", "tap"} /\ tapq \in 0 .. MaxTap /\ MaxTap \in Nat
      /\ out \in Seq({WsPing, TapFrame}) /\ Len(out) <= 1
  BY ClientConstants DEF CInv, Types, Sizes
<1>2. CASE Select
  <2>1. rset' \subseteq {"socket", "tap"}
    BY <1>2 DEF Select, Readable
  <2>2. QED
    BY <1>1, <1>2, <2>1, QuietCInv DEF Select
<1>3. CASE SelectTimeout
  <2>1. out' \in Seq({WsPing, TapFrame}) /\ Len(out') <= 1
    BY <1>3 DEF SelectTimeout
  <2>2. QED
    BY <1>1, <1>3, <2>1, QuietCInv DEF SelectTimeout
<1>4. CASE ReadNothing
  BY <1>1, <1>4, QuietCInv DEF ReadNothing
<1>5. CASE TapWriteFails
  BY <1>1, <1>5, QuietCInv DEF TapWriteFails, Parsing
<1>6. CASE ParseEnds
  BY <1>1, <1>6, QuietCInv DEF ParseEnds
<1>7. CASE TapRead
  <2>1. out' \in Seq({WsPing, TapFrame}) /\ Len(out') <= 1 /\ tapq' \in 0 .. MaxTap
    BY <1>1, <1>7 DEF TapRead
  <2>2. QED
    BY <1>1, <1>7, <2>1, QuietCInv DEF TapRead
<1>8. CASE TapReadFails
  BY <1>1, <1>8, QuietCInv DEF TapReadFails
<1>9. CASE SelectFails
  BY <1>1, <1>9, QuietCInv DEF SelectFails
<1>10. CASE TapReadAgain
  BY <1>1, <1>10, QuietCInv DEF TapReadAgain
<1>11. QED
  BY <1>2, <1>3, <1>4, <1>5, <1>6, <1>7, <1>8, <1>9, <1>10

\* The sleep grows, or a frame comes to the tap device.
LEMMA AsideCInv ==
    ASSUME CInv, UNCHANGED <<pc, tls, ssl, rset, buf, out, link, hist, fault>>,
           throttle' \in 0 .. MaxThrottle, tapq' \in 0 .. MaxTap
    PROVE  CInv'
<1>1. Types'
  BY DEF CInv, Types
<1>2. Sizes' /\ Stages'
  BY DEF CInv, Sizes, Stages, Idle, Waiting, Asked, Replied, Opened, Underway
<1>3. QED
  BY <1>1, <1>2 DEF CInv

-----------------------------------------------------------------------------
(* The request, and what the client writes *)

LEMMA ConnectCInv == ASSUME CInv, Connect PROVE CInv'
<1>1. /\ pc = "connect" /\ pc' = "wait101" /\ Idle
      /\ link' = [NewLink EXCEPT !.up = <<Request>>]
      /\ UNCHANGED <<throttle, tls, rset, buf, out, hist, tapq, fault>>
  BY DEF Connect, At, CInv, Stages, Idle
<1>2. ssl' \in {"null", "open", "freed"}
  BY DEF Connect, NewSession, CInv, Types
<1>3. <<Request>> \in Seq({Request, WsPing, TapFrame}) /\ Len(<<Request>>) = 1
  OBVIOUS
<1>4. /\ link'.down = <<>> /\ link'.held = 0 /\ link'.up = <<Request>>
      /\ link'.srvBuf = <<>> /\ link' \in LinkType
  BY <1>1, <1>3, FreshTyped DEF NewLink, LinkType
<1>5. Types'
  <2>1. Len(link'.up) <= Capacity /\ link'.held <= Len(link'.down)
    BY <1>3, <1>4, ClientConstants
  <2>2. QED
    BY <1>1, <1>2, <1>4, <2>1 DEF CInv, Types
<1>6. Sizes'
  BY <1>1, <1>4, ClientConstants DEF CInv, Sizes
<1>7. Waiting'
  BY <1>1, <1>4 DEF Waiting, Asked, Idle, NewHist
<1>8. QED
  BY <1>1, <1>5, <1>6, <1>7 DEF CInv, Stages

LEMMA WriteCInv == ASSUME CInv, Write PROVE CInv'
<1>1. /\ pc = "write" /\ pc' = "select" /\ Opened /\ Len(link.up) < Capacity
      /\ link' = [link EXCEPT !.up = @ \o out] /\ out' = <<>>
      /\ UNCHANGED <<throttle, tls, ssl, rset, buf, hist, tapq, fault>>
  BY DEF Write, At, CInv, Stages, Room
<1> DEFINE Sent == {WsPing, TapFrame}
<1>2. link.up \in Seq(Sent) /\ out \in Seq(Sent) /\ Len(out) <= 1
  BY <1>1 DEF Opened, CInv, Types, Sizes
<1>3. link.up \o out \in Seq(Sent) /\ Len(link.up \o out) = Len(link.up) + Len(out)
  BY <1>2, ConcatProperties
<1>4. Len(link.up \o out) <= Capacity
  BY <1>1, <1>2, <1>3, LenProperties, ClientConstants
<1>5. link.up \o out \in Seq(Sent \cup {Request})
  BY <1>3, SeqMonotonic
<1>6. link.up \o out \in Seq({Request, WsPing, TapFrame})
  BY <1>5, Sent \cup {Request} = {Request, WsPing, TapFrame}
<1>7. /\ link'.up = link.up \o out
      /\ link'.down = link.down /\ link'.held = link.held /\ link'.srvBuf = link.srvBuf
      /\ link' \in LinkType
  BY <1>1, <1>6 DEF CInv, Types, LinkType
<1>8. Types'
  <2>1. <<>> \in Seq({WsPing, TapFrame})
    BY EmptySeq
  <2>2. QED
    BY <1>1, <1>4, <1>7, <2>1 DEF CInv, Types
<1>9. Sizes'
  BY <1>1, <1>7 DEF CInv, Sizes
<1>10. Opened'
  BY <1>1, <1>3, <1>7 DEF Opened, Underway
<1>11. QED
  BY <1>1, <1>8, <1>9, <1>10 DEF CInv, Stages

-----------------------------------------------------------------------------
(* What the client reads *)

\* A read takes something, the session holds a part of what is left, and the
\* kernel no more than before.
LEMMA TakesProperties ==
    ASSUME CInv, NEW t \in Takes
    PROVE  /\ t[1] \in 1 .. Len(link.down) /\ t[2] \in Nat
           /\ t[2] <= Len(link.down) - t[1]
           /\ Len(link.down) - t[1] - t[2] <= Len(link.down) - link.held
           /\ ~tls => t[2] = 0
<1>1. /\ Len(link.down) \in Nat /\ link.held \in Nat /\ link.held <= Len(link.down)
      /\ ~tls => link.held = 0
  <2>1. link.down \in Seq(Down) /\ link.held \in Nat /\ link.held <= Len(link.down)
    BY DEF CInv, Types, LinkType
  <2>2. QED
    BY <2>1, LenProperties DEF CInv, Sizes
<1>2. CASE ~tls
  <2>1. PICK k \in 1 .. Len(link.down) : t = <<k, 0>>
    BY <1>2 DEF Takes
  <2>2. QED
    BY <1>1, <1>2, <2>1
<1>3. CASE tls /\ link.held > 0
  <2>1. PICK k \in 1 .. link.held : t = <<k, link.held - k>>
    BY <1>3 DEF Takes
  <2>2. QED
    BY <1>1, <1>3, <2>1
<1>4. CASE tls /\ ~(link.held > 0)
  <2>1. /\ t \in (1 .. Len(link.down)) \X (0 .. Len(link.down))
        /\ t[1] + t[2] <= Len(link.down)
    BY <1>4 DEF Takes
  <2>2. QED
    BY <1>1, <1>4, <2>1
<1>5. QED
  BY <1>2, <1>3, <1>4

\* Items move from the connection to the buffer.
LEMMA ReadCInv == ASSUME CInv, Read PROVE CInv'
<1>1. /\ pc = "read" /\ pc' = "parse" /\ Opened
      /\ UNCHANGED <<throttle, tls, ssl, rset, out, hist, tapq, fault>>
  BY DEF Read, At, CInv, Stages
<1>2. PICK t \in Takes :
        /\ buf' = buf \o SubSeq(link.down, 1, t[1])
        /\ link' = [link EXCEPT !.down = From(@, t[1] + 1), !.held = t[2]]
  BY DEF Read
<1> DEFINE n == Len(link.down)
           k == t[1]
           got == SubSeq(link.down, 1, k)
           rest == From(link.down, k + 1)
<1>3. /\ k \in 1 .. n /\ t[2] \in Nat /\ t[2] <= n - k
      /\ n - k - t[2] <= n - link.held /\ (~tls => t[2] = 0)
  BY TakesProperties
<1>4. ASSUME NEW S, link.down \in Seq(S)
      PROVE  got \in Seq(S) /\ rest \in Seq(S) /\ Len(rest) = n - k /\ got \o rest = link.down
  <2>1. n \in Nat /\ k + 1 \in 1 .. Len(link.down) + 1 /\ (k + 1) - 1 = k
    BY <1>3, <1>4, LenProperties
  <2> DEFINE i == k + 1
  <2>2. i \in 1 .. Len(link.down) + 1
    BY <2>1
  <2> HIDE DEF i
  <2>3. /\ From(link.down, i) \in Seq(S) /\ Len(From(link.down, i)) = Len(link.down) - i + 1
        /\ SubSeq(link.down, 1, i - 1) \in Seq(S)
        /\ SubSeq(link.down, 1, i - 1) \o From(link.down, i) = link.down
    BY <1>4, <2>2, FromProperties
  <2>4. i = k + 1 /\ i - 1 = k
    BY <2>1 DEF i
  <2>5. n - i + 1 = n - k
    BY <2>1, <2>4
  <2>6. QED
    BY <2>3, <2>4, <2>5
<1>5. link.down \in Seq(Items) /\ link.down \in Seq(Down) /\ buf \in Seq(Items)
  BY <1>1 DEF Opened, CInv, Types, LinkType
<1>6. got \in Seq(Items) /\ rest \in Seq(Items) /\ rest \in Seq(Down) /\ Len(rest) = n - k
  BY <1>4, <1>5
<1>7. buf' \in Seq(Items)
  BY <1>2, <1>5, <1>6, ConcatProperties
<1> HIDE DEF k, n, got, rest
<1>8. /\ link'.down = rest /\ link'.held = t[2] /\ link'.up = link.up
      /\ link'.srvBuf = link.srvBuf /\ link' \in LinkType
  BY <1>2, <1>3, <1>6 DEF CInv, Types, LinkType, k, rest
<1>9. buf' = buf \o got
  BY <1>2 DEF got, k
<1>10. Types'
  BY <1>1, <1>3, <1>6, <1>7, <1>8 DEF CInv, Types
<1>11. Sizes'
  <2>1. n \in Nat /\ link.held \in Nat /\ Capacity \in Nat /\ n - link.held <= Capacity
    BY <1>5, LenProperties, ClientConstants DEF CInv, Types, LinkType, Sizes, n
  <2> DEFINE h == t[2]
  <2>2. k \in 1 .. n /\ h \in Nat /\ n - k - h <= n - link.held /\ (~tls => h = 0)
    BY <1>3
  <2> HIDE DEF h
  <2>3. n - k - h <= Capacity
    BY <2>1, <2>2
  <2>4. Len(link'.down) = n - k /\ link'.held = h
    BY <1>6, <1>8 DEF h
  <2>5. Len(link'.down) - link'.held <= Capacity
    BY <2>3, <2>4
  <2>6. tls' = tls /\ out' = out /\ Len(out) <= 1
    BY <1>1 DEF CInv, Sizes
  <2>7. QED
    BY <2>2, <2>4, <2>5, <2>6 DEF Sizes
<1>12. Opened'
  <2>1. ASSUME ~hist.torn
        PROVE  /\ buf' \in Seq(Messages) /\ link'.down \in Seq(Messages)
               /\ Underway' = Underway
    <3>1. buf \in Seq(Messages) /\ link.down \in Seq(Messages)
      BY <1>1, <2>1 DEF Opened
    <3>2. got \in Seq(Messages) /\ rest \in Seq(Messages) /\ got \o rest = link.down
      BY <1>4, <3>1 DEF n, got, rest, k
    <3>3. buf \o got \in Seq(Messages)
      BY <3>1, <3>2, ConcatProperties
    <3>4. (buf \o got) \o rest = buf \o (got \o rest)
      <4>1. buf \in Seq(Messages) /\ got \in Seq(Messages) /\ rest \in Seq(Messages)
        BY <3>1, <3>2
      <4>2. QED
        BY <4>1, ConcatAssociative
    <3>5. QED
      BY <1>8, <1>9, <3>2, <3>3, <3>4 DEF Underway
  <2>2. QED
    BY <1>1, <1>6, <1>8, <2>1 DEF Opened
<1>13. QED
  BY <1>1, <1>10, <1>11, <1>12 DEF CInv, Stages

LEMMA FromTail ==
    ASSUME NEW S, NEW q \in Seq(S), q # <<>>, NEW k \in 1 .. Len(q)
    PROVE  From(q, k + 1) = From(Tail(q), k)
<1>1. /\ Len(q) \in Nat /\ Tail(q) \in Seq(S) /\ Len(Tail(q)) = Len(q) - 1
      /\ \A j \in 1 .. Len(Tail(q)) : Tail(q)[j] = q[j + 1]
  BY HeadTailProperties, LenProperties
<1> DEFINE i == k + 1
           d == Tail(q)
<1>2. i \in 1 .. Len(q) + 1 /\ k \in 1 .. Len(d) + 1 /\ d \in Seq(S) /\ i = k + 1
  BY <1>1
<1>3. /\ Len(d) = Len(q) - 1 /\ \A j \in 1 .. Len(d) : d[j] = q[j + 1]
  BY <1>1
<1> HIDE DEF i, d
<1>4. /\ From(q, i) \in Seq(S) /\ Len(From(q, i)) = Len(q) - i + 1
      /\ \A j \in 1 .. Len(q) - i + 1 : From(q, i)[j] = q[j + i - 1]
  BY <1>2, FromProperties
<1>5. /\ From(d, k) \in Seq(S) /\ Len(From(d, k)) = Len(d) - k + 1
      /\ \A j \in 1 .. Len(d) - k + 1 : From(d, k)[j] = d[j + k - 1]
  BY <1>2, FromProperties
<1>6. Len(From(q, i)) = Len(From(d, k))
  <2>1. Len(q) - i + 1 = Len(d) - k + 1
    BY <1>1, <1>2, <1>3
  <2>2. QED
    BY <2>1, <1>4, <1>5
<1>7. ASSUME NEW j \in 1 .. Len(From(q, i)) PROVE From(q, i)[j] = From(d, k)[j]
  <2>1. /\ j \in 1 .. Len(q) - i + 1 /\ j \in 1 .. Len(d) - k + 1
        /\ j + k - 1 \in 1 .. Len(d) /\ (j + k - 1) + 1 = j + i - 1
    BY <1>1, <1>2, <1>3, <1>4
  <2>2. From(q, i)[j] = q[j + i - 1] /\ From(d, k)[j] = d[j + k - 1]
    BY <2>1, <1>4, <1>5
  <2>3. d[j + k - 1] = q[(j + k - 1) + 1]
    BY <2>1, <1>3
  <2>4. QED
    BY <2>1, <2>2, <2>3
<1>8. From(q, i) = From(d, k)
  BY <1>4, <1>5, <1>6, <1>7, SeqEqual
<1>9. QED
  BY <1>8 DEF i, d

LEMMA ItemsInDown ==
    /\ Items \subseteq Down /\ Messages \subseteq Items /\ Messages \subseteq Down
    /\ Torn \notin Messages
BY ClientConstants DEF Items, Down

\* The answer is taken with what came behind it: what is left of the messages is
\* what was given, but for those, or the first of them is cut.
LEMMA UpgradedCInv == ASSUME CInv, Upgraded PROVE CInv'
<1>1. /\ pc = "wait101" /\ pc' = "select" /\ Waiting /\ Replied
      /\ UNCHANGED <<throttle, tls, ssl, rset, buf, out, tapq, fault>>
  BY DEF Upgraded, At, CInv, Stages, Waiting, Asked
<1>2. PICK t \in Takes : \E rest \in Cuts(From(link.down, t[1] + 1)) :
        /\ link' = [link EXCEPT !.down = rest, !.held = t[2]]
        /\ hist' = [hist EXCEPT !.lost = t[1] - 1,
                                !.torn = rest # <<>> /\ Head(rest) = Torn]
  BY DEF Upgraded
<1> DEFINE n == Len(link.down)
           k == t[1]
           h == t[2]
           d == Tail(link.down)
           q == From(d, k)
<1>3. /\ k \in 1 .. n /\ h \in Nat /\ h <= n - k
      /\ n - k - h <= n - link.held /\ (~tls => h = 0)
  BY TakesProperties
<1>4. /\ link.down \in Seq(Down) /\ link.down # <<>> /\ d \in Seq(Messages)
      /\ link.srvBuf \in Seq(Messages) /\ hist.given = d \o link.srvBuf
      /\ link.up = <<>> /\ buf = <<>> /\ hist.handled = <<>>
  BY <1>1 DEF Replied, Waiting, CInv, Types, LinkType
<1>5. Len(d) = n - 1 /\ n \in Nat /\ k \in 1 .. Len(d) + 1
  <2>1. Len(d) = n - 1 /\ n \in Nat
    BY <1>4, HeadTailProperties, LenProperties
  <2>2. QED
    BY <2>1, <1>3
<1>6. From(link.down, k + 1) = q
  BY <1>3, <1>4, FromTail
<1>7. PICK rest \in Cuts(q) :
        /\ link' = [link EXCEPT !.down = rest, !.held = h]
        /\ hist' = [hist EXCEPT !.lost = k - 1,
                                !.torn = rest # <<>> /\ Head(rest) = Torn]
  BY <1>2, <1>6
<1> HIDE DEF n, k, h, d, q
<1>8. q \in Seq(Messages) /\ Len(q) = n - k
  <2>1. q \in Seq(Messages) /\ Len(q) = Len(d) - k + 1
    BY <1>4, <1>5, FromProperties DEF q
  <2>2. QED
    BY <2>1, <1>3, <1>5
<1>9. /\ rest \in Seq(Items) /\ Len(rest) = n - k
      /\ rest # q => rest # <<>> /\ Head(rest) = Torn
  <2>1. q \in Seq(Items)
    BY <1>8, ItemsInDown, SeqMonotonic
  <2>2. QED
    BY <2>1, <1>7, <1>8, CutsProperties
<1>10. rest \in Seq(Down)
  BY <1>9, ItemsInDown, SeqMonotonic
<1>11. /\ link'.down = rest /\ link'.held = h /\ link'.up = link.up
       /\ link'.srvBuf = link.srvBuf /\ link' \in LinkType
  BY <1>3, <1>7, <1>10 DEF CInv, Types, LinkType
<1>12. k - 1 \in Nat
  BY <1>3
<1>13. /\ hist'.lost = k - 1 /\ hist'.given = hist.given /\ hist'.handled = hist.handled
       /\ (~hist'.torn => rest = q) /\ hist' \in HistType
  <2>1. hist \in HistType
    BY DEF CInv, Types
  <2>2. (rest # <<>> /\ Head(rest) = Torn) \in BOOLEAN
    OBVIOUS
  <2>3. hist'.torn = (rest # <<>> /\ Head(rest) = Torn)
    BY <1>7, <2>1 DEF HistType
  <2>4. /\ hist'.lost = k - 1 /\ hist'.given = hist.given /\ hist'.handled = hist.handled
        /\ hist' \in HistType
    BY <1>7, <1>12, <2>1, <2>2 DEF HistType
  <2>5. QED
    BY <1>9, <2>3, <2>4
<1>14. Types'
  BY <1>1, <1>3, <1>9, <1>11, <1>13 DEF CInv, Types
<1>15. Sizes'
  <2>1. link.held \in Nat /\ Capacity \in Nat /\ n - link.held <= Capacity
    BY ClientConstants DEF CInv, Types, LinkType, Sizes, n
  <2>2. n - k - h <= Capacity
    BY <1>3, <1>5, <2>1
  <2>3. Len(link'.down) - link'.held <= Capacity
    BY <2>2, <1>9, <1>11
  <2>4. tls' = tls /\ out' = out /\ Len(out) <= 1
    BY <1>1 DEF CInv, Sizes
  <2>5. QED
    BY <1>3, <1>11, <2>3, <2>4 DEF Sizes
<1>16. Opened'
  <2>1. link'.up \in Seq({WsPing, TapFrame}) /\ link'.down \in Seq(Items)
    BY <1>4, <1>9, <1>11, EmptySeq
  <2>2. hist'.lost <= Len(hist'.given)
    <3>1. Len(d \o link.srvBuf) = Len(d) + Len(link.srvBuf) /\ Len(link.srvBuf) \in Nat
      BY <1>4, ConcatProperties, LenProperties
    <3>2. k - 1 <= Len(d) + Len(link.srvBuf)
      BY <1>3, <1>5, <3>1
    <3>3. QED
      BY <1>4, <1>13, <3>1, <3>2
  <2>3. ASSUME ~hist'.torn
        PROVE  /\ buf' \in Seq(Messages) /\ link'.down \in Seq(Messages)
               /\ From(hist'.given, hist'.lost + 1) = hist'.handled \o Underway'
    <3>1. rest = q /\ buf' = <<>> /\ <<>> \in Seq(Messages)
      BY <1>1, <1>4, <1>13, <2>3, EmptySeq
    <3>2. hist'.lost + 1 = k
      BY <1>3, <1>13
    <3>3. From(d \o link.srvBuf, k) = q \o link.srvBuf
      BY <1>4, <1>5, FromConcat DEF q
    <3>4. q \o link.srvBuf \in Seq(Messages)
      BY <1>4, <1>8, ConcatProperties
    <3>5. <<>> \o (q \o link.srvBuf) = q \o link.srvBuf /\ <<>> \o q = q
      BY <1>8, <3>4, ConcatEmptySeq
    <3>6. QED
      BY <1>4, <1>8, <1>11, <1>13, <3>1, <3>2, <3>3, <3>5 DEF Underway
  <2>4. QED
    BY <2>1, <2>2, <2>3 DEF Opened
<1>17. QED
  BY <1>1, <1>14, <1>15, <1>16 DEF CInv, Stages

-----------------------------------------------------------------------------
(* Parsing *)

\* A message moves from the buffer to those that are handled.
LEMMA ParseMessageCInv == ASSUME CInv, ParseMessage PROVE CInv'
<1> DEFINE first == Head(buf)
           others == Tail(buf)
<1>1. /\ pc = "parse" /\ pc' = "parse" /\ Opened /\ buf # <<>> /\ first \in Messages
      /\ buf' = others /\ hist' = [hist EXCEPT !.handled = Append(@, first)]
      /\ UNCHANGED <<throttle, tls, ssl, rset, out, link, tapq, fault>>
  BY DEF ParseMessage, Parsing, At, CInv, Stages, Decapitated
<1>2. /\ buf \in Seq(Items) /\ link.down \in Seq(Items) /\ link.srvBuf \in Seq(Messages)
      /\ hist \in HistType /\ hist.handled \in Seq(Messages)
  BY <1>1 DEF CInv, Types, LinkType, HistType, Opened
<1>3. others \in Seq(Items) /\ first \in Items
  BY <1>1, <1>2, HeadTailProperties
<1> HIDE DEF first, others
<1>4. Append(hist.handled, first) \in Seq(Messages)
  BY <1>1, <1>2, AppendOne
<1>5. /\ hist'.handled = Append(hist.handled, first) /\ hist'.given = hist.given
      /\ hist'.lost = hist.lost /\ hist'.torn = hist.torn /\ hist' \in HistType
  BY <1>1, <1>2, <1>4 DEF HistType
<1>6. buf = <<first>> \o others
  <2>1. buf = SubSeq(buf, 1, Len(buf)) /\ Len(buf) \in Nat /\ Len(buf) > 0
    BY <1>1, <1>2, SubSeqFull, LenProperties, EmptySeq
  <2>2. 1 \in 1 .. Len(buf) /\ Len(buf) \in 1 .. Len(buf) /\ 1 + 1 = 2
    BY <2>1
  <2>3. SubSeq(buf, 1, Len(buf)) = <<buf[1]>> \o SubSeq(buf, 1 + 1, Len(buf))
    BY <1>2, <2>2, SubSeqRecursiveFirst
  <2>4. others = SubSeq(buf, 2, Len(buf)) /\ first = buf[1]
    BY <1>1, <1>2, TailIsSubSeq DEF first, others
  <2>5. QED
    BY <2>1, <2>2, <2>3, <2>4
<1>7. Types'
  BY <1>1, <1>3, <1>5 DEF CInv, Types
<1>8. Sizes'
  BY <1>1 DEF CInv, Sizes
<1>9. Opened'
  <2>1. ASSUME ~hist.torn
        PROVE  others \in Seq(Messages) /\ hist'.handled \o Underway' = hist.handled \o Underway
    <3>1. buf \in Seq(Messages)
      BY <1>1, <2>1 DEF Opened
    <3>2. others \in Seq(Messages)
      BY <1>1, <3>1, HeadTailProperties DEF others
    <3>3. link.srvBuf \in Seq(Items) /\ hist.handled \in Seq(Items)
      BY <1>2, ItemsInDown, SeqMonotonic
    <3> DEFINE h == hist.handled
               d == link.down
               e == link.srvBuf
    <3>4. h \in Seq(Items) /\ d \in Seq(Items) /\ e \in Seq(Items)
      BY <1>2, <3>3
    <3>5. /\ Underway = (buf \o d) \o e /\ Underway' = (others \o d) \o e
          /\ hist'.handled = Append(h, first)
      BY <1>1, <1>5 DEF Underway
    <3> HIDE DEF h, d, e
    <3> DEFINE f == <<first>>
    <3>6. f \in Seq(Items) /\ Append(h, first) = h \o f /\ buf = f \o others
      BY <1>3, <1>6, <3>4, AppendOne
    <3> HIDE DEF f
    <3> DEFINE c == others \o d
               rest == c \o e
    <3>7. d \in Seq(Items) /\ e \in Seq(Items)
      BY <3>4
    <3>8. c \in Seq(Items)
      BY <1>3, <3>7, ConcatProperties
    <3>9. (f \o others) \o d = f \o c
      <4>1. f \in Seq(Items)
        BY <3>6
      <4>2. QED
        BY <1>3, <3>7, <4>1, ConcatAssociative
    <3> HIDE DEF c
    <3>10. (f \o c) \o e = f \o rest
      <4>1. f \in Seq(Items) /\ e \in Seq(Items)
        BY <3>4, <3>6
      <4>2. QED
        BY <3>8, <4>1, ConcatAssociative
    <3>11. rest \in Seq(Items)
      BY <3>7, <3>8, ConcatProperties
    <3> HIDE DEF rest
    <3>12. (h \o f) \o rest = h \o (f \o rest)
      <4>1. h \in Seq(Items) /\ f \in Seq(Items)
        BY <3>4, <3>6
      <4>2. QED
        BY <3>11, <4>1, ConcatAssociative
    <3>13. Underway = f \o rest
      BY <3>5, <3>6, <3>9, <3>10
    <3>14. Underway' = rest
      BY <3>5 DEF c, rest
    <3>15. QED
      BY <3>2, <3>5, <3>6, <3>12, <3>13, <3>14 DEF h
  <2>2. QED
    BY <1>1, <1>5, <2>1 DEF Opened
<1>10. QED
  BY <1>1, <1>7, <1>8, <1>9 DEF CInv, Stages

\* Only a message that was cut leaves a rest to be parsed.
LEMMA ParseTornCInv == ASSUME CInv, ParseTorn PROVE CInv'
<1>1. /\ pc = "parse" /\ pc' = "parse" /\ Opened /\ buf # <<>> /\ Head(buf) = Torn
      /\ UNCHANGED <<throttle, tls, ssl, rset, out, link, hist, tapq, fault>>
  BY DEF ParseTorn, Parsing, At, CInv, Stages
<1>2. PICK i \in 2 .. Len(buf) + 1 : buf' \in Cuts(From(buf, i))
  BY DEF ParseTorn
<1>3. buf \in Seq(Items)
  BY DEF CInv, Types
<1>4. buf' \in Seq(Items)
  <2>1. i \in 1 .. Len(buf) + 1
    BY <1>3, LenProperties
  <2>2. From(buf, i) \in Seq(Items)
    BY <1>3, <2>1, FromProperties
  <2>3. QED
    BY <1>2, <2>2, CutsProperties
<1>5. hist.torn
  <2> SUFFICES ASSUME ~hist.torn PROVE FALSE
    OBVIOUS
  <2>1. buf \in Seq(Messages)
    BY <1>1 DEF Opened
  <2>2. Head(buf) \in Messages
    BY <1>1, <2>1, HeadTailProperties
  <2>3. QED
    BY <1>1, <2>2, ItemsInDown
<1>6. Types'
  BY <1>1, <1>4 DEF CInv, Types
<1>7. Sizes' /\ Opened'
  BY <1>1, <1>4, <1>5 DEF CInv, Sizes, Opened
<1>8. QED
  BY <1>1, <1>6, <1>7 DEF CInv, Stages

-----------------------------------------------------------------------------
(* The server's end of the connection *)

\* Whether the request is answered can be seen from where the client is.
LEMMA AnsweredStage ==
    ASSUME CInv, Connected
    PROVE  /\ pc # "connect" /\ (Answered \/ pc = "wait101")
           /\ pc = "wait101" => Waiting /\ (Answered => Replied) /\ (~Answered => Asked)
           /\ pc # "wait101" => Opened
<1>1. pc # "connect"
  BY DEF Connected
<1>2. /\ pc = "wait101" => Waiting /\ (Asked \/ Replied)
      /\ pc # "wait101" => Opened
  BY <1>1 DEF CInv, Stages, Waiting
<1>3. Asked => ~Answered
  BY DEF Asked, Answered
<1>4. Replied => Answered
  BY DEF Replied, Answered
<1>5. Opened => Answered
  <2> SUFFICES ASSUME link.up \in Seq({WsPing, TapFrame}), NEW i \in DOMAIN link.up
               PROVE  link.up[i] # Request
    BY DEF Opened, Answered
  <2>1. link.up[i] \in {WsPing, TapFrame}
    BY ElementOfSeq, LenProperties
  <2>2. QED
    BY <2>1, ClientConstants
<1>6. QED
  BY <1>1, <1>2, <1>3, <1>4, <1>5

LEMMA ServerAnswersCInv ==
    ASSUME CInv, NEW reply \in {Reply101, Refusal}, ServerAnswers(reply)
    PROVE  CInv'
<1>1. /\ pc = "wait101" /\ Waiting /\ Asked
      /\ link' = [link EXCEPT !.up = Tail(@), !.down = <<reply>>]
      /\ UNCHANGED <<pc, throttle, tls, ssl, rset, buf, out, fault, hist, tapq>>
  BY AnsweredStage DEF ServerAnswers, client
<1> DEFINE a == <<reply>>
<1>2. a \in Seq(Down) /\ a # <<>> /\ Head(a) = reply /\ Tail(a) = <<>> /\ Len(a) = 1
  BY DEF Down
<1> HIDE DEF a
<1>3. Tail(link.up) = <<>> /\ link.srvBuf = <<>> /\ link.held = 0 /\ hist.given = <<>>
  BY <1>1 DEF Asked, Waiting
<1>4. /\ <<>> \in Seq({Request, WsPing, TapFrame}) /\ <<>> \in Seq(Messages)
      /\ Len(<<>>) = 0 /\ <<>> \o <<>> = <<>>
  BY EmptySeq, ConcatEmptySeq
<1>5. /\ link'.up = <<>> /\ link'.down = a /\ link'.held = 0 /\ link'.srvBuf = <<>>
      /\ link' \in LinkType
  BY <1>1, <1>2, <1>3, <1>4 DEF CInv, Types, LinkType, a
<1>6. 0 <= Len(a) /\ 0 <= Capacity /\ 1 - 0 <= Capacity
  BY <1>2, ClientConstants
<1>7. Types'
  BY <1>1, <1>4, <1>5, <1>6 DEF CInv, Types
<1>8. Sizes'
  BY <1>1, <1>2, <1>5, <1>6 DEF CInv, Sizes
<1>9. Replied'
  BY <1>1, <1>2, <1>3, <1>4, <1>5 DEF Replied
<1>10. Waiting'
  BY <1>1, <1>5, <1>9 DEF Waiting
<1>11. QED
  BY <1>1, <1>7, <1>8, <1>10 DEF CInv, Stages

LEMMA ServerReadsCInv == ASSUME CInv, ServerReads PROVE CInv'
<1>1. /\ link.up # <<>> /\ link' = [link EXCEPT !.up = Tail(@)]
      /\ UNCHANGED <<pc, throttle, tls, ssl, rset, buf, out, fault, hist, tapq>>
      /\ Connected /\ Answered
  BY DEF ServerReads, Answered, client
<1>2. pc \notin {"connect", "wait101"} /\ Opened
  BY <1>1, AnsweredStage DEF Replied
<1>3. /\ link.up \in Seq({WsPing, TapFrame})
      /\ link.up \in Seq({Request, WsPing, TapFrame}) /\ Len(link.up) <= Capacity
  BY <1>2 DEF Opened, CInv, Types, LinkType
<1>4. /\ Tail(link.up) \in Seq({WsPing, TapFrame})
      /\ Tail(link.up) \in Seq({Request, WsPing, TapFrame})
      /\ Len(Tail(link.up)) = Len(link.up) - 1 /\ Len(link.up) \in Nat
  BY <1>1, <1>3, HeadTailProperties, LenProperties
<1>5. Len(Tail(link.up)) <= Capacity
  BY <1>3, <1>4, ClientConstants
<1>6. /\ link'.up = Tail(link.up) /\ link'.down = link.down /\ link'.held = link.held
      /\ link'.srvBuf = link.srvBuf /\ link' \in LinkType
  BY <1>1, <1>4 DEF CInv, Types, LinkType
<1>7. Types'
  BY <1>1, <1>5, <1>6 DEF CInv, Types
<1>8. Sizes'
  BY <1>1, <1>6 DEF CInv, Sizes
<1>9. Opened'
  BY <1>1, <1>2, <1>4, <1>6 DEF Opened, Underway
<1>10. QED
  BY <1>1, <1>2, <1>7, <1>8, <1>9 DEF CInv, Stages

LEMMA ServerClosesCInv == ASSUME CInv, ServerCloses PROVE CInv'
<1>1. /\ link' = [link EXCEPT !.gone = TRUE] /\ pc # "connect"
      /\ UNCHANGED <<pc, throttle, tls, ssl, rset, buf, out, fault, hist, tapq>>
  BY DEF ServerCloses, Connected, client
<1>2. /\ link'.up = link.up /\ link'.down = link.down /\ link'.held = link.held
      /\ link'.srvBuf = link.srvBuf /\ link' \in LinkType
  BY <1>1 DEF CInv, Types, LinkType
<1>3. Types'
  BY <1>1, <1>2 DEF CInv, Types
<1>4. Sizes' /\ Stages'
  BY <1>1, <1>2 DEF CInv, Sizes, Stages, Waiting, Asked, Replied, Opened, Underway
<1>5. QED
  BY <1>3, <1>4 DEF CInv

\* The first item stays the first when others are joined on.
LEMMA TailConcat ==
    ASSUME NEW S, NEW a \in Seq(S), NEW b \in Seq(S), a # <<>>
    PROVE  Tail(a \o b) = Tail(a) \o b /\ Head(a \o b) = Head(a) /\ a \o b # <<>>
<1> DEFINE c == a \o b
<1>1. Len(a) \in Nat /\ Len(b) \in Nat /\ Len(a) > 0
  BY LenProperties, EmptySeq
<1>2. c \in Seq(S) /\ Len(c) = Len(a) + Len(b) /\ c[1] = a[1]
  <2>1. c \in Seq(S) /\ Len(c) = Len(a) + Len(b)
    BY ConcatProperties
  <2>2. 1 \in 1 .. Len(a) + Len(b) /\ 1 <= Len(a)
    BY <1>1
  <2>3. c[1] = a[1]
    BY <2>2, ConcatProperties
  <2>4. QED
    BY <2>1, <2>3
<1>3. From(c, 2) = From(a, 2) \o b
  <2>1. 2 \in 1 .. Len(a) + 1
    BY <1>1
  <2>2. QED
    BY <2>1, FromConcat
<1> HIDE DEF c
<1>4. c # <<>>
  BY <1>1, <1>2, EmptySeq
<1>5. Tail(c) = From(c, 2) /\ Tail(a) = From(a, 2)
  BY <1>2, <1>4, TailIsSubSeq DEF From
<1>6. Head(c) = c[1] /\ Head(a) = a[1]
  OBVIOUS
<1>7. Tail(c) = Tail(a) \o b /\ Head(c) = Head(a)
  BY <1>2, <1>3, <1>5, <1>6
<1>8. QED
  BY <1>4, <1>7 DEF c

\* A message is appended to what was given and to what is underway.
LEMMA ServerSendsCInv == ASSUME CInv, NEW m \in Messages, ServerSends(m) PROVE CInv'
<1> DEFINE d == link.down
           s == link.srvBuf
           g == hist.given
           q == Append(s, m)
           one == <<m>>
           room == Capacity - (Len(d) - link.held)
           n == IF Len(q) <= room THEN Len(q) ELSE room
           front == SubSeq(q, 1, n)
           back == From(q, n + 1)
<1>1. /\ Connected /\ Answered
      /\ link' = [link EXCEPT !.down = @ \o front, !.srvBuf = back,
                              !.srvOut = @ \/ n < Len(q)]
      /\ hist' = [hist EXCEPT !.given = Append(@, m)]
      /\ UNCHANGED <<pc, throttle, tls, ssl, rset, buf, out, fault, tapq>>
  BY DEF ServerSends, Answered, client
<1>2. /\ d \in Seq(Down) /\ s \in Seq(Messages) /\ g \in Seq(Messages)
      /\ Len(d) \in Nat /\ link.held \in Nat /\ link.held <= Len(d)
  <2>1. /\ d \in Seq(Down) /\ s \in Seq(Messages) /\ g \in Seq(Messages)
        /\ link.held \in Nat /\ link.held <= Len(d)
    BY DEF CInv, Types, LinkType, HistType
  <2>2. QED
    BY <2>1, LenProperties
<1>3. /\ q \in Seq(Messages) /\ q = s \o one /\ one \in Seq(Messages) /\ Len(q) = Len(s) + 1
  BY <1>2, AppendOne
<1>4. Append(g, m) \in Seq(Messages) /\ Append(g, m) = g \o one /\ Len(Append(g, m)) = Len(g) + 1
  BY <1>2, AppendOne
<1> HIDE DEF one, q
<1>5. n \in Nat /\ n <= Len(q) /\ n <= room /\ room \in Nat /\ Len(q) \in Nat
  <2>1. room \in Nat
    BY <1>2, ClientConstants DEF CInv, Sizes
  <2>2. Len(q) \in Nat
    BY <1>3, LenProperties
  <2>3. QED
    BY <2>1, <2>2
<1> HIDE DEF n
<1>6. /\ front \in Seq(Messages) /\ back \in Seq(Messages)
      /\ Len(front) = n /\ front \o back = q
  <2> DEFINE i == n + 1
  <2>1. i \in 1 .. Len(q) + 1 /\ n = i - 1
    BY <1>5
  <2> HIDE DEF i
  <2>2. /\ From(q, i) \in Seq(Messages) /\ SubSeq(q, 1, i - 1) \in Seq(Messages)
        /\ Len(SubSeq(q, 1, i - 1)) = i - 1 /\ SubSeq(q, 1, i - 1) \o From(q, i) = q
    BY <1>3, <2>1, FromProperties
  <2>3. QED
    BY <2>1, <2>2 DEF i
<1> HIDE DEF front, back
<1>7. d \o front \in Seq(Down) /\ Len(d \o front) = Len(d) + n
  <2>1. front \in Seq(Down)
    BY <1>6, ItemsInDown, SeqMonotonic
  <2>2. QED
    BY <1>2, <1>6, <2>1, ConcatProperties
<1>8. /\ link'.down = d \o front /\ link'.srvBuf = back /\ link'.up = link.up
      /\ link'.held = link.held /\ link' \in LinkType
  <2>1. (link.srvOut \/ n < Len(q)) \in BOOLEAN
    OBVIOUS
  <2>2. QED
    BY <1>1, <1>6, <1>7, <2>1 DEF CInv, Types, LinkType
<1>9. /\ hist'.given = Append(g, m) /\ hist'.lost = hist.lost /\ hist'.torn = hist.torn
      /\ hist'.handled = hist.handled /\ hist' \in HistType
  BY <1>1, <1>4 DEF CInv, Types, HistType
<1>10. Types'
  <2>1. link.held <= Len(d) + n
    BY <1>2, <1>5
  <2>2. QED
    BY <1>1, <1>7, <1>8, <1>9, <2>1 DEF CInv, Types
<1>11. Sizes'
  <2>1. Len(d) + n - link.held <= Capacity
    BY <1>2, <1>5, ClientConstants
  <2>2. Len(link'.down) = Len(d) + n
    BY <1>7, <1>8
  <2>3. link'.held = link.held
    BY <1>8
  <2>4. Len(link'.down) - link'.held <= Capacity
    BY <1>2, <1>5, <2>1, <2>2, <2>3
  <2>5. QED
    BY <1>1, <2>3, <2>4 DEF CInv, Sizes
<1>12. ASSUME pc = "wait101" PROVE Waiting'
  <2> DEFINE t == Tail(d)
  <2>1. /\ Waiting /\ link.up = <<>> /\ d # <<>> /\ Head(d) \in {Reply101, Refusal}
        /\ t \in Seq(Messages) /\ g = t \o s
    BY <1>1, <1>12, AnsweredStage DEF Replied
  <2>2. front \in Seq(Down)
    BY <1>6, ItemsInDown, SeqMonotonic
  <2>3. Tail(d \o front) = t \o front /\ Head(d \o front) = Head(d) /\ d \o front # <<>>
    BY <1>2, <2>1, <2>2, TailConcat
  <2> HIDE DEF t, d, s, g
  <2>4. t \o front \in Seq(Messages)
    BY <1>6, <2>1, ConcatProperties
  <2>5. Append(g, m) = (t \o front) \o back
    <3>1. /\ t \in Seq(Messages) /\ front \in Seq(Messages) /\ back \in Seq(Messages)
          /\ s \in Seq(Messages) /\ one \in Seq(Messages)
      BY <1>2, <1>3, <1>6, <2>1
    <3>2. (t \o front) \o back = t \o (front \o back)
      <4>1. t \in Seq(Messages) /\ front \in Seq(Messages) /\ back \in Seq(Messages)
        BY <3>1
      <4>2. QED
        BY <4>1, ConcatAssociative
    <3>3. (t \o s) \o one = t \o (s \o one)
      <4>1. t \in Seq(Messages) /\ s \in Seq(Messages) /\ one \in Seq(Messages)
        BY <3>1
      <4>2. QED
        BY <4>1, ConcatAssociative
    <3>4. front \o back = s \o one
      BY <1>3, <1>6
    <3>5. QED
      BY <1>4, <2>1, <3>2, <3>3, <3>4
  <2>6. Replied'
    BY <1>8, <1>9, <2>1, <2>3, <2>4, <2>5 DEF Replied
  <2>7. QED
    BY <1>1, <1>8, <1>9, <2>1, <2>6 DEF Waiting
<1>13. ASSUME pc # "wait101" PROVE Opened'
  <2>1. Opened
    BY <1>1, <1>13, AnsweredStage
  <2>2. d \o front \in Seq(Items)
    <3>1. front \in Seq(Items) /\ d \in Seq(Items)
      BY <1>6, <2>1, ItemsInDown, SeqMonotonic DEF Opened
    <3>2. QED
      BY <3>1, ConcatProperties
  <2>3. hist.lost \in Nat /\ hist.lost <= Len(g) /\ Len(g) \in Nat
    BY <1>2, <2>1, LenProperties DEF Opened, CInv, Types, HistType
  <2>4. ASSUME ~hist.torn
        PROVE  /\ d \o front \in Seq(Messages)
               /\ From(Append(g, m), hist.lost + 1) = hist.handled \o Underway'
    <3> DEFINE u == buf \o d
               h == hist.handled
               a == u \o s
               i == hist.lost + 1
    <3>1. /\ buf \in Seq(Messages) /\ d \in Seq(Messages)
          /\ From(g, i) = h \o a
      BY <2>1, <2>4 DEF Opened, Underway
    <3>2. u \in Seq(Messages)
      BY <3>1, ConcatProperties
    <3>3. a \in Seq(Messages)
      BY <1>2, <3>2, ConcatProperties
    <3>4. h \in Seq(Items)
      <4>1. h \in Seq(Messages)
        BY DEF CInv, Types, HistType
      <4>2. QED
        BY <4>1, ItemsInDown, SeqMonotonic
    <3>5. i \in 1 .. Len(g) + 1
      BY <2>3
    <3>6. Underway' = (buf \o (d \o front)) \o back
      BY <1>1, <1>8 DEF Underway
    <3> HIDE DEF d, s, g, h, i
    <3>7. From(g \o one, i) = From(g, i) \o one
      BY <1>2, <1>3, <3>5, FromConcat
    <3>8. buf \o (d \o front) = u \o front
      <4>1. buf \in Seq(Messages) /\ d \in Seq(Messages) /\ front \in Seq(Messages)
        BY <1>6, <3>1
      <4>2. buf \o (d \o front) = (buf \o d) \o front
        BY <4>1, ConcatAssociative
      <4>3. QED
        BY <4>2
    <3> HIDE DEF u
    <3>9. (u \o front) \o back = a \o one
      <4>1. /\ u \in Seq(Messages) /\ front \in Seq(Messages) /\ back \in Seq(Messages)
            /\ s \in Seq(Messages) /\ one \in Seq(Messages)
        BY <1>2, <1>3, <1>6, <3>2
      <4>2. (u \o front) \o back = u \o (front \o back)
        <5>1. u \in Seq(Messages) /\ front \in Seq(Messages) /\ back \in Seq(Messages)
          BY <4>1
        <5>2. QED
          BY <5>1, ConcatAssociative
      <4>3. (u \o s) \o one = u \o (s \o one)
        <5>1. u \in Seq(Messages) /\ s \in Seq(Messages) /\ one \in Seq(Messages)
          BY <4>1
        <5>2. QED
          BY <5>1, ConcatAssociative
      <4>4. front \o back = s \o one
        BY <1>3, <1>6
      <4>5. (u \o front) \o back = (u \o s) \o one
        BY <4>2, <4>3, <4>4
      <4>6. QED
        BY <4>5 DEF a
    <3> HIDE DEF a
    <3>10. (h \o a) \o one = h \o (a \o one)
      <4>1. a \in Seq(Items) /\ one \in Seq(Items)
        BY <1>3, <3>3, ItemsInDown, SeqMonotonic
      <4>2. QED
        BY <3>4, <4>1, ConcatAssociative
    <3>11. From(Append(g, m), i) = h \o Underway'
      BY <1>4, <3>1, <3>6, <3>7, <3>8, <3>9, <3>10
    <3>12. d \o front \in Seq(Messages)
      BY <1>6, <3>1, ConcatProperties
    <3>13. QED
      BY <3>11, <3>12 DEF h, i
  <2>5. hist.lost <= Len(g) + 1
    BY <2>3
  <2>6. QED
    BY <1>1, <1>4, <1>8, <1>9, <2>1, <2>2, <2>4, <2>5 DEF Opened
<1>14. pc # "connect"
  BY <1>1, AnsweredStage
<1>15. QED
  BY <1>1, <1>10, <1>11, <1>12, <1>13, <1>14 DEF CInv, Stages

-----------------------------------------------------------------------------
(* The theorems *)

LEMMA NextCInv == CInv /\ [Next]_vars => CInv'
<1> SUFFICES ASSUME CInv, [Next]_vars PROVE CInv'
  OBVIOUS
<1> USE DEF At, Running
<1>1. tapq \in 0 .. MaxTap /\ ssl \in {"null", "open", "freed"} /\ throttle \in 0 .. MaxThrottle
  BY DEF CInv, Types
<1>2. CASE ConnectFails
  BY <1>1, <1>2, ReconnectCInv DEF ConnectFails
<1>3. CASE NoPeer
  <2>1. MaxThrottle \in Nat /\ MaxThrottle # 0
    BY ClientConstants
  <2>2. throttle' \in 0 .. MaxThrottle
    BY <1>1, <1>3, <2>1 DEF NoPeer, NextThrottle
  <2>3. QED
    BY <1>1, <1>3, <2>2, AsideCInv DEF NoPeer
<1>4. CASE Connect
  BY <1>4, ConnectCInv
<1>5. CASE Upgraded
  BY <1>5, UpgradedCInv
<1>6. CASE UpgradeFails \/ ReadFails \/ ParseFails \/ WriteFails
  BY <1>1, <1>6, ReconnectCInv DEF UpgradeFails, ReadFails, ParseFails, WriteFails
<1>7. CASE \/ Select \/ SelectFails \/ SelectTimeout \/ ReadNothing \/ TapWriteFails
           \/ ParseEnds \/ TapRead \/ TapReadAgain \/ TapReadFails
  BY <1>7, QuietStepsCInv
<1>8. CASE Read
  BY <1>8, ReadCInv
<1>9. CASE ParseMessage \/ ParseTorn
  BY <1>9, ParseMessageCInv, ParseTornCInv
<1>10. CASE Write
  BY <1>10, WriteCInv
<1>11. CASE TapArrives
  <2>1. tapq' \in 0 .. MaxTap
    BY <1>1, <1>11, ClientConstants DEF TapArrives
  <2>2. QED
    BY <1>1, <1>11, <2>1, AsideCInv DEF TapArrives, client
<1>12. CASE Environment /\ ~TapArrives
  BY <1>12, ServerAnswersCInv, ServerSendsCInv, ServerReadsCInv, ServerClosesCInv
     DEF Environment
<1>13. CASE UNCHANGED vars
  BY <1>1, <1>13, AsideCInv DEF vars
<1>14. QED
  BY <1>2, <1>3, <1>4, <1>5, <1>6, <1>7, <1>8, <1>9, <1>10, <1>11, <1>12, <1>13
     DEF Next, ClientStep, Environment

\* The messages of a connection are where CInv has them, in every state.
THEOREM ClientInvariance == Spec => []CInv
BY InitCInv, NextCInv, PTL DEF Spec

\* Whatever fails, the buffers hold what their types allow, a session holds no
\* more than there is, and the sleep between two attempts stays bounded.
THEOREM ClientTypeCorrect == Spec => []TypeOK
<1>1. CInv => TypeOK
  BY DEF CInv, Types, TypeOK, LinkType, HistType, Items
<1>2. QED
  BY <1>1, ClientInvariance, PTL

\* However reads and writes cut what the server sends, for any room in between,
\* the client handles every message once and in order, but for those it has read
\* together with the answer to its request.
THEOREM ClientInOrder == Spec => []InOrder
<1>1. CInv => InOrder
  BY DEF CInv, Stages, Opened, InOrder
<1>2. QED
  BY <1>1, ClientInvariance, PTL

-----------------------------------------------------------------------------
(* The client implements ClientLink *)

\* Only the first item underway may be something else than a whole message.
WholeBehind == Underway # <<>> => Tail(Underway) \in Seq(Messages)

LEMMA UnderwayType ==
    ASSUME CInv
    PROVE  /\ buf \in Seq(Down) /\ link.down \in Seq(Down) /\ link.srvBuf \in Seq(Down)
           /\ link.srvBuf \in Seq(Messages) /\ Underway \in Seq(Down)
<1>1. buf \in Seq(Items) /\ link.down \in Seq(Down) /\ link.srvBuf \in Seq(Messages)
  BY DEF CInv, Types, LinkType
<1>2. buf \in Seq(Down) /\ link.srvBuf \in Seq(Down)
  BY <1>1, ItemsInDown, SeqMonotonic
<1>3. buf \o link.down \in Seq(Down)
  BY <1>1, <1>2, ConcatProperties
<1>4. Underway \in Seq(Down)
  BY <1>2, <1>3, ConcatProperties DEF Underway
<1>5. QED
  BY <1>1, <1>2, <1>4

LEMMA WholeType ==
    ASSUME NEW u \in Seq(Down), u # <<>> => Tail(u) \in Seq(Messages)
    PROVE  Whole(u) \in Seq(Messages)
<1>1. CASE u = <<>>
  BY <1>1, EmptySeq DEF Whole
<1>2. CASE u # <<>> /\ Head(u) \notin Messages
  BY <1>2 DEF Whole
<1>3. CASE u # <<>> /\ Head(u) \in Messages
  <2>1. /\ Len(u) \in Nat /\ Len(u) > 0 /\ u[1] \in Messages
        /\ Tail(u) \in Seq(Messages) /\ Len(Tail(u)) = Len(u) - 1
        /\ \A j \in 1 .. Len(u) - 1 : Tail(u)[j] = u[j + 1]
    BY <1>3, HeadTailProperties, LenProperties, EmptySeq
  <2>2. ASSUME NEW i \in 1 .. Len(u) PROVE u[i] \in Messages
    <3>1. CASE i = 1
      BY <2>1, <3>1
    <3>2. CASE i # 1
      <4> DEFINE j == i - 1
      <4>1. j \in 1 .. Len(u) - 1 /\ j + 1 = i
        BY <2>1, <3>2
      <4> HIDE DEF j
      <4>2. Tail(u)[j] = u[i] /\ Tail(u)[j] \in Messages
        BY <2>1, <4>1, ElementOfSeq
      <4>3. QED
        BY <4>2
    <3>3. QED
      BY <3>1, <3>2
  <2>3. u \in [1 .. Len(u) -> Messages]
    BY <2>2, LenProperties
  <2>4. u \in Seq(Messages)
    BY <2>1, <2>3, SeqDef
  <2>5. QED
    BY <1>3, <2>4 DEF Whole
<1>4. QED
  BY <1>1, <1>2, <1>3

LEMMA WholeMessages ==
    ASSUME NEW u \in Seq(Messages)
    PROVE  Whole(u) = u /\ (u # <<>> => Tail(u) \in Seq(Messages) /\ Head(u) \in Messages)
BY HeadTailProperties DEF Whole

LEMMA WholeAppend ==
    ASSUME NEW u \in Seq(Down), u # <<>> => Tail(u) \in Seq(Messages), NEW m \in Messages
    PROVE  /\ Whole(u \o <<m>>) = Append(Whole(u), m)
           /\ Tail(u \o <<m>>) \in Seq(Messages)
<1>1. <<m>> \in Seq(Messages) /\ <<m>> \in Seq(Down)
  BY ItemsInDown, SeqMonotonic
<1>2. CASE u = <<>>
  <2>1. u \o <<m>> = <<m>> /\ Append(u, m) = <<m>>
    BY <1>1, <1>2, ConcatEmptySeq
  <2>2. QED
    BY <1>1, <1>2, <2>1, WholeMessages, EmptySeq DEF Whole
<1>3. CASE u # <<>>
  <2> DEFINE one == <<m>>
  <2>1. /\ Tail(u \o one) = Tail(u) \o one /\ Head(u \o one) = Head(u)
        /\ u \o one # <<>>
    BY <1>1, <1>3, TailConcat
  <2>2. Tail(u) \o one = Append(Tail(u), m) /\ u \o one = Append(u, m)
    BY <1>3, ItemsInDown, AppendOne
  <2> HIDE DEF one
  <2>3. Whole(u \o one) = Append(Whole(u), m)
    BY <1>3, <2>1, <2>2 DEF Whole
  <2>4. Tail(u \o one) \in Seq(Messages)
    BY <1>3, <2>1, <2>2, AppendProperties
  <2>5. QED
    BY <2>3, <2>4 DEF one
<1>4. QED
  BY <1>2, <1>3

\* Nothing the abstract link can see has changed.
LEMMA QuietLink ==
    ASSUME WholeBehind, Underway' = Underway, hist'.torn = hist.torn,
           hist'.handled = hist.handled, LinkState' = LinkState
    PROVE  UNCHANGED Link!lvars /\ WholeBehind'
BY DEF Link!lvars, WholeBehind

\* The connection is given up with all that was left of it.
LEMMA ReconnectLink ==
    ASSUME CInv, NEW s, Reconnect(s), pc # "exited"
    PROVE  [Link!LinkNext]_(Link!lvars) /\ WholeBehind'
<1>1. /\ pc' = "connect" /\ buf' = <<>> /\ link'.down = <<>> /\ link'.srvBuf = <<>>
      /\ hist' = NewHist
  BY DEF Reconnect, NewLink
<1>2. <<>> \o <<>> = <<>>
  BY EmptySeq, ConcatEmptySeq
<1>3. Underway' = <<>>
  BY <1>1, <1>2 DEF Underway
<1>4. /\ LinkState' = "down" /\ Whole(Underway)' = <<>>
      /\ hist'.torn = FALSE /\ hist'.handled = <<>>
  BY <1>1, <1>3 DEF LinkState, Whole, NewHist
<1>5. CASE pc = "connect"
  <2>1. Underway = <<>> /\ hist.torn = FALSE /\ hist.handled = <<>> /\ LinkState = "down"
    BY <1>2, <1>5 DEF CInv, Stages, Idle, NewLink, NewHist, Underway, LinkState
  <2>2. Whole(Underway) = <<>>
    BY <2>1 DEF Whole
  <2>3. QED
    BY <1>3, <1>4, <2>1, <2>2 DEF Link!lvars, WholeBehind
<1>6. CASE pc # "connect"
  <2>1. LinkState \in {"asked", "open"}
    BY <1>6 DEF LinkState
  <2>2. Link!GiveUp
    BY <1>4, <2>1 DEF Link!GiveUp
  <2>3. QED
    BY <1>3, <2>2 DEF Link!LinkNext, WholeBehind
<1>7. QED
  BY <1>5, <1>6

LEMMA ConnectLink ==
    ASSUME CInv, WholeBehind, Connect
    PROVE  Link!LinkNext /\ WholeBehind'
<1>1. /\ pc = "connect" /\ pc' = "wait101" /\ UNCHANGED <<buf, hist>>
      /\ link' = [link EXCEPT !.up = <<Request>>]
  BY DEF Connect, At
<1>2. link'.down = link.down /\ link'.srvBuf = link.srvBuf
  BY <1>1 DEF CInv, Types, LinkType
<1>3. Underway' = Underway
  BY <1>1, <1>2 DEF Underway
<1>4. Link!Ask
  BY <1>1, <1>3 DEF Link!Ask, LinkState
<1>5. QED
  BY <1>3, <1>4 DEF Link!LinkNext, WholeBehind

\* The process ends, and what it had not handled stays.
LEMMA ExitLink ==
    ASSUME WholeBehind, TapWriteFails \/ TapReadFails \/ SelectFails
    PROVE  Link!LinkNext /\ WholeBehind'
<1>1. /\ pc \in {"parse", "tap", "select"} /\ pc' = "exited" /\ UNCHANGED <<buf, link, hist>>
  BY DEF TapWriteFails, TapReadFails, SelectFails, Parsing, At
<1>2. Underway' = Underway
  BY <1>1 DEF Underway
<1>3. Link!End
  BY <1>1, <1>2 DEF Link!End, LinkState
<1>4. QED
  BY <1>2, <1>3 DEF Link!LinkNext, WholeBehind

\* Waiting, reading in parts, and what the client writes are not seen.
LEMMA QuietStepsLink ==
    ASSUME CInv, WholeBehind,
           \/ NoPeer \/ Select \/ SelectTimeout \/ ReadNothing \/ ParseEnds
           \/ TapRead \/ TapReadAgain \/ Write \/ TapArrives \/ ServerReads \/ ServerCloses
           \/ UNCHANGED vars
    PROVE  UNCHANGED Link!lvars /\ WholeBehind'
<1>1. link \in LinkType
  BY DEF CInv, Types
<1>2. /\ link'.down = link.down /\ link'.srvBuf = link.srvBuf
      /\ UNCHANGED <<buf, hist>>
  BY <1>1 DEF NoPeer, Select, SelectTimeout, ReadNothing, ParseEnds, TapRead,
              TapReadAgain, Write, TapArrives, ServerReads, ServerCloses, client, vars, LinkType
<1>3. LinkState' = LinkState
  BY DEF NoPeer, Select, SelectTimeout, ReadNothing, ParseEnds, TapRead,
         TapReadAgain, Write, TapArrives, ServerReads, ServerCloses, client, vars, At, LinkState
<1>4. Underway' = Underway
  BY <1>2 DEF Underway
<1>5. QED
  BY <1>2, <1>3, <1>4, QuietLink

\* What is read stays underway, in the same order.
LEMMA ReadLink ==
    ASSUME CInv, WholeBehind, Read
    PROVE  UNCHANGED Link!lvars /\ WholeBehind'
<1>1. /\ pc = "read" /\ pc' = "parse" /\ UNCHANGED hist
  BY DEF Read, At
<1>2. PICK t \in Takes :
        /\ buf' = buf \o SubSeq(link.down, 1, t[1])
        /\ link' = [link EXCEPT !.down = From(@, t[1] + 1), !.held = t[2]]
  BY DEF Read
<1> DEFINE i == t[1] + 1
           got == SubSeq(link.down, 1, i - 1)
           rest == From(link.down, i)
<1>3. buf \in Seq(Down) /\ link.down \in Seq(Down)
  BY UnderwayType
<1>4. i \in 1 .. Len(link.down) + 1 /\ i - 1 = t[1]
  BY <1>3, TakesProperties, LenProperties
<1>5. buf' = buf \o got /\ link'.down = rest /\ link'.srvBuf = link.srvBuf
  BY <1>2, <1>4 DEF CInv, Types, LinkType
<1> HIDE DEF i
<1>6. got \in Seq(Down) /\ rest \in Seq(Down) /\ got \o rest = link.down
  BY <1>3, <1>4, FromProperties
<1> HIDE DEF got, rest
<1>7. (buf \o got) \o rest = buf \o (got \o rest)
  <2>1. buf \in Seq(Down) /\ got \in Seq(Down) /\ rest \in Seq(Down)
    BY <1>3, <1>6
  <2>2. QED
    BY <2>1, ConcatAssociative
<1>8. Underway' = Underway
  BY <1>5, <1>6, <1>7 DEF Underway
<1>9. LinkState' = LinkState
  BY <1>1 DEF LinkState
<1>10. QED
  BY <1>1, <1>8, <1>9, QuietLink

\* The answer comes in front of everything else.
LEMMA ServerAnswersLink ==
    ASSUME CInv, NEW reply \in {Reply101, Refusal}, ServerAnswers(reply)
    PROVE  UNCHANGED Link!lvars /\ WholeBehind'
<1>1. /\ Asked /\ buf = <<>> /\ UNCHANGED <<pc, buf, hist>>
      /\ link' = [link EXCEPT !.up = Tail(@), !.down = <<reply>>]
  BY AnsweredStage DEF ServerAnswers, client, Waiting
<1>2. /\ <<reply>> \in Seq(Down) /\ Tail(<<reply>>) = <<>> /\ Head(<<reply>>) = reply
      /\ <<reply>> # <<>>
  BY DEF Down
<1>3. /\ <<>> \o <<>> = <<>> /\ <<>> \o <<reply>> = <<reply>>
      /\ <<reply>> \o <<>> = <<reply>> /\ <<>> \in Seq(Messages)
  BY <1>2, EmptySeq, ConcatEmptySeq
<1>4. link'.down = <<reply>> /\ link'.srvBuf = <<>>
  BY <1>1 DEF CInv, Types, LinkType, Asked
<1>5. Underway = <<>> /\ Underway' = <<reply>>
  BY <1>1, <1>3, <1>4 DEF Underway, Asked
<1>6. reply \notin Messages
  BY ClientConstants
<1>7. Whole(Underway) = <<>> /\ Whole(Underway)' = <<>>
  BY <1>2, <1>5, <1>6 DEF Whole
<1>8. LinkState' = LinkState
  BY <1>1 DEF LinkState
<1>9. QED
  BY <1>1, <1>2, <1>3, <1>5, <1>7, <1>8 DEF Link!lvars, WholeBehind

\* What is given comes behind everything else, wherever it has to wait.
LEMMA ServerSendsLink ==
    ASSUME CInv, WholeBehind, NEW m \in Messages, ServerSends(m)
    PROVE  Link!LinkNext /\ WholeBehind'
<1> DEFINE d == link.down
           s == link.srvBuf
           q == Append(s, m)
           one == <<m>>
           room == Capacity - (Len(d) - link.held)
           i == (IF Len(q) <= room THEN Len(q) ELSE room) + 1
           front == SubSeq(q, 1, i - 1)
           back == From(q, i)
<1>1. pc \notin {"connect", "exited"} /\ UNCHANGED <<pc, buf>>
  BY DEF ServerSends, Answered, Connected, client
<1>2. /\ buf \in Seq(Down) /\ d \in Seq(Down) /\ s \in Seq(Down)
      /\ s \in Seq(Messages) /\ Underway \in Seq(Down)
  BY UnderwayType
<1>3. /\ q \in Seq(Messages) /\ q = s \o one /\ one \in Seq(Messages) /\ one \in Seq(Down)
  BY <1>2, AppendOne, ItemsInDown, SeqMonotonic
<1>4. i \in 1 .. Len(q) + 1
  <2>1. Len(d) \in Nat /\ link.held \in Nat /\ Len(d) - link.held <= Capacity
    BY <1>2, LenProperties DEF CInv, Types, LinkType, Sizes
  <2>2. room \in Nat
    BY <2>1, ClientConstants
  <2>3. Len(q) \in Nat
    BY <1>3, LenProperties
  <2>4. QED
    BY <2>2, <2>3
<1>5. /\ link'.down = d \o front /\ link'.srvBuf = back
      /\ hist'.torn = hist.torn /\ hist'.handled = hist.handled
  <2>1. i - 1 = IF Len(q) <= room THEN Len(q) ELSE room
    <3>1. Len(d) \in Nat /\ link.held \in Nat /\ Len(q) \in Nat
      BY <1>2, <1>3, LenProperties DEF CInv, Types, LinkType
    <3>2. QED
      BY <3>1, ClientConstants
  <2>2. /\ link' = [link EXCEPT !.down = @ \o front, !.srvBuf = back,
                                !.srvOut = @ \/ i - 1 < Len(q)]
        /\ hist' = [hist EXCEPT !.given = Append(@, m)]
    BY <2>1 DEF ServerSends
  <2>3. QED
    BY <2>2 DEF CInv, Types, LinkType, HistType
<1> HIDE DEF i, q, one
<1>6. front \in Seq(Messages) /\ back \in Seq(Messages) /\ front \o back = q
  BY <1>3, <1>4, FromProperties
<1>7. front \in Seq(Down) /\ back \in Seq(Down)
  BY <1>6, ItemsInDown, SeqMonotonic
<1> HIDE DEF front, back, d, s
<1> DEFINE u == buf \o d
<1>8. u \in Seq(Down)
  BY <1>2, ConcatProperties
<1>9. buf \o (d \o front) = u \o front
  <2>1. buf \in Seq(Down) /\ d \in Seq(Down) /\ front \in Seq(Down)
    BY <1>2, <1>7
  <2>2. QED
    BY <2>1, ConcatAssociative
<1> HIDE DEF u
<1>10. (u \o front) \o back = u \o (front \o back)
  <2>1. u \in Seq(Down) /\ front \in Seq(Down) /\ back \in Seq(Down)
    BY <1>7, <1>8
  <2>2. QED
    BY <2>1, ConcatAssociative
<1>11. (u \o s) \o one = u \o (s \o one)
  <2>1. u \in Seq(Down) /\ s \in Seq(Down) /\ one \in Seq(Down)
    BY <1>2, <1>3, <1>8
  <2>2. QED
    BY <2>1, ConcatAssociative
<1>12. Underway' = Underway \o one
  <2>1. Underway = u \o s /\ Underway' = (buf \o (d \o front)) \o back
    BY <1>1, <1>5 DEF Underway, u, d, s
  <2>2. QED
    BY <2>1, <1>3, <1>6, <1>9, <1>10, <1>11
<1>13. Whole(Underway)' = Append(Whole(Underway), m) /\ WholeBehind'
  <2> DEFINE w == Underway
  <2>1. w \in Seq(Down) /\ (w # <<>> => Tail(w) \in Seq(Messages))
    BY <1>2 DEF WholeBehind
  <2> HIDE DEF w
  <2>2. Whole(w \o <<m>>) = Append(Whole(w), m) /\ Tail(w \o <<m>>) \in Seq(Messages)
    BY <2>1, WholeAppend
  <2>3. QED
    BY <1>12, <2>2 DEF WholeBehind, w, one
<1>14. LinkState \in {"asked", "open"} /\ LinkState' = LinkState
  BY <1>1 DEF LinkState
<1>15. Link!Give(m)
  BY <1>5, <1>13, <1>14 DEF Link!Give
<1>16. QED
  BY <1>13, <1>15 DEF Link!LinkNext

\* The first message of the buffer is the first of the queue.
LEMMA ParseMessageLink ==
    ASSUME CInv, WholeBehind, ParseMessage
    PROVE  Link!LinkNext /\ WholeBehind'
<1> DEFINE rest == link.down \o link.srvBuf
<1>1. /\ pc = "parse" /\ buf # <<>> /\ Head(buf) \in Messages
      /\ buf' = Tail(buf) /\ UNCHANGED <<pc, link>>
      /\ hist' = [hist EXCEPT !.handled = Append(@, Head(buf))]
  BY DEF ParseMessage, Parsing, At, Decapitated
<1>2. hist'.handled = Append(hist.handled, Head(buf)) /\ hist'.torn = hist.torn
  BY <1>1 DEF CInv, Types, HistType
<1>3. /\ buf \in Seq(Down) /\ link.down \in Seq(Down) /\ link.srvBuf \in Seq(Down)
      /\ Underway \in Seq(Down)
  BY UnderwayType
<1>4. Tail(buf) \in Seq(Down) /\ rest \in Seq(Down)
  BY <1>1, <1>3, HeadTailProperties, ConcatProperties
<1>5. Underway = buf \o rest
  <2> DEFINE d == link.down
             e == link.srvBuf
  <2>1. buf \in Seq(Down) /\ d \in Seq(Down) /\ e \in Seq(Down)
    BY <1>3
  <2> HIDE DEF d, e
  <2>2. (buf \o d) \o e = buf \o (d \o e)
    BY <2>1, ConcatAssociative
  <2>3. QED
    BY <2>2 DEF Underway, d, e
<1>6. Underway' = Tail(buf) \o rest
  <2> DEFINE b == Tail(buf)
             d == link.down
             e == link.srvBuf
  <2>1. Underway' = (b \o d) \o e
    BY <1>1 DEF Underway
  <2>2. b \in Seq(Down) /\ d \in Seq(Down) /\ e \in Seq(Down)
    BY <1>3, <1>4
  <2> HIDE DEF b, d, e
  <2>3. (b \o d) \o e = b \o (d \o e)
    BY <2>2, ConcatAssociative
  <2>4. QED
    BY <2>1, <2>3 DEF b, d, e
<1> HIDE DEF rest
<1>7. Tail(Underway) = Underway' /\ Head(Underway) = Head(buf) /\ Underway # <<>>
  BY <1>1, <1>3, <1>4, <1>5, <1>6, TailConcat
<1>8. Whole(Underway) = Underway
  BY <1>1, <1>7 DEF Whole
<1>9. Underway' \in Seq(Messages)
  BY <1>7 DEF WholeBehind
<1>10. Whole(Underway)' = Underway' /\ WholeBehind'
  <2> DEFINE w == Tail(Underway)
  <2>1. w \in Seq(Messages)
    BY <1>7, <1>9
  <2> HIDE DEF w
  <2>2. Whole(w) = w /\ (w # <<>> => Tail(w) \in Seq(Messages))
    BY <2>1, WholeMessages
  <2>3. QED
    BY <1>7, <2>2 DEF WholeBehind, w
<1>11. LinkState = "open" /\ LinkState' = LinkState
  BY <1>1 DEF LinkState
<1>12. Link!Handle
  BY <1>1, <1>2, <1>7, <1>8, <1>10, <1>11 DEF Link!Handle
<1>13. QED
  BY <1>10, <1>12 DEF Link!LinkNext

\* A suffix of what follows the answer, or the rest of a message and that.
LEMMA CutWhole ==
    ASSUME NEW q \in Seq(Messages), NEW e \in Seq(Messages), NEW r \in Cuts(q)
    PROVE  /\ r = q => Whole(r \o e) = q \o e
           /\ r # q => q # <<>> /\ Whole(r \o e) = From(q \o e, 2)
           /\ r \o e # <<>> => Tail(r \o e) \in Seq(Messages)
<1>1. q \o e \in Seq(Messages)
  BY ConcatProperties
<1>2. CASE r = q
  <2>1. Whole(q \o e) = q \o e /\ (q \o e # <<>> => Tail(q \o e) \in Seq(Messages))
    BY <1>1, WholeMessages
  <2>2. QED
    BY <1>2, <2>1
<1>3. CASE r # q
  <2> DEFINE w == Tail(q)
             torn == <<Torn>>
  <2>1. q # <<>> /\ r = torn \o w /\ w \in Seq(Messages)
    BY <1>3, HeadTailProperties DEF Cuts
  <2>2. /\ torn \in Seq(Items) /\ torn # <<>> /\ Head(torn) = Torn /\ Tail(torn) = <<>>
        /\ e \in Seq(Items) /\ w \in Seq(Items)
    <3>1. torn \in Seq(Items) /\ torn # <<>> /\ Head(torn) = Torn /\ Tail(torn) = <<>>
      BY DEF Items
    <3>2. e \in Seq(Items) /\ w \in Seq(Items)
      BY <2>1, ItemsInDown, SeqMonotonic
    <3>3. QED
      BY <3>1, <3>2
  <2>3. Tail(q \o e) = w \o e /\ q \o e # <<>>
    BY <2>1, TailConcat
  <2>4. From(q \o e, 2) = w \o e
    BY <1>1, <2>3, TailIsSubSeq DEF From
  <2> HIDE DEF w, torn
  <2>5. w \o e \in Seq(Items) /\ w \o e \in Seq(Messages)
    BY <2>1, <2>2, ConcatProperties
  <2>6. (torn \o w) \o e = torn \o (w \o e)
    BY <2>2, ConcatAssociative
  <2> DEFINE z == w \o e
  <2>7. z \in Seq(Items)
    BY <2>5
  <2> HIDE DEF z
  <2>8. Tail(torn \o z) = <<>> \o z /\ Head(torn \o z) = Torn /\ torn \o z # <<>>
    BY <2>2, <2>7, TailConcat
  <2>9. <<>> \o z = z
    BY <2>7, ConcatEmptySeq
  <2>10. Whole(torn \o z) = z
    BY <2>8, <2>9, ItemsInDown DEF Whole
  <2>11. QED
    BY <1>3, <2>1, <2>4, <2>5, <2>6, <2>8, <2>9, <2>10 DEF z
<1>4. QED
  BY <1>2, <1>3

\* From what is left after i items, to leave out the first is to leave out i + 1.
LEMMA FromFrom ==
    ASSUME NEW S, NEW q \in Seq(S), NEW i \in 1 .. Len(q)
    PROVE  From(q, i + 1) = From(From(q, i), 2) /\ From(q, i) # <<>>
<1> DEFINE r == From(q, i)
           j == i + 1
<1>1. Len(q) \in Nat /\ i \in 1 .. Len(q) + 1 /\ j \in 1 .. Len(q) + 1 /\ j = i + 1
  BY LenProperties
<1>2. /\ r \in Seq(S) /\ Len(r) = Len(q) - i + 1
      /\ \A k \in 1 .. Len(q) - i + 1 : r[k] = q[k + i - 1]
  BY <1>1, FromProperties
<1> HIDE DEF r, j
<1>3. r # <<>> /\ 2 \in 1 .. Len(r) + 1
  BY <1>1, <1>2, EmptySeq
<1>4. /\ From(r, 2) \in Seq(S) /\ Len(From(r, 2)) = Len(r) - 2 + 1
      /\ \A k \in 1 .. Len(r) - 2 + 1 : From(r, 2)[k] = r[k + 2 - 1]
  BY <1>2, <1>3, FromProperties
<1>5. /\ From(q, j) \in Seq(S) /\ Len(From(q, j)) = Len(q) - j + 1
      /\ \A k \in 1 .. Len(q) - j + 1 : From(q, j)[k] = q[k + j - 1]
  BY <1>1, FromProperties
<1>6. Len(From(q, j)) = Len(From(r, 2))
  BY <1>1, <1>2, <1>4, <1>5
<1>7. ASSUME NEW k \in 1 .. Len(From(q, j)) PROVE From(q, j)[k] = From(r, 2)[k]
  <2>1. k \in 1 .. Len(q) - j + 1 /\ k \in 1 .. Len(r) - 2 + 1
    BY <1>1, <1>2, <1>5
  <2> DEFINE l == k + 2 - 1
  <2>2. l \in 1 .. Len(q) - i + 1 /\ l + i - 1 = k + j - 1
    BY <1>1, <2>1
  <2>3. From(q, j)[k] = q[k + j - 1] /\ From(r, 2)[k] = r[l]
    BY <1>4, <1>5, <2>1
  <2> HIDE DEF l
  <2>4. r[l] = q[l + i - 1]
    BY <1>2, <2>2
  <2>5. QED
    BY <2>2, <2>3, <2>4
<1>8. From(q, j) = From(r, 2)
  BY <1>4, <1>5, <1>6, <1>7, SeqEqual
<1>9. QED
  BY <1>3, <1>8 DEF r, j

LEMMA ConcatParts ==
    ASSUME NEW S, NEW T, NEW a \in Seq(S), NEW b \in Seq(S), a \o b \in Seq(T)
    PROVE  a \in Seq(T) /\ b \in Seq(T)
<1> DEFINE c == a \o b
<1>1. /\ Len(a) \in Nat /\ Len(b) \in Nat /\ Len(c) = Len(a) + Len(b) /\ c \in Seq(T)
      /\ \A j \in 1 .. Len(a) + Len(b) : c[j] = IF j <= Len(a) THEN a[j] ELSE b[j - Len(a)]
  BY LenProperties, ConcatProperties
<1> HIDE DEF c
<1>2. \A j \in 1 .. Len(a) + Len(b) : c[j] \in T
  BY <1>1, ElementOfSeq
<1>3. ASSUME NEW j \in 1 .. Len(a) PROVE a[j] \in T
  BY <1>1, <1>2
<1>4. ASSUME NEW j \in 1 .. Len(b) PROVE b[j] \in T
  <2> DEFINE k == j + Len(a)
  <2>1. k \in 1 .. Len(a) + Len(b) /\ ~(k <= Len(a)) /\ k - Len(a) = j
    BY <1>1
  <2> HIDE DEF k
  <2>2. c[k] = b[j] /\ c[k] \in T
    BY <1>1, <1>2, <2>1
  <2>3. QED
    BY <2>2
<1>5. a \in [1 .. Len(a) -> T] /\ b \in [1 .. Len(b) -> T]
  BY <1>3, <1>4, LenProperties
<1>6. QED
  BY <1>1, <1>5, SeqDef

\* What was read with the answer is lost, and perhaps the beginning of a message.
LEMMA UpgradedLink ==
    ASSUME CInv, Upgraded
    PROVE  Link!LinkNext /\ WholeBehind'
<1> DEFINE d == Tail(link.down)
           e == link.srvBuf
           v == d \o e
<1>1. /\ pc = "wait101" /\ pc' = "select" /\ Waiting /\ Replied /\ UNCHANGED buf
      /\ Head(link.down) = Reply101
  BY DEF Upgraded, At, CInv, Stages, Waiting, Asked
<1>2. PICK t \in Takes : \E rest \in Cuts(From(link.down, t[1] + 1)) :
        /\ link' = [link EXCEPT !.down = rest, !.held = t[2]]
        /\ hist' = [hist EXCEPT !.lost = t[1] - 1,
                                !.torn = rest # <<>> /\ Head(rest) = Torn]
  BY DEF Upgraded
<1> DEFINE k == t[1]
           q == From(d, k)
<1>3. /\ link.down \in Seq(Down) /\ link.down # <<>> /\ d \in Seq(Messages)
      /\ e \in Seq(Messages) /\ e \in Seq(Down) /\ buf = <<>>
  BY <1>1, UnderwayType DEF Replied, Waiting
<1>4. k \in 1 .. Len(link.down) /\ Len(d) = Len(link.down) - 1 /\ Len(d) \in Nat
  BY <1>3, TakesProperties, HeadTailProperties, LenProperties
<1>5. k \in 1 .. Len(d) + 1
  BY <1>4
<1>6. From(link.down, k + 1) = q
  BY <1>3, <1>4, FromTail
<1>7. PICK rest \in Cuts(q) :
        /\ link'.down = rest /\ link'.srvBuf = e
        /\ hist'.torn = (rest # <<>> /\ Head(rest) = Torn) /\ hist'.handled = hist.handled
  BY <1>2, <1>6 DEF CInv, Types, LinkType, HistType
<1>8. Whole(Underway) = v
  <2> DEFINE a == link.down
  <2>1. Tail(a \o e) = v /\ Head(a \o e) = Head(a) /\ a \o e # <<>>
    BY <1>3, TailConcat
  <2>2. Underway = a \o e
    BY <1>3, ConcatEmptySeq DEF Underway
  <2>3. Head(a) \notin Messages
    BY <1>1, ClientConstants
  <2> HIDE DEF a, v
  <2>4. QED
    BY <2>1, <2>2, <2>3 DEF Whole
<1> HIDE DEF d, e
<1>9. v \in Seq(Messages) /\ Len(v) = Len(d) + Len(e) /\ Len(e) \in Nat
  BY <1>3, ConcatProperties, LenProperties
<1>10. From(v, k) = q \o e /\ q \in Seq(Messages) /\ Len(q) = Len(d) - k + 1
  BY <1>3, <1>5, FromConcat, FromProperties
<1>11. Underway' = rest \o e
  <2>1. q \in Seq(Items)
    BY <1>10, ItemsInDown, SeqMonotonic
  <2> HIDE DEF q
  <2>2. rest \in Seq(Items)
    BY <2>1, <1>7, CutsProperties
  <2>3. <<>> \o rest = rest
    BY <2>2, ConcatEmptySeq
  <2>4. QED
    BY <1>1, <1>3, <1>7, <2>3 DEF Underway
<1> HIDE DEF k, q, v
<1>12. /\ rest = q => Whole(rest \o e) = q \o e
       /\ rest # q => q # <<>> /\ Whole(rest \o e) = From(q \o e, 2)
       /\ rest \o e # <<>> => Tail(rest \o e) \in Seq(Messages)
  BY <1>3, <1>7, <1>10, CutWhole
<1>13. WholeBehind'
  BY <1>11, <1>12 DEF WholeBehind
<1>14. LinkState = "asked" /\ LinkState' = "open"
  BY <1>1 DEF LinkState
<1>15. CASE rest = q
  <2> DEFINE j == k - 1
  <2>1. j \in 0 .. Len(v) /\ j + 1 = k
    BY <1>4, <1>5, <1>9
  <2>2. hist'.torn = FALSE
    <3>1. q # <<>> => Head(q) \in Messages
      BY <1>10, WholeMessages
    <3>2. QED
      BY <1>7, <1>15, <3>1, ItemsInDown
  <2>3. Whole(Underway)' = SubSeq(v, j + 1, Len(v))
    BY <1>10, <1>11, <1>12, <1>15, <2>1 DEF From
  <2> HIDE DEF j
  <2>4. Link!Open(j)
    BY <1>7, <1>8, <1>14, <2>2, <2>3 DEF Link!Open
  <2>5. QED
    BY <1>8, <1>13, <2>1, <2>4 DEF Link!LinkNext
<1>16. CASE rest # q
  <2>1. k \in 1 .. Len(v) /\ k \in 0 .. Len(v) /\ k > 0
    <3>1. Len(q) # 0 /\ Len(q) \in Nat
      BY <1>10, <1>12, <1>16, EmptySeq, LenProperties
    <3>2. QED
      BY <1>4, <1>5, <1>9, <1>10, <3>1
  <2>2. hist'.torn = TRUE
    <3>1. rest # <<>> /\ Head(rest) = Torn
      <4>1. q \in Seq(Items)
        BY <1>10, ItemsInDown, SeqMonotonic
      <4>2. QED
        BY <4>1, <1>7, <1>16, CutsProperties
    <3>2. QED
      BY <1>7, <3>1
  <2>3. From(v, k + 1) = From(From(v, k), 2)
    BY <1>9, <2>1, FromFrom
  <2>4. Whole(Underway)' = SubSeq(v, k + 1, Len(v))
    BY <1>10, <1>11, <1>12, <1>16, <2>3 DEF From
  <2>5. Link!Open(k)
    BY <1>7, <1>8, <1>14, <2>1, <2>2, <2>4 DEF Link!Open
  <2>6. QED
    BY <1>8, <1>13, <2>1, <2>5 DEF Link!LinkNext
<1>17. QED
  BY <1>15, <1>16

\* The rest of a message swallows what it takes for its payload.
LEMMA ParseTornLink ==
    ASSUME CInv, WholeBehind, ParseTorn
    PROVE  Link!LinkNext /\ WholeBehind'
<1> DEFINE x == Tail(buf)
           e == link.down \o link.srvBuf
           v == x \o e
<1>1. /\ pc = "parse" /\ Opened /\ buf # <<>> /\ Head(buf) = Torn
      /\ UNCHANGED <<pc, link, hist>>
  BY DEF ParseTorn, Parsing, At, CInv, Stages
<1>2. PICK i \in 2 .. Len(buf) + 1 : buf' \in Cuts(From(buf, i))
  BY DEF ParseTorn
<1>3. /\ buf \in Seq(Down) /\ link.down \in Seq(Down) /\ link.srvBuf \in Seq(Down)
      /\ buf \in Seq(Items)
  BY UnderwayType DEF CInv, Types
<1>4. x \in Seq(Down) /\ e \in Seq(Down) /\ Len(x) = Len(buf) - 1 /\ Len(x) \in Nat
  BY <1>1, <1>3, HeadTailProperties, ConcatProperties, LenProperties
<1>5. hist.torn
  <2> SUFFICES ASSUME ~hist.torn PROVE FALSE
    OBVIOUS
  <2>1. buf \in Seq(Messages)
    BY <1>1 DEF Opened
  <2>2. QED
    BY <1>1, <2>1, WholeMessages, ItemsInDown
<1>6. hist.torn = TRUE
  BY <1>5 DEF CInv, Types, HistType
<1> DEFINE k == i - 1
<1>7. k \in 1 .. Len(x) + 1 /\ k \in 1 .. Len(buf) /\ k + 1 = i
  BY <1>4
<1> HIDE DEF k
<1> DEFINE q == From(x, k)
<1>8. buf' \in Cuts(q)
  BY <1>1, <1>2, <1>3, <1>7, FromTail
<1>9. Underway = buf \o e
  <2> DEFINE a == link.down
             b == link.srvBuf
  <2>1. buf \in Seq(Down) /\ a \in Seq(Down) /\ b \in Seq(Down)
    BY <1>3
  <2> HIDE DEF a, b
  <2>2. (buf \o a) \o b = buf \o (a \o b)
    BY <2>1, ConcatAssociative
  <2>3. QED
    BY <2>2 DEF Underway, a, b
<1>10. Tail(Underway) = v /\ Head(Underway) = Torn /\ Underway # <<>>
  BY <1>1, <1>3, <1>4, <1>9, TailConcat
<1>11. Whole(Underway) = v
  BY <1>10, ItemsInDown DEF Whole
<1>12. v \in Seq(Messages)
  BY <1>10 DEF WholeBehind
<1> HIDE DEF x, e
<1>13. x \in Seq(Messages) /\ e \in Seq(Messages)
  BY <1>4, <1>12, ConcatParts
<1>14. From(v, k) = q \o e /\ q \in Seq(Messages) /\ Len(q) = Len(x) - k + 1
  BY <1>7, <1>13, FromConcat, FromProperties
<1>15. Len(v) = Len(x) + Len(e) /\ Len(e) \in Nat
  BY <1>13, ConcatProperties, LenProperties
<1> HIDE DEF v, q
<1>16. Underway' = buf' \o e
  <2> DEFINE a == link.down
             b == link.srvBuf
             c == buf'
  <2>1. a \in Seq(Down) /\ b \in Seq(Down)
    BY <1>3
  <2>2. c \in Seq(Down)
    <3>1. q \in Seq(Items)
      BY <1>14, ItemsInDown, SeqMonotonic
    <3>2. c \in Seq(Items)
      BY <3>1, <1>8, CutsProperties
    <3>3. QED
      BY <3>2, ItemsInDown, SeqMonotonic
  <2>3. Underway' = (c \o a) \o b
    BY <1>1 DEF Underway
  <2> HIDE DEF a, b, c
  <2>4. (c \o a) \o b = c \o (a \o b)
    BY <2>1, <2>2, ConcatAssociative
  <2>5. QED
    BY <2>3, <2>4 DEF a, b, c, e
<1>17. PICK r \in Cuts(q) : r = buf'
  BY <1>8
<1>18. /\ r = q => Whole(r \o e) = q \o e
       /\ r # q => q # <<>> /\ Whole(r \o e) = From(q \o e, 2)
       /\ r \o e # <<>> => Tail(r \o e) \in Seq(Messages)
  BY <1>13, <1>14, CutWhole
<1>19. Underway' = r \o e
  BY <1>16, <1>17
<1>20. WholeBehind'
  BY <1>18, <1>19 DEF WholeBehind
<1>21. LinkState = "open" /\ LinkState' = LinkState
  BY <1>1 DEF LinkState
<1>22. CASE r = q
  <2> DEFINE j == k - 1
  <2>1. j \in 0 .. Len(v) /\ j + 1 = k
    BY <1>4, <1>7, <1>15
  <2>2. Whole(Underway)' = SubSeq(v, j + 1, Len(v))
    BY <1>14, <1>18, <1>19, <1>22, <2>1 DEF From
  <2> HIDE DEF j
  <2>3. Link!Swallow(j)
    BY <1>1, <1>6, <1>11, <1>21, <2>2 DEF Link!Swallow
  <2>4. QED
    BY <1>11, <1>20, <2>1, <2>3 DEF Link!LinkNext
<1>23. CASE r # q
  <2>1. k \in 1 .. Len(v) /\ k \in 0 .. Len(v)
    <3>1. Len(q) # 0 /\ Len(q) \in Nat
      BY <1>14, <1>18, <1>23, EmptySeq, LenProperties
    <3>2. QED
      BY <1>4, <1>7, <1>14, <1>15, <3>1
  <2>2. From(v, k + 1) = From(From(v, k), 2)
    BY <1>12, <2>1, FromFrom
  <2>3. Whole(Underway)' = SubSeq(v, k + 1, Len(v))
    BY <1>14, <1>18, <1>19, <1>23, <2>2 DEF From
  <2>4. Link!Swallow(k)
    BY <1>1, <1>6, <1>11, <1>21, <2>3 DEF Link!Swallow
  <2>5. QED
    BY <1>11, <1>20, <2>1, <2>4 DEF Link!LinkNext
<1>24. QED
  BY <1>22, <1>23

LEMMA InitLink == Init => Link!LinkInit /\ WholeBehind
<1> SUFFICES ASSUME Init PROVE Link!LinkInit /\ WholeBehind
  OBVIOUS
<1>1. <<>> \o <<>> = <<>>
  BY EmptySeq, ConcatEmptySeq
<1>2. Underway = <<>>
  BY <1>1 DEF Init, NewLink, Underway
<1>3. Whole(Underway) = <<>> /\ WholeBehind
  BY <1>2 DEF Whole, WholeBehind
<1>4. hist.torn = FALSE /\ hist.handled = <<>> /\ LinkState = "down"
  BY DEF Init, NewHist, LinkState
<1>5. QED
  BY <1>3, <1>4 DEF Link!LinkInit

LEMMA NextLink ==
    CInv /\ WholeBehind /\ [Next]_vars => [Link!LinkNext]_(Link!lvars) /\ WholeBehind'
<1> SUFFICES ASSUME CInv, WholeBehind, [Next]_vars
             PROVE  [Link!LinkNext]_(Link!lvars) /\ WholeBehind'
  OBVIOUS
<1>1. CASE ConnectFails \/ UpgradeFails \/ ReadFails \/ ParseFails \/ WriteFails
  <2>1. pc # "exited" /\ \E s : Reconnect(s)
    BY <1>1 DEF ConnectFails, UpgradeFails, ReadFails, ParseFails, WriteFails, Parsing, At
  <2>2. QED
    BY <2>1, ReconnectLink
<1>2. CASE Connect
  BY <1>2, ConnectLink
<1>3. CASE Upgraded
  BY <1>3, UpgradedLink
<1>4. CASE Read
  BY <1>4, ReadLink
<1>5. CASE ParseMessage
  BY <1>5, ParseMessageLink
<1>6. CASE ParseTorn
  BY <1>6, ParseTornLink
<1>7. CASE TapWriteFails \/ TapReadFails \/ SelectFails
  BY <1>7, ExitLink
<1>8. CASE \/ NoPeer \/ Select \/ SelectTimeout \/ ReadNothing \/ ParseEnds
           \/ TapRead \/ TapReadAgain \/ Write \/ TapArrives \/ ServerReads \/ ServerCloses
           \/ UNCHANGED vars
  BY <1>8, QuietStepsLink
<1>9. CASE \E reply \in {Reply101, Refusal} : ServerAnswers(reply)
  BY <1>9, ServerAnswersLink
<1>10. CASE \E m \in Messages : ServerSends(m)
  BY <1>10, ServerSendsLink
<1>11. QED
  BY <1>1, <1>2, <1>3, <1>4, <1>5, <1>6, <1>7, <1>8, <1>9, <1>10
     DEF Next, ClientStep, Environment

\* Every step of the client, of the kernel and of the server's end is a step of
\* ClientLink or none: for any room in the connection and any cut of the reads,
\* messages are lost only with the answer or behind a torn one, are handled once
\* and in order, and nothing of a connection outlives it.
THEOREM ClientKeepsLink == Spec => ImplementsLink
<1>1. Init => Link!LinkInit /\ WholeBehind
  BY InitLink
<1>2. CInv /\ WholeBehind /\ [Next]_vars => [Link!LinkNext]_(Link!lvars) /\ WholeBehind'
  BY NextLink
<1>3. QED
  BY <1>1, <1>2, ClientInvariance, PTL DEF Spec, ImplementsLink, Link!LinkSpec
=============================================================================
