---------------------------- MODULE TunnelProofs ----------------------------
(***************************************************************************)
(* Proofs about the tunnel for any clients, ports, addresses, connections   *)
(* and frames.  Sequences carry what is known of their frames as a type:    *)
(* what a port has to read was sent by its owner, and what is on its way to *)
(* a client is meant for it.                                                *)
(***************************************************************************)
EXTENDS Tunnel, SequenceTheorems, TLAPS

\* The frames that client c may be given on its connection number n.
Meant(c, n) ==
    {f \in Frames :
       \/ c \in BridgeClients
       \/ /\ f.dst = Address[c] \/ IsBroadcast(f.dst) \/ IsMulticast(f.dst)
          /\ f.from = c => f.conn < n}

Entries(c) == {e \in [frame : Frames, conn : Conns] : e.frame \in Meant(c, e.conn)}

\* The frames that port p may have to read: on the present connection of its
\* owner only when that is p, or has ended.
Sent(p) ==
    {f \in Frames :
       /\ f.from = owner[p] /\ f.conn <= client[owner[p]].conn
       /\ f.conn = client[owner[p]].conn => client[owner[p]].port \in {p, NoPort}}

ClientType ==
    [state : {"down", "asked", "answered", "open"}, port : Ports \cup {NoPort},
     queue : Seq(Frames), torn : BOOLEAN, conn : {0} \cup Conns]

Types ==
    /\ plugged \subseteq Ports /\ bridges \subseteq plugged
    /\ known \in [Ports -> SUBSET Macs] /\ out \in [Ports -> Seq(Frames)]
    /\ client \in [Clients -> ClientType] /\ owner \in [Ports -> Clients]
    /\ up \in [Ports -> Seq(Frames)]
    /\ tap \in [Clients -> Seq([frame : Frames, conn : Conns])]
    /\ sends \in 0 .. MaxSends

\* The state of a client and of its connection agree.
ClientInv(c) ==
    /\ client[c].queue \in Seq(Meant(c, client[c].conn))
    /\ tap[c] \in Seq(Entries(c))
    /\ client[c].conn \in 0 .. MaxConns[c]
    /\ client[c].state = "down" => client[c].port = NoPort
    /\ client[c].state # "down" => client[c].conn > 0
    /\ client[c].port # NoPort =>
         /\ client[c].port \in plugged /\ owner[client[c].port] = c
         /\ client[c].state \in {"answered", "open"} => known[client[c].port] # {}

\* A port has something to read only behind its announcement, and the port of a
\* client that is no bridge has no address but the client's.
PortInv(p) ==
    /\ up[p] \in Seq(Sent(p))
    /\ p \notin plugged => up[p] = <<>> /\ known[p] = {}
    /\ up[p] # <<>> => known[p] # {}
    /\ owner[p] \notin BridgeClients => p \notin bridges /\ known[p] \subseteq {Address[owner[p]]}

TInv == Types /\ (\A c \in Clients : ClientInv(c)) /\ (\A p \in Ports : PortInv(p))

-----------------------------------------------------------------------------
(* Sequences *)

\* What is behind the first k items is a sequence of the same kind.
LEMMA FromTyped ==
    ASSUME NEW S, NEW q \in Seq(S), NEW i \in Nat, i > 0
    PROVE  From(q, i) \in Seq(S)
<1>1. Len(q) \in Nat /\ \A j \in 1 .. Len(q) : q[j] \in S
  BY ElementOfSeq, LenProperties
<1>2. \A j \in i .. Len(q) : q[j] \in S
  BY <1>1
<1>3. QED
  BY <1>1, <1>2, SubSeqProperties DEF From

\* What a port was given: nothing, or one frame.
LEMMA NothingNew == ASSUME NEW S, NEW q \in Seq(S) PROVE From(q, Len(q) + 1) = <<>>
<1>1. Len(q) \in Nat
  BY LenProperties
<1>2. QED
  BY <1>1, SubSeqEmpty DEF From

LEMMA OneNew ==
    ASSUME NEW S, NEW q \in Seq(S), NEW f \in S
    PROVE  From(Append(q, f), Len(q) + 1) = <<f>>
<1> DEFINE r == Append(q, f)
           n == Len(q) + 1
<1>1. r \in Seq(S) /\ Len(r) = n /\ r[n] = f /\ n \in 1 .. Len(r) /\ n \in Int
  BY AppendProperties, LenProperties
<1> HIDE DEF r, n
<1>2. SubSeq(r, n, n) = << r[n] >> \o SubSeq(r, n + 1, n)
  BY <1>1, SubSeqRecursiveFirst
<1>3. SubSeq(r, n + 1, n) = <<>>
  BY <1>1, SubSeqEmpty
<1>4. <<f>> \in Seq(S)
  OBVIOUS
<1>5. <<f>> \o <<>> = <<f>>
  BY <1>4, ConcatEmptySeq
<1>6. QED
  BY <1>1, <1>2, <1>3, <1>5 DEF From, r, n

-----------------------------------------------------------------------------
(* Steps of the clients *)

\* The constants, as the proofs use them.
LEMMA Constants ==
    /\ MaxSends \in Nat /\ \A c \in Clients : MaxConns[c] \in Nat /\ Address[c] \in Macs
    /\ \A c \in Clients : \A n \in 1 .. MaxConns[c] : n \in Conns
    /\ Conns \subseteq Nat
<1>1. /\ MaxSends \in Nat /\ MaxConns \in [Clients -> Nat] /\ Address \in [Clients -> Unicast]
  BY TunnelConstants
<1>2. QED
  BY <1>1 DEF Conns, Macs

\* What is meant for a connection is also meant for a later one.
LEMMA MeantLater ==
    ASSUME NEW c \in Clients, NEW n \in Nat, NEW m \in Nat, n <= m,
           NEW q \in Seq(Meant(c, n))
    PROVE  q \in Seq(Meant(c, m))
<1>1. \A f \in Frames : f.conn \in Nat
  BY Constants DEF Frames, FramesOf
<1>2. Meant(c, n) \subseteq Meant(c, m)
  BY <1>1 DEF Meant
<1>3. QED
  BY <1>2, SeqMonotonic

LEMMA InitTInv == Init => TInv
<1> SUFFICES ASSUME Init PROVE TInv
  OBVIOUS
<1>1. \A S : <<>> \in Seq(S)
  BY EmptySeq
<1>2. owner \in [Ports -> Clients]
  BY TunnelConstants DEF Init
<1>3. Down \in ClientType
  BY <1>1 DEF Down, ClientType
<1>4. Types
  BY <1>1, <1>2, <1>3, Constants DEF Init, Types
<1>5. \A c \in Clients : ClientInv(c)
  <2> TAKE c \in Clients
  <2>1. client[c] = Down /\ tap[c] = <<>>
    BY DEF Init
  <2>2. /\ Down.state = "down" /\ Down.port = NoPort /\ Down.queue = <<>> /\ Down.conn = 0
    BY DEF Down
  <2>3. <<>> \in Seq(Meant(c, 0)) /\ <<>> \in Seq(Entries(c)) /\ 0 \in 0 .. MaxConns[c]
    BY EmptySeq, Constants
  <2>4. QED
    BY <2>1, <2>2, <2>3 DEF ClientInv
<1>6. \A p \in Ports : PortInv(p)
  BY <1>1 DEF Init, PortInv
<1>7. QED
  BY <1>4, <1>5, <1>6 DEF TInv

\* One client moves on by itself: its port stays or is given up, and what it has
\* left is meant for it.
LEMMA ClientMoves ==
    ASSUME TInv, NEW c \in Clients, NEW r \in ClientType,
           client' = [client EXCEPT ![c] = r],
           r.conn = client[c].conn, r.port \in {client[c].port, NoPort},
           r.queue \in Seq(Meant(c, r.conn)),
           r.state = "down" => r.port = NoPort,
           r.state # "down" => client[c].state # "down",
           r.state \in {"answered", "open"} =>
             client[c].state \in {"answered", "open"} \/ r.port = NoPort
                \/ (r.port \in Ports /\ known[r.port] # {}),
           UNCHANGED <<svars, owner, up>>,
           tap' \in [Clients -> Seq([frame : Frames, conn : Conns])],
           \A d \in Clients : tap'[d] \in Seq(Entries(d)),
           sends' \in 0 .. MaxSends
    PROVE  TInv'
<1>1. Types'
  BY DEF TInv, Types, svars
<1>2. /\ client'[c] = r /\ \A d \in Clients : d # c => client'[d] = client[d]
  BY DEF TInv, Types
<1>3. ASSUME NEW d \in Clients PROVE ClientInv(d)'
  <2>1. CASE d = c
    <3>1. client'[d] = r /\ ClientInv(c)
      BY <1>2, <2>1 DEF TInv
    <3>2. tap'[d] \in Seq(Entries(d)')
      BY <1>3 DEF Entries, Meant
    <3>3. Meant(d, client[d].conn)' = Meant(c, r.conn)
      BY <2>1, <3>1 DEF Meant
    <3>4. client'[d].queue \in Seq(Meant(d, client[d].conn)')
      BY <3>1, <3>3
    <3>5. plugged' = plugged /\ known' = known /\ owner' = owner
      BY DEF svars
    <3>6. r.port # NoPort =>
            /\ r.port \in plugged /\ owner[r.port] = c /\ r.port \in Ports
            /\ r.state \in {"answered", "open"} => known[r.port] # {}
      BY <3>1 DEF ClientInv, TInv, Types
    <3>7. r.conn \in 0 .. MaxConns[c] /\ (r.state # "down" => r.conn > 0)
      BY <3>1 DEF ClientInv
    <3>8. QED
      BY <2>1, <3>1, <3>2, <3>4, <3>5, <3>6, <3>7 DEF ClientInv
  <2>2. CASE d # c
    <3>1. client'[d] = client[d] /\ ClientInv(d)
      BY <1>2, <1>3, <2>2 DEF TInv
    <3>2. tap'[d] \in Seq(Entries(d)')
      BY <1>3 DEF Entries, Meant
    <3>3. QED
      <4>1. Meant(d, client[d].conn)' = Meant(d, client[d].conn)
        BY <3>1 DEF Meant
      <4>2. client'[d].queue \in Seq(Meant(d, client[d].conn)')
        BY <3>1, <4>1 DEF ClientInv
      <4>3. plugged' = plugged /\ known' = known /\ owner' = owner
        BY DEF svars
      <4>4. QED
        BY <3>1, <3>2, <4>2, <4>3 DEF ClientInv
  <2>3. QED
    BY <2>1, <2>2
<1>4. ASSUME NEW p \in Ports PROVE PortInv(p)'
  <2>1. Sent(p) \subseteq Sent(p)'
    BY <1>2 DEF Sent, TInv, Types
  <2>2. up[p] \in Seq(Sent(p)')
    BY <2>1, SeqMonotonic DEF TInv, PortInv
  <2>3. QED
    BY <2>2 DEF TInv, PortInv, svars
<1>5. QED
  BY <1>1, <1>3, <1>4 DEF TInv

LEMMA ClientTyped ==
    ASSUME TInv, NEW c \in Clients
    PROVE  /\ client[c] \in ClientType /\ ClientInv(c)
           /\ client[c].queue \in Seq(Frames) /\ client[c].conn \in Nat
           /\ tap \in [Clients -> Seq([frame : Frames, conn : Conns])]
           /\ (\A d \in Clients : tap[d] \in Seq(Entries(d)))
           /\ sends \in 0 .. MaxSends
<1>1. client[c].conn \in 0 .. MaxConns[c] /\ MaxConns[c] \in Nat
  BY Constants DEF TInv, ClientInv
<1>2. client[c] \in ClientType /\ ClientInv(c)
  BY DEF TInv, Types
<1>3. client[c].queue \in Seq(Frames)
  BY <1>2 DEF ClientType
<1>4. /\ tap \in [Clients -> Seq([frame : Frames, conn : Conns])]
      /\ sends \in 0 .. MaxSends
  BY DEF TInv, Types
<1>5. \A d \in Clients : tap[d] \in Seq(Entries(d))
  BY DEF TInv, ClientInv
<1>6. client[c].conn \in Nat
  BY <1>1
<1>7. QED
  BY <1>2, <1>3, <1>4, <1>5, <1>6

LEMMA GiveUpTInv == ASSUME TInv, NEW c \in Clients, GiveUp(c) PROVE TInv'
<1> DEFINE r == [Down EXCEPT !.conn = client[c].conn]
<1>1. /\ r \in ClientType /\ r.conn = client[c].conn /\ r.port = NoPort
      /\ r.state = "down" /\ r.queue = <<>>
  BY ClientTyped, EmptySeq DEF Down, ClientType
<1>2. client' = [client EXCEPT ![c] = r] /\ UNCHANGED <<svars, owner, up, tap, sends>>
  BY DEF GiveUp, GaveUp
<1>3. <<>> \in Seq(Meant(c, r.conn))
  BY EmptySeq
<1> HIDE DEF r
<1>4. QED
  BY <1>1, <1>2, <1>3, ClientTyped, ClientMoves

LEMMA UpgradeTInv == ASSUME TInv, NEW c \in Clients, Upgrade(c) PROVE TInv'
<1>1. PICK k \in 0 .. Len(client[c].queue) : \E cut \in {FALSE, k > 0} :
        client' = [client EXCEPT ![c].state = "open", ![c].torn = cut,
                                 ![c].queue = From(@, k + 1)]
  BY DEF Upgrade
<1> PICK cut \in {FALSE, k > 0} :
        client' = [client EXCEPT ![c].state = "open", ![c].torn = cut,
                                 ![c].queue = From(@, k + 1)]
  BY <1>1
<1>0. cut \in BOOLEAN
  <2>1. (k > 0) \in BOOLEAN
    OBVIOUS
  <2>2. QED
    BY <2>1, Zenon
<1> DEFINE q == From(client[c].queue, k + 1)
           r == [client[c] EXCEPT !.state = "open", !.torn = cut, !.queue = q]
<1>2. q \in Seq(Frames) /\ q \in Seq(Meant(c, client[c].conn))
  <2>1. k + 1 \in Nat /\ k + 1 > 0
    BY ClientTyped, LenProperties
  <2>2. client[c].queue \in Seq(Frames) /\ client[c].queue \in Seq(Meant(c, client[c].conn))
    BY ClientTyped DEF ClientInv
  <2>3. QED
    BY <2>1, <2>2, FromTyped
<1> HIDE DEF q
<1>3. /\ r \in ClientType /\ r.conn = client[c].conn /\ r.port = client[c].port
      /\ r.state = "open" /\ r.queue = q
  BY <1>0, <1>2, ClientTyped DEF ClientType
<1>4. client' = [client EXCEPT ![c] = r]
  BY <1>1, ClientTyped DEF TInv, Types, q
<1>5. client[c].state = "answered" /\ UNCHANGED <<svars, owner, up, tap, sends>>
  BY DEF Upgrade
<1> HIDE DEF r
<1>6. QED
  BY <1>2, <1>3, <1>4, <1>5, ClientTyped, ClientMoves

LEMMA SwallowTInv == ASSUME TInv, NEW c \in Clients, Swallow(c) PROVE TInv'
<1>1. PICK k \in 1 .. Len(client[c].queue) :
        client' = [client EXCEPT ![c].queue = From(@, k + 1)]
  BY DEF Swallow
<1> DEFINE q == From(client[c].queue, k + 1)
           r == [client[c] EXCEPT !.queue = q]
<1>2. q \in Seq(Frames) /\ q \in Seq(Meant(c, client[c].conn))
  <2>1. k + 1 \in Nat /\ k + 1 > 0
    BY ClientTyped, LenProperties
  <2>2. client[c].queue \in Seq(Frames) /\ client[c].queue \in Seq(Meant(c, client[c].conn))
    BY ClientTyped DEF ClientInv
  <2>3. QED
    BY <2>1, <2>2, FromTyped
<1> HIDE DEF q
<1>3. /\ r \in ClientType /\ r.conn = client[c].conn /\ r.port = client[c].port
      /\ r.state = client[c].state /\ r.queue = q
  BY <1>2, ClientTyped DEF ClientType
<1>4. client' = [client EXCEPT ![c] = r]
  BY <1>1, ClientTyped DEF TInv, Types, q
<1>5. UNCHANGED <<svars, owner, up, tap, sends>>
  BY DEF Swallow
<1> HIDE DEF r
<1>6. QED
  BY <1>2, <1>3, <1>4, <1>5, ClientTyped, ClientMoves DEF ClientInv

\* What is handled was meant for this connection.
LEMMA HandleTInv == ASSUME TInv, NEW c \in Clients, Handle(c) PROVE TInv'
<1> DEFINE f == Head(client[c].queue)
           e == [frame |-> f, conn |-> client[c].conn]
           q == Tail(client[c].queue)
           r == [client[c] EXCEPT !.queue = q]
<1>1. /\ client[c].state = "open" /\ client[c].queue # <<>>
      /\ tap' = [tap EXCEPT ![c] = Append(@, e)]
      /\ client' = [client EXCEPT ![c].queue = q]
      /\ UNCHANGED <<svars, owner, up, sends>>
  BY DEF Handle
<1>2. /\ q \in Seq(Frames) /\ q \in Seq(Meant(c, client[c].conn))
      /\ f \in Frames /\ f \in Meant(c, client[c].conn)
  BY <1>1, ClientTyped, HeadTailProperties DEF ClientInv
<1>3. client[c].conn \in Conns
  <2>1. client[c].conn \in 0 .. MaxConns[c] /\ client[c].conn > 0
    BY <1>1, ClientTyped DEF ClientInv
  <2>2. QED
    BY <2>1, Constants
<1> HIDE DEF q, f
<1>4. e \in [frame : Frames, conn : Conns] /\ e \in Entries(c)
  BY <1>2, <1>3 DEF Entries
<1>5. /\ r \in ClientType /\ r.conn = client[c].conn /\ r.port = client[c].port
      /\ r.state = client[c].state /\ r.queue = q
  BY <1>2, ClientTyped DEF ClientType
<1>6. client' = [client EXCEPT ![c] = r]
  BY <1>1, ClientTyped DEF TInv, Types
<1> HIDE DEF r, e
<1>7. /\ tap' \in [Clients -> Seq([frame : Frames, conn : Conns])]
      /\ \A d \in Clients : tap'[d] \in Seq(Entries(d))
  BY <1>1, <1>4, ClientTyped, AppendProperties
<1>8. QED
  BY <1>1, <1>2, <1>5, <1>6, <1>7, ClientTyped, ClientMoves DEF ClientInv

-----------------------------------------------------------------------------
(* Steps that change a connection *)

\* A new connection: nothing is left of whoever had the port before.
LEMMA ConnectTInv == ASSUME TInv, NEW c \in Clients, Connect(c) PROVE TInv'
<1>1. PICK p \in Ports \ plugged :
        /\ Plug(p) /\ owner' = [owner EXCEPT ![p] = c]
        /\ client' = [client EXCEPT ![c].state = "asked", ![c].port = p, ![c].conn = @ + 1]
  BY DEF Connect
<1> DEFINE n == client[c].conn + 1
           r == [client[c] EXCEPT !.state = "asked", !.port = p, !.conn = n]
<1>2. /\ client[c].state = "down" /\ client[c].conn < MaxConns[c]
      /\ plugged' = plugged \cup {p} /\ UNCHANGED <<known, bridges, out, up, tap, sends>>
  BY <1>1 DEF Connect, Plug
<1>3. n \in 1 .. MaxConns[c] /\ n \in Nat /\ client[c].conn \in Nat /\ client[c].conn < n
  BY <1>2, ClientTyped, Constants
<1>4. n \in Conns
  BY <1>3, Constants
<1> HIDE DEF n
<1>5. /\ r \in ClientType /\ r.conn = n /\ r.port = p
      /\ r.state = "asked" /\ r.queue = client[c].queue
  BY <1>4, ClientTyped DEF ClientType
<1>6. client'[c] = r /\ \A d \in Clients : d # c => client'[d] = client[d]
  BY <1>1 DEF n, TInv, Types
<1>7. owner'[p] = c /\ \A q \in Ports : q # p => owner'[q] = owner[q]
  BY <1>1 DEF TInv, Types
<1> HIDE DEF r
<1>8. Types'
  <2>1. client' \in [Clients -> ClientType]
    <3>1. \A d \in Clients : client'[d] \in ClientType
      BY <1>5, <1>6, ClientTyped
    <3>2. client' = [client EXCEPT ![c] = r]
      BY <1>1 DEF n, r, TInv, Types
    <3>3. QED
      BY <1>5, <3>2 DEF TInv, Types
  <2>2. owner' \in [Ports -> Clients]
    BY <1>1 DEF TInv, Types
  <2>3. QED
    BY <1>1, <1>2, <2>1, <2>2 DEF TInv, Types
<1>9. ASSUME NEW d \in Clients PROVE ClientInv(d)'
  <2>1. tap'[d] \in Seq(Entries(d)')
    BY <1>2, ClientTyped DEF Entries, Meant
  <2>2. CASE d = c
    <3>1. client[c].queue \in Seq(Meant(c, n))
      BY <1>3, ClientTyped, MeantLater DEF ClientInv
    <3>2. Meant(d, client[d].conn)' = Meant(c, n)
      BY <1>5, <1>6, <2>2 DEF Meant
    <3>3. client'[d].queue \in Seq(Meant(d, client[d].conn)')
      BY <1>5, <1>6, <2>2, <3>1, <3>2
    <3>4. client'[d].port = p /\ p \in plugged' /\ owner'[p] = d /\ client'[d].state = "asked"
      BY <1>2, <1>5, <1>6, <1>7, <2>2
    <3>5. client'[d].conn \in 0 .. MaxConns[d] /\ client'[d].conn > 0
      BY <1>3, <1>5, <1>6, <2>2
    <3>6. QED
      BY <2>1, <3>3, <3>4, <3>5 DEF ClientInv
  <2>3. CASE d # c
    <3>1. client'[d] = client[d] /\ ClientInv(d)
      BY <1>6, <2>3 DEF TInv
    <3>2. Meant(d, client[d].conn)' = Meant(d, client[d].conn)
      BY <3>1 DEF Meant
    <3>3. client'[d].queue \in Seq(Meant(d, client[d].conn)')
      BY <3>1, <3>2 DEF ClientInv
    <3>4. client[d].port # NoPort =>
            /\ client[d].port \in plugged' /\ owner'[client[d].port] = d
            /\ client[d].state \in {"answered", "open"} => known[client[d].port] # {}
      BY <1>1, <1>2, <1>7, <3>1 DEF ClientInv, TInv, Types
    <3>5. QED
      BY <1>2, <2>1, <3>1, <3>3, <3>4 DEF ClientInv
  <2>4. QED
    BY <2>2, <2>3
<1>10. ASSUME NEW q \in Ports PROVE PortInv(q)'
  <2>1. PortInv(q) /\ PortInv(p)
    BY <1>1, <1>10 DEF TInv
  <2>2. CASE q = p
    <3>1. up'[q] = <<>> /\ known'[q] = {} /\ q \notin bridges' /\ q \in plugged'
      BY <1>1, <1>2, <2>1, <2>2 DEF PortInv, TInv, Types
    <3>2. <<>> \in Seq(Sent(q)')
      BY EmptySeq
    <3>3. QED
      BY <3>1, <3>2 DEF PortInv
  <2>3. CASE q # p
    <3>1. owner'[q] = owner[q] /\ owner[q] \in Clients
      BY <1>7, <1>10, <2>3 DEF TInv, Types
    <3>2. ASSUME NEW f \in Sent(q) PROVE f \in Sent(q)'
      <4>1. /\ f \in Frames /\ f.from = owner[q] /\ f.conn <= client[owner[q]].conn
            /\ f.conn = client[owner[q]].conn => client[owner[q]].port \in {q, NoPort}
        BY <3>2 DEF Sent
      <4>2. CASE owner[q] = c
        <5>1. f.conn \in Nat
          BY <4>1, Constants DEF Frames, FramesOf
        <5>2. client'[owner[q]].conn = n
          BY <1>5, <1>6, <4>2
        <5>3. f.conn <= n /\ f.conn # n
          BY <1>3, <4>1, <4>2, <5>1
        <5>4. QED
          BY <3>1, <4>1, <5>2, <5>3 DEF Sent
      <4>3. CASE owner[q] # c
        BY <1>6, <3>1, <4>1, <4>3 DEF Sent
      <4>4. QED
        BY <4>2, <4>3
    <3>3. up[q] \in Seq(Sent(q)')
      <4>1. Sent(q) \subseteq Sent(q)'
        BY <3>2
      <4>2. QED
        BY <2>1, <4>1, SeqMonotonic DEF PortInv
    <3>4. QED
      BY <1>2, <2>1, <2>3, <3>1, <3>3 DEF PortInv
  <2>4. QED
    BY <2>2, <2>3
<1>11. QED
  BY <1>8, <1>9, <1>10 DEF TInv

\* A frame from the tap device is the present connection's.
LEMMA SendFrameTInv ==
    ASSUME TInv, NEW c \in Clients, NEW src \in Hosts[c], NEW dst \in Destinations[c],
           SendFrame(c, src, dst)
    PROVE  TInv'
<1> DEFINE f == [src |-> src, dst |-> dst, id |-> sends + 1, from |-> c, conn |-> client[c].conn]
           p == client[c].port
<1>1. /\ client[c].state = "open" /\ sends < MaxSends /\ sends' = sends + 1
      /\ up' = IF p = NoPort THEN up ELSE [up EXCEPT ![p] = Append(@, f)]
      /\ UNCHANGED <<svars, client, owner, tap>>
  BY DEF SendFrame
<1>2. sends' \in 0 .. MaxSends /\ sends + 1 \in 1 .. MaxSends
  BY <1>1, Constants, ClientTyped
<1>3. client[c].conn \in 1 .. MaxConns[c]
  BY <1>1, ClientTyped DEF ClientInv
<1>4. f \in Frames
  <2>1. f \in FramesOf(c)
    BY <1>2, <1>3 DEF FramesOf
  <2>2. QED
    BY <2>1 DEF Frames
<1>5. f.from = c /\ f.conn = client[c].conn
  OBVIOUS
<1> HIDE DEF f
<1>6. CASE p = NoPort
  <2>1. up' = up
    BY <1>1, <1>6
  <2>2. client' = [client EXCEPT ![c] = client[c]]
    BY <1>1 DEF TInv, Types
  <2>3. QED
    BY <1>1, <1>2, <2>1, <2>2, ClientTyped, ClientMoves DEF ClientInv
<1>7. CASE p # NoPort
  <2>1. p \in plugged /\ p \in Ports /\ owner[p] = c /\ known[p] # {}
    BY <1>1, <1>7, ClientTyped DEF ClientInv, TInv, Types
  <2>2. f \in Sent(p)
    BY <1>4, <1>5, <2>1, ClientTyped DEF Sent
  <2> DEFINE u == Append(up[p], f)
  <2>3. u \in Seq(Sent(p)) /\ u \in Seq(Frames)
    <3>1. up[p] \in Seq(Sent(p)) /\ up[p] \in Seq(Frames)
      BY <2>1 DEF TInv, PortInv, Types
    <3>2. QED
      BY <1>4, <2>2, <3>1, AppendProperties
  <2>4. up' = [up EXCEPT ![p] = u]
    BY <1>1, <1>7
  <2> HIDE DEF u, p
  <2>5. Types'
    BY <1>1, <1>2, <2>1, <2>3, <2>4 DEF TInv, Types, svars
  <2>6. ASSUME NEW d \in Clients PROVE ClientInv(d)'
    BY <1>1, <2>6 DEF TInv, ClientInv, svars, Entries, Meant
  <2>7. ASSUME NEW q \in Ports PROVE PortInv(q)'
    <3>1. PortInv(q) /\ Sent(q)' = Sent(q)
      BY <1>1, <2>7 DEF TInv, Sent
    <3>2. CASE q = p
      <4>1. up'[q] = u
        BY <2>1, <2>4, <3>2 DEF TInv, Types
      <4>2. QED
        BY <1>1, <2>1, <2>3, <3>1, <3>2, <4>1 DEF PortInv, svars
    <3>3. CASE q # p
      <4>1. up'[q] = up[q]
        BY <2>4, <3>3 DEF TInv, Types
      <4>2. QED
        BY <1>1, <3>1, <4>1 DEF PortInv, svars
    <3>4. QED
      BY <3>2, <3>3
  <2>8. QED
    BY <2>5, <2>6, <2>7 DEF TInv
<1>8. QED
  BY <1>6, <1>7

-----------------------------------------------------------------------------
(* Steps of the server *)

\* A step of the server: ports may go, with what they had to read; the others
\* read a frame or none, and learn an address only if they are bridges or have
\* none yet; each client keeps its connection or loses it.
LEMMA ServerMoves ==
    ASSUME TInv, plugged' \subseteq plugged, bridges' \subseteq plugged',
           known' \in [Ports -> SUBSET Macs], out' \in [Ports -> Seq(Frames)],
           \A q \in plugged' : known[q] # {} => known'[q] # {},
           \A q \in Ports \ plugged' : known'[q] = {},
           \A q \in plugged' : owner[q] \notin BridgeClients =>
               q \notin bridges' /\ known'[q] \subseteq {Address[owner[q]]},
           up' \in [Ports -> Seq(Frames)],
           \A q \in plugged' : up'[q] = up[q] \/ (up[q] # <<>> /\ up'[q] = Tail(up[q])),
           \A q \in Ports \ plugged' : up'[q] = <<>>,
           client' \in [Clients -> ClientType],
           \A c \in Clients :
             /\ client'[c].conn = client[c].conn
             /\ client'[c].state = client[c].state
                  \/ /\ client'[c].state = "answered" /\ client[c].state # "down"
                     /\ client'[c].port # NoPort => known'[client'[c].port] # {}
             /\ client'[c].port = NoPort \/
                  (client'[c].port = client[c].port /\ client[c].port \in plugged')
             /\ client'[c].queue \in Seq(Meant(c, client[c].conn)),
           UNCHANGED <<owner, tap, sends>>
    PROVE  TInv'
<1>1. Types'
  BY DEF TInv, Types
<1>2. ASSUME NEW c \in Clients PROVE ClientInv(c)'
  <2>1. ClientInv(c)
    BY <1>2 DEF TInv
  <2>2. tap'[c] \in Seq(Entries(c)')
    BY <1>2, <2>1 DEF ClientInv, Entries, Meant
  <2>3. Meant(c, client[c].conn)' = Meant(c, client[c].conn)
    BY <1>2 DEF Meant
  <2>4. client'[c].queue \in Seq(Meant(c, client[c].conn)')
    BY <1>2, <2>3
  <2>5. client'[c].port # NoPort =>
          /\ client'[c].port \in plugged' /\ owner'[client'[c].port] = c
          /\ client'[c].state \in {"answered", "open"} => known'[client'[c].port] # {}
    BY <1>2, <2>1 DEF ClientInv
  <2>6. /\ client'[c].conn \in 0 .. MaxConns[c]
        /\ client'[c].state = "down" => client'[c].port = NoPort
        /\ client'[c].state # "down" => client'[c].conn > 0
    BY <1>2, <2>1 DEF ClientInv
  <2>7. QED
    BY <2>2, <2>4, <2>5, <2>6 DEF ClientInv
<1>3. ASSUME NEW q \in Ports PROVE PortInv(q)'
  <2>1. PortInv(q) /\ owner[q] \in Clients
    BY <1>3 DEF TInv, Types
  <2>2. Sent(q) \subseteq Sent(q)'
    BY <2>1 DEF Sent
  <2>3. CASE q \notin plugged'
    <3>1. up'[q] = <<>> /\ known'[q] = {} /\ q \notin bridges'
      BY <1>3, <2>3
    <3>2. <<>> \in Seq(Sent(q)')
      BY EmptySeq
    <3>3. QED
      BY <3>1, <3>2 DEF PortInv
  <2>4. CASE q \in plugged'
    <3>1. up[q] \in Seq(Sent(q)')
      BY <2>1, <2>2, SeqMonotonic DEF PortInv
    <3>2. up'[q] \in Seq(Sent(q)')
      <4>1. up[q] # <<>> => Tail(up[q]) \in Seq(Sent(q)')
        BY <3>1, HeadTailProperties
      <4>2. QED
        BY <2>4, <3>1, <4>1
    <3>3. up'[q] # <<>> => known'[q] # {}
      BY <2>1, <2>4 DEF PortInv
    <3>4. QED
      BY <2>4, <3>2, <3>3 DEF PortInv
  <2>5. QED
    BY <2>3, <2>4
<1>4. QED
  BY <1>1, <1>2, <1>3 DEF TInv

\* The address of a port is its owner's.
LEMMA AnnounceTInv == ASSUME TInv, NEW p \in Ports, ServerAnnounces(p) PROVE TInv'
<1> DEFINE c == owner[p]
<1>1. /\ p \in plugged /\ known[p] = {} /\ known' = [known EXCEPT ![p] = {Address[c]}]
      /\ bridges' = IF c \in BridgeClients THEN bridges \cup {p} ELSE bridges
      /\ client' = IF Attached(p) THEN [client EXCEPT ![c].state = "answered"] ELSE client
      /\ UNCHANGED <<plugged, out, owner, up, tap, sends>>
  BY DEF ServerAnnounces, Announce
<1>2. c \in Clients /\ Address[c] \in Macs
  BY Constants DEF TInv, Types
<1>3. known'[p] = {Address[c]} /\ \A q \in Ports : q # p => known'[q] = known[q]
  BY <1>1 DEF TInv, Types
<1>4. known' \in [Ports -> SUBSET Macs]
  BY <1>1, <1>2 DEF TInv, Types
<1>5. plugged' \subseteq plugged /\ bridges' \subseteq plugged' /\ plugged \subseteq Ports
  BY <1>1 DEF TInv, Types
<1>6. /\ \A q \in plugged' : known[q] # {} => known'[q] # {}
      /\ \A q \in Ports \ plugged' : known'[q] = {} /\ up'[q] = <<>>
  BY <1>1, <1>3 DEF TInv, PortInv
<1>7. \A q \in plugged' : owner[q] \notin BridgeClients =>
        q \notin bridges' /\ known'[q] \subseteq {Address[owner[q]]}
  <2> TAKE q \in plugged'
  <2>1. PortInv(q) /\ q \in Ports
    BY <1>1, <1>5 DEF TInv
  <2>2. CASE q = p
    BY <1>1, <1>3, <2>1, <2>2 DEF PortInv
  <2>3. CASE q # p
    BY <1>1, <1>3, <2>1, <2>3 DEF PortInv
  <2>4. QED
    BY <2>2, <2>3
<1>8. \A d \in Clients :
        /\ client'[d] \in ClientType
        /\ client'[d].conn = client[d].conn /\ client'[d].queue = client[d].queue
        /\ client'[d].port = client[d].port
        /\ client'[d].state = client[d].state
             \/ /\ client'[d].state = "answered" /\ client[d].port = p
  <2> TAKE d \in Clients
  <2>1. client[d] \in ClientType
    BY DEF TInv, Types
  <2>2. CASE Attached(p) /\ d = c
    <3>1. client'[d] = [client[d] EXCEPT !.state = "answered"] /\ client[d].port = p
      BY <1>1, <1>2, <2>2 DEF TInv, Types, Attached
    <3>2. QED
      BY <2>1, <3>1 DEF ClientType
  <2>3. CASE ~(Attached(p) /\ d = c)
    <3>1. client'[d] = client[d]
      BY <1>1, <2>3 DEF TInv, Types
    <3>2. QED
      BY <2>1, <3>1
  <2>4. QED
    BY <2>2, <2>3
<1>9. client' \in [Clients -> ClientType]
  BY <1>1, <1>8 DEF TInv, Types
<1> HIDE DEF c
<1>10. \A d \in Clients :
             /\ client'[d].conn = client[d].conn
             /\ client'[d].state = client[d].state
                  \/ /\ client'[d].state = "answered" /\ client[d].state # "down"
                     /\ client'[d].port # NoPort => known'[client'[d].port] # {}
             /\ client'[d].port = NoPort \/
                  (client'[d].port = client[d].port /\ client[d].port \in plugged')
             /\ client'[d].queue \in Seq(Meant(d, client[d].conn))
  <2> TAKE d \in Clients
  <2>1. ClientInv(d) /\ p # NoPort
    BY TunnelConstants DEF TInv
  <2>2. client[d].port = NoPort \/ client[d].port \in plugged'
    BY <1>1, <2>1 DEF ClientInv
  <2>3. client[d].queue \in Seq(Meant(d, client[d].conn))
    BY <2>1 DEF ClientInv
  <2>4. client[d].port = p => client[d].state # "down" /\ known'[p] # {}
    BY <1>3, <2>1 DEF ClientInv
  <2>5. QED
    BY <1>8, <2>2, <2>3, <2>4
<1>11. /\ up' \in [Ports -> Seq(Frames)] /\ out' \in [Ports -> Seq(Frames)]
       /\ \A q \in plugged' : up'[q] = up[q]
       /\ UNCHANGED <<owner, tap, sends>>
  BY <1>1 DEF TInv, Types
<1>12. QED
  BY <1>4, <1>5, <1>6, <1>7, <1>9, <1>10, <1>11, ServerMoves

\* What Reached leaves of a client, when some ports were given the frame f.
LEMMA ReachedClients ==
    ASSUME TInv, plugged' \subseteq plugged, NEW to, NEW f, to # {} => f \in Frames,
           \A q \in plugged' : out'[q] = IF q \in to THEN Append(out[q], f) ELSE out[q],
           \A c \in Clients : client[c].port \in to \cap plugged' =>
               f \in Meant(c, client[c].conn),
           client' = Reached
    PROVE  /\ client' \in [Clients -> ClientType]
           /\ \A c \in Clients :
                /\ client'[c].conn = client[c].conn /\ client'[c].state = client[c].state
                /\ client'[c].port = NoPort \/
                     (client'[c].port = client[c].port /\ client[c].port \in plugged')
                /\ client'[c].queue \in Seq(Meant(c, client[c].conn))
<1>1. ASSUME NEW c \in Clients
      PROVE  /\ client'[c] \in ClientType
             /\ client'[c].conn = client[c].conn /\ client'[c].state = client[c].state
             /\ client'[c].port = NoPort \/
                  (client'[c].port = client[c].port /\ client[c].port \in plugged')
             /\ client'[c].queue \in Seq(Meant(c, client[c].conn))
  <2> DEFINE p == client[c].port
             M == Meant(c, client[c].conn)
             new == From(out'[p], Len(out[p]) + 1)
             q == client[c].queue \o new
  <2>1. /\ client'[c] = IF p = NoPort THEN client[c]
                        ELSE IF p \notin plugged' THEN [client[c] EXCEPT !.port = NoPort]
                        ELSE [client[c] EXCEPT !.queue = q]
        /\ client[c] \in ClientType /\ client[c].queue \in Seq(M)
        /\ client[c].queue \in Seq(Frames)
    BY <1>1, ClientTyped DEF Reached, ClientInv
  <2>2. CASE p = NoPort
    BY <2>1, <2>2
  <2>3. CASE p # NoPort /\ p \notin plugged'
    BY <2>1, <2>3 DEF ClientType
  <2>4. CASE p # NoPort /\ p \in plugged'
    <3>1. out[p] \in Seq(Frames)
      BY <2>4 DEF TInv, Types
    <3>2. new \in Seq(M) /\ new \in Seq(Frames)
      <4>1. CASE p \in to
        <5>1. f \in M /\ f \in Frames
          BY <1>1, <2>4, <4>1
        <5>2. out'[p] = Append(out[p], f)
          BY <2>4, <4>1
        <5>3. new = <<f>>
          BY <3>1, <5>1, <5>2, OneNew
        <5> HIDE DEF M, new
        <5>4. QED
          BY <5>1, <5>3
      <4>2. CASE p \notin to
        <5>1. out'[p] = out[p]
          BY <2>4, <4>2
        <5>2. new = <<>>
          BY <3>1, <5>1, NothingNew
        <5>3. QED
          BY <5>2, EmptySeq
      <4>3. QED
        BY <4>1, <4>2
    <3> HIDE DEF new, M
    <3>3. q \in Seq(M) /\ q \in Seq(Frames)
      BY <2>1, <3>2, ConcatProperties
    <3> HIDE DEF q
    <3>4. client'[c] = [client[c] EXCEPT !.queue = q]
      BY <2>1, <2>4
    <3>5. /\ client'[c] \in ClientType /\ client'[c].queue = q
          /\ client'[c].conn = client[c].conn /\ client'[c].state = client[c].state
          /\ client'[c].port = p
      BY <2>1, <3>3, <3>4 DEF ClientType
    <3>6. QED
      BY <2>4, <3>3, <3>5 DEF M
  <2>5. QED
    BY <2>2, <2>3, <2>4
<1>2. client' \in [Clients -> ClientType]
  BY <1>1 DEF Reached
<1>3. QED
  BY <1>1, <1>2

\* A port is unplugged, and what it had to read is gone.
LEMMA UnplugsTInv == ASSUME TInv, NEW p \in Ports, p \in plugged, Unplugs(p) PROVE TInv'
<1>1. /\ plugged' = plugged \ {p} /\ bridges' = bridges \ {p}
      /\ known' = [q \in Ports |-> IF q \in {p} THEN {} ELSE known[q]]
      /\ out' = [q \in Ports |-> IF q \in {p} THEN <<>> ELSE out[q]]
      /\ client' = Reached /\ up' = [q \in Ports |-> IF q \in plugged' THEN up[q] ELSE <<>>]
      /\ UNCHANGED <<owner, tap, sends>>
  BY DEF Unplugs, Unplug, Unplugged, Unread
<1>2. /\ plugged \subseteq Ports /\ bridges \subseteq plugged
      /\ known \in [Ports -> SUBSET Macs] /\ out \in [Ports -> Seq(Frames)]
      /\ up \in [Ports -> Seq(Frames)]
  BY DEF TInv, Types
<1>3. plugged' \subseteq plugged /\ bridges' \subseteq plugged'
  BY <1>1, <1>2
<1>4. \A q \in plugged' : known'[q] = known[q] /\ out'[q] = out[q] /\ up'[q] = up[q]
  BY <1>1, <1>2
<1>5. known' \in [Ports -> SUBSET Macs] /\ \A q \in Ports \ plugged' : known'[q] = {}
  BY <1>1, <1>2 DEF TInv, PortInv
<1>6. <<>> \in Seq(Frames)
  BY EmptySeq
<1>7. /\ out' \in [Ports -> Seq(Frames)] /\ up' \in [Ports -> Seq(Frames)]
      /\ \A q \in Ports \ plugged' : up'[q] = <<>>
  BY <1>1, <1>2, <1>6
<1>8. \A q \in plugged' : owner[q] \notin BridgeClients =>
        q \notin bridges' /\ known'[q] \subseteq {Address[owner[q]]}
  BY <1>1, <1>2, <1>4 DEF TInv, PortInv
<1>9. /\ client' \in [Clients -> ClientType]
      /\ \A c \in Clients :
           /\ client'[c].conn = client[c].conn /\ client'[c].state = client[c].state
           /\ client'[c].port = NoPort \/
                (client'[c].port = client[c].port /\ client[c].port \in plugged')
           /\ client'[c].queue \in Seq(Meant(c, client[c].conn))
  <2> DEFINE to == {}
  <2>1. \A q \in plugged' : out'[q] = IF q \in to THEN Append(out[q], p) ELSE out[q]
    BY <1>4
  <2>2. /\ to # {} => p \in Frames
        /\ \A c \in Clients : client[c].port \in to \cap plugged' =>
             p \in Meant(c, client[c].conn)
    OBVIOUS
  <2>3. client' = Reached
    BY <1>1
  <2> HIDE DEF to
  <2>4. QED
    BY <1>3, <2>1, <2>2, <2>3, ReachedClients
<1>10. QED
  BY <1>1, <1>3, <1>4, <1>5, <1>7, <1>8, <1>9, ServerMoves

\* A frame from another address is read and dropped.
LEMMA IgnoresTInv == ASSUME TInv, NEW p \in Ports, ServerIgnores(p) PROVE TInv'
<1>1. /\ up[p] # <<>> /\ up' = [up EXCEPT ![p] = Tail(@)]
      /\ UNCHANGED <<plugged, known, bridges, out, client, owner, tap, sends>>
  BY DEF ServerIgnores, Read, svars
<1>2. /\ plugged \subseteq Ports /\ bridges \subseteq plugged
      /\ known \in [Ports -> SUBSET Macs] /\ out \in [Ports -> Seq(Frames)]
      /\ up \in [Ports -> Seq(Frames)] /\ client \in [Clients -> ClientType]
  BY DEF TInv, Types
<1>3. Tail(up[p]) \in Seq(Frames)
  BY <1>1, <1>2, HeadTailProperties
<1>4. /\ up' \in [Ports -> Seq(Frames)] /\ up'[p] = Tail(up[p])
      /\ \A q \in Ports : q # p => up'[q] = up[q]
  BY <1>1, <1>2, <1>3
<1>5. /\ \A q \in plugged' : up'[q] = up[q] \/ (up[q] # <<>> /\ up'[q] = Tail(up[q]))
      /\ \A q \in Ports \ plugged' : known'[q] = {} /\ up'[q] = <<>>
  BY <1>1, <1>2, <1>4 DEF TInv, PortInv
<1>6. \A q \in plugged' : owner[q] \notin BridgeClients =>
        q \notin bridges' /\ known'[q] \subseteq {Address[owner[q]]}
  BY <1>1, <1>2 DEF TInv, PortInv
<1>7. \A c \in Clients :
        /\ client'[c] = client[c] /\ client[c].queue \in Seq(Meant(c, client[c].conn))
        /\ client[c].port = NoPort \/ client[c].port \in plugged'
  BY <1>1 DEF TInv, ClientInv
<1>8. QED
  BY <1>1, <1>2, <1>4, <1>5, <1>6, <1>7, ServerMoves

\* Whom the server gives a frame, it is meant for.
LEMMA RelayMeant ==
    ASSUME TInv, NEW p \in Ports, up[p] # <<>>, NEW f, f = Head(up[p]),
           MayUse(p, f.src), NEW to \in Selections(p, f), NEW c \in Clients,
           client[c].port \in to
    PROVE  f \in Meant(c, client[c].conn)
<1> DEFINE q == client[c].port
<1>1. f \in Sent(p) /\ PortInv(p)
  BY HeadTailProperties DEF TInv, PortInv
<1>2. /\ f \in Frames /\ f.from = owner[p] /\ f.conn <= client[owner[p]].conn
      /\ f.conn = client[owner[p]].conn => client[owner[p]].port \in {p, NoPort}
      /\ f.conn \in Nat
  BY <1>1, Constants DEF Sent, Frames, FramesOf
<1>3. to \subseteq plugged /\ plugged \subseteq Ports
  BY DEF Selections, Active, Holders, TInv, Types
<1>4. q \in plugged /\ q \in Ports /\ q # NoPort /\ owner[q] = c /\ PortInv(q)
  BY <1>3, TunnelConstants DEF TInv, ClientInv
<1>5. SUFFICES ASSUME c \notin BridgeClients PROVE f \in Meant(c, client[c].conn)
  BY <1>2 DEF Meant
<1>6. q \notin bridges /\ known[q] \subseteq {Address[c]}
  BY <1>4, <1>5 DEF PortInv
<1>7. f.dst # f.src /\ (IsMulticast(f.dst) \/ IsBroadcast(f.dst) => to = Active \ {p} \/ q \in Holders(f.dst))
  BY <1>6 DEF Selections
<1>8. \/ (IsMulticast(f.dst) \/ IsBroadcast(f.dst)) /\ q # p
      \/ q \in Holders(f.dst)
  BY <1>6 DEF Selections
<1>9. f.dst = Address[c] \/ IsBroadcast(f.dst) \/ IsMulticast(f.dst)
  BY <1>6, <1>8 DEF Holders
<1>10. q # p
  <2> SUFFICES ASSUME q = p PROVE FALSE
    OBVIOUS
  <2>1. f.dst = Address[c]
    BY <1>6, <1>8 DEF Holders
  <2>2. f.src = Address[c]
    BY <1>1, <1>6 DEF MayUse, PortInv
  <2>3. QED
    BY <1>7, <2>1, <2>2
<1>11. f.from = c => f.conn < client[c].conn
  <2>1. client[c].conn \in Nat
    BY ClientTyped
  <2>2. QED
    BY <1>2, <1>4, <1>10, <2>1
<1>12. QED
  BY <1>2, <1>9, <1>11 DEF Meant

LEMMA RelaysTInv == ASSUME TInv, NEW p \in Ports, ServerRelays(p) PROVE TInv'
<1> DEFINE f == Head(up[p])
<1>1. /\ up[p] # <<>> /\ Relay(p, f) /\ client' = Reached
      /\ up' = [q \in Ports |-> IF q \in plugged' THEN Read(p)[q] ELSE <<>>]
      /\ UNCHANGED <<owner, tap, sends>>
  BY DEF ServerRelays, Unread
<1>2. p \in plugged /\ MayUse(p, f.src)
  BY <1>1 DEF Relay
<1> PICK to \in Selections(p, f) : \E dead \in SUBSET to :
        /\ Unplugged(dead)
        /\ known' = [q \in Ports |->
             IF q \in dead THEN {} ELSE IF q = p THEN known[p] \cup {f.src} ELSE known[q]]
        /\ out' = [q \in Ports |->
             IF q \in dead THEN <<>>
             ELSE IF q \in to THEN Append(out[q], f) ELSE out[q]]
  BY <1>1 DEF Relay
<1>3. PICK dead \in SUBSET to :
        /\ Unplugged(dead)
        /\ known' = [q \in Ports |->
             IF q \in dead THEN {} ELSE IF q = p THEN known[p] \cup {f.src} ELSE known[q]]
        /\ out' = [q \in Ports |->
             IF q \in dead THEN <<>>
             ELSE IF q \in to THEN Append(out[q], f) ELSE out[q]]
  OBVIOUS
<1>4. /\ plugged \subseteq Ports /\ bridges \subseteq plugged
      /\ known \in [Ports -> SUBSET Macs] /\ out \in [Ports -> Seq(Frames)]
      /\ up \in [Ports -> Seq(Frames)]
  BY DEF TInv, Types
<1>5. /\ f \in Frames /\ f \in Sent(p) /\ Tail(up[p]) \in Seq(Frames) /\ PortInv(p)
  BY <1>1, <1>4, HeadTailProperties DEF TInv, PortInv
<1>6. f.src \in Macs
  BY <1>5, TunnelConstants DEF Frames, FramesOf, Macs
<1>7. plugged' = plugged \ dead /\ bridges' = bridges \ dead
  BY <1>3 DEF Unplugged
<1>8. plugged' \subseteq plugged /\ bridges' \subseteq plugged'
  BY <1>4, <1>7
<1> HIDE DEF f
<1>9. /\ known' \in [Ports -> SUBSET Macs]
      /\ \A q \in plugged' : known[q] # {} => known'[q] # {}
      /\ \A q \in Ports \ plugged' : known'[q] = {}
  <2>1. known' \in [Ports -> SUBSET Macs]
    BY <1>3, <1>4, <1>6
  <2>2. \A q \in plugged' : known[q] # {} => known'[q] # {}
    BY <1>3, <1>4, <1>7
  <2>3. \A q \in Ports \ plugged' : known'[q] = {}
    <3> TAKE q \in Ports \ plugged'
    <3>1. CASE q \in dead
      BY <1>3, <3>1
    <3>2. CASE q \notin dead
      <4>1. q \notin plugged /\ q # p /\ PortInv(q)
        BY <1>2, <1>7, <3>2 DEF TInv
      <4>2. QED
        BY <1>3, <3>2, <4>1 DEF PortInv
    <3>3. QED
      BY <3>1, <3>2
  <2>4. QED
    BY <2>1, <2>2, <2>3
<1>10. \A q \in plugged' : out'[q] = IF q \in to THEN Append(out[q], f) ELSE out[q]
  BY <1>3, <1>4, <1>7
<1>11. out' \in [Ports -> Seq(Frames)]
  <2>1. \A q \in Ports : out'[q] \in Seq(Frames)
    BY <1>3, <1>4, <1>5, AppendProperties, EmptySeq
  <2>2. QED
    BY <1>3, <2>1
<1>12. \A q \in plugged' : owner[q] \notin BridgeClients =>
         q \notin bridges' /\ known'[q] \subseteq {Address[owner[q]]}
  <2> TAKE q \in plugged'
  <2>1. PortInv(q) /\ q \notin dead /\ q \in Ports
    BY <1>4, <1>7 DEF TInv
  <2>2. CASE q = p
    <3>1. owner[p] \notin BridgeClients => f.src \in known[p]
      BY <1>1, <1>2, <1>5 DEF MayUse, PortInv
    <3>2. QED
      BY <1>3, <1>7, <2>1, <2>2, <3>1 DEF PortInv
  <2>3. CASE q # p
    BY <1>3, <1>7, <2>1, <2>3 DEF PortInv
  <2>4. QED
    BY <2>2, <2>3
<1>13. /\ up' \in [Ports -> Seq(Frames)]
       /\ \A q \in plugged' : up'[q] = up[q] \/ (up[q] # <<>> /\ up'[q] = Tail(up[q]))
       /\ \A q \in Ports \ plugged' : up'[q] = <<>>
  <2>1. /\ Read(p)[p] = Tail(up[p]) /\ \A q \in Ports : q # p => Read(p)[q] = up[q]
    BY <1>4 DEF Read
  <2>2. \A q \in Ports : Read(p)[q] \in Seq(Frames)
    BY <1>4, <1>5, <2>1
  <2>3. <<>> \in Seq(Frames)
    BY EmptySeq
  <2>4. QED
    BY <1>1, <1>4, <1>8, <2>1, <2>2, <2>3
<1>14. \A c \in Clients : client[c].port \in to \cap plugged' => f \in Meant(c, client[c].conn)
  <2> TAKE c \in Clients
  <2> HAVE client[c].port \in to \cap plugged'
  <2>1. client[c].port \in to
    OBVIOUS
  <2>2. QED
    BY <1>1, <1>2, <2>1, RelayMeant DEF f
<1>15. /\ client' \in [Clients -> ClientType]
       /\ \A c \in Clients :
            /\ client'[c].conn = client[c].conn /\ client'[c].state = client[c].state
            /\ client'[c].port = NoPort \/
                 (client'[c].port = client[c].port /\ client[c].port \in plugged')
            /\ client'[c].queue \in Seq(Meant(c, client[c].conn))
  BY <1>1, <1>5, <1>8, <1>10, <1>14, ReachedClients
<1>16. QED
  BY <1>1, <1>8, <1>9, <1>11, <1>12, <1>13, <1>15, ServerMoves

-----------------------------------------------------------------------------
(* The theorems *)

LEMMA NextTInv == TInv /\ [Next]_vars => TInv'
<1> SUFFICES ASSUME TInv, [Next]_vars PROVE TInv'
  OBVIOUS
<1>1. ASSUME NEW p \in Ports, ServerStep(p) PROVE TInv'
  <2>1. CASE ServerAnnounces(p)
    BY <2>1, AnnounceTInv
  <2>2. CASE ServerRelays(p)
    BY <2>2, RelaysTInv
  <2>3. CASE ServerIgnores(p)
    BY <2>3, IgnoresTInv
  <2>4. CASE ServerReaps(p)
    BY <2>4, UnplugsTInv DEF ServerReaps
  <2>5. CASE ServerDrops(p)
    BY <2>5, UnplugsTInv DEF ServerDrops, Attached
  <2>6. QED
    BY <1>1, <2>1, <2>2, <2>3, <2>4, <2>5 DEF ServerStep
<1>2. ASSUME NEW c \in Clients, ClientStep(c) PROVE TInv'
  <2>1. CASE Connect(c)
    BY <2>1, ConnectTInv
  <2>2. CASE Upgrade(c)
    BY <2>2, UpgradeTInv
  <2>3. CASE GiveUp(c)
    BY <2>3, GiveUpTInv
  <2>4. CASE Handle(c)
    BY <2>4, HandleTInv
  <2>5. CASE Swallow(c)
    BY <2>5, SwallowTInv
  <2>6. CASE \E src \in Hosts[c], dst \in Destinations[c] : SendFrame(c, src, dst)
    BY <2>6, SendFrameTInv
  <2>7. QED
    BY <1>2, <2>1, <2>2, <2>3, <2>4, <2>5, <2>6 DEF ClientStep
<1>3. CASE UNCHANGED vars
  <2>1. Types'
    BY <1>3 DEF TInv, Types, vars, svars
  <2>2. ASSUME NEW c \in Clients PROVE ClientInv(c)'
    BY <1>3, <2>2 DEF TInv, ClientInv, Entries, Meant, vars, svars
  <2>3. ASSUME NEW p \in Ports PROVE PortInv(p)'
    BY <1>3, <2>3 DEF TInv, PortInv, Sent, vars, svars
  <2>4. QED
    BY <2>1, <2>2, <2>3 DEF TInv
<1>4. QED
  BY <1>1, <1>2, <1>3 DEF Next

LEMMA TunnelInvariance == Spec => []TInv
BY InitTInv, NextTInv, PTL DEF Spec

\* Connections, ports and what is on its way keep their types, and a client that
\* is connected is the owner of a port that is still there, however often it has
\* left and come back.
THEOREM TunnelTypeCorrect == Spec => []TypeOK
<1>1. ASSUME TInv PROVE TypeOK
  <2>1. \A c \in Clients : client[c].conn <= MaxConns[c]
    BY <1>1, Constants DEF TInv, ClientInv
  <2>2. \A c \in Clients : client[c].port # NoPort =>
          client[c].port \in plugged /\ owner[client[c].port] = c
    BY <1>1 DEF TInv, ClientInv
  <2>3. QED
    BY <1>1, <2>1, <2>2 DEF TInv, Types, TypeOK, ClientType
<1>2. QED
  BY <1>1, TunnelInvariance, PTL

\* A handled frame is one that was meant for its client.
LEMMA HandledMeant ==
    ASSUME TInv, NEW c \in Clients, NEW i \in DOMAIN tap[c]
    PROVE  tap[c][i].frame \in Meant(c, tap[c][i].conn)
<1>1. tap[c] \in Seq(Entries(c))
  BY DEF TInv, ClientInv
<1>2. tap[c][i] \in Entries(c)
  BY <1>1, LenProperties, ElementOfSeq
<1>3. QED
  BY <1>2 DEF Entries

\* No client but a bridge gets a frame that is for another one alone, also when
\* its descriptor was somebody else's before and two ports have one address.
THEOREM FramesStayPrivate == Spec => []Private
<1>1. TInv => Private
  BY HandledMeant DEF Private, Meant
<1>2. QED
  BY <1>1, TunnelInvariance, PTL

\* No client but a bridge gets its own frames back on the connection it sent
\* them on, or on an earlier one.
THEOREM NothingEchoes == Spec => []NoEcho
<1>1. TInv => NoEcho
  BY HandledMeant DEF NoEcho, Meant
<1>2. QED
  BY <1>1, TunnelInvariance, PTL

-----------------------------------------------------------------------------
(* The order of frames.  What one client sent on one connection is a stream. *)
(* A stream is in one port only, and on its way from there to a tap device   *)
(* every frame of it stays behind those that were sent before.               *)

SameStream(f, g) == f.from = g.from /\ f.conn = g.conn

\* The streams in q are in the order they were sent.
Rising(q) ==
    \A i, j \in DOMAIN q : i < j /\ SameStream(q[i], q[j]) => q[i].id < q[j].id

\* What q has of a stream was sent before what r has of it.
Before(q, r) ==
    \A i \in DOMAIN q, j \in DOMAIN r : SameStream(q[i], r[j]) => q[i].id < r[j].id

\* q and r have no stream in common.
Apart(q, r) == \A i \in DOMAIN q, j \in DOMAIN r : ~SameStream(q[i], r[j])

SentBy(n, q) == \A i \in DOMAIN q : q[i].id <= n

Handled(c) == [i \in DOMAIN tap[c] |-> tap[c][i].frame]

PortOrder(p) ==
    /\ Rising(up[p]) /\ SentBy(sends, up[p])
    /\ \A q \in Ports : q # p => Apart(up[p], up[q])

\* The way of a frame: to a port, to a client, to its tap device.
ClientOrder(c) ==
    /\ Rising(Handled(c)) /\ Rising(client[c].queue) /\ Before(Handled(c), client[c].queue)
    /\ SentBy(sends, Handled(c)) /\ SentBy(sends, client[c].queue)
    /\ \A p \in Ports : Before(Handled(c), up[p]) /\ Before(client[c].queue, up[p])

Ordered == (\A c \in Clients : ClientOrder(c)) /\ (\A p \in Ports : PortOrder(p))

OInv == TInv /\ Ordered

-----------------------------------------------------------------------------
(* Sequences that lose frames at their front *)

\* r is what is left of q.
Drops(r, q) == \E d \in Nat : \A i \in DOMAIN r : i + d \in DOMAIN q /\ r[i] = q[i + d]

LEMMA Domains ==
    ASSUME NEW q \in Seq(Frames)
    PROVE  /\ Len(q) \in Nat /\ DOMAIN q = 1 .. Len(q)
           /\ \A i \in DOMAIN q : q[i] \in Frames /\ q[i].id \in Nat
<1>1. Len(q) \in Nat /\ DOMAIN q = 1 .. Len(q) /\ \A i \in 1 .. Len(q) : q[i] \in Frames
  BY LenProperties, ElementOfSeq
<1>2. \A f \in Frames : f.id \in Nat
  BY Constants DEF Frames, FramesOf
<1>3. QED
  BY <1>1, <1>2

LEMMA SameDrops == ASSUME NEW q \in Seq(Frames) PROVE Drops(q, q)
<1>1. \A i \in DOMAIN q : i + 0 = i
  BY Domains
<1>2. QED
  BY <1>1 DEF Drops

LEMMA NothingDrops == ASSUME NEW q PROVE Drops(<<>>, q)
<1>1. DOMAIN << >> = {}
  OBVIOUS
<1>2. QED
  BY <1>1 DEF Drops

LEMMA TailDrops == ASSUME NEW q \in Seq(Frames), q # <<>> PROVE Drops(Tail(q), q)
<1>1. /\ Tail(q) \in Seq(Frames) /\ Len(Tail(q)) = Len(q) - 1
      /\ \A i \in 1 .. Len(Tail(q)) : Tail(q)[i] = q[i + 1]
  BY HeadTailProperties
<1>2. DOMAIN Tail(q) = 1 .. Len(Tail(q)) /\ DOMAIN q = 1 .. Len(q) /\ Len(q) \in Nat
  BY <1>1, Domains
<1>3. \A i \in DOMAIN Tail(q) : i + 1 \in DOMAIN q /\ Tail(q)[i] = q[i + 1]
  BY <1>1, <1>2
<1>4. QED
  BY <1>3 DEF Drops

LEMMA FromDrops == ASSUME NEW q \in Seq(Frames), NEW k \in Nat PROVE Drops(From(q, k + 1), q)
<1> DEFINE r == From(q, k + 1)
<1>1. Len(q) \in Nat /\ DOMAIN q = 1 .. Len(q) /\ \A i \in 1 .. Len(q) : q[i] \in Frames
  BY Domains
<1>2. \A i \in k + 1 .. Len(q) : q[i] \in Frames
  BY <1>1
<1>3. /\ Len(r) = IF k + 1 <= Len(q) THEN Len(q) - (k + 1) + 1 ELSE 0
      /\ \A i \in 1 .. Len(q) - (k + 1) + 1 : r[i] = q[k + 1 + i - 1]
  BY <1>1, <1>2, SubSeqProperties DEF From
<1>4. r \in Seq(Frames)
  BY FromTyped
<1> HIDE DEF r
<1>5. DOMAIN r = 1 .. Len(r)
  BY <1>4, Domains
<1>6. \A i \in DOMAIN r : i + k \in DOMAIN q /\ r[i] = q[i + k]
  BY <1>1, <1>3, <1>5
<1>7. QED
  BY <1>6 DEF Drops, r

\* What is left of a sequence keeps its order, also in relation to others.
LEMMA DropsOrder ==
    ASSUME NEW q \in Seq(Frames), NEW r \in Seq(Frames), Drops(r, q)
    PROVE  /\ Rising(q) => Rising(r)
           /\ \A n : SentBy(n, q) => SentBy(n, r)
           /\ \A x : Before(q, x) => Before(r, x)
           /\ \A x : Before(x, q) => Before(x, r)
           /\ \A x : Apart(q, x) => Apart(r, x)
           /\ \A x : Apart(x, q) => Apart(x, r)
<1>1. PICK d \in Nat : \A i \in DOMAIN r : i + d \in DOMAIN q /\ r[i] = q[i + d]
  BY DEF Drops
<1>2. DOMAIN q \subseteq Int /\ DOMAIN r \subseteq Int
  BY Domains
<1>3. ASSUME Rising(q), NEW i \in DOMAIN r, NEW j \in DOMAIN r, i < j, SameStream(r[i], r[j])
      PROVE  r[i].id < r[j].id
  <2>1. i + d < j + d /\ i + d \in DOMAIN q /\ j + d \in DOMAIN q
    BY <1>1, <1>2, <1>3
  <2>2. r[i] = q[i + d] /\ r[j] = q[j + d]
    BY <1>1
  <2> DEFINE a == i + d
             b == j + d
  <2> HIDE DEF a, b
  <2>3. a \in DOMAIN q /\ b \in DOMAIN q /\ a < b /\ r[i] = q[a] /\ r[j] = q[b]
    BY <2>1, <2>2 DEF a, b
  <2>4. QED
    BY <1>3, <2>3 DEF Rising
<1>4. Rising(q) => Rising(r)
  BY <1>3 DEF Rising
<1>5. \A i \in DOMAIN r : \E k \in DOMAIN q : r[i] = q[k]
  BY <1>1
<1>6. /\ \A n : SentBy(n, q) => SentBy(n, r)
      /\ \A x : Before(q, x) => Before(r, x)
      /\ \A x : Before(x, q) => Before(x, r)
      /\ \A x : Apart(q, x) => Apart(r, x)
      /\ \A x : Apart(x, q) => Apart(x, r)
  <2>1. \A n : SentBy(n, q) => SentBy(n, r)
    BY <1>5 DEF SentBy
  <2>2. \A x : Before(q, x) => Before(r, x)
    BY <1>5 DEF Before
  <2>3. \A x : Before(x, q) => Before(x, r)
    BY <1>5 DEF Before
  <2>4. \A x : Apart(q, x) => Apart(r, x)
    BY <1>5 DEF Apart
  <2>5. \A x : Apart(x, q) => Apart(x, r)
    BY <1>5 DEF Apart
  <2>6. QED
    BY <2>1, <2>2, <2>3, <2>4, <2>5
<1>7. QED
  BY <1>4, <1>6

-----------------------------------------------------------------------------
(* Sequences that grow by a frame *)

LEMMA Appended ==
    ASSUME NEW q \in Seq(Frames), NEW f \in Frames
    PROVE  /\ Append(q, f) \in Seq(Frames)
           /\ \A i \in DOMAIN Append(q, f) :
                \/ i \in DOMAIN q /\ Append(q, f)[i] = q[i]
                \/ i = Len(q) + 1 /\ Append(q, f)[i] = f
<1> DEFINE r == Append(q, f)
<1>1. /\ r \in Seq(Frames) /\ Len(r) = Len(q) + 1 /\ r[Len(q) + 1] = f
      /\ \A i \in 1 .. Len(q) : r[i] = q[i]
  BY AppendProperties
<1> HIDE DEF r
<1>2. DOMAIN r = 1 .. Len(r) /\ DOMAIN q = 1 .. Len(q) /\ Len(q) \in Nat
  BY <1>1, Domains
<1>3. \A i \in DOMAIN r : i \in 1 .. Len(q) \/ i = Len(q) + 1
  BY <1>1, <1>2
<1>4. \A i \in DOMAIN r : (i \in DOMAIN q /\ r[i] = q[i]) \/ (i = Len(q) + 1 /\ r[i] = f)
  BY <1>1, <1>2, <1>3
<1>5. QED
  BY <1>1, <1>4 DEF r

\* A frame that was sent last of its stream may be appended.
LEMMA AppendOrder ==
    ASSUME NEW q \in Seq(Frames), NEW f \in Frames
    PROVE  /\ Rising(q) /\ Before(q, <<f>>) => Rising(Append(q, f))
           /\ \A n : SentBy(n, q) /\ f.id <= n => SentBy(n, Append(q, f))
           /\ \A x : Before(q, x) /\ Before(<<f>>, x) => Before(Append(q, f), x)
           /\ \A x : Before(x, q) /\ Before(x, <<f>>) => Before(x, Append(q, f))
           /\ \A x : Apart(q, x) /\ Apart(<<f>>, x) => Apart(Append(q, f), x)
           /\ \A x : Apart(x, q) /\ Apart(x, <<f>>) => Apart(x, Append(q, f))
<1> DEFINE r == Append(q, f)
           s == <<f>>
<1>1. \A i \in DOMAIN r : (i \in DOMAIN q /\ r[i] = q[i]) \/ (i = Len(q) + 1 /\ r[i] = f)
  BY Appended
<1>2. 1 \in DOMAIN s /\ s[1] = f
  OBVIOUS
<1>3. DOMAIN q = 1 .. Len(q) /\ Len(q) \in Nat
  BY Domains
<1> HIDE DEF r, s
<1>4. \A i \in DOMAIN r : (\E k \in DOMAIN q : r[i] = q[k]) \/ (\E k \in DOMAIN s : r[i] = s[k])
  BY <1>1, <1>2
<1>5. ASSUME Rising(q), Before(q, s) PROVE Rising(r)
  <2>1. SUFFICES ASSUME NEW i \in DOMAIN r, NEW j \in DOMAIN r, i < j, SameStream(r[i], r[j])
                 PROVE  r[i].id < r[j].id
    BY DEF Rising
  <2>2. i \in DOMAIN q /\ r[i] = q[i]
    <3>1. j <= Len(q) + 1 /\ j \in Int
      BY <1>1, <1>3
    <3>2. i # Len(q) + 1
      BY <1>3, <2>1, <3>1
    <3>3. QED
      BY <1>1, <3>2
  <2>3. CASE j \in DOMAIN q /\ r[j] = q[j]
    BY <1>5, <2>1, <2>2, <2>3 DEF Rising
  <2>4. CASE r[j] = f
    BY <1>2, <1>5, <2>1, <2>2, <2>4 DEF Before
  <2>5. QED
    BY <1>1, <2>3, <2>4
<1>6. \A n : SentBy(n, q) /\ f.id <= n => SentBy(n, r)
  BY <1>1 DEF SentBy
<1>7. \A x : Before(q, x) /\ Before(s, x) => Before(r, x)
  BY <1>4 DEF Before
<1>8. \A x : Before(x, q) /\ Before(x, s) => Before(x, r)
  BY <1>4 DEF Before
<1>9. \A x : Apart(q, x) /\ Apart(s, x) => Apart(r, x)
  BY <1>4 DEF Apart
<1>10. \A x : Apart(x, q) /\ Apart(x, s) => Apart(x, r)
  BY <1>4 DEF Apart
<1>11. QED
  BY <1>5, <1>6, <1>7, <1>8, <1>9, <1>10 DEF r, s

\* The first frame of a sequence: what was before the sequence is before it, and
\* it is before the rest.
LEMMA HeadOrder ==
    ASSUME NEW q \in Seq(Frames), q # <<>>
    PROVE  /\ Head(q) \in Frames
           /\ Rising(q) => Before(<<Head(q)>>, Tail(q))
           /\ \A n : SentBy(n, q) => Head(q).id <= n
           /\ \A x : Before(q, x) => Before(<<Head(q)>>, x)
           /\ \A x : Before(x, q) => Before(x, <<Head(q)>>)
           /\ \A x : Apart(q, x) => Before(<<Head(q)>>, x)
<1> DEFINE f == Head(q)
           s == <<f>>
           r == Tail(q)
<1>1. /\ f \in Frames /\ f = q[1] /\ r \in Seq(Frames) /\ Len(r) = Len(q) - 1
      /\ \A i \in 1 .. Len(r) : r[i] = q[i + 1]
  BY HeadTailProperties
<1>2. DOMAIN q = 1 .. Len(q) /\ Len(q) \in Nat /\ DOMAIN r = 1 .. Len(r)
  BY <1>1, Domains
<1>3. Len(q) # 0
  BY EmptySeq
<1>4. 1 \in DOMAIN q
  BY <1>2, <1>3
<1>5. \A k \in DOMAIN s : s[k] = q[1]
  BY <1>1
<1> HIDE DEF f, s, r
<1>6. ASSUME Rising(q) PROVE Before(s, r)
  <2>1. \A j \in DOMAIN r : j + 1 \in DOMAIN q /\ 1 < j + 1 /\ r[j] = q[j + 1]
    BY <1>1, <1>2
  <2>2. \A j \in DOMAIN r : \E k \in DOMAIN q : 1 < k /\ r[j] = q[k]
    BY <2>1
  <2>3. \A j \in DOMAIN r : SameStream(q[1], r[j]) => q[1].id < r[j].id
    BY <1>4, <1>6, <2>2 DEF Rising
  <2>4. QED
    BY <1>5, <2>3 DEF Before
<1>7. \A n : SentBy(n, q) => f.id <= n
  BY <1>1, <1>4 DEF SentBy
<1>8. \A x : Before(q, x) => Before(s, x)
  BY <1>4, <1>5 DEF Before
<1>9. \A x : Before(x, q) => Before(x, s)
  BY <1>4, <1>5 DEF Before
<1>10. \A x : Apart(q, x) => Before(s, x)
  BY <1>4, <1>5 DEF Before, Apart
<1>11. QED
  BY <1>1, <1>6, <1>7, <1>8, <1>9, <1>10 DEF f, s, r

-----------------------------------------------------------------------------
(* Steps that lose frames, or hand one on *)

LEMMA OrderTyped ==
    ASSUME TInv
    PROVE  /\ \A c \in Clients : Handled(c) \in Seq(Frames) /\ client[c].queue \in Seq(Frames)
           /\ \A p \in Ports : up[p] \in Seq(Frames)
           /\ sends \in Nat
<1>1. ASSUME NEW c \in Clients PROVE Handled(c) \in Seq(Frames)
  <2> DEFINE E == [frame : Frames, conn : Conns]
             n == Len(tap[c])
  <2>1. tap[c] \in Seq(E)
    BY DEF TInv, Types
  <2>2. n \in Nat /\ DOMAIN tap[c] = 1 .. n /\ \A i \in 1 .. n : tap[c][i] \in E
    BY <2>1, LenProperties, ElementOfSeq
  <2>3. \A i \in 1 .. n : tap[c][i].frame \in Frames
    BY <2>2
  <2> HIDE DEF n
  <2>4. Handled(c) \in [1 .. n -> Frames] /\ n \in Nat
    BY <2>2, <2>3 DEF Handled
  <2>5. Seq(Frames) = UNION {[1 .. m -> Frames] : m \in Nat}
    BY SeqDef
  <2> HIDE DEF n
  <2>6. QED
    BY <2>4, <2>5, Zenon
<1>2. \A c \in Clients : client[c].queue \in Seq(Frames)
  BY ClientTyped
<1>3. (\A p \in Ports : up[p] \in Seq(Frames)) /\ sends \in Nat
  BY Constants DEF TInv, Types
<1>4. QED
  BY <1>1, <1>2, <1>3

LEMMA SameHandled == ASSUME UNCHANGED tap, NEW c PROVE Handled(c)' = Handled(c)
BY DEF Handled

\* Nothing new is on its way.
LEMMA DropStep ==
    ASSUME OInv, TInv', UNCHANGED <<tap, sends>>,
           \A c \in Clients : Drops(client'[c].queue, client[c].queue),
           \A p \in Ports : Drops(up'[p], up[p])
    PROVE  Ordered'
<1>1. /\ \A c \in Clients : Handled(c) \in Seq(Frames) /\ client[c].queue \in Seq(Frames)
      /\ \A c \in Clients : client'[c].queue \in Seq(Frames)
      /\ \A p \in Ports : up[p] \in Seq(Frames) /\ up'[p] \in Seq(Frames)
  <2>1. /\ \A c \in Clients : client'[c].queue \in Seq(Frames)
        /\ \A p \in Ports : up'[p] \in Seq(Frames)
    BY DEF TInv, Types, ClientType
  <2>2. QED
    BY <2>1, OrderTyped DEF OInv
<1>2. ASSUME NEW c \in Clients PROVE ClientOrder(c)'
  <2> DEFINE h == Handled(c)
             q == client[c].queue
             r == client'[c].queue
  <2>1. /\ Rising(h) /\ Rising(q) /\ Before(h, q) /\ SentBy(sends, h) /\ SentBy(sends, q)
        /\ \A p \in Ports : Before(h, up[p]) /\ Before(q, up[p])
    BY DEF OInv, Ordered, ClientOrder
  <2>2. Handled(c)' = h /\ sends' = sends
    BY SameHandled
  <2>3. h \in Seq(Frames) /\ q \in Seq(Frames) /\ r \in Seq(Frames) /\ Drops(r, q)
    BY <1>1
  <2> HIDE DEF h, q, r
  <2>4. Rising(r) /\ Before(h, r) /\ SentBy(sends, r)
    BY <2>1, <2>3, DropsOrder
  <2>5. ASSUME NEW p \in Ports PROVE Before(h, up'[p]) /\ Before(r, up'[p])
    <3>1. Before(h, up'[p]) /\ Before(q, up'[p])
      BY <1>1, <2>1, DropsOrder
    <3>2. QED
      BY <2>3, <3>1, DropsOrder
  <2>6. QED
    BY <2>1, <2>2, <2>4, <2>5 DEF ClientOrder, r, Rising, Before, SentBy, SameStream
<1>3. ASSUME NEW p \in Ports PROVE PortOrder(p)'
  <2>1. Rising(up'[p]) /\ SentBy(sends, up'[p])
    BY <1>1, DropsOrder DEF OInv, Ordered, PortOrder
  <2>2. ASSUME NEW q \in Ports, q # p PROVE Apart(up'[p], up'[q])
    <3>1. Apart(up[p], up[q])
      BY <2>2 DEF OInv, Ordered, PortOrder
    <3>2. Apart(up'[p], up[q])
      BY <1>1, <3>1, DropsOrder
    <3>3. QED
      BY <1>1, <3>2, DropsOrder
  <2>3. QED
    BY <2>1, <2>2 DEF PortOrder, Rising, SentBy, Apart, SameStream
<1>4. QED
  BY <1>2, <1>3 DEF Ordered

\* The first frame of a port's is read, and given to some clients.
LEMMA RelayStep ==
    ASSUME OInv, TInv', UNCHANGED <<tap, sends>>,
           NEW p \in Ports, up[p] # <<>>, NEW f, f = Head(up[p]),
           \A c \in Clients :
             \/ client'[c].queue = client[c].queue
             \/ client'[c].queue = Append(client[c].queue, f),
           \A q \in Ports : q # p => Drops(up'[q], up[q]),
           Drops(up'[p], Tail(up[p]))
    PROVE  Ordered'
<1>1. /\ \A c \in Clients : Handled(c) \in Seq(Frames) /\ client[c].queue \in Seq(Frames)
      /\ \A q \in Ports : up[q] \in Seq(Frames) /\ up'[q] \in Seq(Frames)
  <2>1. \A q \in Ports : up'[q] \in Seq(Frames)
    BY DEF TInv, Types
  <2>2. QED
    BY <2>1, OrderTyped DEF OInv
<1>2. /\ f \in Frames /\ f.id <= sends /\ Before(<<f>>, Tail(up[p]))
      /\ \A x : Apart(up[p], x) => Before(<<f>>, x)
      /\ \A x : Before(x, up[p]) => Before(x, <<f>>)
  <2>1. Rising(up[p]) /\ SentBy(sends, up[p])
    BY DEF OInv, Ordered, PortOrder
  <2>2. QED
    BY <1>1, <2>1, HeadOrder
<1>3. Tail(up[p]) \in Seq(Frames) /\ Drops(Tail(up[p]), up[p])
  BY <1>1, HeadTailProperties, TailDrops
<1>4. ASSUME NEW q \in Ports
      PROVE  /\ Rising(up'[q]) /\ SentBy(sends, up'[q]) /\ Before(<<f>>, up'[q])
             /\ \A x : Before(x, up[q]) => Before(x, up'[q])
             /\ \A x : Apart(up[q], x) => Apart(up'[q], x)
             /\ \A x : Apart(x, up[q]) => Apart(x, up'[q])
  <2>1. Rising(up[q]) /\ SentBy(sends, up[q])
    BY DEF OInv, Ordered, PortOrder
  <2>2. CASE q # p
    <3>1. Apart(up[p], up[q]) /\ Drops(up'[q], up[q])
      BY <2>2 DEF OInv, Ordered, PortOrder
    <3>2. Before(<<f>>, up[q])
      BY <1>2, <3>1
    <3>3. <<f>> \in Seq(Frames)
      BY <1>2
    <3>4. QED
      BY <1>1, <2>1, <3>1, <3>2, DropsOrder
  <2>3. CASE q = p
    <3> DEFINE t == Tail(up[p])
               u == up'[p]
    <3>1. /\ Rising(t) /\ SentBy(sends, t) /\ Before(<<f>>, t)
          /\ \A x : Before(x, up[p]) => Before(x, t)
          /\ \A x : Apart(up[p], x) => Apart(t, x)
          /\ \A x : Apart(x, up[p]) => Apart(x, t)
      BY <1>1, <1>2, <1>3, <2>1, <2>3, DropsOrder
    <3>2. t \in Seq(Frames) /\ u \in Seq(Frames) /\ Drops(u, t)
      BY <1>1, <1>3
    <3> HIDE DEF t, u
    <3>3. /\ Rising(u) /\ SentBy(sends, u) /\ Before(<<f>>, u)
          /\ \A x : Before(x, t) => Before(x, u)
          /\ \A x : Apart(t, x) => Apart(u, x)
          /\ \A x : Apart(x, t) => Apart(x, u)
      BY <3>1, <3>2, DropsOrder
    <3>4. QED
      BY <2>3, <3>1, <3>3 DEF u
  <2>4. QED
    BY <2>2, <2>3
<1>5. ASSUME NEW c \in Clients PROVE ClientOrder(c)'
  <2> DEFINE h == Handled(c)
             q == client[c].queue
             r == client'[c].queue
  <2>1. /\ Rising(h) /\ Rising(q) /\ Before(h, q) /\ SentBy(sends, h) /\ SentBy(sends, q)
        /\ \A g \in Ports : Before(h, up[g]) /\ Before(q, up[g])
    BY DEF OInv, Ordered, ClientOrder
  <2>2. Handled(c)' = h /\ sends' = sends
    BY SameHandled
  <2>3. h \in Seq(Frames) /\ q \in Seq(Frames) /\ (r = q \/ r = Append(q, f))
    BY <1>1
  <2> HIDE DEF h, q, r
  <2>4. Before(h, <<f>>) /\ Before(q, <<f>>)
    BY <1>2, <2>1
  <2>5. Rising(r) /\ Before(h, r) /\ SentBy(sends, r)
    BY <1>2, <2>1, <2>3, <2>4, AppendOrder
  <2>6. ASSUME NEW g \in Ports PROVE Before(h, up'[g]) /\ Before(r, up'[g])
    <3>1. Before(h, up'[g]) /\ Before(q, up'[g]) /\ Before(<<f>>, up'[g])
      BY <1>4, <2>1
    <3>2. QED
      BY <1>2, <2>3, <3>1, AppendOrder
  <2>7. QED
    BY <2>1, <2>2, <2>5, <2>6 DEF ClientOrder, r, Rising, Before, SentBy, SameStream
<1>6. ASSUME NEW g \in Ports PROVE PortOrder(g)'
  <2>1. ASSUME NEW q \in Ports, q # g PROVE Apart(up'[g], up'[q])
    <3>1. Apart(up[g], up[q])
      BY <2>1 DEF OInv, Ordered, PortOrder
    <3>2. Apart(up'[g], up[q])
      BY <1>4, <3>1
    <3>3. QED
      BY <1>4, <3>2
  <2>2. QED
    BY <1>4, <2>1 DEF PortOrder, Rising, SentBy, Apart, SameStream
<1>7. QED
  BY <1>5, <1>6 DEF Ordered

\* The first frame on its way to a client is handled.
LEMMA HandleStep ==
    ASSUME OInv, NEW c \in Clients, Handle(c)
    PROVE  Ordered'
<1> DEFINE f == Head(client[c].queue)
           h == Handled(c)
           q == client[c].queue
<1>1. /\ q # <<>> /\ tap' = [tap EXCEPT ![c] = Append(@, [frame |-> f, conn |-> client[c].conn])]
      /\ client' = [client EXCEPT ![c].queue = Tail(q)] /\ UNCHANGED <<up, sends>>
  BY DEF Handle
<1>2. h \in Seq(Frames) /\ q \in Seq(Frames)
  BY OrderTyped DEF OInv
<1>3. /\ client'[c].queue = Tail(q)
      /\ \A d \in Clients : d # c => client'[d] = client[d] /\ tap'[d] = tap[d]
  BY <1>1 DEF OInv, TInv, Types, ClientType
<1>4. Handled(c)' = Append(h, f)
  <2> DEFINE e == [frame |-> f, conn |-> client[c].conn]
             E == [frame : Frames, conn : Nat]
             t == tap[c]
             u == Append(t, e)
  <2>1. t \in Seq(E)
    <3>1. t \in Seq([frame : Frames, conn : Conns]) /\ Conns \subseteq Nat
      BY Constants DEF OInv, TInv, Types
    <3>2. [frame : Frames, conn : Conns] \subseteq E
      BY <3>1
    <3>3. QED
      BY <3>1, <3>2, SeqMonotonic
  <2>2. f \in Frames /\ e \in E
    BY <1>1, <1>2, HeadTailProperties, ClientTyped DEF OInv
  <2>3. tap'[c] = u
    BY <1>1 DEF OInv, TInv, Types
  <2>4. e.frame = f
    OBVIOUS
  <2> HIDE DEF e, t, f, E
  <2>5. /\ u \in Seq(E) /\ Len(u) = Len(t) + 1 /\ u[Len(t) + 1] = e
        /\ \A i \in 1 .. Len(t) : u[i] = t[i]
    BY <2>1, <2>2, AppendProperties
  <2> HIDE DEF u
  <2>6. DOMAIN u = 1 .. Len(t) + 1 /\ DOMAIN t = 1 .. Len(t) /\ Len(t) \in Nat
    BY <2>1, <2>5, LenProperties
  <2>7. h = [i \in 1 .. Len(t) |-> t[i].frame]
    BY <2>6 DEF Handled, t
  <2>8. Handled(c)' = [i \in 1 .. Len(t) + 1 |-> u[i].frame]
    BY <2>3, <2>6 DEF Handled
  <2> DEFINE a == Append(h, f)
             b == [i \in 1 .. Len(t) + 1 |-> u[i].frame]
             n == Len(t)
  <2>9. Len(h) = n
    <3>1. DOMAIN h = 1 .. Len(h) /\ Len(h) \in Nat
      BY <1>2, Domains
    <3>2. DOMAIN h = 1 .. n /\ n \in Nat
      BY <2>6, <2>7
    <3> HIDE DEF h, n
    <3>3. \A k, m \in Nat : 1 .. k = 1 .. m => k <= m
      <4> TAKE k, m \in Nat
      <4> HAVE 1 .. k = 1 .. m
      <4>1. CASE k = 0
        BY <4>1
      <4>2. CASE k # 0
        <5>1. k \in 1 .. k
          BY <4>2
        <5>2. QED
          BY <5>1
      <4>3. QED
        BY <4>1, <4>2
    <3> DEFINE l == Len(h)
    <3>4. l \in Nat /\ n \in Nat /\ 1 .. l = 1 .. n
      BY <3>1, <3>2
    <3> HIDE DEF l
    <3>5. l <= n /\ n <= l
      BY <3>3, <3>4
    <3>6. QED
      BY <3>4, <3>5 DEF l
  <2>10. /\ a \in Seq(Frames) /\ Len(a) = n + 1 /\ a[n + 1] = f
         /\ \A i \in 1 .. n : a[i] = h[i]
    BY <1>2, <2>2, <2>9, AppendProperties
  <2>11. \A i \in 1 .. n : h[i] = t[i].frame
    BY <2>7
  <2> HIDE DEF a, h
  <2>12. DOMAIN a = 1 .. n + 1 /\ a = [i \in DOMAIN a |-> a[i]]
    BY <2>10, LenProperties
  <2>13. \A i \in 1 .. n + 1 : b[i] = a[i]
    <3> TAKE i \in 1 .. n + 1
    <3>1. b[i] = u[i].frame
      OBVIOUS
    <3>2. i \in 1 .. n \/ i = n + 1
      BY <2>6
    <3>3. QED
      BY <2>4, <2>5, <2>10, <2>11, <3>1, <3>2
  <2>14. DOMAIN b = 1 .. n + 1 /\ b = [i \in DOMAIN b |-> b[i]]
    OBVIOUS
  <2> HIDE DEF b
  <2>15. a = b
    BY <2>12, <2>13, <2>14
  <2>16. QED
    BY <2>8, <2>15 DEF a, b
<1> HIDE DEF f, h
<1>5. ASSUME NEW d \in Clients PROVE ClientOrder(d)'
  <2>1. CASE d # c
    <3>1. client'[d] = client[d] /\ tap'[d] = tap[d]
      BY <1>3, <2>1
    <3>2. Handled(d)' = Handled(d)
      BY <3>1 DEF Handled
    <3> DEFINE k == Handled(d)
               r == client[d].queue
    <3>3. /\ Rising(k) /\ Rising(r) /\ Before(k, r) /\ SentBy(sends, k) /\ SentBy(sends, r)
          /\ \A p \in Ports : Before(k, up[p]) /\ Before(r, up[p])
      BY DEF OInv, Ordered, ClientOrder
    <3>4. Handled(d)' = k /\ client'[d].queue = r /\ up' = up /\ sends' = sends
      BY <1>1, <3>1, <3>2
    <3> HIDE DEF k, r
    <3>5. QED
      BY <3>3, <3>4 DEF ClientOrder, Rising, Before, SentBy, SameStream
  <2>2. CASE d = c
    <3> DEFINE r == Tail(q)
               k == Append(h, f)
    <3>1. /\ Rising(h) /\ Rising(q) /\ Before(h, q) /\ SentBy(sends, h) /\ SentBy(sends, q)
          /\ \A p \in Ports : Before(h, up[p]) /\ Before(q, up[p])
      BY DEF OInv, Ordered, ClientOrder, h
    <3>2. r \in Seq(Frames) /\ Drops(r, q)
      BY <1>1, <1>2, HeadTailProperties, TailDrops
    <3>3. /\ f \in Frames /\ f.id <= sends /\ Before(<<f>>, r)
          /\ \A x : Before(q, x) => Before(<<f>>, x)
          /\ Before(h, <<f>>)
      BY <1>1, <1>2, <3>1, HeadOrder DEF f
    <3> HIDE DEF q, r
    <3>4. Rising(r) /\ SentBy(sends, r) /\ Before(h, r) /\ \A p \in Ports : Before(r, up[p])
      BY <1>2, <3>1, <3>2, DropsOrder
    <3>5. /\ Rising(k) /\ SentBy(sends, k) /\ Before(k, r)
          /\ \A p \in Ports : Before(k, up[p])
      BY <1>2, <3>1, <3>3, <3>4, AppendOrder
    <3> HIDE DEF k
    <3>6. Handled(c)' = k /\ client'[c].queue = r /\ up' = up /\ sends' = sends
      BY <1>1, <1>3, <1>4 DEF k, r
    <3>7. QED
      BY <2>2, <3>4, <3>5, <3>6 DEF ClientOrder, Rising, Before, SentBy, SameStream
  <2>3. QED
    BY <2>1, <2>2
<1>6. ASSUME NEW p \in Ports PROVE PortOrder(p)'
  BY <1>1, <1>6 DEF OInv, Ordered, PortOrder, Rising, SentBy, Apart, SameStream
<1>7. QED
  BY <1>5, <1>6 DEF Ordered

\* A frame that is sent is the newest, and its stream is in no other port.
LEMMA SendStep ==
    ASSUME OInv, TInv', NEW c \in Clients, NEW src \in Hosts[c], NEW dst \in Destinations[c],
           SendFrame(c, src, dst)
    PROVE  Ordered'
<1> DEFINE f == [src |-> src, dst |-> dst, id |-> sends + 1, from |-> c, conn |-> client[c].conn]
           p == client[c].port
<1>1. /\ client[c].state = "open" /\ sends < MaxSends /\ sends' = sends + 1
      /\ up' = IF p = NoPort THEN up ELSE [up EXCEPT ![p] = Append(@, f)]
      /\ UNCHANGED <<client, tap>>
  BY DEF SendFrame
<1>2. /\ sends \in Nat /\ client[c].conn \in 1 .. MaxConns[c] /\ sends + 1 \in 1 .. MaxSends
      /\ p # NoPort => p \in Ports /\ owner[p] = c
  BY <1>1, ClientTyped, Constants DEF OInv, ClientInv, TInv, Types
<1>3. f \in Frames
  <2>1. f \in FramesOf(c)
    BY <1>2 DEF FramesOf
  <2>2. QED
    BY <2>1 DEF Frames
<1>4. f.from = c /\ f.conn = client[c].conn /\ f.id = sends + 1
  OBVIOUS
<1> DEFINE n == sends + 1
<1>5. /\ \A d \in Clients : Handled(d) \in Seq(Frames) /\ client[d].queue \in Seq(Frames)
      /\ \A q \in Ports : up[q] \in Seq(Frames)
  BY OrderTyped DEF OInv
<1> HIDE DEF f
<1>6. \A q \in Ports : up'[q] = up[q] \/ (q = p /\ p # NoPort /\ up'[q] = Append(up[q], f))
  BY <1>1 DEF OInv, TInv, Types
<1>7. \A x \in Seq(Frames) : SentBy(sends, x) => SentBy(n, x) /\ Before(x, <<f>>)
  <2> TAKE x \in Seq(Frames)
  <2> HAVE SentBy(sends, x)
  <2>1. \A i \in DOMAIN x : x[i].id \in Nat /\ x[i].id <= sends
    BY Domains DEF SentBy
  <2>2. \A i \in DOMAIN x : x[i].id <= n /\ x[i].id < f.id
    BY <1>2, <1>4, <2>1
  <2> DEFINE s == <<f>>
  <2>3. \A k \in DOMAIN s : s[k] = f
    OBVIOUS
  <2> HIDE DEF s, n
  <2>4. QED
    BY <2>2, <2>3 DEF SentBy, Before, s
<1>8. ASSUME NEW q \in Ports, q # p, p # NoPort
      PROVE  Apart(<<f>>, up[q]) /\ Apart(up[q], <<f>>)
  <2>1. up[q] \in Seq(Sent(q))
    BY DEF OInv, TInv, PortInv
  <2>2. \A i \in DOMAIN up[q] : up[q][i] \in Sent(q)
    BY <2>1, LenProperties, ElementOfSeq
  <2>3. \A i \in DOMAIN up[q] : ~SameStream(up[q][i], f)
    BY <1>4, <1>8, <2>2 DEF Sent, SameStream
  <2> DEFINE s == <<f>>
  <2>4. \A k \in DOMAIN s : s[k] = f
    OBVIOUS
  <2> HIDE DEF s
  <2>5. QED
    BY <2>3, <2>4 DEF Apart, SameStream, s
<1>9. ASSUME NEW d \in Clients PROVE ClientOrder(d)'
  <2> DEFINE h == Handled(d)
             r == client[d].queue
  <2>1. /\ Rising(h) /\ Rising(r) /\ Before(h, r) /\ SentBy(sends, h) /\ SentBy(sends, r)
        /\ \A q \in Ports : Before(h, up[q]) /\ Before(r, up[q])
    BY DEF OInv, Ordered, ClientOrder
  <2>2. h \in Seq(Frames) /\ r \in Seq(Frames)
    BY <1>5
  <2>3. Handled(d)' = h /\ client'[d].queue = r /\ sends' = n
    BY <1>1, SameHandled
  <2> HIDE DEF h, r, n
  <2>4. SentBy(n, h) /\ SentBy(n, r) /\ Before(h, <<f>>) /\ Before(r, <<f>>)
    BY <1>7, <2>1, <2>2
  <2>5. \A q \in Ports : Before(h, up'[q]) /\ Before(r, up'[q])
    <3> TAKE q \in Ports
    <3>1. Before(h, Append(up[q], f)) /\ Before(r, Append(up[q], f))
      BY <1>3, <1>5, <2>1, <2>4, AppendOrder
    <3>2. QED
      BY <1>6, <2>1, <3>1
  <2>6. QED
    BY <2>1, <2>3, <2>4, <2>5 DEF ClientOrder, Rising, Before, SentBy, SameStream
<1>10. ASSUME NEW q \in Ports PROVE PortOrder(q)'
  <2>1. /\ Rising(up[q]) /\ SentBy(sends, up[q]) /\ up[q] \in Seq(Frames)
        /\ \A g \in Ports : g # q => Apart(up[q], up[g])
    BY <1>5 DEF OInv, Ordered, PortOrder
  <2>2. SentBy(n, up[q]) /\ Before(up[q], <<f>>) /\ f.id <= n
    BY <1>2, <1>4, <1>7, <2>1
  <2> HIDE DEF n
  <2>3. Rising(Append(up[q], f)) /\ SentBy(n, Append(up[q], f))
    BY <1>3, <2>1, <2>2, AppendOrder
  <2>4. Rising(up'[q]) /\ SentBy(n, up'[q])
    BY <1>6, <2>1, <2>2, <2>3
  <2>5. ASSUME NEW g \in Ports, g # q PROVE Apart(up'[q], up'[g])
    <3>1. Apart(up[q], up[g]) /\ up[g] \in Seq(Frames)
      BY <1>5, <2>1, <2>5
    <3>2. CASE up'[q] = up[q] /\ up'[g] = up[g]
      BY <3>1, <3>2
    <3>3. CASE q = p /\ p # NoPort /\ up'[q] = Append(up[q], f) /\ up'[g] = up[g]
      <4>1. Apart(<<f>>, up[g])
        BY <1>8, <2>5, <3>3
      <4>2. Apart(Append(up[q], f), up[g])
        BY <1>3, <2>1, <3>1, <4>1, AppendOrder
      <4>3. QED
        BY <3>3, <4>2
    <3>4. CASE g = p /\ p # NoPort /\ up'[g] = Append(up[g], f) /\ up'[q] = up[q]
      <4>1. Apart(up[q], <<f>>)
        BY <1>8, <2>5, <3>4
      <4>2. Apart(up[q], Append(up[g], f))
        BY <1>3, <3>1, <4>1, AppendOrder
      <4>3. QED
        BY <3>4, <4>2
    <3>5. QED
      BY <1>6, <2>5, <3>2, <3>3, <3>4
  <2>6. sends' = n
    BY <1>1 DEF n
  <2>7. QED
    BY <2>4, <2>5, <2>6 DEF PortOrder, Rising, SentBy, Apart, SameStream
<1>11. QED
  BY <1>9, <1>10 DEF Ordered

-----------------------------------------------------------------------------
(* The actions *)

\* Reached adds to what is on its way to a client that is connected: one frame
\* at most.
LEMMA ReachedQueue ==
    ASSUME TInv, plugged' \subseteq plugged, NEW to, NEW f, to # {} => f \in Frames,
           \A q \in plugged' : out'[q] = IF q \in to THEN Append(out[q], f) ELSE out[q],
           client' = Reached, NEW c \in Clients
    PROVE  /\ client'[c].state = client[c].state /\ client'[c].conn = client[c].conn
           /\ client'[c].torn = client[c].torn
           /\ \/ client'[c].queue = client[c].queue
              \/ /\ to # {} /\ client[c].port # NoPort
                 /\ client'[c].queue = Append(client[c].queue, f)
<1> DEFINE p == client[c].port
           new == From(out'[p], Len(out[p]) + 1)
           q == client[c].queue
<1>1. /\ client'[c] = IF p = NoPort THEN client[c]
                      ELSE IF p \notin plugged' THEN [client[c] EXCEPT !.port = NoPort]
                      ELSE [client[c] EXCEPT !.queue = q \o new]
      /\ client[c] \in ClientType /\ q \in Seq(Frames)
  BY ClientTyped DEF Reached
<1>2. CASE p = NoPort \/ p \notin plugged'
  BY <1>1, <1>2 DEF ClientType
<1>3. CASE p # NoPort /\ p \in plugged'
  <2>1. out[p] \in Seq(Frames)
    BY <1>3 DEF TInv, Types
  <2>2. client'[c] = [client[c] EXCEPT !.queue = q \o new]
    BY <1>1, <1>3
  <2>3. /\ client'[c].queue = q \o new /\ client'[c].state = client[c].state
        /\ client'[c].conn = client[c].conn /\ client'[c].torn = client[c].torn
    BY <1>1, <2>2 DEF ClientType
  <2>4. CASE p \in to
    <3>1. f \in Frames /\ out'[p] = Append(out[p], f)
      BY <1>3, <2>4
    <3>2. new = <<f>>
      BY <2>1, <3>1, OneNew
    <3> HIDE DEF new, q
    <3>3. q \o <<f>> = Append(q, f)
      BY <1>1, <3>1, AppendIsConcat
    <3>4. QED
      BY <1>3, <2>3, <2>4, <3>2, <3>3 DEF q
  <2>5. CASE p \notin to
    <3>1. new = <<>>
      BY <1>3, <2>1, <2>5, NothingNew
    <3> HIDE DEF new, q
    <3>2. q \o <<>> = q
      BY <1>1, ConcatEmptySeq
    <3>3. QED
      BY <2>3, <3>1, <3>2 DEF q
  <2>6. QED
    BY <2>4, <2>5
<1>4. QED
  BY <1>2, <1>3

\* A step of the server that gives a frame to clients, and one that unplugs a
\* port, seen from a client.
LEMMA RelayQueue ==
    ASSUME TInv, NEW p \in Ports, ServerRelays(p), NEW c \in Clients
    PROVE  /\ client'[c].state = client[c].state /\ client'[c].conn = client[c].conn
           /\ client'[c].torn = client[c].torn /\ Head(up[p]) \in Frames
           /\ \/ client'[c].queue = client[c].queue
              \/ /\ client[c].port # NoPort
                 /\ client'[c].queue = Append(client[c].queue, Head(up[p]))
<1> DEFINE f == Head(up[p])
<1>1. up[p] # <<>> /\ Relay(p, f) /\ client' = Reached
  BY DEF ServerRelays
<1>0. PICK to \in Selections(p, f) : \E dead \in SUBSET to :
        /\ Unplugged(dead)
        /\ out' = [q \in Ports |->
             IF q \in dead THEN <<>>
             ELSE IF q \in to THEN Append(out[q], f) ELSE out[q]]
  BY <1>1 DEF Relay
<1>2. PICK dead \in SUBSET to :
        /\ Unplugged(dead)
        /\ out' = [q \in Ports |->
             IF q \in dead THEN <<>>
             ELSE IF q \in to THEN Append(out[q], f) ELSE out[q]]
  BY <1>0
<1>3. plugged \subseteq Ports /\ up \in [Ports -> Seq(Frames)]
  BY DEF TInv, Types
<1>4. f \in Frames
  BY <1>1, <1>3, HeadTailProperties
<1>5. plugged' = plugged \ dead
  BY <1>2 DEF Unplugged
<1>6. \A q \in plugged' : out'[q] = IF q \in to THEN Append(out[q], f) ELSE out[q]
  BY <1>2, <1>3, <1>5
<1> HIDE DEF f
<1>7. /\ client'[c].state = client[c].state /\ client'[c].conn = client[c].conn
      /\ client'[c].torn = client[c].torn
      /\ \/ client'[c].queue = client[c].queue
         \/ client[c].port # NoPort /\ client'[c].queue = Append(client[c].queue, f)
  <2>1. plugged' \subseteq plugged /\ (to # {} => f \in Frames) /\ client' = Reached
    BY <1>1, <1>4, <1>5
  <2>2. QED
    BY <1>6, <2>1, ReachedQueue
<1>8. QED
  BY <1>4, <1>7 DEF f

LEMMA UnplugsQueue ==
    ASSUME TInv, NEW p \in Ports, Unplugs(p), NEW c \in Clients
    PROVE  /\ client'[c].state = client[c].state /\ client'[c].conn = client[c].conn
           /\ client'[c].torn = client[c].torn /\ client'[c].queue = client[c].queue
<1> DEFINE to == {}
<1>1. /\ plugged' = plugged \ {p} /\ client' = Reached
      /\ out' = [q \in Ports |-> IF q \in {p} THEN <<>> ELSE out[q]]
  BY DEF Unplugs, Unplug, Unplugged
<1>2. plugged \subseteq Ports
  BY DEF TInv, Types
<1>3. /\ to = {} /\ plugged' \subseteq plugged
      /\ \A q \in plugged' : out'[q] = IF q \in to THEN Append(out[q], p) ELSE out[q]
  BY <1>1, <1>2
<1> HIDE DEF to
<1>4. QED
  BY <1>1, <1>3, ReachedQueue

LEMMA RelaysOrdered == ASSUME OInv, TInv', NEW p \in Ports, ServerRelays(p) PROVE Ordered'
<1> DEFINE f == Head(up[p])
<1>1. /\ up[p] # <<>>
      /\ up' = [q \in Ports |-> IF q \in plugged' THEN Read(p)[q] ELSE <<>>]
      /\ UNCHANGED <<tap, sends>>
  BY DEF ServerRelays, Unread
<1>2. up \in [Ports -> Seq(Frames)] /\ TInv
  BY DEF OInv, TInv, Types
<1>3. Tail(up[p]) \in Seq(Frames)
  BY <1>1, <1>2, HeadTailProperties
<1>4. \A c \in Clients :
        \/ client'[c].queue = client[c].queue
        \/ client'[c].queue = Append(client[c].queue, f)
  BY <1>2, RelayQueue
<1>5. Read(p)[p] = Tail(up[p]) /\ \A q \in Ports : q # p => Read(p)[q] = up[q]
  BY <1>2 DEF Read
<1>6. \A q \in Ports : q # p => Drops(up'[q], up[q])
  <2> TAKE q \in Ports
  <2> HAVE q # p
  <2>1. up'[q] = up[q] \/ up'[q] = <<>>
    BY <1>1, <1>5
  <2>2. up[q] \in Seq(Frames)
    BY <1>2
  <2>3. QED
    BY <2>1, <2>2, SameDrops, NothingDrops
<1>7. Drops(up'[p], Tail(up[p]))
  <2>1. up'[p] = Tail(up[p]) \/ up'[p] = <<>>
    BY <1>1, <1>5
  <2>2. QED
    BY <1>3, <2>1, SameDrops, NothingDrops
<1> HIDE DEF f
<1>8. f = Head(up[p])
  BY DEF f
<1>9. QED
  BY <1>1, <1>4, <1>6, <1>7, <1>8, RelayStep

LEMMA UnplugsOrdered ==
    ASSUME OInv, TInv', NEW p \in Ports, Unplugs(p) PROVE Ordered'
<1>1. /\ up' = [q \in Ports |-> IF q \in plugged' THEN up[q] ELSE <<>>]
      /\ UNCHANGED <<tap, sends>>
  BY DEF Unplugs, Unread
<1>2. up \in [Ports -> Seq(Frames)] /\ TInv
  BY DEF OInv, TInv, Types
<1>3. \A c \in Clients : Drops(client'[c].queue, client[c].queue)
  BY <1>2, UnplugsQueue, ClientTyped, SameDrops
<1>4. \A q \in Ports : Drops(up'[q], up[q])
  <2> TAKE q \in Ports
  <2>1. (up'[q] = up[q] \/ up'[q] = <<>>) /\ up[q] \in Seq(Frames)
    BY <1>1, <1>2
  <2>2. QED
    BY <2>1, SameDrops, NothingDrops
<1>5. QED
  BY <1>1, <1>3, <1>4, DropStep

LEMMA IgnoresOrdered == ASSUME OInv, TInv', NEW p \in Ports, ServerIgnores(p) PROVE Ordered'
<1>1. /\ up[p] # <<>> /\ up' = [up EXCEPT ![p] = Tail(@)] /\ UNCHANGED <<client, tap, sends>>
  BY DEF ServerIgnores, Read
<1>2. \A q \in Ports :
        /\ up[q] \in Seq(Frames)
        /\ up'[q] = up[q] \/ (up[q] # <<>> /\ up'[q] = Tail(up[q]))
  BY <1>1 DEF OInv, TInv, Types
<1>3. \A q \in Ports : Drops(up'[q], up[q])
  BY <1>2, SameDrops, TailDrops
<1>4. \A c \in Clients : Drops(client'[c].queue, client[c].queue)
  BY <1>1, OrderTyped, SameDrops DEF OInv
<1>5. QED
  BY <1>1, <1>3, <1>4, DropStep

\* Clients come, open a connection, lose frames or leave.
LEMMA ClientDrops ==
    ASSUME OInv, TInv', NEW c \in Clients, UNCHANGED <<up, tap, sends>>,
           \A d \in Clients : d # c => client'[d].queue = client[d].queue,
           Drops(client'[c].queue, client[c].queue)
    PROVE  Ordered'
<1>1. \A p \in Ports : Drops(up'[p], up[p])
  BY OrderTyped, SameDrops DEF OInv
<1>2. \A d \in Clients : Drops(client'[d].queue, client[d].queue)
  BY OrderTyped, SameDrops DEF OInv
<1>3. QED
  BY <1>1, <1>2, DropStep

LEMMA ClientOrdered ==
    ASSUME OInv, TInv', NEW c \in Clients,
           Connect(c) \/ Upgrade(c) \/ GiveUp(c) \/ Swallow(c)
    PROVE  Ordered'
<1>1. client \in [Clients -> ClientType] /\ client[c].queue \in Seq(Frames)
  BY OrderTyped DEF OInv, TInv, Types
<1> Len(client[c].queue) \in Nat
  BY <1>1, LenProperties
<1>2. CASE Connect(c)
  <2>1. PICK p \in Ports :
          client' = [client EXCEPT ![c].state = "asked", ![c].port = p, ![c].conn = @ + 1]
    BY <1>2 DEF Connect
  <2>2. \A d \in Clients : client'[d].queue = client[d].queue
    BY <1>1, <2>1 DEF ClientType
  <2>3. UNCHANGED <<up, tap, sends>>
    BY <1>2 DEF Connect
  <2>4. QED
    BY <1>1, <2>2, <2>3, SameDrops, ClientDrops
<1>3. CASE Upgrade(c)
  <2>1. PICK k \in 0 .. Len(client[c].queue), cut \in BOOLEAN :
          client' = [client EXCEPT ![c].state = "open", ![c].torn = cut,
                                   ![c].queue = From(@, k + 1)]
    <3>1. PICK k \in 0 .. Len(client[c].queue) : \E cut \in {FALSE, k > 0} :
            client' = [client EXCEPT ![c].state = "open", ![c].torn = cut,
                                     ![c].queue = From(@, k + 1)]
      BY <1>3 DEF Upgrade
    <3>2. (k > 0) \in BOOLEAN
      OBVIOUS
    <3>3. QED
      BY <3>1, <3>2, Zenon
  <2>2. /\ client'[c].queue = From(client[c].queue, k + 1)
        /\ \A d \in Clients : d # c => client'[d].queue = client[d].queue
    BY <1>1, <2>1 DEF ClientType
  <2>3. UNCHANGED <<up, tap, sends>>
    BY <1>3 DEF Upgrade
  <2>4. k \in Nat
    OBVIOUS
  <2>5. QED
    BY <1>1, <2>2, <2>3, <2>4, FromDrops, ClientDrops
<1>4. CASE GiveUp(c)
  <2>1. /\ client' = [client EXCEPT ![c] = [Down EXCEPT !.conn = client[c].conn]]
        /\ UNCHANGED <<up, tap, sends>>
    BY <1>4 DEF GiveUp, GaveUp
  <2>2. /\ client'[c].queue = <<>>
        /\ \A d \in Clients : d # c => client'[d].queue = client[d].queue
    BY <1>1, <2>1 DEF Down
  <2>3. QED
    BY <2>1, <2>2, NothingDrops, ClientDrops
<1>5. CASE Swallow(c)
  <2>1. PICK k \in 1 .. Len(client[c].queue) :
          client' = [client EXCEPT ![c].queue = From(@, k + 1)]
    BY <1>5 DEF Swallow
  <2>2. /\ client'[c].queue = From(client[c].queue, k + 1)
        /\ \A d \in Clients : d # c => client'[d].queue = client[d].queue
    BY <1>1, <2>1 DEF ClientType
  <2>3. k \in Nat /\ UNCHANGED <<up, tap, sends>>
    BY <1>5 DEF Swallow
  <2>4. QED
    BY <1>1, <2>2, <2>3, FromDrops, ClientDrops
<1>6. QED
  BY <1>2, <1>3, <1>4, <1>5

LEMMA AnnounceOrdered ==
    ASSUME OInv, TInv', NEW p \in Ports, ServerAnnounces(p) PROVE Ordered'
<1>1. /\ client' = IF Attached(p) THEN [client EXCEPT ![owner[p]].state = "answered"] ELSE client
      /\ UNCHANGED <<up, tap, sends>>
  BY DEF ServerAnnounces
<1>2. \A c \in Clients : client'[c].queue = client[c].queue
  BY <1>1 DEF OInv, TInv, Types, ClientType
<1>3. /\ \A c \in Clients : Drops(client'[c].queue, client[c].queue)
      /\ \A q \in Ports : Drops(up'[q], up[q])
  BY <1>1, <1>2, OrderTyped, SameDrops DEF OInv
<1>4. QED
  BY <1>1, <1>3, DropStep

-----------------------------------------------------------------------------
(* The theorem *)

LEMMA InitOInv == Init => OInv
<1> SUFFICES ASSUME Init PROVE OInv
  OBVIOUS
<1>1. /\ \A c \in Clients : tap[c] = <<>> /\ client[c].queue = <<>>
      /\ \A p \in Ports : up[p] = <<>>
  BY DEF Init, Down
<1>2. DOMAIN << >> = {}
  OBVIOUS
<1>3. \A c \in Clients : DOMAIN Handled(c) = {}
  BY <1>1, <1>2 DEF Handled
<1>4. Ordered
  BY <1>1, <1>2, <1>3
     DEF Ordered, ClientOrder, PortOrder, Rising, Before, SentBy, Apart
<1>5. QED
  BY <1>4, InitTInv DEF OInv

LEMMA NextOInv == OInv /\ [Next]_vars => OInv'
<1> SUFFICES ASSUME OInv, [Next]_vars PROVE Ordered'
  BY NextTInv DEF OInv
<1>1. TInv'
  BY NextTInv DEF OInv
<1>2. ASSUME NEW p \in Ports, ServerStep(p) PROVE Ordered'
  <2>1. CASE ServerAnnounces(p)
    BY <1>1, <2>1, AnnounceOrdered
  <2>2. CASE ServerRelays(p)
    BY <1>1, <2>2, RelaysOrdered
  <2>3. CASE ServerIgnores(p)
    BY <1>1, <2>3, IgnoresOrdered
  <2>4. CASE ServerReaps(p) \/ ServerDrops(p)
    BY <1>1, <2>4, UnplugsOrdered DEF ServerReaps, ServerDrops
  <2>5. QED
    BY <1>2, <2>1, <2>2, <2>3, <2>4 DEF ServerStep
<1>3. ASSUME NEW c \in Clients, ClientStep(c) PROVE Ordered'
  <2>1. CASE Connect(c) \/ Upgrade(c) \/ GiveUp(c) \/ Swallow(c)
    BY <1>1, <2>1, ClientOrdered
  <2>2. CASE Handle(c)
    BY <2>2, HandleStep
  <2>3. CASE \E src \in Hosts[c], dst \in Destinations[c] : SendFrame(c, src, dst)
    BY <1>1, <2>3, SendStep
  <2>4. QED
    BY <1>3, <2>1, <2>2, <2>3 DEF ClientStep
<1>4. CASE UNCHANGED vars
  <2>1. UNCHANGED <<client, up, tap, sends>>
    BY <1>4 DEF vars
  <2>2. /\ \A c \in Clients : Drops(client'[c].queue, client[c].queue)
        /\ \A q \in Ports : Drops(up'[q], up[q])
    BY <2>1, OrderTyped, SameDrops DEF OInv
  <2>3. QED
    BY <1>1, <2>1, <2>2, DropStep
<1>5. QED
  BY <1>2, <1>3, <1>4 DEF Next

\* Whatever clients leave and come back, and however slowly the server reads what
\* they left behind: of what one client sent on one connection, every other one
\* is given no frame twice and none before an earlier one.
THEOREM FramesKeepOrder == Spec => []InOrder
<1>1. ASSUME OInv PROVE InOrder
  <2> SUFFICES ASSUME NEW c \in Clients, NEW i \in DOMAIN tap[c], NEW j \in DOMAIN tap[c], i < j,
                      SameStream(tap[c][i].frame, tap[c][j].frame)
               PROVE  tap[c][i].frame.id < tap[c][j].frame.id
    BY DEF InOrder, SameStream
  <2>1. Rising(Handled(c))
    BY <1>1 DEF OInv, Ordered, ClientOrder
  <2>2. /\ DOMAIN Handled(c) = DOMAIN tap[c]
        /\ Handled(c)[i] = tap[c][i].frame /\ Handled(c)[j] = tap[c][j].frame
    BY DEF Handled
  <2>3. QED
    BY <2>1, <2>2 DEF Rising
<1>2. Spec => []OInv
  BY InitOInv, NextOInv, PTL DEF Spec
<1>3. QED
  BY <1>1, <1>2, PTL

-----------------------------------------------------------------------------
(* The clients keep the promise.  What a tap device was given is in two parts: *)
(* from the connections its client had before, and from the present one.      *)

\* The first k entries of h are from before connection n, the others are its own.
Part(h, n, k) ==
    /\ k \in 0 .. Len(h)
    /\ \A i \in DOMAIN h : IF i > k THEN h[i].conn = n ELSE h[i].conn < n

Kept(c) ==
    /\ \E k \in Nat : Part(tap[c], client[c].conn, k)
    /\ client[c].torn => client[c].state = "open"

PInv == TInv /\ \A c \in Clients : Kept(c)

\* There is one way to part them, and it is the one Past(c) names.
LEMMA PartPast ==
    ASSUME NEW h \in Seq([frame : Frames, conn : Conns]), NEW n \in Nat, NEW k, Part(h, n, k)
    PROVE  k = CHOOSE j \in 0 .. Len(h) : \A i \in DOMAIN h : i > j <=> h[i].conn = n
<1>1. DOMAIN h = 1 .. Len(h) /\ Len(h) \in Nat /\ \A i \in DOMAIN h : h[i].conn \in Nat
  <2> DEFINE E == [frame : Frames, conn : Conns]
  <2>1. \A e \in E : e.conn \in Nat
    BY Constants
  <2> HIDE DEF E
  <2>2. h \in Seq(E)
    BY DEF E
  <2>3. DOMAIN h = 1 .. Len(h) /\ Len(h) \in Nat /\ \A i \in 1 .. Len(h) : h[i] \in E
    BY <2>2, LenProperties, ElementOfSeq
  <2>4. QED
    BY <2>1, <2>3
<1>2. k \in 0 .. Len(h) /\ \A i \in DOMAIN h : i > k <=> h[i].conn = n
  BY <1>1 DEF Part
<1>3. ASSUME NEW j \in 0 .. Len(h), \A i \in DOMAIN h : i > j <=> h[i].conn = n PROVE j = k
  <2>1. CASE j < k
    <3>1. k \in DOMAIN h /\ k > j /\ ~(k > k)
      BY <1>1, <1>2, <2>1
    <3>2. QED
      BY <1>2, <1>3, <3>1
  <2>2. CASE k < j
    <3>1. j \in DOMAIN h /\ j > k /\ ~(j > j)
      BY <1>1, <1>2, <2>2
    <3>2. QED
      BY <1>2, <1>3, <3>1
  <2>3. QED
    BY <1>1, <1>2, <2>1, <2>2
<1>4. QED
  BY <1>2, <1>3

\* What a client does is a step of ClientLink, and its entries stay parted.
LinkKept(c) == (Link(c)!LinkNext \/ UNCHANGED Link(c)!lvars) /\ Kept(c)'

\* Nothing happens to this client.
LEMMA LinkStutters ==
    ASSUME NEW c \in Clients, Kept(c), client'[c] = client[c], tap'[c] = tap[c]
    PROVE  LinkKept(c)
<1>1. UNCHANGED Link(c)!lvars
  BY DEF Link!lvars, LinkState, LinkHandled, Past
<1>2. Kept(c)'
  BY DEF Kept, Part
<1>3. QED
  BY <1>1, <1>2 DEF LinkKept

\* A step of the server changes nothing but what is on its way to the client,
\* and whether the answer to its request is.
LEMMA LinkServed ==
    ASSUME TInv, NEW c \in Clients, Kept(c), NEW f \in Frames,
           LinkState(c)' = LinkState(c), client'[c].state = "down" <=> client[c].state = "down",
           client'[c].state # client[c].state => client[c].state = "asked",
           client'[c].conn = client[c].conn, client'[c].torn = client[c].torn, tap' = tap,
           \/ client'[c].queue = client[c].queue
           \/ client[c].port # NoPort /\ client'[c].queue = Append(client[c].queue, f)
    PROVE  LinkKept(c)
<1>1. LinkHandled(c)' = LinkHandled(c)
  BY DEF LinkHandled, Past
<1>2. Kept(c)'
  BY DEF Kept, Part
<1>3. CASE client'[c].queue = client[c].queue
  <2>1. UNCHANGED Link(c)!lvars
    BY <1>1, <1>3 DEF Link!lvars
  <2>2. QED
    BY <1>2, <2>1 DEF LinkKept
<1>4. CASE client[c].port # NoPort /\ client'[c].queue = Append(client[c].queue, f)
  <2>1. client[c].state \in {"asked", "answered", "open"}
    BY <1>4, ClientTyped DEF ClientType, ClientInv
  <2>2. LinkState(c) \in {"asked", "open"}
    BY <2>1 DEF LinkState
  <2>3. Link(c)!Give(f)
    BY <1>1, <1>4, <2>2 DEF Link!Give
  <2>4. QED
    BY <1>2, <2>3 DEF LinkKept, Link!LinkNext
<1>5. QED
  BY <1>3, <1>4

LEMMA ServerLinks ==
    ASSUME PInv, NEW p \in Ports, ServerStep(p), NEW c \in Clients
    PROVE  LinkKept(c)
<1>1. TInv /\ Kept(c) /\ client \in [Clients -> ClientType]
  BY DEF PInv, TInv, Types
<1>2. CASE ServerRelays(p)
  <2>1. tap' = tap
    BY <1>2 DEF ServerRelays
  <2> DEFINE f == Head(up[p])
  <2>2. /\ client'[c].state = client[c].state /\ client'[c].conn = client[c].conn
        /\ client'[c].torn = client[c].torn /\ f \in Frames
        /\ \/ client'[c].queue = client[c].queue
           \/ client[c].port # NoPort /\ client'[c].queue = Append(client[c].queue, f)
    BY <1>1, <1>2, RelayQueue
  <2>3. LinkState(c)' = LinkState(c)
    BY <2>2 DEF LinkState
  <2> HIDE DEF f
  <2>4. QED
    BY <1>1, <2>1, <2>2, <2>3, LinkServed
<1>3. CASE ServerReaps(p) \/ ServerDrops(p)
  <2>1. Unplugs(p)
    BY <1>3 DEF ServerReaps, ServerDrops
  <2>2. /\ client'[c].state = client[c].state /\ client'[c].conn = client[c].conn
        /\ client'[c].torn = client[c].torn /\ client'[c].queue = client[c].queue
    BY <1>1, <2>1, UnplugsQueue
  <2>3. LinkState(c)' = LinkState(c) /\ tap' = tap
    BY <2>1, <2>2 DEF LinkState, Unplugs
  <2>4. LinkHandled(c)' = LinkHandled(c)
    BY <2>2, <2>3 DEF LinkHandled, Past
  <2>5. UNCHANGED Link(c)!lvars
    BY <2>2, <2>3, <2>4 DEF Link!lvars
  <2>6. Kept(c)'
    BY <1>1, <2>2, <2>3 DEF Kept, Part
  <2>7. QED
    BY <2>5, <2>6 DEF LinkKept
<1>4. CASE ServerIgnores(p)
  <2>1. client' = client /\ tap' = tap
    BY <1>4 DEF ServerIgnores
  <2>2. QED
    BY <1>1, <2>1, LinkStutters
<1>5. CASE ServerAnnounces(p)
  <2>1. /\ client' = IF Attached(p) THEN [client EXCEPT ![owner[p]].state = "answered"]
                     ELSE client
        /\ tap' = tap /\ known[p] = {}
    BY <1>5 DEF ServerAnnounces, Announce
  <2>2. CASE Attached(p) /\ owner[p] = c
    <3>1. client[c].port = p /\ p # NoPort /\ client[c].state = "asked"
      <4>1. client[c].port = p /\ p # NoPort
        BY <2>2, TunnelConstants DEF Attached
      <4>2. client[c].state \in {"asked", "answered", "open"}
        BY <1>1, <4>1, ClientTyped DEF ClientInv, ClientType
      <4>3. client[c].state \notin {"answered", "open"}
        BY <1>1, <2>1, <4>1, ClientTyped DEF ClientInv
      <4>4. QED
        BY <4>1, <4>2, <4>3
    <3>2. /\ client'[c].state = "answered" /\ client'[c].conn = client[c].conn
          /\ client'[c].torn = client[c].torn /\ client'[c].queue = client[c].queue
      BY <1>1, <2>1, <2>2 DEF ClientType
    <3>3. LinkState(c)' = LinkState(c)
      BY <3>1, <3>2 DEF LinkState
    <3>4. LinkHandled(c)' = LinkHandled(c)
      <4>1. Past(c)' = Past(c)
        BY <2>1, <3>2 DEF Past
      <4>2. client[c].state # "down" /\ client'[c].state # "down"
        BY <3>1, <3>2
      <4>3. QED
        BY <2>1, <4>1, <4>2 DEF LinkHandled
    <3>5. UNCHANGED Link(c)!lvars
      BY <3>2, <3>3, <3>4 DEF Link!lvars
    <3>6. Kept(c)'
      BY <1>1, <2>1, <3>1, <3>2 DEF Kept, Part
    <3>7. QED
      BY <3>5, <3>6 DEF LinkKept
  <2>3. CASE ~(Attached(p) /\ owner[p] = c)
    <3>1. client'[c] = client[c]
      BY <1>1, <2>1, <2>3
    <3>2. QED
      BY <1>1, <2>1, <3>1, LinkStutters
  <2>4. QED
    BY <2>2, <2>3
<1>6. QED
  BY <1>2, <1>3, <1>4, <1>5 DEF ServerStep

LEMMA TapTyped ==
    ASSUME TInv, NEW c \in Clients
    PROVE  /\ tap[c] \in Seq([frame : Frames, conn : Conns])
           /\ Len(tap[c]) \in Nat /\ DOMAIN tap[c] = 1 .. Len(tap[c])
<1>1. tap[c] \in Seq([frame : Frames, conn : Conns])
  BY DEF TInv, Types
<1>2. QED
  BY <1>1, LenProperties

\* A new connection has not handled anything.
LEMMA ConnectLinks == ASSUME PInv, NEW c \in Clients, Connect(c) PROVE LinkKept(c)
<1> DEFINE n == client[c].conn
           h == tap[c]
<1>1. /\ TInv /\ Kept(c) /\ client \in [Clients -> ClientType] /\ n \in Nat
      /\ client[c] \in ClientType
  BY ClientTyped DEF PInv, TInv, Types
<1>2. PICK p \in Ports :
        client' = [client EXCEPT ![c].state = "asked", ![c].port = p, ![c].conn = @ + 1]
  BY DEF Connect
<1>3. /\ client[c].state = "down" /\ client'[c].state = "asked" /\ client'[c].conn = n + 1
      /\ client'[c].torn = client[c].torn /\ client'[c].queue = client[c].queue /\ tap' = tap
  BY <1>1, <1>2 DEF Connect, ClientType
<1>4. h \in Seq([frame : Frames, conn : Conns]) /\ Len(h) \in Nat /\ DOMAIN h = 1 .. Len(h)
  BY <1>1, TapTyped
<1>5. Part(h, n + 1, Len(h))
  <2>1. PICK k \in Nat : Part(h, n, k)
    BY <1>1 DEF Kept
  <2>2. \A i \in DOMAIN h : h[i].conn <= n /\ h[i].conn \in Nat
    <3> DEFINE E == [frame : Frames, conn : Conns]
    <3>1. \A e \in E : e.conn \in Nat
      BY Constants
    <3> HIDE DEF E
    <3>2. \A i \in DOMAIN h : h[i] \in E
      BY <1>4, ElementOfSeq DEF E
    <3>3. \A i \in DOMAIN h : h[i].conn \in Nat
      BY <3>1, <3>2
    <3> HIDE DEF h, n
    <3>4. QED
      BY <1>1, <2>1, <3>3 DEF Part
  <2> HIDE DEF h, n
  <2>3. QED
    BY <1>1, <1>4, <2>2 DEF Part
<1>6. LinkHandled(c) = <<>>
  BY <1>3 DEF LinkHandled
<1>7. LinkHandled(c)' = <<>>
  <2> DEFINE g == Past(c)'
  <2>1. LinkHandled(c)' = [i \in 1 .. Len(h) - g |-> h[g + i].frame]
    BY <1>3 DEF LinkHandled
  <2>2. g = CHOOSE j \in 0 .. Len(h) : \A i \in DOMAIN h : i > j <=> h[i].conn = n + 1
    BY <1>3 DEF Past
  <2>3. n + 1 \in Nat
    BY <1>1
  <2> HIDE DEF g, h, n
  <2>4. g = Len(h)
    BY <1>4, <1>5, <2>2, <2>3, PartPast
  <2>5. 1 .. Len(h) - g = {}
    BY <1>4, <2>4
  <2>6. QED
    BY <2>1, <2>5
<1>8. Link(c)!Ask
  <2>1. LinkState(c) = "down" /\ LinkState(c)' = "asked"
    BY <1>3 DEF LinkState
  <2>2. QED
    BY <1>3, <1>6, <1>7, <2>1 DEF Link!Ask
<1>9. Kept(c)'
  <2>1. client[c].torn = FALSE
    BY <1>1, <1>3 DEF Kept, ClientType
  <2>2. Len(h) \in Nat /\ Part(h, n + 1, Len(h))
    BY <1>4, <1>5
  <2>3. \E k \in Nat : Part(h, n + 1, k)
    BY <2>2
  <2>4. QED
    BY <1>3, <2>1, <2>3 DEF Kept, Part
<1>10. QED
  BY <1>8, <1>9 DEF LinkKept, Link!LinkNext

\* A client that stays connected, or gives up, without a frame for its tap device.
LEMMA KeptSame ==
    ASSUME NEW c \in Clients, Kept(c), tap' = tap, client'[c].conn = client[c].conn,
           client'[c].torn => client'[c].state = "open"
    PROVE  Kept(c)'
BY DEF Kept, Part

LEMMA HandledSame ==
    ASSUME NEW c \in Clients, tap' = tap, client'[c].conn = client[c].conn,
           client[c].state # "down", client'[c].state # "down"
    PROVE  LinkHandled(c)' = LinkHandled(c)
<1>1. Past(c)' = Past(c)
  BY DEF Past
<1>2. QED
  BY <1>1 DEF LinkHandled

LEMMA UpgradeLinks == ASSUME PInv, NEW c \in Clients, Upgrade(c) PROVE LinkKept(c)
<1>1. /\ TInv /\ Kept(c) /\ client \in [Clients -> ClientType] /\ client[c] \in ClientType
      /\ client[c].state = "answered" /\ tap' = tap
  BY ClientTyped DEF PInv, TInv, Types, Upgrade
<1> DEFINE q == client[c].queue
<1>2. PICK k \in 0 .. Len(q) : \E cut \in {FALSE, k > 0} :
        client' = [client EXCEPT ![c].state = "open", ![c].torn = cut,
                                 ![c].queue = From(@, k + 1)]
  BY DEF Upgrade
<1>3. PICK cut \in {FALSE, k > 0} :
        client' = [client EXCEPT ![c].state = "open", ![c].torn = cut,
                                 ![c].queue = From(@, k + 1)]
  BY <1>2
<1>4. /\ client'[c].state = "open" /\ client'[c].conn = client[c].conn
      /\ client'[c].queue = SubSeq(q, k + 1, Len(q)) /\ client'[c].torn = cut
  BY <1>1, <1>3 DEF ClientType, From
<1>5. LinkHandled(c)' = LinkHandled(c)
  BY <1>1, <1>4, HandledSame
<1>6. Kept(c)'
  BY <1>1, <1>4, KeptSame
<1>7. LinkState(c) = "asked" /\ LinkState(c)' = "open"
  BY <1>1, <1>4 DEF LinkState
<1>8. Link(c)!Open(k)
  BY <1>4, <1>5, <1>7 DEF Link!Open
<1>9. QED
  BY <1>6, <1>8 DEF LinkKept, Link!LinkNext

LEMMA SwallowLinks == ASSUME PInv, NEW c \in Clients, Swallow(c) PROVE LinkKept(c)
<1>1. /\ TInv /\ Kept(c) /\ client \in [Clients -> ClientType] /\ client[c] \in ClientType
      /\ client[c].torn /\ tap' = tap
  BY ClientTyped DEF PInv, TInv, Types, Swallow
<1> DEFINE q == client[c].queue
<1>2. PICK k \in 1 .. Len(q) : client' = [client EXCEPT ![c].queue = From(@, k + 1)]
  BY DEF Swallow
<1>3. /\ client'[c].state = client[c].state /\ client'[c].conn = client[c].conn
      /\ client'[c].queue = SubSeq(q, k + 1, Len(q)) /\ client'[c].torn = client[c].torn
      /\ client[c].state = "open"
  BY <1>1, <1>2 DEF ClientType, From, Kept
<1>4. LinkHandled(c)' = LinkHandled(c)
  BY <1>1, <1>3, HandledSame
<1>5. Kept(c)'
  BY <1>1, <1>3, KeptSame
<1>6. LinkState(c) = "open" /\ LinkState(c)' = "open"
  BY <1>3 DEF LinkState
<1>7. Link(c)!Swallow(k)
  BY <1>1, <1>3, <1>4, <1>6 DEF Link!Swallow
<1>8. k \in 0 .. Len(q)
  BY <1>1, ClientTyped, LenProperties
<1>9. QED
  BY <1>5, <1>7, <1>8 DEF LinkKept, Link!LinkNext

LEMMA GiveUpLinks == ASSUME PInv, NEW c \in Clients, GiveUp(c) PROVE LinkKept(c)
<1>1. /\ TInv /\ Kept(c) /\ client \in [Clients -> ClientType] /\ client[c] \in ClientType
      /\ client[c].state # "down" /\ tap' = tap
      /\ client' = [client EXCEPT ![c] = [Down EXCEPT !.conn = client[c].conn]]
  BY ClientTyped DEF PInv, TInv, Types, GiveUp, GaveUp
<1>2. /\ client'[c].state = "down" /\ client'[c].conn = client[c].conn
      /\ client'[c].queue = <<>> /\ client'[c].torn = FALSE
  BY <1>1 DEF Down
<1>3. LinkHandled(c)' = <<>> /\ LinkState(c)' = "down"
  BY <1>2 DEF LinkHandled, LinkState
<1>4. LinkState(c) \in {"asked", "open"}
  BY <1>1 DEF LinkState, ClientType
<1>5. Link(c)!GiveUp
  BY <1>2, <1>3, <1>4 DEF Link!GiveUp
<1>6. Kept(c)'
  BY <1>1, <1>2, KeptSame
<1>7. QED
  BY <1>5, <1>6 DEF LinkKept, Link!LinkNext

\* The entries behind the first k, when there is another one.
LEMMA EntryAppended ==
    ASSUME NEW h \in Seq([frame : Frames, conn : Conns]),
           NEW e \in [frame : Frames, conn : Conns], NEW k \in 0 .. Len(h)
    PROVE  [i \in 1 .. Len(Append(h, e)) - k |-> Append(h, e)[k + i].frame]
             = Append([i \in 1 .. Len(h) - k |-> h[k + i].frame], e.frame)
<1> DEFINE E == [frame : Frames, conn : Conns]
           r == Append(h, e)
           n == Len(h)
           g == [i \in 1 .. n - k |-> h[k + i].frame]
           x == [i \in 1 .. Len(r) - k |-> r[k + i].frame]
           y == Append(g, e.frame)
<1>1. h \in Seq(E) /\ e \in E /\ \A d \in E : d.frame \in Frames
  OBVIOUS
<1> HIDE DEF E
<1>2. /\ Len(r) = n + 1 /\ r[n + 1] = e /\ \A i \in 1 .. n : r[i] = h[i]
      /\ n \in Nat /\ \A i \in 1 .. n : h[i] \in E
  BY <1>1, AppendProperties, LenProperties, ElementOfSeq
<1>3. e.frame \in Frames /\ \A i \in 1 .. n : h[i].frame \in Frames
  BY <1>2, <1>1
<1> HIDE DEF r, n
<1>4. n - k \in Nat /\ k \in Nat /\ \A i \in 1 .. n - k : k + i \in 1 .. n
  BY <1>2 DEF n
<1>5. g \in [1 .. n - k -> Frames]
  BY <1>3, <1>4
<1>6. g \in Seq(Frames) /\ Len(g) = n - k
  <2>1. Seq(Frames) = UNION {[1 .. m -> Frames] : m \in Nat}
    BY SeqDef
  <2> DEFINE m == n - k
  <2>2. m \in Nat /\ g \in [1 .. m -> Frames]
    BY <1>4, <1>5
  <2> HIDE DEF g, m
  <2>3. g \in Seq(Frames)
    BY <2>1, <2>2, Zenon
  <2>4. Len(g) = m
    BY <2>2, <2>3, LenProperties
  <2>5. QED
    BY <2>3, <2>4 DEF m
<1>7. \A i \in 1 .. n - k : g[i] = h[k + i].frame
  OBVIOUS
<1> HIDE DEF g
<1>8. /\ y \in Seq(Frames) /\ Len(y) = n - k + 1 /\ y[n - k + 1] = e.frame
      /\ \A i \in 1 .. n - k : y[i] = g[i]
  BY <1>3, <1>6, AppendProperties
<1> HIDE DEF y
<1>9. y \in [1 .. n - k + 1 -> Frames]
  BY <1>8, LenProperties
<1>10. \A i \in 1 .. n - k + 1 : y[i] = r[k + i].frame
  <2> TAKE i \in 1 .. n - k + 1
  <2>1. CASE i = n - k + 1
    <3>1. k + i = n + 1
      BY <1>2, <1>4, <2>1
    <3>2. QED
      BY <1>2, <1>8, <2>1, <3>1
  <2>2. CASE i \in 1 .. n - k
    <3>1. k + i \in 1 .. n /\ y[i] = g[i] /\ g[i] = h[k + i].frame
      BY <1>4, <1>7, <1>8, <2>2
    <3>2. QED
      BY <1>2, <3>1
  <2>3. QED
    BY <1>4, <2>1, <2>2
<1>11. Len(r) - k = n - k + 1
  BY <1>2, <1>4
<1>12. x = [i \in 1 .. n - k + 1 |-> r[k + i].frame]
  BY <1>11
<1> HIDE DEF x
<1>13. x = y
  BY <1>9, <1>10, <1>12
<1>14. QED
  BY <1>13 DEF x, y, g, n, r

\* What is handled is on the present connection, behind all the others.
LEMMA HandleLinks == ASSUME PInv, NEW c \in Clients, Handle(c) PROVE LinkKept(c)
<1> DEFINE E == [frame : Frames, conn : Conns]
           n == client[c].conn
           h == tap[c]
           f == Head(client[c].queue)
           e == [frame |-> f, conn |-> n]
<1>1. /\ TInv /\ Kept(c) /\ client \in [Clients -> ClientType] /\ client[c] \in ClientType
      /\ client[c].state = "open" /\ client[c].queue # <<>>
      /\ tap' = [tap EXCEPT ![c] = Append(@, e)]
      /\ client' = [client EXCEPT ![c].queue = Tail(@)]
  BY ClientTyped DEF PInv, TInv, Types, Handle
<1>2. /\ client'[c].state = "open" /\ client'[c].conn = n
      /\ client'[c].torn = client[c].torn /\ client'[c].queue = Tail(client[c].queue)
  BY <1>1 DEF ClientType
<1>3. tap'[c] = Append(h, e)
  BY <1>1 DEF TInv, Types
<1>4. h \in Seq(E) /\ Len(h) \in Nat /\ DOMAIN h = 1 .. Len(h)
  BY <1>1, TapTyped
<1>5. e \in E /\ n \in Nat
  <2>1. f \in Frames
    BY <1>1, ClientTyped, HeadTailProperties
  <2>2. n \in Conns /\ n \in Nat
    <3>1. n \in 0 .. MaxConns[c] /\ n > 0
      BY <1>1, ClientTyped DEF ClientInv
    <3>2. QED
      BY <3>1, Constants
  <2>3. QED
    BY <2>1, <2>2
<1>6. e.conn = n /\ e.frame = f
  OBVIOUS
<1>7. PICK k \in Nat : Part(h, n, k)
  BY <1>1 DEF Kept
<1> DEFINE r == Append(h, e)
<1> HIDE DEF E, e, h, n, f
<1>8. /\ r \in Seq(E) /\ Len(r) = Len(h) + 1 /\ DOMAIN r = 1 .. Len(r)
      /\ r[Len(h) + 1] = e /\ \A i \in 1 .. Len(h) : r[i] = h[i]
  BY <1>4, <1>5, AppendProperties, LenProperties
<1> HIDE DEF r
<1>9. Part(r, n, k)
  <2>1. k \in 0 .. Len(r)
    BY <1>4, <1>7, <1>8 DEF Part
  <2>2. ASSUME NEW i \in DOMAIN r PROVE IF i > k THEN r[i].conn = n ELSE r[i].conn < n
    <3>1. CASE i = Len(h) + 1
      <4>1. i > k
        BY <1>4, <1>7, <3>1 DEF Part
      <4>2. QED
        BY <1>6, <1>8, <3>1, <4>1
    <3>2. CASE i \in 1 .. Len(h)
      BY <1>4, <1>7, <1>8, <3>2 DEF Part
    <3>3. QED
      BY <1>4, <1>8, <3>1, <3>2
  <2>3. QED
    BY <2>1, <2>2 DEF Part
<1>10. LinkHandled(c) = [i \in 1 .. Len(h) - k |-> h[k + i].frame]
  <2> DEFINE p == Past(c)
  <2>1. LinkHandled(c) = [i \in 1 .. Len(h) - p |-> h[p + i].frame]
    BY <1>1 DEF LinkHandled, h
  <2>2. p = CHOOSE j \in 0 .. Len(h) : \A i \in DOMAIN h : i > j <=> h[i].conn = n
    BY DEF Past, h, n
  <2> HIDE DEF p
  <2>3. QED
    <3>1. p = k
      BY <1>4, <1>5, <1>7, <2>2, PartPast DEF E
    <3>2. QED
      BY <2>1, <3>1
<1>11. LinkHandled(c)' = [i \in 1 .. Len(r) - k |-> r[k + i].frame]
  <2> DEFINE p == Past(c)'
  <2>1. LinkHandled(c)' = [i \in 1 .. Len(r) - p |-> r[p + i].frame]
    BY <1>2, <1>3 DEF LinkHandled, r
  <2>2. p = CHOOSE j \in 0 .. Len(r) : \A i \in DOMAIN r : i > j <=> r[i].conn = n
    BY <1>2, <1>3 DEF Past, r
  <2> HIDE DEF p
  <2>3. QED
    <3>1. p = k
      BY <1>5, <1>8, <1>9, <2>2, PartPast DEF E
    <3>2. QED
      BY <2>1, <3>1
<1>12. LinkHandled(c)' = Append(LinkHandled(c), f)
  <2>1. k \in 0 .. Len(h)
    BY <1>7 DEF Part
  <2>2. [i \in 1 .. Len(r) - k |-> r[k + i].frame]
          = Append([i \in 1 .. Len(h) - k |-> h[k + i].frame], e.frame)
    BY <1>4, <1>5, <2>1, EntryAppended DEF E, r
  <2>3. QED
    BY <1>6, <1>10, <1>11, <2>2
<1>13. LinkState(c) = "open" /\ LinkState(c)' = "open"
  BY <1>1, <1>2 DEF LinkState
<1>14. Link(c)!Handle
  BY <1>1, <1>2, <1>12, <1>13 DEF Link!Handle, f
<1>15. Kept(c)'
  <2>1. \E j \in Nat : Part(r, n, j)
    BY <1>9
  <2>2. QED
    BY <1>2, <1>3, <2>1 DEF Kept, Part, r
<1>16. QED
  BY <1>14, <1>15 DEF LinkKept, Link!LinkNext

\* What a client does is seen on its own connection only.
LEMMA ClientLinks ==
    ASSUME PInv, NEW c \in Clients, ClientStep(c), NEW d \in Clients
    PROVE  LinkKept(d)
<1>1. client \in [Clients -> ClientType] /\ Kept(d) /\ tap \in [Clients -> Seq([frame : Frames, conn : Conns])]
  BY DEF PInv, TInv, Types
<1>2. CASE \E src \in Hosts[c], dst \in Destinations[c] : SendFrame(c, src, dst)
  <2>1. client' = client /\ tap' = tap
    BY <1>2 DEF SendFrame
  <2>2. QED
    BY <1>1, <2>1, LinkStutters
<1>3. CASE Connect(c)
  <2>1. d # c => client'[d] = client[d] /\ tap'[d] = tap[d]
    BY <1>1, <1>3 DEF Connect
  <2>2. QED
    BY <1>1, <1>3, <2>1, ConnectLinks, LinkStutters
<1>4. CASE Upgrade(c)
  <2>1. d # c => client'[d] = client[d] /\ tap'[d] = tap[d]
    BY <1>1, <1>4 DEF Upgrade
  <2>2. QED
    BY <1>1, <1>4, <2>1, UpgradeLinks, LinkStutters
<1>5. CASE GiveUp(c)
  <2>1. d # c => client'[d] = client[d] /\ tap'[d] = tap[d]
    BY <1>1, <1>5 DEF GiveUp, GaveUp
  <2>2. QED
    BY <1>1, <1>5, <2>1, GiveUpLinks, LinkStutters
<1>6. CASE Handle(c)
  <2>1. d # c => client'[d] = client[d] /\ tap'[d] = tap[d]
    BY <1>1, <1>6 DEF Handle
  <2>2. QED
    BY <1>1, <1>6, <2>1, HandleLinks, LinkStutters
<1>7. CASE Swallow(c)
  <2>1. d # c => client'[d] = client[d] /\ tap'[d] = tap[d]
    BY <1>1, <1>7 DEF Swallow
  <2>2. QED
    BY <1>1, <1>7, <2>1, SwallowLinks, LinkStutters
<1>8. QED
  BY <1>2, <1>3, <1>4, <1>5, <1>6, <1>7 DEF ClientStep

LEMMA NextLinks == ASSUME PInv, [Next]_vars PROVE \A c \in Clients : LinkKept(c)
<1> TAKE c \in Clients
<1>1. CASE UNCHANGED vars
  <2>1. client' = client /\ tap' = tap /\ Kept(c)
    BY <1>1 DEF PInv, vars
  <2>2. QED
    BY <2>1, LinkStutters
<1>2. CASE Next
  BY <1>2, ServerLinks, ClientLinks DEF Next
<1>3. QED
  BY <1>1, <1>2

LEMMA InitPInv == Init => PInv
<1> SUFFICES ASSUME Init PROVE PInv
  OBVIOUS
<1>1. ASSUME NEW c \in Clients PROVE Kept(c)
  <2>1. tap[c] = <<>> /\ client[c].conn = 0 /\ client[c].torn = FALSE
    BY DEF Init, Down
  <2>2. Part(<<>>, 0, 0)
    BY DEF Part
  <2>3. QED
    BY <2>1, <2>2 DEF Kept
<1>2. QED
  BY <1>1, InitTInv DEF PInv

LEMMA NextPInv == PInv /\ [Next]_vars => PInv'
BY NextTInv, NextLinks DEF PInv, LinkKept

\* Seen from its tap device, every client of the tunnel does what ClientLink
\* promises, whichever of its connections the server still holds: it handles what
\* it is given once and in order, and nothing of one connection on the next.
THEOREM TunnelKeepsLink == Spec => ClientsKeepPromise
<1>1. PInv /\ [Next]_vars => [\A c \in Clients : Link(c)!LinkNext \/ UNCHANGED Link(c)!lvars]_vars
  BY NextLinks DEF LinkKept
<1>2. Spec => []PInv
  BY InitPInv, NextPInv, PTL DEF Spec
<1>3. QED
  BY <1>1, <1>2, PTL DEF Spec, ClientsKeepPromise
=============================================================================
