# A verification project for vpn-ws

TLA+ models of the C core of this repository (`src/src/`): the websocket VPN
server, its client, the bytes between them and the tunnel they make together; and
of its HTTPS2 transport (`server_h2/`, `clients/`). TLC configurations check them
on small instances, and TLAPS checks theorems about the server, the client, the
tunnel, the bytes and the mailbox for every value of the constants.

    tlc -workers 2 -config Forward.cfg MCVpnServer.tla     # any cfg, with its MC module
    tlapm VpnServerProofs.tla                              # any *Proofs.tla

`PROJECT.json` lists the runs, the source lines each definition stands for, the
mutants every property was tried on, the hazards of the code, and the findings.

## 1. The system

A vpn-ws server is a layer-2 switch. Hosts connect to it by websocket through a
web server in front (nginx), which passes the upgrade request on as a *uwsgi*
packet and then relays bytes both ways. Each client bridges its tap device with
its connection; the server may have a tap device of its own.

Beside it stands a mailbox over HTTPS: windows of a GUI post payloads to a client
identifier and poll one.

| Part | Source | State | Operations |
|---|---|---|---|
| event loop, peer table | `main.c`, `event.c`, `socket.c`, `memory.c` | `vpn_ws_conf.peers`, `peers_n`; epoll's interest per descriptor; the batch of events | wait, accept, create and destroy a peer |
| descriptor handler | `io.c` | `peer->buf/pos`, `write_buf/write_pos`, `is_writing`, `handshake`; local `dirty` | continue a write, read, the "again" loop, forward a frame |
| addresses | `macmap.c` | `peer->mac`, `mac_collected`, `macs` (bridges) | look up, learn |
| handshake, control | `uwsgi.c` | `peer->vars`, `ctrl`, `bridge` | parse a request, answer 101, list peers as JSON, kill a peer |
| messages | `websocket.c`, `bits.c` | none | header and length of the message at the start of the buffer |
| client | `client.c` | `throttle`, `ssl_ctx`, `peer->buf`, select()'s set | connect, wait for 101, read, parse, tap to websocket, ping, reconnect |
| client TLS | `ssl.c` | the OpenSSL session | handshake, read, write, close |
| tap devices, start-up | `tuntap.c`, `exec.c`, `utils.c`, `error.c` | none after start-up | open a device, run a command, log |
| digests | `sha1.c`, `base64.c` | none | `Sec-WebSocket-Accept` |
| HTTPS2 mailbox | `server_h2/https2_payload_server.py`, `clients/https2_payload_poll.py`, `clients/https2_payload_cli.py` | `QUEUES`: a queue per client identifier, in the worker's memory | `/send`, `/recv`; poll every second, send once |
| desktop GUI | `clients/lollipop_gui.py` | the poller it has started | connect, disconnect, send |
| other front ends, packaging | `clients/` (iOS, Go, Perl), `docker/` | | |

The server is one thread; a handler runs to its end, but *every step of it is
interleaved with the world*: more data arrives, clients stop reading, start
reading again or hang up. Peers interact through the table: the handler of one
peer writes into the buffers of others, changes what epoll watches for them, and
destroys them when a write fails (`io.c:294-307`) or when a control request says
so (`uwsgi.c:299-325`), while their events may still be in the batch.
The client is one thread that blocks in select(), read, write, or OpenSSL. The
mailbox is one synchronous worker in the container and a thread per request in
development; its pollers are processes that time out and are killed.

What is hard, and what makes each part correct:

- *Batches and destruction.* An event of a destroyed peer must not be handled,
  a descriptor that is closed and given out again within a batch must not confuse
  its old and its new peer, and every index must lie inside the table:
  `TableOK`, `BatchLive`, `SpuriousEventHarmless`.
- *Blocked writes.* Three paths leave bytes in a write buffer (101 reply, JSON
  reply, forward), two flags record it (`is_writing`, epoll's interest), and
  other peers' forwards may empty it: `PendingWatched`, `WritingEnds`,
  `FlushedEventually`, `CtrlClosed`.
- *The handshake is a protocol in the same buffer as the frames.* The request
  is parsed again when the reply blocked: `RightParser`, `ReplyFirst`,
  `AddressAnnounced`, `NothingLeft`.
- *Switching.* Exactly the right ports get a frame, once, whole and in order, also
  when a recipient fails half way: `ImplementsSwitch`, `NoHairpin`.
- *The client.* Whatever fails, it must come back; nothing may be handled twice,
  out of order or on the wrong connection; both directions must be served:
  `InOrder`, `ImplementsLink`, `CloseNoticed`, `ServerHeard`, `TapServed`,
  `SessionsClosedOnce`, `NeverDeadBlocked`.
- *Bytes.* Messages arrive in arbitrary pieces, are unmasked in place and get
  their header moved; a query string is cut while it is scanned, and a list is
  written with a comma too many: `TapGetsFrames`, `PeerGetsFrames`,
  `NothingLeft`, `AddressAnnounced`, `KillNamed`, `ListDecodes`.
- *The tunnel.* A client is back before the server has noticed that it left; two
  peers hold its address and frames of the old connection are still unread:
  `InOrder`, `NoEcho`, `Private`, `AddressSettles` of `Tunnel`.
- *The mailbox.* A request outlives the client that sent it, two receivers test
  before either pops, a restart forgets: `AtMostOnce`, `InOrder`, `Accounted`,
  `NoServerError`, `Collected` of `Mailbox`.

## 2. Modules

| Module | What it is |
|---|---|
| `MacAddresses` | the kinds of addresses of `macmap.c` |
| `VpnServer` | event loop, peer table, handler, handshake and control requests |
| `EthernetSwitch` | abstract specification: a learning switch with ports that come and go |
| `VpnSwitch` | the refinement mapping from `VpnServer` to `EthernetSwitch` |
| `MCVpnServer` | instances of it: requests and traffic a cfg chooses from |
| `VpnClient`, `MCVpnClient` | the client, with the server's peer at its other end |
| `ClientLink` | abstract specification: what a client promises about a connection |
| `VpnLink` | the refinement mapping from `VpnClient` to `ClientLink` |
| `Tunnel`, `MCTunnel` | `EthernetSwitch` and one `ClientLink` per client, with what lies between them |
| `WireFormat`, `MCWireFormat` | the bytes of a connection, from uwsgi request to forwarded frame |
| `ControlApi` | the query string and the JSON text of a control request |
| `ListReader` | a JSON reader for the list of peers, byte by byte, and what it must find |
| `Mailbox`, `MCMailbox` | the HTTPS2 server, its pollers and the windows that start them |
| `VpnServerProofs` | types, table and watched sockets of `VpnServer` |
| `VpnParserProofs` | what goes in and out of a peer keeps its order |
| `VpnEventProofs` | stale events do no harm; servers without kills; what comes back to its sender |
| `VpnSwitchProofs` | `VpnServer` implements `EthernetSwitch` |
| `VpnClientProofs` | types of the client, the order of what it handles, and that it implements `ClientLink` |
| `TunnelProofs` | the tunnel's types, who is given which frames, their order, and that its clients are `ClientLink`s |
| `WireFormatProofs` | the bytes of a connection mean the same however they arrive; what a request says is what is read of it; the list of peers can be read back |
| `MailboxProofs` | the mailbox's types, its single worker, at most one copy, the order, what is lost |

### VpnServer

`Wait` is `epoll_wait`: it takes a batch of ready descriptors. While `batch` is
not empty and no handler is in its loop (`cur = NoFd`), the loop of `main()`
takes any descriptor of it: the listening socket (`Accept`, `AcceptFails`,
`CreateFails`) or a peer (`EventStep`). `vpn_ws_manage_fd` is split where the
code loops back to `again`: `EventStep` is the write or the read at its top,
and each `LoopStep` is one turn (a handshake, a control request, one
websocket message with everything it causes: unmasking, learning, the writes to
all recipients, what fails of them, and `decapitate`). `dirty` ends the batch as
in `main.c:198`.

The order in which epoll reports events is not promised, so any order of the
batch is allowed. `main()` asks for 64 events at a time; with the few
descriptors of an instance all that are ready fit.

Data: an item of a socket is a whole message, reply or frame. A message that is
not yet complete makes a read that brings nothing (`ReadNothing`); a cut write
leaves whole items behind. `WireFormat` is what justifies this: messages are
found again whatever the pieces. A frame is its two addresses; the text of the
JSON reply, the digest and log lines are left out. A request is what the
handshake looks at: control or not, the descriptor to kill, whether it has a
key, where the address stands, `bridge`, how many variables there are.

A write's outcome is any part of the queue, an error when the client is gone,
and, with `SyscallsFail`, an error at any time. Allocations and `epoll_ctl` may
fail then too. Writes to a tap device are taken at once, as tap devices drop
rather than block. Malloc'ed bytes behind a freed pointer are not modelled: a
step that would use one sets `fault` and the behaviour ends.

A client may send more behind its request, before it has an answer. When the reply
to a control request was blocked, its request stays in the buffer (`RequestLeft`) with
`handshake` at 1, and what comes next has the websocket parser read it: `Misread`,
another end of a behaviour, as an item has no bytes that could be parsed as another.

### EthernetSwitch and VpnSwitch

The switch knows ports, the addresses seen at each, which are bridges, and the
frames given to each. `Relay` is atomic: a frame goes to every port its
destination selects, and any of those may die of it. The mapping takes live
peers for ports and, for what was given to a port, the frames in
`sent \o writeBuf`, so that when bytes leave the buffer is a stutter.

### VpnClient, ClientLink and VpnLink

`pc` names the calls of `main()` the process may wait in. `link` is the
connection: what is on its way in both directions, with `Capacity` items each,
and the server's end, which follows `io.c`: what does not fit goes to
`write_buf`, and from then on the socket is watched for output only. An SSL
session takes one record at a time off the socket and may hold messages that
select() does not see (`held`). `ssl` is `vpn_ws_conf.ssl_ctx`, which keeps its
value when the session it points to is freed. `vpn_ws_wait_101` drops what it
read behind the answer, and may cut a message in two (`Torn`), whose rest is
then parsed as if it were a header: the model lets it swallow anything.
select() may report a descriptor that has nothing, whose read then finds nothing
(`ReadNothing`, `TapReadAgain`), and may fail itself (`SelectFails`), which ends the
process.

`ClientLink` says this without calls, buffers or sessions: a client asks, opens
a connection and loses the first k messages with that, handles the others once
and in order, and gives up with all that is left. The mapping takes `buf`, the
connection and the server's write buffer, one behind the other, for its queue.

### Tunnel

The composition, over the two abstract specifications: the server is
`EthernetSwitch` (`VpnSwitch` shows that it may be), each client is a
`ClientLink` (`ClientsKeepPromise` checks that `Tunnel` treats it as one). What
`Tunnel` adds is between them: a port per connection, the lowest free descriptor;
the address a port announces; frames a client has sent and the server has not
read (`up`); and the time between a client's giving up and the server's reaping
the port, in which it may be back on another one. A client handles what
`Upgrade` and `Swallow` leave of its queue, and what goes to a closed connection
is lost. What is on its way to a client need not arrive: it may be waiting in the
server's `write_buf` for good (`find_flush`), and nothing here says otherwise.

### WireFormat and ControlApi

Bytes are numbers from 0 to 255 and sequences start at 1. The web server's
encoder and the client produce bytes; `Arrive(n)` moves some of them into
`peer->buf`; `Handshake` and the `Handle` actions parse them as the code does.
A frame goes to a tap device (payload) and to another client (rewritten
header), which also gets frames of the tap device. When the 101 cannot be
written the request is left in the buffer with the NULs `strtoul` needed, and is
parsed again after the next read. A length is sent in any form that can say it
(`LengthForms`), as `vpn_ws_websocket_parse` takes them all. The check in front of the
switch counts the header, so that a frame without its addresses may pass; whether such
a frame goes on depends on the bytes behind it, and both are allowed (`HandleFrame`).

`ControlApi` has the pure functions of a control request as the code computes
them: `vpn_ws_qs_get` with its scan that checks each part when it meets an
ampersand, `json_append_json`, and `vpn_ws_ctrl_json` with a comma behind every
peer and the last one taken back. `WireFormat` states what the first is for: the
first part with the key and a value names the peer to kill; `ListReader` what the
others are for: a reader of JSON finds in the list the peers that are no control
connections. Numbers are added up in an int of `2 * IntHalf`
values that wraps around. A list longer than `JsonRoom` may be `NotAList`: `json_append` moves a buffer of which its
callers keep the old address.

### Mailbox

A request is a slot from the moment it leaves its client to the end of its
answer; nothing ties the two ends together, so that a poller that times out or
is killed leaves behind a request that is handled nevertheless. `RecvTest` and
`RecvPop` are the two lines of `recv_data`, which threads may interleave; with
`threaded` false a worker finishes a request before it takes the next. A window
starts and kills its poller and is busy while it sends. `Restart` empties
`QUEUES`, and the proxy answers 502 to what was not answered, but for any requests
that no worker had accepted yet: the next one serves these.

## 3. Runs

| Run | Instance | Checks | Shows |
|---|---|---|---|
| `forward` | 3 descriptors, 3 connections, 1 message; anonymous and announcing clients, kill | `TypeOK TableOK PendingWatched RightParser ReplyFirst SpuriousEventHarmless` | table and buffers agree in every interleaving of short writes, kills, hang-ups and reuse |
| `switch` | tap device that is a bridge, clients that are bridges or not, no-broadcast, a bad request and a bad message; every call may fail | `TableOK ImplementsSwitch NoHairpin` | learning, flooding, moving addresses, the sender as its own recipient; partial failures are contained |
| `liveness` | 2 descriptors, 3 connections, 2 messages, fairness | `WritingEnds HangupReaped InputConsumed` | writers unblock, dead clients go, input is read |
| `client` | ws and wss, room for 2, 3 messages | `TypeOK InOrder ImplementsLink CloseNoticed ServerHeard TapServed` | the client keeps the promise of `ClientLink` and serves both sides |
| `tunnel` | a client that connects twice, a bridge client, 3 ports, 2 frames | `TypeOK InOrder NoEcho Private AddressSettles ClientsKeepPromise` | frames keep their order and reach only whom they may, and a client's address settles at its last connection |
| `wire` | 5 requests, payloads of 4, 12, 125 and 126 bytes in every form of header, reads of 1, 7 or all bytes; short query strings and peer tables | `TapGetsFrames PeerGetsFrames NothingLeft AddressAnnounced KillNamed ListDecodes` | bytes mean the same however they arrive |
| `mailbox` | 2 windows with one identifier, one sender, threaded or not, 2 sends, 2 give-ups, 1 restart | `TypeOK AtMostOnce InOrder Accounted NoServerError Collected` | payloads come once, in order, and each one that is missing has its cause |
| `find_*` | five runs that end in a counterexample | one property each | section 5 |

Bounds, and why they are enough:

- *Descriptors* (`FirstFd .. LastFd`): two peers are what a forward needs, the
  third in `forward` makes a broadcast with one failing and one blocked
  recipient, and a bystander. Reuse needs more connections than lifetimes of one
  descriptor: `MaxConns` is at least the number of descriptors.
- *Messages* (`MaxSends`): the buffers' content matters up to "none, one, more":
  two messages and a reply reach it. What is sent is chosen per run, so that
  every action of the handler is taken in some run; a request without a key or with a
  bad address, and a ping, which an item treats as another bad one, are sent in `wire`.
  `forward` keeps kill requests to one valid descriptor.
- *`MaxVars`* stands for the 64 variables; 4 and 3 are below and at what requests
  parsed twice accumulate.
- *Client*: a `Capacity` of 2 lets one direction be full, empty, or neither, and a
  read split a queue at either place; 3 messages allow one lost with the 101, one
  in the buffer and one at the server. `MaxThrottle = 1` wraps the sleep at once;
  its 30 seconds change nothing else.
- *Tunnel*: two connections of `a` are one that is left behind and one that comes
  after it; the third port is the bridge's, whose second host makes it learn. Two
  frames are what an order needs; either may be late on the old connection.
- *Wire*: 4 bytes are no two addresses, but pass for them with the longest header; 12
  are two addresses, 125 and 126 are at the header's change of form. `MaxFrames = 2`
  messages follow one another: the parser keeps nothing from one to the next but the
  bytes, and the theorems hold for any number. `IntHalf = 16` makes numbers of two
  digits overflow, `JsonRoom = 24` makes lists of one peer too long for their buffer.
  Query strings have every arrangement of digits, `=` and `&` up to four bytes,
  and with the key inside up to seven; user names have two bytes, with every
  byte that is escaped, one control character that is not, and those that would end a
  string or a list; descriptors have
  up to three digits.
- *Mailbox*: two windows with one identifier are what a race of receivers and of a
  retry with its predecessor needs, the third slot is the request one of them
  left behind. Two give-ups lose a poll and a send, or two polls; two payloads
  are what an order needs.
- `conns`, `sends`, `hist`, `frames` only bound behaviours; nothing in the code
  counts them.

`CHECK_DEADLOCK FALSE` is set where the system may stop: an idle server waits in
`epoll_wait`, a bounded client has nothing more to send, a client that exits or
a fault end the behaviour. The mailbox never stops, and is checked for it.

Every property of a passing run has a mutant: a definition changed as a plausible
bug would change it, under which TLC finds the property violated. The mutated
forms stand before the definitions they replace.

### Fairness

- `WF(ServerStep)`, `WF(ClientStep)`: a process whose call returns goes on;
  nothing in the two loops waits for anything but the calls modelled.
- Nothing is assumed of which descriptor's turn comes: the loop may take the events
  of a batch in any order, and `dirty` drops those that are left (`io.c:301`,
  `main.c:198`), again and again if a broadcaster always meets a blocked peer first.
  `Starved(fd)` says that this happens to fd for ever; `WritingEnds`, `HangupReaped`
  and `InputConsumed` leave such a descriptor out and say that nothing else keeps one
  waiting. Two messages and three connections end only so many batches, so that the
  instance starves nobody and shows the other half.
- Of a read that is made again and again of a complete message, one finds it: the
  bytes of what is in a socket do arrive. Of the writes that are made again and again,
  one writes everything, and `WF(Drain(fd))`: a client that is there goes on reading.
  They are assumptions on the client; the run asks what the server does with
  well-behaved ones. A client that never reads keeps its own peer waiting, which is no
  fault.
- `SF(Read)` and `WF(ServerReads)` say the same of the client and its server.
- `Tunnel` assumes of the components only that the server reaps (`HangupReaped`; what
  starves a descriptor needs frames without end, and `MaxSends` ends them) and that a
  client notices that it is cut off (`CloseNoticed`). Frames need not arrive.
- `SF(Handle(s))` of the mailbox: connections queue for the worker in the order
  they came, and threads run; strong, as the worker is busy in between.
  `WF(Poll)`, `WF(Receive)`, `WF(SendEnds)`: a poller's loop goes on, and answers
  are read.
- Nothing is assumed of connecting, sending, hanging up, timing out, killing,
  restarting or failing.

`ServerHeard` leaves out what an SSL session holds: it is read with the next
record. `TapServed` leaves out `SSL_read()` waiting for the rest of a record
(`ssl.c:354`). Both leave out clients that are `DeadBlocked` (section 5).

## 4. Proofs

Proved with TLAPS, for any number of descriptors, connections, messages,
addresses, windows and requests, any frames, keys and sizes of reads, with and without failing system calls unless a
theorem says otherwise:

| Module | Theorem | Statement |
|---|---|---|
| `VpnServerProofs` | `Invariance` | `Spec => []IInv` |
| | `TypeCorrect` | `Spec => []TypeOK` |
| | `TableCorrect` | `Spec => []TableOK` |
| | `PendingAlwaysWatched` | `Spec => []PendingWatched` |
| `VpnParserProofs` | `OrderInvariance` | `Spec => [](IInv /\ Ordered)` |
| | `ParserCorrect` | `Spec => []RightParser` |
| | `ReplyIsFirst` | `Spec => []ReplyFirst` |
| `VpnEventProofs` | `StaleEventsHarmless` | no failing calls: `Spec => SpuriousEventHarmless` |
| | `BatchStaysLive` | no kills: `Spec => []BatchLive` |
| | `NothingComesBack` | `Spec => NoHairpin` |
| `VpnClientProofs` | `ClientInvariance` | `Spec => []CInv` |
| | `ClientTypeCorrect` | `Spec => []TypeOK` |
| | `ClientInOrder` | `Spec => []InOrder` |
| | `ClientKeepsLink` | `Spec => ImplementsLink` |
| `VpnSwitchProofs` | `ServerKeepsSwitch` | `Spec => ImplementsSwitch` |
| `TunnelProofs` | `TunnelTypeCorrect` | `Spec => []TypeOK` |
| | `FramesStayPrivate` | `Spec => []Private` |
| | `NothingEchoes` | `Spec => []NoEcho` |
| | `FramesKeepOrder` | `Spec => []InOrder` |
| | `TunnelKeepsLink` | `Spec => ClientsKeepPromise` |
| `WireFormatProofs` | `WireInvariant` | `Spec => []WInv` |
| | `TapGetsFramesAlways` | `Spec => []TapGetsFrames` |
| | `PeerGetsFramesAlways` | `Spec => []PeerGetsFrames` |
| | `NothingLeftAlways` | `Spec => []NothingLeft` |
| | `AddressAnnouncedAlways` | `Spec => []AddressAnnounced` |
| | `KillNamedAlways` | `Spec => []KillNamed` |
| | `ListDecodesAlways` | `Spec => []ListDecodes` |
| `MailboxProofs` | `MailboxTypeCorrect` | `Spec => []TypeOK` |
| | `WorkerNeverFails` | `Spec => []NoServerError` |
| | `DeliveredAtMostOnce` | `Spec => []AtMostOnce` |
| | `PrintedInOrder` | `Spec => []InOrder` |
| | `AcknowledgedAccountedFor` | `Spec => []Accounted` |

They rest on the named assumptions of the modules: `FdsAssumption`,
`OptionsAssumption`, `TrafficAssumption` (the constants have their types, and the
listening socket is below the descriptors accept() returns), `ClientConstants`
(the answers, messages and requests of a connection can be told apart),
`TunnelConstants` (there is a client, and no two announce the same address),
`MailboxConstants` and `NoneIsNoRequest` (slots are finitely many, and an empty
one can be told from a request), `WireConstants` (types, and "kill" has no equal
sign), `IntSize` (an int has some size), `FrameSizes`, `RequestSizes`,
`RequestAddresses` and `PeerTexts`. Only the last four bound anything: a frame of a
tap device and the variables of a request have less than 65536 bytes, as the kernel's frames do and as the 16 bits of the uwsgi header
say; and the variable that follows an address has a name of less than 256 bytes.
The last NUL of the handshake hits the lower byte of the length of that name: a
short one becomes empty, which the parser refuses, while of a long one the higher
byte would remain and the second parse would go on at another place. `PeerTexts` has
addresses of bytes that need no escape, as hexadecimal digits and colons are. What else
limits a result is in the properties themselves: `KillNamed` is about numbers that an
int holds (`IntHalf` is 2^31 in the code), `ListDecodes` about lists that fit the first
buffer (`JsonRoom` is 8192 less the HTTP header) and names without a control
character that `json_append_json` writes as it is.

### The server

`TypeOK` and `PendingWatched` are not inductive: whether the socket of a blocked
peer stays watched depends on which events can reach it, on what the loop is
doing, and on its handshake. `IInv` adds two parts:

- `FdInv(p, s)`, per descriptor: the types, a peer in the writing state or with
  bytes in its buffer is watched for output, and how handshake, buffers and the
  socket's queue agree. It speaks of one peer and one socket, so that most of the
  proof is about *operators* on those (`WriteAllFd`, `ReadFd`, `UpgradedFd`,
  `ControlledFd`, `ConsumedFd`, `ForwardedFd`).
- `LoopInv`: the descriptor in the loop is live unless a fault has ended the
  behaviour, and it is not in the writing state: what the loop writes into its own
  buffer is written by a peer that nobody is flushing.

The lemmas `OneFdStep`, `DestroyStep`, `DestroyAndOneFdStep` and `QuietStep` lift
a fact about one peer to the whole state; each action is then one step of
`LoopStepInv`, `HandshakeInv`, `EventStepInv`, `ForwardInv`, `FrameInv` or
`ClientStepInv`, and `NextInv` joins them.

`RightParser` and `ReplyFirst` need to know what is in a buffer before it is
looked at. `Ordered` says of `In == buf \o inq` that its first item is the
request until it is consumed, and of `Out == sent \o writeBuf` that its first
item is the reply: most steps move items within one of the two.

`SpuriousEventHarmless` needs `Fresh`: a socket that is full has bytes waiting
for it, the descriptor in the loop has left the batch, and whoever makes another
peer block says so in `dirty`. A failing call destroys a peer for reasons of its
own, so the theorem assumes `~SyscallsFail`, as the property's run does.

`BatchStaysLive` is about servers that are asked for no kill, and `Simple` follows the
requests that are plain from the socket to the parser. The assumption is needed: a
kill whose reply blocks leaves `dirty` unset and the killed peer's event in the batch
(`uwsgi.c:321`), which is what `find_batch` shows; the theorem says that there is no
other way. `NothingComesBack` needs no such assumption: a bridge does find itself when
it looks up an address learned from it, and `NoHairpin` says that nobody else does.

### The server is a learning switch

`ServerKeepsSwitch` maps the server of every instance, bridges, kills and failing
calls included, to `EthernetSwitch`: the ports are the live peers, what a port is
known by are `mac` and `macs` once `macCollected` is set, and what it was given is
the frames in `sent \o writeBuf`.  `FramesIn` picks these out of the replies by
recursion over the items; `FramesInAppend` and `FramesInNone` are what the steps need of it,
and are shown by the least length that would refute them (`Least`).

A handshake is the hard step.  The address is collected when the request is parsed,
and when the reply blocks it is parsed and collected once more, while the switch
hears of an address once.  The second time has to be a stutter, and the invariant
`Addressed` says why it is: until the request is consumed it stays at the head of
the buffer, a peer that has collected an address has it from there, and a peer that
has not collected one has learned none either.  The other steps touch one port (`OnePort`), destroy one
(`UnplugPorts`, `DestroyPorts`) or none (`SamePorts`), but for a frame, which is
given to some ports while others are destroyed in between (`ForwardPorts`):
`RecipientsSelected` shows that the recipients are a choice of `Selections`.

### The client

`CInv` says where the messages of a connection are: while the client waits for
its answer nothing was given or the answer stands before what was; from then on
`given`, without what was lost, is `handled \o buf \o down \o srvBuf` until a
message is cut. Each step moves one of the borders between these parts, which is
what the lemmas on sequences at the top of the module are about.

`ClientKeepsLink` maps what is underway and whole (`Whole(Underway)`) to the queue
of `ClientLink`.  Only the first item underway may be no message, the answer or the
rest of a message that was cut with it (`CInv`), so that reads, writes and records
move a border inside the queue and are stutters; what is read with the answer is
`Open`, and what the rest of a cut message swallows is `Swallow`.

### The tunnel

`TInv` gives every queue the type of the frames that may be in it: what a port
has to read was sent by its owner, on the owner's present connection only if that
is this port (`Sent`); what is on its way to a client, or was written to its tap
device, is meant for it (`Meant`). Both types change while a client leaves and
comes back, so it matters that `conn` only grows. The rest is what `Reached` looks
at: a port has something to read only after its address was announced, and the
port of a client that is no bridge never has any other address.

`Ordered` is for `InOrder`. What a client sends on one connection is a stream. A
stream is in one port only, as the port of a connection that has ended keeps what
it has until it is unplugged and a new connection is another stream (`Apart`);
and in a port, on the way to a client, at its tap device and from each of these
to the one before, later frames stay behind earlier ones (`Rising`, `Before`).
Every step either drops frames at the front of some sequence, moves the head of
one to the end of the next, or appends the newest frame of all: `DropStep`,
`RelayStep`, `HandleStep` and `SendStep` are these four cases.

`ClientsKeepPromise` maps the end of each client's tap history that is of its
present connection to `handled` of a `ClientLink`.  That there is such an end is
`Kept`: the entries of the history are in two parts, of earlier connections and of
this one, and only an open connection is torn.

### The bytes

`WInv` looks at `Whole == buf \o stream`, what the server has read and not handled
and what it has still to read: behind the request (`Base`), it is split without a
rest into the messages of `queue`, each as the client encodes it (`Splits`). A read
moves the border inside `Whole` and changes none of it, which is why the sizes of
reads do not matter; a message sent adds one piece at the end, one handled takes
the first. What there is to show is that the server cuts where the client joined:

- `ParseSent`: of the start of a message `WebsocketParse` makes the right sizes
  and verdict as soon as all of it is there, and nothing before that.
- `RequestParsed`: whatever the bytes are, the loop over the variables of a request
  stays inside the packet, the first time and also when it meets the NULs that the
  first time has left (`Terminated`). The last NUL falls behind the value: at the
  end of a request that is the first byte of a frame which was read with it. A
  first byte of 0 is that of a frame as well, so the message is found all the same
  (`LiesAt`).
- `Xor` is an involution, bit by bit (`ByteBits`, `BitsByte`), so that what is
  masked twice is what it was.

`PeerGetsFrames` is about a reader that does not know the pieces. `FrameAdded` says
that appending a message to bytes that are read completely adds its payload to what
is found; for this, no parse of an earlier message may change with bytes that
come behind it (`ParseStable`). That the header shortened in place is one the reader
understands is `ForwardedPlain` and `PlainParsed`.

`AddressAnnounced` and `KillNamed` are about what the parser finds, not only where it
stops. `ReqInv` says that until the request is consumed `Whole` starts with it as it
was sent (`Holds`), but for NULs: behind the pairs of an address, and in the lower
byte of the length behind it. Four lemmas carry it:

- `PackedHolds`: what the web server packs is of that form, variable by variable.
- `FoundThere`: of such bytes the loop finds the variables of the request from the
  first one on, each with its key, place and length; it may stop early, at an
  emptied name.
- `HoldsNul`: it stays of that form under the NULs of the first handshake; that these
  fall between pairs or on that one length is `NulPlaces`.
- `AddressRead`: the pairs are never hit, so the same address is read again.

For a control request `ControlReads` shows that the parser hands `qs_get` the query
string as it was sent. `Scanned` is the invariant of the loop of `qs_get`: either it has
returned what follows the key in the first part that names somebody, or no part
before the current one does (`PartChecked`, `CheckMatches`). `DigitsNamed` ties
`vpn_ws_str_to_uint`, which multiplies from the left, to `Named`, which takes digits
off from the right, and shows that no prefix of a number that fits the int overflows it.

`ListDecodes` compares a text with what a reader that does not know how it was made
finds in it. The reader of `ListReader` goes from byte to byte; `Goes(r, x, s)` says that
the bytes of x take it from r to s, and `GoesOn` that this composes. Each part of the text
is then read on its own: a string whose quotes are escaped ends where its own quote is
(`EscapedReads`, `QuotedReads`), a number's digits, made from the last one on, are read
from the first one on as that number (`DecimalReads`), the addresses have one comma less than there are of
them (`MacListReads`), an object is one value (`PeerObjectReads`). The loop over the peers
leaves a comma behind the last one: `Listed` is its invariant, either nothing was written
or what was written ends in a comma and is a list of values without it, which is why the
byte that the code steps back over is always that comma and never the bracket.
`Flattened` says what `FlattenSeq` of the community modules returns, one piece after the
other; the request (`VarsBuilt`) and the three loops of the list rest on it.

The places a loop comes to are a recursive function (`Chain`); what it computes is
shown by well-founded induction written out with the least counterexample
(`Least`) and not by the library's induction theorems.

### The mailbox

`MInv` adds to the types that each window waits for a request of its own and that
a single worker has at most one request behind its test, whose queue is not
empty. For `AtMostOnce`, a sum of three cardinalities, `UInv` says of each
payload that any two places it is in are the same place, and that a payload that
waits in a `/send` is nowhere else.  A lemma per action says where what lies
somewhere after the step lay before it (`SendDataPlaces`, `RecvPopPlaces`,
`ReceivePlaces`, `SendPlaces`; in all the others payloads stay or vanish).

`InOrder` follows from `Orderly`: no place of an acknowledged payload is behind a
place of one that its window sent later.  It is inductive with three more facts
(`OInv`): a payload is only handled and queued under its sender's identifier
(`Home`), so that two payloads of one window never wait in two queues; what a
window waits for is its last payload and in no other request (`Newest`), so that
nothing later is ahead of it when it is acknowledged; and what was acknowledged
is in no request any more (`Handled`), so that it is not queued again.

`Accounted` counts: the acknowledged payloads that are nowhere (`Lost`) and the
polls that will be answered with nobody there to read it (`Orphans`) are together
no more than the requests that were left.  A request that is left is paid for
once; an orphan that takes a payload with it was paid for when it was left.  The
lost set is shown to be finite on the way, as there may be infinitely many windows.

### Only model-checked

All liveness, which TLAPS cannot prove. Every invariant, action property and
refinement that a passing run checks is also a theorem; `BatchLive`, which fails in
`find_batch`, is one where no kill is asked for.

## 5. Where the code and its comments disagree

Five runs end in a counterexample; each states what a comment says:

| Run | What happens |
|---|---|
| `find_flush` | A forward that blocks asks for `EPOLLOUT` without setting `is_writing` (`io.c:302`). The event is then handled as a read; the bytes stay where they are until another forward pushes them. |
| `find_ctrl_open` | A JSON reply that blocks sets `handshake = 1` (`uwsgi.c:399`) and is never counted to 2, which is what closes the connection (`io.c:151`). |
| `find_batch` | A kill whose reply blocks destroys a peer and returns 0 (`uwsgi.c:321`, `uwsgi.c:401`), where `main.c:197` leaves the cycle "on peer modification"; the killed peer's event is still handled. |
| `find_stale_ssl` | `ssl_ctx` keeps pointing to a freed session; an attempt that fails before its TLS handshake frees it again (`client.c:146`). |
| `find_dead_block` | Client and server wait, both directions full, for the other one to read (`client.c:265`, `io.c:302`). |

Consequences for the other runs: `ServerHeard` and `TapServed` except clients
that are `DeadBlocked`; `Tunnel` promises no delivery; what follows the request of
`find_ctrl_open` ends a behaviour (`Misread`).

Behaviours of the models that no property rejects, as nothing in the repository
promises otherwise:

- A forward may empty the buffer of a peer in the writing state; its event then
  writes nothing, which is taken for a dead client (`io.c:11`).
- A bridge may get its own frame back (`io.c:314`) and is used after a write that
  failed then (`io.c:381`); `NoHairpin` says when it gets it back.
- A broadcaster that always meets a blocked peer ends every batch at its turn
  (`io.c:301`), and may so keep later descriptors from theirs (`Starved`).
- A request whose reply blocked gets a second 101 when it is parsed again; if
  another variable follows the address, the NUL behind the address changes that
  variable's length and the second parse may refuse the request, or, behind a name
  of 256 bytes or more (`RequestAddresses` leaves these out), read on elsewhere.
- Messages read together with the 101 are lost by the client.
- `kill` accepts one descriptor beyond the table (`uwsgi.c:306`; runs keep away
  from it), and a number that overflows an int names another one (`utils.c:43`).
- The check for "a full ethernet frame header" (`io.c:238`) counts the websocket
  header: a frame that is too short for its addresses passes when its length is sent in
  a longer form than needed, and the addresses are read from behind it.
- Control bytes other than tab, newline and return are written into JSON as they
  are (`uwsgi.c:239`), which is no valid JSON; `ListDecodes` leaves such names out.
- A list above 8192 bytes may be sent from a buffer that was freed (`uwsgi.c:186`).
- A client that is back gets copies of frames the server reads late from its old
  connection (`NoEcho` allows these), and the old connection may announce the
  address after the new one; `AddressSettles` shows that this ends.
- A payload is lost with the poll that took it, when that poll is killed or timed
  out: `Accounted` counts one for each. The GUI calls Connect and Disconnect safe
  and reversible (`lollipop_gui.py:115`), which is true of the connection.
- A threaded mailbox answers 500 to one of two receivers; it loses nothing by it.

## 6. Not modelled, and the plan

Not modelled: what is in the buffer of `vpn_ws_ctrl_json` once it has grown; what the
websocket parser makes of a control request; the pointers kept in `peer->vars`; payloads above 65535 bytes (the 16 bit loop counters of
`io.c:220` and `client.c:772`) and 64 bit lengths that wrap; descriptors of the
client; `SIGPIPE` (blocked by both programs, a write just fails); the kqueue and
Windows branches; certificates; start-up, option parsing and privileges; the
GUI's fields; the other front ends, the digests and packaging. What of these
could go wrong at run time is listed with a note under "hazards".

Done: the server with its switch, failures and liveness; the client with its
link; the tunnel; the bytes, query strings and lists; the mailbox; proofs of
every safety invariant of the server, the client, the tunnel and the mailbox, of
the three refinements, that bytes mean the same however they arrive, and that the list
of peers can be read back. What would come next are the pointers: `peer->vars` over a
growing buffer, and `json_append`'s copy of one.
