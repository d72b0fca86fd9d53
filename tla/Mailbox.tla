------------------------------ MODULE Mailbox ------------------------------
(***************************************************************************)
(* The HTTPS2 transport: queues of payloads behind two HTTP handlers, and   *)
(* the windows that send to them and poll them.                             *)
(*                                                                         *)
(* A request is a slot from the moment it leaves its client to the end of   *)
(* its answer.  Nothing ties the two ends together: a poller that times out *)
(* or is killed leaves a request behind that is handled nevertheless.  The  *)
(* container runs one synchronous worker, the development server a thread   *)
(* for every request, so that two of them may be between test and pop.      *)
(***************************************************************************)
EXTENDS Naturals, Sequences, FiniteSets

CONSTANTS
    Windows, Ids, Id, \* the windows, and the client identifier each one uses
    Slots,            \* bound: requests at a time
    Servers,          \* may the server be threaded, or not, or both
    Senders,          \* bound: the windows that send
    MaxSends,         \* bound: payloads sent
    MaxGiveUps,       \* bound: requests left by their clients
    MaxRestarts,      \* bound: restarts of the server
    None

ASSUME MailboxConstants ==
    /\ Id \in [Windows -> Ids] /\ Senders \subseteq Windows /\ Servers \subseteq BOOLEAN
    /\ IsFiniteSet(Slots) /\ None \notin Slots
    /\ MaxSends \in Nat /\ MaxGiveUps \in Nat /\ MaxRestarts \in Nat

VARIABLES
    threaded,  \* how the server is run
    QUEUES,    \* the payloads of each client identifier
    requests,  \* what is in each slot, or None
    on,        \* the windows whose poller runs
    poll,      \* the request each window's poller waits for, or None
    send,      \* the request each window waits for, or None
    hist       \* history: sends and their fates, what was printed, faults

vars == <<threaded, QUEUES, requests, on, poll, send, hist>>

\* A payload is told from others by a number; None is an empty body.
Payloads == [id : 1 .. MaxSends, from : Windows]

\* On its way, behind the test of recv_data, or answered with a status.
Steps == {"sent", "checked", "200", "500", "502"}

Requests ==
    [op : {"send", "recv"}, cid : Ids, step : Steps, payload : Payloads \cup {None}]

\* An empty slot, and an empty body, is told from what could be there.
ASSUME NoneIsNoRequest == None \notin Requests \cup Payloads

Pending == {s \in Slots : requests[s] # None}

InStep(steps) == {s \in Pending : requests[s].step \in steps}

Answers == InStep({"200", "500", "502"})

Wanted(s) == \E w \in Windows : s \in {poll[w], send[w]}

\* Slots have no order and no meaning: any free one.
FreeSlot == CHOOSE s \in Slots : requests[s] = None

New(op, w, payload) ==
    /\ Pending # Slots
    /\ requests' = [requests EXCEPT ![FreeSlot] =
                      [op |-> op, cid |-> Id[w], step |-> "sent", payload |-> payload]]

-----------------------------------------------------------------------------
(* The server *)

\* The answer to the request in slot s.  One that nobody waits for is dropped.
Answer(s, status, payload) ==
    IF Wanted(s) THEN [requests[s] EXCEPT !.step = status, !.payload = payload] ELSE None

Answered(s, status, payload) == [requests EXCEPT ![s] = Answer(s, status, payload)]

\* Mutant of MayServe: requests are not kept apart.
MayServeAny(s) == TRUE

\* One worker finishes a request before it takes the next one.
MayServe(s) == threaded \/ InStep({"checked"}) \subseteq {s}

ServerOnly == UNCHANGED <<threaded, on, poll, send>>

\* Mutant of Queued: appendleft.
QueuedFirst(q, payload) == <<payload>> \o q

Queued(q, payload) == Append(q, payload)

\* Mutant of Popped: the payload stays in the queue.
PoppedNothing(q) == q

\* Mutant of Popped: the queue is emptied.
PoppedAll(q) == <<>>

Popped(q) == Tail(q)

\* Mutant of Empty: off by one.
EmptyButOne(q) == Len(q) < 2

Empty(q) == q = <<>>

SendData(s) ==
    /\ s \in InStep({"sent"}) /\ requests[s].op = "send" /\ MayServe(s)
    /\ QUEUES' = [QUEUES EXCEPT ![requests[s].cid] = Queued(@, requests[s].payload)]
    /\ requests' = Answered(s, "200", requests[s].payload)
    /\ UNCHANGED hist /\ ServerOnly

\* if QUEUES[cid]
RecvTest(s) ==
    /\ s \in InStep({"sent"}) /\ requests[s].op = "recv" /\ MayServe(s)
    /\ requests' = IF Empty(QUEUES[requests[s].cid]) THEN Answered(s, "200", None)
                   ELSE [requests EXCEPT ![s].step = "checked"]
    /\ UNCHANGED <<QUEUES, hist>> /\ ServerOnly

\* popleft(); of an empty deque it raises.
RecvPop(s) ==
    LET cid == requests[s].cid
        q == QUEUES[cid]
    IN /\ s \in InStep({"checked"})
       /\ IF q = <<>> THEN requests' = Answered(s, "500", None) /\ UNCHANGED QUEUES
          ELSE /\ requests' = Answered(s, "200", Head(q))
               /\ QUEUES' = [QUEUES EXCEPT ![cid] = Popped(q)]
       /\ UNCHANGED hist /\ ServerOnly

\* The worker dies with its memory.  The proxy answers what was not answered, but for
\* requests that no worker had accepted: the next one finds them.
Restart ==
    /\ hist.restarts < MaxRestarts
    /\ QUEUES' = [i \in Ids |-> <<>>]
    /\ \E kept \in SUBSET InStep({"sent"}) :
        requests' = [s \in Slots |->
                       IF s \notin Pending \/ s \in Answers \cup kept THEN requests[s]
                       ELSE Answer(s, "502", requests[s].payload)]
    /\ hist' = [hist EXCEPT !.restarts = @ + 1]
    /\ ServerOnly

-----------------------------------------------------------------------------
(* The poller of a window *)

Poll(w) ==
    /\ on[w] /\ poll[w] = None
    /\ New("recv", w, None) /\ poll' = [poll EXCEPT ![w] = FreeSlot]
    /\ UNCHANGED <<threaded, QUEUES, on, send, hist>>

\* Only the body of a good answer is printed.
Printed(w) ==
    LET r == requests[poll[w]]
    IN IF r.step = "200" /\ r.payload # None
       THEN [hist EXCEPT !.printed[w] = Append(@, r.payload)]
       ELSE hist

Receive(w) ==
    /\ poll[w] \in Answers
    /\ hist' = Printed(w)
    /\ requests' = [requests EXCEPT ![poll[w]] = None]
    /\ poll' = [poll EXCEPT ![w] = None]
    /\ UNCHANGED <<threaded, QUEUES, on, send>>

\* The client of slot s is gone: an answer on its way to it is lost, a request
\* is not.
Left(s) == IF s \in Answers THEN [requests EXCEPT ![s] = None] ELSE requests

GaveUp == [hist EXCEPT !.giveups = @ + 1]

\* Ten seconds without an answer: the poller logs it, and polls again.
Timeout(w) ==
    /\ poll[w] # None /\ hist.giveups < MaxGiveUps
    /\ hist' = GaveUp
    /\ requests' = Left(poll[w]) /\ poll' = [poll EXCEPT ![w] = None]
    /\ UNCHANGED <<threaded, QUEUES, on, send>>

-----------------------------------------------------------------------------
(* A window, which does nothing else while it sends *)

connect_transport(w) ==
    /\ ~on[w] /\ send[w] = None
    /\ on' = [on EXCEPT ![w] = TRUE]
    /\ UNCHANGED <<threaded, QUEUES, requests, poll, send, hist>>

\* Mutant of Killed: the poller lives on.
KilledNot(w) == poll

Killed(w) == [poll EXCEPT ![w] = None]

\* The poller is killed, wherever it is.
disconnect_transport(w) ==
    /\ on[w] /\ send[w] = None
    /\ on' = [on EXCEPT ![w] = FALSE] /\ poll' = Killed(w)
    /\ IF poll[w] = None THEN UNCHANGED <<requests, hist>>
       ELSE hist.giveups < MaxGiveUps /\ hist' = GaveUp /\ requests' = Left(poll[w])
    /\ UNCHANGED <<threaded, QUEUES, send>>

send_h2_payload(w) ==
    /\ w \in Senders /\ send[w] = None /\ hist.sent < MaxSends
    /\ New("send", w, [id |-> hist.sent + 1, from |-> w])
    /\ send' = [send EXCEPT ![w] = FreeSlot]
    /\ hist' = [hist EXCEPT !.sent = @ + 1]
    /\ UNCHANGED <<threaded, QUEUES, on, poll>>

\* The command ends with an answer, whose status is logged.
SendEnds(w) ==
    /\ send[w] \in Answers
    /\ hist' = IF requests[send[w]].step = "200"
               THEN [hist EXCEPT !.acked = @ \cup {requests[send[w]].payload}] ELSE hist
    /\ requests' = [requests EXCEPT ![send[w]] = None]
    /\ send' = [send EXCEPT ![w] = None]
    /\ UNCHANGED <<threaded, QUEUES, on, poll>>

\* Or without one: the request may be handled later.
SendFails(w) ==
    /\ send[w] # None /\ hist.giveups < MaxGiveUps
    /\ hist' = GaveUp
    /\ requests' = Left(send[w]) /\ send' = [send EXCEPT ![w] = None]
    /\ UNCHANGED <<threaded, QUEUES, on, poll>>

-----------------------------------------------------------------------------
Init ==
    /\ threaded \in Servers
    /\ QUEUES = [i \in Ids |-> <<>>] /\ requests = [s \in Slots |-> None]
    /\ on = [w \in Windows |-> FALSE]
    /\ poll = [w \in Windows |-> None] /\ send = [w \in Windows |-> None]
    /\ hist = [sent |-> 0, acked |-> {}, printed |-> [w \in Windows |-> <<>>],
               giveups |-> 0, restarts |-> 0]

Handle(s) == SendData(s) \/ RecvTest(s) \/ RecvPop(s)

WindowStep(w) ==
    \/ connect_transport(w) \/ disconnect_transport(w)
    \/ send_h2_payload(w) \/ SendEnds(w) \/ SendFails(w)

PollerStep(w) == Poll(w) \/ Receive(w) \/ Timeout(w)

Next ==
    \/ \E s \in Slots : Handle(s)
    \/ \E w \in Windows : WindowStep(w) \/ PollerStep(w)
    \/ Restart

Spec == Init /\ [][Next]_vars

\* Connections wait for the worker in a queue of their own, so that none is passed
\* over for ever; answers are read, and a poller goes on polling.
Fairness ==
    /\ \A s \in Slots : SF_vars(Handle(s))
    /\ \A w \in Windows : WF_vars(Poll(w)) /\ WF_vars(Receive(w)) /\ WF_vars(SendEnds(w))

FairSpec == Spec /\ Fairness

-----------------------------------------------------------------------------
(* Properties *)

\* Type correctness, and each client waits for a request of its own, which is the
\* poller's only while there is a poller.
TypeOK ==
    /\ threaded \in BOOLEAN /\ QUEUES \in [Ids -> Seq(Payloads)]
    /\ requests \in [Slots -> Requests \cup {None}]
    /\ on \in [Windows -> BOOLEAN]
    /\ poll \in [Windows -> Slots \cup {None}] /\ send \in [Windows -> Slots \cup {None}]
    /\ hist \in [sent : 0 .. MaxSends, acked : SUBSET Payloads,
                 printed : [Windows -> Seq(Payloads)],
                 giveups : 0 .. MaxGiveUps, restarts : 0 .. MaxRestarts]
    /\ \A w \in Windows :
        /\ poll[w] # None => on[w] /\ poll[w] \in Pending /\ requests[poll[w]].op = "recv"
        /\ send[w] # None => send[w] \in Pending /\ requests[send[w]].op = "send"
        /\ \A v \in Windows \ {w} : poll[w] # None => poll[w] # poll[v]

Places(lists, p) ==
    {e \in UNION {{x} \X DOMAIN lists[x] : x \in DOMAIN lists} : lists[e[1]][e[2]] = p}

AnswersWith(p) == {s \in Answers : requests[s].op = "recv" /\ requests[s].payload = p}

\* Where a payload is once it was queued: in a queue, in an answer, printed.
Copies(p) ==
    Cardinality(Places(QUEUES, p)) + Cardinality(AnswersWith(p))
        + Cardinality(Places(hist.printed, p))

\* A payload is never in two places, printed twice or printed by two windows,
\* whatever was left behind, is polled again or handled at the same time.
AtMostOnce == \A p \in Payloads : Copies(p) <= 1

\* What one window sent is printed in the order it was sent, but for a payload
\* whose send failed: its request may have been handled after later ones.
InOrder ==
    \A w \in Windows : \A i, j \in DOMAIN hist.printed[w] :
        LET p == hist.printed[w][i]
            q == hist.printed[w][j]
        IN i < j /\ p.from = q.from /\ q \in hist.acked => p.id < q.id

\* While the server lives, each payload it acknowledged is somewhere, but for one
\* with each request that was left: what recv_data pops is gone with its answer.
Accounted ==
    hist.restarts = 0 =>
        Cardinality({p \in hist.acked : Copies(p) = 0}) <= hist.giveups

\* A single worker never pops from an empty queue, however many windows share a
\* client identifier.
NoServerError == ~threaded => InStep({"500"}) = {}

\* As long as some window goes on polling for it, a queue is emptied for good; and
\* with no restart, what was acknowledged is printed but for what was left.
Collected ==
    \A i \in Ids :
        (\E w \in Windows : Id[w] = i /\ <>[]on[w]) =>
            <>[](/\ QUEUES[i] = <<>>
                 /\ hist.restarts = 0 =>
                      Cardinality({p \in hist.acked : Id[p.from] = i /\
                          \A w \in Windows : p \notin {hist.printed[w][k] :
                              k \in DOMAIN hist.printed[w]}}) <= hist.giveups)
=============================================================================
