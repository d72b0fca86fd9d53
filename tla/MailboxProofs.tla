---------------------------- MODULE MailboxProofs ----------------------------
(***************************************************************************)
(* Proofs about the mailbox for any number of windows, client identifiers,  *)
(* requests, payloads, requests given up and restarts.                      *)
(***************************************************************************)
EXTENDS Mailbox, SequenceTheorems, FiniteSetTheorems, TLAPS

\* A request to send carries a payload and has nothing to test.
Carries(r) == r # None /\ r.op = "send" => r.payload \in Payloads /\ r.step # "checked"

Checked == InStep({"checked"})
Failed == InStep({"500"})

\* Two windows wait for two requests.
OwnSend == \A w \in Windows, v \in Windows : w # v /\ send[w] # None => send[w] # send[v]

\* The single worker is behind the test of one request at most, and has found
\* its queue not to be empty.
OneWorker ==
    ~threaded =>
        /\ \A s, t \in Checked : s = t
        /\ \A s \in Checked : QUEUES[requests[s].cid] # <<>>
        /\ Failed = {}

MInv == TypeOK /\ (\A s \in Slots : Carries(requests[s])) /\ OwnSend /\ OneWorker

-----------------------------------------------------------------------------
(* Requests *)

\* A request that is answered stays a request, of the same kind, or is dropped.
LEMMA AnswerProperties ==
    ASSUME MInv, NEW s \in Pending, NEW status \in {"200", "500", "502"},
           NEW payload \in Payloads \cup {None},
           requests[s].op = "send" => payload \in Payloads
    PROVE  LET a == Answer(s, status, payload)
           IN /\ a \in Requests \cup {None} /\ Carries(a)
              /\ a # None => a.step = status /\ a.op = requests[s].op /\ a.cid = requests[s].cid
              /\ Wanted(s) => a # None
<1>1. requests[s] \in Requests
  BY DEF MInv, TypeOK, Pending
<1>2. [requests[s] EXCEPT !.step = status, !.payload = payload] \in Requests
  BY <1>1 DEF Requests, Steps
<1>3. QED
  BY <1>1, <1>2, NoneIsNoRequest DEF Answer, Carries, Requests

\* A new request takes a slot that is free.
LEMMA NewProperties ==
    ASSUME MInv, NEW op \in {"send", "recv"}, NEW w \in Windows,
           NEW payload \in Payloads \cup {None}, op = "send" => payload \in Payloads,
           New(op, w, payload)
    PROVE  /\ FreeSlot \in Slots /\ requests[FreeSlot] = None /\ FreeSlot # None
           /\ requests' \in [Slots -> Requests \cup {None}]
           /\ requests'[FreeSlot] # None /\ requests'[FreeSlot].op = op
           /\ requests'[FreeSlot].step = "sent"
           /\ \A s \in Slots \ {FreeSlot} : requests'[s] = requests[s]
           /\ \A s \in Slots : Carries(requests'[s])
<1> DEFINE r == [op |-> op, cid |-> Id[w], step |-> "sent", payload |-> payload]
<1>1. FreeSlot \in Slots /\ requests[FreeSlot] = None
  BY DEF New, Pending, FreeSlot
<1>2. FreeSlot # None
  BY <1>1, MailboxConstants
<1>3. r \in Requests
  BY MailboxConstants DEF Requests, Steps
<1>4. requests \in [Slots -> Requests \cup {None}]
  BY DEF MInv, TypeOK
<1>5. requests' = [requests EXCEPT ![FreeSlot] = r]
  BY DEF New
<1>6. Carries(r)
  BY DEF Carries
<1>7. r.op = op /\ r.step = "sent"
  OBVIOUS
<1> HIDE DEF r
<1>8. QED
  BY <1>1, <1>2, <1>3, <1>4, <1>5, <1>6, <1>7, NoneIsNoRequest DEF MInv

-----------------------------------------------------------------------------
(* MInv is preserved by every step *)

LEMMA InitMInv == Init => MInv
<1> SUFFICES ASSUME Init PROVE MInv
  OBVIOUS
<1>1. TypeOK
  <2>1. <<>> \in Seq(Payloads)
    BY EmptySeq
  <2>2. MaxGiveUps \in Nat /\ MaxRestarts \in Nat /\ MaxSends \in Nat
    BY MailboxConstants
  <2>3. hist \in [sent : 0 .. MaxSends, acked : SUBSET Payloads,
                  printed : [Windows -> Seq(Payloads)],
                  giveups : 0 .. MaxGiveUps, restarts : 0 .. MaxRestarts]
    BY <2>1, <2>2 DEF Init
  <2>4. threaded \in BOOLEAN
    BY MailboxConstants DEF Init
  <2>5. QED
    BY <2>1, <2>3, <2>4 DEF Init, TypeOK
<1>2. Pending = {}
  BY DEF Init, Pending
<1>3. OneWorker
  BY <1>2 DEF OneWorker, Checked, Failed, InStep
<1>4. QED
  BY <1>1, <1>3 DEF MInv, Init, Carries, OwnSend

\* The server handles a request.
LEMMA HandleMInv == ASSUME MInv, NEW s \in Slots, Handle(s) PROVE MInv'
<1> DEFINE cid == requests[s].cid
           q == QUEUES[cid]
<1>1. /\ TypeOK /\ s \in Pending /\ requests[s] \in Requests
      /\ cid \in Ids /\ q \in Seq(Payloads) /\ requests[s].payload \in Payloads \cup {None}
      /\ requests[s].op = "send" => requests[s].payload \in Payloads
  <2>1. s \in Pending /\ requests[s].step \in {"sent", "checked"}
    BY DEF Handle, SendData, RecvTest, RecvPop, InStep
  <2>2. TypeOK /\ requests[s] \in Requests /\ Carries(requests[s]) /\ requests[s] # None
    BY <2>1 DEF MInv, TypeOK, Pending
  <2>3. cid \in Ids /\ requests[s].payload \in Payloads \cup {None}
    BY <2>2 DEF Requests
  <2>4. q \in Seq(Payloads)
    BY <2>2, <2>3 DEF TypeOK
  <2>5. QED
    BY <2>1, <2>2, <2>3, <2>4 DEF Carries
<1>2. ASSUME NEW r \in Requests \cup {None}, Carries(r), Wanted(s) => r # None,
             r # None => r.op = requests[s].op,
             requests' = [requests EXCEPT ![s] = r], QUEUES' \in [Ids -> Seq(Payloads)],
             UNCHANGED <<hist, threaded, on, poll, send>>,
             OneWorker'
      PROVE  MInv'
  <2>1. \A t \in Slots : requests'[t] = IF t = s THEN r ELSE requests[t]
    BY <1>1, <1>2 DEF TypeOK
  <2>2. \A w \in Windows : poll[w] = s \/ send[w] = s => Wanted(s)
    BY DEF Wanted
  <2>3. \A w \in Windows :
          /\ poll[w] # None => on[w] /\ poll[w] \in Pending' /\ requests'[poll[w]].op = "recv"
          /\ send[w] # None => send[w] \in Pending' /\ requests'[send[w]].op = "send"
    <3> SUFFICES ASSUME NEW w \in Windows
                 PROVE  /\ poll[w] # None => on[w] /\ poll[w] \in Pending' /\ requests'[poll[w]].op = "recv"
                        /\ send[w] # None => send[w] \in Pending' /\ requests'[send[w]].op = "send"
      OBVIOUS
    <3>1. poll[w] # None => on[w] /\ poll[w] \in Pending /\ requests[poll[w]].op = "recv"
      BY <1>1 DEF TypeOK
    <3>2. send[w] # None => send[w] \in Pending /\ requests[send[w]].op = "send"
      BY <1>1 DEF TypeOK
    <3>3. Pending \subseteq Slots
      BY DEF Pending
    <3>4. QED
      BY <1>2, <2>1, <2>2, <3>1, <3>2, <3>3 DEF Pending
  <2>4. requests' \in [Slots -> Requests \cup {None}]
    BY <1>1, <1>2 DEF TypeOK
  <2>5. TypeOK'
    BY <1>1, <1>2, <2>3, <2>4 DEF TypeOK
  <2>6. (\A t \in Slots : Carries(requests'[t])) /\ OwnSend'
    BY <1>2, <2>1 DEF MInv, OwnSend
  <2>7. QED
    BY <1>2, <2>5, <2>6 DEF MInv
\* The requests behind the test, and those that failed, after the step.
<1>3. ASSUME NEW r, requests' = [requests EXCEPT ![s] = r]
      PROVE  /\ Checked' = (Checked \ {s}) \cup {t \in {s} : r # None /\ r.step = "checked"}
             /\ Failed' = (Failed \ {s}) \cup {t \in {s} : r # None /\ r.step = "500"}
  <2>1. \A t \in Slots : requests'[t] = IF t = s THEN r ELSE requests[t]
    BY <1>1, <1>3 DEF TypeOK
  <2>2. QED
    BY <2>1 DEF Checked, Failed, InStep, Pending
<1>4. CASE SendData(s)
  <2> DEFINE r == Answer(s, "200", requests[s].payload)
  <2>1. r \in Requests \cup {None} /\ Carries(r) /\ (Wanted(s) => r # None)
        /\ (r # None => r.op = requests[s].op /\ r.step = "200")
    BY <1>1, AnswerProperties
  <2>2. /\ requests' = [requests EXCEPT ![s] = r]
        /\ UNCHANGED <<hist, threaded, on, poll, send>>
        /\ QUEUES' = [QUEUES EXCEPT ![cid] = Append(q, requests[s].payload)]
        /\ MayServe(s) /\ s \in InStep({"sent"}) /\ requests[s].op = "send"
    BY <1>1, <1>4 DEF SendData, Answered, ServerOnly, Queued, TypeOK
  <2>3. QUEUES' \in [Ids -> Seq(Payloads)]
    <3>1. Append(q, requests[s].payload) \in Seq(Payloads)
      BY <1>1, <2>2, AppendProperties
    <3>2. QED
      BY <1>1, <2>2, <3>1 DEF TypeOK
  <2> HIDE DEF r
  <2>4. OneWorker'
    <3> SUFFICES ASSUME ~threaded
                 PROVE  Checked' = {} /\ Failed' = {}
      BY <2>2 DEF OneWorker
    <3>1. Checked = {}
      BY <2>2 DEF MayServe, InStep, Checked
    <3>2. Failed = {}
      BY DEF MInv, OneWorker
    <3>3. QED
      BY <1>3, <2>1, <2>2, <3>1, <3>2
  <2>5. QED
    BY <1>2, <2>1, <2>2, <2>3, <2>4
<1>5. CASE RecvTest(s)
  <2>1. /\ s \in InStep({"sent"}) /\ MayServe(s) /\ requests[s].op = "recv"
        /\ UNCHANGED <<hist, threaded, on, poll, send, QUEUES>>
    BY <1>5 DEF RecvTest, ServerOnly
  <2>2. ~threaded => Checked = {} /\ Failed = {}
    BY <2>1 DEF MayServe, InStep, MInv, OneWorker, Checked
  <2>3. CASE q = <<>>
    <3> DEFINE r == Answer(s, "200", None)
    <3>1. r \in Requests \cup {None} /\ Carries(r) /\ (Wanted(s) => r # None)
          /\ (r # None => r.op = requests[s].op /\ r.step = "200")
      BY <1>1, <2>1, AnswerProperties
    <3>2. requests' = [requests EXCEPT ![s] = r]
      BY <1>5, <2>3 DEF RecvTest, Empty, Answered
    <3> HIDE DEF r
    <3>3. OneWorker'
      <4> SUFFICES ASSUME ~threaded
                   PROVE  Checked' = {} /\ Failed' = {}
        BY <2>1 DEF OneWorker
      <4>1. QED
        BY <1>3, <2>2, <3>1, <3>2
    <3>4. QED
      BY <1>1, <1>2, <2>1, <3>1, <3>2, <3>3 DEF TypeOK
  <2>4. CASE q # <<>>
    <3> DEFINE r == [requests[s] EXCEPT !.step = "checked"]
    <3>1. r \in Requests /\ Carries(r) /\ r # None /\ r.op = requests[s].op
          /\ r.step = "checked" /\ r.cid = cid
      BY <1>1, <2>1, NoneIsNoRequest DEF Requests, Carries, Steps
    <3>2. requests' = [requests EXCEPT ![s] = r]
      BY <1>5, <2>4 DEF RecvTest, Empty
    <3> HIDE DEF r
    <3>3. OneWorker'
      <4> SUFFICES ASSUME ~threaded
                   PROVE  /\ Checked' = {s} /\ Failed' = {}
                          /\ QUEUES'[requests'[s].cid] # <<>>
        BY <2>1 DEF OneWorker
      <4>1. Checked' = {s} /\ Failed' = {}
        BY <1>3, <2>2, <3>1, <3>2
      <4>2. requests'[s] = r
        BY <1>1, <3>2 DEF TypeOK
      <4>3. QED
        BY <2>1, <2>4, <3>1, <4>1, <4>2
    <3>4. QED
      BY <1>1, <1>2, <2>1, <3>1, <3>2, <3>3 DEF TypeOK
  <2>5. QED
    BY <2>3, <2>4
<1>6. CASE RecvPop(s)
  <2>1. s \in Checked /\ UNCHANGED <<hist, threaded, on, poll, send>>
    BY <1>6 DEF RecvPop, ServerOnly, Checked
  <2>2. CASE q = <<>>
    <3> DEFINE r == Answer(s, "500", None)
    <3>1. requests' = [requests EXCEPT ![s] = r] /\ QUEUES' = QUEUES
      BY <1>6, <2>2 DEF RecvPop, Answered
    <3>2. threaded
      BY <2>1, <2>2 DEF MInv, OneWorker
    <3>3. requests[s].op = "recv"
      <4>1. requests[s] # None /\ requests[s].step = "checked" /\ Carries(requests[s])
        BY <1>1, <2>1 DEF Checked, InStep, Pending, MInv
      <4>2. QED
        BY <1>1, <4>1 DEF Carries, Requests
    <3>4. r \in Requests \cup {None} /\ Carries(r) /\ (Wanted(s) => r # None)
          /\ (r # None => r.op = requests[s].op)
      BY <1>1, <3>3, AnswerProperties
    <3> HIDE DEF r
    <3>5. OneWorker'
      BY <2>1, <3>2 DEF OneWorker
    <3>6. QED
      BY <1>1, <1>2, <2>1, <3>1, <3>4, <3>5 DEF TypeOK
  <2>3. CASE q # <<>>
    <3> DEFINE r == Answer(s, "200", Head(q))
    <3>1. requests' = [requests EXCEPT ![s] = r] /\ QUEUES' = [QUEUES EXCEPT ![cid] = Tail(q)]
      BY <1>6, <2>3 DEF RecvPop, Answered, Popped
    <3>2. Head(q) \in Payloads /\ Tail(q) \in Seq(Payloads)
      BY <1>1, <2>3, HeadTailProperties
    <3>3. r \in Requests \cup {None} /\ Carries(r) /\ (Wanted(s) => r # None)
          /\ (r # None => r.op = requests[s].op /\ r.step = "200")
      BY <1>1, <3>2, AnswerProperties
    <3>4. QUEUES' \in [Ids -> Seq(Payloads)]
      BY <1>1, <3>1, <3>2 DEF TypeOK
    <3> HIDE DEF r
    <3>5. OneWorker'
      <4> SUFFICES ASSUME ~threaded
                   PROVE  Checked' = {} /\ Failed' = {}
        BY <2>1 DEF OneWorker
      <4>1. \A t \in Checked : t = s
        BY <2>1 DEF MInv, OneWorker
      <4>2. Failed = {}
        BY DEF MInv, OneWorker
      <4>3. QED
        BY <1>3, <3>1, <3>3, <4>1, <4>2
    <3>6. QED
      BY <1>2, <2>1, <3>1, <3>3, <3>4, <3>5
  <2>4. QED
    BY <2>2, <2>3
<1>7. QED
  BY <1>4, <1>5, <1>6 DEF Handle

\* The server is restarted.
Restarted(s, kept) ==
    IF s \notin Pending \/ s \in Answers \cup kept THEN requests[s]
    ELSE Answer(s, "502", requests[s].payload)

LEMMA RestartMInv == ASSUME MInv, Restart PROVE MInv'
<1>0. PICK kept \in SUBSET InStep({"sent"}) : requests' = [s \in Slots |-> Restarted(s, kept)]
  BY DEF Restart, Restarted
<1> DEFINE after(s) == Restarted(s, kept)
<1>1. /\ TypeOK /\ requests' = [s \in Slots |-> after(s)]
      /\ QUEUES' = [i \in Ids |-> <<>>] /\ UNCHANGED <<threaded, on, poll, send>>
      /\ hist' = [hist EXCEPT !.restarts = @ + 1] /\ hist.restarts < MaxRestarts
  BY <1>0 DEF Restart, ServerOnly, MInv
<1>2. \A s \in Slots :
        /\ after(s) \in Requests \cup {None} /\ Carries(after(s))
        /\ after(s) # None => /\ s \in Pending /\ after(s).op = requests[s].op
                              /\ after(s).step # "checked"
                              /\ after(s).step = "500" => s \in Failed
        /\ s \in Pending /\ Wanted(s) => after(s) # None
  <2> SUFFICES ASSUME NEW s \in Slots
               PROVE  /\ after(s) \in Requests \cup {None} /\ Carries(after(s))
                      /\ after(s) # None => /\ s \in Pending /\ after(s).op = requests[s].op
                                            /\ after(s).step # "checked"
                                            /\ after(s).step = "500" => s \in Failed
                      /\ s \in Pending /\ Wanted(s) => after(s) # None
    OBVIOUS
  <2>1. requests[s] \in Requests \cup {None} /\ Carries(requests[s])
    BY <1>1 DEF TypeOK, MInv
  <2>2. CASE s \notin Pending \/ s \in Answers \cup kept
    <3>1. after(s) = requests[s]
      BY <2>2 DEF Restarted
    <3>2. s \in Answers \cup kept => requests[s].step # "checked"
      BY DEF Answers, InStep
    <3>3. requests[s] # None => s \in Pending /\ s \in Answers \cup kept
      BY <2>2 DEF Pending
    <3>4. requests[s] # None /\ requests[s].step = "500" => s \in Failed
      BY DEF Failed, InStep, Pending
    <3> HIDE DEF after
    <3>5. QED
      BY <2>1, <3>1, <3>2, <3>3, <3>4 DEF Pending
  <2>3. CASE s \in Pending /\ s \notin Answers \cup kept
    <3>1. after(s) = Answer(s, "502", requests[s].payload)
      BY <2>3 DEF Restarted
    <3>2. /\ requests[s].payload \in Payloads \cup {None}
          /\ requests[s].op = "send" => requests[s].payload \in Payloads
      BY <2>1, <2>3 DEF Pending, Carries, Requests
    <3> HIDE DEF after
    <3>3. QED
      BY <2>3, <3>1, <3>2, AnswerProperties
  <2>4. QED
    BY <2>2, <2>3
<1>3. \A s \in Slots : requests'[s] = after(s)
  BY <1>1
<1> HIDE DEF after
<1>4. requests' \in [Slots -> Requests \cup {None}]
  BY <1>1, <1>2
<1>5. \A w \in Windows :
        /\ poll[w] # None => on[w] /\ poll[w] \in Pending' /\ requests'[poll[w]].op = "recv"
        /\ send[w] # None => send[w] \in Pending' /\ requests'[send[w]].op = "send"
  <2> SUFFICES ASSUME NEW w \in Windows
               PROVE  /\ poll[w] # None => on[w] /\ poll[w] \in Pending' /\ requests'[poll[w]].op = "recv"
                      /\ send[w] # None => send[w] \in Pending' /\ requests'[send[w]].op = "send"
    OBVIOUS
  <2>1. /\ poll[w] # None => on[w] /\ poll[w] \in Pending /\ requests[poll[w]].op = "recv"
        /\ send[w] # None => send[w] \in Pending /\ requests[send[w]].op = "send"
    BY <1>1 DEF TypeOK
  <2>2. Wanted(poll[w]) /\ Wanted(send[w]) /\ Pending \subseteq Slots
    BY DEF Wanted, Pending
  <2>3. QED
    BY <1>2, <1>3, <2>1, <2>2 DEF Pending
<1>6. TypeOK'
  <2>1. QUEUES' \in [Ids -> Seq(Payloads)]
    BY <1>1, EmptySeq
  <2>2. MaxRestarts \in Nat
    BY MailboxConstants
  <2>3. hist.restarts + 1 \in 0 .. MaxRestarts
    BY <1>1, <2>2 DEF TypeOK
  <2>4. QED
    BY <1>1, <1>4, <1>5, <2>1, <2>3 DEF TypeOK
<1>7. OneWorker'
  <2>1. Checked' = {}
    BY <1>2, <1>3 DEF Checked, InStep, Pending
  <2>2. Failed' \subseteq Failed
    BY <1>2, <1>3 DEF Failed, InStep, Pending
  <2>3. QED
    BY <1>1, <2>1, <2>2 DEF OneWorker, MInv
<1>8. QED
  BY <1>1, <1>2, <1>3, <1>6, <1>7 DEF MInv, OwnSend

\* A client stops waiting for the request in slot t.
LEMMA LeftMInv ==
    ASSUME MInv, NEW t \in Slots, requests' = Left(t), UNCHANGED <<threaded, QUEUES>>,
           hist' \in [sent : 0 .. MaxSends, acked : SUBSET Payloads,
                      printed : [Windows -> Seq(Payloads)],
                      giveups : 0 .. MaxGiveUps, restarts : 0 .. MaxRestarts],
           on' \in [Windows -> BOOLEAN],
           poll' \in [Windows -> Slots \cup {None}], send' \in [Windows -> Slots \cup {None}],
           \A w \in Windows : /\ poll'[w] \in {poll[w], None} /\ send'[w] \in {send[w], None}
                              /\ poll'[w] # t /\ send'[w] # t
                              /\ poll'[w] # None => on'[w]
    PROVE  MInv'
<1>1. TypeOK /\ None \notin Slots
  BY MailboxConstants DEF MInv
<1>2. \A s \in Slots : /\ s # t => requests'[s] = requests[s]
                       /\ requests'[s] \in {requests[s], None}
  BY <1>1 DEF Left, TypeOK
<1>3. requests' \in [Slots -> Requests \cup {None}]
  BY <1>1 DEF Left, TypeOK
<1>4. TypeOK'
  <2> SUFFICES ASSUME NEW w \in Windows
               PROVE  /\ poll'[w] # None => on'[w] /\ poll'[w] \in Pending' /\ requests'[poll'[w]].op = "recv"
                      /\ send'[w] # None => send'[w] \in Pending' /\ requests'[send'[w]].op = "send"
                      /\ \A v \in Windows \ {w} : poll'[w] # None => poll'[w] # poll'[v]
    BY <1>1, <1>3 DEF TypeOK
  <2>1. /\ poll[w] # None => poll[w] \in Pending /\ requests[poll[w]].op = "recv"
        /\ send[w] # None => send[w] \in Pending /\ requests[send[w]].op = "send"
        /\ \A v \in Windows \ {w} : poll[w] # None => poll[w] # poll[v]
    BY <1>1 DEF TypeOK
  <2>2. \A s \in Pending : s # t => s \in Pending' /\ requests'[s].op = requests[s].op
    BY <1>2 DEF Pending
  <2>3. \A v \in Windows : poll'[v] \in {poll[v], None}
    OBVIOUS
  <2>4. QED
    BY <2>1, <2>2, <2>3
<1>5. (\A s \in Slots : Carries(requests'[s])) /\ OwnSend'
  BY <1>2 DEF MInv, OwnSend, Carries
<1>6. OneWorker'
  <2>1. Checked' \subseteq Checked /\ Failed' \subseteq Failed
    BY <1>2 DEF Checked, Failed, InStep, Pending
  <2>2. \A s \in Checked' : s \in Slots /\ requests'[s] = requests[s]
    BY <1>2 DEF Checked, InStep, Pending
  <2>3. QED
    BY <2>1, <2>2 DEF MInv, OneWorker
<1>7. QED
  BY <1>4, <1>5, <1>6 DEF MInv

\* A client begins to wait for a new request.
LEMMA NewMInv ==
    ASSUME MInv, NEW op \in {"send", "recv"}, NEW w \in Windows,
           NEW payload \in Payloads \cup {None}, op = "send" => payload \in Payloads,
           New(op, w, payload), UNCHANGED <<threaded, QUEUES, on>>,
           hist' \in [sent : 0 .. MaxSends, acked : SUBSET Payloads,
                      printed : [Windows -> Seq(Payloads)],
                      giveups : 0 .. MaxGiveUps, restarts : 0 .. MaxRestarts],
           \/ op = "recv" /\ on[w] /\ poll' = [poll EXCEPT ![w] = FreeSlot] /\ send' = send
           \/ op = "send" /\ send' = [send EXCEPT ![w] = FreeSlot] /\ poll' = poll
    PROVE  MInv'
<1> DEFINE f == FreeSlot
<1>1. /\ f \in Slots /\ requests[f] = None /\ f # None
      /\ requests' \in [Slots -> Requests \cup {None}]
      /\ requests'[f] # None /\ requests'[f].op = op /\ requests'[f].step = "sent"
      /\ \A s \in Slots \ {f} : requests'[s] = requests[s]
      /\ \A s \in Slots : Carries(requests'[s])
  BY NewProperties
<1>2. TypeOK
  BY DEF MInv
<1>3. /\ poll' = IF op = "recv" THEN [poll EXCEPT ![w] = f] ELSE poll
      /\ send' = IF op = "send" THEN [send EXCEPT ![w] = f] ELSE send
      /\ op = "recv" => on[w]
  OBVIOUS
<1> HIDE DEF f
<1>4. \A v \in Windows : /\ poll'[v] = IF op = "recv" /\ v = w THEN f ELSE poll[v]
                         /\ send'[v] = IF op = "send" /\ v = w THEN f ELSE send[v]
  BY <1>2, <1>3 DEF TypeOK
<1>5. \A v \in Windows :
        /\ poll[v] # f /\ send[v] # f
        /\ poll[v] # None => on[v] /\ poll[v] \in Pending' /\ requests'[poll[v]].op = "recv"
        /\ send[v] # None => send[v] \in Pending' /\ requests'[send[v]].op = "send"
  BY <1>1, <1>2 DEF TypeOK, Pending
<1>6. f \in Pending'
  BY <1>1 DEF Pending
<1>7. TypeOK'
  <2>1. poll' \in [Windows -> Slots \cup {None}] /\ send' \in [Windows -> Slots \cup {None}]
    BY <1>1, <1>2, <1>3 DEF TypeOK
  <2>2. \A v \in Windows :
          /\ poll'[v] # None => on'[v] /\ poll'[v] \in Pending' /\ requests'[poll'[v]].op = "recv"
          /\ send'[v] # None => send'[v] \in Pending' /\ requests'[send'[v]].op = "send"
    BY <1>1, <1>3, <1>4, <1>5, <1>6
  <2>3. \A v \in Windows : \A u \in Windows \ {v} : poll'[v] # None => poll'[v] # poll'[u]
    BY <1>2, <1>4, <1>5 DEF TypeOK
  <2>4. QED
    BY <1>1, <1>2, <2>1, <2>2, <2>3 DEF TypeOK
<1>8. OwnSend'
  BY <1>4, <1>5 DEF MInv, OwnSend
<1>9. OneWorker'
  <2>1. Checked' = Checked /\ Failed' = Failed
    BY <1>1 DEF Checked, Failed, InStep, Pending
  <2>2. \A s \in Checked : s \in Slots \ {f}
    BY <1>1 DEF Checked, InStep, Pending
  <2>3. \A s \in Checked : requests'[s] = requests[s]
    BY <1>1, <2>2
  <2>4. QED
    BY <2>1, <2>3 DEF MInv, OneWorker
<1>10. QED
  BY <1>1, <1>7, <1>8, <1>9 DEF MInv

\* A poller polls, is answered or gives up.
LEMMA PollerMInv == ASSUME MInv, NEW w \in Windows, PollerStep(w) PROVE MInv'
<1>1. /\ TypeOK /\ MaxGiveUps \in Nat /\ None \notin Slots
      /\ \A v \in Windows : on[v] \in BOOLEAN /\ (poll[v] # None => on[v])
  BY MailboxConstants DEF MInv, TypeOK
<1>2. CASE Poll(w)
  BY <1>1, <1>2, NewMInv DEF Poll, TypeOK
<1>3. CASE Receive(w) \/ Timeout(w)
  <2> DEFINE t == poll[w]
  <2>1. t \in Pending /\ t \in Slots /\ t # None /\ requests[t].op = "recv"
    <3>1. t # None
      BY <1>1, <1>3 DEF Receive, Timeout, Answers, InStep, Pending
    <3>2. QED
      BY <1>1, <3>1 DEF TypeOK, Pending
  <2>2. requests' = Left(t) /\ poll' = [poll EXCEPT ![w] = None] /\ UNCHANGED <<threaded, QUEUES, on, send>>
    BY <1>3 DEF Receive, Timeout, Left
  <2>3. \A v \in Windows : /\ poll'[v] = IF v = w THEN None ELSE poll[v]
                           /\ send[v] # t
                           /\ v # w => poll[v] # t
    BY <1>1, <2>1, <2>2 DEF TypeOK
  <2>4. hist' \in [sent : 0 .. MaxSends, acked : SUBSET Payloads,
                   printed : [Windows -> Seq(Payloads)],
                   giveups : 0 .. MaxGiveUps, restarts : 0 .. MaxRestarts]
    <3>1. CASE Receive(w)
      <4> DEFINE r == requests[t]
      <4>1. hist' = IF r.step = "200" /\ r.payload # None
                    THEN [hist EXCEPT !.printed[w] = Append(@, r.payload)] ELSE hist
        BY <3>1 DEF Receive, Printed
      <4>2. r.payload \in Payloads \cup {None}
        BY <1>1, <2>1 DEF TypeOK, Pending, Requests
      <4>3. r.payload # None => Append(hist.printed[w], r.payload) \in Seq(Payloads)
        <5>1. hist.printed[w] \in Seq(Payloads)
          BY <1>1 DEF TypeOK
        <5>2. QED
          BY <4>2, <5>1, AppendProperties
      <4> HIDE DEF r
      <4>4. QED
        BY <1>1, <4>1, <4>3 DEF TypeOK
    <3>2. CASE Timeout(w)
      <4>1. hist' = [hist EXCEPT !.giveups = @ + 1] /\ hist.giveups + 1 \in 0 .. MaxGiveUps
        BY <1>1, <3>2 DEF Timeout, GaveUp, TypeOK
      <4>2. QED
        BY <1>1, <4>1 DEF TypeOK
    <3>3. QED
      BY <1>3, <3>1, <3>2
  <2>5. poll' \in [Windows -> Slots \cup {None}]
    BY <1>1, <2>2 DEF TypeOK
  <2> HIDE DEF t
  <2>6. QED
    BY <1>1, <2>1, <2>2, <2>3, <2>4, <2>5, LeftMInv DEF TypeOK
<1>4. QED
  BY <1>2, <1>3 DEF PollerStep

\* A window connects, disconnects, sends, and waits for its command.
LEMMA WindowMInv == ASSUME MInv, NEW w \in Windows, WindowStep(w) PROVE MInv'
<1>1. /\ TypeOK /\ MaxGiveUps \in Nat /\ MaxSends \in Nat /\ None \notin Slots
      /\ \A v \in Windows : on[v] \in BOOLEAN /\ (poll[v] # None => on[v])
      /\ Senders \subseteq Windows
  BY MailboxConstants DEF MInv, TypeOK
<1>2. hist.giveups < MaxGiveUps =>
        GaveUp \in [sent : 0 .. MaxSends, acked : SUBSET Payloads,
                    printed : [Windows -> Seq(Payloads)],
                    giveups : 0 .. MaxGiveUps, restarts : 0 .. MaxRestarts]
  <2> SUFFICES ASSUME hist.giveups < MaxGiveUps
               PROVE  GaveUp \in [sent : 0 .. MaxSends, acked : SUBSET Payloads,
                                  printed : [Windows -> Seq(Payloads)],
                                  giveups : 0 .. MaxGiveUps, restarts : 0 .. MaxRestarts]
    OBVIOUS
  <2>1. hist.giveups + 1 \in 0 .. MaxGiveUps
    BY <1>1 DEF TypeOK
  <2>2. QED
    BY <1>1, <2>1 DEF TypeOK, GaveUp
<1>3. CASE connect_transport(w)
  <2>1. /\ on' = [on EXCEPT ![w] = TRUE]
        /\ UNCHANGED <<threaded, QUEUES, requests, poll, send, hist>>
    BY <1>3 DEF connect_transport
  <2>2. TypeOK'
    BY <1>1, <2>1 DEF TypeOK, Pending
  <2>3. Checked' = Checked /\ Failed' = Failed
    BY <2>1 DEF Checked, Failed, InStep, Pending
  <2>4. QED
    BY <2>1, <2>2, <2>3 DEF MInv, OwnSend, OneWorker
<1>4. CASE disconnect_transport(w)
  <2> DEFINE t == poll[w]
  <2>1. /\ on' = [on EXCEPT ![w] = FALSE] /\ poll' = [poll EXCEPT ![w] = None]
        /\ UNCHANGED <<threaded, QUEUES, send>>
    BY <1>4 DEF disconnect_transport, Killed
  <2>2. CASE t = None
    <3>1. UNCHANGED <<requests, hist>> /\ poll' = poll
      BY <1>1, <1>4, <2>1, <2>2 DEF disconnect_transport, TypeOK
    <3>2. TypeOK'
      <4>1. \A v \in Windows : poll[v] # None => on'[v]
        BY <1>1, <2>1, <2>2 DEF TypeOK
      <4>2. on' \in [Windows -> BOOLEAN]
        BY <1>1, <2>1 DEF TypeOK
      <4>3. QED
        BY <1>1, <2>1, <3>1, <4>1, <4>2 DEF TypeOK, Pending
    <3>3. Checked' = Checked /\ Failed' = Failed
      BY <3>1 DEF Checked, Failed, InStep, Pending
    <3>4. QED
      BY <2>1, <3>1, <3>2, <3>3 DEF MInv, OwnSend, OneWorker
  <2>3. CASE t # None
    <3>1. requests' = Left(t) /\ hist' = GaveUp /\ hist.giveups < MaxGiveUps
      BY <1>4, <2>3 DEF disconnect_transport
    <3>2. t \in Slots /\ requests[t].op = "recv"
      BY <1>1, <2>3 DEF TypeOK
    <3>3. \A v \in Windows : /\ poll'[v] = IF v = w THEN None ELSE poll[v]
                             /\ on'[v] = IF v = w THEN FALSE ELSE on[v]
                             /\ send[v] # t
                             /\ v # w => poll[v] # t
      BY <1>1, <2>1, <2>3, <3>2 DEF TypeOK
    <3>4. poll' \in [Windows -> Slots \cup {None}] /\ on' \in [Windows -> BOOLEAN]
      BY <1>1, <2>1 DEF TypeOK
    <3> HIDE DEF t
    <3>5. QED
      BY <1>1, <1>2, <2>1, <3>1, <3>2, <3>3, <3>4, LeftMInv DEF TypeOK
  <2>4. QED
    BY <2>2, <2>3
<1>5. CASE send_h2_payload(w)
  <2> DEFINE p == [id |-> hist.sent + 1, from |-> w]
  <2>1. /\ w \in Windows /\ hist.sent < MaxSends /\ New("send", w, p)
        /\ send' = [send EXCEPT ![w] = FreeSlot] /\ hist' = [hist EXCEPT !.sent = @ + 1]
        /\ UNCHANGED <<threaded, QUEUES, on, poll>>
    BY <1>1, <1>5 DEF send_h2_payload
  <2>2. hist.sent + 1 \in 1 .. MaxSends /\ hist.sent + 1 \in 0 .. MaxSends
    BY <1>1, <2>1 DEF TypeOK
  <2>3. p \in Payloads
    BY <2>1, <2>2 DEF Payloads
  <2>4. hist' \in [sent : 0 .. MaxSends, acked : SUBSET Payloads,
                   printed : [Windows -> Seq(Payloads)],
                   giveups : 0 .. MaxGiveUps, restarts : 0 .. MaxRestarts]
    BY <1>1, <2>1, <2>2 DEF TypeOK
  <2> HIDE DEF p
  <2>5. QED
    BY <2>1, <2>3, <2>4, NewMInv
<1>6. CASE SendEnds(w) \/ SendFails(w)
  <2> DEFINE t == send[w]
  <2>1. t \in Pending /\ t \in Slots /\ t # None /\ requests[t].op = "send"
    <3>1. t # None
      BY <1>1, <1>6 DEF SendEnds, SendFails, Answers, InStep, Pending
    <3>2. QED
      BY <1>1, <3>1 DEF TypeOK, Pending
  <2>2. requests' = Left(t) /\ send' = [send EXCEPT ![w] = None] /\ UNCHANGED <<threaded, QUEUES, on, poll>>
    BY <1>6 DEF SendEnds, SendFails, Left
  <2>3. \A v \in Windows : /\ send'[v] = IF v = w THEN None ELSE send[v]
                           /\ poll[v] # t
                           /\ v # w => send[v] # t
    BY <1>1, <2>1, <2>2 DEF TypeOK, MInv, OwnSend
  <2>4. hist' \in [sent : 0 .. MaxSends, acked : SUBSET Payloads,
                   printed : [Windows -> Seq(Payloads)],
                   giveups : 0 .. MaxGiveUps, restarts : 0 .. MaxRestarts]
    <3>1. CASE SendEnds(w)
      <4>1. requests[t].payload \in Payloads
        BY <2>1 DEF MInv, Carries, Pending
      <4>2. hist' = hist \/ hist' = [hist EXCEPT !.acked = @ \cup {requests[t].payload}]
        BY <3>1 DEF SendEnds
      <4>3. QED
        BY <1>1, <4>1, <4>2 DEF TypeOK
    <3>2. CASE SendFails(w)
      BY <1>2, <3>2 DEF SendFails
    <3>3. QED
      BY <1>6, <3>1, <3>2
  <2>5. send' \in [Windows -> Slots \cup {None}]
    BY <1>1, <2>2 DEF TypeOK
  <2> HIDE DEF t
  <2>6. QED
    BY <1>1, <2>1, <2>2, <2>3, <2>4, <2>5, LeftMInv DEF TypeOK
<1>7. QED
  BY <1>3, <1>4, <1>5, <1>6 DEF WindowStep

LEMMA NextMInv == MInv /\ [Next]_vars => MInv'
<1> SUFFICES ASSUME MInv, [Next]_vars PROVE MInv'
  OBVIOUS
<1>1. CASE Next
  BY <1>1, HandleMInv, RestartMInv, PollerMInv, WindowMInv DEF Next
<1>2. CASE UNCHANGED vars
  <2>1. UNCHANGED <<threaded, QUEUES, requests, on, poll, send, hist>>
    BY <1>2 DEF vars
  <2>2. Pending' = Pending /\ Checked' = Checked /\ Failed' = Failed
    BY <2>1 DEF Checked, Failed, InStep, Pending
  <2>3. QED
    BY <2>1, <2>2 DEF MInv, TypeOK, OwnSend, OneWorker
<1>3. QED
  BY <1>1, <1>2

-----------------------------------------------------------------------------
(* The theorems *)

LEMMA MailboxInvariance == Spec => []MInv
BY InitMInv, NextMInv, PTL DEF Spec

\* The queues, the requests and what each client waits for keep their types,
\* whatever is left behind, killed or restarted: a poller and a command each wait
\* for a request of their own that is still there.
THEOREM MailboxTypeCorrect == Spec => []TypeOK
<1>1. MInv => TypeOK
  BY DEF MInv
<1>2. QED
  BY <1>1, MailboxInvariance, PTL

\* The container's single synchronous worker never answers 500: between the test
\* of recv_data and its popleft() nobody takes the payload it has seen, however
\* many windows poll for the same identifier and whatever they leave behind.
THEOREM WorkerNeverFails == Spec => []NoServerError
<1>1. MInv => NoServerError
  BY DEF MInv, OneWorker, NoServerError, Failed
<1>2. QED
  BY <1>1, MailboxInvariance, PTL

-----------------------------------------------------------------------------
(* Where a payload is *)

\* Payload p is in a request to send, in a queue, in an answer, or printed.
Lies(kind, a, b, p) ==
    \/ /\ kind = "request" /\ a \in Pending /\ b = 0
       /\ requests[a].op = "send" /\ requests[a].step = "sent" /\ requests[a].payload = p
    \/ kind = "queue" /\ a \in Ids /\ b \in 1 .. Len(QUEUES[a]) /\ QUEUES[a][b] = p
    \/ kind = "answer" /\ a \in Pending /\ b = 0 /\ requests[a].op = "recv" /\ requests[a].payload = p
    \/ kind = "printed" /\ a \in Windows /\ b \in 1 .. Len(hist.printed[a]) /\ hist.printed[a][b] = p

Unique ==
    \A p \in Payloads : \A k, a, b, l, c, d :
        Lies(k, a, b, p) /\ Lies(l, c, d, p) => k = l /\ a = c /\ b = d

\* No payload is there before it is sent.
Known == \A p \in Payloads : \A k, a, b : Lies(k, a, b, p) => p.id <= hist.sent

\* A poll carries nothing before it is answered.
Bare ==
    \A s \in Pending :
        requests[s].op = "recv" /\ requests[s].step \in {"sent", "checked"} => requests[s].payload = None

UInv == Unique /\ Known /\ Bare

\* Payloads stay where they are or vanish.
Vanishing == \A p \in Payloads : \A k, a, b : Lies(k, a, b, p)' => Lies(k, a, b, p)

LEMMA StayPut ==
    ASSUME UInv, Vanishing, hist'.sent = hist.sent
    PROVE  Unique' /\ Known'
BY DEF Vanishing, UInv, Unique, Known

\* What Append and Tail do to the places of a queue.
LEMMA AppendPlaces ==
    ASSUME NEW q \in Seq(Payloads), NEW e \in Payloads,
           NEW b \in 1 .. Len(Append(q, e)), NEW p, Append(q, e)[b] = p
    PROVE  \/ b = Len(q) + 1 /\ p = e
           \/ b \in 1 .. Len(q) /\ q[b] = p
<1>1. Len(q) \in Nat /\ Len(Append(q, e)) = Len(q) + 1
      /\ Append(q, e)[Len(q) + 1] = e /\ \A i \in 1 .. Len(q) : Append(q, e)[i] = q[i]
  BY AppendProperties, LenProperties
<1>2. QED
  BY <1>1

LEMMA TailPlaces ==
    ASSUME NEW q \in Seq(Payloads), q # <<>>,
           NEW b \in 1 .. Len(Tail(q)), NEW p, Tail(q)[b] = p
    PROVE  b + 1 \in 1 .. Len(q) /\ q[b + 1] = p /\ b + 1 # 1
<1>1. Len(q) \in Nat \ {0} /\ Len(Tail(q)) = Len(q) - 1
      /\ \A i \in 1 .. Len(Tail(q)) : Tail(q)[i] = q[i + 1]
  BY HeadTailProperties, EmptySeq, LenProperties
<1>2. QED
  BY <1>1

LEMMA InitUInv == Init => UInv
<1> SUFFICES ASSUME Init PROVE UInv
  OBVIOUS
<1>1. Pending = {}
  BY DEF Init, Pending
<1>2. Len(<<>>) = 0
  OBVIOUS
<1>3. \A k, a, b, p : ~Lies(k, a, b, p)
  BY <1>1, <1>2 DEF Init, Lies
<1>4. QED
  BY <1>1, <1>3 DEF UInv, Unique, Known, Bare

\* A request is answered or goes behind the test.
LEMMA AnswerPlaces ==
    ASSUME MInv, UInv, NEW s \in Pending, NEW r \in Requests \cup {None},
           r # None => r.op = requests[s].op, requests' = [requests EXCEPT ![s] = r],
           QUEUES' = QUEUES, hist' = hist,
           r # None /\ r.op = "recv" => r.payload = None,
           r # None /\ r.op = "send" => r.step # "sent"
    PROVE  UInv' /\ Vanishing
<1>1. \A t \in Slots : requests'[t] = IF t = s THEN r ELSE requests[t]
  BY DEF MInv, TypeOK
<1>2. Vanishing
  BY <1>1, NoneIsNoRequest DEF Vanishing, Lies, Pending
<1>3. Bare'
  BY <1>1 DEF UInv, Bare, Pending
<1>4. QED
  BY <1>2, <1>3, StayPut DEF UInv

\* What is known of a request that is handled.
LEMMA HandledRequest ==
    ASSUME MInv, UInv, NEW s \in Slots, Handle(s)
    PROVE  /\ s \in Pending /\ requests[s] \in Requests
           /\ requests[s].cid \in Ids
           /\ QUEUES[requests[s].cid] \in Seq(Payloads) /\ Len(QUEUES[requests[s].cid]) \in Nat
           /\ requests[s].op = "send" => requests[s].payload \in Payloads
           /\ requests[s].op = "recv" => requests[s].payload = None
           /\ requests[s].step = "checked" => requests[s].op = "recv"
<1>1. s \in Pending /\ requests[s].step \in {"sent", "checked"}
  BY DEF Handle, SendData, RecvTest, RecvPop, InStep
<1>2. TypeOK /\ requests[s] \in Requests /\ Carries(requests[s]) /\ requests[s] # None
  BY <1>1 DEF MInv, TypeOK, Pending
<1>3. requests[s].cid \in Ids /\ requests[s].op \in {"send", "recv"}
  BY <1>2 DEF Requests
<1>4. QUEUES[requests[s].cid] \in Seq(Payloads)
  BY <1>2, <1>3 DEF TypeOK
<1>5. requests[s].op = "recv" => requests[s].payload = None
  BY <1>1 DEF UInv, Bare
<1>6. QED
  BY <1>1, <1>2, <1>3, <1>4, <1>5, LenProperties DEF Carries

\* send_data moves the payload of a request behind the last one of its queue.
LEMMA SendDataPlaces ==
    ASSUME MInv, UInv, NEW s \in Slots, SendData(s)
    PROVE  LET cid == requests[s].cid
               e == requests[s].payload
           IN /\ e \in Payloads /\ Lies("request", s, 0, e) /\ hist' = hist
              /\ \/ requests'[s] = None
                 \/ requests'[s] = [requests[s] EXCEPT !.step = "200", !.payload = e]
              /\ requests'[s] # None => requests'[s].op = "send" /\ requests'[s].step = "200"
              /\ \A t \in Slots \ {s} : requests'[t] = requests[t]
              /\ \A p \in Payloads : \A k, a, b : Lies(k, a, b, p)' =>
                  \/ k = "queue" /\ a = cid /\ b = Len(QUEUES[cid]) + 1 /\ Lies("request", s, 0, p)
                  \/ Lies(k, a, b, p) /\ ~(k = "request" /\ a = s /\ b = 0)
<1> DEFINE cid == requests[s].cid
           q == QUEUES[cid]
           e == requests[s].payload
           r == Answer(s, "200", e)
<1>1. /\ TypeOK /\ s \in Pending /\ requests[s] \in Requests
      /\ cid \in Ids /\ q \in Seq(Payloads) /\ Len(q) \in Nat
      /\ requests[s].op = "send" => e \in Payloads
  BY HandledRequest DEF Handle, MInv
<1>2. /\ requests[s].op = "send" /\ requests[s].step = "sent"
      /\ requests' = [requests EXCEPT ![s] = r] /\ hist' = hist
      /\ QUEUES' = [QUEUES EXCEPT ![cid] = Append(q, e)]
  BY <1>1 DEF SendData, Answered, ServerOnly, Queued, TypeOK, InStep
<1>3. r \in Requests \cup {None} /\ (r # None => r.op = "send" /\ r.step = "200")
  BY <1>1, <1>2, AnswerProperties
<1>4. \A i \in Ids : QUEUES'[i] = IF i = cid THEN Append(q, e) ELSE QUEUES[i]
  BY <1>1, <1>2 DEF TypeOK
<1>5. Lies("request", s, 0, e) /\ e \in Payloads
  BY <1>1, <1>2 DEF Lies
<1>6. \A t \in Slots : requests'[t] = IF t = s THEN r ELSE requests[t]
  BY <1>1, <1>2 DEF TypeOK
<1>7. r = None \/ r = [requests[s] EXCEPT !.step = "200", !.payload = e]
  BY DEF Answer
<1> HIDE DEF r
<1>8. ASSUME NEW p \in Payloads, NEW k, NEW a, NEW b, Lies(k, a, b, p)'
      PROVE  \/ k = "queue" /\ a = cid /\ b = Len(q) + 1 /\ Lies("request", s, 0, p)
             \/ Lies(k, a, b, p) /\ ~(k = "request" /\ a = s /\ b = 0)
  <2>1. CASE k = "queue"
    <3>1. CASE a = cid
      <4>1. b \in 1 .. Len(Append(q, e)) /\ Append(q, e)[b] = p
        BY <1>1, <1>4, <1>8, <2>1, <3>1 DEF Lies
      <4>2. \/ b = Len(q) + 1 /\ p = e
            \/ b \in 1 .. Len(q) /\ q[b] = p
        BY <1>1, <1>5, <4>1, AppendPlaces
      <4>3. QED
        BY <1>1, <1>5, <2>1, <3>1, <4>2 DEF Lies
    <3>2. CASE a # cid
      BY <1>4, <1>8, <2>1, <3>2 DEF Lies
    <3>3. QED
      BY <3>1, <3>2
  <2>2. CASE k # "queue"
    BY <1>2, <1>3, <1>6, <1>8, <2>2 DEF Lies, Pending
  <2>3. QED
    BY <2>1, <2>2
<1>9. QED
  BY <1>2, <1>3, <1>5, <1>6, <1>7, <1>8

\* recv_data looks at the queue: nothing moves.
LEMMA RecvTestPlaces ==
    ASSUME MInv, UInv, NEW s \in Slots, RecvTest(s)
    PROVE  UInv' /\ Vanishing
<1>1. /\ TypeOK /\ s \in Pending /\ requests[s] \in Requests
      /\ requests[s].op = "recv" /\ requests[s].payload = None
      /\ hist' = hist /\ QUEUES' = QUEUES
  BY HandledRequest DEF Handle, RecvTest, MInv
<1>2. CASE Empty(QUEUES[requests[s].cid])
  <2> DEFINE r == Answer(s, "200", None)
  <2>1. r \in Requests \cup {None} /\ (r # None => r.op = requests[s].op)
    BY <1>1, AnswerProperties
  <2>2. r # None => r.payload = None
    BY <1>1 DEF Answer, Requests
  <2>3. requests' = [requests EXCEPT ![s] = r]
    BY <1>2 DEF RecvTest, Answered
  <2> HIDE DEF r
  <2>4. QED
    BY <1>1, <2>1, <2>2, <2>3, AnswerPlaces
<1>3. CASE ~Empty(QUEUES[requests[s].cid])
  <2> DEFINE r == [requests[s] EXCEPT !.step = "checked"]
  <2>1. r \in Requests /\ r.op = "recv" /\ r.payload = None
    BY <1>1 DEF Requests, Steps
  <2>2. requests' = [requests EXCEPT ![s] = r]
    BY <1>3 DEF RecvTest
  <2> HIDE DEF r
  <2>3. QED
    BY <1>1, <2>1, <2>2, AnswerPlaces
<1>4. QED
  BY <1>2, <1>3

\* popleft() of an empty deque: nothing moves.
LEMMA FailedPopPlaces ==
    ASSUME MInv, UInv, NEW s \in Slots, RecvPop(s), QUEUES[requests[s].cid] = <<>>
    PROVE  UInv' /\ Vanishing
<1> DEFINE r == Answer(s, "500", None)
<1>1. /\ TypeOK /\ s \in Pending /\ requests[s] \in Requests
      /\ requests[s].op = "recv" /\ requests[s].payload = None
      /\ requests' = [requests EXCEPT ![s] = r] /\ hist' = hist /\ QUEUES' = QUEUES
  BY HandledRequest DEF Handle, RecvPop, InStep, MInv, Answered
<1>2. r \in Requests \cup {None} /\ (r # None => r.op = requests[s].op)
  BY <1>1, AnswerProperties
<1>3. r # None => r.payload = None
  BY <1>1 DEF Answer, Requests
<1> HIDE DEF r
<1>4. QED
  BY <1>1, <1>2, <1>3, AnswerPlaces

\* popleft() moves the first payload of the queue into the answer, and the others
\* up by one.
LEMMA RecvPopPlaces ==
    ASSUME MInv, UInv, NEW s \in Slots, RecvPop(s), QUEUES[requests[s].cid] # <<>>
    PROVE  LET cid == requests[s].cid
           IN /\ requests[s].op = "recv" /\ hist' = hist
              /\ Head(QUEUES[cid]) \in Payloads /\ Lies("queue", cid, 1, Head(QUEUES[cid]))
              /\ \/ requests'[s] = None /\ ~Wanted(s)
                 \/ /\ requests'[s] # None /\ requests'[s].op = "recv" /\ Wanted(s)
                    /\ requests'[s].step = "200" /\ requests'[s].payload = Head(QUEUES[cid])
              /\ \A t \in Slots \ {s} : requests'[t] = requests[t]
              /\ \A i \in Ids : QUEUES'[i] = IF i = cid THEN Tail(QUEUES[cid]) ELSE QUEUES[i]
              /\ \A p \in Payloads : \A k, a, b : Lies(k, a, b, p)' =>
                  \/ k = "answer" /\ a = s /\ b = 0 /\ Lies("queue", cid, 1, p)
                  \/ /\ k = "queue" /\ a = cid /\ b + 1 # 1 /\ b \in Nat
                     /\ Lies("queue", cid, b + 1, p)
                  \/ Lies(k, a, b, p) /\ ~(k = "queue" /\ a = cid)
<1> DEFINE cid == requests[s].cid
           q == QUEUES[cid]
           r == Answer(s, "200", Head(q))
<1>1. /\ TypeOK /\ s \in Pending /\ requests[s] \in Requests /\ requests[s].step = "checked"
      /\ cid \in Ids /\ q \in Seq(Payloads) /\ Len(q) \in Nat /\ requests[s].op = "recv"
  BY HandledRequest DEF Handle, RecvPop, InStep, MInv
<1>2. /\ requests' = [requests EXCEPT ![s] = r] /\ QUEUES' = [QUEUES EXCEPT ![cid] = Tail(q)]
      /\ hist' = hist
  BY DEF RecvPop, Answered, Popped
<1>3. Head(q) \in Payloads /\ Head(q) = q[1] /\ 1 \in 1 .. Len(q)
  BY <1>1, HeadTailProperties, EmptySeq
<1>4. r \in Requests \cup {None} /\ (r # None => r.op = "recv" /\ r.step = "200")
  BY <1>1, <1>3, AnswerProperties
<1>5. IF Wanted(s) THEN r # None /\ r.payload = Head(q) ELSE r = None
  <2>1. Wanted(s) => r # None
    BY <1>1, <1>3, AnswerProperties
  <2>2. QED
    BY <1>1, <2>1 DEF Answer, Requests
<1>6. \A i \in Ids : QUEUES'[i] = IF i = cid THEN Tail(q) ELSE QUEUES[i]
  BY <1>1, <1>2 DEF TypeOK
<1>7. \A t \in Slots : requests'[t] = IF t = s THEN r ELSE requests[t]
  BY <1>1, <1>2 DEF TypeOK
<1> HIDE DEF r
<1>8. ASSUME NEW p \in Payloads, NEW k, NEW a, NEW b, Lies(k, a, b, p)'
      PROVE  \/ k = "answer" /\ a = s /\ b = 0 /\ Lies("queue", cid, 1, p)
             \/ /\ k = "queue" /\ a = cid /\ b + 1 # 1 /\ b \in Nat
                /\ Lies("queue", cid, b + 1, p)
             \/ Lies(k, a, b, p) /\ ~(k = "queue" /\ a = cid)
  <2>1. CASE k = "queue" /\ a = cid
    <3>1. b \in 1 .. Len(Tail(q)) /\ Tail(q)[b] = p
      BY <1>1, <1>6, <1>8, <2>1 DEF Lies
    <3>2. b + 1 \in 1 .. Len(q) /\ q[b + 1] = p /\ b + 1 # 1 /\ b \in Nat
      BY <1>1, <3>1, TailPlaces
    <3>3. QED
      BY <1>1, <2>1, <3>2 DEF Lies
  <2>2. CASE k = "queue" /\ a # cid
    BY <1>6, <1>8, <2>2 DEF Lies
  <2>3. CASE k # "queue"
    BY <1>1, <1>2, <1>3, <1>4, <1>5, <1>7, <1>8, <2>3 DEF Lies, Pending
  <2>4. QED
    BY <2>1, <2>2, <2>3
<1>9. Lies("queue", cid, 1, Head(q))
  BY <1>1, <1>3 DEF Lies
<1>10. QED
  BY <1>1, <1>2, <1>3, <1>4, <1>5, <1>6, <1>7, <1>8, <1>9

\* The server handles a request.
LEMMA HandleUInv == ASSUME MInv, UInv, NEW s \in Slots, Handle(s) PROVE UInv'
<1> DEFINE cid == requests[s].cid
           q == QUEUES[cid]
<1>1. \A p \in Payloads : \A k, a, b, l, c, d :
        Lies(k, a, b, p) /\ Lies(l, c, d, p) => k = l /\ a = c /\ b = d
  BY DEF UInv, Unique
<1>2. CASE SendData(s)
  <2>1. /\ requests'[s] # None => requests'[s].op = "send"
        /\ \A t \in Slots \ {s} : requests'[t] = requests[t]
        /\ hist' = hist
    BY <1>2, SendDataPlaces
  <2>2. \A p \in Payloads : \A k, a, b : Lies(k, a, b, p)' =>
          \/ k = "queue" /\ a = cid /\ b = Len(q) + 1 /\ Lies("request", s, 0, p)
          \/ Lies(k, a, b, p) /\ ~(k = "request" /\ a = s /\ b = 0)
    BY <1>2, SendDataPlaces
  <2> HIDE DEF cid, q
  <2>3. Unique'
    BY <1>1, <2>2 DEF Unique
  <2>4. Known'
    BY <2>1, <2>2 DEF UInv, Known
  <2>5. Bare'
    BY <2>1 DEF UInv, Bare, Pending
  <2>6. QED
    BY <2>3, <2>4, <2>5 DEF UInv
<1>3. CASE RecvTest(s)
  BY <1>3, RecvTestPlaces
<1>4. CASE RecvPop(s) /\ q = <<>>
  BY <1>4, FailedPopPlaces
<1>5. CASE RecvPop(s) /\ q # <<>>
  <2>1. /\ requests'[s] # None => requests'[s].step = "200"
        /\ \A t \in Slots \ {s} : requests'[t] = requests[t]
        /\ hist' = hist
    BY <1>5, RecvPopPlaces
  <2>2. \A p \in Payloads : \A k, a, b : Lies(k, a, b, p)' =>
          \/ k = "answer" /\ a = s /\ b = 0 /\ Lies("queue", cid, 1, p)
          \/ /\ k = "queue" /\ a = cid /\ b + 1 # 1 /\ b \in Nat
             /\ Lies("queue", cid, b + 1, p)
          \/ Lies(k, a, b, p) /\ ~(k = "queue" /\ a = cid)
    BY <1>5, RecvPopPlaces
  <2>3. \A b, d \in Nat : b + 1 = d + 1 => b = d
    OBVIOUS
  <2> HIDE DEF cid, q
  <2>4. ASSUME NEW p \in Payloads, NEW k, NEW a, NEW b, NEW l, NEW c, NEW d,
               Lies(k, a, b, p)', Lies(l, c, d, p)'
        PROVE  k = l /\ a = c /\ b = d
    BY <1>1, <2>2, <2>3, <2>4
  <2>5. Unique'
    BY <2>4 DEF Unique
  <2>6. Known'
    BY <2>1, <2>2 DEF UInv, Known
  <2>7. Bare'
    BY <2>1 DEF UInv, Bare, Pending
  <2>8. QED
    BY <2>5, <2>6, <2>7 DEF UInv
<1>6. QED
  BY <1>2, <1>3, <1>4, <1>5 DEF Handle

\* The server is restarted: what was queued is gone, and what it handled.
LEMMA RestartUInv == ASSUME MInv, UInv, Restart PROVE UInv' /\ Vanishing
<1>0. PICK kept \in SUBSET InStep({"sent"}) : requests' = [s \in Slots |-> Restarted(s, kept)]
  BY DEF Restart, Restarted
<1>1. /\ \A s \in Slots : requests'[s] = Restarted(s, kept)
      /\ \A i \in Ids : QUEUES'[i] = <<>>
      /\ hist'.sent = hist.sent /\ hist'.printed = hist.printed
  BY <1>0 DEF Restart, MInv, TypeOK
<1>2. ASSUME NEW s \in Slots
      PROVE  \/ requests'[s] = requests[s]
             \/ requests'[s] = None
             \/ /\ s \in Pending /\ requests'[s].op = requests[s].op
                /\ requests'[s].step = "502" /\ requests'[s].payload = requests[s].payload
  <2>1. CASE s \notin Pending \/ s \in Answers \cup kept
    BY <1>1, <2>1 DEF Restarted
  <2>2. CASE s \in Pending /\ s \notin Answers \cup kept
    <3>1. requests'[s] = Answer(s, "502", requests[s].payload)
      BY <1>1, <2>2 DEF Restarted
    <3>2. requests[s] \in Requests
      BY <2>2 DEF MInv, TypeOK, Pending
    <3>3. QED
      BY <2>2, <3>1, <3>2 DEF Answer, Requests
  <2>3. QED
    BY <2>1, <2>2
<1>3. \A s \in Answers : requests[s].step \notin {"sent", "checked"}
  BY DEF Answers, InStep
<1>4. Vanishing
  <2>1. Len(<<>>) = 0
    OBVIOUS
  <2>2. QED
    BY <1>1, <1>2, <1>3, <2>1 DEF Vanishing, Lies, Pending
<1>5. Bare'
  BY <1>2, <1>3 DEF UInv, Bare, Pending
<1>6. QED
  BY <1>1, <1>4, <1>5, StayPut DEF UInv

\* A client stops waiting, and prints nothing.
LEMMA LeftUInv ==
    ASSUME MInv, UInv, NEW t, requests' = Left(t), QUEUES' = QUEUES,
           hist'.sent = hist.sent, hist'.printed = hist.printed
    PROVE  UInv' /\ Vanishing
<1>1. \A s \in Slots : requests'[s] \in {requests[s], None}
  BY DEF Left, MInv, TypeOK
<1>2. Vanishing
  BY <1>1 DEF Vanishing, Lies, Pending
<1>3. Bare'
  BY <1>1 DEF UInv, Bare, Pending
<1>4. QED
  BY <1>2, <1>3, StayPut DEF UInv

\* A poller reads an answer that it does not print.
LEMMA NothingPrinted ==
    ASSUME MInv, UInv, NEW w \in Windows, Receive(w),
           ~(requests[poll[w]].step = "200" /\ requests[poll[w]].payload # None)
    PROVE  UInv' /\ Vanishing /\ hist' = hist
<1>1. requests' = Left(poll[w]) /\ hist' = hist /\ QUEUES' = QUEUES
  BY DEF Receive, Printed, Left
<1>2. QED
  BY <1>1, LeftUInv

\* A poller prints: the payload of its answer moves behind those it has printed.
LEMMA ReceivePlaces ==
    ASSUME MInv, UInv, NEW w \in Windows, Receive(w),
           requests[poll[w]].step = "200", requests[poll[w]].payload # None
    PROVE  LET t == poll[w]
           IN /\ requests[t].payload \in Payloads /\ Lies("answer", t, 0, requests[t].payload)
              /\ hist'.sent = hist.sent /\ hist'.acked = hist.acked
              /\ hist'.giveups = hist.giveups /\ hist'.restarts = hist.restarts
              /\ \A s \in Slots : requests'[s] = IF s = t THEN None ELSE requests[s]
              /\ \A p \in Payloads : \A k, a, b : Lies(k, a, b, p)' =>
                  \/ /\ k = "printed" /\ a = w /\ b = Len(hist.printed[w]) + 1
                     /\ Lies("answer", t, 0, p)
                  \/ Lies(k, a, b, p) /\ ~(k = "answer" /\ a = t /\ b = 0)
<1> DEFINE t == poll[w]
           r == requests[t]
           q == hist.printed[w]
           e == r.payload
<1>1. /\ TypeOK /\ t \in Pending /\ t \in Slots /\ r \in Requests
      /\ requests' = [requests EXCEPT ![t] = None] /\ QUEUES' = QUEUES
      /\ hist' = [hist EXCEPT !.printed[w] = Append(q, e)]
  BY DEF Receive, Printed, Answers, InStep, Pending, MInv, TypeOK
<1>2. t # None
  BY <1>1, MailboxConstants
<1>3. e \in Payloads /\ r.op = "recv"
  BY <1>1, <1>2 DEF TypeOK, Requests
<1>4. q \in Seq(Payloads) /\ Len(q) \in Nat
  BY <1>1, LenProperties DEF TypeOK
<1>5. /\ hist'.sent = hist.sent /\ hist'.acked = hist.acked
      /\ hist'.giveups = hist.giveups /\ hist'.restarts = hist.restarts
      /\ \A v \in Windows : hist'.printed[v] = IF v = w THEN Append(q, e) ELSE hist.printed[v]
  BY <1>1 DEF TypeOK
<1>6. \A s \in Slots : requests'[s] = IF s = t THEN None ELSE requests[s]
  BY <1>1 DEF TypeOK
<1>7. Lies("answer", t, 0, e)
  BY <1>1, <1>3 DEF Lies
<1>8. ASSUME NEW p \in Payloads, NEW k, NEW a, NEW b, Lies(k, a, b, p)'
      PROVE  \/ k = "printed" /\ a = w /\ b = Len(q) + 1 /\ Lies("answer", t, 0, p)
             \/ Lies(k, a, b, p) /\ ~(k = "answer" /\ a = t /\ b = 0)
  <2>1. CASE k = "printed" /\ a = w
    <3>1. b \in 1 .. Len(Append(q, e)) /\ Append(q, e)[b] = p
      BY <1>5, <1>8, <2>1 DEF Lies
    <3>2. \/ b = Len(q) + 1 /\ p = e
          \/ b \in 1 .. Len(q) /\ q[b] = p
      BY <1>3, <1>4, <3>1, AppendPlaces
    <3>3. QED
      BY <1>7, <2>1, <3>2 DEF Lies
  <2>2. CASE k = "printed" /\ a # w
    BY <1>5, <1>8, <2>2 DEF Lies
  <2>3. CASE k # "printed"
    BY <1>1, <1>6, <1>8, <2>3 DEF Lies, Pending
  <2>4. QED
    BY <2>1, <2>2, <2>3
<1>9. QED
  BY <1>3, <1>5, <1>6, <1>7, <1>8

LEMMA ReceiveUInv == ASSUME MInv, UInv, NEW w \in Windows, Receive(w) PROVE UInv'
<1> DEFINE t == poll[w]
           q == hist.printed[w]
<1>1. CASE ~(requests[t].step = "200" /\ requests[t].payload # None)
  BY <1>1, NothingPrinted
<1>2. CASE requests[t].step = "200" /\ requests[t].payload # None
  <2>1. /\ \A s \in Slots : requests'[s] = IF s = t THEN None ELSE requests[s]
        /\ hist'.sent = hist.sent
    BY <1>2, ReceivePlaces
  <2>2. \A p \in Payloads : \A k, a, b : Lies(k, a, b, p)' =>
          \/ k = "printed" /\ a = w /\ b = Len(q) + 1 /\ Lies("answer", t, 0, p)
          \/ Lies(k, a, b, p) /\ ~(k = "answer" /\ a = t /\ b = 0)
    BY <1>2, ReceivePlaces
  <2>3. \A p \in Payloads : \A k, a, b, l, c, d :
          Lies(k, a, b, p) /\ Lies(l, c, d, p) => k = l /\ a = c /\ b = d
    BY DEF UInv, Unique
  <2> HIDE DEF t, q
  <2>4. Unique'
    BY <2>2, <2>3 DEF Unique
  <2>5. Known'
    BY <2>1, <2>2 DEF UInv, Known
  <2>6. Bare'
    BY <2>1 DEF UInv, Bare, Pending
  <2>7. QED
    BY <2>4, <2>5, <2>6 DEF UInv
<1>3. QED
  BY <1>1, <1>2

\* A poll enters: nothing moves.
LEMMA PollPlaces ==
    ASSUME MInv, UInv, NEW w \in Windows, Poll(w)
    PROVE  UInv' /\ Vanishing
<1> DEFINE f == FreeSlot
<1>1. TypeOK /\ New("recv", w, None) /\ QUEUES' = QUEUES /\ hist' = hist
  BY DEF Poll, MInv
<1>2. /\ f \in Slots /\ requests[f] = None
      /\ requests'[f].op = "recv" /\ requests'[f].step = "sent"
      /\ \A s \in Slots \ {f} : requests'[s] = requests[s]
  BY <1>1, NewProperties
<1>3. requests'[f].payload = None
  BY <1>1, <1>2 DEF New, TypeOK
<1> HIDE DEF f
<1>4. Vanishing
  BY <1>1, <1>2, <1>3, NoneIsNoRequest DEF Vanishing, Lies, Pending
<1>5. Bare'
  BY <1>2, <1>3 DEF UInv, Bare, Pending
<1>6. QED
  BY <1>1, <1>4, <1>5, StayPut DEF UInv

\* A payload is sent that was nowhere before.
LEMMA SendPlaces ==
    ASSUME MInv, UInv, NEW w \in Windows, send_h2_payload(w)
    PROVE  LET f == FreeSlot
               e == [id |-> hist.sent + 1, from |-> w]
           IN /\ e \in Payloads /\ e.id = hist.sent + 1 /\ hist.sent \in Nat
              /\ \A k, a, b : ~Lies(k, a, b, e)
              /\ f \in Slots /\ requests[f] = None
              /\ requests'[f] = [op |-> "send", cid |-> Id[w], step |-> "sent", payload |-> e]
              /\ \A s \in Slots \ {f} : requests'[s] = requests[s]
              /\ hist'.sent = hist.sent + 1 /\ hist'.acked = hist.acked
              /\ hist'.giveups = hist.giveups /\ hist'.restarts = hist.restarts
              /\ \A p \in Payloads : \A k, a, b : Lies(k, a, b, p)' =>
                  \/ k = "request" /\ a = f /\ b = 0 /\ p = e
                  \/ Lies(k, a, b, p)
<1> DEFINE f == FreeSlot
           e == [id |-> hist.sent + 1, from |-> w]
<1>1. TypeOK /\ hist.sent \in Nat
  BY MailboxConstants DEF MInv, TypeOK
<1>2. New("send", w, e) /\ QUEUES' = QUEUES /\ hist' = [hist EXCEPT !.sent = @ + 1]
      /\ hist.sent < MaxSends
  BY DEF send_h2_payload
<1>3. e \in Payloads /\ e.id = hist.sent + 1
  <2>1. MaxSends \in Nat
    BY MailboxConstants
  <2>2. hist.sent + 1 \in 1 .. MaxSends
    BY <1>1, <1>2, <2>1
  <2>3. QED
    BY <2>2 DEF Payloads
<1>4. /\ f \in Slots /\ requests[f] = None
      /\ \A s \in Slots \ {f} : requests'[s] = requests[s]
  BY <1>2, <1>3, NewProperties
<1>5. requests'[f] = [op |-> "send", cid |-> Id[w], step |-> "sent", payload |-> e]
  BY <1>1, <1>2, <1>4 DEF New, TypeOK
<1>6. /\ hist'.sent = hist.sent + 1 /\ hist'.printed = hist.printed /\ hist'.acked = hist.acked
      /\ hist'.giveups = hist.giveups /\ hist'.restarts = hist.restarts
  BY <1>1, <1>2 DEF TypeOK
<1> HIDE DEF f, e
<1>7. ASSUME NEW p \in Payloads, NEW k, NEW a, NEW b, Lies(k, a, b, p)'
      PROVE  \/ k = "request" /\ a = f /\ b = 0 /\ p = e
             \/ Lies(k, a, b, p)
  BY <1>2, <1>4, <1>5, <1>6, <1>7 DEF Lies, Pending
<1>8. \A k, a, b : ~Lies(k, a, b, e)
  <2>1. ~(hist.sent + 1 <= hist.sent)
    BY <1>1
  <2>2. QED
    BY <1>3, <2>1 DEF UInv, Known
<1>9. QED
  BY <1>1, <1>3, <1>4, <1>5, <1>6, <1>7, <1>8 DEF e, f

LEMMA SendUInv == ASSUME MInv, UInv, NEW w \in Windows, send_h2_payload(w) PROVE UInv'
<1> DEFINE f == FreeSlot
           e == [id |-> hist.sent + 1, from |-> w]
<1>1. /\ e \in Payloads /\ e.id = hist.sent + 1 /\ hist.sent \in Nat
      /\ \A k, a, b : ~Lies(k, a, b, e)
      /\ f \in Slots
      /\ \A s \in Slots \ {f} : requests'[s] = requests[s]
      /\ hist'.sent = hist.sent + 1
  BY SendPlaces
<1>2. \A p \in Payloads : \A k, a, b : Lies(k, a, b, p)' =>
        \/ k = "request" /\ a = f /\ b = 0 /\ p = e
        \/ Lies(k, a, b, p)
  BY SendPlaces
<1>3. requests'[f] = [op |-> "send", cid |-> Id[w], step |-> "sent", payload |-> e]
  BY SendPlaces
<1>4. requests'[f].op = "send"
  BY <1>3
<1> HIDE DEF f, e
<1>5. Unique'
  BY <1>1, <1>2 DEF UInv, Unique
<1>6. Known'
  <2>1. \A p \in Payloads : p.id \in Nat
    BY DEF Payloads
  <2>2. QED
    BY <1>1, <1>2, <2>1 DEF UInv, Known
<1>7. Bare'
  BY <1>1, <1>4 DEF UInv, Bare, Pending
<1>8. QED
  BY <1>5, <1>6, <1>7 DEF UInv

LEMMA NextUInv == MInv /\ UInv /\ [Next]_vars => UInv'
<1> SUFFICES ASSUME MInv, UInv, [Next]_vars PROVE UInv'
  OBVIOUS
<1>1. TypeOK
  BY DEF MInv
<1>2. CASE \E s \in Slots : Handle(s)
  BY <1>2, HandleUInv
<1>3. CASE Restart
  BY <1>3, RestartUInv
<1>4. ASSUME NEW w \in Windows, Poll(w) \/ send_h2_payload(w) PROVE UInv'
  BY <1>4, PollPlaces, SendUInv
<1>5. ASSUME NEW w \in Windows, Receive(w) PROVE UInv'
  BY <1>5, ReceiveUInv
<1>6. ASSUME UNCHANGED <<requests, QUEUES>>, hist'.sent = hist.sent, hist'.printed = hist.printed
      PROVE  UInv'
  BY <1>6 DEF UInv, Unique, Known, Bare, Lies, Pending
<1>7. GaveUp.sent = hist.sent /\ GaveUp.printed = hist.printed
  BY <1>1 DEF GaveUp, TypeOK
<1>8. ASSUME NEW w \in Windows, Timeout(w) \/ SendFails(w) PROVE UInv'
  BY <1>7, <1>8, LeftUInv DEF Timeout, SendFails
<1>9. ASSUME NEW w \in Windows, SendEnds(w) PROVE UInv'
  <2>1. requests' = Left(send[w]) /\ QUEUES' = QUEUES
    BY <1>9 DEF SendEnds, Left
  <2>2. hist'.sent = hist.sent /\ hist'.printed = hist.printed
    BY <1>1, <1>9 DEF SendEnds, TypeOK
  <2>3. QED
    BY <2>1, <2>2, LeftUInv
<1>10. ASSUME NEW w \in Windows, connect_transport(w) PROVE UInv'
  BY <1>6, <1>10 DEF connect_transport
<1>11. ASSUME NEW w \in Windows, disconnect_transport(w) PROVE UInv'
  <2>1. CASE poll[w] = None
    BY <1>6, <1>11, <2>1 DEF disconnect_transport
  <2>2. CASE poll[w] # None
    BY <1>7, <1>11, <2>2, LeftUInv DEF disconnect_transport
  <2>3. QED
    BY <2>1, <2>2
<1>12. CASE UNCHANGED vars
  BY <1>6, <1>12 DEF vars
<1>13. QED
  BY <1>2, <1>3, <1>4, <1>5, <1>8, <1>9, <1>10, <1>11, <1>12 DEF Next, WindowStep, PollerStep

\* A set whose elements are all equal counts for one at most.
LEMMA AtMostOneElement ==
    ASSUME NEW S, \A x, y \in S : x = y
    PROVE  \/ S = {} /\ Cardinality(S) = 0
           \/ S # {} /\ Cardinality(S) = 1
<1>1. CASE S = {}
  BY <1>1, FS_EmptySet
<1>2. CASE S # {}
  <2>1. PICK x : x \in S
    BY <1>2
  <2>2. S = {x}
    BY <2>1
  <2>3. QED
    BY <2>2, FS_Singleton
<1>3. QED
  BY <1>1, <1>2

\* The places of a payload are the elements of the sets that are counted.
LEMMA CountedPlaces ==
    ASSUME MInv, NEW p \in Payloads
    PROVE  /\ \A e \in Places(QUEUES, p) : Lies("queue", e[1], e[2], p) /\ e = <<e[1], e[2]>>
           /\ \A s \in AnswersWith(p) : Lies("answer", s, 0, p)
           /\ \A e \in Places(hist.printed, p) :
                 Lies("printed", e[1], e[2], p) /\ e = <<e[1], e[2]>>
<1>1. /\ \A i \in Ids : QUEUES[i] \in Seq(Payloads)
      /\ \A w \in Windows : hist.printed[w] \in Seq(Payloads)
      /\ DOMAIN QUEUES = Ids /\ DOMAIN hist.printed = Windows
  BY DEF MInv, TypeOK
<1>2. /\ \A i \in Ids : DOMAIN QUEUES[i] = 1 .. Len(QUEUES[i])
      /\ \A w \in Windows : DOMAIN hist.printed[w] = 1 .. Len(hist.printed[w])
  BY <1>1, LenProperties
<1>3. ASSUME NEW e \in Places(QUEUES, p) PROVE Lies("queue", e[1], e[2], p) /\ e = <<e[1], e[2]>>
  <2>1. PICK i \in Ids : e \in {i} \X DOMAIN QUEUES[i] /\ QUEUES[e[1]][e[2]] = p
    BY <1>1, <1>3 DEF Places
  <2>2. QED
    BY <1>2, <2>1 DEF Lies
<1>4. ASSUME NEW e \in Places(hist.printed, p)
      PROVE  Lies("printed", e[1], e[2], p) /\ e = <<e[1], e[2]>>
  <2>1. PICK w \in Windows :
          e \in {w} \X DOMAIN hist.printed[w] /\ hist.printed[e[1]][e[2]] = p
    BY <1>1, <1>4 DEF Places
  <2>2. QED
    BY <1>2, <2>1 DEF Lies
<1>5. \A s \in AnswersWith(p) : Lies("answer", s, 0, p)
  BY DEF AnswersWith, Lies, Answers, InStep
<1>6. QED
  BY <1>3, <1>4, <1>5

\* A payload is in one place at most from the moment it is sent: taking it out
\* of a queue, answering a poll with it and printing it each move it, and nothing
\* that is left behind, handled late or at the same time makes a second one.
THEOREM DeliveredAtMostOnce == Spec => []AtMostOnce
<1>1. MInv /\ UInv => AtMostOnce
  <2> SUFFICES ASSUME MInv, UInv, NEW p \in Payloads PROVE Copies(p) <= 1
    BY DEF AtMostOnce
  <2> DEFINE Q == Places(QUEUES, p)
             A == AnswersWith(p)
             P == Places(hist.printed, p)
  <2>1. \A k, a, b, l, c, d :
          Lies(k, a, b, p) /\ Lies(l, c, d, p) => k = l /\ a = c /\ b = d
    BY DEF UInv, Unique
  <2>2. /\ \A e \in Q : Lies("queue", e[1], e[2], p) /\ e = <<e[1], e[2]>>
        /\ \A s \in A : Lies("answer", s, 0, p)
        /\ \A e \in P : Lies("printed", e[1], e[2], p) /\ e = <<e[1], e[2]>>
    BY CountedPlaces
  <2>3. Copies(p) = Cardinality(Q) + Cardinality(A) + Cardinality(P)
    BY DEF Copies
  <2> HIDE DEF Q, A, P
  <2>4. (\A e, g \in Q : e = g) /\ (\A s, t \in A : s = t) /\ (\A e, g \in P : e = g)
    BY <2>1, <2>2
  <2>5. (Q = {} \/ A = {}) /\ (Q = {} \/ P = {}) /\ (A = {} \/ P = {})
    BY <2>1, <2>2
  <2>6. /\ (Q = {} /\ Cardinality(Q) = 0) \/ (Q # {} /\ Cardinality(Q) = 1)
        /\ (A = {} /\ Cardinality(A) = 0) \/ (A # {} /\ Cardinality(A) = 1)
        /\ (P = {} /\ Cardinality(P) = 0) \/ (P # {} /\ Cardinality(P) = 1)
    BY <2>4, AtMostOneElement
  <2>7. QED
    BY <2>3, <2>5, <2>6
<1>2. Spec => []UInv
  BY InitUInv, NextUInv, MailboxInvariance, PTL DEF Spec
<1>3. QED
  BY <1>1, <1>2, MailboxInvariance, PTL
-----------------------------------------------------------------------------
(* The order of payloads *)

\* A payload is handled, and lies, where its sender's identifier says.
Home ==
    \A p \in Payloads :
        /\ \A s \in Slots : Lies("request", s, 0, p) => requests[s].cid = Id[p.from]
        /\ \A i, b : Lies("queue", i, b, p) => i = Id[p.from]

\* Payload q is the last one sent of those of its window that lie somewhere.
Latest(q) ==
    /\ q.id <= hist.sent
    /\ \A p \in Payloads : \A k, a, b : p.from = q.from /\ Lies(k, a, b, p) => p.id <= q.id

\* No request that was not handled yet carries q.
Gone(q) == \A s \in Slots : ~Lies("request", s, 0, q)

\* A window waits for its last payload, which is in no other request.
Newest ==
    \A w \in Windows : send[w] # None =>
        /\ requests[send[w]].payload.from = w
        /\ Latest(requests[send[w]].payload)
        /\ requests[send[w]].step # "sent" => Gone(requests[send[w]].payload)

Handled == \A q \in hist.acked : q.id <= hist.sent /\ Gone(q)

\* A payload at k, a, b will be printed after one at l, c, d by some window, or was.
Behind(k, a, b, l, c, d) ==
    \/ k = "queue" /\ l \in {"answer", "printed"}
    \/ k = "queue" /\ l = "queue" /\ d <= b
    \/ k = "answer" /\ l = "printed" /\ poll[c] = a
    \/ k = "printed" /\ l = "printed" /\ c = a /\ d < b

\* What was acknowledged is nowhere behind what its window sent later.
Orderly ==
    \A q \in hist.acked, p \in Payloads : p.from = q.from /\ q.id < p.id =>
        \A k, a, b, l, c, d : Lies(k, a, b, q) /\ Lies(l, c, d, p) => ~Behind(k, a, b, l, c, d)

OInv == Home /\ Newest /\ Handled /\ Orderly

LEMMA InitOInv == Init => OInv
<1> SUFFICES ASSUME Init PROVE OInv
  OBVIOUS
<1>1. Pending = {}
  BY DEF Init, Pending
<1>2. Len(<<>>) = 0
  OBVIOUS
<1>3. \A k, a, b, p : ~Lies(k, a, b, p)
  BY <1>1, <1>2 DEF Init, Lies
<1>4. hist.acked = {} /\ \A w \in Windows : send[w] = None
  BY DEF Init
<1>5. QED
  BY <1>3, <1>4 DEF OInv, Home, Newest, Handled, Orderly

LEMMA PayloadFields ==
    ASSUME NEW p \in Payloads
    PROVE  p.id \in Nat /\ p.from \in Windows /\ p = [id |-> p.id, from |-> p.from]
BY MailboxConstants DEF Payloads

\* A step that moves no payload keeps the order, if what it has acknowledged was
\* the last payload of its window and is in no request.
LEMMA VanishingOrder ==
    ASSUME MInv, MInv', UInv, OInv, Vanishing,
           hist'.sent = hist.sent,
           \A q \in hist'.acked : q \in hist.acked \/ (Latest(q) /\ Gone(q)),
           \A s \in Pending :
              \/ requests'[s] = None
              \/ /\ requests'[s].cid = requests[s].cid /\ requests'[s].op = requests[s].op
                 /\ requests[s].op = "send" => requests'[s].payload = requests[s].payload,
           \A w \in Windows : send'[w] \in {send[w], None},
           \A w \in Windows : poll'[w] = poll[w] \/ poll'[w] \notin Pending
    PROVE  OInv'
<1>1. \A p \in Payloads : \A k, a, b : Lies(k, a, b, p)' => Lies(k, a, b, p)
  BY DEF Vanishing
<1>2. \A p \in Payloads : \A s : Lies("request", s, 0, p)' =>
        s \in Pending /\ requests'[s] # None /\ requests'[s].step = "sent"
  BY <1>1 DEF Lies, Pending
<1>3. Home'
  BY <1>1, <1>2 DEF OInv, Home
<1>4. \A q \in Payloads : (Gone(q) => Gone(q)') /\ (Latest(q) => Latest(q)')
  BY <1>1 DEF Gone, Latest
<1>5. Newest'
  <2> SUFFICES ASSUME NEW w \in Windows, send'[w] # None,
                      NEW q, q = requests'[send'[w]].payload
               PROVE  /\ q.from = w /\ Latest(q)'
                      /\ requests'[send'[w]].step # "sent" => Gone(q)'
    BY DEF Newest, Latest, Gone
  <2> DEFINE t == send[w]
  <2>1. send'[w] = t /\ t # None
    OBVIOUS
  <2>2. t \in Pending /\ t \in Slots /\ requests[t].op = "send" /\ requests'[t] # None
    BY <2>1 DEF MInv, TypeOK, Pending
  <2>3. requests[t].payload = q /\ q \in Payloads
    BY <2>1, <2>2 DEF MInv, Carries, Pending
  <2>4. q.from = w /\ Latest(q) /\ (requests[t].step # "sent" => Gone(q))
    BY <2>1, <2>3 DEF OInv, Newest
  <2>5. ASSUME requests'[t].step # "sent", requests[t].step = "sent" PROVE Gone(q)'
    <3>1. Lies("request", t, 0, q)
      BY <2>2, <2>3, <2>5 DEF Lies
    <3>2. \A s \in Slots : Lies("request", s, 0, q)' => s = t
      BY <1>1, <2>3, <3>1 DEF UInv, Unique
    <3>3. QED
      BY <1>2, <2>3, <2>5, <3>2 DEF Gone
  <2>6. QED
    BY <1>4, <2>1, <2>3, <2>4, <2>5
<1>6. hist'.acked \subseteq Payloads /\ hist.acked \subseteq Payloads
  BY DEF MInv, TypeOK
<1>7. Handled'
  BY <1>4, <1>6 DEF OInv, Handled, Latest
<1>8. Orderly'
  <2> SUFFICES ASSUME NEW q \in hist'.acked, NEW p \in Payloads, p.from = q.from, q.id < p.id,
                      NEW k, NEW a, NEW b, NEW l, NEW c, NEW d,
                      Lies(k, a, b, q)', Lies(l, c, d, p)', Behind(k, a, b, l, c, d)'
               PROVE  FALSE
    BY DEF Orderly
  <2>1. Lies(k, a, b, q) /\ Lies(l, c, d, p)
    BY <1>1, <1>6
  <2>2. q \in hist.acked
    <3>1. ~(p.id <= q.id)
      BY <1>6, PayloadFields
    <3>2. QED
      BY <2>1, <3>1 DEF Latest
  <2>3. Behind(k, a, b, l, c, d)
    <3>1. k = "answer" => a \in Pending
      BY <2>1 DEF Lies
    <3>2. l = "printed" => c \in Windows
      BY <2>1 DEF Lies
    <3>3. QED
      BY <3>1, <3>2 DEF Behind
  <2>4. QED
    BY <2>1, <2>2, <2>3 DEF OInv, Orderly
<1>9. QED
  BY <1>3, <1>5, <1>7, <1>8 DEF OInv
LEMMA AckedPayloads == ASSUME MInv PROVE hist.acked \subseteq Payloads
BY DEF MInv, TypeOK

\* The last payload of its queue is behind what its window sent earlier.
LEMMA SendDataOrder == ASSUME MInv, UInv, OInv, NEW s \in Slots, SendData(s) PROVE OInv'
<1> DEFINE cid == requests[s].cid
           n == Len(QUEUES[cid]) + 1
           e == requests[s].payload
<1>1. /\ e \in Payloads /\ Lies("request", s, 0, e) /\ hist' = hist
      /\ \/ requests'[s] = None
         \/ requests'[s] = [requests[s] EXCEPT !.step = "200", !.payload = e]
      /\ \A t \in Slots \ {s} : requests'[t] = requests[t]
  BY SendDataPlaces
<1>2. \A p \in Payloads : \A k, a, b : Lies(k, a, b, p)' =>
        \/ k = "queue" /\ a = cid /\ b = n /\ Lies("request", s, 0, p)
        \/ Lies(k, a, b, p) /\ ~(k = "request" /\ a = s /\ b = 0)
  BY SendDataPlaces
<1>3. /\ poll' = poll /\ send' = send /\ requests[s] \in Requests
      /\ Len(QUEUES[cid]) \in Nat
  <2>1. Handle(s)
    BY DEF Handle
  <2>2. requests[s] \in Requests /\ Len(QUEUES[cid]) \in Nat
    BY <2>1, HandledRequest
  <2>3. QED
    BY <2>2 DEF SendData, ServerOnly
<1>4. \A p \in Payloads : \A t \in Slots : Lies("request", t, 0, p)' => Lies("request", t, 0, p) /\ t # s
  BY <1>2
<1>5. Home'
  <2>1. ASSUME NEW p \in Payloads, NEW t \in Slots, Lies("request", t, 0, p)'
        PROVE  requests'[t].cid = Id[p.from]
    BY <1>1, <1>4, <2>1 DEF OInv, Home
  <2>2. ASSUME NEW p \in Payloads, NEW i, NEW b, Lies("queue", i, b, p)'
        PROVE  i = Id[p.from]
    BY <1>2, <2>2 DEF OInv, Home
  <2>3. QED
    BY <2>1, <2>2 DEF Home
<1>6. \A q \in Payloads : (Gone(q) => Gone(q)') /\ (Latest(q) => Latest(q)')
  BY <1>1, <1>2, <1>4 DEF Gone, Latest
<1>7. Newest'
  <2> SUFFICES ASSUME NEW w \in Windows, send'[w] # None,
                      NEW q, q = requests'[send'[w]].payload
               PROVE  /\ q.from = w /\ Latest(q)'
                      /\ requests'[send'[w]].step # "sent" => Gone(q)'
    BY DEF Newest, Latest, Gone
  <2> DEFINE t == send[w]
  <2>1. send'[w] = t /\ t # None /\ t \in Pending /\ t \in Slots /\ requests[t].op = "send"
    BY <1>3 DEF MInv, TypeOK, Pending
  <2>2. CASE t # s
    <3>1. requests'[t] = requests[t] /\ q \in Payloads
      BY <1>1, <2>1, <2>2 DEF MInv, Carries, Pending
    <3>2. QED
      BY <1>6, <2>1, <3>1 DEF OInv, Newest
  <2>3. CASE t = s
    <3>1. Wanted(s) /\ requests'[s] # None
      <4>1. Wanted(s)
        BY <2>1, <2>3 DEF Wanted
      <4>2. s \in Pending /\ requests[s].payload \in Payloads /\ requests[s].op = "send"
        BY <1>1, <2>1, <2>3
      <4>3. Answer(s, "200", e) # None
        BY <4>1, <4>2, AnswerProperties
      <4>4. requests'[s] = Answer(s, "200", e)
        BY DEF SendData, Answered, MInv, TypeOK
      <4>5. QED
        BY <4>1, <4>3, <4>4
    <3>2. requests'[s].payload = e
      BY <1>1, <1>3, <3>1 DEF Requests
    <3>3. q = e
      BY <2>1, <2>3, <3>2
    <3>4. q \in Payloads /\ q.from = w /\ Latest(q) /\ Lies("request", s, 0, q)
      BY <1>1, <2>1, <2>3, <3>3 DEF OInv, Newest
    <3>5. Gone(q)'
      <4>1. \A t1 \in Slots : Lies("request", t1, 0, q) => t1 = s
        BY <3>4 DEF UInv, Unique
      <4>2. QED
        BY <1>4, <3>4, <4>1 DEF Gone
    <3>6. QED
      BY <1>6, <3>4, <3>5
  <2>4. QED
    BY <2>2, <2>3
<1>8. Handled'
  BY <1>1, <1>6, AckedPayloads DEF OInv, Handled
<1>9. Orderly'
  <2> SUFFICES ASSUME NEW q \in hist.acked, NEW p \in Payloads, p.from = q.from, q.id < p.id,
                      NEW k, NEW a, NEW b, NEW l, NEW c, NEW d,
                      Lies(k, a, b, q)', Lies(l, c, d, p)'
               PROVE  ~Behind(k, a, b, l, c, d)'
    BY <1>1 DEF Orderly
  <2>1. Lies(k, a, b, q)
    BY <1>2, AckedPayloads DEF OInv, Handled, Gone
  <2>2. CASE Lies(l, c, d, p)
    <3>1. ~Behind(k, a, b, l, c, d)
      BY <2>1, <2>2 DEF OInv, Orderly
    <3>2. QED
      BY <1>3, <3>1 DEF Behind
  <2>3. CASE l = "queue" /\ c = cid /\ d = n /\ Lies("request", s, 0, p)
    <3>1. k = "queue" => a = cid
      <4>1. cid = Id[p.from]
        BY <2>3 DEF OInv, Home
      <4>2. k = "queue" => a = Id[q.from]
        BY <2>1, AckedPayloads DEF OInv, Home
      <4>3. QED
        BY <4>1, <4>2
    <3>2. k = "queue" => b \in 1 .. Len(QUEUES[cid])
      BY <2>1, <3>1 DEF Lies
    <3>3. k = "queue" => ~(d <= b)
      BY <1>3, <2>3, <3>2
    <3>4. QED
      BY <2>3, <3>3 DEF Behind
  <2>4. QED
    BY <1>2, <2>2, <2>3
<1>10. QED
  BY <1>5, <1>7, <1>8, <1>9 DEF OInv

\* The first payload of a queue is behind none of its window that was sent later.
LEMMA RecvPopOrder ==
    ASSUME MInv, UInv, OInv, NEW s \in Slots, RecvPop(s), QUEUES[requests[s].cid] # <<>>
    PROVE  OInv'
<1> DEFINE cid == requests[s].cid
<1>1. /\ requests[s].op = "recv" /\ hist' = hist
      /\ \A t \in Slots \ {s} : requests'[t] = requests[t]
  BY RecvPopPlaces
<1>2. \A p \in Payloads : \A k, a, b : Lies(k, a, b, p)' =>
        \/ k = "answer" /\ a = s /\ b = 0 /\ Lies("queue", cid, 1, p)
        \/ k = "queue" /\ a = cid /\ b + 1 # 1 /\ b \in Nat /\ Lies("queue", cid, b + 1, p)
        \/ Lies(k, a, b, p) /\ ~(k = "queue" /\ a = cid)
  BY RecvPopPlaces
<1>3. poll' = poll /\ send' = send
  BY DEF RecvPop, ServerOnly
<1>4. \A p \in Payloads : \A t \in Slots : Lies("request", t, 0, p)' => Lies("request", t, 0, p)
  BY <1>2
<1>5. \A p \in Payloads : \A t \in Slots : Lies("request", t, 0, p) => t # s
  BY <1>1 DEF Lies
<1>6. Home'
  <2>1. ASSUME NEW p \in Payloads, NEW t \in Slots, Lies("request", t, 0, p)'
        PROVE  requests'[t].cid = Id[p.from]
    BY <1>1, <1>4, <1>5, <2>1 DEF OInv, Home
  <2>2. ASSUME NEW p \in Payloads, NEW i, NEW b, Lies("queue", i, b, p)'
        PROVE  i = Id[p.from]
    BY <1>2, <2>2 DEF OInv, Home
  <2>3. QED
    BY <2>1, <2>2 DEF Home
<1>7. \A q \in Payloads : (Gone(q) => Gone(q)') /\ (Latest(q) => Latest(q)')
  BY <1>1, <1>2, <1>4 DEF Gone, Latest
<1>8. Newest'
  <2> SUFFICES ASSUME NEW w \in Windows, send'[w] # None,
                      NEW q, q = requests'[send'[w]].payload
               PROVE  /\ q.from = w /\ Latest(q)'
                      /\ requests'[send'[w]].step # "sent" => Gone(q)'
    BY DEF Newest, Latest, Gone
  <2>1. send'[w] = send[w] /\ send[w] \in Pending /\ send[w] \in Slots
        /\ requests[send[w]].op = "send"
    BY <1>3 DEF MInv, TypeOK, Pending
  <2>2. requests'[send[w]] = requests[send[w]]
    BY <1>1, <2>1
  <2>3. q \in Payloads
    BY <2>1, <2>2 DEF MInv, Carries, Pending
  <2>4. QED
    BY <1>7, <2>1, <2>2, <2>3 DEF OInv, Newest
<1>9. Handled'
  BY <1>1, <1>7, AckedPayloads DEF OInv, Handled
<1>10. Orderly'
  <2> SUFFICES ASSUME NEW q \in hist.acked, NEW p \in Payloads, p.from = q.from, q.id < p.id,
                      NEW k, NEW a, NEW b, NEW l, NEW c, NEW d,
                      Lies(k, a, b, q)', Lies(l, c, d, p)'
               PROVE  ~Behind(k, a, b, l, c, d)'
    BY <1>1 DEF Orderly
  <2>1. q \in Payloads
    BY AckedPayloads
  <2>2. \A k1, a1, b1, l1, c1, d1 :
          Lies(k1, a1, b1, q) /\ Lies(l1, c1, d1, p) => ~Behind(k1, a1, b1, l1, c1, d1)
    BY DEF OInv, Orderly
  <2>3. \A i, j, x, y : Lies("queue", i, x, q) /\ Lies("queue", j, y, p) => i = j
    BY <2>1 DEF OInv, Home
  \* The first place of the queue is not behind the others.
  <2>4. ASSUME Lies("queue", cid, 1, p) PROVE \A i, x : ~Lies("queue", i, x, q)
    <3> SUFFICES ASSUME NEW i, NEW x, Lies("queue", i, x, q) PROVE FALSE
      OBVIOUS
    <3>1. 1 <= x
      BY DEF Lies
    <3>2. Behind("queue", i, x, "queue", cid, 1)
      BY <3>1 DEF Behind
    <3>3. QED
      BY <2>2, <2>4, <3>2
  <2>5. CASE k = "answer" /\ a = s /\ Lies("queue", cid, 1, q)
    <3>1. ~Lies("printed", c, d, p)
      BY <2>2, <2>5 DEF Behind
    <3>2. l # "printed"
      BY <1>2, <3>1
    <3>3. QED
      BY <2>5, <3>2 DEF Behind
  <2>6. CASE k = "queue" /\ a = cid /\ b \in Nat /\ Lies("queue", cid, b + 1, q)
    <3>1. ~Lies("answer", c, d, p) /\ ~Lies("printed", c, d, p) /\ ~Lies("queue", cid, 1, p)
      BY <2>2, <2>4, <2>6 DEF Behind
    <3>2. l \notin {"answer", "printed"}
      BY <1>2, <3>1
    <3>3. CASE l = "queue"
      <4>1. d \in Nat /\ Lies("queue", cid, d + 1, p)
        BY <1>2, <2>3, <2>6, <3>3
      <4>2. ~Behind("queue", cid, b + 1, "queue", cid, d + 1)
        BY <2>2, <2>6, <4>1
      <4>3. ~(d + 1 <= b + 1)
        BY <4>2 DEF Behind
      <4>4. ~(d <= b)
        BY <2>6, <4>1, <4>3
      <4>5. QED
        BY <2>6, <3>3, <4>4 DEF Behind
    <3>4. QED
      BY <2>6, <3>2, <3>3 DEF Behind
  <2>7. CASE Lies(k, a, b, q) /\ ~(k = "queue" /\ a = cid)
    <3>1. CASE Lies(l, c, d, p)
      BY <1>3, <2>2, <2>7, <3>1 DEF Behind
    <3>2. CASE l = "answer" /\ Lies("queue", cid, 1, p)
      <4>1. k # "queue"
        BY <2>4, <2>7, <3>2
      <4>2. QED
        BY <3>2, <4>1 DEF Behind
    <3>3. CASE l = "queue" /\ Lies("queue", cid, d + 1, p)
      <4>1. k # "queue"
        BY <2>3, <2>7, <3>3
      <4>2. QED
        BY <3>3, <4>1 DEF Behind
    <3>4. QED
      BY <1>2, <3>1, <3>2, <3>3
  <2>8. QED
    BY <1>2, <2>1, <2>5, <2>6, <2>7
<1>11. QED
  BY <1>6, <1>8, <1>9, <1>10 DEF OInv

\* What a window prints is behind nothing of its window that was sent later.
LEMMA ReceiveOrder ==
    ASSUME MInv, MInv', UInv, OInv, NEW w \in Windows, Receive(w) PROVE OInv'
<1> DEFINE t == poll[w]
           n == Len(hist.printed[w]) + 1
<1>1. /\ TypeOK /\ t \in Pending /\ t \in Slots /\ t # None /\ send' = send
      /\ requests' = [requests EXCEPT ![t] = None] /\ poll' = [poll EXCEPT ![w] = None]
  BY MailboxConstants DEF Receive, Answers, InStep, Pending, MInv
<1>2. /\ \A s \in Slots : requests'[s] = IF s = t THEN None ELSE requests[s]
      /\ \A v \in Windows : poll'[v] = IF v = w THEN None ELSE poll[v]
  BY <1>1 DEF TypeOK
<1>3. None \notin Pending
  BY MailboxConstants DEF Pending
<1>4. CASE ~(requests[t].step = "200" /\ requests[t].payload # None)
  <2>1. Vanishing /\ hist' = hist
    BY <1>4, NothingPrinted
  <2>2. \A s \in Pending : requests'[s] = None \/ requests'[s] = requests[s]
    BY <1>2 DEF Pending
  <2>3. \A v \in Windows : poll'[v] = poll[v] \/ poll'[v] \notin Pending
    BY <1>2, <1>3
  <2>4. QED
    BY <1>1, <2>1, <2>2, <2>3, VanishingOrder
<1>5. CASE requests[t].step = "200" /\ requests[t].payload # None
  <2>1. /\ Lies("answer", t, 0, requests[t].payload) /\ requests[t].payload \in Payloads
        /\ hist'.sent = hist.sent /\ hist'.acked = hist.acked
    BY <1>5, ReceivePlaces
  <2>2. \A p \in Payloads : \A k, a, b : Lies(k, a, b, p)' =>
          \/ k = "printed" /\ a = w /\ b = n /\ Lies("answer", t, 0, p)
          \/ Lies(k, a, b, p) /\ ~(k = "answer" /\ a = t /\ b = 0)
    BY <1>5, ReceivePlaces
  <2>3. \A p \in Payloads : \A s \in Slots :
          Lies("request", s, 0, p)' => Lies("request", s, 0, p) /\ s # t
    <3>1. requests[t].op = "recv"
      BY <2>1 DEF Lies
    <3>2. QED
      BY <2>2, <3>1 DEF Lies
  <2>4. Home'
    <3>1. ASSUME NEW p \in Payloads, NEW s \in Slots, Lies("request", s, 0, p)'
          PROVE  requests'[s].cid = Id[p.from]
      BY <1>2, <2>3, <3>1 DEF OInv, Home
    <3>2. ASSUME NEW p \in Payloads, NEW i, NEW b, Lies("queue", i, b, p)'
          PROVE  i = Id[p.from]
      BY <2>2, <3>2 DEF OInv, Home
    <3>3. QED
      BY <3>1, <3>2 DEF Home
  <2>5. \A q \in Payloads : (Gone(q) => Gone(q)') /\ (Latest(q) => Latest(q)')
    BY <2>1, <2>2, <2>3 DEF Gone, Latest
  <2>6. Newest'
    <3> SUFFICES ASSUME NEW v \in Windows, send'[v] # None,
                        NEW q, q = requests'[send'[v]].payload
                 PROVE  /\ q.from = v /\ Latest(q)'
                        /\ requests'[send'[v]].step # "sent" => Gone(q)'
      BY DEF Newest, Latest, Gone
    <3>1. send'[v] = send[v] /\ send[v] \in Pending /\ send[v] \in Slots
          /\ requests[send[v]].op = "send"
      BY <1>1 DEF MInv, TypeOK, Pending
    <3>2. requests'[send[v]] = requests[send[v]]
      BY <1>2, <2>1, <3>1 DEF Lies
    <3>3. q \in Payloads
      BY <3>1, <3>2 DEF MInv, Carries, Pending
    <3>4. QED
      BY <2>5, <3>1, <3>2, <3>3 DEF OInv, Newest
  <2>7. Handled'
    BY <2>1, <2>5, AckedPayloads DEF OInv, Handled
  <2>8. Orderly'
    <3> SUFFICES ASSUME NEW q \in hist.acked, NEW p \in Payloads, p.from = q.from, q.id < p.id,
                        NEW k, NEW a, NEW b, NEW l, NEW c, NEW d,
                        Lies(k, a, b, q)', Lies(l, c, d, p)'
                 PROVE  ~Behind(k, a, b, l, c, d)'
      BY <2>1 DEF Orderly
    <3>1. q \in Payloads
      BY AckedPayloads
    <3>2. \A k1, a1, b1, l1, c1, d1 :
            Lies(k1, a1, b1, q) /\ Lies(l1, c1, d1, p) => ~Behind(k1, a1, b1, l1, c1, d1)
      BY DEF OInv, Orderly
    <3>3. \A v, x, y : Lies("printed", v, x, y) => v \in Windows /\ x \in 1 .. Len(hist.printed[v])
      BY DEF Lies
    <3>4. ~(Lies("answer", t, 0, p) /\ Lies("answer", t, 0, q))
      <4>1. ~(q.id < q.id)
        BY <3>1, PayloadFields
      <4>2. QED
        BY <4>1 DEF Lies
    <3>5. CASE k = "printed" /\ a = w /\ b = n /\ Lies("answer", t, 0, q)
      <4>1. \A y : ~Lies("printed", w, y, p)
        BY <3>2, <3>5 DEF Behind
      <4>2. ~(l = "printed" /\ c = w)
        BY <2>2, <3>4, <3>5, <4>1
      <4>3. QED
        BY <3>5, <4>2 DEF Behind
    <3>6. CASE Lies(k, a, b, q) /\ Lies(l, c, d, p)
      <4>1. ~Behind(k, a, b, l, c, d)
        BY <3>2, <3>6
      <4>2. k = "answer" /\ l = "printed" /\ poll'[c] = a => poll[c] = a
        <5>1. k = "answer" => a # None
          BY <1>3, <3>6 DEF Lies
        <5>2. l = "printed" => c \in Windows
          BY <3>3, <3>6
        <5>3. QED
          BY <1>2, <5>1, <5>2
      <4>3. QED
        BY <4>1, <4>2 DEF Behind
    <3>7. CASE Lies(k, a, b, q) /\ l = "printed" /\ c = w /\ d = n /\ Lies("answer", t, 0, p)
      <4>1. k # "queue"
        BY <3>2, <3>7 DEF Behind
      <4>2. ~(k = "answer" /\ poll'[w] = a)
        <5>1. k = "answer" => a # None
          BY <1>3, <3>7 DEF Lies
        <5>2. QED
          BY <1>2, <5>1
      <4>3. ~(k = "printed" /\ w = a /\ n < b)
        <5>1. Len(hist.printed[w]) \in Nat
          BY <1>1, LenProperties DEF TypeOK
        <5>2. QED
          BY <3>3, <3>7, <5>1
      <4>4. QED
        BY <3>7, <4>1, <4>2, <4>3 DEF Behind
    <3>8. QED
      BY <2>2, <3>1, <3>5, <3>6, <3>7
  <2>9. QED
    BY <2>4, <2>6, <2>7, <2>8 DEF OInv
<1>6. QED
  BY <1>4, <1>5

\* A payload is sent when its window waits for no other.
LEMMA SendOrder ==
    ASSUME MInv, UInv, OInv, NEW w \in Windows, send_h2_payload(w) PROVE OInv'
<1> DEFINE f == FreeSlot
<1>1. PICK e : e = [id |-> hist.sent + 1, from |-> w]
  OBVIOUS
<1>2. /\ e \in Payloads /\ e.id = hist.sent + 1 /\ e.from = w /\ hist.sent \in Nat
      /\ f \in Slots /\ requests[f] = None
      /\ \A s \in Slots \ {f} : requests'[s] = requests[s]
      /\ hist'.sent = hist.sent + 1 /\ hist'.acked = hist.acked
  BY <1>1, SendPlaces
<1>3. /\ requests'[f] = [op |-> "send", cid |-> Id[w], step |-> "sent", payload |-> e]
      /\ \A k, a, b : ~Lies(k, a, b, e)
  BY <1>1, SendPlaces
<1>4. \A p \in Payloads : \A k, a, b : Lies(k, a, b, p)' =>
        \/ k = "request" /\ a = f /\ b = 0 /\ p = e
        \/ Lies(k, a, b, p)
  BY <1>1, SendPlaces
<1>5. requests'[f].cid = Id[w] /\ requests'[f].step = "sent" /\ requests'[f].payload = e
  BY <1>3
<1>6. poll' = poll /\ \A v \in Windows : send'[v] = IF v = w THEN f ELSE send[v]
  BY DEF send_h2_payload, MInv, TypeOK
<1> HIDE DEF f
<1>7. \A p \in Payloads : \A s : Lies("request", s, 0, p) => s # f
  BY <1>2 DEF Lies, Pending
<1>8. Home'
  <2>1. ASSUME NEW p \in Payloads, NEW s \in Slots, Lies("request", s, 0, p)'
        PROVE  requests'[s].cid = Id[p.from]
    <3>1. CASE s = f /\ p = e
      BY <1>2, <1>5, <3>1
    <3>2. CASE Lies("request", s, 0, p)
      BY <1>2, <1>7, <3>2 DEF OInv, Home
    <3>3. QED
      BY <1>4, <2>1, <3>1, <3>2
  <2>2. ASSUME NEW p \in Payloads, NEW i, NEW b, Lies("queue", i, b, p)'
        PROVE  i = Id[p.from]
    BY <1>4, <2>2 DEF OInv, Home
  <2>3. QED
    BY <2>1, <2>2 DEF Home
<1>9. \A p \in Payloads : p.id \in Nat
  BY PayloadFields
<1>10. Newest'
  <2> SUFFICES ASSUME NEW v \in Windows, send'[v] # None,
                      NEW q, q = requests'[send'[v]].payload
               PROVE  /\ q.from = v /\ Latest(q)'
                      /\ requests'[send'[v]].step # "sent" => Gone(q)'
    BY DEF Newest, Latest, Gone
  <2>1. CASE v = w
    <3>1. q = e /\ requests'[send'[v]].step = "sent"
      BY <1>5, <1>6, <2>1
    <3>2. ASSUME NEW p \in Payloads, NEW k, NEW a, NEW b, Lies(k, a, b, p)' PROVE p.id <= q.id
      <4>1. p = e \/ p.id <= hist.sent
        BY <1>4, <3>2 DEF UInv, Known
      <4>2. QED
        BY <1>2, <1>9, <3>1, <4>1
    <3>3. Latest(q)'
      BY <1>2, <3>1, <3>2 DEF Latest
    <3>4. QED
      BY <1>2, <2>1, <3>1, <3>3
  <2>2. CASE v # w
    <3>1. send'[v] = send[v] /\ send[v] \in Pending /\ send[v] \in Slots
          /\ requests[send[v]].op = "send"
      BY <1>6, <2>2 DEF MInv, TypeOK, Pending
    <3>2. requests'[send[v]] = requests[send[v]]
      BY <1>2, <3>1 DEF Pending
    <3>3. q \in Payloads
      BY <3>1, <3>2 DEF MInv, Carries, Pending
    <3>4. q.from = v /\ Latest(q) /\ (requests[send[v]].step # "sent" => Gone(q))
      BY <3>1, <3>2 DEF OInv, Newest
    <3>5. q # e
      BY <1>2, <2>2, <3>4
    <3>6. Latest(q)'
      <4>1. q.id <= hist'.sent
        BY <1>2, <1>9, <3>3, <3>4 DEF Latest
      <4>2. ASSUME NEW p \in Payloads, NEW k, NEW a, NEW b, p.from = q.from, Lies(k, a, b, p)'
            PROVE  p.id <= q.id
        BY <1>2, <1>4, <2>2, <3>4, <4>2 DEF Latest
      <4>3. QED
        BY <4>1, <4>2 DEF Latest
    <3>7. Gone(q) => Gone(q)'
      BY <1>4, <3>3, <3>5 DEF Gone
    <3>8. QED
      BY <3>1, <3>2, <3>4, <3>6, <3>7
  <2>3. QED
    BY <2>1, <2>2
<1>11. \A q \in hist.acked : q \in Payloads /\ q.id <= hist.sent /\ Gone(q) /\ q # e
  <2>1. ~(hist.sent + 1 <= hist.sent)
    BY <1>2
  <2>2. QED
    BY <1>2, <2>1, AckedPayloads DEF OInv, Handled
<1>12. Handled'
  BY <1>2, <1>4, <1>9, <1>11 DEF Handled, Gone
<1>13. Orderly'
  <2> SUFFICES ASSUME NEW q \in hist.acked, NEW p \in Payloads, p.from = q.from, q.id < p.id,
                      NEW k, NEW a, NEW b, NEW l, NEW c, NEW d,
                      Lies(k, a, b, q)', Lies(l, c, d, p)'
               PROVE  ~Behind(k, a, b, l, c, d)'
    BY <1>2 DEF Orderly
  <2>1. Lies(k, a, b, q)
    BY <1>4, <1>11
  <2>2. CASE l = "request"
    BY <2>2 DEF Behind
  <2>3. CASE Lies(l, c, d, p)
    <3>1. ~Behind(k, a, b, l, c, d)
      BY <2>1, <2>3 DEF OInv, Orderly
    <3>2. QED
      BY <1>6, <3>1 DEF Behind
  <2>4. QED
    BY <1>4, <2>2, <2>3
<1>14. QED
  BY <1>8, <1>10, <1>12, <1>13 DEF OInv

\* A client stops waiting, and prints nothing.
LEMMA LeftOrder ==
    ASSUME MInv, MInv', UInv, OInv, NEW t, requests' = Left(t), QUEUES' = QUEUES,
           hist'.sent = hist.sent, hist'.printed = hist.printed,
           \A q \in hist'.acked : q \in hist.acked \/ (Latest(q) /\ Gone(q)),
           \A w \in Windows : send'[w] \in {send[w], None},
           \A w \in Windows : poll'[w] \in {poll[w], None}
    PROVE  OInv'
<1>1. Vanishing
  BY LeftUInv
<1>2. \A s \in Slots : requests'[s] \in {requests[s], None}
  BY DEF Left, MInv, TypeOK
<1>3. \A s \in Pending : requests'[s] = None \/ requests'[s] = requests[s]
  BY <1>2 DEF Pending
<1>4. None \notin Pending
  BY MailboxConstants DEF Pending
<1>5. \A w \in Windows : poll'[w] = poll[w] \/ poll'[w] \notin Pending
  BY <1>4
<1>6. QED
  BY <1>1, <1>3, <1>5, VanishingOrder

LEMMA HandleOrder ==
    ASSUME MInv, MInv', UInv, OInv, NEW s \in Slots, Handle(s) PROVE OInv'
<1>1. CASE SendData(s)
  BY <1>1, SendDataOrder
<1>2. CASE RecvPop(s) /\ QUEUES[requests[s].cid] # <<>>
  BY <1>2, RecvPopOrder
<1>3. CASE RecvTest(s) \/ (RecvPop(s) /\ QUEUES[requests[s].cid] = <<>>)
  <2>1. Vanishing /\ hist' = hist /\ poll' = poll /\ send' = send
    BY <1>3, RecvTestPlaces, FailedPopPlaces DEF RecvTest, RecvPop, ServerOnly
  <2>2. s \in Pending /\ requests[s] \in Requests /\ requests[s].op = "recv"
    <3>1. requests[s].op = "recv"
      BY <1>3, HandledRequest DEF RecvTest, RecvPop, InStep
    <3>2. QED
      BY <3>1, HandledRequest
  <2>3. /\ requests'[s] = None \/ (requests'[s].cid = requests[s].cid /\ requests'[s].op = "recv")
        /\ \A t \in Slots \ {s} : requests'[t] = requests[t]
    <3>1. \/ requests' = [requests EXCEPT ![s] = Answer(s, "200", None)]
          \/ requests' = [requests EXCEPT ![s] = Answer(s, "500", None)]
          \/ requests' = [requests EXCEPT ![s].step = "checked"]
      BY <1>3 DEF RecvTest, RecvPop, Answered
    <3>2. ASSUME NEW status PROVE
            \/ Answer(s, status, None) = None
            \/ /\ Answer(s, status, None).cid = requests[s].cid
               /\ Answer(s, status, None).op = "recv"
      BY <2>2 DEF Answer, Requests
    <3>3. [requests[s] EXCEPT !.step = "checked"].cid = requests[s].cid
          /\ [requests[s] EXCEPT !.step = "checked"].op = "recv"
      BY <2>2 DEF Requests
    <3>4. DOMAIN requests = Slots
      BY DEF MInv, TypeOK
    <3>5. QED
      BY <3>1, <3>2, <3>3, <3>4
  <2>4. \A t \in Pending : t \in Slots
    BY DEF Pending
  <2>5. QED
    BY <2>1, <2>2, <2>3, <2>4, VanishingOrder
<1>4. QED
  BY <1>1, <1>2, <1>3 DEF Handle

LEMMA RestartOrder == ASSUME MInv, MInv', UInv, OInv, Restart PROVE OInv'
<1>1. Vanishing /\ hist'.sent = hist.sent /\ hist'.acked = hist.acked
      /\ poll' = poll /\ send' = send
  BY RestartUInv DEF Restart, ServerOnly, MInv, TypeOK
<1>2. ASSUME NEW s \in Pending
      PROVE  \/ requests'[s] = None
             \/ /\ requests'[s].cid = requests[s].cid /\ requests'[s].op = requests[s].op
                /\ requests'[s].payload = requests[s].payload
  <2>1. requests[s] \in Requests /\ s \in Slots
    BY DEF MInv, TypeOK, Pending
  <2>2. requests'[s] \in {requests[s], Answer(s, "502", requests[s].payload)}
    <3>1. PICK kept \in SUBSET InStep({"sent"}) : requests' = [t \in Slots |-> Restarted(t, kept)]
      BY DEF Restart, Restarted
    <3>2. requests'[s] = Restarted(s, kept)
      BY <2>1, <3>1
    <3>3. QED
      BY <3>2 DEF Restarted
  <2>3. QED
    BY <2>1, <2>2 DEF Answer, Requests
<1>3. QED
  BY <1>1, <1>2, VanishingOrder

LEMMA NextOInv == MInv /\ MInv' /\ UInv /\ OInv /\ [Next]_vars => OInv'
<1> SUFFICES ASSUME MInv, MInv', UInv, OInv, [Next]_vars PROVE OInv'
  OBVIOUS
<1>1. TypeOK
  BY DEF MInv
<1>2. CASE \E s \in Slots : Handle(s)
  BY <1>2, HandleOrder
<1>3. CASE Restart
  BY <1>3, RestartOrder
<1>4. ASSUME NEW w \in Windows, send_h2_payload(w) PROVE OInv'
  BY <1>4, SendOrder
<1>5. ASSUME NEW w \in Windows, Receive(w) PROVE OInv'
  BY <1>5, ReceiveOrder
<1>6. ASSUME NEW w \in Windows, Poll(w) PROVE OInv'
  <2>1. Vanishing
    BY <1>6, PollPlaces
  <2>2. /\ New("recv", w, None) /\ hist' = hist /\ send' = send
        /\ \A v \in Windows : poll'[v] = IF v = w THEN FreeSlot ELSE poll[v]
    BY <1>1, <1>6 DEF Poll, TypeOK
  <2>3. FreeSlot \notin Pending /\ \A s \in Pending : requests'[s] = requests[s]
    BY <2>2, NewProperties DEF Pending
  <2>4. \A v \in Windows : poll'[v] = poll[v] \/ poll'[v] \notin Pending
    BY <2>2, <2>3
  <2>5. QED
    BY <2>1, <2>2, <2>3, <2>4, VanishingOrder
<1>7. GaveUp.sent = hist.sent /\ GaveUp.printed = hist.printed /\ GaveUp.acked = hist.acked
  BY <1>1 DEF GaveUp, TypeOK
<1>8. ASSUME NEW w \in Windows, Timeout(w) PROVE OInv'
  <2>1. \A v \in Windows : poll'[v] \in {poll[v], None}
    BY <1>1, <1>8 DEF Timeout, TypeOK
  <2>2. QED
    BY <1>7, <1>8, <2>1, LeftOrder DEF Timeout
<1>9. ASSUME NEW w \in Windows, SendFails(w) PROVE OInv'
  <2>1. \A v \in Windows : send'[v] \in {send[v], None}
    BY <1>1, <1>9 DEF SendFails, TypeOK
  <2>2. QED
    BY <1>7, <1>9, <2>1, LeftOrder DEF SendFails
\* A payload is acknowledged: the last one of its window.
<1>10. ASSUME NEW w \in Windows, SendEnds(w) PROVE OInv'
  <2> DEFINE t == send[w]
             q == requests[t].payload
  <2>1. /\ requests' = Left(t) /\ QUEUES' = QUEUES /\ poll' = poll
        /\ hist'.sent = hist.sent /\ hist'.printed = hist.printed
        /\ hist'.acked = IF requests[t].step = "200" THEN hist.acked \cup {q} ELSE hist.acked
        /\ \A v \in Windows : send'[v] \in {send[v], None}
    BY <1>1, <1>10 DEF SendEnds, Left, TypeOK
  <2>2. t \in Slots
    BY <1>10 DEF SendEnds, Answers, InStep, Pending
  <2>3. t # None
    BY <2>2, MailboxConstants
  <2>4. requests[t].step = "200" => Latest(q) /\ Gone(q)
    BY <2>3 DEF OInv, Newest
  <2>5. QED
    BY <2>1, <2>4, LeftOrder
<1>11. ASSUME UNCHANGED <<requests, QUEUES, send, hist>>,
              \A v \in Windows : poll'[v] \in {poll[v], None}
       PROVE  OInv'
  <2>1. Vanishing
    BY <1>11 DEF Vanishing, Lies, Pending
  <2>2. None \notin Pending
    BY MailboxConstants DEF Pending
  <2>3. \A v \in Windows : poll'[v] = poll[v] \/ poll'[v] \notin Pending
    BY <1>11, <2>2
  <2>4. QED
    BY <1>11, <2>1, <2>3, VanishingOrder
<1>12. ASSUME NEW w \in Windows, connect_transport(w) PROVE OInv'
  BY <1>11, <1>12 DEF connect_transport
<1>13. ASSUME NEW w \in Windows, disconnect_transport(w) PROVE OInv'
  <2>1. send' = send /\ QUEUES' = QUEUES /\ \A v \in Windows : poll'[v] \in {poll[v], None}
    BY <1>1, <1>13 DEF disconnect_transport, Killed, TypeOK
  <2>2. CASE poll[w] = None
    BY <1>11, <1>13, <2>1, <2>2 DEF disconnect_transport
  <2>3. CASE poll[w] # None
    BY <1>7, <1>13, <2>1, <2>3, LeftOrder DEF disconnect_transport
  <2>4. QED
    BY <2>2, <2>3
<1>14. CASE UNCHANGED vars
  BY <1>11, <1>14 DEF vars
<1>15. QED
  BY <1>2, <1>3, <1>4, <1>5, <1>6, <1>8, <1>9, <1>10, <1>12, <1>13, <1>14
     DEF Next, WindowStep, PollerStep

\* A window prints what another one sent in the order it was sent, whoever polls
\* for the same identifier and whatever was left or handled late, but for a payload
\* that was not acknowledged, whose request may be handled after later ones.
THEOREM PrintedInOrder == Spec => []InOrder
<1>1. MInv /\ UInv /\ OInv => InOrder
  <2> SUFFICES ASSUME MInv, UInv, OInv, NEW w \in Windows,
                      NEW i \in DOMAIN hist.printed[w], NEW j \in DOMAIN hist.printed[w],
                      i < j, hist.printed[w][i].from = hist.printed[w][j].from,
                      hist.printed[w][j] \in hist.acked
               PROVE  hist.printed[w][i].id < hist.printed[w][j].id
    BY DEF InOrder
  <2> DEFINE p == hist.printed[w][i]
             q == hist.printed[w][j]
  <2>1. /\ i \in 1 .. Len(hist.printed[w]) /\ j \in 1 .. Len(hist.printed[w])
        /\ p \in Payloads /\ q \in Payloads
    BY LenProperties, ElementOfSeq DEF MInv, TypeOK
  <2>2. Lies("printed", w, i, p) /\ Lies("printed", w, j, q)
    BY <2>1 DEF Lies
  <2>3. p # q
    BY <2>1, <2>2 DEF UInv, Unique
  <2>4. p.id # q.id /\ p.id \in Nat /\ q.id \in Nat
    BY <2>1, <2>3, PayloadFields
  <2>5. Behind("printed", w, j, "printed", w, i)
    BY DEF Behind
  <2>6. ~(q.id < p.id)
    BY <2>1, <2>2, <2>5 DEF OInv, Orderly
  <2>7. QED
    BY <2>4, <2>6
<1>2. Spec => []UInv
  BY InitUInv, NextUInv, MailboxInvariance, PTL DEF Spec
<1>3. Spec => []OInv
  BY InitOInv, NextOInv, MailboxInvariance, <1>2, PTL DEF Spec
<1>4. QED
  BY <1>1, <1>2, <1>3, MailboxInvariance, PTL
-----------------------------------------------------------------------------
(* What was acknowledged and lost *)

\* Payload p is nowhere.
Vanished(p) == \A k, a, b : ~Lies(k, a, b, p)

\* The server has acknowledged p, or its window knows that it has.
Acknowledged(p) ==
    \/ p \in hist.acked
    \/ \E s \in Pending :
          requests[s].op = "send" /\ requests[s].step = "200" /\ requests[s].payload = p

Lost == {p \in Payloads : Acknowledged(p) /\ Vanished(p)}

\* The polls that will be answered with nobody there to read it.
Orphans == {s \in Pending : s \notin Answers /\ requests[s].op = "recv" /\ ~Wanted(s)}

\* A payload is only in a good answer.
Good == \A s \in Pending :
    requests[s].op = "recv" /\ requests[s].payload # None => requests[s].step = "200"

Budget(L, O, n) == IsFiniteSet(L) /\ Cardinality(L) + Cardinality(O) <= n

\* Each request that was left has lost a payload, or may lose one yet.
AInv == Good /\ (hist.restarts = 0 => Budget(Lost, Orphans, hist.giveups))

\* Less is lost, or one more with a request that was left or with an orphan that is
\* no more.
LEMMA BudgetKept ==
    ASSUME NEW L, NEW M, NEW O, NEW P, IsFiniteSet(O), NEW n \in Nat, NEW m \in Nat, NEW x,
           Budget(L, O, n),
           \/ M \subseteq L /\ P \subseteq O /\ n <= m
           \/ M \subseteq L \cup {x} /\ P \subseteq O /\ m = n + 1
           \/ M \subseteq L /\ P \subseteq O \cup {x} /\ m = n + 1
           \/ M \subseteq L \cup {x} /\ m = n /\ \E s \in O : P \subseteq O \ {s}
    PROVE  Budget(M, P, m)
<1>1. IsFiniteSet(L) /\ Cardinality(L) \in Nat /\ Cardinality(O) \in Nat
      /\ Cardinality(L) + Cardinality(O) <= n
  BY FS_CardinalityType DEF Budget
<1>2. ASSUME NEW S, IsFiniteSet(S), NEW T, T \subseteq S
      PROVE  IsFiniteSet(T) /\ Cardinality(T) \in Nat /\ Cardinality(T) <= Cardinality(S)
  BY <1>2, FS_Subset, FS_CardinalityType
<1>3. ASSUME NEW S, IsFiniteSet(S), NEW T, T \subseteq S \cup {x}
      PROVE  /\ IsFiniteSet(T) /\ Cardinality(T) \in Nat /\ Cardinality(S) \in Nat
             /\ Cardinality(T) <= Cardinality(S) + 1
  <2>1. IsFiniteSet(S \cup {x}) /\ Cardinality(S) \in Nat
        /\ (Cardinality(S \cup {x}) = Cardinality(S) \/ Cardinality(S \cup {x}) = Cardinality(S) + 1)
    BY <1>3, FS_AddElement, FS_CardinalityType
  <2>2. IsFiniteSet(T) /\ Cardinality(T) \in Nat /\ Cardinality(T) <= Cardinality(S \cup {x})
    BY <1>2, <1>3, <2>1
  <2>3. QED
    BY <2>1, <2>2
<1>4. CASE M \subseteq L /\ P \subseteq O /\ n <= m
  <2>1. IsFiniteSet(M) /\ Cardinality(M) \in Nat /\ Cardinality(M) <= Cardinality(L)
    BY <1>1, <1>2, <1>4
  <2>2. Cardinality(P) \in Nat /\ Cardinality(P) <= Cardinality(O)
    BY <1>2, <1>4
  <2>3. QED
    BY <1>1, <1>4, <2>1, <2>2 DEF Budget
<1>5. CASE M \subseteq L \cup {x} /\ P \subseteq O /\ m = n + 1
  <2>1. IsFiniteSet(M) /\ Cardinality(M) \in Nat /\ Cardinality(M) <= Cardinality(L) + 1
    BY <1>1, <1>3, <1>5
  <2>2. Cardinality(P) \in Nat /\ Cardinality(P) <= Cardinality(O)
    BY <1>2, <1>5
  <2>3. QED
    BY <1>1, <1>5, <2>1, <2>2 DEF Budget
<1>6. CASE M \subseteq L /\ P \subseteq O \cup {x} /\ m = n + 1
  <2>1. IsFiniteSet(M) /\ Cardinality(M) \in Nat /\ Cardinality(M) <= Cardinality(L)
    BY <1>1, <1>2, <1>6
  <2>2. Cardinality(P) \in Nat /\ Cardinality(P) <= Cardinality(O) + 1
    BY <1>3, <1>6
  <2>3. QED
    BY <1>1, <1>6, <2>1, <2>2 DEF Budget
<1>7. CASE M \subseteq L \cup {x} /\ m = n /\ \E s \in O : P \subseteq O \ {s}
  <2>1. PICK s \in O : P \subseteq O \ {s}
    BY <1>7
  <2>2. IsFiniteSet(O \ {s}) /\ Cardinality(O \ {s}) = Cardinality(O) - 1
    BY <2>1, FS_RemoveElement
  <2>3. IsFiniteSet(M) /\ Cardinality(M) \in Nat /\ Cardinality(M) <= Cardinality(L) + 1
    BY <1>1, <1>3, <1>7
  <2>4. Cardinality(P) \in Nat /\ Cardinality(P) <= Cardinality(O \ {s})
    BY <1>2, <2>1, <2>2
  <2>5. QED
    BY <1>1, <1>7, <2>2, <2>3, <2>4 DEF Budget
<1>8. QED
  BY <1>4, <1>5, <1>6, <1>7

LEMMA InitAInv == Init => AInv
<1> SUFFICES ASSUME Init PROVE AInv
  OBVIOUS
<1>1. Pending = {} /\ hist.acked = {} /\ hist.giveups = 0
  BY DEF Init, Pending
<1>2. Lost = {} /\ Orphans = {}
  BY <1>1 DEF Lost, Orphans, Acknowledged
<1>3. Budget({}, {}, 0)
  BY FS_EmptySet DEF Budget
<1>4. QED
  BY <1>1, <1>2, <1>3 DEF AInv, Good

\* A step that moves no payload loses at most the payload x of a request.
LEMMA SlotLost ==
    ASSUME MInv, NEW x, QUEUES' = QUEUES, hist'.printed = hist.printed,
           \A s \in Pending :
              \/ requests'[s] = requests[s]
              \/ requests[s].op = "send" /\ requests[s].step # "sent"
              \/ requests[s].payload = x,
           \A p \in Payloads : Acknowledged(p)' => Acknowledged(p)
    PROVE  Lost' \subseteq Lost \cup ({x} \cap Payloads)
<1>1. ASSUME NEW p \in Payloads, p # x, NEW k, NEW a, NEW b, Lies(k, a, b, p)
      PROVE  Lies(k, a, b, p)'
  <2>1. a \in Pending => requests[a] \in Requests
    BY DEF MInv, TypeOK, Pending
  <2>2. QED
    BY <1>1, <2>1 DEF Lies, Pending, Requests
<1>2. \A p \in Payloads : p # x /\ Vanished(p)' => Vanished(p)
  BY <1>1 DEF Vanished
<1>3. QED
  BY <1>2 DEF Lost
\* What is queued may not be lost.
LEMMA SendDataLost ==
    ASSUME MInv, UInv, NEW s \in Slots, SendData(s)
    PROVE  Lost' \subseteq Lost /\ Orphans' \subseteq Orphans
<1> DEFINE cid == requests[s].cid
           q == QUEUES[cid]
<1>1. PICK e : e = requests[s].payload
  OBVIOUS
<1>2. /\ e \in Payloads /\ Lies("request", s, 0, e) /\ hist' = hist
      /\ requests'[s] # None => requests'[s].op = "send" /\ requests'[s].step = "200"
      /\ \A t \in Slots \ {s} : requests'[t] = requests[t]
  BY <1>1, SendDataPlaces
<1>3. cid \in Ids /\ q \in Seq(Payloads) /\ Len(q) \in Nat /\ requests[s] \in Requests
  BY HandledRequest DEF Handle
<1>4. /\ QUEUES' = [QUEUES EXCEPT ![cid] = Append(q, e)]
      /\ requests'[s] \in {None, [requests[s] EXCEPT !.step = "200", !.payload = e]}
      /\ poll' = poll /\ send' = send
  BY <1>1 DEF SendData, Answered, Answer, ServerOnly, Queued, MInv, TypeOK
<1>5. requests'[s] # None => requests'[s].payload = e
  BY <1>3, <1>4 DEF Requests
<1>6. \A i \in Ids : QUEUES'[i] = IF i = cid THEN Append(q, e) ELSE QUEUES[i]
  BY <1>3, <1>4 DEF MInv, TypeOK
<1>7. /\ Len(q) + 1 \in 1 .. Len(Append(q, e)) /\ Append(q, e)[Len(q) + 1] = e
      /\ \A b \in 1 .. Len(q) : b \in 1 .. Len(Append(q, e)) /\ Append(q, e)[b] = q[b]
  BY <1>2, <1>3, AppendProperties
<1>8. ~Vanished(e)'
  <2>1. PICK i, b : i = cid /\ b = Len(q) + 1
    OBVIOUS
  <2>2. QUEUES'[i] = Append(q, e) /\ i \in Ids
    BY <1>3, <1>6, <2>1
  <2>3. Lies("queue", i, b, e)'
    BY <1>7, <2>1, <2>2 DEF Lies
  <2>4. QED
    BY <2>3 DEF Vanished
<1>9. ASSUME NEW p \in Payloads, NEW k, NEW a, NEW b, Lies(k, a, b, p), p # e
      PROVE  Lies(k, a, b, p)'
  <2>1. CASE k = "queue"
    BY <1>6, <1>7, <1>9, <2>1 DEF Lies
  <2>2. CASE k # "queue"
    <3>1. ~(k \in {"request", "answer"} /\ a = s)
      BY <1>2, <1>9, <2>2 DEF Lies
    <3>2. QED
      BY <1>2, <1>9, <2>2, <3>1 DEF Lies, Pending
  <2>3. QED
    BY <2>1, <2>2
<1>10. \A p \in Payloads : Acknowledged(p)' => Acknowledged(p) \/ p = e
  BY <1>2, <1>5 DEF Acknowledged, Pending
<1>11. Lost' \subseteq Lost
  BY <1>8, <1>9, <1>10 DEF Lost, Vanished
<1>12. Orphans' \subseteq Orphans
  BY <1>2, <1>4 DEF Orphans, Pending, Wanted, Answers, InStep
<1>13. QED
  BY <1>11, <1>12

\* popleft() loses the payload if nobody waits for the answer.
LEMMA RecvPopLost ==
    ASSUME MInv, UInv, NEW s \in Slots, RecvPop(s), QUEUES[requests[s].cid] # <<>>
    PROVE  /\ Orphans' \subseteq Orphans
           /\ \/ Lost' \subseteq Lost
              \/ /\ Lost' \subseteq Lost \cup {Head(QUEUES[requests[s].cid])}
                 /\ s \in Orphans /\ s \notin Orphans'
<1> DEFINE cid == requests[s].cid
           q == QUEUES[cid]
<1>1. PICK e : e = Head(q)
  OBVIOUS
<1>2. /\ requests[s].op = "recv" /\ hist' = hist /\ e \in Payloads
      /\ \/ requests'[s] = None /\ ~Wanted(s)
         \/ /\ requests'[s] # None /\ requests'[s].op = "recv" /\ Wanted(s)
            /\ requests'[s].step = "200" /\ requests'[s].payload = e
      /\ \A t \in Slots \ {s} : requests'[t] = requests[t]
      /\ \A i \in Ids : QUEUES'[i] = IF i = cid THEN Tail(q) ELSE QUEUES[i]
  BY <1>1, RecvPopPlaces
<1>3. /\ cid \in Ids /\ q \in Seq(Payloads) /\ Len(q) \in Nat /\ s \in Pending
      /\ requests[s].payload = None /\ requests[s].step = "checked"
  BY HandledRequest, <1>2 DEF Handle, RecvPop, InStep
<1>4. poll' = poll /\ send' = send
  BY DEF RecvPop, ServerOnly
<1>5. e = q[1] /\ \A b \in 1 .. Len(q) : b # 1 => b - 1 \in 1 .. Len(Tail(q)) /\ Tail(q)[b - 1] = q[b]
  <2>1. Len(Tail(q)) = Len(q) - 1 /\ \A i \in 1 .. Len(Tail(q)) : Tail(q)[i] = q[i + 1]
    BY <1>3, HeadTailProperties
  <2>2. QED
    BY <1>1, <1>3, <2>1
<1>6. ASSUME NEW p \in Payloads, NEW k, NEW a, NEW b, Lies(k, a, b, p), p # e
      PROVE  ~Vanished(p)'
  <2>1. CASE k = "queue" /\ a = cid
    <3>1. b - 1 \in 1 .. Len(Tail(q)) /\ Tail(q)[b - 1] = p
      BY <1>5, <1>6, <2>1 DEF Lies
    <3>2. PICK d : d = b - 1
      OBVIOUS
    <3>3. Lies("queue", a, d, p)'
      BY <1>2, <1>3, <2>1, <3>1, <3>2 DEF Lies
    <3>4. QED
      BY <3>3 DEF Vanished
  <2>2. CASE ~(k = "queue" /\ a = cid)
    <3>1. ~(k \in {"request", "answer"} /\ a = s)
      BY <1>2, <1>3, <1>6, NoneIsNoRequest DEF Lies
    <3>2. Lies(k, a, b, p)'
      BY <1>2, <1>6, <2>2, <3>1 DEF Lies, Pending
    <3>3. QED
      BY <3>2 DEF Vanished
  <2>3. QED
    BY <2>1, <2>2
<1>7. \A p \in Payloads : Acknowledged(p)' => Acknowledged(p)
  BY <1>2 DEF Acknowledged, Pending
<1>8. Lost' \subseteq Lost \cup {e}
  BY <1>6, <1>7 DEF Lost, Vanished
<1>9. Orphans' \subseteq Orphans
  BY <1>2, <1>3, <1>4 DEF Orphans, Pending, Wanted, Answers, InStep
<1>10. CASE Wanted(s)
  <2>1. Lies("answer", s, 0, e)'
    BY <1>2, <1>10 DEF Lies, Pending
  <2>2. ~Vanished(e)'
    BY <2>1 DEF Vanished
  <2>3. QED
    BY <1>8, <1>9, <2>2 DEF Lost
<1>11. CASE ~Wanted(s)
  <2>1. s \in Orphans
    BY <1>2, <1>3, <1>11 DEF Orphans, Answers, InStep
  <2>2. s \notin Orphans'
    BY <1>2, <1>11 DEF Orphans, Pending
  <2>3. QED
    BY <1>1, <1>8, <1>9, <2>1, <2>2
<1>12. QED
  BY <1>10, <1>11

LEMMA OrphansFinite == ASSUME MInv PROVE IsFiniteSet(Orphans)
<1>1. Orphans \subseteq Slots
  BY DEF Orphans, Pending
<1>2. QED
  BY <1>1, FS_Subset, MailboxConstants

\* The ways to keep within the budget.
LEMMA WithinBudget ==
    ASSUME MInv, MInv', AInv, Good', NEW x,
           hist'.restarts = 0 => hist.restarts = 0,
           \/ Lost' \subseteq Lost /\ Orphans' \subseteq Orphans /\ hist.giveups <= hist'.giveups
           \/ /\ Lost' \subseteq Lost \cup {x} /\ Orphans' \subseteq Orphans
              /\ hist'.giveups = hist.giveups + 1
           \/ /\ Lost' \subseteq Lost /\ Orphans' \subseteq Orphans \cup {x}
              /\ hist'.giveups = hist.giveups + 1
           \/ /\ Lost' \subseteq Lost \cup {x} /\ hist'.giveups = hist.giveups
              /\ \E s \in Orphans : Orphans' \subseteq Orphans \ {s}
    PROVE  AInv'
<1>1. hist.giveups \in Nat /\ hist'.giveups \in Nat
  BY MailboxConstants DEF MInv, TypeOK
<1>2. ASSUME hist.restarts = 0 PROVE Budget(Lost', Orphans', hist'.giveups)
  <2>1. Budget(Lost, Orphans, hist.giveups)
    BY <1>2 DEF AInv
  <2>2. IsFiniteSet(Orphans)
    BY OrphansFinite
  <2> DEFINE L == Lost
             M == Lost'
             O == Orphans
             P == Orphans'
  <2> HIDE DEF L, M, O, P
  <2>3. Budget(M, P, hist'.giveups)
    <3>1. Budget(L, O, hist.giveups) /\ IsFiniteSet(O)
      BY <2>1, <2>2 DEF L, O
    <3>2. \/ M \subseteq L /\ P \subseteq O /\ hist.giveups <= hist'.giveups
          \/ M \subseteq L \cup {x} /\ P \subseteq O /\ hist'.giveups = hist.giveups + 1
          \/ M \subseteq L /\ P \subseteq O \cup {x} /\ hist'.giveups = hist.giveups + 1
          \/ /\ M \subseteq L \cup {x} /\ hist'.giveups = hist.giveups
             /\ \E s \in O : P \subseteq O \ {s}
      BY DEF L, M, O, P
    <3>3. QED
      BY <1>1, <3>1, <3>2, BudgetKept
  <2>4. QED
    BY <2>3 DEF M, P
<1>3. QED
  BY <1>2 DEF AInv, Budget
LEMMA HandleAInv ==
    ASSUME MInv, MInv', UInv, AInv, NEW s \in Slots, Handle(s) PROVE AInv'
<1>1. CASE SendData(s)
  <2>1. /\ hist' = hist
        /\ requests'[s] # None => requests'[s].op = "send"
        /\ \A t \in Slots \ {s} : requests'[t] = requests[t]
    BY <1>1, SendDataPlaces
  <2>2. Good'
    BY <2>1 DEF AInv, Good, Pending
  <2>3. hist.giveups <= hist'.giveups
    BY <2>1, MailboxConstants DEF MInv, TypeOK
  <2>4. QED
    BY <1>1, <2>1, <2>2, <2>3, SendDataLost, WithinBudget
<1>2. CASE RecvPop(s) /\ QUEUES[requests[s].cid] # <<>>
  <2>1. /\ hist' = hist
        /\ requests'[s] # None => requests'[s].step = "200"
        /\ \A t \in Slots \ {s} : requests'[t] = requests[t]
    BY <1>2, RecvPopPlaces
  <2>2. Good'
    BY <2>1 DEF AInv, Good, Pending
  <2>3. hist.giveups <= hist'.giveups
    BY <2>1, MailboxConstants DEF MInv, TypeOK
  <2>4. /\ Orphans' \subseteq Orphans
        /\ \/ Lost' \subseteq Lost
           \/ /\ Lost' \subseteq Lost \cup {Head(QUEUES[requests[s].cid])}
              /\ s \in Orphans /\ s \notin Orphans'
    BY <1>2, RecvPopLost
  <2>5. s \notin Orphans' => Orphans' \subseteq Orphans \ {s}
    BY <2>4
  <2>6. QED
    BY <2>1, <2>2, <2>3, <2>4, <2>5, WithinBudget
<1>3. CASE RecvTest(s) \/ (RecvPop(s) /\ QUEUES[requests[s].cid] = <<>>)
  <2>1. hist' = hist /\ QUEUES' = QUEUES /\ poll' = poll /\ send' = send
    BY <1>3 DEF RecvTest, RecvPop, ServerOnly
  <2>2. /\ s \in Pending /\ requests[s] \in Requests /\ requests[s].op = "recv"
        /\ requests[s].payload = None /\ s \notin Answers
    <3>1. requests[s].op = "recv" /\ requests[s].step \in {"sent", "checked"}
      BY <1>3, HandledRequest DEF RecvTest, RecvPop, InStep
    <3>2. QED
      BY <3>1, HandledRequest DEF Answers, InStep
  <2>3. /\ \/ requests'[s] = None
           \/ requests'[s].op = "recv" /\ requests'[s].payload = None
        /\ \A t \in Slots \ {s} : requests'[t] = requests[t]
    <3>1. \/ requests' = [requests EXCEPT ![s] = Answer(s, "200", None)]
          \/ requests' = [requests EXCEPT ![s] = Answer(s, "500", None)]
          \/ requests' = [requests EXCEPT ![s].step = "checked"]
      BY <1>3 DEF RecvTest, RecvPop, Answered
    <3>2. ASSUME NEW status PROVE
            \/ Answer(s, status, None) = None
            \/ Answer(s, status, None).op = "recv" /\ Answer(s, status, None).payload = None
      BY <2>2 DEF Answer, Requests
    <3>3. [requests[s] EXCEPT !.step = "checked"].op = "recv"
          /\ [requests[s] EXCEPT !.step = "checked"].payload = None
      BY <2>2 DEF Requests
    <3>4. DOMAIN requests = Slots
      BY DEF MInv, TypeOK
    <3>5. QED
      BY <3>1, <3>2, <3>3, <3>4
  <2>4. Good'
    BY <2>3 DEF AInv, Good, Pending
  <2>5. \A t \in Pending : requests'[t] = requests[t] \/ requests[t].payload = None
    BY <2>2, <2>3 DEF Pending
  <2>6. \A p \in Payloads : Acknowledged(p)' => Acknowledged(p)
    BY <2>1, <2>3 DEF Acknowledged, Pending
  <2>7. Lost' \subseteq Lost
    <3>1. Lost' \subseteq Lost \cup ({None} \cap Payloads)
      BY <2>1, <2>5, <2>6, SlotLost
    <3>2. QED
      BY <3>1, NoneIsNoRequest
  <2>8. Orphans' \subseteq Orphans
    BY <2>1, <2>2, <2>3 DEF Orphans, Pending, Wanted, Answers, InStep
  <2>9. hist.giveups <= hist'.giveups
    BY <2>1, MailboxConstants DEF MInv, TypeOK
  <2>10. QED
    BY <2>1, <2>4, <2>7, <2>8, <2>9, WithinBudget
<1>4. QED
  BY <1>1, <1>2, <1>3 DEF Handle

LEMMA RestartAInv == ASSUME MInv, MInv', UInv, AInv, Restart PROVE AInv'
<1>0. PICK kept \in SUBSET InStep({"sent"}) : requests' = [s \in Slots |-> Restarted(s, kept)]
  BY DEF Restart, Restarted
<1>1. hist'.restarts = hist.restarts + 1 /\ hist.restarts \in Nat
  BY MailboxConstants DEF Restart, MInv, TypeOK
<1>2. ~(hist'.restarts = 0)
  BY <1>1
<1>3. ASSUME NEW s \in Slots, requests'[s] # None, requests'[s].op = "recv",
             requests'[s].payload # None
      PROVE  requests'[s].step = "200"
  <2>1. CASE s \notin Pending \/ s \in Answers \cup kept
    <3>1. requests'[s] = requests[s]
      BY <1>0, <2>1 DEF Restarted
    <3>2. QED
      BY <1>3, <3>1 DEF AInv, Good, Pending
  <2>2. CASE s \in Pending /\ s \notin Answers \cup kept
    <3>1. requests'[s] = Answer(s, "502", requests[s].payload)
      BY <1>0, <2>2 DEF Restarted
    <3>2. requests[s] \in Requests
      BY <2>2 DEF MInv, TypeOK, Pending
    <3>3. requests[s].op = "recv" /\ requests[s].payload # None
      BY <1>3, <3>1, <3>2 DEF Answer, Requests
    <3>4. requests[s].step = "200"
      BY <2>2, <3>3 DEF AInv, Good
    <3>5. QED
      BY <2>2, <3>4 DEF Answers, InStep
  <2>3. QED
    BY <2>1, <2>2
<1>4. Good'
  BY <1>3 DEF Good, Pending
<1>5. QED
  BY <1>2, <1>4 DEF AInv

\* What is printed is not lost, and what is not printed was no payload.
LEMMA ReceiveAInv ==
    ASSUME MInv, MInv', UInv, AInv, NEW w \in Windows, Receive(w) PROVE AInv'
<1> DEFINE t == poll[w]
<1>1. /\ TypeOK /\ t \in Pending /\ t \in Slots /\ t # None /\ t \in Answers
      /\ requests[t] \in Requests /\ requests[t].op = "recv"
      /\ requests' = [requests EXCEPT ![t] = None] /\ poll' = [poll EXCEPT ![w] = None]
      /\ QUEUES' = QUEUES /\ send' = send
  BY MailboxConstants DEF Receive, Answers, InStep, Pending, MInv, TypeOK
<1>2. /\ \A s \in Slots : requests'[s] = IF s = t THEN None ELSE requests[s]
      /\ \A v \in Windows : poll'[v] = IF v = w THEN None ELSE poll[v]
  BY <1>1 DEF TypeOK
<1>3. Good'
  BY <1>2 DEF AInv, Good, Pending
<1>4. Orphans' \subseteq Orphans
  <2>1. ASSUME NEW s \in Orphans' PROVE s \in Orphans
    <3>1. s \in Slots /\ s # t /\ requests'[s] = requests[s] /\ s \in Pending
      BY <1>2 DEF Orphans, Pending
    <3>2. s \notin Answers /\ requests[s].op = "recv"
      BY <3>1 DEF Orphans, Answers, InStep, Pending
    <3>3. ~Wanted(s)
      BY <1>1, <1>2, <3>1 DEF Orphans, Wanted
    <3>4. QED
      BY <3>1, <3>2, <3>3 DEF Orphans
  <2>2. QED
    BY <2>1
<1>5. /\ hist'.acked = hist.acked /\ hist'.giveups = hist.giveups
      /\ hist'.restarts = hist.restarts /\ hist.giveups \in Nat
  BY <1>1, MailboxConstants DEF Receive, Printed, TypeOK
<1>6. \A p \in Payloads : Acknowledged(p)' => Acknowledged(p)
  BY <1>2, <1>5 DEF Acknowledged, Pending
<1>7. Lost' \subseteq Lost
  <2>1. CASE ~(requests[t].step = "200" /\ requests[t].payload # None)
    <3>1. requests[t].payload = None
      BY <1>1, <2>1 DEF AInv, Good
    <3>2. hist' = hist
      BY <2>1, NothingPrinted
    <3>3. \A s \in Pending : requests'[s] = requests[s] \/ requests[s].payload = None
      BY <1>2, <3>1 DEF Pending
    <3>4. Lost' \subseteq Lost \cup ({None} \cap Payloads)
      BY <1>1, <1>6, <3>2, <3>3, SlotLost
    <3>5. QED
      BY <3>4, NoneIsNoRequest
  <2>2. CASE requests[t].step = "200" /\ requests[t].payload # None
    <3>1. PICK e : e = requests[t].payload
      OBVIOUS
    <3>2. PICK n : n = Len(hist.printed[w]) + 1
      OBVIOUS
    <3>3. e \in Payloads /\ hist.printed[w] \in Seq(Payloads) /\ Len(hist.printed[w]) \in Nat
      BY <1>1, <2>2, <3>1, LenProperties DEF TypeOK, Requests
    <3>4. \A v \in Windows :
            hist'.printed[v] = IF v = w THEN Append(hist.printed[w], e) ELSE hist.printed[v]
      BY <1>1, <2>2, <3>1 DEF Receive, Printed, TypeOK
    <3>5. /\ n \in 1 .. Len(Append(hist.printed[w], e)) /\ Append(hist.printed[w], e)[n] = e
          /\ \A b \in 1 .. Len(hist.printed[w]) :
                /\ b \in 1 .. Len(Append(hist.printed[w], e))
                /\ Append(hist.printed[w], e)[b] = hist.printed[w][b]
      BY <3>2, <3>3, AppendProperties
    <3>6. Lies("printed", w, n, e)'
      BY <3>4, <3>5 DEF Lies
    <3>7. ASSUME NEW p \in Payloads, p # e, NEW k, NEW a, NEW b, Lies(k, a, b, p)
          PROVE  Lies(k, a, b, p)'
      <4>1. CASE k = "printed"
        BY <3>4, <3>5, <3>7, <4>1 DEF Lies
      <4>2. CASE k # "printed"
        BY <1>1, <1>2, <3>1, <3>7, <4>2 DEF Lies, Pending
      <4>3. QED
        BY <4>1, <4>2
    <3>8. QED
      BY <1>6, <3>6, <3>7 DEF Lost, Vanished
  <2>3. QED
    BY <2>1, <2>2
<1>8. hist.giveups <= hist'.giveups
  BY <1>5
<1>9. QED
  BY <1>3, <1>4, <1>5, <1>7, <1>8, WithinBudget
\* A request enters: nothing is lost.
LEMMA NewAInv ==
    ASSUME MInv, MInv', UInv, AInv, NEW w \in Windows, Poll(w) \/ send_h2_payload(w) PROVE AInv'
<1>1. PICK f : f = FreeSlot
  OBVIOUS
<1>2. /\ f \in Slots /\ requests[f] = None /\ QUEUES' = QUEUES /\ hist'.printed = hist.printed
      /\ requests'[f].step = "sent" /\ f \in Pending'
      /\ \A s \in Slots \ {f} : requests'[s] = requests[s]
      /\ requests'[f].op = "recv" => requests'[f].payload = None /\ poll'[w] = f
      /\ \A v \in Windows : poll[v] # None => poll'[v] = poll[v]
      /\ \A v \in Windows : send[v] # None => send'[v] = send[v]
      /\ hist'.acked = hist.acked /\ hist'.giveups = hist.giveups
      /\ hist'.restarts = hist.restarts /\ hist.giveups <= hist'.giveups
  <2>1. hist.giveups <= hist.giveups
    BY MailboxConstants DEF MInv, TypeOK
  <2>2. CASE Poll(w)
    <3>1. New("recv", w, None) /\ hist' = hist /\ QUEUES' = QUEUES /\ send' = send
          /\ poll' = [poll EXCEPT ![w] = f] /\ poll[w] = None
      BY <1>1, <2>2 DEF Poll
    <3>2. /\ f \in Slots /\ requests[f] = None /\ requests'[f] # None
          /\ requests'[f].step = "sent" /\ \A s \in Slots \ {f} : requests'[s] = requests[s]
      BY <1>1, <3>1, NewProperties
    <3>3. requests'[f].payload = None
      BY <1>1, <3>1, <3>2 DEF New, MInv, TypeOK
    <3>4. QED
      BY <2>1, <3>1, <3>2, <3>3 DEF Pending, MInv, TypeOK
  <2>3. CASE send_h2_payload(w)
    <3>1. /\ f \in Slots /\ requests[f] = None
          /\ \A s \in Slots \ {f} : requests'[s] = requests[s]
          /\ hist'.acked = hist.acked /\ hist'.giveups = hist.giveups
          /\ hist'.restarts = hist.restarts
      BY <1>1, <2>3, SendPlaces
    <3>2. requests'[f] = [op |-> "send", cid |-> Id[w], step |-> "sent",
                          payload |-> [id |-> hist.sent + 1, from |-> w]]
      BY <1>1, <2>3, SendPlaces
    <3>3. requests'[f].op = "send" /\ requests'[f].step = "sent"
      BY <3>2
    <3>4. f \in Pending'
      <4>1. send'[w] = f
        BY <1>1, <2>3 DEF send_h2_payload, MInv, TypeOK
      <4>2. f # None
        BY <3>1, MailboxConstants
      <4>3. QED
        BY <4>1, <4>2 DEF MInv, TypeOK
    <3>5. /\ QUEUES' = QUEUES /\ poll' = poll /\ hist'.printed = hist.printed
          /\ send' = [send EXCEPT ![w] = f] /\ send[w] = None
      BY <1>1, <2>3 DEF send_h2_payload, MInv, TypeOK
    <3>6. QED
      BY <2>1, <3>1, <3>3, <3>4, <3>5 DEF MInv, TypeOK
  <2>4. QED
    BY <2>2, <2>3
<1>3. Good'
  BY <1>2 DEF AInv, Good, Pending
<1>4. \A s \in Pending : s # f /\ requests'[s] = requests[s]
  BY <1>2 DEF Pending
<1>5. \A p \in Payloads : Acknowledged(p)' => Acknowledged(p)
  <2>1. \A s \in Pending' : s = f \/ (s \in Pending /\ requests'[s] = requests[s])
    BY <1>2 DEF Pending
  <2>2. QED
    BY <1>2, <2>1 DEF Acknowledged
<1>6. Lost' \subseteq Lost
  <2>1. Lost' \subseteq Lost \cup ({None} \cap Payloads)
    BY <1>2, <1>4, <1>5, SlotLost
  <2>2. QED
    BY <2>1, NoneIsNoRequest
<1>7. Orphans' \subseteq Orphans
  <2>1. ASSUME NEW s \in Orphans' PROVE s \in Orphans
    <3>1. s \in Pending' /\ s \in Slots /\ requests'[s].op = "recv" /\ ~Wanted(s)'
      BY DEF Orphans, Pending
    <3>2. s # f
      <4>1. poll'[w] = f => Wanted(f)'
        BY DEF Wanted
      <4>2. QED
        BY <1>2, <3>1, <4>1
    <3>3. requests'[s] = requests[s] /\ s \in Pending
      BY <1>2, <3>1, <3>2 DEF Pending
    <3>4. s \notin Answers
      BY <3>3 DEF Orphans, Answers, InStep, Pending
    <3>5. s # None
      BY <3>1, MailboxConstants
    <3>6. ~Wanted(s)
      BY <1>2, <3>1, <3>5 DEF Wanted
    <3>7. QED
      BY <3>1, <3>3, <3>4, <3>6 DEF Orphans
  <2>2. QED
    BY <2>1
<1>8. QED
  BY <1>2, <1>3, <1>6, <1>7, WithinBudget

\* A poll is left: its answer is lost with what is in it, or it is an orphan now.
LEMMA PollLeft ==
    ASSUME MInv, MInv', UInv, AInv, NEW w \in Windows, poll[w] # None,
           hist' = GaveUp, requests' = Left(poll[w]), poll' = [poll EXCEPT ![w] = None],
           UNCHANGED <<QUEUES, send>>
    PROVE  AInv'
<1>1. PICK t : t = poll[w]
  OBVIOUS
<1>2. TypeOK /\ t \in Pending /\ t \in Slots /\ t # None /\ requests[t].op = "recv"
  BY <1>1 DEF MInv, TypeOK, Pending
<1>3. /\ hist'.printed = hist.printed /\ hist'.acked = hist.acked
      /\ hist'.giveups = hist.giveups + 1 /\ hist'.restarts = hist.restarts
  BY <1>2 DEF GaveUp, TypeOK
<1>4. \A s \in Slots : requests'[s] = IF s = t /\ t \in Answers THEN None ELSE requests[s]
  BY <1>1, <1>2 DEF Left, TypeOK
<1>5. \A v \in Windows : poll'[v] = IF v = w THEN None ELSE poll[v]
  BY <1>2 DEF TypeOK
<1>6. Good'
  BY <1>4 DEF AInv, Good, Pending
<1>7. \A p \in Payloads : Acknowledged(p)' => Acknowledged(p)
  BY <1>3, <1>4 DEF Acknowledged, Pending
<1>8. ASSUME NEW s \in Orphans' PROVE s \in Orphans \/ (s = t /\ t \notin Answers)
  <2>1. s \in Slots /\ requests'[s] # None
    BY DEF Orphans, Pending
  <2>2. requests'[s] = requests[s] /\ s \in Pending /\ ~(s = t /\ t \in Answers)
    BY <1>4, <2>1 DEF Pending
  <2>3. s \notin Answers /\ requests[s].op = "recv"
    BY <2>1, <2>2 DEF Orphans, Answers, InStep, Pending
  <2>4. s # t => ~Wanted(s)
    BY <1>1, <1>5 DEF Orphans, Wanted
  <2>5. QED
    BY <2>2, <2>3, <2>4 DEF Orphans
<1>9. CASE t \in Answers
  <2>1. PICK x : x = requests[t].payload
    OBVIOUS
  <2>2. \A s \in Pending : requests'[s] = requests[s] \/ requests[s].payload = x
    BY <1>4, <2>1 DEF Pending
  <2>3. Lost' \subseteq Lost \cup ({x} \cap Payloads)
    BY <1>3, <1>7, <2>2, SlotLost
  <2>4. Lost' \subseteq Lost \cup {x} /\ Orphans' \subseteq Orphans
    BY <1>8, <1>9, <2>3
  <2>5. QED
    BY <1>3, <1>6, <2>4, WithinBudget
<1>10. CASE t \notin Answers
  <2>1. \A s \in Pending : requests'[s] = requests[s]
    BY <1>4, <1>10 DEF Pending
  <2>2. Lost' \subseteq Lost \cup ({None} \cap Payloads)
    BY <1>3, <1>7, <2>1, SlotLost
  <2>3. Lost' \subseteq Lost /\ Orphans' \subseteq Orphans \cup {t}
    BY <1>8, <2>2, NoneIsNoRequest
  <2>4. QED
    BY <1>3, <1>6, <2>3, WithinBudget
<1>11. QED
  BY <1>9, <1>10

\* A send is left or ends: nothing is lost.
LEMMA SendLeft ==
    ASSUME MInv, MInv', UInv, AInv, NEW w \in Windows, SendEnds(w) \/ SendFails(w)
    PROVE  AInv'
<1>1. PICK t : t = send[w]
  OBVIOUS
<1>2. TypeOK /\ t \in Pending /\ t \in Slots /\ t # None /\ requests[t].op = "send"
  <2>1. t # None
    <3>1. None \notin Answers
      BY MailboxConstants DEF Answers, InStep, Pending
    <3>2. QED
      BY <1>1, <3>1 DEF SendEnds, SendFails
  <2>2. QED
    BY <1>1, <2>1 DEF MInv, TypeOK, Pending
<1>3. /\ hist'.printed = hist.printed /\ hist'.restarts = hist.restarts
      /\ hist.giveups <= hist'.giveups
      /\ \/ hist'.acked = hist.acked
         \/ requests[t].step = "200" /\ hist'.acked = hist.acked \cup {requests[t].payload}
      /\ QUEUES' = QUEUES /\ poll' = poll
      /\ \A v \in Windows : v # w => send'[v] = send[v]
  <2>1. hist.giveups <= hist.giveups /\ hist.giveups <= hist.giveups + 1
    BY <1>2, MailboxConstants DEF TypeOK
  <2>2. GaveUp.giveups = hist.giveups + 1 /\ GaveUp.printed = hist.printed
        /\ GaveUp.acked = hist.acked /\ GaveUp.restarts = hist.restarts
    BY <1>2 DEF GaveUp, TypeOK
  <2>3. CASE SendEnds(w)
    BY <1>1, <1>2, <2>1, <2>3 DEF SendEnds, TypeOK
  <2>4. CASE SendFails(w)
    BY <1>2, <2>1, <2>2, <2>4 DEF SendFails, TypeOK
  <2>5. QED
    BY <2>3, <2>4
<1>4. /\ \A s \in Slots \ {t} : requests'[s] = requests[s]
      /\ requests'[t] = requests[t] \/ (requests'[t] = None /\ t \in Answers)
  BY <1>1, <1>2 DEF SendEnds, SendFails, Left, TypeOK
<1>5. Good'
  BY <1>4 DEF AInv, Good, Pending
<1>6. \A p \in Payloads : Acknowledged(p)' => Acknowledged(p)
  BY <1>2, <1>3, <1>4 DEF Acknowledged, Pending
<1>7. \A s \in Pending : requests'[s] = requests[s]
                         \/ (requests[s].op = "send" /\ requests[s].step # "sent")
  BY <1>2, <1>4 DEF Pending, Answers, InStep
<1>8. Lost' \subseteq Lost
  <2>1. Lost' \subseteq Lost \cup ({None} \cap Payloads)
    BY <1>3, <1>6, <1>7, SlotLost
  <2>2. QED
    BY <2>1, NoneIsNoRequest
<1>9. Orphans' \subseteq Orphans
  <2>1. ASSUME NEW s \in Orphans' PROVE s \in Orphans
    <3>1. s \in Slots /\ requests'[s] = requests[s] /\ s \in Pending
      BY <1>4 DEF Orphans, Pending
    <3>2. s \notin Answers /\ requests[s].op = "recv" /\ s # t
      BY <1>2, <3>1 DEF Orphans, Answers, InStep, Pending
    <3>3. ~Wanted(s)
      BY <1>1, <1>3, <3>2 DEF Orphans, Wanted
    <3>4. QED
      BY <3>1, <3>2, <3>3 DEF Orphans
  <2>2. QED
    BY <2>1
<1>10. QED
  BY <1>3, <1>5, <1>8, <1>9, WithinBudget

LEMMA NextAInv == MInv /\ MInv' /\ UInv /\ AInv /\ [Next]_vars => AInv'
<1> SUFFICES ASSUME MInv, MInv', UInv, AInv, [Next]_vars PROVE AInv'
  OBVIOUS
<1>1. CASE \E s \in Slots : Handle(s)
  BY <1>1, HandleAInv
<1>2. CASE Restart
  BY <1>2, RestartAInv
<1>3. ASSUME NEW w \in Windows, Poll(w) \/ send_h2_payload(w) PROVE AInv'
  BY <1>3, NewAInv
<1>4. ASSUME NEW w \in Windows, Receive(w) PROVE AInv'
  BY <1>4, ReceiveAInv
<1>5. ASSUME NEW w \in Windows, SendEnds(w) \/ SendFails(w) PROVE AInv'
  BY <1>5, SendLeft
<1>6. ASSUME NEW w \in Windows, Timeout(w) PROVE AInv'
  BY <1>6, PollLeft DEF Timeout
<1>7. ASSUME UNCHANGED <<requests, QUEUES, poll, send, hist>> PROVE AInv'
  BY <1>7 DEF AInv, Good, Lost, Orphans, Acknowledged, Vanished, Lies, Wanted, Answers, InStep, Pending
<1>8. ASSUME NEW w \in Windows, connect_transport(w) PROVE AInv'
  BY <1>7, <1>8 DEF connect_transport
<1>9. ASSUME NEW w \in Windows, disconnect_transport(w) PROVE AInv'
  <2>1. CASE poll[w] = None
    <3>1. poll' = poll
      BY <1>9, <2>1 DEF disconnect_transport, Killed, MInv, TypeOK
    <3>2. QED
      BY <1>7, <1>9, <2>1, <3>1 DEF disconnect_transport
  <2>2. CASE poll[w] # None
    BY <1>9, <2>2, PollLeft DEF disconnect_transport, Killed
  <2>3. QED
    BY <2>1, <2>2
<1>10. CASE UNCHANGED vars
  BY <1>7, <1>10 DEF vars
<1>11. QED
  BY <1>1, <1>2, <1>3, <1>4, <1>5, <1>6, <1>8, <1>9, <1>10 DEF Next, WindowStep, PollerStep

\* A payload that is counted nowhere is nowhere.
LEMMA NotCounted ==
    ASSUME MInv, UInv, OInv, AInv, NEW p \in hist.acked, Copies(p) = 0
    PROVE  p \in Lost
<1>1. p \in Payloads
  BY AckedPayloads
<1> DEFINE Q == Places(QUEUES, p)
           A == AnswersWith(p)
           P == Places(hist.printed, p)
<1>2. \A k, a, b, l, c, d : Lies(k, a, b, p) /\ Lies(l, c, d, p) => k = l /\ a = c /\ b = d
  BY <1>1 DEF UInv, Unique
<1>3. /\ \A e \in Q : Lies("queue", e[1], e[2], p) /\ e = <<e[1], e[2]>>
      /\ \A s \in A : Lies("answer", s, 0, p)
      /\ \A e \in P : Lies("printed", e[1], e[2], p) /\ e = <<e[1], e[2]>>
  BY <1>1, CountedPlaces
<1>4. Cardinality(Q) + Cardinality(A) + Cardinality(P) = 0
  BY DEF Copies
<1>5. /\ \A a, b : Lies("queue", a, b, p) => <<a, b>> \in Q
      /\ \A a, b : Lies("printed", a, b, p) => <<a, b>> \in P
      /\ \A a, b : Lies("answer", a, b, p) => a \in A
  <2>1. /\ \A i \in Ids : QUEUES[i] \in Seq(Payloads)
        /\ \A w \in Windows : hist.printed[w] \in Seq(Payloads)
        /\ DOMAIN QUEUES = Ids /\ DOMAIN hist.printed = Windows
    BY DEF MInv, TypeOK
  <2>2. /\ \A i \in Ids : DOMAIN QUEUES[i] = 1 .. Len(QUEUES[i])
        /\ \A w \in Windows : DOMAIN hist.printed[w] = 1 .. Len(hist.printed[w])
    BY <2>1, LenProperties
  <2>3. \A a, b : Lies("queue", a, b, p) => <<a, b>> \in Q
    BY <2>1, <2>2 DEF Lies, Places
  <2>4. \A a, b : Lies("printed", a, b, p) => <<a, b>> \in P
    BY <2>1, <2>2 DEF Lies, Places
  <2>5. \A a, b : Lies("answer", a, b, p) => a \in A
    BY <1>1, NoneIsNoRequest DEF Lies, AnswersWith, Answers, InStep, AInv, Good
  <2>6. QED
    BY <2>3, <2>4, <2>5
<1> HIDE DEF Q, A, P
<1>6. (\A e, g \in Q : e = g) /\ (\A s, t \in A : s = t) /\ (\A e, g \in P : e = g)
  BY <1>2, <1>3
<1>7. Q = {} /\ A = {} /\ P = {}
  <2>1. /\ (Q = {} /\ Cardinality(Q) = 0) \/ (Q # {} /\ Cardinality(Q) = 1)
        /\ (A = {} /\ Cardinality(A) = 0) \/ (A # {} /\ Cardinality(A) = 1)
        /\ (P = {} /\ Cardinality(P) = 0) \/ (P # {} /\ Cardinality(P) = 1)
    BY <1>6, AtMostOneElement
  <2>2. QED
    BY <1>4, <2>1
<1>8. \A s, b : ~Lies("request", s, b, p)
  <2>1. \A s, b : Lies("request", s, b, p) => s \in Slots /\ b = 0
    BY DEF Lies, Pending
  <2>2. QED
    BY <2>1 DEF OInv, Handled, Gone
<1>9. Vanished(p)
  <2>1. ASSUME NEW k, NEW a, NEW b, Lies(k, a, b, p) PROVE FALSE
    <3>1. k \in {"request", "queue", "answer", "printed"}
      BY <2>1 DEF Lies
    <3>2. QED
      BY <1>5, <1>7, <1>8, <2>1, <3>1
  <2>2. QED
    BY <2>1 DEF Vanished
<1>10. QED
  BY <1>1, <1>9 DEF Lost, Acknowledged

\* While the server lives, no more of what it acknowledged is gone than requests
\* were left: a poll that nobody waits for takes one payload with it at most.
THEOREM AcknowledgedAccountedFor == Spec => []Accounted
<1>1. MInv /\ UInv /\ OInv /\ AInv => Accounted
  <2> SUFFICES ASSUME MInv, UInv, OInv, AInv, hist.restarts = 0
               PROVE  Cardinality({p \in hist.acked : Copies(p) = 0}) <= hist.giveups
    BY DEF Accounted
  <2> DEFINE L == {p \in hist.acked : Copies(p) = 0}
  <2>1. L \subseteq Lost
    BY NotCounted
  <2>2. Budget(Lost, Orphans, hist.giveups)
    BY DEF AInv
  <2> HIDE DEF L
  <2>3. IsFiniteSet(L) /\ Cardinality(L) <= Cardinality(Lost) /\ Cardinality(L) \in Nat
        /\ Cardinality(Lost) \in Nat /\ Cardinality(Orphans) \in Nat
    BY <2>1, <2>2, OrphansFinite, FS_Subset, FS_CardinalityType DEF Budget
  <2>4. hist.giveups \in Nat
    BY MailboxConstants DEF MInv, TypeOK
  <2>5. Cardinality(L) <= hist.giveups
    BY <2>2, <2>3, <2>4 DEF Budget
  <2>6. QED
    BY <2>5 DEF L
<1>2. Spec => []UInv
  BY InitUInv, NextUInv, MailboxInvariance, PTL DEF Spec
<1>3. Spec => []OInv
  BY InitOInv, NextOInv, MailboxInvariance, <1>2, PTL DEF Spec
<1>4. Spec => []AInv
  BY InitAInv, NextAInv, MailboxInvariance, <1>2, PTL DEF Spec
<1>5. QED
  BY <1>1, <1>2, <1>3, <1>4, MailboxInvariance, PTL
=============================================================================
