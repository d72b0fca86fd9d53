----------------------------- MODULE ClientLink -----------------------------
(***************************************************************************)
(* What a vpn-ws client promises about the connection it has: it asks for   *)
(* the upgrade, may throw away what came together with the answer, and from *)
(* then on handles every message once and in order, until it gives the      *)
(* connection up with all that was left of it.  Only a connection on which  *)
(* a message was cut in two (torn) may lose others.                         *)
(***************************************************************************)
EXTENDS Naturals, Sequences

CONSTANTS Messages

VARIABLES
    state,    \* "down", "asked", "open", or "ended" with the process
    queue,    \* given to this connection and not handled yet
    torn,     \* a message was cut in two when the connection was opened
    handled   \* handled on this connection

lvars == <<state, queue, torn, handled>>

LinkInit == state = "down" /\ queue = <<>> /\ torn = FALSE /\ handled = <<>>

Ask ==
    /\ state = "down" /\ state' = "asked"
    /\ UNCHANGED <<queue, torn, handled>>

Give(m) ==
    /\ state \in {"asked", "open"}
    /\ queue' = Append(queue, m)
    /\ UNCHANGED <<state, torn, handled>>

\* The first k messages are lost, the last of those perhaps in part only.
Open(k) ==
    /\ state = "asked" /\ state' = "open"
    /\ queue' = SubSeq(queue, k + 1, Len(queue))
    /\ torn' \in {FALSE, k > 0}
    /\ UNCHANGED handled

Handle ==
    /\ state = "open" /\ queue # <<>>
    /\ handled' = Append(handled, Head(queue)) /\ queue' = Tail(queue)
    /\ UNCHANGED <<state, torn>>

\* The rest of a torn message swallows k others.
Swallow(k) ==
    /\ state = "open" /\ torn
    /\ queue' = SubSeq(queue, k + 1, Len(queue))
    /\ UNCHANGED <<state, torn, handled>>

GiveUp ==
    /\ state \in {"asked", "open"} /\ state' = "down"
    /\ queue' = <<>> /\ torn' = FALSE /\ handled' = <<>>

End ==
    /\ state = "open" /\ state' = "ended"
    /\ UNCHANGED <<queue, torn, handled>>

LinkNext ==
    \/ Ask \/ Handle \/ GiveUp \/ End
    \/ \E m \in Messages : Give(m)
    \/ \E k \in 0 .. Len(queue) : Open(k) \/ Swallow(k)

LinkSpec == LinkInit /\ [][LinkNext]_lvars
=============================================================================
