------------------------------- MODULE VpnLink -------------------------------
(***************************************************************************)
(* The client implements ClientLink: what was given to its connection and   *)
(* is not handled waits in peer->buf, in the kernels and the SSL session,   *)
(* and in the write buffer of the server.                                   *)
(***************************************************************************)
EXTENDS VpnClient

LinkState ==
    CASE pc = "connect" -> "down"
      [] pc = "wait101" -> "asked"
      [] pc = "exited" -> "ended"
      [] OTHER -> "open"

\* The messages of what is underway: only its first item may be none, which is
\* the answer to the request or the rest of a message that was cut.
Whole(items) ==
    IF items # <<>> /\ Head(items) \notin Messages THEN Tail(items) ELSE items

Link == INSTANCE ClientLink WITH
    state <- LinkState, queue <- Whole(Underway),
    torn <- hist.torn, handled <- hist.handled

\* Every step of the client and of its connection is one of ClientLink or none:
\* wherever it fails, blocks or is cut off, it handles what it was given once and
\* in order, drops messages only with the answer to its request or behind a torn
\* one, and takes nothing from one connection to the next.
ImplementsLink == Link!LinkSpec
=============================================================================
