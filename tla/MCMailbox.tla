----------------------------- MODULE MCMailbox -----------------------------
(* Two windows with the GUI's default user name, one of which sends. *)
EXTENDS Mailbox, TLC

CONSTANTS w1, w2, cucumber

TwoWindows == {w1, w2}
SharedId == (w1 :> cucumber) @@ (w2 :> cucumber)
OneId == {cucumber}
OneSender == {w1}
ThreeSlots == 1 .. 3
EitherServer == BOOLEAN
=============================================================================
