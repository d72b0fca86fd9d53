---------------------------- MODULE MCVpnClient ----------------------------
(* Small instances of VpnClient for TLC: what the server sends. *)
EXTENDS VpnLink

CONSTANTS F

AllMessages == {F, Close}
OneFrame == {F}
=============================================================================
