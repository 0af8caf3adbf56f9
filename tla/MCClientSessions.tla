-------------------------- MODULE MCClientSessions --------------------------
(* ClientSessions for TLC: the values are model values, given in client.cfg. *)
EXTENDS ClientSessions
=============================================================================
