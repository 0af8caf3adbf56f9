----------------------------- MODULE MCCommand -----------------------------
(* Command for TLC: the channel that serves two services and the one a      *)
(* select goes out on, of the three in conversation.go:160-170.             *)
EXTENDS Command

MCChannels == <<"control", "data">>
MCServices == [control |-> 2, data |-> 1]
=============================================================================
