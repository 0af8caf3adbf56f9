----------------------------- MODULE MCSession -----------------------------
(* Session with values for TLC: the data channel, where writes go, and one  *)
(* of the others.                                                          *)
EXTENDS Session

MCOrder == <<"events", "data">>
MCReadOrStart == {"readfail", "startfail"}
MCAllButMid == {"cancel", "expire", "readfail", "sendfail"}
MCCancel == {"cancel"}
MCMidFail == {"midfail"}
=============================================================================
