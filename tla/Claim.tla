------------------------------- MODULE Claim -------------------------------
(***************************************************************************)
(* What a pedal is promised: its editor interface is claimed by at most    *)
(* one session at a time, one operation runs on it at a time, and it is    *)
(* let go between operations, never inside one.  ClientSessions and        *)
(* PedalHold are shown to implement this.                                  *)
(***************************************************************************)
CONSTANTS Sessions, NoSession

VARIABLES
  holder, \* the session that has the interface, or NoSession
  using   \* an operation is under way on it

claimVars == <<holder, using>>

Init == holder = NoSession /\ using = FALSE

Take(s) == holder = NoSession /\ holder' = s /\ UNCHANGED using

Use == holder # NoSession /\ ~using /\ using' = TRUE /\ UNCHANGED holder

Rest == using /\ using' = FALSE /\ UNCHANGED holder

Drop == holder # NoSession /\ ~using /\ holder' = NoSession /\ UNCHANGED using

Next == (\E s \in Sessions : Take(s)) \/ Use \/ Rest \/ Drop

Spec == Init /\ [][Next]_claimVars
=============================================================================
