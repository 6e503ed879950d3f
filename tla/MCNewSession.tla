---------------------------- MODULE MCNewSession ----------------------------
(* TLC instances of NewSession: which requests come from which actor.       *)
EXTENDS NewSession

CONSTANTS a1, a2, b1

OneApp == {a1}
TwoApps == {a1, a2}
OneBot == {b1}
None == {}
=============================================================================
