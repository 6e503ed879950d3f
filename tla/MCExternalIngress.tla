------------------------- MODULE MCExternalIngress -------------------------
(* TLC instances of ExternalIngress need no definitions of their own.  The   *)
(* properties below are not among the runs: the README says with which       *)
(* constants TLC refutes each.                                               *)
EXTENDS ExternalIngress

\* Once everything has arrived, each turn's prompt has been published.
PromptTold == Quiet => \A t \in 1 .. codex.turn : Told("submitted", t)

\* A turn's end, once shown, is not taken back by what arrives late.
EndedStaysEnded ==
  [][activity.status = "completed" /\ activity'.status = "running"
       => activity'.turn # activity.known]_vars

\* Once everything has arrived, the session does not refuse an app update.
QuietIsFree == Quiet => ~Busy
=============================================================================
