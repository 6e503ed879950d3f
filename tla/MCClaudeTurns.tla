---------------------------- MODULE MCClaudeTurns ----------------------------
(* TLC instances of ClaudeTurns.                                            *)
EXTENDS ClaudeTurns

CONSTANTS s1, s2, hi, go

OneSend == {s1}
TwoSends == {s1, s2}
NoPrompt == {}
TwoPrompts == 1 .. 2
OneText == {go}
=============================================================================
