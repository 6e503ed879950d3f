--------------------------- MODULE MCInteractions ---------------------------
(* TLC instances of Interactions.  Numbers stand for JSON-RPC ids, q1 for   *)
(* the id of a question.                                                    *)
EXTENDS Interactions

CONSTANTS q1

OnlyCodex == {"codex"}
Both == {"codex", "claude"}
OnlyClaude == {"claude"}
TwoApprovals == 1 .. 2
FromZero == 0 .. 1
OneQuestion == {q1}
None == {}
TwoParts == 1 .. 2
Allow == {"allow"}
Always == {"always"}
=============================================================================
