--------------------------- MODULE MCSendRecovery ---------------------------
(* TLC instances of SendRecovery: which requests and untracked messages     *)
(* there are, and which session each is written for.                        *)
EXTENDS SendRecovery

CONSTANTS s1, r1, r2, u1

OneSession == {s1}
OneRequest == {r1}
TwoRequests == {r1, r2}
OneUntracked == {u1}
None == {}
AllForS1 == [m \in {r1, r2, u1} \cap Messages |-> s1]
=============================================================================
