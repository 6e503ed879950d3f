---------------------------- MODULE MCTelegramTurns -------------------------
EXTENDS TelegramTurns

TwoTurns == 1 .. 2
Two      == <<"a", "b">>
Finals   == {"delta", "final"}
Completed == {"completed"}
AllEnds  == {"completed", "mirrored", "aborted"}
=============================================================================
