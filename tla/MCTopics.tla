------------------------------ MODULE MCTopics ------------------------------
EXTENDS Topics
CONSTANT s1
OneSession == {s1}
Both == {"closed", "deleted"}
=============================================================================
