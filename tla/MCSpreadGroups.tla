--------------------------- MODULE MCSpreadGroups ---------------------------
EXTENDS SpreadGroups
MCHome == [c \in Client |-> c]
=============================================================================
