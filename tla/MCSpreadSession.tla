-------------------------- MODULE MCSpreadSession --------------------------
EXTENDS SpreadSession
\* The first and the last client ask for the same name.
MCNameOf == [c \in Client |-> IF c = 3 THEN 1 ELSE c]
=============================================================================
