---------------------------- MODULE MCSpreadRing ----------------------------
EXTENDS SpreadRing

OneSegment == [d \in Daemon |-> 1]
TwoSegments == [d \in Daemon |-> IF d = 3 THEN 2 ELSE 1]
MsgSender == [m \in Msg |-> CASE m = "m1" -> 1 [] m = "m2" -> 2 [] OTHER -> 3]
MsgService == [m \in Msg |-> IF m = "m2" THEN "safe" ELSE "agreed"]
MsgParts == [m \in Msg |-> 1]
LoadTwo == [d \in Daemon |-> CASE d = 1 -> <<"m1">> [] d = 2 -> <<"m2">> [] OTHER -> <<>>]
LoadOne == [d \in Daemon |-> IF d = 2 THEN <<"m2">> ELSE <<>>]
NoSent == <<>>
\* On the broken ring daemon 3 sent m3, then 1 sent m1, then 2 sent m2. Daemon 2
\* does not have m1. Either both have m3, and 1 has delivered m1; or nobody who is
\* left has m3, and all the rest waits behind the hole.
SentBefore == <<[msg |-> "m3", part |-> 1], [msg |-> "m1", part |-> 1], [msg |-> "m2", part |-> 1]>>
HeldAfter == {(1 :> H \cup {2, 3}) @@ (2 :> H \cup {3}) : H \in {{}, {1}}}
=============================================================================
