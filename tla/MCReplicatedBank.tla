-------------------------- MODULE MCReplicatedBank --------------------------
EXTENDS ReplicatedBank, TLC

Symmetry == Permutations(Replica)

\* How many transactions the replicas issue.
Busiest   == CHOOSE r \in Replica : TRUE
None      == [r \in Replica |-> 0]
OneEach   == [r \in Replica |-> 1]
TwoEach   == [r \in Replica |-> 2]
TwoAndOne == [r \in Replica |-> IF r = Busiest THEN 2 ELSE 1]
=============================================================================
