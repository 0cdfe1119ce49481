------------------------------ MODULE MCLibraries ----------------------------
(***************************************************************************)
(* The containers of stdutil and the Flush library that is built on them,  *)
(* one at a time: used names the one a client works on, the others stay as *)
(* they were constructed.                                                  *)
(***************************************************************************)
EXTENDS StdArrays, StdDll, StdHash, StdSkl, SpreadFlush

CONSTANTS a, b, c

VARIABLE used

vars == <<arrVars, carrVars, dllVars, hashVars, sklVars, flushVars, used>>

\* Keys 1 and 3 collide (a code of 0 is taken for 1), key 2 starts at the same position.
CollidingCodes == [k \in HashKey |-> CASE k = 1 -> 0 [] k = 2 -> 9 [] OTHER -> 1]

MCInit ==
    /\ ArrInit /\ CarrInit /\ DllInit /\ HashInit /\ SklInit /\ FlushInit
    /\ used \in {"arr", "carr", "dll", "hash", "skl", "flush"}
    /\ used # "arr" => arr = stdarr_construct([noGrow |-> FALSE, noShrink |-> FALSE])
    /\ used # "carr" => carr = stdcarr_construct([noGrow |-> FALSE, noShrink |-> FALSE])
    /\ used # "hash" => hash = stdhash_construct([noGrow |-> FALSE, noShrink |-> FALSE])

MCNext ==
    \/ used = "arr"  /\ ArrNext  /\ UNCHANGED <<carrVars, dllVars, hashVars, sklVars, flushVars, used>>
    \/ used = "carr" /\ CarrNext /\ UNCHANGED <<arrVars, dllVars, hashVars, sklVars, flushVars, used>>
    \/ used = "dll"  /\ DllNext  /\ UNCHANGED <<arrVars, carrVars, hashVars, sklVars, flushVars, used>>
    \/ used = "hash" /\ HashNext /\ UNCHANGED <<arrVars, carrVars, dllVars, sklVars, flushVars, used>>
    \/ used = "skl"  /\ SklNext  /\ UNCHANGED <<arrVars, carrVars, dllVars, hashVars, flushVars, used>>
    \/ used = "flush" /\ FlushNext /\ UNCHANGED <<arrVars, carrVars, dllVars, hashVars, sklVars, used>>

MCSpec == MCInit /\ [][MCNext]_vars

(***************************************************************************)
(* The linked structures are linked right on every level and both ways.    *)
(***************************************************************************)
LinksRight == used \in {"dll", "skl"} => DllRight /\ SklRight

(***************************************************************************)
(* Every lookup by key finds exactly what is stored.                       *)
(***************************************************************************)
LookupsRight == used \in {"hash", "skl"} => HashRight /\ SklFinds
=============================================================================
