------------------------------ MODULE StdArrays ------------------------------
(***************************************************************************)
(* The two arrays of stdutil, which share nothing but their element type:  *)
(* a client works on either.                                               *)
(***************************************************************************)
EXTENDS StdArr, StdCarr

arraysVars == <<arrVars, carrVars>>

ArraysNext ==
    \/ ArrNext /\ UNCHANGED carrVars
    \/ CarrNext /\ UNCHANGED arrVars

ArraysSpec == ArrInit /\ CarrInit /\ [][ArraysNext]_arraysVars

(***************************************************************************)
(* The arrays hold what was asked for, in order, whatever was moved        *)
(* (stdarr.c and stdcarr.c).                                               *)
(***************************************************************************)
ArraysRight == ArrRight /\ CarrRight
=============================================================================
