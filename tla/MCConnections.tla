---------------------------- MODULE MCConnections ---------------------------
(***************************************************************************)
(* Threads that share a connection while one of them closes it: in the     *)
(* Java library (SpreadShutdown), in the Spread client library             *)
(* (SpreadClient) and in the Flush library (FlushConnection). used names   *)
(* the library; the others stay as they were loaded.                       *)
(***************************************************************************)
EXTENDS SpreadShutdown, SpreadClient, FlushConnection

CONSTANTS t1, t2, t3

VARIABLE used

\* Two receivers, and one that ends the connection under them.
MCSpDoes == [t \in SpThread |-> CASE t = t1 -> {"receive"}
                                  [] t = t2 -> {"receive", "multicast"}
                                  [] t = t3 -> {"connect", "disconnect"}]
MCDoes == [t \in FlThread |-> CASE t = t1 -> {"receive"}
                                [] t = t2 -> {"receive", "disconnect"}
                                [] t = t3 -> {"connect", "multicast"}]

MCInit == Init /\ SpInit /\ FlConnInit /\ used \in {"java", "sp", "fl"}
MCNext ==
  \/ used = "java" /\ Next /\ UNCHANGED <<spVars, flConnVars, used>>
  \/ used = "sp" /\ SpNext /\ UNCHANGED <<vars, flConnVars, used>>
  \/ used = "fl" /\ FlConnNext /\ UNCHANGED <<vars, spVars, used>>

\* The fairness of SpreadShutdown and of FlushConnection, where they are used.
MCSpec ==
  /\ MCInit /\ [][MCNext]_<<vars, spVars, flConnVars, used>>
  /\ WF_vars(used = "java" /\ Main /\ UNCHANGED <<spVars, flConnVars, used>>)
  /\ WF_vars(used = "java" /\ Listener /\ UNCHANGED <<spVars, flConnVars, used>>)
  /\ \A t \in FlThread : WF_flConnVars(used = "fl" /\ InCall(t) /\ UNCHANGED <<vars, spVars, used>>)
=============================================================================
