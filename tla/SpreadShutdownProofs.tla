------------------------ MODULE SpreadShutdownProofs -------------------------
(***************************************************************************)
(* Theorems about SpreadShutdown, for any backlog on the socket and with   *)
(* or without failing callbacks.                                           *)
(***************************************************************************)
EXTENDS SpreadShutdown, SequenceTheorems, TLAPS

-----------------------------------------------------------------------------
(***************************************************************************)
(* The field listener is cleared only by who has joined the listener       *)
(* thread, and the connection is ended only by who has found the field     *)
(* cleared or has joined the thread himself.                               *)
(***************************************************************************)
ThreadStarted ==
    /\ main = "add" => ~registered
    /\ main = "connect" => registered
    /\ main \in {"add", "connect"} <=> thread = "none"

ThreadListed == thread # "none" => listener \/ thread = "dead"

EndedLast == thread # "none" /\ ~connected => thread = "dead"

\* Only the own leave may exceed the bound on what waits on the socket.
LeaveCounted == main \in {"add", "connect", "running"} => arrived <= MaxMessages

ShutdownInv ==
    ShutdownTypeOK /\ ThreadStarted /\ ThreadListed /\ EndedLast /\ LeaveCounted

LEMMA ShutdownInit == Init => ShutdownInv
<1> SUFFICES ASSUME Init PROVE ShutdownInv
  OBVIOUS
<1>1. {listener, signal, connected, registered, callingListeners} \subseteq BOOLEAN
  BY DEF Init
<1>2. listenerBuffer \in Seq({"REMOVE_ADVANCED", "listener", "DISCONNECT"})
  BY DEF Init
<1>3. arrived \in 0 .. MaxMessages + 1
  BY ShutdownAssumption DEF Init
<1>4. ShutdownTypeOK
  BY <1>1, <1>2, <1>3 DEF Init, ShutdownTypeOK
<1>5. ThreadStarted /\ ThreadListed /\ EndedLast /\ LeaveCounted
  BY ShutdownAssumption DEF Init, ThreadStarted, ThreadListed, EndedLast, LeaveCounted
<1> QED  BY <1>4, <1>5 DEF ShutdownInv

LEMMA BufferTypes ==
    ASSUME NEW S, NEW b \in Seq(S)
    PROVE  /\ \A x \in S : Append(b, x) \in Seq(S)
           /\ b # <<>> => Tail(b) \in Seq(S)
BY AppendProperties, HeadTailProperties

LEMMA MainKeeps ==
    ASSUME ShutdownInv, Main
    PROVE  ShutdownInv'
<1> USE ShutdownAssumption
    DEF ShutdownInv, ShutdownTypeOK, ThreadStarted, ThreadListed, EndedLast,
        LeaveCounted, locks
<1>1. CASE Add
  BY <1>1 DEF Add
<1>2. CASE Connect
  BY <1>2 DEF Connect
<1>3. CASE Leave
  BY <1>3 DEF Leave
<1>4. CASE Remove
  BY <1>4 DEF Remove
<1>5. CASE RemoveJoined
  BY <1>5 DEF RemoveJoined
<1>6. CASE RemoveInCallback
  BY <1>6 DEF RemoveInCallback
<1>7. CASE BufferCommand
  BY <1>7, BufferTypes DEF BufferCommand
<1>8. CASE BufferArgument
  BY <1>8, BufferTypes DEF BufferArgument
<1>9. CASE Disconnect
  <2>1. CASE listener
    BY <1>9, <2>1 DEF Disconnect
  <2>2. CASE ~listener
    <3>1. thread = "dead" /\ thread' = "dead" /\ connected' = FALSE /\ main' = "done"
      BY <1>9, <2>2 DEF Disconnect
    <3> QED  BY <1>9, <2>2, <3>1 DEF Disconnect
  <2> QED  BY <2>1, <2>2
<1>10. CASE DisconnectJoined
  BY <1>10 DEF DisconnectJoined
<1>11. CASE DisconnectInCallback
  BY <1>11, BufferTypes DEF DisconnectInCallback
<1> QED  BY <1>1, <1>2, <1>3, <1>4, <1>5, <1>6, <1>7, <1>8, <1>9, <1>10, <1>11 DEF Main

LEMMA ListenerKeeps ==
    ASSUME ShutdownInv, Listener
    PROVE  ShutdownInv'
<1> USE ShutdownAssumption
    DEF ShutdownInv, ShutdownTypeOK, ThreadStarted, ThreadListed, EndedLast,
        LeaveCounted, locks, At
<1>1. CASE Lock
  BY <1>1 DEF Lock
<1>2. CASE Receive
  BY <1>2 DEF Receive
<1>3. CASE ReceiveTimeout
  BY <1>3 DEF ReceiveTimeout
<1>4. CASE CallbackReturns
  BY <1>4 DEF CallbackReturns
<1>5. CASE BufferEmpty
  BY <1>5 DEF BufferEmpty
<1>6. CASE TakeCommand
  BY <1>6, BufferTypes DEF TakeCommand
<1>7. CASE ArgumentMissing
  BY <1>7 DEF ArgumentMissing
<1>8. CASE RemoveBuffered
  BY <1>8 DEF RemoveBuffered
<1> QED  BY <1>1, <1>2, <1>3, <1>4, <1>5, <1>6, <1>7, <1>8 DEF Listener

LEMMA OthersKeep ==
    ASSUME ShutdownInv, Fail \/ Arrive \/ UNCHANGED vars
    PROVE  ShutdownInv'
<1> USE ShutdownAssumption
    DEF ShutdownInv, ShutdownTypeOK, ThreadStarted, ThreadListed, EndedLast,
        LeaveCounted, locks, At
<1>1. CASE Fail
  BY <1>1 DEF Fail
<1>2. CASE Arrive
  BY <1>2 DEF Arrive
<1>3. CASE UNCHANGED vars
  BY <1>3 DEF vars
<1> QED  BY <1>1, <1>2, <1>3

LEMMA ShutdownInvariant == Spec => []ShutdownInv
<1>1. ShutdownInv /\ [Next]_vars => ShutdownInv'
  BY MainKeeps, ListenerKeeps, OthersKeep DEF Next
<1> QED  BY <1>1, ShutdownInit, PTL DEF Spec

(***************************************************************************)
(* Whatever arrives, fails or is buffered, the monitors are held by whom   *)
(* the code's synchronized blocks say: the listener thread has the one of  *)
(* the connection exactly while it reads, calls back or works off the      *)
(* buffer, and main has listenersynchro exactly while it waits or buffers  *)
(* a command in remove.                                                    *)
(***************************************************************************)
THEOREM MonitorsHeld == Spec => []ShutdownTypeOK
BY ShutdownInvariant, PTL DEF ShutdownInv

(***************************************************************************)
(* disconnect never closes the socket under a listener thread that may     *)
(* still read from it (SpreadConnection.disconnect and Listener.run).      *)
(***************************************************************************)
THEOREM SocketOutlivesReader == Spec => []NoReadAfterClose
<1>1. ShutdownInv => NoReadAfterClose
  BY DEF ShutdownInv, ShutdownTypeOK, ThreadStarted, EndedLast, NoReadAfterClose
<1> QED  BY <1>1, ShutdownInvariant, PTL
=============================================================================
