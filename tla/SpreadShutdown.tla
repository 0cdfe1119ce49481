--------------------------- MODULE SpreadShutdown ---------------------------
(***************************************************************************)
(* The end of a replica: exit() of ReplicatedStateMachine against the      *)
(* listener thread of Spread's SpreadConnection, with the locks they take. *)
(*                                                                         *)
(* The listener thread holds the monitor of the connection while it reads  *)
(* a message and runs the callbacks.  Commands given meanwhile (remove,    *)
(* disconnect) are put in listenerBuffer, to be executed by the listener   *)
(* thread itself.  remove and disconnect wait for that thread to die.      *)
(***************************************************************************)
EXTENDS Naturals, Sequences

CONSTANTS
    MaxMessages,      \* bound: messages waiting on the socket
    ListenerMayFail   \* a callback may throw, the daemon may drop the client

ASSUME ShutdownAssumption == MaxMessages \in Nat /\ ListenerMayFail \in BOOLEAN

VARIABLES
    main,               \* where the main thread is
    thread,             \* where the listener thread is
    listener,           \* the field listener is not null
    signal,             \* Listener.signal
    connected,          \* SpreadConnection.connected
    registered,         \* advancedListeners holds the AdvancedListener
    callingListeners,   \* SpreadConnection.callingListeners
    listenerBuffer,     \* SpreadConnection.listenerBuffer
    connectionLock,     \* who owns the monitor of the connection
    listenersynchro,    \* who owns the monitor listenersynchro
    arrived             \* messages waiting on the socket

locks == <<connectionLock, listenersynchro>>
vars  == <<main, thread, listener, signal, connected, registered,
           callingListeners, listenerBuffer, locks, arrived>>

(***************************************************************************)
(* Types, and who is in which monitor: the listener thread reads, calls    *)
(* back and works off the buffer inside the monitor of the connection, so  *)
(* disconnect never closes the socket under it; remove buffers a command,  *)
(* or waits, inside listenersynchro.                                       *)
(***************************************************************************)
ShutdownTypeOK ==
    /\ main \in {"add", "connect", "running", "remove", "removeJoin", "command",
                 "argument", "disconnect", "disconnectJoin", "done"}
    /\ thread \in {"none", "lock", "receive", "callback", "buffer", "argument",
                   "selfJoin", "dead"}
    /\ {listener, signal, connected, registered, callingListeners} \subseteq BOOLEAN
    /\ listenerBuffer \in Seq({"REMOVE_ADVANCED", "listener", "DISCONNECT"})
    /\ connectionLock \in {"free", "main", "listener"}
    /\ listenersynchro \in {"free", "main", "listener"}
    /\ arrived \in 0 .. MaxMessages + 1
    /\ connectionLock = "listener" <=>
           thread \in {"receive", "callback", "buffer", "argument", "selfJoin"}
    /\ listenersynchro = "main" <=> main \in {"removeJoin", "command", "argument"}
    /\ listenersynchro = "listener" <=> thread = "selfJoin"
-----------------------------------------------------------------------------
(***************************************************************************)
(* Main thread: connect() ...                                              *)
(***************************************************************************)
\* connection.add(advancedListener), before there is a connection.
Add ==
    /\ main = "add"
    /\ listenersynchro = "free"
    /\ registered' = TRUE
    /\ main' = "connect"
    /\ UNCHANGED <<thread, listener, signal, connected, callingListeners,
                   listenerBuffer, locks, arrived>>

\* connection.connect(...) starts the listener thread.
Connect ==
    /\ main = "connect"
    /\ connectionLock = "free"
    /\ connected' = TRUE
    /\ listener' = registered
    /\ thread' = IF registered THEN "lock" ELSE thread
    /\ main' = "running"
    /\ UNCHANGED <<signal, registered, callingListeners, listenerBuffer, locks,
                   arrived>>

(***************************************************************************)
(* ... and exit().                                                         *)
(***************************************************************************)
\* group.leave(); the membership message about it will arrive.
Leave ==
    /\ main = "running"
    /\ arrived' = arrived + 1
    /\ main' = "remove"
    /\ UNCHANGED <<thread, listener, signal, connected, registered,
                   callingListeners, listenerBuffer, locks>>

\* Mutant: stopListener does not set the signal.
RemoveNoSignal ==
    /\ main = "remove"
    /\ listenersynchro = "free"
    /\ ~callingListeners
    /\ registered' = FALSE
    /\ listenersynchro' = "main"
    /\ main' = "removeJoin"
    /\ UNCHANGED <<thread, listener, signal, connected, callingListeners,
                   listenerBuffer, connectionLock, arrived>>

\* connection.remove outside a callback: stopListener sets the signal ...
Remove ==
    /\ main = "remove"
    /\ listenersynchro = "free"
    /\ ~callingListeners
    /\ registered' = FALSE
    /\ signal' = TRUE
    /\ listenersynchro' = "main"
    /\ main' = "removeJoin"
    /\ UNCHANGED <<thread, listener, connected, callingListeners,
                   listenerBuffer, connectionLock, arrived>>

\* ... and joins the listener thread, in the monitor listenersynchro.
RemoveJoined ==
    /\ main = "removeJoin"
    /\ thread = "dead"
    /\ listener' = FALSE
    /\ listenersynchro' = "free"
    /\ main' = "disconnect"
    /\ UNCHANGED <<thread, signal, connected, registered, callingListeners,
                   listenerBuffer, connectionLock, arrived>>

\* connection.remove during a callback: the command goes to the buffer ...
RemoveInCallback ==
    /\ main = "remove"
    /\ listenersynchro = "free"
    /\ callingListeners
    /\ listenersynchro' = "main"
    /\ main' = "command"
    /\ UNCHANGED <<thread, listener, signal, connected, registered,
                   callingListeners, listenerBuffer, connectionLock, arrived>>

\* ... as two elements, one after the other.
BufferCommand ==
    /\ main = "command"
    /\ listenerBuffer' = Append(listenerBuffer, "REMOVE_ADVANCED")
    /\ main' = "argument"
    /\ UNCHANGED <<thread, listener, signal, connected, registered,
                   callingListeners, locks, arrived>>

BufferArgument ==
    /\ main = "argument"
    /\ listenerBuffer' = Append(listenerBuffer, "listener")
    /\ listenersynchro' = "free"
    /\ main' = "disconnect"
    /\ UNCHANGED <<thread, listener, signal, connected, registered,
                   callingListeners, connectionLock, arrived>>

\* Mutant: the socket is closed without stopping the listener thread.
DisconnectNoStop ==
    /\ main = "disconnect"
    /\ connectionLock = "free"
    /\ ~callingListeners
    /\ connected' = FALSE
    /\ main' = "done"
    /\ UNCHANGED <<thread, listener, signal, registered, callingListeners,
                   listenerBuffer, locks, arrived>>

\* disconnect(): with a listener thread left, stop it and join it while
\* holding the monitor of the connection.
Disconnect ==
    /\ main = "disconnect"
    /\ connectionLock = "free"
    /\ ~callingListeners
    /\ \/ /\ listener
          /\ signal' = TRUE
          /\ connectionLock' = "main"
          /\ main' = "disconnectJoin"
          /\ UNCHANGED connected
       \/ /\ ~listener
          /\ connected' = FALSE
          /\ main' = "done"
          /\ UNCHANGED <<signal, connectionLock>>
    /\ UNCHANGED <<thread, listener, registered, callingListeners,
                   listenerBuffer, listenersynchro, arrived>>

DisconnectJoined ==
    /\ main = "disconnectJoin"
    /\ thread = "dead"
    /\ listener' = FALSE
    /\ connected' = FALSE
    /\ connectionLock' = "free"
    /\ main' = "done"
    /\ UNCHANGED <<thread, signal, registered, callingListeners,
                   listenerBuffer, listenersynchro, arrived>>

\* disconnect() when callingListeners was left set by a callback that threw.
DisconnectInCallback ==
    /\ main = "disconnect"
    /\ connectionLock = "free"
    /\ callingListeners
    /\ listenerBuffer' = Append(listenerBuffer, "DISCONNECT")
    /\ main' = "done"
    /\ UNCHANGED <<thread, listener, signal, connected, registered,
                   callingListeners, locks, arrived>>
-----------------------------------------------------------------------------
(***************************************************************************)
(* Listener thread: Listener.run().  System.exit ends it with the process. *)
(***************************************************************************)
At(pc) == thread = pc /\ main # "done"

\* synchronized (connection) { if (signal) return; ...
Lock ==
    /\ At("lock")
    /\ connectionLock = "free"
    /\ \/ signal /\ thread' = "dead" /\ UNCHANGED connectionLock
       \/ ~signal /\ thread' = "receive" /\ connectionLock' = "listener"
    /\ UNCHANGED <<main, listener, signal, connected, registered,
                   callingListeners, listenerBuffer, listenersynchro, arrived>>

\* internal_receive() returns a message: call the listeners, if any is left.
Receive ==
    /\ At("receive")
    /\ arrived > 0
    /\ arrived' = arrived - 1
    /\ callingListeners' = TRUE
    /\ thread' = "callback"
    /\ UNCHANGED <<main, listener, signal, connected, registered,
                   listenerBuffer, locks>>

\* Nothing arrives for 100 ms.
ReceiveTimeout ==
    /\ At("receive")
    /\ arrived = 0
    /\ thread' = "buffer"
    /\ UNCHANGED <<main, listener, signal, connected, registered,
                   callingListeners, listenerBuffer, locks, arrived>>

CallbackReturns ==
    /\ At("callback")
    /\ callingListeners' = FALSE
    /\ thread' = "buffer"
    /\ UNCHANGED <<main, listener, signal, connected, registered,
                   listenerBuffer, locks, arrived>>

\* A RuntimeException of a callback, or a SpreadException of the read.
Fail ==
    /\ ListenerMayFail
    /\ At("callback") \/ At("receive")
    /\ thread' = "dead"
    /\ connectionLock' = "free"
    /\ UNCHANGED <<main, listener, signal, connected, registered,
                   callingListeners, listenerBuffer, listenersynchro, arrived>>

\* while (!listenerBuffer.isEmpty()) is over: leave the monitor, start again.
BufferEmpty ==
    /\ At("buffer")
    /\ listenerBuffer = <<>>
    /\ thread' = "lock"
    /\ connectionLock' = "free"
    /\ UNCHANGED <<main, listener, signal, connected, registered,
                   callingListeners, listenerBuffer, listenersynchro, arrived>>

TakeCommand ==
    /\ At("buffer")
    /\ listenerBuffer # <<>>
    /\ listenerBuffer' = Tail(listenerBuffer)
    /\ thread' = "argument"
    /\ UNCHANGED <<main, listener, signal, connected, registered,
                   callingListeners, locks, arrived>>

\* firstElement() of an empty Vector: NoSuchElementException ends the thread.
ArgumentMissing ==
    /\ At("argument")
    /\ listenerBuffer = <<>>
    /\ thread' = "dead"
    /\ connectionLock' = "free"
    /\ UNCHANGED <<main, listener, signal, connected, registered,
                   callingListeners, listenerBuffer, listenersynchro, arrived>>

\* connection.remove(advancedListener), on the listener thread: stopListener
\* makes it join itself.
RemoveBuffered ==
    /\ At("argument")
    /\ listenerBuffer # <<>>
    /\ listenersynchro = "free"
    /\ registered' = FALSE
    /\ signal' = TRUE
    /\ listenersynchro' = "listener"
    /\ thread' = "selfJoin"
    /\ UNCHANGED <<main, listener, connected, callingListeners,
                   listenerBuffer, connectionLock, arrived>>

\* Another member sends something.
Arrive ==
    /\ main # "done"
    /\ connected
    /\ arrived < MaxMessages
    /\ arrived' = arrived + 1
    /\ UNCHANGED <<main, thread, listener, signal, connected, registered,
                   callingListeners, listenerBuffer, locks>>
-----------------------------------------------------------------------------
Init ==
    /\ main = "add"
    /\ thread = "none"
    /\ listener = FALSE
    /\ signal = FALSE
    /\ connected = FALSE
    /\ registered = FALSE
    /\ callingListeners = FALSE
    /\ listenerBuffer = <<>>
    /\ connectionLock = "free"
    /\ listenersynchro = "free"
    /\ arrived = 0

Main ==
    \/ Add \/ Connect \/ Leave
    \/ Remove \/ RemoveJoined \/ RemoveInCallback
    \/ BufferCommand \/ BufferArgument
    \/ Disconnect \/ DisconnectJoined \/ DisconnectInCallback

Listener ==
    \/ Lock \/ Receive \/ ReceiveTimeout \/ CallbackReturns
    \/ BufferEmpty \/ TakeCommand \/ ArgumentMissing \/ RemoveBuffered

Next == Main \/ Listener \/ Fail \/ Arrive

\* Both threads are scheduled; nothing has to arrive or to fail.
Spec == Init /\ [][Next]_vars /\ WF_vars(Main) /\ WF_vars(Listener)
-----------------------------------------------------------------------------
(***************************************************************************)
(* The socket is closed only when no listener thread is left to read it.   *)
(***************************************************************************)
NoReadAfterClose == main # "add" /\ main # "connect" /\ ~connected => thread = "dead"

(***************************************************************************)
(* An exit() whose remove has found no callback running ends, whatever     *)
(* still arrives: the listener thread sees the signal and dies, and        *)
(* disconnect finds nobody to wait for.                                    *)
(***************************************************************************)
DirectRemoveEnds == main = "removeJoin" ~> main = "done"

=============================================================================
