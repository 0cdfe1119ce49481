-------------------------- MODULE FlushConnection ---------------------------
(***************************************************************************)
(* The connections of the Flush library (libspread/fl.c): threads that     *)
(* call it on one mailbox while others disconnect it. A call reserves the  *)
(* fl_conn, so that FL_disconnect reclaims it only when no call is left;   *)
(* recv_lock admits one reader, conn_lock guards what the calls change and *)
(* is dropped while a reader waits for Spread.                             *)
(*                                                                         *)
(* A mailbox is a descriptor number: when it is closed, the next           *)
(* connection may be given the same. Condition variables do not wake up    *)
(* without a signal here (FL_disconnect does not wait in a loop).          *)
(***************************************************************************)
EXTENDS Naturals, FiniteSets

CONSTANTS FlThread,
          Does,         \* the calls a thread makes
          NoThread,     \* owner of a lock that is free
          MaxConns,     \* bound: connections made
          MaxQueue      \* bound: messages in conn->mess_queue

ASSUME FlConnectionAssumption ==
  IsFiniteSet(FlThread) /\ NoThread \notin FlThread /\ MaxConns \in Nat /\ MaxQueue \in Nat

VARIABLES glob_conns,      \* the fl_conn of the mailbox, or 0
          glob_conns_lock,
          conns,           \* the fl_conn instances; open: its mailbox, to Spread
          made,            \* how many there have been
          call             \* call[t]: the call t is in, and where

flConnVars == <<glob_conns, glob_conns_lock, conns, made, call>>

Idle == [op |-> "none", at |-> "none", conn |-> 0, failed |-> FALSE]
NewConn == [reserve_lock |-> NoThread, conn_lock |-> NoThread, recv_lock |-> NoThread,
            reservations |-> 0, disconnecting |-> FALSE, mess_queue |-> 0,
            open |-> TRUE, broken |-> FALSE, signalled |-> FALSE, freed |-> FALSE]

Stands(t, place) == call[t].at = place
Conn(t) == conns[call[t].conn]
GoTo(t, place) == call' = [call EXCEPT ![t].at = place]
GiveUp(t, place) == call' = [call EXCEPT ![t].at = place, ![t].failed = TRUE]
KeepTable == UNCHANGED <<glob_conns, glob_conns_lock, made>>

-----------------------------------------------------------------------------
(* Connecting, and the calls.                                              *)

FL_connect(t) ==
  /\ Stands(t, "none") /\ "connect" \in Does[t] /\ made < MaxConns
  /\ \A k \in 1 .. made : ~conns[k].open
  /\ glob_conns_lock = NoThread
  /\ made' = made + 1 /\ glob_conns' = made + 1
  /\ conns' = [conns EXCEPT ![made + 1] = NewConn]
  /\ UNCHANGED <<glob_conns_lock, call>>

\* A thread may use a mailbox that is closed, or somebody else's by now.
Begin(t, op) ==
  /\ Stands(t, "none") /\ op \in Does[t] /\ made > 0
  /\ call' = [call EXCEPT ![t] = [Idle EXCEPT !.op = op, !.at = IF op = "disconnect" THEN "erase" ELSE "find"]]
  /\ KeepTable /\ UNCHANGED conns

-----------------------------------------------------------------------------
(* Reservations.                                                           *)

\* Mutant: the table is unlocked before the reserve lock is taken.
LookUpUnlocked(t) ==
  /\ Stands(t, "find") /\ glob_conns_lock = NoThread
  /\ IF glob_conns = 0
     THEN GiveUp(t, "erase")
     ELSE call' = [call EXCEPT ![t].at = "reserve", ![t].conn = glob_conns]
  /\ UNCHANGED <<glob_conns, glob_conns_lock, made, conns>>

\* make_reservation: the mailbox is looked up, and the table stays locked until
\* the reserve lock is taken.
LookUp(t) ==
  /\ Stands(t, "find") /\ glob_conns_lock = NoThread
  /\ IF glob_conns = 0
     THEN GiveUp(t, "erase") /\ UNCHANGED glob_conns_lock
     ELSE /\ call' = [call EXCEPT ![t].at = "reserve", ![t].conn = glob_conns]
          /\ glob_conns_lock' = t
  /\ UNCHANGED <<glob_conns, made, conns>>
Reserve(t) ==
  /\ Stands(t, "reserve") /\ Conn(t).reserve_lock = NoThread
  /\ conns' = [conns EXCEPT ![call[t].conn].reservations = IF Conn(t).disconnecting THEN @ ELSE @ + 1]
  /\ glob_conns_lock' = IF glob_conns_lock = t THEN NoThread ELSE glob_conns_lock
  /\ GoTo(t, "recheck")
  /\ UNCHANGED <<glob_conns, made>>
\* disconnecting is read once more, without the lock: the reservation of a call
\* that finds it set now is never cancelled.
Recheck(t) ==
  /\ Stands(t, "recheck")
  /\ IF Conn(t).disconnecting
     THEN GiveUp(t, "erase")
     ELSE GoTo(t, IF call[t].op = "receive" THEN "recv lock" ELSE "conn lock")
  /\ KeepTable /\ UNCHANGED conns

\* Mutant: the disconnector is not woken.
cancel_reservationSilent(t) ==
  /\ Stands(t, "cancel") /\ Conn(t).reserve_lock = NoThread
  /\ conns' = [conns EXCEPT ![call[t].conn].reservations = @ - 1]
  /\ call' = [call EXCEPT ![t] = IF @.failed THEN [@ EXCEPT !.at = "erase"] ELSE Idle]
  /\ KeepTable

cancel_reservation(t) ==
  /\ Stands(t, "cancel") /\ Conn(t).reserve_lock = NoThread
  /\ conns' = [conns EXCEPT ![call[t].conn].reservations = @ - 1,
                            ![call[t].conn].signalled = Conn(t).reservations = 1 /\ Conn(t).disconnecting]
  /\ call' = [call EXCEPT ![t] = IF @.failed THEN [@ EXCEPT !.at = "erase"] ELSE Idle]
  /\ KeepTable

-----------------------------------------------------------------------------
(* The locks of a connection.                                              *)

AfterFailure(t) == IF Conn(t).recv_lock = t THEN "drop recv" ELSE "cancel"

acquire_conn_lock(t) ==
  /\ Stands(t, "conn lock") /\ Conn(t).conn_lock = NoThread
  /\ IF Conn(t).disconnecting
     THEN GiveUp(t, AfterFailure(t)) /\ UNCHANGED conns
     ELSE GoTo(t, "body") /\ conns' = [conns EXCEPT ![call[t].conn].conn_lock = t]
  /\ KeepTable
release_conn_lock(t) ==
  /\ Stands(t, "unlock")
  /\ conns' = [conns EXCEPT ![call[t].conn].conn_lock = NoThread]
  /\ GoTo(t, AfterFailure(t))
  /\ KeepTable

\* Mutant: readers do not exclude each other.
acquire_recv_lockNot(t) ==
  /\ Stands(t, "recv lock")
  /\ IF Conn(t).disconnecting THEN GiveUp(t, "cancel") ELSE GoTo(t, "conn lock")
  /\ KeepTable /\ UNCHANGED conns

acquire_recv_lock(t) ==
  /\ Stands(t, "recv lock") /\ Conn(t).recv_lock = NoThread
  /\ IF Conn(t).disconnecting
     THEN GiveUp(t, "cancel") /\ UNCHANGED conns
     ELSE GoTo(t, "conn lock") /\ conns' = [conns EXCEPT ![call[t].conn].recv_lock = t]
  /\ KeepTable
release_recv_lock(t) ==
  /\ Stands(t, "drop recv")
  /\ conns' = [conns EXCEPT ![call[t].conn].recv_lock = NoThread]
  /\ GoTo(t, "cancel")
  /\ KeepTable

-----------------------------------------------------------------------------
(* What the calls do.                                                      *)

Works(k) == conns[k].open /\ ~conns[k].broken

\* FL_multicast and the like: one call of Spread.
Multicast(t) ==
  /\ Stands(t, "body") /\ call[t].op = "multicast"
  /\ IF Works(call[t].conn) THEN GoTo(t, "unlock") ELSE GiveUp(t, "unlock")
  /\ KeepTable /\ UNCHANGED conns

\* FL_receive: what is queued comes first.
ReceiveQueued(t) ==
  /\ Stands(t, "body") /\ call[t].op = "receive" /\ Conn(t).mess_queue > 0
  /\ conns' = [conns EXCEPT ![call[t].conn].mess_queue = @ - 1]
  /\ GoTo(t, "unlock")
  /\ KeepTable
\* recv_and_handle: the connection is not locked while Spread is waited for.
WaitForSpread(t) ==
  /\ Stands(t, "body") /\ call[t].op = "receive" /\ Conn(t).mess_queue = 0
  /\ conns' = [conns EXCEPT ![call[t].conn].conn_lock = NoThread]
  /\ GoTo(t, "spread")
  /\ KeepTable
SpreadReturns(t) ==
  /\ Stands(t, "spread") /\ Works(call[t].conn)
  /\ GoTo(t, "handle")
  /\ KeepTable /\ UNCHANGED conns
SpreadFails(t) ==
  /\ Stands(t, "spread") /\ ~Works(call[t].conn)
  /\ GiveUp(t, "drop recv")
  /\ KeepTable /\ UNCHANGED conns
\* Handling a message gives the user nothing, or one message and some to queue.
HandleMessage(t) ==
  /\ Stands(t, "handle") /\ Conn(t).conn_lock = NoThread
  /\ IF Conn(t).disconnecting
     THEN GiveUp(t, AfterFailure(t)) /\ UNCHANGED conns
     ELSE \E given \in {"nothing", "one", "more"} :
            /\ given = "more" => Conn(t).mess_queue < MaxQueue
            /\ conns' = [conns EXCEPT ![call[t].conn].conn_lock = t,
                                      ![call[t].conn].mess_queue = IF given = "more" THEN @ + 1 ELSE @]
            /\ GoTo(t, IF given = "nothing" THEN "body" ELSE "unlock")
  /\ KeepTable

\* The daemon ends the session.
Break(k) ==
  /\ k <= made /\ Works(k)
  /\ conns' = [conns EXCEPT ![k].broken = TRUE]
  /\ KeepTable /\ UNCHANGED call

-----------------------------------------------------------------------------
(* FL_disconnect: called by the user, and by every call that fails.        *)

Erase(t) ==
  /\ Stands(t, "erase") /\ glob_conns_lock = NoThread
  /\ glob_conns' = 0
  /\ call' = [call EXCEPT ![t] = IF glob_conns = 0 THEN Idle
                                 ELSE [@ EXCEPT !.at = "mark", !.conn = glob_conns]]
  /\ UNCHANGED <<glob_conns_lock, made, conns>>
Mark(t) ==
  /\ Stands(t, "mark") /\ Conn(t).reserve_lock = NoThread
  /\ conns' = [conns EXCEPT ![call[t].conn].reserve_lock = t, ![call[t].conn].disconnecting = TRUE]
  /\ GoTo(t, "close")
  /\ KeepTable
Reclaimed == [NewConn EXCEPT !.open = FALSE, !.freed = TRUE]
Close(t) ==
  /\ Stands(t, "close")
  /\ IF Conn(t).reservations = 0
     THEN /\ conns' = [conns EXCEPT ![call[t].conn] = Reclaimed]
          /\ call' = [call EXCEPT ![t] = Idle]
     ELSE /\ conns' = [conns EXCEPT ![call[t].conn].open = FALSE, ![call[t].conn].reserve_lock = NoThread]
          /\ GoTo(t, "wait")
  /\ KeepTable
Reclaim(t) ==
  /\ Stands(t, "wait") /\ Conn(t).signalled /\ Conn(t).reserve_lock = NoThread
  /\ conns' = [conns EXCEPT ![call[t].conn] = Reclaimed]
  /\ call' = [call EXCEPT ![t] = Idle]
  /\ KeepTable

-----------------------------------------------------------------------------
FlConnInit ==
  /\ glob_conns = 0 /\ glob_conns_lock = NoThread /\ made = 0
  /\ conns = [k \in 1 .. MaxConns |-> NewConn]
  /\ call = [t \in FlThread |-> Idle]

\* What a thread does in a call, without waiting for a message.
InCall(t) ==
  \/ LookUp(t) \/ Reserve(t) \/ Recheck(t) \/ cancel_reservation(t)
  \/ acquire_conn_lock(t) \/ release_conn_lock(t)
  \/ acquire_recv_lock(t) \/ release_recv_lock(t)
  \/ Multicast(t) \/ ReceiveQueued(t) \/ WaitForSpread(t) \/ SpreadFails(t) \/ HandleMessage(t)
  \/ Erase(t) \/ Mark(t) \/ Close(t) \/ Reclaim(t)
FlConnNext ==
  \/ \E t \in FlThread : \/ InCall(t) \/ SpreadReturns(t) \/ FL_connect(t)
                         \/ \E op \in {"multicast", "receive", "disconnect"} : Begin(t, op)
  \/ \E k \in 1 .. MaxConns : Break(k)

\* Threads run; messages need not come.
FlConnFairness == \A t \in FlThread : WF_flConnVars(InCall(t))

FlConnSpec == FlConnInit /\ [][FlConnNext]_flConnVars /\ FlConnFairness

-----------------------------------------------------------------------------
(* Properties.                                                             *)

\* No call looks at a connection that FL_disconnect has reclaimed, whichever
\* way looking up, reserving and disconnecting interleave (make_reservation).
ReclaimedUnused ==
  \A t \in FlThread : call[t].at \notin {"none", "find", "erase"} => ~Conn(t).freed

\* Nobody waits for Spread while there are messages in the queue, which would
\* stay there until the next one comes (the comment in FL_scat_receive).
QueueNotPassedBy ==
  \A t \in FlThread : Stands(t, "spread") => Conn(t).mess_queue = 0

\* A disconnect ends once the calls on its connection have ended, unless one of
\* them has left its reservation behind (Recheck).
Reservers(k) ==
  {t \in FlThread : call[t].conn = k /\ call[t].at \in
     {"recheck", "recv lock", "conn lock", "body", "spread", "handle", "unlock", "drop recv", "cancel"}}
LeftBehind(k) == conns[k].reservations > Cardinality({t \in Reservers(k) : ~(Stands(t, "recheck") /\ conns[k].disconnecting)})
DisconnectEnds ==
  \A t \in FlThread, k \in 1 .. MaxConns :
    (Stands(t, "mark") /\ call[t].conn = k) ~> (Stands(t, "none") \/ LeftBehind(k))
=============================================================================
