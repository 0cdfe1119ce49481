----------------------- MODULE FlushConnectionProofs ------------------------
(***************************************************************************)
(* FL_disconnect reclaims a connection that no call uses, and no reader    *)
(* waits for Spread over a queue that is not empty, for any threads, calls *)
(* and bounds.                                                             *)
(***************************************************************************)
EXTENDS FlushConnection, FiniteSetTheorems, TLAPS

(***************************************************************************)
(* Where a call can be: it has not reserved the connection (any more), it  *)
(* is between reserving and cancelling, or it ends the connection.         *)
(***************************************************************************)
Reserving == {"recheck", "recv lock", "conn lock", "body", "spread", "handle", "unlock",
              "drop recv", "cancel"}
Ending == {"mark", "close", "wait"}
Place == {"none", "find", "erase", "reserve"} \cup Reserving \cup Ending

Owner == FlThread \cup {NoThread}

ConnState ==
  [reserve_lock : Owner, conn_lock : Owner, recv_lock : Owner, reservations : Nat,
   disconnecting : BOOLEAN, mess_queue : Nat, open : BOOLEAN, broken : BOOLEAN,
   signalled : BOOLEAN, freed : BOOLEAN]

CallState ==
  [op : {"none", "multicast", "receive", "disconnect"}, at : Place, conn : Nat,
   failed : BOOLEAN]

FlTypeOK ==
  /\ made \in 0 .. MaxConns /\ glob_conns \in 0 .. made
  /\ glob_conns_lock \in Owner
  /\ conns \in [1 .. MaxConns -> ConnState]
  /\ call \in [FlThread -> CallState]

\* A call that has a connection has one that was made.
ConnMade ==
  \A t \in FlThread : call[t].at \in {"reserve"} \cup Reserving \cup Ending =>
                          call[t].conn \in 1 .. made

\* Who is about to reserve keeps the table locked, with the connection in it.
TableHeld ==
  \A t \in FlThread :
    Stands(t, "reserve") => glob_conns_lock = t /\ call[t].conn = glob_conns

\* The connection in the table is nobody's to end; another is one call's at most.
EndedByOne ==
  /\ glob_conns # 0 => ~conns[glob_conns].disconnecting /\ ~conns[glob_conns].freed
  /\ \A t \in FlThread : call[t].at \in Ending => call[t].conn # glob_conns
  /\ \A t, u \in FlThread :
       call[t].at \in Ending /\ call[u].at \in Ending /\ call[t].conn = call[u].conn => t = u

\* Every call that has reserved is counted, and who signals leaves none behind.
ReservationsCounted ==
  \A k \in 1 .. made : Cardinality(Reservers(k)) <= conns[k].reservations
SignalledWhenNone ==
  \A k \in 1 .. made :
    conns[k].signalled => conns[k].disconnecting /\ conns[k].reservations = 0

FlInv ==
  /\ FlTypeOK /\ ConnMade /\ TableHeld /\ EndedByOne
  /\ ReservationsCounted /\ SignalledWhenNone /\ ReclaimedUnused

-----------------------------------------------------------------------------
LEMMA NewConnType == NewConn \in ConnState /\ Reclaimed \in ConnState /\ Idle \in CallState
BY DEF NewConn, Reclaimed, Idle, ConnState, CallState, Owner, Place

\* A call with a reservation is one of finitely many.
LEMMA Counted ==
  ASSUME FlTypeOK, NEW k \in Nat
  PROVE  /\ IsFiniteSet(Reservers(k)) /\ Cardinality(Reservers(k)) \in Nat
         /\ \A t \in Reservers(k) : Cardinality(Reservers(k)) >= 1
<1>1. IsFiniteSet(Reservers(k))
  BY FlConnectionAssumption, FS_Subset DEF Reservers
<1>2. ASSUME NEW t \in Reservers(k) PROVE Cardinality(Reservers(k)) >= 1
  BY <1>1, FS_EmptySet, FS_CardinalityType
<1> QED  BY <1>1, <1>2, FS_CardinalityType

-----------------------------------------------------------------------------
(***************************************************************************)
(* What a step does. Only seven actions touch the table, the reservations  *)
(* or who may end a connection; every other step is a plain one.           *)
(***************************************************************************)
\* t's call moves to a place, the others' calls stay.
Moved(t, place) ==
  /\ call' \in [FlThread -> CallState]
  /\ call'[t].at = place /\ call'[t].conn = call[t].conn /\ call'[t].op = call[t].op
  /\ \A u \in FlThread \ {t} : call'[u] = call[u]

\* Connection k becomes c, the others stay.
Becomes(k, c) ==
  /\ conns' \in [1 .. MaxConns -> ConnState]
  /\ conns'[k] = c /\ \A j \in (1 .. MaxConns) \ {k} : conns'[j] = conns[j]

Alike(c, d) ==
  /\ d.reservations = c.reservations /\ d.disconnecting = c.disconnecting
  /\ d.signalled = c.signalled /\ d.freed = c.freed

AllAlike ==
  /\ conns' \in [1 .. MaxConns -> ConnState]
  /\ \A k \in 1 .. MaxConns : Alike(conns[k], conns'[k])

Plain(t, place) ==
  /\ \/ call[t].at = "none" /\ place \in {"find", "erase"}
     \/ call[t].at \in Reserving \ {"cancel"} /\ place \in Reserving \cup {"erase"}
  /\ call' \in [FlThread -> CallState]
  /\ call'[t].at = place
  /\ place \in Reserving => call'[t].conn = call[t].conn
  /\ \A u \in FlThread \ {t} : call'[u] = call[u]
  /\ AllAlike /\ KeepTable

LEMMA CallMoves ==
  ASSUME call \in [FlThread -> CallState], NEW t \in FlThread, NEW place \in Place,
         GoTo(t, place) \/ GiveUp(t, place)
  PROVE  Moved(t, place)
<1>0. call[t] \in CallState
  OBVIOUS
<1> DEFINE d == [call[t] EXCEPT !.at = place]
           e == [call[t] EXCEPT !.at = place, !.failed = TRUE]
<1>1. /\ d \in CallState /\ d.at = place /\ d.conn = call[t].conn /\ d.op = call[t].op
      /\ e \in CallState /\ e.at = place /\ e.conn = call[t].conn /\ e.op = call[t].op
  BY <1>0 DEF CallState
<1>2. ASSUME GoTo(t, place) PROVE call' = [call EXCEPT ![t] = d]
  BY <1>2 DEF GoTo
<1>3. ASSUME GiveUp(t, place) PROVE call' = [call EXCEPT ![t] = e]
  BY <1>3 DEF GiveUp
<1> HIDE DEF d, e
<1> QED  BY <1>1, <1>2, <1>3 DEF Moved

LEMMA ConnBecomes ==
  ASSUME conns \in [1 .. MaxConns -> ConnState], NEW k \in 1 .. MaxConns,
         NEW c \in ConnState, conns' = [conns EXCEPT ![k] = c]
  PROVE  Becomes(k, c)
BY DEF Becomes

LEMMA AlikeBecomes ==
  ASSUME FlTypeOK, NEW k \in 1 .. MaxConns, NEW c \in ConnState,
         conns' = [conns EXCEPT ![k] = c], Alike(conns[k], c)
  PROVE  AllAlike
BY ConnBecomes DEF FlTypeOK, Becomes, AllAlike, Alike

\* The steps that take or drop a lock, or leave the connection alone.
LEMMA PlainSteps ==
  ASSUME FlTypeOK, ConnMade, NEW t \in FlThread,
         \/ Recheck(t) \/ acquire_conn_lock(t) \/ release_conn_lock(t)
         \/ acquire_recv_lock(t) \/ release_recv_lock(t)
         \/ Multicast(t) \/ ReceiveQueued(t) \/ WaitForSpread(t) \/ SpreadReturns(t)
         \/ SpreadFails(t) \/ HandleMessage(t)
         \/ \E op \in {"multicast", "receive", "disconnect"} : Begin(t, op)
  PROVE  \E place \in Place : Plain(t, place)
<1> DEFINE k == call[t].conn
           Goal == \E place \in Place : Plain(t, place)
<1>0. /\ call \in [FlThread -> CallState] /\ conns \in [1 .. MaxConns -> ConnState]
      /\ call[t].at \in Reserving => k \in 1 .. MaxConns
      /\ \A p \in Reserving \cup {"erase", "find"} : p \in Place
  BY FlConnectionAssumption DEF FlTypeOK, ConnMade, Place
<1>1. ASSUME NEW place \in Reserving \cup {"erase"}, GoTo(t, place) \/ GiveUp(t, place),
             call[t].at \in Reserving \ {"cancel"}, AllAlike, KeepTable
      PROVE  Goal
  BY <1>0, <1>1, CallMoves DEF Plain, Moved
<1>2. ASSUME conns' = conns PROVE AllAlike
  BY <1>0, <1>2 DEF AllAlike, Alike
<1>3. ASSUME call[t].at \in Reserving, NEW c, conns' = [conns EXCEPT ![k] = c],
             c \in ConnState, Alike(conns[k], c)
      PROVE  AllAlike
  BY <1>0, <1>3, AlikeBecomes
<1>4. ASSUME call[t].at \in Reserving
      PROVE  /\ conns[k] \in ConnState
             /\ \A o \in Owner : [conns[k] EXCEPT !.conn_lock = o] \in ConnState
             /\ \A o \in Owner : Alike(conns[k], [conns[k] EXCEPT !.conn_lock = o])
             /\ \A o \in Owner : [conns[k] EXCEPT !.recv_lock = o] \in ConnState
             /\ \A o \in Owner : Alike(conns[k], [conns[k] EXCEPT !.recv_lock = o])
             /\ \A n \in Nat : [conns[k] EXCEPT !.mess_queue = n] \in ConnState
             /\ \A n \in Nat : Alike(conns[k], [conns[k] EXCEPT !.mess_queue = n])
             /\ \A o \in Owner, n \in Nat :
                  /\ [conns[k] EXCEPT !.conn_lock = o, !.mess_queue = n] \in ConnState
                  /\ Alike(conns[k], [conns[k] EXCEPT !.conn_lock = o, !.mess_queue = n])
  BY <1>0, <1>4, ZenonT(40) DEF ConnState, Alike
<1>5. t \in Owner /\ NoThread \in Owner
  BY DEF Owner
<1>q. call[t].at \in Reserving => conns[k].mess_queue \in Nat
  BY <1>0 DEF ConnState
<1>6. CASE Recheck(t)
  BY <1>1, <1>2, <1>6 DEF Recheck, Stands, Reserving
<1>7. CASE acquire_conn_lock(t)
  <2>1. call[t].at = "conn lock" /\ call[t].at \in Reserving \ {"cancel"}
    BY <1>7 DEF acquire_conn_lock, Stands, Reserving
  <2>2. AllAlike
    <3>1. \/ conns' = conns
          \/ conns' = [conns EXCEPT ![k] = [conns[k] EXCEPT !.conn_lock = t]]
      BY <1>7 DEF acquire_conn_lock
    <3> QED  BY <1>2, <1>3, <1>4, <1>5, <2>1, <3>1
  <2> QED  BY <1>1, <1>7, <2>1, <2>2 DEF acquire_conn_lock, AfterFailure, Reserving
<1>8. CASE release_conn_lock(t)
  <2>1. call[t].at = "unlock" /\ call[t].at \in Reserving \ {"cancel"}
    BY <1>8 DEF release_conn_lock, Stands, Reserving
  <2>2. conns' = [conns EXCEPT ![k] = [conns[k] EXCEPT !.conn_lock = NoThread]]
    BY <1>8 DEF release_conn_lock
  <2>3. AllAlike
    BY <1>3, <1>4, <1>5, <2>1, <2>2
  <2> QED  BY <1>1, <1>8, <2>1, <2>3 DEF release_conn_lock, AfterFailure, Reserving
<1>9. CASE acquire_recv_lock(t)
  <2>1. call[t].at = "recv lock" /\ call[t].at \in Reserving \ {"cancel"}
    BY <1>9, ZenonT(40) DEF acquire_recv_lock, Stands, Reserving
  <2>2. AllAlike
    <3>1. \/ conns' = conns
          \/ conns' = [conns EXCEPT ![k] = [conns[k] EXCEPT !.recv_lock = t]]
      BY <1>9 DEF acquire_recv_lock
    <3> QED  BY <1>2, <1>3, <1>4, <1>5, <2>1, <3>1
  <2> QED  BY <1>1, <1>9, <2>1, <2>2 DEF acquire_recv_lock, Reserving
<1>10. CASE release_recv_lock(t)
  <2>1. call[t].at = "drop recv" /\ call[t].at \in Reserving \ {"cancel"}
    BY <1>10 DEF release_recv_lock, Stands, Reserving
  <2>2. conns' = [conns EXCEPT ![k] = [conns[k] EXCEPT !.recv_lock = NoThread]]
    BY <1>10, ZenonT(40) DEF release_recv_lock
  <2>3. AllAlike
    BY <1>3, <1>4, <1>5, <2>1, <2>2
  <2> QED  BY <1>1, <1>10, <2>1, <2>3 DEF release_recv_lock, Reserving
<1>11. CASE Multicast(t)
  BY <1>1, <1>2, <1>11 DEF Multicast, Stands, Reserving
<1>12. CASE ReceiveQueued(t)
  <2>1. call[t].at = "body" /\ call[t].at \in Reserving \ {"cancel"}
    BY <1>12 DEF ReceiveQueued, Stands, Reserving
  <2>2. conns' = [conns EXCEPT ![k] = [conns[k] EXCEPT !.mess_queue = conns[k].mess_queue - 1]]
    BY <1>12 DEF ReceiveQueued
  <2>3. conns[k].mess_queue - 1 \in Nat
    BY <1>q, <1>12, <2>1, SMTT(30) DEF ReceiveQueued, Conn
  <2>4. AllAlike
    BY <1>3, <1>4, <2>1, <2>2, <2>3, ZenonT(40)
  <2> QED  BY <1>1, <1>12, <2>1, <2>4 DEF ReceiveQueued, Reserving
<1>13. CASE WaitForSpread(t)
  <2>1. call[t].at = "body" /\ call[t].at \in Reserving \ {"cancel"}
    BY <1>13 DEF WaitForSpread, Stands, Reserving
  <2>2. conns' = [conns EXCEPT ![k] = [conns[k] EXCEPT !.conn_lock = NoThread]]
    BY <1>13 DEF WaitForSpread
  <2>3. AllAlike
    BY <1>3, <1>4, <1>5, <2>1, <2>2
  <2> QED  BY <1>1, <1>13, <2>1, <2>3 DEF WaitForSpread, Reserving
<1>14. CASE SpreadReturns(t) \/ SpreadFails(t)
  BY <1>1, <1>2, <1>14 DEF SpreadReturns, SpreadFails, Stands, Reserving
<1>15. CASE HandleMessage(t)
  <2>1. call[t].at = "handle" /\ call[t].at \in Reserving \ {"cancel"}
    BY <1>15 DEF HandleMessage, Stands, Reserving
  <2>2. conns[k].mess_queue \in Nat /\ conns[k].mess_queue + 1 \in Nat
    BY <1>q, <2>1
  <2>3. \/ conns' = conns
        \/ \E n \in {conns[k].mess_queue, conns[k].mess_queue + 1} :
             conns' = [conns EXCEPT ![k] = [conns[k] EXCEPT !.conn_lock = t, !.mess_queue = n]]
    BY <1>0, <1>15, <2>1 DEF HandleMessage
  <2>4. ASSUME NEW n \in Nat, conns' = [conns EXCEPT ![k] = [conns[k] EXCEPT !.conn_lock = t,
                                                                           !.mess_queue = n]]
        PROVE  AllAlike
    BY <1>3, <1>4, <1>5, <2>1, <2>4
  <2>5. AllAlike
    BY <1>2, <2>2, <2>3, <2>4
  <2> QED  BY <1>1, <1>15, <2>1, <2>5 DEF HandleMessage, AfterFailure, Reserving
<1>16. ASSUME NEW op \in {"multicast", "receive", "disconnect"}, Begin(t, op)
       PROVE  Goal
  <2> DEFINE place == IF op = "disconnect" THEN "erase" ELSE "find"
  <2>1. [Idle EXCEPT !.op = op, !.at = place] \in CallState
    BY DEF Idle, CallState, Place
  <2>2. [Idle EXCEPT !.op = op, !.at = place].at = place
    BY DEF Idle
  <2>3. /\ call' = [call EXCEPT ![t] = [Idle EXCEPT !.op = op, !.at = place]]
        /\ call[t].at = "none" /\ AllAlike /\ KeepTable
    BY <1>2, <1>16 DEF Begin, Stands
  <2>4. place \in {"find", "erase"} /\ place \in Place /\ place \notin Reserving
    BY <1>0 DEF Reserving
  <2>5. Plain(t, place)
    BY <1>0, <2>1, <2>2, <2>3, <2>4 DEF Plain
  <2> QED  BY <2>4, <2>5
<1> QED  BY <1>6, <1>7, <1>8, <1>9, <1>10, <1>11, <1>12, <1>13, <1>14, <1>15, <1>16

Connects ==
  /\ made < MaxConns /\ glob_conns_lock = NoThread
  /\ made' = made + 1 /\ glob_conns' = made + 1
  /\ Becomes(made + 1, NewConn)
  /\ UNCHANGED <<glob_conns_lock, call>>

\* The other calls stay.
Alone(t) ==
  call' \in [FlThread -> CallState] /\ \A u \in FlThread \ {t} : call'[u] = call[u]

LooksUp(t) ==
  /\ Stands(t, "find") /\ glob_conns_lock = NoThread
  /\ Alone(t)
  /\ \/ call'[t].at = "erase" /\ UNCHANGED glob_conns_lock
     \/ /\ glob_conns # 0 /\ glob_conns_lock' = t
        /\ call'[t].at = "reserve" /\ call'[t].conn = glob_conns
  /\ UNCHANGED <<glob_conns, made, conns>>

Reserves(t) ==
  /\ Stands(t, "reserve") /\ Moved(t, "recheck")
  /\ \E c \in ConnState :
       /\ Becomes(call[t].conn, c)
       /\ c.reservations = IF Conn(t).disconnecting THEN Conn(t).reservations
                           ELSE Conn(t).reservations + 1
       /\ c.disconnecting = Conn(t).disconnecting
       /\ c.signalled = Conn(t).signalled /\ c.freed = Conn(t).freed
  /\ glob_conns_lock' = IF glob_conns_lock = t THEN NoThread ELSE glob_conns_lock
  /\ UNCHANGED <<glob_conns, made>>

Cancels(t) ==
  /\ Stands(t, "cancel") /\ Alone(t) /\ call'[t].at \in {"none", "erase"}
  /\ \E c \in ConnState :
       /\ Becomes(call[t].conn, c)
       /\ c.reservations = Conn(t).reservations - 1
       /\ c.signalled => c.reservations = 0 /\ c.disconnecting
       /\ c.disconnecting = Conn(t).disconnecting /\ c.freed = Conn(t).freed
  /\ KeepTable

Erases(t) ==
  /\ Stands(t, "erase") /\ glob_conns_lock = NoThread
  /\ glob_conns' = 0
  /\ Alone(t)
  /\ \/ call'[t].at = "none"
     \/ glob_conns # 0 /\ call'[t].at = "mark" /\ call'[t].conn = glob_conns
  /\ UNCHANGED <<glob_conns_lock, made, conns>>

Ends(t, place) ==
  /\ \/ call[t].at = "mark" /\ place = "close"
     \/ call[t].at = "close" /\ place = "wait"
  /\ Moved(t, place)
  /\ \E c \in ConnState :
       /\ Becomes(call[t].conn, c)
       /\ c.reservations = Conn(t).reservations /\ c.signalled = Conn(t).signalled
       /\ Conn(t).disconnecting => c.disconnecting
       /\ c.freed = Conn(t).freed
  /\ KeepTable

Reclaims(t) ==
  /\ \/ call[t].at = "close" /\ Conn(t).reservations = 0
     \/ call[t].at = "wait" /\ Conn(t).signalled
  /\ Alone(t) /\ call'[t].at = "none"
  /\ Becomes(call[t].conn, Reclaimed)
  /\ KeepTable

LEMMA TableSteps ==
  ASSUME FlTypeOK, ConnMade, ReservationsCounted, NEW t \in FlThread
  PROVE  /\ FL_connect(t) => Connects
         /\ LookUp(t) => LooksUp(t)
         /\ Reserve(t) => Reserves(t)
         /\ cancel_reservation(t) => Cancels(t)
         /\ Erase(t) => Erases(t)
         /\ Mark(t) => Ends(t, "close")
         /\ Close(t) => Ends(t, "wait") \/ Reclaims(t)
         /\ Reclaim(t) => Reclaims(t)
<1> DEFINE k == call[t].conn
<1>0. /\ call \in [FlThread -> CallState] /\ conns \in [1 .. MaxConns -> ConnState]
      /\ call[t] \in CallState
      /\ made \in 0 .. MaxConns /\ MaxConns \in Nat /\ made \in Nat
      /\ glob_conns \in Nat
      /\ call[t].at \in {"reserve"} \cup Reserving \cup Ending => k \in 1 .. MaxConns
  BY FlConnectionAssumption DEF FlTypeOK, ConnMade
<1>1. ASSUME NEW d \in CallState, call' = [call EXCEPT ![t] = d]
      PROVE  Alone(t) /\ call'[t] = d
  BY <1>0, <1>1 DEF Alone
<1>2. /\ Idle.at = "none"
      /\ [call[t] EXCEPT !.at = "erase"] \in CallState
      /\ [call[t] EXCEPT !.at = "erase"].at = "erase"
      /\ [call[t] EXCEPT !.at = "erase", !.failed = TRUE] \in CallState
      /\ [call[t] EXCEPT !.at = "erase", !.failed = TRUE].at = "erase"
      /\ [call[t] EXCEPT !.at = "reserve", !.conn = glob_conns] \in CallState
      /\ [call[t] EXCEPT !.at = "reserve", !.conn = glob_conns].at = "reserve"
      /\ [call[t] EXCEPT !.at = "reserve", !.conn = glob_conns].conn = glob_conns
      /\ [call[t] EXCEPT !.at = "mark", !.conn = glob_conns] \in CallState
      /\ [call[t] EXCEPT !.at = "mark", !.conn = glob_conns].at = "mark"
      /\ [call[t] EXCEPT !.at = "mark", !.conn = glob_conns].conn = glob_conns
  BY <1>0 DEF Idle, CallState, Place, Ending
<1>t. k \in 1 .. MaxConns =>
        /\ Conn(t) = conns[k] /\ conns[k] \in ConnState
        /\ conns[k].reservations \in Nat /\ conns[k].disconnecting \in BOOLEAN
  <2>1. k \in 1 .. MaxConns => Conn(t) = conns[k] /\ conns[k] \in ConnState
    BY <1>0 DEF Conn
  <2> QED  BY <2>1 DEF ConnState
<1>3. FL_connect(t) => Connects
  <2>1. ASSUME FL_connect(t) PROVE Becomes(made + 1, NewConn)
    <3>1. made + 1 \in 1 .. MaxConns /\ conns' = [conns EXCEPT ![made + 1] = NewConn]
      BY <1>0, <2>1 DEF FL_connect
    <3> QED  BY <1>0, <3>1, NewConnType, ConnBecomes
  <2> QED  BY <2>1 DEF FL_connect, Connects
<1>4. ASSUME LookUp(t) PROVE LooksUp(t)
  <2>1. CASE glob_conns = 0
    <3>1. call' = [call EXCEPT ![t] = [call[t] EXCEPT !.at = "erase", !.failed = TRUE]]
      BY <1>4, <2>1 DEF LookUp, GiveUp
    <3>2. Alone(t) /\ call'[t].at = "erase"
      BY <1>1, <1>2, <3>1
    <3> QED  BY <1>4, <2>1, <3>2 DEF LookUp, LooksUp
  <2>2. CASE glob_conns # 0
    <3>1. call' = [call EXCEPT ![t] = [call[t] EXCEPT !.at = "reserve", !.conn = glob_conns]]
      BY <1>4, <2>2 DEF LookUp
    <3>2. Alone(t) /\ call'[t].at = "reserve" /\ call'[t].conn = glob_conns
      BY <1>1, <1>2, <3>1
    <3> QED  BY <1>4, <2>2, <3>2 DEF LookUp, LooksUp
  <2> QED  BY <2>1, <2>2
<1>5. ASSUME Reserve(t) PROVE Reserves(t)
  <2> DEFINE c == [conns[k] EXCEPT !.reservations =
                     IF Conn(t).disconnecting THEN conns[k].reservations
                     ELSE conns[k].reservations + 1]
  <2>1. k \in 1 .. MaxConns /\ "recheck" \in Place
    BY <1>0, <1>5 DEF Reserve, Stands, Place, Reserving
  <2>2. /\ c \in ConnState
        /\ c.reservations = IF Conn(t).disconnecting THEN Conn(t).reservations
                            ELSE Conn(t).reservations + 1
        /\ c.disconnecting = Conn(t).disconnecting
        /\ c.signalled = Conn(t).signalled /\ c.freed = Conn(t).freed
    BY <1>t, <2>1 DEF ConnState
  <2>3. conns' = [conns EXCEPT ![k] = c]
    BY <1>5 DEF Reserve
  <2> HIDE DEF c
  <2>4. Becomes(k, c) /\ Moved(t, "recheck")
    BY <1>0, <1>5, <2>1, <2>2, <2>3, ConnBecomes, CallMoves DEF Reserve
  <2> QED  BY <1>5, <2>2, <2>4 DEF Reserve, Reserves
<1>6. ASSUME cancel_reservation(t) PROVE Cancels(t)
  <2> DEFINE last == Conn(t).reservations = 1 /\ Conn(t).disconnecting
             c == [conns[k] EXCEPT !.reservations = conns[k].reservations - 1,
                                   !.signalled = last]
  <2>1. k \in 1 .. made /\ k \in 1 .. MaxConns /\ t \in Reservers(k)
    BY <1>0, <1>6 DEF cancel_reservation, Stands, Reserving, Reservers, ConnMade
  <2>2. conns[k].reservations >= 1 /\ conns[k].reservations \in Nat /\ conns[k] \in ConnState
    <3>1. k \in Nat /\ Cardinality(Reservers(k)) <= conns[k].reservations
      BY <1>0, <2>1 DEF ReservationsCounted
    <3>2. Cardinality(Reservers(k)) \in Nat /\ Cardinality(Reservers(k)) >= 1
      BY <2>1, <3>1, Counted
    <3> QED  BY <1>t, <2>1, <3>1, <3>2
  <2>3. /\ c \in ConnState
        /\ c.reservations = Conn(t).reservations - 1
        /\ c.signalled => c.reservations = 0 /\ c.disconnecting
        /\ c.disconnecting = Conn(t).disconnecting /\ c.freed = Conn(t).freed
    <3>1. conns[k].reservations - 1 \in Nat
      BY <2>2
    <3>2. /\ last \in BOOLEAN
          /\ last => conns[k].reservations - 1 = 0 /\ conns[k].disconnecting
      BY <1>t, <2>1
    <3> HIDE DEF last
    <3>3. /\ c \in ConnState
          /\ c.reservations = conns[k].reservations - 1 /\ c.signalled = last
          /\ c.disconnecting = conns[k].disconnecting /\ c.freed = conns[k].freed
      BY <1>t, <2>1, <3>1, <3>2 DEF ConnState
    <3> HIDE DEF c
    <3> QED  BY <1>t, <2>1, <3>2, <3>3
  <2>4. conns' = [conns EXCEPT ![k] = c]
    BY <1>6 DEF cancel_reservation
  <2> HIDE DEF c
  <2>5. Becomes(k, c)
    BY <1>0, <2>1, <2>3, <2>4, ConnBecomes
  <2>6. Alone(t) /\ call'[t].at \in {"none", "erase"}
    <3>1. call' = [call EXCEPT ![t] = IF call[t].failed THEN [call[t] EXCEPT !.at = "erase"]
                                      ELSE Idle]
      BY <1>6 DEF cancel_reservation
    <3>2. CASE call[t].failed
      BY <1>1, <1>2, <3>1, <3>2
    <3>3. CASE ~call[t].failed
      BY <1>1, <1>2, <3>1, <3>3, NewConnType
    <3> QED  BY <3>2, <3>3
  <2> QED  BY <1>6, <2>3, <2>5, <2>6 DEF cancel_reservation, Cancels
<1>7. ASSUME Erase(t) PROVE Erases(t)
  <2>1. CASE glob_conns = 0
    <3>1. call' = [call EXCEPT ![t] = Idle]
      BY <1>7, <2>1 DEF Erase
    <3> QED  BY <1>1, <1>2, <1>7, <3>1, NewConnType DEF Erase, Erases
  <2>2. CASE glob_conns # 0
    <3>1. call' = [call EXCEPT ![t] = [call[t] EXCEPT !.at = "mark", !.conn = glob_conns]]
      BY <1>7, <2>2 DEF Erase
    <3> QED  BY <1>1, <1>2, <1>7, <2>2, <3>1 DEF Erase, Erases
  <2> QED  BY <2>1, <2>2
<1>8. ASSUME Mark(t) PROVE Ends(t, "close")
  <2> DEFINE c == [conns[k] EXCEPT !.reserve_lock = t, !.disconnecting = TRUE]
  <2>1. k \in 1 .. MaxConns /\ "close" \in Place /\ call[t].at = "mark"
    BY <1>0, <1>8 DEF Mark, Stands, Place, Ending
  <2>2. /\ c \in ConnState
        /\ c.reservations = Conn(t).reservations /\ c.signalled = Conn(t).signalled
        /\ c.disconnecting /\ c.freed = Conn(t).freed
    BY <1>t, <2>1 DEF ConnState, Owner
  <2>3. conns' = [conns EXCEPT ![k] = c]
    BY <1>8 DEF Mark
  <2> HIDE DEF c
  <2>4. Becomes(k, c) /\ Moved(t, "close")
    BY <1>0, <1>8, <2>1, <2>2, <2>3, ConnBecomes, CallMoves DEF Mark
  <2> QED  BY <1>8, <2>1, <2>2, <2>4 DEF Mark, Ends
<1>9. ASSUME Close(t) PROVE Ends(t, "wait") \/ Reclaims(t)
  <2>1. k \in 1 .. MaxConns /\ "wait" \in Place /\ call[t].at = "close"
    BY <1>0, <1>9 DEF Close, Stands, Place, Ending
  <2>2. CASE Conn(t).reservations = 0
    <3>1. conns' = [conns EXCEPT ![k] = Reclaimed] /\ call' = [call EXCEPT ![t] = Idle]
      BY <1>9, <2>2 DEF Close
    <3>2. Becomes(k, Reclaimed)
      BY <1>0, <2>1, <3>1, NewConnType, ConnBecomes
    <3> QED  BY <1>1, <1>2, <1>9, <2>1, <2>2, <3>1, <3>2, NewConnType DEF Close, Reclaims
  <2>3. CASE Conn(t).reservations # 0
    <3> DEFINE c == [conns[k] EXCEPT !.open = FALSE, !.reserve_lock = NoThread]
    <3>1. /\ c \in ConnState
          /\ c.reservations = Conn(t).reservations /\ c.signalled = Conn(t).signalled
          /\ c.disconnecting = Conn(t).disconnecting /\ c.freed = Conn(t).freed
      BY <1>t, <2>1 DEF ConnState, Owner
    <3>2. conns' = [conns EXCEPT ![k] = c]
      BY <1>9, <2>3 DEF Close
    <3> HIDE DEF c
    <3>3. Becomes(k, c) /\ Moved(t, "wait")
      BY <1>0, <1>9, <2>1, <2>3, <3>1, <3>2, ConnBecomes, CallMoves DEF Close
    <3> QED  BY <1>9, <2>1, <3>1, <3>3 DEF Close, Ends
  <2> QED  BY <2>2, <2>3
<1>10. ASSUME Reclaim(t) PROVE Reclaims(t)
  <2>1. k \in 1 .. MaxConns /\ call[t].at = "wait"
    BY <1>0, <1>10 DEF Reclaim, Stands, Ending
  <2>2. conns' = [conns EXCEPT ![k] = Reclaimed] /\ call' = [call EXCEPT ![t] = Idle]
    BY <1>10 DEF Reclaim
  <2>3. Becomes(k, Reclaimed)
    BY <1>0, <2>1, <2>2, NewConnType, ConnBecomes
  <2> QED  BY <1>1, <1>2, <1>10, <2>1, <2>2, <2>3, NewConnType DEF Reclaim, Reclaims
<1> QED  BY <1>3, <1>4, <1>5, <1>6, <1>7, <1>8, <1>9, <1>10

LEMMA FlSteps ==
  ASSUME FlTypeOK, ConnMade, ReservationsCounted, [FlConnNext]_flConnVars
  PROVE  \/ AllAlike /\ KeepTable /\ UNCHANGED call
         \/ Connects
         \/ \E t \in FlThread :
              \/ \E place \in Place : Plain(t, place)
              \/ LooksUp(t) \/ Reserves(t) \/ Cancels(t) \/ Erases(t)
              \/ \E place \in {"close", "wait"} : Ends(t, place)
              \/ Reclaims(t)
<1>1. ASSUME UNCHANGED conns PROVE AllAlike
  BY <1>1 DEF AllAlike, Alike, FlTypeOK
<1>2. ASSUME NEW k \in 1 .. MaxConns, Break(k)
      PROVE  AllAlike /\ KeepTable /\ UNCHANGED call
  <2>1. conns[k] \in ConnState
    BY DEF FlTypeOK
  <2>2. /\ [conns[k] EXCEPT !.broken = TRUE] \in ConnState
        /\ Alike(conns[k], [conns[k] EXCEPT !.broken = TRUE])
    BY <2>1 DEF ConnState, Alike
  <2>3. conns' = [conns EXCEPT ![k] = [conns[k] EXCEPT !.broken = TRUE]]
    BY <1>2 DEF Break
  <2> QED  BY <1>2, <2>2, <2>3, AlikeBecomes DEF Break
<1>3. CASE UNCHANGED flConnVars
  BY <1>1, <1>3 DEF flConnVars, KeepTable
<1>4. ASSUME NEW t \in FlThread, InCall(t)
      PROVE  \/ \E place \in Place : Plain(t, place)
             \/ LooksUp(t) \/ Reserves(t) \/ Cancels(t) \/ Erases(t)
             \/ \E place \in {"close", "wait"} : Ends(t, place)
             \/ Reclaims(t)
  BY <1>4, PlainSteps, TableSteps DEF InCall
<1>5. ASSUME NEW t \in FlThread, SpreadReturns(t) \/ FL_connect(t)
                 \/ \E op \in {"multicast", "receive", "disconnect"} : Begin(t, op)
      PROVE  Connects \/ \E place \in Place : Plain(t, place)
  BY <1>5, PlainSteps, TableSteps
<1> QED  BY <1>2, <1>3, <1>4, <1>5 DEF FlConnNext

LEMMA FlTypeStep ==
  ASSUME FlInv, [FlConnNext]_flConnVars
  PROVE  FlTypeOK'
<1>0. /\ call \in [FlThread -> CallState] /\ conns \in [1 .. MaxConns -> ConnState]
      /\ made \in 0 .. MaxConns /\ glob_conns \in 0 .. made /\ glob_conns_lock \in Owner
      /\ MaxConns \in Nat /\ NoThread \in Owner /\ FlThread \subseteq Owner
      /\ FlTypeOK /\ ConnMade /\ ReservationsCounted
  BY FlConnectionAssumption DEF FlInv, FlTypeOK, Owner
<1>1. CASE AllAlike /\ KeepTable /\ UNCHANGED call
  BY <1>0, <1>1 DEF AllAlike, KeepTable, FlTypeOK
<1>2. CASE Connects
  <2>1. made + 1 \in 0 .. MaxConns /\ made + 1 \in 0 .. made + 1
    BY <1>0, <1>2 DEF Connects
  <2> QED  BY <1>0, <1>2, <2>1 DEF Connects, Becomes, FlTypeOK
<1>3. ASSUME NEW t \in FlThread,
             \/ \E place \in Place : Plain(t, place)
             \/ LooksUp(t) \/ Reserves(t) \/ Cancels(t) \/ Erases(t)
             \/ \E place \in {"close", "wait"} : Ends(t, place)
             \/ Reclaims(t)
      PROVE  FlTypeOK'
  <2>1. /\ call' \in [FlThread -> CallState] /\ conns' \in [1 .. MaxConns -> ConnState]
        /\ made' = made /\ glob_conns' \in {glob_conns, 0}
        /\ glob_conns_lock' \in {glob_conns_lock, t, NoThread}
    BY <1>0, <1>3 DEF Plain, LooksUp, Reserves, Cancels, Erases, Ends, Reclaims, Alone,
                      Moved, AllAlike, Becomes, KeepTable
  <2>2. glob_conns' \in 0 .. made
    BY <1>0, <2>1
  <2> QED  BY <1>0, <2>1, <2>2 DEF FlTypeOK
<1> QED  BY <1>0, <1>1, <1>2, <1>3, FlSteps

LEMMA ConnMadeStep ==
  ASSUME FlInv, [FlConnNext]_flConnVars
  PROVE  ConnMade'
<1> SUFFICES ASSUME NEW u \in FlThread,
                    call'[u].at \in {"reserve"} \cup Reserving \cup Ending
             PROVE  call'[u].conn \in 1 .. made'
  BY DEF ConnMade
<1>0. /\ made \in Nat /\ glob_conns \in 0 .. made
      /\ FlTypeOK /\ ConnMade /\ ReservationsCounted
      /\ call[u].at \in {"reserve"} \cup Reserving \cup Ending => call[u].conn \in 1 .. made
  BY FlConnectionAssumption DEF FlInv, FlTypeOK, ConnMade
<1>1. CASE UNCHANGED call
  <2>1. made' \in {made, made + 1}
    BY <1>0, FlSteps DEF Plain, LooksUp, Reserves, Cancels, Erases, Ends, Reclaims,
                         KeepTable, Connects
  <2> QED  BY <1>0, <1>1, <2>1
<1>2. ASSUME NEW t \in FlThread,
             \/ \E place \in Place : Plain(t, place)
             \/ LooksUp(t) \/ Reserves(t) \/ Cancels(t) \/ Erases(t)
             \/ \E place \in {"close", "wait"} : Ends(t, place)
             \/ Reclaims(t)
      PROVE  call'[u].conn \in 1 .. made'
  <2>1. made' = made
    BY <1>2 DEF Plain, LooksUp, Reserves, Cancels, Erases, Ends, Reclaims, KeepTable
  <2>2. CASE u # t
    <3>1. call'[u] = call[u]
      BY <1>2, <2>2 DEF Plain, LooksUp, Reserves, Cancels, Erases, Ends, Reclaims, Moved, Alone
    <3> QED  BY <1>0, <2>1, <3>1
  <2>3. CASE u = t
    <3>1. \/ /\ call'[t].conn = call[t].conn
             /\ call[t].at \in {"reserve"} \cup Reserving \cup Ending
          \/ glob_conns # 0 /\ call'[t].conn = glob_conns
      <4>1. ASSUME NEW place \in Place, Plain(t, place)
            PROVE  call'[t].conn = call[t].conn /\ call[t].at \in Reserving
        BY <2>3, <4>1 DEF Plain, Reserving, Ending
      <4>2. ASSUME Cancels(t) \/ Reclaims(t)
            PROVE  FALSE
        BY <2>3, <4>2 DEF Cancels, Reclaims, Reserving, Ending
      <4> QED  BY <1>2, <2>3, <4>1, <4>2 DEF LooksUp, Reserves, Erases, Ends, Moved, Stands,
                                             Reserving, Ending
    <3> QED  BY <1>0, <2>1, <2>3, <3>1
  <2> QED  BY <2>2, <2>3
<1> QED  BY <1>0, <1>1, <1>2, FlSteps DEF Connects

LEMMA TableHeldStep ==
  ASSUME FlInv, [FlConnNext]_flConnVars
  PROVE  TableHeld'
<1> SUFFICES ASSUME NEW u \in FlThread, call'[u].at = "reserve"
             PROVE  glob_conns_lock' = u /\ call'[u].conn = glob_conns'
  BY DEF TableHeld, Stands
<1>0. /\ NoThread \notin FlThread
      /\ FlTypeOK /\ ConnMade /\ ReservationsCounted
      /\ \A w \in FlThread : call[w].at = "reserve" =>
                               glob_conns_lock = w /\ call[w].conn = glob_conns
  BY FlConnectionAssumption DEF FlInv, TableHeld, Stands
<1>1. CASE (AllAlike /\ KeepTable /\ UNCHANGED call) \/ Connects
  BY <1>0, <1>1 DEF KeepTable, Connects
<1>2. ASSUME NEW t \in FlThread, NEW place \in Place, Plain(t, place)
      PROVE  glob_conns_lock' = u /\ call'[u].conn = glob_conns'
  <2>1. place # "reserve"
    BY <1>2 DEF Plain, Reserving
  <2>2. u # t
    BY <1>2, <2>1 DEF Plain
  <2> QED  BY <1>0, <1>2, <2>2 DEF Plain, KeepTable
<1>3. ASSUME NEW t \in FlThread, LooksUp(t) \/ Erases(t)
      PROVE  glob_conns_lock' = u /\ call'[u].conn = glob_conns'
  BY <1>0, <1>3 DEF LooksUp, Erases, Alone
<1>4. ASSUME NEW t \in FlThread, Reserves(t) \/ Cancels(t) \/ Reclaims(t)
      PROVE  glob_conns_lock' = u /\ call'[u].conn = glob_conns'
  BY <1>0, <1>4 DEF Reserves, Cancels, Reclaims, Stands, Moved, Alone, KeepTable
<1>5. ASSUME NEW t \in FlThread, NEW place \in {"close", "wait"}, Ends(t, place)
      PROVE  glob_conns_lock' = u /\ call'[u].conn = glob_conns'
  BY <1>0, <1>5 DEF Ends, Moved, KeepTable
<1> QED  BY <1>0, <1>1, <1>2, <1>3, <1>4, <1>5, FlSteps

\* An ending call is about another connection than the table's.
LEMMA EndedByOneStep ==
  ASSUME FlInv, [FlConnNext]_flConnVars
  PROVE  EndedByOne'
<1> DEFINE InTable == glob_conns' # 0 =>
                        /\ ~conns'[glob_conns'].disconnecting /\ ~conns'[glob_conns'].freed
           Off(u) == call'[u].at \in Ending => call'[u].conn # glob_conns'
           One(u, w) == call'[u].at \in Ending /\ call'[w].at \in Ending
                          /\ call'[u].conn = call'[w].conn => u = w
           Goal == InTable /\ \A u, w \in FlThread : Off(u) /\ One(u, w)
<1>0. /\ MaxConns \in Nat /\ made \in 0 .. MaxConns /\ glob_conns \in 0 .. made
      /\ FlTypeOK /\ ConnMade /\ ReservationsCounted
      /\ glob_conns # 0 => ~conns[glob_conns].disconnecting /\ ~conns[glob_conns].freed
      /\ glob_conns # 0 => glob_conns \in 1 .. MaxConns
      /\ \A t \in FlThread : call[t].at \in {"reserve"} \cup Reserving \cup Ending =>
                               call[t].conn \in 1 .. made
  BY FlConnectionAssumption DEF FlInv, FlTypeOK, EndedByOne, ConnMade
<1>a. \A t \in FlThread : call[t].at \in Ending => call[t].conn # glob_conns
  BY DEF FlInv, EndedByOne
<1>b. \A t, u \in FlThread :
        call[t].at \in Ending /\ call[u].at \in Ending /\ call[t].conn = call[u].conn => t = u
  BY DEF FlInv, EndedByOne
<1>1. ASSUME \A u \in FlThread : call'[u].at \in Ending =>
                 call[u].at \in Ending /\ call'[u].conn = call[u].conn,
             glob_conns' = glob_conns
      PROVE  \A u, w \in FlThread : Off(u) /\ One(u, w)
  BY <1>a, <1>b, <1>1
<1>2. ASSUME AllAlike, glob_conns' \in {glob_conns, 0}
      PROVE  InTable
  BY <1>0, <1>2 DEF AllAlike, Alike
<1>3. ASSUME NEW k \in 1 .. MaxConns, NEW c \in ConnState, Becomes(k, c),
             glob_conns' = glob_conns,
             k = glob_conns => c.disconnecting = conns[k].disconnecting
                               /\ c.freed = conns[k].freed
      PROVE  InTable
  <2>1. CASE k = glob_conns
    BY <1>0, <1>3, <2>1 DEF Becomes
  <2>2. CASE k # glob_conns
    BY <1>0, <1>3, <2>2 DEF Becomes
  <2> QED  BY <2>1, <2>2
<1>4. ASSUME AllAlike /\ KeepTable /\ UNCHANGED call
      PROVE  Goal
  <2>1. glob_conns' = glob_conns /\ call' = call
    BY <1>4 DEF KeepTable
  <2> QED  BY <1>1, <1>2, <1>4, <2>1
<1>5. ASSUME Connects
      PROVE  Goal
  <2>1. glob_conns' = made + 1 /\ conns'[made + 1] = NewConn /\ call' = call
    BY <1>5 DEF Connects, Becomes
  <2>2. InTable
    BY <2>1 DEF NewConn
  <2>3. \A u \in FlThread : Off(u)
    BY <1>0, <2>1
  <2>4. \A u, w \in FlThread : One(u, w)
    BY <1>b, <2>1
  <2> QED  BY <2>2, <2>3, <2>4
<1>6. ASSUME NEW t \in FlThread, NEW place \in Place, Plain(t, place)
      PROVE  Goal
  <2>1. place \notin Ending
    BY <1>6 DEF Plain, Reserving, Ending
  <2>2. \A u \in FlThread : call'[u].at \in Ending =>
            call[u].at \in Ending /\ call'[u].conn = call[u].conn
    BY <1>6, <2>1 DEF Plain
  <2> QED  BY <1>1, <1>2, <1>6, <2>2 DEF Plain, KeepTable
<1>7. ASSUME NEW t \in FlThread, LooksUp(t)
      PROVE  Goal
  <2>1. \A u \in FlThread : call'[u].at \in Ending =>
            call[u].at \in Ending /\ call'[u].conn = call[u].conn
    BY <1>7 DEF LooksUp, Alone, Ending
  <2>2. AllAlike
    BY <1>0, <1>7 DEF LooksUp, AllAlike, Alike, FlTypeOK
  <2> QED  BY <1>1, <1>2, <1>7, <2>1, <2>2 DEF LooksUp
<1>8. ASSUME NEW t \in FlThread, Reserves(t) \/ Cancels(t)
      PROVE  Goal
  <2>1. \A u \in FlThread : call'[u].at \in Ending =>
            call[u].at \in Ending /\ call'[u].conn = call[u].conn
    BY <1>8 DEF Reserves, Cancels, Moved, Alone, Ending
  <2>2. call[t].conn \in 1 .. MaxConns /\ glob_conns' = glob_conns
    <3>1. call[t].at \in {"reserve"} \cup Reserving
      BY <1>8 DEF Reserves, Cancels, Stands, Reserving
    <3>2. call[t].conn \in 1 .. made
      BY <1>0, <3>1
    <3> QED  BY <1>0, <1>8, <3>2 DEF Reserves, Cancels, KeepTable
  <2>3. InTable
    BY <1>3, <1>8, <2>2 DEF Reserves, Cancels, Conn
  <2> QED  BY <1>1, <2>1, <2>2, <2>3
<1>9. ASSUME NEW t \in FlThread, Erases(t)
      PROVE  Goal
  <2>1. AllAlike /\ glob_conns' = 0
    BY <1>0, <1>9 DEF Erases, AllAlike, Alike, FlTypeOK
  <2>2. \A u \in FlThread : call'[u].at \in Ending =>
            \/ call[u].at \in Ending /\ call'[u].conn = call[u].conn /\ u # t
            \/ u = t /\ glob_conns # 0 /\ call'[u].conn = glob_conns
    BY <1>9 DEF Erases, Alone, Ending
  <2>3. \A u \in FlThread : Off(u)
    <3>1. \A u \in FlThread : call'[u].at \in Ending => call'[u].conn # 0
      BY <1>0, <2>2
    <3> QED  BY <2>1, <3>1
  <2>4. \A u, w \in FlThread : One(u, w)
    BY <1>a, <1>b, <2>2
  <2> QED  BY <1>2, <2>1, <2>3, <2>4
<1>10. ASSUME NEW t \in FlThread, (\E place \in {"close", "wait"} : Ends(t, place)) \/ Reclaims(t)
       PROVE  Goal
  <2>1. call[t].at \in Ending
    BY <1>10 DEF Ends, Reclaims, Ending
  <2>2. \A u \in FlThread : call'[u].at \in Ending =>
            call[u].at \in Ending /\ call'[u].conn = call[u].conn
    BY <1>10, <2>1 DEF Ends, Reclaims, Moved, Alone, Ending
  <2>3. call[t].conn \in 1 .. MaxConns /\ call[t].conn # glob_conns /\ glob_conns' = glob_conns
    BY <1>0, <1>a, <1>10, <2>1 DEF Ends, Reclaims, KeepTable
  <2>4. InTable
    BY <1>3, <1>10, <2>3, NewConnType DEF Ends, Reclaims
  <2> QED  BY <1>1, <2>2, <2>3, <2>4
<1> HIDE DEF Goal
<1>11. Goal
  BY <1>0, <1>4, <1>5, <1>6, <1>7, <1>8, <1>9, <1>10, FlSteps
<1> QED  BY <1>11 DEF Goal, EndedByOne

\* Connection k's calls and the count of their reservations.
LEMMA Fewer ==
  ASSUME FlTypeOK, NEW k \in Nat, Reservers(k)' \subseteq Reservers(k)
  PROVE  Cardinality(Reservers(k)') <= Cardinality(Reservers(k))
BY Counted, FS_Subset

LEMMA SignalledStep ==
  ASSUME FlInv, [FlConnNext]_flConnVars
  PROVE  SignalledWhenNone'
<1> SUFFICES ASSUME NEW k \in 1 .. made', conns'[k].signalled
             PROVE  conns'[k].disconnecting /\ conns'[k].reservations = 0
  BY DEF SignalledWhenNone
<1>0. /\ MaxConns \in Nat /\ made \in 0 .. MaxConns
      /\ FlTypeOK /\ ConnMade /\ ReservationsCounted
      /\ conns \in [1 .. MaxConns -> ConnState]
      /\ \A t \in FlThread : call[t].at \in {"reserve"} \cup Reserving \cup Ending =>
                               call[t].conn \in 1 .. made
  BY FlConnectionAssumption DEF FlInv, FlTypeOK, ConnMade
<1>1. \A j \in 1 .. made :
        conns[j].signalled => conns[j].disconnecting /\ conns[j].reservations = 0
  BY DEF FlInv, SignalledWhenNone
<1>2. ASSUME AllAlike, made' = made
      PROVE  conns'[k].disconnecting /\ conns'[k].reservations = 0
  <2>1. k \in 1 .. made /\ Alike(conns[k], conns'[k])
    BY <1>0, <1>2 DEF AllAlike
  <2> QED  BY <1>1, <2>1 DEF Alike
<1>3. CASE Connects
  <2>1. k = made + 1 \/ k \in 1 .. made
    BY <1>0, <1>3 DEF Connects
  <2>2. k # made + 1
    BY <1>3 DEF Connects, Becomes, NewConn
  <2>3. conns'[k] = conns[k]
    BY <1>0, <1>3, <2>1, <2>2 DEF Connects, Becomes
  <2> QED  BY <1>1, <2>1, <2>2, <2>3
<1>4. ASSUME NEW t \in FlThread, NEW c, made' = made, Becomes(call[t].conn, c),
             call[t].conn \in 1 .. made,
             call[t].conn = k =>
               \/ c.signalled => c.disconnecting /\ c.reservations = 0
               \/ /\ c.signalled = conns[k].signalled
                  /\ conns[k].signalled => c.disconnecting /\ c.reservations = 0
      PROVE  conns'[k].disconnecting /\ conns'[k].reservations = 0
  <2>1. k \in 1 .. made /\ k \in 1 .. MaxConns
    BY <1>0, <1>4
  <2>2. CASE k = call[t].conn
    BY <1>4, <2>2 DEF Becomes
  <2>3. CASE k # call[t].conn
    BY <1>1, <1>4, <2>1, <2>3 DEF Becomes
  <2> QED  BY <2>2, <2>3
<1>5. ASSUME NEW t \in FlThread, Reserves(t)
      PROVE  conns'[k].disconnecting /\ conns'[k].reservations = 0
  <2>1. call[t].conn \in 1 .. made /\ made' = made
    BY <1>0, <1>5 DEF Reserves, Stands
  <2> QED  BY <1>1, <1>4, <1>5, <2>1 DEF Reserves, Conn
<1>6. ASSUME NEW t \in FlThread, Cancels(t)
      PROVE  conns'[k].disconnecting /\ conns'[k].reservations = 0
  <2>1. call[t].conn \in 1 .. made /\ made' = made
    BY <1>0, <1>6 DEF Cancels, Stands, Reserving, KeepTable
  <2> QED  BY <1>4, <1>6, <2>1 DEF Cancels
<1>7. ASSUME NEW t \in FlThread, NEW place \in {"close", "wait"}, Ends(t, place)
      PROVE  conns'[k].disconnecting /\ conns'[k].reservations = 0
  <2>1. call[t].conn \in 1 .. made /\ made' = made
    BY <1>0, <1>7 DEF Ends, Ending, KeepTable
  <2> QED  BY <1>1, <1>4, <1>7, <2>1 DEF Ends, Conn
<1>8. ASSUME NEW t \in FlThread, Reclaims(t)
      PROVE  conns'[k].disconnecting /\ conns'[k].reservations = 0
  <2>1. call[t].conn \in 1 .. made /\ made' = made
    BY <1>0, <1>8 DEF Reclaims, Ending, KeepTable
  <2>2. ~Reclaimed.signalled
    BY DEF Reclaimed, NewConn
  <2> QED  BY <1>4, <1>8, <2>1, <2>2 DEF Reclaims
<1>9. ASSUME NEW t \in FlThread, (\E place \in Place : Plain(t, place)) \/ LooksUp(t) \/ Erases(t)
      PROVE  AllAlike /\ made' = made
  BY <1>0, <1>9 DEF Plain, LooksUp, Erases, KeepTable, AllAlike, Alike
<1> QED  BY <1>0, <1>2, <1>3, <1>5, <1>6, <1>7, <1>8, <1>9, FlSteps DEF KeepTable

\* Only the call that reclaims a connection has it.
LEMMA NobodyLeft ==
  ASSUME FlInv, NEW t \in FlThread, Reclaims(t), NEW u \in FlThread, u # t,
         call[u].conn = call[t].conn
  PROVE  call[u].at \in {"none", "find", "erase"}
<1> DEFINE k == call[t].conn
<1>0. /\ made \in Nat /\ MaxConns \in Nat /\ made <= MaxConns /\ FlTypeOK
      /\ call[u] \in CallState
      /\ call[t].at \in Ending
  BY FlConnectionAssumption DEF FlInv, FlTypeOK, Reclaims, Ending
<1>1. k \in 1 .. made /\ k \in Nat
  BY <1>0 DEF FlInv, ConnMade
<1>2. conns[k].reservations = 0
  BY <1>1 DEF Reclaims, Conn, FlInv, SignalledWhenNone
<1>3. Reservers(k) = {}
  <2>1. Cardinality(Reservers(k)) <= 0
    BY <1>1, <1>2 DEF FlInv, ReservationsCounted
  <2> QED  BY <1>0, <1>1, <2>1, Counted
<1>4. call[u].at \notin Reserving
  BY <1>3 DEF Reservers, Reserving
<1>5. call[u].at # "reserve"
  BY <1>0 DEF FlInv, TableHeld, Stands, EndedByOne
<1>6. call[u].at \notin Ending
  BY <1>0 DEF FlInv, EndedByOne
<1>7. call[u].at \in Place
  BY <1>0 DEF CallState
<1> QED  BY <1>4, <1>5, <1>6, <1>7 DEF Place

LEMMA CountedStep ==
  ASSUME FlInv, [FlConnNext]_flConnVars
  PROVE  ReservationsCounted'
<1> SUFFICES ASSUME NEW k \in 1 .. made'
             PROVE  Cardinality(Reservers(k)') <= conns'[k].reservations
  BY DEF ReservationsCounted, Reservers
<1> DEFINE Goal == Cardinality(Reservers(k)') <= conns'[k].reservations
<1>0. /\ MaxConns \in Nat /\ made \in 0 .. MaxConns /\ made \in Nat
      /\ FlTypeOK /\ ConnMade /\ ReservationsCounted
      /\ conns \in [1 .. MaxConns -> ConnState]
      /\ \A t \in FlThread : call[t].at \in {"reserve"} \cup Reserving \cup Ending =>
                               call[t].conn \in 1 .. made
  BY FlConnectionAssumption DEF FlInv, FlTypeOK, ConnMade
<1>1. FlTypeOK' /\ made' \in Nat /\ k \in Nat /\ k \in 1 .. MaxConns
  <2>1. FlTypeOK'
    BY FlTypeStep
  <2> QED  BY <1>0, <2>1 DEF FlTypeOK
<1>2. conns'[k].reservations \in Nat
  BY <1>1 DEF FlTypeOK, ConnState
<1>3. /\ Reservers(k) = {u \in FlThread : call[u].conn = k /\ call[u].at \in Reserving}
      /\ Reservers(k)' = {u \in FlThread : call'[u].conn = k /\ call'[u].at \in Reserving}
      /\ Cardinality(Reservers(k)) \in Nat /\ IsFiniteSet(Reservers(k))
  BY <1>0, <1>1, Counted DEF Reservers, Reserving
<1>4. k \in 1 .. made => /\ conns[k].reservations \in Nat
                         /\ Cardinality(Reservers(k)) <= conns[k].reservations
  BY <1>0, <1>1 DEF ReservationsCounted, ConnState
<1>5. ASSUME Reservers(k)' \subseteq Reservers(k), k \in 1 .. made,
             conns'[k].reservations = conns[k].reservations
      PROVE  Goal
  <2>1. Cardinality(Reservers(k)') <= Cardinality(Reservers(k)) /\ Cardinality(Reservers(k)') \in Nat
    BY <1>0, <1>1, <1>3, <1>5, Fewer, FS_Subset, FS_CardinalityType
  <2> QED  BY <1>3, <1>4, <1>5, <2>1
<1>6. ASSUME Reservers(k)' = {}
      PROVE  Goal
  BY <1>2, <1>6, FS_EmptySet
<1>7. ASSUME NEW t \in FlThread, NEW c, Becomes(call[t].conn, c), call[t].conn # k
      PROVE  conns'[k] = conns[k]
  BY <1>1, <1>7 DEF Becomes
<1>8. CASE AllAlike /\ KeepTable /\ UNCHANGED call
  <2>1. k \in 1 .. made /\ conns'[k].reservations = conns[k].reservations
    BY <1>1, <1>8 DEF AllAlike, Alike, KeepTable
  <2> QED  BY <1>3, <1>5, <1>8, <2>1
<1>9. CASE Connects
  <2>1. CASE k = made + 1
    <3>1. Reservers(k)' = {}
      BY <1>0, <1>3, <1>9, <2>1 DEF Connects
    <3> QED  BY <1>6, <3>1
  <2>2. CASE k # made + 1
    <3>1. k \in 1 .. made /\ conns'[k] = conns[k] /\ call' = call
      BY <1>0, <1>1, <1>9, <2>2 DEF Connects, Becomes
    <3> QED  BY <1>3, <1>5, <3>1
  <2> QED  BY <2>1, <2>2
<1>10. ASSUME NEW t \in FlThread, NEW place \in Place, Plain(t, place)
       PROVE  Goal
  <2>1. k \in 1 .. made /\ conns'[k].reservations = conns[k].reservations
    BY <1>1, <1>10 DEF Plain, AllAlike, Alike, KeepTable
  <2>2. call'[t].at \in Reserving => call'[t].conn = call[t].conn /\ call[t].at \in Reserving
    BY <1>10 DEF Plain, Reserving
  <2>3. Reservers(k)' \subseteq Reservers(k)
    BY <1>3, <1>10, <2>2 DEF Plain
  <2> QED  BY <1>5, <2>1, <2>3
<1>11. ASSUME NEW t \in FlThread, LooksUp(t) \/ Erases(t)
       PROVE  Goal
  <2>1. call'[t].at \notin Reserving /\ made' = made /\ conns' = conns
    BY <1>11 DEF LooksUp, Erases, Reserving
  <2>2. Reservers(k)' \subseteq Reservers(k)
    BY <1>3, <1>11, <2>1 DEF LooksUp, Erases, Alone
  <2> QED  BY <1>5, <2>1, <2>2
<1>12. ASSUME NEW t \in FlThread, Reserves(t)
       PROVE  Goal
  <2>1. made' = made /\ Reservers(k)' \subseteq Reservers(k) \cup {t}
    BY <1>3, <1>12 DEF Reserves, Moved
  <2>2. CASE call[t].conn = k
    <3>1. k = glob_conns /\ ~conns[k].disconnecting
      BY <1>1, <1>12, <2>2 DEF Reserves, FlInv, TableHeld, EndedByOne
    <3>2. conns'[k].reservations = conns[k].reservations + 1
      BY <1>12, <2>2, <3>1 DEF Reserves, Becomes, Conn
    <3>3. /\ IsFiniteSet(Reservers(k) \cup {t})
          /\ Cardinality(Reservers(k) \cup {t}) \in Nat
          /\ Cardinality(Reservers(k) \cup {t}) <= Cardinality(Reservers(k)) + 1
      <4> DEFINE R == Reservers(k)
      <4>1. IsFiniteSet(R) /\ Cardinality(R) \in Nat
        BY <1>3
      <4> HIDE DEF R
      <4>2. /\ IsFiniteSet(R \cup {t})
            /\ Cardinality(R \cup {t}) = IF t \in R THEN Cardinality(R) ELSE Cardinality(R) + 1
        BY <4>1, FS_AddElement
      <4>3. /\ IsFiniteSet(R \cup {t}) /\ Cardinality(R \cup {t}) \in Nat
            /\ Cardinality(R \cup {t}) <= Cardinality(R) + 1
        BY <4>1, <4>2
      <4> QED  BY <4>3 DEF R
    <3>4. /\ Cardinality(Reservers(k)') <= Cardinality(Reservers(k) \cup {t})
          /\ Cardinality(Reservers(k)') \in Nat
      BY <2>1, <3>3, FS_Subset, FS_CardinalityType
    <3> QED  BY <1>3, <1>4, <2>1, <3>2, <3>3, <3>4
  <2>3. CASE call[t].conn # k
    <3>1. conns'[k] = conns[k]
      BY <1>7, <1>12, <2>3 DEF Reserves
    <3>2. Reservers(k)' \subseteq Reservers(k)
      BY <1>3, <1>12, <2>3 DEF Reserves, Moved
    <3> QED  BY <1>5, <2>1, <3>1, <3>2
  <2> QED  BY <2>2, <2>3
<1>13. ASSUME NEW t \in FlThread, Cancels(t)
       PROVE  Goal
  <2>1. call'[t].at \notin Reserving /\ call[t].at \in Reserving /\ made' = made
    BY <1>13 DEF Cancels, Stands, Reserving, KeepTable
  <2>2. Reservers(k)' \subseteq Reservers(k) \ {t}
    BY <1>3, <1>13, <2>1 DEF Cancels, Alone
  <2>3. CASE call[t].conn = k
    <3>1. t \in Reservers(k) /\ conns'[k].reservations = conns[k].reservations - 1
      BY <1>3, <1>13, <2>1, <2>3 DEF Cancels, Becomes, Conn
    <3>2. /\ IsFiniteSet(Reservers(k) \ {t})
          /\ Cardinality(Reservers(k) \ {t}) = Cardinality(Reservers(k)) - 1
      BY <1>3, <3>1, FS_RemoveElement
    <3>3. /\ Cardinality(Reservers(k)') <= Cardinality(Reservers(k) \ {t})
          /\ Cardinality(Reservers(k)') \in Nat
      BY <2>2, <3>2, FS_Subset, FS_CardinalityType
    <3> QED  BY <1>3, <1>4, <2>1, <3>1, <3>2, <3>3
  <2>4. CASE call[t].conn # k
    <3>1. conns'[k] = conns[k]
      BY <1>7, <1>13, <2>4 DEF Cancels
    <3> QED  BY <1>5, <2>1, <2>2, <3>1
  <2> QED  BY <2>3, <2>4
<1>14. ASSUME NEW t \in FlThread, NEW place \in {"close", "wait"}, Ends(t, place)
       PROVE  Goal
  <2>1. call'[t].at \notin Reserving /\ made' = made
    BY <1>14 DEF Ends, Moved, Reserving, KeepTable
  <2>2. Reservers(k)' \subseteq Reservers(k)
    BY <1>3, <1>14, <2>1 DEF Ends, Moved
  <2>3. conns'[k].reservations = conns[k].reservations
    <3>1. CASE call[t].conn = k
      BY <1>14, <3>1 DEF Ends, Becomes, Conn
    <3>2. CASE call[t].conn # k
      BY <1>7, <1>14, <3>2 DEF Ends
    <3> QED  BY <3>1, <3>2
  <2> QED  BY <1>5, <2>1, <2>2, <2>3
<1>15. ASSUME NEW t \in FlThread, Reclaims(t)
       PROVE  Goal
  <2>1. call'[t].at \notin Reserving /\ made' = made
    BY <1>15 DEF Reclaims, Reserving, KeepTable
  <2>2. CASE call[t].conn = k
    <3>1. \A u \in FlThread \ {t} : call[u].conn = k => call[u].at \notin Reserving
      BY <1>15, <2>2, NobodyLeft DEF Reserving
    <3>2. Reservers(k)' = {}
      BY <1>3, <1>15, <2>1, <3>1 DEF Reclaims, Alone
    <3> QED  BY <1>6, <3>2
  <2>3. CASE call[t].conn # k
    <3>1. conns'[k] = conns[k]
      BY <1>7, <1>15, <2>3 DEF Reclaims
    <3>2. Reservers(k)' \subseteq Reservers(k)
      BY <1>3, <1>15, <2>1 DEF Reclaims, Alone
    <3> QED  BY <1>5, <2>1, <3>1, <3>2
  <2> QED  BY <2>2, <2>3
<1> QED  BY <1>0, <1>8, <1>9, <1>10, <1>11, <1>12, <1>13, <1>14, <1>15, FlSteps

LEMMA UnusedStep ==
  ASSUME FlInv, [FlConnNext]_flConnVars
  PROVE  ReclaimedUnused'
<1> SUFFICES ASSUME NEW u \in FlThread, call'[u].at \notin {"none", "find", "erase"}
             PROVE  ~conns'[call'[u].conn].freed
  BY DEF ReclaimedUnused, Conn
<1> DEFINE Goal == ~conns'[call'[u].conn].freed
<1>0. /\ MaxConns \in Nat /\ made \in 0 .. MaxConns /\ made \in Nat
      /\ FlTypeOK /\ ConnMade /\ ReservationsCounted
      /\ conns \in [1 .. MaxConns -> ConnState]
      /\ glob_conns # 0 => ~conns[glob_conns].freed
  BY FlConnectionAssumption DEF FlInv, FlTypeOK, EndedByOne
<1>1. \A w \in FlThread : call[w].at \notin {"none", "find", "erase"} =>
          ~conns[call[w].conn].freed /\ call[w].conn \in 1 .. MaxConns
  <2>1. ASSUME NEW w \in FlThread, call[w].at \notin {"none", "find", "erase"}
        PROVE  call[w].at \in {"reserve"} \cup Reserving \cup Ending
    <3>1. call[w] \in CallState
      BY <1>0 DEF FlTypeOK
    <3>2. call[w].at \in Place
      BY <3>1 DEF CallState
    <3> QED  BY <2>1, <3>2 DEF Place
  <2> QED  BY <1>0, <2>1 DEF FlInv, ReclaimedUnused, Conn, ConnMade
<1>2. CASE AllAlike /\ KeepTable /\ UNCHANGED call
  BY <1>1, <1>2 DEF AllAlike, Alike
<1>3. CASE Connects
  <2>1. call' = call /\ call[u].conn \in 1 .. MaxConns
    BY <1>1, <1>3 DEF Connects
  <2>2. CASE call[u].conn = made + 1
    BY <1>3, <2>1, <2>2 DEF Connects, Becomes, NewConn
  <2>3. CASE call[u].conn # made + 1
    BY <1>1, <1>3, <2>1, <2>3 DEF Connects, Becomes
  <2> QED  BY <2>2, <2>3
<1>4. ASSUME NEW t \in FlThread, NEW place \in Place, Plain(t, place)
      PROVE  Goal
  <2>1. /\ call'[u].conn = call[u].conn /\ call[u].at \notin {"none", "find", "erase"}
    <3>1. CASE u = t
      <4>1. place \in Reserving /\ call[t].at \in Reserving
        BY <1>4, <3>1 DEF Plain
      <4> QED  BY <1>4, <3>1, <4>1 DEF Plain, Reserving
    <3>2. CASE u # t
      BY <1>4, <3>2 DEF Plain
    <3> QED  BY <3>1, <3>2
  <2> QED  BY <1>1, <1>4, <2>1 DEF Plain, AllAlike, Alike
<1>5. ASSUME NEW t \in FlThread, LooksUp(t) \/ Erases(t)
      PROVE  Goal
  <2>1. CASE u = t
    BY <1>0, <1>5, <2>1 DEF LooksUp, Erases
  <2>2. CASE u # t
    BY <1>1, <1>5, <2>2 DEF LooksUp, Erases, Alone
  <2> QED  BY <2>1, <2>2
<1>6. ASSUME NEW t \in FlThread,
             Reserves(t) \/ Cancels(t) \/ \E place \in {"close", "wait"} : Ends(t, place)
      PROVE  Goal
  <2>1. call'[u].conn = call[u].conn /\ call[u].at \notin {"none", "find", "erase"}
    BY <1>6 DEF Reserves, Cancels, Ends, Stands, Moved, Alone
  <2>2. ~conns[call[u].conn].freed /\ call[u].conn \in 1 .. MaxConns
    BY <1>1, <2>1, SMTT(30)
  <2>3. PICK c \in ConnState : Becomes(call[t].conn, c) /\ c.freed = conns[call[t].conn].freed
    BY <1>6 DEF Reserves, Cancels, Ends, Conn
  <2>4. CASE call[u].conn = call[t].conn
    BY <2>1, <2>2, <2>3, <2>4 DEF Becomes
  <2>5. CASE call[u].conn # call[t].conn
    BY <2>1, <2>2, <2>3, <2>5 DEF Becomes
  <2> QED  BY <2>4, <2>5
<1>7. ASSUME NEW t \in FlThread, Reclaims(t)
      PROVE  Goal
  <2>1. u # t /\ call'[u] = call[u]
    BY <1>7 DEF Reclaims, Alone
  <2>2. call[u].conn # call[t].conn
    BY <1>7, <2>1, NobodyLeft
  <2> QED  BY <1>1, <1>7, <2>1, <2>2 DEF Reclaims, Becomes
<1> QED  BY <1>0, <1>2, <1>3, <1>4, <1>5, <1>6, <1>7, FlSteps

LEMMA FlInitially ==
  ASSUME FlConnInit
  PROVE  FlInv
<1>1. made = 0 /\ glob_conns = 0 /\ \A t \in FlThread : call[t] = Idle
  BY DEF FlConnInit
<1>2. FlTypeOK
  BY NewConnType, FlConnectionAssumption DEF FlConnInit, FlTypeOK, Owner
<1>3. \A t \in FlThread : call[t].at = "none"
  BY <1>1 DEF Idle
<1>4. ConnMade /\ TableHeld /\ ReclaimedUnused
  BY <1>3 DEF ConnMade, TableHeld, ReclaimedUnused, Stands, Reserving, Ending
<1>5. EndedByOne
  BY <1>1, <1>3 DEF EndedByOne, Ending
<1>6. ReservationsCounted /\ SignalledWhenNone
  BY <1>1 DEF ReservationsCounted, SignalledWhenNone
<1> QED  BY <1>2, <1>4, <1>5, <1>6 DEF FlInv

LEMMA FlInvStep ==
  ASSUME FlInv, [FlConnNext]_flConnVars
  PROVE  FlInv'
BY FlTypeStep, ConnMadeStep, TableHeldStep, EndedByOneStep, CountedStep, SignalledStep,
   UnusedStep DEF FlInv

(***************************************************************************)
(* FL_disconnect frees a connection only when no call uses it, whichever   *)
(* way the lookups, the reservations and several disconnects of the same   *)
(* mailbox interleave: a call reserves while the table is locked and still *)
(* has the connection, so whoever ends it has taken it out before and      *)
(* counts every reservation.                                               *)
(***************************************************************************)
THEOREM ReclaimedAreUnused == FlConnSpec => []ReclaimedUnused
<1>1. FlConnInit => FlInv
  BY FlInitially
<1>2. FlInv /\ [FlConnNext]_flConnVars => FlInv'
  BY FlInvStep
<1>3. FlInv => ReclaimedUnused
  BY DEF FlInv
<1> QED  BY <1>1, <1>2, <1>3, PTL DEF FlConnSpec

-----------------------------------------------------------------------------
(***************************************************************************)
(* The queue of a connection: only the reader that holds recv_lock touches *)
(* it, and it holds the lock while it waits for Spread without conn_lock.  *)
(***************************************************************************)
Reads(t) ==
  \/ call[t].at \in {"spread", "handle", "drop recv"}
  \/ call[t].op = "receive" /\ call[t].at \in {"conn lock", "body", "unlock"}

ReaderHolds ==
  \A t \in FlThread :
    Reads(t) => /\ Conn(t).recv_lock = t
                /\ call[t].at \in {"spread", "handle"} => call[t].op = "receive"

QueueInv == FlInv /\ ReaderHolds /\ QueueNotPassedBy

KeepsQueue ==
  \A k \in 1 .. MaxConns : /\ conns'[k].recv_lock = conns[k].recv_lock
                           /\ conns'[k].mess_queue = conns[k].mess_queue

LEMMA QueueSteps ==
  ASSUME FlInv, NEW t \in FlThread,
         \/ InCall(t) \/ SpreadReturns(t) \/ FL_connect(t)
         \/ \E op \in {"multicast", "receive", "disconnect"} : Begin(t, op)
  PROVE  \/ KeepsQueue
         \/ Connects
         \/ call[t].conn \in 1 .. MaxConns /\ \E c \in ConnState :
              /\ Becomes(call[t].conn, c)
              /\ \/ /\ acquire_recv_lock(t) /\ Conn(t).recv_lock = NoThread
                    /\ c.recv_lock = t /\ c.mess_queue = Conn(t).mess_queue
                 \/ release_recv_lock(t)
                 \/ /\ ReceiveQueued(t) \/ HandleMessage(t)
                    /\ c.recv_lock = Conn(t).recv_lock
                 \/ Reclaims(t)
<1> DEFINE k == call[t].conn
           Touches(c) == \/ /\ acquire_recv_lock(t) /\ Conn(t).recv_lock = NoThread
                            /\ c.recv_lock = t /\ c.mess_queue = Conn(t).mess_queue
                         \/ release_recv_lock(t)
                         \/ /\ ReceiveQueued(t) \/ HandleMessage(t)
                            /\ c.recv_lock = Conn(t).recv_lock
                         \/ Reclaims(t)
           Goal == \/ KeepsQueue \/ Connects
                   \/ k \in 1 .. MaxConns /\ \E c \in ConnState : Becomes(k, c) /\ Touches(c)
<1>0. /\ MaxConns \in Nat /\ FlTypeOK /\ ConnMade /\ ReservationsCounted
      /\ conns \in [1 .. MaxConns -> ConnState]
      /\ call[t].at \in {"reserve"} \cup Reserving \cup Ending => k \in 1 .. MaxConns
  BY FlConnectionAssumption DEF FlInv, FlTypeOK, ConnMade
<1>1. ASSUME conns' = conns PROVE Goal
  BY <1>1 DEF KeepsQueue
<1>2. ASSUME k \in 1 .. MaxConns, NEW c, Becomes(k, c),
             c.recv_lock = conns[k].recv_lock, c.mess_queue = conns[k].mess_queue
      PROVE  Goal
  <2>1. ASSUME NEW j \in 1 .. MaxConns
        PROVE  /\ conns'[j].recv_lock = conns[j].recv_lock
               /\ conns'[j].mess_queue = conns[j].mess_queue
    <3>1. CASE j = k
      BY <1>2, <3>1 DEF Becomes
    <3>2. CASE j # k
      BY <1>2, <3>2 DEF Becomes
    <3> QED  BY <3>1, <3>2
  <2> QED  BY <2>1 DEF KeepsQueue
<1>3. ASSUME k \in 1 .. MaxConns, NEW c \in ConnState, conns' = [conns EXCEPT ![k] = c]
      PROVE  Becomes(k, c)
  BY <1>0, <1>3, ConnBecomes
<1>4. /\ t \in Owner /\ NoThread \in Owner
      /\ k \in 1 .. MaxConns => conns[k] \in ConnState /\ Conn(t) = conns[k]
  BY <1>0 DEF Owner, Conn
<1>n. k \in 1 .. MaxConns => conns[k].mess_queue \in Nat /\ conns[k].reservations \in Nat
  BY <1>4 DEF ConnState
<1>5. ASSUME NEW d \in ConnState
      PROVE  /\ \A o \in Owner : LET c == [d EXCEPT !.conn_lock = o]
                                 IN  /\ c \in ConnState /\ c.recv_lock = d.recv_lock
                                     /\ c.mess_queue = d.mess_queue
             /\ \A o \in Owner : LET c == [d EXCEPT !.recv_lock = o]
                                 IN  /\ c \in ConnState /\ c.recv_lock = o
                                     /\ c.mess_queue = d.mess_queue
             /\ LET c == [d EXCEPT !.reserve_lock = t, !.disconnecting = TRUE]
                IN  /\ c \in ConnState /\ c.recv_lock = d.recv_lock
                    /\ c.mess_queue = d.mess_queue
             /\ LET c == [d EXCEPT !.open = FALSE, !.reserve_lock = NoThread]
                IN  /\ c \in ConnState /\ c.recv_lock = d.recv_lock
                    /\ c.mess_queue = d.mess_queue
  BY <1>4 DEF ConnState
<1>6. ASSUME NEW d \in ConnState, NEW n \in Nat
      PROVE  /\ LET c == [d EXCEPT !.mess_queue = n]
                IN  c \in ConnState /\ c.recv_lock = d.recv_lock
             /\ LET c == [d EXCEPT !.conn_lock = t, !.mess_queue = n]
                IN  c \in ConnState /\ c.recv_lock = d.recv_lock
             /\ LET c == [d EXCEPT !.reservations = n]
                IN  /\ c \in ConnState /\ c.recv_lock = d.recv_lock
                    /\ c.mess_queue = d.mess_queue
             /\ \A b \in BOOLEAN : LET c == [d EXCEPT !.reservations = n, !.signalled = b]
                                   IN  /\ c \in ConnState /\ c.recv_lock = d.recv_lock
                                       /\ c.mess_queue = d.mess_queue
  BY <1>4 DEF ConnState
<1>7. ASSUME \/ Recheck(t) \/ Multicast(t) \/ SpreadReturns(t) \/ SpreadFails(t)
             \/ LookUp(t) \/ Erase(t)
             \/ \E op \in {"multicast", "receive", "disconnect"} : Begin(t, op)
      PROVE  Goal
  BY <1>1, <1>7 DEF Recheck, Multicast, SpreadReturns, SpreadFails, LookUp, Erase, Begin
<1>8. ASSUME FL_connect(t) PROVE Goal
  BY <1>0, <1>8, TableSteps
<1>9. ASSUME Reserve(t) PROVE Goal
  <2> DEFINE n == IF conns[k].disconnecting THEN conns[k].reservations
                  ELSE conns[k].reservations + 1
             c == [conns[k] EXCEPT !.reservations = n]
  <2>1. k \in 1 .. MaxConns /\ conns[k] \in ConnState
    BY <1>0, <1>4, <1>9 DEF Reserve, Stands
  <2>2. n \in Nat
    BY <1>n, <2>1
  <2>3. conns' = [conns EXCEPT ![k] = c]
    BY <1>4, <1>9, <2>1 DEF Reserve
  <2> HIDE DEF n
  <2>4. /\ c \in ConnState /\ c.recv_lock = conns[k].recv_lock
        /\ c.mess_queue = conns[k].mess_queue
    BY <1>6, <2>1, <2>2
  <2> HIDE DEF c
  <2> QED  BY <1>2, <1>3, <2>1, <2>3, <2>4
<1>10. ASSUME cancel_reservation(t) PROVE Goal
  <2> DEFINE n == conns[k].reservations - 1
             b == conns[k].reservations = 1 /\ conns[k].disconnecting
             c == [conns[k] EXCEPT !.reservations = n, !.signalled = b]
  <2>1. k \in 1 .. MaxConns /\ k \in 1 .. made /\ conns[k] \in ConnState /\ t \in Reservers(k)
    <3>1. call[t].at = "cancel" /\ call[t].at \in Reserving
      BY <1>10 DEF cancel_reservation, Stands, Reserving
    <3>2. k \in 1 .. made
      BY <1>0, <3>1 DEF ConnMade
    <3> QED  BY <1>0, <1>4, <3>1, <3>2 DEF Reservers
  <2>2. n \in Nat
    <3>1. k \in Nat /\ Cardinality(Reservers(k)) <= conns[k].reservations
      BY <1>0, <2>1 DEF ReservationsCounted
    <3>2. Cardinality(Reservers(k)) \in Nat /\ Cardinality(Reservers(k)) >= 1
      BY <1>0, <2>1, <3>1, Counted
    <3>3. conns[k].reservations \in Nat
      BY <1>n, <2>1
    <3> QED  BY <3>1, <3>2, <3>3
  <2>3. b \in BOOLEAN
    OBVIOUS
  <2>4. conns' = [conns EXCEPT ![k] = c]
    BY <1>4, <1>10, <2>1 DEF cancel_reservation
  <2> HIDE DEF n, b
  <2>5. /\ c \in ConnState /\ c.recv_lock = conns[k].recv_lock
        /\ c.mess_queue = conns[k].mess_queue
    BY <1>6, <2>1, <2>2, <2>3, ZenonT(40)
  <2> HIDE DEF c
  <2> QED  BY <1>2, <1>3, <2>1, <2>4, <2>5
<1>11. ASSUME acquire_conn_lock(t) \/ release_conn_lock(t) \/ WaitForSpread(t)
       PROVE  Goal
  <2>1. k \in 1 .. MaxConns /\ conns[k] \in ConnState
    BY <1>0, <1>4, <1>11 DEF acquire_conn_lock, release_conn_lock, WaitForSpread, Stands, Reserving
  <2>2. conns' = conns \/ \E o \in Owner :
            conns' = [conns EXCEPT ![k] = [conns[k] EXCEPT !.conn_lock = o]]
    BY <1>4, <1>11 DEF acquire_conn_lock, release_conn_lock, WaitForSpread
  <2>3. ASSUME NEW o \in Owner, conns' = [conns EXCEPT ![k] = [conns[k] EXCEPT !.conn_lock = o]]
        PROVE  Goal
    <3> DEFINE c == [conns[k] EXCEPT !.conn_lock = o]
    <3>1. /\ c \in ConnState /\ c.recv_lock = conns[k].recv_lock
          /\ c.mess_queue = conns[k].mess_queue
      BY <1>5, <2>1
    <3>2. conns' = [conns EXCEPT ![k] = c]
      BY <2>3
    <3> HIDE DEF c
    <3> QED  BY <1>2, <1>3, <2>1, <3>1, <3>2
  <2> QED  BY <1>1, <2>2, <2>3
<1>12. ASSUME acquire_recv_lock(t) PROVE Goal
  <2>1. k \in 1 .. MaxConns /\ conns[k] \in ConnState
    BY <1>0, <1>4, <1>12 DEF acquire_recv_lock, Stands, Reserving
  <2> DEFINE c == [conns[k] EXCEPT !.recv_lock = t]
  <2>2. conns' = conns \/ conns' = [conns EXCEPT ![k] = c]
    BY <1>12 DEF acquire_recv_lock
  <2>3. c \in ConnState /\ c.recv_lock = t /\ c.mess_queue = conns[k].mess_queue
    BY <1>4, <1>5, <2>1
  <2>4. Conn(t).recv_lock = NoThread
    BY <1>12 DEF acquire_recv_lock
  <2> HIDE DEF c
  <2> QED  BY <1>1, <1>3, <1>4, <1>12, <2>1, <2>2, <2>3, <2>4
<1>13. ASSUME release_recv_lock(t) PROVE Goal
  <2>1. k \in 1 .. MaxConns /\ conns[k] \in ConnState
    BY <1>0, <1>4, <1>13 DEF release_recv_lock, Stands, Reserving
  <2> DEFINE c == [conns[k] EXCEPT !.recv_lock = NoThread]
  <2>2. conns' = [conns EXCEPT ![k] = c]
    BY <1>13 DEF release_recv_lock
  <2>3. c \in ConnState
    BY <1>4, <1>5, <2>1
  <2> HIDE DEF c
  <2> QED  BY <1>3, <1>13, <2>1, <2>2, <2>3
<1>14. ASSUME ReceiveQueued(t) PROVE Goal
  <2>1. k \in 1 .. MaxConns /\ conns[k] \in ConnState
    BY <1>0, <1>4, <1>14 DEF ReceiveQueued, Stands, Reserving
  <2> DEFINE n == conns[k].mess_queue - 1
             c == [conns[k] EXCEPT !.mess_queue = n]
  <2>2. n \in Nat
    BY <1>4, <1>n, <1>14, <2>1 DEF ReceiveQueued
  <2>3. conns' = [conns EXCEPT ![k] = c]
    BY <1>14 DEF ReceiveQueued
  <2> HIDE DEF n
  <2>4. c \in ConnState /\ c.recv_lock = conns[k].recv_lock
    BY <1>6, <2>1, <2>2
  <2> HIDE DEF c
  <2> QED  BY <1>3, <1>4, <1>14, <2>1, <2>3, <2>4
<1>15. ASSUME HandleMessage(t) PROVE Goal
  <2>1. k \in 1 .. MaxConns /\ conns[k] \in ConnState
    BY <1>0, <1>4, <1>15 DEF HandleMessage, Stands, Reserving
  <2>2. conns[k].mess_queue \in Nat /\ conns[k].mess_queue + 1 \in Nat
    BY <1>n, <2>1
  <2>3. \/ conns' = conns
        \/ \E n \in {conns[k].mess_queue, conns[k].mess_queue + 1} :
             conns' = [conns EXCEPT ![k] = [conns[k] EXCEPT !.conn_lock = t, !.mess_queue = n]]
    BY <1>4, <1>15, <2>1 DEF HandleMessage
  <2>4. ASSUME NEW n \in Nat, conns' = [conns EXCEPT ![k] = [conns[k] EXCEPT !.conn_lock = t,
                                                                           !.mess_queue = n]]
        PROVE  Goal
    <3> DEFINE c == [conns[k] EXCEPT !.conn_lock = t, !.mess_queue = n]
    <3>1. c \in ConnState /\ c.recv_lock = conns[k].recv_lock
      BY <1>6, <2>1
    <3>2. conns' = [conns EXCEPT ![k] = c]
      BY <2>4
    <3> HIDE DEF c
    <3> QED  BY <1>3, <1>4, <1>15, <2>1, <3>1, <3>2
  <2> QED  BY <1>1, <2>2, <2>3, <2>4
<1>16. ASSUME Mark(t) PROVE Goal
  <2>1. k \in 1 .. MaxConns /\ conns[k] \in ConnState
    BY <1>0, <1>4, <1>16 DEF Mark, Stands, Ending
  <2> DEFINE c == [conns[k] EXCEPT !.reserve_lock = t, !.disconnecting = TRUE]
  <2>2. conns' = [conns EXCEPT ![k] = c]
    BY <1>16 DEF Mark
  <2>3. /\ c \in ConnState /\ c.recv_lock = conns[k].recv_lock
        /\ c.mess_queue = conns[k].mess_queue
    BY <1>5, <2>1
  <2> HIDE DEF c
  <2> QED  BY <1>2, <1>3, <2>1, <2>2, <2>3
<1>17. ASSUME Close(t), ~Reclaims(t) PROVE Goal
  <2>1. k \in 1 .. MaxConns /\ conns[k] \in ConnState
    BY <1>0, <1>4, <1>17 DEF Close, Stands, Ending
  <2> DEFINE c == [conns[k] EXCEPT !.open = FALSE, !.reserve_lock = NoThread]
  <2>2. conns' = [conns EXCEPT ![k] = c]
    <3>1. Conn(t).reservations # 0
      <4>1. Ends(t, "wait")
        BY <1>0, <1>17, TableSteps
      <4>2. call'[t].at = "wait"
        BY <4>1 DEF Ends, Moved
      <4>3. Conn(t).reservations = 0 => call'[t] = Idle
        BY <1>0, <1>17 DEF Close, FlTypeOK
      <4> QED  BY <4>2, <4>3 DEF Idle
    <3> QED  BY <1>17, <3>1 DEF Close
  <2>3. /\ c \in ConnState /\ c.recv_lock = conns[k].recv_lock
        /\ c.mess_queue = conns[k].mess_queue
    BY <1>5, <2>1
  <2> HIDE DEF c
  <2> QED  BY <1>2, <1>3, <2>1, <2>2, <2>3
<1>18. ASSUME Reclaims(t) PROVE Goal
  <2>1. k \in 1 .. MaxConns
    BY <1>0, <1>18 DEF Reclaims, Ending
  <2> QED  BY <1>18, <2>1, NewConnType DEF Reclaims
<1> HIDE DEF Goal
<1>19. Goal
  <2>1. Reclaim(t) => Reclaims(t)
    BY <1>0, TableSteps
  <2> QED  BY <1>7, <1>8, <1>9, <1>10, <1>11, <1>12, <1>13, <1>14, <1>15, <1>16, <1>17, <1>18,
              <2>1 DEF InCall
<1> QED  BY <1>19 DEF Goal

\* The reader's own step.
LEMMA OwnReads ==
  ASSUME QueueInv, NEW t \in FlThread,
         \/ InCall(t) \/ SpreadReturns(t) \/ FL_connect(t)
         \/ \E op \in {"multicast", "receive", "disconnect"} : Begin(t, op),
         Reads(t)'
  PROVE  /\ conns'[call'[t].conn].recv_lock = t
         /\ call'[t].at \in {"spread", "handle"} => call'[t].op = "receive"
         /\ call'[t].at = "spread" => conns'[call'[t].conn].mess_queue = 0
<1> DEFINE k == call[t].conn
           Goal == /\ conns'[call'[t].conn].recv_lock = t
                   /\ call'[t].at \in {"spread", "handle"} => call'[t].op = "receive"
                   /\ call'[t].at = "spread" => conns'[call'[t].conn].mess_queue = 0
<1>0. /\ FlInv /\ FlTypeOK /\ ConnMade /\ ReservationsCounted /\ MaxConns \in Nat
      /\ made \in 0 .. MaxConns /\ made \in Nat
      /\ call \in [FlThread -> CallState] /\ conns \in [1 .. MaxConns -> ConnState]
      /\ call[t].at \in Reserving \cup Ending => k \in 1 .. made /\ k \in 1 .. MaxConns
  BY FlConnectionAssumption DEF QueueInv, FlInv, FlTypeOK, ConnMade
<1>1. /\ Reads(t) => conns[k].recv_lock = t
      /\ call[t].at \in {"spread", "handle"} => call[t].op = "receive"
      /\ call[t].at = "spread" => conns[k].mess_queue = 0
  BY DEF QueueInv, ReaderHolds, QueueNotPassedBy, Reads, Stands, Conn
<1>2. \/ call'[t].at \in {"spread", "handle", "drop recv"}
      \/ call'[t].op = "receive" /\ call'[t].at \in {"conn lock", "body", "unlock"}
  BY DEF Reads
<1>3. \A place \in Reserving : place \in Place
  BY DEF Place
<1>4. ASSUME NEW place \in Reserving, GoTo(t, place) \/ GiveUp(t, place)
      PROVE  call'[t].at = place /\ call'[t].conn = k /\ call'[t].op = call[t].op
  BY <1>0, <1>3, <1>4, CallMoves DEF Moved
<1>5. ASSUME FL_connect(t) PROVE Goal
  <2>1. Connects
    BY <1>0, <1>5, TableSteps
  <2>2. call' = call /\ k \in 1 .. made /\ k \in 1 .. MaxConns
    BY <1>0, <1>2, <2>1 DEF Connects, Reserving
  <2>3. conns'[k] = conns[k]
    BY <1>0, <2>1, <2>2 DEF Connects, Becomes
  <2>4. Reads(t)
    BY <1>2, <2>2 DEF Reads
  <2> QED  BY <1>1, <2>2, <2>3, <2>4
<1>6. ASSUME \/ LookUp(t) \/ Reserve(t) \/ cancel_reservation(t) \/ Erase(t) \/ Mark(t)
             \/ Close(t) \/ Reclaim(t)
             \/ \E op \in {"multicast", "receive", "disconnect"} : Begin(t, op)
      PROVE  FALSE
  <2>1. call'[t].at \in {"none", "find", "erase", "reserve", "recheck", "mark", "close", "wait"}
    <3>1. CASE \E op \in {"multicast", "receive", "disconnect"} : Begin(t, op)
      BY <1>0, <3>1 DEF Begin, Idle
    <3> QED  BY <1>0, <1>6, <3>1, TableSteps DEF LooksUp, Reserves, Cancels, Erases, Ends,
                                                 Reclaims, Moved
  <2> QED  BY <1>2, <2>1
<1>7. ASSUME Recheck(t) PROVE FALSE
  <2>1. PICK place \in {"erase", "recv lock", "conn lock"} :
            /\ GoTo(t, place) \/ GiveUp(t, place)
            /\ place = "conn lock" => call[t].op # "receive"
    BY <1>7 DEF Recheck
  <2>2. call'[t].at = place /\ call'[t].op = call[t].op
    BY <1>0, <2>1, CallMoves DEF Moved, Place, Reserving
  <2> QED  BY <1>2, <2>1, <2>2
<1>8. ASSUME call[t].at \in {"conn lock", "spread", "unlock"}
      PROVE  KeepsQueue \/ Connects
  BY <1>0, <1>8, QueueSteps DEF acquire_recv_lock, release_recv_lock, ReceiveQueued,
                                HandleMessage, Reclaims, Stands
<1>9. ASSUME call[t].at = "body", ~ReceiveQueued(t)
      PROVE  KeepsQueue \/ Connects
  BY <1>0, <1>9, QueueSteps DEF acquire_recv_lock, release_recv_lock, HandleMessage,
                                Reclaims, Stands
<1>a. ASSUME KeepsQueue \/ Connects, k \in 1 .. made, k \in 1 .. MaxConns
      PROVE  conns'[k].recv_lock = conns[k].recv_lock /\ conns'[k].mess_queue = conns[k].mess_queue
  BY <1>0, <1>a DEF KeepsQueue, Connects, Becomes
<1>10. ASSUME acquire_conn_lock(t) PROVE Goal
  <2>1. call[t].at = "conn lock" /\ k \in 1 .. made /\ k \in 1 .. MaxConns
    BY <1>0, <1>10 DEF acquire_conn_lock, Stands, Reserving
  <2>2. PICK place \in {"body", "drop recv", "cancel"} :
            /\ GoTo(t, place) \/ GiveUp(t, place)
            /\ place = "drop recv" => conns[k].recv_lock = t
    BY <1>10 DEF acquire_conn_lock, AfterFailure, Conn
  <2>3. call'[t].at = place /\ call'[t].conn = k /\ call'[t].op = call[t].op
    BY <1>4, <2>2 DEF Reserving
  <2>4. conns[k].recv_lock = t
    BY <1>1, <1>2, <2>1, <2>2, <2>3 DEF Reads
  <2> QED  BY <1>8, <1>a, <2>1, <2>2, <2>3, <2>4
<1>11. ASSUME release_conn_lock(t) PROVE Goal
  <2>1. call[t].at = "unlock" /\ k \in 1 .. made /\ k \in 1 .. MaxConns
    BY <1>0, <1>11 DEF release_conn_lock, Stands, Reserving
  <2>2. PICK place \in {"drop recv", "cancel"} :
            /\ GoTo(t, place)
            /\ place = "drop recv" => conns[k].recv_lock = t
    BY <1>11 DEF release_conn_lock, AfterFailure, Conn
  <2>3. call'[t].at = place /\ call'[t].conn = k
    BY <1>4, <2>2 DEF Reserving
  <2>4. conns[k].recv_lock = t
    BY <1>2, <2>2, <2>3
  <2> QED  BY <1>8, <1>a, <2>1, <2>2, <2>3, <2>4
<1>12. ASSUME acquire_recv_lock(t) PROVE Goal
  <2>1. call[t].at = "recv lock" /\ k \in 1 .. made /\ k \in 1 .. MaxConns
    BY <1>0, <1>12 DEF acquire_recv_lock, Stands, Reserving
  <2>2. CASE GiveUp(t, "cancel")
    <3>1. call'[t].at = "cancel"
      BY <1>4, <2>2 DEF Reserving
    <3> QED  BY <1>2, <3>1
  <2>3. CASE GoTo(t, "conn lock") /\ conns' = [conns EXCEPT ![k].recv_lock = t]
    <3>1. call'[t].at = "conn lock" /\ call'[t].conn = k
      BY <1>4, <2>3 DEF Reserving
    <3>2. conns'[k].recv_lock = t
      <4>1. conns'[k] = [conns[k] EXCEPT !.recv_lock = t] /\ conns[k] \in ConnState
        BY <1>0, <2>1, <2>3
      <4> QED  BY <4>1 DEF ConnState
    <3> QED  BY <3>1, <3>2
  <2> QED  BY <1>12, <2>2, <2>3 DEF acquire_recv_lock
<1>13. ASSUME release_recv_lock(t) PROVE FALSE
  <2>1. call'[t].at = "cancel"
    BY <1>4, <1>13 DEF release_recv_lock, Reserving
  <2> QED  BY <1>2, <2>1
<1>14. ASSUME Multicast(t) PROVE Goal
  <2>1. call'[t].at = "unlock" /\ call'[t].op = "multicast"
    BY <1>4, <1>14 DEF Multicast, Reserving
  <2> QED  BY <1>2, <2>1
<1>15. ASSUME ReceiveQueued(t) PROVE Goal
  <2>1. call[t].at = "body" /\ call[t].op = "receive" /\ k \in 1 .. made /\ k \in 1 .. MaxConns
    BY <1>0, <1>15 DEF ReceiveQueued, Stands, Reserving
  <2>2. call'[t].at = "unlock" /\ call'[t].conn = k
    BY <1>4, <1>15 DEF ReceiveQueued, Reserving
  <2>3. conns[k].recv_lock = t
    BY <1>1, <2>1 DEF Reads
  <2>4. conns'[k].recv_lock = conns[k].recv_lock
    BY <1>0, <1>a, <2>1, QueueSteps DEF acquire_recv_lock, release_recv_lock, Reclaims, Stands,
                                        Becomes, Conn
  <2> QED  BY <2>2, <2>3, <2>4
<1>16. ASSUME WaitForSpread(t) PROVE Goal
  <2>1. /\ call[t].at = "body" /\ call[t].op = "receive" /\ k \in 1 .. made /\ k \in 1 .. MaxConns
        /\ conns[k].mess_queue = 0 /\ ~ReceiveQueued(t)
    BY <1>0, <1>16 DEF WaitForSpread, ReceiveQueued, Stands, Reserving, Conn
  <2>2. call'[t].at = "spread" /\ call'[t].conn = k /\ call'[t].op = call[t].op
    BY <1>4, <1>16 DEF WaitForSpread, Reserving
  <2>3. conns[k].recv_lock = t
    BY <1>1, <2>1 DEF Reads
  <2> QED  BY <1>9, <1>a, <2>1, <2>2, <2>3
<1>17. ASSUME SpreadReturns(t) \/ SpreadFails(t) PROVE Goal
  <2>1. call[t].at = "spread" /\ k \in 1 .. made /\ k \in 1 .. MaxConns /\ Reads(t)
    BY <1>0, <1>17 DEF SpreadReturns, SpreadFails, Stands, Reserving, Reads
  <2>2. /\ call'[t].at \in {"handle", "drop recv"}
        /\ call'[t].conn = k /\ call'[t].op = call[t].op
    BY <1>4, <1>17 DEF SpreadReturns, SpreadFails, Reserving
  <2> QED  BY <1>1, <1>8, <1>a, <2>1, <2>2
<1>18. ASSUME HandleMessage(t) PROVE Goal
  <2>1. call[t].at = "handle" /\ k \in 1 .. made /\ k \in 1 .. MaxConns /\ Reads(t)
    BY <1>0, <1>18 DEF HandleMessage, Stands, Reserving, Reads
  <2>2. PICK place \in {"drop recv", "cancel", "body", "unlock"} : GoTo(t, place) \/ GiveUp(t, place)
    BY <1>18 DEF HandleMessage, AfterFailure
  <2>3. call'[t].at = place /\ call'[t].conn = k
    BY <1>4, <2>2 DEF Reserving
  <2>4. conns'[k].recv_lock = conns[k].recv_lock
    BY <1>0, <1>a, <2>1, QueueSteps DEF acquire_recv_lock, release_recv_lock, Reclaims, Stands,
                                        Becomes, Conn
  <2> QED  BY <1>1, <2>1, <2>2, <2>3, <2>4
<1> QED  BY <1>5, <1>6, <1>7, <1>10, <1>11, <1>12, <1>13, <1>14, <1>15, <1>16, <1>17, <1>18
         DEF InCall

LEMMA OthersStay ==
  ASSUME FlTypeOK, ConnMade, ReservationsCounted, NEW t \in FlThread, NEW u \in FlThread, u # t,
         \/ InCall(t) \/ SpreadReturns(t) \/ FL_connect(t)
         \/ \E op \in {"multicast", "receive", "disconnect"} : Begin(t, op)
  PROVE  call'[u] = call[u]
<1>1. \/ \E place \in Place : Plain(t, place)
      \/ LooksUp(t) \/ Reserves(t) \/ Cancels(t) \/ Erases(t)
      \/ \E place \in {"close", "wait"} : Ends(t, place)
      \/ Reclaims(t) \/ Connects
  BY PlainSteps, TableSteps DEF InCall
<1> QED  BY <1>1 DEF Plain, LooksUp, Reserves, Cancels, Erases, Ends, Reclaims, Connects,
                     Moved, Alone

\* A step of one thread leaves what another reads alone.
LEMMA OthersRead ==
  ASSUME QueueInv, NEW t \in FlThread, NEW u \in FlThread, u # t, Reads(u),
         \/ InCall(t) \/ SpreadReturns(t) \/ FL_connect(t)
         \/ \E op \in {"multicast", "receive", "disconnect"} : Begin(t, op)
  PROVE  /\ call'[u] = call[u]
         /\ conns'[call[u].conn].recv_lock = u
         /\ call[u].at = "spread" => conns'[call[u].conn].mess_queue = 0
<1> DEFINE k == call[u].conn
<1>0. /\ FlInv /\ FlTypeOK /\ ConnMade /\ ReservationsCounted /\ MaxConns \in Nat
      /\ made \in 0 .. MaxConns /\ made \in Nat /\ NoThread \notin FlThread
      /\ conns \in [1 .. MaxConns -> ConnState]
  BY FlConnectionAssumption DEF QueueInv, FlInv, FlTypeOK
<1>1. /\ \A w \in FlThread : Reads(w) => conns[call[w].conn].recv_lock = w
      /\ call[u].at = "spread" => conns[k].mess_queue = 0
  BY DEF QueueInv, ReaderHolds, QueueNotPassedBy, Stands, Conn
<1>2. k \in 1 .. made /\ k \in 1 .. MaxConns
  <2>1. call[u].at \in Reserving
    BY DEF Reads, Reserving
  <2> QED  BY <1>0, <2>1 DEF ConnMade
<1>3. call'[u] = call[u]
  BY <1>0, OthersStay
<1>4. conns'[k].recv_lock = conns[k].recv_lock /\ conns'[k].mess_queue = conns[k].mess_queue
  <2>1. CASE KeepsQueue \/ Connects
    BY <1>0, <1>2, <2>1 DEF KeepsQueue, Connects, Becomes
  <2>2. ASSUME NEW c, Becomes(call[t].conn, c), call[t].conn # k
        PROVE  conns'[k] = conns[k]
    BY <1>2, <2>2 DEF Becomes
  <2>3. ASSUME call[t].conn = k, acquire_recv_lock(t) PROVE Conn(t).recv_lock # NoThread
    BY <1>0, <1>1, <2>3 DEF Conn
  <2>4. ASSUME call[t].conn = k, release_recv_lock(t) \/ ReceiveQueued(t) \/ HandleMessage(t)
        PROVE  FALSE
    <3>1. Reads(t)
      BY <2>4 DEF release_recv_lock, ReceiveQueued, HandleMessage, Stands, Reads
    <3> QED  BY <1>1, <2>4, <3>1
  <2>5. ASSUME call[t].conn = k, Reclaims(t) PROVE FALSE
    <3>1. call[u].at \in {"none", "find", "erase"}
      BY <1>0, <2>5, NobodyLeft
    <3> QED  BY <3>1 DEF Reads
  <2> QED  BY <1>0, <2>1, <2>2, <2>3, <2>4, <2>5, QueueSteps
<1> QED  BY <1>1, <1>3, <1>4

(***************************************************************************)
(* The comment in FL_scat_receive: whoever waits for Spread without the    *)
(* connection's lock does so over an empty queue, since recv_lock keeps    *)
(* every other reader from queueing or taking a message meanwhile.         *)
(***************************************************************************)
THEOREM QueueIsServedFirst == FlConnSpec => []QueueNotPassedBy
<1>1. FlConnInit => QueueInv
  <2> SUFFICES ASSUME FlConnInit PROVE QueueInv
    OBVIOUS
  <2>1. FlInv /\ \A t \in FlThread : call[t].at = "none"
    BY FlInitially DEF FlConnInit, Idle
  <2> QED  BY <2>1 DEF QueueInv, ReaderHolds, QueueNotPassedBy, Reads, Stands
<1>2. QueueInv /\ [FlConnNext]_flConnVars => QueueInv'
  <2> SUFFICES ASSUME QueueInv, [FlConnNext]_flConnVars PROVE QueueInv'
    OBVIOUS
  <2>0. FlInv /\ FlInv'
    BY FlInvStep DEF QueueInv
  <2>1. ASSUME NEW u \in FlThread, Reads(u)'
        PROVE  /\ conns'[call'[u].conn].recv_lock = u
               /\ call'[u].at \in {"spread", "handle"} => call'[u].op = "receive"
               /\ call'[u].at = "spread" => conns'[call'[u].conn].mess_queue = 0
    <3> DEFINE Goal == /\ conns'[call'[u].conn].recv_lock = u
                       /\ call'[u].at \in {"spread", "handle"} => call'[u].op = "receive"
                       /\ call'[u].at = "spread" => conns'[call'[u].conn].mess_queue = 0
    <3>1. ASSUME NEW t \in FlThread,
                 \/ InCall(t) \/ SpreadReturns(t) \/ FL_connect(t)
                 \/ \E op \in {"multicast", "receive", "disconnect"} : Begin(t, op)
          PROVE  Goal
      <4>1. CASE t = u
        BY <2>1, <3>1, <4>1, OwnReads
      <4>2. CASE t # u
        <5>1. call'[u] = call[u]
          BY <2>0, <3>1, <4>2, OthersStay DEF FlInv
        <5>2. Reads(u)
          BY <2>1, <5>1 DEF Reads
        <5> QED  BY <3>1, <4>2, <5>1, <5>2, OthersRead DEF QueueInv, ReaderHolds
      <4> QED  BY <4>1, <4>2
    <3>2. ASSUME UNCHANGED call, KeepsQueue
          PROVE  Goal
      <4>1. Reads(u) /\ call[u].at \in Reserving
        BY <2>1, <3>2 DEF Reads, Reserving
      <4>2. call[u].conn \in 1 .. MaxConns
        BY <2>0, <4>1, FlConnectionAssumption DEF FlInv, ConnMade, FlTypeOK
      <4> QED  BY <3>2, <4>1, <4>2 DEF KeepsQueue, QueueInv, ReaderHolds, QueueNotPassedBy,
                                       Stands, Conn
    <3>3. ASSUME NEW j \in 1 .. MaxConns, Break(j) PROVE KeepsQueue /\ UNCHANGED call
      <4>1. conns' = [conns EXCEPT ![j] = [conns[j] EXCEPT !.broken = TRUE]] /\ call' = call
        BY <3>3 DEF Break
      <4>2. conns \in [1 .. MaxConns -> ConnState] /\ conns[j] \in ConnState
        BY <2>0 DEF FlInv, FlTypeOK
      <4>3. /\ [conns[j] EXCEPT !.broken = TRUE].recv_lock = conns[j].recv_lock
            /\ [conns[j] EXCEPT !.broken = TRUE].mess_queue = conns[j].mess_queue
        BY <4>2 DEF ConnState
      <4> QED  BY <4>1, <4>2, <4>3 DEF KeepsQueue
    <3>4. CASE UNCHANGED flConnVars
      BY <3>2, <3>4 DEF flConnVars, KeepsQueue
    <3> HIDE DEF Goal
    <3>5. Goal
      BY <3>1, <3>2, <3>3, <3>4 DEF FlConnNext, Goal
    <3> QED  BY <3>5 DEF Goal
  <2>2. ReaderHolds' /\ QueueNotPassedBy'
    BY <2>1 DEF ReaderHolds, QueueNotPassedBy, Reads, Stands, Conn
  <2> QED  BY <2>0, <2>2 DEF QueueInv
<1>3. QueueInv => QueueNotPassedBy
  BY DEF QueueInv
<1> QED  BY <1>1, <1>2, <1>3, PTL DEF FlConnSpec
=============================================================================
