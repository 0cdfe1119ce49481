---------------------------- MODULE SpreadClient ----------------------------
(***************************************************************************)
(* The Spread client library (libspread/sp.c): threads that share its      *)
(* table of sessions and the descriptors of their connections. Each        *)
(* descriptor number has one lock for sending and one for receiving; the   *)
(* table has a lock of its own (Struct_mutex) that is held for moments     *)
(* only, so what is done under it is part of one step. A call looks its    *)
(* session up, and uses the descriptor, and looks it up again when that    *)
(* has failed: in between, the connection may be closed and its number     *)
(* used for another one.                                                   *)
(*                                                                         *)
(* Messages are sent and read in parts: a header, then the groups, then    *)
(* the data. A receive without room for a message, and without DROP_RECV,  *)
(* keeps the header in the session for the next one.                       *)
(***************************************************************************)
EXTENDS Naturals, FiniteSets, Sequences

CONSTANTS SpThread,
          SpDoes,        \* SpDoes[t]: the calls thread t makes
          Mbox,          \* descriptor numbers
          Nobody,        \* owner of a lock that is free
          AwaitCalls,    \* a number is used again only when no call is left on it
          MaxSessions,   \* bound: connections made
          MaxIncoming,   \* bound: messages the daemon sends
          MaxOutgoing    \* bound: messages the threads send

ASSUME SpAssumption ==
  /\ IsFiniteSet(SpThread) /\ Nobody \notin SpThread /\ 0 \notin Mbox
  /\ AwaitCalls \in BOOLEAN
  /\ {MaxSessions, MaxIncoming, MaxOutgoing} \subseteq Nat

VARIABLES Sessions,    \* the table
          Mbox_mutex,  \* Mbox_mutex[m]: who holds its two locks
          descriptor,  \* descriptor[m]: the connection that m is, or 0
          down,        \* down[k]: what the daemon has sent on connection k
          up,          \* up[k]: what the daemon was sent
          ended,       \* connections the daemon has closed
          counts,      \* connections and messages so far
          doing,       \* doing[t]: the call t is in, and where
          result,      \* what was received last
          stale        \* connections that keep the header of a message that was read
received == <<result, stale>>

spVars == <<Sessions, Mbox_mutex, descriptor, down, up, ended, counts, doing, result, stale>>

NoPart == [kind |-> "none", of |-> 0, id |-> 0]
Idle_call == [op |-> "none", at |-> "none", mbox |-> 0, group |-> 0, id |-> 0, saved |-> FALSE,
              room |-> "enough", head |-> NoPart, groups |-> NoPart]
Nothing == [group |-> 0, mixed |-> FALSE, head |-> NoPart, groups |-> NoPart, data |-> NoPart]

-----------------------------------------------------------------------------
In(t, place) == doing[t].at = place
Mb(t) == doing[t].mbox
Move(t, place) == doing' = [doing EXCEPT ![t].at = place]
Return(t) == doing' = [doing EXCEPT ![t] = Idle_call]

\* SP_get_session: the first entry with the number.
Has(m) == \E i \in DOMAIN Sessions : Sessions[i].mbox = m
SP_get_session(m) == CHOOSE i \in DOMAIN Sessions :
  Sessions[i].mbox = m /\ \A j \in 1 .. i - 1 : Sessions[j].mbox # m

Open(m) == descriptor[m] # 0
Unlocked(m, lock) == [Mbox_mutex EXCEPT ![m][lock] = Nobody]

\* After a failed send or recv: when the session is gone as well the call
\* returns at once, with the lock of the descriptor in its hands.
ReturnClosed(t, lock) ==
  /\ Return(t)
  /\ IF Has(Mb(t))
     THEN /\ Sessions' = [Sessions EXCEPT ![SP_get_session(Mb(t))].state = "error"]
          /\ Mbox_mutex' = Unlocked(Mb(t), lock)
     ELSE UNCHANGED <<Sessions, Mbox_mutex>>

-----------------------------------------------------------------------------
(* SP_connect and SP_disconnect.                                           *)

\* Nobody can read what was on a connection that is closed.
Forget(k) ==
  /\ down' = [down EXCEPT ![k] = <<>>]
  /\ up' = [up EXCEPT ![k] = <<>>]
  /\ ended' = ended \ {k}

Unused(m) == ~Open(m) /\ (AwaitCalls => \A t \in SpThread : Mb(t) # m)

\* The descriptor, and the connection to the daemon ...
SP_connect(t, m) ==
  /\ In(t, "none") /\ "connect" \in SpDoes[t] /\ counts.conns < MaxSessions /\ Unused(m)
  /\ descriptor' = [descriptor EXCEPT ![m] = counts.conns + 1]
  /\ counts' = [counts EXCEPT !.conns = @ + 1]
  /\ doing' = [doing EXCEPT ![t] = [Idle_call EXCEPT !.op = "connect", !.at = "handshake", !.mbox = m]]
  /\ UNCHANGED <<Sessions, Mbox_mutex, down, up, ended, received>>
\* ... the exchange of version, authentication and name ends in an error ...
ConnectFails(t) ==
  /\ In(t, "handshake")
  /\ descriptor' = [descriptor EXCEPT ![Mb(t)] = 0]
  /\ Forget(descriptor[Mb(t)])
  /\ Return(t)
  /\ UNCHANGED <<Sessions, Mbox_mutex, counts, received>>
\* ... or in a session.
ConnectAccepted(t) ==
  /\ In(t, "handshake") /\ descriptor[Mb(t)] \notin ended
  /\ Sessions' = Append(Sessions, [mbox |-> Mb(t), group |-> descriptor[Mb(t)], state |-> "active",
                                   recv_message_saved |-> FALSE, recv_saved_head |-> NoPart])
  /\ Return(t)
  /\ UNCHANGED <<Mbox_mutex, descriptor, down, up, ended, counts, received>>

\* SP_disconnect: a KILL_MESS to the own group, and the end, whatever became of it.
SP_disconnect(t, m) ==
  /\ In(t, "none") /\ "disconnect" \in SpDoes[t] /\ Has(m)
  /\ doing' = [doing EXCEPT ![t] = [Idle_call EXCEPT !.op = "disconnect", !.at = "look up", !.mbox = m]]
  /\ UNCHANGED <<Sessions, Mbox_mutex, descriptor, down, up, ended, counts, received>>
SP_kill(t) ==
  /\ In(t, "kill")
  /\ IF Has(Mb(t))
     THEN /\ descriptor' = [descriptor EXCEPT ![Mb(t)] = 0]
          /\ Forget(descriptor[Mb(t)])
          /\ \E ses \in {SP_get_session(Mb(t))} :
               Sessions' = SubSeq(Sessions, 1, ses - 1) \o SubSeq(Sessions, ses + 1, Len(Sessions))
     ELSE UNCHANGED <<descriptor, down, up, ended, Sessions>>
  /\ Return(t)
  /\ UNCHANGED <<Mbox_mutex, counts, received>>

-----------------------------------------------------------------------------
(* SP_internal_multicast.                                                  *)

SP_multicast(t, m) ==
  /\ In(t, "none") /\ "multicast" \in SpDoes[t] /\ counts.out < MaxOutgoing /\ counts.conns > 0
  /\ counts' = [counts EXCEPT !.out = @ + 1]
  /\ doing' = [doing EXCEPT ![t] = [Idle_call EXCEPT !.op = "multicast", !.at = "look up",
                                                     !.mbox = m, !.id = counts.out + 1]]
  /\ UNCHANGED <<Sessions, Mbox_mutex, descriptor, down, up, ended, received>>

\* A disconnect goes on to SP_kill.
MulticastReturns(t) == IF doing[t].op = "disconnect" THEN Move(t, "kill") ELSE Return(t)
LookUpToSend(t) ==
  /\ In(t, "look up") /\ doing[t].op # "receive"
  /\ IF Has(Mb(t)) /\ Sessions[SP_get_session(Mb(t))].state = "active"
     THEN doing' = [doing EXCEPT ![t].at = "send lock", ![t].group = Sessions[SP_get_session(Mb(t))].group]
     ELSE MulticastReturns(t)
  /\ UNCHANGED <<Sessions, Mbox_mutex, descriptor, down, up, ended, counts, received>>
\* Mutant: each message is sent without the lock.
LockToSendNot(t) ==
  /\ In(t, "send lock") /\ Move(t, "send header")
  /\ UNCHANGED <<Sessions, Mbox_mutex, descriptor, down, up, ended, counts, received>>
LockToSend(t) ==
  /\ In(t, "send lock") /\ Mbox_mutex[Mb(t)].send = Nobody
  /\ Mbox_mutex' = [Mbox_mutex EXCEPT ![Mb(t)].send = t]
  /\ Move(t, "send header")
  /\ UNCHANGED <<Sessions, descriptor, down, up, ended, counts, received>>

Part(t, kind) == [kind |-> kind, of |-> doing[t].group, id |-> doing[t].id]
Sendable(t) == Open(Mb(t)) /\ descriptor[Mb(t)] \notin ended
SendHeader(t) ==
  /\ In(t, "send header") /\ Sendable(t)
  /\ up' = [up EXCEPT ![descriptor[Mb(t)]] = Append(@, Part(t, "header"))]
  /\ Move(t, "send data")
  /\ UNCHANGED <<Sessions, Mbox_mutex, descriptor, down, ended, counts, received>>
SendData(t) ==
  /\ In(t, "send data") /\ Sendable(t)
  /\ up' = [up EXCEPT ![descriptor[Mb(t)]] = Append(@, Part(t, "data"))]
  /\ Mbox_mutex' = Unlocked(Mb(t), "send")
  /\ MulticastReturns(t)
  /\ UNCHANGED <<Sessions, descriptor, down, ended, counts, received>>
SendFails(t) ==
  /\ doing[t].at \in {"send header", "send data"} /\ ~Sendable(t)
  /\ IF Has(Mb(t))
     THEN /\ Sessions' = [Sessions EXCEPT ![SP_get_session(Mb(t))].state = "error"]
          /\ Mbox_mutex' = Unlocked(Mb(t), "send")
     ELSE UNCHANGED <<Sessions, Mbox_mutex>>
  /\ MulticastReturns(t)
  /\ UNCHANGED <<descriptor, down, up, ended, counts, received>>

-----------------------------------------------------------------------------
(* SP_scat_receive.                                                        *)

\* What there is room for; a short part may be dropped (DROP_RECV).
SP_receive(t, m, room) ==
  /\ In(t, "none") /\ "receive" \in SpDoes[t] /\ counts.conns > 0
  /\ doing' = [doing EXCEPT ![t] = [Idle_call EXCEPT !.op = "receive", !.at = "look up", !.mbox = m, !.room = room]]
  /\ result' = Nothing
  /\ UNCHANGED <<Sessions, Mbox_mutex, descriptor, down, up, ended, counts, stale>>
\* A header that was saved is not read again.
ResumeOrRead(t, s) ==
  doing' = [doing EXCEPT ![t].group = s.group, ![t].saved = s.recv_message_saved,
                         ![t].head = IF s.recv_message_saved THEN s.recv_saved_head ELSE NoPart,
                         ![t].at = IF s.recv_message_saved THEN "check" ELSE "header"]
\* The lock of the descriptor first, then the one of the table.
LookUpToReceive(t) ==
  /\ In(t, "look up") /\ doing[t].op = "receive" /\ Mbox_mutex[Mb(t)].recv = Nobody
  /\ IF Has(Mb(t)) /\ Sessions[SP_get_session(Mb(t))].state = "active"
     THEN /\ ResumeOrRead(t, Sessions[SP_get_session(Mb(t))])
          /\ Mbox_mutex' = [Mbox_mutex EXCEPT ![Mb(t)].recv = t]
     ELSE Return(t) /\ UNCHANGED Mbox_mutex
  /\ UNCHANGED <<Sessions, descriptor, down, up, ended, counts, received>>

Stream(t) == down[descriptor[Mb(t)]]
Readable(t) == Open(Mb(t)) /\ Stream(t) # <<>>
Consume(t) == down' = [down EXCEPT ![descriptor[Mb(t)]] = Tail(@)]
ReadHeader(t) ==
  /\ In(t, "header") /\ Readable(t)
  /\ doing' = [doing EXCEPT ![t].at = "check", ![t].head = Head(Stream(t))]
  /\ Consume(t)
  /\ UNCHANGED <<Sessions, Mbox_mutex, descriptor, up, ended, counts, received>>

SavedHead(t) == [Sessions EXCEPT ![SP_get_session(Mb(t))].recv_message_saved = TRUE,
                                 ![SP_get_session(Mb(t))].recv_saved_head = doing[t].head]
\* Mutant: the header is dropped with the error.
TooShortForgets(t) ==
  /\ In(t, "check") /\ doing[t].room = "too short"
  /\ Mbox_mutex' = Unlocked(Mb(t), "recv")
  /\ Return(t)
  /\ UNCHANGED <<Sessions, descriptor, down, up, ended, counts, received>>
\* BUFFER_TOO_SHORT or GROUPS_TOO_SHORT.
TooShort(t) ==
  /\ In(t, "check") /\ doing[t].room = "too short"
  /\ Sessions' = IF ~doing[t].saved /\ Has(Mb(t)) THEN SavedHead(t) ELSE Sessions
  /\ Mbox_mutex' = Unlocked(Mb(t), "recv")
  /\ Return(t)
  /\ UNCHANGED <<descriptor, down, up, ended, counts, received>>
ReadGroups(t) ==
  /\ In(t, "check") /\ doing[t].room # "too short" /\ Readable(t)
  /\ doing' = [doing EXCEPT ![t].at = "data", ![t].groups = Head(Stream(t))]
  /\ Consume(t)
  /\ UNCHANGED <<Sessions, Mbox_mutex, descriptor, up, ended, counts, received>>

\* The saved header is done with, unless data was dropped: that is an early return,
\* and the next message of the connection is read under the header of this one.
LeavesHeader(t) == doing[t].saved /\ Has(Mb(t)) /\ doing[t].room = "drop data"
ClearSaved(t) ==
  Sessions' = IF doing[t].saved /\ Has(Mb(t)) /\ doing[t].room # "drop data"
              THEN [Sessions EXCEPT ![SP_get_session(Mb(t))].recv_message_saved = FALSE,
                                    ![SP_get_session(Mb(t))].recv_saved_head = NoPart]
              ELSE Sessions
ReadData(t) ==
  /\ In(t, "data") /\ Readable(t)
  /\ result' = [group |-> doing[t].group, mixed |-> descriptor[Mb(t)] \in stale,
                head |-> doing[t].head, groups |-> doing[t].groups, data |-> Head(Stream(t))]
  /\ stale' = stale \cup {k \in {descriptor[Mb(t)]} : LeavesHeader(t)}
  /\ Consume(t)
  /\ ClearSaved(t)
  /\ Mbox_mutex' = Unlocked(Mb(t), "recv")
  /\ Return(t)
  /\ UNCHANGED <<descriptor, up, ended, counts>>
ReceiveFails(t) ==
  /\ doing[t].at \in {"header", "check", "data"} /\ (In(t, "check") => doing[t].room # "too short")
  /\ Open(Mb(t)) => Stream(t) = <<>> /\ descriptor[Mb(t)] \in ended
  /\ ReturnClosed(t, "recv")
  /\ UNCHANGED <<descriptor, down, up, ended, counts, received>>

-----------------------------------------------------------------------------
(* The daemon.                                                             *)

Connected(k) == \E m \in Mbox : descriptor[m] = k /\ k \notin ended
Incoming(k) ==
  /\ Connected(k) /\ counts.in < MaxIncoming
  /\ counts' = [counts EXCEPT !.in = @ + 1]
  /\ down' = [down EXCEPT ![k] = @ \o [i \in 1 .. 3 |->
       [kind |-> <<"header", "groups", "data">>[i], of |-> k, id |-> counts.in + 1]]]
  /\ UNCHANGED <<Sessions, Mbox_mutex, descriptor, up, ended, doing, received>>
EndConnection(k) ==
  /\ Connected(k)
  /\ ended' = ended \cup {k}
  /\ UNCHANGED <<Sessions, Mbox_mutex, descriptor, down, up, counts, doing, received>>

-----------------------------------------------------------------------------
SpInit ==
  /\ Sessions = <<>>
  /\ Mbox_mutex = [m \in Mbox |-> [send |-> Nobody, recv |-> Nobody]]
  /\ descriptor = [m \in Mbox |-> 0]
  /\ down = [k \in 1 .. MaxSessions |-> <<>>]
  /\ up = [k \in 1 .. MaxSessions |-> <<>>]
  /\ ended = {}
  /\ counts = [conns |-> 0, in |-> 0, out |-> 0]
  /\ doing = [t \in SpThread |-> Idle_call]
  /\ result = Nothing /\ stale = {}

SpCall(t) ==
  \/ \E m \in Mbox : SP_connect(t, m) \/ SP_disconnect(t, m) \/ SP_multicast(t, m)
  \/ \E m \in Mbox, room \in {"enough", "too short", "drop groups", "drop data"} : SP_receive(t, m, room)
SpStep(t) ==
  \/ ConnectFails(t) \/ ConnectAccepted(t) \/ SP_kill(t)
  \/ LookUpToSend(t) \/ LockToSend(t) \/ SendHeader(t) \/ SendData(t) \/ SendFails(t)
  \/ LookUpToReceive(t) \/ ReadHeader(t) \/ TooShort(t)
  \/ ReadGroups(t) \/ ReadData(t) \/ ReceiveFails(t)
SpNext ==
  \/ \E t \in SpThread : SpCall(t) \/ SpStep(t)
  \/ \E k \in 1 .. MaxSessions : Incoming(k) \/ EndConnection(k)
SpSpec == SpInit /\ [][SpNext]_spVars

-----------------------------------------------------------------------------
(* Properties.                                                             *)

\* A receive gives the header, the groups and the data of one message, one that
\* was sent to the session it found, however often it had no room before, whether
\* or not it asked with DROP_RECV then, and whoever else receives (recv_saved_head,
\* Mbox_mutex), unless the data of a message whose header had been kept was dropped
\* on that connection before.
OneMessage ==
  result # Nothing /\ ~result.mixed =>
    /\ result.head.kind = "header" /\ result.groups.kind = "groups" /\ result.data.kind = "data"
    /\ result.head.id = result.groups.id /\ result.groups.id = result.data.id
    /\ result.data.of = result.group

\* What a daemon is sent on a connection is whole messages of that session,
\* only the last one may be cut off (Mbox_mutex).
WholeMessages ==
  \A k \in 1 .. MaxSessions : \A i \in DOMAIN up[k] :
    /\ up[k][i].of = k
    /\ IF i % 2 = 1 THEN up[k][i].kind = "header"
       ELSE up[k][i].kind = "data" /\ up[k][i].id = up[k][i - 1].id
=============================================================================
