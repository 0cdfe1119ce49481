------------------------- MODULE SpreadClientProofs -------------------------
(***************************************************************************)
(* The threads of SpreadClient send and read whole messages, as long as a  *)
(* descriptor number is used again only when no call is left on it.        *)
(***************************************************************************)
EXTENDS SpreadClient, SequenceTheorems, TLAPS

Room  == {"enough", "too short", "drop groups", "drop data"}
Place == {"none", "handshake", "look up", "kill", "send lock", "send header", "send data",
          "header", "check", "data"}
APart == [kind : {"none", "header", "groups", "data"}, of : 0 .. MaxSessions, id : Nat]
ACall == [op : {"none", "connect", "disconnect", "multicast", "receive"}, at : Place,
          mbox : Mbox \cup {0}, group : 0 .. MaxSessions, id : Nat, saved : BOOLEAN,
          room : Room, head : APart, groups : APart]
ASession == [mbox : Mbox, group : 1 .. MaxSessions, state : {"active", "error"},
             recv_message_saved : BOOLEAN, recv_saved_head : APart]
Owner == SpThread \cup {Nobody}

SpTypeOK ==
  /\ Sessions \in Seq(ASession)
  /\ Mbox_mutex \in [Mbox -> [send : Owner, recv : Owner]]
  /\ descriptor \in [Mbox -> 0 .. MaxSessions]
  /\ down \in [1 .. MaxSessions -> Seq(APart)] /\ up \in [1 .. MaxSessions -> Seq(APart)]
  /\ ended \in SUBSET (1 .. MaxSessions)
  /\ counts \in [conns : 0 .. MaxSessions, in : Nat, out : Nat]
  /\ doing \in [SpThread -> ACall]
  /\ result \in [group : 0 .. MaxSessions, mixed : BOOLEAN, head : APart, groups : APart, data : APart]
  /\ stale \in SUBSET (1 .. MaxSessions)

-----------------------------------------------------------------------------
(***************************************************************************)
(* Numbers of descriptors and of connections.                              *)
(***************************************************************************)
\* The sessions are those of the open connections, one for each descriptor.
TableRight ==
  \A i \in DOMAIN Sessions :
    /\ descriptor[Sessions[i].mbox] = Sessions[i].group
    /\ \A j \in DOMAIN Sessions : Sessions[i].mbox = Sessions[j].mbox => i = j

OneNumber ==
  /\ \A m, n \in Mbox : Open(m) /\ descriptor[m] = descriptor[n] => m = n
  /\ \A m \in Mbox : descriptor[m] <= counts.conns
  /\ \A k \in 1 .. MaxSessions : k > counts.conns => down[k] = <<>> /\ up[k] = <<>>

Sending(t) == doing[t].at \in {"send lock", "send header", "send data"}
Reading(t) == doing[t].at \in {"header", "check", "data"}

\* A call that has found its session has the connection of that session, or
\* the connection is closed; the number is not used again under it.
CallsRight ==
  \A t \in SpThread :
    /\ ~In(t, "none") => Mb(t) \in Mbox
    /\ In(t, "handshake") => /\ Open(Mb(t)) /\ ~Has(Mb(t))
                             /\ \A u \in SpThread \ {t} : ~(In(u, "handshake") /\ Mb(u) = Mb(t))
    /\ (Sending(t) \/ Reading(t)) /\ Open(Mb(t)) => Has(Mb(t)) /\ descriptor[Mb(t)] = doing[t].group
    /\ doing[t].at \in {"send header", "send data"} => Mbox_mutex[Mb(t)].send = t
    /\ Reading(t) => Mbox_mutex[Mb(t)].recv = t

NumbersInv == SpTypeOK /\ TableRight /\ OneNumber /\ CallsRight

-----------------------------------------------------------------------------
(***************************************************************************)
(* What is sent.                                                           *)
(***************************************************************************)
Unfinished(k) == Len(up[k]) % 2 = 1

\* A header that waits for its data is the one of the sender that will send it.
SendersInTurn ==
  /\ \A t \in SpThread : In(t, "send data") /\ Sendable(t) =>
       /\ Unfinished(descriptor[Mb(t)])
       /\ up[descriptor[Mb(t)]][Len(up[descriptor[Mb(t)]])].id = doing[t].id
  /\ \A m \in Mbox : Open(m) /\ descriptor[m] \notin ended /\ Unfinished(descriptor[m])
       => \E t \in SpThread : In(t, "send data") /\ Mb(t) = m

SendInv == NumbersInv /\ SendersInTurn /\ WholeMessages

-----------------------------------------------------------------------------
(***************************************************************************)
(* What is read.                                                           *)
(***************************************************************************)
\* Parts in their order, the last message whole; the first may have begun.
Chain(s, k) ==
  \A i \in 1 .. Len(s) :
    /\ s[i].of = k /\ s[i].kind \in {"header", "groups", "data"}
    /\ s[i].kind = "header" => i < Len(s) /\ s[i + 1].kind = "groups" /\ s[i + 1].id = s[i].id
    /\ s[i].kind = "groups" => i < Len(s) /\ s[i + 1].kind = "data" /\ s[i + 1].id = s[i].id
    /\ s[i].kind = "data" /\ i < Len(s) => s[i + 1].kind = "header"

AtHeader(s) == s # <<>> => s[1].kind = "header"
Begins(s, kind, id) == s # <<>> /\ s[1].kind = kind /\ s[1].id = id

\* What the reader t has of the message whose other parts the stream s begins with.
ReadSoFar(t, s) ==
  /\ In(t, "header") => AtHeader(s) /\ ~doing[t].saved
  /\ In(t, "check") => Begins(s, "groups", doing[t].head.id)
  /\ In(t, "data") => Begins(s, "data", doing[t].head.id)

ReaderRight(t) ==
  Reading(t) /\ doing[t].group \notin stale =>
  /\ doing[t].at \in {"check", "data"} => doing[t].head.kind = "header"
  /\ In(t, "data") => doing[t].groups.kind = "groups" /\ doing[t].groups.id = doing[t].head.id
  /\ Open(Mb(t)) => ReadSoFar(t, down[descriptor[Mb(t)]])
  /\ \A i \in DOMAIN Sessions : Sessions[i].mbox = Mb(t) =>
       /\ doing[t].saved = Sessions[i].recv_message_saved
       /\ doing[t].saved /\ In(t, "check") => Sessions[i].recv_saved_head = doing[t].head
ReadersInTurn == \A t \in SpThread : ReaderRight(t)

\* Between two readers the session knows where the stream is, unless it kept
\* a header too long.
Resting(s, stream) ==
  IF s.recv_message_saved
  THEN s.recv_saved_head.kind = "header" /\ Begins(stream, "groups", s.recv_saved_head.id)
  ELSE AtHeader(stream)

SavedRight ==
  /\ \A i \in DOMAIN Sessions :
       \/ Sessions[i].group \in stale
       \/ \E t \in SpThread : Reading(t) /\ Mb(t) = Sessions[i].mbox
       \/ Resting(Sessions[i], down[Sessions[i].group])
  /\ \A m \in Mbox : Open(m) /\ ~Has(m) => AtHeader(down[descriptor[m]])

Chains == \A k \in 1 .. MaxSessions : Chain(down[k], k)

ReadInv == NumbersInv /\ Chains /\ ReadersInTurn /\ SavedRight /\ OneMessage

-----------------------------------------------------------------------------
(***************************************************************************)
(* The table of sessions.                                                  *)
(***************************************************************************)
LEMMA Found ==
    ASSUME SpTypeOK, TableRight, NEW m \in Mbox, Has(m)
    PROVE  /\ SP_get_session(m) \in DOMAIN Sessions
           /\ Sessions[SP_get_session(m)].mbox = m
           /\ Sessions[SP_get_session(m)] \in ASession
<1>1. PICK i \in DOMAIN Sessions : Sessions[i].mbox = m
  BY DEF Has
<1>2. \A j \in 1 .. i - 1 : Sessions[j].mbox # m
  BY <1>1 DEF TableRight, SpTypeOK
<1>3. \E k \in DOMAIN Sessions : Sessions[k].mbox = m /\ \A j \in 1 .. k - 1 : Sessions[j].mbox # m
  BY <1>1, <1>2
<1>4. SP_get_session(m) \in DOMAIN Sessions /\ Sessions[SP_get_session(m)].mbox = m
  BY <1>3 DEF SP_get_session
<1> QED  BY <1>4 DEF SpTypeOK

\* The parts of s before and after its i-th element.
Around(S, s, i, a, b) ==
  /\ s \in Seq(S) /\ i \in 1 .. Len(s)
  /\ a \in Seq(S) /\ Len(a) = i - 1 /\ \A j \in 1 .. i - 1 : a[j] = s[j]
  /\ b \in Seq(S) /\ Len(b) = Len(s) - i /\ \A j \in 1 .. Len(s) - i : b[j] = s[i + j]

\* What is left of s without its i-th element.
LeftOf(S, s, i, r) ==
  /\ r \in Seq(S) /\ Len(r) = Len(s) - 1
  /\ \A j \in 1 .. Len(s) - 1 : r[j] = IF j < i THEN s[j] ELSE s[j + 1]

LEMMA Joined ==
    ASSUME NEW S, NEW s, NEW i, NEW a, NEW b, Around(S, s, i, a, b)
    PROVE  LeftOf(S, s, i, a \o b)
<1> USE DEF Around
<1>1. /\ a \o b \in Seq(S) /\ Len(a \o b) = Len(a) + Len(b)
      /\ \A j \in 1 .. Len(a) + Len(b) : (a \o b)[j] = IF j <= Len(a) THEN a[j] ELSE b[j - Len(a)]
  BY ConcatProperties
<1>2. Len(a \o b) = Len(s) - 1
  BY <1>1
<1>3. ASSUME NEW j \in 1 .. Len(s) - 1
      PROVE  (a \o b)[j] = IF j < i THEN s[j] ELSE s[j + 1]
  <2>1. CASE j < i
    BY <1>1, <2>1
  <2>2. CASE j >= i
    <3>1. (a \o b)[j] = b[j - (i - 1)] /\ j - (i - 1) \in 1 .. Len(s) - i
      BY <1>1, <2>2, SMTT(30)
    <3>2. b[j - (i - 1)] = s[i + (j - (i - 1))] /\ i + (j - (i - 1)) = j + 1
      BY <3>1
    <3> QED  BY <2>2, <3>1, <3>2
  <2> QED  BY <2>1, <2>2
<1> QED  BY <1>1, <1>2, <1>3 DEF LeftOf

LEMMA Removed ==
    ASSUME NEW S, NEW s \in Seq(S), NEW i \in DOMAIN s, NEW r,
           r = SubSeq(s, 1, i - 1) \o SubSeq(s, i + 1, Len(s))
    PROVE  /\ r \in Seq(S) /\ Len(r) = Len(s) - 1
           /\ \A j \in 1 .. Len(s) - 1 : r[j] = IF j < i THEN s[j] ELSE s[j + 1]
<1>1. i \in 1 .. Len(s) /\ Len(s) \in Nat /\ \A j \in 1 .. Len(s) : s[j] \in S
  OBVIOUS
<1>2. /\ SubSeq(s, 1, i - 1) \in Seq(S) /\ Len(SubSeq(s, 1, i - 1)) = i - 1
      /\ \A j \in 1 .. i - 1 : SubSeq(s, 1, i - 1)[j] = s[j]
  <2>1. \A j \in 1 .. i - 1 : s[j] \in S
    BY <1>1
  <2> QED  BY <1>1, <2>1, SubSeqProperties
<1>3. /\ SubSeq(s, i + 1, Len(s)) \in Seq(S) /\ Len(SubSeq(s, i + 1, Len(s))) = Len(s) - i
      /\ \A j \in 1 .. Len(s) - i : SubSeq(s, i + 1, Len(s))[j] = s[i + j]
  <2>1. \A j \in i + 1 .. Len(s) : s[j] \in S
    BY <1>1
  <2> QED  BY <1>1, <2>1, SubSeqProperties, SMTT(30)
<1>4. Around(S, s, i, SubSeq(s, 1, i - 1), SubSeq(s, i + 1, Len(s)))
  BY <1>1, <1>2, <1>3 DEF Around
<1>5. PICK a, b : Around(S, s, i, a, b) /\ r = a \o b
  BY <1>4, Zenon
<1>6. LeftOf(S, s, i, a \o b)
  BY <1>5, Joined, Zenon
<1>7. LeftOf(S, s, i, r)
  BY <1>5, <1>6, Zenon
<1> QED  BY <1>7, Zenon DEF LeftOf

LEMMA Changed ==
    ASSUME NEW S, NEW s \in Seq(S), NEW i \in DOMAIN s, NEW x \in S
    PROVE  /\ [s EXCEPT ![i] = x] \in Seq(S) /\ Len([s EXCEPT ![i] = x]) = Len(s)
           /\ DOMAIN [s EXCEPT ![i] = x] = DOMAIN s
           /\ \A j \in DOMAIN s : [s EXCEPT ![i] = x][j] = IF j = i THEN x ELSE s[j]
OBVIOUS

LEMMA CallOfThread ==
    ASSUME SpTypeOK, NEW t \in SpThread
    PROVE  /\ doing[t] \in ACall
           /\ doing[t].mbox \in Mbox \cup {0} /\ doing[t].group \in 0 .. MaxSessions
           /\ doing[t].at \in Place /\ doing[t].id \in Nat /\ doing[t].saved \in BOOLEAN
           /\ doing[t].head \in APart /\ doing[t].groups \in APart /\ doing[t].room \in Room
BY DEF SpTypeOK, ACall

LEMMA IdleIsCall == Idle_call \in ACall /\ NoPart \in APart
BY SpAssumption DEF Idle_call, ACall, NoPart, APart, Place, Room

-----------------------------------------------------------------------------
(***************************************************************************)
(* Types.                                                                  *)
(***************************************************************************)
LEMMA StateChanged ==
    ASSUME SpTypeOK, TableRight, NEW m \in Mbox, Has(m),
           Sessions' = [Sessions EXCEPT ![SP_get_session(m)].state = "error"]
    PROVE  Sessions' \in Seq(ASession)
<1>1. PICK i : i = SP_get_session(m)
  OBVIOUS
<1>2. i \in DOMAIN Sessions /\ Sessions[i] \in ASession
  BY <1>1, Found
<1>3. Sessions' = [Sessions EXCEPT ![i] = [Sessions[i] EXCEPT !.state = "error"]]
  BY <1>1, <1>2
<1>4. [Sessions[i] EXCEPT !.state = "error"] \in ASession
  BY <1>2 DEF ASession
<1>5. Sessions \in Seq(ASession)
  BY DEF SpTypeOK
<1>6. [Sessions EXCEPT ![i] = [Sessions[i] EXCEPT !.state = "error"]] \in Seq(ASession)
  BY <1>2, <1>4, <1>5, Changed
<1> QED  BY <1>3, <1>6

LEMMA SavedChanged ==
    ASSUME SpTypeOK, TableRight, NEW m \in Mbox, Has(m), NEW b \in BOOLEAN, NEW h \in APart,
           Sessions' = [Sessions EXCEPT ![SP_get_session(m)].recv_message_saved = b,
                                        ![SP_get_session(m)].recv_saved_head = h]
    PROVE  Sessions' \in Seq(ASession)
<1>1. PICK i : i = SP_get_session(m)
  OBVIOUS
<1>2. i \in DOMAIN Sessions /\ Sessions[i] \in ASession
  BY <1>1, Found
<1>3. Sessions' = [Sessions EXCEPT ![i] = [Sessions[i] EXCEPT !.recv_message_saved = b,
                                                              !.recv_saved_head = h]]
  BY <1>1, <1>2 DEF SpTypeOK
<1>4. [Sessions[i] EXCEPT !.recv_message_saved = b, !.recv_saved_head = h] \in ASession
  BY <1>2 DEF ASession
<1>5. Sessions \in Seq(ASession)
  BY DEF SpTypeOK
<1>6. [Sessions EXCEPT ![i] = [Sessions[i] EXCEPT !.recv_message_saved = b,
                                                  !.recv_saved_head = h]] \in Seq(ASession)
  BY <1>2, <1>4, <1>5, Changed
<1> QED  BY <1>3, <1>6

LEMMA Forgotten ==
    ASSUME SpTypeOK, NEW m \in Mbox, Open(m), Forget(descriptor[m])
    PROVE  /\ down' \in [1 .. MaxSessions -> Seq(APart)] /\ up' \in [1 .. MaxSessions -> Seq(APart)]
           /\ ended' \in SUBSET (1 .. MaxSessions)
<1>1. descriptor[m] \in 1 .. MaxSessions /\ <<>> \in Seq(APart)
  BY SpAssumption DEF SpTypeOK, Open
<1>2. down' = [down EXCEPT ![descriptor[m]] = <<>>] /\ up' = [up EXCEPT ![descriptor[m]] = <<>>]
  BY DEF Forget
<1> QED  BY <1>1, <1>2, ZenonT(40) DEF SpTypeOK, Forget

LEMMA SpTypeInit == SpInit => SpTypeOK
BY SpAssumption, IdleIsCall DEF SpInit, SpTypeOK, Owner, NoPart, Nothing

LEMMA TypeCall ==
    ASSUME SpTypeOK, NEW t \in SpThread, SpCall(t)
    PROVE  SpTypeOK'
<1> USE DEF received
<1>0. /\ MaxSessions \in Nat /\ counts.conns \in 0 .. MaxSessions
      /\ counts.in \in Nat /\ counts.out \in Nat /\ counts.out + 1 \in Nat
  BY SpAssumption DEF SpTypeOK
<1>m. Idle_call \in ACall /\ MaxSessions \in Nat /\ counts.out + 1 \in Nat
  BY <1>0, IdleIsCall
<1>c. counts = [conns |-> counts.conns, in |-> counts.in, out |-> counts.out]
  BY DEF SpTypeOK
<1>1. ASSUME NEW m \in Mbox, SP_connect(t, m) PROVE SpTypeOK'
  <2>1. counts' \in [conns : 0 .. MaxSessions, in : Nat, out : Nat]
    BY <1>0, <1>c, <1>1 DEF SP_connect
  <2>2. doing' \in [SpThread -> ACall]
    BY <1>m, <1>1 DEF SP_connect, SpTypeOK, Idle_call, NoPart, ACall, Place, Room
  <2>3. descriptor' \in [Mbox -> 0 .. MaxSessions]
    BY <1>0, <1>1 DEF SP_connect, SpTypeOK
  <2> QED  BY <1>1, <2>1, <2>2, <2>3 DEF SP_connect, SpTypeOK
<1>2. ASSUME NEW m \in Mbox, SP_disconnect(t, m) PROVE SpTypeOK'
  BY <1>m, <1>2 DEF SP_disconnect, SpTypeOK, Idle_call, NoPart, ACall, Place, Room
<1>3. ASSUME NEW m \in Mbox, SP_multicast(t, m) PROVE SpTypeOK'
  <2>1. counts' \in [conns : 0 .. MaxSessions, in : Nat, out : Nat]
    BY <1>0, <1>c, <1>3 DEF SP_multicast
  <2>2. doing' \in [SpThread -> ACall]
    BY <1>m, <1>3 DEF SP_multicast, SpTypeOK, Idle_call, NoPart, ACall, Place, Room
  <2> QED  BY <1>3, <2>1, <2>2 DEF SP_multicast, SpTypeOK
<1>4. ASSUME NEW m \in Mbox, NEW room \in Room, SP_receive(t, m, room) PROVE SpTypeOK'
  BY <1>m, <1>4 DEF SP_receive, SpTypeOK, Idle_call, NoPart, ACall, Place, Room, Nothing
<1> QED  BY <1>1, <1>2, <1>3, <1>4 DEF SpCall, Room

LEMMA MoveReturnTypes ==
    ASSUME SpTypeOK, NEW t \in SpThread
    PROVE  /\ \A p \in Place : Move(t, p) => doing' \in [SpThread -> ACall]
           /\ Return(t) => doing' \in [SpThread -> ACall]
           /\ MulticastReturns(t) => doing' \in [SpThread -> ACall]
<1>1. doing[t] \in ACall /\ \A p \in Place : [doing[t] EXCEPT !.at = p] \in ACall
  BY CallOfThread DEF ACall
<1>2. \A p \in Place : Move(t, p) => doing' \in [SpThread -> ACall]
  BY <1>1 DEF Move, SpTypeOK
<1>3. Return(t) => doing' \in [SpThread -> ACall]
  BY IdleIsCall DEF Return, SpTypeOK
<1> QED  BY <1>2, <1>3 DEF MulticastReturns, Place

LEMMA CallTypes ==
    ASSUME SpTypeOK, NEW t \in SpThread, NEW c \in ACall, doing' = [doing EXCEPT ![t] = c]
    PROVE  doing' \in [SpThread -> ACall]
BY DEF SpTypeOK

LEMMA LockTypes ==
    ASSUME SpTypeOK, NEW m \in Mbox, NEW t \in SpThread
    PROVE  /\ [Mbox_mutex EXCEPT ![m].send = t] \in [Mbox -> [send : Owner, recv : Owner]]
           /\ [Mbox_mutex EXCEPT ![m].recv = t] \in [Mbox -> [send : Owner, recv : Owner]]
<1>1. t \in Owner
  BY DEF Owner
<1> QED  BY <1>1 DEF SpTypeOK

LEMMA AppendTypes ==
    ASSUME SpTypeOK, NEW k \in 1 .. MaxSessions, NEW x \in APart
    PROVE  [up EXCEPT ![k] = Append(@, x)] \in [1 .. MaxSessions -> Seq(APart)]
<1>0. up[k] \in Seq(APart)
  BY DEF SpTypeOK
<1>1. Append(up[k], x) \in Seq(APart)
  BY <1>0
<1> QED  BY <1>1 DEF SpTypeOK

LEMMA UnlockedTypes ==
    ASSUME SpTypeOK, NEW m \in Mbox, NEW lock \in {"send", "recv"}
    PROVE  Unlocked(m, lock) \in [Mbox -> [send : Owner, recv : Owner]]
BY DEF SpTypeOK, Unlocked, Owner

LEMMA TypeSession ==
    ASSUME SpTypeOK, TableRight, CallsRight, NEW t \in SpThread,
           ConnectFails(t) \/ ConnectAccepted(t) \/ SP_kill(t)
    PROVE  SpTypeOK'
<1> USE DEF received
<1>m. MaxSessions \in Nat /\ 0 \in 0 .. MaxSessions
  BY SpAssumption
<1>0. Mb(t) \in Mbox
  BY DEF CallsRight, ConnectFails, ConnectAccepted, SP_kill, In
<1>1. CASE ConnectFails(t)
  <2>1. Open(Mb(t))
    BY <1>1 DEF CallsRight, ConnectFails
  <2>2. descriptor' \in [Mbox -> 0 .. MaxSessions]
    BY <1>m, <1>1 DEF ConnectFails, SpTypeOK
  <2> QED  BY <1>0, <1>1, <2>1, <2>2, Forgotten, MoveReturnTypes DEF ConnectFails, SpTypeOK
<1>2. CASE ConnectAccepted(t)
  <2>0. Open(Mb(t)) /\ descriptor[Mb(t)] \in 0 .. MaxSessions
    BY <1>0, <1>2 DEF CallsRight, ConnectAccepted, SpTypeOK
  <2>1. descriptor[Mb(t)] \in 1 .. MaxSessions
    BY <1>m, <2>0 DEF Open
  <2>2. Sessions' \in Seq(ASession)
    BY <1>0, <1>2, <2>1, IdleIsCall DEF ConnectAccepted, SpTypeOK, ASession
  <2> QED  BY <1>2, <2>2, MoveReturnTypes DEF ConnectAccepted, SpTypeOK
<1>3. CASE SP_kill(t)
  <2>1. CASE ~Has(Mb(t))
    BY <1>3, <2>1, MoveReturnTypes DEF SP_kill, SpTypeOK
  <2>2. CASE Has(Mb(t))
    <3>1. PICK i \in {SP_get_session(Mb(t))} :
            Sessions' = SubSeq(Sessions, 1, i - 1) \o SubSeq(Sessions, i + 1, Len(Sessions))
      BY <1>3, <2>2 DEF SP_kill
    <3>2. i \in DOMAIN Sessions /\ Sessions[i] \in ASession /\ Sessions[i].mbox = Mb(t)
      BY <1>0, <2>2, <3>1, Found
    <3>3. Open(Mb(t))
      BY <3>2, SpAssumption DEF TableRight, Open, ASession
    <3>4. Sessions \in Seq(ASession)
      BY DEF SpTypeOK
    <3>5. Sessions' \in Seq(ASession)
      BY <3>1, <3>2, <3>4, Removed
    <3>6. descriptor' \in [Mbox -> 0 .. MaxSessions]
      BY <1>m, <1>3, <2>2 DEF SP_kill, SpTypeOK
    <3>7. Forget(descriptor[Mb(t)])
      BY <1>3, <2>2 DEF SP_kill
    <3> QED  BY <1>0, <1>3, <3>3, <3>5, <3>6, <3>7, Forgotten, MoveReturnTypes DEF SP_kill, SpTypeOK
  <2> QED  BY <2>1, <2>2
<1> QED  BY <1>1, <1>2, <1>3

LEMMA OpenNumber ==
    ASSUME SpTypeOK, NEW m \in Mbox, Open(m)
    PROVE  descriptor[m] \in 1 .. MaxSessions
BY SpAssumption DEF SpTypeOK, Open

LEMMA TypeSend ==
    ASSUME SpTypeOK, TableRight, CallsRight, NEW t \in SpThread,
           LookUpToSend(t) \/ LockToSend(t) \/ SendHeader(t) \/ SendData(t) \/ SendFails(t)
    PROVE  SpTypeOK'
<1> USE DEF received
<1>0. Mb(t) \in Mbox
  BY DEF CallsRight, LookUpToSend, LockToSend, SendHeader, SendData, SendFails, In
<1>1. \A p \in {"header", "data"} : Part(t, p) \in APart
  BY CallOfThread DEF Part, APart
<1>2. CASE LookUpToSend(t)
  <2>1. CASE Has(Mb(t)) /\ Sessions[SP_get_session(Mb(t))].state = "active"
    <3>1. PICK g : g = Sessions[SP_get_session(Mb(t))].group
      OBVIOUS
    <3>2. g \in 0 .. MaxSessions
      BY <1>0, <2>1, <3>1, Found, SpAssumption DEF ASession
    <3>3. doing' = [doing EXCEPT ![t].at = "send lock", ![t].group = g]
      BY <1>2, <2>1, <3>1 DEF LookUpToSend
    <3>4. [doing[t] EXCEPT !.at = "send lock", !.group = g] \in ACall
      BY <3>2, CallOfThread DEF ACall, Place
    <3>5. doing' = [doing EXCEPT ![t] = [doing[t] EXCEPT !.at = "send lock", !.group = g]]
      BY <3>3 DEF SpTypeOK
    <3>6. doing' \in [SpThread -> ACall]
      BY <3>4, <3>5, CallTypes
    <3> QED  BY <1>2, <3>6 DEF LookUpToSend, SpTypeOK
  <2>2. CASE ~(Has(Mb(t)) /\ Sessions[SP_get_session(Mb(t))].state = "active")
    BY <1>2, <2>2, MoveReturnTypes DEF LookUpToSend, SpTypeOK
  <2> QED  BY <2>1, <2>2
<1>3. CASE LockToSend(t)
  <2>1. Mbox_mutex' \in [Mbox -> [send : Owner, recv : Owner]]
    BY <1>0, <1>3, LockTypes DEF LockToSend
  <2> QED  BY <1>3, <2>1, MoveReturnTypes DEF LockToSend, SpTypeOK, Place
<1>4. CASE SendHeader(t)
  <2>1. up' \in [1 .. MaxSessions -> Seq(APart)]
    BY <1>0, <1>1, <1>4, OpenNumber, AppendTypes DEF SendHeader, Sendable
  <2> QED  BY <1>4, <2>1, MoveReturnTypes DEF SendHeader, SpTypeOK, Place
<1>5. CASE SendData(t)
  <2>1. up' \in [1 .. MaxSessions -> Seq(APart)]
    BY <1>0, <1>1, <1>5, OpenNumber, AppendTypes DEF SendData, Sendable
  <2> QED  BY <1>0, <1>5, <2>1, MoveReturnTypes, UnlockedTypes DEF SendData, SpTypeOK
<1>6. CASE SendFails(t)
  <2>1. Sessions' \in Seq(ASession) /\ Mbox_mutex' \in [Mbox -> [send : Owner, recv : Owner]]
    BY <1>0, <1>6, StateChanged, UnlockedTypes DEF SendFails, SpTypeOK
  <2> QED  BY <1>6, <2>1, MoveReturnTypes DEF SendFails, SpTypeOK
<1> QED  BY <1>2, <1>3, <1>4, <1>5, <1>6

LEMMA NextPart ==
    ASSUME SpTypeOK, NEW t \in SpThread, Mb(t) \in Mbox, Readable(t)
    PROVE  /\ descriptor[Mb(t)] \in 1 .. MaxSessions
           /\ Head(Stream(t)) \in APart /\ Tail(Stream(t)) \in Seq(APart)
           /\ Consume(t) => down' \in [1 .. MaxSessions -> Seq(APart)]
<1>1. descriptor[Mb(t)] \in 1 .. MaxSessions
  BY OpenNumber DEF Readable
<1>2. Stream(t) \in Seq(APart) /\ Stream(t) # <<>>
  BY <1>1 DEF SpTypeOK, Stream, Readable
<1>3. Head(Stream(t)) \in APart /\ Tail(Stream(t)) \in Seq(APart)
  BY <1>2
<1>4. Consume(t) => down' \in [1 .. MaxSessions -> Seq(APart)]
  BY <1>1, <1>3 DEF Consume, SpTypeOK, Stream
<1> QED  BY <1>1, <1>3, <1>4

LEMMA TypeReceive ==
    ASSUME SpTypeOK, TableRight, CallsRight, NEW t \in SpThread,
           \/ LookUpToReceive(t) \/ ReadHeader(t) \/ TooShort(t)
           \/ ReadGroups(t) \/ ReadData(t) \/ ReceiveFails(t)
    PROVE  SpTypeOK'
<1> USE DEF received
<1>0. Mb(t) \in Mbox
  BY DEF CallsRight, LookUpToReceive, ReadHeader, TooShort, ReadGroups, ReadData, ReceiveFails, In
<1>1. CASE LookUpToReceive(t)
  <2>1. CASE Has(Mb(t)) /\ Sessions[SP_get_session(Mb(t))].state = "active"
    <3>1. PICK s \in ASession : s = Sessions[SP_get_session(Mb(t))]
      BY <1>0, <2>1, Found
    <3>2. /\ s.group \in 0 .. MaxSessions /\ s.recv_message_saved \in BOOLEAN
          /\ s.recv_saved_head \in APart
      BY SpAssumption DEF ASession
    <3>3. ResumeOrRead(t, s)
      BY <1>1, <2>1, <3>1 DEF LookUpToReceive
    <3>4. doing' \in [SpThread -> ACall]
      <4>1. PICK h, p : /\ h = IF s.recv_message_saved THEN s.recv_saved_head ELSE NoPart
                        /\ p = IF s.recv_message_saved THEN "check" ELSE "header"
        OBVIOUS
      <4>2. h \in APart /\ p \in Place
        BY <3>2, <4>1, IdleIsCall DEF Place
      <4>3. [doing[t] EXCEPT !.group = s.group, !.saved = s.recv_message_saved,
                             !.head = h, !.at = p] \in ACall
        BY <3>2, <4>2, CallOfThread DEF ACall
      <4>4. doing' = [doing EXCEPT ![t] = [doing[t] EXCEPT !.group = s.group,
                        !.saved = s.recv_message_saved, !.head = h, !.at = p]]
        BY <3>3, <4>1 DEF ResumeOrRead, SpTypeOK
      <4> QED  BY <4>3, <4>4, CallTypes
    <3>5. Mbox_mutex' \in [Mbox -> [send : Owner, recv : Owner]]
      <4>1. Mbox_mutex' = [Mbox_mutex EXCEPT ![Mb(t)].recv = t]
        BY <1>1, <2>1 DEF LookUpToReceive
      <4> QED  BY <1>0, <4>1, LockTypes
    <3> QED  BY <1>1, <3>4, <3>5 DEF LookUpToReceive, SpTypeOK
  <2>2. CASE ~(Has(Mb(t)) /\ Sessions[SP_get_session(Mb(t))].state = "active")
    BY <1>1, <2>2, MoveReturnTypes DEF LookUpToReceive, SpTypeOK
  <2> QED  BY <2>1, <2>2
<1>2. CASE ReadHeader(t)
  <2>1. doing' \in [SpThread -> ACall]
    <3>1. PICK h \in APart : h = Head(Stream(t))
      BY <1>0, <1>2, NextPart DEF ReadHeader
    <3>2. [doing[t] EXCEPT !.at = "check", !.head = h] \in ACall
      BY CallOfThread, ZenonT(40) DEF ACall, Place
    <3>3. doing' = [doing EXCEPT ![t] = [doing[t] EXCEPT !.at = "check", !.head = h]]
      BY <1>2, <3>1 DEF ReadHeader, SpTypeOK
    <3> QED  BY <3>2, <3>3, CallTypes
  <2> QED  BY <1>0, <1>2, <2>1, NextPart DEF ReadHeader, SpTypeOK
<1>3. CASE TooShort(t)
  <2>1. Sessions' \in Seq(ASession)
    <3>1. CASE ~doing[t].saved /\ Has(Mb(t))
      BY <1>0, <1>3, <3>1, CallOfThread, SavedChanged DEF TooShort, SavedHead
    <3>2. CASE ~(~doing[t].saved /\ Has(Mb(t)))
      BY <1>3, <3>2 DEF TooShort, SpTypeOK
    <3> QED  BY <3>1, <3>2
  <2> QED  BY <1>0, <1>3, <2>1, MoveReturnTypes, UnlockedTypes DEF TooShort, SpTypeOK
<1>4. CASE ReadGroups(t)
  <2>1. doing' \in [SpThread -> ACall]
    <3>1. PICK h \in APart : h = Head(Stream(t))
      BY <1>0, <1>4, NextPart DEF ReadGroups
    <3>2. [doing[t] EXCEPT !.at = "data", !.groups = h] \in ACall
      BY CallOfThread DEF ACall, Place
    <3>3. doing' = [doing EXCEPT ![t] = [doing[t] EXCEPT !.at = "data", !.groups = h]]
      BY <1>4, <3>1 DEF ReadGroups, SpTypeOK
    <3> QED  BY <3>2, <3>3, CallTypes
  <2> QED  BY <1>0, <1>4, <2>1, NextPart DEF ReadGroups, SpTypeOK
<1>5. CASE ReadData(t)
  <2>1. Sessions' \in Seq(ASession)
    <3>1. CASE doing[t].saved /\ Has(Mb(t)) /\ doing[t].room # "drop data"
      BY <1>0, <1>5, <3>1, IdleIsCall, SavedChanged DEF ReadData, ClearSaved
    <3>2. CASE ~(doing[t].saved /\ Has(Mb(t)) /\ doing[t].room # "drop data")
      BY <1>5, <3>2 DEF ReadData, ClearSaved, SpTypeOK
    <3> QED  BY <3>1, <3>2
  <2>2. result' \in [group : 0 .. MaxSessions, mixed : BOOLEAN, head : APart, groups : APart, data : APart]
    <3>1. PICK b \in BOOLEAN : b = (descriptor[Mb(t)] \in stale)
      <4>1. (descriptor[Mb(t)] \in stale) \in BOOLEAN
        OBVIOUS
      <4> QED  BY <4>1
    <3> QED  BY <1>0, <1>5, <3>1, CallOfThread, NextPart DEF ReadData
  <2>3. stale' \in SUBSET (1 .. MaxSessions)
    <3>1. descriptor[Mb(t)] \in 1 .. MaxSessions
      BY <1>0, <1>5, OpenNumber DEF ReadData, Readable
    <3> QED  BY <1>5, <3>1 DEF ReadData, SpTypeOK
  <2> QED  BY <1>0, <1>5, <2>1, <2>2, <2>3, MoveReturnTypes, UnlockedTypes, NextPart DEF ReadData, SpTypeOK
<1>6. CASE ReceiveFails(t)
  <2>1. Sessions' \in Seq(ASession) /\ Mbox_mutex' \in [Mbox -> [send : Owner, recv : Owner]]
    <3>1. CASE Has(Mb(t))
      BY <1>0, <1>6, <3>1, StateChanged, UnlockedTypes DEF ReceiveFails, ReturnClosed
    <3>2. CASE ~Has(Mb(t))
      BY <1>6, <3>2 DEF ReceiveFails, ReturnClosed, SpTypeOK
    <3> QED  BY <3>1, <3>2
  <2> QED  BY <1>6, <2>1, MoveReturnTypes DEF ReceiveFails, ReturnClosed, SpTypeOK
<1> QED  BY <1>1, <1>2, <1>3, <1>4, <1>5, <1>6

LEMMA TypeDaemon ==
    ASSUME SpTypeOK, NEW k \in 1 .. MaxSessions, Incoming(k) \/ EndConnection(k)
    PROVE  SpTypeOK'
<1> USE DEF received
<1>0. counts.in + 1 \in Nat /\ counts.out \in Nat /\ counts.conns \in 0 .. MaxSessions
      /\ k \in 0 .. MaxSessions
  BY SpAssumption DEF SpTypeOK
<1>1. CASE Incoming(k)
  <2>1. PICK m : m = [i \in 1 .. 3 |-> [kind |-> <<"header", "groups", "data">>[i], of |-> k,
                                        id |-> counts.in + 1]]
    OBVIOUS
  <2>2. \A i \in 1 .. 3 : m[i] \in APart
    BY <1>0, <2>1 DEF APart
  <2>3. m \in Seq(APart)
    BY <2>1, <2>2
  <2>4. down' = [down EXCEPT ![k] = @ \o m] /\ counts' = [counts EXCEPT !.in = @ + 1]
    BY <1>1, <2>1 DEF Incoming
  <2>5. down' \in [1 .. MaxSessions -> Seq(APart)]
    BY <2>3, <2>4 DEF SpTypeOK
  <2>6. counts' \in [conns : 0 .. MaxSessions, in : Nat, out : Nat]
    BY <1>0, <2>4 DEF SpTypeOK
  <2> QED  BY <1>1, <2>5, <2>6 DEF Incoming, SpTypeOK
<1>2. CASE EndConnection(k)
  BY <1>2 DEF EndConnection, SpTypeOK
<1> QED  BY <1>1, <1>2

LEMMA SpTypeStep ==
    ASSUME NumbersInv, [SpNext]_spVars
    PROVE  SpTypeOK'
<1>1. CASE UNCHANGED spVars
  BY <1>1 DEF NumbersInv, SpTypeOK, spVars
<1> QED  BY <1>1, TypeCall, TypeSession, TypeSend, TypeReceive, TypeDaemon
         DEF NumbersInv, SpNext, SpStep

-----------------------------------------------------------------------------
(***************************************************************************)
(* What a step of a thread leaves alone.                                   *)
(***************************************************************************)
LEMMA OthersStay ==
    ASSUME SpTypeOK, NEW t \in SpThread, NEW u \in SpThread \ {t}, SpCall(t) \/ SpStep(t)
    PROVE  doing'[u] = doing[u]
<1>0. doing \in [SpThread -> ACall]
  BY DEF SpTypeOK
<1>1. ASSUME NEW v, doing' = [doing EXCEPT ![t] = v] PROVE doing'[u] = doing[u]
  BY <1>0, <1>1
<1>2. MulticastReturns(t) => doing'[u] = doing[u]
  BY <1>0, SMTT(30) DEF MulticastReturns, Move, Return
<1>3. CASE SpCall(t)
  BY <1>0, <1>3, ZenonT(40) DEF SpCall, SP_connect, SP_disconnect, SP_multicast, SP_receive
<1>4. CASE SpStep(t)
  BY <1>0, <1>2, <1>4 DEF SpStep, ConnectFails, ConnectAccepted, SP_kill, LookUpToSend, LockToSend,
     SendHeader, SendData, SendFails, LookUpToReceive, ResumeOrRead, ReadHeader, TooShort,
     ReadGroups, ReadData, ReceiveFails, ReturnClosed, Move, Return
<1> QED  BY <1>3, <1>4

\* The sessions are the same ones, whatever is noted of them.
SameTable ==
  /\ DOMAIN Sessions' = DOMAIN Sessions
  /\ \A i \in DOMAIN Sessions : /\ Sessions'[i].mbox = Sessions[i].mbox
                                /\ Sessions'[i].group = Sessions[i].group

LEMMA SameTableHas ==
    ASSUME SameTable, NEW m
    PROVE  Has(m)' = Has(m)
BY DEF SameTable, Has

LEMMA OneChanged ==
    ASSUME SpTypeOK, TableRight, NEW m \in Mbox, Has(m), NEW s,
           s.mbox = Sessions[SP_get_session(m)].mbox, s.group = Sessions[SP_get_session(m)].group,
           Sessions' = [Sessions EXCEPT ![SP_get_session(m)] = s]
    PROVE  SameTable
<1>1. SP_get_session(m) \in DOMAIN Sessions
  BY Found
<1> QED  BY <1>1 DEF SameTable, SpTypeOK

LEMMA MbOfCall ==
    ASSUME CallsRight, NEW t \in SpThread, SpStep(t)
    PROVE  Mb(t) \in Mbox
<1>1. ~In(t, "none")
  BY DEF SpStep, In, ConnectFails, ConnectAccepted, SP_kill, LookUpToSend, LockToSend,
     SendHeader, SendData, SendFails, LookUpToReceive, ReadHeader, TooShort,
     ReadGroups, ReadData, ReceiveFails
<1> QED  BY <1>1 DEF CallsRight

LEMMA ErrorNoted ==
    ASSUME SpTypeOK, TableRight, NEW m \in Mbox, Has(m),
           Sessions' = [Sessions EXCEPT ![SP_get_session(m)].state = "error"]
    PROVE  /\ SameTable
           /\ \A i \in DOMAIN Sessions :
                /\ Sessions'[i].recv_message_saved = Sessions[i].recv_message_saved
                /\ Sessions'[i].recv_saved_head = Sessions[i].recv_saved_head
<1>1. PICK i : i = SP_get_session(m)
  OBVIOUS
<1>2. i \in DOMAIN Sessions /\ Sessions[i] \in ASession
  BY <1>1, Found
<1>3. PICK s : s = [Sessions[i] EXCEPT !.state = "error"]
  OBVIOUS
<1>4. Sessions' = [Sessions EXCEPT ![i] = s]
  BY <1>1, <1>2, <1>3 DEF SpTypeOK
<1>5. /\ s.mbox = Sessions[i].mbox /\ s.group = Sessions[i].group
      /\ s.recv_message_saved = Sessions[i].recv_message_saved
      /\ s.recv_saved_head = Sessions[i].recv_saved_head
  BY <1>2, <1>3 DEF ASession
<1>6. SameTable
  BY <1>1, <1>4, <1>5, OneChanged
<1>7. \A j \in DOMAIN Sessions : Sessions'[j] = IF j = i THEN s ELSE Sessions[j]
  BY <1>2, <1>4 DEF SpTypeOK
<1> QED  BY <1>5, <1>6, <1>7

LEMMA HeadNoted ==
    ASSUME SpTypeOK, TableRight, NEW m \in Mbox, Has(m), NEW b, NEW h,
           Sessions' = [Sessions EXCEPT ![SP_get_session(m)].recv_message_saved = b,
                                        ![SP_get_session(m)].recv_saved_head = h]
    PROVE  /\ SameTable
           /\ \A i \in DOMAIN Sessions :
                IF Sessions[i].mbox = m
                THEN Sessions'[i].recv_message_saved = b /\ Sessions'[i].recv_saved_head = h
                ELSE Sessions'[i] = Sessions[i]
<1>1. PICK i : i = SP_get_session(m)
  OBVIOUS
<1>2. i \in DOMAIN Sessions /\ Sessions[i] \in ASession /\ Sessions[i].mbox = m
  BY <1>1, Found
<1>3. PICK s : s = [Sessions[i] EXCEPT !.recv_message_saved = b, !.recv_saved_head = h]
  OBVIOUS
<1>4. Sessions' = [Sessions EXCEPT ![i] = s]
  BY <1>1, <1>2, <1>3 DEF SpTypeOK
<1>5. /\ s.mbox = Sessions[i].mbox /\ s.group = Sessions[i].group
      /\ s.recv_message_saved = b /\ s.recv_saved_head = h
  BY <1>2, <1>3 DEF ASession
<1>6. SameTable
  BY <1>1, <1>4, <1>5, OneChanged
<1>7. \A j \in DOMAIN Sessions : Sessions'[j] = IF j = i THEN s ELSE Sessions[j]
  BY <1>2, <1>4 DEF SpTypeOK
<1>8. \A j \in DOMAIN Sessions : Sessions[j].mbox = m => j = i
  BY <1>2 DEF TableRight
<1> QED  BY <1>2, <1>5, <1>6, <1>7, <1>8

LEMMA TableSteps ==
    ASSUME NumbersInv, NEW t \in SpThread, SpCall(t) \/ SpStep(t)
    PROVE  SameTable \/ ConnectAccepted(t) \/ (SP_kill(t) /\ Has(Mb(t)))
<1> USE DEF NumbersInv
<1>1. CASE UNCHANGED Sessions
  BY <1>1 DEF SameTable
<1>2. CASE SpCall(t)
  BY <1>1, <1>2 DEF SpCall, SP_connect, SP_disconnect, SP_multicast, SP_receive
<1>3. CASE SpStep(t)
  <2>0. Mb(t) \in Mbox
    BY <1>3, MbOfCall
  <2>1. CASE SendFails(t) \/ ReceiveFails(t)
    BY <1>1, <2>0, <2>1, ErrorNoted DEF SendFails, ReceiveFails, ReturnClosed
  <2>2. CASE TooShort(t)
    BY <1>1, <2>0, <2>2, HeadNoted DEF TooShort, SavedHead
  <2>3. CASE ReadData(t)
    BY <1>1, <2>0, <2>3, HeadNoted DEF ReadData, ClearSaved
  <2>4. CASE SP_kill(t) /\ ~Has(Mb(t))
    BY <1>1, <2>4 DEF SP_kill
  <2>5. CASE \/ ConnectFails(t) \/ LookUpToSend(t) \/ LockToSend(t) \/ SendHeader(t)
             \/ SendData(t) \/ LookUpToReceive(t) \/ ReadHeader(t) \/ ReadGroups(t)
    BY <1>1, <2>5, ZenonT(40) DEF ConnectFails, LookUpToSend, LockToSend, SendHeader, SendData,
       LookUpToReceive, ReadHeader, ReadGroups
  <2> QED  BY <1>3, <2>1, <2>2, <2>3, <2>4, <2>5 DEF SpStep
<1> QED  BY <1>2, <1>3

LEMMA DescriptorSteps ==
    ASSUME NEW t \in SpThread, SpCall(t) \/ SpStep(t)
    PROVE  \/ UNCHANGED descriptor
           \/ \E m \in Mbox : SP_connect(t, m)
           \/ ConnectFails(t) \/ (SP_kill(t) /\ Has(Mb(t)))
BY DEF SpCall, SP_connect, SP_disconnect, SP_multicast, SP_receive, SpStep, ConnectFails,
   ConnectAccepted, SP_kill, LookUpToSend, LockToSend, SendHeader, SendData, SendFails,
   LookUpToReceive, ResumeOrRead, ReadHeader, TooShort, ReadGroups, ReadData, ReceiveFails

LEMMA AcceptedHas ==
    ASSUME NumbersInv, NEW t \in SpThread, ConnectAccepted(t), NEW m \in Mbox
    PROVE  Has(m)' <=> Has(m) \/ m = Mb(t)
<1>1. PICK s : /\ s.mbox = Mb(t) /\ s.group = descriptor[Mb(t)] /\ Sessions' = Append(Sessions, s)
  BY DEF ConnectAccepted
<1>2. /\ DOMAIN Sessions' = 1 .. Len(Sessions) + 1 /\ DOMAIN Sessions = 1 .. Len(Sessions)
      /\ Sessions'[Len(Sessions) + 1] = s /\ \A i \in DOMAIN Sessions : Sessions'[i] = Sessions[i]
      /\ Len(Sessions) \in Nat
  BY <1>1 DEF NumbersInv, SpTypeOK
<1> QED  BY <1>1, <1>2 DEF Has

LEMMA KilledHas ==
    ASSUME NumbersInv, NEW t \in SpThread, SP_kill(t), Has(Mb(t)), NEW m \in Mbox
    PROVE  Has(m)' <=> Has(m) /\ m # Mb(t)
<1> USE DEF NumbersInv
<1>0. Mb(t) \in Mbox
  BY DEF SP_kill, In, CallsRight
<1>1. PICK i \in {SP_get_session(Mb(t))} :
        Sessions' = SubSeq(Sessions, 1, i - 1) \o SubSeq(Sessions, i + 1, Len(Sessions))
  BY DEF SP_kill
<1>2. i \in DOMAIN Sessions /\ Sessions[i].mbox = Mb(t)
  BY <1>0, <1>1, Found
<1>3. Sessions \in Seq(ASession) /\ DOMAIN Sessions = 1 .. Len(Sessions) /\ Len(Sessions) \in Nat
  BY DEF SpTypeOK
<1>4. /\ Sessions' \in Seq(ASession) /\ Len(Sessions') = Len(Sessions) - 1
      /\ \A j \in 1 .. Len(Sessions) - 1 :
           Sessions'[j] = IF j < i THEN Sessions[j] ELSE Sessions[j + 1]
  BY <1>1, <1>2, <1>3, Removed, ZenonT(40)
<1>5. DOMAIN Sessions' = 1 .. Len(Sessions) - 1
  BY <1>4
<1>6. ASSUME Has(m)' PROVE Has(m) /\ m # Mb(t)
  <2>1. PICK j \in 1 .. Len(Sessions) - 1 : Sessions'[j].mbox = m
    BY <1>5, <1>6 DEF Has
  <2>2. PICK k \in DOMAIN Sessions : k # i /\ Sessions[k].mbox = m
    BY <1>2, <1>3, <1>4, <2>1, SMTT(30)
  <2> QED  BY <1>2, <2>2 DEF Has, TableRight
<1>7. ASSUME Has(m), m # Mb(t) PROVE Has(m)'
  <2>1. PICK k \in 1 .. Len(Sessions) : Sessions[k].mbox = m /\ k # i
    BY <1>2, <1>3, <1>7 DEF Has
  <2>2. CASE k < i
    BY <1>2, <1>3, <1>4, <1>5, <2>1, <2>2 DEF Has
  <2>3. CASE k > i
    <3>1. k - 1 \in 1 .. Len(Sessions) - 1 /\ ~(k - 1 < i) /\ k - 1 + 1 = k
      BY <1>2, <1>3, <2>1, <2>3
    <3> QED  BY <1>4, <1>5, <2>1, <3>1 DEF Has
  <2> QED  BY <1>2, <1>3, <2>1, <2>2, <2>3
<1> QED  BY <1>6, <1>7

-----------------------------------------------------------------------------
(***************************************************************************)
(* Numbers stay right.                                                     *)
(***************************************************************************)
LEMMA DaemonLeaves ==
    ASSUME NEW k \in 1 .. MaxSessions, Incoming(k) \/ EndConnection(k)
    PROVE  UNCHANGED <<Sessions, Mbox_mutex, descriptor, up, doing, result, stale>>
BY DEF Incoming, EndConnection, received

LEMMA TableStep ==
    ASSUME NumbersInv, [SpNext]_spVars
    PROVE  TableRight'
<1> USE DEF NumbersInv
<1>0. \A i \in DOMAIN Sessions : Sessions[i] \in ASession
  BY DEF SpTypeOK
<1>1. ASSUME UNCHANGED <<Sessions, descriptor>> PROVE TableRight'
  BY <1>1 DEF TableRight
<1>2. ASSUME NEW t \in SpThread, SpCall(t) \/ SpStep(t) PROVE TableRight'
  <2>1. CASE SameTable /\ UNCHANGED descriptor
    BY <2>1 DEF SameTable, TableRight
  <2>2. ASSUME NEW m \in Mbox, SP_connect(t, m) PROVE TableRight'
    <3>1. \A i \in DOMAIN Sessions : Sessions[i].mbox # m
      BY <1>0, <2>2, SpAssumption DEF SP_connect, Unused, Open, TableRight, ASession
    <3>2. descriptor' = [descriptor EXCEPT ![m] = counts.conns + 1] /\ UNCHANGED Sessions
      BY <2>2 DEF SP_connect
    <3> QED  BY <1>0, <3>1, <3>2 DEF TableRight, SpTypeOK, ASession
  <2>3. CASE ConnectFails(t)
    <3>1. \A i \in DOMAIN Sessions : Sessions[i].mbox # Mb(t)
      BY <2>3 DEF ConnectFails, CallsRight, Has
    <3>2. descriptor' = [descriptor EXCEPT ![Mb(t)] = 0] /\ UNCHANGED Sessions
      BY <2>3 DEF ConnectFails
    <3> QED  BY <1>0, <3>1, <3>2 DEF TableRight, SpTypeOK, ASession
  <2>4. CASE ConnectAccepted(t)
    <3>1. PICK s : /\ s.mbox = Mb(t) /\ s.group = descriptor[Mb(t)]
                   /\ Sessions' = Append(Sessions, s) /\ UNCHANGED descriptor
      BY <2>4 DEF ConnectAccepted
    <3>2. \A i \in DOMAIN Sessions : Sessions[i].mbox # Mb(t)
      BY <2>4 DEF ConnectAccepted, CallsRight, Has
    <3>3. /\ DOMAIN Sessions' = 1 .. Len(Sessions) + 1 /\ DOMAIN Sessions = 1 .. Len(Sessions)
          /\ Sessions'[Len(Sessions) + 1] = s /\ Len(Sessions) \in Nat
          /\ \A i \in DOMAIN Sessions : Sessions'[i] = Sessions[i]
      BY <3>1 DEF SpTypeOK
    <3> QED  BY <3>1, <3>2, <3>3 DEF TableRight
  <2>5. CASE SP_kill(t) /\ Has(Mb(t))
    <3>0. Mb(t) \in Mbox
      BY <2>5 DEF SP_kill, In, CallsRight
    <3>1. PICK i \in {SP_get_session(Mb(t))} :
            Sessions' = SubSeq(Sessions, 1, i - 1) \o SubSeq(Sessions, i + 1, Len(Sessions))
      BY <2>5 DEF SP_kill
    <3>2. i \in DOMAIN Sessions /\ Sessions[i].mbox = Mb(t)
      BY <2>5, <3>0, <3>1, Found
    <3>3. Sessions \in Seq(ASession) /\ DOMAIN Sessions = 1 .. Len(Sessions) /\ Len(Sessions) \in Nat
      BY DEF SpTypeOK
    <3>4. /\ Sessions' \in Seq(ASession) /\ Len(Sessions') = Len(Sessions) - 1
          /\ \A j \in 1 .. Len(Sessions) - 1 :
               Sessions'[j] = IF j < i THEN Sessions[j] ELSE Sessions[j + 1]
      BY <3>1, <3>2, <3>3, Removed, ZenonT(40)
    <3>5. DOMAIN Sessions' = 1 .. Len(Sessions) - 1
      BY <3>4
    <3>6. descriptor' = [descriptor EXCEPT ![Mb(t)] = 0]
      BY <2>5 DEF SP_kill
    <3>7. ASSUME NEW j \in DOMAIN Sessions'
          PROVE  \E k \in DOMAIN Sessions : k # i /\ Sessions'[j] = Sessions[k]
                                            /\ k = IF j < i THEN j ELSE j + 1
      BY <3>2, <3>3, <3>4, <3>5
    <3>8. ASSUME NEW j \in DOMAIN Sessions'
          PROVE  descriptor'[Sessions'[j].mbox] = Sessions'[j].group
      <4>1. PICK k \in DOMAIN Sessions : k # i /\ Sessions'[j] = Sessions[k]
        BY <3>7
      <4>2. Sessions[k].mbox # Mb(t) /\ Sessions[k].mbox \in Mbox
        BY <1>0, <3>2, <4>1 DEF TableRight, ASession
      <4> QED  BY <3>6, <4>1, <4>2 DEF TableRight, SpTypeOK
    <3>9. ASSUME NEW j \in DOMAIN Sessions', NEW l \in DOMAIN Sessions',
                 Sessions'[j].mbox = Sessions'[l].mbox
          PROVE  j = l
      <4>1. PICK k \in DOMAIN Sessions : Sessions'[j] = Sessions[k]
                                         /\ k = IF j < i THEN j ELSE j + 1
        BY <3>7
      <4>2. PICK n \in DOMAIN Sessions : Sessions'[l] = Sessions[n]
                                         /\ n = IF l < i THEN l ELSE l + 1
        BY <3>7
      <4>3. k = n
        BY <3>9, <4>1, <4>2 DEF TableRight
      <4> QED  BY <3>2, <3>3, <3>5, <4>1, <4>2, <4>3
    <3> QED  BY <3>8, <3>9 DEF TableRight
  <2>6. \/ SameTable /\ UNCHANGED descriptor
        \/ \E m \in Mbox : SP_connect(t, m)
        \/ ConnectFails(t) \/ ConnectAccepted(t) \/ (SP_kill(t) /\ Has(Mb(t)))
    BY <1>2, TableSteps, DescriptorSteps
  <2> QED  BY <2>1, <2>2, <2>3, <2>4, <2>5, <2>6
<1>3. ASSUME NEW k \in 1 .. MaxSessions, Incoming(k) \/ EndConnection(k) PROVE TableRight'
  BY <1>1, <1>3, DaemonLeaves
<1> QED  BY <1>1, <1>2, <1>3 DEF SpNext, spVars

\* Connections that do not exist yet have nothing on them.
LEMMA StreamSteps ==
    ASSUME NumbersInv, NEW t \in SpThread, SpCall(t) \/ SpStep(t)
    PROVE  /\ counts'.conns \in {counts.conns, counts.conns + 1}
           /\ counts'.conns = counts.conns \/ UNCHANGED <<down, up>>
           /\ \/ UNCHANGED <<down, up>>
              \/ /\ Mb(t) \in Mbox /\ Open(Mb(t))
                 /\ \A k \in 1 .. MaxSessions :
                      k # descriptor[Mb(t)] => down'[k] = down[k] /\ up'[k] = up[k]
<1> USE DEF NumbersInv
<1>0. counts = [conns |-> counts.conns, in |-> counts.in, out |-> counts.out]
  BY DEF SpTypeOK
<1>1. CASE SpCall(t)
  BY <1>0, <1>1 DEF SpCall, SP_connect, SP_disconnect, SP_multicast, SP_receive
<1>2. CASE SpStep(t)
  <2>0. Mb(t) \in Mbox
    BY <1>2, MbOfCall
  <2>1. CASE ConnectFails(t)
    BY <2>0, <2>1 DEF ConnectFails, Forget, SpTypeOK, CallsRight
  <2>2. CASE SP_kill(t) /\ Has(Mb(t))
    <3>1. Open(Mb(t))
      BY <2>0, <2>2, Found, SpAssumption DEF TableRight, Open, ASession
    <3> QED  BY <2>0, <2>2, <3>1 DEF SP_kill, Forget, SpTypeOK
  <2>3. CASE SP_kill(t) /\ ~Has(Mb(t))
    BY <2>3 DEF SP_kill
  <2>4. CASE SendHeader(t) \/ SendData(t)
    BY <2>0, <2>4 DEF SendHeader, SendData, Sendable, SpTypeOK
  <2>5. CASE ReadHeader(t) \/ ReadGroups(t) \/ ReadData(t)
    BY <2>0, <2>5 DEF ReadHeader, ReadGroups, ReadData, Readable, Consume, SpTypeOK
  <2>6. CASE \/ ConnectAccepted(t) \/ LookUpToSend(t) \/ LockToSend(t) \/ SendFails(t)
             \/ LookUpToReceive(t) \/ TooShort(t) \/ ReceiveFails(t)
    BY <2>6 DEF ConnectAccepted, LookUpToSend, LockToSend, SendFails, LookUpToReceive,
       TooShort, ReceiveFails
  <2> QED  BY <1>2, <2>1, <2>2, <2>3, <2>4, <2>5, <2>6 DEF SpStep
<1> QED  BY <1>1, <1>2

LEMMA NumberStep ==
    ASSUME NumbersInv, [SpNext]_spVars
    PROVE  OneNumber'
<1> USE DEF NumbersInv
<1>0. /\ descriptor \in [Mbox -> 0 .. MaxSessions] /\ counts.conns \in 0 .. MaxSessions
      /\ MaxSessions \in Nat
  BY SpAssumption DEF SpTypeOK
<1>1. ASSUME UNCHANGED <<descriptor, counts, down, up>> PROVE OneNumber'
  BY <1>1 DEF OneNumber, Open
<1>2. ASSUME NEW t \in SpThread, SpCall(t) \/ SpStep(t) PROVE OneNumber'
  <2>1. ASSUME NEW m \in Mbox, SP_connect(t, m) PROVE OneNumber'
    <3>1. /\ descriptor' = [descriptor EXCEPT ![m] = counts.conns + 1]
          /\ counts'.conns = counts.conns + 1 /\ UNCHANGED <<down, up>>
      BY <2>1 DEF SP_connect, SpTypeOK
    <3>2. \A n \in Mbox : descriptor'[n] = IF n = m THEN counts.conns + 1 ELSE descriptor[n]
      BY <1>0, <3>1
    <3>3. \A n, o \in Mbox : descriptor'[n] # 0 /\ descriptor'[n] = descriptor'[o] => n = o
      BY <1>0, <3>2 DEF OneNumber, Open
    <3>4. \A n \in Mbox : descriptor'[n] <= counts'.conns
      BY <1>0, <3>1, <3>2 DEF OneNumber
    <3>5. \A k \in 1 .. MaxSessions : k > counts'.conns => down'[k] = <<>> /\ up'[k] = <<>>
      BY <1>0, <3>1 DEF OneNumber
    <3> QED  BY <3>3, <3>4, <3>5 DEF OneNumber, Open
  <2>2. CASE UNCHANGED descriptor \/ descriptor' = [descriptor EXCEPT ![Mb(t)] = 0]
    <3>1. \A n \in Mbox : descriptor'[n] \in {descriptor[n], 0}
      BY <1>0, <2>2
    <3>2. \A n, o \in Mbox : descriptor'[n] # 0 /\ descriptor'[n] = descriptor'[o] => n = o
      BY <1>0, <3>1 DEF OneNumber, Open
    <3>3. \A n \in Mbox : descriptor'[n] <= counts'.conns
      BY <1>0, <1>2, <3>1, StreamSteps DEF OneNumber
    <3>4. ASSUME NEW k \in 1 .. MaxSessions, k > counts'.conns
          PROVE  down'[k] = <<>> /\ up'[k] = <<>>
      <4>1. k > counts.conns
        BY <1>0, <1>2, <3>4, StreamSteps
      <4>2. Mb(t) \in Mbox => k # descriptor[Mb(t)]
        BY <1>0, <4>1 DEF OneNumber
      <4> QED  BY <1>2, <4>1, <4>2, StreamSteps DEF OneNumber
    <3> QED  BY <3>2, <3>3, <3>4 DEF OneNumber, Open
  <2> QED  BY <1>2, <2>1, <2>2, DescriptorSteps DEF ConnectFails, SP_kill
<1>3. ASSUME NEW k \in 1 .. MaxSessions, Incoming(k) \/ EndConnection(k) PROVE OneNumber'
  <2>1. UNCHANGED <<descriptor, up>> /\ counts'.conns = counts.conns /\ Connected(k)
    BY <1>3 DEF Incoming, EndConnection, SpTypeOK
  <2>2. \A l \in 1 .. MaxSessions : l # k => down'[l] = down[l]
    BY <1>3 DEF Incoming, EndConnection, SpTypeOK
  <2>3. k <= counts.conns
    BY <2>1 DEF Connected, OneNumber
  <2> QED  BY <1>0, <2>1, <2>2, <2>3 DEF OneNumber, Open
<1> QED  BY <1>1, <1>2, <1>3 DEF SpNext, spVars

\* A thread that is in a call on m sees it closed at most; a lock it has stays its own.
LEMMA MailboxSteps ==
    ASSUME AwaitCalls, NumbersInv, NEW t \in SpThread, SpCall(t) \/ SpStep(t),
           NEW u \in SpThread \ {t}, NEW n \in Mbox, Mb(u) = n
    PROVE  /\ descriptor'[n] \in {descriptor[n], 0}
           /\ descriptor'[n] # 0 /\ Has(n) => Has(n)'
           /\ In(u, "handshake") => descriptor'[n] = descriptor[n] /\ ~Has(n)'
<1> USE DEF NumbersInv
<1>0. descriptor \in [Mbox -> 0 .. MaxSessions]
  BY DEF SpTypeOK
<1>1. ASSUME NEW m \in Mbox, SP_connect(t, m) PROVE n # m /\ SameTable
  BY <1>1 DEF SP_connect, Unused, SameTable
<1>2. CASE SameTable /\ UNCHANGED descriptor
  BY <1>2, SameTableHas DEF CallsRight
<1>3. ASSUME NEW m \in Mbox, SP_connect(t, m)
      PROVE  descriptor'[n] = descriptor[n] /\ (Has(n)' <=> Has(n))
  BY <1>0, <1>1, <1>3, SameTableHas DEF SP_connect
<1>4. CASE ConnectFails(t)
  <2>1. /\ descriptor' = [descriptor EXCEPT ![Mb(t)] = 0] /\ SameTable
        /\ In(t, "handshake") /\ Mb(t) \in Mbox
    BY <1>4 DEF ConnectFails, SameTable, CallsRight, In
  <2>2. In(u, "handshake") => n # Mb(t)
    BY <2>1 DEF CallsRight
  <2> QED  BY <1>0, <2>1, <2>2, SameTableHas DEF CallsRight
<1>5. CASE ConnectAccepted(t)
  <2>1. UNCHANGED descriptor /\ In(t, "handshake")
    BY <1>5 DEF ConnectAccepted
  <2>2. In(u, "handshake") => n # Mb(t)
    BY <2>1 DEF CallsRight
  <2> QED  BY <1>5, <2>1, <2>2, AcceptedHas DEF CallsRight
<1>6. CASE SP_kill(t) /\ Has(Mb(t))
  <2>1. descriptor' = [descriptor EXCEPT ![Mb(t)] = 0]
    BY <1>6 DEF SP_kill
  <2>2. In(u, "handshake") => n # Mb(t)
    BY <1>6 DEF CallsRight
  <2> QED  BY <1>0, <1>6, <2>1, <2>2, KilledHas DEF CallsRight
<1>7. \/ SameTable /\ UNCHANGED descriptor
      \/ \E m \in Mbox : SP_connect(t, m)
      \/ ConnectFails(t) \/ ConnectAccepted(t) \/ (SP_kill(t) /\ Has(Mb(t)))
  BY TableSteps, DescriptorSteps
<1> QED  BY <1>2, <1>3, <1>4, <1>5, <1>6, <1>7 DEF CallsRight

LEMMA LockSteps ==
    ASSUME NumbersInv, NEW t \in SpThread, SpCall(t) \/ SpStep(t),
           NEW u \in SpThread \ {t}, NEW m \in Mbox
    PROVE  /\ Mbox_mutex[m].send = u => Mbox_mutex'[m].send = u
           /\ Mbox_mutex[m].recv = u => Mbox_mutex'[m].recv = u
<1> USE DEF NumbersInv
<1>0. Mbox_mutex \in [Mbox -> [send : Owner, recv : Owner]] /\ u # Nobody
  BY SpAssumption DEF SpTypeOK
<1>1. CASE UNCHANGED Mbox_mutex
  BY <1>1
<1>2. ASSUME SpStep(t) PROVE Mb(t) \in Mbox
  BY <1>2, MbOfCall
<1>3. CASE SendData(t) \/ SendFails(t)
  <2>1. Mbox_mutex[Mb(t)].send = t /\ SpStep(t)
    BY <1>3 DEF SendData, SendFails, CallsRight, In, SpStep
  <2>2. CASE Mbox_mutex' = Unlocked(Mb(t), "send")
    BY <1>0, <1>2, <2>1, <2>2 DEF Unlocked
  <2> QED  BY <1>1, <1>3, <2>2 DEF SendData, SendFails
<1>4. CASE TooShort(t) \/ ReadData(t) \/ ReceiveFails(t)
  <2>1. Mbox_mutex[Mb(t)].recv = t /\ SpStep(t)
    BY <1>4 DEF TooShort, ReadData, ReceiveFails, CallsRight, Reading, In, SpStep
  <2>2. CASE Mbox_mutex' = Unlocked(Mb(t), "recv")
    BY <1>0, <1>2, <2>1, <2>2 DEF Unlocked
  <2> QED  BY <1>1, <1>4, <2>2 DEF TooShort, ReadData, ReceiveFails, ReturnClosed
<1>5. CASE LockToSend(t)
  BY <1>0, <1>2, <1>5 DEF LockToSend, SpStep
<1>6. CASE LookUpToReceive(t)
  <2>1. \/ UNCHANGED Mbox_mutex
        \/ Mbox_mutex' = [Mbox_mutex EXCEPT ![Mb(t)].recv = t]
    BY <1>6 DEF LookUpToReceive
  <2>2. Mbox_mutex[Mb(t)].recv = Nobody /\ Mb(t) \in Mbox
    BY <1>2, <1>6, ZenonT(40) DEF LookUpToReceive, SpStep
  <2> QED  BY <1>0, <2>1, <2>2
<1>7. CASE SpCall(t)
  BY <1>1, <1>7 DEF SpCall, SP_connect, SP_disconnect, SP_multicast, SP_receive
<1>8. CASE \/ ConnectFails(t) \/ ConnectAccepted(t) \/ SP_kill(t) \/ LookUpToSend(t)
           \/ SendHeader(t) \/ ReadHeader(t) \/ ReadGroups(t)
  BY <1>1, <1>8 DEF ConnectFails, ConnectAccepted, SP_kill, LookUpToSend, SendHeader,
     ReadHeader, ReadGroups
<1> QED  BY <1>3, <1>4, <1>5, <1>6, <1>7, <1>8 DEF SpStep

\* Where a thread is in its own call.
PlaceRight(t) ==
  /\ ~In(t, "none") => Mb(t) \in Mbox
  /\ In(t, "handshake") => Open(Mb(t)) /\ ~Has(Mb(t))
  /\ (Sending(t) \/ Reading(t)) /\ Open(Mb(t)) => Has(Mb(t)) /\ descriptor[Mb(t)] = doing[t].group
  /\ doing[t].at \in {"send header", "send data"} => Mbox_mutex[Mb(t)].send = t
  /\ Reading(t) => Mbox_mutex[Mb(t)].recv = t

LEMMA OtherPlaces ==
    ASSUME AwaitCalls, NumbersInv, NEW t \in SpThread, SpCall(t) \/ SpStep(t), NEW u \in SpThread \ {t}
    PROVE  PlaceRight(u)'
<1>1. doing'[u] = doing[u]
  BY OthersStay DEF NumbersInv
<1>2. CASE In(u, "none")
  BY <1>1, <1>2 DEF PlaceRight, In, Sending, Reading
<1>3. CASE ~In(u, "none")
  <2>1. PICK n \in Mbox : Mb(u) = n
    BY <1>3 DEF NumbersInv, CallsRight
  <2>2. Mb(u)' = n
    BY <1>1, <2>1 DEF Mb
  <2>3. /\ descriptor'[n] \in {descriptor[n], 0}
        /\ descriptor'[n] # 0 /\ Has(n) => Has(n)'
        /\ In(u, "handshake") => descriptor'[n] = descriptor[n] /\ ~Has(n)'
    BY <2>1, MailboxSteps
  <2>4. /\ Mbox_mutex[n].send = u => Mbox_mutex'[n].send = u
        /\ Mbox_mutex[n].recv = u => Mbox_mutex'[n].recv = u
    BY LockSteps
  <2>5. PlaceRight(u)
    BY DEF NumbersInv, CallsRight, PlaceRight
  <2> QED  BY <1>1, <2>1, <2>2, <2>3, <2>4, <2>5 DEF PlaceRight, In, Sending, Reading, Open
<1> QED  BY <1>2, <1>3

\* The fields of the call t is in after a step.
LEMMA CallSet ==
    ASSUME SpTypeOK, NEW t \in SpThread, NEW c, doing' = [doing EXCEPT ![t] = c]
    PROVE  doing'[t] = c
BY DEF SpTypeOK

LEMMA Moved ==
    ASSUME SpTypeOK, NEW t \in SpThread, NEW p, Move(t, p)
    PROVE  /\ doing'[t].at = p /\ doing'[t].mbox = doing[t].mbox /\ doing'[t].group = doing[t].group
           /\ doing'[t].id = doing[t].id /\ doing'[t].room = doing[t].room
<1>1. doing' = [doing EXCEPT ![t] = [doing[t] EXCEPT !.at = p]]
  BY DEF Move, SpTypeOK
<1>2. doing'[t] = [doing[t] EXCEPT !.at = p]
  BY <1>1, CallSet
<1>3. doing[t] \in ACall
  BY DEF SpTypeOK
<1> QED  BY <1>2, <1>3 DEF ACall

\* A call that has found its session to send.
FindsToSend(t, g) == doing' = [doing EXCEPT ![t].at = "send lock", ![t].group = g]

LEMMA FoundToSend ==
    ASSUME SpTypeOK, NEW t \in SpThread, NEW g, FindsToSend(t, g)
    PROVE  /\ doing'[t].at = "send lock" /\ doing'[t].group = g /\ doing'[t].mbox = doing[t].mbox
           /\ doing'[t].room = doing[t].room
<1>1. doing' = [doing EXCEPT ![t] = [doing[t] EXCEPT !.at = "send lock", !.group = g]]
  BY DEF FindsToSend, SpTypeOK
<1>2. doing'[t] = [doing[t] EXCEPT !.at = "send lock", !.group = g]
  BY <1>1, CallSet
<1> QED  BY <1>2, CallOfThread DEF ACall

LEMMA FoundToReceive ==
    ASSUME SpTypeOK, NEW t \in SpThread, NEW s, ResumeOrRead(t, s)
    PROVE  /\ doing'[t].group = s.group /\ doing'[t].saved = s.recv_message_saved
           /\ doing'[t].head = IF s.recv_message_saved THEN s.recv_saved_head ELSE NoPart
           /\ doing'[t].at = IF s.recv_message_saved THEN "check" ELSE "header"
           /\ doing'[t].mbox = doing[t].mbox /\ doing'[t].room = doing[t].room
<1>1. PICK h, p : /\ h = IF s.recv_message_saved THEN s.recv_saved_head ELSE NoPart
                  /\ p = IF s.recv_message_saved THEN "check" ELSE "header"
  OBVIOUS
<1>2. doing' = [doing EXCEPT ![t] = [doing[t] EXCEPT !.group = s.group,
                  !.saved = s.recv_message_saved, !.head = h, !.at = p]]
  BY <1>1 DEF ResumeOrRead, SpTypeOK
<1>3. doing'[t] = [doing[t] EXCEPT !.group = s.group, !.saved = s.recv_message_saved,
                                   !.head = h, !.at = p]
  BY <1>2, CallSet
<1>4. /\ doing'[t].group = s.group /\ doing'[t].saved = s.recv_message_saved
      /\ doing'[t].head = h /\ doing'[t].at = p
      /\ doing'[t].mbox = doing[t].mbox /\ doing'[t].room = doing[t].room
  BY <1>3, CallOfThread DEF ACall
<1> QED  BY <1>1, <1>4

LEMMA HeaderRead ==
    ASSUME SpTypeOK, NEW t \in SpThread, ReadHeader(t)
    PROVE  /\ doing'[t].at = "check" /\ doing'[t].head = Head(Stream(t))
           /\ doing'[t].mbox = doing[t].mbox /\ doing'[t].group = doing[t].group
           /\ doing'[t].saved = doing[t].saved /\ doing'[t].room = doing[t].room
<1>0. PICK h : h = Head(Stream(t))
  OBVIOUS
<1>1. doing' = [doing EXCEPT ![t] = [doing[t] EXCEPT !.at = "check", !.head = h]]
  BY <1>0 DEF ReadHeader, SpTypeOK
<1>2. doing'[t] = [doing[t] EXCEPT !.at = "check", !.head = h]
  BY <1>1, CallSet
<1>3. /\ doing'[t].at = "check" /\ doing'[t].head = h
      /\ doing'[t].mbox = doing[t].mbox /\ doing'[t].group = doing[t].group
      /\ doing'[t].saved = doing[t].saved /\ doing'[t].room = doing[t].room
  BY <1>2, CallOfThread DEF ACall
<1> QED  BY <1>0, <1>3

LEMMA GroupsRead ==
    ASSUME SpTypeOK, NEW t \in SpThread, ReadGroups(t)
    PROVE  /\ doing'[t].at = "data" /\ doing'[t].groups = Head(Stream(t))
           /\ doing'[t].mbox = doing[t].mbox /\ doing'[t].group = doing[t].group
           /\ doing'[t].head = doing[t].head
           /\ doing'[t].saved = doing[t].saved /\ doing'[t].room = doing[t].room
<1>0. PICK h : h = Head(Stream(t))
  OBVIOUS
<1>1. doing' = [doing EXCEPT ![t] = [doing[t] EXCEPT !.at = "data", !.groups = h]]
  BY <1>0 DEF ReadGroups, SpTypeOK
<1>2. doing'[t] = [doing[t] EXCEPT !.at = "data", !.groups = h]
  BY <1>1, CallSet
<1>3. /\ doing'[t].at = "data" /\ doing'[t].groups = h
      /\ doing'[t].mbox = doing[t].mbox /\ doing'[t].group = doing[t].group
      /\ doing'[t].head = doing[t].head
      /\ doing'[t].saved = doing[t].saved /\ doing'[t].room = doing[t].room
  BY <1>2, CallOfThread DEF ACall
<1> QED  BY <1>0, <1>3

LEMMA ReturnedOrKills ==
    ASSUME SpTypeOK, NEW t \in SpThread, MulticastReturns(t) \/ Return(t)
    PROVE  \/ doing'[t].at = "none"
           \/ doing'[t].at = "kill" /\ doing'[t].mbox = doing[t].mbox
BY DEF MulticastReturns, Return, Move, Idle_call, SpTypeOK, ACall

LEMMA LooksUp ==
    ASSUME SpTypeOK, NEW t \in SpThread, NEW m, NEW room,
           SP_disconnect(t, m) \/ SP_multicast(t, m) \/ SP_receive(t, m, room)
    PROVE  doing'[t].at = "look up" /\ doing'[t].mbox = m
<1>1. doing \in [SpThread -> ACall]
  BY DEF SpTypeOK
<1> QED  BY <1>1, ZenonT(40) DEF SP_disconnect, SP_multicast, SP_receive, Idle_call

LEMMA OwnPlace ==
    ASSUME AwaitCalls, NumbersInv, NEW t \in SpThread, SpCall(t) \/ SpStep(t)
    PROVE  /\ PlaceRight(t)'
           /\ In(t, "handshake")' => \E m \in Mbox : SP_connect(t, m) /\ doing'[t].mbox = m
<1> USE DEF NumbersInv
<1> DEFINE Goal == /\ PlaceRight(t)'
                   /\ In(t, "handshake")' => \E m \in Mbox : SP_connect(t, m) /\ doing'[t].mbox = m
<1>0. doing \in [SpThread -> ACall] /\ doing[t] \in ACall
  BY DEF SpTypeOK
<1>1. ASSUME doing'[t].at = "none" PROVE Goal
  BY <1>1 DEF PlaceRight, In, Sending, Reading
<1>2. ASSUME doing'[t].at \in {"kill", "look up"}, doing'[t].mbox \in Mbox PROVE Goal
  BY <1>2 DEF PlaceRight, In, Sending, Reading, Mb
<1>3. ASSUME NEW m \in Mbox, SP_connect(t, m) PROVE Goal
  <2>1. doing'[t].at = "handshake" /\ doing'[t].mbox = m
    BY <1>0, <1>3 DEF SP_connect, Idle_call
  <2>2. descriptor'[m] = counts.conns + 1 /\ counts.conns \in Nat /\ UNCHANGED Sessions
    BY <1>3, SpAssumption DEF SP_connect, SpTypeOK
  <2>3. ~Has(m)
    <3>1. \A i \in DOMAIN Sessions : Sessions[i] \in ASession
      BY DEF SpTypeOK
    <3>2. \A i \in DOMAIN Sessions : Sessions[i].mbox # m
      BY <1>3, <3>1, SpAssumption DEF SP_connect, Unused, Open, TableRight, ASession
    <3> QED  BY <3>2 DEF Has
  <2> QED  BY <1>3, <2>1, <2>2, <2>3 DEF PlaceRight, In, Sending, Reading, Open, Mb, Has
<1>4. ASSUME NEW m \in Mbox, NEW room,
             SP_disconnect(t, m) \/ SP_multicast(t, m) \/ SP_receive(t, m, room)
      PROVE  Goal
  <2>1. doing'[t].at = "look up" /\ doing'[t].mbox = m
    BY <1>4, LooksUp
  <2> QED  BY <1>2, <2>1
<1>5. ASSUME SpStep(t) PROVE Mb(t) \in Mbox /\ Mb(t) = doing[t].mbox
  BY <1>5, MbOfCall DEF Mb
<1>6. ASSUME SpStep(t), MulticastReturns(t) \/ Return(t) PROVE Goal
  BY <1>1, <1>2, <1>5, <1>6, ReturnedOrKills
<1>7. CASE \/ ConnectFails(t) \/ ConnectAccepted(t) \/ SP_kill(t) \/ SendData(t) \/ SendFails(t)
           \/ TooShort(t) \/ ReadData(t) \/ ReceiveFails(t)
  BY <1>6, <1>7 DEF SpStep, ConnectFails, ConnectAccepted, SP_kill, SendData, SendFails,
     TooShort, ReadData, ReceiveFails, ReturnClosed
<1>8. CASE LookUpToSend(t)
  <2>1. CASE Has(Mb(t)) /\ Sessions[SP_get_session(Mb(t))].state = "active"
    <3>1. PICK m \in Mbox : m = Mb(t) /\ m = doing[t].mbox
      BY <1>5, <1>8 DEF SpStep
    <3>2. PICK g : g = Sessions[SP_get_session(m)].group
      OBVIOUS
    <3>3. descriptor[m] = g
      BY <2>1, <3>1, <3>2, Found DEF TableRight
    <3>4. doing' = [doing EXCEPT ![t].at = "send lock", ![t].group = g]
          /\ UNCHANGED <<Sessions, descriptor>>
      BY <1>8, <2>1, <3>1, <3>2 DEF LookUpToSend
    <3>5. doing'[t].at = "send lock" /\ doing'[t].group = g /\ doing'[t].mbox = m
      BY <3>1, <3>4, FoundToSend DEF FindsToSend
    <3> QED  BY <2>1, <3>1, <3>3, <3>4, <3>5 DEF PlaceRight, In, Sending, Reading, Mb, Has
  <2>2. CASE ~(Has(Mb(t)) /\ Sessions[SP_get_session(Mb(t))].state = "active")
    BY <1>6, <1>8, <2>2 DEF LookUpToSend, SpStep
  <2> QED  BY <2>1, <2>2
<1>9. CASE LockToSend(t) \/ SendHeader(t) \/ ReadHeader(t) \/ ReadGroups(t)
  <2>1. PICK m \in Mbox : m = Mb(t) /\ m = doing[t].mbox
    BY <1>5, <1>9 DEF SpStep
  <2>2. UNCHANGED <<Sessions, descriptor>> /\ doing'[t].mbox = m /\ doing'[t].group = doing[t].group
    BY <1>9, <2>1, Moved, HeaderRead, GroupsRead DEF LockToSend, SendHeader, ReadHeader, ReadGroups
  <2>3. /\ (Sending(t) \/ Reading(t)) /\ descriptor[m] # 0
              => (\E i \in DOMAIN Sessions : Sessions[i].mbox = m) /\ descriptor[m] = doing[t].group
        /\ doing[t].at \in {"send header", "send data"} => Mbox_mutex[m].send = t
        /\ Reading(t) => Mbox_mutex[m].recv = t
    BY <2>1 DEF CallsRight, Open, Has
  <2>4. Sending(t) \/ Reading(t)
    BY <1>9 DEF LockToSend, SendHeader, ReadHeader, ReadGroups, In, Sending, Reading
  <2>5. /\ doing'[t].at \in {"send header", "send data"} => Mbox_mutex'[m].send = t
        /\ doing'[t].at \in {"check", "data"} => Mbox_mutex'[m].recv = t
        /\ doing'[t].at \in {"send header", "send data", "check", "data"}
    <3>1. CASE LockToSend(t)
      <4>1. Mbox_mutex' = [Mbox_mutex EXCEPT ![m].send = t]
        BY <2>1, <3>1 DEF LockToSend
      <4>2. Mbox_mutex'[m].send = t
        BY <4>1 DEF SpTypeOK
      <4>3. doing'[t].at = "send header"
        BY <3>1, Moved DEF LockToSend
      <4> QED  BY <4>2, <4>3
    <3>2. CASE SendHeader(t)
      <4>1. doing'[t].at = "send data"
        BY <3>2, Moved DEF SendHeader
      <4> QED  BY <2>3, <3>2, <4>1 DEF SendHeader, In
    <3>3. CASE ReadHeader(t)
      BY <2>3, <3>3, HeaderRead DEF ReadHeader, In, Reading
    <3>4. CASE ReadGroups(t)
      BY <2>3, <3>4, GroupsRead DEF ReadGroups, In, Reading
    <3> QED  BY <1>9, <3>1, <3>2, <3>3, <3>4
  <2> QED  BY <2>1, <2>2, <2>3, <2>4, <2>5, ZenonT(40) DEF PlaceRight, In, Sending, Reading, Open, Mb, Has
<1>10. CASE LookUpToReceive(t)
  <2>1. CASE Has(Mb(t)) /\ Sessions[SP_get_session(Mb(t))].state = "active"
    <3>1. PICK m \in Mbox : m = Mb(t) /\ m = doing[t].mbox
      BY <1>5, <1>10 DEF SpStep
    <3>2. PICK s : s = Sessions[SP_get_session(m)]
      OBVIOUS
    <3>3. descriptor[m] = s.group
      BY <2>1, <3>1, <3>2, Found DEF TableRight
    <3>4. /\ ResumeOrRead(t, s) /\ UNCHANGED <<Sessions, descriptor>>
          /\ Mbox_mutex' = [Mbox_mutex EXCEPT ![m].recv = t]
      BY <1>10, <2>1, <3>1, <3>2 DEF LookUpToReceive
    <3>5. doing'[t].at \in {"check", "header"} /\ doing'[t].group = s.group /\ doing'[t].mbox = m
      BY <3>1, <3>4, FoundToReceive
    <3>6. Mbox_mutex'[m].recv = t
      BY <3>1, <3>4 DEF SpTypeOK
    <3> QED  BY <2>1, <3>1, <3>3, <3>4, <3>5, <3>6 DEF PlaceRight, In, Sending, Reading, Mb, Has
  <2>2. CASE ~(Has(Mb(t)) /\ Sessions[SP_get_session(Mb(t))].state = "active")
    BY <1>6, <1>10, <2>2 DEF LookUpToReceive, SpStep
  <2> QED  BY <2>1, <2>2
<1> QED  BY <1>3, <1>4, <1>7, <1>8, <1>9, <1>10 DEF SpCall, SpStep

LEMMA CallsStep ==
    ASSUME AwaitCalls, NumbersInv, [SpNext]_spVars
    PROVE  CallsRight'
<1>1. ASSUME UNCHANGED <<Sessions, Mbox_mutex, descriptor, doing>> PROVE CallsRight'
  BY <1>1 DEF NumbersInv, CallsRight, In, Sending, Reading, Open, Has, Mb
<1>2. ASSUME NEW t \in SpThread, SpCall(t) \/ SpStep(t) PROVE CallsRight'
  <2>1. \A u \in SpThread : PlaceRight(u)'
    BY <1>2, OtherPlaces, OwnPlace
  <2>2. \A u \in SpThread \ {t} : doing'[u] = doing[u]
    BY <1>2, OthersStay DEF NumbersInv
  <2>3. ASSUME NEW u \in SpThread, NEW v \in SpThread \ {u}, doing'[u].at = "handshake",
               doing'[v].at = "handshake", doing'[u].mbox = doing'[v].mbox
        PROVE  FALSE
    <3>1. ASSUME NEW w \in SpThread \ {t}, doing'[w].at = "handshake",
                 doing'[t].at = "handshake", doing'[t].mbox = doing'[w].mbox
          PROVE  FALSE
      <4>1. PICK m \in Mbox : SP_connect(t, m) /\ doing'[t].mbox = m
        BY <1>2, <3>1, OwnPlace DEF In
      <4>2. doing[w].mbox = m
        BY <2>2, <3>1, <4>1
      <4> QED  BY <4>1, <4>2 DEF SP_connect, Unused, Mb
    <3>2. CASE u # t /\ v # t
      BY <2>2, <2>3, <3>2, ZenonT(40) DEF NumbersInv, CallsRight, In, Mb
    <3> QED  BY <2>3, <3>1, <3>2
  <2> QED  BY <2>1, <2>3 DEF CallsRight, PlaceRight, In, Mb, Sending, Reading
<1>3. ASSUME NEW k \in 1 .. MaxSessions, Incoming(k) \/ EndConnection(k) PROVE CallsRight'
  BY <1>1, <1>3, DaemonLeaves
<1> QED  BY <1>1, <1>2, <1>3 DEF SpNext, spVars

LEMMA NumbersInitially == SpInit => NumbersInv
<1> SUFFICES ASSUME SpInit PROVE NumbersInv
  OBVIOUS
<1>1. \A t \in SpThread : doing[t].at = "none"
  BY DEF SpInit, Idle_call
<1>2. CallsRight
  BY <1>1 DEF CallsRight, In, Sending, Reading
<1>3. TableRight
  BY DEF SpInit, TableRight
<1>4. OneNumber
  BY SpAssumption DEF SpInit, OneNumber, Open
<1> QED  BY <1>2, <1>3, <1>4, SpTypeInit DEF NumbersInv

LEMMA NumbersStep ==
    ASSUME AwaitCalls, NumbersInv, [SpNext]_spVars
    PROVE  NumbersInv'
BY SpTypeStep, TableStep, NumberStep, CallsStep DEF NumbersInv
-----------------------------------------------------------------------------
(***************************************************************************)
(* Whole messages are sent.                                                *)
(***************************************************************************)
LEMMA Parity ==
    ASSUME NEW n \in Nat
    PROVE  /\ n % 2 = 0 \/ n % 2 = 1
           /\ n % 2 = 0 => (n + 1) % 2 = 1
           /\ n % 2 = 1 => (n + 1) % 2 # 1
OBVIOUS

\* The connection of the call is closed.
Closes(t) ==
  /\ Mb(t) \in Mbox /\ Open(Mb(t))
  /\ descriptor' = [descriptor EXCEPT ![Mb(t)] = 0]
  /\ Forget(descriptor[Mb(t)])

LEMMA SendSteps ==
    ASSUME NumbersInv, NEW t \in SpThread, SpCall(t) \/ SpStep(t)
    PROVE  \/ SendHeader(t) \/ SendData(t) \/ Closes(t)
           \/ /\ UNCHANGED <<up, ended>>
              /\ UNCHANGED descriptor \/ \E m \in Mbox : SP_connect(t, m)
<1> USE DEF NumbersInv
<1>1. CASE SpCall(t)
  BY <1>1 DEF SpCall, SP_connect, SP_disconnect, SP_multicast, SP_receive
<1>2. CASE SpStep(t)
  <2>0. Mb(t) \in Mbox
    BY <1>2, MbOfCall
  <2>1. CASE ConnectFails(t)
    BY <2>0, <2>1 DEF ConnectFails, CallsRight, Closes
  <2>2. CASE SP_kill(t) /\ Has(Mb(t))
    <3>1. Open(Mb(t))
      BY <2>0, <2>2, Found, SpAssumption DEF TableRight, Open, ASession
    <3> QED  BY <2>0, <2>2, <3>1 DEF SP_kill, Closes
  <2>3. CASE SP_kill(t) /\ ~Has(Mb(t))
    BY <2>3 DEF SP_kill
  <2>4. CASE \/ ConnectAccepted(t) \/ LookUpToSend(t) \/ LockToSend(t) \/ SendFails(t)
             \/ LookUpToReceive(t) \/ TooShort(t) \/ ReceiveFails(t)
    BY <2>4 DEF ConnectAccepted, LookUpToSend, LockToSend, SendFails, LookUpToReceive,
       TooShort, ReceiveFails
  <2>5. CASE ReadHeader(t) \/ ReadGroups(t) \/ ReadData(t)
    BY <2>5 DEF ReadHeader, ReadGroups, ReadData
  <2> QED  BY <1>2, <2>1, <2>2, <2>3, <2>4, <2>5 DEF SpStep
<1> QED  BY <1>1, <1>2

LEMMA LeavesData ==
    ASSUME NEW t \in SpThread, SpCall(t) \/ SpStep(t), In(t, "send data")
    PROVE  SendData(t) \/ SendFails(t)
BY DEF In, SpCall, SpStep, SP_connect, SP_disconnect, SP_multicast, SP_receive, ConnectFails,
   ConnectAccepted, SP_kill, LookUpToSend, LockToSend, SendHeader, LookUpToReceive, ReadHeader,
   TooShort, ReadGroups, ReadData, ReceiveFails

LEMMA EntersData ==
    ASSUME SpTypeOK, NEW t \in SpThread, SpCall(t) \/ SpStep(t), doing'[t].at = "send data"
    PROVE  SendHeader(t)
<1>1. ~SpCall(t)
  <2>1. ASSUME NEW m \in Mbox, SP_connect(t, m) PROVE FALSE
    BY <2>1 DEF SP_connect, Idle_call, SpTypeOK
  <2>2. ASSUME NEW m \in Mbox, NEW room,
               SP_disconnect(t, m) \/ SP_multicast(t, m) \/ SP_receive(t, m, room)
        PROVE  FALSE
    <3>1. doing'[t].at = "look up"
      BY <2>2, LooksUp
    <3> QED  BY <3>1
  <2> QED  BY <2>1, <2>2 DEF SpCall
<1>2. ~MulticastReturns(t) /\ ~Return(t)
  BY ReturnedOrKills
<1>3. ~LockToSend(t)
  <2>1. LockToSend(t) => doing'[t].at = "send header"
    BY Moved DEF LockToSend
  <2> QED  BY <2>1
<1>4. ~LookUpToSend(t)
  <2>1. ASSUME LookUpToSend(t) PROVE \E g : FindsToSend(t, g)
    BY <1>2, <2>1 DEF LookUpToSend, FindsToSend
  <2> QED  BY <2>1, FoundToSend
<1>5. ~LookUpToReceive(t)
  <2>1. ASSUME LookUpToReceive(t) PROVE \E s : ResumeOrRead(t, s)
    BY <1>2, <2>1 DEF LookUpToReceive
  <2> QED  BY <2>1, FoundToReceive
<1>6. ~ReadHeader(t)
  BY HeaderRead
<1>7. ~ReadGroups(t) \/ doing'[t].at = "data"
  BY GroupsRead
<1> QED  BY <1>1, <1>2, <1>3, <1>4, <1>5, <1>6, <1>7 DEF SpStep, ConnectFails, ConnectAccepted,
         SP_kill, SendData, SendFails, TooShort, ReadData, ReceiveFails, ReturnClosed

\* x has been sent on connection k.
Sent(k, x) == k \in 1 .. MaxSessions /\ x \in APart /\ up' = [up EXCEPT ![k] = Append(@, x)]

LEMMA SentIsLast ==
    ASSUME SpTypeOK, NEW k, NEW x, Sent(k, x)
    PROVE  /\ Len(up[k]) \in Nat /\ DOMAIN up[k] = 1 .. Len(up[k])
           /\ Len(up'[k]) = Len(up[k]) + 1 /\ DOMAIN up'[k] = 1 .. Len(up[k]) + 1
           /\ up'[k][Len(up[k]) + 1] = x
           /\ \A i \in 1 .. Len(up[k]) : up'[k][i] = up[k][i]
           /\ \A l \in 1 .. MaxSessions : l # k => up'[l] = up[l]
<1>1. up[k] \in Seq(APart)
  BY DEF SpTypeOK, Sent
<1>2. up'[k] = Append(up[k], x)
  BY DEF SpTypeOK, Sent
<1>3. \A l \in 1 .. MaxSessions : l # k => up'[l] = up[l]
  BY DEF SpTypeOK, Sent
<1> QED  BY <1>1, <1>2, <1>3

\* A sender has the send lock, and its session's connection.
LEMMA SenderHas ==
    ASSUME NumbersInv, NEW t \in SpThread, doing[t].at \in {"send header", "send data"}, Sendable(t)
    PROVE  /\ Mb(t) \in Mbox /\ descriptor[Mb(t)] \in 1 .. MaxSessions
           /\ descriptor[Mb(t)] = doing[t].group
           /\ \A p \in {"header", "data"} : Part(t, p) \in APart
           /\ \A u \in SpThread : doing[u].at \in {"send header", "send data"} /\ Mb(u) = Mb(t) => u = t
<1> USE DEF NumbersInv
<1>1. Mb(t) \in Mbox
  BY DEF CallsRight, In
<1>2. descriptor[Mb(t)] \in 1 .. MaxSessions
  BY <1>1, OpenNumber DEF Sendable
<1>3. descriptor[Mb(t)] = doing[t].group
  BY DEF CallsRight, Sendable, Sending
<1>4. \A p \in {"header", "data"} : Part(t, p) \in APart
  BY CallOfThread DEF Part, APart
<1>5. \A u \in SpThread : doing[u].at \in {"send header", "send data"} /\ Mb(u) = Mb(t) => u = t
  BY DEF CallsRight
<1> QED  BY <1>1, <1>2, <1>3, <1>4, <1>5

LEMMA HeaderStarts ==
    ASSUME SendInv, NEW t \in SpThread, SendHeader(t)
    PROVE  Len(up[descriptor[Mb(t)]]) % 2 = 0 /\ Sent(descriptor[Mb(t)], Part(t, "header"))
<1>1. doing[t].at = "send header" /\ Sendable(t) /\ NumbersInv
  BY DEF SendHeader, In, SendInv
<1>2. /\ Mb(t) \in Mbox /\ descriptor[Mb(t)] \in 1 .. MaxSessions
      /\ \A p \in {"header", "data"} : Part(t, p) \in APart
      /\ \A u \in SpThread : doing[u].at \in {"send header", "send data"} /\ Mb(u) = Mb(t) => u = t
  BY <1>1, SenderHas
<1>3. Sent(descriptor[Mb(t)], Part(t, "header"))
  BY <1>2 DEF Sent, SendHeader
<1>4. ~Unfinished(descriptor[Mb(t)])
  BY <1>1, <1>2 DEF SendInv, SendersInTurn, Sendable, In
<1>5. Len(up[descriptor[Mb(t)]]) \in Nat
  BY <1>1, <1>3, SentIsLast DEF NumbersInv
<1> QED  BY <1>3, <1>4, <1>5, Parity DEF Unfinished

LEMMA DataEnds ==
    ASSUME SendInv, NEW t \in SpThread, SendData(t)
    PROVE  /\ Len(up[descriptor[Mb(t)]]) % 2 = 1 /\ Sent(descriptor[Mb(t)], Part(t, "data"))
           /\ up[descriptor[Mb(t)]][Len(up[descriptor[Mb(t)]])].id = doing[t].id
<1>1. doing[t].at = "send data" /\ Sendable(t) /\ NumbersInv
  BY DEF SendData, In, SendInv
<1>2. /\ Mb(t) \in Mbox /\ descriptor[Mb(t)] \in 1 .. MaxSessions
      /\ \A p \in {"header", "data"} : Part(t, p) \in APart
  BY <1>1, SenderHas
<1>3. Sent(descriptor[Mb(t)], Part(t, "data"))
  BY <1>2 DEF Sent, SendData
<1> QED  BY <1>1, <1>3 DEF SendInv, SendersInTurn, In, Unfinished

LEMMA WholeSent ==
    ASSUME SpTypeOK, WholeMessages, NEW k, NEW x, Sent(k, x), x.of = k,
           IF (Len(up[k]) + 1) % 2 = 1 THEN x.kind = "header"
           ELSE x.kind = "data" /\ x.id = up[k][Len(up[k])].id
    PROVE  WholeMessages'
<1>1. /\ Len(up[k]) \in Nat /\ DOMAIN up[k] = 1 .. Len(up[k])
      /\ Len(up'[k]) = Len(up[k]) + 1 /\ DOMAIN up'[k] = 1 .. Len(up[k]) + 1
      /\ up'[k][Len(up[k]) + 1] = x
      /\ \A i \in 1 .. Len(up[k]) : up'[k][i] = up[k][i]
      /\ \A l \in 1 .. MaxSessions : l # k => up'[l] = up[l]
  BY SentIsLast
<1>2. PICK n \in Nat : n = Len(up[k])
  BY <1>1
<1>3. ASSUME NEW l \in 1 .. MaxSessions, NEW i \in DOMAIN up'[l]
      PROVE  /\ up'[l][i].of = l
             /\ IF i % 2 = 1 THEN up'[l][i].kind = "header"
                ELSE up'[l][i].kind = "data" /\ up'[l][i].id = up'[l][i - 1].id
  <2>1. CASE l # k
    BY <1>1, <1>3, <2>1 DEF WholeMessages
  <2>2. CASE l = k /\ i \in 1 .. n
    <3>1. i % 2 = 1 \/ i - 1 \in 1 .. n
      <4>1. 1 % 2 = 1
        OBVIOUS
      <4> QED  BY <2>2, <4>1
    <3>2. /\ up[k][i].of = k
          /\ IF i % 2 = 1 THEN up[k][i].kind = "header"
             ELSE up[k][i].kind = "data" /\ up[k][i].id = up[k][i - 1].id
      BY <1>1, <1>2, <1>3, <2>2, SMTT(30) DEF WholeMessages
    <3> QED  BY <1>1, <1>2, <2>2, <3>1, <3>2
  <2>3. CASE l = k /\ i = n + 1
    <3>1. i - 1 = n /\ (n = 0 => i % 2 = 1)
      <4>1. 1 % 2 = 1
        OBVIOUS
      <4>2. i - 1 = n /\ (n = 0 => i = 1)
        BY <2>3
      <4> QED  BY <4>1, <4>2
    <3>2. n # 0 => up'[k][n] = up[k][n]
      BY <1>1, <1>2
    <3> QED  BY <1>1, <1>2, <2>3, <3>1, <3>2, ZenonT(40)
  <2> QED  BY <1>1, <1>2, <1>3, <2>1, <2>2, <2>3
<1> QED  BY <1>3 DEF WholeMessages

LEMMA WholeStep ==
    ASSUME SendInv, [SpNext]_spVars
    PROVE  WholeMessages'
<1> USE DEF SendInv
<1>0. NumbersInv /\ SpTypeOK
  BY DEF NumbersInv
<1>1. CASE UNCHANGED up
  BY <1>1 DEF WholeMessages
<1>2. ASSUME NEW t \in SpThread, SpCall(t) \/ SpStep(t) PROVE WholeMessages'
  <2>1. CASE SendHeader(t)
    <3>1. PICK k : k = descriptor[Mb(t)]
      OBVIOUS
    <3>2. PICK x : x = Part(t, "header")
      OBVIOUS
    <3>3. Len(up[k]) % 2 = 0 /\ Sent(k, x)
      BY <2>1, <3>1, <3>2, HeaderStarts
    <3>4. x.kind = "header" /\ x.of = k
      BY <1>0, <2>1, <3>1, <3>2, SenderHas DEF SendHeader, In, Part
    <3>5. PICK n \in Nat : n = Len(up[k]) /\ n % 2 = 0 /\ (n + 1) % 2 = 1
      BY <1>0, <3>3, SentIsLast, Parity
    <3> QED  BY <1>0, <3>3, <3>4, <3>5, WholeSent
  <2>2. CASE SendData(t)
    <3>1. PICK k : k = descriptor[Mb(t)]
      OBVIOUS
    <3>2. PICK x : x = Part(t, "data")
      OBVIOUS
    <3>3. Len(up[k]) % 2 = 1 /\ Sent(k, x) /\ up[k][Len(up[k])].id = doing[t].id
      BY <2>2, <3>1, <3>2, DataEnds
    <3>4. x.kind = "data" /\ x.of = k /\ x.id = doing[t].id
      BY <1>0, <2>2, <3>1, <3>2, SenderHas DEF SendData, In, Part
    <3>5. PICK n \in Nat : n = Len(up[k]) /\ n % 2 = 1 /\ (n + 1) % 2 # 1
      BY <1>0, <3>3, SentIsLast, Parity
    <3>6. (Len(up[k]) + 1) % 2 # 1
      BY <3>5
    <3>7. x.id = up[k][Len(up[k])].id
      BY <3>3, <3>4
    <3> QED  BY <1>0, <3>3, <3>4, <3>6, <3>7, WholeSent
  <2>3. CASE Closes(t)
    <3>1. PICK k \in 1 .. MaxSessions : k = descriptor[Mb(t)]
      BY <1>0, <2>3, OpenNumber DEF Closes
    <3>2. \A l \in 1 .. MaxSessions : up'[l] = IF l = k THEN <<>> ELSE up[l]
      BY <1>0, <2>3, <3>1 DEF Closes, Forget, SpTypeOK
    <3> QED  BY <3>2 DEF WholeMessages
  <2> QED  BY <1>0, <1>1, <1>2, <2>1, <2>2, <2>3, SendSteps
<1>3. ASSUME NEW k \in 1 .. MaxSessions, Incoming(k) \/ EndConnection(k) PROVE WholeMessages'
  BY <1>1, <1>3, DaemonLeaves
<1> QED  BY <1>1, <1>2, <1>3 DEF SpNext, spVars
\* What happens to an open connection that another thread has a call on.
LEMMA SendStepOthers ==
    ASSUME SendInv, NEW t \in SpThread, SpCall(t) \/ SpStep(t),
           NEW m \in Mbox, descriptor'[m] # 0, descriptor'[m] = descriptor[m],
           descriptor[m] \notin ended'
    PROVE  /\ descriptor[m] \in 1 .. MaxSessions /\ descriptor[m] \notin ended
           /\ \/ up'[descriptor[m]] = up[descriptor[m]]
              \/ (SendHeader(t) \/ SendData(t)) /\ Mb(t) = m
<1> USE DEF SendInv
<1>0. NumbersInv /\ SpTypeOK
  BY DEF NumbersInv
<1>1. descriptor[m] \in 1 .. MaxSessions
  BY <1>0, OpenNumber DEF Open
<1>2. CASE UNCHANGED <<up, ended>>
  BY <1>1, <1>2
<1>3. CASE SendHeader(t) \/ SendData(t)
  <2>1. PICK x : Sent(descriptor[Mb(t)], x) /\ UNCHANGED ended
    BY <1>3, HeaderStarts, DataEnds DEF SendHeader, SendData
  <2>2. Mb(t) \in Mbox /\ Open(Mb(t))
    BY <1>0, <1>3, SenderHas DEF SendHeader, SendData, In, Sendable
  <2>3. m # Mb(t) => descriptor[m] # descriptor[Mb(t)]
    BY <2>2 DEF NumbersInv, OneNumber
  <2> QED  BY <1>0, <1>1, <1>3, <2>1, <2>3, SentIsLast
<1>4. CASE Closes(t)
  <2>1. m # Mb(t) /\ descriptor[m] # descriptor[Mb(t)]
    BY <1>0, <1>4 DEF Closes, NumbersInv, OneNumber, SpTypeOK
  <2> QED  BY <1>0, <1>1, <1>4, <2>1 DEF Closes, Forget, SpTypeOK
<1> QED  BY <1>0, <1>2, <1>3, <1>4, SendSteps

LEMMA OthersInTurn ==
    ASSUME AwaitCalls, SendInv, NEW t \in SpThread, SpCall(t) \/ SpStep(t), NEW u \in SpThread \ {t},
           In(u, "send data"), NEW m \in Mbox, Mb(u) = m,
           descriptor'[m] # 0, descriptor'[m] \notin ended'
    PROVE  /\ Len(up'[descriptor'[m]]) % 2 = 1
           /\ up'[descriptor'[m]][Len(up'[descriptor'[m]])].id = doing[u].id
<1>0. NumbersInv /\ SpTypeOK
  BY DEF SendInv, NumbersInv
<1>1. descriptor'[m] = descriptor[m]
  BY <1>0, MailboxSteps
<1>2. /\ descriptor[m] \notin ended
      /\ \/ up'[descriptor[m]] = up[descriptor[m]]
         \/ (SendHeader(t) \/ SendData(t)) /\ Mb(t) = m
  BY <1>1, SendStepOthers
<1>3. Sendable(u)
  BY <1>1, <1>2 DEF Sendable, Open
<1>4. Unfinished(descriptor[m]) /\ up[descriptor[m]][Len(up[descriptor[m]])].id = doing[u].id
  BY <1>3 DEF SendInv, SendersInTurn
<1>5. ~((SendHeader(t) \/ SendData(t)) /\ Mb(t) = m)
  BY <1>0, <1>3, SenderHas DEF SendHeader, SendData, In
<1> QED  BY <1>1, <1>2, <1>4, <1>5 DEF Unfinished

\* The sender of an unfinished message.
LEMMA SenderStays ==
    ASSUME SendInv, NEW t \in SpThread, SpCall(t) \/ SpStep(t),
           NEW m \in Mbox, descriptor'[m] # 0, descriptor'[m] \notin ended',
           Len(up'[descriptor'[m]]) % 2 = 1
    PROVE  \E u \in SpThread : doing'[u].at = "send data" /\ doing'[u].mbox = m
<1>0. NumbersInv /\ SpTypeOK
  BY DEF SendInv, NumbersInv
<1>1. CASE descriptor'[m] = descriptor[m]
  <2>1. /\ descriptor[m] \in 1 .. MaxSessions /\ descriptor[m] \notin ended
        /\ \/ up'[descriptor[m]] = up[descriptor[m]]
           \/ (SendHeader(t) \/ SendData(t)) /\ Mb(t) = m
    BY <1>1, SendStepOthers
  <2>2. CASE SendHeader(t) /\ Mb(t) = m
    <3>1. doing'[t].at = "send data" /\ doing'[t].mbox = m
      BY <1>0, <2>2, Moved DEF SendHeader, Mb
    <3> QED  BY <3>1
  <2>3. CASE SendData(t) /\ Mb(t) = m
    <3>1. PICK k \in 1 .. MaxSessions : k = descriptor[m]
      BY <2>1
    <3>2. PICK x : Sent(k, x) /\ Len(up[k]) % 2 = 1
      BY <2>3, <3>1, DataEnds
    <3>3. PICK n \in Nat : n = Len(up[k]) /\ Len(up'[k]) = n + 1 /\ n % 2 = 1
      BY <1>0, <3>2, SentIsLast
    <3>4. (n + 1) % 2 # 1
      BY <3>3, Parity
    <3> QED  BY <1>1, <3>1, <3>3, <3>4
  <2>4. CASE up'[descriptor[m]] = up[descriptor[m]] /\ ~(SendData(t) /\ Mb(t) = m)
    <3>1. Unfinished(descriptor[m]) /\ Open(m)
      BY <1>1, <2>4 DEF Unfinished, Open
    <3>2. PICK u \in SpThread : In(u, "send data") /\ Mb(u) = m
      BY <2>1, <3>1 DEF SendInv, SendersInTurn
    <3>3. u # t
      BY <2>1, <2>4, <3>1, <3>2, LeavesData DEF SendFails, Sendable
    <3> QED  BY <1>0, <3>2, <3>3, OthersStay DEF In, Mb
  <2> QED  BY <2>1, <2>2, <2>3, <2>4
<1>2. CASE descriptor'[m] # descriptor[m]
  <2>1. SP_connect(t, m)
    BY <1>0, <1>2, DescriptorSteps DEF SP_connect, ConnectFails, SP_kill, SpTypeOK
  <2>2. descriptor'[m] = counts.conns + 1 /\ UNCHANGED up /\ counts.conns \in Nat
        /\ counts.conns < MaxSessions
    BY <1>0, <2>1, SpAssumption DEF SP_connect, SpTypeOK
  <2>3. descriptor'[m] \in 1 .. MaxSessions /\ descriptor'[m] > counts.conns
    BY <2>2, SpAssumption
  <2>4. up'[descriptor'[m]] = <<>>
    BY <1>0, <2>2, <2>3 DEF NumbersInv, OneNumber
  <2>5. 0 % 2 # 1 /\ Len(<<>>) = 0
    OBVIOUS
  <2> QED  BY <2>4, <2>5
<1> QED  BY <1>1, <1>2

LEMMA TurnStep ==
    ASSUME AwaitCalls, SendInv, [SpNext]_spVars
    PROVE  SendersInTurn'
<1>0. NumbersInv /\ SpTypeOK /\ SendersInTurn
  BY DEF SendInv, NumbersInv
<1>1. ASSUME UNCHANGED <<up, descriptor, doing>>, ended \subseteq ended' PROVE SendersInTurn'
  BY <1>0, <1>1 DEF SendersInTurn, In, Sendable, Open, Mb, Unfinished
<1>2. ASSUME NEW t \in SpThread, SpCall(t) \/ SpStep(t) PROVE SendersInTurn'
  <2>1. ASSUME NEW u \in SpThread, doing'[u].at = "send data",
               descriptor'[doing'[u].mbox] # 0, descriptor'[doing'[u].mbox] \notin ended'
        PROVE  /\ Len(up'[descriptor'[doing'[u].mbox]]) % 2 = 1
               /\ up'[descriptor'[doing'[u].mbox]][Len(up'[descriptor'[doing'[u].mbox]])].id = doing'[u].id
    <3>1. CASE u # t
      <4>1. doing'[u] = doing[u]
        BY <1>0, <1>2, <3>1, OthersStay
      <4>2. PICK m \in Mbox : Mb(u) = m
        BY <1>0, <2>1, <4>1 DEF NumbersInv, CallsRight, In
      <4>3. doing'[u].mbox = m /\ In(u, "send data")
        BY <2>1, <4>1, <4>2 DEF Mb, In
      <4> QED  BY <1>2, <2>1, <3>1, <4>1, <4>2, <4>3, OthersInTurn
    <3>2. CASE u = t
      <4>1. SendHeader(t)
        BY <1>0, <1>2, <2>1, <3>2, EntersData
      <4>2. PICK k : k = descriptor[Mb(t)]
        OBVIOUS
      <4>3. PICK x : x = Part(t, "header")
        OBVIOUS
      <4>4. Len(up[k]) % 2 = 0 /\ Sent(k, x)
        BY <4>1, <4>2, <4>3, HeaderStarts
      <4>5. PICK n \in Nat : n = Len(up[k]) /\ n % 2 = 0 /\ Len(up'[k]) = n + 1 /\ up'[k][n + 1] = x
        BY <1>0, <4>4, SentIsLast
      <4>6. (n + 1) % 2 = 1
        BY <4>5, Parity
      <4>7. doing'[t].mbox = Mb(t) /\ doing'[t].id = x.id /\ UNCHANGED descriptor
        BY <1>0, <4>1, <4>3, Moved DEF SendHeader, Mb, Part
      <4> QED  BY <3>2, <4>2, <4>5, <4>6, <4>7
    <3> QED  BY <3>1, <3>2
  <2>2. \A m \in Mbox : descriptor'[m] # 0 /\ descriptor'[m] \notin ended' /\ Len(up'[descriptor'[m]]) % 2 = 1
          => \E u \in SpThread : doing'[u].at = "send data" /\ doing'[u].mbox = m
    BY <1>2, SenderStays DEF SendInv
  <2> QED  BY <2>1, <2>2 DEF SendersInTurn, In, Sendable, Open, Mb, Unfinished
<1>3. ASSUME NEW k \in 1 .. MaxSessions, Incoming(k) \/ EndConnection(k) PROVE SendersInTurn'
  BY <1>1, <1>3 DEF Incoming, EndConnection
<1> QED  BY <1>1, <1>2, <1>3 DEF SpNext, spVars

LEMMA SendInitially == SpInit => SendInv
<1> SUFFICES ASSUME SpInit PROVE SendInv
  OBVIOUS
<1>1. \A t \in SpThread : doing[t].at = "none"
  BY DEF SpInit, Idle_call
<1>2. SendersInTurn
  BY <1>1 DEF SpInit, SendersInTurn, In, Open
<1>3. WholeMessages
  BY SpAssumption DEF SpInit, WholeMessages
<1> QED  BY <1>2, <1>3, NumbersInitially DEF SendInv

\* What a daemon is sent on a connection is whole messages of that session, only
\* the last one may be cut off, as long as a descriptor number is not used again
\* under a call (SP_internal_multicast sends the parts under Mbox_mutex).
THEOREM SentWhole ==
    ASSUME AwaitCalls
    PROVE  SpSpec => []WholeMessages
<1>1. SpInit => SendInv
  BY SendInitially
<1>2. SendInv /\ [SpNext]_spVars => SendInv'
  BY NumbersStep, TurnStep, WholeStep DEF SendInv
<1>3. SendInv => WholeMessages
  BY DEF SendInv
<1> QED  BY <1>1, <1>2, <1>3, PTL DEF SpSpec

-----------------------------------------------------------------------------
(***************************************************************************)
(* One message is read.                                                    *)
(***************************************************************************)
LEMMA ChainTail ==
    ASSUME NEW s \in Seq(APart), s # <<>>, NEW k, Chain(s, k)
    PROVE  /\ Chain(Tail(s), k) /\ Head(s) = s[1] /\ s[1].of = k
           /\ s[1].kind = "header" => Begins(Tail(s), "groups", s[1].id)
           /\ s[1].kind = "groups" => Begins(Tail(s), "data", s[1].id)
           /\ s[1].kind = "data" => AtHeader(Tail(s))
<1>1. /\ Len(s) \in Nat /\ Len(s) > 0 /\ Head(s) = s[1]
      /\ Tail(s) \in Seq(APart) /\ Len(Tail(s)) = Len(s) - 1
      /\ \A i \in 1 .. Len(s) - 1 : Tail(s)[i] = s[i + 1]
  BY SMTT(30)
<1>2. PICK n \in Nat, r \in Seq(APart) :
        /\ n = Len(s) /\ r = Tail(s) /\ Len(r) = n - 1 /\ n > 0
        /\ \A i \in 1 .. n - 1 : r[i] = s[i + 1]
  BY <1>1
<1>3. \A i \in 1 .. n :
        /\ s[i].of = k /\ s[i].kind \in {"header", "groups", "data"}
        /\ s[i].kind = "header" => i < n /\ s[i + 1].kind = "groups" /\ s[i + 1].id = s[i].id
        /\ s[i].kind = "groups" => i < n /\ s[i + 1].kind = "data" /\ s[i + 1].id = s[i].id
        /\ s[i].kind = "data" /\ i < n => s[i + 1].kind = "header"
  BY <1>2 DEF Chain
<1>4. Chain(r, k)
  <2>1. ASSUME NEW i \in 1 .. n - 1 PROVE i + 1 \in 1 .. n /\ r[i] = s[i + 1]
    BY <1>2, <2>1
  <2>2. ASSUME NEW i \in 1 .. n - 1, i + 1 < n PROVE i + 1 \in 1 .. n - 1 /\ r[i + 1] = s[i + 1 + 1]
    BY <1>2, <2>2
  <2>3. ASSUME NEW i \in 1 .. n - 1
        PROVE  /\ r[i].of = k /\ r[i].kind \in {"header", "groups", "data"}
               /\ r[i].kind = "header" => i < n - 1 /\ r[i + 1].kind = "groups" /\ r[i + 1].id = r[i].id
               /\ r[i].kind = "groups" => i < n - 1 /\ r[i + 1].kind = "data" /\ r[i + 1].id = r[i].id
               /\ r[i].kind = "data" /\ i < n - 1 => r[i + 1].kind = "header"
    <3>1. i + 1 \in 1 .. n /\ r[i] = s[i + 1] /\ (i + 1 < n <=> i < n - 1)
      BY <2>1
    <3> QED  BY <1>3, <2>2, <3>1
  <2> QED  BY <1>2, <2>3 DEF Chain
<1>5. 1 < n => r # <<>> /\ r[1] = s[2]
  <2>1. 1 < n => Len(r) # 0
    BY <1>2
  <2>2. 1 < n => 1 \in 1 .. n - 1 /\ 1 + 1 = 2
    BY <1>2
  <2>3. Len(<<>>) = 0
    OBVIOUS
  <2> QED  BY <1>2, <2>1, <2>2, <2>3
<1>6. /\ s[1].of = k
      /\ s[1].kind = "header" => 1 < n /\ s[2].kind = "groups" /\ s[2].id = s[1].id
      /\ s[1].kind = "groups" => 1 < n /\ s[2].kind = "data" /\ s[2].id = s[1].id
      /\ s[1].kind = "data" /\ 1 < n => s[2].kind = "header"
  <2>1. 1 \in 1 .. n /\ 1 + 1 = 2
    BY <1>2
  <2> QED  BY <1>3, <2>1
<1>7. ~(1 < n) => r = <<>>
  <2>1. ~(1 < n) => Len(r) = 0
    BY <1>2
  <2> QED  BY <1>2, <2>1, EmptySeq
<1> QED  BY <1>1, <1>2, <1>4, <1>5, <1>6, <1>7 DEF Begins, AtHeader

LEMMA ChainMore ==
    ASSUME NEW s \in Seq(APart), NEW r \in Seq(APart), NEW k, Chain(s, k), Chain(r, k), AtHeader(r)
    PROVE  /\ Chain(s \o r, k)
           /\ AtHeader(s) => AtHeader(s \o r)
           /\ \A kind, id : Begins(s, kind, id) => Begins(s \o r, kind, id)
<1>1. PICK n \in Nat, l \in Nat : n = Len(s) /\ l = Len(r)
  OBVIOUS
<1>2. PICK c \in Seq(APart) :
        /\ c = s \o r /\ Len(c) = n + l
        /\ \A i \in 1 .. n + l : c[i] = IF i <= n THEN s[i] ELSE r[i - n]
  <2>1. /\ s \o r \in Seq(APart) /\ Len(s \o r) = Len(s) + Len(r)
        /\ \A i \in 1 .. Len(s) + Len(r) : (s \o r)[i] = IF i <= Len(s) THEN s[i] ELSE r[i - Len(s)]
    BY ConcatProperties
  <2> QED  BY <1>1, <2>1
<1>3. \A i \in 1 .. n :
        /\ s[i].of = k /\ s[i].kind \in {"header", "groups", "data"}
        /\ s[i].kind = "header" => i < n /\ s[i + 1].kind = "groups" /\ s[i + 1].id = s[i].id
        /\ s[i].kind = "groups" => i < n /\ s[i + 1].kind = "data" /\ s[i + 1].id = s[i].id
        /\ s[i].kind = "data" /\ i < n => s[i + 1].kind = "header"
  BY <1>1 DEF Chain
<1>4. \A i \in 1 .. l :
        /\ r[i].of = k /\ r[i].kind \in {"header", "groups", "data"}
        /\ r[i].kind = "header" => i < l /\ r[i + 1].kind = "groups" /\ r[i + 1].id = r[i].id
        /\ r[i].kind = "groups" => i < l /\ r[i + 1].kind = "data" /\ r[i + 1].id = r[i].id
        /\ r[i].kind = "data" /\ i < l => r[i + 1].kind = "header"
  BY <1>1 DEF Chain
<1>5. l > 0 => r[1].kind = "header"
  BY <1>1 DEF AtHeader
<1>6. ASSUME NEW i \in 1 .. n + l
      PROVE  /\ c[i].of = k /\ c[i].kind \in {"header", "groups", "data"}
             /\ c[i].kind = "header" => i < n + l /\ c[i + 1].kind = "groups" /\ c[i + 1].id = c[i].id
             /\ c[i].kind = "groups" => i < n + l /\ c[i + 1].kind = "data" /\ c[i + 1].id = c[i].id
             /\ c[i].kind = "data" /\ i < n + l => c[i + 1].kind = "header"
  <2>1. CASE i < n
    <3>1. i \in 1 .. n /\ i + 1 \in 1 .. n + l /\ i + 1 <= n /\ i <= n /\ i < n + l
      BY <2>1
    <3>2. c[i] = s[i] /\ c[i + 1] = s[i + 1]
      BY <1>2, <3>1
    <3> QED  BY <1>3, <3>1, <3>2
  <2>2. CASE i = n
    <3>1. i \in 1 .. n /\ i <= n /\ ~(i < n) /\ (i < n + l => l > 0)
      BY <2>2
    <3>2. c[i] = s[i]
      BY <1>2, <3>1
    <3>3. c[i].of = k /\ c[i].kind = "data"
      BY <1>3, <3>1, <3>2
    <3>4. i < n + l => c[i + 1] = r[1]
      <4>1. i < n + l => i + 1 \in 1 .. n + l /\ ~(i + 1 <= n) /\ i + 1 - n = 1
        BY <2>2
      <4> QED  BY <1>2, <4>1, SMTT(30)
    <3> QED  BY <1>5, <3>1, <3>3, <3>4
  <2>3. CASE i > n
    <3>1. PICK j \in 1 .. l : i = n + j
      <4>1. i - n \in 1 .. l /\ i = n + (i - n)
        BY <2>3
      <4> QED  BY <4>1
    <3>2. ~(i <= n) /\ i - n = j /\ (i < n + l <=> j < l)
      BY <3>1
    <3>3. c[i] = r[j]
      BY <1>2, <3>2
    <3>4. j < l => c[i + 1] = r[j + 1]
      <4>1. j < l => i + 1 \in 1 .. n + l /\ ~(i + 1 <= n) /\ i + 1 - n = j + 1
        BY <3>1
      <4> QED  BY <1>2, <4>1
    <3> QED  BY <1>4, <3>2, <3>3, <3>4, SMTT(30)
  <2> QED  BY <2>1, <2>2, <2>3
<1>7. Chain(c, k)
  BY <1>2, <1>6 DEF Chain
<1>8. s # <<>> => c # <<>> /\ c[1] = s[1]
  BY <1>1, <1>2
<1>9. s = <<>> /\ c # <<>> => r # <<>> /\ c[1] = r[1]
  BY <1>1, <1>2
<1> QED  BY <1>2, <1>7, <1>8, <1>9 DEF AtHeader, Begins

\* The three parts of a message from the daemon.
Message(k, id) ==
  [i \in 1 .. 3 |-> [kind |-> <<"header", "groups", "data">>[i], of |-> k, id |-> id]]

LEMMA MessageChain ==
    ASSUME NEW k \in 0 .. MaxSessions, NEW id \in Nat
    PROVE  /\ Message(k, id) \in Seq(APart) /\ Chain(Message(k, id), k)
           /\ AtHeader(Message(k, id))
<1>1. PICK m : m = Message(k, id)
  OBVIOUS
<1>2. /\ DOMAIN m = 1 .. 3
      /\ m[1] = [kind |-> "header", of |-> k, id |-> id]
      /\ m[2] = [kind |-> "groups", of |-> k, id |-> id]
      /\ m[3] = [kind |-> "data", of |-> k, id |-> id]
      /\ m = [i \in 1 .. 3 |-> m[i]]
  BY <1>1 DEF Message
<1>3. \A i \in 1 .. 3 : m[i] \in APart
  <2>1. \A i \in 1 .. 3 : i = 1 \/ i = 2 \/ i = 3
    OBVIOUS
  <2> QED  BY <1>2, <2>1 DEF APart
<1>4. m \in Seq(APart) /\ Len(m) = 3
  BY <1>2, <1>3
<1>5. Chain(m, k)
  <2>1. \A i \in 1 .. Len(m) : i = 1 \/ i = 2 \/ (i = 3 /\ ~(i < Len(m)))
    BY <1>4
  <2>2. 1 + 1 = 2 /\ 2 + 1 = 3 /\ 1 < Len(m) /\ 2 < Len(m)
    BY <1>4
  <2> QED  BY <1>2, <2>1, <2>2 DEF Chain
<1> QED  BY <1>1, <1>2, <1>4, <1>5 DEF AtHeader

LEMMA ReadSteps ==
    ASSUME NumbersInv, NEW t \in SpThread, SpCall(t) \/ SpStep(t)
    PROVE  \/ ReadHeader(t) \/ ReadGroups(t) \/ ReadData(t) \/ Closes(t)
           \/ /\ UNCHANGED down
              /\ UNCHANGED descriptor \/ \E m \in Mbox : SP_connect(t, m)
<1> USE DEF NumbersInv
<1>1. CASE SpCall(t)
  BY <1>1 DEF SpCall, SP_connect, SP_disconnect, SP_multicast, SP_receive
<1>2. CASE SpStep(t)
  <2>0. Mb(t) \in Mbox
    BY <1>2, MbOfCall
  <2>1. CASE ConnectFails(t)
    BY <2>0, <2>1 DEF ConnectFails, CallsRight, Closes
  <2>2. CASE SP_kill(t) /\ Has(Mb(t))
    <3>1. Open(Mb(t))
      BY <2>0, <2>2, Found, SpAssumption DEF TableRight, Open, ASession
    <3> QED  BY <2>0, <2>2, <3>1 DEF SP_kill, Closes
  <2>3. CASE SP_kill(t) /\ ~Has(Mb(t))
    BY <2>3 DEF SP_kill
  <2>4. CASE \/ ConnectAccepted(t) \/ LookUpToSend(t) \/ LockToSend(t) \/ SendFails(t)
             \/ LookUpToReceive(t) \/ TooShort(t) \/ ReceiveFails(t)
    BY <2>4 DEF ConnectAccepted, LookUpToSend, LockToSend, SendFails, LookUpToReceive,
       TooShort, ReceiveFails
  <2>5. CASE SendHeader(t) \/ SendData(t)
    BY <2>5 DEF SendHeader, SendData
  <2> QED  BY <1>2, <2>1, <2>2, <2>3, <2>4, <2>5 DEF SpStep
<1> QED  BY <1>1, <1>2, SMTT(30)

\* s was the stream of connection k, and its first part has been read.
Took(t, k, s) ==
  /\ k \in 1 .. MaxSessions /\ Mb(t) \in Mbox /\ descriptor[Mb(t)] = k /\ Stream(t) = s
  /\ s \in Seq(APart) /\ s # <<>> /\ Chain(s, k) /\ down[k] = s
  /\ down' = [down EXCEPT ![k] = Tail(s)] /\ UNCHANGED descriptor

LEMMA Reads ==
    ASSUME NumbersInv, Chains, NEW t \in SpThread, ReadHeader(t) \/ ReadGroups(t) \/ ReadData(t)
    PROVE  \E k, s : Took(t, k, s)
<1>1. Mb(t) \in Mbox /\ Readable(t) /\ SpTypeOK
  BY DEF NumbersInv, CallsRight, ReadHeader, ReadGroups, ReadData, In
<1>2. PICK k : k = descriptor[Mb(t)]
  OBVIOUS
<1>3. PICK s : s = down[k]
  OBVIOUS
<1>4. k \in 1 .. MaxSessions
  BY <1>1, <1>2, OpenNumber DEF Readable
<1>5. s \in Seq(APart) /\ s # <<>> /\ Chain(s, k)
  BY <1>1, <1>2, <1>3, <1>4 DEF Chains, SpTypeOK, Readable, Stream
<1>6. down' = [down EXCEPT ![k] = Tail(s)] /\ UNCHANGED descriptor
  BY <1>1, <1>2, <1>3, <1>4 DEF ReadHeader, ReadGroups, ReadData, Consume, SpTypeOK
<1> QED  BY <1>1, <1>2, <1>3, <1>4, <1>5, <1>6 DEF Took, Stream

LEMMA EmptyChain == \A k : Chain(<<>>, k)
BY DEF Chain

LEMMA MessageArrives ==
    ASSUME SpTypeOK, NEW k \in 1 .. MaxSessions, Incoming(k)
    PROVE  \E r \in Seq(APart) : Chain(r, k) /\ AtHeader(r) /\ down' = [down EXCEPT ![k] = @ \o r]
<1>1. k \in 0 .. MaxSessions /\ counts.in + 1 \in Nat
  BY SpAssumption DEF SpTypeOK
<1>2. down' = [down EXCEPT ![k] = @ \o Message(k, counts.in + 1)]
  BY DEF Incoming, Message
<1> QED  BY <1>1, <1>2, MessageChain

LEMMA ChainStep ==
    ASSUME NumbersInv, Chains, [SpNext]_spVars
    PROVE  Chains'
<1>0. down \in [1 .. MaxSessions -> Seq(APart)] /\ SpTypeOK
  BY DEF NumbersInv, SpTypeOK
<1>1. CASE UNCHANGED down
  BY <1>1 DEF Chains, Chain
<1>2. ASSUME NEW k \in 1 .. MaxSessions, NEW r, Chain(r, k), down' = [down EXCEPT ![k] = r]
      PROVE  Chains'
  <2>1. \A l \in 1 .. MaxSessions : down'[l] = IF l = k THEN r ELSE down[l]
    BY <1>0, <1>2
  <2>2. \A l \in 1 .. MaxSessions : Chain(down'[l], l)
    BY <1>2, <2>1 DEF Chains
  <2> QED  BY <2>2 DEF Chains, Chain
<1>3. ASSUME NEW t \in SpThread, SpCall(t) \/ SpStep(t) PROVE Chains'
  <2>1. CASE ReadHeader(t) \/ ReadGroups(t) \/ ReadData(t)
    <3>1. PICK k, s : Took(t, k, s)
      BY <2>1, Reads
    <3>2. Chain(Tail(s), k)
      BY <3>1, ChainTail DEF Took
    <3> QED  BY <1>2, <3>1, <3>2 DEF Took
  <2>2. CASE Closes(t)
    <3>1. PICK k \in 1 .. MaxSessions : k = descriptor[Mb(t)]
      BY <1>0, <2>2, OpenNumber DEF Closes
    <3>2. down' = [down EXCEPT ![k] = <<>>]
      BY <2>2, <3>1 DEF Closes, Forget
    <3> QED  BY <1>2, <3>2, EmptyChain
  <2> QED  BY <1>1, <1>3, <2>1, <2>2, ReadSteps
<1>4. ASSUME NEW k \in 1 .. MaxSessions, Incoming(k) PROVE Chains'
  <2>1. PICK r \in Seq(APart) : Chain(r, k) /\ AtHeader(r) /\ down' = [down EXCEPT ![k] = @ \o r]
    BY <1>0, <1>4, MessageArrives
  <2>2. PICK s \in Seq(APart) : s = down[k] /\ Chain(s, k)
    BY <1>0 DEF Chains
  <2>3. Chain(s \o r, k) /\ down' = [down EXCEPT ![k] = s \o r]
    BY <2>1, <2>2, ChainMore
  <2> QED  BY <1>2, <2>3
<1>5. ASSUME NEW k \in 1 .. MaxSessions, EndConnection(k) PROVE Chains'
  BY <1>1, <1>5 DEF EndConnection
<1> QED  BY <1>1, <1>3, <1>4, <1>5 DEF SpNext, spVars

\* What is on a connection changes with a message, or for the one who reads it.
LEMMA StreamStays ==
    ASSUME NumbersInv, Chains, NEW t \in SpThread, SpCall(t) \/ SpStep(t),
           NEW m \in Mbox, descriptor[m] # 0, descriptor'[m] = descriptor[m],
           ~(Reading(t) /\ Mb(t) = m)
    PROVE  down'[descriptor[m]] = down[descriptor[m]]
<1>0. down \in [1 .. MaxSessions -> Seq(APart)] /\ SpTypeOK
  BY DEF NumbersInv, SpTypeOK
<1>1. descriptor[m] \in 1 .. MaxSessions
  BY <1>0, OpenNumber DEF Open
<1>2. CASE ReadHeader(t) \/ ReadGroups(t) \/ ReadData(t)
  <2>1. PICK k, s : Took(t, k, s)
    BY <1>2, Reads
  <2>2. m # Mb(t)
    BY <1>2 DEF ReadHeader, ReadGroups, ReadData, In, Reading
  <2>3. descriptor[m] # k
    BY <2>1, <2>2 DEF Took, NumbersInv, OneNumber, Open
  <2> QED  BY <1>0, <1>1, <2>1, <2>3 DEF Took
<1>3. CASE Closes(t)
  <2>1. m # Mb(t) /\ descriptor[m] # descriptor[Mb(t)]
    BY <1>0, <1>3 DEF Closes, NumbersInv, OneNumber, Open, SpTypeOK
  <2> QED  BY <1>0, <1>1, <1>3, <2>1 DEF Closes, Forget
<1> QED  BY <1>2, <1>3, ReadSteps

\* What a step makes of the entries of the table.
Kept(i, j) ==
  /\ Sessions'[j].mbox = Sessions[i].mbox /\ Sessions'[j].group = Sessions[i].group
  /\ Sessions'[j].recv_message_saved = Sessions[i].recv_message_saved
  /\ Sessions'[j].recv_saved_head = Sessions[i].recv_saved_head
NewEntry(t, j) ==
  /\ ConnectAccepted(t) /\ Sessions'[j].mbox = Mb(t) /\ Sessions'[j].group = descriptor[Mb(t)]
  /\ ~Sessions'[j].recv_message_saved
HeadKept(t, i, j) ==
  /\ TooShort(t) /\ ~doing[t].saved
  /\ Sessions'[j].mbox = Mb(t) /\ Sessions[i].mbox = Mb(t) /\ Sessions'[j].group = Sessions[i].group
  /\ Sessions'[j].recv_message_saved /\ Sessions'[j].recv_saved_head = doing[t].head
HeadUsed(t, i, j) ==
  /\ ReadData(t)
  /\ Sessions'[j].mbox = Mb(t) /\ Sessions[i].mbox = Mb(t) /\ Sessions'[j].group = Sessions[i].group
  /\ ~Sessions'[j].recv_message_saved
NotDone(t, i) ==
  Sessions[i].mbox = Mb(t) =>
    /\ TooShort(t) => doing[t].saved
    /\ ReadData(t) /\ doing[t].saved => doing[t].room = "drop data"
Entry(t, i, j) == (Kept(i, j) /\ NotDone(t, i)) \/ HeadKept(t, i, j) \/ HeadUsed(t, i, j)

LEMMA KilledKeeps ==
    ASSUME NumbersInv, NEW t \in SpThread, SP_kill(t), Has(Mb(t))
    PROVE  \A j \in DOMAIN Sessions' : \E k \in DOMAIN Sessions : Sessions'[j] = Sessions[k]
<1> USE DEF NumbersInv
<1>0. Mb(t) \in Mbox
  BY DEF SP_kill, In, CallsRight
<1>1. PICK i \in {SP_get_session(Mb(t))} :
        Sessions' = SubSeq(Sessions, 1, i - 1) \o SubSeq(Sessions, i + 1, Len(Sessions))
  BY DEF SP_kill
<1>2. i \in DOMAIN Sessions /\ Sessions[i].mbox = Mb(t)
  BY <1>0, <1>1, Found
<1>3. Sessions \in Seq(ASession) /\ DOMAIN Sessions = 1 .. Len(Sessions) /\ Len(Sessions) \in Nat
  BY DEF SpTypeOK
<1>4. /\ Sessions' \in Seq(ASession) /\ Len(Sessions') = Len(Sessions) - 1
      /\ \A j \in 1 .. Len(Sessions) - 1 :
           Sessions'[j] = IF j < i THEN Sessions[j] ELSE Sessions[j + 1]
  BY <1>1, <1>2, <1>3, Removed, ZenonT(40)
<1>5. DOMAIN Sessions' = 1 .. Len(Sessions) - 1
  BY <1>4
<1>6. ASSUME NEW j \in DOMAIN Sessions'
      PROVE  \E k \in DOMAIN Sessions : Sessions'[j] = Sessions[k]
  BY <1>2, <1>3, <1>4, <1>5
<1> QED  BY <1>6

LEMMA EntrySteps ==
    ASSUME NumbersInv, NEW t \in SpThread, SpCall(t) \/ SpStep(t), NEW j \in DOMAIN Sessions'
    PROVE  NewEntry(t, j) \/ \E i \in DOMAIN Sessions : Entry(t, i, j)
<1> USE DEF NumbersInv
<1>1. ASSUME UNCHANGED Sessions, ~TooShort(t), ~ReadData(t)
      PROVE  \E i \in DOMAIN Sessions : Entry(t, i, j)
  BY <1>1 DEF Entry, Kept, NotDone
<1>m. SpStep(t) => Mb(t) \in Mbox
  BY MbOfCall
<1>2. CASE TooShort(t)
  <2>0. doing[t].at = "check" /\ Mb(t) \in Mbox
    BY <1>2, <1>m DEF TooShort, In, SpStep
  <2>1. ~ReadData(t)
    BY <2>0 DEF ReadData, In
  <2>2. CASE ~doing[t].saved /\ Has(Mb(t))
    <3>1. /\ SameTable
          /\ \A i \in DOMAIN Sessions :
               IF Sessions[i].mbox = Mb(t)
               THEN Sessions'[i].recv_message_saved = TRUE /\ Sessions'[i].recv_saved_head = doing[t].head
               ELSE Sessions'[i] = Sessions[i]
      <4>1. PICK b, h : b = TRUE /\ h = doing[t].head
        OBVIOUS
      <4>2. Sessions' = [Sessions EXCEPT ![SP_get_session(Mb(t))].recv_message_saved = b,
                                         ![SP_get_session(Mb(t))].recv_saved_head = h]
        BY <1>2, <2>2, <4>1 DEF TooShort, SavedHead
      <4>3. /\ SameTable
            /\ \A i \in DOMAIN Sessions :
                 IF Sessions[i].mbox = Mb(t)
                 THEN Sessions'[i].recv_message_saved = b /\ Sessions'[i].recv_saved_head = h
                 ELSE Sessions'[i] = Sessions[i]
        BY <2>0, <2>2, <4>2, HeadNoted
      <4> QED  BY <4>1, <4>3
    <3> QED  BY <1>2, <2>2, <3>1 DEF SameTable, Entry, Kept, NotDone, HeadKept
  <2>3. CASE doing[t].saved \/ ~Has(Mb(t))
    <3>1. UNCHANGED Sessions
      BY <1>2, <2>3 DEF TooShort
    <3>2. NotDone(t, j)
      BY <2>1, <2>3, <3>1 DEF NotDone, Has
    <3> QED  BY <3>1, <3>2 DEF Entry, Kept
  <2> QED  BY <2>2, <2>3
<1>3. CASE ReadData(t)
  <2>0. doing[t].at = "data" /\ Mb(t) \in Mbox
    BY <1>3, <1>m DEF ReadData, In, SpStep
  <2>1. ~TooShort(t)
    BY <2>0 DEF TooShort, In
  <2>2. CASE doing[t].saved /\ Has(Mb(t)) /\ doing[t].room # "drop data"
    <3>1. /\ SameTable
          /\ \A i \in DOMAIN Sessions :
               IF Sessions[i].mbox = Mb(t)
               THEN Sessions'[i].recv_message_saved = FALSE /\ Sessions'[i].recv_saved_head = NoPart
               ELSE Sessions'[i] = Sessions[i]
      BY <1>3, <2>0, <2>2, HeadNoted DEF ReadData, ClearSaved
    <3> QED  BY <1>3, <2>1, <3>1 DEF SameTable, Entry, Kept, NotDone, HeadUsed
  <2>3. CASE ~(doing[t].saved /\ Has(Mb(t)) /\ doing[t].room # "drop data")
    <3>1. UNCHANGED Sessions
      BY <1>3, <2>3 DEF ReadData, ClearSaved
    <3>2. NotDone(t, j)
      BY <2>1, <2>3, <3>1 DEF NotDone, Has
    <3> QED  BY <3>1, <3>2 DEF Entry, Kept
  <2> QED  BY <2>2, <2>3
<1>4. CASE SendFails(t) \/ ReceiveFails(t)
  <2>0. Mb(t) \in Mbox /\ ~TooShort(t) /\ ~ReadData(t)
    <3>1. ~TooShort(t)
      BY <1>4 DEF SendFails, ReceiveFails, TooShort, In
    <3>2. CASE ReadData(t)
      BY <1>4, <3>2 DEF SendFails, ReceiveFails, ReadData, In, Readable
    <3> QED  BY <1>m, <1>4, <3>1, <3>2 DEF SpStep
  <2>1. CASE UNCHANGED Sessions
    BY <1>1, <2>0, <2>1
  <2>2. CASE Has(Mb(t)) /\ Sessions' = [Sessions EXCEPT ![SP_get_session(Mb(t))].state = "error"]
    <3>1. /\ SameTable
          /\ \A i \in DOMAIN Sessions :
                /\ Sessions'[i].recv_message_saved = Sessions[i].recv_message_saved
                /\ Sessions'[i].recv_saved_head = Sessions[i].recv_saved_head
      BY <2>0, <2>2, ErrorNoted
    <3> QED  BY <2>0, <3>1 DEF SameTable, Entry, Kept, NotDone
  <2> QED  BY <1>4, <2>1, <2>2 DEF SendFails, ReceiveFails, ReturnClosed
<1>5. CASE ConnectAccepted(t)
  <2>0. ~TooShort(t) /\ ~ReadData(t)
    BY <1>5 DEF ConnectAccepted, TooShort, ReadData, In
  <2>1. PICK s : /\ s.mbox = Mb(t) /\ s.group = descriptor[Mb(t)] /\ ~s.recv_message_saved
                 /\ Sessions' = Append(Sessions, s)
    BY <1>5 DEF ConnectAccepted
  <2>2. /\ DOMAIN Sessions' = 1 .. Len(Sessions) + 1 /\ DOMAIN Sessions = 1 .. Len(Sessions)
        /\ Sessions'[Len(Sessions) + 1] = s /\ Len(Sessions) \in Nat
        /\ \A i \in DOMAIN Sessions : Sessions'[i] = Sessions[i]
    BY <2>1 DEF SpTypeOK
  <2>3. CASE j = Len(Sessions) + 1
    BY <1>5, <2>1, <2>2, <2>3 DEF NewEntry
  <2>4. CASE j \in DOMAIN Sessions
    BY <2>0, <2>2, <2>4 DEF Entry, Kept, NotDone
  <2> QED  BY <2>2, <2>3, <2>4
<1>6. CASE SP_kill(t) /\ Has(Mb(t))
  <2>0. ~TooShort(t) /\ ~ReadData(t)
    BY <1>6 DEF SP_kill, TooShort, ReadData, In
  <2>1. PICK l \in DOMAIN Sessions : Sessions'[j] = Sessions[l]
    BY <1>6, KilledKeeps
  <2> QED  BY <2>0, <2>1 DEF Entry, Kept, NotDone
<1>7. CASE SpCall(t) \/ (SP_kill(t) /\ ~Has(Mb(t)))
  <2>1. ~TooShort(t) /\ ~ReadData(t)
    BY <1>7, ZenonT(40) DEF SpCall, SP_connect, SP_disconnect, SP_multicast, SP_receive, SP_kill, TooShort, ReadData, In
  <2>2. UNCHANGED Sessions
    BY <1>7 DEF SpCall, SP_connect, SP_disconnect, SP_multicast, SP_receive, SP_kill
  <2> QED  BY <1>1, <2>1, <2>2, SMTT(30)
<1>8. CASE \/ ConnectFails(t) \/ LookUpToSend(t) \/ LockToSend(t) \/ SendHeader(t)
           \/ SendData(t) \/ LookUpToReceive(t) \/ ReadHeader(t) \/ ReadGroups(t)
  <2>1. CASE TooShort(t) \/ ReadData(t)
    BY <1>2, <1>3, <2>1
  <2>2. UNCHANGED Sessions
    BY <1>8 DEF ConnectFails, LookUpToSend, LockToSend, SendHeader, SendData,
       LookUpToReceive, ReadHeader, ReadGroups
  <2> QED  BY <1>1, <2>1, <2>2
<1> QED  BY <1>2, <1>3, <1>4, <1>5, <1>6, <1>7, <1>8 DEF SpStep

\* A reader has the receive lock.
LEMMA ReaderHas ==
    ASSUME NumbersInv, NEW t \in SpThread, Reading(t)
    PROVE  /\ Mb(t) \in Mbox /\ Mbox_mutex[Mb(t)].recv = t
           /\ \A u \in SpThread : Reading(u) /\ Mb(u) = Mb(t) => u = t
           /\ Open(Mb(t)) => Has(Mb(t)) /\ descriptor[Mb(t)] = doing[t].group
BY ZenonT(40) DEF NumbersInv, CallsRight, Reading, In

LEMMA LeavesReading ==
    ASSUME NEW t \in SpThread, SpCall(t) \/ SpStep(t), Reading(t)
    PROVE  ReadHeader(t) \/ ReadGroups(t) \/ ReadData(t) \/ TooShort(t) \/ ReceiveFails(t)
BY DEF In, Reading, SpCall, SpStep, SP_connect, SP_disconnect, SP_multicast, SP_receive,
   ConnectFails, ConnectAccepted, SP_kill, LookUpToSend, LockToSend, SendHeader, SendData,
   SendFails, LookUpToReceive

\* A receive that has found its session.
Resumes(t) ==
  /\ LookUpToReceive(t) /\ Has(Mb(t)) /\ ResumeOrRead(t, Sessions[SP_get_session(Mb(t))])
  /\ UNCHANGED <<Sessions, descriptor, down>>

LEMMA EntersReading ==
    ASSUME SpTypeOK, NEW t \in SpThread, SpCall(t) \/ SpStep(t),
           doing'[t].at \in {"header", "check", "data"}
    PROVE  Resumes(t) \/ ReadHeader(t) \/ ReadGroups(t)
<1>1. ~SpCall(t)
  <2>1. ASSUME NEW m \in Mbox, SP_connect(t, m) PROVE FALSE
    BY <2>1 DEF SP_connect, Idle_call, SpTypeOK
  <2>2. ASSUME NEW m \in Mbox, NEW room,
               SP_disconnect(t, m) \/ SP_multicast(t, m) \/ SP_receive(t, m, room)
        PROVE  FALSE
    <3>1. doing'[t].at = "look up"
      BY <2>2, LooksUp
    <3> QED  BY <3>1
  <2> QED  BY <2>1, <2>2 DEF SpCall
<1>2. ~MulticastReturns(t) /\ ~Return(t)
  BY ReturnedOrKills
<1>3. ~LockToSend(t) /\ ~SendHeader(t)
  <2>1. LockToSend(t) => doing'[t].at = "send header"
    BY Moved DEF LockToSend
  <2>2. SendHeader(t) => doing'[t].at = "send data"
    BY Moved DEF SendHeader
  <2> QED  BY <2>1, <2>2
<1>4. ~LookUpToSend(t)
  <2>1. ASSUME LookUpToSend(t) PROVE \E g : FindsToSend(t, g)
    BY <1>2, <2>1 DEF LookUpToSend, FindsToSend
  <2> QED  BY <2>1, FoundToSend
<1>5. LookUpToReceive(t) => Resumes(t)
  BY <1>2 DEF LookUpToReceive, Resumes
<1> QED  BY <1>1, <1>2, <1>3, <1>4, <1>5 DEF SpStep, ConnectFails, ConnectAccepted,
         SP_kill, SendData, SendFails, TooShort, ReadData, ReceiveFails, ReturnClosed

\* A connection stays stale.
LEMMA StaleGrows ==
    ASSUME NEW t \in SpThread, SpCall(t) \/ SpStep(t)
    PROVE  stale \subseteq stale'
<1>1. CASE SpCall(t)
  BY <1>1 DEF SpCall, SP_connect, SP_disconnect, SP_multicast, SP_receive, received
<1>2. CASE SpStep(t)
  BY <1>2 DEF SpStep, ConnectFails, ConnectAccepted, SP_kill, LookUpToSend, LockToSend, SendHeader,
     SendData, SendFails, LookUpToReceive, ReadHeader, TooShort, ReadGroups, ReadData, ReceiveFails, received
<1> QED  BY <1>1, <1>2

\* No entry is made, and none is changed, under a reader but by itself.
LEMMA EntryOfReader ==
    ASSUME NumbersInv, NEW t \in SpThread, SpCall(t) \/ SpStep(t), NEW u \in SpThread \ {t},
           Reading(u), NEW j \in DOMAIN Sessions', Sessions'[j].mbox = Mb(u)
    PROVE  \E i \in DOMAIN Sessions : Kept(i, j)
<1>1. ~(Reading(t) /\ Mb(t) = Mb(u))
  BY ReaderHas
<1>2. ~NewEntry(t, j)
  BY ReaderHas, ZenonT(40) DEF NewEntry, ConnectAccepted, NumbersInv, CallsRight
<1>3. \A i : ~HeadKept(t, i, j) /\ ~HeadUsed(t, i, j)
  BY <1>1 DEF HeadKept, HeadUsed, TooShort, ReadData, In, Reading
<1> QED  BY <1>2, <1>3, EntrySteps DEF Entry

LEMMA OthersRead ==
    ASSUME AwaitCalls, ReadInv, NEW t \in SpThread, SpCall(t) \/ SpStep(t), NEW u \in SpThread \ {t}
    PROVE  ReaderRight(u)'
<1>0. NumbersInv /\ SpTypeOK /\ Chains /\ ReaderRight(u)
  BY DEF ReadInv, NumbersInv, ReadersInTurn
<1>1. doing'[u] = doing[u]
  BY <1>0, OthersStay
<1>2. CASE ~Reading(u) \/ doing[u].group \in stale'
  BY <1>1, <1>2 DEF ReaderRight, Reading, In
<1>3. CASE Reading(u) /\ doing[u].group \notin stale'
  <2>s. doing[u].group \notin stale
    BY <1>3, StaleGrows
  <2>1. PICK n \in Mbox : Mb(u) = n /\ ~(Reading(t) /\ Mb(t) = n)
    BY <1>0, <1>3, ReaderHas
  <2>2. Mb(u)' = n
    BY <1>1, <2>1 DEF Mb
  <2>3. descriptor'[n] # 0 => /\ descriptor[n] # 0 /\ descriptor'[n] = descriptor[n]
                              /\ down'[descriptor[n]] = down[descriptor[n]]
    <3>1. descriptor'[n] \in {descriptor[n], 0}
      BY <1>0, <2>1, MailboxSteps
    <3> QED  BY <1>0, <2>1, <3>1, StreamStays
  <2>4. \A j \in DOMAIN Sessions' : Sessions'[j].mbox = n =>
          /\ doing[u].saved = Sessions'[j].recv_message_saved
          /\ doing[u].saved /\ In(u, "check") => Sessions'[j].recv_saved_head = doing[u].head
    <3>1. ASSUME NEW j \in DOMAIN Sessions', Sessions'[j].mbox = n
          PROVE  /\ doing[u].saved = Sessions'[j].recv_message_saved
                 /\ doing[u].saved /\ In(u, "check") => Sessions'[j].recv_saved_head = doing[u].head
      <4>1. PICK i \in DOMAIN Sessions : Kept(i, j)
        BY <1>0, <1>3, <2>1, <3>1, EntryOfReader
      <4>2. Sessions[i].mbox = Mb(u)
        BY <2>1, <3>1, <4>1 DEF Kept
      <4> QED  BY <1>0, <1>3, <2>s, <4>1, <4>2 DEF Kept, ReaderRight
    <3> QED  BY <3>1
  <2>5. descriptor'[n] # 0 => ReadSoFar(u, down[descriptor[n]])
    BY <1>0, <1>3, <2>s, <2>1, <2>3 DEF ReaderRight, Open
  <2>6. descriptor'[n] # 0 => /\ doing'[u].at = "header" => AtHeader(down'[descriptor'[n]]) /\ ~doing'[u].saved
                              /\ doing'[u].at = "check" => Begins(down'[descriptor'[n]], "groups", doing'[u].head.id)
                              /\ doing'[u].at = "data" => Begins(down'[descriptor'[n]], "data", doing'[u].head.id)
    BY <1>1, <2>3, <2>5 DEF ReadSoFar, In
  <2>7. descriptor'[n] # 0 => ReadSoFar(u, down[descriptor[n]])'
    BY <2>6 DEF ReadSoFar, In, AtHeader, Begins
  <2>8. Mb(u)' = n => (Open(Mb(u))' => ReadSoFar(u, down[descriptor[Mb(u)]])')
    BY <2>7 DEF Open, ReadSoFar, In, AtHeader, Begins
  <2>9. /\ doing'[u].at \in {"check", "data"} => doing'[u].head.kind = "header"
        /\ doing'[u].at = "data" => doing'[u].groups.kind = "groups" /\ doing'[u].groups.id = doing'[u].head.id
    BY <1>0, <1>1, <1>3, <2>s DEF ReaderRight, In
  <2>10. \A j \in DOMAIN Sessions' : Sessions'[j].mbox = Mb(u)' =>
           /\ doing'[u].saved = Sessions'[j].recv_message_saved
           /\ doing'[u].saved /\ doing'[u].at = "check" => Sessions'[j].recv_saved_head = doing'[u].head
    BY <1>1, <2>2, <2>4 DEF In
  <2>11. Open(Mb(u))' => ReadSoFar(u, down[descriptor[Mb(u)]])'
    BY <2>2, <2>8
  <2> QED  BY <2>9, <2>10, <2>11 DEF ReaderRight, In
<1> QED  BY <1>2, <1>3

\* Where the stream is when nobody reads.
LEMMA Rests ==
    ASSUME ReadInv, NEW i \in DOMAIN Sessions,
           \A u \in SpThread : ~(Reading(u) /\ Mb(u) = Sessions[i].mbox),
           Sessions[i].group \notin stale
    PROVE  Resting(Sessions[i], down[Sessions[i].group])
BY DEF ReadInv, SavedRight

LEMMA ResumesRight ==
    ASSUME ReadInv, NEW t \in SpThread, Resumes(t), doing'[t].group \notin stale
    PROVE  ReaderRight(t)'
<1>0. NumbersInv /\ SpTypeOK /\ TableRight
  BY DEF ReadInv, NumbersInv
<1>1. PICK m \in Mbox : m = Mb(t)
  BY <1>0 DEF Resumes, LookUpToReceive, In, NumbersInv, CallsRight
<1>2. PICK i \in DOMAIN Sessions : i = SP_get_session(m) /\ Sessions[i].mbox = m
  BY <1>0, <1>1, Found DEF Resumes
<1>3. PICK s : s = Sessions[i]
  OBVIOUS
<1>4. \A u \in SpThread : ~(Reading(u) /\ Mb(u) = m)
  BY <1>0, <1>1, ReaderHas, SpAssumption, ZenonT(40) DEF Resumes, LookUpToReceive
<1>g. s.group \notin stale
  BY <1>0, <1>1, <1>2, <1>3, FoundToReceive DEF Resumes
<1>5. Resting(s, down[s.group]) /\ descriptor[m] = s.group
  BY <1>0, <1>2, <1>3, <1>4, <1>g, Rests DEF TableRight
<1>6. \A j \in DOMAIN Sessions : Sessions[j].mbox = m => Sessions[j] = s
  BY <1>0, <1>2, <1>3 DEF TableRight
<1>7. /\ doing'[t].saved = s.recv_message_saved
      /\ doing'[t].head = IF s.recv_message_saved THEN s.recv_saved_head ELSE NoPart
      /\ doing'[t].at = IF s.recv_message_saved THEN "check" ELSE "header"
      /\ doing'[t].mbox = m
  BY <1>0, <1>1, <1>2, <1>3, FoundToReceive DEF Resumes, Mb
<1>8. UNCHANGED <<Sessions, descriptor, down>>
  BY DEF Resumes
<1>9. PICK d : d = down[s.group] /\ d = down'[descriptor'[m]]
  BY <1>5, <1>8
<1>10. CASE s.recv_message_saved
  <2>1. /\ doing'[t].saved = s.recv_message_saved /\ doing'[t].head = s.recv_saved_head
        /\ doing'[t].at = "check" /\ doing'[t].head.kind = "header"
        /\ Begins(d, "groups", doing'[t].head.id)
    BY <1>5, <1>7, <1>9, <1>10 DEF Resting
  <2>2. Begins(down'[descriptor'[m]], "groups", doing'[t].head.id)
    BY <1>9, <2>1
  <2>3. \A j \in DOMAIN Sessions' : Sessions'[j].mbox = m =>
          /\ doing'[t].saved = Sessions'[j].recv_message_saved
          /\ Sessions'[j].recv_saved_head = doing'[t].head
    BY <1>6, <1>8, <2>1
  <2> QED  BY <1>7, <2>1, <2>2, <2>3 DEF ReaderRight, ReadSoFar, Reading, In, Mb, Begins
<1>11. CASE ~s.recv_message_saved
  <2>1. /\ doing'[t].saved = s.recv_message_saved /\ ~doing'[t].saved
        /\ doing'[t].at = "header" /\ AtHeader(d)
    BY <1>5, <1>7, <1>9, <1>11 DEF Resting
  <2>2. AtHeader(down'[descriptor'[m]])
    BY <1>9, <2>1
  <2>3. \A j \in DOMAIN Sessions' : Sessions'[j].mbox = m =>
          doing'[t].saved = Sessions'[j].recv_message_saved
    BY <1>6, <1>8, <2>1
  <2> QED  BY <1>7, <2>1, <2>2, <2>3 DEF ReaderRight, ReadSoFar, Reading, In, Mb, AtHeader
<1> QED  BY <1>10, <1>11

LEMMA HeaderRight ==
    ASSUME ReadInv, NEW t \in SpThread, ReadHeader(t), doing[t].group \notin stale
    PROVE  ReaderRight(t)'
<1>0. NumbersInv /\ SpTypeOK /\ Chains /\ ReaderRight(t)
  BY DEF ReadInv, NumbersInv, ReadersInTurn
<1>1. PICK k, s : Took(t, k, s)
  BY <1>0, Reads
<1>2. doing[t].at = "header" /\ Open(Mb(t))
  BY DEF ReadHeader, In, Readable
<1>3. AtHeader(s) /\ ~doing[t].saved
  BY <1>0, <1>1, <1>2 DEF ReaderRight, ReadSoFar, Reading, In, Took
<1>4. s[1].kind = "header" /\ Begins(Tail(s), "groups", s[1].id) /\ Head(s) = s[1]
  BY <1>1, <1>3, ChainTail DEF Took, AtHeader
<1>5. /\ doing'[t].at = "check" /\ doing'[t].head = s[1]
      /\ doing'[t].mbox = Mb(t) /\ ~doing'[t].saved /\ doing'[t].saved = doing[t].saved
  BY <1>0, <1>1, <1>3, <1>4, HeaderRead DEF Took, Mb
<1>6. PICK m \in Mbox : m = Mb(t) /\ descriptor'[m] = k /\ down'[k] = Tail(s)
  BY <1>0, <1>1 DEF Took, SpTypeOK
<1>7. Begins(down'[descriptor'[m]], "groups", doing'[t].head.id)
  BY <1>4, <1>5, <1>6
<1>8. \A j \in DOMAIN Sessions' : Sessions'[j].mbox = m =>
        doing'[t].saved = Sessions'[j].recv_message_saved
  BY <1>0, <1>2, <1>5, <1>6 DEF ReadHeader, ReaderRight, Reading
<1> QED  BY <1>4, <1>5, <1>6, <1>7, <1>8 DEF ReaderRight, ReadSoFar, Reading, In, Mb, Begins

LEMMA GroupsRight ==
    ASSUME ReadInv, NEW t \in SpThread, ReadGroups(t), doing[t].group \notin stale
    PROVE  ReaderRight(t)'
<1>0. NumbersInv /\ SpTypeOK /\ Chains /\ ReaderRight(t)
  BY DEF ReadInv, NumbersInv, ReadersInTurn
<1>1. PICK k, s : Took(t, k, s)
  BY <1>0, Reads
<1>2. doing[t].at = "check" /\ Open(Mb(t))
  BY DEF ReadGroups, In, Readable
<1>3. Begins(s, "groups", doing[t].head.id) /\ doing[t].head.kind = "header"
  BY <1>0, <1>1, <1>2 DEF ReaderRight, ReadSoFar, Reading, In, Took
<1>4. /\ s[1].kind = "groups" /\ s[1].id = doing[t].head.id
      /\ Begins(Tail(s), "data", s[1].id) /\ Head(s) = s[1]
  BY <1>1, <1>3, ChainTail DEF Took, Begins
<1>5. /\ doing'[t].at = "data" /\ doing'[t].groups = s[1] /\ doing'[t].head = doing[t].head
      /\ doing'[t].mbox = Mb(t) /\ doing'[t].saved = doing[t].saved
  BY <1>0, <1>1, <1>4, GroupsRead DEF Took, Mb
<1>6. PICK m \in Mbox : m = Mb(t) /\ descriptor'[m] = k /\ down'[k] = Tail(s)
  BY <1>0, <1>1 DEF Took, SpTypeOK
<1>7. Begins(down'[descriptor'[m]], "data", doing'[t].head.id)
  BY <1>4, <1>5, <1>6
<1>8. \A j \in DOMAIN Sessions' : Sessions'[j].mbox = m =>
        doing'[t].saved = Sessions'[j].recv_message_saved
  BY <1>0, <1>2, <1>5, <1>6 DEF ReadGroups, ReaderRight, Reading
<1> QED  BY <1>3, <1>4, <1>5, <1>6, <1>7, <1>8 DEF ReaderRight, ReadSoFar, Reading, In, Mb, Begins

LEMMA ReadersStep ==
    ASSUME AwaitCalls, ReadInv, NEW t \in SpThread, SpCall(t) \/ SpStep(t)
    PROVE  ReadersInTurn'
<1>0. SpTypeOK /\ stale \subseteq stale'
  BY StaleGrows DEF ReadInv, NumbersInv
<1>1. ReaderRight(t)'
  <2>1. CASE doing'[t].at \in {"header", "check", "data"} /\ doing'[t].group \notin stale'
    <3>1. doing'[t].group \notin stale
      BY <1>0, <2>1
    <3>2. ReadHeader(t) \/ ReadGroups(t) => doing'[t].group = doing[t].group
      BY <1>0, HeaderRead, GroupsRead
    <3> QED  BY <1>0, <2>1, <3>1, <3>2, EntersReading, ResumesRight, HeaderRight, GroupsRight
  <2>2. CASE ~(doing'[t].at \in {"header", "check", "data"} /\ doing'[t].group \notin stale')
    BY <2>2 DEF ReaderRight, Reading, In
  <2> QED  BY <2>1, <2>2
<1> QED  BY <1>1, OthersRead DEF ReadersInTurn

LEMMA ReaderEnds ==
    ASSUME AwaitCalls, ReadInv, NEW t \in SpThread, SpCall(t) \/ SpStep(t), Reading(t),
           NEW i \in DOMAIN Sessions, NEW j, Entry(t, i, j), Sessions[i].mbox = Mb(t),
           Sessions[i].group \notin stale'
    PROVE  \/ doing'[t].at \in {"header", "check", "data"} /\ doing'[t].mbox = Mb(t)
           \/ Resting(Sessions'[j], down'[Sessions[i].group])
<1>0. NumbersInv /\ SpTypeOK /\ Chains /\ ReaderRight(t) /\ TableRight
  BY DEF ReadInv, NumbersInv, ReadersInTurn
<1>1. PICK g : g = Sessions[i].group /\ g = descriptor[Mb(t)]
  BY <1>0 DEF TableRight
<1>2. Open(Mb(t)) /\ Stream(t) = down[g]
  <2>1. Sessions[i] \in ASession
    BY <1>0 DEF SpTypeOK
  <2>2. g # 0
    <3>1. MaxSessions \in Nat /\ Sessions[i].group \in 1 .. MaxSessions
      BY <2>1, SpAssumption DEF ASession
    <3> QED  BY <1>1, <3>1
  <2> QED  BY <1>1, <2>2 DEF Open, Stream
<1>s. g \notin stale' /\ g \notin stale /\ g = doing[t].group
  BY <1>0, <1>1, <1>2, StaleGrows, ReaderHas
<1>3. ReadSoFar(t, down[g])
  BY <1>0, <1>1, <1>2, <1>s DEF ReaderRight
<1>4. /\ doing[t].saved = Sessions[i].recv_message_saved
      /\ doing[t].saved /\ In(t, "check") => Sessions[i].recv_saved_head = doing[t].head
      /\ doing[t].at \in {"check", "data"} => doing[t].head.kind = "header"
  BY <1>0, <1>s DEF ReaderRight
<1>5. CASE ReadHeader(t) \/ ReadGroups(t)
  BY <1>0, <1>5, HeaderRead, GroupsRead DEF Mb
<1>6. CASE ReadData(t)
  <2>1. PICK k, s : Took(t, k, s)
    BY <1>0, <1>6, Reads
  <2>2. doing[t].at = "data" /\ Begins(s, "data", doing[t].head.id)
    BY <1>1, <1>3, <1>6, <2>1 DEF ReadData, In, ReadSoFar, Took
  <2>3. AtHeader(Tail(s))
    BY <2>1, <2>2, ChainTail DEF Took, Begins
  <2>4. down'[g] = Tail(s)
    BY <1>0, <1>1, <2>1 DEF Took, SpTypeOK
  <2>d. ~LeavesHeader(t)
    BY <1>1, <1>6, <1>s DEF ReadData
  <2>h. ~(doing[t].saved /\ doing[t].room = "drop data")
    BY <2>d DEF LeavesHeader, Has
  <2>5. ~Sessions'[j].recv_message_saved
    BY <1>4, <1>6, <2>2, <2>h DEF Entry, Kept, NotDone, HeadKept, HeadUsed, TooShort, In
  <2> QED  BY <1>1, <2>3, <2>4, <2>5 DEF Resting
<1>7. CASE TooShort(t)
  <2>1. /\ doing[t].at = "check" /\ Begins(down[g], "groups", doing[t].head.id) /\ UNCHANGED down
        /\ doing[t].head.kind = "header"
    BY <1>3, <1>4, <1>7 DEF TooShort, In, ReadSoFar
  <2>2. Sessions'[j].recv_message_saved /\ Sessions'[j].recv_saved_head = doing[t].head
    BY <1>4, <1>7, <2>1 DEF Entry, Kept, NotDone, HeadKept, HeadUsed, ReadData, In
  <2> QED  BY <1>1, <2>1, <2>2 DEF Resting
<1>8. CASE ReceiveFails(t)
  <2>1. down[g] = <<>> /\ UNCHANGED down
    BY <1>2, <1>8 DEF ReceiveFails
  <2>2. doing[t].at = "header" /\ ~doing[t].saved
    BY <1>3, <1>8, <2>1 DEF ReceiveFails, ReadSoFar, Begins, In
  <2>3. ~Sessions'[j].recv_message_saved
    BY <1>4, <2>2 DEF Entry, Kept, HeadKept, HeadUsed, TooShort, ReadData, In
  <2> QED  BY <1>1, <2>1, <2>3 DEF Resting, AtHeader
<1> QED  BY <1>5, <1>6, <1>7, <1>8, LeavesReading

LEMMA EntriesRest ==
    ASSUME AwaitCalls, ReadInv, NEW t \in SpThread, SpCall(t) \/ SpStep(t),
           TableRight', SpTypeOK', NEW j \in DOMAIN Sessions'
    PROVE  \/ Sessions'[j].group \in stale'
           \/ \E u \in SpThread : /\ doing'[u].at \in {"header", "check", "data"}
                                  /\ doing'[u].mbox = Sessions'[j].mbox
           \/ Resting(Sessions'[j], down'[Sessions'[j].group])
<1>0. NumbersInv /\ SpTypeOK /\ TableRight /\ Chains
  BY DEF ReadInv, NumbersInv
<1>1. CASE NewEntry(t, j)
  <2>1. PICK m \in Mbox : m = Mb(t) /\ Open(m) /\ ~Has(m)
    BY <1>0, <1>1 DEF NewEntry, ConnectAccepted, NumbersInv, CallsRight, In
  <2>2. AtHeader(down[descriptor[m]]) /\ UNCHANGED down
    BY <1>1, <2>1 DEF ReadInv, SavedRight, NewEntry, ConnectAccepted
  <2> QED  BY <1>1, <2>1, <2>2 DEF NewEntry, Resting
<1>2. ASSUME NEW i \in DOMAIN Sessions, Entry(t, i, j), Sessions'[j].group \notin stale'
      PROVE  \/ \E u \in SpThread : /\ doing'[u].at \in {"header", "check", "data"}
                                    /\ doing'[u].mbox = Sessions'[j].mbox
             \/ Resting(Sessions'[j], down'[Sessions'[j].group])
  <2>1. Sessions'[j].group = Sessions[i].group /\ Sessions'[j].mbox = Sessions[i].mbox
    BY <1>2 DEF Entry, Kept, HeadKept, HeadUsed
  <2>g. PICK g : g = Sessions[i].group /\ g \notin stale' /\ g \notin stale
    BY <1>2, <2>1, StaleGrows
  <2>2. PICK n \in Mbox : g = Sessions[i].group /\ n = Sessions[i].mbox /\ g # 0 /\ descriptor[n] = g
    <3>1. Sessions[i] \in ASession
      BY <1>0 DEF SpTypeOK
    <3>2. Sessions[i].mbox \in Mbox /\ g # 0
      BY <2>g, <3>1, SpAssumption DEF ASession
    <3> QED  BY <1>0, <2>g, <3>2 DEF TableRight
  <2>3. descriptor'[n] = g
    BY <2>1, <2>2 DEF TableRight
  <2>4. ASSUME NEW u \in SpThread \ {t}, Reading(u), Mb(u) = n
        PROVE  doing'[u].at \in {"header", "check", "data"} /\ doing'[u].mbox = n
    BY <1>0, <2>4, OthersStay DEF Reading, Mb
  <2>5. CASE Reading(t) /\ Mb(t) = n
    BY <1>2, <2>1, <2>2, <2>g, <2>5, ReaderEnds
  <2>6. CASE \A u \in SpThread : ~(Reading(u) /\ Mb(u) = n)
    <3>1. Resting(Sessions[i], down[g])
      BY <2>2, <2>g, <2>6, Rests
    <3>2. down'[g] = down[g]
      BY <1>0, <2>2, <2>3, <2>6, StreamStays
    <3>3. Kept(i, j)
      BY <1>2, <2>2, <2>6 DEF Entry, HeadKept, HeadUsed, TooShort, ReadData, Reading, In
    <3> QED  BY <2>1, <2>2, <3>1, <3>2, <3>3 DEF Kept, Resting
  <2> QED  BY <2>1, <2>2, <2>4, <2>5, <2>6
<1> QED  BY <1>0, <1>1, <1>2, EntrySteps

LEMMA FreshRest ==
    ASSUME ReadInv, NEW t \in SpThread, SpCall(t) \/ SpStep(t),
           NEW m \in Mbox, descriptor'[m] # 0, ~Has(m)'
    PROVE  AtHeader(down'[descriptor'[m]])
<1>0. NumbersInv /\ SpTypeOK /\ Chains
  BY DEF ReadInv, NumbersInv
<1>1. CASE descriptor'[m] = descriptor[m]
  <2>1. ~Has(m)
    <3>1. SameTable => ~Has(m)
      BY SameTableHas
    <3>2. ConnectAccepted(t) => ~Has(m)
      BY <1>0, AcceptedHas
    <3>3. SP_kill(t) /\ Has(Mb(t)) => ~Has(m)
      <4>1. SP_kill(t) /\ Has(Mb(t)) => descriptor'[Mb(t)] = 0 \/ Mb(t) # m
        BY <1>0 DEF SP_kill, SpTypeOK
      <4> QED  BY <1>0, <4>1, KilledHas
    <3> QED  BY <1>0, <3>1, <3>2, <3>3, TableSteps
  <2>2. AtHeader(down[descriptor[m]])
    BY <1>1, <2>1 DEF ReadInv, SavedRight, Open
  <2>3. ~(Reading(t) /\ Mb(t) = m)
    BY <1>0, <1>1, <2>1, ReaderHas DEF Open
  <2> QED  BY <1>0, <1>1, <2>2, <2>3, StreamStays
<1>2. CASE descriptor'[m] # descriptor[m]
  <2>1. SP_connect(t, m)
    BY <1>0, <1>2, DescriptorSteps DEF SP_connect, ConnectFails, SP_kill, SpTypeOK
  <2>2. descriptor'[m] = counts.conns + 1 /\ UNCHANGED down /\ counts.conns \in Nat
        /\ counts.conns < MaxSessions
    BY <1>0, <2>1, SpAssumption DEF SP_connect, SpTypeOK
  <2>3. descriptor'[m] \in 1 .. MaxSessions /\ descriptor'[m] > counts.conns
    BY <2>2, SpAssumption
  <2>4. down'[descriptor'[m]] = <<>>
    BY <1>0, <2>2, <2>3 DEF NumbersInv, OneNumber
  <2> QED  BY <2>4 DEF AtHeader
<1> QED  BY <1>1, <1>2

LEMMA SavedStep ==
    ASSUME AwaitCalls, ReadInv, NEW t \in SpThread, SpCall(t) \/ SpStep(t),
           TableRight', SpTypeOK'
    PROVE  SavedRight'
<1>1. \A j \in DOMAIN Sessions' :
        \/ Sessions'[j].group \in stale'
        \/ \E u \in SpThread : /\ doing'[u].at \in {"header", "check", "data"}
                               /\ doing'[u].mbox = Sessions'[j].mbox
        \/ Resting(Sessions'[j], down'[Sessions'[j].group])
  BY EntriesRest
<1>2. \A m \in Mbox : descriptor'[m] # 0 /\ ~Has(m)' => AtHeader(down'[descriptor'[m]])
  BY FreshRest
<1> QED  BY <1>1, <1>2 DEF SavedRight, Reading, Mb, Open, Resting, AtHeader, Begins

LEMMA ResultStep ==
    ASSUME ReadInv, NEW t \in SpThread, SpCall(t) \/ SpStep(t)
    PROVE  OneMessage'
<1>0. NumbersInv /\ SpTypeOK /\ Chains /\ ReaderRight(t)
  BY DEF ReadInv, NumbersInv, ReadersInTurn
<1>1. CASE UNCHANGED result
  BY <1>1 DEF ReadInv, OneMessage
<1>2. CASE result' = Nothing
  BY <1>2 DEF OneMessage
<1>3. CASE ReadData(t)
  <2>0. SUFFICES ASSUME ~result'.mixed PROVE OneMessage'
    BY DEF OneMessage
  <2>1. PICK k, s : Took(t, k, s)
    BY <1>0, <1>3, Reads
  <2>2. doing[t].at = "data" /\ Open(Mb(t)) /\ Reading(t)
    BY <1>3 DEF ReadData, In, Readable, Reading
  <2>m. result' = [group |-> doing[t].group, mixed |-> descriptor[Mb(t)] \in stale,
                   head |-> doing[t].head, groups |-> doing[t].groups, data |-> Head(Stream(t))]
    BY <1>3 DEF ReadData
  <2>r. k = doing[t].group /\ k \notin stale
    <3>1. result'.mixed = (descriptor[Mb(t)] \in stale)
      BY <2>m, ZenonT(30)
    <3> QED  BY <1>0, <2>0, <2>1, <2>2, <3>1, ReaderHas DEF Took
  <2>3. Begins(s, "data", doing[t].head.id) /\ k = doing[t].group
    BY <1>0, <2>1, <2>2, <2>r DEF ReaderRight, ReadSoFar, In, Took
  <2>4. Head(s) = s[1] /\ s[1].of = k /\ s[1].kind = "data" /\ s[1].id = doing[t].head.id
    BY <2>1, <2>3, ChainTail DEF Took, Begins
  <2>5. /\ doing[t].head.kind = "header" /\ doing[t].groups.kind = "groups"
        /\ doing[t].groups.id = doing[t].head.id
    BY <1>0, <2>2, <2>r DEF ReaderRight, In
  <2>7. /\ result'.group = doing[t].group /\ result'.head = doing[t].head
        /\ result'.groups = doing[t].groups /\ result'.data = s[1]
    BY <2>1, <2>4, <2>m, SMTT(30) DEF Took
  <2> QED  BY <2>3, <2>4, <2>5, <2>7 DEF OneMessage
<1>4. UNCHANGED result \/ result' = Nothing \/ ReadData(t)
  BY DEF SpCall, SP_connect, SP_disconnect, SP_multicast, SP_receive, SpStep, ConnectFails,
     ConnectAccepted, SP_kill, LookUpToSend, LockToSend, SendHeader, SendData, SendFails,
     LookUpToReceive, ReadHeader, TooShort, ReadGroups, ReceiveFails, received
<1> QED  BY <1>1, <1>2, <1>3, <1>4

LEMMA MessageRight ==
    ASSUME ReadInv, NEW k \in 1 .. MaxSessions, Incoming(k)
    PROVE  ReadersInTurn' /\ SavedRight'
<1>0. /\ NumbersInv /\ SpTypeOK /\ Chains /\ ReadersInTurn /\ SavedRight /\ TableRight
      /\ UNCHANGED <<Sessions, descriptor, doing, stale>>
  BY DEF ReadInv, NumbersInv, Incoming, received
<1>1. PICK r \in Seq(APart) : Chain(r, k) /\ AtHeader(r) /\ down' = [down EXCEPT ![k] = @ \o r]
  BY <1>0, MessageArrives
<1>2. PICK s \in Seq(APart) : s = down[k] /\ Chain(s, k)
  BY <1>0 DEF Chains, SpTypeOK
<1>3. /\ AtHeader(s) => AtHeader(s \o r)
      /\ \A kind, id : Begins(s, kind, id) => Begins(s \o r, kind, id)
  BY <1>1, <1>2, ChainMore
<1>4. \A l \in 1 .. MaxSessions : down'[l] = IF l = k THEN s \o r ELSE down[l]
  BY <1>0, <1>1, <1>2 DEF SpTypeOK
<1>5. \A l \in 1 .. MaxSessions :
        /\ AtHeader(down[l]) => AtHeader(down'[l])
        /\ \A kind, id : Begins(down[l], kind, id) => Begins(down'[l], kind, id)
  BY <1>2, <1>3, <1>4
<1>6. ASSUME NEW u \in SpThread PROVE ReaderRight(u)'
  <2>1. ReaderRight(u)
    BY <1>0 DEF ReadersInTurn
  <2>2. ASSUME Reading(u), Open(Mb(u)), doing[u].group \notin stale
        PROVE  /\ In(u, "header") => AtHeader(down'[descriptor[Mb(u)]]) /\ ~doing[u].saved
               /\ In(u, "check") => Begins(down'[descriptor[Mb(u)]], "groups", doing[u].head.id)
               /\ In(u, "data") => Begins(down'[descriptor[Mb(u)]], "data", doing[u].head.id)
    <3>1. descriptor[Mb(u)] \in 1 .. MaxSessions
      BY <1>0, <2>2, ReaderHas, OpenNumber
    <3>2. ReadSoFar(u, down[descriptor[Mb(u)]])
      BY <2>1, <2>2 DEF ReaderRight
    <3> QED  BY <1>5, <3>1, <3>2 DEF ReadSoFar
  <2> QED  BY <1>0, <2>1, <2>2 DEF ReaderRight, Reading, In, Mb, Open, ReadSoFar, AtHeader, Begins
<1>7. \A i \in DOMAIN Sessions :
        \/ Sessions[i].group \in stale
        \/ \E t \in SpThread : Reading(t) /\ Mb(t) = Sessions[i].mbox
        \/ Resting(Sessions[i], down'[Sessions[i].group])
  <2>1. \A i \in DOMAIN Sessions : Sessions[i].group \in 1 .. MaxSessions
    <3>1. \A i \in DOMAIN Sessions : Sessions[i] \in ASession
      BY <1>0 DEF SpTypeOK
    <3> QED  BY <3>1 DEF ASession
  <2> QED  BY <1>0, <1>5, <2>1 DEF SavedRight, Resting
<1>8. \A m \in Mbox : Open(m) /\ ~Has(m) => AtHeader(down'[descriptor[m]])
  BY <1>0, <1>5, OpenNumber DEF SavedRight
<1>9. SavedRight'
  BY <1>0, <1>7, <1>8 DEF SavedRight, Reading, Mb, Open, Has, Resting, AtHeader, Begins
<1> QED  BY <1>6, <1>9 DEF ReadersInTurn

LEMMA ReadStep ==
    ASSUME AwaitCalls, ReadInv, [SpNext]_spVars
    PROVE  ReadInv'
<1>0. NumbersInv' /\ Chains' /\ TableRight' /\ SpTypeOK'
  BY NumbersStep, ChainStep DEF ReadInv, NumbersInv
<1>1. ASSUME UNCHANGED <<Sessions, descriptor, down, doing, result, stale>> PROVE ReadInv'
  <2>1. ReadersInTurn'
    BY <1>1, ZenonT(40) DEF ReadInv, ReadersInTurn, ReaderRight, ReadSoFar, Reading, In, Mb, Open, AtHeader, Begins
  <2>2. SavedRight'
    BY <1>1 DEF ReadInv, SavedRight, Reading, Mb, Open, Has, Resting, AtHeader, Begins
  <2>3. OneMessage'
    BY <1>1 DEF ReadInv, OneMessage
  <2> QED  BY <1>0, <2>1, <2>2, <2>3 DEF ReadInv
<1>2. ASSUME NEW t \in SpThread, SpCall(t) \/ SpStep(t) PROVE ReadInv'
  BY <1>0, <1>2, ReadersStep, SavedStep, ResultStep DEF ReadInv
<1>3. ASSUME NEW k \in 1 .. MaxSessions, Incoming(k) PROVE ReadInv'
  <2>1. OneMessage'
    BY <1>3 DEF ReadInv, OneMessage, Incoming, received
  <2> QED  BY <1>0, <1>3, <2>1, MessageRight DEF ReadInv
<1>4. ASSUME NEW k \in 1 .. MaxSessions, EndConnection(k) PROVE ReadInv'
  BY <1>1, <1>4 DEF EndConnection, received
<1> QED  BY <1>1, <1>2, <1>3, <1>4 DEF SpNext, spVars

LEMMA ReadInitially == SpInit => ReadInv
<1> SUFFICES ASSUME SpInit PROVE ReadInv
  OBVIOUS
<1>1. \A t \in SpThread : doing[t].at = "none"
  BY DEF SpInit, Idle_call
<1>2. ReadersInTurn
  BY <1>1 DEF ReadersInTurn, ReaderRight, Reading, In
<1>3. SavedRight
  BY SpAssumption DEF SpInit, SavedRight, Open
<1>4. Chains
  BY EmptyChain DEF SpInit, Chains
<1>5. OneMessage
  BY DEF SpInit, OneMessage
<1> QED  BY <1>2, <1>3, <1>4, <1>5, NumbersInitially DEF ReadInv

\* What a thread receives is the header, the groups and the data of one message of
\* its session, however often it had no room before, with and without DROP_RECV, and
\* whoever else receives (recv_saved_head, Mbox_mutex), when a descriptor number is
\* not used again under a call and until the data of a message whose header had been
\* kept is dropped on that connection: from then on the header is stale.
THEOREM ReceivedWhole ==
    ASSUME AwaitCalls
    PROVE  SpSpec => []OneMessage
<1>1. SpInit => ReadInv
  BY ReadInitially
<1>2. ReadInv /\ [SpNext]_spVars => ReadInv'
  BY ReadStep
<1>3. ReadInv => OneMessage
  BY DEF ReadInv
<1> QED  BY <1>1, <1>2, <1>3, PTL DEF SpSpec
=============================================================================
