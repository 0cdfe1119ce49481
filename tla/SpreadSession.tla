--------------------------- MODULE SpreadSession ---------------------------
(***************************************************************************)
(* The session layer of one Spread daemon (daemon/session.c): accepting    *)
(* and authorizing connections, reading requests, writing to clients that  *)
(* may not keep up, and ending sessions. A session is closed at once and   *)
(* removed only when its KILL message has come back from the ring; in      *)
(* between, the operating system may give its descriptor to somebody else. *)
(*                                                                         *)
(* Each client connects once, so it stands for its session. One group is   *)
(* kept, as groups.c keeps it for its local members.                       *)
(***************************************************************************)
EXTENDS Integers, FiniteSets, Sequences, SequencesExt, FiniteSetsExt, Functions, TLC

CONSTANTS Client,           \* connections
          NameOf,           \* the private name each one asks for
          MAX_SESSIONS, MAX_SESSION_MESSAGES, MAX_LOCAL_GROUP_MEMBERS, WATER_MARK,
          Required,         \* authentication methods the daemon requires
          MaxRequests,      \* bound: messages read from clients
          None

ASSUME SessionAssumption ==
  /\ IsFiniteSet(Client) /\ None \notin Client /\ Required \subseteq {"NULL", "PWORD"}
  /\ MAX_SESSIONS \in Nat \ {0} /\ MAX_SESSION_MESSAGES \in Nat \ {0}
  /\ MAX_LOCAL_GROUP_MEMBERS \in Nat \ {0} /\ WATER_MARK \in Nat \ {0} /\ MaxRequests \in Nat

VARIABLES ses,       \* ses[c]: the session: status, mbox, queue, sent, in_head
          hash,      \* the sessions by mailbox, latest first (Sessions_hash_head)
          slot,      \* the connection in Sessions[MAX_SESSIONS], or None
          sock,      \* sock[c]: the daemon's end of the connection
          attached,  \* attached[fd]: the handler of the descriptor, "none" if detached
          badger,    \* mailboxes with a Sess_badger timer
          down,      \* messages given to the ring and not yet delivered
          unsent,    \* how many of them are still in the down queue
          blocked,   \* Protocol_threshold is above LOW_PRIORITY
          grp,       \* the group: its members and its mailboxes
          stream,    \* stream[c]: what was written to the socket of a working session
          written,   \* written[c]: what that session was to be given
          fatal,     \* an Alarm(EXIT) was met
          requests   \* number of messages read

sessvars == <<ses, hash, slot, sock, attached, badger, down, unsent, blocked,
              grp, stream, written, fatal, requests>>

Fd == 1..Cardinality(Client)

-----------------------------------------------------------------------------
(* The session table.                                                      *)

ListedWhileOpen(c) == ses[c].status \in {"preauth", "op"}
Listed(c) == ses[c].status # "none"
Num_sessions == Cardinality({c \in Client : Listed(c)})

Is_op_session(c) == ses[c].status = "op"

\* The session that was hashed last of those with this mailbox.
Positions(h, s, mbox) == {i \in DOMAIN h : s[h[i]].mbox = mbox}
OldestWithMailbox(h, s, mbox) ==
  IF Positions(h, s, mbox) = {} THEN None ELSE h[Max(Positions(h, s, mbox))]
Sess_get_session_index(h, s, mbox) ==
  IF Positions(h, s, mbox) = {} THEN None ELSE h[Min(Positions(h, s, mbox))]

Sess_hash_session(c) == <<c>> \o hash
Sess_unhash_session(c) ==
  IF c \in Range(hash) THEN RemoveAt(hash, CHOOSE i \in DOMAIN hash : hash[i] = c) ELSE hash

Sess_get_session(name) ==
  LET with == {c \in Client : Listed(c) /\ NameOf[c] = name}
  IN  IF with = {} THEN None ELSE CHOOSE c \in with : TRUE

-----------------------------------------------------------------------------
(* Messages to the ring.                                                   *)

\* Prot_new_message for each of ms, after the first of the delivered messages is
\* taken off (if pop): at WATER_MARK the users are blocked.
Prot_new_message(ms, pop) ==
  /\ down' = (IF pop THEN Tail(down) ELSE down) \o ms
  /\ unsent' = unsent + Len(ms)
  /\ blocked' = (blocked \/ (ms # <<>> /\ unsent + Len(ms) >= WATER_MARK))

\* Send_new_packets, one message of the down queue.
RingSend ==
  /\ ~fatal /\ unsent > 0
  /\ unsent' = unsent - 1
  /\ blocked' = (blocked /\ unsent - 1 >= WATER_MARK)
  /\ UNCHANGED <<ses, hash, slot, sock, attached, badger, down, grp, stream, written, fatal, requests>>

-----------------------------------------------------------------------------
(* Connections.                                                            *)

FreeFds == Fd \ {ses[c].mbox : c \in {x \in Client : sock[x] = "open"}}

\* Closing: the descriptor is free again, the session's entry still names it.
Close(S) == [c \in Client |-> IF c \in S THEN "closed" ELSE sock[c]]

ClientConnects(c) ==
  /\ ~fatal /\ sock[c] = "none"
  /\ sock' = [sock EXCEPT ![c] = "backlog"]
  /\ UNCHANGED <<ses, hash, slot, attached, badger, down, unsent, blocked, grp, stream, written, fatal, requests>>

Sess_accept(c) ==
  /\ ~fatal /\ ~blocked /\ slot = None /\ sock[c] = "backlog"
  /\ IF Num_sessions = MAX_SESSIONS
     THEN /\ sock' = Close({c})                         \* rejected due to quota
          /\ UNCHANGED <<ses, slot, attached, fatal>>
     ELSE LET fd  == Min(FreeFds)
              old == Sess_get_session_index(hash, ses, fd)
          IN  /\ fatal' = (old # None /\ ses[old].status = "op")
              /\ ses' = [ses EXCEPT ![c].mbox = fd]
              /\ sock' = [sock EXCEPT ![c] = "open"]
              /\ slot' = c
              /\ attached' = [attached EXCEPT ![fd] = "accept"]
  /\ UNCHANGED <<hash, badger, down, unsent, blocked, grp, stream, written, requests>>

Sess_session_denied(c) ==
  /\ sock' = Close({c})
  /\ ses' = [ses EXCEPT ![c].status = "none"]
  /\ hash' = Sess_unhash_session(c)
  /\ attached' = [attached EXCEPT ![ses[c].mbox] = "none"]

\* The session starts with an empty queue, at the head of a message.
Sess_session_authorized(c) ==
  /\ ses' = [ses EXCEPT ![c] = [@ EXCEPT !.status = "op", !.queue = <<>>, !.sent = 0, !.in_head = TRUE]]
  /\ attached' = [attached EXCEPT ![ses[c].mbox] = "read"]

\* A client that has sent nothing, or a bad version or name, is closed.
RejectConnect(c) ==
  /\ sock' = Close({c})
  /\ attached' = [attached EXCEPT ![ses[c].mbox] = "none"]
  /\ UNCHANGED <<ses, hash, fatal>>

\* The session is entered. An old library is authorized without authentication,
\* the others are sent the methods and are waited for.
Admit(c) ==
  /\ fatal' = (Num_sessions = MAX_SESSIONS)             \* no free session
  /\ hash' = Sess_hash_session(c)
  /\ \/ /\ ses' = [ses EXCEPT ![c].status = "preauth"]
        /\ attached' = [attached EXCEPT ![ses[c].mbox] = "auth"]
     \/ Sess_session_authorized(c)
  /\ UNCHANGED sock

\* Called when the connect message can be read, or after a second without one.
Sess_accept_continue ==
  /\ ~fatal /\ slot # None
  /\ slot' = None
  /\ \/ RejectConnect(slot)
     \/ Sess_get_session(NameOf[slot]) # None /\ RejectConnect(slot)   \* not unique
     \/ Sess_get_session(NameOf[slot]) = None /\ Admit(slot)
  /\ UNCHANGED <<badger, down, unsent, blocked, grp, stream, written, requests>>

\* The methods a session must pass: those its client asked for and those the
\* daemon requires; asking for none is an error.
Acm_auth_create_sess_info(asked) == IF asked = {} THEN {} ELSE asked \cup Required

\* The last method has reported: all of them must permit.
Sess_session_report_auth_result(c, permitted) ==
  IF permitted THEN Sess_session_authorized(c) /\ UNCHANGED <<sock, hash>>
  ELSE Sess_session_denied(c)

\* The method NULL permits at once, PWORD waits for the password.
Sess_recv_client_auth(fd) ==
  /\ ~fatal /\ ~blocked /\ attached[fd] = "auth"
  /\ LET c == Sess_get_session_index(hash, ses, fd)
     IN  /\ fatal' = (ses[c].status # "preauth")
         /\ \/ Sess_session_denied(c)                   \* failed, short or unknown method
            \/ \E asked \in SUBSET {"NULL", "PWORD"} :
                 LET methods == Acm_auth_create_sess_info(asked)
                 IN  \/ methods = {} /\ Sess_session_denied(c)
                     \/ methods = {"NULL"} /\ Sess_session_report_auth_result(c, TRUE)
                     \/ /\ "PWORD" \in methods
                        /\ attached' = [attached EXCEPT ![fd] = "pword"]
                        /\ UNCHANGED <<ses, sock, hash>>
  /\ UNCHANGED <<slot, badger, down, unsent, blocked, grp, stream, written, requests>>

\* The password is read and checked.
auth_client_conn_read(fd) ==
  /\ ~fatal /\ ~blocked /\ attached[fd] = "pword"
  /\ LET c == Sess_get_session_index(hash, ses, fd)
     IN  /\ fatal' = (ses[c].status # "preauth")
         /\ \E permitted \in BOOLEAN : Sess_session_report_auth_result(c, permitted)
  /\ UNCHANGED <<slot, badger, down, unsent, blocked, grp, stream, written, requests>>

-----------------------------------------------------------------------------
(* Writing. A message takes two units on the stream, header and body; the  *)
(* kernel takes as many as it has room for.                                *)

Units(ms) == [k \in 1..(2 * Len(ms)) |-> <<ms[(k + 1) \div 2], IF k % 2 = 1 THEN "head" ELSE "body">>]

\* What is left of the session's queue; sent units of the first message are gone.
Rest(s) == SubSeq(Units(s.queue), s.sent + 1, 2 * Len(s.queue))

\* The session after the kernel has taken n units of its backlog.
LoseCursor(s, n) ==
  [s EXCEPT !.queue = SubSeq(@, ((s.sent + n) \div 2) + 1, Len(@)), !.sent = 0]
Taken(s, n) ==
  [s EXCEPT !.queue = SubSeq(@, ((s.sent + n) \div 2) + 1, Len(@)), !.sent = (s.sent + n) % 2]

KilledButOp(s) == [s EXCEPT !.queue = <<>>, !.sent = 0, !.in_head = TRUE]
Killed(s) == [s EXCEPT !.status = "killed", !.queue = <<>>, !.sent = 0, !.in_head = TRUE]

KillMessage(c) == [type |-> "kill", who |-> c]
KillMessages(S) == LET cs == SetToSeq(S) IN [i \in DOMAIN cs |-> KillMessage(cs[i])]

Full(s) == Len(s.queue) >= MAX_SESSION_MESSAGES

\* One message m for each session of T, in the table tab. A session that is not
\* operational gets nothing, one whose queue is full is killed. For the others
\* Sess_badger is called first, then the message is written or queued: the kernel
\* takes some units of the backlog and of the message, in order.
Sess_write(tab, T, m, pop) ==
  LET op   == {c \in T : tab[c].status = "op"}
      kill == {c \in op : Full(tab[c])}
      to   == op \ kill
      new(c) == [tab[c] EXCEPT !.queue = Append(@, m)]
  IN  \E n \in [to -> 0..(2 * MAX_SESSION_MESSAGES)] :
        /\ \A c \in to : n[c] <= Len(Rest(new(c)))
        /\ ses' = [c \in Client |-> IF c \in kill THEN Killed(tab[c])
                                    ELSE IF c \in to THEN Taken(new(c), n[c]) ELSE tab[c]]
        /\ stream' = [c \in Client |-> IF c \in to
                        THEN stream[c] \o SubSeq(Rest(new(c)), 1, n[c])
                        ELSE IF c \in kill THEN <<>> ELSE stream[c]]
        /\ written' = [c \in Client |-> IF c \in to THEN Append(written[c], m)
                                        ELSE IF c \in kill THEN <<>> ELSE written[c]]
        /\ badger' = (badger \ {ses[c].mbox : c \in kill})
                       \cup {ses[c].mbox : c \in {x \in to : ses'[x].queue # <<>>}}
        /\ attached' = [fd \in Fd |-> IF \E c \in kill : ses[c].mbox = fd THEN "none" ELSE attached[fd]]
        /\ sock' = Close(kill)
        /\ Prot_new_message(KillMessages(kill), pop)

BadgerAgain(fd, queue) == IF queue = <<>> THEN badger \ {fd} ELSE badger

\* The timer: what the kernel takes of the backlog; as long as some is left the
\* timer is set again.
Sess_badger(fd) ==
  /\ ~fatal /\ fd \in badger
  /\ LET c == Sess_get_session_index(hash, ses, fd)
     IN  IF c = None \/ ses[c].status # "op" \/ ses[c].queue = <<>>
         THEN /\ badger' = badger \ {fd} /\ UNCHANGED <<ses, stream>>
         ELSE \E n \in 1..Len(Rest(ses[c])) :
                /\ ses' = [ses EXCEPT ![c] = Taken(@, n)]
                /\ stream' = [stream EXCEPT ![c] = @ \o SubSeq(Rest(ses[c]), 1, n)]
                /\ badger' = BadgerAgain(fd, ses'[c].queue)
  /\ UNCHANGED <<hash, slot, sock, attached, down, unsent, blocked, grp, written, fatal, requests>>

-----------------------------------------------------------------------------
(* Reading.                                                                *)

\* The session is closed and marked, and a KILL message goes to the ring; its
\* entry stays.
Sess_kill(c) ==
  /\ fatal' = (ses[c].status = "preauth")
  /\ ses' = [ses EXCEPT ![c] = Killed(@)]
  /\ badger' = badger \ {ses[c].mbox}
  /\ attached' = [attached EXCEPT ![ses[c].mbox] = "none"]
  /\ sock' = Close({c})
  /\ Prot_new_message(<<KillMessage(c)>>, FALSE)
  /\ stream' = [stream EXCEPT ![c] = <<>>] /\ written' = [written EXCEPT ![c] = <<>>]

\* A header is complete and valid; the rest of the message is yet to come.
ReadHeader(c) ==
  /\ ses[c].in_head
  /\ ses' = [ses EXCEPT ![c].in_head = FALSE]
  /\ UNCHANGED <<sock, attached, badger, down, unsent, blocked, stream, written, fatal, requests>>

G_get_num_local == Cardinality(grp.members)

\* A join above the limit is rejected, a disconnect closes the session, anything
\* else goes to the ring. tab is the table with the session reset for reading.
ActOnMessage(tab, c, msg) ==
  \/ /\ G_get_num_local = MAX_LOCAL_GROUP_MEMBERS
     /\ Sess_write(tab, {c}, msg["reject"], FALSE)
     /\ UNCHANGED fatal
  \/ /\ \E t \in {"leave", "data"} \cup
                 (IF G_get_num_local = MAX_LOCAL_GROUP_MEMBERS THEN {} ELSE {"join"}) :
          Prot_new_message(<<msg[t]>>, FALSE)
     /\ ses' = tab
     /\ UNCHANGED <<sock, attached, badger, stream, written, fatal>>
  \/ Sess_kill(c)                                       \* a disconnect

\* The rest of the message is read.
ReadMessage(c) ==
  /\ ~ses[c].in_head /\ requests < MaxRequests
  /\ requests' = requests + 1
  /\ ActOnMessage([ses EXCEPT ![c].in_head = TRUE], c,
                  [t \in {"join", "leave", "data", "reject"} |->
                     [type |-> t, who |-> c, no |-> requests]])

Sess_read(fd) ==
  /\ ~fatal /\ ~blocked /\ attached[fd] = "read"
  /\ LET c == Sess_get_session_index(hash, ses, fd)
     IN  \/ Sess_kill(c) /\ UNCHANGED requests          \* closed, or an invalid header
         \/ ReadHeader(c)
         \/ ReadMessage(c)
  /\ UNCHANGED <<hash, slot, grp>>

-----------------------------------------------------------------------------
(* Delivery of the messages of the ring.                                   *)

\* The sessions the mailboxes of the group lead to.
G_analize_groups(g) == {Sess_get_session_index(hash, ses, mb) : mb \in g.mboxes} \ {None}

Memb(m) == [type |-> "memb", who |-> m.who]

Sess_handle_join(m) ==
  LET c   == Sess_get_session(NameOf[m.who])
      new == [members |-> grp.members \cup {m.who}, mboxes |-> grp.mboxes \cup {ses[m.who].mbox}]
  IN  IF m.who \in grp.members
      THEN Sess_write(ses, {}, m, TRUE) /\ UNCHANGED <<grp, fatal, hash>>
      ELSE /\ fatal' = (c = None)
           /\ grp' = new
           /\ Sess_write(ses, G_analize_groups(new), Memb(m), TRUE)
           /\ UNCHANGED hash

WithoutKeepsMailbox(c) == [grp EXCEPT !.members = @ \ {c}]
Without(c) == [members |-> grp.members \ {c}, mboxes |-> grp.mboxes \ {ses[c].mbox}]

\* The one who leaves is told, and so are the others.
Sess_handle_leave(m) ==
  /\ IF m.who \notin grp.members
     THEN Sess_write(ses, {}, m, TRUE) /\ UNCHANGED grp
     ELSE /\ grp' = Without(m.who)
          /\ Sess_write(ses, {m.who} \cup G_analize_groups(Without(m.who)), Memb(m), TRUE)
  /\ UNCHANGED <<fatal, hash>>

\* Sess_remove_session: the entry goes back to the free list.
RemoveOnlyMember(c) == IF c \in grp.members THEN [ses EXCEPT ![c].status = "none"] ELSE ses
Sess_remove_session(c) == [ses EXCEPT ![c].status = "none"]

\* The session leaves the group and is removed from the table.
Sess_handle_kill(m) ==
  LET c    == Sess_get_session(NameOf[m.who])
      gone == IF c = None THEN ses ELSE Sess_remove_session(c)
  IN  /\ fatal' = (c # None /\ ses[c].status = "op")
      /\ IF m.who \notin grp.members
         THEN Sess_write(gone, {}, m, TRUE) /\ UNCHANGED grp
         ELSE /\ grp' = Without(m.who)
              /\ Sess_write(gone, G_analize_groups(Without(m.who)), Memb(m), TRUE)
      /\ hash' = Sess_unhash_session(c)

Sess_deliver_message ==
  /\ ~fatal /\ Len(down) > unsent
  /\ LET m == Head(down)
     IN  \/ m.type = "join"  /\ Sess_handle_join(m)
         \/ m.type = "leave" /\ Sess_handle_leave(m)
         \/ m.type = "kill"  /\ Sess_handle_kill(m)
         \/ /\ m.type = "data"
            /\ Sess_write(ses, G_analize_groups(grp), m, TRUE)
            /\ UNCHANGED <<grp, fatal, hash>>
  /\ UNCHANGED <<slot, requests>>

-----------------------------------------------------------------------------
SessInit ==
  /\ ses = [c \in Client |-> [status |-> "none", mbox |-> 0, queue |-> <<>>,
                              sent |-> 0, in_head |-> TRUE]]
  /\ hash = <<>> /\ slot = None
  /\ sock = [c \in Client |-> "none"]
  /\ attached = [fd \in Fd |-> "none"]
  /\ badger = {} /\ down = <<>> /\ unsent = 0 /\ blocked = FALSE
  /\ grp = [members |-> {}, mboxes |-> {}]
  /\ stream = [c \in Client |-> <<>>] /\ written = [c \in Client |-> <<>>]
  /\ fatal = FALSE /\ requests = 0

SessNext ==
  \/ \E c \in Client : ClientConnects(c) \/ Sess_accept(c)
  \/ Sess_accept_continue
  \/ \E fd \in Fd : \/ Sess_recv_client_auth(fd) \/ auth_client_conn_read(fd)
                    \/ Sess_read(fd) \/ Sess_badger(fd)
  \/ RingSend
  \/ Sess_deliver_message

\* The daemon's event loop goes round: the ring makes progress, and the timer
\* that ends the wait for a connect message goes off.
SessSpec == /\ SessInit /\ [][SessNext]_sessvars
            /\ WF_sessvars(RingSend) /\ WF_sessvars(Sess_deliver_message)
            /\ WF_sessvars(Sess_accept_continue)

-----------------------------------------------------------------------------
\* No sequence of connections, requests and failures leads to one of the alarms
\* marked BUG in session.c.
NoBugAlarm == ~fatal

\* A descriptor that is attached, or has a timer, leads to the one session that
\* reads from it or has a backlog, and no two open sessions share one.
HandlerFinds ==
  /\ \A fd \in Fd : attached[fd] \in {"auth", "pword", "read"} =>
       LET c == Sess_get_session_index(hash, ses, fd)
       IN  c # None /\ sock[c] = "open" /\ (attached[fd] = "read") = (ses[c].status = "op")
  /\ \A fd \in badger : \E c \in Client : Is_op_session(c) /\ ses[c].mbox = fd
  /\ \A c, d \in Client : (sock[c] = "open" /\ sock[d] = "open" /\ c # d) => ses[c].mbox # ses[d].mbox

\* A request in the ring, and a member of the group, is of the session that has
\* the name now: no one inherits what a former owner of the name has done.
NameStillOwned ==
  \A c \in {m.who : m \in Range(down)} \cup grp.members : Sess_get_session(NameOf[c]) = c

\* A mailbox of the group leads to a member, or the member's session is closed
\* and its descriptor was given to someone else.
StraysOnlyByReuse ==
  /\ grp.mboxes = {ses[c].mbox : c \in grp.members}
  /\ \A c \in grp.members : Is_op_session(c) => Sess_get_session_index(hash, ses, ses[c].mbox) = c

\* What a client was sent, with what is left in its queue, is what it was to be
\* given, whole and in order, and what is left has a timer that will send it.
StreamIntact == \A c \in Client : Is_op_session(c) =>
  /\ stream[c] \o Rest(ses[c]) = Units(written[c])
  /\ ses[c].queue # <<>> => ses[c].mbox \in badger

\* Sessions that were closed are removed in the end, so that their names and
\* their places in the table are free again.
KilledAreRemoved == (\E c \in Client : ses[c].status = "killed")
                      ~> (\A c \in Client : ses[c].status # "killed")

=============================================================================
