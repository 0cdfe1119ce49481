---------------------------- MODULE SpreadFlush ----------------------------
(***************************************************************************)
(* The Flush layer of the Spread client library (libspread/fl.c): clients  *)
(* of one group turn the memberships and messages that Spread delivers     *)
(* into flush views. A client that is told of a membership asks its user   *)
(* to flush; when every member has flushed, the view is installed, and a   *)
(* message is delivered in the view it was sent in.                        *)
(*                                                                         *)
(* Spread gives every member the same memberships and messages in the same *)
(* order, but a RELIABLE message may come early. A message takes its place *)
(* in the order when it is sent: a client whose message is ordered late is *)
(* one that did not send it before. A membership caused by the network     *)
(* ends the client that receives it (determine_leavers dereferences the    *)
(* bytes of a member's name), so it is one of the ways to end here.        *)
(***************************************************************************)
EXTENDS Naturals, FiniteSets, Sequences, SequencesExt, TLC

CONSTANTS Client,
          Founders,        \* members of the first view
          Leavers,         \* clients that may leave or end
          Senders,         \* clients whose users send messages
          FLOK_AGE_LIMIT,
          MaxChanges,      \* bound: joins, leaves and ends
          MaxMessages,     \* bound: messages of the users
          Services         \* what they are sent as: "reliable", "agreed"

ASSUME FlushAssumption ==
  /\ IsFiniteSet(Client) /\ Founders \subseteq Client /\ Leavers \subseteq Client /\ Senders \subseteq Client
  /\ FLOK_AGE_LIMIT \in Nat /\ MaxChanges \in Nat /\ MaxMessages \in Nat
  /\ Services \subseteq {"reliable", "agreed"}

VARIABLES members,  \* the members of the group, as Spread has ordered it
          last_gid, \* the identifier of that membership
          sent,     \* how many messages the users have sent
          inbox,    \* inbox[c]: what is ordered for c and c has not received
          fl,       \* fl[c]: the fl_group of c
          asked,    \* asked[c]: the user has read a FLUSH_REQ
          alive,    \* clients whose connection is open
          hist,     \* hist[c]: the views its user was given, with their messages
          fatal     \* the library aborted

flushVars == <<members, last_gid, sent, inbox, fl, asked, alive, hist, fatal>>

-----------------------------------------------------------------------------
(* Spread, as this library sees it.                                        *)

Is_membership_mess(e) == e.type \in {"join", "leave", "disconnect"}
FlushOk(c, id) == [type |-> "FLUSH_OK", from |-> c, gid |-> id]
FlushRecv(c, id) == [type |-> "FLUSH_RECV", from |-> c, gid |-> id]
Message(c, service, vulnerable) ==
  [type |-> "DATA", id |-> sent + 1, from |-> c, service |-> service,
   vulnerable |-> vulnerable, gid |-> fl[c].fl_view.gid]

\* What is multicast reaches the members; who leaves is told so as well.
Ordered(boxes, es) == [c \in Client |-> IF c \in members THEN boxes[c] \o es ELSE boxes[c]]
Change(cause, c, membs) ==
  /\ last_gid <= MaxChanges
  /\ last_gid' = last_gid + 1
  /\ members' = membs
  /\ inbox' = [d \in Client |->
       IF d \in membs \/ (d = c /\ cause = "leave")
       THEN Append(inbox[d], [type |-> cause, gid |-> last_gid + 1, who |-> c, membs |-> membs])
       ELSE inbox[d]]

-----------------------------------------------------------------------------
(* One step of a group: g, the group; up, what deliver() gives to the user;*)
(* out, what is multicast.                                                 *)

NoView == [gid |-> 0, orig |-> {}, membs |-> {}, cause |-> "none", delta |-> {}, trans |-> TRUE]
NoGroup == [mstate |-> "none", vstate |-> "none", curr_change |-> 0, fl_view |-> NoView,
            flush_recvs |-> 0, memb_queue |-> <<>>, pmemb |-> <<>>, mess_queue |-> <<>>]
create_fl_group(c) ==
  [NoGroup EXCEPT !.mstate = "JOINING", !.vstate = "AGREE",
                  !.fl_view = [NoView EXCEPT !.orig = {c}, !.membs = {c}]]

deliver(s, notice) == [s EXCEPT !.up = Append(@, notice)]
deliver_trans_sig(s) == [deliver(s, [type |-> "TRANS"]) EXCEPT !.g.fl_view.trans = TRUE]
deliver_flush_req(s) == deliver(s, [type |-> "FLUSH_REQ"])

create_sp_memb_change == [recvd |-> FALSE, age |-> 0, floks |-> {}, view |-> NoView]
sp_memb_change(pmemb, gid) ==
  IF gid \in DOMAIN pmemb THEN pmemb[gid] ELSE create_sp_memb_change
WithoutGids(f, gids) == [x \in DOMAIN f \ gids |-> f[x]]
fill_view(e) == [gid |-> e.gid, orig |-> e.membs, membs |-> e.membs, cause |-> e.type,
                 delta |-> {e.who}, trans |-> FALSE]

\* FL_int_flush: a member that is leaving cannot flush any more.
FL_int_flush(c, s) ==
  IF s.g.mstate = "LEAVING"
  THEN deliver(s, [type |-> "ILLEGAL_GROUP"])
  ELSE [s EXCEPT !.g.vstate = "AGREE", !.out = Append(@, FlushOk(c, s.g.curr_change))]

Authorize(c, s, before) ==
  CASE before \in {"STEADY", "VERIFY"} -> deliver_flush_req(s)
    [] before = "AUTHORIZE" -> s
    [] before = "AGREE" -> FL_int_flush(c, s)
handle_next_memb_change(c, s) ==
  Authorize(c, [s EXCEPT !.g.curr_change = Head(s.g.memb_queue), !.g.flush_recvs = 0,
                         !.g.vstate = "AUTHORIZE"], s.g.vstate)

-----------------------------------------------------------------------------
(* A membership.                                                           *)

determine_leavers(e) == IF e.type = "join" THEN {} ELSE {e.who}

\* Flush messages of memberships that never come are forgotten, one at a time.
TooOld(pmemb) == {gid \in DOMAIN pmemb : ~pmemb[gid].recvd /\ pmemb[gid].age >= FLOK_AGE_LIMIT}
age_and_invalidate_pmembs(pmemb) ==
  LET aged == [gid \in DOMAIN pmemb |->
                 [pmemb[gid] EXCEPT !.age = IF pmemb[gid].recvd THEN @ ELSE @ + 1]]
  IN  IF TooOld(pmemb) = {} THEN aged ELSE WithoutGids(aged, {CHOOSE gid \in TooOld(pmemb) : TRUE})

\* Mutant: the membership after a dropped one is not marked as the network's.
CollapseUnmarked(leavers, gid, acc) ==
  LET gone == leavers \cap acc.pmemb[gid].view.membs
  IN  IF gone \ acc.pmemb[gid].floks # {}
      THEN [acc EXCEPT !.pmemb = WithoutGids(@, {gid})]
      ELSE [acc EXCEPT !.pmemb[gid].view.membs = @ \ gone, !.queue = Append(@, gid)]

\* A queued membership that a leaver has not flushed for is never installed: it
\* is dropped, and the next one that stays is caused by the network.
Collapse(leavers, gid, acc) ==
  LET gone == leavers \cap acc.pmemb[gid].view.membs
  IN  IF gone \ acc.pmemb[gid].floks # {}
      THEN [acc EXCEPT !.pmemb = WithoutGids(@, {gid}), !.invalidating = TRUE]
      ELSE [acc EXCEPT !.pmemb[gid].view.membs = @ \ gone,
                       !.pmemb[gid].view.cause = IF acc.invalidating THEN "network" ELSE @,
                       !.queue = Append(@, gid), !.invalidating = FALSE]
collapse_memberships(g, leavers, gid) ==
  LET all == FoldLeft(LAMBDA acc, q : Collapse(leavers, q, acc),
                      [pmemb |-> g.pmemb, queue |-> <<>>, invalidating |-> FALSE], g.memb_queue)
  IN  IF leavers = {} THEN g
      ELSE [g EXCEPT !.memb_queue = all.queue,
                     !.pmemb = IF all.invalidating
                               THEN [all.pmemb EXCEPT ![gid].view.cause = "network"]
                               ELSE all.pmemb]

\* The new membership is on the queue: work on the first one, if that is another.
WorkOnFirst(c, s) ==
  IF Head(s.g.memb_queue) = s.g.curr_change THEN s
  ELSE handle_next_memb_change(c, [s EXCEPT !.g.mess_queue = <<>>])
SignalShrunk(s, shrunk) ==
  IF shrunk /\ ~s.g.fl_view.trans THEN deliver_trans_sig(s) ELSE s
handle_recv_reg_memb_mess(c, s, e) ==
  LET leavers == determine_leavers(e)
      known   == [sp_memb_change(s.g.pmemb, e.gid) EXCEPT !.recvd = TRUE, !.view = fill_view(e)]
      shrunk  == [s.g EXCEPT !.pmemb = age_and_invalidate_pmembs((e.gid :> known) @@ @),
                             !.fl_view.membs = @ \ leavers]
      queued  == [collapse_memberships(shrunk, leavers, e.gid) EXCEPT
                    !.memb_queue = Append(@, e.gid)]
  IN  SignalShrunk(WorkOnFirst(c, [s EXCEPT !.g = queued]), leavers \cap s.g.fl_view.membs # {})

-----------------------------------------------------------------------------
(* Flush messages.                                                         *)

\* Who came along into a view: told in full when the network is the cause.
install_new_view(s, v) ==
  deliver(s, [type |-> "MEMB", gid |-> v.gid, membs |-> v.orig, cause |-> v.cause,
              vs |-> IF v.cause = "network" THEN s.g.fl_view.membs ELSE v.delta])
update_fl_view(g, v) ==
  [g EXCEPT !.fl_view = v, !.memb_queue = Tail(@), !.pmemb = WithoutGids(@, {v.gid}),
            !.curr_change = 0, !.vstate = "VERIFY",
            !.mstate = IF @ = "JOINING" THEN "JOINED" ELSE @]
\* Mutant: the memberships that came during the flush are left on the queue.
FlushRecvAlways(c, s) == [s EXCEPT !.out = Append(@, FlushRecv(c, s.g.fl_view.gid))]
FlushRecvOrNext(c, s) ==
  IF s.g.memb_queue = <<>> THEN [s EXCEPT !.out = Append(@, FlushRecv(c, s.g.fl_view.gid))]
                           ELSE handle_next_memb_change(c, s)
SignalDeparted(s) == IF s.g.fl_view.membs # s.g.fl_view.orig THEN deliver_trans_sig(s) ELSE s
DeliverPostponed(s) == [s EXCEPT !.up = @ \o s.g.mess_queue, !.g.mess_queue = <<>>]
InstallView(c, s, v) ==
  DeliverPostponed(SignalDeparted(FlushRecvOrNext(c,
    [install_new_view(s, v) EXCEPT !.g = update_fl_view(s.g, v)])))

AllFlushed(g, gid) == /\ g.vstate = "AGREE" /\ gid = g.curr_change
                      /\ Cardinality(g.pmemb[gid].floks) = Cardinality(g.pmemb[gid].view.orig)
InstallIfAll(c, s, gid) ==
  IF AllFlushed(s.g, gid) THEN InstallView(c, s, s.g.pmemb[gid].view) ELSE s
handle_recv_flush_ok(c, s, e) ==
  LET spc == [sp_memb_change(s.g.pmemb, e.gid) EXCEPT !.floks = @ \cup {e.from}]
  IN  InstallIfAll(c, [s EXCEPT !.g.pmemb = (e.gid :> spc) @@ @], e.gid)

CountFlushRecv(g) ==
  [g EXCEPT !.flush_recvs = @ + 1,
            !.vstate = IF g.vstate = "VERIFY" /\ g.flush_recvs + 1 = Cardinality(g.fl_view.orig)
                       THEN "STEADY" ELSE @]
handle_recv_flush_recv(s, e) ==
  IF \/ s.g.vstate = "VERIFY" /\ e.gid = s.g.fl_view.gid
     \/ s.g.vstate = "AGREE" /\ e.gid = s.g.curr_change
  THEN [s EXCEPT !.g = CountFlushRecv(@)]
  ELSE s

-----------------------------------------------------------------------------
(* A message of a user.                                                    *)

\* Mutant: a view that not all have installed is taken for steady.
is_vulnerable_messNotVerify(g, service) == g.vstate = "AUTHORIZE" /\ service = "reliable"

\* A message of less than agreed service that not all may be ready for carries
\* the view it belongs to.
is_vulnerable_mess(g, service) == g.vstate \in {"AUTHORIZE", "VERIFY"} /\ service = "reliable"

ForNextView(g, e) == g.vstate = "AGREE" /\ e.vulnerable /\ e.gid = g.curr_change
handle_recv_reg_mess(s, e) ==
  IF ForNextView(s.g, e)
  THEN IF e.from \in s.g.pmemb[e.gid].view.membs
       THEN [s EXCEPT !.g.mess_queue = Append(@, e)]
       ELSE [s EXCEPT !.abort = TRUE]
  ELSE IF e.from \in s.g.fl_view.membs THEN deliver(s, e) ELSE s

-----------------------------------------------------------------------------
(* The library's calls.                                                    *)

Outside == [gid |-> 0, membs |-> {}, cause |-> "none", vs |-> {}, msgs |-> {}]
\* What FL_receive gives to the user: at once, or from conn->mess_queue in its
\* next calls; the user reads all of it before it does anything else.
Read(views, notice) ==
  CASE notice.type = "MEMB" ->
         Append(views, [gid |-> notice.gid, membs |-> notice.membs, cause |-> notice.cause,
                        vs |-> notice.vs, msgs |-> {}])
    [] notice.type = "LEFT" -> Append(views, Outside)
    [] notice.type = "DATA" -> [views EXCEPT ![Len(views)].msgs = @ \cup {[id |-> notice.id, gid |-> notice.gid]}]
    [] OTHER -> views
Given(c, up) ==
  /\ hist' = [hist EXCEPT ![c] = FoldLeft(Read, @, up)]
  /\ asked' = [asked EXCEPT ![c] = /\ @ \/ [type |-> "FLUSH_REQ"] \in Range(up)
                                   /\ [type |-> "LEFT"] \notin Range(up)]

\* The state machine's answer to e.
Handle(c, s, e) ==
  CASE e.type = "FLUSH_OK" -> handle_recv_flush_ok(c, s, e)
    [] e.type = "FLUSH_RECV" -> handle_recv_flush_recv(s, e)
    [] e.type = "DATA" -> handle_recv_reg_mess(s, e)
    [] Is_membership_mess(e) /\ c \in e.membs -> handle_recv_reg_memb_mess(c, s, e)
    [] Is_membership_mess(e) /\ c \notin e.membs ->
         deliver([s EXCEPT !.g = NoGroup], [type |-> "LEFT"])
GroupOf(c) == IF fl[c].mstate = "none" THEN create_fl_group(c) ELSE fl[c]
recv_and_handle(c, e) ==
  Handle(c, [g |-> GroupOf(c), up |-> <<>>, out |-> <<>>, abort |-> FALSE], e)
userm_to_buffm(c, s, rest) ==
  /\ fl' = [fl EXCEPT ![c] = s.g]
  /\ inbox' = Ordered([inbox EXCEPT ![c] = rest], s.out)
  /\ fatal' = (fatal \/ s.abort)
  /\ Given(c, s.up)

\* FL_receive: the next of what is ordered, or a RELIABLE message early.
ReceiveNext(c) ==
  /\ c \in alive /\ inbox[c] # <<>>
  /\ \E s \in {recv_and_handle(c, Head(inbox[c]))} : userm_to_buffm(c, s, Tail(inbox[c]))
  /\ UNCHANGED <<members, last_gid, sent, alive>>
MayOvertake(c, i) == i > 1 /\ inbox[c][i].type = "DATA" /\ inbox[c][i].service = "reliable"
ReceiveEarly(c) ==
  /\ c \in alive /\ fl[c].mstate # "none"
  /\ \E i \in DOMAIN inbox[c] :
       /\ MayOvertake(c, i)
       /\ \E s \in {recv_and_handle(c, inbox[c][i])} : userm_to_buffm(c, s, RemoveAt(inbox[c], i))
  /\ UNCHANGED <<members, last_gid, sent, alive>>

\* The user answers a FLUSH_REQ.
FL_flush(c) ==
  /\ c \in alive /\ asked[c] /\ fl[c].vstate = "AUTHORIZE" /\ fl[c].mstate # "LEAVING"
  /\ asked' = [asked EXCEPT ![c] = FALSE]
  /\ \E s \in {FL_int_flush(c, [g |-> fl[c], up |-> <<>>, out |-> <<>>])} :
       /\ fl' = [fl EXCEPT ![c] = s.g]
       /\ inbox' = Ordered(inbox, s.out)
  /\ UNCHANGED <<members, last_gid, sent, alive, hist, fatal>>

FL_multicast(c, service) ==
  /\ c \in alive /\ c \in Senders /\ sent < MaxMessages
  /\ fl[c].mstate = "JOINED" /\ fl[c].vstate # "AGREE"
  /\ sent' = sent + 1
  /\ inbox' = Ordered(inbox, <<Message(c, service, is_vulnerable_mess(fl[c], service))>>)
  /\ UNCHANGED <<members, last_gid, fl, asked, alive, hist, fatal>>

FL_join(c) ==
  /\ c \in alive /\ fl[c].mstate = "none" /\ c \notin members
  /\ Change("join", c, members \cup {c})
  /\ UNCHANGED <<sent, fl, asked, alive, hist, fatal>>

FL_leave(c) ==
  /\ c \in alive /\ c \in Leavers /\ fl[c].mstate = "JOINED"
  /\ fl' = [fl EXCEPT ![c].mstate = "LEAVING"]
  /\ Change("leave", c, members \ {c})
  /\ UNCHANGED <<sent, asked, alive, hist, fatal>>

\* FL_disconnect, the end of the process, or a membership caused by the network.
FL_end(c) ==
  /\ c \in alive /\ c \in Leavers /\ c \in members
  /\ alive' = alive \ {c}
  /\ Change("disconnect", c, members \ {c})
  /\ UNCHANGED <<sent, fl, asked, hist, fatal>>

FounderGroup ==
  [NoGroup EXCEPT !.mstate = "JOINED", !.vstate = "STEADY",
                  !.fl_view = [NoView EXCEPT !.gid = 1, !.orig = Founders, !.membs = Founders,
                                             !.trans = FALSE]]

FlushInit ==
  /\ members = Founders /\ last_gid = 1 /\ sent = 0
  /\ inbox = [c \in Client |-> <<>>]
  /\ fl = [c \in Client |-> IF c \in Founders THEN FounderGroup ELSE NoGroup]
  /\ asked = [c \in Client |-> FALSE]
  /\ alive = Client
  /\ hist = [c \in Client |-> IF c \in Founders
               THEN <<[Outside EXCEPT !.gid = 1, !.membs = Founders]>>
               ELSE <<>>]
  /\ fatal = FALSE

FlushNext == \E c \in Client :
  \/ ReceiveNext(c) \/ ReceiveEarly(c)
  \/ FL_flush(c) \/ FL_join(c) \/ FL_leave(c) \/ FL_end(c)
  \/ \E service \in Services : FL_multicast(c, service)

FlushSpec == FlushInit /\ [][FlushNext]_flushVars

-----------------------------------------------------------------------------
(* Properties.                                                             *)

\* A message is delivered in the view it was sent in, whatever it overtook and
\* whatever its receiver was waiting for (is_vulnerable_mess,
\* handle_recv_reg_mess); no client is aborted by a message from outside the
\* view it waits for.
SendingView ==
  /\ ~fatal
  /\ \A c \in Client : \A k \in DOMAIN hist[c] :
       \A m \in hist[c][k].msgs : m.gid = hist[c][k].gid

\* The last view before k, of a client that was in one.
Came(c, k) == IF k = 1 THEN 0 ELSE hist[c][k - 1].gid
\* The user of a, given the view v, is told that b comes along.
Along(v, a, b) == IF v.cause = "network" THEN b \in v.vs ELSE {a, b} \cap v.vs = {}
\* Clients that are given the same view are given the same members; those that
\* come into it together, and only those, are told so, and were given the same
\* messages in the view before (collapse_memberships, install_new_view).
FlushSynchrony ==
  \A a, b \in Client : \A k \in DOMAIN hist[a] : \A l \in DOMAIN hist[b] :
    (a # b /\ hist[a][k].gid = hist[b][l].gid /\ hist[a][k].gid > 1) =>
      /\ hist[a][k].membs = hist[b][l].membs
      /\ Along(hist[a][k], a, b) <=> (Came(a, k) = Came(b, l) /\ Came(a, k) # 0)
      /\ Along(hist[a][k], a, b) => hist[a][k - 1].msgs = hist[b][l - 1].msgs

\* When nothing is on its way and no user has to flush, the members are in one
\* steady view: no change is waited for in vain, however joins, departures and
\* flushes crossed (handle_next_memb_change, handle_recv_flush_ok,
\* handle_recv_flush_recv).
Quiet == \A c \in alive : inbox[c] = <<>> /\ ~(asked[c] /\ fl[c].vstate = "AUTHORIZE")
SettledWhenQuiet ==
  Quiet => \A c \in members : /\ fl[c].mstate = "JOINED" /\ fl[c].vstate = "STEADY"
                              /\ Last(hist[c]).membs = members
=============================================================================
