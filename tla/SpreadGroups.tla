---------------------------- MODULE SpreadGroups ----------------------------
(***************************************************************************)
(* The group layer of the Spread daemon (daemon/groups.c): which clients   *)
(* are in which group, the state exchange after a merge of daemons, and    *)
(* the membership notifications clients get.                               *)
(*                                                                         *)
(* The ring below it (protocol.c, membership.c) is given by its contract:  *)
(* the daemons of a configuration receive its messages in one order; those *)
(* that move together to the next configuration deliver the same messages, *)
(* with the transitional membership at the same place.                     *)
(***************************************************************************)
EXTENDS Integers, FiniteSets, Sequences, SequencesExt, FiniteSetsExt, Functions, TLC

CONSTANTS Daemon,       \* daemons; their order as numbers is the order of spread.conf
          Client,       \* client sessions
          Home,         \* the daemon each client is connected to
          Group,        \* group names
          Active,       \* the clients that make requests
          Joined,       \* the clients that are in the groups from the start
          BufSize,      \* how many daemons' members of a group fit into a groups message
          MaxConf,      \* bound: changes of the ring's configuration
          MaxRequests,  \* bound: joins, leaves, messages and disconnects of clients,
                        \* and clients killed for not reading
          MaxFlight,    \* bound: messages a daemon of the ring may be behind
          ReliableData  \* may clients send RELIABLE messages?

ASSUME GroupsAssumption ==
  /\ Daemon \subseteq Nat \ {0} /\ IsFiniteSet(Daemon) /\ Daemon # {}
  /\ Home \in [Client -> Daemon] /\ Group # {} /\ Joined \subseteq Client /\ Active \subseteq Client
  /\ BufSize \in Nat \ {0} /\ MaxConf \in Nat /\ MaxRequests \in Nat /\ MaxFlight \in Nat
  /\ ReliableData \in BOOLEAN

VARIABLES gs,       \* gs[d]: the variables of groups.c in daemon d
          down,     \* down[d]: the two down queues and the one in use
          q,        \* q[d]: what the ring has yet to deliver to daemon d
          ring,     \* ring[d]: configuration of the ring and its last sequence number
          session,  \* session[c]: "op", "killed" (socket closed) or "gone"
          view,     \* view[c][g]: the last regular membership client c was given of g
          got,      \* data messages given to clients, with the view they came in
          fatal,    \* a daemon has met an Alarm that ends it
          confs, requests   \* counters of the bounded steps

vars == <<gs, down, q, ring, session, view, got, fatal, confs, requests>>

NoGroup == [none |-> TRUE]
NoView  == [id |-> <<>>, members |-> {}, vs |-> {}, prev |-> <<>>]
unknown_memb_id == <<0, 0>>

-----------------------------------------------------------------------------
(* Groups as records; gl is a daemon's GroupsList, grp one group of it.    *)

G_get_group(gl, g) == gl[g] # NoGroup

Is_partitioned_daemon(grp, d) == grp.dmns[d].memb = unknown_memb_id

MembersOf(grp) == UNION {grp.dmns[d].mbrs : d \in DOMAIN grp.dmns}

\* The daemon's entry, and its members with it, leave the group.
G_remove_daemon(grp, d) ==
  [grp EXCEPT !.dmns = Restrict(grp.dmns, DOMAIN grp.dmns \ {d}),
              !.num  = @ - Cardinality(grp.dmns[d].mbrs)]

\* The assertions of G_remove_group hold of a group about to be discarded.
G_remove_group_ok(grp) == DOMAIN grp.dmns = {} /\ grp.mboxes = {}

\* Every established daemon gets the group's current membership id.
G_update_daemon_memb_ids(grp) ==
  [grp EXCEPT !.dmns = [d \in DOMAIN grp.dmns |->
     IF Is_partitioned_daemon(grp, d) THEN grp.dmns[d]
     ELSE [grp.dmns[d] EXCEPT !.memb = grp.id[1]]]]

RemoveDaemons(grp, D) ==
  [grp EXCEPT !.dmns = Restrict(grp.dmns, DOMAIN grp.dmns \ D),
              !.num  = @ - Cardinality(UNION {grp.dmns[d].mbrs : d \in D})]

\* The daemons to drop: those outside Trans_memb when a cascading change is
\* completed (GGT), those marked as partitioned otherwise.
Partitioned(s, grp) ==
  {d \in DOMAIN grp.dmns : IF s.gstate = "GGT" THEN d \notin s.trans
                           ELSE Is_partitioned_daemon(grp, d)}

\* What a group becomes without these daemons.
G_eliminate_partitioned_daemons(s, grp) == RemoveDaemons(grp, Partitioned(s, grp))

OrDiscarded(grp) == IF grp.num = 0 THEN NoGroup ELSE grp

G_check_if_changed_by_cascade(grp, trans) == DOMAIN grp.dmns \ trans # {}

-----------------------------------------------------------------------------
(* Notifications. v is the function of all views; the local members of a   *)
(* group are grp.mboxes.                                                   *)

Notified(v, grp, g, vs) ==
  [c \in Client |-> IF c \notin grp.mboxes \/ session[c] # "op" THEN v[c] ELSE
     [v[c] EXCEPT ![g] = [id |-> grp.id, members |-> MembersOf(grp),
                          vs |-> vs[c], prev |-> v[c][g].id]]]

\* Caused by a join, a leave or a disconnect: the set holds the client it is about.
G_send_lightweight_memb(v, grp, g, who) == Notified(v, grp, g, [c \in grp.mboxes |-> {who}])

\* Caused by the network: the daemons with the same membership id came
\* together, a partitioned daemon came alone, and so did a joiner.
EveryoneCameAlong(grp, d) == MembersOf(grp)
G_build_memb_vs_buf(grp, d) ==
  IF Is_partitioned_daemon(grp, d) THEN grp.dmns[d].mbrs
  ELSE UNION {grp.dmns[e].mbrs : e \in {x \in DOMAIN grp.dmns :
                                          grp.dmns[x].memb = grp.dmns[d].memb}}

G_send_heavyweight_join(v, grp, g, joiner) ==
  Notified(v, grp, g, [c \in grp.mboxes |-> IF c \in joiner THEN {c}
                                 ELSE G_build_memb_vs_buf(grp, Home[c]) \ joiner])

G_send_heavyweight_memb(v, grp, g) == G_send_heavyweight_join(v, grp, g, {})

\* After a change of one member: the whole group is listed again when it has
\* lost daemons in the transitional period.
NotifyOne(v, grp, g, who, joiner) ==
  IF grp.changed THEN G_send_heavyweight_join(v, grp, g, joiner)
  ELSE G_send_lightweight_memb(v, grp, g, who)

-----------------------------------------------------------------------------
(* Joins, leaves and disconnects, delivered in GOP or GTRANS. Each result  *)
(* is a group list, the views, and whether the daemon goes on.             *)

\* A change of one member is numbered within the membership.
SameId(grp) == grp
NextId(grp) == [grp EXCEPT !.id[2] = @ + 1]

NewGroup(s) == [id |-> <<IF s.gstate = "GOP" THEN s.regid ELSE s.transid, 0>>,
                changed |-> FALSE, num |-> 0, dmns |-> <<>>, mboxes |-> {}]

NewDaemon(s, grp, d) ==
  [memb |-> IF s.gstate = "GOP" \/ d \in s.trans THEN grp.id[1] ELSE unknown_memb_id,
   mbrs |-> {}]

WithDaemon(s, grp, d) ==
  IF d \in DOMAIN grp.dmns THEN grp
  ELSE [grp EXCEPT !.dmns = [x \in DOMAIN grp.dmns \cup {d} |->
                     IF x = d THEN NewDaemon(s, grp, d) ELSE grp.dmns[x]]]

G_handle_join(me, s, v, c, g) ==
  LET d    == Home[c]
      grp  == WithDaemon(s, IF G_get_group(s.groups, g) THEN s.groups[g] ELSE NewGroup(s), d)
      grp1 == [NextId(grp) EXCEPT !.dmns[d].mbrs = @ \cup {c}, !.num = @ + 1,
                          !.mboxes  = IF d = me THEN @ \cup {c} ELSE @,
                          !.changed = @ \/ Is_partitioned_daemon(grp, d)]
  IN  IF c \in grp.dmns[d].mbrs
      THEN [groups |-> s.groups, view |-> v, ok |-> TRUE]     \* already in the group
      ELSE [groups |-> [s.groups EXCEPT ![g] = grp1],
            view   |-> NotifyOne(v, grp1, g, c, {c}),
            ok     |-> d = me => session[c] # "gone"]

IsMember(gl, c, g) == /\ G_get_group(gl, g)
                      /\ Home[c] \in DOMAIN gl[g].dmns
                      /\ c \in gl[g].dmns[Home[c]].mbrs

\* Member c is taken out, and with it a daemon that has no member left.
KeepMailbox(me, grp, c) ==
  LET d    == Home[c]
      grp1 == [grp EXCEPT !.dmns[d].mbrs = @ \ {c}, !.num = @ - 1]
  IN  IF grp1.dmns[d].mbrs = {} THEN G_remove_daemon(grp1, d) ELSE grp1
WithoutMember(me, grp, c) ==
  LET d    == Home[c]
      grp1 == [grp EXCEPT !.dmns[d].mbrs = @ \ {c}, !.num = @ - 1,
                          !.mboxes = IF d = me THEN @ \ {c} ELSE @]
  IN  IF grp1.dmns[d].mbrs = {} THEN G_remove_daemon(grp1, d) ELSE grp1

\* The group after c has left it, and what its other members are told.
Departed(me, s, v, c, g) ==
  LET grp == WithoutMember(me, s.groups[g], c)
      new == NextId(grp)
  IN  IF grp.num = 0
      THEN [groups |-> [s.groups EXCEPT ![g] = NoGroup], view |-> v,
            ok |-> G_remove_group_ok(grp)]
      ELSE [groups |-> [s.groups EXCEPT ![g] = new],
            view   |-> NotifyOne(v, new, g, c, {}),
            ok     |-> Home[c] = me => c \in s.groups[g].mboxes]

\* A client that leaves gets its own notification and has no view any more.
G_send_self_leave(me, v, c, g) ==
  IF Home[c] = me THEN [v EXCEPT ![c][g] = NoView] ELSE v

G_handle_leave(me, s, v, c, g) ==
  IF ~IsMember(s.groups, c, g) THEN [groups |-> s.groups, view |-> v, ok |-> TRUE]
  ELSE Departed(me, s, G_send_self_leave(me, v, c, g), c, g)

\* A disconnected client leaves every group, in the order of the list.
G_handle_kill(me, s, v, c) ==
  FoldSet(LAMBDA g, r :
             IF ~IsMember(r.groups, c, g) THEN r
             ELSE LET x == Departed(me, [s EXCEPT !.groups = r.groups],
                                    G_send_self_leave(me, r.view, c, g), c, g)
                  IN  [x EXCEPT !.ok = @ /\ r.ok],
           [groups |-> s.groups, view |-> v, ok |-> TRUE], Group)

-----------------------------------------------------------------------------
(* The state exchange. A daemon's groups messages hold its whole list and  *)
(* its synced set; the last one is sent AGREED, the others RELIABLE.       *)

EveryoneLeads(s, d) == d \in s.synced
Is_synced_set_leader(s, d) == s.synced # {} /\ d = Min(s.synced)

\* The list as the buffers are filled from it: group after group, daemon after
\* daemon. A buffer that is full ends between two daemons of a group.
Entries(s) ==
  LET gseq == SetToSeq({g \in Group : G_get_group(s.groups, g)})
  IN  FlattenSeq([i \in DOMAIN gseq |->
        LET dseq == SetToSortSeq(DOMAIN s.groups[gseq[i]].dmns, <)
        IN  [j \in DOMAIN dseq |-> <<gseq[i], dseq[j]>>]])

Parts(s) ==
  LET es == Entries(s)
  IN  IF es = <<>> THEN <<{}>>
      ELSE [i \in 1..((Len(es) + BufSize - 1) \div BufSize) |->
              {es[j] : j \in {x \in DOMAIN es : (x - 1) \div BufSize = i - 1}}]

\* One buffer: all daemons of a group get the group's membership id.
G_build_groups_buf(s, part) ==
  [synced |-> s.synced,
   groups |-> [g \in {e[1] : e \in part} |->
     [id |-> s.groups[g].id, changed |-> s.groups[g].changed,
      dmns |-> [d \in {e[2] : e \in {x \in part : x[1] = g}} |-> s.groups[g].dmns[d].mbrs]]]]

G_build_new_groups_bufs(s) ==
  [i \in DOMAIN Parts(s) |-> G_build_groups_buf(s, Parts(s)[i])]

\* The messages for the down queue; each carries the membership id it was stamped with.
G_send_groups_messages(me, s, bufs) ==
  [i \in DOMAIN bufs |-> [type |-> "groups", rep |-> me, memb |-> s.regid,
                          buf |-> bufs[i], agreed |-> i = Len(bufs)]]

\* The groups of one message are merged into the list. A group is changed when
\* it was on either side, or when the two sides had different membership ids.
MergedOnto(old, sent, memb, changed) ==
  [old EXCEPT
     !.changed = @ \/ changed,
     !.dmns = [d \in DOMAIN old.dmns \cup DOMAIN sent.dmns |->
                 IF d \in DOMAIN sent.dmns
                 THEN [memb |-> memb, mbrs |-> sent.dmns[d]] ELSE old.dmns[d]],
     !.num = @ + Cardinality(UNION {sent.dmns[d] : d \in DOMAIN sent.dmns})]

KnownOr(gl, g, sent) == IF G_get_group(gl, g) THEN gl[g]
                        ELSE [id |-> sent.id, changed |-> FALSE, num |-> 0,
                              dmns |-> <<>>, mboxes |-> {}]

MergeGroup(gl, g, sent) ==
  LET old == KnownOr(gl, g, sent)
  IN  MergedOnto(old, sent, sent.id[1], sent.changed \/ sent.id[1] # old.id[1])

OnlyNewGroups(gl, buf) ==
  [g \in Group |-> IF g \in DOMAIN buf.groups /\ ~G_get_group(gl, g)
                   THEN MergeGroup(gl, g, buf.groups[g]) ELSE gl[g]]
G_mess_to_groups(gl, buf) ==
  [g \in Group |-> IF g \in DOMAIN buf.groups THEN MergeGroup(gl, g, buf.groups[g]) ELSE gl[g]]

-----------------------------------------------------------------------------
(* Membership changes and groups messages. A handler's result: the new     *)
(* variables s, the views, whether the daemon goes on, the messages for    *)
(* the down queue, the queue that is in use afterwards, and the one in use *)
(* while clients are notified.                                             *)

Result(s, v, use) == [s |-> s, view |-> v, ok |-> TRUE, out |-> <<>>, use |-> use, wq |-> use]

Fatal(s, v, use) == [Result(s, v, use) EXCEPT !.ok = FALSE]

G_update_synced_set(s, memb) == [s EXCEPT !.synced = @ \cap memb]

NotifyGroups(v, gl, gset) ==
  FoldSet(LAMBDA g, w : G_send_heavyweight_memb(w, gl[g], g), v, gset)

\* Transitional membership in GOP: the daemons that are cut off are marked.
MarkPartitioned(grp, trans, transid) ==
  IF DOMAIN grp.dmns \ trans = {} THEN grp
  ELSE G_update_daemon_memb_ids(
         [grp EXCEPT !.id = <<transid, 1>>, !.changed = TRUE,
                     !.dmns = [d \in DOMAIN grp.dmns |->
                        IF d \in trans THEN grp.dmns[d]
                        ELSE [grp.dmns[d] EXCEPT !.memb = unknown_memb_id]]])

TransInGOP(s, trans, transid) ==
  G_update_synced_set(
    [s EXCEPT !.gstate = "GTRANS", !.trans = trans, !.transid = transid,
              !.groups = [g \in Group |-> IF ~G_get_group(s.groups, g) THEN NoGroup
                                          ELSE MarkPartitioned(s.groups[g], trans, transid)]],
    trans)

TransInGGATHER(s, trans, transid) ==
  [s EXCEPT !.gstate = "GGT", !.trans = trans, !.transid = transid,
            !.groups = [g \in Group |->
               IF G_get_group(s.groups, g) /\ G_check_if_changed_by_cascade(s.groups[g], trans)
               THEN [s.groups[g] EXCEPT !.changed = TRUE] ELSE s.groups[g]]]

G_handle_trans_memb(me, s, v, use, e) ==
  CASE s.gstate = "GOP"     -> Result(TransInGOP(s, e.memb, e.id), v, use)
    [] s.gstate = "GGATHER" -> Result(TransInGGATHER(s, e.memb, e.id), v, use)
    [] OTHER -> Fatal(s, v, use)

\* The groups left after a change, without the daemons that are gone for good.
WithoutPartitioned(s) ==
  [g \in Group |-> IF G_get_group(s.groups, g) /\ (s.groups[g].changed \/ s.gstate = "GGT")
                   THEN OrDiscarded(G_eliminate_partitioned_daemons(s, s.groups[g]))
                   ELSE s.groups[g]]

DiscardsAreEmpty(s) ==
  \A g \in Group :
    (G_get_group(s.groups, g) /\ WithoutPartitioned(s)[g] = NoGroup) =>
       G_remove_group_ok(G_eliminate_partitioned_daemons(s, s.groups[g]))

\* A changed group is numbered from the new regular membership.
WithNewId(s, grp) == [grp EXCEPT !.id = <<s.regid, 1>>, !.changed = FALSE]

\* Regular membership in GTRANS with nobody new: no exchange is needed.
RegSubtractive(s, v, use) ==
  LET gl0 == WithoutPartitioned(s)
      chg == {g \in Group : G_get_group(gl0, g) /\ gl0[g].changed}
      gl1 == [g \in Group |-> IF g \notin chg THEN gl0[g] ELSE
                G_update_daemon_memb_ids(WithNewId(s, gl0[g]))]
  IN  [Result([s EXCEPT !.gstate = "GOP", !.groups = gl1], NotifyGroups(v, gl1, chg), use)
         EXCEPT !.ok = DiscardsAreEmpty(s)]

\* Somebody new: the leader of each synced set sends its list to everyone.
RegMerging(me, s, v) ==
  LET s1   == [s EXCEPT !.groups = WithoutPartitioned(s), !.gstate = "GGATHER"]
      lead == Is_synced_set_leader(s, me)
      bufs == IF lead THEN G_build_new_groups_bufs(s1) ELSE <<>>
  IN  [Result([s1 EXCEPT !.bufs = bufs, !.fresh = lead], v, "groups")
         EXCEPT !.out = G_send_groups_messages(me, s1, bufs), !.ok = DiscardsAreEmpty(s)]

G_add_to_synced_set(s, set) == [s EXCEPT !.synced = @ \cup set]

\* The list and the synced set with everything a representative has sent.
WithRep(s, r) ==
  G_add_to_synced_set(
    [s EXCEPT !.groups = FoldLeft(LAMBDA gl, b : G_mess_to_groups(gl, b),
                                  s.groups, s.gathered[r].mess)],
    Head(s.gathered[r].mess).synced)

WithReps(s, R) == FoldSet(LAMBDA r, x : WithRep(x, r), s, R)

SyncedDisjoint(s, R) ==
  /\ \A r \in R : s.synced \cap Head(s.gathered[r].mess).synced = {}
  /\ \A r1, r2 \in R : r1 # r2 => Head(s.gathered[r1].mess).synced
                                    \cap Head(s.gathered[r2].mess).synced = {}

\* G_discard_groups_bufs and the reset of what was gathered.
ForgetGathered(s) == [s EXCEPT !.gathered = <<>>, !.mine = FALSE, !.num = 0]

\* Regular membership after a cascading change: what was gathered completely
\* is kept, the rest is thrown away and the exchange starts again.
RegCascading(me, s, v, use) ==
  LET keep == IF s.mine THEN {r \in DOMAIN s.gathered : s.gathered[r].complete} ELSE {}
      s1   == WithReps(s, keep)
      gl   == WithoutPartitioned(s1)
      gone == {g \in Group : G_get_group(s1.groups, g) /\ Partitioned(s1, s1.groups[g]) # {}}
      s2   == [s1 EXCEPT !.groups = [g \in Group |-> IF g \in gone /\ G_get_group(gl, g)
                                                     THEN [gl[g] EXCEPT !.changed = TRUE] ELSE gl[g]]]
      s3   == G_update_synced_set(s2, s.trans)
      fresh == s.fresh /\ keep = {} /\ gone = {} /\ s3.synced = s2.synced
      lead == Is_synced_set_leader(s3, me)
      bufs == IF ~lead \/ fresh THEN s.bufs ELSE G_build_new_groups_bufs(s3)
  IN  [Result([ForgetGathered(s3) EXCEPT !.gstate = "GGATHER",
                         !.bufs = bufs, !.fresh = lead \/ fresh], v, use)
         EXCEPT !.out = IF lead THEN G_send_groups_messages(me, s3, bufs) ELSE <<>>,
                !.ok  = DiscardsAreEmpty(s1) /\ SyncedDisjoint(s, keep)]

G_handle_reg_memb(me, s, v, use, e) ==
  LET s1 == [s EXCEPT !.reg = e.memb, !.regid = e.id]
  IN  CASE s.gstate = "GTRANS" /\ Cardinality(s.trans) = Cardinality(e.memb) -> RegSubtractive(s1, v, use)
        [] s.gstate = "GTRANS" /\ Cardinality(s.trans) # Cardinality(e.memb) -> RegMerging(me, s1, v)
        [] s.gstate = "GGT" -> RegCascading(me, s1, v, use)
        [] OTHER -> Fatal(s, v, use)

\* All lists are merged; every changed group gets a new id and its members a notification.
G_compute_and_notify(s, v) ==
  LET s1  == WithReps(s, DOMAIN s.gathered)
      chg == {g \in Group : G_get_group(s1.groups, g) /\ s1.groups[g].changed}
      gl1 == [g \in Group |-> IF g \notin chg THEN s1.groups[g]
                ELSE WithNewId(s, s1.groups[g])]
      gl2 == [g \in Group |-> IF g \notin chg THEN gl1[g] ELSE G_update_daemon_memb_ids(gl1[g])]
  IN  [s |-> [ForgetGathered(s1) EXCEPT !.groups = gl2,
                        !.bufs = <<>>, !.fresh = FALSE],
       view |-> NotifyGroups(v, gl1, chg)]

\* A message of the own leader is only counted, one of another is kept.
Gather(s, e) ==
  IF Is_synced_set_leader(s, e.rep)
  THEN [s EXCEPT !.mine = @ \/ e.agreed]
  ELSE [s EXCEPT !.gathered = [r \in DOMAIN @ \cup {e.rep} |->
          IF r # e.rep THEN @[r]
          ELSE IF r \notin DOMAIN @ THEN [mess |-> <<e.buf>>, complete |-> e.agreed]
          ELSE [mess |-> <<e.buf>> \o @[r].mess, complete |-> @[r].complete \/ e.agreed]]]

G_handle_groups(me, s, v, use, e) ==
  LET s1   == [Gather(s, e) EXCEPT !.num = @ + (IF e.agreed THEN Cardinality(e.buf.synced) ELSE 0)]
      done == G_compute_and_notify(s1, v)
      op   == [done.s EXCEPT !.gstate = "GOP"]
  IN  IF s.gstate \notin {"GGATHER", "GGT"} THEN Fatal(s, v, use)
      ELSE IF e.memb # s.regid THEN Result(s, v, use)         \* of another membership
      ELSE IF s1.num # Cardinality(s.reg) THEN Result(s1, v, use)
      ELSE [Result(IF s.gstate = "GGATHER" THEN op ELSE TransInGOP(op, s.trans, s.transid),
                   done.view, "normal")
              EXCEPT !.ok = SyncedDisjoint(s1, DOMAIN s1.gathered)]

-----------------------------------------------------------------------------
(* Delivery of a ring event to the session layer of daemon me.             *)

Request(me, s, v, use, r) ==
  [Result([s EXCEPT !.groups = r.groups], r.view, use)
     EXCEPT !.ok = r.ok /\ s.gstate \in {"GOP", "GTRANS"}]

\* The local members of the group get the message.
G_analize_groups(s, g) == IF G_get_group(s.groups, g) THEN s.groups[g].mboxes ELSE {}

Sess_deliver_message(me, s, v, use, e) ==
  CASE e.type = "join"   -> Request(me, s, v, use, G_handle_join(me, s, v, e.client, e.group))
    [] e.type = "leave"  -> Request(me, s, v, use, G_handle_leave(me, s, v, e.client, e.group))
    [] e.type = "kill"   -> Request(me, s, v, use, G_handle_kill(me, s, v, e.client))
    [] e.type = "groups" -> G_handle_groups(me, s, v, use, e)
    [] e.type = "data"   -> [Result(s, v, use) EXCEPT
                               !.ok = s.gstate \in {"GOP", "GTRANS"} \/ ~G_get_group(s.groups, e.group)]
    [] e.type = "trans"  -> G_handle_trans_memb(me, s, v, use, e)
    [] e.type = "reg"    -> G_handle_reg_memb(me, s, v, use, e)

\* Clients that did not read what they were sent are killed by Sess_write.
Written(d, r, e) == {c \in Client : /\ Home[c] = d /\ session[c] = "op"
                                    /\ \/ r.view[c] # view[c]
                                       \/ e.type = "data" /\ c \in G_analize_groups(gs[d], e.group)}

KillMessage(c) == [type |-> "kill", client |-> c]
KillMessages(S) == IF S = {} THEN <<>> ELSE <<KillMessage(CHOOSE c \in S : TRUE)>>

Push(dn, which, msgs) == [dn EXCEPT ![which] = @ \o msgs]

Membership(e) == e.type \in {"trans", "reg"}
Open(d) == \A i \in DOMAIN q[d] : ~Membership(q[d][i])

\* A daemon gets everything up to a regular membership in one call of
\* Discard_packets. Daemons that are in it go one after the other, and nobody
\* else moves: their steps share nothing with those of others.
Installing == {d \in Daemon : ~Open(d)}
Turn(d) == Installing # {} => (d \in Installing /\ \A e \in Installing : d <= e)

Handle(d, i) ==
  \E e \in {q[d][i]} :
  \E r \in {Sess_deliver_message(d, gs[d], view, down[d].use, e)} :
  \E slow \in SUBSET Written(d, r, e) :
    /\ Cardinality(slow) <= 1 /\ requests + Cardinality(slow) <= MaxRequests
    /\ requests' = requests + Cardinality(slow)
    /\ gs' = [gs EXCEPT ![d] = r.s]
    /\ fatal' = ~r.ok
    /\ q' = [q EXCEPT ![d] = RemoveAt(@, i)]
    /\ got' = IF e.type # "data" THEN got
              ELSE got \cup {[client |-> c, mess |-> e.no, group |-> e.group,
                              view |-> view[c][e.group].id] : c \in Written(d, r, e)}
    /\ session' = [c \in Client |-> IF c \in slow THEN "killed"
                     ELSE IF e.type = "kill" /\ e.client = c /\ Home[c] = d THEN "gone"
                     ELSE session[c]]
    /\ down' = [down EXCEPT ![d] =
         [Push(Push(@, r.wq, KillMessages(slow)), r.use, r.out) EXCEPT !.use = r.use]]
    /\ view' = [c \in Client |-> IF c \in slow THEN view[c] ELSE r.view[c]]
    /\ UNCHANGED <<ring, confs>>

Deliver(d) == ~fatal /\ Turn(d) /\ q[d] # <<>> /\ Handle(d, 1)

\* A RELIABLE message of one packet does not wait for those before it.
Reliable(e) == \/ e.type = "groups" /\ ~e.agreed
               \/ e.type = "data" /\ ReliableData
DeliverReliable(d) ==
  /\ ~fatal /\ Installing = {}
  /\ \E i \in DOMAIN q[d] : /\ i > 1 /\ Reliable(q[d][i])
                            /\ Handle(d, i)

-----------------------------------------------------------------------------
(* Clients, and the ring.                                                  *)

\* Client requests are read only while the session layer's threshold is low.
ClientRequest(c) ==
  /\ ~fatal /\ Installing = {} /\ session[c] = "op" /\ requests < MaxRequests
  /\ down[Home[c]].use = "normal"
  /\ requests' = requests + 1
  /\ \E m \in {[type |-> IF view[c][g] = NoView THEN "join" ELSE "leave",
                client |-> c, group |-> g] : g \in Group}
              \cup {[type |-> "data", no |-> requests, group |-> g] : g \in Group}
              \cup {KillMessage(c)} :
       /\ down' = [down EXCEPT ![Home[c]] = Push(@, @.use, <<m>>)]
       /\ session' = IF m.type = "kill" THEN [session EXCEPT ![c] = "killed"] ELSE session
  /\ UNCHANGED <<gs, q, ring, view, got, fatal, confs>>

\* The daemon sends the first message of its down queue to its configuration.
RingSend(d) ==
  /\ ~fatal /\ Installing = {} /\ down[d][down[d].use] # <<>>
  /\ LET m  == Head(down[d][down[d].use]) @@ [from |-> d]
         to == {e \in Daemon : ring[e].id = ring[d].id}
     IN  /\ \A e \in to : Len(q[e]) < MaxFlight
         /\ q' = [e \in Daemon |-> IF e \in to THEN Append(q[e], m @@ [seq |-> ring[d].seq + 1]) ELSE q[e]]
         /\ ring' = [e \in Daemon |-> IF e \in to THEN [ring[e] EXCEPT !.seq = ring[d].seq + 1] ELSE ring[e]]
  /\ down' = [down EXCEPT ![d][down[d].use] = Tail(@)]
  /\ UNCHANGED <<gs, session, view, got, fatal, confs, requests>>

\* The daemons S form a configuration. Of those that come from the same one,
\* all deliver what any has delivered and more up to cut, then the transitional
\* membership, then the rest, of which messages from outside may be missing.
NewConf(S) ==
  /\ ~fatal /\ Installing = {} /\ confs < MaxConf /\ S # {}
  /\ LET T     == [d \in S |-> {e \in S : ring[e].id = ring[d].id}]
         seen  == [d \in S |-> IF q[d] = <<>> THEN ring[d].seq ELSE q[d][1].seq - 1]
         most  == [d \in S |-> Max({seen[e] : e \in T[d]})]
         id    == <<confs + 1, 0>>
         trans == [d \in S |-> [type |-> "trans", memb |-> T[d], id |-> <<confs + 1, Min(T[d])>>]]
         reg   == [type |-> "reg", memb |-> S, id |-> id]
     IN  /\ \E cut \in {[d \in S |-> ring[d].seq], most}, hole \in BOOLEAN :
              /\ hole => \E d \in S : \E i \in DOMAIN q[d] : q[d][i].seq > cut[d] /\ q[d][i].from \notin S
              /\ q' = [d \in Daemon |-> IF d \notin S THEN q[d] ELSE
                         SelectSeq(q[d], LAMBDA m : m.seq <= cut[d]) \o <<trans[d]>>
                         \o SelectSeq(q[d], LAMBDA m : m.seq > cut[d] /\ (hole => m.from \in S))
                         \o <<reg>>]
         /\ ring' = [d \in Daemon |-> IF d \in S THEN [id |-> id, seq |-> 0] ELSE ring[d]]
  /\ confs' = confs + 1
  /\ UNCHANGED <<gs, down, session, view, got, fatal, requests>>

G_init(d) == [gstate |-> "GOP", reg |-> {d}, regid |-> <<0, d>>, trans |-> {d}, transid |-> <<0, d>>,
              groups |-> [g \in Group |-> NoGroup], synced |-> {d}, gathered |-> <<>>,
              mine |-> FALSE, num |-> 0, bufs |-> <<>>, fresh |-> FALSE]

\* Two starting points: every daemon alone, with the clients Joined in the
\* groups, or all daemons in one configuration, with every client in them.
InitGroups(J, id) ==
  [g \in Group |-> IF J = {} THEN NoGroup ELSE
     [id |-> <<id, Cardinality(J)>>, changed |-> FALSE, num |-> Cardinality(J),
      dmns |-> [d \in {Home[c] : c \in J} |-> [memb |-> id, mbrs |-> {c \in J : Home[c] = d}]],
      mboxes |-> {}]]

InitDaemon(d, D, J, id) ==
  [G_init(d) EXCEPT !.reg = D, !.regid = id, !.synced = D,
     !.groups = [g \in Group |-> IF J = {} THEN NoGroup ELSE
                  [InitGroups(J, id)[g] EXCEPT !.mboxes = {c \in J : Home[c] = d}]]]

Init ==
  /\ \E together \in BOOLEAN :
       LET memb(d) == IF together THEN Daemon ELSE {d}
           in(d)   == {c \in IF together THEN Client ELSE Joined : Home[c] \in memb(d)}
           id(d)   == <<0, Min(memb(d))>>
       IN  /\ gs = [d \in Daemon |-> InitDaemon(d, memb(d), in(d), id(d))]
           /\ ring = [d \in Daemon |-> [id |-> id(d), seq |-> 0]]
           /\ view = [c \in Client |-> [g \in Group |-> IF c \notin in(Home[c]) THEN NoView ELSE
                        [id |-> <<id(Home[c]), Cardinality(in(Home[c]))>>,
                         members |-> in(Home[c]), vs |-> {}, prev |-> <<>>]]]
  /\ down = [d \in Daemon |-> [normal |-> <<>>, groups |-> <<>>, use |-> "normal"]]
  /\ q = [d \in Daemon |-> <<>>]
  /\ session = [c \in Client |-> "op"]
  /\ got = {} /\ fatal = FALSE
  /\ confs = 0 /\ requests = 0

Next == \/ \E d \in Daemon : Deliver(d) \/ DeliverReliable(d) \/ RingSend(d)
        \/ \E c \in Active : ClientRequest(c)
        \/ \E S \in SUBSET Daemon : NewConf(S)

GroupsSpec == Init /\ [][Next]_vars

-----------------------------------------------------------------------------
\* No sequence of events makes a daemon end in one of groups.c's fatal alarms but
\* one: a client's RELIABLE message that overtakes what the ring has yet to deliver
\* and comes in the middle of an exchange of the groups (G_analize_groups).
Overtaking(d, i) ==
  i > 1 /\ q[d][i].type = "data" /\ gs[d].gstate \in {"GGATHER", "GGT"} /\ q'[d] = RemoveAt(q[d], i)
FatalOnlyByReliable == [][fatal' => \E d \in Daemon : \E i \in DOMAIN q[d] : Overtaking(d, i)]_vars

\* What a daemon knows of a group, without what is local to it.
Shared(grp) == IF grp = NoGroup THEN NoGroup
               ELSE [id |-> grp.id, num |-> grp.num,
                     dmns |-> [d \in DOMAIN grp.dmns |-> grp.dmns[d].mbrs]]

\* Two daemons in the same configuration that have delivered the same messages
\* of it, and are not exchanging state, have the same groups with the same ids.
GroupsAgree ==
  \A d, e \in Daemon :
    (gs[d].gstate = "GOP" /\ gs[e].gstate = "GOP" /\ gs[d].regid = gs[e].regid /\ q[d] = q[e])
      => \A g \in Group : Shared(gs[d].groups[g]) = Shared(gs[e].groups[g])

\* The mailboxes of a group are those of its local members, its size is the number
\* of its members, and a group without members is not in the list.
ListsConsistent ==
  \A d \in Daemon, g \in Group :
    LET grp == gs[d].groups[g]
    IN  grp # NoGroup =>
          /\ grp.mboxes = {c \in MembersOf(grp) : Home[c] = d}
          /\ grp.num = Cardinality(MembersOf(grp)) /\ grp.num > 0
          /\ \A x \in DOMAIN grp.dmns : grp.dmns[x].mbrs # {}

\* Clients that were given a membership with the same id were given the same members.
ViewsAgree ==
  \A c1, c2 \in Client, g \in Group :
    (view[c1][g].id # <<>> /\ view[c1][g].id = view[c2][g].id)
      => view[c1][g].members = view[c2][g].members

GotIn(c, g, id) == {x.mess : x \in {y \in got : y.client = c /\ y.group = g /\ y.view = id}}

\* Virtual synchrony: two clients that came along together into a membership had
\* the same membership before, and were given the same messages in it.
VirtualSynchrony ==
  \A c1, c2 \in Client, g \in Group :
    (/\ view[c1][g].id # <<>> /\ view[c1][g].id = view[c2][g].id
     /\ c2 \in view[c1][g].vs /\ c1 \in view[c2][g].vs)
      => /\ view[c1][g].prev = view[c2][g].prev
         /\ GotIn(c1, g, view[c1][g].prev) = GotIn(c2, g, view[c2][g].prev)
=============================================================================
