-------------------------- MODULE SpreadMembership --------------------------
(***************************************************************************)
(* The membership algorithm of a Spread daemon (daemon/membership.c): a    *)
(* daemon that lost its token looks for the daemons of its segment (SEG),  *)
(* follows the representative of the segment (REPRESENTED) or becomes it   *)
(* and gathers the other representatives (GATHER). The form1 token then    *)
(* collects the members and what they know of their old rings (FORM), the  *)
(* form2 token tells it to all of them, and the packets of the old ring    *)
(* are recovered before the new ring is installed (EVS).                   *)
(*                                                                         *)
(* An operator takes the record of a daemon and gives the record after the *)
(* routine; what the routine sends is collected in its field out.          *)
(***************************************************************************)
EXTENDS SpreadDelivery

CONSTANTS MAX_REPS, MAX_FORM_REPS

Members(seq) == Range(seq)
Rep(p, type) == [proc |-> p, type |-> type]
MembId(p, t) == [proc |-> p, time |-> t]

\* Sending: a token has one addressee, a packet may have several.
SendToken(r, to, t) == [r EXCEPT !.out.token = <<to, t>>]
SendControl(r, S, m) == [r EXCEPT !.out.control = @ \cup {<<to, m>> : to \in S}]

Queue(r, T) == [r EXCEPT !.timers = @ \cup T]
Dequeue(r, T) == [r EXCEPT !.timers = @ \ T]

-----------------------------------------------------------------------------
(* Lists of members and of representatives.                                *)

Insert_member(seq, p) == IF p \in Members(seq) THEN seq ELSE Append(seq, p)

\* A representative takes the place of a potential one of its segment and of
\* what was known of itself; a potential one comes only to an empty segment.
Insert_rep(reps, rep) ==
  LET same == {i \in DOMAIN reps : Seg[reps[i].proc] = Seg[rep.proc]}
      hit  == {i \in same : reps[i].type = "POTENTIAL" \/ reps[i].proc = rep.proc}
  IN  CASE rep.type = "POTENTIAL" /\ same # {} -> reps
        [] rep.type # "POTENTIAL" /\ hit # {} -> [reps EXCEPT ![Min(hit)] = rep]
        [] OTHER -> IF Len(reps) = MAX_REPS THEN reps ELSE Append(reps, rep)

Insert_reps(reps, more) == FoldLeft(Insert_rep, reps, more)

\* The daemon that comes first in the configuration.
Smallest_member(seq) == Min(Members(seq))

\* Representatives of segments come before those of rings, then the lower
\* segment; two of a segment are told apart only among rings.
Smaller(a, b) ==
  \/ a.type = "SEG" /\ b.type = "SEG" /\ Seg[a.proc] < Seg[b.proc]
  \/ a.type = "SEG" /\ b.type = "RING"
  \/ /\ a.type = "RING" /\ b.type = "RING"
     /\ Seg[a.proc] < Seg[b.proc] \/ (Seg[a.proc] = Seg[b.proc] /\ a.proc < b.proc)

SmallestIndex(reps) ==
  FoldLeft(LAMBDA cur, i : IF Smaller(reps[i], reps[cur]) THEN i ELSE cur, 1, Upto(2, Len(reps)))
Smallest_rep(reps) == reps[SmallestIndex(reps)].proc

\* By repeated choice of the smallest; the last one fills the gap.
Sort_reps(reps) ==
  FoldLeft(LAMBDA x, i : LET k == SmallestIndex(x.rest) n == Len(x.rest)
                         IN  [done |-> Append(x.done, x.rest[k]),
                              rest |-> SubSeq([x.rest EXCEPT ![k] = x.rest[n]], 1, n - 1)],
           [done |-> <<>>, rest |-> reps], Upto(1, Len(reps))).done

\* Where to look for the other segments after a failure: the first daemon of
\* each one in the membership S, or else in the configuration.
PotentialOf(S, d) ==
  LET others == Ordered(Segments \ {Seg[d]})
  IN  [i \in DOMAIN others |->
         Rep(IF InSeg(S, others[i]) # {} THEN Conf_seg_leader(S, others[i])
             ELSE Conf_seg_leader(Daemon, others[i]), "POTENTIAL")]

\* The representatives of other segments, as potential ones.
PotentialFrom(reps, d) ==
  LET far == SelectSeq(reps, LAMBDA p : Seg[p.proc] # Seg[d])
  IN  Insert_reps(<<>>, [i \in DOMAIN far |-> Rep(far[i].proc, "POTENTIAL")])

-----------------------------------------------------------------------------
(* Changes of state.                                                       *)

Shift_to_seg(r, d) ==
  Queue([r EXCEPT !.State = "SEG", !.F_members = <<d>>], {"alive", "gather_or_represented"})

Shift_to_gather(r, d) ==
  Queue(Dequeue([r EXCEPT !.State = "GATHER",
                          !.F_reps = <<Rep(d, IF r.Token_alive THEN "RING" ELSE "SEG")>>],
                {"alive", "lookup"}),
        {"join", "form_or_fail"})

Shift_to_represented(r) ==
  Queue(Dequeue([r EXCEPT !.State = "REPRESENTED"], {"alive", "gather_or_represented"}), {"seg"})

Gather_or_represented(r, d) ==
  LET x == [r EXCEPT !.My_seg_rep = None]
  IN  IF Smallest_member(r.F_members) = d THEN Shift_to_gather(x, d) ELSE Shift_to_represented(x)

\* My_aru is counted up looking at the slot of the highest packet each time.
Backoff_membership(r) ==
  LET todo == r.Last_discarded + 1 .. r.Highest_seq
      x    == [r EXCEPT !.Packets = [s \in DOMAIN @ |-> IF @[s].exist = 3 THEN NoPacket ELSE @[s]]]
  IN  [x EXCEPT !.Aru = r.Last_discarded,
                !.My_aru = IF todo # {} /\ Exist(x, r.Highest_seq) # 0 THEN r.Highest_seq
                           ELSE r.Last_discarded]

NoToken == [arq |-> 0, retrans |-> 0, seq |-> 0, aru |-> 0, aru_last_id |-> None, flow_control |-> 0,
            rtr |-> <<>>]

\* What each state does first, by the state.
LeaveState(r, d) ==
  CASE r.State = "OP" ->
         [r EXCEPT !.Commit_set = [members |-> {d}, trans |-> {}],
                   !.Potential_reps = Insert_reps(<<>>, PotentialOf(r.Membership, d))]
    [] r.State = "GATHER" ->
         IF ~r.Token_alive THEN Exit(r, "token lost in GATHER")
         ELSE [r EXCEPT !.Commit_set = [members |-> {d}, trans |-> {}],
                        !.Potential_reps = Insert_reps(Insert_reps(<<>>, Tail(r.F_reps)),
                                                       PotentialOf(r.Membership, d))]
    [] r.State = "EVS" ->
         [Backoff_membership(r) EXCEPT
            !.Potential_reps = Insert_reps(<<>>, PotentialOf(r.Future_membership, d))]
    [] r.State = "FORM" -> r
    [] OTHER -> Exit(r, "token lost in SEG or REPRESENTED")

Memb_token_loss(r, d) ==
  Dequeue([Shift_to_seg(LeaveState(r, d), d) EXCEPT
             !.Token_alive = FALSE, !.Membership = {d},
             !.Last_token = [@ EXCEPT !.arq = 0, !.retrans = 0, !.seq = 0, !.aru = 0]],
          {"token_loss", "join", "form_or_fail", "hurry", "lookup"})

-----------------------------------------------------------------------------
(* The form1 token. It carries the members (the first n have filled it in),*)
(* the representatives (the first ri have), and for each old ring the      *)
(* highest aru and packet, the packets nobody has, and two sets: those     *)
(* that come along (trans) and those that may have promised to (commit).   *)

MyRing(r, d, holes) ==
  [id |-> r.Membership_id, trans_time |-> 0, aru |-> r.Aru, high |-> r.Highest_seq,
   holes |-> holes, commit |-> {d} \cup r.Commit_set.members, trans |-> {d}]

ToForm(r, gone) ==
  Queue(Dequeue([r EXCEPT !.Token_alive = FALSE, !.State = "FORM"], gone \cup {"hurry"}), {"token_loss"})

Form1(seq, members, n, reps, ri, rings) ==
  [kind |-> "form1", seq |-> seq, members |-> members, n |-> n, reps |-> reps, ri |-> ri, rings |-> rings]
Form2(seq, members, rings) ==
  [kind |-> "form2", seq |-> seq, members |-> members, n |-> 0, id |-> None, rings |-> rings]

\* To the next pending member, else to the next representative, else all
\* are known and the form2 token goes to the first of them. A representative
\* with no members (see Added) counts one that is not there: garbage is what
\* the array holds in its place.
SendForm(r, t, garbage) ==
  LET all == Members(t.members) \cup IF t.n > Len(t.members) THEN {garbage} ELSE {}
  IN  CASE t.n < Len(t.members) -> SendToken(r, t.members[t.n + 1], t)
        [] t.n >= Len(t.members) /\ t.ri < Len(t.reps) -> SendToken(r, t.reps[t.ri + 1].proc, t)
        [] OTHER -> IF None \in all THEN Exit(r, "unknown member")
                    ELSE SendToken(r, Min(all), Form2(t.seq, Ordered(all), t.rings))

Create_form1(r, d) ==
  LET mine == IF r.F_reps[1].type = "RING" THEN Ordered(r.Membership) ELSE r.F_members
      reps == {r.F_reps[i].proc : i \in DOMAIN r.F_reps}
      memb == SelectSeq(mine, LAMBDA p : p \notin reps \/ p = d)
      srt  == Sort_reps(r.F_reps)
      ring == MyRing(r, d, Missing(r, r.My_aru + 1 .. r.Highest_seq))
      t    == Form1(r.Highest_seq + 3333, memb, 1, srt, 1, {ring})
  IN  SendForm(ToForm([r EXCEPT !.F_members = memb, !.F_reps = srt,
                                !.Potential_reps = PotentialFrom(srt, d)], {"join"}), t, None)

\* The members a representative adds: those of its segment that the token
\* does not have and that did not become representatives, or its ring.
Added(r, d, t) ==
  LET known == {t.members[i] : i \in 1 .. t.n}
      reps  == {t.reps[i].proc : i \in DOMAIN t.reps} \cup {r.F_reps[i].proc : i \in DOMAIN r.F_reps}
  IN  IF t.reps[t.ri + 1].type = "RING" THEN Ordered(r.Membership)
      ELSE SelectSeq(r.F_members, LAMBDA p : p \notin known /\ (p \notin reps \/ p = d))

\* Is the token meant for me?
Form1Mine(r, d, t) ==
  IF r.State = "GATHER" THEN t.ri < Len(t.reps) /\ t.reps[t.ri + 1].proc = d /\ t.n = Len(t.members)
  ELSE t.n < Len(t.members) /\ t.members[t.n + 1] = d

\* What I know of my ring, added to what the token says of it.
UpdateRings(r, d, t) ==
  LET old == {x \in t.rings : x.id = r.Membership_id}
  IN  (t.rings \ old) \cup
      IF old = {} THEN {MyRing(r, d, Missing(r, r.Last_discarded + 1 .. r.Highest_seq))}
      ELSE {[x EXCEPT !.aru = Max({@, r.Aru}), !.high = Max({@, r.Highest_seq}),
                      !.holes = Missing(r, @) \cup Missing(r, x.high + 1 .. r.Highest_seq),
                      !.commit = @ \cup {d} \cup r.Commit_set.members, !.trans = @ \cup {d}] : x \in old}

\* With no room for another ring the daemon takes itself out.
Fill_form1(r, d, t, garbage) ==
  IF ~Form1Mine(r, d, t) THEN r
  ELSE
    LET rep   == r.State = "GATHER"
        memb  == IF rep THEN t.members \o Added(r, d, t) ELSE t.members
        rings == UpdateRings(r, d, t)
        full  == Cardinality(rings) > Max({MAX_FORM_REPS, Cardinality(t.rings)})
        ri    == IF rep THEN t.ri + 1 ELSE t.ri
        seq   == Max({t.seq, r.Highest_seq + 3333})
        t1    == IF full THEN Form1(seq, SelectSeq(memb, LAMBDA p : p # d), t.n, t.reps, ri, t.rings)
                 ELSE Form1(seq, memb, t.n + 1, t.reps, ri, rings)
        x     == [ToForm(r, {"join", "form_or_fail", "seg"}) EXCEPT
                    !.Potential_reps = PotentialFrom(t.reps, d)]
    IN  CASE \E o \in t.rings : o.id = r.Membership_id /\ d \in o.trans -> Exit(r, "incorrect trans set")
          [] rep /\ t.reps[t.ri + 1].type = "POTENTIAL" -> Exit(r, "invalid rep type")
          [] OTHER -> SendForm(x, t1, garbage)

Memb_handle_form1(r, d, t, garbage) ==
  IF \/ r.State \in {"GATHER", "REPRESENTED"}
     \/ r.State = "OP" /\ Conf_leader(r.Membership) # d
  THEN Fill_form1(r, d, t, garbage) ELSE r

-----------------------------------------------------------------------------
(* The form2 token: the ring is known. Its first daemon gives it its       *)
(* identifier; the first of each old ring gives the transitional one.      *)

TimeStands(r) == 1
NextTime(r) == Max({1, r.Last_time_used + 1})      \* the clock stands still at 1

FirstToken(r, aru_last_id) ==
  [kind |-> "regular"] @@ [NoToken EXCEPT !.aru = r.Last_seq, !.aru_last_id = aru_last_id]

\* Packets up to the highest aru are delivered, holes are marked.
MarkHoles(r, holes) ==
  IF \E h \in holes : Exist(r, h) # 0 THEN Exit(r, "should be a hole")
  ELSE [r EXCEPT !.Packets = [s \in DOMAIN @ |->
                    IF s \in {Entry(h) : h \in holes} THEN [NoPacket EXCEPT !.exist = 3] ELSE @[s]]]
DiscardAndMark(r, holes) == Unless(r, MarkHoles(r, holes))
RecoverTo(r, d, ring) ==
  DiscardAndMark(Discard_packets([r EXCEPT !.Highest_seq = ring.high, !.Aru = ring.aru], d), ring.holes)

\* The times: that of the transitional membership, the last one used, and the
\* identifier of the ring.
TimesOf(r, d, t, ring) ==
  LET new  == t.n = 0 \/ ring.trans_time = 0
      used == CASE t.n = 0 -> NextTime(r) + 1
                [] t.n # 0 /\ new -> NextTime(r)
                [] OTHER -> r.Last_time_used
  IN  [trans |-> IF ring.trans_time = 0 THEN NextTime(r) ELSE ring.trans_time,
       used |-> used, id |-> IF t.n = 0 THEN MembId(d, used) ELSE t.id]

\* Enters EVS and passes the token on; the last daemon makes it a regular one.
\* garbage: what the field aru_last_id of the form token happens to hold.
EnterEvs(r, d, t, garbage, ring, time) ==
  LET S == Members(t.members)
      y == [r EXCEPT !.Future_commit_set = [members |-> ring.commit, trans |-> ring.trans],
                     !.Token_alive = TRUE, !.State = "EVS",
                     !.Token_rounds = IF Conf_last(S) = d THEN 1 ELSE 0,
                     !.Last_token = [@ EXCEPT !.arq = 0, !.retrans = 0, !.seq = 0, !.aru = 0],
                     !.timers = @ \cup {"token_loss"}]
  IN  SendToken(y, Net_set_membership(S, d),
                IF Conf_last(S) = d THEN FirstToken(r, garbage)
                ELSE [t EXCEPT !.n = @ + 1, !.id = time.id,
                               !.rings = (@ \ {ring}) \cup {[ring EXCEPT !.trans_time = time.trans]}])

RecoverAndEnter(r, d, t, garbage, ring, time) == Unless(r, EnterEvs(r, d, t, garbage, ring, time))

ReadRing(r, d, t, garbage, ring, time) ==
  RecoverAndEnter(RecoverTo([r EXCEPT !.Last_seq = t.seq, !.Last_time_used = time.used,
                                      !.Future_membership = Members(t.members),
                                      !.Future_membership_id = time.id,
                                      !.Last_num_retrans = 0, !.Last_num_sent = 0], d, ring),
                  d, t, garbage, ring, time)

Read_form2(r, d, t, garbage) ==
  LET mine == {x \in t.rings : x.id = r.Membership_id}
      ring == CHOOSE x \in mine : TRUE
  IN  CASE t.n >= Len(t.members) \/ t.members[t.n + 1] # d -> r
        [] t.n < Len(t.members) /\ t.members[t.n + 1] = d /\ mine = {} -> Exit(r, "my ring is not in the token")
        [] OTHER -> ReadRing(r, d, t, garbage, ring, TimesOf(r, d, t, ring))

Memb_handle_form2(r, d, t, garbage) == IF r.State = "FORM" THEN Read_form2(r, d, t, garbage) ELSE r

-----------------------------------------------------------------------------
(* Messages: alive within a segment, join and refer between representatives.*)

Alive(d) == [kind |-> "alive", from |-> d]
Join(d, reps) == [kind |-> "join", from |-> d, reps |-> reps]
Refer(d, rep) == [kind |-> "refer", from |-> d, rep |-> rep]

\* Called by its timer (and then queued again) or in answer to a join.
Scast_alive(r, d) == SendControl(r, Net_scast(Seg[d], d), Alive(d))

Send_join(r, d) ==
  Queue(SendControl(r, (IF r.Token_alive THEN {} ELSE Net_scast(Seg[d], d))
                       \cup {r.Potential_reps[i].proc : i \in DOMAIN r.Potential_reps},
                    Join(d, r.F_reps)), {"join"})

\* With one segment it cannot be told who is missing.
Memb_lookup_new_members(r, d) ==
  LET x  == [r EXCEPT !.Potential_reps = <<>>, !.F_reps = <<Rep(d, "RING")>>, !.F_members = <<>>]
      to == IF Conf_num_segments = 1 THEN Net_scast(Seg[d], d) ELSE Daemon \ r.Reg_membership
      y  == SendControl(x, to, Join(d, x.F_reps))
  IN  IF r.State # "OP" THEN r
      ELSE IF Conf_num_segments > 1 /\ to = {} THEN y ELSE Shift_to_gather(y, d)

Form_or_fail(r, d) ==
  LET back == Queue(Dequeue([r EXCEPT !.State = "OP"], {"join"}), {"lookup"})
      won  == Smallest_rep(r.F_reps) = d
  IN  CASE won /\ ~(r.Token_alive /\ Len(r.F_reps) = 1) -> Create_form1(r, d)
        [] ~won /\ ~r.Token_alive ->
             Shift_to_gather([r EXCEPT !.F_members = <<d>>,
                                       !.Potential_reps = Insert_reps(<<>>, Tail(r.F_reps))], d)
        [] OTHER -> back

\* My ring lost its token, and p is there.
LostWith(r, d, p) ==
  LET x == Memb_token_loss(r, d) IN [x EXCEPT !.F_members = Insert_member(@, p)]

Memb_handle_alive(r, d, p) ==
  CASE r.State = "OP" /\ p \in r.Membership -> LostWith(r, d, p)
    [] r.State = "SEG" -> [r EXCEPT !.F_members = Insert_member(@, p)]
    [] r.State = "REPRESENTED" -> Queue(r, {"seg"})
    [] r.State = "GATHER" /\ ~r.Token_alive -> [r EXCEPT !.F_members = Insert_member(@, p)]
    [] r.State = "GATHER" /\ r.Token_alive /\ p \in r.Membership -> LostWith(r, d, p)
    [] r.State = "EVS" /\ p \in r.Future_membership -> LostWith(r, d, p)
    [] OTHER -> r

\* The ring of a daemon that asks for others: its leader gathers, another
\* one refers to it, if it is from elsewhere or I am the first of my segment.
JoinInOp(r, d, m) ==
  CASE m.from \in r.Membership -> IF Conf_num_segments > 1 THEN Memb_token_loss(r, d) ELSE r
    [] m.from \notin r.Membership /\ Conf_leader(r.Membership) = d ->
         Shift_to_gather([r EXCEPT !.Potential_reps = <<m.reps[1]>>, !.F_members = <<>>], d)
    [] OTHER -> IF Seg[m.reps[1].proc] # Seg[d] \/ Conf_seg_leader(r.Membership, Seg[d]) = d
                THEN SendControl(r, {m.from}, Refer(d, Rep(Conf_leader(r.Membership), "RING"))) ELSE r

JoinInGather(r, d, m) ==
  LET freps == Insert_rep(r.F_reps, m.reps[1])
      x     == [r EXCEPT !.F_reps = freps, !.Potential_reps = Insert_reps(@, m.reps)]
  IN  IF Smallest_rep(freps) = m.reps[1].proc THEN Queue(x, {"form_or_fail"}) ELSE x

Memb_handle_join(r, d, m) ==
  LET mine == Seg[m.from] = Seg[d] /\ m.reps[1].type = "SEG"     \* it represents me
  IN  CASE r.State = "OP" -> JoinInOp(r, d, m)
        [] r.State = "SEG" /\ mine -> Scast_alive(Shift_to_represented([r EXCEPT !.My_seg_rep = m.from]), d)
        [] r.State = "REPRESENTED" /\ mine -> Scast_alive(Queue([r EXCEPT !.My_seg_rep = m.from], {"seg"}), d)
        [] r.State = "REPRESENTED" /\ ~mine /\ r.My_seg_rep # None ->
             SendControl(r, {m.from}, Refer(d, Rep(r.My_seg_rep, "SEG")))
        [] r.State = "GATHER" -> JoinInGather(r, d, m)
        [] r.State = "EVS" /\ m.from \in r.Future_membership -> LostWith(r, d, m.from)
        [] OTHER -> r

Memb_handle_refer(r, m) ==
  IF r.State = "GATHER" THEN [r EXCEPT !.Potential_reps = Insert_rep(@, m.rep)] ELSE r

\* A packet of another ring: the leader looks for new members, the first of a
\* segment tells it once.
Memb_handle_foreign(r, d, p) ==
  CASE r.State = "OP" /\ Conf_leader(r.Membership) = d -> Memb_lookup_new_members(r, d)
    [] r.State = "OP" /\ Conf_leader(r.Membership) # d /\ Conf_seg_leader(r.Membership, Seg[d]) = d
       /\ ~r.Foreign_found ->
         [r EXCEPT !.Foreign_found = TRUE, !.out.packets = @ \cup {<<Conf_leader(r.Membership), p>>}]
    [] OTHER -> r

Memb_init(r, d) ==
  Memb_token_loss([r EXCEPT !.State = "OP", !.Membership = {d}, !.Membership_id = MembId(d, -1),
                            !.Reg_membership = {d}], d)

=============================================================================
