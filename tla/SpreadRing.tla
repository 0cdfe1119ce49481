----------------------------- MODULE SpreadRing -----------------------------
(***************************************************************************)
(* The ring of Spread daemons: the token protocol (daemon/protocol.c) with *)
(* its flow control (daemon/flow_control.c) over the membership algorithm  *)
(* of SpreadMembership.                                                    *)
(*                                                                         *)
(* The network loses, delays and reorders: nothing sent has to arrive.     *)
(* One token is on its way to a daemon, and one control message to any of  *)
(* them; a new one takes the place of the old one. Packets stay on their   *)
(* way until they arrive. Timers run out at any time.                      *)
(***************************************************************************)
EXTENDS SpreadMembership

CONSTANTS Up,               \* the daemons that run
          Load,             \* Load[d]: the messages the clients of d send, in order
          ARQ,              \* the number of arq values, 16 in the code
          Window, Personal_window, MAX_SEQ_GAP, MAX_EVS_ROUNDS,
          MaxForms,         \* bound: form1 tokens created
          MaxFaults,        \* bound: tokens lost, given up, attempts begun anew
          MaxRetrans,       \* bound: times the leader sends a token again
          Delays,           \* may a membership message be overtaken?
          Garbage,          \* what an uninitialised daemon number can be
          Starts,           \* the initial situations: of "boot", "formed", "broken"
          Sent,             \* the packets sent on the broken ring, in order
          Held              \* the numbers of those each daemon has, in each initial state

VARIABLES dm,        \* dm[d]: the state of daemon d
          token,     \* token[d]: the token on its way to d, or None
          packets,   \* packets[d]: the packets on their way to d
          control,   \* a daemon and the membership message on its way to it, or None
          forms,     \* number of form1 tokens created
          faults     \* tokens lost, given up by the timer, and attempts begun anew

vars == <<dm, token, packets, control, forms, faults>>

-----------------------------------------------------------------------------
(* Flow control.                                                           *)

FC_allowed(r, flow_control) ==
  IF r.State = "EVS" \/ r.Highest_seq > r.Aru + MAX_SEQ_GAP THEN 0
  ELSE Min({Max({0, Window + Personal_window - flow_control}), Window, Personal_window})

-----------------------------------------------------------------------------
(* Requests for packets, carried by the token: per ring the requester (or  *)
(* None for several), its segment (or None) and the sequence numbers.      *)

Memb_active_ptr(r) == IF r.State = "EVS" THEN r.Future_membership ELSE r.Membership

Destination(r, d, q) ==
  CASE q.proc # None -> {q.proc}
    [] q.proc = None /\ q.seg # None -> Net_scast(q.seg, d)
    [] OTHER -> Net_bcast(r.Future_membership, d)

\* The requests of my ring are answered with what I have; the others stay.
\* If I miss some of it too, the next answer is for all of us. A hole has no
\* header: reading it is undefined, here the end of the daemon.
Answer_retrans(r, d, t) ==
  LET mine == SelectSeq(t.rtr, LAMBDA q : q.memb_id = r.Membership_id)
      lack == {i \in DOMAIN mine : Missing(r, mine[i].seqs) # {}}
      have == UNION {{<<mine[i], s>> : s \in mine[i].seqs \ Missing(r, mine[i].seqs)} : i \in DOMAIN mine}
      sent == UNION {{<<to, Pack(r, h[2])>> : to \in Destination(r, d, h[1])} : h \in have}
  IN  [r    |-> CASE \E i \in DOMAIN mine : \E s \in mine[i].seqs : s < r.Aru -> Exit(r, "request below aru")
                  [] \E h \in have : Exist(r, h[2]) = 3 -> Exit(r, "request for a hole")
                  [] OTHER -> [r EXCEPT !.out.packets = @ \cup sent],
       rtr  |-> SelectSeq(t.rtr, LAMBDA q : q.memb_id # r.Membership_id),
       num  |-> Cardinality(have),
       proc |-> IF lack = {} THEN d ELSE None,
       seg  |-> IF \E i \in lack : mine[i].seg # Seg[d] THEN None ELSE Seg[d]]

\* One packet of the first message of the down queue.
SendPacket(r, d) ==
  LET m    == r.down[1]
      part == r.cur_element + 1
      seq  == r.Highest_seq + 1
      p    == [memb_id |-> r.Membership_id, seq |-> seq, msg |-> m, part |-> part]
      x    == [r EXCEPT !.Highest_seq = seq,
                        !.cur_element = IF part = Parts[m] THEN 0 ELSE part,
                        !.down = IF part = Parts[m] THEN Tail(@) ELSE @,
                        !.Packets[Entry(seq)] = [exist |-> 1, pack |-> p],
                        !.out.packets = @ \cup {<<to, p>> : to \in Net_bcast(r.Future_membership, d)}]
  IN  IF Exist(r, seq) # 0 THEN Exit(r, "created packet already exists") ELSE x

\* A packet fills a datagram, which leaves when the next one is queued: what is
\* counted lags by one, so one packet more is sent than allowed.
Send_new_packets(r, d, allowed) ==
  FoldLeft(LAMBDA x, i : IF x.down = <<>> THEN x ELSE SendPacket(x, d), r,
           Upto(1, IF allowed = 0 THEN 0 ELSE allowed + 1))

\* The aru of the token is lowered by a daemon that misses packets, and
\* raised again by the one that lowered it.
NeverRaised(r, d, t) ==
  IF t.aru > r.My_aru THEN [aru |-> r.My_aru, aru_last_id |-> d, set |-> r.My_aru]
  ELSE [aru |-> t.aru, aru_last_id |-> t.aru_last_id, set |-> -1]
TokenAru(r, d, t) ==
  CASE t.aru = r.Set_aru \/ t.aru_last_id = d \/ t.aru = t.seq ->
         [aru |-> r.My_aru, aru_last_id |-> d, set |-> IF r.My_aru < r.Highest_seq THEN r.My_aru ELSE -1]
    [] ~(t.aru = r.Set_aru \/ t.aru_last_id = d \/ t.aru = t.seq) /\ t.aru > r.My_aru ->
         [aru |-> r.My_aru, aru_last_id |-> d, set |-> r.My_aru]
    [] OTHER -> [aru |-> t.aru, aru_last_id |-> t.aru_last_id, set |-> -1]

\* The token rests with the leader when nothing has happened for two rounds.
To_hold_token(r) ==
  /\ r.State = "OP" \/ (r.State = "GATHER" /\ r.Token_alive)
  /\ r.Last_token.retrans <= 1 /\ r.Aru = r.Highest_seq /\ r.Token_counter > 1

\* The token is sent again; the leader counts.
Prot_token_hurry(r, d) ==
  LET lead == Conf_leader(Memb_active_ptr(r)) = d
      t    == [r.Last_token EXCEPT !.retrans = IF lead THEN @ + 1 ELSE @]
      x    == [r EXCEPT !.Last_token = t]
  IN  SendToken(IF lead THEN Queue(x, {"hurry"}) ELSE x,
                Net_set_membership(r.Future_membership, d), [kind |-> "regular"] @@ t)

Handle_hurry(r, d, p) ==
  IF Conf_leader(Memb_active_ptr(r)) = d /\ To_hold_token(r) /\ p \in Memb_active_ptr(r)
  THEN Prot_token_hurry(r, d) ELSE r

\* Up to the first packet that is not there.
Advance(r) == [r EXCEPT !.My_aru = Min(Missing(r, @ + 1 .. r.Highest_seq) \cup
                                       {Max({@, r.Highest_seq}) + 1}) - 1]

\* In EVS nothing is missing any more: the set of those that come along is
\* settled, and the aru says so.
CommitInEvs(r) ==
  IF r.State = "EVS" /\ r.My_aru = r.Highest_seq THEN Memb_commit([r EXCEPT !.My_aru = r.Last_seq]) ELSE r

MyRequest(r, a) ==
  IF r.My_aru < r.Highest_seq
  THEN <<[memb_id |-> r.Membership_id, proc |-> a.proc, seg |-> a.seg,
          seqs |-> Missing(r, r.My_aru + 1 .. r.Highest_seq)]>>
  ELSE <<>>

\* The token as it is passed on: a is the answer to the requests, new the
\* number of packets sent, ta the aru, req what is requested now.
NextToken(r, d, t, a, new, ta, req) ==
  LET lead == Conf_leader(Memb_active_ptr(r)) = d
  IN  [arq |-> IF lead THEN (t.arq + 1) % ARQ ELSE t.arq,
       retrans |-> IF lead THEN 0 ELSE t.retrans,
       seq |-> IF r.State = "EVS" THEN t.seq ELSE r.Highest_seq,
       aru |-> ta.aru, aru_last_id |-> ta.aru_last_id,
       flow_control |-> t.flow_control - r.Last_num_retrans - r.Last_num_sent + a.num + new,
       rtr |-> a.rtr \o req]

\* The leader may hold it.
Forward(r, d, t1) ==
  IF Conf_leader(Memb_active_ptr(r)) = d /\ To_hold_token(r) THEN r
  ELSE SendToken(r, Net_set_membership(r.Future_membership, d), [kind |-> "regular"] @@ t1)

\* The aru is the lowest one of the last two tokens.
KeepToken(r, d, t1, aru) ==
  Queue([r EXCEPT !.Aru = aru, !.Last_token = [t1 EXCEPT !.rtr = <<>>],
                  !.Token_counter = IF r.Highest_seq = aru THEN Min({@ + 1, 2}) ELSE 0],
        {"token_loss"} \cup IF Conf_leader(Memb_active_ptr(r)) = d THEN {"hurry"} ELSE {})

PassNext(r, d, a, new, set, t1) ==
  KeepToken(Forward([r EXCEPT !.Set_aru = set, !.Last_num_retrans = a.num, !.Last_num_sent = new,
                              !.Token_rounds = IF r.State = "EVS" THEN @ + 1 ELSE 0], d, t1),
            d, t1, Min({t1.aru, r.Last_token.aru}))

PassWith(r, d, t, a, new, ta, req) ==
  PassNext(r, d, a, new, ta.set, NextToken(r, d, t, a, new, ta, req))

PassAdvanced(r, d, t, a, new, req) == PassWith(r, d, t, a, new, TokenAru(r, d, t), req)

PassToken(r, d, t, a, new) ==
  PassAdvanced(CommitInEvs(Advance(r)), d, t, a, new, MyRequest(Advance(r), a))

GiveUp(r, d) ==
  IF r.exit = None /\ r.State = "EVS" /\ r.Token_rounds > MAX_EVS_ROUNDS THEN Memb_token_loss(r, d) ELSE r
DeliverSingles(r, new) == Unless(r, Deliver_reliable_packets(r, r.Highest_seq - new + 1, new))
DeliverAgreed(r) == Unless(r, Deliver_agreed_packets(r))

\* Delivery with the new aru; a membership that does not settle is given up.
AfterToken(r, d, new) == GiveUp(DeliverSingles(DeliverAgreed(Discard_packets(r, d)), new), d)

SendAndPass(r, d, t, a) ==
  LET new == r.Highest_seq - a.r.Highest_seq
  IN  Unless(r, AfterToken(PassToken(r, d, t, a, new), d, new))
AnswerAndSend(d, t, a) ==
  Unless(a.r, SendAndPass(Send_new_packets(a.r, d, FC_allowed(a.r, t.flow_control)), d, t, a))
TakeToken(r, d, t) ==
  AnswerAndSend(d, t, Answer_retrans([r EXCEPT !.Highest_seq = Max({@, t.seq})], d, t))

\* A regular token: the leader takes the one it sent round, another daemon
\* the next one; the same one, sent again, it sends again too.
TakeAnyToken(r, d, t) == IF r.Token_alive THEN TakeToken(r, d, t) ELSE r
HandleRegular(r, d, t) ==
  LET lead == Conf_leader(Memb_active_ptr(r)) = d
      last == r.Last_token
  IN  CASE ~r.Token_alive -> r
        [] r.Token_alive /\ lead -> IF t.arq = last.arq THEN TakeToken(r, d, t) ELSE r
        [] r.Token_alive /\ ~lead /\ t.arq = last.arq ->
             IF t.retrans > last.retrans
             THEN Prot_token_hurry([r EXCEPT !.Last_token.retrans = t.retrans], d) ELSE r
        [] OTHER -> IF t.arq = (last.arq + 1) % ARQ THEN TakeToken(r, d, t) ELSE r

Prot_handle_token(r, d, t, garbage) ==
  CASE t.kind = "regular" -> HandleRegular(r, d, t)
    [] t.kind = "form1" -> Memb_handle_form1(r, d, t, garbage)
    [] t.kind = "form2" -> Memb_handle_form2(r, d, t, garbage)

-----------------------------------------------------------------------------
(* Packets and messages.                                                   *)

StorePacket(r, p) ==
  LET x == [r EXCEPT !.Packets[Entry(p.seq)] = [exist |-> 1, pack |-> p],
                     !.Highest_seq = Max({@, p.seq})]
  IN  IF p.seq <= r.Aru \/ Exist(r, p.seq) # 0 THEN r
      ELSE IF p.seq = r.My_aru + 1 THEN Deliver_agreed_packets(Advance(x))
      ELSE Deliver_reliable_packets(x, p.seq, 1)

Prot_handle_bcast(r, d, p) ==
  IF p.memb_id # r.Membership_id THEN Memb_handle_foreign(r, d, p)
  ELSE StorePacket(IF r.Token_alive
                   THEN Queue(r, {"token_loss"} \cup
                                 IF Conf_leader(Memb_active_ptr(r)) = d THEN {"hurry"} ELSE {})
                   ELSE r, p)

Memb_handle_message(r, d, m) ==
  CASE m.kind = "alive" -> Memb_handle_alive(r, d, m.from)
    [] m.kind = "join" -> Memb_handle_join(r, d, m)
    [] m.kind = "refer" -> Memb_handle_refer(r, m)
    [] m.kind = "hurry" -> Handle_hurry(r, d, m.from)

Prot_new_message(r, d, m) ==
  LET x == [r EXCEPT !.down = Append(@, m), !.given = @ + 1]
      l == Conf_leader(Memb_active_ptr(r))
  IN  IF r.down # <<>> \/ ~To_hold_token(r) THEN x
      ELSE IF l = d THEN Handle_hurry(x, d, d)
      ELSE SendControl(x, {l}, [kind |-> "hurry", from |-> d])

-----------------------------------------------------------------------------
(* Initial states.                                                         *)

NoOutput == [token |-> None, packets |-> {}, control |-> {}]

Prot_init(d) ==
  Memb_init([State |-> "OP", Token_alive |-> FALSE, Membership |-> {d}, Membership_id |-> MembId(d, -1),
             Reg_membership |-> {d}, Future_membership |-> {d}, Future_membership_id |-> MembId(d, -1),
             Last_time_used |-> -1, Transitional |-> FALSE, Foreign_found |-> FALSE,
             My_seg_rep |-> None, F_members |-> <<>>, F_reps |-> <<>>, Potential_reps |-> <<>>,
             Commit_set |-> [members |-> {}, trans |-> {}],
             Future_commit_set |-> [members |-> {}, trans |-> {}], timers |-> {},
             Packets |-> [s \in 0 .. SLOTS - 1 |-> NoPacket], Highest_seq |-> 0, My_aru |-> 0, Aru |-> 0,
             Set_aru |-> -1, Last_seq |-> 0, Last_token |-> NoToken, Last_discarded |-> 0,
             Last_delivered |-> 0, Token_rounds |-> 0, Token_counter |-> 0, Last_num_retrans |-> 0,
             Last_num_sent |-> 0, down |-> <<>>, cur_element |-> 0, given |-> 0,
             up |-> [s \in Daemon |-> 0], view |-> <<>>, safe |-> {}, views |-> <<>>,
             exit |-> None, out |-> NoOutput], d)

\* A daemon of a ring of the daemons S that was just installed.
OnRing(d, S) ==
  [Prot_init(d) EXCEPT
     !.State = "OP", !.Token_alive = TRUE,
     !.Membership = S, !.Reg_membership = S, !.Future_membership = S,
     !.Membership_id = MembId(Conf_leader(S), 2), !.Future_membership_id = MembId(Conf_leader(S), 2),
     !.Last_time_used = 2, !.Commit_set = [members |-> {d}, trans |-> {d}],
     !.timers = {"token_loss"} \cup IF d = Conf_leader(S) THEN {"lookup", "hurry"} ELSE {}]

\* The daemons start; this once without faults.
InitBoot ==
  /\ dm = [d \in Up |-> Prot_init(d)]
  /\ token = [d \in Up |-> None] /\ packets = [d \in Up |-> {}] /\ faults = MaxFaults

\* They are on a ring, the token on its way to the leader. Only the clients of
\* the daemons busy send; faults come only where one daemon is busy.
InitFormed ==
  /\ \E busy \in SUBSET {d \in Up : Load[d] # <<>>} \ {{}} :
       /\ dm = [d \in Up |-> [OnRing(d, Up) EXCEPT !.given = IF d \in busy THEN 0 ELSE Len(Load[d])]]
       /\ faults = IF Cardinality(busy) > 1 THEN MaxFaults ELSE 0
  /\ token = [d \in Up |-> IF d = Conf_leader(Up)
                           THEN [kind |-> "regular"] @@ [NoToken EXCEPT !.aru_last_id = d] ELSE None]
  /\ packets = [d \in Up |-> {}]

\* They were on a ring of all the daemons, whose packets Sent reached some of
\* them; the others are gone, and the token is lost.
Holding(d, H) ==
  LET r == [OnRing(d, Daemon) EXCEPT
              !.Packets = [s \in DOMAIN @ |->
                             IF \E p \in H : Entry(p.seq) = s
                             THEN [exist |-> 1, pack |-> CHOOSE p \in H : Entry(p.seq) = s]
                             ELSE NoPacket],
              !.Highest_seq = Max({0} \cup {p.seq : p \in H}),
              !.given = Len(Load[d])]
      x == Deliver_agreed_packets(Advance(r))
  IN  Memb_token_loss(x, d)

InitBroken ==
  LET sent == {[memb_id |-> MembId(Conf_leader(Daemon), 2), seq |-> i, msg |-> Sent[i].msg, part |-> Sent[i].part]
               : i \in DOMAIN Sent}
  IN  /\ \E H \in Held : dm = [d \in Up |-> Holding(d, {p \in sent : p.seq \in H[d]})]
      /\ token = [d \in Up |-> None] /\ packets = [d \in Up |-> {}] /\ faults = 0

Init ==
  /\ \/ "boot" \in Starts /\ InitBoot
     \/ "formed" \in Starts /\ InitFormed
     \/ "broken" \in Starts /\ InitBroken
  /\ control = None /\ forms = 0

-----------------------------------------------------------------------------
(* Steps. What a daemon sends is put on its way; a daemon that has ended   *)
(* does nothing any more.                                                  *)

Running(d) == dm[d].exit = None

Become(d, r, inbox) ==
  /\ dm' = [dm EXCEPT ![d] = IF r.exit = None THEN [r EXCEPT !.out = NoOutput] ELSE r]
  /\ token' = IF r.out.token # None /\ r.out.token[1] \in Up
              THEN [inbox.token EXCEPT ![r.out.token[1]] = r.out.token[2]] ELSE inbox.token
  /\ packets' = [e \in Up |-> inbox.packets[e] \cup {x[2] : x \in {y \in r.out.packets : y[1] = e}}]
  /\ IF \E x \in r.out.control : x[1] \in Up
     THEN \E x \in r.out.control : x[1] \in Up /\ control' = x
     ELSE control' = inbox.control

Inbox == [token |-> token, packets |-> packets, control |-> control]

\* Nothing overtakes a membership message, unless they are delayed.
Quiet == Delays \/ control = None

\* Form tokens and tokens sent again are sent twice or three times.
RecvToken(d) ==
  /\ Quiet /\ Running(d) /\ token[d] # None
  /\ \E again \in IF token[d].kind = "regular" THEN {token[d].retrans > 1} ELSE BOOLEAN,
        garbage \in IF token[d].kind = "regular" THEN {None} ELSE Garbage :
       Become(d, Prot_handle_token(dm[d], d, token[d], garbage),
              IF again THEN Inbox ELSE [Inbox EXCEPT !.token[d] = None])
  /\ UNCHANGED <<forms, faults>>

RecvPacket(d) ==
  /\ Quiet /\ Running(d)
  /\ \E p \in packets[d] : Become(d, Prot_handle_bcast(dm[d], d, p), [Inbox EXCEPT !.packets[d] = @ \ {p}])
  /\ UNCHANGED <<forms, faults>>

RecvControl(d) ==
  /\ Running(d) /\ control # None /\ control[1] = d
  /\ Become(d, Memb_handle_message(dm[d], d, control[2]), [Inbox EXCEPT !.control = None])
  /\ UNCHANGED <<forms, faults>>

ClientSends(d) ==
  /\ Quiet /\ Running(d) /\ dm[d].given < Len(Load[d])
  /\ Become(d, Prot_new_message(dm[d], d, Load[d][dm[d].given + 1]), Inbox)
  /\ UNCHANGED <<forms, faults>>

\* A timer runs out; it is dequeued before its function runs. With no form
\* tokens the membership does not change.
Fire(d, name, r) == Quiet /\ Running(d) /\ name \in dm[d].timers /\ Become(d, r, Inbox)
Spent(d, name) == Dequeue(dm[d], {name})
Fault == faults < MaxFaults /\ faults' = faults + 1 /\ UNCHANGED forms

TokenLoss(d) == MaxForms > 0 /\ Fault /\ Fire(d, "token_loss", Memb_token_loss(Spent(d, "token_loss"), d))
RepTimeout(d) == MaxForms > 0 /\ Fault /\ Fire(d, "seg", Shift_to_seg(Spent(d, "seg"), d))
Lookup(d) == MaxForms > 0 /\ Fault /\ Fire(d, "lookup", Memb_lookup_new_members(Spent(d, "lookup"), d))

\* A token that is only late counts as a fault, like one that is lost.
TokenHurry(d) ==
  /\ dm[d].Last_token.retrans < MaxRetrans
  /\ token[Net_set_membership(dm[d].Future_membership, d)] = None
  /\ Fire(d, "hurry", Prot_token_hurry(Spent(d, "hurry"), d))
  /\ IF \E e \in Up : token[e] # None THEN Fault ELSE UNCHANGED <<forms, faults>>

\* A token that is not sent again is as good as lost while it is on its way.
LoseToken(d) ==
  /\ Fault /\ Quiet /\ MaxRetrans > 0 /\ token[d] # None /\ token' = [token EXCEPT ![d] = None]
  /\ UNCHANGED <<dm, packets, control>>

LoseControl == control # None /\ control' = None /\ UNCHANGED <<dm, token, packets, forms, faults>>

SegTimeout(d) ==
  /\ Fire(d, "gather_or_represented", Gather_or_represented(Spent(d, "gather_or_represented"), d))
  /\ UNCHANGED <<forms, faults>>

\* A message on its way is not overtaken by the next one of its kind.
SendAlive(d) == control = None /\ Fire(d, "alive", Scast_alive(dm[d], d)) /\ UNCHANGED <<forms, faults>>
SendJoin(d) == control = None /\ Fire(d, "join", Send_join(dm[d], d)) /\ UNCHANGED <<forms, faults>>

GatherTimeout(d) ==
  /\ "form_or_fail" \in dm[d].timers
  /\ \E r \in {Form_or_fail(Spent(d, "form_or_fail"), d)} :
       /\ Fire(d, "form_or_fail", r)
       /\ IF r.State = "FORM" THEN forms < MaxForms /\ forms' = forms + 1 /\ UNCHANGED faults ELSE Fault

Next ==
  \/ LoseControl
  \/ \E d \in Up :
       \/ RecvToken(d) \/ RecvPacket(d) \/ RecvControl(d) \/ ClientSends(d)
       \/ TokenLoss(d) \/ LoseToken(d) \/ TokenHurry(d) \/ SendAlive(d) \/ SegTimeout(d) \/ RepTimeout(d)
       \/ SendJoin(d) \/ GatherTimeout(d) \/ Lookup(d)

Spec == Init /\ [][Next]_vars

\* Daemons go on and the network does not hold anything back for ever: what is
\* on its way arrives. The timer of a leader that waits for the token runs out.
HurryDue(d) == /\ Running(d) /\ "hurry" \in dm[d].timers /\ dm[d].Last_token.retrans < MaxRetrans
               /\ \A e \in Up : token[e] = None
Fairness ==
  /\ WF_control(control # None /\ control' = None)
  /\ \A d \in Up : []<>(token[d] = None) /\ []<>(packets[d] = {}) /\ []<>~HurryDue(d)
FairSpec == Spec /\ Fairness

-----------------------------------------------------------------------------
(* Properties.                                                             *)

\* The rings a daemon has been on, with what it delivered there; the last one
\* is the one it is on.
Views(d) == Range(dm[d].views)
Logs(d) == {[ring |-> v.ring, msgs |-> v.msgs] : v \in Views(d)}
           \cup {[ring |-> dm[d].Membership_id, msgs |-> dm[d].view]}

\* A packet of a ring has one sequence number and the other way round: two
\* daemons never send at the same time, even when the token is sent again
\* because it was only late (protocol.c, Prot_handle_token).
SeqUnique ==
  LET held == UNION {{Pack(dm[d], i) : i \in {j \in 0 .. SLOTS - 1 : Exist(dm[d], j) \in {1, 2}}} : d \in Up}
      all  == held \cup UNION {packets[d] : d \in Up}
  IN  \A p, q \in all : p.memb_id = q.memb_id => (p.seq = q.seq <=> (p.msg = q.msg /\ p.part = q.part))

Has(r, m) ==
  \/ m \in Range(r.view)
  \/ \A part \in 1 .. Parts[m] : \E i \in 0 .. SLOTS - 1 :
       Exist(r, i) \in {1, 2} /\ Pack(r, i).msg = m /\ Pack(r, i).part = part

\* A safe message that was delivered as such on a ring is there at every daemon
\* of the ring: it holds it, or delivered it before it went to another ring
\* (protocol.c, the token's aru; Discard_packets).
SafeIsStable ==
  \A d, e \in Up :
    /\ (dm[e].Membership_id = dm[d].Membership_id /\ dm[e].exit = None)
         => \A m \in dm[d].safe : Has(dm[e], m)
    /\ \A v \in Views(d) : (dm[e].Membership_id = v.ring /\ dm[e].exit = None) => \A m \in v.safe : Has(dm[e], m)
    /\ \A w \in Views(e) : /\ dm[d].Membership_id = w.ring => dm[d].safe \subseteq Range(w.msgs)
                           /\ \A v \in Views(d) : v.ring = w.ring => v.safe \subseteq Range(w.msgs)

\* Two messages that are more than reliable are delivered in the same order by
\* all who deliver both on a ring, whatever each had delivered or missed when the
\* ring broke, before and behind a lost packet (Discard_packets).
AgreedOrder ==
  \A d, e \in Up : \A v \in Logs(d), w \in Logs(e) :
    v.ring = w.ring =>
      \A i, j \in DOMAIN v.msgs, k, l \in DOMAIN w.msgs :
        (/\ i < j /\ v.msgs[i] = w.msgs[k] /\ v.msgs[j] = w.msgs[l]
         /\ Service[v.msgs[i]] # "reliable" /\ Service[v.msgs[j]] # "reliable") => k < l

\* Daemons that go together from one ring to the next have delivered the same
\* messages before, also those one of them had missed and those after a packet
\* that is lost to both (membership.c, the rings in the form tokens).
VirtualSynchrony ==
  \A d, e \in Up : \A v \in Views(d), w \in Views(e) :
    (v.ring = w.ring /\ v.next = w.next) => Range(v.msgs) = Range(w.msgs)

\* Daemons that install a ring of the same identifier have the same members,
\* also when an attempt before failed half way (membership.c, Read_form2).
SameMembership ==
  \A d, e \in Up : \A v \in Views(d), w \in Views(e) : v.next = w.next => v.procs = w.procs

\* What a client sends is delivered by every daemon of the ring in the end,
\* though packets come late, a token is lost and the leader holds the token
\* while nothing is sent (protocol.c, To_hold_token and Handle_hurry).
AllDeliver ==
  \A d \in Up : \A m \in Range(Load[d]) :
    m \in Range(dm[d].down) ~> \A e \in Up : m \in Range(dm[e].view)

=============================================================================
