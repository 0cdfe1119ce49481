--------------------------- MODULE SpreadDelivery ---------------------------
(***************************************************************************)
(* The packets of a Spread daemon and their delivery (daemon/protocol.c),  *)
(* with the addresses of the network (daemon/network.c) and the installing *)
(* of a membership (daemon/membership.c). A daemon's state is a record; an *)
(* operator takes the record before a routine and gives the one after it.  *)
(*                                                                         *)
(* Daemons are numbers in the order of the configuration file, so that a   *)
(* configuration is a set and its first and last daemon are the least and  *)
(* the greatest. What a packet carries is the message it is a part of.     *)
(***************************************************************************)
EXTENDS Integers, FiniteSets, Sequences, SequencesExt, FiniteSetsExt, TLC

CONSTANTS Daemon,     \* the configured daemons
          Seg,        \* Seg[d]: the segment of daemon d
          Msg,        \* messages
          Sender,     \* Sender[m]: the daemon whose client sends m
          Service,    \* Service[m]: "reliable", "agreed" or "safe"
          Parts,      \* Parts[m]: the number of packets m takes
          SLOTS,      \* MAX_PACKETS_IN_STRUCT
          None

ASSUME DeliveryAssumption ==
  /\ IsFiniteSet(Daemon) /\ Daemon \subseteq Nat /\ Daemon # {} /\ None \notin Daemon
  /\ Seg \in [Daemon -> Nat] /\ \A d, e \in Daemon : d < e => Seg[d] <= Seg[e]
  /\ Sender \in [Msg -> Daemon] /\ Parts \in [Msg -> Nat \ {0}]
  /\ Service \in [Msg -> {"reliable", "agreed", "safe"}]
  /\ SLOTS \in Nat \ {0}

-----------------------------------------------------------------------------
(* The configuration and the addresses of the network.                     *)

Conf_leader(S) == Min(S)
Conf_last(S) == Max(S)
Segments == {Seg[d] : d \in Daemon}
Conf_num_segments == Cardinality(Segments)
InSeg(S, s) == {d \in S : Seg[d] = s}
Conf_seg_leader(S, s) == Min(InSeg(S, s))
Ordered(S) == SetToSortSeq(S, <)

\* The daemon the token is passed to: the next one of the ring.
Net_set_membership(S, d) ==
  IF \E e \in S : e > d THEN Min({e \in S : e > d}) ELSE Min(S)

\* Whom a packet can reach: a broadcast goes to the sender's segment and to
\* one daemon of every other segment of the ring, which repeats it there.
Net_scast(s, d) == {e \in Daemon : Seg[e] = s} \ {d}
Net_bcast(S, d) == UNION {Net_scast(s, d) : s \in {Seg[d]} \cup {Seg[e] : e \in S}}

-----------------------------------------------------------------------------
(* The packets a daemon holds, by sequence number: exist is 0 (none), 1    *)
(* (received), 2 (delivered, kept for others) or 3 (nobody has it).        *)

NoPacket == [exist |-> 0, pack |-> None]
Entry(seq) == seq % SLOTS
Exist(r, seq) == r.Packets[Entry(seq)].exist
Pack(r, seq) == r.Packets[Entry(seq)].pack
Upto(a, b) == [i \in 1 .. b - a + 1 |-> a + i - 1]
Missing(r, S) == {i \in S : Exist(r, i) = 0}

\* Alarm( EXIT, ... ): the daemon ends.
Exit(r, why) == [r EXCEPT !.exit = IF @ = None THEN why ELSE @]

\* A message of one packet that is only reliable waits for nobody.
Is_single(p) == Service[p.msg] = "reliable" /\ Parts[p.msg] = 1

\* Sess_deliver_message: the message goes up to the groups.
Deliver_packet(r, seq, exist) ==
  LET p    == Pack(r, seq)
      s    == Sender[p.msg]
      last == p.part = Parts[p.msg]
  IN  IF ~Is_single(p) /\ r.up[s] + 1 # p.part THEN Exit(r, "sequence error")
      ELSE [r EXCEPT !.up[s] = IF Is_single(p) THEN @ ELSE IF last THEN 0 ELSE p.part,
                     !.Packets[Entry(seq)].exist = exist,
                     !.view = IF last THEN Append(@, p.msg) ELSE @,
                     !.safe = IF last /\ Service[p.msg] = "safe" /\ ~r.Transitional
                              THEN @ \cup {p.msg} ELSE @]

Deliver_reliable_packets(r, start, num) ==
  IF r.State = "EVS" THEN r
  ELSE FoldLeft(LAMBDA x, i : IF Exist(x, i) = 1 /\ Is_single(Pack(x, i))
                              THEN Deliver_packet(x, i, 2) ELSE x,
                r, Upto(Max({start, r.Last_delivered + 1}), start + num - 1))

\* All that is in order, up to the first safe message.
DeliverSafeToo(r) ==
  IF r.My_aru <= r.Last_delivered \/ r.State = "EVS" THEN r
  ELSE FoldLeft(LAMBDA x, i : [IF Exist(x, i) = 1 THEN Deliver_packet(x, i, 2) ELSE x
                               EXCEPT !.Last_delivered = i],
                r, Upto(r.Last_delivered + 1, r.My_aru))
Deliver_agreed_packets(r) ==
  IF r.My_aru <= r.Last_delivered \/ r.State = "EVS" THEN r
  ELSE LET todo == r.Last_delivered + 1 .. r.My_aru
           stop == Min({i \in todo : \/ Exist(r, i) \notin {1, 2}
                                     \/ Exist(r, i) = 1 /\ Service[Pack(r, i).msg] = "safe"}
                       \cup {r.My_aru + 1})
           done == FoldLeft(LAMBDA x, i : IF Exist(x, i) = 1 THEN Deliver_packet(x, i, 2) ELSE x,
                            r, Upto(r.Last_delivered + 1, stop - 1))
       IN  IF stop \in todo /\ Exist(r, stop) \notin {1, 2} THEN Exit(done, "agreed packet not there")
           ELSE [done EXCEPT !.Last_delivered = stop - 1]

-----------------------------------------------------------------------------
(* Installing a membership: first the transitional one, the daemons that   *)
(* come along from the old ring, then the regular one.                     *)

KeepCommitSet(r) == r
Memb_commit(r) == [r EXCEPT !.Commit_set = r.Future_commit_set]

Memb_transitional(r) == [r EXCEPT !.Transitional = TRUE]

\* Sess_deliver_reg_memb ends the view; its record is kept for the properties.
Memb_regular(r, d) ==
  [r EXCEPT !.Transitional = FALSE, !.State = "OP",
            !.Membership = r.Future_membership, !.Membership_id = r.Future_membership_id,
            !.Reg_membership = r.Future_membership,
            !.Foreign_found = FALSE,
            !.timers = IF Conf_leader(r.Future_membership) = d THEN @ \cup {"lookup"} ELSE @,
            !.views = Append(@, [ring |-> r.Membership_id, trans |-> r.Commit_set.trans,
                                 next |-> r.Future_membership_id, procs |-> r.Future_membership,
                                 msgs |-> r.view, safe |-> r.safe]),
            !.view = <<>>, !.safe = {}]

\* Delivers what is not delivered yet and frees the slot.
Release(r, i) ==
  LET x == IF Exist(r, i) = 1 THEN Deliver_packet(r, i, 0) ELSE r
  IN  [x EXCEPT !.Packets[Entry(i)] = NoPacket]

ReleaseAll(r, seqs) == FoldLeft(Release, r, seqs)

\* Before the transitional signal: up to the first hole or safe message.
BeforeSignal(r) ==
  LET todo == r.Last_discarded + 1 .. r.Highest_seq
      stop == Min({i \in todo : \/ Exist(r, i) \in {0, 3}
                                \/ Service[Pack(r, i).msg] = "safe"} \cup {r.Highest_seq + 1})
      x    == [ReleaseAll(r, Upto(r.Last_discarded + 1, stop - 1)) EXCEPT !.Last_discarded = stop - 1]
  IN  IF stop \in todo /\ Exist(r, stop) = 0 THEN Exit(x, "packet not there, before the signal") ELSE x

\* After it: all that is before the first hole, and after it what daemons of
\* the commit set sent.
AfterSignal(r) ==
  LET todo == r.Last_discarded + 1 .. r.Highest_seq
      hole == Min({i \in todo : Exist(r, i) = 3} \cup {r.Highest_seq + 1})
      keep == {i \in todo : Exist(r, i) # 3 /\ (i < hole \/ Sender[Pack(r, i).msg] \in r.Commit_set.members)}
      x    == ReleaseAll(r, Ordered(keep))
  IN  IF Missing(r, todo) # {} THEN Exit(r, "packet not there, after the signal")
      ELSE [x EXCEPT !.Packets = [s \in DOMAIN @ |->
                                    IF s \in {Entry(i) : i \in todo} THEN NoPacket ELSE @[s]]]

\* A message sent in part is sent again from its first packet; parts of
\* messages are dropped. The numbering starts anew.
NewRing(r, d) ==
  [Memb_regular([r EXCEPT !.cur_element = 0, !.up = [s \in Daemon |-> 0]], d)
     EXCEPT !.Last_token.aru = 0, !.Highest_seq = 0, !.My_aru = 0, !.Aru = 0, !.Set_aru = -1,
            !.Last_discarded = 0, !.Last_delivered = 0, !.Token_counter = 0]

DiscardInRing(r) ==
  LET todo == r.Last_discarded + 1 .. r.Aru
      x    == ReleaseAll(r, Upto(r.Last_discarded + 1, r.Aru))
  IN  IF Missing(r, todo) # {} THEN Exit(r, "packet not there")
      ELSE [x EXCEPT !.Last_discarded = r.Aru, !.Last_delivered = Max({@, r.Aru})]

\* What follows is done unless the daemon has ended.
Unless(r, next) == IF r.exit = None THEN next ELSE r

InstallRegular(r, d) == Unless(r, NewRing(r, d))
\* Mutant: what a daemon sent itself waits for nobody else's.
InstallTransitionalOwnFirst(r, d) ==
  LET own == {i \in r.Last_discarded + 1 .. r.Highest_seq :
                Exist(r, i) = 1 /\ Sender[Pack(r, i).msg] = d}
      x   == FoldLeft(LAMBDA y, i : Deliver_packet(y, i, 2), Memb_transitional(r), Ordered(own))
  IN  Unless(r, InstallRegular(AfterSignal(x), d))
InstallTransitional(r, d) == Unless(r, InstallRegular(AfterSignal(Memb_transitional(r)), d))

Discard_packets(r, d) ==
  CASE r.Aru <= r.Last_discarded -> r
    [] r.Aru > r.Last_discarded /\ r.State # "EVS" -> DiscardInRing(r)
    [] OTHER -> IF r.Aru # r.Last_seq THEN r ELSE InstallTransitional(BeforeSignal(r), d)

=============================================================================
