------------------------ MODULE SpreadSessionProofs -------------------------
(***************************************************************************)
(* The sessions of a daemon, for any number of clients, names and limits:  *)
(* no alarm is met, descriptors and names lead to the right session, and   *)
(* what a client gets is an unbroken stream.                               *)
(***************************************************************************)
EXTENDS SpreadSession, SequenceTheorems, FiniteSetTheorems, WellFoundedInduction, TLAPS

-----------------------------------------------------------------------------
(***************************************************************************)
(* The inductive invariant. Its parts are about the table s, the hashed    *)
(* sessions h, the connection sl that is being accepted, the sockets sk,   *)
(* the handlers at, the timers bd, the ring's messages dn and the group g, *)
(* so that they can be stated in the middle of a step as well.             *)
(***************************************************************************)
RingMess == [type : {"join", "leave", "data"}, who : Client, no : Nat]
              \cup [type : {"kill"}, who : Client]
Given == [type : {"data", "reject"}, who : Client, no : Nat] \cup [type : {"memb"}, who : Client]
ASession == [status : {"none", "preauth", "op", "killed"}, mbox : Fd \cup {0},
             queue : Seq(Given), sent : {0, 1}, in_head : BOOLEAN]
AGroup == [members : SUBSET Client, mboxes : SUBSET Fd]

LinksTyped(s, h, sl, sk, at, bd, dn, g) ==
  /\ s \in [Client -> ASession]
  /\ h \in Seq(Client) /\ sl \in Client \cup {None}
  /\ sk \in [Client -> {"none", "backlog", "open", "closed"}]
  /\ at \in [Fd -> {"none", "accept", "auth", "pword", "read"}]
  /\ bd \in SUBSET Fd
  /\ dn \in Seq(RingMess)
  /\ g \in AGroup

SessTypeOK ==
  /\ LinksTyped(ses, hash, slot, sock, attached, badger, down, grp)
  /\ unsent \in Nat
  /\ stream \in [Client -> Seq(Given \X {"head", "body"})] /\ written \in [Client -> Seq(Given)]
  /\ requests \in Nat

\* Who has an open socket: the connection that is accepted, and the sessions
\* that are not killed. A descriptor is that of one of them.
SocketsRight(s, sl, sk) ==
  /\ \A c \in Client :
       /\ sk[c] = "open" <=> (c = sl \/ s[c].status \in {"preauth", "op"})
       /\ c = sl => s[c].status = "none"
       /\ s[c].status = "killed" => sk[c] = "closed"
       /\ sk[c] = "open" \/ s[c].status = "killed" => s[c].mbox \in Fd
  /\ \A c, d \in Client : sk[c] = "open" /\ sk[d] = "open" /\ s[c].mbox = s[d].mbox => c = d

\* Who is in the table has its name alone, and who is accepted has a place in it.
Sessions(s) == {c \in Client : s[c].status # "none"}
TableRight(s, sl) ==
  /\ \A c, d \in Sessions(s) : NameOf[c] = NameOf[d] => c = d
  /\ Cardinality(Sessions(s)) <= MAX_SESSIONS
  /\ sl # None => Cardinality(Sessions(s)) < MAX_SESSIONS

HashRight(s, h) ==
  /\ \A c \in Client : c \in Sessions(s) <=> \E i \in DOMAIN h : h[i] = c
  /\ \A i, j \in DOMAIN h : h[i] = h[j] => i = j

\* What is in the ring is of sessions that were authorized. The KILL message of
\* a killed session is there, and is its last.
Authorized(s) == {c \in Client : s[c].status \in {"op", "killed"}}
RingRight(s, dn) ==
  /\ \A k \in DOMAIN dn : dn[k].who \in Authorized(s)
  /\ \A k \in DOMAIN dn : dn[k].type = "kill" =>
       /\ s[dn[k].who].status = "killed"
       /\ \A l \in DOMAIN dn : k < l => dn[l].who # dn[k].who
  /\ \A c \in Client : s[c].status = "killed" => \E k \in DOMAIN dn : dn[k] = KillMessage(c)

\* Of two sessions with a descriptor the one hashed earlier is killed, and its
\* KILL message comes before everything of the other one.
ReuseRight(s, h, dn, g) ==
  \A i, j \in DOMAIN h : i < j /\ s[h[i]].mbox = s[h[j]].mbox =>
    /\ s[h[j]].status = "killed"
    /\ h[i] \notin g.members
    /\ \E k \in DOMAIN dn : /\ dn[k] = KillMessage(h[j])
                            /\ \A l \in DOMAIN dn : l < k => dn[l].who # h[i]

GroupRight(s, g) ==
  /\ g.members \subseteq Authorized(s)
  /\ g.mboxes = {s[c].mbox : c \in g.members}

Serves(s, sl, c, how) ==
  CASE how = "accept" -> c = sl
    [] how \in {"auth", "pword"} -> s[c].status = "preauth"
    [] how = "read" -> s[c].status = "op"
    [] OTHER -> FALSE
HandlersRight(s, sl, at) ==
  \A fd \in Fd : at[fd] # "none" => \E c \in Client : s[c].mbox = fd /\ Serves(s, sl, c, at[fd])

TimersRight(s, bd) == \A fd \in bd : \E c \in Client : s[c].status = "op" /\ s[c].mbox = fd

LinksRight(s, h, sl, sk, at, bd, dn, g) ==
  /\ LinksTyped(s, h, sl, sk, at, bd, dn, g)
  /\ SocketsRight(s, sl, sk) /\ TableRight(s, sl) /\ HashRight(s, h)
  /\ RingRight(s, dn) /\ ReuseRight(s, h, dn, g) /\ GroupRight(s, g)
  /\ HandlersRight(s, sl, at) /\ TimersRight(s, bd)

StreamsRight(s, bd, st, wr) ==
  \A c \in Client : IF s[c].status = "op"
                    THEN /\ st[c] \o Rest(s[c]) = Units(wr[c])
                         /\ s[c].queue # <<>> => s[c].mbox \in bd
                         /\ s[c].queue = <<>> => s[c].sent = 0
                    ELSE st[c] = <<>> /\ wr[c] = <<>>

SessInv ==
  /\ SessTypeOK
  /\ LinksRight(ses, hash, slot, sock, attached, badger, down, grp)
  /\ StreamsRight(ses, badger, stream, written)
  /\ NoBugAlarm

-----------------------------------------------------------------------------
(***************************************************************************)
(* Numbers, messages and the hashed sessions.                              *)
(***************************************************************************)
LEMMA Least ==
    ASSUME NEW S \in SUBSET Nat, S # {}
    PROVE  Min(S) \in S /\ \A y \in S : Min(S) <= y
<1>1. \E x \in S : \A y \in S : ~ (<<y, x>> \in OpToRel(<, Nat))
  BY NatLessThanWellFounded, WFMin
<1>2. PICK x \in S : \A y \in S : ~ (<<y, x>> \in OpToRel(<, Nat))
  BY <1>1
<1>3. ASSUME NEW y \in S
      PROVE  x <= y
  <2>1. <<y, x>> \in Nat \X Nat /\ <<y, x>>[1] = y /\ <<y, x>>[2] = x
    OBVIOUS
  <2>2. ~ (y < x)
    BY <1>2, <2>1, Zenon DEF OpToRel
  <2> QED  BY <2>2
<1> QED  BY <1>3 DEF Min

LEMMA MessParts ==
    ASSUME NEW m \in RingMess
    PROVE  /\ m.who \in Client /\ m.type \in {"join", "leave", "data", "kill"}
           /\ m.type = "kill" => m = KillMessage(m.who)
BY DEF RingMess, KillMessage

LEMMA KillParts ==
    ASSUME NEW c \in Client
    PROVE  KillMessage(c) \in RingMess /\ KillMessage(c).who = c /\ KillMessage(c).type = "kill"
BY DEF RingMess, KillMessage

LEMMA NoneIsNone == None \notin Client /\ IsFiniteSet(Client)
BY SessionAssumption

\* An open session is the one its mailbox leads to.
LEMMA OpenIndex ==
    ASSUME NEW s \in [Client -> ASession], NEW h \in Seq(Client), NEW dn, NEW g,
           HashRight(s, h), ReuseRight(s, h, dn, g),
           NEW c \in Client, s[c].status \in {"preauth", "op"}
    PROVE  Sess_get_session_index(h, s, s[c].mbox) = c
<1> DEFINE P == Positions(h, s, s[c].mbox)
<1>1. P \in SUBSET Nat /\ DOMAIN h \in SUBSET Nat
  BY DEF Positions
<1>2. PICK p \in DOMAIN h : h[p] = c
  BY DEF HashRight, Sessions
<1>3. p \in P
  BY <1>2 DEF Positions
<1>4. Min(P) \in P /\ Min(P) <= p
  BY <1>1, <1>3, Least
<1>5. Min(P) \in DOMAIN h /\ s[h[Min(P)]].mbox = s[h[p]].mbox
  BY <1>2, <1>4 DEF Positions
<1>6. ~ (Min(P) < p)
  BY <1>2, <1>5 DEF ReuseRight
<1>7. Min(P) = p
  BY <1>1, <1>4, <1>5, <1>6
<1> QED  BY <1>2, <1>3, <1>7 DEF Sess_get_session_index

LEMMA IndexType ==
    ASSUME NEW s, NEW h \in Seq(Client), NEW mb
    PROVE  LET c == Sess_get_session_index(h, s, mb)
           IN  c = None \/ (c \in Client /\ s[c].mbox = mb /\ \E i \in DOMAIN h : h[i] = c)
<1> DEFINE P == Positions(h, s, mb)
<1>1. CASE P = {}
  BY <1>1 DEF Sess_get_session_index
<1>2. CASE P # {}
  <2>1. P \in SUBSET Nat
    BY DEF Positions
  <2>2. Min(P) \in P
    BY <1>2, <2>1, Least
  <2>3. Min(P) \in DOMAIN h /\ s[h[Min(P)]].mbox = mb
    BY <2>2 DEF Positions
  <2>4. h[Min(P)] \in Client
    BY <2>3
  <2> QED  BY <1>2, <2>3, <2>4 DEF Sess_get_session_index
<1> QED  BY <1>1, <1>2

LEMMA NameIndex ==
    ASSUME NEW s \in [Client -> ASession], NEW sl, TableRight(s, sl), s = ses, NEW c \in Sessions(s)
    PROVE  Sess_get_session(NameOf[c]) = c
<1> DEFINE W == {d \in Client : Listed(d) /\ NameOf[d] = NameOf[c]}
<1>1. W = {c}
  BY DEF Sessions, TableRight, Listed
<1>2. W # {} /\ (CHOOSE d \in W : TRUE) = c
  BY <1>1, Zenon
<1> QED  BY <1>2, Zenon DEF Sess_get_session

-----------------------------------------------------------------------------
(***************************************************************************)
(* What the links need of the table is who is in it, and with which        *)
(* mailbox.                                                                *)
(***************************************************************************)
LEMMA SameLinks ==
    ASSUME NEW s, NEW h, NEW sl, NEW sk, NEW at, NEW bd, NEW dn, NEW g,
           LinksRight(s, h, sl, sk, at, bd, dn, g),
           NEW t \in [Client -> ASession],
           \A c \in Client : t[c].status = s[c].status /\ t[c].mbox = s[c].mbox
    PROVE  LinksRight(t, h, sl, sk, at, bd, dn, g)
<1> USE DEF LinksRight
<1>1. LinksTyped(t, h, sl, sk, at, bd, dn, g)
  BY DEF LinksTyped
<1>2. Sessions(t) = Sessions(s) /\ Authorized(t) = Authorized(s)
  BY DEF Sessions, Authorized
<1>3. SocketsRight(t, sl, sk)
  BY DEF SocketsRight
<1>4. TableRight(t, sl)
  BY <1>2 DEF TableRight
<1>5. HashRight(t, h)
  BY <1>2 DEF HashRight
<1>6. RingRight(t, dn)
  <2>1. ASSUME NEW k \in DOMAIN dn PROVE dn[k].who \in Client
    BY MessParts DEF LinksTyped
  <2> QED  BY <1>2, <2>1 DEF RingRight
<1>7. ReuseRight(t, h, dn, g)
  <2>1. \A i \in DOMAIN h : h[i] \in Client
    BY DEF LinksTyped
  <2> QED  BY <2>1 DEF ReuseRight
<1>8. GroupRight(t, g)
  <2>1. g.members \in SUBSET Client
    BY DEF LinksTyped, AGroup
  <2>2. {t[c].mbox : c \in g.members} = {s[c].mbox : c \in g.members}
    BY <2>1
  <2> QED  BY <1>2, <2>2 DEF GroupRight
<1>9. HandlersRight(t, sl, at)
  <2>1. \A how : \A c \in Client : Serves(s, sl, c, how) => Serves(t, sl, c, how)
    BY DEF Serves
  <2> QED  BY <2>1 DEF HandlersRight
<1>10. TimersRight(t, bd)
  BY DEF TimersRight
<1> QED  BY <1>1, <1>3, <1>4, <1>5, <1>6, <1>7, <1>8, <1>9, <1>10

\* The KILL messages of the sessions of K, one for each.
KillsOf(ks, K) ==
  /\ ks \in Seq(RingMess)
  /\ \A k \in DOMAIN ks : \E c \in K : ks[k] = KillMessage(c)
  /\ \A c \in K : \E k \in DOMAIN ks : ks[k] = KillMessage(c)
  /\ \A k, l \in DOMAIN ks : ks[k] = ks[l] => k = l

LEMMA Lengthened ==
    ASSUME NEW dn \in Seq(RingMess), NEW ks \in Seq(RingMess)
    PROVE  /\ dn \o ks \in Seq(RingMess)
           /\ DOMAIN dn \subseteq DOMAIN (dn \o ks)
           /\ \A k \in DOMAIN dn : (dn \o ks)[k] = dn[k]
           /\ \A k \in DOMAIN (dn \o ks) : k \notin DOMAIN dn =>
                k - Len(dn) \in DOMAIN ks /\ (dn \o ks)[k] = ks[k - Len(dn)] /\ k > Len(dn)
           /\ \A k \in DOMAIN ks : k + Len(dn) \in DOMAIN (dn \o ks)
                                    /\ (dn \o ks)[k + Len(dn)] = ks[k]
<1>1. /\ dn \o ks \in Seq(RingMess) /\ Len(dn \o ks) = Len(dn) + Len(ks)
      /\ \A i \in 1 .. Len(dn) + Len(ks) :
            (dn \o ks)[i] = IF i <= Len(dn) THEN dn[i] ELSE ks[i - Len(dn)]
  BY ConcatProperties
<1>2. /\ DOMAIN dn = 1 .. Len(dn) /\ DOMAIN ks = 1 .. Len(ks) /\ Len(dn) \in Nat /\ Len(ks) \in Nat
      /\ DOMAIN (dn \o ks) = 1 .. Len(dn) + Len(ks)
  BY <1>1, LenProperties
<1>3. \A k \in DOMAIN dn : k \in DOMAIN (dn \o ks) /\ (dn \o ks)[k] = dn[k]
  BY <1>1, <1>2
<1>4. ASSUME NEW k \in DOMAIN (dn \o ks), k \notin DOMAIN dn
      PROVE  k - Len(dn) \in DOMAIN ks /\ (dn \o ks)[k] = ks[k - Len(dn)] /\ k > Len(dn)
  BY <1>1, <1>2, <1>4
<1>5. ASSUME NEW k \in DOMAIN ks
      PROVE  k + Len(dn) \in DOMAIN (dn \o ks) /\ (dn \o ks)[k + Len(dn)] = ks[k]
  <2>1. k + Len(dn) \in 1 .. Len(dn) + Len(ks) /\ ~ (k + Len(dn) <= Len(dn)) /\ (k + Len(dn)) - Len(dn) = k
    BY <1>2
  <2> QED  BY <1>1, <1>2, <2>1
<1> QED  BY <1>1, <1>3, <1>4, <1>5

\* Operational sessions are killed: closed, without handler and timer, and
\* announced to the ring.
LEMMA Kills ==
    ASSUME NEW s, NEW h, NEW sl, NEW sk, NEW at, NEW bd, NEW dn, NEW g,
           LinksRight(s, h, sl, sk, at, bd, dn, g),
           NEW K \in SUBSET {c \in Client : s[c].status = "op"},
           NEW t \in [Client -> ASession],
           \A c \in Client : /\ t[c].mbox = s[c].mbox
                             /\ t[c].status = IF c \in K THEN "killed" ELSE s[c].status,
           NEW sk2, sk2 = [c \in Client |-> IF c \in K THEN "closed" ELSE sk[c]],
           NEW at2, at2 = [fd \in Fd |-> IF \E c \in K : s[c].mbox = fd THEN "none" ELSE at[fd]],
           NEW bd2 \in SUBSET Fd,
           \A fd \in bd2 : \/ fd \in bd /\ ~ \E c \in K : s[c].mbox = fd
                           \/ \E c \in Client : t[c].status = "op" /\ t[c].mbox = fd,
           NEW ks, KillsOf(ks, K)
    PROVE  LinksRight(t, h, sl, sk2, at2, bd2, dn \o ks, g)
<1> USE DEF LinksRight
<1> DEFINE d == dn \o ks
<1>1. /\ d \in Seq(RingMess) /\ DOMAIN dn \subseteq DOMAIN d
      /\ \A k \in DOMAIN dn : d[k] = dn[k]
      /\ \A k \in DOMAIN d : k \notin DOMAIN dn =>
           k - Len(dn) \in DOMAIN ks /\ d[k] = ks[k - Len(dn)] /\ k > Len(dn)
      /\ \A k \in DOMAIN ks : k + Len(dn) \in DOMAIN d /\ d[k + Len(dn)] = ks[k]
  BY Lengthened DEF KillsOf, LinksTyped
<1>2. /\ DOMAIN dn = 1 .. Len(dn) /\ Len(dn) \in Nat /\ DOMAIN d \subseteq Nat
      /\ \A k \in DOMAIN dn : dn[k] \in RingMess
      /\ \A i \in DOMAIN h : h[i] \in Client
  BY <1>1 DEF LinksTyped
<1>3. LinksTyped(t, h, sl, sk2, at2, bd2, d, g)
  BY <1>1 DEF LinksTyped
<1>4. Sessions(t) = Sessions(s) /\ Authorized(t) = Authorized(s)
  BY DEF Sessions, Authorized
<1>5. SocketsRight(t, sl, sk2)
  BY DEF SocketsRight, LinksTyped
<1>6. TableRight(t, sl) /\ HashRight(t, h)
  BY <1>4 DEF TableRight, HashRight
<1>7. RingRight(t, d)
  <2>1. ASSUME NEW k \in DOMAIN dn PROVE d[k] = dn[k] /\ d[k].who \in Client /\ d[k].who \in Authorized(t)
    BY <1>1, <1>2, <1>4, MessParts DEF RingRight
  <2>2. ASSUME NEW k \in DOMAIN d, k \notin DOMAIN dn
        PROVE  \E c \in K : d[k] = KillMessage(c) /\ d[k].who = c
    BY <1>1, <2>2, KillParts DEF KillsOf
  <2>3. \A k \in DOMAIN d : d[k].who \in Authorized(t)
    BY <2>1, <2>2 DEF Authorized
  <2>4. ASSUME NEW k \in DOMAIN d, d[k].type = "kill"
        PROVE  /\ t[d[k].who].status = "killed"
               /\ \A l \in DOMAIN d : k < l => d[l].who # d[k].who
    <3>1. CASE k \in DOMAIN dn
      <4>1. s[d[k].who].status = "killed" /\ \A l \in DOMAIN dn : k < l => d[l].who # d[k].who
        BY <2>1, <2>4, <3>1 DEF RingRight
      <4>2. d[k].who \in Client /\ t[d[k].who].status = "killed"
        BY <2>1, <3>1, <4>1
      <4>3. ASSUME NEW l \in DOMAIN d, l \notin DOMAIN dn PROVE d[l].who # d[k].who
        BY <2>2, <4>1, <4>3
      <4> QED  BY <4>1, <4>2, <4>3
    <3>2. CASE k \notin DOMAIN dn
      <4>1. PICK c \in K : d[k] = KillMessage(c) /\ d[k].who = c
        BY <2>2, <3>2
      <4>2. ASSUME NEW l \in DOMAIN d, k < l PROVE d[l].who # c
        <5>1. l \notin DOMAIN dn /\ k > Len(dn)
          BY <1>1, <1>2, <3>2, <4>2
        <5>2. PICK e \in K : d[l] = KillMessage(e) /\ d[l].who = e
          BY <2>2, <5>1
        <5>3. k - Len(dn) \in DOMAIN ks /\ l - Len(dn) \in DOMAIN ks /\ d[k] = ks[k - Len(dn)] /\ d[l] = ks[l - Len(dn)]
          BY <1>1, <3>2, <5>1
        <5>4. k - Len(dn) # l - Len(dn)
          BY <1>2, <4>2
        <5>5. ks[k - Len(dn)] # ks[l - Len(dn)]
          BY <5>3, <5>4 DEF KillsOf
        <5> QED  BY <4>1, <5>2, <5>3, <5>5
      <4> QED  BY <4>1, <4>2
    <3> QED  BY <3>1, <3>2
  <2>5. ASSUME NEW c \in Client, t[c].status = "killed" PROVE \E k \in DOMAIN d : d[k] = KillMessage(c)
    <3>1. CASE c \in K
      <4>1. PICK k \in DOMAIN ks : ks[k] = KillMessage(c)
        BY <3>1 DEF KillsOf
      <4>2. k + Len(dn) \in DOMAIN d /\ d[k + Len(dn)] = KillMessage(c)
        BY <1>1, <4>1
      <4> QED  BY <4>2
    <3>2. CASE c \notin K
      BY <1>1, <2>5, <3>2, SMTT(30) DEF RingRight
    <3> QED  BY <3>1, <3>2
  <2> QED  BY <2>3, <2>4, <2>5 DEF RingRight
<1>8. ReuseRight(t, h, d, g)
  <2> SUFFICES ASSUME NEW i \in DOMAIN h, NEW j \in DOMAIN h, i < j, t[h[i]].mbox = t[h[j]].mbox
               PROVE  /\ t[h[j]].status = "killed" /\ h[i] \notin g.members
                      /\ \E k \in DOMAIN d : /\ d[k] = KillMessage(h[j])
                                             /\ \A l \in DOMAIN d : l < k => d[l].who # h[i]
    BY DEF ReuseRight
  <2>1. h[i] \in Client /\ h[j] \in Client /\ s[h[i]].mbox = s[h[j]].mbox
    BY <1>2
  <2>2. s[h[j]].status = "killed" /\ h[i] \notin g.members
    BY <2>1 DEF ReuseRight
  <2>3. PICK k \in DOMAIN dn : dn[k] = KillMessage(h[j]) /\ \A l \in DOMAIN dn : l < k => dn[l].who # h[i]
    BY <2>1 DEF ReuseRight
  <2>4. \A l \in DOMAIN d : l < k => l \in DOMAIN dn
    BY <1>1, <1>2
  <2>5. k \in DOMAIN d /\ d[k] = KillMessage(h[j]) /\ \A l \in DOMAIN d : l < k => d[l].who # h[i]
    BY <1>1, <2>3, <2>4
  <2> QED  BY <2>1, <2>2, <2>5
<1>9. GroupRight(t, g)
  <2>1. g.members \in SUBSET Client
    BY DEF LinksTyped, AGroup
  <2>2. {t[c].mbox : c \in g.members} = {s[c].mbox : c \in g.members}
    BY <2>1
  <2> QED  BY <1>4, <2>2 DEF GroupRight
<1>10. HandlersRight(t, sl, at2)
  <2> SUFFICES ASSUME NEW fd \in Fd, at2[fd] # "none"
               PROVE  \E c \in Client : t[c].mbox = fd /\ Serves(t, sl, c, at2[fd])
    BY DEF HandlersRight
  <2>1. at2[fd] = at[fd] /\ ~ \E c \in K : s[c].mbox = fd
    OBVIOUS
  <2>2. PICK c \in Client : s[c].mbox = fd /\ Serves(s, sl, c, at[fd])
    BY <2>1 DEF HandlersRight
  <2>3. c \notin K /\ t[c].mbox = fd /\ t[c].status = s[c].status
    BY <2>1, <2>2
  <2>4. Serves(t, sl, c, at2[fd])
    BY <2>1, <2>2, <2>3 DEF Serves
  <2> QED  BY <2>3, <2>4
<1>11. TimersRight(t, bd2)
  BY DEF TimersRight
<1> QED  BY <1>3, <1>5, <1>6, <1>7, <1>8, <1>9, <1>10, <1>11

-----------------------------------------------------------------------------
(***************************************************************************)
(* Taking a session out of the hashed ones.                                *)
(***************************************************************************)
LEMMA Removed ==
    ASSUME NEW S, NEW h \in Seq(S), NEW p \in DOMAIN h
    PROVE  /\ RemoveAt(h, p) \in Seq(S) /\ Len(RemoveAt(h, p)) = Len(h) - 1
           /\ \A i \in 1 .. p - 1 : RemoveAt(h, p)[i] = h[i]
           /\ \A i \in p .. Len(h) - 1 : RemoveAt(h, p)[i] = h[i + 1]
<1> DEFINE a == SubSeq(h, 1, p - 1)
           b == SubSeq(h, p + 1, Len(h))
<1>1. p \in 1 .. Len(h) /\ Len(h) \in Nat /\ \A i \in 1 .. Len(h) : h[i] \in S
  OBVIOUS
<1>2. a \in Seq(S) /\ Len(a) = p - 1 /\ \A i \in 1 .. p - 1 : a[i] = h[i]
  <2>1. \A i \in 1 .. p - 1 : h[i] \in S
    BY <1>1
  <2> QED  BY <1>1, <2>1, SubSeqProperties
<1>3. b \in Seq(S) /\ Len(b) = Len(h) - p /\ \A i \in 1 .. Len(h) - p : b[i] = h[p + i]
  <2>1. \A i \in p + 1 .. Len(h) : h[i] \in S
    BY <1>1
  <2> QED  BY <1>1, <2>1, SubSeqProperties, SMTT(30)
<1> HIDE DEF a, b
<1>4. /\ a \o b \in Seq(S) /\ Len(a \o b) = Len(a) + Len(b)
      /\ \A i \in 1 .. Len(a) + Len(b) : (a \o b)[i] = IF i <= Len(a) THEN a[i] ELSE b[i - Len(a)]
  BY <1>2, <1>3, ConcatProperties
<1>5. RemoveAt(h, p) = a \o b
  BY DEF RemoveAt, a, b
<1>6. \A i \in 1 .. p - 1 : (a \o b)[i] = h[i]
  BY <1>1, <1>2, <1>3, <1>4, SMTT(30)
<1>7. ASSUME NEW i \in p .. Len(h) - 1 PROVE (a \o b)[i] = h[i + 1]
  <2>1. i \in 1 .. Len(a) + Len(b) /\ ~ (i <= Len(a)) /\ i - Len(a) = i - (p - 1)
    BY <1>1, <1>2, <1>3, SMTT(30)
  <2>2. i - (p - 1) \in 1 .. Len(h) - p /\ p + (i - (p - 1)) = i + 1
    BY <1>1
  <2> QED  BY <1>3, <1>4, <2>1, <2>2, SMTT(30)
<1>8. Len(a \o b) = Len(h) - 1
  BY <1>1, <1>2, <1>3, <1>4
<1> QED  BY <1>4, <1>5, <1>6, <1>7, <1>8, Zenon

\* r is h without c, and the others are in the same order.
Without1(h, c, r) ==
  /\ r \in Seq(Client)
  /\ \A i \in DOMAIN r : r[i] # c
  /\ \A k \in DOMAIN h : h[k] # c => \E i \in DOMAIN r : r[i] = h[k]
  /\ \A i, j \in DOMAIN r : i < j => \E k, l \in DOMAIN h : k < l /\ r[i] = h[k] /\ r[j] = h[l]
  /\ \A i \in DOMAIN r : \E k \in DOMAIN h : r[i] = h[k]

LEMMA Unhashed ==
    ASSUME NEW s, HashRight(s, hash), hash \in Seq(Client), NEW c \in Sessions(s)
    PROVE  Without1(hash, c, Sess_unhash_session(c))
<1>1. \E p \in DOMAIN hash : hash[p] = c
  BY DEF HashRight, Sessions
<1>2. c \in Range(hash)
  BY <1>1 DEF Range
<1> DEFINE p == CHOOSE i \in DOMAIN hash : hash[i] = c
           r == RemoveAt(hash, p)
<1>3. p \in DOMAIN hash /\ hash[p] = c
  BY <1>1
<1>4. Sess_unhash_session(c) = r
  BY <1>2 DEF Sess_unhash_session
<1> HIDE DEF p
<1>5. /\ r \in Seq(Client) /\ Len(r) = Len(hash) - 1
      /\ \A i \in 1 .. p - 1 : r[i] = hash[i]
      /\ \A i \in p .. Len(hash) - 1 : r[i] = hash[i + 1]
  BY <1>3, Removed
<1> HIDE DEF r
<1>6. /\ DOMAIN hash = 1 .. Len(hash) /\ Len(hash) \in Nat /\ p \in 1 .. Len(hash)
      /\ DOMAIN r = 1 .. Len(hash) - 1
  BY <1>3, <1>5
<1>7. \A k \in DOMAIN hash : hash[k] = c => k = p
  BY <1>3 DEF HashRight
<1> DEFINE At(i) == IF i < p THEN i ELSE i + 1
<1>8. ASSUME NEW i \in DOMAIN r PROVE At(i) \in DOMAIN hash /\ At(i) # p /\ r[i] = hash[At(i)]
  BY <1>5, <1>6
<1>9. ASSUME NEW i \in DOMAIN r, NEW j \in DOMAIN r, i < j PROVE At(i) < At(j)
  BY <1>6, <1>9
<1>10. ASSUME NEW k \in DOMAIN hash, hash[k] # c PROVE \E i \in DOMAIN r : r[i] = hash[k]
  <2>1. CASE k < p
    BY <1>5, <1>6, <2>1
  <2>2. CASE k > p
    <3>1. k - 1 \in p .. Len(hash) - 1 /\ (k - 1) + 1 = k
      BY <1>6, <2>2
    <3>2. r[k - 1] = hash[k] /\ k - 1 \in DOMAIN r
      BY <1>5, <1>6, <3>1
    <3> QED  BY <3>2
  <2> QED  BY <1>3, <1>6, <1>10, <2>1, <2>2
<1>11. \A i \in DOMAIN r : r[i] # c
  BY <1>7, <1>8
<1>12. \A i, j \in DOMAIN r : i < j => \E k, l \in DOMAIN hash : k < l /\ r[i] = hash[k] /\ r[j] = hash[l]
  BY <1>8, <1>9
<1>13. \A i \in DOMAIN r : \E k \in DOMAIN hash : r[i] = hash[k]
  BY <1>8
<1> QED  BY <1>4, <1>5, <1>10, <1>11, <1>12, <1>13 DEF Without1

LEMMA HashWithout ==
    ASSUME NEW s, NEW t, NEW h \in Seq(Client), NEW r, NEW c, HashRight(s, h), Without1(h, c, r),
           \A d \in Client : d \in Sessions(t) <=> d \in Sessions(s) /\ d # c
    PROVE  HashRight(t, r)
<1> USE DEF Without1
<1>1. \A d \in Client : d \in Sessions(t) <=> \E i \in DOMAIN r : r[i] = d
  BY DEF HashRight
<1>2. ASSUME NEW i \in DOMAIN r, NEW j \in DOMAIN r, i < j PROVE r[i] # r[j]
  <2>1. PICK k \in DOMAIN h, l \in DOMAIN h : k < l /\ r[i] = h[k] /\ r[j] = h[l]
    BY <1>2
  <2>2. k # l
    BY <2>1
  <2> QED  BY <2>1, <2>2 DEF HashRight
<1>3. DOMAIN r \subseteq Nat
  OBVIOUS
<1>4. ASSUME NEW i \in DOMAIN r, NEW j \in DOMAIN r, r[i] = r[j] PROVE i = j
  <2>1. ~ (i < j) /\ ~ (j < i)
    BY <1>2, <1>4
  <2> QED  BY <1>3, <2>1
<1> QED  BY <1>1, <1>4 DEF HashRight

LEMMA ReuseWithout ==
    ASSUME NEW s, NEW t, NEW h \in Seq(Client), NEW r, NEW c, NEW dn, NEW g,
           ReuseRight(s, h, dn, g), Without1(h, c, r),
           \A d \in Client : d # c => t[d].status = s[d].status /\ t[d].mbox = s[d].mbox
    PROVE  ReuseRight(t, r, dn, g)
<1> USE DEF Without1
<1> SUFFICES ASSUME NEW i \in DOMAIN r, NEW j \in DOMAIN r, i < j, t[r[i]].mbox = t[r[j]].mbox
             PROVE  /\ t[r[j]].status = "killed" /\ r[i] \notin g.members
                    /\ \E k \in DOMAIN dn : /\ dn[k] = KillMessage(r[j])
                                            /\ \A l \in DOMAIN dn : l < k => dn[l].who # r[i]
  BY DEF ReuseRight
<1>1. PICK k \in DOMAIN h, l \in DOMAIN h : k < l /\ r[i] = h[k] /\ r[j] = h[l]
  OBVIOUS
<1>2. r[i] \in Client /\ r[j] \in Client /\ r[i] # c /\ r[j] # c
  OBVIOUS
<1>3. s[h[k]].mbox = s[h[l]].mbox
  BY <1>1, <1>2
<1>4. /\ s[h[l]].status = "killed" /\ h[k] \notin g.members
      /\ \E n \in DOMAIN dn : dn[n] = KillMessage(h[l]) /\ \A m \in DOMAIN dn : m < n => dn[m].who # h[k]
  BY <1>1, <1>3 DEF ReuseRight
<1>5. t[r[j]].status = "killed" /\ r[i] \notin g.members
  BY <1>1, <1>2, <1>4, ZenonT(40)
<1>6. \E n \in DOMAIN dn : dn[n] = KillMessage(r[j]) /\ \A m \in DOMAIN dn : m < n => dn[m].who # r[i]
  <2>1. PICK n \in DOMAIN dn : dn[n] = KillMessage(h[l]) /\ \A m \in DOMAIN dn : m < n => dn[m].who # h[k]
    BY <1>4
  <2>2. dn[n] = KillMessage(r[j]) /\ \A m \in DOMAIN dn : m < n => dn[m].who # r[i]
    BY <1>1, <2>1
  <2> QED  BY <2>2
<1> QED  BY <1>5, <1>6

-----------------------------------------------------------------------------
(***************************************************************************)
(* The first message of the ring is delivered.                             *)
(***************************************************************************)
LEMMA TailParts ==
    ASSUME NEW dn \in Seq(RingMess), dn # <<>>
    PROVE  /\ Tail(dn) \in Seq(RingMess) /\ Head(dn) = dn[1] /\ 1 \in DOMAIN dn
           /\ DOMAIN dn \subseteq Nat \ {0}
           /\ \A k \in DOMAIN Tail(dn) : k + 1 \in DOMAIN dn /\ Tail(dn)[k] = dn[k + 1] /\ k \in Nat
           /\ \A k \in DOMAIN dn : k # 1 => k - 1 \in DOMAIN Tail(dn) /\ Tail(dn)[k - 1] = dn[k]
<1>1. /\ Tail(dn) \in Seq(RingMess) /\ Len(Tail(dn)) = Len(dn) - 1
      /\ \A i \in 1 .. Len(Tail(dn)) : Tail(dn)[i] = dn[i + 1]
  BY HeadTailProperties
<1>2. /\ DOMAIN dn = 1 .. Len(dn) /\ Len(dn) \in Nat \ {0}
      /\ DOMAIN Tail(dn) = 1 .. Len(dn) - 1
  BY <1>1, LenProperties, EmptySeq
<1>3. Head(dn) = dn[1]
  OBVIOUS
<1>4. ASSUME NEW k \in DOMAIN dn, k # 1
      PROVE  k - 1 \in DOMAIN Tail(dn) /\ Tail(dn)[k - 1] = dn[k]
  <2>1. k - 1 \in 1 .. Len(dn) - 1 /\ (k - 1) + 1 = k
    BY <1>2, <1>4
  <2> QED  BY <1>1, <1>2, <2>1
<1>5. \A k \in DOMAIN Tail(dn) : k + 1 \in DOMAIN dn /\ Tail(dn)[k] = dn[k + 1] /\ k \in Nat
  BY <1>1, <1>2
<1> QED  BY <1>1, <1>2, <1>3, <1>4, <1>5

\* A message other than KILL is taken off. Whoever is in the group then was in
\* it, or is the one the message is about.
LEMMA TakenOff ==
    ASSUME NEW s, NEW h, NEW sl, NEW sk, NEW at, NEW bd, NEW dn, NEW g,
           LinksRight(s, h, sl, sk, at, bd, dn, g),
           dn # <<>>, Head(dn).type # "kill",
           NEW g2 \in AGroup, GroupRight(s, g2),
           \A c \in g2.members : c \in g.members \/ c = Head(dn).who
    PROVE  LinksRight(s, h, sl, sk, at, bd, Tail(dn), g2)
<1> USE DEF LinksRight
<1> DEFINE d == Tail(dn)
<1>1. /\ d \in Seq(RingMess) /\ Head(dn) = dn[1] /\ 1 \in DOMAIN dn
      /\ DOMAIN dn \subseteq Nat \ {0}
      /\ \A k \in DOMAIN d : k + 1 \in DOMAIN dn /\ d[k] = dn[k + 1] /\ k \in Nat
      /\ \A k \in DOMAIN dn : k # 1 => k - 1 \in DOMAIN d /\ d[k - 1] = dn[k]
  BY TailParts DEF LinksTyped
<1> HIDE DEF d
<1>2. LinksTyped(s, h, sl, sk, at, bd, d, g2)
  BY <1>1 DEF LinksTyped
<1>3. ASSUME NEW c \in Client, NEW k \in DOMAIN dn, dn[k] = KillMessage(c)
      PROVE  k # 1 /\ k - 1 \in DOMAIN d /\ d[k - 1] = KillMessage(c)
  BY <1>1, <1>3, KillParts
<1>4. RingRight(s, d)
  <2>1. \A k \in DOMAIN d : d[k].who \in Authorized(s)
    BY <1>1 DEF RingRight
  <2>2. ASSUME NEW k \in DOMAIN d, d[k].type = "kill"
        PROVE  s[d[k].who].status = "killed" /\ \A l \in DOMAIN d : k < l => d[l].who # d[k].who
    <3>1. k + 1 \in DOMAIN dn /\ dn[k + 1].type = "kill" /\ d[k] = dn[k + 1]
      BY <1>1, <2>2
    <3>2. s[d[k].who].status = "killed" /\ \A l \in DOMAIN dn : k + 1 < l => dn[l].who # d[k].who
      BY <3>1 DEF RingRight
    <3>3. ASSUME NEW l \in DOMAIN d, k < l PROVE d[l].who # d[k].who
      <4>1. l + 1 \in DOMAIN dn /\ d[l] = dn[l + 1] /\ k + 1 < l + 1
        BY <1>1, <3>3
      <4> QED  BY <3>2, <4>1
    <3> QED  BY <3>2, <3>3
  <2>3. ASSUME NEW c \in Client, s[c].status = "killed" PROVE \E k \in DOMAIN d : d[k] = KillMessage(c)
    <3>1. PICK k \in DOMAIN dn : dn[k] = KillMessage(c)
      BY <2>3 DEF RingRight
    <3> QED  BY <1>3, <3>1
  <2> QED  BY <2>1, <2>2, <2>3 DEF RingRight
<1>5. ReuseRight(s, h, d, g2)
  <2> SUFFICES ASSUME NEW i \in DOMAIN h, NEW j \in DOMAIN h, i < j, s[h[i]].mbox = s[h[j]].mbox
               PROVE  /\ s[h[j]].status = "killed" /\ h[i] \notin g2.members
                      /\ \E k \in DOMAIN d : /\ d[k] = KillMessage(h[j])
                                             /\ \A l \in DOMAIN d : l < k => d[l].who # h[i]
    BY DEF ReuseRight
  <2>1. h[j] \in Client
    BY DEF LinksTyped
  <2>2. s[h[j]].status = "killed" /\ h[i] \notin g.members
    BY DEF ReuseRight
  <2>3. PICK k \in DOMAIN dn : dn[k] = KillMessage(h[j]) /\ \A l \in DOMAIN dn : l < k => dn[l].who # h[i]
    BY DEF ReuseRight
  <2>4. k # 1 /\ k - 1 \in DOMAIN d /\ d[k - 1] = KillMessage(h[j])
    BY <1>3, <2>1, <2>3
  <2>5. h[i] \notin g2.members
    <3>1. 1 < k
      BY <1>1, <2>4
    <3> QED  BY <1>1, <2>2, <2>3, <3>1
  <2>6. ASSUME NEW l \in DOMAIN d, l < k - 1 PROVE d[l].who # h[i]
    <3>1. l + 1 \in DOMAIN dn /\ d[l] = dn[l + 1] /\ l + 1 < k
      BY <1>1, <2>6
    <3> QED  BY <2>3, <3>1
  <2> QED  BY <2>2, <2>4, <2>5, <2>6
<1> QED  BY <1>2, <1>4, <1>5 DEF d

\* Members have their own mailboxes.
LEMMA OwnMailbox ==
    ASSUME NEW s, NEW h, NEW sl, NEW sk, NEW at, NEW bd, NEW dn, NEW g,
           LinksRight(s, h, sl, sk, at, bd, dn, g),
           NEW c \in g.members, NEW d \in g.members, s[c].mbox = s[d].mbox
    PROVE  c = d
<1> USE DEF LinksRight
<1>1. c \in Client /\ d \in Client /\ c \in Sessions(s) /\ d \in Sessions(s)
  BY DEF GroupRight, Authorized, Sessions
<1>2. PICK i \in DOMAIN h : h[i] = c
  BY <1>1 DEF HashRight
<1>3. PICK j \in DOMAIN h : h[j] = d
  BY <1>1 DEF HashRight
<1>4. ~ (i < j) /\ ~ (j < i)
  BY <1>2, <1>3 DEF ReuseRight
<1>5. i \in Nat /\ j \in Nat
  BY DEF LinksTyped
<1>6. i = j
  BY <1>4, <1>5
<1> QED  BY <1>2, <1>3, <1>6

LEMMA GroupLeft ==
    ASSUME NEW s, NEW h, NEW sl, NEW sk, NEW at, NEW bd, NEW dn, NEW g,
           LinksRight(s, h, sl, sk, at, bd, dn, g), NEW c \in g.members,
           NEW g2, g2 = [members |-> g.members \ {c}, mboxes |-> g.mboxes \ {s[c].mbox}]
    PROVE  g2 \in AGroup /\ GroupRight(s, g2)
<1>1. g.members \in SUBSET Client /\ g.mboxes \in SUBSET Fd
  BY DEF LinksRight, LinksTyped, AGroup
<1>2. g.members \subseteq Authorized(s) /\ g.mboxes = {s[d].mbox : d \in g.members}
  BY DEF LinksRight, GroupRight
<1>3. ASSUME NEW d \in g.members, s[d].mbox = s[c].mbox PROVE d = c
  BY <1>3, OwnMailbox
<1>4. g2.mboxes = {s[d].mbox : d \in g2.members}
  <2>1. \A x : x \in g2.mboxes <=> x \in {s[d].mbox : d \in g.members} /\ x # s[c].mbox
    BY <1>2
  <2>2. \A x : x \in {s[d].mbox : d \in g2.members} <=> \E d \in g.members : d # c /\ x = s[d].mbox
    OBVIOUS
  <2>3. \A x : x \in g2.mboxes <=> x \in {s[d].mbox : d \in g2.members}
    BY <1>3, <2>1, <2>2
  <2> QED  BY <2>3
<1> QED  BY <1>1, <1>2, <1>4 DEF AGroup, GroupRight

LEMMA GroupJoined ==
    ASSUME NEW s, NEW h, NEW sl, NEW sk, NEW at, NEW bd, NEW dn, NEW g,
           LinksRight(s, h, sl, sk, at, bd, dn, g), NEW c \in Authorized(s),
           NEW g2, g2 = [members |-> g.members \cup {c}, mboxes |-> g.mboxes \cup {s[c].mbox}]
    PROVE  g2 \in AGroup /\ GroupRight(s, g2)
<1>1. g.members \in SUBSET Client /\ g.mboxes \in SUBSET Fd
  BY DEF LinksRight, LinksTyped, AGroup
<1>2. s[c].mbox \in Fd /\ c \in Client
  BY DEF LinksRight, SocketsRight, Authorized
<1> QED  BY <1>1, <1>2 DEF AGroup, GroupRight, LinksRight

\* The KILL message is taken off, the session leaves the group and is removed.
LEMMA TakenOut ==
    ASSUME NEW s, NEW h, NEW sl, NEW sk, NEW at, NEW bd, NEW dn, NEW g,
           LinksRight(s, h, sl, sk, at, bd, dn, g),
           dn # <<>>, NEW c \in Client, Head(dn) = KillMessage(c),
           NEW t \in [Client -> ASession],
           \A d \in Client : /\ t[d].mbox = s[d].mbox
                             /\ t[d].status = IF d = c THEN "none" ELSE s[d].status,
           NEW r, Without1(h, c, r),
           NEW g2, g2 = IF c \in g.members
                        THEN [members |-> g.members \ {c}, mboxes |-> g.mboxes \ {s[c].mbox}]
                        ELSE g
    PROVE  LinksRight(t, r, sl, sk, at, bd, Tail(dn), g2)
<1> USE DEF LinksRight
<1> DEFINE d == Tail(dn)
<1>1. /\ d \in Seq(RingMess) /\ Head(dn) = dn[1] /\ 1 \in DOMAIN dn
      /\ DOMAIN dn \subseteq Nat \ {0}
      /\ \A k \in DOMAIN d : k + 1 \in DOMAIN dn /\ d[k] = dn[k + 1] /\ k \in Nat
      /\ \A k \in DOMAIN dn : k # 1 => k - 1 \in DOMAIN d /\ d[k - 1] = dn[k]
  BY TailParts DEF LinksTyped
<1> HIDE DEF d
<1>2. s[c].status = "killed" /\ \A l \in DOMAIN dn : 1 < l => dn[l].who # c
  BY <1>1, KillParts DEF RingRight
<1>3. g2 \in AGroup /\ GroupRight(s, g2) /\ c \notin g2.members /\ g2.members \subseteq g.members
  <2>1. CASE c \in g.members
    <3>1. g2 = [members |-> g.members \ {c}, mboxes |-> g.mboxes \ {s[c].mbox}]
      BY <2>1
    <3>2. g2 \in AGroup /\ GroupRight(s, g2)
      BY <2>1, <3>1, GroupLeft
    <3> QED  BY <3>1, <3>2
  <2>2. CASE c \notin g.members
    BY <2>2 DEF LinksTyped
  <2> QED  BY <2>1, <2>2
<1>4. LinksTyped(t, r, sl, sk, at, bd, d, g2)
  BY <1>1, <1>3 DEF LinksTyped, Without1
<1>5. Sessions(t) = Sessions(s) \ {c} /\ Authorized(t) = Authorized(s) \ {c}
  BY DEF Sessions, Authorized
<1>6. SocketsRight(t, sl, sk)
  BY <1>2 DEF SocketsRight
<1>7. TableRight(t, sl)
  <2>1. IsFiniteSet(Sessions(s))
    BY NoneIsNone, FS_Subset, Zenon DEF Sessions
  <2>2. c \in Sessions(s)
    BY <1>2 DEF Sessions
  <2>3. /\ Cardinality(Sessions(t)) = Cardinality(Sessions(s)) - 1
        /\ Cardinality(Sessions(s)) \in Nat
    BY <1>5, <2>1, <2>2, FS_RemoveElement, FS_CardinalityType
  <2> QED  BY <1>5, <2>3, SessionAssumption DEF TableRight
<1>8. HashRight(t, r)
  <2>1. h \in Seq(Client) /\ HashRight(s, h) /\ \A e \in Client : e \in Sessions(t) <=> e \in Sessions(s) /\ e # c
    BY <1>5 DEF LinksTyped
  <2> HIDE DEF LinksRight
  <2> QED  BY <2>1, HashWithout
<1>9. \A l \in DOMAIN d : d[l].who # c /\ d[l].who \in Authorized(s)
  <2> SUFFICES ASSUME NEW l \in DOMAIN d PROVE d[l].who # c /\ d[l].who \in Authorized(s)
    OBVIOUS
  <2>1. l + 1 \in DOMAIN dn /\ d[l] = dn[l + 1] /\ 1 < l + 1
    BY <1>1
  <2> QED  BY <1>2, <2>1 DEF RingRight
<1>10. ASSUME NEW e \in Client, e # c, NEW k \in DOMAIN dn, dn[k] = KillMessage(e)
       PROVE  k # 1 /\ k - 1 \in DOMAIN d /\ d[k - 1] = KillMessage(e)
  BY <1>1, <1>10, KillParts
<1>11. RingRight(t, d)
  <2>1. \A k \in DOMAIN d : d[k].who \in Authorized(t)
    BY <1>5, <1>9
  <2>2. ASSUME NEW k \in DOMAIN d, d[k].type = "kill"
        PROVE  t[d[k].who].status = "killed" /\ \A l \in DOMAIN d : k < l => d[l].who # d[k].who
    <3>1. k + 1 \in DOMAIN dn /\ dn[k + 1].type = "kill" /\ d[k] = dn[k + 1] /\ d[k].who \in Client
      BY <1>1, <1>9, <2>2 DEF Authorized
    <3>2. s[d[k].who].status = "killed" /\ \A l \in DOMAIN dn : k + 1 < l => dn[l].who # d[k].who
      BY <3>1 DEF RingRight
    <3>3. ASSUME NEW l \in DOMAIN d, k < l PROVE d[l].who # d[k].who
      <4>1. l + 1 \in DOMAIN dn /\ d[l] = dn[l + 1] /\ k + 1 < l + 1
        BY <1>1, <3>3
      <4> QED  BY <3>2, <4>1
    <3> QED  BY <1>9, <3>1, <3>2, <3>3
  <2>3. ASSUME NEW e \in Client, t[e].status = "killed" PROVE \E k \in DOMAIN d : d[k] = KillMessage(e)
    <3>1. PICK k \in DOMAIN dn : dn[k] = KillMessage(e)
      BY <2>3 DEF RingRight
    <3>2. e # c
      BY <2>3
    <3> QED  BY <1>10, <3>1, <3>2
  <2> QED  BY <2>1, <2>2, <2>3 DEF RingRight
<1>12. ReuseRight(s, h, dn, g) /\ h \in Seq(Client)
  BY DEF LinksTyped
<1>13. \A e \in Client : e # c => t[e].status = s[e].status /\ t[e].mbox = s[e].mbox
  OBVIOUS
<1>14. ReuseRight(t, r, dn, g)
  <2> HIDE DEF LinksRight
  <2> QED  BY <1>12, <1>13, ReuseWithout, ZenonT(40)
<1>15. ReuseRight(t, r, d, g2)
  <2> SUFFICES ASSUME NEW i \in DOMAIN r, NEW j \in DOMAIN r, i < j, t[r[i]].mbox = t[r[j]].mbox
               PROVE  /\ t[r[j]].status = "killed" /\ r[i] \notin g2.members
                      /\ \E k \in DOMAIN d : /\ d[k] = KillMessage(r[j])
                                             /\ \A l \in DOMAIN d : l < k => d[l].who # r[i]
    BY DEF ReuseRight
  <2>1. r[j] \in Client /\ r[j] # c
    BY DEF Without1
  <2>2. t[r[j]].status = "killed" /\ r[i] \notin g.members
    BY <1>14 DEF ReuseRight
  <2>3. PICK k \in DOMAIN dn : dn[k] = KillMessage(r[j]) /\ \A l \in DOMAIN dn : l < k => dn[l].who # r[i]
    BY <1>14 DEF ReuseRight
  <2>4. k # 1 /\ k - 1 \in DOMAIN d /\ d[k - 1] = KillMessage(r[j])
    BY <1>10, <2>1, <2>3
  <2>5. ASSUME NEW l \in DOMAIN d, l < k - 1 PROVE d[l].who # r[i]
    <3>1. l + 1 \in DOMAIN dn /\ d[l] = dn[l + 1] /\ l + 1 < k
      BY <1>1, <2>5
    <3> QED  BY <2>3, <3>1
  <2> QED  BY <1>3, <2>2, <2>4, <2>5
<1>16. GroupRight(t, g2)
  <2>1. {t[e].mbox : e \in g2.members} = {s[e].mbox : e \in g2.members}
    BY <1>3 DEF AGroup
  <2> QED  BY <1>3, <1>5, <2>1 DEF GroupRight
<1>17. HandlersRight(t, sl, at)
  <2> SUFFICES ASSUME NEW fd \in Fd, at[fd] # "none"
               PROVE  \E e \in Client : t[e].mbox = fd /\ Serves(t, sl, e, at[fd])
    BY DEF HandlersRight
  <2>1. PICK e \in Client : s[e].mbox = fd /\ Serves(s, sl, e, at[fd])
    BY DEF HandlersRight
  <2>2. e # c
    BY <1>2, <2>1 DEF Serves, SocketsRight
  <2>3. t[e].mbox = fd /\ Serves(t, sl, e, at[fd])
    BY <2>1, <2>2 DEF Serves
  <2> QED  BY <2>3
<1>18. TimersRight(t, bd)
  BY <1>2 DEF TimersRight
<1> QED  BY <1>4, <1>6, <1>7, <1>8, <1>11, <1>15, <1>16, <1>17, <1>18 DEF d

-----------------------------------------------------------------------------
(***************************************************************************)
(* The units of messages, and what the kernel takes of them.               *)
(***************************************************************************)
AUnit == Given \X {"head", "body"}
Part(k) == IF k % 2 = 1 THEN "head" ELSE "body"
Two(m) == <<<<m, "head">>, <<m, "body">>>>

LEMMA Assoc ==
    ASSUME NEW a \in Seq(AUnit), NEW b \in Seq(AUnit), NEW c \in Seq(AUnit)
    PROVE  (a \o b) \o c = a \o (b \o c)
BY ConcatAssociative

LEMMA Halves ==
    ASSUME NEW x \in Nat
    PROVE  /\ x \div 2 \in Nat /\ x % 2 \in {0, 1} /\ x = 2 * (x \div 2) + (x % 2)
           /\ \A a \in Nat : (2 * a + x) \div 2 = a + x \div 2 /\ (2 * a + x) % 2 = x % 2
<1>1. x \div 2 \in Nat /\ x % 2 \in {0, 1} /\ x = 2 * (x \div 2) + (x % 2)
  OBVIOUS
<1>2. ASSUME NEW a \in Nat PROVE (2 * a + x) \div 2 = a + x \div 2 /\ (2 * a + x) % 2 = x % 2
  OBVIOUS
<1> QED  BY <1>1, <1>2

LEMMA UnitsParts ==
    ASSUME NEW ms \in Seq(Given)
    PROVE  /\ Units(ms) \in Seq(AUnit) /\ Len(Units(ms)) = 2 * Len(ms) /\ Len(ms) \in Nat
           /\ \A k \in 1 .. 2 * Len(ms) : /\ Units(ms)[k] = <<ms[(k + 1) \div 2], Part(k)>>
                                         /\ (k + 1) \div 2 \in 1 .. Len(ms)
<1>1. Len(ms) \in Nat /\ \A i \in 1 .. Len(ms) : ms[i] \in Given
  OBVIOUS
<1>2. \A k \in 1 .. 2 * Len(ms) : (k + 1) \div 2 \in 1 .. Len(ms)
  BY <1>1
<1>3. \A k \in 1 .. 2 * Len(ms) : <<ms[(k + 1) \div 2], Part(k)>> \in AUnit
  BY <1>1, <1>2 DEF AUnit, Part
<1>4. Units(ms) = [k \in 1 .. 2 * Len(ms) |-> <<ms[(k + 1) \div 2], Part(k)>>]
  BY DEF Units, Part
<1>5. Units(ms) \in [1 .. 2 * Len(ms) -> AUnit] /\ 2 * Len(ms) \in Nat
  BY <1>1, <1>3, <1>4
<1>6. Units(ms) \in Seq(AUnit) /\ Len(Units(ms)) = 2 * Len(ms)
  BY <1>5
<1> QED  BY <1>1, <1>2, <1>4, <1>6

LEMMA UnitsAppend ==
    ASSUME NEW ms \in Seq(Given), NEW m \in Given
    PROVE  Two(m) \in Seq(AUnit) /\ Units(Append(ms, m)) = Units(ms) \o Two(m)
<1> DEFINE a == Append(ms, m)
           n == Len(ms)
<1>1. a \in Seq(Given) /\ Len(a) = n + 1 /\ n \in Nat /\ a[n + 1] = m /\ \A i \in 1 .. n : a[i] = ms[i]
  BY AppendProperties
<1>2. <<m, "head">> \in AUnit /\ <<m, "body">> \in AUnit
  BY DEF AUnit
<1>3. Two(m) \in Seq(AUnit) /\ Len(Two(m)) = 2 /\ Two(m)[1] = <<m, "head">> /\ Two(m)[2] = <<m, "body">>
  BY <1>2 DEF Two
<1> HIDE DEF a
<1>4. /\ Units(a) \in Seq(AUnit) /\ Len(Units(a)) = 2 * n + 2
      /\ \A k \in 1 .. 2 * n + 2 : Units(a)[k] = <<a[(k + 1) \div 2], Part(k)>>
  <2>1. /\ Units(a) \in Seq(AUnit) /\ Len(Units(a)) = 2 * Len(a)
        /\ \A k \in 1 .. 2 * Len(a) : Units(a)[k] = <<a[(k + 1) \div 2], Part(k)>>
    BY <1>1, UnitsParts
  <2>2. 2 * Len(a) = 2 * n + 2
    BY <1>1
  <2> QED  BY <2>1, <2>2
<1>5. /\ Units(ms) \in Seq(AUnit) /\ Len(Units(ms)) = 2 * n
      /\ \A k \in 1 .. 2 * n : Units(ms)[k] = <<ms[(k + 1) \div 2], Part(k)>> /\ (k + 1) \div 2 \in 1 .. n
  BY UnitsParts
<1> DEFINE b == Units(ms) \o Two(m)
<1>6. /\ b \in Seq(AUnit) /\ Len(b) = 2 * n + 2
      /\ \A k \in 1 .. 2 * n + 2 : b[k] = IF k <= 2 * n THEN Units(ms)[k] ELSE Two(m)[k - 2 * n]
  <2>1. /\ b \in Seq(AUnit) /\ Len(b) = Len(Units(ms)) + Len(Two(m))
        /\ \A k \in 1 .. Len(Units(ms)) + Len(Two(m)) :
              b[k] = IF k <= Len(Units(ms)) THEN Units(ms)[k] ELSE Two(m)[k - Len(Units(ms))]
    BY <1>3, <1>5, ConcatProperties
  <2> QED  BY <1>1, <1>3, <1>5, <2>1
<1> HIDE DEF b, n
<1>7. ASSUME NEW k \in 1 .. 2 * n + 2 PROVE Units(a)[k] = b[k]
  <2>1. CASE k <= 2 * n
    <3>1. k \in 1 .. 2 * n
      BY <1>1, <2>1
    <3>2. (k + 1) \div 2 \in 1 .. n
      BY <1>1, <3>1
    <3> QED  BY <1>1, <1>4, <1>5, <1>6, <2>1, <3>1, <3>2
  <2>2. CASE k = 2 * n + 1
    <3>1. (k + 1) \div 2 = n + 1 /\ k % 2 = 1 /\ ~ (k <= 2 * n) /\ k - 2 * n = 1
      BY <1>1, <2>2
    <3> QED  BY <1>1, <1>3, <1>4, <1>6, <3>1 DEF Part
  <2>3. CASE k = 2 * n + 2
    <3>1. (k + 1) \div 2 = n + 1 /\ k % 2 = 0 /\ ~ (k <= 2 * n) /\ k - 2 * n = 2
      BY <1>1, <2>3
    <3> QED  BY <1>1, <1>3, <1>4, <1>6, <3>1 DEF Part
  <2> QED  BY <1>1, <2>1, <2>2, <2>3
<1>8. Units(a) = b
  BY <1>4, <1>6, <1>7, SeqEqual
<1> QED  BY <1>3, <1>8 DEF a, b

\* A session that has sent part of a message still has that message.
AtHead(s) == s \in ASession /\ (s.queue = <<>> => s.sent = 0)

LEMMA RestParts ==
    ASSUME NEW s, AtHead(s)
    PROVE  LET n == 2 * Len(s.queue) - s.sent
           IN  /\ n \in Nat /\ Rest(s) \in Seq(AUnit) /\ Len(Rest(s)) = n
               /\ \A k \in 1 .. n : Rest(s)[k] = Units(s.queue)[s.sent + k]
<1> DEFINE u == Units(s.queue)
           l == 2 * Len(s.queue)
<1>1. s.queue \in Seq(Given) /\ s.sent \in {0, 1} /\ (s.queue = <<>> => s.sent = 0)
  BY DEF AtHead, ASession
<1>2. u \in Seq(AUnit) /\ Len(u) = l /\ l \in Nat
  BY <1>1, UnitsParts
<1>3. l - s.sent \in Nat
  <2>1. s.queue # <<>> => Len(s.queue) >= 1
    BY <1>1, EmptySeq
  <2> QED  BY <1>1, <1>2, <2>1
<1>4. Rest(s) = SubSeq(u, s.sent + 1, l)
  BY DEF Rest
<1> HIDE DEF u, l
<1>5. \A i \in s.sent + 1 .. l : u[i] \in AUnit
  BY <1>1, <1>2
<1>6. /\ SubSeq(u, s.sent + 1, l) \in Seq(AUnit)
      /\ Len(SubSeq(u, s.sent + 1, l)) = l - s.sent
      /\ \A i \in 1 .. l - s.sent : SubSeq(u, s.sent + 1, l)[i] = u[s.sent + i]
  BY <1>1, <1>2, <1>3, <1>5, SubSeqProperties
<1> QED  BY <1>3, <1>4, <1>6 DEF u, l

LEMMA RestAppend ==
    ASSUME NEW s, AtHead(s), NEW m \in Given
    PROVE  LET t == [s EXCEPT !.queue = Append(@, m)]
           IN  AtHead(t) /\ Rest(t) = Rest(s) \o Two(m)
<1> DEFINE t == [s EXCEPT !.queue = Append(@, m)]
           q == s.queue
           n == 2 * Len(q) - s.sent
<1>1. s.queue \in Seq(Given) /\ s.sent \in {0, 1} /\ (s.queue = <<>> => s.sent = 0)
  BY DEF AtHead, ASession
<1>2. Append(q, m) \in Seq(Given) /\ Append(q, m) # <<>> /\ Len(Append(q, m)) = Len(q) + 1 /\ Len(q) \in Nat
  BY <1>1, AppendProperties
<1>3. t.queue = Append(q, m) /\ t.sent = s.sent /\ t \in ASession
  BY <1>2 DEF AtHead, ASession
<1>4. AtHead(t)
  BY <1>2, <1>3 DEF AtHead
<1>5. Units(Append(q, m)) = Units(q) \o Two(m) /\ Two(m) \in Seq(AUnit) /\ Len(Two(m)) = 2
  BY <1>1, UnitsAppend DEF Two
<1>6. Units(q) \in Seq(AUnit) /\ Len(Units(q)) = 2 * Len(q)
  BY <1>1, UnitsParts
<1>7. /\ n \in Nat /\ Rest(s) \in Seq(AUnit) /\ Len(Rest(s)) = n
      /\ \A k \in 1 .. n : Rest(s)[k] = Units(q)[s.sent + k]
  BY RestParts
<1> HIDE DEF t
<1>8. /\ Rest(t) \in Seq(AUnit) /\ Len(Rest(t)) = 2 * Len(t.queue) - t.sent
      /\ \A k \in 1 .. 2 * Len(t.queue) - t.sent : Rest(t)[k] = Units(t.queue)[t.sent + k]
  BY <1>4, RestParts
<1>9. /\ Len(Rest(t)) = n + 2
      /\ \A k \in 1 .. n + 2 : Rest(t)[k] = Units(Append(q, m))[s.sent + k]
  BY <1>1, <1>2, <1>3, <1>8
<1> DEFINE b == Rest(s) \o Two(m)
<1>10. /\ b \in Seq(AUnit) /\ Len(b) = n + 2
       /\ \A k \in 1 .. n + 2 : b[k] = IF k <= n THEN Rest(s)[k] ELSE Two(m)[k - n]
  <2>1. /\ b \in Seq(AUnit) /\ Len(b) = Len(Rest(s)) + Len(Two(m))
        /\ \A k \in 1 .. Len(Rest(s)) + Len(Two(m)) :
              b[k] = IF k <= Len(Rest(s)) THEN Rest(s)[k] ELSE Two(m)[k - Len(Rest(s))]
    BY <1>5, <1>7, ConcatProperties
  <2> QED  BY <1>5, <1>7, <2>1
<1>11. \A k \in 1 .. 2 * Len(q) + 2 : Units(Append(q, m))[k] = IF k <= 2 * Len(q) THEN Units(q)[k] ELSE Two(m)[k - 2 * Len(q)]
  <2> DEFINE u == Units(q) \o Two(m)
  <2>1. \A k \in 1 .. Len(Units(q)) + Len(Two(m)) :
              u[k] = IF k <= Len(Units(q)) THEN Units(q)[k] ELSE Two(m)[k - Len(Units(q))]
    BY <1>5, <1>6, ConcatProperties
  <2> QED  BY <1>2, <1>5, <1>6, <2>1
<1> HIDE DEF b
<1>12. ASSUME NEW k \in 1 .. n + 2 PROVE Rest(t)[k] = b[k]
  <2>1. s.sent + k \in 1 .. 2 * Len(q) + 2 /\ (s.sent + k) - 2 * Len(q) = k - n /\ (s.sent + k <= 2 * Len(q) <=> k <= n)
    BY <1>1, <1>2, <1>7, SMTT(30)
  <2>2. Rest(t)[k] = IF k <= n THEN Units(q)[s.sent + k] ELSE Two(m)[k - n]
    BY <1>9, <1>11, <2>1
  <2>3. CASE k <= n
    <3>1. k \in 1 .. n
      BY <1>7, <2>3
    <3> QED  BY <1>7, <1>10, <2>2, <2>3, <3>1
  <2>4. CASE ~ (k <= n)
    BY <1>10, <2>2, <2>4
  <2> QED  BY <2>3, <2>4
<1>13. Rest(t) = b
  BY <1>8, <1>9, <1>10, <1>12, SeqEqual
<1> QED  BY <1>4, <1>13 DEF b, t

LEMMA Splits ==
    ASSUME NEW r \in Seq(AUnit), NEW n \in 0 .. Len(r)
    PROVE  /\ SubSeq(r, 1, n) \in Seq(AUnit) /\ Len(SubSeq(r, 1, n)) = n
           /\ \A k \in 1 .. n : SubSeq(r, 1, n)[k] = r[k]
<1>1. \A k \in 1 .. n : r[k] \in AUnit
  OBVIOUS
<1> QED  BY <1>1, SubSeqProperties

LEMMA RestTaken ==
    ASSUME NEW s, AtHead(s), NEW n \in 0 .. Len(Rest(s))
    PROVE  /\ AtHead(Taken(s, n))
           /\ SubSeq(Rest(s), 1, n) \in Seq(AUnit)
           /\ SubSeq(Rest(s), 1, n) \o Rest(Taken(s, n)) = Rest(s)
<1> DEFINE q == s.queue
           x == s.sent + n
           a == x \div 2
           e == x % 2
           p == SubSeq(q, a + 1, Len(q))
           t == Taken(s, n)
<1>1. /\ q \in Seq(Given) /\ s.sent \in {0, 1} /\ (q = <<>> => s.sent = 0) /\ s \in ASession
      /\ Len(q) \in Nat /\ \A i \in 1 .. Len(q) : q[i] \in Given
  BY DEF AtHead, ASession
<1>2. /\ 2 * Len(q) - s.sent \in Nat /\ Rest(s) \in Seq(AUnit) /\ Len(Rest(s)) = 2 * Len(q) - s.sent
      /\ \A k \in 1 .. 2 * Len(q) - s.sent : Rest(s)[k] = Units(q)[s.sent + k]
  BY RestParts
<1>3. x \in Nat /\ x <= 2 * Len(q) /\ n \in Nat
  BY <1>1, <1>2
<1>4. a \in Nat /\ e \in {0, 1} /\ x = 2 * a + e /\ a <= Len(q) /\ x = s.sent + n
  <2> HIDE DEF x
  <2>1. a \in Nat /\ e \in {0, 1} /\ x = 2 * a + e
    BY <1>3, Halves
  <2>2. a <= Len(q)
    <3> HIDE DEF a, e
    <3> QED  BY <1>1, <1>3, <2>1
  <2> QED  BY <2>1, <2>2 DEF x
<1>5. p \in Seq(Given) /\ Len(p) = Len(q) - a /\ \A i \in 1 .. Len(q) - a : p[i] = q[a + i]
  <2> HIDE DEF a, q
  <2>1. \A i \in a + 1 .. Len(q) : q[i] \in Given
    BY <1>1, <1>4
  <2> QED  BY <1>1, <1>4, <2>1, SubSeqProperties
<1>6. t = [s EXCEPT !.queue = p, !.sent = e]
  BY DEF Taken, t, p, a, e, x
<1> HIDE DEF a, e, x, p, t
<1>7. t \in ASession /\ t.queue = p /\ t.sent = e
  BY <1>1, <1>4, <1>5, <1>6 DEF ASession
<1>8. AtHead(t)
  <2>1. ASSUME p = <<>> PROVE e = 0
    <3>1. Len(p) = 0
      BY <2>1
    <3> QED  BY <1>1, <1>3, <1>4, <1>5, <3>1
  <2> QED  BY <1>7, <2>1 DEF AtHead
<1> DEFINE m == 2 * Len(q) - x
<1>9. /\ Rest(t) \in Seq(AUnit) /\ Len(Rest(t)) = m /\ m \in Nat
      /\ \A k \in 1 .. m : Rest(t)[k] = Units(p)[e + k]
  <2>1. /\ Rest(t) \in Seq(AUnit) /\ Len(Rest(t)) = 2 * Len(p) - e
        /\ \A k \in 1 .. 2 * Len(p) - e : Rest(t)[k] = Units(p)[e + k]
    BY <1>7, <1>8, RestParts
  <2>2. ASSUME NEW l \in Nat, NEW y \in {0, 1}, x = y + n, a \in Nat, n \in Nat, e \in {0, 1},
               x = 2 * a + e, x <= 2 * l, NEW lp, lp = l - a
        PROVE  2 * lp - e = 2 * l - x /\ 2 * l - x \in Nat
    BY <2>2
  <2>3. 2 * Len(p) - e = m /\ m \in Nat
    BY <1>1, <1>3, <1>4, <1>5, <2>2
  <2> QED  BY <2>1, <2>3
<1> DEFINE l == Len(q)
           lp == Len(p)
           y == s.sent
<1>0. /\ l \in Nat /\ a \in Nat /\ e \in {0, 1} /\ n \in Nat /\ y \in {0, 1}
      /\ x = y + n /\ x = 2 * a + e /\ lp = l - a /\ m = 2 * l - x /\ m \in Nat
      /\ Len(Rest(s)) = 2 * l - y
  BY <1>1, <1>2, <1>3, <1>4, <1>5, <1>9
<1> HIDE DEF m, l, lp, y
<1>10. ASSUME NEW k \in 1 .. m PROVE Rest(t)[k] = Rest(s)[n + k]
  <2>0. e + k \in 1 .. 2 * lp /\ x + k \in 1 .. 2 * l /\ x + k = 2 * a + (e + k)
    BY <1>0
  <2>1. e + k \in 1 .. 2 * Len(p) /\ x + k \in 1 .. 2 * Len(q) /\ x + k = 2 * a + (e + k)
    BY <2>0 DEF l, lp
  <2>2. /\ Units(p)[e + k] = <<p[(e + k + 1) \div 2], Part(e + k)>>
        /\ (e + k + 1) \div 2 \in 1 .. Len(p)
    BY <1>5, <2>1, UnitsParts
  <2>3. Units(q)[x + k] = <<q[(x + k + 1) \div 2], Part(x + k)>>
    BY <1>1, <2>1, UnitsParts
  <2>4. (x + k + 1) \div 2 = a + ((e + k + 1) \div 2)
    <3>1. e + k + 1 \in Nat /\ x + k + 1 = 2 * a + (e + k + 1)
      BY <1>3, <1>4, <2>1
    <3> QED  BY <1>4, <3>1, Halves
  <2>5. Part(x + k) = Part(e + k)
    <3>1. e + k \in Nat /\ x + k = 2 * a + (e + k)
      BY <1>3, <1>4, <2>1
    <3>2. (x + k) % 2 = (e + k) % 2
      BY <1>4, <3>1, Halves
    <3> QED  BY <3>2 DEF Part
  <2>6. p[(e + k + 1) \div 2] = q[(x + k + 1) \div 2]
    BY <1>5, <2>2, <2>4
  <2>7. n + k \in 1 .. 2 * Len(q) - s.sent /\ s.sent + (n + k) = x + k
    <3>1. n + k \in 1 .. 2 * l - y /\ y + (n + k) = x + k
      BY <1>0
    <3> QED  BY <3>1 DEF l, y
  <2> QED  BY <1>2, <1>9, <2>2, <2>3, <2>5, <2>6, <2>7
<1> DEFINE f == SubSeq(Rest(s), 1, n)
           b == f \o Rest(t)
<1>11. f \in Seq(AUnit) /\ Len(f) = n /\ \A k \in 1 .. n : f[k] = Rest(s)[k]
  BY <1>2, Splits
<1> HIDE DEF f
<1>12. /\ b \in Seq(AUnit) /\ Len(b) = Len(f) + Len(Rest(t))
       /\ \A k \in 1 .. Len(f) + Len(Rest(t)) : b[k] = IF k <= Len(f) THEN f[k] ELSE Rest(t)[k - Len(f)]
  BY <1>9, <1>11, ConcatProperties
<1>13. Len(b) = Len(Rest(s))
  BY <1>0, <1>9, <1>11, <1>12
<1> HIDE DEF b
<1>14. ASSUME NEW k \in 1 .. Len(Rest(s)) PROVE b[k] = Rest(s)[k]
  <2>1. k \in 1 .. n + m /\ n + m = Len(f) + Len(Rest(t))
    BY <1>0, <1>9, <1>11, SMTT(30)
  <2>2. CASE k <= n
    BY <1>3, <1>11, <1>12, <2>1, <2>2
  <2>3. CASE ~ (k <= n)
    <3>1. k - n \in 1 .. m /\ n + (k - n) = k
      BY <1>3, <1>9, <2>1, <2>3
    <3>2. b[k] = Rest(t)[k - n]
      BY <1>11, <1>12, <2>1, <2>3
    <3> QED  BY <1>10, <3>1, <3>2
  <2> QED  BY <2>2, <2>3
<1>15. b = Rest(s)
  BY <1>2, <1>12, <1>13, <1>14, SeqEqual
<1> QED  BY <1>8, <1>11, <1>15 DEF b, f, t

\* The kernel takes n units of the backlog: the stream goes on as it was to.
LEMMA StreamTakes ==
    ASSUME NEW s, AtHead(s), NEW n \in 0 .. Len(Rest(s)), NEW st \in Seq(AUnit)
    PROVE  /\ AtHead(Taken(s, n))
           /\ Taken(s, n).status = s.status /\ Taken(s, n).mbox = s.mbox
           /\ st \o SubSeq(Rest(s), 1, n) \in Seq(AUnit)
           /\ (st \o SubSeq(Rest(s), 1, n)) \o Rest(Taken(s, n)) = st \o Rest(s)
<1> DEFINE f == SubSeq(Rest(s), 1, n)
           r == Rest(Taken(s, n))
<1>1. AtHead(Taken(s, n)) /\ f \in Seq(AUnit) /\ f \o r = Rest(s)
  BY RestTaken
<1>2. r \in Seq(AUnit)
  BY <1>1, RestParts
<1>3. Taken(s, n).status = s.status /\ Taken(s, n).mbox = s.mbox
  BY DEF Taken, AtHead, ASession
<1> HIDE DEF f, r
<1>4. (st \o f) \o r = st \o Rest(s)
  <2>1. (st \o f) \o r = st \o (f \o r)
    BY <1>1, <1>2, Assoc
  <2> QED  BY <1>1, <2>1, Zenon
<1>5. st \o f \in Seq(AUnit)
  BY <1>1, ConcatProperties
<1> QED  BY <1>1, <1>3, <1>4, <1>5 DEF f, r

\* What was sent and what is left are what was to be given, whole and in order.
Continues(s, st, w) ==
  AtHead(s) /\ st \in Seq(AUnit) /\ w \in Seq(Given) /\ st \o Rest(s) = Units(w)

\* t is s with one more message.
OneMore(s, t, m) ==
  AtHead(t) /\ Rest(t) = Rest(s) \o Two(m) /\ t.status = s.status /\ t.mbox = s.mbox

LEMMA GivenOne ==
    ASSUME NEW s, AtHead(s), NEW m \in Given
    PROVE  OneMore(s, [s EXCEPT !.queue = Append(@, m)], m)
<1> DEFINE t == [s EXCEPT !.queue = Append(@, m)]
<1>1. AtHead(t) /\ Rest(t) = Rest(s) \o Two(m)
  BY RestAppend
<1>2. t.status = s.status /\ t.mbox = s.mbox
  BY DEF AtHead, ASession
<1> QED  BY <1>1, <1>2 DEF OneMore

LEMMA StreamGiven ==
    ASSUME NEW s, NEW st, NEW w, Continues(s, st, w), NEW m \in Given,
           NEW t, OneMore(s, t, m), NEW n \in 0 .. Len(Rest(t))
    PROVE  Continues(Taken(t, n), st \o SubSeq(Rest(t), 1, n), Append(w, m))
<1>1. /\ AtHead(s) /\ st \in Seq(AUnit) /\ w \in Seq(Given) /\ st \o Rest(s) = Units(w)
      /\ AtHead(t) /\ Rest(t) = Rest(s) \o Two(m)
  BY DEF Continues, OneMore
<1>2. Rest(s) \in Seq(AUnit) /\ Two(m) \in Seq(AUnit) /\ Units(Append(w, m)) = Units(w) \o Two(m)
  BY <1>1, RestParts, UnitsAppend
<1>3. (st \o Rest(s)) \o Two(m) = st \o (Rest(s) \o Two(m))
  BY <1>1, <1>2, Assoc
<1>4. st \o Rest(t) = Units(Append(w, m))
  BY <1>1, <1>2, <1>3
<1>5. /\ AtHead(Taken(t, n)) /\ st \o SubSeq(Rest(t), 1, n) \in Seq(AUnit)
      /\ (st \o SubSeq(Rest(t), 1, n)) \o Rest(Taken(t, n)) = st \o Rest(t)
  BY <1>1, StreamTakes
<1>6. Append(w, m) \in Seq(Given)
  BY <1>1, AppendProperties
<1> QED  BY <1>4, <1>5, <1>6 DEF Continues

LEMMA TakenKeeps ==
    ASSUME NEW s, AtHead(s), NEW n
    PROVE  Taken(s, n).status = s.status /\ Taken(s, n).mbox = s.mbox
BY DEF Taken, AtHead, ASession

-----------------------------------------------------------------------------
(***************************************************************************)
(* Writing: some sessions are killed, the others are given a message.      *)
(***************************************************************************)
LEMMA KillsMade ==
    ASSUME NEW K \in SUBSET Client
    PROVE  KillsOf(KillMessages(K), K)
<1> DEFINE n == Cardinality(K)
           f == SetToSeq(K)
           ks == KillMessages(K)
<1>1. IsFiniteSet(K) /\ n \in Nat /\ ExistsBijection(1 .. n, K)
  BY NoneIsNone, FS_Subset, FS_CardinalityType
<1>2. \E x \in [1 .. n -> K] : IsInjective(x)
  BY <1>1 DEF ExistsBijection, Bijection, Injection
<1>3. f \in [1 .. n -> K] /\ IsInjective(f)
  BY <1>2 DEF SetToSeq
<1> HIDE DEF f
<1>4. f \in Injection(1 .. n, K)
  BY <1>3 DEF Injection
<1>5. Cardinality(1 .. n) = n
  BY <1>1, FS_Interval
<1>6. f \in Surjection(1 .. n, K)
  BY <1>1, <1>4, <1>5, FS_Injection
<1>7. \A c \in K : \E k \in 1 .. n : f[k] = c
  BY <1>6 DEF Surjection
<1>8. ks = [i \in 1 .. n |-> KillMessage(f[i])]
  BY <1>3 DEF KillMessages, f
<1>9. \A i \in 1 .. n : f[i] \in K /\ f[i] \in Client
  BY <1>3
<1> HIDE DEF n, ks
<1>10. ks \in [1 .. n -> RingMess] /\ ks \in Seq(RingMess) /\ DOMAIN ks = 1 .. n
  BY <1>1, <1>8, <1>9, KillParts
<1>11. \A i \in 1 .. n : ks[i] = KillMessage(f[i]) /\ ks[i].who = f[i]
  BY <1>8, <1>9, KillParts
<1>12. \A k \in DOMAIN ks : \E c \in K : ks[k] = KillMessage(c)
  BY <1>9, <1>10, <1>11
<1>13. \A c \in K : \E k \in DOMAIN ks : ks[k] = KillMessage(c)
  BY <1>7, <1>10, <1>11
<1>14. \A k, l \in DOMAIN ks : ks[k] = ks[l] => k = l
  BY <1>3, <1>10, <1>11 DEF IsInjective
<1> QED  BY <1>10, <1>12, <1>13, <1>14 DEF KillsOf, ks

StreamsTyped(st, wr) == st \in [Client -> Seq(AUnit)] /\ wr \in [Client -> Seq(Given)]

LEMMA KilledParts ==
    ASSUME NEW s \in ASession
    PROVE  /\ Killed(s) \in ASession /\ Killed(s).status = "killed" /\ Killed(s).mbox = s.mbox
<1>1. <<>> \in Seq(Given)
  BY EmptySeq
<1> QED  BY <1>1 DEF Killed, ASession

LEMMA Write ==
    ASSUME NEW tab, NEW T \in SUBSET Client, NEW m, T = {} \/ m \in Given, NEW pop \in BOOLEAN,
           NEW h, NEW g, NEW dn, dn = IF pop THEN Tail(down) ELSE down,
           LinksRight(tab, h, slot, sock, attached, badger, dn, g),
           \A c \in Client : tab[c].mbox = ses[c].mbox,
           StreamsRight(tab, badger, stream, written), StreamsTyped(stream, written), unsent \in Nat,
           Sess_write(tab, T, m, pop)
    PROVE  /\ LinksRight(ses', h, slot, sock', attached', badger', down', g)
           /\ StreamsRight(ses', badger', stream', written')
           /\ StreamsTyped(stream', written') /\ unsent' \in Nat
<1> DEFINE op == {c \in T : tab[c].status = "op"}
           kill == {c \in op : Full(tab[c])}
           to == op \ kill
           new(c) == [tab[c] EXCEPT !.queue = Append(@, m)]
<1>1. PICK n \in [to -> 0 .. (2 * MAX_SESSION_MESSAGES)] :
        /\ \A c \in to : n[c] <= Len(Rest(new(c)))
        /\ ses' = [c \in Client |-> IF c \in kill THEN Killed(tab[c])
                                    ELSE IF c \in to THEN Taken(new(c), n[c]) ELSE tab[c]]
        /\ stream' = [c \in Client |-> IF c \in to
                        THEN stream[c] \o SubSeq(Rest(new(c)), 1, n[c])
                        ELSE IF c \in kill THEN <<>> ELSE stream[c]]
        /\ written' = [c \in Client |-> IF c \in to THEN Append(written[c], m)
                                        ELSE IF c \in kill THEN <<>> ELSE written[c]]
        /\ badger' = (badger \ {ses[c].mbox : c \in kill})
                       \cup {ses[c].mbox : c \in {x \in to : ses'[x].queue # <<>>}}
        /\ attached' = [fd \in Fd |-> IF \E c \in kill : ses[c].mbox = fd THEN "none" ELSE attached[fd]]
        /\ sock' = Close(kill)
        /\ Prot_new_message(KillMessages(kill), pop)
  BY Zenon DEF Sess_write
<1>2. /\ kill \in SUBSET {c \in Client : tab[c].status = "op"}
      /\ to \in SUBSET {c \in Client : tab[c].status = "op"} /\ kill \cap to = {} /\ kill \in SUBSET Client
      /\ (to # {} => m \in Given)
  OBVIOUS
<1> HIDE DEF op, kill, to, new
<1>3. tab \in [Client -> ASession] /\ badger \in SUBSET Fd
  BY DEF LinksRight, LinksTyped
<1>4. ASSUME NEW c \in to
      PROVE  /\ ses'[c] \in ASession /\ ses'[c].status = "op" /\ ses'[c].mbox = tab[c].mbox
             /\ stream'[c] \in Seq(AUnit) /\ written'[c] \in Seq(Given)
             /\ stream'[c] \o Rest(ses'[c]) = Units(written'[c])
             /\ (ses'[c].queue = <<>> => ses'[c].sent = 0)
             /\ (ses'[c].queue # <<>> => ses'[c].mbox \in badger')
  <2>1. c \in Client /\ c \notin kill /\ tab[c].status = "op" /\ m \in Given
    BY <1>2
  <2>2. /\ ses'[c] = Taken(new(c), n[c]) /\ written'[c] = Append(written[c], m)
        /\ stream'[c] = stream[c] \o SubSeq(Rest(new(c)), 1, n[c])
    BY <1>1, <2>1
  <2>3. Continues(tab[c], stream[c], written[c])
    BY <1>3, <2>1 DEF StreamsRight, AtHead, StreamsTyped, Continues
  <2>4. OneMore(tab[c], new(c), m)
    BY <2>1, <2>3, GivenOne DEF new, Continues
  <2>5. AtHead(new(c)) /\ new(c).status = tab[c].status /\ new(c).mbox = tab[c].mbox
    BY <2>4 DEF OneMore
  <2>6. Len(Rest(new(c))) \in Nat
    BY <2>5, RestParts
  <2>7. n[c] \in 0 .. Len(Rest(new(c)))
    BY <1>1, <2>6, SessionAssumption
  <2>8. Continues(ses'[c], stream'[c], written'[c])
    BY <2>1, <2>2, <2>3, <2>4, <2>7, StreamGiven
  <2>9. ses'[c].status = tab[c].status /\ ses'[c].mbox = tab[c].mbox
    BY <2>2, <2>5, TakenKeeps
  <2>10. ses'[c].queue # <<>> => ses'[c].mbox \in badger'
    BY <1>1, <2>1, <2>9
  <2> QED  BY <2>1, <2>8, <2>9, <2>10 DEF AtHead, Continues
<1>5. ASSUME NEW c \in kill
      PROVE  /\ ses'[c] \in ASession /\ ses'[c].status = "killed" /\ ses'[c].mbox = tab[c].mbox
             /\ stream'[c] = <<>> /\ written'[c] = <<>>
  <2>1. c \in Client /\ c \notin to
    BY <1>2
  <2>2. ses'[c] = Killed(tab[c]) /\ stream'[c] = <<>> /\ written'[c] = <<>>
    BY <1>1, <2>1
  <2>3. tab[c] \in ASession
    BY <1>3, <2>1
  <2> QED  BY <2>2, <2>3, KilledParts
<1>6. ASSUME NEW c \in Client, c \notin kill, c \notin to
      PROVE  ses'[c] = tab[c] /\ stream'[c] = stream[c] /\ written'[c] = written[c]
  BY <1>1, <1>6
<1>7. \A c \in Client : c \in kill \/ c \in to \/ (c \notin kill /\ c \notin to)
  OBVIOUS
<1>8. /\ DOMAIN ses' = Client /\ DOMAIN stream' = Client /\ DOMAIN written' = Client
      /\ ses' = [c \in Client |-> ses'[c]]
  BY <1>1
<1>9. ses' \in [Client -> ASession]
  <2>1. \A c \in Client : ses'[c] \in ASession
    BY <1>3, <1>4, <1>5, <1>6
  <2> QED  BY <1>8, <2>1
<1>10. StreamsTyped(stream', written')
  <2>1. <<>> \in Seq(AUnit) /\ <<>> \in Seq(Given)
    BY EmptySeq
  <2>2. \A c \in Client : stream'[c] \in Seq(AUnit) /\ written'[c] \in Seq(Given)
    BY <1>4, <1>5, <1>6, <2>1 DEF StreamsTyped
  <2>3. stream' = [c \in Client |-> stream'[c]] /\ written' = [c \in Client |-> written'[c]]
    BY <1>1
  <2> QED  BY <2>2, <2>3 DEF StreamsTyped
<1>11. \A c \in Client : /\ ses'[c].mbox = tab[c].mbox
                         /\ ses'[c].status = IF c \in kill THEN "killed" ELSE tab[c].status
  BY <1>2, <1>4, <1>5, <1>6, ZenonT(40)
<1>12. sock' = [c \in Client |-> IF c \in kill THEN "closed" ELSE sock[c]]
  BY <1>1 DEF Close
<1>13. attached' = [fd \in Fd |-> IF \E c \in kill : tab[c].mbox = fd THEN "none" ELSE attached[fd]]
  <2>1. \A c \in kill : tab[c].mbox = ses[c].mbox
    BY <1>2
  <2> QED  BY <1>1, <2>1
<1>14. /\ badger' \in SUBSET Fd
       /\ \A fd \in badger' : \/ fd \in badger /\ ~ \E c \in kill : tab[c].mbox = fd
                              \/ \E d \in Client : ses'[d].status = "op" /\ ses'[d].mbox = fd
  <2>1. ASSUME NEW c \in to PROVE c \in Client /\ ses[c].mbox = ses'[c].mbox /\ ses'[c].status = "op" /\ ses[c].mbox \in Fd
    <3>1. c \in Client /\ tab[c].status = "op"
      BY <1>2
    <3>2. tab[c].mbox \in Fd
      BY <3>1 DEF LinksRight, SocketsRight
    <3> QED  BY <1>4, <3>1, <3>2
  <2>2. \A c \in kill : tab[c].mbox = ses[c].mbox
    BY <1>2
  <2>3. \A fd : fd \in badger' <=> \/ fd \in badger /\ ~ \E c \in kill : ses[c].mbox = fd
                                  \/ \E d \in to : ses'[d].queue # <<>> /\ ses[d].mbox = fd
    BY <1>1
  <2>4. \A fd \in badger' : \/ fd \in badger /\ ~ \E c \in kill : tab[c].mbox = fd
                            \/ \E d \in Client : ses'[d].status = "op" /\ ses'[d].mbox = fd
    BY <2>1, <2>2, <2>3
  <2>5. \A fd \in badger' : fd \in Fd
    BY <1>3, <2>1, <2>3
  <2>6. badger' \in SUBSET Fd
    BY <2>5, Zenon
  <2> QED  BY <2>4, <2>6
<1>15. /\ down' = dn \o KillMessages(kill) /\ unsent' = unsent + Len(KillMessages(kill))
  BY <1>1 DEF Prot_new_message
<1>16. KillsOf(KillMessages(kill), kill)
  BY <1>2, KillsMade
<1>17. LinksRight(ses', h, slot, sock', attached', badger', down', g)
  <2> DEFINE t == ses'
             sk == sock'
             at == attached'
             bd == badger'
             ks == KillMessages(kill)
  <2> HIDE DEF t, sk, at, bd, ks
  <2>1. /\ t \in [Client -> ASession] /\ bd \in SUBSET Fd /\ KillsOf(ks, kill)
        /\ sk = [c \in Client |-> IF c \in kill THEN "closed" ELSE sock[c]]
        /\ at = [fd \in Fd |-> IF \E c \in kill : tab[c].mbox = fd THEN "none" ELSE attached[fd]]
    BY <1>9, <1>12, <1>13, <1>14, <1>16 DEF t, sk, at, bd, ks
  <2>2. \A c \in Client : /\ t[c].mbox = tab[c].mbox
                          /\ t[c].status = IF c \in kill THEN "killed" ELSE tab[c].status
    BY <1>11 DEF t
  <2>3. \A fd \in bd : \/ fd \in badger /\ ~ \E c \in kill : tab[c].mbox = fd
                       \/ \E c \in Client : t[c].status = "op" /\ t[c].mbox = fd
    BY <1>14 DEF t, bd
  <2>4. LinksRight(t, h, slot, sk, at, bd, dn \o ks, g)
    BY <1>2, <2>1, <2>2, <2>3, Kills, SMTT(30)
  <2> QED  BY <1>15, <2>4 DEF t, sk, at, bd, ks
<1>18. StreamsRight(ses', badger', stream', written')
  <2> SUFFICES ASSUME NEW c \in Client
               PROVE  IF ses'[c].status = "op"
                      THEN /\ stream'[c] \o Rest(ses'[c]) = Units(written'[c])
                           /\ ses'[c].queue # <<>> => ses'[c].mbox \in badger'
                           /\ ses'[c].queue = <<>> => ses'[c].sent = 0
                      ELSE stream'[c] = <<>> /\ written'[c] = <<>>
    BY DEF StreamsRight
  <2>1. CASE c \in to
    BY <1>4, <2>1
  <2>2. CASE c \in kill
    BY <1>5, <2>2
  <2>3. CASE c \notin kill /\ c \notin to
    <3>1. ses'[c] = tab[c] /\ stream'[c] = stream[c] /\ written'[c] = written[c]
      BY <1>6, <2>3
    <3>2. tab[c].status = "op" /\ tab[c].mbox \in badger => tab[c].mbox \in badger'
      <4> SUFFICES ASSUME tab[c].status = "op", tab[c].mbox \in badger PROVE tab[c].mbox \in badger'
        OBVIOUS
      <4>1. ASSUME NEW d \in kill PROVE ses[d].mbox # tab[c].mbox
        <5>1. d \in Client /\ tab[d].status = "op" /\ tab[d].mbox = ses[d].mbox /\ d # c
          BY <1>2, <2>3
        <5> QED  BY <5>1 DEF LinksRight, SocketsRight
      <4> QED  BY <1>1, <4>1
    <3> QED  BY <3>1, <3>2 DEF StreamsRight
  <2> QED  BY <2>1, <2>2, <2>3
<1>19. unsent' \in Nat
  BY <1>15, <1>16 DEF KillsOf
<1> QED  BY <1>10, <1>17, <1>18, <1>19

-----------------------------------------------------------------------------
(***************************************************************************)
(* Connections that are not sessions yet.                                  *)
(***************************************************************************)
LEMMA NotYet ==
    ASSUME NEW s, NEW h, NEW sl, NEW sk, NEW at, NEW bd, NEW dn, NEW g,
           LinksRight(s, h, sl, sk, at, bd, dn, g),
           NEW c \in Client, sk[c] \in {"none", "backlog"} \/ c = sl
    PROVE  s[c].status = "none" /\ (sk[c] = "open" <=> c = sl)
BY DEF LinksRight, LinksTyped, SocketsRight, ASession

LEMMA Waits ==
    ASSUME NEW s, NEW h, NEW sl, NEW sk, NEW at, NEW bd, NEW dn, NEW g,
           LinksRight(s, h, sl, sk, at, bd, dn, g),
           NEW c \in Client, sk[c] \in {"none", "backlog"},
           NEW how \in {"backlog", "closed"}, NEW sk2, sk2 = [sk EXCEPT ![c] = how]
    PROVE  LinksRight(s, h, sl, sk2, at, bd, dn, g)
<1>1. s[c].status = "none" /\ sk[c] # "open" /\ c # sl
  BY NotYet
<1>2. LinksTyped(s, h, sl, sk2, at, bd, dn, g)
  BY DEF LinksRight, LinksTyped
<1>3. SocketsRight(s, sl, sk2)
  BY <1>1 DEF LinksRight, LinksTyped, SocketsRight
<1> QED  BY <1>2, <1>3 DEF LinksRight

LEMMA Accepts ==
    ASSUME NEW s, NEW h, NEW sk, NEW at, NEW bd, NEW dn, NEW g,
           LinksRight(s, h, None, sk, at, bd, dn, g),
           NEW c \in Client, sk[c] = "backlog", Cardinality(Sessions(s)) # MAX_SESSIONS,
           NEW fd \in Fd, \A d \in Client : sk[d] = "open" => s[d].mbox # fd,
           NEW t \in [Client -> ASession],
           \A d \in Client : /\ t[d].status = s[d].status
                             /\ t[d].mbox = IF d = c THEN fd ELSE s[d].mbox,
           NEW sk2, sk2 = [sk EXCEPT ![c] = "open"], NEW at2, at2 = [at EXCEPT ![fd] = "accept"]
    PROVE  LinksRight(t, h, c, sk2, at2, bd, dn, g)
<1>1. s[c].status = "none" /\ sk[c] # "open" /\ None \notin Client
  BY NotYet, NoneIsNone
<1> USE DEF LinksRight
<1>2. s \in [Client -> ASession] /\ sk \in [Client -> {"none", "backlog", "open", "closed"}] /\ at \in [Fd -> {"none", "accept", "auth", "pword", "read"}]
  BY DEF LinksTyped
<1>3. /\ t \in [Client -> ASession] /\ t[c].mbox = fd /\ t[c].status = "none"
      /\ \A d \in Client : t[d].status = s[d].status /\ (d # c => t[d].mbox = s[d].mbox)
  BY <1>1, <1>2 DEF ASession
<1>4. /\ sk2 \in [Client -> {"none", "backlog", "open", "closed"}] /\ sk2[c] = "open"
      /\ \A d \in Client : d # c => sk2[d] = sk[d]
  BY <1>2
<1>5. /\ at2 \in [Fd -> {"none", "accept", "auth", "pword", "read"}] /\ at2[fd] = "accept"
      /\ \A e \in Fd : e # fd => at2[e] = at[e]
  BY <1>2
<1> HIDE DEF LinksRight
<1>6. LinksTyped(t, h, c, sk2, at2, bd, dn, g)
  BY <1>3, <1>4, <1>5 DEF LinksRight, LinksTyped
<1>7. SocketsRight(t, c, sk2)
  <2>1. \A d \in Client : d # c /\ sk2[d] = "open" => t[d].mbox # t[c].mbox
    BY <1>3, <1>4
  <2> QED  BY <1>1, <1>3, <1>4, <2>1 DEF LinksRight, SocketsRight
<1>8. Sessions(t) = Sessions(s) /\ Authorized(t) = Authorized(s) /\ c \notin Sessions(s) /\ c \notin Authorized(s)
  BY <1>1, <1>3 DEF Sessions, Authorized
<1>9. TableRight(t, c)
  <2>1. Cardinality(Sessions(s)) <= MAX_SESSIONS /\ Cardinality(Sessions(s)) \in Nat /\ MAX_SESSIONS \in Nat
    BY NoneIsNone, FS_Subset, FS_CardinalityType, SessionAssumption DEF LinksRight, TableRight, Sessions
  <2>2. Cardinality(Sessions(s)) < MAX_SESSIONS
    BY <2>1
  <2>3. \A d, e \in Sessions(s) : NameOf[d] = NameOf[e] => d = e
    BY DEF LinksRight, TableRight
  <2> QED  BY <1>8, <2>1, <2>2, <2>3 DEF TableRight
<1>10. HashRight(t, h)
  BY <1>8 DEF LinksRight, HashRight
<1>11. \A i \in DOMAIN h : h[i] \in Client /\ h[i] # c
  BY <1>8 DEF LinksRight, LinksTyped, HashRight
<1>12. ReuseRight(t, h, dn, g)
  <2>1. \A i \in DOMAIN h : t[h[i]].mbox = s[h[i]].mbox /\ t[h[i]].status = s[h[i]].status
    BY <1>3, <1>11
  <2> QED  BY <2>1 DEF LinksRight, ReuseRight
<1>13. RingRight(t, dn)
  BY <1>3, <1>8, MessParts DEF LinksRight, LinksTyped, RingRight
<1>14. GroupRight(t, g)
  <2>1. g.members \in SUBSET Client /\ g.members \subseteq Authorized(s)
    BY DEF LinksRight, LinksTyped, AGroup, GroupRight
  <2>2. {t[d].mbox : d \in g.members} = {s[d].mbox : d \in g.members}
    BY <1>3, <1>8, <2>1
  <2> QED  BY <1>8, <2>1, <2>2 DEF LinksRight, GroupRight
<1>15. HandlersRight(t, c, at2)
  <2> SUFFICES ASSUME NEW e \in Fd, at2[e] # "none"
               PROVE  \E d \in Client : t[d].mbox = e /\ Serves(t, c, d, at2[e])
    BY DEF HandlersRight
  <2>1. CASE e = fd
    BY <1>3, <1>5, <2>1 DEF Serves
  <2>2. CASE e # fd
    <3>1. at2[e] = at[e] /\ at[e] # "none"
      BY <1>5, <2>2
    <3>2. PICK d \in Client : s[d].mbox = e /\ Serves(s, None, d, at[e])
      BY <3>1 DEF LinksRight, HandlersRight
    <3>3. s[d].status \in {"preauth", "op"} /\ d # c
      BY <1>1, <3>2 DEF Serves
    <3>4. Serves(t, c, d, at2[e]) /\ t[d].mbox = e
      BY <1>1, <1>3, <3>1, <3>2, <3>3 DEF Serves
    <3> QED  BY <3>4
  <2> QED  BY <2>1, <2>2
<1>16. TimersRight(t, bd)
  BY <1>1, <1>3 DEF LinksRight, LinksTyped, TimersRight
<1> QED  BY <1>6, <1>7, <1>9, <1>10, <1>12, <1>13, <1>14, <1>15, <1>16 DEF LinksRight

LEMMA Rejects ==
    ASSUME NEW s, NEW h, NEW c \in Client, NEW sk, NEW at, NEW bd, NEW dn, NEW g,
           LinksRight(s, h, c, sk, at, bd, dn, g),
           NEW sk2, sk2 = [sk EXCEPT ![c] = "closed"],
           NEW at2, at2 = [at EXCEPT ![s[c].mbox] = "none"]
    PROVE  LinksRight(s, h, None, sk2, at2, bd, dn, g)
<1>1. s[c].status = "none" /\ sk[c] = "open" /\ None \notin Client /\ s[c].mbox \in Fd
  BY NotYet, NoneIsNone DEF LinksRight, SocketsRight
<1>2. sk \in [Client -> {"none", "backlog", "open", "closed"}] /\ at \in [Fd -> {"none", "accept", "auth", "pword", "read"}]
  BY DEF LinksRight, LinksTyped
<1>3. /\ sk2 \in [Client -> {"none", "backlog", "open", "closed"}] /\ sk2[c] = "closed"
      /\ \A d \in Client : d # c => sk2[d] = sk[d]
  BY <1>2
<1>4. /\ at2 \in [Fd -> {"none", "accept", "auth", "pword", "read"}] /\ at2[s[c].mbox] = "none"
      /\ \A e \in Fd : e # s[c].mbox => at2[e] = at[e]
  BY <1>1, <1>2
<1>5. LinksTyped(s, h, None, sk2, at2, bd, dn, g)
  BY <1>3, <1>4 DEF LinksRight, LinksTyped
<1>6. SocketsRight(s, None, sk2)
  BY <1>1, <1>3 DEF LinksRight, SocketsRight
<1>7. TableRight(s, None)
  BY DEF LinksRight, TableRight
<1>8. HandlersRight(s, None, at2)
  <2> SUFFICES ASSUME NEW e \in Fd, at2[e] # "none"
               PROVE  \E d \in Client : s[d].mbox = e /\ Serves(s, None, d, at2[e])
    BY DEF HandlersRight
  <2>1. e # s[c].mbox /\ at2[e] = at[e]
    BY <1>4
  <2>2. PICK d \in Client : s[d].mbox = e /\ Serves(s, c, d, at[e])
    BY <2>1 DEF LinksRight, HandlersRight
  <2>3. Serves(s, None, d, at2[e])
    BY <2>1, <2>2 DEF Serves
  <2> QED  BY <2>2, <2>3
<1> QED  BY <1>5, <1>6, <1>7, <1>8 DEF LinksRight

-----------------------------------------------------------------------------
(***************************************************************************)
(* Sessions that are entered, authorized or denied.                        *)
(***************************************************************************)
LEMMA Shifted ==
    ASSUME NEW h \in Seq(Client), NEW c \in Client
    PROVE  /\ <<c>> \o h \in Seq(Client) /\ 1 \in DOMAIN (<<c>> \o h) /\ (<<c>> \o h)[1] = c
           /\ DOMAIN (<<c>> \o h) \subseteq Nat \ {0}
           /\ \A i \in DOMAIN (<<c>> \o h) : i # 1 =>
                i - 1 \in DOMAIN h /\ (<<c>> \o h)[i] = h[i - 1]
           /\ \A i \in DOMAIN h : i + 1 \in DOMAIN (<<c>> \o h) /\ (<<c>> \o h)[i + 1] = h[i]
<1>1. <<c>> \in Seq(Client) /\ Len(<<c>>) = 1 /\ <<c>>[1] = c
  OBVIOUS
<1>2. /\ <<c>> \o h \in Seq(Client) /\ Len(<<c>> \o h) = 1 + Len(h)
      /\ \A i \in 1 .. 1 + Len(h) : (<<c>> \o h)[i] = IF i <= 1 THEN c ELSE h[i - 1]
  BY <1>1, ConcatProperties
<1>3. DOMAIN h = 1 .. Len(h) /\ DOMAIN (<<c>> \o h) = 1 .. 1 + Len(h) /\ Len(h) \in Nat
  BY <1>2, LenProperties
<1>4. ASSUME NEW i \in DOMAIN (<<c>> \o h), i # 1 PROVE i - 1 \in DOMAIN h /\ (<<c>> \o h)[i] = h[i - 1]
  BY <1>2, <1>3, <1>4
<1>5. ASSUME NEW i \in DOMAIN h PROVE i + 1 \in DOMAIN (<<c>> \o h) /\ (<<c>> \o h)[i + 1] = h[i]
  <2>1. i + 1 \in 1 .. 1 + Len(h) /\ ~ (i + 1 <= 1) /\ (i + 1) - 1 = i
    BY <1>3
  <2> QED  BY <1>2, <1>3, <2>1
<1> QED  BY <1>2, <1>3, <1>4, <1>5

LEMMA Admits ==
    ASSUME NEW s, NEW h, NEW c \in Client, NEW sk, NEW at, NEW bd, NEW dn, NEW g,
           LinksRight(s, h, c, sk, at, bd, dn, g),
           \A d \in Sessions(s) : NameOf[d] # NameOf[c],
           NEW how \in {"preauth", "op"},
           NEW t \in [Client -> ASession],
           \A d \in Client : /\ t[d].mbox = s[d].mbox
                             /\ t[d].status = IF d = c THEN how ELSE s[d].status,
           NEW at2, at2 = [at EXCEPT ![s[c].mbox] = IF how = "op" THEN "read" ELSE "auth"]
    PROVE  LinksRight(t, <<c>> \o h, None, sk, at2, bd, dn, g)
<1> DEFINE r == <<c>> \o h
<1>1. s[c].status = "none" /\ sk[c] = "open" /\ None \notin Client /\ s[c].mbox \in Fd /\ c # None
  BY NotYet, NoneIsNone DEF LinksRight, SocketsRight
<1>2. at \in [Fd -> {"none", "accept", "auth", "pword", "read"}] /\ h \in Seq(Client)
      /\ \A i \in DOMAIN h : h[i] \in Client
  BY DEF LinksRight, LinksTyped
<1>3. /\ at2 \in [Fd -> {"none", "accept", "auth", "pword", "read"}]
      /\ at2[s[c].mbox] = IF how = "op" THEN "read" ELSE "auth"
      /\ \A e \in Fd : e # s[c].mbox => at2[e] = at[e]
  BY <1>1, <1>2
<1>4. /\ r \in Seq(Client) /\ 1 \in DOMAIN r /\ r[1] = c /\ DOMAIN r \subseteq Nat \ {0}
      /\ \A i \in DOMAIN r : i # 1 => i - 1 \in DOMAIN h /\ r[i] = h[i - 1]
      /\ \A i \in DOMAIN h : i + 1 \in DOMAIN r /\ r[i + 1] = h[i]
  BY <1>2, Shifted
<1> HIDE DEF r
<1>5. LinksTyped(t, r, None, sk, at2, bd, dn, g)
  BY <1>3, <1>4 DEF LinksRight, LinksTyped
<1>6. SocketsRight(t, None, sk)
  BY <1>1 DEF LinksRight, SocketsRight
<1>7. Sessions(t) = Sessions(s) \cup {c} /\ c \notin Sessions(s) /\ c \notin Authorized(s)
      /\ Authorized(s) \subseteq Authorized(t)
  BY <1>1 DEF Sessions, Authorized
<1>8. /\ IsFiniteSet(Sessions(s)) /\ Cardinality(Sessions(s)) < MAX_SESSIONS
      /\ Cardinality(Sessions(s)) \in Nat /\ MAX_SESSIONS \in Nat
  BY <1>1, NoneIsNone, FS_Subset, FS_CardinalityType, SessionAssumption DEF LinksRight, TableRight, Sessions
<1>9. TableRight(t, None)
  <2>1. Cardinality(Sessions(t)) = Cardinality(Sessions(s)) + 1
    BY <1>7, <1>8, FS_AddElement
  <2>2. Cardinality(Sessions(t)) <= MAX_SESSIONS
    BY <1>8, <2>1
  <2>3. \A d, e \in Sessions(s) : NameOf[d] = NameOf[e] => d = e
    BY DEF LinksRight, TableRight
  <2> QED  BY <1>7, <2>2, <2>3 DEF TableRight
<1>10. HashRight(t, r)
  <2>1. HashRight(s, h)
    BY DEF LinksRight
  <2>2. ASSUME NEW d \in Client PROVE d \in Sessions(t) <=> \E i \in DOMAIN r : r[i] = d
    <3>1. (\E i \in DOMAIN r : r[i] = d) <=> d = c \/ \E i \in DOMAIN h : h[i] = d
      BY <1>4
    <3> QED  BY <1>7, <2>1, <3>1 DEF HashRight
  <2>3. \A i \in DOMAIN h : h[i] # c
    BY <1>7, <2>1 DEF HashRight
  <2>4. ASSUME NEW i \in DOMAIN r, NEW j \in DOMAIN r, r[i] = r[j] PROVE i = j
    <3>1. CASE i = 1
      BY <1>4, <2>3, <2>4, <3>1
    <3>2. CASE j = 1
      BY <1>4, <2>3, <2>4, <3>2
    <3>3. CASE i # 1 /\ j # 1
      <4>1. i - 1 = j - 1
        BY <1>4, <2>1, <2>4, <3>3 DEF HashRight
      <4> QED  BY <1>4, <4>1
    <3> QED  BY <3>1, <3>2, <3>3
  <2> QED  BY <2>2, <2>4 DEF HashRight
<1>11. \A i \in DOMAIN dn : dn[i].who \in Authorized(s)
  BY DEF LinksRight, RingRight
<1>12. g.members \subseteq Authorized(s)
  BY DEF LinksRight, GroupRight
<1>13. ReuseRight(t, r, dn, g)
  <2> SUFFICES ASSUME NEW i \in DOMAIN r, NEW j \in DOMAIN r, i < j, t[r[i]].mbox = t[r[j]].mbox
               PROVE  /\ t[r[j]].status = "killed" /\ r[i] \notin g.members
                      /\ \E k \in DOMAIN dn : /\ dn[k] = KillMessage(r[j])
                                              /\ \A l \in DOMAIN dn : l < k => dn[l].who # r[i]
    BY DEF ReuseRight
  <2>1. j # 1 /\ j - 1 \in DOMAIN h /\ r[j] = h[j - 1] /\ r[j] \in Client /\ r[j] # c
    <3>1. j # 1
      BY <1>4
    <3>2. h[j - 1] # c
      BY <1>4, <1>7, <3>1 DEF LinksRight, HashRight
    <3> QED  BY <1>2, <1>4, <3>1, <3>2
  <2>2. CASE i = 1
    <3>1. r[i] = c /\ s[r[j]].mbox = s[c].mbox
      BY <1>4, <2>1, <2>2
    <3>2. s[r[j]].status = "killed"
      <4>1. s[r[j]].status # "none"
        BY <2>1 DEF LinksRight, HashRight, Sessions
      <4>2. s[r[j]].status \notin {"preauth", "op"}
        BY <1>1, <2>1, <3>1 DEF LinksRight, SocketsRight
      <4> QED  BY <2>1, <4>1, <4>2 DEF LinksRight, LinksTyped, ASession
    <3>3. PICK k \in DOMAIN dn : dn[k] = KillMessage(r[j])
      BY <2>1, <3>2 DEF LinksRight, RingRight
    <3> QED  BY <1>7, <1>11, <1>12, <2>1, <3>1, <3>2, <3>3
  <2>3. CASE i # 1
    <3>1. i - 1 \in DOMAIN h /\ r[i] = h[i - 1] /\ i - 1 < j - 1 /\ r[i] \in Client
      BY <1>2, <1>4, <2>1, <2>3
    <3>2. s[h[i - 1]].mbox = s[h[j - 1]].mbox
      BY <2>1, <3>1
    <3>3. /\ s[h[j - 1]].status = "killed" /\ h[i - 1] \notin g.members
          /\ \E k \in DOMAIN dn : dn[k] = KillMessage(h[j - 1]) /\ \A l \in DOMAIN dn : l < k => dn[l].who # h[i - 1]
      BY <2>1, <3>1, <3>2 DEF LinksRight, ReuseRight
    <3> QED  BY <2>1, <3>1, <3>3
  <2> QED  BY <2>2, <2>3
<1>14. RingRight(t, dn)
  <2>1. \A d \in Client : t[d].status = "killed" <=> s[d].status = "killed"
    BY <1>1
  <2>2. \A i \in DOMAIN dn : dn[i].who \in Client
    BY <1>11 DEF Authorized
  <2> QED  BY <1>7, <1>11, <2>1, <2>2 DEF LinksRight, RingRight
<1>15. GroupRight(t, g)
  <2>1. g.members \in SUBSET Client
    BY DEF LinksRight, LinksTyped, AGroup
  <2>2. {t[d].mbox : d \in g.members} = {s[d].mbox : d \in g.members}
    BY <2>1
  <2> QED  BY <1>7, <1>12, <2>2 DEF LinksRight, GroupRight
<1>16. HandlersRight(t, None, at2)
  <2> SUFFICES ASSUME NEW e \in Fd, at2[e] # "none"
               PROVE  \E d \in Client : t[d].mbox = e /\ Serves(t, None, d, at2[e])
    BY DEF HandlersRight
  <2>1. CASE e = s[c].mbox
    BY <1>3, <2>1 DEF Serves
  <2>2. CASE e # s[c].mbox
    <3>1. at2[e] = at[e]
      BY <1>3, <2>2
    <3>2. PICK d \in Client : s[d].mbox = e /\ Serves(s, c, d, at[e])
      BY <3>1 DEF LinksRight, HandlersRight
    <3>3. d # c /\ t[d].mbox = e /\ t[d].status = s[d].status
      BY <2>2, <3>2
    <3>4. Serves(t, None, d, at2[e])
      BY <3>1, <3>2, <3>3 DEF Serves
    <3> QED  BY <3>3, <3>4
  <2> QED  BY <2>1, <2>2
<1>17. TimersRight(t, bd)
  BY <1>1 DEF LinksRight, TimersRight
<1> QED  BY <1>5, <1>6, <1>9, <1>10, <1>13, <1>14, <1>15, <1>16, <1>17 DEF LinksRight, r

\* A session that is not authorized yet has nothing in the ring or the group.
LEMMA Authorizes ==
    ASSUME NEW s, NEW h, NEW sl, NEW sk, NEW at, NEW bd, NEW dn, NEW g,
           LinksRight(s, h, sl, sk, at, bd, dn, g),
           NEW c \in Client, s[c].status = "preauth",
           NEW t \in [Client -> ASession],
           \A d \in Client : /\ t[d].mbox = s[d].mbox
                             /\ t[d].status = IF d = c THEN "op" ELSE s[d].status,
           NEW at2, at2 = [at EXCEPT ![s[c].mbox] = "read"]
    PROVE  LinksRight(t, h, sl, sk, at2, bd, dn, g)
<1>1. s[c].mbox \in Fd /\ c # sl
  BY DEF LinksRight, SocketsRight
<1>2. at \in [Fd -> {"none", "accept", "auth", "pword", "read"}] /\ \A i \in DOMAIN h : h[i] \in Client
  BY DEF LinksRight, LinksTyped
<1>3. /\ at2 \in [Fd -> {"none", "accept", "auth", "pword", "read"}] /\ at2[s[c].mbox] = "read"
      /\ \A e \in Fd : e # s[c].mbox => at2[e] = at[e]
  BY <1>1, <1>2
<1>4. LinksTyped(t, h, sl, sk, at2, bd, dn, g)
  BY <1>3 DEF LinksRight, LinksTyped
<1>5. SocketsRight(t, sl, sk)
  BY <1>1 DEF LinksRight, SocketsRight
<1>6. Sessions(t) = Sessions(s) /\ Authorized(s) \subseteq Authorized(t)
  BY DEF Sessions, Authorized
<1>7. TableRight(t, sl) /\ HashRight(t, h)
  BY <1>6 DEF LinksRight, TableRight, HashRight
<1>8. RingRight(t, dn)
  <2>1. \A d \in Client : t[d].status = "killed" <=> s[d].status = "killed"
    OBVIOUS
  <2>2. \A i \in DOMAIN dn : dn[i].who \in Client
    BY DEF LinksRight, RingRight, Authorized
  <2> QED  BY <1>6, <2>1, <2>2 DEF LinksRight, RingRight
<1>9. ReuseRight(t, h, dn, g)
  <2>1. \A i \in DOMAIN h : /\ t[h[i]].mbox = s[h[i]].mbox
                            /\ s[h[i]].status = "killed" => t[h[i]].status = "killed"
    BY <1>2
  <2> QED  BY <2>1 DEF LinksRight, ReuseRight
<1>10. GroupRight(t, g)
  <2>1. g.members \in SUBSET Client
    BY DEF LinksRight, LinksTyped, AGroup
  <2>2. {t[d].mbox : d \in g.members} = {s[d].mbox : d \in g.members}
    BY <2>1
  <2> QED  BY <1>6, <2>2 DEF LinksRight, GroupRight
<1>11. HandlersRight(t, sl, at2)
  <2> SUFFICES ASSUME NEW e \in Fd, at2[e] # "none"
               PROVE  \E d \in Client : t[d].mbox = e /\ Serves(t, sl, d, at2[e])
    BY DEF HandlersRight
  <2>1. CASE e = s[c].mbox
    BY <1>3, <2>1 DEF Serves
  <2>2. CASE e # s[c].mbox
    <3>1. at2[e] = at[e]
      BY <1>3, <2>2
    <3>2. PICK d \in Client : s[d].mbox = e /\ Serves(s, sl, d, at[e])
      BY <3>1 DEF LinksRight, HandlersRight
    <3>3. d # c /\ t[d].mbox = e /\ t[d].status = s[d].status
      BY <2>2, <3>2
    <3>4. Serves(t, sl, d, at2[e])
      BY <3>1, <3>2, <3>3 DEF Serves
    <3> QED  BY <3>3, <3>4
  <2> QED  BY <2>1, <2>2
<1>12. TimersRight(t, bd)
  BY DEF LinksRight, TimersRight
<1> QED  BY <1>4, <1>5, <1>7, <1>8, <1>9, <1>10, <1>11, <1>12 DEF LinksRight

LEMMA Asks ==
    ASSUME NEW s, NEW h, NEW sl, NEW sk, NEW at, NEW bd, NEW dn, NEW g,
           LinksRight(s, h, sl, sk, at, bd, dn, g),
           NEW c \in Client, s[c].status = "preauth",
           NEW at2, at2 = [at EXCEPT ![s[c].mbox] = "pword"]
    PROVE  LinksRight(s, h, sl, sk, at2, bd, dn, g)
<1>1. s[c].mbox \in Fd
  BY DEF LinksRight, SocketsRight
<1>2. at \in [Fd -> {"none", "accept", "auth", "pword", "read"}]
  BY DEF LinksRight, LinksTyped
<1>3. /\ at2 \in [Fd -> {"none", "accept", "auth", "pword", "read"}] /\ at2[s[c].mbox] = "pword"
      /\ \A e \in Fd : e # s[c].mbox => at2[e] = at[e]
  BY <1>1, <1>2
<1>4. LinksTyped(s, h, sl, sk, at2, bd, dn, g)
  BY <1>3 DEF LinksRight, LinksTyped
<1>5. HandlersRight(s, sl, at2)
  BY <1>3 DEF LinksRight, HandlersRight, Serves
<1> QED  BY <1>4, <1>5 DEF LinksRight

LEMMA Denies ==
    ASSUME NEW s, NEW h, NEW sl, NEW sk, NEW at, NEW bd, NEW dn, NEW g,
           LinksRight(s, h, sl, sk, at, bd, dn, g),
           NEW c \in Client, s[c].status = "preauth",
           NEW t \in [Client -> ASession],
           \A d \in Client : /\ t[d].mbox = s[d].mbox
                             /\ t[d].status = IF d = c THEN "none" ELSE s[d].status,
           NEW r, Without1(h, c, r),
           NEW sk2, sk2 = [d \in Client |-> IF d \in {c} THEN "closed" ELSE sk[d]],
           NEW at2, at2 = [at EXCEPT ![s[c].mbox] = "none"]
    PROVE  LinksRight(t, r, sl, sk2, at2, bd, dn, g)
<1>1. s[c].mbox \in Fd /\ c # sl
  BY DEF LinksRight, SocketsRight
<1>2. at \in [Fd -> {"none", "accept", "auth", "pword", "read"}] /\ h \in Seq(Client)
  BY DEF LinksRight, LinksTyped
<1>3. /\ at2 \in [Fd -> {"none", "accept", "auth", "pword", "read"}] /\ at2[s[c].mbox] = "none"
      /\ \A e \in Fd : e # s[c].mbox => at2[e] = at[e]
  BY <1>1, <1>2
<1>4. LinksTyped(t, r, sl, sk2, at2, bd, dn, g)
  BY <1>3 DEF LinksRight, LinksTyped, Without1
<1>5. SocketsRight(t, sl, sk2)
  BY <1>1 DEF LinksRight, SocketsRight
<1>6. Sessions(t) = Sessions(s) \ {c} /\ Authorized(s) = Authorized(t)
  BY DEF Sessions, Authorized
<1>7. TableRight(t, sl)
  <2>1. IsFiniteSet(Sessions(s))
    BY NoneIsNone, FS_Subset, Zenon DEF Sessions
  <2>2. c \in Sessions(s)
    BY DEF Sessions
  <2>3. Cardinality(Sessions(t)) = Cardinality(Sessions(s)) - 1 /\ Cardinality(Sessions(s)) \in Nat
    BY <1>6, <2>1, <2>2, FS_RemoveElement, FS_CardinalityType
  <2> QED  BY <1>6, <2>3, SessionAssumption DEF LinksRight, TableRight
<1>8. HashRight(t, r)
  <2>1. HashRight(s, h) /\ \A e \in Client : e \in Sessions(t) <=> e \in Sessions(s) /\ e # c
    BY <1>6 DEF LinksRight
  <2> QED  BY <1>2, <2>1, HashWithout
<1>9. RingRight(t, dn)
  <2>1. \A d \in Client : t[d].status = "killed" <=> s[d].status = "killed"
    OBVIOUS
  <2>2. \A i \in DOMAIN dn : dn[i].who \in Client
    BY DEF LinksRight, RingRight, Authorized
  <2> QED  BY <1>6, <2>1, <2>2 DEF LinksRight, RingRight
<1>10. ReuseRight(t, r, dn, g)
  <2>1. ReuseRight(s, h, dn, g)
    BY DEF LinksRight
  <2>2. \A e \in Client : e # c => t[e].status = s[e].status /\ t[e].mbox = s[e].mbox
    OBVIOUS
  <2> QED  BY <1>2, <2>1, <2>2, ReuseWithout
<1>11. GroupRight(t, g)
  <2>1. g.members \in SUBSET Client
    BY DEF LinksRight, LinksTyped, AGroup
  <2>2. {t[d].mbox : d \in g.members} = {s[d].mbox : d \in g.members}
    BY <2>1
  <2> QED  BY <1>6, <2>2 DEF LinksRight, GroupRight
<1>12. HandlersRight(t, sl, at2)
  <2> SUFFICES ASSUME NEW e \in Fd, at2[e] # "none"
               PROVE  \E d \in Client : t[d].mbox = e /\ Serves(t, sl, d, at2[e])
    BY DEF HandlersRight
  <2>1. e # s[c].mbox /\ at2[e] = at[e]
    BY <1>3
  <2>2. PICK d \in Client : s[d].mbox = e /\ Serves(s, sl, d, at[e])
    BY <2>1 DEF LinksRight, HandlersRight
  <2>3. t[d].mbox = e /\ t[d].status = s[d].status
    BY <2>1, <2>2
  <2>4. Serves(t, sl, d, at2[e])
    BY <2>1, <2>2, <2>3 DEF Serves
  <2> QED  BY <2>3, <2>4
<1>13. TimersRight(t, bd)
  BY DEF LinksRight, TimersRight
<1> QED  BY <1>4, <1>5, <1>7, <1>8, <1>9, <1>10, <1>11, <1>12, <1>13 DEF LinksRight

-----------------------------------------------------------------------------
(***************************************************************************)
(* The messages and the timers of a session.                               *)
(***************************************************************************)
LEMMA FewerTimers ==
    ASSUME NEW s, NEW h, NEW sl, NEW sk, NEW at, NEW bd, NEW dn, NEW g,
           LinksRight(s, h, sl, sk, at, bd, dn, g), NEW bd2 \in SUBSET bd
    PROVE  LinksRight(s, h, sl, sk, at, bd2, dn, g)
BY DEF LinksRight, LinksTyped, TimersRight

LEMMA Sends ==
    ASSUME NEW s, NEW h, NEW sl, NEW sk, NEW at, NEW bd, NEW dn, NEW g,
           LinksRight(s, h, sl, sk, at, bd, dn, g),
           NEW m \in RingMess, m.type # "kill", s[m.who].status = "op"
    PROVE  LinksRight(s, h, sl, sk, at, bd, dn \o <<m>>, g)
<1> DEFINE ks == <<m>>
           d == dn \o ks
<1>1. m.who \in Client /\ m.who \in Authorized(s) /\ dn \in Seq(RingMess)
  BY MessParts DEF Authorized, LinksRight, LinksTyped
<1>2. ks \in Seq(RingMess) /\ \A k \in DOMAIN ks : ks[k] = m
  OBVIOUS
<1> HIDE DEF ks
<1>3. /\ d \in Seq(RingMess) /\ DOMAIN dn \subseteq DOMAIN d
      /\ \A k \in DOMAIN dn : d[k] = dn[k]
      /\ \A k \in DOMAIN d : k \notin DOMAIN dn => d[k] = m /\ k > Len(dn)
      /\ \A k \in DOMAIN dn : k <= Len(dn) /\ k \in Nat
      /\ \A k \in DOMAIN d : k \in Nat
  <2>1. /\ d \in Seq(RingMess) /\ DOMAIN dn \subseteq DOMAIN d
        /\ \A k \in DOMAIN dn : d[k] = dn[k]
        /\ \A k \in DOMAIN d : k \notin DOMAIN dn =>
             k - Len(dn) \in DOMAIN ks /\ d[k] = ks[k - Len(dn)] /\ k > Len(dn)
    BY <1>1, <1>2, Lengthened
  <2> HIDE DEF d
  <2>2. /\ \A k \in DOMAIN dn : k <= Len(dn) /\ k \in Nat
        /\ \A k \in DOMAIN d : k \in Nat
    BY <1>1, <2>1
  <2> QED  BY <1>2, <2>1, <2>2
<1> HIDE DEF d
<1>4. LinksTyped(s, h, sl, sk, at, bd, d, g)
  BY <1>3 DEF LinksRight, LinksTyped
<1>5. RingRight(s, d)
  <2>0. RingRight(s, dn)
    BY DEF LinksRight
  <2>1. \A k \in DOMAIN d : d[k].who \in Authorized(s)
    BY <1>1, <1>3, <2>0 DEF RingRight
  <2>2. ASSUME NEW k \in DOMAIN d, d[k].type = "kill"
        PROVE  s[d[k].who].status = "killed" /\ \A l \in DOMAIN d : k < l => d[l].who # d[k].who
    <3>1. k \in DOMAIN dn /\ d[k] = dn[k]
      BY <1>3, <2>2
    <3>2. s[d[k].who].status = "killed" /\ \A l \in DOMAIN dn : k < l => dn[l].who # d[k].who
      BY <2>0, <2>2, <3>1 DEF RingRight
    <3>3. d[k].who # m.who
      BY <3>2
    <3> QED  BY <1>3, <3>2, <3>3
  <2>3. \A c \in Client : s[c].status = "killed" => \E k \in DOMAIN d : d[k] = KillMessage(c)
    BY <1>3, <2>0 DEF RingRight
  <2> QED  BY <2>1, <2>2, <2>3 DEF RingRight
<1>6. ReuseRight(s, h, d, g)
  <2> SUFFICES ASSUME NEW i \in DOMAIN h, NEW j \in DOMAIN h, i < j, s[h[i]].mbox = s[h[j]].mbox
               PROVE  /\ s[h[j]].status = "killed" /\ h[i] \notin g.members
                      /\ \E k \in DOMAIN d : /\ d[k] = KillMessage(h[j])
                                             /\ \A l \in DOMAIN d : l < k => d[l].who # h[i]
    BY DEF ReuseRight
  <2>1. /\ s[h[j]].status = "killed" /\ h[i] \notin g.members
        /\ \E k \in DOMAIN dn : dn[k] = KillMessage(h[j]) /\ \A l \in DOMAIN dn : l < k => dn[l].who # h[i]
    BY DEF LinksRight, ReuseRight
  <2>2. PICK k \in DOMAIN dn : dn[k] = KillMessage(h[j]) /\ \A l \in DOMAIN dn : l < k => dn[l].who # h[i]
    BY <2>1
  <2>3. \A l \in DOMAIN d : l < k => l \in DOMAIN dn
    <3>1. Len(dn) \in Nat
      BY <1>1
    <3> QED  BY <1>3, <3>1
  <2>4. k \in DOMAIN d /\ d[k] = KillMessage(h[j]) /\ \A l \in DOMAIN d : l < k => d[l].who # h[i]
    BY <1>3, <2>2, <2>3
  <2> QED  BY <2>1, <2>4
<1> QED  BY <1>4, <1>5, <1>6 DEF LinksRight, d, ks

\* The session a handler reads from is the one its mailbox leads to.
LEMMA Server ==
    ASSUME NEW s, NEW h, NEW sl, NEW sk, NEW at, NEW bd, NEW dn, NEW g,
           LinksRight(s, h, sl, sk, at, bd, dn, g),
           NEW fd \in Fd, at[fd] \in {"auth", "pword", "read"}
    PROVE  LET c == Sess_get_session_index(h, s, fd)
           IN  /\ c \in Client /\ s[c].mbox = fd /\ sk[c] = "open"
               /\ s[c].status = IF at[fd] = "read" THEN "op" ELSE "preauth"
<1>1. PICK c \in Client : s[c].mbox = fd /\ Serves(s, sl, c, at[fd])
  BY DEF LinksRight, HandlersRight
<1>2. s[c].status = IF at[fd] = "read" THEN "op" ELSE "preauth"
  BY <1>1 DEF Serves
<1>3. s[c].status \in {"preauth", "op"}
  BY <1>2
<1>4. /\ s \in [Client -> ASession] /\ h \in Seq(Client) /\ HashRight(s, h) /\ ReuseRight(s, h, dn, g)
      /\ sk[c] = "open"
  BY <1>3 DEF LinksRight, LinksTyped, SocketsRight
<1>5. Sess_get_session_index(h, s, s[c].mbox) = c
  BY <1>3, <1>4, OpenIndex
<1> QED  BY <1>1, <1>2, <1>4, <1>5

-----------------------------------------------------------------------------
(***************************************************************************)
(* The steps.                                                              *)
(***************************************************************************)
LEMMA InvParts ==
    ASSUME SessInv
    PROVE  /\ LinksRight(ses, hash, slot, sock, attached, badger, down, grp)
           /\ StreamsRight(ses, badger, stream, written) /\ StreamsTyped(stream, written)
           /\ ses \in [Client -> ASession] /\ hash \in Seq(Client) /\ slot \in Client \cup {None}
           /\ sock \in [Client -> {"none", "backlog", "open", "closed"}]
           /\ attached \in [Fd -> {"none", "accept", "auth", "pword", "read"}]
           /\ badger \in SUBSET Fd /\ down \in Seq(RingMess) /\ grp \in AGroup
           /\ unsent \in Nat /\ requests \in Nat
BY DEF SessInv, SessTypeOK, LinksRight, LinksTyped, StreamsTyped, AUnit

LEMMA InvNext ==
    ASSUME LinksRight(ses', hash', slot', sock', attached', badger', down', grp'),
           StreamsRight(ses', badger', stream', written'), StreamsTyped(stream', written'),
           unsent' \in Nat, requests' \in Nat, ~ fatal'
    PROVE  SessInv'
<1>1. (LinksRight(ses, hash, slot, sock, attached, badger, down, grp))'
  BY Zenon
<1>2. (StreamsRight(ses, badger, stream, written))'
  BY Zenon
<1>3. SessTypeOK'
  BY DEF SessTypeOK, LinksRight, StreamsTyped, AUnit
<1> QED  BY <1>1, <1>2, <1>3 DEF SessInv, NoBugAlarm

LEMMA Initially == SessInit => SessInv
<1> SUFFICES ASSUME SessInit PROVE SessInv
  OBVIOUS
<1> USE DEF SessInit
<1>1. /\ <<>> \in Seq(Given) /\ <<>> \in Seq(AUnit) /\ <<>> \in Seq(Client) /\ <<>> \in Seq(RingMess)
      /\ DOMAIN <<>> = {}
  BY EmptySeq
<1>2. \A c \in Client : ses[c].status = "none" /\ stream[c] = <<>> /\ written[c] = <<>> /\ sock[c] = "none"
  OBVIOUS
<1>3. LinksTyped(ses, hash, slot, sock, attached, badger, down, grp)
  BY <1>1 DEF LinksTyped, ASession, AGroup
<1>4. SocketsRight(ses, slot, sock)
  BY <1>2, NoneIsNone DEF SocketsRight
<1>5. Sessions(ses) = {}
  BY <1>2 DEF Sessions
<1>6. TableRight(ses, slot)
  <2>1. Cardinality(Sessions(ses)) = 0
    BY <1>5, FS_EmptySet
  <2>2. Cardinality(Sessions(ses)) <= MAX_SESSIONS /\ slot = None
    BY <2>1, SessionAssumption
  <2>3. Cardinality(Sessions(ses)) < MAX_SESSIONS
    BY <2>1, SessionAssumption
  <2> QED  BY <1>5, <2>2, <2>3 DEF TableRight
<1>7. HashRight(ses, hash)
  BY <1>1, <1>5 DEF HashRight
<1>8. RingRight(ses, down)
  BY <1>1, <1>2 DEF RingRight
<1>9. ReuseRight(ses, hash, down, grp)
  BY <1>1 DEF ReuseRight
<1>10. GroupRight(ses, grp)
  BY DEF GroupRight
<1>11. HandlersRight(ses, slot, attached) /\ TimersRight(ses, badger)
  BY DEF HandlersRight, TimersRight
<1>12. StreamsRight(ses, badger, stream, written)
  BY <1>2 DEF StreamsRight
<1>13. SessTypeOK
  BY <1>1, <1>3 DEF SessTypeOK, AUnit
<1>14. NoBugAlarm
  BY DEF NoBugAlarm
<1> QED  BY <1>3, <1>4, <1>6, <1>7, <1>8, <1>9, <1>10, <1>11, <1>12, <1>13, <1>14 DEF SessInv, LinksRight

\* There is a descriptor for a connection that waits.
LEMMA FreeOne ==
    ASSUME SessInv, NEW c \in Client, sock[c] = "backlog"
    PROVE  /\ Min(FreeFds) \in Fd
           /\ \A d \in Client : sock[d] = "open" => ses[d].mbox # Min(FreeFds)
<1> DEFINE O == {x \in Client : sock[x] = "open"}
           M == {ses[d].mbox : d \in O}
           n == Cardinality(Client)
<1>1. O \in SUBSET (Client \ {c})
  OBVIOUS
<1>2. IsFiniteSet(Client \ {c}) /\ Cardinality(Client \ {c}) = n - 1 /\ n \in Nat
  BY NoneIsNone, FS_RemoveElement, FS_CardinalityType
<1>3. IsFiniteSet(O) /\ Cardinality(O) <= n - 1
  BY <1>1, <1>2, FS_Subset
<1> HIDE DEF O
<1>4. IsFiniteSet(M) /\ Cardinality(M) <= Cardinality(O)
  <2> DEFINE f == [x \in O |-> ses[x].mbox]
  <2>1. f \in Surjection(O, M)
    BY DEF Surjection
  <2> QED  BY <1>3, <2>1, FS_Surjection
<1>5. Cardinality(Fd) = n /\ IsFiniteSet(Fd)
  <2>1. n >= 1
    BY <1>2, <1>3, FS_CardinalityType
  <2> HIDE DEF n
  <2>2. Cardinality(1 .. n) = n /\ IsFiniteSet(1 .. n)
    BY <1>2, <2>1, FS_Interval
  <2> QED  BY <2>2 DEF Fd, n
<1>6. FreeFds = Fd \ M
  BY DEF FreeFds, O
<1> HIDE DEF M
<1>7. FreeFds # {}
  <2> SUFFICES ASSUME FreeFds = {} PROVE FALSE
    OBVIOUS
  <2>1. Fd \in SUBSET M
    BY <1>6
  <2>2. Cardinality(Fd) <= Cardinality(M)
    BY <1>4, <2>1, FS_Subset
  <2> QED  BY <1>2, <1>3, <1>4, <1>5, <2>2, FS_CardinalityType
<1>8. FreeFds \in SUBSET Nat
  BY <1>6 DEF Fd
<1>9. Min(FreeFds) \in FreeFds
  BY <1>7, <1>8, Least
<1> QED  BY <1>6, <1>9 DEF M, O

LEMMA ConnectStep ==
    ASSUME SessInv, NEW c \in Client, ClientConnects(c)
    PROVE  SessInv'
<1> USE InvParts
<1>1. sock[c] = "none" /\ sock' = [sock EXCEPT ![c] = "backlog"]
  BY DEF ClientConnects
<1>2. LinksRight(ses, hash, slot, sock', attached, badger, down, grp)
  BY <1>1, Waits
<1>3. UNCHANGED <<ses, hash, slot, attached, badger, down, unsent, blocked, grp, stream, written, fatal, requests>> /\ ~ fatal
  BY DEF ClientConnects
<1> QED  BY <1>2, <1>3, InvNext

LEMMA AcceptStep ==
    ASSUME SessInv, NEW c \in Client, Sess_accept(c)
    PROVE  SessInv'
<1>0. /\ LinksRight(ses, hash, slot, sock, attached, badger, down, grp)
      /\ StreamsRight(ses, badger, stream, written) /\ StreamsTyped(stream, written)
      /\ ses \in [Client -> ASession] /\ hash \in Seq(Client)
      /\ unsent \in Nat /\ requests \in Nat
  BY InvParts
<1>1. /\ ~ fatal /\ slot = None /\ sock[c] = "backlog"
      /\ UNCHANGED <<hash, badger, down, unsent, blocked, grp, stream, written, requests>>
  BY DEF Sess_accept
<1>2. Sessions(ses) = {d \in Client : Listed(d)}
  BY DEF Sessions, Listed
<1>3. CASE Num_sessions = MAX_SESSIONS
  <2>1. sock' = Close({c}) /\ UNCHANGED <<ses, slot, attached, fatal>>
    BY <1>3 DEF Sess_accept
  <2>2. sock' = [sock EXCEPT ![c] = "closed"]
    BY <2>1, InvParts DEF Close
  <2>3. LinksRight(ses, hash, slot, sock', attached, badger, down, grp)
    BY <1>0, <1>1, <2>2, Waits
  <2> QED  BY <1>0, <1>1, <2>1, <2>3, InvNext
<1>4. CASE Num_sessions # MAX_SESSIONS
  <2> DEFINE fd == Min(FreeFds)
             old == Sess_get_session_index(hash, ses, fd)
  <2>1. /\ fatal' = (old # None /\ ses[old].status = "op") /\ ses' = [ses EXCEPT ![c].mbox = fd]
        /\ sock' = [sock EXCEPT ![c] = "open"] /\ slot' = c
        /\ attached' = [attached EXCEPT ![fd] = "accept"]
    BY <1>4 DEF Sess_accept
  <2>2. fd \in Fd /\ \A d \in Client : sock[d] = "open" => ses[d].mbox # fd
    BY <1>1, FreeOne
  <2> HIDE DEF fd
  <2>3. Cardinality(Sessions(ses)) # MAX_SESSIONS
    BY <1>2, <1>4 DEF Num_sessions
  <2>4. LinksRight(ses', hash, c, sock', attached', badger, down, grp)
    <3>1. LinksRight(ses, hash, None, sock, attached, badger, down, grp)
      BY <1>0, <1>1
    <3> DEFINE t == ses'
               sk == sock'
               at == attached'
    <3>2. /\ t \in [Client -> ASession]
          /\ \A d \in Client : /\ t[d].status = ses[d].status
                               /\ t[d].mbox = IF d = c THEN fd ELSE ses[d].mbox
      BY <1>0, <2>1, <2>2, ZenonT(40) DEF ASession
    <3>4. sk = [sock EXCEPT ![c] = "open"] /\ at = [attached EXCEPT ![fd] = "accept"]
      BY <2>1
    <3> HIDE DEF t, sk, at
    <3>3. LinksRight(t, hash, c, sk, at, badger, down, grp)
      <4>1. sock[c] = "backlog"
        BY <1>1
      <4> QED  BY <2>2, <2>3, <3>1, <3>2, <3>4, <4>1, Accepts, ZenonT(40)
    <3> QED  BY <3>3 DEF t, sk, at
  <2>5. old = None \/ (old \in Client /\ ses[old].mbox = fd)
    BY <1>0, IndexType
  <2>6. ~ fatal'
    <3>1. \A d \in Client : ses[d].status = "op" => sock[d] = "open"
      BY <1>0 DEF LinksRight, SocketsRight
    <3> QED  BY <2>1, <2>2, <2>5, <3>1
  <2>7. StreamsRight(ses', badger, stream, written)
    <3>1. ses[c].status = "none"
      BY <1>0, <1>1, NotYet
    <3>2. /\ ses'[c].status = "none" /\ \A d \in Client : d # c => ses'[d] = ses[d]
      BY <1>0, <2>1, <3>1 DEF ASession
    <3> QED  BY <1>0, <3>1, <3>2 DEF StreamsRight
  <2> QED  BY <1>0, <1>1, <2>1, <2>4, <2>6, <2>7, InvNext
<1> QED  BY <1>3, <1>4

LEMMA CloseOne ==
    ASSUME NEW c \in Client, sock \in [Client -> {"none", "backlog", "open", "closed"}]
    PROVE  Close({c}) = [sock EXCEPT ![c] = "closed"]
BY DEF Close

\* What changes in the table when one entry gets another status.
NewStatus(s, t, c, how) ==
  /\ t \in [Client -> ASession]
  /\ \A d \in Client : /\ t[d].mbox = s[d].mbox
                       /\ t[d].status = IF d = c THEN how ELSE s[d].status
  /\ \A d \in Client : d # c => t[d] = s[d]

LEMMA StatusSet ==
    ASSUME ses \in [Client -> ASession], NEW c \in Client, NEW how \in {"none", "preauth"},
           ses' = [ses EXCEPT ![c].status = how]
    PROVE  NewStatus(ses, ses', c, how)
BY ZenonT(40) DEF NewStatus, ASession

LEMMA AuthorizedSet ==
    ASSUME ses \in [Client -> ASession], NEW c \in Client,
           ses' = [ses EXCEPT ![c] = [@ EXCEPT !.status = "op", !.queue = <<>>, !.sent = 0, !.in_head = TRUE]]
    PROVE  NewStatus(ses, ses', c, "op") /\ ses'[c].queue = <<>> /\ ses'[c].sent = 0
<1>1. <<>> \in Seq(Given)
  BY EmptySeq
<1> DEFINE e == [ses[c] EXCEPT !.status = "op", !.queue = <<>>, !.sent = 0, !.in_head = TRUE]
<1>2. /\ e \in ASession /\ e.mbox = ses[c].mbox /\ e.status = "op" /\ e.queue = <<>> /\ e.sent = 0
  BY <1>1, ZenonT(40) DEF ASession
<1>3. ses' = [ses EXCEPT ![c] = e]
  OBVIOUS
<1> HIDE DEF e
<1> QED  BY <1>2, <1>3 DEF NewStatus

\* A session that was not operational has no stream, and starts with none.
LEMMA StreamsKept ==
    ASSUME NEW s, NEW bd, NEW st, NEW wr, StreamsRight(s, bd, st, wr),
           NEW c \in Client, s[c].status # "op", NEW t, NEW how, NewStatus(s, t, c, how), how # "op"
    PROVE  StreamsRight(t, bd, st, wr)
<1>1. t[c].status = how /\ st[c] = <<>> /\ wr[c] = <<>> /\ \A d \in Client : d # c => t[d] = s[d]
  BY DEF NewStatus, StreamsRight
<1> QED  BY <1>1 DEF StreamsRight

LEMMA StreamsStarted ==
    ASSUME NEW s, NEW bd, NEW st, NEW wr, StreamsRight(s, bd, st, wr),
           NEW c \in Client, s[c].status # "op", NEW t, NewStatus(s, t, c, "op"),
           t[c].queue = <<>>, t[c].sent = 0
    PROVE  StreamsRight(t, bd, st, wr)
<1>1. st[c] = <<>> /\ wr[c] = <<>> /\ \A d \in Client : d # c => t[d] = s[d]
  BY DEF NewStatus, StreamsRight
<1>2. t[c] \in ASession /\ AtHead(t[c])
  BY DEF NewStatus, AtHead
<1>3. Rest(t[c]) \in Seq(AUnit) /\ Len(Rest(t[c])) = 0
  <2>1. Len(<<>>) = 0
    BY EmptySeq
  <2> QED  BY <1>2, <2>1, RestParts
<1>4. <<>> \in Seq(Given) /\ Len(<<>>) = 0
  BY EmptySeq
<1>5. Units(<<>>) \in Seq(AUnit) /\ Len(Units(<<>>)) = 0
  <2>1. Units(<<>>) \in Seq(AUnit) /\ Len(Units(<<>>)) = 2 * Len(<<>>)
    BY <1>4, UnitsParts
  <2> QED  BY <1>4, <2>1
<1>6. Rest(t[c]) = <<>> /\ Units(<<>>) = <<>>
  BY <1>3, <1>5, EmptySeq
<1>7. st[c] \o Rest(t[c]) = Units(wr[c])
  BY <1>1, <1>6
<1> QED  BY <1>1, <1>7 DEF StreamsRight

LEMMA NameFree ==
    ASSUME NEW name, Sess_get_session(name) = None
    PROVE  \A d \in Sessions(ses) : NameOf[d] # name
<1> DEFINE W == {d \in Client : Listed(d) /\ NameOf[d] = name}
<1>1. W = {}
  <2> SUFFICES ASSUME W # {} PROVE FALSE
    OBVIOUS
  <2>1. (CHOOSE d \in W : TRUE) \in W
    OBVIOUS
  <2>2. Sess_get_session(name) = CHOOSE d \in W : TRUE
    BY Zenon DEF Sess_get_session
  <2>3. None \in Client
    BY <2>1, <2>2
  <2> QED  BY <2>3, NoneIsNone
<1> QED  BY <1>1 DEF Sessions, Listed

LEMMA ContinueStep ==
    ASSUME SessInv, Sess_accept_continue
    PROVE  SessInv'
<1> DEFINE c == slot
<1>0. /\ LinksRight(ses, hash, slot, sock, attached, badger, down, grp)
      /\ StreamsRight(ses, badger, stream, written) /\ StreamsTyped(stream, written)
      /\ ses \in [Client -> ASession] /\ hash \in Seq(Client) /\ c \in Client \cup {None}
      /\ sock \in [Client -> {"none", "backlog", "open", "closed"}]
      /\ unsent \in Nat /\ requests \in Nat
  BY InvParts
<1>1. /\ ~ fatal /\ slot # None /\ slot' = None
      /\ UNCHANGED <<badger, down, unsent, blocked, grp, stream, written, requests>>
      /\ RejectConnect(c) \/ (Sess_get_session(NameOf[c]) = None /\ Admit(c))
  BY DEF Sess_accept_continue
<1>2. c \in Client
  BY <1>0, <1>1
<1>3. ses[c].status = "none"
  BY <1>0, <1>2, NotYet
<1>4. CASE RejectConnect(c)
  <2>1. /\ sock' = [sock EXCEPT ![c] = "closed"] /\ attached' = [attached EXCEPT ![ses[c].mbox] = "none"]
        /\ UNCHANGED <<ses, hash, fatal>>
    BY <1>0, <1>2, <1>4, CloseOne DEF RejectConnect
  <2>2. LinksRight(ses, hash, None, sock', attached', badger, down, grp)
    BY <1>0, <1>2, <2>1, Rejects
  <2> QED  BY <1>0, <1>1, <2>1, <2>2, InvNext
<1>5. CASE Sess_get_session(NameOf[c]) = None /\ Admit(c)
  <2>1. \A d \in Sessions(ses) : NameOf[d] # NameOf[c]
    BY <1>5, NameFree
  <2>2. PICK how \in {"preauth", "op"} :
          /\ NewStatus(ses, ses', c, how)
          /\ attached' = [attached EXCEPT ![ses[c].mbox] = IF how = "op" THEN "read" ELSE "auth"]
          /\ how = "op" => ses'[c].queue = <<>> /\ ses'[c].sent = 0
    <3>1. CASE ses' = [ses EXCEPT ![c].status = "preauth"] /\ attached' = [attached EXCEPT ![ses[c].mbox] = "auth"]
      <4>1. NewStatus(ses, ses', c, "preauth")
        BY <1>0, <1>2, <3>1, StatusSet
      <4> QED  BY <3>1, <4>1
    <3>2. CASE Sess_session_authorized(c)
      <4>1. /\ ses' = [ses EXCEPT ![c] = [@ EXCEPT !.status = "op", !.queue = <<>>, !.sent = 0, !.in_head = TRUE]]
            /\ attached' = [attached EXCEPT ![ses[c].mbox] = "read"]
        BY <3>2 DEF Sess_session_authorized
      <4>2. NewStatus(ses, ses', c, "op") /\ ses'[c].queue = <<>> /\ ses'[c].sent = 0
        BY <1>0, <1>2, <4>1, AuthorizedSet
      <4> QED  BY <4>1, <4>2
    <3> QED  BY <1>5, <3>1, <3>2 DEF Admit
  <2>3. hash' = <<c>> \o hash /\ sock' = sock /\ fatal' = (Num_sessions = MAX_SESSIONS)
    BY <1>5 DEF Admit, Sess_hash_session
  <2>4. LinksRight(ses', <<c>> \o hash, None, sock, attached', badger, down, grp)
    <3> DEFINE t == ses'
               at == attached'
    <3>1. /\ t \in [Client -> ASession]
          /\ \A d \in Client : /\ t[d].mbox = ses[d].mbox
                               /\ t[d].status = IF d = c THEN how ELSE ses[d].status
          /\ at = [attached EXCEPT ![ses[c].mbox] = IF how = "op" THEN "read" ELSE "auth"]
      BY <2>2 DEF NewStatus
    <3> HIDE DEF t, at
    <3>2. LinksRight(t, <<c>> \o hash, None, sock, at, badger, down, grp)
      BY <1>0, <1>2, <2>1, <3>1, Admits, ZenonT(40)
    <3> QED  BY <3>2 DEF t, at
  <2>5. ~ fatal'
    <3>1. Num_sessions = Cardinality(Sessions(ses))
      BY DEF Num_sessions, Listed, Sessions
    <3>2. Cardinality(Sessions(ses)) < MAX_SESSIONS /\ Cardinality(Sessions(ses)) \in Nat
      BY <1>0, <1>1, NoneIsNone, FS_Subset, FS_CardinalityType DEF LinksRight, TableRight, Sessions
    <3>3. Num_sessions # MAX_SESSIONS
      BY <3>1, <3>2, SessionAssumption
    <3> QED  BY <2>3, <3>3, Zenon
  <2>6. StreamsRight(ses', badger, stream, written)
    BY <1>0, <1>2, <1>3, <2>2, StreamsKept, StreamsStarted
  <2> QED  BY <1>0, <1>1, <2>3, <2>4, <2>5, <2>6, InvNext
<1> QED  BY <1>1, <1>4, <1>5

LEMMA DeniedNext ==
    ASSUME SessInv, NEW c \in Client, ses[c].status = "preauth", Sess_session_denied(c),
           UNCHANGED <<slot, badger, down, unsent, grp, stream, written, requests>>, ~ fatal'
    PROVE  SessInv'
<1>0. /\ LinksRight(ses, hash, slot, sock, attached, badger, down, grp)
      /\ StreamsRight(ses, badger, stream, written) /\ StreamsTyped(stream, written)
      /\ ses \in [Client -> ASession] /\ hash \in Seq(Client)
      /\ unsent \in Nat /\ requests \in Nat
  BY InvParts
<1>1. NewStatus(ses, ses', c, "none")
  BY <1>0, StatusSet DEF Sess_session_denied
<1>2. /\ sock' = [d \in Client |-> IF d \in {c} THEN "closed" ELSE sock[d]]
      /\ attached' = [attached EXCEPT ![ses[c].mbox] = "none"]
      /\ hash' = Sess_unhash_session(c)
  BY DEF Sess_session_denied, Close
<1>3. Without1(hash, c, hash')
  <2>1. HashRight(ses, hash) /\ c \in Sessions(ses)
    BY <1>0 DEF LinksRight, Sessions
  <2> QED  BY <1>0, <1>2, <2>1, Unhashed
<1>4. LinksRight(ses', hash', slot, sock', attached', badger, down, grp)
  <2> DEFINE t == ses'
             r == hash'
             sk == sock'
             at == attached'
  <2>1. /\ t \in [Client -> ASession] /\ Without1(hash, c, r)
        /\ \A d \in Client : /\ t[d].mbox = ses[d].mbox
                             /\ t[d].status = IF d = c THEN "none" ELSE ses[d].status
        /\ sk = [d \in Client |-> IF d \in {c} THEN "closed" ELSE sock[d]]
        /\ at = [attached EXCEPT ![ses[c].mbox] = "none"]
    BY <1>1, <1>2, <1>3 DEF NewStatus
  <2> HIDE DEF t, r, sk, at
  <2>2. LinksRight(t, r, slot, sk, at, badger, down, grp)
    BY <1>0, <2>1, Denies, ZenonT(40)
  <2> QED  BY <2>2 DEF t, r, sk, at
<1>5. StreamsRight(ses', badger, stream, written)
  BY <1>0, <1>1, StreamsKept
<1> QED  BY <1>0, <1>4, <1>5, InvNext

LEMMA AuthorizedNext ==
    ASSUME SessInv, NEW c \in Client, ses[c].status = "preauth", Sess_session_authorized(c),
           UNCHANGED <<hash, slot, sock, badger, down, unsent, grp, stream, written, requests>>, ~ fatal'
    PROVE  SessInv'
<1>0. /\ LinksRight(ses, hash, slot, sock, attached, badger, down, grp)
      /\ StreamsRight(ses, badger, stream, written) /\ StreamsTyped(stream, written)
      /\ ses \in [Client -> ASession]
      /\ unsent \in Nat /\ requests \in Nat
  BY InvParts
<1>1. /\ ses' = [ses EXCEPT ![c] = [@ EXCEPT !.status = "op", !.queue = <<>>, !.sent = 0, !.in_head = TRUE]]
      /\ attached' = [attached EXCEPT ![ses[c].mbox] = "read"]
  BY DEF Sess_session_authorized
<1>2. NewStatus(ses, ses', c, "op") /\ ses'[c].queue = <<>> /\ ses'[c].sent = 0
  BY <1>0, <1>1, AuthorizedSet
<1>3. LinksRight(ses', hash, slot, sock, attached', badger, down, grp)
  <2> DEFINE t == ses'
             at == attached'
  <2>1. /\ t \in [Client -> ASession]
        /\ \A d \in Client : /\ t[d].mbox = ses[d].mbox
                             /\ t[d].status = IF d = c THEN "op" ELSE ses[d].status
        /\ at = [attached EXCEPT ![ses[c].mbox] = "read"]
    BY <1>1, <1>2 DEF NewStatus
  <2> HIDE DEF t, at
  <2>2. LinksRight(t, hash, slot, sock, at, badger, down, grp)
    BY <1>0, <2>1, Authorizes
  <2> QED  BY <2>2 DEF t, at
<1>4. StreamsRight(ses', badger, stream, written)
  BY <1>0, <1>2, StreamsStarted
<1> QED  BY <1>0, <1>3, <1>4, InvNext

\* The outcome of authentication, whoever reports it.
LEMMA ReportedNext ==
    ASSUME SessInv, NEW c \in Client, ses[c].status = "preauth",
           NEW permitted \in BOOLEAN, Sess_session_report_auth_result(c, permitted),
           UNCHANGED <<slot, badger, down, unsent, grp, stream, written, requests>>, ~ fatal'
    PROVE  SessInv'
<1>1. CASE permitted
  <2>1. Sess_session_authorized(c) /\ UNCHANGED <<sock, hash>>
    BY <1>1 DEF Sess_session_report_auth_result
  <2> QED  BY <2>1, AuthorizedNext
<1>2. CASE ~ permitted
  <2>1. Sess_session_denied(c)
    BY <1>2 DEF Sess_session_report_auth_result
  <2> QED  BY <2>1, DeniedNext
<1> QED  BY <1>1, <1>2

LEMMA AuthStep ==
    ASSUME SessInv, NEW fd \in Fd, Sess_recv_client_auth(fd)
    PROVE  SessInv'
<1> DEFINE c == Sess_get_session_index(hash, ses, fd)
<1>0. /\ LinksRight(ses, hash, slot, sock, attached, badger, down, grp)
      /\ StreamsRight(ses, badger, stream, written) /\ StreamsTyped(stream, written)
      /\ unsent \in Nat /\ requests \in Nat
  BY InvParts
<1>1. /\ attached[fd] = "auth" /\ fatal' = (ses[c].status # "preauth")
      /\ UNCHANGED <<slot, badger, down, unsent, blocked, grp, stream, written, requests>>
      /\ \/ Sess_session_denied(c)
         \/ \E p \in BOOLEAN : Sess_session_report_auth_result(c, p)
         \/ attached' = [attached EXCEPT ![fd] = "pword"] /\ UNCHANGED <<ses, sock, hash>>
  <2>1. TRUE \in BOOLEAN
    OBVIOUS
  <2> QED  BY <2>1, Zenon DEF Sess_recv_client_auth
<1>2. c \in Client /\ ses[c].mbox = fd /\ ses[c].status = "preauth"
  BY <1>0, <1>1, Server
<1> HIDE DEF c
<1>3. ~ fatal'
  BY <1>1, <1>2, Zenon
<1>4. CASE Sess_session_denied(c)
  BY <1>1, <1>2, <1>3, <1>4, DeniedNext
<1>5. ASSUME NEW p \in BOOLEAN, Sess_session_report_auth_result(c, p) PROVE SessInv'
  BY <1>1, <1>2, <1>3, <1>5, ReportedNext
<1>6. CASE attached' = [attached EXCEPT ![fd] = "pword"] /\ UNCHANGED <<ses, sock, hash>>
  <2>1. attached' = [attached EXCEPT ![ses[c].mbox] = "pword"]
    BY <1>2, <1>6
  <2>2. LinksRight(ses, hash, slot, sock, attached', badger, down, grp)
    BY <1>0, <1>2, <2>1, Asks
  <2> QED  BY <1>0, <1>1, <1>3, <1>6, <2>2, InvNext
<1> QED  BY <1>1, <1>4, <1>5, <1>6

LEMMA PasswordStep ==
    ASSUME SessInv, NEW fd \in Fd, auth_client_conn_read(fd)
    PROVE  SessInv'
<1> DEFINE c == Sess_get_session_index(hash, ses, fd)
<1>0. LinksRight(ses, hash, slot, sock, attached, badger, down, grp)
  BY InvParts
<1>1. /\ attached[fd] = "pword" /\ fatal' = (ses[c].status # "preauth")
      /\ UNCHANGED <<slot, badger, down, unsent, blocked, grp, stream, written, requests>>
      /\ \E p \in BOOLEAN : Sess_session_report_auth_result(c, p)
  BY DEF auth_client_conn_read
<1>2. c \in Client /\ ses[c].status = "preauth"
  BY <1>0, <1>1, Server
<1> HIDE DEF c
<1>3. ~ fatal'
  BY <1>1, <1>2, Zenon
<1> QED  BY <1>1, <1>2, <1>3, ReportedNext

LEMMA BadgerStep ==
    ASSUME SessInv, NEW fd \in Fd, Sess_badger(fd)
    PROVE  SessInv'
<1> DEFINE c == Sess_get_session_index(hash, ses, fd)
<1>0. /\ LinksRight(ses, hash, slot, sock, attached, badger, down, grp)
      /\ StreamsRight(ses, badger, stream, written) /\ StreamsTyped(stream, written)
      /\ ses \in [Client -> ASession] /\ hash \in Seq(Client)
      /\ unsent \in Nat /\ requests \in Nat
  BY InvParts
<1>1. /\ ~ fatal /\ fd \in badger
      /\ UNCHANGED <<hash, slot, sock, attached, down, unsent, blocked, grp, written, fatal, requests>>
  BY DEF Sess_badger
<1>2. c = None \/ (c \in Client /\ ses[c].mbox = fd)
  BY <1>0, IndexType
<1>3. PICK a \in Client : ses[a].status = "op" /\ ses[a].mbox = fd
  BY <1>0, <1>1 DEF LinksRight, TimersRight
<1>4. c = a
  BY <1>0, <1>3, OpenIndex DEF LinksRight
<1>5. CASE ses[c].queue = <<>>
  <2>1. badger' = badger \ {fd} /\ UNCHANGED <<ses, stream>>
    BY <1>5 DEF Sess_badger
  <2>2. LinksRight(ses, hash, slot, sock, attached, badger', down, grp)
    BY <1>0, <2>1, FewerTimers
  <2>3. StreamsRight(ses, badger', stream, written)
    <3>1. \A d \in Client : ses[d].status = "op" /\ ses[d].mbox = fd => d = a
      BY <1>0, <1>3 DEF LinksRight, SocketsRight
    <3> QED  BY <1>0, <1>4, <1>5, <2>1, <3>1 DEF StreamsRight
  <2> QED  BY <1>0, <1>1, <2>1, <2>2, <2>3, InvNext
<1>6. CASE ses[c].queue # <<>>
  <2>1. PICK n \in 1 .. Len(Rest(ses[c])) :
          /\ ses' = [ses EXCEPT ![c] = Taken(@, n)]
          /\ stream' = [stream EXCEPT ![c] = @ \o SubSeq(Rest(ses[c]), 1, n)]
          /\ badger' = BadgerAgain(fd, ses'[c].queue)
    BY <1>3, <1>4, <1>6, NoneIsNone DEF Sess_badger
  <2> HIDE DEF c
  <2>2. c \in Client /\ ses[c].status = "op" /\ ses[c].mbox = fd
    BY <1>3, <1>4
  <2>3. /\ AtHead(ses[c]) /\ stream[c] \in Seq(AUnit) /\ stream[c] \o Rest(ses[c]) = Units(written[c])
        /\ Len(Rest(ses[c])) \in Nat
    <3>1. AtHead(ses[c])
      BY <1>0, <2>2 DEF StreamsRight, AtHead
    <3> QED  BY <1>0, <2>2, <3>1, RestParts DEF StreamsRight, StreamsTyped
  <2> DEFINE t == Taken(ses[c], n)
             f == stream[c] \o SubSeq(Rest(ses[c]), 1, n)
  <2>4. n \in 0 .. Len(Rest(ses[c]))
    BY <2>3
  <2>5. /\ AtHead(t) /\ t.status = "op" /\ t.mbox = fd /\ f \in Seq(AUnit)
        /\ f \o Rest(t) = Units(written[c])
    BY <2>2, <2>3, <2>4, StreamTakes
  <2>6. ses' = [ses EXCEPT ![c] = t] /\ stream' = [stream EXCEPT ![c] = f]
    BY <2>1
  <2> HIDE DEF t, f
  <2>7. /\ ses' \in [Client -> ASession] /\ ses'[c] = t /\ stream'[c] = f
        /\ \A d \in Client : d # c => ses'[d] = ses[d] /\ stream'[d] = stream[d]
        /\ StreamsTyped(stream', written)
    BY <1>0, <2>2, <2>5, <2>6 DEF AtHead, StreamsTyped
  <2>8. badger' \in SUBSET badger /\ (t.queue # <<>> => badger' = badger) /\ \A e \in badger : e # fd => e \in badger'
    BY <2>1, <2>7 DEF BadgerAgain
  <2>9. LinksRight(ses', hash, slot, sock, attached, badger', down, grp)
    <3>1. \A d \in Client : ses'[d].status = ses[d].status /\ ses'[d].mbox = ses[d].mbox
      BY <2>2, <2>5, <2>7
    <3>2. LinksRight(ses', hash, slot, sock, attached, badger, down, grp)
      BY <1>0, <2>7, <3>1, SameLinks
    <3> QED  BY <2>8, <3>2, FewerTimers
  <2>10. StreamsRight(ses', badger', stream', written)
    <3>1. \A d \in Client : ses[d].status = "op" /\ ses[d].mbox = fd => d = c
      BY <1>0, <2>2 DEF LinksRight, SocketsRight
    <3> SUFFICES ASSUME NEW d \in Client
                 PROVE  IF ses'[d].status = "op"
                        THEN /\ stream'[d] \o Rest(ses'[d]) = Units(written[d])
                             /\ ses'[d].queue # <<>> => ses'[d].mbox \in badger'
                             /\ ses'[d].queue = <<>> => ses'[d].sent = 0
                        ELSE stream'[d] = <<>> /\ written[d] = <<>>
      BY DEF StreamsRight
    <3>2. CASE d = c
      BY <1>1, <2>5, <2>7, <2>8, <3>2 DEF AtHead
    <3>3. CASE d # c
      <4>1. ses'[d] = ses[d] /\ stream'[d] = stream[d]
        BY <2>7, <3>3
      <4>2. ses[d].status = "op" /\ ses[d].mbox \in badger => ses[d].mbox \in badger'
        BY <2>8, <3>1, <3>3
      <4> QED  BY <1>0, <4>1, <4>2 DEF StreamsRight
    <3> QED  BY <3>2, <3>3
  <2> QED  BY <1>0, <1>1, <2>7, <2>9, <2>10, InvNext
<1> QED  BY <1>5, <1>6

\* Why an operational session may be killed does not matter.
LEMMA KillStep ==
    ASSUME SessInv, NEW c \in Client, ses[c].status = "op", Sess_kill(c),
           UNCHANGED <<hash, slot, grp>>, requests' \in Nat
    PROVE  SessInv'
<1> DEFINE k1 == <<KillMessage(c)>>
           K == {c}
<1>0. /\ LinksRight(ses, hash, slot, sock, attached, badger, down, grp)
      /\ StreamsRight(ses, badger, stream, written) /\ StreamsTyped(stream, written)
      /\ ses \in [Client -> ASession] /\ sock \in [Client -> {"none", "backlog", "open", "closed"}]
      /\ attached \in [Fd -> {"none", "accept", "auth", "pword", "read"}]
      /\ badger \in SUBSET Fd /\ unsent \in Nat
  BY InvParts
<1>1. /\ ses' = [ses EXCEPT ![c] = Killed(@)] /\ badger' = badger \ {ses[c].mbox}
      /\ attached' = [attached EXCEPT ![ses[c].mbox] = "none"] /\ sock' = Close({c})
      /\ down' = down \o k1 /\ unsent' = unsent + Len(k1)
      /\ stream' = [stream EXCEPT ![c] = <<>>] /\ written' = [written EXCEPT ![c] = <<>>]
  BY DEF Sess_kill, Prot_new_message
<1>2. ~ fatal'
  <2>1. fatal' = (ses[c].status = "preauth")
    BY Zenon DEF Sess_kill
  <2>2. ~ (ses[c].status = "preauth")
    OBVIOUS
  <2> QED  BY <2>1, <2>2, Zenon
<1>3. Killed(ses[c]) \in ASession /\ Killed(ses[c]).status = "killed" /\ Killed(ses[c]).mbox = ses[c].mbox
  BY <1>0, KilledParts
<1>4. /\ ses' \in [Client -> ASession] /\ ses'[c].status = "killed"
      /\ \A d \in Client : d # c => ses'[d] = ses[d]
      /\ \A d \in Client : /\ ses'[d].mbox = ses[d].mbox
                           /\ ses'[d].status = IF d \in K THEN "killed" ELSE ses[d].status
  BY <1>0, <1>1, <1>3
<1>5. KillsOf(k1, K) /\ Len(k1) = 1
  BY KillParts DEF KillsOf
<1>6. LinksRight(ses', hash, slot, sock', attached', badger', down', grp)
  <2> DEFINE t == ses'
             sk == sock'
             at == attached'
             bd == badger'
  <2>1. /\ t \in [Client -> ASession]
        /\ \A d \in Client : /\ t[d].mbox = ses[d].mbox
                             /\ t[d].status = IF d \in K THEN "killed" ELSE ses[d].status
    BY <1>4
  <2>2. sk = [d \in Client |-> IF d \in K THEN "closed" ELSE sock[d]]
    BY <1>1 DEF Close
  <2>3. at = [fd \in Fd |-> IF \E d \in K : ses[d].mbox = fd THEN "none" ELSE attached[fd]]
    BY <1>0, <1>1
  <2>4. bd \in SUBSET Fd /\ \A fd \in bd : fd \in badger /\ ~ \E d \in K : ses[d].mbox = fd
    BY <1>0, <1>1
  <2>5. K \in SUBSET {d \in Client : ses[d].status = "op"}
    OBVIOUS
  <2>6. \A fd \in bd : \/ fd \in badger /\ ~ \E d \in K : ses[d].mbox = fd
                       \/ \E d \in Client : t[d].status = "op" /\ t[d].mbox = fd
    BY <2>4
  <2> HIDE DEF t, sk, at, bd, K, k1
  <2>7. LinksRight(t, hash, slot, sk, at, bd, down \o k1, grp)
    BY <1>0, <1>5, <2>1, <2>2, <2>3, <2>4, <2>5, <2>6, Kills
  <2> QED  BY <1>1, <2>7 DEF t, sk, at, bd
<1>7. StreamsTyped(stream', written')
  <2>1. <<>> \in Seq(AUnit) /\ <<>> \in Seq(Given)
    BY EmptySeq
  <2> QED  BY <1>0, <1>1, <2>1 DEF StreamsTyped
<1>8. StreamsRight(ses', badger', stream', written')
  <2> SUFFICES ASSUME NEW d \in Client
               PROVE  IF ses'[d].status = "op"
                      THEN /\ stream'[d] \o Rest(ses'[d]) = Units(written'[d])
                           /\ ses'[d].queue # <<>> => ses'[d].mbox \in badger'
                           /\ ses'[d].queue = <<>> => ses'[d].sent = 0
                      ELSE stream'[d] = <<>> /\ written'[d] = <<>>
    BY DEF StreamsRight
  <2>1. CASE d = c
    <3>1. ses'[c].status # "op"
      BY <1>4
    <3>2. stream'[c] = <<>> /\ written'[c] = <<>>
      BY <1>0, <1>1 DEF StreamsTyped
    <3> QED  BY <2>1, <3>1, <3>2
  <2>2. CASE d # c
    <3>1. ses'[d] = ses[d] /\ stream'[d] = stream[d] /\ written'[d] = written[d]
      BY <1>0, <1>1, <1>4, <2>2 DEF StreamsTyped
    <3>2. ses[d].status = "op" => ses[d].mbox # ses[c].mbox
      BY <1>0, <2>2 DEF LinksRight, SocketsRight
    <3>3. ses[d].status = "op" /\ ses[d].mbox \in badger => ses[d].mbox \in badger'
      BY <1>1, <3>2
    <3> QED  BY <1>0, <3>1, <3>3 DEF StreamsRight
  <2> QED  BY <2>1, <2>2
<1>9. unsent' \in Nat
  BY <1>0, <1>1, <1>5
<1> QED  BY <1>2, <1>6, <1>7, <1>8, <1>9, InvNext

\* Whether a header is awaited does not matter to the links and the streams.
LEMMA HeadKeeps ==
    ASSUME SessInv, NEW c \in Client, NEW b \in BOOLEAN,
           NEW tab, tab = [ses EXCEPT ![c].in_head = b]
    PROVE  /\ LinksRight(tab, hash, slot, sock, attached, badger, down, grp)
           /\ StreamsRight(tab, badger, stream, written)
           /\ \A d \in Client : tab[d].mbox = ses[d].mbox /\ tab[d].status = ses[d].status
<1>0. /\ LinksRight(ses, hash, slot, sock, attached, badger, down, grp)
      /\ StreamsRight(ses, badger, stream, written) /\ ses \in [Client -> ASession]
  BY InvParts
<1>1. /\ tab \in [Client -> ASession]
      /\ \A d \in Client : /\ tab[d].mbox = ses[d].mbox /\ tab[d].status = ses[d].status
                           /\ tab[d].queue = ses[d].queue /\ tab[d].sent = ses[d].sent
  BY <1>0 DEF ASession
<1>2. LinksRight(tab, hash, slot, sock, attached, badger, down, grp)
  BY <1>0, <1>1, SameLinks
<1>3. \A d \in Client : Rest(tab[d]) = Rest(ses[d])
  BY <1>1 DEF Rest
<1>4. StreamsRight(tab, badger, stream, written)
  BY <1>0, <1>1, <1>3, ZenonT(40) DEF StreamsRight
<1> QED  BY <1>1, <1>2, <1>4

LEMMA ReadStep ==
    ASSUME SessInv, NEW fd \in Fd, Sess_read(fd)
    PROVE  SessInv'
<1> DEFINE c == Sess_get_session_index(hash, ses, fd)
<1>0. /\ LinksRight(ses, hash, slot, sock, attached, badger, down, grp)
      /\ StreamsRight(ses, badger, stream, written) /\ StreamsTyped(stream, written)
      /\ ses \in [Client -> ASession] /\ unsent \in Nat /\ requests \in Nat
  BY InvParts
<1>1. /\ ~ fatal /\ attached[fd] = "read" /\ UNCHANGED <<hash, slot, grp>>
      /\ \/ Sess_kill(c) /\ UNCHANGED requests
         \/ ReadHeader(c)
         \/ ReadMessage(c)
  BY DEF Sess_read
<1>2. c \in Client /\ ses[c].status = "op"
  BY <1>0, <1>1, Server
<1> HIDE DEF c
<1>3. CASE Sess_kill(c) /\ UNCHANGED requests
  BY <1>0, <1>1, <1>2, <1>3, KillStep
<1>4. CASE ReadHeader(c)
  <2>1. /\ ses' = [ses EXCEPT ![c].in_head = FALSE]
        /\ UNCHANGED <<sock, attached, badger, down, unsent, blocked, stream, written, fatal, requests>>
    BY <1>4 DEF ReadHeader
  <2> DEFINE t == ses'
  <2>2. t = [ses EXCEPT ![c].in_head = FALSE] /\ FALSE \in BOOLEAN
    BY <2>1
  <2> HIDE DEF t
  <2>3. LinksRight(t, hash, slot, sock, attached, badger, down, grp) /\ StreamsRight(t, badger, stream, written)
    BY <1>2, <2>2, HeadKeeps
  <2> QED  BY <1>0, <1>1, <2>1, <2>3, InvNext DEF t
<1>5. CASE ReadMessage(c)
  <2> DEFINE tab == [ses EXCEPT ![c].in_head = TRUE]
             msg == [t \in {"join", "leave", "data", "reject"} |-> [type |-> t, who |-> c, no |-> requests]]
  <2>1. requests' = requests + 1 /\ ActOnMessage(tab, c, msg)
    BY <1>5 DEF ReadMessage
  <2>2. /\ LinksRight(tab, hash, slot, sock, attached, badger, down, grp)
        /\ StreamsRight(tab, badger, stream, written)
        /\ \A d \in Client : tab[d].mbox = ses[d].mbox /\ tab[d].status = ses[d].status
    <3>1. TRUE \in BOOLEAN
      OBVIOUS
    <3> HIDE DEF tab
    <3>2. tab = [ses EXCEPT ![c].in_head = TRUE]
      BY DEF tab
    <3>3. LinksRight(tab, hash, slot, sock, attached, badger, down, grp) /\ StreamsRight(tab, badger, stream, written)
      BY <1>2, <3>1, <3>2, HeadKeeps
    <3>4. \A d \in Client : tab[d].mbox = ses[d].mbox /\ tab[d].status = ses[d].status
      BY <1>0, <1>2, <3>2 DEF ASession
    <3> QED  BY <3>3, <3>4
  <2>3. msg["reject"] \in Given
    BY <1>0, <1>2 DEF Given
  <2>4. \A t \in {"join", "leave", "data"} : /\ msg[t] \in RingMess /\ msg[t].type # "kill"
                                             /\ msg[t].who = c
    BY <1>0, <1>2 DEF RingMess
  <2>5. \/ Sess_write(tab, {c}, msg["reject"], FALSE) /\ UNCHANGED fatal
        \/ /\ \E t \in {"join", "leave", "data"} : Prot_new_message(<<msg[t]>>, FALSE)
           /\ ses' = tab /\ UNCHANGED <<sock, attached, badger, stream, written, fatal>>
        \/ Sess_kill(c)
    <3> HIDE DEF tab, msg
    <3> QED  BY <2>1 DEF ActOnMessage
  <2> HIDE DEF tab, msg
  <2>6. requests' \in Nat
    BY <1>0, <2>1
  <2>7. CASE Sess_write(tab, {c}, msg["reject"], FALSE) /\ UNCHANGED fatal
    <3>1. {c} \in SUBSET Client /\ FALSE \in BOOLEAN /\ down = IF FALSE THEN Tail(down) ELSE down
      BY <1>2
    <3>2. /\ LinksRight(ses', hash, slot, sock', attached', badger', down', grp)
          /\ StreamsRight(ses', badger', stream', written')
          /\ StreamsTyped(stream', written') /\ unsent' \in Nat
      BY <1>0, <2>2, <2>3, <2>7, <3>1, Write
    <3> QED  BY <1>1, <2>6, <2>7, <3>2, InvNext
  <2>8. CASE /\ \E t \in {"join", "leave", "data"} : Prot_new_message(<<msg[t]>>, FALSE)
             /\ ses' = tab /\ UNCHANGED <<sock, attached, badger, stream, written, fatal>>
    <3>1. PICK t \in {"join", "leave", "data"} : Prot_new_message(<<msg[t]>>, FALSE)
      BY <2>8
    <3> DEFINE m == msg[t]
    <3>2. m \in RingMess /\ m.type # "kill" /\ tab[m.who].status = "op"
      BY <1>2, <2>2, <2>4
    <3>3. down' = down \o <<m>> /\ unsent' = unsent + Len(<<m>>)
      BY <3>1 DEF Prot_new_message
    <3> HIDE DEF m
    <3>4. LinksRight(tab, hash, slot, sock, attached, badger, down \o <<m>>, grp)
      BY <2>2, <3>2, Sends
    <3>5. unsent' \in Nat
      BY <1>0, <3>3
    <3> QED  BY <1>0, <1>1, <2>2, <2>6, <2>8, <3>3, <3>4, <3>5, InvNext
  <2>9. CASE Sess_kill(c)
    BY <1>1, <1>2, <2>6, <2>9, KillStep
  <2> QED  BY <2>5, <2>7, <2>8, <2>9
<1> QED  BY <1>1, <1>3, <1>4, <1>5

-----------------------------------------------------------------------------
(***************************************************************************)
(* Deliveries.                                                             *)
(***************************************************************************)
\* What the ring delivers is of a session that was authorized and still has its
\* name.
LEMMA Delivered ==
    ASSUME SessInv, Len(down) > unsent
    PROVE  /\ down # <<>> /\ Head(down) \in RingMess /\ Head(down).who \in Authorized(ses)
           /\ Sess_get_session(NameOf[Head(down).who]) = Head(down).who
<1>0. /\ LinksRight(ses, hash, slot, sock, attached, badger, down, grp)
      /\ ses \in [Client -> ASession] /\ down \in Seq(RingMess) /\ unsent \in Nat
  BY InvParts
<1>1. down # <<>>
  BY <1>0, EmptySeq
<1>2. Head(down) = down[1] /\ 1 \in DOMAIN down
  BY <1>0, <1>1, TailParts
<1>3. Head(down) \in RingMess /\ Head(down).who \in Authorized(ses)
  BY <1>0, <1>2 DEF LinksRight, RingRight
<1>4. TableRight(ses, slot) /\ Head(down).who \in Sessions(ses)
  BY <1>0, <1>3 DEF LinksRight, Authorized, Sessions
<1>5. Sess_get_session(NameOf[Head(down).who]) = Head(down).who
  BY <1>0, <1>4, NameIndex
<1> QED  BY <1>1, <1>3, <1>5

LEMMA GroupSessions ==
    ASSUME hash \in Seq(Client), NEW g
    PROVE  G_analize_groups(g) \in SUBSET Client
<1>1. \A mb : Sess_get_session_index(hash, ses, mb) \in Client \cup {None}
  BY IndexType
<1> QED  BY <1>1 DEF G_analize_groups

\* Any message but a KILL leaves the table, and maybe another group.
LEMMA DeliverNext ==
    ASSUME SessInv, Len(down) > unsent, Head(down).type # "kill",
           NEW g2 \in AGroup, GroupRight(ses, g2),
           \A c \in g2.members : c \in grp.members \/ c = Head(down).who,
           NEW T \in SUBSET Client, NEW m, T = {} \/ m \in Given, Sess_write(ses, T, m, TRUE),
           grp' = g2, hash' = hash, slot' = slot, requests' = requests, ~ fatal'
    PROVE  SessInv'
<1>0. /\ LinksRight(ses, hash, slot, sock, attached, badger, down, grp)
      /\ StreamsRight(ses, badger, stream, written) /\ StreamsTyped(stream, written)
      /\ unsent \in Nat /\ requests \in Nat
  BY InvParts
<1>1. down # <<>>
  BY Delivered
<1>2. LinksRight(ses, hash, slot, sock, attached, badger, Tail(down), g2)
  BY <1>0, <1>1, TakenOff
<1> DEFINE dn == IF TRUE THEN Tail(down) ELSE down
<1>3. LinksRight(ses, hash, slot, sock, attached, badger, dn, g2)
  BY <1>2
<1>4. dn = (IF TRUE THEN Tail(down) ELSE down) /\ TRUE \in BOOLEAN /\ \A c \in Client : ses[c].mbox = ses[c].mbox
  OBVIOUS
<1> HIDE DEF dn
<1>5. /\ LinksRight(ses', hash, slot, sock', attached', badger', down', g2)
      /\ StreamsRight(ses', badger', stream', written')
      /\ StreamsTyped(stream', written') /\ unsent' \in Nat
  BY <1>0, <1>3, <1>4, Write
<1> QED  BY <1>0, <1>5, InvNext

LEMMA KillDelivered ==
    ASSUME SessInv, Len(down) > unsent, Head(down).type = "kill", Sess_handle_kill(Head(down)),
           slot' = slot, requests' = requests
    PROVE  SessInv'
<1> DEFINE c == Head(down).who
           gone == Sess_remove_session(c)
           g2 == IF c \in grp.members THEN Without(c) ELSE grp
<1>0. /\ LinksRight(ses, hash, slot, sock, attached, badger, down, grp)
      /\ StreamsRight(ses, badger, stream, written) /\ StreamsTyped(stream, written)
      /\ ses \in [Client -> ASession] /\ hash \in Seq(Client) /\ down \in Seq(RingMess)
      /\ unsent \in Nat /\ requests \in Nat
  BY InvParts
<1>1. /\ down # <<>> /\ c \in Authorized(ses) /\ c \in Client /\ c # None
      /\ Sess_get_session(NameOf[c]) = c /\ Head(down) = KillMessage(c)
  BY Delivered, MessParts, NoneIsNone DEF Authorized
<1>2. ses[c].status = "killed"
  <2>1. Head(down) = down[1] /\ 1 \in DOMAIN down
    BY <1>0, <1>1, TailParts
  <2> QED  BY <1>0, <2>1 DEF LinksRight, RingRight
<1>3. /\ fatal' = (c # None /\ ses[c].status = "op")
      /\ hash' = Sess_unhash_session(c)
      /\ \/ c \notin grp.members /\ Sess_write(gone, {}, Head(down), TRUE) /\ grp' = grp
         \/ /\ c \in grp.members /\ grp' = Without(c)
            /\ Sess_write(gone, G_analize_groups(Without(c)), Memb(Head(down)), TRUE)
  <2>1. (IF c = None THEN ses ELSE gone) = gone
    BY <1>1
  <2> HIDE DEF gone
  <2> QED  BY <1>1, <2>1, Zenon DEF Sess_handle_kill, gone
<1>4. ~ fatal'
  <2>1. ~ (c # None /\ ses[c].status = "op")
    BY <1>2
  <2> QED  BY <1>3, <2>1, Zenon
<1> HIDE DEF c
<1>5. NewStatus(ses, gone, c, "none")
  BY <1>0, <1>1 DEF NewStatus, Sess_remove_session, ASession
<1>6. Without1(hash, c, hash')
  <2>1. HashRight(ses, hash) /\ c \in Sessions(ses)
    BY <1>0, <1>1, <1>2 DEF LinksRight, Sessions
  <2> QED  BY <1>0, <1>3, <2>1, Unhashed
<1>7. grp' = g2
  BY <1>3
<1> HIDE DEF gone
<1>8. LinksRight(gone, hash', slot, sock, attached, badger, Tail(down), g2)
  <2> DEFINE r == hash'
  <2>1. /\ gone \in [Client -> ASession] /\ Without1(hash, c, r)
        /\ \A d \in Client : /\ gone[d].mbox = ses[d].mbox
                             /\ gone[d].status = IF d = c THEN "none" ELSE ses[d].status
    BY <1>5, <1>6 DEF NewStatus
  <2>2. g2 = IF c \in grp.members
             THEN [members |-> grp.members \ {c}, mboxes |-> grp.mboxes \ {ses[c].mbox}]
             ELSE grp
    BY DEF Without
  <2> HIDE DEF r, g2
  <2>3. LinksRight(gone, r, slot, sock, attached, badger, Tail(down), g2)
    BY <1>0, <1>1, <2>1, <2>2, TakenOut, ZenonT(40)
  <2> QED  BY <2>3 DEF r
<1> HIDE DEF g2
<1>9. StreamsRight(gone, badger, stream, written)
  BY <1>0, <1>1, <1>2, <1>5, StreamsKept
<1> DEFINE T == IF c \in grp.members THEN G_analize_groups(Without(c)) ELSE {}
           m == IF c \in grp.members THEN Memb(Head(down)) ELSE Head(down)
<1>10. T \in SUBSET Client /\ (T = {} \/ m \in Given) /\ Sess_write(gone, T, m, TRUE)
  <2>1. {} \in SUBSET Client /\ G_analize_groups(Without(c)) \in SUBSET Client
    BY <1>0, GroupSessions
  <2>2. Memb(Head(down)) \in Given
    BY <1>1 DEF Memb, Given, c
  <2>3. CASE c \in grp.members
    BY <1>3, <2>1, <2>2, <2>3
  <2>4. CASE c \notin grp.members
    BY <1>3, <2>1, <2>4
  <2> QED  BY <2>3, <2>4
<1> HIDE DEF T, m
<1>11. /\ LinksRight(ses', hash', slot, sock', attached', badger', down', g2)
       /\ StreamsRight(ses', badger', stream', written')
       /\ StreamsTyped(stream', written') /\ unsent' \in Nat
  <2> DEFINE dn == IF TRUE THEN Tail(down) ELSE down
             r == hash'
  <2>1. LinksRight(gone, r, slot, sock, attached, badger, dn, g2)
    BY <1>8
  <2>2. dn = (IF TRUE THEN Tail(down) ELSE down) /\ TRUE \in BOOLEAN /\ \A d \in Client : gone[d].mbox = ses[d].mbox
    BY <1>5 DEF NewStatus
  <2> HIDE DEF dn, r
  <2>3. /\ LinksRight(ses', r, slot, sock', attached', badger', down', g2)
        /\ StreamsRight(ses', badger', stream', written')
        /\ StreamsTyped(stream', written') /\ unsent' \in Nat
    BY <1>0, <1>9, <1>10, <2>1, <2>2, Write
  <2> QED  BY <2>3 DEF r
<1> QED  BY <1>0, <1>4, <1>7, <1>11, InvNext

LEMMA DeliverStep ==
    ASSUME SessInv, Sess_deliver_message
    PROVE  SessInv'
<1> DEFINE m == Head(down)
           c == m.who
<1>0. /\ LinksRight(ses, hash, slot, sock, attached, badger, down, grp)
      /\ hash \in Seq(Client) /\ grp \in AGroup
  BY InvParts
<1>1. /\ ~ fatal /\ Len(down) > unsent /\ slot' = slot /\ requests' = requests
      /\ \/ m.type = "join"  /\ Sess_handle_join(m)
         \/ m.type = "leave" /\ Sess_handle_leave(m)
         \/ m.type = "kill"  /\ Sess_handle_kill(m)
         \/ /\ m.type = "data"
            /\ Sess_write(ses, G_analize_groups(grp), m, TRUE)
            /\ UNCHANGED <<grp, fatal, hash>>
  BY DEF Sess_deliver_message
<1>2. /\ m \in RingMess /\ c \in Authorized(ses) /\ c \in Client /\ c # None
      /\ Sess_get_session(NameOf[c]) = c
  BY <1>1, Delivered, MessParts, NoneIsNone
<1>3. \A g : G_analize_groups(g) \in SUBSET Client
  BY <1>0, GroupSessions
<1>4. Memb(m) \in Given /\ {} \in SUBSET Client /\ {c} \in SUBSET Client
  BY <1>2 DEF Memb, Given
<1>5. GroupRight(ses, grp)
  BY <1>0 DEF LinksRight
<1>6. CASE m.type = "join" /\ Sess_handle_join(m)
  <2> DEFINE new == [members |-> grp.members \cup {c}, mboxes |-> grp.mboxes \cup {ses[c].mbox}]
  <2>1. new \in AGroup /\ GroupRight(ses, new)
    BY <1>0, <1>2, GroupJoined
  <2>2. \A d \in new.members : d \in grp.members \/ d = c
    OBVIOUS
  <2> HIDE DEF new
  <2>3. CASE c \in grp.members
    <3>1. Sess_write(ses, {}, m, TRUE) /\ UNCHANGED <<grp, fatal, hash>>
      BY <1>6, <2>3 DEF Sess_handle_join
    <3> QED  BY <1>0, <1>1, <1>4, <1>5, <1>6, <3>1, DeliverNext
  <2>4. CASE c \notin grp.members
    <3>1. /\ fatal' = (Sess_get_session(NameOf[c]) = None)
          /\ grp' = new /\ hash' = hash
          /\ Sess_write(ses, G_analize_groups(new), Memb(m), TRUE)
      BY <1>6, <2>4, Zenon DEF Sess_handle_join, new
    <3>2. ~ fatal'
      BY <1>2, <3>1, Zenon
    <3> QED  BY <1>1, <1>3, <1>4, <1>6, <2>1, <2>2, <3>1, <3>2, DeliverNext
  <2> QED  BY <2>3, <2>4
<1>7. CASE m.type = "leave" /\ Sess_handle_leave(m)
  <2>1. CASE c \notin grp.members
    <3>1. Sess_write(ses, {}, m, TRUE) /\ UNCHANGED <<grp, fatal, hash>>
      BY <1>7, <2>1 DEF Sess_handle_leave
    <3> QED  BY <1>0, <1>1, <1>4, <1>5, <1>7, <3>1, DeliverNext
  <2>2. CASE c \in grp.members
    <3> DEFINE new == Without(c)
               T == {c} \cup G_analize_groups(Without(c))
    <3>1. /\ grp' = new /\ UNCHANGED <<fatal, hash>> /\ Sess_write(ses, T, Memb(m), TRUE)
      BY <1>7, <2>2 DEF Sess_handle_leave
    <3>2. new \in AGroup /\ GroupRight(ses, new)
      BY <1>0, <2>2, GroupLeft DEF Without
    <3>3. \A d \in new.members : d \in grp.members
      BY DEF Without
    <3>4. T \in SUBSET Client
      BY <1>3, <1>4
    <3> HIDE DEF new, T
    <3> QED  BY <1>1, <1>4, <1>7, <3>1, <3>2, <3>3, <3>4, DeliverNext
  <2> QED  BY <2>1, <2>2
<1>8. CASE m.type = "kill" /\ Sess_handle_kill(m)
  BY <1>1, <1>8, KillDelivered
<1>9. CASE m.type = "data" /\ Sess_write(ses, G_analize_groups(grp), m, TRUE) /\ UNCHANGED <<grp, fatal, hash>>
  <2>1. m \in Given
    BY <1>2, <1>9 DEF RingMess, Given
  <2> QED  BY <1>0, <1>1, <1>3, <1>5, <1>9, <2>1, DeliverNext
<1> QED  BY <1>1, <1>6, <1>7, <1>8, <1>9

-----------------------------------------------------------------------------
(***************************************************************************)
(* The theorems.                                                           *)
(***************************************************************************)
LEMMA SendStep ==
    ASSUME SessInv, RingSend
    PROVE  SessInv'
<1>0. /\ LinksRight(ses, hash, slot, sock, attached, badger, down, grp)
      /\ StreamsRight(ses, badger, stream, written) /\ StreamsTyped(stream, written)
      /\ unsent \in Nat /\ requests \in Nat
  BY InvParts
<1>1. /\ ~ fatal /\ unsent > 0 /\ unsent' = unsent - 1
      /\ UNCHANGED <<ses, hash, slot, sock, attached, badger, down, grp, stream, written, fatal, requests>>
  BY DEF RingSend
<1>2. unsent' \in Nat
  BY <1>0, <1>1
<1> QED  BY <1>0, <1>1, <1>2, InvNext

LEMMA SessStep == SessInv /\ [SessNext]_sessvars => SessInv'
<1> SUFFICES ASSUME SessInv, [SessNext]_sessvars PROVE SessInv'
  OBVIOUS
<1>1. ASSUME NEW c \in Client, ClientConnects(c) PROVE SessInv'
  BY <1>1, ConnectStep
<1>2. ASSUME NEW c \in Client, Sess_accept(c) PROVE SessInv'
  BY <1>2, AcceptStep
<1>3. CASE Sess_accept_continue
  BY <1>3, ContinueStep
<1>4. ASSUME NEW fd \in Fd, Sess_recv_client_auth(fd) PROVE SessInv'
  BY <1>4, AuthStep
<1>5. ASSUME NEW fd \in Fd, auth_client_conn_read(fd) PROVE SessInv'
  BY <1>5, PasswordStep
<1>6. ASSUME NEW fd \in Fd, Sess_read(fd) PROVE SessInv'
  BY <1>6, ReadStep
<1>7. ASSUME NEW fd \in Fd, Sess_badger(fd) PROVE SessInv'
  BY <1>7, BadgerStep
<1>8. CASE RingSend
  BY <1>8, SendStep
<1>9. CASE Sess_deliver_message
  BY <1>9, DeliverStep
<1>10. CASE UNCHANGED sessvars
  <2>1. UNCHANGED <<ses, hash, slot, sock, attached, badger, down, unsent, grp, stream, written, fatal, requests>>
    BY <1>10 DEF sessvars
  <2>2. ~ fatal
    BY DEF SessInv, NoBugAlarm
  <2> QED  BY <2>1, <2>2, InvParts, InvNext
<1> QED  BY <1>1, <1>2, <1>3, <1>4, <1>5, <1>6, <1>7, <1>8, <1>9, <1>10 DEF SessNext

\* The inductive invariant, for any clients, names, limits and authentication.
THEOREM SessionInvariant == SessSpec => []SessInv
BY Initially, SessStep, PTL DEF SessSpec

\* No connection, request, failure or delivery leads to an alarm marked BUG:
\* the next descriptor is never that of a session that is still operational
\* (Sess_accept), authentication and removal meet the status they expect, and
\* a session that joins is in the table (Sess_recv_client_auth, G_handle_join,
\* Sess_handle_kill).
THEOREM NoAlarmMet == SessSpec => []NoBugAlarm
<1>1. SessInv => NoBugAlarm
  BY DEF SessInv
<1> QED  BY <1>1, SessionInvariant, PTL

\* The handler of a descriptor, and its Sess_badger timer, find by the hash
\* chain of the mailbox the one open session, although killed sessions with the
\* same mailbox may still be hashed behind it (Sess_get_session_index).
THEOREM HandlersFindTheirs == SessSpec => []HandlerFinds
<1>1. ASSUME SessInv PROVE HandlerFinds
  <2>0. LinksRight(ses, hash, slot, sock, attached, badger, down, grp)
    BY <1>1, InvParts
  <2>1. ASSUME NEW fd \in Fd, attached[fd] \in {"auth", "pword", "read"}
        PROVE  LET c == Sess_get_session_index(hash, ses, fd)
               IN  c # None /\ sock[c] = "open" /\ (attached[fd] = "read") = (ses[c].status = "op")
    <3> DEFINE c == Sess_get_session_index(hash, ses, fd)
    <3>1. /\ c \in Client /\ sock[c] = "open"
          /\ ses[c].status = IF attached[fd] = "read" THEN "op" ELSE "preauth"
      BY <2>0, <2>1, Server
    <3> HIDE DEF c
    <3>2. (attached[fd] = "read") <=> (ses[c].status = "op")
      BY <3>1
    <3>3. c # None
      BY <3>1, NoneIsNone
    <3>4. (attached[fd] = "read") = (ses[c].status = "op")
      BY <3>2, Zenon
    <3> QED  BY <3>1, <3>3, <3>4, Zenon DEF c
  <2>2. \A fd \in badger : \E c \in Client : Is_op_session(c) /\ ses[c].mbox = fd
    BY <2>0 DEF LinksRight, TimersRight, Is_op_session
  <2>3. \A c, d \in Client : (sock[c] = "open" /\ sock[d] = "open" /\ c # d) => ses[c].mbox # ses[d].mbox
    BY <2>0 DEF LinksRight, SocketsRight
  <2> QED  BY <2>1, <2>2, <2>3, Zenon DEF HandlerFinds
<1> QED  BY <1>1, SessionInvariant, PTL

\* A name is taken until its session's KILL message has come back, which is
\* after all it sent: what the ring still holds for a name, and the group, are
\* never inherited by the next owner of the name (Sess_unique_mess and
\* Sess_handle_kill).
THEOREM NamesNotInherited == SessSpec => []NameStillOwned
<1>1. ASSUME SessInv PROVE NameStillOwned
  <2>0. /\ TableRight(ses, slot) /\ RingRight(ses, down) /\ GroupRight(ses, grp)
        /\ ses \in [Client -> ASession] /\ down \in Seq(RingMess)
    BY <1>1, InvParts DEF LinksRight
  <2>1. \A m \in Range(down) : m.who \in Authorized(ses)
    BY <2>0 DEF RingRight, Range
  <2>2. \A c \in grp.members : c \in Authorized(ses)
    BY <2>0 DEF GroupRight
  <2>3. ASSUME NEW c \in {m.who : m \in Range(down)} \cup grp.members
        PROVE  Sess_get_session(NameOf[c]) = c
    <3>1. c \in Sessions(ses)
      BY <2>1, <2>2 DEF Authorized, Sessions
    <3> QED  BY <2>0, <3>1, NameIndex
  <2> QED  BY <2>3 DEF NameStillOwned
<1> QED  BY <1>1, SessionInvariant, PTL

\* The mailboxes G_analize_groups sends to are those of the members, and that
\* of an operational member leads to it: only the mailbox of a closed one,
\* given out again, leads to somebody else.
THEOREM StraysByReuseOnly == SessSpec => []StraysOnlyByReuse
<1>1. ASSUME SessInv PROVE StraysOnlyByReuse
  <2>0. /\ HashRight(ses, hash) /\ ReuseRight(ses, hash, down, grp) /\ GroupRight(ses, grp)
        /\ ses \in [Client -> ASession] /\ hash \in Seq(Client)
    BY <1>1, InvParts DEF LinksRight
  <2>1. ASSUME NEW c \in grp.members, Is_op_session(c)
        PROVE  Sess_get_session_index(hash, ses, ses[c].mbox) = c
    <3>1. c \in Client /\ ses[c].status = "op"
      BY <2>0, <2>1 DEF GroupRight, Authorized, Is_op_session
    <3> QED  BY <2>0, <3>1, OpenIndex
  <2> QED  BY <2>0, <2>1 DEF StraysOnlyByReuse, GroupRight
<1> QED  BY <1>1, SessionInvariant, PTL

\* However little the kernel takes each time, what a working session has been
\* sent and what is queued for it are the messages it was to get, none lost,
\* repeated or torn, and a queue that is not empty has its timer (Sess_write,
\* Sess_badger and Sess_badger_TO).
THEOREM StreamsUnbroken == SessSpec => []StreamIntact
<1>1. SessInv => StreamIntact
  BY DEF SessInv, StreamsRight, StreamIntact, Is_op_session
<1> QED  BY <1>1, SessionInvariant, PTL
=============================================================================
