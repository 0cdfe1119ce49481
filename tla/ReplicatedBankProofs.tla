------------------------ MODULE ReplicatedBankProofs ------------------------
(***************************************************************************)
(* Theorems about ReplicatedBank, for any replicas, commands and bounds,   *)
(* and the facts about the operators of Client and Account they rest on.   *)
(***************************************************************************)
EXTENDS ReplicatedBank, SequenceTheorems, FiniteSetTheorems, WellFoundedInduction, TLAPS

-----------------------------------------------------------------------------
(***************************************************************************)
(* The account's operators, for any transactions.                          *)
(***************************************************************************)
(***************************************************************************)
(* A non-empty set of natural numbers has a least element, so the index    *)
(* that findFirst computes is well defined.                                *)
(***************************************************************************)
LEMMA LeastExists ==
    ASSUME NEW T \in SUBSET Nat, T # {}
    PROVE  \E x \in T : \A y \in T : x =< y
<1> DEFINE R == {ss \in Nat \X Nat : ss[1] < ss[2]}
<1>1. IsWellFoundedOn(R, Nat)
  BY NatLessThanWellFounded, Zenon DEF OpToRel
<1>2. \E x \in T : \A y \in T : ~(<<y, x>> \in R)
  <2> HIDE DEF R
  <2> QED  BY <1>1, WFMin
<1>3. \A x, y \in T : ~(<<y, x>> \in R) => x =< y
  OBVIOUS
<1> QED  BY <1>2, <1>3

\* The position of the first transaction in s with the id of t.
LEMMA FirstMatch ==
    ASSUME NEW s \in Seq(Transaction), NEW t \in Transaction,
           \E i \in 1 .. Len(s) : s[i].uniqueId = t.uniqueId
    PROVE  \E i \in 1 .. Len(s) :
              /\ s[i].uniqueId = t.uniqueId
              /\ RemoveOutstanding(s, t) = RemoveAt(s, i)
<1> DEFINE I == {i \in 1 .. Len(s) : s[i].uniqueId = t.uniqueId}
<1>1. I \in SUBSET Nat /\ I # {}
  OBVIOUS
<1>2. Min(I) \in I
  BY <1>1, LeastExists DEF Min
<1>3. RemoveOutstanding(s, t) = RemoveAt(s, Min(I))
  BY <1>1 DEF RemoveOutstanding, RemoveFirstMatch, SelectInSeq
<1> QED  BY <1>2, <1>3

\* Removing one element moves the later ones up.
LEMMA RemoveAtProperties ==
    ASSUME NEW S, NEW s \in Seq(S), NEW i \in 1 .. Len(s)
    PROVE  /\ RemoveAt(s, i) \in Seq(S)
           /\ Len(RemoveAt(s, i)) = Len(s) - 1
           /\ \A j \in 1 .. Len(s) - 1 :
                  RemoveAt(s, i)[j] = IF j < i THEN s[j] ELSE s[j + 1]
<1>1. /\ SubSeq(s, 1, i - 1) \in Seq(S)
      /\ Len(SubSeq(s, 1, i - 1)) = i - 1
      /\ \A j \in 1 .. i - 1 : SubSeq(s, 1, i - 1)[j] = s[j]
  BY SubSeqProperties
<1>2. /\ SubSeq(s, i + 1, Len(s)) \in Seq(S)
      /\ Len(SubSeq(s, i + 1, Len(s))) = Len(s) - i
      /\ \A j \in 1 .. Len(s) - i : SubSeq(s, i + 1, Len(s))[j] = s[i + j]
  BY SubSeqProperties
<1> DEFINE p == SubSeq(s, 1, i - 1)
           q == SubSeq(s, i + 1, Len(s))
<1> HIDE DEF p, q
<1>3. /\ p \o q \in Seq(S)
      /\ Len(p \o q) = Len(s) - 1
      /\ \A j \in 1 .. Len(s) - 1 : (p \o q)[j] = IF j < i THEN p[j] ELSE q[j - i + 1]
  <2>1. /\ p \in Seq(S) /\ Len(p) = i - 1
        /\ q \in Seq(S) /\ Len(q) = Len(s) - i
    BY <1>1, <1>2 DEF p, q
  <2>2. p \o q \in Seq(S) /\ Len(p \o q) = Len(p) + Len(q)
    BY <2>1, ConcatProperties
  <2>3. ASSUME NEW j \in 1 .. Len(s) - 1
        PROVE  (p \o q)[j] = IF j < i THEN p[j] ELSE q[j - i + 1]
    <3>1. j \in 1 .. Len(p) + Len(q) /\ j - Len(p) = j - i + 1
      BY <2>1, <2>3
    <3>2. (p \o q)[j] = IF j <= Len(p) THEN p[j] ELSE q[j - Len(p)]
      BY <2>1, <3>1, ConcatProperties
    <3>3. CASE j < i
      <4>1. j <= Len(p)
        BY <2>1, <3>3
      <4> QED  BY <3>2, <3>3, <4>1, Zenon
    <3>4. CASE ~(j < i)
      <4>1. ~(j <= Len(p))
        BY <2>1, <3>4
      <4>2. j - Len(p) = j - i + 1
        BY <3>1
      <4> QED  BY <3>2, <3>4, <4>1, <4>2, Zenon
    <3> QED  BY <3>3, <3>4, Zenon
  <2> QED  BY <2>1, <2>2, <2>3
<1>4. \A j \in 1 .. Len(s) - 1 : IF j < i THEN p[j] = s[j] ELSE q[j - i + 1] = s[j + 1]
  BY <1>1, <1>2 DEF p, q
<1>5. RemoveAt(s, i) = p \o q
  BY DEF RemoveAt, p, q
<1> QED  BY <1>3, <1>4, <1>5

(***************************************************************************)
(* What remains outstanding was outstanding before, in the same order:     *)
(* RemoveOutstanding keeps a subsequence.                                  *)
(***************************************************************************)
LEMMA RemoveOutstandingProperties ==
    ASSUME NEW s \in Seq(Transaction), NEW t \in Transaction,
           NEW w, w = RemoveOutstanding(s, t)
    PROVE  /\ w \in Seq(Transaction)
           /\ \A j \in 1 .. Len(w) : \E i \in 1 .. Len(s) : w[j] = s[i]
           /\ \A j, k \in 1 .. Len(w) : j < k =>
                 \E h, i \in 1 .. Len(s) : h < i /\ w[j] = s[h] /\ w[k] = s[i]
<1>1. CASE ~ \E i \in 1 .. Len(s) : s[i].uniqueId = t.uniqueId
  <2>1. w = s
    BY <1>1 DEF RemoveOutstanding, RemoveFirstMatch
  <2> QED  BY <2>1
<1>2. CASE \E i \in 1 .. Len(s) : s[i].uniqueId = t.uniqueId
  <2>1. PICK i \in 1 .. Len(s) : w = RemoveAt(s, i)
    BY <1>2, FirstMatch
  <2>2. /\ w \in Seq(Transaction)
        /\ Len(w) = Len(s) - 1
        /\ \A j \in 1 .. Len(w) : w[j] = IF j < i THEN s[j] ELSE s[j + 1]
    BY <2>1, RemoveAtProperties
  <2>3. \A j \in 1 .. Len(w) : \E h \in 1 .. Len(s) : w[j] = s[h]
    BY <2>2
  <2>4. ASSUME NEW j \in 1 .. Len(w), NEW k \in 1 .. Len(w), j < k
        PROVE  \E g, h \in 1 .. Len(s) : g < h /\ w[j] = s[g] /\ w[k] = s[h]
    <3> DEFINE To(n) == IF n < i THEN n ELSE n + 1
    <3>1. To(j) \in 1 .. Len(s) /\ To(k) \in 1 .. Len(s) /\ To(j) < To(k)
      BY <2>2, <2>4
    <3>2. w[j] = s[To(j)] /\ w[k] = s[To(k)]
      BY <2>2
    <3> QED  BY <3>1, <3>2
  <2> QED  BY <2>2, <2>3, <2>4
<1> QED  BY <1>1, <1>2

(***************************************************************************)
(* The methods of Client, field by field.                                  *)
(***************************************************************************)
LEMMA AddOutstandingEffect ==
    ASSUME NEW c \in ClientState, NEW t \in Transaction
    PROVE  AddOutstandingCollection(c, t) =
              [balance |-> c.balance, executedList |-> c.executedList,
               outstandingCollection |-> Append(c.outstandingCollection, t),
               orderCounter |-> c.orderCounter,
               outstandingCounter |-> c.outstandingCounter + 1]
<1> DEFINE o == Append(c.outstandingCollection, t)
           d == [c EXCEPT !.outstandingCollection = o]
<1> HIDE DEF o
<1>1. d = [balance |-> c.balance, executedList |-> c.executedList,
           outstandingCollection |-> o, orderCounter |-> c.orderCounter,
           outstandingCounter |-> c.outstandingCounter]
  BY SMTT(30) DEF ClientState
<1>2. AddOutstandingCollection(c, t)
        = [d EXCEPT !.outstandingCounter = c.outstandingCounter + 1]
  BY DEF AddOutstandingCollection, o
<1> HIDE DEF d
<1>3. [d EXCEPT !.outstandingCounter = c.outstandingCounter + 1]
        = [balance |-> c.balance, executedList |-> c.executedList,
           outstandingCollection |-> o, orderCounter |-> c.orderCounter,
           outstandingCounter |-> c.outstandingCounter + 1]
  BY <1>1
<1> QED  BY <1>2, <1>3 DEF o

LEMMA DepositEffect ==
    ASSUME NEW c \in ClientState, NEW t \in Transaction,
           ~AlreadyExecuted(c.executedList, t)
    PROVE  Deposit(c, t) =
              [balance |-> c.balance + t.balance,
               executedList |-> Append(c.executedList, t),
               outstandingCollection |-> RemoveOutstanding(c.outstandingCollection, t),
               orderCounter |-> c.orderCounter + 1,
               outstandingCounter |-> c.outstandingCounter]
BY DEF Deposit, ClientState

LEMMA AddInterestEffect ==
    ASSUME NEW c \in ClientState, NEW t \in Transaction,
           ~AlreadyExecuted(c.executedList, t)
    PROVE  AddInterest(c, t) =
              [balance |-> (c.balance * (100 + t.percent)) \div 100,
               executedList |-> Append(c.executedList, t),
               outstandingCollection |-> RemoveOutstanding(c.outstandingCollection, t),
               orderCounter |-> c.orderCounter + 1,
               outstandingCounter |-> c.outstandingCounter]
BY DEF AddInterest, ClientState

LEMMA GetSyncedBalanceEffect ==
    ASSUME NEW c \in ClientState, NEW t \in Transaction,
           ~AlreadyExecuted(c.executedList, t)
    PROVE  GetSyncedBalance(c, t) =
              [balance |-> c.balance, executedList |-> c.executedList,
               outstandingCollection |-> RemoveOutstanding(c.outstandingCollection, t),
               orderCounter |-> c.orderCounter,
               outstandingCounter |-> c.outstandingCounter]
BY DEF GetSyncedBalance, ClientState

\* The fields of a client.
LEMMA ClientFields ==
    ASSUME NEW c \in ClientState
    PROVE  /\ c.balance \in Int
           /\ c.executedList \in Seq(Transaction)
           /\ c.outstandingCollection \in Seq(Transaction)
           /\ c.orderCounter \in Nat
           /\ c.outstandingCounter \in Nat
BY DEF ClientState

LEMMA ClientRecord ==
    ASSUME NEW b \in Int, NEW e \in Seq(Transaction), NEW o \in Seq(Transaction),
           NEW k \in Nat, NEW n \in Nat
    PROVE  [balance |-> b, executedList |-> e, outstandingCollection |-> o,
            orderCounter |-> k, outstandingCounter |-> n] \in ClientState
BY DEF ClientState

\* An interest leaves the balance a number.
LEMMA InterestType ==
    ASSUME NEW b \in Int, NEW p \in Nat
    PROVE  (b * (100 + p)) \div 100 \in Int
<1>1. \A x, y \in Int : (x * y) \div 100 \in Int
  OBVIOUS
<1> QED  BY <1>1

\* The methods of Client keep a client a client.
LEMMA ClientTypes ==
    ASSUME NEW c \in ClientState, NEW t \in Transaction
    PROVE  /\ AddOutstandingCollection(c, t) \in ClientState
           /\ GetSyncedBalance(c, t) \in ClientState
           /\ Deposit(c, t) \in ClientState
           /\ AddInterest(c, t) \in ClientState
           /\ \A b \in Int : SetBalance(c, b) \in ClientState
           /\ ClearExecutedTransactions(c) \in ClientState
<1>1. RemoveOutstanding(c.outstandingCollection, t) \in Seq(Transaction)
  BY ClientFields, RemoveOutstandingProperties
<1>2. t.balance \in Int /\ t.percent \in Nat
  BY DEF Transaction
<1>3. /\ Append(c.executedList, t) \in Seq(Transaction)
      /\ Append(c.outstandingCollection, t) \in Seq(Transaction)
      /\ c.balance + t.balance \in Int
      /\ (c.balance * (100 + t.percent)) \div 100 \in Int
      /\ c.orderCounter + 1 \in Nat
      /\ c.outstandingCounter + 1 \in Nat
  BY <1>2, ClientFields, InterestType, AppendProperties, SMTT(30)
<1> DEFINE e == Append(c.executedList, t)
           o == Append(c.outstandingCollection, t)
           w == RemoveOutstanding(c.outstandingCollection, t)
           d == c.balance + t.balance
           i == (c.balance * (100 + t.percent)) \div 100
           k == c.orderCounter + 1
           n == c.outstandingCounter + 1
<1>t. /\ e \in Seq(Transaction) /\ o \in Seq(Transaction) /\ w \in Seq(Transaction)
      /\ d \in Int /\ i \in Int /\ k \in Nat /\ n \in Nat
  BY <1>1, <1>3
<1>a. AddOutstandingCollection(c, t) =
         [balance |-> c.balance, executedList |-> c.executedList,
          outstandingCollection |-> o, orderCounter |-> c.orderCounter,
          outstandingCounter |-> n]
  BY AddOutstandingEffect
<1>b. ~AlreadyExecuted(c.executedList, t) => Deposit(c, t) =
         [balance |-> d, executedList |-> e, outstandingCollection |-> w,
          orderCounter |-> k, outstandingCounter |-> c.outstandingCounter]
  BY DepositEffect
<1>c. ~AlreadyExecuted(c.executedList, t) => AddInterest(c, t) =
         [balance |-> i, executedList |-> e, outstandingCollection |-> w,
          orderCounter |-> k, outstandingCounter |-> c.outstandingCounter]
  BY AddInterestEffect
<1> HIDE DEF e, o, w, d, i, k, n
<1>4. AddOutstandingCollection(c, t) \in ClientState
  BY <1>t, <1>a, ClientFields, ClientRecord
<1>5. GetSyncedBalance(c, t) \in ClientState
  <2>1. CASE AlreadyExecuted(c.executedList, t)
    BY <2>1 DEF GetSyncedBalance
  <2>2. CASE ~AlreadyExecuted(c.executedList, t)
    BY <1>1, <2>2, ClientFields, GetSyncedBalanceEffect, ClientRecord
  <2> QED  BY <2>1, <2>2
<1>6. Deposit(c, t) \in ClientState
  <2>1. CASE AlreadyExecuted(c.executedList, t)
    BY <2>1 DEF Deposit
  <2>2. CASE ~AlreadyExecuted(c.executedList, t)
    BY <1>t, <1>b, <2>2, ClientFields, ClientRecord
  <2> QED  BY <2>1, <2>2
<1>7. AddInterest(c, t) \in ClientState
  <2>1. CASE AlreadyExecuted(c.executedList, t)
    BY <2>1 DEF AddInterest
  <2>2. CASE ~AlreadyExecuted(c.executedList, t)
    BY <1>t, <1>c, <2>2, ClientFields, ClientRecord
  <2> QED  BY <2>1, <2>2
<1>8. \A b \in Int : SetBalance(c, b) \in ClientState
  BY DEF SetBalance, ClientState
<1>9. ClearExecutedTransactions(c) \in ClientState
  BY EmptySeq DEF ClearExecutedTransactions, ClientState
<1> QED  BY <1>4, <1>5, <1>6, <1>7, <1>8, <1>9

\* Applying a transaction to an account gives an account.
LEMMA ApplyType ==
    ASSUME NEW a \in AccountState, NEW t \in Transaction
    PROVE  Apply(a, t) \in AccountState
<1>1. a.balance \in Int /\ t.balance \in Int /\ t.percent \in Nat
  BY DEF AccountState, Transaction
<1>2. NewBalance(a.balance, t) \in Int
  BY <1>1, InterestType DEF NewBalance
<1> QED  BY <1>2 DEF Apply, AccountState

-----------------------------------------------------------------------------
(***************************************************************************)
(* Types.                                                                  *)
(***************************************************************************)
LEMMA NewTransactionType ==
    ASSUME NEW r \in Replica, NEW c \in ClientState, NEW type \in TransactionType,
           NEW amount \in Int, NEW percent \in Nat
    PROVE  NewTransaction(r, c, type, amount, percent) \in Transaction
<1>1. <<r, c.outstandingCounter>> \in UniqueId
  BY ClientFields DEF UniqueId
<1> QED  BY <1>1 DEF NewTransaction, Transaction

LEMMA EntryTypes ==
    /\ \A t \in Transaction : Regular(t) \in Entry
    /\ \A r \in Replica, g \in SUBSET Replica : Joined(r, g) \in Entry
    /\ \A g \in SUBSET Replica : Left(g) \in Entry
    /\ \A e \in Entry : /\ e.kind = "regular" => e.tx \in Transaction
                        /\ e.kind = "join" => e.who \in Replica
                        /\ e.kind \in {"join", "left"} => e.members \in SUBSET Replica
BY DEF Regular, Joined, Left, Entry

\* What is in an inbox can be taken from it.
LEMMA HeadTypes ==
    ASSUME TypeOK, NEW r \in Replica, inbox[r] # <<>>
    PROVE  Head(inbox[r]) \in Entry /\ Tail(inbox[r]) \in Seq(Entry)
BY HeadTailProperties DEF TypeOK, SpreadTypeOK

LEMMA LatestType ==
    ASSUME SpreadTypeOK
    PROVE  Latest \in AccountState /\ Len(ledger) \in Nat
<1>1. Len(ledger) \in 1 .. Len(ledger)
  BY EmptySeq, LenProperties DEF SpreadTypeOK
<1> QED  BY <1>1, ElementOfSeq DEF SpreadTypeOK, Latest

LEMMA MulticastType ==
    ASSUME SpreadTypeOK, NEW t \in Transaction, Multicast(t)
    PROVE  SpreadTypeOK'
<1>1. ledger' \in Seq(AccountState) /\ ledger' # <<>>
  BY LatestType, ApplyType, AppendProperties DEF SpreadTypeOK, Multicast
<1>2. Len(ledger') \in Nat
  BY <1>1, LenProperties
<1>3. inbox' \in [Replica -> Seq(Entry)]
  BY EntryTypes, AppendProperties DEF SpreadTypeOK, Multicast
<1>4. trail' \in [Replica -> Seq(Nat)]
  BY <1>2, AppendProperties DEF SpreadTypeOK, Multicast
<1>5. \A s \in Replica : Len(trail'[s]) = Len(inbox'[s])
  BY <1>2, EntryTypes, AppendProperties DEF SpreadTypeOK, Multicast
<1> QED  BY <1>1, <1>3, <1>4, <1>5 DEF SpreadTypeOK, Multicast

LEMMA AnnounceType ==
    ASSUME SpreadTypeOK, NEW g \in SUBSET Replica, NEW e \in Entry, Announce(g, e)
    PROVE  SpreadTypeOK'
<1>1. inbox' \in [Replica -> Seq(Entry)]
  BY AppendProperties DEF SpreadTypeOK, Announce
<1>2. trail' \in [Replica -> Seq(Nat)]
  BY LatestType, AppendProperties DEF SpreadTypeOK, Announce
<1>3. \A s \in Replica : Len(trail'[s]) = Len(inbox'[s])
  BY LatestType, AppendProperties DEF SpreadTypeOK, Announce
<1> QED  BY <1>1, <1>2, <1>3 DEF SpreadTypeOK, Announce

LEMMA TakeNextType ==
    ASSUME SpreadTypeOK, NEW r \in Replica, inbox[r] # <<>>, TakeNext(r)
    PROVE  SpreadTypeOK'
<1>1. inbox[r] \in Seq(Entry) /\ trail[r] \in Seq(Nat)
  BY DEF SpreadTypeOK
<1>2. trail[r] # <<>>
  BY <1>1, EmptySeq DEF SpreadTypeOK
<1>3. /\ Tail(inbox[r]) \in Seq(Entry) /\ Len(Tail(inbox[r])) = Len(inbox[r]) - 1
      /\ Tail(trail[r]) \in Seq(Nat) /\ Len(Tail(trail[r])) = Len(trail[r]) - 1
  BY <1>1, <1>2, HeadTailProperties
<1> QED  BY <1>3 DEF SpreadTypeOK, TakeNext

\* What an exception does to a replica's threads.
LEMMA InterruptType ==
    ASSUME ended \in [Replica -> SUBSET Thread], NEW r \in Replica, NEW threads,
           Interrupt(r, threads)
    PROVE  ended' \in [Replica -> SUBSET Thread] /\ restarts' = restarts
<1>1. PICK hit \in SUBSET (Iterating(r) \cap threads) :
          ended' = [ended EXCEPT ![r] = ended[r] \cup hit]
  BY DEF Interrupt
<1>2. hit \in SUBSET Thread
  BY <1>1 DEF Iterating
<1> QED  BY <1>1, <1>2 DEF Interrupt

LEMMA MainTypes ==
    ASSUME TypeOK, NEW r \in Replica, Main(r)
    PROVE  TypeOK'
<1> USE DEF TypeOK
<1>1. CASE Join(r)
  <2>1. members \cup {r} \in SUBSET Replica
    BY DEF SpreadTypeOK
  <2>2. SpreadTypeOK'
    BY <1>1, <2>1, EntryTypes, AnnounceType DEF Join
  <2> QED  BY <1>1, <2>2 DEF Join, ProcessTypeOK, Phase, view, other
<1>2. CASE CheckReplicas(r)
  BY <1>2 DEF CheckReplicas, Start, ProcessTypeOK, SpreadTypeOK, Phase, Timer,
              view, other, spread, history
<1>3. ASSUME NEW type \in TransactionType, NEW amount \in Int, NEW percent \in Nat,
             Issue(r, type, amount, percent)
      PROVE  TypeOK'
  <2>1. client[r] \in ClientState
    BY DEF ProcessTypeOK
  <2>2. AddOutstandingCollection(client[r],
            NewTransaction(r, client[r], type, amount, percent)) \in ClientState
    BY <2>1, NewTransactionType, ClientTypes
  <2>3. Interrupt(r, Thread) /\ ended \in [Replica -> SUBSET Thread]
    BY <1>3 DEF Issue, ProcessTypeOK
  <2>4. ended' \in [Replica -> SUBSET Thread] /\ restarts' = restarts
    BY <2>3, InterruptType
  <2> QED  BY <1>3, <2>2, <2>4 DEF Issue, ProcessTypeOK, SpreadTypeOK, view,
                             spread, history
<1>4. CASE DepositCommand(r)
  <2>1. PICK amount \in Amounts : Issue(r, "DEPOSIT", amount, 0)
    BY <1>4 DEF DepositCommand
  <2>2. "DEPOSIT" \in TransactionType /\ amount \in Int /\ 0 \in Nat
    BY BankAssumption DEF TransactionType
  <2> HIDE DEF TypeOK
  <2> QED  BY <1>3, <2>1, <2>2
<1>5. CASE AddInterestCommand(r)
  <2>1. PICK percent \in Percents : Issue(r, "INTEREST", 0, percent)
    BY <1>5 DEF AddInterestCommand
  <2>2. "INTEREST" \in TransactionType /\ 0 \in Int /\ percent \in Nat
    BY BankAssumption DEF TransactionType
  <2> HIDE DEF TypeOK
  <2> QED  BY <1>3, <2>1, <2>2
<1>6. CASE GetSyncedBalanceCommand(r)
  <2>1. Issue(r, "SYNCED_BALANCE", 0, 0)
    BY <1>6 DEF GetSyncedBalanceCommand
  <2>2. "SYNCED_BALANCE" \in TransactionType /\ 0 \in Int /\ 0 \in Nat
    BY DEF TransactionType
  <2> HIDE DEF TypeOK
  <2> QED  BY <1>3, <2>1, <2>2
<1>7. CASE CleanHistoryCommand(r)
  <2>1. ClearExecutedTransactions(client[r]) \in ClientState
    BY EmptySeq DEF ProcessTypeOK, ClearExecutedTransactions, ClientState
  <2> QED  BY <1>7, <2>1 DEF CleanHistoryCommand, ProcessTypeOK, SpreadTypeOK, view,
                             other, spread, history
<1>8. CASE ExitCommand(r)
  BY <1>8 DEF ExitCommand, ProcessTypeOK, SpreadTypeOK, Phase, view, other, spread,
              history
<1>9. CASE Leave(r)
  <2>1. members' \in SUBSET Replica /\ {} \in SUBSET Replica
    BY <1>9 DEF Leave, SpreadTypeOK
  <2>2. Left(members') \in Entry /\ Left({}) \in Entry
    BY <2>1, EntryTypes
  <2>3. SpreadTypeOK'
    BY <1>9, <2>1, <2>2, LatestType, AppendProperties DEF Leave, SpreadTypeOK
  <2> QED  BY <1>9, <2>3 DEF Leave, ProcessTypeOK, Phase, Timer, view, other
<1>10. CASE Disconnect(r)
  <2>1. SpreadTypeOK'
    BY <1>10, EmptySeq DEF Disconnect, SpreadTypeOK
  <2> QED  BY <1>10, <2>1, EmptySeq DEF Disconnect, ProcessTypeOK, Phase, view, other
<1> QED  BY <1>1, <1>2, <1>4, <1>5, <1>6, <1>7, <1>8, <1>9, <1>10 DEF Main

LEMMA BroadcasterTypes ==
    ASSUME TypeOK, NEW r \in Replica, Broadcaster(r)
    PROVE  TypeOK'
<1> USE DEF TypeOK
<1>1. CASE InitialDelay(r)
  BY <1>1 DEF InitialDelay, ProcessTypeOK, SpreadTypeOK, Timer, view, other, spread,
              history
<1>2. CASE BroadcastRound(r)
  <2>1. client[r].outstandingCollection \in Seq(Transaction)
    BY ClientFields DEF ProcessTypeOK
  <2> QED  BY <1>2, <2>1 DEF BroadcastRound, ProcessTypeOK, SpreadTypeOK, view,
                             other, spread, history
<1>3. CASE BroadcastNext(r)
  <2>1. Head(batch[r]) \in Transaction /\ Tail(batch[r]) \in Seq(Transaction)
    BY <1>3, HeadTailProperties DEF BroadcastNext, ProcessTypeOK
  <2>2. SpreadTypeOK'
    BY <1>3, <2>1, MulticastType DEF BroadcastNext
  <2> QED  BY <1>3, <2>1, <2>2 DEF BroadcastNext, ProcessTypeOK, view, other
<1> QED  BY <1>1, <1>2, <1>3 DEF Broadcaster

LEMMA ListenerTypes ==
    ASSUME TypeOK, NEW r \in Replica, Listener(r)
    PROVE  TypeOK'
<1> USE DEF TypeOK
<1>0. ASSUME NEW kind, Receiving(r, kind), TakeNext(r)
      PROVE  SpreadTypeOK'
  BY <1>0, TakeNextType DEF Receiving
<1>1. CASE ReceiveExecuted(r)
  BY <1>0, <1>1 DEF ReceiveExecuted, ProcessTypeOK, process, view, other
<1>2. CASE ReceiveTransaction(r)
  <2> DEFINE t == Head(inbox[r]).tx
  <2>1. t \in Transaction
    BY <1>2, HeadTypes, EntryTypes DEF ReceiveTransaction, Receiving
  <2>2. client[r] \in ClientState
    BY DEF ProcessTypeOK
  <2>3. t.type \in {"DEPOSIT", "INTEREST", "SYNCED_BALANCE"}
    BY <1>2, <2>1 DEF ReceiveTransaction, Transaction, TransactionType
  <2>4. Execute(client[r], t) \in ClientState
    BY <2>1, <2>2, <2>3, ClientTypes DEF Execute
  <2>5. SpreadTypeOK'
    BY <1>0, <1>2 DEF ReceiveTransaction
  <2>6. ended' \in [Replica -> SUBSET Thread] /\ restarts' = restarts
    BY <1>2, InterruptType DEF ReceiveTransaction, ProcessTypeOK
  <2> QED  BY <1>2, <2>4, <2>5, <2>6 DEF ReceiveTransaction, ProcessTypeOK, view
<1>3. CASE ReceiveUpdateBalance(r)
  <2> DEFINE t == Head(inbox[r]).tx
  <2>1. t \in Transaction
    BY <1>3, HeadTypes, EntryTypes DEF ReceiveUpdateBalance, Receiving
  <2>2. SetBalance(client[r], t.balance) \in ClientState
    BY <2>1, ClientTypes DEF ProcessTypeOK, Transaction
  <2>3. SpreadTypeOK'
    BY <1>0, <1>3 DEF ReceiveUpdateBalance
  <2> QED  BY <1>3, <2>2, <2>3 DEF ReceiveUpdateBalance, ProcessTypeOK, other
<1>4. CASE ReceiveJoin(r)
  <2> DEFINE e == Head(inbox[r])
             u == NewTransaction(r, client[r], "UPDATE_BALANCE", client[r].balance, 0)
  <2>1. e.members \in SUBSET Replica
    BY <1>4, HeadTypes, EntryTypes DEF ReceiveJoin, Receiving
  <2>2. u \in Transaction
    BY NewTransactionType, ClientFields DEF ProcessTypeOK, TransactionType
  <2>3. SpreadTypeOK'
    BY <1>0, <1>4 DEF ReceiveJoin
  <2>4. <<u>> \in Seq(Transaction)
    BY <2>2
  <2> HIDE DEF u
  <2>5. phase' \in [Replica -> Phase] /\ timer' \in [Replica -> Timer]
    <3>1. Start(r) \/ UNCHANGED <<phase, timer>>
      BY <1>4 DEF ReceiveJoin
    <3>2. phase \in [Replica -> Phase] /\ timer \in [Replica -> Timer]
      BY DEF ProcessTypeOK
    <3>3. CASE Start(r)
      BY <3>2, <3>3 DEF Start, Phase, Timer
    <3>4. CASE UNCHANGED <<phase, timer>>
      BY <3>2, <3>4
    <3> QED  BY <3>1, <3>3, <3>4
  <2>6. callback' \in [Replica -> Seq(Transaction)]
    BY <1>4, <2>4 DEF ReceiveJoin, ProcessTypeOK, u
  <2> QED  BY <1>4, <2>1, <2>3, <2>5, <2>6 DEF ReceiveJoin, ProcessTypeOK, other
<1>5. CASE SendUpdateBalance(r)
  <2>1. Head(callback[r]) \in Transaction
    BY <1>5, HeadTailProperties DEF SendUpdateBalance, ProcessTypeOK
  <2>2. SpreadTypeOK'
    BY <1>5, <2>1, MulticastType DEF SendUpdateBalance
  <2>3. client[r].executedList \in Seq(Transaction)
    BY ClientFields DEF ProcessTypeOK
  <2>4. Cardinality(replicas[r]) \in Nat
    BY BankAssumption, FS_Subset, FS_CardinalityType DEF ProcessTypeOK
  <2>5. callback' \in [Replica -> Seq(Transaction)]
    <3>1. \/ callback' = [callback EXCEPT ![r] = client[r].executedList]
          \/ callback' = [callback EXCEPT ![r] = <<>>]
      BY <1>5 DEF SendUpdateBalance
    <3>2. callback \in [Replica -> Seq(Transaction)] /\ <<>> \in Seq(Transaction)
      BY EmptySeq DEF ProcessTypeOK
    <3> QED  BY <2>3, <3>1, <3>2
  <2>6. numberOfReplicas' \in [Replica -> Nat]
    BY <1>5, <2>4 DEF SendUpdateBalance, ProcessTypeOK
  <2> QED  BY <1>5, <2>2, <2>5, <2>6 DEF SendUpdateBalance, ProcessTypeOK, other
<1>6. CASE SendMissed(r)
  <2>1. Head(callback[r]) \in Transaction /\ Tail(callback[r]) \in Seq(Transaction)
    BY <1>6, HeadTailProperties DEF SendMissed, ProcessTypeOK
  <2>2. SpreadTypeOK'
    BY <1>6, <2>1, MulticastType DEF SendMissed
  <2> QED  BY <1>6, <2>1, <2>2 DEF SendMissed, ProcessTypeOK, view, other
<1>7. CASE ReceiveLeft(r)
  <2>1. Head(inbox[r]).members \in SUBSET Replica
    BY <1>7, HeadTypes, EntryTypes DEF ReceiveLeft, Receiving
  <2>2. SpreadTypeOK'
    BY <1>0, <1>7 DEF ReceiveLeft
  <2> QED  BY <1>7, <2>1, <2>2 DEF ReceiveLeft, ProcessTypeOK, other
<1> QED  BY <1>1, <1>2, <1>3, <1>4, <1>5, <1>6, <1>7 DEF Listener

LEMMA InitialTypes == NewClient \in ClientState /\ EmptyAccount \in AccountState
<1>1. <<>> \in Seq(Transaction)
  BY EmptySeq
<1>2. NewClient \in ClientState
  BY <1>1 DEF NewClient, ClientState
<1>3. EmptyAccount \in AccountState
  BY <1>1 DEF EmptyAccount, AccountState
<1> QED  BY <1>2, <1>3

LEMMA FailureTypes ==
    ASSUME TypeOK, NEW r \in Replica, Crash(r) \/ Restart(r)
    PROVE  TypeOK'
<1> USE DEF TypeOK
<1>1. CASE Crash(r)
  <2>1. members' \in SUBSET Replica
    BY <1>1 DEF Crash, SpreadTypeOK
  <2>2. Left(members') \in Entry
    BY <2>1, EntryTypes
  <2>3. inbox' \in [Replica -> Seq(Entry)]
    BY <1>1, <2>2, AppendProperties, EmptySeq DEF Crash, SpreadTypeOK
  <2>4. trail' \in [Replica -> Seq(Nat)]
    BY <1>1, LatestType, AppendProperties, EmptySeq DEF Crash, SpreadTypeOK
  <2>5. \A s \in Replica : Len(trail'[s]) = Len(inbox'[s])
    BY <1>1, <2>2, LatestType, AppendProperties, EmptySeq DEF Crash, SpreadTypeOK
  <2>6. SpreadTypeOK'
    BY <1>1, <2>1, <2>3, <2>4, <2>5 DEF Crash, SpreadTypeOK
  <2> QED  BY <1>1, <2>6, EmptySeq DEF Crash, ProcessTypeOK, Phase, Timer, view, other
<1>2. CASE Restart(r)
  <2>1. SpreadTypeOK'
    BY <1>2 DEF Restart, SpreadTypeOK, spread, history
  <2>2. /\ phase' \in [Replica -> Phase]
        /\ client' \in [Replica -> ClientState]
        /\ replicas' \in [Replica -> SUBSET Replica]
        /\ numberOfReplicas' \in [Replica -> Nat]
    BY <1>2, InitialTypes, BankAssumption DEF Restart, ProcessTypeOK, Phase
  <2>3. /\ initialized' \in [Replica -> BOOLEAN]
        /\ restarts' \in [Replica -> Nat]
        /\ ended' \in [Replica -> SUBSET Thread]
        /\ UNCHANGED <<timer, batch, callback>>
    BY <1>2 DEF Restart, ProcessTypeOK
  <2> QED  BY <2>1, <2>2, <2>3 DEF ProcessTypeOK
<1> QED  BY <1>1, <1>2

LEMMA InitTypes == Init => TypeOK
<1> SUFFICES ASSUME Init PROVE TypeOK
  OBVIOUS
<1>1. <<EmptyAccount>> \in Seq(AccountState) /\ <<EmptyAccount>> # <<>>
  BY InitialTypes
<1>2. SpreadTypeOK
  BY <1>1, EmptySeq DEF Init, SpreadTypeOK
<1>3. ProcessTypeOK
  BY InitialTypes, EmptySeq, BankAssumption DEF Init, ProcessTypeOK, Phase, Timer
<1> QED  BY <1>2, <1>3 DEF TypeOK

LEMMA TypeStep ==
    ASSUME TypeOK, [Next]_vars
    PROVE  TypeOK'
<1>1. CASE Next
  BY <1>1, MainTypes, BroadcasterTypes, ListenerTypes, FailureTypes DEF Next
<1>2. CASE UNCHANGED vars
  BY <1>2 DEF vars, process, view, other, spread, history, TypeOK, ProcessTypeOK,
              SpreadTypeOK
<1> QED  BY <1>1, <1>2

(***************************************************************************)
(* The type invariant holds for every set of replicas and every input.     *)
(***************************************************************************)
THEOREM TypeCorrect == Spec => []TypeOK
<1>1. Init => TypeOK
  BY InitTypes
<1>2. TypeOK /\ [Next]_vars => TypeOK'
  BY TypeStep
<1> QED  BY <1>1, <1>2, PTL DEF Spec

-----------------------------------------------------------------------------
(***************************************************************************)
(* No transaction is executed twice into the same list.                    *)
(***************************************************************************)
Distinct(list) ==
    \A i, j \in DOMAIN list : list[i].uniqueId = list[j].uniqueId => i = j

LEMMA AppendDistinct ==
    ASSUME NEW list \in Seq(Transaction), NEW t \in Transaction,
           Distinct(list), ~AlreadyExecuted(list, t)
    PROVE  Distinct(Append(list, t))
<1> DEFINE w == Append(list, t)
<1>1. /\ w \in Seq(Transaction)
      /\ Len(w) = Len(list) + 1
      /\ \A i \in 1 .. Len(list) : w[i] = list[i]
      /\ w[Len(list) + 1] = t
  BY AppendProperties
<1>2. DOMAIN w = 1 .. Len(list) + 1 /\ DOMAIN list = 1 .. Len(list)
  BY <1>1, LenProperties
<1>3. \A i \in 1 .. Len(list) : list[i].uniqueId # t.uniqueId
  BY <1>2 DEF AlreadyExecuted
<1> HIDE DEF w
<1>4. ASSUME NEW i \in DOMAIN w, NEW j \in DOMAIN w, w[i].uniqueId = w[j].uniqueId
      PROVE  i = j
  <2>1. CASE i \in 1 .. Len(list) /\ j \in 1 .. Len(list)
    BY <1>1, <1>2, <1>4, <2>1 DEF Distinct
  <2>2. CASE i = Len(list) + 1 /\ j \in 1 .. Len(list)
    BY <1>1, <1>3, <1>4, <2>2
  <2>3. CASE i \in 1 .. Len(list) /\ j = Len(list) + 1
    BY <1>1, <1>3, <1>4, <2>3
  <2> QED  BY <1>2, <1>4, <2>1, <2>2, <2>3
<1> QED  BY <1>4 DEF Distinct, w

\* What a step may do to an executed list: nothing, empty it, or add to it one
\* transaction whose id it does not hold.
LEMMA ListSteps ==
    ASSUME TypeOK, [Next]_vars, NEW s \in Replica
    PROVE  \/ client'[s].executedList = client[s].executedList
           \/ client'[s].executedList = <<>>
           \/ \E t \in Transaction :
                 /\ ~AlreadyExecuted(client[s].executedList, t)
                 /\ client'[s].executedList = Append(client[s].executedList, t)
<1> DEFINE Goal == \/ client'[s].executedList = client[s].executedList
                   \/ client'[s].executedList = <<>>
                   \/ \E t \in Transaction :
                         /\ ~AlreadyExecuted(client[s].executedList, t)
                         /\ client'[s].executedList = Append(client[s].executedList, t)
<1>0. \A q \in Replica : client[q] \in ClientState
  BY DEF TypeOK, ProcessTypeOK
<1>1. CASE UNCHANGED client
  BY <1>1
<1>2. ASSUME NEW r \in Replica, NEW c, client' = [client EXCEPT ![r] = c],
             c.executedList = client[r].executedList
      PROVE  Goal
  BY <1>2 DEF TypeOK, ProcessTypeOK
<1>3. ASSUME NEW r \in Replica, CleanHistoryCommand(r) \/ Restart(r)
      PROVE  Goal
  <2>1. ASSUME NEW c, client' = [client EXCEPT ![r] = c], c.executedList = <<>>
        PROVE  Goal
    BY <2>1 DEF TypeOK, ProcessTypeOK
  <2>2. CASE CleanHistoryCommand(r)
    <3> DEFINE c == ClearExecutedTransactions(client[r])
    <3>1. c.executedList = <<>>
      BY <1>0 DEF ClearExecutedTransactions, ClientState
    <3>2. client' = [client EXCEPT ![r] = c]
      BY <2>2 DEF CleanHistoryCommand
    <3> HIDE DEF c
    <3> QED  BY <2>1, <3>1, <3>2
  <2>3. CASE Restart(r)
    BY <2>1, <2>3 DEF Restart, NewClient
  <2> QED  BY <1>3, <2>2, <2>3
<1>4. ASSUME NEW r \in Replica, NEW type \in TransactionType, NEW amount \in Int,
             NEW percent \in Nat, Issue(r, type, amount, percent)
      PROVE  Goal
  <2> DEFINE t == NewTransaction(r, client[r], type, amount, percent)
             c == AddOutstandingCollection(client[r], t)
  <2>1. t \in Transaction
    BY <1>0, NewTransactionType
  <2>2. c.executedList = client[r].executedList
    BY <1>0, <2>1, AddOutstandingEffect
  <2>3. client' = [client EXCEPT ![r] = c]
    BY <1>4 DEF Issue
  <2> HIDE DEF c
  <2> QED  BY <1>2, <2>2, <2>3
<1>5. ASSUME NEW r \in Replica, ReceiveUpdateBalance(r)
      PROVE  Goal
  <2> DEFINE c == SetBalance(client[r], Head(inbox[r]).tx.balance)
  <2>1. c.executedList = client[r].executedList
    BY <1>0 DEF SetBalance, ClientState
  <2>2. UNCHANGED client \/ client' = [client EXCEPT ![r] = c]
    BY <1>5 DEF ReceiveUpdateBalance
  <2> HIDE DEF c
  <2> QED  BY <1>2, <2>1, <2>2
<1>6. ASSUME NEW r \in Replica, ReceiveTransaction(r)
      PROVE  Goal
  <2> DEFINE t == Head(inbox[r]).tx
             c == Execute(client[r], t)
  <2>1. t \in Transaction
    BY <1>6, HeadTypes, EntryTypes DEF ReceiveTransaction, Receiving
  <2>2. ~AlreadyExecuted(client[r].executedList, t)
    BY <1>6 DEF ReceiveTransaction
  <2>3. t.type \in {"DEPOSIT", "INTEREST", "SYNCED_BALANCE"}
    BY <1>6, <2>1 DEF ReceiveTransaction, Transaction, TransactionType
  <2>4. client' = [client EXCEPT ![r] = c]
    BY <1>6 DEF ReceiveTransaction
  <2> HIDE DEF t
  <2>5. CASE t.type = "SYNCED_BALANCE"
    <3>1. c = GetSyncedBalance(client[r], t)
      BY <2>5 DEF Execute
    <3>2. c.executedList = client[r].executedList
      BY <1>0, <2>1, <2>2, <3>1, GetSyncedBalanceEffect
    <3> HIDE DEF c
    <3> QED  BY <1>2, <2>4, <3>2
  <2>6. CASE t.type # "SYNCED_BALANCE"
    <3>1. c = Deposit(client[r], t) \/ c = AddInterest(client[r], t)
      BY <2>3, <2>6 DEF Execute
    <3>2. c.executedList = Append(client[r].executedList, t)
      BY <1>0, <2>1, <2>2, <3>1, DepositEffect, AddInterestEffect
    <3> HIDE DEF c
    <3>3. CASE s = r
      BY <2>1, <2>2, <2>4, <3>2, <3>3 DEF TypeOK, ProcessTypeOK
    <3>4. CASE s # r
      BY <2>4, <3>4 DEF TypeOK, ProcessTypeOK
    <3> QED  BY <3>3, <3>4
  <2> QED  BY <2>5, <2>6
<1>7. CASE UNCHANGED vars
  BY <1>1, <1>7 DEF vars, process
<1>8. ASSUME NEW r \in Replica, Main(r)
      PROVE  Goal
  <2>1. CASE DepositCommand(r) \/ AddInterestCommand(r) \/ GetSyncedBalanceCommand(r)
    BY <1>4, <2>1, BankAssumption DEF DepositCommand, AddInterestCommand,
                        GetSyncedBalanceCommand, TransactionType
  <2>2. CASE CleanHistoryCommand(r)
    BY <1>3, <2>2
  <2>3. CASE UNCHANGED client
    BY <1>1, <2>3
  <2> QED  BY <1>8, <2>1, <2>2, <2>3 DEF Main, Join, CheckReplicas,
                        ExitCommand, Leave, Disconnect
<1>9. ASSUME NEW r \in Replica, Listener(r)
      PROVE  Goal
  BY <1>1, <1>5, <1>6, <1>9 DEF Listener, ReceiveExecuted, process, ReceiveJoin,
                      SendUpdateBalance, SendMissed, ReceiveLeft
<1>10. ASSUME NEW r \in Replica, Broadcaster(r) \/ Crash(r)
       PROVE  Goal
  BY <1>1, <1>10 DEF Broadcaster, InitialDelay, BroadcastRound, BroadcastNext, Crash
<1> QED  BY <1>3, <1>7, <1>8, <1>9, <1>10 DEF Next

(***************************************************************************)
(* Whatever is broadcast again, replayed to a newcomer or issued under a   *)
(* reused id, the two tests for an executed transaction (in                *)
(* regularMessageReceived and in the methods of Client) keep the executed  *)
(* list free of repetitions.                                               *)
(***************************************************************************)
THEOREM NeverListedTwice == Spec => []ListedOnce
<1>1. Init => ListedOnce
  BY DEF Init, ListedOnce, NewClient
<1>2. TypeOK /\ ListedOnce /\ [Next]_vars => ListedOnce'
  <2> SUFFICES ASSUME TypeOK, ListedOnce, [Next]_vars, NEW s \in Replica
               PROVE  Distinct(client'[s].executedList)
    BY DEF ListedOnce, Distinct
  <2>1. Distinct(client[s].executedList)
    BY DEF ListedOnce, Distinct
  <2>2. client[s].executedList \in Seq(Transaction)
    BY ClientFields DEF TypeOK, ProcessTypeOK
  <2>3. Distinct(<<>>)
    BY DEF Distinct
  <2>4. ASSUME NEW t \in Transaction, ~AlreadyExecuted(client[s].executedList, t)
        PROVE  Distinct(Append(client[s].executedList, t))
    BY <2>1, <2>2, <2>4, AppendDistinct
  <2> QED  BY <2>1, <2>3, <2>4, ListSteps
<1> QED  BY <1>1, <1>2, TypeCorrect, PTL DEF Spec
=============================================================================
