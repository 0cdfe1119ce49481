-------------------------- MODULE BankSafetyProofs --------------------------
(***************************************************************************)
(* What a step of ReplicatedBank does to the client, the broadcaster, the  *)
(* callback and the inbox of one replica, and theorems that follow from    *)
(* it, for any replicas, commands and bounds.                              *)
(***************************************************************************)
EXTENDS ReplicatedBankProofs

-----------------------------------------------------------------------------
(***************************************************************************)
(* What a queue contains.                                                  *)
(***************************************************************************)
LEMMA ContainsEmpty == \A x : ~Contains(<<>>, x)
BY DEF Contains

LEMMA ContainsOne == ASSUME NEW x, NEW y PROVE Contains(<<x>>, y) <=> y = x
BY DEF Contains

LEMMA ContainsAppend ==
    ASSUME NEW S, NEW s \in Seq(S), NEW x \in S, NEW y
    PROVE  Contains(Append(s, x), y) <=> Contains(s, y) \/ y = x
<1> DEFINE w == Append(s, x)
<1>1. /\ Len(w) = Len(s) + 1 /\ Len(s) \in Nat
      /\ \A i \in 1 .. Len(s) : w[i] = s[i]
      /\ w[Len(s) + 1] = x
  BY AppendProperties, LenProperties
<1> HIDE DEF w
<1>2. 1 .. Len(w) = (1 .. Len(s)) \cup {Len(s) + 1}
  BY <1>1
<1> QED  BY <1>1, <1>2 DEF Contains, w

LEMMA ContainsTail ==
    ASSUME NEW S, NEW s \in Seq(S), s # <<>>, NEW y
    PROVE  /\ Contains(Tail(s), y) => Contains(s, y)
           /\ Contains(s, Head(s))
<1>1. Len(s) \in Nat \ {0} /\ Len(Tail(s)) = Len(s) - 1
  BY EmptySeq, HeadTailProperties
<1>2. \A i \in 1 .. Len(Tail(s)) : Tail(s)[i] = s[i + 1] /\ i + 1 \in 1 .. Len(s)
  BY <1>1, HeadTailProperties
<1>3. 1 \in 1 .. Len(s) /\ s[1] = Head(s)
  BY <1>1
<1> QED  BY <1>2, <1>3 DEF Contains

LEMMA ContainsRemoved ==
    ASSUME NEW s \in Seq(Transaction), NEW t \in Transaction, NEW y
    PROVE  Contains(RemoveOutstanding(s, t), y) => Contains(s, y)
<1> DEFINE w == RemoveOutstanding(s, t)
<1>1. \A j \in 1 .. Len(w) : \E i \in 1 .. Len(s) : w[j] = s[i]
  BY RemoveOutstandingProperties
<1> HIDE DEF w
<1> QED  BY <1>1 DEF Contains, w

\* Only a transaction with the id of t is removed.
LEMMA ContainsKept ==
    ASSUME NEW s \in Seq(Transaction), NEW t \in Transaction, NEW y,
           Contains(s, y), y.uniqueId # t.uniqueId
    PROVE  Contains(RemoveOutstanding(s, t), y)
<1>1. CASE ~ \E i \in 1 .. Len(s) : s[i].uniqueId = t.uniqueId
  BY <1>1 DEF RemoveOutstanding, RemoveFirstMatch
<1>2. CASE \E i \in 1 .. Len(s) : s[i].uniqueId = t.uniqueId
  <2> DEFINE w == RemoveOutstanding(s, t)
  <2>1. PICK i \in 1 .. Len(s) : s[i].uniqueId = t.uniqueId /\ w = RemoveAt(s, i)
    BY <1>2, FirstMatch
  <2>2. /\ Len(w) = Len(s) - 1 /\ Len(s) \in Nat
        /\ \A j \in 1 .. Len(s) - 1 : w[j] = IF j < i THEN s[j] ELSE s[j + 1]
    BY <2>1, RemoveAtProperties, LenProperties
  <2>3. PICK k \in 1 .. Len(s) : s[k] = y
    BY DEF Contains
  <2>4. k # i
    BY <2>1, <2>3
  <2> HIDE DEF w
  <2>5. CASE k < i
    BY <2>2, <2>3, <2>5 DEF Contains, w
  <2>6. CASE k > i
    <3>1. k - 1 \in 1 .. Len(s) - 1 /\ ~(k - 1 < i) /\ (k - 1) + 1 = k
      BY <2>2, <2>6
    <3>2. w[k - 1] = s[k] /\ k - 1 \in 1 .. Len(w)
      BY <2>2, <3>1
    <3> QED  BY <2>3, <3>2 DEF Contains, w
  <2> QED  BY <2>4, <2>5, <2>6
<1> QED  BY <1>1, <1>2

LEMMA IdsContained ==
    ASSUME NEW s \in Seq(Transaction), NEW id
    PROVE  id \in Ids(s) <=> \E t \in Transaction : Contains(s, t) /\ t.uniqueId = id
<1>1. DOMAIN s = 1 .. Len(s) /\ \A i \in 1 .. Len(s) : s[i] \in Transaction
  BY LenProperties, ElementOfSeq
<1> QED  BY <1>1 DEF Ids, Contains

-----------------------------------------------------------------------------
(***************************************************************************)
(* What a step may do, variable by variable.                               *)
(***************************************************************************)
Issued(s, t) ==
    /\ phase[s] = "running"
    /\ t.type \in {"DEPOSIT", "INTEREST"} \cup
                  (IF "getSyncedBalance" \in Commands THEN {"SYNCED_BALANCE"} ELSE {})
    /\ t.uniqueId = <<s, client[s].outstandingCounter>>
    /\ IsChange(t) => t \in Change
    /\ client'[s] = AddOutstandingCollection(client[s], t)
    /\ UNCHANGED <<phase, view, timer, batch, callback, restarts, spread, history>>

LEMMA ClientSteps ==
    ASSUME TypeOK, [Next]_vars, NEW s \in Replica
    PROVE  \/ client'[s] = client[s]
           \/ /\ ReceiveUpdateBalance(s)
              /\ client'[s] = SetBalance(client[s], Head(inbox[s]).tx.balance)
           \/ CleanHistoryCommand(s) /\ client'[s] = ClearExecutedTransactions(client[s])
           \/ Restart(s) /\ client'[s] = NewClient
           \/ \E t \in Transaction : Issued(s, t)
           \/ /\ ReceiveTransaction(s)
              /\ client'[s] = Execute(client[s], Head(inbox[s]).tx)
<1> DEFINE Goal == \/ client'[s] = client[s]
                   \/ /\ ReceiveUpdateBalance(s)
                      /\ client'[s] = SetBalance(client[s], Head(inbox[s]).tx.balance)
                   \/ /\ CleanHistoryCommand(s)
                      /\ client'[s] = ClearExecutedTransactions(client[s])
                   \/ Restart(s) /\ client'[s] = NewClient
                   \/ \E t \in Transaction : Issued(s, t)
                   \/ /\ ReceiveTransaction(s)
                      /\ client'[s] = Execute(client[s], Head(inbox[s]).tx)
<1>0. client \in [Replica -> ClientState]
  BY DEF TypeOK, ProcessTypeOK
<1>1. CASE UNCHANGED client
  BY <1>1
<1>2. ASSUME NEW r \in Replica, NEW c, client' = [client EXCEPT ![r] = c], r # s
      PROVE  Goal
  BY <1>0, <1>2
<1>3. ASSUME NEW c, client' = [client EXCEPT ![s] = c]
      PROVE  client'[s] = c
  BY <1>0, <1>3
<1>4. ASSUME NEW r \in Replica, NEW type \in {"DEPOSIT", "INTEREST"} \cup
                  (IF "getSyncedBalance" \in Commands THEN {"SYNCED_BALANCE"} ELSE {}),
             NEW amount \in Int, NEW percent \in Nat, Issue(r, type, amount, percent),
             type = "DEPOSIT" => amount \in Amounts /\ percent = 0,
             type = "INTEREST" => amount = 0 /\ percent \in Percents
      PROVE  Goal
  <2> DEFINE t == NewTransaction(r, client[r], type, amount, percent)
             c == AddOutstandingCollection(client[r], t)
  <2>1. client' = [client EXCEPT ![r] = c]
    BY <1>4 DEF Issue
  <2>2. CASE r # s
    <3> HIDE DEF c
    <3> QED  BY <1>2, <2>1, <2>2
  <2>3. CASE r = s
    <3>1. t \in Transaction
      BY <1>0, NewTransactionType DEF TransactionType
    <3>2. t.type = type /\ t.uniqueId = <<r, client[r].outstandingCounter>>
      BY DEF NewTransaction
    <3>3. client'[s] = c
      BY <1>3, <2>1, <2>3
    <3>4. IsChange(t) => t \in Change
      <4>1. client[r].outstandingCounter \in 0 .. MaxTransactions[r] - 1
        <5>1. client[r].outstandingCounter \in Nat
          BY <1>0, ClientFields
        <5>2. MaxTransactions[r] \in Nat
          BY BankAssumption
        <5>3. client[r].outstandingCounter < MaxTransactions[r]
          BY <1>4 DEF Issue
        <5> QED  BY <5>1, <5>2, <5>3
      <4>2. t.uniqueId \in IssuedId
        BY <3>2, <4>1 DEF IssuedId
      <4> QED  BY <1>4, <4>2 DEF NewTransaction, IsChange, Change
    <3>5. Issued(s, t)
      BY <1>4, <2>3, <3>2, <3>3, <3>4 DEF Issued, Issue, Interrupt
    <3> QED  BY <3>1, <3>5
  <2> QED  BY <2>2, <2>3
<1>5. ASSUME NEW r \in Replica, Main(r)
      PROVE  Goal
  <2>1. CASE DepositCommand(r)
    BY <1>4, <2>1, BankAssumption DEF DepositCommand
  <2>2. CASE AddInterestCommand(r)
    BY <1>4, <2>2, BankAssumption DEF AddInterestCommand
  <2>3. CASE GetSyncedBalanceCommand(r)
    BY <1>4, <2>3 DEF GetSyncedBalanceCommand
  <2>4. CASE CleanHistoryCommand(r)
    <3>1. client' = [client EXCEPT ![r] = ClearExecutedTransactions(client[r])]
      BY <2>4 DEF CleanHistoryCommand
    <3> QED  BY <1>2, <1>3, <2>4, <3>1
  <2>5. CASE UNCHANGED client
    BY <2>5
  <2> QED  BY <1>5, <2>1, <2>2, <2>3, <2>4, <2>5 DEF Main, Join, CheckReplicas,
                ExitCommand, Leave, Disconnect
<1>6. ASSUME NEW r \in Replica, Listener(r)
      PROVE  Goal
  <2>1. CASE ReceiveTransaction(r)
    <3>1. client' = [client EXCEPT ![r] = Execute(client[r], Head(inbox[r]).tx)]
      BY <2>1 DEF ReceiveTransaction
    <3> QED  BY <1>2, <1>3, <2>1, <3>1
  <2>2. CASE ReceiveUpdateBalance(r)
    <3>1. \/ client' = client
          \/ client' = [client EXCEPT ![r] = SetBalance(client[r], Head(inbox[r]).tx.balance)]
      BY <2>2 DEF ReceiveUpdateBalance
    <3> QED  BY <1>2, <1>3, <2>2, <3>1
  <2>3. CASE UNCHANGED client
    BY <2>3
  <2> QED  BY <1>6, <2>1, <2>2, <2>3 DEF Listener, ReceiveExecuted, process,
                ReceiveJoin, SendUpdateBalance, SendMissed, ReceiveLeft
<1>7. ASSUME NEW r \in Replica, Broadcaster(r) \/ Crash(r)
      PROVE  Goal
  BY <1>1, <1>7 DEF Broadcaster, InitialDelay, BroadcastRound, BroadcastNext, Crash
<1>8. ASSUME NEW r \in Replica, Restart(r)
      PROVE  Goal
  <2>1. client' = [client EXCEPT ![r] = NewClient]
    BY <1>8 DEF Restart
  <2> QED  BY <1>2, <1>3, <1>8, <2>1
<1>9. CASE UNCHANGED vars
  BY <1>1, <1>9 DEF vars, process
<1> QED  BY <1>5, <1>6, <1>7, <1>8, <1>9 DEF Next

LEMMA BatchSteps ==
    ASSUME TypeOK, [Next]_vars, NEW s \in Replica
    PROVE  \/ batch'[s] \in {batch[s], <<>>}
           \/ /\ BroadcastNext(s) /\ batch[s] # <<>>
              /\ batch'[s] = Tail(batch[s])
           \/ /\ BroadcastRound(s) /\ batch[s] = <<>>
              /\ batch'[s] = client[s].outstandingCollection
<1> DEFINE Goal == \/ batch'[s] \in {batch[s], <<>>}
                   \/ /\ BroadcastNext(s) /\ batch[s] # <<>>
                      /\ batch'[s] = Tail(batch[s])
                   \/ /\ BroadcastRound(s) /\ batch[s] = <<>>
                      /\ batch'[s] = client[s].outstandingCollection
<1>0. batch \in [Replica -> Seq(Transaction)]
  BY DEF TypeOK, ProcessTypeOK
<1>1. ASSUME UNCHANGED batch
      PROVE  Goal
  BY <1>1
<1>2. ASSUME NEW r \in Replica, Disconnect(r) \/ Crash(r)
      PROVE  Goal
  BY <1>0, <1>2 DEF Disconnect, Crash
<1>3. ASSUME NEW r \in Replica, BroadcastNext(r)
      PROVE  Goal
  BY <1>0, <1>3 DEF BroadcastNext
<1>4. ASSUME NEW r \in Replica, BroadcastRound(r)
      PROVE  Goal
  BY <1>0, <1>4 DEF BroadcastRound
<1>5. ASSUME NEW r \in Replica, Main(r)
      PROVE  Goal
  BY <1>1, <1>2, <1>5 DEF Main, Join, CheckReplicas, DepositCommand, AddInterestCommand,
         GetSyncedBalanceCommand, CleanHistoryCommand, ExitCommand,
         Leave, Issue
<1>6. ASSUME NEW r \in Replica, Listener(r)
      PROVE  Goal
  BY <1>1, <1>6 DEF Listener, ReceiveExecuted, ReceiveTransaction, ReceiveUpdateBalance,
         process, ReceiveJoin, SendUpdateBalance, SendMissed, ReceiveLeft
<1>7. ASSUME NEW r \in Replica, InitialDelay(r) \/ Restart(r) \/ UNCHANGED vars
      PROVE  Goal
  BY <1>1, <1>7 DEF InitialDelay, Restart, vars, process
<1> QED  BY <1>2, <1>3, <1>4, <1>5, <1>6, <1>7 DEF Next, Broadcaster

LEMMA CallbackSteps ==
    ASSUME TypeOK, [Next]_vars, NEW s \in Replica
    PROVE  \/ callback'[s] \in {callback[s], <<>>}
           \/ /\ SendMissed(s) /\ callback[s] # <<>>
              /\ callback'[s] = Tail(callback[s])
           \/ /\ SendUpdateBalance(s) /\ callback[s] # <<>>
              /\ callback'[s] = client[s].executedList
           \/ /\ ReceiveJoin(s) /\ callback[s] = <<>>
              /\ callback'[s] = <<NewTransaction(s, client[s], "UPDATE_BALANCE",
                                                 client[s].balance, 0)>>
<1> DEFINE Update(r) == NewTransaction(r, client[r], "UPDATE_BALANCE", client[r].balance, 0)
           Goal == \/ callback'[s] \in {callback[s], <<>>}
                   \/ /\ SendMissed(s) /\ callback[s] # <<>>
                      /\ callback'[s] = Tail(callback[s])
                   \/ /\ SendUpdateBalance(s) /\ callback[s] # <<>>
                      /\ callback'[s] = client[s].executedList
                   \/ /\ ReceiveJoin(s) /\ callback[s] = <<>>
                      /\ callback'[s] = <<Update(s)>>
<1>0. callback \in [Replica -> Seq(Transaction)]
  BY DEF TypeOK, ProcessTypeOK
<1>1. ASSUME UNCHANGED callback
      PROVE  Goal
  BY <1>1
<1>2. ASSUME NEW r \in Replica, Crash(r)
      PROVE  Goal
  BY <1>0, <1>2 DEF Crash
<1>3. ASSUME NEW r \in Replica, SendMissed(r)
      PROVE  Goal
  BY <1>0, <1>3 DEF SendMissed
<1>4. ASSUME NEW r \in Replica, SendUpdateBalance(r)
      PROVE  Goal
  BY <1>0, <1>4 DEF SendUpdateBalance
<1>5. ASSUME NEW r \in Replica, ReceiveJoin(r)
      PROVE  Goal
  <2>1. \/ callback' = callback
        \/ callback' = [callback EXCEPT ![r] = <<Update(r)>>]
    BY <1>5 DEF ReceiveJoin
  <2>2. callback[r] = <<>>
    BY <1>5 DEF ReceiveJoin, Receiving
  <2> HIDE DEF Update
  <2>3. CASE r = s
    BY <1>0, <1>5, <2>1, <2>2, <2>3
  <2>4. CASE r # s
    BY <1>0, <2>1, <2>4
  <2> QED  BY <2>3, <2>4
<1>6. ASSUME NEW r \in Replica, Main(r)
      PROVE  Goal
  BY <1>1, <1>6 DEF Main, Join, CheckReplicas, DepositCommand, AddInterestCommand,
         GetSyncedBalanceCommand, CleanHistoryCommand, ExitCommand,
         Leave, Disconnect, Issue
<1>7. ASSUME NEW r \in Replica, Listener(r)
      PROVE  Goal
  BY <1>1, <1>3, <1>4, <1>5, <1>7 DEF Listener, ReceiveExecuted, ReceiveTransaction,
         ReceiveUpdateBalance, process, ReceiveLeft
<1>8. ASSUME NEW r \in Replica, Broadcaster(r) \/ Restart(r) \/ UNCHANGED vars
      PROVE  Goal
  BY <1>1, <1>8 DEF Broadcaster, InitialDelay, BroadcastRound, BroadcastNext, Restart,
         vars, process
<1> QED  BY <1>2, <1>6, <1>7, <1>8 DEF Next

\* r multicasts t.
Sends(r, t) ==
    /\ Multicast(t)
    /\ \/ BroadcastNext(r) /\ batch[r] # <<>> /\ t = Head(batch[r])
       \/ /\ SendUpdateBalance(r) \/ SendMissed(r)
          /\ callback[r] # <<>> /\ t = Head(callback[r])

\* The listener of s takes the next message.
Takes(s) ==
    /\ phase[s] \in Connected
    /\ callback[s] = <<>>
    /\ inbox[s] # <<>>
    /\ \/ Head(inbox[s]).kind = "regular" /\
             (ReceiveExecuted(s) \/ ReceiveTransaction(s) \/ ReceiveUpdateBalance(s))
       \/ Head(inbox[s]).kind = "join" /\ ReceiveJoin(s)
       \/ Head(inbox[s]).kind = "left" /\ ReceiveLeft(s)

LEMMA InboxSteps ==
    ASSUME TypeOK, [Next]_vars, NEW s \in Replica
    PROVE  \/ inbox'[s] = inbox[s] /\ (members' = members \/ s \notin members')
           \/ inbox'[s] = <<>> /\ (Disconnect(s) \/ Crash(s))
           \/ inbox'[s] = Tail(inbox[s]) /\ members' = members /\ Takes(s)
           \/ \E r \in Replica, t \in Transaction :
                 /\ Sends(r, t) /\ s \in members /\ members' = members
                 /\ inbox'[s] = Append(inbox[s], Regular(t))
           \/ \E r \in Replica :
                 /\ Join(r) /\ members' = members \cup {r} /\ s \in members'
                 /\ inbox'[s] = Append(inbox[s], Joined(r, members'))
           \/ \E r \in Replica \ {s} :
                 /\ Leave(r) \/ Crash(r)
                 /\ members' = members \ {r} /\ s \in members'
                 /\ inbox'[s] = Append(inbox[s], Left(members'))
           \/ Leave(s) /\ inbox'[s] = Append(inbox[s], Left({}))
<1> DEFINE Same == inbox'[s] = inbox[s] /\ (members' = members \/ s \notin members')
           Emptied == inbox'[s] = <<>> /\ (Disconnect(s) \/ Crash(s))
           Taken == inbox'[s] = Tail(inbox[s]) /\ members' = members /\ Takes(s)
           Sent == \E r \in Replica, t \in Transaction :
                     /\ Sends(r, t) /\ s \in members /\ members' = members
                     /\ inbox'[s] = Append(inbox[s], Regular(t))
           Came == \E r \in Replica :
                     /\ Join(r) /\ members' = members \cup {r} /\ s \in members'
                     /\ inbox'[s] = Append(inbox[s], Joined(r, members'))
           Went == \E r \in Replica \ {s} :
                     /\ Leave(r) \/ Crash(r)
                     /\ members' = members \ {r} /\ s \in members'
                     /\ inbox'[s] = Append(inbox[s], Left(members'))
           Left0 == Leave(s) /\ inbox'[s] = Append(inbox[s], Left({}))
           Goal == Same \/ Emptied \/ Taken \/ Sent \/ Came \/ Went \/ Left0
<1>0. inbox \in [Replica -> Seq(Entry)] /\ members \in SUBSET Replica
  BY DEF TypeOK, SpreadTypeOK
<1>1. ASSUME UNCHANGED spread
      PROVE  Goal
  BY <1>1 DEF spread
<1>2. ASSUME NEW r \in Replica, Join(r)
      PROVE  Goal
  <2>1. /\ members' = members \cup {r}
        /\ inbox'[s] = IF s \in members' THEN Append(inbox[s], Joined(r, members'))
                       ELSE inbox[s]
    BY <1>2 DEF Join, Announce
  <2> QED  BY <1>2, <2>1
<1>3. ASSUME NEW r \in Replica, Leave(r)
      PROVE  Goal
  <2>1. /\ members' = members \ {r}
        /\ inbox'[s] = IF s \in members' THEN Append(inbox[s], Left(members'))
                       ELSE IF s = r THEN Append(inbox[s], Left({})) ELSE inbox[s]
    BY <1>3 DEF Leave
  <2> QED  BY <1>3, <2>1
<1>4. ASSUME NEW r \in Replica, Crash(r)
      PROVE  Goal
  <2>1. /\ members' = members \ {r}
        /\ inbox'[s] = IF s = r THEN <<>>
                       ELSE IF s \in members /\ r \in members
                            THEN Append(inbox[s], Left(members')) ELSE inbox[s]
    BY <1>4 DEF Crash
  <2>2. CASE s = r
    BY <1>4, <2>1, <2>2
  <2>3. CASE s # r /\ s \in members /\ r \in members
    BY <1>4, <2>1, <2>3
  <2>4. CASE s # r /\ ~(s \in members /\ r \in members)
    BY <1>4, <2>1, <2>4
  <2> QED  BY <2>2, <2>3, <2>4
<1>5. ASSUME NEW r \in Replica, Disconnect(r)
      PROVE  Goal
  BY <1>0, <1>5 DEF Disconnect
<1>6. ASSUME NEW r \in Replica, Main(r)
      PROVE  Goal
  BY <1>1, <1>2, <1>3, <1>5, <1>6 DEF Main, CheckReplicas, DepositCommand,
         AddInterestCommand, GetSyncedBalanceCommand,
         CleanHistoryCommand, ExitCommand, Issue
<1>7. ASSUME NEW r \in Replica, NEW t \in Transaction, Sends(r, t)
      PROVE  Goal
  <2>1. /\ members' = members
        /\ inbox'[s] = IF s \in members THEN Append(inbox[s], Regular(t)) ELSE inbox[s]
    BY <1>7 DEF Sends, Multicast
  <2> QED  BY <1>7, <2>1
<1>8. ASSUME NEW r \in Replica, TakeNext(r), Takes(r)
      PROVE  Goal
  <2>1. members' = members /\ inbox' = [inbox EXCEPT ![r] = Tail(inbox[r])]
    BY <1>8 DEF TakeNext
  <2> QED  BY <1>0, <1>8, <2>1
<1>9. ASSUME NEW r \in Replica, Listener(r)
      PROVE  Goal
  <2>1. CASE SendUpdateBalance(r) \/ SendMissed(r)
    <3>1. callback[r] # <<>> /\ Multicast(Head(callback[r]))
      BY <2>1 DEF SendUpdateBalance, SendMissed
    <3>2. Head(callback[r]) \in Transaction
      BY <3>1, HeadTailProperties DEF TypeOK, ProcessTypeOK
    <3> QED  BY <1>7, <2>1, <3>1, <3>2 DEF Sends
  <2>2. ASSUME ReceiveExecuted(r) \/ ReceiveTransaction(r) \/ ReceiveUpdateBalance(r)
        PROVE  Goal
    BY <1>8, <2>2 DEF Takes, ReceiveExecuted, ReceiveTransaction, ReceiveUpdateBalance,
                      Receiving
  <2>3. ASSUME ReceiveJoin(r) \/ ReceiveLeft(r)
        PROVE  Goal
    BY <1>8, <2>3 DEF Takes, ReceiveJoin, ReceiveLeft, Receiving
  <2> QED  BY <1>9, <2>1, <2>2, <2>3 DEF Listener
<1>10. ASSUME NEW r \in Replica, Broadcaster(r)
       PROVE  Goal
  <2>1. CASE BroadcastNext(r)
    <3>1. batch[r] # <<>> /\ Multicast(Head(batch[r]))
      BY <2>1 DEF BroadcastNext
    <3>2. Head(batch[r]) \in Transaction
      BY <3>1, HeadTailProperties DEF TypeOK, ProcessTypeOK
    <3> QED  BY <1>7, <2>1, <3>1, <3>2 DEF Sends
  <2> QED  BY <1>1, <1>10, <2>1 DEF Broadcaster, InitialDelay, BroadcastRound
<1>11. ASSUME NEW r \in Replica, Restart(r) \/ UNCHANGED vars
       PROVE  Goal
  BY <1>1, <1>11 DEF Restart, vars
<1> HIDE DEF Goal
<1>12. Goal
  BY <1>4, <1>6, <1>9, <1>10, <1>11 DEF Next
<1> QED  BY <1>12 DEF Goal

\* The lists and the counter of a client.
Kept(c, d) ==
    /\ d.outstandingCollection = c.outstandingCollection
    /\ d.executedList = c.executedList
    /\ d.outstandingCounter = c.outstandingCounter

Cleaned(c, d) ==
    /\ d.outstandingCollection = c.outstandingCollection
    /\ d.executedList = <<>>
    /\ d.outstandingCounter = c.outstandingCounter

Fresh(d) ==
    /\ d.outstandingCollection = <<>>
    /\ d.executedList = <<>>
    /\ d.outstandingCounter = 0

Added(c, d, t) ==
    /\ d.outstandingCollection = Append(c.outstandingCollection, t)
    /\ d.executedList = c.executedList
    /\ d.outstandingCounter = c.outstandingCounter + 1

Settled(c, d, t) ==
    /\ ~AlreadyExecuted(c.executedList, t)
    /\ d.outstandingCollection = RemoveOutstanding(c.outstandingCollection, t)
    /\ d.executedList = IF t.type = "SYNCED_BALANCE" THEN c.executedList
                        ELSE Append(c.executedList, t)
    /\ d.outstandingCounter = c.outstandingCounter

LEMMA ExecuteEffect ==
    ASSUME NEW c \in ClientState, NEW t \in Transaction,
           ~AlreadyExecuted(c.executedList, t), t.type # "UPDATE_BALANCE"
    PROVE  Settled(c, Execute(c, t), t)
<1>1. t.type \in {"DEPOSIT", "INTEREST", "SYNCED_BALANCE"}
  BY DEF Transaction, TransactionType
<1>2. CASE t.type = "DEPOSIT"
  <2>1. Execute(c, t) = Deposit(c, t)
    BY <1>2 DEF Execute
  <2> QED  BY <1>2, <2>1, DepositEffect DEF Settled
<1>3. CASE t.type = "INTEREST"
  <2>1. Execute(c, t) = AddInterest(c, t)
    BY <1>3 DEF Execute
  <2> QED  BY <1>3, <2>1, AddInterestEffect DEF Settled
<1>4. CASE t.type = "SYNCED_BALANCE"
  <2>1. Execute(c, t) = GetSyncedBalance(c, t)
    BY <1>4 DEF Execute
  <2> QED  BY <1>4, <2>1, GetSyncedBalanceEffect DEF Settled
<1> QED  BY <1>1, <1>2, <1>3, <1>4

LEMMA ListsSteps ==
    ASSUME TypeOK, [Next]_vars, NEW s \in Replica
    PROVE  \/ Kept(client[s], client'[s])
           \/ CleanHistoryCommand(s) /\ Cleaned(client[s], client'[s])
           \/ Restart(s) /\ Fresh(client'[s])
           \/ \E t \in Transaction : Issued(s, t) /\ Added(client[s], client'[s], t)
           \/ \E t \in Transaction :
                 /\ ReceiveTransaction(s) /\ Takes(s)
                 /\ t = Head(inbox[s]).tx /\ Head(inbox[s]) = Regular(t)
                 /\ t.type # "UPDATE_BALANCE"
                 /\ Settled(client[s], client'[s], t)
<1>0. client[s] \in ClientState
  BY DEF TypeOK, ProcessTypeOK
<1>1. CASE client'[s] = client[s]
  BY <1>1 DEF Kept
<1>2. ASSUME NEW b, client'[s] = SetBalance(client[s], b)
      PROVE  Kept(client[s], client'[s])
  BY <1>0, <1>2 DEF Kept, SetBalance, ClientState
<1>3. ASSUME client'[s] = ClearExecutedTransactions(client[s])
      PROVE  Cleaned(client[s], client'[s])
  BY <1>0, <1>3 DEF Cleaned, ClearExecutedTransactions, ClientState
<1>4. CASE client'[s] = NewClient /\ Restart(s)
  BY <1>4 DEF NewClient, Fresh
<1>5. ASSUME NEW t \in Transaction, Issued(s, t)
      PROVE  Added(client[s], client'[s], t)
  BY <1>0, <1>5, AddOutstandingEffect DEF Issued, Added
<1>6. CASE ReceiveTransaction(s) /\ client'[s] = Execute(client[s], Head(inbox[s]).tx)
  <2> DEFINE t == Head(inbox[s]).tx
  <2>1. t \in Transaction /\ Head(inbox[s]) = Regular(t)
    <3>1. Head(inbox[s]) \in Entry /\ Head(inbox[s]).kind = "regular"
      BY <1>6, HeadTypes DEF ReceiveTransaction, Receiving
    <3> QED  BY <3>1 DEF Entry, Regular
  <2>2. ~AlreadyExecuted(client[s].executedList, t) /\ t.type # "UPDATE_BALANCE" /\ Takes(s)
    BY <1>6 DEF ReceiveTransaction, Receiving, Takes
  <2> HIDE DEF t
  <2>3. Settled(client[s], client'[s], t)
    BY <1>0, <1>6, <2>1, <2>2, ExecuteEffect DEF t
  <2> QED  BY <1>6, <2>1, <2>2, <2>3 DEF t
<1> QED  BY <1>1, <1>2, <1>3, <1>4, <1>5, <1>6, ClientSteps

-----------------------------------------------------------------------------
(***************************************************************************)
(* What can be in circulation: a transaction that is somewhere after a     *)
(* step was somewhere before it, or is issued or built by the step.        *)
(***************************************************************************)
Circulates(r, t) ==
    \/ Contains(client[r].outstandingCollection, t)
    \/ Contains(client[r].executedList, t)
    \/ Contains(batch[r], t)
    \/ Contains(callback[r], t)
    \/ Contains(inbox[r], Regular(t))

LEMMA EntriesApart ==
    /\ \A t, u : Regular(t) = Regular(u) => t = u
    /\ \A t, r, g : Regular(t) # Joined(r, g)
    /\ \A t, g : Regular(t) # Left(g)
    /\ \A r, g, h : Joined(r, g) # Left(h)
<1>1. \A t : Regular(t).tx = t /\ Regular(t).kind = "regular"
  BY DEF Regular
<1>2. /\ \A r, g : Joined(r, g).kind = "join"
      /\ \A g : Left(g).kind = "left"
  BY DEF Joined, Left
<1> QED  BY <1>1, <1>2

LEMMA Circulation ==
    ASSUME TypeOK, [Next]_vars, NEW s \in Replica, NEW t \in Transaction,
           Circulates(s, t)'
    PROVE  \/ \E r \in Replica : Circulates(r, t)
           \/ Issued(s, t)
           \/ t = NewTransaction(s, client[s], "UPDATE_BALANCE", client[s].balance, 0)
<1>0. /\ client[s].outstandingCollection \in Seq(Transaction)
      /\ client[s].executedList \in Seq(Transaction)
      /\ inbox[s] \in Seq(Entry)
      /\ batch \in [Replica -> Seq(Transaction)]
      /\ callback \in [Replica -> Seq(Transaction)]
  BY ClientFields DEF TypeOK, ProcessTypeOK, SpreadTypeOK
<1>1. CASE Contains(client'[s].outstandingCollection, t)
  <2>1. \/ Contains(client[s].outstandingCollection, t)
        \/ Issued(s, t)
    <3>1. ASSUME NEW u \in Transaction, Issued(s, u), Added(client[s], client'[s], u)
          PROVE  Contains(client[s].outstandingCollection, t) \/ Issued(s, t)
      BY <1>0, <1>1, <3>1, ContainsAppend DEF Added
    <3>2. ASSUME NEW u \in Transaction, Settled(client[s], client'[s], u)
          PROVE  Contains(client[s].outstandingCollection, t)
      BY <1>0, <1>1, <3>2, ContainsRemoved DEF Settled
    <3> QED  BY <1>1, <3>1, <3>2, ListsSteps, ContainsEmpty DEF Kept, Cleaned, Fresh
  <2> QED  BY <2>1 DEF Circulates
<1>2. CASE Contains(client'[s].executedList, t)
  <2>1. \/ Contains(client[s].executedList, t)
        \/ inbox[s] # <<>> /\ Head(inbox[s]) = Regular(t)
    BY <1>0, <1>2, ListsSteps, ContainsAppend, ContainsEmpty
      , SMTT(30) DEF Kept, Cleaned, Fresh, Added, Settled, Takes
  <2> QED  BY <1>0, <2>1, ContainsTail DEF Circulates
<1>3. CASE Contains(batch'[s], t)
  <2>1. \/ Contains(batch[s], t)
        \/ Contains(client[s].outstandingCollection, t)
    BY <1>0, <1>3, BatchSteps, ContainsTail, ContainsEmpty
  <2> QED  BY <2>1 DEF Circulates
<1>4. CASE Contains(callback'[s], t)
  <2>1. \/ Contains(callback[s], t)
        \/ Contains(client[s].executedList, t)
        \/ t = NewTransaction(s, client[s], "UPDATE_BALANCE", client[s].balance, 0)
    <3> DEFINE u == NewTransaction(s, client[s], "UPDATE_BALANCE", client[s].balance, 0)
    <3>1. CASE callback'[s] = <<u>>
      BY <1>4, <3>1, ContainsOne
    <3>2. CASE callback[s] # <<>> /\ callback'[s] = Tail(callback[s])
      BY <1>0, <1>4, <3>2, ContainsTail
    <3> HIDE DEF u
    <3> QED  BY <1>4, <3>1, <3>2, CallbackSteps, ContainsEmpty DEF u
  <2> QED  BY <2>1 DEF Circulates
<1>5. CASE Contains(inbox'[s], Regular(t))
  <2>1. Regular(t) \in Entry
    BY EntryTypes
  <2>2. ASSUME NEW e \in Entry, e # Regular(t), inbox'[s] = Append(inbox[s], e)
        PROVE  Contains(inbox[s], Regular(t))
    BY <1>0, <1>5, <2>2, ContainsAppend
  <2>3. ASSUME NEW r \in Replica, NEW u \in Transaction, Sends(r, u),
               inbox'[s] = Append(inbox[s], Regular(u))
        PROVE  Contains(inbox[s], Regular(t)) \/ Circulates(r, t)
    <3>1. Contains(batch[r], u) \/ Contains(callback[r], u)
      BY <1>0, <2>3, ContainsTail DEF Sends
    <3>2. CASE u = t
      BY <3>1, <3>2 DEF Circulates
    <3>3. CASE u # t
      BY <2>2, <2>3, <3>3, EntriesApart, EntryTypes
    <3> QED  BY <3>2, <3>3
  <2>4. members' \in SUBSET Replica /\ {} \in SUBSET Replica
    BY TypeStep DEF TypeOK, SpreadTypeOK
  <2>5. \A r \in Replica, g \in SUBSET Replica :
            /\ Joined(r, g) \in Entry /\ Joined(r, g) # Regular(t)
            /\ Left(g) \in Entry /\ Left(g) # Regular(t)
    BY EntryTypes, EntriesApart
  <2>6. Contains(inbox[s], Regular(t)) \/ \E r \in Replica : Circulates(r, t)
    BY <1>0, <1>5, <2>2, <2>3, <2>4, <2>5, InboxSteps, ContainsTail, ContainsEmpty
       DEF Takes
  <2> QED  BY <2>6 DEF Circulates
<1> QED  BY <1>1, <1>2, <1>3, <1>4, <1>5 DEF Circulates

-----------------------------------------------------------------------------
(***************************************************************************)
(* No issued transaction gets lost.                                        *)
(***************************************************************************)
NoSyncedBalance ==
    \A r \in Replica, t \in Transaction : Circulates(r, t) => t.type # "SYNCED_BALANCE"

Listed(c, id) == id \in Ids(c.outstandingCollection) \cup Ids(c.executedList)

LossInv == TypeOK /\ NoSyncedBalance /\ NothingLost

LEMMA NoSyncedBalanceStep ==
    ASSUME "getSyncedBalance" \notin Commands, TypeOK, NoSyncedBalance, [Next]_vars
    PROVE  NoSyncedBalance'
<1> SUFFICES ASSUME NEW s \in Replica, NEW t \in Transaction, Circulates(s, t)'
             PROVE  t.type # "SYNCED_BALANCE"
  BY DEF NoSyncedBalance
<1>1. CASE \E r \in Replica : Circulates(r, t)
  BY <1>1 DEF NoSyncedBalance
<1>2. CASE Issued(s, t)
  BY <1>2 DEF Issued
<1>3. CASE t = NewTransaction(s, client[s], "UPDATE_BALANCE", client[s].balance, 0)
  BY <1>3 DEF NewTransaction
<1> QED  BY <1>1, <1>2, <1>3, Circulation

\* Settling a transaction leaves everything that was listed listed.
LEMMA SettledKeepsListed ==
    ASSUME NEW c \in ClientState, NEW d \in ClientState, NEW t \in Transaction,
           Settled(c, d, t), t.type # "SYNCED_BALANCE", NEW id, Listed(c, id)
    PROVE  Listed(d, id)
<1>1. /\ c.outstandingCollection \in Seq(Transaction)
      /\ d.outstandingCollection \in Seq(Transaction)
      /\ c.executedList \in Seq(Transaction)
      /\ d.executedList \in Seq(Transaction)
  BY ClientFields
<1>2. d.executedList = Append(c.executedList, t)
  BY DEF Settled
<1>3. CASE id \in Ids(c.executedList)
  <2>1. PICK u \in Transaction : Contains(c.executedList, u) /\ u.uniqueId = id
    BY <1>1, <1>3, IdsContained
  <2>2. Contains(d.executedList, u)
    BY <1>1, <1>2, <2>1, ContainsAppend
  <2> QED  BY <1>1, <2>1, <2>2, IdsContained DEF Listed
<1>4. CASE id \in Ids(c.outstandingCollection) /\ id = t.uniqueId
  <2>1. Contains(d.executedList, t)
    BY <1>1, <1>2, ContainsAppend
  <2> QED  BY <1>1, <1>4, <2>1, IdsContained DEF Listed
<1>5. CASE id \in Ids(c.outstandingCollection) /\ id # t.uniqueId
  <2>1. PICK u \in Transaction : Contains(c.outstandingCollection, u) /\ u.uniqueId = id
    BY <1>1, <1>5, IdsContained
  <2>2. Contains(d.outstandingCollection, u)
    BY <1>1, <1>5, <2>1, ContainsKept DEF Settled
  <2> QED  BY <1>1, <2>1, <2>2, IdsContained DEF Listed
<1> QED  BY <1>3, <1>4, <1>5 DEF Listed

LEMMA NothingLostStep ==
    ASSUME "cleanHistory" \notin Commands, LossInv, [Next]_vars
    PROVE  NothingLost'
<1> SUFFICES ASSUME NEW s \in Replica, NEW k \in 0 .. client'[s].outstandingCounter - 1
             PROVE  Listed(client'[s], <<s, k>>)
  BY DEF NothingLost, Outstanding, Executed, Listed
<1>0. client[s] \in ClientState /\ client'[s] \in ClientState
  BY TypeStep DEF LossInv, TypeOK, ProcessTypeOK
<1>1. /\ client[s].outstandingCollection \in Seq(Transaction)
      /\ client'[s].outstandingCollection \in Seq(Transaction)
      /\ client[s].outstandingCounter \in Nat
  BY <1>0, ClientFields
<1>2. k \in 0 .. client[s].outstandingCounter - 1 => Listed(client[s], <<s, k>>)
  BY DEF LossInv, NothingLost, Outstanding, Executed, Listed
<1>3. CASE Kept(client[s], client'[s])
  BY <1>2, <1>3 DEF Kept, Listed
<1>4. CASE CleanHistoryCommand(s)
  BY <1>4 DEF CleanHistoryCommand
<1>5. CASE Fresh(client'[s])
  BY <1>5 DEF Fresh
<1>6. ASSUME NEW t \in Transaction, Issued(s, t), Added(client[s], client'[s], t)
      PROVE  Listed(client'[s], <<s, k>>)
  <2>1. CASE k = client[s].outstandingCounter
    <3>1. Contains(client'[s].outstandingCollection, t) /\ t.uniqueId = <<s, k>>
      BY <1>1, <1>6, <2>1, ContainsAppend DEF Added, Issued
    <3> QED  BY <1>1, <3>1, IdsContained DEF Listed
  <2>2. CASE k # client[s].outstandingCounter
    <3>1. k \in 0 .. client[s].outstandingCounter - 1
      BY <1>1, <1>6, <2>2 DEF Added
    <3>2. CASE <<s, k>> \in Ids(client[s].executedList)
      BY <1>6, <3>2 DEF Listed, Added
    <3>3. CASE <<s, k>> \in Ids(client[s].outstandingCollection)
      <4>1. PICK u \in Transaction : /\ Contains(client[s].outstandingCollection, u)
                                     /\ u.uniqueId = <<s, k>>
        BY <1>1, <3>3, IdsContained
      <4>2. Contains(client'[s].outstandingCollection, u)
        BY <1>1, <1>6, <4>1, ContainsAppend DEF Added
      <4> QED  BY <1>1, <4>1, <4>2, IdsContained DEF Listed
    <3> QED  BY <1>2, <3>1, <3>2, <3>3 DEF Listed
  <2> QED  BY <2>1, <2>2
<1>7. ASSUME NEW t \in Transaction, Takes(s), Head(inbox[s]) = Regular(t),
             Settled(client[s], client'[s], t)
      PROVE  Listed(client'[s], <<s, k>>)
  <2>1. Contains(inbox[s], Regular(t))
    BY <1>7, ContainsTail DEF LossInv, TypeOK, SpreadTypeOK, Takes
  <2>2. t.type # "SYNCED_BALANCE"
    BY <2>1 DEF LossInv, NoSyncedBalance, Circulates
  <2>3. Listed(client[s], <<s, k>>)
    BY <1>2, <1>7 DEF Settled
  <2> QED  BY <1>0, <1>7, <2>2, <2>3, SettledKeepsListed
<1> QED  BY <1>3, <1>4, <1>5, <1>6, <1>7, ListsSteps DEF LossInv

(***************************************************************************)
(* For inputs without getSyncedBalance, whose ids are never listed, and    *)
(* without cleanHistory: every transaction a replica issues stays          *)
(* outstanding or executed there, through crashes, restarts under the same *)
(* name and replays, although deposit and addInterest remove from          *)
(* outstandingCollection by id and ids are used again after a restart.     *)
(***************************************************************************)
THEOREM NothingGetsLost ==
    ASSUME "getSyncedBalance" \notin Commands, "cleanHistory" \notin Commands
    PROVE  Spec => []NothingLost
<1>1. Init => LossInv
  <2> SUFFICES ASSUME Init PROVE LossInv
    OBVIOUS
  <2>1. \A r \in Replica, t \in Transaction : ~Circulates(r, t)
    BY ContainsEmpty DEF Init, Circulates, NewClient
  <2>2. NothingLost
    BY DEF Init, NothingLost, NewClient
  <2> QED  BY <2>1, <2>2, InitTypes DEF LossInv, NoSyncedBalance
<1>2. LossInv /\ [Next]_vars => LossInv'
  BY NoSyncedBalanceStep, NothingLostStep, TypeStep DEF LossInv
<1>3. LossInv => NothingLost
  BY DEF LossInv
<1> QED  BY <1>1, <1>2, <1>3, PTL DEF Spec
-----------------------------------------------------------------------------
(***************************************************************************)
(* No wakeup is lost.  A group of some size that the daemon has now, or    *)
(* had when it announced a departure, is larger than the one a replica     *)
(* knew before only through a join: between the two there is a join with   *)
(* as many members.  What the replica knows counts as entry 0 of its inbox.*)
(***************************************************************************)
IsTold(q, i) == i = 0 \/ q[i].kind \in {"join", "left"}

Told(q, known, i) == IF i = 0 THEN known ELSE Cardinality(q[i].members)

Rise(q, j, n) == q[j].kind = "join" /\ Cardinality(q[j].members) >= n

Foretold(q, known, now) ==
    \A n \in Nat, i \in 0 .. Len(q) :
        IsTold(q, i) /\ Told(q, known, i) < n =>
            /\ n =< now => \E j \in i + 1 .. Len(q) : Rise(q, j, n)
            /\ \A k \in i + 1 .. Len(q) :
                  q[k].kind = "left" /\ Cardinality(q[k].members) >= n =>
                      \E j \in i + 1 .. k - 1 : Rise(q, j, n)

LEMMA GroupSizes ==
    /\ \A g \in SUBSET Replica : Cardinality(g) \in Nat
    /\ \A g, h \in SUBSET Replica : g \subseteq h => Cardinality(g) =< Cardinality(h)
BY BankAssumption, FS_Subset, FS_CardinalityType

\* The three ways in which the daemon adds an entry.
LEMMA ForetoldAppend ==
    ASSUME NEW q \in Seq(Entry), NEW known \in Nat, NEW now \in Nat, NEW then \in Nat,
           Foretold(q, known, now), NEW e \in Entry,
           \/ e.kind = "regular" /\ then = now
           \/ e.kind = "join" /\ then = Cardinality(e.members)
           \/ e.kind = "left" /\ then = Cardinality(e.members) /\ then =< now
    PROVE  Foretold(Append(q, e), known, then)
<1> DEFINE w == Append(q, e)
           l == Len(q) + 1
<1>1. /\ Len(q) \in Nat /\ Len(w) = l
      /\ w[l] = e
      /\ \A i \in 1 .. Len(q) : w[i] = q[i]
  BY AppendProperties, LenProperties
<1> HIDE DEF w
<1> SUFFICES ASSUME NEW n \in Nat, NEW i \in 0 .. Len(w),
                    IsTold(w, i), Told(w, known, i) < n
             PROVE  /\ n =< then => \E j \in i + 1 .. Len(w) : Rise(w, j, n)
                    /\ \A k \in i + 1 .. Len(w) :
                          w[k].kind = "left" /\ Cardinality(w[k].members) >= n =>
                              \E j \in i + 1 .. k - 1 : Rise(w, j, n)
  BY DEF Foretold, w
<1>2. CASE i = l
  <2>1. e.kind # "regular" /\ Cardinality(e.members) < n
    BY <1>1, <1>2 DEF IsTold, Told
  <2>2. then < n
    BY <2>1
  <2> QED  BY <1>1, <1>2, <2>2
<1>3. CASE i \in 0 .. Len(q)
  <2>1. IsTold(q, i) /\ Told(q, known, i) < n
    BY <1>1, <1>3 DEF IsTold, Told
  <2>2. /\ n =< now => \E j \in i + 1 .. Len(q) : Rise(q, j, n)
        /\ \A k \in i + 1 .. Len(q) :
              q[k].kind = "left" /\ Cardinality(q[k].members) >= n =>
                  \E j \in i + 1 .. k - 1 : Rise(q, j, n)
    BY <1>3, <2>1 DEF Foretold
  <2>3. \A j \in i + 1 .. Len(q) : Rise(q, j, n) => j \in i + 1 .. Len(w) /\ Rise(w, j, n)
    BY <1>1, <1>3 DEF Rise
  <2>4. l \in i + 1 .. Len(w)
    BY <1>1, <1>3
  <2>5. ASSUME n =< then
        PROVE  \E j \in i + 1 .. Len(w) : Rise(w, j, n)
    <3>1. CASE e.kind = "join"
      <4>1. Rise(w, l, n)
        BY <1>1, <2>5, <3>1 DEF Rise
      <4> QED  BY <2>4, <4>1
    <3>2. CASE e.kind # "join"
      BY <2>2, <2>3, <2>5, <3>2
    <3> QED  BY <3>1, <3>2
  <2>6. ASSUME NEW k \in i + 1 .. Len(w),
               w[k].kind = "left", Cardinality(w[k].members) >= n
        PROVE  \E j \in i + 1 .. k - 1 : Rise(w, j, n)
    <3>1. CASE k = l
      <4>1. e.kind = "left" /\ n =< now
        BY <1>1, <2>6, <3>1
      <4> QED  BY <1>1, <2>2, <2>3, <3>1, <4>1
    <3>2. CASE k # l
      <4>1. k \in i + 1 .. Len(q) /\ q[k] = w[k]
        BY <1>1, <1>3, <3>2
      <4>2. PICK j \in i + 1 .. k - 1 : Rise(q, j, n)
        BY <2>2, <2>6, <4>1
      <4> QED  BY <1>3, <2>3, <4>1, <4>2
    <3> QED  BY <3>1, <3>2
  <2> QED  BY <2>5, <2>6
<1> QED  BY <1>1, <1>2, <1>3

\* The listener takes an entry; when it is a membership it is known from now on.
LEMMA ForetoldTail ==
    ASSUME NEW q \in Seq(Entry), q # <<>>, NEW known \in Nat, NEW now \in Nat,
           Foretold(q, known, now), NEW knows \in Nat,
           IF Head(q).kind = "regular" THEN knows = known
           ELSE Head(q).kind \in {"join", "left"} /\ knows = Cardinality(Head(q).members)
    PROVE  Foretold(Tail(q), knows, now)
<1> DEFINE w == Tail(q)
<1>1. /\ Len(q) \in Nat \ {0} /\ Len(w) = Len(q) - 1 /\ q[1] = Head(q)
      /\ \A i \in 1 .. Len(w) : w[i] = q[i + 1]
  BY EmptySeq, HeadTailProperties
<1> HIDE DEF w
<1> SUFFICES ASSUME NEW n \in Nat, NEW i \in 0 .. Len(w),
                    IsTold(w, i), Told(w, knows, i) < n
             PROVE  /\ n =< now => \E j \in i + 1 .. Len(w) : Rise(w, j, n)
                    /\ \A k \in i + 1 .. Len(w) :
                          w[k].kind = "left" /\ Cardinality(w[k].members) >= n =>
                              \E j \in i + 1 .. k - 1 : Rise(w, j, n)
  BY DEF Foretold, w
\* The place in q from which the replica knew as much.
<1> DEFINE h == IF i = 0 /\ Head(q).kind = "regular" THEN 0 ELSE i + 1
<1>2. h \in 0 .. Len(q) /\ IsTold(q, h) /\ Told(q, known, h) < n
  BY <1>1 DEF IsTold, Told
<1>3. /\ n =< now => \E j \in h + 1 .. Len(q) : Rise(q, j, n)
      /\ \A k \in h + 1 .. Len(q) :
            q[k].kind = "left" /\ Cardinality(q[k].members) >= n =>
                \E j \in h + 1 .. k - 1 : Rise(q, j, n)
  <2> HIDE DEF h
  <2> QED  BY <1>2 DEF Foretold
<1>4. \A j \in h + 1 .. Len(q) : Rise(q, j, n) =>
          j - 1 \in i + 1 .. Len(w) /\ Rise(w, j - 1, n)
  <2> SUFFICES ASSUME NEW j \in h + 1 .. Len(q), Rise(q, j, n)
               PROVE  j - 1 \in i + 1 .. Len(w) /\ Rise(w, j - 1, n)
    OBVIOUS
  <2>1. j # 1
    BY <1>1 DEF Rise
  <2>2. j - 1 \in i + 1 .. Len(w) /\ (j - 1) + 1 = j
    BY <1>1, <2>1
  <2>3. w[j - 1] = q[j]
    BY <1>1, <2>2
  <2> QED  BY <2>2, <2>3 DEF Rise
<1>5. ASSUME n =< now
      PROVE  \E j \in i + 1 .. Len(w) : Rise(w, j, n)
  BY <1>3, <1>4, <1>5
<1>6. ASSUME NEW k \in i + 1 .. Len(w),
             w[k].kind = "left", Cardinality(w[k].members) >= n
      PROVE  \E j \in i + 1 .. k - 1 : Rise(w, j, n)
  <2>1. k + 1 \in h + 1 .. Len(q) /\ q[k + 1] = w[k]
    BY <1>1
  <2>2. PICK j \in h + 1 .. k : Rise(q, j, n)
    BY <1>3, <1>6, <2>1
  <2>3. j - 1 \in i + 1 .. Len(w) /\ Rise(w, j - 1, n)
    BY <1>4, <2>1, <2>2
  <2>4. j - 1 \in i + 1 .. k - 1
    BY <2>2, <2>3
  <2> QED  BY <2>3, <2>4
<1> QED  BY <1>5, <1>6

\* What the replica's own knowledge foretells.
LEMMA ForetoldStart ==
    ASSUME NEW q \in Seq(Entry), NEW known \in Nat, NEW now \in Nat, NEW n \in Nat,
           Foretold(q, known, now), known < n
    PROVE  /\ n =< now => \E j \in 1 .. Len(q) : Rise(q, j, n)
           /\ \A k \in 1 .. Len(q) :
                 q[k].kind = "left" /\ Cardinality(q[k].members) >= n =>
                     \E j \in 1 .. k - 1 : Rise(q, j, n)
<1>1. IsTold(q, 0) /\ Told(q, known, 0) < n /\ 0 \in 0 .. Len(q)
  BY LenProperties DEF IsTold, Told
<1>2. /\ n =< now => \E j \in 0 + 1 .. Len(q) : Rise(q, j, n)
      /\ \A k \in 0 + 1 .. Len(q) :
            q[k].kind = "left" /\ Cardinality(q[k].members) >= n =>
                \E j \in 0 + 1 .. k - 1 : Rise(q, j, n)
  BY <1>1, Zenon DEF Foretold
<1>3. 0 + 1 = 1
  OBVIOUS
<1> QED  BY <1>2, <1>3

\* An empty inbox foretells nothing.
LEMMA ForetoldEmpty ==
    ASSUME NEW known \in Nat PROVE Foretold(<<>>, known, 0)
<1> SUFFICES ASSUME NEW n \in Nat, NEW i \in 0 .. 0, Told(<<>>, known, i) < n
             PROVE  ~(n =< 0)
  BY DEF Foretold
<1> QED  BY DEF Told

-----------------------------------------------------------------------------
InGroup == {"joined", "waiting", "running", "exiting"}

LEMMA PhaseSteps ==
    ASSUME TypeOK, [Next]_vars, NEW s \in Replica
    PROVE  \/ phase'[s] = phase[s] /\ (s \in members' <=> s \in members)
           \/ Join(s) /\ phase'[s] = "joined" /\ s \in members'
           \/ /\ CheckReplicas(s) /\ phase[s] = "joined" /\ phase'[s] = "waiting"
              /\ Cardinality(replicas[s]) < numberOfReplicas[s]
              /\ members' = members /\ UNCHANGED view
           \/ /\ phase[s] \in {"joined", "waiting", "running"}
              /\ phase'[s] \in {"running", "exiting"} /\ members' = members
           \/ Leave(s) /\ phase'[s] = "leaving" /\ s \notin members'
           \/ Disconnect(s) /\ phase[s] = "leaving" /\ phase'[s] = "down" /\ members' = members
           \/ Crash(s) /\ phase'[s] = "down" /\ s \notin members'
           \/ /\ Restart(s) /\ phase[s] = "down" /\ phase'[s] = "start"
              /\ members' = members /\ UNCHANGED inbox
<1> DEFINE Goal ==
           \/ phase'[s] = phase[s] /\ (s \in members' <=> s \in members)
           \/ Join(s) /\ phase'[s] = "joined" /\ s \in members'
           \/ /\ CheckReplicas(s) /\ phase[s] = "joined" /\ phase'[s] = "waiting"
              /\ Cardinality(replicas[s]) < numberOfReplicas[s]
              /\ members' = members /\ UNCHANGED view
           \/ /\ phase[s] \in {"joined", "waiting", "running"}
              /\ phase'[s] \in {"running", "exiting"} /\ members' = members
           \/ Leave(s) /\ phase'[s] = "leaving" /\ s \notin members'
           \/ Disconnect(s) /\ phase[s] = "leaving" /\ phase'[s] = "down" /\ members' = members
           \/ Crash(s) /\ phase'[s] = "down" /\ s \notin members'
           \/ /\ Restart(s) /\ phase[s] = "down" /\ phase'[s] = "start"
              /\ members' = members /\ UNCHANGED inbox
<1>0. phase \in [Replica -> Phase]
  BY DEF TypeOK, ProcessTypeOK
<1>1. ASSUME phase' = phase, members' = members
      PROVE  Goal
  BY <1>1
<1>2. ASSUME NEW r \in Replica, Join(r)
      PROVE  Goal
  BY <1>0, <1>2 DEF Join, Announce
<1>3. ASSUME NEW r \in Replica, CheckReplicas(r)
      PROVE  Goal
  BY <1>0, <1>3 DEF CheckReplicas, Start, spread
<1>4. ASSUME NEW r \in Replica, ExitCommand(r)
      PROVE  Goal
  BY <1>0, <1>4 DEF ExitCommand, spread
<1>5. ASSUME NEW r \in Replica, Leave(r)
      PROVE  Goal
  <2>1. members' = members \ {r} /\ phase' = [phase EXCEPT ![r] = "leaving"]
    BY <1>5 DEF Leave
  <2> QED  BY <1>0, <1>5, <2>1
<1>6. ASSUME NEW r \in Replica, Disconnect(r)
      PROVE  Goal
  BY <1>0, <1>6 DEF Disconnect
<1>7. ASSUME NEW r \in Replica, Crash(r)
      PROVE  Goal
  <2>1. members' = members \ {r} /\ phase' = [phase EXCEPT ![r] = "down"]
    BY <1>7 DEF Crash
  <2> QED  BY <1>0, <1>7, <2>1
<1>8. ASSUME NEW r \in Replica, Restart(r)
      PROVE  Goal
  BY <1>0, <1>8 DEF Restart, spread
<1>9. ASSUME NEW r \in Replica, ReceiveJoin(r)
      PROVE  Goal
  BY <1>0, <1>1, <1>9 DEF ReceiveJoin, Start, TakeNext
<1>10. ASSUME NEW r \in Replica, Main(r)
       PROVE  Goal
  BY <1>1, <1>2, <1>3, <1>4, <1>5, <1>6, <1>10 DEF Main, DepositCommand, AddInterestCommand,
         GetSyncedBalanceCommand, CleanHistoryCommand, Issue, spread
<1>11. ASSUME NEW r \in Replica, Listener(r)
       PROVE  Goal
  BY <1>1, <1>9, <1>11 DEF Listener, ReceiveExecuted, ReceiveTransaction,
         ReceiveUpdateBalance, process, SendUpdateBalance, SendMissed, ReceiveLeft,
         TakeNext, Multicast
<1>12. ASSUME NEW r \in Replica, Broadcaster(r) \/ UNCHANGED vars
       PROVE  Goal
  BY <1>1, <1>12 DEF Broadcaster, InitialDelay, BroadcastRound, BroadcastNext, Multicast,
         vars, process, spread
<1> HIDE DEF Goal
<1>13. Goal
  BY <1>7, <1>8, <1>10, <1>11, <1>12 DEF Next
<1> QED  BY <1>13 DEF Goal

\* What a replica knows of the group and what it waits for.
LEMMA ViewSteps ==
    ASSUME TypeOK, [Next]_vars, NEW s \in Replica
    PROVE  \/ replicas'[s] = replicas[s] /\ numberOfReplicas'[s] = numberOfReplicas[s]
           \/ /\ Takes(s) /\ inbox'[s] = Tail(inbox[s]) /\ members' = members
              /\ Head(inbox[s]).kind \in {"join", "left"}
              /\ replicas'[s] = Head(inbox[s]).members
              /\ numberOfReplicas'[s] = numberOfReplicas[s]
              /\ phase[s] = "waiting" /\ phase'[s] = "waiting" =>
                     \/ Head(inbox[s]).kind = "left"
                     \/ Cardinality(replicas'[s]) < numberOfReplicas[s]
           \/ /\ Cardinality(replicas[s]) > numberOfReplicas[s]
              /\ replicas'[s] = replicas[s] /\ phase'[s] = phase[s]
           \/ Restart(s)
<1> DEFINE Goal ==
           \/ replicas'[s] = replicas[s] /\ numberOfReplicas'[s] = numberOfReplicas[s]
           \/ /\ Takes(s) /\ inbox'[s] = Tail(inbox[s]) /\ members' = members
              /\ Head(inbox[s]).kind \in {"join", "left"}
              /\ replicas'[s] = Head(inbox[s]).members
              /\ numberOfReplicas'[s] = numberOfReplicas[s]
              /\ phase[s] = "waiting" /\ phase'[s] = "waiting" =>
                     \/ Head(inbox[s]).kind = "left"
                     \/ Cardinality(replicas'[s]) < numberOfReplicas[s]
           \/ /\ Cardinality(replicas[s]) > numberOfReplicas[s]
              /\ replicas'[s] = replicas[s] /\ phase'[s] = phase[s]
           \/ Restart(s)
<1>0. /\ replicas \in [Replica -> SUBSET Replica] /\ numberOfReplicas \in [Replica -> Nat]
      /\ inbox \in [Replica -> Seq(Entry)] /\ phase \in [Replica -> Phase]
  BY DEF TypeOK, ProcessTypeOK, SpreadTypeOK
<1>1. ASSUME replicas' = replicas, numberOfReplicas' = numberOfReplicas
      PROVE  Goal
  BY <1>1
<1>2. ASSUME NEW r \in Replica, ReceiveJoin(r)
      PROVE  Goal
  <2>1. /\ replicas' = [replicas EXCEPT ![r] = Head(inbox[r]).members]
        /\ numberOfReplicas' = numberOfReplicas
        /\ inbox' = [inbox EXCEPT ![r] = Tail(inbox[r])]
        /\ members' = members
        /\ Head(inbox[r]).kind = "join"
        /\ Takes(r)
    BY <1>2 DEF ReceiveJoin, Receiving, TakeNext, Takes
  <2>2. \/ Start(r)
        \/ phase[r] # "waiting"
        \/ Cardinality(Head(inbox[r]).members) < numberOfReplicas[r]
    BY <1>2 DEF ReceiveJoin
  <2>3. CASE s # r
    BY <1>0, <2>1, <2>3
  <2>4. CASE s = r
    <3>1. Start(r) => phase'[s] = "running"
      BY <1>0, <2>4 DEF Start
    <3> QED  BY <1>0, <2>1, <2>2, <2>4, <3>1
  <2> QED  BY <2>3, <2>4
<1>3. ASSUME NEW r \in Replica, ReceiveLeft(r)
      PROVE  Goal
  <2>1. /\ replicas' = [replicas EXCEPT ![r] = Head(inbox[r]).members]
        /\ numberOfReplicas' = numberOfReplicas
        /\ inbox' = [inbox EXCEPT ![r] = Tail(inbox[r])]
        /\ members' = members
        /\ Head(inbox[r]).kind = "left"
        /\ Takes(r)
    BY <1>3 DEF ReceiveLeft, Receiving, TakeNext, Takes
  <2> QED  BY <1>0, <2>1
<1>4. ASSUME NEW r \in Replica, SendUpdateBalance(r)
      PROVE  Goal
  <2>1. \/ /\ Cardinality(replicas[r]) > numberOfReplicas[r]
           /\ numberOfReplicas' = [numberOfReplicas EXCEPT ![r] = Cardinality(replicas[r])]
        \/ numberOfReplicas' = numberOfReplicas
    BY <1>4 DEF SendUpdateBalance
  <2>2. replicas' = replicas /\ phase' = phase
    BY <1>4 DEF SendUpdateBalance
  <2> QED  BY <1>0, <2>1, <2>2
<1>5. ASSUME NEW r \in Replica, Restart(r)
      PROVE  Goal
  BY <1>0, <1>5 DEF Restart
<1>6. ASSUME NEW r \in Replica, Main(r)
      PROVE  Goal
  BY <1>1, <1>6 DEF Main, Join, CheckReplicas, DepositCommand, AddInterestCommand,
         GetSyncedBalanceCommand, CleanHistoryCommand, ExitCommand,
         Leave, Disconnect, Issue, view
<1>7. ASSUME NEW r \in Replica, Listener(r)
      PROVE  Goal
  BY <1>1, <1>2, <1>3, <1>4, <1>7 DEF Listener, ReceiveExecuted, ReceiveTransaction,
         ReceiveUpdateBalance, process, SendMissed, view
<1>8. ASSUME NEW r \in Replica, Broadcaster(r) \/ Crash(r) \/ UNCHANGED vars
      PROVE  Goal
  BY <1>1, <1>8 DEF Broadcaster, InitialDelay, BroadcastRound, BroadcastNext, Crash,
         vars, process, view
<1> HIDE DEF Goal
<1>9. Goal
  BY <1>5, <1>6, <1>7, <1>8 DEF Next
<1> QED  BY <1>9 DEF Goal

MembersInGroup == \A r \in Replica : r \in members <=> phase[r] \in InGroup

GoneHaveNoInbox == \A r \in Replica : phase[r] \in {"start", "down"} => inbox[r] = <<>>

WaitsForMore ==
    \A r \in Replica : phase[r] = "waiting" => Cardinality(replicas[r]) < numberOfReplicas[r]

ChangesForetold ==
    \A r \in members : Foretold(inbox[r], Cardinality(replicas[r]), Cardinality(members))

WakeInv == TypeOK /\ MembersInGroup /\ GoneHaveNoInbox /\ WaitsForMore /\ ChangesForetold

LEMMA MembersStep ==
    ASSUME TypeOK, MembersInGroup, [Next]_vars
    PROVE  MembersInGroup'
BY PhaseSteps DEF MembersInGroup, InGroup

LEMMA InboxOfGoneStep ==
    ASSUME WakeInv, [Next]_vars
    PROVE  GoneHaveNoInbox'
<1> SUFFICES ASSUME NEW s \in Replica, phase'[s] \in {"start", "down"}
             PROVE  inbox'[s] = <<>>
  BY DEF GoneHaveNoInbox
<1>0. /\ s \in members <=> phase[s] \in InGroup
      /\ phase[s] \in {"start", "down"} => inbox[s] = <<>>
      /\ TypeOK
  BY DEF WakeInv, MembersInGroup, GoneHaveNoInbox
<1>1. \/ phase'[s] = phase[s]
      \/ Disconnect(s) \/ Crash(s)
      \/ phase[s] = "down" /\ UNCHANGED inbox
  BY <1>0, PhaseSteps
<1>2. CASE phase'[s] = phase[s]
  <2>1. s \notin members' /\ inbox[s] = <<>> /\ ~Takes(s) /\ ~Leave(s)
    BY <1>0, <1>2, MembersStep DEF Takes, Leave, Connected, InGroup, WakeInv, MembersInGroup
  <2>2. s \notin members
    BY <1>0, <1>2 DEF InGroup
  <2> QED  BY <1>0, <2>1, <2>2, InboxSteps
<1>3. CASE Disconnect(s) \/ Crash(s)
  BY <1>0, <1>3 DEF Disconnect, Crash, TypeOK, SpreadTypeOK
<1> QED  BY <1>0, <1>1, <1>2, <1>3

LEMMA WaitsStep ==
    ASSUME WakeInv, [Next]_vars
    PROVE  WaitsForMore'
<1> SUFFICES ASSUME NEW s \in Replica, phase'[s] = "waiting"
             PROVE  Cardinality(replicas'[s]) < numberOfReplicas'[s]
  BY DEF WaitsForMore
<1>0. /\ TypeOK
      /\ phase[s] = "waiting" => Cardinality(replicas[s]) < numberOfReplicas[s]
      /\ phase[s] = "waiting" => s \in members
      /\ replicas[s] \in SUBSET Replica /\ numberOfReplicas[s] \in Nat
      /\ inbox[s] \in Seq(Entry)
  BY DEF WakeInv, WaitsForMore, MembersInGroup, InGroup, TypeOK, ProcessTypeOK, SpreadTypeOK
<1>1. \/ phase[s] = "waiting"
      \/ Cardinality(replicas[s]) < numberOfReplicas[s] /\ UNCHANGED view
  BY <1>0, PhaseSteps
<1>2. CASE UNCHANGED view
  BY <1>0, <1>1, <1>2 DEF view
<1>3. CASE phase[s] = "waiting"
  <2>1. Cardinality(replicas[s]) \in Nat
    BY <1>0, GroupSizes
  <2>2. ~Restart(s)
    BY <1>3 DEF Restart
  <2>3. ASSUME Takes(s), Head(inbox[s]).kind = "left",
               replicas'[s] = Head(inbox[s]).members
        PROVE  Cardinality(replicas'[s]) < numberOfReplicas[s]
    <3> DEFINE q == inbox[s]
               n == numberOfReplicas[s]
               known == Cardinality(replicas[s])
    <3>1. /\ Len(q) \in Nat \ {0} /\ q[1] = Head(q) /\ Head(q) \in Entry
          /\ q \in Seq(Entry) /\ Cardinality(members) \in Nat /\ known \in Nat
      BY <1>0, <2>1, <2>3, EmptySeq, HeadTailProperties, GroupSizes
         DEF Takes, TypeOK, SpreadTypeOK
    <3>2. Foretold(q, known, Cardinality(members))
      BY <1>0, <1>3 DEF WakeInv, ChangesForetold
    <3>3. known < n /\ n \in Nat
      BY <1>0, <1>3
    <3>4. Cardinality(q[1].members) \in Nat
      BY <3>1, <2>3, EntryTypes, GroupSizes
    <3> HIDE DEF q, n, known
    <3>5. ASSUME Cardinality(q[1].members) >= n
          PROVE  FALSE
      <4>1. \A k \in 1 .. Len(q) :
                q[k].kind = "left" /\ Cardinality(q[k].members) >= n =>
                    \E j \in 1 .. k - 1 : Rise(q, j, n)
        BY <3>1, <3>2, <3>3, ForetoldStart
      <4>2. 1 \in 1 .. Len(q) /\ q[1].kind = "left"
        BY <2>3, <3>1 DEF q
      <4> QED  BY <3>5, <4>1, <4>2
    <3> QED  BY <2>3, <3>1, <3>3, <3>4, <3>5 DEF q, n
  <2> QED  BY <1>0, <1>3, <2>1, <2>2, <2>3, ViewSteps
<1> QED  BY <1>1, <1>2, <1>3

LEMMA ForetoldStep ==
    ASSUME WakeInv, [Next]_vars
    PROVE  ChangesForetold'
<1> SUFFICES ASSUME NEW s \in members'
             PROVE  Foretold(inbox'[s], Cardinality(replicas'[s]), Cardinality(members'))
  BY DEF ChangesForetold
<1>0. /\ TypeOK /\ TypeOK' /\ s \in Replica
      /\ inbox[s] \in Seq(Entry)
      /\ replicas[s] \in SUBSET Replica /\ replicas'[s] \in SUBSET Replica
      /\ members \in SUBSET Replica /\ members' \in SUBSET Replica
  BY TypeStep DEF WakeInv, TypeOK, ProcessTypeOK, SpreadTypeOK
<1> DEFINE known == Cardinality(replicas[s])
           knows == Cardinality(replicas'[s])
           now == Cardinality(members)
           then == Cardinality(members')
<1>1. known \in Nat /\ knows \in Nat /\ now \in Nat /\ then \in Nat
  BY <1>0, GroupSizes
<1>2. s \in members => Foretold(inbox[s], known, now)
  BY DEF WakeInv, ChangesForetold
<1>3. phase'[s] \in InGroup
  BY <1>0, MembersStep DEF WakeInv, MembersInGroup
<1>4. ~Restart(s) /\ ~Disconnect(s) /\ ~Crash(s) /\ ~Leave(s)
  BY <1>0, <1>3 DEF Restart, Disconnect, Crash, Leave, InGroup, TypeOK, ProcessTypeOK
<1>5. ASSUME Takes(s), inbox'[s] = Tail(inbox[s]), members' = members
      PROVE  Foretold(inbox'[s], knows, then)
  <2>1. inbox[s] # <<>>
    BY <1>5 DEF Takes
  <2>2. Head(inbox[s]).kind = "regular" => knows = known
    BY <1>0, <1>4, ViewSteps
  <2>3. Head(inbox[s]).kind \in {"join", "left"} => knows = Cardinality(Head(inbox[s]).members)
    BY <1>0, <1>5 DEF Takes, ReceiveJoin, ReceiveLeft, TypeOK, ProcessTypeOK
  <2>4. Head(inbox[s]).kind \in {"regular", "join", "left"}
    BY <1>5 DEF Takes
  <2>5. Foretold(inbox[s], known, now) /\ then = now
    BY <1>2, <1>5
  <2> HIDE DEF known, knows, now, then
  <2> QED  BY <1>0, <1>1, <1>5, <2>5, <2>1, <2>2, <2>3, <2>4, ForetoldTail
<1>6. ASSUME ~(Takes(s) /\ inbox'[s] = Tail(inbox[s]) /\ members' = members)
      PROVE  Foretold(inbox'[s], knows, then)
  <2>1. replicas'[s] = replicas[s]
    BY <1>0, <1>4, <1>6, ViewSteps
  <2>2. knows = known
    BY <2>1
  <2> HIDE DEF known, knows
  <2>3. CASE inbox'[s] = inbox[s] /\ members' = members
    BY <1>2, <2>2, <2>3
  <2>4. ASSUME NEW t \in Transaction, members' = members, s \in members,
               inbox'[s] = Append(inbox[s], Regular(t))
        PROVE  Foretold(inbox'[s], knows, then)
    <3>1. Regular(t) \in Entry /\ Regular(t).kind = "regular"
      BY EntryTypes DEF Regular
    <3> QED  BY <1>0, <1>1, <1>2, <2>2, <2>4, <3>1, ForetoldAppend
  <2>5. ASSUME NEW r \in Replica, Join(r), members' = members \cup {r},
               inbox'[s] = Append(inbox[s], Joined(r, members'))
        PROVE  Foretold(inbox'[s], knows, then)
    <3> DEFINE e == Joined(r, members')
    <3>1. e \in Entry /\ e.kind = "join" /\ e.members = members'
      BY <1>0, EntryTypes DEF Joined
    <3> HIDE DEF e
    <3>2. CASE s \in members
      BY <1>0, <1>1, <1>2, <2>2, <2>5, <3>1, <3>2, ForetoldAppend DEF e
    <3>3. CASE s \notin members
      <4>1. inbox[s] = <<>>
        <5>1. s = r /\ phase[r] = "start"
          BY <2>5, <3>3 DEF Join
        <5> QED  BY <5>1 DEF WakeInv, GoneHaveNoInbox
      <4>2. Foretold(inbox[s], known, 0)
        BY <1>1, <4>1, ForetoldEmpty
      <4> QED  BY <1>0, <1>1, <2>2, <2>5, <3>1, <4>2, ForetoldAppend, ZenonT(40) DEF e
    <3> QED  BY <3>2, <3>3
  <2>6. ASSUME NEW r \in Replica \ {s}, members' = members \ {r},
               inbox'[s] = Append(inbox[s], Left(members'))
        PROVE  Foretold(inbox'[s], knows, then)
    <3> DEFINE e == Left(members')
    <3>1. e \in Entry /\ e.kind = "left" /\ e.members = members'
      BY <1>0, EntryTypes DEF Left
    <3>2. then =< now
      BY <1>0, <2>6, GroupSizes
    <3>3. Foretold(inbox[s], known, now)
      BY <1>2, <2>6
    <3> HIDE DEF e, then, now
    <3>4. then = Cardinality(e.members)
      BY <3>1 DEF then
    <3>5. Foretold(Append(inbox[s], e), known, then)
      BY <1>0, <1>1, <3>1, <3>2, <3>3, <3>4, ForetoldAppend
    <3> QED  BY <2>2, <2>6, <3>5 DEF e
  <2> HIDE DEF then
  <2> QED  BY <1>0, <1>4, <1>6, <2>3, <2>4, <2>5, <2>6, InboxSteps
<1> QED  BY <1>5, <1>6

(***************************************************************************)
(* The wait in connect() is not in vain: while main waits for a group that *)
(* has enough members, a join whose callback will notify it is still to be *)
(* read, although members may leave before the callback and a leave wakes  *)
(* nobody up.                                                              *)
(***************************************************************************)
THEOREM NoWakeupIsLost == Spec => []NoLostWakeup
<1>1. Init => WakeInv
  BY InitTypes DEF Init, WakeInv, MembersInGroup, GoneHaveNoInbox, WaitsForMore,
         ChangesForetold, InGroup
<1>2. WakeInv /\ [Next]_vars => WakeInv'
  BY MembersStep, InboxOfGoneStep, WaitsStep, ForetoldStep, TypeStep DEF WakeInv
<1>3. WakeInv => NoLostWakeup
  <2> SUFFICES ASSUME WakeInv, NEW r \in Replica, phase[r] = "waiting",
                      Cardinality(members) >= numberOfReplicas[r]
               PROVE  \E i \in DOMAIN inbox[r] :
                         /\ inbox[r][i].kind = "join"
                         /\ Cardinality(inbox[r][i].members) >= numberOfReplicas[r]
    BY DEF NoLostWakeup
  <2> DEFINE q == inbox[r]
             n == numberOfReplicas[r]
             known == Cardinality(replicas[r])
  <2>1. /\ q \in Seq(Entry) /\ n \in Nat /\ Cardinality(members) \in Nat
        /\ known \in Nat /\ known < n /\ Cardinality(members) >= n
    BY GroupSizes DEF WakeInv, WaitsForMore, TypeOK, ProcessTypeOK, SpreadTypeOK
  <2>2. Foretold(q, known, Cardinality(members))
    BY DEF WakeInv, MembersInGroup, InGroup, ChangesForetold
  <2>3. DOMAIN q = 1 .. Len(q) /\ Len(q) \in Nat
    BY <2>1, LenProperties
  <2> HIDE DEF q, n, known
  <2>4. \E j \in 1 .. Len(q) : Rise(q, j, n)
    BY <2>1, <2>2, ForetoldStart DEF n
  <2> QED  BY <2>3, <2>4 DEF Rise, q, n
<1> QED  BY <1>1, <1>2, <1>3, PTL DEF Spec

-----------------------------------------------------------------------------
(***************************************************************************)
(* A replica's own transactions come back in the order of issue.  A number *)
(* is awaited while the transaction with it is outstanding, and pending    *)
(* while it has also no copy in the own inbox.  A copy in the own inbox is *)
(* behind copies of all the older ones that are awaited; one that is       *)
(* anywhere else is older than all that are pending; and the broadcaster's *)
(* round sends the pending ones in the order of their numbers.             *)
(***************************************************************************)
Num(t) == t.uniqueId[2]

Own(r, t) == t.type # "UPDATE_BALANCE" /\ t.uniqueId[1] = r

OwnEntry(e, r, n) == \E t \in Transaction : e = Regular(t) /\ Own(r, t) /\ Num(t) = n

Awaited(r, n) ==
    \E t \in Transaction : Contains(client[r].outstandingCollection, t) /\ Num(t) = n

Pending(r, n) ==
    Awaited(r, n) /\ \A i \in 1 .. Len(inbox[r]) : ~OwnEntry(inbox[r][i], r, n)

Elsewhere(q, r, t) ==
    \/ Contains(client[q].executedList, t)
    \/ Contains(callback[q], t)
    \/ q # r /\ Contains(inbox[q], Regular(t))

\* The conjuncts about the transactions of every replica ...
Numbered ==
    \A r, q \in Replica, t \in Transaction :
        Circulates(q, t) /\ Own(r, t) => Num(t) < client[r].outstandingCounter

OwnTransactions ==
    \A r \in Replica, t \in Transaction :
        /\ Contains(client[r].outstandingCollection, t) => Own(r, t)
        /\ Contains(batch[r], t) => Own(r, t)
        /\ Contains(client[r].executedList, t) => t.type # "UPDATE_BALANCE"

Increasing(s) == \A i, j \in 1 .. Len(s) : i < j => Num(s[i]) < Num(s[j])

OutstandingInOrder == \A r \in Replica : Increasing(client[r].outstandingCollection)

IdleAwaitNothing ==
    \A r \in Replica, n \in Nat : phase[r] \in {"start", "leaving"} => ~Awaited(r, n)

ExecutedBeforeAwaited ==
    \A r \in Replica, t \in Transaction, o \in Nat :
        Contains(client[r].executedList, t) /\ Own(r, t) /\ Awaited(r, o) => Num(t) < o

\* ... and those about the members'.
InboxInOrder ==
    \A r \in members, o, n \in Nat : \A i \in 1 .. Len(inbox[r]) :
        Awaited(r, o) /\ o < n /\ OwnEntry(inbox[r][i], r, n) =>
            \E j \in 1 .. i - 1 : OwnEntry(inbox[r][j], r, o)

RoundInOrder ==
    \A r \in members, o \in Nat : \A i \in 1 .. Len(batch[r]) :
        Pending(r, o) /\ o < Num(batch[r][i]) => \E j \in 1 .. i - 1 : Num(batch[r][j]) = o

ElsewhereOlder ==
    \A r \in members, q \in Replica, t \in Transaction, o \in Nat :
        Elsewhere(q, r, t) /\ Own(r, t) /\ Pending(r, o) => Num(t) < o

OrderInv ==
    /\ TypeOK /\ MembersInGroup
    /\ Numbered /\ OwnTransactions /\ OutstandingInOrder /\ IdleAwaitNothing
    /\ ExecutedBeforeAwaited
    /\ InboxInOrder /\ RoundInOrder /\ ElsewhereOlder

-----------------------------------------------------------------------------
LEMMA NumTypes ==
    /\ \A t \in Transaction : Num(t) \in Nat /\ t.uniqueId = <<t.uniqueId[1], Num(t)>>
    /\ \A t \in Transaction : t.uniqueId[1] \in Replica
BY DEF Transaction, UniqueId, Num

\* The transaction in an own entry.
LEMMA OwnEntryOfRegular ==
    ASSUME NEW t \in Transaction, NEW r, NEW n
    PROVE  OwnEntry(Regular(t), r, n) <=> Own(r, t) /\ Num(t) = n
BY EntriesApart DEF OwnEntry

LEMMA IncreasingAppend ==
    ASSUME NEW s \in Seq(Transaction), NEW t \in Transaction, Increasing(s),
           \A u \in Transaction : Contains(s, u) => Num(u) < Num(t)
    PROVE  Increasing(Append(s, t))
<1> DEFINE w == Append(s, t)
<1>1. /\ Len(s) \in Nat /\ Len(w) = Len(s) + 1 /\ w[Len(s) + 1] = t
      /\ \A i \in 1 .. Len(s) : w[i] = s[i] /\ s[i] \in Transaction
  BY AppendProperties, LenProperties, ElementOfSeq
<1> HIDE DEF w
<1>2. ASSUME NEW i \in 1 .. Len(w), NEW j \in 1 .. Len(w), i < j
      PROVE  Num(w[i]) < Num(w[j])
  <2>1. CASE j = Len(s) + 1
    <3>1. i \in 1 .. Len(s) /\ Contains(s, s[i])
      BY <1>1, <1>2, <2>1 DEF Contains
    <3> QED  BY <1>1, <2>1, <3>1
  <2>2. CASE j # Len(s) + 1
    <3>1. i \in 1 .. Len(s) /\ j \in 1 .. Len(s)
      BY <1>1, <1>2, <2>2
    <3> QED  BY <1>1, <1>2, <3>1 DEF Increasing
  <2> QED  BY <2>1, <2>2
<1> QED  BY <1>2 DEF Increasing, w

LEMMA RemovedKeepsOrder ==
    ASSUME NEW s \in Seq(Transaction), NEW t \in Transaction
    PROVE  \A j, k \in 1 .. Len(RemoveOutstanding(s, t)) : j < k =>
                \E h, i \in 1 .. Len(s) : /\ h < i
                                        /\ RemoveOutstanding(s, t)[j] = s[h]
                                        /\ RemoveOutstanding(s, t)[k] = s[i]
BY RemoveOutstandingProperties

LEMMA IncreasingRemoved ==
    ASSUME NEW s \in Seq(Transaction), NEW t \in Transaction, Increasing(s)
    PROVE  Increasing(RemoveOutstanding(s, t))
<1>1. \A j, k \in 1 .. Len(RemoveOutstanding(s, t)) : j < k =>
          \E h, i \in 1 .. Len(s) : /\ h < i
                                  /\ RemoveOutstanding(s, t)[j] = s[h]
                                  /\ RemoveOutstanding(s, t)[k] = s[i]
  BY RemovedKeepsOrder
<1> QED  BY <1>1 DEF Increasing

\* In an increasing collection of own transactions t is removed altogether.
LEMMA RemovedIsGone ==
    ASSUME NEW s \in Seq(Transaction), NEW t \in Transaction, Increasing(s),
           NEW u \in Transaction, Contains(RemoveOutstanding(s, t), u)
    PROVE  u.uniqueId # t.uniqueId
<1> SUFFICES ASSUME u.uniqueId = t.uniqueId PROVE FALSE
  OBVIOUS
<1> DEFINE w == RemoveOutstanding(s, t)
<1>1. Contains(s, u)
  BY ContainsRemoved
<1>2. \E i \in 1 .. Len(s) : s[i].uniqueId = t.uniqueId
  BY <1>1 DEF Contains
<1>3. PICK i \in 1 .. Len(s) : s[i].uniqueId = t.uniqueId /\ w = RemoveAt(s, i)
  BY <1>2, FirstMatch
<1>4. /\ Len(w) = Len(s) - 1 /\ Len(s) \in Nat
      /\ \A j \in 1 .. Len(s) - 1 : w[j] = IF j < i THEN s[j] ELSE s[j + 1]
  BY <1>3, RemoveAtProperties, LenProperties
<1>5. PICK j \in 1 .. Len(w) : w[j] = u
  BY DEF Contains
<1> HIDE DEF w
<1>6. PICK k \in 1 .. Len(s) : k # i /\ s[k] = u
  <2>1. CASE j < i
    BY <1>4, <1>5, <2>1
  <2>2. CASE ~(j < i)
    <3>1. j + 1 \in 1 .. Len(s) /\ j + 1 # i /\ s[j + 1] = u
      BY <1>4, <1>5, <2>2
    <3> QED  BY <3>1
  <2> QED  BY <2>1, <2>2
<1>7. Num(s[k]) = Num(s[i])
  BY <1>3, <1>6 DEF Num
<1>8. Num(s[k]) \in Nat
  BY <1>6, NumTypes
<1> QED  BY <1>6, <1>7, <1>8 DEF Increasing

-----------------------------------------------------------------------------
LEMMA NoRestarts ==
    ASSUME MaxRestarts = 0, TypeOK, NEW s \in Replica
    PROVE  ~Restart(s)
BY DEF TypeOK, ProcessTypeOK, Restart

LEMMA CounterGrows ==
    ASSUME MaxRestarts = 0, TypeOK, [Next]_vars, NEW s \in Replica
    PROVE  /\ client'[s].outstandingCounter >= client[s].outstandingCounter
           /\ \A t \in Transaction : Issued(s, t) =>
                 /\ client'[s].outstandingCounter = client[s].outstandingCounter + 1
                 /\ Num(t) = client[s].outstandingCounter /\ Own(s, t)
<1>0. client[s] \in ClientState /\ client[s].outstandingCounter \in Nat
  BY ClientFields DEF TypeOK, ProcessTypeOK
<1>1. client'[s].outstandingCounter >= client[s].outstandingCounter
  BY <1>0, ListsSteps, NoRestarts DEF Kept, Cleaned, Added, Settled
<1>2. ASSUME NEW t \in Transaction, Issued(s, t)
      PROVE  /\ client'[s].outstandingCounter = client[s].outstandingCounter + 1
             /\ Num(t) = client[s].outstandingCounter /\ Own(s, t)
  BY <1>0, <1>2, AddOutstandingEffect DEF Issued, Num, Own
<1> QED  BY <1>1, <1>2

LEMMA NumberedStep ==
    ASSUME MaxRestarts = 0, OrderInv, [Next]_vars
    PROVE  Numbered'
<1> SUFFICES ASSUME NEW r \in Replica, NEW q \in Replica, NEW t \in Transaction,
                    Circulates(q, t)', Own(r, t)
             PROVE  Num(t) < client'[r].outstandingCounter
  BY DEF Numbered, Own, Num
<1>0. TypeOK /\ client[r].outstandingCounter \in Nat /\ client'[r].outstandingCounter \in Nat
  BY TypeStep, ClientFields DEF OrderInv, TypeOK, ProcessTypeOK
<1>1. CASE \E p \in Replica : Circulates(p, t)
  <2>1. Num(t) < client[r].outstandingCounter
    BY <1>1 DEF OrderInv, Numbered
  <2> QED  BY <1>0, <2>1, CounterGrows, NumTypes
<1>2. CASE Issued(q, t)
  <2>1. q = r
    BY <1>0, <1>2, CounterGrows DEF Own
  <2> QED  BY <1>0, <1>2, <2>1, CounterGrows
<1>3. CASE t = NewTransaction(q, client[q], "UPDATE_BALANCE", client[q].balance, 0)
  BY <1>3 DEF NewTransaction, Own
<1> QED  BY <1>0, <1>1, <1>2, <1>3, Circulation

LEMMA OwnTransactionsStep ==
    ASSUME MaxRestarts = 0, OrderInv, [Next]_vars
    PROVE  OwnTransactions'
<1> SUFFICES ASSUME NEW r \in Replica, NEW t \in Transaction
             PROVE  /\ Contains(client'[r].outstandingCollection, t) => Own(r, t)
                    /\ Contains(batch'[r], t) => Own(r, t)
                    /\ Contains(client'[r].executedList, t) => t.type # "UPDATE_BALANCE"
  BY DEF OwnTransactions, Own
<1>0. /\ TypeOK
      /\ client[r].outstandingCollection \in Seq(Transaction)
      /\ client[r].executedList \in Seq(Transaction)
      /\ batch[r] \in Seq(Transaction)
  BY ClientFields DEF OrderInv, TypeOK, ProcessTypeOK
<1>1. /\ Contains(client[r].outstandingCollection, t) => Own(r, t)
      /\ Contains(batch[r], t) => Own(r, t)
      /\ Contains(client[r].executedList, t) => t.type # "UPDATE_BALANCE"
  BY DEF OrderInv, OwnTransactions
<1>2. Contains(batch'[r], t) => Own(r, t)
  BY <1>0, <1>1, BatchSteps, ContainsTail, ContainsEmpty
<1>3. ASSUME NEW u \in Transaction, Issued(r, u), Added(client[r], client'[r], u)
      PROVE  /\ Contains(client'[r].outstandingCollection, t) => Own(r, t)
             /\ Contains(client'[r].executedList, t) => t.type # "UPDATE_BALANCE"
  BY <1>0, <1>1, <1>3, CounterGrows, ContainsAppend DEF Added
<1>4. ASSUME NEW u \in Transaction, u.type # "UPDATE_BALANCE",
             Settled(client[r], client'[r], u)
      PROVE  /\ Contains(client'[r].outstandingCollection, t) => Own(r, t)
             /\ Contains(client'[r].executedList, t) => t.type # "UPDATE_BALANCE"
  BY <1>0, <1>1, <1>4, ContainsAppend, ContainsRemoved DEF Settled
<1>5. CASE Kept(client[r], client'[r])
  BY <1>1, <1>2, <1>5 DEF Kept
<1>6. CASE Cleaned(client[r], client'[r])
  BY <1>1, <1>2, <1>6, ContainsEmpty DEF Cleaned
<1> QED  BY <1>0, <1>2, <1>3, <1>4, <1>5, <1>6, ListsSteps, NoRestarts

LEMMA OutstandingInOrderStep ==
    ASSUME MaxRestarts = 0, OrderInv, [Next]_vars
    PROVE  OutstandingInOrder'
<1> SUFFICES ASSUME NEW r \in Replica
             PROVE  Increasing(client'[r].outstandingCollection)
  BY DEF OutstandingInOrder, Increasing, Num
<1>0. TypeOK /\ client[r].outstandingCollection \in Seq(Transaction)
  BY ClientFields DEF OrderInv, TypeOK, ProcessTypeOK
<1>1. Increasing(client[r].outstandingCollection)
  BY DEF OrderInv, OutstandingInOrder
<1>2. ASSUME NEW t \in Transaction, Issued(r, t), Added(client[r], client'[r], t)
      PROVE  Increasing(client'[r].outstandingCollection)
  <2>1. ASSUME NEW u \in Transaction, Contains(client[r].outstandingCollection, u)
        PROVE  Num(u) < Num(t)
    <3>1. Own(r, u) /\ Circulates(r, u)
      BY <2>1 DEF OrderInv, OwnTransactions, Circulates
    <3> QED  BY <1>0, <1>2, <3>1, CounterGrows DEF OrderInv, Numbered
  <2> QED  BY <1>0, <1>1, <1>2, <2>1, IncreasingAppend DEF Added
<1>3. ASSUME NEW t \in Transaction, Settled(client[r], client'[r], t)
      PROVE  Increasing(client'[r].outstandingCollection)
  BY <1>0, <1>1, <1>3, IncreasingRemoved DEF Settled
<1> QED  BY <1>0, <1>1, <1>2, <1>3, ListsSteps, NoRestarts DEF Kept, Cleaned

\* Only what is issued comes to be awaited.
LEMMA AwaitedSteps ==
    ASSUME MaxRestarts = 0, OrderInv, [Next]_vars, NEW r \in Replica, NEW n,
           Awaited(r, n)'
    PROVE  \/ Awaited(r, n)
           \/ n = client[r].outstandingCounter /\ \E t \in Transaction : Issued(r, t)
<1>0. TypeOK /\ client[r].outstandingCollection \in Seq(Transaction)
  BY ClientFields DEF OrderInv, TypeOK, ProcessTypeOK
<1>1. PICK u \in Transaction :
          Contains(client'[r].outstandingCollection, u) /\ Num(u) = n
  BY DEF Awaited, Num
<1>2. ASSUME NEW t \in Transaction, Issued(r, t), Added(client[r], client'[r], t)
      PROVE  Awaited(r, n) \/ n = client[r].outstandingCounter
  <2>1. Contains(client[r].outstandingCollection, u) \/ u = t
    BY <1>0, <1>1, <1>2, ContainsAppend DEF Added
  <2> QED  BY <1>0, <1>1, <1>2, <2>1, CounterGrows DEF Awaited
<1>3. ASSUME NEW t \in Transaction, Settled(client[r], client'[r], t)
      PROVE  Awaited(r, n)
  BY <1>0, <1>1, <1>3, ContainsRemoved DEF Settled, Awaited
<1>4. CASE Kept(client[r], client'[r]) \/ Cleaned(client[r], client'[r])
  BY <1>1, <1>4 DEF Kept, Cleaned, Awaited
<1> QED  BY <1>0, <1>2, <1>3, <1>4, ListsSteps, NoRestarts

LEMMA IdleStep ==
    ASSUME MaxRestarts = 0, OrderInv, [Next]_vars
    PROVE  IdleAwaitNothing'
<1> SUFFICES ASSUME NEW r \in Replica, NEW n \in Nat, phase'[r] \in {"start", "leaving"},
                    Awaited(r, n)'
             PROVE  FALSE
  BY DEF IdleAwaitNothing
<1>0. TypeOK
  BY DEF OrderInv
<1>1. Awaited(r, n)
  BY AwaitedSteps DEF Issued
<1>2. phase[r] \notin {"start", "leaving"}
  BY <1>1 DEF OrderInv, IdleAwaitNothing
<1>3. Leave(r)
  BY <1>0, <1>2, PhaseSteps, NoRestarts
<1>4. client[r].outstandingCollection = <<>>
  BY <1>3 DEF Leave
<1> QED  BY <1>1, <1>4, ContainsEmpty DEF Awaited

\* Who takes an own transaction off the inbox awaits it no longer: it is settled
\* now or was, and then all that is awaited is younger.
LEMMA TakenNotAwaited ==
    ASSUME MaxRestarts = 0, OrderInv, [Next]_vars, NEW r \in Replica, NEW n,
           Takes(r), OwnEntry(Head(inbox[r]), r, n), Awaited(r, n)'
    PROVE  FALSE
<1>0. /\ TypeOK /\ client \in [Replica -> ClientState]
      /\ client[r] \in ClientState
      /\ client[r].outstandingCollection \in Seq(Transaction)
      /\ client[r].executedList \in Seq(Transaction)
  BY ClientFields DEF OrderInv, TypeOK, ProcessTypeOK
<1>1. PICK t \in Transaction : Head(inbox[r]) = Regular(t) /\ Own(r, t) /\ Num(t) = n
  BY DEF OwnEntry
<1>2. Head(inbox[r]).kind = "regular" /\ Head(inbox[r]).tx = t
  BY <1>1 DEF Regular
<1>3. CASE ReceiveExecuted(r)
  <2>1. AlreadyExecuted(client[r].executedList, t) /\ client' = client
    BY <1>2, <1>3 DEF ReceiveExecuted, process
  <2>2. PICK e \in Transaction : /\ Contains(client[r].executedList, e)
                                 /\ e.uniqueId = t.uniqueId
    <3>1. DOMAIN client[r].executedList = 1 .. Len(client[r].executedList)
      BY <1>0, LenProperties
    <3>2. PICK i \in 1 .. Len(client[r].executedList) :
              client[r].executedList[i].uniqueId = t.uniqueId
      BY <2>1, <3>1 DEF AlreadyExecuted
    <3> QED  BY <1>0, <3>2, ElementOfSeq DEF Contains
  <2>3. Own(r, e) /\ Num(e) = n /\ n \in Nat
    BY <1>1, <2>2, NumTypes DEF OrderInv, OwnTransactions, Own, Num
  <2>4. Awaited(r, n)
    BY <2>1 DEF Awaited
  <2>5. Num(e) < n
    BY <2>2, <2>3, <2>4 DEF OrderInv, ExecutedBeforeAwaited
  <2> QED  BY <2>3, <2>5
<1>4. CASE ReceiveTransaction(r)
  <2>1. /\ ~AlreadyExecuted(client[r].executedList, t)
        /\ client' = [client EXCEPT ![r] = Execute(client[r], t)]
        /\ t.type # "UPDATE_BALANCE"
    BY <1>2, <1>4 DEF ReceiveTransaction
  <2>2. client'[r] = Execute(client[r], t)
    BY <1>0, <2>1
  <2>3. Settled(client[r], client'[r], t)
    BY <1>0, <2>1, <2>2, ExecuteEffect
  <2>4. PICK u \in Transaction :
            /\ Contains(RemoveOutstanding(client[r].outstandingCollection, t), u)
            /\ Num(u) = n
    BY <2>3 DEF Settled, Awaited, Num
  <2>5. Increasing(client[r].outstandingCollection)
    BY DEF OrderInv, OutstandingInOrder
  <2>6. u.uniqueId # t.uniqueId
    BY <1>0, <2>4, <2>5, RemovedIsGone
  <2>7. Own(r, u)
    BY <1>0, <2>4, ContainsRemoved DEF OrderInv, OwnTransactions
  <2> QED  BY <1>1, <2>4, <2>6, <2>7, NumTypes DEF Own
<1>5. CASE ReceiveUpdateBalance(r)
  BY <1>1, <1>2, <1>5 DEF ReceiveUpdateBalance, Own
<1> QED  BY <1>2, <1>3, <1>4, <1>5 DEF Takes

LEMMA ExecutedBeforeAwaitedStep ==
    ASSUME MaxRestarts = 0, OrderInv, [Next]_vars
    PROVE  ExecutedBeforeAwaited'
<1> SUFFICES ASSUME NEW r \in Replica, NEW t \in Transaction, NEW o \in Nat,
                    Contains(client'[r].executedList, t), Own(r, t), Awaited(r, o)'
             PROVE  Num(t) < o
  BY DEF ExecutedBeforeAwaited, Own, Num
<1>0. /\ TypeOK
      /\ client[r].executedList \in Seq(Transaction)
      /\ inbox[r] \in Seq(Entry)
  BY ClientFields DEF OrderInv, TypeOK, ProcessTypeOK, SpreadTypeOK
<1>1. ASSUME Contains(client[r].executedList, t)
      PROVE  Num(t) < o
  <2>1. CASE Awaited(r, o)
    BY <1>1, <2>1 DEF OrderInv, ExecutedBeforeAwaited
  <2>2. CASE o = client[r].outstandingCounter
    <3>1. Circulates(r, t)
      BY <1>1 DEF Circulates
    <3> QED  BY <2>2, <3>1 DEF OrderInv, Numbered
  <2> QED  BY <2>1, <2>2, AwaitedSteps
<1>2. ASSUME Takes(r), Head(inbox[r]) = Regular(t)
      PROVE  Num(t) < o
  <2>1. OwnEntry(Head(inbox[r]), r, Num(t))
    BY <1>2, OwnEntryOfRegular
  <2>2. o # Num(t)
    BY <1>2, <2>1, TakenNotAwaited
  <2>3. Awaited(r, o)
    <3>1. \A u \in Transaction : ~Issued(r, u)
      BY <1>0, <1>2, EmptySeq, HeadTailProperties
         DEF Takes, ReceiveExecuted, ReceiveTransaction, ReceiveUpdateBalance,
             ReceiveJoin, ReceiveLeft, TakeNext, Issued, spread, TypeOK, SpreadTypeOK
    <3> QED  BY <3>1, AwaitedSteps
  <2>4. r \in members
    <3>1. phase[r] # "leaving"
      BY <2>3 DEF OrderInv, IdleAwaitNothing
    <3> QED  BY <1>2, <3>1 DEF Takes, Connected, OrderInv, MembersInGroup, InGroup
  <2>5. Len(inbox[r]) \in Nat \ {0} /\ inbox[r][1] = Head(inbox[r])
    BY <1>0, <1>2, EmptySeq, HeadTailProperties DEF Takes
  <2>6. ~(o < Num(t))
    <3>1. \A i \in 1 .. Len(inbox[r]) :
              Awaited(r, o) /\ o < Num(t) /\ OwnEntry(inbox[r][i], r, Num(t)) =>
                  \E j \in 1 .. i - 1 : OwnEntry(inbox[r][j], r, o)
      BY <2>4, NumTypes DEF OrderInv, InboxInOrder
    <3>2. 1 \in 1 .. Len(inbox[r]) /\ 1 .. 1 - 1 = {}
      BY <2>5
    <3> QED  BY <2>1, <2>3, <2>5, <3>1, <3>2
  <2> QED  BY <2>2, <2>6, NumTypes
<1>3. ASSUME NEW u \in Transaction, Settled(client[r], client'[r], u), Takes(r),
             Head(inbox[r]) = Regular(u)
      PROVE  Num(t) < o
  <2>1. Contains(client[r].executedList, t) \/ t = u
    BY <1>0, <1>3, ContainsAppend DEF Settled
  <2> QED  BY <1>1, <1>2, <1>3, <2>1
<1> QED  BY <1>0, <1>1, <1>3, ListsSteps, NoRestarts, ContainsEmpty DEF Kept, Cleaned, Added

\* Only what is issued comes to be pending.
LEMMA PendingSteps ==
    ASSUME MaxRestarts = 0, OrderInv, [Next]_vars, NEW r \in Replica, NEW n,
           Pending(r, n)', r \in members'
    PROVE  \/ Pending(r, n)
           \/ n = client[r].outstandingCounter /\ \E t \in Transaction : Issued(r, t)
<1>0. TypeOK /\ inbox[r] \in Seq(Entry)
  BY DEF OrderInv, TypeOK, SpreadTypeOK
<1>1. /\ Awaited(r, n)'
      /\ \A i \in 1 .. Len(inbox'[r]) : ~OwnEntry(inbox'[r][i], r, n)
  BY DEF Pending, OwnEntry, Own, Num
<1> SUFFICES ASSUME Awaited(r, n) PROVE Pending(r, n)
  BY <1>1, AwaitedSteps
<1>2. CASE inbox'[r] = inbox[r]
  BY <1>1, <1>2 DEF Pending
<1>3. CASE inbox'[r] = Tail(inbox[r]) /\ Takes(r)
  <2>1. /\ Len(inbox[r]) \in Nat \ {0} /\ inbox[r][1] = Head(inbox[r])
        /\ Len(inbox'[r]) = Len(inbox[r]) - 1
        /\ \A i \in 1 .. Len(inbox'[r]) : inbox'[r][i] = inbox[r][i + 1]
    BY <1>0, <1>3, EmptySeq, HeadTailProperties DEF Takes
  <2>2. ~OwnEntry(inbox[r][1], r, n)
    BY <1>1, <1>3, <2>1, TakenNotAwaited
  <2>3. ASSUME NEW i \in 1 .. Len(inbox[r]), i # 1
        PROVE  ~OwnEntry(inbox[r][i], r, n)
    <3>1. i - 1 \in 1 .. Len(inbox'[r]) /\ (i - 1) + 1 = i
      BY <2>1, <2>3
    <3> QED  BY <1>1, <2>1, <3>1
  <2> QED  BY <2>2, <2>3 DEF Pending
<1>4. ASSUME NEW e \in Entry, inbox'[r] = Append(inbox[r], e)
      PROVE  Pending(r, n)
  <2>1. /\ Len(inbox[r]) \in Nat /\ Len(inbox'[r]) = Len(inbox[r]) + 1
        /\ \A i \in 1 .. Len(inbox[r]) : inbox'[r][i] = inbox[r][i]
    BY <1>0, <1>4, AppendProperties, LenProperties
  <2> QED  BY <1>1, <2>1 DEF Pending
<1>5. ~Crash(r) /\ ~Disconnect(r)
  <2>1. phase'[r] \in InGroup
    BY MembersStep DEF OrderInv, MembersInGroup
  <2> QED  BY <1>0, <2>1 DEF Crash, Disconnect, InGroup, TypeOK, ProcessTypeOK
<1>6. members' \in SUBSET Replica /\ {} \in SUBSET Replica
  BY <1>0, TypeStep DEF TypeOK, SpreadTypeOK
<1> QED  BY <1>0, <1>2, <1>3, <1>4, <1>5, <1>6, InboxSteps, EntryTypes

\* Who becomes a member awaits nothing.
LEMMA NewcomerAwaitsNothing ==
    ASSUME MaxRestarts = 0, OrderInv, [Next]_vars, NEW r \in Replica, NEW n \in Nat,
           r \in members', r \notin members
    PROVE  ~Awaited(r, n)'
<1>0. TypeOK
  BY DEF OrderInv
<1>1. Join(r)
  BY <1>0, InboxSteps DEF Leave, Crash, Disconnect
<1>2. ~Awaited(r, n) /\ client' = client
  BY <1>1 DEF Join, OrderInv, IdleAwaitNothing
<1> QED  BY <1>2 DEF Awaited

\* What is sent is as old as the oldest that is pending.
LEMMA SentOldest ==
    ASSUME OrderInv, NEW r \in members, NEW q \in Replica, NEW t \in Transaction,
           NEW o \in Nat, Sends(q, t), Own(r, t), Pending(r, o)
    PROVE  Num(t) <= o
<1>0. /\ r \in Replica
      /\ batch[q] \in Seq(Transaction) /\ callback[q] \in Seq(Transaction)
  BY DEF OrderInv, TypeOK, ProcessTypeOK, SpreadTypeOK
<1>1. CASE batch[q] # <<>> /\ t = Head(batch[q])
  <2>1. Len(batch[q]) \in Nat \ {0} /\ batch[q][1] = t /\ Contains(batch[q], t)
    BY <1>0, <1>1, EmptySeq, HeadTailProperties, ContainsTail
  <2>2. q = r
    BY <2>1 DEF OrderInv, OwnTransactions, Own
  <2>3. 1 \in 1 .. Len(batch[r]) /\ 1 .. 1 - 1 = {}
    BY <2>1, <2>2
  <2>4. ~(o < Num(batch[r][1]))
    BY <2>3 DEF OrderInv, RoundInOrder
  <2> QED  BY <2>1, <2>2, <2>4, NumTypes
<1>2. CASE callback[q] # <<>> /\ t = Head(callback[q])
  <2>1. Contains(callback[q], t)
    BY <1>0, <1>2, ContainsTail
  <2>2. Num(t) < o
    BY <1>0, <2>1 DEF OrderInv, ElsewhereOlder, Elsewhere
  <2> QED  BY <2>2, NumTypes
<1> QED  BY <1>1, <1>2 DEF Sends

LEMMA InboxInOrderStep ==
    ASSUME MaxRestarts = 0, OrderInv, [Next]_vars
    PROVE  InboxInOrder'
<1> SUFFICES ASSUME NEW r \in members', NEW o \in Nat, NEW n \in Nat,
                    NEW i \in 1 .. Len(inbox'[r]),
                    Awaited(r, o)', o < n, OwnEntry(inbox[r][i], r, n)'
             PROVE  \E j \in 1 .. i - 1 : OwnEntry(inbox[r][j], r, o)'
  BY DEF InboxInOrder
<1> SUFFICES ASSUME OwnEntry(inbox'[r][i], r, n)
             PROVE  \E j \in 1 .. i - 1 : OwnEntry(inbox'[r][j], r, o)
  BY DEF OwnEntry, Own, Num
<1>0. /\ TypeOK /\ r \in Replica /\ inbox[r] \in Seq(Entry)
      /\ members' \in SUBSET Replica /\ {} \in SUBSET Replica
      /\ client[r].outstandingCounter \in Nat
  BY TypeStep, ClientFields DEF OrderInv, TypeOK, ProcessTypeOK, SpreadTypeOK
<1>1. r \in members
  BY <1>0, NewcomerAwaitsNothing
<1>2. ASSUME NEW k \in 1 .. Len(inbox[r]), OwnEntry(inbox[r][k], r, n)
      PROVE  Awaited(r, o) /\ \E j \in 1 .. k - 1 : OwnEntry(inbox[r][j], r, o)
  <2>1. PICK t \in Transaction : inbox[r][k] = Regular(t) /\ Own(r, t) /\ Num(t) = n
    BY <1>2 DEF OwnEntry
  <2>2. Circulates(r, t)
    BY <2>1 DEF Circulates, Contains
  <2>3. n < client[r].outstandingCounter
    BY <1>0, <2>1, <2>2 DEF OrderInv, Numbered
  <2>4. o # client[r].outstandingCounter
    BY <1>0, <2>3
  <2>5. Awaited(r, o)
    BY <1>0, <2>4, AwaitedSteps
  <2> QED  BY <1>1, <1>2, <2>5 DEF OrderInv, InboxInOrder
<1>3. CASE inbox'[r] = inbox[r]
  BY <1>2, <1>3
<1>4. CASE inbox'[r] = Tail(inbox[r]) /\ Takes(r)
  <2>1. /\ Len(inbox[r]) \in Nat \ {0} /\ inbox[r][1] = Head(inbox[r])
        /\ Len(inbox'[r]) = Len(inbox[r]) - 1
        /\ \A k \in 1 .. Len(inbox'[r]) : inbox'[r][k] = inbox[r][k + 1]
    BY <1>0, <1>4, EmptySeq, HeadTailProperties DEF Takes
  <2>2. i + 1 \in 1 .. Len(inbox[r]) /\ OwnEntry(inbox[r][i + 1], r, n)
    BY <2>1
  <2>3. PICK j \in 1 .. (i + 1) - 1 : OwnEntry(inbox[r][j], r, o)
    BY <1>2, <2>2
  <2>4. j # 1
    BY <1>0, <1>4, <2>1, <2>3, TakenNotAwaited
  <2>5. j - 1 \in 1 .. i - 1 /\ inbox'[r][j - 1] = inbox[r][j]
    <3>1. j - 1 \in 1 .. i - 1 /\ j - 1 \in 1 .. Len(inbox'[r]) /\ (j - 1) + 1 = j
      BY <2>1, <2>3, <2>4
    <3> QED  BY <2>1, <3>1
  <2> QED  BY <2>3, <2>5
<1>5. ASSUME NEW e \in Entry, inbox'[r] = Append(inbox[r], e),
             OwnEntry(e, r, n) => \E j \in 1 .. Len(inbox[r]) : OwnEntry(inbox[r][j], r, o)
      PROVE  \E j \in 1 .. i - 1 : OwnEntry(inbox'[r][j], r, o)
  <2>1. /\ Len(inbox[r]) \in Nat /\ Len(inbox'[r]) = Len(inbox[r]) + 1
        /\ inbox'[r][Len(inbox[r]) + 1] = e
        /\ \A k \in 1 .. Len(inbox[r]) : inbox'[r][k] = inbox[r][k]
    BY <1>0, <1>5, AppendProperties, LenProperties
  <2>2. PICK j \in 1 .. Len(inbox[r]) : j < i /\ OwnEntry(inbox[r][j], r, o)
    <3>1. CASE i \in 1 .. Len(inbox[r])
      <4>1. OwnEntry(inbox[r][i], r, n)
        BY <2>1, <3>1
      <4>2. PICK j \in 1 .. i - 1 : OwnEntry(inbox[r][j], r, o)
        BY <1>2, <3>1, <4>1
      <4>3. j \in 1 .. Len(inbox[r]) /\ j < i
        BY <2>1, <3>1
      <4> QED  BY <4>2, <4>3
    <3>2. CASE i \notin 1 .. Len(inbox[r])
      <4>1. i = Len(inbox[r]) + 1
        BY <2>1, <3>2
      <4>2. OwnEntry(e, r, n)
        BY <2>1, <4>1
      <4> QED  BY <1>5, <2>1, <4>1, <4>2
    <3> QED  BY <3>1, <3>2
  <2> QED  BY <2>1, <2>2
<1>6. ASSUME NEW q \in Replica, NEW t \in Transaction, Sends(q, t),
             inbox'[r] = Append(inbox[r], Regular(t)), OwnEntry(Regular(t), r, n)
      PROVE  \E j \in 1 .. Len(inbox[r]) : OwnEntry(inbox[r][j], r, o)
  <2>1. Own(r, t) /\ Num(t) = n
    BY <1>6, OwnEntryOfRegular
  <2>2. ~Pending(r, o)
    BY <1>1, <1>6, <2>1, SentOldest
  <2>3. Awaited(r, o)
    <3>1. \A u \in Transaction : ~Issued(r, u)
      <4>1. Regular(t) \in Entry
        BY EntryTypes
      <4>2. Len(inbox'[r]) = Len(inbox[r]) + 1 /\ Len(inbox[r]) \in Nat
        BY <1>0, <1>6, <4>1, AppendProperties, LenProperties
      <4> QED  BY <4>2 DEF Issued, spread
    <3> QED  BY <1>0, <3>1, AwaitedSteps
  <2> QED  BY <2>2, <2>3 DEF Pending
<1>7. \A q \in Replica, g \in SUBSET Replica :
          /\ Joined(q, g) \in Entry /\ ~OwnEntry(Joined(q, g), r, n)
          /\ Left(g) \in Entry /\ ~OwnEntry(Left(g), r, n)
  BY EntryTypes, EntriesApart DEF OwnEntry
<1>8. \A t \in Transaction : Regular(t) \in Entry
  BY EntryTypes
<1>9. inbox'[r] # <<>>
  BY EmptySeq
<1> QED  BY <1>0, <1>3, <1>4, <1>5, <1>6, <1>7, <1>8, <1>9, InboxSteps

\* What is sent to the group has then a copy in the own inbox.
LEMMA SentNotPending ==
    ASSUME TypeOK, NEW r \in members, NEW q \in Replica, NEW t \in Transaction,
           Sends(q, t), Own(r, t), Pending(r, Num(t))'
    PROVE  FALSE
<1>0. r \in Replica /\ inbox[r] \in Seq(Entry) /\ Regular(t) \in Entry
  BY EntryTypes DEF TypeOK, SpreadTypeOK
<1>1. inbox'[r] = Append(inbox[r], Regular(t))
  BY <1>0 DEF Sends, Multicast
<1>2. /\ Len(inbox[r]) + 1 \in 1 .. Len(inbox'[r])
      /\ inbox'[r][Len(inbox[r]) + 1] = Regular(t)
  BY <1>0, <1>1, AppendProperties, LenProperties
<1>3. OwnEntry(Regular(t), r, Num(t))
  BY OwnEntryOfRegular
<1>4. \A i \in 1 .. Len(inbox'[r]) : ~OwnEntry(inbox'[r][i], r, Num(t))
  BY DEF Pending, OwnEntry, Own, Num
<1> QED  BY <1>2, <1>3, <1>4

LEMMA RoundInOrderStep ==
    ASSUME MaxRestarts = 0, OrderInv, [Next]_vars
    PROVE  RoundInOrder'
<1> SUFFICES ASSUME NEW r \in members', NEW o \in Nat, NEW i \in 1 .. Len(batch'[r]),
                    Pending(r, o)', o < Num(batch'[r][i])
             PROVE  \E j \in 1 .. i - 1 : Num(batch'[r][j]) = o
  BY DEF RoundInOrder, Num
<1>0. /\ TypeOK /\ r \in Replica /\ batch[r] \in Seq(Transaction)
      /\ client[r].outstandingCounter \in Nat
      /\ client[r].outstandingCollection \in Seq(Transaction)
  BY TypeStep, ClientFields DEF OrderInv, TypeOK, ProcessTypeOK, SpreadTypeOK
<1>1. r \in members /\ Awaited(r, o)'
  BY <1>0, NewcomerAwaitsNothing DEF Pending
<1>2. ASSUME NEW k \in 1 .. Len(batch[r]), o < Num(batch[r][k])
      PROVE  \E j \in 1 .. k - 1 : Num(batch[r][j]) = o
  <2>1. batch[r][k] \in Transaction /\ Contains(batch[r], batch[r][k])
    BY <1>0, ElementOfSeq DEF Contains
  <2>2. Own(r, batch[r][k]) /\ Circulates(r, batch[r][k])
    BY <1>0, <2>1 DEF OrderInv, OwnTransactions, Circulates
  <2>3. Num(batch[r][k]) < client[r].outstandingCounter /\ Num(batch[r][k]) \in Nat
    BY <1>0, <2>1, <2>2, NumTypes DEF OrderInv, Numbered
  <2>4. o # client[r].outstandingCounter
    BY <1>0, <1>2, <2>3
  <2>5. Pending(r, o)
    BY <1>0, <2>4, PendingSteps
  <2> QED  BY <1>1, <1>2, <2>5 DEF OrderInv, RoundInOrder
<1>3. CASE batch'[r] = batch[r]
  BY <1>2, <1>3
<1>4. CASE BroadcastNext(r) /\ batch[r] # <<>> /\ batch'[r] = Tail(batch[r])
  <2>1. /\ Len(batch[r]) \in Nat \ {0} /\ batch[r][1] = Head(batch[r])
        /\ Head(batch[r]) \in Transaction
        /\ Len(batch'[r]) = Len(batch[r]) - 1
        /\ \A k \in 1 .. Len(batch'[r]) : batch'[r][k] = batch[r][k + 1]
    BY <1>0, <1>4, EmptySeq, HeadTailProperties
  <2>2. i + 1 \in 1 .. Len(batch[r]) /\ o < Num(batch[r][i + 1])
    BY <2>1
  <2>3. PICK j \in 1 .. (i + 1) - 1 : Num(batch[r][j]) = o
    BY <1>2, <2>2
  <2>4. j # 1
    <3>1. Sends(r, Head(batch[r])) /\ Own(r, Head(batch[r]))
      BY <1>0, <1>4, <2>1, ContainsTail DEF Sends, BroadcastNext, OrderInv, OwnTransactions
    <3> QED  BY <1>0, <1>1, <2>1, <2>3, <3>1, SentNotPending
  <2>5. j - 1 \in 1 .. i - 1 /\ batch'[r][j - 1] = batch[r][j]
    <3>1. j - 1 \in 1 .. i - 1 /\ j - 1 \in 1 .. Len(batch'[r]) /\ (j - 1) + 1 = j
      BY <2>1, <2>3, <2>4
    <3> QED  BY <2>1, <3>1
  <2> QED  BY <2>3, <2>5
<1>5. CASE BroadcastRound(r) /\ batch'[r] = client[r].outstandingCollection
  <2> DEFINE s == client[r].outstandingCollection
  <2>1. Increasing(s)
    BY <1>0 DEF OrderInv, OutstandingInOrder
  <2>2. client' = client
    BY <1>5 DEF BroadcastRound
  <2>3. Awaited(r, o)
    BY <1>1, <2>2 DEF Awaited
  <2>4. PICK j \in 1 .. Len(s) : Num(s[j]) = o
    BY <2>3 DEF Awaited, Contains
  <2>5. s[i] \in Transaction /\ i \in 1 .. Len(s) /\ Num(s[i]) \in Nat /\ Len(s) \in Nat
    BY <1>0, <1>5, ElementOfSeq, NumTypes, LenProperties
  <2>6. o < Num(s[i])
    BY <1>5
  <2> HIDE DEF s
  <2>7. j < i
    BY <2>1, <2>4, <2>5, <2>6 DEF Increasing
  <2>8. j \in 1 .. i - 1 /\ Num(batch'[r][j]) = o
    BY <1>5, <2>4, <2>5, <2>7 DEF s
  <2> QED  BY <2>8
<1>6. batch'[r] # <<>>
  BY EmptySeq
<1> QED  BY <1>0, <1>3, <1>4, <1>5, <1>6, BatchSteps

LEMMA ElsewhereOlderStep ==
    ASSUME MaxRestarts = 0, OrderInv, [Next]_vars
    PROVE  ElsewhereOlder'
<1> SUFFICES ASSUME NEW r \in members', NEW q \in Replica, NEW t \in Transaction,
                    NEW o \in Nat, Elsewhere(q, r, t)', Own(r, t), Pending(r, o)'
             PROVE  Num(t) < o
  BY DEF ElsewhereOlder, Own, Num
<1>0. /\ TypeOK /\ r \in Replica
      /\ inbox[q] \in Seq(Entry)
      /\ client[q].executedList \in Seq(Transaction)
      /\ callback[q] \in Seq(Transaction)
      /\ batch \in [Replica -> Seq(Transaction)]
      /\ callback \in [Replica -> Seq(Transaction)]
  BY TypeStep, ClientFields DEF OrderInv, TypeOK, ProcessTypeOK, SpreadTypeOK
<1>1. r \in members /\ Awaited(r, o)'
  BY <1>0, NewcomerAwaitsNothing DEF Pending
<1>2. ASSUME NEW p \in Replica, Circulates(p, t), o = client[r].outstandingCounter
      PROVE  Num(t) < o
  BY <1>0, <1>2 DEF OrderInv, Numbered
<1>3. ASSUME NEW p \in Replica, Elsewhere(p, r, t)
      PROVE  Num(t) < o
  <2>1. Circulates(p, t)
    BY <1>3 DEF Elsewhere, Circulates
  <2>2. CASE Pending(r, o)
    BY <1>1, <1>3, <2>2 DEF OrderInv, ElsewhereOlder
  <2> QED  BY <1>0, <1>2, <2>1, <2>2, PendingSteps
<1>4. ASSUME NEW p \in Replica, Sends(p, t)
      PROVE  Num(t) < o
  <2>1. Circulates(p, t)
    BY <1>0, <1>4, ContainsTail DEF Sends, Circulates
  <2>2. CASE Pending(r, o)
    <3>1. Num(t) <= o
      BY <1>1, <1>4, <2>2, SentOldest
    <3>2. Num(t) # o
      BY <1>0, <1>1, <1>4, SentNotPending
    <3> QED  BY <3>1, <3>2, NumTypes
  <2> QED  BY <1>0, <1>2, <2>1, <2>2, PendingSteps
<1>5. CASE Contains(client'[q].executedList, t)
  <2>1. CASE q = r
    BY <1>0, <1>1, <1>5, <2>1, ExecutedBeforeAwaitedStep DEF ExecutedBeforeAwaited, Own, Num
  <2>2. CASE q # r
    <3>1. \/ Contains(client[q].executedList, t)
          \/ inbox[q] # <<>> /\ Head(inbox[q]) = Regular(t)
      BY <1>0, <1>5, ListsSteps, ContainsAppend, ContainsEmpty
         DEF Kept, Cleaned, Fresh, Added, Settled, Takes
    <3>2. Elsewhere(q, r, t)
      BY <1>0, <2>2, <3>1, ContainsTail DEF Elsewhere
    <3> QED  BY <1>3, <3>2
  <2> QED  BY <2>1, <2>2
<1>6. CASE Contains(callback'[q], t)
  <2> DEFINE u == NewTransaction(q, client[q], "UPDATE_BALANCE", client[q].balance, 0)
  <2>1. t # u
    BY DEF Own, NewTransaction
  <2>2. CASE callback'[q] = <<u>>
    BY <1>6, <2>1, <2>2, ContainsOne
  <2>3. CASE callback[q] # <<>> /\ callback'[q] = Tail(callback[q])
    <3>1. Contains(callback[q], t)
      BY <1>0, <1>6, <2>3, ContainsTail
    <3> QED  BY <1>3, <3>1 DEF Elsewhere
  <2>4. CASE callback'[q] \in {callback[q], client[q].executedList}
    BY <1>3, <1>6, <2>4 DEF Elsewhere
  <2> HIDE DEF u
  <2> QED  BY <1>0, <1>6, <2>2, <2>3, <2>4, CallbackSteps, ContainsEmpty DEF u
<1>7. CASE q # r /\ Contains(inbox'[q], Regular(t))
  <2>1. Regular(t) \in Entry
    BY EntryTypes
  <2>2. ASSUME NEW e \in Entry, e # Regular(t), inbox'[q] = Append(inbox[q], e)
        PROVE  Contains(inbox[q], Regular(t))
    BY <1>0, <1>7, <2>2, ContainsAppend
  <2>3. ASSUME NEW p \in Replica, NEW u \in Transaction, Sends(p, u),
               inbox'[q] = Append(inbox[q], Regular(u))
        PROVE  Contains(inbox[q], Regular(t)) \/ Num(t) < o
    <3>1. CASE u = t
      BY <1>4, <2>3, <3>1
    <3>2. CASE u # t
      BY <2>2, <2>3, <3>2, EntriesApart, EntryTypes
    <3> QED  BY <3>1, <3>2
  <2>4. members' \in SUBSET Replica /\ {} \in SUBSET Replica
    BY <1>0, TypeStep DEF TypeOK, SpreadTypeOK
  <2>5. \A p \in Replica, g \in SUBSET Replica :
            /\ Joined(p, g) \in Entry /\ Joined(p, g) # Regular(t)
            /\ Left(g) \in Entry /\ Left(g) # Regular(t)
    BY EntryTypes, EntriesApart
  <2>6. Contains(inbox[q], Regular(t)) \/ Num(t) < o
    BY <1>0, <1>7, <2>2, <2>3, <2>4, <2>5, InboxSteps, ContainsTail, ContainsEmpty
       DEF Takes
  <2> QED  BY <1>3, <1>7, <2>6 DEF Elsewhere
<1>8. \/ Contains(client'[q].executedList, t)
      \/ Contains(callback'[q], t)
      \/ q # r /\ Contains(inbox'[q], Regular(t))
  BY DEF Elsewhere, Contains, Regular
<1> QED  BY <1>5, <1>6, <1>7, <1>8

LEMMA OrderInitially == ASSUME Init PROVE OrderInv
<1>1. /\ members = {} /\ \A r \in Replica : phase[r] = "start"
      /\ \A r \in Replica : client[r] = NewClient /\ batch[r] = <<>>
                            /\ callback[r] = <<>> /\ inbox[r] = <<>>
  BY DEF Init
<1>2. NewClient.outstandingCollection = <<>> /\ NewClient.executedList = <<>>
  BY DEF NewClient
<1>3. \A r \in Replica, t \in Transaction : ~Circulates(r, t)
  BY <1>1, <1>2, ContainsEmpty DEF Circulates
<1>4. \A r \in Replica : \A n : ~Awaited(r, n)
  BY <1>1, <1>2, ContainsEmpty DEF Awaited
<1>5. \A r \in Replica : Increasing(client[r].outstandingCollection)
  BY <1>1, <1>2 DEF Increasing
<1>6. MembersInGroup
  BY <1>1 DEF MembersInGroup, InGroup
<1>7. Numbered /\ OwnTransactions /\ ExecutedBeforeAwaited
  BY <1>3, <1>4 DEF Numbered, OwnTransactions, ExecutedBeforeAwaited, Circulates
<1>8. InboxInOrder /\ RoundInOrder /\ ElsewhereOlder
  BY <1>1 DEF InboxInOrder, RoundInOrder, ElsewhereOlder
<1> QED  BY <1>4, <1>5, <1>6, <1>7, <1>8, InitTypes
         DEF OrderInv, OutstandingInOrder, IdleAwaitNothing

LEMMA OrderStep ==
    ASSUME MaxRestarts = 0, OrderInv, [Next]_vars
    PROVE  OrderInv'
<1>1. TypeOK' /\ MembersInGroup'
  BY TypeStep, MembersStep DEF OrderInv
<1> QED  BY <1>1, NumberedStep, OwnTransactionsStep, OutstandingInOrderStep, IdleStep,
            ExecutedBeforeAwaitedStep, InboxInOrderStep, RoundInOrderStep,
            ElsewhereOlderStep DEF OrderInv

(***************************************************************************)
(* A replica executes its own transactions in the order in which it issued *)
(* them: the broadcaster may send a transaction in several rounds, others  *)
(* may replay it to a newcomer, and cleanHistory may forget that it was    *)
(* executed, yet nothing outstanding is as old as anything executed.  A    *)
(* replica that is started again gives out its numbers a second time, so   *)
(* the theorem is about replicas that are not.                             *)
(***************************************************************************)
THEOREM OwnOrderKept ==
    ASSUME MaxRestarts = 0
    PROVE  Spec => []OwnOrder
<1>1. Init => OrderInv
  BY OrderInitially
<1>2. OrderInv /\ [Next]_vars => OrderInv'
  BY OrderStep
<1>3. OrderInv => OwnOrder
  <2> SUFFICES ASSUME OrderInv, NEW r \in Replica, NEW e \in Executed(r),
                      NEW o \in Outstanding(r), e[1] = r
               PROVE  e[2] < o[2]
    BY DEF OwnOrder
  <2>0. /\ client[r].outstandingCollection \in Seq(Transaction)
        /\ client[r].executedList \in Seq(Transaction)
    BY ClientFields DEF OrderInv, TypeOK, ProcessTypeOK
  <2>1. PICK t \in Transaction : Contains(client[r].executedList, t) /\ t.uniqueId = e
    BY <2>0, IdsContained DEF Executed
  <2>2. PICK u \in Transaction :
            Contains(client[r].outstandingCollection, u) /\ u.uniqueId = o
    BY <2>0, IdsContained DEF Outstanding
  <2>3. Own(r, t) /\ Awaited(r, Num(u)) /\ Num(u) \in Nat
    BY <2>1, <2>2, NumTypes DEF OrderInv, OwnTransactions, Own, Awaited
  <2>4. Num(t) < Num(u)
    BY <2>1, <2>3 DEF OrderInv, ExecutedBeforeAwaited
  <2> QED  BY <2>1, <2>2, <2>4 DEF Num
<1> QED  BY <1>1, <1>2, <1>3, PTL DEF Spec
=============================================================================
