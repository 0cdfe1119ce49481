-------------------------- MODULE FixedGroupProofs --------------------------
(***************************************************************************)
(* The replicated account of a fixed group: every replica waits for all    *)
(* the others, as the program is meant to be started, none is started      *)
(* again, and no history is cleared.  Until the first round of a           *)
(* broadcaster nothing is executed anywhere; from then on nobody joins, so *)
(* all that is sent are changes and requests for the balance, and what is  *)
(* in an inbox leads from the replica's copy through the ledger.  Hence    *)
(* members that have read everything agree (MembersAgree), and every step  *)
(* is a step of the one account of BankAccount (FixedGroupIsBank).         *)
(***************************************************************************)
EXTENDS BankSafetyProofs

FixedGroup ==
    /\ NumberOfReplicas = Cardinality(Replica)
    /\ PromptStart
    /\ MaxRestarts = 0
    /\ "cleanHistory" \notin Commands

-----------------------------------------------------------------------------
(***************************************************************************)
(* The two stages of a fixed group.                                        *)
(***************************************************************************)
HaveJoined(g) == \A s \in g : phase[s] # "start"

\* Whoever starts the timer has heard of everyone.
OthersWaitedFor ==
    \A r \in Replica :
        /\ numberOfReplicas[r] >= NumberOfReplicas
        /\ HaveJoined(replicas[r])
        /\ \A i \in 1 .. Len(inbox[r]) :
               inbox[r][i].kind \in {"join", "left"} => HaveJoined(inbox[r][i].members)
        /\ timer[r] # "off" => HaveJoined(Replica)

\* Setting the balance to that of a replica that has executed nothing.
Idle(t) == t.type = "UPDATE_BALANCE" /\ t.balance = 0

NothingExecuted ==
    /\ ledger = <<EmptyAccount>>
    /\ \A r \in Replica : /\ timer[r] # "on" /\ batch[r] = <<>>
                          /\ Copy(client[r]) = EmptyAccount
    /\ \A r \in Replica, t \in Transaction :
           Contains(callback[r], t) \/ Contains(inbox[r], Regular(t)) => Idle(t)

NobodyJoins ==
    /\ HaveJoined(Replica)
    /\ \A r \in Replica : /\ callback[r] = <<>>
                          /\ \A i \in 1 .. Len(inbox[r]) : ~StartTraffic(inbox[r][i])

(***************************************************************************)
(* From the copy a, the account number p of the ledger l, the entries of   *)
(* box lead to the accounts that tr says, one step or none at a time.      *)
(***************************************************************************)
Effect(a, e) == IF e.kind = "regular" THEN Apply(a, e.tx) ELSE a

Place(tr, p, i) == IF i = 0 THEN p ELSE tr[i]

Walks(a, box, tr, l, p) ==
    /\ p \in 1 .. Len(l) /\ a = l[p]
    /\ \A i \in 1 .. Len(box) :
           /\ Place(tr, p, i) \in 1 .. Len(l)
           /\ Place(tr, p, i) \in {Place(tr, p, i - 1), Place(tr, p, i - 1) + 1}
           /\ l[Place(tr, p, i)] = Effect(l[Place(tr, p, i - 1)], box[i])

OnLedger ==
    \A r \in Replica : \E p \in 1 .. Len(ledger) :
        /\ Walks(Copy(client[r]), inbox[r], trail[r], ledger, p)
        /\ r \in members => Place(trail[r], p, Len(inbox[r])) = Len(ledger)

AgreeInv ==
    /\ OrderInv
    /\ OthersWaitedFor
    /\ NothingExecuted \/ NobodyJoins
    /\ OnLedger

-----------------------------------------------------------------------------
(***************************************************************************)
(* Everyone is waited for.                                                 *)
(***************************************************************************)
LEMMA WholeGroup ==
    ASSUME NEW g \in SUBSET Replica, Cardinality(g) >= Cardinality(Replica)
    PROVE  g = Replica
<1>1. IsFiniteSet(Replica)
  BY BankAssumption
<1> QED  BY <1>1, GroupSizes, FS_Subset

LEMMA JoinedForGood ==
    ASSUME FixedGroup, TypeOK, [Next]_vars, NEW g \in SUBSET Replica, HaveJoined(g)
    PROVE  HaveJoined(g)'
<1> SUFFICES ASSUME NEW s \in g PROVE phase'[s] # "start"
  BY DEF HaveJoined
<1>1. s \in Replica /\ phase[s] # "start" /\ ~Restart(s)
  BY NoRestarts DEF HaveJoined, FixedGroup
<1> QED  BY <1>1, PhaseSteps

\* The timer is armed by who has heard of enough members and goes on after
\* the delay.
LEMMA TimerSteps ==
    ASSUME TypeOK, [Next]_vars, NEW s \in Replica
    PROVE  \/ timer'[s] \in {timer[s], "off"}
           \/ /\ timer'[s] = "delay" /\ phase'[s] = "running"
              /\ \/ Cardinality(replicas[s]) >= numberOfReplicas[s]
                 \/ /\ Takes(s) /\ Head(inbox[s]).kind = "join"
                    /\ Cardinality(Head(inbox[s]).members) >= numberOfReplicas[s]
           \/ InitialDelay(s) /\ timer[s] = "delay" /\ timer'[s] = "on"
<1> DEFINE Goal ==
           \/ timer'[s] \in {timer[s], "off"}
           \/ /\ timer'[s] = "delay" /\ phase'[s] = "running"
              /\ \/ Cardinality(replicas[s]) >= numberOfReplicas[s]
                 \/ /\ Takes(s) /\ Head(inbox[s]).kind = "join"
                    /\ Cardinality(Head(inbox[s]).members) >= numberOfReplicas[s]
           \/ InitialDelay(s) /\ timer[s] = "delay" /\ timer'[s] = "on"
<1>0. timer \in [Replica -> Timer] /\ phase \in [Replica -> Phase]
  BY DEF TypeOK, ProcessTypeOK
<1>1. ASSUME UNCHANGED timer PROVE Goal
  BY <1>1
<1>2. ASSUME NEW r \in Replica, NEW v, timer' = [timer EXCEPT ![r] = v], r # s
      PROVE  Goal
  BY <1>0, <1>2
<1>3. ASSUME NEW v, timer' = [timer EXCEPT ![s] = v]
      PROVE  timer'[s] = v
  BY <1>0, <1>3
<1>4. ASSUME NEW r \in Replica, Main(r) PROVE Goal
  <2>1. CASE CheckReplicas(r)
    <3>1. CASE UNCHANGED timer
      BY <1>1, <3>1
    <3>2. CASE Start(r) /\ Cardinality(replicas[r]) >= numberOfReplicas[r]
      BY <1>0, <1>2, <1>3, <3>2 DEF Start
    <3> QED  BY <2>1, <3>1, <3>2 DEF CheckReplicas
  <2>2. CASE Leave(r)
    BY <1>2, <1>3, <2>2 DEF Leave
  <2>3. CASE ~CheckReplicas(r) /\ ~Leave(r)
    BY <1>1, <1>4, <2>3 DEF Main, Join, Issue, DepositCommand, AddInterestCommand,
       GetSyncedBalanceCommand, CleanHistoryCommand, ExitCommand,
       Disconnect
  <2> QED  BY <2>1, <2>2, <2>3
<1>5. ASSUME NEW r \in Replica, Broadcaster(r) PROVE Goal
  <2>1. CASE InitialDelay(r)
    <3>1. timer[r] = "delay" /\ timer' = [timer EXCEPT ![r] = "on"]
      BY <2>1 DEF InitialDelay
    <3>2. CASE r # s
      BY <1>2, <3>1, <3>2
    <3>3. CASE r = s
      BY <1>3, <2>1, <3>1, <3>3
    <3> QED  BY <3>2, <3>3
  <2>2. CASE BroadcastRound(r) \/ BroadcastNext(r)
    BY <1>1, <2>2 DEF BroadcastRound, BroadcastNext
  <2> QED  BY <1>5, <2>1, <2>2 DEF Broadcaster
<1>6. ASSUME NEW r \in Replica, Listener(r) PROVE Goal
  <2>1. CASE ReceiveJoin(r)
    <3>1. Takes(r) /\ Head(inbox[r]).kind = "join"
      BY <2>1 DEF ReceiveJoin, Receiving, Takes
    <3>2. CASE UNCHANGED timer
      BY <1>1, <3>2
    <3>3. CASE Start(r) /\ Cardinality(Head(inbox[r]).members) >= numberOfReplicas[r]
      BY <1>0, <1>2, <1>3, <3>1, <3>3 DEF Start
    <3> QED  BY <2>1, <3>2, <3>3 DEF ReceiveJoin
  <2>2. CASE ~ReceiveJoin(r)
    BY <1>1, <1>6, <2>2 DEF Listener, ReceiveExecuted, ReceiveTransaction,
       ReceiveUpdateBalance, SendUpdateBalance, SendMissed, ReceiveLeft, process
  <2> QED  BY <2>1, <2>2
<1>7. ASSUME NEW r \in Replica, Crash(r) PROVE Goal
  BY <1>2, <1>3, <1>7 DEF Crash
<1>8. ASSUME NEW r \in Replica, Restart(r) PROVE Goal
  BY <1>1, <1>8 DEF Restart
<1>9. CASE UNCHANGED vars
  BY <1>1, <1>9 DEF vars, process
<1> QED  BY <1>4, <1>5, <1>6, <1>7, <1>8, <1>9 DEF Next

LEMMA OthersWaitedForStep ==
    ASSUME FixedGroup, TypeOK, MembersInGroup, OthersWaitedFor, [Next]_vars
    PROVE  OthersWaitedFor'
<1>0. \A r \in Replica : /\ inbox[r] \in Seq(Entry) /\ replicas[r] \in SUBSET Replica
                         /\ numberOfReplicas[r] \in Nat /\ ~Restart(r)
  BY NoRestarts DEF TypeOK, ProcessTypeOK, SpreadTypeOK, FixedGroup
<1>1. TypeOK' /\ MembersInGroup' /\ members' \in SUBSET Replica
  BY TypeStep, MembersStep DEF TypeOK, SpreadTypeOK
<1>2. HaveJoined(members)'
  BY <1>1 DEF TypeOK, SpreadTypeOK, MembersInGroup, InGroup, HaveJoined
<1>3. ASSUME NEW r \in Replica, Takes(r), Head(inbox[r]).kind \in {"join", "left"}
      PROVE  /\ Head(inbox[r]).members \in SUBSET Replica
             /\ HaveJoined(Head(inbox[r]).members)
  <2>1. inbox[r] # <<>> /\ Head(inbox[r]) \in Entry
    BY <1>3, HeadTypes DEF Takes
  <2>2. 1 \in 1 .. Len(inbox[r]) /\ inbox[r][1] = Head(inbox[r])
    BY <1>0, <2>1, EmptySeq
  <2> QED  BY <1>3, <2>1, <2>2, EntryTypes DEF OthersWaitedFor
<1>4. ASSUME NEW r \in Replica
      PROVE  numberOfReplicas'[r] >= NumberOfReplicas /\ HaveJoined(replicas[r])'
  <2>1. Cardinality(replicas[r]) <= numberOfReplicas[r]
    BY <1>0, GroupSizes DEF OthersWaitedFor, FixedGroup
  <2>2. ~(Cardinality(replicas[r]) > numberOfReplicas[r])
    BY <1>0, <2>1, GroupSizes
  <2>3. CASE replicas'[r] = replicas[r] /\ numberOfReplicas'[r] = numberOfReplicas[r]
    <3>1. HaveJoined(replicas[r])
      BY DEF OthersWaitedFor
    <3>2. \A s \in replicas[r] : phase'[s] # "start"
      BY <1>0, <3>1, JoinedForGood DEF HaveJoined
    <3> QED  BY <2>3, <3>2 DEF OthersWaitedFor, HaveJoined
  <2>4. CASE /\ Takes(r) /\ Head(inbox[r]).kind \in {"join", "left"}
             /\ replicas'[r] = Head(inbox[r]).members
             /\ numberOfReplicas'[r] = numberOfReplicas[r]
    <3>1. \A s \in Head(inbox[r]).members : phase'[s] # "start"
      BY <1>3, <2>4, JoinedForGood DEF HaveJoined
    <3> QED  BY <2>4, <3>1 DEF OthersWaitedFor, HaveJoined
  <2> QED  BY <1>0, <2>2, <2>3, <2>4, ViewSteps
<1>5. ASSUME NEW r \in Replica, NEW i \in 1 .. Len(inbox'[r]),
             inbox'[r][i].kind \in {"join", "left"}
      PROVE  \A s \in inbox'[r][i].members : phase'[s] # "start"
  <2>1. ASSUME NEW j \in 1 .. Len(inbox[r]), inbox[r][j] = inbox'[r][i]
        PROVE  \A s \in inbox'[r][i].members : phase'[s] # "start"
    <3>1. inbox[r][j] \in Entry
      BY <1>0, ElementOfSeq
    <3>2. HaveJoined(inbox[r][j].members) /\ inbox[r][j].members \in SUBSET Replica
      BY <1>5, <2>1, <3>1, EntryTypes DEF OthersWaitedFor
    <3> QED  BY <2>1, <3>2, JoinedForGood DEF HaveJoined
  <2>2. ASSUME NEW e \in Entry, inbox'[r] = Append(inbox[r], e),
               e.kind \in {"join", "left"} => \A s \in e.members : phase'[s] # "start"
        PROVE  \A s \in inbox'[r][i].members : phase'[s] # "start"
    <3>1. /\ Len(inbox[r]) \in Nat /\ Len(inbox'[r]) = Len(inbox[r]) + 1
          /\ inbox'[r][Len(inbox[r]) + 1] = e
          /\ \A k \in 1 .. Len(inbox[r]) : inbox'[r][k] = inbox[r][k]
      BY <1>0, <2>2, AppendProperties, LenProperties
    <3>2. CASE i \in 1 .. Len(inbox[r])
      BY <2>1, <3>1, <3>2
    <3>3. CASE i = Len(inbox[r]) + 1
      BY <1>5, <2>2, <3>1, <3>3
    <3> QED  BY <3>1, <3>2, <3>3
  <2>3. CASE inbox[r] # <<>> /\ inbox'[r] = Tail(inbox[r])
    <3>1. /\ Len(inbox[r]) \in Nat \ {0} /\ Len(inbox'[r]) = Len(inbox[r]) - 1
          /\ \A k \in 1 .. Len(inbox'[r]) : inbox'[r][k] = inbox[r][k + 1]
      BY <1>0, <2>3, EmptySeq, HeadTailProperties
    <3>2. i + 1 \in 1 .. Len(inbox[r]) /\ inbox'[r][i] = inbox[r][i + 1]
      BY <3>1
    <3> QED  BY <2>1, <3>2
  <2>4. /\ \A t \in Transaction : Regular(t) \in Entry /\ Regular(t).kind = "regular"
        /\ \A q \in Replica : /\ Joined(q, members') \in Entry
                              /\ Joined(q, members').members = members'
        /\ Left(members') \in Entry /\ Left(members').members = members'
        /\ Left({}) \in Entry /\ Left({}).members = {}
    <3>1. Left(members') \in Entry /\ Left({}) \in Entry
      BY <1>1, EntryTypes
    <3>2. \A q \in Replica : Joined(q, members') \in Entry
      BY <1>1, EntryTypes
    <3> QED  BY <3>1, <3>2, EntryTypes DEF Regular, Joined, Left
  <2>5. \A s \in members' : phase'[s] # "start"
    BY <1>2 DEF HaveJoined
  <2>6. inbox'[r] # <<>>
    BY EmptySeq
  <2> QED  BY <2>1, <2>2, <2>3, <2>4, <2>5, <2>6, InboxSteps DEF Takes
<1>6. ASSUME NEW r \in Replica, timer'[r] # "off"
      PROVE  HaveJoined(Replica)'
  <2>1. CASE HaveJoined(Replica)
    BY <2>1, JoinedForGood
  <2>2. CASE timer[r] # "off"
    BY <2>1, <2>2 DEF OthersWaitedFor
  <2>3. CASE Cardinality(replicas[r]) >= numberOfReplicas[r]
    <3>1. Cardinality(replicas[r]) >= Cardinality(Replica)
      BY <1>0, <2>3, GroupSizes, BankAssumption DEF OthersWaitedFor, FixedGroup
    <3>2. HaveJoined(replicas[r]) /\ replicas[r] = Replica
      BY <1>0, <3>1, WholeGroup DEF OthersWaitedFor
    <3> QED  BY <2>1, <3>2
  <2>4. CASE /\ Takes(r) /\ Head(inbox[r]).kind = "join"
             /\ Cardinality(Head(inbox[r]).members) >= numberOfReplicas[r]
    <3> DEFINE g == Head(inbox[r]).members
    <3>1. g \in SUBSET Replica /\ HaveJoined(g)
      BY <1>3, <2>4
    <3>2. Cardinality(g) >= numberOfReplicas[r]
      BY <2>4
    <3> HIDE DEF g
    <3>3. Cardinality(g) >= Cardinality(Replica)
      BY <1>0, <3>1, <3>2, GroupSizes, BankAssumption DEF OthersWaitedFor, FixedGroup
    <3>4. g = Replica
      BY <3>1, <3>3, WholeGroup
    <3> QED  BY <2>1, <3>1, <3>4
  <2> QED  BY <1>6, <2>2, <2>3, <2>4, TimerSteps
<1> QED  BY <1>4, <1>5, <1>6 DEF OthersWaitedFor, HaveJoined

-----------------------------------------------------------------------------
(***************************************************************************)
(* What a step does to the ledger and to the copies.                       *)
(***************************************************************************)
LEMMA SpreadSteps ==
    ASSUME TypeOK, [Next]_vars
    PROVE  \/ UNCHANGED <<spread, history>>
           \/ \E r \in Replica, t \in Transaction : Sends(r, t) /\ UNCHANGED client
           \/ \E r \in Replica : Join(r)
           \/ \E r \in Replica : Takes(r) /\ TakeNext(r)
           \/ \E r \in Replica : Leave(r) \/ Disconnect(r) \/ Crash(r)
<1> DEFINE Goal ==
           \/ UNCHANGED <<spread, history>>
           \/ \E r \in Replica, t \in Transaction : Sends(r, t) /\ UNCHANGED client
           \/ \E r \in Replica : Join(r)
           \/ \E r \in Replica : Takes(r) /\ TakeNext(r)
           \/ \E r \in Replica : Leave(r) \/ Disconnect(r) \/ Crash(r)
<1>1. ASSUME NEW r \in Replica, Main(r) PROVE Goal
  <2>1. CASE Join(r) \/ Leave(r) \/ Disconnect(r)
    BY <2>1
  <2>2. CASE ~(Join(r) \/ Leave(r) \/ Disconnect(r))
    <3>1. UNCHANGED <<spread, history>>
      BY <1>1, <2>2 DEF Main, CheckReplicas, Issue, DepositCommand, AddInterestCommand,
         GetSyncedBalanceCommand, CleanHistoryCommand, ExitCommand
    <3> QED  BY <3>1
  <2> QED  BY <2>1, <2>2
<1>2. ASSUME NEW r \in Replica, Broadcaster(r) PROVE Goal
  <2>1. CASE BroadcastNext(r)
    <3>1. Head(batch[r]) \in Transaction
      BY <2>1, HeadTailProperties DEF BroadcastNext, TypeOK, ProcessTypeOK
    <3>2. Sends(r, Head(batch[r])) /\ UNCHANGED client
      BY <2>1 DEF BroadcastNext, Sends
    <3> QED  BY <3>1, <3>2
  <2>2. CASE InitialDelay(r) \/ BroadcastRound(r)
    BY <2>2 DEF InitialDelay, BroadcastRound
  <2> QED  BY <1>2, <2>1, <2>2 DEF Broadcaster
<1>3. ASSUME NEW r \in Replica, Listener(r) PROVE Goal
  <2>1. CASE SendUpdateBalance(r) \/ SendMissed(r)
    <3>1. callback[r] # <<>> /\ callback[r] \in Seq(Transaction)
      BY <2>1 DEF SendUpdateBalance, SendMissed, TypeOK, ProcessTypeOK
    <3>2. Head(callback[r]) \in Transaction
      BY <3>1, HeadTailProperties
    <3>3. Multicast(Head(callback[r])) /\ UNCHANGED client
      BY <2>1 DEF SendUpdateBalance, SendMissed
    <3>4. Sends(r, Head(callback[r]))
      BY <2>1, <3>1, <3>3 DEF Sends
    <3> QED  BY <3>2, <3>3, <3>4
  <2>2. CASE ~(SendUpdateBalance(r) \/ SendMissed(r))
    <3>1. TakeNext(r)
      BY <1>3, <2>2 DEF Listener, ReceiveExecuted, ReceiveTransaction,
         ReceiveUpdateBalance, ReceiveJoin, ReceiveLeft
    <3>2. Takes(r)
      BY <1>3, <2>2 DEF Listener, ReceiveExecuted, ReceiveTransaction,
         ReceiveUpdateBalance, ReceiveJoin, ReceiveLeft, Receiving, Takes
    <3> QED  BY <3>1, <3>2
  <2> QED  BY <2>1, <2>2
<1>4. ASSUME NEW r \in Replica, Restart(r) PROVE Goal
  BY <1>4 DEF Restart
<1>5. CASE UNCHANGED vars
  BY <1>5 DEF vars
<1> QED  BY <1>1, <1>2, <1>3, <1>4, <1>5 DEF Next

\* A copy changes only by what the listener takes.
LEMMA CopySteps ==
    ASSUME FixedGroup, TypeOK, [Next]_vars, NEW s \in Replica
    PROVE  Copy(client'[s]) = Copy(client[s]) \/ (Takes(s) /\ TakeNext(s))
<1>1. CASE ReceiveUpdateBalance(s) \/ ReceiveTransaction(s)
  BY <1>1 DEF ReceiveUpdateBalance, ReceiveTransaction, Receiving, Takes
<1>2. ASSUME NEW t \in Transaction, Issued(s, t)
      PROVE  Copy(client'[s]) = Copy(client[s])
  <2>1. client[s] \in ClientState
    BY DEF TypeOK, ProcessTypeOK
  <2> QED  BY <1>2, <2>1 DEF Issued, AddOutstandingCollection, Copy, ClientState
<1>3. ~CleanHistoryCommand(s) /\ ~Restart(s)
  BY NoRestarts DEF FixedGroup, CleanHistoryCommand
<1> QED  BY <1>1, <1>2, <1>3, ClientSteps

\* Executing what is taken is what the serial account does.
LEMMA ExecuteApplies ==
    ASSUME NEW c \in ClientState, NEW t \in Transaction,
           ~AlreadyExecuted(c.executedList, t), t.type # "UPDATE_BALANCE"
    PROVE  Copy(Execute(c, t)) = Apply(Copy(c), t)
<1>1. CASE t.type = "DEPOSIT"
  BY <1>1 DEF Execute, Deposit, Copy, Apply, IsChange, NewBalance, ClientState
<1>2. CASE t.type = "INTEREST"
  BY <1>2 DEF Execute, AddInterest, Copy, Apply, IsChange, NewBalance, ClientState
<1>3. CASE t.type = "SYNCED_BALANCE"
  BY <1>3 DEF Execute, GetSyncedBalance, Copy, Apply, IsChange, ClientState
<1> QED  BY <1>1, <1>2, <1>3 DEF Transaction, TransactionType

\* Nobody is told a balance that it does not have already.
Untold(r) ==
    inbox[r] # <<>> /\ Head(inbox[r]).kind = "regular"
        /\ Head(inbox[r]).tx.type = "UPDATE_BALANCE"
            => Head(inbox[r]).tx.balance = client[r].balance

LEMMA CopyTaken ==
    ASSUME TypeOK, NEW s \in Replica, Takes(s), Untold(s)
    PROVE  Copy(client'[s]) = Effect(Copy(client[s]), Head(inbox[s]))
<1>0. /\ client \in [Replica -> ClientState] /\ client[s] \in ClientState
      /\ inbox[s] # <<>> /\ Head(inbox[s]) \in Entry
  BY HeadTypes DEF TypeOK, ProcessTypeOK, Takes
<1>1. CASE Head(inbox[s]).kind = "regular"
  <2> DEFINE t == Head(inbox[s]).tx
  <2>1. t \in Transaction
    BY <1>0, <1>1, EntryTypes
  <2>2. CASE ReceiveExecuted(s)
    <3>1. AlreadyExecuted(client[s].executedList, t) /\ client' = client
      BY <2>2 DEF ReceiveExecuted, process
    <3> QED  BY <1>1, <3>1 DEF Effect, Apply, Copy
  <2>3. CASE ReceiveTransaction(s)
    <3>1. /\ ~AlreadyExecuted(client[s].executedList, t) /\ t.type # "UPDATE_BALANCE"
          /\ client'[s] = Execute(client[s], t)
      BY <1>0, <2>3 DEF ReceiveTransaction
    <3> HIDE DEF t
    <3>2. Copy(client'[s]) = Apply(Copy(client[s]), t)
      BY <1>0, <2>1, <3>1, ExecuteApplies
    <3> QED  BY <1>1, <3>2 DEF Effect, t
  <2>4. CASE ReceiveUpdateBalance(s)
    <3>1. t.type = "UPDATE_BALANCE" /\ t.balance = client[s].balance
      BY <1>0, <1>1, <2>4 DEF ReceiveUpdateBalance, Untold
    <3>2. client'[s] \in {client[s], SetBalance(client[s], t.balance)}
      BY <1>0, <2>4 DEF ReceiveUpdateBalance
    <3>3. Copy(SetBalance(client[s], client[s].balance)) = Copy(client[s])
      BY <1>0 DEF SetBalance, Copy, ClientState
    <3>4. Effect(Copy(client[s]), Head(inbox[s])) = Copy(client[s])
      BY <1>1, <3>1 DEF Effect, Apply, IsChange
    <3> QED  BY <3>1, <3>2, <3>3, <3>4
  <2> QED  BY <1>1, <2>2, <2>3, <2>4 DEF Takes
<1>2. CASE Head(inbox[s]).kind # "regular"
  <2>1. client' = client
    BY <1>2 DEF Takes, ReceiveJoin, ReceiveLeft
  <2> QED  BY <1>2, <2>1 DEF Effect
<1> QED  BY <1>1, <1>2

-----------------------------------------------------------------------------
(***************************************************************************)
(* The stages follow each other.                                           *)
(***************************************************************************)
LEMMA SentInRound ==
    ASSUME OrderInv, NobodyJoins, NEW r \in Replica, NEW t \in Transaction, Sends(r, t)
    PROVE  /\ BroadcastNext(r) /\ Contains(batch[r], t)
           /\ Own(r, t)
<1>1. callback[r] = <<>> /\ batch[r] \in Seq(Transaction)
  BY DEF NobodyJoins, OrderInv, TypeOK, ProcessTypeOK
<1>2. BroadcastNext(r) /\ batch[r] # <<>> /\ t = Head(batch[r])
  BY <1>1 DEF Sends
<1>3. Contains(batch[r], t)
  BY <1>1, <1>2, ContainsTail
<1> QED  BY <1>2, <1>3 DEF OrderInv, OwnTransactions

LEMMA SentAtStart ==
    ASSUME TypeOK, NothingExecuted, NEW r \in Replica, NEW t \in Transaction, Sends(r, t)
    PROVE  Idle(t) /\ UNCHANGED ledger
<1>1. batch[r] = <<>> /\ callback[r] \in Seq(Transaction)
  BY DEF NothingExecuted, TypeOK, ProcessTypeOK
<1>2. callback[r] # <<>> /\ t = Head(callback[r])
  BY <1>1 DEF Sends
<1>3. Idle(t)
  BY <1>1, <1>2, ContainsTail DEF NothingExecuted
<1>4. Apply(Latest, t) = Latest
  BY <1>3 DEF Idle, Apply, IsChange
<1> QED  BY <1>3, <1>4 DEF Sends, Multicast

LEMMA UntoldInStages ==
    ASSUME TypeOK, NothingExecuted \/ NobodyJoins, NEW r \in Replica
    PROVE  Untold(r)
<1> SUFFICES ASSUME inbox[r] # <<>>, Head(inbox[r]).kind = "regular",
                    Head(inbox[r]).tx.type = "UPDATE_BALANCE"
             PROVE  Head(inbox[r]).tx.balance = client[r].balance
  BY DEF Untold
<1> DEFINE t == Head(inbox[r]).tx
<1>1. inbox[r] \in Seq(Entry) /\ Head(inbox[r]) \in Entry
  BY HeadTypes DEF TypeOK, SpreadTypeOK
<1>2. t \in Transaction /\ Head(inbox[r]) = Regular(t)
  BY <1>1 DEF Entry, Regular
<1>3. CASE NothingExecuted
  <2>1. Contains(inbox[r], Regular(t))
    BY <1>1, <1>2, ContainsTail
  <2>2. Idle(t) /\ Copy(client[r]) = EmptyAccount
    BY <1>2, <1>3, <2>1 DEF NothingExecuted
  <2> QED  BY <2>2 DEF Idle, Copy, EmptyAccount
<1>4. CASE NobodyJoins
  <2>1. 1 \in 1 .. Len(inbox[r]) /\ inbox[r][1] = Head(inbox[r])
    BY <1>1, EmptySeq
  <2> QED  BY <1>4, <2>1 DEF NobodyJoins, StartTraffic
<1> QED  BY <1>3, <1>4

LEMMA NobodyJoinsStep ==
    ASSUME FixedGroup, OrderInv, NobodyJoins, [Next]_vars
    PROVE  NobodyJoins'
<1>0. /\ TypeOK /\ TypeOK' /\ members' \in SUBSET Replica
      /\ \A r \in Replica : inbox[r] \in Seq(Entry) /\ ~Restart(r) /\ ~Join(r)
  BY TypeStep, NoRestarts
     DEF OrderInv, TypeOK, SpreadTypeOK, FixedGroup, Join, NobodyJoins, HaveJoined
<1>1. HaveJoined(Replica)'
  BY <1>0, JoinedForGood DEF NobodyJoins
<1>2. ASSUME NEW r \in Replica PROVE callback'[r] = <<>>
  <2>1. callback[r] = <<>>
    BY DEF NobodyJoins
  <2>2. ~ReceiveJoin(r)
    <3>1. SUFFICES ASSUME inbox[r] # <<>>, Head(inbox[r]).kind = "join" PROVE FALSE
      BY DEF ReceiveJoin, Receiving
    <3>2. 1 \in 1 .. Len(inbox[r]) /\ inbox[r][1] = Head(inbox[r])
      BY <1>0, <3>1, EmptySeq
    <3> QED  BY <3>1, <3>2 DEF NobodyJoins, StartTraffic
  <2> QED  BY <1>0, <2>1, <2>2, CallbackSteps
<1>3. ASSUME NEW r \in Replica, NEW i \in 1 .. Len(inbox'[r])
      PROVE  ~StartTraffic(inbox'[r][i])
  <2>1. \A j \in 1 .. Len(inbox[r]) : ~StartTraffic(inbox[r][j])
    BY DEF NobodyJoins
  <2>2. ASSUME NEW e \in Entry, inbox'[r] = Append(inbox[r], e), ~StartTraffic(e)
        PROVE  ~StartTraffic(inbox'[r][i])
    <3>1. /\ Len(inbox[r]) \in Nat /\ Len(inbox'[r]) = Len(inbox[r]) + 1
          /\ inbox'[r][Len(inbox[r]) + 1] = e
          /\ \A k \in 1 .. Len(inbox[r]) : inbox'[r][k] = inbox[r][k]
      BY <1>0, <2>2, AppendProperties, LenProperties
    <3> QED  BY <2>1, <2>2, <3>1
  <2>3. CASE inbox[r] # <<>> /\ inbox'[r] = Tail(inbox[r])
    <3>1. /\ Len(inbox[r]) \in Nat \ {0} /\ Len(inbox'[r]) = Len(inbox[r]) - 1
          /\ \A k \in 1 .. Len(inbox'[r]) : inbox'[r][k] = inbox[r][k + 1]
      BY <1>0, <2>3, EmptySeq, HeadTailProperties
    <3>2. i + 1 \in 1 .. Len(inbox[r]) /\ inbox'[r][i] = inbox[r][i + 1]
      BY <3>1
    <3> QED  BY <2>1, <3>2
  <2>4. ASSUME NEW q \in Replica, NEW t \in Transaction, Sends(q, t)
        PROVE  Regular(t) \in Entry /\ ~StartTraffic(Regular(t))
    <3>1. t.type # "UPDATE_BALANCE"
      BY <2>4, SentInRound DEF Own
    <3> QED  BY <3>1, EntryTypes DEF StartTraffic, Regular
  <2>5. \A g \in SUBSET Replica : Left(g) \in Entry /\ ~StartTraffic(Left(g))
    BY EntryTypes DEF StartTraffic, Left
  <2>6. inbox'[r] # <<>>
    BY EmptySeq
  <2> QED  BY <1>0, <2>1, <2>2, <2>3, <2>4, <2>5, <2>6, InboxSteps DEF Takes
<1> QED  BY <1>1, <1>2, <1>3 DEF NobodyJoins, StartTraffic

\* The first round may start once the traffic of the start is over.
LEMMA DelayOver ==
    ASSUME FixedGroup, TypeOK, OthersWaitedFor, NEW r \in Replica, InitialDelay(r)
    PROVE  NobodyJoins'
<1>0. \A s \in Replica : inbox[s] \in Seq(Entry)
  BY DEF TypeOK, SpreadTypeOK
<1>1. StartupSettled /\ HaveJoined(Replica)
  BY DEF InitialDelay, FixedGroup, OthersWaitedFor
<1>2. UNCHANGED <<phase, callback, inbox>>
  BY DEF InitialDelay, spread
<1>3. NobodyJoins
  BY <1>0, <1>1, LenProperties DEF NobodyJoins, StartupSettled
<1> QED  BY <1>2, <1>3 DEF NobodyJoins, HaveJoined, StartTraffic

LEMMA NothingExecutedStep ==
    ASSUME FixedGroup, TypeOK, NothingExecuted, [Next]_vars,
           \A r \in Replica : ~InitialDelay(r)
    PROVE  NothingExecuted'
<1>0. /\ members' \in SUBSET Replica
      /\ \A r \in Replica : /\ inbox[r] \in Seq(Entry) /\ callback[r] \in Seq(Transaction)
                            /\ client[r].executedList = <<>> /\ client[r].balance = 0
  BY TypeStep DEF TypeOK, ProcessTypeOK, SpreadTypeOK, NothingExecuted, Copy, EmptyAccount
<1>1. ledger' = <<EmptyAccount>>
  <2>1. CASE \E r \in Replica, t \in Transaction : Sends(r, t)
    BY <2>1, SentAtStart DEF NothingExecuted
  <2>2. CASE UNCHANGED ledger
    BY <2>2 DEF NothingExecuted
  <2>3. CASE \E r \in Replica : Join(r) \/ TakeNext(r) \/ Leave(r) \/ Disconnect(r) \/ Crash(r)
    BY <2>2, <2>3 DEF Join, Announce, TakeNext, Leave, Disconnect, Crash
  <2> QED  BY <2>1, <2>2, <2>3, SpreadSteps DEF history
<1>2. ASSUME NEW r \in Replica
      PROVE  timer'[r] # "on" /\ batch'[r] = <<>>
  <2>1. timer[r] # "on" /\ batch[r] = <<>>
    BY DEF NothingExecuted
  <2> QED  BY <2>1, TimerSteps, BatchSteps DEF BroadcastRound
<1>3. ASSUME NEW r \in Replica
      PROVE  Copy(client'[r]) = EmptyAccount
  <2>1. Copy(client[r]) = EmptyAccount
    BY DEF NothingExecuted
  <2>2. ASSUME Takes(r) PROVE Copy(client'[r]) = EmptyAccount
    <3>1. Copy(client'[r]) = Effect(Copy(client[r]), Head(inbox[r]))
      BY <2>2, CopyTaken, UntoldInStages
    <3>2. inbox[r] # <<>> /\ Head(inbox[r]) \in Entry
      BY <2>2, HeadTypes DEF Takes
    <3>3. CASE Head(inbox[r]).kind = "regular"
      <4> DEFINE t == Head(inbox[r]).tx
      <4>1. t \in Transaction /\ Head(inbox[r]) = Regular(t)
        BY <3>2, <3>3 DEF Entry, Regular
      <4>2. Contains(inbox[r], Regular(t))
        BY <1>0, <3>2, <4>1, ContainsTail
      <4>3. Idle(t)
        BY <4>1, <4>2 DEF NothingExecuted
      <4>4. Apply(Copy(client[r]), t) = Copy(client[r])
        BY <4>3 DEF Idle, Apply, IsChange
      <4> QED  BY <2>1, <3>1, <3>3, <4>4 DEF Effect
    <3>4. CASE Head(inbox[r]).kind # "regular"
      BY <2>1, <3>1, <3>4 DEF Effect
    <3> QED  BY <3>3, <3>4
  <2> QED  BY <2>1, <2>2, CopySteps
<1>4. ASSUME NEW r \in Replica, NEW t \in Transaction, Contains(callback'[r], t)
      PROVE  Idle(t)
  <2> DEFINE u == NewTransaction(r, client[r], "UPDATE_BALANCE", client[r].balance, 0)
  <2>1. Contains(callback[r], t) => Idle(t)
    BY DEF NothingExecuted
  <2>2. Idle(u)
    BY <1>0 DEF Idle, NewTransaction
  <2> HIDE DEF u
  <2>3. CASE callback'[r] = <<u>>
    BY <1>4, <2>2, <2>3, ContainsOne
  <2> QED  BY <1>0, <1>4, <2>1, <2>3, CallbackSteps, ContainsTail, ContainsEmpty DEF u
<1>5. ASSUME NEW r \in Replica, NEW t \in Transaction, Contains(inbox'[r], Regular(t))
      PROVE  Idle(t)
  <2>1. Contains(inbox[r], Regular(t)) => Idle(t)
    BY DEF NothingExecuted
  <2>2. ASSUME NEW e \in Entry, inbox'[r] = Append(inbox[r], e), e = Regular(t) => Idle(t)
        PROVE  Idle(t)
    BY <1>0, <1>5, <2>1, <2>2, ContainsAppend
  <2>3. ASSUME NEW q \in Replica, NEW u \in Transaction, Sends(q, u)
        PROVE  Regular(u) \in Entry /\ (Regular(u) = Regular(t) => Idle(t))
    BY <2>3, SentAtStart, EntriesApart, EntryTypes
  <2>4. \A q \in Replica, g \in SUBSET Replica :
            /\ Joined(q, g) \in Entry /\ Joined(q, g) # Regular(t)
            /\ Left(g) \in Entry /\ Left(g) # Regular(t)
    BY EntriesApart, EntryTypes
  <2>5. CASE inbox[r] # <<>> /\ inbox'[r] = Tail(inbox[r])
    BY <1>0, <1>5, <2>1, <2>5, ContainsTail
  <2> QED  BY <1>0, <1>5, <2>1, <2>2, <2>3, <2>4, <2>5, InboxSteps, ContainsEmpty DEF Takes
<1> QED  BY <1>1, <1>2, <1>3, <1>4, <1>5 DEF NothingExecuted, Idle

-----------------------------------------------------------------------------
(***************************************************************************)
(* The way through the ledger.                                             *)
(***************************************************************************)
LEMMA WalkStops ==
    ASSUME NEW a, NEW box, NEW tr, NEW l, NEW p, Walks(a, box, tr, l, p)
    PROVE  Walks(a, <<>>, <<>>, l, p)
BY DEF Walks

LEMMA WalkTail ==
    ASSUME NEW a, NEW l, NEW p \in Nat, NEW box \in Seq(Entry), NEW tr \in Seq(Nat),
           Len(tr) = Len(box), box # <<>>, Walks(a, box, tr, l, p)
    PROVE  /\ tr[1] \in {p, p + 1} /\ tr[1] \in 1 .. Len(l)
           /\ Walks(Effect(a, Head(box)), Tail(box), Tail(tr), l, tr[1])
           /\ Place(Tail(tr), tr[1], Len(Tail(box))) = Place(tr, p, Len(box))
<1> DEFINE b == Tail(box)
           t == Tail(tr)
<1>1. /\ Len(box) \in Nat \ {0} /\ box[1] = Head(box) /\ tr # <<>>
      /\ Len(b) = Len(box) - 1 /\ \A i \in 1 .. Len(b) : b[i] = box[i + 1]
  BY EmptySeq, HeadTailProperties
<1>2. Len(t) = Len(tr) - 1 /\ \A i \in 1 .. Len(t) : t[i] = tr[i + 1]
  BY <1>1, EmptySeq, HeadTailProperties
<1> HIDE DEF b, t
<1>3. /\ Place(tr, p, 1) = tr[1] /\ Place(tr, p, 1 - 1) = p /\ 1 \in 1 .. Len(box)
  BY <1>1 DEF Place
<1>4. tr[1] \in {p, p + 1} /\ tr[1] \in 1 .. Len(l) /\ l[tr[1]] = Effect(a, Head(box))
  BY <1>1, <1>3 DEF Walks
<1>5. \A i \in 0 .. Len(b) : Place(t, tr[1], i) = Place(tr, p, i + 1)
  BY <1>1, <1>2 DEF Place
<1>6. ASSUME NEW i \in 1 .. Len(b)
      PROVE  /\ Place(t, tr[1], i) \in 1 .. Len(l)
             /\ Place(t, tr[1], i) \in {Place(t, tr[1], i - 1), Place(t, tr[1], i - 1) + 1}
             /\ l[Place(t, tr[1], i)] = Effect(l[Place(t, tr[1], i - 1)], b[i])
  <2>1. /\ i + 1 \in 1 .. Len(box) /\ (i + 1) - 1 = (i - 1) + 1
        /\ i \in 0 .. Len(b) /\ i - 1 \in 0 .. Len(b)
    BY <1>1
  <2>2. /\ Place(t, tr[1], i) = Place(tr, p, i + 1)
        /\ Place(t, tr[1], i - 1) = Place(tr, p, (i + 1) - 1)
        /\ b[i] = box[i + 1]
    BY <1>1, <1>5, <2>1
  <2> QED  BY <2>1, <2>2 DEF Walks
<1>7. Walks(Effect(a, Head(box)), b, t, l, tr[1])
  BY <1>4, <1>6 DEF Walks
<1>8. Place(t, tr[1], Len(b)) = Place(tr, p, Len(box))
  BY <1>1, <1>5
<1> QED  BY <1>4, <1>7, <1>8 DEF b, t

\* What is ordered later does not change the way so far.
LEMMA WalkLonger ==
    ASSUME NEW S, NEW l \in Seq(S), NEW x \in S, NEW a, NEW p, NEW box, NEW tr,
           Walks(a, box, tr, l, p)
    PROVE  Walks(a, box, tr, Append(l, x), p)
<1> DEFINE m == Append(l, x)
<1>1. /\ Len(l) \in Nat /\ Len(m) = Len(l) + 1
      /\ \A k \in 1 .. Len(l) : m[k] = l[k] /\ k \in 1 .. Len(m)
  BY AppendProperties, LenProperties
<1> HIDE DEF m
<1>2. p \in 1 .. Len(m) /\ a = m[p]
  BY <1>1 DEF Walks
<1>3. ASSUME NEW i \in 1 .. Len(box)
      PROVE  /\ Place(tr, p, i) \in 1 .. Len(m)
             /\ Place(tr, p, i) \in {Place(tr, p, i - 1), Place(tr, p, i - 1) + 1}
             /\ m[Place(tr, p, i)] = Effect(m[Place(tr, p, i - 1)], box[i])
  <2>1. Place(tr, p, i - 1) \in 1 .. Len(l)
    <3>1. CASE i = 1
      BY <3>1 DEF Walks, Place
    <3>2. CASE i # 1
      <4>1. i - 1 \in 1 .. Len(box)
        BY <3>2
      <4> QED  BY <4>1 DEF Walks
    <3> QED  BY <3>1, <3>2
  <2>2. /\ Place(tr, p, i) \in 1 .. Len(l)
        /\ Place(tr, p, i) \in {Place(tr, p, i - 1), Place(tr, p, i - 1) + 1}
        /\ l[Place(tr, p, i)] = Effect(l[Place(tr, p, i - 1)], box[i])
    BY DEF Walks
  <2> QED  BY <1>1, <2>1, <2>2
<1> QED  BY <1>2, <1>3 DEF Walks, m

\* The entry e leads from the end of the way to the account number n.
Leads(a, box, tr, l, p, e, n) ==
    /\ p \in Nat /\ box \in Seq(Entry) /\ tr \in Seq(Nat) /\ Len(tr) = Len(box)
    /\ Walks(a, box, tr, l, p)
    /\ e \in Entry /\ n \in Nat /\ n \in 1 .. Len(l)
    /\ n \in {Place(tr, p, Len(box)), Place(tr, p, Len(box)) + 1}
    /\ l[n] = Effect(l[Place(tr, p, Len(box))], e)

LEMMA WalkAppend ==
    ASSUME NEW a, NEW l, NEW p, NEW box, NEW tr, NEW e, NEW n,
           Leads(a, box, tr, l, p, e, n)
    PROVE  /\ Walks(a, Append(box, e), Append(tr, n), l, p)
           /\ Place(Append(tr, n), p, Len(Append(box, e))) = n
<1> USE DEF Leads
<1> DEFINE b == Append(box, e)
           t == Append(tr, n)
<1>1. /\ Len(box) \in Nat /\ Len(b) = Len(box) + 1 /\ b[Len(box) + 1] = e
      /\ \A i \in 1 .. Len(box) : b[i] = box[i]
  BY AppendProperties, LenProperties
<1>2. t[Len(box) + 1] = n /\ \A i \in 1 .. Len(box) : t[i] = tr[i]
  BY AppendProperties, LenProperties
<1> HIDE DEF b, t
<1>3. /\ \A i \in 0 .. Len(box) : Place(t, p, i) = Place(tr, p, i)
      /\ Place(t, p, Len(box) + 1) = n
  BY <1>1, <1>2 DEF Place
<1>4. ASSUME NEW i \in 1 .. Len(b)
      PROVE  /\ Place(t, p, i) \in 1 .. Len(l)
             /\ Place(t, p, i) \in {Place(t, p, i - 1), Place(t, p, i - 1) + 1}
             /\ l[Place(t, p, i)] = Effect(l[Place(t, p, i - 1)], b[i])
  <2>1. CASE i \in 1 .. Len(box)
    <3>1. i \in 0 .. Len(box) /\ i - 1 \in 0 .. Len(box)
      BY <1>1, <2>1
    <3> QED  BY <1>1, <1>3, <2>1, <3>1 DEF Walks
  <2>2. CASE i = Len(box) + 1
    <3>1. i - 1 = Len(box) /\ i - 1 \in 0 .. Len(box)
      BY <1>1, <2>2
    <3> QED  BY <1>1, <1>3, <2>2, <3>1
  <2> QED  BY <1>1, <2>1, <2>2
<1> QED  BY <1>1, <1>3, <1>4 DEF Walks, b, t

\* One way through the ledger, for one replica.
OnWay(r, p) ==
    /\ Walks(Copy(client[r]), inbox[r], trail[r], ledger, p)
    /\ r \in members => Place(trail[r], p, Len(inbox[r])) = Len(ledger)

LEMMA OnWayTypes ==
    ASSUME TypeOK, NEW r \in Replica
    PROVE  /\ inbox[r] \in Seq(Entry) /\ trail[r] \in Seq(Nat)
           /\ Len(trail[r]) = Len(inbox[r]) /\ Len(inbox[r]) \in Nat
           /\ ledger \in Seq(AccountState) /\ Len(ledger) \in Nat \ {0}
BY EmptySeq, LenProperties DEF TypeOK, SpreadTypeOK

LEMMA WaySent ==
    ASSUME TypeOK, NEW r \in Replica, NEW t \in Transaction, Multicast(t),
           Copy(client'[r]) = Copy(client[r]), NEW p \in 1 .. Len(ledger), OnWay(r, p)
    PROVE  OnWay(r, p)' /\ p \in 1 .. Len(ledger')
<1>0. /\ inbox[r] \in Seq(Entry) /\ trail[r] \in Seq(Nat)
      /\ Len(trail[r]) = Len(inbox[r]) /\ ledger \in Seq(AccountState)
      /\ Len(ledger) \in Nat \ {0} /\ Latest \in AccountState
      /\ Apply(Latest, t) \in AccountState
  BY OnWayTypes, LatestType, ApplyType DEF TypeOK
<1> DEFINE a == Copy(client[r])
           l == ledger'
           n == Len(l)
<1>1. /\ n \in {Len(ledger), Len(ledger) + 1} /\ l[n] = Apply(Latest, t)
      /\ l[Len(ledger)] = Latest
      /\ Walks(a, inbox[r], trail[r], l, p)
  <2>1. Walks(a, inbox[r], trail[r], ledger, p)
    BY DEF OnWay
  <2>2. CASE l = ledger /\ Apply(Latest, t) = Latest
    BY <2>1, <2>2 DEF Latest
  <2>3. CASE l = Append(ledger, Apply(Latest, t))
    <3> DEFINE x == Apply(Latest, t)
    <3>1. /\ Len(l) = Len(ledger) + 1 /\ l[Len(ledger) + 1] = x
          /\ l[Len(ledger)] = Latest
      <4> HIDE DEF x
      <4>1. \A k \in 1 .. Len(ledger) : l[k] = ledger[k]
        BY <1>0, <2>3, AppendProperties DEF x
      <4> QED  BY <1>0, <2>3, <4>1, AppendProperties DEF x, Latest
    <3>2. Walks(a, inbox[r], trail[r], l, p)
      BY <1>0, <2>1, <2>3, WalkLonger
    <3> QED  BY <3>1, <3>2
  <2> QED  BY <2>2, <2>3 DEF Multicast
<1>2. p \in 1 .. n
  BY <1>0, <1>1
<1>3. CASE r \in members
  <2>1. /\ inbox'[r] = Append(inbox[r], Regular(t)) /\ trail'[r] = Append(trail[r], n)
        /\ members' = members
    BY <1>3 DEF Multicast
  <2>2. Place(trail[r], p, Len(inbox[r])) = Len(ledger)
    BY <1>3 DEF OnWay
  <2>3. l[n] = Effect(l[Len(ledger)], Regular(t)) /\ Regular(t) \in Entry
    BY <1>1, EntryTypes DEF Effect, Regular
  <2> HIDE DEF a, l
  <2>4. /\ n \in {Place(trail[r], p, Len(inbox[r])), Place(trail[r], p, Len(inbox[r])) + 1}
        /\ n \in Nat /\ n \in 1 .. Len(l) /\ p \in Nat
    BY <1>0, <1>1, <1>2, <2>2
  <2>5. l[n] = Effect(l[Place(trail[r], p, Len(inbox[r]))], Regular(t))
    BY <2>2, <2>3
  <2> HIDE DEF n
  <2>0. Walks(a, inbox[r], trail[r], l, p) /\ p \in Nat
    BY <1>1, <2>4
  <2>6. /\ Walks(a, Append(inbox[r], Regular(t)), Append(trail[r], n), l, p)
        /\ Place(Append(trail[r], n), p, Len(Append(inbox[r], Regular(t)))) = n
    <3>1. Leads(a, inbox[r], trail[r], l, p, Regular(t), n)
      BY <1>0, <2>0, <2>3, <2>4, <2>5 DEF Leads
    <3> QED  BY <3>1, WalkAppend
  <2> QED  BY <1>2, <2>1, <2>6 DEF OnWay, a, n, l
<1>4. CASE r \notin members
  <2>1. inbox'[r] = inbox[r] /\ trail'[r] = trail[r] /\ members' = members
    BY <1>4 DEF Multicast
  <2> QED  BY <1>1, <1>2, <1>4, <2>1 DEF OnWay
<1> QED  BY <1>3, <1>4

\* A change of the membership.
LEMMA WayTold ==
    ASSUME TypeOK, NEW r \in Replica, UNCHANGED ledger,
           Copy(client'[r]) = Copy(client[r]), NEW p \in 1 .. Len(ledger), OnWay(r, p),
           NEW e \in Entry, e.kind # "regular",
           r \in members \/ Len(ledger) = 1,
           inbox'[r] = Append(inbox[r], e), trail'[r] = Append(trail[r], Len(ledger))
    PROVE  OnWay(r, p)'
<1> DEFINE a == Copy(client[r])
           n == Len(ledger)
           q == Place(trail[r], p, Len(inbox[r]))
<1>0. /\ inbox[r] \in Seq(Entry) /\ trail[r] \in Seq(Nat)
      /\ Len(trail[r]) = Len(inbox[r]) /\ n \in Nat \ {0} /\ Len(inbox[r]) \in Nat
      /\ Walks(a, inbox[r], trail[r], ledger, p)
  BY OnWayTypes DEF OnWay
<1>1. q \in 1 .. n
  <2>1. CASE Len(inbox[r]) = 0
    BY <2>1 DEF Place
  <2>2. CASE Len(inbox[r]) # 0
    <3>1. Len(inbox[r]) \in 1 .. Len(inbox[r])
      BY <1>0, <2>2
    <3> QED  BY <1>0, <3>1 DEF Walks
  <2> QED  BY <2>1, <2>2
<1>2. q = n
  <2>1. CASE r \in members
    BY <2>1 DEF OnWay
  <2>2. CASE n = 1
    BY <1>1, <2>2
  <2> QED  BY <2>1, <2>2
<1>3. ledger[n] = Effect(ledger[n], e) /\ p \in Nat /\ n \in 1 .. n
  BY <1>0 DEF Effect
<1> HIDE DEF a, n, q
<1>4. /\ n \in Nat /\ n \in {q, q + 1} /\ n \in 1 .. Len(ledger)
      /\ ledger[n] = Effect(ledger[q], e)
  BY <1>0, <1>2, <1>3 DEF n
<1>5. /\ Walks(a, Append(inbox[r], e), Append(trail[r], n), ledger, p)
      /\ Place(Append(trail[r], n), p, Len(Append(inbox[r], e))) = n
  <2>1. Leads(a, inbox[r], trail[r], ledger, p, e, n)
    BY <1>0, <1>3, <1>4 DEF Leads, q
  <2> QED  BY <2>1, WalkAppend
<1> QED  BY <1>5 DEF OnWay, a, n

LEMMA OnLedgerStep ==
    ASSUME FixedGroup, TypeOK, MembersInGroup, NothingExecuted \/ NobodyJoins, OnLedger,
           [Next]_vars
    PROVE  OnLedger'
<1> SUFFICES ASSUME NEW s \in Replica
             PROVE  \E p \in 1 .. Len(ledger') : OnWay(s, p)'
  BY DEF OnLedger, OnWay
<1>0. /\ inbox \in [Replica -> Seq(Entry)] /\ trail \in [Replica -> Seq(Nat)]
      /\ inbox[s] \in Seq(Entry) /\ trail[s] \in Seq(Nat) /\ members' \in SUBSET Replica
      /\ Len(trail[s]) = Len(inbox[s]) /\ Len(ledger) \in Nat \ {0}
  BY OnWayTypes, TypeStep DEF TypeOK, SpreadTypeOK
<1>1. PICK p \in 1 .. Len(ledger) : OnWay(s, p)
  BY DEF OnLedger, OnWay
<1>2. CASE Takes(s) /\ TakeNext(s)
  <2> PICK q : q = trail[s][1]
    OBVIOUS
  <2>1. /\ inbox'[s] = Tail(inbox[s]) /\ trail'[s] = Tail(trail[s])
        /\ UNCHANGED <<members, ledger>> /\ inbox[s] # <<>>
    BY <1>0, <1>2 DEF TakeNext, Takes
  <2>2. Copy(client'[s]) = Effect(Copy(client[s]), Head(inbox[s]))
    BY <1>2, CopyTaken, UntoldInStages
  <2>3. /\ q \in 1 .. Len(ledger)
        /\ Walks(Effect(Copy(client[s]), Head(inbox[s])), Tail(inbox[s]), Tail(trail[s]),
                 ledger, q)
        /\ Place(Tail(trail[s]), q, Len(Tail(inbox[s])))
               = Place(trail[s], p, Len(inbox[s]))
    BY <1>0, <1>1, <2>1, WalkTail DEF OnWay
  <2>4. OnWay(s, q)'
    BY <1>1, <2>1, <2>2, <2>3 DEF OnWay
  <2> QED  BY <2>1, <2>3, <2>4
<1>3. CASE ~(Takes(s) /\ TakeNext(s))
  <2>1. Copy(client'[s]) = Copy(client[s])
    BY <1>3, CopySteps
  <2>2. CASE UNCHANGED <<inbox[s], trail[s], ledger>> /\ (s \in members' => s \in members)
    <3>1. inbox'[s] = inbox[s] /\ trail'[s] = trail[s] /\ ledger' = ledger
      BY <2>2
    <3> QED  BY <1>1, <2>1, <2>2, <3>1 DEF OnWay
  <2>3. CASE UNCHANGED <<spread, history>>
    BY <2>2, <2>3 DEF spread, history
  <2>4. ASSUME NEW r \in Replica, NEW t \in Transaction, Sends(r, t)
        PROVE  \E k \in 1 .. Len(ledger') : OnWay(s, k)'
    BY <1>1, <2>1, <2>4, WaySent DEF Sends
  <2>5. ASSUME NEW r \in Replica, Takes(r), TakeNext(r)
        PROVE  UNCHANGED <<inbox[s], trail[s], ledger>> /\ members' = members
    BY <1>0, <1>3, <2>5 DEF TakeNext
  <2>6. ASSUME NEW r \in Replica, Join(r)
        PROVE  \E k \in 1 .. Len(ledger') : OnWay(s, k)'
    <3>1. /\ ledger' = ledger /\ members' = members \cup {r} /\ phase[r] = "start"
          /\ s \in members' => /\ inbox'[s] = Append(inbox[s], Joined(r, members'))
                               /\ trail'[s] = Append(trail[s], Len(ledger))
          /\ s \notin members' => inbox'[s] = inbox[s] /\ trail'[s] = trail[s]
      BY <2>6 DEF Join, Announce
    <3>2. Len(ledger) = 1
      BY <3>1 DEF NothingExecuted, NobodyJoins, HaveJoined
    <3>3. Joined(r, members') \in Entry /\ Joined(r, members').kind # "regular"
      BY <1>0, EntryTypes DEF Joined
    <3>4. CASE s \in members'
      BY <1>1, <2>1, <3>1, <3>2, <3>3, <3>4, WayTold
    <3>5. CASE s \notin members'
      BY <2>2, <3>1, <3>5
    <3> QED  BY <3>4, <3>5
  <2>7. ASSUME NEW r \in Replica, Leave(r) \/ Disconnect(r) \/ Crash(r)
        PROVE  \E k \in 1 .. Len(ledger') : OnWay(s, k)'
    <3>1. ledger' = ledger /\ members' \subseteq members
      BY <2>7 DEF Leave, Disconnect, Crash
    <3>2. \A g \in {members', {}} : Left(g) \in Entry /\ Left(g).kind # "regular"
      BY <1>0, EntryTypes DEF Left
    <3>3. ASSUME inbox'[s] = <<>>, trail'[s] = <<>>, s \notin members'
          PROVE  \E k \in 1 .. Len(ledger') : OnWay(s, k)'
      BY <1>1, <2>1, <3>1, <3>3, WalkStops DEF OnWay
    <3>4. CASE Leave(r)
      <4>1. phase[r] = "exiting"
        BY <3>4 DEF Leave
      <4>2. r \in members
        BY <4>1 DEF MembersInGroup, InGroup
      <4>3. CASE s \in members
        <5>1. /\ trail'[s] = Append(trail[s], Len(ledger))
              /\ \E g \in {members', {}} : inbox'[s] = Append(inbox[s], Left(g))
          BY <1>0, <3>4, <4>2, <4>3 DEF Leave
        <5> QED  BY <1>1, <2>1, <3>1, <3>2, <4>3, <5>1, WayTold
      <4>4. CASE s \notin members
        <5>1. inbox'[s] = inbox[s] /\ trail'[s] = trail[s]
          BY <1>0, <3>4, <4>2, <4>4 DEF Leave
        <5> QED  BY <2>2, <3>1, <5>1
      <4> QED  BY <4>3, <4>4
    <3>5. CASE Disconnect(r)
      <4>1. CASE r = s
        <5>1. s \notin members'
          BY <3>5, <4>1 DEF Disconnect, MembersInGroup, InGroup
        <5> QED  BY <1>0, <3>3, <3>5, <4>1, <5>1 DEF Disconnect
      <4>2. CASE r # s
        BY <1>0, <2>2, <3>5, <4>2 DEF Disconnect
      <4> QED  BY <4>1, <4>2
    <3>6. CASE Crash(r)
      <4>1. CASE r = s
        <5>1. inbox'[s] = <<>> /\ trail'[s] = <<>> /\ s \notin members'
          BY <1>0, <3>6, <4>1 DEF Crash
        <5> QED  BY <3>3, <5>1
      <4>2. CASE r # s /\ s \in members /\ r \in members
        <5>1. /\ trail'[s] = Append(trail[s], Len(ledger))
              /\ inbox'[s] = Append(inbox[s], Left(members'))
          BY <1>0, <3>6, <4>2 DEF Crash
        <5> QED  BY <1>1, <2>1, <3>1, <3>2, <4>2, <5>1, WayTold
      <4>3. CASE r # s /\ ~(s \in members /\ r \in members)
        <5>1. inbox'[s] = inbox[s] /\ trail'[s] = trail[s]
          BY <1>0, <3>6, <4>3 DEF Crash
        <5> QED  BY <2>2, <3>1, <5>1
      <4> QED  BY <4>1, <4>2, <4>3
    <3> QED  BY <2>7, <3>4, <3>5, <3>6
  <2> QED  BY <2>2, <2>3, <2>4, <2>5, <2>6, <2>7, SpreadSteps
<1> QED  BY <1>2, <1>3

LEMMA AgreeInitially ==
    ASSUME FixedGroup, Init
    PROVE  AgreeInv
<1>0. OrderInv
  BY OrderInitially
<1>1. /\ ledger = <<EmptyAccount>> /\ Len(ledger) = 1 /\ ledger[1] = EmptyAccount
      /\ members = {}
      /\ \A r \in Replica : /\ client[r] = NewClient /\ replicas[r] = {}
                            /\ numberOfReplicas[r] = NumberOfReplicas
                            /\ timer[r] = "off" /\ batch[r] = <<>> /\ callback[r] = <<>>
                            /\ inbox[r] = <<>> /\ Len(inbox[r]) = 0
  BY DEF Init
<1>2. Copy(NewClient) = EmptyAccount
  BY DEF Copy, NewClient, EmptyAccount
<1>3. OthersWaitedFor
  BY <1>1, BankAssumption DEF OthersWaitedFor, HaveJoined
<1>4. NothingExecuted
  BY <1>1, <1>2, ContainsEmpty DEF NothingExecuted
<1>5. OnLedger
  <2>1. 1 \in 1 .. Len(ledger)
    BY <1>1
  <2>2. \A r \in Replica : Walks(Copy(client[r]), inbox[r], trail[r], ledger, 1)
    BY <1>1, <1>2 DEF Walks
  <2> QED  BY <1>1, <2>1, <2>2 DEF OnLedger
<1> QED  BY <1>0, <1>3, <1>4, <1>5 DEF AgreeInv

LEMMA AgreeStep ==
    ASSUME FixedGroup, AgreeInv, [Next]_vars
    PROVE  AgreeInv'
<1>0. OrderInv /\ TypeOK /\ MembersInGroup /\ OthersWaitedFor /\ OnLedger
      /\ (NothingExecuted \/ NobodyJoins)
  BY DEF AgreeInv, OrderInv
<1>1. OrderInv'
  BY <1>0, OrderStep DEF FixedGroup
<1>2. OthersWaitedFor'
  BY <1>0, OthersWaitedForStep
<1>3. (NothingExecuted \/ NobodyJoins)'
  <2>1. CASE NobodyJoins
    BY <1>0, <2>1, NobodyJoinsStep
  <2>2. CASE \E r \in Replica : InitialDelay(r)
    BY <1>0, <2>2, DelayOver
  <2>3. CASE NothingExecuted /\ ~ \E r \in Replica : InitialDelay(r)
    BY <1>0, <2>3, NothingExecutedStep
  <2> QED  BY <1>0, <2>1, <2>2, <2>3
<1>4. OnLedger'
  BY <1>0, OnLedgerStep
<1> QED  BY <1>1, <1>2, <1>3, <1>4 DEF AgreeInv

(***************************************************************************)
(* In a fixed group members that have read all that was delivered to them  *)
(* have the same balance and history, whoever leaves or crashes, whichever *)
(* threads end and however often a transaction is sent: the last place on  *)
(* the way of a member is the end of the ledger.                           *)
(***************************************************************************)
THEOREM MembersAgree ==
    ASSUME FixedGroup
    PROVE  Spec => []Agreement
<1>1. Init => AgreeInv
  BY AgreeInitially
<1>2. AgreeInv /\ [Next]_vars => AgreeInv'
  BY AgreeStep
<1>3. AgreeInv => Agreement
  <2>1. ASSUME AgreeInv, NEW r \in members, CaughtUp(r)
        PROVE  Copy(client[r]) = Latest
    <3>1. r \in Replica
      BY <2>1 DEF AgreeInv, OrderInv, TypeOK, SpreadTypeOK
    <3>2. PICK p \in 1 .. Len(ledger) :
              /\ Walks(Copy(client[r]), inbox[r], trail[r], ledger, p)
              /\ Place(trail[r], p, Len(inbox[r])) = Len(ledger)
      BY <2>1, <3>1 DEF AgreeInv, OnLedger
    <3>3. Len(inbox[r]) = 0
      BY <2>1 DEF CaughtUp
    <3> QED  BY <3>2, <3>3 DEF Walks, Place, Latest
  <2> QED  BY <2>1 DEF Agreement
<1> QED  BY <1>1, <1>2, <1>3, PTL DEF Spec

-----------------------------------------------------------------------------
(***************************************************************************)
(* The abstract account.  Its changes are committed when they are          *)
(* multicast for the first time, by a member whose older ones are all on   *)
(* the ledger: those executed, and those on the way to it.                 *)
(***************************************************************************)
OnTheLedger(t) == AlreadyExecuted(Latest.executedList, t)

KnownChanges ==
    \A r \in Replica, t \in Transaction :
        Circulates(r, t) /\ IsChange(t) => t \in Change

UniqueNumbers ==
    \A r, q, p \in Replica, t, u \in Transaction :
        /\ Circulates(q, t) /\ Own(r, t)
        /\ Circulates(p, u) /\ Own(r, u)
        /\ Num(t) = Num(u)
        => t = u

TimersOfGone ==
    \A r \in Replica : /\ phase[r] \in {"leaving", "down"} => timer[r] = "off"
                       /\ phase[r] = "down" => batch[r] = <<>>

Committed ==
    \A r \in Replica, t \in Transaction :
        /\ Contains(client[r].executedList, t) => OnTheLedger(t)
        /\ Contains(inbox[r], Regular(t)) /\ IsChange(t) => OnTheLedger(t)

MembersLearn ==
    \A t \in Transaction : Contains(Latest.executedList, t) =>
        /\ IsChange(t)
        /\ \A r \in members : \/ AlreadyExecuted(client[r].executedList, t)
                              \/ Contains(inbox[r], Regular(t))

RoundKnown ==
    \A r \in Replica, t \in Transaction :
        Contains(batch[r], t) /\ IsChange(t) =>
            Contains(client[r].outstandingCollection, t) \/ OnTheLedger(t)

BankInv ==
    /\ AgreeInv
    /\ KnownChanges /\ UniqueNumbers /\ TimersOfGone
    /\ Committed /\ MembersLearn /\ RoundKnown

-----------------------------------------------------------------------------
LEMMA AlreadyContained ==
    ASSUME NEW s \in Seq(Transaction), NEW t \in Transaction
    PROVE  /\ AlreadyExecuted(s, t) <=>
                  \E u \in Transaction : Contains(s, u) /\ u.uniqueId = t.uniqueId
           /\ Contains(s, t) => AlreadyExecuted(s, t)
<1>1. DOMAIN s = 1 .. Len(s) /\ \A i \in 1 .. Len(s) : s[i] \in Transaction
  BY LenProperties, ElementOfSeq
<1> QED  BY <1>1 DEF AlreadyExecuted, Contains

LEMMA AppliedListed ==
    ASSUME NEW a \in AccountState, NEW t \in Transaction, NEW u \in Transaction
    PROVE  /\ AlreadyExecuted(a.executedList, u) =>
                  AlreadyExecuted(Apply(a, t).executedList, u)
           /\ IsChange(t) => AlreadyExecuted(Apply(a, t).executedList, t)
           /\ Contains(Apply(a, t).executedList, u) =>
                  Contains(a.executedList, u) \/ (u = t /\ IsChange(t))
<1>0. a.executedList \in Seq(Transaction)
  BY DEF AccountState
<1>1. CASE ~IsChange(t) \/ AlreadyExecuted(a.executedList, t)
  BY <1>1 DEF Apply
<1>2. CASE IsChange(t) /\ ~AlreadyExecuted(a.executedList, t)
  <2>1. Apply(a, t).executedList = Append(a.executedList, t)
    BY <1>2 DEF Apply
  <2>2. Append(a.executedList, t) \in Seq(Transaction)
    BY <1>0, AppendProperties
  <2>3. \A v \in Transaction : Contains(Append(a.executedList, t), v)
                                   <=> Contains(a.executedList, v) \/ v = t
    BY <1>0, ContainsAppend
  <2> DEFINE s == a.executedList
             w == Append(s, t)
  <2>4. s \in Seq(Transaction) /\ w \in Seq(Transaction)
    BY <1>0, <2>2
  <2>5. \A v \in Transaction : Contains(w, v) <=> Contains(s, v) \/ v = t
    BY <2>3
  <2> HIDE DEF s, w
  <2>6. AlreadyExecuted(s, u) => AlreadyExecuted(w, u)
    BY <2>4, <2>5, AlreadyContained
  <2>7. AlreadyExecuted(w, t)
    BY <2>4, <2>5, AlreadyContained
  <2> QED  BY <1>2, <2>1, <2>5, <2>6, <2>7 DEF s, w
<1> QED  BY <1>1, <1>2

LEMMA MulticastLatest ==
    ASSUME TypeOK, NEW t \in Transaction, Multicast(t)
    PROVE  Latest' = Apply(Latest, t)
<1>0. ledger \in Seq(AccountState) /\ Len(ledger) \in Nat /\ Apply(Latest, t) \in AccountState
  BY LatestType, ApplyType DEF TypeOK, SpreadTypeOK
<1>1. CASE Apply(Latest, t) = Latest
  BY <1>1 DEF Multicast, Latest
<1>2. CASE Apply(Latest, t) # Latest
  <2> DEFINE x == Apply(Latest, t)
             l == Append(ledger, x)
  <2>1. ledger' = l
    BY <1>2 DEF Multicast
  <2> HIDE DEF x
  <2>2. Len(l) = Len(ledger) + 1 /\ l[Len(ledger) + 1] = x
    BY <1>0, AppendProperties DEF x
  <2> QED  BY <1>0, <2>1, <2>2 DEF Latest, x
<1> QED  BY <1>1, <1>2

LEMMA LedgerSteps ==
    ASSUME TypeOK, [Next]_vars
    PROVE  \/ UNCHANGED ledger /\ Latest' = Latest
           \/ \E r \in Replica, t \in Transaction :
                  Sends(r, t) /\ UNCHANGED client /\ Latest' = Apply(Latest, t)
<1>1. ASSUME NEW r \in Replica, NEW t \in Transaction, Sends(r, t)
      PROVE  Latest' = Apply(Latest, t)
  BY <1>1, MulticastLatest DEF Sends
<1>2. CASE UNCHANGED ledger
  BY <1>2 DEF Latest
<1>3. CASE \E r \in Replica : Join(r) \/ TakeNext(r) \/ Leave(r) \/ Disconnect(r) \/ Crash(r)
  BY <1>2, <1>3 DEF Join, Announce, TakeNext, Leave, Disconnect, Crash
<1> QED  BY <1>1, <1>2, <1>3, SpreadSteps DEF history

LEMMA StaysOnTheLedger ==
    ASSUME TypeOK, [Next]_vars, NEW t \in Transaction, OnTheLedger(t)
    PROVE  OnTheLedger(t)'
<1>1. Latest \in AccountState
  BY LatestType DEF TypeOK
<1> QED  BY <1>1, LedgerSteps, AppliedListed DEF OnTheLedger

LEMMA KnownChangesStep ==
    ASSUME TypeOK, KnownChanges, [Next]_vars
    PROVE  KnownChanges'
<1> SUFFICES ASSUME NEW r \in Replica, NEW t \in Transaction,
                    Circulates(r, t)', IsChange(t)
             PROVE  t \in Change
  BY DEF KnownChanges, IsChange, Change
<1>1. t # NewTransaction(r, client[r], "UPDATE_BALANCE", client[r].balance, 0)
  BY DEF NewTransaction, IsChange
<1> QED  BY <1>1, Circulation DEF KnownChanges, Issued

LEMMA UniqueNumbersStep ==
    ASSUME MaxRestarts = 0, OrderInv, UniqueNumbers, [Next]_vars
    PROVE  UniqueNumbers'
<1> SUFFICES ASSUME NEW r \in Replica, NEW q \in Replica, NEW p \in Replica,
                    NEW t \in Transaction, NEW u \in Transaction,
                    Circulates(q, t)', Own(r, t), Circulates(p, u)', Own(r, u),
                    Num(t) = Num(u)
             PROVE  t = u
  BY DEF UniqueNumbers, Own, Num
<1>0. TypeOK /\ client[r].outstandingCounter \in Nat
  BY ClientFields DEF OrderInv, TypeOK, ProcessTypeOK
<1>1. ASSUME NEW s \in Replica, NEW v \in Transaction, Circulates(s, v)', Own(r, v)
      PROVE  \/ \E k \in Replica : Circulates(k, v)
             \/ Issued(r, v)
  <2>1. v # NewTransaction(s, client[s], "UPDATE_BALANCE", client[s].balance, 0)
    BY <1>1 DEF NewTransaction, Own
  <2>2. CASE Issued(s, v)
    <3>1. s = r
      BY <1>0, <1>1, <2>2, CounterGrows DEF Own
    <3> QED  BY <2>2, <3>1
  <2> QED  BY <1>0, <1>1, <2>1, <2>2, Circulation
<1>2. ASSUME NEW s \in Replica, NEW v \in Transaction, Circulates(s, v), Own(r, v)
      PROVE  Num(v) < client[r].outstandingCounter
  BY <1>2 DEF OrderInv, Numbered
<1>3. ASSUME NEW v \in Transaction, Issued(r, v)
      PROVE  Num(v) = client[r].outstandingCounter
  BY <1>0, <1>3, CounterGrows
<1>4. CASE Issued(r, t) /\ Issued(r, u)
  <2>1. client[r] \in ClientState /\ client[r].outstandingCollection \in Seq(Transaction)
    BY <1>0, ClientFields DEF TypeOK, ProcessTypeOK
  <2>2. ASSUME NEW v \in Transaction, Issued(r, v)
        PROVE  client'[r].outstandingCollection
                   = Append(client[r].outstandingCollection, v)
    <3>1. client'[r] = AddOutstandingCollection(client[r], v)
      BY <2>2 DEF Issued
    <3> QED  BY <2>1, <3>1, AddOutstandingEffect
  <2>3. \A v \in Transaction : Append(client[r].outstandingCollection, v)
                                   [Len(client[r].outstandingCollection) + 1] = v
    BY <2>1, AppendProperties
  <2> QED  BY <1>4, <2>2, <2>3
<1>5. CASE ~Issued(r, t) /\ ~Issued(r, u)
  BY <1>1, <1>5 DEF UniqueNumbers
<1>6. CASE Issued(r, t) /\ ~Issued(r, u)
  BY <1>0, <1>1, <1>2, <1>3, <1>6
<1>7. CASE ~Issued(r, t) /\ Issued(r, u)
  BY <1>0, <1>1, <1>2, <1>3, <1>7
<1> QED  BY <1>4, <1>5, <1>6, <1>7

LEMMA TimersOfGoneStep ==
    ASSUME MaxRestarts = 0, TypeOK, TimersOfGone, [Next]_vars
    PROVE  TimersOfGone'
<1> SUFFICES ASSUME NEW r \in Replica
             PROVE  /\ phase'[r] \in {"leaving", "down"} => timer'[r] = "off"
                    /\ phase'[r] = "down" => batch'[r] = <<>>
  BY DEF TimersOfGone
<1>0. /\ phase \in [Replica -> Phase] /\ timer \in [Replica -> Timer]
      /\ batch \in [Replica -> Seq(Transaction)] /\ ~Restart(r)
      /\ batch[r] = <<>> \/ batch[r] # <<>>
  BY NoRestarts DEF TypeOK, ProcessTypeOK
<1>1. CASE Leave(r) \/ Disconnect(r) \/ Crash(r)
  <2>1. CASE Leave(r)
    BY <1>0, <2>1 DEF Leave
  <2>2. CASE Disconnect(r)
    BY <1>0, <2>2 DEF Disconnect, TimersOfGone
  <2>3. CASE Crash(r)
    BY <1>0, <2>3 DEF Crash
  <2> QED  BY <1>1, <2>1, <2>2, <2>3
<1>2. CASE phase'[r] \in {"leaving", "down"} /\ ~(Leave(r) \/ Disconnect(r) \/ Crash(r))
  <2>1. phase'[r] = phase[r]
    BY <1>0, <1>2, PhaseSteps
  <2>2. timer[r] = "off" /\ timer'[r] = "off"
    BY <1>2, <2>1, TimerSteps DEF TimersOfGone
  <2>3. phase'[r] = "down" => batch'[r] = <<>>
    <3>1. ~BroadcastRound(r)
      BY <2>2 DEF BroadcastRound
    <3> QED  BY <2>1, <3>1, BatchSteps DEF TimersOfGone
  <2> QED  BY <2>2, <2>3
<1> QED  BY <1>1, <1>2

\* An inbox that is as it was has not been read from.
LEMMA TailIsShorter ==
    ASSUME NEW S, NEW q \in Seq(S), q # <<>>
    PROVE  Tail(q) # q
<1> DEFINE w == Tail(q)
<1>1. Len(q) \in Nat \ {0} /\ Len(w) = Len(q) - 1
  BY EmptySeq, HeadTailProperties
<1> HIDE DEF w
<1>2. w # q
  BY <1>1
<1> QED  BY <1>2 DEF w

\* What a replica has executed it does not forget.
LEMMA StaysExecuted ==
    ASSUME FixedGroup, TypeOK, [Next]_vars, NEW r \in Replica, NEW t \in Transaction
    PROVE  /\ AlreadyExecuted(client[r].executedList, t) =>
                  AlreadyExecuted(client'[r].executedList, t)
           /\ Contains(client'[r].executedList, t) =>
                  \/ Contains(client[r].executedList, t)
                  \/ Contains(inbox[r], Regular(t)) /\ IsChange(t)
<1>0. /\ client[r].executedList \in Seq(Transaction)
      /\ client'[r].executedList \in Seq(Transaction) /\ inbox[r] \in Seq(Entry)
      /\ ~CleanHistoryCommand(r) /\ ~Restart(r)
  BY TypeStep, NoRestarts, ClientFields
     DEF TypeOK, ProcessTypeOK, SpreadTypeOK, FixedGroup, CleanHistoryCommand
<1>1. ASSUME client'[r].executedList = client[r].executedList
      PROVE  /\ AlreadyExecuted(client[r].executedList, t) =>
                    AlreadyExecuted(client'[r].executedList, t)
             /\ Contains(client'[r].executedList, t) => Contains(client[r].executedList, t)
  BY <1>1
<1>2. ASSUME NEW u \in Transaction, Takes(r), Head(inbox[r]) = Regular(u),
             u.type # "UPDATE_BALANCE", Settled(client[r], client'[r], u),
             client'[r].executedList # client[r].executedList
      PROVE  /\ AlreadyExecuted(client[r].executedList, t) =>
                    AlreadyExecuted(client'[r].executedList, t)
             /\ Contains(client'[r].executedList, t) =>
                    \/ Contains(client[r].executedList, t)
                    \/ Contains(inbox[r], Regular(t)) /\ IsChange(t)
  <2>1. /\ u.type # "SYNCED_BALANCE"
        /\ client'[r].executedList = Append(client[r].executedList, u)
    BY <1>2 DEF Settled
  <2>2. IsChange(u)
    BY <1>2, <2>1 DEF IsChange, Transaction, TransactionType
  <2>3. Contains(inbox[r], Regular(u))
    BY <1>0, <1>2, ContainsTail DEF Takes
  <2>4. \A v \in Transaction : Contains(client'[r].executedList, v)
                                   <=> Contains(client[r].executedList, v) \/ v = u
    BY <1>0, <2>1, ContainsAppend
  <2> QED  BY <1>0, <2>2, <2>3, <2>4, AlreadyContained
<1> QED  BY <1>0, <1>1, <1>2, ListsSteps DEF Kept, Added

LEMMA CommittedStep ==
    ASSUME FixedGroup, TypeOK, Committed, [Next]_vars
    PROVE  Committed'
<1> SUFFICES ASSUME NEW r \in Replica, NEW t \in Transaction,
                    \/ Contains(client'[r].executedList, t)
                    \/ Contains(inbox'[r], Regular(t)) /\ IsChange(t)
             PROVE  OnTheLedger(t)'
  BY DEF Committed, Regular, IsChange
<1>0. inbox[r] \in Seq(Entry) /\ Latest \in AccountState
  BY LatestType DEF TypeOK, SpreadTypeOK
<1>1. CASE OnTheLedger(t)
  BY <1>1, StaysOnTheLedger
<1>2. CASE Contains(client'[r].executedList, t)
  BY <1>1, <1>2, StaysExecuted DEF Committed
<1>3. CASE Contains(inbox'[r], Regular(t)) /\ IsChange(t)
  <2>1. CASE Contains(inbox[r], Regular(t))
    BY <1>1, <1>3, <2>1 DEF Committed
  <2>2. ASSUME NEW q \in Replica, NEW u \in Transaction, Sends(q, u),
               inbox'[r] = Append(inbox[r], Regular(u))
        PROVE  OnTheLedger(t)'
    <3>1. Contains(inbox[r], Regular(t)) \/ u = t
      BY <1>0, <1>3, <2>2, ContainsAppend, EntriesApart, EntryTypes
    <3>2. CASE u = t
      BY <1>0, <1>3, <2>2, <3>2, MulticastLatest, AppliedListed DEF Sends, OnTheLedger
    <3> QED  BY <2>1, <3>1, <3>2
  <2>3. ASSUME NEW e \in Entry, e # Regular(t), inbox'[r] = Append(inbox[r], e)
        PROVE  Contains(inbox[r], Regular(t))
    BY <1>0, <1>3, <2>3, ContainsAppend
  <2>4. \A q \in Replica, g \in SUBSET Replica :
            /\ Joined(q, g) \in Entry /\ Joined(q, g) # Regular(t)
            /\ Left(g) \in Entry /\ Left(g) # Regular(t)
    BY EntriesApart, EntryTypes
  <2>5. members' \in SUBSET Replica /\ {} \in SUBSET Replica
    BY TypeStep DEF TypeOK, SpreadTypeOK
  <2> QED  BY <1>0, <1>3, <2>1, <2>2, <2>3, <2>4, <2>5, InboxSteps, ContainsTail,
              ContainsEmpty DEF Takes
<1> QED  BY <1>2, <1>3

LEMMA ContainsRest ==
    ASSUME NEW S, NEW s \in Seq(S), s # <<>>, NEW y, Contains(s, y), y # Head(s)
    PROVE  Contains(Tail(s), y)
<1> DEFINE w == Tail(s)
<1>1. /\ Len(s) \in Nat \ {0} /\ Len(w) = Len(s) - 1 /\ s[1] = Head(s)
      /\ \A i \in 1 .. Len(w) : w[i] = s[i + 1]
  BY EmptySeq, HeadTailProperties
<1>2. PICK i \in 1 .. Len(s) : s[i] = y
  BY DEF Contains
<1> HIDE DEF w
<1>3. i # 1
  BY <1>1, <1>2
<1>4. i - 1 \in 1 .. Len(w) /\ (i - 1) + 1 = i
  BY <1>1, <1>2, <1>3
<1>5. w[i - 1] = y
  BY <1>1, <1>2, <1>4
<1> QED  BY <1>4, <1>5 DEF Contains, w

LEMMA MembersLearnStep ==
    ASSUME FixedGroup, TypeOK, MembersInGroup, NothingExecuted \/ NobodyJoins,
           MembersLearn, [Next]_vars
    PROVE  MembersLearn'
<1> SUFFICES ASSUME NEW t \in Transaction, Contains(Latest'.executedList, t)
             PROVE  /\ IsChange(t)
                    /\ \A r \in members' : \/ AlreadyExecuted(client'[r].executedList, t)
                                           \/ Contains(inbox'[r], Regular(t))
  BY DEF MembersLearn, IsChange, Regular
<1>0. /\ Latest \in AccountState /\ inbox \in [Replica -> Seq(Entry)]
      /\ members \in SUBSET Replica /\ members' \in SUBSET Replica
      /\ Regular(t) \in Entry
  BY LatestType, TypeStep, EntryTypes DEF TypeOK, SpreadTypeOK
<1>1. ASSUME NEW q \in Replica, NEW u \in Transaction, Sends(q, u),
             Latest' = Apply(Latest, u)
      PROVE  Contains(Latest.executedList, t) \/ (u = t /\ IsChange(t))
  BY <1>0, <1>1, AppliedListed
<1>2. IsChange(t)
  BY <1>1, LedgerSteps DEF MembersLearn
<1>3. ASSUME NEW r \in members', ~Contains(Latest.executedList, t)
      PROVE  Contains(inbox'[r], Regular(t))
  <2>1. PICK q \in Replica : Sends(q, t)
    BY <1>1, <1>3, LedgerSteps
  <2>2. r \in members /\ r \in Replica /\ inbox'[r] = Append(inbox[r], Regular(t))
    BY <1>0, <2>1 DEF Sends, Multicast
  <2> QED  BY <1>0, <2>2, ContainsAppend
<1>4. ASSUME NEW r \in members', Contains(Latest.executedList, t)
      PROVE  \/ AlreadyExecuted(client'[r].executedList, t)
             \/ Contains(inbox'[r], Regular(t))
  <2>0. r \in Replica /\ inbox[r] \in Seq(Entry) /\ ~Restart(r)
    BY <1>0, NoRestarts DEF FixedGroup
  <2>1. r \in members
    <3>1. SUFFICES ASSUME r \notin members PROVE FALSE
      OBVIOUS
    <3>2. Join(r)
      BY <2>0, <3>1, PhaseSteps
    <3>3. ledger = <<EmptyAccount>>
      BY <2>0, <3>2 DEF Join, NothingExecuted, NobodyJoins, HaveJoined
    <3>4. Latest.executedList = <<>>
      BY <3>3 DEF Latest, EmptyAccount
    <3> QED  BY <1>4, <3>4, ContainsEmpty
  <2>2. \/ AlreadyExecuted(client[r].executedList, t)
        \/ Contains(inbox[r], Regular(t))
    BY <1>4, <2>1 DEF MembersLearn
  <2>3. CASE AlreadyExecuted(client[r].executedList, t)
    BY <2>0, <2>3, StaysExecuted
  <2>4. CASE Contains(inbox[r], Regular(t))
    <3>1. CASE inbox'[r] = inbox[r]
      BY <2>4, <3>1
    <3>2. CASE inbox'[r] = Tail(inbox[r]) /\ Takes(r)
      <4>1. inbox[r] # <<>>
        BY <3>2 DEF Takes
      <4>2. CASE Head(inbox[r]) = Regular(t)
        <5>1. Copy(client'[r]) = Apply(Copy(client[r]), t)
          <6>1. Effect(Copy(client[r]), Regular(t)) = Apply(Copy(client[r]), t)
            BY DEF Effect, Regular
          <6> QED  BY <2>0, <3>2, <4>2, <6>1, CopyTaken, UntoldInStages
        <5>2. Copy(client[r]) \in AccountState
          BY <2>0, ClientFields DEF TypeOK, ProcessTypeOK, Copy, AccountState
        <5>3. AlreadyExecuted(Copy(client'[r]).executedList, t)
          BY <1>2, <5>1, <5>2, AppliedListed
        <5> QED  BY <5>3 DEF Copy
      <4>3. CASE Head(inbox[r]) # Regular(t)
        BY <2>0, <2>4, <3>2, <4>1, <4>3, ContainsRest
      <4> QED  BY <4>2, <4>3
    <3>3. ASSUME NEW e \in Entry, inbox'[r] = Append(inbox[r], e)
          PROVE  Contains(inbox'[r], Regular(t))
      BY <2>0, <2>4, <3>3, ContainsAppend
    <3>4. ~Disconnect(r) /\ ~Leave(r) /\ ~Crash(r)
      BY <2>0, <2>1 DEF Disconnect, Leave, Crash, MembersInGroup, InGroup
    <3>5. /\ \A u \in Transaction : Regular(u) \in Entry
          /\ \A q \in Replica : Joined(q, members') \in Entry
          /\ Left(members') \in Entry
      BY <1>0, EntryTypes
    <3> QED  BY <2>0, <3>1, <3>2, <3>3, <3>4, <3>5, InboxSteps
  <2> QED  BY <2>2, <2>3, <2>4
<1> QED  BY <1>2, <1>3, <1>4

LEMMA RoundKnownStep ==
    ASSUME FixedGroup, OrderInv, UniqueNumbers, Committed, RoundKnown, [Next]_vars
    PROVE  RoundKnown'
<1> SUFFICES ASSUME NEW r \in Replica, NEW t \in Transaction,
                    Contains(batch'[r], t), IsChange(t)
             PROVE  Contains(client'[r].outstandingCollection, t) \/ OnTheLedger(t)'
  BY DEF RoundKnown, IsChange
<1>0. /\ TypeOK /\ batch[r] \in Seq(Transaction)
      /\ client[r].outstandingCollection \in Seq(Transaction) /\ inbox[r] \in Seq(Entry)
      /\ ~CleanHistoryCommand(r) /\ ~Restart(r)
  BY NoRestarts, ClientFields
     DEF OrderInv, TypeOK, ProcessTypeOK, SpreadTypeOK, FixedGroup, CleanHistoryCommand
<1>1. CASE OnTheLedger(t)
  BY <1>0, <1>1, StaysOnTheLedger
<1>2. CASE BroadcastRound(r) /\ batch'[r] = client[r].outstandingCollection
  BY <1>2 DEF BroadcastRound
<1>3. CASE Contains(client[r].outstandingCollection, t)
  <2>1. CASE client'[r].outstandingCollection = client[r].outstandingCollection
    BY <1>3, <2>1
  <2>2. ASSUME NEW u \in Transaction, Added(client[r], client'[r], u)
        PROVE  Contains(client'[r].outstandingCollection, t)
    BY <1>0, <1>3, <2>2, ContainsAppend DEF Added
  <2>3. ASSUME NEW u \in Transaction, Takes(r), Head(inbox[r]) = Regular(u),
               u.type # "UPDATE_BALANCE", Settled(client[r], client'[r], u)
        PROVE  Contains(client'[r].outstandingCollection, t) \/ OnTheLedger(t)
    <3>1. CASE t.uniqueId # u.uniqueId
      BY <1>0, <1>3, <2>3, <3>1, ContainsKept DEF Settled
    <3>2. CASE t.uniqueId = u.uniqueId
      <4>1. Contains(inbox[r], Regular(u))
        BY <1>0, <2>3, ContainsTail DEF Takes
      <4>2. Own(r, t) /\ Own(r, u) /\ Num(t) = Num(u)
        BY <1>3, <2>3, <3>2 DEF OrderInv, OwnTransactions, Own, Num
      <4>3. t = u
        BY <1>3, <4>1, <4>2 DEF UniqueNumbers, Circulates
      <4> QED  BY <4>1, <4>3 DEF Committed
    <3> QED  BY <3>1, <3>2
  <2> QED  BY <1>0, <1>1, <2>1, <2>2, <2>3, ListsSteps DEF Kept
<1>4. CASE Contains(batch[r], t)
  BY <1>1, <1>3, <1>4 DEF RoundKnown
<1> QED  BY <1>0, <1>2, <1>4, BatchSteps, ContainsTail, ContainsEmpty

LEMMA BankInitially ==
    ASSUME FixedGroup, Init
    PROVE  BankInv
<1>0. AgreeInv
  BY AgreeInitially
<1>1. /\ members = {} /\ Latest.executedList = <<>>
      /\ \A r \in Replica : /\ client[r] = NewClient /\ phase[r] = "start"
                            /\ batch[r] = <<>> /\ callback[r] = <<>> /\ inbox[r] = <<>>
  BY DEF Init, Latest, EmptyAccount
<1>2. NewClient.outstandingCollection = <<>> /\ NewClient.executedList = <<>>
  BY DEF NewClient
<1>3. \A r \in Replica, t \in Transaction : ~Circulates(r, t)
  BY <1>1, <1>2, ContainsEmpty DEF Circulates
<1>4. KnownChanges /\ UniqueNumbers
  BY <1>3 DEF KnownChanges, UniqueNumbers
<1>5. TimersOfGone /\ Committed /\ MembersLearn /\ RoundKnown
  BY <1>1, <1>2, ContainsEmpty DEF TimersOfGone, Committed, MembersLearn, RoundKnown
<1> QED  BY <1>0, <1>4, <1>5 DEF BankInv

LEMMA BankStep ==
    ASSUME FixedGroup, BankInv, [Next]_vars
    PROVE  BankInv'
<1>0. /\ OrderInv /\ TypeOK /\ MembersInGroup /\ (NothingExecuted \/ NobodyJoins)
      /\ MaxRestarts = 0
  BY DEF BankInv, AgreeInv, OrderInv, FixedGroup
<1>1. AgreeInv'
  BY AgreeStep DEF BankInv
<1>2. KnownChanges' /\ UniqueNumbers' /\ TimersOfGone'
  BY <1>0, KnownChangesStep, UniqueNumbersStep, TimersOfGoneStep DEF BankInv
<1>3. Committed' /\ MembersLearn' /\ RoundKnown'
  BY <1>0, CommittedStep, MembersLearnStep, RoundKnownStep DEF BankInv
<1> QED  BY <1>1, <1>2, <1>3 DEF BankInv

\* A change that is sent for the first time is younger than all its sender's
\* on the ledger.
LEMMA FirstSentInOrder ==
    ASSUME FixedGroup, BankInv, NEW q \in Replica, NEW t \in Transaction, Sends(q, t),
           IsChange(t), ~OnTheLedger(t), NEW u \in Transaction,
           Contains(Latest.executedList, u), u.uniqueId[1] = t.uniqueId[1]
    PROVE  Num(u) < Num(t)
<1>0. /\ OrderInv /\ TypeOK /\ MembersInGroup /\ (NothingExecuted \/ NobodyJoins)
      /\ Committed /\ MembersLearn /\ RoundKnown /\ UniqueNumbers /\ TimersOfGone
  BY DEF BankInv, AgreeInv, OrderInv
<1>1. NobodyJoins
  BY <1>0, SentAtStart DEF Idle, IsChange
<1>2. BroadcastNext(q) /\ Contains(batch[q], t) /\ Own(q, t)
  BY <1>0, <1>1, SentInRound
<1>3. Contains(client[q].outstandingCollection, t) /\ Awaited(q, Num(t))
  BY <1>0, <1>2 DEF RoundKnown, Awaited
<1>4. q \in members
  <2>1. phase[q] \notin {"start", "leaving"}
    BY <1>0, <1>3, NumTypes DEF OrderInv, IdleAwaitNothing
  <2>2. phase[q] # "down"
    BY <1>0, <1>2, ContainsEmpty DEF TimersOfGone
  <2> QED  BY <1>0, <2>1, <2>2
           DEF MembersInGroup, InGroup, TypeOK, ProcessTypeOK, Phase
<1>5. Own(q, u) /\ Num(u) \in Nat /\ Num(t) \in Nat
  BY <1>0, <1>2, NumTypes DEF MembersLearn, Own, IsChange
<1>6. CASE AlreadyExecuted(client[q].executedList, u)
  <2>1. PICK e \in Transaction : /\ Contains(client[q].executedList, e)
                                 /\ e.uniqueId = u.uniqueId
    BY <1>0, <1>6, ClientFields, AlreadyContained DEF TypeOK, ProcessTypeOK
  <2>2. Own(q, e) /\ Num(e) = Num(u)
    BY <1>0, <1>5, <2>1 DEF OrderInv, OwnTransactions, Own, Num
  <2>3. Num(e) < Num(t)
    BY <1>0, <1>3, <1>5, <2>1, <2>2 DEF OrderInv, ExecutedBeforeAwaited
  <2> QED  BY <2>2, <2>3
<1>7. CASE Contains(inbox[q], Regular(u))
  <2>1. PICK i \in 1 .. Len(inbox[q]) : inbox[q][i] = Regular(u)
    BY <1>7 DEF Contains
  <2>2. OwnEntry(inbox[q][i], q, Num(u))
    BY <1>5, <2>1, OwnEntryOfRegular
  <2>3. Num(u) # Num(t)
    <3>1. SUFFICES ASSUME Num(u) = Num(t) PROVE FALSE
      OBVIOUS
    <3>2. u = t
      BY <1>0, <1>2, <1>3, <1>5, <1>7, <3>1 DEF UniqueNumbers, Circulates
    <3> QED  BY <1>0, <1>7, <3>2 DEF Committed
  <2>4. ~(Num(t) < Num(u))
    <3>1. SUFFICES ASSUME Num(t) < Num(u) PROVE FALSE
      OBVIOUS
    <3>2. PICK j \in 1 .. i - 1 : OwnEntry(inbox[q][j], q, Num(t))
      BY <1>0, <1>3, <1>4, <1>5, <2>2, <3>1 DEF OrderInv, InboxInOrder
    <3>3. PICK v \in Transaction : inbox[q][j] = Regular(v) /\ Own(q, v) /\ Num(v) = Num(t)
      BY <3>2 DEF OwnEntry
    <3>4. Contains(inbox[q], Regular(v))
      <4>1. j \in 1 .. Len(inbox[q])
        BY <2>1, <3>2, LenProperties DEF TypeOK, SpreadTypeOK
      <4> QED  BY <3>3, <4>1 DEF Contains
    <3>5. v = t
      BY <1>0, <1>2, <1>3, <3>3, <3>4 DEF UniqueNumbers, Circulates
    <3> QED  BY <1>0, <3>4, <3>5 DEF Committed
  <2> QED  BY <1>5, <2>3, <2>4
<1> QED  BY <1>0, <1>4, <1>6, <1>7 DEF MembersLearn

copy == [r \in Replica |-> Copy(client[r])]

\* A multicast commits a change, or nothing.
LEMMA SendCommits ==
    ASSUME FixedGroup, BankInv, NEW q \in Replica, NEW t \in Transaction, Sends(q, t),
           UNCHANGED client
    PROVE  Bank!Commit \/ UNCHANGED <<ledger, copy>>
<1>0. /\ OrderInv /\ TypeOK /\ (NothingExecuted \/ NobodyJoins) /\ KnownChanges
      /\ Latest \in AccountState
  BY LatestType DEF BankInv, AgreeInv, OrderInv, TypeOK
<1>1. UNCHANGED copy
  BY DEF copy
<1>2. CASE Apply(Latest, t) = Latest
  BY <1>1, <1>2 DEF Sends, Multicast
<1>3. CASE Apply(Latest, t) # Latest
  <2>1. IsChange(t) /\ ~OnTheLedger(t)
    BY <1>3 DEF Apply, OnTheLedger
  <2>2. t \in Change
    <3>1. NobodyJoins
      BY <1>0, <2>1, SentAtStart DEF Idle, IsChange
    <3>2. Circulates(q, t)
      BY <1>0, <3>1, SentInRound DEF Circulates
    <3> QED  BY <1>0, <2>1, <3>2 DEF KnownChanges
  <2>3. ASSUME NEW i \in DOMAIN Latest.executedList,
               Latest.executedList[i].uniqueId[1] = t.uniqueId[1]
        PROVE  Latest.executedList[i].uniqueId[2] < t.uniqueId[2]
    <3>1. Latest.executedList \in Seq(Transaction)
      BY <1>0 DEF AccountState
    <3>2. /\ Latest.executedList[i] \in Transaction
          /\ Contains(Latest.executedList, Latest.executedList[i])
      BY <3>1, LenProperties, ElementOfSeq DEF Contains
    <3> QED  BY <2>1, <2>3, <3>2, FirstSentInOrder DEF Num
  <2>4. Bank!Latest = Latest
    BY DEF Bank!Latest, Latest
  <2>5. Bank!InIssueOrder(t)
    BY <2>3, <2>4 DEF Bank!InIssueOrder
  <2>6. ledger' = Append(ledger, Bank!Apply(Bank!Latest, t))
    <3>1. Bank!Apply(Latest, t) = Apply(Latest, t)
      BY DEF Bank!Apply, Bank!IsChange, Bank!AlreadyExecuted, Bank!NewBalance,
             Apply, IsChange, AlreadyExecuted, NewBalance
    <3> QED  BY <1>3, <2>4, <3>1 DEF Sends, Multicast
  <2>7. Bank!Commit
    BY <1>1, <2>2, <2>5, <2>6 DEF Bank!Commit, copy
  <2> QED  BY <2>7
<1> QED  BY <1>2, <1>3

\* Who takes a message off the inbox learns the next account, or nothing new.
LEMMA TakerLearns ==
    ASSUME FixedGroup, BankInv, [Next]_vars, NEW s \in Replica, Takes(s), TakeNext(s)
    PROVE  Bank!Learn(s) \/ UNCHANGED <<ledger, copy>>
<1>0. /\ TypeOK /\ (NothingExecuted \/ NobodyJoins) /\ OnLedger
      /\ inbox \in [Replica -> Seq(Entry)] /\ trail[s] \in Seq(Nat)
      /\ Len(trail[s]) = Len(inbox[s]) /\ ledger' = ledger /\ inbox[s] # <<>>
      /\ Len(ledger) \in Nat
  BY OnWayTypes DEF BankInv, AgreeInv, OrderInv, TypeOK, SpreadTypeOK, TakeNext, Takes
<1>1. ASSUME NEW r \in Replica, r # s
      PROVE  Copy(client'[r]) = Copy(client[r])
  <2>1. ~(Takes(r) /\ TakeNext(r))
    <3>1. SUFFICES ASSUME Takes(r), TakeNext(r) PROVE FALSE
      OBVIOUS
    <3>2. inbox'[r] = inbox[r] /\ inbox'[r] = Tail(inbox[r]) /\ inbox[r] # <<>>
      BY <1>0, <1>1, <3>1 DEF TakeNext, Takes
    <3> QED  BY <1>0, <3>2, TailIsShorter
  <2> QED  BY <1>0, <2>1, CopySteps
<1>2. PICK p \in 1 .. Len(ledger) : Walks(Copy(client[s]), inbox[s], trail[s], ledger, p)
  BY <1>0 DEF OnLedger
<1>3. PICK k : k = trail[s][1]
  OBVIOUS
<1>4. /\ k \in {p, p + 1} /\ k \in 1 .. Len(ledger)
      /\ Walks(Effect(Copy(client[s]), Head(inbox[s])), Tail(inbox[s]), Tail(trail[s]),
               ledger, k)
  BY <1>0, <1>2, <1>3, WalkTail
<1>5. Copy(client'[s]) = Effect(Copy(client[s]), Head(inbox[s]))
  BY <1>0, CopyTaken, UntoldInStages
<1>6. Copy(client[s]) = ledger[p] /\ Copy(client'[s]) = ledger[k]
  BY <1>2, <1>4, <1>5 DEF Walks
<1>7. CASE k = p
  BY <1>0, <1>1, <1>6, <1>7 DEF copy
<1>8. CASE k = p + 1
  <2>1. p \in 1 .. Len(ledger) - 1
    BY <1>0, <1>4, <1>8
  <2>2. copy' = [copy EXCEPT ![s] = ledger[p + 1]]
    BY <1>1, <1>6, <1>8 DEF copy
  <2>3. copy[s] = ledger[p]
    BY <1>6 DEF copy
  <2> QED  BY <1>0, <2>1, <2>2, <2>3 DEF Bank!Learn, copy
<1> QED  BY <1>4, <1>7, <1>8

LEMMA StepOfBank ==
    ASSUME FixedGroup, BankInv, [Next]_vars
    PROVE  [Bank!BankNext]_(Bank!bankVars)
<1>0. TypeOK
  BY DEF BankInv, AgreeInv, OrderInv
<1>1. CASE \E r \in Replica, t \in Transaction : Sends(r, t) /\ UNCHANGED client
  BY <1>1, SendCommits DEF Bank!BankNext, Bank!bankVars, copy
<1>2. CASE \E r \in Replica : Takes(r) /\ TakeNext(r)
  BY <1>2, TakerLearns DEF Bank!BankNext, Bank!bankVars, copy
<1>3. CASE UNCHANGED ledger /\ ~ \E r \in Replica : Takes(r) /\ TakeNext(r)
  <2>1. \A r \in Replica : Copy(client'[r]) = Copy(client[r])
    BY <1>0, <1>3, CopySteps
  <2> QED  BY <1>3, <2>1 DEF Bank!bankVars
<1>4. CASE \E r \in Replica : Join(r) \/ Leave(r) \/ Disconnect(r) \/ Crash(r)
  BY <1>2, <1>3, <1>4 DEF Join, Announce, Leave, Disconnect, Crash
<1> QED  BY <1>0, <1>1, <1>2, <1>3, <1>4, SpreadSteps DEF history

(***************************************************************************)
(* A fixed group implements the account of BankAccount: a multicast        *)
(* commits one change in the order of issue or nothing, whatever rounds    *)
(* overlap or are cut off by a crash, and every other step lets at most    *)
(* one copy learn the next state of the ledger.                            *)
(***************************************************************************)
THEOREM FixedGroupIsBank ==
    ASSUME FixedGroup
    PROVE  Spec => ImplementsBank
<1>1. Init => BankInv
  BY BankInitially
<1>2. BankInv /\ [Next]_vars => BankInv'
  BY BankStep
<1>3. Init => Bank!BankInit
  BY DEF Init, Bank!BankInit, Copy, NewClient, EmptyAccount, Bank!EmptyAccount
<1>4. BankInv /\ [Next]_vars => [Bank!BankNext]_(Bank!bankVars)
  BY StepOfBank
<1> QED  BY <1>1, <1>2, <1>3, <1>4, PTL DEF Spec, ImplementsBank, Bank!BankSpec
=============================================================================
