--------------------------- MODULE ReplicatedBank ---------------------------
(***************************************************************************)
(* The replicated bank account: ReplicatedStateMachine.java and            *)
(* AdvancedListener.java running as one process per replica, each with its *)
(* Client, over a Spread group served by the single daemon of spread.conf. *)
(*                                                                         *)
(* Three threads of a process change its state:                            *)
(*   main          connects, waits for the group, executes commands, exits *)
(*   broadcaster   every ten seconds multicasts the outstanding collection *)
(*   listener      runs the callbacks of AdvancedListener, one message at  *)
(*                 a time, in the order in which the daemon delivers them  *)
(*                                                                         *)
(* The daemon puts everything sent to the group in one order and queues it *)
(* for every current member.  Writing a message to the daemon and ordering *)
(* it are one step: until a receiver reaches the message in its inbox      *)
(* nobody can tell a slow network from a slow receiver.                    *)
(***************************************************************************)
EXTENDS Account, FiniteSets

CONSTANTS
    NumberOfReplicas,   \* args[2]: how many members a replica waits for
    Commands,           \* the commands the input files may contain
    Amounts,            \* amounts of deposit commands
    Percents,           \* percentages of addInterest commands
    CanCrash,           \* the replicas that may fail
    CanEnd,             \* the replicas whose threads an exception may end
    PromptStart,        \* the start-up traffic takes less than ten seconds
    MaxTransactions,    \* bound: transactions issued by a process of each replica
    MaxInFlight,        \* bound: no round starts over a longer backlog
    MaxRestarts         \* bound: how often a replica is started again

ASSUME BankAssumption ==
    /\ IsFiniteSet(Replica)
    /\ NumberOfReplicas \in Nat
    /\ Commands \subseteq {"deposit", "addInterest", "getSyncedBalance",
                           "cleanHistory", "exit"}
    /\ Amounts \subseteq Int
    /\ Percents \subseteq Nat
    /\ CanCrash \subseteq Replica
    /\ CanEnd \subseteq Replica
    /\ PromptStart \in BOOLEAN
    /\ MaxTransactions \in [Replica -> Nat]
    /\ MaxInFlight \in Nat
    /\ MaxRestarts \in Nat

VARIABLES
    \* The process of each replica.
    phase,              \* where the main thread is
    client,             \* ReplicatedStateMachine.replica
    replicas,           \* ReplicatedStateMachine.replicas
    numberOfReplicas,   \* ReplicatedStateMachine.numberOfReplicas
    initialized,        \* AdvancedListener.alreadyInitializedBalance
    timer,              \* broadcastingExecutor: off, in its delay, or running
    batch,              \* broadcaster: messages of this round still to send
    callback,           \* listener: messages its callback still has to send
    restarts,           \* how often the replica was started again
    ended,              \* threads a ConcurrentModificationException has ended
    \* The Spread daemon.
    members,            \* the group
    inbox,              \* per replica, delivered by the daemon, not yet read
    \* History variables, with no counterpart in the code.
    ledger,             \* the states the account goes through as the daemon
                        \* orders deposits and interests
    trail               \* per inbox entry, the length of the ledger once the
                        \* entry was ordered

view    == <<replicas, numberOfReplicas, initialized>>
other   == <<restarts, ended>>
process == <<phase, client, view, timer, batch, callback, other>>
spread  == <<members, inbox>>
history == <<ledger, trail>>
vars    == <<process, spread, history>>

Phase     == {"start", "joined", "waiting", "running", "exiting", "leaving",
              "down"}
Connected == {"joined", "waiting", "running", "exiting", "leaving"}
Timer     == {"off", "delay", "on"}
Thread    == {"broadcaster", "listener"}

Entry == [kind : {"join"}, who : Replica, members : SUBSET Replica]
    \cup [kind : {"left"}, members : SUBSET Replica]
    \cup [kind : {"regular"}, tx : Transaction]

Joined(r, group)  == [kind |-> "join", who |-> r, members |-> group]
Left(group)       == [kind |-> "left", members |-> group]
Regular(t)        == [kind |-> "regular", tx |-> t]

\* The account after everything ordered so far.
Latest == ledger[Len(ledger)]
-----------------------------------------------------------------------------
(***************************************************************************)
(* The daemon.                                                             *)
(***************************************************************************)
\* A message sent to the group reaches every member, the sender included.
Multicast(t) ==
    /\ ledger' = IF Apply(Latest, t) = Latest THEN ledger
                 ELSE Append(ledger, Apply(Latest, t))
    /\ inbox' = [s \in Replica |-> IF s \in members
                                   THEN Append(inbox[s], Regular(t))
                                   ELSE inbox[s]]
    /\ trail' = [s \in Replica |-> IF s \in members
                                   THEN Append(trail[s], Len(ledger'))
                                   ELSE trail[s]]
    /\ UNCHANGED members

\* A change of the membership is announced to those who remain.
Announce(group, e) ==
    /\ members' = group
    /\ inbox' = [s \in Replica |-> IF s \in group THEN Append(inbox[s], e)
                                                  ELSE inbox[s]]
    /\ trail' = [s \in Replica |-> IF s \in group THEN Append(trail[s], Len(ledger))
                                                  ELSE trail[s]]
    /\ UNCHANGED ledger

\* The listener takes the next message off the connection.
TakeNext(r) ==
    /\ inbox' = [inbox EXCEPT ![r] = Tail(@)]
    /\ trail' = [trail EXCEPT ![r] = Tail(@)]
    /\ UNCHANGED <<members, ledger>>
-----------------------------------------------------------------------------
(***************************************************************************)
(* Main thread: connect() and joinGroup().                                 *)
(***************************************************************************)
Join(r) ==
    /\ phase[r] = "start"
    /\ phase' = [phase EXCEPT ![r] = "joined"]
    /\ Announce(members \cup {r}, Joined(r, members \cup {r}))
    /\ UNCHANGED <<client, view, timer, batch, callback, other>>

\* connect() returns, startBroadcastingExecutor() arms the timer.
Start(r) ==
    /\ phase' = [phase EXCEPT ![r] = "running"]
    /\ timer' = [timer EXCEPT ![r] = "delay"]

\* synchronized (group) { if (replicas.length < numberOfReplicas) wait(); }
CheckReplicas(r) ==
    /\ phase[r] = "joined"
    /\ \/ /\ Cardinality(replicas[r]) < numberOfReplicas[r]
          /\ phase' = [phase EXCEPT ![r] = "waiting"]
          /\ UNCHANGED timer
       \/ /\ Cardinality(replicas[r]) >= numberOfReplicas[r]
          /\ Start(r)
    /\ UNCHANGED <<client, view, batch, callback, other, spread, history>>
-----------------------------------------------------------------------------
(***************************************************************************)
(* The outstanding collection is an ArrayList without a lock.  Two threads *)
(* iterate over it: the broadcaster in sendMessages, and the listener in   *)
(* the stream that looks for the transaction to remove.  Each finds out at *)
(* the next element that another thread has changed the list, and nobody   *)
(* catches its ConcurrentModificationException: the executor drops all     *)
(* later rounds, Spread's listener thread ends.  Nothing has been sent,    *)
(* removed or executed by then.  The step is that of the change, by which  *)
(* some of those iterating are hit; an iteration that no change meets is   *)
(* one step.                                                               *)
(***************************************************************************)
Iterating(r) ==
    {i \in Thread \ ended[r] :
        /\ client[r].outstandingCollection # <<>>
        /\ CASE i = "broadcaster" -> timer[r] = "on" /\ batch[r] = <<>>
             [] i = "listener"    ->
                    /\ phase[r] \in Connected
                    /\ callback[r] = <<>>
                    /\ inbox[r] # <<>>
                    /\ Head(inbox[r]).kind = "regular"
                    /\ Head(inbox[r]).tx.type # "UPDATE_BALANCE"
                    /\ ~AlreadyExecuted(client[r].executedList, Head(inbox[r]).tx)}

\* Some of the threads that were iterating end.
Interrupt(r, threads) ==
    /\ \E hit \in SUBSET (Iterating(r) \cap threads) :
           /\ hit # {} => r \in CanEnd
           /\ ended' = [ended EXCEPT ![r] = @ \cup hit]
    /\ UNCHANGED restarts

(***************************************************************************)
(* Main thread: the commands of parseInput.  getQuickBalance, getHistory,  *)
(* checkTxStatus, memberInfo and sleep only read and print.                *)
(***************************************************************************)
\* addOutstandingCollection, under the eyes of the other two threads.
Issue(r, type, amount, percent) ==
    /\ phase[r] = "running"
    /\ client[r].outstandingCounter < MaxTransactions[r]
    /\ client' = [client EXCEPT ![r] = AddOutstandingCollection(@,
                      NewTransaction(r, @, type, amount, percent))]
    /\ Interrupt(r, Thread)
    /\ UNCHANGED <<phase, view, timer, batch, callback, spread, history>>

DepositCommand(r) ==
    /\ "deposit" \in Commands
    /\ \E amount \in Amounts : Issue(r, "DEPOSIT", amount, 0)

AddInterestCommand(r) ==
    /\ "addInterest" \in Commands
    /\ \E percent \in Percents : Issue(r, "INTEREST", 0, percent)

\* Nothing outstanding: the request is queued behind the others' changes.  With
\* something outstanding the current balance is printed at once.
GetSyncedBalanceCommand(r) ==
    /\ "getSyncedBalance" \in Commands
    /\ client[r].outstandingCollection = <<>>
    /\ Issue(r, "SYNCED_BALANCE", 0, 0)

CleanHistoryCommand(r) ==
    /\ "cleanHistory" \in Commands
    /\ phase[r] = "running"
    /\ client' = [client EXCEPT ![r] = ClearExecutedTransactions(@)]
    /\ UNCHANGED <<phase, view, timer, batch, callback, other, spread,
                   history>>
-----------------------------------------------------------------------------
(***************************************************************************)
(* Main thread: exit().                                                    *)
(***************************************************************************)
ExitCommand(r) ==
    /\ "exit" \in Commands
    /\ phase[r] = "running"
    /\ phase' = [phase EXCEPT ![r] = "exiting"]
    /\ UNCHANGED <<client, view, timer, batch, callback, other, spread,
                   history>>

\* Everything outstanding has come back: stop the executors, leave the group.
\* A round that takes longer than the ten seconds of awaitTermination goes on.
\* The leaver gets a last membership message, whose getMembers() is null.
Leave(r) ==
    /\ phase[r] = "exiting"
    /\ client[r].outstandingCollection = <<>>
    /\ phase' = [phase EXCEPT ![r] = "leaving"]
    /\ timer' = [timer EXCEPT ![r] = "off"]
    /\ members' = members \ {r}
    /\ inbox' = [s \in Replica |->
                    CASE s \in members' -> Append(inbox[s], Left(members'))
                      [] s = r          -> Append(inbox[s], Left({}))
                      [] OTHER          -> inbox[s]]
    /\ trail' = [s \in Replica |-> IF s \in members \cup {r}
                                   THEN Append(trail[s], Len(ledger))
                                   ELSE trail[s]]
    /\ UNCHANGED <<client, view, batch, callback, other, ledger>>

\* connection.remove and disconnect, which cannot interrupt a callback; then
\* System.exit.  SpreadShutdown has the locks involved.
Disconnect(r) ==
    /\ phase[r] = "leaving"
    /\ callback[r] = <<>>
    /\ phase' = [phase EXCEPT ![r] = "down"]
    /\ batch' = [batch EXCEPT ![r] = <<>>]
    /\ inbox' = [inbox EXCEPT ![r] = <<>>]
    /\ trail' = [trail EXCEPT ![r] = <<>>]
    /\ UNCHANGED <<client, view, timer, callback, other, members, ledger>>
-----------------------------------------------------------------------------
(***************************************************************************)
(* Broadcaster: scheduleWithFixedDelay(..., 10, 10, SECONDS).              *)
(***************************************************************************)
StartTraffic(e) ==
    e.kind = "join" \/ (e.kind = "regular" /\ e.tx.type = "UPDATE_BALANCE")

StartupSettled ==
    \A s \in Replica : /\ callback[s] = <<>>
                       /\ \A i \in DOMAIN inbox[s] : ~StartTraffic(inbox[s][i])

\* The ten seconds before the first round are over.
InitialDelay(r) ==
    /\ timer[r] = "delay"
    /\ PromptStart => StartupSettled
    /\ timer' = [timer EXCEPT ![r] = "on"]
    /\ UNCHANGED <<phase, client, view, batch, callback, other, spread,
                   history>>

\* Bound: what is waiting at the sender and where somebody reads.
WithinBacklog(r) ==
    \A s \in members : \/ Len(inbox[s]) < MaxInFlight
                       \/ s # r /\ "listener" \in ended[s]

\* Mutant: the latest transaction is sent first.
BroadcastRoundReversed(r) ==
    /\ timer[r] = "on"
    /\ "broadcaster" \notin ended[r]
    /\ batch[r] = <<>>
    /\ client[r].outstandingCollection # <<>>
    /\ WithinBacklog(r)
    /\ batch' = [batch EXCEPT ![r] = Reverse(client[r].outstandingCollection)]
    /\ UNCHANGED <<phase, client, view, timer, callback, other, spread,
                   history>>

\* Mutant: schedule instead of scheduleWithFixedDelay.
BroadcastRoundOnce(r) ==
    /\ timer[r] = "on"
    /\ "broadcaster" \notin ended[r]
    /\ timer' = [timer EXCEPT ![r] = "off"]
    /\ batch' = [batch EXCEPT ![r] = client[r].outstandingCollection]
    /\ UNCHANGED <<phase, client, view, callback, other, spread, history>>

\* sendMessages builds one message per outstanding transaction ...
BroadcastRound(r) ==
    /\ timer[r] = "on"
    /\ "broadcaster" \notin ended[r]
    /\ batch[r] = <<>>
    /\ client[r].outstandingCollection # <<>>
    /\ WithinBacklog(r)
    /\ batch' = [batch EXCEPT ![r] = client[r].outstandingCollection]
    /\ UNCHANGED <<phase, client, view, timer, callback, other, spread,
                   history>>

\* ... and multicasts them one after the other.
BroadcastNext(r) ==
    /\ batch[r] # <<>>
    /\ Multicast(Head(batch[r]))
    /\ batch' = [batch EXCEPT ![r] = Tail(@)]
    /\ UNCHANGED <<phase, client, view, timer, callback, other>>
-----------------------------------------------------------------------------
(***************************************************************************)
(* Listener: AdvancedListener.regularMessageReceived.                      *)
(***************************************************************************)
Receiving(r, kind) ==
    /\ phase[r] \in Connected
    /\ "listener" \notin ended[r]
    /\ callback[r] = <<>>
    /\ inbox[r] # <<>>
    /\ Head(inbox[r]).kind = kind

\* for (executedTransaction : executedTransactions) ... return;
ReceiveExecuted(r) ==
    /\ Receiving(r, "regular")
    /\ AlreadyExecuted(client[r].executedList, Head(inbox[r]).tx)
    /\ TakeNext(r)
    /\ UNCHANGED process

\* case DEPOSIT, INTEREST and SYNCED_BALANCE.
Execute(c, t) ==
    CASE t.type = "DEPOSIT"        -> Deposit(c, t)
      [] t.type = "INTEREST"       -> AddInterest(c, t)
      [] t.type = "SYNCED_BALANCE" -> GetSyncedBalance(c, t)

\* An own transaction is removed, which a round being built may notice.
ReceiveTransaction(r) ==
    /\ Receiving(r, "regular")
    /\ LET t == Head(inbox[r]).tx
       IN  /\ ~AlreadyExecuted(client[r].executedList, t)
           /\ t.type # "UPDATE_BALANCE"
           /\ client' = [client EXCEPT ![r] = Execute(@, t)]
           /\ Interrupt(r, IF AlreadyExecuted(client[r].outstandingCollection, t)
                           THEN {"broadcaster"} ELSE {})
    /\ TakeNext(r)
    /\ UNCHANGED <<phase, view, timer, batch, callback>>

\* case UPDATE_BALANCE: only the first one a process sees counts.
ReceiveUpdateBalance(r) ==
    /\ Receiving(r, "regular")
    /\ LET t == Head(inbox[r]).tx
       IN  /\ ~AlreadyExecuted(client[r].executedList, t)
           /\ t.type = "UPDATE_BALANCE"
           /\ client' = IF initialized[r] THEN client
                        ELSE [client EXCEPT ![r] = SetBalance(@, t.balance)]
           /\ initialized' = [initialized EXCEPT ![r] = TRUE]
    /\ TakeNext(r)
    /\ UNCHANGED <<phase, replicas, numberOfReplicas, timer, batch, callback,
                   other>>

(***************************************************************************)
(* Listener: AdvancedListener.membershipMessageReceived.                   *)
(***************************************************************************)
\* Mutant: main is notified only when there are more members than expected.
ReceiveJoinLate(r) ==
    /\ Receiving(r, "join")
    /\ LET e == Head(inbox[r])
       IN  /\ replicas' = [replicas EXCEPT ![r] = e.members]
           /\ IF phase[r] = "waiting" /\ Cardinality(e.members) > numberOfReplicas[r]
              THEN Start(r) ELSE UNCHANGED <<phase, timer>>
    /\ TakeNext(r)
    /\ UNCHANGED <<client, numberOfReplicas, initialized, batch, callback,
                   other>>

\* A join: remember the members, wake main up, and unless it is our own join
\* build the UPDATE_BALANCE for the newcomer.
ReceiveJoin(r) ==
    /\ Receiving(r, "join")
    /\ LET e == Head(inbox[r])
       IN  /\ replicas' = [replicas EXCEPT ![r] = e.members]
           /\ \/ /\ phase[r] = "waiting"
                 /\ Cardinality(e.members) >= numberOfReplicas[r]
                 /\ Start(r)
              \/ /\ \/ phase[r] # "waiting"
                    \/ Cardinality(e.members) < numberOfReplicas[r]
                 /\ UNCHANGED <<phase, timer>>
           /\ callback' = IF e.who = r THEN callback
                          ELSE [callback EXCEPT ![r] =
                                  <<NewTransaction(r, client[r], "UPDATE_BALANCE",
                                                   client[r].balance, 0)>>]
    /\ TakeNext(r)
    /\ UNCHANGED <<client, numberOfReplicas, initialized, batch, other>>

\* sendMessage(transaction); with more members than ever before the history
\* is sent as well.
SendUpdateBalance(r) ==
    /\ callback[r] # <<>>
    /\ Head(callback[r]).type = "UPDATE_BALANCE"
    /\ Multicast(Head(callback[r]))
    /\ \/ /\ Cardinality(replicas[r]) > numberOfReplicas[r]
          /\ numberOfReplicas' = [numberOfReplicas EXCEPT
                                    ![r] = Cardinality(replicas[r])]
          /\ callback' = [callback EXCEPT ![r] = client[r].executedList]
       \/ /\ Cardinality(replicas[r]) <= numberOfReplicas[r]
          /\ callback' = [callback EXCEPT ![r] = <<>>]
          /\ UNCHANGED numberOfReplicas
    /\ UNCHANGED <<phase, client, replicas, initialized, timer, batch, other>>

\* sendMessages(missedTransactions)
SendMissed(r) ==
    /\ callback[r] # <<>>
    /\ Head(callback[r]).type # "UPDATE_BALANCE"
    /\ Multicast(Head(callback[r]))
    /\ callback' = [callback EXCEPT ![r] = Tail(@)]
    /\ UNCHANGED <<phase, client, view, timer, batch, other>>

\* A leave or a disconnect: remember the members.
ReceiveLeft(r) ==
    /\ Receiving(r, "left")
    /\ replicas' = [replicas EXCEPT ![r] = Head(inbox[r]).members]
    /\ TakeNext(r)
    /\ UNCHANGED <<phase, client, numberOfReplicas, initialized, timer, batch,
                   callback, other>>
-----------------------------------------------------------------------------
(***************************************************************************)
(* Failures: a process dies, the daemon sees its connection close and      *)
(* announces the departure; a stopped replica is started again under the   *)
(* same name, with nothing remembered.                                     *)
(***************************************************************************)
Crash(r) ==
    /\ r \in CanCrash
    /\ phase[r] \in Connected
    /\ phase' = [phase EXCEPT ![r] = "down"]
    /\ timer' = [timer EXCEPT ![r] = "off"]
    /\ batch' = [batch EXCEPT ![r] = <<>>]
    /\ callback' = [callback EXCEPT ![r] = <<>>]
    /\ members' = members \ {r}
    /\ inbox' = [s \in Replica |->
                    CASE s = r -> <<>>
                      [] s # r /\ s \in members /\ r \in members ->
                             Append(inbox[s], Left(members'))
                      [] OTHER -> inbox[s]]
    /\ trail' = [s \in Replica |->
                    CASE s = r -> <<>>
                      [] s # r /\ s \in members /\ r \in members ->
                             Append(trail[s], Len(ledger))
                      [] OTHER -> trail[s]]
    /\ UNCHANGED <<client, view, other, ledger>>

Restart(r) ==
    /\ phase[r] = "down"
    /\ restarts[r] < MaxRestarts
    /\ restarts' = [restarts EXCEPT ![r] = @ + 1]
    /\ phase' = [phase EXCEPT ![r] = "start"]
    /\ client' = [client EXCEPT ![r] = NewClient]
    /\ replicas' = [replicas EXCEPT ![r] = {}]
    /\ numberOfReplicas' = [numberOfReplicas EXCEPT ![r] = NumberOfReplicas]
    /\ initialized' = [initialized EXCEPT ![r] = FALSE]
    /\ ended' = [ended EXCEPT ![r] = {}]
    /\ UNCHANGED <<timer, batch, callback, spread, history>>
-----------------------------------------------------------------------------
Init ==
    /\ phase = [r \in Replica |-> "start"]
    /\ client = [r \in Replica |-> NewClient]
    /\ replicas = [r \in Replica |-> {}]
    /\ numberOfReplicas = [r \in Replica |-> NumberOfReplicas]
    /\ initialized = [r \in Replica |-> FALSE]
    /\ timer = [r \in Replica |-> "off"]
    /\ batch = [r \in Replica |-> <<>>]
    /\ callback = [r \in Replica |-> <<>>]
    /\ restarts = [r \in Replica |-> 0]
    /\ ended = [r \in Replica |-> {}]
    /\ members = {}
    /\ inbox = [r \in Replica |-> <<>>]
    /\ ledger = <<EmptyAccount>>
    /\ trail = [r \in Replica |-> <<>>]

Main(r) ==
    \/ Join(r) \/ CheckReplicas(r)
    \/ DepositCommand(r) \/ AddInterestCommand(r)
    \/ GetSyncedBalanceCommand(r)
    \/ CleanHistoryCommand(r)
    \/ ExitCommand(r) \/ Leave(r) \/ Disconnect(r)

Broadcaster(r) == InitialDelay(r) \/ BroadcastRound(r) \/ BroadcastNext(r)

Listener(r) ==
    \/ ReceiveExecuted(r) \/ ReceiveTransaction(r) \/ ReceiveUpdateBalance(r)
    \/ ReceiveJoin(r) \/ SendUpdateBalance(r) \/ SendMissed(r)
    \/ ReceiveLeft(r)

Next == \E r \in Replica : \/ Main(r) \/ Broadcaster(r) \/ Listener(r)
                           \/ Crash(r) \/ Restart(r)

Spec == Init /\ [][Next]_vars
-----------------------------------------------------------------------------
(***************************************************************************)
(* Types of the variables: what the fields of the processes and the queues *)
(* of the daemon can hold.                                                 *)
(***************************************************************************)
ProcessTypeOK ==
    /\ phase \in [Replica -> Phase]
    /\ client \in [Replica -> ClientState]
    /\ replicas \in [Replica -> SUBSET Replica]
    /\ numberOfReplicas \in [Replica -> Nat]
    /\ initialized \in [Replica -> BOOLEAN]
    /\ timer \in [Replica -> Timer]
    /\ batch \in [Replica -> Seq(Transaction)]
    /\ callback \in [Replica -> Seq(Transaction)]
    /\ restarts \in [Replica -> Nat]
    /\ ended \in [Replica -> SUBSET Thread]

SpreadTypeOK ==
    /\ members \in SUBSET Replica
    /\ inbox \in [Replica -> Seq(Entry)]
    /\ ledger \in Seq(AccountState)
    /\ ledger # <<>>
    /\ trail \in [Replica -> Seq(Nat)]
    /\ \A r \in Replica : Len(trail[r]) = Len(inbox[r])

TypeOK == ProcessTypeOK /\ SpreadTypeOK

Ids(transactions) == {transactions[i].uniqueId : i \in DOMAIN transactions}

Executed(r)    == Ids(client[r].executedList)
Outstanding(r) == Ids(client[r].outstandingCollection)

(***************************************************************************)
(* Members that have read everything delivered to them, and whose          *)
(* callbacks have sent all they had to, have the same balance and the same *)
(* history: "the balance of all replicas should be the same" (README.md).  *)
(***************************************************************************)
CaughtUp(r) == inbox[r] = <<>> /\ callback[r] = <<>>

Agreement ==
    \A r, s \in members :
        CaughtUp(r) /\ CaughtUp(s) => Copy(client[r]) = Copy(client[s])

(***************************************************************************)
(* Every change a replica has issued is outstanding or executed there, so  *)
(* checkTxStatus, which looks for the id in the executed list, tells the   *)
(* changes that have been applied from those that have not.  (For inputs   *)
(* without getSyncedBalance, whose ids are never listed.)                  *)
(***************************************************************************)
NothingLost ==
    \A r \in Replica : \A k \in 0 .. client[r].outstandingCounter - 1 :
        <<r, k>> \in Outstanding(r) \cup Executed(r)

(***************************************************************************)
(* A replica's own transactions come back in the order in which it issued  *)
(* them, whatever is sent again: none that is still outstanding is as old  *)
(* as one that is executed.  In particular no outstanding transaction is   *)
(* already in the executed list, where regularMessageReceived would return *)
(* before removing it and exit() would wait for it for ever.               *)
(***************************************************************************)
OwnOrder ==
    \A r \in Replica : \A e \in Executed(r), o \in Outstanding(r) :
        e[1] = r => e[2] < o[2]

(***************************************************************************)
(* The executed list never names a transaction twice, however often it is  *)
(* broadcast or replayed.                                                  *)
(***************************************************************************)
ListedOnce ==
    \A r \in Replica : LET list == client[r].executedList
                       IN  \A i, j \in DOMAIN list :
                               list[i].uniqueId = list[j].uniqueId => i = j

(***************************************************************************)
(* No wakeup is lost: when main waits although enough members have joined, *)
(* the join that will notify it is still to be read.                       *)
(***************************************************************************)
NoLostWakeup ==
    \A r \in Replica :
        phase[r] = "waiting" /\ Cardinality(members) >= numberOfReplicas[r]
            => \E i \in DOMAIN inbox[r] :
                   /\ inbox[r][i].kind = "join"
                   /\ Cardinality(inbox[r][i].members) >= numberOfReplicas[r]

-----------------------------------------------------------------------------
(***************************************************************************)
(* The replicas implement the abstract account: the client of each replica *)
(* is its copy, and the ledger is the order chosen by the daemon.          *)
(***************************************************************************)
IssuedId == UNION {{r} \X (0 .. MaxTransactions[r] - 1) : r \in Replica}

Change ==
         [uniqueId : IssuedId, type : {"DEPOSIT"},
          balance : Amounts, percent : {0}]
    \cup [uniqueId : IssuedId, type : {"INTEREST"},
          balance : {0}, percent : Percents]

Bank == INSTANCE BankAccount WITH copy <- [r \in Replica |-> Copy(client[r])]

ImplementsBank == Bank!BankSpec
-----------------------------------------------------------------------------
(***************************************************************************)
(* Liveness.  While no exception has ended them, the executor runs the     *)
(* broadcaster every ten seconds and Spread's listener thread delivers     *)
(* what has arrived; main polls the outstanding collection once a second   *)
(* while it exits.  A thread that has ended takes no step, and fairness    *)
(* asks none of it.  Nothing makes a user issue commands, and nothing      *)
(* restarts a replica.                                                     *)
(***************************************************************************)
Fairness == \A r \in Replica : /\ WF_vars(Broadcaster(r))
                               /\ WF_vars(Listener(r))
                               /\ WF_vars(Leave(r))

FairSpec == Spec /\ Fairness

\* A transaction that is issued is executed and no longer outstanding,
\* unless its replica stops first, or an exception ends a thread of it.
IssuedIsExecuted ==
    \A r \in Replica : \A k \in 0 .. MaxTransactions[r] - 1 :
        <<r, k>> \in Outstanding(r)
            ~> \/ phase[r] = "down"
               \/ ended[r] # {}
               \/ <<r, k>> \in Executed(r) \ Outstanding(r)

\* What one replica has executed, every member executes whose listener
\* thread lives: the sequence of changes is the same for all the replicas that
\* do not fail, also when the sender's threads end.
ExecutedByAll ==
    \A id \in IssuedId : \A s \in Replica :
        (\E r \in Replica : id \in Executed(r)) /\ s \in members
            ~> \/ s \notin members
               \/ "listener" \in ended[s]
               \/ id \in Executed(s)

\* exit() stops waiting: what is outstanding comes back.  When the broadcaster
\* or the listener thread has ended, nothing may, and exit() polls for ever.
ExitCompletes ==
    \A r \in Replica :
        phase[r] = "exiting" ~> phase[r] \in {"leaving", "down"} \/ ended[r] # {}
=============================================================================
