# A verification of the replicated bank account

The repository holds a bank account that is replicated over a Spread group: every replica
is a Java process with a copy of the account, deposits and interests are multicast to the
group, and every replica applies what it receives. The repository contains Spread 4.0.0 as
well, whose daemon orders the messages and announces who is in the group. This directory models
the Java program, the protocols of the Spread daemon and Spread's client libraries in
TLA+, checks them with TLC on small instances, and proves with TLAPS that the most important
properties hold for every instance.

Paths below are relative to the repository; `RSM` is
`src/main/java/com/in5020/group4/ReplicatedStateMachine.java`, `AL` is `listener/AdvancedListener.java`,
`Client` is `client/Client.java`, `SC` is `spread-src-4.0.0/java/spread/SpreadConnection.java`; the C files
are in `spread-src-4.0.0/daemon`, `libspread` and `stdutil`.

1. Inventory
2. Modules
3. Runs
4. Proofs
5. Where the code does not keep its promise
6. Not modelled
7. Plan

## 1. Inventory

| Component | State | Operations | Correct when |
|---|---|---|---|
| `Client` | balance, executed list, outstanding collection, two counters | deposit, addInterest, getSyncedBalance, addOutstandingCollection, setBalance, setExecutedTransactions | a transaction is applied at most once, and leaves the outstanding collection when it is |
| main thread (`RSM`) | where it is; the expected number of members | connect and wait, the commands, exit | it wakes up when the members are there; exit ends, and only when nothing is outstanding |
| broadcaster (`RSM` 112-120, 212-228) | an executor with a ten second delay, the messages of the current round | multicast the outstanding collection | what is issued reaches everybody in the order of issue, however often it is sent |
| listener (`AL`) | `alreadyInitializedBalance`, the member list | regular message, join, leave or disconnect | all members end with the same balance and history; a newcomer gets the state |
| `SpreadConnection` (`SC`) | connected, listeners, command buffer, two monitors, the listener thread | add, connect, remove, disconnect, the listener loop | the socket is not closed under the reader; exit ends |
| daemon: groups (`groups.c`) | groups with their members per daemon, the state of the exchange | join, leave, kill, data, transitional and regular memberships, GROUPS messages | daemons agree on the groups; clients get the same views and messages |
| daemon: sessions (`session.c`) | table and hash of sessions, backlog per session | accept, authorise, read, deliver, write, badger, kill | a client gets an unbroken stream; a killed session disappears; nobody inherits its name |
| daemon: ring (`protocol.c`, `flow_control.c`) | packets, aru, token, timers | token, packets, retransmissions, hurry, delivery | one numbering, one order, safe means everywhere, everything is delivered |
| daemon: membership (`membership.c`) | SEG, REPRESENTED, GATHER, FORM, EVS, OP; lists of representatives | alive, join, refer, form1, form2, time-outs | who goes on together has the same messages and the same ring |
| C library (`sp.c`) | table of sessions, two locks per descriptor | connect, disconnect, multicast, receive, kill | messages are sent and received whole, whoever else uses the descriptor |
| Flush library (`fl.c`) | connections, groups, queues, views | flush, join, leave, multicast, receive, disconnect | a message is delivered in the view it was sent in; a connection is freed when unused |
| stdutil | dynamic and circular array, linked list, hash table, skip list | all calls that change one | what is stored is found, in order, also when an allocation fails |

How they interact. The three threads of a Java process share the `Client` and the static fields of
`RSM` without a lock (only the wait for the members uses a monitor). Main adds to the outstanding
collection; the broadcaster reads it; the listener removes from it when the transaction comes
back from the daemon. The listener also sends: when somebody joins, it multicasts its balance
(`UPDATE_BALANCE`) and, if the group is larger than it has ever been, its executed list. A
process talks to a daemon over a socket (`SpreadConnection`, in C `sp.c`, with `fl.c` above it); in the daemon
a session hands its requests to the ring, the ring delivers messages and memberships in one
order to `groups.c`, and that writes to the sessions of the members.

What is hard.

* Every outstanding transaction is sent again until it has come back, so duplicates
  are normal, and the executed list is the only thing that recognises them; `cleanHistory` empties
  that list. A join starts a state transfer that runs concurrently with changes. Ids are the name
  and a counter that starts at 0 in every process. exit waits for other threads, first for the
  listener to empty the outstanding collection and then for the listener thread to die.
* Descriptors are used again by the operating system: in the daemon while a KILL of the former
  owner is still in the ring, in the libraries between two steps of a call.
* Daemons lose tokens and packets and the configuration changes again while it is being changed;
  flush views change again while they are being flushed.
* The libraries unlock while they wait, and look at the same data before and after.

`PROJECT.json` lists these hazards at their lines, with the properties that would catch them.

## 2. Modules

| Module | Models | Used by |
|---|---|---|
| `Client` | `Client`, `Transaction`, `TransactionType`: operators from the old record to the new one | all of the bank |
| `Account` | the replicated part of a client and the effect of one transaction on it | `BankAccount`, `ReplicatedBank` |
| `BankAccount` | abstract specification: a ledger of account states that every copy walks through | `ReplicatedBank` (`INSTANCE`) |
| `ReplicatedBank` | `RSM`, `AL` and the daemon's group, composed | `MCReplicatedBank`, proofs |
| `SpreadShutdown` | exit against Spread's Java listener thread, at the level of monitors | `MCConnections`, proofs |
| `SpreadClient` | `sp.c`: threads that send, receive, connect and disconnect | `MCConnections`, proofs |
| `FlushConnection` | `fl.c`: reservations and locks of a connection | `MCConnections`, proofs |
| `SpreadFlush` | `fl.c`: the protocol of flush views | `MCLibraries` |
| `StdMemory`, `StdArr`, `StdCarr`, `StdDll`, `StdHash`, `StdSkl` | the containers of stdutil | `MCLibraries` |
| `StdArrays` | the array and the circular array side by side, and what both promise | `MCLibraries`, proofs |
| `SpreadSession` | `session.c` | `MCSpreadSession`, proofs |
| `SpreadGroups` | `groups.c`, over the contract of the ring | `MCSpreadGroups` |
| `SpreadDelivery` | packets, addresses, delivery, installing a membership | `SpreadMembership` |
| `SpreadMembership` | the membership algorithm, as operators on a daemon's record | `SpreadRing` |
| `SpreadRing` | the token protocol; daemons, network and timers composed | `MCSpreadRing` |
| `ReplicatedBankProofs`, `BankSafetyProofs`, `FixedGroupProofs` | theorems about the bank, each module on top of the one before | |
| `SpreadShutdownProofs`, `SpreadClientProofs`, `FlushConnectionProofs` | theorems about the connections | |
| `SpreadSessionProofs` | theorems about the daemon's sessions | |
| `StdArraysProofs` | theorems about the two arrays | |

The `MC` modules give constants their values. `MCConnections` and `MCLibraries` put components side
by side that do not interact: their variable `used` names, once and for all, the one that is at work
while the others stay in their initial state, so one run checks each of them separately.

### ReplicatedBank

State. `phase` is where the main thread is: `start`, `joined` (connected, not yet past the check of
the member count), `waiting` (in `group.wait()`), `running`, `exiting` (in the loop of exit),
`leaving` (has called `group.leave()`), `down`. `client`, `replicas`, `numberOfReplicas` and
`initialized` are fields of the code. `timer` and `batch` are the broadcaster: in its delay or
on, and the messages of the round it has still to send. `callback` holds the messages a callback
of the listener has still to send; while it is not empty no other message is read. `ended` are the
threads that a ConcurrentModificationException has ended. `members` and `inbox` are the daemon. `ledger` and `trail` are history variables: the states the account goes through
if transactions are applied in the daemon's order, and for every queued message the length of
the ledger when it was ordered. Nothing in the program reads them; they serve the refinement.

Steps. One action per command, per callback case and per multicast. A callback is atomic up to its
sends; a round is built in one step and its messages are sent one at a time. Multicasting and
ordering are one step: until a receiver reaches the message nobody can tell a slow network
from a slow receiver. This is sound because `spread.conf` names a single daemon, which reads its
clients one message at a time, and messages of one client keep their order (a TCP connection).

The daemon follows `Sess_deliver_message`, `G_handle_join`, `G_handle_leave`, `G_handle_kill`: a
regular message goes to all members, the sender included; a membership change is announced to
those who are members after it, and a leaver gets a last message of its own.

Data. Amounts are integers and interest is rounded down where the code uses `double`. Both are
functions of the old balance and the transaction, so whether two replicas compute the same balance
is decided by the transactions and their order in both. Two different sequences could give
the same rounded balance; the executed list, which `Agreement` and the refinement compare as
well, tells them apart. Ids are pairs instead of strings. Command texts, output files and
prints are left out, and so are commands that only read.

Threads that end. The outstanding collection is an `ArrayList` without a lock. `sendMessages` iterates over it
(`RSM` 216), and so does the stream by which the listener looks for the transaction to remove (`Client` 35, 50, 67), while
main adds to it and the listener removes from it. Nobody catches the exception of an iteration that
meets a change: the executor drops all later rounds, or Spread's listener thread ends. `Iterating` says which threads may be
in the middle of an iteration in a state, and `Interrupt`, a part of every action that changes the list, lets any of them end there.
They have done nothing else by then, so an iteration that ends is no step of its own. `CanEnd` names the replicas to which
this may happen. Where it is empty a safety property loses nothing: without fairness a thread that has
ended is one that never takes a step again.

Failures. `Crash` ends a process at any point, also between two multicasts of a round; `Restart` starts
it again with an empty state under the same name. The daemon does not fail and loses nothing.

### Connections: SpreadShutdown, SpreadClient, FlushConnection

`SpreadShutdown`: `connectionLock` and `listenersynchro` are the two monitors; `main` and `thread` the
program counters of the main and the listener thread. `remove` and `disconnect` find
`callingListeners` set or not; when set, the command goes into `listenerBuffer` (two elements, each a
step) and the listener thread executes it later. `ListenerMayFail` lets a callback throw or the read
fail. The module starts from `connection.add` because the listener is added before the connection exists.

`SpreadClient`: every thread's call is a program counter with its local variables; `Mbox_mutex` has
the send and the recv lock of each descriptor number. `Struct_mutex` is held for moments only, so what
is done under it is part of one step. A message is a header, groups and data, written and read in
separate steps; a receive without room for it and without DROP_RECV keeps the header in the session
(`recv_message_saved`). Who had no room may ask again in any way, with DROP_RECV too, as the documentation tells
programs to. When that drops data, the code leaves the saved header behind (section 5); the history variable `stale`
names the connections on which that has happened. One thing the library leaves to the program that uses it is the named
constant `AwaitCalls`: nobody connects while a call that uses an older connection of the same number is left.
`SP_poll`, the time-out of connecting and `fork` are left out.

`FlushConnection`: `glob_conns_lock`, and per connection `reserve_lock`, `conn_lock`, `recv_lock` and the count of
reservations, with each place where a call of `fl.c` locks, unlocks or waits as a program counter. The
message queue is its length. `FL_disconnect` waits for the last reservation in one `cond_wait` that
is not in a loop (fl.c:183); spurious wakeups are left out, and so is DONT_BLOCK.

### SpreadFlush and the containers

`SpreadFlush` has one group, whose memberships and messages Spread orders (`inbox`); `fl` is `fl_group`, and
`hist` what a user was given. The user reads what is queued before other calls. Left out are
subgroup casts and private groups. A membership caused by the network ends the client, because
`determine_leavers` (fl.c:2028) dereferences the bytes of a name: it is one of the ways to end.

The containers are records with the fields of the C structures: blocks are functions from positions,
allocation may fail at every call, and iterators are positions. `StdDll` has addresses, the lowest free
one is taken; `StdSkl` links nodes at every level, of any heights; `StdHash` probes over inactive nodes.
Sizes wrap at the width given as a constant. What is done twice or wrong in the code is done
so here: `++size` when `stdhash_put` overwrites, a hinted `stdskl_put` that duplicates a key,
the size that runs below zero in `stddll_low_rerase` (stddll.c:220, 230).

### The daemon: SpreadSession, SpreadGroups, SpreadRing

`SpreadSession` has the clients of one daemon. `Fd` are descriptors: a new connection gets the lowest
free one. `down` are the messages given to the ring, which come back in this order. A client that does
not read makes its socket full at any point, also within a message. At `WATER_MARK` waiting messages the ring
blocks the users, which is `blocked` here.

`SpreadGroups` has several daemons. `q[d]` is what the ring has ordered for daemon `d` and `d` has not yet
handled; `NewConf` splits or merges the configuration at any time and puts a transitional and a
regular membership into the queues, as the contract of the ring says (the properties of
`SpreadRing`). Every handler of `groups.c` is an operator on a daemon's record; `fatal` is an alarm with SPLOG_FATAL, which exits.

`SpreadRing` composes the records of the daemons (`dm`) with the network. One token is on its way to each
daemon and one control message to anybody; both may be lost, and a new one takes the place of an
old one. Packets may overtake each other. Timers run out at any time, within the bounds. The clock stands
still, so identifiers of memberships have to be told apart without it. `dm[d].exit` is a daemon that ended
itself. Which uninitialised value a daemon number can have is the constant `Garbage`.

## 3. Runs

| Run | Properties | Instance |
|---|---|---|
| `fixed_group` | `Agreement`, `NothingLost`, `ImplementsBank` | 2 replicas that wait for each other, 2 changes each (deposits and interests), either may crash, symmetry |
| `fixed_liveness` | `IssuedIsExecuted`, `ExecutedByAll`, `ExitCompletes` | 2 replicas that wait for each other, one issues 2 deposits and the other 1, both exit, one may crash, exceptions may end the broadcaster and the listener of both |
| `startup` | `NoLostWakeup` | 3 replicas that wait for 2 members, no commands, one crashes and comes back |
| `open_group` | `OwnOrder`, `ListedOnce` | 2 replicas that do not wait, a deposit, a queued read and `cleanHistory` as commands, 2 transactions of one and 1 of the other |
| `shutdown` | `NoReadAfterClose`, `DirectRemoveEnds` | Java: up to 3 messages on the socket, a failing listener |
| | `OneMessage`, `WholeMessages` | `sp.c`: a receiver, a receiver and sender, and a thread that connects and disconnects; 2 connections of one number |
| | `ReclaimedUnused`, `QueueNotPassedBy`, `DisconnectEnds` | `fl.c`: a receiver, a thread that receives and disconnects, one that connects and sends; 2 connections |
| `libraries` | `ArraysRight`, `CopiesSound`, `LinksRight`, `LookupsRight` | containers of up to 3 or 4 elements, all sequences of calls, any allocation fails |
| | `SendingView`, `FlushSynchrony`, `SettledWhenQuiet` | 3 clients, 2 in the first view, one leaves or ends, 2 changes, a reliable message |
| `session` | `NoBugAlarm`, `HandlerFinds`, `NameStillOwned`, `StraysOnlyByReuse`, `StreamIntact`, `KilledAreRemoved` | 3 clients, two of which ask for the same name, 2 places in the table, a backlog of 1 |
| `groups` | `FatalOnlyByReliable`, `GroupsAgree`, `ListsConsistent`, `ViewsAgree`, `VirtualSynchrony` | 3 daemons, 2 clients, one group, 2 changes of the configuration, a request; data is RELIABLE and may overtake |
| `ring` | `SeqUnique`, `SafeIsStable`, `AllDeliver` | 3 daemons in 2 segments, an agreed and a safe message, one loss, 3 hurries |
| `membership` | `VirtualSynchrony`, `SameMembership`, `AgreedOrder` | daemons 1 and 2 of 3, that start, merge, or were left by the third with a ring of 3 messages: one lacks the second, and the first is delivered by one of them, or lost to both |
| `v_late_join` | violation of `Agreement` | 2 replicas that do not wait, 1 deposit |
| `v_restart` | violation of `ExitCompletes` | 2 replicas that do not wait, 1 deposit each, one crashes and comes back |

What the runs of the bank show together is where the program keeps its promise: with a group whose
members all wait for each other before the first change, without `cleanHistory` and without restarts,
the account is sequentially consistent in spite of crashes, exits and duplicates, and live as long as no
exception ends a thread: the liveness properties except the replica whose broadcaster or listener has ended, whose
transactions may stay outstanding and whose exit() may poll for ever. `Agreement` is about members that have read
everything and have nothing left to send from a callback.
`cleanHistory` empties the list by which `checkTxStatus` answers and duplicates are recognised, so
`NothingLost` and `Agreement` are only claimed for inputs without it; own transactions come back in order
even then, and no list names one twice.

### Bounds

* `MaxTransactions` bounds what one process issues. Two suffice for two own transactions in one
  round (order of issue, a crash between them) next to those of the other replica; `fixed_group` has two for both,
  `fixed_liveness` and `open_group` for one of them.
* `MaxInFlight` limits how long a queue may be when a round starts, not the queue itself. With 2 a
  round can start while a message is queued, so the same transaction is queued more than once; with
  3 there are three copies. Inboxes of other replicas whose listener thread has ended do not count.
* `MaxRestarts` bounds starts under the same name. One is enough to reuse an id.
* Two replicas are enough for an issuer and another member; `startup` has three because a member
  can go while another comes. For the bank the theorems remove these bounds.
* `MaxMessages`, `MaxIncoming`, `MaxOutgoing`, `MaxQueue` bound messages, `MaxSessions` and `MaxConns` connections.
  Two connections with one number are a stale call and the one that took its number.
* `WATER_MARK`, `MAX_SESSION_MESSAGES`, `MAX_SESSIONS`, `BufSize`, `FLOK_AGE_LIMIT`, `ARQ`, `SLOTS`, `Window` are the
  code's own limits made small, so that they are reached.
* `MaxConf`, `MaxFlight`, `MaxRequests` bound changes of the configuration, messages between daemons and
  requests. Two changes are one that interrupts the exchange of the one before.
* `MaxForms` is the number of form1 tokens, `MaxFaults` of losses and of time-outs that are not forced,
  `MaxRetrans` of hurries. Two form tokens are a failed attempt and another, or two crossing ones. `ring` has none: what a recovery has to
  keep is a matter of `membership`. Up is
  two of three daemons in `membership`: the third is one that the others remember and wait for.
* Container sizes go past one reallocation and back; hash codes collide, and `STDARR_MIN_AUTO_ALLOC` is 2 (1 in the
  hash table) so that growing and shrinking happen with so few elements.

`CHECK_DEADLOCK FALSE` is set in all runs: a user who has no more commands, replicas that are
all down, and bounds that are reached are legitimate ends. That nobody is stuck where they should not be
is said by the liveness properties, and by `SettledWhenQuiet`, instead.

### PromptStart

`UPDATE_BALANCE` messages of the start-up overwrite the receiver's balance, and nothing in the code
orders them before the first deposits; only the ten seconds before the first round do. `PromptStart`
is this timing assumption: a broadcaster starts its rounds when the joins and the balances sent
because of them have been read. The runs and the theorems of the fixed group assume it. Without it a
deposit can be overwritten by a balance from before it: with two replicas on both of them (the refinement
fails, `Agreement` does not), with three only on the last one to join, since the others have had their
first `UPDATE_BALANCE` before. The run of the open group does not assume it.

### Fairness

* `ReplicatedBank!FairSpec` has weak fairness of each replica's broadcaster (an executor with a fixed delay),
  its listener (Spread's thread polls the socket every 100 ms) and `Leave` (exit polls once a second). The executor
  runs no round after one that threw an exception, and the listener thread may end likewise: the actions of a thread in
  `ended` are disabled, so fairness asks nothing of it. The run lets this happen to every thread of every replica.
  Commands, crashes and restarts are never forced. The bound `MaxInFlight` can only delay a round until the
  listeners have read what is queued; being fair, they do.
* `SpreadShutdown`: both threads are scheduled; arrivals and failures are not forced. `FlushConnection`: a
  thread that is in a call goes on when it can (`InCall`); messages need not come. `SpreadClient` has none:
  its properties are safety properties.
* `SpreadSession`: what is given to the ring is sent and comes back, and an accepted connection is gone on
  with. Clients need not read or send.
* `SpreadRing!FairSpec`: what is on its way arrives in the end (tokens, packets, control messages), and the
  timer of a leader that waits for the token runs out. Losses are bounded by `MaxFaults`.

## 4. Proofs

Every theorem below holds for every value of the constants that the module's `ASSUME` allows: any number of
replicas, threads, descriptors, connections and messages, and all commands, amounts and failures. Where a
theorem assumes more, that is named.

| Module | Theorem | Statement |
|---|---|---|
| `ReplicatedBankProofs` | `TypeCorrect` | `Spec => []TypeOK` |
| | `NeverListedTwice` | `Spec => []ListedOnce` |
| `BankSafetyProofs` | `NothingGetsLost` | `Spec => []NothingLost`, for inputs without getSyncedBalance and cleanHistory |
| | `NoWakeupIsLost` | `Spec => []NoLostWakeup` |
| | `OwnOrderKept` | `Spec => []OwnOrder`, without restarts |
| `FixedGroupProofs` | `MembersAgree` | `Spec => []Agreement`, in a fixed group |
| | `FixedGroupIsBank` | `Spec => ImplementsBank`, in a fixed group |
| `SpreadShutdownProofs` | `MonitorsHeld` | `Spec => []ShutdownTypeOK` |
| | `SocketOutlivesReader` | `Spec => []NoReadAfterClose` |
| `FlushConnectionProofs` | `ReclaimedAreUnused` | `FlConnSpec => []ReclaimedUnused` |
| | `QueueIsServedFirst` | `FlConnSpec => []QueueNotPassedBy` |
| `SpreadClientProofs` | `SentWhole` | `SpSpec => []WholeMessages`, if `AwaitCalls` |
| | `ReceivedWhole` | `SpSpec => []OneMessage`, if `AwaitCalls` |
| `SpreadSessionProofs` | `NoAlarmMet` | `SessSpec => []NoBugAlarm` |
| | `HandlersFindTheirs` | `SessSpec => []HandlerFinds` |
| | `NamesNotInherited` | `SessSpec => []NameStillOwned` |
| | `StraysByReuseOnly` | `SessSpec => []StraysOnlyByReuse` |
| | `StreamsUnbroken` | `SessSpec => []StreamIntact` |
| `StdArraysProofs` | `ArraysHold` | `ArraysSpec => []ArraysRight` |
| | `CopiesStayInside` | `ArraysSpec => []CopiesSound` |

`ReplicatedBankProofs` begins with the lemmas about the operators of `Client` and `Account` that the bank's proofs rest on:
`RemoveFirstMatch` removes at most the first transaction with the id and keeps the rest in order, the effect of
each operator on each field, and that `Apply` returns an account.

### Types and lists

`TypeOK` is inductive as it stands; the work is in the record updates and the queues (appending for
members only, `trail` as long as `inbox`). `ListedOnce` is inductive together with it: every action
leaves the executed list alone, empties it, or appends a transaction whose id is not in it
(`ListSteps`). The last case rests on the guard of `ReceiveTransaction`, `AL` 32-38.

### Nothing lost

`LossInv` adds to `TypeOK` that, without the command getSyncedBalance, no such request is outstanding, sent or listed.
A transaction leaves the outstanding collection only in the step that puts it in the executed list, or when
it is already there. getSyncedBalance is excluded because its ids are never listed, and
cleanHistory because it empties the list.

### No lost wakeup

`WakeInv`: who is a member is exactly who is connected and has not left; a replica that waits has read no
join that was large enough (`WaitsForMore`; its callback would have notified it), and the member counts in
its inbox are those the group went through since, the last one being the current group
(`ChangesForetold`). So if the group is large enough the join that made it so is still unread. Leaves
only make the group smaller.

### Own order

`OrderInv`. A number is *awaited* while the transaction with it is outstanding, *pending* when it has no copy
in the own inbox either. The numbers a replica issues increase (`Numbered`) and so does its outstanding
collection; a copy in the own inbox is behind copies of all older awaited ones (`InboxInOrder`); what is
anywhere else (another inbox, list or callback) is older than all that are pending (`ElsewhereOlder`); and
a round of the broadcaster sends the pending ones in order (`RoundInOrder`). A transaction that
somebody else replays can therefore not come before an older one that is still outstanding. It needs
`MaxRestarts = 0`: a restarted replica starts with number 0 again, and `v_restart` shows the consequence.

### The fixed group

`FixedGroup` is how the assignment means the program to be started: every replica waits for all the others, none
is started again, no history is cleared, and the start-up takes less than the broadcaster's ten seconds
(`PromptStart`). `v_late_join` shows that `Agreement` fails when a replica does not wait for all.

`AgreeInv` has two stages. Until the first round of a broadcaster nothing is executed anywhere
(`NothingExecuted`), and only balances of zero circulate. A broadcaster is started only by a replica that has
heard of everybody (`OthersWaitedFor`), so from then on nobody joins (`NobodyJoins`), no callback sends anything, and
an inbox holds only changes, requests and departures. The invariant for this stage, `OnLedger`: taking the
messages of an inbox one after the other leads from the replica's copy along `trail` through the ledger, to the
ledger's end for a member. Where the inbox is empty the copy is the end of the ledger: `Agreement`.

For the refinement `BankInv` adds that a number of an issuer means one change (`UniqueNumbers`), that what is executed or
on its way to a member is on the ledger (`Committed`), that each member has executed what is on the ledger or has it in its
inbox (`MembersLearn`), and that a round multicasts what is outstanding or on the ledger (`RoundKnown`). With
`OrderInv` the first multicast of a change comes from a member whose older changes are all on the ledger. Then each step of `ReplicatedBank` is a `Commit`, a `Learn`
or a stutter of `BankAccount`. Both invariants were checked with TLC on the instance of `fixed_group`
before they were proved.

### SpreadShutdown

`ShutdownTypeOK` says who is in which monitor, by the program counters; it is not inductive alone, since that
disconnect can find the listener thread gone rests on who cleared the field `listener`: `ThreadStarted`, `ThreadListed`,
`EndedLast` (a closed connection has a dead listener thread) and `LeaveCounted` complete it.

### FlushConnection

`FlInv`. A connection in the table is open and not being ended (`TableHeld`), one thread at most
ends a connection (`EndedByOne`), and the count of reservations is at least the number of calls between
reserving and cancelling (`ReservationsCounted`, with equality lost by fl.c:775, see below). A call reserves
while the table is locked, so `FL_disconnect` has not passed the erasing, and it reclaims only at a count
of zero (`SignalledWhenNone`). For the queue: one call has `recv_lock`, and only that one takes from or adds to
the queue (`ReaderHolds`); it goes on to wait for Spread in the step in which it found the queue empty.

### SpreadClient

`NumbersInv`: the entries of the table have different numbers, each is the connection its descriptor is, and a call
that has looked its session up has that session's connection or a closed one (`TableRight`, `OneNumber`, `CallsRight`).
This needs `AwaitCalls`. `SendInv` adds `SendersInTurn`: a header without its data at the end of a stream is that of the
thread which has the send lock and stands before sending the data. `ReadInv` describes the other direction: a stream is a
chain of header, groups and data (`Chains`); the parts a reader has kept and what the stream begins with fit
together (`ReadersInTurn`); and between two readers the session's flag and saved header say whether the
stream is at a header or behind one (`SavedRight`). It is claimed of the connections on which no data has been dropped behind a kept
header (not `stale`); on others the stream and the saved header no longer fit, and receives that end there are `mixed`. The proofs were preceded by runs of the invariants with two mailboxes
and all calls by all threads.

`AwaitCalls` is an obligation of the program that uses the library; the library does not enforce it.

### SpreadSession

`SessInv`, for any number of clients, names, descriptors and limits. A session is killed at once but
stays in the table and under its mailbox until its KILL message has been through the ring, while the kernel gives the
descriptor to the next connection. So mailboxes are not unique, and each property needs to know which of
several sessions is meant:

* `SocketsRight`, `TableRight`, `HashRight`: the open sockets are those of the connection being accepted and of the
  sessions not killed, with different descriptors; names in the table are unique and it is not overfull;
  the hash lists exactly the table.
* `RingRight`: what the ring holds is of authorized sessions; a killed session's KILL message is in it, and nothing of that
  session comes after it. This is why a name is not inherited.
* `ReuseRight`: of two sessions hashed under one mailbox the later one in the list is killed, its KILL message is before everything the
  newer one has in the ring, and the newer one is not yet a member. Hence a lookup, which takes the first, finds the open one;
  and the removal of a member by its mailbox does not remove the newer one's.
* `GroupRight`, `HandlersRight`, `TimersRight`, `StreamsRight`: members are authorized and the group's mailboxes are theirs; a handler or
  timer belongs to an open session in the status the handler expects; what has been written and the queue are together the messages.

The parts take the state's components as arguments, since a handler changes them one after the other (several
`Sess_kill` in one delivery) and the lemmas about the calls (`Sess_kill`, `Sess_write`, `G_send_..`) hold in between. `SessInv` was
checked with TLC on three clients, two with one name, before it was proved.

### The arrays of stdutil

The runs have arrays of up to 3 or 4 elements; `ArraysInv` says for every size, element and minimal block that the block
has `cap` cells, the fields agree (one cell of a circular array that has a block stays free, `begin` is a cell and `end` is `size` cells
behind it, `CarrShape`), and the `k`-th element is in the `k`-th cell, counted from `begin` and around the end
of the block (`Holds`, `CarrHolds`). What a resize adds is unspecified, so nothing is said of its contents. No bound and no assumption but the `ASSUME`s
of the modules is used.

The work is in the four shifts of `stdcarr.c`. `InsertShiftedRight`, `InsertShiftedLeft`, `EraseShiftedLeft` and
`EraseShiftedRight` each go through the five or six cases of the code: the elements lie in one piece or around the end
of the block, before and after the shift, and what moves is smaller or larger than what has to cross the end. In each
case the copies are taken in the order of the code, the source and the target of each are inside the block, those of a
`memcpy` apart (`MovedApart`), and no copy reads a cell that an earlier one has overwritten. `GapOpened` and
`GapClosed` add the growth and the shrinking, which put the elements at the start of a new block; `RoomFilled` the writing of new
elements around the end. From these follows one step for each call (`ArrStep`, `CarrStep`).

### Only model-checked

* Liveness (`IssuedIsExecuted`, `ExecutedByAll`, `ExitCompletes`, `DirectRemoveEnds`, `DisconnectEnds`, `KilledAreRemoved`,
  `AllDeliver`): out of the prover's reach, like `ENABLED`.
* `SpreadGroups`, `SpreadMembership`, `SpreadRing` and `SpreadFlush`: no invariant is proved.
  Their inductive invariants relate the contents of all daemons' queues and records at once, and merging group lists and
  exchanging holes are folds over data.
* The list, the hash table and the skip list of stdutil: what follows a chain of links or of probes is computed by recursion over
  data, and induction over data is out of reach of the installed provers.

## 5. Where the code does not keep its promise

Shown by a run against a line of the documentation:

| Run | What the code does |
|---|---|
| `v_late_join` | A newcomer is sent the balance and then the transactions it is made of, and counts them twice (`AL` 95-102; README.md 25). The documented configuration, three replicas with `numberOfReplicas` 2, has such a newcomer. |
| `v_restart` | A restarted replica reuses ids. Once its old transactions have been replayed to it, a new one with the same id is never removed from the outstanding collection, and exit never ends (`AL` 32-38, `RSM` 370; README.md 23, 27). |

Met while modelling, taken into the models as the code has it unless stated, and without a run of their own:

* `RSM` 248-258: getSyncedBalance prints at once exactly when something is outstanding, against README.md 79.
* `RSM` 216, 117: when main or the listener changes the outstanding collection during a round, the broadcaster ends with a
  ConcurrentModificationException and what is outstanding is not sent again; when main adds to it while the listener
  looks through it (`Client` 35, 50, 67), the listener thread ends. In both cases exit() may poll for ever (`RSM` 370), against
  README.md 23 and 31. `IssuedIsExecuted`, `ExecutedByAll` and `ExitCompletes` except such replicas (`ended`), or in `ExecutedByAll` such
  listeners, and say what remains true.
* `groups.c` 2290: a client's RELIABLE message that overtakes the exchange of groups is handled in GGATHER, where the
  daemon takes it for an error and exits. `FatalOnlyByReliable` says that nothing else leads there.
* `SC` 1558-1563, 1794: the listener thread can take a buffered command before its argument is there, and ends with a
  NoSuchElementException (`ArgumentMissing`).
* `SC` 1798, 1483: a `remove` that comes during a callback makes the listener thread wait for itself, with the
  monitor that `disconnect` needs; against the comment at `SC` 1542. `DirectRemoveEnds` is about a `remove` that does
  not come during a callback.
* `fl.c` 775: a call that finds the connection disconnecting when it looks again leaves its reservation behind, and
  `FL_disconnect` waits for ever; `DisconnectEnds` excepts it (`LeftBehind`). A stale call's `FL_disconnect` may close
  a new connection of the same number.
* `sp.c` 1136-1141, 1279-1284: when sending or receiving fails and the session is gone, the call returns with the
  descriptor's lock held. 1745-1746: when a second try with DROP_RECV drops data the saved header stays, and the next receive
  takes it for its own: it gives the header of one message with the groups and data of others. That is the retry
  docs/Short_Buffer_Handling.txt 70-75 and docs/SP_receive.3 110-115 tell programs to make. The model makes
  it; `OneMessage` excepts the later receives of that connection, and no others. Descriptors reused under a call: `AwaitCalls`. Not modelled:
  1916-1942 (`scat_read` with a wrong length), 375, 389 and 701 (closed twice after a time-out), 232-260 (the second thread
  does not wait for the initialisation), 908-919 (no check for MAX_SESSIONS).
* `membership.c` 2188-2211: `Backoff_membership` tests the packet of another loop's last index, so holes are taken for packets
  and the daemon ends in `Discard_packets`. Around 1967: a late retransmission that fills a reported hole ends
  the daemon. 1556-1568: `Fill_form1` with a stale representative of the segment.
* `protocol.c` 365: after form2 the saved token's aru is 0, and a message may be delivered twice. 577: the recovery can end
  early when the own aru is 0. 805: a request is answered for a hole, whose header is not initialised.
* stdutil: `++size` when a key is overwritten, a hinted put of a skip list that duplicates a key, stddll.c 220 and 230.

## 6. Not modelled

* What an unsynchronised `ArrayList` may do besides throwing a ConcurrentModificationException: lost updates and torn states,
  an iteration that ends one element early, an executed list that `cleanHistory` replaces under a callback (`AL` 33, `RSM` 336).
* Spurious wakeups of `group.wait()` and of the condition variables of `fl.c`.
* In `ReplicatedBank`: several daemons, partitions (`isCausedByNetwork` is ignored by the listener), daemon
  failures, and clients dropped because they read too slowly. `spread.conf` has one daemon.
* Reading and parsing of the input, its random delays, output files, malformed commands.
* In `SpreadRing`: messages of several packets in the network, joins for foreign rings of other segments,
  two segments that merge (the code for it is translated, no run has it).
* In `SpreadGroups`: messages of more than one packet. In `SpreadSession`: several groups.
* `SP_poll`, `SP_connect_timeout`, `fork`, authentication modules of clients, Java's basic listeners.
* The daemon's configuration file and its generated parser, monitor, logging, memory pools, status reports, event
  loop and data link; the examples; stdutil's threads, files and time.

## 7. Plan

Done: all modules of section 2, and the theorems of section 4: every safety property of the bank, of the
connections, of the daemon's sessions and of stdutil's arrays that a run checks is a theorem.

Next, in this order:

1. `SpreadRing`: `SeqUnique` on a ring that does not change (strengthening: the highest sequence number of the live token).
2. `SpreadFlush`: `SendingView`.
3. The executed list replaced under a callback (`AL` 33, `Client` 55, `RSM` 336): the look and the addition as two steps.
