------------------------------- MODULE Client -------------------------------
(***************************************************************************)
(* One replica's copy of the bank account: Client.java together with the   *)
(* Transaction objects it keeps (Transaction.java, TransactionType.java).  *)
(*                                                                         *)
(* A client is a record; each method that changes it is an operator from   *)
(* the old record to the new one.  Amounts are integers and an interest is *)
(* rounded down; the code uses double.  Rounding is a function of the old  *)
(* balance and the transaction in both, so replicas that apply the same    *)
(* transactions in the same order compute the same balance.                *)
(* A command string is carried only to be printed and is left out.         *)
(***************************************************************************)
EXTENDS Integers, Sequences, SequencesExt

CONSTANT Replica   \* the replica names given on the command line

(***************************************************************************)
(* TransactionType.  NONE is declared in the enum and never constructed.   *)
(***************************************************************************)
TransactionType == {"DEPOSIT", "INTEREST", "SYNCED_BALANCE", "UPDATE_BALANCE"}

\* replicaName + " " + outstandingCounter, as the pair it is made of.
UniqueId == Replica \X Nat

Transaction == [uniqueId : UniqueId, type : TransactionType,
                balance : Int, percent : Nat]

ClientState == [balance               : Int,
                executedList          : Seq(Transaction),
                outstandingCollection : Seq(Transaction),
                orderCounter          : Nat,
                outstandingCounter    : Nat]

\* new Client(0.0, new ArrayList, new ArrayList, 0, 0)
NewClient == [balance |-> 0, executedList |-> <<>>,
              outstandingCollection |-> <<>>,
              orderCounter |-> 0, outstandingCounter |-> 0]

\* The transaction a command builds before it is put in the collection.
NewTransaction(r, c, type, amount, percent) ==
    [uniqueId |-> <<r, c.outstandingCounter>>, type |-> type,
     balance |-> amount, percent |-> percent]

\* Mutant: the counter is not incremented.
AddOutstandingCollectionNoCount(c, t) ==
    [c EXCEPT !.outstandingCollection = Append(@, t)]

AddOutstandingCollection(c, t) ==
    [c EXCEPT !.outstandingCollection = Append(@, t),
              !.outstandingCounter = @ + 1]

\* Mutant: only the transaction executed last is compared.
AlreadyExecutedLast(executedList, t) ==
    executedList # <<>> /\ executedList[Len(executedList)].uniqueId = t.uniqueId

\* executedList.stream().anyMatch(... getUniqueId().equals(...))
AlreadyExecuted(executedList, t) ==
    \E i \in DOMAIN executedList : executedList[i].uniqueId = t.uniqueId

\* outstandingCollection.stream().filter(...).findFirst().ifPresent(remove)
RemoveOutstanding(outstanding, t) ==
    LET Matches(u) == u.uniqueId = t.uniqueId
    IN  RemoveFirstMatch(outstanding, Matches)

GetSyncedBalance(c, t) ==
    IF AlreadyExecuted(c.executedList, t) THEN c
    ELSE [c EXCEPT !.outstandingCollection = RemoveOutstanding(@, t)]

\* Mutant: the deposit is made only where it was outstanding.
DepositOwnOnly(c, t) ==
    IF \A i \in DOMAIN c.outstandingCollection :
           c.outstandingCollection[i].uniqueId # t.uniqueId
    THEN c
    ELSE [c EXCEPT !.outstandingCollection = RemoveOutstanding(@, t),
                   !.balance = @ + t.balance,
                   !.executedList = Append(@, t),
                   !.orderCounter = @ + 1]

\* Mutant: the deposit stays outstanding.
DepositNotRemoved(c, t) ==
    [c EXCEPT !.balance = @ + t.balance,
              !.executedList = Append(@, t),
              !.orderCounter = @ + 1]

Deposit(c, t) ==
    IF AlreadyExecuted(c.executedList, t) THEN c
    ELSE [c EXCEPT !.outstandingCollection = RemoveOutstanding(@, t),
                   !.balance = @ + t.balance,
                   !.executedList = Append(@, t),
                   !.orderCounter = @ + 1]

\* Mutant: the interest is not listed as executed.
AddInterestNotListed(c, t) ==
    [c EXCEPT !.outstandingCollection = RemoveOutstanding(@, t),
              !.balance = (@ * (100 + t.percent)) \div 100,
              !.orderCounter = @ + 1]

AddInterest(c, t) ==
    IF AlreadyExecuted(c.executedList, t) THEN c
    ELSE [c EXCEPT !.outstandingCollection = RemoveOutstanding(@, t),
                   !.balance = (@ * (100 + t.percent)) \div 100,
                   !.executedList = Append(@, t),
                   !.orderCounter = @ + 1]

SetBalance(c, amount) == [c EXCEPT !.balance = amount]

\* setExecutedTransactions(new ArrayList<>()), the effect of cleanHistory.
ClearExecutedTransactions(c) == [c EXCEPT !.executedList = <<>>]
=============================================================================
