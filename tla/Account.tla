------------------------------- MODULE Account ------------------------------
(***************************************************************************)
(* The account the replicas are copies of: a balance and the changes it is *)
(* made of.  A serial machine applies deposits and interests one at a time *)
(* and ignores a change whose id it has applied before.                    *)
(***************************************************************************)
EXTENDS Client

AccountState == [balance : Int, executedList : Seq(Transaction)]

EmptyAccount == [balance |-> 0, executedList |-> <<>>]

IsChange(t) == t.type \in {"DEPOSIT", "INTEREST"}

NewBalance(balance, t) ==
    IF t.type = "DEPOSIT" THEN balance + t.balance
                          ELSE (balance * (100 + t.percent)) \div 100

Apply(a, t) ==
    IF IsChange(t) /\ ~AlreadyExecuted(a.executedList, t)
    THEN [balance |-> NewBalance(a.balance, t),
          executedList |-> Append(a.executedList, t)]
    ELSE a

\* The part of a client that is meant to be replicated.
Copy(c) == [balance |-> c.balance, executedList |-> c.executedList]
=============================================================================
