---------------------------- MODULE BankAccount -----------------------------
(***************************************************************************)
(* What the replicated account promises: "all the replicas that do not     *)
(* fail go through the same sequence of changes and end up with the same   *)
(* balance value" (README.md).  There is one ledger of account states.     *)
(* Changes are committed to it one by one, those of one replica in the     *)
(* order in which it issued them, and every replica's copy walks through   *)
(* the ledger without skipping or repeating a state.                       *)
(***************************************************************************)
EXTENDS Account

CONSTANT Change    \* the deposits and interests that may be issued

VARIABLES ledger,  \* the states the account goes through
          copy     \* each replica's copy of the account

bankVars == <<ledger, copy>>

Latest == ledger[Len(ledger)]

\* No change of the same replica with this number or a later one is committed.
InIssueOrder(t) ==
    \A i \in DOMAIN Latest.executedList :
        LET u == Latest.executedList[i]
        IN  u.uniqueId[1] = t.uniqueId[1] => u.uniqueId[2] < t.uniqueId[2]

Commit ==
    \E t \in Change : /\ InIssueOrder(t)
                      /\ ledger' = Append(ledger, Apply(Latest, t))
                      /\ UNCHANGED copy

Learn(r) ==
    \E k \in 1 .. Len(ledger) - 1 :
        /\ copy[r] = ledger[k]
        /\ copy' = [copy EXCEPT ![r] = ledger[k + 1]]
        /\ UNCHANGED ledger

BankInit == /\ ledger = <<EmptyAccount>>
            /\ copy = [r \in Replica |-> EmptyAccount]

BankNext == Commit \/ \E r \in Replica : Learn(r)

BankSpec == BankInit /\ [][BankNext]_bankVars
=============================================================================
