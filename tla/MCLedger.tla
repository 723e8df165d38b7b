------------------------------ MODULE MCLedger ------------------------------
(***************************************************************************)
(* Instances of Ledger for TLC.  Accounts are interleaved between the two  *)
(* users so that requests lock rows of both, in both directions.           *)
(***************************************************************************)
EXTENDS Ledger

E(a, k, x) == [account |-> a, kind |-> k, amount |-> x, currency |-> ""]

\* Cash, Revenue and Expenses of "ann" (1, 3, 5) and "bob" (2, 4, 6); 7 is an
\* account "ann" creates herself.
MCOwner == [a \in Account |-> IF a % 2 = 1 THEN "ann" ELSE "bob"]
MCDefaultType ==
    [a \in Account |-> CASE a \in {1, 2} -> "asset" [] a \in {3, 4} -> "revenue"
                        [] a \in {5, 6} -> "expense" [] OTHER -> "custom"]

Sale == <<E(1, "debit", 3), E(4, "credit", 3)>>
Refund == <<E(4, "debit", 2), E(1, "credit", 2)>>
Split == <<E(7, "credit", 3), E(4, "debit", 1), E(1, "debit", 2)>>
SameAccount == <<E(1, "debit", 1), E(1, "credit", 1)>>
Huge == <<E(1, "debit", 9), E(4, "credit", 9)>>
Unbalanced == <<E(1, "debit", 3), E(4, "credit", 2)>>
Single == <<E(1, "debit", 3)>>
Negative == <<E(1, "debit", -1), E(4, "credit", -1)>>

\* Three requests that pairwise share one account, listed so that locking in
\* request order would close a ring.
Ring == {<<E(1, "debit", 1), E(2, "credit", 1)>>,
         <<E(2, "debit", 1), E(3, "credit", 1)>>,
         <<E(3, "debit", 1), E(1, "credit", 1)>>}

\* One sub-unit is half a stored unit when Scale = 2.
RoundingRequests == {<<E(1, "debit", 1), E(5, "debit", 1), E(3, "credit", 2)>>}

Balanced == {Sale, Refund, Split, SameAccount, Huge}
MCRequests == Balanced \cup {Unbalanced, Single, Negative}
=============================================================================
