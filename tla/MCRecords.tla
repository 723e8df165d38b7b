----------------------------- MODULE MCRecords ------------------------------
(***************************************************************************)
(* Instances of Records for TLC: two users who want one address, and three *)
(* records of the first, which go to the second or vanish with their       *)
(* owner.  A stored unit is four sub-units: the amounts are stored rounded *)
(* up, rounded down, as they are, as nothing, and one below zero.          *)
(***************************************************************************)
EXTENDS RecordReads, TLC

R(t, a, cur, d, c) ==
    [type |-> t, amount |-> a, currency |-> cur, date |-> d, category |-> c, user_id |-> "ann"]

MCInserts ==
    [r \in Row |-> CASE r \in User -> {[email |-> "a@x", role |-> "viewer"]}
                     [] r = "r1" -> {R("income", 22, "USD", 11, "job")}
                     [] r = "r2" -> {R("expense", 1, "USD", 12, "home")}
                     [] OTHER -> {R("expense", 9, "EUR", 13, "home")}]
MCUpdates ==
    [r \in Row |-> CASE r \in User -> {[email |-> "b@x", role |-> "admin"]}
                     [] r = "r1" -> {[amount |-> 12, user_id |-> "bob", deleted_at |-> "null"],
                                     [type |-> "expense", date |-> 31]}
                     [] OTHER -> {[type |-> "transfer", amount |-> -7], [deleted_at |-> "time"]}]
MCQueries == {[f \in {} |-> f], [user_id |-> "ann", type |-> "expense", start_date |-> 12, end_date |-> 29]}
Handlers == Permutations(Worker)
=============================================================================
