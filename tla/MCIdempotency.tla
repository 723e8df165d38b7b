--------------------------- MODULE MCIdempotency ---------------------------
(* Instances of Idempotency for TLC. *)
EXTENDS Idempotency, TLC

Pay == [user |-> "ann", key |-> "k", body |-> "pay"]
Other == [user |-> "ann", key |-> "k", body |-> "other"]
Unkeyed == [user |-> "ann", key |-> "none", body |-> "pay"]

AnyRequest == {Pay, Other, Unkeyed}
Retried == {Pay}

Handlers == Permutations(Worker)
=============================================================================
