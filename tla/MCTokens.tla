------------------------------ MODULE MCTokens ------------------------------
(* Instances of Tokens for TLC: request handlers, and users, are interchangeable. *)
EXTENDS Tokens, TLC

Handlers == Permutations(Worker)
Peers == Permutations(User)
=============================================================================
