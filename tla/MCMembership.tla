---------------------------- MODULE MCMembership ----------------------------
(* Membership for TLC: interchangeable requests and accounts.                *)
EXTENDS Membership, TLC

Symmetry == Permutations(Request) \cup Permutations(Account)
=============================================================================
