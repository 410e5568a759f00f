----------------------------- MODULE MCSyncLock -----------------------------
(* SyncLock for TLC: three worker slots and one token more than slots, so    *)
(* that an orphaned key and three live runs can each have a token.           *)
EXTENDS SyncLock, TLC

Symmetry == Permutations(Slot) \cup Permutations(Token)
=============================================================================
