----------------------------- MODULE MCMetaSync -----------------------------
(* MetaSync for TLC.  Slots are interchangeable; so are accounts.            *)
EXTENDS MetaSync, TLC

SlotSymmetry == Permutations(Exec)

Symmetry == Permutations(Exec) \cup Permutations(Account)

\* No step of a structure or breakdown run reads remote, camps or structureDone:
\* only insights runs do.  Without those the rest is all there is to tell apart.
WithoutCampaigns == <<queue, delayed, pc, task, calls, row, lock, fresh, active,
                      paused, pct, usage, spent, faults>>
=============================================================================
