---------------------------- MODULE SingleFlight ----------------------------
(***************************************************************************)
(* What the per-(job_type, account) in-flight lock of                      *)
(* workers/rate_limit.py promises: of all the worker slots that may        *)
(* execute the task, at most one is past the lock at any time.  A slot     *)
(* that goes without giving the lock back leaves it behind, and nobody is  *)
(* let in until it has expired.                                            *)
(*                                                                         *)
(* SyncLock, which has the key and its expiry, is shown to implement this  *)
(* module, and so are MetaSync and PlatformSync, which have the lock as    *)
(* one variable, with every message's runs.                                *)
(***************************************************************************)
CONSTANT Slot       \* the worker slots that execute tasks

VARIABLES
  active,    \* the slots that are past the lock
  left       \* the lock has been left behind

lockVars == <<active, left>>

Init == active = {} /\ left = FALSE

Enter(s) == active = {} /\ ~left /\ active' = {s} /\ UNCHANGED left

Leave(s) == active = {s} /\ active' = {} /\ left' \in BOOLEAN

Expire == left /\ left' = FALSE /\ UNCHANGED active

Next == Expire \/ \E s \in Slot : Enter(s) \/ Leave(s)

Spec == Init /\ [][Next]_lockVars
=============================================================================
