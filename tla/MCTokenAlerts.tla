--------------------------- MODULE MCTokenAlerts ---------------------------
(* TokenAlerts for TLC.  Processes are interchangeable.                      *)
EXTENDS TokenAlerts, TLC

Symmetry == Permutations(Proc)
=============================================================================
