--------------------------- MODULE MCPlatformSync ---------------------------
(* PlatformSync for TLC.  Slots are interchangeable.                         *)
EXTENDS PlatformSync, TLC

Symmetry == Permutations(Exec)
=============================================================================
