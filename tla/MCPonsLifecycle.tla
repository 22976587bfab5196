-------------------------- MODULE MCPonsLifecycle --------------------------
(* Instances of PonsLifecycle for TLC.                                     *)
EXTENDS PonsLifecycle, TLC

CONSTANTS t1, t2

TokenSymmetry == Permutations(Token)
=============================================================================
