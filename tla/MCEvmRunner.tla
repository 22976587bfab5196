---------------------------- MODULE MCEvmRunner ------------------------------
(* Instances of EvmRunner for TLC.                                         *)
EXTENDS EvmRunner, TLC

CONSTANTS c1, c2

(* A candidate of the first block alone, or one of each of two blocks.     *)
OnlyFirst == c1 :> 1
OneEach == (c1 :> 1) @@ (c2 :> 2)
=============================================================================
