------------------------ MODULE MCCandidatePipeline ------------------------
(* Instances of CandidatePipeline for TLC.                                 *)
EXTENDS CandidatePipeline, TLC

CONSTANTS c1, c2

(* Both candidates are announced onchain, in consecutive blocks.           *)
BothOnchain == (c1 :> 1) @@ (c2 :> 2)

(* The first is announced onchain and may be listed too; the second is     *)
(* only listed.                                                            *)
OneOnchain == (c1 :> 1) @@ (c2 :> 0)

(* A single candidate.                                                     *)
OnlyFirst == (c1 :> 1)
=============================================================================
