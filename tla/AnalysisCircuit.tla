--------------------------- MODULE AnalysisCircuit ---------------------------
(***************************************************************************)
(* The state of the circuit that keeps paid analyses away from a rate      *)
(* limited node (src/src/analysis-rpc-circuit.js).  `cooled` says that     *)
(* openUntil has passed.                                                   *)
(***************************************************************************)

Circuit == [open : BOOLEAN, cooled : BOOLEAN, probing : BOOLEAN, notified : BOOLEAN]

ClosedCircuit ==
    [open |-> FALSE, cooled |-> FALSE, probing |-> FALSE, notified |-> FALSE]

(* enter: an open circuit lets one analysis through once it has cooled.    *)
Admits(c) == c.open => c.cooled /\ ~c.probing

Admitted(c) == [c EXCEPT !.probing = c.open]

(* Mutant: a rate limit met by a probe forgets that the outage was told.   *)
LimitedAgain(c) == [open |-> TRUE, cooled |-> FALSE, probing |-> FALSE, notified |-> FALSE]

(* fail, for a rate limit.                                                 *)
Limited(c) == [open |-> TRUE, cooled |-> FALSE, probing |-> FALSE, notified |-> TRUE]

(* fail, for any other error: it ends a probe as a success does.           *)
Errored(c) ==
    IF c.open /\ c.cooled THEN ClosedCircuit ELSE [c EXCEPT !.probing = FALSE]
=============================================================================
