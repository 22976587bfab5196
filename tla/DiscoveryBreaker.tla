-------------------------- MODULE DiscoveryBreaker ---------------------------
(***************************************************************************)
(* The state of the discovery session runner, which sends the work of a    *)
(* discovery session to the primary node and, while that is cooling down,  *)
(* to the fallback (src/src/discovery-session.js).                         *)
(*                                                                         *)
(* `open` is openUntil > 0, `cooled` says that openUntil has passed, and   *)
(* `probing` is probeInFlight.  A session is a probe when it goes to the   *)
(* primary while the breaker is open.                                      *)
(***************************************************************************)

Breaker == [open : BOOLEAN, cooled : BOOLEAN, probing : BOOLEAN]

ClosedBreaker == [open |-> FALSE, cooled |-> FALSE, probing |-> FALSE]

(* A session goes to the primary unless it cools down or is being probed.  *)
PrimaryIsNext(b) == (b.open => b.cooled) /\ ~b.probing

Entered(b) == [b EXCEPT !.probing = b.open]

(* The primary did the work: only a probe closes the breaker.              *)
PrimaryDone(b, probe) == IF probe THEN ClosedBreaker ELSE b

(* The primary failed in a way that sends the work to the fallback.        *)
PrimaryFailed(b, probe) ==
    [open |-> TRUE, cooled |-> FALSE, probing |-> b.probing /\ ~probe]

(* The primary failed in a way that goes to the caller.                    *)
PrimaryThrew(b, probe) == [b EXCEPT !.probing = b.probing /\ ~probe]
=============================================================================
