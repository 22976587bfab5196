----------------------------- MODULE MCPonsLive -----------------------------
(* Instances of PonsLifecycle and of the Outbox its notifications go to,   *)
(* for TLC, one at a time.                                                 *)
EXTENDS PonsLifecycle, Outbox

CONSTANTS t1, t2, n1, n2

VARIABLE part

LiveInit == part \in {"pons", "outbox"} /\ Init /\ OutboxInit

LiveNext ==
    \/ part = "pons" /\ Next /\ UNCHANGED <<part, outboxVars>>
    \/ part = "outbox" /\ OutboxNext /\ UNCHANGED <<part, vars>>

LiveSpec ==
    /\ LiveInit /\ [][LiveNext]_<<part, vars, outboxVars>>
    /\ part = "pons" => WF_vars(LoopStep) /\ WF_vars(WorkerStep)
    /\ OutboxFairness
=============================================================================
