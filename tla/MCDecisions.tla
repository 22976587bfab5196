---------------------------- MODULE MCDecisions -----------------------------
(* Instances of the modules that decide, for TLC, one at a time: which due  *)
(* checks a round takes, what becomes of a candidate, and whether its token *)
(* can be sold.                                                             *)
EXTENDS PendingSelection, CandidatePolicy, Sellability

CONSTANTS p, q, c, x

VARIABLE part

\* A candidate with everything, one with a middling score and one with little that is known.
FewReadings ==
    {[social |-> TRUE, narrative |-> TRUE, holders |-> "spread", creator |-> "small",
      deployer |-> "few", lp |-> "burned"],
     [social |-> FALSE, narrative |-> TRUE, holders |-> "held", creator |-> "unknown",
      deployer |-> "some", lp |-> "partly"],
     [social |-> TRUE, narrative |-> FALSE, holders |-> "unknown", creator |-> "unknown",
      deployer |-> "unknown", lp |-> "burned"]}

Still == CHOOSE k \in Candidate : k.chain = "evm" /\ ~ k.gecko

DecisionsInit ==
    /\ part \in {"selection", "policy", "sell"}
    /\ SelectionInit /\ SellInit
    /\ part # "sell" => kind = "solana"
    /\ IF part = "policy" THEN PolicyInit
       ELSE /\ minScore = 55 /\ cand = Still /\ route = "none" /\ report = NoReport

DecisionsNext ==
    /\ UNCHANGED part
    /\ \/ part = "selection" /\ SelectionNext /\ UNCHANGED <<policyVars, sellVars>>
       \/ part = "policy" /\ PolicyNext /\ UNCHANGED <<selectionVars, sellVars>>
       \/ part = "sell" /\ SellNext /\ UNCHANGED <<selectionVars, policyVars>>

DecisionsSpec ==
    /\ DecisionsInit
    /\ [][DecisionsNext]_<<part, selectionVars, policyVars, sellVars>>
=============================================================================
