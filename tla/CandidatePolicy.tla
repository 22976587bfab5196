-------------------------- MODULE CandidatePolicy ---------------------------
(***************************************************************************)
(* From a candidate to its alert: the gate (src/candidate-gate.js), the    *)
(* score (src/core/score.js), the analysis on the EVM chains and on Solana *)
(* (src/analyze.js, src/solana/analyze.js) and the alert                   *)
(* (src/core/alert-policy.js).  Ages, amounts and thresholds are small     *)
(* numbers; a reading of the chain or an explorer is one of the grades the *)
(* score tells apart; what a deep inspection returns is Sellability's.     *)
(***************************************************************************)
EXTENDS Integers, FiniteSets

CONSTANTS
    MinScores,      \* minScore, the values that are tried
    MaxAge, EarlyCap, MaxCap, MinLiquidity,   \* the thresholds
    Ages, Caps, Liquidities, Flows,           \* bounds: the market figures that are tried
    Waits,          \* bound: the time from the discovery to the analysis
    Readings        \* bound: what the analysis may read besides the market

ASSUME PolicyAssumption ==
    /\ MinScores \subseteq 0 .. 100
    /\ MaxAge \in Nat /\ EarlyCap \in Nat /\ MaxCap \in Nat /\ MinLiquidity \in Nat
    /\ Ages \subseteq Nat /\ Caps \subseteq Nat /\ Liquidities \subseteq Nat /\ Flows \subseteq Nat
    /\ Waits \subseteq Nat

Market == [age : Ages, cap : Caps, liquidity : Liquidities, volume : {0, 1}, buys : Flows, sells : Flows]

\* DexScreener's own figures of the market, 0 where it has none.
NoFigures == [cap |-> 0, liquidity |-> 0, volume |-> 0, buys |-> 0, sells |-> 0]

\* What the analysis reads besides the market.
Reading ==
    [social : BOOLEAN, narrative : BOOLEAN,
     holders : {"unknown", "spread", "held", "concentrated"},
     creator : {"unknown", "small", "some", "large"},
     deployer : {"unknown", "few", "some", "many"},
     lp : {"unknown", "burned", "partly", "none"}]

ASSUME ReadingAssumption == Readings \subseteq Reading

\* What only a deep inspection tells: the labelled buyers, and a tax above the limit.
Depth == [wallets : 0 .. 2, status : {"confirmed", "blocked", "unknown"}, taxed : BOOLEAN]

NotInspected == [wallets |-> 0, status |-> "unknown", taxed |-> FALSE]

VARIABLES
    minScore,    \* the setting
    cand,        \* the candidate: where it comes from and what its event says
    route,       \* what the gate decided
    report       \* the report of the analysis

policyVars == <<minScore, cand, route, report>>

NoReport == [deep |-> FALSE, verdict |-> "none", alert |-> "none"]

Candidate ==
    [chain : {"evm", "solana"}, gecko : BOOLEAN, pending : BOOLEAN, stock : BOOLEAN,
     venue : {"supported", "discovery-only", "disabled"}, sellable : BOOLEAN,
     budget : {"normal", "critical", "exhausted"}, market : Market]

-----------------------------------------------------------------------------
(* The score.                                                              *)

SocialMaximum == 10
OwnershipMaximum == 15
LpMaximum == 12
WalletMaximum == 8

AgePoints(m) == IF m.age <= MaxAge THEN 15 ELSE IF m.age <= 2 * MaxAge THEN 5 ELSE 0

FlowPoints(m) ==
    IF m.volume = 0 THEN 0 ELSE IF m.buys >= m.sells /\ m.buys > 0 THEN 15 ELSE 5

CapPoints(m) == IF m.cap \in 1 .. EarlyCap THEN 10 ELSE IF m.cap \in 1 .. MaxCap THEN 5 ELSE 0

LiquidityPoints(m) ==
    IF m.liquidity < MinLiquidity THEN 0
    ELSE IF m.cap > 0 /\ 5 * m.liquidity >= m.cap THEN 15 ELSE 7

MarketPoints(m) == AgePoints(m) + FlowPoints(m) + CapPoints(m) + LiquidityPoints(m)

SocialPoints(r) == (IF r.social THEN 6 ELSE 0) + (IF r.narrative THEN 4 ELSE 0)

OwnershipPoints(r) ==
    (CASE r.holders = "spread" -> 10 [] r.holders = "held" -> 5 [] OTHER -> 0)
    + (CASE r.creator = "small" -> 3 [] r.creator = "some" -> 1 [] OTHER -> 0)
    + (CASE r.deployer = "few" -> 2 [] r.deployer = "some" -> 1 [] OTHER -> 0)

\* The points of the permissions are given on Solana only: privilegesKnown is never set elsewhere.
LpPoints(r) == CASE r.lp = "burned" -> 10 [] r.lp = "partly" -> 3 [] OTHER -> 0

WalletPoints(d) == CASE d.wallets = 0 -> 0 [] d.wallets = 1 -> 5 [] OTHER -> 8

ScoreOf(m, r, d) == MarketPoints(m) + SocialPoints(r) + OwnershipPoints(r) + LpPoints(r) + WalletPoints(d)

RedFlags(m, r, d) ==
    {f \in {"old", "cap", "liquidity", "holders", "creator", "deployer", "lp", "honeypot", "tax"} :
        CASE f = "old"       -> m.age > 2 * MaxAge
          [] f = "cap"       -> m.cap > MaxCap
          [] f = "liquidity" -> m.liquidity < MinLiquidity
          [] f = "holders"   -> r.holders = "concentrated"
          [] f = "creator"   -> r.creator = "large"
          [] f = "deployer"  -> r.deployer = "many"
          [] f = "lp"        -> r.lp \in {"partly", "none"}
          [] f = "honeypot"  -> d.status = "blocked"
          [] f = "tax"       -> d.taxed}

-----------------------------------------------------------------------------
(* The gate.                                                               *)

PolicyInit ==
    /\ minScore \in MinScores
    /\ cand \in Candidate
    /\ cand.chain = "solana" => ~ cand.gecko /\ cand.venue = "supported" /\ cand.budget = "normal"
    /\ cand.stock => cand.budget = "critical"
    /\ cand.pending \/ cand.venue # "supported" \/ cand.budget = "exhausted" \/ ~ cand.sellable
         => cand.market = CHOOSE m \in Market : TRUE
    /\ route = "none"
    /\ report = NoReport

InspectionFloor == IF minScore >= 10 THEN minScore - 10 ELSE 0

\* Mutant: the best score leaves the ownership out.
UnreadWithoutOwnership == SocialMaximum + LpMaximum + WalletMaximum

UnreadMaximum == SocialMaximum + OwnershipMaximum + LpMaximum + WalletMaximum

\* scoreCandidateUpperBound: of a Gecko candidate with all its figures.
UpperBound(c) == MarketPoints(c.market) + UnreadMaximum

OverBudget(c) == c.budget = "exhausted" \/ (c.budget = "critical" /\ ~ c.stock)

\* routeCandidate, in its order: the pool, the venue, the budget, the inspection, the score.
Gate(c) ==
    CASE c.pending \/ c.venue = "discovery-only" -> "record-only"
      [] ~ c.pending /\ c.venue = "disabled" -> "skip-venue"
      [] OTHER -> IF OverBudget(c) THEN "record-only"
                  ELSE IF ~ c.sellable THEN "skip-venue"
                  ELSE IF c.gecko /\ UpperBound(c) < InspectionFloor THEN "skip-score"
                  ELSE "analyze"

Route ==
    /\ route = "none"
    /\ route' = IF cand.chain = "solana" THEN "analyze" ELSE Gate(cand)
    /\ UNCHANGED <<minScore, cand, report>>

-----------------------------------------------------------------------------
(* The analysis.                                                           *)

Alert(d, score) ==
    IF d.status = "blocked" THEN "risk"
    ELSE IF d.status = "confirmed" /\ score >= minScore THEN "candidate" ELSE "none"

\* A required reading fails or is not indexed yet, or a node limits the rate: the caller
\* retries the candidate.
AnalysisThrows ==
    /\ route = "analyze"
    /\ route' = "retry"
    /\ UNCHANGED <<minScore, cand, report>>

\* scoreFromFacts on the EVM chains.  A green verdict asks for known permissions as well,
\* which the analysis never has.
EvmVerdict(score, red) ==
    IF red \cap {"honeypot", "tax"} = {} /\ score >= minScore THEN "review" ELSE "skip"

Inspected(m, r) == ScoreOf(m, r, NotInspected) >= InspectionFloor

\* The report of an analysis that reads r, and d if it inspects deeply.
EvmReport(m, r, d) ==
    LET depth == IF Inspected(m, r) THEN d ELSE NotInspected
        score == ScoreOf(m, r, depth)
    IN  [deep |-> Inspected(m, r),
         verdict |-> EvmVerdict(score, RedFlags(m, r, depth)), alert |-> Alert(depth, score)]

\* On Solana the holders, the creator and the deployer are not read, the pool's tokens count
\* as burned for a migration of pump.fun alone, and every candidate is inspected: it is
\* confirmed only if nobody controls the mint, and never blocked.
SolanaReading == {r \in Reading : /\ r.holders = "unknown" /\ r.creator = "unknown"
                                 /\ r.deployer = "unknown" /\ r.lp \in {"unknown", "burned"}}

Mint == {"clean", "mintable", "restricted", "unread"}

SolanaReport(m, r, d, mint) ==
    LET score == ScoreOf(m, r, d) + (IF mint \in {"clean", "restricted"} THEN 2 ELSE 0)
        red   == RedFlags(m, r, d) \cup (IF mint \in {"mintable", "restricted"} THEN {"mint"} ELSE {})
    IN  [deep |-> TRUE,
         verdict |-> IF d.status = "confirmed" /\ score >= 75 /\ red = {} THEN "green"
                     ELSE IF score >= minScore THEN "review" ELSE "skip",
         alert |-> Alert(d, score)]

\* The facts of an analysis, some time after the event: a figure of DexScreener goes before
\* the event's own.
FactsOf(m, dex, wait) ==
    [f \in DOMAIN m |-> IF f = "age" THEN m.age + wait
                        ELSE IF dex[f] # 0 THEN dex[f] ELSE m[f]]

Analyze(facts, r, d) ==
    /\ route = "analyze"
    /\ \/ cand.chain = "evm" /\ report' = EvmReport(facts, r, d)
       \/ /\ cand.chain = "solana" /\ r \in SolanaReading /\ ~ d.taxed /\ d.status # "blocked"
          /\ \E mint \in Mint :
                 /\ d.status = "confirmed" => mint = "clean"
                 /\ report' = SolanaReport(facts, r, d, mint)
    /\ route' = "analyzed"
    /\ UNCHANGED <<minScore, cand>>

PolicyNext ==
    \/ Route \/ AnalysisThrows
    \/ \E r \in Readings, d \in Depth, dex \in {NoFigures, cand.market}, wait \in Waits :
           Analyze(FactsOf(cand.market, dex, wait), r, d)

PolicySpec == PolicyInit /\ [][PolicyNext]_policyVars

-----------------------------------------------------------------------------
(* The gate skips a candidate for its score only if no analysis of the same  *)
(* market would have inspected it, reported it or told anybody about it,     *)
(* whatever the other readings and the labelled wallets had been             *)
(* (scoreCandidateUpperBound, routeCandidate; analyze, scoreCandidate).      *)
GateSound ==
    route = "skip-score" =>
        \A r \in Reading, wait \in Waits :
            LET facts == FactsOf(cand.market, NoFigures, wait)
            IN  /\ ~ Inspected(facts, r)
                /\ ScoreOf(facts, r, [NotInspected EXCEPT !.wallets = 2]) < minScore
=============================================================================
