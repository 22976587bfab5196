--------------------------- MODULE DecisionProofs ----------------------------
(***************************************************************************)
(* Proofs about CandidatePolicy, for every threshold and market figure,    *)
(* about Sellability, for every set of wallets and every budget of an      *)
(* inspection, and about PendingSelection, for every limit of a round and  *)
(* every number of due checks.                                             *)
(***************************************************************************)
EXTENDS CandidatePolicy, Sellability, PendingSelection, WellFoundedInduction, TLAPS

-----------------------------------------------------------------------------
(***************************************************************************)
(* The gate's bound.                                                       *)
(***************************************************************************)

(* What a market says some time later, when DexScreener has no figures.    *)
LEMMA Facts_Later ==
    ASSUME NEW m \in Market, NEW wait \in Waits
    PROVE  LET f == FactsOf(m, NoFigures, wait)
           IN  /\ f.age = m.age + wait
               /\ f.cap = m.cap /\ f.liquidity = m.liquidity
               /\ f.volume = m.volume /\ f.buys = m.buys /\ f.sells = m.sells
  BY DEF FactsOf, NoFigures, Market

(* A market gets no points by waiting.                                     *)
LEMMA Points_Later ==
    ASSUME NEW m \in Market, NEW wait \in Waits
    PROVE  /\ MarketPoints(m) \in Nat
           /\ MarketPoints(FactsOf(m, NoFigures, wait)) \in Nat
           /\ MarketPoints(FactsOf(m, NoFigures, wait)) <= MarketPoints(m)
<1> DEFINE f == FactsOf(m, NoFigures, wait)
<1>1. /\ f.age = m.age + wait
      /\ f.cap = m.cap /\ f.liquidity = m.liquidity
      /\ f.volume = m.volume /\ f.buys = m.buys /\ f.sells = m.sells
  BY Facts_Later
<1>2. m.age \in Nat /\ wait \in Nat
  BY PolicyAssumption DEF Market
<1> HIDE DEF f
<1>3. AgePoints(f) \in Nat /\ AgePoints(m) \in Nat /\ AgePoints(f) <= AgePoints(m)
  BY <1>1, <1>2, PolicyAssumption DEF AgePoints
<1>4. FlowPoints(f) = FlowPoints(m) /\ FlowPoints(m) \in Nat
  BY <1>1 DEF FlowPoints
<1>5. CapPoints(f) = CapPoints(m) /\ CapPoints(m) \in Nat
  BY <1>1 DEF CapPoints
<1>6. LiquidityPoints(f) = LiquidityPoints(m) /\ LiquidityPoints(m) \in Nat
  BY <1>1 DEF LiquidityPoints
<1>7. MarketPoints(f) \in Nat /\ MarketPoints(m) \in Nat /\ MarketPoints(f) <= MarketPoints(m)
  BY <1>3, <1>4, <1>5, <1>6 DEF MarketPoints
<1> QED
  BY <1>7 DEF f

(* No reading earns more than the maximum of its category.                 *)
LEMMA Points_Bounded ==
    ASSUME NEW r \in Reading, NEW d, d.wallets \in 0 .. 2
    PROVE  /\ SocialPoints(r) \in 0 .. SocialMaximum
           /\ OwnershipPoints(r) \in 0 .. OwnershipMaximum
           /\ LpPoints(r) \in 0 .. LpMaximum
           /\ WalletPoints(d) \in 0 .. WalletMaximum
<1>1. SocialPoints(r) \in 0 .. SocialMaximum
  BY DEF SocialPoints, SocialMaximum
<1>2. OwnershipPoints(r) \in 0 .. OwnershipMaximum
  <2>1. r.holders \in {"unknown", "spread", "held", "concentrated"}
    BY DEF Reading
  <2>2. r.creator \in {"unknown", "small", "some", "large"}
    BY DEF Reading
  <2>3. r.deployer \in {"unknown", "few", "some", "many"}
    BY DEF Reading
  <2> QED
    BY <2>1, <2>2, <2>3 DEF OwnershipPoints, OwnershipMaximum
<1>3. LpPoints(r) \in 0 .. LpMaximum
  BY DEF LpPoints, LpMaximum, Reading
<1>4. WalletPoints(d) \in 0 .. WalletMaximum
  BY DEF WalletPoints, WalletMaximum
<1> QED
  BY <1>1, <1>2, <1>3, <1>4

(* Whatever else is read, the score stays below the gate's bound.          *)
LEMMA Score_Bounded ==
    ASSUME NEW c \in Candidate, NEW r \in Reading, NEW wait \in Waits,
           NEW d, d.wallets \in 0 .. 2
    PROVE  /\ UpperBound(c) \in Nat
           /\ ScoreOf(FactsOf(c.market, NoFigures, wait), r, d) \in Nat
           /\ ScoreOf(FactsOf(c.market, NoFigures, wait), r, d) <= UpperBound(c)
<1> DEFINE m == c.market
           f == FactsOf(m, NoFigures, wait)
<1>1. m \in Market
  BY DEF Candidate
<1>2. MarketPoints(m) \in Nat /\ MarketPoints(f) \in Nat /\ MarketPoints(f) <= MarketPoints(m)
  BY <1>1, Points_Later
<1>3. /\ SocialPoints(r) \in 0 .. SocialMaximum
      /\ OwnershipPoints(r) \in 0 .. OwnershipMaximum
      /\ LpPoints(r) \in 0 .. LpMaximum
      /\ WalletPoints(d) \in 0 .. WalletMaximum
  BY Points_Bounded
<1> HIDE DEF f
<1>4. UpperBound(c) \in Nat /\ ScoreOf(f, r, d) \in Nat /\ ScoreOf(f, r, d) <= UpperBound(c)
  BY <1>2, <1>3
     DEF UpperBound, ScoreOf, UnreadMaximum, SocialMaximum, OwnershipMaximum, LpMaximum,
         WalletMaximum
<1> QED
  BY <1>4 DEF f

(* A candidate skipped for its score has a bound below the floor.          *)
GateInv ==
    /\ minScore \in 0 .. 100
    /\ cand \in Candidate
    /\ route = "skip-score" => UpperBound(cand) < InspectionFloor

LEMMA Gate_Next == GateInv /\ [PolicyNext]_policyVars => GateInv'
<1> SUFFICES ASSUME GateInv, [PolicyNext]_policyVars PROVE GateInv'
  OBVIOUS
<1>1. minScore' = minScore /\ cand' = cand
  BY DEF PolicyNext, Route, AnalysisThrows, Analyze, policyVars
<1>2. ASSUME route' = "skip-score" PROVE UpperBound(cand) < InspectionFloor
  <2>1. CASE route = "skip-score"
    BY <2>1 DEF GateInv
  <2>2. CASE route # "skip-score"
    <3>1. route' = IF cand.chain = "solana" THEN "analyze" ELSE Gate(cand)
      BY <1>2, <2>2 DEF PolicyNext, Route, AnalysisThrows, Analyze, policyVars
    <3> QED
      BY <3>1, <1>2 DEF Gate
  <2> QED
    BY <2>1, <2>2
<1> QED
  BY <1>1, <1>2 DEF GateInv, InspectionFloor

(* The gate never skips for its score what the analysis of the same market *)
(* would have inspected or alerted on, for every threshold                 *)
(* (scoreCandidateUpperBound, routeCandidate).                             *)
THEOREM GateCorrect == PolicySpec => []GateSound
<1>1. PolicyInit => GateInv
  BY PolicyAssumption DEF PolicyInit, GateInv
<1>2. GateInv => GateSound
  <2> SUFFICES ASSUME GateInv, route = "skip-score", NEW r \in Reading, NEW wait \in Waits
               PROVE  LET facts == FactsOf(cand.market, NoFigures, wait)
                      IN  /\ ~ Inspected(facts, r)
                          /\ ScoreOf(facts, r, [NotInspected EXCEPT !.wallets = 2]) < minScore
    BY DEF GateSound
  <2> DEFINE facts == FactsOf(cand.market, NoFigures, wait)
             most  == [NotInspected EXCEPT !.wallets = 2]
  <2>1. cand \in Candidate /\ UpperBound(cand) < InspectionFloor /\ minScore \in 0 .. 100
    BY DEF GateInv
  <2>2. InspectionFloor \in Nat /\ InspectionFloor <= minScore
    BY <2>1 DEF InspectionFloor
  <2>3. NotInspected.wallets \in 0 .. 2 /\ most.wallets \in 0 .. 2
    BY DEF NotInspected
  <2> HIDE DEF most
  <2>4. /\ UpperBound(cand) \in Nat
        /\ ScoreOf(facts, r, NotInspected) \in Nat
        /\ ScoreOf(facts, r, NotInspected) <= UpperBound(cand)
    BY <2>1, <2>3, Score_Bounded
  <2>5. ScoreOf(facts, r, most) \in Nat /\ ScoreOf(facts, r, most) <= UpperBound(cand)
    BY <2>1, <2>3, Score_Bounded
  <2> HIDE DEF facts
  <2>6. ~ Inspected(facts, r) /\ ScoreOf(facts, r, most) < minScore
    BY <2>1, <2>2, <2>4, <2>5 DEF Inspected
  <2> QED
    BY <2>6 DEF facts, most
<1> QED
  BY <1>1, <1>2, Gate_Next, PTL DEF PolicySpec

-----------------------------------------------------------------------------
(***************************************************************************)
(* The inspection.                                                         *)
(***************************************************************************)

V2Steps == {"quotes", "scan", "sample", "ledger", "ladder", "receipts"}

(* A wallet that sold, as far as the receipts that were read tell.         *)
HasSold(w, read) ==
    \E e \in read :
        /\ e.receipt.sender = w /\ e.receipt.ok /\ e.receipt.sold
        /\ kind \notin Observed => w \in e.sources /\ w \in Person

(* Every counted seller has a receipt; the sample holds persons; and only  *)
(* a buyer whose balance holds is tried.                                   *)
EvidenceOK ==
    /\ sellers \subseteq Wallet \ Excluded
    /\ \A w \in sellers : HasSold(w, receipts)
    /\ balance \in [Wallet -> {"unread", "held", "dust"}]
    /\ buyers \subseteq Person
    /\ ladder \subseteq {w \in buyers : balance[w] = "held"}

(* Which steps an inspection of a kind takes, and what is behind it there. *)
StepOK ==
    /\ kind \in {"robinhood", "registry"} \cup Observed
    /\ step \in V2Steps => kind \notin Observed
    /\ step = "observe" => kind \in Observed
    /\ step \in {"ladder", "receipts"} => \A w \in buyers : balance[w] # "unread"
    /\ status = "confirmed" => step = "done"

SellInv == EvidenceOK /\ StepOK /\ ConfirmedIsEarned

LEMMA Sell_Init == SellInit => SellInv
  BY DEF SellInit, SellInv, EvidenceOK, StepOK, ConfirmedIsEarned, Observed, V2Steps

(* An inspection that ends without a confirmation.                         *)
LEMMA Sell_Ends ==
    ASSUME SellInv, NEW s \in {"retry", "unknown", "blocked"}, EndsWith(s)
    PROVE  SellInv'
  BY DEF EndsWith, SellInv, EvidenceOK, StepOK, ConfirmedIsEarned, HasSold, V2Steps, Observed

(* The steps of an inspection before its receipts.                         *)
LEMMA Sell_Evidence ==
    ASSUME SellInv, step # "done",
           \/ ReadRange \/ SampleBuyer \/ CheckBalance \/ LadderPasses
    PROVE  SellInv'
<1> USE SellabilityAssumption
        DEF SellInv, EvidenceOK, StepOK, ConfirmedIsEarned, HasSold, V2Steps, UntilScan, UntilLadder, UntilReceipts
<1>1. CASE ReadRange
  BY <1>1 DEF ReadRange
<1>2. CASE SampleBuyer
  BY <1>2 DEF SampleBuyer
<1>3. CASE CheckBalance
  BY <1>3 DEF CheckBalance
<1>4. CASE LadderPasses
  BY <1>4 DEF LadderPasses, LadderLeft, Untried
<1> QED
  BY <1>1, <1>2, <1>3, <1>4

LEMMA Sell_Proceeds ==
    ASSUME SellInv, Bound \/ QuotesHold \/ RangesRead \/ Sampled \/ BalancesChecked \/ LaddersTried
    PROVE  SellInv'
<1> USE DEF SellInv, EvidenceOK, StepOK, ConfirmedIsEarned, HasSold, V2Steps, Observed,
            UntilScan, UntilLadder, UntilReceipts, Proceed
<1>1. CASE Bound
  BY <1>1 DEF Bound
<1>2. CASE QuotesHold
  BY <1>2 DEF QuotesHold
<1>3. CASE RangesRead
  BY <1>3 DEF RangesRead
<1>4. CASE Sampled
  BY <1>4 DEF Sampled
<1>5. CASE BalancesChecked
  BY <1>5 DEF BalancesChecked
<1>6. CASE LaddersTried
  BY <1>6 DEF LaddersTried
<1> QED
  BY <1>1, <1>2, <1>3, <1>4, <1>5, <1>6

(* A receipt of a V2 pool: the sender that is counted is a person and one  *)
(* of the sources.                                                         *)
LEMMA Sell_Receipt ==
    ASSUME SellInv, ReadReceipt
    PROVE  SellInv'
<1>1. PICK r \in Receipt :
        /\ sellers' = IF SoldBySender(r, Head(sales)) THEN sellers \cup {r.sender} ELSE sellers
        /\ receipts' = receipts \cup {[receipt |-> r, sources |-> Head(sales)]}
  BY DEF ReadReceipt
<1>2. UNCHANGED <<kind, step, status, buyers, balance, ladder>> /\ step = "receipts"
  BY DEF ReadReceipt
<1>3. r.sender \in Wallet
  BY DEF Receipt
<1>4. \A w \in sellers' : HasSold(w, receipts')
  <2> SUFFICES ASSUME NEW w \in sellers' PROVE HasSold(w, receipts')
    OBVIOUS
  <2>1. CASE w \in sellers
    BY <2>1, <1>1 DEF SellInv, EvidenceOK, HasSold
  <2>2. CASE w \notin sellers
    <3>1. w = r.sender /\ SoldBySender(r, Head(sales))
      BY <2>2, <1>1
    <3>2. [receipt |-> r, sources |-> Head(sales)] \in receipts'
      BY <1>1
    <3> QED
      BY <3>1, <3>2 DEF HasSold, SoldBySender
  <2> QED
    BY <2>1, <2>2
<1>5. sellers' \subseteq Wallet \ Excluded
  BY <1>1, <1>3 DEF SellInv, EvidenceOK, SoldBySender
<1> QED
  BY <1>2, <1>4, <1>5 DEF SellInv, EvidenceOK, StepOK, ConfirmedIsEarned, HasSold, V2Steps

(* A receipt of a launchpad or of Solana: its sender is not the pool's own.*)
LEMMA Sell_Observed ==
    ASSUME SellInv, ObserveReceipt
    PROVE  SellInv'
<1>1. PICK r \in Receipt :
        /\ sellers' = IF r.ok /\ r.sold /\ r.sender \notin Excluded
                      THEN sellers \cup {r.sender} ELSE sellers
        /\ receipts' = receipts \cup {[receipt |-> r, sources |-> Wallet]}
  BY DEF ObserveReceipt
<1>2. /\ UNCHANGED <<kind, step, status, buyers, balance, ladder>>
      /\ step = "observe" /\ kind \in Observed
  BY DEF ObserveReceipt, UntilScan, UntilLadder, SellInv, StepOK
<1>3. r.sender \in Wallet
  BY DEF Receipt
<1>4. \A w \in sellers' : HasSold(w, receipts')
  <2> SUFFICES ASSUME NEW w \in sellers' PROVE HasSold(w, receipts')
    OBVIOUS
  <2>1. CASE w \in sellers
    BY <2>1, <1>1 DEF SellInv, EvidenceOK, HasSold
  <2>2. CASE w \notin sellers
    <3>1. w = r.sender /\ r.ok /\ r.sold
      BY <2>2, <1>1
    <3>2. [receipt |-> r, sources |-> Wallet] \in receipts'
      BY <1>1
    <3> QED
      BY <3>1, <3>2, <1>2 DEF HasSold
  <2> QED
    BY <2>1, <2>2
<1>5. sellers' \subseteq Wallet \ Excluded
  BY <1>1, <1>3 DEF SellInv, EvidenceOK
<1> QED
  BY <1>2, <1>4, <1>5 DEF SellInv, EvidenceOK, StepOK, ConfirmedIsEarned, HasSold, V2Steps

(* The one step that confirms: the evidence is complete.                   *)
LEMMA Sell_Confirms ==
    ASSUME SellInv, Conclude
    PROVE  SellInv'
<1>1. CASE Concluded /\ Complete
  <2>1. /\ step \in {"receipts", "observe"} /\ step' = "done"
        /\ UNCHANGED <<kind, buyers, balance, ladder, sellers, receipts>>
    BY DEF Conclude, EndsWith
  <2>2. Cardinality(sellers) >= SellersNeeded
    BY <1>1 DEF Complete
  <2>3. /\ sellers \in SUBSET (Wallet \ Excluded)
        /\ \A w \in sellers : HasSold(w, receipts)
    BY DEF SellInv, EvidenceOK
  <2>4. ASSUME kind \notin Observed
        PROVE  /\ \A w \in buyers : balance[w] # "unread"
               /\ \E w \in buyers \cap Person : balance[w] = "held" /\ w \in ladder
    <3>1. ladder # {} /\ step = "receipts"
      BY <1>1, <2>1, <2>4 DEF Complete, SellInv, StepOK
    <3> QED
      BY <3>1 DEF SellInv, StepOK, EvidenceOK
  <2>5. ConfirmedIsEarned'
    BY <2>1, <2>2, <2>3, <2>4 DEF ConfirmedIsEarned, HasSold
  <2> QED
    BY <2>1, <2>5 DEF SellInv, EvidenceOK, StepOK, HasSold, V2Steps
<1>2. CASE ~ (Concluded /\ Complete)
  <2>1. EndsWith("unknown")
    BY <1>2 DEF Conclude
  <2> QED
    BY <2>1, Sell_Ends
<1> QED
  BY <1>1, <1>2

LEMMA Sell_Next == SellInv /\ [SellNext]_sellVars => SellInv'
<1> SUFFICES ASSUME SellInv, [SellNext]_sellVars PROVE SellInv'
  OBVIOUS
<1>1. CASE UNCHANGED sellVars
  BY <1>1 DEF sellVars, SellInv, EvidenceOK, StepOK, ConfirmedIsEarned, HasSold
<1>2. CASE ReadFails \/ BindingFails \/ PoolUnresolved \/ QuotesFail \/ LookupsExhausted
           \/ BalanceHidden \/ LadderFails
  <2>1. \E s \in {"retry", "unknown", "blocked"} : EndsWith(s)
    BY <1>2 DEF ReadFails, BindingFails, PoolUnresolved, QuotesFail, LookupsExhausted,
                BalanceHidden, LadderFails
  <2> QED
    BY <2>1, Sell_Ends
<1>3. CASE ReadRange \/ SampleBuyer \/ CheckBalance \/ LadderPasses
  <2>1. step # "done"
    BY <1>3 DEF ReadRange, SampleBuyer, CheckBalance, LadderPasses
  <2> QED
    BY <1>3, <2>1, Sell_Evidence
<1>4. CASE Bound \/ QuotesHold \/ RangesRead \/ Sampled \/ BalancesChecked \/ LaddersTried
  BY <1>4, Sell_Proceeds
<1>5. CASE PassOver
  BY <1>5 DEF PassOver, SellInv, EvidenceOK, StepOK, ConfirmedIsEarned, HasSold, UntilReceipts
<1>6. CASE ReadReceipt
  BY <1>6, Sell_Receipt
<1>7. CASE ObserveReceipt
  BY <1>7, Sell_Observed
<1>8. CASE Conclude
  BY <1>8, Sell_Confirms
<1> QED
  BY <1>1, <1>2, <1>3, <1>4, <1>5, <1>6, <1>7, <1>8 DEF SellNext

(* A token is confirmed only when enough wallets are seen to have sold it, *)
(* whatever fails and whichever budget runs out (inspectSellability,       *)
(* observeSellReceipts, normalizeSellabilityEvidence).                     *)
THEOREM SellabilityCorrect == SellSpec => []ConfirmedIsEarned
<1>1. SellInv => ConfirmedIsEarned
  BY DEF SellInv
<1> QED
  BY <1>1, Sell_Init, Sell_Next, PTL DEF SellSpec

-----------------------------------------------------------------------------
(***************************************************************************)
(* The shares of a round, for every limit and every number of due checks.  *)
(***************************************************************************)

(* Every set of numbers has a least one, from the library's WFMin: the theorems *)
(* of induction take an operator, this one a set.                             *)
LEMMA NatMin ==
  ASSUME NEW S, S \subseteq Nat, S # {}
  PROVE  \E n \in S : \A m \in S : n <= m
<1> DEFINE R == {ss \in Nat \X Nat : ss[1] < ss[2]}
<1>1. IsWellFoundedOn(R, Nat)
  BY NatLessThanWellFounded DEF OpToRel
<1>2. \A x, y \in Nat : x < y => <<x, y>> \in R
  OBVIOUS
<1> HIDE DEF R
<1>3. PICK n \in S : \A m \in S : ~ (<<m, n>> \in R)
  BY <1>1, WFMin
<1>4. \A m \in S : ~ (m < n)
  BY <1>2, <1>3
<1>5. QED  BY <1>3, <1>4

(* Induction over a set of numbers.                                        *)
LEMMA NatInd ==
  ASSUME NEW S, 0 \in S, \A n \in Nat : n \in S => n + 1 \in S
  PROVE  Nat \subseteq S
<1> SUFFICES ASSUME Nat \ S # {}  PROVE FALSE
  OBVIOUS
<1>1. PICK n \in Nat \ S : \A m \in Nat \ S : n <= m
  BY NatMin
<1>2. n # 0 
  BY <1>1
<1>3. n - 1 \in Nat /\ ~ (n <= n - 1) /\ (n - 1) + 1 = n
  BY <1>1, <1>2
<1>4. QED BY <1>1, <1>3
(* How often the first v visits of a round asked bucket b. *)
Times(first, b, v) ==
    v \div BucketCount
        + IF (b - first - (v \div BucketCount)) % BucketCount < v % BucketCount THEN 1 ELSE 0

LEMMA Times_Start ==
    ASSUME NEW first \in Bucket, NEW b \in Bucket
    PROVE  Times(first, b, 0) = 0
  BY DEF Times, Bucket, BucketCount

LEMMA Times_Type ==
    ASSUME NEW first \in Bucket, NEW b \in Bucket, NEW v \in Nat
    PROVE  Times(first, b, v) \in Nat
  BY DEF Times, Bucket, BucketCount

LEMMA Times_Even ==
    ASSUME NEW first \in Bucket, NEW b \in Bucket, NEW c \in Bucket, NEW v \in Nat
    PROVE  Times(first, c, v) <= Times(first, b, v) + 1
  BY DEF Times, Bucket, BucketCount

LEMMA Times_Total ==
    ASSUME NEW first \in Bucket, NEW v \in Nat
    PROVE  Times(first, 0, v) + Times(first, 1, v) + Times(first, 2, v) = v
  BY DEF Times, Bucket, BucketCount

LEMMA Visited_Type ==
    ASSUME NEW first \in Bucket, NEW v \in Nat
    PROVE  Visited(first, v) \in Bucket
  BY DEF Visited, Bucket, BucketCount

LEMMA Times_Step ==
    ASSUME NEW first \in Bucket, NEW b \in Bucket, NEW v \in Nat
    PROVE  Times(first, b, v + 1) =
               Times(first, b, v) + IF b = Visited(first, v) THEN 1 ELSE 0
  BY DEF Times, Visited, Bucket, BucketCount

(* The three rounds of a turn ask a bucket as often as one round asks all. *)
LEMMA Times_Turn ==
    ASSUME NEW b \in Bucket, NEW v \in Nat
    PROVE  Times(0, b, v) + Times(1, b, v) + Times(2, b, v) = v
  BY DEF Times, Bucket, BucketCount

(* A round begins with nothing taken.                                        *)
Nothing == [b \in Bucket |-> 0]

(* The counts after each of the first visits of a round exist. *)
LEMMA Counts_Exist ==
    ASSUME NEW queued, NEW first
    PROVE  \A n \in Nat : \E g : g = [v \in 0 .. n |->
               IF v = 0 THEN Nothing ELSE Visit(queued, first, g[v - 1], v - 1)]
<1> DEFINE Fits(g, n) == g = [v \in 0 .. n |->
               IF v = 0 THEN Nothing ELSE Visit(queued, first, g[v - 1], v - 1)]
           S == {n \in Nat : \E g : Fits(g, n)}
<1>1. 0 \in S
  <2> DEFINE g == [v \in 0 .. 0 |-> Nothing]
  <2>1. Fits(g, 0)
    OBVIOUS
  <2> QED  BY <2>1
<1>2. ASSUME NEW n \in Nat, n \in S
      PROVE  n + 1 \in S
  <2>1. PICK g : Fits(g, n)
    BY <1>2
  <2> DEFINE h == [v \in 0 .. n + 1 |->
                      IF v = n + 1 THEN Visit(queued, first, g[n], n) ELSE g[v]]
  <2>2. ASSUME NEW v \in 0 .. n
        PROVE  g[v] = IF v = 0 THEN Nothing ELSE Visit(queued, first, g[v - 1], v - 1)
    BY <2>1
  <2>3. ASSUME NEW v \in 0 .. n + 1
        PROVE  h[v] = IF v = 0 THEN Nothing ELSE Visit(queued, first, h[v - 1], v - 1)
    <3>1. CASE v = n + 1
      <4>1. v # 0 /\ v - 1 = n /\ n \in 0 .. n + 1 /\ n # n + 1
        BY <3>1
      <4>2. h[v - 1] = g[n] /\ h[v] = Visit(queued, first, g[n], n)
        BY <3>1, <4>1
      <4> QED  BY <4>1, <4>2
    <3>2. CASE v = 0
      BY <2>2, <3>2
    <3>3. CASE v # 0 /\ v # n + 1
      <4>1. v \in 0 .. n /\ v - 1 \in 0 .. n + 1 /\ v - 1 # n + 1
        BY <3>3
      <4>2. h[v - 1] = g[v - 1] /\ h[v] = g[v]
        BY <3>3, <4>1
      <4> QED  BY <2>2, <3>3, <4>1, <4>2
    <3> QED  BY <3>1, <3>2, <3>3
  <2> HIDE DEF h
  <2>4. h = [v \in 0 .. n + 1 |-> h[v]]
    BY DEF h
  <2>5. Fits(h, n + 1)
    BY <2>3, <2>4
  <2> QED  BY <2>5
<1> HIDE DEF S
<1>3. Nat \subseteq S
  BY <1>1, <1>2, NatInd
<1> QED  BY <1>3 DEF S

(* A round's counts, and what they are visit by visit. *)
LEMMA Select_Counts ==
    ASSUME NEW queued, NEW first
    PROVE  \E g : /\ SelectDue(queued, first) = g[BucketCount * (TakeLimit + 1)]
                  /\ g[0] = Nothing
                  /\ \A v \in 0 .. BucketCount * (TakeLimit + 1) - 1 :
                         g[v + 1] = Visit(queued, first, g[v], v)
<1> DEFINE visits == BucketCount * (TakeLimit + 1)
           Fits(g) == g = [v \in 0 .. visits |->
               IF v = 0 THEN Nothing ELSE Visit(queued, first, g[v - 1], v - 1)]
           after == CHOOSE g : Fits(g)
<1>1. visits \in Nat
  BY SelectionAssumption DEF BucketCount
<1>2. SelectDue(queued, first) = after[visits]
  BY DEF SelectDue, Nothing
<1> HIDE DEF visits
<1>3. Fits(after)
  BY <1>1, Counts_Exist
<1> HIDE DEF after
<1>4. after[0] = Nothing
  BY <1>1, <1>3
<1>5. ASSUME NEW v \in 0 .. visits - 1
      PROVE  after[v + 1] = Visit(queued, first, after[v], v)
  <2>1. v + 1 \in 0 .. visits /\ v + 1 # 0 /\ (v + 1) - 1 = v
    BY <1>1
  <2> QED  BY <1>3, <2>1
<1> QED  BY <1>2, <1>4, <1>5 DEF visits
(* A round that is still asking after v visits took of each bucket as often  *)
(* as it asked, or all there was; a full round stopped after w visits.       *)
Fair(queued, first, got, w) ==
    \A b \in Bucket :
        got[b] = IF queued[b] <= Times(first, b, w) THEN queued[b] ELSE Times(first, b, w)

AskedUpTo(queued, first, got, v) ==
    /\ got \in [Bucket -> Nat]
    /\ Tally(got) <= TakeLimit
    /\ \E w \in 0 .. v : /\ w = v \/ Tally(got) = TakeLimit
                         /\ Fair(queued, first, got, w)

LEMMA Asked_Start ==
    ASSUME NEW queued \in [Bucket -> Nat], NEW first \in Bucket
    PROVE  AskedUpTo(queued, first, Nothing, 0)
<1>1. Nothing \in [Bucket -> Nat] /\ Tally(Nothing) = 0
  BY DEF Nothing, Tally, Bucket, BucketCount
<1>2. Fair(queued, first, Nothing, 0)
  BY Times_Start DEF Fair, Nothing
<1> QED  BY <1>1, <1>2, SelectionAssumption DEF AskedUpTo

LEMMA Asked_Step ==
    ASSUME NEW queued \in [Bucket -> Nat], NEW first \in Bucket, NEW got, NEW v \in Nat,
           AskedUpTo(queued, first, got, v)
    PROVE  AskedUpTo(queued, first, Visit(queued, first, got, v), v + 1)
<1> DEFINE a == Visited(first, v)
           next == Visit(queued, first, got, v)
<1>1. a \in Bucket /\ got \in [Bucket -> Nat] /\ Tally(got) \in Nat /\ Tally(got) <= TakeLimit
  BY Visited_Type DEF AskedUpTo, Tally, Bucket, BucketCount
<1>2. PICK w \in 0 .. v : (w = v \/ Tally(got) = TakeLimit) /\ Fair(queued, first, got, w)
  BY DEF AskedUpTo
<1>3. CASE Tally(got) = TakeLimit
  <2>1. ~ (Tally(got) < TakeLimit)
    BY <1>3, SelectionAssumption
  <2>2. next = got /\ w \in 0 .. v + 1
    BY <2>1 DEF Visit
  <2> QED  BY <1>1, <1>2, <1>3, <2>2 DEF AskedUpTo
<1>4. CASE Tally(got) < TakeLimit
  <2>1. w = v
    BY <1>2, <1>4, SelectionAssumption
  <2>2. \A b \in Bucket : /\ Times(first, b, v) \in Nat
                          /\ Times(first, b, v + 1) =
                                 Times(first, b, v) + IF b = a THEN 1 ELSE 0
    BY Times_Type, Times_Step
  <2>3. next \in [Bucket -> Nat]
    BY <1>1 DEF Visit
  <2>4. Tally(next) <= TakeLimit
    <3>1. next = got \/ next = [got EXCEPT ![a] = @ + 1]
      BY DEF Visit
    <3>2. CASE next = got
      BY <3>2, <1>1
    <3>3. CASE next = [got EXCEPT ![a] = @ + 1]
      <4>1. Tally(next) = Tally(got) + 1
        BY <3>3, <1>1 DEF Tally, Bucket, BucketCount
      <4> QED  BY <4>1, <1>1, <1>4, SelectionAssumption
    <3> QED  BY <3>1, <3>2, <3>3
  <2>5. Fair(queued, first, next, v + 1)
    <3> SUFFICES ASSUME NEW b \in Bucket
                 PROVE  next[b] = IF queued[b] <= Times(first, b, v + 1) THEN queued[b]
                                  ELSE Times(first, b, v + 1)
      BY DEF Fair
    <3>1. got[b] = IF queued[b] <= Times(first, b, v) THEN queued[b] ELSE Times(first, b, v)
      BY <1>2, <2>1 DEF Fair
    <3>2. queued[b] \in Nat /\ got[b] \in Nat
      BY <1>1
    <3>3. CASE b # a
      <4>1. next[b] = got[b]
        BY <3>3, <1>1 DEF Visit
      <4> QED  BY <4>1, <3>1, <3>2, <3>3, <2>2
    <3>4. CASE b = a
      <4>1. next[b] = IF got[b] < queued[b] THEN got[b] + 1 ELSE got[b]
        BY <3>4, <1>1, <1>4 DEF Visit
      <4> QED  BY <4>1, <3>1, <3>2, <3>4, <2>2
    <3> QED  BY <3>3, <3>4
  <2> HIDE DEF next
  <2>6. AskedUpTo(queued, first, next, v + 1)
    BY <2>3, <2>4, <2>5 DEF AskedUpTo
  <2> QED  BY <2>6 DEF next
<1> QED  BY <1>1, <1>3, <1>4, SelectionAssumption

(* What selectDueChecks took, for any queues and any first bucket.           *)
LEMMA Select_Asked ==
    ASSUME NEW queued \in [Bucket -> Nat], NEW first \in Bucket
    PROVE  AskedUpTo(queued, first, SelectDue(queued, first), BucketCount * (TakeLimit + 1))
<1> DEFINE visits == BucketCount * (TakeLimit + 1)
<1>1. visits \in Nat
  BY SelectionAssumption DEF BucketCount
<1> HIDE DEF visits
<1>2. PICK g : /\ SelectDue(queued, first) = g[visits]
               /\ g[0] = Nothing
               /\ \A v \in 0 .. visits - 1 : g[v + 1] = Visit(queued, first, g[v], v)
  BY Select_Counts DEF visits
<1> DEFINE S == {v \in Nat : v <= visits => AskedUpTo(queued, first, g[v], v)}
<1>3. 0 \in S
  BY <1>2, Asked_Start
<1>4. ASSUME NEW v \in Nat, v \in S
      PROVE  v + 1 \in S
  <2> SUFFICES ASSUME v + 1 <= visits
               PROVE  AskedUpTo(queued, first, g[v + 1], v + 1)
    OBVIOUS
  <2>1. v <= visits /\ v \in 0 .. visits - 1
    BY <1>1
  <2>2. AskedUpTo(queued, first, g[v], v)
    BY <1>4, <2>1
  <2>3. g[v + 1] = Visit(queued, first, g[v], v)
    BY <1>2, <2>1
  <2> QED  BY <2>2, <2>3, Asked_Step
<1> HIDE DEF S
<1>5. Nat \subseteq S
  BY <1>3, <1>4, NatInd
<1>6. visits \in S
  BY <1>1, <1>5
<1> QED  BY <1>1, <1>2, <1>6 DEF S, visits

(* A round is full or leaves nothing; who still has checks is at most one    *)
(* behind.                                                                   *)
LEMMA Select_Fair ==
    ASSUME NEW queued \in [Bucket -> Nat], NEW first \in Bucket
    PROVE  LET got == SelectDue(queued, first)
           IN  /\ got \in [Bucket -> Nat]
               /\ \A b \in Bucket : got[b] <= queued[b]
               /\ Tally(got) = TakeLimit \/ \A b \in Bucket : got[b] = queued[b]
               /\ \A b, c \in Bucket : got[b] < queued[b] => got[c] <= got[b] + 1
<1> DEFINE got == SelectDue(queued, first)
           visits == BucketCount * (TakeLimit + 1)
<1>1. visits \in Nat
  BY SelectionAssumption DEF BucketCount
<1>2. got \in [Bucket -> Nat] /\ Tally(got) <= TakeLimit
  BY Select_Asked DEF AskedUpTo
<1>3. PICK w \in 0 .. visits : (w = visits \/ Tally(got) = TakeLimit) /\ Fair(queued, first, got, w)
  BY Select_Asked DEF AskedUpTo
<1> HIDE DEF got
<1>4. \A b \in Bucket : /\ Times(first, b, w) \in Nat /\ queued[b] \in Nat /\ got[b] \in Nat
                        /\ got[b] = IF queued[b] <= Times(first, b, w) THEN queued[b]
                                    ELSE Times(first, b, w)
  BY <1>1, <1>2, <1>3, Times_Type DEF Fair
<1>5. \A b \in Bucket : got[b] <= queued[b]
  BY <1>4
<1>6. Tally(got) = TakeLimit \/ \A b \in Bucket : got[b] = queued[b]
  <2> SUFFICES ASSUME Tally(got) # TakeLimit, NEW b \in Bucket
               PROVE  got[b] = queued[b]
    OBVIOUS
  <2>1. w = BucketCount * (TakeLimit + 1)
    BY <1>3
  <2>2. Times(first, b, w) = TakeLimit + 1
    BY <2>1, SelectionAssumption DEF Times, Bucket, BucketCount
  <2>3. got[b] <= TakeLimit
    BY <1>2, SelectionAssumption DEF Tally, Bucket, BucketCount
  <2> QED  BY <1>4, <2>2, <2>3, SelectionAssumption
<1>7. ASSUME NEW b \in Bucket, NEW c \in Bucket, got[b] < queued[b]
      PROVE  got[c] <= got[b] + 1
  <2>1. Times(first, c, w) <= Times(first, b, w) + 1
    BY <1>1, Times_Even
  <2> QED  BY <1>4, <1>7, <2>1
<1> QED  BY <1>2, <1>5, <1>6, <1>7 DEF got

(* Under load a round asks exactly as often as it may take.                  *)
LEMMA Select_Loaded ==
    ASSUME NEW queued \in [Bucket -> Nat], NEW first \in Bucket,
           \A b \in Bucket : queued[b] >= TakeLimit
    PROVE  SelectDue(queued, first) = [b \in Bucket |-> Times(first, b, TakeLimit)]
<1> DEFINE got == SelectDue(queued, first)
           visits == BucketCount * (TakeLimit + 1)
<1>1. visits \in Nat
  BY SelectionAssumption DEF BucketCount
<1>2. got \in [Bucket -> Nat] /\ Tally(got) <= TakeLimit
  BY Select_Asked DEF AskedUpTo
<1>3. PICK w \in 0 .. visits : (w = visits \/ Tally(got) = TakeLimit) /\ Fair(queued, first, got, w)
  BY Select_Asked DEF AskedUpTo
<1>4. Tally(got) = TakeLimit \/ \A b \in Bucket : got[b] = queued[b]
  BY Select_Fair
<1> HIDE DEF got
<1>5. \A b \in Bucket : /\ Times(first, b, w) \in Nat /\ queued[b] \in Nat /\ got[b] \in Nat
                        /\ got[b] = IF queued[b] <= Times(first, b, w) THEN queued[b]
                                    ELSE Times(first, b, w)
  BY <1>1, <1>2, <1>3, Times_Type DEF Fair
<1>6. 0 \in Bucket /\ 1 \in Bucket /\ 2 \in Bucket /\ \A b \in Bucket : b = 0 \/ b = 1 \/ b = 2
  BY DEF Bucket, BucketCount
<1>7. Tally(got) = TakeLimit
  BY <1>2, <1>4, <1>5, <1>6, SelectionAssumption DEF Tally
<1>8. CASE TakeLimit = 0
  <2>1. \A b \in Bucket : got[b] = 0
    <3>1. /\ got[0] \in Nat /\ got[1] \in Nat /\ got[2] \in Nat
          /\ got[0] + got[1] + got[2] = 0
      BY <1>5, <1>6, <1>7, <1>8 DEF Tally
    <3>2. got[0] = 0 /\ got[1] = 0 /\ got[2] = 0
      BY <3>1
    <3> QED  BY <1>6, <3>2
  <2>2. \A b \in Bucket : Times(first, b, TakeLimit) = 0
    BY <1>8, Times_Start
  <2> QED  BY <1>2, <2>1, <2>2 DEF got
<1>9. CASE TakeLimit > 0
  <2>1. \A b, c \in Bucket : Times(first, c, w) <= Times(first, b, w) + 1
    BY <1>1, Times_Even
  <2>2. \A b \in Bucket : got[b] = Times(first, b, w)
    BY <1>5, <1>6, <1>7, <1>9, <2>1, SelectionAssumption DEF Tally
  <2>3. Times(first, 0, w) + Times(first, 1, w) + Times(first, 2, w) = w
    BY <1>1, Times_Total
  <2>4. w = TakeLimit
    BY <1>6, <1>7, <2>2, <2>3 DEF Tally
  <2> QED  BY <1>2, <2>2, <2>4 DEF got
<1> QED  BY <1>8, <1>9, SelectionAssumption

(* The shares of the last rounds under load are those of the rounds that     *)
(* ended just before startBucket.                                            *)
Before(n) == (startBucket + BucketCount - n) % BucketCount

SharesInv ==
    /\ dueChecks \in [Bucket -> Nat] /\ taken \in [Bucket -> Nat] /\ left \in [Bucket -> Nat]
    /\ startBucket \in Bucket
    /\ shares \in [rounds : 0 .. BucketCount, got : [Bucket -> Nat]]
    /\ \A b \in Bucket :
           shares.got[b] =
               (IF shares.rounds >= 1 THEN Times(Before(1), b, TakeLimit) ELSE 0)
             + (IF shares.rounds >= 2 THEN Times(Before(2), b, TakeLimit) ELSE 0)
             + (IF shares.rounds >= 3 THEN Times(Before(3), b, TakeLimit) ELSE 0)

(* What the last round took and left.                                        *)
RoundInv ==
    /\ Tally(taken) = TakeLimit \/ \A b \in Bucket : left[b] = 0
    /\ \A b, c \in Bucket : left[b] > 0 => taken[c] <= taken[b] + 1

LEMMA Before_Times ==
    ASSUME startBucket \in Bucket, NEW b \in Bucket
    PROVE  /\ Times(Before(1), b, TakeLimit) \in Nat
           /\ Times(Before(2), b, TakeLimit) \in Nat
<1>1. Before(1) \in Bucket /\ Before(2) \in Bucket
  BY DEF Before, Bucket, BucketCount
<1> HIDE DEF Before
<1> QED  BY <1>1, SelectionAssumption, Times_Type

LEMMA Selection_Init == SelectionInit => SharesInv /\ RoundInv
<1> SUFFICES ASSUME SelectionInit
             PROVE  SharesInv /\ RoundInv
  OBVIOUS
<1>1. SharesInv
  BY DEF SelectionInit, SharesInv, NoShares, Bucket, BucketCount
<1>2. RoundInv
  BY DEF SelectionInit, RoundInv
<1> QED  BY <1>1, <1>2

LEMMA Selection_Due == SharesInv /\ RoundInv /\ ChecksFallDue => SharesInv' /\ RoundInv'
<1> SUFFICES ASSUME SharesInv, RoundInv, ChecksFallDue
             PROVE  SharesInv' /\ RoundInv'
  OBVIOUS
<1>1. dueChecks' \in [Bucket -> Nat]
  BY SelectionAssumption DEF SharesInv, ChecksFallDue
<1>2. UNCHANGED <<startBucket, taken, left, shares>>
  BY DEF ChecksFallDue
<1>3. SharesInv'
  BY <1>1, <1>2 DEF SharesInv, Before
<1> QED  BY <1>2, <1>3 DEF RoundInv

LEMMA Selection_Restart == SharesInv /\ RoundInv /\ SelectionRestart => SharesInv' /\ RoundInv'
<1> SUFFICES ASSUME SharesInv, RoundInv, SelectionRestart
             PROVE  SharesInv' /\ RoundInv'
  OBVIOUS
<1>1. SharesInv'
  BY DEF SelectionRestart, SharesInv, NoShares, Bucket, BucketCount
<1> QED  BY <1>1 DEF SelectionRestart, RoundInv

LEMMA Selection_Round == SharesInv /\ RoundInv /\ SelectionRound => SharesInv' /\ RoundInv'
<1> SUFFICES ASSUME SharesInv, RoundInv, SelectionRound
             PROVE  SharesInv' /\ RoundInv'
  OBVIOUS
<1> DEFINE got    == SelectDue(dueChecks, startBucket)
           loaded == \A b \in Bucket : dueChecks[b] >= TakeLimit
           before == IF shares.rounds = BucketCount THEN NoShares ELSE shares
<1>1. dueChecks \in [Bucket -> Nat] /\ startBucket \in Bucket
  BY DEF SharesInv
<1>2. /\ got \in [Bucket -> Nat]
      /\ \A b \in Bucket : got[b] <= dueChecks[b]
      /\ Tally(got) = TakeLimit \/ \A b \in Bucket : got[b] = dueChecks[b]
      /\ \A b, c \in Bucket : got[b] < dueChecks[b] => got[c] <= got[b] + 1
  BY <1>1, Select_Fair
<1>3. loaded => got = [b \in Bucket |-> Times(startBucket, b, TakeLimit)]
  BY <1>1, Select_Loaded
<1>4. /\ taken' = got
      /\ left' = [b \in Bucket |-> dueChecks[b] - got[b]]
      /\ dueChecks' = left'
      /\ startBucket' = (startBucket + 1) % BucketCount
      /\ shares' = IF ~ loaded THEN NoShares
                   ELSE [rounds |-> before.rounds + 1,
                         got |-> [b \in Bucket |-> before.got[b] + got[b]]]
  BY DEF SelectionRound
<1> HIDE DEF got, loaded, before
<1>5. left' \in [Bucket -> Nat]
  BY <1>1, <1>2, <1>4
<1>6. RoundInv'
  <2>1. \A b \in Bucket : /\ left'[b] = dueChecks[b] - got[b]
                          /\ dueChecks[b] \in Nat /\ got[b] \in Nat
    BY <1>1, <1>2, <1>4
  <2>2. Tally(got) = TakeLimit \/ \A b \in Bucket : left'[b] = 0
    BY <1>2, <2>1
  <2>3. \A b, c \in Bucket : left'[b] > 0 => got[c] <= got[b] + 1
    BY <1>2, <2>1
  <2> QED  BY <1>4, <2>2, <2>3 DEF RoundInv
<1>7. startBucket' \in Bucket
  BY <1>1, <1>4 DEF Bucket, BucketCount
<1>8. /\ Before(1)' = startBucket
      /\ Before(2)' = Before(1)
      /\ Before(3)' = Before(2)
  BY <1>1, <1>4 DEF Before, Bucket, BucketCount
<1>9. CASE ~ loaded
  <2>1. shares' = NoShares
    BY <1>4, <1>9
  <2> QED  BY <1>2, <1>4, <1>5, <1>6, <1>7, <2>1 DEF SharesInv, NoShares, BucketCount
<1>10. CASE loaded
  <2>1. /\ before.rounds \in 0 .. BucketCount - 1
        /\ before.got \in [Bucket -> Nat]
        /\ \A b \in Bucket :
               before.got[b] = (IF before.rounds >= 1 THEN Times(Before(1), b, TakeLimit) ELSE 0)
                             + (IF before.rounds >= 2 THEN Times(Before(2), b, TakeLimit) ELSE 0)
    <3>1. CASE shares.rounds = BucketCount
      BY <3>1 DEF before, NoShares, BucketCount
    <3>2. CASE shares.rounds # BucketCount
      <4>1. before = shares /\ shares.rounds \in 0 .. BucketCount - 1
        BY <3>2 DEF before, SharesInv, BucketCount
      <4>2. ~ (shares.rounds >= 3)
        BY <4>1 DEF BucketCount
      <4>3. ASSUME NEW b \in Bucket
            PROVE  /\ Times(Before(1), b, TakeLimit) \in Nat
                   /\ Times(Before(2), b, TakeLimit) \in Nat
        BY <1>1, Before_Times
      <4> QED  BY <4>1, <4>2, <4>3 DEF SharesInv
    <3> QED  BY <3>1, <3>2
  <2>2. /\ shares'.rounds = before.rounds + 1
        /\ shares'.got = [b \in Bucket |-> before.got[b] + Times(startBucket, b, TakeLimit)]
        /\ shares' = [rounds |-> shares'.rounds, got |-> shares'.got]
    BY <1>3, <1>4, <1>10
  <2>3. ASSUME NEW b \in Bucket
        PROVE  /\ Times(startBucket, b, TakeLimit) \in Nat
               /\ Times(Before(1), b, TakeLimit) \in Nat
               /\ Times(Before(2), b, TakeLimit) \in Nat
    BY <1>1, SelectionAssumption, Times_Type, Before_Times
  <2>4. shares'.rounds \in 1 .. BucketCount /\ shares'.got \in [Bucket -> Nat]
    BY <2>1, <2>2, <2>3 DEF BucketCount
  <2>5. shares' \in [rounds : 0 .. BucketCount, got : [Bucket -> Nat]]
    BY <2>2, <2>4 DEF BucketCount
  <2>6. ASSUME NEW b \in Bucket
        PROVE  shares'.got[b] =
                   (IF shares'.rounds >= 1 THEN Times(Before(1)', b, TakeLimit) ELSE 0)
                 + (IF shares'.rounds >= 2 THEN Times(Before(2)', b, TakeLimit) ELSE 0)
                 + (IF shares'.rounds >= 3 THEN Times(Before(3)', b, TakeLimit) ELSE 0)
    <3>1. shares'.got[b] = before.got[b] + Times(startBucket, b, TakeLimit)
      BY <2>2
    <3>2. before.got[b] = (IF before.rounds >= 1 THEN Times(Before(1), b, TakeLimit) ELSE 0)
                        + (IF before.rounds >= 2 THEN Times(Before(2), b, TakeLimit) ELSE 0)
      BY <2>1
    <3>3. before.rounds \in 0 .. 2 /\ shares'.rounds = before.rounds + 1
      BY <2>1, <2>2 DEF BucketCount
    <3> QED  BY <1>8, <2>3, <3>1, <3>2, <3>3
  <2>7. taken' \in [Bucket -> Nat] /\ dueChecks' \in [Bucket -> Nat]
    BY <1>2, <1>4, <1>5
  <2>8. SharesInv'
    BY <1>5, <1>7, <2>5, <2>6, <2>7 DEF SharesInv
  <2> QED  BY <1>6, <2>8
<1> QED  BY <1>9, <1>10

LEMMA Shares_Fair == SharesInv /\ RoundInv => FairShare
<1> SUFFICES ASSUME SharesInv, RoundInv, shares.rounds = BucketCount, NEW b \in Bucket
             PROVE  shares.got[b] = TakeLimit
  BY DEF RoundInv, FairShare
<1>1. startBucket \in 0 .. 2
  BY DEF SharesInv, Bucket, BucketCount
<1>2. shares.got[b] = Times(Before(1), b, TakeLimit) + Times(Before(2), b, TakeLimit)
                    + Times(Before(3), b, TakeLimit)
  BY DEF SharesInv, BucketCount
<1>3. \A a \in 0 .. 2 : Times(a, b, TakeLimit) \in Nat
  <2>1. 0 .. 2 = Bucket
    BY DEF Bucket, BucketCount
  <2> QED  BY <2>1, SelectionAssumption, Times_Type
<1>4. Times(0, b, TakeLimit) + Times(1, b, TakeLimit) + Times(2, b, TakeLimit) = TakeLimit
  BY SelectionAssumption, Times_Turn
<1>5. CASE startBucket = 0
  <2>1. Before(1) = 2 /\ Before(2) = 1 /\ Before(3) = 0
    BY <1>5 DEF Before, BucketCount
  <2> QED  BY <1>2, <1>3, <1>4, <2>1
<1>6. CASE startBucket = 1
  <2>1. Before(1) = 0 /\ Before(2) = 2 /\ Before(3) = 1
    BY <1>6 DEF Before, BucketCount
  <2> QED  BY <1>2, <1>3, <1>4, <2>1
<1>7. CASE startBucket = 2
  <2>1. Before(1) = 1 /\ Before(2) = 0 /\ Before(3) = 2
    BY <1>7 DEF Before, BucketCount
  <2> QED  BY <1>2, <1>3, <1>4, <2>1
<1> QED  BY <1>1, <1>5, <1>6, <1>7

(* Rounds are fair for every limit: a round is full or leaves nothing, who   *)
(* still has checks got at most one less than any other, and three rounds    *)
(* under load give every bucket the same (selectDueChecks).                  *)
THEOREM SharesCorrect == SelectionSpec => []FairShare
<1>1. SelectionInit => SharesInv /\ RoundInv
  BY Selection_Init
<1>2. SharesInv /\ RoundInv /\ [SelectionNext]_selectionVars => (SharesInv /\ RoundInv)'
  <2> SUFFICES ASSUME SharesInv, RoundInv, [SelectionNext]_selectionVars
               PROVE  SharesInv' /\ RoundInv'
    OBVIOUS
  <2>1. CASE UNCHANGED selectionVars
    BY <2>1 DEF selectionVars, SharesInv, RoundInv, Before
  <2> QED  BY <2>1, Selection_Due, Selection_Round, Selection_Restart DEF SelectionNext
<1> QED  BY <1>1, <1>2, Shares_Fair, PTL DEF SelectionSpec
=============================================================================
