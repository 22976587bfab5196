----------------------------- MODULE Sellability ----------------------------
(***************************************************************************)
(* The deep inspection of a token: can it be sold?  honeypotCheck of       *)
(* src/analyze.js, inspectSellability of src/sellability.js for the V2     *)
(* pools, the observed sells of src/security/evm and src/security/solana   *)
(* for the launchpads and Solana.  All reads are pinned to one block, so   *)
(* the chain does not change under them; what it holds is chosen when it   *)
(* is read.  A wallet is a person (it has no code) or a contract.          *)
(***************************************************************************)
EXTENDS Integers, Sequences, FiniteSets

CONSTANTS
    Wallet, Person, Labelled, Excluded,  \* the wallets; the pool's own, routers, burn addresses
    Ranges,          \* bound: the chunks of the transfers that are looked back on
    PerRange,        \* bound: wallets that buy, and that sell, in one chunk
    SellersNeeded,   \* sellers of a confirmation: 3
    SolanaNeeded,    \* the setting meaningfulSellerCount
    BuyerSample,     \* MAX_BUYERS
    LadderWallets,   \* MAX_LADDER_WALLETS
    CodeLookups,     \* MAX_CODE_LOOKUPS
    ReceiptCap       \* MAX_RECEIPTS

ASSUME SellabilityAssumption ==
    /\ Person \subseteq Wallet /\ Labelled \subseteq Wallet /\ Excluded \subseteq Wallet
    /\ SellersNeeded \in Nat \ {0} /\ SolanaNeeded \in Nat \ {0}

VARIABLES
    kind,        \* which inspection it is
    step,        \* what it does next
    range,       \* the chunks it has read
    rawBuyers,   \* who received from the pool
    sales,       \* the transactions with transfers to the pool, newest first
    looked,      \* the wallets whose code it has read: codeCache
    buyers,      \* the sample
    balance,     \* of each sampled buyer: against its transfers, and how much
    ladder,      \* the sampled buyers whose transfers were tried
    reads,       \* the receipts it has read
    sellers,     \* who is counted as a seller
    outflows,    \* observed sells: the receipts that count
    receipts,    \* ghost: the receipts that were read, and whom each transaction took from
    status       \* the result

sellVars == <<kind, step, range, rawBuyers, sales, looked, buyers, balance, ladder, reads,
              sellers, outflows, receipts, status>>

Observed == {"launchpad", "solana"}

SellInit ==
    /\ kind \in {"robinhood", "registry"} \cup Observed
    /\ step = "bind"
    /\ range = 0 /\ reads = 0 /\ outflows = 0
    /\ rawBuyers = {} /\ looked = {} /\ buyers = {} /\ ladder = {} /\ sellers = {} /\ receipts = {}
    /\ sales = <<>>
    /\ balance = [w \in Wallet |-> "unread"]
    /\ status = "none"

\* The inspection is over.
EndsWith(s) ==
    /\ step' = "done" /\ status' = s
    /\ UNCHANGED <<kind, range, rawBuyers, sales, looked, buyers, balance, ladder, reads,
                   sellers, outflows, receipts>>

Proceed(s) == step' = s /\ UNCHANGED <<kind, status>>

UntilScan == <<range, rawBuyers, sales>>
UntilLadder == <<looked, buyers, balance, ladder>>
UntilReceipts == <<reads, sellers, outflows, receipts>>

\* Any read can fail: a limited rate is thrown and the candidate retried; every other failure
\* leaves the evidence unavailable, as do a pool without a creation block, too many logs and a
\* token without decimals.
ReadFails == step # "done" /\ \E s \in {"retry", "unknown"} : EndsWith(s)

\* validateV2PoolBinding, the bind of a launchpad, validateSolanaPoolBinding and the mint's
\* controls before it.
BindingFails ==
    /\ step = "bind"
    /\ EndsWith(IF kind \in {"registry", "launchpad"} THEN "blocked" ELSE "unknown")

PoolUnresolved == step = "bind" /\ kind \in Observed /\ EndsWith("unknown")

Bound ==
    /\ step = "bind"
    /\ Proceed(CASE kind = "robinhood" -> "quotes" [] kind = "registry" -> "scan" [] OTHER -> "observe")
    /\ UNCHANGED <<UntilScan, UntilLadder, UntilReceipts>>

\* The token has no code, or the router quotes nothing for buying or for selling.
QuotesFail == step = "quotes" /\ EndsWith("blocked")

QuotesHold ==
    /\ step = "quotes" /\ Proceed("scan")
    /\ UNCHANGED <<UntilScan, UntilLadder, UntilReceipts>>

-----------------------------------------------------------------------------
(* The V2 pools.                                                           *)

Few(S) == {T \in SUBSET S : Cardinality(T) <= PerRange}

RawSellers == UNION {sales[i] : i \in DOMAIN sales}

EnoughRaw == Cardinality(rawBuyers) >= BuyerSample /\ Cardinality(RawSellers) >= SellersNeeded

\* The next chunk of recentTransferRanges, the newest first: who bought, and who transferred to
\* the pool in one transaction.
ReadRange ==
    /\ step = "scan" /\ range < Ranges /\ ~ EnoughRaw
    /\ \E bought \in Few(Wallet), raw \in Few(Wallet) :
           /\ rawBuyers' = rawBuyers \cup bought
           /\ sales' = IF raw = {} THEN sales ELSE Append(sales, raw)
    /\ range' = range + 1
    /\ UNCHANGED <<kind, step, status, UntilLadder, UntilReceipts>>

RangesRead ==
    /\ step = "scan" /\ (range = Ranges \/ EnoughRaw)
    /\ Proceed("sample")
    /\ UNCHANGED <<UntilScan, UntilLadder, UntilReceipts>>

\* Who bought and was not asked yet, the labelled first.
NextBuyers ==
    LET left == rawBuyers \ (Excluded \cup looked)
    IN  IF left \cap Labelled # {} THEN left \cap Labelled ELSE left

SampleBuyer ==
    /\ step = "sample" /\ Cardinality(buyers) < BuyerSample
    /\ \E w \in NextBuyers :
           /\ Cardinality(looked) < CodeLookups
           /\ looked' = looked \cup {w}
           /\ buyers' = IF w \in Person THEN buyers \cup {w} ELSE buyers
    /\ UNCHANGED <<kind, step, status, balance, ladder, UntilScan, UntilReceipts>>

\* isEoa: no more code is read than the budget allows.
LookupsExhausted ==
    /\ step = "sample" /\ Cardinality(buyers) < BuyerSample
    /\ NextBuyers # {} /\ Cardinality(looked) >= CodeLookups
    /\ EndsWith("unknown")

Sampled ==
    /\ step = "sample" /\ (Cardinality(buyers) = BuyerSample \/ NextBuyers = {})
    /\ Proceed("ledger")
    /\ UNCHANGED <<UntilScan, UntilLadder, UntilReceipts>>

\* The balance of a buyer is what its transfers say, give or take one percent.
CheckBalance ==
    /\ step = "ledger"
    /\ \E w \in buyers, b \in {"held", "dust"} :
           balance[w] = "unread" /\ balance' = [balance EXCEPT ![w] = b]
    /\ UNCHANGED <<kind, step, status, looked, buyers, ladder, UntilScan, UntilReceipts>>

BalanceHidden == step = "ledger" /\ (\E w \in buyers : balance[w] = "unread") /\ EndsWith("blocked")

BalancesChecked ==
    /\ step = "ledger" /\ \A w \in buyers : balance[w] # "unread"
    /\ Proceed("ladder")
    /\ UNCHANGED <<UntilScan, UntilLadder, UntilReceipts>>

Untried == {w \in buyers \ ladder : balance[w] = "held"}

LadderLeft == Untried # {} /\ Cardinality(ladder) < LadderWallets

\* A buyer could transfer 1, 10, 50 and 100 percent of what it holds to the pool.
LadderPasses ==
    /\ step = "ladder" /\ LadderLeft
    /\ \E w \in Untried : ladder' = ladder \cup {w}
    /\ UNCHANGED <<kind, step, status, looked, buyers, balance, UntilScan, UntilReceipts>>

\* A transfer reverts, or answers false; or its answer is empty.
LadderFails == step = "ladder" /\ LadderLeft /\ \E s \in {"blocked", "unknown"} : EndsWith(s)

\* The pool's balance says what a meaningful sell is: of those who transferred to the pool,
\* the sources transferred enough.
LaddersTried ==
    /\ step = "ladder" /\ ~ LadderLeft
    /\ Proceed("receipts")
    /\ \E enough \in [DOMAIN sales -> SUBSET Wallet] :
           /\ \A i \in DOMAIN sales : enough[i] \subseteq sales[i]
           /\ sales' = enough
    /\ UNCHANGED <<range, rawBuyers, UntilLadder, UntilReceipts>>

Receipt == [sender : Wallet, ok : BOOLEAN, sold : BOOLEAN]

\* Mutant: the transfer's source need not have sent the transaction.
AnySource(r, sources) == r.ok /\ r.sold /\ r.sender \in Person \ Excluded

\* The transaction succeeded, its sender is a person and one of those who transferred enough,
\* and the pool swapped the tokens for the quote and paid it out.
SoldBySender(r, sources) ==
    r.ok /\ r.sold /\ r.sender \in (sources \cap Person) \ Excluded

MoreReceipts == sales # <<>> /\ Cardinality(sellers) < SellersNeeded /\ reads < ReceiptCap

\* A transaction that nobody new made is passed over: the sources that it looks at are no
\* persons.
PassOver ==
    /\ step = "receipts" /\ MoreReceipts
    /\ LET new == Head(sales) \ (sellers \cup Excluded)
       IN  /\ new \cap Person = {}
           /\ looked' = looked \cup new
    /\ Cardinality(looked') <= CodeLookups
    /\ sales' = Tail(sales)
    /\ UNCHANGED <<kind, step, status, range, rawBuyers, buyers, balance, ladder, UntilReceipts>>

\* The sources are looked at up to the first person, and the receipt is read; its sender's
\* code was read then, if it counts.
ReadReceipt ==
    /\ step = "receipts" /\ MoreReceipts
    /\ LET sources == Head(sales)
           new     == sources \ (sellers \cup Excluded)
       IN  \E p \in new \cap Person, before \in SUBSET (new \ Person), r \in Receipt :
               LET counted == SoldBySender(r, sources)
               IN  /\ looked' = looked \cup before \cup {p} \cup (IF counted THEN {r.sender} ELSE {})
                   /\ sellers' = IF counted THEN sellers \cup {r.sender} ELSE sellers
                   /\ receipts' = receipts \cup {[receipt |-> r, sources |-> sources]}
    /\ Cardinality(looked') <= CodeLookups
    /\ reads' = reads + 1
    /\ sales' = Tail(sales)
    /\ UNCHANGED <<kind, step, status, range, rawBuyers, buyers, balance, ladder, outflows>>

-----------------------------------------------------------------------------
(* The observed sells.                                                     *)

\* A receipt of the newest transactions that paid into the pool.  On Solana a seller's second
\* sell adds nothing to the receipts that count.
ObserveReceipt ==
    /\ step = "observe" /\ reads < ReceiptCap
    /\ \E r \in Receipt :
           LET counted == r.ok /\ r.sold /\ r.sender \notin Excluded
           IN  /\ sellers' = IF counted THEN sellers \cup {r.sender} ELSE sellers
               /\ outflows' = IF counted /\ ~ (kind = "solana" /\ r.sender \in sellers)
                              THEN outflows + 1 ELSE outflows
               /\ receipts' = receipts \cup {[receipt |-> r, sources |-> Wallet]}
    /\ reads' = reads + 1
    /\ UNCHANGED <<kind, step, status, UntilScan, UntilLadder>>

-----------------------------------------------------------------------------
(* The result.                                                             *)

\* finalizeSellability and the ends of the observed inspections.
Concluded ==
    LET needed == IF kind = "solana" THEN SolanaNeeded ELSE SellersNeeded
    IN  /\ Cardinality(sellers) >= needed
        /\ IF kind \in Observed THEN outflows >= needed ELSE buyers # {} /\ ladder # {}

\* normalizeSellabilityEvidence: the evidence of a confirmation is complete.
Complete ==
    /\ Cardinality(sellers) >= SellersNeeded
    /\ IF kind \in Observed THEN outflows >= SellersNeeded ELSE buyers # {} /\ ladder # {}

Conclude ==
    /\ \/ step = "receipts" /\ ~ MoreReceipts
       \/ step = "observe"
    /\ EndsWith(IF Concluded /\ Complete THEN "confirmed" ELSE "unknown")

SellNext ==
    \/ ReadFails \/ BindingFails \/ PoolUnresolved \/ Bound \/ QuotesFail \/ QuotesHold
    \/ ReadRange \/ RangesRead \/ SampleBuyer \/ LookupsExhausted \/ Sampled
    \/ CheckBalance \/ BalanceHidden \/ BalancesChecked
    \/ LadderPasses \/ LadderFails \/ LaddersTried
    \/ PassOver \/ ReadReceipt \/ ObserveReceipt \/ Conclude

SellSpec == SellInit /\ [][SellNext]_sellVars

-----------------------------------------------------------------------------
(* A confirmation is earned on the chain itself: enough different wallets    *)
(* each sent a successful transaction that sold their own tokens and paid    *)
(* out the quote, none of them the pool's own; on a V2 pool these are        *)
(* persons and the sellers of those tokens, and a sampled buyer, none of     *)
(* whom hides tokens, holds one and can transfer it to the pool              *)
(* (inspectSellability, observeSellReceipts, observeSolanaSellTransactions,  *)
(* normalizeSellabilityEvidence).                                            *)
ConfirmedIsEarned ==
    status = "confirmed" =>
        /\ \E S \in SUBSET (Wallet \ Excluded) :
               /\ Cardinality(S) >= SellersNeeded
               /\ \A w \in S : \E e \in receipts :
                      e.receipt.sender = w /\ e.receipt.ok /\ e.receipt.sold
                      /\ (kind \notin Observed => w \in e.sources /\ w \in Person)
        /\ kind \notin Observed =>
               /\ \A w \in buyers : balance[w] # "unread"
               /\ \E w \in buyers \cap Person : balance[w] = "held" /\ w \in ladder
=============================================================================
