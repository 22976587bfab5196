---------------------------- MODULE MCDiscovery -----------------------------
(* Instances of ChainReading and SolanaRunner for TLC.  A process serves   *)
(* the chain it was started for and never another.                         *)
EXTENDS ChainReading, SolanaRunner, TLC

CONSTANTS Served, v2, v4, ka, kb

VARIABLE chain

(* Two programs that take turns, and several signatures to a slot.  The    *)
(* first two are the history of a first run.  Then program 1 announces kb, *)
(* one transaction migrates ka and creates it, an event of each program    *)
(* and so two candidates, and program 1 announces ka again.                *)
Listing == <<2, 1, 1, 1, 2, 1>>
Slots == <<1, 1, 1, 2, 2, 3>>
Pools == <<NoPool, NoPool, kb, ka, ka, ka>>

DiscoveryInit ==
    /\ chain \in Served
    /\ Init /\ SolInit
    /\ chain = "solana" => boundary = 0

DiscoveryNext ==
    \/ chain = "robinhood" /\ Next /\ UNCHANGED <<chain, solVars>>
    \/ chain = "solana" /\ SolNext /\ UNCHANGED <<chain, vars>>

DiscoverySpec ==
    /\ DiscoveryInit /\ [][DiscoveryNext]_<<chain, vars, solVars>>
    /\ chain = "robinhood" => WF_vars(Next)
    /\ chain = "solana" => SolFairness

(* Whichever chain the process serves, its loop gets to the end: Robinhood's *)
(* cursor to the safe head, see CatchesUp, and every program of Solana to    *)
(* its last signature, see EverythingHandled.                                *)
EachChainCatchesUp ==
    /\ chain = "robinhood" => CatchesUp
    /\ chain = "solana" => EverythingHandled
=============================================================================
