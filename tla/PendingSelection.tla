-------------------------- MODULE PendingSelection --------------------------
(***************************************************************************)
(* Which due checks a round of the pending-check worker takes             *)
(* (src/pending-checks.js, the worker's loop of src/scanner.js).  A check  *)
(* is one of its bucket: 0 for candidates, 1 for Pons, 2 for the rest.     *)
(* Inside a bucket the oldest go first, so only the numbers matter here.   *)
(***************************************************************************)
EXTENDS Integers

CONSTANTS
    TakeLimit,  \* the checks one round takes at most: limit
    MaxDue      \* bound: the checks of one bucket that are due at once

ASSUME SelectionAssumption == TakeLimit \in Nat /\ MaxDue \in Nat

BucketCount == 3
Bucket == 0 .. BucketCount - 1

VARIABLES
    dueChecks,     \* per bucket, its checks that are due
    startBucket,   \* where the next round begins: pendingBucketCursor
    taken, left,   \* what the last round took of each bucket, and left in it
    shares         \* ghost: what each bucket got of the last rounds that began with all
                   \* buckets able to fill them, and the number of those rounds

selectionVars == <<dueChecks, startBucket, taken, left, shares>>

NoShares == [rounds |-> 0, got |-> [b \in Bucket |-> 0]]

Tally(s) == s[0] + s[1] + s[2]

SelectionInit ==
    /\ dueChecks = [b \in Bucket |-> 0]
    /\ startBucket = 0
    /\ taken = [b \in Bucket |-> 0] /\ left = [b \in Bucket |-> 0]
    /\ shares = NoShares

\* Mutant: every round begins with the first bucket.
VisitedFromZero(first, v) == ((v \div BucketCount) + (v % BucketCount)) % BucketCount

\* One pass asks every bucket once, from its first one on; the next pass begins one further.
Visited(first, v) == (first + (v \div BucketCount) + (v % BucketCount)) % BucketCount

\* A visit takes the next check of its bucket, if the round is not full and there is one.
Visit(queued, first, got, v) ==
    LET b == Visited(first, v)
    IN  IF Tally(got) < TakeLimit /\ got[b] < queued[b] THEN [got EXCEPT ![b] = @ + 1] ELSE got

\* selectDueChecks: the number each bucket gives, after the visits that can give anything.
SelectDue(queued, first) ==
    LET visits == BucketCount * (TakeLimit + 1)
        after[v \in 0 .. visits] ==
            IF v = 0 THEN [b \in Bucket |-> 0]
            ELSE Visit(queued, first, after[v - 1], v - 1)
    IN  after[visits]

\* Checks fall due, or are scheduled.
ChecksFallDue ==
    /\ \E b \in Bucket : \E n \in dueChecks[b] + 1 .. MaxDue :
           dueChecks' = [dueChecks EXCEPT ![b] = n]
    /\ UNCHANGED <<startBucket, taken, left, shares>>

\* runPendingChecks: every check it takes is completed, rescheduled or failed by its end, so
\* none of them is due when the next round begins.
SelectionRound ==
    LET got    == SelectDue(dueChecks, startBucket)
        loaded == \A b \in Bucket : dueChecks[b] >= TakeLimit
    IN  /\ taken' = got
        /\ left' = [b \in Bucket |-> dueChecks[b] - got[b]]
        /\ dueChecks' = left'
        /\ startBucket' = (startBucket + 1) % BucketCount
        /\ shares' = IF ~ loaded THEN NoShares
                     ELSE LET before == IF shares.rounds = BucketCount THEN NoShares ELSE shares
                          IN  [rounds |-> before.rounds + 1,
                               got |-> [b \in Bucket |-> before.got[b] + got[b]]]

\* A restart begins with the first bucket again.
SelectionRestart ==
    /\ startBucket' = 0
    /\ shares' = NoShares
    /\ UNCHANGED <<dueChecks, taken, left>>

SelectionNext == ChecksFallDue \/ SelectionRound \/ SelectionRestart

SelectionSpec == SelectionInit /\ [][SelectionNext]_selectionVars

-----------------------------------------------------------------------------
(* A flood of checks of one kind cannot hold up the others: a round is full *)
(* or leaves nothing; a bucket that still has checks got at most one less    *)
(* than any other; and under load the buckets get equal shares of any three  *)
(* successive rounds (selectDueChecks and the cursor of the worker's loop).  *)
FairShare ==
    /\ Tally(taken) = TakeLimit \/ \A b \in Bucket : left[b] = 0
    /\ \A b, c \in Bucket : left[b] > 0 => taken[c] <= taken[b] + 1
    /\ shares.rounds = BucketCount => \A b \in Bucket : shares.got[b] = TakeLimit
=============================================================================
