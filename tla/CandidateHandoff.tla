-------------------------- MODULE CandidateHandoff --------------------------
(***************************************************************************)
(* What the watch process promises about the candidates announced onchain, *)
(* in terms of the state file alone.  The watermark is the durable cursor. *)
(* A source may handle a candidate only above the watermark; the watermark *)
(* passes a candidate only when it is no longer open; below it only the    *)
(* recovery worker changes what became of the candidate, once.             *)
(***************************************************************************)
EXTENDS Naturals

CONSTANTS
    Candidate,      \* candidate keys
    BlockOf,        \* the block whose log announces a candidate
    LastBlock       \* bound: the last block of the modelled chain

(* What a user of this module has to know of its parameters.               *)
HandoffAssumption ==
    /\ BlockOf \in [Candidate -> Nat]
    /\ LastBlock \in Nat

VARIABLES
    status,         \* what became of each candidate
    watermark       \* the last block every candidate of which was handled

vars == <<status, watermark>>

Status == {"open",          \* nothing is recorded
           "deferred",      \* left to the recovery worker
           "settled",       \* handled, not to be analyzed again
           "abandoned",     \* the recovery worker gave up
           "expired"}       \* too old to be alerted on

TypeOK ==
    /\ status \in [Candidate -> Status]
    /\ watermark \in 0 .. LastBlock

Init ==
    /\ status = [c \in Candidate |-> "open"]
    /\ watermark = 0

Become(c, st) == status' = [status EXCEPT ![c] = st] /\ UNCHANGED watermark

Handle(c) ==
    /\ BlockOf[c] > watermark
    /\ Become(c, "settled") \/ Become(c, "deferred")

Resolve(c) ==
    /\ status[c] = "deferred"
    /\ Become(c, "settled") \/ Become(c, "abandoned")

Expire(c) ==
    \/ status[c] = "open" /\ Become(c, "expired")
    \/ status[c] = "settled" /\ (Become(c, "expired") \/ Become(c, "abandoned"))

Advance(to) ==
    /\ to > watermark
    /\ \A c \in Candidate : BlockOf[c] \in (watermark + 1) .. to => status[c] # "open"
    /\ watermark' = to
    /\ UNCHANGED status

Next ==
    \/ \E c \in Candidate : Handle(c) \/ Resolve(c) \/ Expire(c)
    \/ \E to \in 1 .. LastBlock : Advance(to)

Spec == Init /\ [][Next]_vars

-----------------------------------------------------------------------------
(* No candidate at or below the watermark is open (the guarantee           *)
(* processOnchainRange gives before cursors.onchain is written).           *)
Covered == \A c \in Candidate : BlockOf[c] \in 1 .. watermark => status[c] # "open"

(* Once the watermark passed a candidate, the source never hands it over   *)
(* again: what the worker settled or gave up stays so, until it expires.   *)
HandedOverOnce ==
    [][\A c \in Candidate :
         BlockOf[c] \in 1 .. watermark /\ status[c] # "deferred"
            => status'[c] \notin {"open", "deferred"}]_vars
=============================================================================
