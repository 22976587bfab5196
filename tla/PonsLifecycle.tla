---------------------------- MODULE PonsLifecycle ----------------------------
(***************************************************************************)
(* The Pons V2 lifecycle of the Robinhood process: the loop that turns     *)
(* confirmed Factory events into token states (src/src/scanner.js,         *)
(* lifecycle.js), the worker that inspects tokens, and the part of the     *)
(* state file they share (store.js).                                       *)
(*                                                                         *)
(* The loop snapshots the token states, reads the Factory record of every  *)
(* event of a range one after the other, and commits the range in one      *)
(* write; the worker snapshots a token, inspects it for up to ninety       *)
(* seconds, and commits the result in one write.  Both compare the token   *)
(* states with their snapshot before they write.                           *)
(*                                                                         *)
(* An event is named by its block: a block of the model holds at most one. *)
(* The record read is the one of the latest block, while events are read   *)
(* up to the latest confirmed block.  Not modelled: the watchlist, which   *)
(* nothing in the live process ever fills, and the pruning of applied      *)
(* events, which are never looked up again once the cursor passed them.    *)
(***************************************************************************)
EXTENDS Integers, FiniteSets

CONSTANTS
    Token,          \* Pons tokens
    LastBlock,      \* bound: the last block of the modelled chain
    Confirmations,  \* settings.ponsConfirmations
    MaxAttempts,    \* maxAttempts of runPendingChecks
    Rescues,        \* bound: the tokens the Factory may rescue
    MaxWindow,      \* bound: how far the age window moves
    FaultKinds,     \* which of crash, read, disk may happen
    MaxFaults       \* bound: how many faults may happen

ASSUME PonsAssumption ==
    /\ LastBlock \in Nat \ {0}
    /\ Confirmations \in Nat
    /\ MaxAttempts \in Nat \ {0}
    /\ Rescues \subseteq Token
    /\ MaxWindow \in 1 .. LastBlock
    /\ FaultKinds \subseteq {"crash", "read", "disk"}
    /\ MaxFaults \in Nat

VARIABLES
    \* the chain
    head,           \* the latest block
    log,            \* the event of each block
    phase,          \* the Factory record of each token
    window,         \* first block younger than lineAMaxAgeMinutes
    \* state.json
    cursor,         \* cursors.ponsV2, 0 for null
    tokens,         \* the state of each token
    applied,        \* appliedEvents
    checks,         \* the pons_inspection check of each event
    notices,        \* outbox: the notifications enqueued, by check
    \* memory of the loop
    lastBlock,      \* ponsState.lastBlock
    range,          \* the range being previewed
    working,        \* the token states in the preview
    next,           \* the token state after each event read so far
    \* memory of the worker
    due,            \* the checks selected for this round
    inspecting,     \* the check being run, 0 for none
    before,         \* the token state its handler started from
    \* environment
    faults          \* faults so far

chain  == <<head, log, phase, window>>
file   == <<cursor, tokens, applied, checks, notices>>
loop   == <<lastBlock, range, working, next>>
worker == <<due, inspecting, before>>
vars   == <<chain, file, loop, worker, faults>>

Block == 1 .. LastBlock
Kind  == {"token_launched", "launch_swept", "pool_graduated", "tokens_locked"}
Phase == {"absent", "not_graduated", "swept", "pool_created", "rescued"}
State == [phase : Phase, monitor : {"none", "observed", "decay", "killed"},
          ready : {"yes", "no", "unknown"}, rev : Nat]

NoState == [phase |-> "absent", monitor |-> "none", ready |-> "unknown", rev |-> 0]
NoEvent == [token |-> "none", kind |-> "none"]
NoCheck == [status |-> "none", attempts |-> 0]
NewCheck == [status |-> "pending", attempts |-> 0]
Unset   == -1

Blank   == [t \in Token |-> NoState]

(* What the loop remembers of a range: the blocks after `from` up to `to`, *)
(* read up to `at`, from the token states of `snapshot`.                   *)
Idle == [from |-> 0, at |-> 0, to |-> 0, snapshot |-> Blank,
         recovering |-> FALSE]
Nothing == [b \in Block |-> NoState]

TypeOK ==
    /\ head \in 0 .. LastBlock
    /\ log \in [Block -> [token : Token, kind : Kind] \cup {NoEvent}]
    /\ phase \in [Token -> Phase]
    /\ window \in 1 .. MaxWindow
    /\ cursor \in 0 .. LastBlock
    /\ tokens \in [Token -> State]
    /\ applied \subseteq Block
    /\ checks \in [Block -> [status : {"none", "pending", "completed", "failed", "expired"},
                             attempts : 0 .. MaxAttempts]]
    /\ notices \subseteq Block \X {"hard_kill", "market_ready"}
    /\ lastBlock \in Unset .. LastBlock
    /\ range \in [from : 0 .. LastBlock, at : 0 .. LastBlock, to : 0 .. LastBlock,
                  snapshot : [Token -> State], recovering : BOOLEAN]
    /\ working \in [Token -> State]
    /\ next \in [Block -> State]
    /\ due \subseteq Block
    /\ inspecting \in 0 .. LastBlock
    /\ before \in State
    /\ faults \in 0 .. MaxFaults

Init ==
    /\ head = 0
    /\ log = [b \in Block |-> NoEvent]
    /\ phase = [t \in Token |-> "absent"]
    /\ window = 1
    /\ cursor = 0
    /\ tokens = [t \in Token |-> NoState]
    /\ applied = {}
    /\ checks = [b \in Block |-> NoCheck]
    /\ notices = {}
    /\ lastBlock = Unset
    /\ range = Idle
    /\ working = Blank
    /\ next = Nothing
    /\ due = {}
    /\ inspecting = 0
    /\ before = NoState
    /\ faults = 0

Fault(k) == k \in FaultKinds /\ faults < MaxFaults /\ faults' = faults + 1

-----------------------------------------------------------------------------
(* The Factory.                                                            *)

Emit(t, kind) ==
    /\ head < LastBlock
    /\ head' = head + 1
    /\ log' = [log EXCEPT ![head + 1] = [token |-> t, kind |-> kind]]
    /\ UNCHANGED <<window, file, loop, worker, faults>>

Move(t, from, to, kind) ==
    /\ phase[t] = from
    /\ phase' = [phase EXCEPT ![t] = to]
    /\ Emit(t, kind)

Launch(t)   == Move(t, "absent", "not_graduated", "token_launched")
Sweep(t)    == Move(t, "not_graduated", "swept", "launch_swept")
Graduate(t) == Move(t, "swept", "pool_created", "pool_graduated")

Lock(t) ==
    /\ [token |-> t, kind |-> "tokens_locked"] \notin {log[b] : b \in Block}
    /\ Move(t, "pool_created", "pool_created", "tokens_locked")

(* A rescue shows in the record only: the process decodes no event of it.  *)
Rescue(t) ==
    /\ t \in Rescues
    /\ phase[t] = "swept"
    /\ phase' = [phase EXCEPT ![t] = "rescued"]
    /\ UNCHANGED <<head, log, window, file, loop, worker, faults>>

EmptyBlock ==
    /\ head < LastBlock
    /\ head' = head + 1
    /\ UNCHANGED <<log, phase, window, file, loop, worker, faults>>

AgeWindow ==
    /\ window < MaxWindow
    /\ window <= head
    /\ window' = window + 1
    /\ UNCHANGED <<head, log, phase, file, loop, worker, faults>>

-----------------------------------------------------------------------------
(* The reducer: one event and the record read for it.                      *)

Rank(p) == CASE p = "absent" -> 0 [] p = "not_graduated" -> 1 [] p = "swept" -> 2
             [] p = "pool_created" -> 3 [] p = "rescued" -> 4

(* Mutant: a record that was already ahead at the last event is a conflict.*)
PhaseConflictUnlessAhead(state, read) ==
    /\ state.phase \notin {"absent", "rescued"}
    /\ IF read = "rescued" THEN state.phase # "swept" ELSE Rank(read) <= Rank(state.phase)

(* assertForwardPhase throws.                                              *)
PhaseConflict(state, read) ==
    /\ state.phase \notin {"absent", "rescued"}
    /\ IF read = "rescued" THEN state.phase # "swept" ELSE Rank(read) < Rank(state.phase)

InitialState(read) ==
    [phase   |-> read,
     monitor |-> CASE read = "rescued" -> "killed"
                   [] read = "pool_created" -> "decay"
                   [] OTHER -> "observed",
     ready   |-> IF read = "pool_created" THEN "no" ELSE "unknown",
     rev     |-> 1]

(* reducePonsEvent: every event resets market readiness once the pool      *)
(* exists, and nothing brings a killed token back.                         *)
Reduced(state, read) ==
    IF state = NoState THEN InitialState(read)
    ELSE IF state.phase = "rescued" THEN state
    ELSE [phase   |-> read,
          monitor |-> CASE read = "rescued" -> "killed"
                        [] read = "pool_created" /\ state.monitor # "killed" -> "decay"
                        [] OTHER -> state.monitor,
          ready   |-> IF read \in {"rescued", "pool_created"} THEN "no" ELSE state.ready,
          rev     |-> state.rev + 1]

-----------------------------------------------------------------------------
(* The loop: runPonsWatchIteration.                                        *)

Safe == head - Confirmations
Larger(a, b)  == IF a >= b THEN a ELSE b
Smaller(a, b) == IF a <= b THEN a ELSE b

(* Mutant: the first block of the window is passed over at a restart.      *)
StartAtWindow ==
    IF lastBlock # Unset THEN lastBlock ELSE Smaller(Safe, Larger(cursor, window))

(* Where an iteration starts: after a restart the window's first block is  *)
(* looked up again, and older blocks are passed over.                      *)
Start == IF lastBlock # Unset THEN lastBlock
         ELSE Smaller(Safe, Larger(cursor, window - 1))

Free == range.to = 0

PollNothing ==
    /\ Free
    /\ Safe >= 0
    /\ Safe <= Start
    /\ lastBlock' = Start
    /\ UNCHANGED <<chain, file, range, working, next, worker, faults>>

(* The head may have moved since it was read.                              *)
BeginRange ==
    /\ Free
    /\ \E to \in (Start + 1) .. Safe :
         range' = [from |-> Start, at |-> Start, to |-> to, snapshot |-> tokens,
                   recovering |-> lastBlock = Unset /\ cursor = 0]
    /\ working' = tokens
    /\ UNCHANGED <<chain, file, lastBlock, next, worker, faults>>

EventsIn(from, to) == {b \in (from + 1) .. to : log[b] # NoEvent}
Of(t, blocks)      == {b \in blocks : log[b].token = t}
Newest(blocks)     == CHOOSE b \in blocks : \A d \in blocks : d <= b
Oldest(blocks)     == {b \in blocks : \A d \in blocks : b <= d}

Abandon ==
    /\ range' = Idle
    /\ working' = Blank
    /\ next' = Nothing
    /\ UNCHANGED <<chain, file, lastBlock, worker>>

(* buildPonsTransitions reads the record of one event and reduces it; a    *)
(* record that does not fit the state abandons the whole range.            *)
ReadEvent ==
    \E b \in Oldest(EventsIn(range.at, range.to)) :
      LET t     == log[b].token
          state == Reduced(working[t], phase[t])
      IN
      \/ /\ ~PhaseConflict(working[t], phase[t])
         /\ working' = [working EXCEPT ![t] = state]
         /\ next' = [next EXCEPT ![b] = state]
         /\ range' = [range EXCEPT !.at = b]
         /\ UNCHANGED <<chain, file, lastBlock, worker, faults>>
      \/ PhaseConflict(working[t], phase[t]) /\ Abandon /\ UNCHANGED faults
      \/ Fault("read") /\ Abandon

Fresh == EventsIn(range.from, range.to) \ applied

(* Mutant: only the first token of the range is compared.                  *)
ChangedFirst ==
    \E b \in Oldest(EventsIn(range.from, range.to)) :
        tokens[log[b].token] # range.snapshot[log[b].token]

Changed == \E b \in EventsIn(range.from, range.to) :
               tokens[log[b].token] # range.snapshot[log[b].token]

(* The events that ask for an inspection, unless the process is starting   *)
(* without a cursor.                                                       *)
Inspected ==
    {b \in Fresh : /\ log[b].kind \in {"token_launched", "pool_graduated"}
                   /\ ~range.recovering}

(* A new inspection supersedes the pending ones of its token.              *)
Committed(b) ==
    LET check == IF b \in Inspected THEN NewCheck ELSE checks[b] IN
    IF check.status = "pending"
         /\ \E d \in Inspected : d > b /\ log[d].token = log[b].token
    THEN [check EXCEPT !.status = "expired"] ELSE check

WriteRange ==
    /\ tokens' = [t \in Token |-> IF Of(t, Fresh) = {} THEN tokens[t]
                                  ELSE next[Newest(Of(t, Fresh))]]
    /\ checks' = [b \in Block |-> Committed(b)]
    /\ applied' = applied \cup Fresh
    /\ cursor' = range.to
    /\ lastBlock' = range.to
    /\ range' = Idle
    /\ working' = Blank
    /\ next' = Nothing
    /\ UNCHANGED <<chain, notices, worker, faults>>

Read == range.to # 0 /\ EventsIn(range.at, range.to) = {}

(* commitPonsRange: the states of the range's tokens must still be the     *)
(* snapshot's, or the range is read again.                                 *)
CommitRange ==
    /\ Read
    /\ \/ ~Changed /\ WriteRange
       \/ Changed /\ Abandon /\ UNCHANGED faults
       \/ ~Changed /\ Fault("disk") /\ Abandon

-----------------------------------------------------------------------------
(* The worker: runPendingChecks with createInspectionCheckHandlers.        *)

Pending(b) == checks[b].status = "pending"

SelectChecks ==
    /\ due = {} /\ inspecting = 0
    /\ due' \in SUBSET {b \in Block : Pending(b)} \ {{}}
    /\ UNCHANGED <<chain, file, loop, inspecting, before, faults>>

(* The handler keeps the token state it started from.                      *)
StartInspection ==
    /\ inspecting = 0
    /\ \E b \in due :
         /\ due' = due \ {b}
         /\ inspecting' = b
         /\ before' = tokens[log[b].token]
    /\ UNCHANGED <<chain, file, loop, faults>>

Rest == inspecting' = 0 /\ before' = NoState

Inspection(killed, ready) ==
    [phase   |-> before.phase,
     monitor |-> IF killed /\ before.phase # "rescued" THEN "killed" ELSE before.monitor,
     ready   |-> IF before.phase = "pool_created" THEN ready ELSE before.ready,
     rev     |-> before.rev + 1]

(* Mutant: only a token that was merely observed announces its kill.       *)
NotificationObserved(b, after) ==
    IF before.monitor = "observed" /\ after.monitor = "killed" THEN {<<b, "hard_kill">>}
    ELSE IF before.ready # "yes" /\ after.ready = "yes" THEN {<<b, "market_ready">>}
    ELSE {}

Notification(b, after) ==
    IF before.monitor # "killed" /\ after.monitor = "killed" THEN {<<b, "hard_kill">>}
    ELSE IF before.ready # "yes" /\ after.ready = "yes" THEN {<<b, "market_ready">>}
    ELSE {}

Apply(b, after) ==
    /\ tokens' = [tokens EXCEPT ![log[b].token] = after]
    /\ checks' = [checks EXCEPT ![b].status = "completed"]
    /\ notices' = notices \cup Notification(b, after)

(* Mutant: applyCheckResult without expectedToken.                         *)
AcceptedUnchecked(b) == Pending(b)

Accepted(b) == Pending(b) /\ tokens[log[b].token] = before

(* The inspection ends with a report: whether a risk gate kills the token, *)
(* and whether its market is ready.  applyCheckResult drops the report     *)
(* when the check is no longer pending or the token has changed.           *)
Report ==
    LET b == inspecting IN
    /\ b # 0
    /\ before # NoState
    /\ \E killed \in BOOLEAN, ready \in {"yes", "no", "unknown"} :
         /\ ready = "yes" => phase[log[b].token] \in {"pool_created", "rescued"}
         /\ IF Accepted(b) THEN Apply(b, Inspection(killed, ready))
            ELSE UNCHANGED <<tokens, checks, notices>>
    /\ Rest
    /\ UNCHANGED <<chain, cursor, applied, loop, due, faults>>

(* Mutant: a check expired during its inspection is pending again.         *)
FailReopens ==
    /\ inspecting # 0
    /\ LET n == checks[inspecting].attempts + 1 IN
         checks' = [checks EXCEPT ![inspecting] =
                      [status   |-> IF n >= MaxAttempts THEN "failed" ELSE "pending",
                       attempts |-> n]]
    /\ Rest
    /\ UNCHANGED <<chain, cursor, tokens, applied, notices, loop, due, faults>>

(* Mutant: a failed attempt is not counted.                                *)
FailUncounted ==
    /\ inspecting # 0
    /\ Rest
    /\ UNCHANGED <<chain, file, loop, due, faults>>

(* A timeout, a source that failed, or a result that cannot be written:    *)
(* the attempt is counted, unless the check has expired meanwhile.         *)
FailInspection ==
    /\ inspecting # 0
    /\ LET n == checks[inspecting].attempts + 1 IN
         checks' = IF ~Pending(inspecting) THEN checks
                   ELSE [checks EXCEPT ![inspecting] =
                           [status   |-> IF n >= MaxAttempts THEN "failed" ELSE "pending",
                            attempts |-> n]]
    /\ Rest
    /\ UNCHANGED <<chain, cursor, tokens, applied, notices, loop, due, faults>>

-----------------------------------------------------------------------------
(* The process stops and is started again on the same state file.          *)
Crash ==
    /\ Fault("crash")
    /\ lastBlock' = Unset
    /\ range' = Idle
    /\ working' = Blank
    /\ next' = Nothing
    /\ due' = {}
    /\ Rest
    /\ UNCHANGED <<chain, file>>

ChainStep ==
    \/ \E t \in Token : Launch(t) \/ Sweep(t) \/ Graduate(t) \/ Lock(t) \/ Rescue(t)
    \/ EmptyBlock
    \/ AgeWindow

LoopStep   == PollNothing \/ BeginRange \/ ReadEvent \/ CommitRange
WorkerStep == SelectChecks \/ StartInspection \/ Report \/ FailInspection

Next == ChainStep \/ LoopStep \/ WorkerStep \/ Crash

Spec == Init /\ [][Next]_vars

(* The loop catches every error and polls again, the worker's round always *)
(* ends; nothing is assumed of the chain.                                  *)
FairSpec == Spec /\ WF_vars(LoopStep) /\ WF_vars(WorkerStep)
-----------------------------------------------------------------------------
(* Properties.                                                             *)

(* A token's phase never goes back, a killed token stays killed and a      *)
(* rescued one stays rescued, whatever inspection or range preview started *)
(* before and is written after (assertForwardPhase, expectedToken).        *)
NoWayBack ==
    [][\A t \in Token :
         LET old == tokens[t]
             new == tokens'[t]
         IN /\ Rank(old.phase) <= Rank(new.phase)
            /\ old.monitor = "killed" => new.monitor = "killed"
            /\ old.phase = "rescued" => new.ready # "yes"
      ]_tokens

ReachedBy(kind) ==
    CASE kind = "token_launched" -> {"not_graduated", "swept", "pool_created", "rescued"}
      [] kind = "launch_swept"   -> {"swept", "pool_created", "rescued"}
      [] OTHER                   -> {"pool_created", "rescued"}

(* No later write loses an event: the state of a token has gone at least   *)
(* as far as every event applied to it (commitPonsRange, applyCheckResult). *)
AppliedIsReflected ==
    \A b \in applied : tokens[log[b].token].phase \in ReachedBy(log[b].kind)

(* The cursor passes no event inside the age window, across failed ranges, *)
(* restarts and conflicts with the worker (runPonsWatchIteration).         *)
CursorCoversEvents ==
    \A b \in 1 .. cursor : log[b] # NoEvent => b \in applied \/ b < window

(* A pending inspection is the newest of its token: an older one cannot    *)
(* come back after it was superseded (commitPonsRange, rescheduleCheck).   *)
NewestInspectionOnly ==
    \A b, d \in Block :
        /\ Pending(b)
        /\ b < d
        /\ log[b] # NoEvent /\ log[d] # NoEvent
        /\ log[b].token = log[d].token
        => checks[d].status = "none"

HardKills(t) == {n \in notices : log[n[1]].token = t /\ n[2] = "hard_kill"}

(* A token is announced dead at most once, and a kill by an inspection is  *)
(* never written without its announcement.                                 *)
KillAnnouncedOnce ==
    \A t \in Token :
        /\ Cardinality(HardKills(t)) <= 1
        /\ HardKills(t) # {} => tokens[t].monitor = "killed"
        /\ tokens[t].monitor = "killed" /\ tokens[t].phase # "rescued" => HardKills(t) # {}

(* Every confirmed event is eventually consumed, unless it left the age    *)
(* window: "a single bad token must not block the Factory cursor for ever" *)
(* (lifecycle design, state and cursors).                                  *)
EventsConsumed ==
    \A b \in Block : Safe >= b ~> cursor >= b \/ window > b

(* Every inspection ends, and a token that keeps changing does not keep it *)
(* from ending.                                                            *)
InspectionsEnd == \A b \in Block : Pending(b) ~> ~Pending(b)
=============================================================================
