-------------------------- MODULE CandidatePipeline --------------------------
(***************************************************************************)
(* The live `watch` process of the Robinhood scanner, from the moment a    *)
(* source reports a candidate to the moment the candidate is durably       *)
(* settled (src/src/scanner.js, runtime.js, queue.js,                      *)
(* candidate-recovery.js, candidate-retry.js, store.js).                   *)
(*                                                                         *)
(* Three actors share one state file and one serial executor:              *)
(*   onchain  scans a block range and advances the durable cursor when     *)
(*            every candidate of the range was handled;                    *)
(*   gecko    polls a listing of new pools, keeps no cursor;               *)
(*   pending  runs the due checks of the store: `recovery` repeats a       *)
(*            failed first analysis, `recheck` repeats an analysis whose   *)
(*            sellability was unknown.                                     *)
(*                                                                         *)
(* A candidate stands for its candidateKey.  Time is abstract: a pending   *)
(* check may be due at any moment, and `aged` is the set of candidates     *)
(* older than maxAgeMinutes.  What a network call returns is a choice of   *)
(* the environment, made again at each call.                               *)
(***************************************************************************)
EXTENDS Naturals, Sequences, FiniteSets

CONSTANTS
    Candidate,      \* candidate keys
    Source,         \* the enabled discovery sources
    BlockOf,        \* the block whose log announces a candidate, 0 for none
    LastBlock,      \* bound: the last block of the modelled chain
    ChunkBlocks,    \* ONCHAIN_SCAN_CHUNK_BLOCKS
    QueueSize,      \* settings.maxQueueSize
    MaxAttempts,    \* length of the anchored retry offsets
    Aging,          \* bound: the candidates that may pass the age window
    FaultKinds,     \* which of crash, disk, ack, unexpected may happen
    MaxFaults       \* bound: how many faults may happen

ASSUME PipelineAssumption ==
    /\ Source \subseteq {"onchain", "gecko"}
    /\ BlockOf \in [Candidate -> Nat]
    /\ LastBlock \in Nat
    /\ ChunkBlocks \in Nat \ {0}
    /\ QueueSize \in Nat \ {0}
    /\ MaxAttempts \in Nat \ {0}
    /\ Aging \subseteq Candidate
    /\ FaultKinds \subseteq {"crash", "disk", "ack", "unexpected"}
    /\ MaxFaults \in Nat

None  == "none"
Actor == Source \cup {"pending"}
Kind  == {"recovery", "recheck"}

VARIABLES
    \* state.json
    seen,           \* keys for which hasSeen answers true
    cursor,         \* cursors.onchain
    checks,         \* pendingChecks: [Kind -> [Candidate -> check]]
    \* memory of the process
    claimed,        \* candidates queued or in flight in some source
    recoveryKeys,   \* candidates the sources leave to the recovery worker
    batch,          \* per source, reported events not yet offered to the queue
    queue,          \* per source, accepted candidates not yet taken
    scanTo,         \* last block of the range being handled, 0 when idle
    failed,         \* per source, whether a candidate of the batch failed
    stage,          \* per actor, where its current operation stands
    cand,           \* per actor, the candidate of its current operation
    kind,           \* the kind of check the pending worker is running
    due,            \* the checks selected for this round of the worker
    executor,       \* the serial executor's chain: its head is running
    \* environment and history
    aged,           \* candidates past the age window
    alerts,         \* messages that reached the chat, per candidate
    unknown,        \* candidates whose last first operation found
                    \* sellability unknown
    faults          \* faults so far

durable  == <<seen, cursor, checks>>
source   == <<batch, queue, scanTo, failed>>
history  == <<aged, alerts, unknown, faults>>
vars     == <<seen, cursor, checks, claimed, recoveryKeys, batch, queue, scanTo,
              failed, stage, cand, kind, due, executor, aged, alerts, unknown,
              faults>>

Stage == {"idle", "classify", "analyze", "alert", "schedule", "seen", "finish",
          "complete", "again", "retry", "down"}
Status == {"none", "pending", "completed", "failed"}
Check  == [status : Status, attempts : 0 .. MaxAttempts]

NoCheck   == [status |-> "none", attempts |-> 0]
FreshCheck == [status |-> "pending", attempts |-> 0]

TypeOK ==
    /\ seen \subseteq Candidate
    /\ cursor \in 0 .. LastBlock
    /\ checks \in [Kind -> [Candidate -> Check]]
    /\ claimed \subseteq Candidate
    /\ recoveryKeys \subseteq Candidate
    /\ batch \in [Source -> SUBSET Candidate]
    /\ queue \in [Source -> SUBSET Candidate]
    /\ scanTo \in 0 .. LastBlock
    /\ failed \in [Source -> BOOLEAN]
    /\ stage \in [Actor -> Stage]
    /\ cand \in [Actor -> Candidate \cup {None}]
    /\ kind \in Kind \cup {None}
    /\ due \subseteq Kind \X Candidate
    /\ executor \in Seq(Actor)
    /\ aged \subseteq Candidate
    /\ alerts \in [Candidate -> Nat]
    /\ unknown \subseteq Candidate
    /\ faults \in 0 .. MaxFaults

-----------------------------------------------------------------------------
(* What a check's status says, and what the process reads of the store.    *)

Pending(k, c)  == checks[k][c].status = "pending"
Recorded(c)    == checks["recovery"][c].status # "none"

(* activeCandidateRecoveryKeys: only pending recoveries hold their key.    *)
ActiveRecoveryKeys == {c \in Candidate : Pending("recovery", c)}

Init ==
    /\ seen = {}
    /\ cursor = 0
    /\ checks = [k \in Kind |-> [c \in Candidate |-> NoCheck]]
    /\ recoveryKeys = {}
    /\ claimed = {}
    /\ batch = [s \in Source |-> {}]
    /\ queue = [s \in Source |-> {}]
    /\ scanTo = 0
    /\ failed = [s \in Source |-> FALSE]
    /\ stage = [a \in Actor |-> "idle"]
    /\ cand = [a \in Actor |-> None]
    /\ kind = None
    /\ due = {}
    /\ executor = <<>>
    /\ aged = {}
    /\ alerts = [c \in Candidate |-> 0]
    /\ unknown = {}
    /\ faults = 0

Fault(k) == k \in FaultKinds /\ faults < MaxFaults /\ faults' = faults + 1

-----------------------------------------------------------------------------
(* The sources.                                                            *)

SourceIdle(s) == batch[s] = {} /\ queue[s] = {} /\ stage[s] = "idle"

(* Mutant: the scan starts at the cursor instead of after it.              *)
ScanFromCursor ==
    /\ "onchain" \in Source
    /\ SourceIdle("onchain")
    /\ scanTo = 0
    /\ \E to \in (cursor + 1) .. LastBlock :
         /\ to - cursor <= ChunkBlocks
         /\ scanTo' = to
         /\ batch' = [batch EXCEPT !["onchain"] =
                        {c \in Candidate : BlockOf[c] \in cursor .. to}]
    /\ failed' = [failed EXCEPT !["onchain"] = FALSE]
    /\ UNCHANGED <<durable, claimed, recoveryKeys, queue, stage, cand, kind, due,
                   executor, history>>

(* One onchain iteration scans at most ChunkBlocks confirmed blocks after  *)
(* the cursor.  A scan that fails leaves nothing behind.                   *)
ScanRange ==
    /\ "onchain" \in Source
    /\ SourceIdle("onchain")
    /\ scanTo = 0
    /\ \E to \in (cursor + 1) .. LastBlock :
         /\ to - cursor <= ChunkBlocks
         /\ scanTo' = to
         /\ batch' = [batch EXCEPT !["onchain"] =
                        {c \in Candidate : BlockOf[c] \in (cursor + 1) .. to}]
    /\ failed' = [failed EXCEPT !["onchain"] = FALSE]
    /\ UNCHANGED <<durable, claimed, recoveryKeys, queue, stage, cand, kind, due,
                   executor, history>>

(* A poll of the listing returns whatever pools are on its page.           *)
PollGecko ==
    /\ "gecko" \in Source
    /\ SourceIdle("gecko")
    /\ \E listed \in SUBSET Candidate \ {{}} :
         batch' = [batch EXCEPT !["gecko"] = listed]
    /\ failed' = [failed EXCEPT !["gecko"] = FALSE]
    /\ UNCHANGED <<durable, claimed, recoveryKeys, queue, scanTo, stage, cand, kind,
                   due, executor, history>>

(* Mutants: one of the three sets is forgotten.                            *)
RejectedUnlessSeen(c) == c \in claimed \cup recoveryKeys
RejectedUnlessClaimed(c) == c \in seen \cup recoveryKeys

(* The hasSeen the source's queue is built with; the queue's own pending   *)
(* and inFlight sets are within `claimed`.                                 *)
Rejected(c) == c \in seen \cup claimed \cup recoveryKeys

(* The synchronous run of enqueue calls between two drains: the events it  *)
(* rejects are forgotten, and a full queue leaves the rest for later.      *)
Offer(s) ==
    /\ batch[s] # {}
    /\ queue[s] = {}
    /\ stage[s] = "idle"
    /\ \E left \in SUBSET batch[s] :
         LET accepted == {c \in batch[s] \ left : ~Rejected(c)}
         IN /\ Cardinality(accepted) <= QueueSize
            /\ left # {} => Cardinality(accepted) = QueueSize
            /\ queue' = [queue EXCEPT ![s] = accepted]
            /\ claimed' = claimed \cup accepted
            /\ batch' = [batch EXCEPT ![s] = left]
    /\ UNCHANGED <<durable, recoveryKeys, scanTo, failed, stage, cand, kind, due,
                   executor, history>>

(* drainQueue takes one candidate and hands its operation to the executor. *)
Take(s) ==
    /\ stage[s] = "idle"
    /\ \E c \in queue[s] :
         /\ queue' = [queue EXCEPT ![s] = @ \ {c}]
         /\ cand' = [cand EXCEPT ![s] = c]
    /\ stage' = [stage EXCEPT ![s] = "classify"]
    /\ executor' = Append(executor, s)
    /\ UNCHANGED <<durable, claimed, recoveryKeys, batch, scanTo, failed, kind, due,
                   history>>

(* Mutant: the candidate is never released.                                *)
FinishKeepsClaim(s) ==
    /\ stage[s] = "finish"
    /\ stage' = [stage EXCEPT ![s] = "idle"]
    /\ cand' = [cand EXCEPT ![s] = None]
    /\ UNCHANGED <<durable, claimed, recoveryKeys, source, kind, due, executor, history>>

(* The finally of drainQueue: the candidate leaves the claimed set.        *)
Finish(s) ==
    /\ stage[s] = "finish"
    /\ claimed' = claimed \ {cand[s]}
    /\ stage' = [stage EXCEPT ![s] = "idle"]
    /\ cand' = [cand EXCEPT ![s] = None]
    /\ UNCHANGED <<durable, recoveryKeys, source, kind, due, executor, history>>

(* Mutant: the cursor moves although a candidate failed.                   *)
EndRangeAlways ==
    /\ scanTo # 0
    /\ SourceIdle("onchain")
    /\ scanTo' = 0
    /\ cursor' = scanTo
    /\ UNCHANGED <<seen, checks, claimed, recoveryKeys, batch, queue, failed, stage,
                   cand, kind, due, executor, history>>

(* The range is handled: the cursor moves only if no candidate failed, and *)
(* a cursor that cannot be written leaves the range to the next iteration. *)
EndRange ==
    /\ scanTo # 0
    /\ SourceIdle("onchain")
    /\ scanTo' = 0
    /\ \/ /\ ~failed["onchain"]
          /\ cursor' = scanTo
          /\ UNCHANGED faults
       \/ /\ failed["onchain"]
          /\ UNCHANGED <<cursor, faults>>
       \/ /\ ~failed["onchain"]
          /\ Fault("disk")
          /\ UNCHANGED cursor
    /\ UNCHANGED <<seen, checks, claimed, recoveryKeys, batch, queue, failed, stage,
                   cand, kind, due, executor, aged, alerts, unknown>>

-----------------------------------------------------------------------------
(* The operation of an actor: processWatchCandidate for a source and for a *)
(* recovery, handleCandidate alone for a recheck.                          *)

Running(a) == executor # <<>> /\ Head(executor) = a

At(a, st) == Running(a) /\ stage[a] = st

IsRecheck(a) == a = "pending" /\ kind = "recheck"

GoTo(a, st) == stage' = [stage EXCEPT ![a] = st] /\ UNCHANGED executor

Leave(a, st) == stage' = [stage EXCEPT ![a] = st] /\ executor' = Tail(executor)

(* What follows a result: the source finishes, the worker completes the    *)
(* check.                                                                  *)
Return(a) == Leave(a, IF a = "pending" THEN "complete" ELSE "finish")

(* scheduleRecovery: the check is written first, then the key is held. An  *)
(* existing pending recovery is kept, a terminal one is overwritten.       *)
Defer(s) ==
    LET c == cand[s] IN
    /\ Leave(s, "finish")
    /\ \/ /\ checks' = IF Pending("recovery", c) THEN checks
                       ELSE [checks EXCEPT !["recovery"][c] = FreshCheck]
          /\ recoveryKeys' = recoveryKeys \cup {c}
          /\ UNCHANGED <<failed, faults>>
       \/ /\ Fault("disk")
          /\ failed' = [failed EXCEPT ![s] = TRUE]
          /\ UNCHANGED <<checks, recoveryKeys>>

(* A failure the code recognises as retryable: a source hands it over, the *)
(* worker retries the check.                                               *)
ThrowRetryable(a) ==
    IF a \in Source THEN Defer(a)
    ELSE Leave(a, "retry") /\ UNCHANGED <<checks, recoveryKeys, failed, faults>>

(* Any other failure: it fails the source's batch, consumes a slot of a    *)
(* recheck, and ends the process when it comes out of a recovery.          *)
ThrowUnexpected(a, why) ==
    /\ Fault(why)
    /\ IF a \in Source
         THEN Leave(a, "finish") /\ failed' = [failed EXCEPT ![a] = TRUE]
         ELSE /\ Leave(a, IF kind = "recheck" THEN "retry" ELSE "down")
              /\ UNCHANGED failed
    /\ UNCHANGED <<checks, recoveryKeys>>

Throw(a) == ThrowRetryable(a) \/ ThrowUnexpected(a, "unexpected")

Quietly == UNCHANGED <<checks, recoveryKeys, failed, faults>>

(* classifyCandidate, then routeCandidate and the age check of             *)
(* handleCandidate in the same turn: a Pons token, a route that is not     *)
(* `analyze` and an aged candidate are only marked seen.                   *)
Classify(a) ==
    /\ At(a, "classify")
    /\ \/ GoTo(a, "seen") /\ Quietly
       \/ cand[a] \notin aged /\ GoTo(a, "analyze") /\ Quietly
       \/ Throw(a)
    /\ unknown' = unknown \ {cand[a]}
    /\ UNCHANGED <<seen, cursor, claimed, batch, queue, scanTo, cand, kind, due, aged,
                   alerts>>

(* The deep analysis of a first operation: a verdict alerts, an open       *)
(* circuit and a quiet report go straight to markSeen, and an unknown      *)
(* sellability goes through onAnalyzed first.                              *)
AnalyzeFirst(a) ==
    /\ At(a, "analyze")
    /\ ~IsRecheck(a)
    /\ \/ GoTo(a, "alert") /\ Quietly /\ UNCHANGED unknown
       \/ GoTo(a, "seen") /\ Quietly /\ UNCHANGED unknown
       \/ GoTo(a, "schedule") /\ Quietly /\ unknown' = unknown \cup {cand[a]}
       \/ Throw(a) /\ UNCHANGED unknown
    /\ UNCHANGED <<seen, cursor, claimed, batch, queue, scanTo, cand, kind, due, aged,
                   alerts>>

(* A recheck's age is taken before it waits for the executor, so an aged   *)
(* candidate may still alert.  An unknown verdict asks for the next slot,  *)
(* if there is one; any error consumes a slot.                             *)
AnalyzeRecheck(a) ==
    /\ At(a, "analyze")
    /\ IsRecheck(a)
    /\ \/ GoTo(a, "alert")
       \/ Leave(a, "complete")
       \/ /\ checks["recheck"][cand[a]].attempts + 1 < MaxAttempts
          /\ Leave(a, "again")
       \/ Leave(a, "retry")
    /\ UNCHANGED <<durable, claimed, recoveryKeys, source, cand, kind, due, history>>

(* alertReport: the message is delivered and the operation goes on (a      *)
(* recheck has nothing left to do), or the send fails after its retries,   *)
(* or it is configured away and counts as not delivered.                   *)
Alert(a) ==
    /\ At(a, "alert")
    /\ \/ /\ alerts' = [alerts EXCEPT ![cand[a]] = @ + 1]
          /\ IF IsRecheck(a) THEN Leave(a, "complete") ELSE GoTo(a, "seen")
          /\ Quietly
       \/ Throw(a) /\ UNCHANGED alerts
    /\ UNCHANGED <<seen, cursor, claimed, batch, queue, scanTo, cand, kind, due, aged,
                   unknown>>

(* The chat got the message and the answer was lost: sendTelegramWith      *)
(* sends it again.                                                         *)
AckLost(a) ==
    /\ At(a, "alert")
    /\ Fault("ack")
    /\ alerts' = [alerts EXCEPT ![cand[a]] = @ + 1]
    /\ UNCHANGED <<durable, claimed, recoveryKeys, source, stage, cand, kind, due,
                   executor, aged, unknown>>

(* Mutants: a failed write is swallowed; a terminal recheck is overwritten *)
(* the way a terminal recovery is.                                         *)
ScheduleBestEffort(a) ==
    LET c == cand[a] IN
    /\ At(a, "schedule")
    /\ GoTo(a, "seen")
    /\ \/ /\ checks' = IF checks["recheck"][c].status = "none"
                         THEN [checks EXCEPT !["recheck"][c] = FreshCheck]
                         ELSE checks
          /\ UNCHANGED faults
       \/ Fault("disk") /\ UNCHANGED checks
    /\ UNCHANGED <<seen, cursor, claimed, recoveryKeys, source, cand, kind, due, aged,
                   alerts, unknown>>
ScheduleOverwrites(a) ==
    LET c == cand[a] IN
    /\ At(a, "schedule")
    /\ checks' = IF Pending("recheck", c) THEN checks
                 ELSE [checks EXCEPT !["recheck"][c] = FreshCheck]
    /\ GoTo(a, "seen")
    /\ UNCHANGED <<seen, cursor, claimed, recoveryKeys, source, cand, kind, due, history>>

(* onAnalyzed: a recheck that exists is kept, whatever its status.         *)
Schedule(a) ==
    LET c == cand[a] IN
    /\ At(a, "schedule")
    /\ \/ /\ checks' = IF checks["recheck"][c].status = "none"
                         THEN [checks EXCEPT !["recheck"][c] = FreshCheck]
                         ELSE checks
          /\ GoTo(a, "seen")
          /\ UNCHANGED <<recoveryKeys, failed, faults>>
       \/ ThrowUnexpected(a, "disk")
    /\ UNCHANGED <<seen, cursor, claimed, batch, queue, scanTo, cand, kind, due, aged,
                   alerts, unknown>>

(* Mutant: a recovery runs with persistSeen off, as a recheck does.        *)
MarkSeenBySources(a) ==
    /\ At(a, "seen")
    /\ seen' = IF a \in Source THEN seen \cup {cand[a]} ELSE seen
    /\ Return(a)
    /\ UNCHANGED <<cursor, checks, claimed, recoveryKeys, source, cand, kind, due,
                   history>>

MarkSeen(a) ==
    /\ At(a, "seen")
    /\ \/ seen' = seen \cup {cand[a]} /\ Return(a) /\ Quietly
       \/ ThrowUnexpected(a, "disk") /\ UNCHANGED seen
    /\ UNCHANGED <<cursor, claimed, batch, queue, scanTo, cand, kind, due, aged, alerts,
                   unknown>>

-----------------------------------------------------------------------------
(* The pending worker: runPendingChecks in a loop.                         *)

(* listDueChecks: any pending check may be due.                            *)
SelectDue ==
    /\ stage["pending"] = "idle"
    /\ due = {}
    /\ due' \in SUBSET {e \in Kind \X Candidate : Pending(e[1], e[2])} \ {{}}
    /\ UNCHANGED <<durable, claimed, recoveryKeys, source, stage, cand, kind, executor,
                   history>>

StartCheck ==
    /\ stage["pending"] = "idle"
    /\ \E e \in due :
         /\ due' = due \ {e}
         /\ kind' = e[1]
         /\ cand' = [cand EXCEPT !["pending"] = e[2]]
         /\ stage' = [stage EXCEPT !["pending"] =
                        IF e[1] = "recovery" THEN "classify" ELSE "analyze"]
    /\ executor' = Append(executor, "pending")
    /\ UNCHANGED <<durable, claimed, recoveryKeys, source, history>>

(* The check is written and the worker goes on; after the last check of    *)
(* the round syncCandidateRecoveryKeys runs in the same turn.              *)
Write(st, att) ==
    LET c   == cand["pending"]
        new == [checks EXCEPT ![kind][c] = [status |-> st, attempts |-> att]]
    IN
    /\ checks' = new
    /\ recoveryKeys' = IF due = {}
                         THEN {d \in Candidate : new["recovery"][d].status = "pending"}
                         ELSE recoveryKeys
    /\ stage' = [stage EXCEPT !["pending"] = "idle"]
    /\ cand' = [cand EXCEPT !["pending"] = None]
    /\ kind' = None
    /\ UNCHANGED faults

(* A write that fails moves on to the next handler of the failure.         *)
WriteFails(st) ==
    /\ Fault("disk")
    /\ stage' = [stage EXCEPT !["pending"] = st]
    /\ UNCHANGED <<checks, recoveryKeys, cand, kind>>

Attempted == checks[kind][cand["pending"]].attempts + 1

Complete ==
    /\ stage["pending"] = "complete"
    /\ \/ Write("completed", Attempted - 1)
       \/ WriteFails("retry")
    /\ UNCHANGED <<seen, cursor, claimed, source, due, executor, aged, alerts, unknown>>

(* A handler that returned retryAt.                                        *)
Again ==
    /\ stage["pending"] = "again"
    /\ \/ Write("pending", Attempted)
       \/ WriteFails("retry")
    /\ UNCHANGED <<seen, cursor, claimed, source, due, executor, aged, alerts, unknown>>

(* Mutant: the attempt is not counted.                                     *)
RetryUncounted ==
    /\ stage["pending"] = "retry"
    /\ Write(IF Attempted >= MaxAttempts THEN "failed" ELSE "pending", Attempted - 1)
    /\ UNCHANGED <<seen, cursor, claimed, source, due, executor, aged, alerts, unknown>>

(* A handler that threw.  When this write fails too, the loop rejects.     *)
Retry ==
    /\ stage["pending"] = "retry"
    /\ \/ Write(IF Attempted >= MaxAttempts THEN "failed" ELSE "pending", Attempted)
       \/ WriteFails("down")
    /\ UNCHANGED <<seen, cursor, claimed, source, due, executor, aged, alerts, unknown>>

-----------------------------------------------------------------------------
(* The environment.                                                        *)

(* Mutant: a restart does not read the pending recoveries back.            *)
RestartedBlank ==
    /\ claimed' = {}
    /\ batch' = [s \in Source |-> {}]
    /\ queue' = [s \in Source |-> {}]
    /\ scanTo' = 0
    /\ failed' = [s \in Source |-> FALSE]
    /\ stage' = [a \in Actor |-> "idle"]
    /\ cand' = [a \in Actor |-> None]
    /\ kind' = None
    /\ due' = {}
    /\ executor' = <<>>
    /\ recoveryKeys' = {}
    /\ UNCHANGED <<durable, aged, alerts, unknown>>

(* The process is started again by its supervisor on the same state file.  *)
Restarted ==
    /\ claimed' = {}
    /\ batch' = [s \in Source |-> {}]
    /\ queue' = [s \in Source |-> {}]
    /\ scanTo' = 0
    /\ failed' = [s \in Source |-> FALSE]
    /\ stage' = [a \in Actor |-> "idle"]
    /\ cand' = [a \in Actor |-> None]
    /\ kind' = None
    /\ due' = {}
    /\ executor' = <<>>
    /\ recoveryKeys' = ActiveRecoveryKeys
    /\ UNCHANGED <<durable, aged, alerts, unknown>>

Crash == Fault("crash") /\ Restarted

(* The rejected loop rejects Promise.all, and main exits; until then the   *)
(* other loops may take steps.                                             *)
Exit ==
    /\ stage["pending"] = "down"
    /\ Restarted
    /\ UNCHANGED faults

Age(c) ==
    /\ c \in Aging \ aged
    /\ aged' = aged \cup {c}
    /\ UNCHANGED <<durable, claimed, recoveryKeys, source, stage, cand, kind, due,
                   executor, alerts, unknown, faults>>

(* seenTtlMs is at least the age window, and no entry is evicted early.    *)
ExpireSeen(c) ==
    /\ c \in seen \cap aged
    /\ seen' = seen \ {c}
    /\ UNCHANGED <<cursor, checks, claimed, recoveryKeys, source, stage, cand, kind, due,
                   executor, history>>

-----------------------------------------------------------------------------
SourceStep(s) == Offer(s) \/ Take(s) \/ Finish(s)

OperationStep(a) ==
    Classify(a) \/ AnalyzeFirst(a) \/ AnalyzeRecheck(a) \/ Alert(a) \/ Schedule(a)
        \/ MarkSeen(a)

WorkerStep == SelectDue \/ StartCheck \/ Complete \/ Again \/ Retry

Next ==
    \/ ScanRange
    \/ PollGecko
    \/ EndRange
    \/ \E s \in Source : SourceStep(s)
    \/ \E a \in Actor : OperationStep(a)
    \/ \E a \in Actor : AckLost(a)
    \/ WorkerStep
    \/ Exit
    \/ Crash
    \/ \E c \in Candidate : Age(c) \/ ExpireSeen(c)

Spec == Init /\ [][Next]_vars

(* Loops never stop polling, every network call has a timeout, and the     *)
(* event loop runs whatever is ready.                                      *)
Fairness ==
    /\ WF_vars(ScanRange)
    /\ WF_vars(EndRange)
    /\ \A s \in Source : WF_vars(SourceStep(s))
    /\ \A a \in Actor : WF_vars(OperationStep(a))
    /\ WF_vars(WorkerStep)
    /\ WF_vars(Exit)

FairSpec == Spec /\ Fairness
-----------------------------------------------------------------------------
(* Properties.                                                             *)

(* What is durable about a candidate the sources need not report again: it *)
(* was handled, or a recovery check remembers it, or it is too old to be   *)
(* alerted on.                                                             *)
Accounted == seen \cup aged \cup {c \in Candidate : Recorded(c)}

(* The durable cursor never passes a block whose candidate could still be  *)
(* lost: every candidate at or below it is accounted for in the state file *)
(* (processOnchainRange and the cursor update of runWatchIteration).       *)
CursorCoversWork ==
    \A c \in Candidate : BlockOf[c] \in 1 .. cursor => c \in Accounted

(* The in-memory keys that keep the sources away from a deferred candidate *)
(* never miss a pending recovery of the state file, and hold nothing else  *)
(* once the worker finished a round (scheduler, sync and restart).         *)
KeysFollowChecks ==
    /\ ActiveRecoveryKeys \subseteq recoveryKeys
    /\ due = {} /\ kind = None => recoveryKeys = ActiveRecoveryKeys

Holds(a, c) ==
    /\ cand[a] = c
    /\ stage[a] \in {"classify", "analyze", "alert", "schedule", "seen"}
    /\ ~IsRecheck(a)

(* A candidate's first operation has one owner: no two sources, and no     *)
(* source together with the recovery worker, work on it at the same time,  *)
(* and what a source has queued no other actor holds.                      *)
SingleOwner ==
    \A c \in Candidate :
        /\ Cardinality({a \in Actor : Holds(a, c)}
                         \cup {s \in Source : c \in queue[s]}) <= 1
        /\ \A s \in Source : ~(Holds(s, c) /\ c \in queue[s])

(* A candidate is alerted once, and a failure of a machine, a disk, a      *)
(* network answer or the code repeats at most the message of its first     *)
(* operation and the message of its recheck: what is settled is not        *)
(* alerted again by the other source, a recovery, a recheck or a rescan.   *)
AlertBudget == \A c \in Candidate : alerts[c] <= 1 + 2 * faults

(* A recovery check is completed only after the candidate was marked seen: *)
(* between the two writes of a recovery no crash forgets the candidate.    *)
CompletedImpliesSeen ==
    \A c \in Candidate :
        checks["recovery"][c].status = "completed" => c \in seen \cup aged

(* A candidate whose last first operation found sellability unknown is not *)
(* settled without a recheck on file, whatever failed in between.          *)
(* A recovery still pending will analyze it again.                         *)
UnknownIsRechecked ==
    \A c \in seen \cap unknown :
        checks["recheck"][c].status # "none" \/ Pending("recovery", c)

(* A recheck runs once: no repeated analysis, rescan or restart reopens a  *)
(* terminal recheck or gives a pending one its slots back.                 *)
RecheckRunsOnce ==
    [][\A c \in Candidate :
         LET old == checks["recheck"][c]
             new == checks'["recheck"][c]
         IN /\ old.status \in {"completed", "failed"} => new = old
            /\ old.status = "pending" => new.attempts >= old.attempts
      ]_checks

(* Every candidate announced in a block is eventually settled or given up  *)
(* after its last attempt, through failures, crashes and restarts.         *)
OnchainSettled ==
    \A c \in Candidate :
        BlockOf[c] \in 1 .. LastBlock =>
            <>(c \in seen \/ checks["recovery"][c].status = "failed")

(* No check stays pending for ever.                                        *)
ChecksTerminate ==
    \A k \in Kind, c \in Candidate : Pending(k, c) ~> ~Pending(k, c)
-----------------------------------------------------------------------------
(* What the state file says became of a candidate.                         *)
HandoffStatus == [c \in Candidate |->
    LET recovery == checks["recovery"][c].status IN
    IF recovery = "pending" THEN "deferred"
    ELSE IF c \in seen \/ recovery = "completed" THEN "settled"
    ELSE IF recovery = "failed" THEN "abandoned"
    ELSE IF c \in aged THEN "expired"
    ELSE "open"]

Handoff == INSTANCE CandidateHandoff WITH status <- HandoffStatus, watermark <- cursor

(* With the onchain source alone, the process implements the handoff: a    *)
(* crash, a failed write or a late failure of the worker at any point only *)
(* ever moves a candidate along the abstract steps.                        *)
HandoffSpec == Handoff!Spec
=============================================================================
