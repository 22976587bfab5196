----------------------------- MODULE EvmRunner -------------------------------
(***************************************************************************)
(* The `watch` process of an EVM chain other than Robinhood                *)
(* (src/src/evm/runner.js), with the breaker of its discovery sessions and *)
(* the circuit of its analyses.                                            *)
(*                                                                         *)
(* One loop does everything in turn: a poll runs the due rechecks of the   *)
(* store, then a discovery session reads the confirmed head, scans the     *)
(* blocks after the cursor, handles each candidate of the range and        *)
(* advances the cursor.  The first range, while there is no cursor, starts *)
(* at the age window and is handled silently.                              *)
(*                                                                         *)
(* A block's number stands for its time: a candidate is too old when its   *)
(* block lies before `window`.  Cooldowns end, checks become due and       *)
(* budgets refuse at any moment.  `net` says of an error that              *)
(* isDiscoveryFallbackError recognises it.                                 *)
(***************************************************************************)
EXTENDS Naturals, DiscoveryBreaker, AnalysisCircuit

CONSTANTS
    Candidate,      \* candidate keys
    BlockOf,        \* the block of each candidate
    LastBlock,      \* bound: the last block of the modelled chain
    MaxAttempts,    \* length of CANDIDATE_RETRY_OFFSETS_MS
    HasFallback,    \* whether the two nodes have different endpoints
    FaultKinds,     \* which of crash, disk, ack, discovery, lag may happen
    MaxFaults       \* bound: how many faults may happen

None == "none"

ASSUME EvmAssumption ==
    /\ None \notin Candidate
    /\ LastBlock \in Nat
    /\ BlockOf \in [Candidate -> 1 .. LastBlock]
    /\ MaxAttempts \in Nat \ {0}
    /\ HasFallback \in BOOLEAN
    /\ FaultKinds \subseteq {"crash", "disk", "ack", "discovery", "lag"}
    /\ MaxFaults \in Nat

VARIABLES
    \* state.json
    seen,           \* keys for which hasSeen answers true
    cursor,         \* cursors.onchain, 0 for null
    checks,         \* the recheck of each candidate
    \* the poll
    pc,             \* where the loop stands
    mode,           \* "live", or "recovery" while there is no cursor
    due,            \* rechecks selected and not yet run
    session,        \* the node of the discovery session, "none" outside one
    scanTo,         \* the head of the session's range, 0 before the scan
    todo,           \* candidates of the range not yet handled
    cur,            \* the candidate whose message or writes are under way
    \* memory of the process
    breaker,        \* of the discovery sessions
    circuit,        \* of the analyses
    \* environment and history
    head,           \* the last confirmed block
    window,         \* the first block that is not too old
    alerts,         \* messages that reached the chat, per candidate
    told,           \* notices sent about the present outage of the circuit
    base,           \* the first cursor that was written, 0 before
    faults          \* faults so far

store   == <<seen, cursor, checks>>
poll    == <<pc, mode, due, session, scanTo, todo, cur>>
chain   == <<head, window>>
history == <<alerts, told, base, faults>>
vars    == <<seen, cursor, checks, pc, mode, due, session, scanTo, todo, cur,
             breaker, circuit, head, window, alerts, told, base, faults>>

Check == [status : {"none", "pending", "completed"}, attempts : 0 .. MaxAttempts - 1]
NoCheck    == [status |-> "none", attempts |-> 0]
FreshCheck == [status |-> "pending", attempts |-> 0]
Ended(check) == [status |-> "completed", attempts |-> check.attempts]
NextSlot(check) == [status |-> "pending", attempts |-> check.attempts + 1]

TypeOK ==
    /\ seen \subseteq Candidate
    /\ cursor \in 0 .. LastBlock
    /\ checks \in [Candidate -> Check]
    /\ pc \in {"idle", "rechecks", "scan", "candidates", "alert", "schedule", "settle", "down"}
    /\ mode \in {"live", "recovery"}
    /\ due \subseteq Candidate
    /\ session \in {"none", "primary", "fallback"}
    /\ scanTo \in 0 .. LastBlock
    /\ todo \subseteq Candidate
    /\ cur \in Candidate \cup {None}
    /\ breaker \in Breaker
    /\ circuit \in Circuit
    /\ head \in 0 .. LastBlock
    /\ window \in 1 .. LastBlock + 1
    /\ alerts \in [Candidate -> Nat]
    /\ told \in Nat
    /\ base \in 0 .. LastBlock
    /\ faults \in 0 .. MaxFaults

Aged(c)    == BlockOf[c] < window
Pending(c) == checks[c].status = "pending"

Fault(k) == k \in FaultKinds /\ faults < MaxFaults /\ faults' = faults + 1

Init ==
    /\ seen = {}
    /\ cursor = 0
    /\ checks = [c \in Candidate |-> NoCheck]
    /\ pc = "idle"
    /\ mode = "recovery"
    /\ due = {}
    /\ session = "none"
    /\ scanTo = 0
    /\ todo = {}
    /\ cur = None
    /\ breaker = ClosedBreaker
    /\ circuit = ClosedCircuit
    /\ head = 0
    /\ window = 1
    /\ alerts = [c \in Candidate |-> 0]
    /\ told = 0
    /\ base = 0
    /\ faults = 0
-----------------------------------------------------------------------------
(* How a poll ends.                                                        *)

Stop(st) ==
    /\ pc' = st
    /\ due' = {}
    /\ session' = "none"
    /\ scanTo' = 0
    /\ todo' = {}
    /\ cur' = None
    /\ UNCHANGED mode

(* The work of the session is done.                                        *)
Answered ==
    /\ Stop("idle")
    /\ breaker' = IF session = "primary" THEN PrimaryDone(breaker, breaker.probing)
                  ELSE breaker

(* An error outside a session, or in the last node of one, ends the poll;  *)
(* watchEvm goes on with the next poll or lets the process end.  What the  *)
(* fallback throws carries the primary's error too, and may be recognised  *)
(* for it.                                                                 *)
GivenUp(net) ==
    \/ net /\ Stop("idle")
    \/ ~net /\ Stop("down")
    \/ session = "fallback" /\ Stop("idle")

(* Mutant: no error sends the session to the fallback.                     *)
ThrownToCaller(net) ==
    /\ breaker' = IF session = "primary" THEN PrimaryThrew(breaker, breaker.probing)
                  ELSE breaker
    /\ GivenUp(net)

(* An error inside a poll: a recognised one of the primary sends the whole *)
(* work of the session to the fallback.                                    *)
Thrown(net) ==
    IF session = "primary" /\ HasFallback /\ net
      THEN /\ breaker' = PrimaryFailed(breaker, breaker.probing)
           /\ pc' = "scan"
           /\ session' = "fallback"
           /\ scanTo' = 0
           /\ todo' = {}
           /\ cur' = None
           /\ UNCHANGED <<mode, due>>
      ELSE /\ breaker' = IF session = "primary" THEN PrimaryThrew(breaker, breaker.probing)
                         ELSE breaker
           /\ GivenUp(net)

(* A write of the state file fails; no such error is a network error.      *)
WriteFails ==
    /\ Fault("disk")
    /\ Thrown(FALSE)
    /\ UNCHANGED <<store, chain, alerts, base>>

UntouchedCircuit == UNCHANGED <<circuit, told>>

-----------------------------------------------------------------------------
(* An analysis under the circuit.                                          *)

(* The verdict came, whatever it is.                                       *)
Analyzed == circuit' = ClosedCircuit /\ told' = 0

(* The analysis failed; the first rate limit of an outage is told, in live *)
(* mode, and an open breaker of the sessions sees the error too.           *)
AnalysisFails ==
    \E limited, net \in BOOLEAN :
        /\ circuit' = IF limited THEN Limited(Admitted(circuit))
                      ELSE Errored(Admitted(circuit))
        /\ told' = IF ~circuit'.open THEN 0
                   ELSE IF limited /\ ~circuit.notified /\ mode = "live" THEN told + 1
                   ELSE told
        /\ Thrown(net)
        /\ UNCHANGED <<store, chain, alerts, base, faults>>

-----------------------------------------------------------------------------
(* Rechecks.                                                               *)

(* runEvmRangeOnce: the mode, then listDueChecks in live mode only.        *)
Poll ==
    /\ pc = "idle"
    /\ pc' = "rechecks"
    /\ mode' = IF cursor = 0 THEN "recovery" ELSE "live"
    /\ due' \in IF cursor = 0 THEN {{}} ELSE SUBSET {c \in Candidate : Pending(c)}
    /\ UNCHANGED <<store, session, scanTo, todo, cur, breaker, circuit, chain, history>>

(* The next due recheck; the writes follow its result in the same turn.    *)
Rechecked(c, check) ==
    /\ checks' = [checks EXCEPT ![c] = check]
    /\ due' = due \ {c}
    /\ UNCHANGED <<seen, cursor, pc, mode, session, scanTo, todo, cur, breaker, chain,
                   alerts, base, faults>>

(* Put off without an attempt: the budget refuses, or the circuit does.    *)
PutOff(c) ==
    /\ Rechecked(c, checks[c])
    /\ UntouchedCircuit

TooOld(c) ==
    /\ Aged(c)
    /\ Rechecked(c, Ended(checks[c]))
    /\ UntouchedCircuit

(* The report is quiet, or unknown with or without a slot left.            *)
Reported(c) ==
    /\ ~Aged(c)
    /\ Admits(circuit)
    /\ Analyzed
    /\ \/ Rechecked(c, Ended(checks[c]))
       \/ /\ checks[c].attempts + 1 < MaxAttempts
          /\ Rechecked(c, NextSlot(checks[c]))

(* The report asks for a message.                                          *)
RecheckAlerts(c) ==
    /\ ~Aged(c)
    /\ Admits(circuit)
    /\ Analyzed
    /\ pc' = "alert"
    /\ cur' = c
    /\ due' = due \ {c}
    /\ UNCHANGED <<store, mode, session, scanTo, todo, breaker, chain, alerts, base,
                   faults>>

RecheckFails(c) == ~Aged(c) /\ Admits(circuit) /\ AnalysisFails

(* Mutants: an aged recheck is analysed like any other; a recheck that     *)
(* meets the open circuit uses its slot.                                   *)
RecheckAnyAge(c) ==
    /\ pc = "rechecks"
    /\ c \in due
    /\ \/ PutOff(c)
       \/ Admits(circuit) /\ Analyzed /\ Rechecked(c, Ended(checks[c]))
       \/ Admits(circuit) /\ AnalysisFails
       \/ WriteFails /\ UntouchedCircuit
RecheckBurnsSlot(c) ==
    /\ pc = "rechecks"
    /\ c \in due
    /\ \/ /\ Rechecked(c, IF checks[c].attempts + 1 < MaxAttempts THEN NextSlot(checks[c])
                          ELSE Ended(checks[c]))
          /\ UntouchedCircuit
       \/ TooOld(c)
       \/ Reported(c)
       \/ RecheckAlerts(c)
       \/ RecheckFails(c)
       \/ WriteFails /\ UntouchedCircuit

Recheck(c) ==
    /\ pc = "rechecks"
    /\ c \in due
    /\ \/ PutOff(c)
       \/ TooOld(c)
       \/ Reported(c)
       \/ RecheckAlerts(c)
       \/ RecheckFails(c)
       \/ WriteFails /\ UntouchedCircuit

-----------------------------------------------------------------------------
(* The discovery session.                                                  *)

StartSession ==
    /\ pc = "rechecks"
    /\ due = {}
    /\ pc' = "scan"
    /\ IF ~HasFallback \/ PrimaryIsNext(breaker)
         THEN session' = "primary" /\ breaker' = Entered(breaker)
         ELSE session' = "fallback" /\ UNCHANGED breaker
    /\ UNCHANGED <<store, mode, due, scanTo, todo, cur, circuit, chain, history>>

(* Without a cursor findFirstBlockAtOrAfter looks for the age boundary and *)
(* answers the head when every block is older.                             *)
From(h) ==
    IF cursor # 0 THEN cursor + 1 ELSE IF window <= h THEN window ELSE h

(* scanEvmRange: the candidates whose logs lie in the range.               *)
CandidatesIn(from, to) == {c \in Candidate : BlockOf[c] \in from .. to}

(* The head of the node, the logs of the range and their times.  A node    *)
(* may lag behind the confirmed head.                                      *)
Scan ==
    /\ pc = "scan"
    /\ \E h \in 0 .. head :
         /\ \/ h = head /\ UNCHANGED faults
            \/ h < head /\ Fault("lag")
         /\ IF h = 0 \/ From(h) > h
              THEN Answered
              ELSE /\ pc' = "candidates"
                   /\ scanTo' = h
                   /\ todo' = CandidatesIn(From(h), h)
                   /\ UNCHANGED <<mode, due, session, cur, breaker>>
    /\ UNCHANGED <<store, circuit, chain, alerts, told, base>>

(* A request of the session fails after its retries.  A primary that is    *)
(* out of reach may stay so for ever; any other failure is a fault.        *)
ScanFails ==
    /\ pc = "scan"
    /\ \E net \in BOOLEAN :
         /\ \/ session = "primary" /\ HasFallback /\ net /\ UNCHANGED faults
            \/ Fault("discovery")
         /\ Thrown(net)
    /\ UNCHANGED <<store, circuit, chain, alerts, told, base>>

(* A candidate of the range is left as it is, or marked seen: skipped by   *)
(* the route, too old, refused by the circuit, or reported quietly.        *)
Marked(c) ==
    /\ seen' = seen \cup {c}
    /\ todo' = todo \ {c}
    /\ UNCHANGED <<cursor, checks, pc, mode, due, session, scanTo, cur, breaker, chain,
                   alerts, base, faults>>

Skip(c) == Marked(c) /\ UntouchedCircuit

Quiet(c) == ~Aged(c) /\ Admits(circuit) /\ Analyzed /\ Marked(c)

(* Mutant: a report is acted on in whatever mode.                          *)
ActOnAny(c) ==
    /\ ~Aged(c)
    /\ Admits(circuit)
    /\ Analyzed
    /\ pc' \in {"alert", "schedule"}
    /\ cur' = c
    /\ todo' = todo \ {c}
    /\ UNCHANGED <<store, mode, due, session, scanTo, breaker, chain, alerts, base,
                   faults>>

(* In live mode a verdict asks for a message, an unknown sellability for a *)
(* recheck.                                                                *)
Act(c) ==
    /\ mode = "live"
    /\ ~Aged(c)
    /\ Admits(circuit)
    /\ Analyzed
    /\ pc' \in {"alert", "schedule"}
    /\ cur' = c
    /\ todo' = todo \ {c}
    /\ UNCHANGED <<store, mode, due, session, scanTo, breaker, chain, alerts, base,
                   faults>>

Handle(c) ==
    /\ pc = "candidates"
    /\ c \in todo \ seen
    /\ \/ Skip(c)
       \/ Quiet(c)
       \/ Act(c)
       \/ ~Aged(c) /\ Admits(circuit) /\ AnalysisFails
       \/ WriteFails /\ UntouchedCircuit
       \/ ~Aged(c) /\ Admits(circuit) /\ Analyzed /\ WriteFails

(* Mutant: the cursor moves past what is still to be handled.              *)
AdvanceEarly ==
    /\ pc = "candidates"
    /\ cursor' = scanTo
    /\ base' = IF base = 0 THEN scanTo ELSE base
    /\ Answered
    /\ UNCHANGED <<seen, checks, circuit, chain, alerts, told, faults>>

(* Everything of the range was handled, by this session or an earlier one. *)
(* RangeAhead shows that setOnchainCursor never refuses the new cursor.    *)
Advance ==
    /\ pc = "candidates"
    /\ todo \subseteq seen
    /\ \/ /\ cursor' = scanTo
          /\ base' = IF base = 0 THEN scanTo ELSE base
          /\ Answered
          /\ UNCHANGED <<seen, checks, circuit, chain, alerts, told, faults>>
       \/ WriteFails /\ UntouchedCircuit
-----------------------------------------------------------------------------
(* The message and the writes of an operation.                             *)

(* The message is delivered; or it fails after its retries, and the error  *)
(* is handled like any other.                                              *)
Alert ==
    /\ pc = "alert"
    /\ \/ /\ alerts' = [alerts EXCEPT ![cur] = @ + 1]
          /\ pc' = "settle"
          /\ UNCHANGED <<mode, due, session, scanTo, todo, cur, breaker>>
       \/ \E net \in BOOLEAN : Thrown(net) /\ UNCHANGED alerts
    /\ UNCHANGED <<store, circuit, chain, told, base, faults>>

(* The answer of a delivered message is lost: sendTelegramWith repeats it. *)
AckLost ==
    /\ pc = "alert"
    /\ Fault("ack")
    /\ alerts' = [alerts EXCEPT ![cur] = @ + 1]
    /\ UNCHANGED <<store, poll, breaker, circuit, chain, told, base>>

(* scheduleCheck: an existing recheck is kept, whatever its status.        *)
Schedule ==
    /\ pc = "schedule"
    /\ \/ /\ checks' = IF checks[cur].status # "none" THEN checks
                       ELSE [checks EXCEPT ![cur] = FreshCheck]
          /\ pc' = "settle"
          /\ UNCHANGED <<seen, cursor, mode, due, session, scanTo, todo, cur, breaker,
                         circuit, chain, history>>
       \/ WriteFails /\ UntouchedCircuit

(* Mutant: the recheck whose message was sent stays pending.               *)
SettleSeenOnly ==
    /\ pc = "settle"
    /\ seen' = IF session = "none" THEN seen ELSE seen \cup {cur}
    /\ pc' = IF session = "none" THEN "rechecks" ELSE "candidates"
    /\ cur' = None
    /\ UNCHANGED <<cursor, checks, mode, due, session, scanTo, todo, breaker, circuit,
                   chain, history>>

(* What follows the message or the schedule: a recheck is completed, a     *)
(* candidate is marked seen.                                               *)
Settle ==
    /\ pc = "settle"
    /\ \/ /\ IF session = "none"
               THEN /\ checks' = [checks EXCEPT ![cur] = Ended(checks[cur])]
                    /\ pc' = "rechecks"
                    /\ UNCHANGED seen
               ELSE /\ seen' = seen \cup {cur}
                    /\ pc' = "candidates"
                    /\ UNCHANGED checks
          /\ cur' = None
          /\ UNCHANGED <<cursor, mode, due, session, scanTo, todo, breaker, circuit,
                         chain, history>>
       \/ WriteFails /\ UntouchedCircuit

-----------------------------------------------------------------------------
(* The environment.                                                        *)

(* The supervisor starts the process again on the same state file.         *)
Restarted ==
    /\ Stop("idle")
    /\ breaker' = ClosedBreaker
    /\ circuit' = ClosedCircuit
    /\ told' = 0
    /\ UNCHANGED <<store, chain, alerts, base>>

Crash == Fault("crash") /\ Restarted

Exit == pc = "down" /\ Restarted /\ UNCHANGED faults

BreakerCools ==
    /\ breaker.open /\ ~breaker.cooled
    /\ breaker' = [breaker EXCEPT !.cooled = TRUE]
    /\ UNCHANGED <<store, poll, circuit, chain, history>>

CircuitCools ==
    /\ circuit.open /\ ~circuit.cooled
    /\ circuit' = [circuit EXCEPT !.cooled = TRUE]
    /\ UNCHANGED <<store, poll, breaker, chain, history>>

NewBlock ==
    /\ head < LastBlock
    /\ head' = head + 1
    /\ UNCHANGED <<store, poll, breaker, circuit, window, history>>

AgeWindow ==
    /\ window <= LastBlock
    /\ window' = window + 1
    /\ UNCHANGED <<store, poll, breaker, circuit, head, history>>

(* seenTtlMs is at least the age window, and no entry is evicted early.    *)
ExpireSeen(c) ==
    /\ c \in seen
    /\ Aged(c)
    /\ seen' = seen \ {c}
    /\ UNCHANGED <<cursor, checks, poll, breaker, circuit, chain, history>>

-----------------------------------------------------------------------------
Step ==
    \/ Poll
    \/ \E c \in Candidate : Recheck(c) \/ Handle(c)
    \/ StartSession
    \/ Scan
    \/ Advance
    \/ Alert
    \/ Schedule
    \/ Settle
    \/ Exit

Next ==
    \/ Step
    \/ ScanFails
    \/ AckLost
    \/ Crash
    \/ BreakerCools
    \/ CircuitCools
    \/ NewBlock
    \/ AgeWindow
    \/ \E c \in Candidate : ExpireSeen(c)

Spec == Init /\ [][Next]_vars

(* The loop never stops polling, every network call has a timeout, a       *)
(* process that ends is started again, the chain grows, and time passes.   *)
FairSpec == Spec /\ WF_vars(Step) /\ WF_vars(NewBlock) /\ WF_vars(AgeWindow)
-----------------------------------------------------------------------------
(* Properties.                                                             *)

(* The cursor never passes a block whose candidate could still be lost: a  *)
(* candidate at or below it was marked seen, or is too old, wherever the   *)
(* first range started and whichever node was behind.                      *)
CursorCoversCandidates ==
    \A c \in Candidate : BlockOf[c] <= cursor => c \in seen \/ Aged(c)

(* A range ends after the cursor, although a node may answer with an older *)
(* head than the one before: the check of setOnchainCursor, whose error    *)
(* would end the process, never fails.                                     *)
RangeAhead == pc = "candidates" => cursor < scanTo

(* Nothing that was on the chain when the process first caught up is ever  *)
(* the subject of a message: not by the first range, its repetition after  *)
(* a failure, nor a recheck.                                               *)
SilentFirstRange ==
    \A c \in Candidate : alerts[c] > 0 => base # 0 /\ BlockOf[c] > base

(* A candidate is the subject of one message; a crash, a failed write or a *)
(* lost answer repeats it at most once each, whether it comes from the     *)
(* first analysis or from a recheck.                                       *)
AlertBudget == \A c \in Candidate : alerts[c] <= 1 + faults

(* An outage of the analysis node is told at most once.                    *)
ToldOnce == told <= 1

(* A recheck keeps its slots while the circuit is cooling down, and a      *)
(* terminal recheck stays terminal.                                        *)
SlotsAreAnalyses ==
    [][\A c \in Candidate :
         /\ checks'[c].attempts # checks[c].attempts => Admits(circuit)
         /\ checks[c].status = "completed" => checks'[c] = checks[c]]_checks

(* The cursor reaches every block, although the primary may be out of      *)
(* reach for ever: no candidate, message or recheck that keeps failing     *)
(* holds the chain back for longer than the age window.                    *)
DiscoveryAdvances == <>(cursor = LastBlock)
=============================================================================
