------------------------------- MODULE Outbox -------------------------------
(***************************************************************************)
(* The outbox: the Telegram messages that a commit of the store writes     *)
(* together with what they tell, and the worker that sends them            *)
(* (src/outbox.js, src/store.js, src/notify.js, src/notification-policy.js,*)
(* the worker's loop of src/scanner.js).                                   *)
(***************************************************************************)
EXTENDS Integers, Sequences, FiniteSets, SequencesExt, FiniteSetsExt

CONSTANTS
    Notice,        \* the ids of the notifications
    SendAttempts,  \* sends before an entry has failed: maxAttempts
    MaxTries,      \* requests of one send: the loop of sendTelegramWith
    DrainLimit,    \* entries of one round of the worker: limit
    MaxOutboxFaults \* bound: crashes and failed writes

ASSUME OutboxAssumption ==
    /\ SendAttempts \in Nat \ {0} /\ MaxTries \in Nat \ {0} /\ DrainLimit \in Nat \ {0}
    /\ MaxOutboxFaults \in Nat

Watchlisted == {"rescued", "green", "market_ready", "graduated", "swept"}
Unlisted == {"new_launch"}

VARIABLES
    outbox,        \* state.json: the entry of each notification, or Missing
    dueEntries,    \* the pending entries whose time has come, in its order
    batch,         \* the entries the round has still to handle, as they were when it began
    tries,         \* the requests of the send in progress
    arrived,       \* ghost: the notifications Telegram took at least once
    serving,       \* the process is up
    outboxFaults

outboxVars == <<outbox, dueEntries, batch, tries, arrived, serving, outboxFaults>>

Missing == [status |-> "missing", attempts |-> 0, sendable |-> FALSE]
Status == {"missing", "pending", "delivered", "suppressed", "failed"}

\* decideLifecycleAlert in live mode: what may be sent of a transition.
Sendable(type, watchlisted, confirmed) ==
    \/ type = "hard_kill" /\ confirmed
    \/ type \in Watchlisted /\ watchlisted

OutboxInit ==
    /\ outbox = [n \in Notice |-> Missing]
    /\ dueEntries = <<>> /\ batch = <<>>
    /\ tries = 0
    /\ arrived = {}
    /\ serving = TRUE
    /\ outboxFaults = 0

OutboxFault ==
    /\ outboxFaults < MaxOutboxFaults
    /\ outboxFaults' = outboxFaults + 1

Current == Head(batch).id

\* A commit of the store adds the notification's entry, once for its id.
Enqueue(n) ==
    /\ serving
    /\ outbox[n] = Missing
    /\ \E type \in {"hard_kill", "market_ready"} \cup Unlisted, watchlisted, confirmed \in BOOLEAN :
           outbox' = [outbox EXCEPT ![n] =
               [status |-> "pending", attempts |-> 0,
                sendable |-> Sendable(type, watchlisted, confirmed)]]
    /\ dueEntries' = Append(dueEntries, n)
    /\ UNCHANGED <<batch, tries, arrived, serving, outboxFaults>>

\* listDueOutbox: copies of the first entries that are due.
ListDue ==
    /\ serving /\ batch = <<>> /\ dueEntries # <<>>
    /\ LET first == SubSeq(dueEntries, 1, Min({Len(dueEntries), DrainLimit}))
       IN  batch' = [i \in DOMAIN first |-> [id |-> first[i], entry |-> outbox[first[i]]]]
    /\ UNCHANGED <<outbox, dueEntries, tries, arrived, serving, outboxFaults>>

\* The status of the entry in hand is written, and the round goes on.
Update(status, attempts) ==
    /\ outbox' = [outbox EXCEPT ![Current].status = status, ![Current].attempts = attempts]
    /\ dueEntries' = RemoveFirst(dueEntries, Current)
    /\ batch' = Tail(batch)
    /\ tries' = 0
    /\ UNCHANGED <<arrived, serving, outboxFaults>>

\* The process ends, at once or because an error reached the worker's loop.
Down ==
    /\ serving' = FALSE
    /\ batch' = <<>> /\ tries' = 0
    /\ UNCHANGED <<outbox, dueEntries, arrived>>

Suppress ==
    /\ serving /\ batch # <<>>
    /\ ~ Head(batch).entry.sendable
    /\ \/ Update("suppressed", Head(batch).entry.attempts)
       \/ OutboxFault /\ Down

Sending == serving /\ batch # <<>> /\ Head(batch).entry.sendable

\* One request: it may arrive, and its answer may come.
Try ==
    /\ Sending /\ tries \in 0 .. MaxTries - 1
    /\ \E came, answered \in BOOLEAN :
           /\ answered => came
           /\ arrived' = IF came THEN arrived \cup {Current} ELSE arrived
           /\ tries' = IF answered THEN MaxTries + 1 ELSE tries + 1
    /\ UNCHANGED <<outbox, dueEntries, batch, serving, outboxFaults>>

\* Mutant: the attempt is not counted.
AttemptsUncounted(entry) == entry.attempts

AttemptsAfter(entry) == entry.attempts + 1

Reschedule ==
    LET attempts == AttemptsAfter(Head(batch).entry)
    IN  Update(IF attempts >= SendAttempts THEN "failed" ELSE "pending", attempts)

\* Every request failed, or the send succeeded and could not be written: the entry is
\* rescheduled.  A failure of that write ends the process.
SendFails ==
    /\ Sending /\ tries = MaxTries
    /\ \/ Reschedule
       \/ OutboxFault /\ Down

Delivered ==
    /\ Sending /\ tries = MaxTries + 1
    /\ \/ Update("delivered", Head(batch).entry.attempts)
       \/ /\ OutboxFault /\ tries' = MaxTries
          /\ UNCHANGED <<outbox, dueEntries, batch, arrived, serving>>

\* The delay of a rescheduled entry is over.
FallsDue(n) ==
    /\ outbox[n].status = "pending" /\ n \notin Range(dueEntries)
    /\ dueEntries' = Append(dueEntries, n)
    /\ UNCHANGED <<outbox, batch, tries, arrived, serving, outboxFaults>>

OutboxCrash == serving /\ OutboxFault /\ Down

OutboxRestart ==
    /\ ~ serving
    /\ serving' = TRUE
    /\ UNCHANGED <<outbox, dueEntries, batch, tries, arrived, outboxFaults>>

Worker == ListDue \/ Suppress \/ Try \/ SendFails \/ Delivered

OutboxNext ==
    \/ \E n \in Notice : Enqueue(n) \/ FallsDue(n)
    \/ Worker \/ OutboxCrash \/ OutboxRestart

OutboxFairness ==
    /\ WF_outboxVars(Worker) /\ WF_outboxVars(OutboxRestart)
    /\ \A n \in Notice : WF_outboxVars(FallsDue(n))

OutboxSpec == OutboxInit /\ [][OutboxNext]_outboxVars /\ OutboxFairness

-----------------------------------------------------------------------------
OutboxTypeOK ==
    /\ outbox \in [Notice -> [status : Status, attempts : 0 .. SendAttempts, sendable : BOOLEAN]]
    /\ dueEntries \in Seq(Notice)
    /\ batch \in Seq([id : Notice, entry : [status : Status, attempts : 0 .. SendAttempts, sendable : BOOLEAN]])
    /\ tries \in 0 .. MaxTries + 1
    /\ arrived \subseteq Notice
    /\ serving \in BOOLEAN
    /\ outboxFaults \in 0 .. MaxOutboxFaults

\* An entry is done with: what is told to be delivered Telegram took at least once, and what is
\* suppressed it never got.
Ended(n) ==
    \/ outbox[n].status = "delivered" /\ n \in arrived
    \/ outbox[n].status = "suppressed" /\ n \notin arrived
    \/ outbox[n].status = "failed"

(* An entry never stays pending: whatever the sends do, and through crashes *)
(* and writes that fail, it is delivered at least once, suppressed without  *)
(* a message, or failed in the end (drainOutbox, sendTelegramWith).         *)
EveryEntryEnds == \A n \in Notice : outbox[n].status = "pending" ~> Ended(n)
=============================================================================
