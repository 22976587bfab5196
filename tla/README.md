# A verification project for the scanner bot

The program watches several chains for new tokens, analyses each candidate
once, sends a Telegram message for those worth it, and follows the tokens of
one launchpad (Pons) through their life. It trades nothing; what it can get
wrong is to *lose* a candidate, to *repeat* a message, to *say* something it did
not find on the chain, or to *stop*. The modules here are about those four.

Paths are relative to `src/`; the program's code is in `src/src/`.

## 1. Inventory

One process runs per chain. Robinhood runs `watch` of `scanner.js`; Ethereum,
Base and BSC run `evm/runner.js`; Solana runs `solana/runner.js`. Everything
durable is one JSON file per chain, replaced by a rename.

| component | state it keeps | operations | what makes it correct | module |
|---|---|---|---|---|
| state store (`store.js`) | `seen`, `cursors`, `tokens`, `watchlist`, `appliedEvents`, `outbox`, `pendingChecks` | `commit` = clone, change, write, rename, swap | memory and file agree after every success and failure | in the module of each user |
| candidate pipeline (`scanner.js`, `runtime.js`, `queue.js`, `candidate-*.js`) | queue per source, `claimed`, `recoveryKeys`, the executor's promise chain | scan, poll, enqueue, drain, classify, analyse, alert, mark seen, defer, recheck | no candidate lost, none in two hands, messages bounded by failures | `CandidatePipeline`, `CandidateHandoff` |
| pending worker's selection (`pending-checks.js`) | bucket cursor | select | no kind of check starves another | `PendingSelection` |
| outbox worker (`outbox.js`) | `outbox` entries | send, suppress, deliver, reschedule | every entry ends | `Outbox` |
| Pons lifecycle (`lifecycle.js`, `pons.js`, `decay.js`) | token phase, watchlist, pending inspections | reduce events, commit a range, apply inspection results | phase only moves forward, one hard kill, no stale result applied | `PonsLifecycle` |
| discovery session breaker (`discovery-session.js`) | open flag, probe time | run on primary, fall back, probe | fallback only after a failure of the primary | `DiscoveryBreaker` |
| analysis RPC circuit (`analysis-rpc-circuit.js`) | open, openUntil, probing, notified | enter, succeed, fail | one probe at a time, one notice per outage | `AnalysisCircuit` |
| EVM runner (`evm/runner.js`) | one cursor, rechecks | recheck, scan, handle, advance | as the pipeline, with one loop | `EvmRunner` |
| Solana runner (`solana/`) | one cursor per program | anchor, read signatures, handle, advance | no signature passed, cursors never refused, history read once | `SolanaRunner` |
| chain reading (`chain.js`) | none | search a block by time, read logs in windows | each block once, none skipped | `ChainReading` |
| gate, score, alert policy (`candidate-gate.js`, `core/`) | none | prefilter, score, decide | the prefilter is a bound of the score | `CandidatePolicy` |
| sellability (`sellability.js`, `security/`) | the evidence of one inspection | bind, quote, sample, transfer, read receipts | a confirmation is earned | `Sellability` |
| data directory (`app.js`, `instance-lock.js`, `index.js`) | legacy files, `state.json`, the lock port and its file | migrate, load, verify, lock, commit, release | nothing durable lost, one watch at a time | `DataDirectory` |
| monthly RPC budget (`rpc-usage-budget.js`) | counts of the month | record, refuse, flush | the limit holds but for one payload | `DataDirectory` |
| asset catalog refresh (`assets/`, `scripts/`) | catalogs, journal | stage, back up, publish, recover | all files or none | `AssetRefresh` |
| RPC scheduling and failover (`rpc-budget.js`, `rpc-failover.js`) | requests in flight | schedule, try in turn | limits hold | not modelled |
| inspection on request, parsing, adapters, formatting, configuration | none | read, decode, print | no state, no ordering | not modelled |

How they interact. The sources call the pipeline; the pipeline reads and writes
the store and sends through `notify.js`. The two sources, the pending worker,
the Pons loop, the outbox worker and the hourly loops are `async` functions of
one event loop: they interleave at every `await` and share the store, `claimed`,
`recoveryKeys` and one *serial executor*, a promise chain that runs one analysis
at a time. A rejected loop rejects `Promise.all` and ends the process, and a
supervisor starts it again on the same file. Several processes meet only in the
file system: a second `watch`, a `scan` or `check` that reads the store, and the
refresh of the asset catalogs beside an application that starts.

The behaviours that are hard here are the interleavings of those loops, a crash
between two writes or between a message and a write, a write that fails, an
answer that is lost, a node that lags behind, and retries. `PROJECT.json` lists
them under `hazards`, each at its line.

## 2. Plan

Done, in the order they were worth having: 1. `CandidatePipeline` with the
abstract `CandidateHandoff` and proofs; 2. `PonsLifecycle` and proofs;
3. `EvmRunner` on `DiscoveryBreaker` and `AnalysisCircuit`, and proofs;
4. `SolanaRunner` and proofs; 5. `ChainReading` and proofs; 6. `DataDirectory` with
the monthly budget, and proofs of the lock; 7. `AssetRefresh`;
8. `CandidatePolicy` and `Sellability`, and proofs; 9. `Outbox` and
`PendingSelection`.

Composition. `CandidatePipeline` is shown to implement `CandidateHandoff`;
`EvmRunner` drives the breaker and the circuit. Modules whose processes do not
meet share a run and not a behaviour: the MC modules `MCDiscovery`,
`MCInstallation`, `MCDecisions` and `MCPonsLive` choose one of them in the
initial state.

Left, in this order: sessions that overlap on `DiscoveryBreaker` (the Robinhood
loops share one breaker); the watchlist with its market heat and the decay
watch; the pruning of the store's maps; the request scheduler. Every safety
property a passing run checks is now also a theorem (section 6). Theorems worth
proving next: a version of `CandidateHandoff` that the pipeline implements with both
sources, an abstract specification of the outbox, and what the helpers of
`Sellability` return for every set of receipts.

## 3. The modules

**`CandidatePipeline`** is the live `watch` process from the report of a candidate
to its durable settlement. Actors are the enabled sources (`onchain`, `gecko`)
and `pending`, the worker. The state file is `seen` (keys for which `hasSeen`
answers true), `cursor` (`cursors.onchain`) and `checks` (the recovery and the
recheck of each candidate). The memory of the process is `claimed`,
`recoveryKeys`, and per source a `batch` (reported events not yet offered), a
`queue`, the range being scanned (`scanTo`) and whether anything failed. `stage`
and `cand` say where the current operation of each actor stands; `executor` is
the promise chain, whose head runs.

* A source: `ScanRange`/`PollGecko` (one network read), `Offer` (the synchronous
  run of `enqueue` between two drains), `Take`, the operation, `Finish` (the
  `finally` of `drainQueue`), `EndRange` (the cursor).
* An operation, one action per stretch between two awaits or writes: `Classify`,
  `AnalyzeFirst`, `Alert`, `Schedule` (`onAnalyzed`), `MarkSeen`; `Throw` is a
  failure at any network call, handed over by `Defer` when it is retryable.
* The worker: `SelectDue`, `StartCheck`, then the operation of a recovery or
  `AnalyzeRecheck`, then `Complete`, `Again` or `Retry`, each one write.
* The environment: `Crash`, `Exit` (the process ends itself), `AckLost`, a failed
  write or an unexpected error (all four counted in `faults`), `Age` and
  `ExpireSeen`.

Time is abstract: a check may be due at any moment. A verdict, a route, a Pons
identity, an open circuit are choices of the environment.

**`CandidateHandoff`** is the promise in terms of the state file alone: above the
watermark a source may settle or defer a candidate; the watermark passes a
candidate only when it is no longer open; below the watermark only the recovery
worker changes what became of it. `HandoffStatus` maps the state file to it.

**`PonsLifecycle`** is the Pons loop, the worker's inspections, and what they share.
The chain is `log` (the event of each block), `phase` (the Factory record of each
token) and `window` (the first block younger than the age limit). The state file
is `cursor`, `tokens`, `applied`, `checks` (the inspection each event asked for)
and `notices` (what was put into the outbox). A token state is its phase, its
monitor state, its market readiness and `rev`, which stands for everything else
a write changes (`updatedAt`, the facts): two writes never leave equal states.

* The loop: `PollNothing`, `BeginRange` (the head, the start of the range and the
  snapshot), `ReadEvent` (one record read and one run of the reducer, or an
  abandoned range), `CommitRange` (one write, refused when a token of the range
  differs from the snapshot).
* The worker: `SelectChecks`, `StartInspection` (the snapshot of one token),
  `Report` (`applyCheckResult`, dropped when the check is no longer pending or the
  token differs) or `FailInspection` (`rescheduleCheck`).
* The environment: the Factory's moves, `EmptyBlock`, `AgeWindow`, `Crash`, and
  failed reads and writes (counted in `faults`).

What an inspection finds is a choice of the environment; that a market is ready
only where a pool exists is assumed of the report.

**`Outbox`** is the life of the entries those commits write. `outbox` is the state
file, `batch` the copies `listDueOutbox` gave to the round in progress, `tries`
the requests of the send in progress. `Enqueue` is the part of a commit that
adds an entry (once for its id); `ListDue`, `Suppress`, `Try`, `SendFails` and
`Delivered` are the round; `FallsDue` ends a delay. What may be sent
(`Sendable`) follows from the transition and the watchlist, and is written with
the entry. A send is up to `MaxTries` requests, of which each may arrive with or
without an answer. A failure to write what happened is itself handled as a failed
send, and a failure to write that ends the process.

**`EvmRunner`** is the process of an EVM chain other than Robinhood. One loop does
everything in turn, so there is no interleaving; what is hard is that an error
anywhere in a poll is handled far away. The state file is `seen`, `cursor` (0 for
null) and `checks` (the recheck of each candidate).

* `Poll` reads the mode and the due rechecks; `Recheck` runs one of them and writes
  its result (put off, too old, reported, failed).
* `StartSession` chooses the node, `Scan` reads the head and the range, `Handle`
  takes one candidate (skipped, marked, acted on, failed), `Advance` writes the
  cursor. The candidates of a range are handled in any order.
* `Alert`, `Schedule` and `Settle` are the stretches of `handleCandidate` after a
  verdict, one per message or write.
* `Thrown` is what becomes of an error, wherever it comes from: a recognised error
  of the primary repeats the whole session on the fallback, any other ends the
  poll, and an unrecognised one ends the process (`Exit` starts it again).

`net` says of an error that `isDiscoveryFallbackError` recognises it. An error of
the fallback is thrown with the primary's, so it may be recognised for that one.

**`DiscoveryBreaker`** and **`AnalysisCircuit`** are the two state machines the runner
drives, as functions of a record: `open`, `cooled` (the cooldown has passed, at any
moment: `BreakerCools`, `CircuitCools`) and `probing`, and for the circuit `notified`.

**`SolanaRunner`** is `watchSolana`. A signature is a number, in the order the chain
lists them; several share a slot. The state file is `anchor` (one cursor per
program) and `known`. A poll is one session over all programs: on a first run
(`ReadAnchor`, then `Anchor`, one write for each program) nothing but the newest
signature is read; afterwards `ReadProgram` collects what lies `Behind` each
cursor, `AlreadyKnown`, `Quiet` or `Alert`, then `Message` (or `MessageAckLost`, or
`SendThrows`) and `Mark` handle the events of one program, and `CommitProgram`
writes its cursor before the next program's events. What is seen is a candidate key
(`KeyOf`, `candidateKey`): the venue, which is the program, and the pool. A node
lists a prefix of the signatures and names a confirmed slot; the two are not
tied, and the fallback may be behind in both. `start`, `sent` and `repeats` are
history: the anchor a program's first run took, whose message reached the chat, and
how often one reached it again.

**`ChainReading`** is how the Robinhood watch gets at its events: the bisection for
the first block of the age window (`StartSearch`, `Probe`, `Found`), and the
reading of a range behind the cursor (`StartRange`, `EndRange`), in which each
factory has its own call stack of `getLogsChunked` (`frames`), since a window the
node refuses (`Refuse`) is replaced by a call for each half, with half the chunk.
`out` are the windows answered, in order.

**`DataDirectory`** is a data directory and the processes that use it. A `watch`
goes through `migrate`, `copy` (the legacy files, one by one), `load`, `save`,
`verify`, `lock` (the port), `name` (the file beside it), `running`, and back
through `unlock`, `unname`, `close`; a `scan` or `check` loads and runs without
the lock. `state` is `state.json` as the set of what it holds. Every process counts
its paid requests (`Request`, refused at the limit) and writes the count by a
timer and at its end (`FlushTimer`, `FlushLast`); `Counted` forgets a count of
another month.

**`AssetRefresh`** is `refresh-assets xstocks`: fetch, stage every new file, back up
every old one, write the journal, rename the new files, remove the journal; the
catch block (`BatchFails`, then `Recover` with a journal or `Restore` without),
the recovery at the next start, and an application that starts beside it
(`AssertNoPending`, `LoadCatalog`). A copy is two steps, since it empties its
target first; a rename is one.

**`PendingSelection`** is `selectDueChecks` with the start bucket of the worker's
loop; only the numbers of due checks of each bucket matter. **`CandidatePolicy`**
is the way of one candidate from the gate through the score to its alert, on the
EVM chains and on Solana: `Gate` with `UpperBound`, `ScoreOf`, `RedFlags`,
`EvmReport`, `SolanaReport`, `Alert`. **`Sellability`** is the deep inspection step
by step, for the four kinds of pools: V2 on Robinhood (with its quotes), V2 of the
registry, a launchpad, Solana. A wallet is a person or a contract; what the
chain holds is chosen when it is read.

**`MCCandidatePipeline`**, **`MCPonsLifecycle`**, **`MCEvmRunner`**, **`MCDiscovery`**,
**`MCInstallation`**, **`MCDecisions`** and **`MCPonsLive`** name the instances; the
modules ending in **`Proofs`** hold the proofs. Definitions marked *Mutant* are
plausible bugs of the definition after them; no specification uses them, they
show that each property can fail.

## 4. What the runs show

| run | instance | shows |
|---|---|---|
| `pipeline_onchain` | onchain, 2 candidates in one range, queue of 1, 1 attempt, 1 fault of any kind | `CursorCoversWork`, `CompletedImpliesSeen`, and the refinement `HandoffSpec` |
| `pipeline_shared` | both sources, 1 candidate, 2 attempts, 2 faults of any kind | `KeysFollowChecks`, `AlertBudget`, `UnknownIsRechecked`, `SingleOwner`, `RecheckRunsOnce`; no deadlock |
| `pipeline_live` | onchain, 1 candidate, 2 attempts, 2 faults (crash, disk, unexpected) | `OnchainSettled`, `ChecksTerminate` |
| `pipeline_cursor_gap` | both sources, 1 candidate | **violated**: the cursor passes a block whose candidate is only in the other source's memory |
| `pons_safe` | 2 tokens, 4 blocks, 2 attempts, a rescue, a moving window, 1 fault of any kind | `AppliedIsReflected`, `CursorCoversEvents`, `NewestInspectionOnly`, `KillAnnouncedOnce`, `NoWayBack` |
| `pons_live` | 1 token, 4 blocks, 2 attempts, no rescue, 1 fault; an outbox of 2 entries, 3 sends of 2 requests, 2 faults | `EventsConsumed`, `InspectionsEnd`, `EveryEntryEnds` |
| `pons_stall` | 1 token, 3 blocks, a rescue, no fault | **violated** `EventsConsumed`: a token stops the cursor |
| `evm` | 2 candidates in 2 blocks, 2 slots, both nodes, 2 faults of any kind | `CursorCoversCandidates`, `SilentFirstRange`, `AlertBudget`, `ToldOnce`, `SlotsAreAnalyses`, `DiscoveryAdvances`; no deadlock |
| `discovery` | Robinhood: 7 blocks, window of 4, range of 5, two factories, 1 failed request; Solana: 2 programs, 6 signatures in 3 slots, 2 pools of which one is announced by both, 2 faults of any kind | `SearchFindsFirst`, `EachBlockOnce`, `NothingSkipped`; `HandledUpToCursor`, `CursorAccepted`, `MessageBudget`, `HistoryOnlyOnce`; `EachChainCatchesUp` of both |
| `solana_poison` | Solana, one transaction the parser refuses, no fault | **violated** `OtherProgramsAdvance`: one program stops all |
| `installation` | 2 watches and a reader, 2 legacy files, 2 commits, 1 crash or failed write; a watch and a reader with a limit of 2 and payloads of 1 or 2, 2 months; 2 catalogs, 2 runs, 2 faults anywhere | `LockNamesHolder`, `NothingLost`, `BudgetHolds`, `AllOrNothing`, `StartsSettled` |
| `decisions` | up to 5 due checks in each of 3 buckets, 4 taken; every candidate over small figures, two thresholds, three readings; 4 wallets, 2 chunks of transfers, every budget of the inspection within reach | `FairShare`, `GateSound`, `ConfirmedIsEarned` |

A fault of "any kind" is a crash, a failed write, a lost answer or an error,
wherever it can happen. The type invariants are proved (section 6) for the
modules with proofs; those of the others are stated in the modules and are not
listed with a run.

### Bounds

*Pipeline.* Two candidates are enough for a queue of one to be full with a candidate
left over, for one candidate to fail while the other is done, and for the worker
and a source to compete for the executor. One or two faults are enough for a
failure and a failure of its handling. The code's three attempts are two in the
runs (a retry, then the last attempt) or one. `Aging` limits which candidate may
grow old during a run. `LastBlock`, `ChunkBlocks`, `QueueSize`, `MaxAttempts` and
`MaxFaults` are arbitrary in the proofs. The onchain runs switch deadlock checking
off: once every block is scanned and every check ended, the model has nothing
left to do; so do the others that say so.

*Pons.* Four blocks hold the four events of a token's life, or two tokens with an
event each in one range and an inspection between them; every event can be alone
in a range or share it with any of the others. The record read is ahead of the
events of the range because the head moves while the range is read (`pons_safe`)
and because of a confirmation (`pons_live`). One fault is enough because each of
them forgets everything in memory. `LastBlock`, `Token`, `Confirmations`,
`MaxAttempts`, `MaxWindow` and `MaxFaults` are arbitrary in the proofs. Two outbox
entries with one in a round let one wait for the other; three sends are a first,
a second and a last.

*EVM.* The first block is the silent first range of some behaviours and part of a
later range in others, the second block always comes after a cursor or with the
first; two slots are a retry and the last one. Two faults allow a failure on each
node, or a crash between the writes of a candidate and another after it. A
primary that does not answer is not counted as a fault. `LastBlock`, `Candidate`,
`MaxAttempts`, `MaxFaults` and `HasFallback` are arbitrary in the proofs.

*Chain reading.* Seven blocks make a range of five and a rest; a window of four can
be refused, halved, refused again, down to one block, while the window behind it
is whole; the boundary is every block, and none. Everything is arbitrary in the
proofs. *Solana.* The programs alternate in the listing, two signatures of one
program share a slot and a third is in the next; one transaction is an event of each
program for the same pool, as a migration is, and one program announces that pool
again; the history of a first run is two signatures, one of each program.

*Installation.* Two watches race for the port and the file, a third process only
reads; two legacy files can be half copied. One crash is enough to leave a file,
a port or a count behind. Commits are switched off where requests are counted and
the other way round, since neither reads what the other writes. For the refresh,
two catalogs make a half of a batch; a second fault hits the handling of the
first, a second run finds what the first left.

*Decisions.* The figures are at, below and above each threshold; `MinScores` are 55
and a value that makes the inspection floor miss the score's steps by one. `GateSound`
quantifies over every reading, the readings of the run are three of them. The
budgets of an inspection (sample, ladder, code lookups, receipts) are one or two
instead of their real values, so that each is exhausted with something left over.

### Fairness

`FairSpec` of the pipeline assumes weak fairness of each actor's steps: the loops
never stop, every network call has a timeout, an event loop runs what is ready, and
the supervisor restarts a process that exits. Nothing is assumed of `Age`,
`Crash` or the listing. In `PonsLifecycle` the loop and the worker are each weakly
fair: `runPonsWatchLoop` catches every error and polls again, and a worker's round
always ends (an inspection has a timeout). Nothing is assumed of the chain. In
`Outbox` the worker's steps, the restart and the end of a delay are; nothing is
assumed of Telegram, which may answer no request at all.
In `EvmRunner` the loop is weakly fair (every request has a timeout and a process
that ends is started again), blocks arrive and time passes; nothing is assumed of
the primary, the analyses, the messages, the cooldowns or the faults. In
`SolanaRunner` likewise, and a candidate whose analysis always fails grows old. In
`ChainReading` every step is: the loop polls again after its sleep.

### Assumed of the environment

`seenTtlMs` is at least the age window (24 hours against 30 minutes by default), for
the pipeline, the EVM and the Solana runner alike, and no seen entry is evicted by
the size limit while its candidate is young; candidates carry their creation time; the
scanned blocks are confirmed. For Pons: a block holds at most one event, the
record read is that of the latest block (no node lags), and confirmed events do
not change. For chain reading: timestamps never fall from a block to the next, and
the safe head stands still during a catch-up. For Solana: the confirmed slots and
the order of the listing do not change; every page of a listing comes from the same
node within a session; a program announces a pool again, if at all, while the seen
entry of the first time lasts; no two of its pools differ in nothing but case, which
`hasSeen` does not distinguish. For the directory: `rename` is atomic, `copyFileSync` is not
but for the legacy copy, which goes through a temporary file; a dead process does
not listen. For an inspection: all reads are pinned to one block.

### What the properties leave out

* `NothingLost` has two exemptions, both visible in the model as history variables.
  `halfway`: a start that ends between two legacy files leaves a directory whose
  first file keeps the next start from copying the rest, and a second process that
  looks during the copy goes on with what it sees. `stale`: the store is loaded
  before the chain is checked and the lock taken, so a watch that starts while
  another commits and ends works on what it loaded. Without one of the two, nothing
  is lost by any other interleaving, crash or failed write.
* `BudgetHolds` allows the payload that began below the limit, whose requests are
  counted together, and what was unwritten at a crash; two processes that count at
  once overwrite each other's counts (`mixed`).
* `AllOrNothing` exempts `unlucky`, a second fault while backups are copied back over
  targets that the failed batch had not touched: the copy has emptied its target, no
  journal protects it, and the batch's files are removed afterwards. The test
  `test/xstocks-catalog.test.js:177` exercises a restoration that works.
* `GateSound` is about the market the event reports. DexScreener's figures, read by the
  analysis, may be better than those the gate saw, and the score of the same
  candidate higher than its bound. The ten points between the inspection floor and
  the threshold are not needed for it: with the threshold as the floor the gate
  would still be sound.
* `ConfirmedIsEarned` says that a confirmation is true, not that every token that can
  be sold is confirmed: the scan stops when enough raw buyers and sellers are seen,
  contracts included, so the persons further back may be missed and the result be
  unknown. On the EVM chains `privilegesKnown` is never set, so a green verdict is
  out of reach there; on Solana nothing is ever `blocked`.

## 5. What the runs refute

* **The cursor and the other source.** `README.md:223` says `cursors.onchain` is
  the last block *all of whose candidates were handled successfully*. An event
  that the gecko source has already claimed is rejected without counting as a
  failure, so the cursor moves while the candidate exists only in memory. If the
  gecko operation then ends in an unexpected error, or the process stops, nothing
  durable remembers the candidate.
* **One token can stop the Factory cursor.** `assertForwardPhase` accepts a rescue
  only from `swept`. A token whose launch is already stored, and which is swept
  and rescued before its sweep is read, makes the range throw at every poll, for
  all tokens; the design (2026-09-06, state and cursors) says one bad token must
  not block the cursor for ever. `pons_live` shows that, under the
  assumptions above, this is the only cause: without rescues the cursor always
  moves on.
* **One program can stop all of Solana.** `docs/operations/multichain-solana.md:50` says
  that a permanent error stops the range it is in, and that each program has its own
  cursor. The programs are read one after the other in one session, and the first
  error throws away what was read of all of them. `discovery` shows that without
  such a transaction every program gets to its end, through faults and lag.

Three disagreements are known from reading the code and no run is kept for them.
A crash between a message and the write behind it repeats the message
(`runtime.js:42`), where the multichain design (section 12.2) says a restart must not push
twice: `AlertBudget` and `MessageBudget` are what holds, each failure repeats at most
one message of each kind. What is told once is a candidate key, not a pool: the pool
that a pump migration and pumpswap's `createPool` both announce
(`venues/solana/pump.js:40,60`) has two keys, since the venue is part of one
(`core/candidate.js:136`), and may have two messages without any fault. A rescue emits no event that is decoded and only the
watchlist is reconciled (`scanner.js:405`), so a token rescued after its last event
keeps its phase, where the lifecycle design makes the record the authority at every
start. And the candidates of an EVM range are handled inside the session
(`evm/runner.js:213`), so a network error of the analysis node opens the breaker of
the discovery node, where the dual RPC design names a failed request of the
official node; `DiscoveryAdvances` shows that this costs time, not candidates.

## 6. What is proved

`CandidatePipelineProofs`, from `PipelineAssumption` (the types of the constants)
alone:

* `TypeCorrect`: `Spec => []TypeOK`. The types are not inductive: that no check uses
  more attempts than it has needs to know that the check the worker runs, and the
  checks it selected, are still pending when it writes them, and that a pending
  check has an attempt left (`StageInv`, `DueInv`, `AttemptsInv`). Each operation
  is shown to have an `OperationEffect`, and the effect to keep the invariant.
* `CursorSafe`: with `Source = {"onchain"}`, `Spec => []CursorCoversWork`. The
  inductive invariant adds that what is claimed is queued or being worked on,
  that the keys held in memory are recorded, and that while a range is handled
  and nothing failed each of its candidates is accounted for or still in the
  hands of the source (`RangeInv`). The hypothesis is needed: `pipeline_cursor_gap`
  is the counterexample without it.
* `ImplementsHandoff`: with `Source = {"onchain"}`, `Spec => HandoffSpec`. Each step
  maps to a step of `CandidateHandoff` or to a stutter; the inductive invariant
  adds what the mapping reads of the memory (`CoverInv`, `RecheckInv`, `AboveInv`).
* `OneOwner` and `KeysNeverMiss`, for any set of sources: `Spec => []SingleOwner` and
  `Spec => []KeysFollowChecks`. They are proved together, by `HoldInv`, since neither
  is inductive alone. What a source has is claimed, and by it alone (`OwnerInv`);
  what it has not settled is neither seen nor left to the worker (`AloneInv`),
  which holds because `Rejected` asks for the keys in memory and these never miss an
  active check (`KeysFollowChecks`). The steps that could break it are the ends of
  an operation, where the claim, the check and the key change in different writes.
* `CompletedOnlySeen`: `Spec => []CompletedImpliesSeen`. It needs that the candidate is
  already seen in the stage that completes a recovery (`CompletedInv`).
* `UnknownNotForgotten`: `Spec => []UnknownIsRechecked`. It needs that an operation past
  its analysis has either found the sellability of its candidate or put a recheck
  on file (`UnknownInv`), also for a recovery the worker has still to write.
* `RecheckOnce`: `Spec => RecheckRunsOnce`, an action property, from `HoldInv`: the
  worker writes only a recheck that is pending, and `Schedule` keeps one that is there.
* `AlertsPaid`: `Spec => []AlertBudget`. The property does not bound what may still be
  sent, so `BudgetInv` counts it: the messages of a candidate, and those it is still
  owed (its first operation, its recheck, and the one a restart may repeat while
  the process is down), are at most `1 + 2 * faults`. Each step is shown to balance
  the account (`Balanced`): it owes nothing new, exchanges one debt for another,
  sends what was owed, or is a fault, which pays for two.

`CandidateHandoffProofs`: `HandoffCovered` and `HandoffOnce` of the abstract
specification, from `HandoffAssumption` as a hypothesis of the theorems; with
`ImplementsHandoff` they hold of the process.

`PonsLifecycleProofs`, from `PonsAssumption` (the types of the constants) alone:
`PonsTypeCorrect`, `NoEventPassed`, `EventsReflected`, `NewestOnly`, `KilledOnce` and
`Forward`, that is every property of `pons_safe`. One inductive
invariant, `IInv`, carries them all. It adds to the properties: blocks above the
head are empty and a record is at least as far as its events (`ChainInv`); what is
applied lies at or below the cursor (`FileInv`); the start of a range is covered
(`LoopInv`); the states of a preview follow the snapshot one after the other,
forward, and dead only by a rescue (`PreviewInv`). The heart of it is the
commit: since the tokens of the range equal the snapshot, what follows the
snapshot follows what is in the file (`CommitOnward`). That a nonempty set of
blocks has a newest one (`NewestIsLast`) comes from the well-foundedness of the
naturals.

The same module, from `OutboxAssumption`, has three theorems about `Outbox` that no run
states: `OutboxTypeCorrect`; `OutboxTruthful`, that no entry is delivered whose message
did not arrive and none suppressed whose message did; and `OutboxFinal`, an action
property, that an outcome stays. `EveryEntryEnds` says that an entry gets an outcome,
these that it is the right one and the last. The writers of the store overwrite a
status without looking at it, so the proof has to show that they never meet an
outcome: what is due is pending, each entry once (`QueueInv`), and the copies of a
round are distinct and still what the file says (`RoundInv`). The lemma behind it is
`Removed`, about the removal of an element from a sequence without repetitions.

`EvmRunnerProofs`, from `EvmAssumption` (the types of the constants) alone:
`EvmTypeCorrect`, `EvmCursorSafe`, `EvmRangeAhead`, `EvmSilentFirstRange`,
`EvmToldOnce`, `EvmAlertsPaid` and `EvmSlotsAreAnalyses`, that is every property of the
run `evm` but its liveness. Every step either gives the range up and leaves the state file as it
is (`GivesUp`, all failures at once) or is the successful part of an action
(`Succeeds`), which keeps the case analysis in one place (`Next_Splits`). The cursor
needs that what the range holds is covered, still to be handled, or in hand
(`RangeOK`); the silence of the first range needs that, once there is a cursor,
everything that may lead to a message lies after that range (`SilenceOK`); the
notices need that a told outage is marked as told (`NoticeOK`). The last two
share `WorkInv`: what is due, and what is asked for a message outside a session, is a
pending recheck, and a recheck that is not on file has used no slot. The budget is
again an account: messages and what is owed of them (a first analysis that is not
written down, a pending recheck) are at most `1 + faults`, and every step is
`Balanced`; here a first analysis and its recheck are one debt after the other, so
a fault pays for one message and not for two.

`ChainReadingProofs`, from `ReadingAssumption` (the types of the constants) alone:
`TypeCorrect`, `SearchCorrect`, `ReadingCorrect` and `NothingSkippedCorrect`, that is every
safety property of the module, for every chain, window, range and set of factories.
The search needs that the interval still to be searched ends where the answer
begins (`SearchInv`). The reading needs that, for each factory, the windows answered
and the calls still open tile the range: the windows are contiguous and end where
the innermost call goes on, and each call begins where the one inside it ends
(`Tiles`, `RangeInv`). A refused window replaces the innermost call by two that tile
it, which is the step where a wrong half would leave a gap or an overlap.
`NothingSkipped` then follows at `EndRange`, when no call is open.

`SolanaRunnerProofs`, from `SolanaAssumption` (the types of the constants, the
slots of a listing that do not fall): `SolanaCursorSafe`, `SolanaCursorAccepted`,
`SolanaHistoryOnce` and `SolanaMessageBudget`, every safety property of the module but
its types. The inductive invariant `SolInv` says of a poll what the reading of a
program found: everything behind the cursor up to the newest signature is known,
still to be handled or just told (`Accounted`), and that newest signature is not of
a slot before the cursor's (`ReadOK`). The step that needs an argument is the
reading, `BehindWhole`: whether or not the node still lists the cursor's signature,
what `reconcileProgram` collects has no gap. It also says that there is an anchor
for every program before anything is handled (`FirstRunOK`), which is what makes a
repeated first run harmless. `BudgetInv` keeps the account of `SolanaMessageBudget`: a candidate whose
message reached the chat, and which is neither marked nor about to be, owes its next
message to a fault (`Owed`), and the repetitions so far and the candidates that owe
one are together no more than the faults.

`InstallationProofs`, from `DirectoryAssumption` and `AssetAssumption`, that is every
property of the run `installation`:

* `LockCorrect`. From the moment a watch takes the port until it closes it the port
  is its own, and while it works the file names it (`LockInv`); the release is safe
  because the port is closed after the file is removed.
* `DirectoryTypeCorrect`, and `StateKept`: `DirectorySpec => []NothingLost`. Two facts
  hold of every state: only a watch writes, and beyond its save there is a
  `state.json` (`PortInv`). The others hold as long as neither of the two ways around
  the lock was taken, as in the property (`StateInv`): one process at most copies the
  legacy files and no other is past it, and when none copies, all of them were
  copied or none (`CopyInv`); `state.json` holds what was inherited and every commit,
  a loaded store only some of it, but all of it in the process with the port
  (`HoldsInv`). A commit loses nothing because of that last clause, and taking
  the port establishes it, unless the store is `stale`.
* `BudgetKept`: `DirectorySpec => []BudgetHolds`. While one process at a time runs, what was
  paid in the month is in the count of the process that loaded it, or in the file,
  but for what is `lost` (`AccountInv`). That a process launches alone is a count of
  processes; the proof needs the set of those that run to be finite (`MonthInv`).
  The assumption that a payload holds at least one request is needed: the bound is
  strict, and nothing is paid by an empty payload.
* `AssetTypeCorrect`, `CatalogsWhole` (`AssetSpec => []AllOrNothing`) and `CatalogSettled`
  (`AssetSpec => StartsSettled`, an action property), for any number of files. The
  journal is there exactly while catalogs are replaced or put back, and names what the
  backups restore (`JournalInv`); how far a batch is (`BatchInv`); and the catalogs
  before the entry a recovery is at are those of the last whole batch (`BackInv`),
  which is why a recovery that is cut short may begin again.

`DecisionProofs`, from `PolicyAssumption`, `SellabilityAssumption` and
`SelectionAssumption`: `GateCorrect`, `SellabilityCorrect` and `SharesCorrect`. The first
rests on `Score_Bounded`: a market gets no points by waiting, and no reading earns
more than the maximum the gate grants it, so the gate's bound is above every score.
The second on `SellInv`: each item of evidence is backed by a receipt that was read
(`EvidenceOK`), and each stage of an inspection is reached with what the stages before
it had to show (`StepOK`). The third is about a loop: `SelectDue` is a recursive function
over the visits of a round. `Times` says in closed form how often the first visits of
a round asked a bucket; `Select_Asked` shows, by induction over the visits, that each
bucket gave as much as it was asked for or had, up to the visit that filled the
round. From it follow that a round is full or leaves nothing, that nobody is more
than one behind (`Select_Fair`), and that a round under load gives `Times` exactly
(`Select_Loaded`), which sums to the limit over the three first buckets
(`Times_Turn`). `SharesInv` then carries the shares of the last rounds along.

Induction over data. The library's theorems of induction take an operator, which
no prover here instantiates. `WFMin` takes a set instead: with it every nonempty set
of numbers has a least element (`NatMin`, `NewestIsLast`), and a set that holds 0 and
is closed under the successor holds all of them (`NatInd`). That is enough both for
the existence of a recursive function of the naturals (`Counts_Exist`) and for what
it computes.

Only model-checked: the liveness properties (`OnchainSettled`, `ChecksTerminate`,
`EventsConsumed`, `InspectionsEnd`, `EveryEntryEnds`, `DiscoveryAdvances`,
`EachChainCatchesUp`), since liveness under fairness is outside the prover's reach;
and the refutations of section 5.

## 7. Not modelled

Of the EVM runner: the one-shot scan, which writes nothing, the decoding of logs,
and a block's several candidates being handled in a fixed order. Of Pons: the
watchlist with its reconciliation, the market heat, the decay watch, and the
pruning of applied events (an event below the cursor is never looked up again). Of
the pipeline: the one-shot and shadow modes and the eviction of seen entries by
count. Of the breaker: sessions that overlap. Of the directory: the turn of a
month is seen by every process at once, and the `rpc-usage.json` of a crash in the
middle of its rename is the old or the new one. Of the asset refresh: the Base
catalog, which is a single file, and the scheduler inside a running application.
Of the analysis: what a single adapter of a launchpad accepts as a swap, and the
decoding of receipts and accounts. The request scheduler and the failover only
order requests whose outcome is a choice of the environment everywhere. Formatting,
parsing and configuration are left out for good.
