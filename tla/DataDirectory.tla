---------------------------- MODULE DataDirectory ----------------------------
(***************************************************************************)
(* One chain's data directory and the processes that use it                *)
(* (src/src/app.js, index.js): `watch`, which copies the files of an older *)
(* version, loads its store, checks the chain, takes the instance lock and *)
(* commits; and `scan` or `check`, which only read the store; both count   *)
(* their paid requests and write the count.                                *)
(*                                                                         *)
(* state.json is the set of what it holds: the names of the legacy files   *)
(* it was made from, and the commits since.  A store is loaded before the  *)
(* chain is checked, and the chain is checked before the lock is taken.    *)
(***************************************************************************)
EXTENDS Naturals, FiniteSets

CONSTANTS
    Watch, Reading,     \* processes that run `watch`, and `scan` or `check`
    Legacy,             \* the files of the older version, of LegacyNames
    Commits,            \* bound: the commits made
    Limit,              \* the monthly limit
    Batches,            \* how many requests one payload may hold
    MaxPaid,            \* bound: paid requests of a month
    Months,             \* bound: months
    MaxProcessFaults    \* bound: crashes and failed writes

Process == Watch \cup Reading
LegacyNames == {"state", "seen", "positions", "trades"}
NoOne == "none"

ASSUME DirectoryAssumption ==
    /\ NoOne \notin Process
    /\ Watch \cap Reading = {}
    /\ Legacy \subseteq LegacyNames
    /\ Commits \cap LegacyNames = {}
    /\ {Limit, MaxPaid, Months, MaxProcessFaults} \subseteq Nat
    /\ Limit > 0
    /\ Batches \subseteq Nat \ {0} /\ Batches # {}

VARIABLES
    \* the directory, and the lock port
    copied,         \* legacy files copied into it, "state" excepted
    state,          \* state.json
    usage,          \* rpc-usage.json
    lockFile,       \* the owner named in watch.lock
    port,           \* the process that listens on the lock port
    \* the processes
    stage,          \* what each is doing
    store,          \* what its store holds; before, the legacy files it has copied
    count,          \* what its budget has counted
    \* environment and history
    month,
    committed,      \* every commit made
    paid,           \* paid requests of the month
    lost,           \* requests of the month whose count was not written
    mixed,          \* two processes counted at once, in this month
    halfway,        \* a copy of the legacy files was interrupted or watched
    stale,          \* a commit or a first state.json was based on an older one
    processFaults

directory == <<copied, state, usage, lockFile, port>>
processes == <<stage, store, count>>
directoryHistory == <<month, committed, paid, lost, mixed, halfway, stale, processFaults>>
directoryVars == <<directory, processes, directoryHistory>>

NoState == [there |-> FALSE, holds |-> {}]
NoCount == [month |-> 0, total |-> 0, dirty |-> FALSE]

ProcessStage ==
    {"off", "migrate", "copy", "load", "save", "verify", "lock", "name",
     "running", "unlock", "unname", "close", "closing", "flush"}

DirectoryTypeOK ==
    /\ copied \subseteq LegacyNames
    /\ state \in [there : BOOLEAN, holds : SUBSET (LegacyNames \cup Commits)]
    /\ usage \in [month : 0 .. Months, total : Nat]
    /\ {lockFile, port} \subseteq Process \cup {NoOne}
    /\ stage \in [Process -> ProcessStage]
    /\ store \in [Process -> SUBSET (LegacyNames \cup Commits)]
    /\ count \in [Process -> [month : 0 .. Months, total : Nat, dirty : BOOLEAN]]
    /\ committed \subseteq Commits
    /\ month \in 0 .. Months /\ paid \in 0 .. MaxPaid /\ lost \in Nat
    /\ {mixed, halfway, stale} \subseteq BOOLEAN
    /\ processFaults \in 0 .. MaxProcessFaults

DirectoryInit ==
    /\ copied = {} /\ state = NoState /\ usage = [month |-> 0, total |-> 0]
    /\ lockFile = NoOne /\ port = NoOne
    /\ stage = [p \in Process |-> "off"]
    /\ store = [p \in Process |-> {}]
    /\ count = [p \in Process |-> NoCount]
    /\ month = 0 /\ committed = {} /\ paid = 0 /\ lost = 0
    /\ mixed = FALSE /\ halfway = FALSE /\ stale = FALSE
    /\ processFaults = 0

Goes(p, s) == stage' = [stage EXCEPT ![p] = s]
ProcessFault == processFaults < MaxProcessFaults /\ processFaults' = processFaults + 1

(* The count a process goes by: that of another month is none.             *)
Counted(p) == IF count[p].month = month THEN count[p].total ELSE 0
Written == IF usage.month = month THEN usage.total ELSE 0

Unwritten(p) == IF Counted(p) > Written THEN Counted(p) - Written ELSE 0

-----------------------------------------------------------------------------
(* A process starts.                                                       *)

Launch(p) ==
    /\ stage[p] = "off"
    /\ Goes(p, IF p \in Watch THEN "migrate" ELSE "load")
    /\ count' = [count EXCEPT ![p] = NoCount]
    /\ mixed' = (mixed \/ \E q \in Process \ {p} : stage[q] # "off")
    /\ UNCHANGED <<directory, store, month, committed, paid, lost,
                   halfway, stale, processFaults>>

(* Nothing is copied over anything.                                        *)
CheckLegacy(p) ==
    /\ stage[p] = "migrate"
    /\ Goes(p, IF state.there \/ copied # {} \/ Legacy = {} THEN "load" ELSE "copy")
    /\ halfway' = (halfway \/ \E q \in Process \ {p} : stage[q] = "copy")
    /\ UNCHANGED <<directory, store, count, month, committed, paid, lost,
                   mixed, stale, processFaults>>

(* The files are copied one by one, state.json first; each appears whole.  *)
Copy(p, f) ==
    /\ stage[p] = "copy" /\ f \in Legacy \ store[p]
    /\ "state" \in Legacy \ store[p] => f = "state"
    /\ store' = [store EXCEPT ![p] = @ \cup {f}]
    /\ IF f = "state"
       THEN state' = [there |-> TRUE, holds |-> {"state"}] /\ UNCHANGED copied
       ELSE copied' = copied \cup {f} /\ UNCHANGED state
    /\ UNCHANGED <<usage, lockFile, port, stage, count, directoryHistory>>

CopyDone(p) ==
    /\ stage[p] = "copy" /\ store[p] = Legacy
    /\ store' = [store EXCEPT ![p] = {}]
    /\ Goes(p, "load")
    /\ UNCHANGED <<directory, count, directoryHistory>>

(* The count and the store are read.  A watch then writes the store that   *)
(* it made from legacy files, or of a state.json with an older schema.     *)
(* Mutant: every process does.                                             *)
Loaded(p) ==
    /\ stage[p] = "load"
    /\ count' = [count EXCEPT ![p] = [month |-> month, total |-> Written, dirty |-> FALSE]]
    /\ store' = [store EXCEPT ![p] = IF state.there THEN state.holds ELSE copied]
    /\ UNCHANGED <<directory, directoryHistory>>

LoadAndSave(p) == Loaded(p) /\ Goes(p, "save")

Load(p) ==
    /\ Loaded(p)
    /\ \/ p \in Watch /\ (state.there => "state" \in state.holds) /\ Goes(p, "save")
       \/ (p \in Watch => state.there) /\ Goes(p, "verify")

Save(p) ==
    /\ stage[p] = "save"
    /\ state' = [there |-> TRUE, holds |-> store[p]]
    /\ stale' = (stale \/ (p \in Watch /\ ~(state.holds \subseteq store[p])))
    /\ Goes(p, "verify")
    /\ UNCHANGED <<copied, usage, lockFile, port, store, count, month, committed, paid, lost,
                   mixed, halfway, processFaults>>

(* The chain and the deployments are checked.                              *)
Verified(p) ==
    /\ stage[p] = "verify"
    /\ Goes(p, IF p \in Watch THEN "lock" ELSE "running")
    /\ UNCHANGED <<directory, store, count, directoryHistory>>

VerifyFails(p) ==
    /\ stage[p] = "verify"
    /\ Goes(p, "flush")
    /\ UNCHANGED <<directory, store, count, directoryHistory>>

-----------------------------------------------------------------------------
(* The lock: the port decides, the file only tells who has it.             *)

TakePort(p) ==
    /\ stage[p] = "lock" /\ port = NoOne
    /\ port' = p
    /\ stale' = (stale \/ state.holds # store[p])
    /\ Goes(p, "name")
    /\ UNCHANGED <<copied, state, usage, lockFile, store, count, month, committed, paid, lost,
                   mixed, halfway, processFaults>>

PortTaken(p) ==
    /\ stage[p] = "lock" /\ port # NoOne
    /\ Goes(p, "flush")
    /\ UNCHANGED <<directory, store, count, directoryHistory>>

NameLock(p) ==
    /\ stage[p] = "name"
    /\ lockFile' = p
    /\ Goes(p, "running")
    /\ UNCHANGED <<copied, state, usage, port, store, count, directoryHistory>>

NameFails(p) ==
    /\ stage[p] = "name" /\ ProcessFault
    /\ port' = NoOne
    /\ Goes(p, "flush")
    /\ UNCHANGED <<copied, state, usage, lockFile, store, count, month, committed, paid, lost,
                   mixed, halfway, stale>>

EndRun(p) ==
    /\ stage[p] = "running"
    /\ Goes(p, IF p \in Watch THEN "unlock" ELSE "flush")
    /\ UNCHANGED <<directory, store, count, directoryHistory>>

(* Mutant: the port is closed before the file is removed.                  *)
CloseThenUnname(p) ==
    /\ stage[p] = "unlock"
    /\ Goes(p, IF lockFile = p THEN "unname" ELSE "close")
    /\ port' = NoOne
    /\ UNCHANGED <<copied, state, usage, lockFile, store, count, directoryHistory>>

ReadLock(p) ==
    /\ stage[p] = "unlock"
    /\ Goes(p, IF lockFile = p THEN "unname" ELSE "close")
    /\ UNCHANGED <<directory, store, count, directoryHistory>>

RemoveLock(p) ==
    /\ stage[p] = "unname"
    /\ lockFile' = NoOne
    /\ Goes(p, "close")
    /\ UNCHANGED <<copied, state, usage, port, store, count, directoryHistory>>

(* The port is free before the callback of close: until it runs, the other *)
(* loops of the process go on.                                             *)
ClosePort(p) ==
    /\ stage[p] = "close"
    /\ port' = IF port = p THEN NoOne ELSE port
    /\ Goes(p, "closing")
    /\ UNCHANGED <<copied, state, usage, lockFile, store, count, directoryHistory>>

Closed(p) ==
    /\ stage[p] = "closing"
    /\ Goes(p, "flush")
    /\ UNCHANGED <<directory, store, count, directoryHistory>>

-----------------------------------------------------------------------------
(* What the processes do.                                                  *)

(* A commit writes the whole store of the process.                         *)
Commit(p) ==
    /\ p \in Watch /\ stage[p] \in {"running", "closing"}
    /\ committed # Commits
    /\ LET c == CHOOSE c \in Commits \ committed : TRUE IN
         /\ store' = [store EXCEPT ![p] = @ \cup {c}]
         /\ state' = [there |-> TRUE, holds |-> store[p] \cup {c}]
         /\ committed' = committed \cup {c}
    /\ stale' = (stale \/ port \notin {p, NoOne} \/ (port = NoOne /\ state.holds # store[p]))
    /\ UNCHANGED <<copied, usage, lockFile, port, stage, count, month, paid, lost,
                   mixed, halfway, processFaults>>

(* A payload of n requests is sent: the budget looks at the count once.    *)
Request(p, n) ==
    /\ stage[p] \in {"verify", "running"}
    /\ Counted(p) < Limit /\ paid + n <= MaxPaid
    /\ count' = [count EXCEPT ![p] = [month |-> month, total |-> Counted(p) + n, dirty |-> TRUE]]
    /\ paid' = paid + n
    /\ UNCHANGED <<directory, stage, store, month, committed, lost,
                   mixed, halfway, stale, processFaults>>

Flushed(p) ==
    IF count[p].dirty \/ count[p].month # month
    THEN /\ usage' = [month |-> month, total |-> Counted(p)]
         /\ count' = [count EXCEPT ![p] = [month |-> month, total |-> Counted(p), dirty |-> FALSE]]
    ELSE UNCHANGED <<usage, count>>

(* The timer of a watch, which runs until the lock is released.            *)
FlushTimer(p) ==
    /\ p \in Watch /\ stage[p] \in {"verify", "lock", "name", "running", "closing"}
    /\ Flushed(p)
    /\ UNCHANGED <<copied, state, lockFile, port, stage, store, directoryHistory>>

(* A process that ends is off.                                             *)
Off(p) ==
    /\ Goes(p, "off")
    /\ store' = [store EXCEPT ![p] = {}]

(* Mutant: a process that was refused, or that only reads, does not flush. *)
FlushIfLocked(p) ==
    /\ stage[p] = "flush"
    /\ IF p \in Watch THEN Flushed(p) ELSE UNCHANGED <<usage, count>>
    /\ Off(p)
    /\ UNCHANGED <<copied, state, lockFile, port, directoryHistory>>

FlushLast(p) ==
    /\ stage[p] = "flush"
    /\ Flushed(p)
    /\ Off(p)
    /\ UNCHANGED <<copied, state, lockFile, port, directoryHistory>>

FlushFails(p) ==
    /\ stage[p] = "flush" /\ ProcessFault
    /\ lost' = lost + Unwritten(p)
    /\ Off(p)
    /\ UNCHANGED <<directory, count, month, committed, paid, mixed, halfway, stale>>

(* The system closes the port of a process that ends without a word.       *)
ProcessCrash(p) ==
    /\ stage[p] # "off" /\ ProcessFault
    /\ port' = IF port = p THEN NoOne ELSE port
    /\ lost' = lost + Unwritten(p)
    /\ halfway' = (halfway \/ stage[p] = "copy")
    /\ Off(p)
    /\ UNCHANGED <<copied, state, usage, lockFile, count, month, committed, paid,
                   mixed, stale>>

NewMonth ==
    /\ month < Months
    /\ month' = month + 1 /\ paid' = 0 /\ lost' = 0
    /\ mixed' = (Cardinality({p \in Process : stage[p] # "off"}) > 1)
    /\ UNCHANGED <<directory, processes, committed, halfway, stale, processFaults>>

DirectoryNext ==
    \/ \E p \in Process :
         \/ Launch(p) \/ CheckLegacy(p) \/ CopyDone(p) \/ Load(p) \/ Save(p)
         \/ Verified(p) \/ VerifyFails(p)
         \/ TakePort(p) \/ PortTaken(p) \/ NameLock(p) \/ NameFails(p)
         \/ EndRun(p) \/ ReadLock(p) \/ RemoveLock(p) \/ ClosePort(p) \/ Closed(p)
         \/ Commit(p) \/ FlushTimer(p) \/ FlushLast(p) \/ FlushFails(p) \/ ProcessCrash(p)
         \/ \E f \in Legacy : Copy(p, f)
         \/ \E n \in Batches : Request(p, n)
    \/ NewMonth

DirectorySpec == DirectoryInit /\ [][DirectoryNext]_directoryVars

-----------------------------------------------------------------------------
(* A watch that works is the one that listens, and the one the lock file   *)
(* names, although a file that a crash left is taken over and a release    *)
(* reads the file before it removes it (acquireInstanceLock).              *)
LockNamesHolder ==
    \A p \in Watch : stage[p] = "running" => port = p /\ lockFile = p

(* What the older version left, once a state.json is made from it.         *)
Inherited == IF "state" \in Legacy THEN {"state"} ELSE Legacy

(* state.json holds every commit ever made and what was inherited, whoever *)
(* else starts, reads, is refused or ends.  There are two ways around it,  *)
(* none behind the lock: the legacy files were half copied when the        *)
(* process ended or another one looked (halfway); a store was loaded, then *)
(* another process committed, and then the lock was taken or a first       *)
(* state.json written (stale).                                             *)
NothingLost ==
    ~halfway /\ ~stale =>
        /\ committed \subseteq state.holds
        /\ state.there => Inherited \subseteq state.holds

(* Unless two processes counted at once, no more is paid in a month than   *)
(* the limit, one payload that began below it, and what crashes and failed *)
(* writes left uncounted: also over the turn of a month, and over restarts.*)
BudgetHolds ==
    ~mixed => \E n \in Batches : paid < Limit + n + lost
=============================================================================
