---------------------------- MODULE SolanaRunner ----------------------------
(***************************************************************************)
(* The `watch` process of Solana (src/src/solana/runner.js): one cursor    *)
(* per program, an anchor for each on the first run, and then polls that   *)
(* read the signatures behind every cursor in one discovery session,       *)
(* handle the candidates program by program, and move each cursor when its *)
(* program is handled.                                                     *)
(*                                                                         *)
(* A signature is a number: the order in which the chain lists them; a     *)
(* transaction of two programs is a signature of each.  A node lists a     *)
(* prefix of that order and names a confirmed slot, nothing ties the two   *)
(* together, and the fallback may be behind in both.  What is marked seen  *)
(* is a candidate key, chain|venue|pool, and a program is a venue: the     *)
(* pool that a migration of pump-bonding-curve and a createPool of         *)
(* pumpswap both announce is two candidates.  `net` says of an error that  *)
(* isDiscoveryFallbackError recognises it.                                 *)
(***************************************************************************)
EXTENDS Naturals

CONSTANTS
    Programs,       \* how many programs the profile has
    Signatures,     \* bound: how many signatures the chain lists
    ProgramOf,      \* the program of each signature
    SlotOf,         \* the slot of each signature
    PoolOf,         \* the pool it announces, NoPool for none
    Pool,           \* pools
    FirstTip,       \* signatures listed when the process first starts
    Poison,         \* signatures the parser always refuses
    SolFaultKinds,  \* which of crash, disk, ack, net, missing may happen
    MaxSolFaults    \* bound: how many faults may happen

NoPool == "none"
Program == 1 .. Programs
Signature == 1 .. Signatures

(* candidateKey: the venue and the pool of an event.                       *)
Key == Program \X Pool
NoKey == <<0, NoPool>>
KeyOf(n) == <<ProgramOf[n], PoolOf[n]>>

ASSUME SolanaAssumption ==
    /\ Programs \in Nat \ {0}
    /\ NoPool \notin Pool
    /\ Signatures \in Nat
    /\ ProgramOf \in [Signature -> Program]
    /\ SlotOf \in [Signature -> Nat]
    /\ \A m, n \in Signature : m <= n => SlotOf[m] <= SlotOf[n]
    /\ PoolOf \in [Signature -> Pool \cup {NoPool}]
    /\ FirstTip \in 0 .. Signatures
    /\ Poison \subseteq Signature
    /\ SolFaultKinds \subseteq {"crash", "disk", "ack", "net", "missing"}
    /\ MaxSolFaults \in Nat

VARIABLES
    \* state.json
    anchor,         \* cursors.solanaPrograms, 0 for null
    known,          \* candidate keys for which hasSeen answers true
    \* the poll
    at,             \* where the loop stands
    node,           \* the node of the session, "none" outside one
    unread,         \* programs the session has not read yet
    newest,         \* per program: the newest signature read, 0 for none
    events,         \* signatures read, with events, not yet handled
    uncommitted,    \* programs whose cursor is not yet written
    current,        \* the candidate whose message is on its way, or not yet marked
    \* environment and history
    tip,            \* signatures the chain lists
    confirmed,      \* the confirmed slot
    aged,           \* up to this slot a transaction is beyond the age window
    start,          \* per program: the anchor its last first run took
    sent,           \* candidate keys whose message reached the chat
    repeats,        \* how often a message reached the chat again
    mishaps         \* faults so far

solStore == <<anchor, known>>
solPoll == <<at, node, unread, newest, events, uncommitted, current>>
solChain == <<tip, confirmed, aged>>
solChat == <<sent, repeats>>
solHistory == <<start, solChat, mishaps>>
solVars == <<solStore, solPoll, solChain, solHistory>>

SolTypeOK ==
    /\ anchor \in [Program -> 0 .. Signatures]
    /\ known \subseteq Key
    /\ at \in {"idle", "anchor", "read", "handle", "alert", "mark", "down"}
    /\ node \in {"none", "primary", "fallback"}
    /\ unread \subseteq Program
    /\ newest \in [Program -> 0 .. Signatures]
    /\ events \subseteq Signature
    /\ uncommitted \subseteq Program
    /\ current \in Key \cup {NoKey}
    /\ tip \in FirstTip .. Signatures
    /\ confirmed \in Nat
    /\ aged \in Nat
    /\ start \in [Program -> 0 .. Signatures]
    /\ sent \subseteq Key
    /\ repeats \in Nat
    /\ mishaps \in 0 .. MaxSolFaults

Nothing == [p \in Program |-> 0]

SolInit ==
    /\ anchor = Nothing
    /\ known = {}
    /\ at = "idle" /\ node = "none"
    /\ unread = {} /\ newest = Nothing /\ events = {} /\ uncommitted = {}
    /\ current = NoKey
    /\ tip = FirstTip
    /\ confirmed = 0
    /\ aged = 0
    /\ start = Nothing
    /\ sent = {} /\ repeats = 0
    /\ mishaps = 0

Mishap(k) ==
    /\ k \in SolFaultKinds /\ mishaps < MaxSolFaults
    /\ mishaps' = mishaps + 1

-----------------------------------------------------------------------------
(* How a poll ends.                                                        *)

Left(st) ==
    /\ at' = st
    /\ node' = "none"
    /\ unread' = {} /\ newest' = Nothing /\ events' = {} /\ uncommitted' = {}
    /\ current' = NoKey

(* The loop goes on after an error it recognises; any other one ends the   *)
(* process.                                                                *)
SolThrown(net) == Left(IF net THEN "idle" ELSE "down")

-----------------------------------------------------------------------------
(* The session.                                                            *)

OnFirstRun == \E p \in Program : anchor[p] = 0

(* A poll begins a session: an anchor for every program while any cursor   *)
(* is missing, the signatures behind the cursors otherwise.                *)
Begin(n) ==
    /\ at' = IF OnFirstRun THEN "anchor" ELSE "read"
    /\ node' = n
    /\ unread' = Program
    /\ newest' = Nothing /\ events' = {} /\ uncommitted' = {}
    /\ UNCHANGED <<solStore, current, solChain, start, solChat>>

PollPrograms == at = "idle" /\ Begin("primary") /\ UNCHANGED mishaps

(* The primary is out of reach: the whole work runs again on the fallback, *)
(* whose failure ends the poll.                                            *)
NodeFails ==
    /\ at \in {"anchor", "read"} /\ unread # {}
    /\ Mishap("net")
    /\ \/ node = "primary" /\ Begin("fallback")
       \/ /\ node = "fallback" /\ SolThrown(TRUE)
          /\ UNCHANGED <<solStore, solChain, start, solChat>>

(* How many signatures the node lists, and the slots it may name.          *)
Views == IF node = "primary" THEN {tip} ELSE 0 .. tip
SafeSlots == IF node = "primary" THEN {confirmed} ELSE 0 .. confirmed

Largest(S) == IF S = {} THEN 0 ELSE CHOOSE n \in S : \A m \in S : m <= n

(* The programs are read, and handled, in the profile's order.             *)
FirstIn(p, S) == p \in S /\ \A q \in S : p <= q

(* One session step on program p.                                          *)
DoneReading(p) == unread' = unread \ {p} /\ uncommitted' = uncommitted \cup {p}

ReadAnchor(p) ==
    /\ at = "anchor" /\ FirstIn(p, unread)
    /\ \E view \in Views :
         newest' = [newest EXCEPT ![p] = Largest({n \in 1 .. view : ProgramOf[n] = p})]
    /\ DoneReading(p)
    /\ UNCHANGED <<solStore, at, node, events, current, solChain, solHistory>>

(* The signatures reconcileProgram collects from a node that lists `view`  *)
(* of them and names the slot `safe`: newest first, above the safe slot    *)
(* ignored, up to the anchor, or the first slot before the anchor's.       *)
(* Mutants: the anchor's own slot ends the reading; only the anchor does.  *)
Listed(p, view, safe) == {n \in 1 .. view : ProgramOf[n] = p /\ SlotOf[n] <= safe}

BehindAnchorSlot(p, view, safe) ==
    {n \in Listed(p, view, safe) : SlotOf[n] > SlotOf[anchor[p]]}

BehindAnchorOnly(p, view, safe) ==
    {n \in Listed(p, view, safe) : anchor[p] \in Listed(p, view, safe) => n > anchor[p]}

Behind(p, view, safe) ==
    {n \in Listed(p, view, safe) :
        IF anchor[p] \in Listed(p, view, safe) THEN n > anchor[p]
        ELSE SlotOf[n] >= SlotOf[anchor[p]]}

(* The transactions are read and parsed, whatever failed on the chain has  *)
(* no events; a parser that refuses one ends the process.                  *)
ReadProgram(p) ==
    /\ at = "read" /\ FirstIn(p, unread)
    /\ \E view \in Views, safe \in SafeSlots :
         LET found == Behind(p, view, safe) IN
         IF found \cap Poison # {}
         THEN SolThrown(FALSE)
         ELSE /\ newest' = [newest EXCEPT ![p] = Largest(found)]
              /\ events' = events \cup {n \in found : PoolOf[n] # NoPool}
              /\ DoneReading(p)
              /\ UNCHANGED <<at, node, current>>
    /\ UNCHANGED <<solStore, solChain, solHistory>>

(* A confirmed transaction is not available yet: the error is not a        *)
(* network error, and ends the process.                                    *)
TransactionMissing ==
    /\ at = "read" /\ unread # {}
    /\ Mishap("missing")
    /\ SolThrown(FALSE)
    /\ UNCHANGED <<solStore, solChain, start, solChat>>

SessionDone ==
    /\ at = "read" /\ unread = {}
    /\ at' = "handle" /\ node' = "none"
    /\ UNCHANGED <<solStore, unread, newest, events, uncommitted, current, solChain, solHistory>>

-----------------------------------------------------------------------------
(* Cursors.                                                                *)

(* advanceProgramCursor accepts the newest signature of p: not of a slot   *)
(* before the cursor's.                                                    *)
Accepted(p) == anchor[p] # 0 => SlotOf[newest[p]] >= SlotOf[anchor[p]]

(* A program whose cursor is done; nothing new leaves the cursor alone.    *)
(* Mutant: it becomes null.                                                *)
CommittedNull(p) ==
    /\ uncommitted' = uncommitted \ {p}
    /\ anchor' = [anchor EXCEPT ![p] = newest[p]]
    /\ UNCHANGED <<known, at, node, unread, newest, events, current>>

Committed(p) ==
    /\ uncommitted' = uncommitted \ {p}
    /\ anchor' = IF newest[p] = 0 THEN anchor ELSE [anchor EXCEPT ![p] = newest[p]]
    /\ UNCHANGED <<known, at, node, unread, newest, events, current>>

(* The anchors of a first run are written one by one; a program without    *)
(* signatures has none.                                                    *)
Anchor(p) ==
    /\ at = "anchor" /\ unread = {} /\ FirstIn(p, uncommitted)
    /\ newest[p] # 0 => Accepted(p)
    /\ Committed(p)
    /\ start' = IF newest[p] = 0 THEN start ELSE [start EXCEPT ![p] = newest[p]]
    /\ UNCHANGED <<solChain, solChat, mishaps>>

(* A first run that is repeated on a node that lags behind has an older    *)
(* anchor than the one written before: the process ends.                   *)
AnchorRefused(p) ==
    /\ at = "anchor" /\ unread = {} /\ FirstIn(p, uncommitted)
    /\ newest[p] # 0 /\ ~Accepted(p)
    /\ SolThrown(FALSE)
    /\ UNCHANGED <<solStore, solChain, solHistory>>

(* The events of a program are handled in the chain's order, and its       *)
(* cursor is written before the next program's events.                     *)
Due(n) ==
    /\ n \in events /\ FirstIn(ProgramOf[n], uncommitted)
    /\ \A m \in events : ProgramOf[m] = ProgramOf[n] => n <= m

CommitProgram(p) ==
    /\ at = "handle" /\ FirstIn(p, uncommitted)
    /\ \A n \in events : ProgramOf[n] # p
    /\ Committed(p)
    /\ UNCHANGED <<solChain, solHistory>>

PollDone ==
    /\ at \in {"anchor", "handle"} /\ unread = {} /\ uncommitted = {} /\ events = {}
    /\ Left("idle")
    /\ UNCHANGED <<solStore, solChain, solHistory>>

-----------------------------------------------------------------------------
(* A candidate.                                                            *)

TooOld(n) == SlotOf[n] <= aged

(* An event of the same program and pool was handled before.               *)
AlreadyKnown(n) ==
    /\ at = "handle" /\ Due(n) /\ KeyOf(n) \in known
    /\ events' = events \ {n}
    /\ UNCHANGED <<solStore, at, node, unread, newest, uncommitted, current, solChain, solHistory>>

(* Too old, or analysed without a message: marked seen.                    *)
Quiet(n) ==
    /\ at = "handle" /\ Due(n) /\ KeyOf(n) \notin known
    /\ events' = events \ {n}
    /\ known' = known \cup {KeyOf(n)}
    /\ UNCHANGED <<anchor, at, node, unread, newest, uncommitted, current, solChain, solHistory>>

(* The analysis of a candidate of the age window fails.                    *)
AnalysisThrows(n) ==
    /\ at = "handle" /\ Due(n) /\ KeyOf(n) \notin known /\ ~TooOld(n)
    /\ \E net \in BOOLEAN : SolThrown(net)
    /\ UNCHANGED <<solStore, solChain, solHistory>>

(* It calls for a message, in live mode.  Mutant: hasSeen is not asked.    *)
AlertUnasked(n) ==
    /\ at = "handle" /\ Due(n) /\ ~TooOld(n)
    /\ at' = "alert" /\ current' = KeyOf(n)
    /\ events' = events \ {n}
    /\ UNCHANGED <<solStore, node, unread, newest, uncommitted, solChain, solHistory>>

Alert(n) ==
    /\ at = "handle" /\ Due(n) /\ KeyOf(n) \notin known /\ ~TooOld(n)
    /\ at' = "alert" /\ current' = KeyOf(n)
    /\ events' = events \ {n}
    /\ UNCHANGED <<solStore, node, unread, newest, uncommitted, solChain, solHistory>>

(* The message of the current candidate reaches the chat.                  *)
Delivered ==
    /\ sent' = sent \cup {current}
    /\ repeats' = IF current \in sent THEN repeats + 1 ELSE repeats

Message ==
    /\ at = "alert"
    /\ Delivered
    /\ at' = "mark"
    /\ UNCHANGED <<solStore, node, unread, newest, events, uncommitted, current, solChain, start, mishaps>>

(* The answer is lost, and sendTelegramWith tries again.                   *)
MessageAckLost ==
    /\ at = "alert"
    /\ Mishap("ack")
    /\ Delivered
    /\ UNCHANGED <<solStore, solPoll, solChain, start>>

(* No attempt is answered.                                                 *)
SendThrows ==
    /\ at = "alert"
    /\ \E net \in BOOLEAN : SolThrown(net)
    /\ UNCHANGED <<solStore, solChain, solHistory>>

Mark ==
    /\ at = "mark"
    /\ known' = known \cup {current}
    /\ at' = "handle" /\ current' = NoKey
    /\ UNCHANGED <<anchor, node, unread, newest, events, uncommitted, solChain, solHistory>>

(* A write of the state file fails.                                        *)
SolWriteFails ==
    /\ at \in {"anchor", "handle", "mark"} /\ unread = {}
    /\ at # "mark" => uncommitted # {}
    /\ Mishap("disk")
    /\ SolThrown(FALSE)
    /\ UNCHANGED <<solStore, solChain, start, solChat>>

-----------------------------------------------------------------------------
(* The environment.                                                        *)

SolCrash ==
    /\ Mishap("crash")
    /\ Left("idle")
    /\ UNCHANGED <<solStore, solChain, start, solChat>>

SolRestart ==
    /\ at = "down"
    /\ Left("idle")
    /\ UNCHANGED <<solStore, solChain, solHistory>>

NewSignature ==
    /\ tip < Signatures
    /\ tip' = tip + 1
    /\ UNCHANGED <<solStore, solPoll, confirmed, aged, solHistory>>

NewSlot ==
    /\ confirmed < SlotOf[Signatures]
    /\ confirmed' = confirmed + 1
    /\ UNCHANGED <<solStore, solPoll, tip, aged, solHistory>>

Aging ==
    /\ aged < SlotOf[Signatures]
    /\ aged' = aged + 1
    /\ UNCHANGED <<solStore, solPoll, tip, confirmed, solHistory>>

SolStep ==
    \/ PollPrograms \/ SessionDone \/ PollDone \/ SolRestart
    \/ Message \/ SendThrows \/ Mark
    \/ \E p \in Program :
         \/ ReadAnchor(p) \/ Anchor(p) \/ AnchorRefused(p)
         \/ ReadProgram(p) \/ CommitProgram(p)
    \/ \E n \in Signature : AlreadyKnown(n) \/ Quiet(n) \/ AnalysisThrows(n) \/ Alert(n)

SolNext ==
    \/ SolStep
    \/ NodeFails \/ TransactionMissing \/ SolWriteFails \/ SolCrash \/ MessageAckLost
    \/ NewSignature \/ NewSlot \/ Aging

SolSpec == SolInit /\ [][SolNext]_solVars

(* The loop never stops polling, every call has a timeout, a process that  *)
(* ends is started again, the chain grows, and time passes.                *)
SolFairness ==
    /\ WF_solVars(SolStep)
    /\ WF_solVars(NewSignature) /\ WF_solVars(NewSlot) /\ WF_solVars(Aging)

SolFairSpec == SolSpec /\ SolFairness

-----------------------------------------------------------------------------
(* Behind its anchor, a program's cursor never passes an event that was    *)
(* not handled: whichever node answered, however far it lagged behind,     *)
(* within a slot or across slots, whatever failed between two programs.    *)
HandledUpToCursor ==
    \A n \in Signature :
        LET p == ProgramOf[n] IN
        start[p] < n /\ n <= anchor[p] /\ PoolOf[n] # NoPool => KeyOf(n) \in known

(* The signature a poll ends at is never of a slot before its cursor's:    *)
(* the check of advanceProgramCursor, whose error would end the process    *)
(* again and again, never fails once every program has its first anchor,   *)
(* although the fallback may list less than the primary did.               *)
CursorAccepted ==
    \A p \in Program : at = "handle" /\ newest[p] # 0 => Accepted(p)

(* A candidate, the pool of one program, is the subject of one message,    *)
(* whichever of its events comes first: each further message, of any       *)
(* candidate, is paid for by a fault of its own, a crash or a failed write *)
(* before the mark, or a lost answer.  Errors of the analysis, unanswered  *)
(* sends, restarts and repeated ranges cost nothing.  A pool that two      *)
(* programs announce may have two messages: hasSeen compares the venue.    *)
MessageBudget == repeats <= mishaps

(* What a first run leaves out never grows once anything was handled: no   *)
(* restart, failed write or lagging node makes it begin again.             *)
HistoryOnlyOnce == [][start' # start => known = {}]_solVars

(* Every event the chain lists behind a program's anchor is handled in the *)
(* end, after any faults.                                                  *)
EverythingHandled ==
    <>(\A n \in Signature :
         start[ProgramOf[n]] < n /\ PoolOf[n] # NoPool => KeyOf(n) \in known)

(* Each program has its own cursor, and a permanent error stops the range  *)
(* it is in: a program whose transactions can all be parsed gets to the    *)
(* end of the chain.                                                       *)
OtherProgramsAdvance ==
    \A p \in Program : (\A n \in Poison : ProgramOf[n] # p)
        => <>(anchor[p] = Largest({n \in Signature : ProgramOf[n] = p}))
=============================================================================
