--------------------------- MODULE EvmRunnerProofs ---------------------------
(***************************************************************************)
(* Proofs about EvmRunner, for every chain, number of attempts and faults. *)
(***************************************************************************)
EXTENDS EvmRunner, TLAPS

(* A candidate is in hand exactly between its verdict and its writes, and  *)
(* there is a range only inside a session.                                 *)
CurOK ==
    /\ pc \in {"alert", "schedule", "settle"} <=> cur # None
    /\ session = "none" => scanTo = 0
    /\ pc \in {"idle", "rechecks", "down"} => session = "none"
    /\ pc \in {"scan", "candidates"} => session # "none"
    /\ session # "none" /\ pc # "scan" => scanTo # 0

(***************************************************************************)
(* What an error leaves behind.                                            *)
(***************************************************************************)
LEMMA CircuitTyped ==
    ASSUME NEW c \in Circuit
    PROVE  /\ ClosedCircuit \in Circuit
           /\ Admitted(c) \in Circuit
           /\ Limited(c) \in Circuit
           /\ Errored(c) \in Circuit
  BY DEF Circuit, ClosedCircuit, Admitted, Limited, Errored

LEMMA BreakerTyped ==
    ASSUME NEW b \in Breaker, NEW probe \in BOOLEAN
    PROVE  /\ ClosedBreaker \in Breaker
           /\ b.probing \in BOOLEAN
           /\ Entered(b) \in Breaker
           /\ PrimaryDone(b, probe) \in Breaker
           /\ PrimaryFailed(b, probe) \in Breaker
           /\ PrimaryThrew(b, probe) \in Breaker
  BY DEF Breaker, ClosedBreaker, Entered, PrimaryDone, PrimaryFailed, PrimaryThrew

LEMMA Thrown_Ends ==
    ASSUME TypeOK, NEW net \in BOOLEAN, Thrown(net)
    PROVE  /\ pc' \in {"idle", "down", "scan"}
           /\ session' \in {"none", "primary", "fallback"}
           /\ scanTo' = 0
           /\ todo' = {}
           /\ cur' = None
           /\ due' \subseteq due
           /\ mode' = mode
           /\ breaker' \in Breaker
           /\ pc' = "scan" <=> session' # "none"
  BY BreakerTyped DEF Thrown, GivenUp, Stop, TypeOK

LEMMA Answered_Ends ==
    ASSUME TypeOK, Answered
    PROVE  /\ pc' = "idle"
           /\ session' = "none"
           /\ scanTo' = 0
           /\ todo' = {}
           /\ cur' = None
           /\ due' = {}
           /\ mode' = mode
           /\ breaker' \in Breaker
  BY BreakerTyped DEF Answered, Stop, TypeOK, Breaker

LEMMA Fault_Counts ==
    ASSUME TypeOK, NEW k, Fault(k)
    PROVE  faults' \in 0 .. MaxFaults
  BY EvmAssumption DEF Fault, TypeOK

LEMMA Analysis_Typed ==
    ASSUME TypeOK
    PROVE  /\ Analyzed => circuit' \in Circuit /\ told' \in Nat
           /\ AnalysisFails => circuit' \in Circuit /\ told' \in Nat
  BY CircuitTyped DEF Analyzed, AnalysisFails, TypeOK

-----------------------------------------------------------------------------
(***************************************************************************)
(* Type correctness.                                                       *)
(***************************************************************************)
LEMMA WriteFails_Type ==
    ASSUME TypeOK, WriteFails, circuit' \in Circuit, told' \in Nat
    PROVE  TypeOK'
  <1>1. PICK net \in BOOLEAN : Thrown(net)
    BY DEF WriteFails
  <1>2. faults' \in 0 .. MaxFaults
    BY Fault_Counts DEF WriteFails
  <1> QED
    BY <1>1, <1>2, Thrown_Ends, EvmAssumption DEF WriteFails, TypeOK, store, chain

LEMMA AnalysisFails_Type ==
    ASSUME TypeOK, AnalysisFails
    PROVE  TypeOK'
  <1>1. PICK net \in BOOLEAN : Thrown(net)
    BY DEF AnalysisFails
  <1>2. circuit' \in Circuit /\ told' \in Nat
    BY Analysis_Typed
  <1> QED
    BY <1>1, <1>2, Thrown_Ends, EvmAssumption DEF AnalysisFails, TypeOK, store, chain

LEMMA Rechecked_Type ==
    ASSUME TypeOK, NEW c \in Candidate, NEW check \in Check, Rechecked(c, check),
           circuit' \in Circuit, told' \in Nat
    PROVE  TypeOK'
  BY DEF Rechecked, TypeOK, chain

LEMMA Checks_Typed ==
    ASSUME NEW check \in Check
    PROVE  /\ NoCheck \in Check
           /\ FreshCheck \in Check
           /\ Ended(check) \in Check
           /\ check.attempts + 1 < MaxAttempts => NextSlot(check) \in Check
  BY EvmAssumption DEF Check, NoCheck, FreshCheck, Ended, NextSlot

LEMMA Recheck_Type ==
    ASSUME TypeOK, NEW c \in Candidate, Recheck(c)
    PROVE  TypeOK'
  <1>0. checks[c] \in Check
    BY DEF TypeOK
  <1>1. CASE PutOff(c)
    BY <1>0, <1>1, Rechecked_Type DEF PutOff, UntouchedCircuit, TypeOK
  <1>2. CASE TooOld(c)
    <2>1. Ended(checks[c]) \in Check
      BY <1>0, Checks_Typed
    <2> QED
      BY <1>2, <2>1, Rechecked_Type DEF TooOld, UntouchedCircuit, TypeOK
  <1>3. CASE Reported(c)
    <2>1. Ended(checks[c]) \in Check
      BY <1>0, Checks_Typed
    <2>2. checks[c].attempts + 1 < MaxAttempts => NextSlot(checks[c]) \in Check
      BY <1>0, Checks_Typed
    <2>3. circuit' \in Circuit /\ told' \in Nat
      BY <1>3, Analysis_Typed DEF Reported
    <2> QED
      BY <1>3, <2>1, <2>2, <2>3, Rechecked_Type DEF Reported
  <1>4. CASE RecheckAlerts(c)
    <2>1. circuit' \in Circuit /\ told' \in Nat
      BY <1>4, Analysis_Typed DEF RecheckAlerts
    <2> QED
      BY <1>4, <2>1 DEF RecheckAlerts, TypeOK, store, chain
  <1>5. CASE RecheckFails(c)
    BY <1>5, AnalysisFails_Type DEF RecheckFails
  <1>6. CASE WriteFails /\ UntouchedCircuit
    BY <1>6, WriteFails_Type DEF UntouchedCircuit, TypeOK
  <1> QED
    BY <1>1, <1>2, <1>3, <1>4, <1>5, <1>6 DEF Recheck

LEMMA Handle_Type ==
    ASSUME TypeOK, NEW c \in Candidate, Handle(c)
    PROVE  TypeOK'
  <1>1. CASE Skip(c)
    BY <1>1 DEF Skip, Marked, UntouchedCircuit, TypeOK, chain
  <1>2. CASE Quiet(c)
    BY <1>2, Analysis_Typed DEF Quiet, Marked, TypeOK, chain
  <1>3. CASE Act(c)
    BY <1>3, Analysis_Typed DEF Act, TypeOK, store, chain
  <1>4. CASE AnalysisFails
    BY <1>4, AnalysisFails_Type
  <1>5. CASE WriteFails /\ UntouchedCircuit
    BY <1>5, WriteFails_Type DEF UntouchedCircuit, TypeOK
  <1>6. CASE Analyzed /\ WriteFails
    BY <1>6, WriteFails_Type, Analysis_Typed
  <1> QED
    BY <1>1, <1>2, <1>3, <1>4, <1>5, <1>6 DEF Handle

LEMMA Scan_Type ==
    ASSUME TypeOK, Scan
    PROVE  TypeOK'
  <1>1. PICK h \in 0 .. head :
           /\ \/ h = head /\ UNCHANGED faults
              \/ h < head /\ Fault("lag")
           /\ IF h = 0 \/ From(h) > h
                THEN Answered
                ELSE /\ pc' = "candidates"
                     /\ scanTo' = h
                     /\ todo' = CandidatesIn(From(h), h)
                     /\ UNCHANGED <<mode, due, session, cur, breaker>>
    BY DEF Scan
  <1>2. h \in 0 .. LastBlock
    BY EvmAssumption DEF TypeOK
  <1>3. faults' \in 0 .. MaxFaults
    BY <1>1, Fault_Counts DEF TypeOK
  <1>4. CASE Answered
    BY <1>3, <1>4, Answered_Ends, EvmAssumption DEF Scan, TypeOK, store, chain
  <1>5. CASE /\ pc' = "candidates"
             /\ scanTo' = h
             /\ todo' = CandidatesIn(From(h), h)
             /\ UNCHANGED <<mode, due, session, cur, breaker>>
    BY <1>2, <1>3, <1>5 DEF Scan, CandidatesIn, TypeOK, store, chain
  <1> QED
    BY <1>1, <1>4, <1>5

LEMMA ScanFails_Type ==
    ASSUME TypeOK, ScanFails
    PROVE  TypeOK'
  <1>1. PICK net \in BOOLEAN :
           /\ \/ session = "primary" /\ HasFallback /\ net /\ UNCHANGED faults
              \/ Fault("discovery")
           /\ Thrown(net)
    BY DEF ScanFails
  <1>2. faults' \in 0 .. MaxFaults
    BY <1>1, Fault_Counts DEF TypeOK
  <1> QED
    BY <1>1, <1>2, Thrown_Ends, EvmAssumption DEF ScanFails, TypeOK, store, chain

LEMMA Told_Typed ==
    ASSUME TypeOK, CurOK, pc = "alert", alerts' = [alerts EXCEPT ![cur] = @ + 1]
    PROVE  alerts' \in [Candidate -> Nat]
  <1>1. cur \in Candidate /\ alerts \in [Candidate -> Nat]
    BY DEF TypeOK, CurOK
  <1>2. alerts[cur] + 1 \in Nat
    BY <1>1
  <1> QED
    BY <1>1, <1>2

LEMMA Session_Type ==
    ASSUME TypeOK, CurOK,
           Poll \/ StartSession \/ Advance \/ Alert \/ AckLost \/ Schedule \/ Settle
    PROVE  TypeOK'
  <1>1. CASE Poll
    BY <1>1 DEF Poll, TypeOK, store, chain, history
  <1>2. CASE StartSession
    BY <1>2, BreakerTyped DEF StartSession, TypeOK, store, chain, history, Breaker
  <1>3. CASE Advance
    <2>1. CASE WriteFails /\ UntouchedCircuit
      BY <2>1, WriteFails_Type DEF UntouchedCircuit, TypeOK
    <2>2. CASE /\ cursor' = scanTo
               /\ base' = IF base = 0 THEN scanTo ELSE base
               /\ Answered
               /\ UNCHANGED <<seen, checks, circuit, chain, alerts, told, faults>>
      BY <2>2, Answered_Ends, EvmAssumption DEF TypeOK, chain
    <2> QED
      BY <1>3, <2>1, <2>2 DEF Advance
  <1>4. CASE Alert
    <2>1. CASE /\ alerts' = [alerts EXCEPT ![cur] = @ + 1]
               /\ pc' = "settle"
               /\ UNCHANGED <<mode, due, session, scanTo, todo, cur, breaker>>
      BY <1>4, <2>1, Told_Typed DEF Alert, TypeOK, store, chain
    <2>2. CASE \E net \in BOOLEAN : Thrown(net) /\ UNCHANGED alerts
      BY <1>4, <2>2, Thrown_Ends, EvmAssumption DEF Alert, TypeOK, store, chain
    <2> QED
      BY <1>4, <2>1, <2>2 DEF Alert
  <1>5. CASE AckLost
    BY <1>5, Fault_Counts, Told_Typed DEF AckLost, TypeOK, store, poll, chain
  <1>6. CASE Schedule
    <2>1. CASE WriteFails /\ UntouchedCircuit
      BY <2>1, WriteFails_Type DEF UntouchedCircuit, TypeOK
    <2>2. CASE /\ checks' = IF checks[cur].status # "none" THEN checks
                            ELSE [checks EXCEPT ![cur] = FreshCheck]
               /\ pc' = "settle"
               /\ UNCHANGED <<seen, cursor, mode, due, session, scanTo, todo, cur,
                              breaker, circuit, chain, history>>
      <3>1. FreshCheck \in Check
        BY EvmAssumption DEF Check, FreshCheck
      <3> QED
        BY <2>2, <3>1 DEF TypeOK, chain, history
    <2> QED
      BY <1>6, <2>1, <2>2 DEF Schedule
  <1>7. CASE Settle
    <2>1. CASE WriteFails /\ UntouchedCircuit
      BY <2>1, WriteFails_Type DEF UntouchedCircuit, TypeOK
    <2>2. CASE /\ session = "none"
               /\ checks' = [checks EXCEPT ![cur] = Ended(checks[cur])]
               /\ pc' = "rechecks"
               /\ UNCHANGED seen
               /\ cur' = None
               /\ UNCHANGED <<cursor, mode, due, session, scanTo, todo, breaker, circuit,
                              chain, history>>
      <3>1. CASE cur \in Candidate
        <4>1. Ended(checks[cur]) \in Check
          BY <3>1, Checks_Typed DEF TypeOK
        <4> QED
          BY <2>2, <4>1 DEF TypeOK, chain, history
      <3>2. CASE cur \notin Candidate
        <4>1. checks' = checks
          BY <2>2, <3>2 DEF TypeOK
        <4> QED
          BY <2>2, <4>1 DEF TypeOK, chain, history
      <3> QED
        BY <3>1, <3>2
    <2>3. CASE /\ session # "none"
               /\ pc = "settle"
               /\ seen' = seen \cup {cur}
               /\ pc' = "candidates"
               /\ UNCHANGED checks
               /\ cur' = None
               /\ UNCHANGED <<cursor, mode, due, session, scanTo, todo, breaker, circuit,
                              chain, history>>
      BY <2>3 DEF CurOK, TypeOK, chain, history
    <2> QED
      BY <1>7, <2>1, <2>2, <2>3 DEF Settle
  <1> QED
    BY <1>1, <1>2, <1>3, <1>4, <1>5, <1>6, <1>7

LEMMA Env_Type ==
    ASSUME TypeOK, Crash \/ Exit \/ BreakerCools \/ CircuitCools \/ NewBlock \/ AgeWindow
    PROVE  TypeOK'
  <1>1. CASE Crash \/ Exit
    <2>1. ClosedBreaker \in Breaker /\ ClosedCircuit \in Circuit
      BY DEF Breaker, ClosedBreaker, Circuit, ClosedCircuit
    <2>2. faults' \in 0 .. MaxFaults
      BY <1>1, Fault_Counts DEF Crash, Exit, TypeOK
    <2>3. Restarted
      BY <1>1 DEF Crash, Exit
    <2>4. 0 \in 0 .. LastBlock
      BY EvmAssumption
    <2> QED
      BY <2>1, <2>2, <2>3, <2>4 DEF Restarted, Stop, TypeOK, store, chain
  <1>2. CASE BreakerCools
    BY <1>2 DEF BreakerCools, TypeOK, store, poll, chain, history, Breaker
  <1>3. CASE CircuitCools
    BY <1>3 DEF CircuitCools, TypeOK, store, poll, chain, history, Circuit
  <1>4. CASE NewBlock
    BY <1>4, EvmAssumption DEF NewBlock, TypeOK, store, poll, history
  <1>5. CASE AgeWindow
    BY <1>5, EvmAssumption DEF AgeWindow, TypeOK, store, poll, history
  <1> QED
    BY <1>1, <1>2, <1>3, <1>4, <1>5

LEMMA Expire_Type ==
    ASSUME TypeOK, NEW c \in Candidate, ExpireSeen(c)
    PROVE  TypeOK'
  BY DEF ExpireSeen, TypeOK, poll, chain, history

LEMMA Next_Type ==
    ASSUME TypeOK, CurOK, Next
    PROVE  TypeOK'
  BY Recheck_Type, Handle_Type, Scan_Type, ScanFails_Type, Session_Type, Env_Type,
     Expire_Type DEF Next, Step

LEMMA Init_Type == Init => TypeOK /\ CurOK
  <1> SUFFICES ASSUME Init PROVE TypeOK /\ CurOK
    OBVIOUS
  <1>1. NoCheck \in Check
    BY EvmAssumption DEF Check, NoCheck
  <1>2. ClosedBreaker \in Breaker /\ ClosedCircuit \in Circuit
    BY DEF Breaker, ClosedBreaker, Circuit, ClosedCircuit
  <1>3. checks \in [Candidate -> Check] /\ alerts \in [Candidate -> Nat]
    BY <1>1 DEF Init
  <1>4. 0 \in 0 .. LastBlock /\ 1 \in 1 .. LastBlock + 1 /\ 0 \in 0 .. MaxFaults
    BY EvmAssumption
  <1> QED
    BY <1>2, <1>3, <1>4 DEF Init, TypeOK, CurOK

-----------------------------------------------------------------------------
(***************************************************************************)
(* Every failure gives the range up and leaves the state file as it is.    *)
(***************************************************************************)
GivesUp ==
    /\ pc' \in {"idle", "down", "scan"}
    /\ scanTo' = 0
    /\ todo' = {}
    /\ cur' = None
    /\ due' \subseteq due
    /\ pc' = "scan" <=> session' # "none"
    /\ UNCHANGED <<seen, cursor, checks, mode, window, alerts, base>>

LEMMA Failure_GivesUp ==
    ASSUME TypeOK,
           \/ WriteFails
           \/ AnalysisFails
           \/ ScanFails
           \/ Crash
           \/ Exit
    PROVE  GivesUp
  <1>1. CASE WriteFails
    BY <1>1, Thrown_Ends DEF WriteFails, GivesUp, store, chain
  <1>2. CASE AnalysisFails
    BY <1>2, Thrown_Ends DEF AnalysisFails, GivesUp, store, chain
  <1>3. CASE ScanFails
    BY <1>3, Thrown_Ends DEF ScanFails, GivesUp, store, chain
  <1>4. CASE Crash \/ Exit
    BY <1>4 DEF Crash, Exit, Restarted, Stop, GivesUp, store, chain
  <1> QED
    BY <1>1, <1>2, <1>3, <1>4

(* A message that could not be sent is a failure like any other.           *)
Delivered ==
    /\ pc = "alert"
    /\ alerts' = [alerts EXCEPT ![cur] = @ + 1]
    /\ pc' = "settle"
    /\ UNCHANGED <<store, mode, due, session, scanTo, todo, cur, breaker, circuit, chain,
                   told, base, faults>>

LEMMA Alert_Splits ==
    ASSUME TypeOK, Alert
    PROVE  GivesUp \/ Delivered
  <1>1. CASE \E net \in BOOLEAN : Thrown(net) /\ UNCHANGED alerts
    BY <1>1, Thrown_Ends DEF Alert, GivesUp, store, chain
  <1> QED
    BY <1>1 DEF Alert, Delivered

(***************************************************************************)
(* The step that succeeds, of each action that may also fail.              *)
(***************************************************************************)
Rested(c) ==
    /\ c \in due
    /\ \E check \in {checks[c], Ended(checks[c]), NextSlot(checks[c])} : Rechecked(c, check)

Succeeds ==
    \/ Poll
    \/ \E c \in Candidate : pc = "rechecks" /\ Rested(c)
    \/ \E c \in Candidate : pc = "rechecks" /\ c \in due /\ RecheckAlerts(c)
    \/ StartSession
    \/ Scan
    \/ \E c \in Candidate : pc = "candidates" /\ Marked(c)
    \/ \E c \in Candidate : pc = "candidates" /\ c \in todo \ seen /\ Act(c)
    \/ Advance /\ cursor' = scanTo /\ base' = (IF base = 0 THEN scanTo ELSE base)
               /\ Answered /\ UNCHANGED <<seen, checks, chain, alerts, faults>>
    \/ Delivered
    \/ AckLost
    \/ Schedule /\ checks' = (IF checks[cur].status # "none" THEN checks
                               ELSE [checks EXCEPT ![cur] = FreshCheck])
                /\ pc' = "settle"
                /\ UNCHANGED <<seen, cursor, mode, due, session, scanTo, todo, cur, chain,
                               history>>
    \/ /\ pc = "settle"
       /\ session = "none"
       /\ checks' = [checks EXCEPT ![cur] = Ended(checks[cur])]
       /\ pc' = "rechecks"
       /\ cur' = None
       /\ UNCHANGED <<seen, cursor, mode, due, session, scanTo, todo, chain, history>>
    \/ /\ pc = "settle"
       /\ session # "none"
       /\ seen' = seen \cup {cur}
       /\ pc' = "candidates"
       /\ cur' = None
       /\ UNCHANGED <<cursor, checks, mode, due, session, scanTo, todo, chain, history>>
    \/ BreakerCools
    \/ CircuitCools
    \/ NewBlock
    \/ AgeWindow
    \/ \E c \in Candidate : ExpireSeen(c)

LEMMA Next_Splits ==
    ASSUME TypeOK, Next
    PROVE  GivesUp \/ Succeeds
  <1>1. ASSUME NEW c \in Candidate, Recheck(c)
        PROVE  GivesUp \/ Succeeds
    BY <1>1, Failure_GivesUp
       DEF Recheck, PutOff, TooOld, Reported, RecheckFails, Succeeds, Rested
  <1>2. ASSUME NEW c \in Candidate, Handle(c)
        PROVE  GivesUp \/ Succeeds
    BY <1>2, Failure_GivesUp DEF Handle, Skip, Quiet, Succeeds
  <1>3. ASSUME Advance
        PROVE  GivesUp \/ Succeeds
    BY <1>3, Failure_GivesUp DEF Advance, Succeeds
  <1>4. ASSUME Schedule
        PROVE  GivesUp \/ Succeeds
    BY <1>4, Failure_GivesUp DEF Schedule, Succeeds
  <1>5. ASSUME Settle
        PROVE  GivesUp \/ Succeeds
    BY <1>5, Failure_GivesUp DEF Settle, Succeeds
  <1>6. ASSUME Alert
        PROVE  GivesUp \/ Succeeds
    BY <1>6, Alert_Splits DEF Succeeds
  <1> QED
    BY <1>1, <1>2, <1>3, <1>4, <1>5, <1>6, Failure_GivesUp DEF Next, Step, Succeeds

-----------------------------------------------------------------------------
(***************************************************************************)
(* The cursor.                                                             *)
(***************************************************************************)
Covered(c) == c \in seen \/ Aged(c)

(* The range in progress lies after the cursor, and what it holds is       *)
(* covered, still to be handled, or in hand.                               *)
RangeOK ==
    /\ CurOK
    /\ scanTo # 0 => cursor < scanTo
    /\ \A c \in Candidate : BlockOf[c] <= scanTo => Covered(c) \/ c \in todo \/ c = cur
    /\ CursorCoversCandidates

(* Covered candidates stay covered, and time only moves forward.           *)
LEMMA Covered_Stays ==
    ASSUME TypeOK, TypeOK', Succeeds \/ GivesUp, NEW c \in Candidate, Covered(c)
    PROVE  Covered(c)'
  <1>1. PICK b \in Nat : BlockOf[c] = b
    BY EvmAssumption
  <1>2. PICK w \in Nat, w1 \in Nat : window = w /\ window' = w1 /\ w1 >= w
    BY EvmAssumption
       DEF TypeOK, Succeeds, GivesUp, Poll, Rechecked, RecheckAlerts, StartSession, Scan, Marked,
           Act, Delivered, AckLost, BreakerCools, CircuitCools, NewBlock, AgeWindow,
           ExpireSeen, store, poll, chain, history, Rested
  <1>3. Aged(c) => Aged(c)'
    BY <1>1, <1>2 DEF Aged
  <1>4. Aged(c) \/ c \in seen'
    BY DEF Covered, Succeeds, GivesUp, Poll, Rechecked, RecheckAlerts, StartSession, Scan, Marked,
           Act, Delivered, AckLost, BreakerCools, CircuitCools, NewBlock, AgeWindow,
           ExpireSeen, store, poll, chain, history, Rested
  <1> QED
    BY <1>3, <1>4 DEF Covered

LEMMA Range_GivesUp ==
    ASSUME TypeOK, TypeOK', RangeOK, GivesUp
    PROVE  RangeOK'
  <1>1. CurOK'
    BY DEF CurOK, GivesUp
  <1>2. \A c \in Candidate : ~(BlockOf[c] <= scanTo')
    BY EvmAssumption DEF GivesUp
  <1>3. CursorCoversCandidates'
    BY Covered_Stays DEF RangeOK, CursorCoversCandidates, GivesUp, Covered
  <1> QED
    BY <1>1, <1>2, <1>3 DEF RangeOK, GivesUp

(* A step that leaves the cursor and the range as they are keeps what they *)
(* cover if every candidate it takes from the range ends up somewhere.     *)
LEMMA Range_Kept ==
    ASSUME TypeOK, TypeOK', RangeOK, Succeeds, CurOK',
           cursor' = cursor, scanTo' = scanTo,
           \A c \in Candidate : c \in todo \/ c = cur =>
               c \in todo' \/ c = cur' \/ c \in seen'
    PROVE  RangeOK'
  <1>1. ASSUME NEW c \in Candidate, BlockOf[c] <= scanTo
        PROVE  Covered(c)' \/ c \in todo' \/ c = cur'
    <2>1. CASE Covered(c)
      BY <2>1, Covered_Stays
    <2>2. CASE c \in todo \/ c = cur
      BY <2>2 DEF Covered
    <2> QED
      BY <1>1, <2>1, <2>2 DEF RangeOK
  <1>2. CursorCoversCandidates'
    BY Covered_Stays DEF RangeOK, CursorCoversCandidates, Covered
  <1> QED
    BY <1>1, <1>2 DEF RangeOK

LEMMA Range_Ended ==
    ASSUME TypeOK, TypeOK', RangeOK, Succeeds, cursor' = cursor, Answered
    PROVE  RangeOK'
  <1>1. CurOK' /\ scanTo' = 0
    BY Answered_Ends DEF CurOK
  <1>2. \A c \in Candidate : ~(BlockOf[c] <= scanTo')
    BY <1>1, EvmAssumption
  <1>3. CursorCoversCandidates'
    BY Covered_Stays DEF RangeOK, CursorCoversCandidates, Covered
  <1> QED
    BY <1>1, <1>2, <1>3 DEF RangeOK

LEMMA Range_Scanned ==
    ASSUME TypeOK, TypeOK', RangeOK, Scan
    PROVE  RangeOK'
  <1>0. Succeeds
    BY DEF Succeeds
  <1>1. CASE Answered
    BY <1>0, <1>1, Range_Ended DEF Scan, store
  <1>2. CASE ~Answered
    <2>1. PICK h \in 0 .. head :
             /\ h # 0
             /\ ~(From(h) > h)
             /\ pc' = "candidates"
             /\ scanTo' = h
             /\ todo' = CandidatesIn(From(h), h)
             /\ cur' = cur
             /\ session' = session
      BY <1>2 DEF Scan
    <2>2. UNCHANGED <<seen, cursor, window>>
      BY DEF Scan, store, chain
    <2>3. h \in Nat /\ cursor \in Nat /\ window \in Nat
      BY EvmAssumption DEF TypeOK
    <2>4. cursor < h
      BY <2>1, <2>3 DEF From, CandidatesIn
    <2>5. CurOK'
      BY <2>1 DEF CurOK, RangeOK, Scan
    <2>6. ASSUME NEW c \in Candidate, BlockOf[c] <= h
          PROVE  Covered(c) \/ c \in todo'
      <3>1. BlockOf[c] \in Nat /\ BlockOf[c] >= 1
        BY EvmAssumption
      <3>2. CASE cursor # 0
        <4>1. CASE BlockOf[c] <= cursor
          BY <4>1 DEF RangeOK, CursorCoversCandidates, Covered
        <4>2. CASE BlockOf[c] > cursor
          BY <2>1, <2>3, <2>6, <3>1, <3>2, <4>2 DEF From, CandidatesIn
        <4> QED
          BY <2>3, <3>1, <4>1, <4>2
      <3>3. CASE cursor = 0
        <4>1. CASE BlockOf[c] < window
          BY <4>1 DEF Covered, Aged
        <4>2. CASE BlockOf[c] >= window
          BY <2>1, <2>3, <2>6, <3>1, <3>3, <4>2 DEF From, CandidatesIn
        <4> QED
          BY <2>3, <3>1, <4>1, <4>2
      <3> QED
        BY <3>2, <3>3
    <2>7. \A c \in Candidate : Covered(c) => Covered(c)'
      BY <2>2 DEF Covered, Aged
    <2>8. CursorCoversCandidates'
      BY <2>2 DEF RangeOK, CursorCoversCandidates, Aged
    <2> QED
      BY <2>1, <2>2, <2>4, <2>5, <2>6, <2>7, <2>8 DEF RangeOK
  <1> QED
    BY <1>1, <1>2

LEMMA Range_Advanced ==
    ASSUME TypeOK, TypeOK', RangeOK, Advance, cursor' = scanTo, Answered,
           UNCHANGED <<seen, chain>>
    PROVE  RangeOK'
  <1>1. CurOK' /\ scanTo' = 0
    BY Answered_Ends DEF CurOK
  <1>2. \A c \in Candidate : ~(BlockOf[c] <= scanTo')
    BY <1>1, EvmAssumption
  <1>3. cur = None
    BY DEF Advance, RangeOK, CurOK
  <1>4. ASSUME NEW c \in Candidate, BlockOf[c] <= scanTo
        PROVE  Covered(c)
    BY <1>3, <1>4, EvmAssumption DEF Advance, RangeOK, Covered
  <1>5. CursorCoversCandidates'
    BY <1>4 DEF CursorCoversCandidates, Covered, Aged, chain
  <1> QED
    BY <1>1, <1>2, <1>5 DEF RangeOK

LEMMA Range_Step ==
    ASSUME TypeOK, TypeOK', RangeOK, Succeeds
    PROVE  RangeOK'
  <1>1. CASE Scan
    BY <1>1, Range_Scanned
  <1>2. CASE /\ Advance
             /\ cursor' = scanTo
             /\ Answered
             /\ UNCHANGED <<seen, chain>>
    BY <1>2, Range_Advanced
  <1>3. CASE \E c \in Candidate : pc = "candidates" /\ Marked(c)
    <2>1. CurOK'
      BY <1>3 DEF Marked, RangeOK, CurOK
    <2> QED
      BY <1>3, <2>1, Range_Kept DEF Marked
  <1>4. CASE \E c \in Candidate : pc = "candidates" /\ c \in todo /\ Act(c)
    <2>1. CurOK'
      BY <1>4, EvmAssumption DEF Act, RangeOK, CurOK
    <2>2. cur = None
      BY <1>4 DEF RangeOK, CurOK
    <2> QED
      BY <1>4, <2>1, <2>2, Range_Kept, EvmAssumption DEF Act, store
  <1>5. CASE \E c \in Candidate : pc = "rechecks" /\ c \in due /\ RecheckAlerts(c)
    <2>1. CurOK'
      BY <1>5, EvmAssumption DEF RecheckAlerts, RangeOK, CurOK
    <2>2. cur = None
      BY <1>5 DEF RangeOK, CurOK
    <2> QED
      BY <1>5, <2>1, <2>2, Range_Kept, EvmAssumption DEF RecheckAlerts, store
  <1>6. CASE /\ pc = "settle"
             /\ session # "none"
             /\ seen' = seen \cup {cur}
             /\ pc' = "candidates"
             /\ cur' = None
             /\ UNCHANGED <<cursor, session, scanTo, todo>>
    <2>1. CurOK'
      BY <1>6 DEF RangeOK, CurOK
    <2> QED
      BY <1>6, <2>1, Range_Kept
  <1>7. CASE /\ pc = "settle"
             /\ session = "none"
             /\ pc' = "rechecks"
             /\ cur' = None
             /\ UNCHANGED <<seen, cursor, session, scanTo, todo>>
    <2>1. CurOK' /\ scanTo = 0
      BY <1>7 DEF RangeOK, CurOK
    <2>2. \A c \in Candidate : ~(BlockOf[c] <= scanTo')
      BY <1>7, <2>1, EvmAssumption
    <2>3. CursorCoversCandidates'
      BY <1>7, Covered_Stays DEF RangeOK, CursorCoversCandidates, Covered
    <2> QED
      BY <1>7, <2>1, <2>2, <2>3 DEF RangeOK
  <1>8. ASSUME UNCHANGED <<cursor, scanTo, todo, cur>>, CurOK'
        PROVE  RangeOK'
    BY <1>8, Range_Kept
  <1>9. CASE Poll \/ StartSession
    BY <1>8, <1>9 DEF Poll, StartSession, store, RangeOK, CurOK
  <1>10. CASE \E c \in Candidate : pc = "rechecks" /\ Rested(c)
    BY <1>8, <1>10 DEF Rested, Rechecked, RangeOK, CurOK
  <1>11. CASE Delivered \/ AckLost
    BY <1>8, <1>11 DEF Delivered, AckLost, store, poll, RangeOK, CurOK
  <1>12. CASE /\ Schedule
              /\ pc' = "settle"
              /\ UNCHANGED <<cursor, session, scanTo, todo, cur>>
    BY <1>8, <1>12 DEF Schedule, RangeOK, CurOK
  <1>13. CASE BreakerCools \/ CircuitCools \/ NewBlock \/ AgeWindow
    BY <1>8, <1>13
       DEF BreakerCools, CircuitCools, NewBlock, AgeWindow, store, poll, RangeOK, CurOK
  <1>14. CASE \E c \in Candidate : ExpireSeen(c)
    BY <1>8, <1>14 DEF ExpireSeen, poll, RangeOK, CurOK
  <1> QED
    BY <1>1, <1>2, <1>3, <1>4, <1>5, <1>6, <1>7, <1>9, <1>10, <1>11, <1>12, <1>13, <1>14
       DEF Succeeds

(***************************************************************************)
(* The inductive invariant of the cursor.                                  *)
(***************************************************************************)
CursorInv == TypeOK /\ RangeOK

LEMMA Cursor_Init == Init => CursorInv
  <1> SUFFICES ASSUME Init PROVE CursorInv
    OBVIOUS
  <1>1. \A c \in Candidate : ~(BlockOf[c] <= 0)
    BY EvmAssumption
  <1> QED
    BY <1>1, Init_Type DEF Init, CursorInv, RangeOK, CursorCoversCandidates

LEMMA Cursor_Next == CursorInv /\ [Next]_vars => CursorInv'
  <1> SUFFICES ASSUME CursorInv, [Next]_vars PROVE CursorInv'
    OBVIOUS
  <1>1. CASE Next
    <2>1. TypeOK'
      BY <1>1, Next_Type DEF CursorInv, RangeOK
    <2> QED
      BY <1>1, <2>1, Next_Splits, Range_GivesUp, Range_Step DEF CursorInv
  <1>2. CASE UNCHANGED vars
    BY <1>2
       DEF vars, CursorInv, TypeOK, RangeOK, CurOK, Covered, Aged, CursorCoversCandidates
  <1> QED
    BY <1>1, <1>2

LEMMA Cursor_Always == Spec => []CursorInv
  BY Cursor_Init, Cursor_Next, PTL DEF Spec

(* Every variable keeps its type, for every chain, number of attempts and  *)
(* number of faults; no recheck uses more slots than it has.               *)
THEOREM EvmTypeCorrect == Spec => []TypeOK
  <1>1. CursorInv => TypeOK
    BY DEF CursorInv
  <1> QED
    BY <1>1, Cursor_Always, PTL

(* The cursor written by runEvmRangeOnce never passes a candidate that was *)
(* neither marked seen nor too old, whatever fails and whichever node      *)
(* answers.                                                                *)
THEOREM EvmCursorSafe == Spec => []CursorCoversCandidates
  <1>1. CursorInv => CursorCoversCandidates
    BY DEF CursorInv, RangeOK
  <1> QED
    BY <1>1, Cursor_Always, PTL

(* The range handed to setOnchainCursor ends after the cursor, although a  *)
(* node may answer with an older head than the one before.                 *)
THEOREM EvmRangeAhead == Spec => []RangeAhead
  <1>1. CursorInv => RangeAhead
    BY DEF CursorInv, RangeOK, CurOK, RangeAhead
  <1> QED
    BY <1>1, Cursor_Always, PTL

-----------------------------------------------------------------------------
(***************************************************************************)
(* The first range.                                                        *)
(***************************************************************************)
Later(c) == base # 0 /\ base < BlockOf[c]

(* Once there is a cursor, whatever may lead to a message lies after the   *)
(* first range: a candidate of the range, one in hand, and a recheck.      *)
SilenceOK ==
    /\ base = 0 <=> cursor = 0
    /\ base <= cursor
    /\ mode = "live" => cursor # 0
    /\ \A c \in todo : cursor # 0 => Later(c)
    /\ \A c \in Candidate : checks[c].status # "none" => Later(c)
    /\ \A c \in due : checks[c].status # "none"
    /\ cur # None => Later(cur)
    /\ SilentFirstRange

LEMMA Silence_GivesUp ==
    ASSUME TypeOK, SilenceOK, GivesUp
    PROVE  SilenceOK'
  BY DEF SilenceOK, SilentFirstRange, GivesUp, Later

LEMMA Silence_Kept ==
    ASSUME TypeOK, SilenceOK,
           UNCHANGED <<base, cursor, mode, checks, alerts>>,
           todo' \subseteq todo, due' \subseteq due,
           cur' # None => Later(cur')
    PROVE  SilenceOK'
  BY DEF SilenceOK, SilentFirstRange, Later

LEMMA Silence_Scan ==
    ASSUME TypeOK, SilenceOK, Scan
    PROVE  SilenceOK'
  <1>1. CASE Answered
    BY <1>1, Silence_Kept, Answered_Ends DEF Scan, store
  <1>2. CASE ~Answered
    <2>1. PICK h \in 0 .. head :
             /\ todo' = CandidatesIn(From(h), h)
             /\ UNCHANGED <<mode, due, cur>>
      BY <1>2 DEF Scan
    <2>2. base \in Nat /\ cursor \in Nat /\ h \in Nat
      BY EvmAssumption DEF TypeOK
    <2>3. ASSUME NEW c \in todo', cursor # 0
          PROVE  Later(c)
      <3>1. BlockOf[c] \in Nat /\ BlockOf[c] >= cursor + 1
        BY <2>1, <2>2, <2>3, EvmAssumption DEF From, CandidatesIn
      <3> QED
        BY <2>2, <2>3, <3>1 DEF SilenceOK, Later
    <2> QED
      BY <2>1, <2>3 DEF Scan, store, SilenceOK, SilentFirstRange, Later
  <1> QED
    BY <1>1, <1>2

LEMMA Silence_Advance ==
    ASSUME TypeOK, CurOK, SilenceOK, Advance, cursor' = scanTo, Answered,
           base' = IF base = 0 THEN scanTo ELSE base,
           UNCHANGED <<checks, alerts>>, scanTo # 0 => cursor < scanTo
    PROVE  SilenceOK'
  <1>1. PICK to \in Nat, k \in Nat, b \in Nat : scanTo = to /\ cursor = k /\ base = b
    BY EvmAssumption DEF TypeOK
  <1>2. to # 0 /\ k < to
    BY <1>1 DEF Advance, CurOK
  <1>3. todo' = {} /\ due' = {} /\ cur' = None /\ mode' = mode
    BY Answered_Ends
  <1>4. ASSUME NEW c, Later(c)
        PROVE  Later(c)'
    BY <1>4 DEF Later
  <1>5. (base = 0 <=> cursor = 0)' /\ (base <= cursor)' /\ cursor' # 0
    BY <1>1, <1>2 DEF SilenceOK
  <1>6. \A c \in Candidate : checks[c].status # "none" => Later(c)'
    BY <1>4 DEF SilenceOK
  <1>7. SilentFirstRange'
    BY <1>4 DEF SilenceOK, SilentFirstRange, Later
  <1> QED
    BY <1>3, <1>5, <1>6, <1>7 DEF SilenceOK

LEMMA Silence_Message ==
    ASSUME TypeOK, CurOK, SilenceOK, pc = "alert",
           alerts' = [alerts EXCEPT ![cur] = @ + 1],
           UNCHANGED <<base, cursor, mode, checks, due, todo, cur>>
    PROVE  SilenceOK'
  <1>1. Later(cur) /\ cur \in Candidate
    BY DEF CurOK, TypeOK, SilenceOK
  <1>2. \A c \in Candidate : c # cur => alerts'[c] = alerts[c]
    BY DEF TypeOK
  <1>3. SilentFirstRange'
    BY <1>1, <1>2 DEF SilenceOK, SilentFirstRange, Later
  <1> QED
    BY <1>3 DEF SilenceOK, Later

LEMMA Silence_Checks ==
    ASSUME TypeOK, SilenceOK,
           UNCHANGED <<base, cursor, mode, alerts, todo>>, due' \subseteq due,
           cur' # None => Later(cur'),
           NEW c \in Candidate, Later(c), NEW check \in Check, check.status # "none",
           checks' = [checks EXCEPT ![c] = check]
    PROVE  SilenceOK'
  <1>1. \A d \in Candidate : checks'[d] = IF d = c THEN check ELSE checks[d]
    BY DEF TypeOK
  <1>2. due \subseteq Candidate
    BY DEF TypeOK
  <1> QED
    BY <1>1, <1>2 DEF SilenceOK, SilentFirstRange, Later

LEMMA Silence_Step ==
    ASSUME TypeOK, RangeOK, SilenceOK, Succeeds
    PROVE  SilenceOK'
  <1>1. CASE Poll
    <2>1. ASSUME NEW c \in due' PROVE checks[c].status # "none"
      BY <1>1, <2>1 DEF Poll, Pending
    <2> QED
      BY <1>1, <2>1 DEF Poll, store, history, SilenceOK, SilentFirstRange, Later
  <1>2. CASE StartSession
    BY <1>2, Silence_Kept DEF StartSession, store, history, SilenceOK
  <1>3. CASE Scan
    BY <1>3, Silence_Scan
  <1>4. CASE /\ Advance
             /\ cursor' = scanTo
             /\ base' = IF base = 0 THEN scanTo ELSE base
             /\ Answered
             /\ UNCHANGED <<seen, checks, chain, alerts>>
    BY <1>4, Silence_Advance DEF RangeOK
  <1>5. CASE \E c \in Candidate : pc = "candidates" /\ Marked(c)
    BY <1>5, Silence_Kept DEF Marked, SilenceOK
  <1>6. CASE \E c \in Candidate : pc = "candidates" /\ c \in todo /\ Act(c)
    <2>1. PICK c \in todo : Act(c)
      BY <1>6
    <2>2. Later(c)
      BY <2>1 DEF Act, SilenceOK
    <2> QED
      BY <2>1, <2>2, Silence_Kept DEF Act, store
  <1>7. CASE \E c \in Candidate : pc = "rechecks" /\ c \in due /\ RecheckAlerts(c)
    <2>1. PICK c \in due : c \in Candidate /\ RecheckAlerts(c)
      BY <1>7
    <2>2. Later(c)
      BY <2>1 DEF SilenceOK
    <2> QED
      BY <2>1, <2>2, Silence_Kept DEF RecheckAlerts, store
  <1>8. CASE Delivered \/ AckLost
    BY <1>8, Silence_Message DEF Delivered, AckLost, store, poll, RangeOK
  <1>9. CASE \E c \in Candidate : pc = "rechecks" /\ Rested(c)
    <2>1. PICK c \in Candidate : pc = "rechecks" /\ Rested(c)
      BY <1>9
    <2>2. PICK check \in {checks[c], Ended(checks[c]), NextSlot(checks[c])} :
               Rechecked(c, check)
      BY <2>1 DEF Rested
    <2>3. Later(c) /\ checks[c].status # "none" /\ check.status # "none"
      BY <2>1, <2>2 DEF Rested, SilenceOK, Ended, NextSlot
    <2>4. \A d \in Candidate : checks'[d].status # "none" => checks[d].status # "none"
      BY <2>2, <2>3 DEF Rechecked, TypeOK
    <2>5. \A d \in due' : checks'[d].status # "none"
      BY <2>2, <2>3 DEF Rechecked, TypeOK, SilenceOK
    <2> QED
      BY <2>2, <2>4, <2>5 DEF Rechecked, SilenceOK, SilentFirstRange, Later
  <1>10. CASE /\ Schedule
              /\ checks' = (IF checks[cur].status # "none" THEN checks
                            ELSE [checks EXCEPT ![cur] = FreshCheck])
              /\ UNCHANGED <<cursor, mode, due, todo, cur, history>>
    <2>1. cur \in Candidate /\ Later(cur)
      BY <1>10 DEF Schedule, RangeOK, CurOK, TypeOK, SilenceOK
    <2>2. FreshCheck \in Check /\ FreshCheck.status # "none"
      BY EvmAssumption DEF Check, FreshCheck
    <2>3. CASE checks' = checks
      BY <1>10, <2>3, <2>1, Silence_Kept DEF history
    <2>4. CASE checks' = [checks EXCEPT ![cur] = FreshCheck]
      BY <1>10, <2>1, <2>2, <2>4, Silence_Checks DEF history
    <2> QED
      BY <1>10, <2>3, <2>4
  <1>11. CASE /\ pc = "settle"
              /\ checks' = [checks EXCEPT ![cur] = Ended(checks[cur])]
              /\ cur' = None
              /\ UNCHANGED <<cursor, mode, due, todo, history>>
    <2>1. cur \in Candidate /\ Later(cur)
      BY <1>11 DEF RangeOK, CurOK, TypeOK, SilenceOK
    <2>2. Ended(checks[cur]) \in Check /\ Ended(checks[cur]).status # "none"
      BY <2>1, Checks_Typed DEF TypeOK, Ended
    <2> QED
      BY <1>11, <2>1, <2>2, Silence_Checks DEF history
  <1>12. CASE /\ pc = "settle"
              /\ cur' = None
              /\ UNCHANGED <<cursor, checks, mode, due, todo, history>>
    BY <1>12, Silence_Kept DEF history
  <1>13. CASE BreakerCools \/ CircuitCools \/ NewBlock \/ AgeWindow
    BY <1>13, Silence_Kept
       DEF BreakerCools, CircuitCools, NewBlock, AgeWindow, store, poll, history, SilenceOK
  <1>14. CASE \E c \in Candidate : ExpireSeen(c)
    BY <1>14, Silence_Kept DEF ExpireSeen, poll, history, SilenceOK
  <1> QED
    BY <1>1, <1>2, <1>3, <1>4, <1>5, <1>6, <1>7, <1>8, <1>9, <1>10, <1>11, <1>12, <1>13,
       <1>14 DEF Succeeds

(* Nothing that was on the chain when the process first caught up is ever  *)
(* the subject of a message, neither of the first range, repeated or not,  *)
(* nor of a recheck (runEvmRangeOnce's recovery mode).                     *)
THEOREM EvmSilentFirstRange == Spec => []SilentFirstRange
  <1>1. Init => SilenceOK
    BY EvmAssumption DEF Init, SilenceOK, SilentFirstRange, NoCheck
  <1>2. CursorInv /\ SilenceOK /\ [Next]_vars => SilenceOK'
    <2> SUFFICES ASSUME CursorInv, SilenceOK, [Next]_vars PROVE SilenceOK'
      OBVIOUS
    <2>1. CASE Next
      BY <2>1, Next_Splits, Silence_GivesUp, Silence_Step DEF CursorInv
    <2>2. CASE UNCHANGED vars
      BY <2>2 DEF vars, SilenceOK, SilentFirstRange, Later
    <2> QED
      BY <2>1, <2>2
  <1>3. SilenceOK => SilentFirstRange
    BY DEF SilenceOK
  <1> QED
    BY <1>1, <1>2, <1>3, Cursor_Always, PTL DEF Spec

-----------------------------------------------------------------------------
(***************************************************************************)
(* The notices of an outage.                                               *)
(***************************************************************************)
NoticeOK == told <= 1 /\ (told # 0 => circuit.notified)

LEMMA Notice_Kept ==
    ASSUME NoticeOK, UntouchedCircuit \/ Analyzed
    PROVE  NoticeOK'
  BY DEF NoticeOK, UntouchedCircuit, Analyzed

LEMMA Notice_Failure ==
    ASSUME TypeOK, NoticeOK, AnalysisFails
    PROVE  NoticeOK'
  <1>1. PICK t \in Nat : told = t
    BY DEF TypeOK
  <1>2. PICK limited \in BOOLEAN :
           /\ circuit' = IF limited THEN Limited(Admitted(circuit))
                         ELSE Errored(Admitted(circuit))
           /\ told' = IF ~circuit'.open THEN 0
                      ELSE IF limited /\ ~circuit.notified /\ mode = "live" THEN told + 1
                      ELSE told
    BY DEF AnalysisFails
  <1>3. PICK c \in Circuit : circuit = c
    BY DEF TypeOK
  <1>4. Limited(Admitted(c)).notified
    BY DEF Limited
  <1>5. Errored(Admitted(c)).open => Errored(Admitted(c)).notified = c.notified
    BY DEF Errored, Admitted, Circuit, ClosedCircuit
  <1>6. CASE limited
    BY <1>1, <1>2, <1>3, <1>4, <1>6 DEF NoticeOK
  <1>7. CASE ~limited
    BY <1>1, <1>2, <1>3, <1>5, <1>7 DEF NoticeOK
  <1> QED
    BY <1>6, <1>7

LEMMA Notice_Next ==
    ASSUME TypeOK, NoticeOK, Next
    PROVE  NoticeOK'
  <1>1. ASSUME NEW c \in Candidate, Recheck(c) \/ Handle(c)
        PROVE  NoticeOK'
    BY <1>1, Notice_Kept, Notice_Failure
       DEF Recheck, PutOff, TooOld, Reported, RecheckAlerts, RecheckFails, Handle, Skip,
           Quiet, Act
  <1>2. CASE Crash \/ Exit
    BY <1>2 DEF Crash, Exit, Restarted, NoticeOK
  <1>3. CASE CircuitCools
    BY <1>3 DEF CircuitCools, history, NoticeOK, TypeOK, Circuit
  <1>4. CASE \/ Poll \/ StartSession \/ Scan \/ ScanFails \/ Advance \/ Alert \/ AckLost
             \/ Schedule \/ Settle \/ BreakerCools \/ NewBlock \/ AgeWindow
             \/ \E c \in Candidate : ExpireSeen(c)
    <2>1. UntouchedCircuit
      BY <1>4 DEF UntouchedCircuit, Poll, StartSession, Scan, ScanFails, Advance, Alert,
                  AckLost, Schedule, Settle, BreakerCools, NewBlock, AgeWindow, ExpireSeen,
                  history
    <2> QED
      BY <2>1, Notice_Kept
  <1> QED
    BY <1>1, <1>2, <1>3, <1>4 DEF Next, Step

(* An outage of the analysis node is told at most once, although every     *)
(* probe that meets the limit opens the circuit again (fail's `notify`).   *)
THEOREM EvmToldOnce == Spec => []ToldOnce
  <1>1. Init => NoticeOK
    BY DEF Init, NoticeOK
  <1>2. CursorInv /\ NoticeOK /\ [Next]_vars => NoticeOK'
    BY Notice_Next DEF CursorInv, NoticeOK, vars
  <1>3. NoticeOK => ToldOnce
    BY DEF NoticeOK, ToldOnce
  <1> QED
    BY <1>1, <1>2, <1>3, Cursor_Always, PTL DEF Spec

-----------------------------------------------------------------------------
(***************************************************************************)
(* The rechecks.                                                           *)
(***************************************************************************)
(* Only pending rechecks are due or asked for a message, only a candidate  *)
(* of a session is scheduled, and a recheck that is not there used no slot.*)
WorkInv ==
    /\ \A c \in due : Pending(c)
    /\ pc \in {"alert", "settle"} /\ session = "none" => Pending(cur) /\ cur \notin due
    /\ pc = "schedule" => session # "none"
    /\ \A c \in Candidate : checks[c].status = "none" => checks[c].attempts = 0

LEMMA Work_Init == Init => WorkInv
  BY DEF Init, WorkInv, NoCheck

LEMMA Work_GivesUp ==
    ASSUME TypeOK, WorkInv, GivesUp
    PROVE  WorkInv'
  BY DEF WorkInv, GivesUp, Pending

LEMMA Work_Kept ==
    ASSUME TypeOK, WorkInv, checks' = checks, due' \subseteq due,
           pc' \in {"idle", "rechecks", "scan", "candidates", "down"}
    PROVE  WorkInv'
  BY DEF WorkInv, Pending

(* A recheck that is rested, scheduled or settled.                         *)
LEMMA Work_Checks ==
    ASSUME TypeOK, WorkInv, NEW c \in Candidate, NEW check,
           checks' = [checks EXCEPT ![c] = check],
           check.status = "none" => check.attempts = 0,
           due' \subseteq due, c \in due' => check.status = "pending",
           \/ pc' \in {"rechecks", "candidates"}
           \/ pc' = "settle" /\ session' # "none"
    PROVE  WorkInv'
  <1>1. \A d \in Candidate : checks'[d] = IF d = c THEN check ELSE checks[d]
    BY DEF TypeOK
  <1>2. due' \subseteq Candidate
    BY DEF TypeOK
  <1> QED
    BY <1>1, <1>2 DEF WorkInv, Pending

LEMMA Work_Step ==
    ASSUME TypeOK, CurOK, WorkInv, Succeeds
    PROVE  WorkInv'
  <1>1. CASE Poll
    <2>1. due' \subseteq {c \in Candidate : Pending(c)}
      BY <1>1 DEF Poll
    <2> QED
      BY <1>1, <2>1 DEF Poll, store, WorkInv, Pending
  <1>2. CASE StartSession
    BY <1>2, Work_Kept DEF StartSession, store
  <1>3. CASE Scan
    BY <1>3, Answered_Ends, Work_Kept DEF Scan, store
  <1>4. CASE \E c \in Candidate : pc = "rechecks" /\ Rested(c)
    <2>1. PICK c \in Candidate : pc = "rechecks" /\ Rested(c)
      BY <1>4
    <2>2. PICK check \in {checks[c], Ended(checks[c]), NextSlot(checks[c])} :
               Rechecked(c, check)
      BY <2>1 DEF Rested
    <2>3. check.status # "none"
      BY <2>1, <2>2 DEF Rested, WorkInv, Pending, Ended, NextSlot
    <2> QED
      BY <2>1, <2>2, <2>3, Work_Checks DEF Rechecked
  <1>5. CASE \E c \in Candidate : pc = "rechecks" /\ c \in due /\ RecheckAlerts(c)
    BY <1>5 DEF RecheckAlerts, store, WorkInv, Pending
  <1>6. CASE \E c \in Candidate : pc = "candidates" /\ Marked(c)
    BY <1>6, Work_Kept DEF Marked
  <1>7. CASE \E c \in Candidate : pc = "candidates" /\ c \in todo \ seen /\ Act(c)
    BY <1>7 DEF Act, store, CurOK, WorkInv, Pending
  <1>8. CASE /\ Advance
             /\ Answered
             /\ UNCHANGED <<seen, checks, chain, alerts, faults>>
    BY <1>8, Answered_Ends, Work_Kept
  <1>9. CASE Delivered \/ AckLost
    BY <1>9 DEF Delivered, AckLost, store, poll, WorkInv, Pending
  <1>10. CASE /\ Schedule
              /\ checks' = (IF checks[cur].status # "none" THEN checks
                            ELSE [checks EXCEPT ![cur] = FreshCheck])
              /\ pc' = "settle"
              /\ UNCHANGED <<seen, cursor, mode, due, session, scanTo, todo, cur, chain,
                             history>>
    <2>1. cur \in Candidate /\ session # "none"
      BY <1>10 DEF Schedule, CurOK, TypeOK, WorkInv
    <2>2. CASE checks' = checks
      BY <1>10, <2>1, <2>2 DEF WorkInv, Pending
    <2>3. CASE checks' = [checks EXCEPT ![cur] = FreshCheck]
      BY <1>10, <2>1, <2>3, Work_Checks DEF FreshCheck
    <2> QED
      BY <1>10, <2>2, <2>3
  <1>11. CASE /\ pc = "settle"
              /\ session = "none"
              /\ checks' = [checks EXCEPT ![cur] = Ended(checks[cur])]
              /\ pc' = "rechecks"
              /\ cur' = None
              /\ UNCHANGED <<seen, cursor, mode, due, session, scanTo, todo, chain, history>>
    <2>1. cur \in Candidate /\ cur \notin due
      BY <1>11 DEF CurOK, TypeOK, WorkInv
    <2> QED
      BY <1>11, <2>1, Work_Checks DEF Ended
  <1>12. CASE /\ pc = "settle"
              /\ session # "none"
              /\ seen' = seen \cup {cur}
              /\ pc' = "candidates"
              /\ cur' = None
              /\ UNCHANGED <<cursor, checks, mode, due, session, scanTo, todo, chain, history>>
    BY <1>12, Work_Kept
  <1>13. CASE \/ BreakerCools \/ CircuitCools \/ NewBlock \/ AgeWindow
              \/ \E c \in Candidate : ExpireSeen(c)
    BY <1>13 DEF BreakerCools, CircuitCools, NewBlock, AgeWindow, ExpireSeen, store, poll,
                 WorkInv, Pending
  <1> QED
    BY <1>1, <1>2, <1>3, <1>4, <1>5, <1>6, <1>7, <1>8, <1>9, <1>10, <1>11, <1>12, <1>13
       DEF Succeeds

LEMMA Work_Next == CursorInv /\ WorkInv /\ [Next]_vars => WorkInv'
  <1> SUFFICES ASSUME CursorInv, WorkInv, [Next]_vars PROVE WorkInv'
    OBVIOUS
  <1>1. CASE Next
    BY <1>1, Next_Splits, Work_GivesUp, Work_Step DEF CursorInv, RangeOK
  <1>2. CASE UNCHANGED vars
    BY <1>2 DEF vars, WorkInv, Pending
  <1> QED
    BY <1>1, <1>2

LEMMA Work_Always == Spec => [](CursorInv /\ WorkInv)
  BY Work_Init, Work_Next, Cursor_Init, Cursor_Next, PTL DEF Spec

-----------------------------------------------------------------------------
(***************************************************************************)
(* The messages about a candidate.                                         *)
(***************************************************************************)
(* The first analysis may still send one: it is under way before its       *)
(* message, or the candidate would be handled again.  So may a recheck,    *)
(* unless its message was sent and only the write is missing.              *)
InHand(c, p) == cur = c /\ pc = p
FirstDue(c) ==
    \/ session # "none" /\ (InHand(c, "alert") \/ InHand(c, "schedule"))
    \/ c \notin seen /\ ~Aged(c) /\ ~(session # "none" /\ InHand(c, "settle"))
RecheckDue(c) == Pending(c) /\ ~(session = "none" /\ InHand(c, "settle"))

One(b) == IF b THEN 1 ELSE 0
Owed(c) == One(FirstDue(c)) + One(RecheckDue(c))
BudgetInv == \A c \in Candidate : alerts[c] + Owed(c) <= 1 + faults

(* What a step may do to the account of c: nothing new is owed; a recheck  *)
(* is owed for a first analysis; a message is sent for what was owed; or a *)
(* fault pays for one.                                                     *)
Balanced(c) ==
    \/ /\ faults' = faults /\ alerts'[c] = alerts[c]
       /\ RecheckDue(c)' => RecheckDue(c)
       /\ FirstDue(c)' => FirstDue(c)
    \/ /\ faults' = faults /\ alerts'[c] = alerts[c]
       /\ FirstDue(c) /\ ~FirstDue(c)'
    \/ /\ faults' = faults /\ alerts'[c] = alerts[c] + 1
       /\ \/ FirstDue(c) /\ ~FirstDue(c)' /\ (RecheckDue(c)' => RecheckDue(c))
          \/ RecheckDue(c) /\ ~RecheckDue(c)' /\ (FirstDue(c)' => FirstDue(c))
    \/ /\ faults' = faults + 1 /\ alerts'[c] = alerts[c]
       /\ \/ RecheckDue(c)' => RecheckDue(c)
          \/ FirstDue(c)' => FirstDue(c)
    \/ /\ faults' = faults + 1 /\ alerts'[c] = alerts[c] + 1
       /\ RecheckDue(c)' => RecheckDue(c)
       /\ FirstDue(c)' => FirstDue(c)

LEMMA Balance ==
    ASSUME TypeOK, TypeOK', NEW c \in Candidate, Balanced(c),
           alerts[c] + Owed(c) <= 1 + faults
    PROVE  (alerts[c] + Owed(c) <= 1 + faults)'
  <1>1. /\ alerts[c] \in Nat /\ alerts'[c] \in Nat /\ faults \in Nat /\ faults' \in Nat
    BY EvmAssumption DEF TypeOK
  <1>2. PICK f \in 0 .. 1, r \in 0 .. 1 : f = One(FirstDue(c)) /\ r = One(RecheckDue(c))
    BY DEF One
  <1>3. PICK f1 \in 0 .. 1, r1 \in 0 .. 1 :
          f1 = One(FirstDue(c)') /\ r1 = One(RecheckDue(c)')
    BY DEF One
  <1>4. /\ (RecheckDue(c)' => RecheckDue(c)) => r1 <= r
        /\ (FirstDue(c)' => FirstDue(c)) => f1 <= f
        /\ RecheckDue(c) /\ ~RecheckDue(c)' => r1 + 1 <= r
        /\ FirstDue(c) /\ ~FirstDue(c)' => f1 + 1 <= f
    BY <1>2, <1>3 DEF One
  <1>5. alerts[c] + (f + r) <= 1 + faults
    BY <1>2 DEF Owed
  <1>6. \/ faults' = faults /\ alerts'[c] = alerts[c] /\ r1 <= r /\ f1 <= f
        \/ faults' = faults /\ alerts'[c] = alerts[c] /\ f1 + 1 <= f
        \/ /\ faults' = faults /\ alerts'[c] = alerts[c] + 1
           /\ (f1 + 1 <= f /\ r1 <= r) \/ (r1 + 1 <= r /\ f1 <= f)
        \/ faults' = faults + 1 /\ alerts'[c] = alerts[c] /\ (r1 <= r \/ f1 <= f)
        \/ faults' = faults + 1 /\ alerts'[c] = alerts[c] + 1 /\ r1 <= r /\ f1 <= f
    BY <1>4 DEF Balanced
  <1>7. alerts'[c] + (f1 + r1) <= 1 + faults'
    BY <1>1, <1>5, <1>6
  <1> QED
    BY <1>3, <1>7 DEF Owed

(* After a message only a fault stops the writes that follow it.           *)
LEMMA Next_Pays ==
    ASSUME TypeOK, Next
    PROVE  /\ faults' \in {faults, faults + 1}
           /\ GivesUp /\ pc = "settle" => faults' = faults + 1
  <1>1. CASE \E c \in Candidate : Recheck(c) \/ Handle(c)
    BY <1>1 DEF Recheck, PutOff, TooOld, Reported, RecheckAlerts, RecheckFails, Rechecked,
                AnalysisFails, WriteFails, Fault, Handle, Skip, Quiet, Act, Marked
  <1>2. CASE Poll \/ StartSession \/ Scan \/ ScanFails \/ Advance \/ Alert \/ AckLost
             \/ Schedule
    BY <1>2 DEF Poll, StartSession, Scan, ScanFails, Advance, Alert, AckLost, Schedule,
                WriteFails, Fault, history
  <1>3. CASE Settle
    BY <1>3 DEF Settle, WriteFails, Fault, history, GivesUp
  <1>4. CASE Crash \/ Exit
    BY <1>4 DEF Crash, Exit, Fault
  <1>5. CASE \/ BreakerCools \/ CircuitCools \/ NewBlock \/ AgeWindow
             \/ \E c \in Candidate : ExpireSeen(c)
    BY <1>5 DEF BreakerCools, CircuitCools, NewBlock, AgeWindow, ExpireSeen, history, poll,
                GivesUp
  <1> QED
    BY <1>1, <1>2, <1>3, <1>4, <1>5 DEF Next, Step

LEMMA Budget_GivesUp ==
    ASSUME TypeOK, CurOK, GivesUp, NEW d \in Candidate,
           faults' \in {faults, faults + 1}, pc = "settle" => faults' = faults + 1
    PROVE  Balanced(d)
  <1>1. cur' = None /\ d # None /\ alerts'[d] = alerts[d]
    BY EvmAssumption DEF GivesUp
  <1>2. FirstDue(d)' => FirstDue(d) \/ (session # "none" /\ pc = "settle")
    BY <1>1 DEF GivesUp, FirstDue, InHand, Aged
  <1>3. RecheckDue(d)' => RecheckDue(d) \/ (session = "none" /\ pc = "settle")
    BY <1>1 DEF GivesUp, RecheckDue, InHand, Pending
  <1> QED
    BY <1>1, <1>2, <1>3 DEF Balanced

(* Steps with no candidate in hand before and after, that make none of     *)
(* what leads to a message.                                                *)
LEMMA Budget_Idle ==
    ASSUME TypeOK, NEW d \in Candidate, cur # d, cur' # d,
           seen \subseteq seen', Pending(d)' => Pending(d),
           UNCHANGED <<alerts, window>>, faults' \in {faults, faults + 1}
    PROVE  Balanced(d)
  BY DEF Balanced, FirstDue, RecheckDue, InHand, Aged

LEMMA Budget_Message ==
    ASSUME TypeOK, CurOK, WorkInv, NEW d \in Candidate, Delivered \/ AckLost
    PROVE  Balanced(d)
  <1>1. cur \in Candidate /\ pc = "alert" /\ alerts \in [Candidate -> Nat]
    BY DEF Delivered, AckLost, CurOK, TypeOK
  <1>2. UNCHANGED <<seen, checks, session, cur, window>>
    BY DEF Delivered, AckLost, store, poll, chain
  <1>3. CASE d # cur
    BY <1>1, <1>2, <1>3
       DEF Delivered, AckLost, Fault, Balanced, FirstDue, RecheckDue, InHand, Aged, Pending
  <1>4. CASE d = cur /\ AckLost
    BY <1>1, <1>2, <1>4
       DEF AckLost, Fault, poll, Balanced, FirstDue, RecheckDue, InHand, Aged, Pending
  <1>5. CASE d = cur /\ Delivered
    <2>1. faults' = faults /\ alerts'[d] = alerts[d] + 1 /\ pc' = "settle"
      BY <1>1, <1>5 DEF Delivered
    <2>2. CASE session # "none"
      BY <1>1, <1>2, <1>5, <2>1, <2>2
         DEF Balanced, FirstDue, RecheckDue, InHand, Aged, Pending
    <2>3. CASE session = "none"
      BY <1>1, <1>2, <1>5, <2>1, <2>3
         DEF WorkInv, Balanced, FirstDue, RecheckDue, InHand, Aged, Pending
    <2> QED
      BY <2>2, <2>3
  <1> QED
    BY <1>3, <1>4, <1>5

LEMMA Budget_Step ==
    ASSUME TypeOK, CurOK, WorkInv, Succeeds, NEW d \in Candidate,
           faults' \in {faults, faults + 1}
    PROVE  Balanced(d)
  <1>0. d # None
    BY EvmAssumption
  <1>1. CASE Poll \/ StartSession \/ Scan
    <2>1. cur = None /\ cur' = None
      BY <1>1, Answered_Ends DEF Poll, StartSession, Scan, CurOK
    <2> QED
      BY <1>0, <1>1, <2>1, Budget_Idle
         DEF Poll, StartSession, Scan, store, chain, history, Pending
  <1>2. CASE \E c \in Candidate : pc = "rechecks" /\ Rested(c)
    <2>1. PICK c \in Candidate : pc = "rechecks" /\ Rested(c)
      BY <1>2
    <2>2. PICK check \in {checks[c], Ended(checks[c]), NextSlot(checks[c])} :
               Rechecked(c, check)
      BY <2>1 DEF Rested
    <2>3. cur = None /\ cur' = None
      BY <2>1, <2>2 DEF CurOK, Rechecked
    <2>4. Pending(d)' => Pending(d)
      BY <2>1, <2>2 DEF Rested, Rechecked, WorkInv, Pending, TypeOK
    <2> QED
      BY <1>0, <2>2, <2>3, <2>4, Budget_Idle DEF Rechecked, chain
  <1>3. CASE \E c \in Candidate : pc = "rechecks" /\ c \in due /\ RecheckAlerts(c)
    BY <1>3 DEF RecheckAlerts, CurOK, store, chain, Balanced, FirstDue, RecheckDue, InHand,
                Aged, Pending
  <1>4. CASE \E c \in Candidate : pc = "candidates" /\ Marked(c)
    <2>1. cur = None /\ cur' = None
      BY <1>4 DEF Marked, CurOK
    <2> QED
      BY <1>0, <1>4, <2>1, Budget_Idle DEF Marked, chain, Pending
  <1>5. CASE \E c \in Candidate : pc = "candidates" /\ c \in todo \ seen /\ Act(c)
    BY <1>5 DEF Act, CurOK, store, chain, Balanced, FirstDue, RecheckDue, InHand, Aged,
                Pending
  <1>6. CASE /\ Advance
             /\ Answered
             /\ UNCHANGED <<seen, checks, chain, alerts, faults>>
    <2>1. cur = None /\ cur' = None
      BY <1>6, Answered_Ends DEF Advance, CurOK
    <2> QED
      BY <1>0, <1>6, <2>1, Budget_Idle DEF chain, Pending
  <1>7. CASE Delivered \/ AckLost
    BY <1>7, Budget_Message
  <1>8. CASE /\ Schedule
             /\ checks' = (IF checks[cur].status # "none" THEN checks
                           ELSE [checks EXCEPT ![cur] = FreshCheck])
             /\ pc' = "settle"
             /\ UNCHANGED <<seen, cursor, mode, due, session, scanTo, todo, cur, chain,
                            history>>
    <2>1. cur \in Candidate /\ session # "none" /\ pc = "schedule"
      BY <1>8 DEF Schedule, CurOK, TypeOK, WorkInv
    <2>2. d # cur => checks'[d] = checks[d]
      BY <1>8 DEF TypeOK
    <2> QED
      BY <1>8, <2>1, <2>2
         DEF chain, history, Balanced, FirstDue, RecheckDue, InHand, Aged, Pending
  <1>9. CASE /\ pc = "settle"
             /\ session = "none"
             /\ checks' = [checks EXCEPT ![cur] = Ended(checks[cur])]
             /\ pc' = "rechecks"
             /\ cur' = None
             /\ UNCHANGED <<seen, cursor, mode, due, session, scanTo, todo, chain, history>>
    <2>1. cur \in Candidate
      BY <1>9 DEF CurOK, TypeOK
    <2>2. checks'[d] = IF d = cur THEN Ended(checks[cur]) ELSE checks[d]
      BY <1>9 DEF TypeOK
    <2> QED
      BY <1>0, <1>9, <2>1, <2>2
         DEF chain, history, Balanced, FirstDue, RecheckDue, InHand, Aged, Pending, Ended
  <1>10. CASE /\ pc = "settle"
              /\ session # "none"
              /\ seen' = seen \cup {cur}
              /\ pc' = "candidates"
              /\ cur' = None
              /\ UNCHANGED <<cursor, checks, mode, due, session, scanTo, todo, chain, history>>
    BY <1>0, <1>10
       DEF chain, history, Balanced, FirstDue, RecheckDue, InHand, Aged, Pending
  <1>11. CASE BreakerCools \/ CircuitCools \/ NewBlock
    BY <1>11 DEF BreakerCools, CircuitCools, NewBlock, store, poll, chain, history, Balanced,
                 FirstDue, RecheckDue, InHand, Aged, Pending
  <1>12. CASE AgeWindow
    <2>1. Aged(d) => Aged(d)'
      BY <1>12, EvmAssumption DEF AgeWindow, Aged, TypeOK
    <2> QED
      BY <1>12, <2>1 DEF AgeWindow, store, poll, history, Balanced, FirstDue, RecheckDue,
                         InHand, Pending
  <1>13. CASE \E c \in Candidate : ExpireSeen(c)
    BY <1>13 DEF ExpireSeen, poll, chain, history, Balanced, FirstDue, RecheckDue, InHand,
                 Aged, Pending
  <1> QED
    BY <1>1, <1>2, <1>3, <1>4, <1>5, <1>6, <1>7, <1>8, <1>9, <1>10, <1>11, <1>12, <1>13
       DEF Succeeds

(* A candidate gets one message, and at most one more for every fault:     *)
(* whichever node answers, however often a range is repeated, and although *)
(* the first analysis and a recheck both may send one.  A recheck takes    *)
(* over what the first analysis owed, so only a message whose writes were  *)
(* lost is sent again.                                                     *)
THEOREM EvmAlertsPaid == Spec => []AlertBudget
  <1>1. Init => BudgetInv
    <2> SUFFICES ASSUME Init, NEW c \in Candidate PROVE alerts[c] + Owed(c) <= 1 + faults
      BY DEF BudgetInv
    <2>1. alerts[c] = 0 /\ faults = 0 /\ ~RecheckDue(c)
      BY DEF Init, RecheckDue, Pending, NoCheck
    <2>2. Owed(c) \in {0, 1}
      BY <2>1 DEF Owed, One
    <2> QED
      BY <2>1, <2>2
  <1>2. CursorInv /\ CursorInv' /\ WorkInv /\ BudgetInv /\ [Next]_vars => BudgetInv'
    <2> SUFFICES ASSUME CursorInv, CursorInv', WorkInv, BudgetInv, [Next]_vars,
                        NEW d \in Candidate
                 PROVE  Balanced(d)
      BY Balance DEF BudgetInv, CursorInv
    <2>1. CASE Next
      BY <2>1, Next_Splits, Next_Pays, Budget_GivesUp, Budget_Step DEF CursorInv, RangeOK
    <2>2. CASE UNCHANGED vars
      BY <2>2 DEF vars, Balanced, FirstDue, RecheckDue, InHand, Aged, Pending
    <2> QED
      BY <2>1, <2>2
  <1>3. CursorInv /\ BudgetInv => AlertBudget
    <2> SUFFICES ASSUME CursorInv, BudgetInv, NEW c \in Candidate
                 PROVE  alerts[c] <= 1 + faults
      BY DEF AlertBudget
    <2>1. alerts[c] \in Nat /\ faults \in Nat
      BY EvmAssumption DEF CursorInv, TypeOK
    <2>2. Owed(c) \in 0 .. 2 /\ alerts[c] + Owed(c) <= 1 + faults
      BY DEF Owed, One, BudgetInv
    <2> QED
      BY <2>1, <2>2
  <1> QED
    BY <1>1, <1>2, <1>3, Work_Always, PTL DEF Spec

-----------------------------------------------------------------------------
(***************************************************************************)
(* The slots of a recheck.                                                 *)
(***************************************************************************)
Kept(c) ==
    /\ checks'[c].attempts # checks[c].attempts => Admits(circuit)
    /\ checks[c].status = "completed" => checks'[c] = checks[c]

LEMMA Slots_Rechecked ==
    ASSUME TypeOK, WorkInv, NEW c \in due, NEW d \in Candidate,
           \/ Rechecked(c, checks[c])
           \/ Rechecked(c, Ended(checks[c]))
           \/ Admits(circuit) /\ Rechecked(c, NextSlot(checks[c]))
    PROVE  Kept(d)
  <1>1. c \in Candidate /\ Pending(c)
    BY DEF TypeOK, WorkInv
  <1>2. d # c => checks'[d] = checks[d]
    BY DEF Rechecked, TypeOK
  <1>3. checks'[c] = checks[c] \/ checks'[c] = Ended(checks[c])
        \/ (checks'[c] = NextSlot(checks[c]) /\ Admits(circuit))
    BY <1>1 DEF Rechecked, TypeOK
  <1> QED
    BY <1>1, <1>2, <1>3 DEF Kept, Pending, Ended, NextSlot

LEMMA Slots_Next ==
    ASSUME TypeOK, CurOK, WorkInv, Next, NEW d \in Candidate
    PROVE  Kept(d)
  <1>1. CASE checks' = checks
    BY <1>1 DEF Kept
  <1>2. ASSUME NEW c \in Candidate, Recheck(c)
        PROVE  Kept(d)
    <2>1. CASE PutOff(c) \/ TooOld(c) \/ Reported(c)
      BY <1>2, <2>1, Slots_Rechecked DEF Recheck, PutOff, TooOld, Reported
    <2>2. CASE RecheckAlerts(c) \/ RecheckFails(c) \/ WriteFails
      BY <1>1, <2>2 DEF RecheckAlerts, RecheckFails, AnalysisFails, WriteFails, store
    <2> QED
      BY <1>2, <2>1, <2>2 DEF Recheck
  <1>3. CASE Schedule
    <2>1. checks' = checks
          \/ (checks[cur].status = "none" /\ checks' = [checks EXCEPT ![cur] = FreshCheck])
      BY <1>3 DEF Schedule, WriteFails, store
    <2>2. cur \in Candidate
      BY <1>3 DEF Schedule, CurOK, TypeOK
    <2> QED
      BY <1>1, <2>1, <2>2 DEF WorkInv, Kept, FreshCheck, TypeOK
  <1>4. CASE Settle
    <2>1. checks' = checks
          \/ (session = "none" /\ checks' = [checks EXCEPT ![cur] = Ended(checks[cur])])
      BY <1>4 DEF Settle, WriteFails, store
    <2>2. cur \in Candidate /\ (session = "none" => Pending(cur))
      BY <1>4 DEF Settle, CurOK, TypeOK, WorkInv
    <2> QED
      BY <1>1, <2>1, <2>2 DEF Kept, Ended, Pending, TypeOK
  <1>5. CASE \E c \in Candidate : Handle(c)
    BY <1>1, <1>5 DEF Handle, Skip, Quiet, Act, Marked, AnalysisFails, WriteFails, store
  <1>6. CASE Poll \/ StartSession \/ Scan \/ ScanFails \/ Advance \/ Alert \/ AckLost
    BY <1>1, <1>6 DEF Poll, StartSession, Scan, ScanFails, Advance, Alert, AckLost,
                      WriteFails, store
  <1>7. CASE \/ Crash \/ Exit \/ BreakerCools \/ CircuitCools \/ NewBlock \/ AgeWindow
             \/ \E c \in Candidate : ExpireSeen(c)
    BY <1>1, <1>7 DEF Crash, Exit, Restarted, BreakerCools, CircuitCools, NewBlock,
                      AgeWindow, ExpireSeen, store
  <1> QED
    BY <1>2, <1>3, <1>4, <1>5, <1>6, <1>7 DEF Next, Step

(* A recheck uses a slot only for an analysis the circuit admits, and a    *)
(* terminal recheck never changes again, whatever schedules or settles     *)
(* afterwards (runDueChecks, scheduleCheck, completeCheck).                *)
THEOREM EvmSlotsAreAnalyses == Spec => SlotsAreAnalyses
  <1>1. CursorInv /\ WorkInv /\ [Next]_vars
          => [\A c \in Candidate :
                /\ checks'[c].attempts # checks[c].attempts => Admits(circuit)
                /\ checks[c].status = "completed" => checks'[c] = checks[c]]_checks
    <2> SUFFICES ASSUME CursorInv, WorkInv, [Next]_vars, checks' # checks,
                        NEW c \in Candidate
                 PROVE  Kept(c)
      BY DEF Kept
    <2> QED
      BY Slots_Next DEF CursorInv, RangeOK, vars
  <1> QED
    BY <1>1, Work_Always, PTL DEF Spec, SlotsAreAnalyses
=============================================================================
