----------------------- MODULE CandidatePipelineProofs -----------------------
(***************************************************************************)
(* Proofs about CandidatePipeline, for every set of candidates, every      *)
(* chain length, chunk, queue size, number of attempts and number of       *)
(* faults of every kind.                                                   *)
(***************************************************************************)
EXTENDS CandidatePipeline, SequenceTheorems, FiniteSetTheorems, TLAPS

-----------------------------------------------------------------------------
(* Types, and what the pending worker relies on: the check it runs and the *)
(* checks it selected stay pending until it writes them, and a pending     *)
(* check has an attempt left.                                              *)

StageInv ==
    /\ \A a \in Actor : stage[a] # "idle" => cand[a] \in Candidate
    /\ stage["pending"] # "idle" =>
         kind \in Kind /\ Pending(kind, cand["pending"])
    /\ stage["pending"] = "again" =>
         checks[kind][cand["pending"]].attempts + 1 < MaxAttempts

DueInv ==
    \A k \in Kind, c \in Candidate :
        <<k, c>> \in due =>
            Pending(k, c) /\ (stage["pending"] = "idle" \/ <<k, c>> # <<kind, cand["pending"]>>)

AttemptsInv ==
    \A k \in Kind, c \in Candidate :
        Pending(k, c) => checks[k][c].attempts < MaxAttempts

TypeInv == TypeOK /\ StageInv /\ DueInv /\ AttemptsInv

LEMMA InitTypeInv == Init => TypeInv
  BY PipelineAssumption
  DEF Init, TypeInv, TypeOK, StageInv, DueInv, AttemptsInv, Pending, NoCheck, Check,
      Status, Stage, Kind, Actor, None


-----------------------------------------------------------------------------
(* What one turn of an operation may do to the parts the invariant is      *)
(* about.                                                                  *)

ChecksKept ==
    /\ checks' \in [Kind -> [Candidate -> Check]]
    /\ \A k \in Kind, c \in Candidate :
         \/ checks'[k][c] = checks[k][c]
         \/ ~Pending(k, c) /\ checks'[k][c] = FreshCheck

OperationEffect(a) ==
    /\ \E st \in Stage \ {"idle"} :
         /\ stage' = [stage EXCEPT ![a] = st]
         /\ a = "pending" /\ st = "again" =>
              checks'[kind][cand["pending"]].attempts + 1 < MaxAttempts
    /\ executor' \in Seq(Actor)
    /\ ChecksKept
    /\ recoveryKeys' \subseteq Candidate
    /\ failed' \in [Source -> BOOLEAN]
    /\ faults' \in 0 .. MaxFaults

(* An update of one check, read at every other one.                        *)
LEMMA CheckUpdate ==
    ASSUME NEW f \in [Kind -> [Candidate -> Check]],
           NEW k \in Kind, NEW c \in Candidate, NEW v \in Check
    PROVE  /\ [f EXCEPT ![k][c] = v] \in [Kind -> [Candidate -> Check]]
           /\ \A k2 \in Kind, c2 \in Candidate :
                [f EXCEPT ![k][c] = v][k2][c2] =
                    IF k2 = k /\ c2 = c THEN v ELSE f[k2][c2]
  OBVIOUS

LEMMA FreshCheckType == FreshCheck \in Check
  BY PipelineAssumption DEF FreshCheck, Check, Status

LEMMA KeptInvariant ==
    ASSUME TypeInv, ChecksKept,
           NEW a \in Actor, stage[a] # "idle",
           NEW st \in Stage \ {"idle"}, stage' = [stage EXCEPT ![a] = st],
           a = "pending" /\ st = "again" =>
               checks'[kind][cand["pending"]].attempts + 1 < MaxAttempts,
           cand' = cand, kind' = kind, due' = due
    PROVE  StageInv' /\ DueInv' /\ AttemptsInv'
  <1>0. stage \in [Actor -> Stage] /\ cand \in [Actor -> Candidate \cup {None}]
        /\ "pending" \in Actor
    BY DEF TypeInv, TypeOK, Actor
  <1>1. \A k \in Kind, c \in Candidate : Pending(k, c) =>
            checks'[k][c] = checks[k][c] /\ Pending(k, c)'
    BY DEF ChecksKept, Pending
  <1>2. AttemptsInv'
    <2>1. FreshCheck.attempts < MaxAttempts
      BY PipelineAssumption DEF FreshCheck
    <2> QED
      BY <2>1 DEF AttemptsInv, ChecksKept, TypeInv, Pending
  <1>3. DueInv'
    <2> SUFFICES ASSUME NEW k \in Kind, NEW c \in Candidate, <<k, c>> \in due
                 PROVE  /\ Pending(k, c)'
                        /\ stage'["pending"] = "idle" \/ <<k, c>> # <<kind, cand["pending"]>>
      BY DEF DueInv
    <2>1. Pending(k, c)
          /\ (stage["pending"] = "idle" \/ <<k, c>> # <<kind, cand["pending"]>>)
      BY DEF TypeInv, DueInv
    <2>2. stage["pending"] = "idle" => stage'["pending"] = "idle"
      BY <1>0
    <2> QED
      BY <2>1, <2>2, <1>1
  <1>4. StageInv'
    <2>1. \A b \in Actor : stage'[b] # "idle" => stage[b] # "idle"
      BY <1>0
    <2>2. \A b \in Actor : stage'[b] # "idle" => cand'[b] \in Candidate
      BY <2>1 DEF TypeInv, StageInv
    <2>3. stage'["pending"] # "idle" => kind' \in Kind /\ Pending(kind, cand["pending"])'
      BY <2>1, <1>0, <1>1 DEF TypeInv, StageInv
    <2>4. stage'["pending"] = "again" =>
            checks'[kind][cand["pending"]].attempts + 1 < MaxAttempts
      BY <1>0, <1>1 DEF TypeInv, StageInv
    <2> QED
      BY <2>2, <2>3, <2>4 DEF StageInv, Pending
  <1> QED
    BY <1>2, <1>3, <1>4

(* An operation that also leaves these alone keeps the invariant.          *)
LEMMA EffectKeepsTypeInv ==
    ASSUME TypeInv, NEW a \in Actor, stage[a] # "idle", OperationEffect(a),
           seen' \subseteq Candidate, alerts' \in [Candidate -> Nat],
           unknown' \subseteq Candidate,
           UNCHANGED <<cursor, claimed, batch, queue, scanTo, cand, kind, due, aged>>
    PROVE  TypeInv'
  <1>1. PICK st \in Stage \ {"idle"} :
          /\ stage' = [stage EXCEPT ![a] = st]
          /\ a = "pending" /\ st = "again" =>
               checks'[kind][cand["pending"]].attempts + 1 < MaxAttempts
    BY DEF OperationEffect
  <1>2. StageInv' /\ DueInv' /\ AttemptsInv'
    BY <1>1, KeptInvariant DEF OperationEffect
  <1>3. stage' \in [Actor -> Stage]
    BY <1>1 DEF TypeInv, TypeOK
  <1>4. TypeOK'
    BY <1>3 DEF TypeInv, TypeOK, OperationEffect, ChecksKept
  <1> QED
    BY <1>2, <1>4 DEF TypeInv

-----------------------------------------------------------------------------
(* The pieces the operations are made of.                                  *)

LEMMA RunningFacts ==
    ASSUME TypeInv, NEW a \in Actor, Running(a)
    PROVE  executor \in Seq(Actor) /\ Tail(executor) \in Seq(Actor)
  BY DEF TypeInv, TypeOK, Running

LEMMA GoToEffect ==
    ASSUME TypeInv, NEW a \in Actor, NEW st \in Stage \ {"idle", "again"}, GoTo(a, st),
           Quietly
    PROVE  OperationEffect(a)
  BY DEF TypeInv, TypeOK, GoTo, Quietly, OperationEffect, ChecksKept

LEMMA LeaveEffect ==
    ASSUME TypeInv, NEW a \in Actor, Running(a),
           NEW st \in Stage \ {"idle", "again"}, Leave(a, st), Quietly
    PROVE  OperationEffect(a)
  BY RunningFacts DEF TypeInv, TypeOK, Leave, Quietly, OperationEffect, ChecksKept

LEMMA DeferEffect ==
    ASSUME TypeInv, NEW s \in Source, Running(s), cand[s] \in Candidate, Defer(s)
    PROVE  OperationEffect(s)
  <1>1. s \in Actor /\ "finish" \in Stage \ {"idle", "again"} /\ s # "pending"
        /\ "recovery" \in Kind
    BY PipelineAssumption DEF Actor, Stage, Kind
  <1>2. executor' \in Seq(Actor)
    BY <1>1, RunningFacts DEF Defer, Leave
  <1>3. ChecksKept
    <2>1. checks \in [Kind -> [Candidate -> Check]]
      BY DEF TypeInv, TypeOK
    <2>2. CASE Pending("recovery", cand[s]) \/ checks' = checks
      BY <2>1, <2>2 DEF Defer, ChecksKept
    <2>3. CASE /\ ~Pending("recovery", cand[s])
               /\ checks' = [checks EXCEPT !["recovery"][cand[s]] = FreshCheck]
      BY <1>1, <2>1, <2>3, CheckUpdate, FreshCheckType DEF ChecksKept
    <2> QED
      BY <2>2, <2>3 DEF Defer
  <1>4. faults' \in 0 .. MaxFaults
    BY PipelineAssumption DEF Defer, Fault, TypeInv, TypeOK
  <1>5. recoveryKeys' \subseteq Candidate /\ failed' \in [Source -> BOOLEAN]
    BY DEF Defer, TypeInv, TypeOK
  <1> QED
    BY <1>1, <1>2, <1>3, <1>4, <1>5 DEF OperationEffect, Defer, Leave

LEMMA ThrowUnexpectedEffect ==
    ASSUME TypeInv, NEW a \in Actor, Running(a), NEW why, ThrowUnexpected(a, why)
    PROVE  OperationEffect(a)
  <1>1. executor' \in Seq(Actor)
    BY RunningFacts DEF ThrowUnexpected, Leave
  <1>2. faults' \in 0 .. MaxFaults
    BY PipelineAssumption DEF ThrowUnexpected, Fault, TypeInv, TypeOK
  <1>3. failed' \in [Source -> BOOLEAN]
    BY DEF ThrowUnexpected, TypeInv, TypeOK
  <1>4. \E st \in {"finish", "retry", "down"} : stage' = [stage EXCEPT ![a] = st]
    BY DEF ThrowUnexpected, Leave
  <1> QED
    BY <1>1, <1>2, <1>3, <1>4
    DEF OperationEffect, ChecksKept, ThrowUnexpected, TypeInv, TypeOK, Stage

LEMMA ThrowEffect ==
    ASSUME TypeInv, NEW a \in Actor, Running(a), cand[a] \in Candidate, Throw(a)
    PROVE  OperationEffect(a)
  <1>1. CASE a \in Source /\ Defer(a)
    BY <1>1, DeferEffect
  <1>2. CASE a \notin Source /\ Leave(a, "retry") /\ Quietly
    BY <1>2, LeaveEffect DEF Stage
  <1>3. CASE ThrowUnexpected(a, "unexpected")
    BY <1>3, ThrowUnexpectedEffect
  <1> QED
    BY <1>1, <1>2, <1>3 DEF Throw, ThrowRetryable, Quietly
-----------------------------------------------------------------------------
(* Every step keeps the types and the worker's facts.                      *)

LEMMA OperationFacts ==
    ASSUME TypeInv, NEW a \in Actor, NEW st \in Stage \ {"idle"}, At(a, st)
    PROVE  Running(a) /\ stage[a] # "idle" /\ cand[a] \in Candidate
  BY DEF TypeInv, StageInv, At

LEMMA ClassifyTypeInv ==
    ASSUME TypeInv, NEW a \in Actor, Classify(a)
    PROVE  OperationEffect(a) /\ TypeInv'
  <1>1. Running(a) /\ stage[a] # "idle" /\ cand[a] \in Candidate
    BY OperationFacts DEF Classify, Stage
  <1>2. OperationEffect(a)
    BY <1>1, GoToEffect, ThrowEffect DEF Classify, Stage
  <1> QED
    BY <1>1, <1>2, EffectKeepsTypeInv DEF Classify, TypeInv, TypeOK

LEMMA AnalyzeFirstTypeInv ==
    ASSUME TypeInv, NEW a \in Actor, AnalyzeFirst(a)
    PROVE  OperationEffect(a) /\ TypeInv'
  <1>1. Running(a) /\ stage[a] # "idle" /\ cand[a] \in Candidate
    BY OperationFacts DEF AnalyzeFirst, Stage
  <1>2. OperationEffect(a)
    BY <1>1, GoToEffect, ThrowEffect DEF AnalyzeFirst, Stage
  <1>3. unknown' \subseteq Candidate
    BY <1>1 DEF AnalyzeFirst, TypeInv, TypeOK
  <1> QED
    BY <1>1, <1>2, <1>3, EffectKeepsTypeInv DEF AnalyzeFirst, TypeInv, TypeOK

LEMMA AnalyzeRecheckTypeInv ==
    ASSUME TypeInv, NEW a \in Actor, AnalyzeRecheck(a)
    PROVE  OperationEffect(a) /\ TypeInv'
  <1>1. Running(a) /\ stage[a] # "idle" /\ cand[a] \in Candidate
    BY OperationFacts DEF AnalyzeRecheck, Stage
  <1>2. Quietly /\ UNCHANGED <<seen, cursor, claimed, batch, queue, scanTo, cand, kind,
                                due, aged, alerts, unknown>>
    BY DEF AnalyzeRecheck, Quietly, durable, source, history
  <1>5. OperationEffect(a)
    <2>1. CASE \/ GoTo(a, "alert")
               \/ Leave(a, "complete")
               \/ Leave(a, "retry")
      BY <1>1, <1>2, <2>1, GoToEffect, LeaveEffect DEF Stage
    <2>2. CASE /\ checks["recheck"][cand[a]].attempts + 1 < MaxAttempts
               /\ Leave(a, "again")
      <3>1. checks'[kind][cand["pending"]].attempts + 1 < MaxAttempts
        BY <1>2, <2>2 DEF AnalyzeRecheck, IsRecheck, Quietly
      <3> QED
        BY <1>1, <1>2, <2>2, <3>1, RunningFacts
        DEF Leave, Quietly, OperationEffect, ChecksKept, Stage, TypeInv, TypeOK
    <2> QED
      BY <2>1, <2>2 DEF AnalyzeRecheck
  <1>6. seen' \subseteq Candidate /\ alerts' \in [Candidate -> Nat] /\ unknown' \subseteq Candidate
    BY <1>2 DEF TypeInv, TypeOK
  <1> QED
    BY <1>1, <1>2, <1>5, <1>6, EffectKeepsTypeInv

LEMMA AlertTypeInv ==
    ASSUME TypeInv, NEW a \in Actor, Alert(a)
    PROVE  OperationEffect(a) /\ TypeInv'
  <1>1. Running(a) /\ stage[a] # "idle" /\ cand[a] \in Candidate
    BY OperationFacts DEF Alert, Stage
  <1>2. OperationEffect(a)
    BY <1>1, GoToEffect, LeaveEffect, ThrowEffect DEF Alert, Stage
  <1>3. alerts' \in [Candidate -> Nat]
    <2>1. CASE UNCHANGED alerts
      BY <2>1 DEF TypeInv, TypeOK
    <2>2. CASE alerts' = [alerts EXCEPT ![cand[a]] = @ + 1]
      BY <1>1, <2>2 DEF TypeInv, TypeOK
    <2> QED
      BY <2>1, <2>2 DEF Alert
  <1> QED
    BY <1>1, <1>2, <1>3, EffectKeepsTypeInv DEF Alert, TypeInv, TypeOK

LEMMA AckLostTypeInv ==
    ASSUME TypeInv, NEW a \in Actor, AckLost(a) PROVE TypeInv'
  <1>1. Running(a) /\ stage[a] # "idle" /\ cand[a] \in Candidate
    BY OperationFacts DEF AckLost, Stage
  <1>2. alerts' \in [Candidate -> Nat] /\ faults' \in 0 .. MaxFaults
    BY <1>1, PipelineAssumption DEF AckLost, Fault, TypeInv, TypeOK
  <1> QED
    BY <1>2 DEF AckLost, TypeInv, TypeOK, StageInv, DueInv, AttemptsInv, Pending,
                durable, source

LEMMA ScheduleTypeInv ==
    ASSUME TypeInv, NEW a \in Actor, Schedule(a)
    PROVE  OperationEffect(a) /\ TypeInv'
  <1>1. Running(a) /\ stage[a] # "idle" /\ cand[a] \in Candidate
    BY OperationFacts DEF Schedule, Stage
  <1>2. CASE ThrowUnexpected(a, "disk")
    BY <1>1, <1>2, ThrowUnexpectedEffect, EffectKeepsTypeInv
    DEF Schedule, TypeInv, TypeOK
  <1>3. CASE /\ checks' = IF checks["recheck"][cand[a]].status = "none"
                            THEN [checks EXCEPT !["recheck"][cand[a]] = FreshCheck]
                            ELSE checks
             /\ GoTo(a, "seen")
             /\ UNCHANGED <<recoveryKeys, failed, faults>>
    <2>1. checks \in [Kind -> [Candidate -> Check]] /\ "recheck" \in Kind
      BY DEF TypeInv, TypeOK, Kind
    <2>2. ChecksKept
      <3>1. CASE checks["recheck"][cand[a]].status = "none"
        BY <1>1, <1>3, <2>1, <3>1, CheckUpdate, FreshCheckType DEF ChecksKept, Pending
      <3>2. CASE checks["recheck"][cand[a]].status # "none"
        BY <1>3, <2>1, <3>2 DEF ChecksKept
      <3> QED
        BY <3>1, <3>2
    <2>3. "seen" \in Stage \ {"idle"} /\ stage' = [stage EXCEPT ![a] = "seen"]
          /\ UNCHANGED <<executor, recoveryKeys, failed, faults>>
      BY <1>3 DEF GoTo, Stage
    <2>4. OperationEffect(a)
      BY <2>2, <2>3 DEF OperationEffect, TypeInv, TypeOK
    <2> QED
      BY <1>1, <2>4, EffectKeepsTypeInv DEF Schedule, TypeInv, TypeOK
  <1> QED
    BY <1>2, <1>3 DEF Schedule

LEMMA MarkSeenTypeInv ==
    ASSUME TypeInv, NEW a \in Actor, MarkSeen(a)
    PROVE  OperationEffect(a) /\ TypeInv'
  <1>1. Running(a) /\ stage[a] # "idle" /\ cand[a] \in Candidate
    BY OperationFacts DEF MarkSeen, Stage
  <1>2. OperationEffect(a)
    BY <1>1, LeaveEffect, ThrowUnexpectedEffect DEF MarkSeen, Return, Stage
  <1>3. seen' \subseteq Candidate
    BY <1>1 DEF MarkSeen, TypeInv, TypeOK
  <1> QED
    BY <1>1, <1>2, <1>3, EffectKeepsTypeInv DEF MarkSeen, TypeInv, TypeOK
(* The steps of the sources.                                               *)
LEMMA SourceTypeInv ==
    ASSUME TypeInv,
           \/ ScanRange
           \/ PollGecko
           \/ EndRange
           \/ \E s \in Source : SourceStep(s)
    PROVE  TypeInv'
  <1>1. CASE ScanRange
    BY <1>1, PipelineAssumption
    DEF ScanRange, TypeInv, TypeOK, StageInv, DueInv, AttemptsInv, Pending, durable, history
  <1>2. CASE PollGecko
    BY <1>2
    DEF PollGecko, TypeInv, TypeOK, StageInv, DueInv, AttemptsInv, Pending, durable, history
  <1>3. CASE EndRange
    <2>1. cursor' \in 0 .. LastBlock /\ scanTo' \in 0 .. LastBlock /\ faults' \in 0 .. MaxFaults
      BY <1>3, PipelineAssumption DEF EndRange, Fault, TypeInv, TypeOK
    <2> QED
      BY <1>3, <2>1
      DEF EndRange, TypeInv, TypeOK, StageInv, DueInv, AttemptsInv, Pending
  <1>4. ASSUME NEW s \in Source, Offer(s) PROVE TypeInv'
    BY <1>4
    DEF Offer, TypeInv, TypeOK, StageInv, DueInv, AttemptsInv, Pending, durable, history
  <1>5. ASSUME NEW s \in Source, Take(s) PROVE TypeInv'
    BY <1>5, PipelineAssumption
    DEF Take, TypeInv, TypeOK, StageInv, DueInv, AttemptsInv, Pending, Stage, Actor,
        durable, history
  <1>6. ASSUME NEW s \in Source, Finish(s) PROVE TypeInv'
    BY <1>6, PipelineAssumption
    DEF Finish, TypeInv, TypeOK, StageInv, DueInv, AttemptsInv, Pending, Stage, Actor,
        durable, history, source
  <1> QED
    BY <1>1, <1>2, <1>3, <1>4, <1>5, <1>6 DEF SourceStep

(* The worker writes the check it runs and forgets it.                     *)
LEMMA WriteTypeInv ==
    ASSUME TypeInv, stage["pending"] # "idle",
           NEW st \in Status, NEW att \in 0 .. MaxAttempts, Write(st, att),
           st = "pending" => att < MaxAttempts,
           UNCHANGED <<seen, cursor, claimed, source, due, executor, aged, alerts, unknown>>
    PROVE  TypeInv'
  <1> DEFINE c == cand["pending"]
             v == [status |-> st, attempts |-> att]
  <1>1. /\ checks \in [Kind -> [Candidate -> Check]]
        /\ kind \in Kind
        /\ c \in Candidate
        /\ v \in Check
        /\ "pending" \in Actor
    BY DEF TypeInv, TypeOK, StageInv, Actor, Check
  <1>2. /\ checks' \in [Kind -> [Candidate -> Check]]
        /\ \A k \in Kind, d \in Candidate :
             checks'[k][d] = IF k = kind /\ d = c THEN v ELSE checks[k][d]
    BY <1>1, CheckUpdate DEF Write
  <1>3. recoveryKeys' \subseteq Candidate
    BY DEF Write, TypeInv, TypeOK
  <1>4. TypeOK'
    BY <1>1, <1>2, <1>3 DEF Write, TypeInv, TypeOK, Stage, source
  <1>5. stage' = [stage EXCEPT !["pending"] = "idle"] /\ stage'["pending"] = "idle"
    BY <1>1 DEF Write, TypeInv, TypeOK
  <1>6. StageInv'
    BY <1>1, <1>5 DEF Write, TypeInv, TypeOK, StageInv
  <1>7. AttemptsInv'
    BY <1>1, <1>2 DEF AttemptsInv, TypeInv, Pending
  <1>8. DueInv'
    <2> SUFFICES ASSUME NEW k \in Kind, NEW d \in Candidate, <<k, d>> \in due
                 PROVE  Pending(k, d)'
      BY <1>5 DEF DueInv
    <2>1. Pending(k, d) /\ <<k, d>> # <<kind, c>>
      BY DEF TypeInv, DueInv
    <2> QED
      BY <1>2, <2>1 DEF Pending
  <1> QED
    BY <1>4, <1>6, <1>7, <1>8 DEF TypeInv

LEMMA WriteFailsTypeInv ==
    ASSUME TypeInv, stage["pending"] # "idle",
           NEW st \in Stage \ {"idle", "again"}, WriteFails(st),
           UNCHANGED <<seen, cursor, claimed, source, due, executor, aged, alerts, unknown>>
    PROVE  TypeInv'
  <1>1. "pending" \in Actor /\ faults' \in 0 .. MaxFaults
    BY PipelineAssumption DEF WriteFails, Fault, TypeInv, TypeOK, Actor
  <1>2. OperationEffect("pending")
    BY <1>1 DEF WriteFails, OperationEffect, ChecksKept, TypeInv, TypeOK, source
  <1> QED
    BY <1>1, <1>2, EffectKeepsTypeInv DEF WriteFails, TypeInv, TypeOK, source

LEMMA WorkerTypeInv ==
    ASSUME TypeInv, WorkerStep PROVE TypeInv'
  <1>0. stage["pending"] # "idle" =>
            /\ checks[kind][cand["pending"]] \in Check
            /\ checks[kind][cand["pending"]].attempts < MaxAttempts
    BY DEF TypeInv, TypeOK, StageInv, AttemptsInv, Actor
  <1>1. CASE SelectDue
    BY <1>1
    DEF SelectDue, TypeInv, TypeOK, StageInv, DueInv, AttemptsInv, Pending, durable,
        history, source
  <1>2. CASE StartCheck
    BY <1>2
    DEF StartCheck, TypeInv, TypeOK, StageInv, DueInv, AttemptsInv, Pending, durable,
        history, source, Stage, Actor, Kind
  <1>3. CASE Complete
    BY <1>0, <1>3, PipelineAssumption, WriteTypeInv, WriteFailsTypeInv
    DEF Complete, Attempted, Check, Status, Stage
  <1>4. CASE Again
    BY <1>0, <1>4, PipelineAssumption, WriteTypeInv, WriteFailsTypeInv
    DEF Again, Attempted, Check, Status, Stage, TypeInv, StageInv
  <1>5. CASE Retry
    BY <1>0, <1>5, PipelineAssumption, WriteTypeInv, WriteFailsTypeInv
    DEF Retry, Attempted, Check, Status, Stage
  <1> QED
    BY <1>1, <1>2, <1>3, <1>4, <1>5 DEF WorkerStep

LEMMA RestartTypeInv ==
    ASSUME TypeInv, Restarted, faults' \in 0 .. MaxFaults
    PROVE  TypeInv'
  <1>1. TypeOK'
    BY PipelineAssumption
    DEF Restarted, TypeInv, TypeOK, durable, ActiveRecoveryKeys, Stage, None
  <1> QED
    BY <1>1 DEF Restarted, TypeInv, StageInv, DueInv, AttemptsInv, Pending, durable, Actor

LEMMA EnvironmentTypeInv ==
    ASSUME TypeInv,
           Exit \/ Crash \/ (\E c \in Candidate : Age(c) \/ ExpireSeen(c))
    PROVE  TypeInv'
  <1>1. CASE Exit
    BY <1>1, RestartTypeInv DEF Exit, TypeInv, TypeOK
  <1>2. CASE Crash
    BY <1>2, RestartTypeInv, PipelineAssumption DEF Crash, Fault, TypeInv, TypeOK
  <1>3. ASSUME NEW c \in Candidate, Age(c) \/ ExpireSeen(c) PROVE TypeInv'
    BY <1>3
    DEF Age, ExpireSeen, TypeInv, TypeOK, StageInv, DueInv, AttemptsInv, Pending,
        durable, source, history
  <1> QED
    BY <1>1, <1>2, <1>3

LEMMA NextTypeInv ==
    ASSUME TypeInv, [Next]_vars PROVE TypeInv'
  <1>1. CASE UNCHANGED vars
    BY <1>1 DEF vars, TypeInv, TypeOK, StageInv, DueInv, AttemptsInv, Pending
  <1>2. ASSUME NEW a \in Actor, OperationStep(a) PROVE TypeInv'
    BY <1>2, ClassifyTypeInv, AnalyzeFirstTypeInv, AnalyzeRecheckTypeInv, AlertTypeInv,
       ScheduleTypeInv, MarkSeenTypeInv DEF OperationStep
  <1> QED
    BY <1>1, <1>2, AckLostTypeInv, SourceTypeInv, WorkerTypeInv, EnvironmentTypeInv
    DEF Next

(* Every variable keeps its type; in particular no check of the state file *)
(* ever uses more attempts than its offsets allow.                         *)
THEOREM TypeCorrect == Spec => []TypeOK
  <1>1. Init => TypeInv
    BY InitTypeInv
  <1>2. TypeInv /\ [Next]_vars => TypeInv'
    BY NextTypeInv
  <1>3. TypeInv => TypeOK
    BY DEF TypeInv
  <1> QED
    BY <1>1, <1>2, <1>3, PTL DEF Spec
-----------------------------------------------------------------------------
(* The durable cursor, when the onchain source is the only one.            *)

InHand == batch["onchain"] \cup queue["onchain"]
            \cup {c \in Candidate : /\ cand["onchain"] = c
                                    /\ stage["onchain"] \notin {"idle", "finish"}}

(* What is claimed is queued or being worked on.                           *)
ClaimInv ==
    claimed \subseteq queue["onchain"]
              \cup {c \in Candidate : cand["onchain"] = c /\ stage["onchain"] # "idle"}

KeyInv == \A c \in recoveryKeys : Recorded(c)

(* While a range is handled and nothing failed, each of its candidates is  *)
(* accounted for or still in the hands of the source.                      *)
RangeInv ==
    scanTo # 0 =>
        \/ failed["onchain"]
        \/ \A c \in Candidate :
             BlockOf[c] \in (cursor + 1) .. scanTo => c \in Accounted \cup InHand

CoverInv == ClaimInv /\ KeyInv /\ RangeInv /\ CursorCoversWork

(* How a turn of an operation ends, for the source that runs it: it goes   *)
(* on, it fails, or its candidate is accounted for.                        *)
Outcome(s) ==
    \/ /\ \E st \in Stage \ {"idle", "finish"} : stage' = [stage EXCEPT ![s] = st]
       /\ UNCHANGED <<failed, recoveryKeys>>
    \/ /\ stage' = [stage EXCEPT ![s] = "finish"]
       /\ failed' = [failed EXCEPT ![s] = TRUE]
       /\ UNCHANGED recoveryKeys
    \/ /\ stage' = [stage EXCEPT ![s] = "finish"]
       /\ cand[s] \in Accounted'
       /\ UNCHANGED failed
       /\ \/ UNCHANGED recoveryKeys
          \/ /\ recoveryKeys' = recoveryKeys \cup {cand[s]}
             /\ checks'["recovery"][cand[s]].status # "none"

LEMMA DeferOutcome ==
    ASSUME TypeInv, NEW s \in Source, cand[s] \in Candidate, Defer(s)
    PROVE  Outcome(s)
  <1>1. CASE Fault("disk") /\ failed' = [failed EXCEPT ![s] = TRUE]
                           /\ UNCHANGED <<checks, recoveryKeys>>
    BY <1>1 DEF Defer, Leave, Outcome
  <1>2. CASE /\ checks' = IF Pending("recovery", cand[s]) THEN checks
                          ELSE [checks EXCEPT !["recovery"][cand[s]] = FreshCheck]
             /\ recoveryKeys' = recoveryKeys \cup {cand[s]}
             /\ UNCHANGED <<failed, faults>>
    <2>1. checks \in [Kind -> [Candidate -> Check]] /\ "recovery" \in Kind
      BY DEF TypeInv, TypeOK, Kind
    <2>2. checks'["recovery"][cand[s]].status # "none"
      <3>1. CASE Pending("recovery", cand[s])
        BY <1>2, <3>1 DEF Pending
      <3>2. CASE ~Pending("recovery", cand[s])
        BY <1>2, <2>1, <3>2, CheckUpdate, FreshCheckType DEF FreshCheck
      <3> QED
        BY <3>1, <3>2
    <2>3. cand[s] \in Accounted'
      BY <2>2 DEF Recorded, Accounted
    <2> QED
      BY <1>2, <2>2, <2>3 DEF Defer, Leave, Outcome
  <1> QED
    BY <1>1, <1>2 DEF Defer

LEMMA ThrowOutcome ==
    ASSUME TypeInv, NEW s \in Source, cand[s] \in Candidate,
           Throw(s) \/ ThrowUnexpected(s, "disk")
    PROVE  Outcome(s)
  <1>1. ASSUME NEW why, ThrowUnexpected(s, why) PROVE Outcome(s)
    BY <1>1 DEF ThrowUnexpected, Leave, Outcome
  <1> QED
    BY <1>1, DeferOutcome DEF Throw, ThrowRetryable

LEMMA GoToOutcome ==
    ASSUME NEW s \in Source, NEW st \in Stage \ {"idle", "finish"}, GoTo(s, st),
           UNCHANGED <<failed, recoveryKeys>>
    PROVE  Outcome(s)
  BY DEF GoTo, Outcome

LEMMA SourceOutcome ==
    ASSUME TypeInv, NEW s \in Source, OperationStep(s)
    PROVE  Outcome(s)
  <1>1. s \in Actor /\ s # "pending"
    BY PipelineAssumption DEF Actor
  <1>2. ~IsRecheck(s)
    BY <1>1 DEF IsRecheck
  <1>3. cand[s] \in Candidate
    BY <1>1, OperationFacts
    DEF OperationStep, Classify, AnalyzeFirst, AnalyzeRecheck, Alert, Schedule, MarkSeen,
        Stage
  <1>4. CASE Classify(s)
    BY <1>3, <1>4, GoToOutcome, ThrowOutcome DEF Classify, Quietly, Stage
  <1>5. CASE AnalyzeFirst(s)
    BY <1>3, <1>5, GoToOutcome, ThrowOutcome DEF AnalyzeFirst, Quietly, Stage
  <1>6. CASE AnalyzeRecheck(s)
    BY <1>2, <1>6 DEF AnalyzeRecheck
  <1>7. CASE Alert(s)
    BY <1>2, <1>3, <1>7, GoToOutcome, ThrowOutcome DEF Alert, Quietly, Stage
  <1>8. CASE Schedule(s)
    BY <1>3, <1>8, GoToOutcome, ThrowOutcome DEF Schedule, Stage
  <1>9. CASE MarkSeen(s)
    <2>1. CASE seen' = seen \cup {cand[s]} /\ Return(s) /\ Quietly
      BY <1>1, <2>1 DEF Outcome, Accounted, Return, Leave, Quietly
    <2>2. CASE ThrowUnexpected(s, "disk")
      BY <1>3, <2>2, ThrowOutcome
    <2> QED
      BY <1>9, <2>1, <2>2 DEF MarkSeen
  <1> QED
    BY <1>4, <1>5, <1>6, <1>7, <1>8, <1>9 DEF OperationStep
(* A turn of the worker leaves the sources alone.                          *)
LEMMA WorkerOutcome ==
    ASSUME TypeInv, OperationStep("pending"), "pending" \notin Source
    PROVE  /\ UNCHANGED <<failed, recoveryKeys>>
           /\ \E st \in Stage : stage' = [stage EXCEPT !["pending"] = st]
  BY DEF OperationStep, Classify, AnalyzeFirst, AnalyzeRecheck, Alert, Schedule, MarkSeen,
         Quietly, Throw, ThrowRetryable, ThrowUnexpected, GoTo, Leave, Return, Stage,
         source

LEMMA OperationFrame ==
    ASSUME NEW a \in Actor, OperationStep(a)
    PROVE  UNCHANGED <<cursor, claimed, batch, queue, scanTo, cand, kind, due, aged>>
  BY DEF OperationStep, Classify, AnalyzeFirst, AnalyzeRecheck, Alert, Schedule, MarkSeen,
         durable, source, history

(* A turn only adds to what is marked seen and to what is recorded.        *)
LEMMA OperationGrows ==
    ASSUME TypeInv, NEW a \in Actor, OperationStep(a)
    PROVE  /\ seen \subseteq seen'
           /\ \A c \in Candidate : Recorded(c) => Recorded(c)'
  <1>1. seen \subseteq seen'
    BY DEF OperationStep, Classify, AnalyzeFirst, AnalyzeRecheck, Alert, Schedule, MarkSeen,
           durable
  <1>2. ChecksKept
    BY ClassifyTypeInv, AnalyzeFirstTypeInv, AnalyzeRecheckTypeInv, AlertTypeInv,
       ScheduleTypeInv, MarkSeenTypeInv DEF OperationStep, OperationEffect
  <1> QED
    BY <1>1, <1>2 DEF ChecksKept, Recorded, FreshCheck, Kind

(* What the worker writes is recorded, and the keys it keeps are pending.  *)
LEMMA WorkerGrows ==
    ASSUME TypeInv, WorkerStep
    PROVE  /\ UNCHANGED <<seen, cursor, claimed, source, aged>>
           /\ \A c \in Candidate : Recorded(c) => Recorded(c)'
           /\ \/ UNCHANGED recoveryKeys
              \/ \A c \in recoveryKeys' : c \in Candidate /\ Recorded(c)'
           /\ \A s \in Source : stage'[s] = stage[s] /\ cand'[s] = cand[s]
  <1>0. /\ checks \in [Kind -> [Candidate -> Check]]
        /\ stage \in [Actor -> Stage] /\ cand \in [Actor -> Candidate \cup {None}]
        /\ "pending" \in Actor /\ "pending" \notin Source
        /\ stage["pending"] # "idle" => kind \in Kind /\ cand["pending"] \in Candidate
    BY PipelineAssumption DEF TypeInv, TypeOK, StageInv, Actor
  <1>1. ASSUME stage["pending"] # "idle", NEW st \in {"pending", "completed", "failed"},
               NEW att, Write(st, att)
        PROVE  /\ \A c \in Candidate : Recorded(c) => Recorded(c)'
               /\ \/ UNCHANGED recoveryKeys
                  \/ \A c \in recoveryKeys' : c \in Candidate /\ Recorded(c)'
    <2> DEFINE new == [checks EXCEPT ![kind][cand["pending"]] =
                          [status |-> st, attempts |-> att]]
    <2>1. checks' = new
      BY <1>1 DEF Write
    <2>2. \A c \in Candidate : checks["recovery"][c].status # "none"
                                 => new["recovery"][c].status # "none"
      BY <1>0, <1>1 DEF Kind
    <2>3. \/ UNCHANGED recoveryKeys
          \/ recoveryKeys' = {d \in Candidate : new["recovery"][d].status = "pending"}
      BY <1>1 DEF Write
    <2> QED
      BY <2>1, <2>2, <2>3 DEF Recorded
  <1>2. CASE SelectDue \/ StartCheck
    <2>1. UNCHANGED <<seen, cursor, checks, claimed, recoveryKeys, source, aged>>
      BY <1>2 DEF SelectDue, StartCheck, durable, history
    <2>2. \A s \in Source : stage'[s] = stage[s] /\ cand'[s] = cand[s]
      <3>1. CASE SelectDue
        BY <3>1 DEF SelectDue
      <3>2. CASE StartCheck
        <4>1. PICK e \in due :
                /\ cand' = [cand EXCEPT !["pending"] = e[2]]
                /\ stage' = [stage EXCEPT !["pending"] =
                               IF e[1] = "recovery" THEN "classify" ELSE "analyze"]
          BY <3>2 DEF StartCheck
        <4> QED
          BY <1>0, <4>1 DEF Actor
      <3> QED
        BY <1>2, <3>1, <3>2
    <2> QED
      BY <2>1, <2>2 DEF Recorded
  <1>3. CASE \E st \in {"retry", "down"} :
               WriteFails(st)
               /\ UNCHANGED <<seen, cursor, claimed, source, due, executor, aged>>
    BY <1>0, <1>3 DEF WriteFails, Recorded
  <1>4. ASSUME stage["pending"] # "idle", NEW st \in {"pending", "completed", "failed"},
               NEW att, Write(st, att)
        PROVE  \A s \in Source : stage'[s] = stage[s] /\ cand'[s] = cand[s]
    BY <1>0, <1>4 DEF Write
  <1>5. CASE Complete
    BY <1>1, <1>3, <1>4, <1>5 DEF Complete
  <1>6. CASE Again
    BY <1>1, <1>3, <1>4, <1>6 DEF Again
  <1>7. CASE Retry
    <2>1. CASE WriteFails("down")
      BY <1>3, <1>7, <2>1 DEF Retry
    <2>2. CASE Write(IF Attempted >= MaxAttempts THEN "failed" ELSE "pending", Attempted)
      <3> DEFINE st == IF Attempted >= MaxAttempts THEN "failed" ELSE "pending"
      <3>1. st \in {"pending", "completed", "failed"} /\ stage["pending"] # "idle"
            /\ Write(st, Attempted)
        BY <1>7, <2>2 DEF Retry
      <3> HIDE DEF st
      <3> QED
        BY <1>1, <1>4, <1>7, <3>1 DEF Retry
    <2> QED
      BY <1>7, <2>1, <2>2 DEF Retry
  <1> QED
    BY <1>2, <1>5, <1>6, <1>7 DEF WorkerStep
(* The parts CoverInv reads, when only the source's stage may have moved.  *)
LEMMA CoverKept ==
    ASSUME CoverInv,
           UNCHANGED <<cursor, claimed, batch, queue, scanTo, failed>>,
           stage'["onchain"] = stage["onchain"], cand'["onchain"] = cand["onchain"],
           \A c \in Candidate : c \in Accounted => c \in Accounted',
           \A c \in recoveryKeys' : Recorded(c)'
    PROVE  CoverInv'
  <1>1. InHand' = InHand
    BY DEF InHand
  <1>2. ClaimInv'
    BY DEF CoverInv, ClaimInv
  <1>3. RangeInv'
    BY <1>1 DEF CoverInv, RangeInv
  <1> QED
    BY <1>2, <1>3 DEF CoverInv, KeyInv, CursorCoversWork

LEMMA CoverSource ==
    ASSUME TypeInv, CoverInv, Source = {"onchain"},
           \/ ScanRange
           \/ PollGecko
           \/ EndRange
           \/ \E s \in Source : SourceStep(s)
    PROVE  CoverInv'
  <1>0. /\ batch \in [Source -> SUBSET Candidate] /\ queue \in [Source -> SUBSET Candidate]
        /\ failed \in [Source -> BOOLEAN]
        /\ stage \in [Actor -> Stage] /\ cand \in [Actor -> Candidate \cup {None}]
        /\ cursor \in Nat /\ scanTo \in Nat /\ BlockOf \in [Candidate -> Nat]
        /\ "onchain" \in Source /\ "onchain" \in Actor
    BY PipelineAssumption DEF TypeInv, TypeOK, Actor
  <1>1. CASE ScanRange
    <2>1. Accounted' = Accounted /\ KeyInv' /\ CursorCoversWork' /\ ClaimInv'
      BY <1>1 DEF ScanRange, CoverInv, KeyInv, CursorCoversWork, ClaimInv, Accounted,
                  Recorded, durable, history
    <2>2. \A c \in Candidate : BlockOf[c] \in (cursor + 1) .. scanTo'
                                  => c \in batch'["onchain"]
      BY <1>0, <1>1 DEF ScanRange
    <2>3. RangeInv'
      BY <1>1, <2>2 DEF RangeInv, InHand, ScanRange, durable
    <2> QED
      BY <2>1, <2>3 DEF CoverInv
  <1>2. CASE PollGecko
    BY <1>2 DEF PollGecko
  <1>3. CASE EndRange
    <2>1. Accounted' = Accounted /\ KeyInv' /\ ClaimInv' /\ scanTo' = 0
      BY <1>3 DEF EndRange, CoverInv, KeyInv, ClaimInv, Accounted, Recorded
    <2>2. InHand = {}
      BY <1>3 DEF EndRange, SourceIdle, InHand
    <2>3. CursorCoversWork'
      <3>1. CASE cursor' = cursor
        BY <2>1, <3>1 DEF CoverInv, CursorCoversWork
      <3>2. CASE cursor' = scanTo /\ ~failed["onchain"]
        <4>1. \A c \in Candidate : BlockOf[c] \in (cursor + 1) .. scanTo => c \in Accounted
          BY <1>3, <2>2, <3>2 DEF CoverInv, RangeInv, EndRange
        <4> QED
          BY <1>0, <2>1, <3>2, <4>1 DEF CoverInv, CursorCoversWork
      <3> QED
        BY <1>3, <3>1, <3>2 DEF EndRange
    <2> QED
      BY <2>1, <2>3 DEF CoverInv, RangeInv
  <1>4. CASE Offer("onchain")
    <2>1. PICK left \in SUBSET batch["onchain"] :
            /\ queue' = [queue EXCEPT !["onchain"] =
                            {c \in batch["onchain"] \ left : ~Rejected(c)}]
            /\ claimed' = claimed \cup {c \in batch["onchain"] \ left : ~Rejected(c)}
            /\ batch' = [batch EXCEPT !["onchain"] = left]
      BY <1>4 DEF Offer
    <2>2. Accounted' = Accounted /\ KeyInv' /\ CursorCoversWork'
      BY <1>4 DEF Offer, CoverInv, KeyInv, CursorCoversWork, Accounted, Recorded, durable,
                  history
    <2>3. claimed = {}
      BY <1>4 DEF Offer, CoverInv, ClaimInv
    <2>4. \A c \in Candidate : Rejected(c) => c \in Accounted
      BY <2>3 DEF Rejected, Accounted, CoverInv, KeyInv
    <2>5. \A c \in Candidate : c \in InHand => c \in Accounted \cup InHand'
      BY <1>0, <1>4, <2>1, <2>4 DEF InHand, Offer
    <2>6. ClaimInv'
      BY <1>0, <2>1, <2>3 DEF ClaimInv
    <2>7. RangeInv'
      BY <1>4, <2>2, <2>5 DEF RangeInv, CoverInv, Offer, durable
    <2> QED
      BY <2>2, <2>6, <2>7 DEF CoverInv
  <1>5. CASE Take("onchain")
    <2>1. PICK c \in queue["onchain"] :
            /\ queue' = [queue EXCEPT !["onchain"] = @ \ {c}]
            /\ cand' = [cand EXCEPT !["onchain"] = c]
      BY <1>5 DEF Take
    <2>2. stage' = [stage EXCEPT !["onchain"] = "classify"] /\ stage["onchain"] = "idle"
          /\ UNCHANGED <<batch, claimed, scanTo, failed, cursor>>
      BY <1>5 DEF Take, durable
    <2>3. Accounted' = Accounted /\ KeyInv' /\ CursorCoversWork'
      BY <1>5 DEF Take, CoverInv, KeyInv, CursorCoversWork, Accounted, Recorded, durable,
                  history
    <2>4. InHand \subseteq InHand'
      BY <1>0, <2>1, <2>2 DEF InHand
    <2>5. ClaimInv'
      BY <1>0, <2>1, <2>2 DEF ClaimInv, CoverInv
    <2> QED
      BY <2>2, <2>3, <2>4, <2>5 DEF CoverInv, RangeInv
  <1>6. CASE Finish("onchain")
    <2>1. Accounted' = Accounted /\ KeyInv' /\ CursorCoversWork'
          /\ UNCHANGED <<batch, queue, scanTo, failed, cursor>>
      BY <1>6 DEF Finish, CoverInv, KeyInv, CursorCoversWork, Accounted, Recorded, durable,
                  history, source
    <2>2. InHand = InHand'
      BY <1>0, <1>6, <2>1 DEF InHand, Finish
    <2>3. ClaimInv'
      BY <1>0, <1>6, <2>1 DEF ClaimInv, CoverInv, Finish
    <2> QED
      BY <2>1, <2>2, <2>3 DEF CoverInv, RangeInv
  <1> QED
    BY <1>1, <1>2, <1>3, <1>4, <1>5, <1>6 DEF SourceStep

LEMMA CoverOperation ==
    ASSUME TypeInv, CoverInv, Source = {"onchain"}, NEW a \in Actor, OperationStep(a)
    PROVE  CoverInv'
  <1>0. /\ stage \in [Actor -> Stage] /\ cand \in [Actor -> Candidate \cup {None}]
        /\ failed \in [Source -> BOOLEAN]
        /\ "onchain" \in Actor /\ "onchain" \in Source /\ "pending" \notin Source
    BY DEF TypeInv, TypeOK, Actor
  <1>1. UNCHANGED <<cursor, claimed, batch, queue, scanTo, cand, aged>>
    BY OperationFrame
  <1>2. \A c \in Candidate : Recorded(c) => Recorded(c)'
    BY OperationGrows
  <1>3. \A c \in Candidate : c \in Accounted => c \in Accounted'
    BY <1>1, <1>2, OperationGrows DEF Accounted
  <1>4. recoveryKeys \subseteq Candidate
    BY DEF TypeInv, TypeOK
  <1>5. CASE a = "pending"
    <2>1. UNCHANGED <<failed, recoveryKeys>> /\ stage'["onchain"] = stage["onchain"]
      BY <1>0, <1>5, WorkerOutcome
    <2>2. \A c \in recoveryKeys' : Recorded(c)'
      BY <1>2, <1>4, <2>1 DEF CoverInv, KeyInv
    <2> QED
      BY <1>1, <1>3, <2>1, <2>2, CoverKept
  <1>6. CASE a = "onchain"
    <2>1. Outcome("onchain")
      BY <1>0, <1>6, SourceOutcome
    <2>2. KeyInv'
      BY <1>2, <1>4, <2>1 DEF Outcome, KeyInv, CoverInv, Recorded
    <2>3. stage["onchain"] # "idle"
      BY <1>6 DEF OperationStep, Classify, AnalyzeFirst, AnalyzeRecheck, Alert, Schedule,
                  MarkSeen, At
    <2>4. ClaimInv'
      BY <1>0, <1>1, <2>1, <2>3 DEF Outcome, ClaimInv, CoverInv
    <2>5. failed'["onchain"] \/ \A c \in Candidate : c \in InHand => c \in Accounted' \cup InHand'
      BY <1>0, <1>1, <2>1 DEF Outcome, InHand
    <2>6. failed["onchain"] => failed'["onchain"]
      BY <1>0, <2>1 DEF Outcome
    <2>7. RangeInv'
      BY <1>1, <1>3, <2>5, <2>6 DEF RangeInv, CoverInv
    <2>8. CursorCoversWork'
      BY <1>1, <1>3 DEF CursorCoversWork, CoverInv
    <2> QED
      BY <2>2, <2>4, <2>7, <2>8 DEF CoverInv
  <1> QED
    BY <1>5, <1>6 DEF Actor

LEMMA CoverRest ==
    ASSUME TypeInv, CoverInv, Source = {"onchain"},
           \/ \E a \in Actor : AckLost(a)
           \/ WorkerStep
           \/ Exit \/ Crash
           \/ \E c \in Candidate : Age(c) \/ ExpireSeen(c)
    PROVE  CoverInv'
  <1>0. recoveryKeys \subseteq Candidate
    BY DEF TypeInv, TypeOK
  <1>1. ASSUME NEW a \in Actor, AckLost(a) PROVE CoverInv'
    <2>1. UNCHANGED <<seen, checks, recoveryKeys, aged, cursor, claimed, batch, queue, scanTo,
                      failed, stage, cand>>
      BY <1>1 DEF AckLost, durable, source
    <2> QED
      BY <2>1, CoverKept DEF CoverInv, KeyInv, Accounted, Recorded
  <1>2. CASE WorkerStep
    <2>1. /\ UNCHANGED <<seen, aged, cursor, claimed, batch, queue, scanTo, failed>>
          /\ stage'["onchain"] = stage["onchain"] /\ cand'["onchain"] = cand["onchain"]
          /\ \A c \in Candidate : Recorded(c) => Recorded(c)'
      BY <1>2, WorkerGrows DEF source
    <2>2. \A c \in recoveryKeys' : Recorded(c)'
      BY <1>0, <1>2, <2>1, WorkerGrows DEF CoverInv, KeyInv
    <2> QED
      BY <2>1, <2>2, CoverKept DEF Accounted
  <1>3. CASE Exit \/ Crash
    <2>1. Restarted
      BY <1>3 DEF Exit, Crash
    <2>2. ClaimInv' /\ RangeInv'
      BY <2>1 DEF Restarted, ClaimInv, RangeInv
    <2>3. KeyInv'
      BY <2>1 DEF Restarted, KeyInv, ActiveRecoveryKeys, Pending, Recorded, durable
    <2>4. CursorCoversWork'
      BY <2>1 DEF Restarted, CoverInv, CursorCoversWork, Accounted, Recorded, durable
    <2> QED
      BY <2>2, <2>3, <2>4 DEF CoverInv
  <1>4. ASSUME NEW c \in Candidate, Age(c) \/ ExpireSeen(c) PROVE CoverInv'
    <2>1. UNCHANGED <<checks, recoveryKeys, cursor, claimed, batch, queue, scanTo, failed,
                      stage, cand>>
      BY <1>4 DEF Age, ExpireSeen, durable, source, history
    <2>2. \A d \in Candidate : d \in Accounted => d \in Accounted'
      BY <1>4, <2>1 DEF Age, ExpireSeen, Accounted, Recorded, durable, history
    <2> QED
      BY <2>1, <2>2, CoverKept DEF CoverInv, KeyInv, Recorded
  <1> QED
    BY <1>1, <1>2, <1>3, <1>4

LEMMA CoverStep ==
    ASSUME TypeInv, CoverInv, Source = {"onchain"}, [Next]_vars PROVE CoverInv'
  <1>1. CASE UNCHANGED vars
    BY <1>1 DEF vars, CoverInv, ClaimInv, KeyInv, RangeInv, CursorCoversWork, InHand,
                Accounted, Recorded
  <1>2. CASE Next
    BY <1>2, CoverSource, CoverOperation, CoverRest DEF Next
  <1> QED
    BY <1>1, <1>2

(* With the onchain source alone, the durable cursor never passes a        *)
(* candidate that is not marked seen, not recorded as a recovery and still *)
(* young enough to be alerted on -- for every chain, every interleaving    *)
(* with the worker and every sequence of crashes and failed writes.        *)
THEOREM CursorSafe ==
    ASSUME Source = {"onchain"}
    PROVE  Spec => []CursorCoversWork
  <1>1. Init => TypeInv /\ CoverInv
    <2>1. Init => CoverInv
      BY PipelineAssumption
      DEF Init, CoverInv, ClaimInv, KeyInv, RangeInv, CursorCoversWork
    <2> QED
      BY <2>1, InitTypeInv
  <1>2. TypeInv /\ CoverInv /\ [Next]_vars => TypeInv' /\ CoverInv'
    BY NextTypeInv, CoverStep
  <1>3. CoverInv => CursorCoversWork
    BY DEF CoverInv
  <1> QED
    BY <1>1, <1>2, <1>3, PTL DEF Spec
-----------------------------------------------------------------------------
(* The refinement, when the onchain source is the only one.                *)

(* A recheck never reaches the stages that write what a first operation    *)
(* writes.                                                                 *)
RecheckInv ==
    stage["pending"] \in {"classify", "schedule", "seen"} => kind = "recovery"

(* What the source holds lies above the cursor.                            *)
AboveInv ==
    /\ scanTo # 0 => scanTo > cursor
    /\ \A c \in InHand : BlockOf[c] > cursor

RefineInv == TypeInv /\ CoverInv /\ RecheckInv /\ AboveInv

(* What a turn of an operation does to the state file.                     *)
LEMMA OperationWrites ==
    ASSUME TypeInv, NEW a \in Actor, OperationStep(a)
    PROVE  /\ cand[a] \in Candidate
           /\ \A d \in Candidate : d # cand[a] =>
                /\ d \in seen' <=> d \in seen
                /\ checks'["recovery"][d].status = checks["recovery"][d].status
           /\ \/ /\ seen' = seen
                 /\ checks'["recovery"][cand[a]].status = checks["recovery"][cand[a]].status
              \/ /\ a \in Source
                 /\ seen' = seen
                 /\ checks'["recovery"][cand[a]].status = "pending"
              \/ /\ stage[a] = "seen"
                 /\ seen' = seen \cup {cand[a]}
                 /\ checks'["recovery"][cand[a]].status = checks["recovery"][cand[a]].status
  <1> DEFINE c == cand[a]
             Same == seen' = seen /\ \A d \in Candidate :
                         checks'["recovery"][d].status = checks["recovery"][d].status
             Deferred == /\ a \in Source /\ seen' = seen
                         /\ checks'["recovery"][c].status = "pending"
                         /\ \A d \in Candidate : d # c =>
                              checks'["recovery"][d].status = checks["recovery"][d].status
             Marked == /\ stage[a] = "seen" /\ seen' = seen \cup {c}
                       /\ \A d \in Candidate :
                            checks'["recovery"][d].status = checks["recovery"][d].status
  <1>0. /\ checks \in [Kind -> [Candidate -> Check]]
        /\ "recovery" \in Kind /\ "recheck" \in Kind
        /\ c \in Candidate
    BY OperationFacts
    DEF TypeInv, TypeOK, Kind, Stage, OperationStep, Classify, AnalyzeFirst, AnalyzeRecheck,
        Alert, Schedule, MarkSeen
  <1>1. ASSUME a \in Source, Defer(a), seen' = seen PROVE Same \/ Deferred
    <2>1. CASE checks' = checks
      BY <1>1, <2>1
    <2>2. CASE checks' = [checks EXCEPT !["recovery"][c] = FreshCheck]
      <3>1. \A d \in Candidate :
              checks'["recovery"][d] = IF d = c THEN FreshCheck ELSE checks["recovery"][d]
        BY <1>0, <2>2, CheckUpdate, FreshCheckType
      <3> QED
        BY <1>0, <1>1, <3>1 DEF FreshCheck
    <2> QED
      BY <1>1, <2>1, <2>2 DEF Defer
  <1>2. ASSUME Throw(a) \/ (\E why : ThrowUnexpected(a, why)), seen' = seen
        PROVE  Same \/ Deferred
    BY <1>1, <1>2 DEF Throw, ThrowRetryable, ThrowUnexpected
  <1>3. CASE Classify(a) \/ AnalyzeFirst(a) \/ AnalyzeRecheck(a) \/ Alert(a)
    <2>1. seen' = seen
      BY <1>3 DEF Classify, AnalyzeFirst, AnalyzeRecheck, Alert, durable
    <2>2. checks' = checks \/ Throw(a)
      BY <1>3 DEF Classify, AnalyzeFirst, AnalyzeRecheck, Alert, durable, Quietly
    <2>3. Same \/ Deferred
      BY <1>2, <2>1, <2>2
    <2> QED
      BY <1>0, <2>3
  <1>4. CASE Schedule(a)
    <2>1. seen' = seen
      BY <1>4 DEF Schedule
    <2>2. CASE ThrowUnexpected(a, "disk")
      <3>1. Same \/ Deferred
        BY <1>2, <2>1, <2>2
      <3> QED
        BY <1>0, <3>1
    <2>3. CASE checks' = checks
      BY <1>0, <2>1, <2>3
    <2>4. CASE checks' = [checks EXCEPT !["recheck"][c] = FreshCheck]
      <3>1. \A d \in Candidate : checks'["recovery"][d] = checks["recovery"][d]
        BY <1>0, <2>4, CheckUpdate, FreshCheckType
      <3> QED
        BY <1>0, <2>1, <3>1
    <2> QED
      BY <1>4, <2>2, <2>3, <2>4 DEF Schedule
  <1>5. CASE MarkSeen(a)
    <2>1. CASE ThrowUnexpected(a, "disk") /\ UNCHANGED seen
      <3>1. Same \/ Deferred
        BY <1>2, <2>1
      <3> QED
        BY <1>0, <3>1
    <2>2. CASE seen' = seen \cup {c} /\ Quietly
      <3>1. Marked
        BY <1>5, <2>2 DEF MarkSeen, At, Quietly
      <3> QED
        BY <1>0, <3>1
    <2> QED
      BY <1>5, <2>1, <2>2 DEF MarkSeen
  <1> QED
    BY <1>3, <1>4, <1>5 DEF OperationStep

LEMMA RecheckInvStep ==
    ASSUME TypeInv, RecheckInv, [Next]_vars PROVE RecheckInv'
  <1>0. stage \in [Actor -> Stage] /\ "pending" \in Actor /\ "pending" \notin Source
    BY PipelineAssumption DEF TypeInv, TypeOK, Actor
  <1>1. CASE UNCHANGED <<stage, kind>>
    BY <1>1 DEF RecheckInv
  <1>2. ASSUME NEW s \in Source, SourceStep(s) PROVE RecheckInv'
    <2>1. kind' = kind /\ stage'["pending"] = stage["pending"]
      BY <1>0, <1>2 DEF SourceStep, Offer, Take, Finish
    <2> QED
      BY <2>1 DEF RecheckInv
  <1>3. ASSUME NEW a \in Actor, OperationStep(a) PROVE RecheckInv'
    <2>1. kind' = kind
      BY <1>3, OperationFrame
    <2>2. CASE a # "pending"
      <3>1. stage'["pending"] = stage["pending"]
        <4>1. Outcome(a)
          BY <1>3, <2>2, SourceOutcome DEF Actor
        <4> QED
          BY <1>0, <2>2, <4>1 DEF Outcome
      <3> QED
        BY <2>1, <3>1 DEF RecheckInv
    <2>3. CASE a = "pending"
      <3>1. CASE kind = "recheck"
        <4>1. \E st \in {"alert", "complete", "again", "retry"} :
                stage' = [stage EXCEPT !["pending"] = st]
          BY <1>0, <1>3, <2>3, <3>1
          DEF RecheckInv, OperationStep, Classify, AnalyzeFirst, AnalyzeRecheck, Alert,
              Schedule, MarkSeen, IsRecheck, At, Throw, ThrowRetryable, ThrowUnexpected,
              GoTo, Leave
        <4> QED
          BY <1>0, <4>1 DEF RecheckInv
      <3>2. CASE kind # "recheck"
        <4>1. stage["pending"] # "idle"
          BY <1>3, <2>3 DEF OperationStep, Classify, AnalyzeFirst, AnalyzeRecheck, Alert,
                            Schedule, MarkSeen, At
        <4> QED
          BY <2>1, <3>2, <4>1 DEF RecheckInv, TypeInv, StageInv, Kind
      <3> QED
        BY <3>1, <3>2
    <2> QED
      BY <2>2, <2>3
  <1>4. CASE WorkerStep
    <2>1. CASE SelectDue
      BY <2>1 DEF SelectDue, RecheckInv
    <2>2. CASE StartCheck
      <3>1. PICK e \in due :
              /\ kind' = e[1]
              /\ stage' = [stage EXCEPT !["pending"] =
                             IF e[1] = "recovery" THEN "classify" ELSE "analyze"]
        BY <2>2 DEF StartCheck
      <3> QED
        BY <1>0, <3>1 DEF RecheckInv
    <2>3. CASE \E st \in {"idle", "retry", "down"} : stage' = [stage EXCEPT !["pending"] = st]
      BY <1>0, <2>3 DEF RecheckInv
    <2> QED
      BY <1>4, <2>1, <2>2, <2>3 DEF WorkerStep, Complete, Again, Retry, Write, WriteFails
  <1>5. CASE Exit \/ Crash
    BY <1>0, <1>5 DEF Exit, Crash, Restarted, RecheckInv
  <1>6. CASE ScanRange \/ PollGecko \/ EndRange \/ (\E a \in Actor : AckLost(a))
             \/ (\E c \in Candidate : Age(c) \/ ExpireSeen(c)) \/ UNCHANGED vars
    <2>1. UNCHANGED <<stage, kind>>
      BY <1>6 DEF ScanRange, PollGecko, EndRange, AckLost, Age, ExpireSeen, vars
    <2> QED
      BY <1>1, <2>1
  <1> QED
    BY <1>2, <1>3, <1>4, <1>5, <1>6 DEF Next

LEMMA AboveInvStep ==
    ASSUME RefineInv, Source = {"onchain"}, [Next]_vars PROVE AboveInv'
  <1>0. /\ batch \in [Source -> SUBSET Candidate] /\ queue \in [Source -> SUBSET Candidate]
        /\ stage \in [Actor -> Stage] /\ cand \in [Actor -> Candidate \cup {None}]
        /\ cursor \in Nat /\ scanTo \in Nat /\ BlockOf \in [Candidate -> Nat]
        /\ "onchain" \in Source /\ "onchain" \in Actor
    BY PipelineAssumption DEF RefineInv, TypeInv, TypeOK, Actor
  <1>1. ASSUME UNCHANGED <<cursor, scanTo>>, \A c \in Candidate : c \in InHand' => c \in InHand
        PROVE  AboveInv'
    <2>1. \A c \in InHand' : c \in Candidate
      <3>1. TypeInv'
        BY NextTypeInv DEF RefineInv
      <3> QED
        BY <1>0, <3>1 DEF InHand, TypeInv, TypeOK
    <2> QED
      BY <1>1, <2>1 DEF AboveInv, RefineInv
  <1>2. CASE ScanRange
    <2>1. queue["onchain"] = {} /\ stage["onchain"] = "idle"
          /\ UNCHANGED <<queue, stage, cursor>>
      BY <1>2 DEF ScanRange, SourceIdle, durable
    <2>2. PICK to \in (cursor + 1) .. LastBlock :
            /\ scanTo' = to
            /\ batch' = [batch EXCEPT !["onchain"] =
                            {c \in Candidate : BlockOf[c] \in (cursor + 1) .. to}]
      BY <1>2 DEF ScanRange
    <2>3. InHand' = {c \in Candidate : BlockOf[c] \in (cursor + 1) .. to}
      BY <1>0, <2>1, <2>2 DEF InHand
    <2> QED
      BY <1>0, <2>1, <2>2, <2>3 DEF AboveInv
  <1>3. CASE PollGecko
    BY <1>3 DEF PollGecko
  <1>4. CASE EndRange
    <2>1. InHand' = {} /\ scanTo' = 0
      BY <1>0, <1>4 DEF EndRange, SourceIdle, InHand
    <2> QED
      BY <2>1 DEF AboveInv
  <1>5. ASSUME NEW s \in Source, SourceStep(s) PROVE AboveInv'
    <2>0. s = "onchain"
      OBVIOUS
    <2>1. CASE Offer(s)
      <3>1. UNCHANGED <<cursor, scanTo, stage, cand>>
        BY <2>1 DEF Offer, durable
      <3>2. \A c \in Candidate : c \in batch'[s] \cup queue'[s] => c \in batch[s]
        BY <1>0, <2>1 DEF Offer
      <3> QED
        BY <1>1, <2>0, <3>1, <3>2 DEF InHand
    <2>2. CASE Take(s)
      <3>1. PICK c \in queue[s] : /\ queue' = [queue EXCEPT ![s] = @ \ {c}]
                                 /\ cand' = [cand EXCEPT ![s] = c]
        BY <2>2 DEF Take
      <3>2. UNCHANGED <<cursor, scanTo, batch>>
        BY <2>2 DEF Take, durable
      <3> QED
        BY <1>0, <1>1, <2>0, <3>1, <3>2 DEF InHand
    <2>3. CASE Finish(s)
      BY <1>0, <1>1, <2>0, <2>3 DEF Finish, InHand, durable, source
    <2> QED
      BY <1>5, <2>1, <2>2, <2>3 DEF SourceStep
  <1>6. ASSUME NEW a \in Actor, OperationStep(a) PROVE AboveInv'
    <2>1. UNCHANGED <<cursor, scanTo, batch, queue, cand>>
      BY <1>6, OperationFrame
    <2>2. stage["onchain"] \in {"idle", "finish"} => stage'["onchain"] = stage["onchain"]
      <3>1. stage[a] \notin {"idle", "finish"}
        BY <1>6 DEF OperationStep, Classify, AnalyzeFirst, AnalyzeRecheck, Alert, Schedule,
                    MarkSeen, At
      <3>2. \E st \in Stage : stage' = [stage EXCEPT ![a] = st]
        <4>1. CASE a = "pending"
          BY <1>6, <4>1, WorkerOutcome DEF RefineInv
        <4>2. CASE a # "pending"
          <5>1. Outcome(a)
            BY <1>6, <4>2, SourceOutcome DEF Actor, RefineInv
          <5> QED
            BY <5>1 DEF Outcome, Stage
        <4> QED
          BY <4>1, <4>2
      <3> QED
        BY <1>0, <3>1, <3>2
    <2> QED
      BY <1>1, <2>1, <2>2 DEF InHand
  <1>7. CASE WorkerStep
    <2>1. UNCHANGED <<cursor, scanTo, batch, queue>> /\ stage'["onchain"] = stage["onchain"]
          /\ cand'["onchain"] = cand["onchain"]
      BY <1>0, <1>7, WorkerGrows DEF source, RefineInv
    <2> QED
      BY <1>1, <2>1 DEF InHand
  <1>8. CASE Exit \/ Crash
    BY <1>0, <1>8 DEF Exit, Crash, Restarted, AboveInv, InHand
  <1>9. CASE (\E a \in Actor : AckLost(a)) \/ (\E c \in Candidate : Age(c) \/ ExpireSeen(c))
             \/ UNCHANGED vars
    <2>1. UNCHANGED <<cursor, scanTo, batch, queue, stage, cand>>
      BY <1>9 DEF AckLost, Age, ExpireSeen, vars, durable, source
    <2> QED
      BY <1>1, <2>1 DEF InHand
  <1> QED
    BY <1>2, <1>3, <1>4, <1>5, <1>6, <1>7, <1>8, <1>9 DEF Next

(* How the recorded status follows the parts of the state file.            *)
LEMMA StatusKept ==
    ASSUME NEW c \in Candidate,
           c \in seen' <=> c \in seen, c \in aged' <=> c \in aged,
           checks'["recovery"][c].status = checks["recovery"][c].status
    PROVE  HandoffStatus'[c] = HandoffStatus[c]
  BY DEF HandoffStatus

LEMMA StatusStutter ==
    ASSUME UNCHANGED cursor, \A c \in Candidate : HandoffStatus'[c] = HandoffStatus[c]
    PROVE  UNCHANGED Handoff!vars
  <1>1. HandoffStatus' = HandoffStatus
    BY DEF HandoffStatus
  <1> QED
    BY <1>1 DEF Handoff!vars

LEMMA StatusBecomes ==
    ASSUME NEW c \in Candidate, UNCHANGED cursor,
           \A d \in Candidate : d # c => HandoffStatus'[d] = HandoffStatus[d]
    PROVE  Handoff!Become(c, HandoffStatus'[c])
  <1>1. HandoffStatus' = [HandoffStatus EXCEPT ![c] = HandoffStatus'[c]]
    BY DEF HandoffStatus
  <1> QED
    BY <1>1 DEF Handoff!Become

(* A turn of the source hands its candidate over, and a turn of the worker *)
(* writes nothing new: the recovery it runs is still pending.              *)
LEMMA OperationRefines ==
    ASSUME RefineInv, Source = {"onchain"}, NEW a \in Actor, OperationStep(a)
    PROVE  [Handoff!Next]_(Handoff!vars)
  <1> DEFINE c == cand[a]
  <1>1. UNCHANGED <<cursor, aged>>
    BY OperationFrame
  <1>2. /\ c \in Candidate
        /\ \A d \in Candidate : d # c => HandoffStatus'[d] = HandoffStatus[d]
    BY <1>1, OperationWrites, StatusKept DEF RefineInv
  <1>3. CASE HandoffStatus'[c] = HandoffStatus[c]
    BY <1>1, <1>2, <1>3, StatusStutter
  <1>4. CASE /\ a \in Source
             /\ HandoffStatus'[c] \in {"settled", "deferred"}
    <2>1. BlockOf[c] > cursor
      <3>1. stage[a] \notin {"idle", "finish"}
        BY DEF OperationStep, Classify, AnalyzeFirst, AnalyzeRecheck, Alert, Schedule,
               MarkSeen, At
      <3> QED
        BY <1>2, <1>4, <3>1 DEF InHand, AboveInv, RefineInv
    <2>2. Handoff!Become(c, HandoffStatus'[c])
      BY <1>1, <1>2, StatusBecomes
    <2>3. Handoff!Handle(c)
      BY <1>4, <2>1, <2>2 DEF Handoff!Handle
    <2> QED
      BY <1>2, <2>3 DEF Handoff!Next
  <1>5. CASE a \in Source /\ checks'["recovery"][c].status = "pending"
    BY <1>2, <1>4, <1>5 DEF HandoffStatus
  <1>6. CASE /\ stage[a] = "seen" /\ seen' = seen \cup {c}
             /\ checks'["recovery"][c].status = checks["recovery"][c].status
    <2>1. CASE a \in Source
      BY <1>2, <1>4, <1>6, <2>1 DEF HandoffStatus
    <2>2. CASE a = "pending"
      <3>1. checks["recovery"][c].status = "pending"
        BY <1>6, <2>2 DEF RefineInv, RecheckInv, TypeInv, StageInv, Pending
      <3> QED
        BY <1>2, <1>3, <1>6, <3>1 DEF HandoffStatus
    <2> QED
      BY <2>1, <2>2 DEF Actor
  <1>7. CASE /\ seen' = seen
             /\ checks'["recovery"][c].status = checks["recovery"][c].status
    BY <1>1, <1>2, <1>3, <1>7, StatusKept
  <1> QED
    BY <1>5, <1>6, <1>7, OperationWrites DEF RefineInv

(* The one write of the worker that tells resolves a deferred candidate.   *)
LEMMA WorkerRefines ==
    ASSUME RefineInv, WorkerStep
    PROVE  [Handoff!Next]_(Handoff!vars)
  <1> DEFINE c == cand["pending"]
  <1>1. UNCHANGED <<seen, cursor, aged>>
    BY WorkerGrows DEF RefineInv
  <1>2. CASE UNCHANGED checks
    BY <1>1, <1>2, StatusKept, StatusStutter
  <1>3. ASSUME stage["pending"] # "idle", NEW st \in {"pending", "completed", "failed"},
               NEW att, Write(st, att)
        PROVE  [Handoff!Next]_(Handoff!vars)
    <2>1. /\ kind \in Kind /\ c \in Candidate /\ Pending(kind, c)
          /\ checks \in [Kind -> [Candidate -> Check]]
      BY <1>3 DEF RefineInv, TypeInv, TypeOK, StageInv, Actor
    <2>2. checks' = [checks EXCEPT ![kind][c] = [status |-> st, attempts |-> att]]
      BY <1>3 DEF Write
    <2>3. CASE kind = "recheck"
      <3>1. \A d \in Candidate : checks'["recovery"][d] = checks["recovery"][d]
        BY <2>1, <2>2, <2>3 DEF Kind
      <3> QED
        BY <1>1, <3>1, StatusKept, StatusStutter
    <2>4. CASE kind = "recovery"
      <3>1. /\ \A d \in Candidate : d # c => checks'["recovery"][d] = checks["recovery"][d]
            /\ checks'["recovery"][c].status = st
        BY <2>1, <2>2, <2>4 DEF Kind
      <3>2. HandoffStatus[c] = "deferred"
        BY <2>1, <2>4 DEF HandoffStatus, Pending
      <3>3. \A d \in Candidate : d # c => HandoffStatus'[d] = HandoffStatus[d]
        BY <1>1, <3>1, StatusKept
      <3>4. HandoffStatus'[c] \in {"deferred", "settled", "abandoned"}
        BY <2>1, <3>1 DEF HandoffStatus
      <3>5. CASE HandoffStatus'[c] = "deferred"
        BY <1>1, <3>2, <3>3, <3>5, StatusStutter
      <3>6. CASE HandoffStatus'[c] # "deferred"
        <4>1. Handoff!Become(c, HandoffStatus'[c])
          BY <1>1, <2>1, <3>3, StatusBecomes
        <4>2. Handoff!Resolve(c)
          BY <3>2, <3>4, <3>6, <4>1 DEF Handoff!Resolve
        <4> QED
          BY <2>1, <4>2 DEF Handoff!Next
      <3> QED
        BY <3>5, <3>6
    <2> QED
      BY <2>1, <2>3, <2>4 DEF Kind
  <1>4. CASE SelectDue \/ StartCheck
    BY <1>2, <1>4 DEF SelectDue, StartCheck, durable
  <1>5. CASE \E st \in {"retry", "down"} : WriteFails(st)
    BY <1>2, <1>5 DEF WriteFails
  <1>6. CASE Complete \/ Again
    BY <1>3, <1>5, <1>6 DEF Complete, Again
  <1>7. CASE Retry
    <2>1. CASE WriteFails("down")
      BY <1>5, <2>1
    <2>2. CASE Write(IF Attempted >= MaxAttempts THEN "failed" ELSE "pending", Attempted)
      <3> DEFINE st == IF Attempted >= MaxAttempts THEN "failed" ELSE "pending"
      <3>1. st \in {"pending", "completed", "failed"} /\ stage["pending"] # "idle"
            /\ Write(st, Attempted)
        BY <1>7, <2>2 DEF Retry
      <3> HIDE DEF st
      <3> QED
        BY <1>3, <3>1
    <2> QED
      BY <1>7, <2>1, <2>2 DEF Retry
  <1> QED
    BY <1>4, <1>6, <1>7 DEF WorkerStep

(* The cursor moves to the end of a range none of whose candidates is open. *)
LEMMA EndRangeRefines ==
    ASSUME RefineInv, Source = {"onchain"}, EndRange
    PROVE  [Handoff!Next]_(Handoff!vars)
  <1>0. /\ checks \in [Kind -> [Candidate -> Check]] /\ "recovery" \in Kind
        /\ cursor \in Nat /\ scanTo \in 0 .. LastBlock
        /\ LastBlock \in Nat /\ BlockOf \in [Candidate -> Nat]
    BY PipelineAssumption DEF RefineInv, TypeInv, TypeOK, Kind
  <1>1. HandoffStatus' = HandoffStatus
    BY DEF EndRange, HandoffStatus
  <1>2. CASE UNCHANGED cursor
    BY <1>1, <1>2, StatusStutter
  <1>3. CASE ~failed["onchain"] /\ cursor' = scanTo
    <2>1. scanTo > cursor /\ scanTo \in 1 .. LastBlock
      BY <1>0 DEF EndRange, RefineInv, AboveInv
    <2>2. InHand = {}
      BY DEF EndRange, SourceIdle, InHand
    <2>3. ASSUME NEW c \in Candidate, BlockOf[c] \in (cursor + 1) .. scanTo
          PROVE  HandoffStatus[c] # "open"
      <3>1. c \in Accounted
        BY <1>3, <2>2, <2>3 DEF EndRange, RefineInv, CoverInv, RangeInv
      <3>2. checks["recovery"][c].status \in Status
        BY <1>0 DEF Check
      <3> QED
        BY <3>1, <3>2 DEF Accounted, Recorded, HandoffStatus, Status
    <2>4. Handoff!Advance(scanTo)
      BY <1>1, <1>3, <2>1, <2>3 DEF Handoff!Advance
    <2> QED
      BY <2>1, <2>4 DEF Handoff!Next
  <1> QED
    BY <1>2, <1>3 DEF EndRange

(* Aging and the expiry of a seen entry are the abstract expiries.         *)
LEMMA ExpiryRefines ==
    ASSUME RefineInv, NEW c \in Candidate, Age(c) \/ ExpireSeen(c)
    PROVE  [Handoff!Next]_(Handoff!vars)
  <1>0. checks["recovery"][c].status \in Status
    BY DEF RefineInv, TypeInv, TypeOK, Kind, Check
  <1>1. UNCHANGED <<checks, cursor>>
    BY DEF Age, ExpireSeen, durable, history
  <1>2. \A d \in Candidate : d # c => HandoffStatus'[d] = HandoffStatus[d]
    BY <1>1, StatusKept DEF Age, ExpireSeen, durable, history
  <1>3. CASE HandoffStatus'[c] = HandoffStatus[c]
    BY <1>1, <1>2, <1>3, StatusStutter
  <1>4. CASE HandoffStatus'[c] # HandoffStatus[c]
    <2>1. \/ HandoffStatus[c] = "open" /\ HandoffStatus'[c] = "expired"
          \/ HandoffStatus[c] = "settled" /\ HandoffStatus'[c] \in {"expired", "abandoned"}
      <3>1. CASE Age(c)
        BY <1>0, <1>1, <1>4, <3>1 DEF Age, durable, HandoffStatus, Status
      <3>2. CASE ExpireSeen(c)
        BY <1>0, <1>1, <1>4, <3>2 DEF ExpireSeen, history, HandoffStatus, Status
      <3> QED
        BY <3>1, <3>2
    <2>2. Handoff!Become(c, HandoffStatus'[c])
      BY <1>1, <1>2, StatusBecomes
    <2>3. Handoff!Expire(c)
      BY <2>1, <2>2 DEF Handoff!Expire
    <2> QED
      BY <2>3 DEF Handoff!Next
  <1> QED
    BY <1>3, <1>4

(* With the onchain source alone, the process implements CandidateHandoff: *)
(* through crashes, failed writes and late failures of the worker, a       *)
(* candidate only moves along the abstract steps, and the durable cursor   *)
(* only passes what is no longer open.                                     *)
THEOREM ImplementsHandoff ==
    ASSUME Source = {"onchain"}
    PROVE  Spec => HandoffSpec
  <1>1. Init => RefineInv /\ Handoff!Init
    <2>1. Init => CoverInv
      BY PipelineAssumption
      DEF Init, CoverInv, ClaimInv, KeyInv, RangeInv, CursorCoversWork
    <2>2. Init => RecheckInv /\ AboveInv
      BY DEF Init, RecheckInv, AboveInv, InHand, Actor
    <2>3. Init => Handoff!Init
      BY DEF Init, Handoff!Init, HandoffStatus, Kind, NoCheck
    <2> QED
      BY <2>1, <2>2, <2>3, InitTypeInv DEF RefineInv
  <1>2. RefineInv /\ [Next]_vars => RefineInv'
    <2> SUFFICES ASSUME RefineInv, [Next]_vars PROVE RefineInv'
      OBVIOUS
    <2>1. TypeInv' /\ CoverInv'
      BY NextTypeInv, CoverStep DEF RefineInv
    <2> QED
      BY <2>1, RecheckInvStep, AboveInvStep DEF RefineInv
  <1>3. RefineInv /\ [Next]_vars => [Handoff!Next]_(Handoff!vars)
    <2> SUFFICES ASSUME RefineInv, [Next]_vars PROVE [Handoff!Next]_(Handoff!vars)
      OBVIOUS
    <2>1. CASE UNCHANGED <<durable, aged>>
      BY <2>1, StatusKept, StatusStutter DEF durable
    <2>2. CASE ScanRange \/ PollGecko \/ (\E s \in Source : SourceStep(s))
               \/ (\E a \in Actor : AckLost(a)) \/ Exit \/ Crash \/ UNCHANGED vars
      <3>1. UNCHANGED <<durable, aged>>
        BY <2>2 DEF ScanRange, PollGecko, SourceStep, Offer, Take, Finish, AckLost, Exit,
                    Crash, Restarted, vars, durable, history
      <3> QED
        BY <2>1, <3>1
    <2> QED
      BY <2>2, OperationRefines, WorkerRefines, EndRangeRefines, ExpiryRefines DEF Next
  <1> QED
    BY <1>1, <1>2, <1>3, PTL DEF Spec, HandoffSpec, Handoff!Spec
-----------------------------------------------------------------------------
(* What one turn of an operation does, on any actor: the nine outcomes the *)
(* remaining invariants tell apart, for a candidate c == cand[a].          *)

StoreKept == UNCHANGED <<checks, recoveryKeys, faults>>

(* The first turn forgets what an earlier operation found unknown.         *)
UnknownCleared(a) ==
    unknown' = IF stage[a] = "classify" THEN unknown \ {cand[a]} ELSE unknown

Proceeds(a) ==
    /\ ~IsRecheck(a)
    /\ \/ stage[a] = "classify" /\ stage' = [stage EXCEPT ![a] = "seen"]
       \/ /\ stage[a] = "classify" /\ stage' = [stage EXCEPT ![a] = "analyze"]
          /\ cand[a] \notin aged
       \/ stage[a] = "analyze" /\ stage' = [stage EXCEPT ![a] = "alert"]
       \/ stage[a] = "analyze" /\ stage' = [stage EXCEPT ![a] = "seen"]
    /\ UnknownCleared(a)
    /\ StoreKept /\ UNCHANGED <<seen, alerts>>

FindsUnknown(a) ==
    /\ ~IsRecheck(a)
    /\ stage[a] = "analyze" /\ stage' = [stage EXCEPT ![a] = "schedule"]
    /\ unknown' = unknown \cup {cand[a]}
    /\ StoreKept /\ UNCHANGED <<seen, alerts>>

Rechecks(a) ==
    /\ IsRecheck(a) /\ stage[a] = "analyze"
    /\ \E st \in {"alert", "complete", "again", "retry"} :
         stage' = [stage EXCEPT ![a] = st]
    /\ StoreKept /\ UNCHANGED <<seen, alerts, unknown>>

Tells(a) ==
    /\ stage[a] = "alert"
    /\ stage' = [stage EXCEPT ![a] = IF IsRecheck(a) THEN "complete" ELSE "seen"]
    /\ alerts' = [alerts EXCEPT ![cand[a]] = @ + 1]
    /\ StoreKept /\ UNCHANGED <<seen, unknown>>

Records(a) ==
    /\ ~IsRecheck(a)
    /\ stage[a] = "schedule" /\ stage' = [stage EXCEPT ![a] = "seen"]
    /\ checks' = IF checks["recheck"][cand[a]].status = "none"
                   THEN [checks EXCEPT !["recheck"][cand[a]] = FreshCheck]
                   ELSE checks
    /\ UNCHANGED <<recoveryKeys, faults, seen, alerts, unknown>>

Marks(a) ==
    /\ ~IsRecheck(a)
    /\ stage[a] = "seen"
    /\ stage' = [stage EXCEPT ![a] = IF a = "pending" THEN "complete" ELSE "finish"]
    /\ seen' = seen \cup {cand[a]}
    /\ StoreKept /\ UNCHANGED <<alerts, unknown>>

HandsOver(a) ==
    /\ a \in Source /\ stage[a] \in {"classify", "analyze", "alert"}
    /\ stage' = [stage EXCEPT ![a] = "finish"]
    /\ checks' = IF Pending("recovery", cand[a]) THEN checks
                   ELSE [checks EXCEPT !["recovery"][cand[a]] = FreshCheck]
    /\ recoveryKeys' = recoveryKeys \cup {cand[a]}
    /\ UnknownCleared(a)
    /\ UNCHANGED <<faults, seen, alerts>>

GivesBack(a) ==
    /\ a = "pending" /\ stage[a] \in {"classify", "analyze", "alert"}
    /\ stage' = [stage EXCEPT ![a] = "retry"]
    /\ UnknownCleared(a)
    /\ StoreKept /\ UNCHANGED <<seen, alerts>>

Breaks(a) ==
    /\ stage[a] \in {"classify", "analyze", "alert", "schedule", "seen"}
    /\ stage' = [stage EXCEPT ![a] = IF a \in Source THEN "finish"
                                     ELSE IF kind = "recheck" THEN "retry" ELSE "down"]
    /\ faults' = faults + 1
    /\ UnknownCleared(a)
    /\ UNCHANGED <<checks, recoveryKeys, seen, alerts>>

Turn(a) ==
    \/ Proceeds(a) \/ FindsUnknown(a) \/ Rechecks(a) \/ Tells(a) \/ Records(a)
    \/ Marks(a) \/ HandsOver(a) \/ GivesBack(a) \/ Breaks(a)

LEMMA ThrowTurn ==
    ASSUME NEW a \in Actor, stage[a] \in {"classify", "analyze", "alert"}, Throw(a),
           UnknownCleared(a), UNCHANGED <<seen, alerts>>
    PROVE  Turn(a)
  <1>1. CASE a \in Source /\ Defer(a)
    BY <1>1 DEF Defer, Leave, Fault, Turn, HandsOver, Breaks
  <1>2. CASE a \notin Source /\ Leave(a, "retry") /\ Quietly
    BY <1>2 DEF Leave, Quietly, Turn, GivesBack, StoreKept, Actor
  <1>3. CASE ThrowUnexpected(a, "unexpected")
    BY <1>3 DEF ThrowUnexpected, Leave, Fault, Turn, Breaks
  <1> QED
    BY <1>1, <1>2, <1>3 DEF Throw, ThrowRetryable, Quietly

LEMMA BreakTurn ==
    ASSUME NEW a \in Actor, stage[a] \in {"schedule", "seen"}, ThrowUnexpected(a, "disk"),
           UNCHANGED <<seen, alerts, unknown>>
    PROVE  Breaks(a)
  BY DEF ThrowUnexpected, Leave, Fault, Breaks, UnknownCleared

LEMMA OperationTurn ==
    ASSUME TypeInv, RecheckInv, NEW a \in Actor, OperationStep(a)
    PROVE  Turn(a)
  <1>0. "pending" \notin Source
    BY PipelineAssumption
  <1>1. CASE Classify(a)
    <2>1. stage[a] = "classify" /\ UnknownCleared(a) /\ UNCHANGED <<seen, alerts>>
          /\ ~IsRecheck(a)
      BY <1>1 DEF Classify, At, UnknownCleared, RecheckInv, IsRecheck
    <2>2. CASE Throw(a)
      BY <2>1, <2>2, ThrowTurn
    <2>3. CASE ~Throw(a)
      BY <1>1, <2>1, <2>3 DEF Classify, GoTo, Quietly, Turn, Proceeds, StoreKept
    <2> QED
      BY <2>2, <2>3
  <1>2. CASE AnalyzeFirst(a)
    <2>1. stage[a] = "analyze" /\ UNCHANGED <<seen, alerts>> /\ ~IsRecheck(a)
      BY <1>2 DEF AnalyzeFirst, At
    <2>2. CASE Throw(a) /\ UNCHANGED unknown
      BY <2>1, <2>2, ThrowTurn DEF UnknownCleared
    <2>3. CASE ~(Throw(a) /\ UNCHANGED unknown)
      BY <1>2, <2>1, <2>3
      DEF AnalyzeFirst, GoTo, Quietly, Turn, Proceeds, FindsUnknown, StoreKept, UnknownCleared
    <2> QED
      BY <2>2, <2>3
  <1>3. CASE AnalyzeRecheck(a)
    BY <1>3 DEF AnalyzeRecheck, At, GoTo, Leave, Turn, Rechecks, StoreKept, durable, history
  <1>4. CASE Alert(a)
    <2>1. stage[a] = "alert" /\ UNCHANGED <<seen, unknown>>
      BY <1>4 DEF Alert, At
    <2>2. CASE Throw(a) /\ UNCHANGED alerts
      BY <2>1, <2>2, ThrowTurn DEF UnknownCleared
    <2>3. CASE ~(Throw(a) /\ UNCHANGED alerts)
      BY <1>4, <2>1, <2>3 DEF Alert, GoTo, Leave, Quietly, Turn, Tells, StoreKept
    <2> QED
      BY <2>2, <2>3
  <1>5. CASE Schedule(a)
    <2>1. stage[a] = "schedule" /\ UNCHANGED <<seen, alerts, unknown>> /\ ~IsRecheck(a)
      BY <1>5 DEF Schedule, At, RecheckInv, IsRecheck
    <2>2. CASE ThrowUnexpected(a, "disk")
      BY <2>1, <2>2, BreakTurn DEF Turn
    <2>3. CASE ~ThrowUnexpected(a, "disk")
      BY <1>5, <2>1, <2>3 DEF Schedule, GoTo, Turn, Records
    <2> QED
      BY <2>2, <2>3
  <1>6. CASE MarkSeen(a)
    <2>1. stage[a] = "seen" /\ UNCHANGED <<alerts, unknown>> /\ ~IsRecheck(a)
      BY <1>6 DEF MarkSeen, At, RecheckInv, IsRecheck
    <2>2. CASE ThrowUnexpected(a, "disk") /\ UNCHANGED seen
      BY <2>1, <2>2, BreakTurn DEF Turn
    <2>3. CASE ~(ThrowUnexpected(a, "disk") /\ UNCHANGED seen)
      BY <1>6, <2>1, <2>3
      DEF MarkSeen, Return, Leave, Quietly, Turn, Marks, StoreKept
    <2> QED
      BY <2>2, <2>3
  <1> QED
    BY <1>1, <1>2, <1>3, <1>4, <1>5, <1>6 DEF OperationStep

-----------------------------------------------------------------------------
(* Who has a candidate.                                                    *)

Hand(s) == queue[s] \cup (IF stage[s] = "idle" THEN {} ELSE {cand[s]})

(* What a source has is claimed, and claimed by it alone.                  *)
OwnerInv ==
    /\ \A s \in Source : /\ Hand(s) \subseteq claimed
                         /\ stage[s] # "idle" => cand[s] \notin queue[s]
    /\ \A s, t \in Source : s # t => Hand(s) \cap Hand(t) = {}

(* What a source has and did not settle yet is neither seen nor left to    *)
(* the recovery worker.                                                    *)
AloneInv ==
    \A s \in Source, c \in Candidate :
        c \in queue[s] \/ Holds(s, c) => c \notin seen /\ ~Pending("recovery", c)

HoldInv == TypeInv /\ RecheckInv /\ OwnerInv /\ AloneInv /\ KeysFollowChecks

(* Steps that leave what the invariant reads alone.                        *)
LEMMA HoldSame ==
    ASSUME OwnerInv /\ AloneInv /\ KeysFollowChecks,
           UNCHANGED <<queue, claimed, stage, cand, kind, seen, checks, recoveryKeys, due>>
    PROVE  (OwnerInv /\ AloneInv /\ KeysFollowChecks)'
  BY DEF OwnerInv, Hand, AloneInv, Holds, IsRecheck, Pending, KeysFollowChecks,
         ActiveRecoveryKeys

LEMMA SourceActor ==
    ASSUME NEW s \in Source
    PROVE  s \in Actor /\ s # "pending" /\ ~IsRecheck(s)
  BY PipelineAssumption DEF Actor, IsRecheck

LEMMA HoldSource ==
    ASSUME HoldInv, NEW s \in Source, SourceStep(s)
    PROVE  (OwnerInv /\ AloneInv /\ KeysFollowChecks)'
  <1>0. /\ queue \in [Source -> SUBSET Candidate]
        /\ stage \in [Actor -> Stage] /\ cand \in [Actor -> Candidate \cup {None}]
        /\ batch \in [Source -> SUBSET Candidate]
        /\ \A t \in Source : t \in Actor /\ t # "pending" /\ ~IsRecheck(t)
    BY SourceActor DEF HoldInv, TypeInv, TypeOK
  <1>1. UNCHANGED <<kind, seen, checks, recoveryKeys, due>>
    BY DEF SourceStep, Offer, Take, Finish, durable
  <1>2. KeysFollowChecks'
    BY <1>1 DEF HoldInv, KeysFollowChecks, ActiveRecoveryKeys, Pending
  <1>3. CASE Offer(s)
    <2>1. PICK left \in SUBSET batch[s] :
            LET accepted == {c \in batch[s] \ left : ~Rejected(c)}
            IN  /\ queue' = [queue EXCEPT ![s] = accepted]
                /\ claimed' = claimed \cup accepted
      BY <1>3 DEF Offer
    <2> DEFINE accepted == {c \in batch[s] \ left : ~Rejected(c)}
    <2>2. \A c \in accepted : c \notin claimed /\ c \notin seen /\ ~Pending("recovery", c)
      <3>1. \A c \in accepted : c \in Candidate /\ ~Rejected(c)
        BY <1>0
      <3> QED
        BY <3>1 DEF Rejected, HoldInv, KeysFollowChecks, ActiveRecoveryKeys
    <2>3. stage[s] = "idle" /\ queue[s] = {} /\ UNCHANGED <<stage, cand>>
      BY <1>3 DEF Offer
    <2>4. queue'[s] = accepted /\ \A t \in Source \ {s} : queue'[t] = queue[t]
      BY <1>0, <2>1
    <2>5. claimed' = claimed \cup accepted
      BY <2>1
    <2> HIDE DEF accepted
    <2>6. OwnerInv'
      BY <2>2, <2>3, <2>4, <2>5 DEF HoldInv, OwnerInv, Hand
    <2>7. AloneInv'
      BY <1>1, <2>2, <2>3, <2>4 DEF HoldInv, AloneInv, Holds, IsRecheck, Pending
    <2> QED
      BY <1>2, <2>6, <2>7
  <1>4. CASE Take(s)
    <2>1. PICK c \in queue[s] : /\ queue' = [queue EXCEPT ![s] = @ \ {c}]
                               /\ cand' = [cand EXCEPT ![s] = c]
      BY <1>4 DEF Take
    <2>2. stage[s] = "idle" /\ stage' = [stage EXCEPT ![s] = "classify"] /\ UNCHANGED claimed
      BY <1>4 DEF Take
    <2>3. /\ queue'[s] = queue[s] \ {c} /\ cand'[s] = c /\ stage'[s] = "classify"
          /\ \A t \in Source \ {s} : queue'[t] = queue[t] /\ cand'[t] = cand[t]
                                     /\ stage'[t] = stage[t]
      BY <1>0, <2>1, <2>2
    <2>4. OwnerInv'
      BY <2>2, <2>3 DEF HoldInv, OwnerInv, Hand
    <2>5. AloneInv'
      BY <1>1, <2>2, <2>3 DEF HoldInv, AloneInv, Holds, IsRecheck, Pending
    <2> QED
      BY <1>2, <2>4, <2>5
  <1>5. CASE Finish(s)
    <2>1. /\ stage[s] = "finish" /\ claimed' = claimed \ {cand[s]} /\ queue' = queue
          /\ stage'[s] = "idle"
          /\ \A t \in Source \ {s} : cand'[t] = cand[t] /\ stage'[t] = stage[t]
      BY <1>0, <1>5 DEF Finish, source
    <2>2. OwnerInv'
      BY <2>1 DEF HoldInv, OwnerInv, Hand
    <2>3. AloneInv'
      BY <1>1, <2>1 DEF HoldInv, AloneInv, Holds, IsRecheck, Pending
    <2> QED
      BY <1>2, <2>2, <2>3
  <1> QED
    BY <1>3, <1>4, <1>5 DEF SourceStep

(* The candidate of an operation is in nobody else's hands.                *)
LEMMA HeldAlone ==
    ASSUME HoldInv, NEW a \in Actor, NEW s \in Source, a # s,
           stage[a] # "idle", ~IsRecheck(a)
    PROVE  ~Holds(s, cand[a]) /\ cand[a] \notin queue[s]
  <1>1. CASE a \in Source
    BY <1>1 DEF HoldInv, OwnerInv, Hand, Holds
  <1>2. CASE a = "pending"
    <2>1. Pending("recovery", cand[a]) /\ cand[a] \in Candidate
      BY <1>2 DEF HoldInv, TypeInv, StageInv, IsRecheck, Kind, Actor
    <2> QED
      BY <2>1 DEF HoldInv, AloneInv
  <1> QED
    BY <1>1, <1>2 DEF Actor

(* What a turn writes of the checks, read at each of them.                  *)
LEMMA TurnChecks ==
    ASSUME TypeInv, NEW a \in Actor, Turn(a), cand[a] \in Candidate
    PROVE  /\ \A k \in Kind, d \in Candidate : d # cand[a] => checks'[k][d] = checks[k][d]
           /\ HandsOver(a) => /\ checks'["recovery"][cand[a]].status = "pending"
                              /\ checks'["recheck"][cand[a]] = checks["recheck"][cand[a]]
           /\ ~HandsOver(a) => checks'["recovery"][cand[a]] = checks["recovery"][cand[a]]
           /\ Records(a) => checks'["recheck"][cand[a]] =
                               IF checks["recheck"][cand[a]].status = "none" THEN FreshCheck
                               ELSE checks["recheck"][cand[a]]
           /\ ~Records(a) => checks'["recheck"][cand[a]] = checks["recheck"][cand[a]]
  <1> DEFINE c == cand[a]
  <1>0. /\ checks \in [Kind -> [Candidate -> Check]] /\ "recovery" \in Kind
        /\ "recheck" \in Kind /\ FreshCheck \in Check
    BY FreshCheckType DEF TypeInv, TypeOK, Kind
  <1>1. CASE HandsOver(a)
    <2>1. ~Records(a)
      BY <1>1, SourceActor DEF HandsOver, Records
    <2>2. CASE Pending("recovery", c)
      BY <1>1, <2>1, <2>2 DEF HandsOver, Pending
    <2>3. CASE checks' = [checks EXCEPT !["recovery"][c] = FreshCheck]
      <3>1. \A k \in Kind, d \in Candidate : checks'[k][d] =
                IF k = "recovery" /\ d = c THEN FreshCheck ELSE checks[k][d]
        BY <1>0, <2>3, CheckUpdate
      <3> QED
        BY <1>0, <1>1, <2>1, <3>1 DEF Pending, FreshCheck
    <2> QED
      BY <1>1, <2>2, <2>3 DEF HandsOver
  <1>2. CASE Records(a)
    <2>1. ~HandsOver(a)
      BY <1>2, SourceActor DEF HandsOver, Records
    <2>2. CASE checks["recheck"][c].status # "none"
      BY <1>2, <2>1, <2>2 DEF Records
    <2>3. CASE checks["recheck"][c].status = "none"
      <3>1. \A k \in Kind, d \in Candidate : checks'[k][d] =
                IF k = "recheck" /\ d = c THEN FreshCheck ELSE checks[k][d]
        BY <1>0, <1>2, <2>3, CheckUpdate DEF Records
      <3> QED
        BY <1>0, <1>2, <2>1, <2>3, <3>1
    <2> QED
      BY <2>2, <2>3
  <1>3. CASE ~HandsOver(a) /\ ~Records(a)
    <2>1. checks' = checks
      BY <1>3 DEF Turn, Proceeds, FindsUnknown, Rechecks, Tells, Marks, GivesBack, Breaks,
                  StoreKept
    <2> QED
      BY <1>3, <2>1
  <1> QED
    BY <1>1, <1>2, <1>3

(* Where a turn takes the operation, and what it then holds.                *)
LEMMA TurnStage ==
    ASSUME TypeInv, NEW a \in Actor, Turn(a)
    PROVE  /\ stage[a] \notin {"idle", "finish", "complete", "again", "retry", "down"}
           /\ \E st \in Stage \ {"idle"} : stage' = [stage EXCEPT ![a] = st]
  BY DEF Turn, Proceeds, FindsUnknown, Rechecks, Tells, Records, Marks, HandsOver, GivesBack,
         Breaks, Stage

LEMMA HoldOperation ==
    ASSUME HoldInv, NEW a \in Actor, OperationStep(a)
    PROVE  (OwnerInv /\ AloneInv /\ KeysFollowChecks)'
  <1> DEFINE c == cand[a]
  <1>0. /\ stage \in [Actor -> Stage] /\ "recovery" \in Kind
        /\ \A s \in Source : s \in Actor /\ s # "pending" /\ ~IsRecheck(s)
    BY SourceActor DEF HoldInv, TypeInv, TypeOK, Kind
  <1>1. Turn(a)
    BY OperationTurn DEF HoldInv
  <1>2. UNCHANGED <<claimed, queue, cand, kind, due>>
    BY OperationFrame
  <1>3. stage[a] \notin {"idle", "finish", "complete", "again", "retry", "down"}
    BY <1>1, TurnStage DEF HoldInv
  <1>4. PICK st \in Stage \ {"idle"} : stage' = [stage EXCEPT ![a] = st]
    BY <1>1, TurnStage DEF HoldInv
  <1>5. c \in Candidate
    BY <1>3 DEF HoldInv, TypeInv, StageInv
  <1>6. OwnerInv'
    BY <1>0, <1>2, <1>3, <1>4 DEF HoldInv, OwnerInv, Hand
  <1>7. /\ \A d \in Candidate : d # c => (Pending("recovery", d)' <=> Pending("recovery", d))
        /\ ~HandsOver(a) => (Pending("recovery", c)' <=> Pending("recovery", c))
        /\ HandsOver(a) => Pending("recovery", c)'
    BY <1>0, <1>1, <1>2, <1>5, TurnChecks DEF HoldInv, Pending
  <1>8. KeysFollowChecks'
    <2>1. CASE HandsOver(a)
      BY <1>2, <1>5, <1>7, <2>1 DEF HandsOver, HoldInv, KeysFollowChecks, ActiveRecoveryKeys
    <2>2. CASE ~HandsOver(a)
      <3>1. recoveryKeys' = recoveryKeys
        BY <1>1, <2>2 DEF Turn, Proceeds, FindsUnknown, Rechecks, Tells, Records, Marks,
                          GivesBack, Breaks, StoreKept
      <3> QED
        BY <1>2, <1>5, <1>7, <2>2, <3>1 DEF HoldInv, KeysFollowChecks, ActiveRecoveryKeys
    <2> QED
      BY <2>1, <2>2
  <1>9. AloneInv'
    <2> SUFFICES ASSUME NEW s \in Source, NEW d \in Candidate, (d \in queue[s] \/ Holds(s, d))'
                 PROVE  d \notin seen' /\ ~Pending("recovery", d)'
      BY DEF AloneInv
    <2>1. d \in queue[s] \/ Holds(s, d)
      <3>1. CASE s = a
        BY <1>0, <1>2, <1>3, <3>1, SourceActor DEF Holds, HoldInv, TypeInv, TypeOK, Stage
      <3>2. CASE s # a
        BY <1>0, <1>2, <1>4, <3>2 DEF Holds, IsRecheck
      <3> QED
        BY <3>1, <3>2
    <2>2. d \notin seen /\ ~Pending("recovery", d)
      BY <2>1 DEF HoldInv, AloneInv
    <2>3. CASE d # c
      <3>1. d \in seen' => d \in seen
        BY <1>1, <2>3 DEF Turn, Proceeds, FindsUnknown, Rechecks, Tells, Records, Marks,
                          HandsOver, GivesBack, Breaks
      <3> QED
        BY <1>7, <2>2, <2>3, <3>1
    <2>4. CASE d = c /\ ~Marks(a) /\ ~HandsOver(a)
      <3>1. seen' = seen
        BY <1>1, <2>4 DEF Turn, Proceeds, FindsUnknown, Rechecks, Tells, Records,
                          GivesBack, Breaks
      <3> QED
        BY <1>2, <1>7, <2>2, <2>4, <3>1
    <2>5. CASE d = c /\ (Marks(a) \/ HandsOver(a))
      <3>1. ~IsRecheck(a) /\ stage'[a] \in {"finish", "complete"}
        BY <1>0, <2>5 DEF Marks, HandsOver
      <3>2. s = a
        BY <1>3, <2>1, <2>5, <3>1, HeldAlone
      <3>3. d \in queue[a]
        BY <1>2, <2>1, <3>1, <3>2 DEF Holds
      <3> QED
        BY <1>3, <2>5, <3>2, <3>3 DEF HoldInv, OwnerInv
    <2> QED
      BY <2>3, <2>4, <2>5
  <1> QED
    BY <1>6, <1>8, <1>9

(* What a step of the worker does outside the executor.                     *)
Starts ==
    /\ stage["pending"] = "idle"
    /\ \E e \in due :
         /\ kind' = e[1] /\ cand' = [cand EXCEPT !["pending"] = e[2]]
         /\ stage' = [stage EXCEPT !["pending"] =
                         IF e[1] = "recovery" THEN "classify" ELSE "analyze"]
    /\ UNCHANGED <<checks, recoveryKeys, faults>>

Concludes ==
    /\ stage["pending"] \in {"complete", "again", "retry"}
    /\ stage' = [stage EXCEPT !["pending"] = "idle"]
    /\ cand' = [cand EXCEPT !["pending"] = None]
    /\ kind' = None /\ due' = due
    /\ \E st \in {"pending", "completed", "failed"}, n \in Nat :
         /\ st = "completed" <=> stage["pending"] = "complete"
         /\ n >= checks[kind][cand["pending"]].attempts
         /\ \A k \in Kind, d \in Candidate : checks'[k][d] =
              IF k = kind /\ d = cand["pending"] THEN [status |-> st, attempts |-> n]
              ELSE checks[k][d]
    /\ IF due = {} THEN recoveryKeys' = ActiveRecoveryKeys' ELSE UNCHANGED recoveryKeys
    /\ UNCHANGED faults

Falters ==
    /\ stage["pending"] \in {"complete", "again", "retry"}
    /\ stage' = [stage EXCEPT !["pending"] =
                    IF stage["pending"] = "retry" THEN "down" ELSE "retry"]
    /\ faults' = faults + 1
    /\ UNCHANGED <<checks, recoveryKeys, cand, kind, due>>

LEMMA WriteConcludes ==
    ASSUME TypeInv, stage["pending"] \in {"complete", "again", "retry"},
           NEW st \in {"pending", "completed", "failed"}, NEW n \in Nat, Write(st, n),
           st = "completed" <=> stage["pending"] = "complete",
           n >= checks[kind][cand["pending"]].attempts,
           n \in 0 .. MaxAttempts, due' = due
    PROVE  Concludes
  <1>1. /\ checks \in [Kind -> [Candidate -> Check]] /\ kind \in Kind
        /\ cand["pending"] \in Candidate /\ [status |-> st, attempts |-> n] \in Check
    BY DEF TypeInv, TypeOK, StageInv, Actor, Check, Status
  <1>2. \A k \in Kind, d \in Candidate : checks'[k][d] =
              IF k = kind /\ d = cand["pending"] THEN [status |-> st, attempts |-> n]
              ELSE checks[k][d]
    BY <1>1, CheckUpdate DEF Write
  <1>3. IF due = {} THEN recoveryKeys' = ActiveRecoveryKeys' ELSE UNCHANGED recoveryKeys
    BY DEF Write, ActiveRecoveryKeys, Pending
  <1> QED
    BY <1>2, <1>3 DEF Write, Concludes

LEMMA WorkerTurn ==
    ASSUME TypeInv, WorkerStep
    PROVE  /\ SelectDue \/ Starts \/ Concludes \/ Falters
           /\ UNCHANGED <<seen, claimed, source, aged, alerts, unknown>>
  <1>1. stage["pending"] # "idle" =>
            /\ checks[kind][cand["pending"]].attempts \in Nat
            /\ checks[kind][cand["pending"]].attempts < MaxAttempts
    BY DEF TypeInv, TypeOK, StageInv, AttemptsInv, Actor, Check
  <1>2. UNCHANGED <<seen, claimed, source, aged, alerts, unknown>>
    BY DEF WorkerStep, SelectDue, StartCheck, Complete, Again, Retry, durable, history
  <1>3. ASSUME NEW st \in {"retry", "down"}, WriteFails(st), due' = due,
               stage["pending"] \in {"complete", "again", "retry"},
               st = "down" <=> stage["pending"] = "retry"
        PROVE  Falters
    BY <1>3 DEF WriteFails, Fault, Falters
  <1>4. CASE StartCheck
    BY <1>2, <1>4 DEF StartCheck, Starts, durable, history
  <1>5. CASE Complete
    BY <1>1, <1>2, <1>3, <1>5, PipelineAssumption, WriteConcludes DEF Complete, Attempted
  <1>6. CASE Again
    BY <1>1, <1>2, <1>3, <1>6, PipelineAssumption, WriteConcludes DEF Again, Attempted
  <1>7. CASE Retry
    BY <1>1, <1>2, <1>3, <1>7, PipelineAssumption, WriteConcludes DEF Retry, Attempted
  <1> QED
    BY <1>2, <1>4, <1>5, <1>6, <1>7 DEF WorkerStep

LEMMA HoldWorker ==
    ASSUME HoldInv, WorkerStep
    PROVE  (OwnerInv /\ AloneInv /\ KeysFollowChecks)'
  <1>0. /\ stage \in [Actor -> Stage] /\ cand \in [Actor -> Candidate \cup {None}]
        /\ "pending" \in Actor /\ "recovery" \in Kind
        /\ \A s \in Source : s \in Actor /\ s # "pending"
    BY SourceActor DEF HoldInv, TypeInv, TypeOK, Actor, Kind
  <1>1. /\ SelectDue \/ Starts \/ Concludes \/ Falters
        /\ UNCHANGED <<seen, claimed, queue>>
    BY WorkerTurn DEF HoldInv, source
  <1>2. \A s \in Source : stage'[s] = stage[s] /\ cand'[s] = cand[s]
    BY WorkerGrows DEF HoldInv
  <1>3. OwnerInv'
    BY <1>1, <1>2 DEF HoldInv, OwnerInv, Hand
  <1>4. \A d \in Candidate : Pending("recovery", d)' => Pending("recovery", d)
    <2>1. CASE checks' = checks
      BY <2>1 DEF Pending
    <2>2. CASE Concludes
      <3>1. stage["pending"] # "idle" => Pending(kind, cand["pending"])
        BY DEF HoldInv, TypeInv, StageInv
      <3> QED
        BY <1>0, <2>2, <3>1 DEF Concludes, Pending
    <2> QED
      BY <1>1, <2>1, <2>2 DEF SelectDue, Starts, Falters, durable
  <1>5. AloneInv'
    BY <1>0, <1>1, <1>2, <1>4 DEF HoldInv, AloneInv, Holds, IsRecheck
  <1>6. KeysFollowChecks'
    <2>1. CASE SelectDue \/ Starts \/ Falters
      <3>1. UNCHANGED <<checks, recoveryKeys>>
        BY <2>1 DEF SelectDue, Starts, Falters, durable
      <3>2. (due = {} /\ kind = None)' => due = {} /\ kind = None
        <4>1. CASE SelectDue
          BY <4>1 DEF SelectDue
        <4>2. CASE Starts
          BY <4>2 DEF Starts, HoldInv, TypeInv, TypeOK, Kind, None
        <4>3. CASE Falters
          BY <4>3 DEF Falters
        <4> QED
          BY <2>1, <4>1, <4>2, <4>3
      <3> QED
        BY <3>1, <3>2 DEF HoldInv, KeysFollowChecks, ActiveRecoveryKeys, Pending
    <2>2. CASE Concludes
      <3>1. CASE due = {}
        BY <2>2, <3>1 DEF Concludes, KeysFollowChecks
      <3>2. CASE due # {}
        BY <1>4, <2>2, <3>2 DEF Concludes, HoldInv, KeysFollowChecks, ActiveRecoveryKeys
      <3> QED
        BY <3>1, <3>2
    <2> QED
      BY <1>1, <2>1, <2>2
  <1> QED
    BY <1>3, <1>5, <1>6

LEMMA HoldInvStep ==
    ASSUME HoldInv, [Next]_vars PROVE HoldInv'
  <1>1. TypeInv' /\ RecheckInv'
    BY NextTypeInv, RecheckInvStep DEF HoldInv
  <1>2. CASE ScanRange \/ PollGecko \/ EndRange \/ (\E a \in Actor : AckLost(a))
             \/ (\E c \in Candidate : Age(c)) \/ UNCHANGED vars
    <2>1. UNCHANGED <<queue, claimed, stage, cand, kind, seen, checks, recoveryKeys, due>>
      BY <1>2 DEF ScanRange, PollGecko, EndRange, AckLost, Age, vars, durable, source
    <2> QED
      BY <1>1, <2>1, HoldSame DEF HoldInv
  <1>3. ASSUME NEW c \in Candidate, ExpireSeen(c) PROVE HoldInv'
    <2>1. /\ UNCHANGED <<queue, claimed, stage, cand, kind, checks, recoveryKeys, due>>
          /\ seen' \subseteq seen
      BY <1>3 DEF ExpireSeen, source
    <2> QED
      BY <1>1, <2>1 DEF HoldInv, OwnerInv, Hand, AloneInv, Holds, IsRecheck, Pending,
                        KeysFollowChecks, ActiveRecoveryKeys
  <1>4. CASE Exit \/ Crash
    <2>1. /\ queue' = [s \in Source |-> {}] /\ stage' = [a \in Actor |-> "idle"]
          /\ claimed' = {} /\ recoveryKeys' = ActiveRecoveryKeys /\ checks' = checks
      BY <1>4 DEF Exit, Crash, Restarted, durable
    <2>2. \A s \in Source : queue'[s] = {} /\ stage'[s] = "idle"
      BY <2>1, SourceActor
    <2>3. OwnerInv' /\ AloneInv'
      BY <2>2 DEF OwnerInv, Hand, AloneInv, Holds
    <2>4. KeysFollowChecks'
      BY <2>1 DEF KeysFollowChecks, ActiveRecoveryKeys, Pending
    <2> QED
      BY <1>1, <2>3, <2>4 DEF HoldInv
  <1> QED
    BY <1>1, <1>2, <1>3, <1>4, HoldSource, HoldOperation, HoldWorker DEF Next, HoldInv

LEMMA InitHoldInv == Init => HoldInv
  <1> SUFFICES ASSUME Init PROVE HoldInv
    OBVIOUS
  <1>1. TypeInv /\ RecheckInv
    BY InitTypeInv DEF Init, RecheckInv, Actor
  <1>2. \A s \in Source : queue[s] = {} /\ stage[s] = "idle"
    BY SourceActor DEF Init
  <1>3. OwnerInv /\ AloneInv
    BY <1>2 DEF OwnerInv, Hand, AloneInv, Holds
  <1>4. KeysFollowChecks
    BY DEF Init, KeysFollowChecks, ActiveRecoveryKeys, Pending, NoCheck, Kind
  <1> QED
    BY <1>1, <1>3, <1>4 DEF HoldInv

LEMMA AtMostOne ==
    ASSUME NEW S, \A x, y \in S : x = y
    PROVE  Cardinality(S) <= 1
  <1>1. CASE S = {}
    BY <1>1, FS_EmptySet
  <1>2. CASE S # {}
    <2>1. PICK x \in S : TRUE
      BY <1>2
    <2>2. S = {x}
      BY <2>1
    <2> QED
      BY <2>2, FS_Singleton
  <1> QED
    BY <1>1, <1>2

LEMMA HoldSingleOwner == HoldInv => SingleOwner
  <1> SUFFICES ASSUME HoldInv, NEW c \in Candidate
               PROVE  /\ Cardinality({a \in Actor : Holds(a, c)}
                                        \cup {s \in Source : c \in queue[s]}) <= 1
                      /\ \A s \in Source : ~(Holds(s, c) /\ c \in queue[s])
    BY DEF SingleOwner
  <1> DEFINE Owner == {a \in Actor : Holds(a, c)} \cup {s \in Source : c \in queue[s]}
  <1>1. \A s \in Source : s \in Owner => s \in Actor /\ c \in Hand(s)
    BY SourceActor DEF Holds, Hand
  <1>2. \A s, t \in Source : s \in Owner /\ t \in Owner => s = t
    BY <1>1 DEF HoldInv, OwnerInv
  <1>3. ASSUME "pending" \in Owner, NEW s \in Source, s \in Owner PROVE FALSE
    <2>1. Holds("pending", c)
      BY <1>3, SourceActor
    <2>2. Pending("recovery", c)
      BY <2>1 DEF HoldInv, TypeInv, StageInv, Holds, IsRecheck, Kind
    <2>3. c \in queue[s] \/ Holds(s, c)
      BY <1>3
    <2> QED
      BY <2>2, <2>3 DEF HoldInv, AloneInv
  <1>4. \A a, b \in Owner : a = b
    BY <1>1, <1>2, <1>3 DEF Actor
  <1>5. \A s \in Source : ~(Holds(s, c) /\ c \in queue[s])
    BY DEF HoldInv, OwnerInv, Holds
  <1> HIDE DEF Owner
  <1>6. Cardinality(Owner) <= 1
    BY <1>4, AtMostOne
  <1> QED
    BY <1>5, <1>6 DEF Owner

(* Whatever the enabled sources are, one actor at a time has a candidate   *)
(* in hand for its first operation: the claims, the seen marks and the     *)
(* recovery keys that Offer consults (hasSeen of the source queues) keep   *)
(* two sources, and a source and the recovery worker, apart.               *)
THEOREM OneOwner == Spec => []SingleOwner
  <1>1. Init => HoldInv
    BY InitHoldInv
  <1>2. HoldInv /\ [Next]_vars => HoldInv'
    BY HoldInvStep
  <1>3. HoldInv => SingleOwner
    BY HoldSingleOwner
  <1> QED
    BY <1>1, <1>2, <1>3, PTL DEF Spec

(* The keys the sources leave to the worker never miss a pending recovery  *)
(* of the state file, and are exactly those once a round ended: after any  *)
(* failed write, handover, round of checks or restart.                     *)
THEOREM KeysNeverMiss == Spec => []KeysFollowChecks
  <1>1. Init => HoldInv
    BY InitHoldInv
  <1>2. HoldInv /\ [Next]_vars => HoldInv'
    BY HoldInvStep
  <1>3. HoldInv => KeysFollowChecks
    BY DEF HoldInv
  <1> QED
    BY <1>1, <1>2, <1>3, PTL DEF Spec

-----------------------------------------------------------------------------
(* What is written down about a candidate before it is settled.            *)

(* Between markSeen and the write that completes a recovery, the candidate *)
(* is already seen.                                                        *)
CompletedInv ==
    /\ CompletedImpliesSeen
    /\ stage["pending"] = "complete" /\ kind = "recovery" =>
         cand["pending"] \in seen \cup aged

LEMMA CompletedOperation ==
    ASSUME HoldInv, CompletedInv, NEW a \in Actor, OperationStep(a)
    PROVE  CompletedInv'
  <1> DEFINE c == cand[a]
  <1>0. /\ stage \in [Actor -> Stage] /\ "recovery" \in Kind /\ "pending" \in Actor
        /\ "pending" \notin Source
    BY SourceActor DEF HoldInv, TypeInv, TypeOK, Kind, Actor
  <1>1. Turn(a) /\ UNCHANGED <<cand, kind, aged>>
    BY OperationTurn, OperationFrame DEF HoldInv
  <1>2. stage[a] \notin {"idle", "finish", "complete", "again", "retry", "down"} /\ c \in Candidate
    BY <1>1, TurnStage DEF HoldInv, TypeInv, StageInv
  <1>3. seen \subseteq seen'
    BY <1>1 DEF Turn, Proceeds, FindsUnknown, Rechecks, Tells, Records, Marks, HandsOver,
                GivesBack, Breaks
  <1>4. CompletedImpliesSeen'
    <2>1. \A d \in Candidate : checks'["recovery"][d].status = "completed" =>
              checks["recovery"][d].status = "completed"
      BY <1>0, <1>1, <1>2, TurnChecks DEF HoldInv
    <2> QED
      BY <1>1, <1>3, <2>1 DEF CompletedInv, CompletedImpliesSeen
  <1>5. ASSUME stage'["pending"] = "complete", kind' = "recovery"
        PROVE  cand'["pending"] \in seen' \cup aged'
    <2>1. CASE stage["pending"] = "complete"
      BY <1>1, <1>3, <1>5, <2>1 DEF CompletedInv
    <2>2. CASE stage["pending"] # "complete"
      <3>1. a = "pending"
        BY <1>0, <1>1, <1>5, <2>2, TurnStage DEF HoldInv
      <3>2. Marks(a)
        BY <1>0, <1>1, <1>5, <3>1
        DEF Turn, Proceeds, FindsUnknown, Rechecks, Tells, Records, HandsOver, GivesBack,
            Breaks, IsRecheck
      <3> QED
        BY <1>1, <3>1, <3>2 DEF Marks
    <2> QED
      BY <2>1, <2>2
  <1> QED
    BY <1>4, <1>5 DEF CompletedInv

LEMMA CompletedWorker ==
    ASSUME HoldInv, CompletedInv, WorkerStep
    PROVE  CompletedInv'
  <1>0. stage \in [Actor -> Stage] /\ "pending" \in Actor /\ "recovery" \in Kind
    BY DEF HoldInv, TypeInv, TypeOK, Actor, Kind
  <1>1. /\ SelectDue \/ Starts \/ Concludes \/ Falters
        /\ UNCHANGED <<seen, aged>>
    BY WorkerTurn DEF HoldInv
  <1>2. CASE SelectDue
    BY <1>1, <1>2 DEF SelectDue, durable, CompletedInv, CompletedImpliesSeen
  <1>3. CASE Starts \/ Falters
    <2>1. checks' = checks /\ stage'["pending"] # "complete"
      BY <1>0, <1>3 DEF Starts, Falters
    <2> QED
      BY <1>1, <2>1 DEF CompletedInv, CompletedImpliesSeen
  <1>4. CASE Concludes
    <2>1. stage'["pending"] # "complete"
      BY <1>0, <1>4 DEF Concludes
    <2>2. CompletedImpliesSeen'
      BY <1>0, <1>1, <1>4 DEF Concludes, CompletedInv, CompletedImpliesSeen
    <2> QED
      BY <2>1, <2>2 DEF CompletedInv
  <1> QED
    BY <1>1, <1>2, <1>3, <1>4

LEMMA CompletedStep ==
    ASSUME HoldInv, CompletedInv, [Next]_vars PROVE CompletedInv'
  <1>0. "pending" \in Actor /\ stage \in [Actor -> Stage]
        /\ cand \in [Actor -> Candidate \cup {None}]
    BY DEF Actor, HoldInv, TypeInv, TypeOK
  <1>1. CASE ScanRange \/ PollGecko \/ EndRange \/ (\E a \in Actor : AckLost(a))
             \/ (\E c \in Candidate : Age(c) \/ ExpireSeen(c)) \/ UNCHANGED vars
    <2>1. /\ UNCHANGED <<stage, cand, kind, checks>>
          /\ seen \cup aged \subseteq seen' \cup aged'
      BY <1>1 DEF ScanRange, PollGecko, EndRange, AckLost, Age, ExpireSeen, vars, durable,
                  history
    <2> QED
      BY <2>1 DEF CompletedInv, CompletedImpliesSeen
  <1>2. ASSUME NEW s \in Source, SourceStep(s) PROVE CompletedInv'
    <2>1. /\ UNCHANGED <<kind, checks, seen, aged>>
          /\ stage'["pending"] = stage["pending"] /\ cand'["pending"] = cand["pending"]
      BY <1>0, <1>2, SourceActor DEF SourceStep, Offer, Take, Finish, durable, history
    <2> QED
      BY <2>1 DEF CompletedInv, CompletedImpliesSeen
  <1>3. CASE Exit \/ Crash
    <2>1. UNCHANGED <<seen, aged, checks>> /\ stage'["pending"] = "idle"
      BY <1>0, <1>3 DEF Exit, Crash, Restarted, durable
    <2> QED
      BY <2>1 DEF CompletedInv, CompletedImpliesSeen
  <1> QED
    BY <1>1, <1>2, <1>3, CompletedOperation, CompletedWorker DEF Next

(* A recovery is completed only for a candidate that is marked seen or too *)
(* old, whatever crash or failed write falls between markSeen and the      *)
(* write that completes it (runPendingChecks).                             *)
THEOREM CompletedOnlySeen == Spec => []CompletedImpliesSeen
  <1>1. Init => HoldInv /\ CompletedInv
    <2>1. Init => CompletedInv
      BY DEF Init, CompletedInv, CompletedImpliesSeen, NoCheck, Kind, Actor
    <2> QED
      BY <2>1, InitHoldInv
  <1>2. HoldInv /\ CompletedInv /\ [Next]_vars => HoldInv' /\ CompletedInv'
    BY HoldInvStep, CompletedStep
  <1>3. CompletedInv => CompletedImpliesSeen
    BY DEF CompletedInv
  <1> QED
    BY <1>1, <1>2, <1>3, PTL DEF Spec

-----------------------------------------------------------------------------
(* What is found unknown, and its recheck.                                  *)

Rechecked(c) == checks["recheck"][c].status # "none"

(* An operation past its analysis has either found its candidate's         *)
(* sellability or put a recheck on file.                                   *)
UnknownInv ==
    /\ UnknownIsRechecked
    /\ \A a \in Actor :
         /\ stage[a] \in {"analyze", "alert"} /\ ~IsRecheck(a) => cand[a] \notin unknown
         /\ stage[a] = "seen" /\ cand[a] \in unknown => Rechecked(cand[a])
    /\ stage["pending"] \in {"complete", "again", "retry"} /\ kind = "recovery" =>
         (cand["pending"] \in unknown => Rechecked(cand["pending"]))

(* Steps that find nothing and take nothing off file.                      *)
LEMMA UnknownKept ==
    ASSUME UnknownInv, UNCHANGED <<stage, cand, kind, checks>>,
           seen' \subseteq seen, unknown' = unknown
    PROVE  UnknownInv'
  BY DEF UnknownInv, UnknownIsRechecked, Pending, IsRecheck, Rechecked

LEMMA UnknownOperation ==
    ASSUME HoldInv, UnknownInv, NEW a \in Actor, OperationStep(a)
    PROVE  UnknownInv'
  <1> DEFINE c == cand[a]
  <1>0. /\ stage \in [Actor -> Stage] /\ "recovery" \in Kind /\ "recheck" \in Kind
        /\ "pending" \in Actor /\ "pending" \notin Source
    BY SourceActor DEF HoldInv, TypeInv, TypeOK, Kind, Actor
  <1>1. Turn(a) /\ UNCHANGED <<cand, kind>>
    BY OperationTurn, OperationFrame DEF HoldInv
  <1>2. stage[a] \notin {"idle", "finish", "complete", "again", "retry", "down"} /\ c \in Candidate
    BY <1>1, TurnStage DEF HoldInv, TypeInv, StageInv
  <1>3. PICK st \in Stage \ {"idle"} : stage' = [stage EXCEPT ![a] = st]
    BY <1>1, TurnStage DEF HoldInv
  <1>4. /\ \A d \in Candidate : Rechecked(d) => Rechecked(d)'
        /\ \A d \in Candidate : Pending("recovery", d) => Pending("recovery", d)'
        /\ Records(a) => Rechecked(c)'
    <2>1. FreshCheck.status # "none"
      BY DEF FreshCheck
    <2>2. \A d \in Candidate : d # c => checks'["recovery"][d] = checks["recovery"][d]
                                       /\ checks'["recheck"][d] = checks["recheck"][d]
      BY <1>0, <1>1, <1>2, TurnChecks DEF HoldInv
    <2>3. /\ Rechecked(c) => checks'["recheck"][c].status # "none"
          /\ Pending("recovery", c) => checks'["recovery"][c].status = "pending"
          /\ Records(a) => checks'["recheck"][c].status # "none"
      BY <1>1, <1>2, <2>1, TurnChecks DEF HoldInv, Rechecked, Pending
    <2> QED
      BY <1>1, <2>2, <2>3 DEF Rechecked, Pending
  (* The candidate of the turn is nobody else's first operation. *)
  <1>5. ASSUME ~IsRecheck(a), NEW b \in Actor, b # a, cand[b] = c, ~IsRecheck(b)
        PROVE  /\ stage[b] \notin {"classify", "analyze", "alert", "schedule", "seen"}
               /\ b = "pending" => stage[b] = "idle"
    <2>1. CASE b \in Source
      BY <1>2, <1>5, <2>1, HeldAlone, SourceActor DEF Holds
    <2>2. CASE b = "pending"
      <3>1. a \in Source /\ Holds(a, c)
        BY <1>2, <1>5, <2>2 DEF Actor, Holds, HoldInv, TypeInv, TypeOK, Stage
      <3>2. stage[b] = "idle"
        BY <1>5, <2>2, <3>1, HeldAlone
      <3> QED
        BY <3>2, SourceActor, <2>2
    <2> QED
      BY <2>1, <2>2 DEF Actor
  <1>6. CASE FindsUnknown(a)
    <2>1. unknown' = unknown \cup {c} /\ ~IsRecheck(a) /\ stage'[a] = "schedule" /\ seen' = seen
      BY <1>0, <1>6 DEF FindsUnknown
    <2>2. c \in seen => Pending("recovery", c)
      <3>1. CASE a \in Source
        BY <1>2, <1>6, <3>1, SourceActor DEF HoldInv, AloneInv, Holds, FindsUnknown
      <3>2. CASE a = "pending"
        BY <1>2, <2>1, <3>2 DEF HoldInv, TypeInv, StageInv, IsRecheck, Kind
      <3> QED
        BY <3>1, <3>2 DEF Actor
    <2>3. UnknownIsRechecked'
      BY <1>1, <1>2, <1>4, <2>1, <2>2
      DEF UnknownInv, UnknownIsRechecked, Rechecked, HoldInv, TypeInv, TypeOK
    <2>4. ASSUME NEW b \in Actor
          PROVE  /\ stage'[b] \in {"analyze", "alert"} /\ ~IsRecheck(b)' => cand'[b] \notin unknown'
                 /\ stage'[b] = "seen" /\ cand'[b] \in unknown' => Rechecked(cand[b])'
      <3>1. CASE b = a
        BY <2>1, <3>1
      <3>2. CASE b # a
        <4>1. stage'[b] = stage[b] /\ cand'[b] = cand[b] /\ (IsRecheck(b)' <=> IsRecheck(b))
          BY <1>1, <1>3, <1>0, <3>2 DEF IsRecheck
        <4>2. stage[b] = "seen" => ~IsRecheck(b)
          BY DEF HoldInv, RecheckInv, IsRecheck
        <4>3. stage[b] # "idle" => cand[b] \in Candidate
          BY DEF HoldInv, TypeInv, StageInv
        <4> QED
          BY <1>1, <1>4, <1>5, <2>1, <3>2, <4>1, <4>2, <4>3 DEF UnknownInv
      <3> QED
        BY <3>1, <3>2
    <2>5. stage'["pending"] \in {"complete", "again", "retry"} /\ kind' = "recovery"
            /\ cand'["pending"] \in unknown' => Rechecked(cand["pending"])'
      <3>1. CASE a = "pending"
        BY <2>1, <3>1
      <3>2. CASE a # "pending"
        <4>1. stage'["pending"] = stage["pending"]
          BY <1>0, <1>3, <3>2
        <4>2. kind = "recovery" /\ stage["pending"] # "idle" => cand["pending"] # c
          BY <1>0, <1>5, <2>1, <3>2 DEF IsRecheck
        <4>3. stage["pending"] # "idle" => cand["pending"] \in Candidate
          BY <1>0 DEF HoldInv, TypeInv, StageInv
        <4> QED
          BY <1>1, <1>4, <2>1, <4>1, <4>2, <4>3 DEF UnknownInv
      <3> QED
        BY <3>1, <3>2
    <2> QED
      BY <1>1, <2>3, <2>4, <2>5 DEF UnknownInv, Rechecked
  <1>7. CASE ~FindsUnknown(a)
    <2>1. /\ unknown' = unknown \/ unknown' = unknown \ {c}
          /\ stage[a] = "classify" => c \notin unknown'
      BY <1>1, <1>7 DEF Turn, Proceeds, Rechecks, Tells, Records, Marks, HandsOver,
                        GivesBack, Breaks, UnknownCleared
    <2>2. /\ seen' = seen \/ (Marks(a) /\ seen' = seen \cup {c})
          /\ Marks(a) => stage[a] = "seen"
      <3>1. Marks(a) => seen' = seen \cup {c} /\ stage[a] = "seen"
        BY DEF Marks
      <3>2. ~Marks(a) => seen' = seen
        BY <1>1 DEF Turn, Proceeds, FindsUnknown, Rechecks, Tells, Records, HandsOver,
                    GivesBack, Breaks
      <3> QED
        BY <3>1, <3>2
    <2>3. UnknownIsRechecked'
      BY <1>1, <1>2, <1>4, <2>1, <2>2
      DEF UnknownInv, UnknownIsRechecked, Rechecked, HoldInv, TypeInv, TypeOK
    <2>4. ASSUME NEW b \in Actor, b # a
          PROVE  /\ stage'[b] = stage[b] /\ cand'[b] = cand[b] /\ (IsRecheck(b)' <=> IsRecheck(b))
                 /\ stage[b] # "idle" => cand[b] \in Candidate
      BY <1>0, <1>1, <1>3, <2>4 DEF IsRecheck, HoldInv, TypeInv, StageInv
    <2>5. /\ stage'[a] \in {"analyze", "alert"} /\ ~IsRecheck(a) => c \notin unknown'
          /\ stage'[a] = "seen" /\ c \in unknown' => Rechecked(c)'
          /\ stage'[a] \in {"complete", "again", "retry"} /\ ~IsRecheck(a) /\ c \in unknown'
               => Rechecked(c)'
      <3>1. ~IsRecheck(a) /\ stage[a] \in {"classify", "analyze", "alert"} => c \notin unknown'
        BY <2>1 DEF UnknownInv
      <3>2. stage[a] = "seen" /\ c \in unknown' => Rechecked(c)'
        BY <1>1, <1>2, <1>4, <2>1 DEF UnknownInv
      <3>3. CASE IsRecheck(a)
        <4>1. stage'[a] # "seen"
          BY <1>0, <1>1, <3>3
          DEF Turn, Proceeds, FindsUnknown, Rechecks, Tells, Records, Marks, HandsOver,
              GivesBack, Breaks, IsRecheck
        <4> QED
          BY <3>3, <4>1
      <3>4. CASE ~IsRecheck(a)
        <4>1. CASE stage[a] \in {"classify", "analyze", "alert"}
          <5>1. stage'[a] # "classify"
            BY <1>0, <1>1 DEF Turn, Proceeds, FindsUnknown, Rechecks, Tells, Records, Marks,
                              HandsOver, GivesBack, Breaks
          <5> QED
            BY <3>1, <3>4, <4>1
        <4>2. CASE stage[a] = "seen"
          <5>1. stage'[a] \notin {"analyze", "alert"}
            BY <1>0, <1>1, <4>2 DEF Turn, Proceeds, FindsUnknown, Rechecks, Tells, Records,
                                    Marks, HandsOver, GivesBack, Breaks
          <5> QED
            BY <3>2, <4>2, <5>1
        <4>3. CASE stage[a] = "schedule"
          <5>1. (Records(a) /\ stage'[a] = "seen") \/ stage'[a] \in {"finish", "down"}
            BY <1>0, <1>1, <1>7, <3>4, <4>3
            DEF Turn, Proceeds, Rechecks, Tells, Records, Marks, HandsOver, GivesBack, Breaks,
                Actor, IsRecheck
          <5> QED
            BY <1>4, <5>1
        <4> QED
          BY <1>0, <1>2, <4>1, <4>2, <4>3 DEF Stage
      <3> QED
        BY <3>3, <3>4
    <2>6. \A b \in Actor :
            /\ stage'[b] \in {"analyze", "alert"} /\ ~IsRecheck(b)' => cand'[b] \notin unknown'
            /\ stage'[b] = "seen" /\ cand'[b] \in unknown' => Rechecked(cand[b])'
      <3> SUFFICES ASSUME NEW b \in Actor
                   PROVE  /\ stage'[b] \in {"analyze", "alert"} /\ ~IsRecheck(b)' => cand'[b] \notin unknown'
                          /\ stage'[b] = "seen" /\ cand'[b] \in unknown' => Rechecked(cand[b])'
        OBVIOUS
      <3>1. CASE b = a
        BY <1>1, <2>5, <3>1 DEF IsRecheck, Rechecked
      <3>2. CASE b # a
        BY <1>1, <1>4, <2>1, <2>4, <3>2 DEF UnknownInv
      <3> QED
        BY <3>1, <3>2
    <2>7. stage'["pending"] \in {"complete", "again", "retry"} /\ kind' = "recovery"
            /\ cand'["pending"] \in unknown' => Rechecked(cand["pending"])'
      <3>1. CASE a = "pending"
        BY <1>1, <2>5, <3>1 DEF IsRecheck, Rechecked
      <3>2. CASE a # "pending"
        BY <1>0, <1>1, <1>4, <2>1, <2>4, <3>2 DEF UnknownInv
      <3> QED
        BY <3>1, <3>2
    <2> QED
      BY <1>1, <2>3, <2>6, <2>7 DEF UnknownInv, Rechecked
  <1> QED
    BY <1>6, <1>7

LEMMA UnknownWorker ==
    ASSUME HoldInv, UnknownInv, WorkerStep
    PROVE  UnknownInv'
  <1>0. /\ stage \in [Actor -> Stage] /\ cand \in [Actor -> Candidate \cup {None}]
        /\ "pending" \in Actor /\ "recovery" \in Kind /\ "recheck" \in Kind
        /\ \A s \in Source : s \in Actor /\ ~IsRecheck(s) /\ ~IsRecheck(s)'
    BY SourceActor DEF HoldInv, TypeInv, TypeOK, Actor, Kind, IsRecheck
  <1>1. /\ SelectDue \/ Starts \/ Concludes \/ Falters
        /\ UNCHANGED <<seen, unknown>>
    BY WorkerTurn DEF HoldInv
  <1>2. \A s \in Source : stage'[s] = stage[s] /\ cand'[s] = cand[s]
    BY WorkerGrows DEF HoldInv
  <1>3. CASE SelectDue
    BY <1>1, <1>3, UnknownKept DEF SelectDue, durable
  <1>4. CASE Starts \/ Falters
    <2>1. checks' = checks
      BY <1>4 DEF Starts, Falters
    <2>2. \/ stage'["pending"] \in {"classify", "down"}
          \/ stage'["pending"] = "analyze" /\ IsRecheck("pending")'
          \/ /\ stage'["pending"] = "retry" /\ stage["pending"] \in {"complete", "again"}
             /\ UNCHANGED <<kind, cand>>
      <3>1. CASE Starts
        <4>1. PICK e \in due : kind' = e[1] /\ stage' = [stage EXCEPT !["pending"] =
                         IF e[1] = "recovery" THEN "classify" ELSE "analyze"]
          BY <3>1 DEF Starts
        <4>2. e[1] \in Kind
          BY <4>1 DEF HoldInv, TypeInv, TypeOK
        <4> QED
          BY <1>0, <4>1, <4>2 DEF IsRecheck, Kind
      <3>2. CASE Falters
        BY <1>0, <3>2 DEF Falters
      <3> QED
        BY <1>4, <3>1, <3>2
    <2> QED
      BY <1>0, <1>1, <1>2, <2>1, <2>2
      DEF Actor, UnknownInv, UnknownIsRechecked, Pending, Rechecked
  <1>5. CASE Concludes
    <2>1. stage'["pending"] = "idle"
      BY <1>0, <1>5 DEF Concludes
    <2>2. PICK st \in {"pending", "completed", "failed"}, n \in Nat :
            \A k \in Kind, d \in Candidate : checks'[k][d] =
              IF k = kind /\ d = cand["pending"] THEN [status |-> st, attempts |-> n]
              ELSE checks[k][d]
      BY <1>5 DEF Concludes
    <2>3. \A d \in Candidate : Rechecked(d) => Rechecked(d)'
      BY <1>0, <2>2 DEF Rechecked
    <2>4. ASSUME NEW d \in Candidate, d \in seen \cap unknown
          PROVE  Rechecked(d)' \/ Pending("recovery", d)'
      <3>1. CASE kind = "recovery" /\ d = cand["pending"]
        BY <1>5, <2>3, <2>4, <3>1 DEF UnknownInv, Concludes
      <3>2. CASE ~(kind = "recovery" /\ d = cand["pending"])
        <4>1. checks'["recovery"][d] = checks["recovery"][d]
          BY <1>0, <2>2, <3>2
        <4> QED
          BY <2>3, <2>4, <4>1 DEF UnknownInv, UnknownIsRechecked, Rechecked, Pending
      <3> QED
        BY <3>1, <3>2
    <2>5. UnknownIsRechecked'
      BY <1>1, <2>4 DEF UnknownIsRechecked, Rechecked, HoldInv, TypeInv, TypeOK
    <2>6. \A s \in Source :
            /\ stage'[s] \in {"analyze", "alert"} => cand'[s] \notin unknown'
            /\ stage'[s] = "seen" /\ cand'[s] \in unknown' => Rechecked(cand[s])'
      BY <1>0, <1>1, <1>2, <2>3 DEF UnknownInv, HoldInv, TypeInv, StageInv, Rechecked
    <2> QED
      BY <2>1, <2>5, <2>6 DEF UnknownInv, Actor, Rechecked
  <1> QED
    BY <1>1, <1>3, <1>4, <1>5

LEMMA UnknownStep ==
    ASSUME HoldInv, UnknownInv, [Next]_vars PROVE UnknownInv'
  <1>0. /\ "pending" \in Actor /\ stage \in [Actor -> Stage]
        /\ cand \in [Actor -> Candidate \cup {None}]
    BY DEF Actor, HoldInv, TypeInv, TypeOK
  <1>1. CASE ScanRange \/ PollGecko \/ EndRange \/ (\E a \in Actor : AckLost(a))
             \/ (\E c \in Candidate : Age(c) \/ ExpireSeen(c)) \/ UNCHANGED vars
    <2>1. /\ UNCHANGED <<stage, cand, kind, checks, unknown>>
          /\ seen' \subseteq seen
      BY <1>1 DEF ScanRange, PollGecko, EndRange, AckLost, Age, ExpireSeen, vars, durable,
                  history
    <2> QED
      BY <2>1, UnknownKept
  <1>2. ASSUME NEW s \in Source, SourceStep(s) PROVE UnknownInv'
    <2>1. UNCHANGED <<kind, checks, seen, unknown>>
      BY <1>2 DEF SourceStep, Offer, Take, Finish, durable, history
    <2>2. /\ \A b \in Actor : b # s => stage'[b] = stage[b] /\ cand'[b] = cand[b]
          /\ stage'[s] \in {"idle", "classify"} \/ UNCHANGED <<stage, cand>>
      BY <1>0, <1>2, SourceActor DEF SourceStep, Offer, Take, Finish
    <2>3. "pending" # s
      BY SourceActor
    <2> QED
      BY <1>0, <2>1, <2>2, <2>3
      DEF UnknownInv, UnknownIsRechecked, Pending, IsRecheck, Rechecked
  <1>3. CASE Exit \/ Crash
    <2>1. UNCHANGED <<seen, unknown, checks>> /\ \A a \in Actor : stage'[a] = "idle"
      BY <1>3 DEF Exit, Crash, Restarted, durable
    <2> QED
      BY <1>0, <2>1 DEF UnknownInv, UnknownIsRechecked, Pending, Rechecked
  <1> QED
    BY <1>1, <1>2, <1>3, UnknownOperation, UnknownWorker DEF Next

(* No candidate whose sellability stayed unknown is marked seen without a  *)
(* recheck on file or a recovery that will analyze it again: onAnalyzed    *)
(* before markSeen, through any failure between the two.                   *)
THEOREM UnknownNotForgotten == Spec => []UnknownIsRechecked
  <1>1. Init => HoldInv /\ UnknownInv
    <2>1. Init => UnknownInv
      BY DEF Init, UnknownInv, UnknownIsRechecked, Actor
    <2> QED
      BY <2>1, InitHoldInv
  <1>2. HoldInv /\ UnknownInv /\ [Next]_vars => HoldInv' /\ UnknownInv'
    BY HoldInvStep, UnknownStep
  <1>3. UnknownInv => UnknownIsRechecked
    BY DEF UnknownInv
  <1> QED
    BY <1>1, <1>2, <1>3, PTL DEF Spec

(* What a step may do to a recheck on file.                                *)
RecheckKept(c) ==
    LET old == checks["recheck"][c]
        new == checks'["recheck"][c]
    IN /\ old.status \in {"completed", "failed"} => new = old
       /\ old.status = "pending" => new.attempts >= old.attempts

LEMMA RecheckStep ==
    ASSUME HoldInv, [Next]_vars, NEW c \in Candidate
    PROVE  RecheckKept(c)
  <1>0. /\ checks \in [Kind -> [Candidate -> Check]]
        /\ "recheck" \in Kind /\ checks["recheck"][c].attempts \in Nat
    BY DEF HoldInv, TypeInv, TypeOK, Kind, Check
  <1>1. CASE UNCHANGED checks
    BY <1>0, <1>1 DEF RecheckKept
  <1>2. ASSUME NEW a \in Actor, OperationStep(a) PROVE RecheckKept(c)
    <2>1. Turn(a) /\ cand[a] \in Candidate
      BY <1>2, OperationTurn, TurnStage DEF HoldInv, TypeInv, StageInv
    <2>2. \/ checks'["recheck"][c] = checks["recheck"][c]
          \/ checks["recheck"][c].status = "none"
      BY <1>0, <2>1, TurnChecks DEF HoldInv
    <2> QED
      BY <1>0, <2>2 DEF RecheckKept
  <1>3. CASE WorkerStep
    <2>1. CASE Concludes
      <3>1. Pending(kind, cand["pending"])
        BY <2>1 DEF Concludes, HoldInv, TypeInv, StageInv
      <3>2. PICK st \in {"pending", "completed", "failed"}, n \in Nat :
              /\ n >= checks[kind][cand["pending"]].attempts
              /\ checks'["recheck"][c] =
                   IF "recheck" = kind /\ c = cand["pending"] THEN [status |-> st, attempts |-> n]
                   ELSE checks["recheck"][c]
        BY <1>0, <2>1 DEF Concludes
      <3> QED
        BY <1>0, <3>1, <3>2 DEF RecheckKept, Pending
    <2> QED
      BY <1>1, <1>3, <2>1, WorkerTurn DEF HoldInv, SelectDue, Starts, Falters, durable
  <1>4. CASE ~(\E a \in Actor : OperationStep(a)) /\ ~WorkerStep
    <2>1. UNCHANGED checks
      BY <1>4 DEF Next, ScanRange, PollGecko, EndRange, SourceStep, Offer, Take, Finish,
                  AckLost, Exit, Crash, Restarted, Age, ExpireSeen, vars, durable
    <2> QED
      BY <1>1, <2>1
  <1> QED
    BY <1>2, <1>3, <1>4

(* No step reopens a terminal recheck or gives a pending one an attempt    *)
(* back: neither a second analysis, nor a rescan, a retry or a restart.    *)
THEOREM RecheckOnce == Spec => RecheckRunsOnce
  <1>1. Init => HoldInv
    BY InitHoldInv
  <1>2. HoldInv /\ [Next]_vars => HoldInv'
    BY HoldInvStep
  <1>3. HoldInv /\ [Next]_vars =>
          [\A c \in Candidate :
             LET old == checks["recheck"][c]
                 new == checks'["recheck"][c]
             IN /\ old.status \in {"completed", "failed"} => new = old
                /\ old.status = "pending" => new.attempts >= old.attempts
          ]_checks
    BY RecheckStep DEF RecheckKept
  <1> QED
    BY <1>1, <1>2, <1>3, PTL DEF Spec, RecheckRunsOnce

-----------------------------------------------------------------------------
(* The messages a candidate may still get.                                  *)

(* The operation of c is past the age check but not past its message, or   *)
(* past it but not yet marked; the worker is about to close the check.     *)
Active(c)  == \E a \in Actor : Holds(a, c) /\ stage[a] \in {"analyze", "alert", "schedule"}
Late(c)    == \E a \in Actor : Holds(a, c) /\ stage[a] = "seen"
Done(k, c) == stage["pending"] = "complete" /\ kind = k /\ cand["pending"] = c
Down       == stage["pending"] = "down"

(* A first operation, or a recheck, of c that may still send a message.    *)
FirstDue(c) ==
    \/ Active(c)
    \/ c \notin aged /\ (c \notin seen \/ Pending("recovery", c)) /\ ~Late(c)
         /\ ~Done("recovery", c)
RecheckDue(c) == Pending("recheck", c) /\ ~Done("recheck", c)

One(b) == IF b THEN 1 ELSE 0

(* Sent and owed messages stay within the budget.  A worker that is down   *)
(* owes one more: the restart may repeat the operation it was running.     *)
Owed(c)   == One(FirstDue(c)) + One(RecheckDue(c)) + One(Down)
BudgetInv == \A c \in Candidate : alerts[c] + Owed(c) <= 1 + 2 * faults

(* What a step may do to the account of c: nothing new is owed; one thing  *)
(* is owed for another; a message is sent for what was owed; or a fault    *)
(* pays for two.                                                           *)
Balanced(c) ==
    \/ /\ faults' = faults /\ alerts'[c] = alerts[c]
       /\ Down' => Down
       /\ RecheckDue(c)' => RecheckDue(c)
       /\ FirstDue(c)' => FirstDue(c)
    \/ /\ faults' = faults /\ alerts'[c] = alerts[c]
       /\ Down' => Down
       /\ FirstDue(c) /\ ~FirstDue(c)'
    \/ /\ faults' = faults /\ alerts'[c] = alerts[c]
       /\ Down /\ ~Down'
       /\ RecheckDue(c)' => RecheckDue(c)
    \/ /\ faults' = faults /\ alerts'[c] = alerts[c] + 1
       /\ Down' => Down
       /\ \/ FirstDue(c) /\ ~FirstDue(c)' /\ (RecheckDue(c)' => RecheckDue(c))
          \/ RecheckDue(c) /\ ~RecheckDue(c)' /\ (FirstDue(c)' => FirstDue(c))
    \/ /\ faults' = faults + 1 /\ alerts'[c] = alerts[c]
       /\ \/ Down' => Down
          \/ RecheckDue(c)' => RecheckDue(c)
          \/ FirstDue(c)' => FirstDue(c)
    \/ /\ faults' = faults + 1 /\ alerts'[c] = alerts[c] + 1
       /\ Down' => Down
       /\ RecheckDue(c)' => RecheckDue(c)
       /\ FirstDue(c)' => FirstDue(c)

LEMMA Balance ==
    ASSUME TypeInv, TypeInv', NEW c \in Candidate, Balanced(c),
           alerts[c] + Owed(c) <= 1 + 2 * faults
    PROVE  (alerts[c] + Owed(c) <= 1 + 2 * faults)'
  <1>1. /\ alerts[c] \in Nat /\ alerts'[c] \in Nat /\ faults \in Nat /\ faults' \in Nat
    BY PipelineAssumption DEF TypeInv, TypeOK
  <1>2. PICK f \in 0 .. 1, r \in 0 .. 1, w \in 0 .. 1 :
          /\ f = One(FirstDue(c)) /\ r = One(RecheckDue(c)) /\ w = One(Down)
    BY DEF One
  <1>3. PICK f1 \in 0 .. 1, r1 \in 0 .. 1, w1 \in 0 .. 1 :
          /\ f1 = One(FirstDue(c)') /\ r1 = One(RecheckDue(c)') /\ w1 = One(Down')
    BY DEF One
  <1>4. /\ (Down' => Down) => w1 <= w
        /\ (RecheckDue(c)' => RecheckDue(c)) => r1 <= r
        /\ (FirstDue(c)' => FirstDue(c)) => f1 <= f
        /\ Down /\ ~Down' => w1 + 1 <= w
        /\ RecheckDue(c) /\ ~RecheckDue(c)' => r1 + 1 <= r
        /\ FirstDue(c) /\ ~FirstDue(c)' => f1 + 1 <= f
    BY <1>2, <1>3 DEF One
  <1>5. alerts[c] + (f + r + w) <= 1 + 2 * faults
    BY <1>2 DEF Owed
  <1>6. \/ faults' = faults /\ alerts'[c] = alerts[c] /\ w1 <= w /\ r1 <= r /\ f1 <= f
        \/ faults' = faults /\ alerts'[c] = alerts[c] /\ w1 <= w /\ f1 + 1 <= f
        \/ faults' = faults /\ alerts'[c] = alerts[c] /\ w1 + 1 <= w /\ r1 <= r
        \/ /\ faults' = faults /\ alerts'[c] = alerts[c] + 1 /\ w1 <= w
           /\ (f1 + 1 <= f /\ r1 <= r) \/ (r1 + 1 <= r /\ f1 <= f)
        \/ faults' = faults + 1 /\ alerts'[c] = alerts[c] /\ (w1 <= w \/ r1 <= r \/ f1 <= f)
        \/ /\ faults' = faults + 1 /\ alerts'[c] = alerts[c] + 1
           /\ w1 <= w /\ r1 <= r /\ f1 <= f
    BY <1>4 DEF Balanced
  <1>7. alerts'[c] + (f1 + r1 + w1) <= 1 + 2 * faults'
    BY <1>1, <1>5, <1>6
  <1> QED
    BY <1>3, <1>7 DEF Owed

(* Who may stand between a candidate and its next first operation, before  *)
(* and after a turn on it that is not a recheck: only that turn.           *)
LEMMA TurnAccount ==
    ASSUME HoldInv, NEW a \in Actor, OperationStep(a), ~IsRecheck(a),
           NEW c \in Candidate, c = cand[a]
    PROVE  /\ Active(c) <=> stage[a] \in {"analyze", "alert", "schedule"}
           /\ Late(c) <=> stage[a] = "seen"
           /\ ~Done("recovery", c)
           /\ stage[a] = "classify" => c \notin seen \/ Pending("recovery", c)
           /\ Active(c)' <=> stage'[a] \in {"analyze", "alert", "schedule"}
           /\ Late(c)' <=> stage'[a] = "seen"
           /\ Done("recovery", c)' <=> a = "pending" /\ stage'[a] = "complete"
           /\ Down' => Down \/ stage'[a] = "down"
  <1>0. /\ stage \in [Actor -> Stage] /\ "pending" \in Actor /\ "pending" \notin Source
    BY SourceActor DEF HoldInv, TypeInv, TypeOK, Actor
  <1>1. Turn(a) /\ UNCHANGED <<cand, kind>>
    BY OperationTurn, OperationFrame DEF HoldInv
  <1>2. stage[a] \in {"classify", "analyze", "alert", "schedule", "seen"}
    BY <1>0, <1>1, TurnStage DEF HoldInv, Stage
  <1>3. PICK st \in Stage \ {"idle"} : stage' = [stage EXCEPT ![a] = st]
    BY <1>1, TurnStage DEF HoldInv
  <1>4. Holds(a, c) /\ (Holds(a, c)' <=> stage'[a] \in {"classify", "analyze", "alert", "schedule", "seen"})
    BY <1>1, <1>2 DEF Holds, IsRecheck
  <1>5. ASSUME NEW b \in Actor, b # a
        PROVE  ~Holds(b, c) /\ ~Holds(b, c)'
    <2>1. ~Holds(b, c)
      <3>1. CASE b \in Source
        BY <1>2, <1>5, <3>1, HeldAlone
      <3>2. CASE b = "pending"
        BY <1>4, <1>5, <3>2, HeldAlone DEF Holds, Actor
      <3> QED
        BY <3>1, <3>2 DEF Actor
    <2>2. stage'[b] = stage[b]
      BY <1>0, <1>3, <1>5
    <2> QED
      BY <1>1, <2>1, <2>2 DEF Holds, IsRecheck
  <1>6. a \in Source => c \notin seen /\ ~Pending("recovery", c)
    BY <1>4 DEF HoldInv, AloneInv
  <1>7. a = "pending" => kind = "recovery" /\ Pending("recovery", c)
    BY <1>2 DEF HoldInv, TypeInv, StageInv, IsRecheck, Kind
  <1>8. ~Done("recovery", c)
    <2>1. CASE a = "pending"
      BY <1>2, <2>1 DEF Done
    <2>2. CASE a \in Source
      BY <1>6, <2>2 DEF Done, HoldInv, TypeInv, StageInv
    <2> QED
      BY <2>1, <2>2 DEF Actor
  <1>9. Done("recovery", c)' <=> a = "pending" /\ stage'[a] = "complete"
    <2>1. CASE a = "pending"
      BY <1>1, <1>7, <2>1 DEF Done
    <2>2. CASE a # "pending"
      BY <1>0, <1>1, <1>3, <1>8, <2>2 DEF Done
    <2> QED
      BY <2>1, <2>2
  <1>10. Down' => Down \/ stage'[a] = "down"
    BY <1>0, <1>3 DEF Down
  <1> QED
    BY <1>2, <1>4, <1>5, <1>6, <1>7, <1>8, <1>9, <1>10 DEF Active, Late, Actor

(* Nobody else's account is touched.                                       *)
LEMMA TurnElsewhere ==
    ASSUME HoldInv, NEW a \in Actor, OperationStep(a), NEW d \in Candidate, d # cand[a]
    PROVE  /\ FirstDue(d)' <=> FirstDue(d)
           /\ RecheckDue(d)' <=> RecheckDue(d)
           /\ alerts'[d] = alerts[d]
  <1>0. /\ stage \in [Actor -> Stage] /\ "pending" \in Actor /\ "recovery" \in Kind
        /\ "recheck" \in Kind /\ alerts \in [Candidate -> Nat]
    BY DEF HoldInv, TypeInv, TypeOK, Actor, Kind
  <1>1. Turn(a) /\ UNCHANGED <<cand, kind, aged>>
    BY OperationTurn, OperationFrame DEF HoldInv
  <1>2. PICK st \in Stage \ {"idle"} : stage' = [stage EXCEPT ![a] = st]
    BY <1>1, TurnStage DEF HoldInv
  <1>3. cand[a] \in Candidate
    BY <1>1, TurnStage DEF HoldInv, TypeInv, StageInv
  <1>4. alerts'[d] = alerts[d] /\ (d \in seen' <=> d \in seen)
    <2>1. CASE Tells(a)
      BY <1>0, <2>1 DEF Tells
    <2>2. CASE Marks(a)
      BY <2>2 DEF Marks, StoreKept
    <2> QED
      BY <1>1, <2>1, <2>2 DEF Turn, Proceeds, FindsUnknown, Rechecks, Records, HandsOver,
                              GivesBack, Breaks
  <1>5. \A k \in Kind : Pending(k, d)' <=> Pending(k, d)
    BY <1>1, <1>3, TurnChecks DEF HoldInv, Pending
  <1>6. \A b \in Actor : cand[b] = d => stage'[b] = stage[b]
    BY <1>0, <1>2
  <1>7. (Active(d)' <=> Active(d)) /\ (Late(d)' <=> Late(d))
    BY <1>1, <1>6 DEF Active, Late, Holds, IsRecheck
  <1>8. \A k \in Kind : Done(k, d)' <=> Done(k, d)
    BY <1>0, <1>1, <1>6 DEF Done
  <1> QED
    BY <1>0, <1>1, <1>4, <1>5, <1>7, <1>8 DEF FirstDue, RecheckDue

LEMMA BudgetFirst ==
    ASSUME HoldInv, NEW a \in Actor, OperationStep(a), ~IsRecheck(a),
           NEW c \in Candidate, c = cand[a]
    PROVE  Balanced(c)
  <1>0. /\ stage \in [Actor -> Stage] /\ "pending" \in Actor /\ "recovery" \in Kind
        /\ "recheck" \in Kind /\ alerts \in [Candidate -> Nat]
    BY DEF HoldInv, TypeInv, TypeOK, Actor, Kind
  <1>1. Turn(a) /\ UNCHANGED <<cand, kind, aged>>
    BY OperationTurn, OperationFrame DEF HoldInv
  <1>2. PICK st \in Stage \ {"idle"} : stage' = [stage EXCEPT ![a] = st]
    BY <1>1, TurnStage DEF HoldInv
  <1>3. Done("recheck", c)' <=> Done("recheck", c)
    BY <1>0, <1>1, <1>2 DEF Done, IsRecheck
  <1>4. \A k \in Kind : ~HandsOver(a) /\ ~Records(a) =>
            (Pending(k, c)' <=> Pending(k, c))
    BY <1>1, TurnChecks DEF HoldInv, Pending, Kind
  <1>5. ~Records(a) => (RecheckDue(c)' <=> RecheckDue(c))
    BY <1>0, <1>1, <1>3, TurnChecks DEF HoldInv, RecheckDue, Pending
  <1>6. stage[a] = "classify" /\ c \notin aged => FirstDue(c)
    BY TurnAccount DEF FirstDue
  <1>7. stage[a] \in {"analyze", "alert", "schedule"} => FirstDue(c)
    BY TurnAccount DEF FirstDue
  <1>8. stage'[a] = "seen" => ~FirstDue(c)'
    BY TurnAccount DEF FirstDue
  <1>9. CASE Proceeds(a) \/ FindsUnknown(a) \/ GivesBack(a) \/ HandsOver(a)
    <2>1. UNCHANGED <<faults, alerts, seen>> /\ (Down' => Down)
      BY <1>0, <1>9, TurnAccount
      DEF Proceeds, FindsUnknown, GivesBack, HandsOver, StoreKept
    <2>2. ~Records(a)
      BY <1>9, SourceActor DEF Proceeds, FindsUnknown, GivesBack, HandsOver, Records
    <2>3. FirstDue(c)' => FirstDue(c)
      <3>1. CASE stage[a] = "classify"
        <4>1. c \notin aged \/ ~FirstDue(c)'
          BY <1>0, <1>1, <1>8, <1>9, <3>1, TurnAccount
          DEF Proceeds, FindsUnknown, GivesBack, HandsOver, FirstDue
        <4> QED
          BY <1>6, <3>1, <4>1
      <3>2. CASE stage[a] # "classify"
        BY <1>7, <1>9, <3>2 DEF Proceeds, FindsUnknown, GivesBack, HandsOver
      <3> QED
        BY <3>1, <3>2
    <2> QED
      BY <1>5, <2>1, <2>2, <2>3 DEF Balanced
  <1>10. CASE Tells(a)
    <2>1. /\ stage[a] = "alert" /\ stage'[a] = "seen" /\ faults' = faults
          /\ alerts'[c] = alerts[c] + 1
      BY <1>0, <1>10 DEF Tells, StoreKept
    <2>2. ~Records(a)
      BY <2>1 DEF Records
    <2>3. Down' => Down
      BY <2>1, TurnAccount
    <2> QED
      BY <1>5, <1>7, <1>8, <2>1, <2>2, <2>3 DEF Balanced
  <1>11. CASE Records(a)
    <2>1. /\ stage[a] = "schedule" /\ stage'[a] = "seen" /\ UNCHANGED <<faults, alerts>>
      BY <1>0, <1>11 DEF Records
    <2>2. Down' => Down
      BY <2>1, TurnAccount
    <2> QED
      BY <1>7, <1>8, <2>1, <2>2 DEF Balanced
  <1>12. CASE Marks(a)
    <2>1. /\ stage[a] = "seen" /\ stage'[a] = (IF a = "pending" THEN "complete" ELSE "finish")
          /\ UNCHANGED <<faults, alerts, checks>> /\ c \in seen'
      BY <1>0, <1>12 DEF Marks, StoreKept
    <2>2. ~Records(a) /\ (Down' => Down)
      BY <2>1, TurnAccount DEF Records
    <2>3. ~FirstDue(c)'
      <3>1. CASE a = "pending"
        BY <2>1, <3>1, TurnAccount DEF FirstDue
      <3>2. CASE a \in Source
        <4>1. ~Pending("recovery", c)'
          BY <2>1, <3>2, SourceActor DEF HoldInv, AloneInv, Holds, Pending
        <4> QED
          BY <2>1, <3>2, <4>1, TurnAccount DEF FirstDue
      <3> QED
        BY <3>1, <3>2 DEF Actor
    <2> QED
      BY <1>5, <2>1, <2>2, <2>3 DEF Balanced
  <1>13. CASE Breaks(a)
    <2>1. ~Records(a) /\ faults' = faults + 1 /\ alerts' = alerts
      BY <1>0, <1>1, <1>13 DEF Breaks, Records, HoldInv, TypeInv, TypeOK, Actor
    <2> QED
      BY <1>5, <2>1 DEF Balanced
  <1>14. ~Rechecks(a)
    BY DEF Rechecks
  <1> QED
    BY <1>1, <1>9, <1>10, <1>11, <1>12, <1>13, <1>14 DEF Turn

LEMMA BudgetRecheck ==
    ASSUME HoldInv, NEW a \in Actor, OperationStep(a), IsRecheck(a),
           NEW c \in Candidate, c = cand[a]
    PROVE  Balanced(c)
  <1>0. /\ stage \in [Actor -> Stage] /\ alerts \in [Candidate -> Nat]
        /\ a = "pending" /\ kind = "recheck"
    BY DEF HoldInv, TypeInv, TypeOK, IsRecheck
  <1>1. Turn(a) /\ UNCHANGED <<cand, kind, aged>>
    BY OperationTurn, OperationFrame DEF HoldInv
  <1>2. PICK st \in Stage \ {"idle"} : stage' = [stage EXCEPT ![a] = st]
    BY <1>1, TurnStage DEF HoldInv
  <1>3. Rechecks(a) \/ Tells(a) \/ GivesBack(a) \/ Breaks(a)
    BY <1>0, <1>1, SourceActor
    DEF Turn, Proceeds, FindsUnknown, Records, Marks, HandsOver
  <1>4. UNCHANGED <<checks, seen>>
    BY <1>3 DEF Rechecks, Tells, GivesBack, Breaks, StoreKept
  <1>5. FirstDue(c)' <=> FirstDue(c)
    <2>1. \A b \in Actor : b # a => stage'[b] = stage[b]
      BY <1>0, <1>2
    <2>2. ~Holds(a, c) /\ ~Holds(a, c)'
      BY <1>1 DEF Holds, IsRecheck
    <2>3. (Active(c)' <=> Active(c)) /\ (Late(c)' <=> Late(c))
      BY <1>1, <2>1, <2>2 DEF Active, Late, Holds, IsRecheck
    <2>4. ~Done("recovery", c) /\ ~Done("recovery", c)'
      BY <1>0, <1>1 DEF Done
    <2> QED
      BY <1>1, <1>4, <2>3, <2>4 DEF FirstDue, Pending
  <1>6. RecheckDue(c)
    BY <1>0, <1>1, TurnStage DEF RecheckDue, Done, HoldInv, TypeInv, StageInv
  <1>7. CASE Tells(a)
    <2>1. /\ stage'[a] = "complete" /\ faults' = faults /\ alerts'[c] = alerts[c] + 1
      BY <1>0, <1>7 DEF Tells, StoreKept
    <2>2. ~RecheckDue(c)' /\ ~Down'
      BY <1>0, <1>1, <2>1 DEF RecheckDue, Done, Down
    <2> QED
      BY <1>5, <1>6, <2>1, <2>2 DEF Balanced
  <1>8. CASE Rechecks(a) \/ GivesBack(a)
    <2>1. stage'[a] # "down" /\ UNCHANGED <<faults, alerts>>
      BY <1>0, <1>8 DEF Rechecks, GivesBack, StoreKept
    <2> QED
      BY <1>0, <1>5, <1>6, <2>1 DEF Balanced, Down
  <1>9. CASE Breaks(a)
    BY <1>5, <1>9 DEF Balanced, Breaks
  <1> QED
    BY <1>3, <1>7, <1>8, <1>9

LEMMA BudgetOperation ==
    ASSUME HoldInv, NEW a \in Actor, OperationStep(a), NEW d \in Candidate
    PROVE  Balanced(d)
  <1>0. /\ stage \in [Actor -> Stage] /\ "pending" \in Actor
    BY DEF HoldInv, TypeInv, TypeOK, Actor
  <1>1. CASE d = cand[a]
    BY <1>1, BudgetFirst, BudgetRecheck
  <1>2. CASE d # cand[a]
    <2>1. Turn(a)
      BY OperationTurn DEF HoldInv
    <2>2. faults' = faults + 1 \/ (faults' = faults /\ (Down' => Down))
      BY <1>0, <2>1
      DEF Turn, Proceeds, FindsUnknown, Rechecks, Tells, Records, Marks, HandsOver,
          GivesBack, Breaks, StoreKept, Down
    <2> QED
      BY <1>2, <2>2, TurnElsewhere DEF Balanced
  <1> QED
    BY <1>1, <1>2

LEMMA BudgetWorker ==
    ASSUME HoldInv, CompletedInv, WorkerStep, NEW d \in Candidate
    PROVE  Balanced(d)
  <1> DEFINE c == cand["pending"]
  <1>0. /\ stage \in [Actor -> Stage] /\ "pending" \in Actor
        /\ "recovery" \in Kind /\ "recheck" \in Kind
        /\ cand \in [Actor -> Candidate \cup {None}]
        /\ \A s \in Source : s \in Actor /\ s # "pending" /\ ~IsRecheck(s) /\ ~IsRecheck(s)'
    BY SourceActor DEF HoldInv, TypeInv, TypeOK, Actor, Kind, IsRecheck
  <1>1. /\ SelectDue \/ Starts \/ Concludes \/ Falters
        /\ UNCHANGED <<seen, aged, alerts>>
    BY WorkerTurn DEF HoldInv
  <1>2. \A s \in Source : stage'[s] = stage[s] /\ cand'[s] = cand[s]
    BY WorkerGrows DEF HoldInv
  <1>3. CASE SelectDue
    <2>1. UNCHANGED <<stage, cand, kind, checks, faults>>
      BY <1>3 DEF SelectDue, durable, history
    <2> QED
      BY <1>1, <2>1
      DEF Balanced, FirstDue, RecheckDue, Active, Late, Done, Down, Holds, IsRecheck, Pending
  <1>4. CASE Starts
    <2>1. /\ stage["pending"] = "idle" /\ UNCHANGED <<checks, faults>>
          /\ stage'["pending"] = "classify" \/ (stage'["pending"] = "analyze" /\ IsRecheck("pending")')
      <3>1. PICK e \in due : kind' = e[1] /\ stage' = [stage EXCEPT !["pending"] =
                         IF e[1] = "recovery" THEN "classify" ELSE "analyze"]
        BY <1>4 DEF Starts
      <3>2. e[1] \in Kind
        BY <3>1 DEF HoldInv, TypeInv, TypeOK
      <3> QED
        BY <1>0, <1>4, <3>1, <3>2 DEF IsRecheck, Kind, Starts
    <2>2. /\ Active(d)' => Active(d)
          /\ Late(d) => Late(d)'
      BY <1>0, <1>2, <2>1 DEF Active, Late, Holds, Actor
    <2>3. \A k \in Kind : ~Done(k, d)
      BY <2>1 DEF Done
    <2>4. FirstDue(d)' => FirstDue(d)
      BY <1>0, <1>1, <2>1, <2>2, <2>3 DEF FirstDue, Pending
    <2>5. RecheckDue(d)' => RecheckDue(d)
      BY <1>0, <2>1, <2>3 DEF RecheckDue, Pending
    <2> QED
      BY <1>1, <2>1, <2>4, <2>5 DEF Balanced, Down
  <1>5. CASE Falters
    <2>1. faults' = faults + 1 /\ UNCHANGED <<checks, cand, kind>>
      BY <1>5 DEF Falters
    <2>2. CASE stage["pending"] = "retry"
      <3>1. RecheckDue(d)' => RecheckDue(d)
        BY <1>0, <2>1, <2>2 DEF RecheckDue, Pending, Done
      <3> QED
        BY <1>1, <2>1, <3>1 DEF Balanced
    <2>3. CASE stage["pending"] # "retry"
      <3>1. ~Down'
        BY <1>0, <1>5, <2>3 DEF Falters, Down
      <3> QED
        BY <1>1, <2>1, <3>1 DEF Balanced
    <2> QED
      BY <2>2, <2>3
  <1>6. CASE Concludes
    <2>1. /\ stage'["pending"] = "idle" /\ faults' = faults
          /\ stage["pending"] \in {"complete", "again", "retry"}
      <3>1. /\ stage' = [stage EXCEPT !["pending"] = "idle"] /\ faults' = faults
            /\ stage["pending"] \in {"complete", "again", "retry"}
        BY <1>6 DEF Concludes
      <3> QED
        BY <1>0, <3>1
    <2>2. kind \in Kind /\ c \in Candidate /\ Pending(kind, c)
      BY <1>0, <2>1 DEF HoldInv, TypeInv, StageInv
    <2>3. PICK st \in {"pending", "completed", "failed"}, n \in Nat :
            /\ st = "completed" <=> stage["pending"] = "complete"
            /\ \A k \in Kind, e \in Candidate : checks'[k][e] =
                 IF k = kind /\ e = c THEN [status |-> st, attempts |-> n]
                 ELSE checks[k][e]
      BY <1>6 DEF Concludes
    <2>4. \A k \in Kind : Pending(k, d)' => Pending(k, d)
      BY <2>2, <2>3 DEF Pending
    <2>5. /\ Active(d)' <=> Active(d)
          /\ Late(d)' <=> Late(d)
          /\ \A k \in Kind : ~Done(k, d)'
      BY <1>0, <1>2, <2>1 DEF Active, Late, Holds, Actor, Done
    <2>6. ASSUME NEW k \in Kind, Done(k, d) PROVE ~Pending(k, d)'
      BY <2>2, <2>3, <2>6 DEF Done, Pending
    <2>7. RecheckDue(d)' => RecheckDue(d)
      BY <1>0, <2>4, <2>6 DEF RecheckDue
    <2>8. FirstDue(d)' => FirstDue(d)
      <3>1. CASE Done("recovery", d)
        <4>1. d \in seen \/ d \in aged
          BY <3>1 DEF Done, CompletedInv
        <4>2. ~Pending("recovery", d)'
          BY <1>0, <2>6, <3>1
        <4> QED
          BY <1>1, <2>5, <4>1, <4>2 DEF FirstDue
      <3>2. CASE ~Done("recovery", d)
        BY <1>0, <1>1, <2>4, <2>5, <3>2 DEF FirstDue
      <3> QED
        BY <3>1, <3>2
    <2> QED
      BY <1>1, <2>1, <2>7, <2>8 DEF Balanced, Down
  <1> QED
    BY <1>1, <1>3, <1>4, <1>5, <1>6

LEMMA BudgetRest ==
    ASSUME HoldInv, NEW d \in Candidate,
           \/ ScanRange \/ PollGecko \/ EndRange
           \/ \E s \in Source : SourceStep(s)
           \/ \E a \in Actor : AckLost(a)
           \/ Exit \/ Crash
           \/ \E c \in Candidate : Age(c) \/ ExpireSeen(c)
           \/ UNCHANGED vars
    PROVE  Balanced(d)
  <1>0. /\ stage \in [Actor -> Stage] /\ "pending" \in Actor
        /\ cand \in [Actor -> Candidate \cup {None}] /\ alerts \in [Candidate -> Nat]
        /\ \A s \in Source : s \in Actor /\ s # "pending"
    BY SourceActor DEF HoldInv, TypeInv, TypeOK, Actor
  <1>1. ASSUME UNCHANGED <<stage, cand, kind, checks, seen, aged>>
        PROVE  /\ FirstDue(d)' <=> FirstDue(d)
               /\ RecheckDue(d)' <=> RecheckDue(d)
               /\ Down' <=> Down
    BY <1>1 DEF FirstDue, RecheckDue, Active, Late, Done, Down, Holds, IsRecheck, Pending
  <1>2. CASE ScanRange \/ PollGecko \/ UNCHANGED vars
    <2>1. UNCHANGED <<stage, cand, kind, checks, seen, aged, faults, alerts>>
      BY <1>2 DEF ScanRange, PollGecko, vars, durable, history
    <2> QED
      BY <1>1, <2>1 DEF Balanced
  <1>3. CASE EndRange
    <2>1. /\ UNCHANGED <<stage, cand, kind, checks, seen, aged, alerts>>
          /\ faults' = faults \/ faults' = faults + 1
      BY <1>3 DEF EndRange, Fault
    <2> QED
      BY <1>1, <2>1 DEF Balanced
  <1>4. ASSUME NEW s \in Source, SourceStep(s) PROVE Balanced(d)
    <2>1. UNCHANGED <<kind, checks, seen, aged, faults, alerts>>
      BY <1>4 DEF SourceStep, Offer, Take, Finish, durable, history
    <2>2. /\ \A b \in Actor : b # s => stage'[b] = stage[b] /\ cand'[b] = cand[b]
          /\ \/ UNCHANGED <<stage, cand>>
             \/ /\ stage[s] \in {"idle", "finish"}
                /\ stage'[s] \in {"idle", "classify"}
      BY <1>0, <1>4 DEF SourceStep, Offer, Take, Finish
    <2>3. CASE UNCHANGED <<stage, cand>>
      BY <1>1, <2>1, <2>3 DEF Balanced
    <2>4. CASE /\ stage[s] \in {"idle", "finish"}
               /\ stage'[s] \in {"idle", "classify"}
      <3>1. (Active(d)' <=> Active(d)) /\ (Late(d)' <=> Late(d))
        BY <2>1, <2>2, <2>4 DEF Active, Late, Holds, IsRecheck
      <3>2. \A k \in Kind : Done(k, d)' <=> Done(k, d)
        BY <1>0, <2>1, <2>2 DEF Done
      <3>3. Down' <=> Down
        BY <1>0, <2>2 DEF Down
      <3> QED
        BY <2>1, <3>1, <3>2, <3>3 DEF Balanced, FirstDue, RecheckDue, Pending, Kind
    <2> QED
      BY <2>2, <2>3, <2>4
  <1>5. ASSUME NEW a \in Actor, AckLost(a) PROVE Balanced(d)
    <2>1. UNCHANGED <<stage, cand, kind, checks, seen, aged>> /\ faults' = faults + 1
      BY <1>5 DEF AckLost, Fault, durable
    <2>2. alerts'[d] = alerts[d] \/ alerts'[d] = alerts[d] + 1
      BY <1>0, <1>5 DEF AckLost
    <2> QED
      BY <1>1, <2>1, <2>2 DEF Balanced
  <1>6. CASE Exit \/ Crash
    <2>1. /\ \A a \in Actor : stage'[a] = "idle"
          /\ UNCHANGED <<checks, seen, aged, alerts>>
      BY <1>6 DEF Exit, Crash, Restarted, durable
    <2>2. ~Down'
      BY <1>0, <2>1 DEF Down
    <2>3. CASE Exit
      <3>1. Down /\ faults' = faults
        BY <2>3 DEF Exit, Down
      <3>2. RecheckDue(d)' => RecheckDue(d)
        BY <2>1, <3>1 DEF RecheckDue, Done, Down, Pending
      <3> QED
        BY <2>1, <2>2, <3>1, <3>2 DEF Balanced
    <2>4. CASE Crash
      BY <2>1, <2>2, <2>4 DEF Crash, Fault, Balanced
    <2> QED
      BY <1>6, <2>3, <2>4
  <1>7. ASSUME NEW c \in Candidate, Age(c) \/ ExpireSeen(c) PROVE Balanced(d)
    <2>1. /\ UNCHANGED <<stage, cand, kind, checks, alerts, faults>>
          /\ aged \subseteq aged'
          /\ d \notin aged' => (d \in seen' <=> d \in seen)
      BY <1>7 DEF Age, ExpireSeen, durable, history
    <2> QED
      BY <2>1 DEF Balanced, FirstDue, RecheckDue, Active, Late, Done, Down, Holds, IsRecheck,
                  Pending
  <1> QED
    BY <1>2, <1>3, <1>4, <1>5, <1>6, <1>7

(* A candidate gets one message, and at most two more for every fault:     *)
(* whatever the sources, recoveries, rechecks, rescans and restarts.  What *)
(* may still be sent is owed by exactly one first operation or recheck, so *)
(* no second source and no repetition sends it again.                      *)
THEOREM AlertsPaid == Spec => []AlertBudget
  <1>1. Init => HoldInv /\ CompletedInv /\ BudgetInv
    <2>1. Init => CompletedInv
      BY DEF Init, CompletedInv, CompletedImpliesSeen, NoCheck, Kind, Actor
    <2>2. Init => \A c \in Candidate : alerts[c] = 0 /\ faults = 0 /\ ~RecheckDue(c) /\ ~Down
      BY DEF Init, RecheckDue, Pending, NoCheck, Kind, Down, Actor
    <2>3. \A c \in Candidate : ~RecheckDue(c) /\ ~Down => Owed(c) \in {0, 1}
      BY DEF Owed, One
    <2>4. Init => BudgetInv
      BY <2>2, <2>3 DEF BudgetInv
    <2> QED
      BY <2>1, <2>4, InitHoldInv
  <1>2. HoldInv /\ CompletedInv /\ BudgetInv /\ [Next]_vars
          => HoldInv' /\ CompletedInv' /\ BudgetInv'
    <2> SUFFICES ASSUME HoldInv, CompletedInv, BudgetInv, [Next]_vars
                 PROVE  HoldInv' /\ CompletedInv' /\ BudgetInv'
      OBVIOUS
    <2>1. HoldInv' /\ CompletedInv'
      BY HoldInvStep, CompletedStep
    <2>2. ASSUME NEW d \in Candidate PROVE Balanced(d)
      BY BudgetOperation, BudgetWorker, BudgetRest DEF Next
    <2>3. BudgetInv'
      BY <2>1, <2>2, Balance DEF BudgetInv, HoldInv
    <2> QED
      BY <2>1, <2>3
  <1>3. HoldInv /\ BudgetInv => AlertBudget
    <2> SUFFICES ASSUME HoldInv, BudgetInv, NEW c \in Candidate
                 PROVE  alerts[c] <= 1 + 2 * faults
      BY DEF AlertBudget
    <2>1. alerts[c] \in Nat /\ faults \in Nat
      BY PipelineAssumption DEF HoldInv, TypeInv, TypeOK
    <2>2. PICK n \in Nat : n = Owed(c)
      BY DEF Owed, One
    <2>3. alerts[c] + n <= 1 + 2 * faults
      BY <2>2 DEF BudgetInv
    <2> QED
      BY <2>1, <2>2, <2>3
  <1> QED
    BY <1>1, <1>2, <1>3, PTL DEF Spec
=============================================================================
