------------------------- MODULE PonsLifecycleProofs -------------------------
(***************************************************************************)
(* Proofs about PonsLifecycle, for every set of tokens, every chain, every *)
(* age window, number of attempts and number of faults; and about the      *)
(* Outbox, for every set of notifications, limit of a round, number of     *)
(* sends and number of faults.                                             *)
(***************************************************************************)
EXTENDS PonsLifecycle, Outbox, FiniteSetTheorems, SequenceTheorems, WellFoundedInduction, TLAPS

-----------------------------------------------------------------------------
(* The inductive invariant.                                                *)

StateOK(s) ==
    /\ s.phase = "absent" => s = NoState
    /\ s.phase = "rescued" => s.monitor = "killed" /\ s.ready # "yes"

(* How a token state changes in the preview of a range: forward, and dead  *)
(* only by a rescue.                                                       *)
Onward(old, new) ==
    /\ Rank(old.phase) <= Rank(new.phase)
    /\ old.monitor = "killed" => new.monitor = "killed"
    /\ new.monitor = "killed" => old.monitor = "killed" \/ new.phase = "rescued"

AttemptsInv == \A b \in Block : Pending(b) => checks[b].attempts < MaxAttempts

ChainInv ==
    /\ \A b \in Block : b > head => log[b] = NoEvent
    /\ \A b \in Block :
         log[b] # NoEvent => phase[log[b].token] \in ReachedBy(log[b].kind)

Covers(k) == \A b \in Block : b <= k /\ log[b] # NoEvent => b \in applied \/ b < window

FileInv ==
    /\ cursor <= head
    /\ cursor > 0 => cursor <= Safe
    /\ Covers(cursor)
    /\ \A t \in Token : StateOK(tokens[t])
    /\ \A b \in applied :
         /\ log[b] # NoEvent
         /\ b <= cursor
         /\ tokens[log[b].token].phase \in ReachedBy(log[b].kind)
    /\ \A b \in Block : checks[b].status # "none" => b \in applied

LoopInv ==
    /\ lastBlock # Unset => cursor <= lastBlock /\ lastBlock <= head /\ Covers(lastBlock)
    /\ range.to # 0 =>
         /\ cursor <= range.from /\ range.from <= range.at /\ range.at <= range.to
         /\ range.to <= Safe
         /\ range.from < range.to
         /\ Covers(range.from)

InPreview(b) == range.from < b /\ b <= range.at /\ log[b] # NoEvent

PreviewInv ==
    range.to # 0 =>
      /\ \A t \in Token : StateOK(working[t]) /\ Onward(range.snapshot[t], working[t])
      /\ \A b \in Block : InPreview(b) =>
           /\ StateOK(next[b])
           /\ next[b].phase \in ReachedBy(log[b].kind)
           /\ Onward(range.snapshot[log[b].token], next[b])
           /\ Onward(next[b], working[log[b].token])
      /\ \A b, d \in Block :
           InPreview(b) /\ InPreview(d) /\ b <= d /\ log[b].token = log[d].token
             => Onward(next[b], next[d])

WorkerInv ==
    /\ \A b \in due : log[b] # NoEvent
    /\ inspecting # 0 => log[inspecting] # NoEvent

KillInv ==
    /\ \A n \in notices : log[n[1]] # NoEvent
    /\ \A t \in Token :
         /\ \A m, n \in HardKills(t) : m = n
         /\ HardKills(t) # {} => tokens[t].monitor = "killed"
         /\ tokens[t].monitor = "killed" /\ tokens[t].phase # "rescued" => HardKills(t) # {}

IInv ==
    /\ TypeOK
    /\ AttemptsInv
    /\ ChainInv
    /\ FileInv
    /\ LoopInv
    /\ PreviewInv
    /\ WorkerInv
    /\ NewestInspectionOnly
    /\ KillInv

LEMMA InitIInv == Init => IInv
  <1> SUFFICES ASSUME Init PROVE IInv
    OBVIOUS
  <1> USE PonsAssumption DEF Init
  <1>1. TypeOK
    BY DEF TypeOK, Block, Idle, Blank, Nothing, NoState, NoCheck, State, Phase, Unset
  <1>2. AttemptsInv /\ ChainInv /\ FileInv /\ LoopInv /\ PreviewInv /\ WorkerInv
    BY DEF AttemptsInv, ChainInv, FileInv, LoopInv, PreviewInv, WorkerInv, Pending, NoCheck,
           Block, Covers, Safe, StateOK, NoState, Unset, Idle
  <1>3. NewestInspectionOnly
    BY DEF NewestInspectionOnly, Pending, NoCheck
  <1>4. KillInv
    BY DEF KillInv, HardKills, NoState
  <1> QED
    BY <1>1, <1>2, <1>3, <1>4 DEF IInv

-----------------------------------------------------------------------------
(* Sets of blocks, and the two ways a token state changes.                 *)

LEMMA HasLeast ==
  ASSUME NEW T \in SUBSET Nat, T # {}
  PROVE  \E x \in T : \A y \in T : x <= y
  <1>1. \E x \in T : \A y \in T : ~ (<<y, x>> \in OpToRel(<, Nat))
    BY NatLessThanWellFounded, WFMin
  <1>2. ASSUME NEW x \in T, NEW y \in T, ~ (<<y, x>> \in OpToRel(<, Nat))
        PROVE  x <= y
    BY <1>2 DEF OpToRel
  <1> QED
    BY <1>1, <1>2

LEMMA NewestIsLast ==
  ASSUME NEW B \in SUBSET Block, B # {}
  PROVE  Newest(B) \in B /\ \A d \in B : d <= Newest(B)
  <1> DEFINE Distance == {LastBlock - b : b \in B}
  <1>1. Distance \in SUBSET Nat
    BY PonsAssumption DEF Block
  <1>2. Distance # {}
    OBVIOUS
  <1>3. \E u \in Distance : \A v \in Distance : u <= v
    <2> HIDE DEF Distance
    <2> QED
      BY <1>1, <1>2, HasLeast
  <1>4. PICK u \in Distance : \A v \in Distance : u <= v
    BY <1>3
  <1>5. PICK b \in B : u = LastBlock - b
    OBVIOUS
  <1>6. ASSUME NEW d \in B PROVE d <= b
    <2>1. LastBlock - d \in Distance
      OBVIOUS
    <2> QED
      BY <1>4, <1>5, <2>1, PonsAssumption DEF Block
  <1> QED
    BY <1>6 DEF Newest

LEMMA ReachedByUp ==
  ASSUME NEW k \in Kind, NEW p \in ReachedBy(k), NEW q \in Phase, Rank(p) <= Rank(q)
  PROVE  q \in ReachedBy(k)
  BY DEF Kind, ReachedBy, Phase, Rank

LEMMA ReachedByPhase ==
  ASSUME NEW k \in Kind
  PROVE  ReachedBy(k) \subseteq Phase \ {"absent"}
  BY DEF Kind, ReachedBy, Phase

LEMMA RankNat == \A p \in Phase : Rank(p) \in 0 .. 4
  BY DEF Phase, Rank

LEMMA OnwardSame ==
  ASSUME NEW s \in State
  PROVE  Onward(s, s)
  BY RankNat DEF Onward, State

LEMMA OnwardTrans ==
  ASSUME NEW r \in State, NEW s \in State, NEW u \in State, Onward(r, s), Onward(s, u)
  PROVE  Onward(r, u)
  BY DEF Onward, State, Phase, Rank

(* A record that does not conflict moves the state forward, and as far as  *)
(* the record is.                                                          *)
LEMMA ReducedOnward ==
  ASSUME NEW s \in State, StateOK(s), NEW read \in Phase \ {"absent"},
         ~PhaseConflict(s, read)
  PROVE  /\ Reduced(s, read) \in State
         /\ StateOK(Reduced(s, read))
         /\ Onward(s, Reduced(s, read))
         /\ Rank(read) <= Rank(Reduced(s, read).phase)
  <1> USE DEF State, Phase, StateOK, Rank, Onward
  <1>1. CASE s = NoState
    BY <1>1 DEF Reduced, InitialState, NoState
  <1>2. CASE s # NoState /\ s.phase = "rescued"
    BY <1>2 DEF Reduced
  <1>3. CASE s # NoState /\ s.phase # "rescued"
    <2>1. Reduced(s, read) =
            [phase   |-> read,
             monitor |-> CASE read = "rescued" -> "killed"
                           [] read = "pool_created" /\ s.monitor # "killed" -> "decay"
                           [] OTHER -> s.monitor,
             ready   |-> IF read \in {"rescued", "pool_created"} THEN "no" ELSE s.ready,
             rev     |-> s.rev + 1]
      BY <1>3 DEF Reduced
    <2>2. Rank(s.phase) <= Rank(read)
      BY <1>3 DEF PhaseConflict
    <2> QED
      BY <1>3, <2>1, <2>2
  <1> QED
    BY <1>1, <1>2, <1>3

-----------------------------------------------------------------------------
(* The chain only appends: a block that holds an event keeps it, and the   *)
(* record of a token only moves on.                                        *)

ChainEffect ==
    /\ head' \in head .. LastBlock
    /\ window' \in window .. MaxWindow
    /\ log' \in [Block -> [token : Token, kind : Kind] \cup {NoEvent}]
    /\ phase' \in [Token -> Phase]
    /\ \A b \in Block : b <= head => log'[b] = log[b]
    /\ ChainInv'
    /\ UNCHANGED <<file, loop, worker, faults>>

LEMMA MoveEffect ==
  ASSUME TypeOK, ChainInv, NEW t \in Token, NEW from \in Phase, NEW to \in Phase,
         NEW kind \in Kind, Rank(from) <= Rank(to), to \in ReachedBy(kind),
         Move(t, from, to, kind)
  PROVE  ChainEffect
  <1> USE PonsAssumption DEF PonsAssumption
  <1>1. /\ head' = head + 1 /\ head < LastBlock /\ window' = window
        /\ log' = [log EXCEPT ![head + 1] = [token |-> t, kind |-> kind]]
        /\ phase[t] = from
        /\ phase' = [phase EXCEPT ![t] = to]
        /\ UNCHANGED <<file, loop, worker, faults>>
    BY DEF Move, Emit
  <1>2. head' \in head .. LastBlock /\ window' \in window .. MaxWindow
    BY <1>1 DEF TypeOK
  <1>3. /\ log' \in [Block -> [token : Token, kind : Kind] \cup {NoEvent}]
        /\ phase' \in [Token -> Phase]
    BY <1>1 DEF TypeOK
  <1>4. \A b \in Block : log'[b] = IF b = head + 1 THEN [token |-> t, kind |-> kind] ELSE log[b]
    BY <1>1 DEF TypeOK
  <1>5. ASSUME NEW b \in Block, log'[b] # NoEvent
        PROVE  phase'[log'[b].token] \in ReachedBy(log'[b].kind)
    <2>1. CASE b = head + 1
      BY <1>1, <1>4, <2>1 DEF TypeOK
    <2>2. CASE b # head + 1
      <3>1. /\ log'[b] = log[b] /\ log[b] # NoEvent
            /\ log[b].token \in Token /\ log[b].kind \in Kind
            /\ phase[log[b].token] \in ReachedBy(log[b].kind)
        BY <1>4, <1>5, <2>2 DEF TypeOK, ChainInv
      <3>2. CASE log[b].token = t
        BY <1>1, <3>1, <3>2, ReachedByUp DEF TypeOK
      <3>3. CASE log[b].token # t
        BY <1>1, <3>1, <3>3 DEF TypeOK
      <3> QED
        BY <3>2, <3>3
    <2> QED
      BY <2>1, <2>2
  <1>6. \A b \in Block : b > head' => log'[b] = NoEvent
    BY <1>1, <1>4 DEF ChainInv, Block, TypeOK
  <1>7. \A b \in Block : b <= head => log'[b] = log[b]
    BY <1>1, <1>4 DEF TypeOK, Block
  <1> QED
    BY <1>1, <1>2, <1>3, <1>5, <1>6, <1>7 DEF ChainEffect, ChainInv

LEMMA ChainStepEffect ==
  ASSUME TypeOK, ChainInv, ChainStep
  PROVE  ChainEffect
  <1> USE PonsAssumption DEF PonsAssumption
  <1>1. ASSUME NEW t \in Token, Launch(t) PROVE ChainEffect
    <2>1. Rank("absent") <= Rank("not_graduated") /\ "not_graduated" \in ReachedBy("token_launched")
      BY DEF Rank, ReachedBy
    <2> QED
      BY <1>1, <2>1, MoveEffect DEF Launch, Phase, Kind
  <1>2. ASSUME NEW t \in Token, Sweep(t) PROVE ChainEffect
    <2>1. Rank("not_graduated") <= Rank("swept") /\ "swept" \in ReachedBy("launch_swept")
      BY DEF Rank, ReachedBy
    <2> QED
      BY <1>2, <2>1, MoveEffect DEF Sweep, Phase, Kind
  <1>3. ASSUME NEW t \in Token, Graduate(t) PROVE ChainEffect
    <2>1. Rank("swept") <= Rank("pool_created") /\ "pool_created" \in ReachedBy("pool_graduated")
      BY DEF Rank, ReachedBy
    <2> QED
      BY <1>3, <2>1, MoveEffect DEF Graduate, Phase, Kind
  <1>4. ASSUME NEW t \in Token, Lock(t) PROVE ChainEffect
    <2>1. Rank("pool_created") <= Rank("pool_created") /\ "pool_created" \in ReachedBy("tokens_locked")
      BY DEF Rank, ReachedBy
    <2> QED
      BY <1>4, <2>1, MoveEffect DEF Lock, Phase, Kind
  <1>5. ASSUME NEW t \in Token, Rescue(t) PROVE ChainEffect
    <2>1. phase' \in [Token -> Phase] /\ UNCHANGED <<head, log, window, file, loop, worker, faults>>
      BY <1>5 DEF Rescue, TypeOK, Phase
    <2>2. ASSUME NEW b \in Block, log[b] # NoEvent
          PROVE  phase'[log[b].token] \in ReachedBy(log[b].kind)
      <3>1. log[b].token \in Token /\ log[b].kind \in Kind
            /\ phase[log[b].token] \in ReachedBy(log[b].kind)
        BY <2>2 DEF TypeOK, ChainInv
      <3>2. CASE log[b].token = t
        <4>1. phase[t] = "swept" /\ phase'[t] = "rescued" /\ "rescued" \in Phase
          BY <1>5 DEF Rescue, TypeOK, Phase
        <4>2. Rank("swept") <= Rank("rescued")
          BY DEF Rank
        <4> QED
          BY <3>1, <3>2, <4>1, <4>2, ReachedByUp
      <3>3. CASE log[b].token # t
        BY <1>5, <3>1, <3>3 DEF Rescue, TypeOK
      <3> QED
        BY <3>2, <3>3
    <2> QED
      BY <2>1, <2>2 DEF ChainEffect, ChainInv, TypeOK
  <1>6. CASE EmptyBlock
    BY <1>6 DEF EmptyBlock, ChainEffect, ChainInv, TypeOK, Block
  <1>7. CASE AgeWindow
    BY <1>7 DEF AgeWindow, ChainEffect, ChainInv, TypeOK
  <1> QED
    BY <1>1, <1>2, <1>3, <1>4, <1>5, <1>6, <1>7 DEF ChainStep

LEMMA ChainStepIInv == IInv /\ ChainStep => IInv'
  <1> SUFFICES ASSUME IInv, ChainEffect PROVE IInv'
    BY ChainStepEffect DEF IInv
  <1> USE PonsAssumption DEF PonsAssumption, IInv
  <1>0. PICK h \in Nat : head' = h /\ head <= h
    BY DEF ChainEffect, TypeOK
  <1>1. TypeOK'
    BY DEF TypeOK, ChainEffect, file, loop, worker
  <1>2. AttemptsInv'
    BY DEF ChainEffect, file, AttemptsInv, Pending
  <1>3. ASSUME NEW b \in Block, log[b] # NoEvent
        PROVE  log'[b] = log[b]
    BY <1>3 DEF ChainInv, ChainEffect, Block, TypeOK
  <1>4. ASSUME NEW k \in 0 .. LastBlock, k <= head, Covers(k)
        PROVE  Covers(k)'
    BY <1>4 DEF Covers, ChainEffect, Block, TypeOK, file
  <1>5. FileInv'
    <2>1. cursor' <= head' /\ (cursor' > 0 => cursor' <= Safe')
      BY <1>0 DEF FileInv, ChainEffect, TypeOK, file, Safe
    <2>2. Covers(cursor)'
      BY <1>4 DEF FileInv, ChainEffect, TypeOK, file, Covers
    <2>3. \A b \in applied : log'[b] = log[b] /\ log[b] # NoEvent
      BY <1>3 DEF FileInv, TypeOK
    <2> QED
      BY <2>1, <2>2, <2>3 DEF FileInv, ChainEffect, file
  <1>6. LoopInv'
    <2>1. lastBlock # Unset => Covers(lastBlock)'
      BY <1>4 DEF LoopInv, ChainEffect, TypeOK, loop, Covers, Unset, FileInv
    <2>2. range.to # 0 => Covers(range.from)'
      BY <1>4 DEF LoopInv, ChainEffect, TypeOK, loop, Covers, Safe, FileInv
    <2> QED
      BY <1>0, <2>1, <2>2 DEF LoopInv, ChainEffect, TypeOK, loop, file, Safe, Unset
  <1>7. PreviewInv'
    <2>1. range.to # 0 => \A b \in Block : b <= range.at => log'[b] = log[b]
      BY DEF LoopInv, ChainEffect, TypeOK, Safe, Block
    <2>2. range.to # 0 => \A b \in Block : InPreview(b)' => InPreview(b) /\ log'[b] = log[b]
      BY <2>1 DEF InPreview, ChainEffect, loop
    <2> QED
      BY <2>2 DEF PreviewInv, ChainEffect, loop
  <1>8. WorkerInv'
    <2>1. due' = due /\ inspecting' = inspecting
      BY DEF ChainEffect, worker
    <2>2. due \subseteq Block /\ (inspecting # 0 => inspecting \in Block)
      BY DEF TypeOK, Block
    <2> QED
      BY <1>3, <2>1, <2>2 DEF WorkerInv
  <1>9. NewestInspectionOnly'
    <2>1. \A b \in Block : Pending(b) => log[b] # NoEvent
      BY DEF Pending, FileInv
    <2>2. \A d \in Block : log[d] = NoEvent => checks[d].status = "none"
      BY DEF FileInv
    <2> QED
      BY <1>3, <2>1, <2>2 DEF NewestInspectionOnly, ChainEffect, file, Pending
  <1>10. KillInv'
    <2>1. \A n \in notices : n[1] \in Block /\ log[n[1]] # NoEvent /\ log'[n[1]] = log[n[1]]
      BY <1>3 DEF KillInv, TypeOK
    <2>2. \A t \in Token : HardKills(t)' = HardKills(t)
      BY <2>1 DEF HardKills, ChainEffect, file
    <2> QED
      BY <2>1, <2>2 DEF KillInv, ChainEffect, file
  <1> QED
    BY <1>1, <1>2, <1>5, <1>6, <1>7, <1>8, <1>9, <1>10 DEF ChainEffect

-----------------------------------------------------------------------------
(* The loop: where a range starts, what an abandoned one leaves, and what  *)
(* reading one event adds to the preview.                                  *)

(* What holds of the chain and the file is not disturbed by a step that    *)
(* changes neither.                                                        *)
LEMMA ChainFileKept ==
  ASSUME IInv, UNCHANGED <<chain, file>>
  PROVE  /\ AttemptsInv' /\ ChainInv' /\ FileInv' /\ NewestInspectionOnly' /\ KillInv'
         /\ Safe' = Safe
         /\ \A k : Covers(k)' <=> Covers(k)
  <1> USE DEF IInv, chain, file
  <1>1. AttemptsInv' /\ ChainInv' /\ NewestInspectionOnly'
    BY DEF AttemptsInv, Pending, ChainInv, NewestInspectionOnly
  <1>2. Safe' = Safe /\ \A k : Covers(k)' <=> Covers(k)
    BY DEF Safe, Covers
  <1>3. FileInv'
    BY DEF FileInv, Safe, Covers
  <1>4. KillInv'
    BY DEF KillInv, HardKills
  <1> QED
    BY <1>1, <1>2, <1>3, <1>4

LEMMA AbandonIInv ==
  ASSUME IInv, Abandon, faults' \in 0 .. MaxFaults
  PROVE  IInv'
  <1> USE DEF Abandon
  <1>1. TypeOK'
    BY PonsAssumption
    DEF IInv, TypeOK, Idle, Blank, Nothing, NoState, State, Phase, chain, file, worker
  <1>2. LoopInv'
    BY ChainFileKept DEF IInv, LoopInv, Idle, Unset, chain, file, Covers
  <1>3. PreviewInv' /\ WorkerInv'
    BY DEF IInv, PreviewInv, WorkerInv, Idle, chain, worker
  <1> QED
    BY <1>1, <1>2, <1>3, ChainFileKept DEF IInv

LEMMA StartCovers ==
  ASSUME IInv, Safe >= 0
  PROVE  /\ Start \in 0 .. LastBlock
         /\ cursor <= Start
         /\ Start <= head
         /\ Covers(Start)
  <1> USE PonsAssumption DEF IInv
  <1>1. /\ head \in 0 .. LastBlock /\ cursor \in 0 .. LastBlock
        /\ window \in 1 .. MaxWindow /\ MaxWindow <= LastBlock
        /\ Safe \in Int /\ Safe <= head
    BY DEF TypeOK, Safe
  <1>2. CASE lastBlock # Unset
    BY <1>2 DEF Start, LoopInv, TypeOK, Unset
  <1>3. CASE lastBlock = Unset
    <2>1. Start = Smaller(Safe, Larger(cursor, window - 1))
      BY <1>3 DEF Start
    <2>2. cursor <= Safe
      BY <1>1 DEF FileInv
    <2>3. /\ Start \in 0 .. LastBlock /\ cursor <= Start /\ Start <= head
          /\ Start <= cursor \/ Start <= window - 1
      BY <1>1, <2>1, <2>2 DEF Smaller, Larger
    <2>4. ASSUME NEW b \in Block, b <= Start, log[b] # NoEvent
          PROVE  b \in applied \/ b < window
      <3>1. CASE b <= cursor
        BY <2>4, <3>1 DEF FileInv, Covers
      <3>2. CASE ~(b <= cursor)
        BY <1>1, <2>3, <2>4, <3>2 DEF Block
      <3> QED
        BY <3>1, <3>2
    <2> QED
      BY <2>3, <2>4 DEF Covers
  <1> QED
    BY <1>2, <1>3

LEMMA PollNothingIInv == IInv /\ PollNothing => IInv'
  <1> SUFFICES ASSUME IInv, PollNothing PROVE IInv'
    OBVIOUS
  <1> USE DEF PollNothing
  <1>1. TypeOK'
    BY StartCovers DEF IInv, TypeOK, Unset, chain, file, worker
  <1>2. LoopInv'
    <2>1. LoopInv!2'
      BY ChainFileKept DEF IInv, LoopInv, chain, file
    <2> QED
      BY <2>1, StartCovers, ChainFileKept DEF IInv, LoopInv, chain, file
  <1>3. PreviewInv' /\ WorkerInv'
    BY DEF IInv, PreviewInv, WorkerInv, InPreview, chain, worker
  <1> QED
    BY <1>1, <1>2, <1>3, ChainFileKept DEF IInv

LEMMA BeginRangeIInv == IInv /\ BeginRange => IInv'
  <1> SUFFICES ASSUME IInv, BeginRange PROVE IInv'
    OBVIOUS
  <1>1. PICK to \in (Start + 1) .. Safe :
          range' = [from |-> Start, at |-> Start, to |-> to, snapshot |-> tokens,
                    recovering |-> lastBlock = Unset /\ cursor = 0]
    BY DEF BeginRange
  <1>2. UNCHANGED <<chain, file, lastBlock, next, worker, faults>> /\ working' = tokens
    BY DEF BeginRange
  <1>3. Safe \in Int /\ Safe <= head /\ head \in 0 .. LastBlock
    BY PonsAssumption DEF IInv, TypeOK, Safe
  <1>4. Safe >= 0
    <2>1. CASE lastBlock # Unset
      BY <1>1, <1>3, <2>1 DEF Start, IInv, TypeOK, Unset
    <2>2. CASE lastBlock = Unset
      BY <1>1, <1>3, <2>2, PonsAssumption DEF Start, Smaller, Larger, IInv, TypeOK
    <2> QED
      BY <2>1, <2>2
  <1>5. /\ Start \in 0 .. LastBlock /\ cursor <= Start /\ Start <= head /\ Covers(Start)
    BY <1>4, StartCovers
  <1>6. /\ to \in 1 .. LastBlock /\ Start < to /\ to <= Safe
    BY <1>1, <1>3, <1>5, PonsAssumption
  <1>7. TypeOK'
    BY <1>1, <1>2, <1>5, <1>6 DEF IInv, TypeOK, chain, file, worker
  <1>8. LoopInv'
    <2>1. LoopInv!1'
      BY <1>2, ChainFileKept DEF IInv, LoopInv, chain, file
    <2> QED
      BY <1>1, <1>2, <1>5, <1>6, <2>1, ChainFileKept DEF LoopInv, chain, file
  <1>9. PreviewInv'
    <2>1. \A b \in Block : ~InPreview(b)'
      BY <1>1, <1>5 DEF InPreview, Block
    <2>2. \A t \in Token : StateOK(tokens[t]) /\ Onward(tokens[t], tokens[t])
      BY OnwardSame DEF IInv, FileInv, TypeOK
    <2> QED
      BY <1>1, <1>2, <2>1, <2>2 DEF PreviewInv
  <1>10. WorkerInv'
    BY <1>2 DEF IInv, WorkerInv, chain, worker
  <1> QED
    BY <1>2, <1>7, <1>8, <1>9, <1>10, ChainFileKept DEF IInv

(* One event is read: its state follows the state its token had reached.   *)
LEMMA ReadEventIInv == IInv /\ ReadEvent => IInv'
  <1> SUFFICES ASSUME IInv, ReadEvent PROVE IInv'
    OBVIOUS
  <1> DEFINE Token_(b) == log[b].token
             New(b)    == Reduced(working[Token_(b)], phase[Token_(b)])
  <1>1. PICK b \in Oldest(EventsIn(range.at, range.to)) :
          \/ /\ ~PhaseConflict(working[Token_(b)], phase[Token_(b)])
             /\ working' = [working EXCEPT ![Token_(b)] = New(b)]
             /\ next' = [next EXCEPT ![b] = New(b)]
             /\ range' = [range EXCEPT !.at = b]
             /\ UNCHANGED <<chain, file, lastBlock, worker, faults>>
          \/ PhaseConflict(working[Token_(b)], phase[Token_(b)]) /\ Abandon /\ UNCHANGED faults
          \/ Fault("read") /\ Abandon
    BY DEF ReadEvent
  <1>2. CASE UNCHANGED faults /\ Abandon
    BY <1>2, AbandonIInv DEF IInv, TypeOK
  <1>3. CASE Fault("read") /\ Abandon
    <2>1. faults' \in 0 .. MaxFaults
      BY <1>3, PonsAssumption DEF Fault, IInv, TypeOK
    <2> QED
      BY <1>3, <2>1, AbandonIInv
  <1>4. CASE /\ ~PhaseConflict(working[Token_(b)], phase[Token_(b)])
             /\ working' = [working EXCEPT ![Token_(b)] = New(b)]
             /\ next' = [next EXCEPT ![b] = New(b)]
             /\ range' = [range EXCEPT !.at = b]
             /\ UNCHANGED <<chain, file, lastBlock, worker, faults>>
    <2> DEFINE t   == Token_(b)
               new == New(b)
    <2>1. /\ b \in Block /\ range.at < b /\ b <= range.to /\ log[b] # NoEvent
          /\ range.at \in 0 .. LastBlock /\ range.to \in 0 .. LastBlock /\ range.from \in 0 .. LastBlock
          /\ range.to # 0
          /\ t \in Token /\ log[b].kind \in Kind
      BY <1>1, PonsAssumption DEF IInv, TypeOK, Oldest, EventsIn, Block
    <2>2. \A d \in Block : range.at < d /\ d < b => log[d] = NoEvent
      BY <1>1, <2>1, PonsAssumption DEF Oldest, EventsIn, Block
    <2>3. /\ \A u \in Token : /\ working[u] \in State
                              /\ StateOK(working[u])
                              /\ range.snapshot[u] \in State
                              /\ Onward(range.snapshot[u], working[u])
          /\ \A d \in Block : next[d] \in State
      BY <2>1 DEF IInv, TypeOK, PreviewInv
    <2>4. phase[t] \in ReachedBy(log[b].kind) /\ phase[t] \in Phase \ {"absent"}
      BY <2>1, ReachedByPhase DEF IInv, ChainInv
    <2>5. /\ new \in State /\ StateOK(new) /\ Onward(working[t], new)
          /\ Rank(phase[t]) <= Rank(new.phase)
      BY <1>4, <2>1, <2>3, <2>4, ReducedOnward
    <2>6. new.phase \in ReachedBy(log[b].kind)
      <3>1. new.phase \in Phase
        BY <2>5 DEF State
      <3> QED
        BY <2>1, <2>4, <2>5, <3>1, ReachedByUp
    <2>7. Onward(range.snapshot[t], new)
      BY <2>1, <2>3, <2>5, OnwardTrans
    <2> HIDE DEF New, new, Token_
    <2>8. /\ working' = [working EXCEPT ![t] = new] /\ next' = [next EXCEPT ![b] = new]
          /\ range' = [range EXCEPT !.at = b]
          /\ UNCHANGED <<chain, file, lastBlock, worker, faults>>
          /\ t = log[b].token
      BY <1>4 DEF new, t, Token_
    <2>9. /\ range'.from = range.from /\ range'.at = b /\ range'.to = range.to
          /\ range'.snapshot = range.snapshot /\ log' = log
          /\ next'[b] = new /\ \A d \in Block : d # b => next'[d] = next[d]
          /\ working'[t] = new /\ \A u \in Token : u # t => working'[u] = working[u]
      BY <2>1, <2>8 DEF IInv, TypeOK, chain
    <2>10. TypeOK'
      <3>1. /\ working' \in [Token -> State] /\ next' \in [Block -> State]
            /\ range' \in [from : 0 .. LastBlock, at : 0 .. LastBlock, to : 0 .. LastBlock,
                           snapshot : [Token -> State], recovering : BOOLEAN]
        BY <2>1, <2>5, <2>8 DEF IInv, TypeOK, Block
      <3> QED
        BY <2>8, <3>1 DEF IInv, TypeOK, chain, file, worker
    <2>11. LoopInv'
      <3>1. LoopInv!1'
        BY <2>8, ChainFileKept DEF IInv, LoopInv, chain, file
      <3>2. Covers(range.from)'
        BY <2>1, <2>8, <2>9 DEF IInv, LoopInv, Covers, chain, file
      <3>3. cursor' = cursor /\ Safe' = Safe
        BY <2>8, ChainFileKept DEF file
      <3>4. /\ cursor <= range.from /\ range.from <= range.at /\ range.to <= Safe
            /\ range.from < range.to
        BY <2>1 DEF IInv, LoopInv
      <3> QED
        BY <2>1, <2>9, <3>1, <3>2, <3>3, <3>4 DEF LoopInv, Block
    <2>12. PreviewInv'
      <3>1. \A d \in Block : InPreview(d)' => d = b \/ (InPreview(d) /\ d < b)
        BY <2>1, <2>2, <2>9 DEF InPreview, Block
      <3>2. \A d \in Block : InPreview(d) =>
              /\ StateOK(next[d])
              /\ next[d].phase \in ReachedBy(log[d].kind)
              /\ Onward(range.snapshot[log[d].token], next[d])
              /\ Onward(next[d], working[log[d].token])
              /\ log[d].token \in Token
        BY <2>1 DEF IInv, PreviewInv, InPreview, TypeOK
      <3>3. \A u \in Token : StateOK(working'[u]) /\ Onward(range.snapshot[u], working'[u])
        BY <2>3, <2>5, <2>7, <2>9
      <3>4. ASSUME NEW d \in Block, InPreview(d), log[d].token = t
            PROVE  Onward(next[d], new)
        BY <2>1, <2>3, <2>5, <3>2, <3>4, OnwardTrans
      <3>5. ASSUME NEW d \in Block, InPreview(d)'
            PROVE  /\ StateOK(next'[d])
                   /\ next'[d].phase \in ReachedBy(log[d].kind)
                   /\ Onward(range.snapshot[log[d].token], next'[d])
                   /\ Onward(next'[d], working'[log[d].token])
        <4>1. CASE d = b
          BY <2>5, <2>6, <2>7, <2>8, <2>9, <4>1, OnwardSame
        <4>2. CASE d # b
          BY <2>9, <3>1, <3>2, <3>4, <3>5, <4>2
        <4> QED
          BY <4>1, <4>2
      <3>6. ASSUME NEW d \in Block, NEW e \in Block, InPreview(d)', InPreview(e)', d <= e,
                   log[d].token = log[e].token
            PROVE  Onward(next'[d], next'[e])
        <4>1. CASE d = e
          <5>1. next'[d] \in State
            BY <2>10 DEF TypeOK
          <5> QED
            BY <4>1, <5>1, OnwardSame
        <4>2. CASE d # e /\ e = b
          BY <2>8, <2>9, <3>1, <3>4, <3>6, <4>2
        <4>3. CASE d # e /\ e # b
          <5>1. InPreview(e) /\ e < b
            BY <3>1, <3>6, <4>3
          <5>2. d # b
            BY <2>1, <3>6, <5>1 DEF Block
          <5>3. InPreview(d)
            BY <3>1, <3>6, <5>2
          <5>4. Onward(next[d], next[e])
            BY <2>1, <3>6, <5>1, <5>3 DEF IInv, PreviewInv
          <5> QED
            BY <2>9, <4>3, <5>2, <5>4
        <4> QED
          BY <4>1, <4>2, <4>3
      <3> QED
        BY <2>9, <3>3, <3>5, <3>6 DEF PreviewInv
    <2>13. WorkerInv'
      BY <2>8 DEF IInv, WorkerInv, chain, worker
    <2> QED
      BY <2>8, <2>10, <2>11, <2>12, <2>13, ChainFileKept DEF IInv
  <1> QED
    BY <1>1, <1>2, <1>3, <1>4

-----------------------------------------------------------------------------
(* The commit of a range.                                                  *)

(* The states a commit writes follow the states it replaces, and show      *)
(* every event applied so far.                                             *)
Committing ==
    /\ range.to # 0
    /\ tokens' \in [Token -> State]
    /\ \A t \in Token : StateOK(tokens'[t]) /\ Onward(tokens[t], tokens'[t])
    /\ \A b \in applied \cup Fresh :
         /\ log[b] # NoEvent
         /\ b <= range.to
         /\ tokens'[log[b].token].phase \in ReachedBy(log[b].kind)
    /\ \A b \in Fresh : b > range.from

LEMMA CommitOnward ==
  ASSUME IInv, Read, ~Changed, WriteRange
  PROVE  Committing
  <1> USE PonsAssumption DEF IInv
  <1>1. /\ range.to \in 1 .. LastBlock /\ range.at \in 0 .. LastBlock /\ range.from \in 0 .. LastBlock
        /\ cursor <= range.from /\ range.from < range.to /\ cursor \in 0 .. LastBlock
    BY DEF Read, TypeOK, LoopInv
  <1>2. \A b \in Fresh : b \in Block /\ InPreview(b) /\ b > range.from /\ b <= range.to
                         /\ b \notin applied /\ log[b].token \in Token /\ log[b].kind \in Kind
    <2> SUFFICES ASSUME NEW b \in Fresh
                 PROVE  b \in Block /\ InPreview(b) /\ b > range.from /\ b <= range.to
                        /\ b \notin applied /\ log[b].token \in Token /\ log[b].kind \in Kind
      OBVIOUS
    <2>1. /\ b \in (range.from + 1) .. range.to /\ log[b] # NoEvent /\ b \notin applied
      BY DEF Fresh, EventsIn
    <2>2. b \in Block /\ b > range.from /\ b <= range.to
      BY <1>1, <2>1 DEF Block
    <2>3. b <= range.at
      <3>1. ~(b \in (range.at + 1) .. range.to)
        BY <2>1 DEF Read, EventsIn
      <3> QED
        BY <1>1, <2>2, <3>1 DEF Block
    <2>4. log[b].token \in Token /\ log[b].kind \in Kind
      BY <2>1, <2>2 DEF TypeOK
    <2> QED
      BY <2>1, <2>2, <2>3, <2>4 DEF InPreview
  <1>3. \A b \in Fresh : /\ StateOK(next[b]) /\ next[b] \in State
                         /\ next[b].phase \in ReachedBy(log[b].kind)
                         /\ Onward(range.snapshot[log[b].token], next[b])
    BY <1>1, <1>2 DEF PreviewInv, TypeOK
  <1>4. \A b, d \in Fresh : b <= d /\ log[b].token = log[d].token => Onward(next[b], next[d])
    BY <1>1, <1>2 DEF PreviewInv
  <1>5. \A b \in Fresh : tokens[log[b].token] = range.snapshot[log[b].token]
    BY DEF Changed, Fresh
  <1> DEFINE F(t) == Of(t, Fresh)
             m(t) == Newest(Of(t, Fresh))
  <1>6. \A t \in Token : tokens'[t] = IF F(t) = {} THEN tokens[t] ELSE next[m(t)]
    BY DEF WriteRange
  <1>7. ASSUME NEW t \in Token, F(t) # {}
        PROVE  m(t) \in Fresh /\ log[m(t)].token = t /\ \A d \in F(t) : d <= m(t)
    <2>1. F(t) \in SUBSET Block
      BY <1>2 DEF Of
    <2>2. m(t) \in F(t) /\ \A d \in F(t) : d <= m(t)
      BY <1>7, <2>1, NewestIsLast
    <2> QED
      BY <2>2 DEF Of
  <1> HIDE DEF m
  <1>8. ASSUME NEW t \in Token
        PROVE  tokens'[t] \in State /\ StateOK(tokens'[t]) /\ Onward(tokens[t], tokens'[t])
    <2>1. CASE F(t) = {}
      BY <1>6, <2>1, OnwardSame DEF TypeOK, FileInv
    <2>2. CASE F(t) # {}
      BY <1>3, <1>5, <1>6, <1>7, <2>2
    <2> QED
      BY <2>1, <2>2
  <1>9. ASSUME NEW b \in applied \cup Fresh
        PROVE  /\ log[b] # NoEvent
               /\ b <= range.to
               /\ tokens'[log[b].token].phase \in ReachedBy(log[b].kind)
    <2>1. log[b] # NoEvent /\ b <= range.to /\ b \in Block
      BY <1>1, <1>2 DEF FileInv, InPreview, TypeOK, Block
    <2> DEFINE t == log[b].token
    <2>2. t \in Token /\ log[b].kind \in Kind
      BY <2>1 DEF TypeOK
    <2>3. tokens'[t] \in State /\ tokens[t] \in State
      BY <1>8, <2>2 DEF TypeOK
    <2>4. tokens'[t].phase \in Phase
      BY <2>3 DEF State
    <2>5. CASE b \in Fresh
      <3>1. b \in F(t)
        BY <2>5 DEF Of
      <3>2. m(t) \in Fresh /\ log[m(t)].token = t /\ b <= m(t) /\ tokens'[t] = next[m(t)]
        BY <1>6, <1>7, <2>2, <3>1
      <3>3. Rank(next[b].phase) <= Rank(tokens'[t].phase)
        BY <1>4, <2>5, <3>2 DEF Onward
      <3>4. next[b].phase \in ReachedBy(log[b].kind)
        BY <1>3, <2>5
      <3>5. tokens'[t].phase \in ReachedBy(log[b].kind)
        BY <2>2, <2>4, <3>3, <3>4, ReachedByUp
      <3> QED
        BY <2>1, <3>5
    <2>6. CASE b \in applied
      <3>1. tokens[t].phase \in ReachedBy(log[b].kind)
        BY <2>6 DEF FileInv
      <3>2. Rank(tokens[t].phase) <= Rank(tokens'[t].phase)
        BY <1>8, <2>2 DEF Onward
      <3>3. tokens'[t].phase \in ReachedBy(log[b].kind)
        BY <2>2, <2>4, <3>1, <3>2, ReachedByUp
      <3> QED
        BY <2>1, <3>3
    <2> QED
      BY <2>5, <2>6
  <1>10. tokens' \in [Token -> State]
    <2>1. tokens' = [t \in Token |-> tokens'[t]]
      BY DEF WriteRange
    <2> QED
      BY <1>8, <2>1
  <1> QED
    BY <1>1, <1>2, <1>8, <1>9, <1>10 DEF Committing

LEMMA WriteRangeIInv ==
  ASSUME IInv, Read, ~Changed, WriteRange
  PROVE  IInv'
  <1> USE PonsAssumption DEF IInv
  <1>1. Committing
    BY CommitOnward
  <1>2. /\ range.to \in 1 .. LastBlock /\ range.from \in 0 .. LastBlock /\ range.from < range.to
        /\ cursor <= range.from /\ range.to <= Safe /\ Safe <= head /\ head \in 0 .. LastBlock
        /\ cursor \in 0 .. LastBlock /\ Safe \in Int
    BY DEF Read, TypeOK, LoopInv, Safe
  <1>3. /\ checks' = [b \in Block |-> Committed(b)]
        /\ applied' = applied \cup Fresh /\ cursor' = range.to /\ lastBlock' = range.to
        /\ range' = Idle /\ working' = Blank /\ next' = Nothing
        /\ UNCHANGED <<chain, notices, worker, faults>>
    BY DEF WriteRange
  <1>4. Fresh \subseteq Block /\ Inspected \subseteq Fresh
    BY <1>2 DEF Fresh, EventsIn, Block, Inspected
  <1>5. ASSUME NEW b \in Block
        PROVE  /\ Committed(b) \in [status : {"none", "pending", "completed", "failed", "expired"},
                                    attempts : 0 .. MaxAttempts]
               /\ Committed(b).status = "pending" => Committed(b).attempts < MaxAttempts
               /\ Committed(b).status = "pending" => b \in Inspected \/ Pending(b)
               /\ Committed(b).status = "pending" =>
                    \A d \in Inspected : d > b => log[d].token # log[b].token
               /\ b \notin Inspected /\ checks[b].status = "none" => Committed(b).status = "none"
               /\ Committed(b).status # "none" => b \in applied \cup Fresh
    <2>1. /\ checks[b] \in [status : {"none", "pending", "completed", "failed", "expired"},
                            attempts : 0 .. MaxAttempts]
          /\ checks[b].status # "none" => b \in applied
          /\ Pending(b) => checks[b].attempts < MaxAttempts
      BY DEF TypeOK, FileInv, AttemptsInv
    <2> QED
      BY <1>4, <2>1 DEF Committed, NewCheck, Pending
  <1>6. TypeOK'
    <2>1. checks' \in [Block -> [status : {"none", "pending", "completed", "failed", "expired"},
                                 attempts : 0 .. MaxAttempts]]
      BY <1>3, <1>5
    <2>2. NoState \in State
      BY DEF NoState, State, Phase
    <2>3. /\ range' \in [from : 0 .. LastBlock, at : 0 .. LastBlock, to : 0 .. LastBlock,
                         snapshot : [Token -> State], recovering : BOOLEAN]
          /\ working' \in [Token -> State] /\ next' \in [Block -> State]
      BY <1>3, <2>2 DEF Idle, Blank, Nothing
    <2>4. applied' \subseteq Block /\ cursor' \in 0 .. LastBlock /\ lastBlock' \in Unset .. LastBlock
      BY <1>2, <1>3, <1>4 DEF TypeOK, Unset
    <2>5. tokens' \in [Token -> State]
      BY <1>1 DEF Committing
    <2> QED
      BY <1>3, <2>1, <2>3, <2>4, <2>5 DEF TypeOK, chain, worker
  <1>7. AttemptsInv'
    BY <1>3, <1>5 DEF AttemptsInv, Pending
  <1>8. ChainInv' /\ WorkerInv'
    BY <1>3 DEF ChainInv, WorkerInv, chain, worker
  <1>9. \A b \in Block : b <= range.to /\ log[b] # NoEvent => b \in applied \cup Fresh \/ b < window
    <2> SUFFICES ASSUME NEW b \in Block, b <= range.to, log[b] # NoEvent
                 PROVE  b \in applied \cup Fresh \/ b < window
      OBVIOUS
    <2>1. CASE b <= range.from
      BY <1>2, <2>1 DEF LoopInv, Covers
    <2>2. CASE ~(b <= range.from)
      BY <1>2, <2>2 DEF Fresh, EventsIn, Block
    <2> QED
      BY <2>1, <2>2
  <1>10. FileInv'
    <2>1. /\ cursor' <= head' /\ cursor' <= Safe' /\ Covers(cursor)'
      BY <1>2, <1>3, <1>9 DEF Covers, chain, Safe
    <2>2. \A t \in Token : StateOK(tokens'[t])
      BY <1>1 DEF Committing
    <2>3. \A b \in applied' : /\ log'[b] # NoEvent
                              /\ b <= cursor'
                              /\ tokens'[log'[b].token].phase \in ReachedBy(log'[b].kind)
      BY <1>1, <1>3 DEF Committing, chain
    <2>4. \A b \in Block : checks'[b].status # "none" => b \in applied'
      BY <1>3, <1>5
    <2> QED
      BY <2>1, <2>2, <2>3, <2>4 DEF FileInv
  <1>11. LoopInv'
    <2>1. cursor' <= lastBlock' /\ lastBlock' <= head' /\ Covers(lastBlock)'
      BY <1>2, <1>3, <1>9 DEF Covers, chain
    <2> QED
      BY <1>3, <2>1 DEF LoopInv, Idle
  <1>12. PreviewInv'
    BY <1>3 DEF PreviewInv, Idle
  <1>13. NewestInspectionOnly'
    <2> SUFFICES ASSUME NEW b \in Block, NEW d \in Block, b < d, Committed(b).status = "pending",
                        log[b] # NoEvent, log[d] # NoEvent, log[b].token = log[d].token
                 PROVE  Committed(d).status = "none"
      BY <1>3 DEF NewestInspectionOnly, Pending, chain
    <2>1. d \notin Inspected
      BY <1>5 DEF Block
    <2>2. checks[d].status = "none"
      <3>1. CASE b \in Inspected
        <4>1. b > range.from
          BY <1>1, <1>4, <3>1 DEF Committing
        <4>2. d \notin applied
          BY <1>2, <4>1 DEF FileInv, Block
        <4> QED
          BY <4>2 DEF FileInv
      <3>2. CASE Pending(b)
        BY <3>2 DEF NewestInspectionOnly
      <3> QED
        BY <1>5, <3>1, <3>2
    <2> QED
      BY <1>5, <2>1, <2>2
  <1>14. KillInv'
    <2>1. \A t \in Token : HardKills(t)' = HardKills(t)
      BY <1>3 DEF HardKills, chain
    <2>2. ASSUME NEW t \in Token
          PROVE  /\ tokens[t].monitor = "killed" => tokens'[t].monitor = "killed"
                 /\ tokens'[t].monitor = "killed" /\ tokens'[t].phase # "rescued"
                      => tokens[t].monitor = "killed" /\ tokens[t].phase # "rescued"
      <3>1. Onward(tokens[t], tokens'[t]) /\ tokens[t] \in State /\ tokens'[t] \in State
        BY <1>1 DEF Committing, TypeOK
      <3> QED
        BY <3>1 DEF Onward, State, Phase, Rank
    <2> QED
      BY <1>3, <2>1, <2>2 DEF KillInv, chain
  <1> QED
    BY <1>6, <1>7, <1>8, <1>10, <1>11, <1>12, <1>13, <1>14

LEMMA CommitRangeIInv == IInv /\ CommitRange => IInv'
  <1> SUFFICES ASSUME IInv, CommitRange PROVE IInv'
    OBVIOUS
  <1>1. CASE Read /\ ~Changed /\ WriteRange
    BY <1>1, WriteRangeIInv
  <1>2. CASE Abandon /\ UNCHANGED faults
    BY <1>2, AbandonIInv DEF IInv, TypeOK
  <1>3. CASE Fault("disk") /\ Abandon
    <2>1. faults' \in 0 .. MaxFaults
      BY <1>3, PonsAssumption DEF Fault, IInv, TypeOK
    <2> QED
      BY <1>3, <2>1, AbandonIInv
  <1> QED
    BY <1>1, <1>2, <1>3 DEF CommitRange

-----------------------------------------------------------------------------
(* The worker, the restart, and the invariant.                             *)

(* The chain, the file and the loop are untouched.                         *)
LEMMA WorkerOnly ==
  ASSUME IInv, UNCHANGED <<chain, file, loop, faults>>,
         due' \subseteq Block, \A b \in due' : log[b] # NoEvent,
         inspecting' \in 0 .. LastBlock, inspecting' # 0 => log[inspecting'] # NoEvent,
         before' \in State
  PROVE  IInv'
  <1>1. TypeOK' /\ WorkerInv'
    BY DEF IInv, TypeOK, WorkerInv, chain, file, loop
  <1>2. LoopInv'
    BY DEF IInv, LoopInv, Covers, Safe, chain, file, loop
  <1>3. PreviewInv'
    BY DEF IInv, PreviewInv, InPreview, chain, loop
  <1> QED
    BY <1>1, <1>2, <1>3, ChainFileKept DEF IInv

LEMMA SelectChecksIInv == IInv /\ SelectChecks => IInv'
  <1> SUFFICES ASSUME IInv, SelectChecks PROVE IInv'
    OBVIOUS
  <1>1. \A b \in Block : Pending(b) => log[b] # NoEvent
    BY DEF IInv, FileInv, Pending
  <1> QED
    BY <1>1, WorkerOnly DEF SelectChecks, IInv, TypeOK

LEMMA StartInspectionIInv == IInv /\ StartInspection => IInv'
  <1> SUFFICES ASSUME IInv, StartInspection PROVE IInv'
    OBVIOUS
  <1>1. PICK b \in due : /\ due' = due \ {b} /\ inspecting' = b
                         /\ before' = tokens[log[b].token]
    BY DEF StartInspection
  <1>2. b \in Block /\ log[b] # NoEvent
    BY DEF IInv, TypeOK, WorkerInv
  <1>3. before' \in State
    BY <1>1, <1>2 DEF IInv, TypeOK
  <1>4. due \subseteq Block /\ \A d \in due : log[d] # NoEvent
    BY DEF IInv, TypeOK, WorkerInv
  <1>5. due' \subseteq due
    BY <1>1
  <1>6. inspecting' \in 0 .. LastBlock
    <2>1. LastBlock \in Nat /\ b \in 1 .. LastBlock
      BY <1>2, PonsAssumption DEF Block
    <2> QED
      BY <1>1, <2>1
  <1>7. log[inspecting'] # NoEvent
    BY <1>1, <1>2
  <1>8. UNCHANGED <<chain, file, loop, faults>>
    BY DEF StartInspection
  <1>9. due' \subseteq Block /\ \A d \in due' : log[d] # NoEvent
    BY <1>4, <1>5
  <1> QED
    BY <1>3, <1>6, <1>7, <1>8, <1>9, WorkerOnly

LEMMA RestType == Rest => inspecting' = 0 /\ before' \in State
  BY DEF Rest, NoState, State, Phase

(* An accepted result moves one token from the state its inspection        *)
(* started from.                                                           *)
LEMMA InspectionKeeps ==
  ASSUME before \in State, StateOK(before), before # NoState,
         NEW killed \in BOOLEAN, NEW ready \in {"yes", "no", "unknown"}
  PROVE  LET after == Inspection(killed, ready) IN
         /\ after \in State
         /\ StateOK(after)
         /\ after.phase = before.phase
         /\ before.monitor = "killed" => after.monitor = "killed"
         /\ after.phase = "rescued" => after.ready # "yes"
  <1> DEFINE after == Inspection(killed, ready)
  <1>1. /\ after.phase = before.phase
        /\ after.ready = IF before.phase = "pool_created" THEN ready ELSE before.ready
        /\ after.monitor = IF killed /\ before.phase # "rescued" THEN "killed" ELSE before.monitor
        /\ after \in State
    BY DEF Inspection, State
  <1> HIDE DEF after
  <1>2. StateOK(after)
    BY <1>1 DEF StateOK, NoState
  <1> QED
    BY <1>1, <1>2 DEF StateOK, after

LEMMA AcceptedIInv ==
  ASSUME IInv, inspecting # 0, before # NoState, Accepted(inspecting),
         NEW killed \in BOOLEAN, NEW ready \in {"yes", "no", "unknown"},
         Apply(inspecting, Inspection(killed, ready)), Rest,
         UNCHANGED <<chain, cursor, applied, loop, due, faults>>
  PROVE  IInv'
  <1> DEFINE after == Inspection(killed, ready)
  <1>0. PICK b \in Block, t \in Token : b = inspecting /\ t = log[b].token /\ log[b] # NoEvent
    BY DEF IInv, TypeOK, WorkerInv, Block
  <1>1. b \in Block /\ log[b] # NoEvent /\ t \in Token /\ t = log[b].token
    BY <1>0
  <1>2. tokens[t] = before /\ Pending(b)
    BY <1>0 DEF Accepted
  <1>3. before \in State /\ StateOK(before)
    BY <1>1, <1>2 DEF IInv, TypeOK, FileInv
  <1>4. /\ after \in State
        /\ StateOK(after)
        /\ after.phase = before.phase
        /\ before.monitor = "killed" => after.monitor = "killed"
    BY <1>3, InspectionKeeps
  <1>5. /\ tokens' = [tokens EXCEPT ![t] = after]
        /\ checks' = [checks EXCEPT ![b].status = "completed"]
        /\ notices' = notices \cup Notification(b, after)
    BY <1>0 DEF Apply
  <1> HIDE DEF after
  <1>6. /\ tokens' \in [Token -> State] /\ tokens'[t] = after
        /\ \A u \in Token : u # t => tokens'[u] = tokens[u]
        /\ \A u \in Token : StateOK(tokens'[u]) /\ tokens'[u].phase = tokens[u].phase
    BY <1>1, <1>2, <1>4, <1>5 DEF IInv, TypeOK, FileInv
  <1>7. /\ checks' \in [Block -> [status : {"none", "pending", "completed", "failed", "expired"},
                                  attempts : 0 .. MaxAttempts]]
        /\ checks'[b].status = "completed"
        /\ \A d \in Block : d # b => checks'[d] = checks[d]
    BY <1>1, <1>5 DEF IInv, TypeOK
  <1>8. TypeOK'
    <2>1. notices' \subseteq Block \X {"hard_kill", "market_ready"}
      BY <1>1, <1>5 DEF Notification, IInv, TypeOK
    <2>2. inspecting' \in 0 .. LastBlock /\ before' \in State
      BY RestType, PonsAssumption
    <2> QED
      BY <1>6, <1>7, <2>1, <2>2 DEF IInv, TypeOK, chain, loop
  <1>9. AttemptsInv'
    BY <1>7 DEF IInv, AttemptsInv, Pending
  <1>10. ChainInv' /\ WorkerInv'
    BY RestType DEF IInv, ChainInv, WorkerInv, chain, TypeOK
  <1>11. Covers(cursor)' /\ Safe' = Safe /\ (lastBlock # Unset => Covers(lastBlock)')
         /\ (range.to # 0 => Covers(range.from)')
    BY DEF IInv, FileInv, LoopInv, Covers, Safe, chain, loop
  <1>12. FileInv'
    <2>1. \A d \in applied : /\ log[d] # NoEvent
                             /\ d <= cursor
                             /\ tokens'[log[d].token].phase \in ReachedBy(log[d].kind)
      BY <1>6 DEF IInv, FileInv, TypeOK
    <2>2. \A d \in Block : checks'[d].status # "none" => d \in applied
      BY <1>2, <1>7 DEF IInv, FileInv, Pending
    <2> QED
      BY <1>6, <1>11, <2>1, <2>2 DEF IInv, FileInv, chain
  <1>13. LoopInv'
    BY <1>11 DEF IInv, LoopInv, chain, loop
  <1>14. PreviewInv'
    BY DEF IInv, PreviewInv, InPreview, chain, loop
  <1>15. NewestInspectionOnly'
    <2>1. checks[b].status # "none"
      BY <1>2 DEF Pending
    <2> QED
      BY <1>1, <1>2, <1>7, <2>1 DEF IInv, NewestInspectionOnly, Pending, chain
  <1>16. KillInv'
    <2>1. \A n \in notices' : log[n[1]] # NoEvent
      BY <1>1, <1>5 DEF IInv, KillInv, Notification
    <2>2. \A n \in notices : n \in notices'
      BY <1>5
    <2>3. ASSUME NEW u \in Token, u # t PROVE HardKills(u)' = HardKills(u)
      BY <1>1, <1>5, <2>3 DEF HardKills, Notification, chain
    <2>4. CASE before.monitor # "killed" /\ after.monitor = "killed"
      <3>1. notices' = notices \cup {<<b, "hard_kill">>}
        BY <1>5, <2>4 DEF Notification
      <3>2. HardKills(t) = {}
        BY <1>1, <1>2, <2>4 DEF IInv, KillInv
      <3>3. HardKills(t)' = {<<b, "hard_kill">>}
        BY <1>1, <3>1, <3>2 DEF HardKills, chain
      <3>4. /\ \A k, n \in HardKills(t)' : k = n
            /\ HardKills(t)' # {}
            /\ tokens'[t].monitor = "killed"
        BY <1>6, <2>4, <3>3
      <3>5. ASSUME NEW u \in Token, u # t
            PROVE  /\ \A k, n \in HardKills(u)' : k = n
                   /\ HardKills(u)' # {} => tokens'[u].monitor = "killed"
                   /\ tokens'[u].monitor = "killed" /\ tokens'[u].phase # "rescued"
                        => HardKills(u)' # {}
        BY <1>6, <2>3, <3>5 DEF IInv, KillInv
      <3>6. log' = log
        BY DEF chain
      <3> QED
        BY <2>1, <3>4, <3>5, <3>6 DEF KillInv
    <2>5. CASE ~(before.monitor # "killed" /\ after.monitor = "killed")
      <3>1. HardKills(t)' = HardKills(t)
        BY <1>5, <2>5 DEF HardKills, Notification, chain
      <3>2. \A u \in Token :
              /\ \A k, n \in HardKills(u) : k = n
              /\ HardKills(u) # {} => tokens[u].monitor = "killed"
              /\ tokens[u].monitor = "killed" /\ tokens[u].phase # "rescued"
                   => HardKills(u) # {}
        BY DEF IInv, KillInv
      <3>3. /\ HardKills(t) # {} => after.monitor = "killed"
            /\ after.monitor = "killed" /\ after.phase # "rescued" => HardKills(t) # {}
        BY <1>1, <1>2, <1>4, <2>5, <3>2
      <3>4. \A u \in Token : HardKills(u)' = HardKills(u)
        BY <2>3, <3>1
      <3>5. \A u \in Token :
              /\ HardKills(u) # {} => tokens'[u].monitor = "killed"
              /\ tokens'[u].monitor = "killed" /\ tokens'[u].phase # "rescued"
                   => HardKills(u) # {}
        BY <1>6, <3>2, <3>3
      <3>6. log' = log
        BY DEF chain
      <3> QED
        BY <2>1, <3>2, <3>4, <3>5, <3>6 DEF KillInv
    <2> QED
      BY <2>4, <2>5
  <1> QED
    BY <1>8, <1>9, <1>10, <1>12, <1>13, <1>14, <1>15, <1>16 DEF IInv

LEMMA ReportIInv == IInv /\ Report => IInv'
  <1> SUFFICES ASSUME IInv, Report PROVE IInv'
    OBVIOUS
  <1>1. /\ inspecting # 0 /\ before # NoState /\ Rest
        /\ UNCHANGED <<chain, cursor, applied, loop, due, faults>>
    BY DEF Report
  <1>2. PICK killed \in BOOLEAN, ready \in {"yes", "no", "unknown"} :
          IF Accepted(inspecting) THEN Apply(inspecting, Inspection(killed, ready))
          ELSE UNCHANGED <<tokens, checks, notices>>
    BY DEF Report
  <1>3. CASE Accepted(inspecting)
    BY <1>1, <1>2, <1>3, AcceptedIInv
  <1>4. CASE ~Accepted(inspecting)
    <2>1. UNCHANGED <<chain, file, loop, faults>> /\ due' = due
      BY <1>1, <1>2, <1>4 DEF file
    <2>2. inspecting' = 0 /\ inspecting' \in 0 .. LastBlock /\ before' \in State
      BY <1>1, RestType, PonsAssumption
    <2> QED
      BY <2>1, <2>2, WorkerOnly DEF IInv, TypeOK, WorkerInv
  <1> QED
    BY <1>3, <1>4

LEMMA FailInspectionIInv == IInv /\ FailInspection => IInv'
  <1> SUFFICES ASSUME IInv, FailInspection PROVE IInv'
    OBVIOUS
  <1> USE PonsAssumption
  <1>0. PICK b \in Block : b = inspecting
    BY DEF FailInspection, IInv, TypeOK, Block
  <1>1. /\ Rest
        /\ UNCHANGED <<chain, cursor, tokens, applied, notices, loop, due, faults>>
    BY DEF FailInspection
  <1>2. \/ ~Pending(b) /\ checks' = checks
        \/ /\ Pending(b)
           /\ checks' = [checks EXCEPT ![b] =
                           [status   |-> IF checks[b].attempts + 1 >= MaxAttempts THEN "failed"
                                         ELSE "pending",
                            attempts |-> checks[b].attempts + 1]]
    BY <1>0 DEF FailInspection
  <1>3. /\ checks' \in [Block -> [status : {"none", "pending", "completed", "failed", "expired"},
                                  attempts : 0 .. MaxAttempts]]
        /\ \A d \in Block :
             /\ checks'[d].status = "pending" => Pending(d) /\ checks'[d].attempts < MaxAttempts
             /\ checks'[d].status = "none" <=> checks[d].status = "none"
    <2>1. CASE ~Pending(b) /\ checks' = checks
      BY <2>1 DEF IInv, TypeOK, AttemptsInv, Pending
    <2>2. CASE Pending(b) /\ checks' # checks
      <3>1. /\ checks[b].attempts \in 0 .. MaxAttempts /\ checks[b].attempts < MaxAttempts
            /\ checks[b].attempts + 1 \in 0 .. MaxAttempts
        BY <2>2 DEF IInv, TypeOK, AttemptsInv
      <3>2. \A d \in Block : d # b => checks'[d] = checks[d]
        BY <1>2, <2>2 DEF IInv, TypeOK
      <3>3. /\ checks'[b].attempts = checks[b].attempts + 1
            /\ checks'[b].status = IF checks[b].attempts + 1 >= MaxAttempts THEN "failed"
                                   ELSE "pending"
        BY <1>2, <2>2 DEF IInv, TypeOK
      <3>4. checks' \in [Block -> [status : {"none", "pending", "completed", "failed", "expired"},
                                   attempts : 0 .. MaxAttempts]]
        BY <1>2, <2>2, <3>1 DEF IInv, TypeOK
      <3> QED
        BY <2>2, <3>1, <3>2, <3>3, <3>4 DEF IInv, AttemptsInv, Pending
    <2>3. CASE Pending(b) /\ checks' = checks
      BY <2>3 DEF IInv, TypeOK, AttemptsInv, Pending
    <2> QED
      BY <1>2, <2>1, <2>2, <2>3
  <1>4. TypeOK' /\ AttemptsInv'
    BY <1>1, <1>3, RestType DEF IInv, TypeOK, AttemptsInv, Pending, chain, loop
  <1>5. ChainInv' /\ WorkerInv'
    BY <1>1, RestType DEF IInv, ChainInv, WorkerInv, chain
  <1>6. FileInv'
    BY <1>1, <1>3 DEF IInv, FileInv, Covers, Safe, chain
  <1>7. LoopInv'
    BY <1>1 DEF IInv, LoopInv, Covers, Safe, chain, loop
  <1>8. PreviewInv'
    BY <1>1 DEF IInv, PreviewInv, InPreview, chain, loop
  <1>9. NewestInspectionOnly'
    BY <1>1, <1>3 DEF IInv, NewestInspectionOnly, Pending, chain
  <1>10. KillInv'
    BY <1>1 DEF IInv, KillInv, HardKills, chain
  <1> QED
    BY <1>4, <1>5, <1>6, <1>7, <1>8, <1>9, <1>10 DEF IInv

LEMMA CrashIInv == IInv /\ Crash => IInv'
  <1> SUFFICES ASSUME IInv, Crash PROVE IInv'
    OBVIOUS
  <1> USE PonsAssumption DEF Crash
  <1>1. faults' \in 0 .. MaxFaults
    BY DEF Fault, IInv, TypeOK
  <1>2. NoState \in State
    BY DEF NoState, State, Phase
  <1>3. TypeOK'
    <2>1. /\ range' \in [from : 0 .. LastBlock, at : 0 .. LastBlock, to : 0 .. LastBlock,
                         snapshot : [Token -> State], recovering : BOOLEAN]
          /\ working' \in [Token -> State] /\ next' \in [Block -> State]
          /\ lastBlock' \in Unset .. LastBlock
      BY <1>2 DEF Idle, Blank, Nothing, Unset
    <2> QED
      BY <1>1, <2>1, RestType DEF IInv, TypeOK, chain, file
  <1>4. LoopInv' /\ PreviewInv'
    BY DEF LoopInv, PreviewInv, Idle
  <1>5. WorkerInv'
    BY RestType DEF WorkerInv
  <1> QED
    BY <1>3, <1>4, <1>5, ChainFileKept DEF IInv

LEMMA NextIInv == IInv /\ [Next]_vars => IInv'
  <1> SUFFICES ASSUME IInv, [Next]_vars PROVE IInv'
    OBVIOUS
  <1>1. CASE ChainStep
    BY <1>1, ChainStepIInv
  <1>2. CASE LoopStep
    BY <1>2, PollNothingIInv, BeginRangeIInv, ReadEventIInv, CommitRangeIInv DEF LoopStep
  <1>3. CASE WorkerStep
    BY <1>3, SelectChecksIInv, StartInspectionIInv, ReportIInv, FailInspectionIInv DEF WorkerStep
  <1>4. CASE Crash
    BY <1>4, CrashIInv
  <1>5. CASE UNCHANGED vars
    BY <1>5, WorkerOnly DEF vars, worker, IInv, TypeOK, WorkerInv
  <1> QED
    BY <1>1, <1>2, <1>3, <1>4, <1>5 DEF Next

LEMMA SpecIInv == Spec => []IInv
  BY InitIInv, NextIInv, PTL DEF Spec

-----------------------------------------------------------------------------
(* The theorems.                                                           *)

(* Every variable keeps its type; no inspection uses more attempts than    *)
(* runPendingChecks gives it.                                              *)
THEOREM PonsTypeCorrect == Spec => []TypeOK
  <1>1. IInv => TypeOK
    BY DEF IInv
  <1> QED
    BY <1>1, SpecIInv, PTL

(* The durable Pons cursor passes no event inside the age window, whatever *)
(* fails, restarts or conflicts.                                           *)
THEOREM NoEventPassed == Spec => []CursorCoversEvents
  <1>1. IInv => CursorCoversEvents
    BY PonsAssumption DEF IInv, FileInv, TypeOK, Covers, CursorCoversEvents, Block
  <1> QED
    BY <1>1, SpecIInv, PTL

(* No write loses an applied event: neither an inspection started before   *)
(* it nor a preview that conflicts with an inspection.                     *)
THEOREM EventsReflected == Spec => []AppliedIsReflected
  <1>1. IInv => AppliedIsReflected
    BY DEF IInv, FileInv, AppliedIsReflected
  <1> QED
    BY <1>1, SpecIInv, PTL

(* A superseded inspection never becomes pending again.                    *)
THEOREM NewestOnly == Spec => []NewestInspectionOnly
  <1>1. IInv => NewestInspectionOnly
    BY DEF IInv
  <1> QED
    BY <1>1, SpecIInv, PTL

(* A token killed by an inspection is announced exactly once.              *)
THEOREM KilledOnce == Spec => []KillAnnouncedOnce
  <1>1. IInv => KillAnnouncedOnce
    <2> SUFFICES ASSUME IInv, NEW t \in Token PROVE Cardinality(HardKills(t)) <= 1
      BY DEF IInv, KillInv, KillAnnouncedOnce
    <2>1. \A m, n \in HardKills(t) : m = n
      BY DEF IInv, KillInv
    <2>2. CASE HardKills(t) = {}
      BY <2>2, FS_EmptySet
    <2>3. CASE HardKills(t) # {}
      <3>1. PICK n : HardKills(t) = {n}
        BY <2>1, <2>3
      <3>2. Cardinality({n}) = 1
        BY FS_Singleton
      <3> QED
        BY <3>1, <3>2
    <2> QED
      BY <2>2, <2>3
  <1> QED
    BY <1>1, SpecIInv, PTL

(* Phases never go back, the dead stay dead, the rescued are not ready.    *)
THEOREM Forward == Spec => NoWayBack
  <1> DEFINE Ahead(old, new) == /\ Rank(old.phase) <= Rank(new.phase)
                                /\ old.monitor = "killed" => new.monitor = "killed"
                                /\ old.phase = "rescued" => new.ready # "yes"
  <1>1. ASSUME IInv, [Next]_vars, tokens' # tokens, NEW t \in Token
        PROVE  Ahead(tokens[t], tokens'[t])
    <2>1. IInv' /\ tokens[t] \in State /\ tokens'[t] \in State /\ StateOK(tokens'[t])
      BY <1>1, NextIInv DEF IInv, TypeOK, FileInv
    <2>2. Onward(tokens[t], tokens'[t]) => Ahead(tokens[t], tokens'[t])
      BY <2>1 DEF Onward, State, Phase, Rank, StateOK
    <2>3. CASE Read /\ ~Changed /\ WriteRange
      BY <1>1, <2>2, <2>3, CommitOnward DEF Committing
    <2>4. CASE Report
      <3>1. Accepted(inspecting) /\ before # NoState /\ inspecting # 0
            /\ \E killed \in BOOLEAN, ready \in {"yes", "no", "unknown"} :
                 Apply(inspecting, Inspection(killed, ready))
        BY <1>1, <2>4 DEF Report
      <3>2. PICK killed \in BOOLEAN, ready \in {"yes", "no", "unknown"} :
              Apply(inspecting, Inspection(killed, ready))
        BY <3>1
      <3>3. PICK u \in Token : u = log[inspecting].token
        BY <1>1, <3>1 DEF IInv, TypeOK, WorkerInv, Block
      <3>4. tokens[u] = before /\ tokens' = [tokens EXCEPT ![u] = Inspection(killed, ready)]
        BY <3>1, <3>2, <3>3 DEF Accepted, Apply
      <3>5. before \in State /\ StateOK(before)
        BY <1>1, <3>4 DEF IInv, TypeOK, FileInv
      <3>6. /\ Inspection(killed, ready).phase = before.phase
            /\ before.monitor = "killed" => Inspection(killed, ready).monitor = "killed"
            /\ before.phase = "rescued" => Inspection(killed, ready).ready # "yes"
        BY <3>1, <3>5, InspectionKeeps
      <3>7. CASE t = u
        <4>1. tokens'[t] = Inspection(killed, ready) /\ tokens[t] = before
          BY <1>1, <3>4, <3>7 DEF IInv, TypeOK
        <4> QED
          BY <2>1, <3>6, <4>1, RankNat DEF State
      <3>8. CASE t # u
        <4>1. tokens'[t] = tokens[t]
          BY <1>1, <3>4, <3>8 DEF IInv, TypeOK
        <4> QED
          BY <2>1, <2>2, <4>1, OnwardSame
      <3> QED
        BY <3>7, <3>8
    <2>5. (Read /\ ~Changed /\ WriteRange) \/ Report
      BY <1>1 DEF Next, ChainStep, Launch, Sweep, Graduate, Lock, Move, Emit, Rescue, EmptyBlock,
                  AgeWindow, LoopStep, PollNothing, BeginRange, ReadEvent, Abandon, CommitRange,
                  WorkerStep, SelectChecks, StartInspection, FailInspection, Crash, file, vars
    <2> QED
      BY <2>3, <2>4, <2>5
  <1>2. IInv /\ [Next]_vars =>
          [\A t \in Token :
             LET old == tokens[t]
                 new == tokens'[t]
             IN /\ Rank(old.phase) <= Rank(new.phase)
                /\ old.monitor = "killed" => new.monitor = "killed"
                /\ old.phase = "rescued" => new.ready # "yes"]_tokens
    BY <1>1
  <1> QED
    BY <1>2, SpecIInv, PTL DEF Spec, NoWayBack

-----------------------------------------------------------------------------
(***************************************************************************)
(* The outbox the notifications go to.                                     *)
(***************************************************************************)

(* Without the first occurrence of an element nothing else is lost, and     *)
(* nothing that was there once is there twice.                              *)
Distinct(s) == \A k, l \in DOMAIN s : s[k] = s[l] => k = l

LEMMA Removed ==
    ASSUME NEW S, NEW s \in Seq(S), NEW e, Distinct(s)
    PROVE  LET r == RemoveFirst(s, e)
           IN  /\ r \in Seq(S)
               /\ Distinct(r)
               /\ \A k \in DOMAIN r : r[k] # e /\ \E l \in DOMAIN s : r[k] = s[l]
<1> DEFINE r == RemoveFirst(s, e)
           At == {k \in 1 .. Len(s) : s[k] = e}
<1>1. Len(s) \in Nat /\ DOMAIN s = 1 .. Len(s) /\ \A k \in 1 .. Len(s) : s[k] \in S
  OBVIOUS
<1>2. CASE At = {}
  <2>1. r = s
    BY <1>2 DEF RemoveFirst
  <2> QED  BY <1>1, <1>2, <2>1
<1>3. CASE At # {}
  <2> DEFINE m == SelectInSeq(s, LAMBDA v : v = e)
  <2>1. m = Min(At)
    BY <1>3 DEF SelectInSeq
  <2>2. At \in SUBSET Nat
    OBVIOUS
  <2>3. m \in At
    <3> HIDE DEF At, m
    <3> QED  BY <1>3, <2>1, <2>2, HasLeast DEF Min
  <2>4. r = SubSeq(s, 1, m - 1) \o SubSeq(s, m + 1, Len(s))
    BY <1>3 DEF RemoveFirst, RemoveAt
  <2> HIDE DEF m, r
  <2>5. m \in 1 .. Len(s) /\ s[m] = e
    BY <2>3
  <2> DEFINE a == SubSeq(s, 1, m - 1)
             b == SubSeq(s, m + 1, Len(s))
  <2>6. /\ a \in Seq(S) /\ Len(a) = m - 1
        /\ \A k \in 1 .. m - 1 : a[k] = s[k]
    <3>1. m - 1 \in Int /\ \A k \in 1 .. m - 1 : s[k] \in S
      BY <1>1, <2>5
    <3>2. /\ a \in Seq(S) /\ Len(a) = IF 1 <= m - 1 THEN (m - 1) - 1 + 1 ELSE 0
          /\ \A k \in 1 .. (m - 1) - 1 + 1 : a[k] = s[1 + k - 1]
      BY <3>1, SubSeqProperties
    <3> HIDE DEF a
    <3> QED  BY <1>1, <2>5, <3>2
  <2>7. /\ b \in Seq(S) /\ Len(b) = Len(s) - m
        /\ \A k \in 1 .. Len(s) - m : b[k] = s[m + k]
    <3>1. m + 1 \in Int /\ Len(s) \in Int /\ \A k \in m + 1 .. Len(s) : s[k] \in S
      BY <1>1, <2>5
    <3>2. /\ b \in Seq(S) /\ Len(b) = IF m + 1 <= Len(s) THEN Len(s) - (m + 1) + 1 ELSE 0
          /\ \A k \in 1 .. Len(s) - (m + 1) + 1 : b[k] = s[(m + 1) + k - 1]
      BY <3>1, SubSeqProperties
    <3> HIDE DEF b
    <3>3. Len(b) = Len(s) - m
      <4>1. Len(b) = IF m + 1 <= Len(s) THEN Len(s) - (m + 1) + 1 ELSE 0
        BY <3>2
      <4>2. m \in 1 .. Len(s) /\ Len(s) \in Nat
        BY <1>1, <2>5
      <4> QED  BY <4>1, <4>2
    <3>4. ASSUME NEW k \in 1 .. Len(s) - m
          PROVE  b[k] = s[m + k]
      <4>1. k \in 1 .. Len(s) - (m + 1) + 1 /\ (m + 1) + k - 1 = m + k
        BY <1>1, <2>5
      <4>2. b[k] = s[(m + 1) + k - 1]
        BY <3>2, <4>1
      <4> QED  BY <4>1, <4>2
    <3> QED  BY <3>2, <3>3, <3>4
  <2> HIDE DEF a, b
  <2>8. /\ r \in Seq(S) /\ Len(r) = Len(a) + Len(b)
        /\ \A k \in 1 .. Len(a) + Len(b) : r[k] = IF k <= Len(a) THEN a[k] ELSE b[k - Len(a)]
    BY <2>4, <2>6, <2>7, ConcatProperties DEF a, b
  <2>9. DOMAIN r = 1 .. Len(s) - 1
    BY <1>1, <2>5, <2>6, <2>7, <2>8
  <2>10. ASSUME NEW k \in 1 .. Len(s) - 1
         PROVE  r[k] = s[IF k < m THEN k ELSE k + 1]
    <3>1. k \in 1 .. Len(a) + Len(b)
      BY <1>1, <2>5, <2>6, <2>7
    <3>2. CASE k < m
      <4>1. k <= Len(a) /\ k \in 1 .. m - 1
        BY <2>5, <2>6, <3>2
      <4> QED  BY <2>6, <2>8, <3>1, <3>2, <4>1
    <3>3. CASE ~ (k < m)
      <4>1. /\ ~ (k <= Len(a)) /\ k - Len(a) = k - (m - 1)
            /\ k - (m - 1) \in 1 .. Len(s) - m /\ m + (k - (m - 1)) = k + 1
        BY <1>1, <2>5, <2>6, <3>3
      <4> QED  BY <2>7, <2>8, <3>1, <3>3, <4>1
    <3> QED  BY <3>2, <3>3
  <2>11. ASSUME NEW k \in 1 .. Len(s) - 1
         PROVE  /\ (IF k < m THEN k ELSE k + 1) \in 1 .. Len(s)
                /\ (IF k < m THEN k ELSE k + 1) # m
    BY <1>1, <2>5
  <2>12. Distinct(r)
    <3> SUFFICES ASSUME NEW k \in 1 .. Len(s) - 1, NEW l \in 1 .. Len(s) - 1, r[k] = r[l]
                 PROVE  k = l
      BY <2>9 DEF Distinct
    <3>1. (IF k < m THEN k ELSE k + 1) = (IF l < m THEN l ELSE l + 1)
      BY <1>1, <2>10, <2>11 DEF Distinct
    <3> QED  BY <2>5, <3>1
  <2>13. ASSUME NEW k \in 1 .. Len(s) - 1
         PROVE  r[k] # e /\ \E l \in DOMAIN s : r[k] = s[l]
    BY <1>1, <2>5, <2>10, <2>11 DEF Distinct
  <2> QED  BY <2>8, <2>9, <2>12, <2>13 DEF r
<1> QED  BY <1>2, <1>3

-----------------------------------------------------------------------------
(* An entry of the outbox, and its copy in a round.                          *)
Entry == [status : Status, attempts : 0 .. SendAttempts, sendable : BOOLEAN]
InRound == [id : Notice, entry : Entry]

(* The entries that are due are pending, each once; only an entry that has a *)
(* send left is pending.                                                     *)
QueueInv ==
    /\ Distinct(dueEntries)
    /\ \A k \in DOMAIN dueEntries : outbox[dueEntries[k]].status = "pending"
    /\ \A n \in Notice : outbox[n].status \in {"missing", "pending"} =>
         outbox[n].attempts < SendAttempts

(* The copies a round works on are still what the file says, and it has no   *)
(* entry twice.                                                              *)
RoundInv ==
    /\ \A k, l \in DOMAIN batch : batch[k].id = batch[l].id => k = l
    /\ \A k \in DOMAIN batch : /\ batch[k].entry = outbox[batch[k].id]
                               /\ batch[k].entry.status = "pending"
    /\ batch = <<>> => tries = 0

(* What arrived was there to be sent, and an answer was to the entry in hand.*)
ArrivedInv ==
    /\ \A n \in arrived : outbox[n].sendable /\ outbox[n].status # "missing"
    /\ tries = MaxTries + 1 => batch # <<>> /\ Current \in arrived

(* A notification said to be delivered arrived at least once, and one that   *)
(* was suppressed never arrived (drainOutbox, shouldSendLifecycleNotification). *)
Truthful ==
    \A n \in Notice : /\ outbox[n].status = "delivered" => n \in arrived
                      /\ outbox[n].status = "suppressed" => n \notin arrived

OutboxInv == OutboxTypeOK /\ QueueInv /\ RoundInv /\ ArrivedInv /\ Truthful

(* What became of an entry.                                                  *)
Outcome(old, new) ==
    /\ old.status \in {"delivered", "suppressed", "failed"} => new = old
    /\ old.status = "pending" => new.attempts >= old.attempts /\ new.sendable = old.sendable

OutcomesKept == \A n \in Notice : Outcome(outbox[n], outbox'[n])

LEMMA Outbox_Init == OutboxInit => OutboxInv
<1> SUFFICES ASSUME OutboxInit PROVE OutboxInv
  OBVIOUS
<1>1. OutboxTypeOK
  BY OutboxAssumption DEF OutboxInit, OutboxTypeOK, Missing, Status
<1>2. QueueInv /\ RoundInv
  BY OutboxAssumption DEF OutboxInit, QueueInv, RoundInv, Missing, Distinct
<1>3. ArrivedInv /\ Truthful
  BY OutboxAssumption DEF OutboxInit, ArrivedInv, Truthful, Missing
<1> QED  BY <1>1, <1>2, <1>3 DEF OutboxInv

LEMMA Outbox_Types ==
    ASSUME OutboxInv
    PROVE  /\ outbox \in [Notice -> Entry] /\ dueEntries \in Seq(Notice) /\ batch \in Seq(InRound)
           /\ tries \in 0 .. MaxTries + 1 /\ arrived \subseteq Notice /\ serving \in BOOLEAN
           /\ MaxTries \in Nat \ {0} /\ SendAttempts \in Nat \ {0} /\ DrainLimit \in Nat \ {0}
           /\ batch # <<>> => /\ Len(batch) \in Nat \ {0} /\ 1 \in DOMAIN batch
                              /\ Head(batch) = batch[1] /\ Head(batch) \in InRound
                              /\ Current \in Notice
                              /\ Head(batch).entry = outbox[Current]
                              /\ outbox[Current].status = "pending"
<1>1. /\ outbox \in [Notice -> Entry] /\ dueEntries \in Seq(Notice) /\ batch \in Seq(InRound)
      /\ tries \in 0 .. MaxTries + 1 /\ arrived \subseteq Notice /\ serving \in BOOLEAN
      /\ MaxTries \in Nat \ {0} /\ SendAttempts \in Nat \ {0} /\ DrainLimit \in Nat \ {0}
  BY OutboxAssumption DEF OutboxInv, OutboxTypeOK, Entry, InRound
<1>2. ASSUME batch # <<>>
      PROVE  /\ Len(batch) \in Nat \ {0} /\ 1 \in DOMAIN batch
             /\ Head(batch) = batch[1] /\ Head(batch) \in InRound
  BY <1>1, <1>2
<1>3. ASSUME batch # <<>>
      PROVE  /\ Current \in Notice
             /\ Head(batch).entry = outbox[Current]
             /\ outbox[Current].status = "pending"
  BY <1>2, <1>3 DEF Current, InRound, OutboxInv, RoundInv
<1> QED  BY <1>1, <1>2, <1>3

(* The new status of an entry is written: the one step that changes it.      *)
LEMMA Outbox_Update ==
    ASSUME OutboxInv, batch # <<>>,
           NEW status \in {"pending", "delivered", "suppressed", "failed"},
           NEW attempts \in 0 .. SendAttempts,
           attempts >= outbox[Current].attempts,
           status = "pending" => attempts < SendAttempts,
           status = "delivered" => Current \in arrived,
           status = "suppressed" => Current \notin arrived,
           Update(status, attempts)
    PROVE  OutboxInv' /\ OutcomesKept
<1>1. /\ outbox \in [Notice -> Entry] /\ dueEntries \in Seq(Notice) /\ batch \in Seq(InRound)
      /\ Current \in Notice /\ outbox[Current].status = "pending" /\ arrived \subseteq Notice
      /\ MaxTries \in Nat \ {0}
  BY Outbox_Types
<1>2. /\ outbox' \in [Notice -> Entry]
      /\ \A n \in Notice \ {Current} : outbox'[n] = outbox[n]
      /\ outbox'[Current].status = status /\ outbox'[Current].attempts = attempts
      /\ outbox'[Current].sendable = outbox[Current].sendable
  BY <1>1 DEF Update, Entry, Status
<1>3. UNCHANGED <<arrived, serving, outboxFaults>> /\ tries' = 0
  BY DEF Update
<1>4. /\ dueEntries' \in Seq(Notice)
      /\ Distinct(dueEntries')
      /\ \A k \in DOMAIN dueEntries' :
             dueEntries'[k] # Current /\ \E l \in DOMAIN dueEntries : dueEntries'[k] = dueEntries[l]
  <2>1. dueEntries' = RemoveFirst(dueEntries, Current)
    BY DEF Update
  <2>2. Distinct(dueEntries)
    BY DEF OutboxInv, QueueInv
  <2> QED  BY <1>1, <2>1, <2>2, Removed
<1>5. /\ batch' \in Seq(InRound)
      /\ \A k \in DOMAIN batch' : k + 1 \in DOMAIN batch /\ k + 1 # 1 /\ batch'[k] = batch[k + 1]
  <2>1. batch' = Tail(batch)
    BY DEF Update
  <2> QED  BY <1>1, <2>1
<1>6. OutboxTypeOK'
  BY <1>1, <1>2, <1>3, <1>4, <1>5 DEF OutboxInv, OutboxTypeOK, Entry, InRound
<1>7. QueueInv'
  <2>1. ASSUME NEW k \in DOMAIN dueEntries'
        PROVE  outbox'[dueEntries'[k]].status = "pending"
    <3>1. PICK l \in DOMAIN dueEntries : dueEntries'[k] = dueEntries[l]
      BY <1>4
    <3>2. dueEntries[l] \in Notice \ {Current}
      BY <1>1, <1>4, <3>1
    <3> QED  BY <1>2, <3>1, <3>2 DEF OutboxInv, QueueInv
  <2>2. ASSUME NEW n \in Notice, outbox'[n].status \in {"missing", "pending"}
        PROVE  outbox'[n].attempts < SendAttempts
    BY <1>1, <1>2, <2>2 DEF OutboxInv, QueueInv
  <2> QED  BY <1>4, <2>1, <2>2 DEF QueueInv
<1>8. RoundInv'
  <2>1. 1 \in DOMAIN batch /\ Current = batch[1].id
    BY Outbox_Types DEF Current
  <2>2. ASSUME NEW k \in DOMAIN batch'
        PROVE  /\ k \in Nat
               /\ batch'[k].id # Current /\ batch'[k].id \in Notice
               /\ batch'[k].entry = outbox[batch'[k].id]
               /\ batch'[k].entry.status = "pending"
    <3>1. /\ k + 1 \in DOMAIN batch /\ k + 1 # 1 /\ batch'[k] = batch[k + 1]
          /\ k \in Nat /\ batch[k + 1] \in InRound
      BY <1>1, <1>5
    <3> QED  BY <2>1, <3>1 DEF OutboxInv, RoundInv, InRound
  <2>3. ASSUME NEW k \in DOMAIN batch', NEW l \in DOMAIN batch', batch'[k].id = batch'[l].id
        PROVE  k = l
    <3>1. k + 1 = l + 1
      BY <1>5, <2>3 DEF OutboxInv, RoundInv
    <3> QED  BY <2>2, <3>1
  <2>4. \A k \in DOMAIN batch' : /\ batch'[k].entry = outbox'[batch'[k].id]
                                 /\ batch'[k].entry.status = "pending"
    BY <1>2, <2>2
  <2> QED  BY <1>3, <2>3, <2>4 DEF RoundInv
<1>9. ArrivedInv'
  BY <1>1, <1>2, <1>3 DEF OutboxInv, ArrivedInv
<1>10. Truthful'
  BY <1>1, <1>2, <1>3 DEF OutboxInv, Truthful
<1>11. OutcomesKept
  BY <1>1, <1>2 DEF OutcomesKept, Outcome, Entry
<1> QED  BY <1>6, <1>7, <1>8, <1>9, <1>10, <1>11 DEF OutboxInv

(* Steps that leave the file alone.                                          *)
LEMMA Outcomes_Same ==
    ASSUME OutboxInv, UNCHANGED outbox
    PROVE  OutcomesKept
<1>1. \A n \in Notice : outbox[n].attempts \in 0 .. SendAttempts
  BY Outbox_Types DEF Entry
<1>2. \A n \in Notice : outbox[n].attempts >= outbox[n].attempts
  BY <1>1
<1> QED  BY <1>2 DEF OutcomesKept, Outcome

LEMMA Outbox_Down ==
    ASSUME OutboxInv, Down, outboxFaults' \in 0 .. MaxOutboxFaults
    PROVE  OutboxInv' /\ OutcomesKept
<1>1. /\ UNCHANGED <<outbox, dueEntries, arrived>>
      /\ batch' = <<>> /\ tries' = 0 /\ serving' = FALSE
  BY DEF Down
<1>2. OutboxTypeOK'
  <2>1. batch' \in Seq(InRound)
    BY <1>1
  <2>2. tries' \in 0 .. MaxTries + 1
    BY <1>1, OutboxAssumption
  <2> QED  BY <1>1, <2>1, <2>2 DEF OutboxInv, OutboxTypeOK, InRound, Entry
<1>3. QueueInv' /\ RoundInv' /\ ArrivedInv' /\ Truthful'
  BY <1>1, OutboxAssumption DEF OutboxInv, QueueInv, RoundInv, ArrivedInv, Truthful
<1> QED  BY <1>1, <1>2, <1>3, Outcomes_Same DEF OutboxInv

LEMMA Outbox_Fault ==
    ASSUME OutboxInv, OutboxFault
    PROVE  outboxFaults' \in 0 .. MaxOutboxFaults
  BY OutboxAssumption DEF OutboxInv, OutboxTypeOK, OutboxFault

(* The queue gets an entry that was not in it.                               *)
LEMMA Queue_Append ==
    ASSUME NEW n \in Notice, NEW q \in Seq(Notice), Distinct(q), n \notin Range(q)
    PROVE  LET r == Append(q, n)
           IN  /\ r \in Seq(Notice)
               /\ Distinct(r)
               /\ \A k \in DOMAIN r : r[k] = n \/ \E l \in DOMAIN q : r[k] = q[l]
<1> DEFINE r == Append(q, n)
<1>1. /\ r \in Seq(Notice) /\ Len(r) = Len(q) + 1
      /\ \A k \in 1 .. Len(q) : r[k] = q[k]
      /\ r[Len(q) + 1] = n
  BY AppendProperties
<1>2. /\ Len(q) \in Nat /\ DOMAIN q = 1 .. Len(q) /\ DOMAIN r = 1 .. Len(q) + 1
      /\ \A k \in 1 .. Len(q) : q[k] # n
  BY <1>1 DEF Range
<1> HIDE DEF r
<1>3. \A k \in 1 .. Len(q) + 1 : k \in 1 .. Len(q) \/ k = Len(q) + 1
  BY <1>2
<1>4. Distinct(r)
  BY <1>1, <1>2, <1>3 DEF Distinct
<1>5. \A k \in DOMAIN r : r[k] = n \/ \E l \in DOMAIN q : r[k] = q[l]
  BY <1>1, <1>2, <1>3
<1> QED  BY <1>1, <1>4, <1>5 DEF r

LEMMA Outbox_Enqueue ==
    ASSUME OutboxInv, NEW n \in Notice, Enqueue(n)
    PROVE  OutboxInv' /\ OutcomesKept
<1>1. /\ outbox \in [Notice -> Entry] /\ dueEntries \in Seq(Notice) /\ batch \in Seq(InRound)
      /\ arrived \subseteq Notice /\ MaxTries \in Nat \ {0} /\ SendAttempts \in Nat \ {0}
  BY Outbox_Types
<1>2. outbox[n].status = "missing" /\ UNCHANGED <<batch, tries, arrived, serving, outboxFaults>>
  BY DEF Enqueue, Missing
<1>3. PICK sendable \in BOOLEAN :
          outbox' = [outbox EXCEPT ![n] = [status |-> "pending", attempts |-> 0,
                                           sendable |-> sendable]]
  <2>1. PICK type \in {"hard_kill", "market_ready"} \cup Unlisted, watchlisted \in BOOLEAN,
             confirmed \in BOOLEAN :
          outbox' = [outbox EXCEPT ![n] = [status |-> "pending", attempts |-> 0,
                                           sendable |-> Sendable(type, watchlisted, confirmed)]]
    BY DEF Enqueue
  <2>2. Sendable(type, watchlisted, confirmed) \in BOOLEAN
    BY DEF Sendable
  <2> QED  BY <2>1, <2>2
<1>4. /\ outbox' \in [Notice -> Entry]
      /\ outbox'[n].status = "pending" /\ outbox'[n].attempts = 0
      /\ \A m \in Notice \ {n} : outbox'[m] = outbox[m]
  BY <1>1, <1>3 DEF Entry, Status
<1>5. n \notin Range(dueEntries) /\ Distinct(dueEntries)
  BY <1>2 DEF Range, OutboxInv, QueueInv
<1>6. /\ dueEntries' \in Seq(Notice) /\ Distinct(dueEntries')
      /\ \A k \in DOMAIN dueEntries' :
             dueEntries'[k] = n \/ \E l \in DOMAIN dueEntries : dueEntries'[k] = dueEntries[l]
  <2>1. dueEntries' = Append(dueEntries, n)
    BY DEF Enqueue
  <2> QED  BY <1>1, <1>5, <2>1, Queue_Append
<1>7. OutboxTypeOK'
  BY <1>1, <1>2, <1>4, <1>6 DEF OutboxInv, OutboxTypeOK, Entry, InRound
<1>8. QueueInv'
  <2>1. ASSUME NEW k \in DOMAIN dueEntries'
        PROVE  outbox'[dueEntries'[k]].status = "pending"
    <3>1. CASE dueEntries'[k] = n
      BY <1>4, <3>1
    <3>2. ASSUME NEW l \in DOMAIN dueEntries, dueEntries'[k] = dueEntries[l]
          PROVE  outbox'[dueEntries'[k]].status = "pending"
      <4>1. dueEntries[l] \in Notice \ {n} /\ outbox[dueEntries[l]].status = "pending"
        BY <1>1, <1>2 DEF OutboxInv, QueueInv
      <4> QED  BY <1>4, <3>2, <4>1
    <3> QED  BY <1>6, <3>1, <3>2
  <2>2. \A m \in Notice : outbox'[m].status \in {"missing", "pending"} =>
                          outbox'[m].attempts < SendAttempts
    BY <1>1, <1>4 DEF OutboxInv, QueueInv
  <2> QED  BY <1>6, <2>1, <2>2 DEF QueueInv
<1>9. RoundInv'
  <2>1. ASSUME NEW k \in DOMAIN batch
        PROVE  batch[k].id \in Notice \ {n}
    <3>1. batch[k] \in InRound
      BY <1>1
    <3> QED  BY <1>2, <3>1 DEF OutboxInv, RoundInv, InRound
  <2> QED  BY <1>2, <1>4, <2>1 DEF OutboxInv, RoundInv
<1>10. ArrivedInv'
  BY <1>1, <1>2, <1>4 DEF OutboxInv, ArrivedInv, Current
<1>11. Truthful'
  BY <1>1, <1>2, <1>4 DEF OutboxInv, Truthful
<1>12. OutcomesKept
  <2>1. \A m \in Notice : outbox[m].attempts \in 0 .. SendAttempts
    BY <1>1 DEF Entry
  <2>2. \A m \in Notice : outbox[m].attempts >= outbox[m].attempts
    BY <2>1
  <2> QED  BY <1>2, <1>4, <2>2 DEF OutcomesKept, Outcome
<1> QED  BY <1>7, <1>8, <1>9, <1>10, <1>11, <1>12 DEF OutboxInv

LEMMA Outbox_FallsDue ==
    ASSUME OutboxInv, NEW n \in Notice, FallsDue(n)
    PROVE  OutboxInv' /\ OutcomesKept
<1>1. /\ UNCHANGED <<outbox, batch, tries, arrived, serving, outboxFaults>>
      /\ outbox[n].status = "pending"
  BY DEF FallsDue
<1>2. /\ dueEntries' \in Seq(Notice) /\ Distinct(dueEntries')
      /\ \A k \in DOMAIN dueEntries' :
             dueEntries'[k] = n \/ \E l \in DOMAIN dueEntries : dueEntries'[k] = dueEntries[l]
  <2>1. dueEntries' = Append(dueEntries, n) /\ n \notin Range(dueEntries)
    BY DEF FallsDue
  <2>2. dueEntries \in Seq(Notice) /\ Distinct(dueEntries)
    BY Outbox_Types DEF OutboxInv, QueueInv
  <2> QED  BY <2>1, <2>2, Queue_Append
<1>3. OutboxTypeOK'
  BY <1>1, <1>2 DEF OutboxInv, OutboxTypeOK
<1>4. QueueInv'
  <2>1. ASSUME NEW k \in DOMAIN dueEntries'
        PROVE  outbox[dueEntries'[k]].status = "pending"
    BY <1>1, <1>2 DEF OutboxInv, QueueInv
  <2> QED  BY <1>1, <1>2, <2>1 DEF OutboxInv, QueueInv
<1>5. RoundInv' /\ ArrivedInv' /\ Truthful'
  BY <1>1 DEF OutboxInv, RoundInv, ArrivedInv, Truthful, Current
<1> QED  BY <1>1, <1>3, <1>4, <1>5, Outcomes_Same DEF OutboxInv

LEMMA Outbox_ListDue ==
    ASSUME OutboxInv, ListDue
    PROVE  OutboxInv' /\ OutcomesKept
<1> DEFINE size  == Min({Len(dueEntries), DrainLimit})
           first == SubSeq(dueEntries, 1, size)
<1>1. /\ outbox \in [Notice -> Entry] /\ dueEntries \in Seq(Notice)
      /\ MaxTries \in Nat \ {0} /\ DrainLimit \in Nat \ {0}
      /\ dueEntries # <<>> /\ batch = <<>> /\ tries = 0
      /\ batch' = [k \in DOMAIN first |-> [id |-> first[k], entry |-> outbox[first[k]]]]
      /\ UNCHANGED <<outbox, dueEntries, tries, arrived, serving, outboxFaults>>
  BY Outbox_Types DEF ListDue, OutboxInv, RoundInv
<1>2. size \in 1 .. Len(dueEntries)
  <2>1. Len(dueEntries) \in Nat \ {0}
    BY <1>1
  <2>2. {Len(dueEntries), DrainLimit} \in SUBSET Nat
    BY <1>1, <2>1
  <2>3. /\ size \in {Len(dueEntries), DrainLimit}
        /\ \A u \in {Len(dueEntries), DrainLimit} : size <= u
    <3> DEFINE U == {Len(dueEntries), DrainLimit}
    <3>1. U # {}
      OBVIOUS
    <3> HIDE DEF U
    <3>2. \E u \in U : \A v \in U : u <= v
      BY <2>2, <3>1, HasLeast DEF U
    <3>3. Min(U) \in U /\ \A u \in U : Min(U) <= u
      BY <3>2 DEF Min
    <3> QED  BY <3>3 DEF U
  <2> HIDE DEF size
  <2> QED  BY <1>1, <2>1, <2>3
<1> HIDE DEF size
<1>3. /\ first \in Seq(Notice) /\ Len(first) = size
      /\ \A k \in 1 .. size : first[k] = dueEntries[k]
  <2>1. \A k \in 1 .. size : dueEntries[k] \in Notice
    BY <1>1, <1>2
  <2>2. /\ first \in Seq(Notice)
        /\ Len(first) = IF 1 <= size THEN size - 1 + 1 ELSE 0
        /\ \A k \in 1 .. size - 1 + 1 : first[k] = dueEntries[1 + k - 1]
    BY <1>2, <2>1, SubSeqProperties
  <2> HIDE DEF first
  <2> QED  BY <1>2, <2>2
<1> HIDE DEF first
<1>4. DOMAIN first = 1 .. size /\ DOMAIN batch' = 1 .. size
  BY <1>1, <1>3
<1>5. ASSUME NEW k \in 1 .. size
      PROVE  /\ k \in DOMAIN dueEntries
             /\ batch'[k] = [id |-> dueEntries[k], entry |-> outbox[dueEntries[k]]]
             /\ dueEntries[k] \in Notice
             /\ batch'[k] \in InRound
  BY <1>1, <1>2, <1>3, <1>4 DEF InRound
<1>6. batch' \in Seq(InRound) /\ batch' # <<>>
  <2>1. batch' = [k \in 1 .. size |-> batch'[k]]
    BY <1>1, <1>4
  <2>2. batch' \in [1 .. size -> InRound] /\ size \in Nat
    BY <1>2, <1>5, <2>1
  <2>3. batch' \in Seq(InRound)
    BY <2>2, SeqDef
  <2> QED  BY <1>2, <1>4, <2>3
<1>7. OutboxTypeOK'
  BY <1>1, <1>6 DEF OutboxInv, OutboxTypeOK, InRound, Entry
<1>8. RoundInv'
  <2>1. ASSUME NEW k \in 1 .. size
        PROVE  /\ batch'[k].id = dueEntries[k] /\ batch'[k].entry = outbox[dueEntries[k]]
               /\ outbox[dueEntries[k]].status = "pending"
    <3>1. /\ k \in DOMAIN dueEntries
          /\ batch'[k] = [id |-> dueEntries[k], entry |-> outbox[dueEntries[k]]]
      BY <1>5
    <3>2. outbox[dueEntries[k]].status = "pending"
      BY <3>1 DEF OutboxInv, QueueInv
    <3> QED  BY <3>1, <3>2
  <2>2. ASSUME NEW k \in 1 .. size, NEW l \in 1 .. size, batch'[k].id = batch'[l].id
        PROVE  k = l
    <3>1. k \in DOMAIN dueEntries /\ l \in DOMAIN dueEntries
      BY <1>5
    <3>2. dueEntries[k] = dueEntries[l]
      BY <2>1, <2>2
    <3>3. Distinct(dueEntries)
      BY DEF OutboxInv, QueueInv
    <3> QED  BY <3>1, <3>2, <3>3 DEF Distinct
  <2> QED  BY <1>1, <1>4, <1>6, <2>1, <2>2 DEF RoundInv
<1>9. QueueInv' /\ Truthful'
  BY <1>1 DEF OutboxInv, QueueInv, Truthful
<1>10. ArrivedInv'
  BY <1>1 DEF OutboxInv, ArrivedInv
<1> QED  BY <1>1, <1>7, <1>8, <1>9, <1>10, Outcomes_Same DEF OutboxInv

LEMMA Outbox_Suppress ==
    ASSUME OutboxInv, Suppress
    PROVE  OutboxInv' /\ OutcomesKept
<1>1. batch # <<>> /\ ~ Head(batch).entry.sendable
  BY DEF Suppress
<1>2. /\ Head(batch).entry = outbox[Current] /\ Current \in Notice
      /\ outbox[Current].attempts \in 0 .. SendAttempts
  BY <1>1, Outbox_Types DEF Entry
<1>3. Current \notin arrived
  BY <1>1, <1>2 DEF OutboxInv, ArrivedInv
<1>4. CASE Update("suppressed", Head(batch).entry.attempts)
  <2>1. outbox[Current].attempts >= outbox[Current].attempts
    BY <1>2
  <2> QED  BY <1>1, <1>2, <1>3, <1>4, <2>1, Outbox_Update
<1>5. CASE OutboxFault /\ Down
  BY <1>5, Outbox_Fault, Outbox_Down
<1> QED  BY <1>4, <1>5 DEF Suppress

LEMMA Outbox_Try ==
    ASSUME OutboxInv, Try
    PROVE  OutboxInv' /\ OutcomesKept
<1>1. /\ batch # <<>> /\ Head(batch).entry.sendable /\ tries \in 0 .. MaxTries - 1
      /\ UNCHANGED <<outbox, dueEntries, batch, serving, outboxFaults>>
  BY DEF Try, Sending
<1>2. /\ Head(batch).entry = outbox[Current] /\ Current \in Notice
      /\ outbox[Current].status = "pending" /\ MaxTries \in Nat \ {0} /\ arrived \subseteq Notice
  BY <1>1, Outbox_Types
<1>3. /\ arrived' \in {arrived, arrived \cup {Current}}
      /\ tries' \in {MaxTries + 1, tries + 1}
      /\ tries' = MaxTries + 1 => Current \in arrived'
  <2>1. PICK came \in BOOLEAN, answered \in BOOLEAN :
            /\ answered => came
            /\ arrived' = IF came THEN arrived \cup {Current} ELSE arrived
            /\ tries' = IF answered THEN MaxTries + 1 ELSE tries + 1
    BY DEF Try
  <2>2. tries + 1 # MaxTries + 1
    BY <1>1, <1>2
  <2> QED  BY <2>1, <2>2
<1>4. OutboxTypeOK'
  BY <1>1, <1>2, <1>3 DEF OutboxInv, OutboxTypeOK
<1>5. ArrivedInv'
  <2>1. Current' = Current
    BY <1>1 DEF Current
  <2>2. \A n \in arrived' : outbox[n].sendable /\ outbox[n].status # "missing"
    BY <1>1, <1>2, <1>3 DEF OutboxInv, ArrivedInv
  <2> QED  BY <1>1, <1>3, <2>1, <2>2 DEF ArrivedInv
<1>6. QueueInv' /\ RoundInv'
  BY <1>1 DEF OutboxInv, QueueInv, RoundInv
<1>7. Truthful'
  BY <1>1, <1>2, <1>3 DEF OutboxInv, Truthful
<1> QED  BY <1>1, <1>4, <1>5, <1>6, <1>7, Outcomes_Same DEF OutboxInv

LEMMA Outbox_SendFails ==
    ASSUME OutboxInv, SendFails
    PROVE  OutboxInv' /\ OutcomesKept
<1>1. batch # <<>>
  BY DEF SendFails, Sending
<1>2. /\ Head(batch).entry = outbox[Current] /\ Current \in Notice
      /\ outbox[Current].status = "pending"
      /\ outbox[Current].attempts \in 0 .. SendAttempts /\ SendAttempts \in Nat \ {0}
  BY <1>1, Outbox_Types DEF Entry
<1>3. outbox[Current].attempts < SendAttempts
  BY <1>2 DEF OutboxInv, QueueInv
<1>4. CASE Reschedule
  <2> DEFINE attempts == outbox[Current].attempts + 1
             status   == IF attempts >= SendAttempts THEN "failed" ELSE "pending"
  <2>1. Update(status, attempts)
    BY <1>2, <1>4 DEF Reschedule, AttemptsAfter
  <2>2. /\ attempts \in 0 .. SendAttempts /\ attempts >= outbox[Current].attempts
        /\ status \in {"pending", "delivered", "suppressed", "failed"}
        /\ status # "delivered" /\ status # "suppressed"
        /\ status = "pending" => attempts < SendAttempts
    BY <1>2, <1>3
  <2> HIDE DEF attempts, status
  <2> QED  BY <1>1, <2>1, <2>2, Outbox_Update
<1>5. CASE OutboxFault /\ Down
  BY <1>5, Outbox_Fault, Outbox_Down
<1> QED  BY <1>4, <1>5 DEF SendFails

LEMMA Outbox_Delivered ==
    ASSUME OutboxInv, Delivered
    PROVE  OutboxInv' /\ OutcomesKept
<1>1. batch # <<>> /\ tries = MaxTries + 1
  BY DEF Delivered, Sending
<1>2. /\ Head(batch).entry = outbox[Current] /\ Current \in Notice
      /\ outbox[Current].attempts \in 0 .. SendAttempts
      /\ MaxTries \in Nat \ {0}
  BY <1>1, Outbox_Types DEF Entry
<1>3. Current \in arrived
  BY <1>1 DEF OutboxInv, ArrivedInv
<1>4. CASE Update("delivered", Head(batch).entry.attempts)
  <2>1. outbox[Current].attempts >= outbox[Current].attempts
    BY <1>2
  <2> QED  BY <1>1, <1>2, <1>3, <1>4, <2>1, Outbox_Update
<1>5. CASE /\ OutboxFault /\ tries' = MaxTries
           /\ UNCHANGED <<outbox, dueEntries, batch, arrived, serving>>
  <2>1. outboxFaults' \in 0 .. MaxOutboxFaults
    BY <1>5, Outbox_Fault
  <2>2. OutboxTypeOK'
    BY <1>2, <1>5, <2>1 DEF OutboxInv, OutboxTypeOK
  <2>3. QueueInv' /\ RoundInv' /\ ArrivedInv' /\ Truthful'
    BY <1>1, <1>2, <1>5 DEF OutboxInv, QueueInv, RoundInv, ArrivedInv, Truthful
  <2> QED  BY <1>5, <2>2, <2>3, Outcomes_Same DEF OutboxInv
<1> QED  BY <1>4, <1>5 DEF Delivered

LEMMA Outbox_Restart ==
    ASSUME OutboxInv, OutboxRestart
    PROVE  OutboxInv' /\ OutcomesKept
<1>1. UNCHANGED <<outbox, dueEntries, batch, tries, arrived, outboxFaults>> /\ serving' \in BOOLEAN
  BY DEF OutboxRestart
<1>2. OutboxInv'
  BY <1>1 DEF OutboxInv, OutboxTypeOK, QueueInv, RoundInv, ArrivedInv, Truthful, Current
<1> QED  BY <1>1, <1>2, Outcomes_Same

LEMMA Outbox_Step ==
    ASSUME OutboxInv, OutboxNext
    PROVE  OutboxInv' /\ OutcomesKept
<1>1. CASE \E n \in Notice : Enqueue(n) \/ FallsDue(n)
  BY <1>1, Outbox_Enqueue, Outbox_FallsDue
<1>2. CASE Worker
  BY <1>2, Outbox_ListDue, Outbox_Suppress, Outbox_Try, Outbox_SendFails, Outbox_Delivered
     DEF Worker
<1>3. CASE OutboxCrash
  BY <1>3, Outbox_Fault, Outbox_Down DEF OutboxCrash
<1>4. CASE OutboxRestart
  BY <1>4, Outbox_Restart
<1> QED  BY <1>1, <1>2, <1>3, <1>4 DEF OutboxNext

LEMMA Outbox_Next == OutboxInv /\ [OutboxNext]_outboxVars => OutboxInv' /\ OutcomesKept
<1> SUFFICES ASSUME OutboxInv, [OutboxNext]_outboxVars
             PROVE  OutboxInv' /\ OutcomesKept
  OBVIOUS
<1>1. CASE UNCHANGED outboxVars
  <2>1. UNCHANGED <<outbox, dueEntries, batch, tries, arrived, serving, outboxFaults>>
    BY <1>1 DEF outboxVars
  <2>2. OutboxInv'
    BY <2>1 DEF OutboxInv, OutboxTypeOK, QueueInv, RoundInv, ArrivedInv, Truthful, Current
  <2> QED  BY <2>1, <2>2, Outcomes_Same
<1> QED  BY <1>1, Outbox_Step

(* Every variable of the outbox keeps its type; no entry is sent more often  *)
(* than it may be (drainOutbox).                                             *)
THEOREM OutboxTypeCorrect == OutboxSpec => []OutboxTypeOK
<1>1. OutboxInv => OutboxTypeOK
  BY DEF OutboxInv
<1> QED  BY <1>1, Outbox_Init, Outbox_Next, PTL DEF OutboxSpec

(* Whatever is lost, sent twice or not written, the file never says that a   *)
(* message was delivered that did not arrive, nor that one was suppressed    *)
(* that did (drainOutbox, sendTelegramWith).                                 *)
THEOREM OutboxTruthful == OutboxSpec => []Truthful
<1>1. OutboxInv => Truthful
  BY DEF OutboxInv
<1> QED  BY <1>1, Outbox_Init, Outbox_Next, PTL DEF OutboxSpec

(* What became of a message stays, and its sends are never given back: the   *)
(* writers of the store do not look at the status they overwrite             *)
(* (markOutboxDelivered, markOutboxSuppressed, rescheduleOutbox).            *)
THEOREM OutboxFinal == OutboxSpec => [][OutcomesKept]_outboxVars
  BY Outbox_Init, Outbox_Next, PTL DEF OutboxSpec
=============================================================================
