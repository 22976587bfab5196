----------------------- MODULE CandidateHandoffProofs -----------------------
(* Proofs about CandidateHandoff, for every set of candidates and every    *)
(* assignment of blocks.                                                   *)
EXTENDS CandidateHandoff, TLAPS

HandoffInv == TypeOK /\ Covered

LEMMA HandoffStep ==
  ASSUME HandoffAssumption, HandoffInv, [Next]_vars
  PROVE  HandoffInv'
  <1> USE DEF HandoffAssumption
  <1>1. ASSUME NEW c \in Candidate, Handle(c) \/ Resolve(c) \/ Expire(c)
        PROVE  HandoffInv'
    <2>1. PICK st \in Status \ {"open"} : Become(c, st)
      BY <1>1 DEF Handle, Resolve, Expire, Status
    <2> QED
      BY <2>1 DEF HandoffInv, TypeOK, Covered, Become
  <1>2. ASSUME NEW to \in 1 .. LastBlock, Advance(to) PROVE HandoffInv'
    BY <1>2 DEF HandoffInv, TypeOK, Covered, Advance
  <1>3. CASE UNCHANGED vars
    BY <1>3 DEF vars, HandoffInv, TypeOK, Covered
  <1> QED
    BY <1>1, <1>2, <1>3 DEF Next

(* No candidate at or below the watermark is open.                         *)
THEOREM HandoffCovered ==
  ASSUME HandoffAssumption PROVE Spec => []Covered
  <1>1. Init => HandoffInv
    BY DEF HandoffAssumption, Init, HandoffInv, TypeOK, Covered, Status
  <1>2. HandoffInv => Covered
    BY DEF HandoffInv
  <1>3. HandoffInv /\ [Next]_vars => HandoffInv'
    BY HandoffStep
  <1> QED
    BY <1>1, <1>2, <1>3, PTL DEF Spec

(* A candidate the watermark passed is not handed over a second time.      *)
THEOREM HandoffOnce ==
  ASSUME HandoffAssumption PROVE Spec => HandedOverOnce
  <1>1. Init => HandoffInv
    BY DEF HandoffAssumption, Init, HandoffInv, TypeOK, Covered, Status
  <1>2. HandoffInv /\ [Next]_vars =>
          [\A c \in Candidate :
             BlockOf[c] \in 1 .. watermark /\ status[c] # "deferred"
                => status'[c] \notin {"open", "deferred"}]_vars
    <2> SUFFICES ASSUME HandoffInv, Next, NEW c \in Candidate,
                        BlockOf[c] \in 1 .. watermark, status[c] # "deferred"
                 PROVE  status'[c] \notin {"open", "deferred"}
      OBVIOUS
    <2> USE DEF HandoffAssumption
    <2>1. status[c] # "open"
      BY DEF HandoffInv, Covered
    <2>2. ASSUME NEW d \in Candidate, Handle(d) \/ Resolve(d) \/ Expire(d)
          PROVE  status'[c] \notin {"open", "deferred"}
      BY <2>1, <2>2 DEF HandoffInv, TypeOK, Handle, Resolve, Expire, Become
    <2>3. ASSUME NEW to \in 1 .. LastBlock, Advance(to)
          PROVE  status'[c] \notin {"open", "deferred"}
      BY <2>1, <2>3 DEF Advance
    <2> QED
      BY <2>2, <2>3 DEF Next
  <1>3. HandoffInv /\ [Next]_vars => HandoffInv'
    BY HandoffStep
  <1> QED
    BY <1>1, <1>2, <1>3, PTL DEF Spec, HandedOverOnce
=============================================================================
