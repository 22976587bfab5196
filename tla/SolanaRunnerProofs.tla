-------------------------- MODULE SolanaRunnerProofs --------------------------
(***************************************************************************)
(* Proofs about SolanaRunner, for every profile of programs, every listing *)
(* and every number of faults.                                             *)
(***************************************************************************)
EXTENDS SolanaRunner, FiniteSetTheorems, TLAPS, WellFoundedInduction

(* A nonempty set of naturals has a least member.                          *)
LEMMA SolHasLeast ==
    ASSUME NEW S \in SUBSET Nat, S # {}
    PROVE  \E n \in S : \A m \in S : n <= m
<1>1. \E n \in S : \A m \in S : ~ (<<m, n>> \in OpToRel(<, Nat))
  BY NatLessThanWellFounded, WFMin
<1>2. ASSUME NEW n \in S, NEW m \in S, ~ (<<m, n>> \in OpToRel(<, Nat))
      PROVE  n <= m
  BY <1>2 DEF OpToRel
<1> QED
  BY <1>1, <1>2

LEMMA Counts == Signatures \in Nat /\ Signature = 1 .. Signatures
  BY SolanaAssumption DEF Signature

(* The newest signature of a listing.                                      *)
LEMMA LargestIsLast ==
    ASSUME NEW S \in SUBSET Signature
    PROVE  /\ Largest(S) \in 0 .. Signatures
           /\ Largest(S) # 0 => Largest(S) \in S
           /\ \A m \in S : m <= Largest(S)
<1>0. CASE S = {}
  BY <1>0, Counts DEF Largest
<1>1. CASE S # {}
  <2> DEFINE Distance == {Signatures - n : n \in S}
  <2>0. \A n \in S : n \in Nat /\ 1 <= n /\ n <= Signatures
    BY Counts
  <2>1. Distance \in SUBSET Nat
    BY <2>0, Counts
  <2>2. Distance # {}
    BY <1>1
  <2>3. \E u \in Distance : \A v \in Distance : u <= v
    <3> HIDE DEF Distance
    <3> QED BY <2>1, <2>2, SolHasLeast
  <2>4. PICK u \in Distance : \A v \in Distance : u <= v
    BY <2>3
  <2>5. PICK n \in S : u = Signatures - n
    OBVIOUS
  <2>6. ASSUME NEW m \in S PROVE m <= n
    <3>1. Signatures - m \in Distance
      OBVIOUS
    <3>2. Signatures - n <= Signatures - m
      BY <2>4, <2>5, <3>1
    <3> QED
      BY <2>0, <3>2, Counts
  <2>7. Largest(S) \in S /\ \A m \in S : m <= Largest(S)
    BY <1>1, <2>6 DEF Largest
  <2> HIDE DEF Distance
  <2>8. Largest(S) \in 1 .. Signatures
    BY <2>7, Counts
  <2> QED
    BY <2>7, <2>8, Counts
<1> QED
  BY <1>0, <1>1

(* Slots do not fall along the listing.                                    *)
LEMMA SlotsRise ==
    ASSUME NEW m \in Signature, NEW n \in Signature, m <= n
    PROVE  SlotOf[m] \in Nat /\ SlotOf[n] \in Nat /\ SlotOf[m] <= SlotOf[n]
  BY SolanaAssumption

(* An event has a candidate key, which is not the one that stands for none. *)
LEMMA KeysOfEvents ==
    /\ NoKey \notin Key
    /\ \A n \in Signature : PoolOf[n] # NoPool => KeyOf(n) \in Key
  BY SolanaAssumption DEF Key, NoKey, KeyOf

-----------------------------------------------------------------------------
(***************************************************************************)
(* The invariant.                                                          *)
(***************************************************************************)
InPoll == at \in {"read", "handle", "alert", "mark"}

(* A candidate whose message is on its way, or not yet marked.             *)
InHand == at \in {"alert", "mark"}

SolTypes ==
    /\ anchor \in [Program -> 0 .. Signatures]
    /\ start \in [Program -> 0 .. Signatures]
    /\ newest \in [Program -> 0 .. Signatures]
    /\ known \subseteq Key
    /\ events \subseteq {n \in Signature : PoolOf[n] # NoPool}
    /\ uncommitted \subseteq Program
    /\ tip \in 0 .. Signatures
    /\ confirmed \in Nat
    /\ at \in {"idle", "anchor", "read", "handle", "alert", "mark", "down"}
    /\ current \in Key \cup {NoKey}
    /\ InHand <=> current # NoKey
    /\ current \notin known

(* A signature whose event, if it has one, is handled or about to be.      *)
Accounted(n) == PoolOf[n] # NoPool => KeyOf(n) \in known \/ n \in events \/ current = KeyOf(n)

(* While a poll runs, what a program's reading found behind its cursor is  *)
(* accounted for, and its newest signature is not of an earlier slot; once *)
(* the cursor is written, it is that signature.                            *)
ReadOK(p) ==
    newest[p] # 0 =>
        IF p \in uncommitted
        THEN /\ SlotOf[newest[p]] >= SlotOf[anchor[p]]
             /\ \A n \in Signature :
                  ProgramOf[n] = p /\ anchor[p] < n /\ n <= newest[p] => Accounted(n)
        ELSE newest[p] = anchor[p]

RangeOK == InPoll => \A p \in Program : ReadOK(p)

(* A first run comes before everything else.                               *)
FirstRunOK ==
    /\ at = "anchor" => known = {}
    /\ InPoll \/ known # {} => \A p \in Program : anchor[p] # 0

SolInv == SolTypes /\ RangeOK /\ FirstRunOK /\ HandledUpToCursor

LEMMA Sol_Init == SolInit => SolInv
<1> SUFFICES ASSUME SolInit PROVE SolInv
  OBVIOUS
<1>1. SolTypes
  BY Counts, SolanaAssumption DEF SolInit, SolTypes, InHand, Nothing
<1>2. RangeOK /\ FirstRunOK
  BY DEF SolInit, RangeOK, FirstRunOK, InPoll
<1>3. HandledUpToCursor
  BY Counts, SolanaAssumption DEF SolInit, HandledUpToCursor, Nothing
<1> QED
  BY <1>1, <1>2, <1>3 DEF SolInv

(* However a poll ends, nothing of it is left.                             *)
LEMMA Sol_Ends ==
    ASSUME SolInv, NEW st \in {"idle", "down"}, Left(st), UNCHANGED <<solStore, start, tip, confirmed>>
    PROVE  SolInv'
<1> USE DEF Left, solStore
<1>1. SolTypes'
  BY Counts, KeysOfEvents DEF SolInv, SolTypes, InHand, Nothing
<1>2. RangeOK' /\ FirstRunOK'
  BY DEF SolInv, RangeOK, FirstRunOK, InPoll
<1>3. HandledUpToCursor'
  BY DEF SolInv, HandledUpToCursor
<1> QED
  BY <1>1, <1>2, <1>3 DEF SolInv

(* A session begins, on either node.                                       *)
LEMMA Sol_Begins ==
    ASSUME SolInv, NEW n, Begin(n), ~InHand
    PROVE  SolInv'
<1> USE DEF Begin, solStore, solChain
<1>1. SolTypes'
  BY Counts DEF SolInv, SolTypes, InHand, Nothing
<1>2. RangeOK'
  BY DEF SolInv, RangeOK, ReadOK, Nothing
<1>3. FirstRunOK'
  BY DEF SolInv, FirstRunOK, InPoll, OnFirstRun
<1>4. HandledUpToCursor'
  BY DEF SolInv, HandledUpToCursor
<1> QED
  BY <1>1, <1>2, <1>3, <1>4 DEF SolInv

LEMMA Sol_ReadAnchor ==
    ASSUME SolInv, NEW p \in Program, ReadAnchor(p)
    PROVE  SolInv'
<1>1. PICK view \in Views :
        newest' = [newest EXCEPT ![p] = Largest({n \in 1 .. view : ProgramOf[n] = p})]
  BY DEF ReadAnchor
<1>2. /\ at = "anchor" /\ uncommitted' = uncommitted \cup {p}
      /\ UNCHANGED <<anchor, known, at, events, current, tip, confirmed, start>>
  BY DEF ReadAnchor, DoneReading, solStore, solChain, solHistory
<1>3. Largest({n \in 1 .. view : ProgramOf[n] = p}) \in 0 .. Signatures
  <2>1. view \in 0 .. Signatures
    BY Counts DEF Views, SolInv, SolTypes
  <2>2. {n \in 1 .. view : ProgramOf[n] = p} \in SUBSET Signature
    BY <2>1, Counts
  <2> QED
    BY <2>2, LargestIsLast
<1>4. SolTypes'
  BY <1>1, <1>2, <1>3 DEF SolInv, SolTypes, InHand
<1>5. RangeOK' /\ FirstRunOK' /\ HandledUpToCursor'
  BY <1>2 DEF SolInv, RangeOK, FirstRunOK, InPoll, HandledUpToCursor
<1> QED
  BY <1>4, <1>5 DEF SolInv

(* What a program's reading finds: everything behind the cursor up to its  *)
(* newest, and nothing of a slot before the cursor's, from whichever node. *)
LEMMA BehindWhole ==
    ASSUME NEW p \in Program, anchor[p] \in Signature,
           NEW view \in 0 .. Signatures, NEW safe \in Nat
    PROVE  LET found == Behind(p, view, safe)
               top == Largest(found)
           IN  /\ found \in SUBSET Signature
               /\ top \in 0 .. Signatures
               /\ top # 0 =>
                    /\ SlotOf[top] >= SlotOf[anchor[p]]
                    /\ \A n \in Signature :
                         ProgramOf[n] = p /\ anchor[p] < n /\ n <= top => n \in found
<1> DEFINE found == Behind(p, view, safe)
           top == Largest(found)
<1>1. found \in SUBSET Signature
  BY Counts DEF Behind, Listed
<1>2. top \in 0 .. Signatures /\ (top # 0 => top \in found)
  BY <1>1, LargestIsLast
<1> HIDE DEF top
<1>3. ASSUME top # 0 PROVE SlotOf[top] >= SlotOf[anchor[p]]
  <2>1. top \in found /\ top \in Signature
    BY <1>1, <1>2, <1>3
  <2>2. top > anchor[p] \/ SlotOf[top] >= SlotOf[anchor[p]]
    BY <2>1 DEF Behind
  <2>3. top > anchor[p] => SlotOf[top] >= SlotOf[anchor[p]]
    BY <2>1, SlotsRise, Counts
  <2> QED
    BY <2>2, <2>3
<1>4. ASSUME top # 0, NEW n \in Signature, ProgramOf[n] = p, anchor[p] < n, n <= top
      PROVE  n \in found
  <2>1. top \in Signature /\ top \in 1 .. view /\ SlotOf[top] <= safe
    BY <1>1, <1>2, <1>4 DEF Behind, Listed
  <2>2. n \in 1 .. view
    BY <2>1, <1>4, Counts
  <2>3. SlotOf[n] \in Nat /\ SlotOf[n] <= safe
    BY <2>1, <1>4, SlotsRise
  <2>4. SlotOf[n] >= SlotOf[anchor[p]]
    BY <1>4, SlotsRise, Counts
  <2>5. n \in Listed(p, view, safe)
    BY <2>2, <2>3, <1>4 DEF Listed
  <2>6. n > anchor[p]
    BY <1>4, Counts
  <2> QED
    BY <2>4, <2>5, <2>6 DEF Behind
<1>5. top # 0 => \A n \in Signature : ProgramOf[n] = p /\ anchor[p] < n /\ n <= top => n \in found
  BY <1>4
<1> QED
  BY <1>1, <1>2, <1>3, <1>5 DEF top

LEMMA Sol_ReadProgram ==
    ASSUME SolInv, NEW p \in Program, ReadProgram(p)
    PROVE  SolInv'
<1>1. PICK view \in Views, safe \in SafeSlots :
        IF Behind(p, view, safe) \cap Poison # {}
        THEN SolThrown(FALSE)
        ELSE /\ newest' = [newest EXCEPT ![p] = Largest(Behind(p, view, safe))]
             /\ events' = events \cup {n \in Behind(p, view, safe) : PoolOf[n] # NoPool}
             /\ DoneReading(p)
             /\ UNCHANGED <<at, node, current>>
  BY DEF ReadProgram
<1> DEFINE found == Behind(p, view, safe)
<1>2. at = "read" /\ UNCHANGED <<anchor, known, start, tip, confirmed>>
  BY DEF ReadProgram, solStore, solChain, solHistory
<1>3. CASE found \cap Poison # {}
  <2>1. Left("down")
    BY <1>1, <1>3 DEF SolThrown
  <2> QED
    BY <2>1, <1>2, Sol_Ends DEF solStore
<1>4. CASE found \cap Poison = {}
  <2>1. /\ newest' = [newest EXCEPT ![p] = Largest(found)]
        /\ events' = events \cup {n \in found : PoolOf[n] # NoPool}
        /\ uncommitted' = uncommitted \cup {p}
        /\ UNCHANGED <<at, current>>
    BY <1>1, <1>4 DEF DoneReading
  <2>2. view \in 0 .. Signatures /\ safe \in Nat /\ anchor[p] \in Signature
    <3>1. view \in 0 .. Signatures
      BY Counts DEF Views, SolInv, SolTypes
    <3>2. safe \in Nat
      BY DEF SafeSlots, SolInv, SolTypes
    <3>3. anchor[p] \in Signature
      BY <1>2, Counts DEF SolInv, SolTypes, FirstRunOK, InPoll
    <3> QED
      BY <3>1, <3>2, <3>3
  <2>3. /\ found \in SUBSET Signature
        /\ Largest(found) \in 0 .. Signatures
        /\ Largest(found) # 0 =>
             /\ SlotOf[Largest(found)] >= SlotOf[anchor[p]]
             /\ \A n \in Signature :
                  ProgramOf[n] = p /\ anchor[p] < n /\ n <= Largest(found) => n \in found
    BY <2>2, BehindWhole
  <2> HIDE DEF found
  <2>4. SolTypes'
    BY <1>2, <2>1, <2>3 DEF SolInv, SolTypes, InHand
  <2>5. ASSUME NEW q \in Program PROVE ReadOK(q)'
    <3>1. ReadOK(q)
      BY <1>2 DEF SolInv, RangeOK, InPoll
    <3>2. CASE q # p
      <4>1. newest'[q] = newest[q] /\ (q \in uncommitted' <=> q \in uncommitted)
        BY <2>1, <3>2 DEF SolInv, SolTypes
      <4>2. \A n \in Signature : Accounted(n) => Accounted(n)'
        BY <1>2, <2>1 DEF Accounted
      <4> QED
        BY <3>1, <4>1, <4>2, <1>2 DEF ReadOK
    <3>3. CASE q = p
      <4>1. newest'[p] = Largest(found) /\ p \in uncommitted'
        BY <2>1 DEF SolInv, SolTypes
      <4>2. \A n \in found : Accounted(n)'
        BY <2>1 DEF Accounted
      <4> QED
        BY <3>3, <4>1, <4>2, <2>3, <1>2 DEF ReadOK
    <3> QED
      BY <3>2, <3>3
  <2>6. RangeOK' /\ FirstRunOK' /\ HandledUpToCursor'
    BY <1>2, <2>1, <2>5 DEF SolInv, RangeOK, FirstRunOK, InPoll, HandledUpToCursor
  <2> QED
    BY <2>4, <2>6 DEF SolInv
<1> QED
  BY <1>3, <1>4

LEMMA Sol_SessionDone == SolInv /\ SessionDone => SolInv'
  BY DEF SolInv, SessionDone, SolTypes, InHand, RangeOK, ReadOK, Accounted, FirstRunOK, InPoll,
         HandledUpToCursor, solStore, solChain, solHistory

(* The anchors of a first run: what lies before them was never promised.   *)
LEMMA Sol_Anchor ==
    ASSUME SolInv, NEW p \in Program, Anchor(p)
    PROVE  SolInv'
<1>1. /\ at = "anchor"
      /\ uncommitted' = uncommitted \ {p}
      /\ anchor' = IF newest[p] = 0 THEN anchor ELSE [anchor EXCEPT ![p] = newest[p]]
      /\ start' = IF newest[p] = 0 THEN start ELSE [start EXCEPT ![p] = newest[p]]
      /\ UNCHANGED <<known, at, newest, events, current, tip, confirmed>>
  BY DEF Anchor, Committed, solChain
<1>2. SolTypes'
  BY <1>1 DEF SolInv, SolTypes, InHand
<1>3. RangeOK' /\ FirstRunOK'
  BY <1>1 DEF SolInv, RangeOK, FirstRunOK, InPoll
<1>4. HandledUpToCursor'
  <2>1. ASSUME NEW n \in Signature,
               (start[ProgramOf[n]] < n)', (n <= anchor[ProgramOf[n]])', PoolOf[n] # NoPool
        PROVE  (KeyOf(n) \in known)'
    <3>0. ProgramOf[n] \in Program /\ n \in Nat
      BY SolanaAssumption, Counts
    <3>1. CASE newest[p] = 0 \/ ProgramOf[n] # p
      <4>1. anchor'[ProgramOf[n]] = anchor[ProgramOf[n]] /\ start'[ProgramOf[n]] = start[ProgramOf[n]]
        BY <1>1, <3>0, <3>1 DEF SolInv, SolTypes
      <4> QED
        BY <4>1, <2>1, <1>1 DEF SolInv, HandledUpToCursor
    <3>2. CASE newest[p] # 0 /\ ProgramOf[n] = p
      <4>1. anchor'[p] = newest[p] /\ start'[p] = newest[p] /\ newest[p] \in 0 .. Signatures
        BY <1>1, <3>2 DEF SolInv, SolTypes
      <4> QED
        BY <4>1, <2>1, <3>0, <3>2, Counts
    <3> QED
      BY <3>1, <3>2
  <2> QED
    BY <2>1 DEF HandledUpToCursor
<1> QED
  BY <1>2, <1>3, <1>4 DEF SolInv

(* The cursor of a program whose events are all handled.                   *)
LEMMA Sol_Commit ==
    ASSUME SolInv, NEW p \in Program, CommitProgram(p)
    PROVE  SolInv'
<1>1. /\ at = "handle" /\ p \in uncommitted
      /\ \A n \in events : ProgramOf[n] # p
      /\ uncommitted' = uncommitted \ {p}
      /\ anchor' = IF newest[p] = 0 THEN anchor ELSE [anchor EXCEPT ![p] = newest[p]]
      /\ UNCHANGED <<known, at, newest, events, current, tip, confirmed, start>>
  BY DEF CommitProgram, Committed, FirstIn, solChain, solHistory
<1>2. SolTypes'
  BY <1>1 DEF SolInv, SolTypes, InHand
<1>3. FirstRunOK'
  <2>1. \A q \in Program : anchor'[q] # 0
    BY <1>1 DEF SolInv, SolTypes, FirstRunOK, InPoll
  <2> QED
    BY <1>1, <2>1 DEF FirstRunOK
<1>4. ASSUME NEW q \in Program PROVE ReadOK(q)'
  <2>1. ReadOK(q)
    BY <1>1 DEF SolInv, RangeOK, InPoll
  <2>2. CASE q # p
    <3>1. anchor'[q] = anchor[q] /\ (q \in uncommitted' <=> q \in uncommitted)
      BY <1>1, <2>2 DEF SolInv, SolTypes
    <3> QED
      BY <2>1, <3>1, <1>1 DEF ReadOK, Accounted
  <2>3. CASE q = p
    <3>1. p \notin uncommitted' /\ (newest[p] # 0 => anchor'[p] = newest[p])
      BY <1>1 DEF SolInv, SolTypes
    <3> QED
      BY <2>3, <3>1, <1>1 DEF ReadOK
  <2> QED
    BY <2>2, <2>3
<1>5. HandledUpToCursor'
  <2>1. ASSUME NEW n \in Signature,
               (start[ProgramOf[n]] < n)', (n <= anchor[ProgramOf[n]])', PoolOf[n] # NoPool
        PROVE  (KeyOf(n) \in known)'
    <3>0. ProgramOf[n] \in Program /\ n \in Nat
      BY SolanaAssumption, Counts
    <3>1. CASE anchor'[ProgramOf[n]] = anchor[ProgramOf[n]]
      BY <3>1, <2>1, <1>1 DEF SolInv, HandledUpToCursor
    <3>2. CASE anchor'[ProgramOf[n]] # anchor[ProgramOf[n]]
      <4>1. ProgramOf[n] = p /\ newest[p] # 0 /\ anchor'[p] = newest[p]
        BY <1>1, <3>0, <3>2 DEF SolInv, SolTypes
      <4>2. anchor[p] \in Nat
        BY Counts DEF SolInv, SolTypes
      <4>3. CASE n <= anchor[p]
        BY <4>1, <4>3, <2>1, <1>1 DEF SolInv, HandledUpToCursor
      <4>4. CASE anchor[p] < n
        <5>1. ReadOK(p)
          BY <1>1 DEF SolInv, RangeOK, InPoll
        <5>2. Accounted(n)
          BY <5>1, <4>1, <4>4, <2>1, <1>1 DEF ReadOK
        <5>3. current = NoKey /\ n \notin events
          BY <1>1, <4>1 DEF SolInv, SolTypes, InHand
        <5> QED
          BY <5>2, <5>3, <2>1, <1>1, KeysOfEvents DEF Accounted
      <4> QED
        BY <4>2, <4>3, <4>4, <3>0
    <3> QED
      BY <3>1, <3>2
  <2> QED
    BY <2>1 DEF HandledUpToCursor
<1> QED
  BY <1>2, <1>3, <1>4, <1>5 DEF SolInv, RangeOK

(* A candidate of a poll: whatever becomes of it, it stays accounted for.  *)
LEMMA Sol_Handles ==
    ASSUME SolInv, at \in {"handle", "alert", "mark"}, at' \in {"handle", "alert", "mark"},
           current' \in Key \cup {NoKey}, InHand' <=> current' # NoKey, current' \notin known',
           known \subseteq known', known' \subseteq Key, events' \subseteq events,
           \A n \in Signature : Accounted(n) => Accounted(n)',
           UNCHANGED <<anchor, start, newest, uncommitted, tip, confirmed>>
    PROVE  SolInv'
<1>1. SolTypes'
  BY DEF SolInv, SolTypes, InHand
<1>2. FirstRunOK'
  BY DEF SolInv, FirstRunOK, InPoll
<1>3. RangeOK'
  <2>1. ASSUME NEW p \in Program PROVE ReadOK(p)'
    <3>1. ReadOK(p)
      BY DEF SolInv, RangeOK, InPoll
    <3> QED
      BY <3>1 DEF ReadOK
  <2> QED
    BY <2>1 DEF RangeOK
<1>4. HandledUpToCursor'
  BY DEF SolInv, HandledUpToCursor
<1> QED
  BY <1>1, <1>2, <1>3, <1>4 DEF SolInv

LEMMA Sol_AlreadyKnown ==
    ASSUME SolInv, NEW n \in Signature, AlreadyKnown(n)
    PROVE  SolInv'
<1>1. /\ at = "handle" /\ KeyOf(n) \in known /\ events' = events \ {n}
      /\ UNCHANGED <<anchor, known, at, newest, uncommitted, current, tip, confirmed, start>>
  BY DEF AlreadyKnown, solStore, solChain, solHistory
<1>2. ASSUME NEW m \in Signature, Accounted(m) PROVE Accounted(m)'
  BY <1>1, <1>2 DEF Accounted
<1>3. current' \in Key \cup {NoKey} /\ (InHand' <=> current' # NoKey) /\ current' \notin known'
  BY <1>1 DEF SolInv, SolTypes, InHand
<1>4. known \subseteq known' /\ known' \subseteq Key
  BY <1>1 DEF SolInv, SolTypes
<1> QED
  BY <1>1, <1>2, <1>3, <1>4, Sol_Handles

LEMMA Sol_Quiet ==
    ASSUME SolInv, NEW n \in Signature, Quiet(n)
    PROVE  SolInv'
<1>1. /\ at = "handle" /\ n \in events
      /\ events' = events \ {n} /\ known' = known \cup {KeyOf(n)}
      /\ UNCHANGED <<anchor, at, newest, uncommitted, current, tip, confirmed, start>>
  BY DEF Quiet, Due, solChain, solHistory
<1>2. ASSUME NEW m \in Signature, Accounted(m) PROVE Accounted(m)'
  BY <1>1, <1>2 DEF Accounted
<1>3. current' \in Key \cup {NoKey} /\ (InHand' <=> current' # NoKey) /\ current' \notin known'
  <2>1. current = NoKey /\ ~InHand' /\ PoolOf[n] # NoPool
    BY <1>1 DEF SolInv, SolTypes, InHand
  <2> QED
    BY <1>1, <2>1, KeysOfEvents DEF SolInv, SolTypes
<1>4. known \subseteq known' /\ known' \subseteq Key
  BY <1>1, KeysOfEvents DEF SolInv, SolTypes
<1> QED
  BY <1>1, <1>2, <1>3, <1>4, Sol_Handles

LEMMA Sol_Alert ==
    ASSUME SolInv, NEW n \in Signature, Alert(n)
    PROVE  SolInv'
<1>1. /\ at = "handle" /\ n \in events /\ at' = "alert" /\ KeyOf(n) \notin known
      /\ events' = events \ {n} /\ current' = KeyOf(n)
      /\ UNCHANGED <<anchor, known, newest, uncommitted, tip, confirmed, start>>
  BY DEF Alert, Due, solStore, solChain, solHistory
<1>2. PoolOf[n] # NoPool /\ KeyOf(n) \in Key /\ KeyOf(n) # NoKey
  BY <1>1, KeysOfEvents DEF SolInv, SolTypes
<1>3. current = NoKey
  BY <1>1 DEF SolInv, SolTypes, InHand
<1>4. ASSUME NEW m \in Signature, Accounted(m) PROVE Accounted(m)'
  <2>1. CASE PoolOf[m] # NoPool
    <3>1. KeyOf(m) # current
      BY <1>3, <2>1, KeysOfEvents
    <3> QED
      BY <1>1, <1>4, <3>1 DEF Accounted
  <2> QED
    BY <2>1 DEF Accounted
<1>5. (InHand' <=> current' # NoKey) /\ current' \notin known'
  BY <1>1, <1>2 DEF InHand
<1>6. known \subseteq known' /\ known' \subseteq Key
  BY <1>1 DEF SolInv, SolTypes
<1> QED
  BY <1>1, <1>2, <1>4, <1>5, <1>6, Sol_Handles

(* An attempt to send, answered or not.                                    *)
LEMMA Sol_Sends == SolInv /\ (Message \/ MessageAckLost) => SolInv'
<1> SUFFICES ASSUME SolInv, Message \/ MessageAckLost PROVE SolInv'
  OBVIOUS
<1>1. /\ at = "alert" /\ at' \in {"alert", "mark"}
      /\ UNCHANGED <<anchor, known, newest, events, uncommitted, current, tip, confirmed, start>>
  BY DEF Message, MessageAckLost, solStore, solPoll, solChain
<1>2. ASSUME NEW m \in Signature, Accounted(m) PROVE Accounted(m)'
  BY <1>1, <1>2 DEF Accounted
<1>3. current' \in Key \cup {NoKey} /\ (InHand' <=> current' # NoKey) /\ current' \notin known'
  BY <1>1 DEF SolInv, SolTypes, InHand
<1>4. known \subseteq known' /\ known' \subseteq Key
  BY <1>1 DEF SolInv, SolTypes
<1> QED
  BY <1>1, <1>2, <1>3, <1>4, Sol_Handles

LEMMA Sol_Mark == SolInv /\ Mark => SolInv'
<1> SUFFICES ASSUME SolInv, Mark PROVE SolInv'
  OBVIOUS
<1>1. /\ at = "mark" /\ at' = "handle" /\ current' = NoKey
      /\ known' = known \cup {current}
      /\ UNCHANGED <<anchor, newest, events, uncommitted, tip, confirmed, start>>
  BY DEF Mark, solChain, solHistory
<1>2. current \in Key
  BY <1>1 DEF SolInv, SolTypes, InHand
<1>3. ASSUME NEW m \in Signature, Accounted(m) PROVE Accounted(m)'
  BY <1>1, <1>3 DEF Accounted
<1>4. known \subseteq known' /\ known' \subseteq Key
  BY <1>1, <1>2 DEF SolInv, SolTypes
<1>5. (InHand' <=> current' # NoKey) /\ current' \notin known'
  BY <1>1, <1>4, KeysOfEvents DEF InHand
<1> QED
  BY <1>1, <1>3, <1>4, <1>5, Sol_Handles

(* Every way a poll ends.                                                  *)
Ending ==
    \/ PollDone \/ SolRestart \/ TransactionMissing \/ SolWriteFails \/ SolCrash \/ SendThrows
    \/ NodeFails /\ node = "fallback"
    \/ \E p \in Program : AnchorRefused(p)
    \/ \E n \in Signature : AnalysisThrows(n)

LEMMA EndingEnds ==
    ASSUME Ending
    PROVE  /\ \E st \in {"idle", "down"} : Left(st)
           /\ UNCHANGED <<solStore, start, tip, confirmed>>
  BY DEF Ending, PollDone, SolRestart, TransactionMissing, SolWriteFails, SolCrash, NodeFails,
         Begin, AnchorRefused, AnalysisThrows, SendThrows, SolThrown, solChain, solHistory

(* The chain and the passing of time.                                      *)
LEMMA Sol_Outside ==
    ASSUME SolInv, NewSignature \/ NewSlot \/ Aging \/ UNCHANGED solVars
    PROVE  SolInv'
<1>1. UNCHANGED <<anchor, known, at, newest, events, uncommitted, current, start>>
  BY DEF NewSignature, NewSlot, Aging, solVars, solStore, solPoll, solHistory
<1>2. tip' \in 0 .. Signatures /\ confirmed' \in Nat
  BY Counts DEF NewSignature, NewSlot, Aging, solVars, solChain, SolInv, SolTypes
<1>3. SolTypes'
  BY <1>1, <1>2 DEF SolInv, SolTypes, InHand
<1>4. RangeOK' /\ FirstRunOK' /\ HandledUpToCursor'
  BY <1>1 DEF SolInv, RangeOK, ReadOK, Accounted, FirstRunOK, InPoll, HandledUpToCursor
<1> QED
  BY <1>3, <1>4 DEF SolInv

LEMMA Sol_Next == SolInv /\ [SolNext]_solVars => SolInv'
<1> SUFFICES ASSUME SolInv, [SolNext]_solVars PROVE SolInv'
  OBVIOUS
<1>1. CASE PollPrograms
  BY <1>1, Sol_Begins DEF PollPrograms, InHand
<1>2. CASE NodeFails /\ node # "fallback"
  BY <1>2, Sol_Begins DEF NodeFails, InHand
<1>3. CASE Ending
  BY <1>3, EndingEnds, Sol_Ends
<1>4. CASE SessionDone
  BY <1>4, Sol_SessionDone
<1>5. CASE Message \/ MessageAckLost \/ Mark
  BY <1>5, Sol_Sends, Sol_Mark
<1>6. CASE \E p \in Program : ReadAnchor(p) \/ Anchor(p) \/ ReadProgram(p) \/ CommitProgram(p)
  BY <1>6, Sol_ReadAnchor, Sol_Anchor, Sol_ReadProgram, Sol_Commit
<1>7. CASE \E n \in Signature : AlreadyKnown(n) \/ Quiet(n) \/ Alert(n)
  BY <1>7, Sol_AlreadyKnown, Sol_Quiet, Sol_Alert
<1>8. CASE NewSignature \/ NewSlot \/ Aging \/ UNCHANGED solVars
  BY <1>8, Sol_Outside
<1> QED
  BY <1>1, <1>2, <1>3, <1>4, <1>5, <1>6, <1>7, <1>8 DEF SolNext, SolStep, Ending

LEMMA Sol_Always == SolSpec => []SolInv
  BY Sol_Init, Sol_Next, PTL DEF SolSpec

-----------------------------------------------------------------------------
(***************************************************************************)
(* What follows.                                                           *)
(***************************************************************************)

(* The cursor of a program never passes an event that was not handled:     *)
(* reconcileProgram, and the order of handling and advanceProgramCursor.   *)
THEOREM SolanaCursorSafe == SolSpec => []HandledUpToCursor
<1>1. SolInv => HandledUpToCursor
  BY DEF SolInv
<1> QED
  BY <1>1, Sol_Always, PTL

(* The store never refuses the cursor of a poll that handled its           *)
(* candidates, whichever node answered (store.js, advanceProgramCursor).   *)
THEOREM SolanaCursorAccepted == SolSpec => []CursorAccepted
<1>1. SolInv => CursorAccepted
  <2> SUFFICES ASSUME SolInv, NEW p \in Program, at = "handle", newest[p] # 0, anchor[p] # 0
               PROVE  SlotOf[newest[p]] >= SlotOf[anchor[p]]
    BY DEF CursorAccepted, Accepted
  <2>1. ReadOK(p)
    BY DEF SolInv, RangeOK, InPoll
  <2>2. anchor[p] \in Signature
    BY Counts DEF SolInv, SolTypes
  <2>3. SlotOf[anchor[p]] >= SlotOf[anchor[p]]
    BY <2>2, SlotsRise, Counts
  <2> QED
    BY <2>1, <2>3 DEF ReadOK
<1> QED
  BY <1>1, Sol_Always, PTL

(* The anchors of a first run are taken before anything was handled        *)
(* (runner.js, the first poll), whatever happens in between.               *)
THEOREM SolanaHistoryOnce == SolSpec => HistoryOnlyOnce
<1>1. SolInv /\ [SolNext]_solVars => [start' # start => known = {}]_solVars
  <2> SUFFICES ASSUME SolInv, SolNext, start' # start PROVE known = {}
    OBVIOUS
  <2>1. PICK p \in Program : Anchor(p)
    <3>1. ASSUME Ending PROVE FALSE
      BY <3>1, EndingEnds
    <3> QED
      BY <3>1 DEF SolNext, SolStep, Ending, PollPrograms, NodeFails, Begin, SessionDone, Mark,
              ReadAnchor, ReadProgram, CommitProgram, AlreadyKnown, Quiet, Alert, Message,
              MessageAckLost, NewSignature, NewSlot, Aging, solHistory
  <2> QED
    BY <2>1 DEF Anchor, SolInv, FirstRunOK
<1> QED
  BY <1>1, Sol_Always, PTL DEF SolSpec, HistoryOnlyOnce

-----------------------------------------------------------------------------
(***************************************************************************)
(* The budget of messages.  A candidate whose message reached the chat and *)
(* that is neither marked nor about to be will be told again: it owes its  *)
(* next message to a fault that has happened, as every repetition does.    *)
(***************************************************************************)
Marking == IF at = "mark" THEN {current} ELSE {}
Owed == sent \ (known \cup Marking)

BudgetInv ==
    /\ IsFiniteSet(sent)
    /\ repeats \in Nat /\ mishaps \in Nat
    /\ repeats + Cardinality(Owed) <= mishaps

LEMMA OwedIsFinite ==
    ASSUME BudgetInv
    PROVE  IsFiniteSet(Owed) /\ Cardinality(Owed) \in Nat
<1>1. Owed \subseteq sent
  BY DEF Owed
<1> QED
  BY <1>1, FS_Subset, FS_CardinalityType DEF BudgetInv

LEMMA Budget_Init == SolInit => BudgetInv
<1> SUFFICES ASSUME SolInit PROVE BudgetInv
  OBVIOUS
<1>1. sent = {} /\ Owed = {} /\ repeats = 0 /\ mishaps = 0
  BY DEF SolInit, Owed
<1>2. IsFiniteSet({}) /\ Cardinality({}) = 0
  BY FS_EmptySet
<1> QED
  BY <1>1, <1>2 DEF BudgetInv

(* Steps that send nothing, and leave nobody unmarked.                     *)
LEMMA Budget_Keeps ==
    ASSUME BudgetInv, UNCHANGED solChat, mishaps' \in Nat, mishaps <= mishaps', Owed' \subseteq Owed
    PROVE  BudgetInv'
<1>1. IsFiniteSet(Owed) /\ Cardinality(Owed) \in Nat
  BY OwedIsFinite
<1>2. Cardinality(Owed') \in Nat /\ Cardinality(Owed') <= Cardinality(Owed)
  BY <1>1, FS_Subset, FS_CardinalityType
<1>3. UNCHANGED <<sent, repeats>>
  BY DEF solChat
<1> QED
  BY <1>1, <1>2, <1>3 DEF BudgetInv

(* A fault after which one more candidate is unmarked.                     *)
LEMMA Budget_Pays ==
    ASSUME BudgetInv, NEW k, sent' \subseteq sent \cup {k}, repeats' = repeats,
           mishaps' = mishaps + 1, Owed' \subseteq Owed \cup {k}
    PROVE  BudgetInv'
<1>1. IsFiniteSet(Owed) /\ Cardinality(Owed) \in Nat
  BY OwedIsFinite
<1>2. /\ IsFiniteSet(Owed \cup {k})
      /\ Cardinality(Owed \cup {k}) \in {Cardinality(Owed), Cardinality(Owed) + 1}
  BY <1>1, FS_AddElement
<1>3. Cardinality(Owed') \in Nat /\ Cardinality(Owed') <= Cardinality(Owed \cup {k})
  BY <1>2, FS_Subset, FS_CardinalityType
<1>4. IsFiniteSet(sent \cup {k})
  BY FS_AddElement DEF BudgetInv
<1>5. IsFiniteSet(sent')
  BY <1>4, FS_Subset
<1>6. repeats \in Nat /\ mishaps \in Nat /\ repeats + Cardinality(Owed) <= mishaps
  BY DEF BudgetInv
<1>7. repeats' + Cardinality(Owed') <= mishaps'
  BY <1>1, <1>2, <1>3, <1>6
<1> QED
  BY <1>5, <1>6, <1>7 DEF BudgetInv

(* An answered message.                                                    *)
LEMMA Budget_Message == SolInv /\ BudgetInv /\ Message => BudgetInv'
<1> SUFFICES ASSUME SolInv, BudgetInv, Message PROVE BudgetInv'
  OBVIOUS
<1>1. /\ at = "alert" /\ at' = "mark" /\ sent' = sent \cup {current}
      /\ repeats' = IF current \in sent THEN repeats + 1 ELSE repeats
      /\ UNCHANGED <<known, current, mishaps>>
  BY DEF Message, Delivered, solStore
<1>2. Owed = sent \ known /\ Owed' = sent \ (known \cup {current})
  BY <1>1 DEF Owed, Marking
<1>3. IsFiniteSet(Owed) /\ Cardinality(Owed) \in Nat
  BY OwedIsFinite
<1>4. IsFiniteSet(sent')
  BY <1>1, FS_AddElement DEF BudgetInv
<1>5. repeats \in Nat /\ mishaps \in Nat /\ repeats + Cardinality(Owed) <= mishaps
  BY DEF BudgetInv
<1>6. CASE current \notin sent
  <2>1. Owed' = Owed /\ repeats' = repeats
    BY <1>1, <1>2, <1>6
  <2> QED
    BY <2>1, <1>1, <1>4, <1>5 DEF BudgetInv
<1>7. CASE current \in sent
  <2>1. current \notin known
    BY <1>1 DEF SolInv, SolTypes, InHand
  <2>2. current \in Owed /\ Owed' = Owed \ {current}
    BY <1>2, <1>7, <2>1
  <2>3. Cardinality(Owed') = Cardinality(Owed) - 1
    BY <1>3, <2>2, FS_RemoveElement
  <2>4. repeats' = repeats + 1
    BY <1>1, <1>7
  <2>5. repeats' + Cardinality(Owed') <= mishaps'
    BY <1>1, <1>3, <1>5, <2>3, <2>4
  <2> QED
    BY <1>1, <1>4, <1>5, <2>4, <2>5 DEF BudgetInv
<1> QED
  BY <1>6, <1>7

(* A message whose answer is lost.                                         *)
LEMMA Budget_AckLost == BudgetInv /\ MessageAckLost => BudgetInv'
<1> SUFFICES ASSUME BudgetInv, MessageAckLost PROVE BudgetInv'
  OBVIOUS
<1>1. /\ at = "alert" /\ sent' = sent \cup {current} /\ mishaps' = mishaps + 1
      /\ repeats' = IF current \in sent THEN repeats + 1 ELSE repeats
      /\ UNCHANGED <<at, known, current>>
  BY DEF MessageAckLost, Delivered, Mishap, solStore, solPoll
<1>2. Owed = sent \ known /\ Owed' = sent' \ known
  BY <1>1 DEF Owed, Marking
<1>3. CASE current \notin sent
  <2>1. Owed' \subseteq Owed \cup {current} /\ sent' \subseteq sent \cup {current} /\ repeats' = repeats
    BY <1>1, <1>2, <1>3
  <2> QED
    BY <2>1, <1>1, Budget_Pays
<1>4. CASE current \in sent
  <2>1. sent' = sent /\ repeats' = repeats + 1
    BY <1>1, <1>4
  <2>2. Owed' = Owed
    BY <1>2, <2>1
  <2>3. repeats \in Nat /\ mishaps \in Nat /\ repeats + Cardinality(Owed) <= mishaps
    BY DEF BudgetInv
  <2>4. Cardinality(Owed) \in Nat
    BY OwedIsFinite
  <2>5. repeats' + Cardinality(Owed') <= mishaps'
    BY <1>1, <2>1, <2>2, <2>3, <2>4
  <2> QED
    BY <1>1, <2>1, <2>3, <2>5 DEF BudgetInv
<1> QED
  BY <1>3, <1>4

LEMMA Budget_Next == SolInv /\ BudgetInv /\ [SolNext]_solVars => BudgetInv'
<1> SUFFICES ASSUME SolInv, BudgetInv, [SolNext]_solVars PROVE BudgetInv'
  OBVIOUS
<1>0. mishaps \in Nat
  BY DEF BudgetInv
<1>1. CASE Message \/ MessageAckLost
  BY <1>1, Budget_Message, Budget_AckLost
<1>2. CASE NodeFails \/ TransactionMissing \/ SolWriteFails \/ SolCrash
  <2>1. UNCHANGED <<known, solChat>> /\ mishaps' = mishaps + 1
    BY <1>2 DEF NodeFails, TransactionMissing, SolWriteFails, SolCrash, Mishap, Begin, solStore
  <2>2. Owed' \subseteq Owed \cup {current}
    BY <2>1 DEF Owed, Marking, solChat
  <2>3. sent' \subseteq sent \cup {current} /\ repeats' = repeats
    BY <2>1 DEF solChat
  <2> QED
    BY <2>1, <2>2, <2>3, Budget_Pays
<1>3. CASE \/ PollDone \/ SolRestart \/ SendThrows
           \/ \E p \in Program : AnchorRefused(p) \/ ReadProgram(p)
           \/ \E n \in Signature : AnalysisThrows(n)
  <2>1. UNCHANGED <<known, solChat, mishaps>> /\ at # "mark"
    BY <1>3 DEF PollDone, SolRestart, SendThrows, AnchorRefused, ReadProgram, AnalysisThrows,
            solStore, solHistory
  <2>2. Owed' \subseteq Owed
    BY <2>1 DEF Owed, Marking, solChat
  <2> QED
    BY <1>0, <2>1, <2>2, Budget_Keeps
<1>4. CASE \/ PollPrograms \/ SessionDone \/ NewSignature \/ NewSlot \/ Aging \/ UNCHANGED solVars
           \/ \E p \in Program : ReadAnchor(p) \/ Anchor(p) \/ CommitProgram(p)
           \/ \E n \in Signature : AlreadyKnown(n) \/ Quiet(n) \/ Alert(n)
  <2>1. UNCHANGED <<solChat, mishaps>> /\ known \subseteq known'
    BY <1>4 DEF PollPrograms, Begin, SessionDone, NewSignature, NewSlot, Aging, ReadAnchor, Anchor,
            CommitProgram, Committed, AlreadyKnown, Quiet, Alert, solVars, solStore, solHistory
  <2>2. at # "mark" \/ UNCHANGED <<at, current>>
    BY <1>4 DEF PollPrograms, SessionDone, NewSignature, NewSlot, Aging, ReadAnchor, Anchor,
            CommitProgram, AlreadyKnown, Quiet, Alert, solVars, solPoll
  <2>3. Owed' \subseteq Owed
    BY <2>1, <2>2 DEF Owed, Marking, solChat
  <2> QED
    BY <1>0, <2>1, <2>3, Budget_Keeps
<1>5. CASE Mark
  <2>1. UNCHANGED <<solChat, mishaps>> /\ at = "mark" /\ known' = known \cup {current}
    BY <1>5 DEF Mark, solHistory
  <2>2. Owed' \subseteq Owed
    BY <2>1 DEF Owed, Marking, solChat
  <2> QED
    BY <1>0, <2>1, <2>2, Budget_Keeps
<1> QED
  BY <1>1, <1>2, <1>3, <1>4, <1>5 DEF SolNext, SolStep

(* A candidate, the pool of one program, has one message, and each further *)
(* one, of any candidate, is paid for by a fault of its own (hasSeen by    *)
(* candidateKey before the analysis, markSeen after the message).  A pool  *)
(* two programs announce is two candidates.                                *)
THEOREM SolanaMessageBudget == SolSpec => []MessageBudget
<1>1. BudgetInv => MessageBudget
  <2> SUFFICES ASSUME BudgetInv PROVE repeats <= mishaps
    BY DEF MessageBudget
  <2>1. Cardinality(Owed) \in Nat
    BY OwedIsFinite
  <2> QED
    BY <2>1 DEF BudgetInv
<1> QED
  BY <1>1, Sol_Always, Budget_Init, Budget_Next, PTL DEF SolSpec
=============================================================================
