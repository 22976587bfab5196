---------------------------- MODULE ChainReading ----------------------------
(***************************************************************************)
(* How the Robinhood watch reads the chain: the binary search for the      *)
(* first block inside the age window (findFirstBlockAtOrAfter), the first  *)
(* cursor taken from it (initialOnchainCursor), and the reading of the     *)
(* logs behind the cursor, range by range, in windows a node may refuse    *)
(* as too wide (getLogsChunked), for several factories at once             *)
(* (scanOnchain).                                                          *)
(*                                                                         *)
(* Timestamps never fall from one block to the next (a property of the     *)
(* chain), so the test of the search is true from some block on: boundary. *)
(* A request that fails for good has failed in every try of withRetry.     *)
(***************************************************************************)
EXTENDS Integers, Sequences

CONSTANTS
    Factory,        \* the contracts whose logs scanOnchain reads in parallel
    SafeHead,           \* the safe head, fixed
    Chunk,          \* blocks of a window (getLogsChunked's chunk)
    RangeBlocks,    \* blocks of a range (ONCHAIN_SCAN_CHUNK_BLOCKS)
    MaxFaults       \* bound: requests that fail for good

ASSUME ReadingAssumption ==
    /\ SafeHead \in Nat
    /\ Chunk \in Nat \ {0}
    /\ RangeBlocks \in Nat \ {0}
    /\ MaxFaults \in Nat

VARIABLES
    boundary,       \* the first block inside the age window, SafeHead + 1 for none
    stage,          \* what the loop is doing
    low, high, first,   \* the search
    cursor,         \* cursors.onchain, -1 for null
    to,             \* the last block of the range being read
    frames,         \* per factory: the call stack of getLogsChunked, innermost last
    out,            \* per factory: the windows answered for this range, in order
    handled,        \* history: blocks whose candidates were handled
    faults          \* requests that failed for good

searchVars == <<low, high, first>>
rangeVars == <<to, frames, out>>
vars == <<boundary, stage, searchVars, cursor, rangeVars, handled, faults>>

Smaller(a, b) == IF a < b THEN a ELSE b
Larger(a, b) == IF a > b THEN a ELSE b

Window == [start : Nat, end : Nat]
Frame == [start : Nat, to : Nat, chunk : Nat \ {0}]
Stage == {"idle", "search", "logs"}

(* The cursor a search that ended at block b asks for.                     *)
CursorBefore(b) == Smaller(SafeHead, Larger(-1, b - 1))

TypeOK ==
    /\ boundary \in 0 .. SafeHead + 1
    /\ stage \in Stage
    /\ low \in 0 .. SafeHead + 1
    /\ high \in -1 .. SafeHead
    /\ first \in 0 .. SafeHead
    /\ cursor \in -1 .. SafeHead
    /\ to \in 0 .. SafeHead
    /\ frames \in [Factory -> Seq(Frame)]
    /\ out \in [Factory -> Seq(Window)]
    /\ handled \subseteq 0 .. SafeHead
    /\ faults \in 0 .. MaxFaults

Init ==
    /\ boundary \in 0 .. SafeHead + 1
    /\ stage = "idle"
    /\ low = 0 /\ high = SafeHead /\ first = SafeHead
    /\ cursor = -1
    /\ to = 0
    /\ frames = [f \in Factory |-> <<>>]
    /\ out = [f \in Factory |-> <<>>]
    /\ handled = {}
    /\ faults = 0

-----------------------------------------------------------------------------
(* The search.                                                             *)

StartSearch ==
    /\ stage = "idle" /\ cursor = -1
    /\ stage' = "search"
    /\ low' = 0 /\ high' = SafeHead /\ first' = SafeHead
    /\ UNCHANGED <<boundary, cursor, rangeVars, faults, handled>>

(* Mutant: the block after the probed one is left out.                     *)
ProbeKeepsLow ==
    /\ stage = "search" /\ low <= high
    /\ LET b == (low + high) \div 2 IN
         IF b >= boundary
         THEN first' = b /\ high' = b - 1 /\ UNCHANGED low
         ELSE low' = b + 2 /\ UNCHANGED <<high, first>>
    /\ UNCHANGED <<boundary, stage, cursor, rangeVars, faults, handled>>

(* One block is read and the interval is halved.                           *)
Probe ==
    /\ stage = "search" /\ low <= high
    /\ LET b == (low + high) \div 2 IN
         IF b >= boundary
         THEN first' = b /\ high' = b - 1 /\ UNCHANGED low
         ELSE low' = b + 1 /\ UNCHANGED <<high, first>>
    /\ UNCHANGED <<boundary, stage, cursor, rangeVars, faults, handled>>

-----------------------------------------------------------------------------
(* The reading of a range.                                                 *)

(* The loop goes on behind block c: one call of getLogsChunked for each    *)
(* factory.                                                                *)
ReadBehind(c) ==
    LET last == Smaller(SafeHead, c + RangeBlocks) IN
    /\ stage' = "logs"
    /\ to' = last
    /\ frames' = [f \in Factory |-> <<[start |-> c + 1, to |-> last, chunk |-> Chunk]>>]
    /\ out' = [f \in Factory |-> <<>>]

(* The search is over: its cursor is written, unless it is before the      *)
(* first block, and the first range begins.                                *)
Found ==
    /\ stage = "search" /\ low > high
    /\ cursor' = CursorBefore(first)
    /\ ReadBehind(CursorBefore(first))
    /\ UNCHANGED <<boundary, searchVars, faults, handled>>

StartRange ==
    /\ stage = "idle" /\ cursor \in 0 .. SafeHead - 1
    /\ ReadBehind(cursor)
    /\ UNCHANGED <<boundary, searchVars, cursor, faults, handled>>

Innermost(fs) == fs[Len(fs)]
WindowEnd(fr) == Smaller(fr.start + fr.chunk - 1, fr.to)

(* What becomes of the calls: the innermost one returns, or goes on behind *)
(* its window.                                                             *)
Returned(fs) == SubSeq(fs, 1, Len(fs) - 1)
Onward(fs) == [fs EXCEPT ![Len(fs)].start = WindowEnd(Innermost(fs)) + 1]

Reading(f) == stage = "logs" /\ frames[f] # <<>>
AtWindow(f) == Reading(f) /\ Innermost(frames[f]).start <= Innermost(frames[f]).to

(* The innermost call has read its last window.                            *)
Return(f) ==
    /\ Reading(f) /\ ~AtWindow(f)
    /\ frames' = [frames EXCEPT ![f] = Returned(@)]
    /\ UNCHANGED <<boundary, stage, searchVars, cursor, to, out, handled, faults>>

(* The node answers.                                                       *)
Answered(fs) == [start |-> Innermost(fs).start, end |-> WindowEnd(Innermost(fs))]

Answer(f) ==
    /\ AtWindow(f)
    /\ out' = [out EXCEPT ![f] = Append(@, Answered(frames[f]))]
    /\ frames' = [frames EXCEPT ![f] = Onward(@)]
    /\ UNCHANGED <<boundary, stage, searchVars, cursor, to, handled, faults>>

(* The two calls that replace a refused window [s .. e], the left one run  *)
(* first.  Mutant: the right half begins at the middle.                    *)
HalvesFromMiddle(s, e) ==
    LET mid == (s + e) \div 2
        half == Larger(1, (e - s + 1) \div 2)
    IN << [start |-> mid, to |-> e, chunk |-> half],
          [start |-> s, to |-> mid, chunk |-> half] >>

Halves(s, e) ==
    LET mid == (s + e) \div 2
        half == Larger(1, (e - s + 1) \div 2)
    IN << [start |-> mid + 1, to |-> e, chunk |-> half],
          [start |-> s, to |-> mid, chunk |-> half] >>

(* The node refuses the window as too wide: it is read in two halves.      *)
Split(fs) == Onward(fs) \o Halves(Innermost(fs).start, WindowEnd(Innermost(fs)))

Refuse(f) ==
    /\ AtWindow(f) /\ WindowEnd(Innermost(frames[f])) > Innermost(frames[f]).start
    /\ frames' = [frames EXCEPT ![f] = Split(@)]
    /\ UNCHANGED <<boundary, stage, searchVars, cursor, to, out, handled, faults>>

(* The blocks whose logs every factory's answers hold.                     *)
AnsweredByAll ==
    {b \in 0 .. SafeHead : \A f \in Factory :
        \E i \in 1 .. Len(out[f]) : b \in out[f][i].start .. out[f][i].end}

(* Every factory is read and every event has its time: the candidates are  *)
(* handled and the cursor is written.  Mutant: one factory is enough.      *)
EndRangeEarly ==
    /\ stage = "logs" /\ \E f \in Factory : frames[f] = <<>>
    /\ stage' = "idle"
    /\ cursor' = to
    /\ handled' = handled \cup AnsweredByAll
    /\ UNCHANGED <<boundary, searchVars, rangeVars, faults>>

(* Mutant: the range ends without writing the cursor.                      *)
EndRangeUnsaved ==
    /\ stage = "logs" /\ \A f \in Factory : frames[f] = <<>>
    /\ stage' = "idle"
    /\ handled' = handled \cup AnsweredByAll
    /\ UNCHANGED <<boundary, searchVars, cursor, rangeVars, faults>>

EndRange ==
    /\ stage = "logs" /\ \A f \in Factory : frames[f] = <<>>
    /\ stage' = "idle"
    /\ cursor' = to
    /\ handled' = handled \cup AnsweredByAll
    /\ UNCHANGED <<boundary, searchVars, rangeVars, faults>>

(* A request fails for good, of the search or of any factory, or the       *)
(* single block of a window is refused: what was read is thrown away, and  *)
(* the next poll begins again behind the cursor.                           *)
Fail ==
    /\ stage # "idle" /\ faults < MaxFaults
    /\ stage' = "idle"
    /\ faults' = faults + 1
    /\ frames' = [f \in Factory |-> <<>>]
    /\ out' = [f \in Factory |-> <<>>]
    /\ UNCHANGED <<boundary, searchVars, cursor, to, handled>>

Next ==
    \/ StartSearch \/ Probe \/ Found \/ StartRange \/ EndRange \/ Fail
    \/ \E f \in Factory : Return(f) \/ Answer(f) \/ Refuse(f)

Spec == Init /\ [][Next]_vars

(* The loop polls again after its sleep, whatever the poll came to.        *)
FairSpec == Spec /\ WF_vars(Next)

-----------------------------------------------------------------------------
(* The search ends at the first block of the age window, or at the head    *)
(* when the window has no block (findFirstBlockAtOrAfter's return value).  *)
SearchFindsFirst ==
    stage = "search" /\ low > high => first = Smaller(boundary, SafeHead)

(* The windows of a sequence follow each other without a gap or an overlap.*)
Contiguous(ws) ==
    \A i \in 1 .. Len(ws) :
        /\ ws[i].start <= ws[i].end
        /\ i < Len(ws) => ws[i + 1].start = ws[i].end + 1

(* While a range is read, the windows answered so far are the blocks       *)
(* behind the cursor, each once and in order, whatever was refused.        *)
EachBlockOnce ==
    \A f \in Factory : stage = "logs" =>
        /\ Contiguous(out[f])
        /\ out[f] # <<>> => out[f][1].start = cursor + 1

(* A block of the age window at or below the cursor has been handled with  *)
(* the logs of every factory: neither the search nor a refused window, a   *)
(* failed request or a range given up makes the cursor skip one.           *)
NothingSkipped == \A b \in boundary .. cursor : b \in handled

(* The strengthening that makes these inductive.  The interval still to be *)
(* searched ends where the answer begins; the windows answered and the     *)
(* calls still open tile the range.                                        *)
SearchInv == stage = "search" =>
    /\ low <= high + 1 /\ low <= boundary
    /\ \/ first = SafeHead /\ high = SafeHead
       \/ first >= boundary /\ high = first - 1

NextBlock(ws, a) == IF ws = <<>> THEN a ELSE ws[Len(ws)].end + 1

(* The windows ws and what the open calls fs have left tile a .. b.        *)
Tiles(ws, fs, a, b) ==
    /\ Contiguous(ws)
    /\ ws # <<>> => ws[1].start = a
    /\ a <= NextBlock(ws, a)
    /\ \A n \in a .. NextBlock(ws, a) - 1 :
         \E i \in 1 .. Len(ws) : n \in ws[i].start .. ws[i].end
    /\ fs = <<>> => NextBlock(ws, a) = b + 1
    /\ fs # <<>> => Innermost(fs).start = NextBlock(ws, a) /\ fs[1].to = b
    /\ \A i \in 1 .. Len(fs) :
         /\ fs[i].start <= fs[i].to + 1
         /\ i > 1 => fs[i - 1].start = fs[i].to + 1

RangeInv == stage = "logs" =>
    /\ cursor < to
    /\ \A f \in Factory : Tiles(out[f], frames[f], cursor + 1, to)

IInv == TypeOK /\ SearchInv /\ RangeInv /\ NothingSkipped

(* The loop catches up with the head, however windows are refused.         *)
CatchesUp == <>(cursor = SafeHead)
=============================================================================
