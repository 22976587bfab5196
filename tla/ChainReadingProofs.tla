-------------------------- MODULE ChainReadingProofs --------------------------
(***************************************************************************)
(* Proofs about ChainReading, for every head, chunk, range and set of      *)
(* factories.                                                              *)
(***************************************************************************)
EXTENDS ChainReading, SequenceTheorems, TLAPS

(***************************************************************************)
(* The calls of getLogsChunked.                                            *)
(***************************************************************************)
LEMMA WindowEnd_In ==
    ASSUME NEW fr \in Frame, fr.start <= fr.to
    PROVE  /\ WindowEnd(fr) \in Nat
           /\ fr.start <= WindowEnd(fr)
           /\ WindowEnd(fr) <= fr.to
  BY DEF Frame, WindowEnd, Smaller

LEMMA Tiles_Return ==
    ASSUME NEW ws \in Seq(Window), NEW fs \in Seq(Frame), fs # <<>>,
           NEW a \in Nat, NEW b \in Nat, Tiles(ws, fs, a, b),
           ~(Innermost(fs).start <= Innermost(fs).to)
    PROVE  /\ Returned(fs) \in Seq(Frame)
           /\ Tiles(ws, Returned(fs), a, b)
<1> DEFINE gs == Returned(fs)
<1> PICK n \in Nat \ {0} : n = Len(fs)
  OBVIOUS
<1>0. n \in Nat \ {0} /\ \A i \in 1 .. n : fs[i] \in Frame
  OBVIOUS
<1>1. n \in Nat \ {0} /\ Len(gs) = n - 1 /\ gs \in Seq(Frame)
  <2>1. /\ SubSeq(fs, 1, n - 1) \in Seq(Frame)
        /\ Len(SubSeq(fs, 1, n - 1)) = IF 1 <= n - 1 THEN n - 1 - 1 + 1 ELSE 0
    BY <1>0, SubSeqProperties
  <2>2. gs = SubSeq(fs, 1, n - 1) BY DEF Returned
  <2>3. Len(SubSeq(fs, 1, n - 1)) = n - 1 BY <2>1, <1>0
  <2> HIDE DEF gs
  <2> QED BY <2>1, <2>2, <2>3, <1>0
<1>2. \A i \in 1 .. n - 1 : gs[i] = fs[i]
  <2>1. \A i \in 1 .. n - 1 - 1 + 1 : gs[i] = fs[1 + i - 1]
    BY <1>0, SubSeqProperties DEF Returned
  <2> QED BY <2>1, <1>0
<1>3. fs[n] \in Frame /\ fs[n].start = fs[n].to + 1
  <2>1. fs[n] \in Frame BY <1>0
  <2>2. fs[n].start \in Nat /\ fs[n].to \in Nat BY <2>1 DEF Frame
  <2>3. fs[n].start <= fs[n].to + 1 BY <1>0 DEF Tiles
  <2>4. ~(fs[n].start <= fs[n].to) BY DEF Innermost
  <2> QED BY <2>1, <2>2, <2>3, <2>4
<1>4. CASE n = 1
  <2>1. gs = <<>> BY <1>1, <1>4
  <2>2. fs[1].start = NextBlock(ws, a) /\ fs[1].to = b
    BY <1>4 DEF Tiles, Innermost
  <2>3. NextBlock(ws, a) = b + 1
    BY <2>2, <1>3, <1>4
  <2> QED BY <2>1, <2>3, <1>1 DEF Tiles
<1>5. CASE n > 1
  <2>1. gs # <<>> /\ Innermost(gs) = fs[n - 1] /\ gs[1] = fs[1]
    BY <1>1, <1>2, <1>5 DEF Innermost
  <2>2. fs[n - 1].start = NextBlock(ws, a)
    BY <1>1, <1>3, <1>5 DEF Tiles, Innermost
  <2>3. gs[1].to = b BY <2>1 DEF Tiles
  <2>4. ASSUME NEW i \in 1 .. Len(gs)
        PROVE  /\ gs[i].start <= gs[i].to + 1
               /\ i > 1 => gs[i - 1].start = gs[i].to + 1
    <3> HIDE DEF gs
    <3>1. i \in 1 .. n - 1 /\ gs[i] = fs[i] BY <1>1, <1>2
    <3>2. i > 1 => gs[i - 1] = fs[i - 1] BY <1>1, <1>2
    <3> QED BY <3>1, <3>2, <1>1 DEF Tiles
  <2> HIDE DEF gs
  <2>5. gs \in Seq(Frame) /\ Tiles(ws, gs, a, b)
    BY <2>1, <2>2, <2>3, <2>4, <1>1 DEF Tiles
  <2> QED BY <2>5 DEF gs
<1> QED
  <2>0. n = 1 \/ n > 1 BY <1>0, SMT
  <2> QED BY <2>0, <1>4, <1>5

LEMMA Onward_Typed ==
    ASSUME NEW fs \in Seq(Frame), fs # <<>>, Innermost(fs).start <= Innermost(fs).to
    PROVE  /\ Onward(fs) \in Seq(Frame)
           /\ Len(Onward(fs)) = Len(fs)
           /\ \A i \in 1 .. Len(fs) - 1 : Onward(fs)[i] = fs[i]
           /\ Onward(fs)[Len(fs)] = [Innermost(fs) EXCEPT !.start = WindowEnd(Innermost(fs)) + 1]
<1>1. Len(fs) \in Nat \ {0} /\ Innermost(fs) \in Frame
  BY DEF Innermost
<1>2. [Innermost(fs) EXCEPT !.start = WindowEnd(Innermost(fs)) + 1] \in Frame
  <2>1. WindowEnd(Innermost(fs)) + 1 \in Nat BY <1>1, WindowEnd_In
  <2> QED BY <2>1, <1>1 DEF Frame
<1> QED BY <1>1, <1>2 DEF Onward, Innermost

LEMMA Tiles_Answer ==
    ASSUME NEW ws \in Seq(Window), NEW fs \in Seq(Frame), fs # <<>>,
           NEW a \in Nat, NEW b \in Nat, Tiles(ws, fs, a, b),
           Innermost(fs).start <= Innermost(fs).to
    PROVE  /\ Append(ws, Answered(fs)) \in Seq(Window)
           /\ Tiles(Append(ws, Answered(fs)), Onward(fs), a, b)
<1> DEFINE n == Len(fs)
           fr == Innermost(fs)
           e == WindowEnd(fr)
           w == Answered(fs)
           vs == Append(ws, w)
           gs == Onward(fs)
<1>1. n \in Nat \ {0} /\ fr \in Frame /\ fr = fs[n]
  BY DEF Innermost
<1>2. e \in Nat /\ fr.start <= e /\ e <= fr.to /\ fr.start \in Nat /\ fr.to \in Nat
  BY <1>1, WindowEnd_In DEF Frame
<1>3. w \in Window /\ w.start = fr.start /\ w.end = e
  BY <1>2 DEF Answered, Window
<1>4. /\ vs \in Seq(Window) /\ Len(vs) = Len(ws) + 1 /\ Len(ws) \in Nat
      /\ vs[Len(ws) + 1] = w /\ \A i \in 1 .. Len(ws) : vs[i] = ws[i]
  BY <1>3
<1>5. NextBlock(vs, a) = e + 1 /\ fr.start = NextBlock(ws, a)
  <2>1. vs # <<>> /\ vs[Len(vs)].end = e BY <1>3, <1>4
  <2>2. NextBlock(vs, a) = e + 1 BY <2>1 DEF NextBlock
  <2>3. fr.start = NextBlock(ws, a) BY DEF Tiles
  <2> QED BY <2>2, <2>3
<1>6. Contiguous(vs)
  <2> SUFFICES ASSUME NEW i \in 1 .. Len(vs)
               PROVE  /\ vs[i].start <= vs[i].end
                      /\ i < Len(vs) => vs[i + 1].start = vs[i].end + 1
    BY DEF Contiguous
  <2>1. CASE i = Len(ws) + 1
    BY <2>1, <1>2, <1>3, <1>4
  <2>2. CASE i = Len(ws)
    <3>1. ws # <<>> /\ ws[i] \in Window BY <2>2, <1>4
    <3>2. fr.start = ws[i].end + 1 BY <3>1, <2>2, <1>5 DEF NextBlock
    <3> QED BY <3>1, <3>2, <2>2, <1>3, <1>4 DEF Tiles, Contiguous
  <2>3. CASE i < Len(ws)
    BY <2>3, <1>4 DEF Tiles, Contiguous
  <2> QED BY <2>1, <2>2, <2>3, <1>4
<1>7. vs # <<>> /\ vs[1].start = a
  <2>1. CASE ws = <<>> BY <2>1, <1>3, <1>4, <1>5 DEF NextBlock
  <2>2. CASE ws # <<>> BY <2>2, <1>4 DEF Tiles
  <2> QED BY <2>1, <2>2, <1>4
<1>8. ASSUME NEW m \in a .. NextBlock(vs, a) - 1
      PROVE  \E i \in 1 .. Len(vs) : m \in vs[i].start .. vs[i].end
  <2>0. NextBlock(ws, a) \in Nat BY <1>5, <1>2
  <2>1. CASE m \in a .. NextBlock(ws, a) - 1
    <3>1. PICK i \in 1 .. Len(ws) : m \in ws[i].start .. ws[i].end
      BY <2>1 DEF Tiles
    <3> QED BY <3>1, <1>4
  <2>2. CASE m \in NextBlock(ws, a) .. e
    BY <2>2, <1>3, <1>4, <1>5
  <2> QED BY <2>0, <2>1, <2>2, <1>5, <1>2
<1>9. /\ gs \in Seq(Frame) /\ Len(gs) = n /\ gs # <<>>
      /\ \A i \in 1 .. n - 1 : gs[i] = fs[i]
      /\ gs[n] = [fr EXCEPT !.start = e + 1]
  BY <1>1, Onward_Typed
<1>10. gs[n].start = e + 1 /\ gs[n].to = fr.to
  BY <1>1, <1>9 DEF Frame
<1> HIDE DEF n, fr, e, gs, vs, w
<1>11. Innermost(gs).start = NextBlock(vs, a)
  BY <1>5, <1>9, <1>10 DEF Innermost, n
<1>12. gs[1].to = b
  <2>1. fs[1].to = b BY DEF Tiles
  <2>2. CASE n = 1 BY <2>1, <2>2, <1>1, <1>10
  <2>3. CASE n > 1
    <3>1. 1 \in 1 .. n - 1 BY <2>3, <1>1
    <3>2. gs[1] = fs[1] BY <3>1, <1>9
    <3> QED BY <3>2, <2>1
  <2>4. n = 1 \/ n > 1 BY <1>1
  <2> QED BY <2>2, <2>3, <2>4
<1>13. ASSUME NEW i \in 1 .. Len(gs)
       PROVE  /\ gs[i].start <= gs[i].to + 1
              /\ i > 1 => gs[i - 1].start = gs[i].to + 1
  <2>1. /\ fs[i].start <= fs[i].to + 1
        /\ i > 1 => fs[i - 1].start = fs[i].to + 1
    BY <1>9 DEF Tiles, n
  <2>2. CASE i = n BY <2>1, <2>2, <1>1, <1>2, <1>9, <1>10
  <2>3. CASE i < n
    <3>1. gs[i] = fs[i] BY <2>3, <1>1, <1>9
    <3>2. ASSUME i > 1 PROVE gs[i - 1] = fs[i - 1]
      <4>1. i - 1 \in 1 .. n - 1 BY <3>2, <2>3, <1>1, <1>9
      <4> QED BY <4>1, <1>9
    <3> QED BY <3>1, <3>2, <2>1
  <2> QED BY <2>2, <2>3, <1>1, <1>9
<1>14. a <= NextBlock(vs, a)
  BY <1>2, <1>5 DEF Tiles
<1> QED BY <1>4, <1>6, <1>7, <1>8, <1>9, <1>11, <1>12, <1>13, <1>14 DEF Tiles, vs, gs, w

LEMMA Halves_Tile ==
    ASSUME NEW s \in Nat, NEW e \in Nat, s < e
    PROVE  /\ Halves(s, e) \in Seq(Frame)
           /\ Len(Halves(s, e)) = 2
           /\ Halves(s, e)[2].start = s
           /\ Halves(s, e)[1].start = Halves(s, e)[2].to + 1
           /\ Halves(s, e)[1].to = e
           /\ Halves(s, e)[1].start <= e
           /\ s <= Halves(s, e)[2].to
<1> DEFINE mid == (s + e) \div 2
           half == Larger(1, (e - s + 1) \div 2)
<1>1. mid \in Nat /\ s <= mid /\ mid < e
  OBVIOUS
<1>2. half \in Nat \ {0}
  BY DEF Larger
<1> HIDE DEF mid, half
<1>3. Halves(s, e) = << [start |-> mid + 1, to |-> e, chunk |-> half],
                        [start |-> s, to |-> mid, chunk |-> half] >>
  BY DEF Halves, mid, half
<1>4. /\ [start |-> mid + 1, to |-> e, chunk |-> half] \in Frame
      /\ [start |-> s, to |-> mid, chunk |-> half] \in Frame
  BY <1>1, <1>2 DEF Frame
<1> QED BY <1>1, <1>3, <1>4

LEMMA Tiles_Split ==
    ASSUME NEW ws \in Seq(Window), NEW fs \in Seq(Frame), fs # <<>>,
           NEW a \in Nat, NEW b \in Nat, Tiles(ws, fs, a, b),
           WindowEnd(Innermost(fs)) > Innermost(fs).start,
           Innermost(fs).start <= Innermost(fs).to
    PROVE  /\ Split(fs) \in Seq(Frame)
           /\ Tiles(ws, Split(fs), a, b)
<1> DEFINE fr == Innermost(fs)
           e == WindowEnd(fr)
           on == Onward(fs)
           hs == Halves(fr.start, e)
           gs == Split(fs)
<1> PICK n \in Nat \ {0} : n = Len(fs)
  OBVIOUS
<1>1. fr \in Frame /\ fr = fs[n]
  BY DEF Innermost
<1>2. e \in Nat /\ fr.start < e /\ e <= fr.to /\ fr.start \in Nat /\ fr.to \in Nat
  BY <1>1, WindowEnd_In DEF Frame
<1>3. /\ hs \in Seq(Frame) /\ Len(hs) = 2
      /\ hs[2].start = fr.start /\ hs[1].start = hs[2].to + 1 /\ hs[1].to = e
      /\ hs[1].start <= e /\ fr.start <= hs[2].to
  BY <1>2, Halves_Tile
<1>4. /\ on \in Seq(Frame) /\ Len(on) = n
      /\ \A i \in 1 .. n - 1 : on[i] = fs[i]
      /\ on[n].start = e + 1 /\ on[n].to = fr.to
  BY <1>1, Onward_Typed DEF Frame
<1>5. gs = on \o hs
  BY DEF Split
<1> HIDE DEF fr, e, on, hs, gs
<1>6. /\ gs \in Seq(Frame) /\ Len(gs) = n + 2
      /\ \A i \in 1 .. n : gs[i] = on[i]
      /\ gs[n + 1] = hs[1] /\ gs[n + 2] = hs[2]
  <2>0. on \in Seq(Frame) /\ hs \in Seq(Frame) /\ Len(on) = n /\ Len(hs) = 2
    BY <1>3, <1>4
  <2>1. /\ on \o hs \in Seq(Frame)
        /\ Len(on \o hs) = Len(on) + Len(hs)
        /\ \A i \in 1 .. Len(on) + Len(hs) :
             (on \o hs)[i] = IF i <= Len(on) THEN on[i] ELSE hs[i - Len(on)]
    BY <2>0, ConcatProperties
  <2>2. Len(gs) = n + 2 /\ \A i \in 1 .. n + 2 : gs[i] = IF i <= n THEN on[i] ELSE hs[i - n]
    BY <2>0, <2>1, <1>5
  <2>3. gs \in Seq(Frame) BY <2>1, <1>5
  <2>4. \A i \in 1 .. n : gs[i] = on[i]
    BY <2>2
  <2>5. gs[n + 1] = hs[1]
    <3>1. n + 1 \in 1 .. n + 2 /\ ~(n + 1 <= n) /\ (n + 1) - n = 1 OBVIOUS
    <3> QED BY <3>1, <2>2
  <2>6. gs[n + 2] = hs[2]
    <3>1. n + 2 \in 1 .. n + 2 /\ ~(n + 2 <= n) /\ (n + 2) - n = 2 OBVIOUS
    <3> QED BY <3>1, <2>2
  <2>7. Len(gs) = n + 2 BY <2>2
  <2> QED BY <2>3, <2>4, <2>5, <2>6, <2>7
<1>7. gs # <<>> /\ Innermost(gs) = hs[2]
  BY <1>6 DEF Innermost
<1>8. hs[2].start = NextBlock(ws, a)
  BY <1>3 DEF Tiles, fr
<1>9. gs[1].to = b
  <2>1. fs[1].to = b BY DEF Tiles
  <2>2. CASE n = 1 BY <2>1, <2>2, <1>1, <1>4, <1>6 DEF Frame
  <2>3. CASE n > 1
    <3>1. gs[1] = on[1] BY <1>6
    <3>2. 1 \in 1 .. n - 1 BY <2>3
    <3>3. on[1] = fs[1] BY <3>2, <1>4
    <3> QED BY <2>1, <3>1, <3>3
  <2> QED BY <2>2, <2>3
<1>10. ASSUME NEW i \in 1 .. Len(gs)
       PROVE  /\ gs[i].start <= gs[i].to + 1
              /\ i > 1 => gs[i - 1].start = gs[i].to + 1
  <2>1. hs[1] \in Frame /\ hs[2] \in Frame
    <3>1. hs \in Seq(Frame) /\ 1 \in 1 .. Len(hs) /\ 2 \in 1 .. Len(hs) BY <1>3
    <3> QED BY <3>1
  <2>2. CASE i = n + 2
    <3>1. hs[2].start \in Nat /\ hs[2].to \in Nat BY <2>1 DEF Frame
    <3>2. gs[i] = hs[2] /\ gs[i - 1] = hs[1] BY <2>2, <1>6
    <3> QED BY <3>1, <3>2, <1>2, <1>3
  <2>3. CASE i = n + 1
    <3>1. hs[1].start \in Nat /\ hs[1].to \in Nat BY <2>1 DEF Frame
    <3>2. gs[i] = hs[1] /\ gs[i - 1] = on[n] BY <2>3, <1>6
    <3> QED BY <3>1, <3>2, <1>2, <1>3, <1>4
  <2>4. CASE i \in 1 .. n
    <3>1. /\ fs[i].start <= fs[i].to + 1
          /\ i > 1 => fs[i - 1].start = fs[i].to + 1
      BY <2>4 DEF Tiles
    <3>2. gs[i] = on[i] BY <2>4, <1>6
    <3>3. i > 1 => gs[i - 1] = fs[i - 1]
      <4>1. i > 1 => i - 1 \in 1 .. n - 1 BY <2>4
      <4>2. \A j \in 1 .. n - 1 : gs[j] = fs[j] BY <1>4, <1>6
      <4> QED BY <4>1, <4>2
    <3>4. CASE i = n BY <3>1, <3>2, <3>3, <3>4, <1>1, <1>2, <1>4
    <3>5. CASE i < n
      <4>1. gs[i] = fs[i] BY <2>4, <3>2, <3>5, <1>4
      <4> QED BY <4>1, <3>1, <3>3
    <3> QED BY <2>4, <3>4, <3>5
  <2>5. i = n + 2 \/ i = n + 1 \/ i \in 1 .. n BY <1>6
  <2> QED BY <2>2, <2>3, <2>4, <2>5
<1>11. gs \in Seq(Frame) /\ Tiles(ws, gs, a, b)
  BY <1>6, <1>7, <1>8, <1>9, <1>10 DEF Tiles
<1> QED BY <1>11 DEF gs

-----------------------------------------------------------------------------
(***************************************************************************)
(* The invariant.                                                          *)
(***************************************************************************)
LEMMA Init_IInv == Init => IInv
BY ReadingAssumption DEF Init, IInv, TypeOK, Stage, SearchInv, RangeInv, NothingSkipped

LEMMA CursorBefore_In ==
    ASSUME NEW c \in 0 .. SafeHead
    PROVE  /\ CursorBefore(c) \in -1 .. SafeHead
           /\ CursorBefore(c) = c - 1
BY ReadingAssumption DEF CursorBefore, Smaller, Larger

(* One call for each factory is an empty tiling of the range.              *)
LEMMA ReadBehind_Tiles ==
    ASSUME NEW c \in -1 .. SafeHead - 1, ReadBehind(c)
    PROVE  /\ to' \in 0 .. SafeHead /\ c < to'
           /\ frames' \in [Factory -> Seq(Frame)]
           /\ out' \in [Factory -> Seq(Window)]
           /\ \A f \in Factory : Tiles(out'[f], frames'[f], c + 1, to')
<1>1. to' \in 0 .. SafeHead /\ c < to' /\ c + 1 \in Nat
  BY ReadingAssumption DEF ReadBehind, Smaller
<1> DEFINE fr == [start |-> c + 1, to |-> to', chunk |-> Chunk]
<1>2. fr \in Frame
  BY <1>1, ReadingAssumption DEF Frame
<1>3. frames' = [f \in Factory |-> <<fr>>] /\ out' = [f \in Factory |-> <<>>]
  BY DEF ReadBehind
<1>4. fr.start = c + 1 /\ fr.to = to'
  OBVIOUS
<1> HIDE DEF fr
<1>5. Tiles(<<>>, <<fr>>, c + 1, to')
  BY <1>1, <1>2, <1>4 DEF Tiles, Contiguous, NextBlock, Innermost
<1> QED BY <1>1, <1>2, <1>3, <1>5

(* A range that ends has answered every block of it, for every factory.    *)
LEMMA Tiles_Done ==
    ASSUME NEW ws \in Seq(Window), NEW a \in Nat, NEW b \in Nat, Tiles(ws, <<>>, a, b),
           NEW n \in a .. b
    PROVE  \E i \in 1 .. Len(ws) : n \in ws[i].start .. ws[i].end
BY DEF Tiles

LEMMA Next_IInv == IInv /\ [Next]_vars => IInv'
<1> SUFFICES ASSUME IInv, [Next]_vars PROVE IInv'
  OBVIOUS
<1> USE DEF IInv
<1>0. SafeHead \in Nat /\ boundary \in 0 .. SafeHead + 1 /\ cursor \in -1 .. SafeHead
  BY ReadingAssumption DEF TypeOK
<1>1. CASE StartSearch
  <2>1. TypeOK' BY <1>1, ReadingAssumption DEF StartSearch, TypeOK, Stage, rangeVars
  <2>2. SearchInv' BY <1>1, <1>0 DEF StartSearch, SearchInv, rangeVars
  <2>3. RangeInv' BY <1>1 DEF StartSearch, RangeInv
  <2>4. NothingSkipped' BY <1>1 DEF StartSearch, NothingSkipped
  <2> QED BY <2>1, <2>2, <2>3, <2>4
<1>2. CASE Probe
  <2> PICK b \in Int : b = (low + high) \div 2
    BY DEF TypeOK
  <2>1. low \in 0 .. SafeHead + 1 /\ high \in -1 .. SafeHead /\ low <= high
    BY <1>2 DEF Probe, TypeOK
  <2>2. b \in low .. high /\ b \in 0 .. SafeHead
    BY <2>1, <1>0
  <2>3. \/ b >= boundary /\ first' = b /\ high' = b - 1 /\ low' = low
        \/ b < boundary /\ low' = b + 1 /\ high' = high /\ first' = first
    BY <1>2, <2>2, <1>0 DEF Probe
  <2>4. /\ UNCHANGED <<boundary, stage, cursor, rangeVars, faults, handled>>
        /\ stage = "search"
    BY <1>2 DEF Probe
  <2>5. TypeOK'
    <3>1. /\ low' \in 0 .. SafeHead + 1 /\ high' \in -1 .. SafeHead
          /\ first' \in 0 .. SafeHead
      BY <2>1, <2>2, <2>3, <1>0 DEF TypeOK
    <3> QED BY <3>1, <2>4 DEF TypeOK, rangeVars
  <2>6. SearchInv' BY <2>1, <2>2, <2>3, <2>4, <1>0 DEF SearchInv
  <2>7. RangeInv' BY <2>4 DEF RangeInv
  <2>8. NothingSkipped' BY <2>4 DEF NothingSkipped
  <2> QED BY <2>5, <2>6, <2>7, <2>8
<1>3. CASE Found
  <2> PICK c \in Int : c = CursorBefore(first)
    BY CursorBefore_In DEF TypeOK
  <2>1. stage = "search" /\ low > high /\ first \in 0 .. SafeHead /\ cursor' = c /\ ReadBehind(c)
    BY <1>3 DEF Found, TypeOK
  <2>2. c = first - 1 /\ c \in -1 .. SafeHead - 1
    BY <2>1, <1>0, CursorBefore_In
  <2>3. c < boundary
    BY <2>1, <2>2, <1>0 DEF SearchInv, TypeOK
  <2>4. /\ to' \in 0 .. SafeHead /\ c < to'
        /\ frames' \in [Factory -> Seq(Frame)] /\ out' \in [Factory -> Seq(Window)]
        /\ \A f \in Factory : Tiles(out'[f], frames'[f], c + 1, to')
    BY <2>1, <2>2, ReadBehind_Tiles
  <2>5. stage' = "logs" /\ UNCHANGED <<boundary, searchVars, faults, handled>>
    BY <1>3 DEF Found, ReadBehind
  <2>6. TypeOK' BY <2>1, <2>2, <2>4, <2>5, <1>0 DEF TypeOK, Stage, searchVars
  <2>7. SearchInv' BY <2>5 DEF SearchInv
  <2>8. RangeInv' BY <2>1, <2>4, <2>5 DEF RangeInv
  <2>9. NothingSkipped' BY <2>1, <2>2, <2>3, <2>5, <1>0 DEF NothingSkipped
  <2> QED BY <2>6, <2>7, <2>8, <2>9
<1>4. CASE StartRange
  <2>1. cursor \in 0 .. SafeHead - 1 /\ ReadBehind(cursor)
    BY <1>4 DEF StartRange
  <2>2. /\ to' \in 0 .. SafeHead /\ cursor < to'
        /\ frames' \in [Factory -> Seq(Frame)] /\ out' \in [Factory -> Seq(Window)]
        /\ \A f \in Factory : Tiles(out'[f], frames'[f], cursor + 1, to')
    BY <2>1, <1>0, ReadBehind_Tiles
  <2>3. stage' = "logs" /\ UNCHANGED <<boundary, searchVars, cursor, faults, handled>>
    BY <1>4 DEF StartRange, ReadBehind
  <2>4. TypeOK' BY <2>2, <2>3 DEF TypeOK, Stage, searchVars
  <2>5. SearchInv' BY <2>3 DEF SearchInv
  <2>6. RangeInv' BY <2>2, <2>3 DEF RangeInv
  <2>7. NothingSkipped' BY <2>3 DEF NothingSkipped
  <2> QED BY <2>4, <2>5, <2>6, <2>7
<1>5. CASE EndRange
  <2>1. /\ stage = "logs" /\ \A f \in Factory : frames[f] = <<>>
        /\ stage' = "idle" /\ cursor' = to
        /\ handled' = handled \cup AnsweredByAll
        /\ UNCHANGED <<boundary, searchVars, rangeVars, faults>>
    BY <1>5 DEF EndRange
  <2>2. to \in 0 .. SafeHead /\ cursor < to BY <2>1 DEF TypeOK, RangeInv
  <2>3. \A n \in cursor + 1 .. to : n \in AnsweredByAll
    <3> SUFFICES ASSUME NEW n \in cursor + 1 .. to, NEW f \in Factory
                 PROVE  \E i \in 1 .. Len(out[f]) : n \in out[f][i].start .. out[f][i].end
      BY <2>2, <1>0 DEF AnsweredByAll
    <3>1. Tiles(out[f], <<>>, cursor + 1, to) BY <2>1 DEF RangeInv
    <3>2. out[f] \in Seq(Window) /\ cursor + 1 \in Nat /\ to \in Nat
      BY <2>2, <1>0 DEF TypeOK
    <3> QED BY <3>1, <3>2, Tiles_Done
  <2>4. TypeOK'
    <3>1. cursor' \in -1 .. SafeHead BY <2>1, <2>2
    <3>2. handled' \subseteq 0 .. SafeHead BY <2>1 DEF TypeOK, AnsweredByAll
    <3> QED BY <2>1, <3>1, <3>2 DEF TypeOK, Stage, searchVars, rangeVars
  <2>5. SearchInv' BY <2>1 DEF SearchInv
  <2>6. RangeInv' BY <2>1 DEF RangeInv
  <2>7. NothingSkipped'
    <3> SUFFICES ASSUME NEW n \in boundary .. to PROVE n \in handled \cup AnsweredByAll
      BY <2>1 DEF NothingSkipped
    <3>1. CASE n <= cursor BY <3>1, <1>0 DEF NothingSkipped
    <3>2. CASE n > cursor BY <3>2, <2>2, <2>3, <1>0
    <3> QED BY <3>1, <3>2, <1>0
  <2> QED BY <2>4, <2>5, <2>6, <2>7
<1>6. CASE Fail
  <2>1. /\ stage' = "idle" /\ faults' = faults + 1 /\ faults < MaxFaults
        /\ frames' = [f \in Factory |-> <<>>] /\ out' = [f \in Factory |-> <<>>]
        /\ UNCHANGED <<boundary, searchVars, cursor, to, handled>>
    BY <1>6 DEF Fail
  <2>2. TypeOK' BY <2>1, ReadingAssumption DEF TypeOK, Stage, searchVars
  <2>3. SearchInv' /\ RangeInv' BY <2>1 DEF SearchInv, RangeInv
  <2>4. NothingSkipped' BY <2>1 DEF NothingSkipped
  <2> QED BY <2>2, <2>3, <2>4
<1>7. ASSUME NEW f \in Factory, Return(f) \/ Answer(f) \/ Refuse(f) PROVE IInv'
  <2> PICK a \in Int : a = cursor + 1
    BY <1>0
  <2>1. stage = "logs" /\ frames[f] # <<>>
    BY <1>7 DEF Return, Answer, Refuse, AtWindow, Reading
  <2>2. /\ cursor < to /\ to \in Nat /\ a \in Nat
        /\ frames[f] \in Seq(Frame) /\ out[f] \in Seq(Window)
        /\ Tiles(out[f], frames[f], a, to)
    BY <2>1, <1>0 DEF RangeInv, TypeOK
  <2>3. ASSUME NEW ws \in Seq(Window), NEW fs \in Seq(Frame), Tiles(ws, fs, a, to),
               out' = [out EXCEPT ![f] = ws], frames' = [frames EXCEPT ![f] = fs],
               UNCHANGED <<boundary, stage, searchVars, cursor, to, handled, faults>>
        PROVE  IInv'
    <3>1. out' \in [Factory -> Seq(Window)] /\ frames' \in [Factory -> Seq(Frame)]
      BY <2>3 DEF TypeOK
    <3>2. TypeOK' BY <2>3, <3>1 DEF TypeOK, searchVars
    <3>3. SearchInv' BY <2>3 DEF SearchInv, searchVars
    <3>4. \A g \in Factory : Tiles(out'[g], frames'[g], cursor + 1, to)
      <4> SUFFICES ASSUME NEW g \in Factory PROVE Tiles(out'[g], frames'[g], cursor + 1, to)
        OBVIOUS
      <4>1. CASE g = f
        <5>1. out'[g] = ws /\ frames'[g] = fs BY <2>3, <4>1 DEF TypeOK
        <5> QED BY <5>1, <2>3
      <4>2. CASE g # f
        <5>1. out'[g] = out[g] /\ frames'[g] = frames[g] BY <2>3, <4>2 DEF TypeOK
        <5> QED BY <5>1, <2>1 DEF RangeInv
      <4> QED BY <4>1, <4>2
    <3>5. RangeInv' BY <2>2, <2>3, <3>4 DEF RangeInv
    <3>6. NothingSkipped' BY <2>3 DEF NothingSkipped
    <3> QED BY <3>2, <3>3, <3>5, <3>6
  <2>4. CASE Return(f)
    <3>1. /\ ~(Innermost(frames[f]).start <= Innermost(frames[f]).to)
          /\ frames' = [frames EXCEPT ![f] = Returned(frames[f])]
          /\ UNCHANGED <<boundary, stage, searchVars, cursor, to, out, handled, faults>>
      BY <2>4, <2>1 DEF Return, AtWindow, Reading
    <3>2. Returned(frames[f]) \in Seq(Frame) /\ Tiles(out[f], Returned(frames[f]), a, to)
      BY <3>1, <2>1, <2>2, Tiles_Return
    <3>3. out' = [out EXCEPT ![f] = out[f]] BY <3>1 DEF TypeOK
    <3> QED BY <3>1, <3>2, <3>3, <2>2, <2>3
  <2>5. CASE Answer(f)
    <3>1. /\ Innermost(frames[f]).start <= Innermost(frames[f]).to
          /\ out' = [out EXCEPT ![f] = Append(out[f], Answered(frames[f]))]
          /\ frames' = [frames EXCEPT ![f] = Onward(frames[f])]
          /\ UNCHANGED <<boundary, stage, searchVars, cursor, to, handled, faults>>
      BY <2>5 DEF Answer, AtWindow, Reading
    <3>2. /\ Append(out[f], Answered(frames[f])) \in Seq(Window)
          /\ Tiles(Append(out[f], Answered(frames[f])), Onward(frames[f]), a, to)
      BY <3>1, <2>1, <2>2, Tiles_Answer
    <3>3. Onward(frames[f]) \in Seq(Frame) BY <3>1, <2>1, <2>2, Onward_Typed
    <3> QED BY <3>1, <3>2, <3>3, <2>3
  <2>6. CASE Refuse(f)
    <3>1. /\ Innermost(frames[f]).start <= Innermost(frames[f]).to
          /\ WindowEnd(Innermost(frames[f])) > Innermost(frames[f]).start
          /\ frames' = [frames EXCEPT ![f] = Split(frames[f])]
          /\ UNCHANGED <<boundary, stage, searchVars, cursor, to, out, handled, faults>>
      BY <2>6 DEF Refuse, AtWindow, Reading
    <3>2. Split(frames[f]) \in Seq(Frame) /\ Tiles(out[f], Split(frames[f]), a, to)
      BY <3>1, <2>1, <2>2, Tiles_Split
    <3>3. out' = [out EXCEPT ![f] = out[f]] BY <3>1 DEF TypeOK
    <3> QED BY <3>1, <3>2, <3>3, <2>2, <2>3
  <2> QED BY <1>7, <2>4, <2>5, <2>6
<1>8. CASE UNCHANGED vars
  BY <1>8 DEF vars, searchVars, rangeVars, TypeOK, SearchInv, RangeInv, NothingSkipped
<1> QED BY <1>1, <1>2, <1>3, <1>4, <1>5, <1>6, <1>7, <1>8 DEF Next

LEMMA Inductive == Spec => []IInv
BY Init_IInv, Next_IInv, PTL DEF Spec

(* Every variable keeps its type.                                          *)
THEOREM TypeCorrect == Spec => []TypeOK
<1>1. IInv => TypeOK BY DEF IInv
<1> QED BY <1>1, Inductive, PTL

(* The binary search of findFirstBlockAtOrAfter ends at the first block of *)
(* the age window, or at the head when there is none.                      *)
THEOREM SearchCorrect == Spec => []SearchFindsFirst
<1>1. IInv => SearchFindsFirst
  BY ReadingAssumption DEF IInv, TypeOK, SearchInv, SearchFindsFirst, Smaller
<1> QED BY <1>1, Inductive, PTL

(* However getLogsChunked halves its windows, the answers cover the range  *)
(* in order, each block once.                                              *)
THEOREM ReadingCorrect == Spec => []EachBlockOnce
<1>1. IInv => EachBlockOnce
  BY DEF IInv, RangeInv, Tiles, EachBlockOnce
<1> QED BY <1>1, Inductive, PTL

(* The cursor never passes a block of the age window whose logs were not   *)
(* handled for every factory, across searches, refusals and failures.      *)
THEOREM NothingSkippedCorrect == Spec => []NothingSkipped
<1>1. IInv => NothingSkipped BY DEF IInv
<1> QED BY <1>1, Inductive, PTL
=============================================================================
