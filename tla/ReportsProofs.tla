--------------------------- MODULE ReportsProofs ---------------------------
(***************************************************************************)
(* Machine-checked proofs about the figures shown of the trials table:     *)
(* the hours of a combination, of all of them together, and of a channel.  *)
(***************************************************************************)
EXTENDS Reports, CountingProofs

-----------------------------------------------------------------------------
(* The hours of a row                                                      *)

\* The hours shown for row i.
HoursAt(i) == Hours(trials[i])

\* When the hours of a row end: at its end, or now.
Until(i) == IF trials[i].ended = NoTime THEN clock ELSE trials[i].ended

\* A row shows the time from its start to its end, or to now.
LEMMA HoursType ==
  ASSUME TypeInv, TimesInv, SpanInv, NEW i \in Rows
  PROVE  /\ trials[i].started \in Nat /\ Until(i) \in Nat
         /\ trials[i].started <= Until(i) /\ Until(i) <= clock
         /\ HoursAt(i) = Until(i) - trials[i].started /\ HoursAt(i) \in Nat
         /\ trials[i].by # "null" => HoursAt(i) = Span(i) /\ Until(i) = trials[i].ended
<1>1. /\ trials[i].started \in Nat /\ clock \in Nat /\ trials[i].started <= clock
      /\ trials[i].ended \in Nat \cup {NoTime}
  BY TableShape DEF TimesInv, RowType
<1>2. IF trials[i].by = "null" THEN trials[i].ended = NoTime
      ELSE /\ trials[i].ended \in Nat /\ trials[i].ended <= clock
           /\ trials[i].started <= trials[i].ended
  BY DEF TimesInv, SpanInv
<1>3. NoTime \notin Nat
  BY DEF NoTime
<1> QED BY <1>1, <1>2, <1>3 DEF HoursAt, Hours, Until, Span

\* The same of the state after a step.
LEMMA HoursTypeNext ==
  ASSUME TypeInv', TimesInv', SpanInv'
  PROVE  IsFiniteSet(Rows)' /\ \A i \in Rows' : HoursAt(i)' \in Nat
<1>1. trials' \in Seq(RowType) /\ clock' \in Nat /\ Rows' = DOMAIN trials'
  BY DEF TypeInv, TypeOK, Rows
<1>2. Len(trials') \in Nat /\ DOMAIN trials' = 1..Len(trials')
  BY <1>1, LenProperties
<1>3. ASSUME NEW i \in Rows'
      PROVE  /\ trials'[i].started \in Nat /\ trials'[i].started <= clock'
             /\ trials'[i].ended \in Nat \cup {NoTime} /\ NoTime \notin Nat
             /\ IF trials'[i].by = "null" THEN trials'[i].ended = NoTime
                ELSE trials'[i].started <= trials'[i].ended
  <2>1. trials'[i] \in RowType
    BY <1>1, <1>2, ElementOfSeq
  <2> QED BY <2>1 DEF TimesInv, SpanInv, RowType, NoTime
<1>4. IsFiniteSet(Rows)'
  BY <1>1, <1>2, FS_Interval
<1>5. \A i \in Rows' : HoursAt(i)' \in Nat
  BY <1>1, <1>3 DEF HoursAt, Hours
<1> QED BY <1>4, <1>5

\* No row loses hours in a step, and every row keeps its combination.
LEMMA HoursKept ==
  ASSUME TypeInv, TimesInv, SpanInv, [Next]_vars, NEW i \in Rows,
         TypeInv', TimesInv', SpanInv'
  PROVE  /\ i \in Rows' /\ trials'[i].combo = trials[i].combo
         /\ HoursAt(i)' \in Nat /\ HoursAt(i) \in Nat /\ HoursAt(i)' >= HoursAt(i)
<1>1. /\ trials[i] \in RowType /\ clock \in Nat /\ trials[i].started <= clock
      /\ HoursAt(i) \in Nat /\ NoTime \notin Nat
  BY TableShape, HoursType DEF TimesInv, NoTime
<1>2. i \in Rows' /\ trials'[i].combo = trials[i].combo /\ HoursAt(i)' >= HoursAt(i)
  <2>1. CASE Opened
    BY <1>1, <2>1 DEF Opened, HoursAt, Hours, RowType
  <2>2. CASE StillStep
    <3>1. clock' \in Nat /\ clock' >= clock /\ trials'[i] = trials[i] /\ i \in Rows'
      BY <2>2 DEF StillStep, Rows
    <3>2. trials[i].started \in Nat /\ trials[i].ended \in Nat \cup {NoTime}
      BY <1>1 DEF RowType
    <3> QED BY <1>1, <3>1, <3>2 DEF HoursAt, Hours
  <2>3. ASSUME NEW by, NEW n, ClosedWith(by, n)
        PROVE  i \in Rows' /\ trials'[i].combo = trials[i].combo /\ HoursAt(i)' >= HoursAt(i)
    <3>1. CASE i # tid
      BY <1>1, <2>3, <3>1 DEF ClosedWith, HoursAt, Hours, RowType
    <3>2. CASE i = tid
      <4>1. /\ i \in Rows' /\ clock' = clock /\ trials[i].ended = NoTime
            /\ trials'[i] = [trials[i] EXCEPT !.ended = clock, !.by = by, !.radar = n]
        BY <2>3, <3>2 DEF ClosedWith, SpanInv
      <4>2. /\ trials'[i].combo = trials[i].combo /\ trials'[i].started = trials[i].started
            /\ trials'[i].ended = clock /\ trials[i].started \in Nat
        BY <1>1, <4>1 DEF RowType
      <4> QED BY <1>1, <4>1, <4>2 DEF HoursAt, Hours
    <3> QED BY <3>1, <3>2
  <2> QED BY <2>1, <2>2, <2>3, RowSteps DEF Ended, Failed
<1>3. HoursAt(i)' \in Nat
  BY <1>2, HoursTypeNext
<1> QED BY <1>1, <1>2, <1>3

-----------------------------------------------------------------------------
(* The hours of a combination                                              *)

\* The hours shown of a combination.
HoursOf(c) == SumFunction([i \in RowsOf(c) |-> HoursAt(i)])

\* They are what trial_stats returns.
LEMMA HoursOfIsStats == ASSUME NEW c PROVE StatsOf(c).hours = HoursOf(c)
BY DEF StatsOf, HoursOf, HoursAt, Sum

\* The hours shown of a combination never go down.
THEOREM HoursNeverDrop == Spec => HoursOnlyGrow
<1> DEFINE A == \A c \in {trials[i].combo : i \in Rows} : StatsOf(c)'.hours >= StatsOf(c).hours
<1>1. ASSUME TypeInv, TimesInv, SpanInv, [Next]_vars, TypeInv', TimesInv', SpanInv' PROVE A
  <2> SUFFICES ASSUME NEW c PROVE StatsOf(c)'.hours >= StatsOf(c).hours
    OBVIOUS
  <2> DEFINE R == RowsOf(c)
             Q == {i \in Rows' : trials'[i].combo = c}
             f == [i \in R |-> HoursAt(i)]
             g == [i \in Q |-> HoursAt(i)']
  <2>1. StatsOf(c).hours = SumFunction(f) /\ StatsOf(c)'.hours = SumFunction(g)
    <3>1. StatsOf(c).hours = SumFunction(f)
      BY HoursOfIsStats DEF HoursOf
    <3>2. StatsOf(c)'.hours = SumFunction([i \in Q |-> HoursAt(i)'])
      BY DEF StatsOf, HoursAt, Sum, RowsOf
    <3> QED BY <3>1, <3>2
  <2>2. IsFiniteSet(R) /\ IsFiniteSet(Q)
    <3>1. IsFiniteSet(Rows)'
      BY <1>1, HoursTypeNext
    <3> QED BY <1>1, <3>1, TableShape, FS_Subset DEF RowsOf
  <2>3. R \subseteq Q /\ DOMAIN f = R /\ DOMAIN g = Q
    BY <1>1, HoursKept DEF RowsOf
  <2>4. \A i \in Q : g[i] \in Nat
    <3>1. \A i \in Rows' : HoursAt(i)' \in Nat
      BY <1>1, HoursTypeNext
    <3> QED BY <3>1
  <2>5. \A i \in R : f[i] \in Nat /\ f[i] <= g[i]
    BY <1>1, <2>3, HoursKept DEF RowsOf
  <2> HIDE DEF f, g, R, Q
  <2>6. On(g, R) <= On(g, Q)
    BY <2>2, <2>3, <2>4, SumSubset
  <2>7. On(f, R) <= On(g, R)
    BY <2>2, <2>3, <2>4, <2>5, SumMonotone
  <2>8. On(f, R) \in Int /\ On(g, R) \in Int /\ On(g, Q) \in Int
    BY <2>2, <2>3, <2>4, <2>5, SumInt
  <2> QED BY <2>1, <2>3, <2>6, <2>7, <2>8, SumIsOn
<1> HIDE DEF A
<1> QED BY <1>1, TypeInvariance, TimesInvariance, SpanInvariance, PTL DEF Spec, A, HoursOnlyGrow

-----------------------------------------------------------------------------
(* Every clean trial has a dwell of its own                                *)

\* The clean trials of a combination.
CleanRows(c) == {i \in ClosedRows(c) : trials[i].by = "dwell_complete"}

\* The closed rows of a combination hold a dwell for each clean one, and the credit of
\* the next trial besides.
BackedInv ==
  \A c \in Combos :
    SpanSum(ClosedRows(c)) >= Cardinality(CleanRows(c)) * Dwell + PriorInterrupted(c)

\* A sum over closed rows grows by the row that is closed.
LEMMA SpanSumClosed ==
  ASSUME TypeInv, TimesInv, SpanInv, NEW by, NEW n, ClosedWith(by, n),
         NEW S, S \subseteq Rows, \A i \in S : trials[i].by # "null",
         NEW T, T = S \cup {tid}
  PROVE  SumFunction([i \in T |-> trials'[i].ended - trials'[i].started])
           = SpanSum(S) + (clock - trials[tid].started)
<1> DEFINE f == [i \in S |-> Span(i)]
           g == [i \in T |-> trials'[i].ended - trials'[i].started]
<1>1. tid \in Rows /\ tid \notin S /\ \A i \in S : trials'[i] = trials[i]
  BY DEF ClosedWith
<1>2. g[tid] = clock - trials[tid].started /\ g[tid] \in Int
  <2>1. /\ trials[tid] \in RowType /\ clock \in Nat
        /\ trials'[tid] = [trials[tid] EXCEPT !.ended = clock, !.by = by, !.radar = n]
    BY <1>1, TableShape DEF ClosedWith
  <2>2. trials'[tid].ended = clock /\ trials'[tid].started = trials[tid].started
    BY <2>1 DEF RowType
  <2>3. trials[tid].started \in Nat
    BY <2>1 DEF RowType
  <2>4. tid \in T /\ g[tid] = trials'[tid].ended - trials'[tid].started
    OBVIOUS
  <2> HIDE DEF g
  <2> QED BY <2>1, <2>2, <2>3, <2>4
<1>3. /\ IsFiniteSet(S) /\ DOMAIN f = S /\ DOMAIN g = S \cup {tid}
      /\ \A i \in S : f[i] \in Int /\ g[i] = f[i]
  <2>1. \A i \in S : Span(i) \in Nat
    BY SpanType
  <2> QED BY <1>1, <2>1, TableShape, FS_Subset DEF Span
<1>4. SpanSum(S) = SumFunction(f)
  BY DEF SpanSum
<1> HIDE DEF f, g
<1>5. SumFunction(g) = SumFunction(f) + g[tid]
  BY <1>1, <1>2, <1>3, SumFunctionExtend
<1> QED BY <1>2, <1>4, <1>5 DEF g

\* Closed rows are rows, of which there are finitely many.
LEMMA ClosedRowsShape ==
  ASSUME TypeInv, TimesInv, SpanInv, NEW c
  PROVE  /\ ClosedRows(c) \subseteq Rows /\ \A i \in ClosedRows(c) : trials[i].by # "null"
         /\ IsFiniteSet(CleanRows(c)) /\ Cardinality(CleanRows(c)) \in Nat
         /\ SpanSum(ClosedRows(c)) \in Nat /\ PriorInterrupted(c) \in Nat
<1>1. ClosedRows(c) \subseteq Rows /\ \A i \in ClosedRows(c) : trials[i].by # "null"
  BY DEF ClosedRows, Rows
<1>2. CleanRows(c) \subseteq Rows
  BY <1>1 DEF CleanRows
<1> QED
  BY <1>1, <1>2, TableShape, FS_Subset, FS_CardinalityType, SpanSumType, TrailingRows,
     PriorIsSpanSum

\* A clean row takes a dwell from the credit and its own time; the others take nothing.
LEMMA BackedInvStep ==
  ASSUME TypeInv, TimesInv, SpanInv, DeadlineInv, BackedInv, [Next]_vars
  PROVE  BackedInv'
<1> SUFFICES ASSUME NEW c \in Combos
             PROVE  (SpanSum(ClosedRows(c)) >= Cardinality(CleanRows(c)) * Dwell
                                                 + PriorInterrupted(c))'
  BY DEF BackedInv
<1>1. /\ SpanSum(ClosedRows(c)) >= Cardinality(CleanRows(c)) * Dwell + PriorInterrupted(c)
      /\ SpanSum(ClosedRows(c)) \in Nat /\ PriorInterrupted(c) \in Nat
      /\ Cardinality(CleanRows(c)) \in Nat /\ Dwell \in Nat
      /\ IsFiniteSet(CleanRows(c)) /\ ClosedRows(c) \subseteq Rows
  BY ClosedRowsShape, TimingAssumption DEF BackedInv
<1>2. \A S : SpanSum(S)' = SumFunction([i \in S |-> trials'[i].ended - trials'[i].started])
  BY DEF SpanSum, Span
<1>3. SpanSum(ClosedRows(c))'
        = SumFunction([i \in ClosedRows(c)' |-> trials'[i].ended - trials'[i].started])
  BY DEF SpanSum, Span
<1>4. PriorInterrupted(c)' = SumFunction([i \in Trailing(c)' |-> trials'[i].ended - trials'[i].started])
  BY DEF PriorInterrupted
<1>5. CleanRows(c)' = {i \in ClosedRows(c)' : trials'[i].by = "dwell_complete"}
  BY DEF CleanRows
<1>6. CASE Opened \/ StillStep \/ (\E by, n : ClosedWith(by, n) /\ trial # c)
  <2>1. /\ ClosedRows(c)' = ClosedRows(c) /\ PriorInterrupted(c)' = PriorInterrupted(c)
        /\ \A i \in ClosedRows(c) : trials'[i] = trials[i]
    BY <1>6, TrailingKept
  <2>2. SpanSum(ClosedRows(c))' = SpanSum(ClosedRows(c))
    <3>1. SpanSum(ClosedRows(c)) = SumFunction([i \in ClosedRows(c) |-> trials[i].ended - trials[i].started])
      BY DEF SpanSum, Span
    <3> DEFINE f == [i \in ClosedRows(c) |-> trials[i].ended - trials[i].started]
               g == [i \in ClosedRows(c) |-> trials'[i].ended - trials'[i].started]
    <3>2. f = g
      BY <2>1
    <3> QED BY <1>3, <2>1, <3>1, <3>2
  <2>3. CleanRows(c)' = CleanRows(c)
    BY <1>5, <2>1 DEF CleanRows
  <2> QED BY <1>1, <2>1, <2>2, <2>3
<1>7. ASSUME NEW by, by # "null", NEW n, ClosedWith(by, n), c = trial
      PROVE  /\ SpanSum(ClosedRows(c))' = SpanSum(ClosedRows(c)) + (clock - trials[tid].started)
             /\ PriorInterrupted(c)' = IF by = "interrupted"
                                       THEN PriorInterrupted(c) + (clock - trials[tid].started)
                                       ELSE 0
             /\ Cardinality(CleanRows(c))' = IF by = "dwell_complete"
                                             THEN Cardinality(CleanRows(c)) + 1
                                             ELSE Cardinality(CleanRows(c))
             /\ clock - trials[tid].started \in Nat
  <2>1. /\ tid \notin ClosedRows(c) /\ ClosedRows(c)' = ClosedRows(c) \cup {tid}
        /\ Trailing(c)' = IF by = "interrupted" THEN Trailing(c) \cup {tid} ELSE {}
        /\ \A i \in ClosedRows(c) : trials'[i] = trials[i]
    BY <1>7, TrailingClosed
  <2>2. /\ tid \in Rows /\ trials[tid] \in RowType /\ clock \in Nat
        /\ trials[tid].started <= clock /\ trials'[tid].by = by
    BY <1>7, TableShape DEF ClosedWith, TimesInv, RowType
  <2>3. clock - trials[tid].started \in Nat
    <3>1. trials[tid].started \in Nat
      BY <2>2 DEF RowType
    <3> QED BY <2>2, <3>1
  <2>4. SpanSum(ClosedRows(c))' = SpanSum(ClosedRows(c)) + (clock - trials[tid].started)
    BY <1>3, <1>7, <2>1, ClosedRowsShape, SpanSumClosed
  <2>5. PriorInterrupted(c)' = IF by = "interrupted"
                               THEN PriorInterrupted(c) + (clock - trials[tid].started) ELSE 0
    <3>1. CASE by = "interrupted"
      <4>1. Trailing(c)' = Trailing(c) \cup {tid}
        BY <2>1, <3>1
      <4>2. PriorInterrupted(c) = SpanSum(Trailing(c))
        BY PriorIsSpanSum
      <4> QED BY <1>4, <1>7, <3>1, <4>1, <4>2, TrailingRows, SpanSumClosed
    <3>2. CASE by # "interrupted"
      <4> DEFINE g == [i \in Trailing(c)' |-> trials'[i].ended - trials'[i].started]
      <4>1. DOMAIN g = {}
        BY <2>1, <3>2
      <4>2. PriorInterrupted(c)' = SumFunction(g)
        BY <1>4
      <4> HIDE DEF g
      <4> QED BY <3>2, <4>1, <4>2, SumFunctionEmpty
    <3> QED BY <3>1, <3>2
  <2>6. Cardinality(CleanRows(c))' = IF by = "dwell_complete"
                                     THEN Cardinality(CleanRows(c)) + 1
                                     ELSE Cardinality(CleanRows(c))
    <3>1. CASE by = "dwell_complete"
      <4>1. CleanRows(c)' = CleanRows(c) \cup {tid} /\ tid \notin CleanRows(c)
        BY <1>5, <2>1, <2>2, <3>1 DEF CleanRows
      <4> QED BY <1>1, <3>1, <4>1, FS_AddElement
    <3>2. CASE by # "dwell_complete"
      <4>1. CleanRows(c)' = CleanRows(c)
        BY <1>5, <2>1, <2>2, <3>2 DEF CleanRows
      <4> QED BY <3>2, <4>1
    <3> QED BY <3>1, <3>2
  <2> QED BY <2>3, <2>4, <2>5, <2>6
<1>8. CASE Failed /\ trial = c
  BY <1>1, <1>7, <1>8 DEF Failed
<1>9. CASE Ended /\ trial = c
  <2>1. EndedBy # "null"
    BY DEF EndedBy
  <2>2. CASE EndedBy = "dwell_complete"
    <3>1. PriorInterrupted(c) + (clock - trials[tid].started) >= Dwell
      BY <1>9, <2>2, DwellReached
    <3>2. (Cardinality(CleanRows(c)) + 1) * Dwell = Cardinality(CleanRows(c)) * Dwell + Dwell
      BY <1>1
    <3>3. /\ SpanSum(ClosedRows(c))' = SpanSum(ClosedRows(c)) + (clock - trials[tid].started)
          /\ PriorInterrupted(c)' = 0 /\ clock - trials[tid].started \in Nat
          /\ Cardinality(CleanRows(c))' = Cardinality(CleanRows(c)) + 1
      BY <1>7, <1>9, <2>1, <2>2 DEF Ended
    <3>4. Cardinality(CleanRows(c)) * Dwell \in Nat
      BY <1>1
    <3> QED BY <1>1, <3>1, <3>2, <3>3, <3>4
  <2>3. CASE EndedBy # "dwell_complete"
    <3>1. Cardinality(CleanRows(c)) * Dwell \in Nat
      BY <1>1
    <3>2. /\ SpanSum(ClosedRows(c))' = SpanSum(ClosedRows(c)) + (clock - trials[tid].started)
          /\ PriorInterrupted(c)' \in {0, PriorInterrupted(c) + (clock - trials[tid].started)}
          /\ Cardinality(CleanRows(c))' = Cardinality(CleanRows(c))
          /\ clock - trials[tid].started \in Nat
      BY <1>7, <1>9, <2>1, <2>3 DEF Ended
    <3> QED BY <1>1, <3>1, <3>2
  <2> QED BY <2>2, <2>3
<1> QED BY <1>6, <1>8, <1>9, RowSteps DEF Ended, Failed

\* Each clean trial shown is backed by a whole dwell of hours shown, as long as the
\* database can be read (see CleanIsWholeDwell).
THEOREM CleanHasItsHours == "db_read" \notin Faults => (Spec => []CleanTrialsBacked)
<1> SUFFICES ASSUME "db_read" \notin Faults
             PROVE  Spec => []CleanTrialsBacked
  OBVIOUS
<1>1. Init => DeadlineInv /\ BackedInv
  <2> SUFFICES ASSUME Init, NEW c
               PROVE  /\ DeadlineInv
                      /\ SpanSum(ClosedRows(c)) >= Cardinality(CleanRows(c)) * Dwell
                                                     + PriorInterrupted(c)
    BY DEF BackedInv
  <2>1. ClosedRows(c) = {} /\ CleanRows(c) = {} /\ Trailing(c) = {}
    BY DEF Init, ClosedRows, CleanRows, Trailing
  <2>2. SpanSum({}) = 0
    BY SumFunctionEmpty DEF SpanSum
  <2>3. Cardinality({}) = 0 /\ Dwell \in Nat
    BY FS_EmptySet, TimingAssumption
  <2>4. DeadlineInv
    BY DEF Init, DeadlineInv, Watching
  <2>5. SpanSum(ClosedRows(c)) = 0 /\ PriorInterrupted(c) = 0
    BY <2>1, <2>2, PriorIsSpanSum
  <2> QED BY <2>1, <2>3, <2>4, <2>5
<1>2. TypeInv /\ TimesInv /\ SpanInv /\ DeadlineInv /\ [Next]_vars => DeadlineInv'
  BY DeadlineInvStep
<1>3. TypeInv /\ TimesInv /\ SpanInv /\ DeadlineInv /\ BackedInv /\ [Next]_vars => BackedInv'
  BY BackedInvStep
<1>4. TypeInv /\ TimesInv /\ SpanInv /\ BackedInv => CleanTrialsBacked
  <2> SUFFICES ASSUME TypeInv, TimesInv, SpanInv, BackedInv, NEW i \in Rows,
                      NEW c \in Combos, c = trials[i].combo
               PROVE  StatsOf(c).hours >= StatsOf(c).clean * Dwell
    <3>1. ASSUME TypeInv PROVE \A i \in Rows : trials[i].combo \in Combos
      BY <3>1, TableShape DEF RowType
    <3> QED BY <3>1 DEF CleanTrialsBacked, TrialStats
  <2> DEFINE R == RowsOf(c)
             f == [j \in R |-> HoursAt(j)]
             C == ClosedRows(c)
             h == [j \in C |-> Span(j)]
  <2>1. StatsOf(c).hours = SumFunction(f)
    BY HoursOfIsStats DEF HoursOf
  <2>2. StatsOf(c).clean = Cardinality(CleanRows(c))
    <3>1. {j \in RowsOf(c) : trials[j].by = "dwell_complete"} = CleanRows(c)
      BY DEF RowsOf, CleanRows, ClosedRows, Rows
    <3> QED BY <3>1 DEF StatsOf
  <2>3. C \subseteq R /\ IsFiniteSet(R) /\ IsFiniteSet(C)
    <3>1. C \subseteq R /\ R \subseteq Rows
      BY DEF ClosedRows, RowsOf, Rows
    <3> QED BY <3>1, TableShape, FS_Subset
  <2>4. (\A j \in R : f[j] \in Nat) /\ (\A j \in C : h[j] = f[j]) /\ DOMAIN f = R /\ DOMAIN h = C
    BY <2>3, HoursType, ClosedRowsShape DEF RowsOf
  <2>5. SpanSum(ClosedRows(c)) = SumFunction(h)
    BY DEF SpanSum
  <2> HIDE DEF R, f, C, h
  <2>6. On(h, C) = On(f, C) /\ On(f, C) <= On(f, R) /\ On(f, R) \in Nat /\ On(f, C) \in Nat
    BY <2>3, <2>4, SumSame, SumSubset, SumNat
  <2>7. SumFunction(h) <= SumFunction(f) /\ SumFunction(h) \in Nat /\ SumFunction(f) \in Nat
    BY <2>4, <2>6, SumIsOn
  <2>8. /\ SumFunction(h) >= Cardinality(CleanRows(c)) * Dwell + PriorInterrupted(c)
        /\ PriorInterrupted(c) \in Nat /\ Cardinality(CleanRows(c)) * Dwell \in Nat
    BY <2>5, ClosedRowsShape, TimingAssumption DEF BackedInv
  <2> QED BY <2>1, <2>2, <2>7, <2>8
<1> QED
  BY <1>1, <1>2, <1>3, <1>4, TypeInvariance, TimesInvariance, SpanInvariance, PTL DEF Spec

-----------------------------------------------------------------------------
(* The hours of all combinations together                                  *)

\* The columns of the table the sums are taken over.
AllHours == [i \in Rows |-> HoursAt(i)]
AllRadar == [i \in Rows |-> trials[i].radar]
ComboOf  == [i \in Rows |-> trials[i].combo]

\* The rows of the combinations in D.
RowsOver(D) == {i \in Rows : trials[i].combo \in D}

\* The combinations shown, and their figures as parts of the sums over all rows.
LEMMA StatsAreGroups ==
  ASSUME TypeInv, TimesInv, SpanInv
  PROVE  /\ DOMAIN TrialStats = {ComboOf[i] : i \in Rows}
         /\ IsFiniteSet(DOMAIN TrialStats) /\ DOMAIN TrialStats \subseteq Combos
         /\ \A i \in Rows : AllHours[i] \in Nat /\ AllRadar[i] \in Nat
         /\ \A c \in DOMAIN TrialStats :
              /\ TrialStats[c].hours = On(AllHours, RowsOf(c))
              /\ TrialStats[c].detections = On(AllRadar, RowsOf(c))
<1>1. DOMAIN TrialStats = {ComboOf[i] : i \in Rows}
  BY DEF TrialStats, ComboOf
<1>2. IsFiniteSet({ComboOf[i] : i \in Rows})
  <2> DEFINE T == {ComboOf[i] : i \in Rows}
  <2>1. ComboOf \in Surjection(Rows, T)
    BY DEF Surjection, ComboOf
  <2> HIDE DEF T
  <2> QED BY <2>1, TableShape, FS_Surjection DEF T
<1>3. \A i \in Rows : AllHours[i] \in Nat /\ AllRadar[i] \in Nat /\ ComboOf[i] \in Combos
  BY TableShape, HoursType DEF AllHours, AllRadar, ComboOf, RowType
<1>4. ASSUME NEW c, NEW f, NEW g, DOMAIN g = RowsOf(c), \A i \in RowsOf(c) : f[i] = g[i]
      PROVE  SumFunction(g) = On(f, RowsOf(c))
  <2>1. IsFiniteSet(RowsOf(c))
    BY TableShape, FS_Subset DEF RowsOf
  <2> QED BY <1>4, <2>1, SumIsOn, SumSame
<1>5. ASSUME NEW c
      PROVE  /\ StatsOf(c).hours = On(AllHours, RowsOf(c))
             /\ StatsOf(c).detections = On(AllRadar, RowsOf(c))
  <2> DEFINE g == [i \in RowsOf(c) |-> HoursAt(i)]
             h == [i \in RowsOf(c) |-> trials[i].radar]
  <2>1. StatsOf(c).hours = SumFunction(g) /\ StatsOf(c).detections = SumFunction(h)
    BY DEF StatsOf, Sum, HoursAt
  <2>2. DOMAIN g = RowsOf(c) /\ DOMAIN h = RowsOf(c)
        /\ \A i \in RowsOf(c) : AllHours[i] = g[i] /\ AllRadar[i] = h[i]
    BY DEF AllHours, AllRadar, RowsOf
  <2> HIDE DEF g, h
  <2> QED BY <1>4, <2>1, <2>2
<1> QED BY <1>1, <1>2, <1>3, <1>5 DEF TrialStats

\* Grouped by combination or not, the hours are the same.
LEMMA HoursOfAll ==
  ASSUME TypeInv, TimesInv, SpanInv
  PROVE  SumFunction([c \in DOMAIN TrialStats |-> TrialStats[c].hours]) = On(AllHours, Rows)
<1> DEFINE C == DOMAIN TrialStats
           f == [c \in C |-> TrialStats[c].hours]
           g == [c \in C |-> On(AllHours, {i \in Rows : ComboOf[i] = c})]
<1>1. f = g /\ DOMAIN f = C
  <2>1. \A c : RowsOf(c) = {i \in Rows : ComboOf[i] = c}
    BY DEF RowsOf, ComboOf
  <2> QED BY <2>1, StatsAreGroups
<1>2. IsFiniteSet(Rows) /\ IsFiniteSet(C) /\ \A i \in Rows : AllHours[i] \in Int /\ ComboOf[i] \in C
  BY TableShape, StatsAreGroups
<1>3. On(g, C) = On(AllHours, Rows)
  <2> HIDE DEF C
  <2> QED BY <1>2, SumOfGroups
<1> HIDE DEF f, g
<1> QED BY <1>1, <1>3, SumIsOn DEF f

\* Rows that are not left open for ever follow one another.
LEMMA LiveRowsInTurn ==
  ASSUME TypeInv, TimesInv, SpanInv,
         NEW S, S = Rows \ {i \in Rows : Ghost(i)}
  PROVE  InTurn(S, [i \in S |-> trials[i].started], [i \in S |-> Until(i)])
<1>1. S \subseteq Rows /\ S \subseteq Int
  BY TableShape
<1>2. \A i \in S : /\ trials[i].started \in Nat /\ Until(i) \in Nat
                  /\ trials[i].started <= Until(i)
  BY <1>1, HoursType
<1>3. ASSUME NEW i \in S, NEW j \in S, i < j PROVE Until(i) <= trials[j].started
  <2>1. trials[i].by # "null"
    <3>1. SUFFICES ASSUME trials[i].by = "null" PROVE FALSE
      OBVIOUS
    <3>2. i = tid /\ pc \in RowOpen
      BY <1>1, <3>1 DEF Ghost, RowOpen
    <3>3. i = Len(trials)
      BY <3>2, ClosesLastRow
    <3> QED BY <1>1, <1>3, <3>3, TableShape
  <2>2. Until(i) = trials[i].ended
    BY <1>1, <2>1, HoursType
  <2> QED BY <1>1, <1>3, <2>1, <2>2 DEF TimesInv, TrialsDontOverlap
<1> QED BY <1>1, <1>2, <1>3 DEF InTurn

\* All hours shown, the ghosts' apart, fit into the time that has passed.
THEOREM HoursFitTheClock == Spec => []HoursAccounted
<1>1. TypeInv /\ TimesInv /\ SpanInv => HoursAccounted
  <2> SUFFICES ASSUME TypeInv, TimesInv, SpanInv
               PROVE  HoursAccounted
    OBVIOUS
  <2> DEFINE G == {i \in Rows : Ghost(i)}
             S == Rows \ G
             f == [i \in G |-> Hours(trials[i])]
             from == [i \in S |-> trials[i].started]
             to == [i \in S |-> Until(i)]
  <2>1. SumFunction(f) = On(AllHours, G)
    <3>1. DOMAIN f = G /\ \A i \in G : f[i] = AllHours[i]
      BY DEF AllHours, HoursAt
    <3>2. IsFiniteSet(G)
      BY TableShape, FS_Subset
    <3> HIDE DEF f, G
    <3> QED BY <3>1, <3>2, SumIsOn, SumSame
  <2>2. On(AllHours, Rows) = On(AllHours, G) + On(AllHours, S)
    <3>1. G \subseteq Rows /\ IsFiniteSet(Rows) /\ \A i \in Rows : AllHours[i] \in Int
      BY TableShape, StatsAreGroups
    <3> HIDE DEF G
    <3> QED BY <3>1, SumSplit
  <2>3. On(AllHours, S) <= clock
    <3>1. InTurn(S, from, to)
      BY LiveRowsInTurn
    <3>2. /\ IsFiniteSet(S) /\ clock \in Nat
          /\ \A i \in S : AllHours[i] = to[i] - from[i] /\ to[i] <= clock
      <4>1. S \subseteq Rows
        OBVIOUS
      <4> HIDE DEF S
      <4> QED BY <4>1, TableShape, FS_Subset, HoursType DEF AllHours
    <3> HIDE DEF S, from, to
    <3> QED BY <3>1, <3>2, SumOfSpans
  <2>4. On(AllHours, G) \in Int /\ On(AllHours, S) \in Int /\ clock \in Int
    <3>1. G \subseteq Rows /\ S \subseteq Rows
      OBVIOUS
    <3> HIDE DEF G, S
    <3> QED BY <3>1, TableShape, FS_Subset, StatsAreGroups, SumInt
  <2>5. SumFunction([c \in DOMAIN TrialStats |-> TrialStats[c].hours]) - SumFunction(f) <= clock
    <3> HIDE DEF f, G, S
    <3> QED BY <2>1, <2>2, <2>3, <2>4, HoursOfAll
  <2> QED BY <2>5 DEF HoursAccounted, Sum
<1> QED BY <1>1, TypeInvariance, TimesInvariance, SpanInvariance, PTL

-----------------------------------------------------------------------------
(* The hours of a channel                                                  *)

\* The dashboard looks such a combination up as the block it is.
LEMMA CoveredIsBlock ==
  ASSUME NEW c, IsCombination(c)
  PROVE  Covered(c) = Block(c[1], c[2])
<1>1. CASE c[2] = 20 /\ c[1] \in Int
  <2>1. Covered(c) = {c[1]}
    BY <1>1 DEF Covered
  <2> QED BY <1>1, <2>1, BlockNames
<1>2. ASSUME NEW groups, \A g \in groups : g[1] = c[1] => Range(g) = Block(c[1], c[2]),
             \E g \in groups : g[1] = c[1]
      PROVE  LET group == {g \in groups : g[1] = c[1]}
             IN  group # {} /\ UNION {Range(g) : g \in group} = Block(c[1], c[2])
  <2> DEFINE group == {g \in groups : g[1] = c[1]}
  <2>1. PICK g \in group : Range(g) = Block(c[1], c[2])
    BY <1>2
  <2>2. \A h \in group : Range(h) = Block(c[1], c[2])
    BY <1>2
  <2>3. UNION {Range(h) : h \in group} = Block(c[1], c[2])
    BY <2>1, <2>2
  <2> QED BY <2>1, <2>3
<1>3. /\ \A g \in Groups40 : Head(g) = g[1]
      /\ \A g \in Groups80 : Head(g) = g[1]
      /\ \A g \in Groups160 : Head(g) = g[1]
  BY DEF Groups40, Groups80, Groups160
<1>4. CASE c[2] = 40 /\ Aligned(c[1], c[2])
  <2>1. c[1] \in Heads(40)
    BY <1>4, AlignedHeads
  <2>2. Covered(c) = LET group == {g \in Groups40 : g[1] = c[1]}
                     IN  IF group = {} THEN {c[1]} ELSE UNION {Range(g) : g \in group}
    BY <1>4 DEF Covered
  <2>3. \A g \in Groups40 : g[1] = c[1] => Range(g) = Block(c[1], c[2])
    BY <1>3, <1>4, TablesAreBlocks
  <2>4. \E g \in Groups40 : g[1] = c[1]
    BY <1>3, <2>1, TablesAreBlocks
  <2> QED BY <1>2, <2>2, <2>3, <2>4
<1>5. CASE c[2] = 80 /\ Aligned(c[1], c[2])
  <2>1. c[1] \in Heads(80)
    BY <1>5, AlignedHeads
  <2>2. Covered(c) = LET group == {g \in Groups80 : g[1] = c[1]}
                     IN  IF group = {} THEN {c[1]} ELSE UNION {Range(g) : g \in group}
    BY <1>5 DEF Covered
  <2>3. \A g \in Groups80 : g[1] = c[1] => Range(g) = Block(c[1], c[2])
    BY <1>3, <1>5, TablesAreBlocks
  <2>4. \E g \in Groups80 : g[1] = c[1]
    BY <1>3, <2>1, TablesAreBlocks
  <2> QED BY <1>2, <2>2, <2>3, <2>4
<1>6. CASE c[2] = 160 /\ Aligned(c[1], c[2])
  <2>1. c[1] \in Heads(160)
    BY <1>6, AlignedHeads
  <2>2. Covered(c) = LET group == {g \in Groups160 : g[1] = c[1]}
                     IN  IF group = {} THEN {c[1]} ELSE UNION {Range(g) : g \in group}
    BY <1>6 DEF Covered
  <2>3. \A g \in Groups160 : g[1] = c[1] => Range(g) = Block(c[1], c[2])
    BY <1>3, <1>6, TablesAreBlocks
  <2>4. \E g \in Groups160 : g[1] = c[1]
    BY <1>3, <2>1, TablesAreBlocks
  <2> QED BY <1>2, <2>2, <2>3, <2>4
<1> QED BY <1>1, <1>4, <1>5, <1>6 DEF IsCombination

\* The sum of the figures of some combinations is the sum over their rows.
LEMMA SumOverRows ==
  ASSUME TypeInv, TimesInv, SpanInv, NEW f, \A i \in Rows : f[i] \in Int,
         NEW D, NEW s, DOMAIN s = D \cap DOMAIN TrialStats,
         \A c \in DOMAIN s : s[c] = On(f, RowsOf(c))
  PROVE  SumFunction(s) = On(f, RowsOver(D))
<1> DEFINE over == DOMAIN s
           R == RowsOver(D)
           g == [c \in over |-> On(f, {i \in R : ComboOf[i] = c})]
<1>1. \A i \in R : ComboOf[i] \in over
  BY StatsAreGroups DEF ComboOf, RowsOver
<1> HIDE DEF over
<1>2. \A c \in over : RowsOf(c) = {i \in R : ComboOf[i] = c}
  BY DEF ComboOf, RowsOf, RowsOver, over
<1>3. IsFiniteSet(R) /\ IsFiniteSet(over) /\ R \subseteq Rows
  BY TableShape, StatsAreGroups, FS_Subset DEF over, RowsOver
<1>4. On(g, over) = On(f, R)
  <2> HIDE DEF R
  <2> QED BY <1>1, <1>3, SumOfGroups
<1>5. \A c \in over : s[c] = g[c]
  BY <1>2 DEF over
<1>6. On(s, over) = On(g, over)
  <2> HIDE DEF g
  <2> QED BY <1>3, <1>5, SumSame
<1> QED BY <1>4, <1>6, SumIsOn DEF over

\* The hours and detections of a channel are those of the rows whose 802.11 block
\* contains it, for every set of combinations the planner may make.
THEOREM ChannelsGetTheirRows ==
  (\A c \in Combos : IsCombination(c)) => (Spec => []SubchannelSums)
<1> SUFFICES ASSUME \A c \in Combos : IsCombination(c)
             PROVE  Spec => []SubchannelSums
  OBVIOUS
<1>1. TypeInv /\ TimesInv /\ SpanInv => SubchannelSums
  <2> SUFFICES ASSUME TypeInv, TimesInv, SpanInv, NEW ch \in All5
               PROVE  LET over == {i \in Rows : trials[i].combo \in Spanning[ch]}
                      IN  /\ BySubchannel[ch].hours = Sum([i \in over |-> Hours(trials[i])])
                          /\ BySubchannel[ch].radar = Sum([i \in over |-> trials[i].radar])
    BY DEF SubchannelSums
  <2> DEFINE D == Spanning[ch]
             over == Covering[ch] \cap DOMAIN TrialStats
             R == RowsOver(D)
             hours == [c \in over |-> TrialStats[c].hours]
             radars == [c \in over |-> TrialStats[c].detections]
             f == [i \in R |-> Hours(trials[i])]
             g == [i \in R |-> trials[i].radar]
  <2>1. over = D \cap DOMAIN TrialStats
    <3>1. \A c \in Combos : Covered(c) = Block(c[1], c[2])
      BY CoveredIsBlock
    <3> QED BY <3>1 DEF Covering, Spanning
  <2>2. BySubchannel[ch].hours = SumFunction(hours) /\ BySubchannel[ch].radar = SumFunction(radars)
    BY DEF BySubchannel, Sum
  <2>3. SumFunction(hours) = On(AllHours, R) /\ SumFunction(radars) = On(AllRadar, R)
    <3>1. DOMAIN hours = over /\ \A c \in over : hours[c] = TrialStats[c].hours
      OBVIOUS
    <3>2. DOMAIN radars = over /\ \A c \in over : radars[c] = TrialStats[c].detections
      OBVIOUS
    <3>3. \A i \in Rows : AllHours[i] \in Int /\ AllRadar[i] \in Int
      BY StatsAreGroups
    <3>4. over \subseteq DOMAIN TrialStats
      OBVIOUS
    <3> HIDE DEF hours, radars, over, D
    <3>5. \A c \in over : hours[c] = On(AllHours, RowsOf(c))
      BY <3>1, <3>4, StatsAreGroups
    <3>6. \A c \in over : radars[c] = On(AllRadar, RowsOf(c))
      BY <3>2, <3>4, StatsAreGroups
    <3> HIDE DEF R, f, g
    <3>7. SumFunction(hours) = On(AllHours, RowsOver(D))
      BY <2>1, <3>1, <3>3, <3>5, SumOverRows
    <3>8. SumFunction(radars) = On(AllRadar, RowsOver(D))
      BY <2>1, <3>2, <3>3, <3>6, SumOverRows
    <3> QED BY <3>7, <3>8 DEF R
  <2>4. SumFunction(f) = On(AllHours, R) /\ SumFunction(g) = On(AllRadar, R)
    <3>1. /\ DOMAIN f = R /\ DOMAIN g = R /\ IsFiniteSet(R)
          /\ \A i \in R : f[i] = AllHours[i] /\ g[i] = AllRadar[i]
      BY TableShape, FS_Subset DEF AllHours, AllRadar, HoursAt, RowsOver
    <3> HIDE DEF f, g, R
    <3> QED BY <3>1, SumIsOn, SumSame
  <2> QED BY <2>2, <2>3, <2>4 DEF Sum, RowsOver
<1> QED BY <1>1, TypeInvariance, TimesInvariance, SpanInvariance, PTL
=============================================================================
