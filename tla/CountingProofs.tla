--------------------------- MODULE CountingProofs ---------------------------
(***************************************************************************)
(* Machine-checked proofs about what the trials table adds up to: the      *)
(* radar events the rows count, and the hours a clean verdict rests on.    *)
(***************************************************************************)
EXTENDS SchedulerProofs, DataLemmas

-----------------------------------------------------------------------------
(* What a step does to the rows and the events.                            *)

\* The table and the clock, in the form the proofs below use.
LEMMA TableShape ==
  ASSUME TypeInv
  PROVE  /\ trials \in Seq(RowType) /\ clock \in Nat /\ Len(trials) \in Nat
         /\ Rows = 1..Len(trials) /\ IsFiniteSet(Rows)
         /\ \A i \in Rows : trials[i] \in RowType
BY LenProperties, ElementOfSeq, FS_Interval DEF TypeInv, TypeOK, Rows

\* A new row is appended, open and without radar.
Opened ==
  /\ pc \in {"open", "fail_open"} /\ clock' = clock /\ trial \in Combos
  /\ tid' = Len(trials) + 1
  /\ Rows' = Rows \cup {tid'} /\ tid' \notin Rows
  /\ \A i \in Rows : trials'[i] = trials[i]
  /\ trials'[tid'] = Row(trial, clock)

\* The last row is closed with verdict by and n radar events.
ClosedWith(by, n) ==
  /\ Rows' = Rows /\ tid \in Rows /\ tid = Len(trials) /\ clock' = clock /\ tid' = tid
  /\ trials[tid].by = "null" /\ trials[tid].combo = trial
  /\ \A i \in Rows : i # tid => trials'[i] = trials[i]
  /\ trials'[tid] = [trials[tid] EXCEPT !.ended = clock, !.by = by, !.radar = n]

\* The end of a trial that was measured, and of one that was never applied.
Ended  == CloseTrial /\ ClosedWith(EndedBy, radar)
Failed == CloseFailed /\ ClosedWith("apply_failed", 0)

\* A step opens a row, ends the one that is watched, closes a failed one, or writes none.
LEMMA RowSteps ==
  ASSUME TypeInv, [Next]_vars
  PROVE  Opened \/ Ended \/ Failed \/ StillStep
<1>1. CASE OpenStep
  <2>1. trial \in Combos
    BY <1>1 DEF OpenStep, TypeInv, RowInv, Applying
  <2>2. Len(trials') = Len(trials) + 1 /\ trials' \in Seq(RowType)
    BY <1>1, <2>1, TableShape, AppendRow DEF OpenStep
  <2>3. DOMAIN trials' = 1..(Len(trials) + 1)
    BY <2>2, LenProperties
  <2> QED BY <1>1, <2>1, <2>3, TableShape, AppendRow DEF OpenStep, Opened, Rows
<1>2. ASSUME CloseTrial \/ CloseFailed, NEW by \in TL!Verdicts, NEW n \in Nat,
             trials' = [trials EXCEPT ![tid] = Closed(@, by, n)]
      PROVE  ClosedWith(by, n)
  <2>1. pc \in RowOpen /\ clock' = clock /\ tid' = tid
    BY <1>2 DEF CloseTrial, CloseFailed, ReturnFromTrial, RowOpen, Watching
  <2>2. /\ trials \in Seq(RowType) /\ tid = Len(trials) /\ tid > 0 /\ tid \in Rows
        /\ trials[tid].by = "null" /\ trials[tid].combo = trial
    BY <2>1, ClosesLastRow, TableShape
  <2>3. /\ Len(trials') = Len(trials) /\ trials' \in Seq(RowType)
        /\ \A i \in 1..Len(trials) : i # tid => trials'[i] = trials[i]
        /\ trials'[tid] = Closed(trials[tid], by, n)
    BY <1>2, <2>2, TableShape, CloseRowProperties
  <2>4. Rows' = Rows
    BY <2>3, TableShape, LenProperties DEF Rows
  <2> QED BY <2>1, <2>2, <2>3, <2>4, TableShape DEF ClosedWith, Closed
<1>3. CASE CloseTrial
  <2>1. EndedBy \in TL!Verdicts /\ radar \in Nat /\ clock \in Nat
    BY DEF EndedBy, TL!Verdicts, TypeInv, TypeOK
  <2>2. CASE trials' = trials
    BY <1>3, <2>1, <2>2 DEF CloseTrial, StillStep
  <2>3. CASE trials' = [trials EXCEPT ![tid] = Closed(@, EndedBy, radar)]
    BY <1>2, <1>3, <2>1, <2>3 DEF Ended
  <2> QED BY <1>3, <2>2, <2>3 DEF CloseTrial
<1>4. CASE CloseFailed
  <2>1. "apply_failed" \in TL!Verdicts /\ clock \in Nat
    BY DEF TL!Verdicts, TypeInv, TypeOK
  <2>2. CASE trials' = trials
    BY <1>4, <2>1, <2>2 DEF CloseFailed, StillStep
  <2>3. CASE trials' = [trials EXCEPT ![tid] = Closed(@, "apply_failed", 0)]
    BY <1>2, <1>4, <2>1, <2>3 DEF Failed
  <2> QED BY <1>4, <2>2, <2>3 DEF CloseFailed
<1> QED BY <1>1, <1>3, <1>4, OtherSteps

\* Events are only ever added, by the listener, and only datagrams on their way.
EventStep ==
  \/ events' = events /\ inflight' \subseteq inflight
  \/ /\ events' = events /\ clock' = clock
     /\ \E h \in Nat, ahead \in Offsets :
          inflight' = inflight \cup {[hit |-> h, ts |-> clock + ahead]}
  \/ /\ UNCHANGED <<clock, trials, pc, process, frame>>
     /\ \E m \in inflight : \E ts \in {m.ts, clock} :
          inflight' = inflight \ {m} /\ events' = Append(events, ts)

\* Every step is one of these.
LEMMA EventSteps == TypeInv /\ [Next]_vars => EventStep
<1> SUFFICES ASSUME TypeInv, [Next]_vars
             PROVE  EventStep
  OBVIOUS
<1> USE DEF air, db, process, frame
<1>1. CASE Boot \/ Stop \/ Exit \/ JoinExpires \/ Kill
  BY <1>1 DEF Boot, Stop, Exit, JoinExpires, Kill, PowerOff, EventStep
<1>2. CASE BuildQueue \/ Login \/ Window \/ PickTrial \/ FindAp \/ PutRadio \/ Refetch \/ Stamp
  BY <1>2 DEF BuildQueue, Login, Window, PickTrial, FindAp, PutRadio, Refetch, Stamp, EventStep
<1>3. CASE OpenTrial \/ CountRadar \/ CheckDeadline \/ NapOver \/ CloseTrial \/ Cool
  BY <1>3 DEF OpenTrial, CountRadar, CheckDeadline, NapOver, CloseTrial, Cool, EventStep
<1>4. CASE OpenFailed \/ CloseFailed \/ FailedNap \/ Tick \/ Lose
  BY <1>4 DEF OpenFailed, CloseFailed, FailedNap, Tick, Lose, EventStep
<1>5. CASE HitTarget \/ HitNeighbour
  <2>1. hits + 1 \in Nat
    BY DEF TypeInv, TypeOK
  <2>2. hits' = hits + 1 /\ UNCHANGED <<clock, events>>
    BY <1>5 DEF HitTarget, HitNeighbour, Send
  <2>3. PICK ahead \in Offsets : inflight' = inflight \cup {[hit |-> hits', ts |-> clock + ahead]}
    BY <1>5 DEF HitTarget, HitNeighbour, Send
  <2>4. \E h \in Nat : inflight' = inflight \cup {[hit |-> h, ts |-> clock + ahead]}
    BY <2>1, <2>2, <2>3
  <2> QED BY <2>2, <2>4 DEF EventStep
<1>6. CASE Deliver
  BY <1>6 DEF Deliver, EventStep
<1>7. CASE UNCHANGED vars
  BY <1>7 DEF vars, EventStep
<1> QED BY <1>1, <1>2, <1>3, <1>4, <1>5, <1>6, <1>7 DEF Next, ThreadStep, Done

\* In a step the events stored stay where they are.
LEMMA EventsKept ==
  ASSUME TypeInv, [Next]_vars
  PROVE  /\ events' \in Seq(Int) /\ IsFiniteSet(DOMAIN events')
         /\ DOMAIN events \subseteq DOMAIN events'
         /\ \A k \in DOMAIN events : events'[k] = events[k]
<1>1. events \in Seq(Int) /\ events' \in Seq(Int)
  <2>1. TypeInv'
    BY TypeInvStep
  <2> QED BY <2>1 DEF TypeInv, TypeOK
<1>2. /\ Len(events) \in Nat /\ Len(events') \in Nat
      /\ DOMAIN events = 1..Len(events) /\ DOMAIN events' = 1..Len(events')
  BY <1>1, LenProperties
<1>3. IsFiniteSet(DOMAIN events')
  BY <1>2, FS_Interval
<1>4. CASE events' = events
  BY <1>1, <1>3, <1>4
<1>5. ASSUME NEW m \in inflight, NEW ts \in {m.ts, clock}, events' = Append(events, ts)
      PROVE  DOMAIN events \subseteq DOMAIN events' /\ \A k \in DOMAIN events : events'[k] = events[k]
  <2>1. ts \in Int
    BY DEF TypeInv, TypeOK
  <2> QED BY <1>1, <1>2, <1>5, <2>1, AppendProperties
<1> QED BY <1>1, <1>3, <1>4, <1>5, EventSteps DEF EventStep

-----------------------------------------------------------------------------
(* Radar events are counted at most once.                                  *)

\* With no sender ahead of UTC, no event comes from the future.
StampsInv ==
  /\ \A k \in DOMAIN events : events[k] <= clock
  /\ \A m \in inflight : m.ts <= clock

\* A stamp is the clock's or older when it is sent, and the clock does not go back.
LEMMA StampsInvStep ==
  ASSUME NoSenderAhead, TypeInv, StampsInv, [Next]_vars
  PROVE  StampsInv'
<1>1. clock \in Nat /\ clock' \in Nat /\ clock' >= clock
  BY StepKinds DEF TypeInv, TypeOK, OpenStep, CloseStep, StillStep
<1>2. events \in Seq(Int) /\ inflight \subseteq [hit : Nat, ts : Int]
  BY DEF TypeInv, TypeOK
<1>3. \A k \in DOMAIN events : events[k] \in Int /\ events[k] <= clock'
  BY <1>1, <1>2, ElementOfSeq, LenProperties DEF StampsInv
<1>4. \A m \in inflight : m.ts \in Int /\ m.ts <= clock'
  BY <1>1, <1>2 DEF StampsInv
<1>5. CASE events' = events /\ inflight' \subseteq inflight
  BY <1>3, <1>4, <1>5 DEF StampsInv
<1>6. ASSUME NEW h \in Nat, NEW ahead \in Offsets, events' = events,
             inflight' = inflight \cup {[hit |-> h, ts |-> clock + ahead]}
      PROVE  StampsInv'
  <2>1. clock + ahead <= clock'
    BY <1>1, OffsetAssumption DEF NoSenderAhead
  <2>2. \A m \in inflight' : m \in inflight \/ m.ts = clock + ahead
    BY <1>6
  <2> QED BY <1>3, <1>4, <1>6, <2>1, <2>2 DEF StampsInv
<1>7. ASSUME NEW m \in inflight, NEW ts \in {m.ts, clock},
             inflight' = inflight \ {m}, events' = Append(events, ts)
      PROVE  StampsInv'
  <2>0. ts \in Int /\ ts <= clock'
    BY <1>1, <1>4
  <2>1. DOMAIN events' = 1..(Len(events) + 1) /\ events'[Len(events) + 1] = ts
        /\ Len(events) \in Nat /\ DOMAIN events = 1..Len(events)
    BY <1>2, <1>7, <2>0, AppendProperties, LenProperties
  <2>2. \A k \in DOMAIN events' : k \in DOMAIN events \/ k = Len(events) + 1
    BY <2>1
  <2>3. \A k \in DOMAIN events' : events'[k] <= clock'
    BY <1>3, <2>0, <2>1, <2>2, EventsKept
  <2> QED BY <1>4, <1>7, <2>3 DEF StampsInv
<1> QED BY <1>5, <1>6, <1>7, EventSteps DEF EventStep
\* The rows that counted radar, and that they were over before t.
HitRows == {i \in Rows : trials[i].radar > 0}

\* Every hit ended before t.
Past(t) == \A i \in HitRows : trials[i].ended < t

\* A row that counted radar is closed, and by the time the next trial starts its
\* end is in the past: the cooldown, or a boot, is between them.
PastInv ==
  /\ \A i \in HitRows : trials[i].by # "null"
  /\ pc \in Running \cup {"plan"} =>
       \/ pc = "cool" /\ Past(wake)
       \/ pc = "idle" /\ stop
       \/ Past(clock)
  /\ pc \in Watching \cup {"open"} => since <= clock /\ Past(since)
  /\ radar > 0 => pc = "close"

\* Only the end of a trial that was hit adds a hit.
LEMMA HitSteps ==
  ASSUME TypeInv, PastInv, [Next]_vars
  PROVE  \/ HitRows' = HitRows /\ \A i \in HitRows : trials'[i] = trials[i]
         \/ Ended /\ radar > 0
<1>1. CASE Opened
  BY <1>1 DEF Opened, HitRows, Row
<1>2. ASSUME NEW by, NEW n \in Nat, ClosedWith(by, n), ~(n > 0)
      PROVE  HitRows' = HitRows /\ \A i \in HitRows : trials'[i] = trials[i]
  <2>1. ClosedWith(by, n) /\ ~(n > 0)
    BY <1>2
  <2>2. tid \in Rows /\ trials[tid] \in RowType /\ tid \notin HitRows
    BY <2>1, TableShape DEF ClosedWith, PastInv
  <2>3. trials'[tid].radar = n
    BY <2>1, <2>2 DEF ClosedWith, RowType
  <2> QED BY <2>1, <2>2, <2>3 DEF ClosedWith, HitRows
<1>3. CASE StillStep
  BY <1>3 DEF StillStep, HitRows, Rows
<1>4. radar \in Nat /\ 0 \in Nat
  BY DEF TypeInv, TypeOK
<1> QED BY <1>1, <1>2, <1>3, <1>4, RowSteps DEF Ended, Failed

\* A cooldown or a boot lies between a hit and the next start.
LEMMA PastInvStep ==
  ASSUME Cooldown > 0, TypeInv, TimesInv, PastInv, [Next]_vars
  PROVE  PastInv'
<1>0. /\ clock \in Nat /\ wake \in Nat /\ since \in Nat /\ radar \in Nat /\ Cooldown \in Nat
      /\ \A i \in HitRows : trials[i].ended \in Nat /\ trials[i].ended <= clock
  BY TimingAssumption DEF TypeInv, TypeOK, TimesInv, PastInv, HitRows
<1>1. CASE Ended /\ radar > 0
  <2>1. pc = "close" /\ EndedBy = "radar" /\ TypeInv'
    BY <1>1, TypeInvStep DEF PastInv, EndedBy
  <2>2. pc' \in {"cool", "dead"} /\ (pc' = "cool" => wake' = clock + Cooldown) /\ radar' = 0
    BY <1>1, <2>1 DEF Ended, CloseTrial, Goto, ReturnFromTrial
  <2>3. Past(since) /\ since <= clock
    BY <2>1 DEF PastInv, Watching
  <2>4. trials'[tid].by = "radar" /\ trials'[tid].ended = clock
    BY <1>1, <2>1, TableShape DEF Ended, ClosedWith, RowType
  <2>5. \A i \in HitRows' : i = tid \/ (i \in HitRows /\ trials'[i] = trials[i])
    BY <1>1 DEF Ended, ClosedWith, HitRows
  <2>6. \A i \in HitRows' : trials'[i].by # "null" /\ trials'[i].ended < clock + Cooldown
    BY <1>0, <2>3, <2>4, <2>5 DEF PastInv, Past
  <2> QED BY <1>0, <2>2, <2>6 DEF PastInv, Past, Watching, Running, Measuring
<1>2. ASSUME HitRows' = HitRows, \A i \in HitRows : trials'[i] = trials[i]
      PROVE  PastInv'
  <2>1. /\ \A i \in HitRows' : trials'[i].by # "null"
        /\ \A t : Past(t)' <=> Past(t)
        /\ \A t, u \in Nat : Past(t) /\ t <= u => Past(u)
        /\ Past(clock + 1)
    BY <1>0, <1>2 DEF PastInv, Past
  <2> HIDE DEF Past
  <2> USE DEF PastInv, Running, Measuring, Watching, Goto, air, db, process, frame
  <2>2. CASE Boot
    BY <1>0, <2>1, <2>2 DEF Boot
  <2>3. CASE Stop
    BY <1>0, <2>1, <2>3 DEF Stop
  <2>4. CASE Exit \/ JoinExpires \/ Kill
    BY <2>1, <2>4 DEF Exit, JoinExpires, Kill, PowerOff
  <2>5. CASE BuildQueue \/ Login \/ Window
    BY <2>1, <2>5 DEF BuildQueue, Login, Window
  <2>6. CASE PickTrial \/ FindAp \/ PutRadio \/ Refetch
    BY <2>1, <2>6 DEF PickTrial, FindAp, PutRadio, Refetch
  <2>7. CASE Stamp
    BY <1>0, <2>1, <2>7 DEF Stamp
  <2>8. CASE OpenTrial \/ OpenFailed
    BY <2>1, <2>8 DEF OpenTrial, OpenFailed
  <2>9. CASE CountRadar
    <3>1. RadarSince(since) \in Nat
      BY <1>0, RadarSinceType DEF TypeInv, TypeOK
    <3> QED BY <1>0, <2>1, <2>9, <3>1 DEF CountRadar
  <2>10. CASE CheckDeadline \/ NapOver
    BY <2>1, <2>10 DEF CheckDeadline, NapOver
  <2>11. CASE CloseTrial \/ CloseFailed
    <3>1. CASE pc' = "dead"
      BY <1>0, <2>1, <2>11, <3>1 DEF CloseTrial, CloseFailed, ReturnFromTrial
    <3>2. CASE pc' # "dead"
      <4>1. radar' = 0 /\ clock' = clock /\ stop' = stop /\ Past(clock)
        BY <1>0, <2>1, <2>11 DEF CloseTrial, CloseFailed, ReturnFromTrial
      <4>2. pc' \in {"cool", "window", "idle", "fail_nap"} /\ (pc' = "cool" => wake' = clock + Cooldown)
        BY <2>11, <3>2 DEF CloseTrial, CloseFailed
      <4>3. clock + Cooldown \in Nat /\ clock <= clock + Cooldown
        BY <1>0
      <4> QED BY <1>0, <2>1, <4>1, <4>2, <4>3
    <3> QED BY <3>1, <3>2
  <2>12. CASE Cool \/ FailedNap
    BY <1>0, <2>1, <2>12 DEF Cool, FailedNap
  <2>13. CASE Tick
    <3>1. /\ pc' = pc /\ clock' = clock + 1 /\ since' = since /\ stop' = stop /\ radar' = radar
          /\ wake' = wake
      BY <2>13 DEF Tick
    <3> QED BY <1>0, <2>1, <3>1
  <2>14. CASE HitTarget \/ HitNeighbour \/ Deliver \/ Lose
    BY <2>1, <2>14 DEF HitTarget, HitNeighbour, Send, Deliver, Lose
  <2>15. CASE UNCHANGED vars
    BY <2>1, <2>15 DEF vars
  <2> QED BY <2>2, <2>3, <2>4, <2>5, <2>6, <2>7, <2>8, <2>9, <2>10, <2>11, <2>12, <2>13, <2>14,
             <2>15 DEF Next, ThreadStep, Done
<1> QED BY <1>1, <1>2, HitSteps

\* The events no later row will count: those up to the end of some hit.
Spent == {k \in DOMAIN events : \E i \in HitRows : events[k] <= trials[i].ended}

\* What the rows show.
RadarShown == SumFunction([i \in Rows |-> trials[i].radar])

\* What a trial counted was stored since it started; what the rows show is spent.
CountInv ==
  /\ pc \in Watching => radar <= RadarSince(since)
  /\ RadarShown <= Cardinality(Spent)

\* More events do not make a radar query return less.
LEMMA RadarSinceGrows ==
  ASSUME TypeInv, [Next]_vars, NEW t \in Nat
  PROVE  RadarSince(t) \in Nat /\ RadarSince(t)' \in Nat /\ RadarSince(t) <= RadarSince(t)'
<1> DEFINE A == {k \in DOMAIN events : events[k] >= t}
           B == {k \in DOMAIN events' : events'[k] >= t}
<1>1. A \subseteq B /\ B \subseteq DOMAIN events'
  BY EventsKept
<1>2. IsFiniteSet(B)
  BY <1>1, EventsKept, FS_Subset
<1>3. RadarSince(t) = Cardinality(A) /\ RadarSince(t)' = Cardinality(B)
  BY DEF RadarSince
<1> HIDE DEF A, B
<1> QED BY <1>1, <1>2, <1>3, FS_Subset, FS_CardinalityType

\* The sum over the rows changes by what the step adds.
LEMMA RadarShownSteps ==
  ASSUME TypeInv, PastInv, [Next]_vars
  PROVE  /\ RadarShown \in Int
         /\ Ended => RadarShown' = RadarShown - trials[tid].radar + radar
         /\ ~Ended => RadarShown' = RadarShown
<1> DEFINE f == [i \in Rows |-> trials[i].radar]
           g == [i \in Rows' |-> trials'[i].radar]
<1>1. RadarShown = SumFunction(f) /\ RadarShown' = SumFunction(g)
  BY DEF RadarShown
<1>2. IsFiniteSet(DOMAIN f) /\ \A i \in DOMAIN f : f[i] \in Nat
  BY TableShape DEF RowType
<1>3. RadarShown \in Int
  <2> HIDE DEF f
  <2> QED BY <1>1, <1>2, SumFunctionInt
<1>4. ASSUME Opened PROVE RadarShown' = RadarShown
  <2>1. /\ tid' \notin DOMAIN f /\ DOMAIN g = DOMAIN f \cup {tid'} /\ g[tid'] = 0
        /\ \A i \in DOMAIN f : f[i] \in Int /\ g[i] = f[i]
    BY <1>2, <1>4 DEF Opened, Row
  <2> HIDE DEF f, g
  <2>2. SumFunction(g) = SumFunction(f) + g[tid']
    BY <1>2, <2>1, SumFunctionExtend
  <2> QED BY <1>1, <1>3, <2>1, <2>2
<1>5. ASSUME NEW by, NEW n \in Nat, ClosedWith(by, n)
      PROVE  RadarShown' = RadarShown - trials[tid].radar + n
  <2>1. trials'[tid].radar = n /\ tid \in Rows
    BY <1>5, TableShape DEF ClosedWith, RowType
  <2>2. /\ tid \in DOMAIN f /\ DOMAIN g = DOMAIN f /\ f[tid] = trials[tid].radar /\ g[tid] = n
        /\ \A i \in DOMAIN f : f[i] \in Int /\ g[i] \in Int /\ (i # tid => g[i] = f[i])
    <3>1. Rows' = Rows /\ \A i \in Rows : i # tid => trials'[i] = trials[i]
      BY <1>5 DEF ClosedWith
    <3>2. \A i \in Rows : f[i] = trials[i].radar /\ g[i] = trials'[i].radar
      BY <3>1
    <3>3. DOMAIN f = Rows /\ DOMAIN g = Rows
      BY <3>1
    <3>4. \A i \in Rows : i # tid => g[i] = f[i]
      BY <3>1, <3>2
    <3> HIDE DEF f, g
    <3> QED BY <1>2, <2>1, <3>2, <3>3, <3>4
  <2> HIDE DEF f, g
  <2>3. SumFunction(g) = SumFunction(f) - f[tid] + g[tid]
    BY <1>2, <2>2, SumFunctionChange
  <2> QED BY <1>1, <2>2, <2>3
<1>6. ASSUME tid \in Rows, trials[tid].by = "null" PROVE trials[tid].radar = 0
  BY <1>6, TableShape DEF PastInv, HitRows, RowType
<1>7. ASSUME StillStep PROVE RadarShown' = RadarShown
  BY <1>7 DEF StillStep, RadarShown, Rows
<1>8. radar \in Nat
  BY DEF TypeInv, TypeOK
<1>9. CASE Failed
  <2>1. trials[tid].radar = 0 /\ RadarShown' = RadarShown - trials[tid].radar + 0
    BY <1>5, <1>6, <1>9 DEF Failed, ClosedWith
  <2>2. ~Ended
    BY <1>9 DEF Failed, Ended, CloseFailed, CloseTrial
  <2> QED BY <1>3, <2>1, <2>2
<1>10. CASE Ended
  BY <1>3, <1>5, <1>8, <1>10 DEF Ended
<1> QED BY <1>3, <1>4, <1>7, <1>9, <1>10, RowSteps
\* Spent events stay spent.
LEMMA SpentGrows ==
  ASSUME TypeInv, TimesInv, PastInv, [Next]_vars
  PROVE  /\ Spent \subseteq Spent' /\ Spent' \subseteq DOMAIN events' /\ IsFiniteSet(Spent')
         /\ Cardinality(Spent) \in Nat /\ Cardinality(Spent') \in Nat
         /\ Cardinality(Spent) <= Cardinality(Spent')
<1>1. \A i \in HitRows : i \in HitRows' /\ trials'[i].ended = trials[i].ended
  <2>1. CASE HitRows' = HitRows /\ \A i \in HitRows : trials'[i] = trials[i]
    BY <2>1
  <2>2. CASE Ended /\ radar > 0
    <3>1. \A i \in HitRows : i # tid
      BY <2>2 DEF Ended, ClosedWith, PastInv
    <3> QED BY <2>2, <3>1 DEF Ended, ClosedWith, HitRows
  <2> QED BY <2>1, <2>2, HitSteps
<1>2. Spent \subseteq Spent' /\ Spent' \subseteq DOMAIN events'
  BY <1>1, EventsKept DEF Spent
<1>3. IsFiniteSet(Spent')
  BY <1>2, EventsKept, FS_Subset
<1> QED BY <1>2, <1>3, FS_Subset, FS_CardinalityType

\* The events of a hit are not spent yet, and are spent when its row is closed.
LEMMA HitSpends ==
  ASSUME TypeInv, TimesInv, StampsInv, PastInv, [Next]_vars, Ended, radar > 0
  PROVE  Cardinality(Spent) + RadarSince(since) <= Cardinality(Spent')
<1> DEFINE S == Spent
           R == {k \in DOMAIN events : events[k] >= since}
           T == Spent'
<1>0. /\ since \in Nat /\ clock \in Nat
      /\ \A k \in DOMAIN events : events[k] \in Int
      /\ \A i \in HitRows : trials[i].ended \in Nat
  BY ElementOfSeq, LenProperties DEF TypeInv, TypeOK, TimesInv, PastInv, HitRows
<1>1. pc = "close" /\ Past(since)
  BY DEF PastInv, Watching
<1>2. S \cap R = {}
  BY <1>0, <1>1 DEF Past, Spent
<1>3. S \subseteq T /\ IsFiniteSet(T)
  BY SpentGrows
<1>4. R \subseteq T
  <2>1. tid \in HitRows' /\ trials'[tid].ended = clock
    <3>1. tid \in Rows' /\ trials'[tid].radar = radar /\ trials'[tid].ended = clock
      BY TableShape DEF Ended, ClosedWith, RowType
    <3> QED BY <3>1 DEF HitRows
  <2>2. ASSUME NEW k \in R PROVE k \in T
    <3>1. k \in DOMAIN events' /\ events'[k] = events[k] /\ events[k] <= clock
      BY EventsKept DEF StampsInv
    <3>2. events'[k] <= trials'[tid].ended
      BY <2>1, <3>1
    <3> QED BY <2>1, <3>1, <3>2 DEF Spent
  <2> QED BY <2>2
<1>5. RadarSince(since) = Cardinality(R)
  BY DEF RadarSince
<1> HIDE DEF S, R, T
<1>6. IsFiniteSet(S) /\ IsFiniteSet(R) /\ IsFiniteSet(S \cup R) /\ S \cup R \subseteq T
  BY <1>3, <1>4, FS_Subset, FS_Union
<1>7. Cardinality(S \cup R) = Cardinality(S) + Cardinality(R)
  <2>1. Cardinality(S \cup R) = Cardinality(S) + Cardinality(R) - Cardinality(S \cap R)
    BY <1>6, FS_Union
  <2>2. Cardinality(S) \in Nat /\ Cardinality(R) \in Nat /\ Cardinality({}) = 0
    BY <1>6, FS_CardinalityType, FS_EmptySet
  <2>3. Cardinality(S \cap R) = 0
    BY <1>2, <2>2
  <2> QED BY <2>1, <2>2, <2>3
<1>8. Cardinality(S \cup R) <= Cardinality(T)
  BY <1>3, <1>6, FS_Subset
<1> QED BY <1>5, <1>7, <1>8 DEF S, T

\* A hit spends the events it counts; no other step shows more radar.
LEMMA CountInvStep ==
  ASSUME TypeInv, TimesInv, StampsInv, PastInv, CountInv, [Next]_vars
  PROVE  CountInv'
<1>0. radar \in Nat /\ since \in Nat
  BY DEF TypeInv, TypeOK
<1>1. ASSUME pc' \in Watching PROVE radar' <= RadarSince(since)'
  <2>1. CASE CountRadar
    <3>1. /\ radar' = radar \/ radar' = RadarSince(since)
          /\ since' = since /\ events' = events /\ pc \in Watching
      BY <2>1 DEF CountRadar, db, Watching
    <3>2. RadarSince(since)' = RadarSince(since) /\ RadarSince(since) \in Nat
      BY <1>0, <3>1, RadarSinceType DEF RadarSince, TypeInv, TypeOK
    <3> QED BY <3>1, <3>2 DEF CountInv
  <2>2. CASE radar' = radar /\ since' = since /\ pc \in Watching
    <3>1. RadarSince(since) <= RadarSince(since)' /\ RadarSince(since) \in Nat
          /\ RadarSince(since)' \in Nat
      <4>1. \A t \in Nat : RadarSince(t) \in Nat /\ RadarSince(t)' \in Nat
                           /\ RadarSince(t) <= RadarSince(t)'
        BY RadarSinceGrows
      <4>2. RadarSince(since)' = Cardinality({k \in DOMAIN events' : events'[k] >= since'})
        BY DEF RadarSince
      <4>3. \A t \in Nat : RadarSince(t)' = Cardinality({k \in DOMAIN events' : events'[k] >= t})
        BY DEF RadarSince
      <4> QED BY <1>0, <2>2, <4>1, <4>2, <4>3
    <3> QED BY <1>0, <2>2, <3>1 DEF CountInv
  <2>3. CASE radar' = 0
    <3>1. TypeInv'
      BY TypeInvStep
    <3>2. RadarSince(since)' \in Nat
      <4>1. events' \in Seq(Int)
        BY <3>1 DEF TypeInv, TypeOK
      <4>2. IsFiniteSet({k \in DOMAIN events' : events'[k] >= since'})
        BY EventsKept, FS_Subset
      <4> QED BY <4>2, FS_CardinalityType DEF RadarSince
    <3> QED BY <2>3, <3>2
  <2>4. CountRadar \/ (radar' = radar /\ since' = since /\ pc \in Watching) \/ radar' = 0
    <3> USE DEF Goto, air, db, process, frame, Watching
    <3>1. CASE Boot \/ Stop \/ Exit \/ JoinExpires \/ Kill
      BY <1>1, <3>1 DEF Boot, Stop, Exit, JoinExpires, Kill, PowerOff
    <3>2. CASE BuildQueue \/ Login \/ Window \/ PickTrial \/ FindAp \/ PutRadio \/ Refetch \/ Stamp
      BY <1>1, <3>2 DEF BuildQueue, Login, Window, PickTrial, FindAp, PutRadio, Refetch, Stamp
    <3>3. CASE OpenTrial
      BY <1>0, <1>1, <3>3 DEF OpenTrial, PastInv
    <3>4. CASE CountRadar
      BY <3>4
    <3>5. CASE CheckDeadline \/ NapOver \/ CloseTrial \/ Cool
      BY <1>1, <3>5 DEF CheckDeadline, NapOver, CloseTrial, Cool, ReturnFromTrial
    <3>6. CASE OpenFailed \/ CloseFailed \/ FailedNap
      BY <1>1, <3>6 DEF OpenFailed, CloseFailed, FailedNap, ReturnFromTrial
    <3>7. CASE Tick \/ HitTarget \/ HitNeighbour \/ Deliver \/ Lose \/ UNCHANGED vars
      BY <1>1, <3>7 DEF Tick, HitTarget, HitNeighbour, Send, Deliver, Lose, vars
    <3> QED BY <3>1, <3>2, <3>3, <3>4, <3>5, <3>6, <3>7 DEF Next, ThreadStep, Done
  <2> QED BY <2>1, <2>2, <2>3, <2>4
<1>2. RadarShown' <= Cardinality(Spent')
  <2>1. CASE Ended
    <3>1. RadarShown \in Int /\ RadarShown' = RadarShown - trials[tid].radar + radar
      BY <2>1, RadarShownSteps
    <3>2. trials[tid].radar = 0
      BY <2>1, TableShape DEF Ended, ClosedWith, PastInv, HitRows, RowType
    <3>3. CASE radar > 0
      <4>1. radar <= RadarSince(since)
        <5>1. pc = "close"
          BY <3>3 DEF PastInv
        <5> QED BY <5>1 DEF CountInv, Watching
      <4>2. RadarSince(since) \in Nat
        BY <1>0, RadarSinceType DEF TypeInv, TypeOK
      <4> QED BY <1>0, <2>1, <3>1, <3>2, <3>3, <4>1, <4>2, HitSpends, SpentGrows DEF CountInv
    <3>4. CASE ~(radar > 0)
      BY <1>0, <3>1, <3>2, <3>4, SpentGrows DEF CountInv
    <3> QED BY <3>3, <3>4
  <2>2. CASE ~Ended
    BY <2>2, RadarShownSteps, SpentGrows DEF CountInv
  <2> QED BY <2>1, <2>2
<1> QED BY <1>1, <1>2 DEF CountInv

\* However late the datagrams are, and whatever stops, kills or restarts the process,
\* the table never counts more radar than was stored, if no sender's local time is
\* ahead of UTC and there is a cooldown (count_radar_since).  With a cooldown of zero
\* two trials may count the events of one second, and the event of a sender that is
\* ahead is counted by all trials up to the time it is stamped with.
THEOREM CountedOnce == Cooldown > 0 /\ NoSenderAhead => (Spec => []DetectionsConserved)
<1> SUFFICES ASSUME Cooldown > 0, NoSenderAhead
             PROVE  Spec => []DetectionsConserved
  OBVIOUS
<1> DEFINE Inv == StampsInv /\ PastInv /\ CountInv
<1>1. Init => Inv
  <2> SUFFICES ASSUME Init
               PROVE  Inv
    OBVIOUS
  <2>1. Rows = {} /\ DOMAIN events = {} /\ inflight = {}
    BY DEF Init, Rows
  <2>2. HitRows = {} /\ Spent = {}
    BY <2>1 DEF HitRows, Spent
  <2>3. RadarShown = 0
    <3> DEFINE f == [i \in Rows |-> trials[i].radar]
    <3>1. DOMAIN f = {}
      BY <2>1
    <3> QED BY <3>1, SumFunctionEmpty DEF RadarShown
  <2>4. Cardinality(Spent) = 0
    BY <2>2, FS_EmptySet
  <2>5. pc = "off" /\ radar = 0
    BY DEF Init
  <2> QED BY <2>1, <2>2, <2>3, <2>4, <2>5
          DEF StampsInv, PastInv, CountInv, Running, Measuring, Watching
<1>2. TypeInv /\ TimesInv /\ Inv /\ [Next]_vars => Inv'
  BY StampsInvStep, PastInvStep, CountInvStep
<1>3. TypeInv /\ CountInv => DetectionsConserved
  <2> SUFFICES ASSUME TypeInv, CountInv
               PROVE  DetectionsConserved
    OBVIOUS
  <2>1. events \in Seq(Int) /\ DOMAIN events = 1..Len(events) /\ Len(events) \in Nat
    BY LenProperties DEF TypeInv, TypeOK
  <2>2. IsFiniteSet(1..Len(events)) /\ Cardinality(1..Len(events)) = Len(events)
    BY <2>1, FS_Interval
  <2>3. Spent \subseteq 1..Len(events)
    BY <2>1 DEF Spent
  <2>4. Cardinality(Spent) <= Len(events) /\ Cardinality(Spent) \in Nat
    BY <2>2, <2>3, FS_Subset, FS_CardinalityType
  <2>5. RadarShown \in Int
    <3> DEFINE f == [i \in Rows |-> trials[i].radar]
    <3>1. IsFiniteSet(DOMAIN f) /\ \A i \in DOMAIN f : f[i] \in Int
      BY TableShape DEF RowType
    <3> HIDE DEF f
    <3>2. SumFunction(f) \in Int
      BY <3>1, SumFunctionInt
    <3> QED BY <3>2 DEF RadarShown, f
  <2> QED BY <2>1, <2>4, <2>5 DEF CountInv, DetectionsConserved, RadarShown
<1> HIDE DEF Inv
<1>4. Inv => CountInv
  BY DEF Inv
<1> QED BY <1>1, <1>2, <1>3, <1>4, TypeInvariance, TimesInvariance, PTL DEF Spec
-----------------------------------------------------------------------------
(* A clean verdict rests on a whole dwell.                                 *)

\* An open row has no end; a closed one ends after it started.
SpanInv ==
  \A i \in Rows : IF trials[i].by = "null" THEN trials[i].ended = NoTime
                  ELSE trials[i].started <= trials[i].ended

\* A row is closed at the clock, which it started no later than.
LEMMA SpanInvStep ==
  ASSUME TypeInv, TimesInv, SpanInv, [Next]_vars
  PROVE  SpanInv'
<1>1. CASE Opened
  <2>1. trials'[tid'].by = "null" /\ trials'[tid'].ended = NoTime
    BY <1>1 DEF Opened, Row
  <2> QED BY <1>1, <2>1 DEF Opened, SpanInv
<1>2. ASSUME NEW by \in TL!Verdicts, NEW n \in Nat, ClosedWith(by, n)
      PROVE  SpanInv'
  <2>1. tid \in Rows /\ trials[tid] \in RowType /\ trials[tid].started <= clock
    BY <1>2, TableShape DEF ClosedWith, TimesInv
  <2>2. /\ trials'[tid].by = by /\ by # "null" /\ trials'[tid].ended = clock
        /\ trials'[tid].started = trials[tid].started
    BY <1>2, <2>1 DEF ClosedWith, RowType, TL!Verdicts
  <2> QED BY <1>2, <2>1, <2>2 DEF ClosedWith, SpanInv
<1>3. CASE StillStep
  BY <1>3 DEF StillStep, SpanInv, Rows
<1>4. EndedBy \in TL!Verdicts /\ "apply_failed" \in TL!Verdicts /\ radar \in Nat /\ 0 \in Nat
  BY DEF EndedBy, TL!Verdicts, TypeInv, TypeOK
<1> QED BY <1>1, <1>2, <1>3, <1>4, RowSteps DEF Ended, Failed

\* Rows have their ends in every state.
LEMMA SpanInvariance == Spec => []SpanInv
<1>1. Init => SpanInv
  BY DEF Init, SpanInv, Rows
<1>2. TypeInv /\ TimesInv /\ SpanInv /\ [Next]_vars => SpanInv'
  BY SpanInvStep
<1> QED BY <1>1, <1>2, TypeInvariance, TimesInvariance, PTL DEF Spec

\* The time between the start and the end of a row.
Span(i) == trials[i].ended - trials[i].started

\* The time of a closed row is a number.
LEMMA SpanType ==
  ASSUME TypeInv, TimesInv, SpanInv, NEW i \in Rows, trials[i].by # "null"
  PROVE  Span(i) \in Nat
<1>1. trials[i].ended \in Nat /\ trials[i].started \in Nat /\ trials[i].started <= trials[i].ended
  BY TableShape DEF TimesInv, SpanInv, RowType
<1> QED BY <1>1 DEF Span

SpanSum(S) == SumFunction([i \in S |-> Span(i)])

\* Sums over closed rows.
LEMMA SpanSumType ==
  ASSUME TypeInv, TimesInv, SpanInv, NEW S, S \subseteq Rows, \A i \in S : trials[i].by # "null"
  PROVE  IsFiniteSet(S) /\ SpanSum(S) \in Nat
<1> DEFINE f == [i \in S |-> Span(i)]
<1>1. IsFiniteSet(S)
  BY TableShape, FS_Subset
<1>2. DOMAIN f = S /\ \A i \in S : f[i] \in Nat
  BY SpanType
<1> HIDE DEF f
<1>3. SumFunction(f) \in Nat
  BY <1>1, <1>2, SumFunctionNat
<1> QED BY <1>1, <1>3 DEF SpanSum, f

\* Rows that stay as they are add up to the same.
LEMMA SpanSumKept ==
  ASSUME NEW S, \A i \in S : trials'[i] = trials[i]
  PROVE  SpanSum(S)' = SpanSum(S)
<1> DEFINE f == [i \in S |-> trials[i].ended - trials[i].started]
           g == [i \in S |-> trials'[i].ended - trials'[i].started]
<1>1. f = g
  OBVIOUS
<1>2. SpanSum(S) = SumFunction(f) /\ SpanSum(S)' = SumFunction(g)
  BY DEF SpanSum, Span
<1> QED BY <1>1, <1>2

\* One more row adds its own time.
LEMMA SpanSumAdd ==
  ASSUME NEW S, IsFiniteSet(S), NEW i, i \notin S, \A j \in S \cup {i} : Span(j) \in Int
  PROVE  SpanSum(S \cup {i}) = SpanSum(S) + Span(i)
<1> DEFINE T == S \cup {i}
           f == [j \in S |-> Span(j)]
           g == [j \in T |-> Span(j)]
<1>1. DOMAIN f = S /\ DOMAIN g = S \cup {i} /\ g[i] = Span(i) /\ g[i] \in Int
  OBVIOUS
<1>2. \A x \in S : f[x] \in Int /\ g[x] = f[x]
  OBVIOUS
<1>3. SpanSum(S) = SumFunction(f) /\ SpanSum(T) = SumFunction(g)
  BY DEF SpanSum
<1> HIDE DEF f, g
<1>4. SumFunction(g) = SumFunction(f) + g[i]
  BY <1>1, <1>2, SumFunctionExtend
<1> QED BY <1>1, <1>3, <1>4

\* The credit is the time of the trailing interrupted rows.
LEMMA PriorIsSpanSum == ASSUME NEW c PROVE PriorInterrupted(c) = SpanSum(Trailing(c))
BY DEF PriorInterrupted, SpanSum, Span

\* These are closed rows.
LEMMA TrailingRows ==
  ASSUME NEW c
  PROVE  Trailing(c) \subseteq Rows /\ \A i \in Trailing(c) : trials[i].by # "null"
BY DEF Trailing, ClosedRows, Rows

\* What a step does to the credit of a combination.
LEMMA TrailingKept ==
  ASSUME TypeInv, [Next]_vars, NEW c,
         Opened \/ StillStep \/ (\E by, n : ClosedWith(by, n) /\ trial # c)
  PROVE  /\ ClosedRows(c)' = ClosedRows(c) /\ Trailing(c)' = Trailing(c)
         /\ PriorInterrupted(c)' = PriorInterrupted(c)
         /\ \A i \in ClosedRows(c) : trials'[i] = trials[i]
<1>1. ClosedRows(c)' = ClosedRows(c) /\ \A i \in ClosedRows(c) : trials'[i] = trials[i]
  <2>1. CASE Opened
    <3>1. trials'[tid'].by = "null"
      BY <2>1 DEF Opened, Row
    <3> QED BY <2>1, <3>1 DEF Opened, ClosedRows, Rows
  <2>2. CASE StillStep
    BY <2>2 DEF StillStep, ClosedRows
  <2>3. ASSUME NEW by, NEW n, ClosedWith(by, n), trial # c
        PROVE  ClosedRows(c)' = ClosedRows(c) /\ \A i \in ClosedRows(c) : trials'[i] = trials[i]
    <3>1. trials'[tid].combo = trial
      BY <2>3, TableShape DEF ClosedWith, RowType
    <3>2. /\ Rows' = Rows /\ trials[tid].combo # c /\ trials'[tid].combo # c
          /\ \A i \in Rows : i # tid => trials'[i] = trials[i]
      BY <2>3, <3>1 DEF ClosedWith
    <3>3. /\ ClosedRows(c) = {i \in Rows : trials[i].combo = c /\ trials[i].by # "null"}
          /\ ClosedRows(c)' = {i \in Rows' : trials'[i].combo = c /\ trials'[i].by # "null"}
      BY DEF ClosedRows, Rows
    <3>4. tid \notin ClosedRows(c) /\ tid \notin ClosedRows(c)'
      BY <3>2, <3>3
    <3> QED BY <3>2, <3>3, <3>4
  <2> QED BY <2>1, <2>2, <2>3
<1>2. Trailing(c)' = Trailing(c)
  BY <1>1 DEF Trailing
<1>3. \A i \in Trailing(c) : trials'[i] = trials[i]
  BY <1>1 DEF Trailing
<1>4. PriorInterrupted(c)' = PriorInterrupted(c)
  <2>1. \A S : (\A i \in S : trials'[i] = trials[i]) => SpanSum(S)' = SpanSum(S)
    BY SpanSumKept
  <2>2. PriorInterrupted(c)' = SpanSum(Trailing(c))'
    BY DEF PriorInterrupted, SpanSum, Span
  <2>3. SpanSum(Trailing(c))' = SumFunction([i \in Trailing(c)' |-> trials'[i].ended - trials'[i].started])
    BY DEF SpanSum, Span
  <2>4. \A S : SpanSum(S)' = SumFunction([i \in S |-> trials'[i].ended - trials'[i].started])
    BY DEF SpanSum, Span
  <2> QED BY <1>2, <1>3, <2>1, <2>2, <2>3, <2>4, PriorIsSpanSum
<1> QED BY <1>1, <1>2, <1>4

\* While a row is open the deadline and the credit make up the dwell, and a trial that
\* was neither hit nor stopped is closed past its deadline.
DeadlineInv ==
  /\ pc \in Watching => deadline + PriorInterrupted(trial) >= trials[tid].started + Dwell
  /\ pc = "close" /\ radar = 0 /\ ~stop => clock >= deadline
  /\ pc # "unwind"

\* The deadline is set once, from the credit, and tested before the end.
LEMMA DeadlineInvStep ==
  ASSUME "db_read" \notin Faults, TypeInv, TimesInv, SpanInv, DeadlineInv, [Next]_vars
  PROVE  DeadlineInv'
<1>0. /\ clock \in Nat /\ clock' \in Nat /\ clock' >= clock /\ deadline \in Nat /\ radar \in Nat
      /\ Dwell \in Nat
  BY StepKinds, TimingAssumption DEF TypeInv, TypeOK, OpenStep, CloseStep, StillStep
<1>1. \A c : PriorInterrupted(c) \in Nat
  BY TrailingRows, SpanSumType, PriorIsSpanSum
<1> USE DEF Goto, air, db, process, frame, Watching, Faulty
<1>2. ASSUME pc' \in Watching
      PROVE  (deadline + PriorInterrupted(trial) >= trials[tid].started + Dwell)'
  <2>1. CASE OpenTrial
    <3>1. Opened /\ trial' = trial /\ deadline' = clock + Monus(Dwell, PriorInterrupted(trial))
      <4>1. /\ trial' = trial /\ deadline' = clock + Monus(Dwell, PriorInterrupted(trial))
            /\ trials' # trials
        <5>1. trial' = trial /\ deadline' = clock + Monus(Dwell, PriorInterrupted(trial))
              /\ trials' = Append(trials, Row(trial, clock))
          BY <1>2, <2>1 DEF OpenTrial
        <5>2. trial \in Combos
          BY <2>1 DEF OpenTrial, TypeInv, RowInv, Applying
        <5> QED BY <5>1, <5>2, TableShape, AppendRow
      <4>2. ~Ended /\ ~Failed /\ ~StillStep
        BY <2>1, <4>1 DEF OpenTrial, Ended, Failed, CloseTrial, CloseFailed, StillStep
      <4> QED BY <4>1, <4>2, RowSteps
    <3>2. PriorInterrupted(trial)' = PriorInterrupted(trial)
      <4>1. \A c : PriorInterrupted(c)' = PriorInterrupted(c)
        BY <3>1, TrailingKept
      <4>2. ASSUME NEW c, c = trial'
            PROVE  PriorInterrupted(c)' = PriorInterrupted(trial)'
        BY <4>2 DEF PriorInterrupted, Trailing, ClosedRows
      <4> QED BY <3>1, <4>1, <4>2
    <3>3. trials'[tid'].started = clock
      BY <3>1 DEF Opened, Row
    <3>4. Monus(Dwell, PriorInterrupted(trial)) + PriorInterrupted(trial) >= Dwell
          /\ Monus(Dwell, PriorInterrupted(trial)) \in Nat
      BY <1>0, <1>1 DEF Monus
    <3> QED BY <1>0, <1>1, <3>1, <3>2, <3>3, <3>4
  <2>2. CASE UNCHANGED <<trials, trial, tid, deadline>> /\ pc \in Watching
    <3>1. PriorInterrupted(trial)' = PriorInterrupted(trial)
      BY <2>2 DEF PriorInterrupted, Trailing, ClosedRows
    <3> QED BY <2>2, <3>1 DEF DeadlineInv
  <2>3. OpenTrial \/ (UNCHANGED <<trials, trial, tid, deadline>> /\ pc \in Watching)
    <3>1. CASE Boot \/ Stop \/ Exit \/ JoinExpires \/ Kill
      BY <1>2, <3>1 DEF Boot, Stop, Exit, JoinExpires, Kill, PowerOff
    <3>2. CASE BuildQueue \/ Login \/ Window \/ PickTrial \/ FindAp \/ PutRadio \/ Refetch \/ Stamp
      BY <1>2, <3>2 DEF BuildQueue, Login, Window, PickTrial, FindAp, PutRadio, Refetch, Stamp
    <3>3. CASE OpenTrial
      BY <3>3
    <3>4. CASE CountRadar \/ CheckDeadline \/ NapOver \/ CloseTrial \/ Cool
      BY <1>2, <3>4 DEF CountRadar, CheckDeadline, NapOver, CloseTrial, Cool
    <3>5. CASE OpenFailed \/ CloseFailed \/ FailedNap
      BY <1>2, <3>5 DEF OpenFailed, CloseFailed, FailedNap
    <3>6. CASE Tick \/ HitTarget \/ HitNeighbour \/ Deliver \/ Lose \/ UNCHANGED vars
      BY <1>2, <3>6 DEF Tick, HitTarget, HitNeighbour, Send, Deliver, Lose, vars
    <3> QED BY <3>1, <3>2, <3>3, <3>4, <3>5, <3>6 DEF Next, ThreadStep, Done
  <2> QED BY <2>1, <2>2, <2>3
<1>3. ASSUME pc' = "close", radar' = 0, ~stop' PROVE clock' >= deadline'
  <2>1. CASE CountRadar \/ CheckDeadline
    BY <1>0, <1>3, <2>1 DEF CountRadar, CheckDeadline
  <2>2. CASE UNCHANGED <<pc, radar, deadline>> /\ ~stop
    BY <1>0, <1>3, <2>2 DEF DeadlineInv
  <2>3. CountRadar \/ CheckDeadline \/ (UNCHANGED <<pc, radar, deadline>> /\ ~stop)
    <3>1. CASE Boot \/ Stop \/ Exit \/ JoinExpires \/ Kill
      BY <1>3, <3>1 DEF Boot, Stop, Exit, JoinExpires, Kill, PowerOff
    <3>2. CASE BuildQueue \/ Login \/ Window \/ PickTrial \/ FindAp \/ PutRadio \/ Refetch \/ Stamp
      BY <1>3, <3>2 DEF BuildQueue, Login, Window, PickTrial, FindAp, PutRadio, Refetch, Stamp
    <3>3. CASE OpenTrial \/ CountRadar \/ CheckDeadline \/ NapOver \/ CloseTrial \/ Cool
      BY <1>3, <3>3 DEF OpenTrial, NapOver, CloseTrial, Cool
    <3>4. CASE OpenFailed \/ CloseFailed \/ FailedNap
      BY <1>3, <3>4 DEF OpenFailed, CloseFailed, FailedNap
    <3>5. CASE Tick \/ HitTarget \/ HitNeighbour \/ Deliver \/ Lose \/ UNCHANGED vars
      BY <1>3, <3>5 DEF Tick, HitTarget, HitNeighbour, Send, Deliver, Lose, vars
    <3> QED BY <3>1, <3>2, <3>3, <3>4, <3>5 DEF Next, ThreadStep, Done
  <2> QED BY <2>1, <2>2, <2>3
<1>4. pc' # "unwind"
  <2>1. CASE Boot \/ Stop \/ Exit \/ JoinExpires \/ Kill
    BY <2>1 DEF DeadlineInv, Boot, Stop, Exit, JoinExpires, Kill, PowerOff
  <2>2. CASE BuildQueue \/ Login \/ Window \/ PickTrial \/ FindAp \/ PutRadio \/ Refetch \/ Stamp
    BY <2>2 DEF BuildQueue, Login, Window, PickTrial, FindAp, PutRadio, Refetch, Stamp
  <2>3. CASE OpenTrial \/ CountRadar \/ CheckDeadline \/ NapOver \/ CloseTrial \/ Cool
    BY <2>3 DEF OpenTrial, CountRadar, CheckDeadline, NapOver, CloseTrial, Cool
  <2>4. CASE OpenFailed \/ CloseFailed \/ FailedNap
    BY <2>4 DEF OpenFailed, CloseFailed, FailedNap
  <2>5. CASE Tick \/ HitTarget \/ HitNeighbour \/ Deliver \/ Lose \/ UNCHANGED vars
    BY <2>5 DEF DeadlineInv, Tick, HitTarget, HitNeighbour, Send, Deliver, Lose, vars
  <2> QED BY <2>1, <2>2, <2>3, <2>4, <2>5 DEF Next, ThreadStep, Done
<1> QED BY <1>2, <1>3, <1>4 DEF DeadlineInv

\* What closing the row of c does to the credit of c.
LEMMA TrailingClosed ==
  ASSUME TypeInv, NEW by, by # "null", NEW n, ClosedWith(by, n), NEW c, c = trial
  PROVE  /\ tid \notin ClosedRows(c) /\ ClosedRows(c)' = ClosedRows(c) \cup {tid}
         /\ Trailing(c)' = IF by = "interrupted" THEN Trailing(c) \cup {tid} ELSE {}
         /\ \A i \in ClosedRows(c) : trials'[i] = trials[i]
<1>1. /\ Rows' = Rows /\ tid \in Rows /\ trials[tid].by = "null"
      /\ \A i \in Rows : i # tid => trials'[i] = trials[i]
      /\ \A i \in Rows : i \in Nat /\ i <= tid
  BY TableShape DEF ClosedWith
<1>2. trials'[tid].by = by /\ trials'[tid].combo = c
  BY TableShape DEF ClosedWith, RowType
<1>3. /\ ClosedRows(c) = {i \in Rows : trials[i].combo = c /\ trials[i].by # "null"}
      /\ ClosedRows(c)' = {i \in Rows' : trials'[i].combo = c /\ trials'[i].by # "null"}
  BY DEF ClosedRows, Rows
<1>4. tid \notin ClosedRows(c)
  BY <1>1, <1>3
<1>5. ClosedRows(c)' = ClosedRows(c) \cup {tid}
  BY <1>1, <1>2, <1>3
<1>6. \A i \in ClosedRows(c) : trials'[i] = trials[i] /\ i \in Nat /\ i <= tid
  BY <1>1, <1>3, <1>4
<1>7. /\ Trailing(c) = {i \in ClosedRows(c) : \A j \in ClosedRows(c) :
                                       j >= i => trials[j].by = "interrupted"}
      /\ Trailing(c)' = {i \in ClosedRows(c)' : \A j \in ClosedRows(c)' :
                                       j >= i => trials'[j].by = "interrupted"}
  BY DEF Trailing
<1>8. tid \in Nat
  BY <1>1
<1>9. CASE by = "interrupted"
  <2>1. \A i \in ClosedRows(c) : i \in Trailing(c)' <=> i \in Trailing(c)
    BY <1>2, <1>5, <1>6, <1>7, <1>9
  <2>2. tid \in Trailing(c)'
    <3>1. \A j \in ClosedRows(c) : ~(j >= tid)
      BY <1>1, <1>4, <1>6, <1>8
    <3> QED BY <1>2, <1>5, <1>7, <1>9, <3>1
  <2> QED BY <1>4, <1>5, <1>6, <1>7, <1>9, <2>1, <2>2
<1>10. CASE by # "interrupted"
  <2>1. \A i \in ClosedRows(c)' : i \notin Trailing(c)'
    BY <1>2, <1>5, <1>6, <1>7, <1>8, <1>10
  <2> QED BY <1>4, <1>5, <1>6, <1>7, <1>10, <2>1
<1> QED BY <1>9, <1>10
\* The rows a verdict rests on are those up to it.
LEMMA ChainKept ==
  ASSUME TypeInv, NEW i \in Rows, \A j \in 1..i : trials'[j] = trials[j]
  PROVE  /\ Chain(i)' = Chain(i)
         /\ SpanSum(Chain(i))' = SpanSum(Chain(i))
<1>0. i \in Nat
  BY TableShape
<1>1. /\ Chain(i) = {j \in 1..i : /\ trials[j].combo = trials[i].combo
                                  /\ \A k \in j..(i - 1) : trials[k].combo = trials[i].combo
                                                  => trials[k].by \in {"interrupted", "null"}
                                  /\ trials[j].by # "null"}
      /\ Chain(i)' = {j \in 1..i : /\ trials'[j].combo = trials'[i].combo
                                   /\ \A k \in j..(i - 1) : trials'[k].combo = trials'[i].combo
                                                  => trials'[k].by \in {"interrupted", "null"}
                                   /\ trials'[j].by # "null"}
  BY DEF Chain
<1>2. trials'[i] = trials[i] /\ \A j \in 1..i : \A k \in j..(i - 1) : trials'[k] = trials[k]
  <2>1. i \in 1..i /\ \A j \in 1..i : \A k \in j..(i - 1) : k \in 1..i
    BY <1>0, TableShape
  <2> QED BY <2>1
<1>3. Chain(i)' = Chain(i)
  BY <1>1, <1>2
<1>4. \A j \in Chain(i) : trials'[j] = trials[j]
  BY <1>1
<1>5. SpanSum(Chain(i))' = SpanSum(Chain(i))
  <2>1. \A S : (\A j \in S : trials'[j] = trials[j]) => SpanSum(S)' = SpanSum(S)
    BY SpanSumKept
  <2>2. /\ SpanSum(Chain(i))' = SumFunction([j \in Chain(i)' |-> trials'[j].ended - trials'[j].started])
        /\ \A S : SpanSum(S)' = SumFunction([j \in S |-> trials'[j].ended - trials'[j].started])
    BY DEF SpanSum, Span
  <2> QED BY <1>3, <1>4, <2>1, <2>2
<1> QED BY <1>3, <1>5

\* A row closed as complete rests on itself and on the trailing interrupted rows.
LEMMA ChainOfClosed ==
  ASSUME TypeInv, NEW by, by # "null", NEW n, ClosedWith(by, n), NEW c, c = trial, NEW t, t = tid
  PROVE  Chain(t)' = Trailing(c) \cup {t}
<1>1. /\ Rows' = Rows /\ t \in Rows /\ trials[t].by = "null" /\ Rows = 1..t /\ t \in Nat
      /\ \A i \in Rows : i # t => trials'[i] = trials[i]
      /\ trials'[t].by = by /\ trials'[t].combo = c
  BY TableShape DEF ClosedWith, RowType
<1>2. Chain(t)' = {j \in 1..t : /\ trials'[j].combo = c
                                /\ \A k \in j..(t - 1) : trials'[k].combo = c
                                                  => trials'[k].by \in {"interrupted", "null"}
                                /\ trials'[j].by # "null"}
  BY <1>1 DEF Chain
<1>3. Trailing(c) = {j \in Rows : /\ trials[j].combo = c /\ trials[j].by # "null"
                                  /\ \A k \in Rows : trials[k].combo = c /\ trials[k].by # "null" /\ k >= j
                                                      => trials[k].by = "interrupted"}
  BY DEF Trailing, ClosedRows, Rows
<1>4. t \in Chain(t)'
  <2>1. t \in 1..t /\ t..(t - 1) = {}
    BY <1>1
  <2> QED BY <1>1, <1>2, <2>1
<1>5. t \notin Trailing(c)
  BY <1>1, <1>3
<1>6. ASSUME NEW j \in Rows, j # t
      PROVE  j \in Chain(t)' <=> j \in Trailing(c)
  <2>1. /\ j \in 1..t /\ j < t /\ trials'[j] = trials[j]
        /\ \A k \in j..(t - 1) : k \in Rows /\ k # t /\ k >= j /\ trials'[k] = trials[k]
        /\ \A k \in Rows : k >= j /\ k # t => k \in j..(t - 1)
    BY <1>1, <1>6
  <2>2. ASSUME j \in Chain(t)' PROVE j \in Trailing(c)
    BY <1>1, <1>2, <1>3, <2>1, <2>2
  <2>3. ASSUME j \in Trailing(c) PROVE j \in Chain(t)'
    BY <1>1, <1>2, <1>3, <2>1, <2>3
  <2> QED BY <2>2, <2>3
<1>7. Chain(t)' \subseteq Rows /\ Trailing(c) \subseteq Rows
  BY <1>1, <1>2, <1>3
<1> QED BY <1>4, <1>5, <1>6, <1>7

\* The hours that back a row closed as complete.
LEMMA DwellReached ==
  ASSUME TypeInv, TimesInv, SpanInv, DeadlineInv, [Next]_vars, Ended, EndedBy = "dwell_complete"
  PROVE  /\ PriorInterrupted(trial) \in Nat /\ clock - trials[tid].started \in Nat
         /\ PriorInterrupted(trial) + (clock - trials[tid].started) >= Dwell
<1>1. pc = "close" /\ clock >= deadline
      /\ deadline + PriorInterrupted(trial) >= trials[tid].started + Dwell
  <2>1. radar \in Nat /\ pc \in {"close", "unwind"}
    BY DEF TypeInv, TypeOK, Ended, CloseTrial
  <2>2. ~stop /\ ~(radar > 0)
    BY DEF EndedBy
  <2> QED BY <2>1, <2>2 DEF DeadlineInv, Watching
<1>2. /\ clock \in Nat /\ deadline \in Nat /\ Dwell \in Nat /\ PriorInterrupted(trial) \in Nat
      /\ trials[tid].started \in Nat /\ trials[tid].started <= clock
  <2>1. tid \in Rows
    BY DEF Ended, ClosedWith
  <2>2. PriorInterrupted(trial) \in Nat
    BY TrailingRows, SpanSumType, PriorIsSpanSum
  <2> QED BY <2>1, <2>2, TableShape, TimingAssumption DEF TypeInv, TypeOK, TimesInv, RowType
<1> QED BY <1>1, <1>2

\* A row closed as clean has its dwell, and keeps it.
LEMMA CleanStep ==
  ASSUME TypeInv, TimesInv, SpanInv, DeadlineInv, CleanMeansFullDwell, [Next]_vars
  PROVE  CleanMeansFullDwell'
<1>1. \A i \in Rows : trials[i].by = "dwell_complete" => SpanSum(Chain(i)) >= Dwell
  BY DEF CleanMeansFullDwell, SpanSum, Span
<1>2. SUFFICES ASSUME NEW i \in Rows', trials'[i].by = "dwell_complete"
               PROVE  SpanSum(Chain(i))' >= Dwell
  BY DEF CleanMeansFullDwell, SpanSum, Span
<1>3. ASSUME i \in Rows, \A j \in 1..i : trials'[j] = trials[j] PROVE SpanSum(Chain(i))' >= Dwell
  <2>1. trials'[i] = trials[i]
    BY <1>3, TableShape
  <2> QED BY <1>1, <1>2, <1>3, <2>1, ChainKept
<1>4. CASE Opened
  <2>1. i # tid'
    BY <1>2, <1>4 DEF Opened, Row
  <2>2. i \in Rows /\ \A j \in 1..i : j \in Rows
    BY <1>4, <2>1, TableShape DEF Opened
  <2> QED BY <1>3, <1>4, <2>2 DEF Opened
<1>5. CASE StillStep
  BY <1>3, <1>5 DEF StillStep, Rows
<1>6. ASSUME NEW by, NEW n, ClosedWith(by, n), i # tid
      PROVE  SpanSum(Chain(i))' >= Dwell
  <2>1. i \in Rows /\ tid \in Nat /\ Rows = 1..tid
    BY <1>6, TableShape DEF ClosedWith
  <2>2. \A j \in 1..i : j \in Rows /\ j # tid
    BY <1>6, <2>1
  <2> QED BY <1>3, <1>6, <2>1, <2>2 DEF ClosedWith
<1>7. CASE Failed
  <2>1. i # tid
    BY <1>2, <1>7, TableShape DEF Failed, ClosedWith, RowType
  <2> QED BY <1>6, <1>7, <2>1 DEF Failed
<1>8. CASE Ended /\ i = tid
  <2>1. EndedBy = "dwell_complete" /\ EndedBy # "null"
    BY <1>2, <1>8, TableShape DEF Ended, ClosedWith, RowType
  <2>2. Chain(i)' = Trailing(trial) \cup {i}
    BY <1>8, <2>1, ChainOfClosed DEF Ended
  <2>3. /\ \A j \in Trailing(trial) : trials'[j] = trials[j]
        /\ i \notin Trailing(trial) /\ Trailing(trial) \subseteq Rows
        /\ \A j \in Trailing(trial) : trials[j].by # "null" /\ Span(j) \in Nat
    <3>1. trials[tid].by = "null" /\ \A j \in Rows : j # tid => trials'[j] = trials[j]
      BY <1>8 DEF Ended, ClosedWith
    <3> QED BY <1>8, <3>1, TrailingRows, SpanType
  <2> DEFINE S == Trailing(trial)
             f == [j \in S |-> Span(j)]
             g == [j \in S \cup {i} |-> trials'[j].ended - trials'[j].started]
  <2>4. SpanSum(Chain(i))' = SumFunction(g)
    BY <2>2 DEF SpanSum, Span
  <2>5. PriorInterrupted(trial) = SumFunction(f)
    BY PriorIsSpanSum DEF SpanSum
  <2>6. g[i] = clock - trials[tid].started /\ g[i] \in Int
    <3>1. g[i] = trials'[i].ended - trials'[i].started
      OBVIOUS
    <3>2. trials'[i].ended = clock /\ trials'[i].started = trials[tid].started
      BY <1>8, TableShape DEF Ended, ClosedWith, RowType
    <3>3. clock - trials[tid].started \in Int
      BY <1>8, <2>1, DwellReached
    <3> QED BY <3>1, <3>2, <3>3
  <2>7. /\ IsFiniteSet(DOMAIN f) /\ i \notin DOMAIN f /\ DOMAIN g = DOMAIN f \cup {i}
        /\ \A j \in DOMAIN f : f[j] \in Int /\ g[j] = f[j]
    <3>1. IsFiniteSet(S)
      BY <2>3, TableShape, FS_Subset
    <3> QED BY <2>3, <3>1 DEF Span
  <2> HIDE DEF f, g
  <2>8. SumFunction(g) = SumFunction(f) + g[i]
    BY <2>6, <2>7, SumFunctionExtend
  <2> QED BY <1>8, <2>1, <2>4, <2>5, <2>6, <2>8, DwellReached
<1>9. CASE Ended /\ i # tid
  BY <1>6, <1>9 DEF Ended
<1> QED BY <1>4, <1>5, <1>7, <1>8, <1>9, RowSteps

\* A channel is only ever reported clean after a whole dwell on it, in one piece or in
\* pieces cut short by stops: through stops, failed applies, crashes, lost writes and
\* changed plans.  It takes a failing read of the database to break it: the exception
\* unwinds through the finally clause, which then has no radar and no stop to report.
THEOREM CleanIsWholeDwell == "db_read" \notin Faults => (Spec => []CleanMeansFullDwell)
<1> SUFFICES ASSUME "db_read" \notin Faults
             PROVE  Spec => []CleanMeansFullDwell
  OBVIOUS
<1>1. Init => DeadlineInv /\ CleanMeansFullDwell
  BY DEF Init, DeadlineInv, Watching, CleanMeansFullDwell, Rows
<1>2. TypeInv /\ TimesInv /\ SpanInv /\ DeadlineInv /\ [Next]_vars => DeadlineInv'
  BY DeadlineInvStep
<1>3. TypeInv /\ TimesInv /\ SpanInv /\ DeadlineInv /\ CleanMeansFullDwell /\ [Next]_vars
        => CleanMeansFullDwell'
  BY CleanStep
<1> QED BY <1>1, <1>2, <1>3, TypeInvariance, TimesInvariance, SpanInvariance, PTL DEF Spec
=============================================================================
