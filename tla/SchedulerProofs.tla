-------------------------- MODULE SchedulerProofs --------------------------
(***************************************************************************)
(* Machine-checked proofs about Scheduler, for every set of combinations,  *)
(* every set of plans, every setting of the timing constants, every        *)
(* combination of faults and every bound on the clock and the radar.       *)
(***************************************************************************)
EXTENDS SchedulerProperties, FiniteSetTheorems, SequenceTheorems, TLAPS

-----------------------------------------------------------------------------
(* The type invariant.  It is inductive together with where the queue and  *)
(* the newest row are.                                                     *)

\* The thread has a plan.
Running == Measuring \cup {"login", "window", "idle", "find", "put", "refetch", "cool",
                           "fail_open", "fail_close", "fail_nap"}

\* The thread has taken a combination from the queue.
Applying == {"find", "put", "refetch", "stamp", "open", "fail_open"}

\* The thread has a row to close.
RowOpen == Watching \cup {"fail_close"}

QueueInv ==
  pc \in Running => /\ order \in Orders /\ order # <<>>
                    /\ front \in 1..Len(order)

RowInv ==
  /\ pc \in Applying \cup RowOpen => trial \in Combos
  /\ pc \in RowOpen => /\ tid = Len(trials) /\ tid > 0
                       /\ trials[tid].combo = trial
                       /\ trials[tid].by = "null"

TypeInv == TypeOK /\ QueueInv /\ RowInv

\* A datagram that is sent has a stamp, ahead of the clock or behind it.
LEMMA SendType ==
  ASSUME TypeOK, Send
  PROVE  hits' \in Nat /\ inflight' \subseteq [hit : Nat, ts : Int]
<1>1. hits' = hits + 1 /\ hits' \in Nat /\ clock \in Int
  BY DEF Send, TypeOK
<1>2. PICK ahead \in Offsets : inflight' = inflight \cup {[hit |-> hits', ts |-> clock + ahead]}
  BY DEF Send
<1>3. clock + ahead \in Int
  BY <1>1, OffsetAssumption
<1>4. [hit |-> hits', ts |-> clock + ahead] \in [hit : Nat, ts : Int]
  BY <1>1, <1>3
<1> QED BY <1>1, <1>2, <1>4 DEF TypeOK

\* What the radar query returns is a number.
LEMMA RadarSinceType ==
  ASSUME events \in Seq(Int), NEW t \in Nat
  PROVE  RadarSince(t) \in Nat
<1> DEFINE S == {i \in DOMAIN events : events[i] >= t}
<1>1. IsFiniteSet(1..Len(events))
  <2>1. Len(events) \in Int
    BY LenProperties
  <2> QED BY <2>1, FS_Interval
<1>2. IsFiniteSet(S)
  <2>1. S \in SUBSET (1..Len(events))
    BY LenProperties
  <2> QED BY <1>1, <2>1, FS_Subset
<1>3. Cardinality(S) \in Nat
  BY <1>2, FS_CardinalityType
<1> QED BY <1>3 DEF RadarSince

\* The remaining dwell is a number whatever the credit.
LEMMA MonusType == \A a, b : Monus(a, b) \in Nat
BY DEF Monus

\* Every plan is a sequence of distinct combinations.
LEMMA PlanProperties ==
  ASSUME NEW o \in Orders, o # <<>>
  PROVE  /\ o \in Seq(Combos) /\ Len(o) \in Nat \ {0} /\ DOMAIN o = 1..Len(o)
         /\ \A i \in 1..Len(o) : o[i] \in Combos
         /\ \A i, j \in 1..Len(o) : o[i] = o[j] => i = j
<1>1. o \in Seq(Combos)
  BY PlanAssumption DEF IsPlan
<1>2. Len(o) \in Nat \ {0} /\ DOMAIN o = 1..Len(o)
  BY <1>1, EmptySeq, LenProperties
<1>3. \A i \in 1..Len(o) : o[i] \in Combos
  BY <1>1, ElementOfSeq
<1> QED BY <1>1, <1>2, <1>3, PlanAssumption DEF IsPlan

\* The queue starts within the plan.
LEMMA ResumeIndexType ==
  ASSUME NEW o \in Orders, o # <<>>
  PROVE  ResumeIndex(o) \in 1..Len(o)
<1> DEFINE at == {i \in DOMAIN o : trials # <<>> /\ o[i] = trials[Len(trials)].combo}
<1> DEFINE k == CHOOSE k \in at : TRUE
<1>1. Len(o) \in Nat \ {0} /\ DOMAIN o = 1..Len(o)
  BY PlanProperties
<1>2. CASE at = {}
  BY <1>1, <1>2 DEF ResumeIndex
<1>3. CASE at # {}
  <2>1. k \in at
    BY <1>3
  <2>2. k \in 1..Len(o)
    BY <2>1, <1>1
  <2>3. ResumeIndex(o) = IF LastBy \in {"null", "interrupted"} THEN k
                         ELSE IF k = Len(o) THEN 1 ELSE k + 1
    BY <1>3 DEF ResumeIndex
  <2> QED BY <1>1, <2>2, <2>3
<1> QED BY <1>2, <1>3

\* A row appended for combination c keeps the table well typed, and is its last.
LEMMA AppendRow ==
  ASSUME trials \in Seq(RowType), NEW c \in Combos, clock \in Nat
  PROVE  LET log == Append(trials, Row(c, clock)) IN
         /\ log \in Seq(RowType)
         /\ Len(log) = Len(trials) + 1
         /\ Len(trials) \in Nat
         /\ \A i \in 1..Len(trials) : log[i] = trials[i]
         /\ log[Len(trials) + 1] = Row(c, clock)
<1>1. Row(c, clock) \in RowType
  BY DEF Row, RowType, NoTime
<1> QED BY <1>1

\* Closing the last row keeps the table well typed and changes nothing else.
LEMMA CloseRowProperties ==
  ASSUME trials \in Seq(RowType), tid = Len(trials), tid > 0, clock \in Nat,
         NEW by \in TL!Verdicts, NEW n \in Nat
  PROVE  LET log == [trials EXCEPT ![tid] = Closed(@, by, n)] IN
         /\ log \in Seq(RowType)
         /\ Len(log) = Len(trials)
         /\ tid \in 1..Len(trials)
         /\ \A i \in 1..Len(trials) : i # tid => log[i] = trials[i]
         /\ log[tid] = Closed(trials[tid], by, n)
<1>1. Len(trials) \in Nat /\ tid \in 1..Len(trials) /\ DOMAIN trials = 1..Len(trials)
  BY LenProperties
<1>2. trials[tid] \in RowType
  BY <1>1, ElementOfSeq
<1>3. Closed(trials[tid], by, n) \in RowType
  BY <1>2 DEF Closed, RowType, NoTime
<1>4. [trials EXCEPT ![tid] = Closed(@, by, n)]
        = [trials EXCEPT ![tid] = Closed(trials[tid], by, n)]
  OBVIOUS
<1> QED BY <1>1, <1>3, <1>4, ExceptSeq

\* The invariant holds at first,
LEMMA TypeInvInit == Init => TypeInv
<1> SUFFICES ASSUME Init
             PROVE  TypeInv
  OBVIOUS
<1>1. events \in Seq(Int) /\ trials \in Seq(RowType)
  BY EmptySeq DEF Init
<1>2. order \in Seq(Combos) /\ front \in 0..Len(order)
  BY EmptySeq DEF Init
<1>3. pc = "off"
  BY DEF Init
<1>4. inflight \subseteq [hit : Nat, ts : Int]
  BY DEF Init
<1>5. TypeOK
  BY <1>1, <1>2, <1>3, <1>4 DEF Init, TypeOK, PC
<1> QED BY <1>3, <1>5 DEF TypeInv, QueueInv, RowInv, Running, Applying, RowOpen, Measuring, Watching

\* and in every step.
LEMMA TypeInvStep == TypeInv /\ [Next]_vars => TypeInv'
<1> SUFFICES ASSUME TypeInv, [Next]_vars
             PROVE  TypeInv'
  OBVIOUS
<1> USE DEF TypeInv, TypeOK, PC, Running, Applying, RowOpen, Measuring, Watching, Goto,
            air, db, process, frame
<1>1. CASE Boot
  BY <1>1 DEF Boot, QueueInv, RowInv
<1>2. CASE Stop
  BY <1>2 DEF Stop, QueueInv, RowInv
<1>3. CASE Exit \/ JoinExpires \/ Kill
  <2>1. PowerOff
    BY <1>3 DEF Exit, JoinExpires, Kill
  <2>2. order' \in Seq(Combos) /\ front' \in 0..Len(order')
    BY <2>1, EmptySeq DEF PowerOff
  <2> QED BY <2>1, <2>2 DEF PowerOff, QueueInv, RowInv
<1>4. CASE BuildQueue
  <2>1. CASE pc' = "exited"
    BY <1>4, <2>1 DEF BuildQueue, QueueInv, RowInv
  <2>2. CASE pc' # "exited"
    <3>1. PICK o \in Orders \ {<<>>} :
            pc' = "login" /\ order' = o /\ front' = ResumeIndex(o)
      BY <1>4, <2>2 DEF BuildQueue
    <3>2. front' \in 1..Len(order') /\ order' \in Seq(Combos) /\ Len(order') \in Nat
      BY <3>1, ResumeIndexType, PlanProperties
    <3> QED BY <1>4, <3>1, <3>2 DEF BuildQueue, QueueInv, RowInv
  <2> QED BY <2>1, <2>2
<1>5. CASE Login
  BY <1>5 DEF Login, QueueInv, RowInv
<1>6. CASE Window
  BY <1>6 DEF Window, QueueInv, RowInv
<1>7. CASE PickTrial
  <2>1. CASE stop
    BY <1>7, <2>1 DEF PickTrial, QueueInv, RowInv
  <2>2. CASE ~stop
    <3>1. order \in Orders /\ order # <<>> /\ front \in 1..Len(order)
      BY <1>7 DEF PickTrial, QueueInv
    <3>2. order[front] \in Combos /\ Len(order) \in Nat \ {0}
      BY <3>1, PlanProperties
    <3>3. Rotated \in 1..Len(order)
      BY <3>1, <3>2 DEF Rotated
    <3> QED BY <1>7, <2>2, <3>1, <3>2, <3>3 DEF PickTrial, QueueInv, RowInv
  <2> QED BY <2>1, <2>2
<1>8. CASE FindAp
  BY <1>8 DEF FindAp, QueueInv, RowInv
<1>9. CASE PutRadio
  BY <1>9 DEF PutRadio, QueueInv, RowInv
<1>10. CASE Refetch
  BY <1>10 DEF Refetch, QueueInv, RowInv
<1>11. CASE Stamp
  BY <1>11 DEF Stamp, QueueInv, RowInv
<1>12. CASE OpenTrial
  <2>1. trial \in Combos
    BY <1>12 DEF OpenTrial, RowInv
  <2>2. CASE trials' = trials
    BY <1>12, <2>2 DEF OpenTrial, QueueInv, RowInv
  <2>3. CASE trials' # trials
    <3>1. trials' = Append(trials, Row(trial, clock)) /\ tid' = Len(trials) + 1
      BY <1>12, <2>3 DEF OpenTrial
    <3>2. trials' \in Seq(RowType) /\ tid' = Len(trials') /\ tid' \in Nat /\ tid' > 0
          /\ trials'[tid'].combo = trial /\ trials'[tid'].by = "null"
      BY <2>1, <3>1, AppendRow DEF Row
    <3>3. deadline' \in Nat
      BY <1>12, MonusType DEF OpenTrial
    <3> QED BY <1>12, <2>3, <3>2, <3>3 DEF OpenTrial, QueueInv, RowInv
  <2> QED BY <2>2, <2>3
<1>13. CASE CountRadar
  <2>1. radar' \in Nat
    BY <1>13, RadarSinceType DEF CountRadar
  <2> QED BY <1>13, <2>1 DEF CountRadar, QueueInv, RowInv
<1>14. CASE CheckDeadline
  <2>1. wake' \in Nat
    BY <1>14, TimingAssumption DEF CheckDeadline
  <2> QED BY <1>14, <2>1 DEF CheckDeadline, QueueInv, RowInv
<1>15. CASE NapOver
  BY <1>15 DEF NapOver, QueueInv, RowInv
<1>16. CASE CloseTrial
  <2>1. EndedBy \in TL!Verdicts
    BY DEF EndedBy, TL!Verdicts
  <2>2. tid = Len(trials) /\ tid > 0
    BY <1>16 DEF CloseTrial, RowInv
  <2>3. trials' \in Seq(RowType)
    <3>1. [trials EXCEPT ![tid] = Closed(@, EndedBy, radar)] \in Seq(RowType)
      BY <2>1, <2>2, CloseRowProperties
    <3> QED BY <1>16, <3>1 DEF CloseTrial
  <2>4. wake' \in Nat
    BY <1>16, TimingAssumption DEF CloseTrial
  <2> QED BY <1>16, <2>3, <2>4 DEF CloseTrial, ReturnFromTrial, QueueInv, RowInv
<1>17. CASE Cool
  BY <1>17 DEF Cool, QueueInv, RowInv
<1>18. CASE OpenFailed
  <2>1. trial \in Combos
    BY <1>18 DEF OpenFailed, RowInv
  <2>2. CASE trials' = trials
    BY <1>18, <2>2 DEF OpenFailed, QueueInv, RowInv
  <2>3. CASE trials' # trials
    <3>1. trials' = Append(trials, Row(trial, clock)) /\ tid' = Len(trials) + 1
      BY <1>18, <2>3 DEF OpenFailed
    <3>2. trials' \in Seq(RowType) /\ tid' = Len(trials') /\ tid' \in Nat /\ tid' > 0
          /\ trials'[tid'].combo = trial /\ trials'[tid'].by = "null"
      BY <2>1, <3>1, AppendRow DEF Row
    <3> QED BY <1>18, <2>3, <3>2 DEF OpenFailed, QueueInv, RowInv
  <2> QED BY <2>2, <2>3
<1>19. CASE CloseFailed
  <2>1. "apply_failed" \in TL!Verdicts
    BY DEF TL!Verdicts
  <2>2. tid = Len(trials) /\ tid > 0
    BY <1>19 DEF CloseFailed, RowInv
  <2>3. trials' \in Seq(RowType)
    <3>1. [trials EXCEPT ![tid] = Closed(@, "apply_failed", 0)] \in Seq(RowType)
      BY <2>1, <2>2, CloseRowProperties
    <3> QED BY <1>19, <3>1 DEF CloseFailed
  <2>4. wake' \in Nat
    BY <1>19, TimingAssumption DEF CloseFailed
  <2> QED BY <1>19, <2>3, <2>4 DEF CloseFailed, ReturnFromTrial, QueueInv, RowInv
<1>20. CASE FailedNap
  BY <1>20 DEF FailedNap, QueueInv, RowInv
<1>21. CASE Tick
  BY <1>21 DEF Tick, QueueInv, RowInv
<1>22. CASE HitTarget
  <2>1. Send
    BY <1>22 DEF HitTarget
  <2>2. hits' \in Nat /\ inflight' \subseteq [hit : Nat, ts : Int]
    BY <2>1, SendType
  <2> QED BY <1>22, <2>2 DEF HitTarget, QueueInv, RowInv
<1>23. CASE HitNeighbour
  <2>1. Send
    BY <1>23 DEF HitNeighbour
  <2>2. hits' \in Nat /\ inflight' \subseteq [hit : Nat, ts : Int]
    BY <2>1, SendType
  <2> QED BY <1>23, <2>2 DEF HitNeighbour, QueueInv, RowInv
<1>24. CASE Deliver
  <2>1. \A m \in inflight : m.ts \in Int
    OBVIOUS
  <2>2. events' \in Seq(Int) /\ inflight' \subseteq inflight
    BY <1>24, <2>1 DEF Deliver
  <2> QED BY <1>24, <2>2 DEF Deliver, QueueInv, RowInv
<1>25. CASE Lose
  BY <1>25 DEF Lose, QueueInv, RowInv
<1>26. CASE UNCHANGED vars
  BY <1>26 DEF vars, QueueInv, RowInv
<1> QED BY <1>1, <1>2, <1>3, <1>4, <1>5, <1>6, <1>7, <1>8, <1>9, <1>10, <1>11, <1>12,
           <1>13, <1>14, <1>15, <1>16, <1>17, <1>18, <1>19, <1>20, <1>21, <1>22, <1>23,
           <1>24, <1>25, <1>26 DEF Next, ThreadStep, Done

\* It holds in every state.
LEMMA TypeInvariance == Spec => []TypeInv
<1> QED BY TypeInvInit, TypeInvStep, PTL DEF Spec

\* Every reachable state is well typed, whatever the plans, the timing and the faults.
THEOREM TypeCorrect == Spec => []TypeOK
<1>1. TypeInv => TypeOK
  BY DEF TypeInv
<1> QED BY <1>1, TypeInvariance, PTL

-----------------------------------------------------------------------------
(* The AP is on the combination being measured.                            *)

AirInv == pc \in Measuring \cup {"refetch"} => ap \in {trial, NoCombo}

\* Nothing but a PUT for the trial, or radar, moves the AP.
LEMMA AirInvStep == TypeInv /\ AirInv /\ [Next]_vars => AirInv'
<1> SUFFICES ASSUME TypeInv, AirInv, [Next]_vars
             PROVE  AirInv'
  OBVIOUS
<1> USE DEF AirInv, Measuring, Goto, air, db, process, frame
<1>1. CASE Boot \/ Stop \/ Exit \/ JoinExpires \/ Kill
  BY <1>1 DEF Boot, Stop, Exit, JoinExpires, Kill, PowerOff
<1>2. CASE BuildQueue \/ Login \/ Window \/ PickTrial \/ FindAp
  BY <1>2 DEF BuildQueue, Login, Window, PickTrial, FindAp
<1>3. CASE PutRadio
  BY <1>3 DEF PutRadio
<1>4. CASE Refetch \/ Stamp \/ OpenTrial
  BY <1>4 DEF Refetch, Stamp, OpenTrial
<1>5. CASE CountRadar \/ CheckDeadline \/ NapOver
  BY <1>5 DEF CountRadar, CheckDeadline, NapOver
<1>6. CASE CloseTrial \/ Cool \/ OpenFailed \/ CloseFailed \/ FailedNap
  BY <1>6 DEF CloseTrial, ReturnFromTrial, Cool, OpenFailed, CloseFailed, FailedNap
<1>7. CASE HitTarget
  BY <1>7 DEF HitTarget, Send
<1>8. CASE Tick \/ HitNeighbour \/ Deliver \/ Lose
  BY <1>8 DEF Tick, HitNeighbour, Send, Deliver, Lose
<1>9. CASE UNCHANGED vars
  BY <1>9 DEF vars
<1> QED BY <1>1, <1>2, <1>3, <1>4, <1>5, <1>6, <1>7, <1>8, <1>9 DEF Next, ThreadStep, Done

\* The open row is for the combination the AP was switched to, or the AP has left
\* it because of radar: no failed call and no restart credits hours to a channel
\* that was not measured.
THEOREM MeasuredOnChannel == Spec => []MeasuringOnChannel
<1>1. Init => AirInv
  BY DEF Init, AirInv, Measuring
<1>2. TypeInv /\ AirInv => MeasuringOnChannel
  BY DEF TypeInv, RowInv, RowOpen, AirInv, MeasuringOnChannel
<1> QED BY <1>1, <1>2, AirInvStep, TypeInvariance, PTL DEF Spec

-----------------------------------------------------------------------------
(* What a step does to the table and to the clock.                         *)

OpenStep ==
  /\ pc \in {"open", "fail_open"}
  /\ trials' = Append(trials, Row(trial, clock))
  /\ tid' = Len(trials) + 1
  /\ clock' = clock

CloseStep ==
  /\ pc \in {"close", "unwind", "fail_close"}
  /\ \E by \in TL!Verdicts, n \in Nat :
        /\ (by = "radar") <=> (n > 0)
        /\ trials' = [trials EXCEPT ![tid] = Closed(@, by, n)]
  /\ clock' = clock

StillStep == trials' = trials /\ clock' \in Nat /\ clock' >= clock

\* No step but the end of a trial writes to an existing row.
LEMMA OtherSteps ==
  ASSUME TypeInv, [Next]_vars, ~CloseTrial, ~CloseFailed
  PROVE  OpenStep \/ StillStep
<1>0. clock \in Nat
  BY DEF TypeInv, TypeOK
<1> USE <1>0 DEF air, db, process, frame
<1>1. CASE Boot \/ Stop \/ Exit \/ JoinExpires \/ Kill
  BY <1>1 DEF Boot, Stop, Exit, JoinExpires, Kill, PowerOff, StillStep
<1>2. CASE BuildQueue \/ Login \/ Window \/ PickTrial \/ FindAp \/ PutRadio \/ Refetch \/ Stamp
  BY <1>2 DEF BuildQueue, Login, Window, PickTrial, FindAp, PutRadio, Refetch, Stamp, StillStep
<1>3. CASE CountRadar \/ CheckDeadline \/ NapOver \/ Cool \/ FailedNap
  BY <1>3 DEF CountRadar, CheckDeadline, NapOver, Cool, FailedNap, StillStep
<1>4. CASE Tick \/ HitTarget \/ HitNeighbour \/ Deliver \/ Lose
  BY <1>4 DEF Tick, HitTarget, HitNeighbour, Send, Deliver, Lose, StillStep
<1>5. CASE OpenTrial
  BY <1>5 DEF OpenTrial, OpenStep, StillStep
<1>6. CASE OpenFailed
  BY <1>6 DEF OpenFailed, OpenStep, StillStep
<1>7. CASE UNCHANGED vars
  BY <1>7 DEF vars, StillStep
<1> QED BY <1>1, <1>2, <1>3, <1>4, <1>5, <1>6, <1>7 DEF Next, ThreadStep, Done

\* A step opens a row, closes the last one, or leaves the table alone.
LEMMA StepKinds == TypeInv /\ [Next]_vars => OpenStep \/ CloseStep \/ StillStep
<1> SUFFICES ASSUME TypeInv, [Next]_vars
             PROVE  OpenStep \/ CloseStep \/ StillStep
  OBVIOUS
<1>0. clock \in Nat /\ radar \in Nat
  BY DEF TypeInv, TypeOK
<1> USE <1>0 DEF air, db, process, frame
<1>1. CASE CloseTrial
  <2>1. EndedBy \in TL!Verdicts /\ ((EndedBy = "radar") <=> (radar > 0))
    BY DEF EndedBy, TL!Verdicts
  <2>2. CASE trials' = trials
    BY <1>1, <2>2 DEF CloseTrial, StillStep
  <2>3. CASE trials' = [trials EXCEPT ![tid] = Closed(@, EndedBy, radar)]
    BY <1>1, <2>1, <2>3 DEF CloseTrial, CloseStep
  <2> QED BY <1>1, <2>2, <2>3 DEF CloseTrial
<1>2. CASE CloseFailed
  <2>1. "apply_failed" \in TL!Verdicts /\ 0 \in Nat /\ (("apply_failed" = "radar") <=> (0 > 0))
    BY DEF TL!Verdicts
  <2>2. CASE trials' = trials
    BY <1>2, <2>2 DEF CloseFailed, StillStep
  <2>3. CASE trials' = [trials EXCEPT ![tid] = Closed(@, "apply_failed", 0)]
    BY <1>2, <2>1, <2>3 DEF CloseFailed, CloseStep
  <2> QED BY <1>2, <2>2, <2>3 DEF CloseFailed
<1> QED BY <1>1, <1>2, OtherSteps

\* Before a row is closed it is the last one and open.
LEMMA ClosesLastRow ==
  ASSUME TypeInv, pc \in RowOpen
  PROVE  /\ trials \in Seq(RowType) /\ clock \in Nat
         /\ tid = Len(trials) /\ tid > 0 /\ tid \in 1..Len(trials)
         /\ trials[tid] \in RowType
         /\ trials[tid].by = "null" /\ trials[tid].combo = trial
<1>1. trials \in Seq(RowType) /\ clock \in Nat /\ tid \in Nat
  BY DEF TypeInv, TypeOK
<1>2. /\ tid = Len(trials) /\ tid > 0
      /\ trials[tid].by = "null" /\ trials[tid].combo = trial
  BY DEF TypeInv, RowInv
<1>3. tid \in 1..Len(trials)
  BY <1>1, <1>2
<1> QED BY <1>1, <1>2, <1>3, ElementOfSeq

-----------------------------------------------------------------------------
(* Rows do not overlap.                                                    *)

TimesInv ==
  /\ \A i \in Rows : /\ trials[i].started <= clock
                     /\ trials[i].by # "null" => trials[i].ended \in Nat /\ trials[i].ended <= clock
  /\ TrialsDontOverlap

\* Rows are opened and closed at the clock.
LEMMA TimesInvStep == TypeInv /\ TimesInv /\ [Next]_vars => TimesInv'
<1> SUFFICES ASSUME TypeInv, TimesInv, [Next]_vars
             PROVE  TimesInv'
  OBVIOUS
<1>1. /\ trials \in Seq(RowType) /\ clock \in Nat /\ Len(trials) \in Nat
      /\ DOMAIN trials = 1..Len(trials)
      /\ \A i \in 1..Len(trials) : trials[i] \in RowType
  BY LenProperties, ElementOfSeq DEF TypeInv, TypeOK
<1>2. CASE OpenStep
  <2>1. trial \in Combos
    BY <1>2 DEF OpenStep, TypeInv, RowInv, Applying
  <2>2. /\ trials' \in Seq(RowType) /\ Len(trials') = Len(trials) + 1
        /\ \A i \in 1..Len(trials) : trials'[i] = trials[i]
        /\ trials'[Len(trials) + 1] = Row(trial, clock)
    BY <1>1, <1>2, <2>1, AppendRow DEF OpenStep
  <2>3. DOMAIN trials' = 1..(Len(trials) + 1)
    BY <2>2, LenProperties
  <2> QED BY <1>1, <1>2, <2>2, <2>3 DEF OpenStep, TimesInv, TrialsDontOverlap, Rows, Row, RowType, NoTime
<1>3. CASE CloseStep
  <2>1. PICK by \in TL!Verdicts, n \in Nat : trials' = [trials EXCEPT ![tid] = Closed(@, by, n)]
    BY <1>3 DEF CloseStep
  <2>2. tid = Len(trials) /\ tid > 0 /\ trials[tid] \in RowType
    BY <1>3, ClosesLastRow DEF CloseStep, RowOpen, Watching
  <2>3. /\ trials' \in Seq(RowType) /\ Len(trials') = Len(trials)
        /\ \A i \in 1..Len(trials) : i # tid => trials'[i] = trials[i]
        /\ trials'[tid] = Closed(trials[tid], by, n)
    BY <1>1, <2>1, <2>2, CloseRowProperties
  <2>4. DOMAIN trials' = 1..Len(trials)
    BY <2>3, LenProperties
  <2>5. trials'[tid].started = trials[tid].started /\ trials'[tid].ended = clock
    BY <2>2, <2>3 DEF Closed, RowType
  <2>6. clock' = clock
    BY <1>3 DEF CloseStep
  <2>7. \A i \in 1..Len(trials) : trials'[i].started = trials[i].started
    BY <2>3, <2>5
  <2>8. TrialsDontOverlap'
    <3>1. ASSUME NEW i \in 1..Len(trials), NEW j \in 1..Len(trials), i < j,
                 trials'[i].by # "null"
          PROVE  trials'[i].ended <= trials'[j].started
      <4>1. i # tid
        <5>1. tid = Len(trials) /\ Len(trials) \in Nat
          BY <1>1, <2>2
        <5>2. i < j /\ i \in 1..Len(trials) /\ j \in 1..Len(trials)
          BY <3>1
        <5> QED BY <5>1, <5>2
      <4>2. trials'[i] = trials[i] /\ trials'[j].started = trials[j].started
        BY <2>3, <2>7, <4>1
      <4> QED BY <1>1, <3>1, <4>2 DEF TimesInv, TrialsDontOverlap, Rows
    <3> QED BY <2>4, <3>1 DEF TrialsDontOverlap, Rows
  <2>9. ASSUME NEW i \in 1..Len(trials)
        PROVE  /\ trials'[i].started <= clock
               /\ trials'[i].by # "null" => trials'[i].ended \in Nat /\ trials'[i].ended <= clock
    BY <1>1, <2>3, <2>5, <2>7 DEF TimesInv, Rows
  <2> QED BY <2>4, <2>6, <2>8, <2>9 DEF TimesInv, Rows
<1>4. CASE StillStep
  BY <1>1, <1>4 DEF StillStep, TimesInv, TrialsDontOverlap, Rows, RowType, NoTime
<1> QED BY <1>2, <1>3, <1>4, StepKinds

\* Rows are ordered in time in every state.
LEMMA TimesInvariance == Spec => []TimesInv
<1>1. Init => TimesInv
  <2> SUFFICES ASSUME Init
               PROVE  TimesInv
    OBVIOUS
  <2>1. Rows = {}
    BY DEF Init, Rows
  <2> QED BY <2>1 DEF TimesInv, TrialsDontOverlap
<1> QED BY <1>1, TimesInvStep, TypeInvariance, PTL DEF Spec

\* No two closed rows claim the same hours, over any number of crashes.
THEOREM NoOverlap == Spec => []TrialsDontOverlap
<1>1. TimesInv => TrialsDontOverlap
  BY DEF TimesInv
<1> QED BY <1>1, TimesInvariance, PTL

-----------------------------------------------------------------------------
(* Whose turn it is: the head of the queue and the newest row agree.       *)

\* Between two trials, unless the thread is about to return because of a stop.
Between == {"login", "window", "idle", "cool", "fail_nap"}

TurnInv ==
  /\ pc \in Between /\ ~stop => order[front] = TL!Due(order, trials)
  /\ pc \in Applying => trial = TL!Due(order, trials)
  /\ pc \in Applying \cup RowOpen => /\ trial \in Range(order)
                                    /\ order[front] = TL!After(order, trial)

\* The successor of the i-th combination of a plan.
LEMMA AfterIndex ==
  ASSUME NEW o \in Orders, o # <<>>, NEW i \in 1..Len(o)
  PROVE  TL!After(o, o[i]) = o[IF i = Len(o) THEN 1 ELSE i + 1]
<1> DEFINE k == CHOOSE k \in DOMAIN o : o[k] = o[i]
<1>1. /\ DOMAIN o = 1..Len(o)
      /\ \A m, n \in 1..Len(o) : o[m] = o[n] => m = n
  BY PlanProperties
<1>2. k \in 1..Len(o) /\ o[k] = o[i]
  BY <1>1
<1>3. k = i
  BY <1>1, <1>2
<1>4. TL!After(o, o[i]) = o[IF k = Len(o) THEN 1 ELSE k + 1]
  BY DEF TL!After
<1> HIDE DEF k
<1> QED BY <1>3, <1>4

\* _build_queue puts the combination that is due at the head of the queue.
LEMMA ResumeIsDue ==
  ASSUME NEW o \in Orders, o # <<>>
  PROVE  o[ResumeIndex(o)] = TL!Due(o, trials)
<1> DEFINE at == {i \in DOMAIN o : trials # <<>> /\ o[i] = trials[Len(trials)].combo}
<1> DEFINE k == CHOOSE k \in at : TRUE
<1>1. /\ DOMAIN o = 1..Len(o) /\ Len(o) \in Nat \ {0}
      /\ \A m, n \in 1..Len(o) : o[m] = o[n] => m = n
  BY PlanProperties
<1>2. CASE at = {}
  <2>1. ResumeIndex(o) = 1
    BY <1>2 DEF ResumeIndex
  <2>2. trials = <<>> \/ TL!Last(trials).combo \notin Range(o)
    BY <1>2 DEF TL!Last, Range
  <2> QED BY <2>1, <2>2 DEF TL!Due, TL!Range, Range
<1>3. CASE at # {}
  <2>1. k \in at
    BY <1>3
  <2>2. k \in 1..Len(o) /\ trials # <<>> /\ o[k] = TL!Last(trials).combo
    BY <2>1, <1>1 DEF TL!Last
  <2>3. TL!Last(trials).combo \in Range(o)
    BY <2>2, <1>1 DEF Range
  <2>4. LastBy = TL!Last(trials).by
    BY <2>2 DEF LastBy, TL!Last
  <2>5. ResumeIndex(o) = IF LastBy \in {"null", "interrupted"} THEN k
                         ELSE IF k = Len(o) THEN 1 ELSE k + 1
    BY <1>3 DEF ResumeIndex
  <2>6. CASE LastBy \in {"null", "interrupted"}
    BY <2>2, <2>3, <2>4, <2>5, <2>6 DEF TL!Due, TL!Unfinished, TL!Range, Range
  <2>7. CASE LastBy \notin {"null", "interrupted"}
    <3>1. TL!Due(o, trials) = TL!After(o, o[k])
      BY <2>2, <2>3, <2>4, <2>7 DEF TL!Due, TL!Unfinished, TL!Range, Range
    <3> QED BY <2>2, <2>5, <2>7, <3>1, AfterIndex
  <2> QED BY <2>6, <2>7
<1> QED BY <1>2, <1>3

\* Once a row has a final verdict the next combination of the plan is due.
LEMMA DueAfterClose ==
  ASSUME TypeInv, pc \in RowOpen, trial \in Range(order),
         NEW by \in TL!Verdicts, NEW n \in Nat, by # "interrupted"
  PROVE  TL!Due(order, [trials EXCEPT ![tid] = Closed(@, by, n)]) = TL!After(order, trial)
<1> DEFINE log == [trials EXCEPT ![tid] = Closed(@, by, n)]
<1>1. /\ trials \in Seq(RowType) /\ clock \in Nat /\ tid = Len(trials) /\ tid > 0
      /\ trials[tid] \in RowType /\ trials[tid].combo = trial
  BY ClosesLastRow
<1>2. Len(log) = tid /\ log[tid] = Closed(trials[tid], by, n) /\ log \in Seq(RowType)
  BY <1>1, CloseRowProperties
<1>3. TL!Last(log).combo = trial /\ TL!Last(log).by = by
  BY <1>1, <1>2 DEF TL!Last, Closed, RowType
<1>4. log # <<>>
  BY <1>1, <1>2, EmptySeq
<1>5. by \notin TL!Unfinished
  BY DEF TL!Verdicts, TL!Unfinished
<1> HIDE DEF log
<1>6. TL!Due(order, log) = TL!After(order, trial)
  BY <1>3, <1>4, <1>5 DEF TL!Due, TL!Range, Range
<1> QED BY <1>6 DEF log

\* Rotating the queue and rebuilding it agree on what is due.
LEMMA TurnInvStep == TypeInv /\ TurnInv /\ [Next]_vars => TurnInv'
<1> SUFFICES ASSUME TypeInv, TurnInv, [Next]_vars
             PROVE  TurnInv'
  OBVIOUS
<1> USE DEF TurnInv, Between, Applying, RowOpen, Watching, Goto, air, db, process, frame
<1>1. CASE Boot \/ Stop \/ Exit \/ JoinExpires \/ Kill
  BY <1>1 DEF Boot, Stop, Exit, JoinExpires, Kill, PowerOff
<1>2. CASE BuildQueue
  <2>1. CASE pc' = "exited"
    BY <2>1
  <2>2. CASE pc' # "exited"
    <3>1. PICK o \in Orders \ {<<>>} :
            pc' = "login" /\ order' = o /\ front' = ResumeIndex(o)
      BY <1>2, <2>2 DEF BuildQueue
    <3>2. order'[front'] = TL!Due(order', trials)
      BY <3>1, ResumeIsDue
    <3>3. trials' = trials
      BY <1>2 DEF BuildQueue
    <3> QED BY <3>1, <3>2, <3>3
  <2> QED BY <2>1, <2>2
<1>3. CASE Login \/ Window
  BY <1>3 DEF Login, Window
<1>4. CASE PickTrial
  <2>1. CASE stop
    BY <1>4, <2>1 DEF PickTrial
  <2>2. CASE ~stop
    <3>1. order \in Orders /\ order # <<>> /\ front \in 1..Len(order)
      BY <1>4 DEF PickTrial, TypeInv, QueueInv, Running
    <3>2. pc = "idle" /\ trial' = order[front] /\ front' = Rotated
          /\ order' = order /\ trials' = trials /\ pc' = "find"
      BY <1>4, <2>2 DEF PickTrial
    <3>3. order[Rotated] = TL!After(order, order[front])
      BY <3>1, AfterIndex DEF Rotated
    <3>4. order[front] \in Range(order)
      BY <3>1, PlanProperties DEF Range
    <3>5. order[front] = TL!Due(order, trials)
      BY <2>2, <3>2
    <3> QED BY <3>2, <3>3, <3>4, <3>5
  <2> QED BY <2>1, <2>2
<1>5. CASE FindAp \/ PutRadio \/ Refetch \/ Stamp
  BY <1>5 DEF FindAp, PutRadio, Refetch, Stamp
<1>6. CASE OpenTrial
  BY <1>6 DEF OpenTrial
<1>7. CASE CountRadar \/ CheckDeadline \/ NapOver
  BY <1>7 DEF CountRadar, CheckDeadline, NapOver
<1>8. CASE CloseTrial
  <2>1. order' = order /\ front' = front /\ stop' = stop
    BY <1>8 DEF CloseTrial
  <2>2. CASE pc' = "dead"
    BY <2>2
  <2>3. CASE pc' # "dead"
    <3>1. trials' = [trials EXCEPT ![tid] = Closed(@, EndedBy, radar)]
          /\ pc' \in {"cool", "window", "idle"}
      BY <1>8, <2>3 DEF CloseTrial
    <3>2. CASE EndedBy = "interrupted"
      <4>1. stop
        BY <3>2 DEF EndedBy
      <4> QED BY <2>1, <3>1, <4>1
    <3>3. CASE EndedBy # "interrupted"
      <4>1. pc \in RowOpen /\ trial \in Range(order) /\ order[front] = TL!After(order, trial)
        BY <1>8 DEF CloseTrial
      <4>2. EndedBy \in TL!Verdicts /\ radar \in Nat
        BY DEF EndedBy, TL!Verdicts, TypeInv, TypeOK
      <4>3. TL!Due(order, trials') = order[front]
        BY <3>1, <3>3, <4>1, <4>2, DueAfterClose
      <4> QED BY <2>1, <3>1, <4>3
    <3> QED BY <3>2, <3>3
  <2> QED BY <2>2, <2>3
<1>9. CASE Cool \/ FailedNap
  BY <1>9 DEF Cool, FailedNap
<1>10. CASE OpenFailed
  BY <1>10 DEF OpenFailed
<1>11. CASE CloseFailed
  <2>1. order' = order /\ front' = front /\ stop' = stop
    BY <1>11 DEF CloseFailed
  <2>2. CASE pc' = "dead"
    BY <2>2
  <2>3. CASE pc' # "dead"
    <3>1. trials' = [trials EXCEPT ![tid] = Closed(@, "apply_failed", 0)] /\ pc' = "fail_nap"
      BY <1>11, <2>3 DEF CloseFailed
    <3>2. pc \in RowOpen /\ trial \in Range(order) /\ order[front] = TL!After(order, trial)
      BY <1>11 DEF CloseFailed
    <3>3. "apply_failed" \in TL!Verdicts /\ 0 \in Nat
      BY DEF TL!Verdicts
    <3>4. TL!Due(order, trials') = order[front]
      BY <3>1, <3>2, <3>3, DueAfterClose
    <3> QED BY <2>1, <3>1, <3>4
  <2> QED BY <2>2, <2>3
<1>12. CASE Tick \/ HitTarget \/ HitNeighbour \/ Deliver \/ Lose
  BY <1>12 DEF Tick, HitTarget, HitNeighbour, Send, Deliver, Lose
<1>13. CASE UNCHANGED vars
  BY <1>13 DEF vars
<1> QED BY <1>1, <1>2, <1>3, <1>4, <1>5, <1>6, <1>7, <1>8, <1>9, <1>10, <1>11, <1>12, <1>13
        DEF Next, ThreadStep, Done

\* The queue and the table agree in every state.
LEMMA TurnInvariance == Spec => []TurnInv
<1>1. Init => TurnInv
  BY DEF Init, TurnInv, Between, Applying, RowOpen, Watching
<1> QED BY <1>1, TurnInvStep, TypeInvariance, PTL DEF Spec

\* The radio is only ever switched to the combination that is due.
THEOREM SwitchesWhenDue == Spec => SwitchOnlyWhenDue
<1>1. TypeInv /\ TurnInv /\ [Next]_vars
        => (ap' \in Combos /\ ap' # ap => ap' = TL!Due(order, trials) /\ pc = "put")
  <2> SUFFICES ASSUME TypeInv, TurnInv, [Next]_vars, ap' \in Combos, ap' # ap
               PROVE  ap' = TL!Due(order, trials) /\ pc = "put"
    OBVIOUS
  <2>1. PutRadio
    <3>1. NoCombo \notin Combos
      BY PlanAssumption
    <3> QED BY <3>1 DEF Next, ThreadStep, Boot, Stop, Exit, JoinExpires, Kill, PowerOff, BuildQueue,
           Login, Window, PickTrial, FindAp, Refetch, Stamp, OpenTrial, CountRadar, CheckDeadline,
           NapOver, CloseTrial, Cool, OpenFailed, CloseFailed, FailedNap, Tick, HitTarget,
           HitNeighbour, Send, Deliver, Lose, Done, vars, air
  <2> QED BY <2>1 DEF PutRadio, TurnInv, Applying
<1> QED BY <1>1, TypeInvariance, TurnInvariance, PTL DEF Spec, SwitchOnlyWhenDue

\* The scheduler implements the journal: each row it writes is for the combination
\* due after the row before, across restarts, crashes, failed applies and edited
\* plans, and no row is changed again once it is closed.
THEOREM Refinement == Spec => ImplementsTrialLog
<1>1. Init => TL!Init
  BY DEF Init, TL!Init
<1>2. TypeInv /\ TurnInv /\ [Next]_vars => [TL!Next]_(TL!vars)
  <2> SUFFICES ASSUME TypeInv, TurnInv, [Next]_vars
               PROVE  TL!Next \/ UNCHANGED TL!vars
    OBVIOUS
  <2>1. trials \in Seq(RowType) /\ clock \in Nat
    BY DEF TypeInv, TypeOK
  <2>2. CASE OpenStep
    <3>1. order \in Orders /\ order # <<>> /\ trial = TL!Due(order, trials)
      BY <2>2 DEF OpenStep, TypeInv, QueueInv, Running, Measuring, TurnInv, Applying
    <3>2. trials' = Append(trials, [combo |-> TL!Due(order, trials), started |-> clock,
                                    ended |-> NoTime, by |-> "null", radar |-> 0])
      BY <2>2, <3>1 DEF OpenStep, Row
    <3>3. TL!OpenRow
      BY <2>2, <3>1, <3>2 DEF OpenStep, TL!OpenRow
    <3> QED BY <3>3 DEF TL!Next
  <2>3. CASE CloseStep
    <3>1. PICK by \in TL!Verdicts, n \in Nat :
            /\ (by = "radar") <=> (n > 0)
            /\ trials' = [trials EXCEPT ![tid] = Closed(@, by, n)]
      BY <2>3 DEF CloseStep
    <3>2. /\ tid = Len(trials) /\ tid > 0 /\ tid \in 1..Len(trials)
          /\ trials[tid] \in RowType /\ trials[tid].by = "null"
      BY <2>3, ClosesLastRow DEF CloseStep, RowOpen, Watching
    <3>3. trials'[tid] = Closed(trials[tid], by, n)
      BY <2>1, <3>1, <3>2, CloseRowProperties
    <3>4. trials'[tid].by = by /\ trials'[tid].radar = n
      BY <3>2, <3>3 DEF Closed, RowType
    <3>5. trials # <<>>
      BY <2>1, <3>2, EmptySeq
    <3>6. trials' = [trials EXCEPT ![Len(trials)] =
                       [@ EXCEPT !.ended = clock, !.by = by, !.radar = n]]
      BY <3>1, <3>2 DEF Closed
    <3>7. TL!CloseRow
      BY <2>3, <3>1, <3>2, <3>4, <3>5, <3>6 DEF CloseStep, TL!CloseRow, TL!Last
    <3> QED BY <3>7 DEF TL!Next
  <2>4. CASE StillStep
    BY <2>1, <2>4 DEF StillStep, TL!Next, TL!TimePasses, TL!vars
  <2> QED BY <2>2, <2>3, <2>4, StepKinds
<1> QED BY <1>1, <1>2, TypeInvariance, TurnInvariance, PTL DEF Spec, TL!Spec, ImplementsTrialLog

-----------------------------------------------------------------------------
(* The transition window.                                                  *)

HourSince(t) == \E h \in t..clock : h % Day = TransitionHour

HourInv ==
  /\ pc \in {"cool", "fail_nap"} => LastBy # "dwell_complete"
  /\ (pc = "idle" /\ ~stop) \/ pc \in Applying =>
       (LastBy = "dwell_complete" /\ TransitionHour >= 0 => HourSince(trials[Len(trials)].ended))

\* The verdict of the newest row.
LEMMA LastByNonEmpty ==
  ASSUME trials \in Seq(RowType), LastBy # "none"
  PROVE  Len(trials) \in Rows /\ LastBy = trials[Len(trials)].by
<1>1. trials # <<>>
  BY DEF LastBy
<1> QED BY <1>1, EmptySeq, LenProperties DEF LastBy, Rows

\* The wait for the transition hour ends within it.
LEMMA HourInvStep == TypeInv /\ TimesInv /\ HourInv /\ [Next]_vars => HourInv'
<1> SUFFICES ASSUME TypeInv, TimesInv, HourInv, [Next]_vars
             PROVE  HourInv'
  OBVIOUS
<1>0. trials \in Seq(RowType) /\ clock \in Nat
  BY DEF TypeInv, TypeOK
<1> USE DEF Applying, Goto, air, db, process, frame
<1>1. CASE Boot \/ Exit \/ JoinExpires \/ Kill \/ BuildQueue
  BY <1>1 DEF Boot, Exit, JoinExpires, Kill, PowerOff, BuildQueue, HourInv
<1>2. CASE Stop
  BY <1>2 DEF Stop, HourInv, HourSince, LastBy
<1>3. CASE Login
  BY <1>3 DEF Login, HourInv, LastBy
<1>4. CASE Window
  <2>1. CASE stop
    BY <1>4, <2>1 DEF Window, HourInv
  <2>2. CASE ~stop
    <3>1. HourOpen /\ pc' = "idle" /\ trials' = trials /\ clock' = clock
      BY <1>4, <2>2 DEF Window
    <3>2. ASSUME LastBy = "dwell_complete", TransitionHour >= 0
          PROVE  HourSince(trials[Len(trials)].ended)
      <4>1. Len(trials) \in Rows /\ trials[Len(trials)].by = "dwell_complete"
        BY <1>0, <3>2, LastByNonEmpty
      <4>2. trials[Len(trials)].ended \in Nat /\ trials[Len(trials)].ended <= clock
        BY <4>1 DEF TimesInv
      <4>3. clock % Day = TransitionHour
        BY <3>1, <3>2, TimingAssumption DEF HourOpen
      <4> QED BY <1>0, <4>2, <4>3 DEF HourSince
    <3> QED BY <3>1, <3>2 DEF HourInv, HourSince, LastBy
  <2> QED BY <2>1, <2>2
<1>5. CASE PickTrial \/ FindAp \/ PutRadio \/ Refetch \/ Stamp
  BY <1>5 DEF PickTrial, FindAp, PutRadio, Refetch, Stamp, HourInv, HourSince, LastBy
<1>6. CASE OpenTrial \/ CountRadar \/ CheckDeadline \/ NapOver \/ OpenFailed
  <2>1. CASE trials' = trials
    BY <1>6, <2>1 DEF OpenTrial, CountRadar, CheckDeadline, NapOver, OpenFailed, HourInv
  <2>2. CASE trials' # trials
    BY <1>6, <2>2 DEF OpenTrial, CountRadar, CheckDeadline, NapOver, OpenFailed, HourInv
  <2> QED BY <2>1, <2>2
<1>7. CASE CloseTrial
  <2>1. CASE pc' = "cool"
    <3>1. trials' = [trials EXCEPT ![tid] = Closed(@, EndedBy, radar)] /\ EndedBy = "radar"
      BY <1>7, <2>1 DEF CloseTrial
    <3>2. LastBy' = "radar"
      <4>1. /\ tid = Len(trials) /\ tid > 0 /\ trials[tid] \in RowType
        BY <1>7, ClosesLastRow DEF CloseTrial, RowOpen, Watching
      <4>2. "radar" \in TL!Verdicts /\ radar \in Nat
        BY DEF TL!Verdicts, TypeInv, TypeOK
      <4>3. /\ trials' \in Seq(RowType) /\ Len(trials') = tid
            /\ trials'[tid] = Closed(trials[tid], "radar", radar)
        BY <1>0, <3>1, <4>1, <4>2, CloseRowProperties
      <4>4. trials'[tid].by = "radar"
        BY <4>1, <4>3 DEF Closed, RowType
      <4>5. trials' # <<>>
        BY <4>1, <4>3, EmptySeq
      <4> QED BY <4>3, <4>4, <4>5 DEF LastBy
    <3> QED BY <2>1, <3>2 DEF HourInv
  <2>2. CASE pc' # "cool"
    <3>1. pc' = "idle" => stop'
      BY <1>7, <2>2 DEF CloseTrial, EndedBy
    <3>2. pc' \in {"dead", "window", "idle"}
      BY <1>7, <2>2 DEF CloseTrial
    <3> QED BY <3>1, <3>2 DEF HourInv
  <2> QED BY <2>1, <2>2
<1>8. CASE Cool \/ FailedNap
  BY <1>8 DEF Cool, FailedNap, HourInv, LastBy
<1>9. CASE CloseFailed
  <2>1. CASE pc' = "fail_nap"
    <3>1. trials' = [trials EXCEPT ![tid] = Closed(@, "apply_failed", 0)]
      BY <1>9, <2>1 DEF CloseFailed
    <3>2. LastBy' = "apply_failed"
      <4>1. /\ tid = Len(trials) /\ tid > 0 /\ trials[tid] \in RowType
        BY <1>9, ClosesLastRow DEF CloseFailed, RowOpen, Watching
      <4>2. "apply_failed" \in TL!Verdicts /\ 0 \in Nat
        BY DEF TL!Verdicts
      <4>3. /\ trials' \in Seq(RowType) /\ Len(trials') = tid
            /\ trials'[tid] = Closed(trials[tid], "apply_failed", 0)
        BY <1>0, <3>1, <4>1, <4>2, CloseRowProperties
      <4>4. trials'[tid].by = "apply_failed"
        BY <4>1, <4>3 DEF Closed, RowType
      <4>5. trials' # <<>>
        BY <4>1, <4>3, EmptySeq
      <4> QED BY <4>3, <4>4, <4>5 DEF LastBy
    <3> QED BY <2>1, <3>2 DEF HourInv
  <2>2. CASE pc' # "fail_nap"
    BY <1>9, <2>2 DEF CloseFailed, HourInv
  <2> QED BY <2>1, <2>2
<1>10. CASE Tick
  <2>1. pc' = pc /\ stop' = stop /\ trials' = trials /\ clock' = clock + 1
    BY <1>10 DEF Tick
  <2>2. ASSUME LastBy = "dwell_complete", HourSince(trials[Len(trials)].ended)
        PROVE  HourSince(trials[Len(trials)].ended)'
    <3>1. Len(trials) \in Rows /\ trials[Len(trials)].by = "dwell_complete"
      BY <1>0, <2>2, LastByNonEmpty
    <3>2. trials[Len(trials)].ended \in Nat
      BY <3>1 DEF TimesInv
    <3>3. trials[Len(trials)].ended..clock \subseteq trials[Len(trials)].ended..(clock + 1)
      BY <1>0, <3>2
    <3> QED BY <2>1, <2>2, <3>3 DEF HourSince
  <2> QED BY <2>1, <2>2 DEF HourInv, LastBy
<1>11. CASE HitTarget \/ HitNeighbour \/ Deliver \/ Lose
  BY <1>11 DEF HitTarget, HitNeighbour, Send, Deliver, Lose, HourInv, HourSince, LastBy
<1>12. CASE UNCHANGED vars
  BY <1>12 DEF vars, HourInv, HourSince, LastBy
<1> QED BY <1>1, <1>2, <1>3, <1>4, <1>5, <1>6, <1>7, <1>8, <1>9, <1>10, <1>11, <1>12
        DEF Next, ThreadStep, Done

\* The transition hour has come whenever an apply follows a clean row.
LEMMA HourInvariance == Spec => []HourInv
<1>1. Init => HourInv
  BY DEF Init, HourInv, Applying
<1> QED BY <1>1, HourInvStep, TypeInvariance, TimesInvariance, PTL DEF Spec

\* A row is only appended when the hour has come since a clean one.
LEMMA WindowStep == TypeInv /\ HourInv /\ WindowBetween /\ [Next]_vars => WindowBetween'
<1> SUFFICES ASSUME TypeInv, HourInv, WindowBetween, [Next]_vars
             PROVE  WindowBetween'
  OBVIOUS
<1>1. /\ trials \in Seq(RowType) /\ clock \in Nat /\ Len(trials) \in Nat
      /\ Rows = 1..Len(trials)
  BY LenProperties DEF TypeInv, TypeOK, Rows
<1>2. CASE OpenStep
  <2>1. trial \in Combos
    BY <1>2 DEF OpenStep, TypeInv, RowInv, Applying
  <2>2. /\ trials' \in Seq(RowType) /\ Len(trials') = Len(trials) + 1
        /\ \A i \in 1..Len(trials) : trials'[i] = trials[i]
        /\ trials'[Len(trials) + 1] = Row(trial, clock)
    BY <1>1, <1>2, <2>1, AppendRow DEF OpenStep
  <2>3. Rows' = 1..(Len(trials) + 1)
    BY <2>2, LenProperties DEF Rows
  <2>4. SUFFICES ASSUME NEW i \in 1..Len(trials), TransitionHour >= 0,
                        trials[i].by = "dwell_complete"
                 PROVE  \E t \in trials[i].ended..trials'[i + 1].started : t % Day = TransitionHour
    BY <1>1, <2>2, <2>3 DEF WindowBetween
  <2>5. CASE i = Len(trials)
    <3>1. LastBy = "dwell_complete"
      BY <1>1, <2>4, <2>5, EmptySeq DEF LastBy
    <3>2. HourSince(trials[i].ended)
      BY <1>2, <2>4, <2>5, <3>1 DEF OpenStep, HourInv, Applying
    <3>3. trials'[i + 1].started = clock
      BY <2>2, <2>5 DEF Row
    <3> QED BY <3>2, <3>3 DEF HourSince
  <2>6. CASE i # Len(trials)
    <3>1. i + 1 \in 1..Len(trials)
      BY <1>1, <2>6
    <3> QED BY <1>1, <2>2, <2>4, <3>1 DEF WindowBetween
  <2> QED BY <2>5, <2>6
<1>3. CASE CloseStep
  <2>1. PICK by \in TL!Verdicts, n \in Nat : trials' = [trials EXCEPT ![tid] = Closed(@, by, n)]
    BY <1>3 DEF CloseStep
  <2>2. tid = Len(trials) /\ tid > 0 /\ trials[tid] \in RowType
    BY <1>3, ClosesLastRow DEF CloseStep, RowOpen, Watching
  <2>3. /\ trials' \in Seq(RowType) /\ Len(trials') = Len(trials)
        /\ \A i \in 1..Len(trials) : i # tid => trials'[i] = trials[i]
        /\ trials'[tid] = Closed(trials[tid], by, n)
    BY <1>1, <2>1, <2>2, CloseRowProperties
  <2>4. trials'[tid].started = trials[tid].started
    BY <2>2, <2>3 DEF Closed, RowType
  <2>5. Rows' = 1..Len(trials)
    BY <2>3, LenProperties DEF Rows
  <2>6. SUFFICES ASSUME NEW i \in 1..Len(trials), i + 1 \in 1..Len(trials), TransitionHour >= 0,
                        trials'[i].by = "dwell_complete"
                 PROVE  \E t \in trials'[i].ended..trials'[i + 1].started : t % Day = TransitionHour
    BY <2>5 DEF WindowBetween
  <2>7. i # tid
    <3>1. tid = Len(trials) /\ Len(trials) \in Nat
      BY <1>1, <2>2
    <3>2. i \in 1..Len(trials) /\ i + 1 \in 1..Len(trials)
      BY <2>6
    <3> QED BY <3>1, <3>2
  <2>8. trials'[i] = trials[i] /\ trials'[i + 1].started = trials[i + 1].started
    BY <2>3, <2>4, <2>6, <2>7
  <2> QED BY <1>1, <2>6, <2>8 DEF WindowBetween
<1>4. CASE StillStep
  BY <1>4 DEF StillStep, WindowBetween, Rows
<1> QED BY <1>2, <1>3, <1>4, StepKinds

\* After a clean dwell the transition hour comes before the next row, also when the
\* process was stopped or killed during the wait and booted again.
THEOREM WindowRespected == Spec => []WindowBetween
<1>1. Init => WindowBetween
  BY DEF Init, WindowBetween, Rows
<1> QED BY <1>1, WindowStep, TypeInvariance, HourInvariance, PTL DEF Spec

-----------------------------------------------------------------------------
(* The cooldown.                                                           *)

\* The row this process opened last was closed with radar.
HitRow == tid > 0 /\ trials[tid].by = "radar"

CoolInv ==
  /\ tid <= Len(trials)
  /\ pc \in {"off", "plan", "login"} => tid = 0
  /\ pc = "cool" /\ HitRow => wake >= trials[tid].ended + Cooldown
  /\ pc \in {"window", "fail_nap"} => ~HitRow
  /\ (pc = "idle" /\ ~stop) \/ pc \in {"find", "put"} =>
       (HitRow => clock >= trials[tid].ended + Cooldown)

\* The cooldown is set when its row is closed, and nothing moves it.
LEMMA CoolInvStep == TypeInv /\ TimesInv /\ CoolInv /\ [Next]_vars => CoolInv'
<1> SUFFICES ASSUME TypeInv, TimesInv, CoolInv, [Next]_vars
             PROVE  CoolInv'
  OBVIOUS
<1>0. /\ trials \in Seq(RowType) /\ clock \in Nat /\ tid \in Nat /\ Len(trials) \in Nat
      /\ Rows = 1..Len(trials)
  BY LenProperties DEF TypeInv, TypeOK, Rows
<1> USE DEF Goto, air, db, process, frame
<1>1. CASE Boot \/ Stop \/ Exit \/ JoinExpires \/ Kill
  BY <1>0, <1>1 DEF Boot, Stop, Exit, JoinExpires, Kill, PowerOff, CoolInv, HitRow
<1>2. CASE BuildQueue \/ Login \/ Window
  BY <1>0, <1>2 DEF BuildQueue, Login, Window, CoolInv, HitRow
<1>3. CASE PickTrial \/ FindAp \/ PutRadio \/ Refetch \/ Stamp
  BY <1>0, <1>3 DEF PickTrial, FindAp, PutRadio, Refetch, Stamp, CoolInv, HitRow
<1>4. CASE CountRadar \/ CheckDeadline \/ NapOver
  BY <1>0, <1>4 DEF CountRadar, CheckDeadline, NapOver, CoolInv, HitRow
<1>5. CASE OpenTrial \/ OpenFailed
  <2>1. CASE trials' = trials
    <3>1. tid' = tid \/ tid' = Len(trials) + 1
      BY <1>5 DEF OpenTrial, OpenFailed
    <3>2. tid' # Len(trials) + 1 \/ trials' # trials
      <4>1. trial \in Combos
        BY <1>5 DEF OpenTrial, OpenFailed, TypeInv, RowInv, Applying
      <4>2. Append(trials, Row(trial, clock)) # trials
        BY <1>0, <4>1, AppendRow
      <4> QED BY <1>0, <1>5, <4>2 DEF OpenTrial, OpenFailed, CoolInv
    <3> QED BY <1>0, <1>5, <2>1, <3>1, <3>2 DEF OpenTrial, OpenFailed, CoolInv
  <2>2. CASE trials' # trials
    <3>1. trial \in Combos
      BY <1>5 DEF OpenTrial, OpenFailed, TypeInv, RowInv, Applying
    <3>2. trials' = Append(trials, Row(trial, clock)) /\ tid' = Len(trials) + 1
          /\ pc' \in {"count", "dead", "fail_close"}
      BY <1>5, <2>2 DEF OpenTrial, OpenFailed
    <3>3. Len(trials') = Len(trials) + 1
      BY <1>0, <3>1, <3>2, AppendRow
    <3> QED BY <1>0, <3>2, <3>3 DEF CoolInv
  <2> QED BY <2>1, <2>2
<1>6. CASE CloseTrial \/ CloseFailed
  <2>1. /\ tid = Len(trials) /\ tid > 0 /\ trials[tid] \in RowType /\ tid' = tid
    BY <1>6, ClosesLastRow DEF CloseTrial, CloseFailed, ReturnFromTrial, RowOpen, Watching
  <2>2. CASE trials' = trials
    <3>1. pc' = "dead" \/ ~HitRow'
      BY <1>6, <2>1, <2>2, ClosesLastRow
         DEF CloseTrial, CloseFailed, HitRow, RowOpen, Watching
    <3>2. pc' \in {"dead", "cool", "window", "idle", "fail_nap"}
      BY <1>6 DEF CloseTrial, CloseFailed
    <3> QED BY <1>0, <2>1, <2>2, <3>1, <3>2 DEF CoolInv
  <2>3. ASSUME NEW by \in TL!Verdicts, NEW n \in Nat,
               trials' = [trials EXCEPT ![tid] = Closed(@, by, n)]
        PROVE  /\ Len(trials') = Len(trials)
               /\ trials'[tid].by = by /\ trials'[tid].ended = clock
    <3>1. Len(trials') = Len(trials) /\ trials'[tid] = Closed(trials[tid], by, n)
      BY <1>0, <2>1, <2>3, CloseRowProperties
    <3> QED BY <2>1, <3>1 DEF Closed, RowType
  <2>4. CASE CloseTrial /\ trials' # trials
    <3>1. EndedBy \in TL!Verdicts /\ radar \in Nat
      BY DEF EndedBy, TL!Verdicts, TypeInv, TypeOK
    <3>2. trials' = [trials EXCEPT ![tid] = Closed(@, EndedBy, radar)] /\ stop' = stop
          /\ \/ pc' = "dead"
             \/ pc' = "cool" /\ wake' = clock + Cooldown
             \/ pc' = "window" /\ EndedBy = "dwell_complete"
             \/ pc' = "idle" /\ EndedBy = "interrupted"
      BY <2>4, <3>1 DEF CloseTrial, EndedBy
    <3>3. Len(trials') = Len(trials) /\ trials'[tid].by = EndedBy /\ trials'[tid].ended = clock
      BY <2>3, <3>1, <3>2
    <3> QED BY <1>0, <2>1, <3>2, <3>3, TimingAssumption DEF CoolInv, HitRow
  <2>5. CASE CloseFailed /\ trials' # trials
    <3>1. "apply_failed" \in TL!Verdicts /\ 0 \in Nat
      BY DEF TL!Verdicts
    <3>2. trials' = [trials EXCEPT ![tid] = Closed(@, "apply_failed", 0)] /\ pc' = "fail_nap"
      BY <2>5 DEF CloseFailed
    <3>3. Len(trials') = Len(trials) /\ trials'[tid].by = "apply_failed"
      BY <2>3, <3>1, <3>2
    <3> QED BY <1>0, <2>1, <3>2, <3>3 DEF CoolInv, HitRow
  <2> QED BY <1>6, <2>2, <2>4, <2>5
<1>7. CASE Cool \/ FailedNap
  <2>1. HitRow => trials[tid].ended \in Nat
    BY <1>0 DEF HitRow, CoolInv, TimesInv
  <2>2. wake \in Nat
    BY DEF TypeInv, TypeOK
  <2> QED BY <1>0, <1>7, <2>1, <2>2, TimingAssumption DEF Cool, FailedNap, CoolInv, HitRow
<1>8. CASE Tick
  <2>1. HitRow => trials[tid].ended \in Nat
    BY <1>0 DEF HitRow, CoolInv, TimesInv
  <2> QED BY <1>0, <1>8, <2>1, TimingAssumption DEF Tick, CoolInv, HitRow
<1>9. CASE HitTarget \/ HitNeighbour \/ Deliver \/ Lose
  BY <1>9 DEF HitTarget, HitNeighbour, Send, Deliver, Lose, CoolInv, HitRow
<1>10. CASE UNCHANGED vars
  BY <1>10 DEF vars, CoolInv, HitRow
<1> QED BY <1>1, <1>2, <1>3, <1>4, <1>5, <1>6, <1>7, <1>8, <1>9, <1>10 DEF Next, ThreadStep, Done

\* A process that saw radar does not touch the AP again before the cooldown is over,
\* even when a stop request wakes the sleep.
THEOREM CooldownRespected == Spec => []CooldownBeforeSwitch
<1>1. Init => CoolInv
  <2> SUFFICES ASSUME Init
               PROVE  CoolInv
    OBVIOUS
  <2>1. tid = 0 /\ Len(trials) = 0
    BY EmptySeq DEF Init
  <2> QED BY <2>1 DEF Init, CoolInv, HitRow
<1>2. CoolInv => CooldownBeforeSwitch
  BY DEF CoolInv, CooldownBeforeSwitch, HitRow
<1> QED BY <1>1, <1>2, CoolInvStep, TypeInvariance, TimesInvariance, PTL DEF Spec
=============================================================================
