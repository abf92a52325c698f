------------------------ MODULE SchedulerProperties ------------------------
(***************************************************************************)
(* What the scheduler must guarantee, and what its documentation says of   *)
(* it, over the states and steps of Scheduler.                             *)
(***************************************************************************)
EXTENDS Scheduler

TL == INSTANCE TrialLog

Rows == DOMAIN trials

Measuring == {"stamp", "open", "count", "check", "nap", "close", "unwind"}

Watching == {"count", "check", "nap", "close", "unwind"}

PC == Measuring \cup
      {"off", "plan", "login", "window", "idle", "find", "put", "refetch", "cool",
       "fail_open", "fail_close", "fail_nap", "exited", "dead"}

RowType == [combo : Combos, started : Nat, ended : Nat \cup {NoTime},
            by : TL!Verdicts \cup {"null"}, radar : Nat]

\* Every variable has its type.
TypeOK ==
  /\ clock \in Nat
  /\ ap \in Combos \cup {NoCombo}
  /\ hits \in Nat
  /\ inflight \subseteq [hit : Nat, ts : Int]
  /\ events \in Seq(Int)
  /\ trials \in Seq(RowType)
  /\ pc \in PC
  /\ stop \in BOOLEAN
  /\ order \in Seq(Combos)
  /\ front \in 0..Len(order)
  /\ trial \in Combos \cup {NoCombo}
  /\ since \in Nat /\ tid \in Nat
  /\ deadline \in Nat /\ wake \in Nat /\ radar \in Nat

-----------------------------------------------------------------------------
(* Safety                                                                  *)

\* The row being watched is the newest one and is open, it is for the combination
\* the thread works on, and the AP is on that combination unless it heard radar
\* there: hours are only ever credited to the channel that was measured, whatever
\* part of the apply failed (set_radio, the except UnifiError branch).
MeasuringOnChannel ==
  /\ pc \in Measuring => ap \in {trial, NoCombo}
  /\ pc \in Watching => /\ tid = Len(trials) /\ tid > 0
                        /\ trials[tid].combo = trial
                        /\ trials[tid].by = "null"

\* No sender's local time is ahead of UTC.
NoSenderAhead == \A ahead \in Offsets : ahead <= 0

\* A radar event is counted by at most one trial: however the datagrams are
\* delayed, the counts in the table never add up to more than the events stored
\* (the `ts >= started_at` of count_radar_since, over a cooldown and restarts).
\* This takes NoSenderAhead: an event stamped ahead of its time is newer than trials
\* that start after it, and each of them counts it.
DetectionsConserved ==
  SumFunction([i \in Rows |-> trials[i].radar]) <= Len(events)

\* A row is over before the next one starts, unless a process died in between
\* and left it open: no two closed rows claim the same hours.
TrialsDontOverlap ==
  \A i, j \in Rows : i < j /\ trials[i].by # "null" => trials[i].ended <= trials[j].started

\* The rows the credit of row i may rest on: closed rows of its combination with
\* no other verdict than "interrupted" since.
Chain(i) ==
  {j \in 1..i : /\ trials[j].combo = trials[i].combo
                /\ \A k \in j..(i - 1) :
                     trials[k].combo = trials[i].combo => trials[k].by \in {"interrupted", "null"}
                /\ trials[j].by # "null"}

\* "dwell_complete" means that the combination was measured for the whole dwell,
\* in one piece or in consecutive interrupted pieces: the credit for a restart is
\* never taken from another combination or from before the last natural end.
CleanMeansFullDwell ==
  \A i \in Rows : trials[i].by = "dwell_complete" =>
    SumFunction([j \in Chain(i) |-> trials[j].ended - trials[j].started]) >= Dwell

\* After a clean dwell the AP is not moved before the transition hour has come,
\* also when the process was down, or stopped during the wait.
WindowBetween ==
  \A i \in Rows : i + 1 \in Rows /\ trials[i].by = "dwell_complete" /\ TransitionHour >= 0 =>
    \E t \in trials[i].ended..trials[i + 1].started : t % Day = TransitionHour

\* A process that closed a row with radar does not apply the next combination
\* before the cooldown is over, whatever stops or delays it.
CooldownBeforeSwitch ==
  pc \in {"find", "put"} /\ tid > 0 =>
    (trials[tid].by = "radar" => clock >= trials[tid].ended + Cooldown)

-----------------------------------------------------------------------------
(* Steps                                                                   *)

\* The table is the journal TrialLog describes: each new row is for the
\* combination due after the one before it, over restarts, crashes, failed
\* applies and changed plans, and closed rows are final.
ImplementsTrialLog == TL!Spec

\* The AP is switched by the scheduler only to the combination that is due, and
\* never while a trial is being watched.
SwitchOnlyWhenDue ==
  [][ap' \in Combos /\ ap' # ap => ap' = TL!Due(order, trials) /\ pc = "put"]_vars

-----------------------------------------------------------------------------
(* Liveness                                                                *)

\* A stop request ends the thread and then the process, wherever it arrives.
StopReachesExit == stop ~> (pc = "off")

\* Every trial that has time to finish is given a verdict.
TrialEnds ==
  \A n \in 1..(MaxTime + 1) :
    (Len(trials) = n /\ pc = "nap" /\ deadline + Poll <= MaxTime) ~>
      (n \in Rows /\ trials[n].by # "null")

\* Radar stored while the thread naps, with time for one more poll, ends the
\* trial: as radar, or as interrupted when a stop comes first.
StoredRadarEndsTrial ==
  \A n \in 1..(MaxTime + 1) :
    (Len(trials) = n /\ pc = "nap" /\ RadarSince(since) > 0 /\ wake <= MaxTime) ~>
      (n \in Rows /\ trials[n].by \in {"radar", "interrupted"})

\* The round robin goes on: after a cooldown, a failed apply or a window another
\* row is written, unless the scheduler stops.
NextTrialFollows ==
  \A n \in 1..(MaxTime + 1) :
    (/\ Len(trials) = n
     /\ \/ pc \in {"cool", "fail_nap"} /\ wake <= MaxTime
        \/ pc = "window" /\ \E t \in clock..MaxTime : t % Day = TransitionHour) ~>
      (Len(trials) > n \/ pc \in {"off", "exited", "dead"})

-----------------------------------------------------------------------------
(* What the documentation says and the code does not do                    *)

\* scheduler.py, "Move to the next trial in the queue and repeat forever": no
\* failed call ends the thread without a trace.
ThreadSurvives == pc # "dead"

\* scheduler.py, "If no radar fires within dwell_hours, end the trial as
\* 'dwell_complete' (the channel survived)": the interrupted hours a clean verdict
\* rests on have no stored radar either.
CreditedHoursQuiet ==
  \A i \in Rows : trials[i].by = "dwell_complete" =>
    \A j \in Chain(i) \ {i}, e \in Range(events) :
      ~(trials[j].started <= e /\ e < trials[j].ended)

\* config.example.yaml, "After a radar hit [...] wait this long before applying
\* the next trial."
CooldownBetweenTrials ==
  \A i \in Rows : i + 1 \in Rows /\ trials[i].by = "radar" =>
    trials[i + 1].started >= trials[i].ended + Cooldown
=============================================================================
