----------------------------- MODULE Scheduler -----------------------------
(***************************************************************************)
(* The trial scheduler (src/fjord_radar/scheduler.py), one step per call   *)
(* that can block, fail or be overtaken: the thread that drives one AP     *)
(* through a cyclic plan of (channel, width) combinations, the rows it     *)
(* writes to `trials`, the radar events the listener stores behind its     *)
(* back, and the process around it, which is stopped, killed and booted    *)
(* again over the same database.                                           *)
(*                                                                         *)
(* pc is the next thing the thread does: "plan" _build_queue, "login"      *)
(* ensure_logged_in and the look at the last row, "window" the wait for    *)
(* the transition hour, "idle" the top of the outer loop, "find", "put"    *)
(* and "refetch" the three controller calls of an apply, "stamp"           *)
(* started_at, "open" start_trial, "count" the radar query, "check" the    *)
(* deadline test, "nap" the poll sleep, "close" and "unwind" the finally   *)
(* clause (entered normally, or by an exception), "cool" the cooldown,     *)
(* and "fail_open", "fail_close", "fail_nap" the except UnifiError branch. *)
(* "exited" is a thread that returned, "dead" one killed by an exception   *)
(* nobody catches, and "off" a process that is not running.                *)
(***************************************************************************)
EXTENDS Integers, Sequences, FiniteSets, Functions

CONSTANTS Combos,          \* the (channel, width) combinations
          Orders,          \* the plans a boot may build: one for round_robin and
                           \* wide_first, any permutation for shuffle, others
                           \* after a config edit, <<>> for an empty plan
          NoCombo,         \* the AP is on a channel of its own choosing
          Dwell,           \* dwell_hours
          Poll,            \* poll_seconds
          Cooldown,        \* cooldown_after_radar_minutes
          Retry,           \* min(60, 2 * poll_seconds) after a failed apply
          Day,             \* time units in a day
          TransitionHour,  \* transition_hour; negative: no window
          Offsets,         \* how far the senders' local times are ahead of UTC
          MaxTime,         \* bound: the clock stops here
          MaxHits,         \* bound: radar log lines sent to the listener
          Faults           \* which of FaultKinds may happen

\* unifi: a controller call raises UnifiError.  net: it raises an exception of
\* requests, which is not a UnifiError.  db_read, db_write: sqlite raises.
\* loss: a syslog datagram is lost.  slow: a controller call outlasts the
\* ten seconds the shutdown waits.  kill: SIGKILL, or a SIGTERM that arrives
\* before the signal handlers are installed; the machine stays up, so what was
\* committed is there at the next boot.
FaultKinds == {"unifi", "net", "db_read", "db_write", "loss", "slow", "kill"}

NoTime == -1               \* ended_at IS NULL

IsPlan(o) == /\ o \in Seq(Combos)
             /\ \A i, j \in DOMAIN o : o[i] = o[j] => i = j

ASSUME PlanAssumption == (\A o \in Orders : IsPlan(o)) /\ NoCombo \notin Combos

ASSUME TimingAssumption ==
  /\ Dwell \in Nat /\ Cooldown \in Nat
  /\ Poll \in Nat \ {0} /\ Retry \in Nat \ {0}
  /\ Day \in Nat \ {0} /\ TransitionHour \in Int
  /\ MaxTime \in Nat /\ MaxHits \in Nat

ASSUME OffsetAssumption == Offsets \subseteq Int

ASSUME FaultAssumption == Faults \subseteq FaultKinds

VARIABLES clock,     \* wall clock of the server
          ap,        \* combination the AP's radio is on
          hits,      \* radar log lines sent so far
          inflight,  \* syslog datagrams on their way: [hit, ts]
          events,    \* timestamps of the stored radar events, in rowid order
          trials,    \* the trials table, in rowid order
          pc,        \* the next step of the scheduler thread
          stop,      \* the shared stop event
          order,     \* this boot's plan
          front,     \* index in order of the head of the queue
          trial,     \* the trial being run
          since,     \* started_at
          tid,       \* id of the last row this process opened, 0 if none
          deadline,  \* when the dwell is over
          wake,      \* when the current sleep is over
          radar      \* radar_count

air     == <<ap, hits, inflight>>
db      == <<events, trials>>
process == <<stop, order, front>>
frame   == <<trial, since, tid, deadline, wake, radar>>
vars    == <<clock, air, db, pc, process, frame>>

-----------------------------------------------------------------------------
(* Helpers                                                                 *)

Goto(p) == pc' = p

Faulty(f) == f \in Faults

\* The rows of the trials table.
Row(c, t) == [combo |-> c, started |-> t, ended |-> NoTime, by |-> "null", radar |-> 0]

\* Mutant: the planned end of the dwell is written, not the time of the update.
ClosedAsPlanned(row, by, n) ==
  [row EXCEPT !.ended = row.started + Dwell, !.by = by, !.radar = n]

Closed(row, by, n) == [row EXCEPT !.ended = clock, !.by = by, !.radar = n]

\* storage.last_trial: the ended_by of the newest row.
LastBy == IF trials = <<>> THEN "none" ELSE trials[Len(trials)].by

Monus(a, b) == IF a - b \in Nat THEN a - b ELSE 0

\* storage.prior_interrupted_hours: the trailing interrupted rows of this
\* combination, among its closed rows.
ClosedRows(c) == {i \in DOMAIN trials : trials[i].combo = c /\ trials[i].by # "null"}

\* Mutant: every interrupted row counts, not only those since the last natural end.
EveryInterrupted(c) == {i \in ClosedRows(c) : trials[i].by = "interrupted"}

Trailing(c) == {i \in ClosedRows(c) : \A j \in ClosedRows(c) :
                                        j >= i => trials[j].by = "interrupted"}

PriorInterrupted(c) ==
  SumFunction([i \in Trailing(c) |-> trials[i].ended - trials[i].started])

\* storage.count_radar_since: every stored radar event, whatever its host.
\* Mutant: the WHERE clause forgets the timestamp.
RadarEver(t) == Len(events)

RadarSince(t) == Cardinality({i \in DOMAIN events : events[i] >= t})

\* The local hour is the transition hour, or there is no such hour.
\* Mutant: the gate opens an hour late, which for the last hour is never.
HourOpenLate == TransitionHour < 0 \/ clock % Day = TransitionHour + 1

HourOpen == TransitionHour < 0 \/ clock % Day = TransitionHour

\* _build_queue: where the queue starts, given the newest row.
\* Mutant: a row left open by a dead process counts as a finished trial.
ResumePastOrphan(o) ==
  LET at == {i \in DOMAIN o : trials # <<>> /\ o[i] = trials[Len(trials)].combo}
  IN  IF at = {} THEN 1
      ELSE LET i == CHOOSE i \in at : TRUE
           IN  IF LastBy = "interrupted" THEN i
               ELSE IF i = Len(o) THEN 1 ELSE i + 1

ResumeIndex(o) ==
  LET at == {i \in DOMAIN o : trials # <<>> /\ o[i] = trials[Len(trials)].combo}
  IN  IF at = {} THEN 1
      ELSE LET i == CHOOSE i \in at : TRUE
           IN  IF LastBy \in {"null", "interrupted"} THEN i
               ELSE IF i = Len(o) THEN 1 ELSE i + 1

\* Mutant: the queue does not wrap around.
RotatedPastEnd == front + 1

Rotated == IF front = Len(order) THEN 1 ELSE front + 1

\* The verdict the finally clause writes.
EndedBy == IF radar > 0 THEN "radar"
           ELSE IF stop THEN "interrupted" ELSE "dwell_complete"

-----------------------------------------------------------------------------
(* The process                                                             *)

Init ==
  /\ clock = 0 /\ ap = NoCombo /\ hits = 0 /\ inflight = {}
  /\ events = <<>> /\ trials = <<>>
  /\ pc = "off" /\ stop = FALSE /\ order = <<>> /\ front = 0
  /\ trial = NoCombo /\ since = 0 /\ tid = 0
  /\ deadline = 0 /\ wake = 0 /\ radar = 0

\* The process is gone, and with it everything that was not in the database.
PowerOff ==
  /\ Goto("off")
  /\ stop' = FALSE /\ order' = <<>> /\ front' = 0
  /\ trial' = NoCombo /\ since' = 0 /\ tid' = 0
  /\ deadline' = 0 /\ wake' = 0 /\ radar' = 0
  /\ UNCHANGED <<clock, air, db>>

\* app.run: storage, listener and scheduler come up; that takes a while.
Boot ==
  /\ pc = "off" /\ clock < MaxTime
  /\ clock' = clock + 1
  /\ Goto("plan")
  /\ UNCHANGED <<air, db, process, frame>>

\* SIGTERM or SIGINT.
Stop ==
  /\ pc # "off" /\ ~stop
  /\ stop' = TRUE
  /\ UNCHANGED <<clock, air, db, pc, order, front, frame>>

\* The shutdown sequence, after a scheduler.join that found the thread ended.
Exit == stop /\ pc \in {"exited", "dead"} /\ PowerOff

\* The same after a join that gave up on a controller call: the call, or what the thread
\* does after it, ends with the process (App has these steps one by one).
JoinExpires ==
  /\ Faulty("slow") /\ stop
  /\ pc \in {"login", "find", "put", "refetch", "stamp", "open", "count", "close",
            "fail_open", "fail_close", "fail_nap"}
  /\ PowerOff

Kill == Faulty("kill") /\ pc # "off" /\ PowerOff

-----------------------------------------------------------------------------
(* The scheduler thread: _run                                              *)

BuildQueue ==
  /\ pc = "plan"
  /\ \/ \E o \in Orders \ {<<>>} :
          Goto("login") /\ order' = o /\ front' = ResumeIndex(o)
     \/ /\ <<>> \in Orders \/ Faulty("db_read")
        /\ Goto("exited") /\ UNCHANGED <<order, front>>
  /\ UNCHANGED <<clock, air, db, stop, frame>>

\* Mutant: a boot does not look at how the last trial ended.
LoginOnly ==
  /\ pc = "login"
  /\ \/ Goto("idle")
     \/ Faulty("unifi") /\ Goto("exited")
     \/ (Faulty("net") \/ Faulty("db_read")) /\ Goto("dead")
  /\ UNCHANGED <<clock, air, db, process, frame>>

Login ==
  /\ pc = "login"
  /\ \/ Goto(IF LastBy = "dwell_complete" THEN "window" ELSE "idle")
     \/ Faulty("unifi") /\ Goto("exited")
     \/ (Faulty("net") \/ Faulty("db_read")) /\ Goto("dead")
  /\ UNCHANGED <<clock, air, db, process, frame>>

\* _wait_for_transition_window
Window ==
  /\ pc = "window"
  /\ stop \/ HourOpen
  /\ Goto("idle")
  /\ UNCHANGED <<clock, air, db, process, frame>>

\* Mutant: the outer loop does not test the stop event.
PickRegardless ==
  /\ pc = "idle"
  /\ Goto("find") /\ trial' = order[front] /\ front' = Rotated
  /\ UNCHANGED <<clock, air, db, stop, order, since, tid, deadline, wake, radar>>

\* Mutant: the queue is rotated before its head is read.
PickAfterRotate ==
  /\ pc = "idle"
  /\ IF stop THEN Goto("exited") /\ UNCHANGED <<trial, front>>
     ELSE Goto("find") /\ trial' = order[Rotated] /\ front' = Rotated
  /\ UNCHANGED <<clock, air, db, stop, order, since, tid, deadline, wake, radar>>

PickTrial ==
  /\ pc = "idle"
  /\ IF stop THEN Goto("exited") /\ UNCHANGED <<trial, front>>
     ELSE Goto("find") /\ trial' = order[front] /\ front' = Rotated
  /\ UNCHANGED <<clock, air, db, stop, order, since, tid, deadline, wake, radar>>

-----------------------------------------------------------------------------
(* The scheduler thread: _run_trial                                        *)

FindAp ==
  /\ pc = "find"
  /\ \/ Goto("put")
     \/ Faulty("unifi") /\ Goto("fail_open")
     \/ Faulty("net") /\ Goto("dead")
  /\ UNCHANGED <<clock, air, db, process, frame>>

\* Mutant: an error status of the PUT is only logged.
PutUnchecked ==
  /\ pc = "put"
  /\ \/ Goto("refetch") /\ ap' = trial
     \/ /\ \/ Faulty("unifi") /\ Goto("refetch")
           \/ Faulty("net") /\ Goto("dead")
        /\ ap' \in {ap, trial}
  /\ UNCHANGED <<clock, hits, inflight, db, process, frame>>

\* The PUT of set_radio; one that fails may have reached the AP all the same.
PutRadio ==
  /\ pc = "put"
  /\ \/ Goto("refetch") /\ ap' = trial
     \/ /\ \/ Faulty("unifi") /\ Goto("fail_open")
           \/ Faulty("net") /\ Goto("dead")
        /\ ap' \in {ap, trial}
  /\ UNCHANGED <<clock, hits, inflight, db, process, frame>>

\* The find_ap at the end of set_radio.
Refetch ==
  /\ pc = "refetch"
  /\ \/ Goto("stamp")
     \/ Faulty("unifi") /\ Goto("fail_open")
     \/ Faulty("net") /\ Goto("dead")
  /\ UNCHANGED <<clock, air, db, process, frame>>

Stamp ==
  /\ pc = "stamp"
  /\ since' = clock
  /\ Goto("open")
  /\ UNCHANGED <<clock, air, db, process, trial, tid, deadline, wake, radar>>

\* start_trial, then prior_interrupted_hours and the deadline.
OpenTrial ==
  /\ pc = "open"
  /\ \/ /\ trials' = Append(trials, Row(trial, clock))
        /\ tid' = Len(trials) + 1
        /\ \/ /\ Goto("count")
              /\ deadline' = clock + Monus(Dwell, PriorInterrupted(trial))
           \/ Faulty("db_read") /\ Goto("dead") /\ UNCHANGED deadline
     \/ Faulty("db_write") /\ Goto("dead") /\ UNCHANGED <<trials, tid, deadline>>
  /\ UNCHANGED <<clock, air, events, process, trial, since, wake, radar>>

\* Mutant: each poll counts only what was logged since the poll before.
CountFresh ==
  /\ pc = "count"
  /\ \/ stop /\ Goto("close") /\ UNCHANGED radar
     \/ /\ ~stop
        /\ radar' = RadarSince(clock)
        /\ Goto(IF radar' > 0 THEN "close" ELSE "check")
     \/ ~stop /\ Faulty("db_read") /\ Goto("unwind") /\ UNCHANGED radar
  /\ UNCHANGED <<clock, air, db, process, trial, since, tid, deadline, wake>>

CountRadar ==
  /\ pc = "count"
  /\ \/ stop /\ Goto("close") /\ UNCHANGED radar
     \/ /\ ~stop
        /\ radar' = RadarSince(since)
        /\ Goto(IF radar' > 0 THEN "close" ELSE "check")
     \/ ~stop /\ Faulty("db_read") /\ Goto("unwind") /\ UNCHANGED radar
  /\ UNCHANGED <<clock, air, db, process, trial, since, tid, deadline, wake>>

\* Mutant: the deadline is computed anew in every round of the loop.
CheckRolling ==
  /\ pc = "check"
  /\ IF clock >= clock + Dwell THEN Goto("close") /\ UNCHANGED wake
     ELSE Goto("nap") /\ wake' = clock + Poll
  /\ UNCHANGED <<clock, air, db, process, trial, since, tid, deadline, radar>>

CheckDeadline ==
  /\ pc = "check"
  /\ IF clock >= deadline THEN Goto("close") /\ UNCHANGED wake
     ELSE Goto("nap") /\ wake' = clock + Poll
  /\ UNCHANGED <<clock, air, db, process, trial, since, tid, deadline, radar>>

\* Mutant: a plain time.sleep.
NapDeaf ==
  /\ pc = "nap"
  /\ clock >= wake
  /\ Goto("count") /\ wake' = 0
  /\ UNCHANGED <<clock, air, db, process, trial, since, tid, deadline, radar>>

\* _sleep returns early on stop.
NapOver ==
  /\ pc = "nap"
  /\ stop \/ clock >= wake
  /\ Goto("count") /\ wake' = 0
  /\ UNCHANGED <<clock, air, db, process, trial, since, tid, deadline, radar>>

\* The locals of _run_trial go out of scope, except the row's id, which is
\* kept to tell the rows of this process from those of earlier ones.
ReturnFromTrial ==
  /\ trial' = NoCombo /\ since' = 0 /\ deadline' = 0 /\ radar' = 0
  /\ UNCHANGED tid

\* The finally clause and what follows it.
CloseTrial ==
  /\ pc \in {"close", "unwind"}
  /\ \/ /\ trials' = [trials EXCEPT ![tid] = Closed(@, EndedBy, radar)]
        /\ IF pc = "unwind" THEN Goto("dead") /\ UNCHANGED wake
           ELSE IF EndedBy = "radar" THEN Goto("cool") /\ wake' = clock + Cooldown
           ELSE /\ Goto(IF EndedBy = "dwell_complete" THEN "window" ELSE "idle")
                /\ UNCHANGED wake
     \/ Faulty("db_write") /\ Goto("dead") /\ UNCHANGED <<trials, wake>>
  /\ ReturnFromTrial
  /\ UNCHANGED <<clock, air, events, process>>

Cool ==
  /\ pc = "cool"
  /\ stop \/ clock >= wake
  /\ Goto("idle") /\ wake' = 0
  /\ UNCHANGED <<clock, air, db, process, trial, since, tid, deadline, radar>>

\* except UnifiError: a row of its own, closed at once, and a short sleep.
OpenFailed ==
  /\ pc = "fail_open"
  /\ \/ /\ trials' = Append(trials, Row(trial, clock))
        /\ tid' = Len(trials) + 1
        /\ Goto("fail_close")
     \/ Faulty("db_write") /\ Goto("dead") /\ UNCHANGED <<trials, tid>>
  /\ UNCHANGED <<clock, air, events, process, trial, since, deadline, wake, radar>>

CloseFailed ==
  /\ pc = "fail_close"
  /\ \/ /\ trials' = [trials EXCEPT ![tid] = Closed(@, "apply_failed", 0)]
        /\ Goto("fail_nap") /\ wake' = clock + Retry
     \/ Faulty("db_write") /\ Goto("dead") /\ UNCHANGED <<trials, wake>>
  /\ ReturnFromTrial
  /\ UNCHANGED <<clock, air, events, process>>

FailedNap ==
  /\ pc = "fail_nap"
  /\ stop \/ clock >= wake
  /\ Goto("idle") /\ wake' = 0
  /\ UNCHANGED <<clock, air, db, process, trial, since, tid, deadline, radar>>

-----------------------------------------------------------------------------
(* Time, the air and the listener                                          *)

\* The sleeps of _wait_for_transition_window end within the hour they wait for.
Tick ==
  /\ clock < MaxTime
  /\ ~(pc = "window" /\ HourOpen)
  /\ clock' = clock + 1
  /\ UNCHANGED <<air, db, pc, process, frame>>

\* A line is stamped with its sender's local time, which _parse_ts reads as UTC
\* (what it makes of a missing year is in Ingest).
Send == /\ hits < MaxHits
        /\ hits' = hits + 1
        /\ \E ahead \in Offsets :
             inflight' = inflight \cup {[hit |-> hits', ts |-> clock + ahead]}

\* The AP hears radar on the combination under trial and leaves it.
HitTarget ==
  /\ ap # NoCombo
  /\ ap' = NoCombo
  /\ Send
  /\ UNCHANGED <<clock, db, pc, process, frame>>

\* Another AP reports radar, or the AP repeats its report.
HitNeighbour ==
  /\ Send
  /\ UNCHANGED <<clock, ap, db, pc, process, frame>>

\* The listener stores a datagram; a line without a stamp it can read is dated now.
Deliver ==
  /\ pc # "off"
  /\ \E m \in inflight :
       /\ inflight' = inflight \ {m}
       /\ \E ts \in {m.ts, clock} : events' = Append(events, ts)
  /\ UNCHANGED <<clock, ap, hits, trials, pc, process, frame>>

\* Nobody is listening, or the network drops it.
Lose ==
  /\ pc = "off" \/ Faulty("loss")
  /\ \E m \in inflight : inflight' = inflight \ {m}
  /\ UNCHANGED <<clock, ap, hits, db, pc, process, frame>>

\* The end of the bounded behaviour.
Done == clock = MaxTime /\ UNCHANGED vars

-----------------------------------------------------------------------------
ThreadStep ==
  \/ BuildQueue \/ Login \/ Window \/ PickTrial
  \/ FindAp \/ PutRadio \/ Refetch \/ Stamp \/ OpenTrial
  \/ CountRadar \/ CheckDeadline \/ NapOver \/ CloseTrial \/ Cool
  \/ OpenFailed \/ CloseFailed \/ FailedNap

Next ==
  \/ Boot \/ Stop \/ Exit \/ JoinExpires \/ Kill
  \/ ThreadStep
  \/ Tick \/ HitTarget \/ HitNeighbour \/ Deliver \/ Lose
  \/ Done

Spec == Init /\ [][Next]_vars

\* The operating system runs the thread and the main thread of a live process,
\* time goes on, and a datagram on its way arrives.
FairSpec ==
  /\ Spec
  /\ WF_vars(ThreadStep) /\ WF_vars(Exit)
  /\ WF_vars(Tick) /\ WF_vars(Deliver)
=============================================================================
