# Verification of Fjord-Radar

Fjord-Radar (`src/`) drives one UniFi access point through a cyclic plan of
(channel, width) combinations, keeps it on each for `dwell_hours` or until radar
is heard, and records what happened. Its answers (which channel is clean, which
comes next) rest on a table written by one thread, events written by another, a
controller that can fail in the middle of a call, and a process that is stopped,
killed and started again. This directory holds TLA+ models of that core, TLC
configurations that check them on small instances, and TLAPS proofs of the main
safety properties for every plan, duration and fault set.

    tlc -workers 2 -config sched_faults.cfg MCScheduler
    tlc -workers 2 -config app.cfg AppProperties
    tlapm SchedulerProofs.tla

## 1. The system

All paths are under `src/fjord_radar/`.

| Part | State | Operations | Talks to |
|---|---|---|---|
| `scheduler.py` Scheduler | the queue, the trial being run, `started_at`, deadline, `radar_count` | `_build_queue`, `_run`, `_run_trial`, `_wait_for_transition_window`, `_sleep` | writes `trials`, reads `events`; calls the UniFi client; stopped by a shared event |
| `storage.py` Storage | `events`, `sessions`, `trials` (sqlite, WAL), `events.csv`, the write lock | `record`, `_update_sessions`, `start_trial`, `end_trial`, `count_radar_since`, `last_trial`, `prior_interrupted_hours`, `close`, report queries | one connection shared by all threads |
| `listener.py` SyslogListener | socket, counters | `_serve`, `start`, `stop`, `stats` | parser, `Storage.record` |
| `parser.py` | none | `parse`, `_freq_to_chan`, `_parse_ts` | |
| `unifi_client.py` UnifiClient | HTTP session, CSRF token, `_logged_in` | `login`, `ensure_logged_in`, `_request`, `find_ap`, `set_radio`, `get_country_code` | the controller, which configures the AP |
| `planner.py` | none | `build_trials`, `order` | |
| `app.py` | the stop event | `run`: boot, signal handlers, shutdown with join time-outs | everything |
| `web.py`, `report.py` | the web server's thread | read-only pages, among them the channel map, and a table; `start`, `stop` | Storage, Scheduler.status, the planner's tables |
| `config.py` | none | read once at boot | |
| deployment (`docker-compose.yml`, `containers/`, `promtail/`, `grafana/`, shell) | none of the program's | | |

What is hard in it:

* **Restarts.** The queue is not stored. A boot reconstructs it from the last
  row of `trials`, which may be closed, interrupted, failed or left open by a
  dead process, and under a plan that may have changed (shuffle, edited config).
* **Partial failure.** An apply is three controller calls. Each may raise
  `UnifiError`, which is handled, or an exception of `requests`, which is not;
  a PUT that failed may have moved the AP all the same.
* **Interleaving.** The listener stores radar while the scheduler is between
  counting it, testing the deadline, and closing the row; datagrams arrive late
  and may belong to the trial before.
* **Shared connection.** Writers hold a lock, readers do not, and all use one
  sqlite connection: readers see uncommitted rows.
* **Two readings of one configuration.** The planner decides from pool, blacklists
  and sub-channels what is tried; the channel map decides from other rules what is
  shown.
* **Taking it down.** The threads are stopped one after the other while they hold or
  want the write lock, each join may give up, and the storage is closed under whoever
  is left.
* **Log times.** A syslog stamp has no year and shows the sender's local time, which is
  read as UTC; radar counts for a trial by that stamp.
* **What a crash leaves.** A SIGKILL loses the open transaction, a loss of power the last
  committed ones too, and the CSV file is synced with neither.
* **Figures.** Hours are summed over rows that are open, closed, interrupted or
  orphaned, and again over the channels of a wide block.
* **Time.** Dwell, poll, cooldown, retry and the transition hour, all of which a
  stop request must cut short, and which a restart must not shorten.

## 2. The modules

| Module | What it is |
|---|---|
| `TrialLog` | Abstract specification of the `trials` table: an append-only journal in which each row is for the combination due after the row before it, only the last row is ever closed, once, and it counts radar exactly when its verdict is `radar`. |
| `Scheduler` | The scheduler thread, one action per call that blocks, fails or can be overtaken, composed with what surrounds it: the AP, the syslog datagrams under way, the listener's effect on `events`, the clock, and a process that boots, is stopped, exits and is killed over the same database. |
| `SchedulerProperties` | Its type invariant, safety, step and liveness properties, and what the documentation says that the code does not do. |
| `SchedulerProofs` | TLAPS proofs about `Scheduler`. |
| `CountingProofs` | Proofs about what its rows add up to: radar events, and the hours behind a clean verdict. |
| `DataLemmas` | Lemmas the proofs share: sums over finite sets, and blocks of channels. |
| `MCScheduler` | Plans and values for TLC. |
| `ApplyCalls` | Abstract specification of an apply: find, PUT, re-fetch, each done once or failed for good, the PUT alone changing the radio. |
| `UnifiClient` | The client behind those calls: cookie, CSRF token, `_logged_in`, login, the one repetition after a refusal, the radio table that is read and written back; and a controller that ends sessions, changes tokens and serves others. |
| `UnifiClientProperties`, `UnifiClientProofs`, `MCUnifiClient` | Its properties, proofs and model. |
| `Ingest` | The way of a log line: datagram, parser, the transaction of `record`, the CSV append and the counters, with the scheduler's poll and `end_trial` over the same connection and lock, and crashes. |
| `IngestProperties`, `IngestProofs`, `MCIngest` | Its properties, proofs, and the lines and clocks TLC feeds it. |
| `App` | The process: the main thread's boot and shutdown, step by step, with the two worker threads, the web server and a page in progress, the write lock and the connection. |
| `AppProperties`, `AppProofs` | What a shutdown promises, and proofs of it. |
| `Channels` | The hand-written tables of channel blocks, and the 802.11 arithmetic they are checked against. |
| `Planner` | `build_trials` over those tables, as a function of the scan section of `config.yaml`, which the user edits. |
| `ChannelMap` | The dashboard's map over the same tables: which blocks have a cell, and how a cell is classified, in each regulatory domain; with the properties of both. |
| `Reports` | `trial_stats`, which is also the table of `report.py`, and the sums per 20 MHz channel of the dashboard, over the rows of `Scheduler`; with their properties. |
| `MCPlanner` | Nearly the whole 5 GHz pool, and the entries that are edited. |
| `PlannerProofs`, `ReportsProofs` | Proofs of the properties of `Planner` with `ChannelMap`, and of `Reports`. |

`Scheduler` uses the listener at the grain "a stored radar event"; `Ingest`
refines the same interface from the other side, at the grain of sqlite
statements, with the scheduler reduced to its poll and its write. The two share
`events`, `count_radar_since` and `end_trial`. `App` opens up what both take as one
step, the boot and the shutdown (`Boot`, `Exit`, `JoinExpires`; `Boot`, `Shutdown`),
and reduces the threads to what a shutdown meets in them. `Reports` extends
`Scheduler`: the figures are asked for in every state of it. `Scheduler` takes an apply to be
the three calls of `ApplyCalls` (`FindAp`, `PutRadio`, `Refetch`);
`UnifiClient` is shown to implement them.

### Scheduler: variables and actions

`clock` is the server's clock in abstract units (the monotonic and the wall
clock are one: the model has no clock jumps). `ap` is the combination the radio
is on, `NoCombo` once the AP chose for itself. `events` holds the timestamps of
stored radar events, `trials` the rows (`combo`, `started`, `ended`, `by`,
`radar`). `order` and `front` are the deque: its head is `order[front]`, and
`rotate(-1)` moves `front` by one. `trial`, `since`, `tid`, `deadline`, `wake`
and `radar` are the locals of `_run_trial` and `_sleep`; `pc` says which call
comes next. `_current`, which only the dashboard reads, is left out.

| Code | Actions |
|---|---|
| `_run` | `BuildQueue`, `Login`, `Window`, `PickTrial` |
| `_run_trial` | `FindAp`, `PutRadio`, `Refetch`, `Stamp`, `OpenTrial`, `CountRadar`, `CheckDeadline`, `NapOver`, `CloseTrial`, `Cool`; the `except UnifiError` branch is `OpenFailed`, `CloseFailed`, `FailedNap` |
| `app.run` | `Boot`, `Stop`, `Exit`, `JoinExpires`; `Kill` is the operating system's |
| listener, AP, network | `Deliver`, `Send`, `HitTarget`, `HitNeighbour`, `Lose`, `Tick` |

`PriorInterrupted` is the loop of `prior_interrupted_hours` as the set of rows it
adds up; `ResumeIndex` the rotation loop of `_build_queue` as the index it ends
at; `EndedBy` the verdict of the `finally` clause. An exception in the poll loop
goes through `pc = "unwind"`, which runs that clause and then kills the thread.

`Offsets` are the local times the senders of radar lines may have, against UTC: `Send`
stamps a line with its sender's, `Deliver` stores it as it is, as `_parse_ts` does, or
with the time of arrival for a line without a readable stamp.

`Faults` selects what can go wrong in a run: `unifi`, `net` (an exception of
`requests`), `db_read`, `db_write`, `loss`, `slow` (a controller call outlasts
the ten-second join) and `kill`, which is SIGKILL on a machine that stays up: what was
committed is there at the next boot. A loss of power, which may take the last rows of
`trials` too (`storage.py:105`), is left to `Ingest`; the journal and the sums over it are
not claimed to survive it. A boot takes one unit of time, so two processes
never act at the same instant; the wait for the transition hour wakes within the
hour it waits for (its sleeps are at most an hour and end ten seconds before it),
which is why `Tick` does not step over an open window.

### Planner and ChannelMap

`Channels` states the three tables of `planner.py` as they are written there.
The state is the configuration (`channels`, `widths`, the two blacklists), and the
actions are the user's edits of it, one entry at a time; the plan and the map are
functions of it. A block of channels is a tuple, named by its first channel as in
the code. The plan is a set: `Scheduler` takes any sequence of distinct
combinations, so how `order` arranges it is the constant `Orders` there. The shade
of a cell is reduced to what was observed (`nothing`, `quiet`, `radar`); the five
sets of channels of `_make_regulatory_db` stand for the countries.

### Reports: operators

`TrialStats` is the `GROUP BY` of `trial_stats` as a function of the combinations
that have rows; `Hours` is its `COALESCE(ended_at, now)`. `BySubchannel` is
`_aggregate_by_subchannel`, over the same stats; the sum runs over the combinations
that cover a channel instead of fanning each row out. Nothing is rounded.

### App: variables and actions

`main` is the main thread's next call in `run`; the sequence after the signal is
`stop_web`, `join_scheduler`, `stop_listener`, `join_listener`, `close`, `return`.
`sched` walks one trial at the grain of what a shutdown meets: the first login and the
controller calls of an apply (`begin` and `call`, the two places that can outlast the ten
seconds of the join), the transactions of `start_trial` and `end_trial`, the read of the
interrupted hours (`credit`), the poll loop. `listener` waits for a datagram, for the lock,
or is in a transaction. `web` is the thread that accepts requests; each request is answered
by a daemon thread of its own (`threaded=True`, `web.py:1041`) that nobody joins, and `page`
stands for those in progress. `lock`, `conn` and `row` (the newest row of `trials`) are what
they share. Two are history variables: `late`, the threads a join gave up on, and `refused`,
that an error of the database has ended the scheduler and left its row open.

| Code | Actions |
|---|---|
| `run`, boot | `OpenStorage`, `StartListener`, `StartScheduler`, `StartWeb`, `Handle`, `BootFails` |
| `run`, shutdown | `Signal`, `LeaveWait`, `StopWeb`, `JoinScheduler`, `StopListener`, `JoinListener`, `CloseStorage`, `Return` |
| scheduler thread | `Begin`, `NextTrial`, `CallReturns`, `SchedBegins`, `SchedCommits`, `ReadCredit`, `Watch` |
| listener thread | `Receive`, `ListenerBegins`, `ListenerCommits` |
| request threads | `PageBegins`, `PageEnds` |

A thread that meets the closed connection raises (`MeetsClosed`): the scheduler's ends, the
listener's logs it and goes on. The faults are a socket that is taken, a controller call
that raises what nobody catches, a statement of the scheduler that raises
(`DatabaseFails`), a `Feb 29` the parser raises for, joins that give up, and kills. A
statement of the listener that raises rolls back and goes on, which `ListenerCommits`
includes; what that does to the tables is in `Ingest`.

### Ingest: variables and actions

`wire` is the queue of datagrams, each a sequence of lines; a line is the host,
the set of pattern families it matches, and its frequency and channel, if any.
`tables` is what the connection sees, `saved` what is committed: `ROLLBACK` and
a SIGKILL set the first to the second. `lpc` walks `_serve` and `record`
statement by statement, `spc` the scheduler's poll and `end_trial`; `lock` is
`_write_lock`. `csv`, the listener's count `counted` and the history variable `failed`
(events whose transaction raised) complete it.

A loss of power is two steps: the process goes (`Kill`), and then what was not synced
(`PowerLoss`). With WAL and `synchronous=NORMAL` (`storage.py:104-105`) a commit waits for
no sync, so what is left of the database is any state it has had since the last loss of
power (`older`, the earlier commits, which are lost last first), and of the CSV file any
prefix, independently: the file may then hold events the database has lost, and those are
remembered in `lost`. When sqlite and the system do sync is not modelled, so this is every
state that either may leave.

`sent` is the time: the n-th line is sent at time n. A line carries what its sender's
clock shows (`Zone`) without the year (`Stamp`); `ParseTs` gives it the year of the
moment it is read, or the one before, as `_parse_ts` does. A line without a header, or with
a stamp that cannot be read (`Undated`), gets the moment itself. The behaviour spans one
turn of the year (`NewYear`) and less than a year (`CalendarAssumption`). Each event
keeps, unseen by the program, the time `at` it was sent.

### UnifiClient: variables and actions

`live` says that the controller accepts the client's cookie, `csrf` how the
client's token compares with the controller's (`none`, `stale`, `current`),
`loggedIn` is the client's belief. `step` is the call in progress and `req` its
next request; a refusal (401, 403) leads through `relogin` to `resend`, once. `Login` takes
the token of the response; a response without one (the fault `silent`,
`unifi_client.py:121`) leaves the client with the token of the session before, or with none,
and logged in. `caller` is who calls: `run` before there is a scheduler, the scheduler's
thread before and after its first login, and nobody (`gone`) once a failed first login or an
exception of `requests` has ended that thread (`EndsCaller`), until somebody restarts the
process (`Restart`).
`table` is the controller's `radio_table`, `device` what the apply read of it.
`weather` is a device of the model: while it is `bad`, each fault of `Faults` may
happen at any moment; once it is `good`, none does. Only the client sets the
target radio (`README.md:27`, "the controller is the *only* thing setting the
channel"); `Edit` is another client at another radio.

## 3. What is checked

All runs finish; their bounds are in the `.cfg` files.

**`sched_faults`** (2.8 million states). Every fault at once; plans `A B C`,
`C A` and the empty one, chosen anew at each boot; four time units; one radar line, from a
sender at UTC or behind it.
* `ImplementsTrialLog`: the table is the journal of `TrialLog`. In particular the
  queue in memory and the queue a boot would rebuild always agree on what is due.
* `SwitchOnlyWhenDue`: the AP moves only to the combination that is due, never
  while a row is being watched.
* `MeasuringOnChannel`: the watched row is the newest, is open, and is for the
  combination the AP is on, unless it heard radar there.
* `DetectionsConserved`: the radar counts in the table never exceed the events, as long as
  no sender's local time is ahead of UTC (`NoSenderAhead`; otherwise see `counted_twice`).
* `CooldownBeforeSwitch`: a process that recorded radar waits before the next
  apply. (Another process does not: see `cooldown_skipped`.)

**`sched_dwell`**. A dwell of two units, a day of three with a transition hour,
failing applies and kills, long enough for a dwell in two pieces and the wait.
* `CleanMeansFullDwell`: `dwell_complete` rests on a full dwell of that combination,
  in one piece or in interrupted pieces with no other verdict in between.
* `WindowBetween`: after a clean dwell the transition hour comes before the next
  row, restarts included.
* `TrialsDontOverlap`: closed rows do not claim the same hours twice.
* `HoursAccounted`: all hours that are reported, those of rows a dead process or thread
  left open apart, fit into the time that has passed: nothing is counted twice. (The
  rows left open do count up to the present, several at once and for ever.)
* `CleanTrialsBacked`: each clean trial that is reported is backed by a whole dwell of
  reported hours; the credit for interrupted hours is not given twice.
* `HoursOnlyGrow`: no figure on the dashboard goes back, whatever happens to the row.

**`sched_live`**. Fairness (section 4), failing controller calls; the two combinations
are real ones that overlap, 160 MHz at 36 and 40 MHz at 52. Senders behind UTC, at it and
ahead of it: `StoredRadarEndsTrial` is about events with a stamp at or after the start of the
trial, and radar of a sender behind UTC is older than that and ends none.
* `StopReachesExit`, `TrialEnds`, `StoredRadarEndsTrial`, `NextTrialFollows`.
* `SubchannelSums`: the sums of a channel are those of the rows whose 802.11 block
  contains it, by arithmetic instead of the tables.

**`ingest`** (8 million states). Two APs, one with a clock ahead of UTC and one behind,
and a line without a header; five kinds of lines, three lines sent, split over datagrams
in every way, with every fault; the year turns in the middle.
* `SessionsReplayEvents`: the committed sessions are exactly those an independent
  definition derives from the committed events.
* `OneOpenSession`: no host has two open sessions, not even for a reader that
  looks into an open transaction.
* `CsvNeverAhead`, `CountedIsStored`: file and counters never claim an event that
  the database does not hold, but for the file and an event a loss of power took.
* `VerdictHasEvidence`: a committed verdict rests on committed events, or on one
  whose transaction failed, which was logged, although the poll reads uncommitted rows. A
  loss of power that takes the events takes the verdict, which was committed later.
* `OnlyClocksAheadLoseAYear`: a stored stamp is what the sender's clock showed, year
  included, however late it was read, and is a year off only for a sender whose clock
  had turned the year before it turned.
* `TypeOK` includes that a thread inside a transaction, and only it, holds the lock.

**`app`** (10 000 states; three log lines, any number of signals, kills and boots).
* `CloseCutsNothing`: the connection is never closed inside a transaction, although
  joins give up.
* `StorageClosedLast`, `ListenerOutlivesScheduler`: the threads that write end before what
  they use, and requests are no longer accepted; a trial sees the radar that is reported up
  to its last count. A page in progress is not waited for, and may meet the closed storage:
  it gets an error, and nothing is written.
* `CleanStopClosesRow` (`README.md:151`, a stop in the middle of a trial closes its
  row): the exceptions are a controller call that outlasts the join, and a database that
  failed between `start_trial` and the `try` block, or in `end_trial` itself. The thread is
  then gone long before the stop, and its row is open.
* `StopEndsProcess`: no lock and no dead thread keeps a stopped process alive.

**`controller`** (30 000 states, no bound on the length of a behaviour). Two
radios, three settings, every fault.
* `ImplementsApply`: the three-call apply, whatever happens inside.
* `AppliedIsSet`: success means that the radio is set and was seen set.
* `CallsReturn`: a user without rights is refused, not retried for ever.
* `Recovers`: no session, token, login without one, or failed login wedges the client:
  applies succeed again, unless the scheduler is gone.
* `OthersOnlyLostToEdits`: `set_radio` writes all radios back as it read them. That
  undoes what another client did to another radio in between, and nothing else ever
  changes a radio that is not the target.

**`planner`** (32 768 configurations, five regulatory domains). The whole 5 GHz pool,
with five channels at the ends of blocks and bands, and a number that is no channel, that
come and go, every set of widths, and blacklists of two channels and three combinations.
`PlannerProofs` has the two properties for every pool and blacklist.
* `PlanIsWhatFits`: the plan is what an arithmetic definition of aligned blocks, which
  does not use the tables, says it is; a number that is no 5 GHz channel is planned at
  20 MHz only.
* `PlannedIsShown`: every DFS combination of the plan that the country allows has a
  cell with what was observed on it, and without the dashed border, although the map
  does not ask the planner.

Three lines, or one radar line, are enough for what these properties tell apart
(open, switch and end of a session; count, miss and recount of a hit). Longer
histories of rows come from restarts, which cost one time unit each.

Five runs show where code and documentation disagree; each is expected to fail.

| Run | Property | The disagreement |
|---|---|---|
| `thread_death` | `ThreadSurvives` | `unifi_client.py:71` promises `UnifiError` on failure; a refused connection raises an exception of `requests`, and the scheduler thread ends while the process goes on. |
| `false_clean` | `CleanMeansFullDwell` | An sqlite error in the poll loop closes the row as `dwell_complete` (`scheduler.py:223`, 240). |
| `credited_radar` | `CreditedHoursQuiet` | Radar stored between the last poll and a stop is never counted, and its hours are credited to the retry. |
| `counted_twice` | `DetectionsConserved` | `parser.py:50` calls a stamp UTC; it is the local time of the sender, which `parser.py:80` labels UTC. With a sender ahead of UTC one event is newer than the start of several trials, and ends each of them. |
| `cooldown_skipped` | `CooldownBetweenTrials` | `config.example.yaml:87`: the wait after radar is skipped by a restart. |

Two smaller ones have no run. `README.md:153` says that only `dwell_complete` and `radar`
advance the queue; `apply_failed` does too, for the queue is rotated before the apply
(`scheduler.py:174`) and a boot steps past such a row as well (`scheduler.py:125`):
`TrialLog` states what the code does. And `scheduler.py:227` says "strictly newer than trial
start", where the query has `>=` (`storage.py:233`): radar of the very second in which a trial
starts counts for it.

The other properties are checked with the faults that cause these disagreements
switched on (`sched_faults`), or, for `CleanMeansFullDwell`, with all but the
read error.

## 4. Fairness

`FairSpec` assumes weak fairness of the scheduler thread's steps and of the
shutdown (`Exit`): both are threads of a live process, and every call of theirs
returns or raises, because requests and joins have time-outs. `Tick` is fair
because time passes, `Deliver` because a datagram that is not lost arrives and
the listener does nothing else. Boot is not fair, nor is anything that goes wrong.
In `UnifiClient` requests end because they have a time-out (`ClientStep`), a thread that was
started makes its first login (`EnsureLoggedIn`), and one that lives applies again and again,
whatever came of the apply before (`Apply`): weak fairness of each. Nobody has to restart a
process whose scheduler is gone.
`App` assumes it of the three threads: the main thread's joins and `close`, a controller
call with its time-out, a thread that waits for the lock. Log lines, signals, boots
(`OpenStorage`) and kills are not fair; that `Receive` is, means that a listener whose
socket is closed notices. Pages are not fair: nothing waits for them.
The clock stops at `MaxTime`, so the liveness properties claim only what has time
to happen before (`deadline + Poll <= MaxTime`, and the like).

## 5. What is proved

`SchedulerProofs` proves, from `PlanAssumption` (plans are sequences of distinct
combinations), `TimingAssumption`, `OffsetAssumption` and `FaultAssumption`, and hence for all plans,
durations, senders, fault sets and bounds:

| Theorem | Property |
|---|---|
| `TypeCorrect` | `TypeOK` |
| `MeasuredOnChannel` | `MeasuringOnChannel` |
| `NoOverlap` | `TrialsDontOverlap` |
| `SwitchesWhenDue` | `SwitchOnlyWhenDue` |
| `Refinement` | `ImplementsTrialLog` |
| `WindowRespected` | `WindowBetween` |
| `CooldownRespected` | `CooldownBeforeSwitch` |

The invariant is built in layers, each inductive relative to those before it:

* `TypeInv`: `TypeOK`, the queue is a non-empty plan with its head inside while
  the thread uses it, and the row a trial holds is the last one, open, and for its
  combination. The last part is what makes `TypeOK` inductive: `CloseTrial`
  updates `trials[tid]`.
* `AirInv`: the AP is on the trial's combination or on one of its own.
* `TimesInv`: rows are ordered in time and none lies in the future.
* `TurnInv`: while the thread is between trials, the head of the queue is what
  `TrialLog` calls due; while it is in one, its trial is. This connects the deque in
  memory with the rows on disk, and `Refinement` and `SwitchesWhenDue` follow.
* `HourInv`: if the last row is clean and the thread is about to apply or to open,
  the transition hour has come since.
* `CoolInv`: the end of the cooldown sleep is the end of the row plus `Cooldown`.

`StepKinds` says that every step of `Scheduler` opens a row, closes the last one,
or leaves the table alone; the layers about rows and the refinement use it instead
of going through all the actions again.

`CountingProofs` and `ReportsProofs` prove, from the same assumptions, what the rows add
up to:

| Theorem | Property | Hypothesis |
|---|---|---|
| `CountedOnce` | `DetectionsConserved` | `Cooldown > 0` and `NoSenderAhead` |
| `CleanIsWholeDwell` | `CleanMeansFullDwell` | `"db_read" \notin Faults` |
| `CleanHasItsHours` | `CleanTrialsBacked` | `"db_read" \notin Faults` |
| `HoursFitTheClock` | `HoursAccounted` | |
| `HoursNeverDrop` | `HoursOnlyGrow` | |
| `ChannelsGetTheirRows` | `SubchannelSums` | every combination is one a plan can hold |

The hypotheses are the code's. With a cooldown of zero, a legal value, the `>=` of
`count_radar_since` may count one event for two rows of the same second; with a sender ahead
of UTC it does for rows that are hours apart (`counted_twice`). A failing read
in the poll loop is the disagreement `false_clean`. What the dashboard takes from its
tables is a block only for combinations of those tables; `PlansAreCombinations` (below)
says that plans hold no others.

The invariants under these theorems, each inductive relative to `TypeInv` and `TimesInv`:

* `CountInv`: the radar the rows show fits into the events that are spent, those no later
  than the end of a row that counted some, and the trial being watched counts no more than
  the events since its start. No such end lies at or after the start of a later trial
  (`PastInv`: a cooldown or a boot is between them), so the events of a hit are not spent
  while it is watched, and are once its row is closed, for no stamp is from the future
  (`StampsInv`, which is where `NoSenderAhead` is needed).
* `SpanInv`: an open row has no end, a closed one ends after it started.
* `DeadlineInv`: while a row is open its deadline and the credit for interrupted hours
  make up the dwell; a trial that is closed without radar and without a stop is past its
  deadline; and no exception is on its way through the `finally` clause.
* `BackedInv`: the closed rows of a combination hold a dwell for each clean one and the
  credit besides. It is the credit in it that makes the property inductive.

A sum is a fold of the community module `Functions`, a recursive function over the subsets
of a finite set, and an induction theorem of the library takes the induction hypothesis as
an operator, which none of the provers can instantiate. `DataLemmas` therefore does each
induction by hand: the sets that violate the claim are a family of subsets of a finite
set, strict inclusion is well founded on those, so there is a smallest one
(`SmallestSubset`), and without any one of its elements it satisfies the claim. This gives
the fold itself (`FoldExists`), its recursion (`SumStep`), and what the proofs need of
sums: splitting, changing one term, monotonicity, grouping (`SumOfGroups`), and spans of
time that do not overlap (`SumOfSpans`).

`PlannerProofs` proves, from `ConfigAssumption` (what the file lists as channels is made
integers), and hence for every pool, blacklist and sequence of edits, `PlanFits`
(`PlanIsWhatFits`), `PlanIsShown` (`PlannedIsShown`) and `PlansAreCombinations`. It rests on
`AlignedHeads` (the arithmetic of 802.11 gives these first channels and no others) and
`TablesAreBlocks` (the three tables of the planner are the blocks at those channels, all of
them) of `DataLemmas`; the inductive invariant `ConfigInv` only says that channels are
integers and widths the four that `build_trials` knows.

`UnifiClientProofs` proves, from `ClientAssumption`, `ClientTypeCorrect` (`TypeOK`),
`Applied` (`AppliedIsSet`) and `ClientRefinement` (`ImplementsApply`). The inductive
invariant adds `ApplyInv` (an apply in progress has no result; after the PUT the
target is as asked for), and `TargetChanges` says that the target radio changes in
the PUT alone.

`OthersLostToEditsOnly` (`OthersOnlyLostToEdits`) follows from the same invariant, action
by action.

`IngestProofs` proves, from `IngestFaults`, `LinesAssumption` and `CalendarAssumption`,
and hence for all lines, clocks, fault sets and bounds:

| Theorem | Property |
|---|---|
| `IngestTypeCorrect` | `TypeOK` |
| `AtMostOneSession` | `OneOpenSession` |
| `CountedOnDisk` | `CountedIsStored` |
| `CsvBehindDatabase` | `CsvNeverAhead` |
| `VerdictsBacked` | `VerdictHasEvidence` |
| `StampsSurvive` | `OnlyClocksAheadLoseAYear` |
| `SessionsFollowEvents` | `SessionsReplayEvents` |

Their common basis is `Base`: the types, who holds the lock, and `Pending`, which says
what an open transaction has added to what is saved; a rollback and a crash are steps
back to it; and `Earlier`, by which the events of an earlier commit are the first of those that are
saved. On it rest
* `SingleOpen`: one open session per host, in every copy of the tables, since a
  rollback or a loss of power turns one into the other;
* `Stored` and `Ahead`: counters against file against table, with the event that is on
  its way from one to the next;
* `Evidence`: what the last count saw is saved, but for at most one event, which is in
  the open transaction or has failed. The verdict waits for the lock, hence for the end of
  that transaction, and this is why it never rests on a row that vanished silently;
* `Past` and `Dated`: no line is from the future, and `ParseTs` inverts `Stamp` as far
  as `WellDated` says (`ParsedWellDated`, by cases on the two years involved);
* `Replay`: what is saved is a replay, and in a transaction so is what is about to be
  saved. `ReplayAppend` is its core: what `_update_sessions` does with the open session of
  one host is what one more event does to a definition that knows nothing of open sessions
  and looks back through all events. Two facts join the two: a host that is put on a
  channel it is on already has its session open there (`OpenThere`, by the first event
  since which nothing ended it), and such a session is not started twice
  (`NotStartedTwice`, by the last event that says where the host is). The least and the
  greatest member of a set of positions, which stand for the induction, come from the well
  foundedness of the numbers.

`AppProofs` proves, from `AppAssumption`, `LockedWhileWriting` (`TypeOK`),
`NoCutTransaction` (`CloseCutsNothing`), `ClosedLast` (`StorageClosedLast`),
`StopClosesRow` (`CleanStopClosesRow`) and `ListenerLast` (`ListenerOutlivesScheduler`).
The properties are about the end of the shutdown; the invariant says what holds at each
stage before it: `Staged` (which threads and what connection go with a stage), `Joins`
(behind a join its thread has ended or was given up on) and `Rows` (an open row has a
thread that will close it, or that came too late, or that the database has failed).

Only model-checked:
* the liveness properties: fairness and `ENABLED` are out of the provers' reach;
* `CleanMeansFullDwell` with failing reads is false of the code (`false_clean`), as
  `DetectionsConserved` is with senders ahead of UTC (`counted_twice`); for a cooldown of
  zero the latter is neither checked nor proved.

## 6. What is not modelled

* Regular expressions: a line is the set of families it matches. The value of a
  `Feb 29`, which `_parse_ts` raises for in some years (the `parse` fault of `App`).
* A loss of power in `Scheduler`, `Reports` and `App`: rows of `trials` that were committed
  stay there (`Ingest` has the loss, for events, sessions and verdicts).
* A cooldown of zero together with restarts within the same second, where the `>=`
  of `count_radar_since` can count a hit twice.
* `UnifiClient.logout`, which nothing calls. The controller's own checks, and the
  field names of a radio entry.
* The order of the plan beyond "no duplicates" (`PlanAssumption`), and widths that
  `build_trials` refuses. The dashboard's shades and tooltips.
* `radar_timing` and the lists of recent rows, which are queries by hour and by id with
  no decision in them; `report.py` over sessions (`_from_sessions`), which differs from
  the modelled report in dropping sessions that end before they start; the rounding of
  all figures; the other pages and the HTML of `web.py`, two thirds of that file.
* `Scheduler.status` and `_current`; `config.py`, which is read once and whose values
  are the constants; the containers and scripts around the program.
* Several target APs: the program has one.

## 7. Plan

1. (done) The core: `TrialLog`, `Scheduler`, its runs and proofs; `Ingest`.
2. (done) `UnifiClient`, shown to implement the apply that `Scheduler` uses.
3. (done) `Planner`, `ChannelMap` and `Channels`; `Reports`, over rows that kills left
   open and combinations that overlap.
4. (done) Proofs of the figures: `DataLemmas`, `CountingProofs`, `ReportsProofs`,
   `PlannerProofs`.
5. (done) Time stamps and overtaking datagrams in `Ingest`, and its proofs.
6. (done) `App`: boot and shutdown step by step, and its proofs.
7. Left: `report.py` over sessions, whose sums assume that the sessions of a host do not
   overlap, which lines that overtake each other break; a cooldown of zero; a proof that
   `App` refines the one-step shutdown of `Scheduler`.
