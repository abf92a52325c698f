------------------------------- MODULE Ingest -------------------------------
(***************************************************************************)
(* From a syslog datagram to the database: the listener thread             *)
(* (src/fjord_radar/listener.py), the parser (parser.py) and the writes of *)
(* storage.py, together with the one reader whose answer is acted on, the  *)
(* scheduler's poll.  All threads share one sqlite connection: a           *)
(* transaction is guarded by _write_lock, a read is not, so a read sees    *)
(* what an open transaction has done so far.                               *)
(*                                                                         *)
(* lpc is the next step of the listener: "recv" the socket, "parse" one    *)
(* line, "begin", "insert", "session" and "commit" the transaction of      *)
(* record, "csv" the append that follows it, "count" the statistics.       *)
(* spc is the next step of the scheduler: "poll" count_radar_since,        *)
(* "begin", "update" and "commit" the transaction of end_trial, and "dead" *)
(* after a write that failed.  Both are "off" when the process is down.    *)
(*                                                                         *)
(* sent is the clock: the n-th line is sent at time n.  A line carries its *)
(* sender's local time without the year, so what the parser makes of it    *)
(* depends on when it is read: around the turn of the year, here NewYear.  *)
(***************************************************************************)
EXTENDS Integers, Sequences, FiniteSets, SequencesExt

CONSTANTS Lines,       \* the log lines the APs may send: [host, says, freq, chan]
          NoChan,      \* a line, or an event, without a channel
          NoTime,      \* ended_at IS NULL
          Zone,        \* how far each host's clock is ahead of UTC
          Undated,     \* hosts whose lines have no header, or an unreadable stamp
          Year, DayLen,    \* lengths of the old year and of a day
          NewYear,     \* when the year turns
          MaxSent,     \* bound: lines sent and datagrams repeated
          Faults       \* which of FaultKinds may happen

\* kill: SIGKILL, the machine stays up.  power: the machine loses power, and what was
\* not synced with it.  loss, dup: a datagram is lost or repeated.
\* db: sqlite raises in a write.  csv: the append to the CSV file raises.
\* slow: a thread that is busy outlasts the five or ten seconds of its join.
\* reorder: datagrams overtake each other.
FaultKinds == {"kill", "power", "loss", "dup", "db", "csv", "slow", "reorder"}

ASSUME IngestFaults == Faults \subseteq FaultKinds /\ MaxSent \in Nat

Says == {"radar", "done", "start", "switch"}      \* the families of patterns

ASSUME LinesAssumption ==
  /\ Lines \subseteq [host : STRING, says : SUBSET Says, freq : Nat, chan : Nat \cup {NoChan}]
  /\ NoTime \notin Int

Hosts == {line.host : line \in Lines}

\* The behaviour spans one turn of the year, and less than a year in all; no clock is
\* further from UTC than a day.  So _parse_ts moves no Feb 29 to the year before, which
\* would raise: that is the fault "parse" of App.
ASSUME CalendarAssumption ==
  /\ Year \in Nat /\ DayLen \in Nat /\ NewYear \in Nat
  /\ Zone \in [Hosts -> -DayLen..DayLen] /\ Undated \subseteq Hosts
  /\ \A h \in Hosts : /\ NewYear - Year <= Zone[h]
                       /\ MaxSent + DayLen - Zone[h] < Year
                       /\ MaxSent + Zone[h] < NewYear + Year

VARIABLES wire,      \* datagrams on their way, each a sequence of stamped lines
          sent,      \* lines sent or repeated so far: the time
          lpc, lines, event,    \* the listener: lines left of the datagram, the event
          counted,   \* the listener's events_total since boot
          lock,      \* holder of _write_lock
          tables,    \* events, sessions and verdicts as the connection sees them
          saved,     \* the same as of the last commit
          csv,       \* the rows of events.csv
          older,     \* earlier commits, one of which a loss of power may leave
          lost,      \* events that losses of power took from the database, not from csv
          failed,    \* events whose transaction raised
          spc, since, seen      \* the scheduler: started_at of its trial, its last count

listener  == <<lpc, lines, event, counted>>
scheduler == <<spc, since, seen>>
disk      == <<csv, older, lost>>
vars      == <<wire, sent, listener, lock, tables, saved, disk, failed, scheduler>>

Faulty(f) == f \in Faults

-----------------------------------------------------------------------------
(* parser.parse                                                            *)

\* says holds the pattern families a line matches; the first that counts wins.
Kind(says) == IF "radar" \in says THEN "radar"
              ELSE IF "done" \in says THEN "cac_done"
              ELSE IF "start" \in says THEN "cac_start"
              ELSE IF "switch" \in says THEN "new_channel"
              ELSE "none"

\* _freq_to_chan
FreqToChan(f) == IF 5000 < f /\ f < 6000 THEN (f - 5000) \div 5
                 ELSE IF 2400 < f /\ f < 2500 THEN (f - 2407) \div 5
                 ELSE NoChan

\* An explicit channel overrides the one the frequency stands for.
Channel(line) == IF line.chan # NoChan THEN line.chan
                 ELSE IF line.freq # 0 THEN FreqToChan(line.freq) ELSE NoChan

\* What a clock that shows t prints: the time since the start of its year.
Stamp(t) == IF t >= NewYear THEN t - NewYear ELSE t - (NewYear - Year)

YearStart(now) == IF now >= NewYear THEN NewYear ELSE NewYear - Year

\* Mutant: the year is always the current one.
ParseTsThisYear(line, now) ==
  IF line.host \in Undated THEN now ELSE YearStart(now) + Stamp(line.at + Zone[line.host])

\* _parse_ts: the current year, or the one before if that is over a day ahead.  A line
\* without a stamp that can be read is dated now.
ParseTs(line, now) ==
  LET ts == YearStart(now) + Stamp(line.at + Zone[line.host])
  IN  IF line.host \in Undated THEN now
      ELSE IF ts - now > DayLen THEN ts - Year ELSE ts

Parsed(line) ==
  [ts   |-> ParseTs(line, sent),
   at   |-> line.at,      \* when it was sent, which the program does not know
   host |-> line.host, kind |-> Kind(line.says), chan |-> Channel(line)]

-----------------------------------------------------------------------------
(* storage._update_sessions                                                *)

Opening == {"new_channel", "cac_done"}

OpenOf(host) == {i \in DOMAIN tables.sessions :
                   tables.sessions[i].host = host /\ tables.sessions[i].ended = NoTime}

Opened(ev) == [host |-> ev.host, chan |-> ev.chan, started |-> ev.ts,
               ended |-> NoTime, by |-> "null"]

\* Mutant: a switch does not close the session before.
EndedKeepingOpen(by) == [i \in DOMAIN tables.sessions |->
  IF i \in OpenOf(event.host) /\ by = "radar"
  THEN [tables.sessions[i] EXCEPT !.ended = event.ts, !.by = by]
  ELSE tables.sessions[i]]

\* The sessions after the open one of the event's host, if any, is ended.
Ended(by) == [i \in DOMAIN tables.sessions |->
  IF i \in OpenOf(event.host)
  THEN [tables.sessions[i] EXCEPT !.ended = event.ts, !.by = by]
  ELSE tables.sessions[i]]

SessionsAfter ==
  LET open == OpenOf(event.host)
  IN  IF event.chan = NoChan THEN tables.sessions
      ELSE IF event.kind = "radar" THEN Ended("radar")
      ELSE IF event.kind \notin Opening THEN tables.sessions
      ELSE IF \E i \in open : tables.sessions[i].chan = event.chan THEN tables.sessions
      ELSE Append(Ended("switch"), Opened(event))

\* Mutant: every kind of event counts.
EventsSince(t) == Cardinality({i \in DOMAIN tables.events : tables.events[i].ts >= t})

\* storage.count_radar_since
RadarSince(t) ==
  Cardinality({i \in DOMAIN tables.events :
                 tables.events[i].kind = "radar" /\ tables.events[i].ts >= t})

-----------------------------------------------------------------------------
(* The air                                                                 *)

NoEvent == [ts |-> 0, at |-> 0, host |-> "none", kind |-> "none", chan |-> NoChan]

\* An AP logs a line, in a datagram of its own or together with the line before.
Send ==
  /\ sent < MaxSent
  /\ sent' = sent + 1
  /\ \E line \in Lines :
       LET stamped == [at |-> sent', host |-> line.host, says |-> line.says,
                       freq |-> line.freq, chan |-> line.chan]
       IN  \/ wire' = Append(wire, <<stamped>>)
           \/ /\ wire # <<>>
              /\ wire' = [wire EXCEPT ![Len(wire)] = Append(@, stamped)]
  /\ UNCHANGED <<listener, lock, tables, saved, disk, failed, scheduler>>

\* Nobody listens, or the network drops the datagram.
Lose ==
  /\ wire # <<>>
  /\ lpc = "off" \/ Faulty("loss")
  /\ wire' = Tail(wire)
  /\ UNCHANGED <<sent, listener, lock, tables, saved, disk, failed, scheduler>>

Repeat ==
  /\ Faulty("dup") /\ wire # <<>> /\ sent < MaxSent
  /\ sent' = sent + 1
  /\ wire' = <<Head(wire)>> \o wire
  /\ UNCHANGED <<listener, lock, tables, saved, disk, failed, scheduler>>

-----------------------------------------------------------------------------
(* The listener thread: _serve and storage.record                          *)

Receive ==
  /\ lpc = "recv"
  /\ \E i \in DOMAIN wire : /\ i = 1 \/ Faulty("reorder")
                           /\ lines' = wire[i] /\ wire' = RemoveAt(wire, i)
  /\ lpc' = "parse"
  /\ UNCHANGED <<sent, event, counted, lock, tables, saved, disk, failed, scheduler>>

\* The next line, or the next datagram when there is none.
Parse ==
  /\ lpc = "parse"
  /\ IF lines = <<>> THEN lpc' = "recv" /\ UNCHANGED <<lines, event>>
     ELSE /\ lines' = Tail(lines)
          /\ IF Parsed(Head(lines)).kind = "none" THEN UNCHANGED <<lpc, event>>
             ELSE lpc' = "begin" /\ event' = Parsed(Head(lines))
  /\ UNCHANGED <<wire, sent, counted, lock, tables, saved, disk, failed, scheduler>>

\* In WAL mode with synchronous=NORMAL a COMMIT waits for no sync: it is on disk with the
\* next checkpoint, or when the system has written it.
Commit == /\ saved' = tables
          /\ older' = IF Faulty("power") THEN older \cup {saved} ELSE {}

\* _tx: the lock, then BEGIN.
BeginRecord ==
  /\ lpc = "begin" /\ lock = "free"
  /\ lock' = "listener" /\ lpc' = "insert"
  /\ UNCHANGED <<wire, sent, lines, event, counted, tables, saved, disk, failed, scheduler>>

InsertEvent ==
  /\ lpc = "insert"
  /\ tables' = [tables EXCEPT !.events = Append(@, event)]
  /\ lpc' = "session"
  /\ UNCHANGED <<wire, sent, lines, event, counted, lock, saved, disk, failed, scheduler>>

\* Mutant: the transaction ends after the INSERT, the sessions follow outside it.
UpdateSessionsAfterCommit ==
  /\ lpc = "session"
  /\ Commit
  /\ tables' = [tables EXCEPT !.sessions = SessionsAfter]
  /\ lpc' = "commit"
  /\ UNCHANGED <<wire, sent, lines, event, counted, lock, csv, lost, failed, scheduler>>

UpdateSessions ==
  /\ lpc = "session"
  /\ tables' = [tables EXCEPT !.sessions = SessionsAfter]
  /\ lpc' = "commit"
  /\ UNCHANGED <<wire, sent, lines, event, counted, lock, saved, disk, failed, scheduler>>

CommitRecord ==
  /\ lpc = "commit"
  /\ Commit
  /\ lock' = "free" /\ lpc' = "csv"
  /\ UNCHANGED <<wire, sent, lines, event, counted, tables, csv, lost, failed, scheduler>>

\* Mutant: record() swallows the exception of its transaction.
FailRecordQuietly ==
  /\ Faulty("db") /\ lpc \in {"insert", "session", "commit"}
  /\ tables' = saved
  /\ failed' = failed \cup {event}
  /\ lock' = "free" /\ lpc' = "csv"
  /\ UNCHANGED <<wire, sent, lines, event, counted, saved, disk, scheduler>>

\* A statement of the transaction raises: ROLLBACK, and the listener logs the
\* exception and goes on.
FailRecord ==
  /\ Faulty("db") /\ lpc \in {"insert", "session", "commit"}
  /\ tables' = saved
  /\ failed' = failed \cup {event}
  /\ lock' = "free" /\ lpc' = "parse" /\ event' = NoEvent
  /\ UNCHANGED <<wire, sent, lines, counted, saved, disk, scheduler>>

\* Mutant: a failed append is only logged.
AppendCsvAnyway ==
  /\ lpc = "csv"
  /\ \/ csv' = Append(csv, event)
     \/ Faulty("csv") /\ UNCHANGED csv
  /\ lpc' = "count"
  /\ UNCHANGED <<wire, sent, lines, event, counted, lock, tables, saved, older, lost, failed, scheduler>>

AppendCsv ==
  /\ lpc = "csv"
  /\ \/ csv' = Append(csv, event) /\ lpc' = "count" /\ UNCHANGED event
     \/ /\ Faulty("csv")
        /\ lpc' = "parse" /\ event' = NoEvent /\ UNCHANGED csv
  /\ UNCHANGED <<wire, sent, lines, counted, lock, tables, saved, older, lost, failed, scheduler>>

CountEvent ==
  /\ lpc = "count"
  /\ counted' = counted + 1
  /\ lpc' = "parse" /\ event' = NoEvent
  /\ UNCHANGED <<wire, sent, lines, lock, tables, saved, disk, failed, scheduler>>

-----------------------------------------------------------------------------
(* The scheduler thread's use of the database                              *)

\* count_radar_since, without the lock, once the trial has begun.
Poll ==
  /\ spc = "poll" /\ since <= sent
  /\ seen' = RadarSince(since)
  /\ spc' = IF seen' > 0 THEN "begin" ELSE "poll"
  /\ UNCHANGED <<wire, sent, listener, lock, tables, saved, disk, failed, since>>

\* Mutant: end_trial writes without the lock, into whatever transaction is open.
BeginUnlocked ==
  /\ spc = "begin"
  /\ spc' = "update" /\ lock' = "scheduler"
  /\ UNCHANGED <<wire, sent, listener, tables, saved, disk, failed, since, seen>>

BeginVerdict ==
  /\ spc = "begin" /\ lock = "free"
  /\ spc' = "update" /\ lock' = "scheduler"
  /\ UNCHANGED <<wire, sent, listener, tables, saved, disk, failed, since, seen>>

\* end_trial with the verdict "radar".
UpdateVerdict ==
  /\ spc = "update"
  /\ tables' = [tables EXCEPT !.verdicts = Append(@, [since |-> since, count |-> seen])]
  /\ spc' = "commit"
  /\ UNCHANGED <<wire, sent, listener, lock, saved, disk, failed, since, seen>>

\* The next trial starts after the cooldown.
CommitVerdict ==
  /\ spc = "commit"
  /\ Commit
  /\ lock' = "free"
  /\ spc' = "poll" /\ since' = sent + 1 /\ seen' = 0
  /\ UNCHANGED <<wire, sent, listener, tables, csv, lost, failed>>

FailVerdict ==
  /\ Faulty("db") /\ spc \in {"update", "commit"}
  /\ tables' = saved
  /\ lock' = "free" /\ spc' = "dead" /\ seen' = 0
  /\ UNCHANGED <<wire, sent, listener, saved, disk, failed, since>>

-----------------------------------------------------------------------------
(* The process                                                             *)

NoTables == [events |-> <<>>, sessions |-> <<>>, verdicts |-> <<>>]

Init ==
  /\ wire = <<>> /\ sent = 0
  /\ lpc = "off" /\ lines = <<>> /\ event = NoEvent /\ counted = 0
  /\ lock = "free" /\ tables = NoTables /\ saved = NoTables
  /\ csv = <<>> /\ older = {} /\ lost = {} /\ failed = {}
  /\ spc = "off" /\ since = 0 /\ seen = 0

Boot ==
  /\ lpc = "off"
  /\ lpc' = "recv" /\ spc' = "poll" /\ since' = sent + 1
  /\ UNCHANGED <<wire, sent, lines, event, counted, lock, tables, saved, disk, failed, seen>>

\* What is left when the process is gone: a transaction that was not committed is
\* rolled back when the database is opened again.
Off ==
  /\ lpc' = "off" /\ lines' = <<>> /\ event' = NoEvent /\ counted' = 0
  /\ lock' = "free" /\ tables' = saved
  /\ spc' = "off" /\ since' = 0 /\ seen' = 0
  /\ UNCHANGED <<wire, sent, saved, disk, failed>>

\* The joins of app.run find both threads between two units of work, or give up;
\* storage.close waits for _write_lock.  It syncs the database only if nobody else has
\* it open.
Shutdown ==
  /\ lpc # "off" /\ lock = "free"
  /\ Faulty("slow") \/ (lpc = "recv" /\ spc # "begin")
  /\ Off

\* SIGKILL, or the first thing a loss of power does.
Kill == (Faulty("kill") \/ Faulty("power")) /\ lpc # "off" /\ Off

\* The rest of it.  Commits are lost in their order, the last ones first, and nothing
\* orders them with the rows of the CSV file, which nobody syncs.
PowerLoss ==
  /\ Faulty("power") /\ lpc = "off"
  /\ saved' \in older \cup {saved} /\ tables' = saved' /\ older' = {}
  /\ \E n \in 0..Len(csv) : csv' = SubSeq(csv, 1, n)
  /\ LET taken == {saved.events[i] : i \in Len(saved'.events) + 1 .. Len(saved.events)}
     IN  lost' = (lost \cup taken) \cap Range(csv')
  /\ UNCHANGED <<wire, sent, listener, lock, failed, scheduler>>

\* The end of the bounded behaviour.
Done == sent = MaxSent /\ wire = <<>> /\ lpc \in {"off", "recv"} /\ UNCHANGED vars

Next ==
  \/ Send \/ Lose \/ Repeat
  \/ Receive \/ Parse \/ BeginRecord \/ InsertEvent \/ UpdateSessions \/ CommitRecord
  \/ FailRecord \/ AppendCsv \/ CountEvent
  \/ Poll \/ BeginVerdict \/ UpdateVerdict \/ CommitVerdict \/ FailVerdict
  \/ Boot \/ Shutdown \/ Kill \/ PowerLoss \/ Done

Spec == Init /\ [][Next]_vars
=============================================================================
