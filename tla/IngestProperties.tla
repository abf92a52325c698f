--------------------------- MODULE IngestProperties ---------------------------
(***************************************************************************)
(* What the events, sessions, trials and CSV files of Ingest promise, to   *)
(* the threads that read them and across crashes.                          *)
(***************************************************************************)
EXTENDS Ingest

Times == 0..MaxSent

Events == [ts : Int, at : Times, host : Hosts \cup {"none"},
           kind : {"radar", "cac_done", "cac_start", "new_channel", "none"}, chan : Int \cup {NoChan}]

\* Every variable has its type, and a thread in a transaction holds the lock.
TypeOK ==
  /\ sent \in Times
  /\ lpc \in {"off", "recv", "parse", "begin", "insert", "session", "commit", "csv", "count"}
  /\ spc \in {"off", "poll", "begin", "update", "commit", "dead"}
  /\ event \in Events /\ counted \in Nat /\ since \in Nat /\ seen \in Nat
  /\ lock = "listener" <=> lpc \in {"insert", "session", "commit"}
  /\ lock = "scheduler" <=> spc \in {"update", "commit"}
  /\ \A t \in {tables, saved} \cup older :
       /\ \A i \in DOMAIN t.events : t.events[i] \in Events
       /\ \A i \in DOMAIN t.sessions : t.sessions[i].ended \in Int \cup {NoTime}

\* The latest event before the i-th of evs that says what channel its host is on.
Before(evs, i) ==
  {j \in 1..(i - 1) : /\ evs[j].host = evs[i].host /\ evs[j].chan # NoChan
                      /\ evs[j].kind \in Opening \cup {"radar"}
                      /\ \A k \in (j + 1)..(i - 1) :
                           evs[k].host = evs[i].host /\ evs[k].chan # NoChan =>
                             evs[k].kind = "cac_start"}

\* A session starts with an event that puts its host on a channel it was not on.
Starts(evs) ==
  {i \in DOMAIN evs : /\ evs[i].kind \in Opening /\ evs[i].chan # NoChan
                      /\ \A j \in Before(evs, i) :
                           evs[j].kind = "radar" \/ evs[j].chan # evs[i].chan}

\* It ends with the first event that puts the host elsewhere, or reports radar.
Ends(evs, i) ==
  {j \in DOMAIN evs : /\ j > i /\ evs[j].host = evs[i].host /\ evs[j].chan # NoChan
                      /\ \/ evs[j].kind = "radar"
                         \/ evs[j].kind \in Opening /\ evs[j].chan # evs[i].chan}

SessionFrom(evs, i) ==
  LET ends == Ends(evs, i)
      j == CHOOSE j \in ends : \A k \in ends : j <= k
  IN  [host |-> evs[i].host, chan |-> evs[i].chan, started |-> evs[i].ts,
       ended |-> IF ends = {} THEN NoTime ELSE evs[j].ts,
       by |-> IF ends = {} THEN "null" ELSE IF evs[j].kind = "radar" THEN "radar" ELSE "switch"]

\* The sessions on disk are those of the events on disk, one for each start and in
\* their order: no crash, loss of power, rollback or repetition leaves a session without
\* its events or an event without its effect (record and _update_sessions in one _tx).
SessionsReplayEvents ==
  /\ Len(saved.sessions) = Cardinality(Starts(saved.events))
  /\ \A i \in Starts(saved.events) :
       saved.sessions[Cardinality({j \in Starts(saved.events) : j <= i})]
         = SessionFrom(saved.events, i)

\* A host has at most one open session, also as an unlocked reader sees it
\* (open_session and the fetchone of _update_sessions take any).
OneOpenSession == \A line \in Lines : Cardinality(OpenOf(line.host)) <= 1

Occurrences(seq, ev) == Cardinality({i \in DOMAIN seq : seq[i] = ev})

\* The CSV file gets ahead of the database by no event but one that a loss of power
\* took from the database, whatever else is killed or fails between the COMMIT and the
\* append (storage.record).
CsvNeverAhead ==
  \A ev \in Range(csv) \ lost : Occurrences(csv, ev) <= Occurrences(saved.events, ev)

\* A verdict on disk rests on radar events on disk since its trial began, or on one
\* whose transaction failed, which was logged: the poll reads rows of an open
\* transaction, but a crash or a loss of power that takes the event takes the verdict
\* with it, which has to wait for that transaction.
VerdictHasEvidence ==
  \A i \in DOMAIN saved.verdicts :
    LET v == saved.verdicts[i]
    IN  v.count <= Cardinality({j \in DOMAIN saved.events :
                       saved.events[j].kind = "radar" /\ saved.events[j].ts >= v.since})
                   + Cardinality({ev \in failed : ev.kind = "radar" /\ ev.ts >= v.since})

\* events_total never runs ahead of the files: an event the dashboard counts is in
\* the database and in the CSV file.
CountedIsStored == counted <= Len(csv) /\ counted <= Len(saved.events)

\* An event has the time its sender's clock showed, or is a year older if that clock
\* was ahead and in a year that had not begun.  Without a header it has the time of
\* its arrival.
WellDated(ev) ==
  LET local == ev.at + Zone[ev.host]
  IN  IF ev.host \in Undated THEN ev.ts \in ev.at..sent
      ELSE \/ ev.ts = local
           \/ ev.ts = local - Year /\ ev.at < NewYear /\ NewYear <= local

\* However late a line is read, and although it does not name its year, the year is
\* found again, also when it turned in between, for the sender, the server or only one
\* of them.  The one exception is a sender ahead of the server (_parse_ts).
OnlyClocksAheadLoseAYear ==
  \A i \in DOMAIN tables.events : WellDated(tables.events[i])
=============================================================================
