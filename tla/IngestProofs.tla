---------------------------- MODULE IngestProofs ----------------------------
(***************************************************************************)
(* Machine-checked proofs about Ingest, for every set of lines, clocks and *)
(* faults and every bound on the lines sent.                               *)
(***************************************************************************)
EXTENDS IngestProperties, FiniteSetTheorems, SequenceTheorems, WellFoundedInduction, TLAPS

-----------------------------------------------------------------------------
(* Counting the members of a set in a sequence                             *)

CountIn(s, P) == Cardinality({i \in DOMAIN s : s[i] \in P})

\* Appending an element adds one to the count of the sets it belongs to.
LEMMA CountAppend ==
  ASSUME NEW S, NEW s \in Seq(S), NEW e \in S, NEW P
  PROVE  /\ CountIn(s, P) \in 0..Len(s)
         /\ CountIn(Append(s, e), P) = CountIn(s, P) + IF e \in P THEN 1 ELSE 0
<1> DEFINE t == Append(s, e)
           A == {i \in DOMAIN s : s[i] \in P}
           B == {i \in DOMAIN t : t[i] \in P}
           n == Len(s) + 1
<1>1. Len(s) \in Nat /\ DOMAIN s = 1..Len(s)
  BY LenProperties
<1>2. DOMAIN t = 1..n /\ t[n] = e /\ \A i \in 1..Len(s) : t[i] = s[i]
  BY <1>1 DEF t
<1>3. IsFiniteSet(A) /\ Cardinality(A) \in 0..Len(s)
  <2>1. IsFiniteSet(1..Len(s)) /\ Cardinality(1..Len(s)) = Len(s)
    BY <1>1, FS_Interval
  <2>2. A \in SUBSET (1..Len(s))
    BY <1>1
  <2>3. IsFiniteSet(A) /\ Cardinality(A) <= Len(s)
    BY <2>1, <2>2, FS_Subset
  <2> QED BY <1>1, <2>3, FS_CardinalityType
<1>9. CountIn(s, P) = Cardinality(A) /\ CountIn(Append(s, e), P) = Cardinality(B)
  BY DEF CountIn, t
<1> HIDE DEF t, A, B
<1>4. CASE e \in P
  <2>1. B = A \cup {n}
    BY <1>1, <1>2, <1>4 DEF A, B
  <2>2. n \notin A
    BY <1>1 DEF A
  <2>3. Cardinality(B) = Cardinality(A) + 1
    BY <1>3, <2>1, <2>2, FS_AddElement
  <2> QED BY <1>3, <1>4, <1>9, <2>3
<1>5. CASE e \notin P
  <2>1. B = A
    BY <1>1, <1>2, <1>5 DEF A, B
  <2>2. Cardinality(B) = Cardinality(A)
    BY <2>1
  <2> QED BY <1>3, <1>5, <1>9, <2>2
<1> QED BY <1>4, <1>5

-----------------------------------------------------------------------------
(* Types                                                                   *)

Stamped  == [at : Times, host : Hosts, says : SUBSET Says, freq : Nat, chan : Nat \cup {NoChan}]
Sessions == [host : Hosts \cup {"none"}, chan : Int \cup {NoChan}, started : Int,
             ended : Int \cup {NoTime}, by : {"null", "radar", "switch"}]
Tables   == [events : Seq(Events), sessions : Seq(Sessions),
             verdicts : Seq([since : Nat, count : Nat])]

USE DEF disk

Typed ==
  /\ sent \in Times
  /\ wire \in Seq(Seq(Stamped)) /\ lines \in Seq(Stamped)
  /\ event \in Events /\ counted \in Nat /\ since \in Nat /\ seen \in Nat
  /\ tables \in Tables /\ saved \in Tables /\ older \subseteq Tables
  /\ csv \in Seq(Events) /\ failed \subseteq Events /\ IsFiniteSet(failed)

\* Where the threads are, and who holds the lock.
Locked ==
  /\ lpc \in {"off", "recv", "parse", "begin", "insert", "session", "commit", "csv", "count"}
  /\ spc \in {"off", "poll", "begin", "update", "commit", "dead"}
  /\ lock = "listener" <=> lpc \in {"insert", "session", "commit"}
  /\ lock = "scheduler" <=> spc \in {"update", "commit"}
  /\ lock \in {"free", "listener", "scheduler"}
  /\ lpc = "off" <=> spc = "off"
  /\ lpc = "off" => counted = 0

\* No line of the behaviour is from the future.
LEMMA TimesType == Times \subseteq Nat /\ MaxSent \in Nat
BY IngestFaults DEF Times

\* The channel of a line is a number or none.
LEMMA ChannelType == \A line \in Stamped : Channel(line) \in Int \cup {NoChan}
<1> SUFFICES ASSUME NEW line \in Stamped PROVE Channel(line) \in Int \cup {NoChan}
  OBVIOUS
<1>1. line.freq \in Nat /\ line.chan \in Nat \cup {NoChan}
  BY DEF Stamped
<1>2. \A f \in Nat : FreqToChan(f) \in Int \cup {NoChan}
  <2>1. \A x \in Int : x \div 5 \in Int
    OBVIOUS
  <2>2. \A f \in Nat : f - 5000 \in Int /\ f - 2407 \in Int
    OBVIOUS
  <2> QED BY <2>1, <2>2 DEF FreqToChan
<1> QED BY <1>1, <1>2 DEF Channel

\* The time of an event is a number.
LEMMA ParsedType ==
  ASSUME NEW line \in Stamped, sent \in Times
  PROVE  Parsed(line) \in Events
<1>1. line.at \in Times /\ line.host \in Hosts
  BY DEF Stamped
<1>2. Zone[line.host] \in Int
  BY <1>1, CalendarAssumption
<1>3. Year \in Nat /\ DayLen \in Nat /\ NewYear \in Nat /\ sent \in Nat /\ line.at \in Nat
  BY <1>1, CalendarAssumption, TimesType
<1>4. \A t \in Int : Stamp(t) \in Int
  BY <1>3 DEF Stamp
<1>5. ParseTs(line, sent) \in Int
  <2>1. Stamp(line.at + Zone[line.host]) \in Int
    BY <1>2, <1>3, <1>4
  <2> QED BY <1>3, <2>1 DEF ParseTs, YearStart
<1>6. Parsed(line).ts \in Int
  BY <1>5 DEF Parsed
<1>7. Kind(line.says) \in {"radar", "cac_done", "cac_start", "new_channel", "none"}
  BY DEF Kind
<1> QED BY <1>1, <1>6, <1>7, ChannelType DEF Parsed, Events

\* The radar events at or after t.
Radar(t) == {ev \in Events : ev.kind = "radar" /\ ev.ts >= t}

\* The poll counts radar events in the table of events.
LEMMA RadarSinceCounts ==
  ASSUME tables.events \in Seq(Events), NEW t \in Nat
  PROVE  RadarSince(t) = CountIn(tables.events, Radar(t)) /\ RadarSince(t) \in Nat
<1>1. \A i \in DOMAIN tables.events : tables.events[i] \in Events
  BY LenProperties, ElementOfSeq
<1>2. {i \in DOMAIN tables.events : tables.events[i].kind = "radar" /\ tables.events[i].ts >= t}
        = {i \in DOMAIN tables.events : tables.events[i] \in Radar(t)}
  BY <1>1 DEF Radar
<1>3. RadarSince(t) = CountIn(tables.events, Radar(t))
  BY <1>2 DEF RadarSince, CountIn
<1>4. IsFiniteSet({i \in DOMAIN tables.events : tables.events[i] \in Radar(t)})
  <2>1. Len(tables.events) \in Int /\ DOMAIN tables.events = 1..Len(tables.events)
    BY LenProperties
  <2>2. IsFiniteSet(1..Len(tables.events))
    BY <2>1, FS_Interval
  <2>3. {i \in DOMAIN tables.events : tables.events[i] \in Radar(t)} \in SUBSET (1..Len(tables.events))
    BY <2>1
  <2> QED BY <2>2, <2>3, FS_Subset
<1> QED BY <1>3, <1>4, FS_CardinalityType DEF CountIn

\* Ending the open session of the event's host changes that row alone.
LEMMA EndedProperties ==
  ASSUME tables.sessions \in Seq(Sessions), event \in Events, NEW by \in {"radar", "switch"}
  PROVE  /\ Ended(by) \in Seq(Sessions)
         /\ DOMAIN Ended(by) = DOMAIN tables.sessions
         /\ Len(Ended(by)) = Len(tables.sessions)
         /\ \A i \in DOMAIN tables.sessions :
              /\ Ended(by)[i].host = tables.sessions[i].host
              /\ Ended(by)[i].ended = NoTime =>
                   tables.sessions[i].ended = NoTime /\ tables.sessions[i].host # event.host
<1>1. Len(tables.sessions) \in Nat /\ DOMAIN tables.sessions = 1..Len(tables.sessions)
  BY LenProperties
<1>2. \A i \in DOMAIN tables.sessions : tables.sessions[i] \in Sessions
  BY <1>1, ElementOfSeq
<1>3. event.ts \in Int
  BY DEF Events
<1>4. \A i \in DOMAIN tables.sessions : Ended(by)[i] \in Sessions
  BY <1>2, <1>3 DEF Ended, Sessions
<1>5. Ended(by) \in [1..Len(tables.sessions) -> Sessions]
  BY <1>1, <1>4 DEF Ended
<1>6. Ended(by) \in Seq(Sessions) /\ Len(Ended(by)) = Len(tables.sessions)
  BY <1>1, <1>5, SeqDef
<1>7. NoTime \notin Int
  BY LinesAssumption
<1>8. \A i \in DOMAIN tables.sessions :
        /\ Ended(by)[i].host = tables.sessions[i].host
        /\ Ended(by)[i].ended = NoTime =>
             tables.sessions[i].ended = NoTime /\ tables.sessions[i].host # event.host
  BY <1>2, <1>3, <1>7 DEF Ended, OpenOf, Sessions
<1> QED BY <1>1, <1>5, <1>6, <1>8

\* The sessions after an event are sessions.
LEMMA SessionsAfterType ==
  ASSUME tables \in Tables, event \in Events
  PROVE  SessionsAfter \in Seq(Sessions)
<1>1. tables.sessions \in Seq(Sessions)
  BY DEF Tables
<1>2. Ended("radar") \in Seq(Sessions) /\ Ended("switch") \in Seq(Sessions)
  BY <1>1, EndedProperties
<1>3. Opened(event) \in Sessions
  BY DEF Opened, Events, Sessions
<1>4. Append(Ended("switch"), Opened(event)) \in Seq(Sessions)
  BY <1>2, <1>3
<1> QED BY <1>1, <1>2, <1>4 DEF SessionsAfter

\* The types hold at first,
LEMMA TypedInit == Init => Typed
<1> SUFFICES ASSUME Init PROVE Typed
  OBVIOUS
<1>1. NoEvent \in Events
  BY TimesType DEF NoEvent, Events, Times
<1>2. NoTables \in Tables
  BY DEF NoTables, Tables
<1>3. 0 \in Times
  BY TimesType DEF Times
<1> QED BY <1>1, <1>2, <1>3, FS_EmptySet DEF Init, Typed

\* and in every step.
LEMMA TypedStep == Typed /\ [Next]_vars => Typed'
<1> SUFFICES ASSUME Typed, [Next]_vars PROVE Typed'
  OBVIOUS
<1>1. sent \in Nat /\ MaxSent \in Nat
  BY TimesType DEF Typed
<1>2. NoEvent \in Events
  BY TimesType DEF NoEvent, Events, Times
<1>3. IsFiniteSet(failed \cup {event})
  BY FS_AddElement DEF Typed
<1>25. older \cup {saved} \subseteq Tables
  BY DEF Typed
<1>4. CASE Send
  <2>1. sent' \in Times
    BY <1>1, <1>4 DEF Send, Times
  <2> PICK line \in Lines :
        LET stamped == [at |-> sent', host |-> line.host, says |-> line.says,
                        freq |-> line.freq, chan |-> line.chan]
        IN  \/ wire' = Append(wire, <<stamped>>)
            \/ /\ wire # <<>>
               /\ wire' = [wire EXCEPT ![Len(wire)] = Append(@, stamped)]
    BY <1>4 DEF Send
  <2> DEFINE stamped == [at |-> sent', host |-> line.host, says |-> line.says,
                         freq |-> line.freq, chan |-> line.chan]
  <2>2. stamped \in Stamped
    BY <2>1, LinesAssumption DEF Stamped, Hosts
  <2> HIDE DEF stamped
  <2>3. <<stamped>> \in Seq(Stamped)
    BY <2>2
  <2>4. wire' \in Seq(Seq(Stamped))
    <3>1. CASE wire' = Append(wire, <<stamped>>)
      BY <2>3, <3>1 DEF Typed
    <3>2. CASE wire # <<>> /\ wire' = [wire EXCEPT ![Len(wire)] = Append(@, stamped)]
      <4>1. Len(wire) \in 1..Len(wire) /\ wire[Len(wire)] \in Seq(Stamped)
        BY <3>2, EmptySeq, LenProperties, ElementOfSeq DEF Typed
      <4>2. Append(wire[Len(wire)], stamped) \in Seq(Stamped)
        BY <2>2, <4>1
      <4>3. wire' = [wire EXCEPT ![Len(wire)] = Append(wire[Len(wire)], stamped)]
        BY <3>2
      <4> QED BY <4>1, <4>2, <4>3, ExceptSeq DEF Typed
    <3> QED BY <3>1, <3>2 DEF stamped
  <2> QED BY <1>4, <2>1, <2>4 DEF Send, Typed, listener, scheduler
<1>5. CASE Lose
  <2>1. wire' \in Seq(Seq(Stamped))
    BY <1>5, HeadTailProperties DEF Lose, Typed
  <2> QED BY <1>5, <2>1 DEF Lose, Typed, listener, scheduler
<1>6. CASE Repeat
  <2>1. Head(wire) \in Seq(Stamped)
    BY <1>6, HeadTailProperties DEF Repeat, Typed
  <2>2. <<Head(wire)>> \in Seq(Seq(Stamped))
    BY <2>1
  <2>3. wire' \in Seq(Seq(Stamped))
    BY <1>6, <2>2, ConcatProperties DEF Repeat, Typed
  <2>4. sent' \in Times
    BY <1>1, <1>6 DEF Repeat, Times
  <2> QED BY <1>6, <2>3, <2>4 DEF Repeat, Typed, listener, scheduler
<1>7. CASE Receive
  <2> PICK i \in DOMAIN wire : lines' = wire[i] /\ wire' = RemoveAt(wire, i)
    BY <1>7 DEF Receive
  <2>1. Len(wire) \in Nat /\ DOMAIN wire = 1..Len(wire) /\ wire \in Seq(Seq(Stamped))
    BY LenProperties DEF Typed
  <2>2. \A j \in 1..Len(wire) : wire[j] \in Seq(Stamped)
    BY <2>1, ElementOfSeq
  <2>3. SubSeq(wire, 1, i - 1) \in Seq(Seq(Stamped))
    BY <2>1, <2>2, SubSeqProperties
  <2>4. SubSeq(wire, i + 1, Len(wire)) \in Seq(Seq(Stamped))
    BY <2>1, <2>2, SubSeqProperties
  <2>5. wire' \in Seq(Seq(Stamped))
    BY <2>3, <2>4, ConcatProperties DEF RemoveAt
  <2>6. lines' \in Seq(Stamped)
    BY <2>1, <2>2
  <2> QED BY <1>7, <2>5, <2>6 DEF Receive, Typed, scheduler
<1>8. CASE Parse
  <2>1. CASE lines = <<>>
    BY <1>8, <2>1 DEF Parse, Typed, scheduler
  <2>2. CASE lines # <<>>
    <3>1. Head(lines) \in Stamped /\ Tail(lines) \in Seq(Stamped)
      BY <2>2, HeadTailProperties DEF Typed
    <3>2. Parsed(Head(lines)) \in Events
      BY <3>1, ParsedType DEF Typed
    <3>3. lines' \in Seq(Stamped) /\ event' \in Events
      BY <1>8, <2>2, <3>1, <3>2 DEF Parse, Typed
    <3> QED BY <1>8, <3>3 DEF Parse, Typed, scheduler
  <2> QED BY <2>1, <2>2
<1>9. CASE BeginRecord
  BY <1>9 DEF BeginRecord, Typed, scheduler
<1>10. CASE InsertEvent
  <2>1. Append(tables.events, event) \in Seq(Events)
    BY DEF Typed, Tables
  <2>2. tables' \in Tables
    BY <1>10, <2>1 DEF InsertEvent, Typed, Tables
  <2> QED BY <1>10, <2>2 DEF InsertEvent, Typed, scheduler
<1>11. CASE UpdateSessions
  <2>1. SessionsAfter \in Seq(Sessions)
    BY SessionsAfterType DEF Typed
  <2>2. tables' \in Tables
    BY <1>11, <2>1 DEF UpdateSessions, Typed, Tables
  <2> QED BY <1>11, <2>2 DEF UpdateSessions, Typed, scheduler
<1>12. CASE CommitRecord
  BY <1>12, <1>25 DEF CommitRecord, Commit, Typed, scheduler
<1>13. CASE FailRecord
  BY <1>2, <1>3, <1>13 DEF FailRecord, Typed, scheduler
<1>14. CASE AppendCsv
  <2>1. Append(csv, event) \in Seq(Events)
    BY DEF Typed
  <2> QED BY <1>2, <1>3, <1>14, <2>1 DEF AppendCsv, Typed, scheduler
<1>15. CASE CountEvent
  BY <1>2, <1>15 DEF CountEvent, Typed, scheduler
<1>16. CASE Poll
  <2>1. RadarSince(since) \in Nat
    BY RadarSinceCounts DEF Typed, Tables
  <2> QED BY <1>16, <2>1 DEF Poll, Typed, listener
<1>17. CASE BeginVerdict
  BY <1>17 DEF BeginVerdict, Typed, listener
<1>18. CASE UpdateVerdict
  <2>1. [since |-> since, count |-> seen] \in [since : Nat, count : Nat]
    BY DEF Typed
  <2>2. Append(tables.verdicts, [since |-> since, count |-> seen])
          \in Seq([since : Nat, count : Nat])
    BY <2>1 DEF Typed, Tables
  <2>3. tables' \in Tables
    BY <1>18, <2>2 DEF UpdateVerdict, Typed, Tables
  <2> QED BY <1>18, <2>3 DEF UpdateVerdict, Typed, listener
<1>19. CASE CommitVerdict
  BY <1>1, <1>19, <1>25 DEF CommitVerdict, Commit, Typed, listener
<1>20. CASE FailVerdict
  BY <1>20 DEF FailVerdict, Typed, listener
<1>21. CASE Boot
  BY <1>1, <1>21 DEF Boot, Typed
<1>22. CASE Off
  BY <1>2, <1>22, EmptySeq DEF Off, Typed
<1>23. CASE UNCHANGED vars
  BY <1>23 DEF vars, listener, scheduler, Typed
<1>24. CASE PowerLoss
  <2>1. saved' \in Tables /\ tables' \in Tables /\ older' = {}
    BY <1>24, <1>25 DEF PowerLoss
  <2> PICK n \in 0..Len(csv) : csv' = SubSeq(csv, 1, n)
    BY <1>24 DEF PowerLoss
  <2>2. csv \in Seq(Events) /\ Len(csv) \in Nat /\ \A i \in 1..Len(csv) : csv[i] \in Events
    BY LenProperties, ElementOfSeq DEF Typed
  <2>3. csv' \in Seq(Events)
    BY <2>2, SubSeqProperties
  <2> QED BY <1>24, <2>1, <2>3 DEF PowerLoss, Typed, listener, scheduler
<1> QED
  BY <1>4, <1>5, <1>6, <1>7, <1>8, <1>9, <1>10, <1>11, <1>12, <1>13, <1>14, <1>15, <1>16,
     <1>17, <1>18, <1>19, <1>20, <1>21, <1>22, <1>23, <1>24 DEF Next, Shutdown, Kill, Done

\* The lock is held by the thread in a transaction, and by no other.
LEMMA LockedInit == Init => Locked
BY DEF Init, Locked

\* The lock is taken and released with the transaction.
LEMMA LockedStep == Locked /\ [Next]_vars => Locked'
<1> SUFFICES ASSUME Locked, [Next]_vars PROVE Locked'
  OBVIOUS
<1> USE DEF Locked
<1>1. CASE Send \/ Lose \/ Repeat
  BY <1>1 DEF Send, Lose, Repeat, listener, scheduler
<1>2. CASE Receive \/ Parse
  BY <1>2 DEF Receive, Parse, scheduler
<1>3. CASE BeginRecord \/ InsertEvent \/ UpdateSessions
  BY <1>3 DEF BeginRecord, InsertEvent, UpdateSessions, scheduler
<1>4. CASE CommitRecord \/ FailRecord
  BY <1>4 DEF CommitRecord, Commit, FailRecord, scheduler
<1>5. CASE AppendCsv \/ CountEvent
  BY <1>5 DEF AppendCsv, CountEvent, scheduler
<1>6. CASE Poll \/ BeginVerdict \/ UpdateVerdict
  BY <1>6 DEF Poll, BeginVerdict, UpdateVerdict, listener
<1>7. CASE CommitVerdict \/ FailVerdict
  BY <1>7 DEF CommitVerdict, FailVerdict, listener
<1>8. CASE Boot \/ Off
  BY <1>8 DEF Boot, Off
<1>9. CASE PowerLoss \/ UNCHANGED vars
  BY <1>9 DEF PowerLoss, vars, listener, scheduler
<1> QED
  BY <1>1, <1>2, <1>3, <1>4, <1>5, <1>6, <1>7, <1>8, <1>9 DEF Next, Shutdown, Kill, Done

-----------------------------------------------------------------------------
(* What an open transaction has done, and what every variable but the wire *)
(* has to do with it                                                       *)

\* The connection sees the last commit and the writes of the open transaction.
Pending ==
  /\ tables.events = IF lpc \in {"session", "commit"} THEN Append(saved.events, event)
                     ELSE saved.events
  /\ tables.verdicts = IF spc = "commit"
                       THEN Append(saved.verdicts, [since |-> since, count |-> seen])
                       ELSE saved.verdicts

\* No transaction is open at first,
LEMMA PendingInit == Init => Pending
BY DEF Init, Pending

\* and one that is open has added to what is saved what Pending says.
LEMMA PendingStep == Typed /\ Locked /\ Pending /\ [Next]_vars => Pending'
<1> SUFFICES ASSUME Typed, Locked, Pending, [Next]_vars PROVE Pending'
  OBVIOUS
<1> USE DEF Pending, Locked
<1>1. CASE Send \/ Lose \/ Repeat
  BY <1>1 DEF Send, Lose, Repeat, listener, scheduler
<1>2. CASE Receive \/ Parse
  BY <1>2 DEF Receive, Parse, scheduler
<1>3. CASE BeginRecord
  BY <1>3 DEF BeginRecord, scheduler
<1>4. CASE InsertEvent
  BY <1>4 DEF InsertEvent, scheduler, Typed, Tables
<1>5. CASE UpdateSessions
  BY <1>5 DEF UpdateSessions, scheduler, Typed, Tables
<1>6. CASE CommitRecord \/ FailRecord
  BY <1>6 DEF CommitRecord, Commit, FailRecord, scheduler
<1>7. CASE AppendCsv \/ CountEvent
  BY <1>7 DEF AppendCsv, CountEvent, scheduler
<1>8. CASE Poll \/ BeginVerdict
  BY <1>8 DEF Poll, BeginVerdict, listener
<1>9. CASE UpdateVerdict
  BY <1>9 DEF UpdateVerdict, listener, Typed, Tables
<1>10. CASE CommitVerdict \/ FailVerdict
  BY <1>10 DEF CommitVerdict, Commit, FailVerdict, listener
<1>11. CASE Boot \/ Off \/ PowerLoss
  BY <1>11 DEF Boot, Off, PowerLoss, listener, scheduler
<1>12. CASE UNCHANGED vars
  BY <1>12 DEF vars, listener, scheduler
<1> QED
  BY <1>1, <1>2, <1>3, <1>4, <1>5, <1>6, <1>7, <1>8, <1>9, <1>10, <1>11, <1>12
     DEF Next, Shutdown, Kill, Done

\* A commit becomes an earlier one when the next is made.
LEMMA OlderSubset == [Next]_vars => older' \subseteq older \cup {saved}
<1> SUFFICES ASSUME [Next]_vars PROVE older' \subseteq older \cup {saved}
  OBVIOUS
<1>1. CASE Send \/ Lose \/ Repeat \/ Receive \/ Parse \/ BeginRecord \/ InsertEvent
  BY <1>1 DEF Send, Lose, Repeat, Receive, Parse, BeginRecord, InsertEvent
<1>2. CASE UpdateSessions \/ CommitRecord \/ FailRecord \/ AppendCsv \/ CountEvent
  BY <1>2 DEF UpdateSessions, CommitRecord, Commit, FailRecord, AppendCsv, CountEvent
<1>3. CASE Poll \/ BeginVerdict \/ UpdateVerdict \/ CommitVerdict \/ FailVerdict
  BY <1>3 DEF Poll, BeginVerdict, UpdateVerdict, CommitVerdict, Commit, FailVerdict
<1>4. CASE Boot \/ Off \/ PowerLoss \/ UNCHANGED vars
  BY <1>4 DEF Boot, Off, PowerLoss, vars
<1> QED BY <1>1, <1>2, <1>3, <1>4 DEF Next, Shutdown, Kill, Done

\* What a loss of power does to the database and the threads.
LEMMA PowerLossEffect ==
  PowerLoss => /\ saved' \in older \cup {saved} /\ tables' = saved' /\ older' = {}
               /\ lpc = "off" /\ lpc' = lpc /\ event' = event /\ counted' = counted
               /\ lines' = lines /\ wire' = wire /\ sent' = sent /\ failed' = failed
               /\ spc' = spc /\ since' = since /\ seen' = seen
BY DEF PowerLoss, listener, scheduler

\* What a commit of the listener adds to the table of events, and one of the
\* scheduler does not.
LEMMA CommitAdds ==
  ASSUME Locked, Pending
  PROVE  /\ CommitRecord => saved'.events = Append(saved.events, event)
         /\ CommitVerdict => saved'.events = saved.events
         /\ lpc \in {"off", "recv", "parse", "begin", "insert"} => tables.events = saved.events
BY DEF Pending, Locked, CommitRecord, CommitVerdict, Commit

Prefix(s, t) == Len(s) <= Len(t) /\ \A i \in 1..Len(s) : s[i] = t[i]

\* The events of an earlier commit are the first ones of those of the last.
Earlier == \A t \in older : Prefix(t.events, saved.events)

\* There is no earlier commit at first,
LEMMA EarlierInit == Init => Earlier
BY DEF Init, Earlier

\* and no commit takes an event away.
LEMMA EarlierStep == Typed /\ Locked /\ Pending /\ Earlier /\ [Next]_vars => Earlier'
<1> SUFFICES ASSUME Typed, Locked, Pending, Earlier, [Next]_vars PROVE Earlier'
  OBVIOUS
<1>1. saved.events \in Seq(Events) /\ event \in Events /\ Len(saved.events) \in Nat
  BY LenProperties DEF Typed, Tables
<1>2. \A t \in older \cup {saved} : Prefix(t.events, saved.events) /\ Len(t.events) \in Nat
  BY <1>1, LenProperties DEF Earlier, Prefix, Typed, Tables
<1>3. CASE saved'.events = saved.events
  BY <1>2, <1>3, OlderSubset DEF Earlier
<1>4. CASE CommitRecord
  <2>1. saved'.events = Append(saved.events, event)
    BY <1>4, CommitAdds
  <2>2. /\ Len(saved'.events) = Len(saved.events) + 1
        /\ \A i \in 1..Len(saved.events) : saved'.events[i] = saved.events[i]
    BY <1>1, <2>1
  <2>3. \A t \in older \cup {saved} : Prefix(t.events, saved'.events)
    BY <1>1, <1>2, <2>2 DEF Prefix
  <2> QED BY <2>3, OlderSubset DEF Earlier
<1>5. CASE CommitVerdict
  BY <1>3, <1>5, CommitAdds
<1>6. CASE PowerLoss
  BY <1>6, PowerLossEffect DEF Earlier
<1>7. CASE Send \/ Lose \/ Repeat \/ Receive \/ Parse \/ BeginRecord \/ InsertEvent
  BY <1>3, <1>7 DEF Send, Lose, Repeat, Receive, Parse, BeginRecord, InsertEvent
<1>8. CASE UpdateSessions \/ FailRecord \/ AppendCsv \/ CountEvent
  BY <1>3, <1>8 DEF UpdateSessions, FailRecord, AppendCsv, CountEvent
<1>9. CASE Poll \/ BeginVerdict \/ UpdateVerdict \/ FailVerdict
  BY <1>3, <1>9 DEF Poll, BeginVerdict, UpdateVerdict, FailVerdict
<1>10. CASE Boot \/ Off \/ UNCHANGED vars
  BY <1>3, <1>10 DEF Boot, Off, vars
<1> QED
  BY <1>4, <1>5, <1>6, <1>7, <1>8, <1>9, <1>10 DEF Next, Shutdown, Kill, Done

\* The basis of the invariants that follow.
Base == Typed /\ Locked /\ Pending /\ Earlier

\* Types, lock, open transaction and earlier commits, in every state.
LEMMA BaseAlways == Spec => []Base
<1>1. Init => Base
  BY TypedInit, LockedInit, PendingInit, EarlierInit DEF Base
<1>2. Base /\ [Next]_vars => Base'
  BY TypedStep, LockedStep, PendingStep, EarlierStep DEF Base
<1> QED BY <1>1, <1>2, PTL DEF Spec

\* The type invariant of the run, for every set of lines and every bound.
THEOREM IngestTypeCorrect == Spec => []TypeOK
<1>1. Base => TypeOK
  <2> SUFFICES ASSUME Base PROVE TypeOK
    OBVIOUS
  <2>1. ASSUME NEW t \in {tables, saved} \cup older
        PROVE  /\ \A i \in DOMAIN t.events : t.events[i] \in Events
               /\ \A i \in DOMAIN t.sessions : t.sessions[i].ended \in Int \cup {NoTime}
    <3>1. t.events \in Seq(Events) /\ t.sessions \in Seq(Sessions)
      BY <2>1 DEF Base, Typed, Tables
    <3>2. /\ \A i \in DOMAIN t.events : t.events[i] \in Events
          /\ \A i \in DOMAIN t.sessions : t.sessions[i] \in Sessions
      BY <3>1, LenProperties, ElementOfSeq
    <3> QED BY <3>2 DEF Sessions
  <2> QED BY <2>1 DEF Base, Typed, Locked, TypeOK
<1> QED BY <1>1, BaseAlways, PTL

-----------------------------------------------------------------------------
(* One open session                                                        *)

OneOpenIn(ss) ==
  \A i, j \in DOMAIN ss :
    ss[i].ended = NoTime /\ ss[j].ended = NoTime /\ ss[i].host = ss[j].host => i = j

SingleOpen ==
  OneOpenIn(tables.sessions) /\ \A t \in older \cup {saved} : OneOpenIn(t.sessions)

\* An event ends the session of its host before it opens another.
LEMMA SessionsAfterSingle ==
  ASSUME tables \in Tables, event \in Events, OneOpenIn(tables.sessions)
  PROVE  OneOpenIn(SessionsAfter)
<1>1. tables.sessions \in Seq(Sessions)
  BY DEF Tables
<1>2. ASSUME NEW by \in {"radar", "switch"}
      PROVE  OneOpenIn(Ended(by))
  BY <1>1, <1>2, EndedProperties DEF OneOpenIn
<1>3. OneOpenIn(Append(Ended("switch"), Opened(event)))
  <2> DEFINE s == Ended("switch")
             t == Append(s, Opened(event))
             n == Len(s) + 1
  <2>1. /\ s \in Seq(Sessions) /\ DOMAIN s = DOMAIN tables.sessions
        /\ \A i \in DOMAIN s : s[i].ended = NoTime => s[i].host # event.host
    BY <1>1, EndedProperties
  <2>2. OneOpenIn(s)
    BY <1>2
  <2>3. Len(s) \in Nat /\ DOMAIN s = 1..Len(s)
    BY <2>1, LenProperties
  <2> HIDE DEF s
  <2>4. /\ DOMAIN t = 1..n /\ t[n] = Opened(event)
        /\ \A i \in 1..Len(s) : t[i] = s[i]
    BY <2>1, <2>3
  <2>5. t[n].host = event.host
    BY <2>4 DEF Opened
  <2> HIDE DEF t
  <2>6. ASSUME NEW i \in DOMAIN t, NEW j \in DOMAIN t,
               t[i].ended = NoTime, t[j].ended = NoTime, t[i].host = t[j].host
        PROVE  i = j
    BY <2>1, <2>2, <2>3, <2>4, <2>5, <2>6 DEF OneOpenIn
  <2>7. OneOpenIn(t)
    BY <2>6 DEF OneOpenIn
  <2> QED BY <2>7 DEF t, s
<1> QED BY <1>2, <1>3 DEF SessionsAfter

\* There is no session at first,
LEMMA SingleOpenInit == Init => SingleOpen
BY DEF Init, NoTables, SingleOpen, OneOpenIn

\* and a session is only opened when the host's last one has ended.
LEMMA SingleOpenStep == Typed /\ SingleOpen /\ [Next]_vars => SingleOpen'
<1> SUFFICES ASSUME Typed, SingleOpen, [Next]_vars PROVE SingleOpen'
  OBVIOUS
<1>0. \A t \in older' : OneOpenIn(t.sessions)
  BY OlderSubset DEF SingleOpen
<1>1. CASE UpdateSessions
  <2>1. tables'.sessions = SessionsAfter /\ saved' = saved
    BY <1>1 DEF UpdateSessions, Typed, Tables
  <2>2. OneOpenIn(SessionsAfter)
    BY SessionsAfterSingle DEF Typed, SingleOpen
  <2>3. \A ss : ss = SessionsAfter => OneOpenIn(ss)
    BY <2>2
  <2>4. OneOpenIn(tables.sessions)'
    BY <2>1, <2>3 DEF OneOpenIn
  <2>5. OneOpenIn(saved'.sessions)
    BY <2>1 DEF SingleOpen
  <2> QED BY <1>0, <2>4, <2>5 DEF SingleOpen
<1>2. CASE /\ tables'.sessions = tables.sessions \/ \E t \in older \cup {saved} : tables'.sessions = t.sessions
           /\ saved'.sessions = tables.sessions \/ \E t \in older \cup {saved} : saved'.sessions = t.sessions
  <2>1. OneOpenIn(tables.sessions)' /\ OneOpenIn(saved'.sessions)
    BY <1>2 DEF SingleOpen, OneOpenIn
  <2> QED BY <1>0, <2>1 DEF SingleOpen
<1>3. CASE Send \/ Lose \/ Repeat
  BY <1>2, <1>3 DEF Send, Lose, Repeat
<1>4. CASE Receive \/ Parse \/ BeginRecord
  BY <1>2, <1>4 DEF Receive, Parse, BeginRecord
<1>5. CASE InsertEvent
  BY <1>2, <1>5 DEF InsertEvent, Typed, Tables
<1>6. CASE CommitRecord \/ FailRecord \/ AppendCsv \/ CountEvent
  BY <1>2, <1>6 DEF CommitRecord, Commit, FailRecord, AppendCsv, CountEvent
<1>7. CASE Poll \/ BeginVerdict
  BY <1>2, <1>7 DEF Poll, BeginVerdict
<1>8. CASE UpdateVerdict
  BY <1>2, <1>8 DEF UpdateVerdict, Typed, Tables
<1>9. CASE CommitVerdict \/ FailVerdict \/ Boot \/ Off
  BY <1>2, <1>9 DEF CommitVerdict, Commit, FailVerdict, Boot, Off
<1>10. CASE PowerLoss \/ UNCHANGED vars
  BY <1>2, <1>10, PowerLossEffect DEF vars
<1> QED
  BY <1>1, <1>3, <1>4, <1>5, <1>6, <1>7, <1>8, <1>9, <1>10 DEF Next, Shutdown, Kill, Done

\* A host has at most one open session, whoever looks and whatever fails
\* (storage._update_sessions).
THEOREM AtMostOneSession == Spec => []OneOpenSession
<1>1. Typed /\ SingleOpen => OneOpenSession
  <2> SUFFICES ASSUME Typed, SingleOpen, NEW line \in Lines
               PROVE  Cardinality(OpenOf(line.host)) <= 1
    BY DEF OneOpenSession
  <2>1. \A i, j \in OpenOf(line.host) : i = j
    BY DEF OpenOf, SingleOpen, OneOpenIn
  <2>2. CASE OpenOf(line.host) = {}
    BY <2>2, FS_EmptySet
  <2>3. ASSUME NEW i \in OpenOf(line.host)
        PROVE  Cardinality(OpenOf(line.host)) <= 1
    <3>1. OpenOf(line.host) = {i}
      BY <2>1, <2>3
    <3>2. Cardinality({i}) = 1
      BY FS_Singleton
    <3> QED BY <3>1, <3>2
  <2> QED BY <2>2, <2>3
<1>2. Init => SingleOpen
  BY SingleOpenInit
<1>3. Base /\ SingleOpen /\ [Next]_vars => SingleOpen'
  BY SingleOpenStep DEF Base
<1>4. Base => Typed
  BY DEF Base
<1> QED BY <1>1, <1>2, <1>3, <1>4, BaseAlways, PTL DEF Spec

-----------------------------------------------------------------------------
(* The files and the counter                                               *)

\* What is counted is in the table of events and in the CSV file, with one event to spare
\* while the listener is between the two.
Stored ==
  /\ counted + (IF lpc = "count" THEN 1 ELSE 0) <= Len(csv)
  /\ counted + (IF lpc \in {"csv", "count"} THEN 1 ELSE 0) <= Len(saved.events)

\* What is in the CSV file was committed, or a loss of power took it, with one copy to
\* spare while the listener is about to append one.
Ahead ==
  \A ev \in Events \ lost :
    CountIn(csv, {ev}) + (IF lpc = "csv" /\ event = ev THEN 1 ELSE 0) <= CountIn(saved.events, {ev})

\* Counters, file and table agree at first,
LEMMA FilesInit == Init => Stored /\ Ahead
<1> SUFFICES ASSUME Init PROVE Stored /\ Ahead
  OBVIOUS
<1>1. csv = <<>> /\ saved.events = <<>> /\ counted = 0 /\ lpc = "off"
  BY DEF Init, NoTables
<1> QED BY <1>1, EmptySeq, FS_EmptySet DEF Stored, Ahead, CountIn

\* A sequence holds an element at least as often as its first part does, and not more
\* often if the rest does not hold it.
LEMMA CountPrefix ==
  ASSUME NEW S, NEW s \in Seq(S), NEW t \in Seq(S), Prefix(s, t), NEW P
  PROVE  /\ CountIn(s, P) <= CountIn(t, P)
         /\ (\A i \in Len(s) + 1 .. Len(t) : t[i] \notin P) => CountIn(s, P) = CountIn(t, P)
<1> DEFINE A == {i \in DOMAIN s : s[i] \in P}
           B == {i \in DOMAIN t : t[i] \in P}
<1>1. /\ Len(s) \in Nat /\ DOMAIN s = 1..Len(s) /\ Len(t) \in Nat /\ DOMAIN t = 1..Len(t)
      /\ Len(s) <= Len(t) /\ \A i \in 1..Len(s) : s[i] = t[i]
  BY LenProperties DEF Prefix
<1>2. A \subseteq B
  BY <1>1
<1>3. IsFiniteSet(B)
  <2>1. IsFiniteSet(1..Len(t)) /\ B \subseteq 1..Len(t)
    BY <1>1, FS_Interval
  <2> QED BY <2>1, FS_Subset
<1>4. Cardinality(A) <= Cardinality(B)
  BY <1>2, <1>3, FS_Subset
<1>5. ASSUME \A i \in Len(s) + 1 .. Len(t) : t[i] \notin P
      PROVE  A = B
  BY <1>1, <1>5
<1> QED BY <1>4, <1>5 DEF CountIn

\* A loss of power leaves the copies of the other events alone, and the file only gets
\* shorter.
LEMMA FilesPowerLoss == Base /\ Ahead /\ PowerLoss => Ahead'
<1> SUFFICES ASSUME Base, Ahead, PowerLoss PROVE Ahead'
  OBVIOUS
<1> PICK n \in 0..Len(csv) : csv' = SubSeq(csv, 1, n)
  BY DEF PowerLoss
<1> DEFINE taken == {saved.events[i] : i \in Len(saved'.events) + 1 .. Len(saved.events)}
<1>1. lost' = (lost \cup taken) \cap Range(csv')
  BY DEF PowerLoss
<1>2. saved.events \in Seq(Events) /\ csv \in Seq(Events) /\ Len(csv) \in Nat /\ event \in Events
  BY LenProperties DEF Base, Typed, Tables
<1>3. \A t \in older \cup {saved} : t.events \in Seq(Events) /\ Prefix(t.events, saved.events)
  <2>1. Prefix(saved.events, saved.events)
    BY <1>2, LenProperties DEF Prefix
  <2>2. \A t \in older : t \in Tables
    BY DEF Base, Typed
  <2> QED BY <1>2, <2>1, <2>2 DEF Base, Earlier, Tables
<1>4. saved'.events \in Seq(Events) /\ Prefix(saved'.events, saved.events)
  BY <1>3, PowerLossEffect
<1>5. csv' \in Seq(Events) /\ Prefix(csv', csv)
  <2>1. \A i \in 1..Len(csv) : csv[i] \in Events
    BY <1>2, ElementOfSeq
  <2>2. /\ SubSeq(csv, 1, n) \in Seq(Events) /\ Len(SubSeq(csv, 1, n)) = n
        /\ \A i \in 1..n : SubSeq(csv, 1, n)[i] = csv[i]
    <3>1. /\ SubSeq(csv, 1, n) \in Seq(Events)
          /\ Len(SubSeq(csv, 1, n)) = IF 1 <= n THEN n - 1 + 1 ELSE 0
          /\ \A i \in 1..(n - 1 + 1) : SubSeq(csv, 1, n)[i] = csv[1 + i - 1]
      BY <1>2, <2>1, SubSeqProperties
    <3>2. n - 1 + 1 = n /\ n \in Nat /\ \A i \in 1..n : 1 + i - 1 = i
      BY <1>2
    <3> HIDE DEF taken
    <3> QED BY <3>1, <3>2
  <2> QED BY <1>2, <2>2 DEF Prefix
<1> HIDE DEF taken
<1>9. \A s \in Seq(Events) : \A P : CountIn(s, P) \in Nat
  <2> SUFFICES ASSUME NEW s \in Seq(Events), NEW P PROVE CountIn(s, P) \in Nat
    OBVIOUS
  <2>1. CountIn(s, P) \in 0..Len(s) /\ Len(s) \in Nat
    BY <1>2, CountAppend, LenProperties
  <2> QED BY <2>1
<1>6. ASSUME NEW ev \in Events \ lost'
      PROVE  CountIn(csv', {ev}) <= CountIn(saved'.events, {ev})
  <2>1. /\ CountIn(csv', {ev}) \in Nat /\ CountIn(csv, {ev}) \in Nat
        /\ CountIn(saved.events, {ev}) \in Nat /\ CountIn(saved'.events, {ev}) \in Nat
    BY <1>2, <1>4, <1>5, <1>9, Zenon
  <2>2. CASE ev \notin Range(csv')
    <3>1. {i \in DOMAIN csv' : csv'[i] \in {ev}} = {}
      BY <2>2 DEF Range
    <3>2. CountIn(csv', {ev}) = 0
      BY <3>1, FS_EmptySet DEF CountIn
    <3> QED BY <2>1, <3>2
  <2>3. CASE ev \notin lost \cup taken
    <3>1. CountIn(csv', {ev}) <= CountIn(csv, {ev})
      BY <1>2, <1>5, CountPrefix
    <3>2. CountIn(csv, {ev}) <= CountIn(saved.events, {ev})
      <4>1. lpc = "off"
        BY PowerLossEffect
      <4> QED BY <2>1, <2>3, <4>1 DEF Ahead
    <3>3. \A i \in Len(saved'.events) + 1 .. Len(saved.events) : saved.events[i] \notin {ev}
      BY <2>3 DEF taken
    <3>4. CountIn(saved'.events, {ev}) = CountIn(saved.events, {ev})
      BY <1>2, <1>4, <3>3, CountPrefix
    <3> QED BY <2>1, <3>1, <3>2, <3>4
  <2> QED BY <1>1, <2>2, <2>3
<1>7. lpc' = "off"
  BY PowerLossEffect
<1>8. \A ev \in Events \ lost' :
        CountIn(csv', {ev}) + (IF lpc' = "csv" /\ event' = ev THEN 1 ELSE 0)
          <= CountIn(saved'.events, {ev})
  <2> SUFFICES ASSUME NEW ev \in Events \ lost'
               PROVE  CountIn(csv', {ev}) + (IF lpc' = "csv" /\ event' = ev THEN 1 ELSE 0)
                        <= CountIn(saved'.events, {ev})
    OBVIOUS
  <2>1. CountIn(csv', {ev}) \in Nat
    BY <1>5, <1>9, Zenon
  <2>2. CountIn(csv', {ev}) <= CountIn(saved'.events, {ev})
    BY <1>6
  <2> QED BY <1>7, <2>1, <2>2
<1> QED BY <1>8 DEF Ahead

\* and an event reaches the table before the file, and the file before the counter.
LEMMA FilesStep == Base /\ Stored /\ Ahead /\ [Next]_vars => Stored' /\ Ahead'
<1> SUFFICES ASSUME Base, Stored, Ahead, [Next]_vars PROVE Stored' /\ Ahead'
  OBVIOUS
<1>1. /\ csv \in Seq(Events) /\ saved.events \in Seq(Events) /\ event \in Events
      /\ counted \in Nat /\ Len(csv) \in Nat /\ Len(saved.events) \in Nat
  BY LenProperties DEF Base, Typed, Tables
<1>2. \A P : /\ CountIn(csv, P) \in Nat /\ CountIn(saved.events, P) \in Nat
             /\ CountIn(Append(csv, event), P) = CountIn(csv, P) + IF event \in P THEN 1 ELSE 0
             /\ CountIn(Append(saved.events, event), P)
                  = CountIn(saved.events, P) + IF event \in P THEN 1 ELSE 0
  BY <1>1, CountAppend
<1>3. CASE CommitRecord
  <2>1. saved'.events = Append(saved.events, event) /\ csv' = csv /\ event' = event
        /\ counted' = counted /\ lpc = "commit" /\ lpc' = "csv" /\ lost' = lost
    BY <1>3, CommitAdds DEF CommitRecord, Base
  <2>2. Stored'
    BY <1>1, <2>1 DEF Stored
  <2>3. ASSUME NEW ev \in Events \ lost
        PROVE  CountIn(csv', {ev}) + (IF lpc' = "csv" /\ event' = ev THEN 1 ELSE 0)
                 <= CountIn(saved'.events, {ev})
    BY <1>2, <2>1 DEF Ahead
  <2> QED BY <2>1, <2>2, <2>3 DEF Ahead
<1>4. CASE AppendCsv
  <2>0. saved' = saved /\ counted' = counted /\ lpc = "csv" /\ lost' = lost
    BY <1>4 DEF AppendCsv
  <2>1. CASE csv' = Append(csv, event) /\ lpc' = "count" /\ event' = event
    <3>2. Stored'
      BY <1>1, <2>0, <2>1 DEF Stored
    <3>3. ASSUME NEW ev \in Events \ lost
          PROVE  CountIn(csv', {ev}) <= CountIn(saved'.events, {ev})
      BY <1>2, <2>0, <2>1 DEF Ahead
    <3> QED BY <1>2, <2>0, <2>1, <3>2, <3>3 DEF Ahead
  <2>2. CASE csv' = csv /\ lpc' = "parse"
    BY <1>1, <1>2, <2>0, <2>2 DEF Stored, Ahead
  <2> QED BY <1>4, <2>1, <2>2 DEF AppendCsv
<1>5. CASE CountEvent
  BY <1>1, <1>2, <1>5 DEF CountEvent, Stored, Ahead
<1>6. CASE /\ csv' = csv /\ saved'.events = saved.events /\ lost' = lost
           /\ counted' \in {0, counted}
           /\ \/ lpc' = lpc /\ event' = event /\ counted' = counted
              \/ lpc' \notin {"csv", "count"}
  BY <1>1, <1>2, <1>6 DEF Stored, Ahead
<1>7. CASE Send \/ Lose \/ Repeat
  BY <1>6, <1>7 DEF Send, Lose, Repeat, listener
<1>8. CASE Receive \/ Parse \/ BeginRecord \/ InsertEvent
  BY <1>6, <1>8 DEF Receive, Parse, BeginRecord, InsertEvent
<1>9. CASE UpdateSessions \/ FailRecord
  BY <1>6, <1>9 DEF UpdateSessions, FailRecord
<1>10. CASE Poll \/ BeginVerdict \/ UpdateVerdict \/ FailVerdict
  BY <1>6, <1>10 DEF Poll, BeginVerdict, UpdateVerdict, FailVerdict, listener
<1>11. CASE CommitVerdict
  BY <1>6, <1>11, CommitAdds DEF CommitVerdict, listener, Base
<1>12. CASE Boot \/ Off
  BY <1>6, <1>12 DEF Boot, Off
<1>13. CASE UNCHANGED vars
  BY <1>6, <1>13 DEF vars, listener
<1>14. CASE PowerLoss
  <2>1. counted = 0
    BY <1>14, PowerLossEffect DEF Base, Locked
  <2>2. csv' \in Seq(Events) /\ saved'.events \in Seq(Events)
    <3>1. Base'
      BY TypedStep, LockedStep, PendingStep, EarlierStep DEF Base
    <3> QED BY <3>1 DEF Base, Typed, Tables
  <2>3. Len(csv') \in Nat /\ Len(saved'.events) \in Nat
    BY <2>2, LenProperties
  <2>4. Stored'
    BY <1>14, <2>1, <2>3, PowerLossEffect DEF Stored
  <2> QED BY <1>14, <2>4, FilesPowerLoss
<1> QED
  BY <1>3, <1>4, <1>5, <1>7, <1>8, <1>9, <1>10, <1>11, <1>12, <1>13, <1>14 DEF Next, Shutdown, Kill, Done

\* They agree in every state.
LEMMA FilesAlways == Spec => [](Base /\ Stored /\ Ahead)
<1>1. Init => Stored /\ Ahead
  BY FilesInit
<1>2. Base /\ Stored /\ Ahead /\ [Next]_vars => Stored' /\ Ahead'
  BY FilesStep
<1> QED BY <1>1, <1>2, BaseAlways, PTL DEF Spec

\* The dashboard counts no event that is not on disk (listener._serve, storage.record).
THEOREM CountedOnDisk == Spec => []CountedIsStored
<1>1. Base /\ Stored => CountedIsStored
  <2> SUFFICES ASSUME Base, Stored PROVE CountedIsStored
    OBVIOUS
  <2>1. counted \in Nat /\ Len(csv) \in Nat /\ Len(saved.events) \in Nat
    BY LenProperties DEF Base, Typed, Tables
  <2> QED BY <2>1 DEF Stored, CountedIsStored
<1> QED BY <1>1, FilesAlways, PTL

\* The CSV file holds no event more often than the database, but for those that a loss of
\* power took from the database alone (storage.record, PRAGMA synchronous=NORMAL).
THEOREM CsvBehindDatabase == Spec => []CsvNeverAhead
<1>1. Base /\ Ahead => CsvNeverAhead
  <2> SUFFICES ASSUME Base, Ahead, NEW ev \in Range(csv) \ lost
               PROVE  Occurrences(csv, ev) <= Occurrences(saved.events, ev)
    BY DEF CsvNeverAhead
  <2>1. csv \in Seq(Events) /\ saved.events \in Seq(Events) /\ event \in Events
    BY DEF Base, Typed, Tables
  <2>2. ev \in Events
    BY <2>1, LenProperties, ElementOfSeq DEF Range
  <2>3. CountIn(csv, {ev}) \in Nat /\ CountIn(saved.events, {ev}) \in Nat
    BY <2>1, LenProperties, CountAppend
  <2>4. CountIn(csv, {ev}) <= CountIn(saved.events, {ev})
    BY <2>2, <2>3 DEF Ahead
  <2>5. \A s : CountIn(s, {ev}) = Occurrences(s, ev)
    BY DEF CountIn, Occurrences
  <2> QED BY <2>4, <2>5
<1> QED BY <1>1, FilesAlways, PTL

-----------------------------------------------------------------------------
(* Verdicts                                                                *)

\* Radar since t is in the open transaction, or was logged as lost.
Inflight(t) == lpc \in {"session", "commit"} /\ event \in Radar(t)
Lost(t)     == failed \cap Radar(t) # {}

\* A count is at most one ahead of the disk, and only by an event that is in the open
\* transaction or has been lost.
Evidence ==
  /\ seen <= CountIn(saved.events, Radar(since))
             + IF Inflight(since) \/ Lost(since) THEN 1 ELSE 0
  /\ spc \in {"off", "poll", "dead"} => seen = 0
  /\ \A i \in DOMAIN saved.verdicts :
       saved.verdicts[i].count <= CountIn(saved.events, Radar(saved.verdicts[i].since))
                                  + IF Lost(saved.verdicts[i].since) THEN 1 ELSE 0

\* The verdicts of an earlier commit rest on the events of that commit.
EarlierEvidence ==
  \A t \in older : \A i \in DOMAIN t.verdicts :
    t.verdicts[i].count <= CountIn(t.events, Radar(t.verdicts[i].since))
                           + IF Lost(t.verdicts[i].since) THEN 1 ELSE 0

\* There is no verdict at first,
LEMMA EvidenceInit == Init => Evidence /\ EarlierEvidence
<1> SUFFICES ASSUME Init PROVE Evidence /\ EarlierEvidence
  OBVIOUS
<1>1. saved.events = <<>> /\ saved.verdicts = <<>> /\ seen = 0
  BY DEF Init, NoTables
<1>2. CountIn(<<>>, Radar(since)) = 0
  BY FS_EmptySet DEF CountIn
<1>3. older = {}
  BY DEF Init
<1> QED BY <1>1, <1>2, <1>3 DEF Evidence, EarlierEvidence

\* Nothing is taken from the log of failures.
LEMMA FailedGrows == [Next]_vars => failed \subseteq failed'
<1> SUFFICES ASSUME [Next]_vars PROVE failed \subseteq failed'
  OBVIOUS
<1>1. CASE Send \/ Lose \/ Repeat \/ Receive \/ Parse \/ BeginRecord \/ InsertEvent
  BY <1>1 DEF Send, Lose, Repeat, Receive, Parse, BeginRecord, InsertEvent
<1>2. CASE UpdateSessions \/ CommitRecord \/ FailRecord \/ AppendCsv \/ CountEvent
  BY <1>2 DEF UpdateSessions, CommitRecord, FailRecord, AppendCsv, CountEvent
<1>3. CASE Poll \/ BeginVerdict \/ UpdateVerdict \/ CommitVerdict \/ FailVerdict
  BY <1>3 DEF Poll, BeginVerdict, UpdateVerdict, CommitVerdict, FailVerdict
<1>4. CASE Boot \/ Off \/ PowerLoss \/ UNCHANGED vars
  BY <1>4 DEF Boot, Off, PowerLoss, vars
<1> QED BY <1>1, <1>2, <1>3, <1>4 DEF Next, Shutdown, Kill, Done

\* A commit that becomes an earlier one keeps its evidence, in the table or in the log.
LEMMA EarlierEvidenceStep ==
  Base /\ Evidence /\ EarlierEvidence /\ [Next]_vars => EarlierEvidence'
<1> SUFFICES ASSUME Base, Evidence, EarlierEvidence, [Next]_vars,
                    NEW t \in older', NEW i \in DOMAIN t.verdicts
             PROVE  t.verdicts[i].count <= CountIn(t.events, Radar(t.verdicts[i].since))
                                           + IF failed' \cap Radar(t.verdicts[i].since) # {} THEN 1 ELSE 0
  BY DEF EarlierEvidence, Lost, Radar
<1> DEFINE u == t.verdicts[i].since
           k == t.verdicts[i].count
           c == CountIn(t.events, Radar(u))
<1>1. t \in older \cup {saved} /\ t \in Tables
  BY OlderSubset DEF Base, Typed
<1>2. k <= c + IF failed \cap Radar(u) # {} THEN 1 ELSE 0
  <2>1. CASE t = saved
    BY <2>1 DEF Evidence, Lost
  <2>2. CASE t \in older
    BY <2>2 DEF EarlierEvidence, Lost
  <2> QED BY <1>1, <2>1, <2>2
<1>3. k \in Nat /\ c \in Nat
  <2>1. t.events \in Seq(Events) /\ t.verdicts \in Seq([since : Nat, count : Nat]) /\ event \in Events
    BY <1>1 DEF Base, Typed, Tables
  <2>2. t.verdicts[i] \in [since : Nat, count : Nat]
    BY <2>1, LenProperties, ElementOfSeq
  <2>3. c \in 0..Len(t.events) /\ Len(t.events) \in Nat
    BY <2>1, LenProperties, CountAppend
  <2> QED BY <2>2, <2>3
<1>4. failed \cap Radar(u) # {} => failed' \cap Radar(u) # {}
  BY FailedGrows
<1> HIDE DEF u, k, c
<1>5. k <= c + IF failed' \cap Radar(u) # {} THEN 1 ELSE 0
  BY <1>2, <1>3, <1>4
<1> QED BY <1>5 DEF u, k, c

\* and one is only written after the transaction the count has looked into.
LEMMA EvidenceStep == Base /\ Evidence /\ EarlierEvidence /\ [Next]_vars => Evidence'
<1> SUFFICES ASSUME Base, Evidence, EarlierEvidence, [Next]_vars PROVE Evidence'
  OBVIOUS
<1> DEFINE C(t) == CountIn(saved.events, Radar(t))
<1>1. /\ saved.events \in Seq(Events) /\ tables.events \in Seq(Events) /\ event \in Events
      /\ since \in Nat /\ seen \in Nat /\ sent \in Nat /\ failed \subseteq Events
      /\ saved.verdicts \in Seq([since : Nat, count : Nat])
  BY TimesType DEF Base, Typed, Tables
<1>2. \A P : /\ CountIn(saved.events, P) \in Nat
             /\ CountIn(Append(saved.events, event), P)
                  = CountIn(saved.events, P) + IF event \in P THEN 1 ELSE 0
  BY <1>1, LenProperties, CountAppend
<1>3. \A i \in DOMAIN saved.verdicts :
        saved.verdicts[i].since \in Nat /\ saved.verdicts[i].count \in Nat
  <2>1. \A i \in DOMAIN saved.verdicts : saved.verdicts[i] \in [since : Nat, count : Nat]
    BY <1>1, LenProperties, ElementOfSeq
  <2> QED BY <2>1
<1>4. ASSUME saved' = saved, failed \subseteq failed',
             \/ /\ spc' = spc /\ since' = since /\ seen' = seen
                /\ Inflight(since) => Inflight(since)' \/ Lost(since)'
             \/ seen' = 0 /\ since' \in Nat
      PROVE  Evidence'
  <2>1. \A t : failed \cap Radar(t) # {} => failed' \cap Radar(t) # {}
    BY <1>4
  <2>2. ASSUME NEW i \in DOMAIN saved.verdicts
        PROVE  saved.verdicts[i].count
                 <= C(saved.verdicts[i].since)
                    + IF failed' \cap Radar(saved.verdicts[i].since) # {} THEN 1 ELSE 0
    <3> DEFINE t == saved.verdicts[i].since
    <3>1. saved.verdicts[i].count <= C(t) + IF failed \cap Radar(t) # {} THEN 1 ELSE 0
      BY DEF Evidence, Lost
    <3>2. C(t) \in Nat /\ saved.verdicts[i].count \in Nat
      BY <1>2, <1>3
    <3>3. failed \cap Radar(t) # {} => failed' \cap Radar(t) # {}
      BY <2>1
    <3> HIDE DEF t, C
    <3>4. saved.verdicts[i].count <= C(t) + IF failed' \cap Radar(t) # {} THEN 1 ELSE 0
      BY <3>1, <3>2, <3>3
    <3> QED BY <3>4 DEF t, C
  <2>3. seen' <= CountIn(saved'.events, Radar(since'))
                 + IF Inflight(since)' \/ Lost(since)' THEN 1 ELSE 0
    <3>1. CASE seen' = 0
      BY <1>2, <1>4, <3>1
    <3>2. CASE /\ spc' = spc /\ since' = since /\ seen' = seen
               /\ Inflight(since) => Inflight(since)' \/ Lost(since)'
      <4>1. Lost(since) => Lost(since)'
        BY <2>1, <3>2 DEF Lost, Radar
      <4>2. seen <= C(since) + IF Inflight(since) \/ Lost(since) THEN 1 ELSE 0
        BY DEF Evidence
      <4>3. C(since) \in Nat
        BY <1>2
      <4>4. C(since) = CountIn(saved'.events, Radar(since'))
        BY <1>4, <3>2 DEF Radar
      <4> HIDE DEF C
      <4> QED BY <1>1, <3>2, <4>1, <4>2, <4>3, <4>4
    <3> QED BY <1>4, <3>1, <3>2
  <2>4. spc' \in {"off", "poll", "dead"} => seen' = 0
    BY <1>4 DEF Evidence
  <2> QED BY <1>4, <2>2, <2>3, <2>4 DEF Evidence, Lost, Radar
<1>5. CASE CommitRecord
  <2>1. /\ saved'.events = Append(saved.events, event) /\ saved' = tables /\ failed' = failed
        /\ spc' = spc /\ since' = since /\ seen' = seen /\ lpc = "commit" /\ spc # "commit"
    BY <1>5, CommitAdds DEF CommitRecord, Commit, scheduler, Base, Locked
  <2>2. saved'.verdicts = saved.verdicts
    BY <2>1 DEF Base, Pending
  <2>3. \A t : /\ Lost(t)' = Lost(t)
               /\ CountIn(saved'.events, Radar(t)) = C(t) + IF event \in Radar(t) THEN 1 ELSE 0
    BY <1>2, <2>1 DEF Lost, Radar
  <2>4. seen <= CountIn(saved'.events, Radar(since)) + IF Lost(since) THEN 1 ELSE 0
    BY <1>1, <1>2, <2>1, <2>3 DEF Evidence, Inflight
  <2> HIDE DEF C
  <2>5. ASSUME NEW i \in DOMAIN saved.verdicts
        PROVE  saved.verdicts[i].count
                 <= CountIn(saved'.events, Radar(saved.verdicts[i].since))
                    + IF Lost(saved.verdicts[i].since) THEN 1 ELSE 0
    <3> DEFINE t == saved.verdicts[i].since
    <3>1. saved.verdicts[i].count <= C(t) + IF Lost(t) THEN 1 ELSE 0
      BY DEF Evidence, C
    <3>2. C(t) \in Nat /\ saved.verdicts[i].count \in Nat
      BY <1>2, <1>3 DEF C
    <3>3. CountIn(saved'.events, Radar(t)) = C(t) + IF event \in Radar(t) THEN 1 ELSE 0
      BY <2>3
    <3> HIDE DEF t
    <3>4. saved.verdicts[i].count <= CountIn(saved'.events, Radar(t)) + IF Lost(t) THEN 1 ELSE 0
      BY <3>1, <3>2, <3>3
    <3> QED BY <3>4 DEF t
  <2>6. CountIn(saved'.events, Radar(since)) \in Nat
    BY <1>2, <2>3 DEF C
  <2>7. seen' <= CountIn(saved'.events, Radar(since'))
                 + IF Inflight(since)' \/ Lost(since)' THEN 1 ELSE 0
    BY <1>1, <2>1, <2>4, <2>6 DEF Lost, Radar
  <2>8. spc' \in {"off", "poll", "dead"} => seen' = 0
    BY <2>1 DEF Evidence
  <2> QED BY <2>1, <2>2, <2>5, <2>7, <2>8 DEF Evidence, Lost, Radar
<1>6. CASE FailRecord
  <2>1. Inflight(since) => Lost(since)'
    BY <1>6 DEF FailRecord, Inflight, Lost, Radar, scheduler
  <2> QED BY <1>4, <1>6, <2>1 DEF FailRecord, scheduler
<1>7. CASE InsertEvent \/ UpdateSessions
  BY <1>4, <1>7 DEF InsertEvent, UpdateSessions, Inflight, Radar, scheduler
<1>8. CASE Receive \/ Parse \/ BeginRecord \/ AppendCsv \/ CountEvent
  <2>1. ~Inflight(since)
    BY <1>8 DEF Receive, Parse, BeginRecord, AppendCsv, CountEvent, Inflight
  <2> QED
    BY <1>4, <1>8, <2>1 DEF Receive, Parse, BeginRecord, AppendCsv, CountEvent, scheduler
<1>9. CASE Send \/ Lose \/ Repeat
  BY <1>4, <1>9 DEF Send, Lose, Repeat, Inflight, Radar, listener, scheduler
<1>10. CASE Poll
  <2>1. /\ saved' = saved /\ failed' = failed /\ since' = since /\ lpc' = lpc /\ event' = event
        /\ seen' = CountIn(tables.events, Radar(since)) /\ seen' \in Nat
        /\ spc' = (IF seen' > 0 THEN "begin" ELSE "poll")
    BY <1>1, <1>10, RadarSinceCounts DEF Poll, listener
  <2>2. seen' <= C(since) + IF Inflight(since) THEN 1 ELSE 0
    <3>1. CASE lpc \in {"session", "commit"}
      <4>1. tables.events = Append(saved.events, event)
        BY <3>1 DEF Base, Pending
      <4> QED BY <1>2, <2>1, <3>1, <4>1 DEF Inflight
    <3>2. CASE lpc \notin {"session", "commit"}
      <4>1. tables.events = saved.events
        BY <3>2 DEF Base, Pending
      <4> QED BY <1>2, <2>1, <4>1
    <3> QED BY <3>1, <3>2
  <2>3. C(since) \in Nat
    BY <1>2
  <2> QED BY <2>1, <2>2, <2>3 DEF Evidence, Inflight, Lost, Radar
<1>11. CASE BeginVerdict \/ UpdateVerdict
  BY <1>11 DEF BeginVerdict, UpdateVerdict, listener, Evidence, Inflight, Lost, Radar
<1>12. CASE CommitVerdict
  <2>1. /\ saved'.events = saved.events /\ saved' = tables /\ failed' = failed
        /\ spc' = "poll" /\ since' = sent + 1 /\ seen' = 0
        /\ lpc \notin {"session", "commit"} /\ spc = "commit"
    BY <1>12, CommitAdds DEF CommitVerdict, Commit, Base, Locked
  <2>2. saved'.verdicts = Append(saved.verdicts, [since |-> since, count |-> seen])
    BY <2>1 DEF Base, Pending
  <2> DEFINE n == Len(saved.verdicts)
             new == [since |-> since, count |-> seen]
  <2>3. n \in Nat /\ DOMAIN saved.verdicts = 1..n
    BY <1>1, LenProperties
  <2>4. new \in [since : Nat, count : Nat]
    BY <1>1
  <2>5. /\ DOMAIN saved'.verdicts = 1..(n + 1) /\ saved'.verdicts[n + 1] = new
        /\ \A i \in 1..n : saved'.verdicts[i] = saved.verdicts[i]
    BY <1>1, <2>2, <2>3, <2>4
  <2>6. seen <= C(since) + IF Lost(since) THEN 1 ELSE 0
    BY <2>1 DEF Evidence, Inflight
  <2>7. \A t : Lost(t)' = Lost(t)
    BY <2>1 DEF Lost, Radar
  <2>8. ASSUME NEW i \in 1..(n + 1)
        PROVE  saved'.verdicts[i].count
                 <= CountIn(saved'.events, Radar(saved'.verdicts[i].since))
                    + IF Lost(saved'.verdicts[i].since) THEN 1 ELSE 0
    <3>1. CASE i = n + 1
      BY <2>1, <2>5, <2>6, <3>1
    <3>2. CASE i \in 1..n
      BY <2>1, <2>3, <2>5, <3>2 DEF Evidence
    <3> QED BY <2>3, <3>1, <3>2
  <2>9. seen' <= CountIn(saved'.events, Radar(since')) + IF Inflight(since)' \/ Lost(since)' THEN 1 ELSE 0
    BY <1>2, <2>1
  <2> QED BY <2>1, <2>5, <2>7, <2>8, <2>9 DEF Evidence, Radar
<1>13. CASE FailVerdict
  BY <1>1, <1>2, <1>4, <1>13 DEF FailVerdict, listener
<1>14. CASE Boot
  <2>1. seen = 0
    BY <1>14 DEF Boot, Base, Locked, Evidence
  <2> QED BY <1>1, <1>4, <1>14, <2>1 DEF Boot
<1>15. CASE Off
  BY <1>4, <1>15 DEF Off
<1>16. CASE UNCHANGED vars
  BY <1>4, <1>16 DEF vars, listener, scheduler, Inflight, Radar
<1>17. CASE PowerLoss
  <2>1. /\ saved' \in older \cup {saved} /\ failed' = failed /\ spc' = spc /\ since' = since
        /\ seen' = 0
    BY <1>17, PowerLossEffect DEF Base, Locked, Evidence
  <2>2. saved' \in Tables
    BY <2>1 DEF Base, Typed
  <2>3. CountIn(saved'.events, Radar(since)) \in Nat
    <3>1. saved'.events \in Seq(Events)
      BY <2>2 DEF Tables
    <3>2. CountIn(saved'.events, Radar(since)) \in 0..Len(saved'.events) /\ Len(saved'.events) \in Nat
      BY <1>1, <3>1, LenProperties, CountAppend
    <3> QED BY <3>2
  <2>4. \A t \in older \cup {saved} : \A i \in DOMAIN t.verdicts :
          t.verdicts[i].count <= CountIn(t.events, Radar(t.verdicts[i].since))
                                 + IF Lost(t.verdicts[i].since) THEN 1 ELSE 0
    BY DEF Evidence, EarlierEvidence
  <2>5. \A i \in DOMAIN saved'.verdicts :
          saved'.verdicts[i].count <= CountIn(saved'.events, Radar(saved'.verdicts[i].since))
                                      + IF Lost(saved'.verdicts[i].since) THEN 1 ELSE 0
    BY <2>1, <2>4
  <2>6. seen' <= CountIn(saved'.events, Radar(since')) + IF Inflight(since)' \/ Lost(since)' THEN 1 ELSE 0
    BY <2>1, <2>3
  <2> QED BY <2>1, <2>5, <2>6 DEF Evidence, Lost, Radar
<1> QED
  BY <1>5, <1>6, <1>7, <1>8, <1>9, <1>10, <1>11, <1>12, <1>13, <1>14, <1>15, <1>16, <1>17
     DEF Next, Shutdown, Kill, Done

\* No verdict on disk without its radar event on disk or in the log of failures, though
\* the poll reads an open transaction (storage.count_radar_since, end_trial).
THEOREM VerdictsBacked == Spec => []VerdictHasEvidence
<1>1. Base /\ Evidence => VerdictHasEvidence
  <2> SUFFICES ASSUME Base, Evidence, NEW i \in DOMAIN saved.verdicts
               PROVE  LET v == saved.verdicts[i]
                      IN  v.count <= Cardinality({j \in DOMAIN saved.events :
                            saved.events[j].kind = "radar" /\ saved.events[j].ts >= v.since})
                          + Cardinality({ev \in failed : ev.kind = "radar" /\ ev.ts >= v.since})
    BY DEF VerdictHasEvidence
  <2> DEFINE v == saved.verdicts[i]
             F == {ev \in failed : ev.kind = "radar" /\ ev.ts >= v.since}
  <2>1. /\ saved.events \in Seq(Events) /\ failed \subseteq Events /\ IsFiniteSet(failed)
        /\ saved.verdicts \in Seq([since : Nat, count : Nat])
        /\ event \in Events
    BY DEF Base, Typed, Tables
  <2>2. v.since \in Nat /\ v.count \in Nat
    <3>1. v \in [since : Nat, count : Nat]
      BY <2>1, LenProperties, ElementOfSeq
    <3> QED BY <3>1
  <2>3. \A j \in DOMAIN saved.events : saved.events[j] \in Events
    BY <2>1, LenProperties, ElementOfSeq
  <2>4. CountIn(saved.events, Radar(v.since))
          = Cardinality({j \in DOMAIN saved.events :
              saved.events[j].kind = "radar" /\ saved.events[j].ts >= v.since})
    <3>1. {j \in DOMAIN saved.events : saved.events[j] \in Radar(v.since)}
            = {j \in DOMAIN saved.events :
                 saved.events[j].kind = "radar" /\ saved.events[j].ts >= v.since}
      BY <2>3 DEF Radar
    <3> QED BY <3>1 DEF CountIn
  <2>5. F = failed \cap Radar(v.since)
    BY <2>1 DEF Radar
  <2>6. IsFiniteSet(F)
    BY <2>1, FS_Subset
  <2>7. Cardinality(F) \in Nat /\ (F # {} => Cardinality(F) >= 1)
    BY <2>6, FS_CardinalityType, FS_EmptySet
  <2>8. CountIn(saved.events, Radar(v.since)) \in Nat
    BY <2>1, LenProperties, CountAppend
  <2>9. v.count <= CountIn(saved.events, Radar(v.since)) + IF F # {} THEN 1 ELSE 0
    BY <2>5 DEF Evidence, Lost
  <2> HIDE DEF v, F
  <2>10. v.count <= CountIn(saved.events, Radar(v.since)) + Cardinality(F)
    BY <2>2, <2>7, <2>8, <2>9
  <2> QED BY <2>4, <2>10 DEF v, F
<1>2. Init => Evidence /\ EarlierEvidence
  BY EvidenceInit
<1>3. Base /\ Evidence /\ EarlierEvidence /\ [Next]_vars => Evidence' /\ EarlierEvidence'
  BY EvidenceStep, EarlierEvidenceStep
<1> QED BY <1>1, <1>2, <1>3, BaseAlways, PTL DEF Spec

-----------------------------------------------------------------------------
(* The dates of the events                                                 *)

\* No line is from the future.
Past ==
  /\ \A i \in DOMAIN wire : \A j \in DOMAIN wire[i] : wire[i][j].at <= sent
  /\ \A j \in DOMAIN lines : lines[j].at <= sent

Dated ==
  /\ lpc \in {"begin", "insert", "session", "commit"} => WellDated(event)
  /\ \A t \in older \cup {saved} : \A i \in DOMAIN t.events : WellDated(t.events[i])

\* _parse_ts finds the year of the sender's clock again, but for a sender ahead of the
\* server that has turned the year before it.
LEMMA ParsedWellDated ==
  ASSUME NEW line \in Stamped, sent \in Times, line.at <= sent
  PROVE  WellDated(Parsed(line))
<1> DEFINE z == Zone[line.host]
           local == line.at + z
           start == YearStart(sent) + Stamp(local)
           ts == IF start - sent > DayLen THEN start - Year ELSE start
<1>1. line.at \in Nat /\ sent \in Nat /\ sent <= MaxSent /\ MaxSent \in Nat /\ line.host \in Hosts
  BY TimesType DEF Stamped, Times
<1>2. /\ Year \in Nat /\ DayLen \in Nat /\ NewYear \in Nat
      /\ z \in Int /\ z <= DayLen /\ -DayLen <= z
      /\ NewYear - Year <= z /\ MaxSent + DayLen - z < Year /\ MaxSent + z < NewYear + Year
  <2>1. Year \in Nat /\ DayLen \in Nat /\ NewYear \in Nat
    BY CalendarAssumption
  <2>2. z \in -DayLen..DayLen
    BY <1>1, CalendarAssumption
  <2>3. NewYear - Year <= z /\ MaxSent + DayLen - z < Year /\ MaxSent + z < NewYear + Year
    BY <1>1, CalendarAssumption
  <2> QED BY <2>1, <2>2, <2>3
<1> HIDE DEF z
<1>3. \/ ts = local
      \/ ts = local - Year /\ line.at < NewYear /\ NewYear <= local
  <2>1. CASE sent >= NewYear
    <3>1. CASE local >= NewYear
      BY <1>1, <1>2, <2>1, <3>1 DEF Stamp, YearStart
    <3>2. CASE local < NewYear
      BY <1>1, <1>2, <2>1, <3>2 DEF Stamp, YearStart
    <3> QED BY <1>1, <1>2, <3>1, <3>2
  <2>2. CASE sent < NewYear
    <3>1. CASE local >= NewYear
      BY <1>1, <1>2, <2>2, <3>1 DEF Stamp, YearStart
    <3>2. CASE local < NewYear
      BY <1>1, <1>2, <2>2, <3>2 DEF Stamp, YearStart
    <3> QED BY <1>1, <1>2, <3>1, <3>2
  <2> QED BY <1>1, <1>2, <2>1, <2>2
<1>4. /\ Parsed(line).host = line.host /\ Parsed(line).at = line.at
      /\ Parsed(line).ts = IF line.host \in Undated THEN sent ELSE ts
  BY DEF Parsed, ParseTs, z
<1> HIDE DEF ts
<1>5. CASE line.host \in Undated
  BY <1>1, <1>4, <1>5, <1>3 DEF WellDated
<1>6. CASE line.host \notin Undated
  <2> DEFINE p == Parsed(line)
  <2>1. /\ p.at = line.at /\ p.host = line.host /\ p.host \notin Undated /\ p.ts = ts
        /\ p.at \in Int /\ Zone[p.host] = z
    BY <1>1, <1>4, <1>6 DEF z
  <2> HIDE DEF p, local
  <2>2. local = p.at + Zone[p.host]
    BY <2>1 DEF local
  <2>3. local \in Int
    BY <1>2, <2>1, <2>2
  <2>4. \/ p.ts = local
        \/ p.ts = local - Year /\ p.at < NewYear /\ NewYear <= local
    BY <1>3, <2>1
  <2>5. WellDated(p)
    BY <2>1, <2>2, <2>4 DEF WellDated
  <2> QED BY <2>5 DEF p
<1> QED BY <1>5, <1>6

\* What is left after a removal was there before.
LEMMA RemoveAtKeeps ==
  ASSUME NEW S, NEW s \in Seq(S), NEW i \in DOMAIN s
  PROVE  \A k \in DOMAIN RemoveAt(s, i) : \E l \in DOMAIN s : RemoveAt(s, i)[k] = s[l]
<1> DEFINE a == SubSeq(s, 1, i - 1)
           b == SubSeq(s, i + 1, Len(s))
           n == Len(s)
           m == i - 1
<1>1. n \in Nat /\ DOMAIN s = 1..n /\ i \in 1..n /\ m \in 0..n
  BY LenProperties
<1>2. \A k \in 1..n : s[k] \in S
  BY <1>1, ElementOfSeq
<1>3. a \in Seq(S) /\ Len(a) = m /\ \A k \in 1..m : a[k] = s[k]
  <2>1. /\ a \in Seq(S) /\ Len(a) = IF 1 <= m THEN m - 1 + 1 ELSE 0
        /\ \A k \in 1..(m - 1 + 1) : a[k] = s[1 + k - 1]
    BY <1>1, <1>2, SubSeqProperties
  <2>2. \A k \in 1..m : 1 + k - 1 = k
    BY <1>1
  <2> HIDE DEF a
  <2> QED BY <1>1, <2>1, <2>2
<1>4. b \in Seq(S) /\ Len(b) = n - i /\ \A k \in 1..(n - i) : \E l \in 1..n : b[k] = s[l]
  <2>1. /\ b \in Seq(S) /\ Len(b) = IF i + 1 <= n THEN n - (i + 1) + 1 ELSE 0
        /\ \A k \in 1..(n - (i + 1) + 1) : b[k] = s[(i + 1) + k - 1]
    <3>1. i + 1 \in Int /\ n \in Int /\ \A k \in (i + 1)..n : s[k] \in S
      BY <1>1, <1>2
    <3> QED BY <3>1, SubSeqProperties
  <2>2. n - (i + 1) + 1 = n - i
    BY <1>1
  <2>3. \A k \in 1..(n - i) : (i + 1) + k - 1 \in 1..n
    BY <1>1
  <2> HIDE DEF b, n
  <2>4. Len(b) = n - i
    BY <1>1, <2>1
  <2> QED BY <2>1, <2>2, <2>3, <2>4
<1>5. RemoveAt(s, i) = a \o b
  BY DEF RemoveAt
<1> HIDE DEF a, b, n
<1>6. /\ a \o b \in Seq(S) /\ Len(a \o b) = m + (n - i)
      /\ \A k \in 1..(m + (n - i)) : (a \o b)[k] = IF k <= m THEN a[k] ELSE b[k - m]
  <2>1. /\ a \o b \in Seq(S) /\ Len(a \o b) = Len(a) + Len(b)
        /\ \A k \in 1..(Len(a) + Len(b)) :
             (a \o b)[k] = IF k <= Len(a) THEN a[k] ELSE b[k - Len(a)]
    BY <1>3, <1>4, ConcatProperties
  <2>2. Len(a) = m /\ Len(b) = n - i
    BY <1>3, <1>4
  <2> HIDE DEF m
  <2> QED BY <2>1, <2>2
<1>7. DOMAIN (a \o b) = 1..(m + (n - i))
  BY <1>6, LenProperties
<1> SUFFICES ASSUME NEW k \in 1..(m + (n - i))
             PROVE  \E l \in 1..n : (a \o b)[k] = s[l]
  BY <1>1, <1>5, <1>7
<1>8. CASE k <= m
  <2>1. k \in 1..m /\ k \in 1..n
    BY <1>1, <1>8
  <2> QED BY <1>3, <1>6, <1>8, <2>1
<1>9. CASE ~(k <= m)
  <2>1. k - m \in 1..(n - i)
    BY <1>1, <1>9
  <2> QED BY <1>4, <1>6, <1>9, <2>1
<1> QED BY <1>8, <1>9

\* No line has been sent at first,
LEMMA PastInit == Init => Past
BY DEF Init, Past

\* and none is stored before it is sent.
LEMMA PastStep == Typed /\ Past /\ [Next]_vars => Past'
<1> SUFFICES ASSUME Typed, Past, [Next]_vars PROVE Past'
  OBVIOUS
<1>1. /\ sent \in Nat /\ wire \in Seq(Seq(Stamped)) /\ lines \in Seq(Stamped)
      /\ Len(wire) \in Nat /\ DOMAIN wire = 1..Len(wire)
  BY TimesType, LenProperties DEF Typed
<1>2. \A i \in 1..Len(wire) : /\ wire[i] \in Seq(Stamped)
                              /\ DOMAIN wire[i] = 1..Len(wire[i]) /\ Len(wire[i]) \in Nat
                              /\ \A j \in 1..Len(wire[i]) : wire[i][j].at \in Nat
  <2>1. \A i \in 1..Len(wire) : wire[i] \in Seq(Stamped)
    BY <1>1, ElementOfSeq
  <2>2. ASSUME NEW i \in 1..Len(wire), NEW j \in 1..Len(wire[i])
        PROVE  wire[i][j].at \in Nat
    <3>1. wire[i][j] \in Stamped
      BY <2>1, ElementOfSeq
    <3> QED BY <3>1, TimesType DEF Stamped
  <2> QED BY <2>1, <2>2, LenProperties
<1>3. \A j \in DOMAIN lines : lines[j].at \in Nat
  <2>1. \A j \in DOMAIN lines : lines[j] \in Stamped
    BY <1>1, LenProperties, ElementOfSeq
  <2> QED BY <2>1, TimesType DEF Stamped
<1>4. \A i \in 1..Len(wire) : \A j \in DOMAIN wire[i] : wire[i][j].at <= sent + 1
  <2> SUFFICES ASSUME NEW i \in 1..Len(wire), NEW j \in DOMAIN wire[i]
               PROVE  wire[i][j].at <= sent + 1
    OBVIOUS
  <2>1. wire[i][j].at <= sent
    BY <1>1 DEF Past
  <2>2. wire[i][j].at \in Nat
    BY <1>2
  <2> QED BY <1>1, <2>1, <2>2
<1>5. \A j \in DOMAIN lines : lines[j].at <= sent + 1
  BY <1>1, <1>3 DEF Past
<1>6. CASE Send
  <2> PICK line \in Lines :
        LET stamped == [at |-> sent', host |-> line.host, says |-> line.says,
                        freq |-> line.freq, chan |-> line.chan]
        IN  \/ wire' = Append(wire, <<stamped>>)
            \/ /\ wire # <<>>
               /\ wire' = [wire EXCEPT ![Len(wire)] = Append(@, stamped)]
    BY <1>6 DEF Send
  <2> DEFINE stamped == [at |-> sent', host |-> line.host, says |-> line.says,
                         freq |-> line.freq, chan |-> line.chan]
  <2>1. sent' = sent + 1 /\ lines' = lines /\ stamped.at = sent'
    BY <1>6 DEF Send, listener
  <2>2. <<stamped>> \in Seq({stamped}) /\ DOMAIN <<stamped>> = {1} /\ <<stamped>>[1] = stamped
    OBVIOUS
  <2> HIDE DEF stamped
  <2>3. CASE wire' = Append(wire, <<stamped>>)
    <3> DEFINE new == <<stamped>>
               D == Seq(Stamped) \cup {new}
    <3>1. wire \in Seq(D) /\ new \in D
      BY <1>1, SeqMonotonic
    <3> HIDE DEF new, D
    <3>5. wire' = Append(wire, new) /\ Len(wire) \in Nat
      BY <1>1, <2>3 DEF new
    <3>2. /\ DOMAIN wire' = 1..(Len(wire) + 1) /\ wire'[Len(wire) + 1] = new
          /\ \A i \in 1..Len(wire) : wire'[i] = wire[i]
      BY <3>1, <3>5
    <3>3. \A j \in DOMAIN new : new[j].at <= sent'
      BY <1>1, <2>1, <2>2 DEF new
    <3>4. ASSUME NEW i \in DOMAIN wire', NEW j \in DOMAIN wire'[i]
          PROVE  wire'[i][j].at <= sent'
      <4>1. CASE i \in 1..Len(wire)
        BY <1>4, <2>1, <3>2, <4>1
      <4>2. CASE i = Len(wire) + 1
        BY <3>2, <3>3, <4>2
      <4>3. i \in 1..(Len(wire) + 1)
        BY <3>2
      <4>4. i \in 1..Len(wire) \/ i = Len(wire) + 1
        BY <3>5, <4>3
      <4> QED BY <4>1, <4>2, <4>4
    <3> QED BY <1>5, <2>1, <3>4 DEF Past
  <2>4. CASE wire # <<>> /\ wire' = [wire EXCEPT ![Len(wire)] = Append(@, stamped)]
    <3> DEFINE n == Len(wire)
               d == wire[n]
               new == Append(d, stamped)
               T == Stamped \cup {stamped}
    <3>1. n \in Nat \ {0} /\ n \in 1..n
      <4>1. Len(wire) \in Nat \ {0}
        BY <1>1, <2>4, EmptySeq
      <4> QED BY <4>1
    <3>2. d \in Seq(T) /\ stamped \in T
      BY <1>2, <3>1, SeqMonotonic
    <3>3. \A j \in 1..Len(d) : d[j].at <= sent + 1
      BY <1>2, <1>4, <3>1
    <3>4. wire' = [wire EXCEPT ![n] = new]
      BY <2>4
    <3>5. DOMAIN wire' = 1..n /\ wire'[n] = new /\ \A i \in 1..n : i # n => wire'[i] = wire[i]
      BY <1>1, <3>1, <3>4
    <3> HIDE DEF d, T
    <3>6. /\ DOMAIN new = 1..(Len(d) + 1) /\ Len(d) \in Nat /\ new[Len(d) + 1] = stamped
          /\ \A j \in 1..Len(d) : new[j] = d[j]
      BY <3>2
    <3> HIDE DEF new
    <3>7. \A j \in DOMAIN new : new[j].at <= sent'
      <4> SUFFICES ASSUME NEW j \in 1..(Len(d) + 1) PROVE new[j].at <= sent'
        BY <3>6
      <4>1. CASE j \in 1..Len(d)
        BY <2>1, <3>3, <3>6, <4>1
      <4>2. CASE j = Len(d) + 1
        BY <1>1, <2>1, <3>6, <4>2
      <4> QED BY <3>6, <4>1, <4>2
    <3>8. ASSUME NEW i \in DOMAIN wire', NEW j \in DOMAIN wire'[i]
          PROVE  wire'[i][j].at <= sent'
      <4>1. CASE i = n
        BY <3>5, <3>7, <4>1
      <4>2. CASE i # n
        BY <1>4, <2>1, <3>5, <4>2
      <4> QED BY <4>1, <4>2
    <3> QED BY <1>5, <2>1, <3>8 DEF Past
  <2> QED BY <2>3, <2>4 DEF stamped
<1>7. CASE Lose
  <2>1. /\ Tail(wire) \in Seq(Seq(Stamped)) /\ Len(Tail(wire)) = Len(wire) - 1
        /\ \A i \in 1..Len(Tail(wire)) : Tail(wire)[i] = wire[i + 1]
    BY <1>1, <1>7, HeadTailProperties DEF Lose
  <2>2. DOMAIN Tail(wire) = 1..(Len(wire) - 1)
    BY <2>1, LenProperties
  <2> QED BY <1>1, <1>7, <2>1, <2>2 DEF Lose, Past, listener
<1>8. CASE Repeat
  <2>1. wire # <<>> /\ sent' = sent + 1 /\ wire' = <<Head(wire)>> \o wire /\ lines' = lines
    BY <1>8 DEF Repeat, listener
  <2>2. Head(wire) = wire[1] /\ 1 \in 1..Len(wire)
    BY <1>1, <2>1, EmptySeq
  <2>3. <<wire[1]>> \in Seq(Seq(Stamped)) /\ Len(<<wire[1]>>) = 1 /\ <<wire[1]>>[1] = wire[1]
    BY <1>2, <2>2
  <2>4. /\ wire' \in Seq(Seq(Stamped)) /\ Len(wire') = 1 + Len(wire)
        /\ \A i \in 1..(1 + Len(wire)) : wire'[i] = IF i <= 1 THEN <<wire[1]>>[i] ELSE wire[i - 1]
    BY <1>1, <2>1, <2>2, <2>3, ConcatProperties
  <2>5. DOMAIN wire' = 1..(1 + Len(wire))
    BY <2>4, LenProperties
  <2>6. \A i \in DOMAIN wire' : \E k \in 1..Len(wire) : wire'[i] = wire[k]
    <3> SUFFICES ASSUME NEW i \in 1..(1 + Len(wire)) PROVE \E k \in 1..Len(wire) : wire'[i] = wire[k]
      BY <2>5
    <3>1. CASE i = 1
      BY <2>2, <2>3, <2>4, <3>1
    <3>2. CASE i # 1
      <4>1. i - 1 \in 1..Len(wire) /\ wire'[i] = wire[i - 1]
        BY <1>1, <2>4, <3>2
      <4> QED BY <4>1
    <3> QED BY <3>1, <3>2
  <2> QED BY <1>4, <1>5, <2>1, <2>6 DEF Past
<1>9. CASE Receive
  <2> PICK i \in DOMAIN wire : lines' = wire[i] /\ wire' = RemoveAt(wire, i)
    BY <1>9 DEF Receive
  <2>1. \A k \in DOMAIN wire' : \E l \in DOMAIN wire : wire'[k] = wire[l]
    <3>1. \A k \in DOMAIN RemoveAt(wire, i) : \E l \in DOMAIN wire : RemoveAt(wire, i)[k] = wire[l]
      BY <1>1, RemoveAtKeeps
    <3> QED BY <3>1
  <2>2. sent' = sent
    BY <1>9 DEF Receive
  <2> QED BY <1>1, <2>1, <2>2 DEF Past
<1>10. CASE Parse
  <2>1. CASE lines = <<>>
    BY <1>10, <2>1 DEF Parse, Past
  <2>2. CASE lines # <<>>
    <3>1. /\ Tail(lines) \in Seq(Stamped) /\ Len(Tail(lines)) = Len(lines) - 1
          /\ \A j \in 1..Len(Tail(lines)) : Tail(lines)[j] = lines[j + 1]
      BY <1>1, <2>2, HeadTailProperties
    <3>2. Len(lines) \in Nat /\ DOMAIN lines = 1..Len(lines) /\ DOMAIN Tail(lines) = 1..(Len(lines) - 1)
      BY <1>1, <3>1, LenProperties
    <3>3. lines' = Tail(lines) /\ wire' = wire /\ sent' = sent
      BY <1>10, <2>2 DEF Parse
    <3> QED BY <3>1, <3>2, <3>3 DEF Past
  <2> QED BY <2>1, <2>2
<1>11. CASE Off
  BY <1>11 DEF Off, Past
<1>12. CASE wire' = wire /\ sent' = sent /\ lines' = lines
  BY <1>12 DEF Past
<1>13. CASE BeginRecord \/ InsertEvent \/ UpdateSessions \/ CommitRecord \/ FailRecord
  BY <1>12, <1>13 DEF BeginRecord, InsertEvent, UpdateSessions, CommitRecord, FailRecord
<1>14. CASE AppendCsv \/ CountEvent \/ Poll \/ BeginVerdict \/ UpdateVerdict
  BY <1>12, <1>14 DEF AppendCsv, CountEvent, Poll, BeginVerdict, UpdateVerdict, listener
<1>15. CASE CommitVerdict \/ FailVerdict \/ Boot \/ PowerLoss \/ UNCHANGED vars
  BY <1>12, <1>15, PowerLossEffect DEF CommitVerdict, FailVerdict, Boot, vars, listener
<1> QED
  BY <1>6, <1>7, <1>8, <1>9, <1>10, <1>11, <1>13, <1>14, <1>15 DEF Next, Shutdown, Kill, Done

\* No stamp is stored at first,
LEMMA DatedInit == Init => Dated
BY DEF Init, NoTables, Dated

\* and one that is parsed is dated as WellDated says.
LEMMA DatedStep == Base /\ Past /\ Dated /\ [Next]_vars => Dated'
<1> SUFFICES ASSUME Base, Past, Dated, [Next]_vars PROVE Dated'
  OBVIOUS
<1>1. /\ saved.events \in Seq(Events) /\ tables.events \in Seq(Events) /\ event \in Events
      /\ sent \in Nat /\ sent \in Times /\ lines \in Seq(Stamped)
  BY TimesType DEF Base, Typed, Tables
<1>2. sent' \in {sent, sent + 1}
  BY DEF Next, vars, listener, scheduler, Send, Lose, Repeat, Receive, Parse, BeginRecord,
         InsertEvent, UpdateSessions, CommitRecord, FailRecord, AppendCsv, CountEvent, Poll,
         BeginVerdict, UpdateVerdict, CommitVerdict, FailVerdict, Boot, Shutdown, Kill, Off,
         PowerLoss, Done
<1>3. \A ev \in Events : WellDated(ev) => WellDated(ev)'
  <2> SUFFICES ASSUME NEW ev \in Events, WellDated(ev) PROVE WellDated(ev)'
    OBVIOUS
  <2>1. ev.at \in Nat /\ ev.ts \in Int
    BY TimesType DEF Events
  <2> QED BY <1>1, <1>2, <2>1 DEF WellDated
<1>4. \A t \in older \cup {saved} : \A i \in DOMAIN t.events : WellDated(t.events[i])'
  <2> SUFFICES ASSUME NEW t \in older \cup {saved}, NEW i \in DOMAIN t.events
               PROVE  WellDated(t.events[i])'
    OBVIOUS
  <2>1. t.events \in Seq(Events)
    BY DEF Base, Typed, Tables
  <2>2. t.events[i] \in Events /\ WellDated(t.events[i])
    BY <2>1, LenProperties, ElementOfSeq DEF Dated
  <2>3. \A ev : ev = t.events[i] => WellDated(ev)'
    BY <1>3, <2>2
  <2> QED BY <2>3 DEF WellDated
<1>5. \A t \in older' : \A i \in DOMAIN t.events : WellDated(t.events[i])'
  BY <1>4, OlderSubset
<1>6. CASE /\ \E t \in older \cup {saved} : saved'.events = t.events
           /\ \/ event' = event /\ lpc \in {"begin", "insert", "session", "commit"}
              \/ lpc' \notin {"begin", "insert", "session", "commit"}
  <2>1. event' = event /\ WellDated(event) => WellDated(event)'
    <3>1. \A ev : ev = event /\ WellDated(ev) => WellDated(ev)'
      BY <1>1, <1>3
    <3> QED BY <3>1 DEF WellDated
  <2>2. \A t : t = saved' => \A i \in DOMAIN t.events : WellDated(t.events[i])'
    <3> SUFFICES ASSUME NEW t, t = saved', NEW i \in DOMAIN t.events PROVE WellDated(t.events[i])'
      OBVIOUS
    <3> PICK u \in older \cup {saved} : saved'.events = u.events
      BY <1>6
    <3>1. WellDated(u.events[i])'
      BY <1>4
    <3>2. t.events[i] = u.events[i]
      OBVIOUS
    <3> QED BY <3>1, <3>2 DEF WellDated
  <2> QED BY <1>5, <1>6, <2>1, <2>2 DEF Dated
<1>7. CASE Parse
  <2>1. CASE lines = <<>>
    BY <1>6, <1>7, <2>1 DEF Parse
  <2>2. CASE lines # <<>>
    <3>1. Head(lines) \in Stamped /\ Head(lines) = lines[1] /\ 1 \in DOMAIN lines
      BY <1>1, <2>2, HeadTailProperties, EmptySeq, LenProperties
    <3>2. WellDated(Parsed(Head(lines)))
      BY <1>1, <3>1, ParsedWellDated DEF Past
    <3>3. CASE event' = Parsed(Head(lines))
      <4>1. saved' = saved /\ sent' = sent
        BY <1>7 DEF Parse
      <4>2. WellDated(event)'
        BY <3>2, <3>3, <4>1 DEF WellDated
      <4>3. \A t : t = saved' => \A i \in DOMAIN t.events : WellDated(t.events[i])'
        BY <1>4, <4>1
      <4> QED BY <1>5, <4>2, <4>3 DEF Dated
    <3> QED BY <1>6, <1>7, <2>2, <3>3 DEF Parse
  <2> QED BY <2>1, <2>2
<1>8. CASE CommitRecord
  <2> DEFINE n == Len(saved.events)
  <2>1. /\ saved'.events = Append(saved.events, event) /\ sent' = sent /\ lpc' = "csv"
        /\ lpc = "commit"
    BY <1>8, CommitAdds DEF CommitRecord, Base
  <2>2. /\ DOMAIN saved'.events = 1..(n + 1) /\ saved'.events[n + 1] = event /\ n \in Nat
        /\ \A i \in 1..n : saved'.events[i] = saved.events[i]
        /\ DOMAIN saved.events = 1..n
    BY <1>1, <2>1, LenProperties
  <2>3. WellDated(event) /\ \A i \in 1..n : WellDated(saved.events[i])
    BY <2>1, <2>2 DEF Dated
  <2>4. ASSUME NEW i \in 1..(n + 1)
        PROVE  WellDated(saved'.events[i])
    <3>1. CASE i = n + 1
      BY <2>2, <2>3, <3>1
    <3>2. CASE i \in 1..n
      BY <2>2, <2>3, <3>2
    <3> QED BY <2>2, <3>1, <3>2
  <2>5. \A t : t = saved' => \A i \in DOMAIN t.events : WellDated(t.events[i])'
    <3> SUFFICES ASSUME NEW t, t = saved', NEW i \in DOMAIN t.events PROVE WellDated(t.events[i])'
      OBVIOUS
    <3>1. i \in 1..(n + 1) /\ t.events[i] = saved'.events[i]
      BY <2>2
    <3>2. WellDated(t.events[i])
      BY <2>4, <3>1
    <3> QED BY <2>1, <3>2 DEF WellDated
  <2> QED BY <1>5, <2>1, <2>5 DEF Dated
<1>9. CASE Send \/ Lose \/ Repeat
  BY <1>6, <1>9 DEF Send, Lose, Repeat, listener
<1>10. CASE Receive \/ BeginRecord \/ InsertEvent \/ UpdateSessions
  BY <1>6, <1>10 DEF Receive, BeginRecord, InsertEvent, UpdateSessions
<1>11. CASE FailRecord \/ AppendCsv \/ CountEvent
  BY <1>6, <1>11 DEF FailRecord, AppendCsv, CountEvent
<1>12. CASE Poll \/ BeginVerdict \/ UpdateVerdict \/ FailVerdict
  BY <1>6, <1>12 DEF Poll, BeginVerdict, UpdateVerdict, FailVerdict, listener
<1>13. CASE CommitVerdict
  BY <1>6, <1>13, CommitAdds DEF CommitVerdict, listener, Base
<1>14. CASE Boot \/ Off
  BY <1>6, <1>14 DEF Boot, Off
<1>15. CASE UNCHANGED vars
  BY <1>6, <1>15 DEF vars, listener
<1>16. CASE PowerLoss
  BY <1>6, <1>16, PowerLossEffect
<1> QED
  BY <1>7, <1>8, <1>9, <1>10, <1>11, <1>12, <1>13, <1>14, <1>15, <1>16 DEF Next, Shutdown, Kill, Done

\* Whatever the delay, the zones and the turn of the year, an event has its sender's
\* time, or loses the year to a sender that is ahead of the server (parser._parse_ts).
THEOREM StampsSurvive == Spec => []OnlyClocksAheadLoseAYear
<1>1. Base /\ Dated => OnlyClocksAheadLoseAYear
  <2> SUFFICES ASSUME Base, Dated, NEW i \in DOMAIN tables.events
               PROVE  WellDated(tables.events[i])
    BY DEF OnlyClocksAheadLoseAYear
  <2> DEFINE n == Len(saved.events)
  <2>1. saved.events \in Seq(Events) /\ event \in Events
    BY DEF Base, Typed, Tables
  <2>2. n \in Nat /\ DOMAIN saved.events = 1..n
    BY <2>1, LenProperties
  <2>3. CASE lpc \in {"session", "commit"}
    <3>1. tables.events = Append(saved.events, event) /\ WellDated(event)
      BY <2>3 DEF Base, Pending, Dated
    <3>2. /\ DOMAIN tables.events = 1..(n + 1) /\ tables.events[n + 1] = event
          /\ \A j \in 1..n : tables.events[j] = saved.events[j]
      BY <2>1, <2>2, <3>1
    <3>3. i = n + 1 \/ i \in 1..n
      BY <2>2, <3>2
    <3> QED BY <2>2, <3>1, <3>2, <3>3 DEF Dated
  <2>4. CASE lpc \notin {"session", "commit"}
    <3>1. tables.events = saved.events
      BY <2>4 DEF Base, Pending
    <3> QED BY <3>1 DEF Dated
  <2> QED BY <2>3, <2>4
<1>2. Init => Past /\ Dated
  BY PastInit, DatedInit
<1>3. Base /\ Past /\ Dated /\ [Next]_vars => Past' /\ Dated'
  BY PastStep, DatedStep DEF Base
<1> QED BY <1>1, <1>2, <1>3, BaseAlways, PTL DEF Spec

-----------------------------------------------------------------------------
(* Sessions and the events they come from                                   *)

\* A non-empty set of numbers has a least member,
LEMMA LeastOf ==
  ASSUME NEW T \in SUBSET Nat, T # {}
  PROVE  \E m \in T : \A k \in T : m <= k
<1>1. PICK m \in T : \A k \in T : <<k, m>> \notin OpToRel(<, Nat)
  BY NatLessThanWellFounded, WFMin
<1>2. \A k \in T : ~(k < m)
  BY <1>1 DEF OpToRel
<1> QED BY <1>2

\* and a greatest one, if it is bounded.
LEMMA GreatestOf ==
  ASSUME NEW n \in Nat, NEW T \in SUBSET (1..n), T # {}
  PROVE  \E m \in T : \A k \in T : k <= m
<1> DEFINE U == {n - k : k \in T}
<1>1. U \in SUBSET Nat /\ U # {}
  <2>1. \A k \in T : n - k \in Nat
    OBVIOUS
  <2>2. PICK k \in T : TRUE
    OBVIOUS
  <2> QED BY <2>1, <2>2
<1>2. PICK u \in U : \A v \in U : u <= v
  <2> HIDE DEF U
  <2> QED BY <1>1, LeastOf
<1>3. PICK m \in T : u = n - m
  BY <1>2
<1>4. ASSUME NEW k \in T PROVE k <= m
  <2>1. n - m <= n - k
    BY <1>2, <1>3
  <2> QED BY <2>1
<1> QED BY <1>4

-----------------------------------------------------------------------------
(* The sessions of a table of events                                       *)

Rank(evs, i) == Cardinality({j \in Starts(evs) : j <= i})

\* The sessions of SessionsReplayEvents, and no others.
Replayed(evs, ss) ==
  /\ Len(ss) = Cardinality(Starts(evs))
  /\ \A i \in Starts(evs) : Rank(evs, i) \in DOMAIN ss /\ ss[Rank(evs, i)] = SessionFrom(evs, i)
  /\ \A k \in DOMAIN ss : \E i \in Starts(evs) : Rank(evs, i) = k

\* What an event does to the session that i started.
EndedBy(ev, on) ==
  /\ ev.host = on.host /\ ev.chan # NoChan
  /\ ev.kind = "radar" \/ (ev.kind \in Opening /\ ev.chan # on.chan)

\* The elements of a sequence and of the one with another at its end.
LEMMA Appended ==
  ASSUME NEW S, NEW s \in Seq(S), NEW e \in S
  PROVE  /\ Len(s) \in Nat /\ DOMAIN s = 1..Len(s) /\ DOMAIN Append(s, e) = 1..(Len(s) + 1)
         /\ Append(s, e)[Len(s) + 1] = e
         /\ \A i \in 1..Len(s) : Append(s, e)[i] = s[i] /\ s[i] \in S
BY LenProperties, ElementOfSeq

\* One more event changes nothing about where its predecessors start a session.
LEMMA AppendStarts ==
  ASSUME NEW evs \in Seq(Events), NEW ev \in Events
  PROVE  Starts(Append(evs, ev)) \cap 1..Len(evs) = Starts(evs)
<1> DEFINE n == Len(evs)
           ap == Append(evs, ev)
<1>1. /\ n \in Nat /\ DOMAIN evs = 1..n /\ DOMAIN ap = 1..(n + 1)
      /\ \A i \in 1..n : ap[i] = evs[i]
  BY Appended
<1> HIDE DEF n, ap
<1>2. ASSUME NEW i \in 1..n PROVE Before(ap, i) = Before(evs, i)
  <2>1. \A k \in 1..(i - 1) : ap[k] = evs[k]
    BY <1>1
  <2>2. ap[i] = evs[i]
    BY <1>1
  <2>3. \A j \in 1..(i - 1) : \A k \in (j + 1)..(i - 1) : ap[k] = evs[k]
    BY <1>1
  <2> QED BY <2>1, <2>2, <2>3 DEF Before
<1>3. \A i \in 1..n : \A j \in Before(evs, i) : ap[j] = evs[j]
  BY <1>1 DEF Before
<1>4. \A i \in 1..n : i \in DOMAIN ap /\ i \in DOMAIN evs /\ ap[i] = evs[i]
  BY <1>1
<1>5. ASSUME NEW i \in 1..n PROVE i \in Starts(ap) <=> i \in Starts(evs)
  BY <1>2, <1>3, <1>4 DEF Starts
<1>6. Starts(evs) \subseteq 1..n
  BY <1>1 DEF Starts
<1>7. Starts(ap) \cap 1..n = Starts(evs)
  BY <1>5, <1>6
<1> QED BY <1>7 DEF n, ap

\* The last event ends the sessions it ends.
LEMMA AppendEnds ==
  ASSUME NEW evs \in Seq(Events), NEW ev \in Events, NEW i \in 1..Len(evs)
  PROVE  Ends(Append(evs, ev), i)
           = Ends(evs, i) \cup (IF EndedBy(ev, evs[i]) THEN {Len(evs) + 1} ELSE {})
<1> DEFINE n == Len(evs)
           ap == Append(evs, ev)
<1>1. /\ n \in Nat /\ DOMAIN evs = 1..n /\ DOMAIN ap = 1..(n + 1)
      /\ ap[n + 1] = ev /\ \A k \in 1..n : ap[k] = evs[k]
  BY Appended
<1>4. i \in 1..n
  OBVIOUS
<1> HIDE DEF n, ap
<1>2. Ends(ap, i) \cap 1..n = Ends(evs, i)
  BY <1>1, <1>4 DEF Ends
<1>3. n + 1 \in Ends(ap, i) <=> EndedBy(ev, evs[i])
  BY <1>1, <1>4 DEF Ends, EndedBy
<1>5. Ends(ap, i) \subseteq 1..(n + 1)
  BY <1>1 DEF Ends
<1>6. Ends(ap, i) = (Ends(ap, i) \cap 1..n) \cup (Ends(ap, i) \cap {n + 1})
  BY <1>1, <1>5
<1> QED BY <1>2, <1>3, <1>6 DEF n, ap

\* A session that is ended at a time by a kind of event.
Closed(row, ts, by) == [row EXCEPT !.ended = ts, !.by = by]

\* Its other fields stay.
LEMMA ClosedRow ==
  ASSUME NEW h, NEW c, NEW s, NEW e, NEW b, NEW ts, NEW by, NEW row,
         row = [host |-> h, chan |-> c, started |-> s, ended |-> e, by |-> b]
  PROVE  Closed(row, ts, by)
           = [host |-> h, chan |-> c, started |-> s, ended |-> ts, by |-> by]
<1> DEFINE r == [host |-> h, chan |-> c, started |-> s, ended |-> e, by |-> b]
           q == [r EXCEPT !.ended = ts]
<1>1. q = [host |-> h, chan |-> c, started |-> s, ended |-> ts, by |-> b]
  OBVIOUS
<1>2. [[host |-> h, chan |-> c, started |-> s, ended |-> ts, by |-> b] EXCEPT !.by = by]
        = [host |-> h, chan |-> c, started |-> s, ended |-> ts, by |-> by]
  OBVIOUS
<1>3. [r EXCEPT !.ended = ts, !.by = by] = [q EXCEPT !.by = by]
  OBVIOUS
<1> HIDE DEF q, r
<1>4. [q EXCEPT !.by = by] = [host |-> h, chan |-> c, started |-> s, ended |-> ts, by |-> by]
  BY <1>1, <1>2, Zenon
<1>5. row = r
  BY DEF r
<1>6. Closed(row, ts, by) = [r EXCEPT !.ended = ts, !.by = by]
  BY <1>5, Zenon DEF Closed
<1> QED BY <1>3, <1>4, <1>6, Zenon

\* A session that has ended stays as it is, and one that is open is ended by the last
\* event or stays open.
LEMMA AppendSession ==
  ASSUME NEW evs \in Seq(Events), NEW ev \in Events, NEW i \in 1..Len(evs)
  PROVE  /\ SessionFrom(evs, i).host = evs[i].host /\ SessionFrom(evs, i).chan = evs[i].chan
         /\ SessionFrom(evs, i).ended = NoTime <=> Ends(evs, i) = {}
         /\ SessionFrom(Append(evs, ev), i) =
              IF Ends(evs, i) = {} /\ EndedBy(ev, evs[i])
              THEN Closed(SessionFrom(evs, i), ev.ts,
                          IF ev.kind = "radar" THEN "radar" ELSE "switch")
              ELSE SessionFrom(evs, i)
<1> DEFINE n == Len(evs)
           ap == Append(evs, ev)
           First(E) == CHOOSE j \in E : \A k \in E : j <= k
           E == Ends(evs, i)
           F == Ends(ap, i)
           Row(q, G) == [host |-> q[i].host, chan |-> q[i].chan, started |-> q[i].ts,
                         ended |-> IF G = {} THEN NoTime ELSE q[First(G)].ts,
                         by |-> IF G = {} THEN "null"
                                ELSE IF q[First(G)].kind = "radar" THEN "radar" ELSE "switch"]
<1>1. /\ n \in Nat /\ DOMAIN evs = 1..n /\ DOMAIN ap = 1..(n + 1)
      /\ ap[n + 1] = ev /\ \A k \in 1..n : ap[k] = evs[k] /\ evs[k] \in Events
  BY Appended
<1>2. i \in 1..n /\ E \subseteq 1..n /\ F = E \cup (IF EndedBy(ev, evs[i]) THEN {n + 1} ELSE {})
  BY <1>1, AppendEnds DEF Ends
<1>3. SessionFrom(evs, i) = Row(evs, E) /\ SessionFrom(ap, i) = Row(ap, F)
  BY DEF SessionFrom
<1>4. ASSUME E # {} PROVE First(E) \in E /\ First(F) = First(E)
  <2>1. E \in SUBSET Nat
    BY <1>1, <1>2
  <2>2. \E m \in E : \A k \in E : m <= k
    <3> HIDE DEF E
    <3> QED BY <1>4, <2>1, LeastOf
  <2>3. First(E) \in E
    BY <2>2
  <2>4. \A j : (j \in E /\ \A k \in E : j <= k) <=> (j \in F /\ \A k \in F : j <= k)
    <3> HIDE DEF E, F
    <3>1. \A j \in E : j \in 1..n /\ j <= n + 1
      BY <1>1, <1>2
    <3>3. \A j \in 1..n : ~(n + 1 <= j)
      BY <1>1
    <3>2. PICK m \in E : ~(n + 1 <= m)
      BY <1>2, <1>4, <3>3
    <3> QED BY <1>2, <3>1, <3>2
  <2>5. First(F) = First(E)
    <3> HIDE DEF E, F
    <3> QED BY <2>4
  <2> QED BY <2>3, <2>5
<1>5. First({n + 1}) = n + 1
  <2>1. \E m \in {n + 1} : \A k \in {n + 1} : m <= k
    BY <1>1
  <2> QED BY <2>1
<1> HIDE DEF n, ap, E, F, First
<1>6. \A j \in 1..n : evs[j].ts # NoTime
  BY <1>1, LinesAssumption DEF Events
<1>7. CASE E = {}
  <2>1. F = {} \/ (F = {n + 1} /\ EndedBy(ev, evs[i]))
    BY <1>2, <1>7
  <2>2. F = {} <=> ~EndedBy(ev, evs[i])
    BY <1>2, <1>7
  <2>3. SessionFrom(evs, i) = [host |-> evs[i].host, chan |-> evs[i].chan, started |-> evs[i].ts,
                               ended |-> NoTime, by |-> "null"]
    BY <1>3, <1>7
  <2>4. CASE F = {}
    <3>1. SessionFrom(ap, i) = SessionFrom(evs, i)
      BY <1>1, <1>2, <1>3, <2>3, <2>4
    <3> QED BY <1>7, <2>2, <2>3, <2>4, <3>1 DEF ap, E
  <2>5. CASE F # {}
    <3>1. F = {n + 1} /\ EndedBy(ev, evs[i])
      BY <2>1, <2>5
    <3>2. ap[First(F)] = ev
      BY <1>1, <1>5, <3>1
    <3>3. SessionFrom(ap, i) = [host |-> evs[i].host, chan |-> evs[i].chan,
             started |-> evs[i].ts, ended |-> ev.ts,
             by |-> IF ev.kind = "radar" THEN "radar" ELSE "switch"]
      BY <1>1, <1>2, <1>3, <2>5, <3>2
    <3>4. SessionFrom(ap, i) = Closed(SessionFrom(evs, i), ev.ts,
                                      IF ev.kind = "radar" THEN "radar" ELSE "switch")
      BY <2>3, <3>3, ClosedRow
    <3> QED BY <1>7, <2>3, <3>1, <3>4 DEF ap, E
  <2> QED BY <2>4, <2>5
<1>8. CASE E # {}
  <2>1. First(E) \in 1..n /\ F # {} /\ First(F) = First(E)
    BY <1>2, <1>4, <1>8
  <2>2. ap[First(F)] = evs[First(E)] /\ ap[i] = evs[i]
    BY <1>1, <1>2, <2>1
  <2>3. SessionFrom(ap, i) = SessionFrom(evs, i)
    BY <1>3, <1>8, <2>1, <2>2
  <2>4. SessionFrom(evs, i).ended # NoTime
    BY <1>3, <1>6, <1>8, <2>1
  <2>5. SessionFrom(evs, i).host = evs[i].host /\ SessionFrom(evs, i).chan = evs[i].chan
    BY <1>3
  <2> QED BY <1>8, <2>3, <2>4, <2>5 DEF ap, E
<1> QED BY <1>7, <1>8

\* If the last event puts its host on a channel it is on already, the session there is
\* open.
LEMMA OpenThere ==
  ASSUME NEW evs \in Seq(Events), NEW ev \in Events, ev.kind \in Opening, ev.chan # NoChan,
         Len(evs) + 1 \notin Starts(Append(evs, ev))
  PROVE  \E i \in Starts(evs) : /\ evs[i].host = ev.host /\ evs[i].chan = ev.chan
                                /\ Ends(evs, i) = {}
<1> DEFINE n == Len(evs)
           ap == Append(evs, ev)
           On(i) == /\ evs[i].host = ev.host /\ evs[i].chan = ev.chan
                    /\ evs[i].kind \in Opening /\ Ends(evs, i) = {}
           T == {i \in 1..n : On(i)}
<1>1. /\ n \in Nat /\ DOMAIN evs = 1..n /\ DOMAIN ap = 1..(n + 1)
      /\ ap[n + 1] = ev /\ \A k \in 1..n : ap[k] = evs[k]
  BY Appended
<1>2. n + 1 \notin Starts(ap)
  OBVIOUS
<1> HIDE DEF n, ap
<1>3. PICK j \in Before(ap, n + 1) : ~(ap[j].kind = "radar" \/ ap[j].chan # ev.chan)
  <2>1. n + 1 \in DOMAIN ap
    BY <1>1
  <2> QED BY <1>1, <1>2, <2>1 DEF Starts
<1>4. j \in 1..n /\ ap[j] = evs[j]
  BY <1>1 DEF Before
<1>5. On(j)
  <2>1. evs[j].host = ev.host /\ evs[j].chan = ev.chan /\ evs[j].kind \in Opening
    BY <1>1, <1>3, <1>4 DEF Before
  <2>2. \A k \in (j + 1)..n : evs[k].host = ev.host /\ evs[k].chan # NoChan =>
                                evs[k].kind = "cac_start"
    <3>1. \A k \in (j + 1)..n : k \in (j + 1)..((n + 1) - 1) /\ k \in 1..n /\ ap[k] = evs[k]
      BY <1>1, <1>4
    <3> QED BY <1>1, <3>1 DEF Before
  <2>3. \A k \in 1..n : k > j => k \in (j + 1)..n
    BY <1>1, <1>4
  <2>4. Ends(evs, j) = {}
    BY <1>1, <2>1, <2>2, <2>3 DEF Ends, Opening
  <2> QED BY <2>1, <2>4
<1>6. T \in SUBSET Nat /\ T # {}
  BY <1>1, <1>4, <1>5
<1>7. PICK i \in T : \A k \in T : i <= k
  <2> HIDE DEF T
  <2> QED BY <1>6, LeastOf
<1>8. i \in 1..n /\ On(i)
  BY <1>7
<1>9. ASSUME NEW k \in Before(evs, i), ~(evs[k].kind = "radar" \/ evs[k].chan # evs[i].chan)
      PROVE  FALSE
  <2>1. k \in 1..(i - 1) /\ k \in 1..n /\ i \in Nat /\ k \in Nat /\ k < i
    BY <1>1, <1>8 DEF Before
  <2>2. evs[k].host = ev.host /\ evs[k].chan = ev.chan /\ evs[k].kind \in Opening
    BY <1>8, <1>9 DEF Before
  <2>3. \A l \in (k + 1)..(i - 1) : evs[l].host = ev.host /\ evs[l].chan # NoChan =>
                                      evs[l].kind = "cac_start"
    BY <1>8 DEF Before
  <2>4. \A l \in 1..n : l > i => ~(/\ evs[l].host = ev.host /\ evs[l].chan # NoChan
                                   /\ \/ evs[l].kind = "radar"
                                      \/ evs[l].kind \in Opening /\ evs[l].chan # ev.chan)
    BY <1>1, <1>8 DEF Ends
  <2>5. \A l \in 1..n : l > k => l \in (k + 1)..(i - 1) \/ l = i \/ l > i
    BY <1>1, <1>8, <2>1
  <2>6. Ends(evs, k) = {}
    <3> SUFFICES ASSUME NEW l \in Ends(evs, k) PROVE FALSE
      OBVIOUS
    <3>1. /\ l \in 1..n /\ l > k /\ evs[l].host = ev.host /\ evs[l].chan # NoChan
          /\ \/ evs[l].kind = "radar"
             \/ evs[l].kind \in Opening /\ evs[l].chan # ev.chan
      BY <1>1, <2>2 DEF Ends
    <3>2. CASE l \in (k + 1)..(i - 1)
      BY <2>3, <3>1, <3>2 DEF Opening
    <3>3. CASE l = i
      BY <1>8, <3>1, <3>3 DEF Opening
    <3>4. CASE l > i
      BY <2>4, <3>1, <3>4
    <3> QED BY <2>5, <3>1, <3>2, <3>3, <3>4
  <2>7. k \in T
    BY <2>1, <2>2, <2>6
  <2> QED BY <1>7, <2>1, <2>7
<1>10. i \in Starts(evs)
  BY <1>1, <1>8, <1>9 DEF Starts
<1> QED BY <1>8, <1>10

\* No pattern of the parser, no event.
Real(evs) == \A i \in DOMAIN evs : evs[i].kind # "none"

\* A session that is open on the channel of the last event is not started again.
LEMMA NotStartedTwice ==
  ASSUME NEW evs \in Seq(Events), NEW ev \in Events, Real(evs),
         NEW i \in Starts(evs), evs[i].host = ev.host, evs[i].chan = ev.chan, Ends(evs, i) = {}
  PROVE  Len(evs) + 1 \notin Starts(Append(evs, ev))
<1> DEFINE n == Len(evs)
           ap == Append(evs, ev)
           T == {k \in 1..n : /\ evs[k].host = ev.host /\ evs[k].chan # NoChan
                              /\ evs[k].kind \in Opening \cup {"radar"}}
<1>1. /\ n \in Nat /\ DOMAIN evs = 1..n /\ DOMAIN ap = 1..(n + 1)
      /\ ap[n + 1] = ev /\ \A k \in 1..n : ap[k] = evs[k] /\ evs[k] \in Events
  BY Appended
<1> SUFFICES ASSUME n + 1 \in Starts(ap) PROVE FALSE
  OBVIOUS
<1>2. i \in 1..n /\ evs[i].kind \in Opening /\ evs[i].chan # NoChan
  BY <1>1 DEF Starts
<1> HIDE DEF n, ap
<1>3. PICK j \in T : \A k \in T : k <= j
  <2>1. T \in SUBSET (1..n) /\ T # {}
    BY <1>2
  <2> HIDE DEF T
  <2> QED BY <1>1, <2>1, GreatestOf
<1>4. j \in 1..n /\ j \in Nat /\ i \in Nat /\ i <= j
  <2>1. i \in T
    BY <1>2
  <2> QED BY <1>1, <1>2, <1>3, <2>1
<1>5. evs[j].kind \in Opening /\ evs[j].chan = ev.chan
  <2>1. CASE j = i
    BY <1>2, <2>1
  <2>2. CASE j # i
    <3>1. j > i /\ j \notin Ends(evs, i)
      BY <1>4, <2>2
    <3> QED BY <1>1, <1>3, <1>4, <3>1 DEF Ends
  <2> QED BY <2>1, <2>2
<1>6. ASSUME NEW k \in (j + 1)..n, evs[k].host = ev.host, evs[k].chan # NoChan
      PROVE  evs[k].kind = "cac_start"
  <2>1. k \in 1..n /\ ~(k <= j)
    BY <1>1, <1>4
  <2>2. evs[k].kind \notin Opening \cup {"radar"}
    BY <1>3, <1>6, <2>1
  <2>3. evs[k].kind \in {"radar", "cac_done", "cac_start", "new_channel", "none"}
    BY <1>1, <2>1 DEF Events
  <2>4. evs[k].kind # "none"
    BY <1>1, <2>1 DEF Real
  <2> QED BY <2>2, <2>3, <2>4 DEF Opening
<1>7. j \in Before(ap, n + 1)
  <2>1. j \in 1..((n + 1) - 1)
    BY <1>1, <1>4
  <2>2. ap[j] = evs[j] /\ ap[n + 1] = ev
    BY <1>1, <1>4
  <2>3. \A k \in (j + 1)..((n + 1) - 1) : k \in (j + 1)..n /\ ap[k] = evs[k]
    BY <1>1, <1>4
  <2> QED BY <1>3, <1>6, <2>1, <2>2, <2>3 DEF Before
<1>8. ap[j].kind = "radar" \/ ap[j].chan # ap[n + 1].chan
  BY <1>7 DEF Starts
<1> QED BY <1>1, <1>4, <1>5, <1>8 DEF Opening

\* The ranks of the sessions stay, and a new one comes last.
LEMMA AppendRank ==
  ASSUME NEW evs \in Seq(Events), NEW ev \in Events
  PROVE  LET ap == Append(evs, ev)
             n == Len(evs)
         IN  /\ Starts(ap) = IF n + 1 \in Starts(ap) THEN Starts(evs) \cup {n + 1} ELSE Starts(evs)
             /\ Cardinality(Starts(ap)) = Cardinality(Starts(evs))
                                            + (IF n + 1 \in Starts(ap) THEN 1 ELSE 0)
             /\ Cardinality(Starts(evs)) \in Nat
             /\ \A i \in Starts(evs) : i \in 1..n /\ Rank(ap, i) = Rank(evs, i)
             /\ Rank(ap, n + 1) = Cardinality(Starts(ap))
<1> DEFINE n == Len(evs)
           ap == Append(evs, ev)
           A == Starts(evs)
           B == Starts(ap)
<1>1. n \in Nat /\ DOMAIN evs = 1..n /\ DOMAIN ap = 1..(n + 1)
  BY Appended
<1>2. A \subseteq 1..n /\ B \subseteq 1..(n + 1) /\ B \cap 1..n = A
  BY <1>1, AppendStarts DEF Starts
<1> HIDE DEF n, ap, A, B
<1>3. B = (IF n + 1 \in B THEN A \cup {n + 1} ELSE A) /\ n + 1 \notin A
  <2>1. \A k \in 1..(n + 1) : k \in 1..n \/ k = n + 1
    BY <1>1
  <2>2. n + 1 \notin 1..n
    BY <1>1
  <2> QED BY <1>2, <2>1, <2>2
<1>4. IsFiniteSet(A) /\ Cardinality(A) \in Nat
  <2>1. IsFiniteSet(1..n)
    BY <1>1, FS_Interval
  <2> QED BY <1>2, <2>1, FS_Subset, FS_CardinalityType
<1>5. Cardinality(B) = Cardinality(A) + (IF n + 1 \in B THEN 1 ELSE 0)
  <2>1. Cardinality(A \cup {n + 1}) = Cardinality(A) + 1
    BY <1>3, <1>4, FS_AddElement
  <2>2. CASE n + 1 \in B
    <3>1. B = A \cup {n + 1}
      BY <1>3, <2>2
    <3> QED BY <2>1, <2>2, <3>1
  <2>3. CASE n + 1 \notin B
    <3>1. B = A
      BY <1>3, <2>3
    <3> QED BY <1>4, <2>3, <3>1
  <2> QED BY <2>2, <2>3
<1>6. ASSUME NEW i \in A PROVE i \in 1..n /\ Rank(ap, i) = Rank(evs, i)
  <2>1. \A j \in B : j <= i => j \in A
    BY <1>1, <1>2, <1>3
  <2>2. {j \in B : j <= i} = {j \in A : j <= i}
    BY <1>2, <2>1
  <2> QED BY <1>2, <2>2 DEF Rank, A, B
<1>7. Rank(ap, n + 1) = Cardinality(B)
  <2>2. \A j \in B : j <= n + 1
    BY <1>1, <1>2
  <2>1. {j \in B : j <= n + 1} = B
    BY <2>2
  <2> QED BY <2>1 DEF Rank, B
<1> QED BY <1>3, <1>4, <1>5, <1>6, <1>7 DEF n, ap, A, B

\* Rows that follow the sessions, one by one, follow all of them.
LEMMA RowsFollow ==
  ASSUME NEW evs \in Seq(Events), NEW ev \in Events, NEW ss \in Seq(Sessions),
         Replayed(evs, ss), NEW rows \in Seq(Sessions), Len(rows) = Len(ss),
         \A i \in Starts(evs) : rows[Rank(evs, i)] = SessionFrom(Append(evs, ev), i)
  PROVE  LET n == Len(evs)
             ap == Append(evs, ev)
         IN  /\ n + 1 \notin Starts(ap) => Replayed(ap, rows)
             /\ \A row \in Sessions :
                  n + 1 \in Starts(ap) /\ row = SessionFrom(ap, n + 1) =>
                    Replayed(ap, Append(rows, row))
<1> DEFINE n == Len(evs)
           ap == Append(evs, ev)
           m == Len(ss)
<1>1. /\ m \in Nat /\ DOMAIN ss = 1..m /\ Len(rows) = m /\ DOMAIN rows = 1..m
  BY LenProperties
<1>2. /\ Starts(ap) = IF n + 1 \in Starts(ap) THEN Starts(evs) \cup {n + 1} ELSE Starts(evs)
      /\ Cardinality(Starts(ap)) = Cardinality(Starts(evs))
                                     + (IF n + 1 \in Starts(ap) THEN 1 ELSE 0)
      /\ Cardinality(Starts(evs)) \in Nat
      /\ \A i \in Starts(evs) : i \in 1..n /\ Rank(ap, i) = Rank(evs, i)
      /\ Rank(ap, n + 1) = Cardinality(Starts(ap))
  BY AppendRank
<1>3. /\ m = Cardinality(Starts(evs))
      /\ \A i \in Starts(evs) : Rank(ap, i) \in 1..m
      /\ \A k \in 1..m : \E i \in Starts(evs) : Rank(ap, i) = k
      /\ \A i \in Starts(evs) : rows[Rank(ap, i)] = SessionFrom(ap, i)
  BY <1>1, <1>2 DEF Replayed
<1> HIDE DEF n, ap, m
<1>4. CASE n + 1 \notin Starts(ap)
  <2>1. Starts(ap) = Starts(evs) /\ Cardinality(Starts(ap)) = m
    BY <1>2, <1>3, <1>4
  <2>2. Replayed(ap, rows)
    BY <1>1, <1>3, <2>1 DEF Replayed
  <2> QED BY <1>4, <2>2 DEF n, ap
<1>5. CASE n + 1 \in Starts(ap)
  <2> SUFFICES ASSUME NEW row \in Sessions, row = SessionFrom(ap, n + 1)
               PROVE  Replayed(ap, Append(rows, row))
    BY <1>5 DEF n, ap
  <2> DEFINE t == Append(rows, row)
  <2>1. /\ DOMAIN t = 1..(m + 1) /\ Len(t) = m + 1 /\ t[m + 1] = row
        /\ \A i \in 1..m : t[i] = rows[i]
    BY <1>1, Appended
  <2> HIDE DEF t
  <2>2. Starts(ap) = Starts(evs) \cup {n + 1} /\ Rank(ap, n + 1) = m + 1
        /\ Cardinality(Starts(ap)) = m + 1
    BY <1>2, <1>3, <1>5
  <2>3. ASSUME NEW i \in Starts(ap)
        PROVE  Rank(ap, i) \in DOMAIN t /\ t[Rank(ap, i)] = SessionFrom(ap, i)
    <3>1. CASE i = n + 1
      BY <1>1, <2>1, <2>2, <3>1
    <3>2. CASE i \in Starts(evs)
      BY <1>1, <1>3, <2>1, <3>2
    <3> QED BY <2>2, <3>1, <3>2
  <2>4. ASSUME NEW k \in 1..(m + 1)
        PROVE  \E i \in Starts(ap) : Rank(ap, i) = k
    <3>1. CASE k = m + 1
      BY <2>2, <3>1
    <3>2. CASE k \in 1..m
      BY <1>3, <2>2, <3>2
    <3> QED BY <1>1, <3>1, <3>2
  <2> QED BY <2>1, <2>2, <2>3, <2>4 DEF Replayed, t
<1> QED BY <1>4, <1>5

\* What _update_sessions does to the sessions is what the event does to their history.
LEMMA ReplayAppend ==
  ASSUME tables \in Tables, event \in Events, event.kind # "none",
         NEW evs \in Seq(Events), Real(evs), Replayed(evs, tables.sessions)
  PROVE  Replayed(Append(evs, event), SessionsAfter)
<1> DEFINE n == Len(evs)
           ap == Append(evs, event)
           ss == tables.sessions
<1>1. /\ n \in Nat /\ DOMAIN evs = 1..n /\ DOMAIN ap = 1..(n + 1)
      /\ ap[n + 1] = event /\ \A k \in 1..n : ap[k] = evs[k] /\ evs[k] \in Events
  BY Appended
<1>2. ss \in Seq(Sessions) /\ DOMAIN ss = 1..Len(ss) /\ Len(ss) \in Nat
  BY LenProperties DEF Tables
<1>3. event.kind \in {"radar", "cac_done", "cac_start", "new_channel"} /\ event.ts \in Int
  BY DEF Events
\* The session of each start, and how it goes on.
<1>4. ASSUME NEW i \in Starts(evs)
      PROVE  /\ i \in 1..n /\ Rank(evs, i) \in DOMAIN ss /\ ss[Rank(evs, i)] = SessionFrom(evs, i)
             /\ evs[i].kind \in Opening /\ evs[i].chan # NoChan
             /\ ss[Rank(evs, i)].host = evs[i].host /\ ss[Rank(evs, i)].chan = evs[i].chan
             /\ ss[Rank(evs, i)].ended = NoTime <=> Ends(evs, i) = {}
             /\ SessionFrom(ap, i) =
                  IF Ends(evs, i) = {} /\ EndedBy(event, evs[i])
                  THEN Closed(SessionFrom(evs, i), event.ts,
                              IF event.kind = "radar" THEN "radar" ELSE "switch")
                  ELSE SessionFrom(evs, i)
  <2>1. i \in 1..n /\ evs[i].kind \in Opening /\ evs[i].chan # NoChan
    BY <1>1 DEF Starts
  <2>2. Rank(evs, i) \in DOMAIN ss /\ ss[Rank(evs, i)] = SessionFrom(evs, i)
    BY DEF Replayed
  <2> QED BY <2>1, <2>2, AppendSession
<1>5. \A k \in DOMAIN ss : \E i \in Starts(evs) : Rank(evs, i) = k
  BY DEF Replayed
<1> DEFINE Follows(rows) == \A i \in Starts(evs) : rows[Rank(evs, i)] = SessionFrom(ap, i)
<1>6. ASSUME NEW rows \in Seq(Sessions), Len(rows) = Len(ss), Follows(rows)
      PROVE  /\ n + 1 \notin Starts(ap) => Replayed(ap, rows)
             /\ \A row \in Sessions :
                  n + 1 \in Starts(ap) /\ row = SessionFrom(ap, n + 1) =>
                    Replayed(ap, Append(rows, row))
  BY <1>2, <1>6, RowsFollow
<1>7. ASSUME NEW by \in {"radar", "switch"},
             by = IF event.kind = "radar" THEN "radar" ELSE "switch",
             \A i \in Starts(evs) : Ends(evs, i) = {} =>
               (EndedBy(event, evs[i]) <=> evs[i].host = event.host)
      PROVE  Ended(by) \in Seq(Sessions) /\ Len(Ended(by)) = Len(ss) /\ Follows(Ended(by))
  <2>1. Ended(by) \in Seq(Sessions) /\ Len(Ended(by)) = Len(ss)
    BY <1>2, EndedProperties
  <2>2. \A k \in DOMAIN ss : Ended(by)[k] =
          IF ss[k].host = event.host /\ ss[k].ended = NoTime
          THEN Closed(ss[k], event.ts, by) ELSE ss[k]
    BY DEF Ended, OpenOf, Closed
  <2>3. ASSUME NEW i \in Starts(evs) PROVE Ended(by)[Rank(evs, i)] = SessionFrom(ap, i)
    <3> DEFINE k == Rank(evs, i)
    <3>1. /\ k \in DOMAIN ss /\ ss[k] = SessionFrom(evs, i) /\ ss[k].host = evs[i].host
          /\ ss[k].ended = NoTime <=> Ends(evs, i) = {}
      BY <1>4
    <3>2. CASE Ends(evs, i) = {} /\ evs[i].host = event.host
      <4>1. EndedBy(event, evs[i])
        BY <1>7, <3>2
      <4>2. SessionFrom(ap, i) = Closed(SessionFrom(evs, i), event.ts, by)
        BY <1>4, <1>7, <3>2, <4>1
      <4>3. Ended(by)[k] = Closed(ss[k], event.ts, by)
        BY <2>2, <3>1, <3>2
      <4> HIDE DEF k, ss, ap
      <4>4. Ended(by)[k] = SessionFrom(ap, i)
        BY <3>1, <4>2, <4>3, Zenon
      <4> QED BY <4>4 DEF k, ap
    <3>3. CASE ~(Ends(evs, i) = {} /\ evs[i].host = event.host)
      <4>1. ~(Ends(evs, i) = {} /\ EndedBy(event, evs[i]))
        BY <1>7, <3>3
      <4>2. SessionFrom(ap, i) = SessionFrom(evs, i)
        BY <1>4, <4>1
      <4>3. Ended(by)[k] = ss[k]
        BY <2>2, <3>1, <3>3
      <4> QED BY <3>1, <4>2, <4>3
    <3> QED BY <3>2, <3>3
  <2> QED BY <2>1, <2>3
\* An event without a channel, or about the start of a CAC, concerns no session.
<1>8. CASE event.chan = NoChan \/ event.kind = "cac_start"
  <2>1. SessionsAfter = ss
    BY <1>8 DEF SessionsAfter, Opening
  <2>2. n + 1 \notin Starts(ap)
    BY <1>1, <1>8 DEF Starts, Opening
  <2>3. \A i \in Starts(evs) : ~EndedBy(event, evs[i])
    BY <1>8 DEF EndedBy, Opening
  <2>4. Follows(ss)
    BY <1>4, <2>3
  <2> QED BY <1>2, <1>6, <2>1, <2>2, <2>4
\* Radar ends the session of its host.
<1>9. CASE event.chan # NoChan /\ event.kind = "radar"
  <2>1. SessionsAfter = Ended("radar")
    BY <1>9 DEF SessionsAfter
  <2>2. n + 1 \notin Starts(ap)
    BY <1>1, <1>9 DEF Starts, Opening
  <2>3. \A i \in Starts(evs) : EndedBy(event, evs[i]) <=> evs[i].host = event.host
    BY <1>9 DEF EndedBy
  <2>4. Ended("radar") \in Seq(Sessions) /\ Len(Ended("radar")) = Len(ss) /\ Follows(Ended("radar"))
    BY <1>7, <1>9, <2>3
  <2> QED BY <1>6, <2>1, <2>2, <2>4
\* A switch to the channel of the open session is none,
<1>10. CASE /\ event.chan # NoChan /\ event.kind \in Opening
            /\ \E k \in OpenOf(event.host) : ss[k].chan = event.chan
  <2> PICK k \in OpenOf(event.host) : ss[k].chan = event.chan
    BY <1>10
  <2>1. k \in DOMAIN ss /\ ss[k].host = event.host /\ ss[k].ended = NoTime
    BY DEF OpenOf
  <2> PICK o \in Starts(evs) : Rank(evs, o) = k
    BY <1>5, <2>1
  <2>2. evs[o].host = event.host /\ evs[o].chan = event.chan /\ Ends(evs, o) = {} /\ o \in 1..n
    BY <1>4, <2>1
  <2>3. n + 1 \notin Starts(ap)
    BY <2>2, NotStartedTwice
  <2>4. SessionsAfter = ss
    BY <1>10 DEF SessionsAfter, Opening
  <2>5. ASSUME NEW i \in Starts(evs), Ends(evs, i) = {} PROVE ~EndedBy(event, evs[i])
    <3> SUFFICES ASSUME evs[i].host = event.host, evs[i].chan # event.chan PROVE FALSE
      BY <1>10 DEF EndedBy, Opening
    <3>1. /\ i \in 1..n /\ evs[i].kind \in Opening /\ evs[i].chan # NoChan
          /\ evs[o].kind \in Opening /\ evs[o].chan # NoChan
      BY <1>4
    <3>2. i > o \/ o > i
      BY <1>1, <2>2, <3>1
    <3>3. i \notin Ends(evs, o) /\ o \notin Ends(evs, i)
      BY <2>2, <2>5
    <3> QED BY <1>1, <2>2, <3>1, <3>2, <3>3 DEF Ends
  <2>6. Follows(ss)
    BY <1>4, <2>5
  <2> QED BY <1>2, <1>6, <2>3, <2>4, <2>6
\* and one to another channel ends the open session and starts the next.
<1>11. CASE /\ event.chan # NoChan /\ event.kind \in Opening
            /\ ~ \E k \in OpenOf(event.host) : ss[k].chan = event.chan
  <2>1. SessionsAfter = Append(Ended("switch"), Opened(event))
    BY <1>11 DEF SessionsAfter, Opening
  <2>2. ASSUME NEW i \in Starts(evs), Ends(evs, i) = {}, evs[i].host = event.host
        PROVE  evs[i].chan # event.chan
    <3>1. Rank(evs, i) \in OpenOf(event.host) /\ ss[Rank(evs, i)].chan = evs[i].chan
      BY <1>4, <2>2 DEF OpenOf
    <3> QED BY <1>11, <3>1
  <2>3. n + 1 \in Starts(ap)
    <3> SUFFICES ASSUME n + 1 \notin Starts(ap) PROVE FALSE
      OBVIOUS
    <3>1. \E i \in Starts(evs) : /\ evs[i].host = event.host /\ evs[i].chan = event.chan
                                 /\ Ends(evs, i) = {}
      BY <1>11, OpenThere
    <3> QED BY <2>2, <3>1
  <2>4. \A i \in Starts(evs) : Ends(evs, i) = {} =>
          (EndedBy(event, evs[i]) <=> evs[i].host = event.host)
    BY <1>11, <2>2 DEF EndedBy
  <2>5. event.kind # "radar"
    BY <1>11 DEF Opening
  <2>6. Ended("switch") \in Seq(Sessions) /\ Len(Ended("switch")) = Len(ss)
        /\ Follows(Ended("switch"))
    BY <1>7, <2>4, <2>5
  <2>7. Opened(event) \in Sessions
    BY DEF Opened, Events, Sessions
  <2>8. SessionFrom(ap, n + 1) = Opened(event)
    <3>1. Ends(ap, n + 1) = {}
      BY <1>1 DEF Ends
    <3> QED BY <1>1, <3>1 DEF SessionFrom, Opened
  <2> QED BY <1>6, <2>1, <2>3, <2>6, <2>7, <2>8
<1> QED BY <1>3, <1>8, <1>9, <1>10, <1>11 DEF Opening

-----------------------------------------------------------------------------
(* The sessions replay the events                                          *)

\* What is saved is a replay; in a transaction, so is what is about to be saved.  Only
\* lines of a kind become events.
Replay ==
  /\ Real(saved.events)
  /\ Replayed(saved.events, saved.sessions)
  /\ \A t \in older : Real(t.events) /\ Replayed(t.events, t.sessions)
  /\ lpc = "commit" => Replayed(tables.events, tables.sessions)
  /\ lpc # "commit" => tables.sessions = saved.sessions
  /\ lpc \in {"begin", "insert", "session", "commit"} => event.kind # "none"

\* No events, no sessions.
LEMMA ReplayInit == Init => Replay
<1> SUFFICES ASSUME Init PROVE Replay
  OBVIOUS
<1>1. saved.events = <<>> /\ saved.sessions = <<>> /\ tables.sessions = <<>> /\ lpc = "off"
  BY DEF Init, NoTables
<1>2. DOMAIN saved.events = {} /\ DOMAIN saved.sessions = {} /\ Len(saved.sessions) = 0
  BY <1>1
<1>3. Starts(saved.events) = {}
  BY <1>2 DEF Starts
<1>4. Replayed(saved.events, saved.sessions)
  BY <1>2, <1>3, FS_EmptySet DEF Replayed
<1>5. older = {}
  BY DEF Init
<1> QED BY <1>1, <1>2, <1>4, <1>5 DEF Replay, Real

\* The session is updated in the transaction of its event, which commits or rolls back
\* both.
LEMMA ReplayStep == Base /\ Replay /\ [Next]_vars => Replay'
<1> SUFFICES ASSUME Base, Replay, [Next]_vars PROVE Replay'
  OBVIOUS
<1>1. /\ saved \in Tables /\ tables \in Tables /\ event \in Events
      /\ saved.events \in Seq(Events)
  BY DEF Base, Typed, Tables
<1>0. \A t \in older' : Real(t.events) /\ Replayed(t.events, t.sessions)
  BY OlderSubset DEF Replay
<1>2. CASE /\ saved' = saved /\ tables' = tables /\ lpc' = lpc /\ event' = event
  BY <1>0, <1>2 DEF Replay
<1>3. CASE /\ saved' = saved /\ tables'.sessions = tables.sessions
           /\ lpc # "commit" /\ lpc' # "commit"
           /\ \/ event' = event /\ lpc \in {"begin", "insert", "session"}
              \/ lpc' \notin {"begin", "insert", "session"}
  BY <1>0, <1>3 DEF Replay
<1>4. CASE saved' = saved /\ tables' = saved /\ lpc' \notin {"begin", "insert", "session", "commit"}
  BY <1>0, <1>4 DEF Replay
<1>5. CASE Send \/ Lose \/ Repeat
  BY <1>2, <1>5 DEF Send, Lose, Repeat, listener
<1>6. CASE Receive \/ BeginRecord \/ InsertEvent
  BY <1>1, <1>3, <1>6 DEF Receive, BeginRecord, InsertEvent, Tables
<1>7. CASE Parse
  BY <1>0, <1>7 DEF Parse, Replay
<1>8. CASE UpdateSessions
  <2>1. /\ lpc = "session" /\ lpc' = "commit" /\ event' = event /\ saved' = saved
        /\ tables'.events = tables.events /\ tables'.sessions = SessionsAfter
    BY <1>1, <1>8 DEF UpdateSessions, Tables
  <2>2. tables.events = Append(saved.events, event) /\ tables.sessions = saved.sessions
        /\ Real(saved.events) /\ Replayed(saved.events, tables.sessions) /\ event.kind # "none"
    BY <2>1 DEF Base, Pending, Replay
  <2>3. Replayed(Append(saved.events, event), SessionsAfter)
    BY <1>1, <2>2, ReplayAppend
  <2>4. Replayed(tables.events, SessionsAfter)
    BY <2>2, <2>3
  <2>5. \A a, b : a = tables.events /\ b = SessionsAfter => Replayed(a, b)
    BY <2>4
  <2>6. Replayed(tables.events, tables.sessions)'
    BY <2>1, <2>5
  <2> QED BY <1>0, <2>1, <2>2, <2>6 DEF Replay
<1>9. CASE CommitRecord
  <2>1. /\ lpc = "commit" /\ lpc' = "csv" /\ saved' = tables /\ tables' = tables
        /\ event.kind # "none" /\ tables.events = Append(saved.events, event)
    BY <1>9 DEF CommitRecord, Commit, Replay, Base, Pending
  <2>2. Real(tables.events)
    <3>1. /\ DOMAIN tables.events = 1..(Len(saved.events) + 1) /\ Len(saved.events) \in Nat
          /\ DOMAIN saved.events = 1..Len(saved.events)
          /\ tables.events[Len(saved.events) + 1] = event
          /\ \A i \in 1..Len(saved.events) : tables.events[i] = saved.events[i]
      BY <1>1, <2>1, Appended
    <3>2. \A i \in 1..Len(saved.events) : saved.events[i].kind # "none"
      BY <3>1 DEF Replay, Real
    <3> QED BY <2>1, <3>1, <3>2 DEF Real
  <2> QED BY <1>0, <2>1, <2>2 DEF Replay
<1>10. CASE FailRecord
  BY <1>4, <1>10 DEF FailRecord
<1>11. CASE AppendCsv \/ CountEvent
  BY <1>3, <1>11 DEF AppendCsv, CountEvent
<1>12. CASE Poll \/ BeginVerdict
  BY <1>2, <1>12 DEF Poll, BeginVerdict, listener
<1>13. CASE UpdateVerdict
  <2>1. /\ saved' = saved /\ lpc' = lpc /\ event' = event
        /\ tables'.events = tables.events /\ tables'.sessions = tables.sessions
    BY <1>1, <1>13 DEF UpdateVerdict, listener, Tables
  <2> QED BY <1>0, <2>1 DEF Replay
<1>14. CASE CommitVerdict
  <2>1. /\ saved' = tables /\ tables' = tables /\ lpc' = lpc /\ event' = event
        /\ lpc \notin {"insert", "session", "commit"}
    BY <1>14 DEF CommitVerdict, Commit, listener, Base, Locked
  <2>2. tables.events = saved.events /\ tables.sessions = saved.sessions
    BY <2>1 DEF Base, Pending, Replay
  <2> QED BY <1>0, <2>1, <2>2 DEF Replay
<1>15. CASE FailVerdict
  <2>1. /\ saved' = saved /\ tables' = saved /\ lpc' = lpc /\ event' = event
        /\ lpc \notin {"insert", "session", "commit"}
    BY <1>15 DEF FailVerdict, listener, Base, Locked
  <2> QED BY <1>0, <2>1 DEF Replay
<1>16. CASE Boot
  BY <1>1, <1>3, <1>16 DEF Boot
<1>17. CASE Off
  BY <1>4, <1>17 DEF Off
<1>18. CASE UNCHANGED vars
  BY <1>2, <1>18 DEF vars, listener
<1>19. CASE PowerLoss
  <2>1. /\ saved' \in older \cup {saved} /\ tables' = saved' /\ lpc' = "off"
        /\ \A t \in older \cup {saved} : Real(t.events) /\ Replayed(t.events, t.sessions)
    BY <1>19, PowerLossEffect DEF Replay
  <2>2. Real(saved'.events) /\ Replayed(saved'.events, saved'.sessions)
    BY <2>1
  <2> QED BY <1>0, <2>1, <2>2 DEF Replay
<1> QED
  BY <1>5, <1>6, <1>7, <1>8, <1>9, <1>10, <1>11, <1>12, <1>13, <1>14, <1>15, <1>16, <1>17,
     <1>18, <1>19 DEF Next, Shutdown, Kill, Done

\* The committed sessions are those of the committed events, one for each start and in
\* their order, whatever crashes, fails or is lost in between (record, _update_sessions).
THEOREM SessionsFollowEvents == Spec => []SessionsReplayEvents
<1>1. Replay => SessionsReplayEvents
  BY DEF Replay, Replayed, Rank, SessionsReplayEvents
<1>2. Init => Replay
  BY ReplayInit
<1>3. Base /\ Replay /\ [Next]_vars => Replay'
  BY ReplayStep
<1> QED BY <1>1, <1>2, <1>3, BaseAlways, PTL DEF Spec
=============================================================================
