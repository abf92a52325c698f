-------------------------------- MODULE App --------------------------------
(***************************************************************************)
(* The process (src/fjord_radar/app.py): the main thread, which brings the *)
(* storage, the listener, the scheduler and the web server up, waits for a *)
(* signal and takes them down again in another order, while the threads    *)
(* run and share one connection under one write lock.  Scheduler takes a   *)
(* boot and a shutdown as single steps; here they are not.                 *)
(*                                                                         *)
(* main is the next call of run(): "off" before Storage(), then "listen",  *)
(* "scheduler", "web", "signals", "wait", and for the shutdown sequence    *)
(* "stop_web", "join_scheduler", "stop_listener", "join_listener",         *)
(* "close", "return".  The other threads are reduced to what a shutdown    *)
(* meets: calls of the controller, waits for the lock, transactions, reads *)
(* of the database, and loops that test their stop flags.                  *)
(***************************************************************************)
EXTENDS Naturals

CONSTANTS MaxLines,     \* bound: log lines that reach one process
          Faults        \* which of FaultKinds may happen

\* bind: a socket is taken, the start of the listener or the web server raises.
\* net: there is no login, or a controller call raises what nobody catches.  parse:
\* parse() raises, for a Feb 29 that is moved to the year before.  slow: a thread
\* takes longer than a join waits.  db: sqlite raises in the scheduler.  kill: SIGKILL
\* while the machine stays up, or a signal before the handlers are installed.
FaultKinds == {"bind", "net", "parse", "slow", "db", "kill"}

ASSUME AppAssumption == MaxLines \in Nat /\ Faults \subseteq FaultKinds

VARIABLES main,      \* the main thread
          sched,     \* the scheduler thread
          listener,  \* the listener thread
          web,       \* the thread of the web server, which accepts the requests
          page,      \* a request, answered by a daemon thread of its own
          stop,      \* the shared stop event
          lines,     \* log lines the listener has taken
          lock,      \* who holds the write lock
          conn,      \* the connection
          row,       \* the newest row of trials, "left" open by an earlier process
          late,      \* the threads a join gave up on
          refused    \* a database error ended the scheduler and left its row open

vars == <<main, sched, listener, web, page, stop, lines, lock, conn, row, late, refused>>

Faulty(f) == f \in Faults

InTx == {"insert", "update"}

\* The sequence after the handlers are installed.
Shutdown == {"stop_web", "join_scheduler", "stop_listener", "join_listener", "close", "return"}

\* SyslogListener._stop is set by listener.stop.
ListenerStopped == main \in {"join_listener", "close", "return"}

-----------------------------------------------------------------------------
(* The main thread                                                         *)

Init ==
  /\ main = "off" /\ sched = "none" /\ listener = "none" /\ web = "none"
  /\ stop = FALSE /\ lines = 0 /\ lock = "free" /\ conn = "none"
  /\ row = "none" /\ late = {} /\ page = "none" /\ refused = FALSE

\* The threads are daemons: they go where they stand, an open transaction with them.
ProcessEnds ==
  /\ main' = "off" /\ sched' = "none" /\ listener' = "none" /\ web' = "none"
  /\ stop' = FALSE /\ lines' = 0 /\ lock' = "free" /\ conn' = "none"
  /\ row' = IF row = "open" THEN "left" ELSE row
  /\ late' = {} /\ page' = "none" /\ refused' = FALSE

OpenStorage ==
  /\ main = "off"
  /\ main' = "listen" /\ conn' = "open"
  /\ UNCHANGED <<sched, listener, web, stop, lines, lock, row, late, page, refused>>

StartListener ==
  /\ main = "listen"
  /\ main' = "scheduler" /\ listener' = "receive"
  /\ UNCHANGED <<sched, web, stop, lines, lock, conn, row, late, page, refused>>

\* scan.enabled or not; the country is asked for first, and no error of that matters.
StartScheduler ==
  /\ main = "scheduler"
  /\ main' = "web" /\ sched' \in {"none", "begin"}
  /\ UNCHANGED <<listener, web, stop, lines, lock, conn, row, late, page, refused>>

StartWeb ==
  /\ main = "web"
  /\ main' = "signals" /\ web' \in {"none", "serve"}
  /\ UNCHANGED <<sched, listener, stop, lines, lock, conn, row, late, page, refused>>

\* An exception of run() before its try statement: there is no shutdown sequence.
BootFails == Faulty("bind") /\ main \in {"listen", "web"} /\ ProcessEnds

Handle ==
  /\ main = "signals"
  /\ main' = "wait"
  /\ UNCHANGED <<sched, listener, web, stop, lines, lock, conn, row, late, page, refused>>

\* SIGTERM or SIGINT
Signal ==
  /\ main = "wait" /\ ~stop
  /\ stop' = TRUE
  /\ UNCHANGED <<main, sched, listener, web, lines, lock, conn, row, late, page, refused>>

LeaveWait ==
  /\ main = "wait" /\ stop
  /\ main' = "stop_web"
  /\ UNCHANGED <<sched, listener, web, stop, lines, lock, conn, row, late, page, refused>>

\* Mutant: the scheduler is not joined.
StopWebOnly ==
  /\ main = "stop_web"
  /\ main' = "stop_listener" /\ web' = IF web = "none" THEN "none" ELSE "ended"
  /\ UNCHANGED <<sched, listener, stop, lines, lock, conn, row, late, page, refused>>

\* The server stops accepting requests; those in progress go on.
StopWeb ==
  /\ main = "stop_web"
  /\ main' = "join_scheduler" /\ web' = IF web = "none" THEN "none" ELSE "ended"
  /\ UNCHANGED <<sched, listener, stop, lines, lock, conn, row, late, page, refused>>

\* scheduler.join(10): a controller call alone may take ten seconds, and there are
\* up to three of them, with logins, between two tests of the stop event.
JoinScheduler ==
  /\ main = "join_scheduler"
  /\ \/ sched \in {"none", "ended"} /\ UNCHANGED late
     \/ Faulty("slow") /\ sched \in {"begin", "call"} /\ late' = late \cup {"scheduler"}
  /\ main' = "stop_listener"
  /\ UNCHANGED <<sched, listener, web, stop, lines, lock, conn, row, page, refused>>

StopListener ==
  /\ main = "stop_listener"
  /\ main' = "join_listener"
  /\ UNCHANGED <<sched, listener, web, stop, lines, lock, conn, row, late, page, refused>>

\* Mutant: listener.stop closes the socket and does not wait for the thread.
ListenerUnjoined ==
  /\ main = "join_listener"
  /\ main' = "close"
  /\ UNCHANGED <<sched, listener, web, stop, lines, lock, conn, row, late, page, refused>>

\* The join(5) of listener.stop: the thread tests the flag between datagrams, not
\* between the lines of one.
JoinListener ==
  /\ main = "join_listener"
  /\ \/ listener = "ended" /\ UNCHANGED late
     \/ Faulty("slow") /\ listener \in {"lock", "insert"} /\ late' = late \cup {"listener"}
  /\ main' = "close"
  /\ UNCHANGED <<sched, listener, web, stop, lines, lock, conn, row, page, refused>>

\* Mutant: storage.close does not take the write lock.
CloseUnlocked ==
  /\ main = "close"
  /\ main' = "return" /\ conn' = "closed"
  /\ UNCHANGED <<sched, listener, web, stop, lines, lock, row, late, page, refused>>

\* storage.close waits for the write lock.
CloseStorage ==
  /\ main = "close" /\ lock = "free"
  /\ main' = "return" /\ conn' = "closed"
  /\ UNCHANGED <<sched, listener, web, stop, lines, lock, row, late, page, refused>>

Return == main = "return" /\ ProcessEnds

Kill == Faulty("kill") /\ main # "off" /\ ProcessEnds

-----------------------------------------------------------------------------
(* The scheduler thread                                                    *)

\* _run before its loop: reads of the database and the first login.
Begin ==
  /\ sched = "begin"
  /\ \/ conn = "open" /\ sched' = "idle"
     \/ (conn # "open" \/ Faulty("net") \/ Faulty("db")) /\ sched' = "ended"
  /\ UNCHANGED <<main, listener, web, stop, lines, lock, conn, row, late, page, refused>>

\* The loop of _run: "idle" is its top with the sleeps before it, "call" the
\* controller calls of one apply.
NextTrial ==
  /\ sched = "idle"
  /\ sched' = IF stop THEN "ended" ELSE "call"
  /\ UNCHANGED <<main, listener, web, stop, lines, lock, conn, row, late, page, refused>>

CallReturns ==
  /\ sched = "call"
  /\ sched' = "start_trial" \/ (Faulty("net") /\ sched' = "ended")
  /\ UNCHANGED <<main, listener, web, stop, lines, lock, conn, row, late, page, refused>>

\* A statement raises, and nobody catches it.
DatabaseFails ==
  Faulty("db") /\ conn = "open" /\ sched' = "ended" /\ refused' = (row = "open")

\* On a connection that was closed every statement does.
MeetsClosed == conn # "open" /\ sched' = "ended" /\ UNCHANGED refused

\* start_trial and end_trial: BEGIN under the lock.
SchedBegins ==
  /\ sched \in {"start_trial", "end_trial"} /\ lock = "free"
  /\ \/ /\ conn = "open" /\ lock' = "scheduler" /\ UNCHANGED refused
        /\ sched' = IF sched = "start_trial" THEN "insert" ELSE "update"
     \/ (MeetsClosed \/ DatabaseFails) /\ UNCHANGED lock
  /\ UNCHANGED <<main, listener, web, stop, lines, conn, row, late, page>>

\* COMMIT, or ROLLBACK and raise.  The row of a failed apply is closed at once.  An
\* exception that ended the poll goes on behind the finally clause.
SchedCommits ==
  /\ sched \in InTx /\ lock' = "free"
  /\ \/ /\ sched = "insert" /\ sched' \in {"credit", "end_trial"}
        /\ row' = "open" /\ UNCHANGED refused
     \/ /\ sched = "update" /\ (sched' = "idle" \/ (Faulty("db") /\ sched' = "ended"))
        /\ row' = "closed" /\ UNCHANGED refused
     \/ DatabaseFails /\ UNCHANGED row
  /\ UNCHANGED <<main, listener, web, stop, lines, conn, late, page>>

\* prior_interrupted_hours, before the try statement whose finally closes the row.
ReadCredit ==
  /\ sched = "credit"
  /\ \/ conn = "open" /\ sched' = "watch" /\ UNCHANGED refused
     \/ MeetsClosed \/ DatabaseFails
  /\ UNCHANGED <<main, listener, web, stop, lines, lock, conn, row, late, page>>

\* Mutant: the thread returns from its poll loop without the finally clause.
WatchAbandoned ==
  /\ sched = "watch"
  /\ sched' = IF stop THEN "ended" ELSE "end_trial"
  /\ UNCHANGED <<main, listener, web, stop, lines, lock, conn, row, late, page, refused>>

\* The poll loop ends, with a stop or without, or an exception ends it: a count on
\* a closed connection is one.  The finally clause runs in each case.
Watch ==
  /\ sched = "watch"
  /\ sched' = "end_trial"
  /\ UNCHANGED <<main, listener, web, stop, lines, lock, conn, row, late, page, refused>>

-----------------------------------------------------------------------------
(* The listener thread                                                     *)

\* A datagram with a line parse() recognises; on a closed socket recvfrom raises.
Receive ==
  /\ listener = "receive"
  /\ \/ ListenerStopped /\ listener' = "ended" /\ UNCHANGED lines
     \/ /\ ~ListenerStopped /\ lines < MaxLines /\ lines' = lines + 1
        /\ listener' = "lock" \/ (Faulty("parse") /\ listener' = "ended")
  /\ UNCHANGED <<main, sched, web, stop, lock, conn, row, late, page, refused>>

\* The next line of the datagram, or the end of it.
NextLine ==
  \/ lines < MaxLines /\ lines' = lines + 1 /\ listener' = "lock"
  \/ listener' = "receive" /\ UNCHANGED lines

\* storage.record; its exceptions are logged.
ListenerBegins ==
  /\ listener = "lock" /\ lock = "free"
  /\ IF conn = "open" THEN lock' = "listener" /\ listener' = "insert" /\ UNCHANGED lines
     ELSE NextLine /\ UNCHANGED lock
  /\ UNCHANGED <<main, sched, web, stop, conn, row, late, page, refused>>

\* Mutant: a transaction that fails keeps the lock.
CommitKeepingLock ==
  /\ listener = "insert"
  /\ lock' \in {"free", "listener"}
  /\ NextLine
  /\ UNCHANGED <<main, sched, web, stop, conn, row, late, page, refused>>

\* COMMIT or ROLLBACK, and the lock is released.
ListenerCommits ==
  /\ listener = "insert"
  /\ lock' = "free"
  /\ NextLine
  /\ UNCHANGED <<main, sched, web, stop, conn, row, late, page, refused>>

-----------------------------------------------------------------------------
(* The pages                                                               *)

\* Every request is answered by a thread that nobody joins, and that reads the
\* database without the lock.  Here one stands for all in progress.
PageBegins ==
  /\ web = "serve" /\ page = "none"
  /\ page' = "busy"
  /\ UNCHANGED <<main, sched, listener, web, stop, lines, lock, conn, row, late, refused>>

\* With an error, if the connection was closed.
PageEnds ==
  /\ page = "busy"
  /\ page' = "none"
  /\ UNCHANGED <<main, sched, listener, web, stop, lines, lock, conn, row, late, refused>>

-----------------------------------------------------------------------------
Main ==
  \/ StartListener \/ StartScheduler \/ StartWeb \/ Handle
  \/ LeaveWait \/ StopWeb \/ JoinScheduler \/ StopListener \/ JoinListener
  \/ CloseStorage \/ Return

Thread == Begin \/ NextTrial \/ CallReturns \/ SchedBegins \/ SchedCommits \/ ReadCredit \/ Watch

Listen == Receive \/ ListenerBegins \/ ListenerCommits

Page == PageBegins \/ PageEnds

Next == OpenStorage \/ Main \/ Signal \/ BootFails \/ Kill \/ Thread \/ Listen \/ Page

Spec == Init /\ [][Next]_vars

\* Threads that can run do; a controller call has a time-out.
FairSpec == Spec /\ WF_vars(Main) /\ WF_vars(Thread) /\ WF_vars(Listen)
=============================================================================
