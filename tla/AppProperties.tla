--------------------------- MODULE AppProperties ---------------------------
(***************************************************************************)
(* What a shutdown of the process promises.                                *)
(***************************************************************************)
EXTENDS App

Threads == {"scheduler", "listener"}

\* Every variable has its type, and the write lock is held by the thread that is in a
\* transaction, and by no other.
TypeOK ==
  /\ main \in {"off", "listen", "scheduler", "web", "signals", "wait"} \cup Shutdown
  /\ sched \in {"none", "begin", "idle", "call", "start_trial", "credit", "watch", "end_trial", "ended"} \cup InTx
  /\ listener \in {"none", "receive", "lock", "insert", "ended"}
  /\ web \in {"none", "serve", "ended"}
  /\ page \in {"none", "busy"} /\ stop \in BOOLEAN /\ refused \in BOOLEAN
  /\ lines \in 0..MaxLines
  /\ lock \in {"free"} \cup Threads
  /\ conn \in {"none", "open", "closed"}
  /\ row \in {"none", "open", "closed", "left"}
  /\ late \subseteq Threads
  /\ lock = "scheduler" <=> sched \in InTx
  /\ lock = "listener" <=> listener = "insert"

\* storage.close waits for the lock, so it never cuts off a transaction, also not one
\* of a thread whose join has given up.
CloseCutsNothing == conn = "closed" => sched \notin InTx /\ listener # "insert"

\* The storage is closed last: the server has stopped, so that no request meets the
\* closed storage but one that was in progress before, and the two threads that write
\* have ended or have used up their joins (app.run; web.stop joins no request).
StorageClosedLast ==
  conn = "closed" =>
    /\ web # "serve"
    /\ sched \in {"none", "ended"} \/ "scheduler" \in late
    /\ listener = "ended" \/ "listener" \in late

\* README "Restart / rebuild safety": a stop in the middle of a trial closes its row
\* before run() returns.  A row is left open only by a scheduler that did not come back
\* from its controller calls in time, which then opened it after the stop, or by one
\* that an error of the database ended behind start_trial.
CleanStopClosesRow == main = "return" /\ row = "open" => "scheduler" \in late \/ refused

\* The listener is told to stop after the scheduler: up to its last count a trial sees
\* the radar that is reported.
ListenerOutlivesScheduler ==
  ListenerStopped => sched \in {"none", "ended"} \/ "scheduler" \in late

\* A stop ends the process, whoever holds the lock or waits for it.
StopEndsProcess == stop ~> (main = "off")
=============================================================================
