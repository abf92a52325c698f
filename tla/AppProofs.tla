----------------------------- MODULE AppProofs -----------------------------
(***************************************************************************)
(* Proofs about the process, for any number of log lines and any faults.   *)
(*                                                                         *)
(* The safety properties are about the end of the shutdown sequence, and   *)
(* each follows from what holds at the stages before it: Staged says which *)
(* threads and what connection a stage of the main thread goes with, Joins *)
(* what the stages behind a join may rely on, and Rows who is responsible  *)
(* for a row that is open.  With TypeOK, which ties the lock to the        *)
(* transactions, and CloseCutsNothing they are inductive.                  *)
(***************************************************************************)
EXTENDS AppProperties, TLAPS

\* What is up at a stage of the main thread.
Staged ==
  /\ conn = "none" <=> main = "off"
  /\ conn = "closed" <=> main = "return"
  /\ main \in {"off", "listen", "scheduler"} => sched = "none"
  /\ main \in {"off", "listen"} => listener = "none"
  /\ main \in {"off", "listen", "scheduler", "web"} => web = "none"
  /\ main \in Shutdown \ {"stop_web"} => web # "serve"
  /\ stop => main \in Shutdown \cup {"wait"}

\* Behind a join its thread has ended, or the join has given up on it.
Joins ==
  /\ main \in {"stop_listener", "join_listener", "close", "return"} =>
       sched \in {"none", "ended"} \/ "scheduler" \in late
  /\ main \in {"close", "return"} => listener = "ended" \/ "listener" \in late

\* A row that is open has a thread that will close it, or one that came too late, or one
\* that the database has failed.
Rows ==
  row = "open" => \/ sched \in {"credit", "watch", "end_trial", "update"}
                  \/ "scheduler" \in late \/ refused

IInv == TypeOK /\ Staged /\ Joins /\ Rows /\ CloseCutsNothing

-----------------------------------------------------------------------------
\* The invariant holds before the first boot.
LEMMA AppInit == Init => IInv
  <1> SUFFICES ASSUME Init PROVE IInv
    OBVIOUS
  <1> USE DEF Init, Shutdown, Threads, InTx
  <1>1. TypeOK
    <2>1. lines \in 0..MaxLines
      BY AppAssumption
    <2>2. QED
      BY <2>1 DEF TypeOK
  <1>2. Staged
    BY DEF Staged
  <1>3. Joins /\ Rows /\ CloseCutsNothing
    BY DEF Joins, Rows, CloseCutsNothing
  <1>4. QED
    BY <1>1, <1>2, <1>3 DEF IInv

\* A process that ends leaves every variable with its type.
LEMMA EndKeepsTypes == ASSUME TypeOK, ProcessEnds PROVE TypeOK'
  <1> USE DEF ProcessEnds, TypeOK, Shutdown, Threads, InTx
  <1>1. lines' \in 0..MaxLines
    BY AppAssumption
  <1>2. row' \in {"none", "open", "closed", "left"} /\ late' \subseteq Threads
    OBVIOUS
  <1>3. main' = "off" /\ lock' = "free" /\ stop' \in BOOLEAN /\ conn' = "none"
    OBVIOUS
  <1>4. sched' = "none" /\ listener' = "none" /\ web' = "none" /\ page' = "none" /\ refused' = FALSE
    OBVIOUS
  <1>5. QED
    BY <1>1, <1>2, <1>3, <1>4

\* A statement that fails, or meets the closed connection, ends the thread, and what
\* it leaves has its type.
LEMMA FailureEnds ==
    ASSUME TypeOK, MeetsClosed \/ DatabaseFails
    PROVE  sched' = "ended" /\ refused' \in BOOLEAN
  <1>1. sched' = "ended"
    BY DEF MeetsClosed, DatabaseFails
  <1>2. refused \in BOOLEAN
    BY DEF TypeOK
  <1>3. refused' \in BOOLEAN
    BY <1>2, Zenon DEF MeetsClosed, DatabaseFails
  <1>4. QED
    BY <1>1, <1>3

\* Every step keeps the types, and the lock with its holder.
LEMMA TypesKept == IInv /\ [Next]_vars => TypeOK'
  <1> SUFFICES ASSUME IInv, [Next]_vars PROVE TypeOK'
    OBVIOUS
  <1> USE AppAssumption DEF IInv, TypeOK, Threads, Shutdown, InTx, Staged, AppAssumption
  <1>1. CASE OpenStorage
    BY <1>1 DEF OpenStorage
  <1>2. CASE StartListener
    BY <1>2 DEF StartListener
  <1>3. CASE StartScheduler
    BY <1>3 DEF StartScheduler
  <1>4. CASE StartWeb
    BY <1>4 DEF StartWeb
  <1>5. CASE Handle
    BY <1>5 DEF Handle
  <1>6. CASE LeaveWait
    BY <1>6 DEF LeaveWait
  <1>7. CASE StopWeb
    BY <1>7 DEF StopWeb
  <1>8. CASE JoinScheduler
    BY <1>8 DEF JoinScheduler, Faulty
  <1>9. CASE StopListener
    BY <1>9 DEF StopListener
  <1>10. CASE JoinListener
    BY <1>10 DEF JoinListener, Faulty
  <1>11. CASE CloseStorage
    BY <1>11 DEF CloseStorage
  <1>12. CASE Return
    BY <1>12, EndKeepsTypes DEF Return
  <1>13. CASE Signal
    BY <1>13 DEF Signal
  <1>14. CASE BootFails
    BY <1>14, EndKeepsTypes DEF BootFails
  <1>15. CASE Kill
    BY <1>15, EndKeepsTypes DEF Kill
  <1>16. CASE NextTrial
    BY <1>16 DEF NextTrial
  <1>17. CASE CallReturns
    BY <1>17 DEF CallReturns, Faulty
  <1>18. CASE SchedBegins
    <2>1. CASE MeetsClosed \/ DatabaseFails
      BY <1>18, <2>1, FailureEnds DEF SchedBegins
    <2>2. CASE ~(MeetsClosed \/ DatabaseFails)
      BY <1>18, <2>2 DEF SchedBegins
    <2>3. QED
      BY <2>1, <2>2
  <1>19. CASE SchedCommits
    BY <1>19 DEF SchedCommits, DatabaseFails
  <1>20. CASE Watch
    BY <1>20 DEF Watch
  <1>21. CASE Receive
    BY <1>21 DEF Receive, ListenerStopped, Faulty
  <1>22. CASE ListenerBegins
    BY <1>22 DEF ListenerBegins, NextLine
  <1>23. CASE ListenerCommits
    BY <1>23 DEF ListenerCommits, NextLine
  <1>24. CASE UNCHANGED vars
    BY <1>24 DEF vars
  <1>25. CASE Begin
    BY <1>25 DEF Begin
  <1>26. CASE ReadCredit
    <2>1. CASE MeetsClosed \/ DatabaseFails
      BY <1>26, <2>1, FailureEnds DEF ReadCredit
    <2>2. CASE ~(MeetsClosed \/ DatabaseFails)
      BY <1>26, <2>2 DEF ReadCredit
    <2>3. QED
      BY <2>1, <2>2
  <1>27. CASE Page
    <2>1. main' = main /\ sched' = sched /\ listener' = listener /\ web' = web /\ stop' = stop /\ lines' = lines
      BY <1>27 DEF Page, PageBegins, PageEnds
    <2>2. lock' = lock /\ conn' = conn /\ row' = row /\ late' = late /\ refused' = refused
      BY <1>27 DEF Page, PageBegins, PageEnds
    <2>3. page' \in {"none", "busy"}
      BY <1>27 DEF Page, PageBegins, PageEnds
    <2>4. QED
      BY <2>1, <2>2, <2>3
  <1>28. QED
    BY <1>1, <1>2, <1>3, <1>4, <1>5, <1>6, <1>7, <1>8, <1>9, <1>10, <1>11, <1>12, <1>13, <1>14, <1>15, <1>16, <1>17, <1>18, <1>19, <1>20, <1>21, <1>22, <1>23, <1>24, <1>25, <1>26, <1>27 DEF Next, Main, Thread, Listen

\* Every step keeps what goes with a stage.
LEMMA StagesKept == IInv /\ [Next]_vars => Staged'
  <1> SUFFICES ASSUME IInv, [Next]_vars PROVE Staged'
    OBVIOUS
  <1> USE DEF IInv, TypeOK, Staged, Shutdown, Threads, InTx
  <1>1. CASE OpenStorage
    BY <1>1 DEF OpenStorage
  <1>2. CASE StartListener
    BY <1>2 DEF StartListener
  <1>3. CASE StartScheduler
    BY <1>3 DEF StartScheduler
  <1>4. CASE StartWeb
    BY <1>4 DEF StartWeb
  <1>5. CASE Handle
    BY <1>5 DEF Handle
  <1>6. CASE LeaveWait
    BY <1>6 DEF LeaveWait
  <1>7. CASE StopWeb
    BY <1>7 DEF StopWeb
  <1>8. CASE JoinScheduler
    BY <1>8 DEF JoinScheduler, Faulty
  <1>9. CASE StopListener
    BY <1>9 DEF StopListener
  <1>10. CASE JoinListener
    BY <1>10 DEF JoinListener, Faulty
  <1>11. CASE CloseStorage
    BY <1>11 DEF CloseStorage
  <1>12. CASE Return
    BY <1>12 DEF Return, ProcessEnds
  <1>13. CASE Signal
    BY <1>13 DEF Signal
  <1>14. CASE BootFails
    BY <1>14 DEF BootFails, ProcessEnds, Faulty
  <1>15. CASE Kill
    BY <1>15 DEF Kill, ProcessEnds, Faulty
  <1>16. CASE NextTrial
    BY <1>16 DEF NextTrial
  <1>17. CASE CallReturns
    BY <1>17 DEF CallReturns, Faulty
  <1>18. CASE SchedBegins
    BY <1>18 DEF SchedBegins, MeetsClosed, DatabaseFails
  <1>19. CASE SchedCommits
    BY <1>19 DEF SchedCommits, DatabaseFails
  <1>20. CASE Watch
    BY <1>20 DEF Watch
  <1>21. CASE Receive
    BY <1>21 DEF Receive, ListenerStopped, Faulty
  <1>22. CASE ListenerBegins
    BY <1>22 DEF ListenerBegins, NextLine
  <1>23. CASE ListenerCommits
    BY <1>23 DEF ListenerCommits, NextLine
  <1>24. CASE UNCHANGED vars
    BY <1>24 DEF vars
  <1>25. CASE Begin
    BY <1>25 DEF Begin
  <1>26. CASE ReadCredit
    BY <1>26 DEF ReadCredit, MeetsClosed, DatabaseFails
  <1>27. CASE Page
    BY <1>27 DEF Page, PageBegins, PageEnds
  <1>28. QED
    BY <1>1, <1>2, <1>3, <1>4, <1>5, <1>6, <1>7, <1>8, <1>9, <1>10, <1>11, <1>12, <1>13, <1>14, <1>15, <1>16, <1>17, <1>18, <1>19, <1>20, <1>21, <1>22, <1>23, <1>24, <1>25, <1>26, <1>27 DEF Next, Main, Thread, Listen

\* Every step keeps what holds behind a join.
LEMMA JoinsKept == IInv /\ [Next]_vars => Joins'
  <1> SUFFICES ASSUME IInv, [Next]_vars PROVE Joins'
    OBVIOUS
  <1> USE DEF IInv, TypeOK, Joins, Staged, Shutdown, Threads, InTx
  <1>1. CASE OpenStorage
    BY <1>1 DEF OpenStorage
  <1>2. CASE StartListener
    BY <1>2 DEF StartListener
  <1>3. CASE StartScheduler
    BY <1>3 DEF StartScheduler
  <1>4. CASE StartWeb
    BY <1>4 DEF StartWeb
  <1>5. CASE Handle
    BY <1>5 DEF Handle
  <1>6. CASE LeaveWait
    BY <1>6 DEF LeaveWait
  <1>7. CASE StopWeb
    BY <1>7 DEF StopWeb
  <1>8. CASE JoinScheduler
    BY <1>8 DEF JoinScheduler, Faulty
  <1>9. CASE StopListener
    BY <1>9 DEF StopListener
  <1>10. CASE JoinListener
    BY <1>10 DEF JoinListener, Faulty
  <1>11. CASE CloseStorage
    BY <1>11 DEF CloseStorage
  <1>12. CASE Return
    BY <1>12 DEF Return, ProcessEnds
  <1>13. CASE Signal
    BY <1>13 DEF Signal
  <1>14. CASE BootFails
    BY <1>14 DEF BootFails, ProcessEnds, Faulty
  <1>15. CASE Kill
    BY <1>15 DEF Kill, ProcessEnds, Faulty
  <1>16. CASE NextTrial
    BY <1>16 DEF NextTrial
  <1>17. CASE CallReturns
    BY <1>17 DEF CallReturns, Faulty
  <1>18. CASE SchedBegins
    BY <1>18 DEF SchedBegins, MeetsClosed, DatabaseFails
  <1>19. CASE SchedCommits
    BY <1>19 DEF SchedCommits, DatabaseFails
  <1>20. CASE Watch
    BY <1>20 DEF Watch
  <1>21. CASE Receive
    BY <1>21 DEF Receive, ListenerStopped, Faulty
  <1>22. CASE ListenerBegins
    BY <1>22 DEF ListenerBegins, NextLine
  <1>23. CASE ListenerCommits
    BY <1>23 DEF ListenerCommits, NextLine
  <1>24. CASE UNCHANGED vars
    BY <1>24 DEF vars
  <1>25. CASE Begin
    BY <1>25 DEF Begin
  <1>26. CASE ReadCredit
    BY <1>26 DEF ReadCredit, MeetsClosed, DatabaseFails
  <1>27. CASE Page
    BY <1>27 DEF Page, PageBegins, PageEnds
  <1>28. QED
    BY <1>1, <1>2, <1>3, <1>4, <1>5, <1>6, <1>7, <1>8, <1>9, <1>10, <1>11, <1>12, <1>13, <1>14, <1>15, <1>16, <1>17, <1>18, <1>19, <1>20, <1>21, <1>22, <1>23, <1>24, <1>25, <1>26, <1>27 DEF Next, Main, Thread, Listen

\* Every step keeps that open rows have a thread that closes them.
LEMMA RowsKept == IInv /\ [Next]_vars => Rows'
  <1> SUFFICES ASSUME IInv, [Next]_vars PROVE Rows'
    OBVIOUS
  <1> USE DEF IInv, TypeOK, Rows, Joins, Staged, Shutdown, Threads, InTx
  <1>1. CASE OpenStorage
    BY <1>1 DEF OpenStorage
  <1>2. CASE StartListener
    BY <1>2 DEF StartListener
  <1>3. CASE StartScheduler
    BY <1>3 DEF StartScheduler
  <1>4. CASE StartWeb
    BY <1>4 DEF StartWeb
  <1>5. CASE Handle
    BY <1>5 DEF Handle
  <1>6. CASE LeaveWait
    BY <1>6 DEF LeaveWait
  <1>7. CASE StopWeb
    BY <1>7 DEF StopWeb
  <1>8. CASE JoinScheduler
    BY <1>8 DEF JoinScheduler, Faulty
  <1>9. CASE StopListener
    BY <1>9 DEF StopListener
  <1>10. CASE JoinListener
    BY <1>10 DEF JoinListener, Faulty
  <1>11. CASE CloseStorage
    BY <1>11 DEF CloseStorage
  <1>12. CASE Return
    BY <1>12 DEF Return, ProcessEnds
  <1>13. CASE Signal
    BY <1>13 DEF Signal
  <1>14. CASE BootFails
    BY <1>14 DEF BootFails, ProcessEnds, Faulty
  <1>15. CASE Kill
    BY <1>15 DEF Kill, ProcessEnds, Faulty
  <1>16. CASE NextTrial
    BY <1>16 DEF NextTrial
  <1>17. CASE CallReturns
    BY <1>17 DEF CallReturns, Faulty
  <1>18. CASE SchedBegins
    <2>1. CASE DatabaseFails
      BY <1>18, <2>1, Zenon DEF SchedBegins, DatabaseFails
    <2>2. CASE MeetsClosed
      <3>1. main = "return"
        BY <1>18, <2>2 DEF SchedBegins, MeetsClosed
      <3>2. "scheduler" \in late
        BY <1>18, <3>1 DEF SchedBegins
      <3>3. QED
        BY <1>18, <3>2, Zenon DEF SchedBegins
    <2>3. CASE ~MeetsClosed /\ ~DatabaseFails
      <3>1. refused' = refused /\ row' = row /\ late' = late
        BY <1>18, <2>3, Zenon DEF SchedBegins
      <3>2. sched = "end_trial" => sched' = "update"
        BY <1>18, <2>3 DEF SchedBegins
      <3>3. sched \in {"start_trial", "end_trial"}
        BY <1>18 DEF SchedBegins
      <3>4. QED
        BY <3>1, <3>2, <3>3
    <2>4. QED
      BY <2>1, <2>2, <2>3
  <1>19. CASE SchedCommits
    BY <1>19 DEF SchedCommits, DatabaseFails
  <1>20. CASE Watch
    BY <1>20 DEF Watch
  <1>21. CASE Receive
    BY <1>21 DEF Receive, ListenerStopped, Faulty
  <1>22. CASE ListenerBegins
    BY <1>22 DEF ListenerBegins, NextLine
  <1>23. CASE ListenerCommits
    BY <1>23 DEF ListenerCommits, NextLine
  <1>24. CASE UNCHANGED vars
    BY <1>24 DEF vars
  <1>25. CASE Begin
    BY <1>25 DEF Begin
  <1>26. CASE ReadCredit
    BY <1>26 DEF ReadCredit, MeetsClosed, DatabaseFails
  <1>27. CASE Page
    BY <1>27 DEF Page, PageBegins, PageEnds
  <1>28. QED
    BY <1>1, <1>2, <1>3, <1>4, <1>5, <1>6, <1>7, <1>8, <1>9, <1>10, <1>11, <1>12, <1>13, <1>14, <1>15, <1>16, <1>17, <1>18, <1>19, <1>20, <1>21, <1>22, <1>23, <1>24, <1>25, <1>26, <1>27 DEF Next, Main, Thread, Listen

\* Every step keeps that a closed connection is in no transaction.
LEMMA CutsKept == IInv /\ [Next]_vars => CloseCutsNothing'
  <1> SUFFICES ASSUME IInv, [Next]_vars PROVE CloseCutsNothing'
    OBVIOUS
  <1> USE DEF IInv, TypeOK, CloseCutsNothing, Staged, Shutdown, Threads, InTx
  <1>1. CASE OpenStorage
    BY <1>1 DEF OpenStorage
  <1>2. CASE StartListener
    BY <1>2 DEF StartListener
  <1>3. CASE StartScheduler
    BY <1>3 DEF StartScheduler
  <1>4. CASE StartWeb
    BY <1>4 DEF StartWeb
  <1>5. CASE Handle
    BY <1>5 DEF Handle
  <1>6. CASE LeaveWait
    BY <1>6 DEF LeaveWait
  <1>7. CASE StopWeb
    BY <1>7 DEF StopWeb
  <1>8. CASE JoinScheduler
    BY <1>8 DEF JoinScheduler, Faulty
  <1>9. CASE StopListener
    BY <1>9 DEF StopListener
  <1>10. CASE JoinListener
    BY <1>10 DEF JoinListener, Faulty
  <1>11. CASE CloseStorage
    BY <1>11 DEF CloseStorage
  <1>12. CASE Return
    BY <1>12 DEF Return, ProcessEnds
  <1>13. CASE Signal
    BY <1>13 DEF Signal
  <1>14. CASE BootFails
    BY <1>14 DEF BootFails, ProcessEnds, Faulty
  <1>15. CASE Kill
    BY <1>15 DEF Kill, ProcessEnds, Faulty
  <1>16. CASE NextTrial
    BY <1>16 DEF NextTrial
  <1>17. CASE CallReturns
    BY <1>17 DEF CallReturns, Faulty
  <1>18. CASE SchedBegins
    BY <1>18 DEF SchedBegins, MeetsClosed, DatabaseFails
  <1>19. CASE SchedCommits
    BY <1>19 DEF SchedCommits, DatabaseFails
  <1>20. CASE Watch
    BY <1>20 DEF Watch
  <1>21. CASE Receive
    BY <1>21 DEF Receive, ListenerStopped, Faulty
  <1>22. CASE ListenerBegins
    BY <1>22 DEF ListenerBegins, NextLine
  <1>23. CASE ListenerCommits
    BY <1>23 DEF ListenerCommits, NextLine
  <1>24. CASE UNCHANGED vars
    BY <1>24 DEF vars
  <1>25. CASE Begin
    BY <1>25 DEF Begin
  <1>26. CASE ReadCredit
    BY <1>26 DEF ReadCredit, MeetsClosed, DatabaseFails
  <1>27. CASE Page
    BY <1>27 DEF Page, PageBegins, PageEnds
  <1>28. QED
    BY <1>1, <1>2, <1>3, <1>4, <1>5, <1>6, <1>7, <1>8, <1>9, <1>10, <1>11, <1>12, <1>13, <1>14, <1>15, <1>16, <1>17, <1>18, <1>19, <1>20, <1>21, <1>22, <1>23, <1>24, <1>25, <1>26, <1>27 DEF Next, Main, Thread, Listen

\* The stages, the joins and the open row hold in every state.
LEMMA AppInvariant == Spec => []IInv
  <1>1. IInv /\ [Next]_vars => IInv'
    BY TypesKept, StagesKept, JoinsKept, RowsKept, CutsKept DEF IInv
  <1>2. QED
    BY AppInit, <1>1, PTL DEF Spec

\* Every variable keeps its type, and the write lock is held by the thread that is in
\* a transaction and by no other, at every stage of boot and shutdown.
THEOREM LockedWhileWriting == Spec => []TypeOK
  <1>1. IInv => TypeOK
    BY DEF IInv
  <1>2. QED
    BY AppInvariant, <1>1, PTL

\* storage.close never cuts off a transaction (app.py: run, storage.py: close).
THEOREM NoCutTransaction == Spec => []CloseCutsNothing
  <1>1. IInv => CloseCutsNothing
    BY DEF IInv
  <1>2. QED
    BY AppInvariant, <1>1, PTL

\* The storage is closed when no request is accepted and no thread writes any more, but
\* for threads whose joins have given up (app.run, storage.close).
THEOREM ClosedLast == Spec => []StorageClosedLast
  <1>1. IInv => StorageClosedLast
    BY DEF IInv, Staged, Joins, Shutdown, StorageClosedLast
  <1>2. QED
    BY AppInvariant, <1>1, PTL

\* A stop in the middle of a trial closes its row, unless the scheduler came back from
\* the controller too late or the database had failed it (scheduler._run_trial).
THEOREM StopClosesRow == Spec => []CleanStopClosesRow
  <1>1. IInv => CleanStopClosesRow
    BY DEF IInv, Joins, Rows, CleanStopClosesRow
  <1>2. QED
    BY AppInvariant, <1>1, PTL

\* The listener listens as long as a trial counts what it hears.
THEOREM ListenerLast == Spec => []ListenerOutlivesScheduler
  <1>1. IInv => ListenerOutlivesScheduler
    BY DEF IInv, Joins, ListenerStopped, ListenerOutlivesScheduler
  <1>2. QED
    BY AppInvariant, <1>1, PTL
=============================================================================
