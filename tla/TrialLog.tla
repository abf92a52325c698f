------------------------------ MODULE TrialLog ------------------------------
(***************************************************************************)
(* What the scheduler promises about the `trials` table, whatever the     *)
(* controller, the AP, the syslog traffic and the process itself do.  The *)
(* table is an append-only journal.  Every row is for the combination      *)
(* that is due next according to the row before it, a row is closed at     *)
(* most once and only while it is the last one, and a closed row counts    *)
(* radar exactly when its verdict is "radar".                              *)
(***************************************************************************)
EXTENDS Integers, Sequences, Functions

CONSTANTS Orders,       \* the plans (sequences of combinations) a boot may build
          NoTime        \* `ended` of a row that is still open (SQL NULL)

VARIABLES trials,       \* the table, in rowid order
          clock         \* the server's wall clock

vars == <<trials, clock>>

Last(log) == log[Len(log)]

Verdicts == {"radar", "dwell_complete", "interrupted", "apply_failed"}

\* Verdicts after which the same combination is due again: a row cut short
\* by a stop, and a row left open by a process that died.
Unfinished == {"null", "interrupted"}

\* The next combination of plan o after c, cyclically.
After(o, c) == LET k == CHOOSE i \in DOMAIN o : o[i] = c
               IN  o[IF k = Len(o) THEN 1 ELSE k + 1]

\* The combination due next under plan o when the table holds log.
Due(o, log) ==
  IF log = <<>> \/ Last(log).combo \notin Range(o) THEN o[1]
  ELSE IF Last(log).by \in Unfinished THEN Last(log).combo
  ELSE After(o, Last(log).combo)

OpenRow ==
  /\ \E o \in Orders :
        /\ o # <<>>
        /\ trials' = Append(trials, [combo |-> Due(o, trials), started |-> clock,
                                     ended |-> NoTime, by |-> "null", radar |-> 0])
  /\ UNCHANGED clock

CloseRow ==
  /\ trials # <<>>
  /\ Last(trials).by = "null"
  /\ LET row == trials'[Len(trials)] IN
       /\ row.by \in Verdicts
       /\ row.radar \in Nat
       /\ (row.by = "radar") <=> (row.radar > 0)
       /\ trials' = [trials EXCEPT ![Len(trials)] =
                        [@ EXCEPT !.ended = clock, !.by = row.by, !.radar = row.radar]]
  /\ UNCHANGED clock

TimePasses == clock' \in Nat /\ clock' > clock /\ UNCHANGED trials

Init == trials = <<>> /\ clock = 0

Next == OpenRow \/ CloseRow \/ TimePasses

Spec == Init /\ [][Next]_vars
=============================================================================
