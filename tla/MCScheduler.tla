---------------------------- MODULE MCScheduler ----------------------------
(***************************************************************************)
(* Small instances of Scheduler for TLC.                                   *)
(***************************************************************************)
EXTENDS Reports

CONSTANTS A, B, C          \* three (channel, width) combinations

\* Two that overlap.
Wide   == <<36, 160>>
Narrow == <<52, 40>>
Overlapping == {Wide, Narrow}

\* transition_hour: -1, the default.
NoWindow == -1

\* The local time of the senders: UTC, an hour behind it, or an hour or two ahead.
OnTime == {0}
BehindOrOn == {-1, 0}
AroundUtc == {-1, 0, 1}
EastOfUtc == {2}

\* Strategy round_robin or wide_first and a config that does not change.
TwoPlan == {<<A, B>>}

\* Strategy shuffle, or a config edited between boots: combinations come, go
\* and change places, and one edit leaves nothing to measure.
ChangingPlans == {<<A, B, C>>, <<C, A>>, <<>>}
=============================================================================
