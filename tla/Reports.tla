------------------------------ MODULE Reports ------------------------------
(***************************************************************************)
(* What is shown of the trials table: trial_stats (storage.py), which the  *)
(* dashboard asks at any moment, the same query of the command line report *)
(* (report.py), and the sums per 20 MHz channel of /api/channel_map        *)
(* (web.py).  A combination is <<channel, width>>.                         *)
(***************************************************************************)
EXTENDS SchedulerProperties, Channels

\* Mutant: COALESCE the other way round.
HoursToNow(row) == clock - row.started

\* ended_at, or now for a row that is open.
Hours(row) == IF row.ended = NoTime THEN clock - row.started ELSE row.ended - row.started

Sum(f) == SumFunction(f)

RowsOf(c) == {i \in Rows : trials[i].combo = c}

\* One group of the SELECT.
StatsOf(c) ==
  [hours      |-> Sum([i \in RowsOf(c) |-> Hours(trials[i])]),
   detections |-> Sum([i \in RowsOf(c) |-> trials[i].radar]),
   clean      |-> Cardinality({i \in RowsOf(c) : trials[i].by = "dwell_complete"})]

TrialStats == [c \in {trials[i].combo : i \in Rows} |-> StatsOf(c)]

\* Mutant: hours count for the primary channel only.
PrimaryOnly(c) == {c[1]}

\* _aggregate_by_subchannel: the channels a combination covers.
Covered(c) ==
  LET groups == CASE c[2] = 40  -> Groups40
                  [] c[2] = 80  -> Groups80
                  [] c[2] = 160 -> Groups160
                  [] OTHER      -> {}
      group  == {g \in groups : g[1] = c[1]}
  IN  IF group = {} THEN {c[1]} ELSE UNION {Range(g) : g \in group}

\* For each channel, the combinations that cover it.
Covering == [ch \in All5 |-> {c \in Combos : ch \in Covered(c)}]

BySubchannel ==
  LET stats == TrialStats
  IN  [ch \in All5 |->
        LET over == Covering[ch] \cap DOMAIN stats
        IN  [hours |-> Sum([c \in over |-> stats[c].hours]),
             radar |-> Sum([c \in over |-> stats[c].detections])]]

-----------------------------------------------------------------------------
(* What the figures promise                                                *)

\* Left open by a thread or a process that died.
Ghost(i) == trials[i].by = "null" /\ ~(i = tid /\ pc \in Watching \cup {"fail_close"})

\* All hours shown, the ghosts' apart, fit into the time that has passed: nothing is
\* counted twice, by a row that is open while others are closed or for interrupted
\* pieces.  A ghost's hours go on for ever, which dilutes the mean time between
\* detections (COALESCE(ended_at, now)).
HoursAccounted ==
  LET stats == TrialStats
  IN  Sum([c \in DOMAIN stats |-> stats[c].hours])
            - Sum([i \in {i \in Rows : Ghost(i)} |-> Hours(trials[i])]) <= clock

\* Each clean trial shown is backed by a whole dwell of hours shown for the same
\* combination: no interrupted hour is credited to two of them.
CleanTrialsBacked ==
  LET stats == TrialStats
  IN  \A c \in DOMAIN stats : stats[c].hours >= stats[c].clean * Dwell

\* The hours of a channel are those of the rows whose 802.11 block contains it.
Spanning == [ch \in All5 |-> {c \in Combos : ch \in Block(c[1], c[2])}]

SubchannelSums ==
  LET sums == BySubchannel
  IN  \A ch \in All5 :
        LET over == {i \in Rows : trials[i].combo \in Spanning[ch]}
        IN  /\ sums[ch].hours = Sum([i \in over |-> Hours(trials[i])])
            /\ sums[ch].radar = Sum([i \in over |-> trials[i].radar])

\* The hours shown of a combination never go down, whether its row is open, closed or
\* orphaned when they are asked for.
HoursOnlyGrow ==
  [][\A c \in {trials[i].combo : i \in Rows} : StatsOf(c)'.hours >= StatsOf(c).hours]_vars
=============================================================================
