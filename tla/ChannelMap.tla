----------------------------- MODULE ChannelMap -----------------------------
(***************************************************************************)
(* The dashboard's channel map (src/fjord_radar/web.py): which blocks of   *)
(* channels get a cell, band by band, and which colour a cell has, for a   *)
(* configuration, a regulatory domain and what was observed on the         *)
(* combination: "nothing" yet, "quiet" hours, or "radar".                  *)
(***************************************************************************)
EXTENDS Planner

\* _DFS_CHANNELS
Dfs == Range4(52, 64) \cup Range4(100, 144)

\* _REGULATORY_DB: the channels that may be used in a regulatory domain; a country that
\* is not listed is shown like the United States.
Domains == {"EU", "JP", "UK", "AU", "US"}

ChannelsFor(domain) ==
  CASE domain \in {"EU", "JP"} -> Range4(36, 64) \cup Range4(100, 140)
    [] domain \in {"UK", "AU"} -> Range4(36, 64) \cup Range4(100, 144) \cup Range4(149, 165)
    [] domain = "US"           -> Range4(36, 64) \cup Range4(100, 144) \cup Range4(149, 177)

\* The channels of the entries of _BAND_DEFS
Bands == {Range4(36, 64), Range4(100, 144), Range4(149, 165), Range4(169, 177)}

\* Blocks of a width that lie in one band; others are shown as N/A.
Cells(w) ==
  IF w = 20 THEN {<<c>> : c \in UNION Bands}
  ELSE {g \in GroupsOf(w) : \E b \in Bands : Range(g) \subseteq b}

\* Mutant: whether a cell is dashed is read from the 20 MHz row of the plan.
ColourByNarrowPlan(ch, dfs, seen) ==
  IF ~dfs THEN "nondfs" ELSE IF <<ch, 20>> \notin BuildTrials THEN "off" ELSE seen

\* _cell_color of a cell whose channels are all available: "off", as if nothing had
\* been measured, when the primary channel is not in the scan pool.
Colour(ch, dfs, seen) ==
  IF ~dfs THEN "nondfs" ELSE IF ch \notin channels THEN "off" ELSE seen

\* _make_cell
CellOf(g, available, seen) ==
  IF ~(Range(g) \subseteq available) THEN "unavailable"
  ELSE Colour(Head(g), Range(g) \cap Dfs # {}, seen)

\* The class ch-blacklisted, a dashed border: the primary channel alone decides.
Dashed(g, available) ==
  /\ Range(g) \subseteq available /\ Range(g) \cap Dfs # {}
  /\ Head(g) \notin channels \/ Head(g) \in blacklistChannels

-----------------------------------------------------------------------------
(* What the plan and the map promise                                       *)

\* The plan holds exactly the combinations 802.11 knows whose channels are all in the
\* pool and none of them blacklisted (the three hand-written tables of planner.py), and
\* a number that is no 5 GHz channel at 20 MHz only.
PlanIsWhatFits ==
  BuildTrials = {t \in channels \X widths :
                   /\ IF t[1] \in All5 THEN Aligned(t[1], t[2]) ELSE t[2] = 20
                   /\ t \notin blacklistCombos
                   /\ Block(t[1], t[2]) \subseteq channels
                   /\ Block(t[1], t[2]) \cap blacklistChannels = {}}

\* README.md: the map shows every DFS-eligible combination.  A planned combination that
\* may be used and needs DFS has a cell, with what was observed on it: nothing the
\* scheduler measures is missing, greyed out or dashed.
PlannedIsShown ==
  \A domain \in Domains, w \in widths : \A g \in GroupsOf(w) :
    LET available == ChannelsFor(domain)
    IN  <<Head(g), w>> \in BuildTrials /\ Range(g) \subseteq available /\ Range(g) \cap Dfs # {} =>
          /\ g \in Cells(w) /\ ~Dashed(g, available)
          /\ \A seen \in {"nothing", "quiet", "radar"} : CellOf(g, available, seen) = seen
=============================================================================
