--------------------------- MODULE PlannerProofs ---------------------------
(***************************************************************************)
(* Machine-checked proofs about the plan and the channel map, for every    *)
(* pool, every blacklist and every history of edits.                       *)
(***************************************************************************)
EXTENDS ChannelMap, DataLemmas

\* The widths build_trials knows.
Widths == {20, 40, 80, 160}

\* What the file lists, once it is loaded.
ConfigInv == channels \subseteq Int /\ widths \subseteq Widths

\* An edit leaves a configuration that can be loaded.
LEMMA ConfigInvariance == Spec => []ConfigInv
<1>1. Init => ConfigInv
  BY ConfigAssumption DEF Init, ConfigInv, Widths
<1>2. ConfigInv /\ [Next]_config => ConfigInv'
  BY ConfigAssumption
  DEF ConfigInv, Widths, Next, EditPool, EditWidths, EditBlacklist, Flip, config
<1> QED BY <1>1, <1>2, PTL DEF Spec

-----------------------------------------------------------------------------
(* The plan                                                                *)

\* The tables' groups of a width are the 802.11 blocks, by their first channels.
LEMMA GroupsAreBlocks ==
  ASSUME ConfigInv, NEW w \in {40, 80, 160}
  PROVE  /\ \A g \in GroupsOf(w) : Head(g) \in Heads(w) /\ Range(g) = Block(Head(g), w)
         /\ \A c \in Heads(w) : \E g \in GroupsOf(w) : Head(g) = c
<1>1. CASE w = 40
  BY <1>1, TablesAreBlocks DEF GroupsOf
<1>2. CASE w = 80
  BY <1>2, TablesAreBlocks DEF GroupsOf
<1>3. CASE w = 160
  BY <1>3, TablesAreBlocks DEF GroupsOf
<1> QED BY <1>1, <1>2, <1>3

\* At 20 MHz they are the channels that may be used, one by one.
LEMMA SinglesAreBlocks ==
  ASSUME ConfigInv
  PROVE  /\ \A g \in GroupsOf(20) :
              /\ Head(g) \in Allowed /\ Range(g) = {Head(g)} /\ Range(g) = Block(Head(g), 20)
              /\ g = <<Head(g)>>
         /\ \A c \in Allowed : \E g \in GroupsOf(20) : Head(g) = c
<1>1. GroupsOf(20) = {<<c>> : c \in Allowed}
  BY DEF GroupsOf
<1>2. ASSUME NEW c \in Allowed
      PROVE  Head(<<c>>) = c /\ Range(<<c>>) = {c} /\ Block(c, 20) = {c}
  <2>1. c \in Int
    BY DEF ConfigInv, Allowed
  <2>2. DOMAIN <<c>> = {1} /\ <<c>>[1] = c
    OBVIOUS
  <2> QED BY <2>1, <2>2, BlockNames DEF Range
<1> QED BY <1>1, <1>2

\* Which channels of a width the tables let in.
LEMMA PrimariesThatFit ==
  ASSUME ConfigInv, NEW w \in Widths, NEW c
  PROVE  (\E g \in GroupsOf(w) : Fits(g) /\ Head(g) = c)
           <=> /\ c \in channels /\ Block(c, w) \subseteq Allowed
               /\ IF c \in All5 THEN Aligned(c, w) ELSE w = 20
<1>1. CASE w = 20
  <2>1. c \in channels => Block(c, w) = {c}
    BY <1>1, BlockNames DEF ConfigInv
  <2>2. c \in All5 => Aligned(c, w)
    BY <1>1, AlignedHeads DEF Heads
  <2>3. (\E g \in GroupsOf(w) : Fits(g) /\ Head(g) = c) <=> c \in Allowed
    BY <1>1, SinglesAreBlocks DEF Fits
  <2> QED BY <1>1, <2>1, <2>2, <2>3 DEF Allowed
<1>2. CASE w \in {40, 80, 160}
  <2>1. /\ \A g \in GroupsOf(w) : Head(g) \in Heads(w) /\ Range(g) = Block(Head(g), w)
        /\ \A d \in Heads(w) : \E g \in GroupsOf(w) : Head(g) = d
    BY <1>2, GroupsAreBlocks
  <2>2. Aligned(c, w) <=> c \in Heads(w)
    BY <1>2, AlignedHeads
  <2>3. c \in Heads(w) => c \in All5 /\ c \in Block(c, w)
    BY <1>2, HeadsAre5GHz, BlockNames
  <2> QED BY <1>2, <2>1, <2>2, <2>3 DEF Fits, Allowed
<1> QED BY <1>1, <1>2 DEF Widths

\* The plan holds exactly the combinations that fit.
THEOREM PlanFits == Spec => []PlanIsWhatFits
<1>1. ConfigInv => PlanIsWhatFits
  <2> SUFFICES ASSUME ConfigInv
               PROVE  PlanIsWhatFits
    OBVIOUS
  <2>1. ASSUME NEW t
        PROVE  t \in BuildTrials
                 <=> /\ t \notin blacklistCombos
                     /\ \E w \in widths : \E g \in GroupsOf(w) : Fits(g) /\ t = <<Head(g), w>>
    <3> DEFINE row(w) == {<<Head(g), w>> : g \in {g \in GroupsOf(w) : Fits(g)}}
               all == UNION {row(w) : w \in widths}
    <3>1. t \in BuildTrials <=> t \in all /\ t \notin blacklistCombos
      BY DEF BuildTrials
    <3>2. \A w : t \in row(w) <=> \E g \in GroupsOf(w) : Fits(g) /\ t = <<Head(g), w>>
      OBVIOUS
    <3> HIDE DEF row
    <3>3. t \in all <=> \E w \in widths : t \in row(w)
      OBVIOUS
    <3> HIDE DEF all
    <3>4. t \in BuildTrials <=> t \notin blacklistCombos /\ \E w \in widths : t \in row(w)
      BY <3>1, <3>3
    <3> QED BY <3>2, <3>4
  <2>2. ASSUME NEW t \in channels \X widths
        PROVE  t \in BuildTrials
                 <=> /\ IF t[1] \in All5 THEN Aligned(t[1], t[2]) ELSE t[2] = 20
                     /\ t \notin blacklistCombos
                     /\ Block(t[1], t[2]) \subseteq Allowed
    <3>1. t = <<t[1], t[2]>> /\ t[1] \in channels /\ t[2] \in widths /\ t[2] \in Widths
      BY DEF ConfigInv
    <3>2. (\E w \in widths : \E g \in GroupsOf(w) : Fits(g) /\ t = <<Head(g), w>>)
            <=> \E g \in GroupsOf(t[2]) : Fits(g) /\ Head(g) = t[1]
      BY <3>1
    <3> QED BY <2>1, <3>1, <3>2, PrimariesThatFit
  <2>3. BuildTrials \subseteq channels \X widths
    <3> SUFFICES ASSUME NEW w \in widths, NEW g \in GroupsOf(w), Fits(g)
                 PROVE  Head(g) \in channels
      BY <2>1
    <3> QED BY PrimariesThatFit DEF ConfigInv
  <2>4. \A S : S \subseteq Allowed <=> S \subseteq channels /\ S \cap blacklistChannels = {}
    BY DEF Allowed
  <2> QED BY <2>2, <2>3, <2>4 DEF PlanIsWhatFits
<1> QED BY <1>1, ConfigInvariance, PTL

\* Every plan is made of combinations the dashboard can attribute to their channels: the
\* hypothesis of ChannelsGetTheirRows in ReportsProofs.
THEOREM PlansAreCombinations == Spec => [](\A t \in BuildTrials : IsCombination(t))
<1>1. ConfigInv /\ PlanIsWhatFits => \A t \in BuildTrials : IsCombination(t)
  <2> SUFFICES ASSUME ConfigInv, PlanIsWhatFits, NEW t \in BuildTrials
               PROVE  IsCombination(t)
    OBVIOUS
  <2>1. /\ t[1] \in channels /\ t[2] \in widths
        /\ IF t[1] \in All5 THEN Aligned(t[1], t[2]) ELSE t[2] = 20
    BY DEF PlanIsWhatFits
  <2> QED BY <2>1 DEF IsCombination, ConfigInv, Widths
<1> QED BY <1>1, PlanFits, ConfigInvariance, PTL

-----------------------------------------------------------------------------
(* The channel map                                                         *)

\* A block that needs DFS lies in one band of the map.
LEMMA DfsBlocksHaveCells ==
  ASSUME ConfigInv, NEW w \in Widths, NEW g \in GroupsOf(w), Range(g) \cap Dfs # {}
  PROVE  g \in Cells(w)
<1>1. CASE w = 20
  <2>1. g = <<Head(g)>> /\ Range(g) = {Head(g)}
    BY <1>1, SinglesAreBlocks
  <2>2. Head(g) \in Range4(36, 64) \cup Range4(100, 144)
    BY <2>1, ChannelNames DEF Dfs, Range4
  <2>3. Head(g) \in UNION Bands
    BY <2>2 DEF Bands
  <2> QED BY <1>1, <2>1, <2>3 DEF Cells
<1>2. CASE w \in {40, 80, 160}
  <2> DEFINE h == Head(g)
  <2>1. h \in Heads(w) /\ h \in Int /\ Range(g) = Block(h, w)
    BY <1>2, GroupsAreBlocks, HeadsAre5GHz
  <2>2. Dfs = {52, 56, 60, 64, 100, 104, 108, 112, 116, 120, 124, 128, 132, 136, 140, 144}
    <3>1. Range4(52, 64) = {52, 56, 60, 64}
      BY DEF Range4
    <3> QED BY <3>1, ChannelNames DEF Dfs
  <2> HIDE DEF h
  <2>3. Block(h, w) \subseteq Range4(36, 64) \/ Block(h, w) \subseteq Range4(100, 144)
        \/ Block(h, w) \cap Dfs = {}
    <3>1. CASE w = 40
      BY <2>1, <2>2, <3>1, BlockNames, ChannelNames DEF Heads
    <3>2. CASE w = 80
      BY <2>1, <2>2, <3>2, BlockNames, ChannelNames DEF Heads
    <3>3. CASE w = 160
      BY <2>1, <2>2, <3>3, BlockNames, ChannelNames DEF Heads
    <3> QED BY <1>2, <3>1, <3>2, <3>3
  <2>4. \E b \in Bands : Range(g) \subseteq b
    BY <2>1, <2>3 DEF Bands
  <2> QED BY <1>2, <2>4 DEF Cells
<1> QED BY <1>1, <1>2 DEF Widths

\* Nothing the scheduler measures is missing from the map, greyed out or dashed.
THEOREM PlanIsShown == Spec => []PlannedIsShown
<1>1. ConfigInv => PlannedIsShown
  <2> SUFFICES ASSUME ConfigInv, NEW domain \in Domains, NEW w \in widths, NEW g \in GroupsOf(w),
                      <<Head(g), w>> \in BuildTrials, Range(g) \subseteq ChannelsFor(domain),
                      Range(g) \cap Dfs # {}
               PROVE  /\ g \in Cells(w) /\ ~Dashed(g, ChannelsFor(domain))
                      /\ \A seen \in {"nothing", "quiet", "radar"} :
                           CellOf(g, ChannelsFor(domain), seen) = seen
    BY DEF PlannedIsShown
  <2>1. w \in Widths
    BY DEF ConfigInv
  <2>2. g \in Cells(w)
    BY <2>1, DfsBlocksHaveCells
  <2>3. Head(g) \in Allowed
    <3>1. \E v \in widths : \E k \in GroupsOf(v) : Fits(k) /\ <<Head(g), w>> = <<Head(k), v>>
      BY DEF BuildTrials
    <3>2. \E k \in GroupsOf(w) : Fits(k) /\ Head(k) = Head(g)
      BY <3>1
    <3>3. Head(g) \in channels /\ Block(Head(g), w) \subseteq Allowed
      BY <2>1, <3>2, PrimariesThatFit
    <3>4. Head(g) \in Block(Head(g), w)
      <4> DEFINE c == Head(g)
      <4>1. c \in Int
        BY <3>3 DEF ConfigInv
      <4> HIDE DEF c
      <4>2. c \in Block(c, w)
        BY <2>1, <4>1, BlockNames DEF Widths
      <4> QED BY <4>2 DEF c
    <3> QED BY <3>3, <3>4
  <2>4. ~Dashed(g, ChannelsFor(domain))
    BY <2>3 DEF Dashed, Allowed
  <2>5. \A seen \in {"nothing", "quiet", "radar"} :
          CellOf(g, ChannelsFor(domain), seen) = seen
    BY <2>3 DEF CellOf, Colour, Allowed
  <2> QED BY <2>2, <2>4, <2>5
<1> QED BY <1>1, ConfigInvariance, PTL
=============================================================================
