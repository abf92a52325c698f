------------------------------ MODULE Planner ------------------------------
(***************************************************************************)
(* The plan (src/fjord_radar/planner.py) as a function of the scan section *)
(* of config.yaml, which the user edits one entry at a time.  A trial is   *)
(* <<channel, width>>; how order() arranges them is left to the constant   *)
(* Orders of Scheduler.                                                    *)
(***************************************************************************)
EXTENDS Integers, Sequences, FiniteSets, Functions, Channels

CONSTANTS Pool,           \* channels in the file at first
          EditChannels,   \* channels whose entry may be added or removed
          EditBlack,      \* channels that may be blacklisted
          EditCombos      \* combinations that may be blacklisted

\* config.py makes integers of what the file lists.
ASSUME ConfigAssumption == Pool \subseteq Int /\ EditChannels \subseteq Int

VARIABLES channels, widths, blacklistChannels, blacklistCombos

config == <<channels, widths, blacklistChannels, blacklistCombos>>

Allowed == channels \ blacklistChannels

\* The blocks of channels a width may use; a block is named by its first channel.
GroupsOf(w) == CASE w = 20  -> {<<c>> : c \in Allowed}
                 [] w = 40  -> Groups40
                 [] w = 80  -> Groups80
                 [] w = 160 -> Groups160

\* Mutant: a block is in when its primary channel is.
PrimaryFits(g) == Head(g) \in Allowed

Fits(g) == Range(g) \subseteq Allowed

BuildTrials ==
  (UNION {{<<Head(g), w>> : g \in {g \in GroupsOf(w) : Fits(g)}} : w \in widths})
    \ blacklistCombos

-----------------------------------------------------------------------------
(* Edits of the configuration                                              *)

Flip(S, e) == IF e \in S THEN S \ {e} ELSE S \cup {e}

EditPool == \E c \in EditChannels : /\ channels' = Flip(channels, c)
                                    /\ UNCHANGED <<widths, blacklistChannels, blacklistCombos>>

EditWidths == \E w \in {20, 40, 80, 160} :
                /\ widths' = Flip(widths, w)
                /\ UNCHANGED <<channels, blacklistChannels, blacklistCombos>>

EditBlacklist ==
  \/ \E c \in EditBlack : /\ blacklistChannels' = Flip(blacklistChannels, c)
                          /\ UNCHANGED <<channels, widths, blacklistCombos>>
  \/ \E c \in EditCombos : /\ blacklistCombos' = Flip(blacklistCombos, c)
                           /\ UNCHANGED <<channels, widths, blacklistChannels>>

Init == channels = Pool /\ widths = {20} /\ blacklistChannels = {} /\ blacklistCombos = {}

Next == EditPool \/ EditWidths \/ EditBlacklist

Spec == Init /\ [][Next]_config
=============================================================================
