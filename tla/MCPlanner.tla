----------------------------- MODULE MCPlanner -----------------------------
(***************************************************************************)
(* Nearly all of 5 GHz in the United States, with edits around the ends of *)
(* the bands and of their blocks.                                          *)
(***************************************************************************)
EXTENDS ChannelMap

Usa == Range4(36, 64) \cup Range4(100, 144) \cup Range4(149, 177)

BlockedCombos == {<<36, 160>>, <<132, 80>>, <<165, 40>>}
=============================================================================
