------------------------------ MODULE Channels ------------------------------
(***************************************************************************)
(* The 5 GHz channels and their blocks: the hand-written tables of         *)
(* src/fjord_radar/planner.py, which the planner and the dashboard use,    *)
(* and the arithmetic of 802.11 they are checked against.                  *)
(***************************************************************************)
LOCAL INSTANCE Integers

\* _40MHZ_PAIRS, _80MHZ_GROUPS, _160MHZ_GROUPS
Groups40 == {<<36, 40>>, <<44, 48>>, <<52, 56>>, <<60, 64>>,
             <<100, 104>>, <<108, 112>>, <<116, 120>>, <<124, 128>>,
             <<132, 136>>, <<140, 144>>, <<149, 153>>, <<157, 161>>,
             <<165, 169>>, <<173, 177>>}

Groups80 == {<<36, 40, 44, 48>>, <<52, 56, 60, 64>>, <<100, 104, 108, 112>>,
             <<116, 120, 124, 128>>, <<132, 136, 140, 144>>, <<149, 153, 157, 161>>,
             <<165, 169, 173, 177>>}

Groups160 == {<<36, 40, 44, 48, 52, 56, 60, 64>>,
              <<100, 104, 108, 112, 116, 120, 124, 128>>,
              <<149, 153, 157, 161, 165, 169, 173, 177>>}

Range4(a, b) == {c \in a..b : (c - a) % 4 = 0}

\* _ALL_5GHZ
All5 == Range4(36, 64) \cup Range4(100, 144) \cup Range4(149, 177)

\* 802.11: a block of w MHz is w/20 channels in a row, aligned within the stretch of
\* spectrum it lies in.
Stretches == {<<36, 64>>, <<100, 144>>, <<149, 177>>}

Block(c, w) == {c + 4 * k : k \in 0..(w \div 20 - 1)}

Aligned(c, w) == \E s \in Stretches : /\ c \in Range4(s[1], s[2]) /\ Block(c, w) \subseteq s[1]..s[2]
                                      /\ ((c - s[1]) \div 4) % (w \div 20) = 0
=============================================================================
