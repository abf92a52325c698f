---------------------------- MODULE MCUnifiClient ----------------------------
(***************************************************************************)
(* An access point with two radios, the 5 GHz one under test.              *)
(***************************************************************************)
EXTENDS UnifiClientProperties

CONSTANTS C36, C52, C100
=============================================================================
