--------------------------- MODULE MCCascadePoller ---------------------------
(***************************************************************************)
(* Bounds for TLC: two protocols, the second without positions, and a      *)
(* market that takes the position of the first between two tiers.          *)
(***************************************************************************)
EXTENDS CascadePoller

CONSTANTS p1, weth

MCReaders == <<{p1}, {}>>
MCCollaterals == {weth}
=============================================================================
