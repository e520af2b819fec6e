----------------------------- MODULE MCAlertPath -----------------------------
(***************************************************************************)
(* Bounds for TLC: two positions that form a zone when both are at risk,   *)
(* one collateral, a window of one unit and a clock of two, long enough for*)
(* a fingerprint to be raised, suppressed, forgotten and raised again.     *)
(***************************************************************************)
EXTENDS AlertPath, TLC

CONSTANTS p1, p2, weth,
          MaxSent  \* bound: alerts raised between two restarts

MCPositions == {p1, p2}
MCCollaterals == {weth}
FewAlerts == Cardinality(sent) <= MaxSent

Symmetry == Permutations(MCPositions)
=============================================================================
