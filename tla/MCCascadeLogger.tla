--------------------------- MODULE MCCascadeLogger ---------------------------
(***************************************************************************)
(* Two callers, two collaterals, up to three predictions; an outcome       *)
(* window of two time units in a clock of four.                            *)
(***************************************************************************)
EXTENDS CascadeLogger, TLC

CONSTANTS agent, other, meth, usdc

MCCallers == {agent, other}
MCHashes == {meth, usdc}
Symmetry == Permutations(MCHashes)
=============================================================================
