--------------------------- MODULE MCOnChainLogger ---------------------------
(***************************************************************************)
(* Two collaterals, two cycles of one or two zones, two gas prices; a key  *)
(* that is the agent's, or another one.                                    *)
(***************************************************************************)
EXTENDS OnChainLogger

CONSTANTS agent, other, meth, usdc

MCCallers == {agent, other}
MCHashes == {meth, usdc}
=============================================================================
