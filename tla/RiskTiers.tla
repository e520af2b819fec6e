------------------------------ MODULE RiskTiers ------------------------------
(***************************************************************************)
(* The two ordered scales of the detector.  A position has a risk tier,    *)
(* derived from its health factor (app/core/schema.py); a cascade zone has *)
(* a severity label (app/services/cascade.py).  Both are ranked by the     *)
(* alert publisher; SAFE never alerts.                                     *)
(***************************************************************************)
EXTENDS Integers

Tiers == {"SAFE", "MEDIUM", "HIGH", "CRITICAL"}

\* The tier of a position, its health factor in hundredths.
RiskLevel(hf) ==
  CASE hf < 100 -> "CRITICAL"
    [] hf >= 100 /\ hf < 105 -> "HIGH"
    [] hf >= 105 /\ hf < 115 -> "MEDIUM"
    [] hf >= 115 -> "SAFE"

\* _SEVERITY_RANK: worst last.
Rank == [SAFE |-> 0, MEDIUM |-> 1, HIGH |-> 2, CRITICAL |-> 3]

Severities == {"LOW", "MEDIUM", "HIGH", "CRITICAL"}

\* The order in which zone severities escalate.
SevRank == [LOW |-> 0, MEDIUM |-> 1, HIGH |-> 2, CRITICAL |-> 3]

\* A position takes part in cascade detection when its health factor is under
\* cascade_at_risk_hf, 1.15 by default: the same bound that ends the SAFE tier.
AtRisk(tier) == tier # "SAFE"
=============================================================================
