----------------------------- MODULE CascadeZones -----------------------------
(***************************************************************************)
(* Cascade detection (app/services/cascade.py) on a book of positions that *)
(* moves: detect_zones with its score, and the time estimate of a zone.    *)
(*                                                                         *)
(* Amounts are in thousands of dollars, health factors in hundredths and   *)
(* probabilities in 1e-5: the score is computed exactly, where the code    *)
(* has floats, and rounded down once, which no bound of _severity notices. *)
(* The order of the zones and their anomaly counts are left out.           *)
(***************************************************************************)
EXTENDS RiskTiers, FiniteSetsExt

CONSTANTS PositionIds,    \* position ids
          Symbols,  \* dominant collateral symbols, "UNKNOWN" among them
          AtRiskHf,     \* cascade_at_risk_hf, in hundredths
          MinClusterSize,   \* cascade_min_cluster_size
          Readings      \* bound of the model: what a position may read

ASSUME MinClusterAssumption == MinClusterSize \in Nat \ {0}
ASSUME ReadingsAssumption == Readings \subseteq [coll : Nat, debt : Nat, hf : Nat]

\* The open positions: dominant collateral, total_collateral_usd, total_debt_usd
\* and health_factor.  The last is a quotient of the amounts for INIT, and for
\* Lendle an answer of its own.
VARIABLE book
-----------------------------------------------------------------------------
(* The score *)

\* Mutant: the distance to liquidation counts on both sides.
HfGap_Absolute(sum, n) ==
  Min({IF sum > 100 * n THEN sum - 100 * n ELSE 100 * n - sum, 15 * n})

\* How far the average is above 1.00, at most 0.15, times the n members.
HfGap(sum, n) == Min({Max({sum - 100 * n, 0}), 15 * n})

\* What the collateral weighs.
UsdRisk(coll) == 3 * Min({coll, 5000})

ClusterProbability(sum, n, coll) ==
  LET dtlRisk == (55000 * (15 * n - HfGap(sum, n))) \div (15 * n)
      networkRisk == 3000 * Min({n, 10})
  IN  Min({dtlRisk + networkRisk + UsdRisk(coll), 99000})

\* Mutant: exposure alone decides.
Severity_ByDebt(prob, debt) ==
  CASE debt >= 5000 -> "CRITICAL"
    [] debt >= 1000 /\ debt < 5000 -> "HIGH"
    [] debt >= 100 /\ debt < 1000 -> "MEDIUM"
    [] OTHER -> "LOW"

Severity(prob, debt) ==
  IF prob >= 85000 \/ debt >= 5000 THEN "CRITICAL"
  ELSE IF prob >= 65000 \/ debt >= 1000 THEN "HIGH"
  ELSE IF prob >= 40000 \/ debt >= 100 THEN "MEDIUM"
  ELSE "LOW"

\* Minutes until the cascade, from the average health factor.
TimeToCascade(sum, n) == Min({Max({(9 * (sum - 100 * n)) \div n, 15}), 240})
-----------------------------------------------------------------------------
(* detect_zones *)

\* The bucket of c: the positions at risk whose dominant collateral is c.
Bucket(b, c) == {p \in DOMAIN b : b[p].on = c /\ b[p].hf < AtRiskHf}

Zone(b, members) ==
  LET n == Cardinality(members)
      coll == SumFunction([p \in members |-> b[p].coll])
      debt == SumFunction([p \in members |-> b[p].debt])
      hf == SumFunction([p \in members |-> b[p].hf])
      prob == ClusterProbability(hf, n, coll)
  IN  [members |-> members, coll |-> coll, prob |-> prob,
       severity |-> Severity(prob, debt), minutes |-> TimeToCascade(hf, n)]

DetectZones(b) ==
  [c \in {d \in Symbols : Cardinality(Bucket(b, d)) >= MinClusterSize} |->
     Zone(b, Bucket(b, c))]
-----------------------------------------------------------------------------
(* The book *)

BookInit == book = [p \in {} |-> 0]

Position(c, r) == [on |-> c, coll |-> r.coll, debt |-> r.debt, hf |-> r.hf]

Open(p, c, r) ==
  /\ p \notin DOMAIN book
  /\ book' = [q \in DOMAIN book \cup {p} |-> IF q = p THEN Position(c, r) ELSE book[q]]

\* Repaid or liquidated.
Close(p) == book' = [q \in DOMAIN book \ {p} |-> book[q]]

\* Prices, interest, deposits, loans: from one cycle to the next all positions may
\* read differently.
Move(r) == book' = [p \in DOMAIN book |-> Position(book[p].on, r[p])]

BookNext ==
  \/ \E p \in PositionIds, c \in Symbols, r \in Readings : Open(p, c, r)
  \/ \E p \in DOMAIN book : Close(p)
  \/ \E r \in [DOMAIN book -> Readings] : Move(r)

BookSpec == BookInit /\ [][BookNext]_book
-----------------------------------------------------------------------------
(* Properties *)

\* A zone whose positions get worse calms down by no more than what the value it
\* lost weighs: while it keeps its members, and no health factor rises and no debt
\* falls, its time does not grow and its probability and severity do not fall,
\* unless its collateral does (as in a price drop); then the probability falls by
\* the weight of that at most, and the severity by one level.
WorseningBarelyCalms ==
  [][\A c \in DOMAIN DetectZones(book) \cap DOMAIN DetectZones(book') :
       LET z == DetectZones(book)[c]
           y == DetectZones(book')[c]
           worse(p) == book'[p].hf <= book[p].hf /\ book'[p].debt >= book[p].debt
           lost == UsdRisk(z.coll) - UsdRisk(y.coll)
       IN  (y.members = z.members /\ \A p \in z.members : worse(p)) =>
              /\ y.prob >= z.prob - (IF lost > 0 THEN lost ELSE 0)
              /\ SevRank[y.severity] >= SevRank[z.severity] - (IF lost > 0 THEN 1 ELSE 0)
              /\ y.minutes <= z.minutes]_book

Reckoned == INSTANCE AlertPath WITH
              Positions <- PositionIds, Collaterals <- Symbols,
              MinCluster <- MinClusterSize, Window <- 0,
              MinSeverity <- "MEDIUM", MaxTime <- 0, now <- 0, seen <- book,
              lastRisk <- book, phase <- "idle", batch <- book, zones <- book,
              todo <- {}, sent <- {}

\* What the alert path assumes of detect_zones, which it sees as a relation
\* between the tiers of a snapshot and the severities of its zones, is true of
\* its arithmetic: the zones are exactly the large enough buckets of positions
\* that are not SAFE, and no zone of liquidatable positions is LOW.
WithinAlertPath ==
  [c \in DOMAIN DetectZones(book) |-> DetectZones(book)[c].severity]
     \in Reckoned!ZonesOf([p \in DOMAIN book |-> RiskLevel(book[p].hf)])
=============================================================================
