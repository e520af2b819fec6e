--------------------------- MODULE AlertPathProofs ---------------------------
(***************************************************************************)
(* Proofs about the alert path, for every set of positions and of          *)
(* collaterals, every window, floor and cluster size.                      *)
(***************************************************************************)
EXTENDS AlertPath, TLAPS

\* Every remembered fingerprint is the memory of an alert.
SeenWasSent ==
  \A f \in DOMAIN seen : [fp |-> f, at |-> seen[f]] \in sent

\* An alert is forgotten only when it is older than the window, and what is
\* remembered of a fingerprint is its latest alert.
SentIsRemembered ==
  \A a \in sent :
     /\ a.at <= now
     /\ a.fp \in DOMAIN seen => a.at <= seen[a.fp]
     /\ a.fp \notin DOMAIN seen => now - a.at > Window

\* The loop invariant of publish_new_at_risk_positions.
VisitedAnnounced ==
  phase \in {"positions", "positionPost"} =>
    \A p \in DOMAIN batch \ todo : Alertable(batch[p]) => Announced(p, batch[p])

DedupInv == SeenWasSent /\ SentIsRemembered
RiskInv == NoUnannouncedRisk /\ VisitedAnnounced

-----------------------------------------------------------------------------
LEMMA RankFacts ==
  /\ \A t \in Tiers : Rank[t] \in Nat /\ (Rank[t] = 0 <=> t = "SAFE")
  /\ Floor \in Nat
BY DEF Tiers, Rank, Floor

\* What detect_zones returns is a map from collaterals to severities.
LEMMA ZonesType ==
  ASSUME NEW b, NEW z \in ZonesOf(b)
  PROVE  DOMAIN z \subseteq Collaterals /\ z \in [DOMAIN z -> Severities]
<1>1. PICK coll \in [DOMAIN b -> Collaterals] :
        z \in [ZoneKeys(b, coll) -> Severities]
  BY DEF ZonesOf
<1> QED
  BY <1>1 DEF ZoneKeys

LEMMA FpTypes ==
  /\ \A c \in Collaterals, s \in Severities : ZoneFp(c, s) \in Fingerprints
  /\ \A p \in Positions, t \in Tiers : PositionFp(p, t) \in Fingerprints
BY DEF Fingerprints, ZoneFps, PositionFps

-----------------------------------------------------------------------------
(* Type correctness *)

LEMMA AdmitType ==
  ASSUME TypeOK, NEW f \in Fingerprints, Admit(f)
  PROVE  /\ DOMAIN seen' \subseteq Fingerprints
         /\ seen' \in [DOMAIN seen' -> Nat]
         /\ sent' \subseteq [fp : Fingerprints, at : Nat]
BY DEF TypeOK, Admit, Live

LEMMA SuppressType ==
  ASSUME TypeOK, NEW f, Suppress(f)
  PROVE  /\ DOMAIN seen' \subseteq Fingerprints
         /\ seen' \in [DOMAIN seen' -> Nat]
         /\ sent' \subseteq [fp : Fingerprints, at : Nat]
BY DEF TypeOK, Suppress, Live

LEMMA TypeStep == TypeOK /\ [Next]_vars => TypeOK'
<1> SUFFICES ASSUME TypeOK, [Next]_vars PROVE TypeOK'
  OBVIOUS
<1>1. CASE Tick
  BY <1>1, MaxTimeAssumption DEF Tick, TypeOK
<1>2. ASSUME NEW b \in Batches, NEW z \in ZonesOf(b), Begin(b, z) PROVE TypeOK'
  <2>1. DOMAIN b \subseteq Positions /\ b \in [DOMAIN b -> Tiers]
    BY DEF Batches
  <2>2. DOMAIN z \subseteq Collaterals /\ z \in [DOMAIN z -> Severities]
    BY ZonesType
  <2> QED
    BY <1>2, <2>1, <2>2 DEF Begin, TypeOK
<1>3. ASSUME NEW c \in todo, AlertZone(c) PROVE TypeOK'
  <2>1. ZoneFp(c, zones[c]) \in Fingerprints
    BY <1>3, FpTypes DEF AlertZone, TypeOK
  <2>2. /\ DOMAIN seen' \subseteq Fingerprints
        /\ seen' \in [DOMAIN seen' -> Nat]
        /\ sent' \subseteq [fp : Fingerprints, at : Nat]
    BY <1>3, <2>1, AdmitType DEF AlertZone
  <2> QED
    BY <1>3, <2>2 DEF AlertZone, TypeOK
<1>4. ASSUME NEW c \in todo, SuppressZone(c) PROVE TypeOK'
  BY <1>4, SuppressType DEF SuppressZone, TypeOK
<1>5. CASE ZonesDone
  BY <1>5 DEF ZonesDone, TypeOK
<1>6. ASSUME NEW p \in todo, AlertPosition(p) PROVE TypeOK'
  <2>1. PositionFp(p, batch[p]) \in Fingerprints
    BY <1>6, FpTypes DEF AlertPosition, TypeOK
  <2>2. /\ DOMAIN seen' \subseteq Fingerprints
        /\ seen' \in [DOMAIN seen' -> Nat]
        /\ sent' \subseteq [fp : Fingerprints, at : Nat]
    BY <1>6, <2>1, AdmitType DEF AlertPosition
  <2> QED
    BY <1>6, <2>2 DEF AlertPosition, TypeOK
<1>7. ASSUME NEW p \in todo, SuppressPosition(p) PROVE TypeOK'
  BY <1>7, SuppressType DEF SuppressPosition, TypeOK
<1>8. ASSUME NEW p \in todo, SkipPosition(p) PROVE TypeOK'
  BY <1>8 DEF SkipPosition, TypeOK
<1>9. CASE PositionsDone
  BY <1>9 DEF PositionsDone, TypeOK, Nothing
<1>10. CASE PostReturns
  BY <1>10 DEF PostReturns, TypeOK
<1>11. CASE Abort
  BY <1>11 DEF Abort, TypeOK, Nothing
<1>12. CASE Restart
  BY <1>12 DEF Restart, TypeOK, Nothing
<1>13. CASE UNCHANGED vars
  BY <1>13 DEF vars, TypeOK
<1> QED
  BY <1>1, <1>2, <1>3, <1>4, <1>5, <1>6, <1>7, <1>8, <1>9, <1>10, <1>11, <1>12,
      <1>13
  DEF Next

\* The model's state stays well typed: Spec implies that TypeOK always holds.
THEOREM TypeCorrect == Spec => []TypeOK
<1>1. Init => TypeOK
  BY DEF Init, TypeOK, Nothing
<1> QED
  BY <1>1, TypeStep, PTL DEF Spec

-----------------------------------------------------------------------------
(* Deduplication *)

LEMMA AdmitDedup ==
  ASSUME TypeOK, DedupInv, NEW f \in Fingerprints, Admit(f), now' = now
  PROVE  /\ DedupInv'
         /\ \A a \in sent : a.fp = f => now - a.at > Window
<1>1. \A a \in sent : a \in [fp : Fingerprints, at : Nat]
  BY DEF TypeOK
<1>2. \A g \in DOMAIN seen : seen[g] \in Nat
  BY DEF TypeOK
<1>3. \A a \in sent : a.fp = f => now - a.at > Window
  BY <1>1, <1>2, WindowAssumption
  DEF DedupInv, SentIsRemembered, Admit, Live, TypeOK
<1>4. SeenWasSent'
  BY <1>2 DEF DedupInv, SeenWasSent, Admit, Live
<1>5. SentIsRemembered'
  <2> DEFINE new == [fp |-> f, at |-> now]
  <2> SUFFICES ASSUME NEW a \in sent'
               PROVE  /\ a.at <= now
                      /\ a.fp \in DOMAIN seen' => a.at <= seen'[a.fp]
                      /\ a.fp \notin DOMAIN seen' => now - a.at > Window
    BY DEF SentIsRemembered
  <2>1. CASE a = new
    BY <2>1 DEF Admit, TypeOK
  <2>2. CASE a \in sent
    <3>1. a.at <= now /\ a.at \in Nat /\ now \in Nat
      BY <1>1, <2>2 DEF DedupInv, SentIsRemembered, TypeOK
    <3>2. CASE a.fp = f
      BY <3>1, <3>2 DEF Admit
    <3>3. CASE a.fp # f /\ a.fp \in Live
      BY <2>2, <3>1, <3>3 DEF Admit, Live, DedupInv, SentIsRemembered
    <3>4. CASE a.fp # f /\ a.fp \notin Live
      BY <1>2, <2>2, <3>1, <3>4, WindowAssumption
      DEF Admit, Live, DedupInv, SentIsRemembered
    <3> QED
      BY <3>2, <3>3, <3>4
  <2> QED
    BY <2>1, <2>2 DEF Admit
<1> QED
  BY <1>3, <1>4, <1>5 DEF DedupInv

LEMMA SuppressDedup ==
  ASSUME TypeOK, DedupInv, NEW f, Suppress(f), now' = now
  PROVE  /\ DedupInv'
         /\ \E a \in sent : a.fp = f /\ now - a.at <= Window
<1>1. \A a \in sent : a \in [fp : Fingerprints, at : Nat]
  BY DEF TypeOK
<1>2. \A g \in DOMAIN seen : seen[g] \in Nat
  BY DEF TypeOK
<1>3. \E a \in sent : a.fp = f /\ now - a.at <= Window
  <2>1. [fp |-> f, at |-> seen[f]] \in sent /\ seen[f] \in Nat
    BY <1>2 DEF DedupInv, SeenWasSent, Suppress, Live
  <2> QED
    BY <2>1, WindowAssumption DEF Suppress, Live, TypeOK
<1>4. SeenWasSent'
  BY DEF DedupInv, SeenWasSent, Suppress, Live
<1>5. SentIsRemembered'
  <2> SUFFICES ASSUME NEW a \in sent
               PROVE  /\ a.at <= now
                      /\ a.fp \in DOMAIN seen' => a.at <= seen'[a.fp]
                      /\ a.fp \notin DOMAIN seen' => now - a.at > Window
    BY DEF SentIsRemembered, Suppress
  <2>1. a.at <= now /\ a.at \in Nat /\ now \in Nat
    BY <1>1 DEF DedupInv, SentIsRemembered, TypeOK
  <2>2. CASE a.fp \in Live
    BY <2>1, <2>2 DEF Suppress, Live, DedupInv, SentIsRemembered
  <2>3. CASE a.fp \notin Live
    BY <1>2, <2>1, <2>3, WindowAssumption
    DEF Suppress, Live, DedupInv, SentIsRemembered
  <2> QED
    BY <2>2, <2>3
<1> QED
  BY <1>3, <1>4, <1>5 DEF DedupInv

\* The steps that leave the table and the history alone.
LEMMA DedupUnchanged ==
  ASSUME TypeOK, DedupInv, UNCHANGED <<seen, sent>>,
         now' \in Nat, now' >= now
  PROVE  DedupInv'
<1>1. \A a \in sent : a.at \in Nat
  BY DEF TypeOK
<1> QED
  BY <1>1, WindowAssumption
  DEF DedupInv, SeenWasSent, SentIsRemembered, TypeOK

LEMMA DedupStep == TypeOK /\ DedupInv /\ [Next]_vars => DedupInv'
<1> SUFFICES ASSUME TypeOK, DedupInv, [Next]_vars PROVE DedupInv'
  OBVIOUS
<1>1. CASE Tick
  BY <1>1, DedupUnchanged DEF Tick, TypeOK
<1>2. ASSUME NEW b \in Batches, NEW z \in ZonesOf(b), Begin(b, z) PROVE DedupInv'
  BY <1>2, DedupUnchanged DEF Begin, TypeOK
<1>3. ASSUME NEW c \in todo, AlertZone(c) PROVE DedupInv'
  <2>1. ZoneFp(c, zones[c]) \in Fingerprints
    BY <1>3, FpTypes DEF AlertZone, TypeOK
  <2> QED
    BY <1>3, <2>1, AdmitDedup DEF AlertZone
<1>4. ASSUME NEW c \in todo, SuppressZone(c) PROVE DedupInv'
  BY <1>4, SuppressDedup DEF SuppressZone
<1>5. CASE ZonesDone
  BY <1>5, DedupUnchanged DEF ZonesDone, TypeOK
<1>6. ASSUME NEW p \in todo, AlertPosition(p) PROVE DedupInv'
  <2>1. PositionFp(p, batch[p]) \in Fingerprints
    BY <1>6, FpTypes DEF AlertPosition, TypeOK
  <2> QED
    BY <1>6, <2>1, AdmitDedup DEF AlertPosition
<1>7. ASSUME NEW p \in todo, SuppressPosition(p) PROVE DedupInv'
  BY <1>7, SuppressDedup DEF SuppressPosition
<1>8. ASSUME NEW p \in todo, SkipPosition(p) PROVE DedupInv'
  BY <1>8, DedupUnchanged DEF SkipPosition, TypeOK
<1>9. CASE PositionsDone
  BY <1>9, DedupUnchanged DEF PositionsDone, TypeOK
<1>10. CASE PostReturns
  BY <1>10, DedupUnchanged DEF PostReturns, TypeOK
<1>11. CASE Abort
  BY <1>11, DedupUnchanged DEF Abort, TypeOK
<1>12. CASE Restart
  BY <1>12 DEF Restart, Nothing, DedupInv, SeenWasSent, SentIsRemembered
<1>13. CASE UNCHANGED vars
  BY <1>13, DedupUnchanged DEF vars, TypeOK
<1> QED
  BY <1>1, <1>2, <1>3, <1>4, <1>5, <1>6, <1>7, <1>8, <1>9, <1>10, <1>11, <1>12,
      <1>13
  DEF Next

-----------------------------------------------------------------------------
(* The promise of the publisher *)

\* Every step of the alert path is a step of the promise, or none.
LEMMA PromiseStep ==
  TypeOK /\ DedupInv /\ [Next]_vars => [Promise!Next]_<<now, sent>>
<1> SUFFICES ASSUME TypeOK, DedupInv, [Next]_vars
             PROVE  [Promise!Next]_<<now, sent>>
  OBVIOUS
<1>1. CASE Tick
  BY <1>1 DEF Tick, Promise!Next, Promise!Tick
<1>2. ASSUME NEW c \in todo, AlertZone(c) PROVE Promise!Next
  <2>1. ZoneFp(c, zones[c]) \in Fingerprints
    BY <1>2, FpTypes DEF AlertZone, TypeOK
  <2>2. Promise!Emit(ZoneFp(c, zones[c]))
    BY <1>2, <2>1, AdmitDedup DEF AlertZone, Admit, Promise!Emit
  <2> QED
    BY <2>1, <2>2 DEF Promise!Next
<1>3. ASSUME NEW p \in todo, AlertPosition(p) PROVE Promise!Next
  <2>1. PositionFp(p, batch[p]) \in Fingerprints
    BY <1>3, FpTypes DEF AlertPosition, TypeOK
  <2>2. Promise!Emit(PositionFp(p, batch[p]))
    BY <1>3, <2>1, AdmitDedup DEF AlertPosition, Admit, Promise!Emit
  <2> QED
    BY <2>1, <2>2 DEF Promise!Next
<1>4. CASE Restart
  BY <1>4 DEF Restart, Promise!Next, Promise!Restart
<1>5. CASE \/ \E b \in Batches : \E z \in ZonesOf(b) : Begin(b, z)
           \/ \E c \in todo : SuppressZone(c)
           \/ \E p \in todo : SuppressPosition(p) \/ SkipPosition(p)
           \/ ZonesDone \/ PositionsDone \/ PostReturns \/ Abort
           \/ UNCHANGED vars
  BY <1>5 DEF Begin, SuppressZone, SuppressPosition, Suppress, SkipPosition,
              ZonesDone, PositionsDone, PostReturns, Abort, vars
<1> QED
  BY <1>1, <1>2, <1>3, <1>4, <1>5 DEF Next

LEMMA CooldownStep ==
  TypeOK /\ DedupInv /\ CooldownRespected /\ [Next]_vars => CooldownRespected'
<1> SUFFICES ASSUME TypeOK, DedupInv, CooldownRespected, [Next]_vars
             PROVE  CooldownRespected'
  OBVIOUS
<1>1. [Promise!Next]_<<now, sent>>
  BY PromiseStep
<1>2. \A a \in sent : a.at \in Nat /\ a.at <= now
  BY DEF TypeOK, DedupInv, SentIsRemembered
<1>3. ASSUME NEW f \in Fingerprints, Promise!Emit(f) PROVE CooldownRespected'
  BY <1>2, <1>3 DEF Promise!Emit, CooldownRespected, TypeOK
<1>4. CASE Promise!Tick \/ Promise!Restart \/ UNCHANGED <<now, sent>>
  BY <1>4 DEF Promise!Tick, Promise!Restart, CooldownRespected
<1> QED
  BY <1>1, <1>3, <1>4 DEF Promise!Next

LEMMA DedupInvariant == Spec => [](TypeOK /\ DedupInv)
<1>1. Init => TypeOK /\ DedupInv
  BY DEF Init, TypeOK, Nothing, DedupInv, SeenWasSent, SentIsRemembered
<1>2. TypeOK /\ DedupInv /\ [Next]_vars => (TypeOK /\ DedupInv)'
  BY TypeStep, DedupStep
<1> QED
  BY <1>1, <1>2, PTL DEF Spec

\* The alert path implements the promise: a fingerprint is raised again only
\* after the dedup window, whatever the cycles, posts, aborts and restarts are.
THEOREM ImplementsPromise == Spec => KeepsPromise
<1>1. Init => Promise!Init
  BY DEF Init, Promise!Init
<1>2. TypeOK /\ DedupInv /\ [Next]_vars => [Promise!Next]_Promise!cooldownVars
  BY PromiseStep DEF Promise!cooldownVars
<1> QED
  BY <1>1, <1>2, DedupInvariant, PTL DEF Spec, KeepsPromise, Promise!Spec

\* Alerts with one fingerprint are always more than the dedup window apart.
THEOREM CooldownHolds == Spec => []CooldownRespected
<1>1. Init => CooldownRespected
  BY DEF Init, CooldownRespected
<1> QED
  BY <1>1, CooldownStep, DedupInvariant, PTL DEF Spec

-----------------------------------------------------------------------------
(* No zone goes by in silence *)

LEMMA ZoneVisitStep ==
  ASSUME TypeOK, DedupInv, [Next]_vars, NEW c \in DOMAIN zones, ZoneVisited(c)
  PROVE  \E a \in sent' : a.fp = ZoneFp(c, zones[c]) /\ now - a.at <= Window
<1>1. CASE AlertZone(c)
  <2>1. [fp |-> ZoneFp(c, zones[c]), at |-> now] \in sent'
    BY <1>1 DEF AlertZone, Admit
  <2> QED
    BY <2>1, WindowAssumption DEF TypeOK
<1>2. CASE SuppressZone(c)
  BY <1>2, SuppressDedup DEF SuppressZone, Suppress
<1>3. AlertZone(c) \/ SuppressZone(c)
  BY DEF ZoneVisited, Next, vars, Tick, Begin, AlertZone, SuppressZone, ZonesDone,
         AlertPosition, SuppressPosition, SkipPosition, PositionsDone,
         PostReturns, Abort, Restart
<1> QED
  BY <1>1, <1>2, <1>3

\* A zone the publisher visits has an alert no older than the dedup window.
THEOREM NoSilentZone == Spec => ZoneNeverSilent
<1>1. TypeOK /\ DedupInv /\ [Next]_vars =>
        [\A c \in DOMAIN zones :
           ZoneVisited(c) =>
             \E a \in sent' :
                a.fp = ZoneFp(c, zones[c]) /\ now - a.at <= Window]_vars
  BY ZoneVisitStep
<1> QED
  BY <1>1, DedupInvariant, PTL DEF Spec, ZoneNeverSilent

-----------------------------------------------------------------------------
(* No tier is remembered that was not announced *)

\* An announcement survives every step but a restart.
LEMMA AnnouncedPersists ==
  ASSUME sent \subseteq sent', NEW p, NEW t, Announced(p, t)
  PROVE  Announced(p, t)'
BY DEF Announced

\* The steps that change neither what is remembered nor what was visited.
LEMMA RiskUnchanged ==
  ASSUME RiskInv, UNCHANGED <<lastRisk, batch>>, sent \subseteq sent',
         \/ phase' \notin {"positions", "positionPost"}
         \/ /\ phase \in {"positions", "positionPost"}
            /\ todo' = todo
  PROVE  RiskInv'
<1>1. NoUnannouncedRisk'
  BY AnnouncedPersists DEF RiskInv, NoUnannouncedRisk
<1>2. VisitedAnnounced'
  BY AnnouncedPersists DEF RiskInv, VisitedAnnounced
<1> QED
  BY <1>1, <1>2 DEF RiskInv

\* An iteration of the position loop that leaves its position announced.
LEMMA RiskVisit ==
  ASSUME RiskInv, UNCHANGED <<lastRisk, batch>>, sent \subseteq sent',
         phase = "positions", NEW p \in todo, todo' = todo \ {p},
         Alertable(batch[p]) => Announced(p, batch[p])'
  PROVE  RiskInv'
<1>1. NoUnannouncedRisk'
  BY AnnouncedPersists DEF RiskInv, NoUnannouncedRisk
<1>2. VisitedAnnounced'
  <2> SUFFICES ASSUME NEW q \in DOMAIN batch \ todo', Alertable(batch[q])
               PROVE  Announced(q, batch[q])'
    BY DEF VisitedAnnounced
  <2>1. CASE q = p
    BY <2>1
  <2>2. CASE q # p
    BY <2>2, AnnouncedPersists DEF RiskInv, VisitedAnnounced
  <2> QED
    BY <2>1, <2>2
<1> QED
  BY <1>1, <1>2 DEF RiskInv

\* A position that did not worsen was announced when its prior tier was.
LEMMA NotWorsened ==
  ASSUME TypeOK, NoUnannouncedRisk, NEW p \in DOMAIN batch, ~ Worsened(p),
         Alertable(batch[p])
  PROVE  Announced(p, batch[p])
<1>1. batch[p] \in Tiers /\ Rank[batch[p]] \in Nat /\ Rank[batch[p]] # 0
  BY RankFacts DEF TypeOK, Alertable
<1>2. PriorTier(p) \in Tiers /\ Rank[PriorTier(p)] \in Nat
  BY RankFacts DEF PriorTier, TypeOK, Tiers
<1>3. Rank[batch[p]] <= Rank[PriorTier(p)] /\ Rank[batch[p]] >= Floor
  BY <1>1, <1>2, RankFacts DEF Worsened, Alertable
<1>4. PriorTier(p) # "SAFE"
  BY <1>1, <1>2, <1>3, RankFacts
<1>5. p \in DOMAIN lastRisk /\ PriorTier(p) = lastRisk[p]
  BY <1>4 DEF PriorTier
<1>6. Alertable(lastRisk[p])
  BY <1>1, <1>2, <1>3, <1>4, <1>5, RankFacts DEF Alertable
<1>7. PICK u \in Tiers : /\ Rank[u] >= Rank[lastRisk[p]]
                         /\ \E a \in sent : a.fp = PositionFp(p, u)
  BY <1>5, <1>6 DEF NoUnannouncedRisk, Announced
<1>8. Rank[u] >= Rank[batch[p]]
  BY <1>1, <1>2, <1>3, <1>5, <1>7, RankFacts
<1> QED
  BY <1>7, <1>8 DEF Announced

LEMMA RiskStep == TypeOK /\ DedupInv /\ RiskInv /\ [Next]_vars => RiskInv'
<1> SUFFICES ASSUME TypeOK, DedupInv, RiskInv, [Next]_vars PROVE RiskInv'
  OBVIOUS
<1>1. CASE Tick
  BY <1>1, RiskUnchanged DEF Tick
<1>2. ASSUME NEW b \in Batches, NEW z \in ZonesOf(b), Begin(b, z) PROVE RiskInv'
  BY <1>2 DEF Begin, RiskInv, NoUnannouncedRisk, Announced, VisitedAnnounced
<1>3. ASSUME NEW c \in todo, AlertZone(c) PROVE RiskInv'
  BY <1>3, RiskUnchanged DEF AlertZone, Admit
<1>4. ASSUME NEW c \in todo, SuppressZone(c) PROVE RiskInv'
  BY <1>4, RiskUnchanged DEF SuppressZone, Suppress
<1>5. CASE ZonesDone
  BY <1>5 DEF ZonesDone, RiskInv, NoUnannouncedRisk, Announced, VisitedAnnounced
<1>6. ASSUME NEW p \in todo, AlertPosition(p) PROVE RiskInv'
  <2>1. batch[p] \in Tiers /\ Rank[batch[p]] \in Nat
    BY <1>6, RankFacts DEF AlertPosition, TypeOK
  <2>2. [fp |-> PositionFp(p, batch[p]), at |-> now] \in sent'
    BY <1>6 DEF AlertPosition, Admit
  <2>3. Announced(p, batch[p])'
    BY <1>6, <2>1, <2>2 DEF Announced, AlertPosition
  <2>4. NoUnannouncedRisk'
    BY <1>6, AnnouncedPersists
    DEF RiskInv, NoUnannouncedRisk, AlertPosition, Admit
  <2>5. VisitedAnnounced'
    BY <1>6, <2>3, AnnouncedPersists
    DEF RiskInv, VisitedAnnounced, AlertPosition, Admit
  <2> QED
    BY <2>4, <2>5 DEF RiskInv
<1>7. ASSUME NEW p \in todo, SuppressPosition(p) PROVE RiskInv'
  <2>1. batch[p] \in Tiers /\ Rank[batch[p]] \in Nat
    BY <1>7, RankFacts DEF SuppressPosition, TypeOK
  <2>2. \E a \in sent : a.fp = PositionFp(p, batch[p])
    BY <1>7, SuppressDedup DEF SuppressPosition
  <2>3. Announced(p, batch[p])'
    BY <1>7, <2>1, <2>2 DEF Announced, SuppressPosition, Suppress
  <2> QED
    BY <1>7, <2>3, RiskVisit DEF SuppressPosition, Suppress
<1>8. ASSUME NEW p \in todo, SkipPosition(p) PROVE RiskInv'
  <2>1. Alertable(batch[p]) => Announced(p, batch[p])
    BY <1>8, NotWorsened DEF SkipPosition, TypeOK, RiskInv
  <2>2. Alertable(batch[p]) => Announced(p, batch[p])'
    BY <1>8, <2>1 DEF SkipPosition, Announced
  <2> QED
    BY <1>8, <2>2, RiskVisit DEF SkipPosition
<1>9. CASE PositionsDone
  BY <1>9 DEF PositionsDone, RiskInv, NoUnannouncedRisk, VisitedAnnounced, Announced
<1>10. CASE PostReturns
  BY <1>10, RiskUnchanged DEF PostReturns
<1>11. CASE Abort
  BY <1>11 DEF Abort, RiskInv, NoUnannouncedRisk, VisitedAnnounced, Announced
<1>12. CASE Restart
  BY <1>12 DEF Restart, Nothing, RiskInv, NoUnannouncedRisk, VisitedAnnounced
<1>13. CASE UNCHANGED vars
  BY <1>13 DEF vars, RiskInv, NoUnannouncedRisk, VisitedAnnounced, Announced
<1> QED
  BY <1>1, <1>2, <1>3, <1>4, <1>5, <1>6, <1>7, <1>8, <1>9, <1>10, <1>11, <1>12,
      <1>13
  DEF Next

\* No position is remembered at an alertable tier without an alert of that tier
\* or a worse one: the poller never silences what it did not announce.
THEOREM RiskAnnounced == Spec => []NoUnannouncedRisk
<1>1. Init => RiskInv
  BY DEF Init, Nothing, RiskInv, NoUnannouncedRisk, VisitedAnnounced
<1>2. TypeOK /\ DedupInv /\ RiskInv /\ [Next]_vars => RiskInv'
  BY RiskStep
<1>3. RiskInv => NoUnannouncedRisk
  BY DEF RiskInv
<1> QED
  BY <1>1, <1>2, <1>3, DedupInvariant, PTL DEF Spec
=============================================================================
