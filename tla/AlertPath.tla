------------------------------ MODULE AlertPath ------------------------------
(***************************************************************************)
(* The alert path of one poll cycle: CascadePoller._handle_alerts_and_     *)
(* logging (app/services/pipeline.py) calling AlertPublisher.publish_      *)
(* cascade_zones and publish_new_at_risk_positions (app/services/alerts.py)*)
(* on a snapshot.                                                          *)
(*                                                                         *)
(* A snapshot is abstracted to `batch`, the risk tier of every position    *)
(* that was read, and to `zones`, the severity of every cascade zone that  *)
(* detect_zones finds in it.  Every loop iteration is one step, every post *)
(* to the transports is a step of its own during which time can pass, and  *)
(* a post that raises aborts the cycle before the remembered tiers are     *)
(* replaced.  Time is in units of the caller's choice and stops at MaxTime.*)
(*                                                                         *)
(* A position is in a batch once.  The INIT reader can return one twice    *)
(* (InitReader, NoTwins), and detect_zones then counts it twice: a zone of *)
(* MinCluster entries that are fewer positions is not represented here.    *)
(***************************************************************************)
EXTENDS RiskTiers, FiniteSets

CONSTANTS Positions,    \* position ids
          Collaterals,  \* dominant collateral symbols, "UNKNOWN" among them
          MinCluster,   \* cascade_min_cluster_size
          Window,       \* alert_dedup_window_seconds
          MinSeverity,  \* alert_min_severity, any string
          MaxTime       \* bound of the model: the clock stops here

ASSUME WindowAssumption == Window \in Nat
ASSUME MaxTimeAssumption == MaxTime \in Nat
ASSUME KeysAssumption == Positions \cap Collaterals = {}

VARIABLES now,       \* datetime.now
          seen,      \* AlertPublisher._seen: fingerprint -> seen_at
          lastRisk,  \* CascadePoller._last_risk: position -> tier
          phase,     \* where the coroutine is
          batch,     \* snapshot.positions: position -> tier
          zones,     \* detect_zones(snapshot.positions): collateral -> severity
          todo,      \* what the running for loop has still to visit
          sent       \* history: alerts handed to the transports

vars == <<now, seen, lastRisk, phase, batch, zones, todo, sent>>

Nothing == [x \in {} |-> "SAFE"]

ZoneFp(c, s) == [kind |-> "zone", key |-> c, level |-> s]
PositionFp(p, t) == [kind |-> "position", key |-> p, level |-> t]

ZoneFps == {ZoneFp(c, s) : c \in Collaterals, s \in Severities}
PositionFps == {PositionFp(p, t) : p \in Positions, t \in Tiers}
Fingerprints == ZoneFps \cup PositionFps

\* The rank of alert_min_severity; a name that is no tier counts as MEDIUM.
Floor == IF MinSeverity \in Tiers THEN Rank[MinSeverity] ELSE Rank["MEDIUM"]

-----------------------------------------------------------------------------
(* Cascade detection *)

\* The positions of b that a zone on collateral c is made of.
Members(b, coll, c) == {p \in DOMAIN b : coll[p] = c /\ AtRisk(b[p])}

ZoneKeys(b, coll) ==
  {c \in Collaterals : Cardinality(Members(b, coll, c)) >= MinCluster}

\* A zone whose members are all liquidatable scores at least 0.55 and is never
\* LOW; otherwise debt and cluster size make every label possible.
CanScore(b, coll, c, s) ==
  s = "LOW" => \E p \in Members(b, coll, c) : b[p] # "CRITICAL"

\* Every zone list that detect_zones can return for b, under some assignment of
\* dominant collaterals and of the amounts the score depends on.
ZonesOf(b) ==
  {z \in UNION {[ZoneKeys(b, coll) -> Severities] :
                  coll \in [DOMAIN b -> Collaterals]} :
     \E coll \in [DOMAIN b -> Collaterals] :
        /\ DOMAIN z = ZoneKeys(b, coll)
        /\ \A c \in DOMAIN z : CanScore(b, coll, c, z[c])}

-----------------------------------------------------------------------------
(* Deduplication *)

\* Mutant: an entry of exactly the window's age is evicted.
Live_EarlyExpiry == {f \in DOMAIN seen : seen[f] > now - Window}

\* The fingerprints left in _seen after _evict_expired.
Live == {f \in DOMAIN seen : seen[f] >= now - Window}

\* Mutant: remembering a fingerprint drops the others.
Admit_ForgetsOthers(fp) ==
  /\ fp \notin Live
  /\ seen' = [f \in {fp} |-> now]
  /\ sent' = sent \cup {[fp |-> fp, at |-> now]}

\* _dedup_admit returning True: the alert is remembered and goes out.
Admit(fp) ==
  /\ fp \notin Live
  /\ seen' = [f \in Live \cup {fp} |-> IF f = fp THEN now ELSE seen[f]]
  /\ sent' = sent \cup {[fp |-> fp, at |-> now]}

\* Mutant: a suppressed alert renews its entry, so the window slides.
Suppress_Renews(fp) ==
  /\ fp \in Live
  /\ seen' = [f \in Live |-> IF f = fp THEN now ELSE seen[f]]
  /\ UNCHANGED sent

\* _dedup_admit returning False.
Suppress(fp) ==
  /\ fp \in Live
  /\ seen' = [f \in Live |-> seen[f]]
  /\ UNCHANGED sent

PriorTier(p) == IF p \in DOMAIN lastRisk THEN lastRisk[p] ELSE "SAFE"

\* Mutant: the floor itself does not alert.
Worsened_OverFloor(p) ==
  /\ Rank[batch[p]] > Floor
  /\ Rank[batch[p]] > Rank[PriorTier(p)]

\* Severe enough, and strictly worse than in the last snapshot.
Worsened(p) ==
  /\ Rank[batch[p]] >= Floor
  /\ Rank[batch[p]] > Rank[PriorTier(p)]

-----------------------------------------------------------------------------
Init ==
  /\ now = 0
  /\ seen = Nothing
  /\ lastRisk = Nothing
  /\ phase = "idle"
  /\ batch = Nothing
  /\ zones = Nothing
  /\ todo = {}
  /\ sent = {}

Tick ==
  /\ now < MaxTime
  /\ now' = now + 1
  /\ UNCHANGED <<seen, lastRisk, phase, batch, zones, todo, sent>>

\* The path is entered with a snapshot: detect_zones runs, the zone loop starts.
Begin(b, z) ==
  /\ phase = "idle"
  /\ phase' = "zones"
  /\ batch' = b
  /\ zones' = z
  /\ todo' = DOMAIN z
  /\ UNCHANGED <<now, seen, lastRisk, sent>>

AlertZone(c) ==
  /\ phase = "zones"
  /\ c \in todo
  /\ Admit(ZoneFp(c, zones[c]))
  /\ phase' = "zonePost"
  /\ todo' = todo \ {c}
  /\ UNCHANGED <<now, lastRisk, batch, zones>>

SuppressZone(c) ==
  /\ phase = "zones"
  /\ c \in todo
  /\ Suppress(ZoneFp(c, zones[c]))
  /\ todo' = todo \ {c}
  /\ UNCHANGED <<now, lastRisk, phase, batch, zones>>

\* Mutant: the second loop runs over the list of the first.
ZonesDone_WrongList ==
  /\ phase = "zones"
  /\ todo = {}
  /\ phase' = "positions"
  /\ todo' = DOMAIN zones
  /\ UNCHANGED <<now, seen, lastRisk, batch, zones, sent>>

\* publish_cascade_zones returns, the position loop starts.
ZonesDone ==
  /\ phase = "zones"
  /\ todo = {}
  /\ phase' = "positions"
  /\ todo' = DOMAIN batch
  /\ UNCHANGED <<now, seen, lastRisk, batch, zones, sent>>

AlertPosition(p) ==
  /\ phase = "positions"
  /\ p \in todo
  /\ Worsened(p)
  /\ Admit(PositionFp(p, batch[p]))
  /\ phase' = "positionPost"
  /\ todo' = todo \ {p}
  /\ UNCHANGED <<now, lastRisk, batch, zones>>

SuppressPosition(p) ==
  /\ phase = "positions"
  /\ p \in todo
  /\ Worsened(p)
  /\ Suppress(PositionFp(p, batch[p]))
  /\ todo' = todo \ {p}
  /\ UNCHANGED <<now, lastRisk, phase, batch, zones>>

\* The continue of a position under the floor, unchanged or improving.
SkipPosition(p) ==
  /\ phase = "positions"
  /\ p \in todo
  /\ ~ Worsened(p)
  /\ todo' = todo \ {p}
  /\ UNCHANGED <<now, seen, lastRisk, phase, batch, zones, sent>>

\* _last_risk is rebuilt from the snapshot alone: positions not in it are gone.
PositionsDone ==
  /\ phase = "positions"
  /\ todo = {}
  /\ phase' = "idle"
  /\ lastRisk' = batch
  /\ batch' = Nothing
  /\ zones' = Nothing
  /\ UNCHANGED <<now, seen, todo, sent>>

\* _post_embed returns; a transport error is logged and swallowed inside it.
PostReturns ==
  /\ \/ phase = "zonePost" /\ phase' = "zones"
     \/ phase = "positionPost" /\ phase' = "positions"
  /\ UNCHANGED <<now, seen, lastRisk, batch, zones, todo, sent>>

\* Mutant: the tiers are remembered in a finally clause.
Abort_Remembers ==
  /\ phase \in {"zonePost", "positionPost"}
  /\ phase' = "idle"
  /\ lastRisk' = batch
  /\ batch' = Nothing
  /\ zones' = Nothing
  /\ todo' = {}
  /\ UNCHANGED <<now, seen, sent>>

\* Something else is raised in the post: the cycle's except clause takes over
\* and _last_risk keeps its value, but the fingerprint stays in _seen.
Abort ==
  /\ phase \in {"zonePost", "positionPost"}
  /\ phase' = "idle"
  /\ batch' = Nothing
  /\ zones' = Nothing
  /\ todo' = {}
  /\ UNCHANGED <<now, seen, lastRisk, sent>>

\* The process ends, at any point, and a new one starts.
Restart ==
  /\ phase' = "idle"
  /\ seen' = Nothing
  /\ lastRisk' = Nothing
  /\ batch' = Nothing
  /\ zones' = Nothing
  /\ todo' = {}
  /\ sent' = {}
  /\ UNCHANGED now

\* Every set of positions a snapshot can hold, each at any tier.
Batches == UNION {[D -> Tiers] : D \in SUBSET Positions}

Next ==
  \/ Tick
  \/ \E b \in Batches : \E z \in ZonesOf(b) : Begin(b, z)
  \/ \E c \in todo : AlertZone(c) \/ SuppressZone(c)
  \/ ZonesDone
  \/ \E p \in todo : AlertPosition(p) \/ SuppressPosition(p) \/ SkipPosition(p)
  \/ PositionsDone
  \/ PostReturns
  \/ Abort
  \/ Restart

Spec == Init /\ [][Next]_vars
-----------------------------------------------------------------------------
(* Properties *)

\* Every variable has its type; in particular what is left to visit belongs to
\* the loop that is running, and only zones and positions are ever alerted.
TypeOK ==
  /\ now \in Nat
  /\ DOMAIN seen \subseteq Fingerprints
  /\ seen \in [DOMAIN seen -> Nat]
  /\ DOMAIN lastRisk \subseteq Positions
  /\ lastRisk \in [DOMAIN lastRisk -> Tiers]
  /\ phase \in {"idle", "zones", "zonePost", "positions", "positionPost"}
  /\ DOMAIN batch \subseteq Positions
  /\ batch \in [DOMAIN batch -> Tiers]
  /\ DOMAIN zones \subseteq Collaterals
  /\ zones \in [DOMAIN zones -> Severities]
  /\ phase = "idle" => todo = {}
  /\ phase \in {"zones", "zonePost"} => todo \subseteq DOMAIN zones
  /\ phase \in {"positions", "positionPost"} => todo \subseteq DOMAIN batch
  /\ sent \subseteq [fp : Fingerprints, at : Nat]

\* The channel is not spammed: two alerts of one process with the same
\* fingerprint are more than the dedup window apart, however long the posts
\* between them took and wherever a cycle was aborted.
CooldownRespected ==
  \A a, b \in sent : (a.fp = b.fp /\ a.at < b.at) => b.at - a.at > Window

\* Tiers for which an alert is due when a position worsens into them.
Alertable(t) == Rank[t] >= Floor /\ t # "SAFE"

\* This process raised an alert for p at tier t or a worse one.
Announced(p, t) ==
  \E u \in Tiers : /\ Rank[u] >= Rank[t]
                   /\ \E a \in sent : a.fp = PositionFp(p, u)

\* A tier that the poller remembers is a tier the channel was told about: for
\* every position remembered at an alertable tier an alert of that tier or a
\* worse one was raised by this process.  (_last_risk silences a position that
\* holds its tier, so a tier remembered without an alert would be silent for
\* good.)
NoUnannouncedRisk ==
  \A p \in DOMAIN lastRisk : Alertable(lastRisk[p]) => Announced(p, lastRisk[p])

\* The zone loop has just dealt with collateral c.
ZoneVisited(c) ==
  phase = "zones" /\ c \in todo /\ phase' # "idle" /\ c \notin todo'

\* A zone the publisher passes over was announced within the window: after
\* every visit of a zone some alert of its fingerprint is at most Window old.
ZoneNeverSilent ==
  [][\A c \in DOMAIN zones :
       ZoneVisited(c) =>
         \E a \in sent' : a.fp = ZoneFp(c, zones[c]) /\ now - a.at <= Window]_vars

Promise == INSTANCE Cooldown WITH Fingerprints <- Fingerprints, Window <- Window,
                                  now <- now, sent <- sent

\* The alert path keeps the publisher's promise: with the table of fingerprints
\* and the loops hidden it is a run of Cooldown, which has neither.
KeepsPromise == Promise!Spec
=============================================================================
