------------------------- MODULE CascadePollerProofs -------------------------
(***************************************************************************)
(* Proofs about the poll loop, for every list of protocols with positions: *)
(* it implements the alert path, so that what AlertPathProofs shows of the *)
(* path holds of the loop, and no alert goes without its record.  The last *)
(* sections are about CascadeZones, the detection whose zones the loop     *)
(* hands to the alert path: it keeps to what the path reckons with, and it *)
(* does not calm down when the book gets worse.                            *)
(***************************************************************************)
EXTENDS CascadePoller, CascadeZones, FiniteSetTheorems, TLAPS

Proved == INSTANCE AlertPathProofs WITH
            Positions <- Positions, Collaterals <- Collaterals,
            now <- now, seen <- seen, lastRisk <- lastRisk, phase <- phase,
            batch <- batch, zones <- zones, todo <- todo, sent <- sent

\* A snapshot, or a part of one: positions with their tiers.
IsReading(b) == DOMAIN b \subseteq Positions /\ b \in [DOMAIN b -> Tiers]

\* The types that the steps of the loop rely on.
LoopInv ==
  /\ IsReading(chain) /\ IsReading(part) /\ IsReading(got)
  /\ unread \subseteq Positions
  /\ turn \in 0..Len(Readers)
  /\ pc = "reading" => turn # 0

LEMMA EmptyReading == IsReading(Empty)
BY DEF IsReading, Empty

LEMMA MarketReading == ASSUME NEW m \in Markets PROVE IsReading(m)
BY MarketAssumption DEF Markets, IsReading

LEMMA ReaderPositions ==
  ASSUME NEW i \in 1..Len(Readers)
  PROVE  Readers[i] \subseteq Positions
BY ReadersAssumption

LEMMA ForgetLoop ==
  ASSUME ForgetCycle, pc' # "reading", IsReading(chain')
  PROVE  LoopInv'
BY EmptyReading, ReadersAssumption DEF ForgetCycle, LoopInv

LEMMA LoopUnchanged ==
  ASSUME LoopInv, UNCHANGED <<cycleVars, chain>>, pc' = "reading" => pc = "reading"
  PROVE  LoopInv'
BY DEF LoopInv, cycleVars, IsReading

LEMMA NextReaderLoop ==
  ASSUME LoopInv, pc = "reading", NextReader, IsReading(got'), UNCHANGED chain
  PROVE  LoopInv'
<1>1. CASE turn < Len(Readers)
  <2>1. turn' \in 1..Len(Readers) /\ unread' = Readers[turn'] /\ turn' # 0
    BY <1>1, ReadersAssumption DEF NextReader, LoopInv
  <2> QED
    BY <2>1, ReaderPositions, EmptyReading DEF NextReader, LoopInv
<1>2. CASE ~ (turn < Len(Readers))
  <2>1. turn' = 0 /\ unread' = {} /\ pc' = "saving"
    BY <1>2 DEF NextReader
  <2> QED
    BY <2>1, EmptyReading, ReadersAssumption DEF NextReader, LoopInv
<1> QED
  BY <1>1, <1>2

LEMMA LoopStep == LoopInv /\ [Next]_vars => LoopInv'
<1> SUFFICES ASSUME LoopInv, [Next]_vars PROVE LoopInv'
  OBVIOUS
<1>1. CASE CycleStart
  <2>1. 1 \in 1..Len(Readers)
    BY ReadersAssumption
  <2> QED
    BY <1>1, <2>1, ReaderPositions DEF CycleStart, LoopInv, worldVars, IsReading
<1>2. CASE AlertsDone
  BY <1>2, ForgetLoop DEF AlertsDone, worldVars, LoopInv
<1>3. CASE LoopExit \/ AlertLoops
           \/ \E z \in Path!ZonesOf(got) : BeginAlerts(z)
  BY <1>3, LoopUnchanged DEF LoopExit, AlertLoops, BeginAlerts, worldVars
<1>4. ASSUME NEW p \in unread, ReadPosition(p) PROVE LoopInv'
  <2>1. IsReading(part')
    BY <1>4 DEF ReadPosition, LoopInv, IsReading
  <2> QED
    BY <1>4, <2>1 DEF ReadPosition, LoopInv, worldVars, IsReading
<1>5. CASE ReaderDone
  <2>1. IsReading(got')
    BY <1>5 DEF ReaderDone, LoopInv, IsReading
  <2> QED
    BY <1>5, <2>1, NextReaderLoop DEF ReaderDone, worldVars
<1>6. CASE InsertSnapshot \/ InsertPositions \/ PostReturns \/ LogZones \/ WakeUp
  BY <1>6, LoopUnchanged
  DEF InsertSnapshot, InsertPositions, PostReturns, LogZones, WakeUp, worldVars
<1>7. ASSUME NEW p \in unread, DropPosition(p) PROVE LoopInv'
  BY <1>7 DEF DropPosition, LoopInv, worldVars, IsReading
<1>8. ASSUME NEW S \in SUBSET DOMAIN got, InsertSome(S) PROVE LoopInv'
  BY <1>8, ForgetLoop DEF InsertSome, worldVars, LoopInv
<1>9. CASE ReaderFails
  BY <1>9, NextReaderLoop DEF ReaderFails, worldVars, LoopInv, IsReading
<1>10. CASE CycleFails \/ AlertsFail \/ Crash \/ Cancelled
  BY <1>10, ForgetLoop
  DEF CycleFails, AlertsFail, Crash, Cancelled, worldVars, LoopInv
<1>11. CASE AskStop \/ StopTimeout \/ Tick
  BY <1>11, LoopUnchanged DEF AskStop, StopTimeout, Tick, worldVars
<1>12. ASSUME NEW m \in Markets, MoveMarket(m) PROVE LoopInv'
  BY <1>12, MarketReading DEF MoveMarket, LoopInv, cycleVars, IsReading
<1>13. CASE UNCHANGED vars
  BY <1>13, LoopUnchanged DEF vars, worldVars
<1> QED
  BY <1>1, <1>2, <1>3, <1>4, <1>5, <1>6, <1>7, <1>8, <1>9, <1>10, <1>11, <1>12,
      <1>13
  DEF Next, Immediate, Answer, Failure

LEMMA LoopInvariant == Spec => []LoopInv
<1>1. Init => LoopInv
  BY MarketReading, EmptyReading, ReadersAssumption DEF Init, LoopInv
<1> QED
  BY <1>1, LoopStep, PTL DEF Spec

-----------------------------------------------------------------------------
(* The loop implements the alert path *)

LEMMA PathStep == LoopInv /\ [Next]_vars => [Path!Next]_(Path!vars)
<1> SUFFICES ASSUME LoopInv, [Next]_vars PROVE [Path!Next]_(Path!vars)
  OBVIOUS
<1>1. ASSUME NEW z \in Path!ZonesOf(got), BeginAlerts(z) PROVE Path!Next
  <2>1. DOMAIN got \in SUBSET Positions /\ got \in [DOMAIN got -> Tiers]
    BY DEF LoopInv, IsReading
  <2>2. got \in Path!Batches
    BY <2>1 DEF Path!Batches, Path!Tiers, Tiers
  <2> QED
    BY <1>1, <2>2 DEF BeginAlerts, Path!Next
<1>2. CASE AlertLoops
  BY <1>2 DEF AlertLoops, Path!Next
<1>3. CASE AlertsDone \/ PostReturns \/ AlertsFail \/ Crash \/ Tick
  BY <1>3 DEF AlertsDone, PostReturns, AlertsFail, Crash, Tick, Path!Next
<1>4. CASE Cancelled
  BY <1>4 DEF Cancelled, Path!Next, Path!vars, alertVars
<1>5. CASE \/ CycleStart \/ LoopExit \/ ReaderDone \/ ReaderFails
           \/ InsertSnapshot \/ InsertPositions \/ LogZones \/ WakeUp
           \/ CycleFails \/ AskStop \/ StopTimeout
  BY <1>5 DEF CycleStart, LoopExit, ReaderDone, ReaderFails, InsertSnapshot,
              InsertPositions, LogZones, WakeUp, CycleFails, AskStop, StopTimeout,
              alertVars, Path!vars
<1>6. CASE \/ \E p \in unread : ReadPosition(p)
           \/ \E p \in unread : DropPosition(p)
           \/ \E S \in SUBSET DOMAIN got : InsertSome(S)
           \/ \E m \in Markets : MoveMarket(m)
           \/ UNCHANGED vars
  BY <1>6 DEF ReadPosition, DropPosition, InsertSome, MoveMarket, vars,
              alertVars, Path!vars
<1> QED
  BY <1>1, <1>2, <1>3, <1>4, <1>5, <1>6 DEF Next, Immediate, Answer, Failure

\* The poll loop implements the alert path: whatever it reads, saves, loses,
\* cancels or restarts, every step is a step of the path or leaves it alone.
THEOREM ImplementsPath == Spec => KeepsPath
<1>1. Init => Path!Init
  BY DEF Init
<1> QED
  BY <1>1, PathStep, LoopInvariant, PTL DEF Spec, KeepsPath, Path!Spec

-----------------------------------------------------------------------------
(* What AlertPathProofs shows of the alert path *)

\* The path of the loop and the path of the theorems are one and the same.
LEMMA SameNext == Path!Next <=> Proved!Next
BY
  DEF Path!Next, Proved!Next, Path!Tick, Proved!Tick, Path!Begin,
      Proved!Begin, Path!AlertZone, Proved!AlertZone, Path!SuppressZone,
      Proved!SuppressZone, Path!ZonesDone, Proved!ZonesDone,
      Path!AlertPosition, Proved!AlertPosition, Path!SuppressPosition,
      Proved!SuppressPosition, Path!SkipPosition, Proved!SkipPosition,
      Path!PositionsDone, Proved!PositionsDone, Path!PostReturns,
      Proved!PostReturns, Path!Abort, Proved!Abort, Path!Restart,
      Proved!Restart, Path!Batches, Proved!Batches, Path!ZonesOf,
      Proved!ZonesOf, Path!ZoneKeys, Proved!ZoneKeys, Path!Members,
      Proved!Members, Path!Cardinality, Proved!Cardinality, Path!CanScore,
      Proved!CanScore, Path!AtRisk, Proved!AtRisk, Path!Tiers, Proved!Tiers,
      Path!Severities, Proved!Severities, Path!Admit, Proved!Admit,
      Path!Suppress, Proved!Suppress, Path!Live, Proved!Live, Path!Worsened,
      Proved!Worsened, Path!PriorTier, Proved!PriorTier, Path!Floor,
      Proved!Floor, Path!Rank, Proved!Rank, Path!ZoneFp, Proved!ZoneFp,
      Path!PositionFp, Proved!PositionFp, Path!Nothing, Proved!Nothing

LEMMA SameInit == Path!Init <=> Proved!Init
BY DEF Path!Init, Proved!Init, Path!Nothing, Proved!Nothing

LEMMA SameTypes == Path!TypeOK <=> Proved!TypeOK
BY
  DEF Path!TypeOK, Proved!TypeOK, Path!Fingerprints, Proved!Fingerprints,
      Path!ZoneFps, Proved!ZoneFps, Path!PositionFps, Proved!PositionFps,
      Path!ZoneFp, Proved!ZoneFp, Path!PositionFp, Proved!PositionFp,
      Path!Tiers, Proved!Tiers, Path!Severities, Proved!Severities

LEMMA SameRisk == Path!NoUnannouncedRisk <=> Proved!NoUnannouncedRisk
BY
  DEF Path!NoUnannouncedRisk, Proved!NoUnannouncedRisk, Path!Alertable,
      Proved!Alertable, Path!Announced, Proved!Announced, Path!Rank,
      Proved!Rank, Path!Floor, Proved!Floor, Path!Tiers, Proved!Tiers,
      Path!PositionFp, Proved!PositionFp

LEMMA SameCooldown == Path!CooldownRespected <=> Proved!CooldownRespected
BY DEF Path!CooldownRespected, Proved!CooldownRespected

LEMMA PathHolds == Spec => Proved!Spec
<1>1. [Path!Next]_(Path!vars) => [Proved!Next]_(Proved!vars)
  BY SameNext DEF Path!vars, Proved!vars
<1> QED
  BY <1>1, SameInit, ImplementsPath, PTL DEF KeepsPath, Path!Spec, Proved!Spec

LEMMA PathTypes == Spec => []Path!TypeOK
<1>1. Proved!Spec => []Proved!TypeOK
  BY Proved!TypeCorrect, WindowAssumption, MaxTimeAssumption, KeysAssumption
  DEF Proved!WindowAssumption, Proved!MaxTimeAssumption, Proved!KeysAssumption
<1> QED
  BY <1>1, PathHolds, SameTypes, PTL

\* The loop silences no position that it did not announce.
THEOREM LoopAnnouncesRisk == Spec => []Path!NoUnannouncedRisk
<1>1. Proved!Spec => []Proved!NoUnannouncedRisk
  BY Proved!RiskAnnounced, WindowAssumption, MaxTimeAssumption, KeysAssumption
  DEF Proved!WindowAssumption, Proved!MaxTimeAssumption, Proved!KeysAssumption
<1> QED
  BY <1>1, PathHolds, SameRisk, PTL

\* The loop raises an alert again only when the dedup window has passed.
THEOREM LoopCooldown == Spec => []Path!CooldownRespected
<1>1. Proved!Spec => []Proved!CooldownRespected
  BY Proved!CooldownHolds, WindowAssumption, MaxTimeAssumption, KeysAssumption
  DEF Proved!WindowAssumption, Proved!MaxTimeAssumption, Proved!KeysAssumption
<1> QED
  BY <1>1, PathHolds, SameCooldown, PTL

\* The loop keeps the publisher's promise to its channel: with everything hidden
\* but the clock and the alerts it is a run of Cooldown.
THEOREM LoopKeepsPromise == Spec => Path!KeepsPromise
<1>1. Proved!Spec => Proved!KeepsPromise
  BY Proved!ImplementsPromise, WindowAssumption, MaxTimeAssumption, KeysAssumption
  DEF Proved!WindowAssumption, Proved!MaxTimeAssumption, Proved!KeysAssumption
<1>2. Proved!Promise!Init => Path!Promise!Init
  BY DEF Path!Promise!Init, Proved!Promise!Init
<1>3. [Proved!Promise!Next]_(Proved!Promise!cooldownVars) =>
        [Path!Promise!Next]_(Path!Promise!cooldownVars)
  BY DEF Path!Promise!Next, Proved!Promise!Next, Path!Promise!Tick,
         Proved!Promise!Tick, Path!Promise!Emit, Proved!Promise!Emit,
         Path!Promise!Restart, Proved!Promise!Restart,
         Path!Promise!cooldownVars, Proved!Promise!cooldownVars,
         Path!Fingerprints, Proved!Fingerprints, Path!ZoneFps, Proved!ZoneFps,
         Path!PositionFps, Proved!PositionFps, Path!ZoneFp, Proved!ZoneFp,
         Path!PositionFp, Proved!PositionFp, Path!Tiers, Proved!Tiers,
         Path!Severities, Proved!Severities
<1> QED
  BY <1>1, <1>2, <1>3, PathHolds, PTL
  DEF Path!KeepsPromise, Proved!KeepsPromise, Path!Promise!Spec, Proved!Promise!Spec

\* A zone that the publisher visits was announced at most a window ago, in
\* whatever cycle of the loop, and however the cycles before it ended.
THEOREM LoopZoneNeverSilent == Spec => Path!ZoneNeverSilent
<1>1. Proved!Spec => Proved!ZoneNeverSilent
  BY Proved!NoSilentZone, WindowAssumption, MaxTimeAssumption, KeysAssumption
  DEF Proved!WindowAssumption, Proved!MaxTimeAssumption, Proved!KeysAssumption
<1> DEFINE Loud(visited(_), fp(_, _)) ==
             \A c \in DOMAIN zones :
               visited(c) =>
                 \E a \in sent' : a.fp = fp(c, zones[c]) /\ now - a.at <= Window
<1>2. [Loud(Proved!ZoneVisited, Proved!ZoneFp)]_(Proved!vars) =>
        [Loud(Path!ZoneVisited, Path!ZoneFp)]_(Path!vars)
  BY DEF Path!vars, Proved!vars, Path!ZoneVisited, Proved!ZoneVisited,
         Path!ZoneFp, Proved!ZoneFp
<1> QED
  BY <1>1, <1>2, PathHolds, PTL DEF Path!ZoneNeverSilent, Proved!ZoneNeverSilent

-----------------------------------------------------------------------------
(* Type correctness of the loop *)

\* What TypeOK says beyond the types of the path and of the cycle.
Control ==
  /\ pc \in {"top", "reading", "saving", "filling", "saved", "alerting",
             "logging", "sleeping", "ended"}
  /\ (pc = "alerting") <=> (phase # "idle")
  /\ pc = "reading" <=> turn # 0
  /\ stop \in {"no", "asked", "late"}
  /\ faults \in 0..MaxFaults

Numbers ==
  /\ block \in 0..MaxBlock /\ head \in block..MaxBlock
  /\ chain \in Markets
  /\ stored \subseteq [key : Positions, level : Tiers]

LEMMA ControlStep == LoopInv /\ Control /\ [Next]_vars => Control'
<1> SUFFICES ASSUME LoopInv, Control, [Next]_vars PROVE Control'
  OBVIOUS
<1> USE DEF Control
<1>1. CASE CycleStart \/ LoopExit \/ LogZones \/ WakeUp \/ AskStop \/ StopTimeout
           \/ InsertSnapshot \/ InsertPositions \/ UNCHANGED vars
  BY <1>1 DEF CycleStart, LoopExit, LogZones, WakeUp, AskStop, StopTimeout,
              InsertSnapshot, InsertPositions, vars, alertVars, cycleVars
<1>2. ASSUME NEW z \in Path!ZonesOf(got), BeginAlerts(z) PROVE Control'
  BY <1>2 DEF BeginAlerts, Path!Begin, cycleVars
<1>3. CASE AlertLoops
  BY <1>3 DEF AlertLoops, Path!AlertZone, Path!SuppressZone, Path!ZonesDone,
     Path!AlertPosition, Path!SuppressPosition, Path!SkipPosition, cycleVars
<1>4. CASE PostReturns \/ Tick
  BY <1>4 DEF PostReturns, Path!PostReturns, Tick, Path!Tick, cycleVars
<1>5. CASE AlertsDone
  BY <1>5 DEF AlertsDone, Path!PositionsDone, ForgetCycle
<1>6. ASSUME NEW p \in unread, ReadPosition(p) \/ DropPosition(p) PROVE Control'
  BY <1>6, BoundsAssumption DEF ReadPosition, DropPosition, Fault, alertVars
<1>7. CASE ReaderDone \/ ReaderFails
  BY <1>7, BoundsAssumption, ReadersAssumption
  DEF ReaderDone, ReaderFails, NextReader, Fault, LoopInv, alertVars
<1>8. CASE CycleFails \/ \E S \in SUBSET DOMAIN got : InsertSome(S)
  BY <1>8, BoundsAssumption
    DEF CycleFails, InsertSome, ForgetCycle, Fault, alertVars
<1>9. CASE AlertsFail
  BY <1>9, BoundsAssumption DEF AlertsFail, Path!Abort, ForgetCycle, Fault
<1>10. CASE Crash
  BY <1>10, BoundsAssumption DEF Crash, Path!Restart, ForgetCycle, Fault
<1>11. CASE Cancelled
  BY <1>11 DEF Cancelled, Path!Abort, ForgetCycle, alertVars
<1>12. ASSUME NEW m \in Markets, MoveMarket(m) PROVE Control'
  BY <1>12 DEF MoveMarket, alertVars, cycleVars
<1> QED
  BY <1>1, <1>2, <1>3, <1>4, <1>5, <1>6, <1>7, <1>8, <1>9, <1>10, <1>11, <1>12
  DEF Next, Immediate, Answer, Failure

LEMMA DocsType ==
  ASSUME LoopInv, NEW S \in SUBSET DOMAIN got
  PROVE  Docs(S) \subseteq [key : Positions, level : Tiers]
BY DEF LoopInv, IsReading, Docs

LEMMA InFlightType ==
  ASSUME LoopInv, WriteInFlight, stored \subseteq [key : Positions, level : Tiers]
  PROVE  stored' \subseteq [key : Positions, level : Tiers]
<1>1. PICK S \in SUBSET (IF pc = "filling" THEN DOMAIN got ELSE {}) :
        stored' = stored \cup Docs(S)
  BY DEF WriteInFlight
<1>2. S \in SUBSET DOMAIN got
  OBVIOUS
<1> QED
  BY <1>1, <1>2, DocsType

LEMMA NumbersStep == LoopInv /\ Numbers /\ [Next]_vars => Numbers'
<1> SUFFICES ASSUME LoopInv, Numbers, [Next]_vars PROVE Numbers'
  OBVIOUS
<1> USE BoundsAssumption DEF Numbers, worldVars
<1>1. CASE CycleStart
  BY <1>1 DEF CycleStart
<1>2. CASE \/ LoopExit \/ LogZones \/ WakeUp \/ AskStop \/ StopTimeout \/ Tick
           \/ InsertSnapshot \/ AlertLoops \/ PostReturns
           \/ \E z \in Path!ZonesOf(got) : BeginAlerts(z)
  BY <1>2 DEF LoopExit, LogZones, WakeUp, AskStop, StopTimeout, Tick,
     InsertSnapshot, AlertLoops, PostReturns, BeginAlerts, cycleVars
<1>3. CASE \/ \E p \in unread : ReadPosition(p) \/ DropPosition(p)
           \/ ReaderDone \/ ReaderFails
  BY <1>3 DEF ReadPosition, DropPosition, ReaderDone, ReaderFails, NextReader
<1>4. CASE InsertPositions
  <2>1. Docs(DOMAIN got) \subseteq [key : Positions, level : Tiers]
    BY DocsType
  <2> QED
    BY <1>4, <2>1 DEF InsertPositions, cycleVars
<1>5. ASSUME NEW S \in SUBSET DOMAIN got, InsertSome(S) PROVE Numbers'
  BY <1>5, DocsType DEF InsertSome, ForgetCycle
<1>6. CASE AlertsDone \/ CycleFails \/ AlertsFail
  BY <1>6 DEF AlertsDone, CycleFails, AlertsFail, ForgetCycle
<1>7. CASE Crash \/ Cancelled
  BY <1>7, InFlightType DEF Crash, Cancelled, ForgetCycle
<1>8. ASSUME NEW m \in Markets, MoveMarket(m) PROVE Numbers'
  BY <1>8 DEF MoveMarket, cycleVars
<1>9. CASE UNCHANGED vars
  BY <1>9 DEF vars, cycleVars
<1> QED
  BY <1>1, <1>2, <1>3, <1>4, <1>5, <1>6, <1>7, <1>8, <1>9
  DEF Next, Immediate, Answer, Failure

\* The loop keeps its types, and is inside a cycle exactly while the path is.
THEOREM LoopTypeCorrect == Spec => []TypeOK
<1>1. Init => Control /\ Numbers
  BY BoundsAssumption DEF Init, Path!Init, Control, Numbers
<1>2. LoopInv /\ Control /\ Numbers /\ [Next]_vars => (Control /\ Numbers)'
  BY ControlStep, NumbersStep
<1>3. LoopInv /\ Control /\ Numbers /\ Path!TypeOK => TypeOK
  BY DEF LoopInv, IsReading, Control, Numbers, TypeOK
<1> QED
  BY <1>1, <1>2, <1>3, LoopInvariant, PathTypes, PTL DEF Spec

-----------------------------------------------------------------------------
(* No alert without its record *)

\* While alerts are raised for a snapshot it is in the collection.
RecordInv ==
  /\ pc \in {"saved", "alerting"} => Docs(DOMAIN got) \subseteq stored
  /\ pc = "alerting" => batch = got
  /\ phase # "idle" => pc = "alerting"

LEMMA RecordStep == RecordInv /\ [Next]_vars => RecordInv'
<1> SUFFICES ASSUME RecordInv, [Next]_vars PROVE RecordInv'
  OBVIOUS
<1>1. CASE \/ CycleStart \/ LoopExit \/ LogZones \/ WakeUp \/ AskStop \/ StopTimeout
           \/ CycleFails \/ ReaderDone \/ ReaderFails
           \/ \E p \in unread : ReadPosition(p) \/ DropPosition(p)
           \/ \E m \in Markets : MoveMarket(m)
           \/ UNCHANGED vars
  BY <1>1
  DEF CycleStart, LoopExit, LogZones, WakeUp, AskStop, StopTimeout, CycleFails,
      ReaderDone, ReaderFails, NextReader, ReadPosition, DropPosition, MoveMarket,
      ForgetCycle, vars, alertVars, cycleVars, RecordInv, Docs
<1>2. CASE InsertSnapshot
  BY <1>2 DEF InsertSnapshot, Empty, Docs, RecordInv, alertVars, cycleVars
<1>3. CASE InsertPositions \/ \E S \in SUBSET DOMAIN got : InsertSome(S)
  BY <1>3 DEF InsertPositions, InsertSome, Docs, RecordInv, alertVars, cycleVars
<1>4. ASSUME NEW z \in Path!ZonesOf(got), BeginAlerts(z) PROVE RecordInv'
  BY <1>4 DEF BeginAlerts, Path!Begin, RecordInv, Docs, cycleVars
<1>5. CASE AlertLoops
  <2>1. UNCHANGED <<batch, got, stored, pc>> /\ pc = "alerting"
    BY <1>5 DEF AlertLoops, cycleVars, Path!AlertZone, Path!SuppressZone,
       Path!ZonesDone, Path!AlertPosition, Path!SuppressPosition, Path!SkipPosition
  <2> QED
    BY <2>1 DEF RecordInv, Docs
<1>6. CASE PostReturns \/ Tick
  BY <1>6 DEF PostReturns, Path!PostReturns, Tick, Path!Tick, RecordInv, Docs,
              cycleVars
<1>7. CASE AlertsDone \/ AlertsFail
  BY <1>7 DEF AlertsDone, Path!PositionsDone, AlertsFail, Path!Abort, RecordInv
<1>8. CASE Cancelled
  BY <1>8 DEF Cancelled, Path!Abort, alertVars, RecordInv
<1>9. CASE Crash
  BY <1>9 DEF Crash, Path!Restart, RecordInv
<1> QED
  BY <1>1, <1>2, <1>3, <1>4, <1>5, <1>6, <1>7, <1>8, <1>9
  DEF Next, Immediate, Answer, Failure

\* A step raises an alert only from inside the loops of the path.
LEMMA Raising ==
  ASSUME RecordInv, [Next]_vars, NEW a \in sent' \ sent
  PROVE  AlertLoops
<1>1. CASE \/ CycleStart \/ LoopExit \/ LogZones \/ WakeUp \/ AskStop \/ StopTimeout
           \/ CycleFails \/ ReaderDone \/ ReaderFails \/ InsertSnapshot
           \/ InsertPositions \/ \E S \in SUBSET DOMAIN got : InsertSome(S)
           \/ \E p \in unread : ReadPosition(p) \/ DropPosition(p)
           \/ \E m \in Markets : MoveMarket(m)
           \/ UNCHANGED vars
  BY <1>1
  DEF CycleStart, LoopExit, LogZones, WakeUp, AskStop, StopTimeout, CycleFails,
      ReaderDone, ReaderFails, InsertSnapshot, InsertPositions, InsertSome,
      ReadPosition, DropPosition, MoveMarket, vars, alertVars
<1>2. CASE \/ \E z \in Path!ZonesOf(got) : BeginAlerts(z)
           \/ PostReturns \/ Tick \/ AlertsDone
  BY <1>2 DEF BeginAlerts, Path!Begin, PostReturns, Path!PostReturns, Tick,
     Path!Tick, AlertsDone, Path!PositionsDone
<1>3. CASE AlertsFail \/ Cancelled \/ Crash
  BY <1>3 DEF AlertsFail, Path!Abort, Cancelled, Crash, Path!Restart, alertVars
<1> QED
  BY <1>1, <1>2, <1>3 DEF Next, Immediate, Answer, Failure

\* Whatever is alerted on, zone or position, was found in a snapshot whose
\* positions the same cycle has stored (pipeline.py:137-150, 165-205).
THEOREM AlertsAreRecorded == Spec => NoAlertWithoutRecord
<1> DEFINE Recorded(a) ==
             /\ \A p \in DOMAIN batch : [key |-> p, level |-> batch[p]] \in stored
             /\ a.fp.kind = "position" =>
                  [key |-> a.fp.key, level |-> a.fp.level] \in stored
<1>1. Init => RecordInv
  BY DEF Init, Path!Init, RecordInv
<1>2. ASSUME Path!TypeOK, RecordInv, [Next]_vars, NEW a \in sent' \ sent
      PROVE  Recorded(a)
  <2>1. AlertLoops
    BY <1>2, Raising
  <2>2. \A p \in DOMAIN batch : [key |-> p, level |-> batch[p]] \in stored
    BY <1>2, <2>1 DEF AlertLoops, RecordInv, Docs
  <2>3. ASSUME NEW c \in todo, Path!AlertZone(c) PROVE a.fp.kind = "zone"
    BY <1>2, <2>3 DEF Path!AlertZone, Path!Admit, Path!ZoneFp
  <2>4. ASSUME NEW p \in todo, Path!AlertPosition(p)
        PROVE  /\ p \in DOMAIN batch
               /\ a.fp = [kind |-> "position", key |-> p, level |-> batch[p]]
    BY <1>2, <2>4 DEF Path!AlertPosition, Path!TypeOK, Path!Admit, Path!PositionFp
  <2>5. ASSUME \/ \E c \in todo : Path!SuppressZone(c)
               \/ \E p \in todo : Path!SuppressPosition(p) \/ Path!SkipPosition(p)
               \/ Path!ZonesDone
        PROVE  FALSE
    BY <1>2, <2>5 DEF Path!SuppressZone, Path!SuppressPosition, Path!Suppress,
       Path!SkipPosition, Path!ZonesDone
  <2>6. \/ \E c \in todo : Path!AlertZone(c)
        \/ \E p \in todo : Path!AlertPosition(p)
    BY <2>1, <2>5 DEF AlertLoops
  <2>7. ASSUME a.fp.kind = "position"
        PROVE  [key |-> a.fp.key, level |-> a.fp.level] \in stored
    <3>1. PICK p \in todo : Path!AlertPosition(p)
      BY <2>3, <2>6, <2>7
    <3>2. /\ p \in DOMAIN batch
          /\ a.fp = [kind |-> "position", key |-> p, level |-> batch[p]]
      BY <2>4, <3>1
    <3>3. a.fp.key = p /\ a.fp.level = batch[p]
      BY <3>2
    <3> QED
      BY <2>2, <3>2, <3>3
  <2> QED
    BY <2>2, <2>7
<1>3. Path!TypeOK /\ RecordInv /\ [Next]_vars =>
        [\A a \in sent' \ sent : Recorded(a)]_vars
  BY <1>2
<1>4. RecordInv /\ [Next]_vars => RecordInv'
  BY RecordStep
<1> QED
  BY <1>1, <1>3, <1>4, PathTypes, PTL DEF Spec, NoAlertWithoutRecord
-----------------------------------------------------------------------------
(* Sums *)

\* Rounded quotients.
LEMMA DivMonotonic ==
  ASSUME NEW a \in Int, NEW b \in Int, NEW d \in Nat \ {0}, a <= b
  PROVE  a \div d <= b \div d
OBVIOUS

LEMMA DivExact ==
  ASSUME NEW a \in Nat, NEW d \in Nat \ {0}
  PROVE  (a * d) \div d = a
OBVIOUS

\* As many numbers as one counts.
LEMMA FirstNumbers ==
  ASSUME NEW m \in Nat
  PROVE  IsFiniteSet(0 .. m - 1) /\ Cardinality(0 .. m - 1) = m
<1> DEFINE b == m - 1
<1>1. b \in Int /\ b + 1 = m
  OBVIOUS
<1> HIDE DEF b
<1>2. IsFiniteSet(0 .. b) /\ Cardinality(0 .. b) = IF 0 > b THEN 0 ELSE b - 0 + 1
  BY <1>1, FS_Interval
<1>3. IsFiniteSet(0 .. b) /\ Cardinality(0 .. b) = m
  BY <1>1, <1>2
<1> QED
  BY <1>3 DEF b

\* Subsets of a finite set can be taken by their size: a smallest counterexample
\* stands for an induction.
LEMMA MinimalSet ==
  ASSUME NEW S, IsFiniteSet(S), NEW B \in SUBSET SUBSET S, B # {}
  PROVE  \E s \in B : \A t \in SUBSET s : t # s => t \notin B
<1>1. B \subseteq FiniteSubsetsOf(S)
  BY FS_Subset DEF FiniteSubsetsOf
<1>2. PICK s \in B : \A t \in B : ~ (<<t, s>> \in StrictSubsetOrdering(S))
  BY <1>1, FS_StrictSubsetOrderingWellFounded, WFMin
<1>3. ASSUME NEW t \in SUBSET s, t # s PROVE t \notin B
  BY <1>2, <1>3 DEF StrictSubsetOrdering
<1> QED
  BY <1>2, <1>3

\* The elements of S, each in as many copies as f counts.
Area(f, S) == {c \in S \X Nat : c[2] < f[c[1]]}

\* One more element adds its count.
LEMMA AreaStep ==
  ASSUME NEW f, NEW S, NEW x \in S, f[x] \in Nat, IsFiniteSet(Area(f, S \ {x}))
  PROVE  /\ IsFiniteSet(Area(f, S))
         /\ Cardinality(Area(f, S)) = f[x] + Cardinality(Area(f, S \ {x}))
<1> DEFINE A == Area(f, S \ {x})
           T == {x} \X (0 .. f[x] - 1)
<1>1. Area(f, S) = A \cup T /\ A \cap T = {}
  BY DEF Area
<1>2. IsFiniteSet(T) /\ Cardinality(T) = f[x]
  <2>1. IsFiniteSet(0 .. f[x] - 1) /\ Cardinality(0 .. f[x] - 1) = f[x]
    BY FirstNumbers
  <2>2. IsFiniteSet({x}) /\ Cardinality({x}) = 1
    BY FS_Singleton
  <2> DEFINE I == 0 .. f[x] - 1
  <2> HIDE DEF I
  <2>3. IsFiniteSet({x} \X I) /\ Cardinality({x} \X I) = Cardinality({x}) * Cardinality(I)
    BY <2>1, <2>2, FS_Product DEF I
  <2> QED
    BY <2>1, <2>2, <2>3 DEF I
<1>3. /\ IsFiniteSet(A \cup T)
      /\ Cardinality(A \cup T) = Cardinality(A) + Cardinality(T) - Cardinality(A \cap T)
  BY <1>2, FS_Union
<1>4. Cardinality(A \cap T) = 0 /\ Cardinality(A) \in Nat
  BY <1>1, FS_EmptySet, FS_CardinalityType
<1> QED
  BY <1>1, <1>2, <1>3, <1>4

\* Finitely many copies.
LEMMA AreaFinite ==
  ASSUME NEW S, IsFiniteSet(S), NEW f, \A x \in S : f[x] \in Nat
  PROVE  \A s \in SUBSET S : IsFiniteSet(Area(f, s))
<1> DEFINE B == {s \in SUBSET S : ~ IsFiniteSet(Area(f, s))}
<1> SUFFICES ASSUME B # {} PROVE FALSE
  OBVIOUS
<1>1. PICK s \in B : \A t \in SUBSET s : t # s => t \notin B
  <2>1. B \in SUBSET SUBSET S
    OBVIOUS
  <2> HIDE DEF B
  <2> QED
    BY <2>1, MinimalSet
<1>2. s # {}
  <2>1. Area(f, {}) = {}
    BY DEF Area
  <2> QED
    BY <2>1, FS_EmptySet
<1>3. PICK x \in s : TRUE
  BY <1>2
<1>4. IsFiniteSet(Area(f, s \ {x}))
  BY <1>1, <1>3
<1> QED
  BY <1>1, <1>3, <1>4, AreaStep

\* A sum is the number of copies: the sets of copies satisfy the equation that the
\* fold is defined by, and nothing else does.
LEMMA SumIsArea ==
  ASSUME NEW f, IsFiniteSet(DOMAIN f), \A x \in DOMAIN f : f[x] \in Nat
  PROVE  SumFunction(f) = Cardinality(Area(f, DOMAIN f))
<1> DEFINE S == DOMAIN f
           Some(s) == CHOOSE x \in s : TRUE
           Sums(g) == g = [s \in SUBSET S |->
                             IF s = {} THEN 0 ELSE f[Some(s)] + g[s \ {Some(s)}]]
           area == [s \in SUBSET S |-> Cardinality(Area(f, s))]
           iter == CHOOSE g : Sums(g)
<1>1. SumFunction(f) = iter[S]
  BY DEF SumFunction, SumFunctionOnSet, FoldFunctionOnSet, MapThenFoldSet
<1>2. \A s \in SUBSET S : s # {} => Some(s) \in s
  OBVIOUS
<1>3. Area(f, {}) = {} /\ Cardinality({}) = 0
  BY FS_EmptySet DEF Area
<1>4. \A s \in SUBSET S : s # {} =>
        Cardinality(Area(f, s)) = f[Some(s)] + Cardinality(Area(f, s \ {Some(s)}))
  <2> SUFFICES ASSUME NEW s \in SUBSET S, s # {}
               PROVE  Cardinality(Area(f, s)) = f[Some(s)] + Cardinality(Area(f, s \ {Some(s)}))
    OBVIOUS
  <2>1. Some(s) \in s
    BY <1>2
  <2> HIDE DEF Some
  <2>2. IsFiniteSet(Area(f, s \ {Some(s)})) /\ f[Some(s)] \in Nat
    BY <2>1, AreaFinite
  <2> QED
    BY <2>1, <2>2, AreaStep
<1> HIDE DEF Some
<1>5. Sums(area)
  BY <1>2, <1>3, <1>4
<1>6. Sums(iter)
  <2> HIDE DEF Sums, area
  <2> QED
    BY <1>5
<1> HIDE DEF iter
<1>7. \A s \in SUBSET S : iter[s] = IF s = {} THEN 0 ELSE f[Some(s)] + iter[s \ {Some(s)}]
  BY <1>6
<1>8. \A s \in SUBSET S : iter[s] = Cardinality(Area(f, s))
  <2> DEFINE B == {s \in SUBSET S : iter[s] # Cardinality(Area(f, s))}
  <2> SUFFICES ASSUME B # {} PROVE FALSE
    OBVIOUS
  <2>1. PICK s \in B : \A t \in SUBSET s : t # s => t \notin B
    <3>1. B \in SUBSET SUBSET S
      OBVIOUS
    <3> HIDE DEF B
    <3> QED
      BY <3>1, MinimalSet
  <2>2. s # {}
    BY <1>3, <1>7
  <2>3. Some(s) \in s /\ s \in SUBSET S
    BY <1>2, <2>2
  <2>4. iter[s \ {Some(s)}] = Cardinality(Area(f, s \ {Some(s)}))
    BY <2>1, <2>3
  <2> QED
    BY <1>4, <1>7, <2>2, <2>3, <2>4
<1> QED
  BY <1>1, <1>8

\* Sums of natural numbers: their type, their order and a bound.
LEMMA SumNat ==
  ASSUME NEW f, IsFiniteSet(DOMAIN f), \A x \in DOMAIN f : f[x] \in Nat
  PROVE  SumFunction(f) \in Nat
BY SumIsArea, AreaFinite, FS_CardinalityType

LEMMA SumMonotonic ==
  ASSUME NEW f, NEW g, IsFiniteSet(DOMAIN f), DOMAIN g = DOMAIN f,
         \A x \in DOMAIN f : f[x] \in Nat /\ g[x] \in Nat /\ f[x] <= g[x]
  PROVE  SumFunction(f) <= SumFunction(g)
<1> DEFINE S == DOMAIN f
<1>1. Area(f, S) \in SUBSET Area(g, S)
  BY DEF Area
<1>2. IsFiniteSet(Area(g, S))
  BY AreaFinite
<1>3. Cardinality(Area(f, S)) <= Cardinality(Area(g, S))
  BY <1>1, <1>2, FS_Subset
<1> QED
  BY <1>3, SumIsArea

LEMMA SumBound ==
  ASSUME NEW f, IsFiniteSet(DOMAIN f), NEW m \in Nat,
         \A x \in DOMAIN f : f[x] \in Nat /\ f[x] <= m
  PROVE  /\ Cardinality(DOMAIN f) \in Nat
         /\ SumFunction(f) <= Cardinality(DOMAIN f) * m
<1> DEFINE S == DOMAIN f
           I == 0 .. m - 1
<1>1. IsFiniteSet(I) /\ Cardinality(I) = m
  BY FirstNumbers
<1>2. Area(f, S) \in SUBSET (S \X I)
  BY DEF Area
<1> HIDE DEF I
<1>3. IsFiniteSet(S \X I) /\ Cardinality(S \X I) = Cardinality(S) * Cardinality(I)
  BY <1>1, FS_Product
<1>4. Cardinality(Area(f, S)) <= Cardinality(S \X I)
  BY <1>2, <1>3, FS_Subset
<1>5. Cardinality(S) \in Nat
  BY FS_CardinalityType
<1> QED
  BY <1>1, <1>3, <1>4, <1>5, SumIsArea
-----------------------------------------------------------------------------
(* The score of a zone *)

LEMMA MinOfTwo ==
  ASSUME NEW a \in Int, NEW b \in Int
  PROVE  /\ Min({a, b}) = IF a <= b THEN a ELSE b
         /\ Max({a, b}) = IF a <= b THEN b ELSE a
BY DEF Min, Max

\* The gap is between none and 0.15 for each member.
LEMMA GapFacts ==
  ASSUME NEW sum \in Nat, NEW n \in Nat \ {0}
  PROVE  HfGap(sum, n) =
           IF sum <= 100 * n THEN 0
           ELSE IF sum <= 115 * n THEN sum - 100 * n ELSE 15 * n
<1> DEFINE a == sum - 100 * n
           m == Max({a, 0})
<1>1. m = IF a <= 0 THEN 0 ELSE a
  <2>1. a \in Int
    OBVIOUS
  <2> HIDE DEF a
  <2> QED
    BY <2>1, MinOfTwo
<1>2. m \in Int /\ 15 * n \in Int
  BY <1>1
<1> HIDE DEF m
<1>3. Min({m, 15 * n}) = IF m <= 15 * n THEN m ELSE 15 * n
  BY <1>2, MinOfTwo
<1> QED
  BY <1>1, <1>3 DEF HfGap, m

\* The part of the probability that the average health factor gives.
Closeness(sum, n) == (55000 * (15 * n - HfGap(sum, n))) \div (15 * n)

LEMMA ClosenessFacts ==
  ASSUME NEW sum \in Nat, NEW n \in Nat \ {0}
  PROVE  /\ Closeness(sum, n) \in Nat
         /\ \A less \in 0 .. sum : Closeness(sum, n) <= Closeness(less, n)
         /\ sum <= 100 * n => Closeness(sum, n) = 55000
<1> DEFINE gap(s) == HfGap(s, n)
<1>1. \A s \in Nat : gap(s) \in 0 .. 15 * n
  BY GapFacts
<1>2. \A less \in 0 .. sum : gap(less) <= gap(sum)
  BY GapFacts
<1> DEFINE d == 15 * n
           a(s) == 55000 * (d - gap(s))
<1>3. d \in Nat \ {0}
  OBVIOUS
<1> HIDE DEF d, gap
<1>4. \A s \in Nat : a(s) \in Nat /\ gap(s) \in Int
  BY <1>1, <1>3 DEF d
<1>5. \A less \in 0 .. sum : a(sum) <= a(less)
  BY <1>2, <1>3, <1>4
<1>6. sum <= 100 * n => a(sum) = 55000 * d
  <2>1. sum <= 100 * n => gap(sum) = 0
    BY GapFacts DEF gap
  <2> QED
    BY <1>3, <2>1
<1> HIDE DEF a
<1>7. \A s : Closeness(s, n) = a(s) \div d
  BY DEF Closeness, a, d, gap
<1>8. a(sum) \div d \in Nat
  BY <1>3, <1>4
<1>9. \A less \in 0 .. sum : a(sum) \div d <= a(less) \div d
  BY <1>3, <1>4, <1>5, DivMonotonic
<1>10. (55000 * d) \div d = 55000
  BY <1>3, DivExact
<1> QED
  BY <1>6, <1>7, <1>8, <1>9, <1>10

\* A probability in full.
LEMMA ProbabilityFacts ==
  ASSUME NEW sum \in Nat, NEW n \in Nat \ {0}, NEW coll \in Nat
  PROVE  LET total == Closeness(sum, n) + 3000 * (IF n <= 10 THEN n ELSE 10)
                        + 3 * (IF coll <= 5000 THEN coll ELSE 5000)
         IN  ClusterProbability(sum, n, coll) =
               IF total <= 99000 THEN total ELSE 99000
<1> DEFINE total == Closeness(sum, n) + 3000 * (IF n <= 10 THEN n ELSE 10)
                      + 3 * (IF coll <= 5000 THEN coll ELSE 5000)
<1>1. /\ Min({n, 10}) = IF n <= 10 THEN n ELSE 10
      /\ Min({coll, 5000}) = IF coll <= 5000 THEN coll ELSE 5000
  BY MinOfTwo
<1>2. ClusterProbability(sum, n, coll) = Min({total, 99000})
  <2>1. ClusterProbability(sum, n, coll) =
          Min({Closeness(sum, n) + 3000 * Min({n, 10})
                           + 3 * Min({coll, 5000}), 99000})
    BY DEF ClusterProbability, Closeness, UsdRisk
  <2> QED
    BY <1>1, <2>1
<1>3. total \in Int
  BY ClosenessFacts
<1> HIDE DEF total
<1>4. Min({total, 99000}) = IF total <= 99000 THEN total ELSE 99000
  BY <1>3, MinOfTwo
<1> QED
  BY <1>2, <1>4 DEF total

\* What the weight of the collateral may lose: at most 0.15.
Lost(coll, left) ==
  IF UsdRisk(coll) - UsdRisk(left) > 0 THEN UsdRisk(coll) - UsdRisk(left) ELSE 0

LEMMA LostFacts ==
  ASSUME NEW coll \in Nat, NEW left \in Nat
  PROVE  /\ UsdRisk(coll) = 3 * (IF coll <= 5000 THEN coll ELSE 5000)
         /\ UsdRisk(left) = 3 * (IF left <= 5000 THEN left ELSE 5000)
         /\ Lost(coll, left) \in Nat
         /\ Lost(coll, left) <= 15000
<1>1. /\ Min({coll, 5000}) = IF coll <= 5000 THEN coll ELSE 5000
      /\ Min({left, 5000}) = IF left <= 5000 THEN left ELSE 5000
  BY MinOfTwo
<1>2. /\ UsdRisk(coll) = 3 * (IF coll <= 5000 THEN coll ELSE 5000)
      /\ UsdRisk(left) = 3 * (IF left <= 5000 THEN left ELSE 5000)
  BY <1>1 DEF UsdRisk
<1>3. /\ UsdRisk(coll) \in Nat /\ UsdRisk(left) \in Nat
      /\ UsdRisk(coll) <= 15000
  BY <1>2
<1>4. Lost(coll, left) \in Nat /\ Lost(coll, left) <= 15000
  <2> DEFINE a == UsdRisk(coll)
             c == UsdRisk(left)
  <2>1. a \in Nat /\ c \in Nat /\ a <= 15000
    BY <1>3
  <2>2. Lost(coll, left) = IF a - c > 0 THEN a - c ELSE 0
    BY DEF Lost
  <2> HIDE DEF a, c
  <2> QED
    BY <2>1, <2>2
<1> QED
  BY <1>2, <1>4

\* When the health factors fall the score falls by no more than the weight that the
\* collateral lost; and liquidatable positions score 0.55 at least.
LEMMA ProbabilityMonotonic ==
  ASSUME NEW sum \in Nat, NEW n \in Nat \ {0}, NEW coll \in Nat,
         NEW less \in Nat, less <= sum, NEW left \in Nat
  PROVE  /\ ClusterProbability(sum, n, coll) \in Nat
         /\ ClusterProbability(less, n, left)
              >= ClusterProbability(sum, n, coll) - Lost(coll, left)
         /\ sum <= 100 * n => ClusterProbability(sum, n, coll) >= 55000
<1>1. /\ Closeness(sum, n) \in Nat /\ Closeness(less, n) \in Nat
      /\ Closeness(sum, n) <= Closeness(less, n)
      /\ sum <= 100 * n => Closeness(sum, n) = 55000
  BY ClosenessFacts
<1> DEFINE network == 3000 * (IF n <= 10 THEN n ELSE 10)
<1>2. network \in Nat
  OBVIOUS
<1>3. /\ UsdRisk(coll) \in Nat /\ UsdRisk(left) \in Nat
      /\ UsdRisk(coll) = 3 * (IF coll <= 5000 THEN coll ELSE 5000)
      /\ UsdRisk(left) = 3 * (IF left <= 5000 THEN left ELSE 5000)
  <2>1. /\ UsdRisk(coll) = 3 * (IF coll <= 5000 THEN coll ELSE 5000)
        /\ UsdRisk(left) = 3 * (IF left <= 5000 THEN left ELSE 5000)
    BY LostFacts
  <2> QED
    BY <2>1
<1>4. /\ ClusterProbability(sum, n, coll) =
           (IF Closeness(sum, n) + network + UsdRisk(coll) <= 99000
              THEN Closeness(sum, n) + network + UsdRisk(coll) ELSE 99000)
      /\ ClusterProbability(less, n, left) =
           (IF Closeness(less, n) + network + UsdRisk(left) <= 99000
              THEN Closeness(less, n) + network + UsdRisk(left) ELSE 99000)
  BY <1>3, ProbabilityFacts
<1> HIDE DEF network
<1> QED
  BY <1>1, <1>2, <1>3, <1>4 DEF Lost

\* A loss of 0.15 is less than any level but the lowest spans.
\* What the severity may fall: one level, when the collateral lost weight.
Fall(lost) == IF lost > 0 THEN 1 ELSE 0

LEMMA SeverityMonotonic ==
  \A p, q, d, e \in Int, lost \in Nat :
    (lost <= 15000 /\ q >= p - lost /\ d <= e) =>
       SevRank[Severity(q, e)] >= SevRank[Severity(p, d)] - Fall(lost)
BY DEF Severity, Severities, SevRank, Fall

LEMMA SeverityFacts ==
  ASSUME NEW p \in Int, NEW d \in Int
  PROVE  /\ Severity(p, d) \in Severities
         /\ p >= 40000 => Severity(p, d) # "LOW"
BY DEF Severity, Severities

LEMMA TimeMonotonic ==
  ASSUME NEW sum \in Nat, NEW n \in Nat \ {0}, NEW less \in Nat, less <= sum
  PROVE  TimeToCascade(less, n) <= TimeToCascade(sum, n)
<1> DEFINE t(s) == (9 * (s - 100 * n)) \div n
           u(s) == Max({t(s), 15})
<1>1. t(less) \in Int /\ t(sum) \in Int
  OBVIOUS
<1>2. t(less) <= t(sum)
  <2>1. /\ 9 * (less - 100 * n) \in Int /\ 9 * (sum - 100 * n) \in Int
        /\ 9 * (less - 100 * n) <= 9 * (sum - 100 * n)
    OBVIOUS
  <2> QED
    BY <2>1, DivMonotonic
<1> HIDE DEF t
<1>3. /\ u(less) = IF t(less) <= 15 THEN 15 ELSE t(less)
      /\ u(sum) = IF t(sum) <= 15 THEN 15 ELSE t(sum)
  <2>1. ASSUME NEW a \in Int PROVE Max({a, 15}) = IF a <= 15 THEN 15 ELSE a
    BY MinOfTwo
  <2> QED
    BY <1>1, <2>1
<1> HIDE DEF u
<1>4. u(less) \in Int /\ u(sum) \in Int /\ u(less) <= u(sum)
  BY <1>1, <1>2, <1>3
<1>5. /\ Min({u(less), 240}) = IF u(less) <= 240 THEN u(less) ELSE 240
      /\ Min({u(sum), 240}) = IF u(sum) <= 240 THEN u(sum) ELSE 240
  BY <1>4, MinOfTwo
<1> QED
  BY <1>4, <1>5 DEF TimeToCascade, t, u
-----------------------------------------------------------------------------
(* Cascade detection *)

\* A book of positions, of any size.
BookOK(b) ==
  /\ IsFiniteSet(DOMAIN b) /\ DOMAIN b \subseteq PositionIds
  /\ b \in [DOMAIN b -> [on : Symbols, coll : Nat, debt : Nat, hf : Nat]]

\* What is said of a zone, in the sums over its members.
Healths(b, m) == [p \in m |-> b[p].hf]
Collateral(b, m) == [p \in m |-> b[p].coll]
Debt(b, m) == [p \in m |-> b[p].debt]

LEMMA ZoneFacts ==
  ASSUME NEW b, BookOK(b), NEW c \in DOMAIN DetectZones(b)
  PROVE  LET m == Bucket(b, c)
             n == Cardinality(m)
             z == DetectZones(b)[c]
         IN  /\ c \in Symbols /\ m \subseteq DOMAIN b
             /\ IsFiniteSet(m) /\ n \in Nat \ {0}
             /\ z.members = m
             /\ z.coll = SumFunction(Collateral(b, m))
             /\ z.prob = ClusterProbability(SumFunction(Healths(b, m)), n,
                                          SumFunction(Collateral(b, m)))
             /\ z.severity = Severity(z.prob, SumFunction(Debt(b, m)))
             /\ z.minutes = TimeToCascade(SumFunction(Healths(b, m)), n)
<1> DEFINE m == Bucket(b, c)
           n == Cardinality(m)
           z == DetectZones(b)[c]
<1>1. c \in Symbols /\ n >= MinClusterSize /\ z = Zone(b, m)
  BY DEF DetectZones
<1>2. m \in SUBSET DOMAIN b
  BY DEF Bucket
<1>3. IsFiniteSet(m) /\ n \in Nat
  BY <1>2, FS_Subset, FS_CardinalityType DEF BookOK
<1>4. n # 0
  BY <1>1, <1>3, MinClusterAssumption
<1> HIDE DEF m
<1>5. /\ z.members = m
      /\ z.coll = SumFunction(Collateral(b, m))
      /\ z.prob = ClusterProbability(SumFunction(Healths(b, m)), n,
                                   SumFunction(Collateral(b, m)))
      /\ z.severity = Severity(z.prob, SumFunction(Debt(b, m)))
      /\ z.minutes = TimeToCascade(SumFunction(Healths(b, m)), n)
  BY <1>1 DEF Zone, Healths, Collateral, Debt
<1> QED
  BY <1>1, <1>2, <1>3, <1>4, <1>5 DEF m

\* The sums are natural numbers.
LEMMA SumTypes ==
  ASSUME NEW b, BookOK(b), NEW m, m \subseteq DOMAIN b, IsFiniteSet(m)
  PROVE  /\ SumFunction(Healths(b, m)) \in Nat
         /\ SumFunction(Collateral(b, m)) \in Nat
         /\ SumFunction(Debt(b, m)) \in Nat
<1>1. /\ DOMAIN Healths(b, m) = m /\ DOMAIN Collateral(b, m) = m /\ DOMAIN Debt(b, m) = m
      /\ \A p \in m : Healths(b, m)[p] \in Nat
  BY DEF Healths, Collateral, Debt, BookOK
<1>2. \A p \in m : Collateral(b, m)[p] \in Nat /\ Debt(b, m)[p] \in Nat
  BY DEF Collateral, Debt, BookOK
<1> QED
  BY <1>1, <1>2, SumNat

\* A zone that got worse scores no better than by the collateral it lost.
LEMMA Worsening ==
  ASSUME NEW b, BookOK(b), NEW e, BookOK(e),
         NEW c \in DOMAIN DetectZones(b) \cap DOMAIN DetectZones(e),
         Bucket(e, c) = Bucket(b, c),
         \A p \in Bucket(b, c) : e[p].hf <= b[p].hf /\ e[p].debt >= b[p].debt
  PROVE  LET z == DetectZones(b)[c]
             y == DetectZones(e)[c]
         IN  /\ y.prob >= z.prob - Lost(z.coll, y.coll)
             /\ SevRank[y.severity]
                  >= SevRank[z.severity] - (IF Lost(z.coll, y.coll) > 0 THEN 1 ELSE 0)
             /\ y.minutes <= z.minutes
<1> DEFINE m == Bucket(b, c)
           n == Cardinality(m)
           z == DetectZones(b)[c]
           y == DetectZones(e)[c]
           h == SumFunction(Healths(b, m))
           less == SumFunction(Healths(e, m))
           k == SumFunction(Collateral(b, m))
           left == SumFunction(Collateral(e, m))
           d == SumFunction(Debt(b, m))
           deeper == SumFunction(Debt(e, m))
<1>1. /\ m \subseteq DOMAIN b /\ IsFiniteSet(m) /\ n \in Nat \ {0}
      /\ z.coll = k
      /\ z.prob = ClusterProbability(h, n, k)
      /\ z.severity = Severity(z.prob, d)
      /\ z.minutes = TimeToCascade(h, n)
  BY ZoneFacts
<1>2. /\ m \subseteq DOMAIN e
      /\ y.coll = left
      /\ y.prob = ClusterProbability(less, n, left)
      /\ y.severity = Severity(y.prob, deeper)
      /\ y.minutes = TimeToCascade(less, n)
  BY ZoneFacts
<1>3. \A p \in m : e[p].hf <= b[p].hf /\ e[p].debt >= b[p].debt
  OBVIOUS
<1> HIDE DEF m, z, y
<1>4. h \in Nat /\ less \in Nat /\ k \in Nat /\ left \in Nat /\ d \in Nat /\ deeper \in Nat
  BY <1>1, <1>2, SumTypes
<1>5. less <= h
  <2>1. /\ DOMAIN Healths(e, m) = m /\ DOMAIN Healths(b, m) = m
        /\ \A p \in m : /\ Healths(e, m)[p] \in Nat /\ Healths(b, m)[p] \in Nat
                        /\ Healths(e, m)[p] <= Healths(b, m)[p]
    BY <1>1, <1>2, <1>3 DEF Healths, BookOK
  <2> QED
    BY <1>1, <2>1, SumMonotonic
<1>6. d <= deeper
  <2>1. /\ DOMAIN Debt(e, m) = m /\ DOMAIN Debt(b, m) = m
        /\ \A p \in m : /\ Debt(e, m)[p] \in Nat /\ Debt(b, m)[p] \in Nat
                        /\ Debt(b, m)[p] <= Debt(e, m)[p]
    BY <1>1, <1>2, <1>3 DEF Debt, BookOK
  <2> QED
    BY <1>1, <2>1, SumMonotonic
<1> HIDE DEF h, less, k, left, d, deeper, n
<1> DEFINE lost == Lost(k, left)
<1>7. lost \in Nat /\ lost <= 15000
  BY <1>4, LostFacts
<1>8. z.prob \in Nat /\ y.prob \in Nat /\ y.prob >= z.prob - lost
  <2>1. n \in Nat \ {0} /\ less <= less
    BY <1>1, <1>4
  <2>2. /\ ClusterProbability(h, n, k) \in Nat
        /\ ClusterProbability(less, n, left) >= ClusterProbability(h, n, k) - Lost(k, left)
    BY <1>4, <1>5, <2>1, ProbabilityMonotonic
  <2>3. ClusterProbability(less, n, left) \in Nat
    BY <1>4, <2>1, ProbabilityMonotonic
  <2> QED
    BY <1>1, <1>2, <2>2, <2>3
<1> HIDE DEF lost
<1>9. SevRank[y.severity] >= SevRank[z.severity] - (IF lost > 0 THEN 1 ELSE 0)
  <2>1. SevRank[Severity(y.prob, deeper)]
          >= SevRank[Severity(z.prob, d)] - (IF lost > 0 THEN 1 ELSE 0)
    <3> DEFINE q == y.prob
               p == z.prob
    <3>1. p \in Int /\ q \in Int /\ q >= p - lost /\ d \in Int /\ deeper \in Int
      BY <1>4, <1>8
    <3> HIDE DEF p, q
    <3>2. SevRank[Severity(q, deeper)] >= SevRank[Severity(p, d)] - Fall(lost)
      BY <1>6, <1>7, <3>1, SeverityMonotonic
    <3> QED
      BY <3>2 DEF p, q, Fall
  <2> QED
    BY <1>1, <1>2, <2>1
<1>10. y.minutes <= z.minutes
  BY <1>1, <1>2, <1>4, <1>5, TimeMonotonic
<1> QED
  BY <1>1, <1>2, <1>8, <1>9, <1>10 DEF z, y, lost

\* What the alert path assumes is true of a book, at the default threshold.
LEMMA Within ==
  ASSUME AtRiskHf = 115, BookOK(book)
  PROVE  WithinAlertPath
<1> DEFINE tiers == [p \in DOMAIN book |-> RiskLevel(book[p].hf)]
           on == [p \in DOMAIN book |-> book[p].on]
           zs == DetectZones(book)
           labels == [c \in DOMAIN zs |-> zs[c].severity]
<1>1. on \in [DOMAIN tiers -> Symbols]
  BY DEF BookOK
<1>2. \A c : Reckoned!Members(tiers, on, c) = Bucket(book, c)
  <2>1. \A p \in DOMAIN book : AtRisk(tiers[p]) <=> book[p].hf < 115
    BY DEF AtRisk, RiskLevel, BookOK
  <2> QED
    BY <2>1 DEF Reckoned!Members, Reckoned!AtRisk, AtRisk, Bucket
<1>3. DOMAIN labels = Reckoned!ZoneKeys(tiers, on)
  <2>1. \A S : Reckoned!Cardinality(S) = Cardinality(S)
    BY DEF Reckoned!Cardinality, Cardinality
  <2> QED
    BY <1>2, <2>1 DEF Reckoned!ZoneKeys, DetectZones
<1>4. ASSUME NEW c \in DOMAIN labels
      PROVE  labels[c] \in Severities /\ Reckoned!CanScore(tiers, on, c, labels[c])
  <2> DEFINE m == Bucket(book, c)
             n == Cardinality(m)
             h == SumFunction(Healths(book, m))
             k == SumFunction(Collateral(book, m))
             d == SumFunction(Debt(book, m))
  <2>1. /\ m \subseteq DOMAIN book /\ IsFiniteSet(m) /\ n \in Nat \ {0}
        /\ zs[c].prob = ClusterProbability(h, n, k)
        /\ labels[c] = Severity(zs[c].prob, d)
    BY ZoneFacts
  <2> HIDE DEF m
  <2>2. h \in Nat /\ k \in Nat /\ d \in Nat
    BY <2>1, SumTypes
  <2>3. /\ zs[c].prob \in Nat
        /\ h <= 100 * n => zs[c].prob >= 55000
    <3> HIDE DEF h, k, n
    <3>1. h <= h
      BY <2>2
    <3> QED
      BY <2>1, <2>2, <3>1, ProbabilityMonotonic
  <2>4. labels[c] \in Severities /\ (zs[c].prob >= 40000 => labels[c] # "LOW")
    <3> HIDE DEF d, zs, labels
    <3> QED
      BY <2>1, <2>2, <2>3, SeverityFacts
  <2>5. ASSUME labels[c] = "LOW" PROVE \E p \in m : tiers[p] # "CRITICAL"
    <3>1. ~ (h <= 100 * n)
      BY <2>3, <2>4, <2>5
    <3>2. PICK p \in m : book[p].hf >= 100
      <4> SUFFICES ASSUME \A p \in m : ~ (book[p].hf >= 100) PROVE FALSE
        OBVIOUS
      <4>1. /\ DOMAIN Healths(book, m) = m
            /\ \A p \in m : Healths(book, m)[p] \in Nat /\ Healths(book, m)[p] <= 100
        BY <2>1 DEF Healths, BookOK
      <4>2. h <= n * 100
        BY <2>1, <4>1, SumBound
      <4> QED
        BY <2>1, <2>2, <3>1, <4>2
    <3>3. tiers[p] # "CRITICAL"
      BY <2>1, <3>2 DEF RiskLevel, BookOK
    <3> QED
      BY <3>3
  <2> QED
    BY <1>2, <2>4, <2>5 DEF Reckoned!CanScore, m
<1>5. labels \in [Reckoned!ZoneKeys(tiers, on) -> Reckoned!Severities]
  <2>1. Reckoned!Severities = Severities
    BY DEF Reckoned!Severities, Severities
  <2> QED
    BY <1>3, <1>4, <2>1
<1> HIDE DEF tiers, on, labels
<1>6. labels \in Reckoned!ZonesOf(tiers)
  BY <1>1, <1>3, <1>4, <1>5 DEF Reckoned!ZonesOf
<1> QED
  BY <1>6 DEF WithinAlertPath, RiskLevel, labels, tiers

LEMMA BookStarts == BookInit => BookOK(book)
BY FS_EmptySet DEF BookInit, BookOK

LEMMA BookMoves ==
  BookOK(book) /\ [BookNext]_book => BookOK(book')
<1> SUFFICES ASSUME BookOK(book), [BookNext]_book PROVE BookOK(book')
  OBVIOUS
<1> DEFINE Entry == [on : Symbols, coll : Nat, debt : Nat, hf : Nat]
<1>1. \A c \in Symbols, r \in Readings : Position(c, r) \in Entry
  BY ReadingsAssumption DEF Position
<1>2. ASSUME NEW p \in PositionIds, NEW c \in Symbols, NEW r \in Readings, Open(p, c, r)
      PROVE  BookOK(book')
  <2>1. IsFiniteSet(DOMAIN book \cup {p})
    BY FS_AddElement DEF BookOK
  <2> QED
    BY <1>1, <1>2, <2>1 DEF Open, BookOK
<1>3. ASSUME NEW p \in DOMAIN book, Close(p) PROVE BookOK(book')
  <2>1. IsFiniteSet(DOMAIN book \ {p})
    BY FS_RemoveElement DEF BookOK
  <2> QED
    BY <1>3, <2>1 DEF Close, BookOK
<1>4. ASSUME NEW r \in [DOMAIN book -> Readings], Move(r) PROVE BookOK(book')
  <2>1. \A p \in DOMAIN book : book[p].on \in Symbols /\ r[p] \in Readings
    BY DEF BookOK
  <2> QED
    BY <1>1, <1>4, <2>1 DEF Move, BookOK
<1>5. CASE book' = book
  BY <1>5
<1> QED
  BY <1>2, <1>3, <1>4, <1>5 DEF BookNext

\* What the alert path is told of detect_zones, and the loop hands on to it, holds
\* of its arithmetic at the default threshold, for a book of any size: the zones
\* are the large enough buckets of positions that are not SAFE, and one of
\* liquidatable positions only is never LOW.
THEOREM DetectionWithinPath ==
  ASSUME AtRiskHf = 115
  PROVE  BookSpec => []WithinAlertPath
<1>1. BookOK(book) /\ [BookNext]_book => BookOK(book)'
  BY BookMoves DEF BookOK
<1>2. BookOK(book) => WithinAlertPath
  BY Within
<1> QED
  BY <1>1, <1>2, BookStarts, PTL DEF BookSpec

\* While a zone keeps its members and they get worse, the score falls by the weight
\* of the collateral's lost value at most and the severity by one level; nothing
\* else calms a zone down (cascade.py:105-138, 234-243).
THEOREM WorseningIsHardlyCalmed == BookSpec => WorseningBarelyCalms
<1>1. BookOK(book) /\ [BookNext]_book => BookOK(book)'
  BY BookMoves DEF BookOK
<1> DEFINE Calm(b, e) ==
             \A c \in DOMAIN DetectZones(b) \cap DOMAIN DetectZones(e) :
               LET z == DetectZones(b)[c]
                   y == DetectZones(e)[c]
                   worse(p) == e[p].hf <= b[p].hf /\ e[p].debt >= b[p].debt
                   lost == UsdRisk(z.coll) - UsdRisk(y.coll)
               IN  (y.members = z.members /\ \A p \in z.members : worse(p)) =>
                      /\ y.prob >= z.prob - (IF lost > 0 THEN lost ELSE 0)
                      /\ SevRank[y.severity]
                           >= SevRank[z.severity] - (IF lost > 0 THEN 1 ELSE 0)
                      /\ y.minutes <= z.minutes
<1>2. ASSUME NEW b, BookOK(b), NEW e, BookOK(e) PROVE Calm(b, e)
  <2> SUFFICES ASSUME NEW c \in DOMAIN DetectZones(b) \cap DOMAIN DetectZones(e),
                      DetectZones(e)[c].members = DetectZones(b)[c].members,
                      \A p \in DetectZones(b)[c].members :
                        e[p].hf <= b[p].hf /\ e[p].debt >= b[p].debt
               PROVE  LET z == DetectZones(b)[c]
                          y == DetectZones(e)[c]
                          lost == UsdRisk(z.coll) - UsdRisk(y.coll)
                      IN  /\ y.prob >= z.prob - (IF lost > 0 THEN lost ELSE 0)
                          /\ SevRank[y.severity]
                               >= SevRank[z.severity] - (IF lost > 0 THEN 1 ELSE 0)
                          /\ y.minutes <= z.minutes
    OBVIOUS
  <2>1. /\ DetectZones(b)[c].members = Bucket(b, c)
        /\ DetectZones(e)[c].members = Bucket(e, c)
    BY <1>2, ZoneFacts
  <2> DEFINE z == DetectZones(b)[c]
             y == DetectZones(e)[c]
             lost == UsdRisk(z.coll) - UsdRisk(y.coll)
  <2>2. /\ y.prob >= z.prob - Lost(z.coll, y.coll)
        /\ SevRank[y.severity]
             >= SevRank[z.severity] - (IF Lost(z.coll, y.coll) > 0 THEN 1 ELSE 0)
        /\ y.minutes <= z.minutes
    BY <1>2, <2>1, Worsening
  <2>3. /\ Lost(z.coll, y.coll) = IF lost > 0 THEN lost ELSE 0
        /\ (IF Lost(z.coll, y.coll) > 0 THEN 1 ELSE 0) = IF lost > 0 THEN 1 ELSE 0
    <3> HIDE DEF z, y
    <3> QED
      BY DEF Lost
  <2> HIDE DEF z, y, lost
  <2>4. /\ y.prob >= z.prob - (IF lost > 0 THEN lost ELSE 0)
        /\ SevRank[y.severity] >= SevRank[z.severity] - (IF lost > 0 THEN 1 ELSE 0)
        /\ y.minutes <= z.minutes
    BY <2>2, <2>3
  <2> QED
    BY <2>4 DEF z, y, lost
<1>3. BookOK(book) /\ BookOK(book)' => [Calm(book, book')]_book
  BY <1>2 DEF BookOK
<1>4. BookOK(book) /\ [BookNext]_book => [Calm(book, book')]_book
  BY <1>1, <1>3
<1> QED
  BY <1>1, <1>4, BookStarts, PTL DEF BookSpec, WorseningBarelyCalms
=============================================================================
