------------------------- MODULE CascadeLoggerProofs -------------------------
(***************************************************************************)
(* Proofs about the prediction contract, for every window, caller and      *)
(* collateral, and for a log of any length.                                *)
(***************************************************************************)
EXTENDS CascadeLogger, TLAPS

\* A prediction is from the past or the present, and what is past in time is
\* past in blocks.
Dated ==
  \A id \in Ids :
     /\ Prediction(id).timestamp <= clock
     /\ Prediction(id).block <= height
     /\ Prediction(id).timestamp < clock => Prediction(id).block < height

-----------------------------------------------------------------------------
(* What the two writing functions do to the log *)

\* logPrediction appends one prediction, whose id is the length before.
LEMMA Logged ==
  ASSUME TypeOK, NEW bps \in Bps, NEW s \in Severity, NEW h \in Hashes,
         LogPrediction(Agent, bps, s, h)
  PROVE  /\ NewPrediction(bps, s, h) \in PredictionType
         /\ predictions' \in Seq(PredictionType)
         /\ Len(predictions') = Len(predictions) + 1
         /\ \A id \in Ids : predictions'[id + 1] = predictions[id + 1]
         /\ predictions'[Count + 1] = NewPrediction(bps, s, h)
         /\ bps <= MaxBps
<1>1. bps \in 0..MaxBps
  BY BpsAssumption DEF LogPrediction
<1>2. NewPrediction(bps, s, h) \in PredictionType
  BY <1>1 DEF NewPrediction, PredictionType, TypeOK
<1> QED
  BY <1>1, <1>2 DEF LogPrediction, TypeOK, Ids, Count

\* recordOutcome writes three fields of one open prediction.
LEMMA Recorded ==
  ASSUME TypeOK, NEW id \in Ids, NEW cascade \in BOOLEAN, RecordOutcome(id, cascade)
  PROVE  LET old == Prediction(id)
             new == predictions'[id + 1]
         IN /\ predictions' \in Seq(PredictionType)
            /\ Len(predictions') = Len(predictions)
            /\ \A other \in Ids : other # id =>
                 predictions'[other + 1] = predictions[other + 1]
            /\ ~ old.recorded
            /\ new = [old EXCEPT !.recorded = TRUE, !.occurred = cascade,
                                 !.outcomeBlock = height]
<1> DEFINE old == Prediction(id)
           set == [old EXCEPT !.recorded = TRUE, !.occurred = cascade,
                              !.outcomeBlock = height]
<1>1. old \in PredictionType /\ height \in Nat /\ id + 1 \in 1..Len(predictions)
  BY DEF TypeOK, Ids, Count, Prediction
<1>2. set \in PredictionType
  BY <1>1 DEF PredictionType
<1>3. predictions' = [predictions EXCEPT ![id + 1] = set]
  BY <1>1 DEF RecordOutcome, Settled, Prediction, TypeOK, PredictionType
<1> QED
  BY <1>1, <1>2, <1>3 DEF RecordOutcome, TypeOK, Ids, Count

-----------------------------------------------------------------------------
LEMMA TypeStep == TypeOK /\ [Next]_vars => TypeOK'
<1> SUFFICES ASSUME TypeOK, [Next]_vars PROVE TypeOK'
  OBVIOUS
<1>1. ASSUME NewBlock PROVE TypeOK'
  BY <1>1, ClockAssumption DEF NewBlock, TypeOK
<1>2. ASSUME NEW bps \in Bps, NEW s \in Severity, NEW h \in Hashes,
             LogPrediction(Agent, bps, s, h)
      PROVE  TypeOK'
  <2>1. byCollateral' \in [Hashes -> Seq(Nat)]
    BY <1>2 DEF LogPrediction, TypeOK, Count
  <2> QED
    BY <1>2, <2>1, Logged DEF LogPrediction, TypeOK
<1>3. ASSUME NEW id \in Ids, NEW cascade \in BOOLEAN, RecordOutcome(id, cascade)
      PROVE  TypeOK'
  BY <1>3, Recorded DEF RecordOutcome, TypeOK
<1>4. CASE UNCHANGED vars
  BY <1>4 DEF vars, TypeOK
<1> QED
  BY <1>1, <1>2, <1>3, <1>4 DEF Next, LogPrediction

\* Blocks and times go up together.
LEMMA DatedStep == TypeOK /\ Dated /\ [Next]_vars => Dated'
<1> SUFFICES ASSUME TypeOK, Dated, [Next]_vars PROVE Dated'
  OBVIOUS
<1>1. \A id \in Ids : Prediction(id) \in PredictionType
  BY DEF TypeOK, Ids, Count, Prediction
<1>2. ASSUME NewBlock PROVE Dated'
  <2>1. /\ clock \in Nat /\ clock' \in Nat /\ clock' > clock
        /\ height \in Nat /\ height' = height + 1
        /\ predictions' = predictions
    BY <1>2, ClockAssumption DEF NewBlock, TypeOK
  <2>2. SUFFICES ASSUME NEW id \in Ids
                 PROVE  /\ Prediction(id).timestamp <= clock'
                        /\ Prediction(id).block <= height'
                        /\ Prediction(id).timestamp < clock' => Prediction(id).block < height'
    BY <2>1 DEF Dated, Ids, Count, Prediction
  <2>3. Prediction(id).timestamp \in Nat /\ Prediction(id).block \in Nat
    BY <1>1 DEF PredictionType
  <2> QED
    BY <2>1, <2>3 DEF Dated
<1>3. ASSUME NEW bps \in Bps, NEW s \in Severity, NEW h \in Hashes,
             LogPrediction(Agent, bps, s, h)
      PROVE  Dated'
  <2>1. clock' = clock /\ height' = height /\ Ids' = Ids \cup {Count}
    BY <1>3, Logged DEF LogPrediction, Ids, Count, TypeOK
  <2>2. \A id \in Ids : predictions'[id + 1] = Prediction(id)
    BY <1>3, Logged DEF Prediction
  <2>3. predictions'[Count + 1].timestamp = clock /\ predictions'[Count + 1].block = height
    <3>1. predictions'[Count + 1] = NewPrediction(bps, s, h)
      BY <1>3, Logged
    <3> QED
      BY <3>1 DEF NewPrediction
  <2>4. clock \in Nat /\ height \in Nat
    BY DEF TypeOK
  <2>5. SUFFICES ASSUME NEW id \in Ids'
                 PROVE  LET p == predictions'[id + 1] IN
                        /\ p.timestamp <= clock /\ p.block <= height
                        /\ p.timestamp < clock => p.block < height
    BY <2>1 DEF Dated, Prediction
  <2>6. CASE id = Count
    BY <2>3, <2>4, <2>6
  <2>7. CASE id \in Ids
    BY <2>2, <2>7 DEF Dated
  <2> QED
    BY <2>1, <2>6, <2>7
<1>4. ASSUME NEW id \in Ids, NEW cascade \in BOOLEAN, RecordOutcome(id, cascade)
      PROVE  Dated'
  <2>1. clock' = clock /\ height' = height /\ Ids' = Ids
    BY <1>4, Recorded DEF RecordOutcome, Ids, Count
  <2>2. /\ predictions'[id + 1].timestamp = Prediction(id).timestamp
        /\ predictions'[id + 1].block = Prediction(id).block
    BY <1>1, <1>4, Recorded DEF PredictionType
  <2> QED
    BY <1>4, <2>1, <2>2, Recorded DEF Dated, Prediction
<1>5. CASE UNCHANGED vars
  BY <1>5 DEF vars, Dated, Ids, Count, Prediction
<1> QED
  BY <1>2, <1>3, <1>4, <1>5 DEF Next, LogPrediction

LEMMA IndexStep == TypeOK /\ IndexConsistent /\ [Next]_vars => IndexConsistent'
<1> SUFFICES ASSUME TypeOK, IndexConsistent, [Next]_vars PROVE IndexConsistent'
  OBVIOUS
<1>1. ASSUME NewBlock PROVE IndexConsistent'
  BY <1>1 DEF NewBlock, IndexConsistent, Ids, Count, Prediction
<1>2. ASSUME NEW bps \in Bps, NEW s \in Severity, NEW h \in Hashes,
             LogPrediction(Agent, bps, s, h)
      PROVE  IndexConsistent'
  <2>1. Ids' = Ids \cup {Count} /\ Count \notin Ids /\ Count \in Nat
    BY <1>2, Logged DEF Ids, Count, TypeOK
  <2>2. /\ \A id \in Ids : predictions'[id + 1] = Prediction(id)
        /\ predictions'[Count + 1].hash = h
    <3>1. predictions'[Count + 1] = NewPrediction(bps, s, h)
      BY <1>2, Logged
    <3> QED
      BY <1>2, <3>1, Logged DEF Prediction, NewPrediction
  <2>3. SUFFICES ASSUME NEW k \in Hashes
                 PROVE  LET ids == byCollateral'[k] IN
                        /\ \A i \in DOMAIN ids :
                             ids[i] \in Ids' /\ predictions'[ids[i] + 1].hash = k
                        /\ \A i, j \in DOMAIN ids : i < j => ids[i] < ids[j]
                        /\ \A id \in Ids' : predictions'[id + 1].hash = k =>
                             \E i \in DOMAIN ids : ids[i] = id
    BY DEF IndexConsistent, Prediction
  <2> DEFINE was == byCollateral[k]
             ids == byCollateral'[k]
  <2>4. was \in Seq(Nat)
    BY DEF TypeOK
  <2>5. /\ \A i \in DOMAIN was : was[i] \in Ids /\ Prediction(was[i]).hash = k
        /\ \A i, j \in DOMAIN was : i < j => was[i] < was[j]
        /\ \A id \in Ids : Prediction(id).hash = k => \E i \in DOMAIN was : was[i] = id
    BY DEF IndexConsistent
  <2>6. CASE k # h
    <3>1. ids = was
      BY <1>2, <2>6 DEF LogPrediction, TypeOK
    <3> QED
      BY <2>1, <2>2, <2>5, <2>6, <3>1 DEF Prediction
  <2>7. CASE k = h
    <3>1. ids = Append(was, Count)
      BY <1>2, <2>7 DEF LogPrediction, TypeOK
    <3>2. /\ Len(ids) = Len(was) + 1
          /\ \A i \in 1..Len(was) : ids[i] = was[i]
          /\ ids[Len(was) + 1] = Count
          /\ DOMAIN was = 1..Len(was) /\ DOMAIN ids = 1..(Len(was) + 1)
          /\ Len(was) \in Nat
      BY <2>1, <2>4, <3>1
    <3>3. \A i \in DOMAIN ids :
             ids[i] \in Ids' /\ predictions'[ids[i] + 1].hash = k
      BY <2>1, <2>2, <2>5, <2>7, <3>2 DEF Prediction
    <3>4. \A i, j \in DOMAIN ids : i < j => ids[i] < ids[j]
      <4>1. \A i \in DOMAIN was : was[i] \in Nat /\ was[i] < Count
        BY <2>1, <2>5 DEF Ids
      <4>2. SUFFICES ASSUME NEW i \in DOMAIN ids, NEW j \in DOMAIN ids, i < j
                     PROVE  ids[i] < ids[j]
        OBVIOUS
      <4>3. i \in DOMAIN was /\ ids[i] = was[i]
        BY <3>2, <4>2
      <4>4. CASE j \in DOMAIN was
        BY <2>5, <3>2, <4>2, <4>3, <4>4
      <4>5. CASE j = Len(was) + 1
        BY <3>2, <4>1, <4>3, <4>5
      <4> QED
        BY <3>2, <4>4, <4>5
    <3>5. ASSUME NEW id \in Ids', predictions'[id + 1].hash = k
          PROVE  \E i \in DOMAIN ids : ids[i] = id
      <4>1. CASE id = Count
        BY <4>1, <3>2
      <4>2. CASE id \in Ids
        <5>1. PICK i \in DOMAIN was : was[i] = id
          BY <4>2, <3>5, <2>2, <2>5 DEF Prediction
        <5> QED
          BY <5>1, <3>2
      <4> QED
        BY <4>1, <4>2, <2>1
    <3> QED
      BY <3>3, <3>4, <3>5
  <2> QED
    BY <2>6, <2>7
<1>3. ASSUME NEW id \in Ids, NEW cascade \in BOOLEAN, RecordOutcome(id, cascade)
      PROVE  IndexConsistent'
  <2>1. Ids' = Ids /\ byCollateral' = byCollateral
    BY <1>3, Recorded DEF RecordOutcome, Ids, Count
  <2>2. Prediction(id) \in PredictionType
    BY DEF TypeOK, Ids, Count, Prediction
  <2>3. \A other \in Ids : predictions'[other + 1].hash = Prediction(other).hash
    BY <1>3, <2>2, Recorded DEF PredictionType, Prediction
  <2> QED
    BY <2>1, <2>3 DEF IndexConsistent, Prediction
<1>4. CASE UNCHANGED vars
  BY <1>4 DEF vars, IndexConsistent, Ids, Count, Prediction
<1> QED
  BY <1>1, <1>2, <1>3, <1>4 DEF Next, LogPrediction

LEMMA SettledStep ==
  TypeOK /\ Dated /\ SettledInLaterBlock /\ [Next]_vars => SettledInLaterBlock'
<1> SUFFICES ASSUME TypeOK, Dated, SettledInLaterBlock, [Next]_vars
             PROVE  SettledInLaterBlock'
  OBVIOUS
<1>1. \A id \in Ids : Prediction(id) \in PredictionType
  BY DEF TypeOK, Ids, Count, Prediction
<1>2. ASSUME NewBlock PROVE SettledInLaterBlock'
  BY <1>2 DEF NewBlock, SettledInLaterBlock, Ids, Count, Prediction
<1>3. ASSUME NEW bps \in Bps, NEW s \in Severity, NEW h \in Hashes,
             LogPrediction(Agent, bps, s, h)
      PROVE  SettledInLaterBlock'
  <2>1. Ids' = Ids \cup {Count}
    BY <1>3, Logged DEF Ids, Count, TypeOK
  <2>2. predictions'[Count + 1] = NewPrediction(bps, s, h)
    BY <1>3, Logged
  <2>3. ~ predictions'[Count + 1].recorded
    BY <2>2 DEF NewPrediction
  <2>4. \A id \in Ids : predictions'[id + 1] = Prediction(id)
    BY <1>3, Logged DEF Prediction
  <2> QED
    BY <2>1, <2>3, <2>4 DEF SettledInLaterBlock, Prediction
<1>4. ASSUME NEW id \in Ids, NEW cascade \in BOOLEAN, RecordOutcome(id, cascade)
      PROVE  SettledInLaterBlock'
  <2>1. Ids' = Ids
    BY <1>4, Recorded DEF Ids, Count
  <2>2. Prediction(id).timestamp < clock
    BY <1>1, <1>4, WindowAssumption DEF RecordOutcome, PredictionType, TypeOK
  <2>3. Prediction(id).block < height
    BY <2>2 DEF Dated
  <2>4. /\ predictions'[id + 1].outcomeBlock = height
        /\ predictions'[id + 1].block = Prediction(id).block
    BY <1>1, <1>4, Recorded DEF PredictionType
  <2>5. \A other \in Ids : other # id => predictions'[other + 1] = Prediction(other)
    BY <1>4, Recorded DEF Prediction
  <2> QED
    BY <1>1, <2>1, <2>3, <2>4, <2>5 DEF SettledInLaterBlock, Prediction
<1>5. CASE UNCHANGED vars
  BY <1>5 DEF vars, SettledInLaterBlock, Ids, Count, Prediction
<1> QED
  BY <1>2, <1>3, <1>4, <1>5 DEF Next, LogPrediction
-----------------------------------------------------------------------------
(* What a step may not do *)

Grows ==
  \A id \in Ids :
    LET old == Prediction(id)
        new == predictions'[id + 1]
    IN /\ id + 1 \in DOMAIN predictions'
       /\ [new EXCEPT !.recorded = old.recorded, !.occurred = old.occurred,
                      !.outcomeBlock = old.outcomeBlock] = old
       /\ old.recorded => new = old

LEMMA StepGrows == TypeOK /\ [Next]_vars => Grows
<1> SUFFICES ASSUME TypeOK, [Next]_vars, NEW id \in Ids
             PROVE  LET old == Prediction(id)
                        new == predictions'[id + 1]
                    IN /\ id + 1 \in DOMAIN predictions'
                       /\ [new EXCEPT !.recorded = old.recorded,
                                      !.occurred = old.occurred,
                                      !.outcomeBlock = old.outcomeBlock] = old
                       /\ old.recorded => new = old
  BY DEF Grows
<1>1. /\ Prediction(id) \in PredictionType
      /\ id + 1 \in DOMAIN predictions
      /\ Len(predictions) \in Nat
  BY DEF TypeOK, Ids, Count, Prediction
<1>2. CASE predictions' = predictions
  BY <1>1, <1>2 DEF Prediction, PredictionType
<1>3. ASSUME NEW bps \in Bps, NEW s \in Severity, NEW h \in Hashes,
             LogPrediction(Agent, bps, s, h)
      PROVE  predictions'[id + 1] = Prediction(id) /\ id + 1 \in DOMAIN predictions'
  <2>1. predictions' \in Seq(PredictionType) /\ Len(predictions') = Len(predictions) + 1
    BY <1>3, Logged
  <2> QED
    BY <1>1, <1>3, <2>1, Logged DEF Prediction, Ids, Count
<1>4. ASSUME NEW some \in Ids, NEW cascade \in BOOLEAN, RecordOutcome(some, cascade)
      PROVE  /\ id + 1 \in DOMAIN predictions'
             /\ predictions'[id + 1] = Prediction(id) \/ some = id
  <2>1. predictions' \in Seq(PredictionType) /\ Len(predictions') = Len(predictions)
    BY <1>4, Recorded
  <2>2. \A other \in Ids : other # some => predictions'[other + 1] = predictions[other + 1]
    BY <1>4, Recorded
  <2> QED
    BY <1>1, <2>1, <2>2 DEF Prediction
<1>5. ASSUME NEW cascade \in BOOLEAN, RecordOutcome(id, cascade)
      PROVE  LET old == Prediction(id)
                 new == predictions'[id + 1]
             IN /\ ~ old.recorded
                /\ [new EXCEPT !.recorded = old.recorded, !.occurred = old.occurred,
                               !.outcomeBlock = old.outcomeBlock] = old
  <2>1. LET old == Prediction(id)
        IN /\ ~ old.recorded
           /\ predictions'[id + 1] = [old EXCEPT !.recorded = TRUE,
                                       !.occurred = cascade, !.outcomeBlock = height]
    BY <1>5, Recorded
  <2> QED
    BY <1>1, <2>1 DEF PredictionType
<1>6. CASE predictions'[id + 1] = Prediction(id) /\ id + 1 \in DOMAIN predictions'
  BY <1>1, <1>6 DEF PredictionType
<1> QED
  BY <1>2, <1>3, <1>4, <1>5, <1>6 DEF Next, NewBlock, LogPrediction, vars

\* A prediction that is counted stays counted, in the same way.
LEMMA ScoreStep == TypeOK /\ [Next]_vars =>
  /\ Correct \subseteq Correct'
  /\ Resolved \ Correct \subseteq (Resolved \ Correct)'
<1> SUFFICES ASSUME TypeOK, [Next]_vars
             PROVE  /\ Correct \subseteq Correct'
                    /\ Resolved \ Correct \subseteq (Resolved \ Correct)'
  OBVIOUS
<1>1. \A id \in Ids : Prediction(id).recorded =>
        predictions'[id + 1] = Prediction(id) /\ id + 1 \in DOMAIN predictions'
  BY StepGrows DEF Grows
<1>2. TypeOK'
  BY TypeStep
<1>3. \A id \in Ids : id + 1 \in DOMAIN predictions' => id \in Ids'
  BY <1>2 DEF TypeOK, Ids, Count
<1> QED
  BY <1>1, <1>3 DEF Correct, Resolved, Prediction
-----------------------------------------------------------------------------
Inductive == TypeOK /\ Dated /\ IndexConsistent /\ SettledInLaterBlock

LEMMA InductiveInvariant == Spec => []Inductive
<1>1. Init => Inductive
  BY DEF Init, Inductive, TypeOK, Dated, IndexConsistent, SettledInLaterBlock,
         Ids, Count
<1>2. Inductive /\ [Next]_vars => Inductive'
  BY TypeStep, DatedStep, IndexStep, SettledStep DEF Inductive
<1> QED
  BY <1>1, <1>2, PTL DEF Spec

\* The contract keeps its types, for every window and a log of any length.
THEOREM TypeCorrect == Spec => []TypeOK
<1>1. Inductive => TypeOK
  BY DEF Inductive
<1> QED
  BY <1>1, InductiveInvariant, PTL

\* predictionsByCollateral is exact: IndexConsistent always holds.
THEOREM IndexIsExact == Spec => []IndexConsistent
<1>1. Inductive => IndexConsistent
  BY DEF Inductive
<1> QED
  BY <1>1, InductiveInvariant, PTL

\* No prediction is settled in its own block: SettledInLaterBlock always holds.
THEOREM SettledLater == Spec => []SettledInLaterBlock
<1>1. Inductive => SettledInLaterBlock
  BY DEF Inductive
<1> QED
  BY <1>1, InductiveInvariant, PTL

\* No step rewrites the log: Tamperproof is a property of every behaviour.
THEOREM LogIsTamperproof == Spec => Tamperproof
<1>1. Inductive /\ [Next]_vars => Grows
  BY StepGrows DEF Inductive
<1> QED
  BY <1>1, InductiveInvariant, PTL DEF Spec, Tamperproof, Grows

\* No step takes back what accuracy() has counted: AccuracyFinal is a property of
\* every behaviour.
THEOREM ScoreIsFinal == Spec => AccuracyFinal
<1>1. Inductive /\ [Next]_vars =>
        /\ Correct \subseteq Correct'
        /\ Resolved \ Correct \subseteq (Resolved \ Correct)'
  BY ScoreStep DEF Inductive
<1> QED
  BY <1>1, InductiveInvariant, PTL DEF Spec, AccuracyFinal
=============================================================================
