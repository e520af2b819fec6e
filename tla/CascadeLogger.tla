---------------------------- MODULE CascadeLogger ----------------------------
(***************************************************************************)
(* contracts/src/LiquidationCascadeLogger.sol: an append-only log of       *)
(* predictions, written by one agent, whose outcomes anybody may record    *)
(* once the outcome window has passed.  A transaction that reverts changes *)
(* nothing and is no step.  Prediction ids count from zero, as in Solidity;*)
(* the amounts a prediction carries are left out.                          *)
(***************************************************************************)
EXTENDS Integers, Sequences, FiniteSets

CONSTANTS Agent,          \* the only address that may predict
          Callers,        \* addresses that send transactions
          Hashes,         \* collateralSymbolHash
          OutcomeWindow,  \* OUTCOME_WINDOW
          MaxBps,         \* 10_000, the largest probability
          Bps,            \* probabilities callers try
          MaxClock,       \* bound of the model: block time stops here
          MaxPredictions  \* bound of the model: predictions logged

ASSUME AgentAssumption == Agent \in Callers
ASSUME WindowAssumption == OutcomeWindow \in Nat \ {0}
ASSUME BpsAssumption == MaxBps \in Nat /\ Bps \subseteq Nat
ASSUME ClockAssumption == MaxClock \in Nat /\ MaxPredictions \in Nat

VARIABLES clock,        \* block.timestamp
          height,       \* block.number
          predictions,  \* _predictions
          byCollateral  \* _byCollateral: hash -> ids

vars == <<clock, height, predictions, byCollateral>>

MEDIUM == 1
Severity == 0..3  \* LOW, MEDIUM, HIGH, CRITICAL

\* predictionCount, and the ids in use.
Count == Len(predictions)
Ids == 0..(Count - 1)
Prediction(id) == predictions[id + 1]

Init ==
  /\ clock = 0
  /\ height = 0
  /\ predictions = <<>>
  /\ byCollateral = [h \in Hashes |-> <<>>]

\* A new block: its time is later than the block before.
NewBlock ==
  /\ clock < MaxClock
  /\ height' = height + 1
  /\ clock' \in (clock + 1)..MaxClock
  /\ UNCHANGED <<predictions, byCollateral>>

\* What logPrediction pushes.
NewPrediction(bps, s, h) ==
  [timestamp |-> clock, block |-> height, severity |-> s, hash |-> h, bps |-> bps,
   recorded |-> FALSE, occurred |-> FALSE, outcomeBlock |-> 0]

\* Mutant: the id is taken from the length after the push.
LogPrediction_NextId(sender, bps, s, h) ==
  /\ sender = Agent
  /\ bps <= MaxBps
  /\ Count < MaxPredictions
  /\ predictions' = Append(predictions, NewPrediction(bps, s, h))
  /\ byCollateral' = [byCollateral EXCEPT ![h] = Append(@, Count + 1)]
  /\ UNCHANGED <<clock, height>>

\* NotAgent and InvalidProbability revert.
LogPrediction(sender, bps, s, h) ==
  /\ sender = Agent
  /\ bps <= MaxBps
  /\ Count < MaxPredictions
  /\ predictions' = Append(predictions, NewPrediction(bps, s, h))
  /\ byCollateral' = [byCollateral EXCEPT ![h] = Append(@, Count)]
  /\ UNCHANGED <<clock, height>>

\* What recordOutcome writes.
Settled(id, cascade) ==
  [predictions EXCEPT ![id + 1].recorded = TRUE, ![id + 1].occurred = cascade,
                      ![id + 1].outcomeBlock = height]

\* Mutant: the window is not checked.
RecordOutcome_NoWindow(id, cascade) ==
  /\ id \in Ids
  /\ ~ Prediction(id).recorded
  /\ predictions' = Settled(id, cascade)
  /\ UNCHANGED <<clock, height, byCollateral>>

\* Mutant: an outcome may be recorded again.
RecordOutcome_Again(id, cascade) ==
  /\ id \in Ids
  /\ clock >= Prediction(id).timestamp + OutcomeWindow
  /\ predictions' = Settled(id, cascade)
  /\ UNCHANGED <<clock, height, byCollateral>>

\* UnknownPrediction, AlreadyRecorded and PredictionWindowOpen revert.
RecordOutcome(id, cascade) ==
  /\ id \in Ids
  /\ ~ Prediction(id).recorded
  /\ clock >= Prediction(id).timestamp + OutcomeWindow
  /\ predictions' = Settled(id, cascade)
  /\ UNCHANGED <<clock, height, byCollateral>>

Next ==
  \/ NewBlock
  \/ \E sender \in Callers, bps \in Bps, s \in Severity, h \in Hashes :
       LogPrediction(sender, bps, s, h)
  \/ \E id \in Ids, cascade \in BOOLEAN : RecordOutcome(id, cascade)

Spec == Init /\ [][Next]_vars

\* Mutant: predictions without an outcome are counted.
Resolved_CountsOpen == Ids

\* accuracy(): the settled predictions, and those that came out as predicted.
Resolved == {id \in Ids : Prediction(id).recorded}
Correct ==
  {id \in Resolved : (Prediction(id).severity >= MEDIUM) = Prediction(id).occurred}
-----------------------------------------------------------------------------
(* Properties *)

PredictionType ==
  [timestamp : Nat, block : Nat, severity : Severity, hash : Hashes, bps : 0..MaxBps,
   recorded : BOOLEAN, occurred : BOOLEAN, outcomeBlock : Nat]

\* Every variable has its type; no probability over 100% is in the log.
TypeOK ==
  /\ clock \in Nat
  /\ height \in Nat
  /\ predictions \in Seq(PredictionType)
  /\ byCollateral \in [Hashes -> Seq(Nat)]

\* The id list of a collateral holds exactly its predictions, oldest first and
\* each once: predictionsByCollateral neither misses nor repeats one.
IndexConsistent ==
  \A h \in Hashes :
     /\ \A i \in DOMAIN byCollateral[h] :
          /\ byCollateral[h][i] \in Ids
          /\ Prediction(byCollateral[h][i]).hash = h
     /\ \A i, j \in DOMAIN byCollateral[h] :
          i < j => byCollateral[h][i] < byCollateral[h][j]
     /\ \A id \in Ids :
          Prediction(id).hash = h => \E i \in DOMAIN byCollateral[h] :
                                        byCollateral[h][i] = id

\* "It can't predict and 'confirm' in the same block": an outcome sits in a
\* later block than its prediction, and so the log is ordered by block.
SettledInLaterBlock ==
  \A id \in Ids :
     Prediction(id).recorded => Prediction(id).outcomeBlock > Prediction(id).block

\* What third parties audit is tamper-evident: no prediction leaves the log or
\* changes what it predicted, and an outcome once recorded is final.
Tamperproof ==
  [][\A id \in Ids :
       LET old == Prediction(id)
           new == predictions'[id + 1]
       IN /\ id + 1 \in DOMAIN predictions'
          /\ [new EXCEPT !.recorded = old.recorded, !.occurred = old.occurred,
                         !.outcomeBlock = old.outcomeBlock] = old
          /\ old.recorded => new = old]_vars

\* The public score is final: a prediction that accuracy() has counted, as right
\* or as wrong, is counted in the same way ever after.
AccuracyFinal ==
  [][/\ Correct \subseteq Correct'
     /\ Resolved \ Correct \subseteq (Resolved \ Correct)']_vars
=============================================================================
