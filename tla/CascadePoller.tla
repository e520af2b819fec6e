---------------------------- MODULE CascadePoller ----------------------------
(***************************************************************************)
(* The polling loop of app/services/pipeline.py: one asyncio task that, in *)
(* every cycle, reads the positions of each protocol, saves the snapshot   *)
(* (app/db/repositories.py), runs the alert path and sleeps, until stop()  *)
(* asks it to end.  The alert path is the module AlertPath, whose actions  *)
(* are the task's steps while pc is "alerting".                            *)
(*                                                                         *)
(* The chain moves under the reads: head is its newest block and chain the *)
(* tier of every position that has debt.  Every remote call can fail; each *)
(* failure is charged to `faults`, which MaxFaults bounds.                 *)
(***************************************************************************)
EXTENDS RiskTiers, FiniteSets, Sequences

CONSTANTS Readers,      \* the positions of each configured protocol, in order
          Collaterals, MinCluster, Window, MinSeverity, MaxTime,
          MarketTiers,  \* tiers the market takes positions through
          MaxBlock,     \* bound of the model: the chain ends here
          MaxFaults     \* bound of the model: failures of calls and crashes

ASSUME BoundsAssumption == MaxBlock \in Nat /\ MaxFaults \in Nat
ASSUME WindowAssumption == Window \in Nat
ASSUME MaxTimeAssumption == MaxTime \in Nat
ASSUME MarketAssumption == MarketTiers \subseteq Tiers

Positions == UNION {Readers[i] : i \in DOMAIN Readers}

ASSUME ReadersAssumption == Readers # <<>> /\ Readers \in Seq(SUBSET Positions)
ASSUME KeysAssumption == Positions \cap Collaterals = {}

VARIABLES now, seen, lastRisk, phase, batch, zones, todo, sent,  \* AlertPath
          pc,      \* where CascadePoller._run is
          block,   \* snapshot.block_number of the cycle
          turn,    \* the reader that is running
          unread,  \* the positions it has still to read
          part,    \* the positions it has read: position -> tier
          got,     \* the snapshot under construction
          stop,    \* stop(): "no", "asked" (waiting), "late" (cancelling)
          head,    \* the chain's newest block
          chain,   \* the chain's positions with debt: position -> tier
          stored,  \* this cycle's documents in the positions collection
          faults   \* failures so far

alertVars == <<now, seen, lastRisk, phase, batch, zones, todo, sent>>
cycleVars == <<block, turn, unread, part, got>>
worldVars == <<head, chain>>
vars == <<alertVars, pc, cycleVars, stop, worldVars, stored, faults>>

Path == INSTANCE AlertPath WITH
          Positions <- Positions, Collaterals <- Collaterals,
          now <- now, seen <- seen, lastRisk <- lastRisk, phase <- phase,
          batch <- batch, zones <- zones, todo <- todo, sent <- sent

Empty == [p \in {} |-> "SAFE"]
Markets == UNION {[D -> MarketTiers] : D \in SUBSET Positions}

Fault == faults < MaxFaults /\ faults' = faults + 1

\* The states in which the task waits for something outside of it: a cancel is
\* delivered there and nowhere else.
Awaiting ==
  \/ pc \in {"reading", "saving", "filling", "logging", "sleeping"}
  \/ pc = "alerting" /\ phase \in {"zonePost", "positionPost"}

-----------------------------------------------------------------------------
Init ==
  /\ Path!Init
  /\ pc = "top"
  /\ block = 0 /\ turn = 0 /\ unread = {} /\ part = Empty /\ got = Empty
  /\ stop = "no"
  /\ head = 0
  /\ chain \in Markets
  /\ stored = {}
  /\ faults = 0

\* The names of this process' cycle are out of use.
ForgetCycle ==
  /\ block' = 0 /\ turn' = 0 /\ unread' = {} /\ part' = Empty /\ got' = Empty

(* The chain *)

MoveMarket(m) ==
  /\ head < MaxBlock
  /\ head' = head + 1
  /\ chain' = m
  /\ UNCHANGED <<alertVars, pc, cycleVars, stop, stored, faults>>

(* One cycle *)

\* take_snapshot asks for the block number, then the first reader starts.  The
\* documents of earlier cycles are told from this one's by their capture time.
CycleStart ==
  /\ pc = "top"
  /\ stop = "no"
  /\ pc' = "reading"
  /\ block' = head
  /\ turn' = 1
  /\ unread' = Readers[1]
  /\ stored' = {}
  /\ UNCHANGED <<alertVars, part, got, stop, worldVars, faults>>

LoopExit ==
  /\ pc = "top"
  /\ stop # "no"
  /\ pc' = "ended"
  /\ UNCHANGED <<alertVars, cycleVars, stop, worldVars, stored, faults>>

\* A position without debt is skipped; the others get the tier of the chain's
\* newest block, whatever block the snapshot names.
ReadPosition(p) ==
  /\ pc = "reading"
  /\ p \in unread
  /\ unread' = unread \ {p}
  /\ part' = [q \in DOMAIN part \cup ({p} \cap DOMAIN chain) |->
                IF q \in DOMAIN part THEN part[q] ELSE chain[q]]
  /\ UNCHANGED <<alertVars, pc, block, turn, got, stop, worldVars, stored, faults>>

\* The call for one position fails: it is logged and the position skipped.
DropPosition(p) ==
  /\ pc = "reading"
  /\ p \in unread
  /\ Fault
  /\ unread' = unread \ {p}
  /\ UNCHANGED <<alertVars, pc, block, turn, part, got, stop, worldVars, stored>>

\* The next reader runs, or the snapshot is complete.
NextReader ==
  /\ part' = Empty
  /\ UNCHANGED block
  /\ IF turn < Len(Readers)
       THEN turn' = turn + 1 /\ unread' = Readers[turn + 1] /\ UNCHANGED pc
       ELSE turn' = 0 /\ unread' = {} /\ pc' = "saving"

ReaderDone ==
  /\ pc = "reading"
  /\ unread = {}
  /\ got' = [p \in DOMAIN got \cup DOMAIN part |->
               IF p \in DOMAIN part THEN part[p] ELSE got[p]]
  /\ NextReader
  /\ UNCHANGED <<alertVars, stop, worldVars, stored, faults>>

\* read_all_positions raises: nothing it has read enters the snapshot.
ReaderFails ==
  /\ pc = "reading"
  /\ Fault
  /\ NextReader
  /\ UNCHANGED <<alertVars, got, stop, worldVars, stored>>

\* Mutant: the alerts do not wait for the positions to be stored.
InsertSnapshot_Early ==
  /\ pc = "saving"
  /\ pc' = "saved"
  /\ UNCHANGED <<alertVars, cycleVars, stop, worldVars, stored, faults>>

InsertSnapshot ==
  /\ pc = "saving"
  /\ pc' = IF got = Empty THEN "saved" ELSE "filling"
  /\ UNCHANGED <<alertVars, cycleVars, stop, worldVars, stored, faults>>

Docs(S) == {[key |-> p, level |-> got[p]] : p \in S}

InsertPositions ==
  /\ pc = "filling"
  /\ pc' = "saved"
  /\ stored' = stored \cup Docs(DOMAIN got)
  /\ UNCHANGED <<alertVars, cycleVars, stop, worldVars, faults>>

\* The unordered insert_many writes the documents it can and raises.
InsertSome(S) ==
  /\ pc = "filling"
  /\ Fault
  /\ pc' = "sleeping"
  /\ stored' = stored \cup Docs(S)
  /\ ForgetCycle
  /\ UNCHANGED <<alertVars, stop, worldVars>>

\* Mutant: the exception leaves the loop.
CycleFails_KillsLoop ==
  /\ \/ pc = "reading" /\ turn = 1 /\ unread = Readers[1]
     \/ pc \in {"saving", "saved"}
  /\ Fault
  /\ pc' = "ended"
  /\ ForgetCycle
  /\ UNCHANGED <<alertVars, stop, worldVars, stored>>

\* The block number cannot be read, insert_one raises, or detect_zones does: the
\* except clause of _run ends the cycle.
CycleFails ==
  /\ \/ pc = "reading" /\ turn = 1 /\ unread = Readers[1]
     \/ pc \in {"saving", "saved"}
  /\ Fault
  /\ pc' = "sleeping"
  /\ ForgetCycle
  /\ UNCHANGED <<alertVars, stop, worldVars, stored>>

BeginAlerts(z) ==
  /\ pc = "saved"
  /\ Path!Begin(got, z)
  /\ pc' = "alerting"
  /\ UNCHANGED <<cycleVars, stop, worldVars, stored, faults>>

\* The loops of the alert path, which wait for nothing.
AlertLoops ==
  /\ pc = "alerting"
  /\ \/ \E c \in todo : Path!AlertZone(c) \/ Path!SuppressZone(c)
     \/ Path!ZonesDone
     \/ \E p \in todo : \/ Path!AlertPosition(p)
                        \/ Path!SuppressPosition(p)
                        \/ Path!SkipPosition(p)
  /\ UNCHANGED <<pc, cycleVars, stop, worldVars, stored, faults>>

PostReturns ==
  /\ pc = "alerting"
  /\ Path!PostReturns
  /\ UNCHANGED <<pc, cycleVars, stop, worldVars, stored, faults>>

\* The tiers are remembered; zones, if any, are logged on chain.
AlertsDone ==
  /\ pc = "alerting"
  /\ Path!PositionsDone
  /\ pc' = IF zones = Empty THEN "sleeping" ELSE "logging"
  /\ ForgetCycle
  /\ UNCHANGED <<stop, worldVars, stored, faults>>

AlertsFail ==
  /\ pc = "alerting"
  /\ Fault
  /\ Path!Abort
  /\ pc' = "sleeping"
  /\ ForgetCycle
  /\ UNCHANGED <<stop, worldVars, stored>>

\* log_zones returns or raises: either way the cycle goes on.
LogZones ==
  /\ pc = "logging"
  /\ pc' = "sleeping"
  /\ UNCHANGED <<alertVars, cycleVars, stop, worldVars, stored, faults>>

\* The poll interval has passed, or stop is set.
WakeUp ==
  /\ pc = "sleeping"
  /\ pc' = "top"
  /\ UNCHANGED <<alertVars, cycleVars, stop, worldVars, stored, faults>>

(* Shutdown *)

\* Of an insert_many that nobody waits for any more, any part may be done.
WriteInFlight ==
  \E S \in SUBSET (IF pc = "filling" THEN DOMAIN got ELSE {}) :
     stored' = stored \cup Docs(S)

AskStop ==
  /\ stop = "no"
  /\ stop' = "asked"
  /\ UNCHANGED <<alertVars, pc, cycleVars, worldVars, stored, faults>>

\* Mutant: the timeout is ignored and the task waited for again.
StopTimeout_NoCancel ==
  /\ stop = "asked"
  /\ pc # "ended"
  /\ stop' = "asked"
  /\ UNCHANGED <<alertVars, pc, cycleVars, worldVars, stored, faults>>

\* wait_for gives up on the task and cancels it.
StopTimeout ==
  /\ stop = "asked"
  /\ pc # "ended"
  /\ stop' = "late"
  /\ UNCHANGED <<alertVars, pc, cycleVars, worldVars, stored, faults>>

\* Mutant: the cancelled task leaves the alert path in the middle.
Cancelled_LeavesPath ==
  /\ stop = "late"
  /\ Awaiting
  /\ pc' = "ended"
  /\ ForgetCycle
  /\ WriteInFlight
  /\ UNCHANGED <<alertVars, stop, worldVars, faults>>

\* Mutant: a finally clause remembers the tiers of a cancelled cycle.
Cancelled_Remembers ==
  /\ stop = "late"
  /\ Awaiting
  /\ IF pc = "alerting" THEN Path!Abort_Remembers ELSE UNCHANGED alertVars
  /\ pc' = "ended"
  /\ ForgetCycle
  /\ WriteInFlight
  /\ UNCHANGED <<stop, worldVars, faults>>

\* CancelledError is no Exception: it leaves the loop from any await.
Cancelled ==
  /\ stop = "late"
  /\ Awaiting
  /\ IF pc = "alerting" THEN Path!Abort ELSE UNCHANGED alertVars
  /\ pc' = "ended"
  /\ ForgetCycle
  /\ WriteInFlight
  /\ UNCHANGED <<stop, worldVars, faults>>

\* The process dies, or is redeployed after it ended, and a new one starts.
Crash ==
  /\ Fault
  /\ Path!Restart
  /\ pc' = "top"
  /\ stop' = "no"
  /\ ForgetCycle
  /\ WriteInFlight
  /\ UNCHANGED worldVars

Tick == Path!Tick /\ UNCHANGED <<pc, cycleVars, stop, worldVars, stored, faults>>

\* Steps that wait for nothing: the event loop runs them.
Immediate ==
  \/ CycleStart \/ LoopExit \/ AlertLoops \/ AlertsDone
  \/ \E z \in Path!ZonesOf(got) : BeginAlerts(z)

\* Steps that are the answer to an await.
Answer ==
  \/ \E p \in unread : ReadPosition(p)
  \/ ReaderDone \/ InsertSnapshot \/ InsertPositions \/ PostReturns
  \/ LogZones \/ WakeUp

Failure ==
  \/ \E p \in unread : DropPosition(p)
  \/ \E S \in SUBSET DOMAIN got : InsertSome(S)
  \/ ReaderFails \/ CycleFails \/ AlertsFail \/ Crash

Next ==
  \/ Immediate \/ Answer \/ Failure
  \/ AskStop \/ StopTimeout \/ Cancelled
  \/ Tick
  \/ \E m \in Markets : MoveMarket(m)

Spec == Init /\ [][Next]_vars

-----------------------------------------------------------------------------
(* Fairness *)

\* The event loop runs what is ready, stop() gives up after its ten seconds and
\* the cancellation is delivered.  Nothing is assumed of remote calls.
FairSpec ==
  Spec /\ WF_vars(Immediate) /\ WF_vars(StopTimeout) /\ WF_vars(Cancelled)

\* Every await is answered in the end: the RPC and HTTP clients have timeouts
\* and the sleeps are finite.
AnswersCome == WF_vars(Immediate \/ Answer)

-----------------------------------------------------------------------------
(* Properties *)

\* The loop's variables have their types, and the alert path is inside a cycle
\* exactly while the loop is.
TypeOK ==
  /\ Path!TypeOK
  /\ pc \in {"top", "reading", "saving", "filling", "saved", "alerting",
             "logging", "sleeping", "ended"}
  /\ (pc = "alerting") <=> (phase # "idle")
  /\ block \in 0..MaxBlock /\ head \in block..MaxBlock
  /\ turn \in 0..Len(Readers) /\ (pc = "reading" <=> turn # 0)
  /\ unread \subseteq Positions
  /\ part \in UNION {[D -> Tiers] : D \in SUBSET Positions}
  /\ got \in UNION {[D -> Tiers] : D \in SUBSET Positions}
  /\ stop \in {"no", "asked", "late"}
  /\ chain \in Markets
  /\ stored \subseteq [key : Positions, level : Tiers]
  /\ faults \in 0..MaxFaults

\* "A Discord outage can't lose a snapshot - save_snapshot ran first": an alert, on
\* a zone or on a position, is raised only when every position of the snapshot it
\* was found in, in the tier it was read in, is in the collection as this cycle's,
\* however the save, the posts and the process fail.
NoAlertWithoutRecord ==
  [][\A a \in sent' \ sent :
       /\ \A p \in DOMAIN batch : [key |-> p, level |-> batch[p]] \in stored
       /\ a.fp.kind = "position" =>
            [key |-> a.fp.key, level |-> a.fp.level] \in stored]_vars

\* The loop uses the alert path as it is meant to be used: hide the rest of the
\* loop and what remains is a run of AlertPath, one snapshot after the other,
\* none of them begun, left or forgotten in any other way than that module has.
KeepsPath == Path!Spec

\* "Never let one cycle kill the loop": as long as nobody asks for a stop a new
\* cycle always begins in the end, if calls are answered at all.
PollingSurvives == AnswersCome => []<>(pc = "reading" \/ stop # "no")

\* A position that stays liquidatable is announced for good, although calls,
\* readers, saves, posts and processes failed before.
CriticalIsAnnounced ==
  AnswersCome => \A p \in Positions :
     <>[](p \in DOMAIN chain /\ chain[p] = "CRITICAL" /\ stop = "no") =>
        <>[]Path!Announced(p, "CRITICAL")

\* stop() ends the task even when no await of it is ever answered.
StopCompletes == (stop # "no") ~> (pc = "ended" \/ stop = "no")
=============================================================================
