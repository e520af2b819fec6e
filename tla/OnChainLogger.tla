---------------------------- MODULE OnChainLogger ----------------------------
(***************************************************************************)
(* OnChainLogger.log_zones (app/services/on_chain_logger.py): one call per *)
(* poll cycle, in an executor thread, that sends one logPrediction trans-  *)
(* action per cascade zone, numbering them itself from the account's mined *)
(* transaction count.  Composed with the contract (CascadeLogger) and with *)
(* an RPC node, which is external: it keeps accepted transactions in a pool*)
(* by nonce, takes a second one with the same nonce only at a higher gas   *)
(* price, and mines them in the order of their nonces.                     *)
(***************************************************************************)
EXTENDS Integers, Sequences, FiniteSets

CONSTANTS Agent, Callers, Hashes, OutcomeWindow, MaxBps, MaxClock,
          Severities, \* severities the zones have
          Prices,     \* gas prices; the next one up is enough to replace
          MaxCycles,  \* bound of the model: calls of log_zones
          MaxFaults   \* bound of the model: failed or unanswered RPC calls

ASSUME SeveritiesAssumption == Severities \subseteq 0..3
ASSUME PricesAssumption == Prices \subseteq Nat
ASSUME ContractAssumption ==
  /\ Agent \in Callers /\ IsFiniteSet(Hashes)
  /\ OutcomeWindow \in Nat \ {0} /\ MaxBps \in Nat /\ MaxClock \in Nat
ASSUME CyclesAssumption == MaxCycles \in Nat /\ MaxFaults \in Nat

\* Every zone of every cycle fits; probabilities are capped by detect_zones.
MaxPredictions == MaxCycles * Cardinality(Hashes)
Bps == {MaxBps}

VARIABLES clock, height, predictions, byCollateral,  \* CascadeLogger
          signer,   \* the address of the configured key
          pc,       \* where _log_zones_sync is
          cycle,    \* calls so far
          asked,    \* the zones of this call, by the hash of their collateral
          todo,     \* those not yet tried
          nonce,    \* the local nonce
          hashes,   \* zones whose entry in tx_hashes is a hash
          blanks,   \* zones whose entry in tx_hashes is ""
          pool,     \* the node's pool: nonce -> [zone, cycle, price]
          mined,    \* the account's mined transactions
          price,    \* the node's gas price
          faults    \* failures so far

contractVars == <<clock, height, predictions, byCollateral>>
callVars == <<signer, pc, cycle, asked, todo, nonce, hashes, blanks>>
nodeVars == <<pool, mined>>
vars == <<contractVars, callVars, nodeVars, price, faults>>

Contract == INSTANCE CascadeLogger

Fault == faults < MaxFaults /\ faults' = faults + 1

Init ==
  /\ Contract!Init
  /\ signer \in Callers
  /\ pc = "idle"
  /\ cycle = 0
  /\ asked = {} /\ todo = {} /\ hashes = {} /\ blanks = {}
  /\ nonce = 0
  /\ pool = <<>>
  /\ mined = <<>>
  /\ price \in Prices
  /\ faults = 0

(* The node *)

\* The transaction of zone z is taken with the local nonce.
Accepts ==
  /\ nonce >= Len(mined)
  /\ nonce \in DOMAIN pool => price > pool[nonce].price

Pooled(z) ==
  pool' = [n \in DOMAIN pool \cup {nonce} |->
             IF n = nonce THEN [zone |-> z, cycle |-> cycle, price |-> price]
                          ELSE pool[n]]

\* The transaction that is next in line is executed.
Mine ==
  /\ Len(mined) \in DOMAIN pool
  /\ LET tx == pool[Len(mined)]
     IN /\ mined' = Append(mined, tx)
        /\ \E s \in Severities :
             Contract!LogPrediction(signer, MaxBps, s, tx.zone)
  /\ pool' = [n \in DOMAIN pool \ {Len(mined)} |-> pool[n]]
  /\ UNCHANGED <<callVars, price, faults>>

PriceMoves ==
  /\ price' \in Prices
  /\ UNCHANGED <<contractVars, callVars, nodeVars, faults>>

(* _log_zones_sync *)

Call(S) ==
  /\ pc = "idle"
  /\ cycle < MaxCycles
  /\ pc' = "nonce"
  /\ cycle' = cycle + 1
  /\ asked' = S /\ todo' = S
  /\ UNCHANGED <<contractVars, signer, nonce, hashes, blanks, nodeVars, price, faults>>

\* The transaction count is that of the latest block: what waits in the pool
\* does not count.
GetNonce ==
  /\ pc = "nonce"
  /\ pc' = "send"
  /\ nonce' = Len(mined)
  /\ UNCHANGED <<contractVars, signer, cycle, asked, todo, hashes, blanks, nodeVars,
                 price, faults>>

\* The names of this call are out of use.
ForgetCall ==
  /\ pc' = "idle"
  /\ asked' = {} /\ todo' = {} /\ hashes' = {} /\ blanks' = {}
  /\ nonce' = 0
  /\ UNCHANGED <<signer, cycle>>

NonceFails ==
  /\ pc = "nonce"
  /\ Fault
  /\ ForgetCall
  /\ UNCHANGED <<contractVars, nodeVars, price>>

\* One iteration of the loop over the zones: z has been tried.
Tried(z) ==
  /\ pc = "send"
  /\ z \in todo
  /\ todo' = todo \ {z}
  /\ UNCHANGED <<contractVars, signer, pc, cycle, asked, mined, price>>

\* Mutant: the nonce is not counted up, and the next zone takes it again.
Sent_KeepsNonce(z) ==
  /\ Tried(z)
  /\ signer = Agent
  /\ Accepts
  /\ Pooled(z)
  /\ hashes' = hashes \cup {z}
  /\ UNCHANGED <<nonce, blanks, faults>>

\* send_raw_transaction returns a hash.
Sent(z) ==
  /\ Tried(z)
  /\ signer = Agent
  /\ Accepts
  /\ Pooled(z)
  /\ hashes' = hashes \cup {z}
  /\ nonce' = nonce + 1
  /\ UNCHANGED <<blanks, faults>>

\* The node refuses: nonce too low, or replacement underpriced.
Refused(z) ==
  /\ Tried(z)
  /\ signer = Agent
  /\ ~ Accepts
  /\ UNCHANGED <<nonce, hashes, blanks, pool, faults>>

\* Mutant: the nonce is counted up whether or not the transaction went out.
SendFails_CountsNonce(z) ==
  /\ Tried(z)
  /\ Fault
  /\ nonce' = nonce + 1
  /\ UNCHANGED <<hashes, blanks, pool>>

\* A call raises before the transaction is out.
SendFails(z) ==
  /\ Tried(z)
  /\ Fault
  /\ UNCHANGED <<nonce, hashes, blanks, pool>>

\* Mutant: a zone whose answer is lost is tried again, with the next nonce.
AnswerLost_Retries(z) ==
  /\ pc = "send"
  /\ z \in todo
  /\ signer = Agent
  /\ Accepts
  /\ Fault
  /\ Pooled(z)
  /\ nonce' = nonce + 1
  /\ UNCHANGED <<contractVars, signer, pc, cycle, asked, todo, hashes, blanks, mined,
                 price>>

\* The node takes the transaction and the answer is lost.
AnswerLost(z) ==
  /\ Tried(z)
  /\ signer = Agent
  /\ Accepts
  /\ Fault
  /\ Pooled(z)
  /\ UNCHANGED <<nonce, hashes, blanks>>

\* estimate_gas reverts with NotAgent: "" counts as a hash and uses up a nonce.
EstimateReverts(z) ==
  /\ Tried(z)
  /\ signer # Agent
  /\ blanks' = blanks \cup {z}
  /\ nonce' = nonce + 1
  /\ UNCHANGED <<hashes, pool, faults>>

Return ==
  /\ pc = "send"
  /\ todo = {}
  /\ ForgetCall
  /\ UNCHANGED <<contractVars, nodeVars, price, faults>>

SendZone(z) ==
  Sent(z) \/ Refused(z) \/ SendFails(z) \/ AnswerLost(z) \/ EstimateReverts(z)

Node == Mine \/ PriceMoves

\* The rest of the contract's world: blocks, and anybody's outcomes.
World ==
  /\ \/ Contract!NewBlock
     \/ \E id \in Contract!Ids, b \in BOOLEAN : Contract!RecordOutcome(id, b)
  /\ UNCHANGED <<callVars, nodeVars, price, faults>>

Next ==
  \/ \E S \in SUBSET Hashes \ {{}} : Call(S)
  \/ GetNonce \/ NonceFails
  \/ \E z \in todo : SendZone(z)
  \/ Return
  \/ Node
  \/ World

Spec == Init /\ [][Next]_vars

\* Calls are answered and the node mines what it can.
LiveSpec ==
  /\ Spec
  /\ WF_vars(GetNonce \/ (\E z \in todo : SendZone(z)) \/ Return)
  /\ WF_vars(Mine)
-----------------------------------------------------------------------------
(* Properties *)

Tx == [zone : Hashes, cycle : 1..MaxCycles, price : Prices]

\* Every variable has its type; between the calls nothing is asked for.
TypeOK ==
  /\ signer \in Callers
  /\ pc \in {"idle", "nonce", "send"}
  /\ cycle \in 0..MaxCycles /\ (cycle = 0 => pc = "idle")
  /\ asked \subseteq Hashes /\ (pc = "idle" => asked = {})
  /\ todo \subseteq asked /\ hashes \subseteq asked /\ blanks \subseteq asked
  /\ nonce \in Nat
  /\ DOMAIN pool \subseteq Nat /\ \A n \in DOMAIN pool : pool[n] \in Tx
  /\ mined \in Seq(Tx)
  /\ price \in Prices
  /\ faults \in 0..MaxFaults

\* No prediction waits behind a nonce that nothing uses: the pool holds a run of
\* nonces that starts at the next one to be mined, whatever was refused, failed
\* or lost while the nonces were counted by hand.
NoNonceGap ==
  \A n \in DOMAIN pool : n >= Len(mined) /\ (Len(mined)..n) \subseteq DOMAIN pool

\* A zone of one cycle is predicted at most once: no two transactions mined or
\* waiting are about the same zone and cycle.
AtMostOnce ==
  LET Same(a, b) == a.zone = b.zone /\ a.cycle = b.cycle
  IN /\ \A i, j \in DOMAIN mined : Same(mined[i], mined[j]) => i = j
     /\ \A m, n \in DOMAIN pool : Same(pool[m], pool[n]) => m = n
     /\ \A i \in DOMAIN mined, n \in DOMAIN pool : ~ Same(mined[i], pool[n])

\* A transaction of this call is about zone z, and the node has it or has mined it.
Submitted(z) ==
  LET OfThisCall(tx) == tx.zone = z /\ tx.cycle = cycle
  IN \/ \E n \in DOMAIN pool : OfThisCall(pool[n])
     \/ \E i \in DOMAIN mined : OfThisCall(mined[i])

\* "Returns submitted tx hashes": while a call counts its nonces by hand, nothing it
\* sends later, at whatever gas price and after whatever failure, displaces a
\* transaction whose hash it is going to return.
ReportedIsSubmitted == \A z \in hashes : Submitted(z)

\* The pool drains: no transaction is left waiting for good.
PoolDrains == <>[](pool = <<>>)

\* "Each zone becomes one on-chain logPrediction transaction": when no call has
\* failed and the key is the agent's, every zone of the call was submitted.
ZoneBecomesTransaction ==
  (signer = Agent /\ pc = "send" /\ todo = {} /\ faults = 0) => hashes = asked
=============================================================================
