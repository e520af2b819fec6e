-------------------------- MODULE OnChainLoggerProofs --------------------------
(***************************************************************************)
(* Proofs about log_zones and the node: for every number of cycles, zones  *)
(* and failed calls, the nonces that are counted by hand leave no gap and  *)
(* no zone is predicted twice; and what the contract's own theorems say    *)
(* holds of the contract as the logger uses it.                            *)
(***************************************************************************)
EXTENDS OnChainLogger, FiniteSetTheorems, SequenceTheorems, TLAPS

ContractProofs == INSTANCE CascadeLoggerProofs

\* The local nonce, too, is at most one past a run of waiting transactions.
Counted ==
  /\ NoNonceGap
  /\ signer = Agent =>
       \A n \in Nat : Len(mined) <= n /\ n < nonce => n \in DOMAIN pool

\* A transaction is of this cycle or an earlier one, and its zone was tried.
Past(tx) == tx.cycle <= cycle /\ (tx.cycle = cycle => tx.zone \notin todo)
AllPast ==
  /\ \A n \in DOMAIN pool : Past(pool[n])
  /\ \A i \in DOMAIN mined : Past(mined[i])

\* The log of the contract is what the account has had mined.
Ledger ==
  /\ Len(mined) = Len(predictions)
  /\ \A i \in DOMAIN mined : predictions[i].hash = mined[i].zone
-----------------------------------------------------------------------------
\* The next nonce to be mined is a number.
LEMMA MinedCount == TypeOK => Len(mined) \in Nat /\ DOMAIN mined = 1..Len(mined)
BY LenProperties DEF TypeOK

\* A transaction that the node takes is the only change of the pool.
LEMMA PooledFacts ==
  ASSUME TypeOK, NEW z \in todo, pc = "send", Pooled(z)
  PROVE  /\ DOMAIN pool' = DOMAIN pool \cup {nonce} /\ nonce \in Nat
         /\ pool'[nonce] = [zone |-> z, cycle |-> cycle, price |-> price]
         /\ pool'[nonce] \in Tx
         /\ \A n \in DOMAIN pool : n # nonce => pool'[n] = pool[n]
<1>1. [zone |-> z, cycle |-> cycle, price |-> price] \in Tx
  BY CyclesAssumption DEF TypeOK, Tx
<1> QED
  BY <1>1 DEF Pooled, TypeOK

\* A transaction that is mined leaves the pool for the end of the account.
LEMMA MineFacts ==
  ASSUME TypeOK, Mine
  PROVE  /\ Len(mined) \in DOMAIN pool
         /\ mined' \in Seq(Tx) /\ Len(mined') = Len(mined) + 1
         /\ DOMAIN mined' = 1..(Len(mined) + 1)
         /\ \A i \in DOMAIN mined : mined'[i] = mined[i]
         /\ mined'[Len(mined) + 1] = pool[Len(mined)]
         /\ DOMAIN pool' = DOMAIN pool \ {Len(mined)}
         /\ \A n \in DOMAIN pool' : pool'[n] = pool[n]
<1>1. /\ Len(mined) \in DOMAIN pool /\ mined' = Append(mined, pool[Len(mined)])
      /\ pool' = [n \in DOMAIN pool \ {Len(mined)} |-> pool[n]]
  BY DEF Mine
<1>2. pool[Len(mined)] \in Tx /\ mined \in Seq(Tx)
  BY <1>1 DEF TypeOK
<1>3. /\ mined' \in Seq(Tx) /\ Len(mined') = Len(mined) + 1
      /\ \A i \in 1..Len(mined) : mined'[i] = mined[i]
      /\ mined'[Len(mined) + 1] = pool[Len(mined)]
  BY <1>1, <1>2, AppendProperties
<1> QED
  BY <1>1, <1>3, MinedCount, LenProperties

\* The types are kept.
LEMMA TypeStep == TypeOK /\ [Next]_vars => TypeOK'
<1> SUFFICES ASSUME TypeOK, [Next]_vars PROVE TypeOK'
  OBVIOUS
<1> USE CyclesAssumption DEF TypeOK
<1>1. ASSUME Mine PROVE TypeOK'
  <2>1. \A n \in DOMAIN pool' : pool'[n] \in Tx
    BY <1>1, MineFacts
  <2> QED
    BY <1>1, <2>1, MineFacts DEF Mine, callVars
<1>2. ASSUME PriceMoves PROVE TypeOK'
  BY <1>2 DEF PriceMoves, callVars, nodeVars
<1>3. ASSUME NEW S \in SUBSET Hashes \ {{}}, Call(S) PROVE TypeOK'
  BY <1>3 DEF Call, nodeVars
<1>4. ASSUME GetNonce PROVE TypeOK'
  BY <1>4 DEF GetNonce, nodeVars
<1>5. ASSUME NonceFails PROVE TypeOK'
  BY <1>5 DEF NonceFails, ForgetCall, Fault, nodeVars
<1>6. ASSUME NEW z \in todo, Sent(z) PROVE TypeOK'
  <2>1. /\ DOMAIN pool' \subseteq Nat
        /\ \A n \in DOMAIN pool' : pool'[n] \in Tx
    BY <1>6, PooledFacts DEF Sent, Tried
  <2> QED
    BY <1>6, <2>1 DEF Sent, Tried
<1>7. ASSUME NEW z \in todo, Refused(z) PROVE TypeOK'
  BY <1>7 DEF Refused, Tried
<1>8. ASSUME NEW z \in todo, SendFails(z) PROVE TypeOK'
  BY <1>8 DEF SendFails, Tried, Fault
<1>9. ASSUME NEW z \in todo, AnswerLost(z) PROVE TypeOK'
  <2>1. /\ DOMAIN pool' \subseteq Nat
        /\ \A n \in DOMAIN pool' : pool'[n] \in Tx
    BY <1>9, PooledFacts DEF AnswerLost, Tried
  <2> QED
    BY <1>9, <2>1 DEF AnswerLost, Tried, Fault
<1>10. ASSUME NEW z \in todo, EstimateReverts(z) PROVE TypeOK'
  BY <1>10 DEF EstimateReverts, Tried
<1>11. ASSUME Return PROVE TypeOK'
  BY <1>11 DEF Return, ForgetCall, nodeVars
<1>12. ASSUME World PROVE TypeOK'
  BY <1>12 DEF World, callVars, nodeVars
<1>13. CASE UNCHANGED vars
  BY <1>13 DEF vars, callVars, nodeVars
<1> QED
  BY <1>1, <1>2, <1>3, <1>4, <1>5, <1>6, <1>7, <1>8, <1>9, <1>10, <1>11,
     <1>12, <1>13 DEF Next, Node, SendZone

\* What a call has reported was submitted, and waits at a nonce it has used up.
Reported ==
  /\ pc # "send" => hashes = {}
  /\ \A z \in hashes :
       \/ \E n \in DOMAIN pool : n < nonce /\ pool[n].zone = z /\ pool[n].cycle = cycle
       \/ \E i \in DOMAIN mined : mined[i].zone = z /\ mined[i].cycle = cycle

\* Neither the node nor the rest of the call takes back what was reported.
LEMMA ReportedStep == TypeOK /\ Reported /\ [Next]_vars => Reported'
<1> SUFFICES ASSUME TypeOK, Reported, [Next]_vars PROVE Reported'
  OBVIOUS
<1> USE MinedCount DEF Reported
<1>1. ASSUME Mine PROVE Reported'
  <2>1. /\ DOMAIN mined' = DOMAIN mined \cup {Len(mined) + 1}
        /\ \A i \in DOMAIN mined : mined'[i] = mined[i]
        /\ mined'[Len(mined) + 1] = pool[Len(mined)]
        /\ DOMAIN pool' = DOMAIN pool \ {Len(mined)}
        /\ \A n \in DOMAIN pool' : pool'[n] = pool[n]
    BY <1>1, MineFacts
  <2>2. /\ pc' = pc /\ hashes' = hashes /\ cycle' = cycle /\ nonce' = nonce
        /\ \A i \in DOMAIN mined : i # Len(mined) + 1
    BY <1>1 DEF Mine, callVars
  <2>3. ASSUME NEW z \in hashes
        PROVE  \/ \E n \in DOMAIN pool' : n < nonce /\ pool'[n].zone = z /\ pool'[n].cycle = cycle
               \/ \E i \in DOMAIN mined' : mined'[i].zone = z /\ mined'[i].cycle = cycle
    <3>1. CASE \E i \in DOMAIN mined : mined[i].zone = z /\ mined[i].cycle = cycle
      BY <2>1, <3>1
    <3>2. ASSUME NEW n \in DOMAIN pool, n < nonce, pool[n].zone = z, pool[n].cycle = cycle
          PROVE  \/ \E k \in DOMAIN pool' : k < nonce /\ pool'[k].zone = z /\ pool'[k].cycle = cycle
                 \/ \E i \in DOMAIN mined' : mined'[i].zone = z /\ mined'[i].cycle = cycle
      <4>1. CASE n = Len(mined)
        BY <2>1, <3>2, <4>1
      <4>2. CASE n # Len(mined)
        BY <2>1, <3>2, <4>2
      <4> QED
        BY <4>1, <4>2
    <3> QED
      BY <3>1, <3>2
  <2> QED
    BY <2>2, <2>3
<1>2. ASSUME PriceMoves PROVE Reported'
  BY <1>2 DEF PriceMoves, callVars, nodeVars
<1>3. ASSUME NEW S \in SUBSET Hashes \ {{}}, Call(S) PROVE Reported'
  BY <1>3 DEF Call, nodeVars
<1>4. ASSUME GetNonce PROVE Reported'
  BY <1>4 DEF GetNonce, nodeVars
<1>5. ASSUME NonceFails PROVE Reported'
  BY <1>5 DEF NonceFails, ForgetCall, Fault, nodeVars
<1>6. ASSUME NEW z \in todo, Sent(z) PROVE Reported'
  <2>1. /\ DOMAIN pool' = DOMAIN pool \cup {nonce} /\ nonce \in Nat
        /\ pool'[nonce] = [zone |-> z, cycle |-> cycle, price |-> price]
        /\ \A n \in DOMAIN pool : n # nonce => pool'[n] = pool[n]
    BY <1>6, PooledFacts DEF Sent, Tried
  <2>2. /\ nonce' = nonce + 1 /\ hashes' = hashes \cup {z} /\ mined' = mined
        /\ cycle' = cycle /\ pc' = pc /\ pc = "send" /\ DOMAIN pool \subseteq Nat
    BY <1>6 DEF Sent, Tried, TypeOK
  <2> QED
    BY <2>1, <2>2
<1>7. ASSUME NEW z \in todo, Refused(z) PROVE Reported'
  BY <1>7 DEF Refused, Tried
<1>8. ASSUME NEW z \in todo, SendFails(z) PROVE Reported'
  BY <1>8 DEF SendFails, Tried, Fault
<1>9. ASSUME NEW z \in todo, AnswerLost(z) PROVE Reported'
  <2>1. /\ DOMAIN pool' = DOMAIN pool \cup {nonce} /\ nonce \in Nat
        /\ \A n \in DOMAIN pool : n # nonce => pool'[n] = pool[n]
    BY <1>9, PooledFacts DEF AnswerLost, Tried
  <2>2. /\ nonce' = nonce /\ hashes' = hashes /\ mined' = mined
        /\ cycle' = cycle /\ pc' = pc /\ DOMAIN pool \subseteq Nat
    BY <1>9 DEF AnswerLost, Tried, TypeOK
  <2> QED
    BY <2>1, <2>2
<1>10. ASSUME NEW z \in todo, EstimateReverts(z) PROVE Reported'
  <2>1. /\ nonce' = nonce + 1 /\ hashes' = hashes /\ mined' = mined /\ pool' = pool
        /\ cycle' = cycle /\ pc' = pc /\ DOMAIN pool \subseteq Nat /\ nonce \in Nat
    BY <1>10 DEF EstimateReverts, Tried, TypeOK
  <2> QED
    BY <2>1
<1>11. ASSUME Return PROVE Reported'
  BY <1>11 DEF Return, ForgetCall, nodeVars
<1>12. ASSUME World PROVE Reported'
  BY <1>12 DEF World, callVars, nodeVars
<1>13. CASE UNCHANGED vars
  BY <1>13 DEF vars, callVars, nodeVars
<1> QED
  BY <1>1, <1>2, <1>3, <1>4, <1>5, <1>6, <1>7, <1>8, <1>9, <1>10, <1>11,
     <1>12, <1>13 DEF Next, Node, SendZone

\* Whatever becomes of a transaction, the nonces stay a run.
LEMMA CountedStep == TypeOK /\ Counted /\ [Next]_vars => Counted'
<1> SUFFICES ASSUME TypeOK, Counted, [Next]_vars PROVE Counted'
  OBVIOUS
<1> USE MinedCount DEF Counted, NoNonceGap
<1>1. ASSUME Mine PROVE Counted'
  <2>1. /\ Len(mined') = Len(mined) + 1 /\ DOMAIN pool' = DOMAIN pool \ {Len(mined)}
        /\ nonce' = nonce /\ signer' = signer /\ DOMAIN pool \subseteq Nat
    BY <1>1, MineFacts DEF Mine, callVars, TypeOK
  <2>2. ASSUME NEW n \in DOMAIN pool'
        PROVE  n >= Len(mined') /\ (Len(mined')..n) \subseteq DOMAIN pool'
    <3>1. n \in DOMAIN pool /\ n # Len(mined) /\ n \in Nat
      BY <2>1
    <3>2. n >= Len(mined) /\ (Len(mined)..n) \subseteq DOMAIN pool
      BY <3>1
    <3> QED
      BY <2>1, <3>1, <3>2
  <2>3. ASSUME signer' = Agent, NEW n \in Nat, Len(mined') <= n, n < nonce'
        PROVE  n \in DOMAIN pool'
    <3>1. nonce \in Nat /\ n < nonce /\ Len(mined) <= n /\ n # Len(mined)
      BY <2>1, <2>3 DEF TypeOK
    <3>2. n \in DOMAIN pool
      BY <2>1, <2>3, <3>1
    <3> QED
      BY <2>1, <3>1, <3>2
  <2> QED
    BY <2>2, <2>3
<1>2. ASSUME PriceMoves PROVE Counted'
  BY <1>2 DEF PriceMoves, callVars, nodeVars
<1>3. ASSUME NEW S \in SUBSET Hashes \ {{}}, Call(S) PROVE Counted'
  BY <1>3 DEF Call, nodeVars
<1>4. ASSUME GetNonce PROVE Counted'
  BY <1>4 DEF GetNonce, nodeVars
<1>5. ASSUME NonceFails PROVE Counted'
  BY <1>5 DEF NonceFails, ForgetCall, Fault, nodeVars
<1>6. ASSUME NEW z \in todo, Sent(z) PROVE Counted'
  <2>1. /\ DOMAIN pool' = DOMAIN pool \cup {nonce} /\ nonce \in Nat
        /\ mined' = mined /\ nonce' = nonce + 1 /\ signer' = signer /\ signer = Agent
    BY <1>6, PooledFacts DEF Sent, Tried
  <2>2. nonce >= Len(mined) /\ DOMAIN pool \subseteq Nat
    BY <1>6 DEF Sent, Accepts, TypeOK
  <2> QED
    BY <2>1, <2>2
<1>7. ASSUME NEW z \in todo, Refused(z) PROVE Counted'
  BY <1>7 DEF Refused, Tried
<1>8. ASSUME NEW z \in todo, SendFails(z) PROVE Counted'
  BY <1>8 DEF SendFails, Tried, Fault
<1>9. ASSUME NEW z \in todo, AnswerLost(z) PROVE Counted'
  <2>1. /\ DOMAIN pool' = DOMAIN pool \cup {nonce} /\ nonce \in Nat
        /\ mined' = mined /\ nonce' = nonce /\ signer' = signer /\ signer = Agent
    BY <1>9, PooledFacts DEF AnswerLost, Tried
  <2>2. nonce >= Len(mined) /\ DOMAIN pool \subseteq Nat
    BY <1>9 DEF AnswerLost, Accepts, TypeOK
  <2> QED
    BY <2>1, <2>2
<1>10. ASSUME NEW z \in todo, EstimateReverts(z) PROVE Counted'
  <2>1. signer' = signer /\ signer # Agent /\ pool' = pool /\ mined' = mined
    BY <1>10 DEF EstimateReverts, Tried
  <2> QED
    BY <2>1
<1>11. ASSUME Return PROVE Counted'
  BY <1>11 DEF Return, ForgetCall, nodeVars
<1>12. ASSUME World PROVE Counted'
  BY <1>12 DEF World, callVars, nodeVars
<1>13. CASE UNCHANGED vars
  BY <1>13 DEF vars, callVars, nodeVars
<1> QED
  BY <1>1, <1>2, <1>3, <1>4, <1>5, <1>6, <1>7, <1>8, <1>9, <1>10, <1>11,
     <1>12, <1>13 DEF Next, Node, SendZone

\* A zone is tried once in its cycle.
LEMMA PastStep == TypeOK /\ AllPast /\ [Next]_vars => AllPast'
<1> SUFFICES ASSUME TypeOK, AllPast, [Next]_vars PROVE AllPast'
  OBVIOUS
<1> USE MinedCount, CyclesAssumption DEF AllPast, Past
<1>1. ASSUME Mine PROVE AllPast'
  <2>1. cycle' = cycle /\ todo' = todo
    BY <1>1 DEF Mine, callVars
  <2> QED
    BY <1>1, <2>1, MineFacts
<1>2. ASSUME PriceMoves PROVE AllPast'
  BY <1>2 DEF PriceMoves, callVars, nodeVars
<1>3. ASSUME NEW S \in SUBSET Hashes \ {{}}, Call(S) PROVE AllPast'
  <2>1. cycle' = cycle + 1 /\ pool' = pool /\ mined' = mined
    BY <1>3 DEF Call, nodeVars
  <2>2. /\ \A n \in DOMAIN pool : pool[n].cycle \in Nat
        /\ \A i \in DOMAIN mined : mined[i].cycle \in Nat
    <3>1. \A i \in DOMAIN mined : mined[i] \in Tx
      BY ElementOfSeq DEF TypeOK
    <3> QED
      BY <3>1 DEF TypeOK, Tx
  <2>3. cycle \in Nat
    BY DEF TypeOK
  <2> QED
    BY <2>1, <2>2, <2>3
<1>4. ASSUME GetNonce PROVE AllPast'
  BY <1>4 DEF GetNonce, nodeVars
<1>5. ASSUME NonceFails PROVE AllPast'
  BY <1>5 DEF NonceFails, ForgetCall, Fault, nodeVars
<1>6. ASSUME NEW z \in todo, Sent(z) PROVE AllPast'
  <2>1. /\ cycle' = cycle /\ todo' = todo \ {z} /\ mined' = mined
        /\ DOMAIN pool' = DOMAIN pool \cup {nonce}
        /\ pool'[nonce] = [zone |-> z, cycle |-> cycle, price |-> price]
        /\ \A n \in DOMAIN pool : n # nonce => pool'[n] = pool[n]
    BY <1>6, PooledFacts DEF Sent, Tried
  <2>2. cycle \in Nat
    BY DEF TypeOK
  <2> QED
    BY <2>1, <2>2
<1>7. ASSUME NEW z \in todo, Refused(z) PROVE AllPast'
  BY <1>7 DEF Refused, Tried
<1>8. ASSUME NEW z \in todo, SendFails(z) PROVE AllPast'
  BY <1>8 DEF SendFails, Tried, Fault
<1>9. ASSUME NEW z \in todo, AnswerLost(z) PROVE AllPast'
  <2>1. /\ cycle' = cycle /\ todo' = todo \ {z} /\ mined' = mined
        /\ DOMAIN pool' = DOMAIN pool \cup {nonce}
        /\ pool'[nonce] = [zone |-> z, cycle |-> cycle, price |-> price]
        /\ \A n \in DOMAIN pool : n # nonce => pool'[n] = pool[n]
    BY <1>9, PooledFacts DEF AnswerLost, Tried
  <2>2. cycle \in Nat
    BY DEF TypeOK
  <2> QED
    BY <2>1, <2>2
<1>10. ASSUME NEW z \in todo, EstimateReverts(z) PROVE AllPast'
  BY <1>10 DEF EstimateReverts, Tried
<1>11. ASSUME Return PROVE AllPast'
  BY <1>11 DEF Return, ForgetCall, nodeVars
<1>12. ASSUME World PROVE AllPast'
  BY <1>12 DEF World, callVars, nodeVars
<1>13. CASE UNCHANGED vars
  BY <1>13 DEF vars, callVars, nodeVars
<1> QED
  BY <1>1, <1>2, <1>3, <1>4, <1>5, <1>6, <1>7, <1>8, <1>9, <1>10, <1>11,
     <1>12, <1>13 DEF Next, Node, SendZone

\* So no two transactions are about one zone of one cycle.
LEMMA OnceStep == TypeOK /\ AllPast /\ AtMostOnce /\ [Next]_vars => AtMostOnce'
<1> SUFFICES ASSUME TypeOK, AllPast, AtMostOnce, [Next]_vars PROVE AtMostOnce'
  OBVIOUS
<1> USE MinedCount DEF AtMostOnce
<1>1. ASSUME Mine PROVE AtMostOnce'
  <2>1. /\ Len(mined) \in DOMAIN pool /\ DOMAIN mined' = 1..(Len(mined) + 1)
        /\ \A i \in DOMAIN mined : mined'[i] = mined[i]
        /\ mined'[Len(mined) + 1] = pool[Len(mined)]
        /\ DOMAIN pool' = DOMAIN pool \ {Len(mined)}
        /\ \A n \in DOMAIN pool' : pool'[n] = pool[n]
    BY <1>1, MineFacts
  <2> QED
    BY <2>1
<1>2. ASSUME PriceMoves PROVE AtMostOnce'
  BY <1>2 DEF PriceMoves, callVars, nodeVars
<1>3. ASSUME NEW S \in SUBSET Hashes \ {{}}, Call(S) PROVE AtMostOnce'
  BY <1>3 DEF Call, nodeVars
<1>4. ASSUME GetNonce PROVE AtMostOnce'
  BY <1>4 DEF GetNonce, nodeVars
<1>5. ASSUME NonceFails PROVE AtMostOnce'
  BY <1>5 DEF NonceFails, ForgetCall, Fault, nodeVars
<1>6. ASSUME NEW z \in todo, Sent(z) PROVE AtMostOnce'
  <2>1. /\ mined' = mined /\ DOMAIN pool' = DOMAIN pool \cup {nonce}
        /\ pool'[nonce] = [zone |-> z, cycle |-> cycle, price |-> price]
        /\ \A n \in DOMAIN pool : n # nonce => pool'[n] = pool[n]
    BY <1>6, PooledFacts DEF Sent, Tried
  <2>2. /\ \A n \in DOMAIN pool : pool[n].zone # z \/ pool[n].cycle # cycle
        /\ \A i \in DOMAIN mined : mined[i].zone # z \/ mined[i].cycle # cycle
    BY DEF AllPast, Past
  <2> QED
    BY <2>1, <2>2
<1>7. ASSUME NEW z \in todo, Refused(z) PROVE AtMostOnce'
  BY <1>7 DEF Refused, Tried
<1>8. ASSUME NEW z \in todo, SendFails(z) PROVE AtMostOnce'
  BY <1>8 DEF SendFails, Tried, Fault
<1>9. ASSUME NEW z \in todo, AnswerLost(z) PROVE AtMostOnce'
  <2>1. /\ mined' = mined /\ DOMAIN pool' = DOMAIN pool \cup {nonce}
        /\ pool'[nonce] = [zone |-> z, cycle |-> cycle, price |-> price]
        /\ \A n \in DOMAIN pool : n # nonce => pool'[n] = pool[n]
    BY <1>9, PooledFacts DEF AnswerLost, Tried
  <2>2. /\ \A n \in DOMAIN pool : pool[n].zone # z \/ pool[n].cycle # cycle
        /\ \A i \in DOMAIN mined : mined[i].zone # z \/ mined[i].cycle # cycle
    BY DEF AllPast, Past
  <2> QED
    BY <2>1, <2>2
<1>10. ASSUME NEW z \in todo, EstimateReverts(z) PROVE AtMostOnce'
  BY <1>10 DEF EstimateReverts, Tried
<1>11. ASSUME Return PROVE AtMostOnce'
  BY <1>11 DEF Return, ForgetCall, nodeVars
<1>12. ASSUME World PROVE AtMostOnce'
  BY <1>12 DEF World, callVars, nodeVars
<1>13. CASE UNCHANGED vars
  BY <1>13 DEF vars, callVars, nodeVars
<1> QED
  BY <1>1, <1>2, <1>3, <1>4, <1>5, <1>6, <1>7, <1>8, <1>9, <1>10, <1>11,
     <1>12, <1>13 DEF Next, Node, SendZone

-----------------------------------------------------------------------------
(* The contract *)

\* The constants are as the contract assumes them.
LEMMA ContractConstants ==
  /\ Agent \in Callers /\ OutcomeWindow \in Nat \ {0}
  /\ MaxBps \in Nat /\ Bps \subseteq Nat
  /\ MaxClock \in Nat /\ MaxPredictions \in Nat
<1>1. Cardinality(Hashes) \in Nat
  BY ContractAssumption, FS_CardinalityType
<1>2. MaxPredictions \in Nat
  BY <1>1, CyclesAssumption DEF MaxPredictions
<1> QED
  BY <1>2, ContractAssumption DEF Bps

\* Steps of the logger and the node are the contract's steps or leave it alone.
LEMMA ContractStep ==
  TypeOK /\ [Next]_vars => [ContractProofs!Next]_(ContractProofs!vars)
<1> SUFFICES ASSUME TypeOK, [Next]_vars
             PROVE  ContractProofs!Next \/ UNCHANGED contractVars
  BY DEF contractVars, ContractProofs!vars
<1>1. ASSUME Mine PROVE ContractProofs!Next
  <2>1. PICK s \in Severities :
          Contract!LogPrediction(signer, MaxBps, s, pool[Len(mined)].zone)
    BY <1>1 DEF Mine
  <2>2. signer \in Callers /\ s \in 0..3 /\ MaxBps \in Bps
    BY SeveritiesAssumption DEF TypeOK, Bps
  <2>3. pool[Len(mined)].zone \in Hashes
    BY <1>1, MineFacts DEF TypeOK, Tx
  <2>4. ContractProofs!LogPrediction(signer, MaxBps, s, pool[Len(mined)].zone)
    BY <2>1 DEF Contract!LogPrediction, ContractProofs!LogPrediction,
        Contract!NewPrediction, ContractProofs!NewPrediction, Contract!Count,
        ContractProofs!Count
  <2> QED
    BY <2>2, <2>3, <2>4 DEF ContractProofs!Next, ContractProofs!Severity
<1>2. ASSUME World PROVE ContractProofs!Next
  <2>1. CASE Contract!NewBlock
    BY <2>1 DEF Contract!NewBlock, ContractProofs!NewBlock, ContractProofs!Next
  <2>2. CASE \E id \in Contract!Ids, b \in BOOLEAN : Contract!RecordOutcome(id, b)
    BY <2>2 DEF Contract!RecordOutcome, ContractProofs!RecordOutcome, Contract!Ids,
        ContractProofs!Ids, Contract!Count, ContractProofs!Count,
        Contract!Prediction, ContractProofs!Prediction, Contract!Settled,
        ContractProofs!Settled, ContractProofs!Next
  <2> QED
    BY <1>2, <2>1, <2>2 DEF World
<1>3. ASSUME PriceMoves PROVE UNCHANGED contractVars
  BY <1>3 DEF PriceMoves
<1>4. ASSUME NEW S \in SUBSET Hashes \ {{}}, Call(S) PROVE UNCHANGED contractVars
  BY <1>4 DEF Call
<1>5. ASSUME GetNonce PROVE UNCHANGED contractVars
  BY <1>5 DEF GetNonce
<1>6. ASSUME NonceFails PROVE UNCHANGED contractVars
  BY <1>6 DEF NonceFails
<1>7. ASSUME NEW z \in todo, Sent(z) PROVE UNCHANGED contractVars
  BY <1>7 DEF Sent, Tried
<1>8. ASSUME NEW z \in todo, Refused(z) PROVE UNCHANGED contractVars
  BY <1>8 DEF Refused, Tried
<1>9. ASSUME NEW z \in todo, SendFails(z) PROVE UNCHANGED contractVars
  BY <1>9 DEF SendFails, Tried
<1>10. ASSUME NEW z \in todo, AnswerLost(z) PROVE UNCHANGED contractVars
  BY <1>10 DEF AnswerLost, Tried
<1>11. ASSUME NEW z \in todo, EstimateReverts(z) PROVE UNCHANGED contractVars
  BY <1>11 DEF EstimateReverts, Tried
<1>12. ASSUME Return PROVE UNCHANGED contractVars
  BY <1>12 DEF Return
<1>13. CASE UNCHANGED vars
  BY <1>13 DEF vars
<1> QED
  BY <1>1, <1>2, <1>3, <1>4, <1>5, <1>6, <1>7, <1>8, <1>9, <1>10, <1>11,
     <1>12, <1>13 DEF Next, Node, SendZone

\* What is mined is logged, and an outcome does not change what was predicted.
LEMMA LedgerStep ==
  TypeOK /\ ContractProofs!TypeOK /\ Ledger /\ [Next]_vars => Ledger'
<1> SUFFICES ASSUME TypeOK, ContractProofs!TypeOK, Ledger, [Next]_vars PROVE Ledger'
  OBVIOUS
<1> USE MinedCount DEF Ledger
<1>1. ASSUME Mine PROVE Ledger'
  <2> DEFINE tx == pool[Len(mined)]
  <2>1. PICK s \in Severities : Contract!LogPrediction(signer, MaxBps, s, tx.zone)
    BY <1>1 DEF Mine
  <2>2. predictions' = Append(predictions, Contract!NewPrediction(MaxBps, s, tx.zone))
    BY <2>1 DEF Contract!LogPrediction
  <2>3. PICK new : predictions' = Append(predictions, new) /\ new.hash = tx.zone
    BY <2>2 DEF Contract!NewPrediction
  <2>4. predictions \in Seq(ContractProofs!PredictionType)
    BY DEF ContractProofs!TypeOK
  <2>5. /\ Len(predictions') = Len(predictions) + 1
        /\ predictions'[Len(predictions) + 1] = new
        /\ \A i \in 1..Len(predictions) : predictions'[i] = predictions[i]
    BY <2>3, <2>4
  <2>6. /\ Len(mined') = Len(mined) + 1 /\ DOMAIN mined' = 1..(Len(mined) + 1)
        /\ \A i \in DOMAIN mined : mined'[i] = mined[i]
        /\ mined'[Len(mined) + 1] = tx
    BY <1>1, MineFacts
  <2> QED
    BY <2>3, <2>5, <2>6
<1>2. ASSUME World PROVE Ledger'
  <2>1. mined' = mined
    BY <1>2 DEF World, nodeVars
  <2>2. CASE Contract!NewBlock
    BY <2>1, <2>2 DEF Contract!NewBlock
  <2>3. ASSUME NEW id \in Contract!Ids, NEW b \in BOOLEAN, Contract!RecordOutcome(id, b)
        PROVE  Ledger'
    <3>1. id \in ContractProofs!Ids /\ ContractProofs!RecordOutcome(id, b)
      BY <2>3
        DEF Contract!RecordOutcome, ContractProofs!RecordOutcome, Contract!Ids,
          ContractProofs!Ids, Contract!Count, ContractProofs!Count,
          Contract!Prediction, ContractProofs!Prediction, Contract!Settled,
          ContractProofs!Settled
    <3>2. /\ Len(predictions') = Len(predictions)
          /\ \A other \in ContractProofs!Ids : other # id =>
               predictions'[other + 1] = predictions[other + 1]
          /\ predictions'[id + 1] =
               [ContractProofs!Prediction(id) EXCEPT !.recorded = TRUE, !.occurred = b,
                                                     !.outcomeBlock = height]
      BY <3>1, ContractConstants, ContractProofs!Recorded
    <3>3. ContractProofs!Prediction(id) \in ContractProofs!PredictionType
      BY <3>1 DEF ContractProofs!TypeOK, ContractProofs!Ids, ContractProofs!Count,
          ContractProofs!Prediction
    <3>4. predictions'[id + 1].hash = ContractProofs!Prediction(id).hash
      BY <3>2, <3>3 DEF ContractProofs!PredictionType
    <3>5. ASSUME NEW i \in DOMAIN mined
          PROVE predictions'[i].hash = predictions[i].hash
      <4>1. i - 1 \in ContractProofs!Ids /\ (i - 1) + 1 = i
        BY DEF ContractProofs!Ids, ContractProofs!Count
      <4>2. CASE i - 1 = id
        BY <3>4, <4>1, <4>2 DEF ContractProofs!Prediction
      <4>3. CASE i - 1 # id
        BY <3>2, <4>1, <4>3
      <4> QED
        BY <4>2, <4>3
    <3> QED
      BY <2>1, <3>2, <3>5
  <2> QED
    BY <1>2, <2>2, <2>3 DEF World
<1>3. ASSUME PriceMoves PROVE Ledger'
  BY <1>3 DEF PriceMoves, contractVars, nodeVars
<1>4. ASSUME NEW S \in SUBSET Hashes \ {{}}, Call(S) PROVE Ledger'
  BY <1>4 DEF Call, contractVars, nodeVars
<1>5. ASSUME GetNonce PROVE Ledger'
  BY <1>5 DEF GetNonce, contractVars, nodeVars
<1>6. ASSUME NonceFails PROVE Ledger'
  BY <1>6 DEF NonceFails, contractVars, nodeVars
<1>7. ASSUME NEW z \in todo, Sent(z) PROVE Ledger'
  BY <1>7 DEF Sent, contractVars, Tried
<1>8. ASSUME NEW z \in todo, Refused(z) PROVE Ledger'
  BY <1>8 DEF Refused, contractVars, Tried
<1>9. ASSUME NEW z \in todo, SendFails(z) PROVE Ledger'
  BY <1>9 DEF SendFails, contractVars, Tried
<1>10. ASSUME NEW z \in todo, AnswerLost(z) PROVE Ledger'
  BY <1>10 DEF AnswerLost, contractVars, Tried
<1>11. ASSUME NEW z \in todo, EstimateReverts(z) PROVE Ledger'
  BY <1>11 DEF EstimateReverts, contractVars, Tried
<1>12. ASSUME Return PROVE Ledger'
  BY <1>12 DEF Return, contractVars, nodeVars
<1>13. CASE UNCHANGED vars
  BY <1>13 DEF vars, contractVars, nodeVars
<1> QED
  BY <1>1, <1>2, <1>3, <1>4, <1>5, <1>6, <1>7, <1>8, <1>9, <1>10, <1>11,
     <1>12, <1>13 DEF Next, Node, SendZone

-----------------------------------------------------------------------------
(* The theorems *)

\* The invariants hold of the initial states.
LEMMA Initially ==
  Init => TypeOK /\ Reported /\ Counted /\ AllPast /\ AtMostOnce /\ Ledger
<1> SUFFICES ASSUME Init
             PROVE  TypeOK /\ Reported /\ Counted /\ AllPast /\ AtMostOnce /\ Ledger
  OBVIOUS
<1>1. /\ pool = <<>> /\ mined = <<>> /\ nonce = 0 /\ hashes = {} /\ predictions = <<>>
      /\ Len(mined) = 0 /\ DOMAIN mined = {} /\ DOMAIN pool = {}
  BY DEF Init, Contract!Init
<1>2. TypeOK
  BY <1>1, CyclesAssumption DEF Init, TypeOK
<1> QED
  BY <1>1, <1>2
    DEF Reported, Counted, NoNonceGap, AllPast, AtMostOnce, Ledger

\* The types of the logger and the node.
THEOREM TypeCorrect == Spec => []TypeOK
BY Initially, TypeStep, PTL DEF Spec

\* The logger's world is one in which the contract behaves as the contract: what
\* is proved of every behaviour of the contract holds of the composition.
THEOREM ContractKept == Spec => ContractProofs!Spec
<1>1. Init => ContractProofs!Init
  BY DEF Init, Contract!Init, ContractProofs!Init
<1> QED
  BY <1>1, ContractStep, TypeCorrect, PTL DEF Spec, ContractProofs!Spec

\* The hashes a call returns are those of transactions that the node has mined or
\* still has (on_chain_logger.py:79, 96-113).
THEOREM ReportedKept == Spec => []ReportedIsSubmitted
<1>1. Reported => ReportedIsSubmitted
  BY DEF Reported, ReportedIsSubmitted, Submitted
<1> QED
  BY <1>1, Initially, TypeStep, ReportedStep, PTL DEF Spec

\* Refused, failed and unanswered transactions leave no gap in the nonces
\* (on_chain_logger.py:91-127).
THEOREM NoncesAreARun == Spec => []NoNonceGap
<1>1. Counted => NoNonceGap
  BY DEF Counted
<1> QED
  BY <1>1, Initially, TypeStep, CountedStep, PTL DEF Spec

\* A zone of a cycle is predicted at most once (on_chain_logger.py:91-127).
THEOREM PredictedOnce == Spec => []AtMostOnce
BY Initially, TypeStep, PastStep, OnceStep, PTL DEF Spec

\* The contract's log is the list of the account's mined transactions.
THEOREM LogIsTheAccount == Spec => []Ledger
<1>1. ContractProofs!Spec => []ContractProofs!TypeOK
  BY ContractConstants, ContractProofs!TypeCorrect
<1> QED
  BY <1>1, Initially, TypeStep, ContractKept, LedgerStep, PTL DEF Spec
=============================================================================
