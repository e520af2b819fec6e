-------------------------- MODULE InitReaderProofs --------------------------
(***************************************************************************)
(* Proofs about the scan of INIT's positions, for every number of tokens,  *)
(* pools and threads.                                                      *)
(***************************************************************************)
EXTENDS InitReader, FiniteSetTheorems, SequenceTheorems, TLAPS

Building == {"pool", "poolCall", "symbol", "symbolCall"}
Reading == {"borrInfo", "collCredit", "borrCredit", "legs"} \cup Building

\* The type invariant in three parts.
ChainOK ==
  /\ minted \in 0..Cardinality(Ids)
  /\ order \in Seq(1..minted)
  /\ \A i, j \in DOMAIN order : order[i] = order[j] => i = j
  /\ debtors \subseteq Ids

CursorOK ==
  /\ pc \in {"idle", "index"} \cup Reading
  /\ total \in Nat /\ offset \in 0..ScanLimit
  /\ pc \in Reading => offset < ScanLimit
  /\ pid \in Ids \cup {0} /\ (pid = 0 <=> pc \notin Reading)

RecordOK ==
  /\ {coll, debt, sawColl, sawDebt} \subseteq Nat /\ then \in Nat \X Nat
  /\ out \in Seq(Ids)
  /\ owing \subseteq Tokens \cap debtors

\* How many indices the scan has still to look at, from the bottom.
Left == IF pc \in Reading THEN total - offset - 1 ELSE total - offset

\* A position that owes was reported, is being read, or is below the cursor: a
\* burn moves the last token down and never up.
Ahead ==
  (pc # "idle" /\ ~ failed) =>
    \A p \in owing :
      p \in Result \/ p = pid \/ \E i \in DOMAIN order : order[i] = p /\ i <= Left

\* What was reported stands above the cursor, and each token once.
Behind ==
  ~ burned =>
    /\ total <= Len(order)
    /\ pc \in Reading => order[total - offset] = pid
    /\ \A p \in Result : \E i \in DOMAIN order : order[i] = p /\ i > total - offset

\* The first call saw what was then, the second what is now.
Seen ==
  /\ pc \in {"borrCredit", "legs"} => sawColl = then[1]
  /\ pc = "legs" => sawDebt = debt

\* A lookup is settled when its answer is in the cache and no other thread is
\* about to store one.
Settled(l) == l \in DOMAIN cache /\ l \notin others

\* _pool_underlying(pool) or pool, by the cache.
CachedAddress(pool) ==
  IF cache[UnderlyingOf(pool)] = Missing THEN pool ELSE cache[UnderlyingOf(pool)]

\* A label is what settled lookups say, which this thread is not calling for; and
\* so is the address of the leg in hand.
Cached ==
  /\ \A x \in labels :
       /\ Settled(UnderlyingOf(x.pool)) /\ Settled(SymbolOf(CachedAddress(x.pool)))
       /\ x.label = cache[SymbolOf(CachedAddress(x.pool))]
       /\ pc \in {"poolCall", "symbolCall"} =>
            Wanted \notin {UnderlyingOf(x.pool), SymbolOf(CachedAddress(x.pool))}
  /\ (pc \in {"symbol", "symbolCall"} /\ ~ raced) =>
       Settled(UnderlyingOf(Head(legs))) /\ address = CachedAddress(Head(legs))
-----------------------------------------------------------------------------
\* The ids are 1 to their number.
LEMMA NumberOfIds == Cardinality(Ids) \in Nat /\ Ids = 1..Cardinality(Ids)
BY IdsAssumption, FS_CardinalityType

\* The type invariant is its parts.
LEMMA TypeParts == TypeOK <=> ChainOK /\ CursorOK /\ RecordOK
BY DEF TypeOK, ChainOK, CursorOK, RecordOK, Reading, Building

\* The scan never looks at more than there was.
LEMMA LimitFacts ==
  ASSUME total \in Nat
  PROVE  /\ ScanLimit \in Nat /\ ScanLimit <= total
         /\ MaxPositions = 0 => ScanLimit = total
BY MaxPositionsAssumption DEF ScanLimit

\* What becomes of the scan when a lookup ends: it goes on to the next lookup, or
\* the position is reported.
LEMMA LookupOutcome ==
  ASSUME CacheHit \/ CacheFill
  PROVE  /\ UNCHANGED <<chainVars, total, burned, owing>>
         /\ pc \in Building
         /\ \/ pc' \in Building /\ UNCHANGED <<creditVars, pid, offset, out, failed>>
            \/ NextIndex /\ out' = Append(out, pid) /\ UNCHANGED failed
<1>1. PICK answer : GotUnderlying(answer) \/ GotSymbol(answer)
  BY DEF CacheHit, CacheFill
<1>2. pc \in Building
  BY DEF CacheHit, CacheFill, Building
<1>3. CASE GotUnderlying(answer)
  BY <1>2, <1>3 DEF GotUnderlying, Building, scanVars, histVars
<1>4. CASE GotSymbol(answer)
  BY <1>2, <1>4 DEF GotSymbol, Building, scanVars, histVars, NextIndex
<1> QED
  BY <1>1, <1>3, <1>4

-----------------------------------------------------------------------------
(* The enumeration *)

\* A new token is appended.
LEMMA MintFacts ==
  ASSUME TypeOK, Mint
  PROVE  /\ minted' = minted + 1 /\ minted' \in 0..Cardinality(Ids)
         /\ order' \in Seq(1..minted') /\ Len(order') = Len(order) + 1
         /\ \A i \in DOMAIN order : i \in DOMAIN order' /\ order'[i] = order[i]
         /\ order'[Len(order) + 1] = minted + 1
         /\ \A i \in DOMAIN order : order[i] # minted + 1
         /\ Tokens \subseteq Tokens'
<1>1. minted \in Nat /\ minted' = minted + 1 /\ minted' \in 0..Cardinality(Ids)
  BY NumberOfIds DEF Mint, TypeOK
<1>2. order \in Seq(1..minted')
  BY <1>1 DEF TypeOK
<1>3. minted + 1 \in 1..minted'
  BY <1>1
<1>4. order' = Append(order, minted + 1)
  BY DEF Mint
<1>5. /\ order' \in Seq(1..minted') /\ Len(order') = Len(order) + 1
      /\ \A i \in DOMAIN order : i \in DOMAIN order' /\ order'[i] = order[i]
      /\ order'[Len(order) + 1] = minted + 1
  BY <1>2, <1>3, <1>4
<1>6. \A i \in DOMAIN order : order[i] # minted + 1
  BY <1>1 DEF TypeOK
<1> QED
  BY <1>1, <1>5, <1>6 DEF Tokens

\* Everything but the burned token and the last one keeps its place.
LEMMA BurnFacts ==
  ASSUME TypeOK, NEW i \in DOMAIN order, Burn(i)
  PROVE  /\ order' \in Seq(1..minted) /\ Len(order') = Len(order) - 1
         /\ DOMAIN order' = 1..(Len(order) - 1)
         /\ \A j \in DOMAIN order' :
              order'[j] = IF j = i THEN order[Len(order)] ELSE order[j]
         /\ \A p \in Tokens : p # order[i] => p \in Tokens'
<1> DEFINE swapped == [order EXCEPT ![i] = order[Len(order)]]
<1>1. order \in Seq(1..minted) /\ i \in 1..Len(order) /\ Len(order) \in Nat
  BY DEF TypeOK
<1>2. order[Len(order)] \in 1..minted
  <2>1. Len(order) \in 1..Len(order)
    BY <1>1
  <2> QED
    BY <1>1, <2>1, ElementOfSeq
<1>3. /\ swapped \in Seq(1..minted) /\ Len(swapped) = Len(order)
      /\ \A j \in 1..Len(order) :
           swapped[j] = IF j = i THEN order[Len(order)] ELSE order[j]
  BY <1>1, <1>2, ExceptSeq
<1>4. order' = SubSeq(swapped, 1, Len(order) - 1)
  BY DEF Burn
<1>5. /\ order' \in Seq(1..minted) /\ Len(order') = Len(order) - 1
      /\ \A j \in 1..(Len(order) - 1) : order'[j] = swapped[j]
  <2> DEFINE last == Len(order) - 1
  <2>1. last \in Nat /\ \A j \in 1..last : j \in 1..Len(swapped)
    BY <1>1, <1>3
  <2> HIDE DEF swapped
  <2>2. \A j \in 1..last : swapped[j] \in 1..minted
    BY <1>3, <2>1, ElementOfSeq
  <2>3. order' = SubSeq(swapped, 1, last)
    BY <1>4
  <2> HIDE DEF last
  <2>4. /\ order' \in Seq(1..minted)
        /\ Len(order') = IF 1 <= last THEN last - 1 + 1 ELSE 0
        /\ \A j \in 1..(last - 1 + 1) : order'[j] = swapped[1 + j - 1]
    BY <2>1, <2>2, <2>3, SubSeqProperties
  <2>5. Len(order') = last /\ \A j \in 1..last : order'[j] = swapped[j]
    BY <2>1, <2>4
  <2> QED
    BY <2>4, <2>5 DEF last
<1>6. DOMAIN order' = 1..(Len(order) - 1)
  BY <1>5, LenProperties
<1>7. ASSUME NEW j \in DOMAIN order, order[j] # order[i] PROVE order[j] \in Tokens'
  <2>1. CASE j = Len(order)
    <3>1. i \in DOMAIN order' /\ order'[i] = order[j]
      BY <1>1, <1>3, <1>5, <1>6, <1>7, <2>1
    <3> QED
      BY <3>1 DEF Tokens
  <2>2. CASE j # Len(order)
    <3>1. j \in DOMAIN order' /\ order'[j] = order[j]
      BY <1>1, <1>3, <1>5, <1>6, <1>7, <2>2
    <3> QED
      BY <3>1 DEF Tokens
  <2> QED
    BY <2>1, <2>2
<1> QED
  BY <1>1, <1>3, <1>5, <1>6, <1>7 DEF Tokens

\* No position has the id 0, which stands for none.
LEMMA IdIsPositive == 0 \notin Ids /\ \A p \in Ids : p \in Nat /\ p >= 1
BY NumberOfIds

\* A token is an id.
LEMMA TokenIsId == TypeOK => Tokens \subseteq Ids
BY NumberOfIds DEF TypeOK, Tokens

\* What is computed from variables stays while they stay.
LEMMA SameScan == total' = total => ScanLimit' = ScanLimit
BY DEF ScanLimit

LEMMA SameTokens == order' = order => Tokens' = Tokens
BY DEF Tokens

\* The chain's types are kept.
LEMMA ChainStep == TypeOK /\ [Next]_vars => ChainOK'
<1> SUFFICES ASSUME TypeOK, [Next]_vars PROVE ChainOK'
  OBVIOUS
<1> USE TypeParts DEF ChainOK, chainVars, creditVars, scanVars, cacheVars, histVars
<1>1. ASSUME Mint PROVE ChainOK'
  BY <1>1, MintFacts DEF Mint
<1>2. ASSUME NEW i \in DOMAIN order, Burn(i) PROVE ChainOK'
  <2>1. /\ \A j, k \in DOMAIN order : order[j] = order[k] => j = k
        /\ Len(order) \in Nat /\ DOMAIN order = 1..Len(order)
    BY DEF TypeOK
  <2>2. /\ DOMAIN order' = 1..(Len(order) - 1)
        /\ \A j \in DOMAIN order' :
             order'[j] = IF j = i THEN order[Len(order)] ELSE order[j]
    BY <1>2, BurnFacts
  <2>3. ASSUME NEW j \in DOMAIN order', NEW k \in DOMAIN order', order'[j] = order'[k]
        PROVE  j = k
    <3>1. /\ j \in DOMAIN order /\ k \in DOMAIN order /\ Len(order) \in DOMAIN order
          /\ j # Len(order) /\ k # Len(order)
      BY <2>1, <2>2
    <3>2. /\ order'[j] = (IF j = i THEN order[Len(order)] ELSE order[j])
          /\ order'[k] = (IF k = i THEN order[Len(order)] ELSE order[k])
      BY <2>2
    <3> QED
      BY <2>1, <2>3, <3>1, <3>2
  <2> QED
    BY <1>2, <2>3, BurnFacts DEF Burn
<1>3. ASSUME NEW p \in Ids, NEW owes \in BOOLEAN, Owe(p, owes) PROVE ChainOK'
  BY <1>3 DEF Owe
<1>4. ASSUME NEW k \in CollCredits, NEW d \in DebtCredits \cup {0}, Move(k, d) PROVE ChainOK'
  <2>1. pid \in Ids
    BY <1>4, TokenIsId DEF Move
  <2> QED
    BY <1>4, <2>1 DEF Move
<1>5. ASSUME BeginScan PROVE ChainOK'
  BY <1>5 DEF BeginScan
<1>6. ASSUME IndexRead PROVE ChainOK'
  BY <1>6 DEF IndexRead
<1>7. ASSUME IndexFails PROVE ChainOK'
  BY <1>7 DEF IndexFails, NextIndex, ForgetCredits, ForgetLegs
<1>8. ASSUME ScanDone PROVE ChainOK'
  BY <1>8 DEF ScanDone
<1>9. ASSUME BorrInfo PROVE ChainOK'
  BY <1>9 DEF BorrInfo
<1>10. ASSUME CollCredit PROVE ChainOK'
  BY <1>10 DEF CollCredit
<1>11. ASSUME BorrCredit PROVE ChainOK'
  BY <1>11 DEF BorrCredit
<1>12. ASSUME Inactive PROVE ChainOK'
  BY <1>12 DEF Inactive, NextIndex, ForgetCredits, ForgetLegs
<1>13. ASSUME ReadFails PROVE ChainOK'
  BY <1>13 DEF ReadFails, NextIndex, ForgetCredits, ForgetLegs
<1>14. ASSUME Legs PROVE ChainOK'
  BY <1>14 DEF Legs, ForgetCredits
<1>15. ASSUME CacheMiss PROVE ChainOK'
  BY <1>15 DEF CacheMiss
<1>16. ASSUME CacheHit \/ CacheFill PROVE ChainOK'
  BY <1>16, LookupOutcome DEF NextIndex, ForgetCredits, ForgetLegs
<1>17. ASSUME NEW l \in Lookups, OtherMisses(l) PROVE ChainOK'
  BY <1>17 DEF OtherMisses
<1>18. ASSUME NEW l \in Lookups, OtherFills(l) PROVE ChainOK'
  BY <1>18 DEF OtherFills
<1>19. ASSUME Escapes PROVE ChainOK'
  BY <1>19 DEF Escapes, ForgetCredits, ForgetLegs
<1>20. CASE UNCHANGED vars
  BY <1>20 DEF vars
<1> QED
  BY <1>1, <1>2, <1>3, <1>4, <1>5, <1>6, <1>7, <1>8, <1>9, <1>10, <1>11,
     <1>12, <1>13, <1>14, <1>15, <1>16, <1>17, <1>18, <1>19, <1>20 DEF Next

\* The cursor stays within the scan.
LEMMA CursorStep == TypeOK /\ [Next]_vars => CursorOK'
<1> SUFFICES ASSUME TypeOK, [Next]_vars PROVE CursorOK'
  OBVIOUS
<1> USE TypeParts, LimitFacts, IdIsPositive, SameScan DEF CursorOK, Reading, Building, chainVars, creditVars, scanVars,
        cacheVars, histVars
<1>1. ASSUME Mint PROVE CursorOK'
  BY <1>1 DEF Mint
<1>2. ASSUME NEW i \in DOMAIN order, Burn(i) PROVE CursorOK'
  BY <1>2 DEF Burn
<1>3. ASSUME NEW p \in Ids, NEW owes \in BOOLEAN, Owe(p, owes) PROVE CursorOK'
  BY <1>3 DEF Owe
<1>4. ASSUME NEW k \in CollCredits, NEW d \in DebtCredits \cup {0}, Move(k, d) PROVE CursorOK'
  BY <1>4 DEF Move
<1>5. ASSUME BeginScan PROVE CursorOK'
  <2>1. total' \in Nat
    BY <1>5 DEF BeginScan, ChainOK
  <2>2. ScanLimit' \in Nat
    BY <2>1, MaxPositionsAssumption DEF ScanLimit
  <2> QED
    BY <1>5, <2>1, <2>2 DEF BeginScan
<1>6. ASSUME IndexRead PROVE CursorOK'
  <2>1. order[Index + 1] \in Ids
    BY <1>6, TokenIsId DEF IndexRead, Tokens
  <2> QED
    BY <1>6, <2>1 DEF IndexRead
<1>7. ASSUME IndexFails PROVE CursorOK'
  BY <1>7 DEF IndexFails, NextIndex, ForgetCredits, ForgetLegs
<1>8. ASSUME ScanDone PROVE CursorOK'
  BY <1>8 DEF ScanDone
<1>9. ASSUME BorrInfo PROVE CursorOK'
  BY <1>9 DEF BorrInfo
<1>10. ASSUME CollCredit PROVE CursorOK'
  BY <1>10 DEF CollCredit
<1>11. ASSUME BorrCredit PROVE CursorOK'
  BY <1>11 DEF BorrCredit
<1>12. ASSUME Inactive PROVE CursorOK'
  BY <1>12 DEF Inactive, NextIndex, ForgetCredits, ForgetLegs
<1>13. ASSUME ReadFails PROVE CursorOK'
  BY <1>13 DEF ReadFails, NextIndex, ForgetCredits, ForgetLegs
<1>14. ASSUME Legs PROVE CursorOK'
  BY <1>14 DEF Legs, ForgetCredits
<1>15. ASSUME CacheMiss PROVE CursorOK'
  BY <1>15 DEF CacheMiss
<1>16. ASSUME CacheHit \/ CacheFill PROVE CursorOK'
  <2>1. CASE pc' \in Building /\ UNCHANGED <<creditVars, pid, offset, out, failed>>
    BY <1>16, <2>1, LookupOutcome
  <2>2. CASE NextIndex
    <3>1. offset' = offset + 1 /\ pid' = 0 /\ pc' = "index" /\ total' = total
      BY <2>2 DEF NextIndex
    <3>2. pc \in Reading
      BY <1>16, LookupOutcome
    <3> QED
      BY <3>1, <3>2
  <2> QED
    BY <1>16, <2>1, <2>2, LookupOutcome
<1>17. ASSUME NEW l \in Lookups, OtherMisses(l) PROVE CursorOK'
  BY <1>17 DEF OtherMisses
<1>18. ASSUME NEW l \in Lookups, OtherFills(l) PROVE CursorOK'
  BY <1>18 DEF OtherFills
<1>19. ASSUME Escapes PROVE CursorOK'
  <2>1. ScanLimit' \in Nat
    BY <1>19, MaxPositionsAssumption DEF Escapes, ScanLimit
  <2> QED
    BY <1>19, <2>1 DEF Escapes
<1>20. CASE UNCHANGED vars
  BY <1>20 DEF vars
<1> QED
  BY <1>1, <1>2, <1>3, <1>4, <1>5, <1>6, <1>7, <1>8, <1>9, <1>10, <1>11,
     <1>12, <1>13, <1>14, <1>15, <1>16, <1>17, <1>18, <1>19, <1>20 DEF Next

\* What is remembered keeps its types.
LEMMA RecordStep == TypeOK /\ [Next]_vars => RecordOK'
<1> SUFFICES ASSUME TypeOK, [Next]_vars PROVE RecordOK'
  OBVIOUS
<1> USE TypeParts, SameTokens DEF RecordOK, CursorOK, ChainOK, chainVars, creditVars, scanVars,
        cacheVars, histVars
<1>1. ASSUME Mint PROVE RecordOK'
  BY <1>1, MintFacts DEF Mint
<1>2. ASSUME NEW i \in DOMAIN order, Burn(i) PROVE RecordOK'
  <2>1. order[i] \notin owing
    BY <1>2 DEF Burn
  <2> QED
    BY <1>2, <2>1, BurnFacts DEF Burn
<1>3. ASSUME NEW p \in Ids, NEW owes \in BOOLEAN, Owe(p, owes) PROVE RecordOK'
  BY <1>3 DEF Owe
<1>4. ASSUME NEW k \in CollCredits, NEW d \in DebtCredits \cup {0}, Move(k, d) PROVE RecordOK'
  BY <1>4, CreditsAssumption DEF Move
<1>5. ASSUME BeginScan PROVE RecordOK'
  BY <1>5 DEF BeginScan
<1>6. ASSUME IndexRead PROVE RecordOK'
  BY <1>6 DEF IndexRead
<1>7. ASSUME IndexFails PROVE RecordOK'
  BY <1>7 DEF IndexFails, NextIndex, ForgetCredits, ForgetLegs
<1>8. ASSUME ScanDone PROVE RecordOK'
  BY <1>8 DEF ScanDone
<1>9. ASSUME BorrInfo PROVE RecordOK'
  BY <1>9 DEF BorrInfo
<1>10. ASSUME CollCredit PROVE RecordOK'
  BY <1>10, CreditsAssumption DEF CollCredit
<1>11. ASSUME BorrCredit PROVE RecordOK'
  BY <1>11 DEF BorrCredit
<1>12. ASSUME Inactive PROVE RecordOK'
  BY <1>12 DEF Inactive, NextIndex, ForgetCredits, ForgetLegs
<1>13. ASSUME ReadFails PROVE RecordOK'
  BY <1>13 DEF ReadFails, NextIndex, ForgetCredits, ForgetLegs
<1>14. ASSUME Legs PROVE RecordOK'
  BY <1>14 DEF Legs, ForgetCredits
<1>15. ASSUME CacheMiss PROVE RecordOK'
  BY <1>15 DEF CacheMiss
<1>16. ASSUME CacheHit \/ CacheFill PROVE RecordOK'
  <2>1. CASE pc' \in Building /\ UNCHANGED <<creditVars, pid, offset, out, failed>>
    BY <1>16, <2>1, LookupOutcome
  <2>2. CASE NextIndex /\ out' = Append(out, pid) /\ UNCHANGED failed
    <3>1. pid \in Ids
      BY <1>16, LookupOutcome DEF Reading
    <3> QED
      BY <1>16, <2>2, <3>1, LookupOutcome DEF NextIndex, ForgetCredits
  <2> QED
    BY <1>16, <2>1, <2>2, LookupOutcome
<1>17. ASSUME NEW l \in Lookups, OtherMisses(l) PROVE RecordOK'
  BY <1>17 DEF OtherMisses
<1>18. ASSUME NEW l \in Lookups, OtherFills(l) PROVE RecordOK'
  BY <1>18 DEF OtherFills
<1>19. ASSUME Escapes PROVE RecordOK'
  BY <1>19 DEF Escapes, ForgetCredits, ForgetLegs
<1>20. CASE UNCHANGED vars
  BY <1>20 DEF vars
<1> QED
  BY <1>1, <1>2, <1>3, <1>4, <1>5, <1>6, <1>7, <1>8, <1>9, <1>10, <1>11,
     <1>12, <1>13, <1>14, <1>15, <1>16, <1>17, <1>18, <1>19, <1>20 DEF Next

-----------------------------------------------------------------------------
(* The invariants *)

\* The parts of the type invariant that the cursor's arguments need.
LEMMA Numbers ==
  ASSUME TypeOK
  PROVE  /\ Len(order) \in Nat /\ DOMAIN order = 1..Len(order)
         /\ total \in Nat /\ offset \in Nat /\ offset <= total
         /\ pc \in Reading => offset < total
         /\ \A i, j \in DOMAIN order : order[i] = order[j] => i = j
<1>1. order \in Seq(1..minted)
  BY DEF TypeOK
<1>2. ScanLimit \in Nat /\ ScanLimit <= total /\ total \in Nat
  BY LimitFacts DEF TypeOK
<1> QED
  BY <1>1, <1>2, LenProperties DEF TypeOK, Reading, Building

LEMMA SameResult == out' = out => Result' = Result
BY DEF Result

\* Reporting a position adds it to the result.
LEMMA Reported ==
  ASSUME TypeOK, NEW p \in Ids, out' = Append(out, p)
  PROVE  Result' = Result \cup {p} /\ Len(out') = Len(out) + 1
<1>1. out \in Seq(Ids)
  BY DEF TypeOK
<1>2. Len(out') = Len(out) + 1 /\ Len(out) \in Nat
  BY <1>1
<1>3. DOMAIN out = 1..Len(out) /\ DOMAIN out' = 1..(Len(out) + 1)
  BY <1>1, <1>2
<1>4. \A i \in DOMAIN out' : out'[i] = IF i = Len(out) + 1 THEN p ELSE out[i]
  BY <1>1, <1>3
<1> QED
  BY <1>2, <1>3, <1>4 DEF Result

\* Nobody who owes gets out of the cursor's way.
LEMMA AheadStep == TypeOK /\ Ahead /\ [Next]_vars => Ahead'
<1> SUFFICES ASSUME TypeOK, Ahead, [Next]_vars PROVE Ahead'
  OBVIOUS
<1> USE Numbers, SameResult, IdIsPositive DEF Ahead, Left, Reading, Building, chainVars, creditVars, scanVars,
        cacheVars, histVars
<1>1. ASSUME Mint PROVE Ahead'
  <2>1. \A i \in DOMAIN order : i \in DOMAIN order' /\ order'[i] = order[i]
    BY <1>1, MintFacts
  <2> QED
    BY <1>1, <2>1 DEF Mint
<1>2. ASSUME NEW i \in DOMAIN order, Burn(i) PROVE Ahead'
  <2> SUFFICES ASSUME pc # "idle", ~ failed, NEW p \in owing, p \notin Result, p # pid
               PROVE  \E j \in DOMAIN order' : order'[j] = p /\ j <= Left
    BY <1>2 DEF Burn
  <2>1. PICK j \in DOMAIN order : order[j] = p /\ j <= Left
    OBVIOUS
  <2>2. p \in debtors
    BY DEF TypeOK
  <2>3. j # i
    BY <1>2, <2>1, <2>2 DEF Burn
  <2>4. /\ DOMAIN order' = 1..(Len(order) - 1)
        /\ \A k \in DOMAIN order' :
             order'[k] = IF k = i THEN order[Len(order)] ELSE order[k]
    BY <1>2, BurnFacts
  <2>5. Left \in Int
    OBVIOUS
  <2>6. CASE j = Len(order)
    <3>1. i \in DOMAIN order' /\ i <= j
      BY <2>3, <2>4, <2>6
    <3> QED
      BY <2>1, <2>4, <2>5, <2>6, <3>1
  <2>7. CASE j # Len(order)
    <3>1. j \in DOMAIN order'
      BY <2>4, <2>7
    <3> QED
      BY <2>1, <2>3, <2>4, <3>1
  <2> QED
    BY <2>6, <2>7
<1>3. ASSUME NEW p \in Ids, NEW owes \in BOOLEAN, Owe(p, owes) PROVE Ahead'
  BY <1>3 DEF Owe
<1>4. ASSUME NEW k \in CollCredits, NEW d \in DebtCredits \cup {0}, Move(k, d) PROVE Ahead'
  BY <1>4 DEF Move
<1>5. ASSUME BeginScan PROVE Ahead'
  <2>1. total' = Len(order) /\ offset' = 0 /\ pc' = "index" /\ order' = order
    BY <1>5 DEF BeginScan
  <2>2. owing' \subseteq Tokens
    BY <1>5 DEF BeginScan
  <2> QED
    BY <2>1, <2>2 DEF Tokens
<1>6. ASSUME IndexRead PROVE Ahead'
  <2>1. /\ Index + 1 = Left /\ pid' = order[Left] /\ Left' = Left - 1
        /\ order' = order /\ out' = out /\ owing' = owing /\ failed' = failed
    BY <1>6 DEF IndexRead, Index
  <2>2. pid = 0 /\ Left \in Int /\ pc # "idle"
    BY <1>6 DEF IndexRead, TypeOK
  <2>3. owing \subseteq Tokens
    BY DEF TypeOK
  <2> QED
    BY <2>1, <2>2, <2>3, TokenIsId
<1>7. ASSUME IndexFails PROVE Ahead'
  <2>1. /\ Index + 1 = Left /\ pid' = 0 /\ Left' = Left - 1
        /\ order' = order /\ out' = out /\ owing' = owing
    BY <1>7 DEF IndexFails, NextIndex, Index
  <2>2. pid = 0 /\ Left \in Int /\ pc # "idle"
    BY <1>7 DEF IndexFails, TypeOK
  <2>3. owing \subseteq Tokens
    BY DEF TypeOK
  <2>4. ~ failed' => ~ failed /\ Index + 1 \notin DOMAIN order
    BY <1>7, Zenon DEF IndexFails
  <2> QED
    BY <2>1, <2>2, <2>3, <2>4, TokenIsId
<1>8. ASSUME ScanDone PROVE Ahead'
  BY <1>8 DEF ScanDone
<1>9. ASSUME BorrInfo PROVE Ahead'
  BY <1>9 DEF BorrInfo
<1>10. ASSUME CollCredit PROVE Ahead'
  BY <1>10 DEF CollCredit
<1>11. ASSUME BorrCredit PROVE Ahead'
  BY <1>11 DEF BorrCredit
<1>12. ASSUME Inactive PROVE Ahead'
  <2>1. owing \subseteq debtors
    BY DEF TypeOK
  <2> QED
    BY <1>12, <2>1 DEF Inactive, NextIndex
<1>13. ASSUME ReadFails PROVE Ahead'
  <2>1. owing \subseteq Tokens
    BY DEF TypeOK
  <2>2. ~ failed' => ~ failed /\ pid \notin Tokens
    BY <1>13, Zenon DEF ReadFails
  <2>3. /\ pid' = 0 /\ Left' = Left /\ pc # "idle"
        /\ order' = order /\ out' = out /\ owing' = owing
    BY <1>13 DEF ReadFails, NextIndex
  <2> QED
    BY <2>1, <2>2, <2>3
<1>14. ASSUME Legs PROVE Ahead'
  BY <1>14 DEF Legs, ForgetCredits
<1>15. ASSUME CacheMiss PROVE Ahead'
  BY <1>15 DEF CacheMiss
<1>16. ASSUME CacheHit \/ CacheFill PROVE Ahead'
  <2>1. CASE pc' \in Building /\ UNCHANGED <<creditVars, pid, offset, out, failed>>
    BY <1>16, <2>1, LookupOutcome
  <2>2. CASE NextIndex /\ out' = Append(out, pid) /\ UNCHANGED failed
    <3>1. pid \in Ids /\ pc \in Reading
      BY <1>16, LookupOutcome DEF TypeOK
    <3>2. Result' = Result \cup {pid}
      BY <2>2, <3>1, Reported
    <3> QED
      BY <1>16, <2>2, <3>1, <3>2, LookupOutcome DEF NextIndex
  <2> QED
    BY <1>16, <2>1, <2>2, LookupOutcome
<1>17. ASSUME NEW l \in Lookups, OtherMisses(l) PROVE Ahead'
  BY <1>17 DEF OtherMisses
<1>18. ASSUME NEW l \in Lookups, OtherFills(l) PROVE Ahead'
  BY <1>18 DEF OtherFills
<1>19. ASSUME Escapes PROVE Ahead'
  BY <1>19 DEF Escapes, ForgetCredits, ForgetLegs
<1>20. CASE UNCHANGED vars
  BY <1>20 DEF vars
<1> QED
  BY <1>1, <1>2, <1>3, <1>4, <1>5, <1>6, <1>7, <1>8, <1>9, <1>10, <1>11,
     <1>12, <1>13, <1>14, <1>15, <1>16, <1>17, <1>18, <1>19, <1>20 DEF Next

\* Until a token is burned, what was reported stays above the cursor.
LEMMA BehindStep == TypeOK /\ Behind /\ [Next]_vars => Behind'
<1> SUFFICES ASSUME TypeOK, Behind, [Next]_vars PROVE Behind'
  OBVIOUS
<1> USE Numbers, SameResult DEF Behind, Reading, Building, chainVars, creditVars, scanVars, cacheVars,
        histVars
<1>1. ASSUME Mint PROVE Behind'
  <2>1. /\ \A i \in DOMAIN order : i \in DOMAIN order' /\ order'[i] = order[i]
        /\ Len(order') = Len(order) + 1
    BY <1>1, MintFacts
  <2> QED
    BY <1>1, <2>1 DEF Mint
<1>2. ASSUME NEW i \in DOMAIN order, Burn(i) PROVE Behind'
  BY <1>2 DEF Burn
<1>3. ASSUME NEW p \in Ids, NEW owes \in BOOLEAN, Owe(p, owes) PROVE Behind'
  BY <1>3 DEF Owe
<1>4. ASSUME NEW k \in CollCredits, NEW d \in DebtCredits \cup {0}, Move(k, d) PROVE Behind'
  BY <1>4 DEF Move
<1>5. ASSUME BeginScan PROVE Behind'
  <2>1. Result' = {}
    BY <1>5 DEF BeginScan, Result
  <2> QED
    BY <1>5, <2>1 DEF BeginScan
<1>6. ASSUME IndexRead PROVE Behind'
  BY <1>6 DEF IndexRead, Index
<1>7. ASSUME IndexFails PROVE Behind'
  BY <1>7 DEF IndexFails, NextIndex, ForgetCredits, ForgetLegs
<1>8. ASSUME ScanDone PROVE Behind'
  BY <1>8 DEF ScanDone
<1>9. ASSUME BorrInfo PROVE Behind'
  BY <1>9 DEF BorrInfo
<1>10. ASSUME CollCredit PROVE Behind'
  BY <1>10 DEF CollCredit
<1>11. ASSUME BorrCredit PROVE Behind'
  BY <1>11 DEF BorrCredit
<1>12. ASSUME Inactive PROVE Behind'
  BY <1>12 DEF Inactive, NextIndex, ForgetCredits, ForgetLegs
<1>13. ASSUME ReadFails PROVE Behind'
  BY <1>13 DEF ReadFails, NextIndex, ForgetCredits, ForgetLegs
<1>14. ASSUME Legs PROVE Behind'
  BY <1>14 DEF Legs, ForgetCredits
<1>15. ASSUME CacheMiss PROVE Behind'
  BY <1>15 DEF CacheMiss
<1>16. ASSUME CacheHit \/ CacheFill PROVE Behind'
  <2>1. CASE pc' \in Building /\ UNCHANGED <<creditVars, pid, offset, out, failed>>
    BY <1>16, <2>1, LookupOutcome
  <2>2. CASE NextIndex /\ out' = Append(out, pid) /\ UNCHANGED failed
    <3>1. pid \in Ids /\ pc \in Reading
      BY <1>16, LookupOutcome DEF TypeOK
    <3>2. Result' = Result \cup {pid}
      BY <2>2, <3>1, Reported
    <3> QED
      BY <1>16, <2>2, <3>1, <3>2, LookupOutcome DEF NextIndex
  <2> QED
    BY <1>16, <2>1, <2>2, LookupOutcome
<1>17. ASSUME NEW l \in Lookups, OtherMisses(l) PROVE Behind'
  BY <1>17 DEF OtherMisses
<1>18. ASSUME NEW l \in Lookups, OtherFills(l) PROVE Behind'
  BY <1>18 DEF OtherFills
<1>19. ASSUME Escapes PROVE Behind'
  <2>1. Result' = {}
    BY <1>19 DEF Escapes, Result
  <2> QED
    BY <1>19, <2>1 DEF Escapes
<1>20. CASE UNCHANGED vars
  BY <1>20 DEF vars
<1> QED
  BY <1>1, <1>2, <1>3, <1>4, <1>5, <1>6, <1>7, <1>8, <1>9, <1>10, <1>11,
     <1>12, <1>13, <1>14, <1>15, <1>16, <1>17, <1>18, <1>19, <1>20 DEF Next

\* There are finitely many positions to report.
LEMMA ResultIsFinite == TypeOK => IsFiniteSet(Result) /\ Result \subseteq Ids
<1> SUFFICES ASSUME TypeOK PROVE IsFiniteSet(Result) /\ Result \subseteq Ids
  OBVIOUS
<1>1. Result \subseteq Ids
  BY DEF TypeOK, Result
<1> QED
  BY <1>1, IdsAssumption, FS_Subset

\* What stands at the cursor has not been reported yet.
LEMMA TwinsStep == TypeOK /\ Behind /\ NoTwins /\ [Next]_vars => NoTwins'
<1> SUFFICES ASSUME TypeOK, Behind, NoTwins, [Next]_vars PROVE NoTwins'
  OBVIOUS
<1> USE SameResult DEF NoTwins, chainVars, creditVars, scanVars, cacheVars, histVars
<1>1. ASSUME Mint PROVE NoTwins'
  BY <1>1 DEF Mint
<1>2. ASSUME NEW i \in DOMAIN order, Burn(i) PROVE NoTwins'
  BY <1>2 DEF Burn
<1>3. ASSUME NEW p \in Ids, NEW owes \in BOOLEAN, Owe(p, owes) PROVE NoTwins'
  BY <1>3 DEF Owe
<1>4. ASSUME NEW k \in CollCredits, NEW d \in DebtCredits \cup {0}, Move(k, d) PROVE NoTwins'
  BY <1>4 DEF Move
<1>5. ASSUME BeginScan PROVE NoTwins'
  <2>1. out' = <<>> /\ Result' = {}
    BY <1>5 DEF BeginScan, Result
  <2> QED
    BY <2>1, FS_EmptySet
<1>6. ASSUME IndexRead PROVE NoTwins'
  BY <1>6 DEF IndexRead
<1>7. ASSUME IndexFails PROVE NoTwins'
  BY <1>7 DEF IndexFails, NextIndex, ForgetCredits, ForgetLegs
<1>8. ASSUME ScanDone PROVE NoTwins'
  BY <1>8 DEF ScanDone
<1>9. ASSUME BorrInfo PROVE NoTwins'
  BY <1>9 DEF BorrInfo
<1>10. ASSUME CollCredit PROVE NoTwins'
  BY <1>10 DEF CollCredit
<1>11. ASSUME BorrCredit PROVE NoTwins'
  BY <1>11 DEF BorrCredit
<1>12. ASSUME Inactive PROVE NoTwins'
  BY <1>12 DEF Inactive, NextIndex, ForgetCredits, ForgetLegs
<1>13. ASSUME ReadFails PROVE NoTwins'
  BY <1>13 DEF ReadFails, NextIndex, ForgetCredits, ForgetLegs
<1>14. ASSUME Legs PROVE NoTwins'
  BY <1>14 DEF Legs, ForgetCredits
<1>15. ASSUME CacheMiss PROVE NoTwins'
  BY <1>15 DEF CacheMiss
<1>16. ASSUME CacheHit \/ CacheFill PROVE NoTwins'
  <2>1. CASE pc' \in Building /\ UNCHANGED <<creditVars, pid, offset, out, failed>>
    BY <1>16, <2>1, LookupOutcome
  <2>2. CASE NextIndex /\ out' = Append(out, pid) /\ UNCHANGED failed
    <3> SUFFICES ASSUME ~ burned PROVE Len(out') = Cardinality(Result')
      BY <1>16, LookupOutcome
    <3>1. pid \in Ids /\ pc \in Reading
      BY <1>16, LookupOutcome DEF TypeOK, Reading, Building
    <3>2. Result' = Result \cup {pid} /\ Len(out') = Len(out) + 1
      BY <2>2, <3>1, Reported
    <3>3. total - offset \in DOMAIN order /\ order[total - offset] = pid
      BY <3>1, Numbers DEF Behind
    <3>4. pid \notin Result
      BY <3>3, Numbers DEF Behind
    <3>5. Cardinality(Result \cup {pid}) = Cardinality(Result) + 1
      BY <3>4, ResultIsFinite, FS_AddElement
    <3> QED
      BY <3>2, <3>5
  <2> QED
    BY <1>16, <2>1, <2>2, LookupOutcome
<1>17. ASSUME NEW l \in Lookups, OtherMisses(l) PROVE NoTwins'
  BY <1>17 DEF OtherMisses
<1>18. ASSUME NEW l \in Lookups, OtherFills(l) PROVE NoTwins'
  BY <1>18 DEF OtherFills
<1>19. ASSUME Escapes PROVE NoTwins'
  <2>1. out' = <<>> /\ Result' = {}
    BY <1>19 DEF Escapes, Result
  <2> QED
    BY <2>1, FS_EmptySet
<1>20. CASE UNCHANGED vars
  BY <1>20 DEF vars
<1> QED
  BY <1>1, <1>2, <1>3, <1>4, <1>5, <1>6, <1>7, <1>8, <1>9, <1>10, <1>11,
     <1>12, <1>13, <1>14, <1>15, <1>16, <1>17, <1>18, <1>19, <1>20 DEF Next

\* What a call saw is not forgotten before the position is put together.
LEMMA SeenStep == TypeOK /\ Seen /\ [Next]_vars => Seen'
<1> SUFFICES ASSUME TypeOK, Seen, [Next]_vars PROVE Seen'
  OBVIOUS
<1> USE  DEF Seen, Building, chainVars, creditVars, scanVars, cacheVars, histVars
<1>1. ASSUME Mint PROVE Seen'
  BY <1>1 DEF Mint
<1>2. ASSUME NEW i \in DOMAIN order, Burn(i) PROVE Seen'
  BY <1>2 DEF Burn
<1>3. ASSUME NEW p \in Ids, NEW owes \in BOOLEAN, Owe(p, owes) PROVE Seen'
  BY <1>3 DEF Owe
<1>4. ASSUME NEW k \in CollCredits, NEW d \in DebtCredits \cup {0}, Move(k, d) PROVE Seen'
  BY <1>4 DEF Move
<1>5. ASSUME BeginScan PROVE Seen'
  BY <1>5 DEF BeginScan
<1>6. ASSUME IndexRead PROVE Seen'
  BY <1>6 DEF IndexRead
<1>7. ASSUME IndexFails PROVE Seen'
  BY <1>7 DEF IndexFails, NextIndex, ForgetCredits, ForgetLegs
<1>8. ASSUME ScanDone PROVE Seen'
  BY <1>8 DEF ScanDone
<1>9. ASSUME BorrInfo PROVE Seen'
  BY <1>9 DEF BorrInfo
<1>10. ASSUME CollCredit PROVE Seen'
  BY <1>10 DEF CollCredit
<1>11. ASSUME BorrCredit PROVE Seen'
  BY <1>11 DEF BorrCredit
<1>12. ASSUME Inactive PROVE Seen'
  BY <1>12 DEF Inactive, NextIndex, ForgetCredits, ForgetLegs
<1>13. ASSUME ReadFails PROVE Seen'
  BY <1>13 DEF ReadFails, NextIndex, ForgetCredits, ForgetLegs
<1>14. ASSUME Legs PROVE Seen'
  BY <1>14 DEF Legs, ForgetCredits
<1>15. ASSUME CacheMiss PROVE Seen'
  BY <1>15 DEF CacheMiss
<1>16. ASSUME CacheHit \/ CacheFill PROVE Seen'
  BY <1>16, LookupOutcome DEF NextIndex, ForgetCredits, ForgetLegs
<1>17. ASSUME NEW l \in Lookups, OtherMisses(l) PROVE Seen'
  BY <1>17 DEF OtherMisses
<1>18. ASSUME NEW l \in Lookups, OtherFills(l) PROVE Seen'
  BY <1>18 DEF OtherFills
<1>19. ASSUME Escapes PROVE Seen'
  BY <1>19 DEF Escapes, ForgetCredits, ForgetLegs
<1>20. CASE UNCHANGED vars
  BY <1>20 DEF vars
<1> QED
  BY <1>1, <1>2, <1>3, <1>4, <1>5, <1>6, <1>7, <1>8, <1>9, <1>10, <1>11,
     <1>12, <1>13, <1>14, <1>15, <1>16, <1>17, <1>18, <1>19, <1>20 DEF Next

\* Looking a key up, or storing an answer to another, leaves a settled lookup.
LEMMA StoreKeeps ==
  ASSUME NEW l, NEW answer, Store(l, answer)
  PROVE  /\ DOMAIN cache' = DOMAIN cache \cup {l}
         /\ cache'[l] = answer
         /\ \A k \in DOMAIN cache \ {l} : cache'[k] = cache[k]
BY DEF Store

\* The two caches have no key in common.
LEMMA KindsDiffer == \A pool, a : UnderlyingOf(pool) # SymbolOf(a)
<1> SUFFICES ASSUME NEW pool, NEW a, UnderlyingOf(pool) = SymbolOf(a) PROVE FALSE
  OBVIOUS
<1>1. UnderlyingOf(pool).of = "underlying" /\ SymbolOf(a).of = "symbol"
  BY DEF UnderlyingOf, SymbolOf
<1> QED
  BY <1>1

\* A label keeps being what the caches say while nobody stores over its lookups.
LEMMA LabelKept ==
  ASSUME NEW x \in labels, Cached,
         \A k \in DOMAIN cache : Settled(k) /\
           k \in {UnderlyingOf(x.pool), SymbolOf(CachedAddress(x.pool))} =>
             Settled(k)' /\ cache'[k] = cache[k]
  PROVE  /\ Settled(UnderlyingOf(x.pool))' /\ Settled(SymbolOf(CachedAddress(x.pool)))'
         /\ CachedAddress(x.pool)' = CachedAddress(x.pool)
         /\ x.label = cache'[SymbolOf(CachedAddress(x.pool))]
<1> DEFINE pool == x.pool
<1>1. Settled(UnderlyingOf(pool)) /\ Settled(SymbolOf(CachedAddress(pool)))
  BY DEF Cached
<1>2. cache'[UnderlyingOf(pool)] = cache[UnderlyingOf(pool)] /\ Settled(UnderlyingOf(pool))'
  BY <1>1 DEF Settled
<1>3. CachedAddress(pool)' = CachedAddress(pool)
  BY <1>2 DEF CachedAddress, UnderlyingOf
<1>4. /\ cache'[SymbolOf(CachedAddress(pool))] = cache[SymbolOf(CachedAddress(pool))]
      /\ Settled(SymbolOf(CachedAddress(pool)))'
  BY <1>1, <1>3 DEF Settled, SymbolOf
<1> QED
  BY <1>2, <1>3, <1>4 DEF Cached

\* A step that leaves the caches alone and does not begin or end a lookup.
LEMMA CachedIfSame ==
  ASSUME Cached, UNCHANGED <<cache, others, labels>>,
         pc' \notin {"symbol", "poolCall", "symbolCall"} \/ UNCHANGED <<pc, legs, address, raced>>
  PROVE  Cached'
BY DEF Cached, Settled, CachedAddress, UnderlyingOf, SymbolOf, Wanted

\* A step of another thread stores over nothing that is settled.
LEMMA CachedIfOthers ==
  ASSUME Cached, UNCHANGED <<labels, pc, legs, address, raced>>,
         \A k \in DOMAIN cache : Settled(k) => Settled(k)' /\ cache'[k] = cache[k]
  PROVE  Cached'
<1>1. Wanted' = Wanted
  BY DEF Wanted, UnderlyingOf, SymbolOf
<1>2. ASSUME NEW x \in labels
      PROVE  /\ Settled(UnderlyingOf(x.pool))' /\ Settled(SymbolOf(CachedAddress(x.pool)))'
             /\ CachedAddress(x.pool)' = CachedAddress(x.pool)
             /\ x.label = cache'[SymbolOf(CachedAddress(x.pool))]
  BY LabelKept
<1>3. ASSUME NEW x \in labels
      PROVE  /\ Settled(UnderlyingOf(x.pool))' /\ Settled(SymbolOf(CachedAddress(x.pool)))'
             /\ x.label = cache'[SymbolOf(CachedAddress(x.pool))']
             /\ pc \in {"poolCall", "symbolCall"} =>
                  Wanted \notin {UnderlyingOf(x.pool), SymbolOf(CachedAddress(x.pool))'}
  <2>1. SymbolOf(CachedAddress(x.pool))' = SymbolOf(CachedAddress(x.pool))
    BY <1>2 DEF SymbolOf
  <2> QED
    BY <1>2, <2>1 DEF Cached
<1>4. Settled(UnderlyingOf(Head(legs))) =>
        Settled(UnderlyingOf(Head(legs)))' /\ CachedAddress(Head(legs))' = CachedAddress(Head(legs))
  BY DEF Settled, CachedAddress, UnderlyingOf
<1> QED
  BY <1>1, <1>3, <1>4, Zenon DEF Cached, UnderlyingOf

\* A hit uses what is in the cache.
LEMMA CachedHit == Cached /\ CacheHit => Cached'
<1> SUFFICES ASSUME Cached, CacheHit PROVE Cached'
  OBVIOUS
<1>1. UNCHANGED <<cache, others>>
  BY DEF CacheHit, cacheVars
<1>2. CASE pc = "pool"
  <2>1. /\ pc' = "symbol" /\ legs' = legs /\ labels' = labels
        /\ address' = IF cache[Wanted] = Missing THEN Head(legs) ELSE cache[Wanted]
        /\ raced' = (raced \/ Wanted \in others) /\ Known(Wanted)
        /\ Wanted = UnderlyingOf(Head(legs))
    BY <1>2 DEF CacheHit, GotUnderlying, Wanted
  <2>2. ~ raced' => Settled(UnderlyingOf(Head(legs))) /\ address' = CachedAddress(Head(legs))
    BY <2>1 DEF Settled, Known, CachedAddress
  <2> QED
    BY <1>1, <2>1, <2>2 DEF Cached, Settled, CachedAddress, UnderlyingOf, SymbolOf
<1>3. CASE pc = "symbol"
  <2>1. /\ pc' \in {"pool", "index"} /\ Known(Wanted) /\ Wanted = SymbolOf(address)
        /\ \A x \in labels' \ labels :
             /\ ~ raced /\ Wanted \notin others
             /\ x = [pool |-> Head(legs), label |-> cache[Wanted]]
    BY <1>3 DEF CacheHit, GotSymbol, NextIndex, Wanted
  <2>2. ASSUME NEW x \in labels' \ labels
        PROVE  /\ Settled(UnderlyingOf(x.pool)) /\ Settled(SymbolOf(CachedAddress(x.pool)))
               /\ x.label = cache[SymbolOf(CachedAddress(x.pool))]
    <3>1. x.pool = Head(legs) /\ x.label = cache[SymbolOf(address)]
      BY <2>1
    <3>2. Settled(UnderlyingOf(x.pool)) /\ address = CachedAddress(x.pool)
      BY <1>3, <2>1, <3>1 DEF Cached
    <3>3. Settled(SymbolOf(address))
      BY <2>1 DEF Settled, Known
    <3> QED
      BY <3>1, <3>2, <3>3 DEF SymbolOf
  <2> QED
    BY <1>1, <2>1, <2>2 DEF Cached, Settled, CachedAddress, UnderlyingOf, SymbolOf
<1> QED
  BY <1>2, <1>3 DEF CacheHit

\* A miss is of no settled lookup.
LEMMA CachedMiss == Cached /\ CacheMiss => Cached'
<1> SUFFICES ASSUME Cached, CacheMiss PROVE Cached'
  OBVIOUS
<1>1. /\ UNCHANGED <<cache, others, labels, legs, address, raced>>
      /\ Wanted \notin DOMAIN cache
  BY DEF CacheMiss, cacheVars, legVars, Known
<1>2. \/ pc = "pool" /\ pc' = "poolCall"
      \/ pc = "symbol" /\ pc' = "symbolCall"
  BY DEF CacheMiss
<1>3. Wanted' = Wanted
  BY <1>1, <1>2 DEF Wanted, UnderlyingOf, SymbolOf
<1> QED
  BY <1>1, <1>2, <1>3 DEF Cached, Settled, CachedAddress, UnderlyingOf, SymbolOf

\* What this thread stores is settled unless another is at it; and it is nothing
\* that a label rests on.
LEMMA CachedFill == Cached /\ CacheFill => Cached'
<1> SUFFICES ASSUME Cached, CacheFill PROVE Cached'
  OBVIOUS
<1>1. PICK answer :
        /\ Store(Wanted, answer)
        /\ \/ pc = "poolCall" /\ GotUnderlying(answer)
           \/ pc = "symbolCall" /\ GotSymbol(answer)
  BY DEF CacheFill
<1>2. others' = others /\ pc \in {"poolCall", "symbolCall"}
  BY DEF CacheFill
<1>3. /\ DOMAIN cache' = DOMAIN cache \cup {Wanted} /\ cache'[Wanted] = answer
      /\ \A k \in DOMAIN cache \ {Wanted} : cache'[k] = cache[k]
  BY <1>1, StoreKeeps
<1>4. ASSUME NEW x \in labels
      PROVE  /\ Settled(UnderlyingOf(x.pool))' /\ Settled(SymbolOf(CachedAddress(x.pool)))'
             /\ x.label = cache'[SymbolOf(CachedAddress(x.pool))']
  <2>1. \A k \in DOMAIN cache : Settled(k) /\
           k \in {UnderlyingOf(x.pool), SymbolOf(CachedAddress(x.pool))} =>
             Settled(k)' /\ cache'[k] = cache[k]
    BY <1>2, <1>3 DEF Cached, Settled
  <2>2. /\ Settled(UnderlyingOf(x.pool))' /\ Settled(SymbolOf(CachedAddress(x.pool)))'
        /\ CachedAddress(x.pool)' = CachedAddress(x.pool)
        /\ x.label = cache'[SymbolOf(CachedAddress(x.pool))]
    BY <2>1, LabelKept
  <2>3. SymbolOf(CachedAddress(x.pool))' = SymbolOf(CachedAddress(x.pool))
    BY <2>2 DEF SymbolOf
  <2> QED
    BY <2>2, <2>3
<1>5. CASE pc = "poolCall"
  <2>1. /\ pc' = "symbol" /\ legs' = legs /\ labels' = labels
        /\ address' = IF answer = Missing THEN Head(legs) ELSE answer
        /\ raced' = (raced \/ Wanted \in others)
        /\ Wanted = UnderlyingOf(Head(legs))
    BY <1>1, <1>5 DEF GotUnderlying, Wanted
  <2>2. UnderlyingOf(Head(legs))' = UnderlyingOf(Head(legs))
    BY <2>1 DEF UnderlyingOf
  <2>3. address' = CachedAddress(Head(legs))'
    BY <1>3, <2>1, <2>2 DEF CachedAddress, UnderlyingOf
  <2>4. ~ raced' => Settled(UnderlyingOf(Head(legs)))'
    BY <1>2, <1>3, <2>1, <2>2 DEF Settled
  <2> QED
    BY <1>4, <2>1, <2>3, <2>4, Zenon DEF Cached, UnderlyingOf
<1>6. CASE pc = "symbolCall"
  <2>1. /\ pc' \in {"pool", "index"} /\ Wanted = SymbolOf(address)
        /\ \A x \in labels' \ labels :
             /\ ~ raced /\ Wanted \notin others
             /\ x = [pool |-> Head(legs), label |-> answer]
    BY <1>1, <1>6 DEF GotSymbol, NextIndex, Wanted
  <2>2. ASSUME NEW x \in labels' \ labels
        PROVE  /\ Settled(UnderlyingOf(x.pool))' /\ Settled(SymbolOf(CachedAddress(x.pool)))'
               /\ x.label = cache'[SymbolOf(CachedAddress(x.pool))']
    <3>1. x.pool = Head(legs) /\ x.label = cache'[SymbolOf(address)]
      BY <1>3, <2>1
    <3>2. Settled(UnderlyingOf(x.pool)) /\ address = CachedAddress(x.pool)
      BY <1>6, <2>1, <3>1 DEF Cached
    <3>3. UnderlyingOf(x.pool) # Wanted
      BY <2>1, KindsDiffer
    <3>4. cache'[UnderlyingOf(x.pool)] = cache[UnderlyingOf(x.pool)]
      BY <1>3, <3>2, <3>3 DEF Settled
    <3>5. Settled(UnderlyingOf(x.pool))' /\ CachedAddress(x.pool)' = address
      BY <1>2, <1>3, <3>2, <3>4 DEF Settled, CachedAddress, UnderlyingOf
    <3>6. SymbolOf(CachedAddress(x.pool))' = Wanted
      BY <2>1, <3>5 DEF SymbolOf
    <3>7. Settled(SymbolOf(CachedAddress(x.pool)))'
      BY <1>2, <1>3, <2>1, <3>6 DEF Settled
    <3> QED
      BY <2>1, <3>1, <3>5, <3>6, <3>7
  <2> QED
    BY <1>4, <2>1, <2>2 DEF Cached
<1> QED
  BY <1>2, <1>5, <1>6

\* A label stays what the settled lookups say.
LEMMA CachedStep == Cached /\ [Next]_vars => Cached'
<1> SUFFICES ASSUME Cached, [Next]_vars PROVE Cached'
  OBVIOUS
<1> USE CachedIfSame DEF legVars, chainVars, creditVars, scanVars, cacheVars, histVars
<1>1. ASSUME Mint PROVE Cached'
  BY <1>1 DEF Mint
<1>2. ASSUME NEW i \in DOMAIN order, Burn(i) PROVE Cached'
  BY <1>2 DEF Burn
<1>3. ASSUME NEW p \in Ids, NEW owes \in BOOLEAN, Owe(p, owes) PROVE Cached'
  BY <1>3 DEF Owe
<1>4. ASSUME NEW k \in CollCredits, NEW d \in DebtCredits \cup {0}, Move(k, d) PROVE Cached'
  BY <1>4 DEF Move
<1>5. ASSUME BeginScan PROVE Cached'
  BY <1>5 DEF BeginScan
<1>6. ASSUME IndexRead PROVE Cached'
  BY <1>6 DEF IndexRead
<1>7. ASSUME IndexFails PROVE Cached'
  BY <1>7 DEF IndexFails, NextIndex, ForgetCredits, ForgetLegs
<1>8. ASSUME ScanDone PROVE Cached'
  BY <1>8 DEF ScanDone
<1>9. ASSUME BorrInfo PROVE Cached'
  BY <1>9 DEF BorrInfo
<1>10. ASSUME CollCredit PROVE Cached'
  BY <1>10 DEF CollCredit
<1>11. ASSUME BorrCredit PROVE Cached'
  BY <1>11 DEF BorrCredit
<1>12. ASSUME Inactive PROVE Cached'
  BY <1>12 DEF Inactive, NextIndex, ForgetCredits, ForgetLegs
<1>13. ASSUME ReadFails PROVE Cached'
  BY <1>13 DEF ReadFails, NextIndex, ForgetCredits, ForgetLegs
<1>14. ASSUME Legs PROVE Cached'
  BY <1>14 DEF Legs, ForgetCredits
<1>15. ASSUME CacheMiss PROVE Cached'
  BY <1>15, CachedMiss
<1>16. ASSUME CacheHit \/ CacheFill PROVE Cached'
  BY <1>16, CachedHit, CachedFill
<1>17. ASSUME NEW l \in Lookups, OtherMisses(l) PROVE Cached'
  <2>1. \A k \in DOMAIN cache : Settled(k) => Settled(k)' /\ cache'[k] = cache[k]
    BY <1>17 DEF OtherMisses, Settled, Known
  <2> QED
    BY <1>17, <2>1, CachedIfOthers DEF OtherMisses
<1>18. ASSUME NEW l \in Lookups, OtherFills(l) PROVE Cached'
  <2>1. PICK answer : Store(l, answer)
    BY <1>18 DEF OtherFills
  <2>2. \A k \in DOMAIN cache : Settled(k) => Settled(k)' /\ cache'[k] = cache[k]
    BY <1>18, <2>1, StoreKeeps DEF OtherFills, Settled
  <2> QED
    BY <1>18, <2>2, CachedIfOthers DEF OtherFills
<1>19. ASSUME Escapes PROVE Cached'
  BY <1>19 DEF Escapes, ForgetCredits, ForgetLegs
<1>20. CASE UNCHANGED vars
  BY <1>20 DEF vars
<1> QED
  BY <1>1, <1>2, <1>3, <1>4, <1>5, <1>6, <1>7, <1>8, <1>9, <1>10, <1>11,
     <1>12, <1>13, <1>14, <1>15, <1>16, <1>17, <1>18, <1>19, <1>20 DEF Next

-----------------------------------------------------------------------------
(* The theorems *)

\* The invariants hold of the initial states.
LEMMA Initially == Init => TypeOK /\ Ahead /\ Behind /\ Seen /\ Cached /\ NoTwins
<1> SUFFICES ASSUME Init
      PROVE TypeOK /\ Ahead /\ Behind /\ Seen /\ Cached /\ NoTwins
  OBVIOUS
<1>1. minted \in Nat /\ minted \in 0..Cardinality(Ids)
  BY NumberOfIds DEF Init
<1>2. order \in Seq(1..minted) /\ Len(order) = minted
  BY <1>1 DEF Init
<1>3. ScanLimit \in Nat
  BY MaxPositionsAssumption DEF Init, ScanLimit
<1>4. out = <<>> /\ Result = {}
  BY DEF Init, Result
<1>5. TypeOK
  BY <1>1, <1>2, <1>3, IdIsPositive DEF Init, TypeOK
<1>6. Ahead
  BY DEF Init, Ahead
<1>7. Behind
  BY <1>1, <1>2, <1>4 DEF Init, Behind, Reading, Building
<1>8. Seen /\ Cached
  BY DEF Init, Seen, Cached
<1>9. NoTwins
  BY <1>4, FS_EmptySet DEF NoTwins
<1> QED
  BY <1>5, <1>6, <1>7, <1>8, <1>9

\* The three parts make the type invariant.
LEMMA TypeStep == TypeOK /\ [Next]_vars => TypeOK'
<1>1. TypeOK' <=> ChainOK' /\ CursorOK' /\ RecordOK'
  BY DEF TypeOK, ChainOK, CursorOK, RecordOK, Reading, Building
<1> QED
  BY <1>1, ChainStep, CursorStep, RecordStep

\* The types, and the enumeration holds a token once (init_capital.py:336-364).
THEOREM TypeCorrect == Spec => []TypeOK
BY Initially, TypeStep, PTL DEF Spec

\* A position that owes throughout a scan is not overlooked, whatever is minted
\* and burned while the indices are read downwards (init_capital.py:349-358).
THEOREM NobodyMissed == Spec => []NeverMissed
<1>1. TypeOK /\ Ahead => NeverMissed
  <2> SUFFICES ASSUME TypeOK, Ahead, MaxPositions = 0, pc = "index",
                      offset = ScanLimit, ~ failed, NEW p \in owing
               PROVE  p \in Result
    BY DEF NeverMissed
  <2>1. Left = 0
    BY Numbers, LimitFacts DEF Left, Reading, Building
  <2>2. p \in Ids /\ pid = 0
    BY TokenIsId DEF TypeOK
  <2>3. p \in Result \/ p = pid \/ \E i \in DOMAIN order : order[i] = p /\ i <= Left
    BY DEF Ahead
  <2> QED
    BY <2>1, <2>2, <2>3, Numbers, IdIsPositive
<1> QED
  BY <1>1, Initially, TypeStep, AheadStep, PTL DEF Spec

\* Without a burn no position is reported twice (init_capital.py:349-360).
THEOREM NobodyTwice == Spec => []NoTwins
BY Initially, TypeStep, BehindStep, TwinsStep, PTL DEF Spec

\* Of two numbers the greater gives the greater product.
LEMMA Products == \A a, b, c \in Nat : a <= b => a * c <= b * c /\ c * a <= c * b
BY SMT

\* A health factor put together from two calls lies between two that the position
\* had, but for a fall or a rise of both credits (init_capital.py:187-199, 315).
THEOREM HealthIsReal == Spec => []HealthInBetween
<1>1. TypeOK /\ Seen => HealthInBetween
  <2> SUFFICES ASSUME TypeOK, Seen, pc = "legs" PROVE HealthInBetween
    BY DEF HealthInBetween
  <2>1. /\ coll \in Nat /\ debt \in Nat /\ then[1] \in Nat /\ then[2] \in Nat
        /\ sawColl = then[1] /\ sawDebt = debt
    BY DEF TypeOK, Seen
  <2>2. \/ coll < then[1] /\ debt < then[2]
        \/ then[1] * debt >= then[1] * then[2] \/ coll * debt >= then[1] * debt
    <3>1. debt >= then[2] => then[1] * debt >= then[1] * then[2]
      BY <2>1, Products
    <3>2. coll >= then[1] => coll * debt >= then[1] * debt
      BY <2>1, Products
    <3> QED
      BY <2>1, <3>1, <3>2
  <2>3. \/ coll > then[1] /\ debt > then[2]
        \/ then[1] * then[2] >= then[1] * debt \/ then[1] * debt >= coll * debt
    <3>1. debt <= then[2] => then[1] * then[2] >= then[1] * debt
      BY <2>1, Products
    <3>2. coll <= then[1] => then[1] * debt >= coll * debt
      BY <2>1, Products
    <3> QED
      BY <2>1, <3>1, <3>2
  <2> QED
    BY <2>1, <2>2, <2>3 DEF HealthInBetween, AsHealthy
<1> QED
  BY <1>1, Initially, TypeStep, SeenStep, PTL DEF Spec

\* A pool has one label for good, but for lookups that several threads make at
\* the same time (init_capital.py:219-267).
THEOREM LabelsAreStable == Spec => []OneLabelPerPool
<1>1. Cached => OneLabelPerPool
  BY DEF Cached, OneLabelPerPool
<1> QED
  BY <1>1, Initially, CachedStep, PTL DEF Spec
=============================================================================
