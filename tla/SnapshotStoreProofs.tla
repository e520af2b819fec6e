------------------------- MODULE SnapshotStoreProofs -------------------------
(***************************************************************************)
(* Proofs about the store, for every set of positions, every reading and   *)
(* block, and any number of cycles: what was saved is answered completely, *)
(* its counts agree, and the latest snapshot never goes back.              *)
(***************************************************************************)
EXTENDS SnapshotStore, FiniteSetTheorems, SequenceTheorems, TLAPS

\* The cycles that were begun.
Cycles == 1..Cycle

\* The type invariant in two parts.
DataOK ==
  /\ pc \in {"idle", "saving", "filling"}
  /\ taken \in Seq([block : Blocks, hf : Readings]) /\ Cycle <= MaxCycles
  /\ pc # "idle" => Cycle > 0
  /\ saved \subseteq Cycles
  /\ snaps \subseteq {SnapshotDoc(c, taken[c]) : c \in Cycles}
  /\ docs \subseteq UNION {DocsOf(c) : c \in Cycles}

ClientOK ==
  /\ asked # None => asked.snap \in snaps
  /\ reply = None \/ reply.kind \in {"latest", "atRisk", "page"}
  /\ reply # None => source.snap \in snaps
  /\ reply # None <=> source # None
  /\ series # None => series.of \in Feeds

\* A save that returned has left nothing out.
Complete == \A c \in saved : DocsOf(c) \subseteq docs

\* A request knows whether its snapshot was complete, and does not go back.
Asking ==
  /\ asked # None /\ asked.whole => asked.snap.at \in saved
  /\ asked # None /\ source # None => asked.snap.block >= source.snap.block

\* What a complete answer holds.
Filled ==
  reply # None =>
    /\ reply.kind = source.query.kind
    /\ reply.kind \in {"latest", "atRisk"} /\ source.whole => reply.items = Wanted
    /\ reply.kind = "page" => reply.risk = source.query.risk
    /\ reply.kind = "page" /\ source.whole =>
         reply.totals = Totals(DocsOf(source.snap.at))

\* An answer shows documents of its cycle that are in the collection.
Shown ==
  reply # None =>
    /\ reply.kind # "atRisk" =>
         reply.at = source.snap.at /\ reply.block = source.snap.block
    /\ reply.kind = "page" => reply.items \in Seq(DocsOf(source.snap.at))
    /\ Items \subseteq DocsOf(source.snap.at) /\ Items \subseteq docs

\* A client that turns a page asks for what follows the items that it holds.
Paging ==
  asked # None =>
    /\ series = None
    /\ asked.query.kind = "page" =>
         /\ asked.query.skip \in Nat
         /\ asked.query.skip > 0 =>
              /\ held # None
              /\ asked.query.skip = Len(held.items)
              /\ asked.query.risk = source.query.risk

\* How many of S have a health factor below h, and at most h.
Below(S, h) == Cardinality({d \in S : d.hf < h})
UpTo(S, h) == Cardinality({d \in S : d.hf <= h})

\* What stands at place i of the list may stand there when S is sorted.
InPlace(list, S) ==
  \A i \in DOMAIN list :
    list[i] \in S /\ Below(S, list[i].hf) < i /\ i <= UpTo(S, list[i].hf)

\* The client holds the beginning of a sorted list of the capture, which ends
\* where nothing more is announced; positions of one health factor may have
\* changed places between two pages.
Holding ==
  held # None =>
    /\ reply # None /\ reply.kind = "page"
    /\ held = [at |-> source.snap.at, whole |-> held.whole, items |-> held.items]
    /\ held.items \in Seq(DocsOf(held.at)) /\ ToSet(held.items) \subseteq docs
    /\ held.whole =>
         /\ held.at \in saved
         /\ InPlace(held.items, Wanted)
         /\ Len(held.items) <= Cardinality(Wanted)
         /\ ~ reply.more => Len(held.items) = Cardinality(Wanted)
-----------------------------------------------------------------------------
(* The documents of a cycle *)

\* Snapshots that were taken do not change when another is.
LEMMA TakenStays ==
  ASSUME taken \in Seq([block : Blocks, hf : Readings]), NEW b \in Blocks,
         NEW hf \in Readings, taken' = Append(taken, [block |-> b, hf |-> hf])
  PROVE  /\ taken' \in Seq([block : Blocks, hf : Readings])
         /\ Len(taken') = Len(taken) + 1 /\ Len(taken) \in Nat
         /\ \A c \in 1..Len(taken) : taken'[c] = taken[c] /\ DocsOf(c)' = DocsOf(c)
<1>1. [block |-> b, hf |-> hf] \in [block : Blocks, hf : Readings]
  OBVIOUS
<1>2. /\ taken' \in Seq([block : Blocks, hf : Readings])
      /\ Len(taken') = Len(taken) + 1 /\ Len(taken) \in Nat
      /\ \A c \in 1..Len(taken) : taken'[c] = taken[c]
  BY <1>1
<1> QED
  BY <1>2 DEF DocsOf

\* Nothing but `taken` decides what documents a cycle has.
LEMMA DocsStay == taken' = taken => \A c : DocsOf(c)' = DocsOf(c)
BY DEF DocsOf

\* The second query finds the documents of its cycle, and all of them when the
\* save has returned.
LEMMA Found ==
  ASSUME DataOK, Complete, NEW c \in Cycles, NEW s, s.at = c
  PROVE  /\ Hydrated(s) \subseteq DocsOf(c)
         /\ c \in saved => Hydrated(s) = DocsOf(c)
<1>1. \A k \in Cycles : \A d \in DocsOf(k) : d.at = k
  BY DEF DocsOf, PositionDoc
<1>2. ASSUME NEW d \in docs, d.at = c PROVE d \in DocsOf(c)
  BY <1>1, <1>2 DEF DataOK
<1>3. Hydrated(s) \subseteq DocsOf(c)
  BY <1>2 DEF Hydrated
<1>4. ASSUME c \in saved PROVE DocsOf(c) \subseteq Hydrated(s)
  BY <1>1, <1>4 DEF Hydrated, Complete
<1> QED
  BY <1>3, <1>4

\* A snapshot that was taken is one.
LEMMA TakenFacts ==
  ASSUME DataOK, NEW c \in Cycles
  PROVE  /\ taken[c].block \in Nat
         /\ taken[c].hf \in Readings
         /\ DOMAIN taken[c].hf \subseteq Positions
         /\ \A p \in DOMAIN taken[c].hf : taken[c].hf[p] \in Nat
<1>1. taken[c] \in [block : Blocks, hf : Readings]
  BY ElementOfSeq DEF DataOK, Cycles, Cycle
<1>2. taken[c].block \in Blocks /\ taken[c].hf \in Readings
  BY <1>1
<1> QED
  BY <1>2, BlocksAssumption, ReadingsAssumption

\* A snapshot in the collection is that of a cycle, with its block.
LEMMA SnapFacts ==
  ASSUME DataOK, NEW s \in snaps
  PROVE  /\ s.at \in Cycles /\ s = SnapshotDoc(s.at, taken[s.at])
         /\ s.block \in Nat
<1>1. PICK c \in Cycles : s = SnapshotDoc(c, taken[c])
  BY DEF DataOK
<1>2. s.at = c /\ s.block = taken[c].block
  BY <1>1 DEF SnapshotDoc
<1> QED
  BY <1>1, <1>2, TakenFacts
-----------------------------------------------------------------------------
(* Types *)

\* The type invariant follows from its parts.
LEMMA TypeParts == DataOK /\ ClientOK /\ Holding => TypeOK
<1> SUFFICES ASSUME DataOK, ClientOK, Holding PROVE TypeOK
  OBVIOUS
<1>1. held # None => held.items \in Seq(docs)
  <2>1. ASSUME held # None PROVE \A i \in 1..Len(held.items) : held.items[i] \in docs
    BY <2>1 DEF Holding, ToSet
  <2> QED
    BY <2>1 DEF Holding
<1> QED
  BY <1>1 DEF DataOK, ClientOK, TypeOK, Cycles, None

LEMMA DataStep == DataOK /\ [Next]_vars => DataOK'
<1> SUFFICES ASSUME DataOK, [Next]_vars PROVE DataOK'
  OBVIOUS
<1>0. Len(taken) \in Nat
  BY LenProperties DEF DataOK
<1>1. ASSUME NEW b \in Blocks, NEW hf \in Readings, TakeSnapshot(b, hf)
      PROVE  DataOK'
  <2>1. /\ taken' \in Seq([block : Blocks, hf : Readings])
        /\ Len(taken') = Len(taken) + 1
        /\ \A c \in 1..Len(taken) : taken'[c] = taken[c] /\ DocsOf(c)' = DocsOf(c)
    BY <1>1, TakenStays DEF TakeSnapshot, DataOK
  <2>2. Cycle' <= MaxCycles /\ Cycle' > 0 /\ Cycles \subseteq Cycles'
    BY <1>0, <1>1, <2>1, PositionsAssumption DEF TakeSnapshot, Cycle, Cycles
  <2>3. \A s \in snaps : \E c \in Cycles' : s = SnapshotDoc(c, taken'[c])
    BY <2>1, <2>2 DEF DataOK, Cycles, Cycle
  <2>4. \A d \in docs : \E c \in Cycles' : d \in DocsOf(c)'
    BY <2>1, <2>2 DEF DataOK, Cycles, Cycle
  <2>5. /\ pc' = "saving" /\ saved' \subseteq Cycles' /\ snaps' = snaps /\ docs' = docs
    BY <1>1, <2>2 DEF TakeSnapshot, DataOK, dbVars
  <2> HIDE DEF DataOK
  <2>6. docs' \subseteq UNION {DocsOf(c)' : c \in Cycles'}
    BY <2>4, <2>5
  <2> QED
    BY <2>1, <2>2, <2>3, <2>5, <2>6 DEF DataOK
<1>2. ASSUME taken' = taken, pc' \in {"idle", "filling"}, pc' = "filling" => pc # "idle",
             saved' \subseteq Cycles,
             pc # "idle" => snaps' \subseteq snaps \cup {SnapshotDoc(Cycle, Snapshot)},
             pc = "idle" => snaps' \subseteq snaps,
             pc # "idle" => docs' \subseteq docs \cup DocsOf(Cycle),
             pc = "idle" => docs' \subseteq docs
      PROVE  DataOK'
  <2>1. Cycles' = Cycles /\ Cycle' = Cycle /\ \A c : DocsOf(c)' = DocsOf(c)
    BY <1>2, DocsStay DEF Cycles, Cycle
  <2>2. pc # "idle" => Cycle \in Cycles
    BY <1>0 DEF Cycles, Cycle, DataOK
  <2>3. snaps' \subseteq {SnapshotDoc(c, taken[c]) : c \in Cycles}
    BY <1>2, <2>2 DEF DataOK, Snapshot
  <2>4. docs' \subseteq UNION {DocsOf(c) : c \in Cycles}
    BY <1>2, <2>2 DEF DataOK
  <2>5. docs' \subseteq UNION {DocsOf(c)' : c \in Cycles'}
    BY <2>1, <2>4
  <2> QED
    BY <1>2, <2>1, <2>3, <2>5 DEF DataOK
<1>3. CASE InsertSnapshot
  BY <1>2, <1>3 DEF InsertSnapshot, DataOK
<1>4. ASSUME NEW d \in DocsOf(Cycle), InsertPosition(d) PROVE DataOK'
  BY <1>2, <1>4 DEF InsertPosition, DataOK, writerVars
<1>5. CASE SaveReturns
  BY <1>0, <1>2, <1>5 DEF SaveReturns, DataOK, dbVars, Cycles, Cycle
<1>6. CASE SaveFails
  BY <1>2, <1>6 DEF SaveFails, DataOK
<1>7. ASSUME UNCHANGED <<writerVars, dbVars>> PROVE DataOK'
  <2>1. \A c : DocsOf(c)' = DocsOf(c)
    BY <1>7, DocsStay DEF writerVars
  <2> QED
    BY <1>7, <2>1 DEF DataOK, Cycles, Cycle, writerVars, dbVars
<1>8. CASE UNCHANGED vars
  BY <1>7, <1>8 DEF vars
<1> QED
  BY <1>1, <1>3, <1>4, <1>5, <1>6, <1>7, <1>8
  DEF Next, AskLatest, AskAtRisk, AskFirstPage, AskNextPage, Ask, Answer, AskSeries

\* The collections only grow, and so do the cycles and those that are saved.
LEMMA Grows ==
  ASSUME DataOK, [Next]_vars
  PROVE  /\ snaps \subseteq snaps' /\ docs \subseteq docs'
         /\ saved \subseteq saved' /\ Cycles \subseteq Cycles'
         /\ \A c \in Cycles : DocsOf(c)' = DocsOf(c) /\ taken'[c] = taken[c]
<1> DEFINE G == /\ snaps \subseteq snaps' /\ docs \subseteq docs'
                /\ saved \subseteq saved' /\ Cycles \subseteq Cycles'
                /\ \A c \in Cycles : DocsOf(c)' = DocsOf(c) /\ taken'[c] = taken[c]
<1>1. ASSUME NEW b \in Blocks, NEW hf \in Readings, TakeSnapshot(b, hf) PROVE G
  <2>1. /\ Len(taken') = Len(taken) + 1 /\ Len(taken) \in Nat
        /\ \A c \in 1..Len(taken) : DocsOf(c)' = DocsOf(c) /\ taken'[c] = taken[c]
    BY <1>1, TakenStays DEF TakeSnapshot, DataOK
  <2> QED
    BY <1>1, <2>1 DEF TakeSnapshot, Cycles, Cycle, dbVars
<1>2. ASSUME taken' = taken, snaps \subseteq snaps', docs \subseteq docs',
             saved \subseteq saved'
      PROVE  G
  <2>1. \A c : DocsOf(c)' = DocsOf(c)
    BY <1>2, DocsStay
  <2> QED
    BY <1>2, <2>1 DEF Cycles, Cycle
<1>3. CASE InsertSnapshot \/ SaveReturns \/ SaveFails
  BY <1>2, <1>3 DEF InsertSnapshot, SaveReturns, SaveFails, dbVars
<1>4. ASSUME NEW d \in DocsOf(Cycle), InsertPosition(d) PROVE G
  BY <1>2, <1>4 DEF InsertPosition, writerVars
<1>5. CASE UNCHANGED <<writerVars, dbVars>>
  BY <1>2, <1>5 DEF writerVars, dbVars
<1>6. CASE UNCHANGED vars
  BY <1>5, <1>6 DEF vars
<1>7. CASE AskLatest \/ AskNextPage \/ Answer
  BY <1>5, <1>7 DEF AskLatest, AskNextPage, Ask, Answer
<1>8. ASSUME NEW x, AskAtRisk(x) \/ AskFirstPage(x) \/ AskSeries(x) PROVE G
  BY <1>5, <1>8 DEF AskAtRisk, AskFirstPage, Ask, AskSeries
<1>9. ASSUME NEW d \in IF taken = <<>> THEN {} ELSE DocsOf(Cycle), InsertPosition(d)
      PROVE  G
  BY <1>4, <1>9
<1>10. CASE Next
  BY <1>1, <1>3, <1>7, <1>8, <1>9, <1>10 DEF Next
<1> QED
  BY <1>6, <1>10

\* The first page, or what follows the page that is shown.
Sensible(query) ==
  query.kind = "page" =>
    \/ query.skip = 0
    \/ held # None /\ query.skip = Len(held.items) /\ query.risk = reply.risk

\* What a step may do to the client.
LEMMA Requests ==
  ASSUME [Next]_vars
  PROVE  \/ UNCHANGED clientVars
         \/ \E query : Ask(query) /\ Sensible(query)
         \/ Answer
         \/ \E ps \in Feeds : AskSeries(ps)
<1>1. ASSUME NEW b, NEW hf, TakeSnapshot(b, hf) PROVE UNCHANGED clientVars
  BY <1>1 DEF TakeSnapshot
<1>2. CASE InsertSnapshot \/ SaveReturns \/ SaveFails
  BY <1>2 DEF InsertSnapshot, SaveReturns, SaveFails
<1>3. ASSUME NEW d, InsertPosition(d) PROVE UNCHANGED clientVars
  BY <1>3 DEF InsertPosition
<1>4. CASE UNCHANGED vars
  BY <1>4 DEF vars
<1>5. CASE AskLatest \/ AskNextPage
  BY <1>5 DEF AskLatest, AskNextPage, Sensible
<1>6. ASSUME NEW x, AskAtRisk(x) \/ AskFirstPage(x)
      PROVE  \E query : Ask(query) /\ Sensible(query)
  BY <1>6 DEF AskAtRisk, AskFirstPage, Sensible
<1> QED
  BY <1>1, <1>2, <1>3, <1>4, <1>5, <1>6 DEF Next

\* What an answer puts in the reply, whatever was asked for.
LEMMA Replies ==
  ASSUME Answer
  PROVE  /\ asked # None /\ asked' = None /\ UNCHANGED <<taken, saved, snaps, docs, series>>
         /\ source' = asked
         /\ reply'.kind \in {"latest", "atRisk", "page"}
         /\ reply'.kind = asked.query.kind
         /\ reply'.kind # "atRisk" => /\ reply'.at = asked.snap.at
                                     /\ reply'.block = asked.snap.block
         /\ reply' # None /\ asked.query.kind = "page" => AnswerPage
         /\ TurnPage
<1>1. asked # None /\ asked' = None /\ UNCHANGED <<taken, saved, snaps, docs, series>>
  BY DEF Answer, AnswerLatest, AnswerAtRisk, AnswerPage, writerVars, dbVars
<1>2. CASE AnswerLatest
  BY <1>1, <1>2 DEF AnswerLatest, Answer, None
<1>3. CASE AnswerAtRisk
  BY <1>1, <1>3 DEF AnswerAtRisk, Answer, None
<1>4. CASE AnswerPage
  <2>1. /\ reply'.kind = "page" /\ asked.query.kind = "page"
        /\ reply'.at = asked.snap.at /\ reply'.block = asked.snap.block
    BY <1>4 DEF AnswerPage
  <2> QED
    BY <1>1, <1>4, <2>1 DEF Answer
<1> QED
  BY <1>2, <1>3, <1>4 DEF Answer

LEMMA ClientStep == DataOK /\ ClientOK /\ [Next]_vars => ClientOK'
<1> SUFFICES ASSUME DataOK, ClientOK, [Next]_vars PROVE ClientOK'
  OBVIOUS
<1>1. snaps \subseteq snaps'
  BY Grows
<1>2. CASE UNCHANGED clientVars
  BY <1>1, <1>2 DEF ClientOK, clientVars
<1>3. ASSUME NEW query, Ask(query) PROVE ClientOK'
  BY <1>1, <1>3 DEF ClientOK, Ask, Newest, None
<1>4. CASE Answer
  BY <1>1, <1>4, Replies DEF ClientOK, None
<1>5. ASSUME NEW ps \in Feeds, AskSeries(ps) PROVE ClientOK'
  BY <1>1, <1>5 DEF ClientOK, AskSeries
<1> QED
  BY <1>2, <1>3, <1>4, <1>5, Requests

LEMMA CompleteStep == DataOK /\ Complete /\ [Next]_vars => Complete'
<1> SUFFICES ASSUME DataOK, Complete, [Next]_vars, NEW c \in saved'
             PROVE  DocsOf(c)' \subseteq docs'
  BY DEF Complete
<1>1. CASE c \in saved
  <2>1. c \in Cycles
    BY <1>1 DEF DataOK
  <2> QED
    BY <1>1, <2>1, Grows DEF Complete
<1>2. CASE SaveReturns
  BY <1>1, <1>2, DocsStay DEF SaveReturns, dbVars
<1>3. ASSUME saved' = saved PROVE c \in saved
  BY <1>3
<1>4. CASE Answer
  BY <1>1, <1>4 DEF Answer, writerVars
<1> QED
  BY <1>1, <1>2, <1>4 DEF Next, TakeSnapshot, InsertSnapshot, InsertPosition, SaveFails,
     AskLatest, AskAtRisk, AskFirstPage, AskNextPage, Ask, AskSeries, writerVars, vars

-----------------------------------------------------------------------------
(* What is asked and answered *)

LEMMA AskingStep == DataOK /\ ClientOK /\ Asking /\ [Next]_vars => Asking'
<1> SUFFICES ASSUME DataOK, ClientOK, Asking, [Next]_vars PROVE Asking'
  OBVIOUS
<1>1. saved \subseteq saved'
  BY Grows
<1>2. CASE UNCHANGED clientVars
  BY <1>1, <1>2 DEF Asking, clientVars
<1>3. ASSUME NEW query, Ask(query) PROVE Asking'
  <2>1. PICK s \in Newest :
          asked' = [kind |-> "asked", query |-> query, snap |-> s, whole |-> s.at \in saved]
    BY <1>3 DEF Ask
  <2>2. UNCHANGED <<reply, source, saved>>
    BY <1>3 DEF Ask, writerVars
  <2>3. ASSUME source # None PROVE s.block >= source.snap.block
    <3>1. source.snap \in snaps /\ s \in snaps /\ source.snap.block <= s.block
      BY <2>3 DEF Newest, ClientOK
    <3>2. source.snap.block \in Nat /\ s.block \in Nat
      BY <3>1, SnapFacts
    <3> QED
      BY <3>1, <3>2
  <2> QED
    BY <2>1, <2>2, <2>3 DEF Asking
<1>4. CASE Answer
  BY <1>4, Replies DEF Asking
<1>5. ASSUME NEW ps \in Feeds, AskSeries(ps) PROVE Asking'
  BY <1>1, <1>5 DEF AskSeries, Asking
<1> QED
  BY <1>2, <1>3, <1>4, <1>5, Requests

LEMMA FilledStep ==
  DataOK /\ ClientOK /\ Complete /\ Asking /\ Filled /\ [Next]_vars => Filled'
<1> SUFFICES ASSUME DataOK, ClientOK, Complete, Asking, Filled, [Next]_vars
             PROVE  Filled'
  OBVIOUS
<1>1. ASSUME reply' = reply, source' = source PROVE Filled'
  <2>1. ASSUME reply # None PROVE DocsOf(source.snap.at)' = DocsOf(source.snap.at)
    <3>1. source.snap.at \in Cycles
      BY <2>1, SnapFacts DEF ClientOK
    <3> QED
      BY <1>1, <3>1, Grows
  <2> QED
    BY <1>1, <2>1 DEF Filled, Wanted, Totals
<1>2. CASE Answer
  <2>1. /\ asked # None /\ taken' = taken /\ asked.snap \in snaps
        /\ asked.snap.at \in Cycles /\ source' = asked
        /\ reply'.kind = asked.query.kind
    BY <1>2, Replies, SnapFacts DEF ClientOK
  <2>2. \A c : DocsOf(c)' = DocsOf(c)
    BY <2>1, DocsStay
  <2>3. asked.whole => Hydrated(asked.snap) = DocsOf(asked.snap.at)
    BY <2>1, Found DEF Asking
  <2>4. CASE AnswerLatest
    BY <2>1, <2>2, <2>3, <2>4 DEF AnswerLatest, Filled, Wanted
  <2>5. CASE AnswerAtRisk
    BY <2>1, <2>2, <2>3, <2>5 DEF AnswerAtRisk, Filled, Wanted
  <2>6. CASE AnswerPage
    <3>1. /\ reply'.kind = "page" /\ reply'.risk = asked.query.risk
          /\ reply'.totals = Totals(Hydrated(asked.snap))
      BY <2>6 DEF AnswerPage
    <3>2. \A S : Totals(S)' = Totals(S)
      BY DEF Totals
    <3> QED
      BY <2>1, <2>2, <2>3, <3>1, <3>2 DEF Filled
  <2> QED
    BY <1>2, <2>4, <2>5, <2>6 DEF Answer
<1>3. ASSUME NEW query, Ask(query) PROVE Filled'
  BY <1>1, <1>3 DEF Ask
<1>4. ASSUME NEW ps \in Feeds, AskSeries(ps) PROVE Filled'
  BY <1>1, <1>4 DEF AskSeries
<1>5. CASE UNCHANGED clientVars
  BY <1>1, <1>5 DEF clientVars
<1> QED
  BY <1>2, <1>3, <1>4, <1>5, Requests
-----------------------------------------------------------------------------
(* Counts *)

\* As many documents as positions.
LEMMA CountDocs ==
  ASSUME DataOK, NEW c \in Cycles, NEW P \in SUBSET (DOMAIN taken[c].hf)
  PROVE  /\ IsFiniteSet(P) /\ IsFiniteSet({PositionDoc(c, taken[c], p) : p \in P})
         /\ Cardinality({PositionDoc(c, taken[c], p) : p \in P}) = Cardinality(P)
<1> DEFINE D == {PositionDoc(c, taken[c], p) : p \in P}
           f == [p \in P |-> PositionDoc(c, taken[c], p)]
<1>1. P \in SUBSET Positions
  BY TakenFacts
<1>2. IsFiniteSet(P)
  BY <1>1, PositionsAssumption, FS_Subset
<1>3. f \in Bijection(P, D)
  BY DEF Bijection, Injection, Surjection, IsInjective, PositionDoc
<1>4. ExistsBijection(P, D)
  BY <1>3 DEF ExistsBijection
<1> QED
  BY <1>2, <1>4, FS_Bijection

\* Sets without a common element add up.
LEMMA DisjointSets ==
  ASSUME NEW S, NEW T, IsFiniteSet(S), IsFiniteSet(T), S \cap T = {}
  PROVE  /\ IsFiniteSet(S \cup T)
         /\ Cardinality(S \cup T) = Cardinality(S) + Cardinality(T)
         /\ Cardinality(S) \in Nat /\ Cardinality(T) \in Nat
<1>1. Cardinality(S) \in Nat /\ Cardinality(T) \in Nat
  BY FS_CardinalityType
<1>2. Cardinality(S \cap T) = 0
  BY FS_EmptySet
<1>3. /\ IsFiniteSet(S \cup T)
      /\ Cardinality(S \cup T) =
           Cardinality(S) + Cardinality(T) - Cardinality(S \cap T)
  BY FS_Union
<1> QED
  BY <1>1, <1>2, <1>3

\* The tiers cut the health factors into four.
LEMMA TierFacts ==
  ASSUME NEW h \in Nat
  PROVE  /\ RiskLevel(h) \in Tiers
         /\ h < 105 <=> RiskLevel(h) \in {"CRITICAL", "HIGH"}
BY DEF RiskLevel, Tiers

\* The counts of a snapshot's summary are the sums of its totals.
LEMMA SummaryTotals ==
  ASSUME DataOK, NEW c \in Cycles
  PROVE  LET s == SnapshotDoc(c, taken[c])
             totals == Totals(DocsOf(c))
         IN /\ s.critical = totals["CRITICAL"]
            /\ s.atRisk = totals["CRITICAL"] + totals["HIGH"]
            /\ s.total = s.atRisk + totals["MEDIUM"] + totals["SAFE"]
<1> DEFINE hf == taken[c].hf
           Of(t) == {p \in DOMAIN hf : RiskLevel(hf[p]) = t}
           n(t) == Cardinality(Of(t))
<1>1. \A p \in DOMAIN hf : hf[p] \in Nat
  BY TakenFacts
<1>3. \A t \in Tiers : Totals(DocsOf(c))[t] = n(t)
  <2> SUFFICES ASSUME NEW t \in Tiers PROVE Totals(DocsOf(c))[t] = n(t)
    OBVIOUS
  <2>1. {d \in DocsOf(c) : RiskLevel(d.hf) = t} = {PositionDoc(c, taken[c], p) : p \in Of(t)}
    BY DEF DocsOf, PositionDoc
  <2>2. Cardinality({PositionDoc(c, taken[c], p) : p \in Of(t)}) = n(t)
    BY CountDocs
  <2> QED
    BY <2>1, <2>2 DEF Totals
<1>4. \A t \in Tiers : IsFiniteSet(Of(t)) /\ n(t) \in Nat
  BY CountDocs, FS_CardinalityType
<1>5. /\ AtRiskOf(hf) = Of("CRITICAL") \cup Of("HIGH")
      /\ DOMAIN hf = AtRiskOf(hf) \cup (Of("MEDIUM") \cup Of("SAFE"))
  BY <1>1, TierFacts DEF AtRiskOf, Tiers
<1>6. /\ IsFiniteSet(AtRiskOf(hf))
      /\ Cardinality(AtRiskOf(hf)) = n("CRITICAL") + n("HIGH")
  BY <1>4, <1>5, DisjointSets DEF Tiers
<1>7. /\ IsFiniteSet(Of("MEDIUM") \cup Of("SAFE"))
      /\ Cardinality(Of("MEDIUM") \cup Of("SAFE")) = n("MEDIUM") + n("SAFE")
  BY <1>4, DisjointSets DEF Tiers
<1>8. Cardinality(DOMAIN hf) = Cardinality(AtRiskOf(hf)) + n("MEDIUM") + n("SAFE")
  <2>1. AtRiskOf(hf) \cap (Of("MEDIUM") \cup Of("SAFE")) = {}
    BY <1>5 DEF AtRiskOf, Tiers
  <2>2. /\ Cardinality(DOMAIN hf) =
             Cardinality(AtRiskOf(hf)) + Cardinality(Of("MEDIUM") \cup Of("SAFE"))
        /\ Cardinality(AtRiskOf(hf)) \in Nat
    BY <1>5, <1>6, <1>7, <2>1, DisjointSets
  <2>3. n("MEDIUM") \in Nat /\ n("SAFE") \in Nat
    BY <1>4 DEF Tiers
  <2> QED
    BY <1>7, <2>2, <2>3
<1> QED
  BY <1>3, <1>6, <1>8 DEF SnapshotDoc, Tiers
-----------------------------------------------------------------------------
(* Sorting *)

\* What a sorted list of a set is: it has every element once.
LEMMA ListingFacts ==
  ASSUME NEW key, IsFiniteSet(DOMAIN key), NEW list \in Listings(key)
  PROVE  /\ list \in Seq(DOMAIN key)
         /\ Len(list) = Cardinality(DOMAIN key)
         /\ Cardinality(DOMAIN key) \in Nat
         /\ \A i, j \in 1..Cardinality(DOMAIN key) :
              /\ i # j => list[i] # list[j]
              /\ i < j => key[list[i]] <= key[list[j]]
         /\ \A x \in DOMAIN key : \E i \in 1..Cardinality(DOMAIN key) : list[i] = x
<1> DEFINE S == DOMAIN key
           n == Cardinality(S)
<1>1. n \in Nat
  BY FS_CardinalityType
<1>2. /\ list \in [1..n -> S] /\ IsInjective(list)
      /\ \A i, j \in DOMAIN list : i < j => key[list[i]] <= key[list[j]]
  BY DEF Listings
<1>3. list \in Seq(S) /\ Len(list) = n
  BY <1>1, <1>2
<1>4. list \in Injection(1..n, S)
  BY <1>2 DEF Injection
<1>5. Cardinality(1..n) = n
  BY <1>1, FS_Interval
<1>6. list \in Surjection(1..n, S)
  BY <1>4, <1>5, FS_Injection
<1> QED
  BY <1>1, <1>2, <1>3, <1>6 DEF IsInjective, Surjection

\* The documents of a cycle can be sorted.
LEMMA DocFacts ==
  ASSUME DataOK, NEW c \in Cycles
  PROVE  /\ IsFiniteSet(DocsOf(c))
         /\ \A d \in DocsOf(c) : d.hf \in Int /\ d.at = c /\ d.risk = RiskLevel(d.hf)
<1>1. IsFiniteSet({PositionDoc(c, taken[c], p) : p \in DOMAIN taken[c].hf})
  BY CountDocs
<1>2. \A p \in DOMAIN taken[c].hf : taken[c].hf[p] \in Int
  BY TakenFacts
<1> QED
  BY <1>1, <1>2 DEF DocsOf, PositionDoc

\* What by_risk sorts: whatever stands at a place may stand there.
LEMMA ByHealthFacts ==
  ASSUME NEW S, IsFiniteSet(S), \A d \in S : d.hf \in Int, NEW list \in ByHealth(S)
  PROVE  /\ list \in Seq(S)
         /\ Len(list) = Cardinality(S) /\ Cardinality(S) \in Nat
         /\ InPlace(list, S)
<1> DEFINE key == [d \in S |-> d.hf]
           n == Cardinality(S)
<1>1. DOMAIN key = S /\ (\A d \in S : key[d] = d.hf) /\ list \in Listings(key)
  BY DEF ByHealth
<1> HIDE DEF key
<1>2. /\ list \in Seq(S) /\ Len(list) = n /\ n \in Nat
      /\ \A i, j \in 1..n : /\ i # j => list[i] # list[j]
                            /\ i < j => key[list[i]] <= key[list[j]]
      /\ \A d \in S : \E i \in 1..n : list[i] = d
  BY <1>1, ListingFacts
<1>3. \A i \in 1..n : list[i] \in S /\ key[list[i]] = list[i].hf
  BY <1>1, <1>2
<1> HIDE DEF n
<1>4. ASSUME NEW i \in 1..n
      PROVE  list[i] \in S /\ Below(S, list[i].hf) < i /\ i <= UpTo(S, list[i].hf)
  <2> DEFINE h == list[i].hf
             low == {d \in S : d.hf < h}
             most == {d \in S : d.hf <= h}
  <2>1. i \in Nat /\ i - 1 \in Nat /\ list[i] \in S /\ h \in Int
    BY <1>2, <1>3
  <2>2. \A j \in 1..n : i < j => h <= list[j].hf
    BY <1>2, <1>3
  <2>3. \A j \in 1..n : j < i => list[j].hf <= h
    BY <1>2, <1>3
  <2>4. low \in SUBSET S /\ most \in SUBSET S
    OBVIOUS
  <2>5. IsFiniteSet(low) /\ IsFiniteSet(most)
    BY <2>4, FS_Subset
  <2>6. Cardinality(low) <= i - 1
    <3> DEFINE place == [d \in low |-> CHOOSE j \in 1..n : list[j] = d]
    <3>1. ASSUME NEW d \in low PROVE place[d] \in 1 .. i - 1 /\ list[place[d]] = d
      <4>1. place[d] \in 1..n /\ list[place[d]] = d
        BY <1>2
      <4>2. d.hf < h /\ d.hf \in Int
        OBVIOUS
      <4> HIDE DEF place, h
      <4>3. place[d] # i /\ ~ (i < place[d])
        BY <2>1, <2>2, <4>1, <4>2 DEF h
      <4> QED
        BY <1>2, <2>1, <4>1, <4>3
    <3>2. place \in Injection(low, 1 .. i - 1)
      <4>1. \A d \in low : place[d] \in 1 .. i - 1
        BY <3>1
      <4>2. \A d, e \in low : place[d] = place[e] => d = e
        BY <3>1
      <4>3. DOMAIN place = low /\ place = [d \in low |-> place[d]]
        OBVIOUS
      <4> HIDE DEF place, low
      <4> QED
        BY <4>1, <4>2, <4>3 DEF Injection, IsInjective
    <3>3. IsFiniteSet(1 .. i - 1) /\ Cardinality(1 .. i - 1) = i - 1
      BY <2>1, FS_Interval
    <3> HIDE DEF place, low
    <3> QED
      BY <2>5, <3>2, <3>3, FS_Injection
  <2>7. i <= Cardinality(most)
    <3> DEFINE part == [j \in 1..i |-> list[j]]
    <3>1. ASSUME NEW j \in 1..i PROVE j \in 1..n /\ list[j] \in most
      <4>1. j \in 1..n
        BY <1>2, <2>1
      <4>2. j = i \/ j < i
        BY <2>1
      <4> QED
        BY <1>3, <2>1, <2>3, <4>1, <4>2
    <3>2. part \in [1..i -> most]
      BY <3>1
    <3>3. \A j, k \in 1..i : part[j] = part[k] => j = k
      BY <1>2, <3>1
    <3> HIDE DEF part, most
    <3>4. part \in Injection(1..i, most)
      BY <3>2, <3>3 DEF Injection, IsInjective
    <3>5. IsFiniteSet(1..i) /\ Cardinality(1..i) = i
      BY <2>1, FS_Interval
    <3> QED
      BY <2>5, <3>4, <3>5, FS_Injection
  <2>8. Cardinality(low) \in Nat
    BY <2>5, FS_CardinalityType
  <2>9. Cardinality(low) < i
    <3> HIDE DEF low
    <3> QED
      BY <2>1, <2>6, <2>8
  <2> QED
    BY <2>1, <2>7, <2>9 DEF Below, UpTo
<1>5. DOMAIN list = 1..n
  BY <1>2
<1> QED
  BY <1>2, <1>4, <1>5 DEF InPlace, n

\* What is cut from a list.
LEMMA SliceFacts ==
  ASSUME NEW S, NEW list \in Seq(S), NEW from \in Nat, NEW to \in Nat, from <= to
  PROVE  LET cut == Slice(list, from, to)
         IN  /\ cut \in Seq(S)
             /\ from <= Len(list) =>
                  /\ from + Len(cut) = IF to <= Len(list) THEN to ELSE Len(list)
                  /\ SubSeq(list, 1, from) \o cut = SubSeq(list, 1, from + Len(cut))
                  /\ \A i \in 1..Len(cut) : cut[i] = list[from + i]
<1> DEFINE m == Min({to, Len(list)})
           cut == SubSeq(list, from + 1, m)
<1>1. Len(list) \in Nat /\ \A i \in 1..Len(list) : list[i] \in S
  OBVIOUS
<1>2. m = IF to <= Len(list) THEN to ELSE Len(list)
  BY <1>1 DEF Min
<1> HIDE DEF m
<1>3. m \in Nat /\ m <= Len(list)
  BY <1>1, <1>2
<1>4. \A i \in from + 1 .. m : list[i] \in S
  BY <1>1, <1>3
<1>5. /\ cut \in Seq(S)
      /\ Len(cut) = IF from + 1 <= m THEN m - (from + 1) + 1 ELSE 0
      /\ \A i \in 1 .. m - (from + 1) + 1 : cut[i] = list[from + 1 + i - 1]
  <2>1. from + 1 \in Int /\ m \in Int
    BY <1>3
  <2> QED
    BY <1>4, <2>1, SubSeqProperties
<1>6. ASSUME from <= Len(list)
      PROVE  /\ from + Len(cut) = m
             /\ SubSeq(list, 1, from) \o cut = SubSeq(list, 1, m)
             /\ \A i \in 1..Len(cut) : cut[i] = list[from + i]
  <2>1. from <= m
    BY <1>1, <1>2, <1>6
  <2>2. from + Len(cut) = m /\ \A i \in 1..Len(cut) : cut[i] = list[from + i]
    BY <1>3, <1>5, <2>1
  <2>3. 1 \in 1 .. Len(list) + 1 /\ from \in 1 - 1 .. Len(list) /\ m \in from .. Len(list)
    BY <1>1, <1>3, <1>6, <2>1
  <2>4. SubSeq(list, 1, from) \o cut = SubSeq(list, 1, m)
    BY <2>3, ConcatAdjacentSubSeq
  <2> QED
    BY <2>2, <2>4
<1> QED
  BY <1>2, <1>5, <1>6 DEF Slice, m
-----------------------------------------------------------------------------
(* Places in a sorted list *)

\* Counting by health factor.
LEMMA CountFacts ==
  ASSUME NEW S, IsFiniteSet(S), \A d \in S : d.hf \in Int, NEW h \in Int
  PROVE  /\ Below(S, h) \in Nat /\ UpTo(S, h) \in Nat
         /\ UpTo(S, h) <= Cardinality(S)
         /\ UpTo(S, h) = Below(S, h) + Cardinality({d \in S : d.hf = h})
         /\ Cardinality({d \in S : d.hf = h}) \in Nat
         /\ \A g \in Int : h < g => UpTo(S, h) <= Below(S, g)
<1> DEFINE low == {d \in S : d.hf < h}
           same == {d \in S : d.hf = h}
           most == {d \in S : d.hf <= h}
<1>1. low \in SUBSET S /\ same \in SUBSET S /\ most \in SUBSET S
  OBVIOUS
<1>2. IsFiniteSet(low) /\ IsFiniteSet(same) /\ Cardinality(most) <= Cardinality(S)
  BY <1>1, FS_Subset
<1>3. most = low \cup same /\ low \cap same = {}
  OBVIOUS
<1>4. /\ Cardinality(most) = Cardinality(low) + Cardinality(same)
      /\ Cardinality(low) \in Nat /\ Cardinality(same) \in Nat
  BY <1>2, <1>3, DisjointSets
<1>5. ASSUME NEW g \in Int, h < g PROVE UpTo(S, h) <= Below(S, g)
  <2> DEFINE under == {d \in S : d.hf < g}
  <2>1. under \in SUBSET S
    OBVIOUS
  <2>2. IsFiniteSet(under)
    BY <2>1, FS_Subset
  <2>3. most \in SUBSET under
    BY <1>5
  <2>4. Cardinality(most) <= Cardinality(under)
    BY <2>2, <2>3, FS_Subset
  <2> QED
    BY <2>4 DEF UpTo, Below
<1> HIDE DEF low, same, most
<1>6. Cardinality(most) \in Nat
  BY <1>4
<1>7. Below(S, h) = Cardinality(low) /\ UpTo(S, h) = Cardinality(most)
  BY DEF Below, UpTo, low, most
<1> QED
  BY <1>2, <1>4, <1>5, <1>6, <1>7 DEF same

\* A list whose elements are in their places is sorted, and when it is as long as
\* the set it has as many of each health factor.
LEMMA InPlaceFacts ==
  ASSUME NEW S, IsFiniteSet(S), \A d \in S : d.hf \in Int,
         NEW T, NEW list \in Seq(T), InPlace(list, S)
  PROVE  /\ \A i, j \in DOMAIN list : i < j => list[i].hf <= list[j].hf
         /\ Len(list) = Cardinality(S) =>
              \A d \in S : Cardinality({i \in DOMAIN list : list[i].hf = d.hf})
                            = Cardinality({e \in S : e.hf = d.hf})
<1> DEFINE n == Len(list)
           hf(i) == list[i].hf
<1>1. n \in Nat /\ DOMAIN list = 1..n
  OBVIOUS
<1>2. \A i \in 1..n : hf(i) \in Int /\ Below(S, hf(i)) < i /\ i <= UpTo(S, hf(i))
  BY <1>1 DEF InPlace
<1>3. \A h \in Int : /\ Below(S, h) \in Nat /\ UpTo(S, h) \in Nat
                     /\ UpTo(S, h) <= Cardinality(S)
                     /\ UpTo(S, h) = Below(S, h) + Cardinality({d \in S : d.hf = h})
                     /\ Cardinality({d \in S : d.hf = h}) \in Nat
  BY CountFacts
<1>4. \A h, g \in Int : h < g => UpTo(S, h) <= Below(S, g)
  BY CountFacts
<1> HIDE DEF n, hf
<1>5. ASSUME NEW i \in 1..n, NEW j \in 1..n, i < j PROVE hf(i) <= hf(j)
  <2>1. hf(j) < hf(i) => UpTo(S, hf(j)) <= Below(S, hf(i))
    BY <1>2, <1>4
  <2>2. /\ Below(S, hf(i)) < i /\ j <= UpTo(S, hf(j)) /\ hf(i) \in Int /\ hf(j) \in Int
        /\ Below(S, hf(i)) \in Nat /\ UpTo(S, hf(j)) \in Nat
    BY <1>2, <1>3
  <2> QED
    BY <1>1, <1>5, <2>1, <2>2
<1>6. ASSUME n = Cardinality(S), NEW d \in S
      PROVE  Cardinality({i \in 1..n : hf(i) = d.hf}) = Cardinality({e \in S : e.hf = d.hf})
  <2> DEFINE h == d.hf
             low == Below(S, h)
             most == UpTo(S, h)
  <2>1. h \in Int
    OBVIOUS
  <2>2. /\ low \in Nat /\ most \in Nat /\ most <= n
        /\ most = low + Cardinality({e \in S : e.hf = h})
        /\ Cardinality({e \in S : e.hf = h}) \in Nat
    BY <1>3, <1>6, <2>1
  <2>3. ASSUME NEW i \in 1..n, hf(i) = h PROVE i \in low + 1 .. most
    BY <1>1, <1>2, <2>2, <2>3
  <2>4. ASSUME NEW i \in low + 1 .. most PROVE i \in 1..n /\ hf(i) = h
    <3>1. i \in 1..n /\ i \in Nat /\ low < i /\ i <= most
      BY <1>1, <2>2
    <3>2. /\ hf(i) \in Int /\ Below(S, hf(i)) < i /\ i <= UpTo(S, hf(i))
          /\ Below(S, hf(i)) \in Nat /\ UpTo(S, hf(i)) \in Nat
      BY <1>2, <1>3, <3>1
    <3>3. /\ hf(i) < h => UpTo(S, hf(i)) <= low
          /\ h < hf(i) => most <= Below(S, hf(i))
      BY <1>4, <2>1, <3>2
    <3> HIDE DEF low, most, h
    <3> QED
      BY <2>1, <2>2, <3>1, <3>2, <3>3
  <2>5. {i \in 1..n : hf(i) = h} = low + 1 .. most
    BY <2>3, <2>4
  <2> HIDE DEF low, most, h
  <2>6. Cardinality(low + 1 .. most) = IF low + 1 > most THEN 0 ELSE most - (low + 1) + 1
    <3>1. low + 1 \in Int /\ most \in Int
      BY <2>2
    <3> QED
      BY <3>1, FS_Interval
  <2>7. Cardinality(low + 1 .. most) = Cardinality({e \in S : e.hf = h})
    BY <2>2, <2>6
  <2> QED
    BY <2>5, <2>7 DEF h
<1> QED
  BY <1>1, <1>5, <1>6 DEF n, hf

\* A page that follows on a list continues it.
LEMMA InPlaceConcat ==
  ASSUME NEW S, NEW T, NEW list \in Seq(T), NEW page \in Seq(T), InPlace(list, S),
         \A i \in 1..Len(page) : /\ page[i] \in S
                                 /\ Below(S, page[i].hf) < Len(list) + i
                                 /\ Len(list) + i <= UpTo(S, page[i].hf)
  PROVE  InPlace(list \o page, S)
<1> DEFINE k == Len(list)
           both == list \o page
<1>1. /\ k \in Nat /\ Len(page) \in Nat /\ DOMAIN list = 1..k
      /\ both \in Seq(T) /\ Len(both) = k + Len(page)
      /\ \A i \in 1 .. k + Len(page) : both[i] = IF i <= k THEN list[i] ELSE page[i - k]
  BY ConcatProperties
<1> HIDE DEF k, both
<1>2. ASSUME NEW i \in 1 .. k + Len(page)
      PROVE  both[i] \in S /\ Below(S, both[i].hf) < i /\ i <= UpTo(S, both[i].hf)
  <2>1. CASE i <= k
    BY <1>1, <2>1 DEF InPlace
  <2>2. CASE ~ (i <= k)
    <3>1. i - k \in 1..Len(page) /\ k + (i - k) = i /\ both[i] = page[i - k]
      BY <1>1, <2>2
    <3> QED
      BY <3>1 DEF k
  <2> QED
    BY <2>1, <2>2
<1>3. DOMAIN both = 1 .. k + Len(page)
  BY <1>1
<1> QED
  BY <1>2, <1>3 DEF InPlace, both

\* What stands on a page.
LEMMA PageFacts ==
  ASSUME NEW S, IsFiniteSet(S), \A d \in S : d.hf \in Int,
         NEW list \in ByHealth(S), NEW skip \in Nat
  PROVE  LET page == Page(list, skip)
             n == Cardinality(S)
         IN  /\ page \in Seq(S) /\ n \in Nat
             /\ skip <= n =>
                  /\ skip + Len(page) <= n
                  /\ ~ (skip + Len(page) < n) => skip + Len(page) = n
                  /\ \A i \in 1..Len(page) : /\ page[i] \in S
                                             /\ Below(S, page[i].hf) < skip + i
                                             /\ skip + i <= UpTo(S, page[i].hf)
<1> DEFINE page == Page(list, skip)
           n == Cardinality(S)
           to == skip + PageSize
<1>1. /\ list \in Seq(S) /\ Len(list) = n /\ n \in Nat
      /\ \A i \in 1..n : list[i] \in S /\ Below(S, list[i].hf) < i /\ i <= UpTo(S, list[i].hf)
  BY ByHealthFacts DEF InPlace
<1>2. to \in Nat /\ skip <= to
  BY LimitsAssumption
<1>3. page = Slice(list, skip, to)
  BY DEF Page
<1> HIDE DEF page, n, to
<1>4. /\ page \in Seq(S)
      /\ skip <= n => /\ skip + Len(page) = IF to <= n THEN to ELSE n
                     /\ \A i \in 1..Len(page) : page[i] = list[skip + i]
  BY <1>1, <1>2, <1>3, SliceFacts
<1>5. Len(page) \in Nat
  BY <1>4
<1>6. ASSUME skip <= n, NEW i \in 1..Len(page)
      PROVE  /\ page[i] \in S
             /\ Below(S, page[i].hf) < skip + i /\ skip + i <= UpTo(S, page[i].hf)
  <2>1. skip + i \in 1..n
    BY <1>1, <1>2, <1>4, <1>5, <1>6
  <2> QED
    BY <1>1, <1>4, <1>6, <2>1
<1> QED
  BY <1>1, <1>2, <1>4, <1>5, <1>6 DEF page, n
-----------------------------------------------------------------------------
(* What the client holds *)

\* The positions that a page is cut from.
Filtered(snap, risk) == {d \in Hydrated(snap) : risk \in {"any", RiskLevel(d.hf)}}

LEMMA FilteredFacts ==
  ASSUME DataOK, ClientOK, Complete, asked # None
  PROVE  LET at == asked.snap.at
             S == Filtered(asked.snap, asked.query.risk)
         IN  /\ at \in Cycles
             /\ S \subseteq DocsOf(at) /\ S \subseteq docs
             /\ IsFiniteSet(S) /\ \A d \in S : d.hf \in Int
             /\ at \in saved => S = {d \in DocsOf(at) : asked.query.risk \in {"any", d.risk}}
<1> DEFINE at == asked.snap.at
           S == Filtered(asked.snap, asked.query.risk)
<1>1. at \in Cycles
  BY SnapFacts DEF ClientOK
<1>2. /\ Hydrated(asked.snap) \subseteq DocsOf(at) /\ Hydrated(asked.snap) \subseteq docs
      /\ at \in saved => Hydrated(asked.snap) = DocsOf(at)
  BY <1>1, Found DEF Hydrated
<1>3. S \subseteq DocsOf(at) /\ S \subseteq docs
  BY <1>2 DEF Filtered
<1>4. IsFiniteSet(S) /\ \A d \in S : d.hf \in Int
  BY <1>1, <1>3, DocFacts, FS_Subset
<1>5. at \in saved => S = {d \in DocsOf(at) : asked.query.risk \in {"any", d.risk}}
  BY <1>1, <1>2, DocFacts DEF Filtered
<1> QED
  BY <1>1, <1>3, <1>4, <1>5

\* What a page answer is made of.
LEMMA PageAnswer ==
  ASSUME AnswerPage
  PROVE  LET S == Filtered(asked.snap, asked.query.risk)
         IN  \E list \in ByHealth(S) :
               /\ reply'.items = Page(list, asked.query.skip)
               /\ reply'.more <=> asked.query.skip + Len(reply'.items) < Cardinality(S)
<1> DEFINE q == asked.query
           S == {d \in Hydrated(asked.snap) : q.risk \in {"any", RiskLevel(d.hf)}}
<1>1. PICK list \in ByHealth(S) :
        reply' = [kind |-> "page", at |-> asked.snap.at, block |-> asked.snap.block,
                  risk |-> q.risk, items |-> Page(list, q.skip),
                  more |-> q.skip + Len(Page(list, q.skip)) < Cardinality(S),
                  totals |-> Totals(Hydrated(asked.snap))]
  BY DEF AnswerPage
<1>2. /\ reply'.items = Page(list, q.skip)
      /\ reply'.more = (q.skip + Len(Page(list, q.skip)) < Cardinality(S))
  BY <1>1
<1> QED
  BY <1>2 DEF Filtered

LEMMA ShownStep ==
  DataOK /\ ClientOK /\ Complete /\ Shown /\ Paging /\ [Next]_vars => Shown'
<1> SUFFICES ASSUME DataOK, ClientOK, Complete, Shown, Paging, [Next]_vars
             PROVE  Shown'
  OBVIOUS
<1>1. ASSUME reply' = reply, source' = source PROVE Shown'
  <2>1. ASSUME reply # None
        PROVE  DocsOf(source.snap.at)' = DocsOf(source.snap.at) /\ docs \subseteq docs'
    <3>1. source.snap.at \in Cycles
      BY <2>1, SnapFacts DEF ClientOK
    <3> QED
      BY <1>1, <3>1, Grows
  <2> QED
    BY <1>1, <2>1 DEF Shown, Items
<1>2. CASE Answer
  <2>1. /\ asked # None /\ UNCHANGED <<taken, docs>> /\ asked.snap \in snaps
        /\ source' = asked /\ reply'.kind \in {"latest", "atRisk", "page"}
        /\ reply'.kind # "atRisk" => /\ reply'.at = asked.snap.at
                                    /\ reply'.block = asked.snap.block
    BY <1>2, Replies DEF ClientOK
  <2>2. \A c : DocsOf(c)' = DocsOf(c)
    BY <2>1, DocsStay
  <2>3. /\ Hydrated(asked.snap) \subseteq DocsOf(asked.snap.at)
        /\ Hydrated(asked.snap) \subseteq docs
    <3>1. asked.snap.at \in Cycles
      BY <2>1, SnapFacts
    <3> QED
      BY <3>1, Found DEF Hydrated
  <2>4. CASE AnswerLatest
    BY <2>1, <2>2, <2>3, <2>4 DEF AnswerLatest, Shown, Items
  <2>5. CASE AnswerAtRisk
    BY <2>1, <2>2, <2>3, <2>5 DEF AnswerAtRisk, Shown, Items
  <2>6. CASE AnswerPage
    <3> DEFINE S == Filtered(asked.snap, asked.query.risk)
    <3>1. /\ S \subseteq DocsOf(asked.snap.at) /\ S \subseteq docs
          /\ IsFiniteSet(S) /\ \A d \in S : d.hf \in Int
      BY <2>1, FilteredFacts
    <3>2. reply'.kind = "page" /\ asked.query.skip \in Nat
      BY <2>1, <2>6 DEF AnswerPage, Paging
    <3>3. PICK list \in ByHealth(S) : reply'.items = Page(list, asked.query.skip)
      BY <2>6, PageAnswer
    <3>4. reply'.items \in Seq(S)
      BY <3>1, <3>2, <3>3, PageFacts
    <3> HIDE DEF S
    <3>5. /\ reply'.items \in Seq(DocsOf(asked.snap.at))
          /\ ToSet(reply'.items) \subseteq S
      BY <3>1, <3>4 DEF ToSet
    <3>6. Items' = ToSet(reply'.items)
      BY <3>2 DEF Items
    <3> QED
      BY <2>1, <2>2, <3>1, <3>2, <3>5, <3>6 DEF Shown
  <2> QED
    BY <1>2, <2>4, <2>5, <2>6 DEF Answer
<1>3. ASSUME NEW query, Ask(query) PROVE Shown'
  BY <1>1, <1>3 DEF Ask
<1>4. ASSUME NEW ps \in Feeds, AskSeries(ps) PROVE Shown'
  BY <1>1, <1>4 DEF AskSeries
<1>5. CASE UNCHANGED clientVars
  BY <1>1, <1>5 DEF clientVars
<1> QED
  BY <1>2, <1>3, <1>4, <1>5, Requests

LEMMA PagingStep == Filled /\ Paging /\ Holding /\ [Next]_vars => Paging'
<1> SUFFICES ASSUME Filled, Paging, Holding, [Next]_vars PROVE Paging'
  OBVIOUS
<1>1. CASE UNCHANGED clientVars
  BY <1>1 DEF Paging, clientVars
<1>2. ASSUME NEW query, Ask(query), Sensible(query) PROVE Paging'
  <2>1. /\ asked'.query = query /\ series' = None
        /\ reply' = reply /\ source' = source /\ held' = held
    BY <1>2 DEF Ask
  <2>2. held # None => Len(held.items) \in Nat /\ reply.risk = source.query.risk
    BY DEF Holding, Filled
  <2> QED
    BY <1>2, <2>1, <2>2 DEF Paging, Sensible
<1>3. CASE Answer
  BY <1>3 DEF Answer, Paging
<1>4. ASSUME NEW ps \in Feeds, AskSeries(ps) PROVE Paging'
  BY <1>4 DEF AskSeries, Paging
<1> QED
  BY <1>1, <1>2, <1>3, <1>4, Requests

LEMMA HoldingStep ==
  DataOK /\ ClientOK /\ Complete /\ Asking /\ Filled /\ Paging /\ Holding /\ [Next]_vars
    => Holding'
<1> SUFFICES ASSUME DataOK, ClientOK, Complete, Asking, Filled, Paging, Holding, [Next]_vars
             PROVE  Holding'
  OBVIOUS
<1>1. ASSUME reply' = reply, source' = source, held' = held PROVE Holding'
  <2>1. ASSUME held # None
        PROVE  /\ DocsOf(source.snap.at)' = DocsOf(source.snap.at)
               /\ docs \subseteq docs' /\ saved \subseteq saved'
    <3>1. source.snap.at \in Cycles
      BY <2>1, SnapFacts DEF ClientOK, Holding
    <3> QED
      BY <1>1, <3>1, Grows
  <2>2. held # None => Wanted' = Wanted
    BY <1>1, <2>1 DEF Wanted
  <2>3. \A list, S : InPlace(list, S)' = InPlace(list, S)
    BY DEF InPlace, Below, UpTo
  <2> QED
    BY <1>1, <2>1, <2>2, <2>3 DEF Holding
<1>2. CASE Answer
  <2> DEFINE k == asked.query.skip
             at == asked.snap.at
             S == Filtered(asked.snap, asked.query.risk)
             page == reply'.items
             n == Cardinality(S)
  <2>1. /\ asked # None /\ UNCHANGED <<taken, docs, saved>>
        /\ source' = asked /\ reply'.kind = asked.query.kind /\ TurnPage
    BY <1>2, Replies
  <2>2. CASE asked.query.kind # "page"
    BY <2>1, <2>2 DEF TurnPage, Holding
  <2>3. ASSUME asked.query.kind = "page", held' # None PROVE Holding'
    <3>1. AnswerPage /\ reply' # None /\ reply'.kind = "page" /\ reply'.at = at
      BY <1>2, <2>1, <2>3, Replies DEF None
    <3>2. /\ at \in Cycles
          /\ S \subseteq DocsOf(at) /\ S \subseteq docs
          /\ IsFiniteSet(S) /\ (\A d \in S : d.hf \in Int)
          /\ at \in saved => S = {d \in DocsOf(at) : asked.query.risk \in {"any", d.risk}}
      BY <2>1, FilteredFacts
    <3>3. k \in Nat
      BY <2>1, <2>3 DEF Paging
    <3>4. PICK list \in ByHealth(S) : /\ page = Page(list, k)
                                      /\ reply'.more <=> k + Len(page) < n
      BY <3>1, PageAnswer
    <3>5. \A c : DocsOf(c)' = DocsOf(c)
      BY <2>1, DocsStay
    <3>6. at \in saved => Wanted' = S
      BY <2>1, <2>3, <3>2, <3>5 DEF Wanted
    <3> HIDE DEF S, n
    <3>7. /\ page \in Seq(S) /\ n \in Nat
          /\ k <= n =>
               /\ k + Len(page) <= n
               /\ ~ (k + Len(page) < n) => k + Len(page) = n
               /\ \A i \in 1..Len(page) : /\ page[i] \in S
                                          /\ Below(S, page[i].hf) < k + i
                                          /\ k + i <= UpTo(S, page[i].hf)
      <4>1. /\ Page(list, k) \in Seq(S) /\ Cardinality(S) \in Nat
            /\ k <= Cardinality(S) =>
                 /\ k + Len(Page(list, k)) <= Cardinality(S)
                 /\ ~ (k + Len(Page(list, k)) < Cardinality(S)) =>
                      k + Len(Page(list, k)) = Cardinality(S)
                 /\ \A i \in 1..Len(Page(list, k)) :
                      /\ Page(list, k)[i] \in S
                      /\ Below(S, Page(list, k)[i].hf) < k + i
                      /\ k + i <= UpTo(S, Page(list, k)[i].hf)
        BY <3>2, <3>3, PageFacts
      <4> QED
        BY <3>4, <4>1 DEF n
    <3> HIDE DEF page
    <3>8. Len(page) \in Nat /\ page \in Seq(DocsOf(at)) /\ ToSet(page) \subseteq docs
      BY <3>2, <3>7 DEF ToSet
    <3>9. ASSUME NEW whole, NEW items \in Seq(DocsOf(at)), ToSet(items) \subseteq docs,
                 held' = [at |-> at, whole |-> whole, items |-> items],
                 whole => /\ at \in saved /\ InPlace(items, S)
                          /\ Len(items) = k + Len(page) /\ k <= n
          PROVE  Holding'
      <4>1. /\ held'.at = at /\ held'.whole = whole /\ held'.items = items
            /\ source'.snap.at = at /\ docs' = docs /\ saved' = saved
        BY <2>1, <3>9
      <4>2. ASSUME whole
            PROVE  /\ at \in saved /\ InPlace(items, Wanted')
                   /\ Len(items) <= Cardinality(Wanted')
                   /\ ~ reply'.more => Len(items) = Cardinality(Wanted')
        <5>1. Wanted' = S /\ at \in saved /\ Cardinality(Wanted') = n
          BY <3>6, <3>9, <4>2 DEF n
        <5> QED
          BY <3>3, <3>4, <3>7, <3>8, <3>9, <4>2, <5>1
      <4>3. \A l, T : InPlace(l, T)' = InPlace(l, T)
        BY DEF InPlace, Below, UpTo
      <4> QED
        BY <3>1, <3>5, <3>9, <4>1, <4>2, <4>3 DEF Holding
    <3>10. CASE k = 0
      <4>1. held' = [at |-> at, whole |-> asked.whole, items |-> page]
        BY <2>1, <2>3, <3>1, <3>10 DEF TurnPage, page
      <4>2. \A i \in 1..Len(page) : page[i] \in S /\ Below(S, page[i].hf) < i
                                                 /\ i <= UpTo(S, page[i].hf)
        BY <3>7, <3>8, <3>10
      <4>3. InPlace(page, S)
        BY <3>8, <4>2 DEF InPlace
      <4>4. k <= n /\ Len(page) = k + Len(page)
        BY <3>7, <3>8, <3>10
      <4>5. asked.whole => at \in saved
        BY <2>1 DEF Asking
      <4> QED
        BY <3>8, <3>9, <4>1, <4>3, <4>4, <4>5
    <3>11. CASE k > 0
      <4> DEFINE old == held.items
      <4>1. /\ held # None /\ k = Len(old) /\ asked.query.risk = source.query.risk
        BY <2>1, <2>3, <3>11 DEF Paging
      <4>2. held.at = at /\ held' = [held EXCEPT !.items = old \o page]
        <5>1. held' = IF held.at = reply'.at
                        THEN [held EXCEPT !.items = held.items \o reply'.items] ELSE None
          <6>1. ~ (asked.query.skip = 0) /\ asked.query.kind = "page"
            BY <2>3, <3>3, <3>11
          <6> QED
            BY <2>1, <6>1 DEF TurnPage
        <5> QED
          BY <2>3, <3>1, <5>1 DEF page
      <4>3. /\ reply.kind = "page" /\ held.at = source.snap.at /\ reply # None
            /\ old \in Seq(DocsOf(at)) /\ ToSet(old) \subseteq docs
            /\ held.whole => /\ at \in saved /\ InPlace(old, Wanted)
                             /\ Len(old) <= Cardinality(Wanted)
        BY <4>1, <4>2 DEF Holding
      <4>4. held.whole => Wanted = S
        BY <2>3, <3>2, <4>1, <4>2, <4>3 DEF Wanted, Filled
      <4> HIDE DEF old
      <4>5. /\ old \o page \in Seq(DocsOf(at))
            /\ Len(old \o page) = k + Len(page)
            /\ \A i \in 1 .. k + Len(page) :
                 (old \o page)[i] = IF i <= k THEN old[i] ELSE page[i - k]
        BY <3>8, <4>1, <4>3, ConcatProperties
      <4>6. ToSet(old \o page) \subseteq docs
        <5>1. \A i \in 1..k : old[i] \in docs
          BY <3>3, <4>1, <4>3 DEF ToSet
        <5>2. \A i \in 1..Len(page) : page[i] \in docs
          BY <3>8 DEF ToSet
        <5>3. \A i \in 1 .. k + Len(page) : i > k => i - k \in 1..Len(page)
          BY <3>3, <3>8
        <5>4. \A i \in 1 .. k + Len(page) : (old \o page)[i] \in docs
          BY <3>3, <3>8, <4>5, <5>1, <5>2, <5>3
        <5>5. DOMAIN (old \o page) = 1 .. k + Len(page)
          BY <4>5
        <5> QED
          BY <5>4, <5>5 DEF ToSet
      <4>7. ASSUME held.whole
            PROVE  at \in saved /\ InPlace(old \o page, S) /\ k <= n
        <5>1. Wanted = S /\ InPlace(old, S) /\ at \in saved /\ k <= n
          BY <4>1, <4>3, <4>4, <4>7 DEF n
        <5>2. InPlace(old \o page, S)
          BY <3>7, <3>8, <4>1, <4>3, <5>1, InPlaceConcat
        <5> QED
          BY <5>1, <5>2
      <4>8. held' = [at |-> at, whole |-> held.whole, items |-> old \o page]
        BY <4>2, <4>1 DEF Holding
      <4> QED
        BY <3>9, <4>5, <4>6, <4>7, <4>8
    <3> QED
      BY <3>3, <3>10, <3>11
  <2>4. held' = None => Holding'
    BY DEF Holding, None
  <2> QED
    BY <2>2, <2>3, <2>4
<1>3. ASSUME NEW query, Ask(query) PROVE Holding'
  BY <1>1, <1>3 DEF Ask
<1>4. ASSUME NEW ps \in Feeds, AskSeries(ps) PROVE Holding'
  BY <1>1, <1>4 DEF AskSeries
<1>5. CASE UNCHANGED clientVars
  BY <1>1, <1>5 DEF clientVars
<1> QED
  BY <1>2, <1>3, <1>4, <1>5, Requests

\* The newest records of some positions: one that was left out is not newer than
\* any that is shown, and the list is full.
LEMMA SeriesFacts ==
  ASSUME DataOK, NEW ps, NEW items \in Series(ps), NEW d \in docs, d.pos \in ps
  PROVE  \/ d \in ToSet(items)
         \/ /\ Len(items) = SeriesLimit
            /\ \A i \in DOMAIN items : items[i].at >= d.at
<1> DEFINE S == {e \in docs : e.pos \in ps}
           key == [e \in S |-> - e.at]
           limit == SeriesLimit
<1>0. PICK list \in Listings(key) : items = Slice(list, 0, limit)
  BY DEF Series
<1> DEFINE cut == Slice(list, 0, limit)
<1>1. limit \in Nat /\ 0 <= limit
  BY LimitsAssumption
<1>2. \A e \in docs : e.at \in Int
  BY DocFacts DEF DataOK, Cycles
<1>3. IsFiniteSet(S)
  <2>1. IsFiniteSet(Cycles)
    BY LenProperties, FS_Interval DEF DataOK, Cycles, Cycle
  <2>2. \A c \in Cycles : IsFiniteSet(DocsOf(c))
    BY DocFacts
  <2>3. IsFiniteSet({DocsOf(c) : c \in Cycles})
    <3> DEFINE T == {DocsOf(c) : c \in Cycles}
               f == [c \in Cycles |-> DocsOf(c)]
    <3>1. f \in Surjection(Cycles, T)
      BY DEF Surjection
    <3> HIDE DEF f, T
    <3>2. IsFiniteSet(T)
      BY <2>1, <3>1, FS_Surjection
    <3> QED
      BY <3>2 DEF T
  <2>4. IsFiniteSet(UNION {DocsOf(c) : c \in Cycles})
    BY <2>2, <2>3, FS_UNION
  <2>5. S \in SUBSET UNION {DocsOf(c) : c \in Cycles}
    BY DEF DataOK
  <2> QED
    BY <2>4, <2>5, FS_Subset
<1>4. /\ DOMAIN key = S /\ d \in S /\ d.at \in Int
      /\ \A e \in S : key[e] \in Int /\ key[e] = - e.at /\ e.at \in Int
  BY <1>2
<1> HIDE DEF key, S
<1>5. /\ list \in Seq(S) /\ Len(list) = Cardinality(S) /\ Cardinality(S) \in Nat
      /\ \A i, j \in 1..Cardinality(S) : i < j => key[list[i]] <= key[list[j]]
      /\ \E i \in 1..Cardinality(S) : list[i] = d
  BY <1>3, <1>4, ListingFacts
<1> HIDE DEF limit
<1>6. /\ cut \in Seq(S)
      /\ Len(cut) = IF limit <= Len(list) THEN limit ELSE Len(list)
      /\ \A i \in 1..Len(cut) : cut[i] = list[i]
  <2>1. /\ cut \in Seq(S)
        /\ 0 <= Len(list) =>
             /\ 0 + Len(cut) = IF limit <= Len(list) THEN limit ELSE Len(list)
             /\ \A i \in 1..Len(cut) : cut[i] = list[0 + i]
    BY <1>1, <1>5, SliceFacts
  <2> HIDE DEF cut
  <2>2. Len(cut) \in Nat /\ Len(list) \in Nat
    BY <1>5, <2>1
  <2> QED
    BY <2>1, <2>2
<1>7. items = cut
  BY <1>0 DEF cut
<1> HIDE DEF cut
<1>8. PICK k \in 1..Len(list) : list[k] = d
  BY <1>5
<1>9. DOMAIN cut = 1..Len(cut)
  BY <1>6
<1>10. CASE k <= Len(cut)
  <2>1. k \in 1..Len(cut) /\ cut[k] = d
    BY <1>5, <1>6, <1>8, <1>10
  <2> QED
    BY <1>7, <1>9, <2>1 DEF ToSet
<1>11. CASE ~ (k <= Len(cut))
  <2>1. Len(cut) = limit /\ limit < k
    BY <1>1, <1>5, <1>6, <1>8, <1>11
  <2>2. ASSUME NEW i \in 1..Len(cut) PROVE cut[i].at >= d.at
    <3>1. i \in 1..Len(list) /\ i < k /\ cut[i] = list[i]
      BY <1>1, <1>5, <1>6, <1>8, <2>1
    <3>2. key[list[i]] <= key[d] /\ list[i] \in S
      BY <1>5, <1>8, <3>1
    <3> QED
      BY <1>4, <3>1, <3>2
  <2> QED
    BY <1>7, <1>9, <2>1, <2>2 DEF limit
<1> QED
  BY <1>10, <1>11

LEMMA SeenStep ==
  DataOK /\ Shown /\ Paging /\ SeenStaysVisible /\ [Next]_vars => SeenStaysVisible'
<1> SUFFICES ASSUME DataOK, Shown, Paging, SeenStaysVisible, [Next]_vars
             PROVE  SeenStaysVisible'
  OBVIOUS
<1>1. CASE UNCHANGED clientVars
  BY <1>1 DEF SeenStaysVisible, Items, clientVars
<1>2. ASSUME NEW query, Ask(query) PROVE SeenStaysVisible'
  BY <1>2 DEF Ask, SeenStaysVisible
<1>3. CASE Answer
  BY <1>3, Replies DEF Paging, SeenStaysVisible
<1>4. ASSUME NEW ps \in Feeds, AskSeries(ps) PROVE SeenStaysVisible'
  <2>1. PICK items \in Series(ps) : series' = [kind |-> "series", of |-> ps, items |-> items]
    BY <1>4 DEF AskSeries
  <2>2. reply' = reply /\ series'.of = ps /\ series'.items = items
    BY <1>4, <2>1 DEF AskSeries
  <2>3. reply # None => Items \subseteq docs
    BY DEF Shown
  <2>4. Items' = Items
    BY <2>2 DEF Items
  <2> QED
    BY <2>2, <2>3, <2>4, SeriesFacts DEF SeenStaysVisible
<1> QED
  BY <1>1, <1>2, <1>3, <1>4, Requests
-----------------------------------------------------------------------------
(* The theorems *)

Inductive ==
  /\ DataOK /\ ClientOK /\ Complete /\ Asking /\ Filled
  /\ Shown /\ Paging /\ Holding /\ SeenStaysVisible

LEMMA Initially == Init => Inductive
<1> SUFFICES ASSUME Init PROVE Inductive
  OBVIOUS
<1> USE DEF Init
<1>1. taken = <<>> /\ Len(taken) = 0 /\ taken \in Seq([block : Blocks, hf : Readings])
  OBVIOUS
<1>2. DataOK
  BY <1>1, PositionsAssumption DEF DataOK, Cycle
<1> QED
  BY <1>2 DEF Inductive, ClientOK, Complete, Asking, Filled,
     Shown, Paging, Holding, SeenStaysVisible

LEMMA InductiveInvariant == Spec => []Inductive
<1>1. Inductive /\ [Next]_vars => Inductive'
  BY DataStep, ClientStep, CompleteStep, AskingStep, FilledStep, ShownStep, PagingStep,
     HoldingStep, SeenStep
  DEF Inductive
<1> QED
  BY <1>1, Initially, PTL DEF Spec

\* Every variable keeps its type; the collections hold nothing but documents of
\* snapshots that were taken (_snapshot_to_doc, _position_to_doc).
THEOREM TypeCorrect == Spec => []TypeOK
<1>1. Inductive => TypeOK
  BY TypeParts DEF Inductive
<1> QED
  BY <1>1, InductiveInvariant, PTL

\* The two queries of get_latest_snapshot and get_current_at_risk together leave
\* out no position of a snapshot whose save_snapshot had returned.
THEOREM SavedIsAnswered == Spec => []SavedIsHydrated
<1>1. Inductive => SavedIsHydrated
  BY DEF Inductive, Filled, SavedIsHydrated, None
<1> QED
  BY <1>1, InductiveInvariant, PTL

\* The totals of by_risk add up to the counts that _snapshot_to_doc has put in
\* the summary.
THEOREM TotalsAgree == Spec => []TotalsMatchSummary
<1>1. Inductive => TotalsMatchSummary
  <2> SUFFICES ASSUME Inductive, reply.kind = "page", source.whole,
                      NEW s \in snaps, s.at = reply.at
               PROVE  /\ s.critical = reply.totals["CRITICAL"]
                      /\ s.atRisk = reply.totals["CRITICAL"] + reply.totals["HIGH"]
                      /\ s.total = s.atRisk + reply.totals["MEDIUM"] + reply.totals["SAFE"]
    BY DEF TotalsMatchSummary
  <2>1. reply.at \in Cycles /\ reply.totals = Totals(DocsOf(reply.at))
    BY SnapFacts DEF Inductive, ClientOK, Filled, Shown, None
  <2>2. s = SnapshotDoc(reply.at, taken[reply.at])
    BY SnapFacts DEF Inductive
  <2> QED
    BY <2>1, <2>2, SummaryTotals DEF Inductive
<1> QED
  BY <1>1, InductiveInvariant, PTL

\* The two queries of a route meet in one cycle: every position of an answer is of
\* it, and block and capture time where the answer has them, although cycles share
\* blocks and the writer takes steps between the queries.
THEOREM OneCyclePerAnswer == Spec => []AnswerIsOneCycle
<1>1. Inductive => AnswerIsOneCycle
  <2> SUFFICES ASSUME Inductive, reply # None
               PROVE  \E c \in Cycles :
                        /\ Items \subseteq DocsOf(c)
                        /\ reply.kind # "atRisk" => reply.at = c /\ reply.block = taken[c].block
    BY DEF AnswerIsOneCycle, Cycles
  <2>1. source.snap \in snaps /\ DataOK
    BY DEF Inductive, ClientOK
  <2>2. /\ source.snap.at \in Cycles
        /\ source.snap = SnapshotDoc(source.snap.at, taken[source.snap.at])
    BY <2>1, SnapFacts
  <2>3. SnapshotDoc(source.snap.at, taken[source.snap.at]).block = taken[source.snap.at].block
    BY DEF SnapshotDoc
  <2> QED
    BY <2>2, <2>3 DEF Inductive, Shown
<1> QED
  BY <1>1, InductiveInvariant, PTL

\* by_risk cuts every page from a list by health factor, where nothing says in
\* what order positions of equal ones come: whoever turned all pages of a saved
\* capture has as many of every health factor as there are, for every page size.
THEOREM PagesAreInOrder == Spec => []PagesFollowHealth
<1>1. Inductive => PagesFollowHealth
  <2> SUFFICES ASSUME Inductive, held # None, held.whole
               PROVE  LET got == held.items
                      IN /\ ToSet(got) \subseteq Wanted
                         /\ \A i, j \in DOMAIN got : i < j => got[i].hf <= got[j].hf
                         /\ ~ reply.more =>
                              \A d \in Wanted :
                                Cardinality({i \in DOMAIN got : got[i].hf = d.hf})
                                  = Cardinality({e \in Wanted : e.hf = d.hf})
    BY DEF PagesFollowHealth
  <2>1. /\ DataOK /\ reply # None /\ source.snap \in snaps
        /\ held.items \in Seq(DocsOf(held.at)) /\ InPlace(held.items, Wanted)
        /\ ~ reply.more => Len(held.items) = Cardinality(Wanted)
    BY DEF Inductive, Holding, ClientOK
  <2>2. IsFiniteSet(Wanted) /\ \A d \in Wanted : d.hf \in Int
    <3>1. Wanted \in SUBSET DocsOf(source.snap.at) /\ source.snap.at \in Cycles
      BY <2>1, SnapFacts DEF Wanted
    <3> QED
      BY <2>1, <3>1, DocFacts, FS_Subset
  <2>3. ToSet(held.items) \subseteq Wanted
    BY <2>1 DEF InPlace, ToSet
  <2> QED
    BY <2>1, <2>2, <2>3, InPlaceFacts
<1> QED
  BY <1>1, InductiveInvariant, PTL

\* get_position_history and get_recent_positions_global sort by capture time
\* before they cut: what an answer has shown of a position is found there too, or
\* the list is full of records that are not older.
THEOREM SeenIsVisible == Spec => []SeenStaysVisible
<1>1. Inductive => SeenStaysVisible
  BY DEF Inductive
<1> QED
  BY <1>1, InductiveInvariant, PTL

\* get_latest_snapshot sorts by block number: what a client is told of the chain
\* never goes back, whatever the RPC calls its newest block.
THEOREM NewestStaysNewest == Spec => LatestNeverGoesBack
<1>1. Inductive /\ [Next]_vars
        => [source # None => source'.snap.block >= source.snap.block]_source
  <2> SUFFICES ASSUME Inductive, [Next]_vars, source # None, source' # source
               PROVE  source'.snap.block >= source.snap.block
    OBVIOUS
  <2>1. Answer
    BY Requests DEF clientVars, Ask, AskSeries
  <2> QED
    BY <2>1, Replies DEF Inductive, Asking
<1> QED
  BY <1>1, InductiveInvariant, PTL DEF Spec, LatestNeverGoesBack
=============================================================================
