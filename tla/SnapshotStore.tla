---------------------------- MODULE SnapshotStore ----------------------------
(***************************************************************************)
(* The store of app/db/repositories.py between its one writer, the poll    *)
(* loop, and the routes of app/api that read it.  save_snapshot is an      *)
(* insert into `snapshots` and then an unordered insert_many into          *)
(* `positions`; the routes take two queries the other way round: the       *)
(* newest snapshot, then the positions captured with it.  Nothing ties the *)
(* two collections together, so every step of one side can fall between    *)
(* two steps of the other.                                                 *)
(*                                                                         *)
(* A cycle is named by its captured_at, 1, 2, ...; health factors are in   *)
(* hundredths.  Queries change nothing, so clients cannot meet each other: *)
(* one client stands for all of them.                                      *)
(***************************************************************************)
EXTENDS RiskTiers, FiniteSets, SequencesExt

CONSTANTS Positions,      \* position ids
          Readings,       \* what the readers return: position -> health factor
          Blocks,         \* block numbers the RPC names
          Filters,        \* `risk` of the paged route, "any" or a tier
          Floors,         \* `min_risk` of the at-risk route
          PageSize,       \* limit of the paged route
          Feeds,          \* sets of positions whose records are asked for: one
                          \* position, those of an owner, all
          SeriesLimit,    \* limit of the routes on records of all cycles
          MaxCycles       \* bound of the model: snapshots taken

ASSUME PositionsAssumption == IsFiniteSet(Positions) /\ MaxCycles \in Nat
ASSUME ReadingsAssumption ==
  \A hf \in Readings : DOMAIN hf \subseteq Positions /\ hf \in [DOMAIN hf -> Nat]
ASSUME RequestsAssumption ==
  Filters \subseteq Tiers \cup {"any"} /\ Floors \subseteq Tiers \ {"SAFE"}
ASSUME FeedsAssumption == Feeds \subseteq SUBSET Positions
ASSUME BlocksAssumption == Blocks \subseteq Nat
ASSUME LimitsAssumption == {PageSize, SeriesLimit} \subseteq Nat \ {0}

VARIABLES pc,     \* the writer: "idle", "saving", "filling"
          taken,  \* history: the snapshots taken, by cycle
          snaps,  \* the snapshots collection
          docs,   \* the positions collection
          saved,  \* history: cycles whose save_snapshot returned
          asked,  \* the request between its two queries: [query, snap, whole]
          reply,  \* the last answer of the routes on the newest snapshot
          source, \* history: the request that was answered
          held,   \* the pages of one capture that the client has read
          series  \* the last answer of a route on the records of all cycles

dbVars == <<snaps, docs>>
writerVars == <<pc, taken, saved>>
clientVars == <<asked, reply, source, held, series>>
vars == <<writerVars, dbVars, clientVars>>

None == [kind |-> "none"]

Cycle == Len(taken)
Snapshot == taken[Cycle]

\* PoolSnapshot.at_risk with its default threshold.
AtRiskOf(hf) == {p \in DOMAIN hf : hf[p] < 105}

\* Mutant: the threshold of cascade detection.
SnapshotDoc_WideRisk(at, s) ==
  [at |-> at, block |-> s.block, total |-> Cardinality(DOMAIN s.hf),
   atRisk |-> Cardinality({p \in DOMAIN s.hf : s.hf[p] < 115}),
   critical |-> Cardinality({p \in DOMAIN s.hf : RiskLevel(s.hf[p]) = "CRITICAL"})]

\* _snapshot_to_doc: the counts are those of the snapshot in memory.
SnapshotDoc(at, s) ==
  [at |-> at, block |-> s.block, total |-> Cardinality(DOMAIN s.hf),
   atRisk |-> Cardinality(AtRiskOf(s.hf)),
   critical |-> Cardinality({p \in DOMAIN s.hf : RiskLevel(s.hf[p]) = "CRITICAL"})]

\* _position_to_doc: the block is the snapshot's.
PositionDoc(at, s, p) ==
  [pos |-> p, at |-> at, block |-> s.block, hf |-> s.hf[p],
   risk |-> RiskLevel(s.hf[p])]

DocsOf(at) == {PositionDoc(at, taken[at], p) : p \in DOMAIN taken[at].hf}
-----------------------------------------------------------------------------
Init ==
  /\ pc = "idle" /\ taken = <<>> /\ saved = {}
  /\ snaps = {} /\ docs = {}
  /\ asked = None /\ reply = None /\ source = None /\ held = None /\ series = None

(* The writer *)

\* A later cycle may name the same block, or an earlier one: what a load
\* balanced RPC calls its newest block depends on the node that answers.
TakeSnapshot(b, hf) ==
  /\ pc = "idle"
  /\ Cycle < MaxCycles
  /\ pc' = "saving"
  /\ taken' = Append(taken, [block |-> b, hf |-> hf])
  /\ UNCHANGED <<saved, dbVars, clientVars>>

InsertSnapshot ==
  /\ pc = "saving"
  /\ pc' = "filling"
  /\ snaps' = snaps \cup {SnapshotDoc(Cycle, Snapshot)}
  /\ UNCHANGED <<taken, saved, docs, clientVars>>

\* insert_many, one document at a time and in any order.
InsertPosition(d) ==
  /\ pc = "filling"
  /\ d \in DocsOf(Cycle) \ docs
  /\ docs' = docs \cup {d}
  /\ UNCHANGED <<writerVars, snaps, clientVars>>

\* Mutant: insert_many is not waited for.
SaveReturns_Early ==
  /\ pc = "filling"
  /\ pc' = "idle"
  /\ saved' = saved \cup {Cycle}
  /\ UNCHANGED <<taken, dbVars, clientVars>>

SaveReturns ==
  /\ pc = "filling"
  /\ DocsOf(Cycle) \subseteq docs
  /\ pc' = "idle"
  /\ saved' = saved \cup {Cycle}
  /\ UNCHANGED <<taken, dbVars, clientVars>>

\* Mutant: what was saved of the snapshot is taken back.
SaveFails_Undoes ==
  /\ pc # "idle"
  /\ pc' = "idle"
  /\ snaps' = {s \in snaps : s.at # Cycle}
  /\ UNCHANGED <<taken, saved, docs, clientVars>>

\* An insert raises, possibly after it was carried out, or the process dies and
\* a new one goes on with the next cycle: nobody completes or undoes this one.
SaveFails ==
  /\ pc # "idle"
  /\ pc' = "idle"
  /\ snaps' \in {snaps, snaps \cup {SnapshotDoc(Cycle, Snapshot)}}
  /\ UNCHANGED <<taken, saved, docs, clientVars>>

(* The routes *)

\* Mutant: the snapshot captured last.
Newest_ByCapture == {s \in snaps : \A t \in snaps : t.at <= s.at}

\* find_one sorted by block number: any of those with the highest one.
Newest == {s \in snaps : \A t \in snaps : t.block <= s.block}

\* Mutant: the positions of the same block.
Hydrated_ByBlock(s) == {d \in docs : d.block = s.block}

\* The positions that the second query finds.
Hydrated(s) == {d \in docs : d.at = s.at}

\* The first query of a request; without a snapshot it is a 404.
Ask(query) ==
  /\ asked = None
  /\ \E s \in Newest :
       asked' = [kind |-> "asked", query |-> query, snap |-> s,
                 whole |-> s.at \in saved]
  /\ series' = None
  /\ UNCHANGED <<writerVars, dbVars, reply, source, held>>

\* GET /snapshots/latest
AskLatest == Ask([kind |-> "latest"])

\* GET /positions/at-risk
AskAtRisk(min) == Ask([kind |-> "atRisk", min |-> min])

\* GET /positions/by-risk, from the top of the list.
AskFirstPage(risk) == Ask([kind |-> "page", risk |-> risk, skip |-> 0])

\* The next page: a client goes on until has_more is false.
AskNextPage ==
  /\ held # None
  /\ reply.more
  /\ Ask([kind |-> "page", risk |-> reply.risk, skip |-> Len(held.items)])

\* seq[from : to]
Slice(seq, from, to) == SubSeq(seq, from + 1, Min({to, Len(seq)}))

\* filtered[skip : skip + limit]
Page(seq, skip) == Slice(seq, skip, skip + PageSize)

\* The lists of DOMAIN key by increasing key.  Sorting is stable and the queries
\* name no order: equal keys may come in another one in every request.
Listings(key) ==
  {list \in [1..Cardinality(DOMAIN key) -> DOMAIN key] :
     /\ IsInjective(list)
     /\ \A i, j \in DOMAIN list : i < j => key[list[i]] <= key[list[j]]}

\* Mutant: the worst last.
ByHealth_Descending(S) == Listings([d \in S |-> - d.hf])

\* by_risk sorts numbers, the nearest to liquidation first.
ByHealth(S) == Listings([d \in S |-> d.hf])

\* get_latest_snapshot puts the block and the capture time of the snapshot it
\* found on its answer.
AnswerLatest ==
  /\ asked # None
  /\ asked.query.kind = "latest"
  /\ reply' = [kind |-> "latest", at |-> asked.snap.at, block |-> asked.snap.block,
               items |-> Hydrated(asked.snap)]

\* Mutant: the level asked for is left out.
AnswerAtRisk_Above ==
  /\ asked # None
  /\ asked.query.kind = "atRisk"
  /\ reply' = [kind |-> "atRisk", items |-> {d \in Hydrated(asked.snap) :
                                              Rank[d.risk] > Rank[asked.query.min]}]

\* A bare list of positions, without block or capture time.  Their order, that of
\* the text of the health factors, is left out.
AnswerAtRisk ==
  /\ asked # None
  /\ asked.query.kind = "atRisk"
  /\ reply' = [kind |-> "atRisk", items |-> {d \in Hydrated(asked.snap) :
                                              Rank[d.risk] >= Rank[asked.query.min]}]

\* The card counts, which no filter reaches.
Totals(found) ==
  [t \in Tiers |-> Cardinality({d \in found : RiskLevel(d.hf) = t})]

\* The page is cut from the filtered list.
AnswerPage ==
  /\ asked # None
  /\ asked.query.kind = "page"
  /\ LET q == asked.query
         found == Hydrated(asked.snap)
         filtered == {d \in found : q.risk \in {"any", RiskLevel(d.hf)}}
     IN  \E list \in ByHealth(filtered) :
           LET page == Page(list, q.skip)
           IN  reply' = [kind |-> "page", at |-> asked.snap.at, block |-> asked.snap.block,
                         risk |-> q.risk, items |-> page,
                         more |-> q.skip + Len(page) < Cardinality(filtered),
                         totals |-> Totals(found)]

\* What a client does with an answer, when it turns the pages: it appends those of
\* one capture, and starts again when one is of another.
TurnPage ==
  \/ /\ asked.query.kind # "page"
     /\ held' = None
  \/ /\ asked.query.kind = "page"
     /\ asked.query.skip = 0
     /\ held' = [at |-> reply'.at, whole |-> asked.whole, items |-> reply'.items]
  \/ /\ asked.query.kind = "page"
     /\ asked.query.skip > 0
     /\ held' = IF held.at = reply'.at
                  THEN [held EXCEPT !.items = @ \o reply'.items]
                  ELSE None

\* The second query, and the answer.
Answer ==
  /\ AnswerLatest \/ AnswerAtRisk \/ AnswerPage
  /\ TurnPage
  /\ source' = asked
  /\ asked' = None
  /\ UNCHANGED <<writerVars, dbVars, series>>

\* Mutant: oldest first.
Series_OldestFirst(ps) ==
  {Slice(list, 0, SeriesLimit) :
     list \in Listings([d \in {e \in docs : e.pos \in ps} |-> d.at])}

\* GET /positions/{id}/history and GET /positions/recent: newest capture first.
Series(ps) ==
  {Slice(list, 0, SeriesLimit) :
     list \in Listings([d \in {e \in docs : e.pos \in ps} |-> - d.at])}

AskSeries(ps) ==
  /\ asked = None
  /\ \E items \in Series(ps) : series' = [kind |-> "series", of |-> ps, items |-> items]
  /\ UNCHANGED <<writerVars, dbVars, asked, reply, source, held>>

Next ==
  \/ \E b \in Blocks, hf \in Readings : TakeSnapshot(b, hf)
  \/ InsertSnapshot
  \/ \E d \in IF taken = <<>> THEN {} ELSE DocsOf(Cycle) : InsertPosition(d)
  \/ SaveReturns \/ SaveFails
  \/ AskLatest
  \/ \E min \in Floors : AskAtRisk(min)
  \/ \E risk \in Filters : AskFirstPage(risk)
  \/ AskNextPage
  \/ Answer
  \/ \E ps \in Feeds : AskSeries(ps)

Spec == Init /\ [][Next]_vars
-----------------------------------------------------------------------------
(* Properties *)

\* Every variable has its type, and the collections hold nothing but what the
\* snapshots taken put there, at most one snapshot document for a cycle.
TypeOK ==
  /\ pc \in {"idle", "saving", "filling"}
  /\ taken \in Seq([block : Blocks, hf : Readings]) /\ Cycle <= MaxCycles
  /\ saved \subseteq 1..Cycle
  /\ snaps \subseteq {SnapshotDoc(c, taken[c]) : c \in 1..Cycle}
  /\ docs \subseteq UNION {DocsOf(c) : c \in 1..Cycle}
  /\ asked # None => asked.snap \in snaps
  /\ reply.kind \in {"none", "latest", "atRisk", "page"}
  /\ reply # None => source.snap \in snaps
  /\ held # None => held.items \in Seq(docs)
  /\ series # None => series.of \in Feeds

Items == IF reply.kind = "page" THEN ToSet(reply.items) ELSE reply.items

\* The positions of an answer are those of one cycle, with the values read in that
\* cycle, and its block and capture time, where it has them, are that cycle's: no
\* answer mixes two cycles, although cycles share blocks and the two queries are
\* apart.
AnswerIsOneCycle ==
  reply # None =>
    \E c \in 1..Cycle :
      /\ Items \subseteq DocsOf(c)
      /\ reply.kind # "atRisk" => reply.at = c /\ reply.block = taken[c].block

\* What a complete answer to the request holds.
Wanted ==
  {d \in DocsOf(source.snap.at) :
     /\ source.query.kind = "atRisk" => Rank[d.risk] >= Rank[source.query.min]
     /\ source.query.kind = "page" => source.query.risk \in {"any", d.risk}}

\* An answer leaves out no position, unless its snapshot was not yet, or never,
\* completely saved when the request found it.
SavedIsHydrated ==
  (reply.kind \in {"latest", "atRisk"} /\ source.whole) => reply.items = Wanted

\* A client that turns the pages of one saved capture gets its positions in the
\* order of their health factors, and in the end, for every health factor, as many
\* as have it: a position that shares it with no other once.  Positions that do
\* may change places between two requests, so that one comes twice and another
\* not at all.
PagesFollowHealth ==
  (held # None /\ held.whole) =>
    LET got == held.items
    IN /\ ToSet(got) \subseteq Wanted
       /\ \A i, j \in DOMAIN got : i < j => got[i].hf <= got[j].hf
       /\ ~ reply.more =>
            \A d \in Wanted : Cardinality({i \in DOMAIN got : got[i].hf = d.hf})
                               = Cardinality({e \in Wanted : e.hf = d.hf})

\* The cards of a list and the counts of its summary agree: the totals of the
\* paged route add up to the counts that list_snapshots shows of that capture.
TotalsMatchSummary ==
  (reply.kind = "page" /\ source.whole) =>
    \A s \in snaps : s.at = reply.at =>
      /\ s.critical = reply.totals["CRITICAL"]
      /\ s.atRisk = reply.totals["CRITICAL"] + reply.totals["HIGH"]
      /\ s.total = s.atRisk + reply.totals["MEDIUM"] + reply.totals["SAFE"]

\* What a client was shown of a position does not go away: its history and the
\* recent records, asked for next, show the same record or are full of others
\* that are not older.
SeenStaysVisible ==
  (series # None /\ reply # None) =>
    \A d \in {e \in Items : e.pos \in series.of} :
      \/ d \in ToSet(series.items)
      \/ /\ Len(series.items) = SeriesLimit
         /\ \A i \in DOMAIN series.items : series.items[i].at >= d.at

\* The latest snapshot never goes back in the chain: of two answers the later
\* one is taken from the same block or a higher one, also when the RPC went back.
LatestNeverGoesBack ==
  [][source # None => source'.snap.block >= source.snap.block]_source
=============================================================================
