# LiqHawk backend: a TLA+ model of the detector

The backend watches lending protocols on Mantle. Every poll cycle reads the
positions of INIT Capital and Lendle, stores them in MongoDB, finds clusters of
positions near liquidation ("cascade zones"), alerts Discord and Telegram, and
logs one prediction per zone on chain. This directory models the parts of it in
which order, failure and memory matter, checks them with TLC, and proves what
they promise for every instance with TLAPS. Paths below are relative to `src/`.

## Inventory

| Part | State | Operations | Interacts with |
| --- | --- | --- | --- |
| Poll loop, `app/services/pipeline.py` | task, `_stop`, `_last_risk` | `start`, `stop`, `take_snapshot`, `_run`, `_handle_alerts_and_logging` | awaits everything below; `POST /diagnostics/snapshot` also calls `take_snapshot` |
| Alert decision, `app/services/alerts.py` | `_seen` (fingerprint table) | `publish_cascade_zones`, `publish_new_at_risk_positions`, `_dedup_admit`, `_evict_expired` | called by the loop once per cycle |
| Alert transports, same file | `_last_send_ts` | `_post_embed`, `_await_throttle`, `_post_discord`, `_post_telegram` | sleep inside the poll cycle |
| Cascade detection, `app/services/cascade.py` | none | `detect_zones` and its score, `estimate_time_to_cascade_minutes` | pure |
| INIT reader, `app/services/init_capital.py` | symbol caches | `read_all_positions`, `read_position`, `credits_e36` | executor threads of the loop and of the diagnostics route share one object; RPC |
| Lendle reader, `app/services/lendle.py` | `_known_borrowers`, `_last_discovery_to_block`, cache file | `discover_borrowers`, `_save_borrower_cache`, `_load_borrower_cache`, `read_all_positions` | executor threads of the loop and of the diagnostics route share one object |
| Store, `app/db/repositories.py` | `snapshots`, `positions` collections | `save_snapshot` (two inserts), queries | written by the loop, read by the API |
| On-chain logger, `app/services/on_chain_logger.py` | none between calls | `log_zones`: nonce, then one transaction per zone | RPC node, contract |
| Prediction contract, `contracts/src/LiquidationCascadeLogger.sol` | `_predictions`, `_byCollateral` | `logPrediction`, `recordOutcome`, `accuracy` | agent writes, anybody settles |
| Agent contract, `contracts/src/LiqHawkAgent.sol` | token, attestations, version | `attest`, `setVersion` | not called by the backend |
| REST API, `app/api/` | none | reading routes, `POST /diagnostics/snapshot` | store, poll loop |
| `main.py`, `mantle_client.py`, `config.py`, `mongo.py`, logging | settings, connections | wiring | |

What is hard: the loop is one task, but each await lets time pass, the chain
move, a post fail or a cancellation arrive; the alert memories live in the
process and the borrower memory in a file; the readers make many calls of which
each sees another chain; both readers are shared by threads without a lock;
the store's two collections are written and read by separate queries;
transactions are numbered by hand against a node that has its own view.

What makes the parts correct: no spam and no silence (alert decision), once and in
bounded time (transports), survival and a clean stop (loop), a score that, as a
zone's positions get worse, calms down by no more than what their lost collateral
weighs (detection), nothing overlooked, nothing counted twice without a burn, a
health factor between two that the position had unless both its credits moved one
way (INIT), no borrower lost (Lendle), answers that belong to one cycle (store),
one mined transaction per zone, none displaced by the call that reports it
(logger), an exact and unalterable log (contract). `PROJECT.json` lists the
hazards, each at its line, with the properties that would notice it going wrong.

## Modules

How they fit together:

    Cooldown <== AlertPath <== CascadePoller       A <== B: B is shown to implement A
                     ^
                CascadeZones (its zones are among those AlertPath reckons with)
    CascadeLogger <== OnChainLogger
    AlertTransport, InitReader, LendleDiscovery, SnapshotStore: by themselves
    RiskTiers: the scales they share

**RiskTiers** has the two scales: the tiers of a position (`Position.risk_level`)
and the severities of a zone. Health factors, where a module has them, are in
hundredths; elsewhere they are abstracted to the tiers. `AtRisk` uses the default
`cascade_at_risk_hf` (1.15), which is also where SAFE begins.

**Cooldown** is the abstract promise of the publisher: a fingerprint is raised
again only when every earlier alert of it is more than a window old. It has a
clock and a set of alerts, no table and no loops.

**AlertPath** models `_handle_alerts_and_logging` with the publisher it calls. A
snapshot is `batch` (tier per position) with `zones` (severity per collateral),
some list `detect_zones` can return for it: `ZonesOf` ranges over every
assignment of dominant collaterals and every severity the score allows. Every
iteration of a loop is one step. `Admit` and `Suppress` are the two outcomes of
`_dedup_admit`, eviction included. A post is a phase of its own, during which
the clock may tick; it returns (`PostReturns`: HTTP errors are swallowed inside
it) or raises something else (`Abort`: the loop's `except` takes over, the
fingerprint stays, `_last_risk` keeps its value). `PositionsDone` replaces
`_last_risk`. `Restart` forgets both memories. The loops visit in any order,
which includes the code's. The history variable `sent` holds the alerts handed
to the transports since the process started. A batch holds a position once; an
INIT position that was read twice (see *InitReader*) is one entry, so a zone of
enough entries but too few positions is not represented.

**CascadePoller** composes the loop with AlertPath (`Path == INSTANCE AlertPath`):
while `pc = "alerting"` the task's steps are the path's. It adds the reads of each
configured protocol, the two inserts of `save_snapshot`, the on-chain hook, the
sleep, `stop()` with its timeout and cancellation, and a chain that moves under
the reads. Each remote call can fail: a position's read is dropped, a reader that
raises loses all it read, `insert_many` writes some of the documents and raises,
other failures end the cycle (the block number, the first insert, `detect_zones`
itself). `stored` is what the cycle that is running has put into the collection:
the capture time tells it from what earlier ones have. A cancellation reaches the
task at an await only (`Awaiting`); an `insert_many` that nobody waits for any
more may be done in part. `KeepsPath` says that the loop, with all of this hidden,
is a run of AlertPath.

**AlertTransport** is what AlertPath calls a post: `_post_embed` with its throttle
(`PostThrottled`, `ThrottleOver`, `PostAtOnce`), Discord and then Telegram,
whichever are enabled, and the second attempt after a 429 within the cap
(`RateLimited`, `BackoffOver`). A request is delivered, refused, or unanswered; an
unanswered one is on the wire and may still arrive, also long afterwards
(`Arrives`). `Raises` is everything that is not an `HTTPError`, `Cancelled` the
cancellation of the poll task; the history `broken` remembers where either left
the post. Time is discrete; sleeps end when they are due. That a request is over
within `ClientTimeout` is an assumption (in `Tick`): httpx applies its 10 s to
each phase of a request and to each read, not to the whole. A send gap of zero,
which switches the throttle off, is not covered.

**CascadeZones** is `detect_zones` over a book of positions that opens, closes and
moves, all positions in one step, as from one cycle to the next. A position's
health factor is a reading of its own beside its collateral and debt: for INIT it
follows from them, for Lendle it is the pool's answer. The module has the bucket
of each dominant collateral (`Bucket`), the score of `_cluster_probability`
(`ClusterProbability`), `Severity` and `TimeToCascade`. The arithmetic is in whole
units, amounts in thousands of dollars, health factors in hundredths,
probabilities in 1e-5 rounded down once, where the code has decimals and floats.
What the last digit of a float does at a threshold is not covered.

**InitReader** is `InitCapitalReader`: one scan, call by call, over the
enumeration of an ERC-721 contract to which positions are appended and in which a
burn moves the last one into the hole. `BeginScan` reads `totalSupply` once and
`IndexRead` walks down from it; `BorrInfo`, `CollCredit`, `BorrCredit`, `Legs` are
the calls of `read_position`, and between any two of them the chain may do
anything to the position. Between the two calls that read the credits both credits
may move, together or one by one (`Move`). A leg is labelled through two caches:
check, call and store are steps of their own (`CacheHit`, `CacheMiss`,
`CacheFill`), failures are stored too, and scans of other threads look up and
store in between (`OtherMisses`, `OtherFills`). Calls fail with an error that the
reader takes for an answer (`IndexFails`, `ReadFails`) or with one that leaves it
(`Escapes`).

**LendleDiscovery** models the Lendle reader per executor thread: `ReadLatest`
and `Resume` compute the range, `FetchLogs`/`FetchFails` one `eth_getLogs` per
chunk and topic, `Discovered` sets the last block, `DumpBorrowers`/`DumpLast`
build the payload, `Truncate`/`Write` are the two halves of `write_text`. The
reading loop iterates over the live set unless `max_positions` makes it a copy;
as in CPython a set whose size changed raises at the next step of the iterator.
`Restart` loads whatever the file holds. The logs are a constant function of
block and topic. `Requests` are the threads of the diagnostics route. Four variables
are history: `missed`, the fetches that failed; `base`, where the discovery that has
led to the last block began without one (it is carried along by every scan that
resumes from a last block, so a gap between two scans is above it); `reach`, the same
of a scan under way; and `sound`, that the process was not started from a torn file,
one whose two parts were read on either side of the end of another scan (`whole`).

**SnapshotStore** is `repositories.py` between its writer and the routes. The
writer inserts the snapshot document, then the position documents one by one in
any order, and may fail or die anywhere. A request is two queries: `Ask` finds the
newest snapshot by block number, `Answer` the positions captured with it. The query
is unsorted and the sort is by health factor only, so every answer takes any order
of the positions that share one (`Listings`). `/positions/at-risk` answers a bare
list; that it is of the snapshot asked for is remembered in the history `source`.
The client that pages through `/positions/by-risk` is external (`TurnPage`, `held`):
it appends pages of one capture and starts again when one is of another.
`Series` are the routes over all cycles (`/positions/recent`, a position's
history). A later cycle may name the same block or an earlier one.

**CascadeLogger** is the prediction contract. A transaction that reverts is no
step. Block times may jump. Amounts are left out.

**OnChainLogger** composes the contract (`Contract == INSTANCE CascadeLogger`)
with `_log_zones_sync` and an external RPC node: a pool by nonce that takes a
replacement only at a higher gas price and mines in the order of nonces. A zone's
send succeeds, is refused, fails before anything is out, fails with its answer
lost, or (with a key that is not the agent's) has its gas estimate revert. A
zone is named by the hash of its collateral.

The MC modules give the constants small values. Operators whose comment begins
with "Mutant" are deliberately wrong variants of the definition below them; no
specification uses them. `PROJECT.json` says which property notices which. The
modules whose names end in `Proofs` hold theorems.

## Runs

| Run | Bounds | Shows |
| --- | --- | --- |
| `alert` | 2 positions that form a zone together, 1 collateral, window 1, clock 0..2, floor HIGH, at most 2 alerts per process before the last | types, `CooldownRespected`, `NoUnannouncedRisk`, `ZoneNeverSilent`; AlertPath implements Cooldown (`KeepsPromise`) |
| `poller` | 1 protocol of 1 position, 2 market tiers, 1 block, 2 faults | types, `NoAlertWithoutRecord`; CascadePoller implements AlertPath (`KeepsPath`); `PollingSurvives`, `CriticalIsAnnounced`, `StopCompletes` |
| `transport` | gap 2, timeout 1, cap 1, waits of 1 and 2, 2 alerts, clock 0..13 | `NoDuplicateAlert`, `AnswersDoNotBlock`, `GapKept`, `PostIsBounded` |
| `transport_errors` | the same | a promise that the code breaks |
| `zones` | 4 positions, 2 collaterals, 6 readings of a position | `WorseningBarelyCalms`, `WithinAlertPath` |
| `init` | 3 tokens, 1 pool, credits of 1 and 2 (0 when repaid), any number of scans, 1 lookup of other threads at a time | `NeverMissed`, `NoTwins`, `HealthInBetween`, `OneLabelPerPool` |
| `lendle` | blocks 0..5, of which 0 and 1 are there at the start, window and chunks of 2, 2 topics, 3 borrowers, the poll loop and requests, 2 failures, crashes or requests | `MemoryComplete`, `DiskComplete`, `CatchesUp` |
| `lendle_scanned` | the same | a promise that the code breaks |
| `store` | 2 positions, 5 readings, 2 blocks, 2 cycles, pages of 1 | types, `AnswerIsOneCycle`, `SavedIsHydrated`, `PagesFollowHealth`, `TotalsMatchSummary`, `SeenStaysVisible`, `LatestNeverGoesBack` |
| `contract` | 2 callers, 2 collaterals, up to 3 predictions, window 2 in a clock of 4 | `IndexConsistent`, `SettledInLaterBlock`, `Tamperproof`, `AccuracyFinal` |
| `onchain` | 2 collaterals, 2 cycles, 2 gas prices, the agent's key or another, 1 fault, 1 new block time | `NoNonceGap`, `AtMostOnce`, `ReportedIsSubmitted`, `PoolDrains` |
| `onchain_each_zone` | the same, no faults | a promise that the code breaks |

Why the bounds are enough.

- *alert*: a fingerprint's life is raised, suppressed, forgotten, raised again;
  window 1 with a clock of 2 goes through it, and two positions give one
  visited before and one after an aborted post. A state constraint stops at
  states with three alerts (which are still checked): every property about
  `sent` compares at most two.
- *poller*: two faults reach a failure on the way of recovering from the first;
  the properties speak of one position at a time. Several protocols and
  positions are covered by the proofs.
- *transport*: two alerts meet the throttle and each other's late arrivals; one
  wait is within the cap and one above; the clock leaves room for both alerts
  to take as long as they can.
- *zones*: the readings reach from far under water to the threshold of 1.15 itself,
  with small and large amounts, and two of them are one loan before and after a
  drop of its collateral; two positions make a zone and four make one that can grow.
- *init*: a burn below, at and above the cursor, and a mint before and after it,
  need three tokens; with two values each credit can rise, fall, or be repaid
  between the two calls, alone or together with the other. A constraint lets the
  credits of the first token only take both values, and other threads look up beside
  that one only: the properties are about one position, and one label, at a time.
- *lendle*: six blocks with chunks of two give a whole chunk, a partial chunk and a
  scan that starts in the middle; while one thread scans to a higher head another
  can set the last block back and a third scan resume from it. The logs name each
  borrower under both topics together in two blocks at most, so that a skipped block
  shows.
- *store*: two cycles of one block, of rising and of falling blocks; pages of one
  with two positions have a next page during which the other cycle is saved.
- *contract*, *onchain*: two predictions of one collateral around one of the
  other; two cycles are the least in which one call meets the pending
  transactions of another.

`alert` (positions), `zones` (positions, collaterals) and `contract` (collaterals)
use symmetry; no liveness run does. `CHECK_DEADLOCK FALSE` is where a behaviour
may really end: a stopped loop, a clock, a chain or a number of cycles at its
bound with every fault spent.

### Fairness

`FairSpec` of the poller assumes that the event loop runs what is ready, that
`wait_for` in `stop()` times out, and that the cancellation is delivered. Of
remote calls it assumes nothing, so `StopCompletes` holds of a task that hangs.
The two properties that need answers say so: `AnswersCome` is that every await
is answered in the end, since the HTTP and RPC clients have timeouts (10 s and
30 s) and the sleeps are finite. Failures, crashes and `stop` are never forced.
`LendleDiscovery!LiveSpec` assumes that the poll thread's calls return or raise and
that the loop reads again; a request's thread may hang for ever.
`OnChainLogger!LiveSpec` assumes that calls are answered and that the node mines a
transaction that is next in line. The other modules have no liveness: that a post
ends is `PostIsBounded`, a safety property over the clock.

### Where code and documents differ

Each is a run that TLC ends with a counterexample; `PROJECT.json` quotes the lines.

1. An error of Discord that is no `HTTPError` keeps the alert from Telegram
   (`alerts.py:307`, against line 268).
2. A failed log fetch counts as scanned; its borrowers are not looked for again
   (`lendle.py:262`).
3. While the transactions of a cycle are pending, the next cycle reuses their
   nonces and its zones are refused, or displace them (`on_chain_logger.py:91`).

Noted while reading or modelling, and not checked by a run of their own:

- An escalation within the window is silent when its severity was announced
  before: HIGH, MEDIUM, HIGH (`alerts.py:241`, against `README.md:329`). The other
  way round, a zone that is neither new nor worse is raised after a
  de-escalation, or when the window has passed (`alerts.py:118`).
- The fingerprint is remembered before the post (`alerts.py:154`): an alert whose
  post failed is silent for a window, or for as long as the tier is held. All
  properties count an alert as raised when it is handed to the transports.
- A price drop can calm a zone: the collateral it takes away counts as risk
  (`cascade.py:122`), so a zone near a threshold goes from HIGH to MEDIUM while every
  member gets worse. `WorseningBarelyCalms` says by how much at most. A position that
  joins with a higher health factor raises the average and may calm the score, too.
- With both transports on, the throttle spaces the Discord sends; Telegram
  follows Discord's answer and may be closer together (`alerts.py:273`). `GapKept`
  is about the transport that is asked first.
- A reader between the two inserts of `save_snapshot`, or after a failed one, gets
  the newest snapshot with some of its positions (`repositories.py:69` says "fully
  hydrated"). `SavedIsHydrated` says when the answer is complete.
- Positions of one health factor may change places between two pages: one may come
  twice and another not at all (`repositories.py:74`, `positions.py:51`).
  `PagesFollowHealth` promises their number only.
- `/positions/at-risk` carries neither block nor capture time (`positions.py:84`): a
  client cannot tell of which cycle it is.
- `/positions/by-risk` counts its totals before the `risk` filter
  (`positions.py:46`, against its docstring, line 32); `TotalsMatchSummary` relies
  on that.
- Health factors are stored and sorted as strings. Of those a floor lets through,
  all below 1.15, only one in exponent notation (below 1E-6) is misplaced.
- INIT's symbol caches keep a failed lookup for the life of the process
  (`init_capital.py:241`). It makes labels stable and possibly wrong. All Lendle
  positions are in the bucket UNKNOWN, with any INIT position that has no label. Two
  threads that look a pool up at the same time may label it in two ways
  (`init_capital.py:226`); `OneLabelPerPool` leaves such labels out.
- The credits of an INIT position come from two calls (`init_capital.py:187`). When
  both fall in between, the old collateral over the new debt may show it healthier
  than it ever was; when both rise, riskier. `HealthInBetween` allows that and nothing
  else.
- After a burn during a scan an INIT position may be reported twice; with a mint
  it is not (`NoTwins`). `detect_zones` then counts it twice (`cascade.py:200`).
- A diagnostics read can make the loop's Lendle read raise, or the other way
  round, when it adds borrowers (`lendle.py:318`). With two threads the cache file
  may claim blocks whose borrowers it lacks (`lendle.py:184`): its payload takes the
  borrowers before the last block. The completeness properties leave out such a file
  and the process that loads it.
- When two threads discover without a last block at the same time, the window of the
  one whose last block counts in the end is the one that is complete.
- The cache file is truncated before it is written; a crash in between costs a
  deep scan (`lendle.py:183`).
- A snapshot names one block and mixes the states of several (`pipeline.py:108`,
  against `schema.py:126`).
- The list of submitted hashes holds an empty string for every zone whose estimate
  reverted (`on_chain_logger.py:139`, against line 79), and the nonce is counted up.
  No gap comes of it, because the contract reverts all zones of a key or none.
  `ReportedIsSubmitted` is about the hashes proper.

## Proofs

Each theorem is about every value of the constants that the named `ASSUME`s of
its module admit; bounds of the models (clock, cycles, faults, chain length) are
arbitrary, so none of them matters. `PROJECT.json` lists the theorems.

**AlertPathProofs**: `TypeCorrect`, `CooldownHolds`, `ImplementsPromise`,
`RiskAnnounced`, `NoSilentZone`, for any positions and collaterals (disjoint),
window, cluster size and floor. `CooldownRespected` is not inductive: it says
nothing of the table, so a step that finds a fingerprint missing could raise it
at any time. The strengthening ties the table to the history. `SeenWasSent`: every
entry is an alert that was sent at the entry's time. `SentIsRemembered`: an alert
whose fingerprint is not in the table is more than a window old, and an entry is
the latest alert of its fingerprint. With them `Admit` maps to `Cooldown!Emit` (an
entry that was evicted is old, one that never was there has no alert), and every
other step to a tick, a restart or a stutter. `ZoneNeverSilent` follows too: a
suppressed zone has a live entry, and live entries are recent alerts.
`NoUnannouncedRisk` needs the invariant of the position loop, `VisitedAnnounced`:
every position that the loop has passed and whose tier is alertable was
announced. A visited position was raised now, was suppressed (so by
`SeenWasSent` it was sent), or did not worsen; then it was remembered at its tier
or a worse one, and was announced when it got there.

**CascadePollerProofs**: `ImplementsPath` is the refinement: every step of the
loop, with its failures, cancellation and crashes, is a step of AlertPath or
leaves the path's variables alone; `LoopInv` (what is read is a snapshot) is all
it needs, because the loop enters the path only through `BeginAlerts`. From it
the theorems of AlertPath are carried over: `LoopAnnouncesRisk`, `LoopCooldown`,
`LoopZoneNeverSilent`, the path's half of `LoopTypeCorrect`, and
`LoopKeepsPromise`: the loop is, two refinements down, a run of Cooldown.
`AlertsAreRecorded` strengthens `NoAlertWithoutRecord` by `RecordInv`: from the
second insert to the end of the alerts, what this cycle has put into the collection
is every document of the snapshot that is alerted on. Alerts, of positions and of
zones, are raised inside the path's two loops only (`Raising`).

The last sections of the same module are about CascadeZones, the function whose
result the loop hands to the path; the module extends both, which is why the
specification of the book is called `BookSpec` and its constants have names of
their own. `DetectionWithinPath` discharges what AlertPath takes for granted: the
arithmetic yields only zones that `ZonesOf` admits. Its one hypothesis is the
default threshold of 1.15; with another one "at risk" and "not SAFE" are
different things. `WorseningIsHardlyCalmed` needs no such hypothesis: what falling
collateral takes off the probability is at most what collateral weighs in it
(`LostFacts`), and that is less than the width of a severity (`GapFacts`), so no zone
falls by two. Both rest on facts about sums over the members of a zone (`SumNat`,
`SumMonotonic`, `SumBound`). The library's sum is defined by recursion and an
induction principle cannot be instantiated, so a sum of naturals is shown to be
the size of a set, its area of pairs (`SumIsArea`), by way of a smallest
counterexample (`MinimalSet`, from the well-foundedness of strict inclusion of
finite sets). The monotonicity of the score follows factor by factor
(`ClosenessFacts`, `ProbabilityMonotonic`, `SeverityMonotonic`, `TimeMonotonic`).

**AlertTransportProofs**: `NoTransportTwice` rests on `NothingYet` (while a
transport is asked, nothing of the alert in hand has reached it or is on the way,
since a second attempt follows a refusal); `AnswersBlockNothing` on `Asked` and
`BreakIsRemembered` (a post that ends before every transport was asked was left by
an error or a cancellation, and `broken` has it); `SendsAreSpaced` on `Window`
(`last` is not before any send to the first transport); `PostsEndInTime` on
`Deadline`, which bounds the end of each sleep and request by the time the post
began.

**CascadeLoggerProofs**: `IndexIsExact`, `SettledLater`, `LogIsTamperproof`,
`ScoreIsFinal`, with `Dated`: a prediction that is past in time is past in
blocks. That is why a settlement, which checks time only, is in a later block.

**OnChainLoggerProofs**: `ReportedKept` by `Reported` (what was reported waits at a
nonce below the local one, or is mined); `NoncesAreARun` by `Counted` (the local
nonce too is at most one past a run of waiting transactions); `PredictedOnce` by
`AllPast` (the transactions of this cycle are of zones already tried).
`ContractKept` says that logger, node and blocks together implement
CascadeLogger; hence the contract's own type theorem holds in the composition,
and with it `LogIsTheAccount`: the log is, entry by entry, what the account has
had mined.

**LendleDiscoveryProofs**: `NobodyLost` (the memory is complete up to its last block)
and `FileComplete` (the file up to its own), for any number of threads, failures and
restarts. They rest on `Scanned` (a scan has accounted for all blocks from its `reach`
to its chunk, and in the chunk for the topics it has fetched) and on `Saving` (every
payload that is not torn is complete). What the two exempt are the fetches that
failed and the torn files, both of which the code produces.

**InitReaderProofs**: `NobodyMissed` by `Ahead` (a position that owes is reported,
being read, or below the cursor: a burn moves a token down and never up);
`NobodyTwice` by `Behind` (what was reported stands above the cursor);
`HealthIsReal` by `Seen` (what was read is the collateral of the first moment and the
debt of the second) and the monotonicity of products; `LabelsAreStable` by `Cached` (a
label is what the caches say of lookups that nobody else is making, and such
entries never change).

**SnapshotStoreProofs**: `SavedIsAnswered` and `TotalsAgree` by `Complete` (a save
that returned left nothing out) and `Filled` (what a complete answer holds, said
of the cycle it names); that totals and summary agree is counting, documents
against positions and tiers against thresholds (`SummaryTotals`).
`NewestStaysNewest` by `AtLeast`: there is always a snapshot as new as the last
answer, since the collection only grows. `OneCyclePerAnswer` needs `Shown`: what
is on the client's screen is of the cycle it names, which the next page is
compared with. `PagesAreInOrder` needs `Holding`: each page is the right stretch
of some list by health factor (`InPlace`), not of one and the same. In any such
list the positions of a health factor take the same places (`ByHealthFacts`, by
counting those before them: `CountFacts`), which is what the pages together are
judged by. `SeenIsVisible` needs that what was shown is still in the collection.

Every invariant and every action property that a run checks is proved. Only
model-checked is the liveness, which is out of the prover's reach: it needs
fairness and ENABLED. That is `PollingSurvives`, `CriticalIsAnnounced` and
`StopCompletes` of the loop, `CatchesUp` of the Lendle discovery and `PoolDrains`
of the logger. The three runs that end in a counterexample have nothing to prove.

## Not modelled

- The anomaly count of a zone (an isolation forest), the order of the zones, the
  rendering of alerts, floating point.
- The text form of numbers in the store; the protocol filter of `/by-risk`, `GET
  /snapshots` beyond the counts of its rows, `/health`.
- The amounts, modes and prices of INIT's legs; the reserves and symbols of the
  Lendle reader, which feed nothing; the amounts of a prediction on chain.
- A node that drops a transaction it has accepted: in OnChainLogger the answer to a
  send can be lost, its transaction only by displacement.
- `LiqHawkAgent.sol`: the backend does not call it, and each of its writes is one
  assignment.
- The RPC client (its failures are those of the calls in the modules),
  configuration, logging, the order of start-up in `main.py`, the deployment
  script.

## Plan

Done: the alert decision, the loop, transports, detection, both readers, the
store, the logger and the contract, with proofs of all their safety properties.
Left:

1. AlertTransport composed with AlertPath: the number of polls that a burst of
   alerts can delay.
2. *LiqHawkAgent*: the token, attestations and versions.
