------------------------------ MODULE InitReader ------------------------------
(***************************************************************************)
(* InitCapitalReader (app/services/init_capital.py): one thread scans the  *)
(* positions of INIT Capital, which are tokens of an enumerable contract,  *)
(* call by call, while the chain goes on.  A new position is appended to   *)
(* the enumeration; of a burned one the place is taken by the last.  Other *)
(* threads scan with the same reader (a diagnostics read beside the poll); *)
(* of them only what they do to the shared symbol caches is modelled.      *)
(*                                                                         *)
(* Credits are small numbers, and the pools, tokens and symbols are names. *)
(* Calls may fail at any time: with an error that the reader takes for an  *)
(* answer (`failed` remembers it), or with one that leaves                 *)
(* read_all_positions.                                                     *)
(***************************************************************************)
EXTENDS Integers, Sequences, FiniteSets

CONSTANTS Ids,         \* the tokens there may ever be, an interval from 1
          Pools,       \* lending pools
          LegsOf,      \* position -> [coll, debt]: its pools
          Underlying,  \* pool -> token, what the contracts answer
          Symbol,      \* address of a token or a pool -> symbol
          MaxPositions,\* max_positions_per_cycle, 0 for all
          MaxOthers,   \* bound: lookups of other threads under way at a time
          CollCredits, DebtCredits \* what the credits of a position in debt may be

ASSUME IdsAssumption == IsFiniteSet(Ids) /\ Ids = 1..Cardinality(Ids)
ASSUME LegsAssumption == LegsOf \in [Ids -> [coll : Pools, debt : Pools]]
ASSUME MaxPositionsAssumption == MaxPositions \in Nat
ASSUME CreditsAssumption == CollCredits \subseteq Nat /\ DebtCredits \subseteq Nat \ {0}

VARIABLES order,   \* the enumeration: index -> token
          minted,  \* tokens minted so far
          debtors, \* the positions with a borrow credit
          coll, debt,          \* credits of `pid` from the first call to the second
          pc,      \* the call about to be made
          total, offset, pid,  \* read_all_positions
          sawColl, sawDebt,    \* the credits that were read
          legs,    \* pools of the legs yet to be built, the collateral's first
          address, \* what _pool_underlying has made of the first of them
          out,     \* the ids of `positions`
          cache,   \* _pool_to_underlying and _token_to_symbol: lookup -> answer
          others,  \* lookups that other threads have begun and not stored
          failed,  \* history: a call of this scan failed although it need not
          burned,  \* history: a token was burned in this scan
          owing,   \* history: positions in debt ever since the scan began
          then,    \* history: both credits when the collateral was read
          raced,   \* history: another thread was in a lookup that this leg used
          labels   \* history: the dominant collaterals reported, by pool

chainVars == <<order, minted, debtors>>
creditVars == <<coll, debt, sawColl, sawDebt, then>>
scanVars == <<total, offset, out>>
legVars == <<legs, address, raced>>
cacheVars == <<cache, others>>
histVars == <<failed, burned, owing>>
vars == <<chainVars, creditVars, pc, pid, scanVars, legVars, cacheVars, histVars, labels>>

Missing == ""
ScanLimit == IF MaxPositions = 0 \/ total < MaxPositions THEN total ELSE MaxPositions

\* Mutant: oldest first.
Index_OldestFirst == offset

\* Mutant: the supply is asked for in every iteration.
Index_LiveTotal == Len(order) - 1 - offset

\* Newest first.
Index == total - 1 - offset

Init ==
  /\ minted \in 0..Cardinality(Ids)
  /\ order = [i \in 1..minted |-> i] /\ debtors = {}
  /\ coll = 0 /\ debt = 0 /\ sawColl = 0 /\ sawDebt = 0 /\ then = <<0, 0>>
  /\ pc = "idle" /\ pid = 0 /\ total = 0 /\ offset = 0 /\ out = <<>>
  /\ legs = <<>> /\ address = Missing /\ raced = FALSE
  /\ cache = [l \in {} |-> Missing] /\ others = {}
  /\ failed = FALSE /\ burned = FALSE /\ owing = {} /\ labels = {}
-----------------------------------------------------------------------------
(* The chain *)

Tokens == {order[i] : i \in DOMAIN order}

Mint ==
  /\ minted < Cardinality(Ids)
  /\ minted' = minted + 1
  /\ order' = Append(order, minted + 1)
  /\ UNCHANGED <<debtors, creditVars, pc, pid, scanVars, legVars, cacheVars, histVars,
                 labels>>

\* The last token takes the place of the burned one.
Burn(i) ==
  /\ order[i] \notin debtors
  /\ order' = SubSeq([order EXCEPT ![i] = order[Len(order)]], 1, Len(order) - 1)
  /\ burned' = TRUE
  /\ UNCHANGED <<minted, debtors, creditVars, pc, pid, scanVars, legVars, cacheVars,
                 failed, owing, labels>>

\* Loans and repayments of a position of which only that matters.
Owe(p, owes) ==
  /\ p \in Tokens /\ ~ (p = pid /\ pc = "borrCredit")
  /\ debtors' = IF owes THEN debtors \cup {p} ELSE debtors \ {p}
  /\ owing' = IF owes THEN owing ELSE owing \ {p}
  /\ UNCHANGED <<order, minted, creditVars, pc, pid, scanVars, legVars, cacheVars,
                 failed, burned, labels>>

\* Between the two calls that read the credits: also deposits, withdrawals, prices.
\* One of them may change both.
Move(k, d) ==
  /\ pid \in Tokens /\ pc = "borrCredit"
  /\ coll' = k /\ debt' = d
  /\ debtors' = IF d > 0 THEN debtors \cup {pid} ELSE debtors \ {pid}
  /\ owing' = IF d > 0 THEN owing ELSE owing \ {pid}
  /\ UNCHANGED <<order, minted, sawColl, sawDebt, then, pc, pid, scanVars, legVars,
                 cacheVars, failed, burned, labels>>
-----------------------------------------------------------------------------
(* read_all_positions *)

\* totalSupply is read, once.
BeginScan ==
  /\ pc = "idle"
  /\ pc' = "index" /\ total' = Len(order) /\ offset' = 0 /\ out' = <<>>
  /\ failed' = FALSE /\ burned' = FALSE
  /\ owing' = debtors \cap Tokens
  /\ UNCHANGED <<chainVars, creditVars, pid, legVars, cacheVars, labels>>

\* Of the position just read nothing is kept but its id.
ForgetCredits == coll' = 0 /\ debt' = 0 /\ sawColl' = 0 /\ sawDebt' = 0 /\ then' = <<0, 0>>
ForgetLegs == legs' = <<>> /\ address' = Missing /\ raced' = FALSE

NextIndex ==
  /\ pc' = "index" /\ offset' = offset + 1 /\ pid' = 0
  /\ ForgetCredits /\ ForgetLegs
  /\ UNCHANGED <<chainVars, total, burned, owing>>

\* tokenByIndex answers: read_position begins.
IndexRead ==
  /\ pc = "index" /\ offset < ScanLimit
  /\ Index + 1 \in DOMAIN order
  /\ pid' = order[Index + 1]
  /\ pc' = "borrInfo"
  /\ UNCHANGED <<chainVars, creditVars, scanVars, legVars, cacheVars, histVars, labels>>

\* There is no such index any more, or the call fails otherwise: continue.
IndexFails ==
  /\ pc = "index" /\ offset < ScanLimit
  /\ failed' = (failed \/ Index + 1 \in DOMAIN order)
  /\ NextIndex
  /\ UNCHANGED <<out, cacheVars, labels>>

ScanDone ==
  /\ pc = "index" /\ offset = ScanLimit
  /\ pc' = "idle"
  /\ UNCHANGED <<chainVars, creditVars, pid, scanVars, legVars, cacheVars, histVars,
                 labels>>

(* read_position *)

\* The debt legs are there.
BorrInfo ==
  /\ pc = "borrInfo"
  /\ pid \in debtors
  /\ pc' = "collCredit"
  /\ UNCHANGED <<chainVars, creditVars, pid, scanVars, legVars, cacheVars, histVars,
                 labels>>

\* The first call of credits_e36.
CollCredit ==
  /\ pc = "collCredit"
  /\ pc' = "borrCredit"
  /\ coll' \in CollCredits
  /\ debt' \in (IF pid \in debtors THEN DebtCredits ELSE {0})
  /\ sawColl' = coll' /\ then' = <<coll', debt'>>
  /\ UNCHANGED <<chainVars, pid, scanVars, sawDebt, legVars, cacheVars, histVars, labels>>

\* Mutant: the debt is the one that borr_info has found, before the first call.
BorrCredit_FromLegs ==
  /\ pc = "borrCredit"
  /\ pc' = "legs"
  /\ sawDebt' \in DebtCredits
  /\ UNCHANGED <<chainVars, coll, debt, then, pid, scanVars, sawColl, legVars,
                 cacheVars, histVars, labels>>

\* The second call.
BorrCredit ==
  /\ pc = "borrCredit"
  /\ debt > 0
  /\ pc' = "legs"
  /\ sawDebt' = debt
  /\ UNCHANGED <<chainVars, coll, debt, then, pid, scanVars, sawColl, legVars,
                 cacheVars, histVars, labels>>

\* No debt legs, no borrow credit: inactive.
Inactive ==
  /\ pc \in {"borrInfo", "borrCredit"}
  /\ pid \notin debtors
  /\ NextIndex
  /\ UNCHANGED <<out, cacheVars, failed, labels>>

\* The legs, the credits or the owner cannot be read: the same None.
ReadFails ==
  /\ pc \in {"borrInfo", "collCredit", "borrCredit", "legs"}
  /\ failed' = (failed \/ pid \in Tokens)
  /\ NextIndex
  /\ UNCHANGED <<out, cacheVars, labels>>

\* The owner, and the legs: of the collateral only when coll_info answers.
Legs ==
  /\ pc = "legs" /\ pid \in Tokens
  /\ pc' = "pool"
  /\ legs' \in {<<LegsOf[pid].coll, LegsOf[pid].debt>>, <<LegsOf[pid].debt>>}
  /\ ForgetCredits
  /\ UNCHANGED <<chainVars, pid, scanVars, address, raced, cacheVars, histVars, labels>>

(* _build_legs: a leg is looked up in two caches, each filled by a call *)

UnderlyingOf(pool) == [of |-> "underlying", key |-> pool]
SymbolOf(a) == [of |-> "symbol", key |-> a]
Answer(l) == IF l.of = "symbol" THEN Symbol[l.key] ELSE Underlying[l.key]
Lookups == [of : {"underlying"}, key : Pools] \cup [of : {"symbol"}, key : DOMAIN Symbol]

\* The lookup that the thread is at.
Wanted == IF pc \in {"pool", "poolCall"} THEN UnderlyingOf(Head(legs)) ELSE SymbolOf(address)

\* Mutant: a lookup that failed is tried again.
Known_Retries(l) == l \in DOMAIN cache /\ cache[l] # Missing

\* Failures are known, too.
Known(l) == l \in DOMAIN cache

Store(l, answer) == cache' = [k \in DOMAIN cache \cup {l} |-> IF k = l THEN answer ELSE cache[k]]

\* _pool_underlying(pool) or pool.
GotUnderlying(answer) ==
  /\ pc' = "symbol"
  /\ address' = IF answer = Missing THEN Head(legs) ELSE answer
  /\ raced' = (raced \/ Wanted \in others)
  /\ UNCHANGED <<chainVars, creditVars, pid, scanVars, legs, histVars, labels>>

\* The dominant collateral is the symbol of the first of two legs; after the
\* last the position is reported.
GotSymbol(answer) ==
  /\ labels' = IF Len(legs) = 2 /\ ~ raced /\ Wanted \notin others
                 THEN labels \cup {[pool |-> Head(legs), label |-> answer]} ELSE labels
  /\ IF Len(legs) = 2
       THEN /\ pc' = "pool" /\ legs' = Tail(legs) /\ address' = Missing /\ raced' = FALSE
            /\ UNCHANGED <<chainVars, creditVars, pid, scanVars, histVars>>
       ELSE NextIndex /\ out' = Append(out, pid) /\ UNCHANGED failed

CacheHit ==
  /\ pc \in {"pool", "symbol"} /\ Known(Wanted)
  /\ \/ pc = "pool" /\ GotUnderlying(cache[Wanted])
     \/ pc = "symbol" /\ GotSymbol(cache[Wanted])
  /\ UNCHANGED cacheVars

CacheMiss ==
  /\ pc \in {"pool", "symbol"} /\ ~ Known(Wanted)
  /\ \/ pc = "pool" /\ pc' = "poolCall"
     \/ pc = "symbol" /\ pc' = "symbolCall"
  /\ UNCHANGED <<chainVars, creditVars, pid, scanVars, legVars, cacheVars, histVars,
                 labels>>

\* What the call returned is stored over whatever is there by now, and used.
CacheFill ==
  /\ pc \in {"poolCall", "symbolCall"}
  /\ \E answer \in {Answer(Wanted), Missing} :
       /\ Store(Wanted, answer)
       /\ \/ pc = "poolCall" /\ GotUnderlying(answer)
          \/ pc = "symbolCall" /\ GotSymbol(answer)
  /\ UNCHANGED others

\* Another thread's scan looks something up and finds nothing ...
OtherMisses(l) ==
  /\ ~ Known(l) /\ Cardinality(others) < MaxOthers
  /\ others' = others \cup {l}
  /\ UNCHANGED <<chainVars, creditVars, pc, pid, scanVars, legVars, cache, histVars, labels>>

\* ... and stores what it got, later; yet another may still be at the same.
OtherFills(l) ==
  /\ l \in others
  /\ \E answer \in {Answer(l), Missing} : Store(l, answer)
  /\ others' \in {others, others \ {l}}
  /\ UNCHANGED <<chainVars, creditVars, pc, pid, scanVars, legVars, histVars, labels>>

\* What no handler catches: the poller goes on without this protocol.
Escapes ==
  /\ pc # "idle"
  /\ pc' = "idle"
  /\ failed' = TRUE
  /\ total' = 0 /\ offset' = 0 /\ out' = <<>> /\ pid' = 0
  /\ ForgetCredits /\ ForgetLegs
  /\ UNCHANGED <<chainVars, cacheVars, burned, owing, labels>>

Next ==
  \/ Mint
  \/ \E i \in DOMAIN order : Burn(i)
  \/ \E p \in Ids, owes \in BOOLEAN : Owe(p, owes)
  \/ \E k \in CollCredits, d \in DebtCredits \cup {0} : Move(k, d)
  \/ BeginScan \/ IndexRead \/ IndexFails \/ ScanDone
  \/ BorrInfo \/ CollCredit \/ BorrCredit \/ Inactive \/ ReadFails
  \/ Legs \/ CacheHit \/ CacheMiss \/ CacheFill \/ Escapes
  \/ \E l \in Lookups : OtherMisses(l) \/ OtherFills(l)

Spec == Init /\ [][Next]_vars
-----------------------------------------------------------------------------
(* Properties *)

Result == {out[i] : i \in DOMAIN out}

\* Every variable has its type; the enumeration holds a token once, and a read
\* is under way exactly when there is a position being read.
TypeOK ==
  /\ minted \in 0..Cardinality(Ids)
  /\ order \in Seq(1..minted)
  /\ \A i, j \in DOMAIN order : order[i] = order[j] => i = j
  /\ debtors \subseteq Ids
  /\ pc \in {"idle", "index", "borrInfo", "collCredit", "borrCredit", "legs", "pool",
             "poolCall", "symbol", "symbolCall"}
  /\ total \in Nat /\ offset \in 0..ScanLimit
  /\ pc \notin {"idle", "index"} => offset < ScanLimit
  /\ pid \in Ids \cup {0} /\ (pid = 0 <=> pc \in {"idle", "index"})
  /\ {coll, debt, sawColl, sawDebt} \subseteq Nat /\ then \in Nat \X Nat
  /\ out \in Seq(Ids)
  /\ owing \subseteq Tokens \cap debtors

\* A position that owes throughout a scan is not overlooked, whatever is minted
\* and burned meanwhile, unless one of its calls fails.
NeverMissed ==
  (MaxPositions = 0 /\ pc = "index" /\ offset = ScanLimit /\ ~ failed) =>
     owing \subseteq Result

\* No position is reported twice, so that it would count twice in its zone: not
\* when positions are minted during the scan, only when one is burned.
NoTwins == ~ burned => Len(out) = Cardinality(Result)

\* a, a pair of credits, is at least as healthy as b.
AsHealthy(a, b) == a[1] * b[2] >= b[1] * a[2]

\* The health factor is put together from two calls.  It understates the risk of
\* both moments only if both credits fell in between, and overstates it only if
\* both rose: otherwise it lies between two health factors the position had.
HealthInBetween ==
  LET now == <<coll, debt>>
      saw == <<sawColl, sawDebt>>
  IN  pc = "legs" =>
        /\ \/ coll < then[1] /\ debt < then[2]
           \/ AsHealthy(then, saw) \/ AsHealthy(now, saw)
        /\ \/ coll > then[1] /\ debt > then[2]
           \/ AsHealthy(saw, then) \/ AsHealthy(saw, now)

\* A pool has one label: positions on the same first pool are in one bucket of
\* cascade detection, in every snapshot, also when a lookup fails.  Except for
\* labels from a lookup that another thread was making, too: two threads that
\* find nothing store one after the other, and one of them may have failed.
OneLabelPerPool ==
  \A a, b \in labels : a.pool = b.pool => a.label = b.label
=============================================================================
