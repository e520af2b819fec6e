--------------------------- MODULE LendleDiscovery ---------------------------
(***************************************************************************)
(* LendleReader of app/services/lendle.py: the discovery of borrowers from *)
(* the logs of the lending pool, the cache file, and the read that         *)
(* iterates over the set of borrowers.  One reader object is shared by the *)
(* executor threads that run read_all_positions: the one of the poll loop  *)
(* and the ones of POST /diagnostics/snapshot.                             *)
(*                                                                         *)
(* One log fetch is one step (its borrowers enter the set together), and   *)
(* so is every access to the shared fields and to the file.  A local       *)
(* variable is reset where the code uses it for the last time.             *)
(***************************************************************************)
EXTENDS Integers, FiniteSets

CONSTANTS Threads,     \* executor threads in read_all_positions
          Requests,    \* those of POST /diagnostics/snapshot
          Topics,      \* DISCOVERY_EVENTS: their places in that list
          Borrowers,
          Logs,        \* [block, topic -> borrowers that the logs name]
          Depth,       \* discovery_block_window
          Chunk,       \* max_log_chunk
          Capped,      \* max_positions is set: the loop is over a list
          StartBlock,  \* the chain's height when the model starts
          MaxBlock,    \* bound of the model: the chain ends here
          MaxEvents    \* bound of the model: failures, crashes and requests

ASSUME NumbersAssumption ==
  /\ Depth \in Nat /\ Chunk \in Nat \ {0}
  /\ StartBlock \in Nat /\ MaxBlock \in Nat /\ StartBlock <= MaxBlock
  /\ MaxEvents \in Nat
ASSUME TopicsAssumption == Topics \subseteq Nat
ASSUME CappedAssumption == Capped \in BOOLEAN
ASSUME BorrowersAssumption == IsFiniteSet(Borrowers)
ASSUME LogsAssumption == Logs \in [0..MaxBlock -> [Topics -> SUBSET Borrowers]]

None == -1           \* _last_discovery_to_block is None
\* The cache file.  Two fields are history: base is that of the scans it stems
\* from, whole says that both its parts were read between two scans.
File(k, S, n, b, w) ==
  [kind |-> k, borrowers |-> S, last |-> n, base |-> b, whole |-> w]
NoFile == File("none", {}, None, 0, TRUE)
EmptyFile == File("empty", {}, None, 0, TRUE)
CorruptFile == File("corrupt", {}, None, 0, TRUE)

VARIABLES head,    \* the chain's newest block
          known,   \* _known_borrowers
          last,    \* _last_discovery_to_block
          disk,    \* the cache file
          pc,      \* per thread: where it is in read_all_positions
          latest,  \* per thread: discover_borrowers' local latest
          cursor,  \* per thread: chunk_start
          topics,  \* per thread: events of this chunk still to fetch
          dump,    \* per thread: the payload of _save_borrower_cache
          size,    \* per thread: the size of the set its iteration started with
          rest,    \* per thread: how many borrowers it has still to read
          missed,  \* history: <<block, topic>> whose fetch failed
          base,    \* history: where the scan that began without a last block
                   \* began, and all that were resumed since go on from
          reach,   \* history, per thread: the base of its scan
          sound,   \* history: the process did not start from a torn file
          events   \* failures, crashes and requests so far

shared == <<known, last, disk>>
locals == <<pc, latest, cursor, topics, dump, size, rest, reach>>
history == <<missed, base, sound>>
vars == <<head, shared, locals, history, events>>

Lower(a, b) == IF a < b THEN a ELSE b
Higher(a, b) == IF a < b THEN b ELSE a

Event == events < MaxEvents /\ events' = events + 1

\* The blocks of the chunk that thread t fetches.
ChunkOf(t) == cursor[t]..Lower(cursor[t] + Chunk - 1, latest[t])

\* What the logs of the blocks B name under topic e.
Named(B, e) == UNION {Logs[b][e] : b \in B}

-----------------------------------------------------------------------------
Init ==
  /\ head = StartBlock
  /\ known = {} /\ last = None
  /\ disk = NoFile
  /\ pc = [t \in Threads |-> "idle"]
  /\ latest = [t \in Threads |-> 0]
  /\ cursor = [t \in Threads |-> 0]
  /\ topics = [t \in Threads |-> {}]
  /\ dump = [t \in Threads |-> NoFile]
  /\ size = [t \in Threads |-> 0]
  /\ rest = [t \in Threads |-> 0]
  /\ reach = [t \in Threads |-> 0]
  /\ missed = {} /\ base = 0 /\ sound = TRUE
  /\ events = 0

MineBlock ==
  /\ head < MaxBlock
  /\ head' = head + 1
  /\ UNCHANGED <<shared, locals, history, events>>

(* discover_borrowers *)

\* The block number is read: everything below uses this value.  The poll loop
\* reads again and again, a request once.
ReadLatest(t) ==
  /\ pc[t] = "idle"
  /\ IF t \in Requests THEN Event ELSE UNCHANGED events
  /\ pc' = [pc EXCEPT ![t] = "from"]
  /\ latest' = [latest EXCEPT ![t] = head]
  /\ UNCHANGED <<head, shared, cursor, topics, dump, size, rest, reach,
                 history>>

\* A local variable that is not used any more.
Reset(f, t, x) == [f EXCEPT ![t] = x]

\* Where a scan from a block on reaches back to: it goes on from the base, or is
\* one itself.
Base(from) == IF last # None THEN base ELSE from

\* Mutant: a scan waits until there is a whole chunk of new blocks.
Resume_WholeChunks(t) ==
  /\ pc[t] = "from"
  /\ LET from == IF last # None THEN last + 1
                                ELSE Higher(0, latest[t] - Depth)
     IN IF from + Chunk > latest[t]
          THEN /\ pc' = [pc EXCEPT ![t] = "read"]
               /\ latest' = [latest EXCEPT ![t] = 0]
               /\ UNCHANGED <<cursor, topics, reach>>
          ELSE /\ pc' = [pc EXCEPT ![t] = "scan"]
               /\ cursor' = [cursor EXCEPT ![t] = from]
               /\ topics' = [topics EXCEPT ![t] = Topics]
               /\ reach' = [reach EXCEPT ![t] = Base(from)]
               /\ UNCHANGED latest
  /\ UNCHANGED <<head, shared, dump, size, rest, history, events>>

\* Mutant: no scan ever goes back further than the window.
Resume_WithinWindow(t) ==
  /\ pc[t] = "from"
  /\ LET from == Higher(IF last # None THEN last + 1 ELSE 0, latest[t] - Depth)
     IN IF from >= latest[t]
          THEN /\ pc' = [pc EXCEPT ![t] = "read"]
               /\ latest' = [latest EXCEPT ![t] = 0]
               /\ UNCHANGED <<cursor, topics, reach>>
          ELSE /\ pc' = [pc EXCEPT ![t] = "scan"]
               /\ cursor' = [cursor EXCEPT ![t] = from]
               /\ topics' = [topics EXCEPT ![t] = Topics]
               /\ reach' = [reach EXCEPT ![t] = Base(from)]
               /\ UNCHANGED latest
  /\ UNCHANGED <<head, shared, dump, size, rest, history, events>>

\* from_block, from the shared last block; nothing to do if it is not behind.
Resume(t) ==
  /\ pc[t] = "from"
  /\ LET from == IF last # None THEN last + 1
                                ELSE Higher(0, latest[t] - Depth)
     IN IF from >= latest[t]
          THEN /\ pc' = [pc EXCEPT ![t] = "read"]
               /\ latest' = [latest EXCEPT ![t] = 0]
               /\ UNCHANGED <<cursor, topics, reach>>
          ELSE /\ pc' = [pc EXCEPT ![t] = "scan"]
               /\ cursor' = [cursor EXCEPT ![t] = from]
               /\ topics' = [topics EXCEPT ![t] = Topics]
               /\ reach' = [reach EXCEPT ![t] = Base(from)]
               /\ UNCHANGED latest
  /\ UNCHANGED <<head, shared, dump, size, rest, history, events>>

FetchLogs(t, e) ==
  /\ pc[t] = "scan"
  /\ e \in topics[t] /\ \A f \in topics[t] : e <= f
  /\ known' = known \cup Named(ChunkOf(t), e)
  /\ topics' = [topics EXCEPT ![t] = @ \ {e}]
  /\ UNCHANGED <<head, last, disk, pc, latest, cursor, dump, size, rest, reach,
                 history, events>>

\* get_logs raises: logged, and on with the next topic.
FetchFails(t, e) ==
  /\ pc[t] = "scan"
  /\ e \in topics[t] /\ \A f \in topics[t] : e <= f
  /\ Event
  /\ missed' = missed \cup (ChunkOf(t) \X {e})
  /\ topics' = [topics EXCEPT ![t] = @ \ {e}]
  /\ UNCHANGED <<head, shared, pc, latest, cursor, dump, size, rest, reach,
                 base,
                 sound>>

NextChunk(t) ==
  /\ pc[t] = "scan"
  /\ topics[t] = {}
  /\ cursor[t] + Chunk <= latest[t]
  /\ cursor' = [cursor EXCEPT ![t] = @ + Chunk]
  /\ topics' = [topics EXCEPT ![t] = Topics]
  /\ UNCHANGED <<head, shared, pc, latest, dump, size, rest, reach, history,
                 events>>

\* The scan is over: its last block is the last block discovered.
Discovered(t) ==
  /\ pc[t] = "scan"
  /\ topics[t] = {}
  /\ cursor[t] + Chunk > latest[t]
  /\ last' = latest[t]
  /\ base' = reach[t]
  /\ pc' = [pc EXCEPT ![t] = "dump"]
  /\ latest' = Reset(latest, t, 0) /\ cursor' = Reset(cursor, t, 0)
  /\ reach' = Reset(reach, t, 0)
  /\ UNCHANGED <<head, known, disk, topics, dump, size, rest, missed, sound,
                 events>>

(* _save_borrower_cache *)

\* The payload's two fields are read one after the other; its last block of
\* this moment only serves the history.
DumpBorrowers(t) ==
  /\ pc[t] = "dump"
  /\ dump' = [dump EXCEPT ![t] = File("json", known, last, base, sound)]
  /\ pc' = [pc EXCEPT ![t] = "dumpLast"]
  /\ UNCHANGED <<head, shared, latest, cursor, topics, size, rest, reach,
                 history, events>>

\* Mutant: the file gets the chain's height in place of the last block scanned.
DumpLast_Head(t) ==
  /\ pc[t] = "dumpLast"
  /\ dump' = [dump EXCEPT ![t].last = head]
  /\ pc' = [pc EXCEPT ![t] = "open"]
  /\ UNCHANGED <<head, shared, latest, cursor, topics, size, rest, reach,
                 history, events>>

DumpLast(t) ==
  /\ pc[t] = "dumpLast"
  /\ LET same == dump[t].last = last /\ dump[t].base = base
     IN dump' = [dump EXCEPT ![t] = File("json", @.borrowers, last, base,
                                         @.whole /\ same)]
  /\ pc' = [pc EXCEPT ![t] = "open"]
  /\ UNCHANGED <<head, shared, latest, cursor, topics, size, rest, reach,
                 history, events>>

\* write_text opens the file, which truncates it ...
Truncate(t) ==
  /\ pc[t] = "open"
  /\ disk' = EmptyFile
  /\ pc' = [pc EXCEPT ![t] = "write"]
  /\ UNCHANGED <<head, known, last, latest, cursor, topics, dump, size, rest,
                 reach, history, events>>

\* ... and writes from its start: over what another thread has written since,
\* the tail of which stays behind when it was longer.
Write(t) ==
  /\ pc[t] = "write"
  /\ disk' = IF \/ disk.kind = "empty"
                \/ /\ disk.kind = "json"
                   /\ Cardinality(disk.borrowers) <=
                        Cardinality(dump[t].borrowers)
               THEN dump[t] ELSE CorruptFile
  /\ pc' = [pc EXCEPT ![t] = "read"]
  /\ dump' = Reset(dump, t, NoFile)
  /\ UNCHANGED <<head, known, last, latest, cursor, topics, size, rest,
                 reach, history, events>>

\* The file cannot be opened or written: OSError is logged.
SaveFails(t) ==
  /\ pc[t] \in {"open", "write"}
  /\ Event
  /\ pc' = [pc EXCEPT ![t] = "read"]
  /\ dump' = Reset(dump, t, NoFile)
  /\ UNCHANGED <<head, shared, latest, cursor, topics, size, rest, reach,
                 history>>

(* read_all_positions *)

\* The loop starts: over the live set, or over a list made from it.
StartReading(t) ==
  /\ pc[t] = "read"
  /\ size' = [size EXCEPT ![t] = Cardinality(known)]
  /\ \E n \in IF Capped THEN 0..Cardinality(known) ELSE {Cardinality(known)} :
        rest' = [rest EXCEPT ![t] = n]
  /\ pc' = [pc EXCEPT ![t] = "loop"]
  /\ UNCHANGED <<head, shared, latest, cursor, topics, dump, reach, history,
                 events>>

\* CPython refuses to go on iterating over a set whose size has changed, at
\* every call of the iterator, the last one included.
SetChanged(t) == ~ Capped /\ Cardinality(known) # size[t]

ReadAccount(t) ==
  /\ pc[t] = "loop"
  /\ rest[t] > 0
  /\ ~ SetChanged(t)
  /\ rest' = [rest EXCEPT ![t] = @ - 1]
  /\ UNCHANGED <<head, shared, pc, latest, cursor, topics, dump, size, reach,
                 history, events>>

\* Set iteration raises "Set changed size during iteration".
IterationFails(t) ==
  /\ pc[t] = "loop"
  /\ SetChanged(t)
  /\ pc' = [pc EXCEPT ![t] = "failed"]
  /\ UNCHANGED <<head, shared, latest, cursor, topics, dump, size, rest, reach,
                 history, events>>

ReadDone(t) ==
  /\ pc[t] = "loop"
  /\ rest[t] = 0
  /\ ~ SetChanged(t)
  /\ pc' = [pc EXCEPT ![t] = "done"]
  /\ UNCHANGED <<head, shared, latest, cursor, topics, dump, size, rest, reach,
                 history, events>>

\* A call that is not guarded raises: the block number, or an account.
CallFails(t) ==
  /\ \/ pc[t] = "idle"
     \/ pc[t] = "loop" /\ rest[t] > 0
  /\ Event
  /\ pc' = [pc EXCEPT ![t] = "failed"]
  /\ UNCHANGED <<head, shared, latest, cursor, topics, dump, size, rest, reach,
                 history>>

\* The caller takes the result or the exception; a later cycle reads again.
Return(t) ==
  /\ pc[t] \in {"done", "failed"}
  /\ pc' = Reset(pc, t, "idle")
  /\ size' = Reset(size, t, 0) /\ rest' = Reset(rest, t, 0)
  /\ UNCHANGED <<head, shared, latest, cursor, topics, dump, reach, history,
                 events>>

\* The process dies; the next one loads the file (_load_borrower_cache) and
\* treats one it cannot parse like one that is not there.
Restart ==
  /\ Event
  /\ known' = disk.borrowers
  /\ last' = disk.last
  /\ base' = disk.base /\ sound' = disk.whole
  /\ pc' = [t \in Threads |-> "idle"]
  /\ latest' = [t \in Threads |-> 0]
  /\ cursor' = [t \in Threads |-> 0]
  /\ topics' = [t \in Threads |-> {}]
  /\ dump' = [t \in Threads |-> NoFile]
  /\ size' = [t \in Threads |-> 0]
  /\ rest' = [t \in Threads |-> 0]
  /\ reach' = [t \in Threads |-> 0]
  /\ UNCHANGED <<head, disk, missed>>

Discover(t) ==
  \/ ReadLatest(t) \/ Resume(t) \/ NextChunk(t) \/ Discovered(t)
  \/ \E e \in topics[t] : FetchLogs(t, e) \/ FetchFails(t, e)

Save(t) ==
  \/ DumpBorrowers(t) \/ DumpLast(t) \/ Truncate(t) \/ Write(t) \/ SaveFails(t)

Read(t) ==
  \/ StartReading(t) \/ IterationFails(t) \/ ReadDone(t) \/ CallFails(t)
  \/ ReadAccount(t)
  \/ Return(t)

Next ==
  \/ \E t \in Threads : Discover(t) \/ Save(t) \/ Read(t)
  \/ MineBlock
  \/ Restart

Spec == Init /\ [][Next]_vars

Step(t) == Discover(t) \/ Save(t) \/ Read(t)

\* Every call that the poll loop makes returns or raises in the end, and the loop
\* starts its thread again; of the requests' threads nothing is assumed.
LiveSpec == Spec /\ \A t \in Threads \ Requests : WF_vars(Step(t))

-----------------------------------------------------------------------------
(* Properties *)

Blocks == 0..MaxBlock
Files ==
  {NoFile, EmptyFile, CorruptFile} \cup
  [kind : {"json"}, borrowers : SUBSET Borrowers,
   last : Blocks \cup {None}, base : Blocks, whole : BOOLEAN]

\* Every variable has its type, and a thread that scans has not passed its
\* latest block.
TypeOK ==
  /\ head \in Blocks
  /\ known \subseteq Borrowers
  /\ last \in Blocks \cup {None}
  /\ disk \in Files
  /\ pc \in [Threads -> {"idle", "from", "scan", "dump", "dumpLast", "open",
                         "write", "read", "loop", "done", "failed"}]
  /\ latest \in [Threads -> Blocks]
  /\ cursor \in [Threads -> Blocks]
  /\ topics \in [Threads -> SUBSET Topics]
  /\ dump \in [Threads -> Files]
  /\ size \in [Threads -> Nat]
  /\ rest \in [Threads -> Nat]
  /\ missed \subseteq Blocks \X Topics
  /\ base \in Blocks
  /\ sound \in BOOLEAN
  /\ reach \in [Threads -> Blocks]
  /\ events \in 0..MaxEvents
  /\ \A t \in Threads :
       /\ pc[t] = "scan" => cursor[t] <= latest[t]
       /\ pc[t] = "dumpLast" => dump[t].kind = "json"

\* The borrowers S account for every log of the blocks b..n that was fetched.
Complete(S, b, n) ==
  \A i \in b..n : \A e \in Topics :
     <<i, e>> \in missed \/ Logs[i][e] \subseteq S

\* A block at or below the last block discovered is never scanned again, so the
\* borrowers of all of them must be known by then, back to where the discovery
\* began without a last block: the threads that resume from a last block, which
\* may move back under them, leave no gap, and a restart from the file none,
\* except where a fetch failed or the file was torn.
MemoryComplete == sound /\ last # None => Complete(known, base, last)

\* The same holds of the file, from which a later process goes on, unless it is
\* torn: another thread's scan ended while its two parts were read.
DiskComplete ==
  disk.kind = "json" /\ disk.whole =>
    Complete(disk.borrowers, disk.base, disk.last)

\* The discovery keeps up with the chain, whatever failed before: it is at most
\* the newest block behind (which it leaves for the next cycle).
CatchesUp == <>[](last # None /\ last >= head - 1)

\* "We track the last block scanned": what is at or below it was scanned.
LastBlockScanned ==
  last # None =>
    \A b \in base..last : \A e \in Topics : Logs[b][e] \subseteq known
=============================================================================
