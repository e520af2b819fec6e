------------------------- MODULE LendleDiscoveryProofs -------------------------
(***************************************************************************)
(* Proofs about the discovery of Lendle's borrowers, for every chain, every*)
(* window and chunk size and any number of threads on the one reader,      *)
(* failures and restarts: what a reader knows, and what its file holds, is *)
(* complete up to the last block.                                          *)
(***************************************************************************)
EXTENDS LendleDiscovery, FiniteSetTheorems, TLAPS

\* The logs of block b and topic e are accounted for.
Covered(b, e) == <<b, e>> \in missed \/ Logs[b][e] \subseteq known

\* A scan has covered what is below its chunk, back to its base, and of its
\* chunk the topics that were asked for.
Passed(t) ==
  /\ \A b \in reach[t]..(cursor[t] - 1), e \in Topics : Covered(b, e)
  /\ \A b \in ChunkOf(t), e \in Topics \ topics[t] : Covered(b, e)

Scanned == sound => \A t \in Threads : pc[t] = "scan" => Passed(t)

\* What is in the file, or is about to be written to it, is complete.
FileOK(f) == f.kind = "json" /\ f.whole => Complete(f.borrowers, f.base, f.last)
Saving == \A t \in Threads : FileOK(dump[t])

-----------------------------------------------------------------------------
\* A number of borrowers is a number.
LEMMA HowMany == known \subseteq Borrowers => Cardinality(known) \in Nat
BY BorrowersAssumption, FS_Subset, FS_CardinalityType

\* A chunk lies between its cursor and the latest block.
LEMMA ChunkFacts ==
  ASSUME TypeOK, NEW t \in Threads
  PROVE  /\ ChunkOf(t) \subseteq Blocks
         /\ cursor[t] + Chunk <= latest[t] => ChunkOf(t) = cursor[t]..(cursor[t] + Chunk - 1)
         /\ cursor[t] + Chunk > latest[t] => ChunkOf(t) = cursor[t]..latest[t]
BY NumbersAssumption DEF TypeOK, Blocks, ChunkOf, Lower

\* Logs name borrowers.
LEMMA NamedFacts ==
  ASSUME NEW B \in SUBSET Blocks, NEW e \in Topics
  PROVE  Named(B, e) \subseteq Borrowers /\ \A b \in B : Logs[b][e] \subseteq Named(B, e)
BY LogsAssumption DEF Named, Blocks

\* Only a whole file names a last block.
LEMMA FileFacts ==
  \A f \in Files :
    /\ f.borrowers \subseteq Borrowers /\ f.last \in Blocks \cup {None}
    /\ f.base \in Blocks /\ f.whole \in BOOLEAN
    /\ f.last # None => f.kind = "json"
<1>1. 0 \in Blocks
  BY NumbersAssumption DEF Blocks
<1>2. ASSUME NEW f \in {NoFile, EmptyFile, CorruptFile}
      PROVE  /\ f.borrowers = {} /\ f.last = None /\ f.base = 0 /\ f.whole = TRUE
  BY DEF File, NoFile, EmptyFile, CorruptFile
<1> QED
  BY <1>1, <1>2 DEF Files

\* The types are kept.
LEMMA TypeStep == TypeOK /\ [Next]_vars => TypeOK'
<1> SUFFICES ASSUME TypeOK, [Next]_vars PROVE TypeOK'
  OBVIOUS
<1> USE NumbersAssumption
      DEF TypeOK, Blocks, Files, File, None, NoFile, EmptyFile, CorruptFile,
          Reset, Base, history
<1>1. ASSUME MineBlock PROVE TypeOK'
  BY <1>1 DEF MineBlock, shared, locals
<1>2. ASSUME NEW t \in Threads, ReadLatest(t) PROVE TypeOK'
  BY <1>2 DEF ReadLatest, shared, Event
<1>3. ASSUME NEW t \in Threads, Resume(t) PROVE TypeOK'
  <2> DEFINE from == IF last # None THEN last + 1 ELSE Higher(0, latest[t] - Depth)
  <2>1. from \in Nat
    BY DEF Higher
  <2>2. CASE from >= latest[t]
    BY <1>3, <2>2 DEF Resume, shared
  <2>3. CASE from < latest[t]
    <3>1. from \in 0..MaxBlock
      BY <2>1, <2>3
    <3> HIDE DEF from
    <3>2. /\ pc' = [pc EXCEPT ![t] = "scan"] /\ cursor' = [cursor EXCEPT ![t] = from]
          /\ topics' = [topics EXCEPT ![t] = Topics]
          /\ reach' = [reach EXCEPT ![t] = Base(from)] /\ latest' = latest
      BY <1>3, <2>1, <2>3 DEF Resume, from
    <3> QED
      BY <1>3, <2>3, <3>1, <3>2 DEF Resume, shared
  <2> QED
    BY <2>1, <2>2, <2>3
<1>4. ASSUME NEW t \in Threads, NEW e \in topics[t], FetchLogs(t, e) PROVE TypeOK'
  <2>1. Named(ChunkOf(t), e) \subseteq Borrowers
    BY ChunkFacts, NamedFacts
  <2> QED
    BY <1>4, <2>1 DEF FetchLogs
<1>5. ASSUME NEW t \in Threads, NEW e \in topics[t], FetchFails(t, e) PROVE TypeOK'
  <2>1. ChunkOf(t) \X {e} \subseteq Blocks \X Topics
    BY ChunkFacts
  <2> QED
    BY <1>5, <2>1 DEF FetchFails, shared, Event
<1>6. ASSUME NEW t \in Threads, NextChunk(t) PROVE TypeOK'
  BY <1>6 DEF NextChunk, shared
<1>7. ASSUME NEW t \in Threads, Discovered(t) PROVE TypeOK'
  BY <1>7 DEF Discovered
<1>8. ASSUME NEW t \in Threads, DumpBorrowers(t) PROVE TypeOK'
  BY <1>8 DEF DumpBorrowers, shared
<1>9. ASSUME NEW t \in Threads, DumpLast(t) PROVE TypeOK'
  <2> DEFINE same == dump[t].last = last /\ dump[t].base = base
             f == File("json", dump[t].borrowers, last, base, dump[t].whole /\ same)
  <2>1. f \in Files
    BY FileFacts DEF Files
  <2>2. dump' = [dump EXCEPT ![t] = f] /\ pc' = [pc EXCEPT ![t] = "open"]
    BY <1>9 DEF DumpLast
  <2> HIDE DEF f
  <2> QED
    BY <1>9, <2>1, <2>2 DEF DumpLast, shared
<1>10. ASSUME NEW t \in Threads, Truncate(t) PROVE TypeOK'
  BY <1>10 DEF Truncate
<1>11. ASSUME NEW t \in Threads, Write(t) PROVE TypeOK'
  BY <1>11 DEF Write
<1>12. ASSUME NEW t \in Threads, SaveFails(t) PROVE TypeOK'
  BY <1>12 DEF SaveFails, shared, Event
<1>13. ASSUME NEW t \in Threads, StartReading(t) PROVE TypeOK'
  <2>1. Cardinality(known) \in Nat
    BY HowMany
  <2>2. /\ size' = [size EXCEPT ![t] = Cardinality(known)]
        /\ pc' = [pc EXCEPT ![t] = "loop"]
        /\ UNCHANGED <<head, shared, latest, cursor, topics, dump, reach, history, events>>
    BY <1>13 DEF StartReading
  <2>3. PICK n \in 0..Cardinality(known) : rest' = [rest EXCEPT ![t] = n]
    <3>1. (IF Capped THEN 0..Cardinality(known) ELSE {Cardinality(known)})
            \subseteq 0..Cardinality(known)
      BY <2>1
    <3> QED
      BY <1>13, <3>1 DEF StartReading
  <2> QED
    BY <2>1, <2>2, <2>3 DEF shared
<1>14. ASSUME NEW t \in Threads, ReadAccount(t) PROVE TypeOK'
  BY <1>14 DEF ReadAccount, shared
<1>15. ASSUME NEW t \in Threads, IterationFails(t) PROVE TypeOK'
  BY <1>15 DEF IterationFails, shared
<1>16. ASSUME NEW t \in Threads, ReadDone(t) PROVE TypeOK'
  BY <1>16 DEF ReadDone, shared
<1>17. ASSUME NEW t \in Threads, CallFails(t) PROVE TypeOK'
  BY <1>17 DEF CallFails, shared, Event
<1>18. ASSUME NEW t \in Threads, Return(t) PROVE TypeOK'
  BY <1>18 DEF Return, shared
<1>19. ASSUME Restart PROVE TypeOK'
  <2>1. disk \in Files
    OBVIOUS
  <2> QED
    BY <1>19, <2>1, FileFacts DEF Restart, Event
<1>20. CASE UNCHANGED vars
  BY <1>20 DEF vars, shared, locals
<1> QED
  BY <1>1, <1>2, <1>3, <1>4, <1>5, <1>6, <1>7, <1>8, <1>9, <1>10, <1>11,
     <1>12, <1>13, <1>14, <1>15, <1>16, <1>17, <1>18, <1>19, <1>20
  DEF Next, Discover, Save, Read

-----------------------------------------------------------------------------
(* Memory *)

\* Where the scan of thread u stands.
SameScan(u) ==
  /\ reach'[u] = reach[u] /\ cursor'[u] = cursor[u]
  /\ topics'[u] = topics[u] /\ latest'[u] = latest[u]

\* What is covered stays covered.
LEMMA StaysCovered ==
  ASSUME known \subseteq known', missed \subseteq missed'
  PROVE  \A b, e : Covered(b, e) => Covered(b, e)'
BY DEF Covered

\* A thread that stands still has passed what it had passed.
LEMMA StandsStill ==
  ASSUME known \subseteq known', missed \subseteq missed', NEW u \in Threads,
         Passed(u), SameScan(u)
  PROVE  Passed(u)'
<1>1. ChunkOf(u)' = ChunkOf(u)
  BY DEF ChunkOf, SameScan
<1> QED
  BY <1>1, StaysCovered DEF Passed, SameScan

\* So do all of them, when none moves.
LEMMA AllStandStill ==
  ASSUME Scanned, known \subseteq known', missed \subseteq missed', sound' = sound,
         \A u \in Threads : pc'[u] = "scan" => pc[u] = "scan" /\ SameScan(u)
  PROVE  Scanned'
BY StandsStill DEF Scanned

\* And when one moves, the others.
LEMMA OneMoves ==
  ASSUME Scanned, known \subseteq known', missed \subseteq missed', sound' = sound,
         NEW t \in Threads,
         \A u \in Threads \ {t} : pc'[u] = "scan" => pc[u] = "scan" /\ SameScan(u),
         sound => Passed(t)'
  PROVE  Scanned'
BY StandsStill DEF Scanned

\* The topics of a chunk that is fetched, or could not be.
LEMMA OneTopicLess ==
  ASSUME TypeOK, NEW t \in Threads, NEW e \in topics[t], pc[t] = "scan", Passed(t),
         known \subseteq known', missed \subseteq missed',
         reach' = reach, cursor' = cursor, latest' = latest,
         topics' = [topics EXCEPT ![t] = topics[t] \ {e}],
         \A b \in ChunkOf(t) : Covered(b, e)'
  PROVE  Passed(t)'
<1>1. ChunkOf(t)' = ChunkOf(t)
  BY DEF ChunkOf
<1>2. topics'[t] = topics[t] \ {e}
  BY DEF TypeOK
<1> QED
  BY <1>1, <1>2, StaysCovered DEF Passed

\* Scans cover what they pass, those that resume from a last block, too.
LEMMA ScannedStep == TypeOK /\ Scanned /\ MemoryComplete /\ [Next]_vars => Scanned'
<1> SUFFICES ASSUME TypeOK, Scanned, MemoryComplete, [Next]_vars PROVE Scanned'
  OBVIOUS
<1>1. ASSUME MineBlock PROVE Scanned'
  BY <1>1, AllStandStill DEF MineBlock, shared, locals, history, TypeOK, SameScan, Reset
<1>2. ASSUME NEW t \in Threads, ReadLatest(t) PROVE Scanned'
  BY <1>2, AllStandStill DEF ReadLatest, shared, history, TypeOK, SameScan, Reset
<1>3. ASSUME NEW t \in Threads, Resume(t) PROVE Scanned'
  <2>1. \A u \in Threads \ {t} : pc'[u] = "scan" => pc[u] = "scan" /\ SameScan(u)
    BY <1>3 DEF Resume, TypeOK, SameScan
  <2>2. CASE pc'[t] # "scan"
    BY <1>3, <2>1, <2>2, StandsStill DEF Resume, shared, history, Scanned
  <2>3. CASE pc'[t] = "scan"
    <3> DEFINE from == IF last # None THEN last + 1 ELSE Higher(0, latest[t] - Depth)
    <3>1. /\ cursor'[t] = from /\ topics'[t] = Topics /\ reach'[t] = Base(from)
          /\ from \in Int
      <4>1. from < latest[t] /\ from \in Int
        BY <1>3, <2>3, NumbersAssumption DEF Resume, TypeOK, Blocks, None, Higher
      <4> HIDE DEF from
      <4>2. /\ cursor' = [cursor EXCEPT ![t] = from]
            /\ topics' = [topics EXCEPT ![t] = Topics]
            /\ reach' = [reach EXCEPT ![t] = Base(from)]
        BY <1>3, <4>1 DEF Resume, from, TypeOK, Blocks
      <4> QED
        BY <4>1, <4>2 DEF TypeOK
    <3>2. ASSUME sound, NEW b \in reach'[t]..(cursor'[t] - 1), NEW e \in Topics
          PROVE  Covered(b, e)
      <4>1. last # None /\ b \in base..last
        BY <3>1, <3>2 DEF Base, TypeOK, Blocks
      <4> QED
        BY <3>2, <4>1 DEF MemoryComplete, Complete, Covered
    <3>3. known' = known /\ missed' = missed /\ sound' = sound
      BY <1>3 DEF Resume, shared, history
    <3>4. sound => Passed(t)'
      BY <3>1, <3>2, <3>3 DEF Passed, Covered
    <3> QED
      BY <2>1, <3>3, <3>4, OneMoves
  <2> QED
    BY <2>2, <2>3
<1>4. ASSUME NEW t \in Threads, NEW e \in topics[t], FetchLogs(t, e)
      PROVE  Scanned'
  <2>1. /\ known \subseteq known' /\ missed' = missed /\ sound' = sound
        /\ pc' = pc /\ pc[t] = "scan"
        /\ reach' = reach /\ cursor' = cursor /\ latest' = latest
        /\ topics' = [topics EXCEPT ![t] = topics[t] \ {e}]
    BY <1>4 DEF FetchLogs, history
  <2>2. \A b \in ChunkOf(t) : Covered(b, e)'
    BY <1>4, ChunkFacts, NamedFacts DEF FetchLogs, Covered, TypeOK
  <2>3. sound => Passed(t)'
    BY <2>1, <2>2, OneTopicLess DEF Scanned
  <2> QED
    BY <2>1, <2>3, OneMoves DEF TypeOK, SameScan
<1>5. ASSUME NEW t \in Threads, NEW e \in topics[t], FetchFails(t, e)
      PROVE  Scanned'
  <2>1. /\ known \subseteq known' /\ missed \subseteq missed' /\ sound' = sound
        /\ pc' = pc /\ pc[t] = "scan"
        /\ reach' = reach /\ cursor' = cursor /\ latest' = latest
        /\ topics' = [topics EXCEPT ![t] = topics[t] \ {e}]
    BY <1>5 DEF FetchFails, shared
  <2>2. \A b \in ChunkOf(t) : Covered(b, e)'
    BY <1>5 DEF FetchFails, Covered
  <2>3. sound => Passed(t)'
    BY <2>1, <2>2, OneTopicLess DEF Scanned
  <2> QED
    BY <2>1, <2>3, OneMoves DEF TypeOK, SameScan
<1>6. ASSUME NEW t \in Threads, NextChunk(t) PROVE Scanned'
  <2>1. /\ pc[t] = "scan" /\ reach'[t] = reach[t] /\ topics[t] = {}
        /\ cursor'[t] = cursor[t] + Chunk /\ topics'[t] = Topics
        /\ known' = known /\ missed' = missed /\ sound' = sound
    BY <1>6 DEF NextChunk, TypeOK, shared, history
  <2>2. \A u \in Threads \ {t} : pc'[u] = "scan" => pc[u] = "scan" /\ SameScan(u)
    BY <1>6 DEF NextChunk, TypeOK, SameScan
  <2>3. ChunkOf(t) = cursor[t]..(cursor[t] + Chunk - 1)
    BY <1>6, ChunkFacts DEF NextChunk
  <2>4. cursor[t] \in Nat /\ reach[t] \in Nat
    BY DEF TypeOK, Blocks
  <2>5. ASSUME sound, NEW b \in reach'[t]..(cursor'[t] - 1), NEW e \in Topics
        PROVE  Covered(b, e)
    <3>1. b \in reach[t]..(cursor[t] - 1) \/ b \in ChunkOf(t)
      BY <2>1, <2>3, <2>4, NumbersAssumption
    <3> QED
      BY <2>1, <2>5, <3>1 DEF Scanned, Passed
  <2>6. sound => Passed(t)'
    BY <2>1, <2>5 DEF Passed, Covered
  <2> QED
    BY <2>1, <2>2, <2>6, OneMoves
<1>7. ASSUME NEW t \in Threads, Discovered(t) PROVE Scanned'
  BY <1>7, AllStandStill DEF Discovered, shared, history, TypeOK, SameScan, Reset
<1>8. ASSUME NEW t \in Threads, DumpBorrowers(t) PROVE Scanned'
  BY <1>8, AllStandStill DEF DumpBorrowers, shared, history, TypeOK, SameScan, Reset
<1>9. ASSUME NEW t \in Threads, DumpLast(t) PROVE Scanned'
  BY <1>9, AllStandStill DEF DumpLast, shared, history, TypeOK, SameScan, Reset
<1>10. ASSUME NEW t \in Threads, Truncate(t) PROVE Scanned'
  BY <1>10, AllStandStill DEF Truncate, shared, history, TypeOK, SameScan, Reset
<1>11. ASSUME NEW t \in Threads, Write(t) PROVE Scanned'
  BY <1>11, AllStandStill DEF Write, shared, history, TypeOK, SameScan, Reset
<1>12. ASSUME NEW t \in Threads, SaveFails(t) PROVE Scanned'
  BY <1>12, AllStandStill DEF SaveFails, shared, history, TypeOK, SameScan, Reset
<1>13. ASSUME NEW t \in Threads, StartReading(t) PROVE Scanned'
  BY <1>13, AllStandStill DEF StartReading, shared, history, TypeOK, SameScan, Reset
<1>14. ASSUME NEW t \in Threads, ReadAccount(t) PROVE Scanned'
  BY <1>14, AllStandStill DEF ReadAccount, shared, history, TypeOK, SameScan, Reset
<1>15. ASSUME NEW t \in Threads, IterationFails(t) PROVE Scanned'
  BY <1>15, AllStandStill DEF IterationFails, shared, history, TypeOK, SameScan, Reset
<1>16. ASSUME NEW t \in Threads, ReadDone(t) PROVE Scanned'
  BY <1>16, AllStandStill DEF ReadDone, shared, history, TypeOK, SameScan, Reset
<1>17. ASSUME NEW t \in Threads, CallFails(t) PROVE Scanned'
  BY <1>17, AllStandStill DEF CallFails, shared, history, TypeOK, SameScan, Reset
<1>18. ASSUME NEW t \in Threads, Return(t) PROVE Scanned'
  BY <1>18, AllStandStill DEF Return, shared, history, TypeOK, SameScan, Reset
<1>19. ASSUME Restart PROVE Scanned'
  BY <1>19 DEF Restart, Scanned
<1>20. CASE UNCHANGED vars
  BY <1>20, AllStandStill DEF vars, shared, locals, history, TypeOK, SameScan, Reset
<1> QED
  BY <1>1, <1>2, <1>3, <1>4, <1>5, <1>6, <1>7, <1>8, <1>9, <1>10, <1>11,
     <1>12, <1>13, <1>14, <1>15, <1>16, <1>17, <1>18, <1>19, <1>20
  DEF Next, Discover, Save, Read

\* A scan that ends has covered all from its base to its latest block.
LEMMA MemoryStep ==
  TypeOK /\ Scanned /\ MemoryComplete /\ DiskComplete /\ [Next]_vars => MemoryComplete'
<1> SUFFICES ASSUME TypeOK, Scanned, MemoryComplete, DiskComplete, [Next]_vars
      PROVE MemoryComplete'
  OBVIOUS
<1> USE DEF MemoryComplete, Complete
<1>1. ASSUME MineBlock PROVE MemoryComplete'
  BY <1>1 DEF MineBlock, shared, locals, history
<1>2. ASSUME NEW t \in Threads, ReadLatest(t) PROVE MemoryComplete'
  BY <1>2 DEF ReadLatest, shared, history
<1>3. ASSUME NEW t \in Threads, Resume(t) PROVE MemoryComplete'
  BY <1>3 DEF Resume, shared, history
<1>4. ASSUME NEW t \in Threads, NEW e \in topics[t], FetchLogs(t, e)
      PROVE  MemoryComplete'
  BY <1>4 DEF FetchLogs, shared, history
<1>5. ASSUME NEW t \in Threads, NEW e \in topics[t], FetchFails(t, e)
      PROVE  MemoryComplete'
  BY <1>5 DEF FetchFails, shared, history
<1>6. ASSUME NEW t \in Threads, NextChunk(t) PROVE MemoryComplete'
  BY <1>6 DEF NextChunk, shared, history
<1>7. ASSUME NEW t \in Threads, Discovered(t) PROVE MemoryComplete'
  <2>1. /\ pc[t] = "scan" /\ topics[t] = {} /\ known' = known /\ missed' = missed
        /\ last' = latest[t] /\ base' = reach[t] /\ sound' = sound
    BY <1>7 DEF Discovered
  <2>2. ChunkOf(t) = cursor[t]..latest[t]
    BY <1>7, ChunkFacts DEF Discovered
  <2>3. latest[t] \in Nat /\ reach[t] \in Nat /\ cursor[t] \in Nat
    BY DEF TypeOK, Blocks
  <2>4. ASSUME sound, NEW b \in reach[t]..latest[t], NEW e \in Topics
        PROVE  Covered(b, e)
    <3>1. b \in reach[t]..(cursor[t] - 1) \/ b \in ChunkOf(t)
      BY <2>2, <2>3
    <3> QED
      BY <2>1, <2>4, <3>1 DEF Scanned, Passed
  <2> QED
    BY <2>1, <2>4 DEF Covered
<1>8. ASSUME NEW t \in Threads, DumpBorrowers(t) PROVE MemoryComplete'
  BY <1>8 DEF DumpBorrowers, shared, history
<1>9. ASSUME NEW t \in Threads, DumpLast(t) PROVE MemoryComplete'
  BY <1>9 DEF DumpLast, shared, history
<1>10. ASSUME NEW t \in Threads, Truncate(t) PROVE MemoryComplete'
  BY <1>10 DEF Truncate, shared, history
<1>11. ASSUME NEW t \in Threads, Write(t) PROVE MemoryComplete'
  BY <1>11 DEF Write, shared, history
<1>12. ASSUME NEW t \in Threads, SaveFails(t) PROVE MemoryComplete'
  BY <1>12 DEF SaveFails, shared, history
<1>13. ASSUME NEW t \in Threads, StartReading(t) PROVE MemoryComplete'
  BY <1>13 DEF StartReading, shared, history
<1>14. ASSUME NEW t \in Threads, ReadAccount(t) PROVE MemoryComplete'
  BY <1>14 DEF ReadAccount, shared, history
<1>15. ASSUME NEW t \in Threads, IterationFails(t) PROVE MemoryComplete'
  BY <1>15 DEF IterationFails, shared, history
<1>16. ASSUME NEW t \in Threads, ReadDone(t) PROVE MemoryComplete'
  BY <1>16 DEF ReadDone, shared, history
<1>17. ASSUME NEW t \in Threads, CallFails(t) PROVE MemoryComplete'
  BY <1>17 DEF CallFails, shared, history
<1>18. ASSUME NEW t \in Threads, Return(t) PROVE MemoryComplete'
  BY <1>18 DEF Return, shared, history
<1>19. ASSUME Restart PROVE MemoryComplete'
  BY <1>19, FileFacts DEF Restart, DiskComplete, TypeOK
<1>20. CASE UNCHANGED vars
  BY <1>20 DEF vars, shared, locals, history
<1> QED
  BY <1>1, <1>2, <1>3, <1>4, <1>5, <1>6, <1>7, <1>8, <1>9, <1>10, <1>11,
     <1>12, <1>13, <1>14, <1>15, <1>16, <1>17, <1>18, <1>19, <1>20
  DEF Next, Discover, Save, Read

-----------------------------------------------------------------------------
(* The file *)

\* A file stays complete.
LEMMA FileStays ==
  ASSUME NEW f, FileOK(f), missed \subseteq missed'
  PROVE  FileOK(f)'
BY DEF FileOK, Complete

\* Nothing that is to be saved changes.
LEMMA SavingStays ==
  ASSUME Saving, missed \subseteq missed', dump' = dump
  PROVE  Saving'
BY FileStays DEF Saving

\* One of the files changes.
LEMMA OneDumped ==
  ASSUME Saving, TypeOK, missed' = missed, NEW t \in Threads, NEW f, FileOK(f),
         dump' = [dump EXCEPT ![t] = f]
  PROVE  Saving'
<1>1. \A u \in Threads : dump'[u] = f \/ dump'[u] = dump[u]
  BY DEF TypeOK
<1> QED
  BY <1>1, FileStays DEF Saving

\* What is to be saved is complete, unless it is torn.
LEMMA SavingStep == TypeOK /\ MemoryComplete /\ Saving /\ [Next]_vars => Saving'
<1> SUFFICES ASSUME TypeOK, MemoryComplete, Saving, [Next]_vars PROVE Saving'
  OBVIOUS
<1>0. FileOK(NoFile)
  BY DEF FileOK, NoFile, File
<1>1. ASSUME MineBlock PROVE Saving'
  BY <1>1, SavingStays DEF MineBlock, shared, locals, history
<1>2. ASSUME NEW t \in Threads, ReadLatest(t) PROVE Saving'
  BY <1>2, SavingStays DEF ReadLatest, shared, history
<1>3. ASSUME NEW t \in Threads, Resume(t) PROVE Saving'
  BY <1>3, SavingStays DEF Resume, shared, history
<1>4. ASSUME NEW t \in Threads, NEW e \in topics[t], FetchLogs(t, e)
      PROVE  Saving'
  BY <1>4, SavingStays DEF FetchLogs, shared, history
<1>5. ASSUME NEW t \in Threads, NEW e \in topics[t], FetchFails(t, e)
      PROVE  Saving'
  BY <1>5, SavingStays DEF FetchFails
<1>6. ASSUME NEW t \in Threads, NextChunk(t) PROVE Saving'
  BY <1>6, SavingStays DEF NextChunk, shared, history
<1>7. ASSUME NEW t \in Threads, Discovered(t) PROVE Saving'
  BY <1>7, SavingStays DEF Discovered, shared, history
<1>8. ASSUME NEW t \in Threads, DumpBorrowers(t) PROVE Saving'
  <2>1. ASSUME sound PROVE Complete(known, base, last)
    <3>1. CASE last = None
      <4>1. base..last = {}
        BY <3>1 DEF None, TypeOK, Blocks
      <4> QED
        BY <4>1 DEF Complete
    <3>2. CASE last # None
      BY <2>1, <3>2 DEF MemoryComplete
    <3> QED
      BY <3>1, <3>2
  <2>2. FileOK(File("json", known, last, base, sound))
    BY <2>1 DEF FileOK, File
  <2> QED
    BY <1>8, <2>2, OneDumped DEF DumpBorrowers, history
<1>9. ASSUME NEW t \in Threads, DumpLast(t) PROVE Saving'
  <2> DEFINE same == dump[t].last = last /\ dump[t].base = base
             f == File("json", dump[t].borrowers, last, base, dump[t].whole /\ same)
  <2>1. FileOK(dump[t]) /\ dump[t].kind = "json"
    BY <1>9 DEF DumpLast, Saving, TypeOK
  <2>2. FileOK(f)
    BY <2>1 DEF FileOK, File
  <2>3. dump' = [dump EXCEPT ![t] = f]
    BY <1>9 DEF DumpLast
  <2> HIDE DEF f
  <2> QED
    BY <1>9, <2>2, <2>3, OneDumped DEF DumpLast, history
<1>10. ASSUME NEW t \in Threads, Truncate(t) PROVE Saving'
  BY <1>10, SavingStays DEF Truncate, shared, history
<1>11. ASSUME NEW t \in Threads, Write(t) PROVE Saving'
  BY <1>11, <1>0, OneDumped DEF Write, Reset, history
<1>12. ASSUME NEW t \in Threads, SaveFails(t) PROVE Saving'
  BY <1>12, <1>0, OneDumped DEF SaveFails, Reset, history
<1>13. ASSUME NEW t \in Threads, StartReading(t) PROVE Saving'
  BY <1>13, SavingStays DEF StartReading, shared, history
<1>14. ASSUME NEW t \in Threads, ReadAccount(t) PROVE Saving'
  BY <1>14, SavingStays DEF ReadAccount, shared, history
<1>15. ASSUME NEW t \in Threads, IterationFails(t) PROVE Saving'
  BY <1>15, SavingStays DEF IterationFails, shared, history
<1>16. ASSUME NEW t \in Threads, ReadDone(t) PROVE Saving'
  BY <1>16, SavingStays DEF ReadDone, shared, history
<1>17. ASSUME NEW t \in Threads, CallFails(t) PROVE Saving'
  BY <1>17, SavingStays DEF CallFails, shared, history
<1>18. ASSUME NEW t \in Threads, Return(t) PROVE Saving'
  BY <1>18, SavingStays DEF Return, shared, history
<1>19. ASSUME Restart PROVE Saving'
  <2>1. FileOK(NoFile)'
    BY <1>0, FileStays, <1>19 DEF Restart
  <2> QED
    BY <1>19, <2>1 DEF Restart, Saving
<1>20. CASE UNCHANGED vars
  BY <1>20, SavingStays DEF vars, shared, locals, history
<1> QED
  BY <1>1, <1>2, <1>3, <1>4, <1>5, <1>6, <1>7, <1>8, <1>9, <1>10, <1>11,
     <1>12, <1>13, <1>14, <1>15, <1>16, <1>17, <1>18, <1>19, <1>20
  DEF Next, Discover, Save, Read

\* The file is as complete as what was to be saved.
LEMMA DiskStep == TypeOK /\ Saving /\ DiskComplete /\ [Next]_vars => DiskComplete'
<1> SUFFICES ASSUME TypeOK, Saving, FileOK(disk), [Next]_vars PROVE FileOK(disk)'
  BY DEF DiskComplete, FileOK
<1>1. ASSUME MineBlock PROVE FileOK(disk)'
  BY <1>1, FileStays DEF MineBlock, shared, locals, history
<1>2. ASSUME NEW t \in Threads, ReadLatest(t) PROVE FileOK(disk)'
  BY <1>2, FileStays DEF ReadLatest, shared, history
<1>3. ASSUME NEW t \in Threads, Resume(t) PROVE FileOK(disk)'
  BY <1>3, FileStays DEF Resume, shared, history
<1>4. ASSUME NEW t \in Threads, NEW e \in topics[t], FetchLogs(t, e)
      PROVE  FileOK(disk)'
  BY <1>4, FileStays DEF FetchLogs, shared, history
<1>5. ASSUME NEW t \in Threads, NEW e \in topics[t], FetchFails(t, e)
      PROVE  FileOK(disk)'
  BY <1>5, FileStays DEF FetchFails, shared, history
<1>6. ASSUME NEW t \in Threads, NextChunk(t) PROVE FileOK(disk)'
  BY <1>6, FileStays DEF NextChunk, shared, history
<1>7. ASSUME NEW t \in Threads, Discovered(t) PROVE FileOK(disk)'
  BY <1>7, FileStays DEF Discovered, shared, history
<1>8. ASSUME NEW t \in Threads, DumpBorrowers(t) PROVE FileOK(disk)'
  BY <1>8, FileStays DEF DumpBorrowers, shared, history
<1>9. ASSUME NEW t \in Threads, DumpLast(t) PROVE FileOK(disk)'
  BY <1>9, FileStays DEF DumpLast, shared, history
<1>10. ASSUME NEW t \in Threads, Truncate(t) PROVE FileOK(disk)'
  BY <1>10 DEF Truncate, FileOK, EmptyFile, File
<1>11. ASSUME NEW t \in Threads, Write(t) PROVE FileOK(disk)'
  <2>1. FileOK(dump[t]) /\ FileOK(CorruptFile)
    BY DEF Saving, FileOK, CorruptFile, File
  <2>2. disk' = dump[t] \/ disk' = CorruptFile
    BY <1>11 DEF Write
  <2> QED
    BY <1>11, <2>1, <2>2, FileStays DEF Write, history
<1>12. ASSUME NEW t \in Threads, SaveFails(t) PROVE FileOK(disk)'
  BY <1>12, FileStays DEF SaveFails, shared, history
<1>13. ASSUME NEW t \in Threads, StartReading(t) PROVE FileOK(disk)'
  BY <1>13, FileStays DEF StartReading, shared, history
<1>14. ASSUME NEW t \in Threads, ReadAccount(t) PROVE FileOK(disk)'
  BY <1>14, FileStays DEF ReadAccount, shared, history
<1>15. ASSUME NEW t \in Threads, IterationFails(t) PROVE FileOK(disk)'
  BY <1>15, FileStays DEF IterationFails, shared, history
<1>16. ASSUME NEW t \in Threads, ReadDone(t) PROVE FileOK(disk)'
  BY <1>16, FileStays DEF ReadDone, shared, history
<1>17. ASSUME NEW t \in Threads, CallFails(t) PROVE FileOK(disk)'
  BY <1>17, FileStays DEF CallFails, shared, history
<1>18. ASSUME NEW t \in Threads, Return(t) PROVE FileOK(disk)'
  BY <1>18, FileStays DEF Return, shared, history
<1>19. ASSUME Restart PROVE FileOK(disk)'
  BY <1>19, FileStays DEF Restart, shared, history
<1>20. CASE UNCHANGED vars
  BY <1>20, FileStays DEF vars, shared, locals, history
<1> QED
  BY <1>1, <1>2, <1>3, <1>4, <1>5, <1>6, <1>7, <1>8, <1>9, <1>10, <1>11,
     <1>12, <1>13, <1>14, <1>15, <1>16, <1>17, <1>18, <1>19, <1>20
  DEF Next, Discover, Save, Read

-----------------------------------------------------------------------------
(* The theorems *)

Inductive == TypeOK /\ Scanned /\ MemoryComplete /\ Saving /\ DiskComplete

\* The invariants hold of the initial state.
LEMMA Initially == Init => Inductive
<1> SUFFICES ASSUME Init PROVE Inductive
  OBVIOUS
<1>1. TypeOK
  BY NumbersAssumption DEF Init, TypeOK, Blocks, Files, NoFile, File, None
<1>2. Scanned /\ MemoryComplete
  BY DEF Init, Scanned, MemoryComplete
<1>3. Saving /\ DiskComplete
  BY DEF Init, Saving, FileOK, DiskComplete, NoFile, File
<1> QED
  BY <1>1, <1>2, <1>3 DEF Inductive

LEMMA Always == Spec => []Inductive
<1>1. Inductive /\ [Next]_vars => Inductive'
  BY TypeStep, ScannedStep, MemoryStep, SavingStep, DiskStep DEF Inductive
<1> QED
  BY <1>1, Initially, PTL DEF Spec

\* The types: a scan does not pass its latest block (lendle.py:219-256).
THEOREM TypeCorrect == Spec => []TypeOK
<1>1. Inductive => TypeOK
  BY DEF Inductive
<1> QED
  BY <1>1, Always, PTL

\* Any number of threads on the one reader, whatever fails and wherever a
\* process ends: the scans leave no gap between the base and the last block,
\* which only a scan that found no last block sets anew (lendle.py:145-262).
THEOREM NobodyLost == Spec => []MemoryComplete
<1>1. Inductive => MemoryComplete
  BY DEF Inductive
<1> QED
  BY <1>1, Always, PTL

\* The same of the file, unless a scan ended between the reads of its two parts
\* (lendle.py:180-188).
THEOREM FileComplete == Spec => []DiskComplete
<1>1. Inductive => DiskComplete
  BY DEF Inductive
<1> QED
  BY <1>1, Always, PTL
=============================================================================
