----------------------------- MODULE StorageWAL -----------------------------
(***************************************************************************)
(* The write path of the Badger storage and its write-ahead log            *)
(* (internal/storage/badger/storage.go): the writers in                    *)
(* storeWorkUnitInternal, storeContextInternal and storeLockInternal, the  *)
(* goroutine processWAL with its batch, the WAL file, Badger, the shutdown *)
(* of all of them, and NewStorage with its replay after a restart.         *)
(*                                                                         *)
(* Badger is opened with SyncWrites(false): a commit survives the death of *)
(* the process, and survives a power loss once Badger has flushed it.      *)
(***************************************************************************)
EXTENDS Integers, Sequences, FiniteSets, FiniteSetsExt

CONSTANTS
    MaxWriters,     \* bound: the calls that store records at the same time
    Contexts,       \* keys that are written again and again: contexts, locks
    WorkUnits,      \* keys that are written once: work unit UUIDs
    BatchSize,      \* config.WALBatchSize
    MaxWrites,      \* bound: writes in a behaviour
    Shutdowns,      \* whether the engine may be shut down
    ProcessCrashes, \* whether the process may die
    PowerLosses     \* whether the machine may lose power

VARIABLES
    status,     \* "down", "open" after NewStorage, "running" after Start
    walDone,    \* channel walDone is closed
    shutdown,   \* how far Shutdown has come
    walEntries, \* the buffered channel of that name
    batch,      \* processWAL's batch
    proc,       \* where processWAL is
    wal,        \* the entries in the WAL file
    synced,     \* how many of them an fsync has covered
    torn,       \* the file ends in the middle of an entry
    db,         \* the version Badger holds of each key, 0 for none
    flushed,    \* the versions that survive a power loss
    writers,    \* the writes that calls are in the middle of
    next,       \* the next version; versions number the writes
    issued,     \* the UUIDs of work units generated so far
    acked       \* the latest version of each key whose caller was told of success

walVars == <<walEntries, batch, proc, wal, synced, torn>>
lifeVars == <<status, walDone, shutdown>>
vars == <<lifeVars, walVars, db, flushed, writers, next, issued, acked>>

ASSUME BatchSizeAssumption == BatchSize \in Nat \ {0}
ASSUME MaxWritesAssumption == {MaxWriters, MaxWrites} \subseteq Nat
ASSUME KeysAssumption == Contexts \cap WorkUnits = {}
ASSUME FailureSwitches ==
    {Shutdowns, ProcessCrashes, PowerLosses} \subseteq BOOLEAN

----------------------------------------------------------------------------
Keys == Contexts \cup WorkUnits
Versions == 1..MaxWrites

Entry == [key : Keys, ver : Versions]

Write == [stage : {"logged", "committed"}, key : Keys, ver : Versions]

\* i counts the iterations of the drain loop; then is where processWAL goes
\* once the fsync it is in returns.
Proc == [at : {"none", "select", "drain", "sync", "stop"}, i : 0..BatchSize,
         then : {"select", "drain", "stop"}]

At(place) == [at |-> place, i |-> 0, then |-> "select"]

Up == status # "down"
FileOpen == shutdown \notin {"fileClosed", "dbClosed", "done"}
DBOpen == shutdown \notin {"dbClosed", "done"}
StreamOpen == shutdown # "done"

Init ==
    /\ status = "down"
    /\ walDone = FALSE
    /\ shutdown = "no"
    /\ walEntries = <<>>
    /\ batch = <<>>
    /\ proc = At("none")
    /\ wal = <<>>
    /\ synced = 0
    /\ torn = FALSE
    /\ db = [k \in Keys |-> 0]
    /\ flushed = [k \in Keys |-> 0]
    /\ writers = {}
    /\ next = 1
    /\ issued = {}
    /\ acked = [k \in Keys |-> 0]

----------------------------------------------------------------------------
\* Opening

\* Mutant: the last entry of the file is not read.
ReplayedShort ==
    [k \in Keys |->
        LET hits == {i \in 1..(Len(wal) - 1) : wal[i].key = k}
        IN IF hits = {} THEN db[k] ELSE wal[Max(hits)].ver]

\* replayWAL stores every entry of the file again, in the file's order.
Replayed ==
    [k \in Keys |->
        LET hits == {i \in 1..Len(wal) : wal[i].key = k}
        IN IF hits = {} THEN db[k] ELSE wal[Max(hits)].ver]

\* NewStorage.  A torn entry at the end is an error: the storage stays down.
NewStorage ==
    /\ status = "down"
    /\ ~torn
    /\ status' = "open"
    /\ db' = Replayed
    /\ UNCHANGED <<walDone, shutdown, walVars, flushed, writers, next, issued,
                   acked>>

\* Start launches processWAL and waits for its context.
Start ==
    /\ status = "open"
    /\ status' = "running"
    /\ proc' = At("select")
    /\ UNCHANGED <<walDone, shutdown, walEntries, batch, wal, synced, torn, db,
                   flushed, writers, next, issued, acked>>

----------------------------------------------------------------------------
\* Writers: store...Internal(record, true)

\* The record is sent to the log; the send blocks while the channel is full.
Log(k) ==
    /\ Up
    /\ Cardinality(writers) < MaxWriters
    /\ next <= MaxWrites
    /\ k \notin issued
    /\ Len(walEntries) < 2 * BatchSize
    /\ walEntries' = Append(walEntries, [key |-> k, ver |-> next])
    /\ writers' = writers \cup {[stage |-> "logged", key |-> k, ver |-> next]}
    /\ next' = next + 1
    /\ issued' = issued \cup ({k} \cap WorkUnits)
    /\ UNCHANGED <<lifeVars, batch, proc, wal, synced, torn, db, flushed, acked>>

\* The Badger transaction; on a closed database it is an error to the caller.
Commit(w) ==
    /\ w.stage = "logged"
    /\ \/ /\ DBOpen
          /\ db' = [db EXCEPT ![w.key] = w.ver]
          /\ writers' = (writers \ {w}) \cup {[w EXCEPT !.stage = "committed"]}
       \/ /\ ~DBOpen
          /\ writers' = writers \ {w}
          /\ UNCHANGED db
    /\ UNCHANGED <<lifeVars, walVars, flushed, next, issued, acked>>

\* The caller gets its answer.  A work unit is sent to the event stream first,
\* which panics when the stream is closed (see Panic).
Ack(w) ==
    /\ w.stage = "committed"
    /\ StreamOpen \/ w.key \notin WorkUnits
    /\ acked' = [acked EXCEPT ![w.key] = Max({@, w.ver})]
    /\ writers' = writers \ {w}
    /\ UNCHANGED <<lifeVars, walVars, db, flushed, next, issued>>

----------------------------------------------------------------------------
\* processWAL

\* Mutant: the batch is not emptied after it is written.
SyncWALBatchKeeps(b, place) ==
    /\ batch' = b
    /\ \/ /\ b # <<>>
          /\ FileOpen
          /\ wal' = wal \o b
          /\ proc' = [At("sync") EXCEPT !.then = place]
       \/ /\ b = <<>> \/ ~FileOpen
          /\ proc' = At(place)
          /\ UNCHANGED wal

\* syncWALBatch(b), then on to place: nothing to do for an empty batch, an
\* error that drops the batch when the file is closed, a write that an fsync
\* follows otherwise.
SyncWALBatch(b, place) ==
    /\ batch' = <<>>
    /\ \/ /\ b # <<>>
          /\ FileOpen
          /\ wal' = wal \o b
          /\ proc' = [At("sync") EXCEPT !.then = place]
       \/ /\ b = <<>> \/ ~FileOpen
          /\ proc' = At(place)
          /\ UNCHANGED wal

\* Mutant: a batch that is full is not synced by the case that fills it.
TakeEntryOverfills ==
    /\ proc.at = "select"
    /\ walEntries # <<>>
    /\ walEntries' = Tail(walEntries)
    /\ batch' = Append(batch, Head(walEntries))
    /\ proc' = At("drain")
    /\ UNCHANGED <<lifeVars, wal, synced, torn, db, flushed, writers, next, issued,
                   acked>>

\* case entry := <-s.walEntries: sync when the batch is full or too old.
TakeEntry ==
    LET b == Append(batch, Head(walEntries))
    IN /\ proc.at = "select"
       /\ walEntries # <<>>
       /\ walEntries' = Tail(walEntries)
       /\ \/ SyncWALBatch(b, "drain")
          \/ /\ Len(b) < BatchSize
             /\ batch' = b
             /\ proc' = At("drain")
             /\ UNCHANGED wal
       /\ UNCHANGED <<lifeVars, synced, torn, db, flushed, writers, next, issued,
                      acked>>

\* Mutant: the ticker case does not sync.
FlushNothing ==
    /\ proc.at = "select"
    /\ proc' = At("drain")
    /\ UNCHANGED <<lifeVars, walEntries, batch, wal, synced, torn, db, flushed,
                   writers, next, issued, acked>>

\* case <-ticker.C and case <-s.walSync: sync what there is.
Flush ==
    /\ proc.at = "select"
    /\ SyncWALBatch(batch, "drain")
    /\ UNCHANGED <<lifeVars, walEntries, synced, torn, db, flushed, writers, next,
                   issued, acked>>

\* case <-s.walDone: "Final flush before shutdown", then return.
FinalFlush ==
    /\ proc.at = "select"
    /\ walDone
    /\ SyncWALBatch(batch, "stop")
    /\ UNCHANGED <<lifeVars, walEntries, synced, torn, db, flushed, writers, next,
                   issued, acked>>

\* Mutant: the drain loop puts the entry it takes in front of the batch.
DrainPrepends ==
    LET b == <<Head(walEntries)>> \o batch
    IN /\ proc.at = "drain"
       /\ IF proc.i < BatchSize - Len(batch) /\ walEntries # <<>>
          THEN /\ walEntries' = Tail(walEntries)
               /\ IF Len(b) >= BatchSize
                  THEN SyncWALBatch(b, "select")
                  ELSE /\ batch' = b
                       /\ proc' = [proc EXCEPT !.i = proc.i + 1]
                       /\ UNCHANGED wal
          ELSE /\ proc' = At("select")
               /\ UNCHANGED <<walEntries, batch, wal>>
       /\ UNCHANGED <<lifeVars, synced, torn, db, flushed, writers, next, issued,
                      acked>>

\* One iteration of the drain loop, or its end.
Drain ==
    LET b == Append(batch, Head(walEntries))
    IN /\ proc.at = "drain"
       /\ IF proc.i < BatchSize - Len(batch) /\ walEntries # <<>>
          THEN /\ walEntries' = Tail(walEntries)
               /\ IF Len(b) >= BatchSize
                  THEN SyncWALBatch(b, "select")
                  ELSE /\ batch' = b
                       /\ proc' = [proc EXCEPT !.i = proc.i + 1]
                       /\ UNCHANGED wal
          ELSE /\ proc' = At("select")
               /\ UNCHANGED <<walEntries, batch, wal>>
       /\ UNCHANGED <<lifeVars, synced, torn, db, flushed, writers, next, issued,
                      acked>>

\* walFile.Sync(): fails when Shutdown has closed the file.
Fsync ==
    /\ proc.at = "sync"
    /\ synced' = IF FileOpen THEN Len(wal) ELSE synced
    /\ proc' = At(proc.then)
    /\ UNCHANGED <<lifeVars, walEntries, batch, wal, torn, db, flushed, writers,
                   next, issued, acked>>

ProcessWAL == TakeEntry \/ Flush \/ FinalFlush \/ Drain \/ Fsync

----------------------------------------------------------------------------
\* Shutdown

\* The context ends: Start closes walDone and returns.
Cancel ==
    /\ Shutdowns
    /\ status = "running"
    /\ ~walDone
    /\ walDone' = TRUE
    /\ UNCHANGED <<status, shutdown, walVars, db, flushed, writers, next, issued,
                   acked>>

\* Shutdown closes walSync, waits for walDone, and closes the file, Badger and
\* the event stream one after the other.
ShutdownStep(from, to) ==
    /\ shutdown = from
    /\ shutdown' = to
    /\ UNCHANGED <<status, walDone, walVars, db, writers, next, issued, acked>>

ShutdownCall ==
    /\ Shutdowns
    /\ status = "running"
    /\ ShutdownStep("no", "called")
    /\ UNCHANGED flushed

CloseFile == walDone /\ ShutdownStep("called", "fileClosed") /\ UNCHANGED flushed

CloseDB == ShutdownStep("fileClosed", "dbClosed") /\ flushed' = db

CloseStream == ShutdownStep("dbClosed", "done") /\ UNCHANGED flushed

----------------------------------------------------------------------------
\* The end of the process

\* What is only in memory is gone.
ProcessEnds ==
    /\ status' = "down"
    /\ walDone' = FALSE
    /\ shutdown' = "no"
    /\ walEntries' = <<>>
    /\ batch' = <<>>
    /\ proc' = At("none")
    /\ writers' = {}
    /\ UNCHANGED <<next, issued, acked>>

\* Shutdown has returned, also because its context ended while it waited for
\* walDone, and main returns; or the process dies.  Both files stay as they are.
Exit ==
    /\ Up
    /\ ProcessCrashes \/ shutdown \in {"called", "done"}
    /\ ProcessEnds
    /\ UNCHANGED <<wal, synced, torn, db, flushed>>

\* send on closed channel: eventStream
Panic ==
    /\ ~StreamOpen
    /\ \E w \in writers : w.stage = "committed" /\ w.key \in WorkUnits
    /\ ProcessEnds
    /\ UNCHANGED <<wal, synced, torn, db, flushed>>

\* The machine loses power: of what was written to the WAL file and not synced
\* an initial part remains, perhaps ending within an entry.
PowerLoss ==
    /\ PowerLosses
    /\ Up
    /\ ProcessEnds
    /\ \E n \in synced..Len(wal) :
          /\ wal' = SubSeq(wal, 1, n)
          /\ synced' = n
          /\ torn' \in (IF n < Len(wal) THEN BOOLEAN ELSE {FALSE})
    /\ db' = flushed
    /\ UNCHANGED flushed

\* Badger writes its tables in the background.
BadgerFlush ==
    /\ Up
    /\ flushed' = db
    /\ UNCHANGED <<lifeVars, walVars, db, writers, next, issued, acked>>

Next ==
    \/ NewStorage \/ Start
    \/ \E k \in Keys : Log(k)
    \/ \E w \in writers : Commit(w) \/ Ack(w)
    \/ TakeEntry \/ Flush \/ FinalFlush \/ Drain \/ Fsync
    \/ Cancel \/ ShutdownCall \/ CloseFile \/ CloseDB \/ CloseStream
    \/ Exit \/ Panic \/ PowerLoss \/ BadgerFlush

Spec == Init /\ [][Next]_vars

\* processWAL keeps running while the process does; Go's select
\* has a random choice among the ready cases, which the ticker makes sure is
\* made again and again.
FairSpec == Spec /\ WF_vars(ProcessWAL)

----------------------------------------------------------------------------
\* Properties

TypeOK ==
    /\ status \in {"down", "open", "running"}
    /\ walDone \in BOOLEAN
    /\ shutdown \in {"no", "called", "fileClosed", "dbClosed", "done"}
    /\ walEntries \in Seq(Entry)
    /\ Len(walEntries) <= 2 * BatchSize
    /\ batch \in Seq(Entry)
    /\ Len(batch) < BatchSize
    /\ proc \in Proc
    /\ wal \in Seq(Entry)
    /\ synced \in 0..Len(wal)
    /\ torn \in BOOLEAN
    /\ db \in [Keys -> 0..MaxWrites]
    /\ flushed \in [Keys -> 0..MaxWrites]
    /\ writers \subseteq Write
    /\ next \in 1..(MaxWrites + 1)
    /\ issued \in SUBSET WorkUnits
    /\ acked \in [Keys -> 0..MaxWrites]

\* The writes that are on their way to the file, behind those that are in it.
Pipeline == wal \o batch \o walEntries

\* The log keeps the order of the writes: batches, drain loops, crashes and
\* restarts never put a write before an earlier one or log one twice.
LogInOrder ==
    \A i, j \in 1..Len(Pipeline) : i < j => Pipeline[i].ver < Pipeline[j].ver

\* A work unit whose entry is in the file is in Badger too whenever storage is
\* usable and nobody is in the middle of storing it: however the process ended
\* before, replay has brought it back.
LoggedIsStored ==
    Up /\ DBOpen =>
        \A i \in 1..Len(wal) :
            wal[i].key \in WorkUnits =>
                \/ db[wal[i].key] = wal[i].ver
                \/ \E w \in writers : w.stage = "logged" /\ w.ver = wal[i].ver

\* The write path implements a durable log: nothing durable is ever undone or
\* reordered, and entries are lost only by a crash, a shutdown or a closed file.
WriteAheadLog == INSTANCE DurableLog WITH
            Entries <- Entry,
            log <- SubSeq(wal, 1, synced),
            pending <- SubSeq(Pipeline, synced + 1, Len(Pipeline))

ImplementsDurableLog == WriteAheadLog!Spec

\* Every write sent to the log becomes durable, unless the process ends or is
\* told to shut down first.
EventuallyDurable ==
    \A v \in Versions :
        (\E i \in 1..Len(walEntries) : walEntries[i].ver = v) ~>
            \/ \E i \in 1..synced : wal[i].ver = v
            \/ status # "running"
            \/ walDone

\* SPECS.md:283: "The system state MUST be recoverable after restarts or
\* failures."  With one writer the versions of a key are acknowledged in order,
\* and the one Badger has is never older than one that was acknowledged.
AckedWritesSurvive ==
    Up => \A k \in Keys : db[k] >= acked[k]
=============================================================================
