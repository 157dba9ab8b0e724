-------------------------- MODULE RollbackJournal --------------------------
(***************************************************************************)
(* The pager of the storage engine (pager.c) in the mode both stores of    *)
(* the app use: a rollback journal that is deleted at commit, full         *)
(* synchronisation, normal locking.  Several connections, each of its own  *)
(* process, read and write one database file.                              *)
(*                                                                         *)
(* A writer copies a page to the journal before it changes it in memory,   *)
(* has the journal on the disk before it writes the database file, and the *)
(* file on the disk before it deletes the journal, which commits.  Whoever *)
(* opens the file first after a crash finds a journal without a writer and *)
(* puts the old pages back.                                                *)
(*                                                                         *)
(* One action is what happens between two calls of the operating system.   *)
(* A page's content is the transaction that wrote it.                      *)
(***************************************************************************)
EXTENDS FileLocks, FiniteSets, Sequences

CONSTANTS
    InitSizes,        \* the sizes the database file may have to begin with, in pages
    MaxPages,         \* bound: pages
    MaxTransactions,  \* bound: transactions, the one that made the file counted
    MaxCrashes,       \* bound: processes that die and losses of power
    MaxFaults         \* bound: writes, syncs and deletes that fail

ASSUME PagerBounds == /\ MaxPages \in Nat \ {0}
                      /\ InitSizes \subseteq 0..MaxPages
                      /\ MaxTransactions \in Nat \ {0}
                      /\ {MaxCrashes, MaxFaults} \subseteq Nat

VARIABLES
    file, journal,   \* the database file and its journal as every process sees them
    disk, jdisk,     \* what of them has been synced
    pager,           \* the Pager of each connection
    txns,            \* transactions begun
    crashes, faults  \* counters of the bounds

vars == <<lock, file, journal, disk, jdisk, pager, txns, crashes, faults>>
files == <<file, journal, disk, jdisk>>
counters == <<txns, crashes, faults>>

Pages == 1..MaxPages
Beyond == 0                    \* a page past the end of the file, or not in the cache
Torn == MaxTransactions + 1    \* a page whose write was cut short
NoPages == [p \in Pages |-> Beyond]

Size(f) == IF \A p \in Pages : f[p] = Beyond THEN 0
           ELSE CHOOSE p \in Pages : f[p] # Beyond /\ \A q \in Pages : f[q] # Beyond => q <= p
Truncated(f, n) == [p \in Pages |-> IF p <= n THEN f[p] ELSE Beyond]

-----------------------------------------------------------------------------
(* The journal: segments of page records, each counting only once its      *)
(* header has been written.                                                *)

NoJournal == [exists |-> FALSE, txn |-> 0, size |-> 0, segs |-> <<>>]
\* A journal that was deleted: what remains is the size the file had then.
Deleted == [NoJournal EXCEPT !.size = Size(file)]
UnwrittenHeader == [valid |-> FALSE, recs |-> {}]
NewJournal(t, n) == [exists |-> TRUE, txn |-> t, size |-> n, segs |-> <<UnwrittenHeader>>]

Record(p, c) == [page |-> p, content |-> c]

\* The first byte of the first header tells a journal that has pages to play back.
HasHeader(j) == j.exists /\ j.segs[1].valid

\* Playback stops at a header that was not written and at a record that fails its checksum.
Playable(j) ==
    LET whole(i) == j.segs[i].valid /\ \A r \in j.segs[i].recs : r.content # Torn
        read == {i \in DOMAIN j.segs : j.segs[i].valid /\ \A k \in 1..(i - 1) : whole(k)}
    IN {r \in UNION {j.segs[i].recs : i \in read} : r.content # Torn}

\* The records of the first n segments.
Records(j, n) == UNION {j.segs[i].recs : i \in 1..n}

Restored(f, recs) ==
    [p \in Pages |-> IF \E r \in recs : r.page = p
                     THEN (CHOOSE r \in recs : r.page = p).content ELSE f[p]]

\* The pages a reader finds, after what it must play back.
Recovered(f, j) == IF HasHeader(j) THEN Truncated(Restored(f, Playable(j)), j.size) ELSE f

-----------------------------------------------------------------------------
(* The pager.                                                              *)

Closed == [eState |-> "OPEN", at |-> "idle", op |-> "none", cache |-> NoPages, dbFileVers |-> Beyond,
           hasHeldSharedLock |-> FALSE, dbSize |-> 0, dbOrigSize |-> 0, inJournal |-> {},
           dirty |-> {}, needSync |-> {}, synced |-> 0, todo |-> {}, txn |-> 0]

\* The fields a transaction leaves behind are cleared when it ends.
NoTransaction(pg) == [pg EXCEPT !.op = "none", !.dbOrigSize = 0, !.inJournal = {}, !.dirty = {},
                                !.needSync = {}, !.synced = 0, !.todo = {}, !.txn = 0]

Becomes(c, pg) == pager' = [pager EXCEPT ![c] = pg]
Goes(c, place) == Becomes(c, [pager[c] EXCEPT !.at = place])
At(c, place) == pager[c].at = place

\* pager_unlock: the cache is kept for the next reader, unless an error made it worthless.
Unlocked(pg) ==
    [NoTransaction(pg) EXCEPT !.eState = "OPEN", !.at = "idle",
                              !.cache = IF pg.eState = "ERROR" THEN NoPages ELSE @]
Unlocks(c) == /\ lock' = [lock EXCEPT ![c] = NO_LOCK]
              /\ Becomes(c, Unlocked(pager[c]))

-----------------------------------------------------------------------------
(* sqlite3PagerSharedLock: a reader begins.                                *)

TakeShared(c) ==
    /\ pager[c].eState = "OPEN" /\ At(c, "idle")
    /\ Obtain(c, SHARED_LOCK)
    /\ Goes(c, "lookForJournal")
    /\ UNCHANGED <<files, counters>>

\* hasHotJournal: is there a journal ...
LookForJournal(c) ==
    /\ At(c, "lookForJournal")
    /\ Goes(c, IF journal.exists THEN "lookForWriter" ELSE "validate")
    /\ UNCHANGED <<lock, files, counters>>

\* ... and no writer it belongs to?
LookForWriter(c) ==
    LET writer == \E o \in Others(c) : lock[o] \in Writers IN
    /\ At(c, "lookForWriter")
    /\ Goes(c, CASE writer                    -> "validate"
                 [] ~writer /\ Size(file) = 0 -> "stray"
                 [] OTHER                     -> "readHeader")
    /\ UNCHANGED <<lock, files, counters>>

\* Faulty: the journal of an empty file is deleted without a lock.
StrayUnlocked(c) ==
    /\ At(c, "stray")
    /\ journal' = Deleted
    /\ Goes(c, "validate")
    /\ UNCHANGED <<lock, file, disk, jdisk, counters>>

\* The journal of an empty file is deleted by whoever gets RESERVED.
Stray(c) ==
    /\ At(c, "stray")
    /\ \/ Obtain(c, RESERVED_LOCK) /\ Goes(c, "deleteStray")
       \/ ~MayObtain(c, RESERVED_LOCK) /\ UNCHANGED lock /\ Goes(c, "validate")
    /\ UNCHANGED <<files, counters>>

DeleteStray(c) ==
    /\ At(c, "deleteStray")
    /\ \/ journal.exists /\ journal' = Deleted /\ UNCHANGED <<lock, pager>>
       \/ ~journal.exists /\ Release(c, SHARED_LOCK) /\ Goes(c, "validate") /\ UNCHANGED journal
    /\ UNCHANGED <<file, disk, jdisk, counters>>

\* A journal that has gone meanwhile is taken for hot: it is looked at again under EXCLUSIVE.
ReadHeader(c) ==
    /\ At(c, "readHeader")
    /\ IF journal.exists /\ ~HasHeader(journal)
       THEN Goes(c, "validate")
       ELSE Becomes(c, [pager[c] EXCEPT !.at = "exclusive", !.op = "hot"])
    /\ UNCHANGED <<lock, files, counters>>

\* The change counter, which the codec makes unique, tells whether the cache still holds.
ValidCache(pg) == IF pg.hasHeldSharedLock /\ pg.dbFileVers # file[1] THEN NoPages ELSE pg.cache

\* The b-tree layer reads page 1 at once and keeps it.
Validate(c) ==
    /\ At(c, "validate")
    /\ Becomes(c, [pager[c] EXCEPT !.eState = "READER", !.at = "idle", !.op = "none",
                                   !.cache = [ValidCache(pager[c]) EXCEPT ![1] = file[1]],
                                   !.dbFileVers = file[1],
                                   !.hasHeldSharedLock = TRUE,
                                   !.dbSize = Size(file)])
    /\ UNCHANGED <<lock, files, counters>>

Writing(c) == pager[c].eState \in {"WRITER_LOCKED", "WRITER_CACHEMOD", "WRITER_DBMOD"} /\ At(c, "idle")
InUse(c) == (pager[c].eState = "READER" /\ At(c, "idle")) \/ Writing(c)

\* A page that is not in the cache is read from the file, by a reader or a writer.
Get(c, p) ==
    /\ InUse(c)
    /\ p <= pager[c].dbSize
    /\ pager[c].cache[p] = Beyond
    /\ Becomes(c, [pager[c] EXCEPT !.cache[p] = file[p]])
    /\ UNCHANGED <<lock, files, counters>>

\* A clean page that nobody uses (never page 1) makes room for another.
Recycle(c, p) ==
    /\ InUse(c)
    /\ p # 1 /\ p \notin pager[c].dirty
    /\ pager[c].cache[p] # Beyond
    /\ Becomes(c, [pager[c] EXCEPT !.cache[p] = Beyond])
    /\ UNCHANGED <<lock, files, counters>>

EndRead(c) ==
    /\ pager[c].eState = "READER" /\ At(c, "idle")
    /\ Unlocks(c)
    /\ UNCHANGED <<files, counters>>

-----------------------------------------------------------------------------
(* EXCLUSIVE, for which the pager asks on four occasions: a hot journal,   *)
(* BEGIN EXCLUSIVE, a full cache, a commit.                                *)

\* Where an operation goes on under EXCLUSIVE.
Onward(op) == CASE op = "hot" -> "openJournal" [] op = "begin" -> "idle"
               [] op \in {"spill", "commit"} -> "syncRecords"

Resume(c) ==
    LET pg == [pager[c] EXCEPT !.at = Onward(pager[c].op)] IN
    Becomes(c, IF pg.op = "begin" THEN [pg EXCEPT !.eState = "WRITER_LOCKED", !.op = "none"] ELSE pg)

\* A hot journal must not be rolled back under RESERVED: it would look like a writer's.
Wait(c) == IF pager[c].op = "hot" THEN RECOVERY_LOCK ELSE PENDING_LOCK

TakePending(c) ==
    /\ At(c, "exclusive")
    /\ Obtain(c, Wait(c))
    /\ UNCHANGED <<files, pager, counters>>

TakeExclusive(c) ==
    /\ At(c, "exclusive")
    /\ Obtain(c, EXCLUSIVE_LOCK)
    /\ Resume(c)
    /\ UNCHANGED <<files, counters>>

\* SQLITE_BUSY.  A hot journal is left alone and a BEGIN is undone; a page that does not
\* fit stays in memory; a commit leaves the transaction open, to be committed again.
Busy(c) ==
    /\ At(c, "exclusive")
    /\ ~MayObtain(c, IF lock[c] \in Waiters THEN EXCLUSIVE_LOCK ELSE Wait(c))
    /\ IF pager[c].op \in {"hot", "begin"}
       THEN Unlocks(c)
       ELSE /\ Becomes(c, [pager[c] EXCEPT !.at = "idle", !.op = "none", !.todo = {}])
            /\ UNCHANGED lock
    /\ UNCHANGED <<files, counters>>

-----------------------------------------------------------------------------
(* A write transaction.                                                    *)

\* sqlite3PagerBegin.  BEGIN EXCLUSIVE, with which the encrypted store saves, goes on to
\* ask for EXCLUSIVE.
Begin(c, exFlag) ==
    /\ pager[c].eState = "READER" /\ At(c, "idle")
    /\ txns < MaxTransactions
    /\ Obtain(c, RESERVED_LOCK)
    /\ txns' = txns + 1
    /\ LET pg == [pager[c] EXCEPT !.dbOrigSize = pager[c].dbSize, !.txn = txns + 1] IN
       Becomes(c, IF exFlag THEN [pg EXCEPT !.at = "exclusive", !.op = "begin"]
                  ELSE [pg EXCEPT !.eState = "WRITER_LOCKED"])
    /\ UNCHANGED <<files, crashes, faults>>

\* pager_open_journal, before the first page is written.
Opened(pg) == IF pg.eState = "WRITER_LOCKED" THEN [pg EXCEPT !.eState = "WRITER_CACHEMOD"] ELSE pg
OpenJournal(pg) == IF pg.eState = "WRITER_LOCKED" THEN NewJournal(pg.txn, pg.dbOrigSize) ELSE journal

\* A page the file had when the transaction began, and that is not in the journal yet.
MustJournal(pg, p) == p <= pg.dbOrigSize /\ p \notin pg.inJournal

\* It may be written to the file only after the journal has been synced; so may a page
\* that makes the file longer, until the first sync has put the old size on the disk.
NeedsSync(pg, p) == MustJournal(pg, p) \/ (p > pg.dbOrigSize /\ pg.eState # "WRITER_DBMOD")

Content(pg, p) == IF pg.cache[p] # Beyond THEN pg.cache[p] ELSE file[p]

\* pager_write on an open journal: the old page goes to the end of the journal.
Dirtied(pg, p) ==
    [pg EXCEPT !.cache[p] = pg.txn,
               !.dirty = @ \cup {p},
               !.inJournal = IF MustJournal(pg, p) THEN @ \cup {p} ELSE @,
               !.needSync = IF NeedsSync(pg, p) THEN @ \cup {p} ELSE @,
               !.dbSize = IF p > @ THEN p ELSE @]
Journalled(j, pg, p) ==
    IF MustJournal(pg, p)
    THEN [j EXCEPT !.segs[Len(j.segs)].recs = @ \cup {Record(p, Content(pg, p))}]
    ELSE j

\* sqlite3PagerWrite, on a page that is not dirty yet.
Write(c, p) ==
    LET pg == Opened(pager[c]) IN
    /\ Writing(c)
    /\ p <= pg.dbSize + 1 /\ p \notin pg.dirty
    /\ Becomes(c, Dirtied(pg, p))
    /\ journal' = Journalled(OpenJournal(pager[c]), pg, p)
    /\ UNCHANGED <<lock, file, disk, jdisk, counters>>

\* Faulty: RESERVED is enough.
BeginSyncReserved(c) == "syncRecords"

\* syncJournal begins with EXCLUSIVE, which the connection may have.
BeginSync(c) == IF lock[c] = EXCLUSIVE_LOCK THEN "syncRecords" ELSE "exclusive"

\* pagerStress: the cache is full, and a dirty page that nobody uses (never page 1) is
\* written to the file before the transaction ends.
Spill(c, p) ==
    LET pg == pager[c] IN
    /\ pg.eState \in {"WRITER_CACHEMOD", "WRITER_DBMOD"} /\ At(c, "idle")
    /\ p \in pg.dirty \ {1}
    /\ Becomes(c, [pg EXCEPT !.op = "spill",
                             !.todo = {Record(p, pg.cache[p])},
                             !.at = IF p \in pg.needSync \/ pg.eState = "WRITER_CACHEMOD"
                                    THEN BeginSync(c) ELSE "writePages"])
    /\ UNCHANGED <<lock, files, counters>>

\* sqlite3PagerCommitPhaseOne: the change counter is written first.
Commit(c) ==
    LET pg == pager[c] IN
    /\ pg.eState \in {"WRITER_CACHEMOD", "WRITER_DBMOD"} /\ At(c, "idle")
    /\ Becomes(c, [Dirtied(pg, 1) EXCEPT !.op = "commit", !.at = BeginSync(c)])
    /\ journal' = Journalled(journal, pg, 1)
    /\ UNCHANGED <<lock, file, disk, jdisk, counters>>

\* A sync of the journal puts its directory entry on the disk, and with it whatever changed
\* the size of the file before the journal was made (see InOrder).
SyncJournal ==
    /\ jdisk' = journal
    /\ disk' = [p \in Pages |-> IF p > journal.size /\ file[p] = Beyond THEN Beyond ELSE disk[p]]

\* syncJournal: the records are on the disk ...
SyncRecords(c) ==
    /\ At(c, "syncRecords")
    /\ SyncJournal
    /\ Goes(c, "writeHeader")
    /\ UNCHANGED <<lock, file, journal, counters>>

\* ... before the header counts them ...
WriteHeader(c) ==
    /\ At(c, "writeHeader")
    /\ journal' = [journal EXCEPT !.segs[Len(journal.segs)].valid = TRUE]
    /\ Goes(c, "syncHeader")
    /\ UNCHANGED <<lock, file, disk, jdisk, counters>>

\* ... and the header is, before a page is written.  A new segment begins unless the
\* transaction is being committed, in which case every dirty page is written.
SyncHeader(c) ==
    LET pg == [pager[c] EXCEPT !.at = "writePages", !.eState = "WRITER_DBMOD", !.needSync = {},
                               !.synced = Len(journal.segs)]
    IN
    /\ At(c, "syncHeader")
    /\ SyncJournal
    /\ IF pg.op = "commit"
       THEN /\ Becomes(c, [pg EXCEPT !.todo = {Record(p, pg.cache[p]) : p \in pg.dirty}])
            /\ UNCHANGED journal
       ELSE /\ Becomes(c, pg)
            /\ journal' = [journal EXCEPT !.segs = Append(@, UnwrittenHeader)]
    /\ UNCHANGED <<lock, file, counters>>

\* pager_write_pagelist, and what it leads to with the last page: a page that was spilled
\* is clean, and stays in the cache; a commit syncs the file.
PageWritten(pg, r) ==
    LET rest == pg.todo \ {r}
        written == [pg EXCEPT !.todo = rest, !.dbFileVers = IF r.page = 1 THEN r.content ELSE @]
    IN CASE rest # {}                    -> written
         [] rest = {} /\ pg.op = "spill" -> [written EXCEPT !.at = "idle", !.op = "none",
                                                            !.dirty = @ \ {r.page}]
         [] OTHER                        -> [written EXCEPT !.at = "syncFile", !.dirty = {}]

\* The same for the pages a playback puts back.
WritePage(c) ==
    /\ At(c, "writePages")
    /\ \E r \in pager[c].todo :
          /\ file' = [file EXCEPT ![r.page] = r.content]
          /\ Becomes(c, PageWritten(pager[c], r))
    /\ UNCHANGED <<lock, journal, disk, jdisk, counters>>

SyncFile(c) ==
    /\ At(c, "syncFile")
    /\ disk' = file
    /\ Becomes(c, [pager[c] EXCEPT !.at = "finalize",
                                   !.eState = IF pager[c].op = "commit" THEN "WRITER_FINISHED" ELSE @])
    /\ UNCHANGED <<lock, file, journal, jdisk, counters>>

\* pager_end_transaction: without its journal the transaction is over, one way or the other ...
Finalize(c) ==
    /\ At(c, "finalize")
    /\ journal' = Deleted
    /\ Goes(c, "unlock")
    /\ UNCHANGED <<lock, file, disk, jdisk, counters>>

\* ... and the others may read.
Unlock(c) ==
    LET pg == NoTransaction(pager[c]) IN
    /\ At(c, "unlock")
    /\ Release(c, SHARED_LOCK)
    /\ Becomes(c, CASE pg.eState = "OPEN"  -> [pg EXCEPT !.at = "validate"]
                     [] pg.eState = "ERROR" -> [pg EXCEPT !.at = "idle"]
                     [] OTHER               -> [pg EXCEPT !.at = "idle", !.eState = "READER"])
    /\ UNCHANGED <<files, counters>>

\* A transaction that wrote nothing has no journal.
EndUnwritten(c) ==
    /\ pager[c].eState = "WRITER_LOCKED" /\ At(c, "idle")
    /\ Goes(c, "unlock")
    /\ UNCHANGED <<lock, files, counters>>

-----------------------------------------------------------------------------
(* pager_playback, for a ROLLBACK and for a hot journal.                   *)

\* Faulty: a clean page is taken for unchanged.
CacheRestoredDirty(pg) ==
    LET old == Restored(pg.cache, Records(journal, Len(journal.segs))) IN
    [p \in Pages |-> IF p > pg.dbOrigSize THEN Beyond
                     ELSE IF p \in pg.dirty THEN old[p] ELSE pg.cache[p]]

\* The cache gets the old pages back, and forgets the new ones.
CacheRestored(pg) ==
    LET old == Restored(pg.cache, Records(journal, Len(journal.segs))) IN
    [p \in Pages |-> IF p <= pg.dbOrigSize /\ pg.cache[p] # Beyond THEN old[p] ELSE Beyond]

\* Faulty: what is in the unsynced part of the journal is put back as well.
InFileAll(pg) == Records(journal, Len(journal.segs))

\* Only what has been synced can have been overwritten in the file.
InFile(pg) == Records(journal, pg.synced)

Played(pg, recs) == [pg EXCEPT !.todo = recs, !.at = IF recs = {} THEN "syncFile" ELSE "writePages"]

\* sqlite3PagerRollback.  Unless a page was spilled the file has not been touched.
Rollback(c) ==
    LET pg == [pager[c] EXCEPT !.op = "rollback", !.dbSize = pager[c].dbOrigSize,
                               !.cache = CacheRestored(pager[c]),
                               !.dbFileVers = IF pager[c].cache[1] # Beyond
                                              THEN CacheRestored(pager[c])[1] ELSE @]
    IN
    /\ pager[c].eState \in {"WRITER_CACHEMOD", "WRITER_DBMOD"}
    /\ pager[c].at \in {"idle", "mustRollback"}
    /\ IF pg.eState = "WRITER_DBMOD"
       THEN /\ file' = Truncated(file, pg.dbOrigSize)
            /\ Becomes(c, Played(pg, InFile(pg)))
       ELSE /\ Becomes(c, [pg EXCEPT !.at = "finalize"])
            /\ UNCHANGED file
    /\ UNCHANGED <<lock, journal, disk, jdisk, counters>>

\* Under EXCLUSIVE: the journal has gone, or it is opened and synced (its writer may have
\* died before it did) ...
OpenHotJournal(c) ==
    /\ At(c, "openJournal")
    /\ \/ ~journal.exists /\ Release(c, SHARED_LOCK) /\ Goes(c, "validate") /\ UNCHANGED <<disk, jdisk>>
       \/ journal.exists /\ SyncJournal /\ Goes(c, "playback") /\ UNCHANGED lock
    /\ UNCHANGED <<file, journal, counters>>

\* Faulty: the file keeps the pages the transaction added.
OriginalSizeKept(j, f) == f

\* The file gets its old size back.
OriginalSize(j, f) == Truncated(f, j.size)

\* ... and played back into the file, which is synced before the journal is deleted.
PlayHotJournal(c) ==
    LET recs == IF HasHeader(journal) THEN Playable(journal) ELSE {} IN
    /\ At(c, "playback")
    /\ file' = IF HasHeader(journal) THEN OriginalSize(journal, file) ELSE file
    /\ Becomes(c, Played([pager[c] EXCEPT !.cache = IF recs # {} THEN NoPages ELSE @], recs))
    /\ UNCHANGED <<lock, journal, disk, jdisk, counters>>

-----------------------------------------------------------------------------
(* What goes wrong.                                                        *)

\* A write, a sync or a delete fails.  A commit is rolled back; a failure while a page is
\* spilled, while pages are put back or while the journal is deleted is remembered as the
\* state of the pager.  The page that was being written may be written in part.
Fail(c) ==
    LET pg == pager[c] IN
    /\ faults < MaxFaults
    /\ faults' = faults + 1
    /\ \/ /\ pg.at = "finalize"
          /\ Becomes(c, [pg EXCEPT !.eState = "ERROR", !.at = "unlock"])
       \/ /\ pg.at \in {"syncRecords", "writeHeader", "syncHeader", "writePages", "syncFile", "playback"}
          /\ Becomes(c, IF pg.op = "commit" THEN [pg EXCEPT !.at = "mustRollback", !.todo = {}]
                        ELSE [pg EXCEPT !.eState = "ERROR", !.at = "idle"])
    /\ \/ UNCHANGED file
       \/ pg.at = "writePages" /\ \E r \in pg.todo : file' = [file EXCEPT ![r.page] = Torn]
    /\ UNCHANGED <<lock, journal, disk, jdisk, txns, crashes>>

\* A record cannot be written to the journal: the page is not changed, and the transaction
\* must be rolled back.  What there is of the record is never counted.
JournalFails(c, p) ==
    LET pg == Opened(pager[c]) IN
    /\ faults < MaxFaults
    /\ faults' = faults + 1
    /\ Writing(c)
    /\ p <= pg.dbSize /\ p \notin pg.dirty /\ MustJournal(pg, p)
    /\ Becomes(c, [pg EXCEPT !.at = "mustRollback", !.op = "none"])
    /\ journal' = OpenJournal(pager[c])
    /\ UNCHANGED <<lock, file, disk, jdisk, txns, crashes>>

\* pager_unlock: the journal stays, to be played back by the next reader.
ErrorUnlock(c) ==
    /\ pager[c].eState = "ERROR" /\ At(c, "idle")
    /\ Unlocks(c)
    /\ UNCHANGED <<files, counters>>

\* A process dies; the files are as it left them.
Crash(c) ==
    LET dead == {c} \cup Peers(c) IN
    /\ crashes < MaxCrashes
    /\ crashes' = crashes + 1
    /\ Drop(dead)
    /\ pager' = [o \in Conns |-> IF o \in dead THEN Closed ELSE pager[o]]
    /\ UNCHANGED <<files, txns, faults>>

\* A page written since the last sync is on the disk, or is not, or in part.
FileSurvivors ==
    {f \in [Pages -> {Beyond, Torn} \cup 1..MaxTransactions] :
        \A p \in Pages : f[p] \in {disk[p], file[p]} \cup (IF disk[p] = file[p] THEN {} ELSE {Torn})}

Segment(j, i) == IF i \in DOMAIN j.segs THEN j.segs[i] ELSE UnwrittenHeader

\* A journal whose unsynced headers, and whose unsynced records, are or are not on the disk.
Survivor(d, headers, records) ==
    [journal EXCEPT !.segs = [i \in DOMAIN journal.segs |->
        [valid |-> Segment(d, i).valid \/ (headers /\ journal.segs[i].valid),
         recs |-> {r \in journal.segs[i].recs : r \in Segment(d, i).recs \/ records} \cup
                  {Record(r.page, Torn) : r \in {x \in journal.segs[i].recs :
                                                   x \notin Segment(d, i).recs /\ ~records}}]]]

\* A journal that was created or deleted since the directory was synced may be gone, or
\* there again.
JournalSurvivors ==
    LET same == jdisk.exists /\ jdisk.txn = journal.txn IN
    (IF same /\ journal.exists THEN {} ELSE {jdisk}) \cup
    (IF journal.exists THEN {Survivor(IF same THEN jdisk ELSE NoJournal, h, r) : h, r \in BOOLEAN}
     ELSE {journal})

\* The file system of the device keeps the order of what changes sizes and directories: a
\* size the file had before the journal was deleted, or created anew, does not come back
\* without the old journal.
InOrder(f, j) == j # jdisk => \A p \in Pages : p > journal.size /\ file[p] = Beyond => f[p] = Beyond

PowerLoss ==
    /\ crashes < MaxCrashes
    /\ crashes' = crashes + 1
    /\ file' \in FileSurvivors
    /\ journal' \in JournalSurvivors
    /\ InOrder(file', journal')
    /\ disk' = file' /\ jdisk' = journal'
    /\ Drop(Conns)
    /\ pager' = [c \in Conns |-> Closed]
    /\ UNCHANGED <<txns, faults>>

-----------------------------------------------------------------------------

Init ==
    /\ LockInit
    /\ file \in {[p \in Pages |-> IF p <= n THEN 1 ELSE Beyond] : n \in InitSizes}
    /\ disk = file
    /\ journal = NoJournal /\ jdisk = NoJournal
    /\ pager = [c \in Conns |-> Closed]
    /\ txns = 1 /\ crashes = 0 /\ faults = 0

Opening(c) == \/ TakeShared(c) \/ LookForJournal(c) \/ LookForWriter(c) \/ Stray(c) \/ DeleteStray(c)
              \/ ReadHeader(c) \/ OpenHotJournal(c) \/ PlayHotJournal(c) \/ Validate(c)

Locking(c) == TakePending(c) \/ TakeExclusive(c) \/ Busy(c)

Writer(c) ==
    \/ \E exFlag \in BOOLEAN : Begin(c, exFlag)
    \/ \E p \in Pages : Write(c, p) \/ Spill(c, p)
    \/ Commit(c) \/ SyncRecords(c) \/ WriteHeader(c) \/ SyncHeader(c) \/ WritePage(c) \/ SyncFile(c)
    \/ Finalize(c) \/ Unlock(c) \/ EndUnwritten(c) \/ Rollback(c)

Next ==
    \/ \E c \in Conns : \/ Opening(c) \/ Locking(c) \/ Writer(c) \/ EndRead(c) \/ ErrorUnlock(c)
                        \/ Fail(c) \/ Crash(c)
                        \/ \E p \in Pages : Get(c, p) \/ Recycle(c, p) \/ JournalFails(c, p)
    \/ PowerLoss

Spec == Init /\ [][Next]_vars

-----------------------------------------------------------------------------
(* Properties.                                                             *)

\* Type invariant: the pager keeps to its states, and no page is read that a whole
\* write did not leave.
TypeOK ==
    /\ lock \in [Conns -> Locks]
    /\ file \in [Pages -> 0..Torn] /\ disk \in [Pages -> 0..Torn]
    /\ \A c \in Conns :
          /\ pager[c].eState \in {"OPEN", "READER", "WRITER_LOCKED", "WRITER_CACHEMOD", "WRITER_DBMOD",
                                  "WRITER_FINISHED", "ERROR"}
          /\ pager[c].cache \in [Pages -> 0..MaxTransactions]
          /\ pager[c].inJournal \subseteq Pages
          /\ pager[c].dirty \cup pager[c].needSync \subseteq Pages

\* Implementing TransactionStore: whatever dies, fails or is lost between any two calls of
\* the operating system, a reader finds the pages of whole transactions, and only the last
\* of them can be undone, by a loss of power that brings its deleted journal back.
Store == INSTANCE TransactionStore WITH image <- Recovered(file, journal), durable <- Recovered(disk, jdisk)

TransactionsAtomic == Store!StoreSpec

\* What a connection has in its cache, while it may use it, is what the last commit left,
\* save the pages it has changed itself.
CacheIsCommitted ==
    \A c \in Conns : \A p \in Pages :
        InUse(c) =>
            pager[c].cache[p] \in {Beyond, Recovered(file, journal)[p]} \cup
                                  (IF p \in pager[c].inJournal \/ p > pager[c].dbOrigSize
                                   THEN {pager[c].txn} ELSE {})

\* Whoever changes the file, for a transaction or to undo one, is alone with it: no other
\* connection reads it, or looks whether its journal is hot, at the same time.
AloneWithFile ==
    [][file' # file /\ crashes' = crashes =>
          \E c \in Conns : lock[c] = EXCLUSIVE_LOCK /\ \A o \in Others(c) : lock[o] = NO_LOCK]_vars

\* The journal of a transaction under way is nobody else's to play back or to delete.
WriterKeepsJournal ==
    \A c \in Conns : pager[c].eState \in {"WRITER_CACHEMOD", "WRITER_DBMOD", "WRITER_FINISHED"} /\ ~At(c, "unlock") =>
        journal.exists /\ journal.txn = pager[c].txn

=============================================================================
