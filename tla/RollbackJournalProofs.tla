------------------------ MODULE RollbackJournalProofs ------------------------
(***************************************************************************)
(* Theorems about the pager and the file locks it takes, for any           *)
(* connections in any processes, any number of pages, transactions,        *)
(* crashes, losses of power and faults.  In this order: the locks exclude  *)
(* what they should; who changes the file is alone; the journal of a       *)
(* transaction stays its own; what a step does to the two files and to the *)
(* images they hold.  TransactionStoreProofs builds on all of it.          *)
(***************************************************************************)
EXTENDS RollbackJournal, TLAPS, SequenceTheorems

-----------------------------------------------------------------------------
(* The file locks: whatever the processes and the connections are, no step *)
(* of FileLocks breaks Exclusion.                                          *)

LockTypeOK == lock \in [Conns -> Locks]

LockInv == LockTypeOK /\ Exclusion

\* Obtaining a lock respects what the others hold: the table Admitted rules out what
\* Exclusion forbids, and a peer that reads shows that nobody holds EXCLUSIVE.
LEMMA ObtainKeeps ==
    ASSUME LockInv, NEW c \in Conns, NEW k \in Locks, Obtain(c, k)
    PROVE  LockInv'
<1> USE DEF LockInv, LockTypeOK, Locks, NO_LOCK, SHARED_LOCK, RESERVED_LOCK,
            PENDING_LOCK, EXCLUSIVE_LOCK, RECOVERY_LOCK
<1>1. lock' = [lock EXCEPT ![c] = k]
  BY DEF Obtain
<1>2. LockTypeOK'
  BY <1>1
<1>3. k # NO_LOCK
  BY DEF Obtain, MayObtain, LeadsTo
<1>4. ASSUME NEW o \in Others(c)
      PROVE  /\ k = EXCLUSIVE_LOCK => lock[o] = NO_LOCK
             /\ lock[o] # EXCLUSIVE_LOCK
             /\ k \in Writers => lock[o] \notin Writers
             /\ k \in Waiters => lock[o] \notin Waiters
  <2>1. CASE lock[o] \in Admitted(k)
    BY <1>3, <1>4, <2>1 DEF Admitted, Others, Writers, Waiters
  <2>2. CASE MayJoin(c, k)
    <3>1. PICK p \in Others(c) : lock[p] \in {SHARED_LOCK, RESERVED_LOCK}
      BY <2>2 DEF MayJoin
    <3>2. p \in Conns /\ o \in Conns
      BY <1>4 DEF Others
    <3>3. lock[o] # EXCLUSIVE_LOCK
      BY <3>1, <3>2 DEF Exclusion, Others
    <3>4. k = SHARED_LOCK
      BY <2>2 DEF MayJoin
    <3> QED
      BY <3>3, <3>4 DEF Writers, Waiters
  <2> QED
    BY <1>4, <2>1, <2>2 DEF Obtain, MayObtain
<1>5. Exclusion'
  <2> SUFFICES ASSUME NEW a \in Conns, NEW b \in Conns, b # a
               PROVE  /\ lock'[a] = EXCLUSIVE_LOCK => lock'[b] = NO_LOCK
                      /\ lock'[a] \in Writers => lock'[b] \notin Writers
                      /\ lock'[a] \in Waiters => lock'[b] \notin Waiters
    BY DEF Exclusion, Others
  <2>1. CASE a = c
    <3>1. lock'[a] = k /\ lock'[b] = lock[b] /\ b \in Others(c)
      BY <1>1, <2>1 DEF Others
    <3> QED
      BY <1>4, <3>1
  <2>2. CASE b = c
    <3>1. lock'[b] = k /\ lock'[a] = lock[a] /\ a \in Others(c)
      BY <1>1, <2>2 DEF Others
    <3> QED
      BY <1>4, <3>1
  <2>3. CASE a # c /\ b # c
    <3>1. lock'[a] = lock[a] /\ lock'[b] = lock[b] /\ b \in Others(a)
      BY <1>1, <2>3 DEF Others
    <3> QED
      BY <3>1 DEF Exclusion
  <2> QED
    BY <2>1, <2>2, <2>3
<1> QED
  BY <1>2, <1>5

\* Going down disturbs nobody.
LEMMA LoweringKeeps ==
    ASSUME LockInv, NEW f \in [Conns -> Locks], lock' = f,
           \A c \in Conns : f[c] \in {lock[c], NO_LOCK, SHARED_LOCK} /\ f[c] <= lock[c]
    PROVE  LockInv'
<1> USE DEF LockInv, LockTypeOK, Locks, NO_LOCK, SHARED_LOCK, RESERVED_LOCK,
            PENDING_LOCK, EXCLUSIVE_LOCK, RECOVERY_LOCK
<1> SUFFICES ASSUME NEW a \in Conns, NEW b \in Others(a)
             PROVE  /\ lock'[a] = EXCLUSIVE_LOCK => lock'[b] = NO_LOCK
                    /\ lock'[a] \in Writers => lock'[b] \notin Writers
                    /\ lock'[a] \in Waiters => lock'[b] \notin Waiters
  BY DEF Exclusion
<1>1. b \in Conns /\ lock[a] \in 0..5 /\ lock[b] \in 0..5
  BY DEF Others
<1>2. /\ lock[a] = EXCLUSIVE_LOCK => lock[b] = NO_LOCK
      /\ lock[a] \in Writers => lock[b] \notin Writers
      /\ lock[a] \in Waiters => lock[b] \notin Waiters
  BY DEF Exclusion
<1>3. /\ lock'[a] \in {lock[a], 0, 1} /\ lock'[a] <= lock[a]
      /\ lock'[b] \in {lock[b], 0, 1} /\ lock'[b] <= lock[b]
  BY <1>1
<1> QED
  BY <1>1, <1>2, <1>3 DEF Writers, Waiters

\* No step breaks it.
LEMMA LockStep == LockInv /\ [LockNext]_lock => LockInv'
<1> SUFFICES ASSUME LockInv, [LockNext]_lock
             PROVE  LockInv'
  OBVIOUS
<1>1. ASSUME NEW c \in Conns, NEW k \in Locks, Obtain(c, k)
      PROVE  LockInv'
  BY <1>1, ObtainKeeps
<1>2. ASSUME NEW c \in Conns, NEW k \in Locks, Release(c, k)
      PROVE  LockInv'
  <2> DEFINE f == [lock EXCEPT ![c] = k]
  <2>1. f \in [Conns -> Locks] /\ lock' = f
    BY <1>2 DEF LockInv, LockTypeOK, Release
  <2>2. \A d \in Conns : f[d] \in {lock[d], NO_LOCK, SHARED_LOCK} /\ f[d] <= lock[d]
    BY <1>2 DEF LockInv, LockTypeOK, Locks, NO_LOCK, SHARED_LOCK, RECOVERY_LOCK, Release
  <2> HIDE DEF f
  <2> QED
    BY <2>1, <2>2, LoweringKeeps
<1>3. ASSUME NEW C \in SUBSET Conns, Drop(C)
      PROVE  LockInv'
  <2> DEFINE f == [c \in Conns |-> IF c \in C THEN NO_LOCK ELSE lock[c]]
  <2>1. f \in [Conns -> Locks] /\ lock' = f
    BY <1>3 DEF LockInv, LockTypeOK, Locks, NO_LOCK, RECOVERY_LOCK, Drop
  <2>2. \A d \in Conns : f[d] \in {lock[d], NO_LOCK, SHARED_LOCK} /\ f[d] <= lock[d]
    BY DEF LockInv, LockTypeOK, Locks, NO_LOCK, RECOVERY_LOCK
  <2> HIDE DEF f
  <2> QED
    BY <2>1, <2>2, LoweringKeeps
<1>4. CASE UNCHANGED lock
  BY <1>4 DEF LockInv, LockTypeOK, Exclusion
<1> QED
  BY <1>1, <1>2, <1>3, <1>4 DEF LockNext

\* Whatever connections there are and however they are spread over processes: who holds
\* EXCLUSIVE is alone, at most one connection prepares to write and at most one waits for
\* the readers to leave (unixLock, os_unix.c:1493).
THEOREM ExclusionHolds == LockSpec => []Exclusion
<1>1. LockInit => LockInv
  BY DEF LockInit, LockInv, LockTypeOK, Exclusion, Locks, Others, Writers, Waiters,
         NO_LOCK, SHARED_LOCK, RESERVED_LOCK, PENDING_LOCK, EXCLUSIVE_LOCK, RECOVERY_LOCK
<1>2. LockInv /\ [LockNext]_lock => LockInv'
  BY LockStep
<1>3. LockInv => Exclusion
  BY DEF LockInv
<1> QED
  BY <1>1, <1>2, <1>3, PTL DEF LockSpec

-----------------------------------------------------------------------------
(* The pager and its locks.                                                *)

USE DEF Becomes, Goes, At, files, counters

\* Every connection has a pager, and that has its fields.
Shape(P) == DOMAIN P = Conns /\ \A c \in Conns : "at" \in DOMAIN P[c] /\ "eState" \in DOMAIN P[c]

\* Where the file is under the connection's hands, or about to be.
Exclusively == {"syncRecords", "writeHeader", "syncHeader", "writePages", "syncFile",
                "openJournal", "playback"}

\* The places of a reader that begins and has no transaction.
Beginning == {"lookForJournal", "lookForWriter", "stray", "deleteStray", "readHeader",
              "openJournal", "validate"}

\* There, and as long as pages of an open transaction are in the file, it holds EXCLUSIVE.
Armed(c) ==
    /\ pager[c].at \in Exclusively \/ pager[c].eState = "WRITER_DBMOD" => lock[c] = EXCLUSIVE_LOCK
    /\ pager[c].at \in Beginning => pager[c].eState # "WRITER_DBMOD"

AloneInv == LockInv /\ Shape(pager) /\ \A c \in Conns : Armed(c)

-----------------------------------------------------------------------------
(* What a step of one connection does.                                     *)

\* It is a step of FileLocks, or none, and the others' locks stay.
LockLocal(c) == [LockNext]_lock /\ \A o \in Others(c) : lock'[o] = lock[o]

\* The others' pagers stay.
PagerLocal(c) == Shape(pager') /\ \A o \in Others(c) : pager'[o] = pager[o]

Kept(c) == LockLocal(c) /\ PagerLocal(c) /\ Armed(c)'

LEMMA ObtainIsLocal ==
    ASSUME LockInv, NEW c \in Conns, NEW k \in Locks, Obtain(c, k)
    PROVE  LockLocal(c) /\ lock'[c] = k
  BY DEF LockInv, LockTypeOK, Obtain, LockLocal, LockNext, Others

LEMMA ReleaseIsLocal ==
    ASSUME LockInv, NEW c \in Conns, NEW k \in Locks, Release(c, k)
    PROVE  LockLocal(c) /\ lock'[c] = k
  BY DEF LockInv, LockTypeOK, Release, LockLocal, LockNext, Others

\* From EXCLUSIVE there is no way up.
LEMMA ObtainIsFromBelow ==
    ASSUME NEW c \in Conns, NEW k \in Locks, Obtain(c, k)
    PROVE  lock[c] # EXCLUSIVE_LOCK
  BY DEF Obtain, MayObtain, LeadsTo, Locks, NO_LOCK, SHARED_LOCK, RESERVED_LOCK, PENDING_LOCK,
         EXCLUSIVE_LOCK, RECOVERY_LOCK

LEMMA NoLockIsLocal == UNCHANGED lock => \A c \in Conns : LockLocal(c)
  BY DEF LockLocal

LEMMA LocksAreLocks == {NO_LOCK, SHARED_LOCK, RESERVED_LOCK, PENDING_LOCK, EXCLUSIVE_LOCK,
                        RECOVERY_LOCK} \subseteq Locks
  BY DEF Locks, NO_LOCK, SHARED_LOCK, RESERVED_LOCK, PENDING_LOCK, EXCLUSIVE_LOCK, RECOVERY_LOCK

LEMMA BecomesIsLocal ==
    ASSUME Shape(pager), NEW c \in Conns, NEW pg, Becomes(c, pg),
           "at" \in DOMAIN pg, "eState" \in DOMAIN pg
    PROVE  PagerLocal(c) /\ pager'[c] = pg
  BY DEF Shape, PagerLocal, Others

\* Nor does a connection need more to keep its promise than the new place and state.
LEMMA QuietlyKept ==
    ASSUME AloneInv, NEW c \in Conns, NEW pg, Becomes(c, pg), UNCHANGED lock,
           "at" \in DOMAIN pg, "eState" \in DOMAIN pg,
           pg.at \in Exclusively \/ pg.eState = "WRITER_DBMOD" => lock[c] = EXCLUSIVE_LOCK,
           pg.at \in Beginning => pg.eState # "WRITER_DBMOD"
    PROVE  Kept(c)
<1> HIDE DEF Becomes
<1>1. PagerLocal(c) /\ pager'[c] = pg
  BY BecomesIsLocal DEF AloneInv
<1> QED
  BY <1>1, NoLockIsLocal DEF Kept, Armed

\* pager_unlock lets everything go.
LEMMA UnlocksKept == ASSUME AloneInv, NEW c \in Conns, Unlocks(c) PROVE Kept(c)
<1> DEFINE pg == Unlocked(pager[c])
<1>1. /\ "at" \in DOMAIN pg /\ "eState" \in DOMAIN pg
      /\ pg.at = "idle" /\ pg.eState = "OPEN"
  BY DEF AloneInv, Shape, Unlocked, NoTransaction
<1>2. PagerLocal(c) /\ pager'[c] = pg
  <2>1. Becomes(c, pg)
    BY DEF Unlocks
  <2> HIDE DEF pg, Becomes
  <2> QED
    BY <1>1, <2>1, BecomesIsLocal DEF AloneInv
<1>3. LockLocal(c)
  <2>1. CASE lock[c] = NO_LOCK
    BY <2>1 DEF Unlocks, AloneInv, LockInv, LockTypeOK, LockLocal
  <2>2. CASE lock[c] # NO_LOCK
    <3>1. Release(c, NO_LOCK)
      BY <2>2 DEF Unlocks, Release, AloneInv, LockInv, LockTypeOK, Locks, NO_LOCK, RECOVERY_LOCK
    <3> QED
      BY <3>1, LocksAreLocks, ReleaseIsLocal DEF AloneInv
  <2> QED
    BY <2>1, <2>2
<1> HIDE DEF pg
<1>4. Armed(c)'
  BY <1>1, <1>2 DEF Armed, Beginning, Exclusively
<1> QED
  BY <1>2, <1>3, <1>4 DEF Kept

-----------------------------------------------------------------------------
(* The actions that leave the locks alone.                                 *)

LEMMA QuietOpeningKept ==
    ASSUME AloneInv, NEW c \in Conns,
           \/ LookForJournal(c) \/ LookForWriter(c) \/ ReadHeader(c) \/ PlayHotJournal(c)
    PROVE  Kept(c)
<1> USE NoLockIsLocal DEF AloneInv, Shape, Kept, PagerLocal, Armed, Beginning, Exclusively, Others
<1>1. CASE LookForJournal(c)
  BY <1>1 DEF LookForJournal
<1>2. CASE LookForWriter(c)
  <2> DEFINE place == CASE \E o \in Others(c) : lock[o] \in Writers -> "validate"
                        [] Size(file) = 0                          -> "stray"
                        [] OTHER                                   -> "readHeader"
  <2>1. Goes(c, place) /\ UNCHANGED lock
    BY <1>2 DEF LookForWriter
  <2>2. place \in Beginning \ Exclusively
    OBVIOUS
  <2>3. pager[c].eState # "WRITER_DBMOD"
    BY <1>2 DEF LookForWriter
  <2> HIDE DEF place
  <2> QED
    BY <2>1, <2>2, <2>3
<1>3. CASE ReadHeader(c)
  <2>1. CASE journal.exists /\ ~HasHeader(journal)
    BY <1>3, <2>1 DEF ReadHeader
  <2>2. CASE ~(journal.exists /\ ~HasHeader(journal))
    BY <1>3, <2>2 DEF ReadHeader
  <2> QED
    BY <2>1, <2>2
<1>4. CASE PlayHotJournal(c)
  BY <1>4 DEF PlayHotJournal, Played
<1> QED
  BY <1>1, <1>2, <1>3, <1>4

LEMMA ValidateKept == ASSUME AloneInv, NEW c \in Conns, Validate(c) PROVE Kept(c)
<1> DEFINE cached == [ValidCache(pager[c]) EXCEPT ![1] = file[1]]
           pg == [pager[c] EXCEPT !.eState = "READER", !.at = "idle", !.op = "none",
                                  !.cache = cached, !.dbFileVers = file[1],
                                  !.hasHeldSharedLock = TRUE, !.dbSize = Size(file)]
<1>1. Becomes(c, pg) /\ UNCHANGED lock
  BY DEF Validate
<1>2. /\ "at" \in DOMAIN pg /\ "eState" \in DOMAIN pg
      /\ pg.at = "idle" /\ pg.eState = "READER"
  <2> HIDE DEF cached
  <2> QED
    BY DEF AloneInv, Shape
<1> HIDE DEF pg, Becomes
<1>3. PagerLocal(c) /\ pager'[c] = pg
  BY <1>1, <1>2, BecomesIsLocal DEF AloneInv
<1> QED
  BY <1>1, <1>2, <1>3, NoLockIsLocal DEF Kept, Armed, Beginning, Exclusively

LEMMA QuietWritingKept ==
    ASSUME AloneInv, NEW c \in Conns,
           \/ SyncRecords(c) \/ WriteHeader(c) \/ SyncHeader(c) \/ WritePage(c) \/ SyncFile(c)
           \/ Finalize(c) \/ EndUnwritten(c) \/ Commit(c) \/ Fail(c)
           \/ \E p \in Pages : \/ Write(c, p) \/ Spill(c, p) \/ Get(c, p) \/ Recycle(c, p)
                             \/ JournalFails(c, p)
    PROVE  Kept(c)
<1> USE NoLockIsLocal DEF AloneInv, Shape, Kept, PagerLocal, Armed, Beginning, Exclusively, Others
<1>1. CASE SyncRecords(c)
  BY <1>1 DEF SyncRecords
<1>2. CASE WriteHeader(c)
  BY <1>2 DEF WriteHeader
<1>3. CASE SyncHeader(c)
  <2> DEFINE pg == [pager[c] EXCEPT !.at = "writePages", !.eState = "WRITER_DBMOD", !.needSync = {},
                                    !.synced = Len(journal.segs)]
             cm == [pg EXCEPT !.todo = {Record(p, pg.cache[p]) : p \in pg.dirty}]
  <2>1. /\ "at" \in DOMAIN pg /\ "eState" \in DOMAIN pg
        /\ "at" \in DOMAIN cm /\ "eState" \in DOMAIN cm
        /\ pg.at = "writePages" /\ cm.at = "writePages"
    OBVIOUS
  <2>2. lock[c] = EXCLUSIVE_LOCK /\ UNCHANGED lock /\ (Becomes(c, cm) \/ Becomes(c, pg))
    <3> HIDE DEF Becomes
    <3>1. pager[c].at = "syncHeader" /\ UNCHANGED lock /\ (Becomes(c, cm) \/ Becomes(c, pg))
      BY <1>3 DEF SyncHeader
    <3> QED
      BY <3>1
  <2> HIDE DEF pg, cm, Becomes
  <2> QED
    BY <2>1, <2>2, QuietlyKept
<1>4. CASE WritePage(c)
  <2>1. PICK r \in pager[c].todo : Becomes(c, PageWritten(pager[c], r)) /\ UNCHANGED lock
    BY <1>4 DEF WritePage
  <2> DEFINE pg == PageWritten(pager[c], r)
  <2>2. /\ "at" \in DOMAIN pg /\ "eState" \in DOMAIN pg
        /\ pg.at \notin Beginning
    BY <1>4 DEF PageWritten, WritePage
  <2>3. lock[c] = EXCLUSIVE_LOCK /\ Becomes(c, pg)
    BY <1>4, <2>1 DEF WritePage
  <2> HIDE DEF pg
  <2> QED
    BY <2>1, <2>2, <2>3
<1>5. CASE SyncFile(c)
  BY <1>5 DEF SyncFile
<1>6. CASE Finalize(c)
  BY <1>6 DEF Finalize
<1>7. CASE EndUnwritten(c)
  BY <1>7 DEF EndUnwritten
<1>8. CASE Commit(c)
  BY <1>8 DEF Commit, Dirtied, BeginSync
<1>9. CASE Fail(c)
  <2> DEFINE ended  == [pager[c] EXCEPT !.eState = "ERROR", !.at = "unlock"]
             failed == [pager[c] EXCEPT !.at = "mustRollback", !.todo = {}]
             broken == [pager[c] EXCEPT !.eState = "ERROR", !.at = "idle"]
  <2>1. /\ "at" \in DOMAIN ended /\ "eState" \in DOMAIN ended
        /\ ended.at = "unlock" /\ ended.eState = "ERROR"
    OBVIOUS
  <2>2. /\ "at" \in DOMAIN failed /\ "eState" \in DOMAIN failed
        /\ failed.at = "mustRollback" /\ failed.eState = pager[c].eState
    OBVIOUS
  <2>3. /\ "at" \in DOMAIN broken /\ "eState" \in DOMAIN broken
        /\ broken.at = "idle" /\ broken.eState = "ERROR"
    OBVIOUS
  <2>4. /\ UNCHANGED lock
        /\ Becomes(c, ended) \/ Becomes(c, failed) \/ Becomes(c, broken)
    <3> HIDE DEF Becomes
    <3> QED
      BY <1>9 DEF Fail
  <2> HIDE DEF ended, failed, broken, Becomes
  <2> QED
    BY <2>1, <2>2, <2>3, <2>4, QuietlyKept
<1>10. ASSUME NEW p \in Pages, Write(c, p) PROVE Kept(c)
  BY <1>10 DEF Write, Opened, Dirtied, Writing
<1>11. ASSUME NEW p \in Pages, Spill(c, p) PROVE Kept(c)
  BY <1>11 DEF Spill, BeginSync
<1>12. ASSUME NEW p \in Pages, Get(c, p) PROVE Kept(c)
  BY <1>12 DEF Get, InUse, Writing
<1>13. ASSUME NEW p \in Pages, Recycle(c, p) PROVE Kept(c)
  BY <1>13 DEF Recycle, InUse, Writing
<1>14. ASSUME NEW p \in Pages, JournalFails(c, p) PROVE Kept(c)
  BY <1>14 DEF JournalFails, Opened, Writing
<1> QED
  BY <1>1, <1>2, <1>3, <1>4, <1>5, <1>6, <1>7, <1>8, <1>9, <1>10, <1>11, <1>12, <1>13, <1>14

\* A rollback writes the file only if the transaction has, and then under EXCLUSIVE.
LEMMA RollbackKept == ASSUME AloneInv, NEW c \in Conns, Rollback(c) PROVE Kept(c)
<1> DEFINE pg == [pager[c] EXCEPT !.op = "rollback", !.dbSize = pager[c].dbOrigSize,
                                  !.cache = CacheRestored(pager[c]),
                                  !.dbFileVers = IF pager[c].cache[1] # Beyond
                                                 THEN CacheRestored(pager[c])[1] ELSE @]
<1>1. /\ "at" \in DOMAIN pg /\ "eState" \in DOMAIN pg
      /\ pg.eState = pager[c].eState
  BY DEF AloneInv, Shape
<1>2. /\ UNCHANGED lock
      /\ Becomes(c, IF pg.eState = "WRITER_DBMOD" THEN Played(pg, InFile(pg))
                    ELSE [pg EXCEPT !.at = "finalize"])
  <2> HIDE DEF Becomes
  <2> QED
    BY DEF Rollback
<1> HIDE DEF pg
<1>3. CASE pg.eState = "WRITER_DBMOD"
  BY <1>1, <1>2, <1>3, NoLockIsLocal
     DEF AloneInv, Shape, Kept, PagerLocal, Armed, Beginning, Exclusively, Others, Played
<1>4. CASE pg.eState # "WRITER_DBMOD"
  BY <1>1, <1>2, <1>4, NoLockIsLocal
     DEF AloneInv, Shape, Kept, PagerLocal, Armed, Beginning, Exclusively, Others
<1> QED
  BY <1>3, <1>4

-----------------------------------------------------------------------------
(* The actions that ask for a lock or give one back.                       *)

LEMMA LockingKept ==
    ASSUME AloneInv, NEW c \in Conns,
           \/ TakeShared(c) \/ Stray(c) \/ DeleteStray(c) \/ OpenHotJournal(c) \/ TakePending(c)
           \/ TakeExclusive(c) \/ Unlock(c) \/ \E exFlag \in BOOLEAN : Begin(c, exFlag)
    PROVE  Kept(c)
<1> USE LocksAreLocks, NoLockIsLocal
    DEF AloneInv, Shape, Kept, PagerLocal, Armed, Beginning, Exclusively
<1>1. CASE TakeShared(c)
  <2>1. LockLocal(c) /\ lock'[c] = SHARED_LOCK
    BY <1>1, ObtainIsLocal DEF TakeShared
  <2> QED
    BY <1>1, <2>1 DEF TakeShared, Others
<1>2. CASE Stray(c)
  <2>1. LockLocal(c)
    BY <1>2, ObtainIsLocal DEF Stray
  <2> QED
    BY <1>2, <2>1 DEF Stray, Others
<1>3. CASE DeleteStray(c)
  <2>1. LockLocal(c)
    BY <1>3, ReleaseIsLocal DEF DeleteStray
  <2> QED
    BY <1>3, <2>1 DEF DeleteStray, Others
<1>4. CASE OpenHotJournal(c)
  <2>1. LockLocal(c)
    BY <1>4, ReleaseIsLocal DEF OpenHotJournal
  <2> QED
    BY <1>4, <2>1 DEF OpenHotJournal, Others
<1>5. CASE TakePending(c)
  <2>1. LockLocal(c)
    BY <1>5, ObtainIsLocal DEF TakePending, Wait
  <2>2. lock[c] # EXCLUSIVE_LOCK /\ UNCHANGED pager
    BY <1>5, ObtainIsFromBelow DEF TakePending, Wait
  <2> QED
    BY <2>1, <2>2, <1>5 DEF TakePending
<1>6. CASE TakeExclusive(c)
  <2>1. LockLocal(c) /\ lock'[c] = EXCLUSIVE_LOCK
    BY <1>6, ObtainIsLocal DEF TakeExclusive
  <2>2. pager[c].eState # "WRITER_DBMOD"
    BY <1>6, ObtainIsFromBelow DEF TakeExclusive
  <2>3. PagerLocal(c) /\ pager'[c].eState # "WRITER_DBMOD"
    BY <1>6, <2>2 DEF TakeExclusive, Resume, Others
  <2> QED
    BY <2>1, <2>3
<1>7. CASE Unlock(c)
  <2>1. LockLocal(c)
    BY <1>7, ReleaseIsLocal DEF Unlock
  <2> QED
    BY <1>7, <2>1 DEF Unlock, NoTransaction, Others
<1>8. ASSUME NEW exFlag \in BOOLEAN, Begin(c, exFlag) PROVE Kept(c)
  <2>1. LockLocal(c)
    BY <1>8, ObtainIsLocal DEF Begin
  <2> QED
    BY <1>8, <2>1 DEF Begin, Others
<1> QED
  BY <1>1, <1>2, <1>3, <1>4, <1>5, <1>6, <1>7, <1>8

LEMMA ConnectionKept ==
    ASSUME AloneInv, NEW c \in Conns,
           \/ Opening(c) \/ Locking(c) \/ Writer(c) \/ EndRead(c) \/ ErrorUnlock(c) \/ Fail(c)
           \/ \E p \in Pages : Get(c, p) \/ Recycle(c, p) \/ JournalFails(c, p)
    PROVE  Kept(c)
<1>1. CASE Opening(c)
  BY <1>1, QuietOpeningKept, ValidateKept, LockingKept DEF Opening
<1>2. CASE Locking(c)
  <2>1. CASE Busy(c)
    <3>1. CASE Unlocks(c)
      BY <3>1, UnlocksKept
    <3>2. CASE ~Unlocks(c)
      BY <2>1, <3>2, NoLockIsLocal
         DEF Busy, AloneInv, Shape, Kept, PagerLocal, Armed, Beginning, Exclusively, Others
    <3> QED
      BY <3>1, <3>2
  <2> QED
    BY <1>2, <2>1, LockingKept DEF Locking
<1>3. CASE Writer(c)
  BY <1>3, QuietWritingKept, LockingKept, RollbackKept DEF Writer
<1>4. CASE EndRead(c) \/ ErrorUnlock(c)
  BY <1>4, UnlocksKept DEF EndRead, ErrorUnlock
<1> QED
  BY <1>1, <1>2, <1>3, <1>4, QuietWritingKept

-----------------------------------------------------------------------------
(* The invariant, and the theorems.                                        *)

LEMMA AloneInit == Init => AloneInv
<1> SUFFICES ASSUME Init PROVE AloneInv
  OBVIOUS
<1>1. LockInv
  BY LocksAreLocks DEF Init, LockInit, LockInv, LockTypeOK, Exclusion, Others, Writers, Waiters,
     NO_LOCK, SHARED_LOCK, RESERVED_LOCK, PENDING_LOCK, EXCLUSIVE_LOCK, RECOVERY_LOCK
<1>2. Shape(pager) /\ \A c \in Conns : Armed(c)
  BY DEF Init, Closed, Shape, Armed, Beginning, Exclusively
<1> QED
  BY <1>1, <1>2 DEF AloneInv

\* Processes die, one with all its connections or all of them.
LEMMA DeathKept ==
    ASSUME AloneInv, NEW dead, Drop(dead),
           pager' = [o \in Conns |-> IF o \in dead THEN Closed ELSE pager[o]]
    PROVE  LockNext /\ AloneInv'
<1>1. LockNext
  <2>1. Drop(dead \cap Conns)
    BY DEF Drop
  <2> QED
    BY <2>1 DEF LockNext
<1>2. LockInv'
  BY <1>1, LockStep DEF AloneInv
<1>3. Shape(pager') /\ \A c \in Conns : Armed(c)'
  BY DEF AloneInv, Shape, Closed, Drop, Armed, Beginning, Exclusively
<1> QED
  BY <1>1, <1>2, <1>3 DEF AloneInv

LEMMA AloneStep == AloneInv /\ [Next]_vars => AloneInv' /\ [LockNext]_lock
<1> SUFFICES ASSUME AloneInv, [Next]_vars
             PROVE  AloneInv' /\ [LockNext]_lock
  OBVIOUS
<1>1. ASSUME NEW c \in Conns, Kept(c)
      PROVE  AloneInv' /\ [LockNext]_lock
  <2>1. LockInv' /\ [LockNext]_lock
    BY <1>1, LockStep DEF AloneInv, Kept, LockLocal
  <2>2. ASSUME NEW o \in Conns PROVE Armed(o)'
    BY <1>1, <2>2 DEF AloneInv, Kept, LockLocal, PagerLocal, Armed, Others
  <2> QED
    BY <1>1, <2>1, <2>2 DEF AloneInv, Kept, PagerLocal
<1>2. ASSUME NEW c \in Conns, Crash(c)
      PROVE  AloneInv' /\ [LockNext]_lock
  BY <1>2, DeathKept DEF Crash
<1>3. CASE PowerLoss
  <2>1. pager' = [o \in Conns |-> IF o \in Conns THEN Closed ELSE pager[o]]
    BY <1>3 DEF PowerLoss
  <2> QED
    BY <1>3, <2>1, DeathKept DEF PowerLoss
<1>4. CASE UNCHANGED vars
  BY <1>4 DEF vars, AloneInv, LockInv, LockTypeOK, Exclusion, Shape, Armed
<1> QED
  BY <1>1, <1>2, <1>3, <1>4, ConnectionKept DEF Next

\* The pager keeps to the locks: whatever it reads, writes, spills or rolls back, and
\* whoever dies, its connections obtain and release locks as FileLocks says (pagerLockDb,
\* pagerUnlockDb), so that Exclusion holds of them.
THEOREM LocksKept == Spec => LockSpec /\ []Exclusion
<1>1. Init => LockInit
  BY DEF Init
<1>2. Spec => LockSpec
  BY <1>1, AloneInit, AloneStep, PTL DEF Spec, LockSpec
<1> QED
  BY <1>2, ExclusionHolds, PTL

\* The count of crashes is a number, so that a crash changes it.
LEMMA CrashesCounted == Spec => [](crashes \in Nat)
<1>1. Init => crashes \in Nat
  BY DEF Init
<1>2. crashes \in Nat /\ [Next]_vars => (crashes \in Nat)'
  <2> SUFFICES ASSUME crashes \in Nat, [Next]_vars
               PROVE  crashes' \in {crashes, crashes + 1}
    OBVIOUS
  <2>1. CASE PowerLoss \/ UNCHANGED vars
    BY <2>1 DEF PowerLoss, vars
  <2>2. ASSUME NEW c \in Conns,
               \/ Opening(c) \/ Locking(c) \/ EndRead(c) \/ ErrorUnlock(c)
               \/ Fail(c) \/ Crash(c)
               \/ \E p \in Pages : Get(c, p) \/ Recycle(c, p) \/ JournalFails(c, p)
        PROVE  crashes' \in {crashes, crashes + 1}
    BY <2>2 DEF Opening, TakeShared, LookForJournal, LookForWriter, Stray, DeleteStray, ReadHeader,
                OpenHotJournal, PlayHotJournal, Validate, Locking, TakePending, TakeExclusive, Busy,
                EndRead, ErrorUnlock, Fail, Crash, Get, Recycle, JournalFails
  <2>3. ASSUME NEW c \in Conns, Writer(c)
        PROVE  crashes' \in {crashes, crashes + 1}
    BY <2>3 DEF Writer, Begin, Write, Spill, Commit, SyncRecords, WriteHeader, SyncHeader, WritePage,
                SyncFile, Finalize, Unlock, EndUnwritten, Rollback
  <2> QED
    BY <2>1, <2>2, <2>3 DEF Next
<1> QED
  BY <1>1, <1>2, PTL DEF Spec

\* Where the file changes there is EXCLUSIVE, and Exclusion does the rest.
LEMMA WhoWritesIsAlone ==
    ASSUME AloneInv, crashes \in Nat, [Next]_vars, file' # file, crashes' = crashes
    PROVE  \E c \in Conns : lock[c] = EXCLUSIVE_LOCK /\ \A o \in Others(c) : lock[o] = NO_LOCK
<1> SUFFICES \E c \in Conns : lock[c] = EXCLUSIVE_LOCK
  BY DEF AloneInv, LockInv, Exclusion
<1>1. PICK c \in Conns : WritePage(c) \/ Rollback(c) \/ PlayHotJournal(c) \/ Fail(c)
  <2>1. ~PowerLoss /\ \A c \in Conns : ~Crash(c)
    BY DEF PowerLoss, Crash
  <2>2. PICK c \in Conns : \/ Opening(c) \/ Locking(c) \/ Writer(c) \/ EndRead(c) \/ ErrorUnlock(c)
                           \/ Fail(c)
                           \/ \E p \in Pages : Get(c, p) \/ Recycle(c, p) \/ JournalFails(c, p)
    BY <2>1 DEF Next, vars
  <2>3. Opening(c) => PlayHotJournal(c)
    BY DEF Opening, TakeShared, LookForJournal, LookForWriter, Stray, DeleteStray, ReadHeader,
           OpenHotJournal, Validate
  <2>4. /\ ~Locking(c) /\ ~EndRead(c) /\ ~ErrorUnlock(c)
        /\ \A p \in Pages : ~Get(c, p) /\ ~Recycle(c, p) /\ ~JournalFails(c, p)
    BY DEF Locking, TakePending, TakeExclusive, Busy, EndRead, ErrorUnlock, Get, Recycle, JournalFails
  <2>5. Writer(c) => WritePage(c) \/ Rollback(c)
    BY DEF Writer, Begin, Write, Spill, Commit, SyncRecords, WriteHeader, SyncHeader, SyncFile,
           Finalize, Unlock, EndUnwritten
  <2> QED
    BY <2>2, <2>3, <2>4, <2>5
<1>2. Armed(c)
  BY DEF AloneInv
<1>3. pager[c].at \in Exclusively \/ pager[c].eState = "WRITER_DBMOD"
  <2>1. CASE WritePage(c)
    BY <2>1 DEF WritePage, Exclusively
  <2>2. CASE Rollback(c)
    <3>1. [pager[c] EXCEPT !.op = "rollback", !.dbSize = pager[c].dbOrigSize,
                           !.cache = CacheRestored(pager[c]),
                           !.dbFileVers = IF pager[c].cache[1] # Beyond
                                          THEN CacheRestored(pager[c])[1] ELSE @].eState
             = "WRITER_DBMOD"
      BY <2>2 DEF Rollback
    <3> QED
      BY <3>1 DEF AloneInv, Shape
  <2>3. CASE PlayHotJournal(c)
    BY <2>3 DEF PlayHotJournal, Exclusively
  <2>4. CASE Fail(c)
    BY <2>4 DEF Fail, Exclusively
  <2> QED
    BY <1>1, <2>1, <2>2, <2>3, <2>4
<1> QED
  BY <1>2, <1>3 DEF Armed

\* Whoever changes the file, to write a page, to spill one or to put one back, is alone
\* with it, for every number of connections, pages and crashes (pager_write_pagelist,
\* pager_playback).
THEOREM AloneCorrect == Spec => AloneWithFile
<1>1. AloneInv /\ crashes \in Nat /\ [Next]_vars =>
        [file' # file /\ crashes' = crashes =>
           \E c \in Conns : lock[c] = EXCLUSIVE_LOCK /\ \A o \in Others(c) : lock[o] = NO_LOCK]_vars
  BY WhoWritesIsAlone
<1> QED
  BY <1>1, AloneInit, AloneStep, CrashesCounted, PTL DEF Spec, AloneWithFile
-----------------------------------------------------------------------------
(* The journal of a transaction under way.                                 *)

\* A transaction whose pages are journalled, and any that has begun.
Modifying == {"WRITER_CACHEMOD", "WRITER_DBMOD"}
Logged == Modifying \cup {"WRITER_FINISHED"}
Transacting == Logged \cup {"WRITER_LOCKED"}

\* The locks of which one connection has one: who has it may make and delete the journal.
Owners == Writers \cup {EXCLUSIVE_LOCK}

\* Where nothing but a reader that begins can be, or the playback of a hot journal ...
Opens == Beginning \cup {"playback"}

\* ... and nothing but a transaction that has changed a page.
Syncing == {"syncRecords", "writeHeader", "syncHeader", "mustRollback"}

Deleting == {"deleteStray", "finalize"}

Fields(pg) == {"at", "eState", "op", "txn"} \subseteq DOMAIN pg

\* The state of the pager that goes with a place, and with what is being done there.
Placed(pg) ==
    /\ pg.at \in Opens => pg.eState = "OPEN"
    /\ pg.at \in {"openJournal", "playback"} => pg.op = "hot"
    /\ pg.at = "exclusive" =>
          /\ pg.op \in {"hot", "begin", "spill", "commit"}
          /\ pg.op = "hot" => pg.eState = "OPEN"
          /\ pg.op \in {"spill", "commit"} => pg.eState \in Modifying
    /\ pg.at \in Syncing => pg.eState \in Modifying
    /\ pg.at \in {"writePages", "syncFile"} =>
          /\ pg.eState \in {"WRITER_DBMOD", "OPEN"}
          /\ pg.op = "commit" => pg.eState = "WRITER_DBMOD"

\* Whoever writes, or deletes a journal, has one of the locks of which there is one.
Owned(c) == pager[c].eState \in Transacting \/ pager[c].at \in Deleting => lock[c] \in Owners

Holds(j, t) == {"exists", "txn"} \subseteq DOMAIN j /\ j.exists /\ j.txn = t

\* WriterKeepsJournal, of one connection.
JournalOf(c) == pager[c].eState \in Logged /\ ~At(c, "unlock") => Holds(journal, pager[c].txn)

WriterInv == /\ AloneInv
             /\ \A c \in Conns : Fields(pager[c]) /\ Placed(pager[c]) /\ Owned(c) /\ JournalOf(c)

\* A step leaves everybody's journal alone.
JournalStays == \A t : Holds(journal, t) => Holds(journal', t)

LEMMA OwnerIsOne ==
    ASSUME AloneInv, NEW c \in Conns, NEW o \in Others(c), lock[c] \in Owners
    PROVE  lock[o] \notin Owners
  BY DEF AloneInv, LockInv, Exclusion, Owners, Writers, Others, NO_LOCK, RESERVED_LOCK, PENDING_LOCK,
         EXCLUSIVE_LOCK

\* A step of one connection keeps the invariant if it does so for itself, and leaves the
\* journal alone unless it has one of those locks.
LEMMA WriterLocal ==
    ASSUME WriterInv, AloneInv', NEW c \in Conns, Kept(c), NEW pg, Becomes(c, pg),
           Fields(pg), Placed(pg),
           pg.eState \in Transacting \/ pg.at \in Deleting => lock'[c] \in Owners,
           pg.eState \in Logged /\ pg.at # "unlock" => Holds(journal', pg.txn),
           lock[c] \in Owners \/ JournalStays
    PROVE  WriterInv'
<1>1. pager'[c] = pg
  BY DEF WriterInv, AloneInv, Shape
<1>2. Fields(pager[c])' /\ Placed(pager[c])' /\ Owned(c)' /\ JournalOf(c)'
  BY <1>1 DEF Owned, JournalOf
<1>3. ASSUME NEW o \in Others(c)
      PROVE  Fields(pager[o])' /\ Placed(pager[o])' /\ Owned(o)' /\ JournalOf(o)'
  <2>1. o \in Conns /\ pager'[o] = pager[o] /\ lock'[o] = lock[o]
    BY <1>3 DEF Kept, PagerLocal, LockLocal, Others
  <2>2. Fields(pager[o])' /\ Placed(pager[o])' /\ Owned(o)'
    BY <2>1 DEF WriterInv, Owned
  <2>3. JournalOf(o)'
    <3>1. CASE JournalStays
      BY <2>1, <3>1 DEF WriterInv, JournalOf, JournalStays
    <3>2. CASE lock[c] \in Owners
      BY <2>1, <3>2, OwnerIsOne DEF WriterInv, Owned, JournalOf, Transacting
    <3> QED
      BY <3>1, <3>2
  <2> QED
    BY <2>2, <2>3
<1> HIDE DEF Becomes
<1> QED
  BY <1>2, <1>3 DEF WriterInv, Others

\* The same where the locks and the journal stay as they are.
LEMMA WriterQuiet ==
    ASSUME WriterInv, AloneInv', NEW c \in Conns, Kept(c), NEW pg, Becomes(c, pg),
           Fields(pg), Placed(pg), UNCHANGED <<lock, journal>>,
           pg.eState \in Transacting \/ pg.at \in Deleting => lock[c] \in Owners,
           pg.eState \in Logged /\ pg.at # "unlock" => Holds(journal, pg.txn)
    PROVE  WriterInv'
<1>1. JournalStays
  BY DEF JournalStays
<1>2. /\ lock'[c] = lock[c]
      /\ \A t : Holds(journal', t) <=> Holds(journal, t)
  OBVIOUS
<1> HIDE DEF Becomes
<1> QED
  BY <1>1, <1>2, WriterLocal

\* The same where the connection goes on to another place, and nothing else.
LEMMA WriterGoes ==
    ASSUME WriterInv, AloneInv', NEW c \in Conns, Kept(c), NEW place, Goes(c, place),
           UNCHANGED <<lock, journal>>,
           Placed([pager[c] EXCEPT !.at = place]),
           place \in Deleting => lock[c] \in Owners,
           pager[c].eState \in Logged /\ place # "unlock" => Holds(journal, pager[c].txn)
    PROVE  WriterInv'
<1> DEFINE pg == [pager[c] EXCEPT !.at = place]
<1>1. /\ Fields(pg) /\ Becomes(c, pg) /\ Placed(pg)
      /\ pg.at = place /\ pg.eState = pager[c].eState /\ pg.txn = pager[c].txn
  BY DEF WriterInv, Fields
<1>2. pg.eState \in Transacting => lock[c] \in Owners
  BY <1>1 DEF WriterInv, Owned
<1> HIDE DEF pg, Becomes
<1> QED
  BY <1>1, <1>2, WriterQuiet

LEMMA PlaceIsNew ==
    ASSUME NEW pg, Fields(pg), NEW place
    PROVE  LET at == [pg EXCEPT !.at = place] IN
           /\ Fields(at)
           /\ at.at = place /\ at.eState = pg.eState /\ at.op = pg.op /\ at.txn = pg.txn
  BY DEF Fields

\* A reader that begins.
LEMMA WriterOpening ==
    ASSUME WriterInv, AloneInv', NEW c \in Conns, Kept(c),
           \/ LookForJournal(c) \/ LookForWriter(c) \/ ReadHeader(c) \/ Validate(c)
           \/ PlayHotJournal(c)
    PROVE  WriterInv'
<1>0. Fields(pager[c]) /\ Placed(pager[c])
  BY DEF WriterInv
<1> USE DEF Placed, Opens, Beginning, Syncing, Deleting, Transacting, Logged, Modifying
<1>1. CASE LookForJournal(c)
  <2>1. PICK place \in {"lookForWriter", "validate"} : Goes(c, place) /\ UNCHANGED <<lock, journal>>
    BY <1>1 DEF LookForJournal
  <2>2. pager[c].eState = "OPEN"
    BY <1>0, <1>1 DEF LookForJournal
  <2> HIDE DEF Goes, Becomes
  <2> QED
    BY <1>0, <2>1, <2>2, PlaceIsNew, WriterGoes
<1>2. CASE LookForWriter(c)
  <2>1. PICK place \in {"stray", "readHeader", "validate"} : Goes(c, place) /\ UNCHANGED <<lock, journal>>
    <3> DEFINE place == CASE \E o \in Others(c) : lock[o] \in Writers -> "validate"
                          [] Size(file) = 0                          -> "stray"
                          [] OTHER                                   -> "readHeader"
    <3>1. place \in {"stray", "readHeader", "validate"}
      OBVIOUS
    <3>2. Goes(c, place) /\ UNCHANGED <<lock, journal>>
      BY <1>2 DEF LookForWriter
    <3> HIDE DEF place
    <3> QED
      BY <3>1, <3>2
  <2>2. pager[c].eState = "OPEN"
    BY <1>0, <1>2 DEF LookForWriter
  <2> HIDE DEF Goes, Becomes
  <2> QED
    BY <1>0, <2>1, <2>2, PlaceIsNew, WriterGoes
<1>3. CASE ReadHeader(c)
  <2> DEFINE hot == [pager[c] EXCEPT !.at = "exclusive", !.op = "hot"]
  <2>1. UNCHANGED <<lock, journal>> /\ (Goes(c, "validate") \/ Becomes(c, hot))
    <3> HIDE DEF Becomes, Goes
    <3> QED
      BY <1>3 DEF ReadHeader
  <2>2. pager[c].eState = "OPEN"
    BY <1>0, <1>3 DEF ReadHeader
  <2>3. Fields(hot) /\ hot.at = "exclusive" /\ hot.eState = "OPEN" /\ hot.op = "hot"
    BY <1>0, <2>2 DEF Fields
  <2> HIDE DEF hot, Goes, Becomes
  <2>4. CASE Goes(c, "validate")
    BY <1>0, <2>1, <2>2, <2>4, PlaceIsNew, WriterGoes
  <2>5. CASE Becomes(c, hot)
    BY <2>1, <2>3, <2>5, WriterQuiet
  <2> QED
    BY <2>1, <2>4, <2>5
<1>4. CASE Validate(c)
  <2> DEFINE cached == [ValidCache(pager[c]) EXCEPT ![1] = file[1]]
             pg == [pager[c] EXCEPT !.eState = "READER", !.at = "idle", !.op = "none",
                                    !.cache = cached, !.dbFileVers = file[1],
                                    !.hasHeldSharedLock = TRUE, !.dbSize = Size(file)]
  <2>1. Becomes(c, pg) /\ UNCHANGED <<lock, journal>>
    BY <1>4 DEF Validate
  <2>2. Fields(pg) /\ pg.at = "idle" /\ pg.eState = "READER"
    <3> HIDE DEF cached
    <3> QED
      BY <1>0 DEF Fields
  <2> HIDE DEF pg, Becomes
  <2> QED
    BY <2>1, <2>2, WriterQuiet
<1>5. CASE PlayHotJournal(c)
  <2> DEFINE recs == IF HasHeader(journal) THEN Playable(journal) ELSE {}
             kept == IF recs # {} THEN NoPages ELSE pager[c].cache
             pg == Played([pager[c] EXCEPT !.cache = kept], recs)
  <2>1. Becomes(c, pg) /\ UNCHANGED <<lock, journal>>
    <3> HIDE DEF recs
    <3> QED
      BY <1>5 DEF PlayHotJournal, recs
  <2>2. pager[c].eState = "OPEN"
    BY <1>0, <1>5 DEF PlayHotJournal
  <2>3. Fields(pg) /\ pg.at \in {"writePages", "syncFile"} /\ pg.eState = "OPEN" /\ pg.op = pager[c].op
    <3> HIDE DEF recs, kept
    <3> QED
      BY <1>0, <2>2 DEF Fields, Played
  <2>4. pg.op # "commit"
    BY <1>0, <1>5, <2>3 DEF PlayHotJournal
  <2> HIDE DEF pg, Becomes
  <2> QED
    BY <2>1, <2>3, <2>4, WriterQuiet
<1> QED
  BY <1>1, <1>2, <1>3, <1>4, <1>5

\* A page comes into the cache, or leaves it.
LEMMA WriterPaging ==
    ASSUME WriterInv, AloneInv', NEW c \in Conns, Kept(c),
           NEW p \in Pages, Get(c, p) \/ Recycle(c, p)
    PROVE  WriterInv'
<1>1. PICK x : /\ Becomes(c, [pager[c] EXCEPT !.cache[p] = x])
               /\ UNCHANGED <<lock, journal>> /\ pager[c].at = "idle"
  BY DEF Get, Recycle, InUse, Writing
<1> DEFINE pg == [pager[c] EXCEPT !.cache[p] = x]
<1>2. /\ Fields(pg) /\ pg.at = "idle" /\ pg.eState = pager[c].eState
      /\ pg.op = pager[c].op /\ pg.txn = pager[c].txn
  BY <1>1 DEF WriterInv, Fields
<1>3. Placed(pg)
  BY <1>2 DEF Placed, Opens, Beginning, Syncing
<1>4. /\ pg.eState \in Transacting \/ pg.at \in Deleting => lock[c] \in Owners
      /\ pg.eState \in Logged /\ pg.at # "unlock" => Holds(journal, pg.txn)
  BY <1>1, <1>2 DEF WriterInv, Owned, JournalOf, Deleting
<1>5. Becomes(c, pg) /\ UNCHANGED <<lock, journal>>
  BY <1>1
<1> HIDE DEF pg, Becomes
<1> QED
  BY <1>2, <1>3, <1>4, <1>5, WriterQuiet

\* A transaction on its way to the file, and back.
LEMMA WriterWorking ==
    ASSUME WriterInv, AloneInv', NEW c \in Conns, Kept(c),
           \/ SyncRecords(c) \/ WritePage(c) \/ SyncFile(c) \/ EndUnwritten(c) \/ Fail(c)
           \/ \E p \in Pages : Spill(c, p)
    PROVE  WriterInv'
<1>0. Fields(pager[c]) /\ Placed(pager[c]) /\ Owned(c) /\ JournalOf(c)
  BY DEF WriterInv
<1> USE DEF Placed, Opens, Beginning, Syncing, Deleting, Transacting, Logged, Modifying
<1>1. CASE SyncRecords(c)
  <2>1. Goes(c, "writeHeader") /\ UNCHANGED <<lock, journal>> /\ pager[c].at = "syncRecords"
    BY <1>1 DEF SyncRecords
  <2>2. pager[c].eState \in Modifying /\ Holds(journal, pager[c].txn)
    BY <1>0, <2>1 DEF JournalOf
  <2> HIDE DEF Goes, Becomes
  <2> QED
    BY <1>0, <2>1, <2>2, PlaceIsNew, WriterGoes
<1>2. CASE WritePage(c)
  <2>1. PICK r \in pager[c].todo :
             Becomes(c, PageWritten(pager[c], r)) /\ UNCHANGED <<lock, journal>>
    BY <1>2 DEF WritePage
  <2> DEFINE pg == PageWritten(pager[c], r)
  <2>2. pager[c].at = "writePages"
    BY <1>2 DEF WritePage
  <2>3. /\ Fields(pg)
        /\ pg.eState = pager[c].eState /\ pg.txn = pager[c].txn
        /\ \/ pg.at = "idle"
           \/ pg.at \in {"writePages", "syncFile"} /\ pg.op = pager[c].op
    BY <1>0, <2>2 DEF PageWritten, Fields
  <2>4. Becomes(c, pg)
    BY <2>1
  <2> HIDE DEF pg, Becomes
  <2> QED
    BY <1>0, <2>1, <2>2, <2>3, <2>4, WriterQuiet DEF Owned, JournalOf
<1>3. CASE SyncFile(c)
  <2> DEFINE state == IF pager[c].op = "commit" THEN "WRITER_FINISHED" ELSE pager[c].eState
             pg == [pager[c] EXCEPT !.at = "finalize", !.eState = state]
  <2>1. Becomes(c, pg) /\ UNCHANGED <<lock, journal>> /\ pager[c].at = "syncFile"
    BY <1>3 DEF SyncFile
  <2>2. Fields(pg) /\ pg.at = "finalize" /\ pg.eState = state /\ pg.txn = pager[c].txn
    BY <1>0 DEF Fields
  <2>3. lock[c] \in Owners
    BY <2>1 DEF WriterInv, AloneInv, Armed, Exclusively, Owners
  <2>4. state \in Logged => Holds(journal, pager[c].txn)
    BY <1>0, <2>1 DEF JournalOf
  <2>5. state # "WRITER_FINISHED" => state = pager[c].eState
    OBVIOUS
  <2> HIDE DEF pg, state, Becomes
  <2> QED
    BY <1>0, <2>1, <2>2, <2>3, <2>4, WriterQuiet
<1>4. CASE EndUnwritten(c)
  <2>1. Goes(c, "unlock") /\ UNCHANGED <<lock, journal>>
    BY <1>4 DEF EndUnwritten
  <2> HIDE DEF Goes, Becomes
  <2> QED
    BY <1>0, <2>1, PlaceIsNew, WriterGoes
<1>5. CASE Fail(c)
  <2> DEFINE ended  == [pager[c] EXCEPT !.eState = "ERROR", !.at = "unlock"]
             failed == [pager[c] EXCEPT !.at = "mustRollback", !.todo = {}]
             broken == [pager[c] EXCEPT !.eState = "ERROR", !.at = "idle"]
  <2>1. /\ Fields(ended) /\ Fields(failed) /\ Fields(broken)
        /\ ended.at = "unlock" /\ ended.eState = "ERROR"
        /\ failed.at = "mustRollback" /\ failed.eState = pager[c].eState
        /\ failed.txn = pager[c].txn
        /\ broken.at = "idle" /\ broken.eState = "ERROR"
    BY <1>0 DEF Fields
  <2>2. UNCHANGED <<lock, journal>>
    BY <1>5 DEF Fail
  <2>3. \/ Becomes(c, ended) \/ Becomes(c, broken)
        \/ /\ Becomes(c, failed)
           /\ pager[c].op = "commit"
           /\ pager[c].at \in {"syncRecords", "writeHeader", "syncHeader", "writePages", "syncFile",
                               "playback"}
    <3> HIDE DEF Becomes
    <3> QED
      BY <1>5 DEF Fail
  <2> HIDE DEF ended, failed, broken, Becomes
  <2>4. CASE Becomes(c, ended)
    BY <2>1, <2>2, <2>4, WriterQuiet
  <2>5. CASE Becomes(c, broken)
    BY <2>1, <2>2, <2>5, WriterQuiet
  <2>6. CASE /\ Becomes(c, failed)
             /\ pager[c].op = "commit"
             /\ pager[c].at \in {"syncRecords", "writeHeader", "syncHeader", "writePages", "syncFile",
                                 "playback"}
    <3>1. pager[c].eState \in Modifying
      BY <1>0, <2>6
    <3>2. lock[c] \in Owners /\ Holds(journal, pager[c].txn)
      BY <1>0, <2>6, <3>1 DEF Owned, JournalOf
    <3> QED
      BY <2>1, <2>2, <2>6, <3>1, <3>2, WriterQuiet
  <2> QED
    BY <2>3, <2>4, <2>5, <2>6
<1>6. ASSUME NEW p \in Pages, Spill(c, p) PROVE WriterInv'
  <2> DEFINE place == IF p \in pager[c].needSync \/ pager[c].eState = "WRITER_CACHEMOD"
                      THEN BeginSync(c) ELSE "writePages"
             pg == [pager[c] EXCEPT !.op = "spill", !.todo = {Record(p, pager[c].cache[p])},
                                    !.at = place]
  <2>1. /\ Becomes(c, pg) /\ UNCHANGED <<lock, journal>>
        /\ pager[c].at = "idle" /\ pager[c].eState \in Modifying
    BY <1>6 DEF Spill
  <2>2. /\ place \in {"syncRecords", "exclusive", "writePages"}
        /\ place = "writePages" => pager[c].eState = "WRITER_DBMOD"
    BY <2>1 DEF BeginSync
  <2>3. /\ Fields(pg)
        /\ pg.at = place /\ pg.op = "spill" /\ pg.eState = pager[c].eState /\ pg.txn = pager[c].txn
    <3> HIDE DEF place
    <3> QED
      BY <1>0 DEF Fields
  <2>4. lock[c] \in Owners /\ Holds(journal, pager[c].txn)
    BY <1>0, <2>1 DEF Owned, JournalOf
  <2> HIDE DEF pg, place, Becomes
  <2> QED
    BY <2>1, <2>2, <2>3, <2>4, WriterQuiet
<1> QED
  BY <1>1, <1>2, <1>3, <1>4, <1>5, <1>6

LEMMA WriterRollingBack ==
    ASSUME WriterInv, AloneInv', NEW c \in Conns, Kept(c), Rollback(c)
    PROVE  WriterInv'
<1>0. Fields(pager[c]) /\ Owned(c) /\ JournalOf(c)
  BY DEF WriterInv
<1> USE DEF Placed, Opens, Beginning, Syncing, Deleting, Transacting, Logged, Modifying
<1> DEFINE pg == [pager[c] EXCEPT !.op = "rollback", !.dbSize = pager[c].dbOrigSize,
                                  !.cache = CacheRestored(pager[c]),
                                  !.dbFileVers = IF pager[c].cache[1] # Beyond
                                                 THEN CacheRestored(pager[c])[1] ELSE @]
           played == Played(pg, InFile(pg))
           left == [pg EXCEPT !.at = "finalize"]
<1>1. Fields(pg) /\ pg.eState = pager[c].eState /\ pg.op = "rollback" /\ pg.txn = pager[c].txn
  BY <1>0 DEF Fields
<1>2. /\ UNCHANGED <<lock, journal>>
      /\ (pg.eState = "WRITER_DBMOD" /\ Becomes(c, played)) \/ Becomes(c, left)
  <2> HIDE DEF Becomes
  <2> QED
    BY DEF Rollback
<1>3. /\ pager[c].eState \in Modifying
      /\ lock[c] \in Owners /\ Holds(journal, pager[c].txn)
  BY <1>0 DEF Rollback, Owned, JournalOf
<1> HIDE DEF pg
<1>4. /\ Fields(played)
      /\ played.at \in {"writePages", "syncFile"} /\ played.op = "rollback"
      /\ played.eState = pager[c].eState /\ played.txn = pager[c].txn
  BY <1>1 DEF Fields, Played
<1>5. Fields(left) /\ left.at = "finalize" /\ left.eState = pager[c].eState /\ left.txn = pager[c].txn
  BY <1>1 DEF Fields
<1> HIDE DEF played, left, Becomes
<1>6. CASE pg.eState = "WRITER_DBMOD" /\ Becomes(c, played)
  BY <1>1, <1>2, <1>3, <1>4, <1>6, WriterQuiet
<1>7. CASE Becomes(c, left)
  BY <1>1, <1>2, <1>3, <1>5, <1>7, WriterQuiet
<1> QED
  BY <1>2, <1>6, <1>7

\* Whoever changes the journal has a lock that is his alone, and his transaction keeps it
\* until it is over.
LEMMA WriterJournalling ==
    ASSUME WriterInv, AloneInv', NEW c \in Conns, Kept(c),
           \/ DeleteStray(c) \/ Commit(c) \/ WriteHeader(c) \/ SyncHeader(c) \/ Finalize(c)
           \/ \E p \in Pages : Write(c, p) \/ JournalFails(c, p)
    PROVE  WriterInv'
<1>0. Fields(pager[c]) /\ Placed(pager[c]) /\ Owned(c) /\ JournalOf(c)
  BY DEF WriterInv
<1> USE DEF Placed, Opens, Beginning, Syncing, Deleting, Transacting, Logged, Modifying
<1>1. CASE DeleteStray(c)
  <2>1. pager[c].at = "deleteStray" /\ pager[c].eState = "OPEN" /\ lock[c] \in Owners
    BY <1>0, <1>1 DEF DeleteStray, Owned
  <2>2. CASE journal.exists
    <3>1. UNCHANGED <<lock, pager>>
      BY <1>1, <2>2 DEF DeleteStray
    <3>2. ASSUME NEW o \in Conns
          PROVE  Fields(pager[o])' /\ Placed(pager[o])' /\ Owned(o)' /\ JournalOf(o)'
      <4>1. Fields(pager[o])' /\ Placed(pager[o])' /\ Owned(o)'
        BY <3>1, <3>2 DEF WriterInv, Owned
      <4>2. JournalOf(o)'
        BY <2>1, <3>1, <3>2, OwnerIsOne DEF WriterInv, Owned, JournalOf, Others
      <4> QED
        BY <4>1, <4>2
    <3> QED
      BY <3>2 DEF WriterInv
  <2>3. CASE ~journal.exists
    <3> DEFINE pg == [pager[c] EXCEPT !.at = "validate"]
    <3>1. Becomes(c, pg) /\ Fields(pg) /\ pg.at = "validate" /\ pg.eState = "OPEN"
      BY <1>0, <1>1, <2>1, <2>3 DEF DeleteStray, Fields
    <3> HIDE DEF pg, Becomes
    <3> QED
      BY <2>1, <3>1, WriterLocal
  <2> QED
    BY <2>2, <2>3
<1>2. CASE Commit(c)
  <2> DEFINE dirty == Dirtied(pager[c], 1)
             pg == [dirty EXCEPT !.op = "commit", !.at = BeginSync(c)]
  <2>1. /\ Becomes(c, pg) /\ UNCHANGED lock
        /\ pager[c].at = "idle" /\ pager[c].eState \in Modifying
        /\ journal' = Journalled(journal, pager[c], 1)
    BY <1>2 DEF Commit
  <2>2. Fields(dirty) /\ dirty.eState = pager[c].eState /\ dirty.txn = pager[c].txn
    BY <1>0 DEF Fields, Dirtied
  <2>3. BeginSync(c) \in {"syncRecords", "exclusive"}
    BY DEF BeginSync
  <2>4. /\ Fields(pg)
        /\ pg.at = BeginSync(c) /\ pg.op = "commit"
        /\ pg.eState = pager[c].eState /\ pg.txn = pager[c].txn
    <3> HIDE DEF dirty
    <3> QED
      BY <2>2 DEF Fields
  <2>5. lock[c] \in Owners /\ Holds(journal, pager[c].txn)
    BY <1>0, <2>1 DEF Owned, JournalOf
  <2>6. Holds(journal', pager[c].txn)
    BY <2>1, <2>5 DEF Journalled, Holds
  <2> HIDE DEF pg, dirty, Becomes
  <2> QED
    BY <2>1, <2>3, <2>4, <2>5, <2>6, WriterLocal
<1>3. CASE WriteHeader(c)
  <2> DEFINE pg == [pager[c] EXCEPT !.at = "syncHeader"]
  <2>1. /\ Becomes(c, pg) /\ UNCHANGED lock /\ pager[c].at = "writeHeader"
        /\ journal' = [journal EXCEPT !.segs[Len(journal.segs)].valid = TRUE]
    BY <1>3 DEF WriteHeader
  <2>2. /\ Fields(pg) /\ pg.at = "syncHeader" /\ pg.eState = pager[c].eState
        /\ pg.txn = pager[c].txn
    BY <1>0 DEF Fields
  <2>3. pager[c].eState \in Modifying /\ lock[c] \in Owners /\ Holds(journal, pager[c].txn)
    BY <1>0, <2>1 DEF Owned, JournalOf
  <2>4. Holds(journal', pager[c].txn)
    BY <2>1, <2>3 DEF Holds
  <2> HIDE DEF pg, Becomes
  <2> QED
    BY <2>1, <2>2, <2>3, <2>4, WriterLocal
<1>4. CASE SyncHeader(c)
  <2> DEFINE pg == [pager[c] EXCEPT !.at = "writePages", !.eState = "WRITER_DBMOD", !.needSync = {},
                                    !.synced = Len(journal.segs)]
             cm == [pg EXCEPT !.todo = {Record(p, pg.cache[p]) : p \in pg.dirty}]
  <2>1. /\ Fields(pg) /\ pg.at = "writePages" /\ pg.eState = "WRITER_DBMOD" /\ pg.txn = pager[c].txn
        /\ Fields(cm) /\ cm.at = "writePages" /\ cm.eState = "WRITER_DBMOD" /\ cm.txn = pager[c].txn
    BY <1>0 DEF Fields
  <2>2. /\ pager[c].at = "syncHeader" /\ UNCHANGED lock
        /\ Becomes(c, cm) \/ Becomes(c, pg)
        /\ \/ UNCHANGED journal
           \/ journal' = [journal EXCEPT !.segs = Append(@, UnwrittenHeader)]
    <3> HIDE DEF Becomes
    <3> QED
      BY <1>4 DEF SyncHeader
  <2>3. pager[c].eState \in Modifying /\ lock[c] \in Owners /\ Holds(journal, pager[c].txn)
    BY <1>0, <2>2 DEF Owned, JournalOf
  <2>4. Holds(journal', pager[c].txn)
    BY <2>2, <2>3 DEF Holds
  <2> HIDE DEF pg, cm, Becomes
  <2>5. CASE Becomes(c, pg)
    BY <2>1, <2>2, <2>3, <2>4, <2>5, WriterLocal
  <2>6. CASE Becomes(c, cm)
    BY <2>1, <2>2, <2>3, <2>4, <2>6, WriterLocal
  <2> QED
    BY <2>2, <2>5, <2>6
<1>5. CASE Finalize(c)
  <2> DEFINE pg == [pager[c] EXCEPT !.at = "unlock"]
  <2>1. Becomes(c, pg) /\ UNCHANGED lock /\ pager[c].at = "finalize"
    BY <1>5 DEF Finalize
  <2>2. Fields(pg) /\ pg.at = "unlock" /\ pg.eState = pager[c].eState
    BY <1>0 DEF Fields
  <2>3. lock[c] \in Owners
    BY <1>0, <2>1 DEF Owned
  <2> HIDE DEF pg, Becomes
  <2> QED
    BY <2>1, <2>2, <2>3, WriterLocal
<1>6. ASSUME NEW p \in Pages, Write(c, p) PROVE WriterInv'
  <2> DEFINE op == Opened(pager[c])
             pg == Dirtied(op, p)
  <2>1. /\ Becomes(c, pg) /\ UNCHANGED lock
        /\ pager[c].at = "idle" /\ pager[c].eState \in Modifying \cup {"WRITER_LOCKED"}
        /\ journal' = Journalled(OpenJournal(pager[c]), op, p)
    BY <1>6 DEF Write, Writing
  <2>2. /\ Fields(op) /\ op.at = "idle" /\ op.eState \in Modifying /\ op.txn = pager[c].txn
    BY <1>0, <2>1 DEF Fields, Opened
  <2> HIDE DEF op
  <2>3. Fields(pg) /\ pg.at = "idle" /\ pg.eState \in Modifying /\ pg.txn = pager[c].txn
    BY <2>2 DEF Fields, Dirtied
  <2>4. lock[c] \in Owners
    BY <1>0, <2>1 DEF Owned
  <2>5. Holds(OpenJournal(pager[c]), pager[c].txn)
    <3>1. CASE pager[c].eState = "WRITER_LOCKED"
      BY <3>1 DEF OpenJournal, NewJournal, Holds
    <3>2. CASE pager[c].eState # "WRITER_LOCKED"
      BY <1>0, <2>1, <3>2 DEF OpenJournal, JournalOf
    <3> QED
      BY <3>1, <3>2
  <2>6. Holds(journal', pager[c].txn)
    BY <2>1, <2>5 DEF Journalled, Holds
  <2> HIDE DEF pg, Becomes
  <2> QED
    BY <2>1, <2>3, <2>4, <2>6, WriterLocal
<1>7. ASSUME NEW p \in Pages, JournalFails(c, p) PROVE WriterInv'
  <2> DEFINE op == Opened(pager[c])
             pg == [op EXCEPT !.at = "mustRollback", !.op = "none"]
  <2>1. /\ Becomes(c, pg) /\ UNCHANGED lock
        /\ pager[c].at = "idle" /\ pager[c].eState \in Modifying \cup {"WRITER_LOCKED"}
        /\ journal' = OpenJournal(pager[c])
    BY <1>7 DEF JournalFails, Writing
  <2>2. Fields(op) /\ op.eState \in Modifying /\ op.txn = pager[c].txn
    BY <1>0, <2>1 DEF Fields, Opened
  <2> HIDE DEF op
  <2>3. Fields(pg) /\ pg.at = "mustRollback" /\ pg.eState \in Modifying /\ pg.txn = pager[c].txn
    BY <2>2 DEF Fields
  <2>4. lock[c] \in Owners
    BY <1>0, <2>1 DEF Owned
  <2>5. Holds(journal', pager[c].txn)
    <3>1. CASE pager[c].eState = "WRITER_LOCKED"
      BY <2>1, <3>1 DEF OpenJournal, NewJournal, Holds
    <3>2. CASE pager[c].eState # "WRITER_LOCKED"
      BY <1>0, <2>1, <3>2 DEF OpenJournal, JournalOf
    <3> QED
      BY <3>1, <3>2
  <2> HIDE DEF pg, Becomes
  <2> QED
    BY <2>1, <2>3, <2>4, <2>5, WriterLocal
<1> QED
  BY <1>1, <1>2, <1>3, <1>4, <1>5, <1>6, <1>7

\* On the way up the lock of an owner leads to another.
LEMMA OwnerStays ==
    ASSUME LockInv, NEW c \in Conns, NEW k \in Locks, Obtain(c, k), lock[c] \in Owners
    PROVE  lock'[c] \in Owners
<1>1. lock[c] \in LeadsTo(k) /\ lock'[c] = k
  BY DEF Obtain, MayObtain, LockInv, LockTypeOK
<1> QED
  BY <1>1 DEF LeadsTo, Owners, Writers, Locks, NO_LOCK, SHARED_LOCK, RESERVED_LOCK, PENDING_LOCK,
              EXCLUSIVE_LOCK, RECOVERY_LOCK

LEMMA UnlockedFields ==
    ASSUME NEW pg, Fields(pg)
    PROVE  Fields(Unlocked(pg)) /\ Unlocked(pg).at = "idle" /\ Unlocked(pg).eState = "OPEN"
  BY DEF Fields, Unlocked, NoTransaction

LEMMA WriterUnlocks ==
    ASSUME WriterInv, AloneInv', NEW c \in Conns, Kept(c), Unlocks(c), UNCHANGED journal
    PROVE  WriterInv'
<1> DEFINE pg == Unlocked(pager[c])
<1>1. Becomes(c, pg) /\ Fields(pg) /\ pg.at = "idle" /\ pg.eState = "OPEN"
  BY UnlockedFields DEF Unlocks, WriterInv
<1>2. JournalStays
  BY DEF JournalStays
<1> HIDE DEF pg, Becomes
<1> QED
  BY <1>1, <1>2, WriterLocal
     DEF Placed, Opens, Beginning, Syncing, Deleting, Transacting, Logged, Modifying

\* The locks are asked for and given back.
LEMMA WriterLocking ==
    ASSUME WriterInv, AloneInv', NEW c \in Conns, Kept(c),
           \/ TakeShared(c) \/ Stray(c) \/ OpenHotJournal(c) \/ TakePending(c)
           \/ TakeExclusive(c) \/ Unlock(c) \/ \E exFlag \in BOOLEAN : Begin(c, exFlag)
    PROVE  WriterInv'
<1>0. Fields(pager[c]) /\ Placed(pager[c]) /\ Owned(c) /\ JournalOf(c) /\ AloneInv /\ LockInv
  BY DEF WriterInv, AloneInv
<1>j. /\ UNCHANGED journal => JournalStays
      /\ UNCHANGED journal => \A t : Holds(journal', t) <=> Holds(journal, t)
  BY DEF JournalStays
<1> USE LocksAreLocks
    DEF Placed, Opens, Beginning, Syncing, Deleting, Transacting, Logged, Modifying
<1>1. CASE TakeShared(c)
  <2>1. Goes(c, "lookForJournal") /\ UNCHANGED journal /\ pager[c].eState = "OPEN"
    BY <1>1 DEF TakeShared
  <2> DEFINE pg == [pager[c] EXCEPT !.at = "lookForJournal"]
  <2>2. Fields(pg) /\ Becomes(c, pg) /\ pg.at = "lookForJournal" /\ pg.eState = "OPEN"
    BY <1>0, <2>1 DEF Fields
  <2> HIDE DEF pg, Becomes
  <2> QED
    BY <1>j, <2>1, <2>2, WriterLocal
<1>2. CASE Stray(c)
  <2> DEFINE del == [pager[c] EXCEPT !.at = "deleteStray"]
             val == [pager[c] EXCEPT !.at = "validate"]
  <2>1. pager[c].eState = "OPEN" /\ UNCHANGED journal
    BY <1>0, <1>2 DEF Stray
  <2>2. /\ Fields(del) /\ del.at = "deleteStray" /\ del.eState = "OPEN"
        /\ Fields(val) /\ val.at = "validate" /\ val.eState = "OPEN"
    BY <1>0, <2>1 DEF Fields
  <2>3. \/ Obtain(c, RESERVED_LOCK) /\ Becomes(c, del)
        \/ Becomes(c, val)
    BY <1>2 DEF Stray
  <2> HIDE DEF del, val, Becomes
  <2>4. CASE Obtain(c, RESERVED_LOCK) /\ Becomes(c, del)
    <3>1. lock'[c] \in Owners
      BY <1>0, <2>4, ObtainIsLocal DEF Owners, Writers
    <3> QED
      BY <1>j, <2>1, <2>2, <2>4, <3>1, WriterLocal
  <2>5. CASE Becomes(c, val)
    BY <1>j, <2>1, <2>2, <2>5, WriterLocal
  <2> QED
    BY <2>3, <2>4, <2>5
<1>3. CASE OpenHotJournal(c)
  <2> DEFINE play == [pager[c] EXCEPT !.at = "playback"]
             val  == [pager[c] EXCEPT !.at = "validate"]
  <2>1. pager[c].eState = "OPEN" /\ pager[c].op = "hot" /\ UNCHANGED journal
    BY <1>0, <1>3 DEF OpenHotJournal
  <2>2. /\ Fields(play) /\ play.at = "playback" /\ play.eState = "OPEN" /\ play.op = "hot"
        /\ Fields(val) /\ val.at = "validate" /\ val.eState = "OPEN"
    BY <1>0, <2>1 DEF Fields
  <2>3. Becomes(c, play) \/ Becomes(c, val)
    BY <1>3 DEF OpenHotJournal
  <2> HIDE DEF play, val, Becomes
  <2>4. CASE Becomes(c, play)
    BY <1>j, <2>1, <2>2, <2>4, WriterLocal
  <2>5. CASE Becomes(c, val)
    BY <1>j, <2>1, <2>2, <2>5, WriterLocal
  <2> QED
    BY <2>3, <2>4, <2>5
<1>4. CASE TakePending(c)
  <2>1. PICK k \in {RECOVERY_LOCK, PENDING_LOCK} : Obtain(c, k)
    BY <1>4 DEF TakePending, Wait
  <2>2. k \in Locks
    BY <2>1
  <2>3. UNCHANGED <<pager, journal>> /\ pager[c].at = "exclusive"
    BY <1>4 DEF TakePending
  <2>4. lock[c] \in Owners => lock'[c] \in Owners
    BY <1>0, <2>1, <2>2, OwnerStays
  <2>5. \A o \in Others(c) : lock'[o] = lock[o]
    BY DEF Kept, LockLocal
  <2>6. ASSUME NEW o \in Conns
        PROVE  Fields(pager[o])' /\ Placed(pager[o])' /\ Owned(o)' /\ JournalOf(o)'
    BY <2>3, <2>4, <2>5, <2>6 DEF WriterInv, Owned, JournalOf, Others
  <2> QED
    BY <2>6 DEF WriterInv
<1>5. CASE TakeExclusive(c)
  <2>1. lock'[c] = EXCLUSIVE_LOCK
    BY <1>0, <1>5, ObtainIsLocal DEF TakeExclusive
  <2>2. lock'[c] \in Owners
    BY <2>1 DEF Owners
  <2> DEFINE pg == [pager[c] EXCEPT !.at = Onward(pager[c].op)]
             begun == [pg EXCEPT !.eState = "WRITER_LOCKED", !.op = "none"]
  <2>3. /\ Becomes(c, IF pg.op = "begin" THEN begun ELSE pg)
        /\ UNCHANGED journal /\ pager[c].at = "exclusive"
    BY <1>5 DEF TakeExclusive, Resume
  <2>4. /\ Fields(pg) /\ pg.op = pager[c].op /\ pg.eState = pager[c].eState
        /\ pg.txn = pager[c].txn
        /\ pg.at = Onward(pager[c].op)
    BY <1>0 DEF Fields
  <2> HIDE DEF pg
  <2>5. CASE pager[c].op = "begin"
    <3>1. Onward(pager[c].op) = "idle"
      BY <2>5 DEF Onward
    <3>2. Fields(begun) /\ begun.at = "idle" /\ begun.eState = "WRITER_LOCKED"
      BY <2>4, <3>1 DEF Fields
    <3>3. Becomes(c, begun)
      BY <2>3, <2>4, <2>5
    <3> HIDE DEF begun, Becomes
    <3> QED
      BY <1>j, <2>2, <2>3, <3>2, <3>3, WriterLocal
  <2>6. CASE pager[c].op = "hot"
    <3>1. Onward(pager[c].op) = "openJournal"
      BY <2>6 DEF Onward
    <3>2. Becomes(c, pg) /\ pager[c].eState = "OPEN"
      BY <1>0, <2>3, <2>4, <2>6
    <3> HIDE DEF begun, Becomes
    <3> QED
      BY <1>j, <2>3, <2>4, <2>6, <3>1, <3>2, WriterLocal
  <2>7. CASE pager[c].op \in {"spill", "commit"}
    <3>1. Onward(pager[c].op) = "syncRecords"
      BY <2>7 DEF Onward
    <3>2. Becomes(c, pg) /\ pager[c].eState \in Modifying
      BY <1>0, <2>3, <2>4, <2>7
    <3>3. Holds(journal, pager[c].txn)
      BY <1>0, <2>3, <3>2 DEF JournalOf
    <3> HIDE DEF begun, Becomes
    <3> QED
      BY <1>j, <2>2, <2>3, <2>4, <2>7, <3>1, <3>2, <3>3, WriterLocal
  <2> QED
    BY <1>0, <2>3, <2>5, <2>6, <2>7
<1>6. CASE Unlock(c)
  <2> DEFINE pg == NoTransaction(pager[c])
             val == [pg EXCEPT !.at = "validate"]
             err == [pg EXCEPT !.at = "idle"]
             read == [pg EXCEPT !.at = "idle", !.eState = "READER"]
  <2>1. /\ Fields(pg) /\ pg.eState = pager[c].eState
    BY <1>0 DEF Fields, NoTransaction
  <2>2. /\ UNCHANGED journal
        /\ \/ pg.eState = "OPEN" /\ Becomes(c, val)
           \/ pg.eState = "ERROR" /\ Becomes(c, err)
           \/ Becomes(c, read)
    <3> HIDE DEF Becomes
    <3> QED
      BY <1>6 DEF Unlock
  <2> HIDE DEF pg
  <2>3. /\ Fields(val) /\ val.at = "validate" /\ val.eState = pg.eState
        /\ Fields(err) /\ err.at = "idle" /\ err.eState = pg.eState
        /\ Fields(read) /\ read.at = "idle" /\ read.eState = "READER"
    BY <2>1 DEF Fields
  <2> HIDE DEF val, err, read, Becomes
  <2>4. CASE pg.eState = "OPEN" /\ Becomes(c, val)
    BY <1>j, <2>2, <2>3, <2>4, WriterLocal
  <2>5. CASE pg.eState = "ERROR" /\ Becomes(c, err)
    BY <1>j, <2>2, <2>3, <2>5, WriterLocal
  <2>6. CASE Becomes(c, read)
    BY <1>j, <2>2, <2>3, <2>6, WriterLocal
  <2> QED
    BY <2>2, <2>4, <2>5, <2>6
<1>7. ASSUME NEW exFlag \in BOOLEAN, Begin(c, exFlag) PROVE WriterInv'
  <2>1. lock'[c] \in Owners
    BY <1>0, <1>7, ObtainIsLocal DEF Begin, Owners, Writers
  <2> DEFINE pg == [pager[c] EXCEPT !.dbOrigSize = pager[c].dbSize, !.txn = txns + 1]
             ask == [pg EXCEPT !.at = "exclusive", !.op = "begin"]
             locked == [pg EXCEPT !.eState = "WRITER_LOCKED"]
  <2>2. UNCHANGED journal /\ (Becomes(c, ask) \/ Becomes(c, locked))
    <3> HIDE DEF Becomes
    <3> QED
      BY <1>7 DEF Begin
  <2>3. /\ Fields(ask) /\ ask.at = "exclusive" /\ ask.op = "begin" /\ ask.eState = "READER"
        /\ Fields(locked) /\ locked.at = "idle" /\ locked.eState = "WRITER_LOCKED"
    BY <1>0, <1>7 DEF Begin, Fields
  <2> HIDE DEF ask, locked, Becomes
  <2>4. CASE Becomes(c, ask)
    BY <1>j, <2>1, <2>2, <2>3, <2>4, WriterLocal
  <2>5. CASE Becomes(c, locked)
    BY <1>j, <2>1, <2>2, <2>3, <2>5, WriterLocal
  <2> QED
    BY <2>2, <2>4, <2>5
<1> QED
  BY <1>1, <1>2, <1>3, <1>4, <1>5, <1>6, <1>7

LEMMA WriterBusy ==
    ASSUME WriterInv, AloneInv', NEW c \in Conns, Kept(c), Busy(c)
    PROVE  WriterInv'
<1>0. Fields(pager[c]) /\ Placed(pager[c]) /\ Owned(c) /\ JournalOf(c)
  BY DEF WriterInv
<1> DEFINE pg == [pager[c] EXCEPT !.at = "idle", !.op = "none", !.todo = {}]
<1>1. /\ UNCHANGED journal
      /\ \/ Unlocks(c)
         \/ Becomes(c, pg) /\ UNCHANGED lock /\ pager[c].at = "exclusive"
  <2> HIDE DEF Becomes
  <2> QED
    BY DEF Busy
<1>2. /\ Fields(pg) /\ pg.at = "idle" /\ pg.eState = pager[c].eState /\ pg.txn = pager[c].txn
  BY <1>0 DEF Fields
<1> HIDE DEF pg, Becomes
<1>3. CASE Becomes(c, pg) /\ UNCHANGED lock /\ pager[c].at = "exclusive"
  BY <1>0, <1>1, <1>2, <1>3, WriterQuiet
     DEF Placed, Opens, Beginning, Syncing, Deleting, Transacting, Logged, Modifying, Owned, JournalOf
<1> QED
  BY <1>1, <1>3, WriterUnlocks

LEMMA WriterDeath ==
    ASSUME WriterInv, AloneInv', NEW dead, Drop(dead),
           pager' = [o \in Conns |-> IF o \in dead THEN Closed ELSE pager[o]],
           UNCHANGED journal \/ Conns \subseteq dead
    PROVE  WriterInv'
<1>1. ASSUME NEW o \in Conns
      PROVE  Fields(pager[o])' /\ Placed(pager[o])' /\ Owned(o)' /\ JournalOf(o)'
  <2>1. CASE o \in dead
    <3>1. pager'[o] = Closed
      BY <2>1
    <3>2. Fields(Closed) /\ Closed.at = "idle" /\ Closed.eState = "OPEN"
      BY DEF Closed, Fields
    <3> HIDE DEF At
    <3>3. Fields(pager[o])' /\ pager'[o].at = "idle" /\ pager'[o].eState = "OPEN"
      BY <3>1, <3>2
    <3> QED
      BY <3>3 DEF Owned, JournalOf, Placed, Opens, Beginning, Syncing, Deleting, Transacting, Logged, Modifying
  <2>2. CASE o \notin dead
    <3>1. pager'[o] = pager[o] /\ lock'[o] = lock[o] /\ UNCHANGED journal
      BY <2>2 DEF Drop
    <3> QED
      BY <3>1 DEF WriterInv, Owned, JournalOf
  <2> QED
    BY <2>1, <2>2
<1> QED
  BY <1>1 DEF WriterInv

LEMMA WriterInit == Init => WriterInv
<1> SUFFICES ASSUME Init PROVE WriterInv
  OBVIOUS
<1>1. \A c \in Conns : pager[c] = Closed
  BY DEF Init
<1>2. Fields(Closed) /\ Closed.at = "idle" /\ Closed.eState = "OPEN"
  BY DEF Closed, Fields
<1> QED
  BY <1>1, <1>2, AloneInit
     DEF WriterInv, Owned, JournalOf, Placed, Opens, Beginning, Syncing, Deleting, Transacting, Logged,
         Modifying

LEMMA WriterStep == WriterInv /\ [Next]_vars => WriterInv'
<1> SUFFICES ASSUME WriterInv, [Next]_vars PROVE WriterInv'
  OBVIOUS
<1>1. AloneInv /\ AloneInv'
  BY AloneStep DEF WriterInv
<1>2. ASSUME NEW c \in Conns, Crash(c) PROVE WriterInv'
  BY <1>1, <1>2, WriterDeath DEF Crash
<1>3. CASE PowerLoss
  <2>1. pager' = [o \in Conns |-> IF o \in Conns THEN Closed ELSE pager[o]]
    BY <1>3 DEF PowerLoss
  <2> QED
    BY <1>1, <1>3, <2>1, WriterDeath DEF PowerLoss
<1>4. CASE UNCHANGED vars
  BY <1>1, <1>4 DEF vars, WriterInv, Owned, JournalOf
<1>5. ASSUME NEW c \in Conns,
             \/ Opening(c) \/ Locking(c) \/ Writer(c) \/ EndRead(c) \/ ErrorUnlock(c) \/ Fail(c)
             \/ \E p \in Pages : Get(c, p) \/ Recycle(c, p) \/ JournalFails(c, p)
      PROVE  WriterInv'
  <2>1. Kept(c)
    BY <1>1, <1>5, ConnectionKept
  <2>2. CASE Opening(c)
    BY <1>1, <2>1, <2>2, WriterOpening, WriterLocking, WriterJournalling DEF Opening
  <2>3. CASE Locking(c)
    BY <1>1, <2>1, <2>3, WriterLocking, WriterBusy DEF Locking
  <2>4. CASE Writer(c)
    BY <1>1, <2>1, <2>4, WriterLocking, WriterWorking, WriterJournalling, WriterRollingBack DEF Writer
  <2>5. CASE EndRead(c) \/ ErrorUnlock(c)
    BY <1>1, <2>1, <2>5, WriterUnlocks DEF EndRead, ErrorUnlock
  <2> QED
    BY <1>1, <1>5, <2>1, <2>2, <2>3, <2>4, <2>5, WriterPaging, WriterWorking, WriterJournalling
<1> QED
  BY <1>2, <1>3, <1>4, <1>5 DEF Next

\* From the first page it changes until its journal is deleted the transaction has the
\* journal it made, whoever begins to read, looks for a hot or a stray journal, fails or
\* dies meanwhile (pager_open_journal, hasHotJournal, pager_end_transaction).
THEOREM WriterCorrect == Spec => []WriterKeepsJournal
<1>1. WriterInv => WriterKeepsJournal
  BY DEF WriterInv, JournalOf, Holds, WriterKeepsJournal, Logged, Modifying
<1> QED
  BY <1>1, WriterInit, WriterStep, PTL DEF Spec

-----------------------------------------------------------------------------
(* What the two files say.                                                 *)

\* The image a reader would find, and the one it would find after a loss of power that
\* spares only what has been synced.
Image == Recovered(file, journal)
Durable == Recovered(disk, jdisk)

RecordSet == [page : Pages, content : 0..Torn]
SegmentSet == [valid : BOOLEAN, recs : SUBSET RecordSet]
JournalSet == [exists : BOOLEAN, txn : Nat, size : 0..MaxPages, segs : Seq(SegmentSet)]
IsJournal(j) == j \in JournalSet /\ (j.exists => j.segs # <<>>)

\* All records of a journal; the page a record is of; the records that an image has.
Recs(j) == UNION {j.segs[i].recs : i \in DOMAIN j.segs}
Has(recs, p) == \E r \in recs : r.page = p
From(recs, img) == \A r \in recs : r.page \in Pages /\ r.content = img[r.page]

\* A file of n pages.
Upto(f, n) == \A p \in Pages : f[p] = Beyond <=> p > n

\* What makes img the image: each page of it is in the file, unless a record has it.
Covers(j, f, img) ==
    IF HasHeader(j)
    THEN /\ From(Playable(j), img)
         /\ \A p \in Pages : IF p > j.size THEN img[p] = Beyond ELSE Has(Playable(j), p) \/ f[p] = img[p]
    ELSE f = img

\* A journal nobody lost power on: only its last segment may lack a header.
Live(j) == \A i \in DOMAIN j.segs : /\ i < Len(j.segs) => j.segs[i].valid
                                    /\ \A r \in j.segs[i].recs : r.content # Torn

Same == jdisk.exists /\ jdisk.txn = journal.txn

\* What has been synced of a journal that goes on: all but the last segment, and the
\* records of that one before its header.
Backed ==
    /\ Live(journal) /\ Live(jdisk)
    /\ DOMAIN jdisk.segs \subseteq DOMAIN journal.segs
    /\ \A i \in DOMAIN journal.segs :
          /\ i < Len(journal.segs) => i \in DOMAIN jdisk.segs /\ jdisk.segs[i] = journal.segs[i]
          /\ journal.segs[i].valid => i \in DOMAIN jdisk.segs /\ jdisk.segs[i].recs = journal.segs[i].recs
    /\ \A i \in DOMAIN jdisk.segs : jdisk.segs[i].valid => journal.segs[i].valid

\* A page the file may be changed at: whatever becomes of it, the synced journal has the
\* old one, or the size the file had without it.
Protected(p) == HasHeader(jdisk) /\ (p > journal.size \/ Has(Playable(jdisk), p))

\* Without a journal to play back, the disk may keep pages the file no longer has, until
\* the next journal is synced; the last one takes them away.
Quiet ==
    /\ \A p \in Pages : disk[p] # file[p] =>
          file[p] = Beyond /\ p > journal.size /\ HasHeader(jdisk) /\ p > jdisk.size
    /\ journal.exists /\ Same => ~HasHeader(jdisk)

\* With one, whatever is not the image's, in the file or on the disk, is protected.
Hot ==
    /\ Same /\ jdisk.size = journal.size
    /\ jdisk = journal \/ Backed
    /\ Upto(Image, journal.size)
    /\ From({r \in Recs(journal) : r.content # Torn}, Image)
    /\ \A p \in Pages : Protected(p) \/ (file[p] = Image[p] /\ disk[p] = Image[p])
    /\ \A p \in Pages : p <= journal.size => file[p] # Beyond /\ disk[p] # Beyond

\* The synced journal can be played back, should it come to that.
Ready ==
    HasHeader(jdisk) =>
        /\ Upto(Durable, jdisk.size)
        /\ From({r \in Recs(jdisk) : r.content # Torn}, Durable)
        /\ \A p \in Pages : p <= jdisk.size => disk[p] # Beyond

FileTypes ==
    /\ file \in [Pages -> 0..Torn] /\ disk \in [Pages -> 0..Torn]
    /\ IsJournal(journal) /\ IsJournal(jdisk)
    /\ txns \in 1..MaxTransactions /\ journal.txn <= txns /\ jdisk.txn <= txns

\* The images are whole transactions'.
IsImage(img) == img \in [Pages -> 0..txns] /\ \E n \in 0..MaxPages : Upto(img, n)

\* The file is the image, though there may be a journal to play back into an empty one.
Calm == file = Image /\ (HasHeader(journal) => file = NoPages)

FileInv ==
    /\ FileTypes
    /\ IsImage(Image) /\ IsImage(Durable)
    /\ Covers(journal, file, Image) /\ Covers(jdisk, disk, Durable)
    /\ IF HasHeader(journal) THEN Hot ELSE Quiet
    /\ Ready

-----------------------------------------------------------------------------
(* Files and journals.                                                     *)

LEMMA Numbers ==
    /\ MaxPages \in Nat \ {0} /\ MaxTransactions \in Nat \ {0}
    /\ Torn = MaxTransactions + 1 /\ Beyond = 0
    /\ Pages = 1..MaxPages /\ 1 \in Pages
  BY PagerBounds DEF Torn, Beyond, Pages

LEMMA SizeIs ==
    ASSUME NEW f, NEW n \in 0..MaxPages, Upto(f, n)
    PROVE  Size(f) = n
<1> USE Numbers DEF Upto
<1>1. CASE n = 0
  BY <1>1 DEF Size
<1>2. CASE n # 0
  <2> DEFINE Last(p) == f[p] # Beyond /\ \A q \in Pages : f[q] # Beyond => q <= p
  <2>1. n \in Pages /\ Last(n)
    BY <1>2
  <2>2. \A p \in Pages : Last(p) => p = n
    BY <2>1
  <2>3. Size(f) = CHOOSE p \in Pages : Last(p)
    BY <2>1 DEF Size
  <2> HIDE DEF Last
  <2> QED
    BY <2>1, <2>2, <2>3
<1> QED
  BY <1>1, <1>2

LEMMA CoversImage ==
    ASSUME NEW j, j.size \in 0..MaxPages, NEW f \in [Pages -> 0..Torn],
           NEW n, NEW img \in [Pages -> 0..n], Covers(j, f, img)
    PROVE  Recovered(f, j) = img
<1>1. CASE ~HasHeader(j)
  BY <1>1 DEF Covers, Recovered
<1>2. CASE HasHeader(j)
  <2> DEFINE P == Playable(j)
             g == Restored(f, P)
  <2>1. Recovered(f, j) = [p \in Pages |-> IF p <= j.size THEN g[p] ELSE Beyond]
    BY <1>2 DEF Recovered, Truncated
  <2>2. From(P, img) /\ \A p \in Pages : IF p > j.size THEN img[p] = Beyond ELSE Has(P, p) \/ f[p] = img[p]
    BY <1>2 DEF Covers
  <2> HIDE DEF P
  <2>3. ASSUME NEW p \in Pages, p <= j.size PROVE g[p] = img[p]
    <3>1. CASE Has(P, p)
      <4>1. g[p] = (CHOOSE r \in P : r.page = p).content
        BY <3>1 DEF Restored, Has
      <4>2. (CHOOSE r \in P : r.page = p) \in P /\ (CHOOSE r \in P : r.page = p).page = p
        BY <3>1 DEF Has
      <4> QED
        BY <2>2, <4>1, <4>2 DEF From
    <3>2. CASE ~Has(P, p)
      BY <2>2, <2>3, <3>2, Numbers DEF Restored, Has
    <3> QED
      BY <3>1, <3>2
  <2> HIDE DEF g
  <2>4. \A p \in Pages : (IF p <= j.size THEN g[p] ELSE Beyond) = img[p]
    BY <2>2, <2>3, Numbers
  <2> QED
    BY <2>1, <2>4
<1> QED
  BY <1>1, <1>2

LEMMA JournalParts ==
    ASSUME NEW j, IsJournal(j)
    PROVE  /\ j.exists \in BOOLEAN /\ j.txn \in Nat /\ j.size \in 0..MaxPages
           /\ Len(j.segs) \in Nat /\ DOMAIN j.segs = 1..Len(j.segs)
           /\ j.segs \in Seq(SegmentSet)
           /\ \A i \in DOMAIN j.segs : /\ j.segs[i] \in SegmentSet
                                       /\ j.segs[i].valid \in BOOLEAN
                                       /\ j.segs[i].recs \subseteq RecordSet
           /\ j.exists => Len(j.segs) \in DOMAIN j.segs /\ 1 \in DOMAIN j.segs
<1>1. j \in JournalSet /\ j.segs \in Seq(SegmentSet)
  BY DEF IsJournal, JournalSet
<1>2. Len(j.segs) \in Nat /\ DOMAIN j.segs = 1..Len(j.segs) /\ j.segs \in [1..Len(j.segs) -> SegmentSet]
  BY <1>1, LenProperties
<1>3. j.segs # <<>> => Len(j.segs) \in Nat \ {0}
  BY <1>1, EmptySeq
<1> QED
  BY <1>1, <1>2, <1>3 DEF IsJournal, JournalSet, SegmentSet

LEMMA PlayableParts ==
    ASSUME NEW j, IsJournal(j), NEW r \in Playable(j)
    PROVE  /\ r \in Recs(j) /\ r.content # Torn
           /\ r \in RecordSet /\ r.page \in Pages /\ r.content \in 0..Torn
<1>1. r.content # Torn /\ \E i \in DOMAIN j.segs : r \in j.segs[i].recs
  BY DEF Playable
<1> QED
  BY <1>1, JournalParts DEF Recs, RecordSet

LEMMA PlayableLive ==
    ASSUME NEW j, IsJournal(j), Live(j), NEW r
    PROVE  r \in Playable(j) <=> \E i \in DOMAIN j.segs : j.segs[i].valid /\ r \in j.segs[i].recs
<1> DEFINE whole(i) == j.segs[i].valid /\ \A x \in j.segs[i].recs : x.content # Torn
           read == {i \in DOMAIN j.segs : j.segs[i].valid /\ \A k \in 1..(i - 1) : whole(k)}
<1>1. read = {i \in DOMAIN j.segs : j.segs[i].valid}
  <2>1. \A i \in DOMAIN j.segs : \A k \in 1..(i - 1) : k \in DOMAIN j.segs /\ k < Len(j.segs)
    BY JournalParts
  <2> QED
    BY <2>1 DEF Live
<1>2. Playable(j) = {x \in UNION {j.segs[i].recs : i \in read} : x.content # Torn}
  BY DEF Playable
<1> HIDE DEF read
<1> QED
  BY <1>1, <1>2 DEF Live

\* Nothing is left out once the last header is there.
LEMMA PlayableAll ==
    ASSUME NEW j, IsJournal(j), j.exists, Live(j), j.segs[Len(j.segs)].valid
    PROVE  Playable(j) = Recs(j)
<1>1. \A i \in DOMAIN j.segs : j.segs[i].valid
  BY JournalParts DEF Live
<1> QED
  BY <1>1, PlayableLive DEF Recs

\* What the synced journal plays back the journal does too.
LEMMA BackedPlays ==
    ASSUME FileTypes, Same, jdisk = journal \/ Backed
    PROVE  Playable(jdisk) \subseteq Playable(journal)
<1>1. CASE jdisk = journal
  BY <1>1
<1>2. CASE Backed
  <2> SUFFICES ASSUME NEW r \in Playable(jdisk) PROVE r \in Playable(journal)
    OBVIOUS
  <2>1. PICK i \in DOMAIN jdisk.segs : jdisk.segs[i].valid /\ r \in jdisk.segs[i].recs
    BY <1>2, PlayableLive DEF Backed, FileTypes
  <2>2. i \in DOMAIN journal.segs /\ journal.segs[i].valid /\ r \in journal.segs[i].recs
    BY <1>2, <2>1 DEF Backed
  <2> QED
    BY <1>2, <2>2, PlayableLive DEF Backed, FileTypes
<1> QED
  BY <1>1, <1>2

\* What writing to the end of the journal does.
WithLast(j, s) == [j EXCEPT !.segs = [@ EXCEPT ![Len(j.segs)] = s]]

LEMMA LastChanged ==
    ASSUME NEW j, IsJournal(j), j.exists, NEW s \in SegmentSet, NEW k, k = WithLast(j, s)
    PROVE  /\ IsJournal(k) /\ k.exists /\ k.txn = j.txn /\ k.size = j.size
           /\ Len(k.segs) = Len(j.segs) /\ DOMAIN k.segs = DOMAIN j.segs
           /\ k.segs[Len(j.segs)] = s
           /\ \A i \in DOMAIN j.segs : i # Len(j.segs) => k.segs[i] = j.segs[i]
<1> DEFINE n == Len(j.segs)
           ss == [j.segs EXCEPT ![n] = s]
<1>1. n \in 1..Len(j.segs) /\ j.segs \in Seq(SegmentSet) /\ DOMAIN j.segs = 1..n
  BY JournalParts
<1>2. /\ ss \in Seq(SegmentSet) /\ Len(ss) = n
      /\ \A i \in 1..n : ss[i] = IF i = n THEN s ELSE j.segs[i]
  BY <1>1, ExceptSeq
<1>3. DOMAIN ss = 1..n /\ ss # <<>>
  BY <1>1, <1>2, LenProperties, EmptySeq
<1>4. k = [j EXCEPT !.segs = ss]
  BY DEF WithLast
<1> HIDE DEF ss
<1>5. k \in JournalSet /\ k.segs = ss /\ k.exists = j.exists /\ k.txn = j.txn /\ k.size = j.size
  BY <1>2, <1>4 DEF IsJournal, JournalSet
<1> QED
  BY <1>1, <1>2, <1>3, <1>5 DEF IsJournal

WithRecord(j, r) == [j EXCEPT !.segs[Len(j.segs)].recs = @ \cup {r}]
WithHeader(j) == [j EXCEPT !.segs[Len(j.segs)].valid = TRUE]
WithSegment(j) == [j EXCEPT !.segs = Append(@, UnwrittenHeader)]

LEMMA RecordAdded ==
    ASSUME NEW j, IsJournal(j), j.exists, NEW r \in RecordSet, NEW k, k = WithRecord(j, r)
    PROVE  /\ IsJournal(k) /\ k.exists /\ k.txn = j.txn /\ k.size = j.size
           /\ Len(k.segs) = Len(j.segs) /\ DOMAIN k.segs = DOMAIN j.segs
           /\ k.segs[Len(j.segs)].valid = j.segs[Len(j.segs)].valid
           /\ k.segs[Len(j.segs)].recs = j.segs[Len(j.segs)].recs \cup {r}
           /\ \A i \in DOMAIN j.segs : i # Len(j.segs) => k.segs[i] = j.segs[i]
<1> DEFINE n == Len(j.segs)
           s == [j.segs[n] EXCEPT !.recs = @ \cup {r}]
<1>1. s \in SegmentSet /\ s.valid = j.segs[n].valid /\ s.recs = j.segs[n].recs \cup {r}
  BY JournalParts DEF SegmentSet
<1>2. k = WithLast(j, s)
  BY DEF WithLast, WithRecord
<1> HIDE DEF s
<1>3. /\ IsJournal(k) /\ k.exists /\ k.txn = j.txn /\ k.size = j.size
      /\ Len(k.segs) = Len(j.segs) /\ DOMAIN k.segs = DOMAIN j.segs
      /\ k.segs[Len(j.segs)] = s
      /\ \A i \in DOMAIN j.segs : i # Len(j.segs) => k.segs[i] = j.segs[i]
  BY ONLY <1>1, <1>2, LastChanged, IsJournal(j), j.exists
<1> QED
  BY ONLY <1>1, <1>3

LEMMA HeaderAdded ==
    ASSUME NEW j, IsJournal(j), j.exists, NEW k, k = WithHeader(j)
    PROVE  /\ IsJournal(k) /\ k.exists /\ k.txn = j.txn /\ k.size = j.size
           /\ Len(k.segs) = Len(j.segs) /\ DOMAIN k.segs = DOMAIN j.segs
           /\ k.segs[Len(j.segs)].valid
           /\ k.segs[Len(j.segs)].recs = j.segs[Len(j.segs)].recs
           /\ \A i \in DOMAIN j.segs : i # Len(j.segs) => k.segs[i] = j.segs[i]
<1> DEFINE n == Len(j.segs)
           s == [j.segs[n] EXCEPT !.valid = TRUE]
<1>1. s \in SegmentSet /\ s.valid = TRUE /\ s.recs = j.segs[n].recs
  BY JournalParts DEF SegmentSet
<1>2. k = WithLast(j, s)
  BY DEF WithLast, WithHeader
<1> HIDE DEF s
<1>3. /\ IsJournal(k) /\ k.exists /\ k.txn = j.txn /\ k.size = j.size
      /\ Len(k.segs) = Len(j.segs) /\ DOMAIN k.segs = DOMAIN j.segs
      /\ k.segs[Len(j.segs)] = s
      /\ \A i \in DOMAIN j.segs : i # Len(j.segs) => k.segs[i] = j.segs[i]
  BY ONLY <1>1, <1>2, LastChanged, IsJournal(j), j.exists
<1> QED
  BY ONLY <1>1, <1>3

LEMMA SegmentAdded ==
    ASSUME NEW j, IsJournal(j), j.exists, NEW k, k = WithSegment(j)
    PROVE  /\ IsJournal(k) /\ k.exists /\ k.txn = j.txn /\ k.size = j.size
           /\ Len(k.segs) = Len(j.segs) + 1 /\ DOMAIN k.segs = 1..(Len(j.segs) + 1)
           /\ ~k.segs[Len(k.segs)].valid /\ k.segs[Len(k.segs)].recs = {}
           /\ \A i \in DOMAIN j.segs : k.segs[i] = j.segs[i]
<1> DEFINE n == Len(j.segs)
           ss == Append(j.segs, UnwrittenHeader)
<1>1. UnwrittenHeader \in SegmentSet /\ UnwrittenHeader.valid = FALSE /\ UnwrittenHeader.recs = {}
  BY DEF UnwrittenHeader, SegmentSet
<1>2. j.segs \in Seq(SegmentSet) /\ DOMAIN j.segs = 1..n /\ n \in Nat
  BY JournalParts
<1>3. /\ ss \in Seq(SegmentSet) /\ ss # <<>> /\ Len(ss) = n + 1
      /\ \A i \in 1..n : ss[i] = j.segs[i]
      /\ ss[n + 1] = UnwrittenHeader
  <2> HIDE DEF UnwrittenHeader
  <2> QED
    BY <1>1, <1>2, AppendProperties
<1>4. DOMAIN ss = 1..(n + 1)
  BY <1>3, LenProperties
<1> HIDE DEF ss
<1>5. k \in JournalSet /\ k.segs = ss /\ k.exists = j.exists /\ k.txn = j.txn /\ k.size = j.size
  <2>1. k = [j EXCEPT !.segs = ss]
    BY DEF ss, WithSegment
  <2> QED
    BY <1>3, <2>1 DEF IsJournal, JournalSet
<1> HIDE DEF UnwrittenHeader
<1> QED
  BY <1>1, <1>2, <1>3, <1>4, <1>5 DEF IsJournal

-----------------------------------------------------------------------------
(* What a step does to the files, and to the images.                       *)

LEMMA FileParts ==
    ASSUME FileInv
    PROVE  /\ FileTypes
           /\ journal.size \in 0..MaxPages /\ jdisk.size \in 0..MaxPages
           /\ txns \in Nat /\ txns < Torn
           /\ Image \in [Pages -> 0..txns] /\ Durable \in [Pages -> 0..txns]
           /\ Image \in [Pages -> 0..Torn]
           /\ HasHeader(journal) => Hot
           /\ ~HasHeader(journal) => Quiet /\ file = Image
           /\ ~HasHeader(jdisk) => disk = Durable
<1>1. FileTypes /\ txns \in 1..MaxTransactions
  BY DEF FileInv, FileTypes
<1>2. journal.size \in 0..MaxPages /\ jdisk.size \in 0..MaxPages
  BY <1>1, JournalParts DEF FileTypes
<1>3. txns \in Nat /\ txns < Torn /\ 0..txns \subseteq 0..Torn
  BY <1>1, Numbers
<1>4. Image \in [Pages -> 0..txns] /\ Durable \in [Pages -> 0..txns]
  BY DEF FileInv, IsImage
<1> QED
  BY <1>1, <1>2, <1>3, <1>4 DEF FileInv, Covers

\* The images of the next state, once it is known what covers them.
LEMMA NextImages ==
    ASSUME FileTypes', NEW img \in [Pages -> 0..txns'], NEW safe \in [Pages -> 0..txns']
    PROVE  /\ Covers(journal', file', img) => Image' = img
           /\ Covers(jdisk', disk', safe) => Durable' = safe
<1>1. /\ file' \in [Pages -> 0..Torn] /\ disk' \in [Pages -> 0..Torn]
      /\ journal'.size \in 0..MaxPages /\ jdisk'.size \in 0..MaxPages
  BY JournalParts DEF FileTypes
<1> QED
  BY <1>1, CoversImage DEF Image, Durable

\* A hot journal plays the image back into whatever is protected.
LEMMA HotCovers ==
    ASSUME FileInv, HasHeader(journal), NEW f \in [Pages -> 0..Torn],
           \A p \in Pages : Protected(p) \/ f[p] = Image[p]
    PROVE  Covers(journal, f, Image) /\ Covers(jdisk, f, Image)
<1>1. Hot /\ FileTypes /\ Covers(journal, file, Image)
  BY DEF FileInv
<1>2. Playable(jdisk) \subseteq Playable(journal)
  BY <1>1, BackedPlays DEF Hot
<1>3. From(Playable(journal), Image) /\ From(Playable(jdisk), Image)
  BY <1>1, <1>2 DEF Covers, From
<1>4. \A p \in Pages : p > journal.size => Image[p] = Beyond
  BY <1>1 DEF Hot, Upto
<1>5. Covers(journal, f, Image)
  BY <1>2, <1>3, <1>4 DEF Covers, Protected, Has
<1>6. Covers(jdisk, f, Image)
  <2>1. CASE HasHeader(jdisk)
    BY <1>1, <1>3, <1>4, <2>1 DEF Covers, Protected, Hot
  <2>2. CASE ~HasHeader(jdisk)
    <3>1. \A p \in Pages : f[p] = Image[p]
      BY <2>2 DEF Protected
    <3> QED
      BY <2>2, <3>1, FileParts DEF Covers
  <2> QED
    BY <2>1, <2>2
<1> QED
  BY <1>5, <1>6

\* A disk that keeps to the journal is as good as the file.
LEMMA HotDurable == ASSUME FileInv, HasHeader(journal) PROVE Durable = Image
<1>1. FileTypes /\ Hot
  BY DEF FileInv
<1>2. Covers(jdisk, disk, Image)
  BY <1>1, HotCovers DEF Hot, FileTypes
<1> QED
  BY <1>2, FileParts, CoversImage DEF Durable, FileTypes

\* The file is changed, or synced, under a journal.
LEMMA HotStep ==
    ASSUME FileInv, HasHeader(journal), UNCHANGED <<journal, jdisk, txns>>,
           file' \in [Pages -> 0..Torn], disk' \in [Pages -> 0..Torn],
           \A p \in Pages : Protected(p) \/ (file'[p] = Image[p] /\ disk'[p] = Image[p]),
           \A p \in Pages : p <= journal.size => file'[p] # Beyond /\ disk'[p] # Beyond
    PROVE  FileInv' /\ Image' = Image /\ Durable' = Durable
<1>1. FileTypes /\ Hot /\ Image \in [Pages -> 0..txns] /\ IsImage(Image)
  BY DEF FileInv, IsImage
<1>2. FileTypes'
  BY <1>1 DEF FileTypes
<1>3. Covers(journal, file', Image) /\ Covers(jdisk, disk', Image)
  BY HotCovers
<1>4. Image' = Image /\ Durable' = Image
  BY <1>1, <1>2, <1>3, NextImages
<1>5. Hot'
  BY <1>1, <1>4 DEF Hot, Protected, Same, Backed
<1>6. IsImage(Image)' /\ IsImage(Durable)'
  BY <1>1, <1>4 DEF IsImage
<1>7. Durable = Image
  BY HotDurable
<1>8. Ready'
  BY <1>1, <1>4, <1>7 DEF FileInv, Ready, Hot
<1> QED
  BY <1>2, <1>3, <1>4, <1>5, <1>6, <1>7, <1>8 DEF FileInv

\* The file is synced where there is nothing to play back.
LEMMA QuietSync ==
    ASSUME FileInv, ~HasHeader(journal), UNCHANGED <<file, journal, jdisk, txns>>, disk' = file
    PROVE  FileInv' /\ Image' = Image /\ Durable' = Durable
<1>1. FileTypes /\ Quiet /\ IsImage(Image) /\ IsImage(Durable) /\ Covers(jdisk, disk, Durable)
  BY DEF FileInv
<1>2. FileTypes'
  BY <1>1 DEF FileTypes
<1>3. Covers(jdisk, file, Durable)
  <2>1. CASE HasHeader(jdisk)
    <3>1. \A p \in Pages : p <= jdisk.size => disk[p] = file[p]
      BY <1>1, FileParts, Numbers DEF Quiet
    <3>2. \A p \in Pages : ~(p > jdisk.size) => p <= jdisk.size
      BY FileParts, Numbers
    <3> QED
      BY <1>1, <2>1, <3>1, <3>2 DEF Covers
  <2>2. CASE ~HasHeader(jdisk)
    <3>1. \A p \in Pages : disk[p] = file[p]
      BY <1>1, <2>2 DEF Quiet
    <3>2. disk = file
      BY <1>1, <3>1 DEF FileTypes
    <3> QED
      BY <1>1, <3>2
  <2> QED
    BY <2>1, <2>2
<1>4. Durable' = Durable /\ Image' = Image
  BY <1>1, <1>2, <1>3, NextImages DEF IsImage, Image
<1>5. Quiet'
  BY <1>1 DEF Quiet, Same
<1>6. Ready'
  <2>1. \A p \in Pages : p <= jdisk.size => disk[p] = file[p]
    BY <1>1, FileParts, Numbers DEF Quiet
  <2> QED
    BY <1>4, <2>1 DEF FileInv, Ready
<1> QED
  BY <1>1, <1>2, <1>3, <1>4, <1>5, <1>6 DEF FileInv, IsImage

\* The journal is synced, and may get another segment.
LEMMA JournalSynced ==
    ASSUME FileInv, SyncJournal, UNCHANGED <<file, txns>>,
           IsJournal(journal'), journal'.exists, journal.exists,
           journal'.txn = journal.txn, journal'.size = journal.size,
           HasHeader(journal') <=> HasHeader(journal),
           HasHeader(journal) => /\ Playable(journal') = Playable(journal)
                                 /\ Recs(journal') = Recs(journal),
           jdisk' = journal' \/ Backed'
    PROVE  FileInv' /\ Image' = Image /\ Durable' = Image
<1>1. FileTypes /\ IsImage(Image) /\ Covers(journal, file, Image)
  BY DEF FileInv
<1>2. /\ jdisk' = journal
      /\ disk' = [p \in Pages |-> IF p > journal.size /\ file[p] = Beyond THEN Beyond ELSE disk[p]]
  BY DEF SyncJournal
<1>3. FileTypes'
  <2>1. disk' \in [Pages -> 0..Torn]
    BY <1>1, <1>2, Numbers DEF FileTypes
  <2> QED
    BY <1>1, <1>2, <2>1 DEF FileTypes
<1>4. Covers(journal', file', Image)
  BY <1>1 DEF Covers
<1>5. CASE HasHeader(journal)
  <2>1. Hot
    BY <1>5 DEF FileInv
  <2>2. Playable(jdisk) \subseteq Playable(journal)
    BY <1>1, <2>1, BackedPlays DEF Hot
  <2>3. \A p \in Pages : p > journal.size => Image[p] = Beyond
    BY <2>1 DEF Hot, Upto
  <2>4. ASSUME NEW p \in Pages
        PROVE  \/ p > journal.size \/ Has(Playable(journal), p)
               \/ file[p] = Image[p] /\ disk'[p] = Image[p]
    BY <1>2, <2>1, <2>2, <2>3 DEF Hot, Protected, Has
  <2>5. Covers(jdisk', disk', Image)
    BY <1>1, <1>2, <1>5, <2>3, <2>4 DEF Covers
  <2>6. Image' = Image /\ Durable' = Image
    BY <1>1, <1>3, <1>4, <2>5, NextImages DEF IsImage
  <2>7. Hot'
    <3>1. \A p \in Pages : Protected(p)' \/ (file'[p] = Image'[p] /\ disk'[p] = Image'[p])
      BY <1>2, <1>5, <2>4, <2>6 DEF Protected
    <3>2. \A p \in Pages : p <= journal.size => file[p] # Beyond /\ disk'[p] # Beyond
      <4>1. \A p \in Pages : p <= journal.size => ~(p > journal.size)
        BY <1>1, JournalParts, Numbers DEF FileTypes
      <4> QED
        BY <1>2, <2>1, <4>1 DEF Hot
    <3> HIDE DEF Image
    <3> QED
      BY <1>2, <1>5, <2>1, <2>6, <3>1, <3>2 DEF Hot, Same
  <2>8. Ready'
    BY <1>2, <1>5, <2>6, <2>7, FileParts DEF Hot, Ready
  <2> QED
    BY <1>1, <1>3, <1>4, <1>5, <2>5, <2>6, <2>7, <2>8 DEF FileInv, IsImage
<1>6. CASE ~HasHeader(journal)
  <2>1. Quiet /\ file = Image
    BY <1>6, FileParts
  <2>2. disk' = file
    <3>1. \A p \in Pages : disk'[p] = file[p]
      BY <1>2, <2>1 DEF Quiet
    <3> QED
      BY <1>2, <1>1, <3>1 DEF FileTypes
  <2>3. Covers(jdisk', disk', Image)
    BY <1>2, <1>6, <2>1, <2>2 DEF Covers
  <2>4. Image' = Image /\ Durable' = Image
    BY <1>1, <1>3, <1>4, <2>3, NextImages DEF IsImage
  <2>5. Quiet'
    BY <1>2, <1>6, <2>2 DEF Quiet
  <2>6. Ready'
    BY <1>2, <1>6 DEF Ready
  <2> QED
    BY <1>1, <1>3, <1>4, <1>6, <2>3, <2>4, <2>5, <2>6 DEF FileInv, IsImage
<1> QED
  BY <1>5, <1>6

\* A journal that nobody would play back is made, written to, or deleted.
LEMMA QuietJournal ==
    ASSUME FileInv, Calm, UNCHANGED <<file, disk, jdisk, txns>>,
           IsJournal(journal'), ~HasHeader(journal'), journal'.txn <= txns,
           \A p \in Pages : file[p] = Beyond => p > journal'.size,
           journal'.exists /\ Same' => ~HasHeader(jdisk)
    PROVE  FileInv' /\ Image' = Image /\ Durable' = Durable
<1>1. /\ FileTypes /\ IsImage(Image) /\ IsImage(Durable) /\ Covers(jdisk, disk, Durable)
      /\ file = Image
  BY DEF FileInv, Calm
<1>2. FileTypes'
  BY <1>1 DEF FileTypes
<1>3. Covers(journal', file', Image)
  BY <1>1 DEF Covers
<1>4. Image' = Image /\ Durable' = Durable
  BY <1>1, <1>2, <1>3, NextImages DEF IsImage
<1>5. Quiet'
  <2> SUFFICES ASSUME NEW p \in Pages, disk[p] # file[p]
               PROVE  file[p] = Beyond /\ HasHeader(jdisk) /\ p > jdisk.size
    BY DEF Quiet
  <2>1. CASE ~HasHeader(journal)
    BY <2>1, FileParts DEF Quiet
  <2>2. CASE HasHeader(journal)
    <3>1. Hot
      BY <2>2, FileParts
    <3>2. \A q \in Pages : file[q] = Beyond
      BY <2>2 DEF Calm, NoPages
    <3>3. journal.size = 0 /\ jdisk.size = 0
      <4>1. ~(1 <= journal.size)
        BY <3>1, <3>2, Numbers DEF Hot
      <4>2. journal.size \in Nat /\ jdisk.size = journal.size
        BY <3>1, FileParts DEF Hot
      <4> QED
        BY <4>1, <4>2
    <3>4. HasHeader(jdisk)
      BY <1>1, <3>1 DEF Hot, Protected
    <3> QED
      BY <3>2, <3>3, <3>4, Numbers
  <2> QED
    BY <2>1, <2>2
<1>6. Ready'
  BY <1>4 DEF FileInv, Ready
<1> QED
  BY <1>1, <1>2, <1>3, <1>4, <1>5, <1>6 DEF FileInv, IsImage

\* A journal that is played back gets more records, which do not count yet, or do.
LEMMA HotJournal ==
    ASSUME FileInv, UNCHANGED <<file, disk, jdisk, txns>>, Same, jdisk.size = journal.size,
           HasHeader(journal) \/ (Upto(Image, journal.size) /\ ~HasHeader(jdisk)),
           IsJournal(journal'), HasHeader(journal'),
           journal'.txn = journal.txn, journal'.size = journal.size,
           HasHeader(journal) => Playable(journal) \subseteq Playable(journal'),
           From({r \in Recs(journal') : r.content # Torn}, Image),
           Backed'
    PROVE  FileInv' /\ Image' = Image /\ Durable' = Durable
<1>1. /\ FileTypes /\ IsImage(Image) /\ IsImage(Durable)
      /\ Covers(journal, file, Image) /\ Covers(jdisk, disk, Durable)
  BY DEF FileInv
<1>2. FileTypes'
  BY <1>1 DEF FileTypes
<1>3. Upto(Image, journal.size)
  BY FileParts DEF Hot
<1>4. From(Playable(journal'), Image)
  BY PlayableParts DEF From
<1>5. Covers(journal', file', Image)
  <2>1. CASE HasHeader(journal)
    BY <1>1, <1>3, <1>4, <2>1 DEF Covers, Has
  <2>2. CASE ~HasHeader(journal)
    BY <1>3, <1>4, <2>2, FileParts DEF Covers, Upto
  <2> QED
    BY <2>1, <2>2
<1>6. Image' = Image /\ Durable' = Durable
  BY <1>1, <1>2, <1>5, NextImages DEF IsImage
<1>7. Hot'
  <2>1. CASE HasHeader(journal)
    BY <1>3, <1>6, <2>1, FileParts DEF Hot, Protected, Same
  <2>2. CASE ~HasHeader(journal)
    <3>1. Quiet /\ file = Image
      BY <2>2, FileParts
    <3>2. \A p \in Pages : disk[p] = file[p]
      BY <2>2, <3>1 DEF Quiet
    <3>3. \A p \in Pages : p <= journal.size => file[p] # Beyond
      BY <1>3, <3>1, FileParts, Numbers DEF Upto
    <3> QED
      BY <1>3, <1>6, <3>1, <3>2, <3>3 DEF Hot, Same
  <2> QED
    BY <2>1, <2>2
<1>8. Ready'
  BY <1>6 DEF FileInv, Ready
<1> QED
  BY <1>1, <1>2, <1>5, <1>6, <1>7, <1>8 DEF FileInv, IsImage

\* The journal is deleted: the file is the image now.
LEMMA JournalDeleted ==
    ASSUME FileInv, journal' = Deleted, UNCHANGED <<file, disk, jdisk, txns>>, IsImage(file),
           \/ disk = file
           \/ file = Image /\ (~HasHeader(journal) \/ file = NoPages)
    PROVE  FileInv' /\ Image' = file /\ Durable' = Durable
<1>1. FileTypes /\ IsImage(Durable) /\ Covers(jdisk, disk, Durable)
  BY DEF FileInv
<1>2. PICK n \in 0..MaxPages : Upto(file, n)
  BY DEF IsImage
<1>3. /\ journal'.exists = FALSE /\ journal'.txn = 0 /\ journal'.size = n /\ IsJournal(journal')
      /\ ~HasHeader(journal')
  <2>1. Size(file) = n
    BY ONLY <1>2, SizeIs
  <2>2. <<>> \in Seq(SegmentSet)
    BY EmptySeq
  <2>3. /\ NoJournal \in JournalSet /\ NoJournal.exists = FALSE /\ NoJournal.txn = 0
    BY <2>2, Numbers DEF JournalSet, NoJournal
  <2>4. /\ Deleted \in JournalSet /\ Deleted.exists = FALSE /\ Deleted.txn = 0 /\ Deleted.size = n
    BY <2>1, <2>3 DEF Deleted, JournalSet
  <2> QED
    BY <2>4 DEF IsJournal, HasHeader
<1>4. FileTypes'
  BY <1>1, <1>3, Numbers DEF FileTypes
<1>5. Covers(journal', file', file)
  BY <1>3 DEF Covers
<1>6. Image' = file /\ Durable' = Durable
  BY <1>1, <1>4, <1>5, NextImages DEF IsImage
<1>7. Quiet'
  <2> SUFFICES ASSUME NEW p \in Pages, disk[p] # file[p]
               PROVE  file[p] = Beyond /\ p > n /\ HasHeader(jdisk) /\ p > jdisk.size
    BY <1>3 DEF Quiet
  <2>1. CASE ~HasHeader(journal)
    BY <1>2, <2>1, FileParts DEF Quiet, Upto
  <2>2. CASE HasHeader(journal) /\ file = Image /\ file = NoPages
    <3>1. Hot
      BY <2>2, FileParts
    <3>2. \A q \in Pages : file[q] = Beyond
      BY <2>2 DEF NoPages
    <3>3. journal.size = 0 /\ jdisk.size = 0
      BY <3>1, <3>2, FileParts, Numbers DEF Hot
    <3>4. HasHeader(jdisk)
      BY <2>2, <3>1 DEF Hot, Protected
    <3> QED
      BY <1>2, <3>2, <3>3, <3>4, Numbers DEF Upto
  <2> QED
    BY <2>1, <2>2
<1>8. Ready'
  BY <1>6 DEF FileInv, Ready
<1> QED
  BY <1>1, <1>3, <1>4, <1>5, <1>6, <1>7, <1>8 DEF FileInv, IsImage

-----------------------------------------------------------------------------
(* What a loss of power leaves.                                            *)

LEMMA NoJournalParts == IsJournal(NoJournal) /\ ~NoJournal.exists /\ ~HasHeader(NoJournal)
<1>1. <<>> \in Seq(SegmentSet)
  BY EmptySeq
<1> QED
  BY <1>1, Numbers DEF NoJournal, IsJournal, JournalSet, HasHeader

LEMMA SegmentParts ==
    ASSUME NEW d, IsJournal(d), NEW i
    PROVE  Segment(d, i).valid \in BOOLEAN /\ Segment(d, i).recs \subseteq RecordSet
<1>1. UnwrittenHeader.valid = FALSE /\ UnwrittenHeader.recs = {}
  BY DEF UnwrittenHeader
<1> HIDE DEF UnwrittenHeader
<1> QED
  BY <1>1, JournalParts DEF Segment

\* What is left of a journal of which d was synced.
Survives(j, d) ==
    /\ IsJournal(j) /\ j.exists /\ j.txn = journal.txn /\ j.size = journal.size
    /\ DOMAIN j.segs = DOMAIN journal.segs /\ Len(j.segs) = Len(journal.segs)
    /\ \A i \in DOMAIN journal.segs :
          /\ Segment(d, i).valid => j.segs[i].valid
          /\ j.segs[i].valid => Segment(d, i).valid \/ journal.segs[i].valid
          /\ \A r \in journal.segs[i].recs : r \in Segment(d, i).recs => r \in j.segs[i].recs
          /\ \A r \in j.segs[i].recs : r \in journal.segs[i].recs \/ r.content = Torn
          /\ journal.segs[i].recs \subseteq Segment(d, i).recs =>
                j.segs[i].recs = journal.segs[i].recs

LEMMA SurvivorParts ==
    ASSUME IsJournal(journal), journal.exists, NEW d, IsJournal(d),
           NEW h \in BOOLEAN, NEW q \in BOOLEAN, NEW j, j = Survivor(d, h, q)
    PROVE  Survives(j, d)
<1> DEFINE n == Len(journal.segs)
           left(i) == {r \in journal.segs[i].recs : r \in Segment(d, i).recs \/ q}
           torn(i) == {Record(r.page, Torn) : r \in {x \in journal.segs[i].recs :
                                                       x \notin Segment(d, i).recs /\ ~q}}
           seg(i) == [valid |-> Segment(d, i).valid \/ (h /\ journal.segs[i].valid),
                      recs |-> left(i) \cup torn(i)]
           ss == [i \in DOMAIN journal.segs |-> seg(i)]
<1>1. n \in Nat /\ DOMAIN journal.segs = 1..n /\ 1 \in 1..n
  BY JournalParts
<1>2. \A i \in DOMAIN journal.segs : torn(i) \subseteq RecordSet /\ \A r \in torn(i) : r.content = Torn
  BY JournalParts, Numbers DEF Record, RecordSet
<1>3. \A i \in DOMAIN journal.segs : left(i) \subseteq RecordSet
  BY JournalParts
<1>4. \A i \in DOMAIN journal.segs : journal.segs[i].recs \subseteq Segment(d, i).recs =>
                                       left(i) = journal.segs[i].recs /\ torn(i) = {}
  OBVIOUS
<1>5. \A i \in DOMAIN journal.segs : \A r \in journal.segs[i].recs : r \in Segment(d, i).recs => r \in left(i)
  OBVIOUS
<1>6. \A i \in DOMAIN journal.segs : left(i) \subseteq journal.segs[i].recs
  OBVIOUS
<1> HIDE DEF left, torn
<1>7. \A i \in DOMAIN journal.segs : seg(i) \in SegmentSet
  BY <1>2, <1>3, SegmentParts, JournalParts DEF SegmentSet
<1>8. \A i \in DOMAIN journal.segs : /\ ss[i].valid = (Segment(d, i).valid \/ (h /\ journal.segs[i].valid))
                                     /\ ss[i].recs = left(i) \cup torn(i)
  OBVIOUS
<1>9. ss \in [1..n -> SegmentSet]
  BY <1>1, <1>7
<1>10. ss \in Seq(SegmentSet) /\ DOMAIN ss = 1..n
  BY <1>1, <1>9 DEF Seq
<1>11. Len(ss) = n /\ ss # <<>>
  BY <1>1, <1>10, LenProperties, EmptySeq
<1>12. j = [journal EXCEPT !.segs = ss]
  BY DEF Survivor, left, torn
<1> HIDE DEF ss, seg
<1>13. j \in JournalSet /\ j.segs = ss /\ j.exists = journal.exists /\ j.txn = journal.txn /\ j.size = journal.size
  BY <1>10, <1>12 DEF IsJournal, JournalSet
<1> QED
  BY <1>1, <1>2, <1>4, <1>5, <1>6, <1>8, <1>10, <1>11, <1>13 DEF IsJournal, Survives

\* Whatever is left is all there is, in the file and on the disk.
LEMMA AfterLoss ==
    ASSUME FileInv, disk' = file', jdisk' = journal', UNCHANGED txns,
           file' \in [Pages -> 0..Torn], IsJournal(journal'), journal'.txn <= txns,
           NEW img, IsImage(img), Covers(journal', file', img),
           HasHeader(journal') => /\ Upto(img, journal'.size)
                                  /\ From({r \in Recs(journal') : r.content # Torn}, img)
                                  /\ \A p \in Pages : p <= journal'.size => file'[p] # Beyond
    PROVE  FileInv' /\ Image' = img /\ Durable' = img
<1>1. FileTypes'
  BY DEF FileInv, FileTypes
<1>2. Image' = img /\ Durable' = img
  BY <1>1, NextImages DEF IsImage
<1>3. IsImage(Image)' /\ IsImage(Durable)'
  BY <1>2 DEF IsImage
<1>4. Ready'
  BY <1>2 DEF Ready
<1>5. HasHeader(journal') => Hot'
  <2> SUFFICES ASSUME HasHeader(journal') PROVE Hot'
    OBVIOUS
  <2>1. journal'.exists
    BY DEF HasHeader
  <2>2. \A p \in Pages : Protected(p)' \/ file'[p] = img[p]
    BY DEF Covers, Protected
  <2> QED
    BY <1>2, <2>1, <2>2 DEF Hot, Same
<1>6. ~HasHeader(journal') => Quiet'
  BY DEF Quiet
<1> QED
  BY <1>1, <1>2, <1>3, <1>4, <1>5, <1>6 DEF FileInv

\* A page that differs on the disk only where it is protected survives, or does not matter.
LEMMA FileSurvives ==
    ASSUME FileInv, file' \in FileSurvivors
    PROVE  /\ file' \in [Pages -> 0..Torn]
           /\ \A p \in Pages : disk[p] = file[p] => file'[p] = file[p]
           /\ \A p \in Pages : disk[p] # Beyond /\ file[p] # Beyond => file'[p] # Beyond
<1>1. /\ file' \in [Pages -> {Beyond, Torn} \cup 1..MaxTransactions]
      /\ \A p \in Pages : file'[p] \in {disk[p], file[p]} \cup (IF disk[p] = file[p] THEN {} ELSE {Torn})
  BY DEF FileSurvivors
<1>2. {Beyond, Torn} \cup 1..MaxTransactions \subseteq 0..Torn /\ Torn # Beyond
  BY Numbers
<1> QED
  BY <1>1, <1>2

\* Under a journal that can be played back, the image survives.
LEMMA HotLoss ==
    ASSUME FileInv, HasHeader(journal), file' \in FileSurvivors, journal' \in JournalSurvivors,
           disk' = file', jdisk' = journal', UNCHANGED txns
    PROVE  FileInv' /\ Image' = Image /\ Durable' = Image
<1>1. FileTypes /\ Hot /\ Same /\ journal.exists /\ IsImage(Image) /\ Covers(journal, file, Image)
  BY DEF FileInv, Hot, HasHeader
<1>2. PICK h \in BOOLEAN, q \in BOOLEAN : journal' = Survivor(jdisk, h, q)
  BY <1>1 DEF JournalSurvivors, Same
<1>s. Survives(journal', jdisk)
  <2>1. IsJournal(journal) /\ journal.exists /\ IsJournal(jdisk)
    BY <1>1 DEF FileTypes
  <2> QED
    BY ONLY <1>2, <2>1, SurvivorParts
<1>3. /\ IsJournal(journal') /\ journal'.exists /\ journal'.txn = journal.txn /\ journal'.size = journal.size
      /\ DOMAIN journal'.segs = DOMAIN journal.segs /\ Len(journal'.segs) = Len(journal.segs)
      /\ \A i \in DOMAIN journal.segs :
            /\ Segment(jdisk, i).valid => journal'.segs[i].valid
            /\ \A r \in journal.segs[i].recs : r \in Segment(jdisk, i).recs => r \in journal'.segs[i].recs
            /\ \A r \in journal'.segs[i].recs : r \in journal.segs[i].recs \/ r.content = Torn
            /\ journal.segs[i].recs \subseteq Segment(jdisk, i).recs =>
                  journal'.segs[i].recs = journal.segs[i].recs
  BY <1>s DEF Survives
<1>4. From({r \in Recs(journal') : r.content # Torn}, Image)
  BY <1>1, <1>3 DEF Hot, Recs, From
<1>5. HasHeader(jdisk) => HasHeader(journal')
  BY <1>1, <1>3, JournalParts DEF HasHeader, Segment, FileTypes
<1>6. Playable(jdisk) \subseteq Playable(journal')
  <2>1. CASE jdisk = journal
    <3>1. \A i \in DOMAIN journal.segs : journal'.segs[i].recs = journal.segs[i].recs
      BY <1>3, <2>1 DEF Segment
    <3>2. \A i \in DOMAIN journal.segs : journal.segs[i].valid => journal'.segs[i].valid
      BY <1>3, <2>1 DEF Segment
    <3>3. \A i \in DOMAIN journal.segs : \A k \in 1..(i - 1) : k \in DOMAIN journal.segs
      BY <1>1, JournalParts DEF FileTypes
    <3> SUFFICES ASSUME NEW r \in Playable(journal) PROVE r \in Playable(journal')
      BY <2>1
    <3>4. PICK i \in DOMAIN journal.segs :
             /\ journal.segs[i].valid /\ r \in journal.segs[i].recs /\ r.content # Torn
             /\ \A k \in 1..(i - 1) : /\ journal.segs[k].valid
                                      /\ \A x \in journal.segs[k].recs : x.content # Torn
      BY DEF Playable
    <3>5. \A k \in 1..(i - 1) : /\ journal'.segs[k].valid
                                /\ \A x \in journal'.segs[k].recs : x.content # Torn
      BY <3>1, <3>2, <3>3, <3>4
    <3> QED
      BY <1>3, <3>1, <3>2, <3>4, <3>5 DEF Playable
  <2>2. CASE Backed
    <3> SUFFICES ASSUME NEW r \in Playable(jdisk) PROVE r \in Playable(journal')
      OBVIOUS
    <3>1. PICK i \in DOMAIN jdisk.segs : jdisk.segs[i].valid /\ r \in jdisk.segs[i].recs
      BY <1>1, <2>2, PlayableLive DEF Backed, FileTypes
    <3>2. /\ i \in DOMAIN journal.segs /\ jdisk.segs[i].recs = journal.segs[i].recs
          /\ journal'.segs[i].valid /\ journal'.segs[i].recs = journal.segs[i].recs
      BY <1>3, <2>2, <3>1 DEF Backed, Segment
    <3>3. \A k \in 1..(i - 1) : k \in DOMAIN journal.segs /\ k < Len(journal.segs)
      BY <1>1, <3>2, JournalParts DEF FileTypes
    <3>4. \A k \in 1..(i - 1) : /\ journal.segs[k].valid /\ jdisk.segs[k] = journal.segs[k]
                                /\ k \in DOMAIN jdisk.segs
      BY <2>2, <3>3 DEF Backed, Live
    <3>5. \A k \in 1..(i - 1) : /\ journal'.segs[k].valid
                                /\ journal'.segs[k].recs = journal.segs[k].recs
                                /\ \A x \in journal.segs[k].recs : x.content # Torn
      BY <1>3, <2>2, <3>3, <3>4 DEF Segment, Backed, Live
    <3>6. r.content # Torn
      BY DEF Playable
    <3> QED
      BY <1>3, <3>1, <3>2, <3>5, <3>6 DEF Playable
  <2> QED
    BY <1>1, <2>1, <2>2 DEF Hot
<1>7. \A p \in Pages : Protected(p) \/ file'[p] = Image[p]
  BY <1>1, FileSurvives DEF Hot
<1>8. \A p \in Pages : p <= journal.size => file'[p] # Beyond
  BY <1>1, FileSurvives DEF Hot
<1>9. \A p \in Pages : p > journal.size => Image[p] = Beyond
  BY <1>1 DEF Hot, Upto
<1>10. Covers(journal', file', Image)
  <2>1. CASE HasHeader(journal')
    <3>1. From(Playable(journal'), Image)
      BY <1>3, <1>4, PlayableParts DEF From
    <3> QED
      BY <1>3, <1>6, <1>7, <1>9, <2>1, <3>1 DEF Covers, Protected, Has
  <2>2. CASE ~HasHeader(journal')
    <3>1. \A p \in Pages : file'[p] = Image[p]
      BY <1>5, <1>7, <2>2 DEF Protected
    <3> QED
      BY <2>2, <3>1, FileParts, FileSurvives DEF Covers
  <2> QED
    BY <2>1, <2>2
<1>11. journal'.txn <= txns
  BY <1>1, <1>3 DEF FileTypes
<1> QED
  BY <1>1, <1>3, <1>4, <1>8, <1>10, <1>11, FileSurvives, AfterLoss DEF Hot

\* Without one, the pages of the file survive, or the old journal comes back.
LEMMA QuietLoss ==
    ASSUME FileInv, ~HasHeader(journal), file' \in FileSurvivors, journal' \in JournalSurvivors,
           InOrder(file', journal'), disk' = file', jdisk' = journal', UNCHANGED txns
    PROVE  FileInv' /\ Image' \in {Image, Durable} /\ Durable' = Image'
<1>1. /\ FileTypes /\ Quiet /\ file = Image /\ IsImage(Image) /\ IsImage(Durable)
      /\ Covers(jdisk, disk, Durable) /\ Ready
  BY FileParts DEF FileInv
<1>2. CASE journal' = jdisk /\ HasHeader(jdisk)
  <2>1. \A p \in Pages : p <= jdisk.size => disk[p] = file[p]
    BY <1>1, FileParts, Numbers DEF Quiet
  <2>2. \A p \in Pages : ~(p > jdisk.size) => p <= jdisk.size
    BY FileParts, Numbers
  <2>3. \A p \in Pages : p <= jdisk.size => file'[p] = disk[p] /\ file'[p] # Beyond
    BY <1>1, <1>2, <2>1, FileSurvives DEF Ready
  <2>4. Covers(journal', file', Durable)
    BY <1>1, <1>2, <2>2, <2>3 DEF Covers
  <2>5. IsJournal(journal') /\ journal'.txn <= txns
    BY <1>1, <1>2 DEF FileTypes
  <2>6. FileInv' /\ Image' = Durable /\ Durable' = Durable
    BY <1>1, <1>2, <2>3, <2>4, <2>5, FileSurvives, AfterLoss DEF Ready
  <2> QED
    BY <2>6
<1>3. CASE ~(journal' = jdisk /\ HasHeader(jdisk))
  <2>1. file' = file
    <3>1. ASSUME NEW p \in Pages PROVE file'[p] = file[p]
      <4>1. CASE disk[p] = file[p]
        BY <4>1, FileSurvives
      <4>2. CASE disk[p] # file[p]
        BY <1>1, <1>3, <4>2 DEF Quiet, InOrder
      <4> QED
        BY <4>1, <4>2
    <3> QED
      BY <1>1, <3>1, FileSurvives DEF FileTypes
  <2>2. IsJournal(journal') /\ ~HasHeader(journal') /\ journal'.txn <= txns
    <3>1. CASE journal' \in {jdisk, journal}
      BY <1>1, <1>3, <3>1 DEF FileTypes
    <3>2. CASE journal' \notin {jdisk, journal}
      <4> DEFINE d == IF Same THEN jdisk ELSE NoJournal
      <4>1. PICK h \in BOOLEAN, q \in BOOLEAN : journal' = Survivor(d, h, q) /\ journal.exists
        BY <3>2 DEF JournalSurvivors, Same
      <4>2. IsJournal(d) /\ ~Segment(d, 1).valid
        <5>1. CASE Same
          BY <1>1, <4>1, <5>1 DEF Quiet, Same, HasHeader, FileTypes, Segment, UnwrittenHeader
        <5>2. CASE ~Same
          BY <5>2, NoJournalParts DEF NoJournal, Segment, UnwrittenHeader
        <5> QED
          BY <5>1, <5>2
      <4> HIDE DEF d
      <4>3. /\ IsJournal(journal') /\ journal'.txn = journal.txn /\ 1 \in DOMAIN journal.segs
            /\ journal'.segs[1].valid => Segment(d, 1).valid \/ journal.segs[1].valid
        <5>1. IsJournal(journal) /\ 1 \in DOMAIN journal.segs
          BY <1>1, <4>1, JournalParts DEF FileTypes
        <5>2. Survives(journal', d)
          BY ONLY <4>1, <4>2, <5>1, SurvivorParts
        <5> QED
          BY <5>1, <5>2 DEF Survives
      <4> QED
        BY <1>1, <4>1, <4>2, <4>3 DEF HasHeader, FileTypes
    <3> QED
      BY <3>1, <3>2
  <2>3. Covers(journal', file', Image)
    BY <1>1, <2>1, <2>2 DEF Covers
  <2>4. FileInv' /\ Image' = Image /\ Durable' = Image
    BY <1>1, <2>2, <2>3, FileSurvives, AfterLoss
  <2> QED
    BY <2>4
<1> QED
  BY <1>2, <1>3
=============================================================================
