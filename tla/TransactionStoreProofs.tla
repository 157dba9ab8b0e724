----------------------- MODULE TransactionStoreProofs -----------------------
(***************************************************************************)
(* The pager implements TransactionStore, for any connections, pages,      *)
(* transactions, crashes, losses of power and faults.                      *)
(*                                                                         *)
(* The invariant has two parts.  FileInv (RollbackJournalProofs) says of   *)
(* the two files, and of what has been synced of them, which image each    *)
(* holds and which pages the journal protects.  Own(c) says of each        *)
(* connection what its cache, its page sets and its place in the code mean *)
(* in terms of those images.  One lemma per action shows that the          *)
(* connection keeps its part and does to the images what a step of         *)
(* TransactionStore does (Advances); Elsewhere says that it does nothing   *)
(* the others could notice.                                                *)
(***************************************************************************)
EXTENDS RollbackJournalProofs, WellFoundedInduction

USE DEF Becomes, Goes, At, files, counters

-----------------------------------------------------------------------------
(* The connections.                                                        *)

States == Transacting \cup {"OPEN", "READER", "ERROR"}
Places == Opens \cup Exclusively \cup Syncing \cup Deleting \cup {"idle", "exclusive", "unlock"}
Ops == {"none", "hot", "begin", "spill", "commit", "rollback"}

PagerSet ==
    [eState : States, at : Places, op : Ops, cache : [Pages -> Nat], dbFileVers : Nat, hasHeldSharedLock : BOOLEAN,
     dbSize : 0..MaxPages, dbOrigSize : 0..MaxPages, inJournal : SUBSET Pages, dirty : SUBSET Pages,
     needSync : SUBSET Pages, synced : Nat, todo : SUBSET RecordSet, txn : Nat]

LEMMA Names ==
    /\ {"OPEN", "READER", "WRITER_LOCKED", "WRITER_CACHEMOD", "WRITER_DBMOD", "WRITER_FINISHED", "ERROR"}
          \subseteq States
    /\ {"idle", "lookForJournal", "lookForWriter", "stray", "deleteStray", "readHeader", "validate",
        "openJournal", "playback", "exclusive", "syncRecords", "writeHeader", "syncHeader", "mustRollback",
        "writePages", "syncFile", "finalize", "unlock"} \subseteq Places
    /\ {"none", "hot", "begin", "spill", "commit", "rollback"} \subseteq Ops
  BY DEF States, Places, Ops, Opens, Beginning, Exclusively, Syncing, Deleting, Transacting, Logged, Modifying

\* No connection knows of a transaction that has not begun.
Typed(c) ==
    /\ pager[c] \in PagerSet
    /\ pager[c].dbFileVers <= txns
    /\ \A p \in Pages : pager[c].cache[p] <= txns

\* The pages a transaction has changed, and what it means them to be.
Changed(c) == pager[c].inJournal \cup {p \in Pages : pager[c].dbOrigSize < p /\ p <= pager[c].dbSize}
New(c, p) == IF p \in Changed(c) THEN pager[c].txn ELSE Image[p]

Last == journal.segs[Len(journal.segs)]

\* What may be true of the data of a connection.
Unused(c) == pager[c].inJournal = {} /\ pager[c].dirty = {} /\ pager[c].needSync = {}
Unheld(c) == ~pager[c].hasHeldSharedLock => pager[c].cache = NoPages
Valid(c) == \A p \in Pages : pager[c].cache[p] # Beyond /\ pager[c].dbFileVers = Image[1] =>
                                pager[c].cache[p] = Image[p]
Clean(c) == \A p \in Pages : pager[c].cache[p] \in {Beyond, Image[p]}
Current(c) == pager[c].dbFileVers = Image[1] /\ Upto(Image, pager[c].dbSize)
Resized(c) == pager[c].dbOrigSize = pager[c].dbSize
First(c) == pager[c].txn = txns /\ \A p \in Pages : Image[p] < txns
Unlogged(c) == pager[c].dbFileVers < txns /\ jdisk.txn < txns

\* The journal has the old page of each page it is of, and the old size.
Journaled(c) ==
    /\ journal.exists /\ journal.txn = pager[c].txn
    /\ journal.size = pager[c].dbOrigSize /\ Upto(Image, pager[c].dbOrigSize)
    /\ Live(journal) /\ From(Recs(journal), Image)
    /\ \A p \in Pages : p \in pager[c].inJournal <=> Has(Recs(journal), p)
    /\ \A p \in pager[c].inJournal : p <= pager[c].dbOrigSize
    /\ pager[c].dbOrigSize <= pager[c].dbSize
    /\ pager[c].dbFileVers \in {Image[1], pager[c].txn}
    /\ pager[c].dbFileVers # Image[1] => pager[c].cache[1] # Beyond
Unsecured(c) == Len(journal.segs) = 1 /\ (HasHeader(journal) => ~HasHeader(jdisk))
Secured(c) ==
    /\ HasHeader(journal) /\ HasHeader(jdisk)
    /\ pager[c].synced \in DOMAIN journal.segs
    /\ Playable(jdisk) = Records(journal, pager[c].synced)
    /\ \A p \in Changed(c) \ pager[c].needSync : Protected(p)
Edited(c) ==
    /\ \A p \in Pages : pager[c].cache[p] \in {Beyond, New(c, p)}
    /\ pager[c].dirty \subseteq Changed(c)
    /\ \A p \in pager[c].dirty : pager[c].cache[p] = pager[c].txn
Matching(c) == \A p \in Pages \ pager[c].dirty : file[p] = New(c, p)
Counted(c) == 1 \in Changed(c)
Counting(c) == 1 \in pager[c].dirty
OpenEnd(c) == ~Last.valid
OpenSynced(c) == pager[c].synced = Len(journal.segs) - 1
SpillTodo(c) == \E p \in pager[c].dirty \ {1} : pager[c].todo = {Record(p, pager[c].txn)}
CommitTodo(c) ==
    /\ \A r \in pager[c].todo : r.page \in pager[c].dirty /\ r = Record(r.page, pager[c].txn)
    /\ \A p \in pager[c].dirty : Record(p, pager[c].txn) \in pager[c].todo \/ file[p] = pager[c].txn
    /\ Record(1, pager[c].txn) \in pager[c].todo \/ pager[c].dbFileVers = pager[c].txn
Committed(c) == pager[c].dirty = {} /\ pager[c].dbFileVers = pager[c].txn
Writable(c) ==
    /\ HasHeader(journal) /\ pager[c].todo # {}
    /\ \A r \in pager[c].todo : /\ Protected(r.page) /\ r.content <= txns
                                /\ r.page <= journal.size => r.content # Beyond
Undoing(c) ==
    /\ From(pager[c].todo, Image)
    /\ \A p \in Pages : file[p] = Image[p] \/ Has(pager[c].todo, p)
Emptied(c) == pager[c].cache = NoPages

\* Which of it is true where, and under which lock.
Inside(c) == pager[c].eState \in Logged /\ pager[c].at # "unlock"
Begun(c) == \/ pager[c].eState \in Transacting /\ pager[c].at # "unlock"
            \/ pager[c].at = "exclusive" /\ pager[c].op = "begin"
Reading(c) == \/ pager[c].eState \in {"READER", "WRITER_LOCKED"}
              \/ pager[c].at = "unlock" /\ pager[c].eState \notin {"OPEN", "ERROR"}
Calming(c) == \/ pager[c].eState \in {"READER", "WRITER_LOCKED"} \/ pager[c].at = "validate"
              \/ pager[c].at = "unlock" /\ pager[c].eState # "ERROR"
              \/ lock[c] \in Writers

Stands(c) ==
    LET eState == pager[c].eState  at == pager[c].at  op == pager[c].op IN
    /\ lock[c] = NO_LOCK => eState = "OPEN" /\ at = "idle"
    /\ Begun(c) => lock[c] \in Owners
    /\ eState = "WRITER_FINISHED" => at \in {"finalize", "unlock"}
    /\ eState = "WRITER_FINISHED" /\ at = "finalize" => lock[c] = EXCLUSIVE_LOCK /\ op = "commit"
    /\ eState = "WRITER_LOCKED" => at \in {"idle", "unlock"}
    /\ eState = "READER" => at = "idle" \/ (at = "exclusive" /\ op = "begin")
    /\ eState \in {"READER", "WRITER_LOCKED"} /\ at = "idle" => op = "none"
    /\ eState = "ERROR" => at \in {"idle", "unlock"}
    /\ eState \in Modifying /\ at \in {"idle", "exclusive", "unlock"} => op # "rollback" \/ at = "unlock"
    /\ at \in {"syncRecords", "writeHeader", "syncHeader"} => op \in {"spill", "commit"}
    /\ at = "mustRollback" => op \in {"none", "commit"}
    /\ at = "writePages" => op \in {"spill", "commit", "rollback", "hot"}
    /\ at = "syncFile" => op \in {"commit", "rollback", "hot"}
    /\ at \in {"writePages", "syncFile", "finalize"} => (op = "hot" <=> eState = "OPEN")
    /\ at = "finalize" => eState \in {"OPEN", "WRITER_FINISHED"} \/ (eState \in Modifying /\ op = "rollback")
    /\ at = "exclusive" /\ op = "begin" => eState = "READER"

Reads(c) ==
    LET eState == pager[c].eState  at == pager[c].at  op == pager[c].op IN
    /\ Calming(c) => Calm
    /\ eState = "WRITER_CACHEMOD" => file = Image
    /\ at \in {"stray", "deleteStray"} => file = NoPages
    /\ eState = "OPEN" => Unheld(c) /\ Valid(c)
    /\ eState \notin {"OPEN", "ERROR"} => pager[c].hasHeldSharedLock
    /\ Reading(c) => Current(c) /\ Clean(c)
    /\ eState \in {"OPEN", "READER", "WRITER_LOCKED"} => Unused(c)
    /\ Begun(c) => First(c)
    /\ Begun(c) /\ eState \notin Logged => Unlogged(c) /\ Resized(c)

Works(c) ==
    LET eState == pager[c].eState  at == pager[c].at  op == pager[c].op IN
    Inside(c) =>
    /\ Journaled(c)
    /\ eState = "WRITER_CACHEMOD" => Unsecured(c)
    /\ eState = "WRITER_DBMOD" => Secured(c)
    /\ op # "rollback" => Edited(c) /\ (at # "mustRollback" => Matching(c))
    /\ op = "rollback" => Clean(c) /\ Current(c) /\ Resized(c)
    /\ at \in {"idle", "exclusive", "syncRecords", "writeHeader"} \/ (at = "writePages" /\ op = "spill") =>
          OpenEnd(c) /\ (eState = "WRITER_DBMOD" => OpenSynced(c))
    /\ at = "writeHeader" => jdisk = journal
    /\ at = "syncHeader" => Last.valid
    /\ op = "commit" => Counted(c) /\ (at \in {"mustRollback", "syncFile", "finalize"} \/ Counting(c))
    /\ op = "spill" /\ at # "idle" => SpillTodo(c)
    /\ op = "commit" /\ at = "writePages" => CommitTodo(c)
    /\ op = "commit" /\ at \in {"syncFile", "finalize"} => Committed(c)

Undoes(c) ==
    LET eState == pager[c].eState  at == pager[c].at  op == pager[c].op IN
    /\ at = "writePages" => Writable(c)
    /\ op \in {"rollback", "hot"} /\ at = "writePages" => Undoing(c)
    /\ op \in {"rollback", "hot"} /\ at \in {"syncFile", "finalize"} => file = Image
    /\ op = "hot" /\ at = "writePages" => Emptied(c)
    /\ at = "playback" => jdisk = journal
    /\ at = "finalize" /\ (HasHeader(journal) \/ eState = "WRITER_FINISHED") => disk = file

\* No other connection has seen the change counter of a transaction under way.
Unseen(c) == Begun(c) => \A o \in Others(c) : pager[o].dbFileVers < txns

Own(c) == Typed(c) /\ Stands(c) /\ Reads(c) /\ Works(c) /\ Undoes(c)

StoreInv == FileInv /\ \A c \in Conns : Own(c) /\ Unseen(c)

-----------------------------------------------------------------------------
(* What stays.                                                             *)

\* A connection goes on without touching its data.
SameData(c) ==
    /\ pager'[c].cache = pager[c].cache /\ pager'[c].dbFileVers = pager[c].dbFileVers
    /\ pager'[c].hasHeldSharedLock = pager[c].hasHeldSharedLock
    /\ pager'[c].dbSize = pager[c].dbSize /\ pager'[c].dbOrigSize = pager[c].dbOrigSize
    /\ pager'[c].inJournal = pager[c].inJournal /\ pager'[c].dirty = pager[c].dirty
    /\ pager'[c].needSync = pager[c].needSync /\ pager'[c].synced = pager[c].synced
    /\ pager'[c].todo = pager[c].todo /\ pager'[c].txn = pager[c].txn

LEMMA FilesStay ==
    ASSUME FileInv, UNCHANGED <<files, txns>>
    PROVE  FileInv' /\ Image' = Image /\ Durable' = Durable
<1>1. Image' = Image /\ Durable' = Durable
  BY DEF Image, Durable
<1>2. Hot' <=> Hot
  BY <1>1 DEF Hot, Same, Backed, Protected
<1>3. Quiet' <=> Quiet
  BY DEF Quiet, Same
<1>4. Ready'
  BY <1>1 DEF FileInv, Ready
<1>5. FileTypes'
  BY DEF FileInv, FileTypes
<1>6. IsImage(Image)' /\ IsImage(Durable)'
  BY <1>1 DEF FileInv, IsImage
<1> QED
  BY <1>1, <1>2, <1>3, <1>4, <1>5, <1>6 DEF FileInv

\* What the pager says of its own data ...
LEMMA DataKept ==
    ASSUME NEW c, SameData(c)
    PROVE  /\ Changed(c)' = Changed(c)
           /\ Unused(c)' <=> Unused(c)
           /\ Unheld(c)' <=> Unheld(c)
           /\ Resized(c)' <=> Resized(c)
           /\ Counted(c)' <=> Counted(c)
           /\ Counting(c)' <=> Counting(c)
           /\ SpillTodo(c)' <=> SpillTodo(c)
           /\ Committed(c)' <=> Committed(c)
           /\ Emptied(c)' <=> Emptied(c)
  BY DEF SameData, Changed, Unused, Unheld, Resized, Counted, Counting, SpillTodo, Committed, Emptied

\* ... of the image ...
LEMMA ImageDataKept ==
    ASSUME NEW c, SameData(c), Image' = Image
    PROVE  /\ Valid(c)' <=> Valid(c)
           /\ Clean(c)' <=> Clean(c)
           /\ Current(c)' <=> Current(c)
           /\ Edited(c)' <=> Edited(c)
           /\ \A p : New(c, p)' = New(c, p)
<1>1. Changed(c)' = Changed(c)
  BY DataKept
<1> QED
  BY <1>1 DEF SameData, Valid, Clean, Current, Edited, New

\* ... and of the files.
LEMMA FileDataKept ==
    ASSUME NEW c, SameData(c), Image' = Image, UNCHANGED <<files, txns>>
    PROVE  /\ First(c)' <=> First(c)
           /\ Unlogged(c)' <=> Unlogged(c)
           /\ Calm' <=> Calm
           /\ Journaled(c)' <=> Journaled(c)
           /\ Unsecured(c)' <=> Unsecured(c)
           /\ Secured(c)' <=> Secured(c)
           /\ Matching(c)' <=> Matching(c)
           /\ OpenEnd(c)' <=> OpenEnd(c)
           /\ OpenSynced(c)' <=> OpenSynced(c)
           /\ CommitTodo(c)' <=> CommitTodo(c)
           /\ Writable(c)' <=> Writable(c)
           /\ Undoing(c)' <=> Undoing(c)
           /\ Last' = Last
<1>1. Changed(c)' = Changed(c) /\ \A p : New(c, p)' = New(c, p)
  BY DataKept, ImageDataKept
<1>2. \A p : Protected(p)' <=> Protected(p)
  BY DEF Protected
<1>3. /\ First(c)' <=> First(c)
      /\ Unlogged(c)' <=> Unlogged(c)
      /\ Calm' <=> Calm
      /\ Journaled(c)' <=> Journaled(c)
      /\ Unsecured(c)' <=> Unsecured(c)
  BY DEF SameData, First, Unlogged, Calm, Journaled, Unsecured
<1>4. /\ Secured(c)' <=> Secured(c)
      /\ Matching(c)' <=> Matching(c)
      /\ Writable(c)' <=> Writable(c)
  BY <1>1, <1>2 DEF SameData, Secured, Matching, Writable
<1>5. /\ OpenEnd(c)' <=> OpenEnd(c)
      /\ OpenSynced(c)' <=> OpenSynced(c)
      /\ CommitTodo(c)' <=> CommitTodo(c)
      /\ Undoing(c)' <=> Undoing(c)
      /\ Last' = Last
  BY DEF SameData, OpenEnd, OpenSynced, CommitTodo, Undoing, Last
<1> QED
  BY <1>3, <1>4, <1>5

-----------------------------------------------------------------------------
(* The other connections.                                                  *)

\* What one connection may do to the files the others read: nothing; to make or delete a
\* journal, for which there is one at a time; to change the image or the file, alone.
Elsewhere(c) ==
    \/ UNCHANGED <<files, txns>>
    \/ lock[c] \in Owners /\ UNCHANGED <<file, txns>> /\ Image' = Image /\ (HasHeader(journal') => HasHeader(journal))
    \/ /\ lock[c] = EXCLUSIVE_LOCK /\ UNCHANGED txns
       /\ Image' = Image \/ (Begun(c) /\ Image'[1] = txns)
    \/ UNCHANGED files /\ txns' = txns + 1 /\ lock'[c] \in Owners

LEMMA LockNames ==
    /\ EXCLUSIVE_LOCK \in Owners /\ NO_LOCK \notin Owners /\ Writers \subseteq Owners
    /\ SHARED_LOCK \notin Owners
  BY DEF Owners, Writers, NO_LOCK, SHARED_LOCK, RESERVED_LOCK, PENDING_LOCK, EXCLUSIVE_LOCK

\* Who has none of the locks of which there is one neither writes nor undoes.
LEMMA Bystander ==
    ASSUME WriterInv, StoreInv, NEW o \in Conns, lock[o] \notin Owners
    PROVE  /\ pager[o].eState \notin Transacting /\ pager[o].at \notin Exclusively \cup Deleting
           /\ ~Begun(o) /\ ~Inside(o)
<1>1. Armed(o) /\ Owned(o) /\ Stands(o)
  BY DEF WriterInv, AloneInv, StoreInv, Own
<1>2. pager[o].eState \notin Transacting /\ pager[o].at \notin Exclusively \cup Deleting
  BY <1>1, LockNames DEF Armed, Owned
<1> QED
  BY <1>1, <1>2 DEF Stands, Inside, Transacting

LEMMA SameKept ==
    ASSUME StoreInv, NEW o \in Conns, pager'[o] = pager[o], lock'[o] = lock[o],
           UNCHANGED <<files, txns>>, Image' = Image
    PROVE  Own(o)'
<1>1. SameData(o)
  BY DEF SameData
<1>2. Own(o)
  BY DEF StoreInv
<1>3. Typed(o)' /\ Stands(o)'
  BY <1>2 DEF Own, Typed, Stands, Begun
<1>4. Reads(o)'
  BY <1>1, <1>2, DataKept, ImageDataKept, FileDataKept DEF Own, Reads, Calming, Reading, Begun
<1>5. Works(o)'
  BY <1>1, <1>2, DataKept, ImageDataKept, FileDataKept DEF Own, Works, Inside
<1>6. Undoes(o)'
  BY <1>1, <1>2, DataKept, ImageDataKept, FileDataKept DEF Own, Undoes
<1> QED
  BY <1>3, <1>4, <1>5, <1>6 DEF Own

\* A bystander keeps what it believes unless the image changes; then it believes nothing.
LEMMA BystanderKept ==
    ASSUME WriterInv, StoreInv, NEW o \in Conns, pager'[o] = pager[o], lock'[o] = lock[o],
           lock[o] \notin Owners, txns' \in {txns, txns + 1},
           \/ UNCHANGED file /\ Image' = Image /\ (HasHeader(journal') => HasHeader(journal))
           \/ /\ lock[o] = NO_LOCK
              /\ Image' = Image \/ pager[o].dbFileVers # Image'[1]
    PROVE  Own(o)'
<1>1. SameData(o)
  BY DEF SameData
<1>2. Own(o)
  BY DEF StoreInv
<1>3. /\ pager[o].eState \notin Transacting /\ pager[o].at \notin Exclusively \cup Deleting
      /\ ~Begun(o) /\ ~Inside(o)
  BY Bystander
<1>4. Typed(o)' /\ Stands(o)'
  <2>1. txns \in Nat /\ txns' \in Nat /\ txns <= txns'
    BY FileParts DEF StoreInv
  <2>2. pager[o].dbFileVers \in Nat /\ \A p \in Pages : pager[o].cache[p] \in Nat
    BY <1>2 DEF Own, Typed, PagerSet
  <2> QED
    BY <1>2, <2>1, <2>2 DEF Own, Typed, Stands, Begun
<1>5. /\ Unused(o)' <=> Unused(o)
      /\ Unheld(o)' <=> Unheld(o)
      /\ Begun(o)' <=> Begun(o)
      /\ Reading(o)' <=> Reading(o)
      /\ Calming(o)' <=> Calming(o)
      /\ Inside(o)' <=> Inside(o)
  BY <1>1, DataKept DEF Begun, Reading, Calming, Inside
<1>6. Reads(o)'
  <2>1. CASE UNCHANGED file /\ Image' = Image /\ (HasHeader(journal') => HasHeader(journal))
    <3>1. Calm => Calm'
      BY <2>1 DEF Calm
    <3> QED
      BY <1>1, <1>2, <1>3, <1>5, <2>1, <3>1, ImageDataKept DEF Own, Reads
  <2>2. CASE lock[o] = NO_LOCK /\ (Image' = Image \/ pager[o].dbFileVers # Image'[1])
    <3>1. pager[o].eState = "OPEN" /\ pager[o].at = "idle" /\ ~Calming(o) /\ ~Reading(o)
      BY <1>2, <2>2, LockNames DEF Own, Stands, Calming, Reading
    <3>2. Valid(o)'
      BY <1>1, <1>2, <2>2, <3>1, ImageDataKept DEF Own, Reads, Valid
    <3> QED
      BY <1>2, <1>3, <1>5, <3>1, <3>2 DEF Own, Reads, Transacting, Logged, Modifying
  <2> QED
    BY <2>1, <2>2
<1>7. Works(o)'
  BY <1>3, <1>5 DEF Works
<1>8. Undoes(o)'
  BY <1>3 DEF Undoes, Exclusively, Deleting
<1> QED
  BY <1>4, <1>6, <1>7, <1>8 DEF Own

LEMMA OthersKept ==
    ASSUME WriterInv, WriterInv', StoreInv, NEW c \in Conns, Kept(c), Elsewhere(c), NEW o \in Others(c)
    PROVE  Own(o)'
<1>1. o \in Conns /\ pager'[o] = pager[o] /\ lock'[o] = lock[o]
  BY DEF Kept, PagerLocal, LockLocal, Others
<1>2. CASE UNCHANGED <<files, txns>>
  BY <1>1, <1>2, SameKept, FilesStay DEF StoreInv
<1>3. CASE lock[c] \in Owners /\ UNCHANGED <<file, txns>> /\ Image' = Image
           /\ (HasHeader(journal') => HasHeader(journal))
  <2>1. lock[o] \notin Owners
    BY <1>3, OwnerIsOne DEF WriterInv
  <2> QED
    BY <1>1, <1>3, <2>1, BystanderKept
<1>4. CASE /\ lock[c] = EXCLUSIVE_LOCK /\ UNCHANGED txns
           /\ Image' = Image \/ (Begun(c) /\ Image'[1] = txns)
  <2>1. lock[o] = NO_LOCK /\ lock[o] \notin Owners
    BY <1>4, LockNames DEF WriterInv, AloneInv, LockInv, Exclusion
  <2>2. Image' = Image \/ pager[o].dbFileVers # Image'[1]
    <3>1. CASE Begun(c) /\ Image'[1] = txns
      <4>1. pager[o].dbFileVers < txns
        BY <3>1 DEF StoreInv, Unseen
      <4>2. pager[o].dbFileVers \in Nat /\ txns \in Nat
        BY <1>1, FileParts DEF StoreInv, Own, Typed, PagerSet
      <4> QED
        BY <3>1, <4>1, <4>2
    <3> QED
      BY <1>4, <3>1
  <2> QED
    BY <1>1, <1>4, <2>1, <2>2, BystanderKept
<1>5. CASE UNCHANGED files /\ txns' = txns + 1 /\ lock'[c] \in Owners
  <2>1. lock[o] \notin Owners
    <3>1. AloneInv' /\ o \in Others(c)'
      BY DEF WriterInv, Others
    <3>2. lock'[o] \notin Owners
      BY <1>5, <3>1 DEF AloneInv, LockInv, Exclusion, Owners, Writers, Others, NO_LOCK, RESERVED_LOCK,
         PENDING_LOCK, EXCLUSIVE_LOCK
    <3> QED
      BY <1>1, <3>2
  <2>2. Image' = Image
    BY <1>5 DEF Image
  <2> QED
    BY <1>1, <1>5, <2>1, <2>2, BystanderKept
<1> QED
  BY <1>2, <1>3, <1>4, <1>5 DEF Elsewhere

\* What the connection may see of the change counter, and begin.
Sees(c) ==
    /\ \/ pager'[c].dbFileVers = pager[c].dbFileVers
       \/ lock[c] \in Owners
       \/ UNCHANGED txns /\ pager'[c].dbFileVers = Image[1]
    /\ Begun(c)' => (Begun(c) /\ UNCHANGED txns) \/ txns' = txns + 1

LEMMA StoreLocal ==
    ASSUME WriterInv, WriterInv', StoreInv, NEW c \in Conns, Kept(c), FileInv', Own(c)', Elsewhere(c), Sees(c)
    PROVE  StoreInv'
<1>1. \A o \in Others(c) : o \in Conns /\ pager'[o] = pager[o] /\ lock'[o] = lock[o]
  BY DEF Kept, PagerLocal, LockLocal, Others
<1>2. txns \in Nat /\ \A o \in Conns : pager[o].dbFileVers \in Nat /\ pager[o].dbFileVers <= txns
  BY FileParts DEF StoreInv, Own, Typed, PagerSet
<1>3. Unseen(c)'
  <2> SUFFICES ASSUME Begun(c)', NEW o \in Others(c)
               PROVE  pager[o].dbFileVers < txns'
    BY <1>1 DEF Unseen, Others
  <2>1. CASE Begun(c) /\ UNCHANGED txns
    BY <2>1 DEF StoreInv, Unseen
  <2>2. CASE txns' = txns + 1
    BY <1>1, <1>2, <2>2
  <2> QED
    BY <2>1, <2>2 DEF Sees
<1>4. ASSUME NEW o \in Others(c) PROVE Unseen(o)'
  <2>1. o \in Conns /\ Begun(o)' = Begun(o)
    BY <1>1 DEF Begun
  <2> SUFFICES ASSUME Begun(o) PROVE \A q \in Others(o) : pager'[q].dbFileVers < txns'
    BY <2>1 DEF Unseen, Others
  <2>2. lock[o] \in Owners /\ First(o) /\ \A q \in Others(o) : pager[q].dbFileVers < txns
    BY <2>1 DEF StoreInv, Own, Stands, Reads, Unseen
  <2>3. lock[c] \notin Owners /\ lock'[c] \notin Owners
    <3>1. lock[c] \notin Owners
      BY <1>1, <2>1, <2>2, OwnerIsOne DEF WriterInv, Others
    <3>2. lock'[o] \in Owners /\ LockInv'
      BY <1>1, <2>2 DEF WriterInv, AloneInv
    <3>3. lock'[c] \notin Owners
      BY <3>2 DEF LockInv, Exclusion, Owners, Writers, Others, NO_LOCK, RESERVED_LOCK,
         PENDING_LOCK, EXCLUSIVE_LOCK
    <3> QED
      BY <3>1, <3>3
  <2>4. UNCHANGED txns
    BY <2>3, LockNames DEF Elsewhere
  <2>5. pager'[c].dbFileVers < txns
    <3>1. c \in Others(o) /\ 1 \in Pages
      BY Numbers DEF Others
    <3> QED
      BY <2>2, <2>3, <3>1 DEF Sees, First
  <2>6. \A q \in Others(o) : q = c \/ pager'[q] = pager[q]
    BY <1>1 DEF Others
  <2> QED
    BY <2>2, <2>4, <2>5, <2>6
<1>5. \A o \in Others(c) : Own(o)'
  BY OthersKept
<1> QED
  BY <1>3, <1>4, <1>5 DEF StoreInv, Others

-----------------------------------------------------------------------------
(* A reader that begins.                                                   *)

LEMMA SetHasMaximum ==
    ASSUME NEW n \in Nat, NEW T, T \subseteq 1..n, T # {}
    PROVE  \E x \in T : \A y \in T : y <= x
<1> DEFINE D == {n - x : x \in T}
<1>1. \A x \in T : n - x \in Nat
  <2>1. \A x \in T : x \in 1..n
    OBVIOUS
  <2> QED
    BY <2>1
<1>2. D \subseteq Nat /\ D # {}
  BY <1>1
<1> HIDE DEF D
<1>3. PICK d \in D : \A y \in D : ~(<<y, d>> \in OpToRel(<, Nat))
  BY <1>2, NatLessThanWellFounded, WFMin
<1>4. \A y \in D : ~(y < d)
  BY <1>2, <1>3 DEF OpToRel
<1>5. PICK x \in T : d = n - x
  BY DEF D
<1>6. \A y \in T : y <= x
  <2> SUFFICES ASSUME NEW y \in T PROVE y <= x
    OBVIOUS
  <2>1. n - y \in D /\ x \in 1..n /\ y \in 1..n
    BY DEF D
  <2> QED
    BY <1>4, <1>5, <2>1
<1> QED
  BY <1>6

LEMMA SizeZero == ASSUME NEW f \in [Pages -> 0..Torn], Size(f) = 0 PROVE f = NoPages
<1> DEFINE T == {p \in Pages : f[p] # Beyond}
<1>1. CASE T = {}
  BY <1>1 DEF NoPages
<1>2. CASE T # {}
  <2> DEFINE Top(p) == f[p] # Beyond /\ \A q \in Pages : f[q] # Beyond => q <= p
  <2>1. \E p \in Pages : Top(p)
    <3>1. PICK p \in T : \A q \in T : q <= p
      BY <1>2, Numbers, SetHasMaximum
    <3> QED
      BY <3>1
  <2>2. Size(f) = CHOOSE p \in Pages : Top(p)
    BY <1>2 DEF Size
  <2> HIDE DEF Top
  <2>3. Size(f) \in Pages
    BY <2>1, <2>2
  <2> QED
    BY <2>3, Numbers
<1> QED
  BY <1>1, <1>2

\* An empty file without a whole image in its journal is an empty image.
LEMMA EmptyIsCalm == ASSUME FileInv, file = NoPages PROVE Calm /\ IsImage(file)
<1>1. CASE HasHeader(journal)
  <2>1. Hot /\ \A p \in Pages : file[p] = Beyond
    BY <1>1, FileParts DEF NoPages
  <2>2. \A p \in Pages : p > journal.size
    <3>1. \A p \in Pages : ~(p <= journal.size)
      BY <2>1 DEF Hot
    <3>2. journal.size \in 0..MaxPages
      BY FileParts
    <3> QED
      BY <3>1, <3>2, Numbers
  <2>3. \A p \in Pages : Image[p] = Beyond
    BY <2>1, <2>2 DEF Hot, Upto
  <2>4. file = Image
    BY <2>1, <2>3, FileParts DEF FileTypes
  <2> QED
    BY <2>4 DEF Calm, FileInv
<1>2. CASE ~HasHeader(journal)
  BY <1>2, FileParts DEF Calm, FileInv
<1> QED
  BY <1>1, <1>2

\* A step that moves the connection and touches none of its data.
Control(c, eState, at, op) ==
    /\ pager'[c] \in PagerSet /\ SameData(c)
    /\ pager'[c].eState = eState /\ pager'[c].at = at /\ pager'[c].op = op

LEMMA BecomesIs ==
    ASSUME WriterInv, NEW c \in Conns, NEW pg, Becomes(c, pg)
    PROVE  pager'[c] = pg
  BY DEF WriterInv, AloneInv, Shape

LEMMA GoesControl ==
    ASSUME WriterInv, StoreInv, NEW c \in Conns, NEW place \in Places, Goes(c, place)
    PROVE  Control(c, pager[c].eState, place, pager[c].op)
<1> DEFINE pg == [pager[c] EXCEPT !.at = place]
<1>1. pager[c] \in PagerSet
  BY DEF StoreInv, Own, Typed
<1>2. pager'[c] = pg
  <2>1. Becomes(c, pg)
    OBVIOUS
  <2> HIDE DEF pg, Becomes
  <2> QED
    BY <2>1, BecomesIs
<1> QED
  BY <1>1, <1>2 DEF Control, SameData, PagerSet

LEMMA StillTyped ==
    ASSUME StoreInv, NEW c \in Conns, SameData(c), pager'[c] \in PagerSet, UNCHANGED txns
    PROVE  Typed(c)'
  BY DEF StoreInv, Own, Typed, SameData

LEMMA OpeningKept ==
    ASSUME WriterInv, StoreInv, NEW c \in Conns, NEW at, NEW op, Control(c, "OPEN", at, op),
           UNCHANGED <<files, txns>>, pager[c].eState = "OPEN",
           at \in Beginning \cup {"exclusive", "idle"},
           at = "exclusive" => op = "hot",
           lock'[c] = NO_LOCK => at = "idle",
           at = "validate" \/ lock'[c] \in Writers => Calm,
           at \in {"stray", "deleteStray"} => file = NoPages
    PROVE  FileInv' /\ Own(c)' /\ Elsewhere(c) /\ Sees(c) /\ Image' = Image /\ Durable' = Durable
<1>1. FileInv' /\ Image' = Image /\ Durable' = Durable
  BY FilesStay DEF StoreInv
<1>2. Typed(c)'
  BY StillTyped DEF Control
<1>3. ~Begun(c)' /\ ~Inside(c)' /\ ~Reading(c)'
  BY DEF Control, Begun, Inside, Reading, Transacting, Logged, Modifying, Beginning
<1>4. Stands(c)'
  BY <1>3 DEF Control, Stands, Beginning, Modifying
<1>5. Reads(c)'
  <2>1. Calming(c)' => at = "validate" \/ lock'[c] \in Writers
    BY DEF Calming, Control, Beginning
  <2>2. Calm' <=> Calm
    BY <1>1 DEF Calm
  <2>3. Own(c) /\ SameData(c)
    BY DEF StoreInv, Control
  <2> QED
    BY <1>1, <1>3, <2>1, <2>2, <2>3, DataKept, ImageDataKept DEF Own, Reads, Control
<1>6. Works(c)' /\ Undoes(c)'
  BY <1>3 DEF Works, Undoes, Control, Beginning
<1>7. Sees(c) /\ Elsewhere(c)
  BY <1>3 DEF Control, SameData, Sees, Elsewhere
<1> QED
  BY <1>1, <1>2, <1>4, <1>5, <1>6, <1>7 DEF Own

\* What a step does to the images: nothing, or what was at risk is safe, or a transaction
\* is committed.
Settles == Image' = Image /\ Durable' \in {Durable, Image}
Commits ==
    /\ Durable = Image /\ UNCHANGED <<Durable, txns>>
    /\ \A p \in Pages : Image[p] < txns /\ Image'[p] \in {Image[p], txns}
    /\ Image'[1] = txns

\* What each action is shown to do.
Advances(c) == FileInv' /\ Own(c)' /\ Elsewhere(c) /\ Sees(c) /\ (Settles \/ Commits)

LEMMA OpenerPlaces ==
    ASSUME WriterInv, StoreInv, NEW c \in Conns, pager[c].at \in Opens
    PROVE  pager[c].eState = "OPEN" /\ pager[c] \in PagerSet /\ lock[c] # NO_LOCK
<1>1. Placed(pager[c]) /\ Own(c)
  BY DEF WriterInv, StoreInv
<1> QED
  BY <1>1 DEF Placed, Own, Typed, Stands, Opens, Beginning

LEMMA OpenAdvances ==
    ASSUME WriterInv, StoreInv, NEW c \in Conns,
           NEW at \in Beginning, NEW op, Control(c, "OPEN", at, op),
           UNCHANGED <<files, txns>>, pager[c].eState = "OPEN", lock'[c] # NO_LOCK,
           at = "validate" \/ lock'[c] \in Writers => Calm,
           at \in {"stray", "deleteStray"} => file = NoPages
    PROVE  Advances(c)
<1>1. at # "exclusive"
  BY DEF Beginning
<1> QED
  BY <1>1, OpeningKept DEF Advances, Settles

LEMMA NoHeaderIsCalm == ASSUME FileInv, ~HasHeader(journal) PROVE Calm
  BY FileParts DEF Calm

LEMMA TakeSharedAdvances ==
    ASSUME WriterInv, StoreInv, NEW c \in Conns, TakeShared(c) PROVE Advances(c)
<1>1. lock'[c] = SHARED_LOCK
  BY LocksAreLocks, ObtainIsLocal DEF TakeShared, WriterInv, AloneInv
<1>2. Control(c, "OPEN", "lookForJournal", pager[c].op)
  BY GoesControl, Names DEF TakeShared
<1>3. SHARED_LOCK # NO_LOCK /\ SHARED_LOCK \notin Writers
  BY DEF SHARED_LOCK, NO_LOCK, Writers, RESERVED_LOCK, PENDING_LOCK
<1>4. UNCHANGED <<files, txns>> /\ pager[c].eState = "OPEN" /\ "lookForJournal" \in Beginning
  BY DEF TakeShared, Beginning
<1> QED
  BY <1>1, <1>2, <1>3, <1>4, OpenAdvances

LEMMA LookForJournalAdvances ==
    ASSUME WriterInv, StoreInv, NEW c \in Conns, LookForJournal(c) PROVE Advances(c)
<1>1. pager[c].eState = "OPEN" /\ lock[c] # NO_LOCK
  BY OpenerPlaces DEF LookForJournal, Opens, Beginning
<1>2. PICK place \in {"lookForWriter", "validate"} :
         /\ Goes(c, place)
         /\ place = "validate" => ~journal.exists
         /\ UNCHANGED <<lock, files, txns>>
  <2> DEFINE place == IF journal.exists THEN "lookForWriter" ELSE "validate"
  <2>1. /\ Goes(c, place) /\ UNCHANGED <<lock, files, txns>>
    BY DEF LookForJournal
  <2>2. place \in {"lookForWriter", "validate"} /\ (place = "validate" => ~journal.exists)
    OBVIOUS
  <2> HIDE DEF place, Goes
  <2> QED
    BY <2>1, <2>2
<1>3. Control(c, "OPEN", place, pager[c].op)
  BY <1>1, <1>2, GoesControl, Names
<1>4. place = "validate" => Calm
  BY <1>2, NoHeaderIsCalm DEF StoreInv, HasHeader
<1>5. lock[c] \in Writers => Calm
  BY DEF StoreInv, Own, Reads, Calming
<1>6. place \in Beginning /\ place \notin {"stray", "deleteStray"}
  BY <1>2 DEF Beginning
<1> QED
  BY <1>1, <1>2, <1>3, <1>4, <1>5, <1>6, OpenAdvances

LEMMA LookForWriterAdvances ==
    ASSUME WriterInv, StoreInv, NEW c \in Conns, LookForWriter(c) PROVE Advances(c)
<1>1. pager[c].eState = "OPEN" /\ lock[c] # NO_LOCK
  BY OpenerPlaces DEF LookForWriter, Opens, Beginning
<1>2. PICK place \in {"validate", "stray", "readHeader"} :
         /\ Goes(c, place)
         /\ place = "validate" => \E o \in Others(c) : lock[o] \in Writers
         /\ place = "stray" => Size(file) = 0
         /\ UNCHANGED <<lock, files, txns>>
  <2> DEFINE place == CASE \E o \in Others(c) : lock[o] \in Writers -> "validate"
                        [] Size(file) = 0                          -> "stray"
                        [] OTHER                                   -> "readHeader"
  <2>1. /\ Goes(c, place) /\ UNCHANGED <<lock, files, txns>>
    BY DEF LookForWriter
  <2>2. /\ place \in {"validate", "stray", "readHeader"}
        /\ place = "validate" => \E o \in Others(c) : lock[o] \in Writers
        /\ place = "stray" => Size(file) = 0
    OBVIOUS
  <2> HIDE DEF place, Goes
  <2> QED
    BY <2>1, <2>2
<1>3. Control(c, "OPEN", place, pager[c].op)
  BY <1>1, <1>2, GoesControl, Names
<1>4. \A o \in Conns : lock[o] \in Writers => Calm
  BY DEF StoreInv, Own, Reads, Calming
<1>5. place = "stray" => file = NoPages
  BY <1>2, SizeZero DEF StoreInv, FileInv, FileTypes
<1>6. place \in Beginning /\ place # "deleteStray"
  BY <1>2 DEF Beginning
<1> QED
  BY <1>1, <1>2, <1>3, <1>4, <1>5, <1>6, OpenAdvances DEF Others

LEMMA StrayAdvances ==
    ASSUME WriterInv, StoreInv, NEW c \in Conns, Stray(c) PROVE Advances(c)
<1>1. pager[c].eState = "OPEN" /\ lock[c] # NO_LOCK /\ file = NoPages /\ Calm
  <2>1. pager[c].eState = "OPEN" /\ lock[c] # NO_LOCK
    BY OpenerPlaces DEF Stray, Opens, Beginning
  <2>2. file = NoPages
    BY DEF Stray, StoreInv, Own, Reads
  <2> QED
    BY <2>1, <2>2, EmptyIsCalm DEF StoreInv
<1>2. PICK place \in {"deleteStray", "validate"} : Goes(c, place)
  BY DEF Stray
<1>3. lock'[c] # NO_LOCK /\ UNCHANGED <<files, txns>>
  <2>1. Obtain(c, RESERVED_LOCK) \/ UNCHANGED lock
    BY DEF Stray
  <2>2. Obtain(c, RESERVED_LOCK) => lock'[c] = RESERVED_LOCK
    BY LocksAreLocks, ObtainIsLocal DEF WriterInv, AloneInv
  <2> QED
    BY <1>1, <2>1, <2>2 DEF Stray, RESERVED_LOCK, NO_LOCK
<1>4. Control(c, "OPEN", place, pager[c].op)
  BY <1>1, <1>2, GoesControl, Names
<1>5. place \in Beginning
  BY <1>2 DEF Beginning
<1> QED
  BY <1>1, <1>2, <1>3, <1>4, <1>5, OpenAdvances

LEMMA ReadHeaderAdvances ==
    ASSUME WriterInv, StoreInv, NEW c \in Conns, ReadHeader(c) PROVE Advances(c)
<1>1. pager[c].eState = "OPEN" /\ lock[c] # NO_LOCK /\ pager[c] \in PagerSet
  BY OpenerPlaces DEF ReadHeader, Opens, Beginning
<1>2. UNCHANGED <<lock, files, txns>>
  BY DEF ReadHeader
<1>3. lock[c] \in Writers => Calm
  BY DEF StoreInv, Own, Reads, Calming
<1>4. CASE journal.exists /\ ~HasHeader(journal)
  <2>1. Control(c, "OPEN", "validate", pager[c].op)
    BY <1>1, <1>4, GoesControl, Names DEF ReadHeader
  <2>2. Calm /\ "validate" \in Beginning
    BY <1>4, NoHeaderIsCalm DEF StoreInv, Beginning
  <2> QED
    BY <1>1, <1>2, <2>1, <2>2, OpenAdvances
<1>5. CASE ~(journal.exists /\ ~HasHeader(journal))
  <2> DEFINE pg == [pager[c] EXCEPT !.at = "exclusive", !.op = "hot"]
  <2>1. pager'[c] = pg
    <3>1. Becomes(c, pg)
      BY <1>5 DEF ReadHeader
    <3> HIDE DEF pg, Becomes
    <3> QED
      BY <3>1, BecomesIs
  <2>2. Control(c, "OPEN", "exclusive", "hot")
    BY <1>1, <2>1, Names DEF Control, SameData, PagerSet
  <2> QED
    BY <1>1, <1>2, <1>3, <2>2, OpeningKept DEF Advances, Settles
<1> QED
  BY <1>4, <1>5

LEMMA DeletedIs == ~HasHeader(Deleted) /\ ~Deleted.exists
<1>1. NoJournal.exists = FALSE /\ "size" # "exists"
  BY DEF NoJournal
<1> QED
  BY <1>1 DEF Deleted, HasHeader, NoJournal

\* What is asked of a pager in state OPEN.
LEMMA OpenerOwn ==
    ASSUME NEW c \in Conns, Typed(c)', pager'[c].eState = "OPEN",
           pager'[c].at \in Opens \cup {"idle", "exclusive", "writePages", "syncFile", "finalize", "unlock"},
           pager'[c].at \in {"exclusive", "writePages", "syncFile", "finalize"} => pager'[c].op = "hot",
           lock'[c] = NO_LOCK => pager'[c].at = "idle",
           Unused(c)', Unheld(c)', Valid(c)',
           Calming(c)' => Calm',
           pager'[c].at \in {"stray", "deleteStray"} => file' = NoPages,
           Undoes(c)'
    PROVE  Own(c)'
<1>1. ~Begun(c)' /\ ~Inside(c)' /\ ~Reading(c)'
  BY DEF Begun, Inside, Reading, Transacting, Logged, Modifying
<1>2. Stands(c)'
  BY <1>1 DEF Stands, Opens, Beginning, Modifying
<1>3. Reads(c)'
  BY <1>1 DEF Reads
<1> QED
  BY <1>1, <1>2, <1>3 DEF Own, Works

\* The same of one that has only moved, and may have the files changed.
LEMMA OpenerMoved ==
    ASSUME WriterInv, StoreInv, NEW c \in Conns, NEW at \in Opens \cup {"syncFile", "finalize", "unlock"},
           NEW op, Control(c, "OPEN", at, op),
           pager[c].eState = "OPEN", lock'[c] # NO_LOCK, Image' = Image, UNCHANGED txns,
           at \in {"syncFile", "finalize"} => op = "hot",
           Calming(c)' => Calm',
           at \in {"stray", "deleteStray"} => file' = NoPages,
           at \in {"syncFile", "finalize"} => file' = Image,
           at = "playback" => jdisk' = journal',
           at = "finalize" /\ HasHeader(journal') => disk' = file'
    PROVE  Own(c)' /\ Sees(c)
<1>1. Own(c) /\ SameData(c)
  BY DEF StoreInv, Control
<1>2. Unused(c)' /\ Unheld(c)' /\ Valid(c)'
  BY <1>1, DataKept, ImageDataKept DEF Own, Reads
<1>3. Typed(c)'
  BY StillTyped DEF Control
<1>4. Undoes(c)'
  BY DEF Undoes, Control, Opens, Beginning
<1>5. Own(c)'
  BY <1>2, <1>3, <1>4, OpenerOwn DEF Control, Opens, Beginning
<1>6. Sees(c)
  BY DEF Sees, Control, SameData, Begun, Transacting, Logged, Modifying, Opens, Beginning
<1> QED
  BY <1>5, <1>6

LEMMA DeleteStrayAdvances ==
    ASSUME WriterInv, StoreInv, NEW c \in Conns, DeleteStray(c) PROVE Advances(c)
<1>1. pager[c].eState = "OPEN" /\ pager[c] \in PagerSet /\ lock[c] # NO_LOCK /\ lock[c] \in Owners
  BY OpenerPlaces DEF DeleteStray, Opens, Beginning, WriterInv, Owned, Deleting
<1>2. file = NoPages /\ Calm /\ IsImage(file) /\ FileInv
  BY EmptyIsCalm DEF DeleteStray, StoreInv, Own, Reads
<1>3. CASE journal.exists /\ journal' = Deleted /\ UNCHANGED <<lock, pager>>
  <2>1. UNCHANGED <<file, disk, jdisk, txns>>
    BY DEF DeleteStray
  <2>2. FileInv' /\ Image' = file /\ Durable' = Durable
    BY <1>2, <1>3, <2>1, JournalDeleted DEF Calm
  <2>3. Image' = Image
    BY <1>2, <2>2 DEF Calm
  <2>4. Calm' /\ ~HasHeader(journal')
    BY <1>2, <1>3, <2>1, <2>2, DeletedIs DEF Calm
  <2>5. Control(c, "OPEN", "deleteStray", pager[c].op)
    BY <1>1, <1>3 DEF Control, SameData, DeleteStray
  <2>6. Own(c)' /\ Sees(c)
    <3>1. "deleteStray" \in Opens
      BY DEF Opens, Beginning
    <3> QED
      BY <1>1, <1>2, <1>3, <2>1, <2>3, <2>4, <2>5, <3>1, OpenerMoved
  <2> QED
    BY <1>1, <2>1, <2>2, <2>3, <2>4, <2>6 DEF Advances, Elsewhere, Settles
<1>4. CASE ~journal.exists /\ Release(c, SHARED_LOCK) /\ Goes(c, "validate") /\ UNCHANGED journal
  <2>1. Control(c, "OPEN", "validate", pager[c].op)
    BY <1>1, <1>4, GoesControl, Names
  <2>2. lock'[c] = SHARED_LOCK /\ SHARED_LOCK # NO_LOCK
    BY <1>4, LocksAreLocks, ReleaseIsLocal DEF WriterInv, AloneInv, SHARED_LOCK, NO_LOCK
  <2>3. "validate" \in Beginning /\ UNCHANGED <<files, txns>>
    BY <1>4 DEF Beginning, DeleteStray
  <2> QED
    BY <1>1, <1>2, <2>1, <2>2, <2>3, OpenAdvances
<1> QED
  BY <1>3, <1>4 DEF DeleteStray

LEMMA OpenHotJournalAdvances ==
    ASSUME WriterInv, StoreInv, NEW c \in Conns, OpenHotJournal(c) PROVE Advances(c)
<1>1. pager[c].eState = "OPEN" /\ pager[c] \in PagerSet /\ lock[c] # NO_LOCK /\ lock[c] = EXCLUSIVE_LOCK
  BY OpenerPlaces DEF OpenHotJournal, Opens, Beginning, WriterInv, AloneInv, Armed, Exclusively
<1>2. FileInv /\ FileTypes
  BY DEF StoreInv, FileInv
<1>3. CASE ~journal.exists /\ Release(c, SHARED_LOCK) /\ Goes(c, "validate") /\ UNCHANGED <<disk, jdisk>>
  <2>1. Control(c, "OPEN", "validate", pager[c].op)
    BY <1>1, <1>3, GoesControl, Names
  <2>2. lock'[c] = SHARED_LOCK /\ SHARED_LOCK # NO_LOCK
    BY <1>3, LocksAreLocks, ReleaseIsLocal DEF WriterInv, AloneInv, SHARED_LOCK, NO_LOCK
  <2>3. "validate" \in Beginning /\ UNCHANGED <<files, txns>>
    BY <1>3 DEF Beginning, OpenHotJournal
  <2>4. Calm
    BY <1>2, <1>3, NoHeaderIsCalm DEF HasHeader
  <2> QED
    BY <1>1, <2>1, <2>2, <2>3, <2>4, OpenAdvances
<1>4. CASE journal.exists /\ SyncJournal /\ Goes(c, "playback") /\ UNCHANGED lock
  <2>1. UNCHANGED <<file, journal, txns>> /\ jdisk' = journal
    BY <1>4 DEF OpenHotJournal, SyncJournal
  <2>2. FileInv' /\ Image' = Image /\ Durable' = Image
    <3>1. IsJournal(journal) /\ journal.exists
      BY <1>2, <1>4 DEF FileTypes
    <3> HIDE DEF Goes
    <3> QED
      BY <1>2, <1>4, <2>1, <3>1, JournalSynced
  <2>3. Control(c, "OPEN", "playback", pager[c].op)
    BY <1>1, <1>4, GoesControl, Names
  <2>4. ~Calming(c)'
    BY <1>1, <1>4, <2>3 DEF Calming, Control, Writers, EXCLUSIVE_LOCK, RESERVED_LOCK, PENDING_LOCK
  <2>5. Own(c)' /\ Sees(c)
    <3>1. "playback" \in Opens /\ "playback" \notin {"stray", "deleteStray"}
      BY DEF Opens
    <3> QED
      BY <1>1, <1>4, <2>1, <2>2, <2>3, <2>4, <3>1, OpenerMoved
  <2> QED
    BY <1>1, <2>1, <2>2, <2>5 DEF Advances, Elsewhere, Settles
<1> QED
  BY <1>3, <1>4 DEF OpenHotJournal

\* The file gets its old size under a journal that can be played back.
LEMMA SizeRestored ==
    ASSUME FileInv, HasHeader(journal), file' = Truncated(file, journal.size),
           UNCHANGED <<disk, journal, jdisk, txns>>
    PROVE  FileInv' /\ Image' = Image /\ Durable' = Durable
<1>1. Hot /\ FileTypes /\ journal.size \in 0..MaxPages
  BY FileParts
<1>2. \A p \in Pages : file'[p] = IF p <= journal.size THEN file[p] ELSE Beyond
  BY DEF Truncated
<1>3. file' \in [Pages -> 0..Torn] /\ disk' \in [Pages -> 0..Torn]
  BY <1>1, <1>2, Numbers DEF FileTypes, Truncated
<1>4. \A p \in Pages : p <= journal.size \/ p > journal.size
  BY <1>1, Numbers
<1>5. \A p \in Pages : ~(p <= journal.size) => Image[p] = Beyond
  BY <1>1, <1>4 DEF Hot, Upto
<1>6. \A p \in Pages : Protected(p) \/ (file'[p] = Image[p] /\ disk'[p] = Image[p])
  BY <1>1, <1>2, <1>5 DEF Hot
<1>7. \A p \in Pages : p <= journal.size => file'[p] # Beyond /\ disk'[p] # Beyond
  BY <1>1, <1>2 DEF Hot
<1> QED
  BY <1>3, <1>6, <1>7, HotStep

LEMMA PlayHotJournalAdvances ==
    ASSUME WriterInv, StoreInv, NEW c \in Conns, PlayHotJournal(c) PROVE Advances(c)
<1> DEFINE recs == IF HasHeader(journal) THEN Playable(journal) ELSE {}
           cached == IF recs # {} THEN NoPages ELSE pager[c].cache
           place == IF recs = {} THEN "syncFile" ELSE "writePages"
           pg == [[pager[c] EXCEPT !.cache = IF recs # {} THEN NoPages ELSE @] EXCEPT !.todo = recs, !.at = place]
<1>1. /\ pager[c].eState = "OPEN" /\ pager[c] \in PagerSet /\ lock[c] # NO_LOCK /\ lock[c] = EXCLUSIVE_LOCK
      /\ pager[c].op = "hot"
  BY OpenerPlaces DEF PlayHotJournal, Opens, Beginning, WriterInv, AloneInv, Armed, Exclusively, Placed
<1>2. FileInv /\ FileTypes /\ jdisk = journal /\ Own(c)
  BY DEF StoreInv, FileInv, PlayHotJournal, Own, Undoes
<1>3. UNCHANGED <<lock, disk, journal, jdisk, txns>>
  BY DEF PlayHotJournal
<1>4. pager'[c] = pg
  <2>1. Becomes(c, pg)
    BY DEF PlayHotJournal, Played
  <2> HIDE DEF pg, Becomes
  <2> QED
    BY <2>1, BecomesIs
<1>5. recs \subseteq RecordSet
  BY <1>2, PlayableParts DEF FileTypes
<1>6. NoPages \in [Pages -> Nat] /\ \A p \in Pages : NoPages[p] = 0
  BY Numbers DEF NoPages
<1>7. /\ pager'[c] \in PagerSet /\ pager'[c].eState = "OPEN" /\ pager'[c].at = place /\ pager'[c].op = "hot"
      /\ pager'[c].cache = cached /\ pager'[c].todo = recs
      /\ pager'[c].dbFileVers = pager[c].dbFileVers /\ pager'[c].hasHeldSharedLock = pager[c].hasHeldSharedLock
      /\ pager'[c].inJournal = pager[c].inJournal /\ pager'[c].dirty = pager[c].dirty
      /\ pager'[c].needSync = pager[c].needSync
  <2>1. place \in Places
    BY Names
  <2>2. cached \in [Pages -> Nat]
    BY <1>1, <1>6 DEF PagerSet
  <2>3. pg = [pager[c] EXCEPT !.cache = cached, !.todo = recs, !.at = place]
    <3> HIDE DEF recs, place
    <3> QED
      BY <1>1 DEF PagerSet
  <2>4. pager'[c] = [pager[c] EXCEPT !.cache = cached, !.todo = recs, !.at = place]
    BY <1>4, <2>3
  <2>5. recs \in SUBSET RecordSet
    BY <1>5
  <2> HIDE DEF pg, recs, cached, place
  <2>6. pager'[c] \in PagerSet
    BY <1>1, <2>1, <2>2, <2>4, <2>5 DEF PagerSet
  <2> QED
    BY <1>1, <2>4, <2>6 DEF PagerSet
<1>8. FileInv' /\ Image' = Image /\ Durable' = Durable
  <2>1. CASE HasHeader(journal)
    BY <1>2, <1>3, <2>1, SizeRestored DEF PlayHotJournal, OriginalSize
  <2>2. CASE ~HasHeader(journal)
    BY <1>2, <1>3, <2>2, FilesStay DEF PlayHotJournal
  <2> QED
    BY <2>1, <2>2
<1>9. \A p \in Pages : file'[p] = Image[p] \/ (HasHeader(journal) /\ Has(recs, p))
  <2>1. CASE HasHeader(journal)
    <3>1. Covers(journal, file, Image) /\ Hot
      BY <1>2, <2>1 DEF FileInv
    <3>2. \A p \in Pages : file'[p] = IF p <= journal.size THEN file[p] ELSE Beyond
      BY <2>1 DEF PlayHotJournal, OriginalSize, Truncated
    <3>3. \A p \in Pages : p <= journal.size <=> ~(p > journal.size)
      BY <1>2, FileParts, Numbers
    <3> QED
      BY <2>1, <3>1, <3>2, <3>3 DEF Covers
  <2>2. CASE ~HasHeader(journal)
    BY <1>2, <2>2, FileParts DEF PlayHotJournal
  <2> QED
    BY <2>1, <2>2
<1>10. From(recs, Image)
  BY <1>2 DEF FileInv, Covers, From
<1>11. /\ Unused(c)' /\ Unheld(c)' /\ Valid(c)' /\ Typed(c)'
  <2>1. Unused(c) /\ Unheld(c) /\ Valid(c) /\ Typed(c)
    BY <1>1, <1>2 DEF Own, Reads
  <2>2. txns \in Nat
    BY <1>2, FileParts
  <2> HIDE DEF recs
  <2> QED
    BY <1>1, <1>3, <1>6, <1>7, <1>8, <2>1, <2>2 DEF Unused, Unheld, Valid, Typed, Beyond
<1>12. Undoes(c)'
  <2>1. CASE recs = {}
    <3>1. \A p \in Pages : file'[p] = Image[p]
      BY <1>9, <2>1 DEF Has
    <3>2. file' = Image
      BY <1>2, <1>8, <3>1, FileParts DEF FileInv, FileTypes
    <3>3. place = "syncFile"
      BY <2>1
    <3> HIDE DEF recs, place
    <3> QED
      BY <1>7, <1>8, <3>2, <3>3 DEF Undoes
  <2>2. CASE recs # {}
    <3>1. place = "writePages" /\ HasHeader(journal) /\ recs = Playable(journal) /\ cached = NoPages
      BY <2>2
    <3> HIDE DEF recs, place, cached
    <3>2. \A r \in recs : Protected(r.page)'
      <4>1. \A r \in recs : Has(recs, r.page)
        BY DEF Has
      <4> QED
        BY <1>2, <1>3, <3>1, <4>1 DEF Protected
    <3>3. \A r \in recs : r.content <= txns /\ (r.page <= journal.size => r.content # Beyond)
      <4>1. Hot /\ Image \in [Pages -> 0..txns] /\ txns \in Nat
        BY <1>2, <3>1, FileParts
      <4>2. \A p \in Pages : p <= journal.size => ~(p > journal.size)
        BY <1>2, FileParts, Numbers
      <4> QED
        BY <1>10, <4>1, <4>2 DEF From, Hot, Upto
    <3>4. Writable(c)'
      BY <1>3, <1>7, <2>2, <3>1, <3>2, <3>3 DEF Writable
    <3>5. Undoing(c)' /\ Emptied(c)'
      BY <1>7, <1>8, <1>9, <1>10, <3>1 DEF Undoing, Emptied
    <3> QED
      BY <1>7, <3>1, <3>4, <3>5 DEF Undoes
  <2> QED
    BY <2>1, <2>2
<1>13. Own(c)' /\ Sees(c)
  <2>1. place \in {"syncFile", "writePages"}
    OBVIOUS
  <2> HIDE DEF recs, place, cached
  <2>2. ~Calming(c)'
    BY <1>1, <1>3, <1>7, <2>1 DEF Calming, Writers, EXCLUSIVE_LOCK, RESERVED_LOCK, PENDING_LOCK
  <2>3. Own(c)'
    BY <1>1, <1>3, <1>7, <1>11, <1>12, <2>1, <2>2, OpenerOwn
  <2>4. Sees(c)
    BY <1>7, <2>1 DEF Sees, Begun, Transacting, Logged, Modifying
  <2> QED
    BY <2>3, <2>4
<1> QED
  BY <1>1, <1>3, <1>8, <1>13 DEF Advances, Elsewhere, Settles

\* What is asked of a reader.
LEMMA ReaderOwn ==
    ASSUME NEW c \in Conns, Typed(c)', pager'[c].eState = "READER", pager'[c].at = "idle", pager'[c].op = "none",
           lock'[c] # NO_LOCK, pager'[c].hasHeldSharedLock, Unused(c)', Current(c)', Clean(c)', Calm'
    PROVE  Own(c)' /\ ~Begun(c)'
<1>1. ~Begun(c)' /\ ~Inside(c)' /\ Reading(c)'
  BY DEF Begun, Inside, Reading, Transacting, Logged, Modifying
<1>2. Stands(c)'
  BY <1>1 DEF Stands, Modifying
<1>3. Reads(c)' /\ Works(c)' /\ Undoes(c)'
  BY <1>1 DEF Reads, Works, Undoes
<1> QED
  BY <1>1, <1>2, <1>3 DEF Own

LEMMA ValidateAdvances ==
    ASSUME WriterInv, StoreInv, NEW c \in Conns, Validate(c) PROVE Advances(c)
<1> DEFINE cached == [ValidCache(pager[c]) EXCEPT ![1] = file[1]]
           pg == [pager[c] EXCEPT !.eState = "READER", !.at = "idle", !.op = "none",
                                  !.cache = cached,
                                  !.dbFileVers = file[1],
                                  !.hasHeldSharedLock = TRUE,
                                  !.dbSize = Size(file)]
<1>1. pager[c].eState = "OPEN" /\ pager[c] \in PagerSet /\ lock[c] # NO_LOCK
  BY OpenerPlaces DEF Validate, Opens, Beginning
<1>2. FileInv /\ FileTypes /\ Own(c) /\ Calm /\ file = Image
  BY DEF StoreInv, FileInv, Validate, Own, Reads, Calming, Calm
<1>3. UNCHANGED <<lock, files, txns>>
  BY DEF Validate
<1>4. FileInv' /\ Image' = Image /\ Durable' = Durable /\ Calm'
  BY <1>2, <1>3, FilesStay DEF Calm
<1>5. pager'[c] = pg
  <2>1. Becomes(c, pg)
    BY DEF Validate
  <2> HIDE DEF pg, Becomes
  <2> QED
    BY <2>1, BecomesIs
<1>6. Size(file) \in 0..MaxPages /\ Upto(Image, Size(file))
  BY <1>2, SizeIs DEF FileInv, IsImage
<1>7. file \in [Pages -> 0..txns] /\ txns \in Nat /\ 1 \in Pages
  BY <1>2, FileParts, Numbers
<1>8. /\ cached \in [Pages -> Nat]
      /\ \A p \in Pages : cached[p] \in {Beyond, Image[p]} /\ cached[p] <= txns
  <2>1. ValidCache(pager[c]) \in {pager[c].cache, NoPages} /\ NoPages \in [Pages -> Nat]
    BY Numbers DEF ValidCache, NoPages
  <2>2. ValidCache(pager[c]) \in [Pages -> Nat]
    BY <1>1, <2>1 DEF PagerSet
  <2>3. \A p \in Pages : ValidCache(pager[c])[p] \in {Beyond, Image[p]}
    <3>1. Unheld(c) /\ Valid(c)
      BY <1>1, <1>2 DEF Own, Reads
    <3>2. \A p \in Pages : NoPages[p] = Beyond
      BY DEF NoPages
    <3> QED
      BY <1>2, <3>1, <3>2 DEF ValidCache, Unheld, Valid
  <2> HIDE DEF ValidCache
  <2>4. \A p \in Pages : cached[p] = IF p = 1 THEN file[1] ELSE ValidCache(pager[c])[p]
    BY <2>2
  <2>5. cached \in [Pages -> Nat] /\ \A p \in Pages : cached[p] \in {Beyond, Image[p]}
    BY <1>2, <1>7, <2>2, <2>3, <2>4
  <2> HIDE DEF cached
  <2> QED
    BY <1>2, <1>7, <2>5, Numbers
<1>9. /\ pager'[c] \in PagerSet /\ pager'[c].eState = "READER" /\ pager'[c].at = "idle" /\ pager'[c].op = "none"
      /\ pager'[c].cache = cached /\ pager'[c].dbFileVers = file[1] /\ pager'[c].hasHeldSharedLock = TRUE
      /\ pager'[c].dbSize = Size(file)
      /\ pager'[c].inJournal = pager[c].inJournal /\ pager'[c].dirty = pager[c].dirty
      /\ pager'[c].needSync = pager[c].needSync
  <2> HIDE DEF cached
  <2>1. file[1] \in Nat
    BY <1>7
  <2> QED
    <3>1. pager[c] \in PagerSet /\ cached \in [Pages -> Nat] /\ Size(file) \in 0..MaxPages
      BY <1>1, <1>6, <1>8
    <3>2. pg \in PagerSet
      BY ONLY <2>1, <3>1, Names DEF PagerSet
    <3>3. /\ pg.eState = "READER" /\ pg.at = "idle" /\ pg.op = "none"
          /\ pg.cache = cached /\ pg.dbFileVers = file[1] /\ pg.hasHeldSharedLock = TRUE
          /\ pg.dbSize = Size(file)
          /\ pg.inJournal = pager[c].inJournal /\ pg.dirty = pager[c].dirty
          /\ pg.needSync = pager[c].needSync
      BY ONLY <3>1 DEF PagerSet
    <3> HIDE DEF pg
    <3> QED
      BY <1>5, <3>2, <3>3
<1> HIDE DEF cached, pg
<1>10. Typed(c)' /\ Unused(c)' /\ Current(c)' /\ Clean(c)'
  <2>1. Unused(c)
    BY <1>1, <1>2 DEF Own, Reads
  <2>2. file[1] <= txns
    BY <1>7
  <2> QED
    BY <1>2, <1>3, <1>4, <1>6, <1>8, <1>9, <2>1, <2>2 DEF Typed, Unused, Current, Clean
<1>11. Own(c)' /\ ~Begun(c)'
  BY <1>1, <1>3, <1>4, <1>9, <1>10, ReaderOwn
<1>12. Sees(c)
  BY <1>2, <1>3, <1>9, <1>11 DEF Sees
<1> QED
  BY <1>3, <1>4, <1>11, <1>12 DEF Advances, Elsewhere, Settles

-----------------------------------------------------------------------------
(* Locks are let go, and asked for.                                        *)

LEMMA NoTransactionIs ==
    ASSUME NEW pg \in PagerSet, NEW n, n = NoTransaction(pg)
    PROVE  /\ n \in PagerSet
           /\ n.eState = pg.eState /\ n.at = pg.at /\ n.op = "none" /\ n.cache = pg.cache
           /\ n.dbFileVers = pg.dbFileVers /\ n.hasHeldSharedLock = pg.hasHeldSharedLock
           /\ n.dbSize = pg.dbSize /\ n.inJournal = {} /\ n.dirty = {} /\ n.needSync = {}
<1>1. /\ {} \in SUBSET Pages /\ {} \in SUBSET RecordSet /\ 0 \in 0..MaxPages /\ 0 \in Nat
      /\ "none" \in Ops
  BY Names, Numbers
<1>2. n = [pg EXCEPT !.op = "none", !.dbOrigSize = 0, !.inJournal = {}, !.dirty = {},
                     !.needSync = {}, !.synced = 0, !.todo = {}, !.txn = 0]
  BY DEF NoTransaction
<1>3. n \in PagerSet
  BY <1>1, <1>2 DEF PagerSet
<1> QED
  BY <1>2, <1>3 DEF PagerSet

LEMMA UnlocksAdvances ==
    ASSUME WriterInv, StoreInv, NEW c \in Conns, Unlocks(c), UNCHANGED <<files, txns>>,
           pager[c].eState \in {"OPEN", "READER", "ERROR"}
    PROVE  Advances(c)
<1> DEFINE n == NoTransaction(pager[c])
           cached == IF pager[c].eState = "ERROR" THEN NoPages ELSE n.cache
           pg == [n EXCEPT !.eState = "OPEN", !.at = "idle", !.cache = cached]
<1>1. FileInv /\ Own(c) /\ pager[c] \in PagerSet /\ LockTypeOK
  BY DEF StoreInv, Own, Typed, WriterInv, AloneInv, LockInv
<1>2. FileInv' /\ Image' = Image /\ Durable' = Durable
  BY <1>1, FilesStay
<1>3. lock'[c] = NO_LOCK
  BY <1>1 DEF Unlocks, LockTypeOK
<1>4. pager'[c] = pg
  <2>1. Becomes(c, pg)
    BY DEF Unlocks, Unlocked
  <2> HIDE DEF pg, Becomes
  <2> QED
    BY <2>1, BecomesIs
<1>5. /\ n \in PagerSet /\ n.op = "none" /\ n.cache = pager[c].cache
      /\ n.dbFileVers = pager[c].dbFileVers /\ n.hasHeldSharedLock = pager[c].hasHeldSharedLock
      /\ n.inJournal = {} /\ n.dirty = {} /\ n.needSync = {}
  BY <1>1, NoTransactionIs
<1> HIDE DEF n
<1>6. NoPages \in [Pages -> Nat] /\ \A p \in Pages : NoPages[p] = 0
  BY Numbers DEF NoPages
<1>7. /\ cached \in [Pages -> Nat]
      /\ cached \in {NoPages, pager[c].cache} /\ (pager[c].eState = "ERROR" => cached = NoPages)
  BY <1>1, <1>5, <1>6 DEF PagerSet
<1> HIDE DEF cached
<1>8. /\ pager'[c] \in PagerSet /\ pager'[c].eState = "OPEN" /\ pager'[c].at = "idle" /\ pager'[c].op = "none"
      /\ pager'[c].cache = cached /\ pager'[c].dbFileVers = pager[c].dbFileVers
      /\ pager'[c].hasHeldSharedLock = pager[c].hasHeldSharedLock
      /\ pager'[c].inJournal = {} /\ pager'[c].dirty = {} /\ pager'[c].needSync = {}
  <2>1. n \in PagerSet /\ cached \in [Pages -> Nat]
    BY <1>5, <1>7
  <2>2. pg \in PagerSet
    BY ONLY <2>1, Names DEF PagerSet
  <2>3. /\ pg.eState = "OPEN" /\ pg.at = "idle" /\ pg.op = n.op /\ pg.cache = cached
        /\ pg.dbFileVers = n.dbFileVers /\ pg.hasHeldSharedLock = n.hasHeldSharedLock
        /\ pg.inJournal = n.inJournal /\ pg.dirty = n.dirty /\ pg.needSync = n.needSync
    BY ONLY <2>1 DEF PagerSet
  <2> HIDE DEF pg
  <2> QED
    BY <1>4, <1>5, <2>2, <2>3
<1>9. Typed(c)' /\ Unused(c)'
  <2>1. txns \in Nat
    BY <1>1, FileParts
  <2> QED
    BY <1>1, <1>6, <1>7, <1>8, <2>1 DEF Own, Typed, Unused
<1>10. Unheld(c)' /\ Valid(c)'
  <2>1. CASE pager[c].eState = "OPEN"
    BY <1>1, <1>2, <1>6, <1>7, <1>8, <2>1 DEF Own, Reads, Unheld, Valid, Beyond
  <2>2. CASE pager[c].eState = "READER"
    <3>1. pager[c].hasHeldSharedLock /\ Clean(c)
      BY <1>1, <2>2 DEF Own, Reads, Reading
    <3> QED
      BY <1>2, <1>6, <1>7, <1>8, <3>1 DEF Clean, Unheld, Valid, Beyond
  <2>3. CASE pager[c].eState = "ERROR"
    BY <1>6, <1>7, <1>8, <2>3 DEF Unheld, Valid, Beyond
  <2> QED
    BY <2>1, <2>2, <2>3
<1>11. ~Calming(c)' /\ Undoes(c)'
  BY <1>3, <1>8 DEF Calming, Undoes, Writers, NO_LOCK, RESERVED_LOCK, PENDING_LOCK
<1>12. Own(c)'
  BY <1>8, <1>9, <1>10, <1>11, OpenerOwn
<1>13. Sees(c)
  BY <1>8 DEF Sees, Begun, Transacting, Logged, Modifying
<1> QED
  BY <1>2, <1>12, <1>13 DEF Advances, Elsewhere, Settles

\* What is asked of a transaction that has a journal.
LEMMA LoggedOwn ==
    ASSUME NEW c \in Conns, Typed(c)', pager'[c].eState \in Modifying, lock'[c] \in Owners,
           pager'[c].at \in Places \ (Opens \cup {"unlock"}),
           pager'[c].at \in {"idle", "exclusive"} => pager'[c].op # "rollback",
           pager'[c].at = "exclusive" => pager'[c].op # "begin",
           pager'[c].at \in {"syncRecords", "writeHeader", "syncHeader"} => pager'[c].op \in {"spill", "commit"},
           pager'[c].at = "mustRollback" => pager'[c].op \in {"none", "commit"},
           pager'[c].at = "writePages" => pager'[c].op \in {"spill", "commit", "rollback"},
           pager'[c].at = "syncFile" => pager'[c].op \in {"commit", "rollback"},
           pager'[c].at = "finalize" => pager'[c].op = "rollback",
           pager'[c].at # "deleteStray",
           pager'[c].hasHeldSharedLock, First(c)',
           lock'[c] \in Writers => Calm',
           pager'[c].eState = "WRITER_CACHEMOD" => file' = Image',
           Works(c)', Undoes(c)'
    PROVE  Own(c)' /\ Begun(c)'
<1>1. pager'[c].eState \in {"WRITER_CACHEMOD", "WRITER_DBMOD"} /\ lock'[c] # NO_LOCK
  BY LockNames DEF Modifying
<1>2. Begun(c)' /\ ~Reading(c)' /\ pager'[c].at # "validate" /\ pager'[c].at # "stray"
  BY <1>1 DEF Begun, Reading, Transacting, Logged, Modifying, Opens, Beginning
<1>3. Stands(c)'
  BY <1>1, <1>2 DEF Stands, Modifying
<1>4. Reads(c)'
  BY <1>1, <1>2 DEF Reads, Calming, Logged, Modifying
<1> QED
  BY <1>2, <1>3, <1>4 DEF Own

\* What is asked of a pager that failed.
LEMMA ErrorOwn ==
    ASSUME NEW c \in Conns, Typed(c)', pager'[c].eState = "ERROR", pager'[c].at \in {"idle", "unlock"},
           lock'[c] # NO_LOCK, lock'[c] \in Writers => Calm'
    PROVE  Own(c)' /\ ~Begun(c)'
<1>1. ~Begun(c)' /\ ~Inside(c)' /\ ~Reading(c)'
  BY DEF Begun, Inside, Reading, Transacting, Logged, Modifying
<1>2. Stands(c)'
  BY <1>1 DEF Stands, Modifying
<1>3. Reads(c)'
  BY <1>1 DEF Reads, Calming
<1>4. Works(c)' /\ Undoes(c)'
  BY <1>1 DEF Works, Undoes
<1> QED
  BY <1>1, <1>2, <1>3, <1>4 DEF Own

LEMMA EndReadAdvances ==
    ASSUME WriterInv, StoreInv, NEW c \in Conns, EndRead(c) \/ ErrorUnlock(c) PROVE Advances(c)
  BY UnlocksAdvances DEF EndRead, ErrorUnlock

\* What a step that only sets to work, or stops, leaves of a transaction.
SamePages(c) ==
    /\ pager'[c].cache = pager[c].cache /\ pager'[c].dbFileVers = pager[c].dbFileVers
    /\ pager'[c].hasHeldSharedLock = pager[c].hasHeldSharedLock
    /\ pager'[c].dbSize = pager[c].dbSize /\ pager'[c].dbOrigSize = pager[c].dbOrigSize
    /\ pager'[c].inJournal = pager[c].inJournal /\ pager'[c].dirty = pager[c].dirty
    /\ pager'[c].needSync = pager[c].needSync /\ pager'[c].synced = pager[c].synced
    /\ pager'[c].txn = pager[c].txn

LEMMA WorkKept ==
    ASSUME NEW c, SamePages(c), Image' = Image, UNCHANGED <<files, txns>>
    PROVE  /\ Changed(c)' = Changed(c) /\ \A p : New(c, p)' = New(c, p)
           /\ First(c)' <=> First(c)
           /\ Journaled(c)' <=> Journaled(c)
           /\ Unsecured(c)' <=> Unsecured(c)
           /\ Secured(c)' <=> Secured(c)
           /\ Edited(c)' <=> Edited(c)
           /\ Matching(c)' <=> Matching(c)
           /\ Counted(c)' <=> Counted(c)
           /\ Counting(c)' <=> Counting(c)
           /\ OpenEnd(c)' <=> OpenEnd(c)
           /\ OpenSynced(c)' <=> OpenSynced(c)
           /\ Last' = Last
           /\ Calm' <=> Calm
<1>1. Changed(c)' = Changed(c)
  BY DEF SamePages, Changed
<1>2. \A p : New(c, p)' = New(c, p)
  BY <1>1 DEF SamePages, New
<1>3. \A p : Protected(p)' <=> Protected(p)
  BY DEF Protected
<1>4. /\ First(c)' <=> First(c)
      /\ Journaled(c)' <=> Journaled(c)
      /\ Unsecured(c)' <=> Unsecured(c)
      /\ Calm' <=> Calm
  BY DEF SamePages, First, Calm, Journaled, Unsecured
<1>5. /\ Secured(c)' <=> Secured(c)
      /\ Matching(c)' <=> Matching(c)
      /\ Edited(c)' <=> Edited(c)
  BY <1>1, <1>2, <1>3 DEF SamePages, Secured, Matching, Edited
<1>6. /\ OpenEnd(c)' <=> OpenEnd(c)
      /\ OpenSynced(c)' <=> OpenSynced(c)
      /\ Counted(c)' <=> Counted(c)
      /\ Counting(c)' <=> Counting(c)
      /\ Last' = Last
  BY <1>1 DEF SamePages, OpenEnd, OpenSynced, Counted, Counting, Last
<1> QED
  BY <1>1, <1>2, <1>4, <1>5, <1>6

\* What a transaction that has a journal may count on.
LEMMA LoggedParts ==
    ASSUME WriterInv, StoreInv, NEW c \in Conns, pager[c].eState \in Modifying, pager[c].at # "unlock"
    PROVE  /\ FileInv /\ Own(c) /\ Typed(c) /\ pager[c] \in PagerSet /\ Works(c)
           /\ Inside(c) /\ Begun(c) /\ lock[c] \in Owners /\ First(c) /\ pager[c].hasHeldSharedLock
           /\ Journaled(c)
           /\ pager[c].eState = "WRITER_CACHEMOD" => file = Image /\ Unsecured(c)
           /\ pager[c].eState = "WRITER_DBMOD" => Secured(c)
           /\ lock[c] \in Writers => Calm
           /\ txns \in Nat \ {0} /\ pager[c].txn = txns
<1>1. FileInv /\ Own(c) /\ Typed(c) /\ pager[c] \in PagerSet /\ Works(c) /\ Stands(c) /\ Reads(c)
  BY DEF StoreInv, Own, Typed
<1>2. Inside(c) /\ Begun(c)
  BY DEF Inside, Begun, Transacting, Logged
<1>3. lock[c] \in Owners /\ First(c) /\ pager[c].hasHeldSharedLock /\ Journaled(c)
  BY <1>1, <1>2 DEF Stands, Reads, Works, Modifying
<1>4. /\ pager[c].eState = "WRITER_CACHEMOD" => file = Image /\ Unsecured(c)
      /\ pager[c].eState = "WRITER_DBMOD" => Secured(c)
      /\ lock[c] \in Writers => Calm
  BY <1>1, <1>2 DEF Reads, Works, Calming
<1>5. txns \in Nat \ {0} /\ pager[c].txn = txns
  BY <1>1, <1>3 DEF FileInv, FileTypes, First
<1> QED
  BY <1>1, <1>2, <1>3, <1>4, <1>5

\* A step that only brings a page into the cache, or takes one out of it.
CacheOnly(c) ==
    /\ pager'[c].eState = pager[c].eState /\ pager'[c].at = pager[c].at /\ pager'[c].op = pager[c].op
    /\ pager'[c].dbFileVers = pager[c].dbFileVers
    /\ pager'[c].hasHeldSharedLock = pager[c].hasHeldSharedLock
    /\ pager'[c].dbSize = pager[c].dbSize /\ pager'[c].dbOrigSize = pager[c].dbOrigSize
    /\ pager'[c].inJournal = pager[c].inJournal /\ pager'[c].dirty = pager[c].dirty
    /\ pager'[c].needSync = pager[c].needSync /\ pager'[c].synced = pager[c].synced
    /\ pager'[c].todo = pager[c].todo /\ pager'[c].txn = pager[c].txn

LEMMA CacheOnlyKept ==
    ASSUME NEW c \in Conns, CacheOnly(c), Image' = Image, UNCHANGED <<lock, files, txns>>
    PROVE  /\ Changed(c)' = Changed(c) /\ \A p : New(c, p)' = New(c, p)
           /\ Begun(c)' <=> Begun(c)
           /\ Inside(c)' <=> Inside(c)
           /\ Reading(c)' <=> Reading(c)
           /\ Calming(c)' <=> Calming(c)
           /\ Stands(c)' <=> Stands(c)
           /\ Unused(c)' <=> Unused(c)
           /\ Current(c)' <=> Current(c)
           /\ Resized(c)' <=> Resized(c)
           /\ First(c)' <=> First(c)
           /\ Unlogged(c)' <=> Unlogged(c)
           /\ Unsecured(c)' <=> Unsecured(c)
           /\ Secured(c)' <=> Secured(c)
           /\ Matching(c)' <=> Matching(c)
           /\ Counted(c)' <=> Counted(c)
           /\ Counting(c)' <=> Counting(c)
           /\ OpenEnd(c)' <=> OpenEnd(c)
           /\ OpenSynced(c)' <=> OpenSynced(c)
           /\ Calm' <=> Calm
<1>1. Changed(c)' = Changed(c)
  BY DEF CacheOnly, Changed
<1>2. \A p : New(c, p)' = New(c, p)
  BY <1>1 DEF CacheOnly, New
<1>3. \A p : Protected(p)' <=> Protected(p)
  BY DEF Protected
<1>4. /\ Begun(c)' <=> Begun(c)
      /\ Inside(c)' <=> Inside(c)
      /\ Reading(c)' <=> Reading(c)
      /\ Calming(c)' <=> Calming(c)
  BY DEF CacheOnly, Begun, Inside, Reading, Calming
<1>5. Stands(c)' <=> Stands(c)
  BY <1>4 DEF CacheOnly, Stands
<1>6. /\ Unused(c)' <=> Unused(c)
      /\ Current(c)' <=> Current(c)
      /\ Resized(c)' <=> Resized(c)
      /\ First(c)' <=> First(c)
      /\ Unlogged(c)' <=> Unlogged(c)
      /\ Unsecured(c)' <=> Unsecured(c)
      /\ Calm' <=> Calm
  BY DEF CacheOnly, Unused, Current, Resized, First, Unlogged, Unsecured, Calm
<1>7. /\ Secured(c)' <=> Secured(c)
      /\ Matching(c)' <=> Matching(c)
      /\ Counted(c)' <=> Counted(c)
      /\ Counting(c)' <=> Counting(c)
  BY <1>1, <1>2, <1>3 DEF CacheOnly, Secured, Matching, Counted, Counting
<1>8. /\ OpenEnd(c)' <=> OpenEnd(c)
      /\ OpenSynced(c)' <=> OpenSynced(c)
  BY DEF CacheOnly, OpenEnd, OpenSynced, Last
<1> QED
  BY <1>1, <1>2, <1>4, <1>5, <1>6, <1>7, <1>8

\* What is read, by a reader or a writer, is in the file what it should be in the cache.
LEMMA PageIsRead ==
    ASSUME WriterInv, StoreInv, NEW c \in Conns, NEW p \in Pages, Get(c, p)
    PROVE  /\ pager[c].eState \in Modifying => p \notin pager[c].dirty /\ file[p] = New(c, p)
           /\ pager[c].eState \notin Modifying => file[p] = Image[p]
<1>1. pager[c].at = "idle" /\ pager[c].cache[p] = Beyond /\ Own(c)
      /\ pager[c].eState \in {"READER", "WRITER_LOCKED", "WRITER_CACHEMOD", "WRITER_DBMOD"}
  BY DEF Get, InUse, Writing, StoreInv, Own
<1>2. CASE pager[c].eState \in Modifying
  <2>1. Works(c) /\ Inside(c) /\ pager[c].txn = txns /\ txns \in Nat \ {0}
    BY <1>1, <1>2, LoggedParts
  <2>2. Edited(c) /\ Matching(c)
    BY <1>1, <1>2, <2>1 DEF Own, Stands, Works
  <2>3. p \notin pager[c].dirty
    BY <1>1, <2>1, <2>2 DEF Edited, Beyond
  <2> QED
    BY <1>2, <2>2, <2>3 DEF Matching
<1>3. CASE pager[c].eState \notin Modifying
  BY <1>1, <1>3 DEF Modifying, Own, Reads, Calming, Calm
<1> QED
  BY <1>2, <1>3

LEMMA PagingAdvances ==
    ASSUME WriterInv, StoreInv, NEW c \in Conns, NEW p \in Pages, Get(c, p) \/ Recycle(c, p)
    PROVE  Advances(c)
<1> DEFINE x == IF Get(c, p) THEN file[p] ELSE Beyond
           cached == [pager[c].cache EXCEPT ![p] = x]
           pg == [pager[c] EXCEPT !.cache = cached]
<1>1. FileInv /\ Own(c) /\ pager[c] \in PagerSet /\ Typed(c) /\ Stands(c) /\ Reads(c) /\ Works(c)
  BY DEF StoreInv, Own, Typed
<1>2. /\ UNCHANGED <<lock, files, txns>> /\ pager[c].at = "idle"
      /\ pager[c].eState \in {"READER", "WRITER_LOCKED", "WRITER_CACHEMOD", "WRITER_DBMOD"}
  BY DEF Get, Recycle, InUse, Writing
<1>3. FileInv' /\ Image' = Image /\ Durable' = Durable
  BY <1>1, <1>2, FilesStay
<1>4. pager'[c] = pg
  <2>1. Becomes(c, pg)
    BY DEF Get, Recycle
  <2> HIDE DEF pg, Becomes
  <2> QED
    BY <2>1, BecomesIs
<1>5. Image \in [Pages -> 0..txns] /\ txns \in Nat
  BY <1>1, FileParts
<1>6. /\ pager[c].eState \in Modifying => p \notin pager[c].dirty /\ x \in {Beyond, New(c, p)}
      /\ pager[c].eState \notin Modifying => x \in {Beyond, Image[p]}
      /\ p = 1 => pager[c].cache[1] = Beyond
  <2>1. CASE Get(c, p)
    BY <2>1, PageIsRead DEF Get
  <2>2. CASE ~Get(c, p)
    BY <2>2 DEF Recycle
  <2> QED
    BY <2>1, <2>2
<1>7. x \in 0..txns
  <2>1. pager[c].eState \in Modifying => pager[c].txn = txns
    BY <1>2, LoggedParts DEF Inside, Logged, Modifying
  <2> QED
    BY <1>5, <1>6, <2>1 DEF New, Beyond
<1> HIDE DEF x
<1>8. /\ cached \in [Pages -> Nat]
      /\ \A q \in Pages : cached[q] = IF q = p THEN x ELSE pager[c].cache[q]
  BY <1>1, <1>5, <1>7 DEF PagerSet
<1> HIDE DEF cached
<1>9. pager'[c] \in PagerSet /\ CacheOnly(c) /\ pager'[c].cache = cached
  <2>1. pg \in PagerSet
    BY ONLY <1>1, <1>8 DEF PagerSet
  <2> QED
    BY <1>1, <1>4, <2>1 DEF PagerSet, CacheOnly
<1> HIDE DEF pg
<1>10. Typed(c)'
  BY <1>1, <1>2, <1>7, <1>8, <1>9 DEF Typed, CacheOnly
<1>11. Stands(c)' /\ Undoes(c)'
  BY <1>1, <1>2, <1>3, <1>9, CacheOnlyKept DEF Undoes, CacheOnly
<1>12. Reads(c)'
  <2>1. Reading(c) => Clean(c)'
    BY <1>1, <1>2, <1>3, <1>6, <1>8, <1>9 DEF Reads, Reading, Clean, Modifying
  <2> QED
    BY <1>1, <1>2, <1>3, <1>9, <2>1, CacheOnlyKept DEF Reads, CacheOnly
<1>13. Works(c)'
  <2> SUFFICES ASSUME Inside(c) PROVE Works(c)'
    BY <1>2, <1>3, <1>9, CacheOnlyKept DEF Works
  <2>1. pager[c].eState \in Modifying
    BY <1>2 DEF Inside, Logged
  <2>2. Journaled(c)'
    <3>1. Journaled(c)
      BY <1>1 DEF Works
    <3>2. pager[c].dbFileVers # Image[1] => pager'[c].cache[1] # Beyond
      BY <1>6, <1>8, <1>9, <3>1, Numbers DEF Journaled
    <3> QED
      BY <1>2, <1>3, <1>9, <3>1, <3>2 DEF Journaled, CacheOnly
  <2>3. Edited(c)'
    <3>1. Edited(c)
      BY <1>1, <1>2, <2>1 DEF Works, Stands
    <3>2. /\ Changed(c)' = Changed(c) /\ \A q : New(c, q)' = New(c, q)
          /\ pager'[c].dirty = pager[c].dirty /\ pager'[c].txn = pager[c].txn
      BY <1>2, <1>3, <1>9, CacheOnlyKept DEF CacheOnly
    <3>3. \A q \in Pages : pager'[c].cache[q] \in {Beyond, New(c, q)'}
      BY <1>6, <1>8, <1>9, <2>1, <3>1, <3>2 DEF Edited
    <3>4. \A q \in pager[c].dirty : pager'[c].cache[q] = pager[c].txn
      BY <1>1, <1>6, <1>8, <1>9, <2>1, <3>1 DEF Edited, PagerSet
    <3> QED
      BY <3>1, <3>2, <3>3, <3>4 DEF Edited
  <2> QED
    BY <1>1, <1>2, <1>3, <1>9, <2>2, <2>3, CacheOnlyKept DEF Works, Stands, CacheOnly, Modifying
<1>14. Own(c)'
  BY <1>10, <1>11, <1>12, <1>13 DEF Own
<1>15. Sees(c)
  BY <1>2, <1>3, <1>9, CacheOnlyKept DEF Sees, CacheOnly
<1> QED
  BY <1>2, <1>3, <1>14, <1>15 DEF Advances, Elsewhere, Settles

LEMMA BusyAdvances ==
    ASSUME WriterInv, StoreInv, NEW c \in Conns, Busy(c) PROVE Advances(c)
<1>1. pager[c].at = "exclusive" /\ UNCHANGED <<files, txns>> /\ Placed(pager[c]) /\ Stands(c)
  BY DEF Busy, WriterInv, StoreInv, Own
<1>2. CASE pager[c].op \in {"hot", "begin"}
  <2>1. Unlocks(c) /\ pager[c].eState \in {"OPEN", "READER", "ERROR"}
    <3> HIDE DEF Unlocks
    <3> QED
      BY <1>1, <1>2 DEF Busy, Placed, Stands
  <2> QED
    BY <1>1, <2>1, UnlocksAdvances
<1>3. CASE pager[c].op \notin {"hot", "begin"}
  <2> DEFINE pg == [pager[c] EXCEPT !.at = "idle", !.op = "none", !.todo = {}]
  <2>1. Becomes(c, pg) /\ UNCHANGED lock
    BY <1>3 DEF Busy
  <2>2. pager[c].op \in {"spill", "commit"} /\ pager[c].eState \in Modifying
    BY <1>1, <1>3 DEF Placed
  <2>3. /\ FileInv /\ Own(c) /\ Typed(c) /\ pager[c] \in PagerSet /\ Works(c)
        /\ Inside(c) /\ lock[c] \in Owners /\ First(c) /\ pager[c].hasHeldSharedLock
        /\ pager[c].eState = "WRITER_CACHEMOD" => file = Image
        /\ lock[c] \in Writers => Calm
    BY <1>1, <2>2, LoggedParts
  <2>4. FileInv' /\ Image' = Image /\ Durable' = Durable
    BY <1>1, <2>3, FilesStay
  <2>5. pager'[c] = pg
    <3> HIDE DEF pg, Becomes
    <3> QED
      BY <2>1, BecomesIs
  <2>6. /\ pager'[c] \in PagerSet /\ SamePages(c) /\ pager'[c].eState = pager[c].eState
        /\ pager'[c].at = "idle" /\ pager'[c].op = "none"
    <3>1. {} \in SUBSET RecordSet /\ "idle" \in Places /\ "none" \in Ops
      BY Names
    <3>2. pager'[c] = [pager[c] EXCEPT !.at = "idle", !.op = "none", !.todo = {}] /\ pager[c] \in PagerSet
      BY <2>3, <2>5
    <3>3. pager'[c] \in PagerSet
      BY ONLY <3>1, <3>2 DEF PagerSet
    <3> QED
      BY <3>2, <3>3 DEF PagerSet, SamePages
  <2> HIDE DEF pg
  <2>7. Typed(c)'
    BY <1>1, <2>3, <2>6 DEF Typed, SamePages
  <2>8. Works(c)'
    <3>1. /\ Journaled(c)
          /\ pager[c].eState = "WRITER_CACHEMOD" => Unsecured(c)
          /\ pager[c].eState = "WRITER_DBMOD" => Secured(c)
          /\ Edited(c) /\ Matching(c) /\ OpenEnd(c)
          /\ pager[c].eState = "WRITER_DBMOD" => OpenSynced(c)
      BY <1>1, <2>2, <2>3 DEF Works
    <3> QED
      BY <1>1, <2>4, <2>6, <3>1, WorkKept DEF Works
  <2>9. Undoes(c)'
    BY <2>6 DEF Undoes
  <2>10. Own(c)' /\ Begun(c)'
    <3>1. First(c)' /\ (lock'[c] \in Writers => Calm') /\ pager'[c].hasHeldSharedLock
      BY <1>1, <2>1, <2>3, <2>4, <2>6, WorkKept DEF SamePages
    <3>2. "idle" \in Places \ (Opens \cup {"unlock"})
      BY DEF Places, Opens, Beginning
    <3>3. pager'[c].eState = "WRITER_CACHEMOD" => file' = Image'
      BY <1>1, <2>3, <2>4, <2>6
    <3> QED
      BY <2>1, <2>2, <2>3, <2>6, <2>7, <2>8, <2>9, <3>1, <3>2, <3>3, LoggedOwn
  <2>11. Sees(c)
    <3>1. Begun(c)
      BY <1>1, <2>2, LoggedParts
    <3> QED
      BY <1>1, <2>6, <3>1 DEF Sees, SamePages
  <2> QED
    BY <1>1, <2>4, <2>10, <2>11 DEF Advances, Elsewhere, Settles
<1> QED
  BY <1>2, <1>3

LEMMA TakePendingAdvances ==
    ASSUME WriterInv, StoreInv, NEW c \in Conns, TakePending(c) PROVE Advances(c)
<1>1. /\ pager[c].at = "exclusive" /\ UNCHANGED <<files, txns, pager>> /\ Placed(pager[c])
      /\ Own(c) /\ FileInv
  BY DEF TakePending, WriterInv, StoreInv
<1>2. lock'[c] = IF pager[c].op = "hot" THEN RECOVERY_LOCK ELSE PENDING_LOCK
  BY LocksAreLocks, ObtainIsLocal DEF TakePending, Wait, WriterInv, AloneInv
<1>3. pager[c].op # "hot" => lock[c] \in Writers
  BY DEF TakePending, Wait, Obtain, MayObtain, LeadsTo, Writers, NO_LOCK, SHARED_LOCK, RESERVED_LOCK,
         PENDING_LOCK, EXCLUSIVE_LOCK, RECOVERY_LOCK
<1>4. /\ lock'[c] # NO_LOCK
      /\ lock'[c] \in Writers => pager[c].op # "hot"
      /\ pager[c].op # "hot" => lock'[c] \in Owners
  BY <1>2, LockNames DEF NO_LOCK, RESERVED_LOCK, RECOVERY_LOCK, PENDING_LOCK, Writers
<1>5. FileInv' /\ Image' = Image /\ Durable' = Durable
  BY <1>1, FilesStay
<1>6. SameData(c)
  BY <1>1 DEF SameData
<1>7. Begun(c) => pager[c].op # "hot"
  BY <1>1 DEF Begun, Placed, Transacting, Logged, Modifying
<1>8. Typed(c)' /\ Stands(c)'
  BY <1>1, <1>4, <1>7 DEF Own, Typed, Stands, Begun
<1>9. Calming(c)' => Calming(c)
  BY <1>1, <1>3, <1>4 DEF Calming
<1>10. Reads(c)'
  BY <1>1, <1>5, <1>6, <1>9, DataKept, ImageDataKept, FileDataKept DEF Own, Reads, Reading, Begun
<1>11. Works(c)'
  BY <1>1, <1>5, <1>6, DataKept, ImageDataKept, FileDataKept DEF Own, Works, Inside
<1>12. Undoes(c)'
  BY <1>1 DEF Undoes
<1> QED
  BY <1>1, <1>5, <1>8, <1>10, <1>11, <1>12 DEF Advances, Own, Elsewhere, Sees, Begun, Settles

LEMMA TakeExclusiveAdvances ==
    ASSUME WriterInv, StoreInv, NEW c \in Conns, TakeExclusive(c) PROVE Advances(c)
<1>1. /\ pager[c].at = "exclusive" /\ UNCHANGED <<files, txns>> /\ Placed(pager[c])
      /\ Own(c) /\ FileInv /\ pager[c] \in PagerSet /\ Stands(c) /\ Reads(c)
  BY DEF TakeExclusive, WriterInv, StoreInv, Own, Typed
<1>2. lock'[c] = EXCLUSIVE_LOCK
  BY LocksAreLocks, ObtainIsLocal DEF TakeExclusive, WriterInv, AloneInv
<1>3. lock'[c] # NO_LOCK /\ lock'[c] \notin Writers /\ lock'[c] \in Owners
  BY <1>2, LockNames DEF NO_LOCK, RESERVED_LOCK, EXCLUSIVE_LOCK, PENDING_LOCK, Writers
<1>4. FileInv' /\ Image' = Image /\ Durable' = Durable
  BY <1>1, FilesStay
<1> DEFINE pg == [pager[c] EXCEPT !.at = Onward(pager[c].op)]
           begun == [pg EXCEPT !.eState = "WRITER_LOCKED", !.op = "none"]
<1>5. pg.op = pager[c].op /\ Becomes(c, IF pg.op = "begin" THEN begun ELSE pg)
  BY <1>1 DEF TakeExclusive, Resume, PagerSet
<1>6. CASE pager[c].op = "hot"
  <2>1. Onward(pager[c].op) = "openJournal" /\ pager[c].eState = "OPEN"
    BY <1>1, <1>6 DEF Onward, Placed
  <2>2. pager'[c] = pg
    <3>1. Becomes(c, pg)
      BY <1>5, <1>6
    <3> HIDE DEF pg, Becomes
    <3> QED
      BY <3>1, BecomesIs
  <2>3. Control(c, "OPEN", "openJournal", "hot")
    BY <1>1, <1>6, <2>1, <2>2, Names DEF Control, SameData, PagerSet
  <2>4. "openJournal" \in Beginning
    BY DEF Beginning
  <2> QED
    BY <1>1, <1>3, <2>1, <2>3, <2>4, OpenAdvances
<1>7. CASE pager[c].op = "begin"
  <2>1. Onward(pager[c].op) = "idle" /\ pager[c].eState = "READER"
    BY <1>1, <1>7 DEF Onward, Stands
  <2>2. pager'[c] = begun
    <3>1. Becomes(c, begun)
      BY <1>5, <1>7
    <3> HIDE DEF begun, Becomes
    <3> QED
      BY <3>1, BecomesIs
  <2>3. Control(c, "WRITER_LOCKED", "idle", "none")
    <3>1. pager'[c] = [pager[c] EXCEPT !.at = "idle", !.eState = "WRITER_LOCKED", !.op = "none"]
      BY <2>1, <2>2
    <3>2. pager'[c] \in PagerSet
      BY <1>1, <3>1, Names DEF PagerSet
    <3> QED
      BY <1>1, <3>1, <3>2 DEF Control, SameData, PagerSet
  <2> HIDE DEF begun
  <2>4. /\ Calm /\ pager[c].hasHeldSharedLock /\ Current(c) /\ Clean(c) /\ Unused(c)
        /\ First(c) /\ Unlogged(c) /\ Resized(c)
    BY <1>1, <1>7, <2>1 DEF Reads, Calming, Reading, Begun, Logged, Modifying
  <2>5. /\ Calm' /\ pager'[c].hasHeldSharedLock /\ Current(c)' /\ Clean(c)' /\ Unused(c)'
        /\ First(c)' /\ Unlogged(c)' /\ Resized(c)'
    BY <1>1, <1>4, <2>3, <2>4, DataKept, ImageDataKept, FileDataKept DEF Control, SameData
  <2>6. ~Inside(c)' /\ Begun(c)'
    BY <2>3 DEF Control, Inside, Begun, Transacting, Logged, Modifying
  <2>7. Typed(c)' /\ Stands(c)'
    BY <1>1, <1>3, <2>3, StillTyped DEF Control, Stands, Modifying
  <2>8. Reads(c)'
    BY <2>3, <2>5 DEF Reads, Control
  <2>9. Works(c)' /\ Undoes(c)'
    BY <2>3, <2>6 DEF Works, Undoes, Control
  <2>10. Begun(c)
    BY <1>1, <1>7 DEF Begun
  <2> QED
    BY <1>1, <1>4, <2>3, <2>7, <2>8, <2>9, <2>10
       DEF Advances, Own, Elsewhere, Sees, Control, SameData, Settles
<1>8. CASE pager[c].op \in {"spill", "commit"}
  <2>1. Onward(pager[c].op) = "syncRecords" /\ pager[c].eState \in Modifying
    BY <1>1, <1>8 DEF Onward, Placed
  <2>2. pager'[c] = pg
    <3>1. Becomes(c, pg)
      BY <1>5, <1>8
    <3> HIDE DEF pg, Becomes
    <3> QED
      BY <3>1, BecomesIs
  <2>3. Control(c, pager[c].eState, "syncRecords", pager[c].op)
    BY <1>1, <2>1, <2>2, Names DEF Control, SameData, PagerSet
  <2> HIDE DEF pg
  <2>4. /\ Works(c) /\ Inside(c) /\ Begun(c) /\ First(c) /\ pager[c].hasHeldSharedLock
        /\ pager[c].eState = "WRITER_CACHEMOD" => file = Image
    BY <1>1, <2>1, LoggedParts
  <2>5. Typed(c)'
    BY <1>1, <2>3, StillTyped DEF Control
  <2>6. Works(c)'
    BY <1>1, <1>4, <1>8, <2>3, <2>4, DataKept, ImageDataKept, FileDataKept DEF Works, Control
  <2>7. Undoes(c)'
    BY <1>8, <2>3 DEF Undoes, Control
  <2>8. Own(c)' /\ Begun(c)'
    <3>1. First(c)' /\ pager'[c].hasHeldSharedLock
      BY <1>1, <1>4, <2>3, <2>4, FileDataKept DEF Control, SameData
    <3>2. "syncRecords" \in Places \ (Opens \cup {"unlock"})
      BY Names DEF Opens, Beginning
    <3>3. pager'[c].eState = "WRITER_CACHEMOD" => file' = Image'
      BY <1>1, <1>4, <2>3, <2>4 DEF Control
    <3> QED
      BY <1>3, <1>8, <2>1, <2>3, <2>5, <2>6, <2>7, <3>1, <3>2, <3>3, LoggedOwn DEF Control
  <2> QED
    BY <1>1, <1>4, <2>3, <2>4, <2>8 DEF Advances, Elsewhere, Sees, Control, SameData, Settles
<1> QED
  BY <1>1, <1>6, <1>7, <1>8 DEF Placed

\* Another transaction begins, and the files may name it.
LEMMA TransactionCounted ==
    ASSUME FileInv, UNCHANGED files, txns' = txns + 1, txns < MaxTransactions
    PROVE  FileInv' /\ Image' = Image /\ Durable' = Durable
<1>1. FileTypes /\ txns \in Nat /\ txns' \in 1..MaxTransactions /\ 0..txns \subseteq 0..txns'
  BY Numbers DEF FileInv, FileTypes
<1>2. Image' = Image /\ Durable' = Durable
  BY DEF Image, Durable
<1>3. FileTypes'
  <2>1. journal.txn \in Nat /\ jdisk.txn \in Nat
    BY <1>1, JournalParts DEF FileTypes
  <2>2. journal.txn <= txns' /\ jdisk.txn <= txns'
    BY <1>1, <2>1 DEF FileTypes
  <2> QED
    BY <1>1, <2>2 DEF FileTypes
<1>4. Hot' <=> Hot
  BY <1>2 DEF Hot, Same, Backed, Protected
<1>5. Quiet' <=> Quiet
  BY DEF Quiet, Same
<1>6. Ready'
  BY <1>2 DEF FileInv, Ready
<1>7. IsImage(Image)' /\ IsImage(Durable)'
  <2>1. \A img \in [Pages -> 0..txns] : img \in [Pages -> 0..txns']
    BY <1>1
  <2> QED
    BY <1>2, <2>1 DEF FileInv, IsImage
<1> QED
  BY <1>2, <1>3, <1>4, <1>5, <1>6, <1>7 DEF FileInv

LEMMA BeginAdvances ==
    ASSUME WriterInv, StoreInv, NEW c \in Conns, NEW exFlag \in BOOLEAN, Begin(c, exFlag)
    PROVE  Advances(c)
<1> DEFINE pg == [pager[c] EXCEPT !.dbOrigSize = pager[c].dbSize, !.txn = txns + 1]
           asks == [pg EXCEPT !.at = "exclusive", !.op = "begin"]
           locked == [pg EXCEPT !.eState = "WRITER_LOCKED"]
<1>1. /\ pager[c].eState = "READER" /\ pager[c].at = "idle" /\ pager[c].op = "none" /\ UNCHANGED files
      /\ txns' = txns + 1 /\ txns < MaxTransactions
      /\ FileInv /\ Own(c) /\ pager[c] \in PagerSet /\ Typed(c) /\ Reads(c)
  BY DEF Begin, StoreInv, Own, Typed, Stands
<1>2. lock'[c] = RESERVED_LOCK
  BY LocksAreLocks, ObtainIsLocal DEF Begin, WriterInv, AloneInv
<1>3. lock'[c] # NO_LOCK /\ lock'[c] \in Owners
  BY <1>2, LockNames DEF NO_LOCK, RESERVED_LOCK, Writers
<1>4. FileInv' /\ Image' = Image /\ Durable' = Durable
  BY <1>1, TransactionCounted
<1>5. /\ Calm /\ pager[c].hasHeldSharedLock /\ Current(c) /\ Clean(c) /\ Unused(c)
  BY <1>1 DEF Reads, Calming, Reading
<1>6. /\ pager'[c] = asks \/ pager'[c] = locked
  <2>1. Becomes(c, asks) \/ Becomes(c, locked)
    <3> HIDE DEF Becomes
    <3> QED
      BY DEF Begin
  <2> HIDE DEF asks, locked, Becomes
  <2> QED
    BY <2>1, BecomesIs
<1>7. txns \in Nat /\ txns + 1 \in Nat /\ pager[c].dbSize \in 0..MaxPages
  BY <1>1, FileParts DEF PagerSet
<1>8. /\ pager'[c] \in PagerSet /\ pager'[c].txn = txns + 1 /\ pager'[c].dbOrigSize = pager[c].dbSize
      /\ pager'[c].dbSize = pager[c].dbSize /\ pager'[c].cache = pager[c].cache
      /\ pager'[c].dbFileVers = pager[c].dbFileVers /\ pager'[c].hasHeldSharedLock = pager[c].hasHeldSharedLock
      /\ pager'[c].inJournal = pager[c].inJournal /\ pager'[c].dirty = pager[c].dirty
      /\ pager'[c].needSync = pager[c].needSync
      /\ \/ pager'[c].eState = "READER" /\ pager'[c].at = "exclusive" /\ pager'[c].op = "begin"
         \/ pager'[c].eState = "WRITER_LOCKED" /\ pager'[c].at = "idle" /\ pager'[c].op = "none"
  <2>1. CASE pager'[c] = asks
    <3>1. pager'[c] = [pager[c] EXCEPT !.dbOrigSize = pager[c].dbSize, !.txn = txns + 1, !.at = "exclusive",
                                       !.op = "begin"]
      BY <2>1
    <3>2. pager'[c] \in PagerSet
      BY <1>1, <1>7, <3>1, Names DEF PagerSet
    <3> QED
      BY <1>1, <3>1, <3>2 DEF PagerSet
  <2>2. CASE pager'[c] = locked
    <3>1. pager'[c] = [pager[c] EXCEPT !.dbOrigSize = pager[c].dbSize, !.txn = txns + 1,
                                       !.eState = "WRITER_LOCKED"]
      BY <2>2
    <3>2. pager'[c] \in PagerSet
      BY <1>1, <1>7, <3>1, Names DEF PagerSet
    <3> QED
      BY <1>1, <3>1, <3>2 DEF PagerSet
  <2> QED
    BY <1>6, <2>1, <2>2
<1> HIDE DEF pg, asks, locked
<1>9. Begun(c)' /\ ~Inside(c)' /\ pager'[c].eState \notin Logged
  BY <1>8 DEF Begun, Inside, Transacting, Logged, Modifying
<1>10. Typed(c)'
  <2>1. pager[c].dbFileVers \in Nat /\ \A p \in Pages : pager[c].cache[p] \in Nat
    BY <1>1 DEF PagerSet
  <2> QED
    BY <1>1, <1>7, <1>8, <2>1 DEF Typed
<1>11. Stands(c)'
  BY <1>3, <1>8, <1>9 DEF Stands, Modifying
<1>12. Calm' /\ Current(c)' /\ Clean(c)' /\ Unused(c)' /\ Resized(c)'
  BY <1>1, <1>4, <1>5, <1>8 DEF Calm, Current, Clean, Unused, Resized
<1>13. First(c)' /\ Unlogged(c)'
  <2>1. \A p \in Pages : Image[p] \in 0..txns
    BY <1>1, FileParts
  <2>2. pager[c].dbFileVers \in Nat /\ pager[c].dbFileVers <= txns
    BY <1>1 DEF Typed, PagerSet
  <2>3. jdisk.txn \in Nat /\ jdisk.txn <= txns
    BY <1>1, JournalParts DEF FileInv, FileTypes
  <2> QED
    BY <1>1, <1>4, <1>7, <1>8, <2>1, <2>2, <2>3 DEF First, Unlogged
<1>14. Reads(c)'
  BY <1>5, <1>8, <1>12, <1>13 DEF Reads
<1>15. Works(c)' /\ Undoes(c)'
  BY <1>8, <1>9 DEF Works, Undoes
<1> QED
  BY <1>1, <1>3, <1>4, <1>8, <1>10, <1>11, <1>14, <1>15 DEF Advances, Own, Elsewhere, Sees, Settles

LEMMA SpillAdvances ==
    ASSUME WriterInv, StoreInv, NEW c \in Conns, NEW p \in Pages, Spill(c, p)
    PROVE  Advances(c)
<1> DEFINE record == {Record(p, pager[c].cache[p])}
           place == IF p \in pager[c].needSync \/ pager[c].eState = "WRITER_CACHEMOD"
                    THEN BeginSync(c) ELSE "writePages"
           pg == [pager[c] EXCEPT !.op = "spill", !.todo = record, !.at = place]
<1>1. /\ pager[c].eState \in Modifying /\ pager[c].at = "idle" /\ p \in pager[c].dirty \ {1}
      /\ UNCHANGED <<lock, files, txns>>
  BY DEF Spill, Modifying
<1>2. /\ FileInv /\ Own(c) /\ Typed(c) /\ pager[c] \in PagerSet /\ Works(c) /\ Inside(c) /\ Begun(c)
      /\ lock[c] \in Owners /\ First(c) /\ pager[c].hasHeldSharedLock /\ Journaled(c)
      /\ pager[c].eState = "WRITER_CACHEMOD" => file = Image /\ Unsecured(c)
      /\ pager[c].eState = "WRITER_DBMOD" => Secured(c)
      /\ lock[c] \in Writers => Calm
      /\ txns \in Nat \ {0} /\ pager[c].txn = txns
  BY <1>1, LoggedParts
<1>3. FileInv' /\ Image' = Image /\ Durable' = Durable
  BY <1>1, <1>2, FilesStay
<1>4. /\ Edited(c) /\ Matching(c) /\ OpenEnd(c)
      /\ pager[c].eState = "WRITER_DBMOD" => OpenSynced(c)
  <2>1. pager[c].op # "rollback"
    BY <1>1, <1>2 DEF Own, Stands
  <2> QED
    BY <1>1, <1>2, <2>1 DEF Works
<1>5. pager'[c] = pg
  <2>1. Becomes(c, pg)
    BY DEF Spill
  <2> HIDE DEF pg, Becomes
  <2> QED
    BY <2>1, BecomesIs
<1>6. record = {Record(p, txns)} /\ record \in SUBSET RecordSet
  <2>1. pager[c].cache[p] = txns
    BY <1>1, <1>2, <1>4 DEF Edited
  <2>2. txns \in 0..Torn
    BY <1>2, FileParts, Numbers
  <2> QED
    BY <2>1, <2>2 DEF Record, RecordSet
<1>7. /\ place \in {"syncRecords", "exclusive", "writePages"}
      /\ place = "writePages" => p \notin pager[c].needSync /\ pager[c].eState = "WRITER_DBMOD"
      /\ place = "syncRecords" => lock[c] = EXCLUSIVE_LOCK
  BY <1>1 DEF BeginSync, Modifying
<1> HIDE DEF record, place
<1>8. /\ pager'[c] \in PagerSet /\ SamePages(c) /\ pager'[c].eState = pager[c].eState
      /\ pager'[c].at = place /\ pager'[c].op = "spill" /\ pager'[c].todo = record
  <2>1. place \in Places /\ "spill" \in Ops
    BY <1>7, Names
  <2>2. pager[c] \in PagerSet /\ record \in SUBSET RecordSet
    BY <1>2, <1>6
  <2>3. pager'[c] \in PagerSet
    BY ONLY <1>5, <2>1, <2>2 DEF PagerSet
  <2> QED
    BY <1>5, <2>2, <2>3 DEF PagerSet, SamePages
<1> HIDE DEF pg
<1>9. Typed(c)'
  BY <1>1, <1>2, <1>8 DEF Typed, SamePages
<1>10. Works(c)'
  <2>1. SpillTodo(c)'
    BY <1>1, <1>2, <1>6, <1>8 DEF SpillTodo, SamePages
  <2> QED
    BY <1>1, <1>2, <1>3, <1>4, <1>7, <1>8, <2>1, WorkKept DEF Works
<1>11. Undoes(c)'
  <2>1. CASE place = "writePages"
    <3>1. Secured(c) /\ p \in Changed(c) \ pager[c].needSync
      BY <1>1, <1>2, <1>4, <1>7, <2>1 DEF Edited
    <3>2. HasHeader(journal') /\ Protected(p)'
      BY <1>1, <3>1 DEF Secured, Protected
    <3>3. \A r \in pager'[c].todo : r.page = p /\ r.content = txns /\ r.content # Beyond
      BY <1>2, <1>6, <1>8, Numbers DEF Record
    <3>4. Writable(c)'
      BY <1>1, <1>2, <1>6, <1>8, <3>2, <3>3 DEF Writable
    <3> QED
      BY <1>8, <2>1, <3>4 DEF Undoes
  <2>2. CASE place # "writePages"
    BY <1>7, <1>8, <2>2 DEF Undoes
  <2> QED
    BY <2>1, <2>2
<1>12. Own(c)' /\ Begun(c)'
  <2>1. First(c)' /\ (lock'[c] \in Writers => Calm') /\ pager'[c].hasHeldSharedLock
    BY <1>1, <1>2, <1>3, <1>8, WorkKept DEF SamePages
  <2>2. place \in Places \ (Opens \cup {"unlock"})
    BY <1>7, Names DEF Opens, Beginning
  <2>3. pager'[c].eState = "WRITER_CACHEMOD" => file' = Image'
    BY <1>1, <1>2, <1>3, <1>8
  <2> QED
    BY <1>1, <1>2, <1>7, <1>8, <1>9, <1>10, <1>11, <2>1, <2>2, <2>3, LoggedOwn
<1> QED
  BY <1>1, <1>2, <1>3, <1>8, <1>12 DEF Advances, Elsewhere, Settles, Sees, SamePages

LEMMA EndUnwrittenAdvances ==
    ASSUME WriterInv, StoreInv, NEW c \in Conns, EndUnwritten(c) PROVE Advances(c)
<1>1. /\ pager[c].eState = "WRITER_LOCKED" /\ pager[c].at = "idle" /\ UNCHANGED <<lock, files, txns>>
      /\ FileInv /\ Own(c) /\ Reads(c) /\ lock[c] # NO_LOCK
  BY DEF EndUnwritten, StoreInv, Own, Stands
<1>2. FileInv' /\ Image' = Image /\ Durable' = Durable
  BY <1>1, FilesStay
<1>3. Control(c, "WRITER_LOCKED", "unlock", pager[c].op)
  BY <1>1, GoesControl, Names DEF EndUnwritten
<1>4. Calm /\ pager[c].hasHeldSharedLock /\ Current(c) /\ Clean(c) /\ Unused(c)
  BY <1>1 DEF Reads, Calming, Reading
<1>5. Calm' /\ pager'[c].hasHeldSharedLock /\ Current(c)' /\ Clean(c)' /\ Unused(c)'
  BY <1>1, <1>2, <1>3, <1>4, DataKept, ImageDataKept, FileDataKept DEF Control, SameData
<1>6. ~Inside(c)' /\ ~Begun(c)'
  BY <1>3 DEF Control, Inside, Begun, Transacting, Logged, Modifying
<1>7. Typed(c)' /\ Stands(c)'
  BY <1>1, <1>3, <1>6, StillTyped DEF Control, Stands, Modifying
<1>8. Reads(c)'
  BY <1>3, <1>5, <1>6 DEF Reads, Control
<1>9. Works(c)' /\ Undoes(c)'
  BY <1>3, <1>6 DEF Works, Undoes, Control
<1> QED
  BY <1>1, <1>2, <1>3, <1>6, <1>7, <1>8, <1>9 DEF Advances, Own, Elsewhere, Sees, Control, SameData, Settles

LEMMA UnlockAdvances ==
    ASSUME WriterInv, StoreInv, NEW c \in Conns, Unlock(c) PROVE Advances(c)
<1> DEFINE n == NoTransaction(pager[c])
           opens == [n EXCEPT !.at = "validate"]
           fails == [n EXCEPT !.at = "idle"]
           reads == [n EXCEPT !.at = "idle", !.eState = "READER"]
<1>1. /\ pager[c].at = "unlock" /\ UNCHANGED <<files, txns>>
      /\ FileInv /\ Own(c) /\ pager[c] \in PagerSet /\ Typed(c) /\ Reads(c)
  BY DEF Unlock, StoreInv, Own, Typed
<1>2. lock'[c] = SHARED_LOCK
  BY LocksAreLocks, ReleaseIsLocal DEF Unlock, WriterInv, AloneInv
<1>3. lock'[c] # NO_LOCK /\ lock'[c] \notin Writers
  BY <1>2 DEF NO_LOCK, SHARED_LOCK, RESERVED_LOCK, PENDING_LOCK, Writers
<1>4. FileInv' /\ Image' = Image /\ Durable' = Durable
  BY <1>1, FilesStay
<1>5. /\ n \in PagerSet /\ n.eState = pager[c].eState
      /\ n.op = "none" /\ n.cache = pager[c].cache
      /\ n.dbFileVers = pager[c].dbFileVers /\ n.hasHeldSharedLock = pager[c].hasHeldSharedLock
      /\ n.dbSize = pager[c].dbSize /\ n.inJournal = {} /\ n.dirty = {} /\ n.needSync = {}
  BY <1>1, NoTransactionIs
<1>6. \/ pager[c].eState = "OPEN" /\ pager'[c] = opens
      \/ pager[c].eState = "ERROR" /\ pager'[c] = fails
      \/ pager[c].eState \notin {"OPEN", "ERROR"} /\ pager'[c] = reads
  <2>1. \/ pager[c].eState = "OPEN" /\ Becomes(c, opens)
        \/ pager[c].eState = "ERROR" /\ Becomes(c, fails)
        \/ pager[c].eState \notin {"OPEN", "ERROR"} /\ Becomes(c, reads)
    <3> HIDE DEF Becomes
    <3> QED
      BY <1>5 DEF Unlock
  <2> HIDE DEF opens, fails, reads, Becomes
  <2> QED
    BY <2>1, BecomesIs
<1> HIDE DEF n
<1>7. /\ pager'[c] \in PagerSet
      /\ pager'[c].op = "none" /\ pager'[c].cache = pager[c].cache
      /\ pager'[c].dbFileVers = pager[c].dbFileVers /\ pager'[c].hasHeldSharedLock = pager[c].hasHeldSharedLock
      /\ pager'[c].dbSize = pager[c].dbSize
      /\ pager'[c].inJournal = {} /\ pager'[c].dirty = {} /\ pager'[c].needSync = {}
      /\ \/ pager[c].eState = "OPEN" /\ pager'[c].eState = "OPEN" /\ pager'[c].at = "validate"
         \/ pager[c].eState = "ERROR" /\ pager'[c].eState = "ERROR" /\ pager'[c].at = "idle"
         \/ pager[c].eState \notin {"OPEN", "ERROR"} /\ pager'[c].eState = "READER" /\ pager'[c].at = "idle"
  <2>1. opens \in PagerSet /\ fails \in PagerSet /\ reads \in PagerSet
    <3>1. n \in PagerSet
      BY <1>5
    <3> QED
      BY ONLY <3>1, Names DEF PagerSet
  <2>2. pager'[c] \in PagerSet
    BY <1>6, <2>1
  <2>3. /\ n \in PagerSet
        /\ \/ pager[c].eState = "OPEN" /\ pager'[c] = opens
           \/ pager[c].eState = "ERROR" /\ pager'[c] = fails
           \/ pager[c].eState \notin {"OPEN", "ERROR"} /\ pager'[c] = reads
    BY <1>5, <1>6
  <2>4. /\ pager'[c].op = n.op /\ pager'[c].cache = n.cache
        /\ pager'[c].dbFileVers = n.dbFileVers /\ pager'[c].hasHeldSharedLock = n.hasHeldSharedLock
        /\ pager'[c].dbSize = n.dbSize /\ pager'[c].inJournal = n.inJournal
        /\ pager'[c].dirty = n.dirty /\ pager'[c].needSync = n.needSync
    BY ONLY <2>3 DEF PagerSet
  <2>5. /\ opens.eState = n.eState /\ opens.at = "validate"
        /\ fails.eState = n.eState /\ fails.at = "idle"
        /\ reads.eState = "READER" /\ reads.at = "idle"
    BY ONLY <2>3 DEF PagerSet
  <2> HIDE DEF opens, fails, reads
  <2> QED
    BY <1>5, <1>6, <2>2, <2>4, <2>5
<1> HIDE DEF opens, fails, reads
<1>8. Typed(c)' /\ Unused(c)'
  BY <1>1, <1>7 DEF Typed, Unused
<1>9. Own(c)' /\ ~Begun(c)'
  <2>1. CASE pager[c].eState = "OPEN"
    <3>1. pager'[c].eState = "OPEN" /\ pager'[c].at = "validate"
      BY <1>7, <2>1
    <3>2. Unheld(c) /\ Valid(c) /\ Calm
      BY <1>1, <2>1 DEF Reads, Calming
    <3>3. Unheld(c)' /\ Valid(c)' /\ Calm'
      BY <1>1, <1>4, <1>7, <3>2 DEF Unheld, Valid, Calm
    <3>4. Undoes(c)' /\ ~Begun(c)' /\ "validate" \in Opens
      BY <3>1 DEF Undoes, Begun, Transacting, Logged, Modifying, Opens, Beginning
    <3> QED
      BY <1>3, <1>8, <3>1, <3>3, <3>4, OpenerOwn
  <2>2. CASE pager[c].eState = "ERROR"
    BY <1>3, <1>7, <1>8, <2>2, ErrorOwn
  <2>3. CASE pager[c].eState \notin {"OPEN", "ERROR"}
    <3>1. Calm /\ pager[c].hasHeldSharedLock /\ Current(c) /\ Clean(c)
      BY <1>1, <2>3 DEF Reads, Calming, Reading
    <3>2. Calm' /\ pager'[c].hasHeldSharedLock /\ Current(c)' /\ Clean(c)'
      BY <1>1, <1>4, <1>7, <3>1 DEF Calm, Current, Clean
    <3> QED
      BY <1>3, <1>7, <1>8, <2>3, <3>2, ReaderOwn
  <2> QED
    BY <2>1, <2>2, <2>3
<1> QED
  BY <1>1, <1>4, <1>7, <1>9 DEF Advances, Elsewhere, Sees, Settles

-----------------------------------------------------------------------------
(* A page is changed.                                                      *)

ChangedOf(pg) == pg.inJournal \cup {p \in Pages : pg.dbOrigSize < p /\ p <= pg.dbSize}
NewOf(pg, p) == IF p \in ChangedOf(pg) THEN pg.txn ELSE Image[p]

LastOf(j) == j.segs[Len(j.segs)]

\* A transaction about to change a page, with its pager and its journal.
Draft(pg, j) ==
    /\ pg \in PagerSet /\ pg.txn = txns /\ pg.hasHeldSharedLock /\ pg.dbFileVers <= txns
    /\ IsJournal(j) /\ j.exists /\ j.txn = txns /\ ~LastOf(j).valid
    /\ j.size = pg.dbOrigSize /\ Upto(Image, pg.dbOrigSize)
    /\ Live(j) /\ From(Recs(j), Image)
    /\ \A p \in Pages : p \in pg.inJournal <=> Has(Recs(j), p)
    /\ \A p \in pg.inJournal : p <= pg.dbOrigSize
    /\ pg.dbOrigSize <= pg.dbSize
    /\ pg.dbFileVers \in {Image[1], txns}
    /\ pg.dbFileVers # Image[1] => pg.cache[1] # Beyond
    /\ \A p \in Pages : pg.cache[p] \in {Beyond, NewOf(pg, p)}
    /\ pg.dirty \subseteq ChangedOf(pg)
    /\ \A p \in pg.dirty : pg.cache[p] = txns
    /\ \A p \in Pages \ pg.dirty : file[p] = NewOf(pg, p)

\* Before its first sync the journal has one segment; later its last one has not been synced.
Early(pg, j) == pg.eState = "WRITER_CACHEMOD" => Len(j.segs) = 1
Late(pg, j) ==
    pg.eState = "WRITER_DBMOD" =>
        /\ HasHeader(j) /\ HasHeader(jdisk)
        /\ pg.synced = Len(j.segs) - 1 /\ pg.synced \in DOMAIN j.segs
        /\ Playable(jdisk) = Records(j, pg.synced)
        /\ \A p \in ChangedOf(pg) \ pg.needSync : p > j.size \/ Has(Playable(jdisk), p)

\* A record that no header counts is added to a journal.
LEMMA RecordWaits ==
    ASSUME NEW j, IsJournal(j), j.exists, Live(j), ~LastOf(j).valid,
           NEW r \in RecordSet, r.content # Torn, NEW k, k = WithRecord(j, r)
    PROVE  /\ IsJournal(k) /\ k.exists /\ k.txn = j.txn /\ k.size = j.size
           /\ Len(k.segs) = Len(j.segs) /\ DOMAIN k.segs = DOMAIN j.segs
           /\ \A i \in DOMAIN j.segs : i # Len(j.segs) => k.segs[i] = j.segs[i]
           /\ ~LastOf(k).valid /\ Live(k) /\ Recs(k) = Recs(j) \cup {r}
           /\ HasHeader(k) <=> HasHeader(j)
           /\ Playable(k) = Playable(j)
           /\ \A n \in Nat : n < Len(j.segs) => Records(k, n) = Records(j, n)
<1>0. /\ IsJournal(j) /\ j.exists /\ r \in RecordSet
      /\ k = WithRecord(j, r)
  OBVIOUS
<1>1. /\ IsJournal(k) /\ k.exists /\ k.txn = j.txn /\ k.size = j.size
      /\ Len(k.segs) = Len(j.segs) /\ DOMAIN k.segs = DOMAIN j.segs
      /\ k.segs[Len(j.segs)].valid = j.segs[Len(j.segs)].valid
      /\ k.segs[Len(j.segs)].recs = j.segs[Len(j.segs)].recs \cup {r}
      /\ \A i \in DOMAIN j.segs : i # Len(j.segs) => k.segs[i] = j.segs[i]
  BY ONLY <1>0, RecordAdded
<1>2. Len(j.segs) \in DOMAIN j.segs /\ 1 \in DOMAIN j.segs /\ DOMAIN j.segs = 1..Len(j.segs) /\ Len(j.segs) \in Nat
  BY JournalParts
<1>3. \A i \in DOMAIN j.segs : /\ k.segs[i].valid = j.segs[i].valid
                               /\ j.segs[i].recs \subseteq k.segs[i].recs
                               /\ \A x \in k.segs[i].recs : x \in j.segs[i].recs \/ (x = r /\ i = Len(j.segs))
  BY <1>1, <1>2
<1> DEFINE n == Len(j.segs)
<1>4. n = Len(k.segs) /\ r \in k.segs[n].recs /\ n \in DOMAIN j.segs /\ ~j.segs[n].valid
  BY <1>1, <1>2 DEF LastOf
<1>5. Live(k)
  BY <1>1, <1>3 DEF Live
<1>6. Recs(k) = Recs(j) \cup {r}
  BY <1>1, <1>3, <1>4 DEF Recs
<1>7. HasHeader(k) <=> HasHeader(j)
  BY <1>1, <1>2, <1>3 DEF HasHeader
<1>8. Playable(k) = Playable(j)
  <2>1. \A x : x \in Playable(k) <=> x \in Playable(j)
    BY <1>1, <1>3, <1>4, <1>5, PlayableLive
  <2> QED
    BY <2>1
<1>9. ASSUME NEW m \in Nat, m < n PROVE Records(k, m) = Records(j, m)
  <2>1. \A i \in 1..m : i \in DOMAIN j.segs /\ i # n
    BY <1>2, <1>9
  <2> QED
    BY <1>1, <2>1 DEF Records
<1> QED
  BY <1>1, <1>3, <1>4, <1>5, <1>6, <1>7, <1>8, <1>9 DEF LastOf

\* What pager_write does to the pager.
DirtyParts(d, pg, p) ==
    /\ d \in PagerSet
    /\ d.eState = pg.eState /\ d.at = pg.at /\ d.op = pg.op /\ d.dbFileVers = pg.dbFileVers
    /\ d.hasHeldSharedLock = pg.hasHeldSharedLock /\ d.dbOrigSize = pg.dbOrigSize
    /\ d.synced = pg.synced /\ d.txn = txns /\ d.todo = pg.todo
    /\ \A q \in Pages : d.cache[q] = IF q = p THEN txns ELSE pg.cache[q]
    /\ d.dirty = pg.dirty \cup {p}
    /\ d.inJournal = IF MustJournal(pg, p) THEN pg.inJournal \cup {p} ELSE pg.inJournal
    /\ d.needSync = IF NeedsSync(pg, p) THEN pg.needSync \cup {p} ELSE pg.needSync
    /\ d.dbSize = IF p > pg.dbSize THEN p ELSE pg.dbSize

LEMMA DirtiedIs ==
    ASSUME NEW pg \in PagerSet, pg.txn = txns, NEW p \in Pages, NEW d, d = Dirtied(pg, p)
    PROVE  DirtyParts(d, pg, p)
<1> DEFINE cached == [pg.cache EXCEPT ![p] = pg.txn]
           dirt == pg.dirty \cup {p}
           logged == IF MustJournal(pg, p) THEN pg.inJournal \cup {p} ELSE pg.inJournal
           needs == IF NeedsSync(pg, p) THEN pg.needSync \cup {p} ELSE pg.needSync
           size == IF p > pg.dbSize THEN p ELSE pg.dbSize
<1>1. d = [pg EXCEPT !.cache = cached, !.dirty = dirt, !.inJournal = logged, !.needSync = needs, !.dbSize = size]
  BY DEF Dirtied, PagerSet
<1>2. /\ cached \in [Pages -> Nat] /\ \A q \in Pages : cached[q] = IF q = p THEN txns ELSE pg.cache[q]
  BY DEF PagerSet
<1>3. dirt \in SUBSET Pages /\ logged \in SUBSET Pages /\ needs \in SUBSET Pages /\ size \in 0..MaxPages
  BY Numbers DEF PagerSet
<1> HIDE DEF cached, dirt, logged, needs, size
<1>4. d \in PagerSet
  <2>1. pg \in PagerSet /\ cached \in [Pages -> Nat]
    BY <1>2
  <2> QED
    BY ONLY <1>1, <1>3, <2>1 DEF PagerSet
<1>5. /\ d.cache = cached /\ d.dirty = dirt /\ d.inJournal = logged /\ d.needSync = needs /\ d.dbSize = size
      /\ d.eState = pg.eState /\ d.at = pg.at /\ d.op = pg.op /\ d.dbFileVers = pg.dbFileVers
      /\ d.hasHeldSharedLock = pg.hasHeldSharedLock /\ d.dbOrigSize = pg.dbOrigSize
      /\ d.synced = pg.synced /\ d.txn = txns /\ d.todo = pg.todo
  BY <1>1 DEF PagerSet
<1> QED
  BY <1>2, <1>4, <1>5 DEF dirt, logged, needs, size, DirtyParts

\* What else the journal keeps.
Continues(j, k) ==
    /\ Len(k.segs) = Len(j.segs) /\ DOMAIN k.segs = DOMAIN j.segs
    /\ \A i \in DOMAIN j.segs : i # Len(j.segs) => k.segs[i] = j.segs[i]
    /\ HasHeader(k) <=> HasHeader(j)
    /\ Playable(k) = Playable(j)

LEMMA DraftDirtied ==
    ASSUME FileInv, NEW pg, NEW j, Draft(pg, j), NEW p \in Pages, p <= pg.dbSize + 1,
           NEW d, d = Dirtied(pg, p), NEW k, k = Journalled(j, pg, p)
    PROVE  /\ Draft(d, k) /\ Continues(j, k)
           /\ Early(pg, j) => Early(d, k)
           /\ Late(pg, j) => Late(d, k)
<1>1. /\ pg \in PagerSet /\ pg.txn = txns /\ IsJournal(j) /\ j.exists
      /\ txns \in Nat \ {0} /\ txns < Torn /\ Image \in [Pages -> 0..txns]
  BY FileParts DEF Draft, FileTypes
<1>2. /\ d \in PagerSet
      /\ d.eState = pg.eState /\ d.dbFileVers = pg.dbFileVers
      /\ d.hasHeldSharedLock = pg.hasHeldSharedLock /\ d.dbOrigSize = pg.dbOrigSize
      /\ d.synced = pg.synced /\ d.txn = txns
      /\ \A q \in Pages : d.cache[q] = IF q = p THEN txns ELSE pg.cache[q]
      /\ d.dirty = pg.dirty \cup {p}
      /\ d.inJournal = IF MustJournal(pg, p) THEN pg.inJournal \cup {p} ELSE pg.inJournal
      /\ d.needSync = IF NeedsSync(pg, p) THEN pg.needSync \cup {p} ELSE pg.needSync
      /\ d.dbSize = IF p > pg.dbSize THEN p ELSE pg.dbSize
  <2>1. DirtyParts(d, pg, p)
    BY <1>1, DirtiedIs
  <2> QED
    BY ONLY <2>1 DEF DirtyParts
<1>3. /\ pg.dbSize \in 0..MaxPages /\ pg.dbOrigSize \in 0..MaxPages /\ pg.dbOrigSize <= pg.dbSize
      /\ pg.inJournal \subseteq Pages /\ p \in 1..MaxPages /\ MaxPages \in Nat
  BY <1>1, Numbers DEF Draft, PagerSet
<1>4. MustJournal(pg, p) => Content(pg, p) = Image[p]
  <2> SUFFICES ASSUME MustJournal(pg, p) PROVE Content(pg, p) = Image[p]
    OBVIOUS
  <2>1. p \notin ChangedOf(pg)
    BY <1>3 DEF MustJournal, ChangedOf
  <2>2. NewOf(pg, p) = Image[p] /\ p \notin pg.dirty
    BY <2>1 DEF NewOf, Draft
  <2> QED
    BY <2>2 DEF Draft, Content
<1> DEFINE r == Record(p, Image[p])
<1>5. r \in RecordSet /\ r.content # Torn /\ r.page = p /\ r.content = Image[p]
  <2>1. Image[p] \in 0..txns /\ Image[p] \in 0..Torn /\ Image[p] # Torn
    BY <1>1, Numbers
  <2> QED
    BY <2>1 DEF Record, RecordSet
<1>6. k = IF MustJournal(pg, p) THEN WithRecord(j, r) ELSE j
  BY <1>4 DEF Journalled, WithRecord
<1> HIDE DEF r
<1>7. /\ IsJournal(k) /\ k.exists /\ k.txn = j.txn /\ k.size = j.size
      /\ Continues(j, k)
      /\ ~LastOf(k).valid /\ Live(k) /\ Recs(k) = IF MustJournal(pg, p) THEN Recs(j) \cup {r} ELSE Recs(j)
      /\ \A n \in Nat : n < Len(j.segs) => Records(k, n) = Records(j, n)
  <2>1. Live(j) /\ ~LastOf(j).valid
    BY DEF Draft
  <2>2. CASE MustJournal(pg, p)
    <3>1. k = WithRecord(j, r)
      BY <1>6, <2>2
    <3>2. /\ IsJournal(k) /\ k.exists /\ k.txn = j.txn /\ k.size = j.size
          /\ Len(k.segs) = Len(j.segs) /\ DOMAIN k.segs = DOMAIN j.segs
          /\ \A i \in DOMAIN j.segs : i # Len(j.segs) => k.segs[i] = j.segs[i]
          /\ ~LastOf(k).valid /\ Live(k) /\ Recs(k) = Recs(j) \cup {r}
          /\ HasHeader(k) <=> HasHeader(j)
          /\ Playable(k) = Playable(j)
          /\ \A n \in Nat : n < Len(j.segs) => Records(k, n) = Records(j, n)
      BY ONLY <1>1, <1>5, <2>1, <3>1, RecordWaits
    <3> QED
      BY <2>2, <3>2 DEF Continues
  <2>3. CASE ~MustJournal(pg, p)
    BY <1>1, <1>6, <2>1, <2>3 DEF Continues
  <2> QED
    BY <2>2, <2>3
<1>8. ChangedOf(d) = ChangedOf(pg) \cup {p}
  <2>1. CASE p <= pg.dbOrigSize
    <3>1. d.inJournal = pg.inJournal \cup {p} /\ d.dbSize = pg.dbSize
      BY <1>2, <1>3, <2>1 DEF MustJournal
    <3> QED
      BY <1>2, <3>1 DEF ChangedOf
  <2>2. CASE ~(p <= pg.dbOrigSize)
    <3>1. d.inJournal = pg.inJournal
      BY <1>2, <2>2 DEF MustJournal
    <3>2. \A q \in Pages : pg.dbOrigSize < q /\ q <= d.dbSize <=> (pg.dbOrigSize < q /\ q <= pg.dbSize) \/ q = p
      BY <1>2, <1>3, <2>2, Numbers
    <3> QED
      BY <1>2, <3>1, <3>2 DEF ChangedOf
  <2> QED
    BY <2>1, <2>2
<1>9. \A q \in Pages : NewOf(d, q) = IF q = p THEN txns ELSE NewOf(pg, q)
  BY <1>1, <1>2, <1>8 DEF NewOf
<1>10. From(Recs(k), Image)
  BY <1>5, <1>7 DEF Draft, From
<1>11. \A q \in Pages : q \in d.inJournal <=> Has(Recs(k), q)
  <2>1. CASE MustJournal(pg, p)
    BY <1>2, <1>5, <1>7, <2>1 DEF Draft, Has
  <2>2. CASE ~MustJournal(pg, p)
    BY <1>2, <1>7, <2>2 DEF Draft
  <2> QED
    BY <2>1, <2>2
<1>12. \A q \in d.inJournal : q <= d.dbOrigSize
  BY <1>2 DEF Draft, MustJournal
<1>13. d.dbOrigSize <= d.dbSize
  BY <1>2, <1>3
<1>14. d.dbFileVers # Image[1] => d.cache[1] # Beyond
  BY <1>1, <1>2, Numbers DEF Draft
<1>15. /\ \A q \in Pages : d.cache[q] \in {Beyond, NewOf(d, q)}
       /\ d.dirty \subseteq ChangedOf(d)
       /\ \A q \in d.dirty : d.cache[q] = txns
       /\ \A q \in Pages \ d.dirty : file[q] = NewOf(d, q)
  <2>1. pg.dirty \subseteq Pages
    BY <1>1 DEF PagerSet
  <2> QED
    BY <1>2, <1>8, <1>9, <2>1 DEF Draft
<1>16. Draft(d, k)
  BY <1>2, <1>7, <1>10, <1>11, <1>12, <1>13, <1>14, <1>15 DEF Draft
<1>17. Early(pg, j) => Early(d, k)
  BY <1>2, <1>7 DEF Early, Continues
<1>18. ASSUME Late(pg, j) PROVE Late(d, k)
  <2> SUFFICES ASSUME d.eState = "WRITER_DBMOD"
               PROVE  /\ HasHeader(k) /\ HasHeader(jdisk)
                      /\ d.synced = Len(k.segs) - 1 /\ d.synced \in DOMAIN k.segs
                      /\ Playable(jdisk) = Records(k, d.synced)
                      /\ \A q \in ChangedOf(d) \ d.needSync : q > k.size \/ Has(Playable(jdisk), q)
    BY DEF Late
  <2>1. /\ HasHeader(j) /\ HasHeader(jdisk)
        /\ pg.synced = Len(j.segs) - 1 /\ pg.synced \in DOMAIN j.segs
        /\ Playable(jdisk) = Records(j, pg.synced)
        /\ \A q \in ChangedOf(pg) \ pg.needSync : q > j.size \/ Has(Playable(jdisk), q)
    BY <1>2, <1>18 DEF Late
  <2>2. Len(j.segs) \in Nat /\ pg.synced \in Nat
    BY <1>1, JournalParts DEF PagerSet
  <2>3. Records(k, d.synced) = Records(j, pg.synced)
    BY <1>2, <1>7, <2>1, <2>2
  <2>4. ASSUME NEW q \in ChangedOf(d) \ d.needSync PROVE q > k.size \/ Has(Playable(jdisk), q)
    <3>1. CASE q \in ChangedOf(pg)
      BY <1>2, <1>7, <2>1, <2>4, <3>1
    <3>2. CASE q \notin ChangedOf(pg)
      <4>1. q = p /\ ~NeedsSync(pg, p)
        BY <1>2, <1>8, <2>4, <3>2
      <4>2. p \notin pg.inJournal /\ ~MustJournal(pg, p)
        BY <3>2, <4>1 DEF ChangedOf, NeedsSync
      <4>3. p > pg.dbOrigSize /\ k.size = pg.dbOrigSize
        BY <1>3, <1>7, <4>2 DEF MustJournal, Draft
      <4> QED
        BY <4>1, <4>3
    <3> QED
      BY <3>1, <3>2
  <2> QED
    BY <1>2, <1>7, <2>1, <2>3, <2>4 DEF Continues
<1> QED
  BY <1>7, <1>16, <1>17, <1>18

NewSegments == <<UnwrittenHeader>>

LEMMA NewJournalIs ==
    ASSUME NEW t \in Nat, NEW n \in 0..MaxPages, NEW j, j = NewJournal(t, n)
    PROVE  /\ IsJournal(j) /\ j.exists /\ j.txn = t /\ j.size = n
           /\ Len(j.segs) = 1 /\ ~LastOf(j).valid /\ Live(j) /\ Recs(j) = {}
<1>1. UnwrittenHeader \in SegmentSet /\ UnwrittenHeader.valid = FALSE /\ UnwrittenHeader.recs = {}
  BY DEF UnwrittenHeader, SegmentSet
<1> HIDE DEF UnwrittenHeader
<1>2. /\ NewSegments \in Seq(SegmentSet) /\ NewSegments # <<>> /\ Len(NewSegments) = 1
      /\ DOMAIN NewSegments = 1..1 /\ NewSegments[1] = UnwrittenHeader
  BY <1>1, EmptySeq DEF NewSegments
<1> HIDE DEF NewSegments
<1>3. j = [exists |-> TRUE, txn |-> t, size |-> n, segs |-> NewSegments]
  BY DEF NewJournal, NewSegments
<1>4. /\ j \in JournalSet /\ j.exists = TRUE /\ j.txn = t /\ j.size = n /\ j.segs = NewSegments
  BY <1>2, <1>3 DEF JournalSet
<1>5. \A i \in DOMAIN j.segs : i = 1 /\ j.segs[i] = UnwrittenHeader
  BY <1>2, <1>4
<1>6. IsJournal(j) /\ Len(j.segs) = 1 /\ ~LastOf(j).valid
  BY <1>1, <1>2, <1>4, <1>5 DEF IsJournal, LastOf
<1>7. Live(j) /\ Recs(j) = {}
  <2>1. \A i \in DOMAIN j.segs : ~(i < Len(j.segs)) /\ j.segs[i].recs = {}
    BY <1>1, <1>5, <1>6
  <2> QED
    BY <2>1 DEF Live, Recs
<1> QED
  BY <1>4, <1>6, <1>7

\* A transaction with a journal may write to it, and one without makes one.
LEMMA DraftHolds ==
    ASSUME WriterInv, StoreInv, NEW c \in Conns, pager[c].at = "idle",
           pager[c].eState \in Modifying \cup {"WRITER_LOCKED"},
           NEW pg, pg = Opened(pager[c]), NEW j, j = OpenJournal(pager[c])
    PROVE  /\ Draft(pg, j) /\ Early(pg, j) /\ Late(pg, j) /\ First(c)
           /\ pg.eState \in Modifying /\ pg.at = "idle" /\ pg.op = pager[c].op /\ pg.op # "rollback"
           /\ pg.dirty = pager[c].dirty /\ pg.dbSize = pager[c].dbSize /\ pg.dbFileVers = pager[c].dbFileVers
           /\ pg.op = "commit" => 1 \in pg.dirty
           /\ Begun(c) /\ lock[c] \in Owners
           /\ lock[c] \in Writers => Calm
           /\ pg.eState = "WRITER_CACHEMOD" =>
                 Calm /\ (jdisk.exists /\ jdisk.txn = txns => ~HasHeader(jdisk))
           /\ pg.eState = "WRITER_DBMOD" => j = journal
<1>1. FileInv /\ Own(c) /\ pager[c] \in PagerSet /\ Typed(c) /\ Stands(c) /\ Reads(c)
  BY DEF StoreInv, Own, Typed
<1>2. Begun(c)
  BY DEF Begun, Transacting, Logged, Modifying
<1>3. First(c) /\ lock[c] \in Owners /\ (lock[c] \in Writers => Calm)
  BY <1>1, <1>2 DEF Reads, Stands, Calming
<1>4. txns \in Nat \ {0} /\ pager[c].txn = txns /\ pager[c].dbOrigSize \in 0..MaxPages
  BY <1>1, <1>3 DEF FileInv, FileTypes, First, PagerSet
<1>5. CASE pager[c].eState = "WRITER_LOCKED"
  <2>1. /\ Calm /\ pager[c].hasHeldSharedLock /\ Current(c) /\ Clean(c) /\ Unused(c)
        /\ Unlogged(c) /\ Resized(c) /\ pager[c].op = "none"
    BY <1>1, <1>2, <1>5 DEF Reads, Stands, Calming, Reading, Logged, Modifying
  <2>2. pg = [pager[c] EXCEPT !.eState = "WRITER_CACHEMOD"]
    BY <1>5 DEF Opened
  <2>3. /\ pg \in PagerSet /\ pg.eState = "WRITER_CACHEMOD" /\ pg.at = "idle" /\ pg.op = pager[c].op
        /\ pg.cache = pager[c].cache /\ pg.dbFileVers = pager[c].dbFileVers
        /\ pg.hasHeldSharedLock = pager[c].hasHeldSharedLock
        /\ pg.dbSize = pager[c].dbSize /\ pg.dbOrigSize = pager[c].dbOrigSize
        /\ pg.inJournal = {} /\ pg.dirty = {} /\ pg.needSync = {} /\ pg.txn = txns
    BY <1>1, <1>4, <2>1, <2>2, Names DEF PagerSet, Unused
  <2>4. j = NewJournal(txns, pager[c].dbOrigSize)
    BY <1>4, <1>5 DEF OpenJournal
  <2>5. /\ IsJournal(j) /\ j.exists /\ j.txn = txns /\ j.size = pager[c].dbOrigSize
        /\ Len(j.segs) = 1 /\ ~LastOf(j).valid /\ Live(j) /\ Recs(j) = {}
    BY <1>4, <2>4, NewJournalIs
  <2>6. pager[c].dbOrigSize = pager[c].dbSize /\ pager[c].dbSize \in 0..MaxPages
    BY <1>1, <2>1 DEF Resized, PagerSet
  <2>7. ChangedOf(pg) = {}
    BY <2>3, <2>6, Numbers DEF ChangedOf
  <2>8. \A p \in Pages : NewOf(pg, p) = Image[p]
    BY <2>7 DEF NewOf
  <2>9. Draft(pg, j)
    BY <1>1, <2>1, <2>3, <2>5, <2>6, <2>7, <2>8 DEF Draft, Typed, Current, Clean, Calm, From, Has
  <2>10. pg.eState # "WRITER_DBMOD"
    BY <2>3
  <2>11. Early(pg, j) /\ Late(pg, j)
    BY <2>5, <2>10 DEF Early, Late
  <2>12. /\ pg.eState \in Modifying /\ pg.at = "idle" /\ pg.op = pager[c].op /\ pg.op # "rollback"
         /\ pg.dirty = pager[c].dirty /\ pg.dbSize = pager[c].dbSize /\ pg.dbFileVers = pager[c].dbFileVers
         /\ pg.op # "commit"
    BY <2>1, <2>3 DEF Modifying, Unused
  <2>13. jdisk.txn # txns
    <3>1. jdisk.txn \in Nat /\ jdisk.txn < txns
      BY <1>1, <2>1, JournalParts DEF Unlogged, FileInv, FileTypes
    <3> QED
      BY <1>4, <3>1
  <2> QED
    BY <1>2, <1>3, <2>1, <2>9, <2>10, <2>11, <2>12, <2>13
<1>6. CASE pager[c].eState \in Modifying
  <2>1. pg = pager[c] /\ j = journal
    BY <1>6 DEF Opened, OpenJournal, Modifying
  <2>2. /\ FileInv /\ Own(c) /\ Typed(c) /\ pager[c] \in PagerSet /\ Works(c) /\ Inside(c)
        /\ pager[c].hasHeldSharedLock /\ Journaled(c)
        /\ pager[c].eState = "WRITER_CACHEMOD" => file = Image /\ Unsecured(c)
        /\ pager[c].eState = "WRITER_DBMOD" => Secured(c)
    BY <1>6, LoggedParts
  <2>3. pager[c].op # "rollback"
    BY <1>1, <1>6 DEF Stands
  <2>4. /\ Edited(c) /\ Matching(c) /\ OpenEnd(c)
        /\ pager[c].eState = "WRITER_DBMOD" => OpenSynced(c)
        /\ pager[c].op = "commit" => Counting(c)
    BY <2>2, <2>3 DEF Works
  <2>5. ChangedOf(pg) = Changed(c) /\ \A p : NewOf(pg, p) = New(c, p)
    BY <2>1 DEF ChangedOf, Changed, NewOf, New
  <2>6. IsJournal(journal) /\ ~LastOf(journal).valid
    BY <1>1, <2>4 DEF FileInv, FileTypes, OpenEnd, Last, LastOf
  <2>7. Draft(pg, j)
    BY <1>4, <2>1, <2>2, <2>4, <2>5, <2>6 DEF Draft, Typed, Journaled, Edited, Matching
  <2>8. Early(pg, j)
    BY <2>1, <2>2 DEF Early, Unsecured
  <2>9. Late(pg, j)
    BY <2>1, <2>2, <2>4, <2>5 DEF Late, Secured, OpenSynced, Protected
  <2>10. ASSUME pg.eState = "WRITER_CACHEMOD"
         PROVE  Calm /\ (jdisk.exists /\ jdisk.txn = txns => ~HasHeader(jdisk))
    <3>1. ~HasHeader(journal) /\ journal.exists /\ journal.txn = txns
      BY <1>4, <2>1, <2>2, <2>6, <2>10 DEF Unsecured, HasHeader, LastOf, Journaled
    <3> QED
      BY <1>1, <3>1, NoHeaderIsCalm, FileParts DEF Quiet, Same
  <2>11. pg.op = "commit" => 1 \in pg.dirty
    BY <2>1, <2>4 DEF Counting
  <2> QED
    BY <1>2, <1>3, <1>6, <2>1, <2>3, <2>7, <2>8, <2>9, <2>10, <2>11
<1> QED
  BY <1>5, <1>6

\* The record goes to the journal.
LEMMA DirtyFiles ==
    ASSUME FileInv, NEW pg, NEW j, Draft(pg, j), pg.eState \in Modifying, Early(pg, j),
           pg.eState = "WRITER_CACHEMOD" =>
              Calm /\ (jdisk.exists /\ jdisk.txn = txns => ~HasHeader(jdisk)),
           pg.eState = "WRITER_DBMOD" => j = journal /\ HasHeader(j),
           NEW d, Draft(d, journal'), d.dbOrigSize = pg.dbOrigSize, Continues(j, journal'),
           UNCHANGED <<file, disk, jdisk, txns>>
    PROVE  FileInv' /\ Image' = Image /\ Durable' = Durable /\ (HasHeader(journal') => HasHeader(journal))
<1>1. /\ IsJournal(j) /\ j.exists /\ ~LastOf(j).valid /\ Live(j)
      /\ IsJournal(journal') /\ journal'.exists /\ ~LastOf(journal').valid /\ Live(journal')
      /\ journal'.txn = txns /\ journal'.size = j.size /\ j.txn = txns
      /\ From(Recs(journal'), Image) /\ Upto(Image, j.size)
  BY DEF Draft
<1>2. CASE pg.eState = "WRITER_CACHEMOD"
  <2>1. ~HasHeader(j)
    BY <1>1, <1>2 DEF Early, HasHeader, LastOf
  <2>2. ~HasHeader(journal')
    BY <2>1 DEF Continues
  <2>3. \A p \in Pages : file[p] = Beyond => p > journal'.size
    BY <1>1, <1>2 DEF Calm, Upto
  <2>4. journal'.exists /\ Same' => ~HasHeader(jdisk)
    BY <1>1, <1>2 DEF Same
  <2>5. journal'.txn <= txns
    BY <1>1, FileParts
  <2> QED
    BY <1>1, <1>2, <2>2, <2>3, <2>4, <2>5, QuietJournal
<1>3. CASE pg.eState = "WRITER_DBMOD"
  <2>1. j = journal /\ HasHeader(journal) /\ Hot
    BY <1>3, FileParts
  <2>2. HasHeader(journal') /\ Playable(journal) \subseteq Playable(journal')
    BY <2>1 DEF Continues
  <2>3. From({r \in Recs(journal') : r.content # Torn}, Image)
    BY <1>1 DEF From
  <2>4. Backed'
    <3>1. /\ DOMAIN journal'.segs = DOMAIN journal.segs /\ Len(journal'.segs) = Len(journal.segs)
          /\ \A i \in DOMAIN journal.segs : i # Len(journal.segs) => journal'.segs[i] = journal.segs[i]
      BY <2>1 DEF Continues
    <3>2. /\ ~journal.segs[Len(journal.segs)].valid /\ ~journal'.segs[Len(journal.segs)].valid
      BY <1>1, <2>1, <3>1 DEF LastOf
    <3>3. /\ \A i \in DOMAIN journal.segs : i < Len(journal.segs) => i # Len(journal.segs)
      BY <1>1, <2>1, JournalParts
    <3>4. CASE jdisk = journal
      BY <1>1, <2>1, <3>1, <3>2, <3>3, <3>4 DEF Backed
    <3>5. CASE Backed
      BY <1>1, <2>1, <3>1, <3>2, <3>3, <3>5 DEF Backed
    <3> QED
      BY <2>1, <3>4, <3>5 DEF Hot
  <2> QED
    BY <1>1, <2>1, <2>2, <2>3, <2>4, HotJournal DEF Hot
<1> QED
  BY <1>2, <1>3 DEF Modifying

Agrees(q, d) ==
    /\ q.eState = d.eState /\ q.cache = d.cache /\ q.dbFileVers = d.dbFileVers
    /\ q.hasHeldSharedLock = d.hasHeldSharedLock /\ q.dbSize = d.dbSize /\ q.dbOrigSize = d.dbOrigSize
    /\ q.inJournal = d.inJournal /\ q.dirty = d.dirty /\ q.needSync = d.needSync
    /\ q.synced = d.synced /\ q.txn = d.txn

\* The pager of a draft is one of a transaction.
LEMMA DraftOwn ==
    ASSUME WriterInv, StoreInv, NEW c \in Conns, First(c), Begun(c),
           NEW d, Draft(d, journal'), Early(d, journal'), Late(d, journal'), d.eState \in Modifying,
           Image' = Image, UNCHANGED <<lock, file, disk, jdisk, txns>>,
           pager'[c] \in PagerSet, Agrees(pager'[c], d),
           pager'[c].at \in {"idle", "exclusive", "syncRecords", "mustRollback"},
           pager'[c].at = "mustRollback" => pager'[c].op \in {"none", "commit"},
           pager'[c].op # "rollback", pager'[c].at = "exclusive" => pager'[c].op # "begin",
           pager'[c].at = "syncRecords" => pager'[c].op \in {"spill", "commit"},
           pager'[c].op = "spill" => pager'[c].at = "idle",
           pager'[c].op = "commit" => 1 \in d.dirty,
           lock[c] \in Owners, lock[c] \in Writers => Calm',
           d.eState = "WRITER_CACHEMOD" => file = Image
    PROVE  Own(c)' /\ Begun(c)'
<1>1. /\ Changed(c)' = ChangedOf(d) /\ \A p : New(c, p)' = NewOf(d, p)
  BY DEF Agrees, Changed, ChangedOf, New, NewOf
<1>2. txns \in Nat /\ \A p \in Pages : Image[p] \in 0..txns
  BY FileParts DEF StoreInv
<1>3. \A p \in Pages : d.cache[p] <= txns
  <2>1. \A p \in Pages : NewOf(d, p) \in 0..txns
    BY <1>2 DEF NewOf, Draft
  <2>2. \A p \in Pages : d.cache[p] \in {Beyond, NewOf(d, p)}
    BY DEF Draft
  <2> QED
    BY <1>2, <2>1, <2>2, Numbers
<1>4. Typed(c)'
  BY <1>3 DEF Typed, Agrees, Draft
<1>5. Journaled(c)'
  BY DEF Journaled, Draft, Agrees
<1>6. Edited(c)' /\ Matching(c)'
  BY <1>1 DEF Edited, Matching, Draft, Agrees
<1>7. OpenEnd(c)' /\ (pager'[c].eState = "WRITER_DBMOD" => OpenSynced(c)')
  BY DEF OpenEnd, OpenSynced, Last, LastOf, Draft, Late, Agrees
<1>8. pager'[c].eState = "WRITER_CACHEMOD" => Unsecured(c)'
  BY DEF Unsecured, Early, Draft, HasHeader, LastOf, Agrees
<1>9. pager'[c].eState = "WRITER_DBMOD" => Secured(c)'
  BY <1>1 DEF Secured, Late, Agrees, Protected
<1>10. pager'[c].op = "commit" => Counted(c)' /\ Counting(c)'
  BY <1>1 DEF Counted, Counting, Draft, Agrees
<1>11. Works(c)'
  BY <1>5, <1>6, <1>7, <1>8, <1>9, <1>10 DEF Works
<1>12. Undoes(c)'
  BY DEF Undoes
<1>13. First(c)'
  BY <1>2 DEF First, Draft, Agrees
<1>14. pager'[c].at \in Places \ (Opens \cup {"unlock"})
  BY Names DEF Opens, Beginning
<1>15. pager'[c].hasHeldSharedLock /\ pager'[c].eState \in Modifying
  BY DEF Draft, Agrees
<1>16. pager'[c].eState = "WRITER_CACHEMOD" => file' = Image'
  BY DEF Agrees
<1> QED
  BY <1>4, <1>11, <1>12, <1>13, <1>14, <1>15, <1>16, LoggedOwn

LEMMA WriteAdvances ==
    ASSUME WriterInv, StoreInv, NEW c \in Conns, NEW p \in Pages, Write(c, p)
    PROVE  Advances(c)
<1> DEFINE pg == Opened(pager[c])
           j == OpenJournal(pager[c])
           d == Dirtied(pg, p)
<1>1. /\ pager[c].at = "idle" /\ pager[c].eState \in Modifying \cup {"WRITER_LOCKED"}
      /\ UNCHANGED <<lock, file, disk, jdisk, txns>>
      /\ p <= pg.dbSize + 1 /\ Becomes(c, d) /\ journal' = Journalled(j, pg, p)
  BY DEF Write, Writing, Modifying
<1>2. pager'[c] = d
  <2> HIDE DEF d, Becomes
  <2> QED
    BY <1>1, BecomesIs
<1> HIDE DEF pg, j
<1>3. /\ Draft(pg, j) /\ Early(pg, j) /\ Late(pg, j) /\ First(c)
      /\ pg.eState \in Modifying /\ pg.at = "idle" /\ pg.op # "rollback"
      /\ pg.dbFileVers = pager[c].dbFileVers
      /\ pg.op = "commit" => 1 \in pg.dirty
      /\ Begun(c) /\ lock[c] \in Owners
      /\ lock[c] \in Writers => Calm
      /\ pg.eState = "WRITER_CACHEMOD" =>
            Calm /\ (jdisk.exists /\ jdisk.txn = txns => ~HasHeader(jdisk))
      /\ pg.eState = "WRITER_DBMOD" => j = journal
  BY <1>1, DraftHolds DEF pg, j
<1>4. pg \in PagerSet /\ pg.txn = txns /\ FileInv
  BY <1>3 DEF Draft, StoreInv
<1>5. DirtyParts(d, pg, p)
  BY <1>4, DirtiedIs
<1>6. /\ Draft(d, journal') /\ Continues(j, journal') /\ Early(d, journal') /\ Late(d, journal')
  BY <1>1, <1>3, <1>4, DraftDirtied
<1> HIDE DEF d
<1>7. /\ d \in PagerSet /\ d.eState = pg.eState /\ d.at = "idle" /\ d.op = pg.op /\ d.dirty = pg.dirty \cup {p}
      /\ d.dbOrigSize = pg.dbOrigSize /\ d.dbFileVers = pager[c].dbFileVers
  BY <1>3, <1>5 DEF DirtyParts
<1>8. FileInv' /\ Image' = Image /\ Durable' = Durable /\ (HasHeader(journal') => HasHeader(journal))
  <2>1. pg.eState = "WRITER_DBMOD" => j = journal /\ HasHeader(j)
    BY <1>3 DEF Late
  <2> QED
    BY <1>1, <1>3, <1>4, <1>6, <1>7, <2>1, DirtyFiles
<1>9. Own(c)' /\ Begun(c)'
  <2>1. Agrees(pager'[c], d)
    BY <1>2 DEF Agrees
  <2>2. lock[c] \in Writers => Calm'
    BY <1>1, <1>3, <1>8 DEF Calm
  <2>3. d.eState = "WRITER_CACHEMOD" => file = Image
    BY <1>3, <1>7 DEF Calm
  <2>4. /\ pager'[c] \in PagerSet /\ pager'[c].at = "idle" /\ pager'[c].op # "rollback"
        /\ pager'[c].op = "commit" => 1 \in d.dirty
    BY <1>2, <1>3, <1>7
  <2> QED
    BY <1>1, <1>3, <1>6, <1>7, <1>8, <2>1, <2>2, <2>3, <2>4, DraftOwn
<1> QED
  BY <1>1, <1>2, <1>3, <1>7, <1>8, <1>9 DEF Advances, Elsewhere, Settles, Sees

\* Where the record cannot be written the journal is as good as it was.
LEMMA JournalFailsAdvances ==
    ASSUME WriterInv, StoreInv, NEW c \in Conns, NEW p \in Pages, JournalFails(c, p)
    PROVE  Advances(c)
<1> DEFINE pg == Opened(pager[c])
           j == OpenJournal(pager[c])
           q == [pg EXCEPT !.at = "mustRollback", !.op = "none"]
<1>1. /\ pager[c].at = "idle" /\ pager[c].eState \in Modifying \cup {"WRITER_LOCKED"}
      /\ UNCHANGED <<lock, file, disk, jdisk, txns>>
      /\ Becomes(c, q) /\ journal' = j
  BY DEF JournalFails, Writing, Modifying
<1>2. pager'[c] = q
  <2> HIDE DEF q, Becomes
  <2> QED
    BY <1>1, BecomesIs
<1> HIDE DEF pg, j
<1>3. /\ Draft(pg, j) /\ Early(pg, j) /\ Late(pg, j) /\ First(c)
      /\ pg.eState \in Modifying
      /\ pg.dbFileVers = pager[c].dbFileVers
      /\ Begun(c) /\ lock[c] \in Owners
      /\ lock[c] \in Writers => Calm
      /\ pg.eState = "WRITER_CACHEMOD" =>
            Calm /\ (jdisk.exists /\ jdisk.txn = txns => ~HasHeader(jdisk))
      /\ pg.eState = "WRITER_DBMOD" => j = journal
  BY <1>1, DraftHolds DEF pg, j
<1>4. pg \in PagerSet /\ FileInv
  BY <1>3 DEF Draft, StoreInv
<1>5. q \in PagerSet /\ Agrees(q, pg) /\ q.at = "mustRollback" /\ q.op = "none"
  <2>1. "mustRollback" \in Places /\ "none" \in Ops
    BY Names
  <2> QED
    BY ONLY <1>4, <2>1 DEF PagerSet, Agrees
<1> HIDE DEF q
<1>6. Draft(pg, journal') /\ Continues(j, journal') /\ Early(pg, journal') /\ Late(pg, journal')
  BY <1>1, <1>3 DEF Continues
<1>7. FileInv' /\ Image' = Image /\ Durable' = Durable /\ (HasHeader(journal') => HasHeader(journal))
  <2>1. pg.eState = "WRITER_DBMOD" => j = journal /\ HasHeader(j)
    BY <1>3 DEF Late
  <2> QED
    BY <1>1, <1>3, <1>4, <1>6, <2>1, DirtyFiles
<1>8. Own(c)' /\ Begun(c)'
  <2>1. lock[c] \in Writers => Calm'
    BY <1>1, <1>3, <1>7 DEF Calm
  <2>2. pg.eState = "WRITER_CACHEMOD" => file = Image
    BY <1>3 DEF Calm
  <2> QED
    BY <1>1, <1>2, <1>3, <1>5, <1>6, <1>7, <2>1, <2>2, DraftOwn
<1>9. pager'[c].dbFileVers = pager[c].dbFileVers
  BY <1>2, <1>3, <1>5 DEF Agrees
<1> QED
  BY <1>1, <1>3, <1>7, <1>8, <1>9 DEF Advances, Elsewhere, Settles, Sees

LEMMA CommitAdvances ==
    ASSUME WriterInv, StoreInv, NEW c \in Conns, Commit(c)
    PROVE  Advances(c)
<1> DEFINE pg == pager[c]
           d == Dirtied(pg, 1)
           place == BeginSync(c)
           q == [d EXCEPT !.op = "commit", !.at = place]
<1>1. /\ pager[c].at = "idle" /\ pager[c].eState \in Modifying
      /\ UNCHANGED <<lock, file, disk, jdisk, txns>>
      /\ Becomes(c, q) /\ journal' = Journalled(journal, pg, 1)
      /\ pg = Opened(pager[c]) /\ journal = OpenJournal(pager[c])
  BY DEF Commit, Modifying, Opened, OpenJournal
<1>2. pager'[c] = q
  <2> HIDE DEF q, Becomes
  <2> QED
    BY <1>1, BecomesIs
<1>3. /\ Draft(pg, journal) /\ Early(pg, journal) /\ Late(pg, journal) /\ First(c)
      /\ Begun(c) /\ lock[c] \in Owners
      /\ lock[c] \in Writers => Calm
      /\ pg.eState = "WRITER_CACHEMOD" =>
            Calm /\ (jdisk.exists /\ jdisk.txn = txns => ~HasHeader(jdisk))
  BY <1>1, DraftHolds
<1>4. pg \in PagerSet /\ pg.txn = txns /\ FileInv /\ 1 \in Pages
  BY <1>3, Numbers DEF Draft, StoreInv
<1>5. DirtyParts(d, pg, 1)
  BY <1>4, DirtiedIs
<1>6. /\ Draft(d, journal') /\ Continues(journal, journal') /\ Early(d, journal') /\ Late(d, journal')
  <2>1. 1 <= pg.dbSize + 1
    BY <1>4 DEF PagerSet
  <2> QED
    BY <1>1, <1>3, <1>4, <2>1, DraftDirtied
<1>7. place \in {"syncRecords", "exclusive"}
  BY DEF BeginSync
<1> HIDE DEF d, place
<1>8. /\ d \in PagerSet /\ d.eState = pager[c].eState /\ 1 \in d.dirty
      /\ d.dbOrigSize = pg.dbOrigSize /\ d.dbFileVers = pager[c].dbFileVers
  BY <1>3, <1>5 DEF DirtyParts
<1>9. FileInv' /\ Image' = Image /\ Durable' = Durable /\ (HasHeader(journal') => HasHeader(journal))
  <2>1. pg.eState = "WRITER_DBMOD" => HasHeader(journal)
    BY <1>3 DEF Late
  <2> QED
    BY <1>1, <1>3, <1>4, <1>6, <1>8, <2>1, DirtyFiles
<1>10. /\ pager'[c] \in PagerSet /\ Agrees(pager'[c], d) /\ pager'[c].at = place /\ pager'[c].op = "commit"
  <2>1. place \in Places /\ "commit" \in Ops
    BY <1>7, Names
  <2>2. pager'[c] \in PagerSet
    BY ONLY <1>2, <1>8, <2>1 DEF PagerSet
  <2> QED
    BY <1>2, <1>8, <2>2 DEF PagerSet, Agrees
<1> HIDE DEF q
<1>11. Own(c)' /\ Begun(c)'
  <2>1. lock[c] \in Writers => Calm'
    BY <1>1, <1>3, <1>9 DEF Calm
  <2>2. d.eState = "WRITER_CACHEMOD" => file = Image
    BY <1>3, <1>8 DEF Calm
  <2> QED
    BY <1>1, <1>3, <1>6, <1>7, <1>8, <1>9, <1>10, <2>1, <2>2, DraftOwn
<1> QED
  BY <1>1, <1>3, <1>8, <1>9, <1>10, <1>11 DEF Advances, Elsewhere, Settles, Sees, Agrees

-----------------------------------------------------------------------------
(* The journal is synced.                                                  *)

\* Playback stops where the last header is missing.
LEMMA OpenEndPlays ==
    ASSUME NEW j, IsJournal(j), j.exists, Live(j), ~LastOf(j).valid, NEW n, n = Len(j.segs) - 1
    PROVE  Playable(j) = Records(j, n)
<1>1. Len(j.segs) \in Nat /\ DOMAIN j.segs = 1..Len(j.segs) /\ Len(j.segs) \in DOMAIN j.segs
  BY JournalParts
<1>2. \A i \in DOMAIN j.segs : j.segs[i].valid <=> i < Len(j.segs)
  BY <1>1 DEF Live, LastOf
<1>3. \A i : i \in DOMAIN j.segs /\ i < Len(j.segs) <=> i \in 1..n
  BY <1>1
<1>4. \A r : r \in Playable(j) <=> \E i \in 1..n : r \in j.segs[i].recs
  BY <1>2, <1>3, PlayableLive
<1>5. \A r : r \in Records(j, n) <=> \E i \in 1..n : r \in j.segs[i].recs
  BY DEF Records
<1> QED
  BY <1>4, <1>5

\* What a sync leaves of the work of a transaction.
LEMMA SyncKept ==
    ASSUME NEW c, SameData(c), Image' = Image, UNCHANGED <<file, journal, txns>>
    PROVE  /\ First(c)' <=> First(c)
           /\ Journaled(c)' <=> Journaled(c)
           /\ Matching(c)' <=> Matching(c)
           /\ OpenEnd(c)' <=> OpenEnd(c)
           /\ OpenSynced(c)' <=> OpenSynced(c)
           /\ CommitTodo(c)' <=> CommitTodo(c)
           /\ Undoing(c)' <=> Undoing(c)
           /\ Calm' <=> Calm
           /\ Last' = Last
<1>1. \A p : New(c, p)' = New(c, p)
  BY ImageDataKept
<1>2. /\ First(c)' <=> First(c)
      /\ Calm' <=> Calm
      /\ Journaled(c)' <=> Journaled(c)
  BY DEF SameData, First, Calm, Journaled
<1>3. /\ OpenEnd(c)' <=> OpenEnd(c)
      /\ OpenSynced(c)' <=> OpenSynced(c)
      /\ CommitTodo(c)' <=> CommitTodo(c)
      /\ Undoing(c)' <=> Undoing(c)
      /\ Last' = Last
  BY DEF SameData, OpenEnd, OpenSynced, CommitTodo, Undoing, Last
<1>4. Matching(c)' <=> Matching(c)
  BY <1>1 DEF SameData, Matching
<1> QED
  BY <1>2, <1>3, <1>4

\* At the sync of a journal a transaction has EXCLUSIVE.
LEMMA SyncParts ==
    ASSUME WriterInv, StoreInv, NEW c \in Conns,
           pager[c].at \in {"syncRecords", "writeHeader", "syncHeader"}
    PROVE  /\ pager[c].eState \in Modifying /\ pager[c].op \in {"spill", "commit"}
           /\ lock[c] = EXCLUSIVE_LOCK /\ lock[c] \in Owners /\ lock[c] \notin Writers
           /\ FileInv /\ FileTypes /\ Own(c) /\ Typed(c) /\ pager[c] \in PagerSet /\ Works(c)
           /\ Inside(c) /\ Begun(c) /\ First(c) /\ pager[c].hasHeldSharedLock /\ Journaled(c)
           /\ pager[c].eState = "WRITER_CACHEMOD" => file = Image /\ Unsecured(c)
           /\ pager[c].eState = "WRITER_DBMOD" => Secured(c)
           /\ txns \in Nat \ {0} /\ pager[c].txn = txns
           /\ Edited(c) /\ Matching(c)
           /\ pager[c].op = "commit" => Counted(c) /\ Counting(c)
           /\ pager[c].op = "spill" => SpillTodo(c)
           /\ IsJournal(journal) /\ journal.exists
<1>1. Armed(c) /\ Placed(pager[c]) /\ Stands(c)
  BY DEF WriterInv, AloneInv, StoreInv, Own
<1>2. pager[c].eState \in Modifying /\ pager[c].op \in {"spill", "commit"} /\ lock[c] = EXCLUSIVE_LOCK
  BY <1>1 DEF Placed, Syncing, Stands, Armed, Exclusively
<1>3. lock[c] \in Owners /\ lock[c] \notin Writers
  BY <1>2, LockNames DEF EXCLUSIVE_LOCK, RESERVED_LOCK, PENDING_LOCK, Writers
<1>4. /\ FileInv /\ Own(c) /\ Typed(c) /\ pager[c] \in PagerSet /\ Works(c)
      /\ Inside(c) /\ Begun(c) /\ First(c) /\ pager[c].hasHeldSharedLock /\ Journaled(c)
      /\ pager[c].eState = "WRITER_CACHEMOD" => file = Image /\ Unsecured(c)
      /\ pager[c].eState = "WRITER_DBMOD" => Secured(c)
      /\ txns \in Nat \ {0} /\ pager[c].txn = txns
  BY <1>2, LoggedParts
<1>5. /\ Edited(c) /\ Matching(c)
      /\ pager[c].op = "commit" => Counted(c) /\ Counting(c)
      /\ pager[c].op = "spill" => SpillTodo(c)
  BY <1>2, <1>4 DEF Works
<1>6. FileTypes /\ IsJournal(journal) /\ journal.exists
  BY <1>4 DEF FileInv, FileTypes, Journaled
<1> QED
  BY <1>2, <1>3, <1>4, <1>5, <1>6

LEMMA SyncRecordsAdvances ==
    ASSUME WriterInv, StoreInv, NEW c \in Conns, SyncRecords(c)
    PROVE  Advances(c)
<1>1. /\ pager[c].at = "syncRecords" /\ UNCHANGED <<lock, file, journal, txns>>
      /\ SyncJournal /\ jdisk' = journal /\ Goes(c, "writeHeader")
  BY DEF SyncRecords, SyncJournal
<1> HIDE DEF Goes
<1>2. /\ pager[c].eState \in Modifying /\ pager[c].op \in {"spill", "commit"}
      /\ lock[c] = EXCLUSIVE_LOCK /\ lock[c] \in Owners /\ lock[c] \notin Writers
      /\ FileInv /\ FileTypes /\ Own(c) /\ Typed(c) /\ pager[c] \in PagerSet /\ Works(c)
      /\ Inside(c) /\ Begun(c) /\ First(c) /\ pager[c].hasHeldSharedLock /\ Journaled(c)
      /\ pager[c].eState = "WRITER_CACHEMOD" => file = Image /\ Unsecured(c)
      /\ pager[c].eState = "WRITER_DBMOD" => Secured(c)
      /\ Edited(c) /\ Matching(c)
      /\ pager[c].op = "commit" => Counted(c) /\ Counting(c)
      /\ pager[c].op = "spill" => SpillTodo(c)
      /\ IsJournal(journal) /\ journal.exists
  BY <1>1, SyncParts
<1>3. OpenEnd(c) /\ (pager[c].eState = "WRITER_DBMOD" => OpenSynced(c))
  BY <1>1, <1>2 DEF Works
<1>4. FileInv' /\ Image' = Image /\ Durable' = Image
  BY <1>1, <1>2, JournalSynced
<1>5. Control(c, pager[c].eState, "writeHeader", pager[c].op) /\ SameData(c)
  <2>1. Control(c, pager[c].eState, "writeHeader", pager[c].op)
    BY <1>1, Names, GoesControl
  <2> QED
    BY <2>1 DEF Control
<1>6. pager[c].eState = "WRITER_CACHEMOD" => Unsecured(c)'
  BY <1>1, <1>2, <1>3 DEF Unsecured, OpenEnd, Last, HasHeader
<1>7. ASSUME pager[c].eState = "WRITER_DBMOD" PROVE Secured(c)'
  <2>1. Secured(c) /\ OpenSynced(c) /\ Live(journal) /\ Hot
    BY <1>2, <1>3, <1>7, FileParts DEF Secured, Journaled
  <2>2. Playable(journal) = Records(journal, pager[c].synced)
    BY <1>2, <1>3, <2>1, OpenEndPlays DEF OpenSynced, OpenEnd, Last, LastOf
  <2>3. Playable(jdisk) \subseteq Playable(journal)
    BY <1>2, <2>1, BackedPlays DEF Hot
  <2>4. \A p : Protected(p) => Protected(p)'
    BY <1>1, <2>1, <2>3 DEF Protected, Has, Secured
  <2>5. Changed(c)' = Changed(c)
    BY <1>5, DataKept
  <2> QED
    BY <1>1, <1>5, <2>1, <2>2, <2>4, <2>5 DEF Secured, SameData
<1>8. Works(c)'
  BY <1>1, <1>2, <1>3, <1>4, <1>5, <1>6, <1>7, DataKept, ImageDataKept, SyncKept DEF Works, Control
<1>9. Undoes(c)'
  BY <1>2, <1>5 DEF Undoes, Control
<1>10. Own(c)' /\ Begun(c)'
  <2>1. Typed(c)'
    BY <1>1, <1>5, StillTyped DEF Control
  <2>2. First(c)' /\ pager'[c].hasHeldSharedLock
    BY <1>1, <1>2, <1>4, <1>5, SyncKept DEF SameData
  <2>3. "writeHeader" \in Places \ (Opens \cup {"unlock"})
    BY Names DEF Opens, Beginning
  <2>4. pager'[c].eState = "WRITER_CACHEMOD" => file' = Image'
    BY <1>1, <1>2, <1>4, <1>5 DEF Control
  <2> QED
    BY <1>1, <1>2, <1>5, <1>8, <1>9, <2>1, <2>2, <2>3, <2>4, LoggedOwn DEF Control
<1> QED
  BY <1>1, <1>2, <1>4, <1>5, <1>10 DEF Advances, Elsewhere, Sees, SameData, Settles

\* The records of the last segment count from now on.
LEMMA HeaderCounts ==
    ASSUME NEW j, IsJournal(j), j.exists, Live(j), NEW k, k = WithHeader(j)
    PROVE  /\ IsJournal(k) /\ k.exists /\ k.txn = j.txn /\ k.size = j.size
           /\ Len(k.segs) = Len(j.segs) /\ DOMAIN k.segs = DOMAIN j.segs
           /\ \A i \in DOMAIN j.segs : /\ k.segs[i].recs = j.segs[i].recs
                                       /\ j.segs[i].valid => k.segs[i].valid
                                       /\ i # Len(j.segs) => k.segs[i] = j.segs[i]
           /\ LastOf(k).valid /\ Live(k) /\ Recs(k) = Recs(j)
           /\ HasHeader(j) => HasHeader(k)
           /\ Playable(j) \subseteq Playable(k)
           /\ \A n \in Nat : n <= Len(j.segs) => Records(k, n) = Records(j, n)
<1>0. IsJournal(j) /\ j.exists /\ k = WithHeader(j)
  OBVIOUS
<1>1. /\ IsJournal(k) /\ k.exists /\ k.txn = j.txn /\ k.size = j.size
      /\ Len(k.segs) = Len(j.segs) /\ DOMAIN k.segs = DOMAIN j.segs
      /\ k.segs[Len(j.segs)].valid
      /\ k.segs[Len(j.segs)].recs = j.segs[Len(j.segs)].recs
      /\ \A i \in DOMAIN j.segs : i # Len(j.segs) => k.segs[i] = j.segs[i]
  BY ONLY <1>0, HeaderAdded
<1>2. Len(j.segs) \in DOMAIN j.segs /\ 1 \in DOMAIN j.segs /\ DOMAIN j.segs = 1..Len(j.segs) /\ Len(j.segs) \in Nat
  BY JournalParts
<1>3. \A i \in DOMAIN j.segs : /\ k.segs[i].recs = j.segs[i].recs
                               /\ j.segs[i].valid => k.segs[i].valid
  BY <1>1, <1>2
<1>4. LastOf(k).valid
  BY <1>1 DEF LastOf
<1>5. Live(k)
  BY <1>1, <1>3 DEF Live
<1>6. Recs(k) = Recs(j)
  BY <1>1, <1>3 DEF Recs
<1>7. HasHeader(j) => HasHeader(k)
  BY <1>1, <1>2, <1>3 DEF HasHeader
<1>8. Playable(j) \subseteq Playable(k)
  <2>1. \A x : x \in Playable(j) => x \in Playable(k)
    BY <1>1, <1>3, <1>5, PlayableLive
  <2> QED
    BY <2>1
<1>9. ASSUME NEW m \in Nat, m <= Len(j.segs) PROVE Records(k, m) = Records(j, m)
  <2>1. \A i \in 1..m : i \in DOMAIN j.segs
    BY <1>2, <1>9
  <2> QED
    BY <1>3, <2>1 DEF Records
<1> QED
  BY <1>1, <1>3, <1>4, <1>5, <1>6, <1>7, <1>8, <1>9

LEMMA WriteHeaderAdvances ==
    ASSUME WriterInv, StoreInv, NEW c \in Conns, WriteHeader(c)
    PROVE  Advances(c)
<1>1. /\ pager[c].at = "writeHeader" /\ UNCHANGED <<lock, file, disk, jdisk, txns>>
      /\ journal' = WithHeader(journal) /\ Goes(c, "syncHeader")
  BY DEF WriteHeader, WithHeader
<1> HIDE DEF Goes
<1>2. /\ pager[c].eState \in Modifying /\ pager[c].op \in {"spill", "commit"}
      /\ lock[c] = EXCLUSIVE_LOCK /\ lock[c] \in Owners /\ lock[c] \notin Writers
      /\ FileInv /\ FileTypes /\ Own(c) /\ Typed(c) /\ pager[c] \in PagerSet /\ Works(c)
      /\ Inside(c) /\ Begun(c) /\ First(c) /\ pager[c].hasHeldSharedLock /\ Journaled(c)
      /\ pager[c].eState = "WRITER_CACHEMOD" => file = Image /\ Unsecured(c)
      /\ pager[c].eState = "WRITER_DBMOD" => Secured(c)
      /\ Edited(c) /\ Matching(c)
      /\ pager[c].op = "commit" => Counted(c) /\ Counting(c)
      /\ pager[c].op = "spill" => SpillTodo(c)
      /\ IsJournal(journal) /\ journal.exists
  BY <1>1, SyncParts
<1>3. ~LastOf(journal).valid /\ jdisk = journal /\ Live(journal) /\ From(Recs(journal), Image)
      /\ Upto(Image, journal.size)
  BY <1>1, <1>2 DEF Works, OpenEnd, Last, LastOf, Journaled
<1>4. /\ IsJournal(journal') /\ journal'.exists /\ journal'.txn = journal.txn /\ journal'.size = journal.size
      /\ Len(journal'.segs) = Len(journal.segs) /\ DOMAIN journal'.segs = DOMAIN journal.segs
      /\ \A i \in DOMAIN journal.segs : /\ journal'.segs[i].recs = journal.segs[i].recs
                                        /\ journal.segs[i].valid => journal'.segs[i].valid
                                        /\ i # Len(journal.segs) => journal'.segs[i] = journal.segs[i]
      /\ LastOf(journal').valid /\ Live(journal') /\ Recs(journal') = Recs(journal)
      /\ HasHeader(journal) => HasHeader(journal')
      /\ Playable(journal) \subseteq Playable(journal')
      /\ \A n \in Nat : n <= Len(journal.segs) => Records(journal', n) = Records(journal, n)
  BY <1>1, <1>2, <1>3, HeaderCounts
<1>5. HasHeader(journal')
  <2>1. CASE pager[c].eState = "WRITER_CACHEMOD"
    BY <1>2, <1>4, <2>1 DEF Unsecured, LastOf, HasHeader
  <2>2. CASE pager[c].eState = "WRITER_DBMOD"
    BY <1>2, <1>4, <2>2 DEF Secured
  <2> QED
    BY <1>2, <2>1, <2>2 DEF Modifying
<1>6. FileInv' /\ Image' = Image /\ Durable' = Durable
  <2>1. Backed'
    <3>1. \A i \in DOMAIN journal.segs : i < Len(journal.segs) => i # Len(journal.segs)
      BY <1>2, JournalParts
    <3> QED
      BY <1>1, <1>3, <1>4, <3>1 DEF Backed
  <2>2. From({r \in Recs(journal') : r.content # Torn}, Image)
    BY <1>3, <1>4 DEF From
  <2>3. Same /\ jdisk.size = journal.size
    BY <1>2, <1>3 DEF Same
  <2> QED
    BY <1>1, <1>2, <1>3, <1>4, <1>5, <2>1, <2>2, <2>3, HotJournal
<1>7. Control(c, pager[c].eState, "syncHeader", pager[c].op) /\ SameData(c)
  <2>1. Control(c, pager[c].eState, "syncHeader", pager[c].op)
    BY <1>1, Names, GoesControl
  <2> QED
    BY <2>1 DEF Control
<1>8. pager[c].eState = "WRITER_CACHEMOD" => Unsecured(c)'
  BY <1>1, <1>2, <1>3, <1>4 DEF Unsecured, HasHeader, LastOf
<1>9. ASSUME pager[c].eState = "WRITER_DBMOD" PROVE Secured(c)'
  <2>1. Secured(c)
    BY <1>2, <1>9
  <2>2. Records(journal', pager[c].synced) = Records(journal, pager[c].synced)
    <3>1. pager[c].synced \in Nat /\ pager[c].synced <= Len(journal.segs)
      BY <1>2, <2>1, JournalParts DEF Secured
    <3> QED
      BY <1>4, <3>1
  <2>3. \A p : Protected(p) => Protected(p)'
    BY <1>1, <1>4 DEF Protected
  <2>4. Changed(c)' = Changed(c)
    BY <1>7, DataKept
  <2> QED
    BY <1>1, <1>4, <1>5, <1>7, <2>1, <2>2, <2>3, <2>4 DEF Secured, SameData
<1>10. Journaled(c)'
  BY <1>2, <1>4, <1>6, <1>7 DEF Journaled, SameData
<1>11. Edited(c)' /\ Matching(c)'
  <2>1. Edited(c)' /\ \A p : New(c, p)' = New(c, p)
    BY <1>2, <1>6, <1>7, ImageDataKept
  <2>2. Matching(c)'
    BY <1>1, <1>2, <1>7, <2>1 DEF Matching, SameData
  <2> QED
    BY <2>1, <2>2
<1>12. Last.valid'
  BY <1>4 DEF Last, LastOf
<1>13. Works(c)'
  BY <1>2, <1>7, <1>8, <1>9, <1>10, <1>11, <1>12, DataKept DEF Works, Control
<1>14. Undoes(c)'
  BY <1>2, <1>7 DEF Undoes, Control
<1>15. Own(c)' /\ Begun(c)'
  <2>1. Typed(c)'
    BY <1>1, <1>7, StillTyped DEF Control
  <2>2. First(c)' /\ pager'[c].hasHeldSharedLock
    BY <1>1, <1>2, <1>6, <1>7 DEF SameData, First
  <2>3. "syncHeader" \in Places \ (Opens \cup {"unlock"})
    BY Names DEF Opens, Beginning
  <2>4. pager'[c].eState = "WRITER_CACHEMOD" => file' = Image'
    BY <1>1, <1>2, <1>6, <1>7 DEF Control
  <2> QED
    BY <1>1, <1>2, <1>7, <1>13, <1>14, <2>1, <2>2, <2>3, <2>4, LoggedOwn DEF Control
<1> QED
  BY <1>1, <1>2, <1>6, <1>7, <1>15 DEF Advances, Elsewhere, Sees, SameData, Settles

\* After the last header has been synced another segment may begin.
LEMMA SegmentWaits ==
    ASSUME NEW j, IsJournal(j), j.exists, Live(j), LastOf(j).valid, HasHeader(j), NEW k, k = WithSegment(j)
    PROVE  /\ IsJournal(k) /\ k.exists /\ k.txn = j.txn /\ k.size = j.size
           /\ Len(k.segs) = Len(j.segs) + 1 /\ DOMAIN k.segs = 1..(Len(j.segs) + 1)
           /\ \A i \in DOMAIN j.segs : k.segs[i] = j.segs[i]
           /\ ~LastOf(k).valid /\ Live(k) /\ HasHeader(k) /\ Recs(k) = Recs(j) /\ Playable(k) = Recs(j)
           /\ Records(k, Len(j.segs)) = Recs(j)
<1>0. IsJournal(j) /\ j.exists /\ k = WithSegment(j)
  OBVIOUS
<1>1. /\ IsJournal(k) /\ k.exists /\ k.txn = j.txn /\ k.size = j.size
      /\ Len(k.segs) = Len(j.segs) + 1 /\ DOMAIN k.segs = 1..(Len(j.segs) + 1)
      /\ ~k.segs[Len(k.segs)].valid /\ k.segs[Len(k.segs)].recs = {}
      /\ \A i \in DOMAIN j.segs : k.segs[i] = j.segs[i]
  BY ONLY <1>0, SegmentAdded
<1>2. Len(j.segs) \in DOMAIN j.segs /\ 1 \in DOMAIN j.segs /\ DOMAIN j.segs = 1..Len(j.segs) /\ Len(j.segs) \in Nat
  BY JournalParts
<1>3. \A i \in DOMAIN k.segs : \/ i \in DOMAIN j.segs /\ k.segs[i] = j.segs[i]
                               \/ i = Len(k.segs) /\ ~(i < Len(k.segs)) /\ k.segs[i].recs = {}
  BY <1>1, <1>2
<1>4. \A i \in DOMAIN j.segs : i \in DOMAIN k.segs /\ j.segs[i].valid
  BY <1>1, <1>2 DEF Live, LastOf
<1>5. ~LastOf(k).valid /\ HasHeader(k)
  BY <1>1, <1>2 DEF LastOf, HasHeader
<1>6. Live(k)
  BY <1>3, <1>4 DEF Live
<1>7. Recs(k) = Recs(j)
  <2>1. ASSUME NEW i \in DOMAIN k.segs, NEW r \in k.segs[i].recs PROVE r \in Recs(j)
    BY <1>3, <2>1 DEF Recs
  <2>2. ASSUME NEW i \in DOMAIN j.segs, NEW r \in j.segs[i].recs PROVE r \in Recs(k)
    BY <1>1, <1>4, <2>2 DEF Recs
  <2> QED
    BY <2>1, <2>2 DEF Recs
<1>8. Records(k, Len(j.segs)) = Recs(j)
  BY <1>1, <1>2 DEF Records, Recs
<1>9. Playable(k) = Recs(j)
  <2>1. Len(j.segs) = Len(k.segs) - 1
    BY <1>1, <1>2
  <2> QED
    BY <1>1, <1>5, <1>6, <1>8, <2>1, OpenEndPlays
<1> QED
  BY <1>1, <1>5, <1>6, <1>7, <1>8, <1>9

LEMMA SyncHeaderAdvances ==
    ASSUME WriterInv, StoreInv, NEW c \in Conns, SyncHeader(c)
    PROVE  Advances(c)
<1> DEFINE n == Len(journal.segs)
           recs == Recs(journal)
           work == {Record(p, pager[c].cache[p]) : p \in pager[c].dirty}
           todo == IF pager[c].op = "commit" THEN work ELSE pager[c].todo
           pg == [pager[c] EXCEPT !.at = "writePages", !.eState = "WRITER_DBMOD", !.needSync = {}, !.synced = n]
           qg == [pg EXCEPT !.todo = {Record(p, pg.cache[p]) : p \in pg.dirty}]
           q == [pager[c] EXCEPT !.at = "writePages", !.eState = "WRITER_DBMOD", !.needSync = {}, !.synced = n,
                                 !.todo = todo]
<1>1. /\ pager[c].at = "syncHeader" /\ UNCHANGED <<lock, file, txns>> /\ SyncJournal /\ jdisk' = journal
  BY DEF SyncHeader, SyncJournal
<1>2. /\ pager[c].eState \in Modifying /\ pager[c].op \in {"spill", "commit"}
      /\ lock[c] = EXCLUSIVE_LOCK /\ lock[c] \in Owners /\ lock[c] \notin Writers
      /\ FileInv /\ FileTypes /\ Own(c) /\ Typed(c) /\ pager[c] \in PagerSet /\ Works(c)
      /\ Inside(c) /\ Begun(c) /\ First(c) /\ pager[c].hasHeldSharedLock /\ Journaled(c)
      /\ pager[c].eState = "WRITER_CACHEMOD" => file = Image /\ Unsecured(c)
      /\ pager[c].eState = "WRITER_DBMOD" => Secured(c)
      /\ txns \in Nat \ {0} /\ pager[c].txn = txns
      /\ Edited(c) /\ Matching(c)
      /\ pager[c].op = "commit" => Counted(c) /\ Counting(c)
      /\ pager[c].op = "spill" => SpillTodo(c)
      /\ IsJournal(journal) /\ journal.exists
  BY <1>1, SyncParts
<1>3. LastOf(journal).valid /\ Live(journal) /\ From(recs, Image)
  BY <1>1, <1>2 DEF Works, Last, LastOf, Journaled
<1>4. HasHeader(journal)
  <2>1. CASE pager[c].eState = "WRITER_CACHEMOD"
    BY <1>2, <1>3, <2>1 DEF Unsecured, LastOf, HasHeader
  <2>2. CASE pager[c].eState = "WRITER_DBMOD"
    BY <1>2, <2>2 DEF Secured
  <2> QED
    BY <1>2, <2>1, <2>2 DEF Modifying
<1>5. Playable(journal) = recs /\ n \in DOMAIN journal.segs /\ DOMAIN journal.segs = 1..n /\ n \in Nat
  BY <1>2, <1>3, JournalParts, PlayableAll DEF LastOf
<1>6. \/ pager[c].op = "commit" /\ journal' = journal /\ Becomes(c, qg)
      \/ pager[c].op = "spill" /\ journal' = WithSegment(journal) /\ Becomes(c, pg)
  <2> HIDE DEF Becomes
  <2>1. pg.op = pager[c].op
    BY <1>2 DEF PagerSet
  <2> QED
    BY <1>2, <2>1 DEF SyncHeader, WithSegment
<1>7. pager'[c] = q
  <2>1. CASE pager[c].op = "commit"
    <3>1. pager'[c] = qg
      <4>1. Becomes(c, qg)
        BY <1>6, <2>1
      <4> HIDE DEF qg, Becomes
      <4> QED
        BY <4>1, BecomesIs
    <3>2. pg.cache = pager[c].cache /\ pg.dirty = pager[c].dirty
      BY <1>2 DEF PagerSet
    <3> QED
      BY <2>1, <3>1, <3>2
  <2>2. CASE pager[c].op = "spill"
    <3>1. pager'[c] = pg
      <4>1. Becomes(c, pg)
        BY <1>6, <2>2
      <4> HIDE DEF pg, Becomes
      <4> QED
        BY <4>1, BecomesIs
    <3>2. todo = pager[c].todo
      BY <2>2
    <3> HIDE DEF n, todo
    <3> QED
      BY <1>2, <3>1, <3>2 DEF PagerSet
  <2> QED
    BY <1>2, <2>1, <2>2
<1>8. /\ IsJournal(journal') /\ journal'.exists /\ journal'.txn = journal.txn /\ journal'.size = journal.size
      /\ Live(journal') /\ HasHeader(journal')
      /\ Recs(journal') = recs /\ Playable(journal') = recs
      /\ n \in DOMAIN journal'.segs /\ Records(journal', n) = recs
      /\ jdisk' = journal' \/ Backed'
      /\ pager[c].op = "spill" => ~LastOf(journal').valid /\ Len(journal'.segs) = n + 1
  <2>1. CASE pager[c].op = "commit"
    <3>1. journal' = journal /\ Records(journal, n) = recs
      BY <1>5, <1>6, <2>1 DEF Records, Recs
    <3> QED
      BY <1>1, <1>2, <1>3, <1>4, <1>5, <2>1, <3>1
  <2>2. CASE pager[c].op = "spill"
    <3>1. /\ IsJournal(journal') /\ journal'.exists /\ journal'.txn = journal.txn /\ journal'.size = journal.size
          /\ Len(journal'.segs) = n + 1 /\ DOMAIN journal'.segs = 1..(n + 1)
          /\ \A i \in DOMAIN journal.segs : journal'.segs[i] = journal.segs[i]
          /\ ~LastOf(journal').valid /\ Live(journal') /\ HasHeader(journal')
          /\ Recs(journal') = recs /\ Playable(journal') = recs
          /\ Records(journal', n) = recs
      BY <1>2, <1>3, <1>4, <1>6, <2>2, SegmentWaits
    <3> HIDE DEF recs
    <3>2. \A i \in DOMAIN journal'.segs : i \in DOMAIN journal.segs <=> i < Len(journal'.segs)
      BY <1>5, <3>1
    <3>3. \A i \in DOMAIN journal'.segs : journal'.segs[i].valid => i < Len(journal'.segs)
      <4>1. \A i \in DOMAIN journal'.segs : i = Len(journal'.segs) \/ i < Len(journal'.segs)
        BY <1>5, <3>1
      <4> QED
        BY <3>1, <4>1 DEF LastOf
    <3>4. Backed'
      BY <1>1, <1>3, <1>5, <3>1, <3>2, <3>3 DEF Backed
    <3> QED
      BY <1>5, <3>1, <3>4
  <2> QED
    BY <1>2, <2>1, <2>2
<1>9. FileInv' /\ Image' = Image /\ Durable' = Image
  BY <1>1, <1>2, <1>4, <1>5, <1>8, JournalSynced
<1>10. /\ pager[c].op = "commit" => todo = {Record(p, txns) : p \in pager[c].dirty}
       /\ todo \in SUBSET RecordSet /\ todo # {}
       /\ \A r \in todo : r.page \in pager[c].dirty /\ r = Record(r.page, txns) /\ r.content = txns
  <2>1. CASE pager[c].op = "commit"
    <3>1. \A p \in pager[c].dirty : p \in Pages /\ pager[c].cache[p] = txns
      BY <1>2 DEF Edited, PagerSet
    <3>2. todo = {Record(p, txns) : p \in pager[c].dirty}
      BY <2>1, <3>1
    <3>3. txns \in 0..Torn /\ 1 \in pager[c].dirty
      BY <1>2, <2>1, FileParts, Numbers DEF Counting
    <3>4. \A p \in Pages : /\ Record(p, txns) \in RecordSet /\ Record(p, txns).page = p
                            /\ Record(p, txns).content = txns
      BY <3>3 DEF Record, RecordSet
    <3> HIDE DEF todo
    <3>5. todo # {} /\ Record(1, txns) \in todo
      BY <3>2, <3>3
    <3>6. ASSUME NEW r \in todo
          PROVE  r \in RecordSet /\ r.page \in pager[c].dirty /\ r = Record(r.page, txns) /\ r.content = txns
      <4>1. PICK p \in pager[c].dirty : r = Record(p, txns)
        BY <3>2
      <4> QED
        BY <3>1, <3>4, <4>1
    <3> QED
      BY <3>2, <3>5, <3>6
  <2>2. CASE pager[c].op = "spill"
    <3>1. PICK p \in pager[c].dirty \ {1} : pager[c].todo = {Record(p, txns)}
      BY <1>2, <2>2 DEF SpillTodo
    <3>2. todo = {Record(p, txns)} /\ pager[c].op # "commit" /\ todo \in SUBSET RecordSet
      BY <1>2, <2>2, <3>1 DEF PagerSet
    <3>3. Record(p, txns).page = p /\ Record(p, txns).content = txns
      BY DEF Record
    <3> HIDE DEF todo
    <3> QED
      BY <3>1, <3>2, <3>3
  <2> QED
    BY <1>2, <2>1, <2>2
<1> HIDE DEF todo, recs, n
<1>11. /\ pager'[c] \in PagerSet /\ pager'[c].eState = "WRITER_DBMOD" /\ pager'[c].at = "writePages"
       /\ pager'[c].op = pager[c].op /\ pager'[c].cache = pager[c].cache
       /\ pager'[c].dbFileVers = pager[c].dbFileVers
       /\ pager'[c].hasHeldSharedLock = pager[c].hasHeldSharedLock
       /\ pager'[c].dbSize = pager[c].dbSize /\ pager'[c].dbOrigSize = pager[c].dbOrigSize
       /\ pager'[c].inJournal = pager[c].inJournal /\ pager'[c].dirty = pager[c].dirty
       /\ pager'[c].needSync = {} /\ pager'[c].synced = n
       /\ pager'[c].todo = todo /\ pager'[c].txn = pager[c].txn
  <2>1. "writePages" \in Places /\ "WRITER_DBMOD" \in States /\ {} \in SUBSET Pages
    BY Names
  <2>2. pager[c] \in PagerSet /\ todo \in SUBSET RecordSet /\ n \in Nat
    BY <1>2, <1>5, <1>10
  <2>3. pager'[c] \in PagerSet
    BY ONLY <1>7, <2>1, <2>2 DEF PagerSet
  <2> QED
    BY <1>7, <2>2, <2>3 DEF PagerSet
<1> HIDE DEF pg, qg, q, work
<1>12. Changed(c)' = Changed(c) /\ \A p : New(c, p)' = New(c, p)
  <2>1. Changed(c)' = Changed(c)
    BY <1>11 DEF Changed
  <2> QED
    BY <1>9, <1>11, <2>1 DEF New
<1>13. \A p \in Changed(c) : Protected(p)'
  <2>1. \A p \in pager[c].inJournal : Has(recs, p)
    BY <1>2 DEF Journaled, recs, PagerSet
  <2>2. \A p \in Changed(c) : p \in pager[c].inJournal \/ p > journal.size
    BY <1>2, Numbers DEF Changed, Journaled, PagerSet
  <2> QED
    BY <1>1, <1>4, <1>5, <1>8, <2>1, <2>2 DEF Protected
<1>14. Typed(c)'
  BY <1>1, <1>2, <1>11 DEF Typed
<1>15. Journaled(c)'
  BY <1>2, <1>8, <1>9, <1>11 DEF Journaled, recs
<1>16. Secured(c)'
  BY <1>1, <1>4, <1>5, <1>8, <1>11, <1>12, <1>13 DEF Secured
<1>17. Edited(c)' /\ Matching(c)'
  <2>1. Edited(c)'
    BY <1>2, <1>11, <1>12 DEF Edited
  <2>2. Matching(c)'
    BY <1>1, <1>2, <1>11, <1>12 DEF Matching
  <2> QED
    BY <2>1, <2>2
<1>18. pager[c].op = "commit" => Counted(c)' /\ Counting(c)' /\ CommitTodo(c)'
  <2> SUFFICES ASSUME pager[c].op = "commit" PROVE Counted(c)' /\ Counting(c)' /\ CommitTodo(c)'
    OBVIOUS
  <2>1. Counted(c)' /\ Counting(c)'
    BY <1>2, <1>11, <1>12 DEF Counted, Counting
  <2>2. \A p \in pager[c].dirty : Record(p, txns) \in todo
    BY <1>10
  <2>3. CommitTodo(c)'
    BY <1>1, <1>2, <1>10, <1>11, <2>1, <2>2 DEF CommitTodo, Counting
  <2> QED
    BY <2>1, <2>3
<1>19. pager[c].op = "spill" => SpillTodo(c)' /\ OpenEnd(c)' /\ OpenSynced(c)'
  <2>1. pager[c].op = "spill" => SpillTodo(c)'
    BY <1>2, <1>11 DEF SpillTodo, todo
  <2>2. pager[c].op = "spill" => OpenEnd(c)' /\ OpenSynced(c)'
    BY <1>5, <1>8, <1>11 DEF OpenEnd, OpenSynced, Last, LastOf
  <2> QED
    BY <2>1, <2>2
<1>20. Works(c)'
  BY <1>2, <1>11, <1>15, <1>16, <1>17, <1>18, <1>19 DEF Works
<1>21. Undoes(c)'
  <2>1. \A r \in todo : Protected(r.page)' /\ r.content <= txns /\ r.content # Beyond
    BY <1>2, <1>10, <1>13, Numbers DEF Edited
  <2>2. Writable(c)'
    BY <1>1, <1>8, <1>10, <1>11, <2>1 DEF Writable
  <2> QED
    BY <1>2, <1>11, <2>2 DEF Undoes
<1>22. Own(c)' /\ Begun(c)'
  <2>1. First(c)' /\ pager'[c].hasHeldSharedLock
    BY <1>1, <1>2, <1>9, <1>11 DEF First
  <2>2. "writePages" \in Places \ (Opens \cup {"unlock"})
    BY Names DEF Opens, Beginning
  <2>3. pager'[c].eState \in Modifying
    BY <1>11 DEF Modifying
  <2> QED
    BY <1>1, <1>2, <1>11, <1>14, <1>20, <1>21, <2>1, <2>2, <2>3, LoggedOwn
<1> QED
  BY <1>1, <1>2, <1>9, <1>11, <1>22 DEF Advances, Elsewhere, Sees, Settles

-----------------------------------------------------------------------------
(* Pages are written.                                                      *)

\* What the pager is left with by a page, the last one or not.
PageParts(q, pg, r) ==
    LET rest == pg.todo \ {r} IN
    /\ q \in PagerSet /\ q.eState = pg.eState /\ q.hasHeldSharedLock = pg.hasHeldSharedLock
    /\ q.dbSize = pg.dbSize /\ q.dbOrigSize = pg.dbOrigSize /\ q.inJournal = pg.inJournal
    /\ q.needSync = pg.needSync /\ q.synced = pg.synced /\ q.txn = pg.txn /\ q.todo = rest
    /\ q.dbFileVers = IF r.page = 1 THEN r.content ELSE pg.dbFileVers
    /\ \/ rest # {} /\ q.at = pg.at /\ q.op = pg.op /\ q.cache = pg.cache /\ q.dirty = pg.dirty
       \/ /\ rest = {} /\ pg.op = "spill" /\ q.at = "idle" /\ q.op = "none" /\ q.dirty = pg.dirty \ {r.page}
          /\ q.cache = pg.cache
       \/ rest = {} /\ pg.op # "spill" /\ q.at = "syncFile" /\ q.op = pg.op /\ q.cache = pg.cache /\ q.dirty = {}

LEMMA PageWrittenIs ==
    ASSUME NEW pg \in PagerSet, NEW r \in pg.todo, NEW q, q = PageWritten(pg, r)
    PROVE  PageParts(q, pg, r)
<1> DEFINE rest == pg.todo \ {r}
           vers == IF r.page = 1 THEN r.content ELSE pg.dbFileVers
           written == [pg EXCEPT !.todo = rest, !.dbFileVers = vers]
           spilled == [written EXCEPT !.at = "idle", !.op = "none", !.dirty = @ \ {r.page}]
           synced == [written EXCEPT !.at = "syncFile", !.dirty = {}]
<1>1. r.page \in Pages /\ r.content \in Nat /\ rest \in SUBSET RecordSet
  <2>1. r \in RecordSet /\ rest \in SUBSET RecordSet
    BY DEF PagerSet
  <2> QED
    BY <2>1, Numbers DEF RecordSet
<1>2. vers \in Nat
  BY <1>1 DEF PagerSet
<1>3. \/ rest # {} /\ q = written
      \/ rest = {} /\ pg.op = "spill" /\ q = spilled
      \/ rest = {} /\ pg.op # "spill" /\ q = synced
  <2>1. CASE rest # {}
    BY <2>1 DEF PageWritten
  <2>2. CASE rest = {} /\ pg.op = "spill"
    BY <2>2 DEF PageWritten
  <2>3. CASE rest = {} /\ pg.op # "spill"
    BY <2>3 DEF PageWritten
  <2> QED
    BY <2>1, <2>2, <2>3
<1> HIDE DEF rest, vers
<1>4. /\ written \in PagerSet /\ written.eState = pg.eState /\ written.at = pg.at /\ written.op = pg.op
      /\ written.hasHeldSharedLock = pg.hasHeldSharedLock
      /\ written.dbSize = pg.dbSize /\ written.dbOrigSize = pg.dbOrigSize /\ written.inJournal = pg.inJournal
      /\ written.needSync = pg.needSync /\ written.synced = pg.synced /\ written.txn = pg.txn
      /\ written.todo = rest /\ written.dbFileVers = vers /\ written.cache = pg.cache /\ written.dirty = pg.dirty
  BY <1>1, <1>2 DEF PagerSet
<1> HIDE DEF written
<1>6. /\ spilled \in PagerSet /\ spilled.eState = pg.eState /\ spilled.at = "idle" /\ spilled.op = "none"
      /\ spilled.hasHeldSharedLock = pg.hasHeldSharedLock
      /\ spilled.dbSize = pg.dbSize /\ spilled.dbOrigSize = pg.dbOrigSize /\ spilled.inJournal = pg.inJournal
      /\ spilled.needSync = pg.needSync /\ spilled.synced = pg.synced /\ spilled.txn = pg.txn
      /\ spilled.todo = rest /\ spilled.dbFileVers = vers /\ spilled.cache = pg.cache
      /\ spilled.dirty = pg.dirty \ {r.page}
  <2>1. spilled = [written EXCEPT !.at = "idle", !.op = "none", !.dirty = pg.dirty \ {r.page}]
    BY <1>4 DEF PagerSet
  <2>2. pg.dirty \ {r.page} \in SUBSET Pages
    BY DEF PagerSet
  <2>3. spilled \in PagerSet
    <3>1. written \in PagerSet
      BY <1>4
    <3> QED
      BY ONLY <2>1, <2>2, <3>1, Names DEF PagerSet
  <2> QED
    BY <1>4, <2>1, <2>3 DEF PagerSet
<1>7. /\ synced \in PagerSet /\ synced.eState = pg.eState /\ synced.at = "syncFile" /\ synced.op = pg.op
      /\ synced.hasHeldSharedLock = pg.hasHeldSharedLock
      /\ synced.dbSize = pg.dbSize /\ synced.dbOrigSize = pg.dbOrigSize /\ synced.inJournal = pg.inJournal
      /\ synced.needSync = pg.needSync /\ synced.synced = pg.synced /\ synced.txn = pg.txn
      /\ synced.todo = rest /\ synced.dbFileVers = vers /\ synced.cache = pg.cache /\ synced.dirty = {}
  BY <1>4, Names DEF PagerSet
<1> HIDE DEF spilled, synced
<1>8. CASE rest # {} /\ q = written
  BY <1>4, <1>8 DEF PageParts, rest, vers
<1>9. CASE rest = {} /\ pg.op = "spill" /\ q = spilled
  BY <1>6, <1>9 DEF PageParts, rest, vers
<1>10. CASE rest = {} /\ pg.op # "spill" /\ q = synced
  BY <1>7, <1>10 DEF PageParts, rest, vers
<1> QED
  BY <1>3, <1>8, <1>9, <1>10

\* A page is written where the journal protects it, and nothing changes for a reader.
LEMMA PageFiles ==
    ASSUME FileInv, HasHeader(journal), NEW r \in RecordSet, Protected(r.page),
           r.page <= journal.size => r.content # Beyond,
           file' = [file EXCEPT ![r.page] = r.content], UNCHANGED <<disk, journal, jdisk, txns>>
    PROVE  /\ FileInv' /\ Image' = Image /\ Durable' = Durable
           /\ \A p \in Pages : file'[p] = IF p = r.page THEN r.content ELSE file[p]
<1>1. Hot /\ FileTypes /\ r.page \in Pages /\ r.content \in 0..Torn
  BY FileParts DEF RecordSet
<1>2. /\ file' \in [Pages -> 0..Torn] /\ disk' \in [Pages -> 0..Torn]
      /\ \A p \in Pages : file'[p] = IF p = r.page THEN r.content ELSE file[p]
  BY <1>1 DEF FileTypes
<1>3. \A p \in Pages : Protected(p) \/ (file'[p] = Image[p] /\ disk'[p] = Image[p])
  BY <1>1, <1>2 DEF Hot
<1>4. \A p \in Pages : p <= journal.size => file'[p] # Beyond /\ disk'[p] # Beyond
  BY <1>1, <1>2 DEF Hot
<1> QED
  BY <1>2, <1>3, <1>4, HotStep

\* Where pages are written.
LEMMA WriteParts ==
    ASSUME WriterInv, StoreInv, NEW c \in Conns, pager[c].at = "writePages"
    PROVE  /\ lock[c] = EXCLUSIVE_LOCK /\ lock[c] \in Owners /\ lock[c] \notin Writers
           /\ FileInv /\ FileTypes /\ Own(c) /\ Typed(c) /\ pager[c] \in PagerSet
           /\ Writable(c) /\ HasHeader(journal)
           /\ \/ pager[c].eState = "OPEN" /\ pager[c].op = "hot"
              \/ pager[c].eState = "WRITER_DBMOD" /\ pager[c].op \in {"spill", "commit", "rollback"}
           /\ \A r \in pager[c].todo : r \in RecordSet /\ r.page \in Pages /\ r.content \in 0..txns
           /\ pager[c].op = "spill" => \E r \in pager[c].todo : pager[c].todo = {r}
<1>1. Armed(c) /\ Stands(c) /\ Own(c) /\ Typed(c) /\ pager[c] \in PagerSet /\ FileInv /\ FileTypes
  BY DEF WriterInv, AloneInv, StoreInv, Own, Typed, FileInv
<1>2. lock[c] = EXCLUSIVE_LOCK /\ lock[c] \in Owners /\ lock[c] \notin Writers
  BY <1>1, LockNames DEF Armed, Exclusively, EXCLUSIVE_LOCK, RESERVED_LOCK, PENDING_LOCK, Writers
<1>3. Writable(c) /\ HasHeader(journal) /\ pager[c].todo # {}
  BY <1>1 DEF Own, Undoes, Writable
<1>4. \A r \in pager[c].todo : r \in RecordSet /\ r.page \in Pages /\ r.content \in 0..txns
  <2> SUFFICES ASSUME NEW r \in pager[c].todo
               PROVE  r \in RecordSet /\ r.page \in Pages /\ r.content \in 0..txns
    OBVIOUS
  <2>1. r \in RecordSet /\ r.content <= txns /\ txns \in Nat
    BY <1>1, <1>3, FileParts DEF PagerSet, Writable
  <2>2. r.page \in Pages /\ r.content \in 0..Torn
    BY <2>1 DEF RecordSet
  <2> QED
    BY <2>1, <2>2, Numbers
<1>5. pager[c].eState # "WRITER_CACHEMOD"
  <2> SUFFICES ASSUME pager[c].eState = "WRITER_CACHEMOD" PROVE FALSE
    OBVIOUS
  <2>1. ~HasHeader(jdisk)
    BY <1>3, LoggedParts DEF Modifying, Unsecured
  <2>2. PICK r \in pager[c].todo : TRUE
    BY <1>3
  <2> QED
    BY <1>3, <2>1, <2>2 DEF Writable, Protected
<1>6. \/ pager[c].eState = "OPEN" /\ pager[c].op = "hot"
      \/ pager[c].eState = "WRITER_DBMOD" /\ pager[c].op \in {"spill", "commit", "rollback"}
  BY <1>1, <1>5 DEF Stands, PagerSet, States, Transacting, Logged, Modifying
<1>7. pager[c].op = "spill" => \E r \in pager[c].todo : pager[c].todo = {r}
  <2> SUFFICES ASSUME pager[c].op = "spill" PROVE \E r \in pager[c].todo : pager[c].todo = {r}
    OBVIOUS
  <2>1. SpillTodo(c)
    BY <1>1, <1>6 DEF Own, Works, Inside, Logged, Modifying
  <2> QED
    BY <2>1 DEF SpillTodo
<1> QED
  BY <1>1, <1>2, <1>3, <1>4, <1>6, <1>7

\* What is left to write is still to be written, and still undoes the transaction.
LEMMA RestWritable ==
    ASSUME NEW c \in Conns, Writable(c), pager'[c].todo \subseteq pager[c].todo, pager'[c].todo # {},
           UNCHANGED <<journal, jdisk, txns>>
    PROVE  Writable(c)'
  BY DEF Writable, Protected

LEMMA RestUndoing ==
    ASSUME NEW c \in Conns, Undoing(c), NEW r \in pager[c].todo, pager'[c].todo = pager[c].todo \ {r},
           \A p \in Pages : file'[p] = IF p = r.page THEN r.content ELSE file[p], Image' = Image
    PROVE  Undoing(c)'
<1>1. From(pager[c].todo, Image) /\ r.content = Image[r.page]
  BY DEF Undoing, From
<1>2. From(pager'[c].todo, Image)
  BY <1>1 DEF From
<1>3. ASSUME NEW p \in Pages PROVE file'[p] = Image[p] \/ Has(pager'[c].todo, p)
  <2>1. CASE p = r.page
    BY <1>1, <2>1
  <2>2. CASE p # r.page /\ file[p] = Image[p]
    BY <2>2
  <2>3. CASE p # r.page /\ Has(pager[c].todo, p)
    BY <2>3 DEF Has
  <2> QED
    BY <2>1, <2>2, <2>3 DEF Undoing
<1> QED
  BY <1>2, <1>3 DEF Undoing

\* When nothing is left the file is the image.
LEMMA Undone ==
    ASSUME NEW c \in Conns, Undoing(c)', pager'[c].todo = {}, FileInv'
    PROVE  file' = Image'
<1>1. \A p \in Pages : file'[p] = Image'[p]
  BY DEF Undoing, Has
<1>2. file' \in [Pages -> 0..Torn] /\ Image' \in [Pages -> 0..txns']
  BY DEF FileInv, FileTypes, IsImage
<1> QED
  BY <1>1, <1>2

LEMMA WritePageAdvances ==
    ASSUME WriterInv, StoreInv, NEW c \in Conns, WritePage(c)
    PROVE  Advances(c)
<1>1. /\ pager[c].at = "writePages" /\ UNCHANGED <<lock, journal, disk, jdisk, txns>>
  BY DEF WritePage
<1>2. PICK r \in pager[c].todo :
         file' = [file EXCEPT ![r.page] = r.content] /\ Becomes(c, PageWritten(pager[c], r))
  <2> HIDE DEF Becomes
  <2> QED
    BY DEF WritePage
<1>3. /\ lock[c] = EXCLUSIVE_LOCK /\ lock[c] \in Owners /\ lock[c] \notin Writers
      /\ FileInv /\ FileTypes /\ Own(c) /\ Typed(c) /\ pager[c] \in PagerSet
      /\ Writable(c) /\ HasHeader(journal)
      /\ \/ pager[c].eState = "OPEN" /\ pager[c].op = "hot"
         \/ pager[c].eState = "WRITER_DBMOD" /\ pager[c].op \in {"spill", "commit", "rollback"}
      /\ \A x \in pager[c].todo : x \in RecordSet /\ x.page \in Pages /\ x.content \in 0..txns
      /\ pager[c].op = "spill" => \E x \in pager[c].todo : pager[c].todo = {x}
  BY <1>1, WriteParts
<1> DEFINE pg == pager[c]
           q == pager'[c]
           rest == pg.todo \ {r}
<1>4. r \in RecordSet /\ r.page \in Pages /\ r.content \in 0..txns /\ Protected(r.page)
      /\ (r.page <= journal.size => r.content # Beyond)
  BY <1>3 DEF Writable
<1>5. /\ FileInv' /\ Image' = Image /\ Durable' = Durable
      /\ \A p \in Pages : file'[p] = IF p = r.page THEN r.content ELSE file[p]
  BY <1>1, <1>2, <1>3, <1>4, PageFiles
<1>6. pager'[c] = PageWritten(pager[c], r)
  <2> HIDE DEF Becomes
  <2> QED
    BY <1>2, BecomesIs
<1>7. PageParts(pager'[c], pager[c], r)
  <2>1. pager[c].op = "spill" => pager[c].todo = {r}
    BY <1>3
  <2>2. pager[c] \in PagerSet /\ r \in pager[c].todo
    BY <1>3
  <2> QED
    BY ONLY <1>6, <2>1, <2>2, PageWrittenIs
<1>8. /\ q \in PagerSet /\ q.eState = pg.eState /\ q.hasHeldSharedLock = pg.hasHeldSharedLock
      /\ q.dbSize = pg.dbSize /\ q.dbOrigSize = pg.dbOrigSize /\ q.inJournal = pg.inJournal
      /\ q.needSync = pg.needSync /\ q.synced = pg.synced /\ q.txn = pg.txn /\ q.todo = rest
      /\ q.dbFileVers = IF r.page = 1 THEN r.content ELSE pg.dbFileVers
      /\ \/ rest # {} /\ q.at = "writePages" /\ q.op = pg.op /\ q.cache = pg.cache /\ q.dirty = pg.dirty
         \/ /\ rest = {} /\ pg.op = "spill" /\ q.at = "idle" /\ q.op = "none" /\ q.dirty = pg.dirty \ {r.page}
            /\ q.cache = pg.cache
         \/ /\ rest = {} /\ pg.op # "spill" /\ q.at = "syncFile" /\ q.op = pg.op /\ q.cache = pg.cache
            /\ q.dirty = {}
  BY <1>1, <1>7 DEF PageParts
<1>9. Typed(c)'
  <2>1. r.content <= txns /\ Beyond <= txns
    BY <1>3, <1>4, FileParts, Numbers
  <2>2. pg.dbFileVers <= txns /\ \A p \in Pages : pg.cache[p] <= txns
    BY <1>3 DEF Typed
  <2> QED
    BY <1>1, <1>8, <2>1, <2>2 DEF Typed
<1>10. rest # {} => Writable(c)'
  BY <1>1, <1>3, <1>8, RestWritable
<1>11. Undoing(c) => Undoing(c)' /\ (rest = {} => file' = Image)
  <2>1. Undoing(c) => Undoing(c)'
    BY <1>2, <1>5, <1>8, RestUndoing
  <2>2. rest = {} /\ Undoing(c)' => file' = Image'
    BY <1>5, <1>8, Undone
  <2> QED
    BY <1>5, <2>1, <2>2
<1> SUFFICES Own(c)' /\ (Begun(c)' => Begun(c))
  BY <1>1, <1>3, <1>5, <1>8 DEF Advances, Elsewhere, Sees, Settles
<1>12. CASE pg.eState = "OPEN" /\ pg.op = "hot"
  <2>1. Unused(c) /\ Unheld(c) /\ Emptied(c) /\ Undoing(c)
    BY <1>1, <1>3, <1>12 DEF Own, Reads, Undoes
  <2>2. Unused(c)' /\ Unheld(c)' /\ Emptied(c)' /\ Valid(c)'
    <3>1. \A p \in Pages : q.cache[p] = Beyond
      BY <1>8, <1>12, <2>1 DEF Emptied, NoPages
    <3> QED
      BY <1>8, <1>12, <2>1, <3>1 DEF Unused, Unheld, Emptied, Valid
  <2>3. Undoes(c)'
    BY <1>5, <1>8, <1>10, <1>11, <1>12, <2>1, <2>2 DEF Undoes
  <2>4. ~Calming(c)'
    BY <1>1, <1>3, <1>8, <1>12 DEF Calming
  <2>5. q.at \in {"writePages", "syncFile"} /\ q.op = "hot" /\ lock'[c] # NO_LOCK
    BY <1>1, <1>3, <1>8, <1>12, LockNames
  <2>6. Own(c)'
    BY <1>8, <1>9, <1>12, <2>2, <2>3, <2>4, <2>5, OpenerOwn
  <2>7. ~Begun(c)'
    BY <1>8, <1>12, <2>5 DEF Begun, Transacting, Logged, Modifying
  <2> QED
    BY <2>6, <2>7
<1>13. CASE pg.eState = "WRITER_DBMOD" /\ pg.op \in {"spill", "commit", "rollback"}
  <2>1. /\ Works(c) /\ Inside(c) /\ Begun(c) /\ First(c) /\ pg.hasHeldSharedLock
        /\ Journaled(c) /\ Secured(c) /\ txns \in Nat \ {0} /\ pg.txn = txns
    BY <1>1, <1>13, LoggedParts DEF Modifying
  <2>2. Changed(c)' = Changed(c) /\ \A p : New(c, p)' = New(c, p)
    <3>1. Changed(c)' = Changed(c)
      BY <1>8 DEF Changed
    <3> QED
      BY <1>5, <1>8, <3>1 DEF New
  <2>3. Secured(c)'
    BY <1>1, <1>8, <2>1, <2>2 DEF Secured, Protected
  <2>4. First(c)' /\ q.hasHeldSharedLock
    BY <1>1, <1>5, <1>8, <2>1 DEF First
  <2>5. q.dbFileVers \in {Image[1], txns} /\ (q.dbFileVers # Image[1] => q.cache[1] # Beyond) => Journaled(c)'
    BY <1>1, <1>5, <1>8, <2>1 DEF Journaled
  <2>6. ASSUME Works(c)', Undoes(c)', q.at \in {"idle", "writePages", "syncFile"},
               q.at = "writePages" => q.op \in {"spill", "commit", "rollback"},
               q.at = "syncFile" => q.op \in {"commit", "rollback"},
               q.at = "idle" => q.op # "rollback"
        PROVE  Own(c)' /\ (Begun(c)' => Begun(c))
    <3>1. q.at \in Places \ (Opens \cup {"unlock"})
      BY <2>6, Names DEF Opens, Beginning
    <3>2. q.eState \in Modifying /\ q.eState # "WRITER_CACHEMOD"
      BY <1>8, <1>13 DEF Modifying
    <3> QED
      BY <1>1, <1>3, <1>9, <2>1, <2>4, <2>6, <3>1, <3>2, LoggedOwn
  <2>7. CASE pg.op = "rollback"
    <3>1. Clean(c) /\ Current(c) /\ Resized(c) /\ Undoing(c)
      BY <1>1, <1>3, <2>1, <2>7 DEF Works, Own, Undoes
    <3>2. q.dbFileVers = Image[1] /\ q.cache = pg.cache
      BY <1>2, <1>8, <2>7, <3>1 DEF Undoing, From, Current
    <3>3. Clean(c)' /\ Current(c)' /\ Resized(c)'
      BY <1>5, <1>8, <3>1, <3>2 DEF Clean, Current, Resized
    <3>4. Works(c)'
      BY <1>8, <1>13, <2>3, <2>5, <2>7, <3>2, <3>3 DEF Works
    <3>5. Undoes(c)'
      BY <1>5, <1>8, <1>10, <1>11, <2>7, <3>1 DEF Undoes
    <3> QED
      BY <1>8, <2>6, <2>7, <3>4, <3>5
  <2>8. CASE pg.op = "commit"
    <3>1. Edited(c) /\ Matching(c) /\ Counted(c) /\ Counting(c) /\ CommitTodo(c)
      BY <1>1, <2>1, <2>8 DEF Works
    <3>2. /\ r.page \in pg.dirty /\ r = Record(r.page, txns) /\ r.content = txns
          /\ \A p \in Pages : Record(p, txns).page = p
      <4>1. r.page \in pg.dirty /\ r = Record(r.page, txns)
        BY <1>2, <2>1, <3>1 DEF CommitTodo
      <4> QED
        BY <4>1 DEF Record
    <3>3. q.cache = pg.cache
      BY <1>8, <2>8
    <3>4. \A p \in pg.dirty : Record(p, txns) \in rest \/ file'[p] = txns
      <4> SUFFICES ASSUME NEW p \in pg.dirty PROVE Record(p, txns) \in rest \/ file'[p] = txns
        OBVIOUS
      <4>1. p \in Pages
        BY <1>3 DEF PagerSet
      <4>2. CASE p = r.page
        BY <1>5, <3>2, <4>1, <4>2
      <4>3. CASE p # r.page
        BY <1>5, <2>1, <3>1, <3>2, <4>1, <4>3 DEF CommitTodo
      <4> QED
        BY <4>2, <4>3
    <3>5. Record(1, txns) \in rest \/ q.dbFileVers = txns
      <4>1. CASE r.page = 1
        BY <1>8, <3>2, <4>1
      <4>2. CASE r.page # 1
        <5>1. Record(1, txns) \in pg.todo \/ pg.dbFileVers = txns
          BY <2>1, <3>1 DEF CommitTodo
        <5>2. Record(1, txns) # r /\ q.dbFileVers = pg.dbFileVers
          BY <1>8, <3>2, <4>2, Numbers
        <5> QED
          BY <5>1, <5>2
      <4> QED
        BY <4>1, <4>2
    <3>6. \A x \in rest : x.page \in pg.dirty /\ x = Record(x.page, txns)
      BY <2>1, <3>1 DEF CommitTodo
    <3>7. q.dbFileVers \in {Image[1], txns} /\ (q.dbFileVers # Image[1] => q.cache[1] # Beyond)
      <4>1. pg.cache[1] # Beyond
        BY <2>1, <3>1, Numbers DEF Edited, Counting
      <4> QED
        BY <1>8, <2>1, <3>2, <3>3, <4>1 DEF Journaled
    <3>8. Journaled(c)' /\ Counted(c)'
      BY <2>2, <2>5, <3>1, <3>7 DEF Counted
    <3>9. CASE rest # {}
      <4>1. q.at = "writePages" /\ q.op = "commit" /\ q.dirty = pg.dirty
        BY <1>8, <2>8, <3>9
      <4>2. Edited(c)' /\ Counting(c)'
        BY <1>8, <2>2, <3>1, <3>3, <4>1 DEF Edited, Counting
      <4>3. Matching(c)'
        BY <1>5, <2>2, <3>1, <3>2, <4>1 DEF Matching
      <4>4. CommitTodo(c)'
        BY <1>8, <2>1, <3>4, <3>5, <3>6, <4>1 DEF CommitTodo
      <4>5. Works(c)'
        BY <1>8, <1>13, <2>3, <3>8, <4>1, <4>2, <4>3, <4>4 DEF Works
      <4>6. Undoes(c)'
        BY <1>10, <3>9, <4>1 DEF Undoes
      <4> QED
        BY <2>6, <4>1, <4>5, <4>6
    <3>10. CASE rest = {}
      <4>1. q.at = "syncFile" /\ q.op = "commit" /\ q.dirty = {}
        BY <1>8, <2>8, <3>10
      <4>2. Edited(c)'
        BY <1>8, <2>2, <3>1, <3>3, <4>1 DEF Edited
      <4>3. Matching(c)'
        <5> SUFFICES ASSUME NEW p \in Pages PROVE file'[p] = New(c, p)'
          BY DEF Matching
        <5>1. CASE p \in pg.dirty
          BY <2>1, <2>2, <3>1, <3>4, <3>10, <5>1 DEF Edited, New
        <5>2. CASE p \notin pg.dirty
          BY <1>5, <2>2, <3>1, <3>2, <5>2 DEF Matching
        <5> QED
          BY <5>1, <5>2
      <4>4. Committed(c)'
        BY <1>8, <2>1, <3>5, <3>10, <4>1 DEF Committed
      <4>5. Works(c)'
        BY <1>8, <1>13, <2>3, <3>8, <4>1, <4>2, <4>3, <4>4 DEF Works
      <4>6. Undoes(c)'
        BY <4>1 DEF Undoes
      <4> QED
        BY <2>6, <4>1, <4>5, <4>6
    <3> QED
      BY <3>9, <3>10
  <2>9. CASE pg.op = "spill"
    <3>1. Edited(c) /\ Matching(c) /\ SpillTodo(c) /\ OpenEnd(c) /\ OpenSynced(c)
      BY <1>1, <1>13, <2>1, <2>9 DEF Works
    <3>2. r.page \in pg.dirty \ {1} /\ r.content = txns /\ rest = {}
      <4>1. PICK p \in pg.dirty \ {1} : pg.todo = {Record(p, txns)}
        BY <2>1, <3>1 DEF SpillTodo
      <4>2. Record(p, txns).page = p /\ Record(p, txns).content = txns
        BY DEF Record
      <4> QED
        BY <1>2, <4>1, <4>2
    <3>3. /\ q.at = "idle" /\ q.op = "none" /\ q.dirty = pg.dirty \ {r.page}
          /\ q.cache = pg.cache
      BY <1>8, <2>9, <3>2
    <3>4. Edited(c)'
      <4>1. pg.dirty \subseteq Pages
        BY <1>3 DEF PagerSet
      <4> QED
        BY <1>8, <2>2, <3>1, <3>3, <4>1 DEF Edited
    <3>5. Matching(c)'
      <4> SUFFICES ASSUME NEW p \in Pages \ q.dirty PROVE file'[p] = New(c, p)'
        BY DEF Matching
      <4>1. CASE p = r.page
        BY <1>5, <2>1, <2>2, <3>1, <3>2, <4>1 DEF Edited, New
      <4>2. CASE p # r.page
        BY <1>5, <2>2, <3>1, <3>3, <4>2 DEF Matching
      <4> QED
        BY <4>1, <4>2
    <3>6. Journaled(c)'
      <4>1. q.dbFileVers = pg.dbFileVers /\ q.cache[1] = pg.cache[1]
        BY <1>8, <3>2, <3>3, Numbers
      <4> QED
        BY <2>1, <2>5, <4>1 DEF Journaled
    <3>7. OpenEnd(c)' /\ OpenSynced(c)'
      BY <1>1, <1>8, <3>1 DEF OpenEnd, OpenSynced, Last
    <3>8. Works(c)'
      BY <1>8, <1>13, <2>3, <3>3, <3>4, <3>5, <3>6, <3>7 DEF Works
    <3>9. Undoes(c)'
      BY <3>3 DEF Undoes
    <3> QED
      BY <2>6, <3>3, <3>8, <3>9
  <2> QED
    BY <1>13, <2>7, <2>8, <2>9
<1> QED
  BY <1>3, <1>12, <1>13

LEMMA SyncFileAdvances ==
    ASSUME WriterInv, StoreInv, NEW c \in Conns, SyncFile(c)
    PROVE  Advances(c)
<1> DEFINE state == IF pager[c].op = "commit" THEN "WRITER_FINISHED" ELSE pager[c].eState
           pg == [pager[c] EXCEPT !.at = "finalize", !.eState = state]
<1>1. /\ pager[c].at = "syncFile" /\ UNCHANGED <<lock, file, journal, jdisk, txns>> /\ disk' = file
  BY DEF SyncFile
<1>2. /\ lock[c] = EXCLUSIVE_LOCK /\ lock[c] \in Owners /\ lock[c] \notin Writers /\ lock[c] # NO_LOCK
      /\ FileInv /\ FileTypes /\ Own(c) /\ Typed(c) /\ pager[c] \in PagerSet /\ Stands(c) /\ Undoes(c)
  <2>1. Armed(c) /\ FileInv /\ FileTypes /\ Own(c) /\ Typed(c) /\ pager[c] \in PagerSet
    BY DEF WriterInv, AloneInv, StoreInv, Own, Typed, FileInv
  <2> QED
    BY <1>1, <2>1, LockNames DEF Armed, Exclusively, EXCLUSIVE_LOCK, RESERVED_LOCK, PENDING_LOCK, Writers, Own
<1>3. pager'[c] = pg
  <2>1. Becomes(c, pg)
    BY DEF SyncFile
  <2> HIDE DEF pg, Becomes
  <2> QED
    BY <2>1, BecomesIs
<1>4. Control(c, state, "finalize", pager[c].op) /\ SameData(c)
  <2>1. state \in States
    BY <1>2, Names DEF PagerSet
  <2> HIDE DEF state
  <2>2. pager'[c] \in PagerSet
    BY <1>2, <1>3, <2>1, Names DEF PagerSet
  <2> QED
    BY <1>2, <1>3, <2>2 DEF Control, SameData, PagerSet
<1> HIDE DEF pg
<1>5. FileInv' /\ Image' = Image /\ Durable' = Durable
  <2>1. CASE HasHeader(journal)
    <3>1. Hot
      BY <1>2, <2>1, FileParts
    <3>2. \A p \in Pages : Protected(p) \/ (file'[p] = Image[p] /\ disk'[p] = Image[p])
      BY <1>1, <3>1 DEF Hot
    <3>3. \A p \in Pages : p <= journal.size => file'[p] # Beyond /\ disk'[p] # Beyond
      BY <1>1, <3>1 DEF Hot
    <3>4. file' \in [Pages -> 0..Torn] /\ disk' \in [Pages -> 0..Torn]
      BY <1>1, <1>2 DEF FileTypes
    <3> QED
      BY <1>1, <1>2, <2>1, <3>2, <3>3, <3>4, HotStep
  <2>2. CASE ~HasHeader(journal)
    BY <1>1, <1>2, <2>2, QuietSync
  <2> QED
    BY <2>1, <2>2
<1>6. Typed(c)'
  BY <1>1, <1>4, StillTyped DEF Control
<1> SUFFICES Own(c)' /\ (Begun(c)' => Begun(c))
  BY <1>1, <1>2, <1>4, <1>5 DEF Advances, Elsewhere, Sees, Settles, SameData
<1>7. CASE pager[c].op = "hot"
  <2>1. pager[c].eState = "OPEN" /\ file = Image
    BY <1>1, <1>2, <1>7 DEF Stands, Undoes
  <2>2. Control(c, "OPEN", "finalize", "hot")
    BY <1>4, <1>7, <2>1
  <2>3. ~Calming(c)'
    BY <1>1, <1>2, <2>2 DEF Control, Calming
  <2>4. Own(c)'
    BY <1>1, <1>2, <1>5, <2>1, <2>2, <2>3, OpenerMoved
  <2>5. ~Begun(c)'
    BY <2>2 DEF Control, Begun, Transacting, Logged, Modifying
  <2> QED
    BY <2>4, <2>5
<1>8. CASE pager[c].op \in {"rollback", "commit"}
  <2>1. pager[c].eState \in Modifying
    BY <1>1, <1>2, <1>8 DEF Stands, PagerSet, States, Transacting, Logged, Modifying
  <2>2. /\ Works(c) /\ Inside(c) /\ Begun(c) /\ First(c) /\ pager[c].hasHeldSharedLock /\ Journaled(c)
        /\ pager[c].eState = "WRITER_CACHEMOD" => file = Image /\ Unsecured(c)
        /\ pager[c].eState = "WRITER_DBMOD" => Secured(c)
    BY <1>1, <2>1, LoggedParts
  <2>3. First(c)' /\ pager'[c].hasHeldSharedLock /\ Journaled(c)'
    BY <1>1, <1>4, <1>5, <2>2, SyncKept DEF SameData
  <2>4. CASE pager[c].op = "rollback"
    <3>1. Control(c, pager[c].eState, "finalize", "rollback")
      BY <1>4, <2>4
    <3>2. Clean(c) /\ Current(c) /\ Resized(c) /\ file = Image
      BY <1>1, <1>2, <2>2, <2>4 DEF Works, Undoes
    <3>3. Clean(c)' /\ Current(c)' /\ Resized(c)'
      BY <1>4, <1>5, <3>2, DataKept, ImageDataKept
    <3>4. pager[c].eState = "WRITER_CACHEMOD" => Unsecured(c)'
      BY <1>1, <2>2 DEF Unsecured
    <3>5. pager[c].eState = "WRITER_DBMOD" => Secured(c)'
      <4>1. Changed(c)' = Changed(c)
        BY <1>4, DataKept
      <4> QED
        BY <1>1, <1>4, <2>2, <4>1 DEF Secured, Protected, SameData
    <3>6. Works(c)'
      BY <2>3, <3>1, <3>3, <3>4, <3>5 DEF Control, Works
    <3>7. Undoes(c)'
      BY <1>1, <1>5, <3>1, <3>2 DEF Control, Undoes
    <3>8. "finalize" \in Places \ (Opens \cup {"unlock"})
      BY Names DEF Opens, Beginning
    <3> QED
      BY <1>1, <1>2, <1>5, <1>6, <2>1, <2>2, <2>3, <3>1, <3>2, <3>6, <3>7, <3>8, LoggedOwn DEF Control
  <2>5. CASE pager[c].op = "commit"
    <3>1. Control(c, "WRITER_FINISHED", "finalize", "commit")
      BY <1>4, <2>5
    <3>2. Edited(c) /\ Matching(c) /\ Counted(c) /\ Committed(c)
      BY <1>1, <2>2, <2>5 DEF Works
    <3>3. Edited(c)' /\ Matching(c)' /\ Counted(c)' /\ Committed(c)'
      BY <1>1, <1>4, <1>5, <3>2, DataKept, ImageDataKept, SyncKept
    <3>4. Begun(c)' /\ ~Reading(c)' /\ ~Calming(c)'
      BY <1>1, <1>2, <3>1 DEF Control, Begun, Reading, Calming, Transacting, Logged
    <3>5. Stands(c)'
      BY <1>1, <1>2, <3>1, <3>4 DEF Control, Stands, Modifying
    <3>6. Reads(c)'
      BY <2>3, <3>1, <3>4 DEF Control, Reads, Logged
    <3>7. Works(c)'
      BY <2>3, <3>1, <3>3 DEF Control, Works
    <3>8. Undoes(c)'
      BY <1>1, <3>1 DEF Control, Undoes
    <3> QED
      BY <1>6, <2>2, <3>5, <3>6, <3>7, <3>8 DEF Own
  <2> QED
    BY <1>8, <2>4, <2>5
<1> QED
  BY <1>1, <1>2, <1>7, <1>8 DEF Stands

-----------------------------------------------------------------------------
(* A transaction ends.                                                     *)

\* What is asked of a writer that is done, and has only to let its lock go.
LEMMA DoneOwn ==
    ASSUME NEW c \in Conns, Typed(c)', pager'[c].eState \in Logged, pager'[c].at = "unlock",
           lock'[c] # NO_LOCK, pager'[c].hasHeldSharedLock, Current(c)', Clean(c)', Calm'
    PROVE  Own(c)' /\ ~Begun(c)'
<1>1. ~Begun(c)' /\ ~Inside(c)' /\ pager'[c].eState \notin {"OPEN", "ERROR", "READER", "WRITER_LOCKED"}
  BY DEF Begun, Inside, Logged, Modifying
<1>2. Stands(c)'
  BY <1>1 DEF Stands
<1>3. Reads(c)'
  BY <1>1 DEF Reads, Calm
<1>4. Works(c)' /\ Undoes(c)'
  BY <1>1 DEF Works, Undoes
<1> QED
  BY <1>1, <1>2, <1>3, <1>4 DEF Own

\* What the pages of a transaction that has been written are.
LEMMA NewImage ==
    ASSUME FileInv, NEW c \in Conns, pager[c] \in PagerSet, pager[c].txn = txns, Journaled(c), NEW f,
           f \in [Pages -> 0..Torn], \A p \in Pages : f[p] = New(c, p)
    PROVE  IsImage(f) /\ Upto(f, pager[c].dbSize)
<1>1. /\ txns \in Nat \ {0} /\ Image \in [Pages -> 0..txns]
      /\ pager[c].dbSize \in 0..MaxPages /\ pager[c].dbOrigSize \in 0..MaxPages
  BY FileParts DEF FileInv, FileTypes, PagerSet
<1>2. \A p \in Pages : f[p] \in 0..txns
  BY <1>1 DEF New
<1>3. f \in [Pages -> 0..txns]
  BY <1>2
<1>4. ASSUME NEW p \in Pages PROVE f[p] = Beyond <=> p > pager[c].dbSize
  <2>1. Image[p] = Beyond <=> p > pager[c].dbOrigSize
    BY DEF Journaled, Upto
  <2>2. p \in Changed(c) => p <= pager[c].dbSize
    <3>1. /\ p \in Nat /\ pager[c].dbSize \in Nat /\ pager[c].dbOrigSize \in Nat
          /\ pager[c].dbOrigSize <= pager[c].dbSize
      BY <1>1, Numbers DEF Journaled
    <3>2. p \in pager[c].inJournal => p <= pager[c].dbOrigSize
      BY DEF Journaled
    <3>3. CASE p \in pager[c].inJournal
      BY ONLY <3>1, <3>2, <3>3
    <3>4. p \in Changed(c) /\ p \notin pager[c].inJournal => p <= pager[c].dbSize
      BY DEF Changed
    <3> QED
      BY <3>3, <3>4
  <2>3. p \notin Changed(c) => p <= pager[c].dbOrigSize \/ p > pager[c].dbSize
    <3>1. p \in Nat /\ pager[c].dbSize \in Nat /\ pager[c].dbOrigSize \in Nat
      BY <1>1, Numbers
    <3>2. p \notin Changed(c) => ~(pager[c].dbOrigSize < p /\ p <= pager[c].dbSize)
      BY DEF Changed
    <3> QED
      BY ONLY <3>1, <3>2
  <2>4. pager[c].dbOrigSize <= pager[c].dbSize
    BY DEF Journaled
  <2>5. CASE p \in Changed(c)
    BY <1>1, <2>2, <2>5, Numbers DEF New
  <2>6. CASE p \notin Changed(c)
    BY <1>1, <2>1, <2>3, <2>4, <2>6, Numbers DEF New
  <2> QED
    BY <2>5, <2>6
<1> QED
  BY <1>1, <1>3, <1>4 DEF IsImage, Upto

LEMMA FinalizeAdvances ==
    ASSUME WriterInv, StoreInv, NEW c \in Conns, Finalize(c)
    PROVE  Advances(c)
<1>1. /\ pager[c].at = "finalize" /\ UNCHANGED <<lock, file, disk, jdisk, txns>> /\ journal' = Deleted
      /\ Goes(c, "unlock")
  BY DEF Finalize
<1>2. /\ lock[c] \in Owners /\ lock[c] # NO_LOCK
      /\ FileInv /\ FileTypes /\ Own(c) /\ Typed(c) /\ pager[c] \in PagerSet /\ Stands(c) /\ Undoes(c)
  <2>1. Owned(c) /\ FileInv /\ FileTypes /\ Own(c) /\ Typed(c) /\ pager[c] \in PagerSet
    BY DEF WriterInv, StoreInv, Own, Typed, FileInv
  <2> QED
    BY <1>1, <2>1, LockNames DEF Owned, Deleting, Own
<1>3. Control(c, pager[c].eState, "unlock", pager[c].op) /\ SameData(c)
  <2>1. Control(c, pager[c].eState, "unlock", pager[c].op)
    BY <1>1, Names, GoesControl
  <2> QED
    BY <2>1 DEF Control
<1>4. Typed(c)'
  BY <1>1, <1>3, StillTyped DEF Control
<1>5. ~HasHeader(journal')
  BY <1>1, DeletedIs
<1> HIDE DEF Goes
<1>6. CASE pager[c].op \in {"hot", "rollback"} /\ pager[c].eState # "WRITER_FINISHED"
  <2>1. file = Image /\ (HasHeader(journal) => disk = file)
    BY <1>1, <1>2, <1>6 DEF Undoes
  <2>2. FileInv' /\ Image' = file /\ Durable' = Durable
    BY <1>1, <1>2, <2>1, JournalDeleted DEF FileInv
  <2>3. Calm' /\ Image' = Image
    BY <1>1, <1>5, <2>1, <2>2 DEF Calm
  <2>4. Own(c)' /\ ~Begun(c)'
    <3>1. CASE pager[c].eState = "OPEN"
      <4>1. Own(c)'
        BY <1>1, <1>2, <1>3, <2>3, <3>1, OpenerMoved
      <4>2. ~Begun(c)'
        BY <1>3, <3>1 DEF Control, Begun, Transacting, Logged, Modifying
      <4> QED
        BY <4>1, <4>2
    <3>2. CASE pager[c].eState \in Modifying /\ pager[c].op = "rollback"
      <4>1. Works(c) /\ pager[c].hasHeldSharedLock /\ Inside(c)
        BY <1>1, <3>2, LoggedParts
      <4>2. Clean(c) /\ Current(c)
        BY <3>2, <4>1 DEF Works
      <4>3. Clean(c)' /\ Current(c)' /\ pager'[c].hasHeldSharedLock
        BY <1>3, <2>3, <4>1, <4>2, ImageDataKept DEF SameData
      <4>4. pager'[c].eState \in Logged /\ pager'[c].at = "unlock" /\ lock'[c] # NO_LOCK
        BY <1>1, <1>2, <1>3, <3>2 DEF Control, Logged
      <4> QED
        BY <1>4, <2>3, <4>3, <4>4, DoneOwn
    <3> QED
      BY <1>1, <1>2, <1>6, <3>1, <3>2 DEF Stands
  <2> QED
    BY <1>1, <1>2, <1>3, <1>5, <2>2, <2>3, <2>4 DEF Advances, Elsewhere, Sees, Settles, SameData
<1>7. CASE pager[c].eState = "WRITER_FINISHED"
  <2>1. pager[c].op = "commit" /\ lock[c] = EXCLUSIVE_LOCK /\ disk = file
    BY <1>1, <1>2, <1>7 DEF Stands, Undoes
  <2>2. Inside(c) /\ Begun(c)
    BY <1>1, <1>7 DEF Inside, Begun, Transacting, Logged
  <2>3. /\ Journaled(c) /\ Edited(c) /\ Matching(c) /\ Counted(c) /\ Committed(c)
        /\ First(c) /\ pager[c].hasHeldSharedLock
    BY <1>1, <1>2, <1>7, <2>1, <2>2 DEF Own, Works, Reads
  <2>4. pager[c].txn = txns /\ \A p \in Pages : Image[p] < txns
    BY <2>3 DEF First
  <2>5. \A p \in Pages : file[p] = New(c, p)
    BY <2>3 DEF Matching, Committed
  <2>6. \A p \in Pages : file[p] \in {Image[p], txns}
    BY <2>4, <2>5 DEF New
  <2>7. file[1] = txns /\ pager[c].dbFileVers = txns
    BY <2>3, <2>4, <2>5, Numbers DEF New, Counted, Committed
  <2>8. IsImage(file) /\ Upto(file, pager[c].dbSize)
    BY <1>2, <2>3, <2>4, <2>5, NewImage DEF FileTypes
  <2>9. FileInv' /\ Image' = file /\ Durable' = Durable
    BY <1>1, <1>2, <2>1, <2>8, JournalDeleted
  <2>10. HasHeader(journal)
    <3>1. Image[1] < txns /\ txns \in Nat
      BY <1>2, <2>4, FileParts, Numbers
    <3>2. file # Image
      BY <2>7, <3>1
    <3> QED
      BY <1>2, <3>2, FileParts
  <2>11. Commits
    <3>1. Durable = Image
      BY <1>2, <2>10, HotDurable
    <3> QED
      BY <1>1, <2>4, <2>6, <2>7, <2>9, <3>1 DEF Commits
  <2>12. Calm'
    BY <1>1, <1>5, <2>9 DEF Calm
  <2>13. Current(c)' /\ Clean(c)'
    <3>1. Current(c)'
      BY <1>3, <2>7, <2>8, <2>9 DEF Current, SameData, Upto
    <3>2. Clean(c)'
      BY <1>3, <2>3, <2>5, <2>9 DEF Clean, SameData, Edited
    <3> QED
      BY <3>1, <3>2
  <2>14. Own(c)' /\ ~Begun(c)'
    BY <1>1, <1>2, <1>3, <1>4, <1>7, <2>3, <2>12, <2>13, DoneOwn DEF Control, SameData, Logged
  <2> QED
    BY <1>1, <1>3, <2>1, <2>2, <2>7, <2>9, <2>11, <2>14 DEF Advances, Elsewhere, Sees, SameData
<1> QED
  BY <1>1, <1>2, <1>6, <1>7 DEF Stands

-----------------------------------------------------------------------------
(* A transaction is undone, or fails.                                      *)

\* The cache is the image's again.
LEMMA CacheBack ==
    ASSUME FileInv, NEW c \in Conns, pager[c] \in PagerSet, Journaled(c), Edited(c), NEW k,
           k = CacheRestored(pager[c])
    PROVE  /\ k \in [Pages -> Nat]
           /\ \A p \in Pages : k[p] \in {Beyond, Image[p]}
           /\ \A p \in Pages : p <= pager[c].dbOrigSize /\ pager[c].cache[p] # Beyond => k[p] = Image[p]
<1> DEFINE recs == Recs(journal)
           old == Restored(pager[c].cache, recs)
<1>1. Records(journal, Len(journal.segs)) = recs
  BY JournalParts DEF Records, Recs, FileInv, FileTypes
<1>2. k = [p \in Pages |-> IF p <= pager[c].dbOrigSize /\ pager[c].cache[p] # Beyond THEN old[p] ELSE Beyond]
  BY <1>1 DEF CacheRestored
<1> HIDE DEF recs
<1>3. From(recs, Image) /\ \A p \in Pages : p \in pager[c].inJournal <=> Has(recs, p)
  BY DEF Journaled, recs
<1>4. ASSUME NEW p \in Pages, p <= pager[c].dbOrigSize, pager[c].cache[p] # Beyond
      PROVE  old[p] = Image[p]
  <2>1. CASE Has(recs, p)
    <3>1. old[p] = (CHOOSE r \in recs : r.page = p).content
      BY <2>1 DEF Restored, Has
    <3>2. (CHOOSE r \in recs : r.page = p) \in recs /\ (CHOOSE r \in recs : r.page = p).page = p
      BY <2>1 DEF Has
    <3> QED
      BY <1>3, <3>1, <3>2 DEF From
  <2>2. CASE ~Has(recs, p)
    <3>1. old[p] = pager[c].cache[p]
      BY <2>2 DEF Restored, Has
    <3>2. p \notin Changed(c)
      BY <1>3, <1>4, <2>2, Numbers DEF Changed, PagerSet
    <3> QED
      BY <1>4, <3>1, <3>2 DEF Edited, New
  <2> QED
    BY <2>1, <2>2
<1> HIDE DEF old
<1>5. Image \in [Pages -> Nat]
  BY FileParts
<1>6. \A p \in Pages : k[p] = IF p <= pager[c].dbOrigSize /\ pager[c].cache[p] # Beyond THEN old[p] ELSE Beyond
  BY <1>2
<1>7. \A p \in Pages : k[p] \in Nat
  BY <1>4, <1>5, <1>6, Numbers
<1> QED
  BY <1>2, <1>4, <1>6, <1>7

\* What the pager is left with.
Reset(q, pg, k, vers) ==
    /\ q \in PagerSet /\ q.eState = pg.eState /\ q.op = "rollback" /\ q.cache = k /\ q.dbFileVers = vers
    /\ q.hasHeldSharedLock = pg.hasHeldSharedLock /\ q.dbSize = pg.dbOrigSize /\ q.dbOrigSize = pg.dbOrigSize
    /\ q.inJournal = pg.inJournal /\ q.dirty = pg.dirty /\ q.needSync = pg.needSync /\ q.synced = pg.synced
    /\ q.txn = pg.txn

ResetTo(pg, k, vers, todo, at) ==
    [pg EXCEPT !.op = "rollback", !.dbSize = pg.dbOrigSize, !.cache = k, !.dbFileVers = vers,
               !.todo = todo, !.at = at]

LEMMA ResetIs ==
    ASSUME NEW pg \in PagerSet, NEW k \in [Pages -> Nat], NEW vers \in Nat, NEW todo \in SUBSET RecordSet,
           NEW at \in Places, NEW q, q = ResetTo(pg, k, vers, todo, at)
    PROVE  Reset(q, pg, k, vers) /\ q.todo = todo /\ q.at = at
<1>1. pg.dbOrigSize \in 0..MaxPages
  BY DEF PagerSet
<1>2. q \in PagerSet
  BY ONLY <1>1, pg \in PagerSet, k \in [Pages -> Nat], vers \in Nat, todo \in SUBSET RecordSet, at \in Places,
          q = ResetTo(pg, k, vers, todo, at), Names DEF PagerSet, ResetTo
<1> QED
  BY <1>2 DEF Reset, ResetTo, PagerSet

RollbackCache(c) == CacheRestored(pager[c])
RollbackVers(c) == IF pager[c].cache[1] # Beyond THEN RollbackCache(c)[1] ELSE pager[c].dbFileVers
RollbackPager(c) ==
    [pager[c] EXCEPT !.op = "rollback", !.dbSize = pager[c].dbOrigSize, !.cache = CacheRestored(pager[c]),
                     !.dbFileVers = IF pager[c].cache[1] # Beyond THEN CacheRestored(pager[c])[1] ELSE @]

LEMMA RollbackIs ==
    ASSUME WriterInv, StoreInv, NEW c \in Conns, Rollback(c)
    PROVE  /\ Reset(pager'[c], pager[c], RollbackCache(c), RollbackVers(c))
           /\ RollbackCache(c) \in [Pages -> Nat] /\ RollbackVers(c) = Image[1]
           /\ \A p \in Pages : RollbackCache(c)[p] \in {Beyond, Image[p]}
           /\ pager[c].eState \in Modifying /\ pager[c].at # "unlock"
           /\ IF pager[c].eState = "WRITER_DBMOD"
              THEN /\ file' = Truncated(file, pager[c].dbOrigSize)
                   /\ pager'[c].todo = Records(journal, pager[c].synced)
                   /\ pager'[c].at = IF pager'[c].todo = {} THEN "syncFile" ELSE "writePages"
              ELSE UNCHANGED file /\ pager'[c].at = "finalize"
<1> DEFINE k == RollbackCache(c)
           vers == RollbackVers(c)
           recs == Records(journal, pager[c].synced)
           place == IF recs = {} THEN "syncFile" ELSE "writePages"
<1>1. pager[c].eState \in Modifying /\ pager[c].at # "unlock" /\ pager[c].at \in {"idle", "mustRollback"}
  BY DEF Rollback, Modifying
<1>2. /\ FileInv /\ FileTypes /\ Own(c) /\ pager[c] \in PagerSet /\ Journaled(c) /\ Works(c) /\ Inside(c)
      /\ pager[c].eState = "WRITER_DBMOD" => Secured(c)
  BY <1>1, LoggedParts DEF FileInv
<1>3. Edited(c)
  BY <1>1, <1>2 DEF Own, Stands, Works
<1>4. /\ k \in [Pages -> Nat]
      /\ \A p \in Pages : k[p] \in {Beyond, Image[p]}
      /\ \A p \in Pages : p <= pager[c].dbOrigSize /\ pager[c].cache[p] # Beyond => k[p] = Image[p]
  BY <1>2, <1>3, CacheBack DEF RollbackCache
<1>5. vers = Image[1] /\ vers \in Nat
  <2>1. Image[1] \in Nat /\ 1 \in Pages
    BY <1>2, FileParts, Numbers
  <2>2. CASE pager[c].cache[1] = Beyond
    BY <1>2, <2>1, <2>2 DEF RollbackVers, Journaled
  <2>3. CASE pager[c].cache[1] # Beyond /\ 1 <= pager[c].dbOrigSize
    BY <1>4, <2>1, <2>3 DEF RollbackVers
  <2>4. CASE pager[c].cache[1] # Beyond /\ ~(1 <= pager[c].dbOrigSize)
    <3>1. Image[1] = Beyond
      BY <1>2, <2>1, <2>4 DEF Journaled, Upto, PagerSet
    <3> QED
      BY <1>4, <2>1, <2>4, <3>1 DEF RollbackVers
  <2> QED
    BY <2>2, <2>3, <2>4
<1> DEFINE pg == RollbackPager(c)
<1>7. /\ pg = [pager[c] EXCEPT !.op = "rollback", !.dbSize = pager[c].dbOrigSize, !.cache = k, !.dbFileVers = vers]
      /\ pg.eState = pager[c].eState /\ pg.dbOrigSize = pager[c].dbOrigSize /\ pg.synced = pager[c].synced
  BY <1>2 DEF RollbackPager, RollbackCache, RollbackVers, PagerSet
<1>8. IF pg.eState = "WRITER_DBMOD"
      THEN file' = Truncated(file, pg.dbOrigSize) /\ Becomes(c, Played(pg, InFile(pg)))
      ELSE Becomes(c, [pg EXCEPT !.at = "finalize"]) /\ UNCHANGED file
  BY ONLY Rollback(c) DEF Rollback, RollbackPager
<1> HIDE DEF pg
<1>9. CASE pager[c].eState = "WRITER_DBMOD"
  <2> DEFINE q == ResetTo(pager[c], k, vers, recs, place)
  <2>1. file' = Truncated(file, pager[c].dbOrigSize) /\ Becomes(c, q)
    <3>1. Played(pg, InFile(pg)) = [pg EXCEPT !.todo = recs, !.at = place]
      BY <1>7 DEF Played, InFile
    <3> HIDE DEF k, vers, recs, place
    <3>2. [pg EXCEPT !.todo = recs, !.at = place] = q
      BY <1>2, <1>7 DEF ResetTo, PagerSet
    <3> HIDE DEF q, Becomes
    <3> QED
      BY <1>7, <1>8, <1>9, <3>1, <3>2
  <2>2. pager'[c] = q
    <3> HIDE DEF q, Becomes
    <3> QED
      BY <2>1, BecomesIs
  <2>3. place \in Places
    BY Names
  <2>4. recs \in SUBSET RecordSet
    <3>1. recs \subseteq Recs(journal)
      BY <1>2, <1>9, JournalParts DEF Records, Recs, FileTypes, Secured
    <3> QED
      BY <1>2, <3>1, JournalParts DEF FileTypes, Recs
  <2> HIDE DEF k, vers, recs, place
  <2>5. Reset(pager'[c], pager[c], k, vers) /\ pager'[c].todo = recs /\ pager'[c].at = place
    BY ONLY <1>2, <1>4, <1>5, <2>2, <2>3, <2>4, ResetIs
  <2> QED
    BY <1>1, <1>4, <1>5, <1>9, <2>1, <2>5 DEF k, vers, recs, place
<1>10. CASE pager[c].eState # "WRITER_DBMOD"
  <2> DEFINE q == ResetTo(pager[c], k, vers, pager[c].todo, "finalize")
  <2>1. UNCHANGED file /\ Becomes(c, q)
    <3> HIDE DEF k, vers
    <3>1. [pg EXCEPT !.at = "finalize"] = q
      BY <1>2, <1>7 DEF ResetTo, PagerSet
    <3> HIDE DEF q, Becomes
    <3> QED
      BY <1>7, <1>8, <1>10, <3>1
  <2>2. pager'[c] = q
    <3> HIDE DEF q, Becomes
    <3> QED
      BY <2>1, BecomesIs
  <2>3. "finalize" \in Places /\ pager[c].todo \in SUBSET RecordSet
    BY <1>2, Names DEF PagerSet
  <2> HIDE DEF k, vers, recs, place
  <2>4. Reset(pager'[c], pager[c], k, vers) /\ pager'[c].at = "finalize"
    BY ONLY <1>2, <1>4, <1>5, <2>2, <2>3, ResetIs
  <2> QED
    BY <1>1, <1>4, <1>5, <1>10, <2>1, <2>4 DEF k, vers
<1> QED
  BY <1>9, <1>10

LEMMA RollbackAdvances ==
    ASSUME WriterInv, StoreInv, NEW c \in Conns, Rollback(c)
    PROVE  Advances(c)
<1> DEFINE k == RollbackCache(c)
           vers == RollbackVers(c)
           q == pager'[c]
           pg == pager[c]
<1>1. /\ Reset(q, pg, k, vers)
      /\ k \in [Pages -> Nat] /\ vers = Image[1] /\ \A p \in Pages : k[p] \in {Beyond, Image[p]}
      /\ pg.eState \in Modifying /\ pg.at # "unlock" /\ UNCHANGED <<lock, journal, disk, jdisk, txns>>
  BY RollbackIs DEF Rollback
<1> HIDE DEF k, vers
<1>2. /\ FileInv /\ FileTypes /\ Own(c) /\ Typed(c) /\ pg \in PagerSet /\ Works(c)
      /\ Inside(c) /\ Begun(c) /\ lock[c] \in Owners /\ First(c) /\ pg.hasHeldSharedLock /\ Journaled(c)
      /\ pg.eState = "WRITER_CACHEMOD" => file = Image /\ Unsecured(c)
      /\ pg.eState = "WRITER_DBMOD" => Secured(c)
      /\ lock[c] \in Writers => Calm
      /\ txns \in Nat \ {0}
  BY <1>1, LoggedParts DEF FileInv
<1>3. /\ journal.size = pg.dbOrigSize /\ Upto(Image, pg.dbOrigSize) /\ From(Recs(journal), Image)
      /\ Image \in [Pages -> 0..txns] /\ pg.dbOrigSize \in 0..MaxPages
  BY <1>2, FileParts DEF Journaled, PagerSet
<1>4. /\ q \in PagerSet /\ q.eState = pg.eState /\ q.op = "rollback" /\ q.cache = k /\ q.dbFileVers = vers
      /\ q.hasHeldSharedLock = pg.hasHeldSharedLock /\ q.dbSize = pg.dbOrigSize /\ q.dbOrigSize = pg.dbOrigSize
      /\ q.inJournal = pg.inJournal /\ q.dirty = pg.dirty /\ q.needSync = pg.needSync /\ q.synced = pg.synced
      /\ q.txn = pg.txn
  BY <1>1 DEF Reset
<1>5. ASSUME pg.eState = "WRITER_DBMOD"
      PROVE  /\ FileInv' /\ Image' = Image /\ Durable' = Durable /\ Undoes(c)' /\ Secured(c)'
             /\ q.at \in {"syncFile", "writePages"} /\ lock[c] = EXCLUSIVE_LOCK /\ lock[c] \notin Writers
  <2>1. /\ file' = Truncated(file, journal.size) /\ q.todo = Records(journal, pg.synced)
        /\ q.at = IF q.todo = {} THEN "syncFile" ELSE "writePages"
    BY <1>3, <1>5, RollbackIs
  <2>2. lock[c] = EXCLUSIVE_LOCK /\ lock[c] \notin Writers
    <3>1. Armed(c)
      BY DEF WriterInv, AloneInv
    <3> QED
      BY <1>5, <3>1 DEF Armed, Writers, EXCLUSIVE_LOCK, RESERVED_LOCK, PENDING_LOCK
  <2>3. /\ HasHeader(journal) /\ HasHeader(jdisk) /\ pg.synced \in DOMAIN journal.segs
        /\ q.todo = Playable(jdisk)
        /\ \A p \in Changed(c) \ pg.needSync : Protected(p)
    BY <1>2, <1>5, <2>1 DEF Secured
  <2>4. FileInv' /\ Image' = Image /\ Durable' = Durable
    BY <1>1, <1>2, <2>1, <2>3, SizeRestored
  <2>5. Hot /\ \A p \in Pages : file'[p] = IF p <= journal.size THEN file[p] ELSE Beyond
    BY <1>2, <2>1, <2>3, FileParts DEF Truncated
  <2>6. From(q.todo, Image)
    <3>1. q.todo \subseteq Recs(journal)
      BY <1>2, <2>1, <2>3, JournalParts DEF Records, Recs, FileTypes
    <3> QED
      BY <1>3, <3>1 DEF From
  <2>7. \A p \in Pages : file'[p] = Image[p] \/ Has(q.todo, p)
    <3>1. \A p \in Pages : p <= journal.size <=> ~(p > journal.size)
      BY <1>2, FileParts, Numbers
    <3> QED
      BY <1>3, <2>3, <2>5, <3>1 DEF Hot, Protected, Upto
  <2>8. Undoing(c)'
    BY <2>4, <2>6, <2>7 DEF Undoing
  <2>9. ASSUME q.todo # {} PROVE Writable(c)'
    <3>1. \A r \in q.todo : Protected(r.page)'
      BY <1>1, <2>3 DEF Protected, Has
    <3>2. \A p \in Pages : p <= journal.size => ~(p > journal.size)
      BY <1>2, FileParts, Numbers
    <3>3. \A r \in q.todo : r.content <= txns /\ (r.page <= journal.size => r.content # Beyond)
      BY <1>3, <2>6, <3>2 DEF From, Upto
    <3> QED
      BY <1>1, <2>3, <2>9, <3>1, <3>3 DEF Writable
  <2>10. Undoes(c)'
    <3>1. CASE q.todo = {}
      <4>1. file' = Image'
        BY <2>4, <2>8, <3>1, Undone
      <4> QED
        BY <2>1, <3>1, <4>1 DEF Undoes
    <3>2. CASE q.todo # {}
      BY <1>4, <2>1, <2>8, <2>9, <3>2 DEF Undoes
    <3> QED
      BY <3>1, <3>2
  <2>11. Secured(c)'
    <3>1. Changed(c)' \subseteq Changed(c)
      BY <1>3, <1>4, Numbers DEF Changed
    <3>2. \A p : Protected(p)' <=> Protected(p)
      BY <1>1 DEF Protected
    <3> QED
      BY <1>1, <1>2, <1>4, <1>5, <3>1, <3>2 DEF Secured
  <2> QED
    BY <2>1, <2>2, <2>4, <2>10, <2>11
<1>6. ASSUME pg.eState = "WRITER_CACHEMOD"
      PROVE  /\ FileInv' /\ Image' = Image /\ Durable' = Durable /\ Undoes(c)' /\ Unsecured(c)'
             /\ q.at = "finalize" /\ UNCHANGED file /\ file = Image
  <2>1. UNCHANGED file /\ q.at = "finalize" /\ file = Image /\ Unsecured(c)
    BY <1>2, <1>6, RollbackIs
  <2>2. FileInv' /\ Image' = Image /\ Durable' = Durable
    BY <1>1, <1>2, <2>1, FilesStay
  <2>3. Undoes(c)'
    <3>1. HasHeader(journal) => disk = file
      <4> SUFFICES ASSUME HasHeader(journal) PROVE disk = file
        OBVIOUS
      <4>1. Hot /\ ~HasHeader(jdisk)
        BY <1>2, <2>1, FileParts DEF Unsecured
      <4>2. \A p \in Pages : file[p] = Image[p] /\ disk[p] = Image[p]
        BY <4>1 DEF Hot, Protected
      <4> QED
        BY <1>2, <4>2 DEF FileTypes
    <3> QED
      BY <1>1, <1>4, <1>6, <2>1, <2>2, <3>1 DEF Undoes
  <2>4. Unsecured(c)'
    BY <1>1, <2>1 DEF Unsecured
  <2> QED
    BY <1>1, <2>1, <2>2, <2>3, <2>4
<1>7. pg.eState = "WRITER_DBMOD" \/ pg.eState = "WRITER_CACHEMOD"
  BY <1>1 DEF Modifying
<1>8. FileInv' /\ Image' = Image /\ Durable' = Durable /\ Undoes(c)'
  BY <1>5, <1>6, <1>7
<1>9. Typed(c)'
  <2>1. \A p \in Pages : Image[p] <= txns /\ Beyond <= txns
    BY <1>2, <1>3, Numbers
  <2> QED
    BY <1>1, <1>4, <2>1, Numbers DEF Typed
<1>10. Clean(c)' /\ Current(c)' /\ Resized(c)'
  <2>1. Clean(c)' /\ Resized(c)'
    BY <1>1, <1>4, <1>8 DEF Clean, Resized
  <2>2. Upto(Image', q.dbSize)
    BY <1>3, <1>4, <1>8 DEF Upto
  <2> QED
    BY <1>1, <1>4, <1>8, <2>1, <2>2 DEF Current
<1>11. Journaled(c)' /\ First(c)'
  <2>1. q.dbOrigSize <= q.dbSize /\ q.dbFileVers = Image'[1]
    BY <1>1, <1>3, <1>4, <1>8
  <2>2. First(c)'
    BY <1>1, <1>2, <1>4, <1>8 DEF First
  <2> QED
    BY <1>1, <1>2, <1>4, <1>8, <2>1, <2>2 DEF Journaled, From, Upto
<1>12. Works(c)'
  BY <1>4, <1>5, <1>6, <1>7, <1>10, <1>11 DEF Works
<1>13. lock'[c] \in Writers => Calm'
  <2> SUFFICES ASSUME lock[c] \in Writers PROVE Calm'
    BY <1>1
  <2>1. UNCHANGED file /\ Calm
    BY <1>2, <1>5, <1>6, <1>7
  <2> QED
    BY <1>1, <1>8, <2>1 DEF Calm
<1>14. Own(c)' /\ Begun(c)'
  <2>1. q.at \in {"syncFile", "writePages", "finalize"}
    BY <1>5, <1>6, <1>7
  <2>2. q.at \in Places \ (Opens \cup {"unlock"})
    BY <2>1, Names DEF Opens, Beginning
  <2>3. q.eState = "WRITER_CACHEMOD" => file' = Image'
    BY <1>4, <1>6, <1>8
  <2> QED
    BY <1>1, <1>2, <1>4, <1>8, <1>9, <1>11, <1>12, <1>13, <2>1, <2>2, <2>3, LoggedOwn
<1>15. Elsewhere(c)
  <2>1. CASE pg.eState = "WRITER_DBMOD"
    BY <1>1, <1>5, <1>8, <2>1 DEF Elsewhere
  <2>2. CASE pg.eState = "WRITER_CACHEMOD"
    BY <1>1, <1>6, <2>2 DEF Elsewhere
  <2> QED
    BY <1>7, <2>1, <2>2
<1>16. Sees(c)
  BY <1>1, <1>2 DEF Sees
<1> QED
  BY <1>8, <1>14, <1>15, <1>16 DEF Advances, Settles

\* What a page that was written in part leaves of a transaction that is to be rolled back.
LEMMA TornKept ==
    ASSUME NEW c, SamePages(c), Image' = Image, UNCHANGED <<journal, jdisk, txns>>
    PROVE  /\ First(c)' <=> First(c)
           /\ Journaled(c)' <=> Journaled(c)
           /\ Unsecured(c)' <=> Unsecured(c)
           /\ Secured(c)' <=> Secured(c)
           /\ Edited(c)' <=> Edited(c)
           /\ Counted(c)' <=> Counted(c)
<1>1. Changed(c)' = Changed(c)
  BY DEF SamePages, Changed
<1>2. \A p : New(c, p)' = New(c, p)
  BY <1>1 DEF SamePages, New
<1>3. \A p : Protected(p)' <=> Protected(p)
  BY DEF Protected
<1>4. /\ First(c)' <=> First(c)
      /\ Journaled(c)' <=> Journaled(c)
      /\ Unsecured(c)' <=> Unsecured(c)
  BY DEF SamePages, First, Journaled, Unsecured
<1>5. /\ Secured(c)' <=> Secured(c)
      /\ Edited(c)' <=> Edited(c)
      /\ Counted(c)' <=> Counted(c)
  BY <1>1, <1>2, <1>3 DEF SamePages, Secured, Edited, Counted
<1> QED
  BY <1>4, <1>5

\* The page that was being written is one the journal protects.
LEMMA FailFiles ==
    ASSUME WriterInv, StoreInv, NEW c \in Conns, Fail(c)
    PROVE  /\ FileInv' /\ Image' = Image /\ Durable' = Durable
           /\ UNCHANGED <<lock, disk, journal, jdisk, txns>>
           /\ pager[c].at # "writePages" => UNCHANGED file
<1>1. /\ FileInv /\ UNCHANGED <<lock, disk, journal, jdisk, txns>>
      /\ \/ UNCHANGED file
         \/ pager[c].at = "writePages" /\ \E r \in pager[c].todo : file' = [file EXCEPT ![r.page] = Torn]
  BY DEF Fail, StoreInv
<1>2. CASE UNCHANGED file
  BY <1>1, <1>2, FilesStay
<1>3. CASE pager[c].at = "writePages" /\ \E r \in pager[c].todo : file' = [file EXCEPT ![r.page] = Torn]
  <2>1. PICK r \in pager[c].todo : file' = [file EXCEPT ![r.page] = Torn]
    BY <1>3
  <2> DEFINE x == Record(r.page, Torn)
  <2>2. Writable(c) /\ HasHeader(journal) /\ r.page \in Pages /\ Protected(r.page)
    BY <1>3, <2>1, WriteParts DEF Writable
  <2>3. x \in RecordSet /\ x.page = r.page /\ x.content = Torn /\ Torn # Beyond
    BY <2>2, Numbers DEF RecordSet, Record
  <2> HIDE DEF x
  <2>4. file' = [file EXCEPT ![x.page] = x.content] /\ Protected(x.page)
    BY <2>1, <2>2, <2>3
  <2> QED
    BY <1>1, <1>3, <2>2, <2>3, <2>4, PageFiles
<1> QED
  BY <1>1, <1>2, <1>3

LEMMA FailAdvances ==
    ASSUME WriterInv, StoreInv, NEW c \in Conns, Fail(c)
    PROVE  Advances(c)
<1> DEFINE pg == pager[c]
           errs == [pg EXCEPT !.eState = "ERROR", !.at = "unlock"]
           spoils == [pg EXCEPT !.eState = "ERROR", !.at = "idle"]
           undoes == [pg EXCEPT !.at = "mustRollback", !.todo = {}]
           Working == {"syncRecords", "writeHeader", "syncHeader", "writePages", "syncFile", "playback"}
<1>1. /\ FileInv' /\ Image' = Image /\ Durable' = Durable
      /\ UNCHANGED <<lock, disk, journal, jdisk, txns>>
      /\ pg.at # "writePages" => UNCHANGED file
  BY FailFiles
<1>2. /\ FileInv /\ Own(c) /\ Typed(c) /\ pg \in PagerSet /\ Stands(c) /\ Reads(c)
      /\ Armed(c) /\ Owned(c) /\ Placed(pg)
  BY DEF StoreInv, Own, Typed, WriterInv, AloneInv
<1>3. \/ pg.at = "finalize" /\ pager'[c] = errs
      \/ pg.at \in Working /\ pg.op = "commit" /\ pager'[c] = undoes
      \/ pg.at \in Working /\ pg.op # "commit" /\ pager'[c] = spoils
  <2>1. \/ pg.at = "finalize" /\ Becomes(c, errs)
        \/ pg.at \in Working /\ pg.op = "commit" /\ Becomes(c, undoes)
        \/ pg.at \in Working /\ pg.op # "commit" /\ Becomes(c, spoils)
    <3> HIDE DEF Becomes
    <3> QED
      BY DEF Fail
  <2> HIDE DEF pg, errs, spoils, undoes, Working, Becomes
  <2> QED
    BY <2>1, BecomesIs
<1>4. CASE pg.at = "finalize" /\ pager'[c] = errs
  <2>1. /\ pager'[c] \in PagerSet /\ pager'[c].eState = "ERROR" /\ pager'[c].at = "unlock"
        /\ pager'[c].cache = pg.cache /\ pager'[c].dbFileVers = pg.dbFileVers
    BY <1>2, <1>4, Names DEF PagerSet
  <2> HIDE DEF errs
  <2>2. lock'[c] # NO_LOCK /\ (lock'[c] \in Writers => Calm')
    <3>1. lock[c] # NO_LOCK
      BY <1>2, <1>4, LockNames DEF Owned, Deleting
    <3>2. lock[c] \in Writers => Calm
      BY <1>2 DEF Reads, Calming
    <3> QED
      BY <1>1, <1>4, <3>1, <3>2 DEF Calm
  <2>3. Typed(c)'
    BY <1>1, <1>2, <2>1 DEF Typed
  <2>4. Own(c)' /\ ~Begun(c)'
    BY <2>1, <2>2, <2>3, ErrorOwn
  <2> QED
    BY <1>1, <1>4, <2>1, <2>4 DEF Advances, Elsewhere, Sees, Settles
<1>5. ASSUME pg.at \in Working PROVE lock[c] = EXCLUSIVE_LOCK /\ lock[c] \in Owners /\ lock[c] \notin Writers
  BY <1>2, <1>5, LockNames DEF Armed, Exclusively, EXCLUSIVE_LOCK, RESERVED_LOCK, PENDING_LOCK, Writers
<1>6. CASE pg.at \in Working /\ pg.op # "commit" /\ pager'[c] = spoils
  <2>1. /\ pager'[c] \in PagerSet /\ pager'[c].eState = "ERROR" /\ pager'[c].at = "idle"
        /\ pager'[c].cache = pg.cache /\ pager'[c].dbFileVers = pg.dbFileVers
    BY <1>2, <1>6, Names DEF PagerSet
  <2> HIDE DEF spoils
  <2>2. Typed(c)'
    BY <1>1, <1>2, <2>1 DEF Typed
  <2>3. Own(c)' /\ ~Begun(c)'
    BY <1>1, <1>5, <1>6, <2>1, <2>2, LockNames, ErrorOwn
  <2> QED
    BY <1>1, <1>5, <1>6, <2>1, <2>3 DEF Advances, Elsewhere, Sees, Settles
<1>7. CASE pg.at \in Working /\ pg.op = "commit" /\ pager'[c] = undoes
  <2>1. pg.eState \in Modifying /\ pg.at # "unlock"
    <3>1. CASE pg.at \in {"syncRecords", "writeHeader", "syncHeader"}
      BY <3>1, SyncParts
    <3>2. CASE pg.at = "writePages"
      BY <1>7, <3>2, WriteParts DEF Modifying
    <3>3. CASE pg.at = "syncFile"
      BY <1>2, <1>7, <3>3 DEF Stands, PagerSet, States, Transacting, Logged, Modifying
    <3>4. CASE pg.at = "playback"
      BY <1>2, <1>7, <3>4 DEF Placed
    <3> QED
      BY <1>7, <3>1, <3>2, <3>3, <3>4
  <2>2. /\ Works(c) /\ Inside(c) /\ Begun(c) /\ First(c) /\ pg.hasHeldSharedLock /\ Journaled(c)
        /\ pg.eState = "WRITER_CACHEMOD" => file = Image /\ Unsecured(c)
        /\ pg.eState = "WRITER_DBMOD" => Secured(c)
    BY <2>1, LoggedParts
  <2>3. /\ pager'[c] \in PagerSet /\ SamePages(c) /\ pager'[c].eState = pg.eState
        /\ pager'[c].at = "mustRollback" /\ pager'[c].op = "commit"
    <3>1. {} \in SUBSET RecordSet /\ "mustRollback" \in Places
      BY Names
    <3>2. pager'[c] = [pager[c] EXCEPT !.at = "mustRollback", !.todo = {}] /\ pager[c] \in PagerSet
      BY <1>2, <1>7
    <3>3. pager'[c] \in PagerSet
      BY ONLY <3>1, <3>2 DEF PagerSet
    <3> QED
      BY <1>7, <3>2, <3>3 DEF PagerSet, SamePages
  <2> HIDE DEF undoes
  <2>4. Typed(c)'
    BY <1>1, <1>2, <2>3 DEF Typed, SamePages
  <2>5. Edited(c) /\ Counted(c)
    BY <1>7, <2>2 DEF Works
  <2>6. /\ First(c)' /\ Journaled(c)' /\ Edited(c)' /\ Counted(c)'
        /\ pg.eState = "WRITER_CACHEMOD" => Unsecured(c)'
        /\ pg.eState = "WRITER_DBMOD" => Secured(c)'
    BY <1>1, <2>2, <2>3, <2>5, TornKept
  <2>7. Works(c)'
    BY <2>3, <2>6 DEF Works
  <2>8. Undoes(c)'
    BY <2>3 DEF Undoes
  <2>9. pager'[c].eState = "WRITER_CACHEMOD" => file' = Image'
    BY <1>1, <2>2, <2>3, WriteParts
  <2>10. "mustRollback" \in Places \ (Opens \cup {"unlock"})
    BY Names DEF Opens, Beginning
  <2>11. Own(c)'
    BY <1>1, <1>5, <1>7, <2>1, <2>2, <2>3, <2>4, <2>6, <2>7, <2>8, <2>9, <2>10, LoggedOwn DEF SamePages
  <2> QED
    BY <1>1, <1>5, <1>7, <2>2, <2>3, <2>11 DEF Advances, Elsewhere, Sees, Settles, SamePages
<1> QED
  BY <1>3, <1>4, <1>6, <1>7

-----------------------------------------------------------------------------
(* Processes die.                                                          *)

\* What is true of the pager of a process that has just started.
ClosedSound ==
    \A c \in Conns : pager[c] = Closed /\ lock[c] = NO_LOCK /\ txns \in Nat =>
        Own(c) /\ ~Begun(c) /\ pager[c].dbFileVers = 0

LEMMA ClosedOwn == ClosedSound
<1> SUFFICES ASSUME NEW c \in Conns, pager[c] = Closed, lock[c] = NO_LOCK, txns \in Nat
             PROVE  Own(c) /\ ~Begun(c) /\ pager[c].dbFileVers = 0
  BY DEF ClosedSound
<1>1. NoPages \in [Pages -> Nat] /\ \A p \in Pages : NoPages[p] = 0
  BY Numbers DEF NoPages
<1>2. /\ pager[c].eState = "OPEN" /\ pager[c].at = "idle" /\ pager[c].op = "none"
      /\ pager[c].cache = NoPages /\ pager[c].dbFileVers = 0 /\ pager[c].hasHeldSharedLock = FALSE
      /\ pager[c].inJournal = {} /\ pager[c].dirty = {} /\ pager[c].needSync = {}
  <2> HIDE DEF NoPages
  <2> QED
    BY DEF Closed, Beyond
<1>3. pager[c] \in PagerSet
  <2>1. 0 \in 0..MaxPages
    BY Numbers
  <2> HIDE DEF NoPages
  <2>2. Closed \in PagerSet
    BY <1>1, <2>1, Names DEF Closed, Beyond, PagerSet
  <2> QED
    BY <2>2
<1>4. Typed(c) /\ Unused(c) /\ Unheld(c) /\ Valid(c)
  BY <1>1, <1>2, <1>3 DEF Typed, Unused, Unheld, Valid, Beyond
<1>5. ~Begun(c) /\ ~Inside(c) /\ ~Reading(c) /\ ~Calming(c)
  BY <1>2 DEF Begun, Inside, Reading, Calming, Transacting, Logged, Modifying, Writers, NO_LOCK, RESERVED_LOCK,
              PENDING_LOCK
<1>6. Stands(c)
  BY <1>2, <1>5 DEF Stands, Modifying
<1>7. Reads(c)
  BY <1>2, <1>4, <1>5 DEF Reads
<1>8. Works(c) /\ Undoes(c)
  BY <1>2, <1>5 DEF Works, Undoes
<1> QED
  BY <1>2, <1>4, <1>5, <1>6, <1>7, <1>8 DEF Own

LEMMA ClosedOwnNext == ClosedSound'
  BY ClosedOwn, PTL

LEMMA CrashKeeps ==
    ASSUME StoreInv, NEW c \in Conns, Crash(c)
    PROVE  StoreInv' /\ Settles
<1> DEFINE dead == {c} \cup Peers(c)
<1>1. /\ UNCHANGED <<files, txns>> /\ lock' = [o \in Conns |-> IF o \in dead THEN NO_LOCK ELSE lock[o]]
      /\ pager' = [o \in Conns |-> IF o \in dead THEN Closed ELSE pager[o]]
  BY DEF Crash, Drop
<1> HIDE DEF dead
<1>2. FileInv' /\ Image' = Image /\ Durable' = Durable /\ txns' \in Nat \ {0}
  BY <1>1, FilesStay DEF StoreInv, FileInv, FileTypes
<1>3. ASSUME NEW o \in Conns
      PROVE  /\ Own(o)'
             /\ IF o \in dead THEN ~Begun(o)' /\ pager'[o].dbFileVers = 0
                ELSE (Begun(o)' <=> Begun(o)) /\ pager'[o].dbFileVers = pager[o].dbFileVers
  <2>1. CASE o \in dead
    BY <1>1, <1>2, <2>1, ClosedOwnNext DEF ClosedSound
  <2>2. CASE o \notin dead
    <3>1. pager'[o] = pager[o] /\ lock'[o] = lock[o]
      BY <1>1, <2>2
    <3> QED
      BY <1>1, <1>2, <2>2, <3>1, SameKept DEF Begun
  <2> QED
    BY <2>1, <2>2
<1>4. ASSUME NEW o \in Conns PROVE Unseen(o)'
  <2> SUFFICES ASSUME Begun(o)', NEW x \in Others(o) PROVE pager'[x].dbFileVers < txns'
    BY DEF Unseen, Others
  <2>1. Begun(o) /\ x \in Conns
    BY <1>3 DEF Others
  <2>2. pager[x].dbFileVers < txns
    BY <2>1 DEF StoreInv, Unseen
  <2> QED
    BY <1>1, <1>2, <1>3, <2>1, <2>2
<1> QED
  BY <1>2, <1>3, <1>4 DEF StoreInv, Settles

\* What a loss of power does to the images.
Loses == Image' \in {Image, Durable} /\ Durable' = Image'

LEMMA PowerLossKeeps ==
    ASSUME StoreInv, PowerLoss
    PROVE  StoreInv' /\ Loses
<1>1. /\ FileInv /\ file' \in FileSurvivors /\ journal' \in JournalSurvivors /\ InOrder(file', journal')
      /\ disk' = file' /\ jdisk' = journal' /\ UNCHANGED txns
      /\ \A c \in Conns : lock'[c] = NO_LOCK /\ pager'[c] = Closed
  BY DEF PowerLoss, StoreInv, Drop
<1>2. FileInv' /\ Loses
  <2>1. CASE HasHeader(journal)
    BY <1>1, <2>1, HotLoss DEF Loses
  <2>2. CASE ~HasHeader(journal)
    BY <1>1, <2>2, QuietLoss DEF Loses
  <2> QED
    BY <2>1, <2>2
<1>3. txns' \in Nat
  BY <1>1, FileParts
<1>4. \A c \in Conns : Own(c)' /\ ~Begun(c)'
  BY <1>1, <1>3, ClosedOwnNext DEF ClosedSound
<1> QED
  BY <1>2, <1>4 DEF StoreInv, Unseen

-----------------------------------------------------------------------------
(* The invariant, and the theorems.                                        *)

LEMMA StoreStarts ==
    ASSUME Init
    PROVE  StoreInv /\ Durable = Image
<1>1. PICK n \in InitSizes : file = [p \in Pages |-> IF p <= n THEN 1 ELSE Beyond]
  BY DEF Init
<1>2. /\ disk = file /\ journal = NoJournal /\ jdisk = NoJournal /\ txns = 1
      /\ \A c \in Conns : lock[c] = NO_LOCK /\ pager[c] = Closed
  BY DEF Init, LockInit
<1>3. n \in 0..MaxPages
  BY PagerBounds
<1>4. file \in [Pages -> 0..1] /\ Upto(file, n)
  BY <1>1, <1>3, Numbers DEF Upto
<1>5. IsJournal(journal) /\ ~HasHeader(journal) /\ ~HasHeader(jdisk) /\ journal.txn = 0
  BY <1>2, NoJournalParts DEF NoJournal
<1>6. Image = file /\ Durable = file
  BY <1>2, <1>5 DEF Image, Durable, Recovered
<1>7. FileTypes
  BY <1>2, <1>4, <1>5, Numbers DEF FileTypes
<1>8. IsImage(Image) /\ IsImage(Durable)
  BY <1>2, <1>3, <1>4, <1>6 DEF IsImage
<1>9. FileInv
  BY <1>2, <1>5, <1>6, <1>7, <1>8 DEF FileInv, Covers, Quiet, Ready
<1>10. ASSUME NEW c \in Conns PROVE Own(c) /\ Unseen(c)
  BY <1>2, ClosedOwn DEF ClosedSound, Unseen
<1> QED
  BY <1>6, <1>9, <1>10 DEF StoreInv

\* What a step may do to the images.
Moves == Settles \/ Commits \/ Loses

LEMMA StoreStep ==
    ASSUME WriterInv, WriterInv', StoreInv, [Next]_vars
    PROVE  StoreInv' /\ Moves
<1>1. ASSUME NEW c \in Conns, Crash(c) PROVE StoreInv' /\ Moves
  BY <1>1, CrashKeeps DEF Moves
<1>2. CASE PowerLoss
  BY <1>2, PowerLossKeeps DEF Moves
<1>3. CASE UNCHANGED vars
  <2>1. UNCHANGED <<files, txns, pager, lock>>
    BY <1>3 DEF vars
  <2>2. FileInv' /\ Image' = Image /\ Durable' = Durable
    BY <2>1, FilesStay DEF StoreInv
  <2>3. \A c \in Conns : Own(c)' /\ Unseen(c)'
    BY <2>1, <2>2, SameKept DEF StoreInv, Unseen, Begun
  <2> QED
    BY <2>2, <2>3 DEF StoreInv, Moves, Settles
<1>4. ASSUME NEW c \in Conns,
             \/ Opening(c) \/ Locking(c) \/ Writer(c) \/ EndRead(c) \/ ErrorUnlock(c) \/ Fail(c)
             \/ \E p \in Pages : Get(c, p) \/ Recycle(c, p) \/ JournalFails(c, p)
      PROVE  StoreInv' /\ Moves
  <2> HIDE DEF Becomes, Goes, At, files, counters
  <2>1. Kept(c)
    <3>1. AloneInv
      BY DEF WriterInv
    <3> QED
      BY ONLY <1>4, <3>1, ConnectionKept
  <2>2. ASSUME Opening(c) PROVE Advances(c)
    BY <2>2, TakeSharedAdvances, LookForJournalAdvances, LookForWriterAdvances, StrayAdvances,
       DeleteStrayAdvances, ReadHeaderAdvances, OpenHotJournalAdvances, PlayHotJournalAdvances,
       ValidateAdvances DEF Opening
  <2>3. ASSUME Locking(c) PROVE Advances(c)
    BY <2>3, TakePendingAdvances, TakeExclusiveAdvances, BusyAdvances DEF Locking
  <2>4. ASSUME Writer(c) PROVE Advances(c)
    <3>1. CASE \E p \in Pages : Write(c, p) \/ Spill(c, p)
      BY <3>1, WriteAdvances, SpillAdvances
    <3>2. CASE \E exFlag \in BOOLEAN : Begin(c, exFlag)
      BY <3>2, BeginAdvances
    <3>3. CASE \/ Commit(c) \/ SyncRecords(c) \/ WriteHeader(c) \/ SyncHeader(c) \/ WritePage(c) \/ SyncFile(c)
               \/ Finalize(c) \/ Unlock(c) \/ EndUnwritten(c) \/ Rollback(c)
      BY <3>3, CommitAdvances, SyncRecordsAdvances, WriteHeaderAdvances, SyncHeaderAdvances,
         WritePageAdvances, SyncFileAdvances, FinalizeAdvances, UnlockAdvances, EndUnwrittenAdvances,
         RollbackAdvances
    <3> QED
      BY <2>4, <3>1, <3>2, <3>3 DEF Writer
  <2>5. Advances(c)
    BY <1>4, <2>2, <2>3, <2>4, EndReadAdvances, FailAdvances, PagingAdvances, JournalFailsAdvances
  <2> QED
    BY <2>1, <2>5, StoreLocal DEF Advances, Moves
<1> QED
  BY <1>1, <1>2, <1>3, <1>4 DEF Next

LEMMA StoreAlways == Spec => [](WriterInv /\ StoreInv)
<1>1. Init => WriterInv /\ StoreInv
  BY WriterInit, StoreStarts
<1>2. WriterInv /\ StoreInv /\ [Next]_vars => (WriterInv /\ StoreInv)'
  BY WriterStep, StoreStep
<1> QED
  BY <1>1, <1>2, PTL DEF Spec

\* No pager leaves the states it has, and no page that was written in part gets into a
\* cache, whatever fails, dies or loses power (pager.c, assert_pager_state).
THEOREM TypeCorrect == Spec => []TypeOK
<1>1. WriterInv /\ StoreInv => TypeOK
  <2> SUFFICES ASSUME WriterInv, StoreInv PROVE TypeOK
    OBVIOUS
  <2>1. lock \in [Conns -> Locks] /\ file \in [Pages -> 0..Torn] /\ disk \in [Pages -> 0..Torn]
    BY DEF WriterInv, AloneInv, LockInv, LockTypeOK, StoreInv, FileInv, FileTypes
  <2>2. txns \in Nat /\ txns <= MaxTransactions /\ MaxTransactions \in Nat
    BY Numbers DEF StoreInv, FileInv, FileTypes
  <2>3. ASSUME NEW c \in Conns
        PROVE  /\ pager[c].eState \in {"OPEN", "READER", "WRITER_LOCKED", "WRITER_CACHEMOD", "WRITER_DBMOD",
                                       "WRITER_FINISHED", "ERROR"}
               /\ pager[c].cache \in [Pages -> 0..MaxTransactions]
               /\ pager[c].inJournal \subseteq Pages
               /\ pager[c].dirty \cup pager[c].needSync \subseteq Pages
    <3>1. pager[c] \in PagerSet /\ \A p \in Pages : pager[c].cache[p] <= txns
      BY DEF StoreInv, Own, Typed
    <3>2. pager[c].eState \in States /\ pager[c].cache \in [Pages -> Nat]
          /\ pager[c].inJournal \subseteq Pages /\ pager[c].dirty \subseteq Pages /\ pager[c].needSync \subseteq Pages
      BY <3>1 DEF PagerSet
    <3>3. pager[c].cache \in [Pages -> 0..MaxTransactions]
      <4>1. \A p \in Pages : pager[c].cache[p] \in 0..MaxTransactions
        BY <2>2, <3>1, <3>2
      <4> QED
        BY <3>2, <4>1
    <3> QED
      BY <3>2, <3>3 DEF States, Transacting, Logged, Modifying
  <2> QED
    BY <2>1, <2>3 DEF TypeOK
<1> QED
  BY <1>1, StoreAlways, PTL

\* What a connection trusts in its cache is what the last commit left, save the pages it
\* has changed: a cache that outlived a read is thrown away when the change counter differs,
\* and a rollback puts the old pages back (pagerPagerSharedLock, pager_playback_one_page).
THEOREM CacheCorrect == Spec => []CacheIsCommitted
<1>1. StoreInv => CacheIsCommitted
  <2> SUFFICES ASSUME StoreInv, NEW c \in Conns, NEW p \in Pages,
                      pager[c].eState \in {"READER", "WRITER_LOCKED", "WRITER_CACHEMOD", "WRITER_DBMOD"},
                      pager[c].at = "idle"
               PROVE  pager[c].cache[p] \in {Beyond, Image[p]} \cup
                          (IF p \in pager[c].inJournal \/ p > pager[c].dbOrigSize THEN {pager[c].txn} ELSE {})
    BY DEF CacheIsCommitted, Image, InUse, Writing, At
  <2>1. Own(c) /\ Stands(c)
    BY DEF StoreInv, Own
  <2>2. CASE pager[c].eState \in {"READER", "WRITER_LOCKED"}
    BY <2>1, <2>2 DEF Own, Reads, Reading, Clean
  <2>3. CASE pager[c].eState \in {"WRITER_CACHEMOD", "WRITER_DBMOD"}
    <3>1. Edited(c)
      BY <2>1, <2>3 DEF Own, Works, Stands, Inside, Logged, Modifying
    <3>2. p \in Changed(c) => p \in pager[c].inJournal \/ p > pager[c].dbOrigSize
      <4>1. pager[c].dbOrigSize \in 0..MaxPages
        BY <2>1 DEF Own, Typed, PagerSet
      <4> QED
        BY <4>1, Numbers DEF Changed
    <3> QED
      BY <3>1, <3>2 DEF Edited, New
  <2> QED
    BY <2>2, <2>3
<1> QED
  BY <1>1, StoreAlways, PTL

\* The two files implement TransactionStore: whatever dies, fails or is lost between any two
\* calls of the operating system, a reader finds the pages of whole transactions, and at
\* most the last of them is undone, all of it, by a loss of power (pager.c, the atomic
\* commit of a rollback journal).
THEOREM StoreImplemented == Spec => TransactionsAtomic
<1> DEFINE images == <<Recovered(file, journal), Recovered(disk, jdisk)>>
<1>1. Init => Store!StoreInit
  <2> SUFFICES ASSUME Init PROVE Store!StoreInit
    OBVIOUS
  <2>1. StoreInv /\ Durable = Image
    BY StoreStarts
  <2>2. Image \in [Pages -> 0..MaxTransactions]
    <3>1. Image \in [Pages -> 0..txns] /\ txns \in 1..MaxTransactions
      BY <2>1 DEF StoreInv, FileInv, IsImage, FileTypes
    <3> QED
      BY <3>1, Numbers
  <2> QED
    BY <2>1, <2>2 DEF Store!StoreInit, Store!Images, Store!Pages, Pages, Image, Durable
<1>2. WriterInv /\ WriterInv' /\ StoreInv /\ [Next]_vars => [Store!StoreNext]_images
  <2> SUFFICES ASSUME WriterInv, WriterInv', StoreInv, [Next]_vars PROVE [Store!StoreNext]_images
    OBVIOUS
  <2>1. Moves /\ txns \in 1..MaxTransactions
    BY StoreStep DEF StoreInv, FileInv, FileTypes
  <2>2. CASE Settles
    BY <2>2 DEF Settles, Store!StoreNext, Store!Settle, Image, Durable
  <2>3. CASE Commits
    BY <2>1, <2>3, Numbers DEF Commits, Store!StoreNext, Store!CommitTransaction, Store!Pages, Pages, Image, Durable
  <2>4. CASE Loses
    BY <2>4 DEF Loses, Store!StoreNext, Store!LosePower, Image, Durable
  <2> QED
    BY <2>1, <2>2, <2>3, <2>4 DEF Moves
<1> QED
  BY <1>1, <1>2, StoreAlways, PTL DEF Spec, TransactionsAtomic, Store!StoreSpec
=============================================================================
