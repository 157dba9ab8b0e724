----------------------------- MODULE UnixLocks -----------------------------
(***************************************************************************)
(* The lock methods of SQLite's unix VFS (os_unix.c), on which both the    *)
(* encrypted Core Data store and the offline master database are opened.   *)
(*                                                                         *)
(* POSIX gives one read or write lock per PROCESS on each byte, silently   *)
(* replaces it when the process asks again, and drops every lock of the    *)
(* process when it closes any descriptor of the file.  So all the handles  *)
(* a process has on a file share an inode record that counts what they     *)
(* hold, and a handle closed while locks remain leaves its descriptor to   *)
(* be closed later.                                                        *)
(*                                                                         *)
(* A method runs under the process's mutex and makes one system call after *)
(* the other; another process may do anything between two of them.  The    *)
(* file is on the device's own disk: fcntl fails for a lock in the way, and *)
(* for no other reason.                                                    *)
(***************************************************************************)
EXTENDS Naturals, FiniteSets

CONSTANTS
    Files,      \* unixFile handles on one database file
    Procs,      \* processes
    MaxUnused,  \* bound: descriptors waiting to be closed
    MaxDeaths   \* bound: processes that die

CONSTANT ProcOf(_)  \* the process a handle belongs to

ASSUME FilesAssumption == IsFiniteSet(Files) /\ \A f \in Files : ProcOf(f) \in Procs
ASSUME UnixBounds == MaxUnused \in Nat /\ MaxDeaths \in Nat

VARIABLES
    eFileLock,  \* unixFile.eFileLock
    opened,     \* whether the handle is open, and how far its closing is
    inode,      \* the process's unixInodeInfo
    kernel,     \* the locks the kernel holds for the process
    method,     \* the lock method under way under the process's mutex
    deaths      \* processes that have died

vars == <<eFileLock, opened, inode, kernel, method, deaths>>

NO_LOCK        == 0
SHARED_LOCK    == 1
RESERVED_LOCK  == 2
PENDING_LOCK   == 3
EXCLUSIVE_LOCK == 4
RECOVERY_LOCK  == 5   \* FileLocks' name for PENDING without RESERVED

Bytes == {"PENDING_BYTE", "RESERVED_BYTE", "SHARED_FIRST"}
NoFile == "none"

\* The pieces of a method that are separated by system calls.
Places == {"idle", "readingPending", "dropPending", "dropPendingBusy", "writingShared",
           "readingShared", "unlockTwo", "unlockAll"}

FreshInode == [eFileLock |-> NO_LOCK, nShared |-> 0, nLock |-> 0, unused |-> 0]
NoMethod   == [file |-> NoFile, at |-> "idle", goal |-> NO_LOCK]

Handles(p) == {f \in Files : ProcOf(f) = p /\ opened[f] # "closed"}

-----------------------------------------------------------------------------
(* fcntl(F_SETLK).                                                         *)

\* No other process is in the way of a lock of type t on byte b.
Grantable(p, b, t) ==
    \A q \in Procs \ {p} : IF t = "R" THEN kernel[q][b] # "W" ELSE kernel[q][b] = "-"

Granted(p, b, t) == /\ Grantable(p, b, t)
                    /\ kernel' = [kernel EXCEPT ![p][b] = t]

Refused(p, b, t) == ~Grantable(p, b, t) /\ UNCHANGED kernel

Unlocked(p, B) == kernel' = [kernel EXCEPT ![p] = [b \in Bytes |-> IF b \in B THEN "-" ELSE @[b]]]

-----------------------------------------------------------------------------
(* unixLock.                                                               *)

Idle(p) == method[p].at = "idle"

Enter(f, place, goal) == method' = [method EXCEPT ![ProcOf(f)] = [file |-> f, at |-> place, goal |-> goal]]
Leave(p) == method' = [method EXCEPT ![p] = NoMethod]

\* The handle and the inode record get the same level.
SetLock(f, k) == /\ eFileLock' = [eFileLock EXCEPT ![f] = k]
                 /\ inode' = [inode EXCEPT ![ProcOf(f)].eFileLock = k]

\* A request the process itself does not preclude.
Requestable(f, k) ==
    LET i == inode[ProcOf(f)] IN
    /\ opened[f] = "open"
    /\ Idle(ProcOf(f))
    /\ eFileLock[f] < k
    /\ eFileLock[f] # i.eFileLock => i.eFileLock < PENDING_LOCK /\ k <= SHARED_LOCK

\* Faulty: the count of locks is left alone.
LockSharedUncounted(f) ==
    LET p == ProcOf(f) IN
    /\ Requestable(f, SHARED_LOCK)
    /\ inode[p].eFileLock \in {SHARED_LOCK, RESERVED_LOCK}
    /\ eFileLock' = [eFileLock EXCEPT ![f] = SHARED_LOCK]
    /\ inode' = [inode EXCEPT ![p].nShared = @ + 1]
    /\ UNCHANGED <<opened, kernel, method, deaths>>

\* SHARED, when the process already has it: only counted.
LockSharedAgain(f) ==
    LET p == ProcOf(f) IN
    /\ Requestable(f, SHARED_LOCK)
    /\ inode[p].eFileLock \in {SHARED_LOCK, RESERVED_LOCK}
    /\ eFileLock' = [eFileLock EXCEPT ![f] = SHARED_LOCK]
    /\ inode' = [inode EXCEPT ![p].nShared = @ + 1, ![p].nLock = @ + 1]
    /\ UNCHANGED <<opened, kernel, method, deaths>>

\* Faulty: SHARED is taken without looking at the pending byte.
PendingFirstSkipped(p) == UNCHANGED kernel

\* A reader passes only while nobody has the pending byte.
PendingFirst(p) == Granted(p, "PENDING_BYTE", "R")

\* SHARED: a read lock on the pending byte ...
LockShared(f) ==
    LET p == ProcOf(f) IN
    /\ Requestable(f, SHARED_LOCK)
    /\ inode[p].eFileLock = NO_LOCK
    /\ PendingFirst(p)
    /\ Enter(f, "readingPending", SHARED_LOCK)
    /\ UNCHANGED <<eFileLock, opened, inode, deaths>>

\* ... a read lock on the shared bytes ...
ReadShared(p) ==
    /\ method[p].at = "readingPending"
    /\ \/ /\ Granted(p, "SHARED_FIRST", "R")
          /\ Enter(method[p].file, "dropPending", SHARED_LOCK)
       \/ /\ Refused(p, "SHARED_FIRST", "R")
          /\ Enter(method[p].file, "dropPendingBusy", SHARED_LOCK)
    /\ UNCHANGED <<eFileLock, opened, inode, deaths>>

\* ... and the pending byte is given back, whatever became of the request.
DropPending(p) ==
    LET f == method[p].file IN
    /\ \/ /\ method[p].at = "dropPending"
          /\ eFileLock' = [eFileLock EXCEPT ![f] = SHARED_LOCK]
          /\ inode' = [inode EXCEPT ![p].eFileLock = SHARED_LOCK, ![p].nShared = 1, ![p].nLock = @ + 1]
       \/ /\ method[p].at = "dropPendingBusy"
          /\ UNCHANGED <<eFileLock, inode>>
    /\ Unlocked(p, {"PENDING_BYTE"})
    /\ Leave(p)
    /\ UNCHANGED <<opened, deaths>>

\* RESERVED: a write lock on the reserved byte.
LockReserved(f) ==
    /\ Requestable(f, RESERVED_LOCK)
    /\ eFileLock[f] = SHARED_LOCK
    /\ Granted(ProcOf(f), "RESERVED_BYTE", "W")
    /\ SetLock(f, RESERVED_LOCK)
    /\ UNCHANGED <<opened, method, deaths>>

\* EXCLUSIVE: a write lock on the pending byte, unless the handle has it ...
LockExclusive(f) ==
    /\ Requestable(f, EXCLUSIVE_LOCK)
    /\ eFileLock[f] >= SHARED_LOCK
    /\ IF eFileLock[f] < PENDING_LOCK THEN Granted(ProcOf(f), "PENDING_BYTE", "W") ELSE UNCHANGED kernel
    /\ Enter(f, "writingShared", EXCLUSIVE_LOCK)
    /\ UNCHANGED <<eFileLock, opened, inode, deaths>>

\* Faulty: the other handles of the process are forgotten.
AloneAlways(p) == TRUE

Alone(p) == inode[p].nShared <= 1

\* ... then a write lock on the shared bytes; without it, PENDING is what remains.
WriteShared(p) ==
    LET f == method[p].file IN
    /\ method[p].at = "writingShared"
    /\ \/ /\ Alone(p)
          /\ Granted(p, "SHARED_FIRST", "W")
          /\ SetLock(f, EXCLUSIVE_LOCK)
       \/ /\ Alone(p) => Refused(p, "SHARED_FIRST", "W")
          /\ ~Alone(p) => UNCHANGED kernel
          /\ SetLock(f, PENDING_LOCK)
    /\ Leave(p)
    /\ UNCHANGED <<opened, deaths>>

-----------------------------------------------------------------------------
(* posixUnlock.                                                            *)

\* The first system call depends on how far down from where.
UnlockFrom(f, k) == CASE eFileLock[f] > SHARED_LOCK /\ k = SHARED_LOCK -> "readingShared"
                      [] eFileLock[f] > SHARED_LOCK /\ k = NO_LOCK     -> "unlockTwo"
                      [] OTHER                                         -> "unlockAll"

Unlock(f, k) ==
    /\ opened[f] \in {"open", "closing"}
    /\ opened[f] = "closing" => k = NO_LOCK
    /\ Idle(ProcOf(f))
    /\ k < eFileLock[f]
    /\ Enter(f, UnlockFrom(f, k), k)
    /\ UNCHANGED <<eFileLock, opened, inode, kernel, deaths>>

\* Down to SHARED: the shared bytes become read locked ...
UnlockToRead(p) ==
    /\ method[p].at = "readingShared"
    /\ Granted(p, "SHARED_FIRST", "R")
    /\ Enter(method[p].file, "unlockTwo", method[p].goal)
    /\ UNCHANGED <<eFileLock, opened, inode, deaths>>

\* Faulty: only the pending byte is given back.
UpperBytesPending == {"PENDING_BYTE"}

UpperBytes == {"PENDING_BYTE", "RESERVED_BYTE"}

\* ... and PENDING and RESERVED are given back in one call.
UnlockUpper(p) ==
    LET f == method[p].file IN
    /\ method[p].at = "unlockTwo"
    /\ Unlocked(p, UpperBytes)
    /\ inode' = [inode EXCEPT ![p].eFileLock = SHARED_LOCK]
    /\ IF method[p].goal = SHARED_LOCK
       THEN eFileLock' = [eFileLock EXCEPT ![f] = SHARED_LOCK] /\ Leave(p)
       ELSE UNCHANGED eFileLock /\ Enter(f, "unlockAll", NO_LOCK)
    /\ UNCHANGED <<opened, deaths>>

\* The inode record when one handle less is locked, and the last one closes the
\* descriptors that were waiting.
OneLockLess(i) ==
    [eFileLock |-> IF i.nShared = 1 THEN NO_LOCK ELSE i.eFileLock,
     nShared   |-> i.nShared - 1,
     nLock     |-> i.nLock - 1,
     unused    |-> IF i.nLock = 1 THEN 0 ELSE i.unused]

\* Down to nothing: the kernel lets go when the last handle of the process does.
UnlockAll(p) ==
    LET f == method[p].file IN
    /\ method[p].at = "unlockAll"
    /\ IF inode[p].nShared = 1 THEN Unlocked(p, Bytes) ELSE UNCHANGED kernel
    /\ inode' = [inode EXCEPT ![p] = OneLockLess(@)]
    /\ eFileLock' = [eFileLock EXCEPT ![f] = NO_LOCK]
    /\ Leave(p)
    /\ UNCHANGED <<opened, deaths>>

-----------------------------------------------------------------------------
(* unixOpen, unixClose, and the end of a process.                          *)

\* findReusableFd: a descriptor that waits to be closed is used first.
Open(f) ==
    LET p == ProcOf(f) IN
    /\ opened[f] = "closed"
    /\ Idle(p)
    /\ opened' = [opened EXCEPT ![f] = "open"]
    /\ inode' = [inode EXCEPT ![p].unused = IF @ > 0 THEN @ - 1 ELSE @]
    /\ UNCHANGED <<eFileLock, kernel, method, deaths>>

\* unixClose unlocks first ...
Close(f) ==
    /\ opened[f] = "open"
    /\ Idle(ProcOf(f))
    /\ opened' = [opened EXCEPT ![f] = "closing"]
    /\ UNCHANGED <<eFileLock, inode, kernel, method, deaths>>

\* Faulty: a handle is closed whatever the others hold.
MustWaitNever(p) == FALSE

\* Closing a descriptor would drop the locks the other handles hold.
MustWait(p) == inode[p].nLock > 0

\* ... and closes the descriptor, or leaves it to be closed with the last lock.  The
\* inode record goes with the last handle, and what waits is closed then.
FinishClose(f) ==
    LET p == ProcOf(f)
        last == Handles(p) = {f}
    IN
    /\ opened[f] = "closing"
    /\ eFileLock[f] = NO_LOCK
    /\ Idle(p)
    /\ opened' = [opened EXCEPT ![f] = "closed"]
    /\ IF MustWait(p) /\ ~last
       THEN /\ inode[p].unused < MaxUnused
            /\ inode' = [inode EXCEPT ![p].unused = @ + 1]
            /\ UNCHANGED kernel
       ELSE /\ inode' = [inode EXCEPT ![p] = IF last THEN FreshInode ELSE @]
            /\ Unlocked(p, Bytes)
    /\ UNCHANGED <<eFileLock, method, deaths>>

\* The kernel drops what a process that dies holds.
Die(p) ==
    /\ deaths < MaxDeaths
    /\ deaths' = deaths + 1
    /\ opened' = [f \in Files |-> IF ProcOf(f) = p THEN "closed" ELSE opened[f]]
    /\ eFileLock' = [f \in Files |-> IF ProcOf(f) = p THEN NO_LOCK ELSE eFileLock[f]]
    /\ inode' = [inode EXCEPT ![p] = FreshInode]
    /\ Unlocked(p, Bytes)
    /\ Leave(p)

\* Faulty: only the process's own record is consulted.
CheckReservedOwn(f) == inode[ProcOf(f)].eFileLock > SHARED_LOCK

\* unixCheckReservedLock, for a handle that holds SHARED at most.
CheckReservedLock(f) ==
    \/ inode[ProcOf(f)].eFileLock > SHARED_LOCK
    \/ \E q \in Procs \ {ProcOf(f)} : kernel[q]["RESERVED_BYTE"] # "-"

-----------------------------------------------------------------------------

Init ==
    /\ eFileLock = [f \in Files |-> NO_LOCK]
    /\ opened = [f \in Files |-> "closed"]
    /\ inode = [p \in Procs |-> FreshInode]
    /\ kernel = [p \in Procs |-> [b \in Bytes |-> "-"]]
    /\ method = [p \in Procs |-> NoMethod]
    /\ deaths = 0

Lock(f) == LockSharedAgain(f) \/ LockShared(f) \/ LockReserved(f) \/ LockExclusive(f)

\* The rest of a method.
Proceed(p) == \/ ReadShared(p) \/ DropPending(p) \/ WriteShared(p)
              \/ UnlockToRead(p) \/ UnlockUpper(p) \/ UnlockAll(p)

Next ==
    \/ \E f \in Files : \/ Lock(f) \/ Open(f) \/ Close(f) \/ FinishClose(f)
                        \/ \E k \in {NO_LOCK, SHARED_LOCK} : Unlock(f, k)
    \/ \E p \in Procs : Proceed(p) \/ Die(p)

Spec == Init /\ [][Next]_vars

\* A method that has started ends; a close that has begun is completed; a reader is done
\* with its statement some time; and who waits for EXCLUSIVE asks again (the busy handler,
\* and the retries of the layers above).  Strong fairness: the mutex of the process, which
\* each of them needs, is given to everyone who waits for it.
FairSpec ==
    /\ Spec
    /\ \A p \in Procs : WF_vars(Proceed(p))
    /\ \A f \in Files : /\ SF_vars(eFileLock[f] = PENDING_LOCK /\ LockExclusive(f))
                        /\ SF_vars(eFileLock[f] = SHARED_LOCK /\ Unlock(f, NO_LOCK))
                        /\ SF_vars(opened[f] = "closing" /\ (Unlock(f, NO_LOCK) \/ FinishClose(f)))

-----------------------------------------------------------------------------
(* Properties.                                                             *)

\* Type invariant: handles, inode records and kernel locks keep to the values the code
\* gives them.
TypeOK ==
    /\ eFileLock \in [Files -> NO_LOCK..EXCLUSIVE_LOCK]
    /\ opened \in [Files -> {"closed", "open", "closing"}]
    /\ inode \in [Procs -> [eFileLock: NO_LOCK..EXCLUSIVE_LOCK, nShared: Nat, nLock: Nat,
                            unused: 0..MaxUnused]]
    /\ kernel \in [Procs -> [Bytes -> {"-", "R", "W"}]]
    /\ method \in [Procs -> [file: Files \cup {NoFile}, at: Places, goal: NO_LOCK..EXCLUSIVE_LOCK]]
    /\ deaths \in 0..MaxDeaths

\* Between two methods the kernel holds what the handles of the process believe they
\* have: no close of another handle, and no reader that comes or goes, drops a lock.
KernelBacks ==
    \A f \in Files : LET k == kernel[ProcOf(f)] IN
        Idle(ProcOf(f)) =>
            /\ eFileLock[f] >= SHARED_LOCK    => k["SHARED_FIRST"] # "-"
            /\ eFileLock[f] = RESERVED_LOCK   => k["RESERVED_BYTE"] = "W"
            /\ eFileLock[f] >= PENDING_LOCK   => k["PENDING_BYTE"] = "W"
            /\ eFileLock[f] = EXCLUSIVE_LOCK  => k["SHARED_FIRST"] = "W"

\* Between two methods the kernel holds no more than that: a lock that nobody would
\* ever give back would keep every other process out.
NothingLeaks ==
    \A p \in Procs :
        Idle(p) =>
            /\ kernel[p]["SHARED_FIRST"] # "-" => \E f \in Files : ProcOf(f) = p /\ eFileLock[f] >= SHARED_LOCK
            /\ \A b \in {"PENDING_BYTE", "RESERVED_BYTE"} :
                  kernel[p][b] # "-" => \E f \in Files : ProcOf(f) = p /\ eFileLock[f] > SHARED_LOCK

-----------------------------------------------------------------------------
(* FileLocks is implemented: a connection's lock is what the kernel will   *)
(* let others feel of it, so it is gained with the last call that can fail *)
(* and lost with the first that gives something back.                      *)

\* PENDING, with or without RESERVED.
Waiting(f) == IF kernel[ProcOf(f)]["RESERVED_BYTE"] = "W" THEN PENDING_LOCK ELSE RECOVERY_LOCK

Held(f) ==
    LET m == method[ProcOf(f)] IN
    CASE m.file = f /\ m.at = "dropPending"                           -> SHARED_LOCK
      [] m.file = f /\ m.at = "unlockAll" /\ eFileLock[f] > SHARED_LOCK -> SHARED_LOCK
      [] m.file = f /\ m.at = "writingShared"                         -> Waiting(f)
      [] OTHER -> IF eFileLock[f] = PENDING_LOCK THEN Waiting(f) ELSE eFileLock[f]

Fellows(f) == {g \in Files \ {f} : ProcOf(g) = ProcOf(f)}

Implemented == INSTANCE FileLocks WITH Conns <- Files, Peers <- Fellows,
                                       lock <- [f \in Files |-> Held(f)]

\* Whatever two processes and two handles of one process do between each other's system
\* calls, who writes is alone, one prepares, one waits, and the dead hold nothing.
LocksImplemented == Implemented!LockSpec

\* hasHotJournal takes a journal for one a dead process left behind if nobody holds
\* RESERVED: the check sees every writer, also one that waits for the readers to leave.
WriterIsSeen ==
    \A f, g \in Files :
        f # g /\ eFileLock[f] = SHARED_LOCK /\ Held(g) \in Implemented!Writers => CheckReservedLock(f)

\* Who waits for the readers to leave gets the file: a process that has no reader left
\* gets no new one before.  (Handles of one process that take turns without a gap keep
\* the writer of another out for ever: they never ask for the pending byte again.)
WriterGetsThrough ==
    \A f \in Files :
        (\A q \in Procs \ {ProcOf(f)} : []<>(inode[q].nShared = 0)) =>
            (eFileLock[f] = PENDING_LOCK ~> eFileLock[f] # PENDING_LOCK)
=============================================================================
