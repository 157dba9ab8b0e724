----------------------------- MODULE FileLocks -----------------------------
(***************************************************************************)
(* What the locks of a database file promise to the connections that have  *)
(* it open, whoever implements them (os.h): any number may read, one of    *)
(* the readers may prepare to write, one may wait for the readers to       *)
(* leave, which lets no new process in, and who writes is alone.           *)
(***************************************************************************)
EXTENDS Naturals

CONSTANTS
    Conns,      \* connections to one database file
    Peers(_)    \* the connections of a connection's process

VARIABLE lock      \* the lock each of them holds

NO_LOCK        == 0
SHARED_LOCK    == 1
RESERVED_LOCK  == 2
PENDING_LOCK   == 3
EXCLUSIVE_LOCK == 4
RECOVERY_LOCK  == 5   \* PENDING that came from SHARED, without RESERVED

Locks == NO_LOCK..RECOVERY_LOCK

Others(c) == Conns \ {c}

\* What the others may hold when a connection obtains a lock.
Admitted(k) == CASE k = NO_LOCK        -> Locks
                 [] k = SHARED_LOCK    -> {NO_LOCK, SHARED_LOCK, RESERVED_LOCK}
                 [] k = RESERVED_LOCK  -> {NO_LOCK, SHARED_LOCK, RECOVERY_LOCK}
                 [] k = PENDING_LOCK   -> {NO_LOCK, SHARED_LOCK}
                 [] k = RECOVERY_LOCK  -> {NO_LOCK, SHARED_LOCK, RESERVED_LOCK}
                 [] k = EXCLUSIVE_LOCK -> {NO_LOCK}

\* The lock that leads to a lock.  A hot journal is rolled back without RESERVED.
LeadsTo(k) == CASE k = SHARED_LOCK    -> {NO_LOCK}
                [] k = RESERVED_LOCK  -> {SHARED_LOCK}
                [] k = PENDING_LOCK   -> {RESERVED_LOCK}
                [] k = RECOVERY_LOCK  -> {SHARED_LOCK}
                [] k = EXCLUSIVE_LOCK -> {PENDING_LOCK, RECOVERY_LOCK}
                [] k = NO_LOCK        -> {}

\* A process that reads may read more, even while another one waits for it to leave.
MayJoin(c, k) == k = SHARED_LOCK /\ \E o \in Others(c) \cap Peers(c) : lock[o] \in {SHARED_LOCK, RESERVED_LOCK}

MayObtain(c, k) == /\ lock[c] \in LeadsTo(k)
                   /\ MayJoin(c, k) \/ \A o \in Others(c) : lock[o] \in Admitted(k)

Obtain(c, k) == MayObtain(c, k) /\ lock' = [lock EXCEPT ![c] = k]

\* Down to SHARED or to nothing.
Release(c, k) == /\ k \in {NO_LOCK, SHARED_LOCK}
                 /\ k < lock[c]
                 /\ lock' = [lock EXCEPT ![c] = k]

\* A process that dies holds nothing.
Drop(C) == lock' = [c \in Conns |-> IF c \in C THEN NO_LOCK ELSE lock[c]]

LockInit == lock = [c \in Conns |-> NO_LOCK]

LockNext == \/ \E c \in Conns, k \in Locks : Obtain(c, k) \/ Release(c, k)
            \/ \E C \in SUBSET Conns : Drop(C)

LockSpec == LockInit /\ [][LockNext]_lock

Writers == {RESERVED_LOCK, PENDING_LOCK}
Waiters == {PENDING_LOCK, RECOVERY_LOCK}

\* Who holds EXCLUSIVE is alone, at most one connection prepares to write, and at most
\* one waits for the readers to leave.
Exclusion ==
    \A c \in Conns : \A o \in Others(c) :
        /\ lock[c] = EXCLUSIVE_LOCK => lock[o] = NO_LOCK
        /\ lock[c] \in Writers => lock[o] \notin Writers
        /\ lock[c] \in Waiters => lock[o] \notin Waiters
=============================================================================
