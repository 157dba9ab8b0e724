-------------------------- MODULE UnixLocksProofs --------------------------
(***************************************************************************)
(* What UnixLocks guarantees for any handles in any processes, whatever    *)
(* happens between two system calls of a method.                           *)
(*                                                                         *)
(* The argument looks at one process at a time: UnixInv says which locks   *)
(* the kernel holds for it at every place of a method, given the level of  *)
(* the inode record, and how that level, the counts and the levels of the  *)
(* handles fit together.  Between processes three facts remain: the kernel *)
(* grants a write lock to one process only, a step of one process touches  *)
(* nothing of another, and who holds EXCLUSIVE keeps the pending byte, so  *)
(* that nobody else comes to read.                                         *)
(***************************************************************************)
EXTENDS UnixLocks, FiniteSetTheorems, TLAPS

Fds(p) == {f \in Files : ProcOf(f) = p}
Holders(p) == {f \in Fds(p) : eFileLock[f] # NO_LOCK}

\* The level of a process, and the place and the handle of its method.
Level(p) == inode[p].eFileLock
At(p) == method[p].at
On(p) == method[p].file

\* The inode record counts the handles that hold something.
Counts(p) == inode[p].nShared = Cardinality(Holders(p)) /\ inode[p].nLock = Cardinality(Holders(p))

\* A handle that is being unlocked altogether keeps its level to the end, while the
\* inode record has come down already.
Leaving(f) == At(ProcOf(f)) = "unlockAll" /\ On(ProcOf(f)) = f /\ eFileLock[f] > SHARED_LOCK

\* A handle above SHARED has the level of its process, which no other handle has.
Levels(p) ==
    /\ Level(p) = NO_LOCK <=> Holders(p) = {}
    /\ Level(p) > SHARED_LOCK => \E f \in Fds(p) : eFileLock[f] = Level(p)
    /\ \A f \in Fds(p) :
        /\ eFileLock[f] > SHARED_LOCK =>
             /\ Level(p) = IF Leaving(f) THEN SHARED_LOCK ELSE eFileLock[f]
             /\ \A g \in Fds(p) \ {f} : eFileLock[g] <= SHARED_LOCK
        /\ eFileLock[f] = EXCLUSIVE_LOCK => Holders(p) = {f}
        /\ eFileLock[f] # NO_LOCK => opened[f] # "closed"

\* The handle of a method, and what it is on its way to.
Placed(p) == LET f == On(p) IN
    At(p) # "idle" =>
        /\ f \in Fds(p)
        /\ opened[f] # "closed"
        /\ At(p) \in {"readingPending", "dropPending", "dropPendingBusy"} => Level(p) = NO_LOCK
        /\ At(p) = "writingShared" => eFileLock[f] = Level(p) /\ Level(p) \in SHARED_LOCK..PENDING_LOCK
        /\ At(p) = "readingShared" => eFileLock[f] > SHARED_LOCK /\ method[p].goal = SHARED_LOCK
        /\ At(p) = "unlockTwo" => eFileLock[f] > SHARED_LOCK /\ method[p].goal \in {NO_LOCK, SHARED_LOCK}
        /\ At(p) = "unlockAll" => eFileLock[f] # NO_LOCK

\* The locks the kernel holds for a process.
SharedByte(p) ==
    CASE At(p) = "dropPending"                                    -> "R"
      [] At(p) = "unlockTwo" /\ method[p].goal = SHARED_LOCK       -> "R"
      [] At(p) = "unlockAll" /\ eFileLock[On(p)] = EXCLUSIVE_LOCK  -> "W"
      [] OTHER -> IF Level(p) = NO_LOCK THEN "-" ELSE IF Level(p) = EXCLUSIVE_LOCK THEN "W" ELSE "R"

PendingByte(p) ==
    CASE At(p) \in {"readingPending", "dropPending", "dropPendingBusy"} -> "R"
      [] At(p) = "writingShared" \/ Level(p) >= PENDING_LOCK            -> "W"
      [] OTHER                                                          -> "-"

ReservedByte(p) == CASE Level(p) = RESERVED_LOCK  -> {"W"}
                     [] Level(p) >= PENDING_LOCK  -> {"W", "-"}
                     [] OTHER                     -> {"-"}

Backed(p) == /\ kernel[p]["SHARED_FIRST"] = SharedByte(p)
             /\ kernel[p]["PENDING_BYTE"] = PendingByte(p)
             /\ kernel[p]["RESERVED_BYTE"] \in ReservedByte(p)

ProcInv(p) == Counts(p) /\ Levels(p) /\ Placed(p) /\ Backed(p)

\* The kernel lets one process write lock a byte, and nobody else then.
Posix(p, q) == \A b \in Bytes : kernel[p][b] = "W" => kernel[q][b] = "-"

\* While a process has EXCLUSIVE, or is coming down from it, no other process reads.
NoReader(p, q) == Level(p) = EXCLUSIVE_LOCK => kernel[q]["SHARED_FIRST"] = "-"

UnixInv == /\ TypeOK
           /\ \A p \in Procs : ProcInv(p)
           /\ \A p \in Procs : \A q \in Procs \ {p} : Posix(p, q) /\ NoReader(p, q)

-----------------------------------------------------------------------------
USE DEF NO_LOCK, SHARED_LOCK, RESERVED_LOCK, PENDING_LOCK, EXCLUSIVE_LOCK, RECOVERY_LOCK

LEMMA Owned == \A f \in Files : ProcOf(f) \in Procs /\ f \in Fds(ProcOf(f))
  BY FilesAssumption DEF Fds

\* The inode records, method records and kernel locks of the processes.
Inodes  == [eFileLock: NO_LOCK..EXCLUSIVE_LOCK, nShared: Nat, nLock: Nat, unused: 0..MaxUnused]
Methods == [file: Files \cup {NoFile}, at: Places, goal: NO_LOCK..EXCLUSIVE_LOCK]

LEMMA Values ==
  ASSUME TypeOK
  PROVE  /\ \A f \in Files : eFileLock[f] \in 0..4 /\ opened[f] \in {"closed", "open", "closing"}
         /\ \A p \in Procs :
              /\ inode[p] \in Inodes /\ method[p] \in Methods
              /\ Level(p) \in 0..4 /\ inode[p].nShared \in Nat /\ inode[p].nLock \in Nat
              /\ inode[p].unused \in 0..MaxUnused /\ method[p].goal \in 0..4
  BY DEF TypeOK, Inodes, Methods, Level

\* The holders of a process are counted by a natural number: none, the only one, or more.
LEMMA HoldersCount ==
  ASSUME NEW p \in Procs, NEW S \in SUBSET Fds(p)
  PROVE  /\ IsFiniteSet(S) /\ Cardinality(S) \in Nat
         /\ Cardinality(S) = 0 <=> S = {}
         /\ \A f \in S : Cardinality(S) <= 1 => S = {f}
         /\ \A f \in Fds(p) \ S : Cardinality(S \cup {f}) = Cardinality(S) + 1
         /\ \A f \in S : Cardinality(S \ {f}) = Cardinality(S) - 1
  <1>1. IsFiniteSet(S)
    BY FilesAssumption, FS_Subset DEF Fds
  <1>2. Cardinality(S) \in Nat /\ (Cardinality(S) = 0 <=> S = {})
    BY <1>1, FS_CardinalityType, FS_EmptySet
  <1>3. ASSUME NEW f \in S PROVE Cardinality(S \ {f}) = Cardinality(S) - 1
    BY <1>1, FS_RemoveElement
  <1>4. ASSUME NEW f \in Fds(p) \ S PROVE Cardinality(S \cup {f}) = Cardinality(S) + 1
    BY <1>1, FS_AddElement
  <1>5. ASSUME NEW f \in S, Cardinality(S) <= 1 PROVE S = {f}
    <2>1. Cardinality(S) = 1
      BY <1>2, <1>5
    <2>2. IsFiniteSet(S \ {f}) /\ Cardinality(S \ {f}) = 0
      BY <1>1, <1>3, <2>1, FS_RemoveElement
    <2>3. S \ {f} = {}
      BY <2>2, FS_EmptySet
    <2>. QED
      BY <2>3
  <1>. QED
    BY <1>1, <1>2, <1>3, <1>4, <1>5

\* The steps of a process.
ActsOn(f) == Lock(f) \/ Open(f) \/ Close(f) \/ FinishClose(f) \/ \E k \in {NO_LOCK, SHARED_LOCK} : Unlock(f, k)

LEMMA StepCases ==
  ASSUME [Next]_vars
  PROVE  \/ \E p \in Procs : Proceed(p) \/ Die(p) \/ \E f \in Fds(p) : ActsOn(f)
         \/ UNCHANGED vars
  BY Owned DEF Next, ActsOn

LEMMA FunctionTypes ==
  ASSUME TypeOK
  PROVE  /\ eFileLock \in [Files -> 0..4] /\ opened \in [Files -> {"closed", "open", "closing"}]
         /\ inode \in [Procs -> Inodes] /\ kernel \in [Procs -> [Bytes -> {"-", "R", "W"}]]
         /\ method \in [Procs -> Methods] /\ deaths \in 0..MaxDeaths
  BY DEF TypeOK, Inodes, Methods

\* What a system call does to the kernel's locks.
KernelMoves(p) ==
    \/ UNCHANGED kernel
    \/ \E B \in SUBSET Bytes : Unlocked(p, B)
    \/ \E b \in Bytes : \E t \in {"R", "W"} : Granted(p, b, t)

LEMMA KernelType ==
  ASSUME TypeOK, NEW p \in Procs, KernelMoves(p)
  PROVE  /\ kernel' \in [Procs -> [Bytes -> {"-", "R", "W"}]]
         /\ \A q \in Procs \ {p} : kernel'[q] = kernel[q]
  <1>1. kernel \in [Procs -> [Bytes -> {"-", "R", "W"}]]
    BY DEF TypeOK
  <1>2. CASE UNCHANGED kernel
    BY <1>1, <1>2
  <1>3. ASSUME NEW k \in [Bytes -> {"-", "R", "W"}], kernel' = [kernel EXCEPT ![p] = k]
        PROVE  /\ kernel' \in [Procs -> [Bytes -> {"-", "R", "W"}]]
               /\ \A q \in Procs \ {p} : kernel'[q] = kernel[q]
    BY <1>1, <1>3
  <1>4. ASSUME NEW B \in SUBSET Bytes, Unlocked(p, B)
        PROVE  \E k \in [Bytes -> {"-", "R", "W"}] : kernel' = [kernel EXCEPT ![p] = k]
    <2>. DEFINE k == [b \in Bytes |-> IF b \in B THEN "-" ELSE kernel[p][b]]
    <2>1. kernel' = [kernel EXCEPT ![p] = k]
      BY <1>1, <1>4 DEF Unlocked
    <2>2. k \in [Bytes -> {"-", "R", "W"}]
      BY <1>1
    <2>. HIDE DEF k
    <2>. QED
      BY <2>1, <2>2
  <1>5. ASSUME NEW b \in Bytes, NEW t \in {"R", "W"}, Granted(p, b, t)
        PROVE  \E k \in [Bytes -> {"-", "R", "W"}] : kernel' = [kernel EXCEPT ![p] = k]
    <2>. DEFINE k == [kernel[p] EXCEPT ![b] = t]
    <2>1. kernel' = [kernel EXCEPT ![p] = k]
      BY <1>1, <1>5 DEF Granted
    <2>2. k \in [Bytes -> {"-", "R", "W"}]
      BY <1>1
    <2>. HIDE DEF k
    <2>. QED
      BY <2>1, <2>2
  <1>. QED
    BY <1>2, <1>3, <1>4, <1>5 DEF KernelMoves

LEMMA ByteNames == "PENDING_BYTE" \in Bytes /\ "RESERVED_BYTE" \in Bytes /\ "SHARED_FIRST" \in Bytes
                   /\ UpperBytes \in SUBSET Bytes
  BY DEF Bytes, UpperBytes

LEMMA KernelStep ==
  ASSUME NEW p \in Procs, Proceed(p) \/ Die(p) \/ \E f \in Fds(p) : ActsOn(f)
  PROVE  KernelMoves(p)
  <1>1. CASE Proceed(p)
    BY <1>1, ByteNames DEF Proceed, ReadShared, DropPending, WriteShared, UnlockToRead, UnlockUpper,
       UnlockAll, KernelMoves, Refused
  <1>2. CASE Die(p)
    BY <1>2 DEF Die, KernelMoves
  <1>3. ASSUME NEW f \in Fds(p), ActsOn(f) PROVE KernelMoves(p)
    <2>1. p = ProcOf(f)
      BY DEF Fds
    <2>. QED
      BY <1>3, <2>1, ByteNames DEF ActsOn, Lock, LockSharedAgain, LockShared, PendingFirst, LockReserved,
         LockExclusive, Open, Close, FinishClose, Unlock, KernelMoves
  <1>. QED
    BY <1>1, <1>2, <1>3


\* A step of a process leaves every other one alone, and keeps to the values it may use.
Local(p) ==
    /\ \A q \in Procs \ {p} : inode'[q] = inode[q] /\ method'[q] = method[q] /\ kernel'[q] = kernel[q]
    /\ \A f \in Files \ Fds(p) : eFileLock'[f] = eFileLock[f] /\ opened'[f] = opened[f]

LEMMA InodeRecord ==
  ASSUME TypeOK, NEW p \in Procs, NEW i \in Inodes, inode' = [inode EXCEPT ![p] = i]
  PROVE  /\ inode' \in [Procs -> Inodes] /\ inode'[p] = i
         /\ \A q \in Procs \ {p} : inode'[q] = inode[q]
  BY FunctionTypes

LEMMA MethodRecord ==
  ASSUME TypeOK, NEW p \in Procs, NEW m \in Methods, method' = [method EXCEPT ![p] = m]
  PROVE  /\ method' \in [Procs -> Methods] /\ method'[p] = m
         /\ \A q \in Procs \ {p} : method'[q] = method[q]
  BY FunctionTypes

LEMMA FreshValues == FreshInode \in Inodes /\ NoMethod \in Methods
  BY UnixBounds DEF FreshInode, NoMethod, Inodes, Methods, Places

\* What an action makes of the inode record of its process.
InodeOf(p, l, n, k, u) ==
    /\ inode' \in [Procs -> Inodes]
    /\ \A q \in Procs \ {p} : inode'[q] = inode[q]
    /\ Level(p)' = l /\ inode'[p].nShared = n /\ inode'[p].nLock = k /\ inode'[p].unused = u

LEMMA InodeIs ==
  ASSUME TypeOK, NEW p \in Procs, NEW l \in 0..4, NEW n \in Nat, NEW k \in Nat, NEW u \in 0..MaxUnused,
         NEW i, inode' = [inode EXCEPT ![p] = i],
         i = [eFileLock |-> l, nShared |-> n, nLock |-> k, unused |-> u]
  PROVE  InodeOf(p, l, n, k, u)
  <1>1. i \in Inodes
    BY DEF Inodes
  <1>2. inode'[p] = i
    BY <1>1, InodeRecord
  <1>. QED
    BY <1>1, <1>2, InodeRecord DEF InodeOf, Level

\* A record with one or more of its fields changed.
LEMMA InodeCounted ==
  ASSUME NEW i \in Inodes, NEW n \in Nat, NEW k \in Nat
  PROVE  [i EXCEPT !.nShared = n, !.nLock = k]
           = [eFileLock |-> i.eFileLock, nShared |-> n, nLock |-> k, unused |-> i.unused]
  <1>. DEFINE j == [i EXCEPT !.nShared = n, !.nLock = k]
  <1>1. j.eFileLock = i.eFileLock /\ j.nShared = n /\ j.nLock = k /\ j.unused = i.unused /\ j \in Inodes
    BY DEF Inodes
  <1>. HIDE DEF j
  <1>2. j = [eFileLock |-> j.eFileLock, nShared |-> j.nShared, nLock |-> j.nLock, unused |-> j.unused]
    BY <1>1 DEF Inodes
  <1>. QED
    BY <1>1, <1>2 DEF j

LEMMA InodeField ==
  ASSUME NEW i \in Inodes
  PROVE  /\ \A l : [i EXCEPT !.eFileLock = l]
                = [eFileLock |-> l, nShared |-> i.nShared, nLock |-> i.nLock, unused |-> i.unused]
         /\ \A u : [i EXCEPT !.unused = u]
                = [eFileLock |-> i.eFileLock, nShared |-> i.nShared, nLock |-> i.nLock, unused |-> u]
  BY DEF Inodes

\* What that makes of the records of all processes.
LEMMA SharedAgainInode ==
  ASSUME TypeOK, NEW p \in Procs, inode' = [inode EXCEPT ![p].nShared = @ + 1, ![p].nLock = @ + 1]
  PROVE  InodeOf(p, Level(p), inode[p].nShared + 1, inode[p].nLock + 1, inode[p].unused)
  <1>. DEFINE i == inode[p]
              n == i.nShared + 1
              k == i.nLock + 1
              j == [i EXCEPT !.nShared = n, !.nLock = k]
  <1>1. inode' = [inode EXCEPT ![p] = j]
    BY FunctionTypes
  <1>2. i \in Inodes /\ n \in Nat /\ k \in Nat /\ Level(p) \in 0..4 /\ i.unused \in 0..MaxUnused
    BY Values
  <1>. HIDE DEF n, k
  <1>3. j = [eFileLock |-> Level(p), nShared |-> n, nLock |-> k, unused |-> i.unused]
    BY <1>2, InodeCounted DEF Level
  <1>. HIDE DEF j
  <1>4. InodeOf(p, Level(p), n, k, i.unused)
    BY <1>1, <1>2, <1>3, InodeIs
  <1>. QED
    BY <1>4 DEF n, k

LEMMA FirstSharedInode ==
  ASSUME TypeOK, NEW p \in Procs,
         inode' = [inode EXCEPT ![p].eFileLock = SHARED_LOCK, ![p].nShared = 1, ![p].nLock = @ + 1]
  PROVE  InodeOf(p, SHARED_LOCK, 1, inode[p].nLock + 1, inode[p].unused)
  <1>. DEFINE i == inode[p]
              l == SHARED_LOCK
              n == 1
              k == i.nLock + 1
              j == [i EXCEPT !.eFileLock = l, !.nShared = n, !.nLock = k]
  <1>1. inode' = [inode EXCEPT ![p] = j]
    BY FunctionTypes
  <1>2. i \in Inodes /\ l \in 0..4 /\ n \in Nat /\ k \in Nat /\ i.unused \in 0..MaxUnused
    BY Values
  <1>. HIDE DEF i, l, n, k
  <1>3. j = [eFileLock |-> l, nShared |-> n, nLock |-> k, unused |-> i.unused]
    <2>1. j.eFileLock = l /\ j.nShared = n /\ j.nLock = k /\ j.unused = i.unused /\ j \in Inodes
      BY <1>2 DEF Inodes
    <2>. HIDE DEF j
    <2>2. j = [eFileLock |-> j.eFileLock, nShared |-> j.nShared, nLock |-> j.nLock, unused |-> j.unused]
      BY <2>1 DEF Inodes
    <2>. QED
      BY <2>1, <2>2
  <1>. HIDE DEF j
  <1>4. InodeOf(p, l, n, k, i.unused)
    BY <1>1, <1>2, <1>3, InodeIs
  <1>. QED
    BY <1>4 DEF i, l, n, k

LEMMA LevelInode ==
  ASSUME TypeOK, NEW p \in Procs, NEW l \in 0..4, inode' = [inode EXCEPT ![p].eFileLock = l]
  PROVE  InodeOf(p, l, inode[p].nShared, inode[p].nLock, inode[p].unused)
  <1>. DEFINE i == inode[p]
              j == [i EXCEPT !.eFileLock = l]
  <1>1. inode' = [inode EXCEPT ![p] = j] /\ i \in Inodes
    BY FunctionTypes
  <1>2. j = [eFileLock |-> l, nShared |-> i.nShared, nLock |-> i.nLock, unused |-> i.unused]
    BY <1>1, InodeField
  <1>. HIDE DEF j
  <1>. QED
    BY <1>1, <1>2, Values, InodeIs

LEMMA UnusedInode ==
  ASSUME TypeOK, NEW p \in Procs, NEW u \in 0..MaxUnused, inode' = [inode EXCEPT ![p].unused = u]
  PROVE  InodeOf(p, Level(p), inode[p].nShared, inode[p].nLock, u)
  <1>. DEFINE i == inode[p]
              j == [i EXCEPT !.unused = u]
  <1>1. inode' = [inode EXCEPT ![p] = j] /\ i \in Inodes
    BY FunctionTypes
  <1>2. j = [eFileLock |-> Level(p), nShared |-> i.nShared, nLock |-> i.nLock, unused |-> u]
    BY <1>1, InodeField DEF Level
  <1>. HIDE DEF j
  <1>. QED
    BY <1>1, <1>2, Values, InodeIs

LEMMA LessInode ==
  ASSUME TypeOK, NEW p \in Procs, inode[p].nShared >= 1, inode[p].nLock >= 1,
         inode' = [inode EXCEPT ![p] = OneLockLess(@)]
  PROVE  InodeOf(p, IF inode[p].nShared = 1 THEN NO_LOCK ELSE Level(p),
                 inode[p].nShared - 1, inode[p].nLock - 1,
                 IF inode[p].nLock = 1 THEN 0 ELSE inode[p].unused)
  <1>. DEFINE i == inode[p]
              j == OneLockLess(i)
              l == IF i.nShared = 1 THEN NO_LOCK ELSE Level(p)
              u == IF i.nLock = 1 THEN 0 ELSE i.unused
  <1>1. inode' = [inode EXCEPT ![p] = j]
    BY FunctionTypes
  <1>2. j = [eFileLock |-> l, nShared |-> i.nShared - 1, nLock |-> i.nLock - 1, unused |-> u]
    BY DEF OneLockLess, Level
  <1>3. l \in 0..4 /\ i.nShared - 1 \in Nat /\ i.nLock - 1 \in Nat /\ u \in 0..MaxUnused
    BY Values, UnixBounds
  <1>. HIDE DEF j, l, u
  <1>4. InodeOf(p, l, i.nShared - 1, i.nLock - 1, u)
    BY <1>1, <1>2, <1>3, InodeIs
  <1>. QED
    BY <1>4 DEF l, u

LEMMA FreshInodeOf ==
  ASSUME TypeOK, NEW p \in Procs, inode' = [inode EXCEPT ![p] = FreshInode]
  PROVE  InodeOf(p, NO_LOCK, 0, 0, 0)
  <1>1. FreshInode = [eFileLock |-> NO_LOCK, nShared |-> 0, nLock |-> 0, unused |-> 0]
    BY DEF FreshInode
  <1>2. NO_LOCK \in 0..4 /\ 0 \in Nat /\ 0 \in 0..MaxUnused
    BY UnixBounds
  <1>. DEFINE i == FreshInode
  <1>3. inode' = [inode EXCEPT ![p] = i]
    OBVIOUS
  <1>. HIDE DEF i
  <1>4. i = [eFileLock |-> NO_LOCK, nShared |-> 0, nLock |-> 0, unused |-> 0]
    BY <1>1 DEF i
  <1>. QED
    BY <1>2, <1>3, <1>4, InodeIs

LEMMA SameInode ==
  ASSUME TypeOK, NEW p \in Procs, inode' = inode
  PROVE  InodeOf(p, Level(p), inode[p].nShared, inode[p].nLock, inode[p].unused)
  BY FunctionTypes DEF InodeOf, Level


\* What an action makes of the method under way, of a handle's level, and of a byte.
MethodOf(p, f, a, g) ==
    /\ method' \in [Procs -> Methods]
    /\ \A q \in Procs \ {p} : method'[q] = method[q]
    /\ At(p)' = a /\ On(p)' = f /\ method'[p].goal = g

HandleOf(f, k) ==
    /\ eFileLock' \in [Files -> 0..4] /\ eFileLock'[f] = k
    /\ \A g \in Files \ {f} : eFileLock'[g] = eFileLock[g]

LEMMA EnterMethod ==
  ASSUME TypeOK, NEW p \in Procs, NEW f \in Fds(p), NEW a \in Places, NEW g \in 0..4, Enter(f, a, g)
  PROVE  MethodOf(p, f, a, g)
  <1>1. [file |-> f, at |-> a, goal |-> g] \in Methods
    BY DEF Methods, Fds
  <1>2. method' = [method EXCEPT ![p] = [file |-> f, at |-> a, goal |-> g]]
    BY DEF Enter, Fds
  <1>3. method'[p] = [file |-> f, at |-> a, goal |-> g]
    BY <1>1, <1>2, MethodRecord
  <1>. QED
    BY <1>1, <1>2, <1>3, MethodRecord DEF MethodOf, At, On

LEMMA LeaveMethod ==
  ASSUME TypeOK, NEW p \in Procs, Leave(p)
  PROVE  MethodOf(p, NoFile, "idle", NO_LOCK)
  <1>1. method'[p] = NoMethod
    BY FreshValues, MethodRecord DEF Leave
  <1>. QED
    BY <1>1, FreshValues, MethodRecord DEF MethodOf, At, On, Leave, NoMethod

LEMMA SameMethod ==
  ASSUME TypeOK, NEW p \in Procs, method' = method
  PROVE  MethodOf(p, On(p), At(p), method[p].goal)
  BY FunctionTypes DEF MethodOf, At, On

LEMMA HandleChange ==
  ASSUME TypeOK, NEW f \in Files, NEW k \in 0..4, eFileLock' = [eFileLock EXCEPT ![f] = k]
  PROVE  HandleOf(f, k)
  BY FunctionTypes DEF HandleOf

LEMMA SetLockEffect ==
  ASSUME TypeOK, NEW f \in Files, NEW k \in 0..4, SetLock(f, k)
  PROVE  LET p == ProcOf(f) IN
         HandleOf(f, k) /\ InodeOf(p, k, inode[p].nShared, inode[p].nLock, inode[p].unused)
  BY HandleChange, LevelInode, Owned DEF SetLock

LEMMA GrantEffect ==
  ASSUME TypeOK, NEW p \in Procs, NEW b \in Bytes, NEW t \in {"R", "W"}, Granted(p, b, t)
  PROVE  /\ kernel'[p][b] = t
         /\ \A c \in Bytes \ {b} : kernel'[p][c] = kernel[p][c]
  BY FunctionTypes DEF Granted

LEMMA UnlockedEffect ==
  ASSUME TypeOK, NEW p \in Procs, NEW B \in SUBSET Bytes, Unlocked(p, B)
  PROVE  \A c \in Bytes : kernel'[p][c] = IF c \in B THEN "-" ELSE kernel[p][c]
  BY FunctionTypes DEF Unlocked

\* Who holds something after a handle's level has changed.
LEMMA HoldersStep ==
  ASSUME NEW p \in Procs, NEW f \in Fds(p), NEW k, HandleOf(f, k)
  PROVE  /\ k # NO_LOCK => Holders(p)' = Holders(p) \cup {f}
         /\ k = NO_LOCK => Holders(p)' = Holders(p) \ {f}
  BY DEF HandleOf, Holders, Fds

LEMMA SameHolders ==
  ASSUME NEW p \in Procs, \A f \in Fds(p) : eFileLock'[f] = eFileLock[f]
  PROVE  Holders(p)' = Holders(p)
  BY DEF Holders, Fds

LEMMA HoldersOf == ASSUME NEW p \in Procs PROVE Holders(p) \in SUBSET Fds(p)
  BY DEF Holders

\* What a step of a process has to show.
Kept(p) == TypeOK' /\ ProcInv(p)' /\ Local(p)

LEMMA TypeFrom ==
  ASSUME eFileLock' \in [Files -> 0..4], opened' \in [Files -> {"closed", "open", "closing"}],
         inode' \in [Procs -> Inodes], kernel' \in [Procs -> [Bytes -> {"-", "R", "W"}]],
         method' \in [Procs -> Methods], deaths' \in 0..MaxDeaths
  PROVE  TypeOK'
  BY DEF TypeOK, Inodes, Methods

\* A step that moves on in a method and leaves levels, counts and handles alone.
LEMMA MethodStep ==
  ASSUME TypeOK, NEW p \in Procs, ProcInv(p), KernelMoves(p), UNCHANGED <<eFileLock, opened, inode, deaths>>,
         NEW f \in Fds(p), NEW a \in Places, NEW g \in 0..4, MethodOf(p, f, a, g),
         At(p) \notin {"unlockAll"},
         a = "unlockAll" => eFileLock[f] = SHARED_LOCK,
         Placed(p)', Backed(p)'
  PROVE  Kept(p)
  <1>1. TypeOK'
    BY TypeFrom, KernelType, FunctionTypes DEF MethodOf
  <1>2. Counts(p)'
    BY SameHolders DEF ProcInv, Counts
  <1>3. Levels(p)'
    <2>1. Level(p)' = Level(p) /\ Holders(p)' = Holders(p)
      BY SameHolders DEF Level
    <2>2. \A h \in Fds(p) : ~Leaving(h) /\ ~Leaving(h)'
      BY DEF Leaving, Fds, MethodOf
    <2>. QED
      BY <2>1, <2>2 DEF ProcInv, Levels, Fds
  <1>4. Local(p)
    BY KernelType DEF Local, MethodOf
  <1>. QED
    BY <1>1, <1>2, <1>3, <1>4 DEF Kept, ProcInv

LEMMA LockSharedStep ==
  ASSUME TypeOK, NEW p \in Procs, ProcInv(p), NEW f \in Fds(p), LockShared(f)
  PROVE  Kept(p)
  <1>. p = ProcOf(f) /\ f \in Files
    BY DEF Fds
  <1>1. MethodOf(p, f, "readingPending", SHARED_LOCK)
    BY EnterMethod DEF LockShared, Places
  <1>2. /\ kernel'[p]["PENDING_BYTE"] = "R" /\ kernel'[p]["SHARED_FIRST"] = kernel[p]["SHARED_FIRST"]
        /\ kernel'[p]["RESERVED_BYTE"] = kernel[p]["RESERVED_BYTE"]
    BY GrantEffect, ByteNames DEF LockShared, PendingFirst, Bytes
  <1>3. KernelMoves(p)
    BY ByteNames DEF LockShared, PendingFirst, KernelMoves
  <1>4. At(p) = "idle" /\ Level(p) = NO_LOCK /\ opened[f] = "open" /\ Level(p)' = Level(p)
    BY DEF LockShared, Requestable, Idle, At, Level
  <1>5. Placed(p)'
    BY <1>1, <1>4 DEF Placed, MethodOf, LockShared, Fds
  <1>6. Backed(p)'
    BY <1>1, <1>2, <1>4 DEF ProcInv, Backed, SharedByte, PendingByte, ReservedByte, MethodOf
  <1>. QED
    BY <1>1, <1>3, <1>4, <1>5, <1>6, MethodStep DEF LockShared, Places


LEMMA ReadSharedStep ==
  ASSUME TypeOK, NEW p \in Procs, ProcInv(p), ReadShared(p)
  PROVE  Kept(p)
  <1>. DEFINE f == On(p)
  <1>1. At(p) = "readingPending" /\ f \in Fds(p) /\ opened[f] # "closed" /\ Level(p) = NO_LOCK
    BY DEF ReadShared, At, ProcInv, Placed
  <1>. HIDE DEF f
  <1>2. ASSUME NEW a \in {"dropPending", "dropPendingBusy"}, Enter(f, a, SHARED_LOCK), KernelMoves(p),
               kernel'[p]["SHARED_FIRST"] = IF a = "dropPending" THEN "R" ELSE "-",
               kernel'[p]["PENDING_BYTE"] = kernel[p]["PENDING_BYTE"],
               kernel'[p]["RESERVED_BYTE"] = kernel[p]["RESERVED_BYTE"]
        PROVE  Kept(p)
    <2>1. MethodOf(p, f, a, SHARED_LOCK)
      BY <1>1, <1>2, EnterMethod DEF Places
    <2>2. Level(p)' = Level(p) /\ opened' = opened
      BY DEF ReadShared, Level
    <2>3. Placed(p)'
      BY <1>1, <1>2, <2>1, <2>2 DEF Placed, MethodOf, Fds
    <2>4. Backed(p)'
      BY <1>1, <1>2, <2>1, <2>2 DEF ProcInv, Backed, SharedByte, PendingByte, ReservedByte, MethodOf
    <2>. QED
      BY <1>1, <1>2, <2>1, <2>3, <2>4, MethodStep DEF ReadShared, Places
  <1>3. CASE Granted(p, "SHARED_FIRST", "R") /\ Enter(f, "dropPending", SHARED_LOCK)
    BY <1>2, <1>3, GrantEffect, ByteNames DEF Bytes, KernelMoves
  <1>4. CASE Refused(p, "SHARED_FIRST", "R") /\ Enter(f, "dropPendingBusy", SHARED_LOCK)
    BY <1>1, <1>2, <1>4 DEF Refused, KernelMoves, ProcInv, Backed, SharedByte
  <1>. QED
    BY <1>3, <1>4 DEF ReadShared, f, On

LEMMA LockExclusiveStep ==
  ASSUME TypeOK, NEW p \in Procs, ProcInv(p), NEW f \in Fds(p), LockExclusive(f)
  PROVE  Kept(p)
  <1>. p = ProcOf(f) /\ f \in Files
    BY DEF Fds
  <1>1. MethodOf(p, f, "writingShared", EXCLUSIVE_LOCK)
    BY EnterMethod DEF LockExclusive, Places
  <1>2. /\ At(p) = "idle" /\ opened[f] = "open" /\ Level(p)' = Level(p)
        /\ eFileLock[f] = Level(p) /\ Level(p) \in SHARED_LOCK..PENDING_LOCK
    BY Values DEF LockExclusive, Requestable, Idle, At, Level
  <1>3. /\ kernel'[p]["PENDING_BYTE"] = "W" /\ kernel'[p]["SHARED_FIRST"] = kernel[p]["SHARED_FIRST"]
        /\ kernel'[p]["RESERVED_BYTE"] = kernel[p]["RESERVED_BYTE"] /\ KernelMoves(p)
    <2>1. CASE Granted(p, "PENDING_BYTE", "W")
      BY <2>1, GrantEffect, ByteNames DEF Bytes, KernelMoves
    <2>2. CASE ~(eFileLock[f] < PENDING_LOCK) /\ UNCHANGED kernel
      BY <1>2, <2>2 DEF KernelMoves, ProcInv, Backed, PendingByte
    <2>. QED
      BY <2>1, <2>2 DEF LockExclusive
  <1>4. Placed(p)'
    BY <1>1, <1>2 DEF Placed, MethodOf, LockExclusive, Fds
  <1>5. Backed(p)'
    BY <1>1, <1>2, <1>3 DEF ProcInv, Backed, SharedByte, PendingByte, ReservedByte, MethodOf
  <1>. QED
    BY <1>1, <1>2, <1>3, <1>4, <1>5, MethodStep DEF LockExclusive, Places

\* The first system call of unlocking depends on how far down from where.
LEMMA UnlockPlaces ==
  ASSUME TypeOK, NEW f \in Files, NEW k \in {NO_LOCK, SHARED_LOCK}, Unlock(f, k)
  PROVE  /\ UnlockFrom(f, k) = "readingShared" => eFileLock[f] > SHARED_LOCK /\ k = SHARED_LOCK
         /\ UnlockFrom(f, k) = "unlockTwo" => eFileLock[f] > SHARED_LOCK /\ k = NO_LOCK
         /\ UnlockFrom(f, k) = "unlockAll" => eFileLock[f] = SHARED_LOCK
         /\ UnlockFrom(f, k) \in {"readingShared", "unlockTwo", "unlockAll"}
  BY Values DEF UnlockFrom, Unlock

LEMMA UnlockStep ==
  ASSUME TypeOK, NEW p \in Procs, ProcInv(p), NEW f \in Fds(p), NEW k \in {NO_LOCK, SHARED_LOCK}, Unlock(f, k)
  PROVE  Kept(p)
  <1>. p = ProcOf(f) /\ f \in Files
    BY DEF Fds
  <1>. DEFINE a == UnlockFrom(f, k)
  <1>1. /\ a = "readingShared" => eFileLock[f] > SHARED_LOCK /\ k = SHARED_LOCK
        /\ a = "unlockTwo" => eFileLock[f] > SHARED_LOCK /\ k = NO_LOCK
        /\ a = "unlockAll" => eFileLock[f] = SHARED_LOCK
        /\ a \in {"readingShared", "unlockTwo", "unlockAll"}
    BY UnlockPlaces
  <1>2. Enter(f, a, k)
    BY DEF Unlock
  <1>. HIDE DEF a
  <1>3. MethodOf(p, f, a, k)
    BY <1>1, <1>2, EnterMethod DEF Places
  <1>4. At(p) = "idle" /\ opened[f] # "closed" /\ Level(p)' = Level(p) /\ KernelMoves(p)
    BY DEF Unlock, Idle, At, Level, KernelMoves
  <1>5. Placed(p)'
    BY <1>1, <1>3, <1>4 DEF Placed, MethodOf, Unlock, Fds
  <1>6. Backed(p)'
    BY <1>1, <1>3, <1>4 DEF ProcInv, Backed, SharedByte, PendingByte, ReservedByte, MethodOf, Unlock
  <1>. QED
    BY <1>1, <1>3, <1>4, <1>5, <1>6, MethodStep DEF Unlock, Places

LEMMA UnlockToReadStep ==
  ASSUME TypeOK, NEW p \in Procs, ProcInv(p), UnlockToRead(p)
  PROVE  Kept(p)
  <1>. DEFINE f == On(p)
  <1>1. /\ At(p) = "readingShared" /\ f \in Fds(p) /\ opened[f] # "closed"
        /\ eFileLock[f] > SHARED_LOCK /\ method[p].goal = SHARED_LOCK
    BY DEF UnlockToRead, At, ProcInv, Placed
  <1>2. Enter(f, "unlockTwo", SHARED_LOCK)
    BY <1>1 DEF UnlockToRead, On
  <1>. HIDE DEF f
  <1>3. MethodOf(p, f, "unlockTwo", SHARED_LOCK)
    BY <1>1, <1>2, EnterMethod DEF Places
  <1>4. /\ kernel'[p]["SHARED_FIRST"] = "R" /\ kernel'[p]["PENDING_BYTE"] = kernel[p]["PENDING_BYTE"]
        /\ kernel'[p]["RESERVED_BYTE"] = kernel[p]["RESERVED_BYTE"] /\ KernelMoves(p)
        /\ Level(p)' = Level(p)
    BY GrantEffect, ByteNames DEF UnlockToRead, Bytes, KernelMoves, Level
  <1>5. Placed(p)'
    BY <1>1, <1>3 DEF Placed, MethodOf, UnlockToRead, Fds
  <1>6. Backed(p)'
    BY <1>1, <1>3, <1>4 DEF ProcInv, Backed, SharedByte, PendingByte, ReservedByte, MethodOf
  <1>. QED
    BY <1>1, <1>3, <1>4, <1>5, <1>6, MethodStep DEF UnlockToRead, Places


LEMMA LockSharedAgainStep ==
  ASSUME TypeOK, NEW p \in Procs, ProcInv(p), NEW f \in Fds(p), LockSharedAgain(f)
  PROVE  Kept(p)
  <1>. p = ProcOf(f) /\ f \in Files
    BY DEF Fds
  <1>1. /\ At(p) = "idle" /\ opened[f] = "open" /\ eFileLock[f] = NO_LOCK
        /\ Level(p) \in {SHARED_LOCK, RESERVED_LOCK} /\ opened' = opened /\ kernel' = kernel
    BY Values DEF LockSharedAgain, Requestable, Idle, At, Level
  <1>2. InodeOf(p, Level(p), inode[p].nShared + 1, inode[p].nLock + 1, inode[p].unused)
    BY SharedAgainInode DEF LockSharedAgain
  <1>3. MethodOf(p, On(p), At(p), method[p].goal)
    BY SameMethod DEF LockSharedAgain
  <1>4. HandleOf(f, SHARED_LOCK)
    BY FunctionTypes DEF HandleOf, LockSharedAgain
  <1>5. TypeOK'
    BY <1>1, <1>2, <1>3, <1>4, TypeFrom, FunctionTypes DEF InodeOf, MethodOf, HandleOf, LockSharedAgain
  <1>6. Holders(p)' = Holders(p) \cup {f} /\ f \notin Holders(p)
    BY <1>1, <1>4, HoldersStep DEF Holders
  <1>7. Counts(p)'
    <2>1. Cardinality(Holders(p) \cup {f}) = Cardinality(Holders(p)) + 1
      BY <1>6, HoldersOf, HoldersCount
    <2>. QED
      BY <1>2, <1>6, <2>1 DEF InodeOf, ProcInv, Counts
  <1>8. Levels(p)'
    <2>1. Level(p)' = Level(p) /\ \A h \in Fds(p) : ~Leaving(h) /\ ~Leaving(h)'
      BY <1>1, <1>2, <1>3 DEF Leaving, Fds, MethodOf, InodeOf
    <2>2. \A h \in Fds(p) : eFileLock'[h] = IF h = f THEN SHARED_LOCK ELSE eFileLock[h]
      BY <1>4 DEF HandleOf, Fds
    <2>3. \A h \in Fds(p) : eFileLock[h] \in 0..2
      BY <1>1, <2>1, Values DEF ProcInv, Levels, Fds
    <2>. QED
      BY <1>1, <1>6, <2>1, <2>2, <2>3 DEF ProcInv, Levels, Fds
  <1>9. Placed(p)' /\ Backed(p)'
    BY <1>1, <1>2, <1>3, <1>4 DEF ProcInv, Placed, Backed, SharedByte, PendingByte, ReservedByte, MethodOf, InodeOf
  <1>10. Local(p)
    BY <1>1, <1>2, <1>3, <1>4 DEF Local, InodeOf, MethodOf, HandleOf
  <1>. QED
    BY <1>5, <1>7, <1>8, <1>9, <1>10 DEF Kept, ProcInv

LEMMA LockReservedStep ==
  ASSUME TypeOK, NEW p \in Procs, ProcInv(p), NEW f \in Fds(p), LockReserved(f)
  PROVE  Kept(p)
  <1>. p = ProcOf(f) /\ f \in Files
    BY DEF Fds
  <1>1. /\ At(p) = "idle" /\ opened[f] = "open" /\ eFileLock[f] = SHARED_LOCK
        /\ Level(p) = SHARED_LOCK /\ opened' = opened
    BY Values DEF LockReserved, Requestable, Idle, At, Level
  <1>2. InodeOf(p, RESERVED_LOCK, inode[p].nShared, inode[p].nLock, inode[p].unused)
    BY SetLockEffect DEF LockReserved
  <1>3. MethodOf(p, On(p), At(p), method[p].goal)
    BY SameMethod DEF LockReserved
  <1>4. HandleOf(f, RESERVED_LOCK)
    BY SetLockEffect DEF LockReserved
  <1>5. /\ kernel'[p]["RESERVED_BYTE"] = "W" /\ kernel'[p]["PENDING_BYTE"] = kernel[p]["PENDING_BYTE"]
        /\ kernel'[p]["SHARED_FIRST"] = kernel[p]["SHARED_FIRST"] /\ KernelMoves(p)
    BY GrantEffect, ByteNames DEF LockReserved, Bytes, KernelMoves
  <1>6. TypeOK'
    BY <1>1, <1>2, <1>3, <1>4, <1>5, TypeFrom, KernelType, FunctionTypes DEF InodeOf, MethodOf, HandleOf, LockReserved
  <1>7. Holders(p)' = Holders(p) /\ f \in Holders(p)
    BY <1>1, <1>4, HoldersStep DEF Holders
  <1>8. Counts(p)'
    BY <1>2, <1>7 DEF InodeOf, ProcInv, Counts
  <1>9. Levels(p)'
    <2>1. Level(p)' = RESERVED_LOCK /\ \A h \in Fds(p) : ~Leaving(h) /\ ~Leaving(h)'
      BY <1>1, <1>2, <1>3 DEF Leaving, Fds, MethodOf, InodeOf
    <2>2. \A h \in Fds(p) : eFileLock'[h] = IF h = f THEN RESERVED_LOCK ELSE eFileLock[h]
      BY <1>4 DEF HandleOf, Fds
    <2>3. \A h \in Fds(p) : eFileLock[h] \in 0..1
      BY <1>1, <2>1, Values DEF ProcInv, Levels, Fds
    <2>. QED
      BY <1>1, <1>7, <2>1, <2>2, <2>3 DEF ProcInv, Levels, Fds
  <1>10. Placed(p)' /\ Backed(p)'
    BY <1>1, <1>2, <1>3, <1>4, <1>5 DEF ProcInv, Placed, Backed, SharedByte, PendingByte, ReservedByte, MethodOf, InodeOf
  <1>11. Local(p)
    BY <1>1, <1>2, <1>3, <1>4, <1>5, KernelType DEF Local, InodeOf, MethodOf, HandleOf
  <1>. QED
    BY <1>6, <1>8, <1>9, <1>10, <1>11 DEF Kept, ProcInv

LEMMA DropPendingStep ==
  ASSUME TypeOK, NEW p \in Procs, ProcInv(p), DropPending(p)
  PROVE  Kept(p)
  <1>. DEFINE f == On(p)
  <1>1. /\ At(p) \in {"dropPending", "dropPendingBusy"} /\ f \in Fds(p) /\ opened[f] # "closed"
        /\ Level(p) = NO_LOCK /\ opened' = opened
    BY DEF DropPending, At, ProcInv, Placed
  <1>2. MethodOf(p, NoFile, "idle", NO_LOCK)
    BY LeaveMethod DEF DropPending
  <1>3. /\ kernel'[p]["PENDING_BYTE"] = "-" /\ kernel'[p]["SHARED_FIRST"] = kernel[p]["SHARED_FIRST"]
        /\ kernel'[p]["RESERVED_BYTE"] = kernel[p]["RESERVED_BYTE"] /\ KernelMoves(p)
    <2>1. {"PENDING_BYTE"} \in SUBSET Bytes
      BY DEF Bytes
    <2>. QED
      BY <2>1, UnlockedEffect, ByteNames DEF DropPending, KernelMoves
  <1>4. Holders(p) = {} /\ inode[p].nShared = 0 /\ inode[p].nLock = 0
    BY <1>1, HoldersOf, HoldersCount DEF ProcInv, Levels, Counts
  <1>5. CASE At(p) = "dropPendingBusy"
    <2>1. eFileLock' = eFileLock /\ inode' = inode
      BY <1>5 DEF DropPending, At
    <2>2. InodeOf(p, NO_LOCK, 0, 0, inode[p].unused)
      BY <1>1, <1>4, <2>1, SameInode
    <2>3. TypeOK'
      BY <1>1, <1>2, <1>3, <2>1, TypeFrom, KernelType, FunctionTypes DEF MethodOf, DropPending
    <2>4. Holders(p)' = {}
      BY <1>4, <2>1, SameHolders
    <2>5. Counts(p)' /\ Levels(p)'
      BY <1>2, <1>4, <2>1, <2>2, <2>4 DEF ProcInv, Counts, Levels, InodeOf, Holders, Fds
    <2>6. Placed(p)' /\ Backed(p)'
      BY <1>1, <1>2, <1>3, <1>5, <2>2 DEF ProcInv, Placed, Backed, SharedByte, PendingByte, ReservedByte,
         MethodOf, InodeOf
    <2>7. Local(p)
      BY <1>1, <1>2, <1>3, <2>1, KernelType DEF Local, MethodOf
    <2>. QED
      BY <2>3, <2>5, <2>6, <2>7 DEF Kept, ProcInv
  <1>6. CASE At(p) = "dropPending"
    <2>1. HandleOf(f, SHARED_LOCK) /\ InodeOf(p, SHARED_LOCK, 1, 1, inode[p].unused)
      <3>1. f \in Files /\ eFileLock' = [eFileLock EXCEPT ![f] = SHARED_LOCK]
        BY <1>1, <1>6 DEF DropPending, At, On, Fds
      <3>2. HandleOf(f, SHARED_LOCK)
        BY <3>1, FunctionTypes DEF HandleOf
      <3>3. InodeOf(p, SHARED_LOCK, 1, inode[p].nLock + 1, inode[p].unused)
        BY <1>6, FirstSharedInode DEF DropPending, At
      <3>. QED
        BY <1>4, <3>2, <3>3
    <2>. HIDE DEF f
    <2>2. TypeOK'
      BY <1>1, <1>2, <1>3, <2>1, TypeFrom, KernelType, FunctionTypes DEF MethodOf, HandleOf, InodeOf, DropPending
    <2>3. Holders(p)' = {f}
      BY <1>1, <1>4, <2>1, HoldersStep
    <2>4. Counts(p)'
      BY <2>1, <2>3, FS_Singleton DEF Counts, InodeOf
    <2>5. Levels(p)'
      <3>1. \A h \in Fds(p) : eFileLock'[h] = IF h = f THEN SHARED_LOCK ELSE NO_LOCK
        BY <1>4, <2>1 DEF HandleOf, Fds, Holders
      <3>. QED
        BY <1>1, <2>1, <2>3, <3>1 DEF Levels, InodeOf, Fds
    <2>6. Placed(p)' /\ Backed(p)'
      BY <1>1, <1>2, <1>3, <1>6, <2>1 DEF ProcInv, Placed, Backed, SharedByte, PendingByte, ReservedByte,
         MethodOf, InodeOf
    <2>7. Local(p)
      BY <1>1, <1>2, <1>3, <2>1, KernelType DEF Local, MethodOf, InodeOf, HandleOf
    <2>. QED
      BY <2>2, <2>4, <2>5, <2>6, <2>7 DEF Kept, ProcInv
  <1>. QED
    BY <1>1, <1>5, <1>6


LEMMA WriteSharedStep ==
  ASSUME TypeOK, NEW p \in Procs, ProcInv(p), WriteShared(p)
  PROVE  Kept(p)
  <1>. DEFINE f == On(p)
  <1>1. /\ At(p) = "writingShared" /\ f \in Fds(p) /\ opened[f] # "closed" /\ eFileLock[f] = Level(p)
        /\ Level(p) \in SHARED_LOCK..PENDING_LOCK /\ opened' = opened
    BY DEF WriteShared, At, ProcInv, Placed
  <1>2. MethodOf(p, NoFile, "idle", NO_LOCK)
    BY LeaveMethod DEF WriteShared
  <1>3. ASSUME NEW k \in {PENDING_LOCK, EXCLUSIVE_LOCK}, SetLock(f, k), KernelMoves(p),
               k = EXCLUSIVE_LOCK => Alone(p),
               kernel'[p]["SHARED_FIRST"] = IF k = EXCLUSIVE_LOCK THEN "W" ELSE "R",
               kernel'[p]["PENDING_BYTE"] = kernel[p]["PENDING_BYTE"],
               kernel'[p]["RESERVED_BYTE"] = kernel[p]["RESERVED_BYTE"]
        PROVE  Kept(p)
    <2>. HIDE DEF f
    <2>. k \in 0..4 /\ f \in Files /\ p = ProcOf(f)
      BY <1>1 DEF Fds
    <2>1. HandleOf(f, k) /\ InodeOf(p, k, inode[p].nShared, inode[p].nLock, inode[p].unused)
      BY <1>3, SetLockEffect
    <2>2. TypeOK'
      BY <1>1, <1>2, <1>3, <2>1, TypeFrom, KernelType, FunctionTypes DEF InodeOf, MethodOf, HandleOf, WriteShared
    <2>3. Holders(p)' = Holders(p) /\ f \in Holders(p)
      BY <1>1, <2>1, HoldersStep DEF Holders
    <2>4. Counts(p)'
      BY <2>1, <2>3 DEF InodeOf, ProcInv, Counts
    <2>5. k = EXCLUSIVE_LOCK => Holders(p) = {f}
      BY <1>3, <2>3, HoldersOf, HoldersCount DEF Alone, ProcInv, Counts
    <2>6. Levels(p)'
      <3>1. Level(p)' = k /\ \A h \in Fds(p) : ~Leaving(h) /\ ~Leaving(h)'
        BY <1>1, <1>2, <2>1 DEF Leaving, Fds, MethodOf, InodeOf
      <3>2. \A h \in Fds(p) : eFileLock'[h] = IF h = f THEN k ELSE eFileLock[h]
        BY <2>1 DEF HandleOf, Fds
      <3>3. \A h \in Fds(p) \ {f} : eFileLock[h] \in 0..1
        BY <1>1, <3>1, Values DEF ProcInv, Levels, Fds
      <3>. QED
        BY <1>1, <2>3, <2>5, <3>1, <3>2, <3>3 DEF ProcInv, Levels, Fds
    <2>7. Placed(p)'
      BY <1>2 DEF Placed, MethodOf
    <2>8. Backed(p)'
      BY <1>1, <1>2, <1>3, <2>1 DEF ProcInv, Backed, SharedByte, PendingByte, ReservedByte, MethodOf, InodeOf
    <2>9. Local(p)
      BY <1>1, <1>2, <1>3, <2>1, KernelType DEF Local, InodeOf, MethodOf, HandleOf
    <2>. QED
      BY <2>2, <2>4, <2>6, <2>7, <2>8, <2>9 DEF Kept, ProcInv
  <1>4. CASE Alone(p) /\ Granted(p, "SHARED_FIRST", "W") /\ SetLock(f, EXCLUSIVE_LOCK)
    BY <1>3, <1>4, GrantEffect, ByteNames DEF Bytes, KernelMoves
  <1>5. CASE UNCHANGED kernel /\ SetLock(f, PENDING_LOCK)
    BY <1>1, <1>3, <1>5 DEF KernelMoves, ProcInv, Backed, SharedByte
  <1>. QED
    BY <1>4, <1>5 DEF WriteShared, Refused, On

LEMMA UnlockUpperStep ==
  ASSUME TypeOK, NEW p \in Procs, ProcInv(p), UnlockUpper(p)
  PROVE  Kept(p)
  <1>0. PICK f \in Fds(p) : f = On(p)
    BY DEF UnlockUpper, At, ProcInv, Placed
  <1>1. /\ At(p) = "unlockTwo" /\ f \in Fds(p) /\ opened[f] # "closed" /\ eFileLock[f] > SHARED_LOCK
        /\ Level(p) = eFileLock[f] /\ opened' = opened /\ method[p].goal \in {NO_LOCK, SHARED_LOCK}
    BY <1>0 DEF UnlockUpper, At, ProcInv, Placed, Levels, Leaving, Fds
  <1>2. InodeOf(p, SHARED_LOCK, inode[p].nShared, inode[p].nLock, inode[p].unused)
    <2>. DEFINE l == SHARED_LOCK
    <2>1. l \in 0..4 /\ inode' = [inode EXCEPT ![p].eFileLock = l]
      BY DEF UnlockUpper
    <2>. HIDE DEF l
    <2>2. InodeOf(p, l, inode[p].nShared, inode[p].nLock, inode[p].unused)
      BY <2>1, LevelInode
    <2>. QED
      BY <2>2 DEF l
  <1>3. /\ kernel'[p]["PENDING_BYTE"] = "-" /\ kernel'[p]["SHARED_FIRST"] = kernel[p]["SHARED_FIRST"]
        /\ kernel'[p]["RESERVED_BYTE"] = "-" /\ KernelMoves(p)
    BY UnlockedEffect, ByteNames DEF UnlockUpper, KernelMoves, UpperBytes
  <1>4. \A h \in Fds(p) \ {f} : eFileLock[h] \in 0..1
    BY <1>1, Values DEF ProcInv, Levels, Fds
  <1>5. CASE method[p].goal = SHARED_LOCK
    <2>1. HandleOf(f, SHARED_LOCK)
      <3>1. f \in Files /\ eFileLock' = [eFileLock EXCEPT ![f] = SHARED_LOCK]
        BY <1>0, <1>5 DEF UnlockUpper, On, Fds
      <3>. QED
        BY <3>1, FunctionTypes DEF HandleOf
    <2>2. MethodOf(p, NoFile, "idle", NO_LOCK)
      BY <1>5, LeaveMethod DEF UnlockUpper
    <2>3. TypeOK'
      BY <1>1, <1>2, <1>3, <2>1, <2>2, TypeFrom, KernelType, FunctionTypes
         DEF InodeOf, MethodOf, HandleOf, UnlockUpper
    <2>4. Holders(p)' = Holders(p) /\ f \in Holders(p)
      BY <1>1, <2>1, HoldersStep DEF Holders
    <2>5. Counts(p)'
      BY <1>2, <2>4 DEF InodeOf, ProcInv, Counts
    <2>6. Levels(p)'
      <3>1. Level(p)' = SHARED_LOCK /\ \A h \in Fds(p) : eFileLock'[h] \in 0..1
        BY <1>2, <1>4, <2>1 DEF InodeOf, HandleOf, Fds
      <3>2. \A h \in Fds(p) : eFileLock'[h] # NO_LOCK => eFileLock[h] # NO_LOCK
        BY <1>1, <2>1 DEF HandleOf, Fds
      <3>. QED
        BY <1>1, <2>4, <3>1, <3>2 DEF ProcInv, Levels, Fds
    <2>7. Placed(p)'
      BY <2>2 DEF Placed, MethodOf
    <2>8. Backed(p)'
      BY <1>1, <1>2, <1>3, <1>5, <2>2 DEF ProcInv, Backed, SharedByte, PendingByte, ReservedByte, MethodOf, InodeOf
    <2>9. Local(p)
      BY <1>1, <1>2, <1>3, <2>1, <2>2, KernelType DEF Local, InodeOf, MethodOf, HandleOf
    <2>. QED
      BY <2>3, <2>5, <2>6, <2>7, <2>8, <2>9 DEF Kept, ProcInv
  <1>6. CASE method[p].goal = NO_LOCK
    <2>1. eFileLock' = eFileLock /\ Enter(f, "unlockAll", NO_LOCK)
      BY <1>0, <1>6 DEF UnlockUpper, On
    <2>2. MethodOf(p, f, "unlockAll", NO_LOCK)
      BY <1>1, <2>1, EnterMethod DEF Places
    <2>3. TypeOK'
      BY <1>1, <1>2, <1>3, <2>1, <2>2, TypeFrom, KernelType, FunctionTypes DEF InodeOf, MethodOf, UnlockUpper
    <2>4. Holders(p)' = Holders(p) /\ f \in Holders(p)
      BY <1>1, <2>1, SameHolders DEF Holders
    <2>5. Counts(p)'
      BY <1>2, <2>4 DEF InodeOf, ProcInv, Counts
    <2>6. Levels(p)'
      <3>1. Level(p)' = SHARED_LOCK /\ Leaving(f)'
        BY <1>1, <1>2, <2>1, <2>2 DEF InodeOf, Leaving, MethodOf, Fds
      <3>. QED
        BY <1>1, <1>4, <2>1, <2>4, <3>1 DEF ProcInv, Levels, Fds
    <2>7. Placed(p)'
      BY <1>1, <2>1, <2>2 DEF Placed, MethodOf, Fds
    <2>8. Backed(p)'
      BY <1>1, <1>2, <1>3, <1>6, <2>1, <2>2
         DEF ProcInv, Backed, SharedByte, PendingByte, ReservedByte, MethodOf, InodeOf
    <2>9. Local(p)
      BY <1>1, <1>2, <1>3, <2>1, <2>2, KernelType DEF Local, InodeOf, MethodOf
    <2>. QED
      BY <2>3, <2>5, <2>6, <2>7, <2>8, <2>9 DEF Kept, ProcInv
  <1>. QED
    BY <1>1, <1>5, <1>6


LEMMA UnlockAllStep ==
  ASSUME TypeOK, NEW p \in Procs, ProcInv(p), UnlockAll(p)
  PROVE  Kept(p)
  <1>0. PICK f \in Fds(p) : f = On(p)
    BY DEF UnlockAll, At, ProcInv, Placed
  <1>1. /\ At(p) = "unlockAll" /\ opened[f] # "closed" /\ f \in Holders(p) /\ opened' = opened
    BY <1>0 DEF UnlockAll, At, ProcInv, Placed, Holders
  <1>. DEFINE n == inode[p].nShared
              H == Holders(p) \ {f}
  <1>2. /\ n >= 1 /\ inode[p].nLock = n /\ n \in Nat /\ n = Cardinality(Holders(p))
        /\ Cardinality(H) = n - 1 /\ (n = 1 <=> H = {})
    BY <1>1, HoldersOf, HoldersCount DEF ProcInv, Counts
  <1>3. InodeOf(p, IF n = 1 THEN NO_LOCK ELSE Level(p), n - 1, n - 1, IF n = 1 THEN 0 ELSE inode[p].unused)
    BY <1>2, LessInode DEF UnlockAll
  <1>4. HandleOf(f, NO_LOCK)
    <2>1. f \in Files /\ eFileLock' = [eFileLock EXCEPT ![f] = NO_LOCK]
      BY <1>0 DEF UnlockAll, On, Fds
    <2>. QED
      BY <2>1, FunctionTypes DEF HandleOf
  <1>5. MethodOf(p, NoFile, "idle", NO_LOCK)
    BY LeaveMethod DEF UnlockAll
  <1>6. /\ n = 1 => \A b \in Bytes : kernel'[p][b] = "-"
        /\ n # 1 => kernel'[p] = kernel[p]
        /\ KernelMoves(p)
    <2>1. Bytes \in SUBSET Bytes
      OBVIOUS
    <2>. QED
      BY <2>1, UnlockedEffect DEF UnlockAll, KernelMoves
  <1>7. TypeOK'
    BY <1>1, <1>3, <1>4, <1>5, <1>6, TypeFrom, KernelType, FunctionTypes
       DEF InodeOf, MethodOf, HandleOf, UnlockAll
  <1>8. Holders(p)' = H
    BY <1>4, HoldersStep
  <1>9. Counts(p)'
    BY <1>2, <1>3, <1>8 DEF InodeOf, Counts
  <1>10. n # 1 => eFileLock[f] = SHARED_LOCK \/ (eFileLock[f] # EXCLUSIVE_LOCK /\ Level(p) = SHARED_LOCK)
    BY <1>0, <1>1, <1>2, Values DEF ProcInv, Levels, Leaving, Fds, Holders
  <1>11. Levels(p)'
    <2>1. \A h \in Fds(p) : eFileLock'[h] = IF h = f THEN NO_LOCK ELSE eFileLock[h]
      BY <1>4 DEF HandleOf, Fds
    <2>2. \A h \in Fds(p) : ~Leaving(h)' /\ (h # f => ~Leaving(h))
      BY <1>0, <1>5 DEF Leaving, MethodOf, Fds
    <2>3. CASE n = 1
      <3>1. Level(p)' = NO_LOCK /\ \A h \in Fds(p) : eFileLock'[h] = NO_LOCK
        BY <1>2, <1>3, <2>1, <2>3 DEF InodeOf, Holders
      <3>. QED
        BY <1>2, <1>8, <2>3, <3>1 DEF Levels
    <2>4. CASE n # 1
      <3>1. Level(p)' = Level(p) /\ H # {}
        BY <1>2, <1>3, <2>4 DEF InodeOf
      <3>2. Level(p) > SHARED_LOCK => \E h \in Fds(p) \ {f} : eFileLock[h] = Level(p)
        BY <1>0, <1>1, <1>10, <2>4, Values DEF ProcInv, Levels
      <3>3. \A h \in Fds(p) \ {f} : eFileLock[h] # EXCLUSIVE_LOCK
        BY <1>1 DEF ProcInv, Levels, Holders
      <3>4. Level(p) # NO_LOCK
        BY <1>1 DEF ProcInv, Levels
      <3>. QED
        BY <1>1, <1>8, <2>1, <2>2, <3>1, <3>2, <3>3, <3>4 DEF ProcInv, Levels
    <2>. QED
      BY <2>3, <2>4
  <1>12. Placed(p)'
    BY <1>5 DEF Placed, MethodOf
  <1>13. Backed(p)'
    <2>1. CASE n = 1
      BY <1>3, <1>5, <1>6, <2>1, ByteNames
         DEF Backed, SharedByte, PendingByte, ReservedByte, MethodOf, InodeOf
    <2>2. CASE n # 1
      BY <1>0, <1>1, <1>3, <1>5, <1>6, <1>10, <2>2
         DEF ProcInv, Backed, SharedByte, PendingByte, ReservedByte, MethodOf, InodeOf
    <2>. QED
      BY <2>1, <2>2
  <1>14. Local(p)
    BY <1>1, <1>3, <1>4, <1>5, <1>6, KernelType DEF Local, InodeOf, MethodOf, HandleOf
  <1>. QED
    BY <1>7, <1>9, <1>11, <1>12, <1>13, <1>14 DEF Kept, ProcInv

\* Opening and closing a handle that holds nothing.
LEMMA HandleStep ==
  ASSUME TypeOK, NEW p \in Procs, ProcInv(p), UNCHANGED <<eFileLock, method, deaths>>, At(p) = "idle",
         KernelMoves(p), kernel'[p] = kernel[p], NEW f \in Fds(p),
         NEW o \in {"closed", "open", "closing"}, opened' = [opened EXCEPT ![f] = o],
         o = "closed" => eFileLock[f] = NO_LOCK,
         NEW u, InodeOf(p, Level(p), inode[p].nShared, inode[p].nLock, u)
  PROVE  Kept(p)
  <1>1. /\ opened' \in [Files -> {"closed", "open", "closing"}]
        /\ \A h \in Files : opened'[h] = IF h = f THEN o ELSE opened[h]
    BY FunctionTypes DEF Fds
  <1>2. TypeOK'
    BY <1>1, TypeFrom, KernelType, FunctionTypes DEF InodeOf
  <1>3. Holders(p)' = Holders(p) /\ Level(p)' = Level(p) /\ At(p)' = At(p)
    BY SameHolders DEF InodeOf, At
  <1>4. Counts(p)'
    BY <1>3 DEF ProcInv, Counts, InodeOf
  <1>5. Levels(p)'
    <2>1. \A h \in Fds(p) : ~Leaving(h) /\ ~Leaving(h)'
      BY <1>3 DEF Leaving, Fds
    <2>2. \A h \in Fds(p) : eFileLock[h] # NO_LOCK /\ opened'[h] = "closed" => opened[h] = "closed"
      BY <1>1 DEF Fds
    <2>. QED
      BY <1>3, <2>1, <2>2 DEF ProcInv, Levels
  <1>6. Placed(p)' /\ Backed(p)'
    BY <1>3 DEF ProcInv, Placed, Backed, SharedByte, PendingByte, ReservedByte
  <1>7. Local(p)
    BY <1>1, KernelType DEF Local, InodeOf, Fds
  <1>. QED
    BY <1>2, <1>4, <1>5, <1>6, <1>7 DEF Kept, ProcInv


LEMMA OpenStep ==
  ASSUME TypeOK, NEW p \in Procs, ProcInv(p), NEW f \in Fds(p), Open(f)
  PROVE  Kept(p)
  <1>1. p = ProcOf(f)
    BY DEF Fds
  <1>. DEFINE u == IF inode[p].unused > 0 THEN inode[p].unused - 1 ELSE inode[p].unused
  <1>2. u \in 0..MaxUnused /\ inode' = [inode EXCEPT ![p].unused = u]
    BY <1>1, Values, UnixBounds DEF Open
  <1>. HIDE DEF u
  <1>3. InodeOf(p, Level(p), inode[p].nShared, inode[p].nLock, u)
    BY <1>2, UnusedInode
  <1>4. At(p) = "idle" /\ KernelMoves(p) /\ kernel'[p] = kernel[p]
    BY <1>1 DEF Open, Idle, At, KernelMoves
  <1>. QED
    BY <1>3, <1>4, HandleStep DEF Open

LEMMA CloseStep ==
  ASSUME TypeOK, NEW p \in Procs, ProcInv(p), NEW f \in Fds(p), Close(f)
  PROVE  Kept(p)
  <1>1. p = ProcOf(f)
    BY DEF Fds
  <1>2. InodeOf(p, Level(p), inode[p].nShared, inode[p].nLock, inode[p].unused)
    BY SameInode DEF Close
  <1>3. At(p) = "idle" /\ KernelMoves(p) /\ kernel'[p] = kernel[p]
    BY <1>1 DEF Close, Idle, At, KernelMoves
  <1>. QED
    BY <1>2, <1>3, HandleStep DEF Close

\* The descriptor is closed at once when no handle of the process holds anything.
LEMMA NothingHeld ==
  ASSUME TypeOK, NEW p \in Procs, ProcInv(p), NEW f \in Fds(p), eFileLock[f] = NO_LOCK,
         ~(MustWait(p) /\ Handles(p) # {f})
  PROVE  Holders(p) = {} /\ inode[p].nShared = 0 /\ inode[p].nLock = 0
  <1>1. CASE Handles(p) = {f}
    <2>1. \A h \in Fds(p) : h # f => opened[h] = "closed"
      BY <1>1 DEF Handles, Fds
    <2>2. Holders(p) = {}
      BY <2>1 DEF ProcInv, Levels, Holders
    <2>. QED
      BY <2>2, HoldersOf, HoldersCount DEF ProcInv, Counts
  <1>2. CASE ~MustWait(p)
    <2>1. inode[p].nLock = 0
      BY <1>2, Values DEF MustWait
    <2>. QED
      BY <2>1, HoldersOf, HoldersCount DEF ProcInv, Counts
  <1>. QED
    BY <1>1, <1>2

LEMMA FinishCloseStep ==
  ASSUME TypeOK, NEW p \in Procs, ProcInv(p), NEW f \in Fds(p), FinishClose(f)
  PROVE  Kept(p)
  <1>1. p = ProcOf(f)
    BY DEF Fds
  <1>2. At(p) = "idle" /\ eFileLock[f] = NO_LOCK
    BY <1>1 DEF FinishClose, Idle, At
  <1>3. CASE MustWait(p) /\ Handles(p) # {f}
    <2>. DEFINE u == inode[p].unused + 1
    <2>1. u \in 0..MaxUnused /\ inode' = [inode EXCEPT ![p].unused = u] /\ kernel' = kernel
      BY <1>1, <1>3, Values, UnixBounds DEF FinishClose
    <2>. HIDE DEF u
    <2>2. InodeOf(p, Level(p), inode[p].nShared, inode[p].nLock, u)
      BY <2>1, UnusedInode
    <2>. QED
      BY <1>2, <2>1, <2>2, HandleStep DEF FinishClose, KernelMoves
  <1>4. CASE ~(MustWait(p) /\ Handles(p) # {f})
    <2>1. Unlocked(p, Bytes) /\ KernelMoves(p)
      BY <1>1, <1>4 DEF FinishClose, KernelMoves
    <2>2. Holders(p) = {} /\ inode[p].nShared = 0 /\ inode[p].nLock = 0
      BY <1>2, <1>4, NothingHeld
    <2>3. Level(p) = NO_LOCK
      BY <2>2 DEF ProcInv, Levels
    <2>4. kernel'[p] = kernel[p]
      <3>1. \A b \in Bytes : kernel[p][b] = "-"
        BY <1>2, <2>3 DEF ProcInv, Backed, SharedByte, PendingByte, ReservedByte, Bytes
      <3>2. \A b \in Bytes : kernel'[p][b] = "-"
        BY <2>1, UnlockedEffect
      <3>3. kernel[p] \in [Bytes -> {"-", "R", "W"}] /\ kernel'[p] \in [Bytes -> {"-", "R", "W"}]
        BY <2>1, KernelType, FunctionTypes
      <3>. QED
        BY <3>1, <3>2, <3>3
    <2>5. \E u : InodeOf(p, Level(p), inode[p].nShared, inode[p].nLock, u)
      <3>1. inode' = [inode EXCEPT ![p] = FreshInode] \/ inode' = inode
        BY <1>1, <1>4, FunctionTypes DEF FinishClose
      <3>. QED
        BY <2>2, <2>3, <3>1, FreshInodeOf, SameInode
    <2>6. PICK u : InodeOf(p, Level(p), inode[p].nShared, inode[p].nLock, u)
      BY <2>5
    <2>. QED
      BY <1>2, <2>1, <2>4, <2>6, HandleStep DEF FinishClose
  <1>. QED
    BY <1>3, <1>4

LEMMA DieStep ==
  ASSUME TypeOK, NEW p \in Procs, Die(p)
  PROVE  Kept(p)
  <1>1. InodeOf(p, NO_LOCK, 0, 0, 0)
    BY FreshInodeOf DEF Die
  <1>2. MethodOf(p, NoFile, "idle", NO_LOCK)
    BY LeaveMethod DEF Die
  <1>3. /\ eFileLock' \in [Files -> 0..4] /\ opened' \in [Files -> {"closed", "open", "closing"}]
        /\ \A f \in Fds(p) : eFileLock'[f] = NO_LOCK
        /\ \A f \in Files \ Fds(p) : eFileLock'[f] = eFileLock[f] /\ opened'[f] = opened[f]
    BY FunctionTypes DEF Die, Fds
  <1>4. (\A b \in Bytes : kernel'[p][b] = "-") /\ KernelMoves(p)
    <2>1. Bytes \in SUBSET Bytes
      OBVIOUS
    <2>. QED
      BY <2>1, UnlockedEffect DEF Die, KernelMoves
  <1>5. deaths' \in 0..MaxDeaths
    BY FunctionTypes, UnixBounds DEF Die
  <1>6. TypeOK'
    BY <1>1, <1>2, <1>3, <1>4, <1>5, TypeFrom, KernelType DEF InodeOf, MethodOf
  <1>7. Holders(p)' = {}
    BY <1>3 DEF Holders, Fds
  <1>8. Counts(p)' /\ Levels(p)'
    BY <1>1, <1>3, <1>7, FS_EmptySet DEF Counts, Levels, InodeOf, Fds
  <1>9. Placed(p)' /\ Backed(p)'
    BY <1>1, <1>2, <1>4, ByteNames
       DEF Placed, Backed, SharedByte, PendingByte, ReservedByte, MethodOf, InodeOf
  <1>10. Local(p)
    BY <1>1, <1>2, <1>3, <1>4, KernelType DEF Local, InodeOf, MethodOf
  <1>. QED
    BY <1>6, <1>8, <1>9, <1>10 DEF Kept, ProcInv

\* A step of a process keeps what is known of that process and touches no other.
LEMMA ProcStep ==
  ASSUME TypeOK, NEW p \in Procs, ProcInv(p), Proceed(p) \/ Die(p) \/ \E f \in Fds(p) : ActsOn(f)
  PROVE  Kept(p)
  BY ReadSharedStep, DropPendingStep, WriteSharedStep, UnlockToReadStep, UnlockUpperStep, UnlockAllStep,
     DieStep, LockSharedAgainStep, LockSharedStep, LockReservedStep, LockExclusiveStep, OpenStep, CloseStep,
     FinishCloseStep, UnlockStep
     DEF Proceed, ActsOn, Lock

LEMMA Elsewhere ==
  ASSUME NEW p \in Procs, NEW q \in Procs \ {p}, ProcInv(q), Local(p)
  PROVE  ProcInv(q)'
  <1>1. \A f \in Fds(q) : eFileLock'[f] = eFileLock[f] /\ opened'[f] = opened[f]
    BY DEF Fds, Local
  <1>2. /\ Level(q)' = Level(q) /\ At(q)' = At(q) /\ On(q)' = On(q) /\ method'[q] = method[q]
        /\ kernel'[q] = kernel[q] /\ inode'[q] = inode[q]
    BY DEF Local, Level, At, On
  <1>3. Holders(q)' = Holders(q)
    BY <1>1, SameHolders
  <1>4. Counts(q)'
    BY <1>2, <1>3 DEF ProcInv, Counts
  <1>5. Levels(q)'
    <2>1. \A f \in Fds(q) : Leaving(f)' = Leaving(f)
      BY <1>1, <1>2 DEF Leaving, Fds
    <2>. QED
      BY <1>1, <1>2, <1>3, <2>1 DEF ProcInv, Levels
  <1>6. Placed(q)'
    BY <1>1, <1>2 DEF ProcInv, Placed
  <1>7. Backed(q)'
    BY <1>1, <1>2 DEF ProcInv, Placed, Backed, SharedByte, PendingByte, ReservedByte
  <1>. QED
    BY <1>4, <1>5, <1>6, <1>7 DEF ProcInv


-----------------------------------------------------------------------------
(* Between processes.                                                      *)

\* The kernel's locks on one byte exclude each other, whoever calls.
LEMMA PosixStep ==
  ASSUME TypeOK, \A p \in Procs : \A q \in Procs \ {p} : Posix(p, q), NEW a \in Procs, KernelMoves(a),
         NEW p \in Procs, NEW q \in Procs \ {p}
  PROVE  Posix(p, q)'
  <1>1. \A r \in Procs \ {a} : kernel'[r] = kernel[r]
    BY KernelType
  <1>2. CASE UNCHANGED kernel
    BY <1>2 DEF Posix
  <1>3. ASSUME NEW B \in SUBSET Bytes, Unlocked(a, B) PROVE Posix(p, q)'
    BY <1>1, <1>3, UnlockedEffect DEF Posix
  <1>4. ASSUME NEW b \in Bytes, NEW t \in {"R", "W"}, Granted(a, b, t) PROVE Posix(p, q)'
    <2>1. kernel'[a][b] = t /\ \A c \in Bytes \ {b} : kernel'[a][c] = kernel[a][c]
      BY <1>4, GrantEffect
    <2>2. \A r \in Procs \ {a} : IF t = "R" THEN kernel[r][b] # "W" ELSE kernel[r][b] = "-"
      BY <1>4 DEF Granted, Grantable
    <2>. QED
      BY <1>1, <2>1, <2>2 DEF Posix
  <1>. QED
    BY <1>2, <1>3, <1>4 DEF KernelMoves

\* A process that reads nothing comes to read past the pending byte only.
LEMMA NewReader ==
  ASSUME TypeOK, NEW q \in Procs, ProcInv(q), Proceed(q) \/ Die(q) \/ \E f \in Fds(q) : ActsOn(f),
         kernel[q]["SHARED_FIRST"] = "-", kernel'[q]["SHARED_FIRST"] # "-"
  PROVE  kernel[q]["PENDING_BYTE"] # "-"
  <1>. SUFFICES ASSUME kernel[q]["PENDING_BYTE"] = "-" PROVE FALSE
    OBVIOUS
  <1>1. At(q) \notin {"readingPending", "dropPending", "dropPendingBusy", "writingShared"}
    BY DEF ProcInv, Backed, PendingByte
  <1>2. At(q) # "readingShared"
    <2>1. ASSUME At(q) = "readingShared" PROVE FALSE
      <3>1. Level(q) > SHARED_LOCK
        BY <2>1 DEF ProcInv, Placed, Levels, Leaving, Fds
      <3>. QED
        BY <2>1, <3>1 DEF ProcInv, Backed, SharedByte
    <2>. QED
      BY <2>1
  <1>3. ASSUME NEW B \in SUBSET Bytes, Unlocked(q, B) PROVE FALSE
    BY <1>3, UnlockedEffect, ByteNames
  <1>4. ASSUME NEW b \in Bytes \ {"SHARED_FIRST"}, NEW t \in {"R", "W"}, Granted(q, b, t) PROVE FALSE
    BY <1>4, GrantEffect, ByteNames
  <1>5. CASE Proceed(q)
    BY <1>1, <1>2, <1>3, <1>5, ByteNames
       DEF Proceed, ReadShared, DropPending, WriteShared, UnlockToRead, UnlockUpper, UnlockAll, At
  <1>6. CASE Die(q)
    BY <1>3, <1>6 DEF Die
  <1>7. ASSUME NEW f \in Fds(q), ActsOn(f) PROVE FALSE
    <2>1. q = ProcOf(f)
      BY DEF Fds
    <2>. QED
      BY <1>3, <1>4, <1>7, <2>1, ByteNames DEF ActsOn, Lock, LockSharedAgain, LockShared, PendingFirst,
         LockReserved, LockExclusive, Open, Close, FinishClose, Unlock, Bytes
  <1>. QED
    BY <1>5, <1>6, <1>7

\* A process gets to EXCLUSIVE by a write lock on the shared bytes only.
LEMMA NewWriter ==
  ASSUME TypeOK, NEW p \in Procs, ProcInv(p), Proceed(p) \/ Die(p) \/ \E f \in Fds(p) : ActsOn(f),
         Level(p)' = EXCLUSIVE_LOCK, Level(p) # EXCLUSIVE_LOCK
  PROVE  Granted(p, "SHARED_FIRST", "W")
  <1>. SUFFICES ASSUME ~Granted(p, "SHARED_FIRST", "W") PROVE FALSE
    OBVIOUS
  <1>. TypeOK /\ inode \in [Procs -> Inodes]
    BY FunctionTypes
  <1>1. CASE inode' = inode
    BY <1>1 DEF Level
  <1>2. ASSUME NEW l, NEW n, NEW k, NEW u, InodeOf(p, l, n, k, u), l # EXCLUSIVE_LOCK PROVE FALSE
    BY <1>2 DEF InodeOf
  <1>3. CASE Proceed(p)
    <2>1. CASE ReadShared(p) \/ UnlockToRead(p)
      BY <1>1, <2>1 DEF ReadShared, UnlockToRead
    <2>2. CASE DropPending(p)
      <3>1. inode' = inode \/ InodeOf(p, SHARED_LOCK, 1, inode[p].nLock + 1, inode[p].unused)
        BY <2>2, FirstSharedInode DEF DropPending
      <3>. QED
        BY <1>1, <3>1 DEF InodeOf
    <2>3. CASE WriteShared(p)
      <3>1. PICK f \in Fds(p) : f = On(p)
        BY <2>3 DEF WriteShared, At, ProcInv, Placed
      <3>2. SetLock(f, PENDING_LOCK) /\ f \in Files /\ ProcOf(f) = p /\ PENDING_LOCK \in 0..4
        BY <2>3, <3>1 DEF WriteShared, On, Fds
      <3>3. InodeOf(p, PENDING_LOCK, inode[p].nShared, inode[p].nLock, inode[p].unused)
        BY <3>2, SetLockEffect
      <3>. QED
        BY <1>2, <3>3
    <2>4. CASE UnlockUpper(p)
      BY <2>4 DEF UnlockUpper, Level, Inodes
    <2>5. CASE UnlockAll(p)
      <3>1. Level(p)' \in {NO_LOCK, Level(p)}
        BY <2>5 DEF UnlockAll, OneLockLess, Level
      <3>. QED
        BY <3>1
    <2>. QED
      BY <1>3, <2>1, <2>2, <2>3, <2>4, <2>5 DEF Proceed
  <1>4. CASE Die(p)
    <2>1. InodeOf(p, NO_LOCK, 0, 0, 0)
      BY <1>4, FreshInodeOf DEF Die
    <2>. QED
      BY <2>1 DEF InodeOf
  <1>5. ASSUME NEW f \in Fds(p), ActsOn(f) PROVE FALSE
    <2>0. f \in Files /\ p = ProcOf(f)
      BY DEF Fds
    <2>1. CASE LockShared(f) \/ LockExclusive(f) \/ Close(f) \/ \E k \in {NO_LOCK, SHARED_LOCK} : Unlock(f, k)
      BY <1>1, <2>1 DEF LockShared, LockExclusive, Close, Unlock
    <2>2. CASE LockSharedAgain(f)
      BY <1>2, <2>0, <2>2, SharedAgainInode DEF LockSharedAgain
    <2>3. CASE LockReserved(f)
      BY <1>2, <2>0, <2>3, SetLockEffect DEF LockReserved
    <2>4. CASE Open(f) \/ FinishClose(f)
      <3>1. Level(p)' \in {NO_LOCK, Level(p)}
        BY <2>0, <2>4 DEF Open, FinishClose, FreshInode, Level, Inodes
      <3>. QED
        BY <3>1
    <2>. QED
      BY <1>5, <2>1, <2>2, <2>3, <2>4 DEF ActsOn, Lock
  <1>. QED
    BY <1>3, <1>4, <1>5

LEMMA NoReaderStep ==
  ASSUME UnixInv, NEW a \in Procs, Proceed(a) \/ Die(a) \/ \E f \in Fds(a) : ActsOn(f), Local(a), KernelMoves(a),
         NEW p \in Procs, NEW q \in Procs \ {p}
  PROVE  NoReader(p, q)'
  <1>. TypeOK /\ ProcInv(p) /\ ProcInv(q) /\ Posix(p, q) /\ NoReader(p, q)
    BY DEF UnixInv
  <1>. SUFFICES ASSUME Level(p)' = EXCLUSIVE_LOCK PROVE kernel'[q]["SHARED_FIRST"] = "-"
    BY DEF NoReader
  <1>1. CASE a = p
    <2>1. kernel'[q] = kernel[q]
      BY <1>1 DEF Local
    <2>2. CASE Level(p) = EXCLUSIVE_LOCK
      BY <2>1, <2>2 DEF NoReader
    <2>3. CASE Level(p) # EXCLUSIVE_LOCK
      <3>1. Granted(p, "SHARED_FIRST", "W")
        BY <1>1, <2>3, NewWriter
      <3>. QED
        BY <2>1, <3>1 DEF Granted, Grantable
    <2>. QED
      BY <2>2, <2>3
  <1>2. CASE a # p
    <2>1. Level(p) = EXCLUSIVE_LOCK
      BY <1>2 DEF Local, Level
    <2>2. kernel[q]["SHARED_FIRST"] = "-"
      BY <2>1 DEF NoReader
    <2>3. CASE a = q
      <3>1. kernel[p]["PENDING_BYTE"] = "W"
        BY <2>1 DEF ProcInv, Placed, Backed, PendingByte
      <3>2. kernel[q]["PENDING_BYTE"] = "-"
        BY <3>1, ByteNames DEF Posix
      <3>. QED
        BY <2>2, <2>3, <3>2, NewReader
    <2>4. CASE a # q
      BY <2>2, <2>4 DEF Local
    <2>. QED
      BY <2>3, <2>4
  <1>. QED
    BY <1>1, <1>2

LEMMA UnixStep ==
  ASSUME UnixInv, [Next]_vars
  PROVE  UnixInv'
  <1>1. ASSUME NEW a \in Procs, Proceed(a) \/ Die(a) \/ \E f \in Fds(a) : ActsOn(f)
        PROVE  UnixInv'
    <2>1. Kept(a) /\ KernelMoves(a)
      BY <1>1, ProcStep, KernelStep DEF UnixInv
    <2>2. \A p \in Procs : ProcInv(p)'
      BY <2>1, Elsewhere DEF UnixInv, Kept
    <2>3. \A p \in Procs : \A q \in Procs \ {p} : Posix(p, q)'
      BY <2>1, PosixStep DEF UnixInv
    <2>4. \A p \in Procs : \A q \in Procs \ {p} : NoReader(p, q)'
      BY <1>1, <2>1, NoReaderStep DEF Kept
    <2>. QED
      BY <2>1, <2>2, <2>3, <2>4 DEF UnixInv, Kept
  <1>2. CASE UNCHANGED vars
    <2>1. TypeOK'
      BY <1>2 DEF UnixInv, TypeOK, vars
    <2>2. ASSUME NEW p \in Procs PROVE ProcInv(p)'
      <3>1. ProcInv(p) /\ Holders(p)' = Holders(p)
        BY <1>2 DEF UnixInv, vars, Holders
      <3>2. Counts(p)' /\ Levels(p)'
        BY <1>2, <3>1 DEF vars, ProcInv, Counts, Levels, Leaving, Level, At, On
      <3>3. Placed(p)' /\ Backed(p)'
        BY <1>2, <3>1 DEF vars, ProcInv, Placed, Backed, SharedByte, PendingByte, ReservedByte, Level, At, On
      <3>. QED
        BY <3>2, <3>3 DEF ProcInv
    <2>3. \A p \in Procs : \A q \in Procs \ {p} : Posix(p, q)' /\ NoReader(p, q)'
      BY <1>2 DEF UnixInv, vars, Posix, NoReader, Level
    <2>. QED
      BY <2>1, <2>2, <2>3 DEF UnixInv
  <1>. QED
    BY <1>1, <1>2, StepCases


LEMMA UnixInit == ASSUME Init PROVE UnixInv
  <1>1. \A p \in Procs : /\ Level(p) = NO_LOCK /\ inode[p].nShared = 0 /\ inode[p].nLock = 0
                         /\ At(p) = "idle" /\ \A b \in Bytes : kernel[p][b] = "-"
    BY DEF Init, Level, At, FreshInode, NoMethod
  <1>2. TypeOK
    <2>1. inode \in [Procs -> Inodes] /\ method \in [Procs -> Methods]
      BY FreshValues DEF Init
    <2>. QED
      BY <2>1, UnixBounds DEF Init, TypeOK, Inodes, Methods
  <1>3. ASSUME NEW p \in Procs PROVE ProcInv(p)
    <2>0. \A f \in Fds(p) : eFileLock[f] = NO_LOCK
      BY DEF Init, Fds
    <2>1. Holders(p) = {}
      BY <2>0 DEF Holders
    <2>2. Counts(p) /\ Levels(p)
      BY <1>1, <2>0, <2>1, FS_EmptySet DEF Counts, Levels
    <2>3. Placed(p) /\ Backed(p)
      BY <1>1, ByteNames DEF Placed, Backed, SharedByte, PendingByte, ReservedByte
    <2>. QED
      BY <2>2, <2>3 DEF ProcInv
  <1>4. \A p \in Procs : \A q \in Procs \ {p} : Posix(p, q) /\ NoReader(p, q)
    BY <1>1 DEF Posix, NoReader
  <1>. QED
    BY <1>2, <1>3, <1>4 DEF UnixInv

\* Every handle, inode record, kernel lock and method keeps to its values: above all, the
\* counts of an inode record are never taken below zero (posixUnlock, os_unix.c).
THEOREM TypeCorrect == Spec => []TypeOK
  <1>1. UnixInv /\ [Next]_vars => UnixInv'
    BY UnixStep
  <1>2. Init => UnixInv
    BY UnixInit
  <1>3. UnixInv => TypeOK
    BY DEF UnixInv
  <1>. QED
    BY <1>1, <1>2, <1>3, PTL DEF Spec

\* A handle's lock is there as long as the handle believes it has it: neither another
\* handle of the process that unlocks or closes nor the replacement of one POSIX lock by
\* another takes it away (nLock, pUnused and nShared of unixInodeInfo, os_unix.c).
THEOREM KernelBacked == Spec => []KernelBacks
  <1>1. UnixInv /\ [Next]_vars => UnixInv'
    BY UnixStep
  <1>2. Init => UnixInv
    BY UnixInit
  <1>3. UnixInv => KernelBacks
    <2>. SUFFICES ASSUME UnixInv, NEW f \in Files, At(ProcOf(f)) = "idle"
                  PROVE  LET k == kernel[ProcOf(f)] IN
                         /\ eFileLock[f] >= SHARED_LOCK    => k["SHARED_FIRST"] # "-"
                         /\ eFileLock[f] = RESERVED_LOCK   => k["RESERVED_BYTE"] = "W"
                         /\ eFileLock[f] >= PENDING_LOCK   => k["PENDING_BYTE"] = "W"
                         /\ eFileLock[f] = EXCLUSIVE_LOCK  => k["SHARED_FIRST"] = "W"
      BY DEF KernelBacks, Idle, At
    <2>1. PICK p \in Procs : p = ProcOf(f)
      BY Owned
    <2>2. f \in Fds(p) /\ eFileLock[f] \in 0..4 /\ Levels(p) /\ Backed(p)
      BY <2>1, Values DEF Fds, UnixInv, ProcInv
    <2>3. eFileLock[f] > SHARED_LOCK => Level(p) = eFileLock[f]
      BY <2>1, <2>2 DEF Levels, Leaving
    <2>4. eFileLock[f] >= SHARED_LOCK => Level(p) # NO_LOCK
      BY <2>2 DEF Levels, Holders
    <2>. QED
      BY <2>1, <2>2, <2>3, <2>4 DEF Backed, SharedByte, PendingByte, ReservedByte
  <1>. QED
    BY <1>1, <1>2, <1>3, PTL DEF Spec

\* And the kernel keeps nothing that no handle of the process believes it has: whatever was
\* taken on the way to a lock that was refused, or above SHARED, is given back.
THEOREM NothingLeaked == Spec => []NothingLeaks
  <1>1. UnixInv /\ [Next]_vars => UnixInv'
    BY UnixStep
  <1>2. Init => UnixInv
    BY UnixInit
  <1>3. UnixInv => NothingLeaks
    <2>. SUFFICES ASSUME UnixInv, NEW p \in Procs, At(p) = "idle"
                  PROVE  /\ kernel[p]["SHARED_FIRST"] # "-" =>
                              \E f \in Files : ProcOf(f) = p /\ eFileLock[f] >= SHARED_LOCK
                         /\ \A b \in {"PENDING_BYTE", "RESERVED_BYTE"} :
                              kernel[p][b] # "-" => \E f \in Files : ProcOf(f) = p /\ eFileLock[f] > SHARED_LOCK
      BY DEF NothingLeaks, Idle, At
    <2>1. Levels(p) /\ Backed(p) /\ Level(p) \in 0..4
      BY Values DEF UnixInv, ProcInv
    <2>2. kernel[p]["SHARED_FIRST"] # "-" => Holders(p) # {}
      BY <2>1 DEF Backed, SharedByte, Levels
    <2>3. \A f \in Holders(p) : eFileLock[f] >= SHARED_LOCK
      BY Values DEF UnixInv, Holders, Fds
    <2>4. \A b \in {"PENDING_BYTE", "RESERVED_BYTE"} : kernel[p][b] # "-" => Level(p) > SHARED_LOCK
      BY <2>1 DEF Backed, PendingByte, ReservedByte
    <2>. QED
      BY <2>1, <2>2, <2>3, <2>4 DEF Levels, Holders, Fds
  <1>. QED
    BY <1>1, <1>2, <1>3, PTL DEF Spec


-----------------------------------------------------------------------------
(* What a handle holds of FileLocks' locks, and what the kernel has to do  *)
(* with it.                                                                *)

LEMMA HeldValues ==
  ASSUME UnixInv, NEW p \in Procs, NEW f \in Fds(p)
  PROVE  /\ Held(f) \in 0..5
         /\ Held(f) # NO_LOCK => kernel[p]["SHARED_FIRST"] # "-"
         /\ Held(f) \in {PENDING_LOCK, EXCLUSIVE_LOCK, RECOVERY_LOCK} => kernel[p]["PENDING_BYTE"] = "W"
         /\ Held(f) \in {RESERVED_LOCK, PENDING_LOCK} =>
              kernel[p]["RESERVED_BYTE"] = "W" /\ Level(p) \in {RESERVED_LOCK, PENDING_LOCK}
         /\ Held(f) = EXCLUSIVE_LOCK => Level(p) = EXCLUSIVE_LOCK
         /\ Held(f) # NO_LOCK => eFileLock[f] # NO_LOCK \/ At(p) = "dropPending"
  <1>. p = ProcOf(f) /\ f \in Files
    BY DEF Fds
  <1>1. eFileLock[f] \in 0..4 /\ Level(p) \in 0..4
    BY Values DEF UnixInv
  <1>2. Levels(p) /\ Placed(p) /\ Backed(p)
    BY DEF UnixInv, ProcInv
  <1>3. CASE On(p) = f /\ At(p) = "dropPending"
    <2>1. Held(f) = SHARED_LOCK
      BY <1>3 DEF Held, On, At
    <2>. QED
      BY <1>2, <1>3, <2>1 DEF Backed, SharedByte
  <1>4. CASE Leaving(f)
    <2>1. Held(f) = SHARED_LOCK
      BY <1>4 DEF Held, On, At, Leaving
    <2>2. Level(p) = SHARED_LOCK
      BY <1>2, <1>4 DEF Levels, Leaving
    <2>. QED
      BY <1>2, <1>4, <2>1, <2>2 DEF Backed, SharedByte, Leaving
  <1>5. CASE On(p) = f /\ At(p) = "writingShared"
    <2>1. Held(f) = IF kernel[p]["RESERVED_BYTE"] = "W" THEN PENDING_LOCK ELSE RECOVERY_LOCK
      BY <1>5 DEF Held, Waiting, On, At
    <2>. QED
      BY <1>2, <1>5, <2>1 DEF Placed, Backed, SharedByte, PendingByte, ReservedByte
  <1>6. CASE ~(On(p) = f /\ At(p) \in {"dropPending", "writingShared"}) /\ ~Leaving(f)
    <2>1. Held(f) = IF eFileLock[f] = PENDING_LOCK
                    THEN IF kernel[p]["RESERVED_BYTE"] = "W" THEN PENDING_LOCK ELSE RECOVERY_LOCK
                    ELSE eFileLock[f]
      BY <1>6 DEF Held, Waiting, On, At, Leaving
    <2>2. eFileLock[f] > SHARED_LOCK => Level(p) = eFileLock[f]
      BY <1>2, <1>6 DEF Levels
    <2>3. eFileLock[f] # NO_LOCK => Level(p) # NO_LOCK
      BY <1>2 DEF Levels, Holders
    <2>. QED
      BY <1>1, <1>2, <2>1, <2>2, <2>3 DEF Placed, Backed, SharedByte, PendingByte, ReservedByte
  <1>. QED
    BY <1>3, <1>4, <1>5, <1>6

\* A connection that is about to write is seen by every reader that looks for a hot
\* journal, whichever process it is in (unixCheckReservedLock).
THEOREM WriterSeen == Spec => []WriterIsSeen
  <1>1. UnixInv /\ [Next]_vars => UnixInv'
    BY UnixStep
  <1>2. Init => UnixInv
    BY UnixInit
  <1>3. UnixInv => WriterIsSeen
    <2>. SUFFICES ASSUME UnixInv, NEW f \in Files, NEW g \in Files, Held(g) \in {RESERVED_LOCK, PENDING_LOCK}
                  PROVE  CheckReservedLock(f)
      BY DEF WriterIsSeen, Implemented!Writers, Implemented!RESERVED_LOCK, Implemented!PENDING_LOCK
    <2>1. PICK p \in Procs : p = ProcOf(g) /\ g \in Fds(p)
      BY Owned
    <2>2. kernel[p]["RESERVED_BYTE"] = "W" /\ Level(p) \in {RESERVED_LOCK, PENDING_LOCK}
      BY <2>1, HeldValues
    <2>. QED
      BY <2>1, <2>2, Owned DEF CheckReservedLock, Level
  <1>. QED
    BY <1>1, <1>2, <1>3, PTL DEF Spec

\* Handles of two processes, and of one.
LEMMA Apart ==
  ASSUME UnixInv, NEW p \in Procs, NEW q \in Procs \ {p}
  PROVE  /\ \A b \in Bytes : kernel[q][b] = "W" => kernel[p][b] = "-"
         /\ Level(q) = EXCLUSIVE_LOCK => kernel[p]["SHARED_FIRST"] = "-"
  BY DEF UnixInv, Posix, NoReader

\* The steps of FileLocks, told of what the handles hold.
Moves == \/ \A f \in Files : Held(f)' = Held(f)
         \/ Implemented!LockNext

LEMMA ObtainStep ==
  ASSUME NEW f \in Files, NEW k \in 0..5, Held(f)' = k, \A g \in Files \ {f} : Held(g)' = Held(g),
         Held(f) \in Implemented!LeadsTo(k),
         \A g \in Files \ {f} : Held(g) \in Implemented!Admitted(k)
  PROVE  Implemented!LockNext
  <1>1. [g \in Files |-> Held(g)]' = [[g \in Files |-> Held(g)] EXCEPT ![f] = k]
    OBVIOUS
  <1>2. Implemented!Obtain(f, k)
    BY <1>1 DEF Implemented!Obtain, Implemented!MayObtain, Implemented!Others
  <1>. QED
    BY <1>2 DEF Implemented!LockNext, Implemented!Locks, Implemented!NO_LOCK, Implemented!RECOVERY_LOCK


\* A process that reads may read more.
LEMMA JoinStep ==
  ASSUME NEW f \in Files, Held(f)' = SHARED_LOCK, \A g \in Files \ {f} : Held(g)' = Held(g),
         Held(f) = NO_LOCK, NEW o \in Fellows(f), Held(o) \in {SHARED_LOCK, RESERVED_LOCK}
  PROVE  Implemented!LockNext
  <1>1. [g \in Files |-> Held(g)]' = [[g \in Files |-> Held(g)] EXCEPT ![f] = SHARED_LOCK]
    OBVIOUS
  <1>2. o \in Files \ {f}
    BY DEF Fellows
  <1>3. Implemented!MayJoin(f, SHARED_LOCK)
    BY <1>2 DEF Implemented!MayJoin, Implemented!Others, Implemented!SHARED_LOCK, Implemented!RESERVED_LOCK
  <1>4. Held(f) \in Implemented!LeadsTo(SHARED_LOCK)
    BY DEF Implemented!LeadsTo, Implemented!NO_LOCK, Implemented!SHARED_LOCK, Implemented!RESERVED_LOCK,
       Implemented!PENDING_LOCK, Implemented!EXCLUSIVE_LOCK, Implemented!RECOVERY_LOCK
  <1>5. Implemented!Obtain(f, SHARED_LOCK)
    BY <1>1, <1>3, <1>4 DEF Implemented!Obtain, Implemented!MayObtain
  <1>. QED
    BY <1>5 DEF Implemented!LockNext, Implemented!Locks, Implemented!NO_LOCK, Implemented!RECOVERY_LOCK

LEMMA ReleaseStep ==
  ASSUME NEW f \in Files, NEW k \in {NO_LOCK, SHARED_LOCK}, Held(f)' = k, k < Held(f),
         \A g \in Files \ {f} : Held(g)' = Held(g)
  PROVE  Implemented!LockNext
  <1>1. [g \in Files |-> Held(g)]' = [[g \in Files |-> Held(g)] EXCEPT ![f] = k]
    OBVIOUS
  <1>2. Implemented!Release(f, k)
    BY <1>1 DEF Implemented!Release, Implemented!NO_LOCK, Implemented!SHARED_LOCK
  <1>. QED
    BY <1>2 DEF Implemented!LockNext, Implemented!Locks, Implemented!NO_LOCK, Implemented!RECOVERY_LOCK

LEMMA DropStep ==
  ASSUME NEW C \in SUBSET Files, \A g \in C : Held(g)' = NO_LOCK, \A g \in Files \ C : Held(g)' = Held(g)
  PROVE  Implemented!LockNext
  <1>1. Implemented!Drop(C)
    BY DEF Implemented!Drop, Implemented!NO_LOCK
  <1>. QED
    BY <1>1 DEF Implemented!LockNext

\* What a step of another process does to it: nothing.
LEMMA HeldElsewhere ==
  ASSUME NEW p \in Procs, Local(p), NEW g \in Files \ Fds(p)
  PROVE  Held(g)' = Held(g)
  <1>1. PICK q \in Procs \ {p} : ProcOf(g) = q
    BY Owned DEF Fds
  <1>2. method'[q] = method[q] /\ kernel'[q] = kernel[q] /\ eFileLock'[g] = eFileLock[g]
    BY DEF Local
  <1>. QED
    BY <1>1, <1>2 DEF Held, Waiting

\* The lock of a handle whose process runs no method, and of one that has none itself.
Plain(f) == IF eFileLock[f] = PENDING_LOCK THEN Waiting(f) ELSE eFileLock[f]

LEMMA HeldIsPlain ==
  ASSUME NEW p \in Procs, NEW f \in Fds(p),
         On(p) # f \/ At(p) \notin {"dropPending", "unlockAll", "writingShared"}
  PROVE  Held(f) = Plain(f)
  BY DEF Held, Plain, On, At, Fds

LEMMA HeldIsPlainNext ==
  ASSUME NEW p \in Procs, NEW f \in Fds(p),
         On(p)' # f \/ At(p)' \notin {"dropPending", "unlockAll", "writingShared"}
  PROVE  Held(f)' = Plain(f)'
  BY DEF Held, Plain, On, At, Fds

\* A step that changes no level and no reserved byte changes what the method's handle holds at most.
LEMMA SamePlain ==
  ASSUME NEW p \in Procs, NEW f \in Fds(p), eFileLock'[f] = eFileLock[f],
         eFileLock[f] = PENDING_LOCK => kernel'[p]["RESERVED_BYTE"] = kernel[p]["RESERVED_BYTE"]
  PROVE  Plain(f)' = Plain(f)
  BY DEF Plain, Waiting, Fds

LEMMA QuietStep ==
  ASSUME UnixInv, NEW p \in Procs, NEW f \in Fds(p),
         \/ LockShared(f) \/ Open(f) \/ Close(f) \/ FinishClose(f)
         \/ \E k \in {NO_LOCK, SHARED_LOCK} : Unlock(f, k)
  PROVE  \A h \in Fds(p) : Held(h)' = Held(h)
  <1>. p = ProcOf(f) /\ f \in Files /\ TypeOK /\ ProcInv(p)
    BY DEF Fds, UnixInv
  <1>1. At(p) = "idle" /\ eFileLock' = eFileLock
    BY DEF LockShared, Requestable, Open, Close, FinishClose, Unlock, Idle, At
  <1>2. \A h \in Fds(p) : eFileLock[h] = PENDING_LOCK => kernel'[p]["RESERVED_BYTE"] = kernel[p]["RESERVED_BYTE"]
    <2>1. CASE LockShared(f)
      BY <2>1, GrantEffect, ByteNames DEF LockShared, PendingFirst, Bytes
    <2>2. CASE FinishClose(f)
      <3>1. CASE MustWait(p) /\ Handles(p) # {f}
        BY <2>2, <3>1 DEF FinishClose
      <3>2. CASE ~(MustWait(p) /\ Handles(p) # {f})
        BY <2>2, <3>2, NothingHeld DEF FinishClose, Holders
      <3>. QED
        BY <3>1, <3>2
    <2>3. CASE Open(f) \/ Close(f) \/ \E k \in {NO_LOCK, SHARED_LOCK} : Unlock(f, k)
      BY <2>3 DEF Open, Close, Unlock
    <2>. QED
      BY <2>1, <2>2, <2>3
  <1>3. ASSUME NEW h \in Fds(p) PROVE Held(h)' = Held(h)
    <2>1. Held(h) = Plain(h) /\ Plain(h)' = Plain(h)
      BY <1>1, <1>2, HeldIsPlain, SamePlain
    <2>2. CASE At(p)' = "unlockAll" /\ On(p)' = h
      <3>1. ASSUME method' = method PROVE FALSE
        BY <1>1, <2>2, <3>1 DEF At
      <3>2. ASSUME LockShared(f) PROVE FALSE
        BY <2>2, <3>2, EnterMethod DEF LockShared, Places, MethodOf
      <3>3. ASSUME NEW k \in {NO_LOCK, SHARED_LOCK}, Unlock(f, k) PROVE eFileLock[h] = SHARED_LOCK
        <4>. DEFINE a == UnlockFrom(f, k)
        <4>1. /\ a \in {"readingShared", "unlockTwo", "unlockAll"}
              /\ a = "unlockAll" => eFileLock[f] = SHARED_LOCK
              /\ Enter(f, a, k)
          BY <3>3, UnlockPlaces DEF Unlock
        <4>. HIDE DEF a
        <4>2. At(p)' = a /\ On(p)' = f
          BY <4>1, EnterMethod DEF Places, MethodOf
        <4>. QED
          BY <2>2, <4>1, <4>2
      <3>4. eFileLock[h] = SHARED_LOCK
        <4>1. CASE Open(f) \/ Close(f) \/ FinishClose(f)
          <5>1. method' = method
            BY <4>1 DEF Open, Close, FinishClose
          <5>. QED
            BY <3>1, <5>1
        <4>. QED
          BY <3>2, <3>3, <4>1
      <3>5. Held(h)' = eFileLock'[h]
        BY <1>1, <2>2, <3>4 DEF Held, Fds, At, On
      <3>. QED
        BY <1>1, <2>1, <3>4, <3>5 DEF Plain
    <2>3. CASE ~(At(p)' = "unlockAll" /\ On(p)' = h)
      <3>1. On(p)' # h \/ At(p)' \notin {"dropPending", "unlockAll", "writingShared"}
        <4>1. CASE method' = method
          BY <1>1, <4>1 DEF At
        <4>2. CASE LockShared(f)
          BY <4>2, EnterMethod DEF LockShared, Places, MethodOf
        <4>3. ASSUME NEW k \in {NO_LOCK, SHARED_LOCK}, Unlock(f, k)
              PROVE  At(p)' \in {"readingShared", "unlockTwo", "unlockAll"}
          <5>1. UnlockFrom(f, k) \in {"readingShared", "unlockTwo", "unlockAll"}
            BY DEF UnlockFrom
          <5>. QED
            BY <4>3, <5>1, EnterMethod DEF Unlock, Places, MethodOf
        <4>. QED
          BY <2>3, <4>1, <4>2, <4>3 DEF Open, Close, FinishClose
      <3>. QED
        BY <2>1, <3>1, HeldIsPlainNext
    <2>. QED
      BY <2>2, <2>3
  <1>. QED
    BY <1>3


LEMMA AbstractLocks ==
  /\ Implemented!NO_LOCK = NO_LOCK /\ Implemented!SHARED_LOCK = SHARED_LOCK
  /\ Implemented!RESERVED_LOCK = RESERVED_LOCK /\ Implemented!PENDING_LOCK = PENDING_LOCK
  /\ Implemented!EXCLUSIVE_LOCK = EXCLUSIVE_LOCK /\ Implemented!RECOVERY_LOCK = RECOVERY_LOCK
  BY DEF Implemented!NO_LOCK, Implemented!SHARED_LOCK, Implemented!RESERVED_LOCK,
     Implemented!PENDING_LOCK, Implemented!EXCLUSIVE_LOCK, Implemented!RECOVERY_LOCK

\* The tables of FileLocks.
LEMMA AdmittedTable ==
  /\ Implemented!Admitted(SHARED_LOCK) = {NO_LOCK, SHARED_LOCK, RESERVED_LOCK}
  /\ Implemented!Admitted(RESERVED_LOCK) = {NO_LOCK, SHARED_LOCK, RECOVERY_LOCK}
  /\ Implemented!Admitted(PENDING_LOCK) = {NO_LOCK, SHARED_LOCK}
  /\ Implemented!Admitted(RECOVERY_LOCK) = {NO_LOCK, SHARED_LOCK, RESERVED_LOCK}
  /\ Implemented!Admitted(EXCLUSIVE_LOCK) = {NO_LOCK}
  BY AbstractLocks DEF Implemented!Admitted

LEMMA LeadsToTable ==
  /\ Implemented!LeadsTo(SHARED_LOCK) = {NO_LOCK}
  /\ Implemented!LeadsTo(RESERVED_LOCK) = {SHARED_LOCK}
  /\ Implemented!LeadsTo(PENDING_LOCK) = {RESERVED_LOCK}
  /\ Implemented!LeadsTo(RECOVERY_LOCK) = {SHARED_LOCK}
  /\ Implemented!LeadsTo(EXCLUSIVE_LOCK) = {PENDING_LOCK, RECOVERY_LOCK}
  BY AbstractLocks DEF Implemented!LeadsTo

\* A handle that is granted a lock: the others of its process hold what is admitted, and
\* the kernel has seen to the other processes.
LEMMA GrantedStep ==
  ASSUME UnixInv, NEW p \in Procs, Local(p), NEW f \in Fds(p), NEW k \in 1..5, Held(f)' = k,
         \A h \in Fds(p) \ {f} : Held(h)' = Held(h) /\ Held(h) \in Implemented!Admitted(k),
         Held(f) \in Implemented!LeadsTo(k),
         \A q \in Procs \ {p} : \A g \in Fds(q) : Held(g) \in Implemented!Admitted(k)
  PROVE  Moves
  <1>1. f \in Files /\ k \in 0..5
    BY DEF Fds
  <1>2. ASSUME NEW g \in Files \ {f} PROVE Held(g)' = Held(g) /\ Held(g) \in Implemented!Admitted(k)
    <2>1. CASE g \in Fds(p)
      BY <2>1
    <2>2. CASE g \notin Fds(p)
      <3>1. Held(g)' = Held(g)
        BY <2>2, HeldElsewhere
      <3>2. ProcOf(g) \in Procs \ {p} /\ g \in Fds(ProcOf(g))
        BY <2>2, Owned DEF Fds
      <3>. QED
        BY <3>1, <3>2
    <2>. QED
      BY <2>1, <2>2
  <1>. QED
    BY <1>1, <1>2, ObtainStep DEF Moves

LEMMA SharedAgainMoves ==
  ASSUME UnixInv, NEW p \in Procs, Local(p), NEW f \in Fds(p), LockSharedAgain(f)
  PROVE  Moves
  <1>. p = ProcOf(f) /\ f \in Files /\ TypeOK /\ ProcInv(p)
    BY DEF Fds, UnixInv
  <1>1. /\ At(p) = "idle" /\ At(p)' = "idle" /\ eFileLock[f] = NO_LOCK /\ kernel' = kernel
        /\ Level(p) \in {SHARED_LOCK, RESERVED_LOCK}
    BY Values DEF LockSharedAgain, Requestable, Idle, At, Level
  <1>2. \A h \in Files : eFileLock'[h] = IF h = f THEN SHARED_LOCK ELSE eFileLock[h]
    BY FunctionTypes DEF LockSharedAgain
  <1>3. \A h \in Fds(p) : Held(h) = Plain(h) /\ Held(h)' = Plain(h)'
    BY <1>1, HeldIsPlain, HeldIsPlainNext
  <1>4. \A h \in Fds(p) \ {f} : Held(h)' = Held(h)
    BY <1>1, <1>2, <1>3, SamePlain DEF Fds
  <1>5. Held(f) = NO_LOCK /\ Held(f)' = SHARED_LOCK
    BY <1>1, <1>2, <1>3 DEF Plain
  <1>6. PICK o \in Fds(p) : eFileLock[o] \in {SHARED_LOCK, RESERVED_LOCK}
    <2>1. PICK o \in Holders(p) : eFileLock[o] = Level(p) \/ Level(p) = SHARED_LOCK
      BY <1>1 DEF ProcInv, Levels, Holders
    <2>2. eFileLock[o] \in {SHARED_LOCK, RESERVED_LOCK}
      BY <1>1, <2>1, Values DEF ProcInv, Levels, Leaving, Holders, Fds
    <2>. QED
      BY <2>1, <2>2 DEF Holders
  <1>7. o \in Fellows(f) /\ Held(o) \in {SHARED_LOCK, RESERVED_LOCK}
    BY <1>1, <1>3, <1>6 DEF Fellows, Fds, Plain
  <1>8. \A g \in Files \ {f} : Held(g)' = Held(g)
    BY <1>4, HeldElsewhere
  <1>. QED
    BY <1>5, <1>7, <1>8, JoinStep DEF Moves

LEMMA ReadSharedMoves ==
  ASSUME UnixInv, NEW p \in Procs, Local(p), ReadShared(p)
  PROVE  Moves
  <1>. TypeOK /\ ProcInv(p)
    BY DEF UnixInv
  <1>1. PICK f \in Fds(p) : f = On(p)
    BY DEF ReadShared, At, ProcInv, Placed
  <1>2. At(p) = "readingPending" /\ Level(p) = NO_LOCK /\ eFileLock' = eFileLock /\ f \in Files
    BY DEF ReadShared, At, ProcInv, Placed, Fds
  <1>3. \A h \in Fds(p) : eFileLock[h] = NO_LOCK /\ Held(h) = NO_LOCK
    <2>1. \A h \in Fds(p) : eFileLock[h] = NO_LOCK
      BY <1>2 DEF ProcInv, Levels, Holders
    <2>. QED
      BY <1>2, <2>1, HeldIsPlain DEF Plain
  <1>4. \A h \in Fds(p) \ {f} : On(p)' = f => Held(h)' = NO_LOCK
    BY <1>2, <1>3, HeldIsPlainNext DEF Plain
  <1>5. CASE Refused(p, "SHARED_FIRST", "R") /\ Enter(f, "dropPendingBusy", SHARED_LOCK)
    <2>1. MethodOf(p, f, "dropPendingBusy", SHARED_LOCK)
      BY <1>5, EnterMethod DEF Places
    <2>2. \A h \in Fds(p) : Held(h)' = Held(h)
      BY <1>2, <1>3, <2>1, HeldIsPlainNext DEF Plain, MethodOf
    <2>. QED
      BY <2>2, HeldElsewhere DEF Moves
  <1>6. CASE Granted(p, "SHARED_FIRST", "R") /\ Enter(f, "dropPending", SHARED_LOCK)
    <2>1. MethodOf(p, f, "dropPending", SHARED_LOCK)
      BY <1>6, EnterMethod DEF Places
    <2>2. Held(f)' = SHARED_LOCK
      BY <2>1 DEF Held, MethodOf, At, On, Fds
    <2>3. ASSUME NEW q \in Procs \ {p}, NEW g \in Fds(q) PROVE Held(g) \in {NO_LOCK, SHARED_LOCK, RESERVED_LOCK}
      <3>1. kernel[p]["PENDING_BYTE"] = "R"
        BY <1>2 DEF ProcInv, Backed, PendingByte
      <3>2. kernel[q]["PENDING_BYTE"] # "W"
        BY <3>1, Apart, ByteNames
      <3>. QED
        BY <3>2, HeldValues
    <2>4. \A h \in Fds(p) \ {f} : Held(h)' = Held(h)
      BY <1>3, <1>4, <2>1 DEF MethodOf
    <2>5. SHARED_LOCK \in 1..5
      OBVIOUS
    <2>. QED
      BY <1>3, <2>2, <2>3, <2>4, <2>5, AdmittedTable, LeadsToTable, GrantedStep
  <1>. QED
    BY <1>1, <1>5, <1>6 DEF ReadShared, On

LEMMA LockReservedMoves ==
  ASSUME UnixInv, NEW p \in Procs, Local(p), NEW f \in Fds(p), LockReserved(f)
  PROVE  Moves
  <1>. p = ProcOf(f) /\ f \in Files /\ TypeOK /\ ProcInv(p)
    BY DEF Fds, UnixInv
  <1>1. At(p) = "idle" /\ At(p)' = "idle" /\ eFileLock[f] = SHARED_LOCK /\ Level(p) = SHARED_LOCK
    BY Values DEF LockReserved, Requestable, Idle, At, Level
  <1>2. \A h \in Files : eFileLock'[h] = IF h = f THEN RESERVED_LOCK ELSE eFileLock[h]
    BY FunctionTypes DEF LockReserved, SetLock
  <1>3. \A h \in Fds(p) : Held(h) = Plain(h) /\ Held(h)' = Plain(h)' /\ eFileLock[h] \in 0..1
    BY <1>1, HeldIsPlain, HeldIsPlainNext, Values DEF ProcInv, Levels, Leaving, Fds
  <1>4. \A h \in Fds(p) \ {f} : Held(h)' = Held(h) /\ Held(h) \in {NO_LOCK, SHARED_LOCK, RECOVERY_LOCK}
    BY <1>2, <1>3 DEF Plain, Fds
  <1>5. Held(f) = SHARED_LOCK /\ Held(f)' = RESERVED_LOCK
    BY <1>1, <1>2, <1>3 DEF Plain
  <1>6. ASSUME NEW q \in Procs \ {p}, NEW g \in Fds(q) PROVE Held(g) \in {NO_LOCK, SHARED_LOCK, RECOVERY_LOCK}
    <2>1. kernel[q]["RESERVED_BYTE"] = "-"
      BY DEF LockReserved, Granted, Grantable
    <2>2. kernel[p]["SHARED_FIRST"] # "-"
      BY <1>5, HeldValues
    <2>. QED
      BY <2>1, <2>2, Apart, HeldValues
  <1>7. RESERVED_LOCK \in 1..5
    OBVIOUS
  <1>. QED
    BY <1>4, <1>5, <1>6, <1>7, AdmittedTable, LeadsToTable, GrantedStep


LEMMA LockExclusiveMoves ==
  ASSUME UnixInv, NEW p \in Procs, Local(p), NEW f \in Fds(p), LockExclusive(f)
  PROVE  Moves
  <1>. p = ProcOf(f) /\ f \in Files /\ TypeOK /\ ProcInv(p)
    BY DEF Fds, UnixInv
  <1>1. At(p) = "idle" /\ eFileLock[f] = Level(p) /\ Level(p) \in SHARED_LOCK..PENDING_LOCK /\ eFileLock' = eFileLock
    BY Values DEF LockExclusive, Requestable, Idle, At, Level
  <1>2. MethodOf(p, f, "writingShared", EXCLUSIVE_LOCK)
    BY EnterMethod DEF LockExclusive, Places
  <1>3. kernel'[p]["RESERVED_BYTE"] = kernel[p]["RESERVED_BYTE"]
    BY GrantEffect, ByteNames DEF LockExclusive, Bytes
  <1>4. \A h \in Fds(p) \ {f} : Held(h)' = Held(h)
    BY <1>1, <1>2, <1>3, HeldIsPlain, HeldIsPlainNext, SamePlain DEF MethodOf
  <1>5. Held(f) = Plain(f) /\ Held(f)' = IF kernel[p]["RESERVED_BYTE"] = "W" THEN PENDING_LOCK ELSE RECOVERY_LOCK
    <2>1. Held(f)' = Waiting(f)'
      BY <1>2 DEF Held, MethodOf, At, On
    <2>. QED
      BY <1>1, <1>3, <2>1, HeldIsPlain DEF Waiting
  <1>6. CASE eFileLock[f] = PENDING_LOCK
    <2>1. Held(f)' = Held(f)
      BY <1>5, <1>6 DEF Plain, Waiting
    <2>. QED
      BY <1>4, <2>1, HeldElsewhere DEF Moves
  <1>7. CASE eFileLock[f] # PENDING_LOCK
    <2>1. eFileLock[f] \in {SHARED_LOCK, RESERVED_LOCK} /\ Held(f) = eFileLock[f]
      BY <1>1, <1>5, <1>7 DEF Plain
    <2>2. Held(f)' = IF eFileLock[f] = RESERVED_LOCK THEN PENDING_LOCK ELSE RECOVERY_LOCK
      BY <1>1, <1>5, <2>1 DEF ProcInv, Backed, ReservedByte
    <2>3. \A h \in Fds(p) \ {f} : Held(h) \in {NO_LOCK, SHARED_LOCK}
      <3>1. \A h \in Fds(p) \ {f} : eFileLock[h] \in 0..1
        BY <1>1, <2>1, Values DEF ProcInv, Levels, Leaving, Fds
      <3>. QED
        BY <1>1, <3>1, HeldIsPlain DEF Plain
    <2>4. ASSUME NEW q \in Procs \ {p}, NEW g \in Fds(q)
          PROVE  /\ Held(g) \in {NO_LOCK, SHARED_LOCK, RESERVED_LOCK}
                 /\ eFileLock[f] = RESERVED_LOCK => Held(g) # RESERVED_LOCK
      <3>1. kernel[q]["PENDING_BYTE"] = "-"
        BY <2>1 DEF LockExclusive, Granted, Grantable
      <3>2. eFileLock[f] = RESERVED_LOCK => kernel[q]["RESERVED_BYTE"] # "W"
        <4>1. eFileLock[f] = RESERVED_LOCK => kernel[p]["RESERVED_BYTE"] = "W"
          BY <1>1 DEF ProcInv, Backed, ReservedByte
        <4>. QED
          BY <4>1, Apart, ByteNames
      <3>. QED
        BY <3>1, <3>2, HeldValues
    <2>5. CASE eFileLock[f] = RESERVED_LOCK
      <3>1. PENDING_LOCK \in 1..5 /\ Held(f)' = PENDING_LOCK /\ Held(f) = RESERVED_LOCK
        BY <2>1, <2>2, <2>5
      <3>2. \A q \in Procs \ {p} : \A g \in Fds(q) : Held(g) \in {NO_LOCK, SHARED_LOCK}
        BY <2>4, <2>5
      <3>. QED
        BY <1>4, <2>3, <3>1, <3>2, AdmittedTable, LeadsToTable, GrantedStep
    <2>6. CASE eFileLock[f] = SHARED_LOCK
      <3>1. RECOVERY_LOCK \in 1..5 /\ Held(f)' = RECOVERY_LOCK /\ Held(f) = SHARED_LOCK
        BY <2>1, <2>2, <2>6
      <3>2. \A h \in Fds(p) \ {f} : Held(h) \in {NO_LOCK, SHARED_LOCK, RESERVED_LOCK}
        BY <2>3
      <3>. QED
        BY <1>4, <2>4, <3>1, <3>2, AdmittedTable, LeadsToTable, GrantedStep
    <2>. QED
      BY <2>1, <2>5, <2>6
  <1>. QED
    BY <1>6, <1>7

LEMMA WriteSharedMoves ==
  ASSUME UnixInv, NEW p \in Procs, Local(p), WriteShared(p)
  PROVE  Moves
  <1>. TypeOK /\ ProcInv(p)
    BY DEF UnixInv
  <1>1. PICK f \in Fds(p) : f = On(p)
    BY DEF WriteShared, At, ProcInv, Placed
  <1>2. /\ At(p) = "writingShared" /\ At(p)' = "idle" /\ f \in Files /\ p = ProcOf(f)
        /\ eFileLock[f] = Level(p) /\ Level(p) # NO_LOCK
    BY <1>1, LeaveMethod DEF WriteShared, At, ProcInv, Placed, Fds, MethodOf
  <1>3. kernel'[p]["RESERVED_BYTE"] = kernel[p]["RESERVED_BYTE"]
    BY GrantEffect, ByteNames DEF WriteShared, Refused, Bytes
  <1>4. ASSUME NEW k \in 0..4, SetLock(f, k)
        PROVE  /\ \A h \in Fds(p) \ {f} : Held(h)' = Held(h)
               /\ Held(f)' = IF k = PENDING_LOCK THEN Waiting(f) ELSE k
    <2>1. \A h \in Files : eFileLock'[h] = IF h = f THEN k ELSE eFileLock[h]
      BY <1>2, <1>4, SetLockEffect DEF HandleOf
    <2>2. \A h \in Fds(p) \ {f} : Held(h)' = Held(h)
      BY <1>1, <1>2, <1>3, <2>1, HeldIsPlain, HeldIsPlainNext, SamePlain DEF Fds
    <2>3. Held(f)' = Plain(f)' /\ Waiting(f)' = Waiting(f)
      BY <1>2, <1>3, HeldIsPlainNext DEF Waiting
    <2>. QED
      BY <1>2, <2>1, <2>2, <2>3 DEF Plain
  <1>5. Held(f) = Waiting(f)
    BY <1>1, <1>2 DEF Held, At, On
  <1>6. CASE SetLock(f, PENDING_LOCK)
    <2>1. PENDING_LOCK \in 0..4
      OBVIOUS
    <2>2. (\A h \in Fds(p) \ {f} : Held(h)' = Held(h)) /\ Held(f)' = Held(f)
      BY <1>4, <1>5, <1>6, <2>1
    <2>. QED
      BY <2>2, HeldElsewhere DEF Moves
  <1>7. CASE Alone(p) /\ Granted(p, "SHARED_FIRST", "W") /\ SetLock(f, EXCLUSIVE_LOCK)
    <2>1. EXCLUSIVE_LOCK \in 0..4 /\ EXCLUSIVE_LOCK \in 1..5
      OBVIOUS
    <2>2. (\A h \in Fds(p) \ {f} : Held(h)' = Held(h)) /\ Held(f)' = EXCLUSIVE_LOCK
      BY <1>4, <1>7, <2>1
    <2>3. Holders(p) = {f}
      <3>1. f \in Holders(p)
        BY <1>2 DEF Holders
      <3>. QED
        BY <1>7, <3>1, HoldersOf, HoldersCount DEF Alone, ProcInv, Counts
    <2>4. \A h \in Fds(p) \ {f} : Held(h) = NO_LOCK
      BY <1>1, <2>3, HeldIsPlain DEF Plain, Holders
    <2>5. ASSUME NEW q \in Procs \ {p}, NEW g \in Fds(q) PROVE Held(g) = NO_LOCK
      <3>1. kernel[q]["SHARED_FIRST"] = "-"
        BY <1>7 DEF Granted, Grantable
      <3>. QED
        BY <3>1, HeldValues
    <2>6. Held(f) \in {PENDING_LOCK, RECOVERY_LOCK}
      BY <1>5 DEF Waiting
    <2>. QED
      BY <2>1, <2>2, <2>4, <2>5, <2>6, AdmittedTable, LeadsToTable, GrantedStep
  <1>. QED
    BY <1>1, <1>6, <1>7 DEF WriteShared, On

LEMMA DropPendingMoves ==
  ASSUME UnixInv, NEW p \in Procs, Local(p), DropPending(p)
  PROVE  Moves
  <1>. TypeOK /\ ProcInv(p)
    BY DEF UnixInv
  <1>1. PICK f \in Fds(p) : f = On(p)
    BY DEF DropPending, At, ProcInv, Placed
  <1>2. At(p)' = "idle" /\ At(p) \in {"dropPending", "dropPendingBusy"} /\ Level(p) = NO_LOCK /\ f \in Files
    BY LeaveMethod DEF DropPending, At, MethodOf, ProcInv, Placed, Fds
  <1>3. \A h \in Fds(p) : eFileLock[h] = NO_LOCK
    BY <1>2 DEF ProcInv, Levels, Holders
  <1>4. \A h \in Files : eFileLock'[h] = IF h = f /\ At(p) = "dropPending" THEN SHARED_LOCK ELSE eFileLock[h]
    BY <1>1, <1>2, FunctionTypes DEF DropPending, At, On
  <1>5. ASSUME NEW h \in Fds(p) PROVE Held(h)' = Held(h)
    <2>1. Held(h)' = eFileLock'[h]
      BY <1>2, <1>3, <1>4, HeldIsPlainNext DEF Plain, Fds
    <2>2. CASE h = f /\ At(p) = "dropPending"
      <3>1. Held(h) = SHARED_LOCK
        BY <1>1, <2>2 DEF Held, At, On, Fds
      <3>. QED
        BY <1>2, <1>4, <2>1, <2>2, <3>1
    <2>3. CASE ~(h = f /\ At(p) = "dropPending")
      <3>1. Held(h) = Plain(h)
        BY <1>1, <1>2, <2>3, HeldIsPlain
      <3>2. h \in Files
        BY DEF Fds
      <3>. QED
        BY <1>3, <1>4, <2>1, <2>3, <3>1, <3>2 DEF Plain
    <2>. QED
      BY <2>2, <2>3
  <1>. QED
    BY <1>5, HeldElsewhere DEF Moves


LEMMA UnlockToReadMoves ==
  ASSUME UnixInv, NEW p \in Procs, Local(p), UnlockToRead(p)
  PROVE  Moves
  <1>. TypeOK /\ ProcInv(p)
    BY DEF UnixInv
  <1>1. PICK f \in Fds(p) : f = On(p)
    BY DEF UnlockToRead, At, ProcInv, Placed
  <1>2. MethodOf(p, f, "unlockTwo", method[p].goal)
    BY <1>1, EnterMethod, Values DEF UnlockToRead, On, Places
  <1>3. /\ kernel'[p]["RESERVED_BYTE"] = kernel[p]["RESERVED_BYTE"] /\ At(p) = "readingShared"
        /\ eFileLock' = eFileLock
    BY GrantEffect, ByteNames DEF UnlockToRead, Bytes, At
  <1>4. \A h \in Fds(p) : Held(h)' = Held(h)
    BY <1>2, <1>3, HeldIsPlain, HeldIsPlainNext, SamePlain DEF MethodOf
  <1>. QED
    BY <1>4, HeldElsewhere DEF Moves

LEMMA UnlockUpperMoves ==
  ASSUME UnixInv, NEW p \in Procs, Local(p), UnlockUpper(p)
  PROVE  Moves
  <1>. TypeOK /\ ProcInv(p)
    BY DEF UnixInv
  <1>1. PICK f \in Fds(p) : f = On(p)
    BY DEF UnlockUpper, At, ProcInv, Placed
  <1>2. /\ At(p) = "unlockTwo" /\ eFileLock[f] > SHARED_LOCK /\ f \in Files /\ p = ProcOf(f)
        /\ eFileLock[f] \in 0..4
    BY <1>1, Values DEF UnlockUpper, At, ProcInv, Placed, Fds
  <1>3. \A h \in Fds(p) \ {f} : eFileLock[h] \in 0..1
    BY <1>2, Values DEF ProcInv, Levels, Fds
  <1>4. Held(f) > SHARED_LOCK
    BY <1>2, HeldIsPlain DEF Plain, Waiting
  <1>5. \A h \in Fds(p) \ {f} : Held(h) = eFileLock[h]
    BY <1>2, <1>3, HeldIsPlain DEF Plain
  <1>6. CASE method[p].goal = SHARED_LOCK
    <2>1. At(p)' = "idle" /\ \A h \in Files : eFileLock'[h] = IF h = f THEN SHARED_LOCK ELSE eFileLock[h]
      BY <1>1, <1>2, <1>6, LeaveMethod, FunctionTypes DEF UnlockUpper, On, MethodOf
    <2>2. \A h \in Fds(p) : Held(h)' = eFileLock'[h]
      BY <1>3, <2>1, HeldIsPlainNext DEF Plain, Fds
    <2>3. Held(f)' = SHARED_LOCK /\ \A h \in Fds(p) \ {f} : Held(h)' = Held(h)
      BY <1>2, <1>5, <2>1, <2>2 DEF Fds
    <2>4. \A h \in Files \ {f} : Held(h)' = Held(h)
      BY <2>3, HeldElsewhere
    <2>. QED
      BY <1>2, <1>4, <2>3, <2>4, ReleaseStep DEF Moves
  <1>7. CASE method[p].goal = NO_LOCK
    <2>1. MethodOf(p, f, "unlockAll", NO_LOCK) /\ eFileLock' = eFileLock
      BY <1>1, <1>7, EnterMethod DEF UnlockUpper, On, Places
    <2>2. Held(f)' = SHARED_LOCK
      BY <1>2, <2>1 DEF Held, MethodOf, At, On
    <2>3. \A h \in Fds(p) \ {f} : Held(h)' = Held(h)
      BY <1>3, <1>5, <2>1, HeldIsPlainNext DEF Plain, MethodOf
    <2>4. \A h \in Files \ {f} : Held(h)' = Held(h)
      BY <2>3, HeldElsewhere
    <2>. QED
      BY <1>2, <1>4, <2>2, <2>4, ReleaseStep DEF Moves
  <1>. QED
    BY <1>6, <1>7 DEF UnlockUpper, At, ProcInv, Placed

LEMMA UnlockAllMoves ==
  ASSUME UnixInv, NEW p \in Procs, Local(p), UnlockAll(p)
  PROVE  Moves
  <1>. TypeOK /\ ProcInv(p)
    BY DEF UnixInv
  <1>1. PICK f \in Fds(p) : f = On(p)
    BY DEF UnlockAll, At, ProcInv, Placed
  <1>2. /\ At(p) = "unlockAll" /\ At(p)' = "idle" /\ f \in Files /\ p = ProcOf(f) /\ eFileLock[f] # NO_LOCK
        /\ eFileLock[f] \in 0..4
    BY <1>1, LeaveMethod, Values DEF UnlockAll, At, ProcInv, Placed, Fds, MethodOf
  <1>3. Held(f) = SHARED_LOCK
    <2>1. CASE eFileLock[f] > SHARED_LOCK
      BY <1>1, <1>2, <2>1 DEF Held, At, On
    <2>2. CASE eFileLock[f] = SHARED_LOCK
      <3>1. method[ProcOf(f)].at = "unlockAll" /\ ~(eFileLock[f] > SHARED_LOCK) /\ eFileLock[f] # PENDING_LOCK
        BY <1>2, <2>2 DEF At
      <3>. QED
        BY <2>2, <3>1 DEF Held
    <2>. QED
      BY <1>2, <2>1, <2>2
  <1>4. \A h \in Files : eFileLock'[h] = IF h = f THEN NO_LOCK ELSE eFileLock[h]
    BY <1>1, <1>2, FunctionTypes DEF UnlockAll, On
  <1>5. Held(f)' = NO_LOCK
    BY <1>2, <1>4, HeldIsPlainNext DEF Plain
  <1>6. ASSUME NEW h \in Fds(p) \ {f} PROVE Held(h)' = Held(h)
    <2>1. Held(h) = Plain(h) /\ Held(h)' = Plain(h)' /\ eFileLock'[h] = eFileLock[h]
      BY <1>1, <1>2, <1>4, HeldIsPlain, HeldIsPlainNext DEF Fds
    <2>2. CASE kernel' = kernel
      BY <2>1, <2>2, SamePlain
    <2>3. CASE inode[p].nShared = 1
      <3>1. f \in Holders(p)
        BY <1>2 DEF Holders
      <3>2. Holders(p) = {f}
        <4>1. Cardinality(Holders(p)) <= 1 /\ Holders(p) \in SUBSET Fds(p)
          BY <2>3, HoldersOf DEF ProcInv, Counts
        <4>. QED
          BY <3>1, <4>1, HoldersCount
      <3>. QED
        BY <2>1, <3>2 DEF Holders, Plain
    <2>. QED
      BY <2>2, <2>3 DEF UnlockAll
  <1>7. \A h \in Files \ {f} : Held(h)' = Held(h)
    BY <1>6, HeldElsewhere
  <1>. QED
    BY <1>2, <1>3, <1>5, <1>7, ReleaseStep DEF Moves

LEMMA DieMoves ==
  ASSUME UnixInv, NEW p \in Procs, Local(p), Die(p)
  PROVE  Moves
  <1>1. At(p)' = "idle"
    BY LeaveMethod DEF UnixInv, Die, MethodOf
  <1>2. \A h \in Fds(p) : eFileLock'[h] = NO_LOCK
    BY DEF Die, Fds
  <1>3. \A h \in Fds(p) : Held(h)' = NO_LOCK
    BY <1>1, <1>2, HeldIsPlainNext DEF Plain
  <1>4. Fds(p) \in SUBSET Files
    BY DEF Fds
  <1>. QED
    BY <1>3, <1>4, HeldElsewhere, DropStep DEF Moves

LEMMA LocksStep ==
  ASSUME UnixInv, [Next]_vars
  PROVE  [Implemented!LockNext]_[f \in Files |-> Held(f)]
  <1>1. ASSUME NEW p \in Procs, Proceed(p) \/ Die(p) \/ \E f \in Fds(p) : ActsOn(f)
        PROVE  Moves
    <2>1. Local(p)
      BY <1>1, ProcStep DEF UnixInv, Kept
    <2>2. CASE Proceed(p)
      BY <2>1, <2>2, ReadSharedMoves, DropPendingMoves, WriteSharedMoves, UnlockToReadMoves,
         UnlockUpperMoves, UnlockAllMoves DEF Proceed
    <2>3. CASE Die(p)
      BY <2>1, <2>3, DieMoves
    <2>4. ASSUME NEW f \in Fds(p), ActsOn(f) PROVE Moves
      <3>1. CASE \/ LockShared(f) \/ Open(f) \/ Close(f) \/ FinishClose(f)
                 \/ \E k \in {NO_LOCK, SHARED_LOCK} : Unlock(f, k)
        <4>1. \A h \in Fds(p) : Held(h)' = Held(h)
          BY <3>1, QuietStep
        <4>. QED
          BY <2>1, <4>1, HeldElsewhere DEF Moves
      <3>2. CASE LockSharedAgain(f) \/ LockReserved(f) \/ LockExclusive(f)
        BY <2>1, <3>2, SharedAgainMoves, LockReservedMoves, LockExclusiveMoves
      <3>. QED
        BY <2>4, <3>1, <3>2 DEF ActsOn, Lock
    <2>. QED
      BY <1>1, <2>2, <2>3, <2>4
  <1>2. ASSUME UNCHANGED vars PROVE \A f \in Files : Held(f)' = Held(f)
    BY <1>2 DEF vars, Held, Waiting
  <1>3. Moves
    BY <1>1, <1>2, StepCases DEF Moves
  <1>. QED
    BY <1>3 DEF Moves

\* The lock methods keep the promise of the file locks, so ExclusionHolds of
\* RollbackJournalProofs is theirs: whatever two processes, and two handles of one, do between
\* each other's system calls, who writes is alone, one prepares, one waits, and the dead
\* hold nothing (unixLock and posixUnlock, os_unix.c).
THEOREM LocksAreImplemented == Spec => LocksImplemented
  <1>1. UnixInv /\ [Next]_vars => UnixInv'
    BY UnixStep
  <1>2. Init => UnixInv
    BY UnixInit
  <1>3. Init => Implemented!LockInit
    <2>. SUFFICES ASSUME Init PROVE Implemented!LockInit
      OBVIOUS
    <2>1. ASSUME NEW f \in Files PROVE Held(f) = NO_LOCK
      <3>1. method[ProcOf(f)].at = "idle" /\ eFileLock[f] = NO_LOCK
        BY Owned DEF Init, NoMethod
      <3>. QED
        BY <3>1 DEF Held
    <2>. QED
      BY <2>1 DEF Implemented!LockInit, Implemented!NO_LOCK
  <1>4. UnixInv /\ [Next]_vars => [Implemented!LockNext]_[f \in Files |-> Held(f)]
    BY LocksStep
  <1>. QED
    BY <1>1, <1>2, <1>3, <1>4, PTL DEF Spec, LocksImplemented, Implemented!LockSpec
=============================================================================
