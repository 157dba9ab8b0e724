-------------------------- MODULE DraftSyncProofs --------------------------
(***************************************************************************)
(* Theorems about DraftSync, for every set of drafts, slots and passes.    *)
(***************************************************************************)
EXTENDS DraftSync, FiniteSetTheorems, TLAPS

USE DEF device, manager, workers, ui, outside, history

-----------------------------------------------------------------------------
(* What the helpers do to the types.                                       *)

Table == [Drafts -> DraftRecord]

\* Numbers the creations of a record.
LEMMA OneMoreType == ASSUME NEW n \in 0..2 PROVE OneMore(n) \in 1..2
  BY DEF OneMore

\* A record with a new status is a record, and differs in nothing else.
LEMMA WithStatusType ==
  ASSUME NEW r \in DraftRecord, NEW s \in Status
  PROVE  /\ [r EXCEPT !.status = s] \in DraftRecord
         /\ [r EXCEPT !.status = s].status = s
         /\ \A k \in Kinds : [r EXCEPT !.status = s][k] = r[k]
  BY DEF DraftRecord, Kinds

\* A record with a new link is a record, and differs in nothing else.
LEMMA WithLinkType ==
  ASSUME NEW r \in DraftRecord, NEW k \in Kinds, NEW l \in Link
  PROVE  /\ [r EXCEPT ![k] = l] \in DraftRecord
         /\ [r EXCEPT ![k] = l].status = r.status
         /\ \A j \in Kinds : [r EXCEPT ![k] = l][j] = IF j = k THEN l ELSE r[j]
  BY DEF DraftRecord, Kinds

LEMMA GoneType ==
  ASSUME NEW s \in Status
  PROVE  Gone(s) \in DraftRecord /\ Gone(s).status = s
         /\ \A k \in Kinds : Gone(s)[k] = "none"
  BY DEF Gone, DraftRecord, Link, Kinds

\* SetStatus changes the status of one live draft.
LEMMA SetStatusEffect ==
  ASSUME mem \in Table, NEW d, NEW s \in Status, SetStatus(d, s)
  PROVE  /\ mem' \in Table
         /\ \A e \in Drafts :
              /\ mem'[e].status = IF e = d /\ Live(e) THEN s ELSE mem[e].status
              /\ \A k \in Kinds : mem'[e][k] = mem[e][k]
  <1>. DEFINE r == [mem[d] EXCEPT !.status = IF Live(d) THEN s ELSE @]
  <1>1. mem' = [mem EXCEPT ![d] = r]
    BY DEF SetStatus
  <1>2. d \in Drafts => /\ r \in DraftRecord
                        /\ r.status = IF Live(d) THEN s ELSE mem[d].status
                        /\ \A k \in Kinds : r[k] = mem[d][k]
    BY WithStatusType DEF Table, DraftRecord
  <1>. QED
    BY <1>1, <1>2 DEF Table

\* Delete makes one live draft gone, in memory and in the database.
LEMMA DeleteEffect ==
  ASSUME mem \in Table, NEW d, NEW s \in Status, Delete(d, s)
  PROVE  /\ mem' \in Table
         /\ store' = mem'
         /\ \A e \in Drafts :
              mem'[e] = IF e = d /\ Live(e) THEN Gone(s) ELSE mem[e]
  BY GoneType DEF Delete, SaveAll, Table

LEMMA ResetEffect ==
  ASSUME NEW m \in Table
  PROVE  /\ Reset(m) \in Table
         /\ \A e \in Drafts :
              /\ Reset(m)[e].status = IF m[e].status = "Syncing" THEN "QueuedToSync"
                                                               ELSE m[e].status
              /\ \A k \in Kinds : Reset(m)[e][k] = m[e][k]
  <1>. DEFINE s(e) == IF m[e].status = "Syncing" THEN "QueuedToSync" ELSE m[e].status
              r(e) == [m[e] EXCEPT !.status = s(e)]
  <1>1. \A e \in Drafts : m[e] \in DraftRecord /\ s(e) \in Status
    BY DEF Table, DraftRecord, Status, DraftStatus
  <1>2. Reset(m) = [e \in Drafts |-> r(e)]
    BY DEF Reset
  <1>3. ASSUME NEW e \in Drafts
        PROVE  /\ r(e) \in DraftRecord
               /\ r(e).status = s(e)
               /\ \A k \in Kinds : r(e)[k] = m[e][k]
    <2>. HIDE DEF s
    <2>. QED  BY <1>1, WithStatusType
  <1>. HIDE DEF r
  <1>. QED
    BY <1>2, <1>3 DEF Table

LEMMA RegisteredEffect ==
  ASSUME mem \in Table, NEW d
  PROVE  /\ Registered(d) \in Table
         /\ \A e \in Drafts :
              /\ e # d \/ ~Live(e) => Registered(d)[e] = mem[e]
              /\ e = d /\ Live(e) => /\ Registered(d)[e].status = "SyncSuccess"
                                     /\ Registered(d)[e].opty = "id"
                                     /\ Registered(d)[e].contact = mem[e].contact
                                     /\ Registered(d)[e].account = mem[e].account
  <1>1. CASE Live(d)
    <2>. DEFINE r == [[mem[d] EXCEPT !.opty = "id"] EXCEPT !.status = "SyncSuccess"]
    <2>1. Registered(d) = [mem EXCEPT ![d] = r]
      BY <1>1 DEF Registered
    <2>2. d \in Drafts => /\ r \in DraftRecord
                          /\ r.status = "SyncSuccess"
                          /\ r.opty = "id"
                          /\ r.contact = mem[d].contact
                          /\ r.account = mem[d].account
      BY DEF Table, DraftRecord, Status, DraftStatus, Link
    <2>. QED
      BY <1>1, <2>1, <2>2 DEF Table
  <1>2. CASE ~Live(d)
    <2>. DEFINE r == [[mem[d] EXCEPT !.opty = @] EXCEPT !.status = @]
    <2>1. Registered(d) = [mem EXCEPT ![d] = r]
      BY <1>2 DEF Registered
    <2>2. d \in Drafts => r = mem[d]
      BY DEF Table, DraftRecord
    <2>. QED
      BY <1>2, <2>1, <2>2 DEF Table
  <1>. QED
    BY <1>1, <1>2

\* LinkCreated gives one record of one live draft its identifier, and saves.
LEMMA LinkCreatedEffect ==
  ASSUME mem \in Table, NEW w \in Workers, kind[w] \in Kinds, LinkCreated(w)
  PROVE  /\ mem' \in Table
         /\ store' = mem'
         /\ \A e \in Drafts :
              /\ mem'[e].status = mem[e].status
              /\ \A k \in Kinds :
                   mem'[e][k] = IF e = job[w] /\ k = kind[w] /\ Live(e) /\ w \notin orphaned
                                THEN "id" ELSE mem[e][k]
  <1>. DEFINE d == job[w]
              k == kind[w]
              l == IF Live(d) /\ w \notin orphaned THEN "id" ELSE mem[d][k]
              r == [mem[d] EXCEPT ![k] = l]
  <1>1. mem' = [mem EXCEPT ![d] = r] /\ store' = mem'
    BY DEF LinkCreated, SaveAll
  <1>2. ASSUME d \in Drafts
        PROVE  /\ r \in DraftRecord
               /\ r.status = mem[d].status
               /\ \A j \in Kinds : r[j] = IF j = k THEN l ELSE mem[d][j]
    <2>1. mem[d] \in DraftRecord
      BY <1>2 DEF Table
    <2>2. l \in Link
      BY <2>1 DEF DraftRecord, Link, Kinds
    <2>. QED
      BY <2>1, <2>2, WithLinkType
  <1>. QED
    BY <1>1, <1>2 DEF Table

\* Writing a draft from the form replaces the record of the form's draft, unless
\* it was deleted meanwhile.
LEMMA WriteDraftEffect ==
  ASSUME mem \in Table, NEW s \in DraftStatus, WriteDraft(s),
         form.contact \in Link, form.account \in Link
  PROVE  /\ mem' \in Table
         /\ store' = mem'
         /\ orphaned' \subseteq orphaned \cup Workers
         /\ \A e \in Drafts :
              /\ e # form.draft \/ mem[e].status \in {"Synced", "Discarded"} => mem'[e] = mem[e]
              /\ e = form.draft /\ Live(e)
                   => /\ mem'[e].status = s
                      /\ mem'[e].opty = mem[e].opty
                      /\ mem'[e].contact = form.contact
                      /\ mem'[e].account = form.account
              /\ e = form.draft /\ mem[e].status = "Unborn"
                   => /\ mem'[e].status = s
                      /\ mem'[e].opty = "new"
                      /\ mem'[e].contact = form.contact
                      /\ mem'[e].account = form.account
  <1>. DEFINE d == form.draft
              o == IF Live(d) THEN mem[d].opty ELSE "new"
              r == [status |-> s, contact |-> form.contact, account |-> form.account, opty |-> o]
  <1>1. /\ mem' = [mem EXCEPT ![d] = IF Live(d) \/ mem[d].status = "Unborn" THEN r ELSE mem[d]]
        /\ store' = mem'
        /\ orphaned' \subseteq orphaned \cup Workers
    BY DEF WriteDraft, SaveAll
  <1>2. d \in Drafts => r \in DraftRecord
    BY DEF Table, DraftRecord, Status, Link
  <1>3. Live(d) => mem[d].status \notin {"Synced", "Discarded", "Unborn"}
    BY DEF Live, DraftStatus
  <1>. QED
    BY <1>1, <1>2, <1>3 DEF Table

-----------------------------------------------------------------------------
(* Type correctness.                                                       *)

\* Every step preserves the types, one action at a time.
LEMMA NetworkType == ASSUME TypeOK, Network PROVE TypeOK'
  BY DEF TypeOK, Network, NetworkAvailable, NetworkLost

LEMMA ManagerType == ASSUME TypeOK, Manager PROVE TypeOK'
  <1>1. ASSUME NEW p \in Passes, ReadDrafts(p) PROVE TypeOK'
    BY <1>1 DEF TypeOK, ReadDrafts
  <1>2. ASSUME NEW p \in Passes, QueueOperation(p) PROVE TypeOK'
    <2>1. /\ pass' \in [Passes -> {"idle", "reading", "queuing"}]
          /\ batch' \in [Passes -> SUBSET Drafts]
      BY <1>2 DEF TypeOK, QueueOperation, Remaining
    <2>2. opQueue' \in Seq(Drafts)
      <3>1. CASE opQueue' = opQueue
        BY <3>1 DEF TypeOK
      <3>2. CASE \E d \in batch[p] : opQueue' = Append(opQueue, d)
        <4>1. PICK d \in batch[p] : opQueue' = Append(opQueue, d)
          BY <3>2
        <4>2. d \in Drafts /\ opQueue \in Seq(Drafts)
          BY DEF TypeOK
        <4>. QED
          BY <4>1, <4>2
      <3>. QED
        BY <1>2, <3>1, <3>2 DEF QueueOperation
    <2>. QED
      BY <1>2, <2>1, <2>2 DEF TypeOK, QueueOperation
  <1>. QED
    BY <1>1, <1>2 DEF Manager

LEMMA GotoType ==
  ASSUME TypeOK, NEW w, NEW s \in Steps, NEW k \in Kinds, Goto(w, s, k)
  PROVE  step' \in [Workers -> Steps] /\ kind' \in [Workers -> Kinds]
  BY DEF TypeOK, Goto

LEMMA RetireType ==
  ASSUME TypeOK, NEW w, Retire(w)
  PROVE  /\ step' \in [Workers -> Steps] /\ kind' \in [Workers -> Kinds]
         /\ job' \in [Workers -> Drafts \cup {NoDraft}]
         /\ seen' \in [Workers -> Status]
         /\ orphaned' \subseteq Workers
         /\ \A v \in Workers : step'[v] # "idle" => job'[v] \in Drafts
  <1>1. Goto(w, "idle", "contact")
    BY DEF Retire
  <1>2. step' \in [Workers -> Steps] /\ kind' \in [Workers -> Kinds]
    BY <1>1, GotoType DEF Steps, Kinds
  <1>3. \A v \in Workers : step'[v] # "idle" => job'[v] \in Drafts
    BY DEF Retire, Goto, TypeOK
  <1>. QED
    BY <1>2, <1>3 DEF Retire, TypeOK, Status, GoneStatus

\* What the rest of TypeOK says once the data and the slots are known to be typed.
LEMMA ObserveType ==
  ASSUME TypeOK, NEW d, NEW s \in Status, Observe(d, s)
  PROVE  mem' \in Table /\ store' \in Table /\ listed' \subseteq Drafts
  <1>. mem \in Table /\ store \in Table /\ listed \subseteq Drafts
    BY DEF TypeOK, Table
  <1>1. CASE d \notin listed
    BY <1>1 DEF Observe
  <1>2. CASE d \in listed /\ s = "SyncSuccess"
    <2>1. Delete(d, "Synced") /\ listed' = listed \ {d}
      BY <1>2 DEF Observe
    <2>2. "Synced" \in Status
      BY DEF Status, GoneStatus
    <2>. QED
      BY <2>1, <2>2, DeleteEffect
  <1>3. CASE d \in listed /\ s # "SyncSuccess"
    <2>1. SetStatus(d, s) /\ UNCHANGED <<store, listed>>
      BY <1>3 DEF Observe
    <2>. QED
      BY <2>1, SetStatusEffect
  <1>. QED
    BY <1>1, <1>2, <1>3

LEMMA OperationType ==
  ASSUME TypeOK, NEW w \in Workers, Operation(w) PROVE TypeOK'
  <1>. mem \in Table /\ store \in Table
    BY DEF TypeOK, Table
  <1>. {"idle", "started", "claiming", "rejecting", "finishing", "next", "sent", "stuck"} \subseteq Steps
    BY DEF Steps
  <1>. {"contact", "account", "opty"} = Kinds
    BY DEF Kinds
  <1>1. CASE StartOperation(w)
    <2>1. Head(opQueue) \in Drafts /\ Tail(opQueue) \in Seq(Drafts)
      BY <1>1 DEF StartOperation, TypeOK
    <2>2. step' \in [Workers -> Steps] /\ kind' \in [Workers -> Kinds]
      BY <1>1, GotoType DEF StartOperation
    <2>3. \A v \in Workers : step'[v] # "idle" => job'[v] \in Drafts
      BY <1>1, <2>1 DEF StartOperation, Goto, TypeOK
    <2>. QED
      BY <1>1, <2>1, <2>2, <2>3 DEF StartOperation, TypeOK
  <1>2. CASE CheckStatus(w)
    <2>1. step' \in [Workers -> Steps] /\ kind' \in [Workers -> Kinds]
      BY <1>2, GotoType DEF CheckStatus
    <2>2. job[w] \in Drafts /\ clashed' \subseteq Drafts
      BY <1>2 DEF CheckStatus, TypeOK
    <2>3. \A v \in Workers : step'[v] # "idle" => job'[v] \in Drafts
      BY <1>2, <2>2 DEF CheckStatus, Goto, TypeOK
    <2>. QED
      BY <1>2, <2>1, <2>2, <2>3 DEF CheckStatus, TypeOK
  <1>3. CASE ClaimDraft(w)
    <2>1. step' \in [Workers -> Steps] /\ kind' \in [Workers -> Kinds]
      BY <1>3, GotoType DEF ClaimDraft
    <2>2. SetStatus(job[w], "Syncing") /\ "Syncing" \in Status
      BY <1>3 DEF ClaimDraft, Status, DraftStatus
    <2>3. mem' \in Table
      BY <2>2, SetStatusEffect
    <2>4. \A v \in Workers : step'[v] # "idle" => job'[v] \in Drafts
      BY <1>3 DEF ClaimDraft, Goto, TypeOK
    <2>. QED
      BY <1>3, <2>1, <2>3, <2>4 DEF ClaimDraft, TypeOK, Table
  <1>4. CASE ReadForNotification(w)
    <2>1. step' \in [Workers -> Steps] /\ kind' \in [Workers -> Kinds]
      BY <1>4, GotoType DEF ReadForNotification
    <2>2. job[w] \in Drafts
      BY <1>4 DEF ReadForNotification, TypeOK
    <2>3. mem[job[w]].status \in Status
      BY <2>2 DEF Table, DraftRecord
    <2>4. \A v \in Workers : step'[v] # "idle" => job'[v] \in Drafts
      BY <1>4 DEF ReadForNotification, Goto, TypeOK
    <2>. QED
      BY <1>4, <2>1, <2>3, <2>4 DEF ReadForNotification, TypeOK
  <1>5. CASE NotifyRejected(w)
    <2>1. Observe(job[w], seen[w]) /\ Retire(w) /\ seen[w] \in Status
      BY <1>5 DEF NotifyRejected, TypeOK
    <2>2. mem' \in Table /\ store' \in Table /\ listed' \subseteq Drafts
      BY <2>1, ObserveType
    <2>3. /\ step' \in [Workers -> Steps] /\ kind' \in [Workers -> Kinds]
          /\ job' \in [Workers -> Drafts \cup {NoDraft}]
          /\ seen' \in [Workers -> Status]
          /\ orphaned' \subseteq Workers
          /\ \A v \in Workers : step'[v] # "idle" => job'[v] \in Drafts
      BY <2>1, RetireType
    <2>4. clashed' \subseteq Drafts
      BY <1>5 DEF NotifyRejected, TypeOK
    <2>. QED
      BY <1>5, <2>2, <2>3, <2>4 DEF NotifyRejected, TypeOK, Table
  <1>6. CASE CheckRecord(w)
    <2>1. kind[w] \in Kinds /\ After(kind[w]) \in Kinds
      BY DEF TypeOK, After, Kinds
    <2>2. step' \in [Workers -> Steps] /\ kind' \in [Workers -> Kinds]
      BY <1>6, <2>1, GotoType DEF CheckRecord
    <2>3. \A v \in Workers : step'[v] # "idle" => job'[v] \in Drafts
      BY <1>6 DEF CheckRecord, Goto, TypeOK
    <2>. QED
      BY <1>6, <2>2, <2>3 DEF CheckRecord, TypeOK
  <1>. QED
    BY <1>1, <1>2, <1>3, <1>4, <1>5, <1>6 DEF Operation

LEMMA ServerCreatesType ==
  ASSUME TypeOK, NEW w \in Workers, ServerCreates(w) PROVE TypeOK'
  <1>1. job[w] \in Drafts /\ kind[w] \in Kinds /\ "made" \in Steps
    BY DEF ServerCreates, TypeOK, Steps
  <1>2. step' \in [Workers -> Steps] /\ kind' \in [Workers -> Kinds]
    BY <1>1, GotoType DEF ServerCreates
  <1>. DEFINE n == server[job[w]][kind[w]]
  <1>3. OneMore(n) \in 0..2
    <2>1. n \in 0..2
      BY <1>1 DEF TypeOK
    <2>. HIDE DEF n
    <2>2. OneMore(n) \in 1..2
      BY <2>1, OneMoreType
    <2>. QED
      BY <2>2
  <1>4. server' \in [Drafts -> [Kinds -> 0..2]]
    BY <1>1, <1>3 DEF ServerCreates, TypeOK
  <1>5. \A v \in Workers : step'[v] # "idle" => job'[v] \in Drafts
    BY <1>1 DEF ServerCreates, Goto, TypeOK
  <1>. QED
    BY <1>2, <1>4, <1>5 DEF ServerCreates, TypeOK

\* A launch leaves typed variables, whatever typed database it starts from.
LEMMA LaunchType ==
  ASSUME TypeOK, NEW m \in Table, NEW a, Launch(m, a), launches' \in 0..MaxLaunches
  PROVE  TypeOK'
  <1>1. mem' \in Table /\ store' \in Table
    BY ResetEffect DEF Launch
  <1>2. lost' \in [Drafts -> SUBSET Kinds]
    BY DEF Launch, TypeOK
  <1>3. /\ pass' \in [Passes -> {"idle", "reading", "queuing"}]
        /\ batch' \in [Passes -> SUBSET Drafts]
        /\ opQueue' \in Seq(Drafts)
    BY DEF Launch
  <1>4. /\ step' \in [Workers -> Steps]
        /\ job' \in [Workers -> Drafts \cup {NoDraft}]
        /\ \A w \in Workers : step'[w] # "idle" => job'[w] \in Drafts
        /\ kind' \in [Workers -> Kinds]
        /\ seen' \in [Workers -> Status]
        /\ orphaned' \subseteq Workers
    BY DEF Launch, Steps, Kinds, Status, GoneStatus
  <1>5. /\ listed' \subseteq Drafts
        /\ asked' \in Nat
        /\ form' \in [draft: Drafts, contact: Link, account: Link] \cup {NoForm}
        /\ confirming' \in BOOLEAN
    BY DEF Launch
  <1>6. UNCHANGED <<user, online, server, refetched, clashed, reopened>>
    BY DEF Launch
  <1>. QED
    BY <1>1, <1>2, <1>3, <1>4, <1>5, <1>6 DEF TypeOK, Table

LEMMA AnswerType ==
  ASSUME TypeOK, NEW w \in Workers, Answer(w) PROVE TypeOK'
  <1>. mem \in Table /\ store \in Table
    BY DEF TypeOK, Table
  <1>. kind[w] \in Kinds
    BY DEF TypeOK
  <1>. {"sent", "stuck", "activity"} \subseteq Steps /\ {"account", "opty"} \subseteq Kinds
    BY DEF Steps, Kinds
  <1>1. CASE LinkCreated(w)
    <2>1. mem' \in Table /\ store' \in Table
      BY <1>1, LinkCreatedEffect
    <2>2. \E s \in Steps, k \in Kinds : Goto(w, s, k)
      BY <1>1 DEF LinkCreated, ContinueAfter
    <2>3. step' \in [Workers -> Steps] /\ kind' \in [Workers -> Kinds]
      BY <2>2, GotoType
    <2>4. \A v \in Workers : step'[v] # "idle" => job'[v] \in Drafts
      BY <1>1, <2>2 DEF LinkCreated, Goto, TypeOK
    <2>. QED
      BY <1>1, <2>1, <2>3, <2>4 DEF LinkCreated, TypeOK, Table
  <1>2. CASE OptyCreated(w)
    <2>1. mem' \in Table /\ store' \in Table
      BY <1>2, RegisteredEffect DEF OptyCreated, SaveAll
    <2>2. Goto(w, "activity", "opty")
      BY <1>2 DEF OptyCreated
    <2>3. step' \in [Workers -> Steps] /\ kind' \in [Workers -> Kinds]
      BY <2>2, GotoType
    <2>4. \A v \in Workers : step'[v] # "idle" => job'[v] \in Drafts
      BY <1>2, <2>2 DEF OptyCreated, Goto, TypeOK
    <2>. QED
      BY <1>2, <2>1, <2>3, <2>4 DEF OptyCreated, TypeOK, Table
  <1>3. CASE OptyCreatedWithoutContact(w)
    <2>1. Registered(job[w]) \in Table
      BY RegisteredEffect
    <2>2. Launch(Registered(job[w]), {w}) /\ launches' \in 0..MaxLaunches
      BY <1>3 DEF OptyCreatedWithoutContact, TypeOK
    <2>. QED
      BY <2>1, <2>2, LaunchType
  <1>4. CASE CreateFailed(w)
    <2>1. Retire(w) /\ SetStatus(job[w], FailedStatus) /\ FailedStatus \in Status
      BY <1>4 DEF CreateFailed, FailedStatus, Status, DraftStatus
    <2>2. mem' \in Table
      BY <2>1, SetStatusEffect
    <2>3. lost' \in [Drafts -> SUBSET Kinds]
      BY <1>4 DEF CreateFailed, TypeOK
    <2>. QED
      BY <1>4, <2>1, <2>2, <2>3, RetireType DEF CreateFailed, TypeOK, Table
  <1>5. CASE ActivityAnswered(w)
    <2>1. Retire(w) /\ Delete(job[w], "Synced") /\ "Synced" \in Status
      BY <1>5 DEF ActivityAnswered, Status, GoneStatus
    <2>2. mem' \in Table /\ store' \in Table
      BY <2>1, DeleteEffect
    <2>. QED
      BY <1>5, <2>1, <2>2, RetireType DEF ActivityAnswered, TypeOK, Table
  <1>. QED
    BY <1>1, <1>2, <1>3, <1>4, <1>5 DEF Answer

LEMMA AnswerSwallowedType ==
  ASSUME TypeOK, NEW w \in Workers, AnswerSwallowed(w) PROVE TypeOK'
  <1>1. kind[w] \in Kinds /\ "stuck" \in Steps /\ Goto(w, "stuck", kind[w])
    BY DEF AnswerSwallowed, TypeOK, Steps
  <1>2. step' \in [Workers -> Steps] /\ kind' \in [Workers -> Kinds]
    BY <1>1, GotoType
  <1>3. \A v \in Workers : step'[v] # "idle" => job'[v] \in Drafts
    BY DEF AnswerSwallowed, Goto, TypeOK
  <1>. QED
    BY <1>2, <1>3 DEF AnswerSwallowed, TypeOK

LEMMA DeathType == ASSUME TypeOK, Killed \/ Terminated PROVE TypeOK'
  <1>1. launches' \in 0..MaxLaunches
    BY BoundsAssumption DEF Killed, Terminated, MayDie, TypeOK
  <1>2. Launch(store, {}) \/ Launch(mem, {})
    BY DEF Killed, Terminated
  <1>. QED
    BY <1>1, <1>2, LaunchType DEF TypeOK, Table

\* The number of a row is a natural number: the rows above it are finitely many.
LEMMA RowType == ASSUME TypeOK, NEW d \in Drafts PROVE Row(d) \in Nat
  <1>. DEFINE above == {e \in listed : e <= d}
  <1>1. d \in Nat /\ listed \subseteq Nat
    BY DraftsAssumption DEF TypeOK
  <1>2. IsFiniteSet(0..d)
    BY <1>1, FS_Interval
  <1>3. \A e \in above : e \in 0..d
    <2>. TAKE e \in above
    <2>1. e \in Nat /\ e <= d /\ d \in Nat
      BY <1>1
    <2>. QED
      BY <2>1
  <1>4. Row(d) = Cardinality(above)
    BY DEF Row
  <1>. HIDE DEF above
  <1>5. IsFiniteSet(above)
    BY <1>2, <1>3, FS_Subset
  <1>. QED
    BY <1>4, <1>5, FS_CardinalityType

LEMMA DraftsScreenType == ASSUME TypeOK, DraftsScreen PROVE TypeOK'
  <1>. mem \in Table /\ store \in Table
    BY DEF TypeOK, Table
  <1>1. CASE OpenDrafts \/ CloseDrafts \/ CancelDelete
    BY <1>1 DEF OpenDrafts, CloseDrafts, CancelDelete, TypeOK
  <1>2. ASSUME NEW d \in Drafts, AskDelete(d) PROVE TypeOK'
    <2>1. asked' \in Nat
      BY <1>2, RowType DEF AskDelete
    <2>. QED
      BY <1>2, <2>1 DEF AskDelete, TypeOK
  <1>3. CASE ConfirmDelete
    <2>1. CASE Launch(store, {}) /\ UNCHANGED launches
      BY <2>1, LaunchType DEF TypeOK
    <2>2. ASSUME NEW d \in listed, Delete(d, "Discarded"), listed' = listed \ {d}, asked' = 0,
                 UNCHANGED <<manager, workers, form, confirming, outside, history>>
          PROVE  TypeOK'
      <3>1. mem' \in Table /\ store' \in Table
        BY <2>2, DeleteEffect DEF Status, GoneStatus
      <3>. QED
        BY <2>2, <3>1 DEF TypeOK, Table
    <2>. QED
      BY <1>3, <2>1, <2>2 DEF ConfirmDelete
  <1>. QED
    BY <1>1, <1>2, <1>3 DEF DraftsScreen

LEMMA FormScreenType == ASSUME TypeOK, FormScreen PROVE TypeOK'
  <1>. mem \in Table /\ store \in Table
    BY DEF TypeOK, Table
  <1>0. form.contact \in Link /\ form.account \in Link
    BY DEF TypeOK, NoForm, Link
  <1>1. ASSUME NEW d \in Drafts, NEW c \in Contacts, NEW a \in Accounts, NewForm(d, c, a)
        PROVE  TypeOK'
    BY <1>1, InputsAssumption DEF NewForm, TypeOK, Link
  <1>2. ASSUME NEW d \in Drafts, OpenDraft(d) PROVE TypeOK'
    <2>1. form' \in [draft: Drafts, contact: Link, account: Link]
      BY <1>2 DEF OpenDraft, Table, DraftRecord
    <2>. QED
      BY <1>2, <2>1 DEF OpenDraft, TypeOK
  <1>3. CASE CloseForm \/ SubmitOffline
    BY <1>3 DEF CloseForm, SubmitOffline, TypeOK
  <1>4. CASE SaveAsDraft
    <2>1. WriteDraft("SavedAsDraft") /\ "SavedAsDraft" \in DraftStatus
      BY <1>4 DEF SaveAsDraft, DraftStatus
    <2>2. mem' \in Table /\ store' \in Table /\ orphaned' \subseteq orphaned \cup Workers
      BY <1>0, <2>1, WriteDraftEffect
    <2>. QED
      BY <1>4, <2>2 DEF SaveAsDraft, TypeOK, Table
  <1>5. CASE QueueDraft
    <2>1. WriteDraft("QueuedToSync") /\ "QueuedToSync" \in DraftStatus
      BY <1>5 DEF QueueDraft, DraftStatus
    <2>2. mem' \in Table /\ store' \in Table /\ orphaned' \subseteq orphaned \cup Workers
      BY <1>0, <2>1, WriteDraftEffect
    <2>. QED
      BY <1>5, <2>2 DEF QueueDraft, TypeOK, Table
  <1>6. CASE SubmitOnline
    <2>1. form.draft \in Drafts
      BY <1>6 DEF SubmitOnline, TypeOK
    <2>. DEFINE n == server[form.draft].opty
    <2>2. OneMore(n) \in 0..2
      <3>1. n \in 0..2
        BY <2>1 DEF TypeOK, Kinds
      <3>. HIDE DEF n
      <3>2. OneMore(n) \in 1..2
        BY <3>1, OneMoreType
      <3>. QED
        BY <3>2
    <2>3. server' \in [Drafts -> [Kinds -> 0..2]]
      BY <1>6, <2>1, <2>2 DEF SubmitOnline, TypeOK, Kinds
    <2>4. mem' \in Table /\ store' \in Table
      <3>1. Gone("Synced") \in DraftRecord
        BY GoneType DEF Status, GoneStatus
      <3>. DEFINE d == form.draft
      <3>2. CASE UNCHANGED device
        BY <3>2
      <3>3. CASE /\ mem' = [mem EXCEPT ![d] = IF Live(d) \/ @.status = "Unborn"
                                              THEN Gone("Synced") ELSE @]
                 /\ SaveAll
        BY <3>1, <3>3 DEF SaveAll, Table
      <3>. QED
        BY <1>6, <3>2, <3>3 DEF SubmitOnline
    <2>5. lost' \in [Drafts -> SUBSET Kinds]
      <3>1. UNCHANGED lost \/ lost' = [lost EXCEPT ![form.draft] = @ \cup {"opty"}]
        BY <1>6 DEF SubmitOnline
      <3>2. lost \in [Drafts -> SUBSET Kinds] /\ "opty" \in Kinds
        BY DEF TypeOK, Kinds
      <3>. QED
        BY <3>1, <3>2
    <2>. QED
      BY <1>6, <2>3, <2>4, <2>5 DEF SubmitOnline, TypeOK, Table
  <1>. QED
    BY <1>1, <1>2, <1>3, <1>4, <1>5, <1>6 DEF FormScreen

LEMMA InitType == ASSUME Init PROVE TypeOK
  <1>1. mem \in Table /\ store \in Table
    BY GoneType DEF Init, Table, Status, GoneStatus
  <1>2. /\ pass \in [Passes -> {"idle", "reading", "queuing"}]
        /\ batch \in [Passes -> SUBSET Drafts]
        /\ opQueue \in Seq(Drafts)
    BY DEF Init
  <1>3. /\ step \in [Workers -> Steps]
        /\ job \in [Workers -> Drafts \cup {NoDraft}]
        /\ \A w \in Workers : step[w] # "idle" => job[w] \in Drafts
        /\ kind \in [Workers -> Kinds]
        /\ seen \in [Workers -> Status]
        /\ orphaned \subseteq Workers
    BY DEF Init, Steps, Kinds, Status, GoneStatus
  <1>4. /\ launches \in 0..MaxLaunches
        /\ server \in [Drafts -> [Kinds -> 0..2]]
        /\ lost \in [Drafts -> SUBSET Kinds]
    BY BoundsAssumption DEF Init
  <1>. QED
    BY <1>1, <1>2, <1>3, <1>4 DEF Init, TypeOK, Table

LEMMA TypeStep == ASSUME TypeOK, [Next]_vars PROVE TypeOK'
  <1>1. CASE Network  BY <1>1, NetworkType
  <1>2. CASE Manager  BY <1>2, ManagerType
  <1>3. ASSUME NEW w \in Workers,
               Operation(w) \/ ServerCreates(w) \/ Answer(w) \/ AnswerSwallowed(w)
        PROVE  TypeOK'
    BY <1>3, OperationType, ServerCreatesType, AnswerType, AnswerSwallowedType
  <1>4. CASE Killed \/ Terminated  BY <1>4, DeathType
  <1>5. CASE DraftsScreen  BY <1>5, DraftsScreenType
  <1>6. CASE FormScreen  BY <1>6, FormScreenType
  <1>7. CASE PinScreenShown  BY <1>7 DEF PinScreenShown, TypeOK
  <1>8. CASE UNCHANGED vars  BY <1>8 DEF vars, TypeOK
  <1>9. CASE Session
    <2>1. /\ UNCHANGED <<mem, manager, workers, online, server, launches, history>>
          /\ store' = mem /\ user' \in Users \cup {NoUser}
          /\ \/ UNCHANGED ui
             \/ listed' = {} /\ asked' = 0 /\ form' = NoForm /\ confirming' = FALSE
      BY <1>9 DEF Session, Login, Logout, SaveAll
    <2>2. user' \in Users \cup {NoUser}
      BY <2>1
    <2>3. CASE UNCHANGED ui
      BY <2>1, <2>2, <2>3 DEF TypeOK
    <2>4. CASE listed' = {} /\ asked' = 0 /\ form' = NoForm /\ confirming' = FALSE
      <3>1. /\ listed' \subseteq Drafts /\ asked' \in Nat /\ confirming' \in BOOLEAN
            /\ form' \in [draft: Drafts, contact: Link, account: Link] \cup {NoForm}
        BY <2>4
      <3>. QED
        BY <2>1, <2>2, <3>1 DEF TypeOK
    <2>. QED
      BY <2>1, <2>3, <2>4
  <1>. QED
    BY <1>1, <1>2, <1>3, <1>4, <1>5, <1>6, <1>7, <1>8, <1>9 DEF Next

\* Every variable of DraftSync keeps to the values the code gives it, for every
\* number of drafts, slots, passes, queued operations and relaunches.
THEOREM TypeCorrect == Spec => []TypeOK
  <1>1. Init => TypeOK
    BY InitType
  <1>2. TypeOK /\ [Next]_vars => TypeOK'
    BY TypeStep
  <1>. QED
    BY <1>1, <1>2, PTL DEF Spec

-----------------------------------------------------------------------------
(* No draft is lost: what counts as delivered is on the server.            *)

Reached(d) == server[d].opty >= 1

\* What DeliveredExists needs to be inductive: an operation past the creation of
\* the opportunity, or about to announce a delivery, knows that the server has it.
Knows(w) ==
    /\ step[w] = "activity" => Reached(job[w])
    /\ step[w] = "made" /\ kind[w] = "opty" => Reached(job[w])
    /\ step[w] = "finishing" /\ seen[w] \in {"SyncSuccess", "Synced"} => Reached(job[w])

DeliveryInv == TypeOK /\ DeliveredExists /\ \A w \in Workers : Knows(w)

\* One table of records claims nothing the server does not have.
Honest(m) == \A d \in Drafts :
    m[d].status \in {"SyncSuccess", "Synced"} \/ m[d].opty = "id" => Reached(d)

LEMMA DeliveredIsHonest == DeliveredExists <=> Honest(mem) /\ Honest(store)
  BY DEF DeliveredExists, Honest, Reached

\* The server forgets nothing.
LEMMA ServerGrows ==
  ASSUME TypeOK, [Next]_vars
  PROVE  \A d \in Drafts : Reached(d) => Reached(d)'
  <1>1. CASE UNCHANGED server
    BY <1>1 DEF Reached
  <1>2. ASSUME NEW w \in Workers, ServerCreates(w)
        PROVE  \A d \in Drafts : Reached(d) => Reached(d)'
    <2>. DEFINE n == server[job[w]][kind[w]]
    <2>1. job[w] \in Drafts /\ kind[w] \in Kinds
      BY <1>2 DEF ServerCreates, TypeOK
    <2>2. OneMore(n) >= 1
      BY DEF OneMore
    <2>3. server' = [server EXCEPT ![job[w]] = [@ EXCEPT ![kind[w]] = OneMore(n)]]
      BY <1>2 DEF ServerCreates
    <2>. HIDE DEF n
    <2>. QED
      BY <2>1, <2>2, <2>3 DEF Reached, TypeOK, Kinds
  <1>3. CASE SubmitOnline
    <2>. DEFINE n == server[form.draft].opty
    <2>1. form.draft \in Drafts
      BY <1>3 DEF SubmitOnline, TypeOK
    <2>2. OneMore(n) >= 1
      BY DEF OneMore
    <2>3. server' = [server EXCEPT ![form.draft] = [@ EXCEPT !["opty"] = OneMore(n)]]
      BY <1>3 DEF SubmitOnline
    <2>. HIDE DEF n
    <2>. QED
      BY <2>1, <2>2, <2>3 DEF Reached, TypeOK, Kinds
  <1>4. \/ UNCHANGED server
        \/ \E w \in Workers : ServerCreates(w)
        \/ SubmitOnline
    <2>1. CASE Network
      BY <2>1 DEF Network, NetworkAvailable, NetworkLost
    <2>2. CASE Manager
      BY <2>2 DEF Manager, ReadDrafts, QueueOperation
    <2>3. ASSUME NEW w \in Workers, Operation(w) PROVE UNCHANGED server
      BY <2>3 DEF Operation, StartOperation, CheckStatus, ClaimDraft, ReadForNotification,
                  NotifyRejected, CheckRecord
    <2>4. ASSUME NEW w \in Workers, Answer(w) \/ AnswerSwallowed(w) PROVE UNCHANGED server
      BY <2>4 DEF Answer, LinkCreated, OptyCreated, OptyCreatedWithoutContact, CreateFailed,
                  ActivityAnswered, AnswerSwallowed, Launch
    <2>5. CASE Killed \/ Terminated
      BY <2>5 DEF Killed, Terminated, Launch
    <2>6. CASE DraftsScreen
      BY <2>6 DEF DraftsScreen, OpenDrafts, CloseDrafts, AskDelete, ConfirmDelete, CancelDelete, Launch
    <2>7. CASE FormScreen /\ ~SubmitOnline
      BY <2>7 DEF FormScreen, NewForm, OpenDraft, CloseForm, SaveAsDraft, SubmitOffline, QueueDraft
    <2>8. CASE PinScreenShown
      BY <2>8 DEF PinScreenShown
    <2>9. CASE UNCHANGED vars
      BY <2>9 DEF vars
    <2>10. CASE Session
      BY <2>10 DEF Session, Login, Logout
    <2>. QED
      BY <2>1, <2>2, <2>3, <2>4, <2>5, <2>6, <2>7, <2>8, <2>9, <2>10 DEF Next
  <1>. QED
    BY <1>1, <1>2, <1>3, <1>4

\* Moving one operation on.
LEMMA GotoEffect ==
  ASSUME TypeOK, NEW w \in Workers, NEW s, NEW k, Goto(w, s, k)
  PROVE  \A v \in Workers : /\ step'[v] = IF v = w THEN s ELSE step[v]
                            /\ kind'[v] = IF v = w THEN k ELSE kind[v]
  BY DEF Goto, TypeOK

\* An operation that is moved to a step that needs no knowledge leaves the others
\* what they know.
LEMMA GotoKnows ==
  ASSUME DeliveryInv, [Next]_vars, NEW w \in Workers, NEW s, NEW k, Goto(w, s, k),
         s \notin {"made", "activity", "finishing"},
         \A v \in Workers \ {w} : job'[v] = job[v] /\ seen'[v] = seen[v]
  PROVE  \A v \in Workers : Knows(v)'
  <1>. TAKE v \in Workers
  <1>. TypeOK
    BY DEF DeliveryInv
  <1>1. CASE v = w
    BY <1>1, GotoEffect DEF Knows
  <1>2. CASE v # w
    <2>1. step'[v] = step[v] /\ kind'[v] = kind[v] /\ job'[v] = job[v] /\ seen'[v] = seen[v]
      BY <1>2, GotoEffect
    <2>2. step[v] # "idle" => job[v] \in Drafts
      BY DEF TypeOK
    <2>. QED
      BY <2>1, <2>2, ServerGrows DEF Knows, DeliveryInv
  <1>. QED
    BY <1>1, <1>2

LEMMA KnowsStep ==
  ASSUME DeliveryInv, [Next]_vars
  PROVE  \A w \in Workers : Knows(w)'
  <1>. TypeOK
    BY DEF DeliveryInv
  <1>1. CASE UNCHANGED <<step, job, kind, seen>>
    <2>. TAKE w \in Workers
    <2>1. step[w] # "idle" => job[w] \in Drafts
      BY DEF TypeOK
    <2>. QED
      BY <1>1, <2>1, ServerGrows DEF Knows, DeliveryInv
  <1>2. ASSUME NEW w \in Workers, Operation(w) PROVE \A v \in Workers : Knows(v)'
    <2>1. CASE StartOperation(w)
      <3>1. Goto(w, "started", "contact") /\ \A v \in Workers \ {w} : job'[v] = job[v] /\ seen'[v] = seen[v]
        BY <2>1 DEF StartOperation, TypeOK
      <3>. QED
        BY <3>1, GotoKnows
    <2>2. CASE CheckStatus(w) \/ ClaimDraft(w) \/ CheckRecord(w)
      <3>1. /\ UNCHANGED <<job, seen>>
            /\ \E s \in {"claiming", "rejecting", "next", "sent", "stuck"}, k \in Kinds \cup {After(kind[w])} :
                 Goto(w, s, k)
        BY <2>2 DEF CheckStatus, ClaimDraft, CheckRecord, TypeOK, Kinds
      <3>. QED
        BY <3>1, GotoKnows
    <2>3. CASE NotifyRejected(w)
      <3>1. Goto(w, "idle", "contact") /\ \A v \in Workers \ {w} : job'[v] = job[v] /\ seen'[v] = seen[v]
        BY <2>3 DEF NotifyRejected, Retire, TypeOK
      <3>. QED
        BY <3>1, GotoKnows
    <2>4. CASE ReadForNotification(w)
      <3>. TAKE v \in Workers
      <3>1. /\ Goto(w, "finishing", "contact")
            /\ UNCHANGED <<mem, server, job>>
            /\ seen' = [seen EXCEPT ![w] = mem[job[w]].status]
            /\ job[w] \in Drafts
        BY <2>4 DEF ReadForNotification, TypeOK
      <3>2. CASE v = w
        BY <3>1, <3>2, GotoEffect DEF Knows, DeliveryInv, DeliveredExists, Reached, TypeOK
      <3>3. CASE v # w
        BY <3>1, <3>3, GotoEffect DEF Knows, DeliveryInv, Reached, TypeOK
      <3>. QED
        BY <3>2, <3>3
    <2>. QED
      BY <1>2, <2>1, <2>2, <2>3, <2>4 DEF Operation
  <1>3. ASSUME NEW w \in Workers, ServerCreates(w) PROVE \A v \in Workers : Knows(v)'
    <2>. TAKE v \in Workers
    <2>1. /\ Goto(w, "made", kind[w])
          /\ UNCHANGED <<job, seen>>
          /\ job[w] \in Drafts /\ kind[w] \in Kinds
      BY <1>3 DEF ServerCreates, TypeOK
    <2>2. CASE v = w
      <3>1. kind[w] = "opty" => Reached(job[w])'
        BY <1>3, <2>1 DEF ServerCreates, Reached, OneMore, TypeOK, Kinds
      <3>. QED
        BY <2>1, <2>2, <3>1, GotoEffect DEF Knows, Reached
    <2>3. CASE v # w
      <3>1. step[v] # "idle" => job[v] \in Drafts
        BY DEF TypeOK
      <3>. QED
        BY <2>1, <2>3, <3>1, GotoEffect, ServerGrows DEF Knows, DeliveryInv, Reached
    <2>. QED
      BY <2>2, <2>3
  <1>4. ASSUME NEW w \in Workers, Answer(w) \/ AnswerSwallowed(w), ~OptyCreatedWithoutContact(w)
        PROVE  \A v \in Workers : Knows(v)'
    <2>1. CASE LinkCreated(w) \/ AnswerSwallowed(w)
      <3>1. /\ UNCHANGED <<job, seen>>
            /\ \E s \in {"sent", "stuck"}, k \in Kinds : Goto(w, s, k)
        BY <2>1 DEF LinkCreated, AnswerSwallowed, ContinueAfter, TypeOK, Kinds
      <3>. QED
        BY <3>1, GotoKnows
    <2>2. CASE CreateFailed(w) \/ ActivityAnswered(w)
      <3>1. Goto(w, "idle", "contact") /\ \A v \in Workers \ {w} : job'[v] = job[v] /\ seen'[v] = seen[v]
        BY <2>2 DEF CreateFailed, ActivityAnswered, Retire, TypeOK
      <3>. QED
        BY <3>1, GotoKnows
    <2>3. CASE OptyCreated(w)
      <3>. TAKE v \in Workers
      <3>1. /\ Goto(w, "activity", "opty")
            /\ UNCHANGED <<server, job, seen>>
            /\ step[w] = "made" /\ kind[w] = "opty"
        BY <2>3 DEF OptyCreated
      <3>2. Knows(w) /\ Knows(v)
        BY DEF DeliveryInv
      <3>. QED
        BY <3>1, <3>2, GotoEffect DEF Knows, Reached
    <2>. QED
      BY <1>4, <2>1, <2>2, <2>3 DEF Answer
  <1>5. ASSUME NEW m, NEW a, Launch(m, a) PROVE \A v \in Workers : Knows(v)'
    BY <1>5 DEF Launch, Knows
  <1>6. CASE FormScreen \/ Network \/ Manager \/ PinScreenShown \/ Session \/ UNCHANGED vars
    <2>1. UNCHANGED <<step, job, kind, seen>>
      BY <1>6 DEF FormScreen, NewForm, OpenDraft, CloseForm, SaveAsDraft, SubmitOffline, QueueDraft,
                  SubmitOnline, Network, NetworkAvailable, NetworkLost, Manager, ReadDrafts,
                  QueueOperation, PinScreenShown, Session, Login, Logout, vars
    <2>. QED
      BY <2>1, <1>1
  <1>7. CASE DraftsScreen
    <2>1. UNCHANGED <<step, job, kind, seen>> \/ Launch(store, {})
      BY <1>7 DEF DraftsScreen, OpenDrafts, CloseDrafts, AskDelete, ConfirmDelete, CancelDelete
    <2>. QED
      BY <2>1, <1>1, <1>5
  <1>8. CASE Killed \/ Terminated
    BY <1>5, <1>8 DEF Killed, Terminated
  <1>9. ASSUME NEW w \in Workers, OptyCreatedWithoutContact(w) PROVE \A v \in Workers : Knows(v)'
    BY <1>5, <1>9 DEF OptyCreatedWithoutContact
  <1>. QED
    BY <1>2, <1>3, <1>4, <1>6, <1>7, <1>8, <1>9 DEF Next

-----------------------------------------------------------------------------
(* Every way in which a step changes what the device holds.                *)

\* An unsaved status: what an operation writes, or what it announces.
StatusWritten(w) == \E s \in Status :
    /\ SetStatus(job[w], s)
    /\ UNCHANGED store
    /\ \/ s \in {"Syncing", "SyncFailed"}
       \/ step[w] = "finishing" /\ s = seen[w]

\* A deletion because the draft was delivered.
DeliveredDeleted(w) ==
    /\ Delete(job[w], "Synced")
    /\ \/ step[w] = "activity"
       \/ step[w] = "finishing" /\ seen[w] = "SyncSuccess"

\* A launch, on what the database holds or on what was saved into it last.
Launched(m) ==
    /\ mem' = Reset(m)
    /\ store' = Reset(m)
    /\ \/ m = mem
       \/ m = store
       \/ \E w \in Workers : step[w] = "made" /\ kind[w] = "opty" /\ m = Registered(job[w])

FormSaved == \E s \in {"SavedAsDraft", "QueuedToSync"} :
    /\ WriteDraft(s)
    /\ UNCHANGED server

\* Each step of the program leaves the device alone or is one of these.
LEMMA DeviceStep ==
  ASSUME TypeOK, [Next]_vars, ~UNCHANGED <<mem, store>>
  PROVE  \/ \E w \in Workers : /\ step[w] # "idle"
                               /\ \/ StatusWritten(w) \/ DeliveredDeleted(w)
                                  \/ LinkCreated(w) \/ OptyCreated(w)
         \/ \E d \in Drafts : Delete(d, "Discarded")
         \/ \E m : Launched(m)
         \/ FormSaved
         \/ SubmitOnline
         \/ UNCHANGED mem /\ store' = mem'
  <1>1. CASE Network \/ Manager \/ PinScreenShown \/ UNCHANGED vars
    BY <1>1 DEF Network, NetworkAvailable, NetworkLost, Manager, ReadDrafts, QueueOperation,
                PinScreenShown, vars
  <1>2. ASSUME NEW w \in Workers, Operation(w)
        PROVE  step[w] # "idle" /\ (StatusWritten(w) \/ DeliveredDeleted(w))
    <2>1. ClaimDraft(w) \/ NotifyRejected(w)
      BY <1>2 DEF Operation, StartOperation, CheckStatus, ReadForNotification, CheckRecord
    <2>2. CASE ClaimDraft(w)
      BY <2>2 DEF ClaimDraft, StatusWritten, Status, DraftStatus
    <2>3. CASE NotifyRejected(w)
      <3>1. step[w] = "finishing" /\ seen[w] \in Status /\ Observe(job[w], seen[w])
        BY <2>3 DEF NotifyRejected, TypeOK
      <3>. QED
        BY <3>1 DEF Observe, StatusWritten, DeliveredDeleted
    <2>. QED
      BY <2>1, <2>2, <2>3
  <1>3. ASSUME NEW w \in Workers, Answer(w), ~OptyCreatedWithoutContact(w)
        PROVE  /\ step[w] # "idle"
               /\ \/ StatusWritten(w) \/ DeliveredDeleted(w)
                  \/ LinkCreated(w) \/ OptyCreated(w)
    <2>1. CASE LinkCreated(w) \/ OptyCreated(w)
      BY <2>1 DEF LinkCreated, OptyCreated
    <2>2. CASE CreateFailed(w)
      BY <2>2 DEF CreateFailed, FailedStatus, StatusWritten, Status, DraftStatus
    <2>3. CASE ActivityAnswered(w)
      BY <2>3 DEF ActivityAnswered, DeliveredDeleted
    <2>. QED
      BY <1>3, <2>1, <2>2, <2>3 DEF Answer
  <1>4. ASSUME NEW w \in Workers, ServerCreates(w) \/ AnswerSwallowed(w) PROVE FALSE
    BY <1>4 DEF ServerCreates, AnswerSwallowed
  <1>5. ASSUME NEW w \in Workers, OptyCreatedWithoutContact(w) PROVE \E m : Launched(m)
    BY <1>5 DEF OptyCreatedWithoutContact, Launch, Launched
  <1>6. CASE Killed \/ Terminated
    BY <1>6 DEF Killed, Terminated, Launch, Launched
  <1>7. CASE DraftsScreen
    <2>1. ConfirmDelete
      BY <1>7 DEF DraftsScreen, OpenDrafts, CloseDrafts, AskDelete, CancelDelete
    <2>2. (\E d \in listed : Delete(d, "Discarded")) \/ Launch(store, {})
      BY <2>1 DEF ConfirmDelete
    <2>. QED
      BY <2>2 DEF Launch, Launched, TypeOK
  <1>8. CASE FormScreen
    <2>1. SaveAsDraft \/ QueueDraft \/ SubmitOnline
      BY <1>8 DEF FormScreen, NewForm, OpenDraft, CloseForm, SubmitOffline
    <2>. QED
      BY <2>1 DEF SaveAsDraft, QueueDraft, FormSaved
  <1>9. CASE Session
    BY <1>9 DEF Session, Login, Logout, SaveAll
  <1>. QED
    BY <1>1, <1>2, <1>3, <1>4, <1>5, <1>6, <1>7, <1>8, <1>9 DEF Next

\* The form's links are links.
LEMMA FormLinks == ASSUME TypeOK PROVE form.contact \in Link /\ form.account \in Link
  BY DEF TypeOK, NoForm, Link

-----------------------------------------------------------------------------
(* What counts as delivered is on the server.                              *)

LEMMA HonestStep ==
  ASSUME DeliveryInv, [Next]_vars
  PROVE  Honest(mem)' /\ Honest(store)'
  <1>. TypeOK /\ mem \in Table /\ store \in Table
    BY DEF DeliveryInv, TypeOK, Table
  <1>. Honest(mem) /\ Honest(store)
    BY DeliveredIsHonest DEF DeliveryInv
  <1>. \A d \in Drafts : Reached(d) => Reached(d)'
    BY ServerGrows
  <1>. "opty" \in Kinds
    BY DEF Kinds
  <1>1. CASE UNCHANGED <<mem, store>>
    BY <1>1 DEF Honest
  <1>2. ASSUME NEW w \in Workers, step[w] # "idle", StatusWritten(w)
        PROVE  Honest(mem)' /\ Honest(store)'
    <2>1. PICK s \in Status : /\ SetStatus(job[w], s)
                              /\ UNCHANGED store
                              /\ \/ s \in {"Syncing", "SyncFailed"}
                                 \/ step[w] = "finishing" /\ s = seen[w]
      BY <1>2 DEF StatusWritten
    <2>2. s \in {"SyncSuccess", "Synced"} => Reached(job[w])
      BY <2>1 DEF DeliveryInv, Knows
    <2>3. \A e \in Drafts :
            /\ mem'[e].status = IF e = job[w] /\ Live(e) THEN s ELSE mem[e].status
            /\ mem'[e].opty = mem[e].opty
      BY <2>1, SetStatusEffect
    <2>. QED
      BY <2>1, <2>2, <2>3 DEF Honest
  <1>3. ASSUME NEW w \in Workers, step[w] # "idle", DeliveredDeleted(w)
        PROVE  Honest(mem)' /\ Honest(store)'
    <2>1. Reached(job[w])
      BY <1>3 DEF DeliveredDeleted, DeliveryInv, Knows
    <2>2. /\ store' = mem'
          /\ \A e \in Drafts :
               mem'[e] = IF e = job[w] /\ Live(e) THEN Gone("Synced") ELSE mem[e]
      BY <1>3, DeleteEffect DEF DeliveredDeleted, Status, GoneStatus
    <2>. QED
      BY <2>1, <2>2 DEF Honest, Gone
  <1>4. ASSUME NEW d \in Drafts, Delete(d, "Discarded")
        PROVE  Honest(mem)' /\ Honest(store)'
    <2>1. /\ store' = mem'
          /\ \A e \in Drafts :
               mem'[e] = IF e = d /\ Live(e) THEN Gone("Discarded") ELSE mem[e]
      BY <1>4, DeleteEffect DEF Status, GoneStatus
    <2>. QED
      BY <2>1 DEF Honest, Gone
  <1>5. ASSUME NEW w \in Workers, LinkCreated(w)
        PROVE  Honest(mem)' /\ Honest(store)'
    <2>1. kind[w] \in Kinds /\ kind[w] # "opty"
      BY <1>5 DEF LinkCreated, TypeOK
    <2>2. /\ store' = mem'
          /\ \A e \in Drafts : mem'[e].status = mem[e].status /\ mem'[e].opty = mem[e].opty
      BY <1>5, <2>1, LinkCreatedEffect
    <2>. QED
      BY <2>2 DEF Honest
  <1>6. ASSUME NEW w \in Workers, step[w] = "made", kind[w] = "opty"
        PROVE  \A e \in Drafts :
                 LET r == Registered(job[w])[e]
                 IN  r.status \in {"SyncSuccess", "Synced"} \/ r.opty = "id" => Reached(e)
    <2>1. Reached(job[w])
      BY <1>6 DEF DeliveryInv, Knows
    <2>2. \A e \in Drafts : e # job[w] \/ ~Live(e) => Registered(job[w])[e] = mem[e]
      BY RegisteredEffect
    <2>. QED
      BY <2>1, <2>2 DEF Honest
  <1>7. ASSUME NEW w \in Workers, OptyCreated(w)
        PROVE  Honest(mem)' /\ Honest(store)'
    <2>1. step[w] = "made" /\ kind[w] = "opty" /\ mem' = Registered(job[w]) /\ store' = mem'
      BY <1>7 DEF OptyCreated, SaveAll
    <2>. QED
      BY <1>6, <2>1 DEF Honest
  <1>8. ASSUME NEW m, Launched(m)
        PROVE  Honest(mem)' /\ Honest(store)'
    <2>1. m \in Table
      BY <1>8, RegisteredEffect DEF Launched
    <2>2. \A e \in Drafts :
            m[e].status \in {"SyncSuccess", "Synced"} \/ m[e].opty = "id" => Reached(e)
      BY <1>6, <1>8 DEF Launched, Honest
    <2>3. \A e \in Drafts :
            /\ Reset(m)[e].status = IF m[e].status = "Syncing" THEN "QueuedToSync" ELSE m[e].status
            /\ Reset(m)[e].opty = m[e].opty
      BY <2>1, ResetEffect
    <2>. QED
      BY <1>8, <2>2, <2>3 DEF Launched, Honest
  <1>9. CASE FormSaved
    <2>1. PICK s \in {"SavedAsDraft", "QueuedToSync"} : WriteDraft(s)
      BY <1>9 DEF FormSaved
    <2>2. /\ store' = mem'
          /\ \A e \in Drafts :
              /\ e # form.draft \/ mem[e].status \in {"Synced", "Discarded"} => mem'[e] = mem[e]
              /\ e = form.draft /\ Live(e) => mem'[e].status = s /\ mem'[e].opty = mem[e].opty
              /\ e = form.draft /\ mem[e].status = "Unborn"
                   => mem'[e].status = s /\ mem'[e].opty = "new"
      BY <2>1, FormLinks, WriteDraftEffect DEF DraftStatus
    <2>3. \A e \in Drafts : Live(e) \/ mem[e].status \in {"Unborn", "Synced", "Discarded"}
      BY DEF Live, Table, DraftRecord, Status, GoneStatus
    <2>. QED
      BY <2>2, <2>3 DEF Honest
  <1>10. CASE SubmitOnline
    <2>1. PICK d \in Drafts : d = form.draft
      BY <1>10 DEF SubmitOnline, TypeOK
    <2>. DEFINE n == server[d].opty
                r == IF Live(d) \/ mem[d].status = "Unborn" THEN Gone("Synced") ELSE mem[d]
    <2>2. Reached(d)'
      <3>1. OneMore(n) >= 1
        BY DEF OneMore
      <3>2. server' = [server EXCEPT ![d] = [@ EXCEPT !["opty"] = OneMore(n)]]
        BY <1>10, <2>1 DEF SubmitOnline
      <3>. HIDE DEF n
      <3>. QED
        BY <2>1, <3>1, <3>2 DEF Reached, TypeOK, Kinds
    <2>3. CASE store' = mem' /\ mem' = [mem EXCEPT ![d] = r]
      <3>1. \A e \in Drafts : mem'[e] = IF e = d THEN r ELSE mem[e]
        BY <2>1, <2>3 DEF Table
      <3>. QED
        BY <2>2, <2>3, <3>1 DEF Honest, Gone
    <2>. QED
      BY <1>1, <1>10, <2>1, <2>3 DEF SubmitOnline, SaveAll
  <1>11. CASE UNCHANGED mem /\ store' = mem'
    BY <1>11 DEF Honest
  <1>. QED
    BY <1>1, <1>2, <1>3, <1>4, <1>5, <1>7, <1>8, <1>9, <1>10, <1>11, DeviceStep

LEMMA DeliveryInit == ASSUME Init PROVE DeliveryInv
  <1>1. DeliveredExists /\ \A w \in Workers : Knows(w)
    BY DEF Init, DeliveredExists, Knows, Gone
  <1>. QED
    BY <1>1, InitType DEF DeliveryInv

LEMMA DeliveryKept ==
  ASSUME DeliveryInv, [Next]_vars
  PROVE  DeliveryInv'
  <1>1. TypeOK'
    BY TypeStep DEF DeliveryInv
  <1>2. \A w \in Workers : Knows(w)'
    BY KnowsStep
  <1>3. DeliveredExists'
    BY HonestStep DEF DeliveredExists, Honest, Reached
  <1>. QED
    BY <1>1, <1>2, <1>3 DEF DeliveryInv

\* Through every failure answer, stale notification, overlapping operation and
\* relaunch, a draft that counts as delivered has its opportunity on the server.
THEOREM DeliveryCorrect == Spec => []DeliveredExists
  <1>1. Init => DeliveryInv
    BY DeliveryInit
  <1>2. DeliveryInv /\ [Next]_vars => DeliveryInv'
    BY DeliveryKept
  <1>3. DeliveryInv => DeliveredExists
    BY DEF DeliveryInv
  <1>. QED
    BY <1>1, <1>2, <1>3, PTL DEF Spec

-----------------------------------------------------------------------------
(* What the server has answered survives the process.                      *)

\* Whatever saves makes memory and database agree, and what does not save touches
\* no identifier.
LEMMA DurableStep ==
  ASSUME TypeOK, IdsAreDurable, [Next]_vars
  PROVE  IdsAreDurable'
  <1>. mem \in Table /\ store \in Table
    BY DEF TypeOK, Table
  <1>1. CASE UNCHANGED <<mem, store>>
    BY <1>1 DEF IdsAreDurable
  <1>2. CASE store' = mem'
    BY <1>2 DEF IdsAreDurable
  <1>3. ASSUME NEW w \in Workers, StatusWritten(w)
        PROVE  IdsAreDurable'
    <2>1. PICK s \in Status : SetStatus(job[w], s) /\ UNCHANGED store
      BY <1>3 DEF StatusWritten
    <2>2. \A e \in Drafts : \A k \in Kinds : mem'[e][k] = mem[e][k]
      BY <2>1, SetStatusEffect
    <2>. QED
      BY <2>1, <2>2 DEF IdsAreDurable
  <1>4. ASSUME NEW w \in Workers, DeliveredDeleted(w) \/ LinkCreated(w) \/ OptyCreated(w)
        PROVE  store' = mem'
    BY <1>4 DEF DeliveredDeleted, LinkCreated, OptyCreated, Delete, SaveAll
  <1>5. ASSUME NEW d \in Drafts, Delete(d, "Discarded") PROVE store' = mem'
    BY <1>5 DEF Delete, SaveAll
  <1>6. ASSUME NEW m, Launched(m) PROVE store' = mem'
    BY <1>6 DEF Launched
  <1>7. CASE FormSaved
    BY <1>2, <1>7 DEF FormSaved, WriteDraft, SaveAll
  <1>8. CASE SubmitOnline
    BY <1>1, <1>2, <1>8 DEF SubmitOnline, SaveAll
  <1>. QED
    BY <1>1, <1>2, <1>3, <1>4, <1>5, <1>6, <1>7, <1>8, DeviceStep

\* No relaunch makes the app forget an identifier the server gave it, and so
\* create the same record again.
THEOREM DurabilityCorrect == Spec => []IdsAreDurable
  <1>1. Init => TypeOK /\ IdsAreDurable
    BY InitType DEF Init, IdsAreDurable
  <1>2. TypeOK /\ IdsAreDurable /\ [Next]_vars => (TypeOK /\ IdsAreDurable)'
    BY TypeStep, DurableStep
  <1>. QED
    BY <1>1, <1>2, PTL DEF Spec

-----------------------------------------------------------------------------
(* Every step is one of a few, and changes a draft in one of a few ways.   *)

Final == {"Synced", "Discarded"}

LEMMA Statuses == /\ Status = DraftStatus \cup Final \cup {"Unborn"}
                  /\ "Unborn" \notin DraftStatus \cup Final
                  /\ Final \cap DraftStatus = {}
                  /\ {"SavedAsDraft", "QueuedToSync", "Syncing", "SyncFailed", "SyncSuccess"} = DraftStatus
  BY DEF Status, GoneStatus, DraftStatus, Final

Works(w) == \/ Operation(w) \/ ServerCreates(w) \/ LinkCreated(w) \/ OptyCreated(w)
            \/ CreateFailed(w) \/ ActivityAnswered(w) \/ AnswerSwallowed(w)

\* The process dies and is launched again, on what was saved last.
Restart(m, a) ==
    /\ Launch(m, a)
    /\ \/ m = store /\ a = {}
       \/ m = mem /\ a = {}
       \/ \E w \in Workers : /\ a = {w} /\ step[w] = "made" /\ kind[w] = "opty"
                             /\ m = Registered(job[w])

Relaunched == /\ form' = NoForm /\ listed' = {} /\ opQueue' = <<>>
              /\ \A w \in Workers : step'[w] = "idle" /\ w \notin orphaned'
              /\ \A p \in Passes : batch'[p] = {}

\* A screen opens or closes, somebody logs in or out, or the network comes or goes.
ScreenStep ==
    /\ UNCHANGED <<mem, batch, opQueue, workers, server, lost, refetched, clashed>>
    /\ UNCHANGED store \/ store' = mem'
    /\ \/ UNCHANGED <<form, listed, reopened>>
       \/ form' = NoForm /\ listed' = {} /\ UNCHANGED reopened
       \/ CloseDrafts \/ OpenDrafts \/ CloseForm
       \/ (\E d \in Drafts : OpenDraft(d))
       \/ \E d \in Drafts, c \in Contacts, a \in Accounts : NewForm(d, c, a)

Discarded == \E d \in listed : /\ Delete(d, "Discarded")
                               /\ listed' = listed \ {d}
                               /\ UNCHANGED <<manager, workers, form, outside, history>>

LEMMA StepCases ==
  ASSUME TypeOK, [Next]_vars
  PROVE  \/ ScreenStep \/ Discarded
         \/ \E p \in Passes : ReadDrafts(p) \/ QueueOperation(p)
         \/ \E w \in Workers : Works(w)
         \/ \E m \in Table, a \in SUBSET Workers : Restart(m, a)
         \/ SaveAsDraft \/ QueueDraft \/ SubmitOnline
  <1>. mem \in Table /\ store \in Table
    BY DEF TypeOK, Table
  <1>1. CASE Network \/ PinScreenShown \/ UNCHANGED vars
    BY <1>1 DEF Network, NetworkAvailable, NetworkLost, PinScreenShown, vars, ScreenStep
  <1>2. CASE OpenDrafts \/ CloseDrafts \/ CancelDelete \/ \E d \in Drafts : AskDelete(d)
    BY <1>2 DEF OpenDrafts, CloseDrafts, CancelDelete, AskDelete, ScreenStep
  <1>3. CASE CloseForm \/ SubmitOffline
    BY <1>3 DEF CloseForm, SubmitOffline, ScreenStep
  <1>4. ASSUME NEW d \in Drafts, OpenDraft(d) PROVE ScreenStep
    BY <1>4 DEF OpenDraft, ScreenStep
  <1>5. ASSUME NEW d \in Drafts, NEW c \in Contacts, NEW a \in Accounts, NewForm(d, c, a) PROVE ScreenStep
    BY <1>5 DEF NewForm, ScreenStep
  <1>6. CASE ConfirmDelete
    <2>1. Launch(store, {}) => Restart(store, {})
      BY DEF Restart
    <2>. QED
      BY <1>6, <2>1 DEF ConfirmDelete, Discarded
  <1>7. CASE Killed \/ Terminated
    BY <1>7 DEF Killed, Terminated, Restart
  <1>8. ASSUME NEW w \in Workers, OptyCreatedWithoutContact(w)
        PROVE  \E m \in Table, a \in SUBSET Workers : Restart(m, a)
    <2>. DEFINE m == Registered(job[w])
    <2>1. step[w] = "made" /\ kind[w] = "opty" /\ Launch(m, {w})
      BY <1>8 DEF OptyCreatedWithoutContact
    <2>2. m \in Table
      BY RegisteredEffect
    <2>. HIDE DEF m
    <2>3. Restart(m, {w})
      BY <2>1 DEF Restart, m
    <2>. QED
      BY <2>2, <2>3
  <1>9. CASE Session
    BY <1>9 DEF Session, Login, Logout, SaveAll, ScreenStep
  <1>. QED
    BY <1>1, <1>2, <1>3, <1>4, <1>5, <1>6, <1>7, <1>8, <1>9 DEF Next, Manager, Answer, Works, DraftsScreen, FormScreen

\* A launch: the slots, queues and screens are empty.
LEMMA RestartEffect ==
  ASSUME TypeOK, NEW m \in Table, NEW a, Restart(m, a)
  PROVE  /\ Relaunched
         /\ mem' = Reset(m) /\ store' = Reset(m)
         /\ UNCHANGED <<server, refetched, clashed, reopened>>
         /\ \A d \in Drafts : \A k \in Kinds :
              k \in lost'[d] <=> \/ k \in lost[d]
                                 \/ \E w \in Workers \ a : step[w] = "made" /\ job[w] = d /\ kind[w] = k
  BY DEF Restart, Launch, Relaunched, TypeOK

\* Memory and database differ in the status of a draft that both have, if at all.
Agreed(d) ==
    /\ \A k \in Kinds : store[d][k] = mem[d][k]
    /\ store[d].status = mem[d].status \/ {store[d].status, mem[d].status} \subseteq DraftStatus

\* An operation is about a draft that has been written.
Written ==
    /\ \A p \in Passes : \A d \in batch[p] : mem[d].status # "Unborn"
    /\ \A i \in 1..Len(opQueue) : mem[opQueue[i]].status # "Unborn"
    /\ \A w \in Workers : step[w] # "idle" => mem[job[w]].status # "Unborn"

\* What an operation will announce is the status of a draft, or the draft has gone.
Announces(w) == step[w] = "finishing" => seen[w] \in DraftStatus \/ ~Live(job[w])

\* A draft that is not there has no records.
Empty(d) == Live(d) \/ \A k \in Kinds : mem[d][k] = "none"

LifeInv == /\ TypeOK /\ Written
           /\ \A d \in Drafts : Agreed(d) /\ Empty(d)
           /\ \A w \in Workers : Announces(w)

\* A draft keeps its status, or its records.
SameStatus(d) == mem'[d].status = mem[d].status
SameLinks(d) == \A k \in Kinds : mem'[d][k] = mem[d][k]

\* An operation writes a status: it claims the draft, reports a failure, or announces a stale one.
Marked(d) ==
    /\ SameLinks(d) /\ Live(d) /\ mem'[d].status \in DraftStatus
    /\ \/ d \in clashed'
       \/ \E w \in Workers : job[w] = d /\ \/ ClaimDraft(w) /\ mem'[d].status = "Syncing"
                                           \/ CreateFailed(w) /\ mem'[d].status = "SyncFailed"

\* The draft is deleted: from the Drafts screen, by its form, or by its operation.
Removed(d) ==
    /\ mem'[d].status \in Final /\ \A k \in Kinds : mem'[d][k] = "none"
    /\ \/ d \in listed /\ listed' = listed \ {d}
       \/ form.draft = d /\ form' = NoForm /\ listed' = listed
       \/ \E w \in Workers : ActivityAnswered(w) /\ job[w] = d

\* An identifier arrives.
Linked(d) ==
    \E w \in Workers : /\ LinkCreated(w) /\ job[w] = d /\ Live(d)
                       /\ SameStatus(d) /\ mem'[d][kind[w]] = "id"
                       /\ \A k \in Kinds : k # kind[w] => mem'[d][k] = mem[d][k]

Delivered(d) ==
    \E w \in Workers : /\ OptyCreated(w) /\ job[w] = d /\ Live(d)
                       /\ mem'[d].status = "SyncSuccess" /\ mem'[d].opty = "id"
                       /\ \A k \in Kinds : k # "opty" => mem'[d][k] = mem[d][k]

\* The form writes it.
Edited(d) ==
    /\ form.draft = d
    /\ Live(d) \/ mem[d].status = "Unborn"
    /\ mem'[d].contact = form.contact /\ mem'[d].account = form.account
    /\ mem'[d].opty = IF Live(d) THEN mem[d].opty ELSE "new"
    /\ \/ mem'[d].status = "SavedAsDraft" /\ form' = form
       \/ mem'[d].status = "QueuedToSync" /\ form' = NoForm

\* It is read from the database, after the launch code's reset.
Reread(d) ==
    /\ Relaunched
    /\ \/ /\ SameLinks(d)
          /\ \E s \in {mem[d].status, store[d].status} :
                mem'[d].status = IF s = "Syncing" THEN "QueuedToSync" ELSE s
       \/ /\ mem'[d].status = "SyncSuccess" /\ mem'[d].opty = "id"
          /\ \A k \in Kinds : k # "opty" => mem'[d][k] = mem[d][k]
          /\ Live(d)
          /\ \E w \in Workers : step[w] = "made" /\ kind[w] = "opty" /\ job[w] = d

Change(d) == \/ SameStatus(d) /\ SameLinks(d)
             \/ Marked(d) \/ Removed(d) \/ Linked(d) \/ Delivered(d) \/ Edited(d) \/ Reread(d)

LEMMA DeletedChange ==
  ASSUME mem \in Table, NEW d, NEW s \in Final, Delete(d, s), NEW e \in Drafts,
         \/ d \in listed /\ listed' = listed \ {d}
         \/ \E w \in Workers : ActivityAnswered(w) /\ job[w] = d
  PROVE  Change(e)
  <1>1. s \in Status
    BY Statuses
  <1>2. mem'[e] = IF e = d /\ Live(e) THEN Gone(s) ELSE mem[e]
    BY <1>1, DeleteEffect
  <1>3. Gone(s).status = s /\ \A k \in Kinds : Gone(s)[k] = "none"
    BY <1>1, GoneType
  <1>4. CASE e = d /\ Live(e)
    BY <1>2, <1>3, <1>4 DEF Change, Removed
  <1>5. CASE ~(e = d /\ Live(e))
    BY <1>2, <1>5 DEF Change, SameStatus, SameLinks
  <1>. QED
    BY <1>4, <1>5

LEMMA WrittenChange ==
  ASSUME TypeOK, NEW s \in DraftStatus, WriteDraft(s), NEW d \in Drafts,
         \/ s = "SavedAsDraft" /\ form' = form
         \/ s = "QueuedToSync" /\ form' = NoForm
  PROVE  Change(d)
  <1>. mem \in Table
    BY DEF TypeOK, Table
  <1>1. mem[d].status \in Status
    BY DEF Table, DraftRecord
  <1>2. CASE form.draft = d /\ (Live(d) \/ mem[d].status = "Unborn")
    <2>0. mem[d].status = "Unborn" => ~Live(d)
      BY DEF Live, DraftStatus
    <2>1. /\ mem'[d].status = s /\ mem'[d].contact = form.contact
          /\ mem'[d].account = form.account
          /\ mem'[d].opty = IF Live(d) THEN mem[d].opty ELSE "new"
      BY <1>2, <2>0, WriteDraftEffect, FormLinks
    <2>. QED
      BY <1>2, <2>1 DEF Change, Edited
  <1>3. CASE ~(form.draft = d /\ (Live(d) \/ mem[d].status = "Unborn"))
    <2>1. mem'[d] = mem[d]
      BY <1>1, <1>3, WriteDraftEffect, FormLinks, Statuses DEF Live, Final
    <2>. QED
      BY <2>1 DEF Change, SameStatus, SameLinks
  <1>. QED
    BY <1>2, <1>3

LEMMA RestartChange ==
  ASSUME LifeInv, [Next]_vars, NEW m \in Table, NEW a, Restart(m, a), NEW d \in Drafts
  PROVE  Reread(d)
  <1>. TypeOK /\ mem \in Table /\ store \in Table /\ Agreed(d)
    BY DEF LifeInv, TypeOK, Table
  <1>1. Relaunched /\ mem' = Reset(m)
    BY RestartEffect
  <1>2. /\ mem'[d].status = IF m[d].status = "Syncing" THEN "QueuedToSync" ELSE m[d].status
        /\ \A k \in Kinds : mem'[d][k] = m[d][k]
    BY <1>1, ResetEffect
  <1>3. CASE m = store \/ m = mem
    BY <1>1, <1>2, <1>3 DEF Agreed, Reread, SameLinks
  <1>4. ASSUME NEW w \in Workers, step[w] = "made", kind[w] = "opty", m = Registered(job[w])
        PROVE  Reread(d)
    <2>1. CASE d # job[w] \/ ~Live(d)
      <3>1. m[d] = mem[d]
        BY <1>4, <2>1, RegisteredEffect
      <3>. QED
        BY <1>1, <1>2, <3>1 DEF Reread, SameLinks
    <2>2. CASE d = job[w] /\ Live(d)
      <3>1. /\ m[d].status = "SyncSuccess" /\ m[d].opty = "id"
            /\ m[d].contact = mem[d].contact /\ m[d].account = mem[d].account
        BY <1>4, <2>2, RegisteredEffect
      <3>. QED
        <4>1. /\ mem'[d].status = "SyncSuccess" /\ mem'[d].opty = "id"
              /\ \A k \in Kinds : k # "opty" => mem'[d][k] = mem[d][k]
          BY <1>2, <3>1 DEF Kinds
        <4>. QED
          BY <1>1, <1>4, <2>2, <4>1 DEF Reread
    <2>. QED
      BY <2>1, <2>2
  <1>. QED
    BY <1>3, <1>4 DEF Restart

\* A step changes each draft in one of these ways.
LEMMA DraftCause ==
  ASSUME LifeInv, [Next]_vars, NEW d \in Drafts
  PROVE  Change(d)
  <1>. TypeOK /\ mem \in Table /\ store \in Table
    BY DEF LifeInv, TypeOK, Table
  <1>. USE Statuses
  <1>1. ASSUME UNCHANGED mem PROVE Change(d)
    BY <1>1 DEF Change, SameStatus, SameLinks
  <1>2. CASE ScreenStep \/ \E p \in Passes : ReadDrafts(p) \/ QueueOperation(p)
    BY <1>1, <1>2 DEF ScreenStep, ReadDrafts, QueueOperation
  <1>3. CASE Discarded
    <2>1. PICK e \in listed : Delete(e, "Discarded") /\ listed' = listed \ {e}
      BY <1>3 DEF Discarded
    <2>. QED
      BY <2>1, DeletedChange DEF Final
  <1>4. ASSUME NEW w \in Workers, Works(w)
        PROVE  Change(d)
    <2>1. CASE \/ StartOperation(w) \/ CheckStatus(w) \/ ReadForNotification(w) \/ CheckRecord(w)
               \/ ServerCreates(w) \/ AnswerSwallowed(w)
      BY <1>1, <2>1 DEF StartOperation, CheckStatus, ReadForNotification, CheckRecord,
                        ServerCreates, AnswerSwallowed
    <2>2. ASSUME NEW s \in DraftStatus, SetStatus(job[w], s),
                 \/ job[w] \in clashed'
                 \/ ClaimDraft(w) /\ s = "Syncing"
                 \/ CreateFailed(w) /\ s = "SyncFailed"
                 \/ s = mem[job[w]].status
          PROVE  Change(d)
      <3>1. /\ mem'[d].status = IF d = job[w] /\ Live(d) THEN s ELSE mem[d].status
            /\ \A k \in Kinds : mem'[d][k] = mem[d][k]
        BY <2>2, SetStatusEffect
      <3>. QED
        BY <2>2, <3>1 DEF Change, Marked, SameStatus, SameLinks
    <2>3. CASE ClaimDraft(w)
      BY <2>2, <2>3 DEF ClaimDraft
    <2>4. CASE CreateFailed(w)
      BY <2>2, <2>4 DEF CreateFailed, FailedStatus
    <2>5. CASE NotifyRejected(w)
      <3>1. /\ Observe(job[w], seen[w]) /\ step[w] = "finishing" /\ seen[w] \in Status
            /\ job[w] \in listed /\ mem[job[w]].status # seen[w] => job[w] \in clashed'
            /\ seen[w] \in DraftStatus \/ ~Live(job[w])
        BY <2>5 DEF NotifyRejected, TypeOK, LifeInv, Announces
      <3>2. CASE UNCHANGED mem
        BY <1>1, <3>2
      <3>3. CASE job[w] \in listed /\ Delete(job[w], "Synced") /\ listed' = listed \ {job[w]}
        BY <3>3, DeletedChange DEF Final
      <3>4. CASE job[w] \in listed /\ SetStatus(job[w], seen[w]) /\ seen[w] \in DraftStatus
        BY <2>2, <3>1, <3>4
      <3>5. CASE job[w] \in listed /\ SetStatus(job[w], seen[w]) /\ ~Live(job[w])
        <4>1. /\ mem'[d].status = mem[d].status
              /\ \A k \in Kinds : mem'[d][k] = mem[d][k]
          BY <3>1, <3>5, SetStatusEffect
        <4>. QED
          BY <4>1 DEF Change, SameStatus, SameLinks
      <3>. QED
        BY <3>1, <3>2, <3>3, <3>4, <3>5 DEF Observe
    <2>6. CASE LinkCreated(w)
      <3>1. /\ mem'[d].status = mem[d].status
            /\ \A k \in Kinds :
                 mem'[d][k] = IF d = job[w] /\ k = kind[w] /\ Live(d) /\ w \notin orphaned
                              THEN "id" ELSE mem[d][k]
        BY <2>6, LinkCreatedEffect DEF TypeOK
      <3>2. CASE d = job[w] /\ Live(d) /\ w \notin orphaned
        <4>1. kind[w] \in Kinds
          BY DEF TypeOK
        <4>. QED
          BY <2>6, <3>1, <3>2, <4>1 DEF Change, Linked, SameStatus
      <3>3. CASE ~(d = job[w] /\ Live(d) /\ w \notin orphaned)
        BY <3>1, <3>3 DEF Change, SameStatus, SameLinks
      <3>. QED
        BY <3>2, <3>3
    <2>7. CASE OptyCreated(w)
      <3>1. mem' = Registered(job[w])
        BY <2>7 DEF OptyCreated
      <3>2. CASE d = job[w] /\ Live(d)
        <4>1. /\ mem'[d].status = "SyncSuccess" /\ mem'[d].opty = "id"
              /\ mem'[d].contact = mem[d].contact /\ mem'[d].account = mem[d].account
          BY <3>1, <3>2, RegisteredEffect
        <4>2. \A k \in Kinds : k # "opty" => mem'[d][k] = mem[d][k]
          BY <4>1 DEF Kinds
        <4>. QED
          BY <2>7, <3>2, <4>1, <4>2 DEF Change, Delivered
      <3>3. CASE ~(d = job[w] /\ Live(d))
        <4>1. mem'[d] = mem[d]
          BY <3>1, <3>3, RegisteredEffect
        <4>. QED
          BY <4>1 DEF Change, SameStatus, SameLinks
      <3>. QED
        BY <3>2, <3>3
    <2>8. CASE ActivityAnswered(w)
      BY <2>8, DeletedChange DEF ActivityAnswered, Final
    <2>. QED
      BY <1>4, <2>1, <2>3, <2>4, <2>5, <2>6, <2>7, <2>8 DEF Works, Operation
  <1>5. ASSUME NEW m \in Table, NEW a, Restart(m, a) PROVE Change(d)
    BY <1>5, RestartChange DEF Change
  <1>6. CASE SaveAsDraft \/ QueueDraft
    BY <1>6, WrittenChange DEF SaveAsDraft, QueueDraft
  <1>7. CASE SubmitOnline
    <2>1. CASE UNCHANGED mem
      BY <1>1, <2>1
    <2>2. CASE /\ mem' = [mem EXCEPT ![form.draft] = IF Live(form.draft) \/ @.status = "Unborn"
                                                     THEN Gone("Synced") ELSE @]
               /\ form' = NoForm /\ listed' = listed
      <3>1. CASE d = form.draft /\ (Live(d) \/ mem[d].status = "Unborn")
        <4>1. mem'[d] = Gone("Synced")
          BY <2>2, <3>1 DEF Table
        <4>. QED
          BY <2>2, <3>1, <4>1, GoneType DEF Change, Removed, Final
      <3>2. CASE ~(d = form.draft /\ (Live(d) \/ mem[d].status = "Unborn"))
        <4>1. mem'[d] = mem[d]
          BY <2>2, <3>2 DEF Table
        <4>. QED
          BY <4>1 DEF Change, SameStatus, SameLinks
      <3>. QED
        BY <3>1, <3>2
    <2>. QED
      BY <1>7, <2>1, <2>2 DEF SubmitOnline
  <1>. QED
    BY <1>2, <1>3, <1>4, <1>5, <1>6, <1>7, StepCases

\* A step that does not save changes no more than a status.
Unsaved == /\ UNCHANGED store
           /\ \A d \in Drafts : /\ SameLinks(d)
                                /\ SameStatus(d) \/ (Live(d) /\ mem'[d].status \in DraftStatus)

LEMMA StoreStep ==
  ASSUME LifeInv, [Next]_vars
  PROVE  store' = mem' \/ Unsaved
  <1>. TypeOK /\ mem \in Table /\ store \in Table
    BY DEF LifeInv, TypeOK, Table
  <1>. USE Statuses
  <1>1. ASSUME UNCHANGED <<mem, store>> PROVE Unsaved
    BY <1>1 DEF Unsaved, SameStatus, SameLinks
  <1>2. CASE ScreenStep \/ \E p \in Passes : ReadDrafts(p) \/ QueueOperation(p)
    BY <1>1, <1>2 DEF ScreenStep, ReadDrafts, QueueOperation
  <1>3. CASE Discarded
    BY <1>3 DEF Discarded, Delete, SaveAll
  <1>4. ASSUME NEW w \in Workers, Works(w)
        PROVE  store' = mem' \/ Unsaved
    <2>1. CASE \/ StartOperation(w) \/ CheckStatus(w) \/ ReadForNotification(w) \/ CheckRecord(w)
               \/ ServerCreates(w) \/ AnswerSwallowed(w)
      BY <1>1, <2>1 DEF StartOperation, CheckStatus, ReadForNotification, CheckRecord,
                        ServerCreates, AnswerSwallowed
    <2>2. ASSUME NEW s \in Status, SetStatus(job[w], s), s \in DraftStatus \/ ~Live(job[w]),
                 UNCHANGED store
          PROVE  Unsaved
      <3>1. ASSUME NEW d \in Drafts
            PROVE  /\ SameLinks(d)
                   /\ SameStatus(d) \/ (Live(d) /\ mem'[d].status \in DraftStatus)
        <4>1. /\ mem'[d].status = IF d = job[w] /\ Live(d) THEN s ELSE mem[d].status
              /\ \A k \in Kinds : mem'[d][k] = mem[d][k]
          BY <2>2, SetStatusEffect
        <4>. QED
          BY <2>2, <4>1 DEF SameStatus, SameLinks
      <3>. QED
        BY <2>2, <3>1 DEF Unsaved
    <2>3. CASE ClaimDraft(w)
      BY <2>2, <2>3 DEF ClaimDraft
    <2>4. CASE CreateFailed(w)
      BY <2>2, <2>4 DEF CreateFailed, FailedStatus
    <2>5. CASE NotifyRejected(w)
      <3>1. /\ Observe(job[w], seen[w]) /\ step[w] = "finishing" /\ seen[w] \in Status
            /\ seen[w] \in DraftStatus \/ ~Live(job[w])
        BY <2>5 DEF NotifyRejected, TypeOK, LifeInv, Announces
      <3>. QED
        BY <1>1, <2>2, <3>1 DEF Observe, Delete, SaveAll
    <2>6. CASE LinkCreated(w) \/ OptyCreated(w) \/ ActivityAnswered(w)
      BY <2>6 DEF LinkCreated, OptyCreated, ActivityAnswered, Delete, SaveAll
    <2>. QED
      BY <1>4, <2>1, <2>3, <2>4, <2>5, <2>6 DEF Works, Operation
  <1>5. ASSUME NEW m \in Table, NEW a, Restart(m, a) PROVE store' = mem'
    BY <1>5 DEF Restart, Launch
  <1>6. CASE SaveAsDraft \/ QueueDraft
    BY <1>6 DEF SaveAsDraft, QueueDraft, WriteDraft, SaveAll
  <1>7. CASE SubmitOnline
    BY <1>1, <1>7 DEF SubmitOnline, SaveAll
  <1>. QED
    BY <1>2, <1>3, <1>4, <1>5, <1>6, <1>7, StepCases

\* A draft once written is never unwritten again, and once gone stays gone.
LEMMA Forward ==
  ASSUME LifeInv, [Next]_vars, NEW d \in Drafts
  PROVE  /\ Agreed(d)' /\ Empty(d)'
         /\ mem[d].status # "Unborn" => mem'[d].status # "Unborn" /\ (~Live(d) => ~Live(d)')
         /\ mem[d].status \in Final => mem'[d].status \in Final
  <1>. TypeOK /\ mem \in Table /\ store \in Table /\ Agreed(d) /\ Empty(d)
    BY DEF LifeInv, TypeOK, Table
  <1>1. Change(d)
    BY DraftCause
  <1>2. mem[d].status \in Status /\ store[d].status \in Status
    BY DEF Table, DraftRecord
  <1>. DEFINE Goal == /\ Empty(d)'
                      /\ mem[d].status # "Unborn"
                           => mem'[d].status # "Unborn" /\ (~Live(d) => ~Live(d)')
                      /\ mem[d].status \in Final => mem'[d].status \in Final
  <1>. USE Statuses DEF Live
  <1>3. ASSUME SameStatus(d) /\ SameLinks(d) PROVE Goal
    BY <1>2, <1>3 DEF SameStatus, SameLinks, Empty
  <1>4. ASSUME Marked(d) \/ Removed(d) PROVE Goal
    BY <1>2, <1>4 DEF Marked, Removed, Empty
  <1>5. ASSUME Linked(d) \/ Delivered(d) PROVE Goal
    BY <1>2, <1>5 DEF Linked, Delivered, SameStatus, Empty
  <1>6. ASSUME Edited(d) PROVE Goal
    BY <1>2, <1>6 DEF Edited, Empty
  <1>7. ASSUME Reread(d) PROVE Goal
    <2>1. ASSUME SameLinks(d),
                 NEW s \in {mem[d].status, store[d].status},
                 mem'[d].status = IF s = "Syncing" THEN "QueuedToSync" ELSE s
          PROVE  /\ mem[d].status \in DraftStatus => mem'[d].status \in DraftStatus
                 /\ mem[d].status \notin DraftStatus => mem'[d].status = mem[d].status
      BY <2>1 DEF Agreed
    <2>. QED
      BY <1>2, <1>7, <2>1 DEF Reread, Empty, SameLinks
  <1>8. Agreed(d)'
    <2>1. CASE store' = mem'
      BY <2>1 DEF Agreed
    <2>2. CASE Unsaved
      BY <2>2 DEF Agreed, Unsaved, SameLinks, SameStatus
    <2>. QED
      BY <2>1, <2>2, StoreStep
  <1>. QED
    BY <1>1, <1>3, <1>4, <1>5, <1>6, <1>7, <1>8 DEF Change

-----------------------------------------------------------------------------
(* How the operations move.                                                *)

LEMMA RetireEffect ==
  ASSUME TypeOK, NEW w \in Workers, Retire(w)
  PROVE  /\ orphaned' = orphaned \ {w}
         /\ step'[w] = "idle"
         /\ \A v \in Workers : v # w => /\ step'[v] = step[v] /\ kind'[v] = kind[v]
                                        /\ job'[v] = job[v] /\ seen'[v] = seen[v]
  BY DEF Retire, Goto, TypeOK

\* A step of an operation is about its own slot.
LEMMA WorksOnSlot ==
  ASSUME TypeOK, NEW w \in Workers, Works(w)
  PROVE  /\ \A v \in Workers : v # w => /\ step'[v] = step[v] /\ kind'[v] = kind[v]
                                        /\ job'[v] = job[v] /\ seen'[v] = seen[v]
         /\ UNCHANGED <<batch, pass, form>> /\ orphaned' \subseteq orphaned
         /\ \/ step[w] = "idle" /\ step'[w] = "started" /\ StartOperation(w)
            \/ step[w] # "idle" /\ step'[w] = "idle" /\ opQueue' = opQueue
            \/ /\ step[w] # "idle" /\ job' = job /\ opQueue' = opQueue
               /\ step'[w] \in Steps \ {"idle", "started"}
               /\ step'[w] = "finishing" <=> ReadForNotification(w)
  <1>. Steps = {"idle", "started", "claiming", "rejecting", "finishing",
                "next", "sent", "made", "activity", "stuck"}
    BY DEF Steps
  <1>1. CASE StartOperation(w)
    BY <1>1, GotoEffect DEF StartOperation, TypeOK
  <1>2. CASE CheckStatus(w) \/ ClaimDraft(w)
    BY <1>2, GotoEffect DEF CheckStatus, ClaimDraft, ReadForNotification
  <1>3. CASE CheckRecord(w)
    BY <1>3, GotoEffect DEF CheckRecord, ReadForNotification
  <1>4. CASE ServerCreates(w) \/ AnswerSwallowed(w)
    BY <1>4, GotoEffect DEF ServerCreates, AnswerSwallowed, ReadForNotification
  <1>5. CASE ReadForNotification(w)
    BY <1>5, GotoEffect DEF ReadForNotification, TypeOK
  <1>6. CASE LinkCreated(w)
    <2>1. \E s \in {"sent", "stuck"}, k \in Kinds : Goto(w, s, k)
      BY <1>6 DEF LinkCreated, ContinueAfter, Kinds
    <2>. QED
      BY <1>6, <2>1, GotoEffect DEF LinkCreated, ReadForNotification
  <1>7. CASE OptyCreated(w)
    BY <1>7, GotoEffect DEF OptyCreated, ReadForNotification
  <1>8. CASE NotifyRejected(w) \/ CreateFailed(w) \/ ActivityAnswered(w)
    BY <1>8, RetireEffect DEF NotifyRejected, CreateFailed, ActivityAnswered
  <1>. QED
    BY <1>1, <1>2, <1>3, <1>4, <1>5, <1>6, <1>7, <1>8 DEF Works, Operation

\* Steps that leave the operations and the queues alone.
SlotsAlone == UNCHANGED <<batch, opQueue, step, job, kind, seen>>

LEMMA SlotSteps ==
  ASSUME TypeOK, [Next]_vars
  PROVE  \/ SlotsAlone
         \/ \E p \in Passes : ReadDrafts(p) \/ QueueOperation(p)
         \/ \E w \in Workers : Works(w)
         \/ \E m \in Table, a \in SUBSET Workers : Restart(m, a)
  BY StepCases DEF ScreenStep, Discarded, SaveAsDraft, QueueDraft, SubmitOnline, SlotsAlone

\* Where a waiting draft came from.
LEMMA QueueStep ==
  ASSUME TypeOK, [Next]_vars
  PROVE  /\ \A p \in Passes : \A d \in batch'[p] : \/ d \in batch[p]
                                                   \/ ReadDrafts(p) /\ Fetchable(d)
         /\ \A i \in 1..Len(opQueue') : \/ \E j \in 1..Len(opQueue) : opQueue'[i] = opQueue[j]
                                        \/ \E p \in Passes : opQueue'[i] \in batch[p]
         /\ \A w \in Workers : \/ step'[w] = "idle"
                               \/ step[w] # "idle" /\ job'[w] = job[w]
                               \/ \E j \in 1..Len(opQueue) : job'[w] = opQueue[j]
  <1>. DEFINE Goal ==
         /\ \A p \in Passes : \A d \in batch'[p] : d \in batch[p] \/ (ReadDrafts(p) /\ Fetchable(d))
         /\ \A i \in 1..Len(opQueue') : \/ \E j \in 1..Len(opQueue) : opQueue'[i] = opQueue[j]
                                        \/ \E p \in Passes : opQueue'[i] \in batch[p]
         /\ \A w \in Workers : \/ step'[w] = "idle"
                               \/ step[w] # "idle" /\ job'[w] = job[w]
                               \/ \E j \in 1..Len(opQueue) : job'[w] = opQueue[j]
  <1>. opQueue \in Seq(Drafts) /\ batch \in [Passes -> SUBSET Drafts] /\ Len(opQueue) \in Nat
    BY DEF TypeOK
  <1>1. ASSUME SlotsAlone PROVE Goal
    BY <1>1 DEF SlotsAlone
  <1>2. ASSUME NEW p \in Passes, ReadDrafts(p) PROVE Goal
    BY <1>2 DEF ReadDrafts
  <1>3. ASSUME NEW p \in Passes, QueueOperation(p) PROVE Goal
    <2>1. CASE opQueue' = opQueue
      BY <1>3, <2>1 DEF QueueOperation
    <2>2. ASSUME NEW d \in batch[p], opQueue' = Append(opQueue, d), batch' = [batch EXCEPT ![p] = Remaining(p, d)]
          PROVE  Goal
      <3>1. \A q \in Passes : batch'[q] \subseteq batch[q]
        BY <2>2 DEF Remaining
      <3>2. \A i \in 1..Len(opQueue') : opQueue'[i] = d \/ (i \in 1..Len(opQueue) /\ opQueue'[i] = opQueue[i])
        BY <2>2
      <3>. QED
        BY <1>3, <3>1, <3>2 DEF QueueOperation
    <2>. QED
      BY <1>3, <2>1, <2>2 DEF QueueOperation
  <1>4. ASSUME NEW w \in Workers, Works(w) PROVE Goal
    <2>1. CASE StartOperation(w)
      <3>1. /\ opQueue' = Tail(opQueue) /\ opQueue # <<>>
            /\ job'[w] = Head(opQueue) /\ UNCHANGED batch
        BY <2>1 DEF StartOperation, TypeOK
      <3>2. Len(opQueue) >= 1 /\ job'[w] = opQueue[1]
            /\ \A i \in 1..Len(opQueue') : opQueue'[i] = opQueue[i + 1] /\ i + 1 \in 1..Len(opQueue)
        BY <3>1
      <3>3. \A v \in Workers \ {w} : step'[v] = step[v] /\ job'[v] = job[v]
        BY <1>4, WorksOnSlot
      <3>4. \A v \in Workers \ {w} : step'[v] = "idle" \/ (step[v] # "idle" /\ job'[v] = job[v])
        BY <3>3
      <3>. QED
        BY <3>1, <3>2, <3>4
    <2>2. CASE opQueue' = opQueue /\ (step'[w] = "idle" \/ (step[w] # "idle" /\ job' = job))
      <3>1. \A v \in Workers \ {w} : step'[v] = step[v] /\ job'[v] = job[v]
        BY <1>4, WorksOnSlot
      <3>2. UNCHANGED batch
        BY <1>4, WorksOnSlot
      <3>3. \A v \in Workers : step'[v] = "idle" \/ (step[v] # "idle" /\ job'[v] = job[v])
        BY <2>2, <3>1
      <3>. QED
        BY <2>2, <3>2, <3>3
    <2>. QED
      BY <1>4, <2>1, <2>2, WorksOnSlot
  <1>5. ASSUME NEW m \in Table, NEW a, Restart(m, a) PROVE Goal
    <2>1. Relaunched
      BY <1>5, RestartEffect
    <2>. QED
      BY <2>1 DEF Relaunched
  <1>. QED
    BY <1>1, <1>2, <1>3, <1>4, <1>5, SlotSteps

LEMMA LifeStep ==
  ASSUME LifeInv, [Next]_vars
  PROVE  LifeInv'
  <1>. TypeOK /\ Written /\ opQueue \in Seq(Drafts)
    BY DEF LifeInv, TypeOK
  <1>1. TypeOK' /\ \A d \in Drafts : Agreed(d)' /\ Empty(d)'
    BY TypeStep, Forward
  <1>2. \A d \in Drafts : mem[d].status # "Unborn" => mem'[d].status # "Unborn" /\ (~Live(d) => ~Live(d)')
    BY Forward
  <1>3. Written'
    <2>1. \A p \in Passes : \A d \in batch'[p] : mem[d].status # "Unborn" /\ d \in Drafts
      <3>1. \A p \in Passes : batch'[p] \subseteq Drafts
        BY <1>1 DEF TypeOK
      <3>. QED
        BY <3>1, QueueStep DEF Written, Fetchable
    <2>2. \A i \in 1..Len(opQueue') : mem[opQueue'[i]].status # "Unborn" /\ opQueue'[i] \in Drafts
      <3>1. \A i \in 1..Len(opQueue') : opQueue'[i] \in Drafts
        BY <1>1 DEF TypeOK
      <3>. QED
        BY <3>1, QueueStep DEF Written
    <2>3. \A w \in Workers : step'[w] # "idle" => mem[job'[w]].status # "Unborn" /\ job'[w] \in Drafts
      <3>1. \A w \in Workers : step'[w] # "idle" => job'[w] \in Drafts
        BY <1>1 DEF TypeOK
      <3>. QED
        BY <3>1, QueueStep DEF Written
    <2>. QED
      BY <1>2, <2>1, <2>2, <2>3 DEF Written
  <1>4. ASSUME NEW w \in Workers PROVE Announces(w)'
    <2>1. ASSUME step'[w] = step[w], job'[w] = job[w], seen'[w] = seen[w] PROVE Announces(w)'
      <3>1. step[w] # "idle" => job[w] \in Drafts /\ mem[job[w]].status # "Unborn"
        BY DEF Written, TypeOK
      <3>. QED
        BY <1>2, <2>1, <3>1 DEF LifeInv, Announces, Live
    <2>2. CASE SlotsAlone \/ \E p \in Passes : ReadDrafts(p) \/ QueueOperation(p)
      BY <2>1, <2>2 DEF SlotsAlone, ReadDrafts, QueueOperation
    <2>3. ASSUME NEW v \in Workers, Works(v), v # w PROVE Announces(w)'
      BY <2>1, <2>3, WorksOnSlot
    <2>4. CASE ReadForNotification(w)
      <3>1. mem' = mem /\ job' = job /\ seen'[w] = mem[job[w]].status /\ job[w] \in Drafts
        BY <2>4 DEF ReadForNotification, TypeOK
      <3>. QED
        BY <3>1 DEF Announces, Live
    <2>5. CASE Works(w) /\ ~ReadForNotification(w)
      <3>1. step'[w] # "finishing"
        BY <2>5, WorksOnSlot
      <3>. QED
        BY <3>1 DEF Announces
    <2>6. ASSUME NEW m \in Table, NEW a, Restart(m, a) PROVE Announces(w)'
      <3>1. step'[w] = "idle"
        BY <2>6, RestartEffect DEF Relaunched
      <3>. QED
        BY <3>1 DEF Announces
    <2>. QED
      BY <2>2, <2>3, <2>4, <2>5, <2>6, SlotSteps
  <1>. QED
    BY <1>1, <1>3, <1>4 DEF LifeInv

LEMMA LifeInit == ASSUME Init PROVE LifeInv
  <1>1. /\ mem = store /\ opQueue = <<>> /\ \A w \in Workers : step[w] = "idle"
        /\ \A p \in Passes : batch[p] = {}
        /\ \A d \in Drafts : \A k \in Kinds : mem[d][k] = "none"
    BY GoneType DEF Init, Status, GoneStatus
  <1>2. \A i \in 1..Len(opQueue) : FALSE
    BY <1>1
  <1>. QED
    BY <1>1, <1>2, InitType DEF LifeInv, Written, Agreed, Announces, Empty

\* The history only grows.
LEMMA HistoryGrows ==
  ASSUME TypeOK, [Next]_vars
  PROVE  /\ clashed \subseteq clashed' /\ refetched \subseteq refetched' /\ reopened \subseteq reopened'
         /\ \A d \in Drafts : lost[d] \subseteq lost'[d]
  <1>. DEFINE Goal == /\ clashed \subseteq clashed' /\ refetched \subseteq refetched' /\ reopened \subseteq reopened'
                      /\ \A d \in Drafts : lost[d] \subseteq lost'[d]
  <1>1. CASE ScreenStep
    BY <1>1 DEF ScreenStep, CloseDrafts, OpenDrafts, CloseForm, OpenDraft, NewForm
  <1>. USE DEF TypeOK
  <1>2. CASE Discarded \/ SaveAsDraft \/ QueueDraft \/ SubmitOnline
             \/ \E p \in Passes : ReadDrafts(p) \/ QueueOperation(p)
    BY <1>2, SMTT(30) DEF Discarded, SaveAsDraft, QueueDraft, SubmitOnline, ReadDrafts, QueueOperation
  <1>3. ASSUME NEW w \in Workers, Works(w) PROVE Goal
    <2>1. CASE Operation(w)
      BY <2>1 DEF Operation, StartOperation, CheckStatus, ClaimDraft, ReadForNotification,
                  NotifyRejected, CheckRecord
    <2>2. CASE \/ ServerCreates(w) \/ LinkCreated(w) \/ OptyCreated(w)
               \/ CreateFailed(w) \/ ActivityAnswered(w) \/ AnswerSwallowed(w)
      BY <2>2 DEF ServerCreates, LinkCreated, OptyCreated, CreateFailed, ActivityAnswered, AnswerSwallowed
    <2>. QED
      BY <1>3, <2>1, <2>2 DEF Works
  <1>4. ASSUME NEW m \in Table, NEW a, Restart(m, a) PROVE Goal
    BY <1>4 DEF Restart, Launch
  <1>. QED
    BY <1>1, <1>2, <1>3, <1>4, StepCases

\* An operation that is past the status check after a step was at work before it.
LEMMA WorkStep ==
  ASSUME TypeOK, [Next]_vars, NEW w \in Workers, Working(w)'
  PROVE  /\ job'[w] = job[w] /\ job[w] \in Drafts /\ step[w] # "idle"
         /\ Working(w) \/ CheckStatus(w)
         /\ (step'[w] = step[w] /\ kind'[w] = kind[w]) \/ Works(w)
  <1>. DEFINE Goal == /\ job'[w] = job[w] /\ job[w] \in Drafts /\ step[w] # "idle"
                      /\ Working(w) \/ CheckStatus(w)
                      /\ (step'[w] = step[w] /\ kind'[w] = kind[w]) \/ Works(w)
  <1>. USE DEF Working
  <1>1. CASE SlotsAlone \/ \E p \in Passes : ReadDrafts(p) \/ QueueOperation(p)
    BY <1>1 DEF SlotsAlone, ReadDrafts, QueueOperation, TypeOK
  <1>2. ASSUME NEW v \in Workers, Works(v) PROVE Goal
    <2>1. CASE v # w
      BY <1>2, <2>1, WorksOnSlot DEF TypeOK
    <2>2. CASE v = w
      <3>1. Works(w) /\ step'[w] # "idle" /\ step'[w] # "started"
        BY <1>2, <2>2
      <3>2. job' = job /\ step[w] # "idle"
        BY <3>1, WorksOnSlot
      <3>3. job[w] \in Drafts
        BY <3>2 DEF TypeOK
      <3>4. ~StartOperation(w) /\ ~ReadForNotification(w) /\ ~NotifyRejected(w)
        BY <3>1, GotoEffect, RetireEffect DEF StartOperation, ReadForNotification, NotifyRejected
      <3>5. Working(w) \/ CheckStatus(w)
        BY <3>1, <3>4 DEF Works, Operation, ClaimDraft, CheckRecord, ServerCreates, LinkCreated,
                          OptyCreated, CreateFailed, ActivityAnswered, AnswerSwallowed
      <3>. QED
        BY <1>2, <2>2, <3>2, <3>3, <3>5
    <2>. QED
      BY <2>1, <2>2
  <1>3. ASSUME NEW m \in Table, NEW a, Restart(m, a) PROVE FALSE
    BY <1>3, RestartEffect DEF Relaunched
  <1>. QED
    BY <1>1, <1>2, <1>3, SlotSteps

\* An operation at work stays at work, unless it marks its draft failed, deletes it,
\* or the process dies.
LEMMA WorkEnds ==
  ASSUME TypeOK, [Next]_vars, NEW w \in Workers, Working(w)
  PROVE  \/ Working(w)' /\ job'[w] = job[w]
         \/ CreateFailed(w) \/ ActivityAnswered(w)
         \/ Relaunched /\ \A d \in Drafts : mem'[d].status # "Syncing"
  <1>. DEFINE Goal == \/ Working(w)' /\ job'[w] = job[w]
                      \/ CreateFailed(w) \/ ActivityAnswered(w)
                      \/ Relaunched /\ \A d \in Drafts : mem'[d].status # "Syncing"
  <1>. USE DEF Working
  <1>1. CASE SlotsAlone \/ \E p \in Passes : ReadDrafts(p) \/ QueueOperation(p)
    BY <1>1 DEF SlotsAlone, ReadDrafts, QueueOperation
  <1>2. ASSUME NEW v \in Workers, Works(v) PROVE Goal
    <2>1. CASE v # w
      BY <1>2, <2>1, WorksOnSlot
    <2>2. CASE v = w
      <3>1. CASE ClaimDraft(w) \/ CheckRecord(w)
        BY <3>1, GotoEffect DEF ClaimDraft, CheckRecord
      <3>2. CASE ServerCreates(w) \/ OptyCreated(w) \/ AnswerSwallowed(w)
        BY <3>2, GotoEffect DEF ServerCreates, OptyCreated, AnswerSwallowed
      <3>3. CASE LinkCreated(w)
        <4>1. \E s \in {"sent", "stuck"}, k \in Kinds : Goto(w, s, k)
          BY <3>3 DEF LinkCreated, ContinueAfter, Kinds
        <4>. QED
          BY <3>3, <4>1, GotoEffect DEF LinkCreated
      <3>4. ~StartOperation(w) /\ ~ReadForNotification(w) /\ ~NotifyRejected(w) /\ ~CheckStatus(w)
        BY DEF StartOperation, ReadForNotification, NotifyRejected, CheckStatus
      <3>. QED
        BY <1>2, <2>2, <3>1, <3>2, <3>3, <3>4 DEF Works, Operation
    <2>. QED
      BY <2>1, <2>2
  <1>3. ASSUME NEW m \in Table, NEW a, Restart(m, a) PROVE Goal
    BY <1>3, RestartEffect, ResetEffect
  <1>. QED
    BY <1>1, <1>2, <1>3, SlotSteps

-----------------------------------------------------------------------------
(* Who holds a draft that says Syncing.                                    *)

LEMMA OwnedStep ==
  ASSUME LifeInv, SyncingIsOwned, [Next]_vars
  PROVE  SyncingIsOwned'
  <1>. TypeOK
    BY DEF LifeInv
  <1>. SUFFICES ASSUME NEW d \in Drafts, mem'[d].status = "Syncing"
                PROVE  d \in clashed' \/ \E w \in Workers : Working(w)' /\ job'[w] = d
    BY DEF SyncingIsOwned
  <1>1. Change(d) /\ clashed \subseteq clashed'
    BY DraftCause, HistoryGrows
  <1>2. CASE SameStatus(d)
    <2>1. CASE d \in clashed
      BY <1>1, <2>1
    <2>2. ASSUME NEW w \in Workers, Working(w), job[w] = d
          PROVE  Working(w)' /\ job'[w] = d
      <3>1. mem \in Table /\ mem[d].status = "Syncing" /\ Live(d)
        BY <1>2 DEF SameStatus, TypeOK, Table, Live, DraftStatus
      <3>2. ~CreateFailed(w)
        <4>1. SetStatus(job[w], "SyncFailed") => mem'[d].status = "SyncFailed"
          BY <2>2, <3>1, SetStatusEffect, Statuses
        <4>. QED
          BY <4>1 DEF CreateFailed, FailedStatus
      <3>3. ~ActivityAnswered(w)
        <4>1. Delete(job[w], "Synced") => mem'[d].status = "Synced"
          BY <2>2, <3>1, DeleteEffect, GoneType, Statuses DEF Final
        <4>. QED
          BY <4>1 DEF ActivityAnswered
      <3>. QED
        BY <2>2, <3>2, <3>3, WorkEnds
    <2>3. d \in clashed \/ \E w \in Workers : Working(w) /\ job[w] = d
      BY <1>2 DEF SyncingIsOwned, SameStatus
    <2>. QED
      BY <2>1, <2>2, <2>3
  <1>3. CASE Marked(d)
    <2>1. ASSUME NEW w \in Workers, ClaimDraft(w), job[w] = d
          PROVE  Working(w)' /\ job'[w] = d
      BY <2>1, GotoEffect DEF ClaimDraft, Working
    <2>. QED
      BY <1>3, <2>1 DEF Marked
  <1>4. CASE Removed(d) \/ Delivered(d) \/ Edited(d)
    BY <1>4 DEF Removed, Final, Delivered, Edited
  <1>5. ~Reread(d)
    BY DEF Reread
  <1>. QED
    BY <1>1, <1>2, <1>3, <1>4, <1>5 DEF Change, Linked

\* A draft says "Syncing" only while an operation works on it, so that it cannot sit
\* in that state, closed to the user and to the next pass, unless two operations
\* clashed over it.
THEOREM SyncingOwned == Spec => []SyncingIsOwned
  <1>1. Init => LifeInv /\ SyncingIsOwned
    <2>1. Init => \A d \in Drafts : mem[d].status = "Unborn"
      BY DEF Init, Gone
    <2>. QED
      BY <2>1, LifeInit DEF SyncingIsOwned
  <1>2. LifeInv /\ SyncingIsOwned /\ [Next]_vars => (LifeInv /\ SyncingIsOwned)'
    BY LifeStep, OwnedStep
  <1>. QED
    BY <1>1, <1>2, PTL DEF Spec

-----------------------------------------------------------------------------
(* What an operation, the form and the Drafts screen know of a draft.      *)

\* Two operations at work on one draft have clashed.
OneEach == \A v, w \in Workers :
    v # w /\ Working(v) /\ Working(w) /\ job[v] = job[w] => job[w] \in clashed

\* The form and the Drafts screen are not open together, and the screen lists drafts.
Screens == (form # NoForm => listed = {}) /\ \A d \in listed : Live(d)

\* Only an operation whose contact or account was requested can lose its record.
OrphanSteps == \A w \in orphaned : step[w] \in {"sent", "made", "activity", "stuck"}

\* The status of a draft is the one its operation gave it.
StepStatus(w) == step[w] # "idle" /\ job[w] \notin clashed /\ Live(job[w]) =>
    /\ step[w] = "claiming" => mem[job[w]].status = "QueuedToSync"
    /\ step[w] \in {"next", "sent", "made"} => mem[job[w]].status = "Syncing" /\ w \notin orphaned
    /\ step[w] = "activity" => mem[job[w]].status = "SyncSuccess" \/ job[w] \in reopened

\* The form shows a draft nobody else works on, as it is, and knows whether it has
\* been delivered.
FormInv(d) == form.draft = d /\ d \notin clashed =>
    /\ Live(d) => /\ mem[d].status \notin {"QueuedToSync", "Syncing"}
                  /\ form.contact = mem[d].contact /\ form.account = mem[d].account
                  /\ mem[d].opty = "id" => d \in reopened
    /\ mem[d].status \in Final => d \in reopened
    /\ \A w \in Workers : step[w] = "activity" /\ job[w] = d => d \in reopened

\* A draft with an opportunity identifier says it was delivered.
IdInv(m, d) == m[d].opty = "id" => m[d].status = "SyncSuccess" \/ d \in clashed \cup reopened

RaceInv == /\ LifeInv /\ OneEach /\ Screens /\ OrphanSteps
           /\ \A w \in Workers : StepStatus(w)
           /\ \A d \in Drafts : FormInv(d) /\ IdInv(mem, d) /\ IdInv(store, d)

LEMMA OneEachStep ==
  ASSUME TypeOK, OneEach, [Next]_vars
  PROVE  OneEach'
  <1>. SUFFICES ASSUME NEW v \in Workers, NEW w \in Workers, v # w,
                       Working(v)', Working(w)', job'[v] = job'[w]
                PROVE  job'[w] \in clashed'
    BY DEF OneEach
  <1>1. /\ job'[v] = job[v] /\ job'[w] = job[w] /\ job[w] \in Drafts
        /\ Working(v) \/ CheckStatus(v)
        /\ Working(w) \/ CheckStatus(w)
    BY WorkStep
  <1>2. CASE Working(v) /\ Working(w)
    BY <1>1, <1>2, HistoryGrows DEF OneEach
  <1>3. ASSUME NEW x \in Workers, NEW y \in Workers, x # y, CheckStatus(x), Working(x)', Working(y)',
               job[x] = job[y]
        PROVE  job[x] \in clashed'
    <2>1. Works(x)
      BY <1>3 DEF Works, Operation
    <2>2. Working(y)
      BY <1>3, <2>1, WorksOnSlot DEF Working
    <2>3. step'[x] # "rejecting"
      BY <1>3 DEF Working
    <2>. QED
      BY <1>3, <2>2, <2>3, GotoEffect DEF CheckStatus
  <1>. QED
    BY <1>1, <1>2, <1>3

\* How a draft comes into the form.
LEMMA FormStep ==
  ASSUME TypeOK, [Next]_vars, NEW d \in Drafts, form'.draft = d
  PROVE  \/ form' = form
         \/ OpenDraft(d)
         \/ \E c \in Contacts, a \in Accounts : NewForm(d, c, a)
  <1>. d # NoDraft
    BY DraftsAssumption
  <1>1. form' # NoForm
    BY DEF NoForm
  <1>2. CASE ScreenStep
    BY <1>1, <1>2 DEF ScreenStep, CloseDrafts, OpenDrafts, CloseForm, OpenDraft, NewForm
  <1>3. CASE Discarded \/ SaveAsDraft \/ QueueDraft \/ SubmitOnline
             \/ \E p \in Passes : ReadDrafts(p) \/ QueueOperation(p)
    BY <1>1, <1>3 DEF Discarded, SaveAsDraft, QueueDraft, SubmitOnline, ReadDrafts, QueueOperation
  <1>4. CASE \E w \in Workers : Works(w)
    BY <1>4, WorksOnSlot
  <1>5. ASSUME NEW m \in Table, NEW a, Restart(m, a) PROVE FALSE
    BY <1>1, <1>5, RestartEffect DEF Relaunched
  <1>. QED
    BY <1>2, <1>3, <1>4, <1>5, StepCases

\* What the Drafts screen lists.
LEMMA ListedStep ==
  ASSUME TypeOK, [Next]_vars
  PROVE  \/ listed' \subseteq listed /\ form' \in {form, NoForm}
         \/ OpenDrafts
         \/ listed' = {}
  <1>. DEFINE Goal == \/ listed' \subseteq listed /\ form' \in {form, NoForm}
                      \/ OpenDrafts
                      \/ listed' = {}
  <1>1. CASE ScreenStep
    BY <1>1 DEF ScreenStep, CloseDrafts, CloseForm, OpenDraft, NewForm
  <1>2. CASE Discarded \/ SaveAsDraft \/ QueueDraft \/ SubmitOnline
             \/ \E p \in Passes : ReadDrafts(p) \/ QueueOperation(p)
    BY <1>2 DEF Discarded, SaveAsDraft, QueueDraft, SubmitOnline, ReadDrafts, QueueOperation
  <1>3. ASSUME NEW w \in Workers, Works(w) PROVE Goal
    <2>1. CASE Operation(w)
      BY <2>1 DEF Operation, StartOperation, CheckStatus, ClaimDraft, ReadForNotification,
                  NotifyRejected, Observe, CheckRecord
    <2>2. CASE \/ ServerCreates(w) \/ LinkCreated(w) \/ OptyCreated(w)
               \/ CreateFailed(w) \/ ActivityAnswered(w) \/ AnswerSwallowed(w)
      BY <2>2 DEF ServerCreates, LinkCreated, OptyCreated, CreateFailed, ActivityAnswered, AnswerSwallowed
    <2>. QED
      BY <1>3, <2>1, <2>2 DEF Works
  <1>4. ASSUME NEW m \in Table, NEW a, Restart(m, a) PROVE Goal
    BY <1>4, RestartEffect DEF Relaunched
  <1>. QED
    BY <1>1, <1>2, <1>3, <1>4, StepCases

LEMMA ScreensStep ==
  ASSUME LifeInv, Screens, [Next]_vars
  PROVE  Screens'
  <1>. TypeOK
    BY DEF LifeInv
  <1>1. CASE OpenDrafts
    BY <1>1 DEF OpenDrafts, Screens, Live
  <1>2. CASE listed' = {}
    BY <1>2 DEF Screens
  <1>3. CASE listed' \subseteq listed /\ form' \in {form, NoForm}
    <2>1. ASSUME NEW d \in listed' PROVE Live(d)'
      <3>1. d \in listed /\ Live(d) /\ d \in Drafts /\ form = NoForm
        BY <1>3, <2>1 DEF Screens, TypeOK
      <3>2. form.draft # d
        BY <3>1, DraftsAssumption DEF NoForm
      <3>3. ~Removed(d)
        BY <2>1, <3>2 DEF Removed, ActivityAnswered
      <3>4. Change(d) /\ mem[d].status \in DraftStatus
        BY <3>1, DraftCause DEF Live
      <3>5. ~(SameStatus(d) \/ Marked(d) \/ Linked(d) \/ Delivered(d)) => Reread(d)
        BY <3>2, <3>3, <3>4 DEF Change, Edited
      <3>6. ~Reread(d)
        BY <2>1 DEF Reread, Relaunched
      <3>. QED
        BY <3>4, <3>5, <3>6, Statuses DEF SameStatus, Marked, Linked, Delivered, Live
    <2>. QED
      BY <1>3, <2>1 DEF Screens
  <1>. QED
    BY <1>1, <1>2, <1>3, ListedStep

\* How an operation loses its record.
LEMMA OrphanStep ==
  ASSUME TypeOK, [Next]_vars, NEW w \in Workers, w \in orphaned', w \notin orphaned
  PROVE  /\ job[w] = form.draft /\ step[w] \in {"sent", "made"} /\ kind[w] # "opty"
         /\ UNCHANGED <<step, job, kind, seen>>
         /\ \E s \in DraftStatus : WriteDraft(s)
  <1>1. CASE ScreenStep \/ Discarded \/ SubmitOnline \/ \E p \in Passes : ReadDrafts(p) \/ QueueOperation(p)
    BY <1>1 DEF ScreenStep, Discarded, SubmitOnline, ReadDrafts, QueueOperation
  <1>2. CASE \E v \in Workers : Works(v)
    BY <1>2, WorksOnSlot
  <1>3. CASE SaveAsDraft \/ QueueDraft
    <2>1. \E s \in {"SavedAsDraft", "QueuedToSync"} : WriteDraft(s)
      BY <1>3 DEF SaveAsDraft, QueueDraft
    <2>. QED
      BY <1>3, <2>1, Statuses DEF SaveAsDraft, QueueDraft, WriteDraft
  <1>4. ASSUME NEW m \in Table, NEW a, Restart(m, a) PROVE FALSE
    BY <1>4, RestartEffect DEF Relaunched
  <1>. QED
    BY <1>1, <1>2, <1>3, <1>4, StepCases

LEMMA OrphansStep ==
  ASSUME TypeOK, OrphanSteps, [Next]_vars
  PROVE  OrphanSteps'
  <1>. DEFINE Late == {"sent", "made", "activity", "stuck"}
  <1>. SUFFICES ASSUME NEW w \in Workers, w \in orphaned'
                PROVE  step'[w] \in Late
    BY TypeStep DEF OrphanSteps, TypeOK
  <1>1. CASE w \notin orphaned
    BY <1>1, OrphanStep
  <1>2. CASE w \in orphaned
    <2>1. step[w] \in Late
      BY <1>2 DEF OrphanSteps
    <2>2. CASE step'[w] = step[w]
      BY <2>1, <2>2
    <2>3. CASE Works(w)
      <3>1. CASE Operation(w)
        BY <2>1, <3>1 DEF Operation, StartOperation, CheckStatus, ClaimDraft,
                          ReadForNotification, NotifyRejected, CheckRecord
      <3>2. CASE LinkCreated(w)
        BY <3>2 DEF LinkCreated
      <3>3. CASE CreateFailed(w) \/ ActivityAnswered(w)
        BY <3>3 DEF CreateFailed, ActivityAnswered, Retire
      <3>4. CASE ServerCreates(w) \/ OptyCreated(w) \/ AnswerSwallowed(w)
        BY <3>4, GotoEffect DEF ServerCreates, OptyCreated, AnswerSwallowed
      <3>. QED
        BY <2>3, <3>1, <3>2, <3>3, <3>4 DEF Works
    <2>4. ASSUME NEW m \in Table, NEW a, Restart(m, a) PROVE FALSE
      BY <2>4, RestartEffect DEF Relaunched
    <2>5. CASE SlotsAlone \/ \E p \in Passes : ReadDrafts(p) \/ QueueOperation(p)
      BY <2>2, <2>5 DEF SlotsAlone, ReadDrafts, QueueOperation
    <2>6. ASSUME NEW v \in Workers, Works(v), v # w PROVE step'[w] = step[w]
      BY <2>6, WorksOnSlot
    <2>. QED
      BY <2>2, <2>3, <2>4, <2>5, <2>6, SlotSteps
  <1>. QED
    BY <1>1, <1>2

\* On a draft without a clash there is one operation at work.
LEMMA Alone ==
  ASSUME RaceInv, NEW v \in Workers, NEW w \in Workers, Working(v), Working(w),
         job[v] = job[w], job[w] \notin clashed
  PROVE  v = w
  BY DEF RaceInv, OneEach

\* While an operation that has claimed the draft works on it, the form does not show it.
LEMMA NotInForm ==
  ASSUME RaceInv, NEW w \in Workers, step[w] \in {"claiming", "next", "sent", "made"},
         job[w] \notin clashed, Live(job[w])
  PROVE  form.draft # job[w]
  <1>1. StepStatus(w) /\ job[w] \in Drafts
    BY DEF RaceInv, LifeInv, TypeOK
  <1>2. FormInv(job[w])
    BY <1>1 DEF RaceInv
  <1>. QED
    BY <1>1, <1>2 DEF StepStatus, FormInv

\* What happens to the draft of an operation that stays where it is.
LEMMA StatusKept ==
  ASSUME RaceInv, [Next]_vars, NEW w \in Workers, NEW d, d = job[w], Live(d), Live(d)', d \notin clashed',
         step[w] \in {"claiming", "next", "sent", "made", "activity"}, step'[w] = step[w]
  PROVE  \/ SameStatus(d)
         \/ step[w] = "activity" /\ d \in reopened
  <1>. LifeInv /\ TypeOK
    BY DEF RaceInv, LifeInv
  <1>1. d \in Drafts /\ Working(w)
    BY DEF TypeOK, Working
  <1>2. d \notin clashed
    BY HistoryGrows
  <1>3. \A v \in Workers : Working(v) /\ job[v] = d => v = w
    BY <1>1, <1>2, Alone
  <1>4. ~Marked(d)
    <2>1. ASSUME NEW v \in Workers, ClaimDraft(v) \/ CreateFailed(v), job[v] = d PROVE FALSE
      <3>1. v = w
        BY <1>3, <2>1 DEF ClaimDraft, CreateFailed, Working
      <3>. QED
        BY <2>1, <3>1, GotoEffect, RetireEffect DEF ClaimDraft, CreateFailed
    <2>. QED
      BY <2>1 DEF Marked
  <1>5. ~Removed(d)
    BY Statuses DEF Removed, Live
  <1>6. ~Delivered(d)
    <2>1. ASSUME NEW v \in Workers, OptyCreated(v), job[v] = d PROVE FALSE
      <3>1. v = w
        BY <1>3, <2>1 DEF OptyCreated, Working
      <3>. QED
        BY <2>1, <3>1, GotoEffect DEF OptyCreated
    <2>. QED
      BY <2>1 DEF Delivered
  <1>7. CASE Edited(d)
    <2>1. form.draft = d
      BY <1>7 DEF Edited
    <2>2. step[w] = "activity"
      BY <1>2, <2>1, NotInForm
    <2>. QED
      BY <1>1, <1>2, <2>1, <2>2 DEF RaceInv, FormInv
  <1>8. ~Reread(d)
    BY DEF Reread, Relaunched
  <1>. QED
    BY <1>1, <1>4, <1>5, <1>6, <1>7, <1>8, DraftCause DEF Change, Linked

LEMMA StatusStep ==
  ASSUME RaceInv, [Next]_vars, NEW w \in Workers
  PROVE  StepStatus(w)'
  <1>. LifeInv /\ TypeOK /\ mem \in Table
    BY DEF RaceInv, LifeInv, TypeOK, Table
  <1>. DEFINE d == job[w]
              Goal == /\ step'[w] = "claiming" => mem'[d].status = "QueuedToSync"
                      /\ step'[w] \in {"next", "sent", "made"} => mem'[d].status = "Syncing" /\ w \notin orphaned'
                      /\ step'[w] = "activity" => mem'[d].status = "SyncSuccess" \/ d \in reopened'
  <1>0. SUFFICES ASSUME step'[w] \in {"claiming", "next", "sent", "made", "activity"},
                        job'[w] \notin clashed', Live(job[w])'
                 PROVE  d = job'[w] /\ Goal
    BY DEF StepStatus
  <1>1. /\ d = job'[w] /\ d \in Drafts /\ step[w] # "idle"
        /\ step'[w] = step[w] \/ Works(w)
    BY <1>0, WorkStep DEF Working
  <1>2. d \notin clashed /\ Live(d) /\ reopened \subseteq reopened'
    <2>1. mem[d].status # "Unborn"
      BY <1>1 DEF LifeInv, Written
    <2>. QED
      BY <1>0, <1>1, <2>1, Forward, HistoryGrows DEF Live
  <1>3. StepStatus(w) /\ OrphanSteps
    BY DEF RaceInv
  <1>4. ASSUME w \in orphaned', w \notin orphaned PROVE FALSE
    BY <1>2, <1>4, OrphanStep, NotInForm
  <1>5. CASE step'[w] = step[w]
    <2>1. SameStatus(d) \/ (step[w] = "activity" /\ d \in reopened)
      BY <1>0, <1>1, <1>2, <1>5, StatusKept DEF Live
    <2>. QED
      BY <1>0, <1>1, <1>2, <1>3, <1>4, <1>5, <2>1 DEF SameStatus, StepStatus
  <1>6. CASE CheckStatus(w)
    <2>1. step'[w] = "claiming" /\ mem[d].status = "QueuedToSync" /\ mem' = mem
      BY <1>0, <1>6, GotoEffect DEF CheckStatus
    <2>. QED
      BY <1>1, <2>1
  <1>7. CASE ClaimDraft(w)
    <2>1. step'[w] = "next" /\ step[w] = "claiming" /\ SetStatus(d, "Syncing") /\ orphaned' = orphaned
      BY <1>7, GotoEffect DEF ClaimDraft
    <2>2. mem'[d].status = "Syncing"
      BY <1>1, <1>2, <2>1, SetStatusEffect, Statuses
    <2>. QED
      BY <1>1, <1>3, <2>1, <2>2 DEF OrphanSteps
  <1>8. CASE CheckRecord(w) \/ ServerCreates(w)
    <2>1. /\ step[w] \in {"next", "sent"} /\ mem' = mem /\ orphaned' = orphaned
          /\ step'[w] \in {"next", "sent", "made"}
      BY <1>0, <1>8, GotoEffect DEF CheckRecord, ServerCreates
    <2>. QED
      BY <1>1, <1>2, <1>3, <2>1 DEF StepStatus
  <1>9. CASE LinkCreated(w)
    <2>1. step[w] = "made" /\ orphaned' = orphaned \ {w}
      BY <1>9 DEF LinkCreated
    <2>2. step'[w] = "sent"
      <3>1. \E s \in {"sent", "stuck"}, k \in Kinds : Goto(w, s, k)
        BY <1>9 DEF LinkCreated, ContinueAfter, Kinds
      <3>. QED
        BY <1>0, <3>1, GotoEffect
    <2>3. mem'[d].status = mem[d].status
      BY <1>1, <1>9, LinkCreatedEffect DEF TypeOK
    <2>. QED
      BY <1>1, <1>2, <1>3, <2>1, <2>2, <2>3 DEF StepStatus
  <1>10. CASE OptyCreated(w)
    <2>1. step'[w] = "activity" /\ mem' = Registered(d)
      BY <1>10, GotoEffect DEF OptyCreated
    <2>2. mem'[d].status = "SyncSuccess"
      BY <1>1, <1>2, <2>1, RegisteredEffect
    <2>. QED
      BY <1>1, <2>1, <2>2
  <1>11. CASE StartOperation(w) \/ ReadForNotification(w) \/ AnswerSwallowed(w)
    BY <1>0, <1>11, GotoEffect DEF StartOperation, ReadForNotification, AnswerSwallowed
  <1>12. CASE NotifyRejected(w) \/ CreateFailed(w) \/ ActivityAnswered(w)
    BY <1>0, <1>12, RetireEffect DEF NotifyRejected, CreateFailed, ActivityAnswered
  <1>. QED
    BY <1>1, <1>5, <1>6, <1>7, <1>8, <1>9, <1>10, <1>11, <1>12 DEF Works, Operation

\* A draft that the form shows before and after a step.
LEMMA ShownStep ==
  ASSUME RaceInv, [Next]_vars, NEW d \in Drafts, form.draft = d, form' = form, d \notin clashed'
  PROVE  FormInv(d)'
  <1>. LifeInv /\ TypeOK /\ mem \in Table
    BY DEF RaceInv, LifeInv, TypeOK, Table
  <1>. USE Statuses
  <1>1. d \notin clashed /\ reopened \subseteq reopened'
    BY HistoryGrows
  <1>2. FormInv(d) /\ mem[d].status \in Status /\ Empty(d)
    BY DEF RaceInv, LifeInv, Table, DraftRecord
  <1>3. listed = {} /\ form' # NoForm
    BY DraftsAssumption DEF NoForm, RaceInv, Screens
  <1>4. ASSUME NEW w \in Workers, step[w] \in {"claiming", "next", "sent", "made"}, job[w] = d
        PROVE  ~Live(d)
    BY <1>1, <1>4, NotInForm
  <1>5. ~Marked(d) /\ ~Linked(d) /\ ~Delivered(d) /\ ~Reread(d)
    BY <1>3, <1>4 DEF Marked, ClaimDraft, CreateFailed, Linked, LinkCreated, Delivered, OptyCreated,
                      Reread, Relaunched
  <1>6. ASSUME NEW w \in Workers, step'[w] = "activity", job'[w] = d
        PROVE  d \in reopened'
    <2>1. job[w] = d /\ step[w] # "idle" /\ (step'[w] = step[w] \/ Works(w))
      BY <1>6, WorkStep DEF Working
    <2>2. CASE step'[w] = step[w]
      BY <1>1, <1>2, <1>6, <2>1, <2>2 DEF FormInv
    <2>3. CASE OptyCreated(w)
      <3>1. ~Live(d)
        BY <1>4, <2>1, <2>3 DEF OptyCreated
      <3>2. mem[d].status # "Unborn"
        BY <2>1 DEF LifeInv, Written
      <3>. QED
        BY <1>1, <1>2, <3>1, <3>2 DEF FormInv, Live
    <2>4. ~Operation(w) /\ ~ServerCreates(w) /\ ~AnswerSwallowed(w)
      BY <1>6, GotoEffect, RetireEffect DEF Operation, StartOperation, CheckStatus, ClaimDraft,
         ReadForNotification, NotifyRejected, CheckRecord, ServerCreates, AnswerSwallowed
    <2>5. ~LinkCreated(w) /\ ~CreateFailed(w) /\ ~ActivityAnswered(w)
      <3>1. LinkCreated(w) => \E s \in {"sent", "stuck"}, k \in Kinds : Goto(w, s, k)
        BY DEF LinkCreated, ContinueAfter, Kinds
      <3>. QED
        BY <1>6, <3>1, GotoEffect, RetireEffect DEF CreateFailed, ActivityAnswered
    <2>. QED
      BY <2>1, <2>2, <2>3, <2>4, <2>5 DEF Works
  <1>7. CASE SameStatus(d) /\ SameLinks(d)
    <2>1. mem'[d].contact = mem[d].contact /\ mem'[d].account = mem[d].account /\ mem'[d].opty = mem[d].opty
      BY <1>7 DEF SameLinks, Kinds
    <2>. QED
      BY <1>1, <1>2, <1>6, <1>7, <2>1 DEF FormInv, SameStatus, Live
  <1>8. CASE Removed(d)
    <2>1. PICK w \in Workers : ActivityAnswered(w) /\ job[w] = d
      BY <1>3, <1>8 DEF Removed
    <2>2. d \in reopened
      BY <1>1, <1>2, <2>1 DEF FormInv, ActivityAnswered
    <2>3. ~Live(d)'
      BY <1>8 DEF Removed, Live
    <2>. QED
      BY <1>1, <2>2, <2>3 DEF FormInv
  <1>9. CASE Edited(d)
    <2>1. mem'[d].status = "SavedAsDraft"
      BY <1>3, <1>9 DEF Edited
    <2>2. mem'[d].opty = "id" => d \in reopened
      BY <1>1, <1>2, <1>9 DEF Edited, FormInv
    <2>. QED
      BY <1>1, <1>6, <1>9, <2>1, <2>2 DEF Edited, FormInv
  <1>. QED
    BY <1>5, <1>7, <1>8, <1>9, DraftCause DEF Change

LEMMA FormInvStep ==
  ASSUME RaceInv, [Next]_vars, NEW d \in Drafts
  PROVE  FormInv(d)'
  <1>. LifeInv /\ TypeOK /\ mem \in Table
    BY DEF RaceInv, LifeInv, TypeOK, Table
  <1>0. SUFFICES ASSUME form'.draft = d, d \notin clashed' PROVE FormInv(d)'
    BY DEF FormInv
  <1>1. d \notin clashed
    BY <1>0, HistoryGrows
  <1>2. CASE form' = form
    BY <1>0, <1>2, ShownStep
  <1>3. CASE OpenDraft(d)
    <2>1. /\ d \in listed /\ mem[d].status \notin {"QueuedToSync", "Syncing"} /\ mem' = mem
          /\ form'.contact = mem[d].contact /\ form'.account = mem[d].account
          /\ step' = step /\ job' = job
          /\ mem[d].status = "SyncSuccess" \/ d \in reopened => d \in reopened'
      BY <1>3 DEF OpenDraft
    <2>2. Live(d) /\ IdInv(mem, d)
      BY <2>1 DEF RaceInv, Screens
    <2>3. ASSUME NEW w \in Workers, step[w] = "activity", job[w] = d PROVE d \in reopened'
      BY <1>1, <2>1, <2>2, <2>3 DEF RaceInv, StepStatus
    <2>. QED
      BY <1>1, <2>1, <2>2, <2>3, Statuses DEF FormInv, IdInv, Live
  <1>4. ASSUME NEW c \in Contacts, NEW a \in Accounts, NewForm(d, c, a) PROVE FormInv(d)'
    <2>1. mem[d].status = "Unborn" /\ mem' = mem /\ step' = step /\ job' = job
      BY <1>4 DEF NewForm
    <2>2. \A w \in Workers : step[w] = "activity" => job[w] # d
      BY <2>1 DEF LifeInv, Written
    <2>. QED
      BY <2>1, <2>2, Statuses DEF FormInv, Live
  <1>. QED
    BY <1>0, <1>2, <1>3, <1>4, FormStep

LEMMA IdInvStep ==
  ASSUME RaceInv, [Next]_vars, NEW d \in Drafts
  PROVE  IdInv(mem, d)' /\ IdInv(store, d)'
  <1>. LifeInv /\ TypeOK /\ mem \in Table /\ Agreed(d)
    BY DEF RaceInv, LifeInv, TypeOK, Table
  <1>1. clashed \subseteq clashed' /\ reopened \subseteq reopened'
    BY HistoryGrows
  <1>2. IdInv(mem, d) /\ IdInv(store, d)
    BY DEF RaceInv
  <1>0. store[d].opty = mem[d].opty /\ "opty" \in Kinds
    BY DEF Agreed, Kinds
  <1>3. CASE SameStatus(d) /\ SameLinks(d)
    BY <1>0, <1>1, <1>2, <1>3, StoreStep DEF IdInv, Unsaved, SameStatus, SameLinks
  <1>4. CASE Marked(d)
    <2>1. ASSUME NEW w \in Workers, ClaimDraft(w) \/ CreateFailed(w), job[w] = d, mem[d].opty = "id"
          PROVE  d \in clashed \cup reopened
      <3>1. d \notin clashed => mem[d].status \in {"QueuedToSync", "Syncing"}
        BY <1>4, <2>1 DEF Marked, RaceInv, StepStatus, ClaimDraft, CreateFailed
      <3>. QED
        BY <1>0, <1>2, <2>1, <3>1 DEF IdInv
    <2>2. mem'[d].opty = mem[d].opty
      BY <1>0, <1>2, <1>4 DEF Marked, SameLinks
    <2>. QED
      BY <1>0, <1>1, <1>2, <1>4, <2>1, <2>2, StoreStep DEF Marked, IdInv, Unsaved, SameLinks
  <1>5. CASE Removed(d)
    BY <1>0, <1>1, <1>2, <1>5, StoreStep DEF Removed, IdInv, Unsaved, SameLinks
  <1>6. CASE Linked(d)
    <2>1. mem'[d].opty = mem[d].opty /\ SameStatus(d)
      BY <1>0, <1>2, <1>6 DEF Linked, LinkCreated
    <2>. QED
      BY <1>0, <1>1, <1>2, <2>1, StoreStep DEF IdInv, Unsaved, SameStatus
  <1>7. CASE Delivered(d)
    BY <1>0, <1>1, <1>2, <1>7, StoreStep DEF Delivered, IdInv, Unsaved
  <1>8. CASE Edited(d)
    <2>1. mem'[d].opty = "id" => d \in clashed \cup reopened
      BY <1>8 DEF Edited, RaceInv, FormInv
    <2>. QED
      BY <1>0, <1>1, <1>2, <2>1, StoreStep DEF IdInv, Unsaved
  <1>9. CASE Reread(d)
    <2>1. IdInv(mem, d)'
      BY <1>0, <1>1, <1>2, <1>9 DEF Reread, IdInv, SameLinks
    <2>. QED
      BY <1>0, <1>1, <1>2, <2>1, StoreStep DEF IdInv, Unsaved
  <1>. QED
    BY <1>3, <1>4, <1>5, <1>6, <1>7, <1>8, <1>9, DraftCause, StoreStep DEF Change

LEMMA RaceStep ==
  ASSUME RaceInv, [Next]_vars
  PROVE  RaceInv'
  <1>1. LifeInv /\ TypeOK /\ OneEach /\ Screens /\ OrphanSteps
    BY DEF RaceInv, LifeInv
  <1>2. LifeInv' /\ OneEach' /\ Screens' /\ OrphanSteps'
    BY <1>1, LifeStep, OneEachStep, ScreensStep, OrphansStep
  <1>3. \A w \in Workers : StepStatus(w)'
    BY StatusStep
  <1>4. \A d \in Drafts : FormInv(d)' /\ IdInv(mem, d)' /\ IdInv(store, d)'
    BY FormInvStep, IdInvStep
  <1>. QED
    BY <1>2, <1>3, <1>4 DEF RaceInv

LEMMA RaceInit == ASSUME Init PROVE RaceInv
  <1>1. /\ mem = store /\ orphaned = {} /\ listed = {} /\ form = NoForm
        /\ \A w \in Workers : step[w] = "idle"
        /\ \A d \in Drafts : mem[d].opty = "none"
    BY DEF Init, Gone
  <1>2. \A d \in Drafts : form.draft # d
    BY <1>1, DraftsAssumption DEF NoForm
  <1>. QED
    BY <1>1, <1>2, LifeInit DEF RaceInv, OneEach, Working, Screens, OrphanSteps, StepStatus, FormInv, IdInv

-----------------------------------------------------------------------------
(* Operations clash only over a draft that was fetched twice.              *)

\* A draft is on its way to an operation.
Waits(d) == \/ \E p \in Passes : d \in batch[p]
            \/ \E i \in 1..Len(opQueue) : opQueue[i] = d
            \/ \E w \in Workers : step[w] = "started" /\ job[w] = d

\* A draft fetched once is still queued when its operation looks at it, or has gone.
FreshWait(d) == d \notin refetched =>
    /\ Waits(d) => ~Live(d) \/ mem[d].status = "QueuedToSync"
    /\ \A w \in Workers : step[w] \in {"rejecting", "finishing"} /\ job[w] = d => ~Live(d)

\* A draft fetched once is in one place.
Single(d) == d \notin refetched =>
    /\ \A p, q \in Passes : d \in batch[p] /\ d \in batch[q] => p = q
    /\ \A i, j \in 1..Len(opQueue) : opQueue[i] = d /\ opQueue[j] = d => i = j
    /\ \A v, w \in Workers : step[v] # "idle" /\ step[w] # "idle" /\ job[v] = d /\ job[w] = d => v = w
    /\ \A p \in Passes, i \in 1..Len(opQueue) : ~(d \in batch[p] /\ opQueue[i] = d)
    /\ \A p \in Passes, w \in Workers : ~(d \in batch[p] /\ step[w] # "idle" /\ job[w] = d)
    /\ \A i \in 1..Len(opQueue), w \in Workers : ~(opQueue[i] = d /\ step[w] # "idle" /\ job[w] = d)

FreshInv == /\ RaceInv /\ ClashNeedsRefetch
            /\ \A d \in Drafts : FreshWait(d) /\ Single(d)

\* How operations clash over a draft.
LEMMA ClashCause ==
  ASSUME TypeOK, [Next]_vars, NEW d \in clashed', d \notin clashed
  PROVE  \/ \E w \in Workers : CheckStatus(w) /\ job[w] = d /\ \E v \in Workers : Working(v) /\ job[v] = d
         \/ \E w \in Workers : step[w] = "finishing" /\ job[w] = d /\ d \in listed
  <1>. DEFINE Goal == \/ \E w \in Workers : CheckStatus(w) /\ job[w] = d /\ \E v \in Workers : Working(v) /\ job[v] = d
                      \/ \E w \in Workers : step[w] = "finishing" /\ job[w] = d /\ d \in listed
  <1>1. CASE ScreenStep
    BY <1>1 DEF ScreenStep
  <1>2. CASE Discarded \/ SaveAsDraft \/ QueueDraft \/ SubmitOnline
             \/ \E p \in Passes : ReadDrafts(p) \/ QueueOperation(p)
    BY <1>2 DEF Discarded, SaveAsDraft, QueueDraft, SubmitOnline, ReadDrafts, QueueOperation
  <1>3. ASSUME NEW w \in Workers, Works(w) PROVE Goal
    <2>1. CASE CheckStatus(w)
      BY <2>1 DEF CheckStatus
    <2>2. CASE NotifyRejected(w)
      BY <2>2 DEF NotifyRejected
    <2>3. CASE StartOperation(w) \/ ClaimDraft(w) \/ ReadForNotification(w) \/ CheckRecord(w)
      BY <2>3 DEF StartOperation, ClaimDraft, ReadForNotification, CheckRecord
    <2>4. CASE \/ ServerCreates(w) \/ LinkCreated(w) \/ OptyCreated(w)
               \/ CreateFailed(w) \/ ActivityAnswered(w) \/ AnswerSwallowed(w)
      BY <2>4 DEF ServerCreates, LinkCreated, OptyCreated, CreateFailed, ActivityAnswered, AnswerSwallowed
    <2>. QED
      BY <1>3, <2>1, <2>2, <2>3, <2>4 DEF Works, Operation
  <1>4. ASSUME NEW m \in Table, NEW a, Restart(m, a) PROVE Goal
    BY <1>4 DEF Restart, Launch
  <1>. QED
    BY <1>1, <1>2, <1>3, <1>4, StepCases

LEMMA ClashStep ==
  ASSUME FreshInv, [Next]_vars
  PROVE  ClashNeedsRefetch'
  <1>. TypeOK /\ clashed \subseteq refetched /\ Screens
    BY DEF FreshInv, RaceInv, LifeInv, ClashNeedsRefetch
  <1>1. refetched \subseteq refetched'
    BY HistoryGrows
  <1>2. ASSUME NEW d \in clashed', d \notin clashed PROVE d \in refetched
    <2>1. ASSUME NEW w \in Workers, CheckStatus(w), job[w] = d,
                 NEW v \in Workers, Working(v), job[v] = d
          PROVE  d \in refetched
      <3>1. v # w /\ step[v] # "idle" /\ step[w] # "idle" /\ d \in Drafts
        BY <2>1 DEF CheckStatus, Working, TypeOK
      <3>. QED
        BY <2>1, <3>1 DEF FreshInv, Single
    <2>2. ASSUME NEW w \in Workers, step[w] = "finishing", job[w] = d, d \in listed
          PROVE  d \in refetched
      <3>1. Live(d) /\ d \in Drafts
        BY <2>2 DEF Screens, TypeOK
      <3>. QED
        BY <2>2, <3>1 DEF FreshInv, FreshWait
    <2>. QED
      BY <1>2, <2>1, <2>2, ClashCause
  <1>. QED
    BY <1>1, <1>2 DEF ClashNeedsRefetch

LEMMA SingleStep ==
  ASSUME FreshInv, [Next]_vars, NEW d \in Drafts
  PROVE  Single(d)'
  <1>. TypeOK /\ opQueue \in Seq(Drafts) /\ Len(opQueue) \in Nat /\ batch \in [Passes -> SUBSET Drafts]
    BY DEF FreshInv, RaceInv, LifeInv, TypeOK
  <1>0. SUFFICES ASSUME d \notin refetched' PROVE Single(d)'
    BY DEF Single
  <1>1. d \notin refetched /\ Single(d)
    BY <1>0, HistoryGrows DEF FreshInv
  <1>2. CASE SlotsAlone
    BY <1>1, <1>2 DEF Single, SlotsAlone
  <1>3. ASSUME NEW p \in Passes, ReadDrafts(p) PROVE Single(d)'
    <2>1. /\ batch' = [batch EXCEPT ![p] = {e \in Drafts : Fetchable(e)}]
          /\ Fetchable(d) => ~Outstanding(d)
          /\ UNCHANGED <<opQueue, step, job>>
      BY <1>0, <1>3 DEF ReadDrafts
    <2>2. CASE d \notin batch'[p]
      <3>1. \A q \in Passes : d \in batch'[q] => d \in batch[q]
        BY <2>1, <2>2
      <3>. QED
        BY <1>1, <2>1, <3>1 DEF Single
    <2>3. CASE d \in batch'[p]
      <3>1. Fetchable(d)
        BY <2>1, <2>3
      <3>2. ~Outstanding(d)
        BY <2>1, <3>1
      <3>3. \A q \in Passes : d \in batch'[q] => q = p
        BY <2>1, <3>2 DEF Outstanding
      <3>. QED
        BY <1>1, <2>1, <3>2, <3>3 DEF Single, Outstanding
    <2>. QED
      BY <2>2, <2>3
  <1>4. ASSUME NEW p \in Passes, QueueOperation(p) PROVE Single(d)'
    <2>1. CASE UNCHANGED <<opQueue, batch>>
      BY <1>1, <1>4, <2>1 DEF QueueOperation, Single
    <2>2. ASSUME NEW e \in batch[p], opQueue' = Append(opQueue, e), batch' = [batch EXCEPT ![p] = Remaining(p, e)]
          PROVE  Single(d)'
      <3>1. /\ \A q \in Passes : batch'[q] \subseteq batch[q]
            /\ e \notin batch'[p]
            /\ UNCHANGED <<step, job>>
        BY <1>4, <2>2 DEF Remaining, QueueOperation
      <3>2. /\ Len(opQueue') = Len(opQueue) + 1 /\ opQueue'[Len(opQueue) + 1] = e
            /\ \A i \in 1..Len(opQueue) : opQueue'[i] = opQueue[i]
        BY <2>2
      <3>3. CASE e # d
        <4>1. \A i \in 1..Len(opQueue') : opQueue'[i] = d => i \in 1..Len(opQueue) /\ opQueue[i] = d
          BY <3>2, <3>3
        <4>. QED
          BY <1>1, <3>1, <4>1 DEF Single
      <3>4. CASE e = d
        <4>1. \A q \in Passes : d \notin batch'[q]
          BY <1>1, <3>1, <3>4 DEF Single
        <4>2. \A i \in 1..Len(opQueue') : opQueue'[i] = d => i = Len(opQueue) + 1
          BY <1>1, <3>2, <3>4 DEF Single
        <4>3. \A w \in Workers : ~(step[w] # "idle" /\ job[w] = d)
          BY <1>1, <3>4 DEF Single
        <4>. QED
          BY <1>1, <3>1, <4>1, <4>2, <4>3 DEF Single
      <3>. QED
        BY <3>3, <3>4
    <2>. QED
      BY <1>4, <2>1, <2>2 DEF QueueOperation
  <1>5. ASSUME NEW w \in Workers, Works(w) PROVE Single(d)'
    <2>1. /\ \A v \in Workers : v # w => step'[v] = step[v] /\ job'[v] = job[v]
          /\ batch' = batch
      BY <1>5, WorksOnSlot
    <2>2. CASE StartOperation(w)
      <3>1. opQueue # <<>> /\ opQueue' = Tail(opQueue) /\ step[w] = "idle" /\ job'[w] = Head(opQueue)
        BY <2>2 DEF StartOperation, TypeOK
      <3>2. /\ Len(opQueue) >= 1 /\ job'[w] = opQueue[1]
            /\ Len(opQueue') = Len(opQueue) - 1
            /\ \A i \in 1..Len(opQueue') : opQueue'[i] = opQueue[i + 1] /\ i + 1 \in 1..Len(opQueue)
        BY <3>1
      <3>3. CASE job'[w] # d
        <4>1. \A v \in Workers : step'[v] # "idle" /\ job'[v] = d => step[v] # "idle" /\ job[v] = d
          BY <2>1, <3>3
        <4>2. \A i \in 1..Len(opQueue') : opQueue'[i] = d => \E j \in 1..Len(opQueue) : opQueue[j] = d
          BY <3>2
        <4>3. \A i, j \in 1..Len(opQueue') : opQueue'[i] = d /\ opQueue'[j] = d => i = j
          <5>. SUFFICES ASSUME NEW i \in 1..Len(opQueue'), NEW j \in 1..Len(opQueue'),
                               opQueue'[i] = d, opQueue'[j] = d
                        PROVE  i = j
            OBVIOUS
          <5>1. opQueue[i + 1] = d /\ opQueue[j + 1] = d /\ i + 1 \in 1..Len(opQueue) /\ j + 1 \in 1..Len(opQueue)
            BY <3>2
          <5>2. i + 1 = j + 1
            BY <1>1, <5>1 DEF Single
          <5>. QED
            BY <5>2
        <4>. QED
          BY <1>1, <2>1, <4>1, <4>2, <4>3 DEF Single
      <3>4. CASE job'[w] = d
        <4>1. 1 \in 1..Len(opQueue) /\ opQueue[1] = d
          BY <3>2, <3>4
        <4>2. \A i \in 1..Len(opQueue') : opQueue'[i] # d
          <5>. SUFFICES ASSUME NEW i \in 1..Len(opQueue'), opQueue'[i] = d PROVE FALSE
            OBVIOUS
          <5>1. i + 1 \in 1..Len(opQueue) /\ opQueue[i + 1] = d
            BY <3>2
          <5>2. i + 1 = 1
            BY <1>1, <4>1, <5>1 DEF Single
          <5>. QED
            BY <5>2
        <4>3. \A p \in Passes : d \notin batch'[p]
          BY <1>1, <2>1, <4>1 DEF Single
        <4>4. \A v \in Workers : step'[v] # "idle" /\ job'[v] = d => v = w
          BY <1>1, <2>1, <4>1 DEF Single
        <4>. QED
          BY <4>2, <4>3, <4>4 DEF Single
      <3>. QED
        BY <3>3, <3>4
    <2>3. CASE opQueue' = opQueue /\ (step'[w] = "idle" \/ (step[w] # "idle" /\ job' = job))
      <3>1. \A v \in Workers : step'[v] # "idle" /\ job'[v] = d => step[v] # "idle" /\ job[v] = d
        BY <2>1, <2>3
      <3>. QED
        BY <1>1, <2>1, <2>3, <3>1 DEF Single
    <2>. QED
      BY <1>5, <2>2, <2>3, WorksOnSlot
  <1>6. ASSUME NEW m \in Table, NEW a, Restart(m, a) PROVE Single(d)'
    <2>1. /\ \A p \in Passes : batch'[p] = {}
          /\ \A w \in Workers : step'[w] = "idle"
          /\ \A i \in 1..Len(opQueue') : FALSE
      BY <1>6, RestartEffect DEF Relaunched
    <2>. QED
      BY <2>1 DEF Single
  <1>. QED
    BY <1>2, <1>3, <1>4, <1>5, <1>6, SlotSteps

\* A draft that waits after a step waited before it, or has just been fetched.
LEMMA WaitStep ==
  ASSUME TypeOK, [Next]_vars, NEW d \in Drafts, Waits(d)'
  PROVE  Waits(d) \/ (mem[d].status = "QueuedToSync" /\ UNCHANGED mem)
  <1>1. ASSUME NEW p \in Passes, d \in batch'[p]
        PROVE  Waits(d) \/ (mem[d].status = "QueuedToSync" /\ UNCHANGED mem)
    BY <1>1, QueueStep DEF Waits, ReadDrafts, Fetchable
  <1>2. ASSUME NEW i \in 1..Len(opQueue'), opQueue'[i] = d PROVE Waits(d)
    BY <1>2, QueueStep DEF Waits
  <1>3. ASSUME NEW w \in Workers, step'[w] = "started", job'[w] = d PROVE Waits(d)
    <2>1. CASE step[w] # "idle" /\ job'[w] = job[w]
      <3>1. CASE step'[w] = step[w]
        BY <1>3, <2>1, <3>1 DEF Waits
      <3>2. CASE Works(w)
        BY <1>3, <2>1, <3>2, WorksOnSlot
      <3>3. CASE SlotsAlone \/ \E p \in Passes : ReadDrafts(p) \/ QueueOperation(p)
        BY <3>1, <3>3 DEF SlotsAlone, ReadDrafts, QueueOperation
      <3>4. ASSUME NEW v \in Workers, Works(v), v # w PROVE step'[w] = step[w]
        BY <3>4, WorksOnSlot
      <3>5. ASSUME NEW m \in Table, NEW a, Restart(m, a) PROVE FALSE
        BY <1>3, <3>5, RestartEffect DEF Relaunched
      <3>. QED
        BY <3>1, <3>2, <3>3, <3>4, <3>5, SlotSteps
    <2>2. CASE \E j \in 1..Len(opQueue) : job'[w] = opQueue[j]
      BY <1>3, <2>2 DEF Waits
    <2>. QED
      BY <1>3, <2>1, <2>2, QueueStep
  <1>. QED
    BY <1>1, <1>2, <1>3 DEF Waits

LEMMA WaitingWritten == ASSUME LifeInv, NEW d \in Drafts, Waits(d) PROVE mem[d].status # "Unborn"
  BY DEF LifeInv, Written, Waits

LEMMA FreshWaitStep ==
  ASSUME FreshInv, [Next]_vars, NEW d \in Drafts
  PROVE  FreshWait(d)'
  <1>. RaceInv /\ LifeInv /\ TypeOK
    BY DEF FreshInv, RaceInv, LifeInv
  <1>0. SUFFICES ASSUME d \notin refetched' PROVE FreshWait(d)'
    BY DEF FreshWait
  <1>1. d \notin refetched /\ FreshWait(d) /\ Single(d)
    BY <1>0, HistoryGrows DEF FreshInv
  <1>2. d \notin clashed' /\ d \notin clashed
    BY <1>0, <1>1, ClashStep DEF ClashNeedsRefetch, FreshInv
  <1>3. ASSUME mem[d].status # "Unborn", ~Live(d) PROVE ~Live(d)'
    BY <1>3, Forward
  <1>4. ASSUME Waits(d)' PROVE ~Live(d)' \/ mem'[d].status = "QueuedToSync"
    <2>1. CASE mem[d].status = "QueuedToSync" /\ UNCHANGED mem
      BY <2>1
    <2>2. CASE Waits(d) /\ ~Live(d)
      BY <1>3, <2>2, WaitingWritten
    <2>3. CASE Waits(d) /\ mem[d].status = "QueuedToSync"
      <3>1. ASSUME NEW v \in Workers, step[v] # "idle", job[v] = d PROVE step[v] = "started"
        BY <1>1, <2>3, <3>1 DEF Waits, Single
      <3>2. ~Marked(d) /\ ~Delivered(d)
        BY <1>2, <3>1 DEF Marked, Delivered, ClaimDraft, CreateFailed, OptyCreated
      <3>3. CASE SameStatus(d)
        BY <2>3, <3>3 DEF SameStatus
      <3>4. CASE Removed(d)
        BY <3>4, Statuses DEF Removed, Live
      <3>5. ~Edited(d)
        <4>1. Live(d) /\ mem[d].status # "Unborn"
          BY <2>3, Statuses DEF Live
        <4>. QED
          BY <1>2, <2>3, <4>1 DEF Edited, RaceInv, FormInv
      <3>6. ~Reread(d)
        <4>1. Relaunched => ~Waits(d)'
          BY DEF Relaunched, Waits
        <4>. QED
          BY <1>4, <4>1 DEF Reread
      <3>. QED
        BY <3>2, <3>3, <3>4, <3>5, <3>6, DraftCause DEF Change, Linked
    <2>. QED
      BY <1>1, <1>4, <2>1, <2>2, <2>3, WaitStep DEF FreshWait
  <1>5. ASSUME NEW w \in Workers, step'[w] \in {"rejecting", "finishing"}, job'[w] = d
        PROVE  ~Live(d)'
    <2>1. ASSUME step[w] # "idle", job[w] = d, ~Live(d) PROVE ~Live(d)'
      BY <1>3, <2>1 DEF LifeInv, Written
    <2>2. ASSUME step'[w] = step[w], job'[w] = job[w] PROVE ~Live(d)'
      BY <1>1, <1>5, <2>1, <2>2 DEF FreshWait
    <2>3. CASE Works(w)
      <3>1. CASE CheckStatus(w)
        <4>1. step[w] = "started" /\ job[w] = d /\ mem[d].status # "QueuedToSync"
          BY <1>5, <3>1, GotoEffect DEF CheckStatus
        <4>. QED
          BY <1>1, <2>1, <4>1 DEF FreshWait, Waits
      <3>2. CASE ReadForNotification(w)
        BY <1>1, <1>5, <2>1, <3>2 DEF ReadForNotification, FreshWait
      <3>3. CASE StartOperation(w) \/ ClaimDraft(w) \/ CheckRecord(w) \/ ServerCreates(w)
                 \/ OptyCreated(w) \/ AnswerSwallowed(w)
        BY <1>5, <3>3, GotoEffect DEF StartOperation, ClaimDraft, CheckRecord, ServerCreates, OptyCreated,
                                      AnswerSwallowed
      <3>4. CASE LinkCreated(w)
        <4>1. \E s \in {"sent", "stuck"}, k \in Kinds : Goto(w, s, k)
          BY <3>4 DEF LinkCreated, ContinueAfter, Kinds
        <4>. QED
          BY <1>5, <4>1, GotoEffect
      <3>5. CASE NotifyRejected(w) \/ CreateFailed(w) \/ ActivityAnswered(w)
        BY <1>5, <3>5, RetireEffect DEF NotifyRejected, CreateFailed, ActivityAnswered
      <3>. QED
        BY <2>3, <3>1, <3>2, <3>3, <3>4, <3>5 DEF Works, Operation
    <2>4. CASE SlotsAlone \/ \E p \in Passes : ReadDrafts(p) \/ QueueOperation(p)
      BY <2>2, <2>4 DEF SlotsAlone, ReadDrafts, QueueOperation
    <2>5. ASSUME NEW v \in Workers, Works(v), v # w PROVE ~Live(d)'
      BY <2>2, <2>5, WorksOnSlot
    <2>6. ASSUME NEW m \in Table, NEW a, Restart(m, a) PROVE FALSE
      BY <1>5, <2>6, RestartEffect DEF Relaunched
    <2>. QED
      BY <2>3, <2>4, <2>5, <2>6, SlotSteps
  <1>. QED
    BY <1>4, <1>5 DEF FreshWait

\* One network report yields one claim: operations clash over a draft only if it was
\* fetched again while the first of them was outstanding.
THEOREM ClashCorrect == Spec => []ClashNeedsRefetch
  <1>1. Init => FreshInv
    <2>1. ASSUME Init PROVE /\ clashed = {} /\ \A p \in Passes : batch[p] = {}
                            /\ \A i \in 1..Len(opQueue) : FALSE
                            /\ \A w \in Workers : step[w] = "idle"
      BY <2>1 DEF Init
    <2>. QED
      BY <2>1, RaceInit DEF FreshInv, ClashNeedsRefetch, FreshWait, Waits, Single
  <1>2. FreshInv /\ [Next]_vars => FreshInv'
    <2>. SUFFICES ASSUME FreshInv, [Next]_vars PROVE FreshInv'
      OBVIOUS
    <2>1. RaceInv'
      BY RaceStep DEF FreshInv
    <2>2. \A d \in Drafts : FreshWait(d)' /\ Single(d)'
      BY FreshWaitStep, SingleStep
    <2>. QED
      BY <2>1, <2>2, ClashStep DEF FreshInv
  <1>3. FreshInv => ClashNeedsRefetch
    BY DEF FreshInv
  <1>. QED
    BY <1>1, <1>2, <1>3, PTL DEF Spec

-----------------------------------------------------------------------------
(* A record is created once.                                               *)

Excused(d, k) == k \in lost[d] \/ d \in clashed \/ (k = "opty" /\ d \in reopened)

\* The app knows that the server has the record, or is being told.
Known(d, k) == \/ Excused(d, k) \/ mem[d].status \in Final \/ mem[d][k] = "id"
               \/ \E w \in Workers : step[w] = "made" /\ job[w] = d /\ kind[w] = k

\* What the server has, the app knows of; what is requested, the server has not.
Counted ==
    /\ \A w \in Workers : step[w] = "made" => server[job[w]][kind[w]] >= 1
    /\ \A w \in Workers : step[w] = "sent" => server[job[w]][kind[w]] = 0 \/ Excused(job[w], kind[w])
    /\ \A d \in Drafts, k \in Kinds : server[d][k] >= 1 => Known(d, k)

CountInv == RaceInv /\ Counted /\ CreatedOnce

LEMMA ServerStep ==
  ASSUME TypeOK, [Next]_vars, NEW d \in Drafts, NEW k \in Kinds
  PROVE  /\ server[d][k] \in 0..2
         /\ \/ server'[d][k] = server[d][k]
            \/ /\ server'[d][k] = OneMore(server[d][k])
               /\ \/ \E w \in Workers : ServerCreates(w) /\ job[w] = d /\ kind[w] = k
                  \/ SubmitOnline /\ form.draft = d /\ k = "opty"
  <1>. DEFINE Goal == \/ server'[d][k] = server[d][k]
                      \/ /\ server'[d][k] = OneMore(server[d][k])
                         /\ \/ \E w \in Workers : ServerCreates(w) /\ job[w] = d /\ kind[w] = k
                            \/ SubmitOnline /\ form.draft = d /\ k = "opty"
  <1>0. server[d][k] \in 0..2 /\ server \in [Drafts -> [Kinds -> 0..2]]
    BY DEF TypeOK
  <1>1. ASSUME \/ ScreenStep \/ Discarded \/ SaveAsDraft \/ QueueDraft
               \/ \E p \in Passes : ReadDrafts(p) \/ QueueOperation(p)
        PROVE  Goal
    <2>1. UNCHANGED server
      BY <1>1 DEF ScreenStep, Discarded, SaveAsDraft, QueueDraft, ReadDrafts, QueueOperation
    <2>. QED
      BY <2>1
  <1>2. ASSUME NEW w \in Workers, Works(w) PROVE Goal
    <2>1. CASE ServerCreates(w)
      <3>. DEFINE n == OneMore(server[job[w]][kind[w]])
      <3>1. server' = [server EXCEPT ![job[w]] = [@ EXCEPT ![kind[w]] = n]]
        BY <2>1 DEF ServerCreates
      <3>2. CASE job[w] = d /\ kind[w] = k
        <4>1. server'[d][k] = n
          <5>. HIDE DEF n
          <5>. QED
            BY <1>0, <3>1, <3>2
        <4>. QED
          BY <2>1, <3>2, <4>1
      <3>3. CASE ~(job[w] = d /\ kind[w] = k)
        <4>. HIDE DEF n
        <4>. QED
          BY <1>0, <3>1, <3>3
      <3>. QED
        BY <3>2, <3>3
    <2>2. CASE Operation(w)
      <3>1. UNCHANGED server
        BY <2>2 DEF Operation, StartOperation, CheckStatus, ClaimDraft, ReadForNotification,
                    NotifyRejected, CheckRecord
      <3>. QED
        BY <3>1
    <2>3. CASE LinkCreated(w) \/ OptyCreated(w) \/ CreateFailed(w) \/ ActivityAnswered(w) \/ AnswerSwallowed(w)
      <3>1. UNCHANGED server
        BY <2>3 DEF LinkCreated, OptyCreated, CreateFailed, ActivityAnswered, AnswerSwallowed
      <3>. QED
        BY <3>1
    <2>. QED
      BY <1>2, <2>1, <2>2, <2>3 DEF Works
  <1>3. ASSUME NEW m \in Table, NEW a, Restart(m, a) PROVE Goal
    <2>1. UNCHANGED server
      BY <1>3, RestartEffect
    <2>. QED
      BY <2>1
  <1>4. ASSUME SubmitOnline PROVE Goal
    <2>. DEFINE n == OneMore(server[form.draft].opty)
    <2>1. server' = [server EXCEPT ![form.draft] = [@ EXCEPT !["opty"] = n]]
      BY <1>4 DEF SubmitOnline
    <2>2. CASE form.draft = d /\ k = "opty"
      <3>1. server'[d][k] = n
        <4>. HIDE DEF n
        <4>. QED
          BY <1>0, <2>1, <2>2
      <3>2. n = OneMore(server[d][k])
        BY <2>2
      <3>. QED
        BY <1>4, <2>2, <3>1, <3>2
    <2>3. CASE ~(form.draft = d /\ k = "opty")
      <3>. HIDE DEF n
      <3>. QED
        BY <1>0, <2>1, <2>3
    <2>. QED
      BY <2>2, <2>3
  <1>. QED
    BY <1>0, <1>1, <1>2, <1>3, <1>4, StepCases

LEMMA ExcusedStays ==
  ASSUME TypeOK, [Next]_vars, NEW d \in Drafts, NEW k, Excused(d, k)
  PROVE  Excused(d, k)'
  BY HistoryGrows DEF Excused

\* A record the server has just made for a form is known, one way or the other.
LEMMA SubmitEffect ==
  ASSUME LifeInv, SubmitOnline, NEW d \in Drafts, form.draft = d
  PROVE  Known(d, "opty")'
  <1>. TypeOK /\ mem \in Table
    BY DEF LifeInv, TypeOK, Table
  <1>1. CASE lost' = [lost EXCEPT ![d] = @ \cup {"opty"}]
    <2>1. "opty" \in lost'[d]
      BY <1>1 DEF TypeOK
    <2>. QED
      BY <2>1 DEF Known, Excused
  <1>2. CASE mem' = [mem EXCEPT ![d] = IF Live(d) \/ @.status = "Unborn" THEN Gone("Synced") ELSE @]
    <2>1. mem[d].status \in Status
      BY DEF Table, DraftRecord
    <2>2. mem'[d].status \in Final
      <3>1. CASE Live(d) \/ mem[d].status = "Unborn"
        <4>1. mem'[d] = Gone("Synced")
          BY <1>2, <3>1 DEF Table
        <4>. QED
          BY <4>1 DEF Gone, Final
      <3>2. CASE ~(Live(d) \/ mem[d].status = "Unborn")
        <4>1. mem'[d] = mem[d]
          BY <1>2, <3>2 DEF Table
        <4>. QED
          BY <2>1, <3>2, <4>1, Statuses DEF Live
      <3>. QED
        BY <3>1, <3>2
    <2>. QED
      BY <2>2 DEF Known
  <1>. QED
    BY <1>1, <1>2 DEF SubmitOnline

\* An answer about to arrive arrives, is lost, or keeps coming.
LEMMA MadeStep ==
  ASSUME RaceInv, [Next]_vars, NEW w \in Workers, step[w] = "made", NEW d, job[w] = d, NEW k, kind[w] = k
  PROVE  Known(d, k)'
  <1>. LifeInv /\ TypeOK /\ mem \in Table
    BY DEF RaceInv, LifeInv, TypeOK, Table
  <1>0. d \in Drafts /\ k \in Kinds /\ mem[d].status # "Unborn" /\ mem[d].status \in Status
    BY DEF TypeOK, LifeInv, Written, Table, DraftRecord
  <1>1. ~Live(d) => mem'[d].status \in Final
    BY <1>0, Forward, Statuses DEF Live
  <1>2. CASE step'[w] = "made" /\ job'[w] = job[w] /\ kind'[w] = kind[w]
    BY <1>2 DEF Known
  <1>3. CASE LinkCreated(w)
    <2>1. CASE Live(d) /\ w \notin orphaned
      <3>1. mem'[d][k] = "id"
        BY <1>0, <1>3, <2>1, LinkCreatedEffect
      <3>. QED
        BY <3>1 DEF Known
    <2>2. CASE Live(d) /\ w \in orphaned
      <3>1. d \in clashed
        BY <2>2 DEF RaceInv, StepStatus
      <3>. QED
        BY <3>1, HistoryGrows DEF Known, Excused
    <2>3. CASE ~Live(d)
      BY <1>1, <2>3 DEF Known
    <2>. QED
      BY <2>1, <2>2, <2>3
  <1>4. CASE OptyCreated(w)
    <2>1. CASE Live(d)
      <3>1. k = "opty" /\ mem'[d].opty = "id"
        BY <1>0, <1>4, <2>1, RegisteredEffect DEF OptyCreated
      <3>. QED
        BY <3>1 DEF Known
    <2>2. CASE ~Live(d)
      BY <1>1, <2>2 DEF Known
    <2>. QED
      BY <2>1, <2>2
  <1>5. CASE CreateFailed(w)
    <2>1. lost' = [lost EXCEPT ![d] = @ \cup {k}]
      BY <1>5 DEF CreateFailed
    <2>2. k \in lost'[d]
      BY <1>0, <2>1 DEF TypeOK
    <2>. QED
      BY <2>2 DEF Known, Excused
  <1>6. ASSUME NEW m \in Table, NEW a, Restart(m, a)
        PROVE  Known(d, k)'
    <2>1. CASE w \notin a
      <3>1. k \in lost'[d]
        BY <1>0, <1>6, <2>1, RestartEffect
      <3>. QED
        BY <3>1 DEF Known, Excused
    <2>2. CASE w \in a
      <3>1. kind[w] = "opty" /\ m = Registered(job[w])
        BY <1>6, <2>2 DEF Restart
      <3>2. CASE Live(d)
        <4>1. m[d].opty = "id"
          BY <1>0, <3>1, <3>2, RegisteredEffect
        <4>2. mem'[d]["opty"] = m[d]["opty"]
          BY <1>0, <1>6, <3>1, RestartEffect, ResetEffect
        <4>. QED
          BY <3>1, <4>1, <4>2 DEF Known
      <3>3. CASE ~Live(d)
        BY <1>1, <3>3 DEF Known
      <3>. QED
        BY <3>2, <3>3
    <2>. QED
      BY <2>1, <2>2
  <1>7. CASE SlotsAlone \/ \E p \in Passes : ReadDrafts(p) \/ QueueOperation(p)
    BY <1>2, <1>7 DEF SlotsAlone, ReadDrafts, QueueOperation
  <1>8. ASSUME NEW v \in Workers, Works(v), v # w PROVE Known(d, k)'
    BY <1>2, <1>8, WorksOnSlot
  <1>9. CASE Works(w)
    BY <1>3, <1>4, <1>5, <1>9 DEF Works, Operation, StartOperation, CheckStatus, ClaimDraft,
       ReadForNotification, NotifyRejected, CheckRecord, ServerCreates, ActivityAnswered, AnswerSwallowed
  <1>. QED
    BY <1>6, <1>7, <1>8, <1>9, SlotSteps

\* What the app knows it keeps knowing.
LEMMA KnownStays ==
  ASSUME RaceInv, [Next]_vars, NEW d \in Drafts, NEW k \in Kinds, Known(d, k)
  PROVE  Known(d, k)'
  <1>. LifeInv /\ TypeOK
    BY DEF RaceInv, LifeInv
  <1>1. CASE Excused(d, k)
    BY <1>1, ExcusedStays DEF Known
  <1>2. CASE mem[d].status \in Final
    BY <1>2, Forward DEF Known
  <1>3. CASE mem[d][k] = "id" /\ d \notin clashed
    <2>1. Live(d)
      BY <1>3 DEF LifeInv, Empty
    <2>2. CASE SameLinks(d)
      BY <1>3, <2>2 DEF SameLinks, Known
    <2>3. CASE Removed(d)
      BY <2>3 DEF Removed, Known
    <2>4. CASE Linked(d)
      BY <1>3, <2>4 DEF Linked, Known
    <2>5. CASE Delivered(d)
      BY <1>3, <2>5 DEF Delivered, Known
    <2>6. CASE Edited(d)
      BY <1>3, <2>1, <2>6 DEF Edited, RaceInv, FormInv, Kinds, Known
    <2>7. CASE Reread(d)
      BY <1>3, <2>7 DEF Reread, SameLinks, Known
    <2>. QED
      BY <2>2, <2>3, <2>4, <2>5, <2>6, <2>7, DraftCause DEF Change, Marked
  <1>4. CASE d \in clashed
    BY <1>4, HistoryGrows DEF Known, Excused
  <1>5. CASE \E w \in Workers : step[w] = "made" /\ job[w] = d /\ kind[w] = k
    BY <1>5, MadeStep
  <1>. QED
    BY <1>1, <1>2, <1>3, <1>4, <1>5 DEF Known

\* Nothing is known of a record that a draft does not have an identifier for, and
\* that no other operation of the draft asks for.
LEMMA NotYetMade ==
  ASSUME RaceInv, NEW w \in Workers, Working(w), NEW d, job[w] = d, NEW k \in Kinds,
         step[w] # "made" \/ kind[w] # k, mem[d][k] = "new", Known(d, k)
  PROVE  Excused(d, k)
  <1>. d \in Drafts
    BY DEF RaceInv, LifeInv, TypeOK, Working
  <1>1. mem[d].status \notin Final
    BY Statuses DEF RaceInv, LifeInv, Empty, Live
  <1>2. ASSUME NEW v \in Workers, step[v] = "made", job[v] = d, kind[v] = k PROVE d \in clashed
    <2>1. v # w /\ Working(v)
      BY <1>2 DEF Working
    <2>. QED
      BY <1>2, <2>1 DEF RaceInv, OneEach
  <1>. QED
    BY <1>1, <1>2 DEF Known, Excused

LEMMA SentStep ==
  ASSUME CountInv, [Next]_vars, NEW w \in Workers, step'[w] = "sent",
         NEW d, d = job[w], NEW k, k = kind'[w]
  PROVE  job'[w] = d /\ (server'[d][k] = 0 \/ Excused(d, k)')
  <1>. RaceInv /\ LifeInv /\ TypeOK /\ mem \in Table /\ Counted
    BY DEF CountInv, RaceInv, LifeInv, TypeOK, Table
  <1>1. /\ job'[w] = d /\ d \in Drafts /\ step[w] # "idle"
        /\ (step'[w] = step[w] /\ kind'[w] = kind[w]) \/ Works(w)
    BY WorkStep DEF Working
  <1>2. k \in Kinds
    BY TypeStep DEF TypeOK
  <1>3. SUFFICES server'[d][k] = 0 \/ Excused(d, k)'
    BY <1>1
  <1>4. ASSUME Excused(d, k) PROVE Excused(d, k)'
    BY <1>1, <1>4, ExcusedStays
  <1>5. CASE step'[w] = step[w] /\ kind'[w] = kind[w]
    <2>1. step[w] = "sent" /\ kind[w] = k /\ job[w] = d /\ Working(w)
      BY <1>5 DEF Working
    <2>2. server[d][k] = 0 \/ Excused(d, k)
      BY <2>1 DEF Counted, Excused
    <2>3. CASE server'[d][k] = server[d][k]
      BY <1>4, <2>2, <2>3
    <2>4. ASSUME NEW v \in Workers, ServerCreates(v), job[v] = d PROVE Excused(d, k)
      <3>1. v # w /\ Working(v)
        BY <1>5, <2>1, <2>4, GotoEffect DEF ServerCreates, Working
      <3>. QED
        BY <2>1, <2>4, <3>1 DEF RaceInv, OneEach, Excused
    <2>5. ASSUME SubmitOnline, form.draft = d, k = "opty" PROVE Excused(d, k)
      <3>1. CASE d \in clashed
        BY <3>1 DEF Excused
      <3>2. CASE d \notin clashed
        <4>1. ~Live(d) /\ mem[d].status # "Unborn"
          BY <1>1, <2>1, <2>5, <3>2, NotInForm DEF LifeInv, Written
        <4>2. mem[d].status \in Final
          BY <1>1, <4>1, Statuses DEF Table, DraftRecord, Live
        <4>. QED
          BY <1>1, <2>5, <3>2, <4>2 DEF RaceInv, FormInv, Excused
      <3>. QED
        BY <3>1, <3>2
    <2>. QED
      BY <1>1, <1>2, <1>4, <2>3, <2>4, <2>5, ServerStep
  <1>6. ASSUME UNCHANGED server, mem[d][k] = "new", Working(w), step[w] # "made" \/ kind[w] # k
        PROVE  server'[d][k] = 0 \/ Excused(d, k)'
    <2>1. server[d][k] \in 0..2 /\ job[w] = d
      BY <1>1, <1>2, ServerStep
    <2>2. server[d][k] >= 1 => Excused(d, k)
      BY <1>1, <1>2, <1>6, <2>1, NotYetMade DEF Counted
    <2>. QED
      BY <1>4, <1>6, <2>1, <2>2
  <1>7. CASE CheckRecord(w)
    <2>1. step[w] = "next" /\ kind[w] = k /\ mem[d][k] = "new" /\ UNCHANGED server
      <3>1. /\ step[w] = "next" /\ UNCHANGED server
            /\ Missing(job[w], kind[w]) /\ Goto(w, "sent", kind[w])
        <4>1. \A l : ~Goto(w, "next", l) /\ ~Goto(w, "stuck", l)
          BY GotoEffect
        <4>. QED
          BY <1>7, <4>1 DEF CheckRecord
      <3>2. kind[w] = k
        BY <3>1, GotoEffect
      <3>. QED
        BY <3>1, <3>2 DEF Missing
    <2>. QED
      BY <1>6, <2>1 DEF Working
  <1>8. CASE LinkCreated(w)
    <2>1. \E l \in Kinds : /\ Goto(w, "sent", l) \/ Goto(w, "stuck", "opty")
                           /\ Goto(w, "sent", l) => l # kind[w] /\ mem'[d][l] = "new"
      <3>1. ContinueAfter(w, mem'[d], kind[w]) /\ kind[w] \in Kinds /\ kind[w] # "opty"
        BY <1>8 DEF LinkCreated, TypeOK
      <3>2. CASE kind[w] = "contact" /\ mem'[d].account = "new" /\ Goto(w, "sent", "account")
        BY <3>2 DEF Kinds
      <3>3. CASE mem'[d].opty = "new" /\ Goto(w, "sent", "opty")
        BY <3>1, <3>3 DEF Kinds
      <3>4. CASE Goto(w, "stuck", "opty")
        BY <3>4, GotoEffect
      <3>. QED
        BY <3>1, <3>2, <3>3, <3>4 DEF ContinueAfter
    <2>2. k # kind[w] /\ mem'[d][k] = "new"
      BY <2>1, GotoEffect
    <2>3. mem[d][k] = "new"
      <3>1. kind[w] \in Kinds
        BY DEF TypeOK
      <3>2. \A l \in Kinds : l # kind[w] => mem'[d][l] = mem[d][l]
        BY <1>1, <1>8, <3>1, LinkCreatedEffect
      <3>. QED
        BY <1>2, <2>2, <3>2
    <2>4. step[w] = "made" /\ UNCHANGED server
      BY <1>8 DEF LinkCreated
    <2>. QED
      BY <1>6, <2>2, <2>3, <2>4 DEF Working
  <1>9. ~ServerCreates(w) /\ ~OptyCreated(w) /\ ~AnswerSwallowed(w)
    BY GotoEffect DEF ServerCreates, OptyCreated, AnswerSwallowed
  <1>10. ~CreateFailed(w) /\ ~ActivityAnswered(w) /\ ~NotifyRejected(w)
    BY RetireEffect DEF CreateFailed, ActivityAnswered, NotifyRejected
  <1>11. ~StartOperation(w) /\ ~CheckStatus(w) /\ ~ClaimDraft(w) /\ ~ReadForNotification(w)
    BY GotoEffect DEF StartOperation, CheckStatus, ClaimDraft, ReadForNotification
  <1>. QED
    BY <1>1, <1>5, <1>7, <1>8, <1>9, <1>10, <1>11 DEF Works, Operation

\* A record that is created a second time is one that was lost, or clashed over, or
\* an opportunity that the form did not know of.
LEMMA AgainStep ==
  ASSUME CountInv, [Next]_vars, NEW d \in Drafts, NEW k \in Kinds, server[d][k] >= 1,
         server'[d][k] # server[d][k]
  PROVE  Excused(d, k)
  <1>. RaceInv /\ LifeInv /\ TypeOK /\ mem \in Table /\ Counted
    BY DEF CountInv, RaceInv, LifeInv, TypeOK, Table
  <1>1. ASSUME NEW w \in Workers, ServerCreates(w), job[w] = d, kind[w] = k PROVE Excused(d, k)
    <2>1. step[w] = "sent"
      BY <1>1 DEF ServerCreates
    <2>. QED
      BY <1>1, <2>1 DEF Counted
  <1>2. ASSUME SubmitOnline, form.draft = d, k = "opty" PROVE Excused(d, k)
    <2>1. SUFFICES ASSUME d \notin clashed PROVE k \in lost[d] \/ d \in reopened
      BY <1>2 DEF Excused
    <2>2. Known(d, k) /\ FormInv(d)
      BY DEF Counted, RaceInv
    <2>3. CASE mem[d].status \in Final
      BY <1>2, <2>1, <2>2, <2>3 DEF FormInv
    <2>4. CASE mem[d].opty = "id"
      <3>1. Live(d)
        BY <2>4 DEF LifeInv, Empty, Kinds
      <3>. QED
        BY <1>2, <2>1, <2>2, <2>4, <3>1 DEF FormInv
    <2>5. ASSUME NEW w \in Workers, step[w] = "made", job[w] = d PROVE mem[d].status \in Final
      <3>1. ~Live(d) /\ mem[d].status # "Unborn"
        BY <1>2, <2>1, <2>5, NotInForm DEF LifeInv, Written
      <3>. QED
        BY <3>1, Statuses DEF Table, DraftRecord, Live
    <2>. QED
      BY <1>2, <2>1, <2>2, <2>3, <2>4, <2>5 DEF Known, Excused
  <1>. QED
    BY <1>1, <1>2, ServerStep

LEMMA CountStep ==
  ASSUME CountInv, [Next]_vars
  PROVE  CountInv'
  <1>. RaceInv /\ LifeInv /\ TypeOK /\ Counted /\ CreatedOnce
    BY DEF CountInv, RaceInv, LifeInv
  <1>1. ASSUME NEW w \in Workers, step'[w] = "made" PROVE server'[job'[w]][kind'[w]] >= 1
    <2>1. /\ job'[w] = job[w] /\ job[w] \in Drafts /\ kind[w] \in Kinds
          /\ (step'[w] = step[w] /\ kind'[w] = kind[w]) \/ Works(w)
      BY <1>1, WorkStep DEF Working, TypeOK
    <2>2. server[job[w]][kind[w]] \in 0..2
          /\ server'[job[w]][kind[w]] \in {server[job[w]][kind[w]], OneMore(server[job[w]][kind[w]])}
      BY <2>1, ServerStep
    <2>3. CASE step'[w] = step[w] /\ kind'[w] = kind[w]
      <3>1. server[job[w]][kind[w]] >= 1
        BY <1>1, <2>3 DEF Counted
      <3>. QED
        BY <2>1, <2>2, <2>3, <3>1, OneMoreType
    <2>4. CASE ServerCreates(w)
      <3>. DEFINE n == OneMore(server[job[w]][kind[w]])
      <3>1. kind'[w] = kind[w] /\ server' = [server EXCEPT ![job[w]] = [@ EXCEPT ![kind[w]] = n]]
        BY <2>4, GotoEffect DEF ServerCreates
      <3>2. n \in 1..2
        BY <2>2, OneMoreType
      <3>. HIDE DEF n
      <3>3. server'[job[w]][kind[w]] = n
        BY <2>1, <3>1 DEF TypeOK
      <3>. QED
        BY <2>1, <3>1, <3>2, <3>3
    <2>5. ~Operation(w) /\ ~OptyCreated(w) /\ ~AnswerSwallowed(w)
      BY <1>1, GotoEffect, RetireEffect DEF Operation, StartOperation, CheckStatus, ClaimDraft,
         ReadForNotification, NotifyRejected, CheckRecord, OptyCreated, AnswerSwallowed
    <2>6. ~LinkCreated(w) /\ ~CreateFailed(w) /\ ~ActivityAnswered(w)
      <3>1. LinkCreated(w) => \E s \in {"sent", "stuck"}, k \in Kinds : Goto(w, s, k)
        BY DEF LinkCreated, ContinueAfter, Kinds
      <3>. QED
        BY <1>1, <3>1, GotoEffect, RetireEffect DEF CreateFailed, ActivityAnswered
    <2>. QED
      BY <2>1, <2>3, <2>4, <2>5, <2>6 DEF Works
  <1>2. \A w \in Workers : step'[w] = "sent" =>
            \/ server'[job'[w]][kind'[w]] = 0
            \/ kind'[w] \in lost'[job'[w]] \/ job'[w] \in clashed'
            \/ kind'[w] = "opty" /\ job'[w] \in reopened'
    BY SentStep DEF Excused
  <1>3. ASSUME NEW d \in Drafts, NEW k \in Kinds, server'[d][k] >= 1 PROVE Known(d, k)'
    <2>1. CASE server[d][k] >= 1
      BY <2>1, KnownStays DEF Counted
    <2>2. ASSUME NEW w \in Workers, ServerCreates(w), job[w] = d, kind[w] = k PROVE Known(d, k)'
      <3>1. step'[w] = "made" /\ kind'[w] = k /\ job'[w] = d
        BY <2>2, GotoEffect DEF ServerCreates
      <3>. QED
        BY <3>1 DEF Known
    <2>3. CASE SubmitOnline /\ form.draft = d /\ k = "opty"
      BY <2>3, SubmitEffect
    <2>. QED
      BY <1>3, <2>1, <2>2, <2>3, ServerStep
  <1>4. ASSUME NEW d \in Drafts, NEW k \in Kinds, server'[d][k] = 2 PROVE Excused(d, k)'
    <2>1. Excused(d, k) => Excused(d, k)'
      BY ExcusedStays
    <2>2. CASE server[d][k] = 2
      BY <2>1, <2>2 DEF CreatedOnce, Excused
    <2>3. CASE server[d][k] = 1
      BY <1>4, <2>1, <2>3, AgainStep
    <2>4. CASE server[d][k] = 0
      <3>1. server'[d][k] \in {0, 1}
        BY <2>4, ServerStep DEF OneMore
      <3>. QED
        BY <1>4, <3>1
    <2>. QED
      BY <2>2, <2>3, <2>4, ServerStep
  <1>5. Counted'
    BY <1>1, <1>2, <1>3 DEF Counted, Excused
  <1>. QED
    BY <1>4, <1>5, RaceStep DEF CountInv, CreatedOnce, Excused

\* No relaunch between two steps of an operation, no retry after a failure and no
\* edit creates a record again whose answer came in.
THEOREM OnceCreated == Spec => []CreatedOnce
  <1>1. Init => CountInv
    <2>1. ASSUME Init PROVE /\ \A w \in Workers : step[w] = "idle"
                            /\ \A d \in Drafts, k \in Kinds : server[d][k] = 0
      BY <2>1 DEF Init
    <2>. QED
      BY <2>1, RaceInit DEF CountInv, Counted, CreatedOnce
  <1>2. CountInv /\ [Next]_vars => CountInv'
    BY CountStep
  <1>3. CountInv => CreatedOnce
    BY DEF CountInv
  <1>. QED
    BY <1>1, <1>2, <1>3, PTL DEF Spec

-----------------------------------------------------------------------------
(* What the app shows of its drafts, and what the database holds of them,  *)
(* implement DraftDelivery.                                                *)

Phase == PhaseOf(mem)
Records == [d \in Drafts |-> server[d].opty]

\* The phase of one draft.
Word(s) == PhaseOfStatus[s]

Shown(d) == Word(mem[d].status)

\* What a step of DraftDelivery does to a draft.
DeliveryMove(d) ==
    \/ /\ Phase[d] = "unwritten" /\ Phase' = [Phase EXCEPT ![d] = "pending"]
       /\ Records' = Records
    \/ /\ Phase[d] = "pending" /\ Phase' = [Phase EXCEPT ![d] = "discarded"]
       /\ Records' = Records
    \/ /\ Phase[d] = "pending" /\ Phase' = [Phase EXCEPT ![d] = "delivered"]
       /\ Records' = Records /\ Records[d] >= 1
    \/ /\ Phase' = Phase
       /\ Records' = [Records EXCEPT ![d] = OneMore(Records[d])]
    \/ /\ Phase[d] \in {"unwritten", "pending"} /\ Phase' = [Phase EXCEPT ![d] = "delivered"]
       /\ Records' = [Records EXCEPT ![d] = OneMore(Records[d])]

Delivers == (Phase' = Phase /\ Records' = Records) \/ \E d \in Drafts : DeliveryMove(d)

LEMMA Words ==
  /\ Word("Unborn") = "unwritten" /\ Word("Synced") = "delivered" /\ Word("Discarded") = "discarded"
  /\ \A s \in DraftStatus : Word(s) = "pending"
  BY DEF Word, PhaseOfStatus, Status, DraftStatus, GoneStatus

LEMMA PhaseWords == \A m : PhaseOf(m) = [d \in Drafts |-> Word(m[d].status)]
  BY DEF PhaseOf, Word

LEMMA ShownValues ==
  ASSUME NEW d \in Drafts
  PROVE  /\ Phase[d] = Shown(d)
         /\ mem[d].status = "Unborn" => Shown(d) = "unwritten"
         /\ mem[d].status = "Synced" => Shown(d) = "delivered"
         /\ mem[d].status = "Discarded" => Shown(d) = "discarded"
         /\ mem[d].status \in DraftStatus => Shown(d) = "pending"
  BY Words, PhaseWords DEF Shown, Phase

LEMMA ShownValuesNext ==
  ASSUME NEW d \in Drafts
  PROVE  /\ Phase'[d] = Shown(d)'
         /\ mem'[d].status = "Unborn" => Shown(d)' = "unwritten"
         /\ mem'[d].status = "Synced" => Shown(d)' = "delivered"
         /\ mem'[d].status = "Discarded" => Shown(d)' = "discarded"
         /\ mem'[d].status \in DraftStatus => Shown(d)' = "pending"
  <1>1. Phase' = [e \in Drafts |-> Word(mem'[e].status)]
    BY DEF Phase, PhaseOf, Word
  <1>. QED
    BY <1>1, Words DEF Shown

LEMMA PhaseStays ==
  ASSUME \A e \in Drafts : Shown(e)' = Shown(e)
  PROVE  Phase' = Phase
  <1>1. Phase = [e \in Drafts |-> Shown(e)] /\ Phase' = [e \in Drafts |-> Shown(e)']
    BY DEF Phase, PhaseOf, Shown, Word
  <1>. QED
    BY <1>1

LEMMA PhaseMoves ==
  ASSUME NEW d \in Drafts, NEW x, \A e \in Drafts : Shown(e)' = IF e = d THEN x ELSE Shown(e)
  PROVE  Phase' = [Phase EXCEPT ![d] = x]
  <1>1. Phase = [e \in Drafts |-> Shown(e)] /\ Phase' = [e \in Drafts |-> Shown(e)']
    BY DEF Phase, PhaseOf, Shown, Word
  <1>. QED
    BY <1>1

\* A draft that is deleted moves on, unless it has gone already.
LEMMA DeletedMove ==
  ASSUME mem \in Table, NEW d \in Drafts, NEW s \in Final, Delete(d, s), Records' = Records,
         s = "Synced" => Records[d] >= 1
  PROVE  Delivers
  <1>1. s \in Status
    BY Statuses
  <1>2. \A e \in Drafts : mem'[e].status = IF e = d /\ Live(e) THEN s ELSE mem[e].status
    BY <1>1, DeleteEffect, GoneType
  <1>3. CASE ~Live(d)
    <2>1. \A e \in Drafts : Shown(e)' = Shown(e)
      BY <1>2, <1>3 DEF Shown
    <2>. QED
      BY <2>1, PhaseStays DEF Delivers
  <1>4. CASE Live(d)
    <2>1. Phase[d] = "pending"
      BY <1>4, ShownValues DEF Live
    <2>2. ASSUME NEW x, s = "Synced" => x = "delivered", s = "Discarded" => x = "discarded"
          PROVE  Phase' = [Phase EXCEPT ![d] = x]
      <3>1. mem'[d].status = s
        BY <1>2, <1>4
      <3>2. Shown(d)' = x
        BY <2>2, <3>1, ShownValuesNext DEF Final
      <3>3. \A e \in Drafts : e # d => Shown(e)' = Shown(e)
        BY <1>2 DEF Shown
      <3>. QED
        BY <3>2, <3>3, PhaseMoves
    <2>3. s \in {"Synced", "Discarded"}
      BY DEF Final
    <2>4. DeliveryMove(d)
      BY <2>1, <2>2, <2>3 DEF DeliveryMove
    <2>. QED
      BY <2>4 DEF Delivers
  <1>. QED
    BY <1>3, <1>4

LEMMA DeliveryStep ==
  ASSUME DeliveryInv, LifeInv, [Next]_vars
  PROVE  Delivers
  <1>. TypeOK /\ mem \in Table /\ server \in [Drafts -> [Kinds -> 0..2]] /\ "opty" \in Kinds
    BY DEF LifeInv, TypeOK, Table, Kinds
  <1>0. ASSUME server' = server PROVE Records' = Records
    BY <1>0 DEF Records
  <1>1. ASSUME \A e \in Drafts : Shown(e)' = Shown(e), server' = server PROVE Delivers
    BY <1>0, <1>1, PhaseStays DEF Delivers
  <1>2. ASSUME NEW d \in Drafts, server' = [server EXCEPT ![d] = [@ EXCEPT !["opty"] = OneMore(server[d].opty)]]
        PROVE  Records' = [Records EXCEPT ![d] = OneMore(Records[d])]
    <2>. DEFINE n == OneMore(server[d].opty)
    <2>1. \A e \in Drafts : server'[e].opty = IF e = d THEN n ELSE server[e].opty
      <3>1. server' = [server EXCEPT ![d] = [server[d] EXCEPT !["opty"] = n]]
        BY <1>2
      <3>. HIDE DEF n
      <3>. QED
        BY <3>1
    <2>2. n = OneMore(Records[d])
      BY DEF Records
    <2>. HIDE DEF n
    <2>. QED
      BY <2>1, <2>2 DEF Records
  <1>3. CASE ScreenStep \/ \E p \in Passes : ReadDrafts(p) \/ QueueOperation(p)
    BY <1>1, <1>3 DEF ScreenStep, ReadDrafts, QueueOperation, Shown
  <1>4. CASE Discarded
    <2>1. PICK d \in Drafts : Delete(d, "Discarded") /\ server' = server
      BY <1>4 DEF Discarded, TypeOK
    <2>. QED
      BY <1>0, <2>1, DeletedMove DEF Final
  <1>5. ASSUME NEW w \in Workers, Works(w) PROVE Delivers
    <2>1. CASE \/ StartOperation(w) \/ CheckStatus(w) \/ ReadForNotification(w) \/ CheckRecord(w)
               \/ AnswerSwallowed(w)
      <3>1. UNCHANGED <<mem, server>>
        BY <2>1 DEF StartOperation, CheckStatus, ReadForNotification, CheckRecord, AnswerSwallowed
      <3>. QED
        BY <1>1, <3>1 DEF Shown
    <2>2. ASSUME NEW s \in Status, SetStatus(job[w], s), s \in DraftStatus \/ ~Live(job[w]), server' = server
          PROVE  Delivers
      <3>1. ASSUME NEW e \in Drafts PROVE Shown(e)' = Shown(e)
        <4>1. mem'[e].status = IF e = job[w] /\ Live(e) THEN s ELSE mem[e].status
          BY <2>2, SetStatusEffect
        <4>2. CASE e = job[w] /\ Live(e)
          BY <2>2, <4>1, <4>2, ShownValues, ShownValuesNext DEF Live
        <4>3. CASE ~(e = job[w] /\ Live(e))
          BY <4>1, <4>3 DEF Shown
        <4>. QED
          BY <4>2, <4>3
      <3>. QED
        BY <1>1, <2>2, <3>1
    <2>3. CASE ClaimDraft(w)
      BY <2>2, <2>3, Statuses DEF ClaimDraft
    <2>4. CASE CreateFailed(w)
      BY <2>2, <2>4, Statuses DEF CreateFailed, FailedStatus
    <2>5. CASE NotifyRejected(w)
      <3>1. /\ Observe(job[w], seen[w]) /\ step[w] = "finishing" /\ seen[w] \in Status /\ job[w] \in Drafts
            /\ seen[w] \in DraftStatus \/ ~Live(job[w])
            /\ seen[w] = "SyncSuccess" => Reached(job[w])
            /\ server' = server
        BY <2>5 DEF NotifyRejected, TypeOK, LifeInv, Announces, DeliveryInv, Knows
      <3>2. CASE UNCHANGED mem
        BY <1>1, <3>1, <3>2 DEF Shown
      <3>3. CASE seen[w] = "SyncSuccess" /\ Delete(job[w], "Synced")
        <4>1. Records[job[w]] >= 1 /\ Records' = Records
          BY <1>0, <3>1, <3>3 DEF Reached, Records
        <4>. QED
          BY <3>1, <3>3, <4>1, DeletedMove DEF Final
      <3>. QED
        BY <2>2, <3>1, <3>2, <3>3 DEF Observe
    <2>6. CASE LinkCreated(w)
      <3>1. \A e \in Drafts : mem'[e].status = mem[e].status
        BY <2>6, LinkCreatedEffect DEF TypeOK
      <3>2. server' = server
        BY <2>6 DEF LinkCreated
      <3>. QED
        BY <1>1, <3>1, <3>2 DEF Shown
    <2>7. CASE OptyCreated(w)
      <3>1. mem' = Registered(job[w]) /\ server' = server
        BY <2>7 DEF OptyCreated
      <3>2. ASSUME NEW e \in Drafts PROVE Shown(e)' = Shown(e)
        <4>1. CASE e = job[w] /\ Live(e)
          <5>1. mem'[e].status = "SyncSuccess"
            BY <3>1, <4>1, RegisteredEffect
          <5>. QED
            BY <4>1, <5>1, ShownValues, ShownValuesNext, Statuses DEF Live
        <4>2. CASE ~(e = job[w] /\ Live(e))
          <5>1. mem'[e] = mem[e]
            BY <3>1, <4>2, RegisteredEffect
          <5>. QED
            BY <5>1 DEF Shown
        <4>. QED
          BY <4>1, <4>2
      <3>. QED
        BY <1>1, <3>1, <3>2
    <2>8. CASE ActivityAnswered(w)
      <3>1. Delete(job[w], "Synced") /\ job[w] \in Drafts /\ Reached(job[w]) /\ server' = server
        BY <2>8 DEF ActivityAnswered, TypeOK, DeliveryInv, Knows
      <3>2. Records[job[w]] >= 1 /\ Records' = Records
        BY <1>0, <3>1 DEF Reached, Records
      <3>. QED
        BY <3>1, <3>2, DeletedMove DEF Final
    <2>9. CASE ServerCreates(w)
      <3>1. PICK d \in Drafts, k \in Kinds : /\ job[w] = d /\ kind[w] = k
        BY <2>9 DEF ServerCreates, TypeOK
      <3>2. Phase' = Phase
        BY <2>9, PhaseStays DEF ServerCreates, Shown
      <3>3. CASE k = "opty"
        <4>1. server' = [server EXCEPT ![d] = [@ EXCEPT !["opty"] = OneMore(server[d].opty)]]
          BY <2>9, <3>1, <3>3 DEF ServerCreates
        <4>2. DeliveryMove(d)
          BY <1>2, <3>2, <4>1 DEF DeliveryMove
        <4>. QED
          BY <4>2 DEF Delivers
      <3>4. CASE k # "opty"
        <4>. DEFINE n == OneMore(server[d][k])
        <4>1. server' = [server EXCEPT ![d] = [@ EXCEPT ![k] = n]]
          BY <2>9, <3>1 DEF ServerCreates
        <4>2. \A e \in Drafts : server'[e]["opty"] = server[e]["opty"]
          <5>. HIDE DEF n
          <5>. QED
            BY <3>4, <4>1
        <4>3. Records' = Records
          BY <4>2 DEF Records
        <4>. QED
          BY <3>2, <4>3 DEF Delivers
      <3>. QED
        BY <3>3, <3>4
    <2>. QED
      BY <1>5, <2>1, <2>3, <2>4, <2>5, <2>6, <2>7, <2>8, <2>9 DEF Works, Operation
  <1>6. ASSUME NEW m \in Table, NEW a, Restart(m, a) PROVE Delivers
    <2>1. ASSUME NEW e \in Drafts PROVE Shown(e)' = Shown(e)
      <3>1. Reread(e) /\ Agreed(e) /\ mem[e].status \in Status
        BY <1>6, RestartChange DEF LifeInv, Table, DraftRecord
      <3>2. CASE mem[e].status \in DraftStatus
        <4>1. mem'[e].status \in DraftStatus
          BY <3>1, <3>2, Statuses DEF Reread, Agreed
        <4>. QED
          BY <3>2, <4>1, ShownValues, ShownValuesNext
      <3>3. CASE mem[e].status \notin DraftStatus
        <4>1. mem'[e].status = mem[e].status
          BY <3>1, <3>3, Statuses DEF Reread, Agreed, Live
        <4>. QED
          BY <4>1 DEF Shown
      <3>. QED
        BY <3>2, <3>3
    <2>2. server' = server
      BY <1>6, RestartEffect
    <2>. QED
      BY <1>1, <2>1, <2>2
  <1>7. ASSUME NEW s \in DraftStatus, WriteDraft(s), server' = server PROVE Delivers
    <2>1. \A e \in Drafts : Live(e) => e # form.draft \/ mem'[e].status = s
      BY <1>7, FormLinks, WriteDraftEffect
    <2>2. \A e \in Drafts : e # form.draft \/ (~Live(e) /\ mem[e].status # "Unborn") => mem'[e] = mem[e]
      <3>1. \A e \in Drafts : mem[e].status \in Status
        BY DEF Table, DraftRecord
      <3>. QED
        BY <1>7, <3>1, FormLinks, WriteDraftEffect, Statuses DEF Live, Final
    <2>3. ASSUME NEW e \in Drafts, ~(e = form.draft /\ mem[e].status = "Unborn") PROVE Shown(e)' = Shown(e)
      <3>1. CASE e = form.draft /\ Live(e)
        BY <2>1, <3>1, ShownValues, ShownValuesNext DEF Live
      <3>2. CASE ~(e = form.draft /\ Live(e))
        <4>1. mem'[e] = mem[e]
          BY <2>2, <2>3, <3>2
        <4>. QED
          BY <4>1 DEF Shown
      <3>. QED
        BY <3>1, <3>2
    <2>4. CASE \A e \in Drafts : Shown(e)' = Shown(e)
      BY <1>1, <1>7, <2>4
    <2>5. CASE \E e \in Drafts : e = form.draft /\ mem[e].status = "Unborn"
      <3>1. PICK d \in Drafts : d = form.draft /\ mem[d].status = "Unborn"
        BY <2>5
      <3>2. mem'[d].status = s
        BY <1>7, <3>1, FormLinks, WriteDraftEffect
      <3>3. Phase[d] = "unwritten" /\ Shown(d)' = "pending"
        BY <3>1, <3>2, ShownValues, ShownValuesNext
      <3>4. \A e \in Drafts : Shown(e)' = IF e = d THEN "pending" ELSE Shown(e)
        BY <2>3, <3>1, <3>3
      <3>5. Phase' = [Phase EXCEPT ![d] = "pending"]
        BY <3>4, PhaseMoves
      <3>6. DeliveryMove(d)
        BY <1>0, <1>7, <3>3, <3>5 DEF DeliveryMove
      <3>. QED
        BY <3>6 DEF Delivers
    <2>. QED
      BY <2>3, <2>4, <2>5
  <1>8. CASE SaveAsDraft \/ QueueDraft
    BY <1>7, <1>8, Statuses DEF SaveAsDraft, QueueDraft
  <1>9. CASE SubmitOnline
    <2>1. PICK d \in Drafts : d = form.draft
      BY <1>9 DEF SubmitOnline, TypeOK
    <2>2. server' = [server EXCEPT ![d] = [@ EXCEPT !["opty"] = OneMore(server[d].opty)]]
      BY <1>9, <2>1 DEF SubmitOnline
    <2>3. Records' = [Records EXCEPT ![d] = OneMore(Records[d])]
      BY <1>2, <2>2
    <2>4. ASSUME \A e \in Drafts : Shown(e)' = Shown(e) PROVE Delivers
      BY <2>3, <2>4, PhaseStays DEF Delivers, DeliveryMove
    <2>5. CASE UNCHANGED mem
      BY <2>4, <2>5 DEF Shown
    <2>6. CASE mem' = [mem EXCEPT ![d] = IF Live(d) \/ @.status = "Unborn" THEN Gone("Synced") ELSE @]
      <3>1. \A e \in Drafts : mem'[e] = IF e = d /\ (Live(d) \/ mem[d].status = "Unborn")
                                        THEN Gone("Synced") ELSE mem[e]
        BY <2>6 DEF Table
      <3>2. CASE ~(Live(d) \/ mem[d].status = "Unborn")
        BY <2>4, <3>1, <3>2 DEF Shown
      <3>3. CASE Live(d) \/ mem[d].status = "Unborn"
        <4>1. mem'[d].status = "Synced"
          BY <3>1, <3>3 DEF Gone
        <4>2. Shown(d)' = "delivered" /\ Phase[d] \in {"unwritten", "pending"}
          BY <3>3, <4>1, ShownValues, ShownValuesNext DEF Live
        <4>3. \A e \in Drafts : e # d => Shown(e)' = Shown(e)
          BY <3>1 DEF Shown
        <4>4. Phase' = [Phase EXCEPT ![d] = "delivered"]
          BY <4>2, <4>3, PhaseMoves
        <4>5. DeliveryMove(d)
          BY <2>3, <4>2, <4>4 DEF DeliveryMove
        <4>. QED
          BY <4>5 DEF Delivers
      <3>. QED
        BY <3>2, <3>3
    <2>. QED
      BY <1>9, <2>1, <2>5, <2>6 DEF SubmitOnline
  <1>. QED
    BY <1>3, <1>4, <1>5, <1>6, <1>8, <1>9, StepCases

\* The database tells the same story as the objects in memory.
LEMMA SameStory == ASSUME LifeInv PROVE PhaseOf(store) = PhaseOf(mem)
  <1>1. \A d \in Drafts : Word(store[d].status) = Word(mem[d].status)
    BY Words DEF LifeInv, Agreed
  <1>. QED
    BY <1>1, PhaseWords

LEMMA MemoryMoves == Delivers => [Memory!Next]_<<PhaseOf(mem), [d \in Drafts |-> server[d].opty]>>
  <1>. SUFFICES ASSUME NEW d \in Drafts, DeliveryMove(d) PROVE Memory!Next
    BY DEF Delivers, Phase, Records
  <1>1. \/ Memory!Write(d) \/ Memory!Discard(d) \/ Memory!Deliver(d)
        \/ Memory!Register(d) \/ Memory!RegisterAndDeliver(d)
    BY DEF DeliveryMove, Phase, Records, OneMore, Memory!Write, Memory!Discard, Memory!Deliver,
           Memory!Register, Memory!RegisterAndDeliver
  <1>. QED
    BY <1>1 DEF Memory!Next

LEMMA DatabaseMoves ==
  ASSUME LifeInv, LifeInv', Delivers
  PROVE  [Database!Next]_<<PhaseOf(store), [d \in Drafts |-> server[d].opty]>>
  <1>1. PhaseOf(store) = Phase
    BY SameStory DEF Phase
  <1>2. PhaseOf(store)' = Phase'
    <2>1. \A d \in Drafts : Word(store'[d].status) = Word(mem'[d].status)
      BY Words DEF LifeInv, Agreed
    <2>2. PhaseOf(store)' = [d \in Drafts |-> Word(store'[d].status)]
      BY DEF PhaseOf, Word
    <2>3. Phase' = [d \in Drafts |-> Word(mem'[d].status)]
      BY DEF Phase, PhaseOf, Word
    <2>. QED
      BY <2>1, <2>2, <2>3
  <1>. SUFFICES ASSUME NEW d \in Drafts, DeliveryMove(d) PROVE Database!Next
    BY <1>1, <1>2 DEF Delivers, Records
  <1>3. \/ Database!Write(d) \/ Database!Discard(d) \/ Database!Deliver(d)
        \/ Database!Register(d) \/ Database!RegisterAndDeliver(d)
    BY <1>1, <1>2 DEF DeliveryMove, Records, OneMore, Database!Write, Database!Discard,
       Database!Deliver, Database!Register, Database!RegisterAndDeliver
  <1>. QED
    BY <1>3 DEF Database!Next

LEMMA DeliveryStart == Init => Memory!Init /\ Database!Init
  <1>. SUFFICES ASSUME Init PROVE Memory!Init /\ Database!Init
    OBVIOUS
  <1>1. \A d \in Drafts : mem[d].status = "Unborn" /\ server[d].opty = 0
    BY DEF Init, Gone, Kinds
  <1>2. PhaseOf(mem) = [d \in Drafts |-> "unwritten"] /\ PhaseOf(store) = PhaseOf(mem)
    BY <1>1, Words, PhaseWords, LifeInit, SameStory
  <1>. QED
    BY <1>1, <1>2 DEF Memory!Init, Database!Init

\* The draft machinery, as the objects in memory tell it, delivers what DraftDelivery
\* promises: an opportunity the user entered stays pending until the server has it or
\* the user discards it, and either end is final.
THEOREM MemoryDelivered == Spec => MemoryDelivers
  <1>1. Init => LifeInv /\ DeliveryInv /\ Memory!Init
    BY LifeInit, DeliveryInit, DeliveryStart
  <1>2. LifeInv /\ DeliveryInv /\ [Next]_vars => (LifeInv /\ DeliveryInv)'
    BY LifeStep, DeliveryKept
  <1>3. LifeInv /\ DeliveryInv /\ [Next]_vars
        => [Memory!Next]_<<PhaseOf(mem), [d \in Drafts |-> server[d].opty]>>
    BY DeliveryStep, MemoryMoves
  <1>. QED
    BY <1>1, <1>2, <1>3, PTL DEF Spec, MemoryDelivers, Memory!Spec

\* So does the database, whose drafts a launch reads back: no save that is left out
\* and no restart makes it tell another story.
THEOREM DatabaseDelivered == Spec => DatabaseDelivers
  <1>1. Init => LifeInv /\ DeliveryInv /\ Database!Init
    BY LifeInit, DeliveryInit, DeliveryStart
  <1>2. LifeInv /\ DeliveryInv /\ [Next]_vars => (LifeInv /\ DeliveryInv)'
    BY LifeStep, DeliveryKept
  <1>3. LifeInv /\ LifeInv' /\ DeliveryInv /\ [Next]_vars
        => [Database!Next]_<<PhaseOf(store), [d \in Drafts |-> server[d].opty]>>
    BY DeliveryStep, DatabaseMoves
  <1>. QED
    BY <1>1, <1>2, <1>3, PTL DEF Spec, DatabaseDelivers, Database!Spec
=============================================================================
