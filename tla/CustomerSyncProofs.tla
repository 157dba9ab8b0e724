------------------------- MODULE CustomerSyncProofs -------------------------
(***************************************************************************)
(* Theorems about CustomerSync, for any number of drafts, slots, queued    *)
(* operations and relaunches.                                              *)
(***************************************************************************)
EXTENDS CustomerSync, FiniteSetTheorems, SequenceTheorems, TLAPS

USE DEF device, manager, workers, ui, outside, history

-----------------------------------------------------------------------------
(* What the helpers do to the drafts.                                      *)

Status == GoneStatus \cup DraftStatus
Table == [Drafts -> DraftRecord]

\* What SetStatus and SaveAll leave of each draft.
LEMMA SetStatusEffect ==
  ASSUME mem \in Table, NEW d, NEW s \in Status, SetStatus(d, s)
  PROVE  /\ mem' \in Table
         /\ \A e \in Drafts : /\ mem'[e].status = IF e = d /\ Live(e) THEN s ELSE mem[e].status
                              /\ mem'[e].id = mem[e].id
<1> DEFINE r == [mem[d] EXCEPT !.status = IF Live(d) THEN s ELSE @]
<1>1. mem' = [mem EXCEPT ![d] = r]
  BY DEF SetStatus
<1>2. d \in Drafts => /\ r \in DraftRecord
                      /\ r.status = IF Live(d) THEN s ELSE mem[d].status
                      /\ r.id = mem[d].id
  BY DEF Table, DraftRecord, Status
<1> HIDE DEF r
<1> QED
  BY <1>1, <1>2 DEF Table

LEMMA GoneType ==
  ASSUME NEW s \in Status
  PROVE  /\ Gone(s) \in DraftRecord /\ Gone(s).status = s /\ ~Gone(s).id
         /\ Fresh(s) \in DraftRecord /\ Fresh(s).status = s /\ ~Fresh(s).id
  BY DEF Gone, Fresh, DraftRecord, Status

LEMMA DeleteEffect ==
  ASSUME mem \in Table, NEW d, NEW s \in Status, Delete(d, s)
  PROVE  /\ mem' \in Table /\ store' = mem'
         /\ \A e \in Drafts : /\ mem'[e].status = IF e = d /\ Live(e) THEN s ELSE mem[e].status
                              /\ mem'[e].id = IF e = d /\ Live(e) THEN FALSE ELSE mem[e].id
<1>1. mem' = [mem EXCEPT ![d] = IF Live(d) THEN Gone(s) ELSE mem[d]] /\ store' = mem'
  BY DEF Delete, SaveAll
<1>2. mem' \in Table /\ \A e \in Drafts : mem'[e] = IF e = d /\ Live(e) THEN Gone(s) ELSE mem[e]
  BY <1>1, GoneType DEF Table
<1>3. Gone(s).status = s /\ Gone(s).id = FALSE
  BY DEF Gone
<1>4. ASSUME NEW e \in Drafts
      PROVE  /\ mem'[e].status = IF e = d /\ Live(e) THEN s ELSE mem[e].status
             /\ mem'[e].id = IF e = d /\ Live(e) THEN FALSE ELSE mem[e].id
  <2>1. CASE e = d /\ Live(e)
    BY <1>2, <1>3, <2>1
  <2>2. CASE ~(e = d /\ Live(e))
    BY <1>2, <2>2
  <2> QED
    BY <2>1, <2>2
<1> QED
  BY <1>1, <1>2, <1>4

LEMMA InsertEffect ==
  ASSUME mem \in Table, NEW d \in Drafts, NEW s \in Status, Insert(d, s)
  PROVE  /\ mem' \in Table /\ store' = mem' /\ stranded' = stranded
         /\ mem[d].status = "Unborn" /\ mem'[d].status = s /\ ~mem'[d].id
         /\ \A e \in Drafts : e # d => mem'[e] = mem[e]
  BY GoneType DEF Insert, SaveAll, Table

LEMMA UpdateEffect ==
  ASSUME mem \in Table, NEW d, NEW s \in Status, Update(d, s)
  PROVE  /\ mem' \in Table /\ store' = mem' /\ stranded' = stranded \ {d}
         /\ \A e \in Drafts : /\ mem'[e].status = IF e = d /\ Live(e) THEN s ELSE mem[e].status
                              /\ mem'[e].id = mem[e].id
  BY SetStatusEffect DEF Update, SaveAll

\* What the database holds when the process dies in the success block.
LEMMA IdSavedEffect ==
  ASSUME mem \in Table, NEW d \in Drafts
  PROVE  LET m == [mem EXCEPT ![d].id = Live(d)]
         IN  /\ m \in Table
             /\ \A e \in Drafts : /\ m[e].status = mem[e].status
                                  /\ m[e].id = IF e = d THEN Live(e) ELSE mem[e].id
<1> DEFINE r == [mem[d] EXCEPT !.id = Live(d)]
<1>1. /\ r \in DraftRecord /\ r.status = mem[d].status /\ r.id = Live(d)
  <2>1. mem[d] \in DraftRecord /\ Live(d) \in BOOLEAN
    BY DEF Table, Live
  <2> QED
    BY <2>1 DEF DraftRecord
<1>2. [mem EXCEPT ![d].id = Live(d)] = [mem EXCEPT ![d] = r]
  OBVIOUS
<1> HIDE DEF r
<1> QED
  BY <1>1, <1>2 DEF Table

LEMMA ObserveEffect ==
  ASSUME mem \in Table, store \in Table, NEW d, NEW s \in Status, Observe(d, s)
  PROVE  /\ mem' \in Table /\ store' \in Table /\ listed' \subseteq listed
         /\ s # "SyncSuccess" =>
              /\ store' = store
              /\ \A e \in Drafts :
                   /\ mem'[e].status = IF e = d /\ d \in listed /\ Live(e) THEN s ELSE mem[e].status
                   /\ mem'[e].id = mem[e].id
<1>1. CASE d \notin listed
  BY <1>1 DEF Observe
<1>2. CASE d \in listed /\ s = "SyncSuccess"
  <2>1. Delete(d, "Synced") /\ listed' = listed \ {d} /\ "Synced" \in Status
    BY <1>2 DEF Observe, Status, GoneStatus
  <2> QED
    BY <1>2, <2>1, DeleteEffect
<1>3. CASE d \in listed /\ s # "SyncSuccess"
  <2>1. SetStatus(d, s) /\ UNCHANGED <<store, listed>>
    BY <1>3 DEF Observe
  <2> QED
    BY <1>3, <2>1, SetStatusEffect
<1> QED
  BY <1>1, <1>2, <1>3

-----------------------------------------------------------------------------
(* What they do to the slots.                                              *)

LEMMA GotoEffect ==
  ASSUME TypeOK, NEW w \in Workers, NEW s \in Steps, Goto(w, s)
  PROVE  /\ step' \in [Workers -> Steps]
         /\ \A v \in Workers : step'[v] = IF v = w THEN s ELSE step[v]
  BY DEF TypeOK, Goto

LEMMA RetireEffect ==
  ASSUME TypeOK, NEW w \in Workers, Retire(w)
  PROVE  /\ step' \in [Workers -> Steps]
         /\ job' \in [Workers -> Drafts \cup {NoDraft}]
         /\ seen' \in [Workers -> Status]
         /\ \A v \in Workers : /\ step'[v] = IF v = w THEN "idle" ELSE step[v]
                               /\ v # w => job'[v] = job[v] /\ seen'[v] = seen[v]
                               /\ step'[v] # "idle" => job'[v] \in Drafts
         /\ seen'[w] = "Unborn"
<1>1. Goto(w, "idle") /\ "idle" \in Steps
  BY DEF Retire, Steps
<1>2. step' \in [Workers -> Steps] /\ \A v \in Workers : step'[v] = IF v = w THEN "idle" ELSE step[v]
  BY <1>1, GotoEffect
<1>3. /\ job' \in [Workers -> Drafts \cup {NoDraft}] /\ seen' \in [Workers -> Status]
      /\ \A v \in Workers : v # w => job'[v] = job[v] /\ seen'[v] = seen[v]
      /\ seen'[w] = "Unborn"
  BY DEF Retire, TypeOK, Status, GoneStatus
<1> QED
  BY <1>2, <1>3 DEF TypeOK

\* A launch: whatever the database holds, nothing else survives.
LEMMA LaunchEffect ==
  ASSUME TypeOK, NEW m \in Table, NEW a, Launch(m, a)
  PROVE  /\ mem' = m /\ store' = m /\ opQueue' = <<>>
         /\ \A w \in Workers : step'[w] = "idle" /\ seen'[w] = "Unborn"
         /\ form' = NoForm
         /\ UNCHANGED <<server, clashed, reopened, leftBehind>>
         /\ \A d \in Drafts : d \in lost' <=> \/ d \in lost
                                              \/ \E w \in Workers \ a : step[w] = "made" /\ job[w] = d
         /\ stranded' = {d \in Drafts : m[d].status = "Syncing"}
  BY DEF Launch

-----------------------------------------------------------------------------
(* Type correctness.                                                       *)

LEMMA LaunchType ==
  ASSUME TypeOK, NEW m \in Table, NEW a, Launch(m, a), launches' \in 0..MaxLaunches
  PROVE  TypeOK'
<1>1. opQueue' \in Seq(Drafts)
  BY DEF Launch
<1>2. /\ step' \in [Workers -> Steps] /\ job' \in [Workers -> Drafts \cup {NoDraft}]
      /\ seen' \in [Workers -> Status]
      /\ \A w \in Workers : step'[w] # "idle" => job'[w] \in Drafts
  BY DEF Launch, Steps, Status, GoneStatus
<1>3. lost' \cup clashed' \cup reopened' \cup stranded' \cup leftBehind' \subseteq Drafts
  BY DEF Launch, TypeOK
<1>4. /\ mem' \in Table /\ store' \in Table /\ reading' \in BOOLEAN
      /\ listed' \subseteq Drafts /\ asked' \in Nat /\ form' = NoForm /\ confirming' = FALSE
      /\ UNCHANGED <<online, server>>
  BY DEF Launch
<1> QED
  BY <1>1, <1>2, <1>3, <1>4 DEF TypeOK, Table, Status

LEMMA NetworkType ==
  ASSUME TypeOK, NetworkAvailable \/ NetworkLost \/ OtherSave \/ PinScreenShown PROVE TypeOK'
<1>1. CASE NetworkAvailable
  BY <1>1 DEF TypeOK, NetworkAvailable
<1>4. CASE NetworkLost
  BY <1>4 DEF TypeOK, NetworkLost
<1>2. CASE OtherSave
  BY <1>2 DEF TypeOK, OtherSave, SaveAll
<1>3. CASE PinScreenShown
  BY <1>3 DEF TypeOK, PinScreenShown
<1> QED
  BY <1>1, <1>2, <1>3, <1>4

\* The fetched drafts are drafts, in some order.
LEMMA FetchedType ==
  ASSUME NEW fetched \in SetToSeqs(ToSync)
  PROVE  /\ fetched \in Seq(Drafts)
         /\ \A i \in 1..Len(fetched) : fetched[i] \in ToSync
<1> DEFINE n == Cardinality(ToSync)
<1>1. n \in Nat
  BY DraftsAssumption, FS_Subset, FS_CardinalityType DEF ToSync
<1>2. fetched \in [1..n -> ToSync]
  BY DEF SetToSeqs
<1> HIDE DEF n
<1>3. fetched \in Seq(ToSync)
  BY <1>1, <1>2, IsASeq
<1> QED
  BY <1>3, ElementOfSeq DEF ToSync

LEMMA QueueType ==
  ASSUME TypeOK, QueueOperations
  PROVE  /\ TypeOK'
         /\ \A i \in 1..Len(opQueue') : \/ \E j \in 1..Len(opQueue) : opQueue'[i] = opQueue[j]
                                        \/ opQueue'[i] \in ToSync
<1>1. PICK fetched \in SetToSeqs(ToSync) : opQueue' = opQueue \o fetched
  BY DEF QueueOperations
<1>2. /\ opQueue \in Seq(Drafts) /\ fetched \in Seq(Drafts)
      /\ \A i \in 1..Len(fetched) : fetched[i] \in ToSync
  BY FetchedType DEF TypeOK
<1>3. opQueue' \in Seq(Drafts)
  BY <1>1, <1>2
<1>4. /\ Len(opQueue) \in Nat /\ Len(fetched) \in Nat
      /\ Len(opQueue') = Len(opQueue) + Len(fetched)
      /\ \A i \in 1..Len(opQueue') : opQueue'[i] = IF i <= Len(opQueue) THEN opQueue[i]
                                                   ELSE fetched[i - Len(opQueue)]
  BY <1>1, <1>2, ConcatProperties, LenProperties
<1>5. ASSUME NEW i \in 1..Len(opQueue')
      PROVE  (\E j \in 1..Len(opQueue) : opQueue'[i] = opQueue[j]) \/ opQueue'[i] \in ToSync
  <2>1. CASE i <= Len(opQueue)
    BY <1>4, <2>1
  <2>2. CASE ~(i <= Len(opQueue))
    <3>1. i - Len(opQueue) \in 1..Len(fetched)
      BY <1>4, <2>2
    <3> QED
      BY <1>2, <1>4, <2>2, <3>1
  <2> QED
    BY <2>1, <2>2
<1> QED
  BY <1>3, <1>5 DEF QueueOperations, TypeOK

LEMMA GotoType ==
  ASSUME TypeOK, NEW w \in Workers, step[w] # "idle", NEW s \in Steps, Goto(w, s), job' = job
  PROVE  /\ step' \in [Workers -> Steps] /\ job' \in [Workers -> Drafts \cup {NoDraft}]
         /\ \A v \in Workers : step'[v] # "idle" => job'[v] \in Drafts
  BY GotoEffect DEF TypeOK

LEMMA OperationType ==
  ASSUME TypeOK, NEW w \in Workers, Operation(w) PROVE TypeOK'
<1> mem \in Table /\ store \in Table
  BY DEF TypeOK, Table
<1> Steps = {"idle", "started", "claiming", "rejecting", "finishing",
             "next", "sent", "made", "stuck", "unanswered"}
  BY DEF Steps
<1>1. CASE StartOperation(w)
  <2>1. Head(opQueue) \in Drafts /\ Tail(opQueue) \in Seq(Drafts)
    BY <1>1, HeadTailProperties DEF StartOperation, TypeOK
  <2>2. step' \in [Workers -> Steps] /\ \A v \in Workers : step'[v] = IF v = w THEN "started" ELSE step[v]
    BY <1>1, GotoEffect DEF StartOperation
  <2>3. job' \in [Workers -> Drafts \cup {NoDraft}] /\ \A v \in Workers : step'[v] # "idle" => job'[v] \in Drafts
    BY <1>1, <2>1, <2>2 DEF StartOperation, TypeOK
  <2> QED
    BY <1>1, <2>1, <2>2, <2>3 DEF StartOperation, TypeOK
<1>2. CASE CheckStatus(w)
  <2>1. /\ step' \in [Workers -> Steps] /\ job' \in [Workers -> Drafts \cup {NoDraft}]
        /\ \A v \in Workers : step'[v] # "idle" => job'[v] \in Drafts
    BY <1>2, GotoType DEF CheckStatus
  <2>2. job[w] \in Drafts
    BY <1>2 DEF CheckStatus, TypeOK
  <2>3. clashed' \subseteq Drafts /\ reopened' \subseteq Drafts
    BY <1>2, <2>2 DEF CheckStatus, TypeOK
  <2> QED
    BY <1>2, <2>1, <2>3 DEF CheckStatus, TypeOK
<1>3. CASE ClaimDraft(w)
  <2>1. /\ step' \in [Workers -> Steps] /\ job' \in [Workers -> Drafts \cup {NoDraft}]
        /\ \A v \in Workers : step'[v] # "idle" => job'[v] \in Drafts
    BY <1>3, GotoType DEF ClaimDraft
  <2>2. mem' \in Table
    BY <1>3, SetStatusEffect DEF ClaimDraft, ClaimedStatus, Status, DraftStatus
  <2> QED
    BY <1>3, <2>1, <2>2 DEF ClaimDraft, TypeOK, Table
<1>4. CASE ReadForNotification(w)
  <2>1. /\ step' \in [Workers -> Steps] /\ job' \in [Workers -> Drafts \cup {NoDraft}]
        /\ \A v \in Workers : step'[v] # "idle" => job'[v] \in Drafts
    BY <1>4, GotoType DEF ReadForNotification
  <2>2. job[w] \in Drafts
    BY <1>4 DEF ReadForNotification, TypeOK
  <2>3. mem[job[w]].status \in Status
    BY <2>2 DEF Table, DraftRecord, Status
  <2>4. seen' \in [Workers -> Status]
    BY <1>4, <2>3 DEF ReadForNotification, TypeOK, Status
  <2> QED
    BY <1>4, <2>1, <2>4 DEF ReadForNotification, TypeOK, Status
<1>5. CASE NotifyRejected(w)
  <2>1. Observe(job[w], seen[w]) /\ Retire(w) /\ seen[w] \in Status
    BY <1>5 DEF NotifyRejected, TypeOK, Status
  <2>2. mem' \in Table /\ store' \in Table /\ listed' \subseteq Drafts
    BY <2>1, ObserveEffect DEF TypeOK
  <2>3. /\ step' \in [Workers -> Steps] /\ job' \in [Workers -> Drafts \cup {NoDraft}]
        /\ seen' \in [Workers -> Status]
        /\ \A v \in Workers : step'[v] # "idle" => job'[v] \in Drafts
    BY <2>1, RetireEffect
  <2>4. clashed' \subseteq Drafts
    BY <1>5 DEF NotifyRejected, TypeOK
  <2> QED
    BY <1>5, <2>2, <2>3, <2>4 DEF NotifyRejected, TypeOK, Table, Status
<1>6. CASE SendRequest(w)
  <2>1. /\ step' \in [Workers -> Steps] /\ job' \in [Workers -> Drafts \cup {NoDraft}]
        /\ \A v \in Workers : step'[v] # "idle" => job'[v] \in Drafts
    BY <1>6, GotoType DEF SendRequest
  <2> QED
    BY <1>6, <2>1 DEF SendRequest, TypeOK
<1> QED
  BY <1>1, <1>2, <1>3, <1>4, <1>5, <1>6 DEF Operation

LEMMA OneMoreType == ASSUME NEW n \in 0..2 PROVE OneMore(n) \in 1..2 /\ (n >= 1 <=> OneMore(n) = 2)
  BY DEF OneMore

\* An answer, or none.
LEMMA AnswerType ==
  ASSUME TypeOK, NEW w \in Workers,
         ServerCreates(w) \/ Created(w) \/ CreateFailed(w) \/ AnswerSwallowed(w)
  PROVE  TypeOK'
<1> mem \in Table /\ store \in Table
  BY DEF TypeOK, Table
<1> {"made", "unanswered"} \subseteq Steps /\ {"Synced", "SyncFailed"} \subseteq Status
  BY DEF Steps, Status, GoneStatus, DraftStatus
<1>0. step[w] # "idle" /\ job[w] \in Drafts
  BY DEF ServerCreates, Created, CreateFailed, AnswerSwallowed, TypeOK
<1>1. CASE ServerCreates(w)
  <2>1. /\ step' \in [Workers -> Steps] /\ job' \in [Workers -> Drafts \cup {NoDraft}]
        /\ \A v \in Workers : step'[v] # "idle" => job'[v] \in Drafts
    BY <1>0, <1>1, GotoType DEF ServerCreates
  <2>2. OneMore(server[job[w]]) \in 0..2
    BY <1>0, OneMoreType DEF TypeOK
  <2>3. server' \in [Drafts -> 0..2]
    BY <1>1, <2>2 DEF ServerCreates, TypeOK
  <2> QED
    BY <1>1, <2>1, <2>3 DEF ServerCreates, TypeOK
<1>2. ASSUME Retire(w), mem' \in Table, store' \in Table, listed' \subseteq Drafts, lost' \subseteq Drafts,
             UNCHANGED <<manager, asked, form, confirming, outside, clashed, reopened, stranded, leftBehind>>
      PROVE  TypeOK'
  <2>1. /\ step' \in [Workers -> Steps] /\ job' \in [Workers -> Drafts \cup {NoDraft}]
        /\ seen' \in [Workers -> Status]
        /\ \A v \in Workers : step'[v] # "idle" => job'[v] \in Drafts
    BY <1>2, RetireEffect
  <2> QED
    BY <1>2, <2>1 DEF TypeOK, Table, Status
<1>3. CASE Created(w)
  BY <1>2, <1>3, DeleteEffect DEF Created, TypeOK
<1>4. CASE CreateFailed(w)
  BY <1>0, <1>2, <1>4, SetStatusEffect DEF CreateFailed, FailedStatus, TypeOK
<1>5. CASE AnswerSwallowed(w)
  <2>1. /\ step' \in [Workers -> Steps] /\ job' \in [Workers -> Drafts \cup {NoDraft}]
        /\ \A v \in Workers : step'[v] # "idle" => job'[v] \in Drafts
    BY <1>0, <1>5, GotoType DEF AnswerSwallowed
  <2> QED
    BY <1>5, <2>1 DEF AnswerSwallowed, TypeOK
<1> QED
  BY <1>1, <1>3, <1>4, <1>5

LEMMA DeathType ==
  ASSUME TypeOK, Killed \/ Terminated \/ \E w \in Workers : KilledAfterSave(w)
  PROVE  TypeOK'
<1> mem \in Table /\ store \in Table
  BY DEF TypeOK, Table
<1>1. launches' \in 0..MaxLaunches
  <2>1. MayDie /\ launches' = launches + 1
    BY DEF Killed, Terminated, KilledAfterSave
  <2> QED
    BY <2>1, BoundsAssumption DEF MayDie, TypeOK
<1>2. CASE Killed \/ Terminated
  BY <1>1, <1>2, LaunchType DEF Killed, Terminated
<1>3. ASSUME NEW w \in Workers, KilledAfterSave(w) PROVE TypeOK'
  <2>1. job[w] \in Drafts
    BY <1>3 DEF KilledAfterSave, TypeOK
  <2>2. [mem EXCEPT ![job[w]].id = Live(job[w])] \in Table
    BY <2>1, IdSavedEffect
  <2> QED
    BY <1>1, <1>3, <2>2, LaunchType DEF KilledAfterSave
<1> QED
  BY <1>2, <1>3

LEMMA RowType == ASSUME TypeOK, NEW d \in Drafts PROVE Row(d) \in Nat
<1> DEFINE above == {e \in listed : e <= d}
<1>1. IsFiniteSet(above)
  BY DraftsAssumption, FS_Subset DEF TypeOK
<1>2. Row(d) = Cardinality(above)
  BY DEF Row
<1> HIDE DEF above
<1> QED
  BY <1>1, <1>2, FS_CardinalityType

LEMMA DraftsScreenType == ASSUME TypeOK, DraftsScreen PROVE TypeOK'
<1> mem \in Table /\ store \in Table /\ "Discarded" \in Status
  BY DEF TypeOK, Table, Status, GoneStatus
<1>1. CASE OpenDrafts \/ CloseDrafts \/ CancelDelete
  BY <1>1 DEF OpenDrafts, CloseDrafts, CancelDelete, TypeOK
<1>2. ASSUME NEW d \in Drafts, AskDelete(d) PROVE TypeOK'
  <2>1. asked' \in Nat
    BY <1>2, RowType DEF AskDelete
  <2> QED
    BY <1>2, <2>1 DEF AskDelete, TypeOK
<1>3. CASE ConfirmDelete
  <2>1. CASE Launch(store, {}) /\ UNCHANGED launches
    BY <2>1, LaunchType DEF TypeOK
  <2>2. ASSUME NEW d \in listed, Delete(d, "Discarded"), listed' = {e \in Drafts : Live(e)} \ {d}, asked' = 0,
               UNCHANGED <<manager, workers, form, confirming, outside, history>>
        PROVE  TypeOK'
    <3>1. mem' \in Table /\ store' \in Table
      BY <2>2, DeleteEffect
    <3> QED
      BY <2>2, <3>1 DEF TypeOK, Table
  <2> QED
    BY <1>3, <2>1, <2>2 DEF ConfirmDelete
<1> QED
  BY <1>1, <1>2, <1>3 DEF DraftsScreen

\* Where the form has been opened from.
LEMMA FormType ==
  ASSUME TypeOK
  PROVE  /\ form.from \in {"none", "home", "drafts"} /\ form.draft \in Drafts \cup {NoDraft}
         /\ form.from = "none" <=> form = NoForm
         /\ form.from = "drafts" => form.draft \in Drafts
         /\ form.from = "home" =>
              /\ form = [from |-> "home", draft |-> form.draft]
              /\ \A d : [form EXCEPT !.draft = d] = [from |-> "home", draft |-> d]
         /\ SubmittedWithout \subseteq Drafts
         /\ NoDraft \notin Drafts
<1>1. /\ form.from \in {"none", "home", "drafts"} /\ form.draft \in Drafts \cup {NoDraft}
      /\ form.from = "none" <=> form = NoForm
      /\ form.from = "drafts" => form.draft \in Drafts
  BY DEF TypeOK, NoForm
<1>2. form.from = "home" => form = [from |-> "home", draft |-> form.draft]
  BY DEF TypeOK, NoForm
<1> QED
  BY <1>1, <1>2, DraftsAssumption DEF SubmittedWithout

LEMMA ServerTakes ==
  ASSUME TypeOK, NEW d, ServerCreatesFor(d)
  PROVE  /\ server' \in [Drafts -> 0..2]
         /\ \A e \in Drafts : server'[e] = IF e = d THEN OneMore(server[e]) ELSE server[e]
<1>1. \A e \in Drafts : OneMore(server[e]) \in 0..2
  BY OneMoreType DEF TypeOK
<1> QED
  BY <1>1 DEF ServerCreatesFor, TypeOK

LEMMA FormScreenType == ASSUME TypeOK, FormScreen PROVE TypeOK'
<1> mem \in Table /\ store \in Table
  BY DEF TypeOK, Table
<1> {"SavedAsDraft", "QueuedToSync", "Synced"} \subseteq Status
  BY DEF Status, GoneStatus, DraftStatus
<1>1. CASE NewForm
  BY <1>1 DEF NewForm, TypeOK, NoForm
<1>2. ASSUME NEW d \in Drafts, OpenDraft(d) PROVE TypeOK'
  BY <1>2 DEF OpenDraft, TypeOK, NoForm
<1>3. CASE CloseForm
  BY <1>3 DEF CloseForm, TypeOK
<1>9. CASE SubmitOffline
  BY <1>9 DEF SubmitOffline, TypeOK
<1>4. CASE SaveAsDraft
  <2>1. ASSUME NEW d \in Drafts, form.draft = NoDraft,
               Insert(d, "SavedAsDraft"), form' = [form EXCEPT !.draft = d]
        PROVE  TypeOK'
    <3>1. mem' \in Table /\ store' \in Table /\ stranded' = stranded
      BY <2>1, InsertEffect
    <3>2. form' = [from |-> "home", draft |-> d] /\ ~confirming' /\ confirming' \in BOOLEAN
      BY <1>4, <2>1, FormType DEF SaveAsDraft, TypeOK
    <3> QED
      BY <1>4, <3>1, <3>2 DEF SaveAsDraft, TypeOK, Table
  <2>2. CASE Update(form.draft, "SavedAsDraft") /\ UNCHANGED form
    <3>1. mem' \in Table /\ store' \in Table /\ stranded' \subseteq stranded
      BY <2>2, UpdateEffect
    <3> QED
      BY <1>4, <2>2, <3>1 DEF SaveAsDraft, TypeOK, Table
  <2> QED
    BY <1>4, <2>1, <2>2 DEF SaveAsDraft
<1>5. CASE QueueDraft
  <2>1. mem' \in Table /\ store' \in Table /\ stranded' \subseteq stranded
    BY <1>5, InsertEffect, UpdateEffect DEF QueueDraft
  <2>2. leftBehind' \subseteq Drafts
    BY <1>5, FormType DEF QueueDraft, TypeOK
  <2> QED
    BY <1>5, <2>1, <2>2 DEF QueueDraft, TypeOK, Table
<1>6. CASE SubmitOnline
  <2>1. mem' \in Table /\ store' \in Table
    BY <1>6, DeleteEffect DEF SubmitOnline
  <2>2. leftBehind' \subseteq Drafts
    BY <1>6, FormType DEF SubmitOnline, TypeOK
  <2>3. server' \in [Drafts -> 0..2]
    BY <1>6, ServerTakes DEF SubmitOnline
  <2> QED
    BY <1>6, <2>1, <2>2, <2>3 DEF SubmitOnline, TypeOK, Table
<1>7. CASE SubmitOnlineWithoutDraft
  BY <1>7, LaunchType DEF SubmitOnlineWithoutDraft, TypeOK
<1>8. CASE SubmitOnlineFailed
  <2>1. server' \in [Drafts -> 0..2]
    BY <1>8, ServerTakes DEF SubmitOnlineFailed
  <2>2. lost' \subseteq Drafts
    BY <1>8, FormType DEF SubmitOnlineFailed, TypeOK
  <2> QED
    BY <1>8, <2>1, <2>2 DEF SubmitOnlineFailed, TypeOK
<1> QED
  BY <1>1, <1>2, <1>3, <1>4, <1>5, <1>6, <1>7, <1>8, <1>9 DEF FormScreen

LEMMA InitType == Init => TypeOK
<1> SUFFICES ASSUME Init PROVE TypeOK
  OBVIOUS
<1>1. mem \in Table /\ store \in Table
  BY GoneType DEF Init, Table, Status, GoneStatus
<1>2. opQueue \in Seq(Drafts)
  BY DEF Init
<1>3. /\ step \in [Workers -> Steps] /\ job \in [Workers -> Drafts \cup {NoDraft}]
      /\ seen \in [Workers -> GoneStatus \cup DraftStatus]
      /\ \A w \in Workers : step[w] = "idle"
  BY DEF Init, Steps, GoneStatus
<1>4. server \in [Drafts -> 0..2] /\ launches \in 0..MaxLaunches
  BY BoundsAssumption DEF Init
<1> QED
  BY <1>1, <1>2, <1>3, <1>4 DEF Init, TypeOK, Table

LEMMA TypeStep == TypeOK /\ [Next]_vars => TypeOK'
<1> SUFFICES ASSUME TypeOK, [Next]_vars PROVE TypeOK'
  OBVIOUS
<1>1. CASE UNCHANGED vars
  BY <1>1 DEF vars, TypeOK
<1> QED
  BY <1>1, NetworkType, QueueType, OperationType, AnswerType, DeathType, DraftsScreenType,
     FormScreenType DEF Next

\* Every variable keeps to its values, for any number of drafts, slots, queued operations and
\* relaunches; in particular no operation is at work on a draft that is not one.
THEOREM TypeCorrect == Spec => []TypeOK
  BY InitType, TypeStep, PTL DEF Spec

-----------------------------------------------------------------------------
(* The life of a draft.                                                    *)

\* An operation is about a draft that has been written.
Written ==
    /\ \A i \in 1..Len(opQueue) : mem[opQueue[i]].status # "Unborn"
    /\ \A w \in Workers : step[w] # "idle" => mem[job[w]].status # "Unborn"

\* Memory and database differ in the status of a draft that both have, if at all.
Agreed(d) ==
    /\ store[d].id = mem[d].id
    /\ store[d].status = mem[d].status \/ {store[d].status, mem[d].status} \subseteq DraftStatus

\* Nothing is called delivered before it is deleted.
NoSuccess(d) == mem[d].status # "SyncSuccess" /\ store[d].status # "SyncSuccess"

\* What an operation will announce is the status of a draft, or the draft has gone.
Announces(w) ==
    step[w] = "finishing" => /\ seen[w] # "SyncSuccess"
                             /\ seen[w] \in DraftStatus \/ ~Live(job[w])

LifeInv == /\ TypeOK /\ Written
           /\ \A d \in Drafts : Agreed(d) /\ NoSuccess(d)
           /\ \A w \in Workers : Announces(w)

Final == {"Synced", "Discarded"}
Pending == DraftStatus \ {"SyncSuccess"}

\* The ways of a draft: written once, pending under changing statuses, gone for good.
Moves(d) == LET x == mem[d].status
                y == mem'[d].status
            IN  \/ y = x
                \/ x = "Unborn" /\ y \in Pending
                \/ x \in Pending /\ y \in Pending \cup Final

\* The pending drafts of memory and database have another status and nothing else.
LEMMA Statuses == /\ DraftStatus = Pending \cup {"SyncSuccess"}
                  /\ Status = DraftStatus \cup Final \cup {"Unborn"}
                  /\ "Unborn" \notin DraftStatus \cup Final
                  /\ Final \cap DraftStatus = {} /\ "SyncSuccess" \notin Pending
                  /\ {"SavedAsDraft", "QueuedToSync", "Syncing", "SyncFailed"} = Pending
  BY DEF Status, GoneStatus, DraftStatus, Final, Pending

-----------------------------------------------------------------------------
(* Every step is one of a few.                                             *)

\* The process dies and is launched again, on what was saved last.
Restart(m, a) ==
    /\ Launch(m, a)
    /\ \/ m = store /\ a = {}
       \/ m = mem /\ a = {}
       \/ \E w \in Workers : /\ a = {w} /\ step[w] = "made"
                             /\ m = [mem EXCEPT ![job[w]].id = Live(job[w])]

\* The draft that a form shows from now on.
Shows(d) == Outstanding(d) \/ mem[d].id => d \in reopened'

\* A screen opens or closes, the network comes or goes, somebody saves.
ScreenStep ==
    /\ UNCHANGED <<mem, opQueue, workers, server, lost, clashed, stranded, leftBehind>>
    /\ store' = store \/ store' = mem
    /\ reopened \subseteq reopened'
    /\ form'.draft \in {form.draft, NoDraft} \/ Shows(form'.draft)

Discarded == \E d \in Drafts : /\ Delete(d, "Discarded")
                               /\ UNCHANGED <<manager, workers, form, outside, history>>

Works(w) == Operation(w) \/ ServerCreates(w) \/ Created(w) \/ CreateFailed(w) \/ AnswerSwallowed(w)

LEMMA StepCases ==
  ASSUME TypeOK, [Next]_vars
  PROVE  \/ ScreenStep \/ Discarded \/ QueueOperations
         \/ \E w \in Workers : Works(w)
         \/ \E m \in Table, a \in SUBSET Workers : Restart(m, a)
         \/ SaveAsDraft \/ QueueDraft \/ SubmitOnline \/ SubmitOnlineFailed
<1> mem \in Table /\ store \in Table
  BY DEF TypeOK, Table
<1>1. CASE NetworkAvailable \/ NetworkLost \/ OtherSave \/ PinScreenShown \/ UNCHANGED vars
  BY <1>1 DEF NetworkAvailable, NetworkLost, OtherSave, SaveAll, PinScreenShown, vars, ScreenStep
<1>2. CASE OpenDrafts \/ CloseDrafts \/ CancelDelete \/ \E d \in Drafts : AskDelete(d)
  BY <1>2 DEF OpenDrafts, CloseDrafts, CancelDelete, AskDelete, ScreenStep
<1>3. CASE NewForm \/ CloseForm \/ SubmitOffline
  BY <1>3 DEF NewForm, CloseForm, SubmitOffline, NoForm, ScreenStep
<1>4. ASSUME NEW d \in Drafts, OpenDraft(d) PROVE ScreenStep
  <2>1. form'.draft = d
    BY <1>4 DEF OpenDraft
  <2> QED
    BY <1>4, <2>1 DEF OpenDraft, ScreenStep, Shows
<1>5. CASE ConfirmDelete
  <2>1. Launch(store, {}) => Restart(store, {})
    BY DEF Restart
  <2> QED
    BY <1>5, <2>1 DEF ConfirmDelete, Discarded, TypeOK
<1>6. CASE Killed \/ Terminated \/ SubmitOnlineWithoutDraft
  BY <1>6 DEF Killed, Terminated, SubmitOnlineWithoutDraft, Restart
<1>7. ASSUME NEW w \in Workers, KilledAfterSave(w)
      PROVE  \E m \in Table, a \in SUBSET Workers : Restart(m, a)
  <2> DEFINE m == [mem EXCEPT ![job[w]].id = Live(job[w])]
  <2>1. step[w] = "made" /\ job[w] \in Drafts /\ Launch(m, {w})
    BY <1>7 DEF KilledAfterSave, TypeOK
  <2>2. m \in Table
    BY <2>1, IdSavedEffect
  <2> HIDE DEF m
  <2>3. Restart(m, {w})
    BY <2>1 DEF Restart, m
  <2> QED
    BY <2>2, <2>3
<1> QED
  BY <1>1, <1>2, <1>3, <1>4, <1>5, <1>6, <1>7 DEF Next, Works, DraftsScreen, FormScreen

-----------------------------------------------------------------------------
(* How the steps move the drafts.                                          *)

LEMMA LifeTypes ==
  ASSUME LifeInv
  PROVE  /\ TypeOK /\ mem \in Table /\ store \in Table
         /\ \A d \in Drafts : Agreed(d) /\ NoSuccess(d) /\ mem[d].status \in Pending \cup Final \cup {"Unborn"}
         /\ \A d \in Drafts : Live(d) <=> mem[d].status \in Pending
         /\ \A w \in Workers : step[w] # "idle" => job[w] \in Drafts /\ mem[job[w]].status # "Unborn"
<1>1. TypeOK /\ mem \in Table /\ store \in Table
  BY DEF LifeInv, TypeOK, Table
<1>2. \A d \in Drafts : mem[d].status \in Status
  BY <1>1 DEF Table, DraftRecord, Status
<1>3. \A d \in Drafts : Agreed(d) /\ NoSuccess(d) /\ mem[d].status \in Pending \cup Final \cup {"Unborn"}
  BY <1>2, Statuses DEF LifeInv, NoSuccess
<1>4. \A d \in Drafts : Live(d) <=> mem[d].status \in Pending
  BY <1>3, Statuses DEF Live, NoSuccess
<1> QED
  BY <1>1, <1>3, <1>4 DEF LifeInv, Written, TypeOK

\* What a status written without a save leaves: memory ahead of the database.
Ahead(d, s) ==
    /\ store' = store
    /\ \A e \in Drafts : /\ mem'[e].status = IF e = d /\ Live(e) THEN s ELSE mem[e].status
                         /\ mem'[e].id = mem[e].id

\* What an operation does to the drafts.
LEMMA WorksOnDraft ==
  ASSUME LifeInv, NEW w \in Workers, Works(w)
  PROVE  /\ step[w] # "idle" \/ StartOperation(w)
         /\ \/ UNCHANGED <<mem, store>>
            \/ step[w] # "idle" /\ \E s \in Pending : Ahead(job[w], s)
            \/ Created(w)
<1> TypeOK /\ mem \in Table /\ store \in Table
  BY LifeTypes
<1>1. CASE StartOperation(w) \/ CheckStatus(w) \/ ReadForNotification(w) \/ SendRequest(w)
           \/ ServerCreates(w) \/ AnswerSwallowed(w)
  BY <1>1 DEF StartOperation, CheckStatus, ReadForNotification, SendRequest, ServerCreates, AnswerSwallowed
<1>2. CASE ClaimDraft(w)
  BY <1>2, SetStatusEffect, Statuses DEF ClaimDraft, ClaimedStatus, Ahead
<1>3. CASE CreateFailed(w)
  BY <1>3, SetStatusEffect, Statuses DEF CreateFailed, FailedStatus, Ahead
<1>4. CASE NotifyRejected(w)
  <2>1. /\ step[w] = "finishing" /\ Observe(job[w], seen[w]) /\ seen[w] \in Status
        /\ seen[w] # "SyncSuccess" /\ (seen[w] \in DraftStatus \/ ~Live(job[w]))
    BY <1>4 DEF NotifyRejected, TypeOK, Status, LifeInv, Announces
  <2>2. /\ store' = store
        /\ \A e \in Drafts :
             /\ mem'[e].status = IF e = job[w] /\ job[w] \in listed /\ Live(e) THEN seen[w] ELSE mem[e].status
             /\ mem'[e].id = mem[e].id
    BY <2>1, ObserveEffect
  <2>3. CASE job[w] \notin listed
    BY <2>1, <2>3 DEF Observe
  <2>4. CASE job[w] \in listed /\ seen[w] \in DraftStatus
    BY <2>1, <2>2, <2>4, Statuses DEF Ahead
  <2>5. CASE job[w] \in listed /\ ~Live(job[w])
    <3>1. Ahead(job[w], "Syncing")
      BY <2>2, <2>5 DEF Ahead
    <3> QED
      BY <2>1, <3>1, Statuses
  <2> QED
    BY <2>1, <2>3, <2>4, <2>5
<1>5. CASE Created(w)
  BY <1>5 DEF Created
<1> QED
  BY <1>1, <1>2, <1>3, <1>4, <1>5 DEF Works, Operation

LEMMA RestartEffect ==
  ASSUME LifeInv, NEW m \in Table, NEW a, Restart(m, a)
  PROVE  /\ mem' = m /\ store' = m
         /\ \A d \in Drafts : /\ m[d].status \in {mem[d].status, store[d].status}
                              /\ \/ m[d].id = mem[d].id
                                 \/ /\ m[d].status = mem[d].status /\ m[d].id = Live(d)
                                    /\ \E w \in Workers : step[w] = "made" /\ job[w] = d /\ a = {w}
<1> TypeOK /\ mem \in Table /\ store \in Table /\ \A d \in Drafts : Agreed(d)
  BY LifeTypes
<1>1. mem' = m /\ store' = m
  BY DEF Restart, Launch
<1>2. CASE m = store \/ m = mem
  BY <1>1, <1>2 DEF Agreed
<1>3. ASSUME NEW w \in Workers, step[w] = "made", a = {w}, m = [mem EXCEPT ![job[w]].id = Live(job[w])]
      PROVE  \A d \in Drafts :
                 /\ m[d].status \in {mem[d].status, store[d].status}
                 /\ \/ m[d].id = mem[d].id
                    \/ m[d].status = mem[d].status /\ m[d].id = Live(d) /\ step[w] = "made" /\ job[w] = d /\ a = {w}
  <2>1. job[w] \in Drafts
    BY <1>3 DEF TypeOK
  <2> QED
    BY <1>3, <2>1, IdSavedEffect
<1> QED
  BY <1>1, <1>2, <1>3 DEF Restart

LEMMA MovesStep ==
  ASSUME LifeInv, [Next]_vars
  PROVE  \A d \in Drafts : Moves(d) /\ Agreed(d)' /\ NoSuccess(d)'
<1> /\ TypeOK /\ mem \in Table /\ store \in Table
    /\ \A d \in Drafts : Agreed(d) /\ NoSuccess(d) /\ mem[d].status \in Pending \cup Final \cup {"Unborn"}
    /\ \A d \in Drafts : Live(d) <=> mem[d].status \in Pending
  BY LifeTypes
<1> USE Statuses DEF Moves, Agreed, NoSuccess
<1>1. CASE ScreenStep \/ QueueOperations \/ SubmitOnlineFailed
  BY <1>1 DEF ScreenStep, QueueOperations, SubmitOnlineFailed
<1>2. ASSUME NEW d, NEW s \in Final, Delete(d, s)
      PROVE  \A e \in Drafts : Moves(e) /\ Agreed(e)' /\ NoSuccess(e)'
  <2>1. /\ store' = mem'
        /\ \A e \in Drafts : mem'[e].status = IF e = d /\ Live(e) THEN s ELSE mem[e].status
    BY <1>2, DeleteEffect
  <2> QED
    BY <2>1
<1>3. ASSUME NEW w \in Workers, Works(w)
      PROVE  \A e \in Drafts : Moves(e) /\ Agreed(e)' /\ NoSuccess(e)'
  <2>1. CASE Created(w)
    BY <1>2, <2>1 DEF Created, Final
  <2>2. CASE UNCHANGED <<mem, store>>
    BY <2>2
  <2>3. ASSUME NEW s \in Pending, Ahead(job[w], s)
        PROVE  \A e \in Drafts : Moves(e) /\ Agreed(e)' /\ NoSuccess(e)'
    BY <2>3 DEF Ahead
  <2> QED
    BY <1>3, <2>1, <2>2, <2>3, WorksOnDraft
<1>4. ASSUME NEW m \in Table, NEW a, Restart(m, a)
      PROVE  \A e \in Drafts : Moves(e) /\ Agreed(e)' /\ NoSuccess(e)'
  <2>1. mem' = m /\ store' = m /\ \A d \in Drafts : m[d].status \in {mem[d].status, store[d].status}
    BY <1>4, RestartEffect
  <2> QED
    BY <2>1
<1>5. ASSUME NEW d, NEW s \in Pending, Update(d, s)
      PROVE  \A e \in Drafts : Moves(e) /\ Agreed(e)' /\ NoSuccess(e)'
  <2>1. /\ store' = mem'
        /\ \A e \in Drafts : mem'[e].status = IF e = d /\ Live(e) THEN s ELSE mem[e].status
    BY <1>5, UpdateEffect
  <2> QED
    BY <2>1
<1>6. ASSUME NEW d \in Drafts, NEW s \in Pending, Insert(d, s)
      PROVE  \A e \in Drafts : Moves(e) /\ Agreed(e)' /\ NoSuccess(e)'
  <2>1. /\ store' = mem' /\ mem[d].status = "Unborn" /\ mem'[d].status = s
        /\ \A e \in Drafts : e # d => mem'[e] = mem[e]
    BY <1>6, InsertEffect
  <2> QED
    BY <2>1
<1>7. CASE SaveAsDraft \/ QueueDraft
  BY <1>5, <1>6, <1>7 DEF SaveAsDraft, QueueDraft
<1>8. CASE SubmitOnline
  <2>1. CASE UNCHANGED <<mem, store>>
    BY <2>1
  <2> QED
    BY <1>2, <1>8, <2>1 DEF SubmitOnline, Final
<1>9. CASE Discarded
  BY <1>2, <1>9 DEF Discarded, Final
<1> QED
  BY <1>1, <1>3, <1>4, <1>7, <1>8, <1>9, StepCases

-----------------------------------------------------------------------------
(* How the operations move.                                                *)

\* A step of an operation is about its own slot.
LEMMA WorksOnSlot ==
  ASSUME TypeOK, NEW w \in Workers, Works(w)
  PROVE  /\ \A v \in Workers : v # w => step'[v] = step[v] /\ job'[v] = job[v] /\ seen'[v] = seen[v]
         /\ \/ step[w] = "idle" /\ step'[w] = "started" /\ StartOperation(w)
            \/ step[w] # "idle" /\ step'[w] = "idle" /\ opQueue' = opQueue
            \/ /\ step[w] # "idle" /\ job' = job /\ opQueue' = opQueue
               /\ step'[w] \in Steps \ {"idle", "started"}
               /\ step'[w] = "finishing" <=> ReadForNotification(w)
<1> Steps = {"idle", "started", "claiming", "rejecting", "finishing",
             "next", "sent", "made", "stuck", "unanswered"}
  BY DEF Steps
<1>1. CASE StartOperation(w)
  BY <1>1, GotoEffect DEF StartOperation, TypeOK
<1>2. CASE CheckStatus(w) \/ ClaimDraft(w) \/ SendRequest(w) \/ ServerCreates(w) \/ AnswerSwallowed(w)
  BY <1>2, GotoEffect DEF CheckStatus, ClaimDraft, SendRequest, ServerCreates, AnswerSwallowed,
                          ReadForNotification
<1>3. CASE ReadForNotification(w)
  BY <1>3, GotoEffect DEF ReadForNotification, TypeOK
<1>4. CASE NotifyRejected(w) \/ Created(w) \/ CreateFailed(w)
  BY <1>4, RetireEffect DEF NotifyRejected, Created, CreateFailed
<1> QED
  BY <1>1, <1>2, <1>3, <1>4 DEF Works, Operation

\* Steps that leave the operations and the queue alone.
SlotsAlone == UNCHANGED <<opQueue, workers>>

LEMMA SlotSteps ==
  ASSUME TypeOK, [Next]_vars
  PROVE  \/ SlotsAlone
         \/ QueueOperations
         \/ \E w \in Workers : Works(w)
         \/ \E m \in Table, a \in SUBSET Workers : Restart(m, a)
  BY StepCases DEF ScreenStep, Discarded, SaveAsDraft, QueueDraft, SubmitOnline, SubmitOnlineFailed, SlotsAlone

\* A draft once written is never unwritten again, and once gone stays gone.
LEMMA Forward ==
  ASSUME LifeInv, [Next]_vars, NEW d \in Drafts, mem[d].status # "Unborn"
  PROVE  mem'[d].status # "Unborn" /\ (~Live(d) => ~Live(d)')
<1>1. Moves(d) /\ mem[d].status \in Pending \cup Final \cup {"Unborn"}
  BY MovesStep, LifeTypes
<1> QED
  BY <1>1, Statuses DEF Moves, Live

LEMMA LifeStep == LifeInv /\ [Next]_vars => LifeInv'
<1> SUFFICES ASSUME LifeInv, [Next]_vars PROVE LifeInv'
  OBVIOUS
<1> /\ TypeOK /\ opQueue \in Seq(Drafts)
    /\ \A w \in Workers : step[w] # "idle" => job[w] \in Drafts /\ mem[job[w]].status # "Unborn"
    /\ \A i \in 1..Len(opQueue) : opQueue[i] \in Drafts /\ mem[opQueue[i]].status # "Unborn"
    /\ \A w \in Workers : Announces(w)
  BY LifeTypes, ElementOfSeq DEF LifeInv, TypeOK, Written
<1>1. TypeOK' /\ \A d \in Drafts : Agreed(d)' /\ NoSuccess(d)'
  BY TypeStep, MovesStep
<1>2. \A d \in Drafts : mem[d].status # "Unborn" => mem'[d].status # "Unborn" /\ (~Live(d) => ~Live(d)')
  BY Forward
<1>3. ASSUME NEW w \in Workers, step'[w] = step[w], step[w] # "idle" => job'[w] = job[w], seen'[w] = seen[w]
      PROVE  /\ step'[w] # "idle" => mem'[job'[w]].status # "Unborn"
             /\ Announces(w)'
  BY <1>2, <1>3 DEF Announces
<1>4. CASE SlotsAlone
  BY <1>2, <1>3, <1>4, <1>1 DEF SlotsAlone, LifeInv, Written
<1>5. CASE QueueOperations
  <2>1. \A i \in 1..Len(opQueue') : \/ \E j \in 1..Len(opQueue) : opQueue'[i] = opQueue[j]
                                    \/ opQueue'[i] \in ToSync
    BY <1>5, QueueType
  <2>2. \A i \in 1..Len(opQueue') : mem[opQueue'[i]].status # "Unborn"
    BY <2>1 DEF ToSync
  <2>3. UNCHANGED <<mem, workers>>
    BY <1>5 DEF QueueOperations
  <2> QED
    BY <2>2, <2>3, <1>1, <1>3 DEF LifeInv, Written
<1>6. ASSUME NEW w \in Workers, Works(w) PROVE LifeInv'
  <2>1. \A v \in Workers : v # w => /\ step'[v] # "idle" => mem'[job'[v]].status # "Unborn"
                                    /\ Announces(v)'
    BY <1>3, <1>6, WorksOnSlot
  <2>2. CASE StartOperation(w)
    <3>1. /\ job'[w] = opQueue[1] /\ step'[w] = "started" /\ mem' = mem /\ opQueue' = Tail(opQueue)
          /\ opQueue # <<>>
      BY <2>2, GotoEffect, HeadTailProperties DEF StartOperation, TypeOK, Steps
    <3>2. Len(opQueue) >= 1 /\ Len(opQueue') = Len(opQueue) - 1 /\ Len(opQueue) \in Nat
          /\ \A i \in 1..Len(opQueue') : opQueue'[i] = opQueue[i + 1]
      BY <3>1, HeadTailProperties, LenProperties, EmptySeq
    <3>3. mem'[job'[w]].status # "Unborn" /\ \A i \in 1..Len(opQueue') : mem'[opQueue'[i]].status # "Unborn"
      BY <3>1, <3>2
    <3>4. Announces(w)'
      BY <3>1 DEF Announces
    <3> QED
      BY <1>1, <2>1, <3>3, <3>4 DEF LifeInv, Written
  <2>3. CASE ReadForNotification(w)
    <3>1. mem' = mem /\ opQueue' = opQueue /\ job' = job /\ seen'[w] = mem[job[w]].status /\ job[w] \in Drafts
          /\ step[w] # "idle"
      BY <2>3 DEF ReadForNotification, TypeOK
    <3>2. Announces(w)'
      BY <3>1, LifeTypes, Statuses DEF Announces, Live
    <3> QED
      BY <1>1, <2>1, <3>1, <3>2 DEF LifeInv, Written
  <2>4. CASE step'[w] = "idle" /\ opQueue' = opQueue
    <3>1. Announces(w)'
      BY <2>4 DEF Announces
    <3>2. \A i \in 1..Len(opQueue') : mem'[opQueue'[i]].status # "Unborn"
      BY <1>2, <2>4
    <3> QED
      BY <1>1, <2>1, <2>4, <3>1, <3>2 DEF LifeInv, Written
  <2>5. CASE step[w] # "idle" /\ job' = job /\ opQueue' = opQueue /\ step'[w] # "finishing"
    <3>1. Announces(w)'
      BY <2>5 DEF Announces
    <3>2. /\ \A i \in 1..Len(opQueue') : mem'[opQueue'[i]].status # "Unborn"
          /\ mem'[job'[w]].status # "Unborn"
      BY <1>2, <2>5
    <3> QED
      BY <1>1, <2>1, <3>1, <3>2 DEF LifeInv, Written
  <2> QED
    BY <1>6, <2>2, <2>3, <2>4, <2>5, WorksOnSlot
<1>7. ASSUME NEW m \in Table, NEW a, Restart(m, a) PROVE LifeInv'
  <2>1. opQueue' = <<>> /\ \A w \in Workers : step'[w] = "idle"
    BY <1>7, LaunchEffect DEF Restart
  <2>2. \A i \in 1..Len(opQueue') : FALSE
    BY <2>1
  <2> QED
    BY <1>1, <2>1, <2>2 DEF LifeInv, Written, Announces
<1> QED
  BY <1>4, <1>5, <1>6, <1>7, SlotSteps

LEMMA LifeInit == Init => LifeInv
<1> SUFFICES ASSUME Init PROVE LifeInv
  OBVIOUS
<1>1. /\ mem = store /\ opQueue = <<>> /\ \A w \in Workers : step[w] = "idle"
      /\ \A d \in Drafts : mem[d].status = "Unborn"
  BY DEF Init, Gone
<1>2. \A i \in 1..Len(opQueue) : FALSE
  BY <1>1
<1> QED
  BY <1>1, <1>2, InitType DEF LifeInv, Written, Agreed, NoSuccess, Announces

LEMMA LifeCorrect == Spec => []LifeInv
  BY LifeInit, LifeStep, PTL DEF Spec

-----------------------------------------------------------------------------
(* Who holds a draft that says Syncing.                                    *)

Grown == /\ lost \subseteq lost' /\ clashed \subseteq clashed'
         /\ reopened \subseteq reopened' /\ leftBehind \subseteq leftBehind'

\* Once noted, a draft stays noted.
LEMMA HistoryGrows ==
  ASSUME TypeOK, [Next]_vars
  PROVE  Grown
<1> USE DEF Grown
<1>1. ASSUME NEW w \in Workers, Works(w) PROVE Grown
  BY <1>1 DEF Works, Operation, StartOperation, CheckStatus, ClaimDraft, ReadForNotification,
              NotifyRejected, SendRequest, ServerCreates, Created, CreateFailed, AnswerSwallowed
<1>2. ASSUME NEW m, NEW a, Launch(m, a) PROVE Grown
  BY <1>2 DEF Launch
<1>3. CASE ScreenStep \/ Discarded \/ QueueOperations \/ SaveAsDraft \/ QueueDraft \/ SubmitOnline
           \/ SubmitOnlineFailed
  BY <1>3 DEF ScreenStep, Discarded, QueueOperations, SaveAsDraft, QueueDraft, SubmitOnline,
              SubmitOnlineFailed
<1> QED
  BY <1>1, <1>2, <1>3, StepCases DEF Restart

\* Only the end of a request stops an operation that is at work.
LEMMA StillWorking ==
  ASSUME TypeOK, NEW w \in Workers, Works(w), ~Created(w), ~CreateFailed(w), NEW v \in Workers, Working(v)
  PROVE  Working(v)' /\ job'[v] = job[v]
<1>1. CASE v # w
  BY <1>1, WorksOnSlot DEF Working
<1>2. CASE v = w
  <2>1. CASE ClaimDraft(w) \/ SendRequest(w) \/ ServerCreates(w) \/ AnswerSwallowed(w)
    BY <1>2, <2>1, GotoEffect DEF ClaimDraft, SendRequest, ServerCreates, AnswerSwallowed, Working, Steps
  <2>2. ~(StartOperation(w) \/ CheckStatus(w) \/ ReadForNotification(w) \/ NotifyRejected(w))
    BY <1>2 DEF StartOperation, CheckStatus, ReadForNotification, NotifyRejected, Working
  <2> QED
    BY <2>1, <2>2 DEF Works, Operation
<1> QED
  BY <1>1, <1>2

Owned(d) == mem[d].status = "Syncing" => \/ d \in clashed \cup stranded
                                         \/ \E w \in Workers : Working(w) /\ job[w] = d

LEMMA OwnedStep ==
  ASSUME LifeInv, [Next]_vars, NEW d \in Drafts, Owned(d)
  PROVE  Owned(d)'
<1> TypeOK /\ mem \in Table /\ store \in Table /\ clashed \subseteq clashed'
  BY LifeTypes, HistoryGrows DEF Grown
<1> USE DEF Owned
<1>1. CASE ScreenStep \/ QueueOperations \/ SubmitOnlineFailed
  BY <1>1 DEF ScreenStep, QueueOperations, SubmitOnlineFailed, Working
<1>2. ASSUME NEW e, NEW s \in Final, Delete(e, s), UNCHANGED <<workers, clashed, stranded>> PROVE Owned(d)'
  <2>0. s \in Status
    BY Statuses
  <2>1. mem'[d].status \in {mem[d].status, s}
    BY <1>2, <2>0, DeleteEffect
  <2> QED
    BY <1>2, <2>1 DEF Working, Final
<1>3. CASE Discarded
  BY <1>2, <1>3 DEF Discarded, Final
<1>4. CASE SubmitOnline
  BY <1>2, <1>4 DEF SubmitOnline, Working, Final
<1>5. ASSUME NEW e, NEW s \in Pending \ {"Syncing"}, (Insert(e, s) /\ e \in Drafts) \/ Update(e, s),
             UNCHANGED <<workers, clashed>>
      PROVE  Owned(d)'
  <2>1. \/ mem'[d].status = mem[d].status /\ (d \in stranded <=> d \in stranded')
        \/ mem'[d].status # "Syncing"
    <3>1. CASE Insert(e, s) /\ e \in Drafts
      BY <1>5, <3>1, InsertEffect, Statuses
    <3>2. CASE Update(e, s)
      <4>1. CASE e = d /\ Live(d)
        BY <1>5, <3>2, <4>1, UpdateEffect, Statuses
      <4>2. CASE ~(e = d /\ Live(d))
        <5>1. mem'[d].status = mem[d].status /\ stranded' = stranded \ {e}
          BY <1>5, <3>2, <4>2, UpdateEffect, Statuses
        <5>2. e = d => mem[d].status # "Syncing"
          BY <4>2 DEF Live, DraftStatus
        <5> QED
          BY <5>1, <5>2
      <4> QED
        BY <4>1, <4>2
    <3> QED
      BY <1>5, <3>1, <3>2
  <2> QED
    BY <1>5, <2>1 DEF Working
<1>6. CASE SaveAsDraft \/ QueueDraft
  BY <1>5, <1>6, Statuses DEF SaveAsDraft, QueueDraft
<1>7. ASSUME NEW w \in Workers, Works(w) PROVE Owned(d)'
  <2>1. CASE Created(w) \/ CreateFailed(w)
    <3>1. /\ job[w] = d => mem'[d].status # "Syncing"
          /\ job[w] # d => mem'[d].status = mem[d].status
          /\ stranded' = stranded
      <4>1. CASE Created(w)
        <5>1. Delete(job[w], "Synced") /\ "Synced" \in Status /\ stranded' = stranded
          BY <4>1, Statuses DEF Created, Final
        <5>2. mem'[d].status = IF d = job[w] /\ Live(d) THEN "Synced" ELSE mem[d].status
          BY <5>1, DeleteEffect
        <5> QED
          BY <5>1, <5>2 DEF Live, DraftStatus
      <4>2. CASE CreateFailed(w)
        BY <4>2, SetStatusEffect, Statuses DEF CreateFailed, FailedStatus, Live
      <4> QED
        BY <2>1, <4>1, <4>2
    <3>2. \A v \in Workers : Working(v) /\ job[v] = d => v = w \/ (Working(v)' /\ job'[v] = d)
      BY <1>7, WorksOnSlot DEF Working
    <3> QED
      BY <3>1, <3>2 DEF Live, DraftStatus
  <2>2. CASE ~Created(w) /\ ~CreateFailed(w)
    <3>1. (\E v \in Workers : Working(v) /\ job[v] = d) => \E v \in Workers : Working(v)' /\ job'[v] = d
      BY <1>7, <2>2, StillWorking
    <3>2. stranded' = stranded
      BY <1>7, <2>2 DEF Works, Operation, StartOperation, CheckStatus, ClaimDraft, ReadForNotification,
              NotifyRejected, SendRequest, ServerCreates, AnswerSwallowed
    <3>3. CASE mem'[d].status = mem[d].status
      BY <3>1, <3>2, <3>3
    <3>4. CASE ClaimDraft(w)
      <4>1. Working(w)' /\ Working(w) /\ job' = job
        BY <3>4, GotoEffect DEF ClaimDraft, Working, Steps
      <4>2. job[w] # d => mem'[d].status = mem[d].status
        BY <3>4, SetStatusEffect, Statuses DEF ClaimDraft, ClaimedStatus
      <4> QED
        BY <3>3, <4>1, <4>2
    <3>5. CASE NotifyRejected(w) /\ mem'[d].status # mem[d].status
      <4>1. step[w] = "finishing" /\ seen[w] \in Status /\ Observe(job[w], seen[w])
            /\ clashed' = clashed \cup {e \in listed \cap {job[w]} : mem[e].status # seen[w]}
        BY <3>5 DEF NotifyRejected, TypeOK, Status
      <4>2. seen[w] # "SyncSuccess"
        BY <4>1 DEF LifeInv, Announces
      <4>3. mem'[d].status = IF d = job[w] /\ job[w] \in listed /\ Live(d) THEN seen[w] ELSE mem[d].status
        BY <4>1, <4>2, ObserveEffect
      <4>4. d \in clashed'
        BY <3>5, <4>1, <4>3
      <4> QED
        BY <4>4
    <3>6. ~ClaimDraft(w) /\ ~NotifyRejected(w) => mem' = mem
      BY <1>7, <2>2 DEF Works, Operation, StartOperation, CheckStatus, ReadForNotification,
              SendRequest, ServerCreates, AnswerSwallowed
    <3> QED
      BY <3>3, <3>4, <3>5, <3>6
  <2> QED
    BY <2>1, <2>2
<1>8. ASSUME NEW m \in Table, NEW a, Restart(m, a) PROVE Owned(d)'
  BY <1>8, LaunchEffect DEF Restart
<1> QED
  BY <1>1, <1>3, <1>4, <1>6, <1>7, <1>8, StepCases

\* A draft says Syncing only while an operation is at work on it, unless operations clashed over it
\* or a relaunch found it so: no failure, deletion, rejection or save leaves it Syncing unattended.
THEOREM SyncingOwned == Spec => []SyncingIsOwned
<1>1. Init => \A d \in Drafts : Owned(d)
  BY DEF Init, Gone, Owned
<1>2. LifeInv /\ (\A d \in Drafts : Owned(d)) /\ [Next]_vars => (\A d \in Drafts : Owned(d))'
  BY OwnedStep
<1>3. (\A d \in Drafts : Owned(d)) => SyncingIsOwned
  BY DEF Owned, SyncingIsOwned
<1> QED
  BY <1>1, <1>2, <1>3, LifeCorrect, PTL DEF Spec

-----------------------------------------------------------------------------
(* Operations that cannot finish.                                          *)

Disturbed(d) == d \in reopened \cup clashed

\* Two operations at work on a draft have clashed over it.
OneEach ==
    \A v, w \in Workers : v # w /\ Working(v) /\ Working(w) /\ job[v] = job[w] => job[w] \in clashed

\* A form's draft counts as reopened when an operation works on it or has delivered it.
OpenKnown ==
    \A d \in Drafts :
        form.draft = d /\ (mem[d].id \/ \E w \in Workers : Working(w) /\ job[w] = d) => d \in reopened

\* A draft is not queued again once an operation has claimed it, nor once it has its identifier.
QueuedTwice ==
    /\ \A w \in Workers : Working(w) =>
          /\ step[w] # "claiming" /\ mem[job[w]].status = "QueuedToSync" => Disturbed(job[w])
          /\ mem[job[w]].id => Disturbed(job[w])
    /\ \A d \in Drafts :
          /\ mem[d].id /\ mem[d].status = "QueuedToSync" => Disturbed(d)
          /\ store[d].id /\ store[d].status = "QueuedToSync" => Disturbed(d)

StuckForCause == \A w \in Workers : step[w] = "stuck" => ~Live(job[w]) \/ mem[job[w]].id

SlotInv == LifeInv /\ OneEach /\ OpenKnown /\ QueuedTwice /\ StuckForCause

Relaunched == form' = NoForm /\ \A w \in Workers : step'[w] = "idle"

\* Any step's effect on an operation that is at work afterwards.
LEMMA WorkStep ==
  ASSUME TypeOK, [Next]_vars, NEW w \in Workers, Working(w)'
  PROVE  /\ job'[w] = job[w] /\ job[w] \in Drafts /\ step[w] # "idle"
         /\ Working(w) \/ CheckStatus(w)
         /\ step'[w] = step[w] \/ Works(w)
<1> DEFINE Goal == /\ job'[w] = job[w] /\ job[w] \in Drafts /\ step[w] # "idle"
                   /\ Working(w) \/ CheckStatus(w)
                   /\ step'[w] = step[w] \/ Works(w)
<1> USE DEF Working
<1>1. CASE SlotsAlone \/ QueueOperations
  BY <1>1 DEF SlotsAlone, QueueOperations, TypeOK
<1>2. ASSUME NEW v \in Workers, Works(v) PROVE Goal
  <2>1. CASE v # w
    BY <1>2, <2>1, WorksOnSlot DEF TypeOK
  <2>2. CASE v = w
    <3>1. Works(w) /\ step'[w] # "idle" /\ step'[w] # "started"
      BY <1>2, <2>2
    <3>2. job' = job /\ step[w] # "idle"
      BY <3>1, WorksOnSlot
    <3>3. job[w] \in Drafts
      BY <3>2 DEF TypeOK
    <3>4. ~StartOperation(w) /\ ~ReadForNotification(w) /\ ~NotifyRejected(w)
      BY <3>1, GotoEffect, RetireEffect DEF StartOperation, ReadForNotification, NotifyRejected, Steps
    <3>5. Working(w) \/ CheckStatus(w)
      BY <3>1, <3>4 DEF Works, Operation, ClaimDraft, SendRequest, ServerCreates, Created, CreateFailed,
         AnswerSwallowed
    <3> QED
      BY <1>2, <2>2, <3>2, <3>3, <3>5
  <2> QED
    BY <2>1, <2>2
<1>3. ASSUME NEW m \in Table, NEW a, Restart(m, a) PROVE FALSE
  BY <1>3, LaunchEffect DEF Restart
<1> QED
  BY <1>1, <1>2, <1>3, SlotSteps

\* How a form comes to show a draft.
LEMMA FormStep ==
  ASSUME TypeOK, [Next]_vars, NEW d \in Drafts, form'.draft = d
  PROVE  form.draft = d \/ Shows(d) \/ (mem[d].status = "Unborn" /\ ~mem'[d].id)
<1> DEFINE Goal == form.draft = d \/ Shows(d) \/ (mem[d].status = "Unborn" /\ ~mem'[d].id)
<1> d # NoDraft
  BY DraftsAssumption
<1>1. CASE ScreenStep
  BY <1>1 DEF ScreenStep
<1>2. CASE form' = form
  BY <1>2
<1>3. CASE form' = NoForm
  BY <1>3 DEF NoForm
<1>4. ASSUME NEW w \in Workers, Works(w) PROVE form' = form
  BY <1>4 DEF Works, Operation, StartOperation, CheckStatus, ClaimDraft, ReadForNotification,
              NotifyRejected, SendRequest, ServerCreates, Created, CreateFailed, AnswerSwallowed
<1>5. CASE SaveAsDraft
  <2>1. ASSUME NEW e \in Drafts, Insert(e, "SavedAsDraft"), form' = [form EXCEPT !.draft = e], form # NoForm
        PROVE  Goal
    <3>1. form'.draft = e
      BY <2>1 DEF TypeOK
    <3> QED
      BY <2>1, <3>1, InsertEffect, Statuses DEF TypeOK, Table
  <2> QED
    BY <1>2, <1>5, <2>1 DEF SaveAsDraft
<1> QED
  BY <1>1, <1>2, <1>3, <1>4, <1>5, StepCases, LaunchEffect
     DEF Discarded, QueueOperations, QueueDraft, SubmitOnline, SubmitOnlineFailed, Restart

\* How a draft comes to have its identifier, and to lose it.
LEMMA IdStep ==
  ASSUME LifeInv, [Next]_vars, NEW d \in Drafts
  PROVE  \/ mem'[d].id = mem[d].id
         \/ ~mem'[d].id /\ (mem[d].status = "Unborn" \/ ~Live(d)')
         \/ /\ Relaunched /\ mem'[d].status = mem[d].status
            /\ \E w \in Workers : step[w] = "made" /\ job[w] = d
<1> DEFINE Goal == \/ mem'[d].id = mem[d].id
                   \/ ~mem'[d].id /\ (mem[d].status = "Unborn" \/ ~Live(d)')
                   \/ /\ Relaunched /\ mem'[d].status = mem[d].status
                      /\ \E w \in Workers : step[w] = "made" /\ job[w] = d
<1> TypeOK /\ mem \in Table /\ store \in Table
  BY LifeTypes
<1> "SyncSuccess" \in Status /\ Final \subseteq Status /\ Pending \subseteq Status
  BY Statuses
<1>1. CASE ScreenStep \/ QueueOperations \/ SubmitOnlineFailed
  BY <1>1 DEF ScreenStep, QueueOperations, SubmitOnlineFailed
<1>2. ASSUME NEW e, NEW s \in Final, Delete(e, s) PROVE Goal
  <2>1. /\ mem'[d].status = IF d = e /\ Live(d) THEN s ELSE mem[d].status
        /\ mem'[d].id = IF d = e /\ Live(d) THEN FALSE ELSE mem[d].id
    BY <1>2, DeleteEffect
  <2>2. s \notin DraftStatus
    BY Statuses
  <2> QED
    BY <2>1, <2>2 DEF Live
<1>3. ASSUME NEW w \in Workers, Works(w) PROVE Goal
  BY <1>2, <1>3, WorksOnDraft DEF Created, Final, Ahead
<1>4. ASSUME NEW m \in Table, NEW a, Restart(m, a) PROVE Goal
  BY <1>4, RestartEffect, LaunchEffect DEF Restart, Relaunched
<1>5. ASSUME NEW e, NEW s \in Pending, (Insert(e, s) /\ e \in Drafts) \/ Update(e, s) PROVE Goal
  BY <1>5, InsertEffect, UpdateEffect
<1>6. CASE SaveAsDraft \/ QueueDraft
  BY <1>5, <1>6, Statuses DEF SaveAsDraft, QueueDraft
<1>7. CASE SubmitOnline \/ Discarded
  BY <1>2, <1>7 DEF SubmitOnline, Discarded, Final
<1> QED
  BY <1>1, <1>3, <1>4, <1>6, <1>7, StepCases

\* How a draft comes to be queued.
LEMMA QueuedStep ==
  ASSUME LifeInv, [Next]_vars, NEW d \in Drafts, mem'[d].status = "QueuedToSync"
  PROVE  \/ mem[d].status = "QueuedToSync"
         \/ d \in clashed'
         \/ mem[d].status = "Unborn" /\ ~mem'[d].id
         \/ form.draft = d
         \/ Relaunched /\ store[d].status = "QueuedToSync"
<1> DEFINE Goal == \/ mem[d].status = "QueuedToSync"
                   \/ d \in clashed'
                   \/ mem[d].status = "Unborn" /\ ~mem'[d].id
                   \/ form.draft = d
                   \/ Relaunched /\ store[d].status = "QueuedToSync"
<1> TypeOK /\ mem \in Table /\ store \in Table
  BY LifeTypes
<1> "SyncSuccess" \in Status /\ Final \subseteq Status /\ Pending \subseteq Status
  BY Statuses
<1>1. CASE ScreenStep \/ QueueOperations \/ SubmitOnlineFailed
  BY <1>1 DEF ScreenStep, QueueOperations, SubmitOnlineFailed
<1>2. ASSUME NEW e, NEW s \in Final, Delete(e, s) PROVE Goal
  BY <1>2, DeleteEffect DEF Final
<1>3. ASSUME NEW w \in Workers, Works(w) PROVE Goal
  <2>1. CASE UNCHANGED mem
    BY <2>1
  <2>2. CASE Created(w)
    BY <1>2, <2>2 DEF Created, Final
  <2>3. CASE ClaimDraft(w)
    BY <2>3, SetStatusEffect DEF ClaimDraft, ClaimedStatus, Pending, DraftStatus
  <2>4. CASE CreateFailed(w)
    BY <2>4, SetStatusEffect DEF CreateFailed, FailedStatus, Pending, DraftStatus
  <2>5. CASE NotifyRejected(w)
    <3>1. step[w] = "finishing" /\ seen[w] \in Status /\ Observe(job[w], seen[w])
          /\ clashed' = clashed \cup {e \in listed \cap {job[w]} : mem[e].status # seen[w]}
      BY <2>5 DEF NotifyRejected, TypeOK, Status
    <3>2. seen[w] # "SyncSuccess"
      BY <3>1 DEF LifeInv, Announces
    <3>3. mem'[d].status = IF d = job[w] /\ job[w] \in listed /\ Live(d) THEN seen[w] ELSE mem[d].status
      BY <3>1, <3>2, ObserveEffect
    <3> QED
      BY <3>1, <3>3
  <2> QED
    BY <1>3, <2>1, <2>2, <2>3, <2>4, <2>5 DEF Works, Operation, StartOperation, CheckStatus,
       ReadForNotification, SendRequest, ServerCreates, AnswerSwallowed
<1>4. ASSUME NEW m \in Table, NEW a, Restart(m, a) PROVE Goal
  BY <1>4, RestartEffect, LaunchEffect DEF Restart, Relaunched
<1>5. ASSUME NEW e \in Drafts, NEW s \in Pending, Insert(e, s) PROVE Goal
  BY <1>5, InsertEffect
<1>6. CASE SaveAsDraft
  <2>1. ASSUME Update(form.draft, "SavedAsDraft") PROVE Goal
    BY <2>1, UpdateEffect DEF Pending, DraftStatus
  <2> QED
    BY <1>5, <1>6, <2>1, Statuses DEF SaveAsDraft
<1>7. CASE QueueDraft
  <2>1. ASSUME Update(form.draft, "QueuedToSync") PROVE Goal
    BY <2>1, UpdateEffect DEF Pending, DraftStatus
  <2> QED
    BY <1>5, <1>7, <2>1, Statuses DEF QueueDraft
<1>8. CASE SubmitOnline \/ Discarded
  BY <1>2, <1>8 DEF SubmitOnline, Discarded, Final
<1> QED
  BY <1>1, <1>3, <1>4, <1>6, <1>7, <1>8, StepCases

\* A step saves everything, nothing, or goes back to what was saved.
LEMMA StoreStep ==
  ASSUME LifeInv, [Next]_vars
  PROVE  store' = mem' \/ store' = store
<1> DEFINE Goal == store' = mem' \/ store' = store
<1> TypeOK /\ mem \in Table /\ store \in Table
  BY LifeTypes
<1>1. ASSUME NEW w \in Workers, Works(w) PROVE Goal
  BY <1>1, WorksOnDraft DEF Ahead, Created, Delete, SaveAll
<1>2. ASSUME NEW m \in Table, NEW a, Restart(m, a) PROVE Goal
  BY <1>2, RestartEffect
<1> QED
  BY <1>1, <1>2, StepCases DEF ScreenStep, Discarded, Delete, SaveAll, QueueOperations, SaveAsDraft, QueueDraft,
     Insert, Update, SubmitOnline, SubmitOnlineFailed

LEMMA OneEachStep == SlotInv /\ [Next]_vars => OneEach'
<1> SUFFICES ASSUME SlotInv, [Next]_vars, NEW v \in Workers, NEW w \in Workers,
                    v # w, Working(v)', Working(w)', job'[v] = job'[w]
             PROVE  job'[w] \in clashed'
  BY DEF OneEach
<1>0. TypeOK /\ clashed \subseteq clashed' /\ OneEach
  BY LifeTypes, HistoryGrows DEF SlotInv, Grown
<1>1. /\ job'[v] = job[v] /\ job'[w] = job[w] /\ job[v] = job[w] /\ step[v] # "idle" /\ step[w] # "idle"
      /\ (Working(v) \/ CheckStatus(v)) /\ (Working(w) \/ CheckStatus(w))
  BY <1>0, WorkStep
<1>2. CASE Working(v) /\ Working(w)
  BY <1>0, <1>1, <1>2 DEF OneEach
<1>3. ASSUME NEW x \in Workers, NEW y \in Workers, x # y, job[x] = job[y], step[y] # "idle",
             CheckStatus(x), Working(x)', Working(y)'
      PROVE  job[y] \in clashed'
  <2>1. Works(x) /\ step'[y] = step[y]
    BY <1>0, <1>3, WorksOnSlot DEF Works, Operation
  <2>2. Working(y)
    BY <1>3, <2>1 DEF Working
  <2>3. mem[job[x]].status = "QueuedToSync"
    BY <1>0, <1>3, GotoEffect DEF CheckStatus, Working, Steps
  <2> QED
    BY <1>3, <2>2, <2>3 DEF CheckStatus
<1> QED
  BY <1>1, <1>2, <1>3

LEMMA OpenStep == SlotInv /\ [Next]_vars => OpenKnown'
<1> SUFFICES ASSUME SlotInv, [Next]_vars, NEW d \in Drafts, form'.draft = d,
                    mem'[d].id \/ \E w \in Workers : Working(w)' /\ job'[w] = d
             PROVE  d \in reopened'
  BY DEF OpenKnown
<1>0. LifeInv /\ TypeOK /\ reopened \subseteq reopened' /\ OpenKnown
  BY LifeTypes, HistoryGrows DEF SlotInv, Grown
<1>1. form.draft = d \/ Shows(d) \/ (mem[d].status = "Unborn" /\ ~mem'[d].id)
  BY <1>0, FormStep
<1>2. CASE mem'[d].id
  <2>1. mem[d].id
    BY <1>0, <1>2, IdStep, DraftsAssumption DEF Relaunched, NoForm
  <2> QED
    BY <1>0, <1>1, <1>2, <2>1 DEF Shows, OpenKnown
<1>3. ASSUME NEW w \in Workers, Working(w)', job'[w] = d PROVE d \in reopened'
  <2>1. job[w] = d /\ step[w] # "idle" /\ (Working(w) \/ CheckStatus(w))
    BY <1>0, <1>3, WorkStep
  <2>2. mem[d].status # "Unborn"
    BY <1>0, <2>1, LifeTypes
  <2>3. CASE Shows(d)
    BY <2>1, <2>3 DEF Shows, Outstanding
  <2>4. CASE form.draft = d /\ Working(w)
    BY <1>0, <2>1, <2>4 DEF OpenKnown
  <2>5. CASE form.draft = d /\ CheckStatus(w)
    <3>1. mem[job[w]].status = "QueuedToSync"
      BY <1>0, <1>3, <2>5, GotoEffect DEF CheckStatus, Working, Steps
    <3> QED
      BY <2>1, <2>5, <3>1 DEF CheckStatus
  <2> QED
    BY <1>1, <2>1, <2>2, <2>3, <2>4, <2>5
<1> QED
  BY <1>2, <1>3

LEMMA QueuedTwiceStep == SlotInv /\ [Next]_vars => QueuedTwice'
<1> SUFFICES ASSUME SlotInv, [Next]_vars PROVE QueuedTwice'
  OBVIOUS
<1> USE DEF Disturbed
<1>0. /\ LifeInv /\ TypeOK /\ OpenKnown /\ QueuedTwice /\ mem \in Table /\ store \in Table
      /\ reopened \subseteq reopened' /\ clashed \subseteq clashed'
      /\ \A d \in Drafts : Agreed(d)
  BY LifeTypes, HistoryGrows DEF SlotInv, Grown
<1>1. ASSUME NEW w \in Workers, Working(w)', step'[w] # "claiming", mem'[job'[w]].status = "QueuedToSync"
      PROVE  job'[w] \in reopened' \cup clashed'
  <2> DEFINE d == job[w]
  <2>1. job'[w] = d /\ d \in Drafts /\ step[w] # "idle" /\ (step'[w] = step[w] \/ Works(w))
        /\ (Working(w) \/ CheckStatus(w))
    BY <1>0, <1>1, WorkStep
  <2>2. Working(w)
    BY <1>0, <1>1, <2>1, GotoEffect DEF CheckStatus, Working, Steps
  <2>3. ~ClaimDraft(w)
    <3>1. ASSUME ClaimDraft(w) PROVE mem'[d].status # "QueuedToSync"
      BY <1>0, <2>1, <3>1, SetStatusEffect, Statuses DEF ClaimDraft, ClaimedStatus, Live, DraftStatus
    <3> QED
      BY <1>1, <2>1, <3>1
  <2>4. step[w] # "claiming"
    BY <1>1, <2>1, <2>3 DEF Works, Operation, StartOperation, CheckStatus, ReadForNotification,
       NotifyRejected, SendRequest, ServerCreates, Created, CreateFailed, AnswerSwallowed
  <2>5. mem[d].status # "Unborn" /\ ~Relaunched
    BY <1>0, <1>1, <2>1, LifeTypes DEF Relaunched, Working
  <2>6. \/ mem[d].status = "QueuedToSync" \/ d \in clashed' \/ form.draft = d
    BY <1>0, <1>1, <2>1, <2>5, QueuedStep
  <2> HIDE DEF d
  <2>7. form.draft = d => d \in reopened
    BY <1>0, <2>1, <2>2 DEF OpenKnown, d
  <2>8. mem[d].status = "QueuedToSync" => d \in reopened \cup clashed
    BY <1>0, <2>2, <2>4 DEF QueuedTwice, d
  <2> QED
    BY <1>0, <2>1, <2>6, <2>7, <2>8
<1>2. ASSUME NEW w \in Workers, Working(w)', mem'[job'[w]].id
      PROVE  job'[w] \in reopened' \cup clashed'
  <2>1. job'[w] = job[w] /\ job[w] \in Drafts /\ (Working(w) \/ CheckStatus(w)) /\ step[w] # "idle"
    BY <1>0, <1>2, WorkStep
  <2>2. mem[job[w]].id
    BY <1>0, <1>2, <2>1, IdStep DEF Relaunched, Working
  <2>3. CASE Working(w)
    BY <1>0, <2>1, <2>2, <2>3 DEF QueuedTwice
  <2>4. CASE CheckStatus(w)
    <3>1. mem[job[w]].status = "QueuedToSync"
      BY <1>0, <1>2, <2>4, GotoEffect DEF CheckStatus, Working, Steps
    <3> QED
      BY <1>0, <2>1, <2>2, <3>1 DEF QueuedTwice
  <2> QED
    BY <2>1, <2>3, <2>4
<1>3. ASSUME NEW d \in Drafts, mem'[d].id, mem'[d].status = "QueuedToSync"
      PROVE  d \in reopened' \cup clashed'
  <2>1. CASE mem[d].id
    <3>1. mem[d].status = "QueuedToSync" => d \in reopened \cup clashed
      BY <1>0, <2>1 DEF QueuedTwice
    <3>2. store[d].status = "QueuedToSync" => d \in reopened \cup clashed
      BY <1>0, <2>1 DEF QueuedTwice, Agreed
    <3>3. form.draft = d => d \in reopened
      BY <1>0, <2>1 DEF OpenKnown
    <3> QED
      BY <1>0, <1>3, <3>1, <3>2, <3>3, QueuedStep
  <2>2. ASSUME NEW w \in Workers, step[w] = "made", job[w] = d, mem'[d].status = mem[d].status
        PROVE  d \in reopened' \cup clashed'
    BY <1>0, <1>3, <2>2 DEF QueuedTwice, Working
  <2> QED
    BY <1>0, <1>3, <2>1, <2>2, IdStep
<1>4. ASSUME NEW d \in Drafts, store'[d].id, store'[d].status = "QueuedToSync"
      PROVE  d \in reopened' \cup clashed'
  BY <1>0, <1>3, <1>4, StoreStep DEF QueuedTwice
<1> QED
  BY <1>1, <1>2, <1>3, <1>4 DEF QueuedTwice

LEMMA StuckStep == SlotInv /\ [Next]_vars => StuckForCause'
<1> SUFFICES ASSUME SlotInv, [Next]_vars, NEW w \in Workers, step'[w] = "stuck"
             PROVE  ~Live(job[w])' \/ mem'[job'[w]].id
  BY DEF StuckForCause, Live
<1>0. LifeInv /\ TypeOK /\ StuckForCause
  BY LifeTypes DEF SlotInv
<1> DEFINE d == job[w]
<1>1. job'[w] = d /\ d \in Drafts /\ step[w] # "idle" /\ (step'[w] = step[w] \/ Works(w))
  BY <1>0, WorkStep DEF Working
<1>2. mem[d].status # "Unborn"
  BY <1>0, <1>1, LifeTypes
<1>3. CASE step[w] = "stuck"
  <2>1. ~Live(d) \/ mem[d].id
    BY <1>0, <1>3 DEF StuckForCause
  <2>2. ~Live(d) => ~Live(d)'
    BY <1>0, <1>1, <1>2, Forward
  <2>3. mem[d].id => mem'[d].id \/ ~Live(d)'
    BY <1>0, <1>1, <1>2, IdStep DEF Relaunched
  <2> QED
    BY <1>1, <2>1, <2>2, <2>3 DEF Live
<1>4. CASE step[w] # "stuck"
  <2>1. Works(w)
    BY <1>1, <1>4
  <2>2. SendRequest(w)
    BY <1>0, <2>1, GotoEffect, RetireEffect DEF Works, Operation, StartOperation, CheckStatus, ClaimDraft,
       ReadForNotification, NotifyRejected, ServerCreates, Created, CreateFailed, AnswerSwallowed, Steps
  <2>3. ~Creatable(d) /\ mem' = mem
    BY <1>0, <2>2, GotoEffect DEF SendRequest, Steps
  <2> QED
    BY <1>1, <2>3 DEF Creatable, Live
<1> QED
  BY <1>3, <1>4

LEMMA SlotInit == Init => SlotInv
<1> SUFFICES ASSUME Init PROVE SlotInv
  OBVIOUS
<1>1. /\ form = NoForm /\ \A w \in Workers : step[w] = "idle"
      /\ \A d \in Drafts : mem[d].id = FALSE /\ store[d].id = FALSE
  BY DEF Init, Gone
<1> QED
  BY <1>1, LifeInit, DraftsAssumption
     DEF SlotInv, OneEach, OpenKnown, QueuedTwice, StuckForCause, Working, NoForm

LEMMA SlotCorrect == Spec => []SlotInv
<1>1. SlotInv /\ [Next]_vars => SlotInv'
  BY LifeStep, OneEachStep, OpenStep, QueuedTwiceStep, StuckStep DEF SlotInv
<1> QED
  BY <1>1, SlotInit, PTL DEF Spec

\* An operation that keeps its slot for ever had its draft deleted under it, or met a draft that
\* already had its identifier and was queued again, which takes the user or a stale notification.
THEOREM SlotCause == Spec => []SlotHeldForCause
<1>1. SlotInv => SlotHeldForCause
  BY DEF SlotInv, StuckForCause, QueuedTwice, SlotHeldForCause, Working, Disturbed
<1> QED
  BY <1>1, SlotCorrect, PTL

-----------------------------------------------------------------------------
(* How often a customer is created.                                        *)

Excused(d) == d \in lost \cup clashed \cup reopened \cup leftBehind

\* A draft whose customer exists is gone, has its identifier, or is in the hands of the operation
\* that knows it; an operation that is about to create a customer is about to create the first.
Counted ==
    /\ \A w \in Workers : step[w] = "made" => server[job[w]] >= 1
    /\ \A w \in Workers : Working(w) /\ step[w] # "made" => server[job[w]] = 0 \/ Excused(job[w])
    /\ \A d \in Drafts : server[d] >= 1 =>
          \/ Excused(d)
          \/ mem[d].status # "Unborn" /\ ~Live(d)
          \/ mem[d].id
          \/ \E w \in Workers : step[w] = "made" /\ job[w] = d
    /\ \A d \in Drafts : mem[d].id => mem[d].status # "Unborn"

CountInv == SlotInv /\ Counted /\ CreatedOnce

\* An operation that knows of its success ends by deleting the draft; a process that dies then has
\* saved the identifier, or the answer is lost.
LEMMA MadeStep ==
  ASSUME LifeInv, [Next]_vars, NEW w \in Workers, step[w] = "made", NEW d \in Drafts, job[w] = d
  PROVE  \/ step'[w] = "made" /\ job'[w] = d
         \/ d \in lost'
         \/ mem'[d].id
         \/ ~Live(d)'
<1> DEFINE Goal == \/ step'[w] = "made" /\ job'[w] = d
                   \/ d \in lost' \/ mem'[d].id \/ mem'[d].status \notin DraftStatus
<1>0. TypeOK /\ mem \in Table /\ store \in Table /\ mem[d].status # "Unborn"
  BY LifeTypes
<1>1. ASSUME SlotsAlone \/ QueueOperations PROVE Goal
  BY <1>1 DEF SlotsAlone, QueueOperations
<1>2. ASSUME NEW v \in Workers, Works(v) PROVE Goal
  <2>1. CASE v # w
    BY <1>0, <1>2, <2>1, WorksOnSlot
  <2>2. CASE Created(w)
    <3>1. Delete(d, "Synced") /\ "Synced" \in Status
      BY <2>2, Statuses DEF Created, Final
    <3>2. mem'[d].status = IF Live(d) THEN "Synced" ELSE mem[d].status
      BY <1>0, <3>1, DeleteEffect
    <3> QED
      BY <3>2, Statuses DEF Live, Final
  <2>3. CASE CreateFailed(w)
    BY <2>3 DEF CreateFailed
  <2>4. CASE v = w
    BY <1>2, <2>2, <2>3, <2>4 DEF Works, Operation, StartOperation, CheckStatus, ClaimDraft,
       ReadForNotification, NotifyRejected, SendRequest, ServerCreates, AnswerSwallowed
  <2> QED
    BY <2>1, <2>4
<1>3. ASSUME NEW m \in Table, NEW a \in SUBSET Workers, Restart(m, a) PROVE Goal
  <2>1. w \notin a => d \in lost'
    BY <1>0, <1>3, LaunchEffect DEF Restart
  <2>2. CASE w \in a
    <3>1. a = {w} /\ m = [mem EXCEPT ![d].id = Live(d)] /\ mem' = m
      BY <1>3, <2>2, RestartEffect DEF Restart
    <3>2. mem'[d].status = mem[d].status /\ mem'[d].id = Live(d)
      BY <1>0, <3>1, IdSavedEffect
    <3> QED
      BY <3>2 DEF Live
  <2> QED
    BY <2>1, <2>2
<1> HIDE DEF Goal
<1>4. Goal
  BY <1>0, <1>1, <1>2, <1>3, SlotSteps
<1> QED
  BY <1>4 DEF Goal, Live

\* The server creates a customer for an operation or for a form.
LEMMA ServerStep ==
  ASSUME TypeOK, [Next]_vars, NEW d \in Drafts
  PROVE  \/ server'[d] = server[d]
         \/ /\ server'[d] = OneMore(server[d])
            /\ \/ d \in lost'
               \/ SubmitOnline /\ form.draft = d
               \/ \E w \in Workers : ServerCreates(w) /\ job[w] = d
<1> DEFINE Goal == \/ server'[d] = server[d]
                   \/ /\ server'[d] = OneMore(server[d])
                      /\ \/ d \in lost' \/ (SubmitOnline /\ form.draft = d)
                         \/ \E w \in Workers : ServerCreates(w) /\ job[w] = d
<1>1. ASSUME NEW w \in Workers, Works(w) PROVE Goal
  <2>1. CASE ServerCreates(w)
    BY <2>1 DEF ServerCreates, TypeOK
  <2> QED
    BY <1>1, <2>1 DEF Works, Operation, StartOperation, CheckStatus, ClaimDraft, ReadForNotification,
       NotifyRejected, SendRequest, Created, CreateFailed, AnswerSwallowed
<1>2. CASE SubmitOnline
  BY <1>2 DEF SubmitOnline, ServerCreatesFor
<1>3. CASE SubmitOnlineFailed
  BY <1>3, DraftsAssumption DEF SubmitOnlineFailed, ServerCreatesFor
<1>4. ASSUME NEW m, NEW a, Restart(m, a) PROVE server' = server
  BY <1>4 DEF Restart, Launch
<1> QED
  BY <1>1, <1>2, <1>3, <1>4, StepCases DEF ScreenStep, Discarded, QueueOperations, SaveAsDraft, QueueDraft

\* A form that creates a customer creates the first of its draft, and the draft is gone then.
LEMMA SubmitEffect ==
  ASSUME CountInv, [Next]_vars, SubmitOnline, NEW d \in Drafts, form.draft = d
  PROVE  \/ Excused(d)'
         \/ /\ server[d] = 0 /\ ~Live(d)'
            /\ \A w \in Workers : ~(Working(w) /\ job[w] = d)
<1>0. LifeInv /\ TypeOK /\ mem \in Table /\ OpenKnown /\ Counted /\ Grown
  BY LifeTypes, HistoryGrows DEF CountInv, SlotInv
<1>1. CASE form.from = "home"
  BY <1>1, DraftsAssumption DEF SubmitOnline, SubmittedWithout, Excused
<1>2. CASE form.from # "home"
  <2>1. Live(d) /\ Delete(d, "Synced") /\ "Synced" \in Status
    BY <1>2, Statuses DEF SubmitOnline, Final
  <2>2. mem'[d].status = "Synced"
    BY <1>0, <2>1, DeleteEffect
  <2>3. CASE d \in reopened
    BY <1>0, <2>3 DEF Grown, Excused
  <2>4. CASE d \notin reopened
    <3>1. ~mem[d].id /\ \A w \in Workers : ~(Working(w) /\ job[w] = d)
      BY <1>0, <2>4 DEF OpenKnown
    <3>2. \A w \in Workers : ~(step[w] = "made" /\ job[w] = d)
      BY <3>1 DEF Working
    <3>3. server[d] >= 1 => Excused(d)
      BY <1>0, <2>1, <3>1, <3>2 DEF Counted
    <3>4. Excused(d) => Excused(d)'
      BY <1>0 DEF Grown, Excused
    <3>5. server[d] \in 0..2
      BY <1>0 DEF TypeOK
    <3> QED
      BY <2>2, <3>1, <3>3, <3>4, <3>5, Statuses DEF Live, Final
  <2> QED
    BY <2>3, <2>4
<1> QED
  BY <1>1, <1>2

LEMMA CountStep == CountInv /\ SlotInv' /\ [Next]_vars => Counted' /\ CreatedOnce'
<1> SUFFICES ASSUME CountInv, SlotInv', [Next]_vars PROVE Counted' /\ CreatedOnce'
  OBVIOUS
<1>0. /\ LifeInv /\ TypeOK /\ mem \in Table /\ OneEach /\ OneEach' /\ QueuedTwice /\ Counted /\ CreatedOnce /\ Grown
      /\ \A d \in Drafts : server[d] \in 0..2
      /\ \A d \in Drafts : server'[d] \in 0..2
  BY LifeTypes, HistoryGrows DEF CountInv, SlotInv, LifeInv, TypeOK
<1>1. \A d \in Drafts : Excused(d) => d \in lost' \cup clashed' \cup reopened' \cup leftBehind'
  BY <1>0 DEF Grown, Excused
<1>2. \A d \in Drafts : server[d] >= 1 => server'[d] >= 1
  BY <1>0, ServerStep DEF OneMore
<1>3. ASSUME NEW w \in Workers, step'[w] = "made" PROVE server'[job'[w]] >= 1
  <2>1. job'[w] = job[w] /\ job[w] \in Drafts /\ (step'[w] = step[w] \/ Works(w))
    BY <1>0, <1>3, WorkStep DEF Working
  <2>2. CASE step[w] = "made"
    BY <1>0, <1>2, <2>1, <2>2 DEF Counted
  <2>3. CASE step[w] # "made"
    <3>1. ServerCreates(w)
      BY <1>0, <1>3, <2>1, <2>3, GotoEffect, RetireEffect DEF Works, Operation, StartOperation, CheckStatus,
         ClaimDraft, ReadForNotification, NotifyRejected, SendRequest, Created, CreateFailed, AnswerSwallowed, Steps
    <3> QED
      BY <1>0, <2>1, <3>1 DEF ServerCreates, TypeOK, OneMore
  <2> QED
    BY <2>2, <2>3
<1>4. ASSUME NEW w \in Workers, Working(w)', step'[w] # "made"
      PROVE  server'[job'[w]] = 0 \/ job'[w] \in lost' \cup clashed' \cup reopened' \cup leftBehind'
  <2> PICK d \in Drafts : d = job[w] /\ job'[w] = d /\ (Working(w) \/ CheckStatus(w)) /\ step[w] # "idle"
    BY <1>0, <1>4, WorkStep
  <2>1. CASE Excused(d)
    BY <1>1, <2>1
  <2>2. CASE ~Excused(d)
    <3>1. step[w] # "made"
      <4>1. ASSUME step[w] = "made" PROVE FALSE
        <5>1. Works(w)
          BY <1>0, <1>4, <4>1, WorkStep
        <5>2. ~(Created(w) \/ CreateFailed(w))
          BY <1>0, <1>4, RetireEffect DEF Created, CreateFailed, Working
        <5> QED
          BY <4>1, <5>1, <5>2 DEF Works, Operation, StartOperation, CheckStatus, ClaimDraft,
             ReadForNotification, NotifyRejected, SendRequest, ServerCreates, AnswerSwallowed
      <4> QED
        BY <4>1
    <3>2. CASE Working(w)
      <4>1. server[d] = 0
        BY <1>0, <2>2, <3>1, <3>2 DEF Counted
      <4>2. CASE SubmitOnline /\ form.draft = d
        BY <1>0, <3>2, <4>2, SubmitEffect DEF Excused
      <4>3. ASSUME NEW v \in Workers, ServerCreates(v), job[v] = d PROVE d \in clashed'
        <5>1. step'[v] = "made" /\ job' = job
          BY <1>0, <4>3, GotoEffect DEF ServerCreates, Steps
        <5>2. v # w /\ Working(v)'
          BY <1>4, <5>1 DEF Working
        <5> QED
          BY <1>0, <1>4, <4>3, <5>1, <5>2 DEF OneEach
      <4> QED
        BY <1>0, <4>1, <4>2, <4>3, ServerStep
    <3>3. CASE CheckStatus(w) /\ ~Working(w)
      <4>1. /\ mem[d].status = "QueuedToSync" /\ server' = server
            /\ clashed' = clashed \cup {e \in {d} : \E v \in Workers : Working(v) /\ job[v] = e}
        BY <1>0, <1>4, <3>3, GotoEffect DEF CheckStatus, Working, Steps
      <4>2. CASE \E v \in Workers : Working(v) /\ job[v] = d
        BY <4>1, <4>2
      <4>3. CASE mem[d].id
        BY <1>0, <1>1, <4>1, <4>3 DEF QueuedTwice, Disturbed, Excused
      <4>4. CASE ~mem[d].id /\ ~\E v \in Workers : Working(v) /\ job[v] = d
        <5>1. ~\E v \in Workers : step[v] = "made" /\ job[v] = d
          BY <4>4 DEF Working
        <5>2. Live(d)
          BY <4>1 DEF Live, DraftStatus
        <5>3. ~(server[d] >= 1)
          BY <1>0, <2>2, <4>4, <5>1, <5>2 DEF Counted
        <5> QED
          BY <1>0, <4>1, <5>3
      <4> QED
        BY <4>2, <4>3, <4>4
    <3> QED
      BY <3>2, <3>3
  <2> QED
    BY <2>1, <2>2
<1>5. ASSUME NEW d \in Drafts, mem'[d].id PROVE mem'[d].status # "Unborn"
  <2>1. mem[d].status # "Unborn"
    BY <1>0, <1>5, IdStep, LifeTypes DEF Counted
  <2> QED
    BY <1>0, <2>1, Forward
<1>6. ASSUME NEW d \in Drafts, server'[d] >= 1, d \notin lost' \cup clashed' \cup reopened' \cup leftBehind'
      PROVE  \/ mem'[d].status # "Unborn" /\ ~Live(d)'
             \/ mem'[d].id
             \/ \E w \in Workers : step'[w] = "made" /\ job'[w] = d
  <2>1. CASE SubmitOnline /\ form.draft = d
    <3>1. ~Live(d)'
      BY <1>6, <2>1, SubmitEffect DEF Excused
    <3>2. Moves(d) /\ mem[d].status \in Pending \cup Final \cup {"Unborn"}
      BY <1>0, MovesStep, LifeTypes
    <3>3. mem[d].status # "Unborn"
      BY <1>6, <2>1, DraftsAssumption DEF SubmitOnline, SubmittedWithout, Live, DraftStatus
    <3> QED
      BY <1>0, <3>1, <3>3, Forward
  <2>2. ASSUME NEW w \in Workers, ServerCreates(w), job[w] = d
        PROVE  \E v \in Workers : step'[v] = "made" /\ job'[v] = d
    BY <1>0, <2>2, GotoEffect DEF ServerCreates, Steps
  <2>3. CASE server'[d] = server[d]
    <3>1. ~Excused(d)
      BY <1>1, <1>6
    <3>2. CASE mem[d].status # "Unborn" /\ ~Live(d)
      BY <1>0, <3>2, Forward
    <3>3. CASE mem[d].id
      <4>1. mem[d].status # "Unborn"
        BY <1>0, <3>3 DEF Counted
      <4>2. mem'[d].id \/ ~Live(d)' \/ (Relaunched /\ mem'[d].status = mem[d].status
                                         /\ \E w \in Workers : step[w] = "made" /\ job[w] = d)
        BY <1>0, <3>3, <4>1, IdStep
      <4>3. mem'[d].status # "Unborn"
        BY <1>0, <4>1, Forward
      <4>4. ASSUME NEW w \in Workers, step[w] = "made", job[w] = d, Relaunched PROVE mem'[d].id \/ ~Live(d)'
        BY <1>0, <1>6, <4>4, MadeStep DEF Relaunched, Live
      <4> QED
        BY <4>2, <4>3, <4>4
    <3>4. ASSUME NEW w \in Workers, step[w] = "made", job[w] = d
          PROVE  \/ mem'[d].status # "Unborn" /\ ~Live(d)'
                 \/ mem'[d].id
                 \/ step'[w] = "made" /\ job'[w] = d
      <4>1. mem'[d].status # "Unborn"
        BY <1>0, <3>4, LifeTypes, Forward
      <4> QED
        BY <1>0, <1>6, <3>4, <4>1, MadeStep DEF Live
    <3> QED
      BY <1>0, <1>6, <2>3, <3>1, <3>2, <3>3, <3>4 DEF Counted
  <2> QED
    BY <1>0, <1>6, <2>1, <2>2, <2>3, ServerStep
<1>7. ASSUME NEW d \in Drafts, server'[d] = 2 PROVE d \in lost' \cup clashed' \cup reopened' \cup leftBehind'
  <2>1. CASE server[d] = 2
    BY <1>0, <1>1, <2>1 DEF CreatedOnce, Excused
  <2>2. CASE server[d] # 2
    <3>1. server'[d] = OneMore(server[d]) /\ server'[d] # server[d] /\ server[d] = 1
      BY <1>0, <1>7, <2>2, ServerStep DEF OneMore
    <3>2. ASSUME NEW w \in Workers, ServerCreates(w), job[w] = d PROVE Excused(d)
      BY <1>0, <3>1, <3>2 DEF ServerCreates, Counted, Working
    <3>3. CASE SubmitOnline /\ form.draft = d
      BY <3>1, <3>3, SubmitEffect DEF Excused
    <3> QED
      BY <1>0, <1>1, <3>1, <3>2, <3>3, ServerStep
  <2> QED
    BY <2>1, <2>2
<1>8. Counted'
  BY <1>3, <1>4, <1>5, <1>6 DEF Counted, Excused, Working
<1> QED
  BY <1>7, <1>8 DEF CreatedOnce

LEMMA CountInit == Init => CountInv
<1> SUFFICES ASSUME Init PROVE CountInv
  OBVIOUS
<1>1. /\ \A w \in Workers : step[w] = "idle"
      /\ \A d \in Drafts : mem[d].id = FALSE /\ server[d] = 0
  BY DEF Init, Gone
<1> QED
  BY <1>1, SlotInit DEF CountInv, Counted, CreatedOnce, Working

\* A customer is created at most once, unless an answer was lost, operations clashed over the draft,
\* its form was open meanwhile, or the form left it behind.
THEOREM OnceCreated == Spec => []CreatedOnce
<1>1. SlotInv /\ [Next]_vars => SlotInv'
  BY LifeStep, OneEachStep, OpenStep, QueuedTwiceStep, StuckStep DEF SlotInv
<1>2. CountInv /\ [Next]_vars => CountInv'
  BY <1>1, CountStep DEF CountInv
<1>3. CountInv => CreatedOnce
  BY DEF CountInv
<1> QED
  BY <1>2, <1>3, CountInit, PTL DEF Spec

-----------------------------------------------------------------------------
(* What the app shows of these drafts implements DraftDelivery.            *)

Phase == [d \in Drafts |-> PhaseOf(store[d].status)]

Shown(e) == PhaseOf(mem[e].status)

LEMMA PhaseValues ==
  /\ PhaseOf("Unborn") = "unwritten" /\ PhaseOf("Synced") = "delivered" /\ PhaseOf("Discarded") = "discarded"
  /\ \A s \in DraftStatus : PhaseOf(s) = "pending"
  BY DEF PhaseOf, DraftStatus

\* The database and the objects in memory tell the same story.
LEMMA PhaseShown == ASSUME LifeInv, NEW d \in Drafts PROVE Phase[d] = Shown(d)
  BY PhaseValues DEF LifeInv, Agreed, Phase, Shown

LEMMA PhaseStays ==
  ASSUME LifeInv, LifeInv', \A e \in Drafts : Shown(e)' = Shown(e)
  PROVE  Phase' = Phase
<1>1. \A e \in Drafts : Phase[e] = Shown(e)
  BY PhaseShown
<1>2. (\A e \in Drafts : Phase[e] = Shown(e))'
  BY PhaseValues DEF LifeInv, Agreed, Phase, Shown
<1> QED
  BY <1>1, <1>2 DEF Phase

LEMMA PhaseMoves ==
  ASSUME LifeInv, LifeInv', NEW d \in Drafts, NEW x,
         \A e \in Drafts : Shown(e)' = IF e = d THEN x ELSE Shown(e)
  PROVE  Phase[d] = Shown(d) /\ Phase' = [Phase EXCEPT ![d] = x]
<1>1. \A e \in Drafts : Phase[e] = Shown(e)
  BY PhaseShown
<1>2. \A e \in Drafts : Phase'[e] = Shown(e)'
  <2>1. (\A e \in Drafts : Phase[e] = Shown(e))'
    BY PhaseValues DEF LifeInv, Agreed, Phase, Shown
  <2> QED
    BY <2>1
<1> QED
  BY <1>1, <1>2 DEF Phase

\* The steps of DraftDelivery.
Delivers == Customers!Next \/ UNCHANGED <<Phase, server>>

LEMMA DeliverySteps ==
  ASSUME NEW d \in Drafts, server \in [Drafts -> 0..2]
  PROVE  /\ Phase[d] = "unwritten" /\ Phase' = [Phase EXCEPT ![d] = "pending"] /\ server' = server => Delivers
         /\ Phase[d] = "pending" /\ Phase' = [Phase EXCEPT ![d] = "discarded"] /\ server' = server => Delivers
         /\ /\ Phase[d] = "pending" /\ server[d] >= 1
            /\ Phase' = [Phase EXCEPT ![d] = "delivered"] /\ server' = server
            => Delivers
         /\ Phase' = Phase /\ server' = [server EXCEPT ![d] = OneMore(server[d])] => Delivers
         /\ /\ Phase[d] = "pending" /\ Phase' = [Phase EXCEPT ![d] = "delivered"]
            /\ server' = [server EXCEPT ![d] = OneMore(server[d])]
            => Delivers
<1>1. Customers!Write(d) \/ Customers!Register(d) \/ Customers!Deliver(d) \/ Customers!RegisterAndDeliver(d)
      \/ Customers!Discard(d) => Delivers
  BY DEF Delivers, Customers!Next
<1>2. /\ Customers!Write(d) <=> Phase[d] = "unwritten" /\ Phase' = [Phase EXCEPT ![d] = "pending"] /\ server' = server
      /\ Customers!Discard(d) <=> Phase[d] = "pending" /\ Phase' = [Phase EXCEPT ![d] = "discarded"] /\ server' = server
      /\ Customers!Deliver(d) <=> /\ Phase[d] = "pending" /\ server[d] >= 1
                                  /\ Phase' = [Phase EXCEPT ![d] = "delivered"] /\ server' = server
  BY DEF Customers!Write, Customers!Discard, Customers!Deliver, Phase
<1>3. Customers!Register(d) <=> Phase' = Phase /\ server' = [server EXCEPT ![d] = OneMore(server[d])]
  BY DEF Customers!Register, OneMore, Phase
<1>4. Customers!RegisterAndDeliver(d) <=> /\ Phase[d] \in {"unwritten", "pending"}
                                          /\ Phase' = [Phase EXCEPT ![d] = "delivered"]
                                          /\ server' = [server EXCEPT ![d] = OneMore(server[d])]
  BY DEF Customers!RegisterAndDeliver, OneMore, Phase
<1> QED
  BY <1>1, <1>2, <1>3, <1>4

LEMMA DeliveryStep ==
  ASSUME CountInv, CountInv', [Next]_vars
  PROVE  Delivers
<1>0. /\ LifeInv /\ LifeInv' /\ TypeOK /\ mem \in Table /\ store \in Table /\ Counted
      /\ server \in [Drafts -> 0..2]
      /\ \A d \in Drafts : Agreed(d)
      /\ {"Synced", "Discarded"} \subseteq Status /\ Pending \subseteq Status /\ Pending \subseteq DraftStatus
  BY LifeTypes, Statuses DEF CountInv, SlotInv, TypeOK, Final
<1>1. ASSUME \A e \in Drafts : Shown(e)' = Shown(e), server' = server PROVE Delivers
  BY <1>0, <1>1, PhaseStays DEF Delivers
<1>2. CASE ScreenStep \/ QueueOperations
  BY <1>1, <1>2 DEF ScreenStep, QueueOperations, Shown
<1>3. ASSUME NEW d \in Drafts, NEW s \in Final, Delete(d, s)
      PROVE  /\ Live(d) => /\ \A e \in Drafts : Shown(e)' = IF e = d THEN PhaseOf(s) ELSE Shown(e)
                           /\ Shown(d) = "pending"
             /\ ~Live(d) => \A e \in Drafts : Shown(e)' = Shown(e)
  <2>1. s \in Status
    BY Statuses
  <2>2. \A e \in Drafts : mem'[e].status = IF e = d /\ Live(e) THEN s ELSE mem[e].status
    BY <1>0, <1>3, <2>1, DeleteEffect
  <2> QED
    BY <2>2, PhaseValues DEF Shown, Live
<1>4. CASE Discarded
  <2>1. PICK d \in Drafts : Delete(d, "Discarded") /\ server' = server
    BY <1>4 DEF Discarded
  <2>2. CASE ~Live(d)
    BY <1>1, <1>3, <2>1, <2>2 DEF Final
  <2>3. CASE Live(d)
    <3>1. Phase[d] = "pending" /\ Phase' = [Phase EXCEPT ![d] = "discarded"]
      BY <1>0, <1>3, <2>1, <2>3, PhaseMoves, PhaseValues DEF Final
    <3> QED
      BY <1>0, <2>1, <3>1, DeliverySteps
  <2> QED
    BY <2>2, <2>3
<1>5. ASSUME NEW w \in Workers, Works(w) PROVE Delivers
  <2>1. CASE Created(w)
    <3>1. /\ job[w] \in Drafts /\ Delete(job[w], "Synced") /\ server' = server /\ server[job[w]] >= 1
      BY <1>0, <2>1, LifeTypes DEF Created, Counted
    <3>2. CASE ~Live(job[w])
      BY <1>1, <1>3, <3>1, <3>2 DEF Final
    <3>3. CASE Live(job[w])
      <4> PICK d \in Drafts : d = job[w]
        BY <3>1
      <4>1. Phase[d] = "pending" /\ Phase' = [Phase EXCEPT ![d] = "delivered"]
        BY <1>0, <1>3, <3>1, <3>3, PhaseMoves, PhaseValues DEF Final
      <4> QED
        BY <1>0, <3>1, <4>1, DeliverySteps
    <3> QED
      BY <3>2, <3>3
  <2>2. CASE ServerCreates(w)
    <3>1. /\ job[w] \in Drafts /\ server' = [server EXCEPT ![job[w]] = OneMore(server[job[w]])]
          /\ mem' = mem
      BY <2>2, <1>0 DEF ServerCreates, TypeOK
    <3>2. Phase' = Phase
      BY <1>0, <3>1, PhaseStays DEF Shown
    <3> QED
      BY <1>0, <3>1, <3>2, DeliverySteps
  <2>3. CASE ~Created(w) /\ ~ServerCreates(w)
    <3>1. server' = server
      BY <1>5, <2>3 DEF Works, Operation, StartOperation, CheckStatus, ClaimDraft, ReadForNotification,
         NotifyRejected, SendRequest, CreateFailed, AnswerSwallowed
    <3>2. ASSUME NEW s \in Pending, Ahead(job[w], s) PROVE \A e \in Drafts : Shown(e)' = Shown(e)
      BY <1>0, <3>2, PhaseValues DEF Ahead, Shown, Live
    <3>3. mem' = mem => \A e \in Drafts : Shown(e)' = Shown(e)
      BY DEF Shown
    <3> QED
      BY <1>0, <1>1, <1>5, <2>3, <3>1, <3>2, <3>3, WorksOnDraft
  <2> QED
    BY <2>1, <2>2, <2>3
<1>6. ASSUME NEW m \in Table, NEW a, Restart(m, a) PROVE Delivers
  <2>1. /\ \A e \in Drafts : mem'[e].status \in {mem[e].status, store[e].status}
        /\ server' = server
    BY <1>0, <1>6, RestartEffect DEF Restart, Launch
  <2>2. \A e \in Drafts : Shown(e)' = Shown(e)
    BY <1>0, <2>1, PhaseValues DEF Shown, Agreed
  <2> QED
    BY <1>1, <2>1, <2>2
<1>7. ASSUME NEW d \in Drafts, NEW s \in Pending, Insert(d, s), server' = server PROVE Delivers
  <2>1. /\ mem[d].status = "Unborn" /\ mem'[d].status = s /\ \A e \in Drafts : e # d => mem'[e] = mem[e]
    BY <1>0, <1>7, InsertEffect
  <2>2. Shown(d) = "unwritten" /\ \A e \in Drafts : Shown(e)' = IF e = d THEN "pending" ELSE Shown(e)
    BY <1>0, <2>1, PhaseValues DEF Shown
  <2>3. Phase[d] = "unwritten" /\ Phase' = [Phase EXCEPT ![d] = "pending"]
    BY <1>0, <2>2, PhaseMoves
  <2> QED
    BY <1>0, <1>7, <2>3, DeliverySteps
<1>8. ASSUME NEW d, NEW s \in Pending, Update(d, s), server' = server PROVE Delivers
  <2>1. \A e \in Drafts : mem'[e].status = IF e = d /\ Live(e) THEN s ELSE mem[e].status
    BY <1>0, <1>8, UpdateEffect
  <2>2. \A e \in Drafts : Shown(e)' = Shown(e)
    BY <1>0, <2>1, PhaseValues DEF Shown, Live
  <2> QED
    BY <1>1, <1>8, <2>2
<1>9. CASE SaveAsDraft \/ QueueDraft
  BY <1>7, <1>8, <1>9, Statuses DEF SaveAsDraft, QueueDraft
<1>10. ASSUME NEW d, ServerCreatesFor(d)
       PROVE  IF d \in Drafts THEN server' = [server EXCEPT ![d] = OneMore(server[d])] ELSE server' = server
  BY <1>0, <1>10 DEF ServerCreatesFor
<1>11. ASSUME NEW d, ServerCreatesFor(d), \A e \in Drafts : Shown(e)' = Shown(e) PROVE Delivers
  <2>1. CASE d \notin Drafts
    BY <1>1, <1>10, <1>11, <2>1
  <2>2. CASE d \in Drafts
    <3>1. Phase' = Phase
      BY <1>0, <1>11, PhaseStays
    <3> QED
      BY <1>0, <1>10, <1>11, <2>2, <3>1, DeliverySteps
  <2> QED
    BY <2>1, <2>2
<1>12. CASE SubmitOnlineFailed
  BY <1>11, <1>12 DEF SubmitOnlineFailed, Shown
<1>13. CASE SubmitOnline
  <2>1. CASE UNCHANGED device
    BY <1>11, <1>13, <2>1 DEF SubmitOnline, Shown
  <2>2. CASE form.from = "drafts" /\ Live(form.draft) /\ Delete(form.draft, "Synced")
    <3> PICK d \in Drafts : d = form.draft
      BY <1>0, <2>2 DEF TypeOK, NoForm
    <3>1. ServerCreatesFor(d)
      BY <1>13 DEF SubmitOnline
    <3>2. Phase[d] = "pending" /\ Phase' = [Phase EXCEPT ![d] = "delivered"]
      BY <1>0, <1>3, <2>2, PhaseMoves, PhaseValues DEF Final
    <3> QED
      BY <1>0, <1>10, <3>1, <3>2, DeliverySteps
  <2> QED
    BY <1>13, <2>1, <2>2 DEF SubmitOnline
<1> QED
  BY <1>0, <1>2, <1>4, <1>5, <1>6, <1>9, <1>12, <1>13, StepCases

\* The database of account and contact drafts implements DraftDelivery: no step of an operation, a
\* screen or a relaunch forgets a customer, brings a deleted draft back, or delivers one that the
\* server does not have.
THEOREM DeliveredCustomers == Spec => CustomersDelivered
<1>1. SlotInv /\ [Next]_vars => SlotInv'
  BY LifeStep, OneEachStep, OpenStep, QueuedTwiceStep, StuckStep DEF SlotInv
<1>2. CountInv /\ [Next]_vars => CountInv'
  BY <1>1, CountStep DEF CountInv
<1>3. Init => Customers!Init
  BY PhaseValues DEF Init, Customers!Init, Gone
<1>4. CountInv /\ CountInv' /\ [Next]_vars => [Customers!Next]_<<Phase, server>>
  BY DeliveryStep DEF Delivers
<1>5. Phase = [d \in Drafts |-> PhaseOf(store[d].status)]
  BY DEF Phase
<1> QED
  BY <1>2, <1>3, <1>4, <1>5, CountInit, PTL DEF Spec, CustomersDelivered, Customers!Spec, Phase
=============================================================================
