---------------------------- MODULE CustomerSync ----------------------------
(***************************************************************************)
(* Offline account and contact drafts and their delivery to the CRM        *)
(* server.                                                                 *)
(*                                                                         *)
(* Accounts and contacts each have a sync manager, an operation, a tab of  *)
(* the Drafts screen and a prospect form, written twice line for line; one *)
(* module stands for either.  The manager is OptySyncManager's, but an     *)
(* operation makes one request, a draft of any status can be opened, and   *)
(* nothing repairs these drafts at launch.                                 *)
(*                                                                         *)
(* As in DraftSync, mem is what the managed objects say and store what the *)
(* database says, and anybody's save writes every pending change.          *)
(***************************************************************************)
EXTENDS Naturals, Sequences, FiniteSets, SequencesExt

CONSTANTS
    Drafts,       \* draft identifiers: naturals, in the order the table returns its rows
    Workers,      \* the slots of the operation queue (maxConcurrentOperationCount, 5)
    MaxQueue,     \* bound: operations waiting for a slot
    MaxLaunches,  \* bound: times the process dies and is launched again
    Swallows      \* whether the token layer may leave a request without an answer

NoDraft == 0

ASSUME DraftsAssumption == Drafts \subseteq Nat \ {NoDraft} /\ IsFiniteSet(Drafts)
ASSUME BoundsAssumption == /\ MaxQueue \in Nat
                           /\ MaxLaunches \in Nat
                           /\ Swallows \in BOOLEAN

VARIABLES
    (* the device *)
    mem,        \* what the managed object of each draft says
    store,      \* what the database holds for it
    (* the sync manager *)
    reading,    \* a network report has started a pass that has not fetched yet
    opQueue,    \* the operations waiting for a slot, by draft
    (* the operations, one per slot *)
    step,       \* where the operation is
    job,        \* the draft it works on
    seen,       \* the draft status it has put in its closing notification
    (* user interface *)
    listed,     \* drafts in the Drafts screen's array; {} when it is closed
    asked,      \* row of the pending delete confirmation, 0 if there is none
    form,       \* the open prospect form: where from, and the draft it has saved or edits
    confirming, \* the "You are currently Offline" alert is up
    (* environment *)
    online,     \* AFNetworkReachabilityManager says reachable
    server,     \* customers created on the server from a draft's form
    launches,   \* relaunches so far
    (* history, read by properties only *)
    lost,       \* drafts whose creation succeeded but whose answer never arrived
    clashed,    \* drafts two operations claimed at once, or given a stale status back
    reopened,   \* drafts open in a form while an operation claims or has them, or with their id
    stranded,   \* drafts a relaunch found Syncing, until they are written again
    leftBehind  \* drafts whose form was submitted as if it had saved none

device   == <<mem, store>>
manager  == <<reading, opQueue>>
workers  == <<step, job, seen>>
ui       == <<listed, asked, form, confirming>>
outside  == <<online, server, launches>>
history  == <<lost, clashed, reopened, stranded, leftBehind>>
vars     == <<device, manager, workers, ui, outside, history>>

-----------------------------------------------------------------------------
(* Data.                                                                   *)

\* EGDraftStatus, and the ways of not being a draft.
GoneStatus  == {"Unborn", "Synced", "Discarded"}
DraftStatus == {"SavedAsDraft", "QueuedToSync", "Syncing", "SyncFailed", "SyncSuccess"}

\* id: the customer record has the server's identifier.
DraftRecord == [status: GoneStatus \cup DraftStatus, id: BOOLEAN]

Gone(s)  == [status |-> s, id |-> FALSE]
Fresh(s) == [status |-> s, id |-> FALSE]

Live(d) == mem[d].status \in DraftStatus

NoForm == [from |-> "none", draft |-> NoDraft]

Steps == {"idle", "started", "claiming", "rejecting", "finishing",
          "next", "sent", "made", "stuck", "unanswered"}

\* 2 stands for "two or more".
OneMore(n) == IF n = 0 THEN 1 ELSE 2

Outstanding(d) == \/ \E i \in 1..Len(opQueue) : opQueue[i] = d
                  \/ \E w \in Workers : step[w] # "idle" /\ job[w] = d

\* [managedObjectContext save:]: every pending change of every draft.
SaveAll == store' = mem'

\* Faulty: the deletion is not saved.
DeleteUnsaved(d, why) == /\ mem' = [mem EXCEPT ![d] = IF Live(d) THEN Gone(why) ELSE @]
                         /\ UNCHANGED store

Delete(d, why) == /\ mem' = [mem EXCEPT ![d] = IF Live(d) THEN Gone(why) ELSE @]
                  /\ SaveAll

\* Assigning to a deleted object changes no draft.
SetStatus(d, s) == mem' = [mem EXCEPT ![d].status = IF Live(d) THEN s ELSE @]

\* The Drafts screen's observer of a status notification.
Observe(d, s) ==
    \/ /\ d \notin listed
       /\ UNCHANGED <<mem, store, listed>>
    \/ /\ d \in listed
       /\ s = "SyncSuccess"
       /\ Delete(d, "Synced")
       /\ listed' = listed \ {d}
    \/ /\ d \in listed
       /\ s # "SyncSuccess"
       /\ SetStatus(d, s)
       /\ UNCHANGED <<store, listed>>

\* Drafts of the other kinds share the context, and their saves write these.
OtherSave ==
    /\ UNCHANGED <<mem, manager, workers, ui, outside, history>>
    /\ SaveAll

-----------------------------------------------------------------------------
(* AccountSyncManager, ContactSyncManager.                                 *)

\* onInternetAvailable, for every reachable status: start, on the manager's queue.
NetworkAvailable ==
    /\ ~reading
    /\ online' = TRUE
    /\ reading' = TRUE
    /\ UNCHANGED <<device, opQueue, workers, ui, server, launches, history>>

NetworkLost ==
    /\ online
    /\ online' = FALSE
    /\ UNCHANGED <<device, manager, workers, ui, server, launches, history>>

\* The fetch predicate.
ToSync == {d \in Drafts : mem[d].status = "QueuedToSync"}

\* getDraftsToSync and queuAllSyncOperations: one operation for each fetched draft, in
\* the order of the fetch, which the request leaves open.
QueueOperations ==
    /\ reading
    /\ reading' = FALSE
    /\ Len(opQueue) + Cardinality(ToSync) <= MaxQueue
    /\ \E fetched \in SetToSeqs(ToSync) : opQueue' = opQueue \o fetched
    /\ UNCHANGED <<device, workers, ui, outside, history>>

-----------------------------------------------------------------------------
(* AccountCreateOperation, ContactCreateOperation.                         *)

Goto(w, s) == step' = [step EXCEPT ![w] = s]

Retire(w) == /\ Goto(w, "idle")
             /\ job' = [job EXCEPT ![w] = NoDraft]
             /\ seen' = [seen EXCEPT ![w] = "Unborn"]

StartOperation(w) ==
    /\ step[w] = "idle"
    /\ opQueue # <<>>
    /\ opQueue' = Tail(opQueue)
    /\ job' = [job EXCEPT ![w] = Head(opQueue)]
    /\ Goto(w, "started")
    /\ UNCHANGED <<device, reading, seen, ui, outside, history>>

Working(w) == step[w] \in {"claiming", "next", "sent", "made", "stuck", "unanswered"}

\* postAccount reads the status ...
CheckStatus(w) ==
    LET d == job[w] IN
    /\ step[w] = "started"
    /\ \/ /\ mem[d].status = "QueuedToSync"
          /\ Goto(w, "claiming")
          /\ clashed' = clashed \cup {e \in {d} : \E v \in Workers : Working(v) /\ job[v] = e}
          /\ reopened' = reopened \cup ({d} \cap {form.draft})
       \/ /\ mem[d].status # "QueuedToSync"
          /\ Goto(w, "rejecting")
          /\ UNCHANGED <<clashed, reopened>>
    /\ UNCHANGED <<device, manager, job, seen, ui, outside, lost, stranded, leftBehind>>

\* Faulty: the claim leaves the draft queued.
ClaimedStatusQueued == "QueuedToSync"

ClaimedStatus == "Syncing"

\* ... and then writes it, unsaved, and tells the observer, who writes it again.
ClaimDraft(w) ==
    /\ step[w] = "claiming"
    /\ SetStatus(job[w], ClaimedStatus)
    /\ Goto(w, "next")
    /\ UNCHANGED <<store, manager, job, seen, ui, outside, history>>

\* A draft in any other status: the operation fails, and announces the status ...
ReadForNotification(w) ==
    /\ step[w] = "rejecting"
    /\ seen' = [seen EXCEPT ![w] = mem[job[w]].status]
    /\ Goto(w, "finishing")
    /\ UNCHANGED <<device, manager, job, ui, outside, history>>

\* ... which the observer writes back, on this thread and by then maybe stale.
NotifyRejected(w) ==
    /\ step[w] = "finishing"
    /\ Observe(job[w], seen[w])
    /\ clashed' = clashed \cup {d \in listed \cap {job[w]} : mem[d].status # seen[w]}
    /\ Retire(w)
    /\ UNCHANGED <<manager, asked, form, confirming, outside, lost, reopened, stranded, leftBehind>>

\* The guard of callCreateAccountAPI.
Creatable(d) == Live(d) /\ ~mem[d].id

\* callCreateAccountAPI: without a record, or with one that has its identifier,
\* the method returns and the operation never finishes.
SendRequest(w) ==
    /\ step[w] = "next"
    /\ \/ /\ Creatable(job[w])
          /\ Goto(w, "sent")
       \/ /\ ~Creatable(job[w])
          /\ Goto(w, "stuck")
    /\ UNCHANGED <<device, manager, job, seen, ui, outside, history>>

ServerCreates(w) ==
    /\ step[w] = "sent"
    /\ online
    /\ Goto(w, "made")
    /\ server' = [server EXCEPT ![job[w]] = OneMore(@)]
    /\ UNCHANGED <<device, manager, job, seen, ui, online, launches, history>>

\* Success, all of it on the main thread: identifier, save, SyncSuccess, and the
\* draft is deleted by the observer if it is on screen and by the operation anyway.
Created(w) ==
    /\ step[w] = "made"
    /\ Delete(job[w], "Synced")
    /\ listed' = listed \ {job[w]}
    /\ Retire(w)
    /\ UNCHANGED <<manager, asked, form, confirming, outside, history>>

\* Faulty: a failure counts as delivered, or is not noted.
FailedStatusDelivered == "SyncSuccess"
FailedStatusDefault == "Default"
FailedStatusKept == "Syncing"

FailedStatus == "SyncFailed"

\* A failure answer, whether or not the server did the work.
CreateFailed(w) ==
    /\ step[w] \in {"sent", "made"}
    /\ SetStatus(job[w], FailedStatus)
    /\ lost' = IF step[w] = "made" THEN lost \cup {job[w]} ELSE lost
    /\ Retire(w)
    /\ UNCHANGED <<store, manager, ui, outside, clashed, reopened, stranded, leftBehind>>

\* A request parked in the token manager's queue and never replayed.
AnswerSwallowed(w) ==
    /\ Swallows
    /\ step[w] = "sent"
    /\ Goto(w, "unanswered")
    /\ UNCHANGED <<device, manager, job, seen, ui, outside, history>>

-----------------------------------------------------------------------------
(* The process dies and is launched again: only the database survives, and *)
(* resetDraftStatus looks at opportunity drafts only.                      *)

Launch(m, answered) ==
    /\ mem' = m
    /\ store' = m
    /\ reading' = FALSE
    /\ opQueue' = <<>>
    /\ step' = [w \in Workers |-> "idle"]
    /\ job' = [w \in Workers |-> NoDraft]
    /\ seen' = [w \in Workers |-> "Unborn"]
    /\ listed' = {}
    /\ asked' = 0
    /\ form' = NoForm
    /\ confirming' = FALSE
    /\ lost' = lost \cup {job[w] : w \in {v \in Workers \ answered : step[v] = "made"}}
    /\ stranded' = {d \in Drafts : m[d].status = "Syncing"}
    /\ UNCHANGED <<online, server, clashed, reopened, leftBehind>>

MayDie == launches < MaxLaunches

Killed ==
    /\ MayDie
    /\ Launch(store, {})
    /\ launches' = launches + 1

\* applicationWillTerminate saves the context first.
Terminated ==
    /\ MayDie
    /\ Launch(mem, {})
    /\ launches' = launches + 1

\* The process dies in the success block, after the identifier was saved and before
\* the draft is deleted.
KilledAfterSave(w) ==
    LET d == job[w] IN
    /\ MayDie
    /\ step[w] = "made"
    /\ Launch([mem EXCEPT ![d].id = Live(d)], {w})
    /\ launches' = launches + 1

-----------------------------------------------------------------------------
(* The account and contact tabs of the Drafts screen.                      *)

OpenDrafts ==
    /\ form = NoForm
    /\ listed = {}
    /\ listed' = {d \in Drafts : Live(d)}
    /\ UNCHANGED <<device, manager, workers, asked, form, confirming, outside, history>>

CloseDrafts ==
    /\ listed # {}
    /\ asked = 0
    /\ listed' = {}
    /\ UNCHANGED <<device, manager, workers, asked, form, confirming, outside, history>>

Row(d) == Cardinality({e \in listed : e <= d})

\* delete_Action_Account asks whatever the status.
AskDelete(d) ==
    /\ d \in listed
    /\ asked = 0
    /\ asked' = Row(d)
    /\ UNCHANGED <<device, manager, workers, listed, form, confirming, outside, history>>

\* OK deletes the draft in that row by now and fetches the list again; when the row
\* is gone the array access raises.
ConfirmDelete ==
    /\ asked # 0
    /\ \/ \E d \in listed : /\ Row(d) = asked
                            /\ Delete(d, "Discarded")
                            /\ listed' = {e \in Drafts : Live(e)} \ {d}
                            /\ asked' = 0
                            /\ UNCHANGED <<manager, workers, form, confirming, outside, history>>
       \/ /\ \A d \in listed : Row(d) # asked
          /\ Launch(store, {})
          /\ UNCHANGED launches

CancelDelete ==
    /\ asked # 0
    /\ asked' = 0
    /\ UNCHANGED <<device, manager, workers, listed, form, confirming, outside, history>>

-----------------------------------------------------------------------------
(* ProspectViewController and its account and contact categories.          *)

NewForm ==
    /\ form = NoForm
    /\ asked = 0
    /\ form' = [from |-> "home", draft |-> NoDraft]
    /\ listed' = {}
    /\ UNCHANGED <<device, manager, workers, asked, confirming, outside, history>>

\* didSelectItemAtIndexPath opens the draft whatever its status.
OpenDraft(d) ==
    /\ d \in listed
    /\ asked = 0
    /\ form' = [from |-> "drafts", draft |-> d]
    /\ listed' = {}
    /\ reopened' = IF Outstanding(d) \/ mem[d].id THEN reopened \cup {d} ELSE reopened
    /\ UNCHANGED <<device, manager, workers, asked, confirming, outside,
                   lost, clashed, stranded, leftBehind>>

CloseForm ==
    /\ form # NoForm
    /\ ~confirming
    /\ form' = NoForm
    /\ UNCHANGED <<device, manager, workers, listed, asked, confirming, outside, history>>

\* saveAccountdraft, saveContact: a new draft, in the next row of the table.
Insert(d, s) ==
    /\ mem[d].status = "Unborn"
    /\ \A e \in Drafts : e < d => mem[e].status # "Unborn"
    /\ mem' = [mem EXCEPT ![d] = Fresh(s)]
    /\ SaveAll
    /\ UNCHANGED stranded

\* updateAccountDraft, updateContact: the draft is fetched by its identifier and gets
\* the status, unless it is gone.
Update(d, s) ==
    /\ SetStatus(d, s)
    /\ SaveAll
    /\ stranded' = stranded \ {d}

\* "Save as draft", and "Update draft" from the second time on.
SaveAsDraft ==
    /\ form # NoForm
    /\ ~confirming
    /\ \/ /\ form.draft = NoDraft
          /\ \E d \in Drafts : Insert(d, "SavedAsDraft") /\ form' = [form EXCEPT !.draft = d]
       \/ /\ form.draft # NoDraft
          /\ Update(form.draft, "SavedAsDraft")
          /\ UNCHANGED form
    /\ UNCHANGED <<manager, workers, listed, asked, confirming, outside,
                   lost, clashed, reopened, leftBehind>>

SubmitOffline ==
    /\ form # NoForm
    /\ ~confirming
    /\ ~online
    /\ confirming' = TRUE
    /\ UNCHANGED <<device, manager, workers, listed, asked, form, outside, history>>

\* A form that was opened from the home screen does not count as having a draft,
\* even when it has saved one.
SubmittedWithout == IF form.from = "home" THEN {form.draft} \ {NoDraft} ELSE {}

\* The alert's OK queues a draft: the one the form was opened with, else a new one.
\* A draft deleted under its form is a deleted object whose identifier may read nil.
QueueDraft ==
    /\ confirming
    /\ \/ form.from = "drafts" /\ Update(form.draft, "QueuedToSync")
       \/ /\ form.from = "drafts" => ~Live(form.draft)
          /\ \E d \in Drafts : Insert(d, "QueuedToSync")
    /\ leftBehind' = leftBehind \cup SubmittedWithout
    /\ form' = NoForm
    /\ confirming' = FALSE
    /\ UNCHANGED <<manager, workers, listed, asked, outside, lost, clashed, reopened>>

\* The PIN screen dismisses an open alert without an answer.
PinScreenShown ==
    /\ confirming \/ asked # 0
    /\ confirming' = FALSE
    /\ asked' = 0
    /\ UNCHANGED <<device, manager, workers, listed, form, outside, history>>

ServerCreatesFor(d) == server' = [e \in Drafts |-> IF e = d THEN OneMore(server[e]) ELSE server[e]]

\* Submitting with a network creates the customer at once; the draft the form was
\* opened with is deleted, ...
SubmitOnline ==
    LET d == form.draft IN
    /\ form # NoForm
    /\ ~confirming
    /\ online
    /\ ServerCreatesFor(d)
    /\ form' = NoForm
    /\ \/ /\ form.from = "drafts"
          /\ Live(d)
          /\ Delete(d, "Synced")
       \/ /\ form.from = "home"
          /\ UNCHANGED device
    /\ leftBehind' = leftBehind \cup SubmittedWithout
    /\ UNCHANGED <<manager, workers, listed, asked, confirming, online, launches,
                   lost, clashed, reopened, stranded>>

\* ... and when it is gone by then, deleting nil raises.
SubmitOnlineWithoutDraft ==
    /\ form.from = "drafts"
    /\ ~Live(form.draft)
    /\ ~confirming
    /\ online
    /\ Launch(store, {})
    /\ UNCHANGED launches

\* A failure answer leaves the form open, whether or not the server did the work.
SubmitOnlineFailed ==
    /\ form # NoForm
    /\ ~confirming
    /\ online
    /\ ServerCreatesFor(form.draft)
    /\ lost' = lost \cup ({form.draft} \ {NoDraft})
    /\ UNCHANGED <<device, manager, workers, ui, online, launches,
                   clashed, reopened, stranded, leftBehind>>

-----------------------------------------------------------------------------

Init ==
    /\ mem = [d \in Drafts |-> Gone("Unborn")]
    /\ store = mem
    /\ reading = FALSE
    /\ opQueue = <<>>
    /\ step = [w \in Workers |-> "idle"]
    /\ job = [w \in Workers |-> NoDraft]
    /\ seen = [w \in Workers |-> "Unborn"]
    /\ listed = {}
    /\ asked = 0
    /\ form = NoForm
    /\ confirming = FALSE
    /\ online \in BOOLEAN
    /\ server = [d \in Drafts |-> 0]
    /\ launches = 0
    /\ lost = {}
    /\ clashed = {}
    /\ reopened = {}
    /\ stranded = {}
    /\ leftBehind = {}

\* What the operation's thread does on its own.
Operation(w) == \/ StartOperation(w) \/ CheckStatus(w) \/ ClaimDraft(w)
                \/ ReadForNotification(w) \/ NotifyRejected(w) \/ SendRequest(w)

DraftsScreen == \/ OpenDrafts \/ CloseDrafts
                \/ (\E d \in Drafts : AskDelete(d))
                \/ ConfirmDelete \/ CancelDelete

FormScreen == \/ NewForm \/ (\E d \in Drafts : OpenDraft(d)) \/ CloseForm
              \/ SaveAsDraft \/ SubmitOffline \/ QueueDraft
              \/ SubmitOnline \/ SubmitOnlineWithoutDraft \/ SubmitOnlineFailed

Next ==
    \/ NetworkAvailable \/ NetworkLost
    \/ QueueOperations
    \/ \E w \in Workers : \/ Operation(w) \/ ServerCreates(w) \/ Created(w) \/ CreateFailed(w)
                          \/ AnswerSwallowed(w) \/ KilledAfterSave(w)
    \/ OtherSave
    \/ Killed \/ Terminated
    \/ DraftsScreen \/ FormScreen \/ PinScreenShown

Spec == Init /\ [][Next]_vars

-----------------------------------------------------------------------------
(* Properties.                                                             *)

\* Type invariant: every variable keeps to the values the code gives it.
TypeOK ==
    /\ mem \in [Drafts -> DraftRecord]
    /\ store \in [Drafts -> DraftRecord]
    /\ reading \in BOOLEAN
    /\ opQueue \in Seq(Drafts)
    /\ step \in [Workers -> Steps]
    /\ job \in [Workers -> Drafts \cup {NoDraft}]
    /\ \A w \in Workers : step[w] # "idle" => job[w] \in Drafts
    /\ seen \in [Workers -> GoneStatus \cup DraftStatus]
    /\ listed \subseteq Drafts
    /\ asked \in Nat
    /\ form \in [from: {"home"}, draft: Drafts \cup {NoDraft}] \cup [from: {"drafts"}, draft: Drafts]
                \cup {NoForm}
    /\ confirming \in BOOLEAN /\ (confirming => form # NoForm)
    /\ online \in BOOLEAN
    /\ server \in [Drafts -> 0..2]
    /\ launches \in 0..MaxLaunches
    /\ lost \cup clashed \cup reopened \cup stranded \cup leftBehind \subseteq Drafts

\* A customer is created on the server at most once, unless the answer was lost, two
\* operations clashed over the draft, it was open in a form while an operation had it
\* or had delivered it, or it was left behind by its own form.  In particular a process that
\* dies between the save of the identifier and the deletion repeats nothing by itself.
CreatedOnce ==
    \A d \in Drafts :
        server[d] = 2 => d \in lost \cup clashed \cup reopened \cup leftBehind

\* A draft says Syncing only while an operation works on it, or when a relaunch found
\* it so: nothing but the user's opening it gets it out of that state.
SyncingIsOwned ==
    \A d \in Drafts :
        mem[d].status = "Syncing" =>
            \/ d \in clashed \cup stranded
            \/ \E w \in Workers : Working(w) /\ job[w] = d

\* An operation that returns without finishing, and keeps its slot for ever, had its
\* draft deleted under it or, after the process died with the identifier saved, found it
\* queued again: by the user who opened it, or by a status given back stale.
SlotHeldForCause ==
    \A w \in Workers :
        step[w] = "stuck" => \/ ~Live(job[w])
                             \/ mem[job[w]].id /\ job[w] \in reopened \cup clashed

-----------------------------------------------------------------------------
(* What the app shows of these drafts implements DraftDelivery.            *)

PhaseOf(s) == CASE s = "Unborn"        -> "unwritten"
                [] s = "Synced"        -> "delivered"
                [] s = "Discarded"     -> "discarded"
                [] s \in DraftStatus   -> "pending"

Customers == INSTANCE DraftDelivery
             WITH phase <- [d \in Drafts |-> PhaseOf(store[d].status)], records <- server

\* No step of an operation, a screen or a relaunch forgets a customer the user entered,
\* brings a deleted draft back, or delivers one the server does not have.
CustomersDelivered == Customers!Spec
=============================================================================
