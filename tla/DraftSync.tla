----------------------------- MODULE DraftSync -----------------------------
(***************************************************************************)
(* Offline opportunity drafts and their delivery to the CRM server.        *)
(*                                                                         *)
(* A sales person fills in an opportunity form; without a network the form *)
(* becomes a Core Data draft that is queued.  Each time the network is     *)
(* reported reachable, OptySyncManager fetches the queued drafts on its    *)
(* own dispatch queue and adds one OptyCreateOperation per draft to an     *)
(* NSOperationQueue.  An operation creates the draft's contact, then its   *)
(* account, then the opportunity on the server, saving each identifier as  *)
(* it arrives, creates a follow-up activity and deletes the draft.         *)
(*                                                                         *)
(* All of it works on ONE managed object context: what an object says in   *)
(* memory (mem) reaches the database (store) when anybody saves, and a     *)
(* save writes the pending changes of every draft.                         *)
(***************************************************************************)
EXTENDS Naturals, Sequences, FiniteSets

CONSTANTS
    Drafts,       \* draft identifiers: naturals, in the order the table returns its rows
    Users,        \* who may log in on the device
    Owner,        \* userIDLink: the user who writes each draft
    Workers,      \* the slots of the operation queue (maxConcurrentOperationCount, 5)
    Passes,       \* sync passes that can be under way at once
    Contacts,     \* states a form's contact can be in: subset of {"new", "id"}
    Accounts,     \* states a form's account can be in: subset of {"none", "new", "id"}
    MaxQueue,     \* bound: operations waiting for a slot
    MaxLaunches,  \* bound: times the process dies and is launched again
    Swallows      \* whether the token layer may leave a request without an answer

NoDraft == 0
NoUser == 0

ASSUME DraftsAssumption == Drafts \subseteq Nat \ {NoDraft}
ASSUME UsersAssumption == /\ Users \subseteq Nat \ {NoUser}
                          /\ Owner \in [Drafts -> Users]
ASSUME InputsAssumption == /\ Contacts \subseteq {"new", "id"}
                           /\ Accounts \subseteq {"none", "new", "id"}
ASSUME BoundsAssumption == /\ MaxQueue \in Nat
                           /\ MaxLaunches \in Nat
                           /\ Swallows \in BOOLEAN

VARIABLES
    (* the device: Core Data context and database *)
    mem,        \* what the managed object of each draft says
    store,      \* what the database holds for it
    (* OptySyncManager *)
    pass,       \* where each sync pass is
    batch,      \* drafts a pass has fetched and not yet queued
    opQueue,    \* the operations waiting for a slot, by draft
    (* OptyCreateOperation, one per slot *)
    step,       \* where the operation is
    job,        \* the draft it works on
    kind,       \* the record whose creation it is at
    seen,       \* the draft status it has put in its closing notification
    orphaned,   \* operations whose answer will be written into a replaced record
    (* user interface *)
    listed,     \* drafts in the Drafts screen's array; {} when it is closed
    asked,      \* row of the pending delete confirmation, 0 if there is none
    form,       \* the open opportunity form and the ids it was opened with
    confirming, \* the "You are currently Offline" alert is up
    (* AppRepo *)
    user,       \* the logged-in user, or NoUser
    (* environment *)
    online,     \* AFNetworkReachabilityManager says reachable
    server,     \* records created on the server for a draft, by kind
    launches,   \* relaunches so far
    (* history, read by properties only *)
    lost,       \* kinds whose creation succeeded but whose answer never arrived
    refetched,  \* drafts fetched again while an operation for them was outstanding
    clashed,    \* drafts two operations claimed at once, or given a stale status back
    reopened    \* drafts opened in the form between their creation and their deletion

device   == <<mem, store>>
manager  == <<pass, batch, opQueue>>
workers  == <<step, job, kind, seen, orphaned>>
ui       == <<listed, asked, form, confirming>>
outside  == <<user, online, server, launches>>
history  == <<lost, refetched, clashed, reopened>>
vars     == <<device, manager, workers, ui, outside, history>>

-----------------------------------------------------------------------------
(* Data.                                                                   *)

Kinds == {"contact", "account", "opty"}

\* EGDraftStatus, and the three ways of not being a draft: not written yet,
\* deleted because it was delivered, deleted by the user.
GoneStatus  == {"Unborn", "Synced", "Discarded"}
DraftStatus == {"SavedAsDraft", "QueuedToSync", "Syncing", "SyncFailed", "SyncSuccess"}
Status      == DraftStatus \cup GoneStatus

\* A linked record is absent, has no server identifier yet, or has one.
Link == {"none", "new", "id"}

DraftRecord == [status: Status, contact: Link, account: Link, opty: Link]

Gone(s) == [status |-> s, contact |-> "none", account |-> "none", opty |-> "none"]

Live(d) == mem[d].status \in DraftStatus

Steps == {"idle", "started", "claiming", "rejecting", "finishing",
          "next", "sent", "made", "activity", "stuck"}

NoForm == [draft |-> NoDraft, contact |-> "none", account |-> "none"]

\* 2 stands for "two or more".
OneMore(n) == IF n = 0 THEN 1 ELSE 2

\* The order in which an operation looks at the records of its draft.
After(k) == IF k = "contact" THEN "account" ELSE "opty"

\* Some operation for the draft exists that has not finished.
Outstanding(d) ==
    \/ \E p \in Passes : d \in batch[p]
    \/ \E i \in 1..Len(opQueue) : opQueue[i] = d
    \/ \E w \in Workers : step[w] # "idle" /\ job[w] = d

-----------------------------------------------------------------------------
(* Core Data.                                                              *)

\* Faulty: identifiers wait in memory for some later save.
SaveNothing == UNCHANGED store

\* [managedObjectContext save:]: every pending change of every draft.
SaveAll == store' = mem'

\* Faulty: the deletion is not saved.
DeleteUnsaved(d, why) == /\ mem' = [mem EXCEPT ![d] = IF Live(d) THEN Gone(why) ELSE @]
                         /\ UNCHANGED store

\* The draft object is deleted from the context and the context is saved.
Delete(d, why) == /\ mem' = [mem EXCEPT ![d] = IF Live(d) THEN Gone(why) ELSE @]
                  /\ SaveAll

\* Assigning to a deleted object changes no draft.
SetStatus(d, s) == mem' = [mem EXCEPT ![d].status = IF Live(d) THEN s ELSE @]

\* The Drafts screen's observer of a status notification: it deletes the draft
\* on SyncSuccess and otherwise writes the announced status into the object.
Observe(d, s) ==
    \/ /\ d \notin listed
       /\ UNCHANGED <<mem, store, listed>>
    \/ /\ d \in listed
       /\ s = "SyncSuccess"
       /\ Delete(d, "Synced")
       /\ listed' = listed \ {d}
    \/ /\ d \in listed
       /\ s # "SyncSuccess"
       /\ SetStatus(d, s)
       /\ UNCHANGED <<store, listed>>

-----------------------------------------------------------------------------
(* OptySyncManager.                                                        *)

\* NOTIFICATION_NETWORK_AVAILABLE, posted for every reachable status: start.
\* syncStatus never becomes InProgress, so no pass is ever turned away.
NetworkAvailable ==
    /\ online' = TRUE
    /\ \E p \in Passes : /\ pass[p] = "idle"
                         /\ pass' = [pass EXCEPT ![p] = "reading"]
    /\ UNCHANGED <<device, batch, opQueue, workers, ui, user, server, launches, history>>

NetworkLost ==
    /\ online
    /\ online' = FALSE
    /\ UNCHANGED <<device, manager, workers, ui, user, server, launches, history>>

\* Faulty: the wrong status is fetched.
FetchableFailed(d) == mem[d].status = "SyncFailed" /\ Owner[d] = user

\* The fetch predicate: a queued draft of whoever is logged in.
Fetchable(d) == mem[d].status = "QueuedToSync" /\ Owner[d] = user

\* getDraftsToSync, on the pass's thread.
ReadDrafts(p) ==
    /\ pass[p] = "reading"
    /\ pass' = [pass EXCEPT ![p] = "queuing"]
    /\ batch' = [batch EXCEPT ![p] = {d \in Drafts : Fetchable(d)}]
    /\ refetched' = refetched \cup {d \in Drafts : Fetchable(d) /\ Outstanding(d)}
    /\ UNCHANGED <<device, opQueue, workers, ui, outside, lost, clashed, reopened>>

\* Faulty: a draft is handed to two operations.
RemainingAll(p, d) == batch[p]

Remaining(p, d) == batch[p] \ {d}

\* queuAllSyncOperations: one operation for each fetched draft, in fetch order,
\* which the request leaves open.
QueueOperation(p) ==
    /\ pass[p] = "queuing"
    /\ \/ /\ Len(opQueue) < MaxQueue
          /\ \E d \in batch[p] : /\ opQueue' = Append(opQueue, d)
                                 /\ batch' = [batch EXCEPT ![p] = Remaining(p, d)]
          /\ UNCHANGED pass
       \/ /\ batch[p] = {}
          /\ pass' = [pass EXCEPT ![p] = "idle"]
          /\ UNCHANGED <<batch, opQueue>>
    /\ UNCHANGED <<device, workers, ui, outside, history>>

-----------------------------------------------------------------------------
(* OptyCreateOperation.                                                    *)

Goto(w, s, k) == /\ step' = [step EXCEPT ![w] = s]
                 /\ kind' = [kind EXCEPT ![w] = k]

\* The slot is free again.
Retire(w) == /\ Goto(w, "idle", "contact")
             /\ job' = [job EXCEPT ![w] = NoDraft]
             /\ seen' = [seen EXCEPT ![w] = "Unborn"]
             /\ orphaned' = orphaned \ {w}

\* The operation queue starts the oldest operation on a free slot.
StartOperation(w) ==
    /\ step[w] = "idle"
    /\ opQueue # <<>>
    /\ opQueue' = Tail(opQueue)
    /\ job' = [job EXCEPT ![w] = Head(opQueue)]
    /\ Goto(w, "started", "contact")
    /\ UNCHANGED <<device, pass, batch, seen, orphaned, ui, outside, history>>

\* Past the status check and not finished.
Working(w) == step[w] \in {"claiming", "next", "sent", "made", "activity", "stuck"}

\* postOpty reads the status ...
CheckStatus(w) ==
    LET d == job[w] IN
    /\ step[w] = "started"
    /\ \/ /\ mem[d].status = "QueuedToSync"
          /\ Goto(w, "claiming", "contact")
          /\ clashed' = clashed \cup {e \in {d} : \E v \in Workers : Working(v) /\ job[v] = e}
       \/ /\ mem[d].status # "QueuedToSync"
          /\ Goto(w, "rejecting", "contact")
          /\ UNCHANGED clashed
    /\ UNCHANGED <<device, manager, job, seen, orphaned, ui, outside, lost, refetched, reopened>>

\* ... and then writes it, unsaved.  The observer is told and writes it again.
ClaimDraft(w) ==
    /\ step[w] = "claiming"
    /\ SetStatus(job[w], "Syncing")
    /\ Goto(w, "next", "contact")
    /\ UNCHANGED <<store, manager, job, seen, orphaned, ui, outside, history>>

\* A draft in any other status: the operation fails without touching it, but
\* setFinished still announces the status it finds ...
ReadForNotification(w) ==
    /\ step[w] = "rejecting"
    /\ seen' = [seen EXCEPT ![w] = mem[job[w]].status]
    /\ Goto(w, "finishing", "contact")
    /\ UNCHANGED <<device, manager, job, orphaned, ui, outside, history>>

\* ... which the observer writes back, on this thread and by then maybe stale.
NotifyRejected(w) ==
    /\ step[w] = "finishing"
    /\ Observe(job[w], seen[w])
    /\ clashed' = clashed \cup {d \in listed \cap {job[w]} : mem[d].status # seen[w]}
    /\ Retire(w)
    /\ UNCHANGED <<manager, asked, form, confirming, outside, lost, refetched, reopened>>

\* Faulty: a record is created whether or not it has an identifier.
MissingAlways(d, k) == mem[d][k] # "none"

\* A linked record without a server identifier has to be created.
Missing(d, k) == mem[d][k] = "new"

\* checkAndCallCreate...API and callCreateOpportunityAPI on the operation's own
\* thread, two seconds apart: a record that has an identifier is skipped, and an
\* opportunity that has one, or none at all, ends the method without finishing.
CheckRecord(w) ==
    LET k == kind[w] IN
    /\ step[w] = "next"
    /\ \/ /\ Missing(job[w], k)
          /\ Goto(w, "sent", k)
       \/ /\ ~Missing(job[w], k)
          /\ k # "opty"
          /\ Goto(w, "next", After(k))
       \/ /\ ~Missing(job[w], k)
          /\ k = "opty"
          /\ Goto(w, "stuck", k)
    /\ UNCHANGED <<device, manager, job, seen, orphaned, ui, outside, history>>

\* The same chain on the main thread, which sleeps between the methods, after
\* the answer for k was written into draft record r.
ContinueAfter(w, r, k) ==
    \/ /\ k = "contact" /\ r.account = "new"
       /\ Goto(w, "sent", "account")
    \/ /\ k = "account" \/ r.account # "new"
       /\ r.opty = "new"
       /\ Goto(w, "sent", "opty")
    \/ /\ k = "account" \/ r.account # "new"
       /\ r.opty # "new"
       /\ Goto(w, "stuck", "opty")

-----------------------------------------------------------------------------
(* The server and its answers, delivered on the main thread.               *)

ServerCreates(w) ==
    /\ step[w] = "sent"
    /\ online
    /\ Goto(w, "made", kind[w])
    /\ server' = [server EXCEPT ![job[w]][kind[w]] = OneMore(@)]
    /\ UNCHANGED <<device, manager, job, seen, orphaned, ui, user, online, launches, history>>

\* createContact, createAccount succeeded: keep the identifier in the record the
\* request was made for, save, go on with what the draft refers to by now.
LinkCreated(w) ==
    LET d == job[w]
        k == kind[w]
    IN
    /\ step[w] = "made"
    /\ k # "opty"
    /\ mem' = [mem EXCEPT ![d][k] = IF Live(d) /\ w \notin orphaned THEN "id" ELSE @]
    /\ SaveAll
    /\ ContinueAfter(w, mem'[d], k)
    /\ orphaned' = orphaned \ {w}
    /\ UNCHANGED <<manager, job, seen, ui, outside, history>>

\* createOpportunity succeeded: identifier and SyncSuccess go into the draft ...
Registered(d) ==
    [mem EXCEPT ![d].opty = IF Live(d) THEN "id" ELSE @,
                ![d].status = IF Live(d) THEN "SyncSuccess" ELSE @]

\* ... and are saved together, then the follow-up activity is requested.
OptyCreated(w) ==
    LET d == job[w] IN
    /\ step[w] = "made"
    /\ kind[w] = "opty"
    /\ mem[d].contact = "id"
    /\ mem' = Registered(d)
    /\ SaveAll
    /\ Goto(w, "activity", "opty")
    /\ UNCHANGED <<manager, job, seen, orphaned, ui, outside, history>>

\* Faulty: a failure counts as delivered, resets the draft, or is not noted.
FailedStatusDelivered == "SyncSuccess"
FailedStatusDefault == "Default"
FailedStatusKept == "Syncing"

FailedStatus == "SyncFailed"

\* A failure answer, whether or not the server did the work: the draft is
\* marked, unsaved, and the operation finishes.
CreateFailed(w) ==
    LET d == job[w] IN
    /\ step[w] \in {"sent", "made"}
    /\ SetStatus(d, FailedStatus)
    /\ lost' = [lost EXCEPT ![d] = @ \cup (IF step[w] = "made" THEN {kind[w]} ELSE {})]
    /\ Retire(w)
    /\ UNCHANGED <<store, manager, ui, outside, refetched, clashed, reopened>>

\* createActivity answered, one way or the other: the draft is delivered and
\* deleted, by the observer if it is on screen and by the operation anyway.
ActivityAnswered(w) ==
    /\ step[w] = "activity"
    /\ Delete(job[w], "Synced")
    /\ listed' = listed \ {job[w]}
    /\ Retire(w)
    /\ UNCHANGED <<manager, asked, form, confirming, outside, history>>

\* A request parked in the token manager's queue and never replayed.
AnswerSwallowed(w) ==
    /\ Swallows
    /\ step[w] \in {"sent", "activity"}
    /\ Goto(w, "stuck", kind[w])
    /\ UNCHANGED <<device, manager, job, seen, orphaned, ui, outside, history>>

-----------------------------------------------------------------------------
(* The process dies and is launched again.                                 *)

\* Faulty: nothing is reset.
ResetNothing(m) == m

\* Faulty: the deletion the launch code's comment announces.
ResetByDeleting(m) == [d \in Drafts |-> IF m[d].status = "Syncing" THEN Gone("Synced") ELSE m[d]]

\* resetDraftStatus, at launch.
Reset(m) == [d \in Drafts |->
    [m[d] EXCEPT !.status = IF @ = "Syncing" THEN "QueuedToSync" ELSE @]]

\* Launch on database m: only the database survives.  A record the server made
\* whose answer had not come in (unless by one of the operations in answered) is
\* one the device will never know of.
Launch(m, answered) ==
    /\ mem' = Reset(m)
    /\ store' = Reset(m)
    /\ pass' = [p \in Passes |-> "idle"]
    /\ batch' = [p \in Passes |-> {}]
    /\ opQueue' = <<>>
    /\ step' = [w \in Workers |-> "idle"]
    /\ job' = [w \in Workers |-> NoDraft]
    /\ kind' = [w \in Workers |-> "contact"]
    /\ seen' = [w \in Workers |-> "Unborn"]
    /\ orphaned' = {}
    /\ listed' = {}
    /\ asked' = 0
    /\ form' = NoForm
    /\ confirming' = FALSE
    /\ lost' = [d \in Drafts |-> lost[d] \cup
                  {kind[w] : w \in {v \in Workers \ answered : step[v] = "made" /\ job[v] = d}}]
    /\ UNCHANGED <<user, online, server, refetched, clashed, reopened>>

MayDie == launches < MaxLaunches

Killed ==
    /\ MayDie
    /\ Launch(store, {})
    /\ launches' = launches + 1

\* applicationWillTerminate saves the context first.
Terminated ==
    /\ MayDie
    /\ Launch(mem, {})
    /\ launches' = launches + 1

\* createOpportunity succeeded for a draft that was deleted meanwhile, or whose
\* contact was replaced by one without an identifier: after the save the activity's
\* dictionary is built around a nil contact id, which raises.
OptyCreatedWithoutContact(w) ==
    /\ step[w] = "made"
    /\ kind[w] = "opty"
    /\ mem[job[w]].contact # "id"
    /\ Launch(Registered(job[w]), {w})
    /\ UNCHANGED launches

-----------------------------------------------------------------------------
(* Drafts screen.                                                          *)

OpenDrafts ==
    /\ form = NoForm
    /\ listed = {}
    /\ listed' = {d \in Drafts : Live(d) /\ mem[d].status # "SyncSuccess" /\ Owner[d] = user}
    /\ UNCHANGED <<device, manager, workers, asked, form, confirming, outside, history>>

CloseDrafts ==
    /\ listed # {}
    /\ asked = 0
    /\ listed' = {}
    /\ UNCHANGED <<device, manager, workers, asked, form, confirming, outside, history>>

Row(d) == Cardinality({e \in listed : e <= d})

\* delete_Action_Opportunity: the row's status decides whether to ask.
AskDelete(d) ==
    /\ d \in listed
    /\ asked = 0
    /\ mem[d].status \in {"SyncFailed", "SavedAsDraft"}
    /\ asked' = Row(d)
    /\ UNCHANGED <<device, manager, workers, listed, form, confirming, outside, history>>

\* The alert's OK deletes whatever draft is in that row by now; when the row is
\* gone the array access raises.
ConfirmDelete ==
    /\ asked # 0
    /\ \/ \E d \in listed : /\ Row(d) = asked
                            /\ Delete(d, "Discarded")
                            /\ listed' = listed \ {d}
                            /\ asked' = 0
                            /\ UNCHANGED <<manager, workers, form, confirming, outside, history>>
       \/ /\ \A d \in listed : Row(d) # asked
          /\ Launch(store, {})
          /\ UNCHANGED launches

CancelDelete ==
    /\ asked # 0
    /\ asked' = 0
    /\ UNCHANGED <<device, manager, workers, listed, form, confirming, outside, history>>

-----------------------------------------------------------------------------
(* Opportunity form (MandatoryFieldsViewController).                       *)

\* A fresh form; offline its contact and account may have no identifier yet.
NewForm(d, c, a) ==
    /\ form = NoForm
    /\ asked = 0
    /\ Owner[d] = user
    /\ mem[d].status = "Unborn"
    /\ form' = [draft |-> d, contact |-> c, account |-> a]
    /\ listed' = {}
    /\ UNCHANGED <<device, manager, workers, asked, confirming, outside, history>>

\* didSelectItemAtIndexPath: a draft that is not queued or syncing opens in the
\* form, which copies its record.
OpenDraft(d) ==
    /\ d \in listed
    /\ asked = 0
    /\ mem[d].status \notin {"QueuedToSync", "Syncing"}
    /\ form' = [draft |-> d, contact |-> mem[d].contact, account |-> mem[d].account]
    /\ listed' = {}
    /\ reopened' = IF mem[d].status = "SyncSuccess" THEN reopened \cup {d} ELSE reopened
    /\ UNCHANGED <<device, manager, workers, asked, confirming, outside, lost, refetched, clashed>>

CloseForm ==
    /\ form # NoForm
    /\ ~confirming
    /\ form' = NoForm
    /\ UNCHANGED <<device, manager, workers, listed, asked, confirming, outside, history>>

\* createOpportunityDraft and updateOpportunityDraft: the draft gets the status
\* and new linked records with the form's copies, and the context is saved.  A
\* draft deleted under its form is not written.
WriteDraft(s) ==
    LET d == form.draft IN
    /\ mem' = [mem EXCEPT ![d] =
          IF Live(d) \/ @.status = "Unborn"
          THEN [status |-> s, contact |-> form.contact, account |-> form.account,
                opty |-> IF Live(d) THEN @.opty ELSE "new"]
          ELSE @]
    /\ SaveAll
    /\ orphaned' = orphaned \cup
          {w \in Workers : job[w] = d /\ step[w] \in {"sent", "made"} /\ kind[w] # "opty"}

\* saveOptyDraft: with a network the contact must have an identifier.
SaveAsDraft ==
    /\ form # NoForm
    /\ ~confirming
    /\ ~online \/ form.contact = "id"
    /\ WriteDraft("SavedAsDraft")
    /\ UNCHANGED <<manager, step, job, kind, seen, ui, outside, history>>

\* Submitting without a network puts up the "You are currently Offline" alert;
\* its OK queues the draft and leaves the form.
SubmitOffline ==
    /\ form # NoForm
    /\ ~confirming
    /\ ~online
    /\ confirming' = TRUE
    /\ UNCHANGED <<device, manager, workers, listed, asked, form, outside, history>>

QueueDraft ==
    /\ confirming
    /\ WriteDraft("QueuedToSync")
    /\ form' = NoForm
    /\ confirming' = FALSE
    /\ UNCHANGED <<manager, step, job, kind, seen, listed, asked, outside, history>>

\* Leaving the foreground puts up the PIN screen, which dismisses an open alert
\* without an answer.
PinScreenShown ==
    /\ confirming \/ asked # 0
    /\ confirming' = FALSE
    /\ asked' = 0
    /\ UNCHANGED <<device, manager, workers, listed, form, outside, history>>

\* Submitting with a network creates the opportunity at once, behind a loading
\* view.  On success the draft, if there is one, is deleted; a failure answer
\* leaves the form open, whether or not the server created the opportunity.
SubmitOnline ==
    LET d == form.draft IN
    /\ form # NoForm
    /\ ~confirming
    /\ online
    /\ form.contact = "id"
    /\ form.account # "new"
    /\ server' = [server EXCEPT ![d].opty = OneMore(@)]
    /\ \/ /\ mem' = [mem EXCEPT ![d] = IF Live(d) \/ @.status = "Unborn"
                                       THEN Gone("Synced") ELSE @]
          /\ SaveAll
          /\ form' = NoForm
          /\ UNCHANGED lost
       \/ /\ lost' = [lost EXCEPT ![d] = @ \cup {"opty"}]
          /\ UNCHANGED <<device, form>>
    /\ UNCHANGED <<manager, workers, listed, asked, confirming, user, online, launches, refetched, clashed, reopened>>

-----------------------------------------------------------------------------
(* Login and logout (AppRepo).                                             *)

\* The token and the user's record are saved, and every pending change with them.
Login(u) ==
    /\ user = NoUser
    /\ user' = u
    /\ UNCHANGED mem
    /\ SaveAll
    /\ UNCHANGED <<manager, workers, ui, online, server, launches, history>>

\* By the menu, the PIN screen or a renewal that failed: the user's record is deleted,
\* the context saved, and the login screen replaces every other.  What has been fetched
\* goes on.
Logout ==
    /\ user # NoUser
    /\ user' = NoUser
    /\ UNCHANGED mem
    /\ SaveAll
    /\ listed' = {}
    /\ asked' = 0
    /\ form' = NoForm
    /\ confirming' = FALSE
    /\ UNCHANGED <<manager, workers, online, server, launches, history>>

-----------------------------------------------------------------------------

Init ==
    /\ mem = [d \in Drafts |-> Gone("Unborn")]
    /\ store = mem
    /\ pass = [p \in Passes |-> "idle"]
    /\ batch = [p \in Passes |-> {}]
    /\ opQueue = <<>>
    /\ step = [w \in Workers |-> "idle"]
    /\ job = [w \in Workers |-> NoDraft]
    /\ kind = [w \in Workers |-> "contact"]
    /\ seen = [w \in Workers |-> "Unborn"]
    /\ orphaned = {}
    /\ listed = {}
    /\ asked = 0
    /\ form = NoForm
    /\ confirming = FALSE
    /\ user = NoUser
    /\ online \in BOOLEAN
    /\ server = [d \in Drafts |-> [k \in Kinds |-> 0]]
    /\ launches = 0
    /\ lost = [d \in Drafts |-> {}]
    /\ refetched = {}
    /\ clashed = {}
    /\ reopened = {}

Network == NetworkAvailable \/ NetworkLost

Manager == \E p \in Passes : ReadDrafts(p) \/ QueueOperation(p)

\* What the operation's thread does on its own.
Operation(w) == \/ StartOperation(w) \/ CheckStatus(w) \/ ClaimDraft(w)
                \/ ReadForNotification(w) \/ NotifyRejected(w) \/ CheckRecord(w)

\* A request is answered or times out.
Answer(w) == \/ LinkCreated(w) \/ OptyCreated(w) \/ OptyCreatedWithoutContact(w)
             \/ CreateFailed(w) \/ ActivityAnswered(w)

DraftsScreen == \/ OpenDrafts \/ CloseDrafts
                \/ (\E d \in Drafts : AskDelete(d))
                \/ ConfirmDelete \/ CancelDelete

FormScreen == \/ (\E d \in Drafts, c \in Contacts, a \in Accounts : NewForm(d, c, a))
              \/ (\E d \in Drafts : OpenDraft(d))
              \/ CloseForm \/ SaveAsDraft \/ SubmitOffline \/ QueueDraft \/ SubmitOnline

Session == Logout \/ \E u \in Users : Login(u)

Next ==
    \/ Network
    \/ Manager
    \/ \E w \in Workers : \/ Operation(w) \/ ServerCreates(w) \/ Answer(w)
                          \/ AnswerSwallowed(w)
    \/ Killed
    \/ Terminated
    \/ DraftsScreen
    \/ FormScreen
    \/ PinScreenShown
    \/ Session

Spec == Init /\ [][Next]_vars

\* Fairness the program's scheduling gives: dispatch queues run their blocks, the
\* operation queue starts what it can, a started operation's thread runs, and a
\* request that the network layer accepted is answered or times out.
Scheduling ==
    /\ \A p \in Passes : WF_vars(ReadDrafts(p) \/ QueueOperation(p))
    /\ \A w \in Workers : WF_vars(Operation(w)) /\ WF_vars(Answer(w))

\* An alert goes away, by the user's answer or under the PIN screen.
Answering == WF_vars(QueueDraft \/ ConfirmDelete \/ CancelDelete \/ PinScreenShown)

\* The environment keeps reporting the network as reachable again.
Reconnecting == WF_vars(NetworkAvailable)

FairSpec == Spec /\ Scheduling /\ Answering
ReconnectingSpec == FairSpec /\ Reconnecting

-----------------------------------------------------------------------------
(* Properties.                                                             *)

\* Type invariant: every variable keeps to the values the code gives it.
TypeOK ==
    /\ mem \in [Drafts -> DraftRecord]
    /\ store \in [Drafts -> DraftRecord]
    /\ pass \in [Passes -> {"idle", "reading", "queuing"}]
    /\ batch \in [Passes -> SUBSET Drafts]
    /\ opQueue \in Seq(Drafts)
    /\ step \in [Workers -> Steps]
    /\ job \in [Workers -> Drafts \cup {NoDraft}]
    /\ \A w \in Workers : step[w] # "idle" => job[w] \in Drafts
    /\ kind \in [Workers -> Kinds]
    /\ seen \in [Workers -> Status]
    /\ orphaned \subseteq Workers
    /\ listed \subseteq Drafts
    /\ asked \in Nat
    /\ form \in [draft: Drafts, contact: Link, account: Link] \cup {NoForm}
    /\ confirming \in BOOLEAN
    /\ user \in Users \cup {NoUser}
    /\ online \in BOOLEAN
    /\ server \in [Drafts -> [Kinds -> 0..2]]
    /\ launches \in 0..MaxLaunches
    /\ lost \in [Drafts -> SUBSET Kinds]
    /\ refetched \subseteq Drafts
    /\ clashed \subseteq Drafts
    /\ reopened \subseteq Drafts

\* No draft is lost by synchronisation: a draft that counts as delivered, in
\* memory or in the database, or that was deleted because it was delivered, or
\* that holds an opportunity id, has its opportunity on the server - through every
\* failure answer, stale notification, overlapping operation and relaunch.
DeliveredExists ==
    \A d \in Drafts : \A m \in {mem, store} :
        m[d].status \in {"SyncSuccess", "Synced"} \/ m[d].opty = "id"
            => server[d].opty >= 1

\* A record is created on the server at most once, unless the answer to its
\* creation was lost, or two operations for the draft clashed, or (the opportunity)
\* the draft was opened in the form again before its operation deleted it.  In
\* particular a relaunch between any two steps of an operation, a retry after a
\* failure and an edit repeat nothing whose answer came in.
CreatedOnce ==
    \A d \in Drafts : \A k \in Kinds :
        server[d][k] = 2 => \/ k \in lost[d]
                            \/ d \in clashed
                            \/ k = "opty" /\ d \in reopened

\* An identifier the device has received survives the process: what an object
\* knows in memory is in the database too.
IdsAreDurable ==
    \A d \in Drafts : \A k \in Kinds : mem[d][k] = "id" => store[d][k] = "id"

\* Operations clash over a draft only if it was fetched again while the first of
\* them was outstanding: one network report yields one claim, however the slots
\* and the user interleave.
ClashNeedsRefetch == clashed \subseteq refetched

\* A draft says "Syncing" only while an operation works on it, so that it cannot
\* sit in that state, closed to the user and to the next sync pass - after a
\* relaunch too; the exception is a draft over which two operations clashed.
SyncingIsOwned ==
    \A d \in Drafts :
        mem[d].status = "Syncing" =>
            d \in clashed \/ \E w \in Workers : Working(w) /\ job[w] = d

\* A draft an operation has claimed is released: it fails, is delivered, or is
\* queued again by the next launch; the exceptions are a clash, and a draft that the
\* user queued again after its opportunity was created, which ends the operation's
\* chain of methods without finishing it.
SyncingIsLeft ==
    \A d \in Drafts :
        mem[d].status = "Syncing" ~>
            mem[d].status # "Syncing" \/ d \in clashed \/ d \in reopened

\* An operation holds its slot for ever because its draft was deleted, was queued again
\* after its opportunity was created, or was claimed by another operation too.
HeldForCause(w) ==
    /\ step[w] = "stuck"
    /\ ~Live(job[w]) \/ job[w] \in reopened \/ job[w] \in clashed

\* When the network keeps coming back, a queued draft is picked up, if its owner is
\* logged in; the exceptions are a clash, and slots that are all held for ever for one
\* of the reasons above.
QueuedIsTried ==
    \A d \in Drafts :
        mem[d].status = "QueuedToSync" ~>
            \/ mem[d].status # "QueuedToSync"
            \/ user # Owner[d]
            \/ d \in clashed
            \/ \A w \in Workers : HeldForCause(w)

\* DraftsViewController.m:645 asks "Do you really want to delete this draft ?" of a
\* draft that is failed or saved: confirming deletes only such a draft.
DeletesOnlyTheConfirmed ==
    [][\A d \in Drafts :
         mem[d].status # "Discarded" /\ mem'[d].status = "Discarded"
            => mem[d].status \in {"SyncFailed", "SavedAsDraft"}]_vars

\* MandatoryFieldsViewController.m:987 promises "Opportunity will be created
\* automatically once we get the Internet Connection": once the network stays
\* reachable, and its owner logged in, a queued draft is picked up.
CreatedOnceConnected ==
    \A d \in Drafts :
        <>[](online /\ user = Owner[d]) =>
            (mem[d].status = "QueuedToSync" ~> mem[d].status # "QueuedToSync")

-----------------------------------------------------------------------------
(* DraftDelivery is implemented twice over: by what the objects in memory  *)
(* say and by what the database says.                                      *)

PhaseOfStatus ==
    [s \in Status |-> CASE s = "Unborn"      -> "unwritten"
                        [] s = "Synced"      -> "delivered"
                        [] s = "Discarded"   -> "discarded"
                        [] s \in DraftStatus -> "pending"]
PhaseOf(m) == [d \in Drafts |-> PhaseOfStatus[m[d].status]]

Memory   == INSTANCE DraftDelivery
            WITH phase <- PhaseOf(mem), records <- [d \in Drafts |-> server[d].opty]
Database == INSTANCE DraftDelivery
            WITH phase <- PhaseOf(store), records <- [d \in Drafts |-> server[d].opty]

\* What the app shows of a draft behaves like DraftDelivery: no step of an
\* operation, of the screens or of a relaunch forgets a draft, brings a deleted one
\* back, or delivers one the server does not have.
MemoryDelivers == Memory!Spec

\* The same of the database, which is all that survives the process.
DatabaseDelivers == Database!Spec
=============================================================================
