# Specifications of e-guru's offline machinery

e-guru is an iPad app for vehicle sales staff. They enter contacts, accounts,
opportunities and requests on the road; a CRM server keeps them. The screens
are views over single requests. The program's own logic is in what happens
*around* the requests: work that waits for a network, requests that wait for a
token, files that are replaced while they are used, one user after another on
the same device. Below it lies the storage engine the repository carries with
it (SQLCipher's SQLite), whose pager and file locks decide what of all this
survives a crash. That is what is specified here, in TLA+, checked with TLC and,
liveness apart, proved with TLAPS. Paths below are relative to `src/e-Guru/`, those of
the engine to `src/sqlcipher-master/src/`.

## 1. Inventory

| Component | Code | State | Operations | Hard behaviour | What makes it correct |
|---|---|---|---|---|---|
| Opportunity draft synchronisation | `Offline/Sync/OptySyncManager.m`, `OptyCreateOperation.m` | drafts in one Core Data context and its database, an operation queue of five, each operation's position in its chain of requests | a pass reads the queued drafts and queues operations; an operation claims its draft, creates contact, account, opportunity, activity, deletes the draft | threads share a context without a lock, a save writes everybody's changes, claims are check-then-write, requests fail after they were carried out, the process dies between two of them | nothing lost, nothing created twice, no draft stuck |
| Drafts screen | `ViewControllers/Drafts/DraftsViewController.m` | the array it shows, a pending confirmation | open, delete, observe notifications | notifications carry stale statuses and are written back; rows shift under an alert | deletes what was confirmed, shows what is |
| Opportunity form | `ViewControllers/Opportunity/MandatoryFieldsViewController.m` | the form, the draft it was opened from | save as draft, queue, submit, resume | edits a draft that is being delivered | edits do not undo deliveries |
| Lifecycle, reachability | `AppDelegate.m`, `Helpers/ReachabilityManager`, `Utility/UtilityMethods.m` (`resetDraftStatus`) | reachable or not | launch, terminate, network reports | the launch repairs drafts that a dead process left | the repair forgets nothing |
| Access token renewal | `Helpers/AccessToken/AccessTokenManager.m`, `PostHelper`, `WebAccess/.../EGRKWebserviceRepository.m` | parked requests by path, one renewal at a time, the client's header | park, renew, replay, fail | replies out of order, replays, logout and login while a renewal is under way | requests carried out and answered at most once |
| Session | `Helpers/AppRepo/AppRepo.m` | user, token, PIN screen, waiting notification | login, logout, PIN, push notification | an alert vanishes under the PIN screen, a notification waits behind it | the token is the user's |
| Offline master database | `Offline/EGOfflineMasterSyncHelper.m`, `Offline/DBManager.m` | version, day of login, the file, the download, the menu's flag | sync by launch, foreground, login, menu; replace the file | overlapping syncs, a process that dies half-way, a full disk | the version is the file's |
| Master sync alerts | `Offline/EGOfflineMasterSyncAlertsHelper.m` | three alerts, three flags | show, dismiss, show again after the PIN | flags and screen part | one alert, the last |
| Account and contact drafts | `Offline/Sync/Account*.m`, `Contact*.m`, `ViewControllers/Prospect` | as for opportunities, one request | as for opportunities | as for opportunities; a draft of any status can be opened, nothing repairs it at launch | nothing lost, created twice or stuck, but for named causes |
| Paged lists | `Model/EGPagedArray.m`, `Views/PaginatedDataSource`, `ViewControllers/Activity` | rows so far, total, loading, error | ask for a page, merge, clear, retry | late pages of an earlier search, failures, empty and missing answers | rows of one search, each once, to the end |
| Pager | `pager.c` | database file, journal, a cache and a state per connection | read, write, spill, commit, roll back, play a hot journal back | processes die and power goes between any two system calls; caches outlive locks | a transaction is there whole or not at all |
| File locks | `os_unix.c` | lock of each handle, inode record of each process, the kernel's byte locks | open, lock, unlock, check, close | POSIX locks belong to the process, not to the handle; a close drops them | a writer is alone, a reader overlooks none |
| PIN and push notifications | `ViewControllers/PINViewController`, `Helpers/PushNotification` | tries left, waiting notification | show, enter, handle | notification handled again | handled once |
| Location capture | `Lib/AsyncLocationManager.m` | timer, last fix | start, stop | stop races a fix | no fix after stop |
| NFA rules | `Utility/UtilityMethods.m` (787-858) | none | may an NFA be created, updated | pure decision | its table |
| Other screens | opportunity, activity, beat plan, dashboard, financier, OTP | the screen's | one request each | - | - |
| Encrypted Core Data store | `Helpers/CoreDataEncryption/EncryptedStore.m` | - | a save is one `BEGIN EXCLUSIVE` transaction (2345) | as the pager | as the pager |
| Third-party | the rest of SQLite, FMDB, FFCalendars, RestKit | - | - | - | not specified |

They interact through four things. The *managed object context* is shared by
the forms, the Drafts screen, the sync queue and the operations.
*Notifications* go from operations to the Drafts screen, from reachability to
the managers, from syncs to the menu. *The web layer* is between every caller
and the server, and may keep a request without an answer. *The process* ends at
any time and takes all of it along except the database, the user defaults and
the files. What a save or a read finds after that is the pager's and the locks'
affair.

## 2. Modules

| Module | Models |
|---|---|
| `DraftDelivery` | abstract: an opportunity stays pending until it is delivered, which needs the server to have it, or discarded; both are final |
| `DraftSync` | opportunity synchronisation with the Drafts screen, the form, the lifecycle and the network |
| `DraftSyncProofs` | theorems about `DraftSync` |
| `RequestChannel` | abstract: a request is carried out at most once, answered at most once, success only if carried out |
| `TokenRenewal` | requests, their 401s, the renewal and the session |
| `TokenRenewalProofs` | theorems about `TokenRenewal` |
| `MasterSync` | the offline master database, its syncs and the menu's flag |
| `MasterSyncProofs` | theorems about `MasterSync` |
| `CustomerSync` | account drafts or contact drafts (the code is there twice), their form and their tab of the Drafts screen; implements `DraftDelivery` |
| `CustomerSyncProofs` | theorems about `CustomerSync` |
| `PagedList` | the paged table and the activity list's use of it |
| `PagedListProofs` | theorems about `PagedList` |
| `FileLocks` | abstract: who may hold which lock of a database file with whom |
| `UnixLocks` | the POSIX lock methods; implements `FileLocks` |
| `UnixLocksProofs` | theorems about `UnixLocks` |
| `TransactionStore` | abstract: transactions are atomic, and a loss of power undoes at most the last |
| `RollbackJournal` | the pager on top of `FileLocks`; implements `TransactionStore` |
| `RollbackJournalProofs` | theorems about `FileLocks` and about who may change the files of `RollbackJournal`; what each step does to them |
| `TransactionStoreProofs` | the pager implements `TransactionStore` |
| `MC...` | instances for TLC |

The storage modules stack: `RollbackJournal` extends `FileLocks`, so the pager is
checked over the promise of the locks, and `UnixLocks` is checked, and proved, to
keep it.
`DraftSync` and `CustomerSync` take a save as atomic, which is what
`TransactionStore` says.

### DraftSync

`mem` is what the managed objects say, `store` what the database holds. A save
(`SaveAll`) copies the *whole* of `mem`, as `[context save:]` does, so a save
made for one draft writes the half-done changes of the others. Each record has
a status (`EGDraftStatus`, or unborn, delivered, discarded) and for contact,
account and opportunity whether there is none, one without, or one with a
server identifier. Names, products and addresses are left out: no guard reads
them.

`user` is who is logged in, `Owner[d]` whose draft it is (`userIDLink`). A pass
fetches, and the Drafts screen lists, the drafts of the logged-in user only
(`OptySyncManager.m:97`, `DraftsViewController.m:77`); a form writes drafts of
its user. `Login` and `Logout` save the context like everybody else, and a logout
takes every screen away; operations that are queued or under way go on without
their user, as in the code.

`pass` and `batch` are a run of `onInternetAvailable` on the manager's
dispatch queue; `syncStatus` never becomes `InProgress`, so passes overlap.
`opQueue` and the slots `step[w]`, `job[w]`, `kind[w]` are the
`NSOperationQueue` and what each started operation is about to do:

| `step` | the operation is |
|---|---|
| `started`, `claiming` | before reading the status, between reading it and writing `Syncing` |
| `rejecting`, `finishing` | between `setFinished`'s reading of the status and its notification |
| `next` | about to look at `kind[w]` |
| `sent`, `made` | waiting for an answer, before or after the server acted |
| `activity` | waiting for the activity's answer; the opportunity exists |
| `stuck` | in a method that returned without `finished`, holding its slot |

`Delete`, `SetStatus`, `Observe`, `SaveAll` are what the methods do to the
context; each handler is one action with all it calls. The two sleeps of the
launch on the main thread are one step: nothing else runs on that thread. The
web layer appears as `ServerCreates`, the three answers and `AnswerSwallowed`,
which is what `RequestChannel` allows; `TokenRenewal` shows that the layer
keeps to it. The server takes every request it is sent. It might refuse
duplicates, but nothing in the app relies on that, so it is not assumed. What
the server did with a request is decided before its failure is reported; a
server that acts still later differs only in when a second record appears.

### TokenRenewal

`queue` holds the request parked for each *path*, which is its key in the
dictionary; `isRenewing` is set by the first 401 and cleared by a failed
renewal only. `renewals` are the requests for a token that are under way, with
the user whose token asked. Users are numbered by login. A request carries the
token that was in the shared header when it was sent, so it can be refused
long after a newer one came. `RefusedWithoutToken` is the process's death when
the renewal's dictionary is built around a nil refresh token. `attempt` and
`carried` are reset when nobody reads them any more, to keep the states few.

### MasterSync

`version` and `loginDay` are in the user defaults, `master` and `temp` are the
files, by the version they hold. A sync is `auto` or `forced` until its block
runs on the background queue, then `asked`, `offered`, `downloading`; `written`,
`removed` and `copied` are the places inside `masterDownloaded` between which
the process can die. That method and every other handler run on the main thread
(`MainFree`), because the session's delegate queue is the queue the answer came
on; the background block is the only thing that runs beside it. The database
handle is left out: it always names the same file and each read opens it.

### CustomerSync

Accounts and contacts have the same manager, operation, tab and form, twice; the
module is an instance of either. It is `DraftSync` with one request per
operation, and differs where the code does: a draft opens whatever its status
(`OpenDraft`, `DraftsViewController.m:498`), a pass fetches and queues in one
block, `resetDraftStatus` does not look at these drafts, and a form opened from
the home screen keeps the draft it saved and forgets it when it is submitted. A
record is a status and whether it has the server's identifier. Its fetch has the
same filter by user; the module has one user, who stays logged in, because no
property of its runs is about who is. Forms opened from
an opportunity write no draft. An account without a contact would make the
operation index an empty array, but no form can submit one: the button asks for
a contact first (`CreateAccount.m:184`).

### PagedList

Everything runs on the main queue, so an action is a callback: the table asks
for the cell after the last row (`CellForRow`), an answer of the right, an old
or an empty kind, a failure, a filter, the My/Team switch, the calendar that
covers the table, the view coming back. A row is a search and an index; a search
is a filter with the position of the switch. `overtaken` and `lost` are history:
a request or row older than the search or the server's results; a request the
web layer dropped or answered with nothing before there was a first page.

A table asks for the cells of the rows on the screen only. `bottom` says that its
end is there: a list that was cleared is all on the screen, a page may push the end
out of it (a page is 20 rows), and then it takes the user (`Scroll`). Whether there
is a row after the last one is decided at a reload and kept until the next
(`endRow`, `numberOfRowsInSection`). Another screen can tell every table to fetch
nothing for a second (`doNotFetchData`); one that is reloaded meanwhile loses that
row, and gets it back with the next reload only (`Cut`).

### FileLocks, UnixLocks

`FileLocks` has one variable, the lock of each connection, and two tables: which
lock leads to which, and what the others may hold meanwhile. PENDING without
RESERVED has a name of its own, `RECOVERY_LOCK`, because a hot journal is rolled
back under it and nobody may take it for a writer's. `Peers` are connections of
one process: a reader lets more readers of its process in.

`UnixLocks` has a `unixFile` for each handle, an `unixInodeInfo` for each process
and the kernel's three byte ranges. A method holds the process's mutex and is
cut where it makes a system call; `method` says where it stands, and another
process may do anything there. The handle's lock, seen from outside, is gained
with the last call that can fail and lost with the first that gives something
back (`Held`). Finding a reusable descriptor and opening are one step, both under
the mutex.

### TransactionStore, RollbackJournal

A page's content is the number of the transaction that wrote it, `Beyond` past
the end, or `Torn`. `file` and `journal` are what every process sees, `disk` and
`jdisk` what has been synced. `pager[c]` has the fields of the `Pager`, and `at`
says before which system call the connection stands. Readers and writers fill their
caches page by page (`Get`), and a clean page may be dropped at any time
(`Recycle`); a page that is spilled is in the file, and stays in the cache as a
clean one, before its transaction ends. Journal records, header and
segments are there, as are spills before the commit, `SQLITE_BUSY`, failing
writes of the file and of the journal, rollback, the error state, and the three ways of finding a journal:
somebody's, stray, hot. `Crash` is a dead process: the files stay as they are.
`PowerLoss` leaves of each unsynced page the old, the new or a torn one, of the
journal any unsynced part, and of its creation or deletion either side.
The image a reader would find, after the playback it would have to do
(`Recovered`), implements `TransactionStore`.

## 3. Runs

| Run | Question | Size |
|---|---|---|
| `draft_races` | two slots, a contact to create, failures of requests that were carried out and a relaunch: what can overlap, be stale, be repeated? Do memory and database each implement `DraftDelivery`? | 3.1 M states |
| `draft_context` | two drafts share context, slot and screen; a request may be swallowed | 6.5 M |
| `draft_progress` | two users: claims are released and queued drafts are tried | 0.3 M |
| `draft_wrong_row`, `draft_left_queued` | see Findings | violations |
| `token_channel` | three requests, two on one path, three tokens, a relaunch: `RequestChannel` is implemented, parked requests are resumed | 1.0 M |
| `token_user` | see Findings | violation |
| `master_sync` | two syncs, two versions, two days, two launches: the version is the file's, the menu comes back | 1.3 M |
| `customer_sync` | one account or contact draft, two slots, two relaunches, swallowed answers, the form open at any time | 1.4 M |
| `paged_list` | two searches of up to three results in pages of two, three changes and two failures, scrolled at any time | 69 k |
| `file_locks` | two processes, one with two handles, one death: `FileLocks` is implemented, a writer gets through | 18 k |
| `rollback_journal` | two processes, files of none to two pages, two transactions on top of the first, two crashes or losses of power, one failing call | 1.1 M |

### Bounds

One draft is enough for everything about one draft, because operations for
different drafts meet only in the context, the slots and the screen's rows;
`draft_context` has two for the context and the slots, `draft_wrong_row` three
so that a row can shift onto a draft that is not the next. Two slots are the
fewest in which operations overlap, two passes the fewest that fetch a draft
twice. One waiting operation (`MaxQueue`) lets a stale one wait while another
finishes. One user is enough where nothing depends on who is logged in: a login
or logout only changes what the next pass fetches and the screen lists.
`draft_progress` has a second one, under whom the draft must not count as
forgotten. One relaunch is enough to find what the one before left, since a
launch resets what it finds; server counts stop at two, "more than once".
Three requests are two for one path and one beside them; three tokens are the
login's, a renewal's, and one more login's or renewal's. Two syncs and two
versions give an older and a newer download; two days tell the first login's
day from another; two launches are the first one, with the bundled file, and
one after a death. `customer_sync` has two relaunches because a stranded draft
has to be opened, queued and interrupted again; with one draft it says nothing
about rows that shift, which `draft_wrong_row` shows for the same screen. Pages
of two with three results give a full, a part and an empty page. Two handles in
one process and one in another are the fewest that show both kinds of neighbour;
`MaxUnused` and `MaxDeaths` are one, since what waits is closed all at once and
a death resets what it touches. Two pages are page 1, which every transaction
writes and which is never spilled, and one that is; three transactions are the
one that made the file, one to break and one to find it; two crashes are one
that leaves a hot journal and one during its playback. The pager was also run
with three pages and one crash (4.4 M states), and with three transactions on
three pages and two crashes without failing calls (2.0 M).

`CHECK_DEADLOCK FALSE` stands in every configuration but `file_locks` because
the bounds on launches, tokens, days, changes, transactions and crashes let a
model stop, and the app may rest when there is nothing to do. Locks can always
be asked for: `file_locks` checks that no two processes wait for each other
inside a method.

### Fairness

*Scheduling*: a dispatch queue runs its blocks, the operation queue starts what
it can, a started operation's thread runs, and a request that was accepted by
the network layer is answered or times out. *Answering*: an alert is dismissed,
by its buttons or by the PIN screen, which takes it away unanswered.
*Reconnecting*: the network is reported reachable again and again; only
`draft_progress` assumes it, and `draft_left_queued` shows what happens
without. Nobody has to log in: `QueuedIsTried` speaks of drafts whose owner is
logged in, and `CreatedOnceConnected` of an owner who stays so. Swallowed answers are excluded there (`Swallows = FALSE`): a slot
whose answer is swallowed is never released, which `token_channel` explains.
`draft_context` has them: what is swallowed was not carried out, so that one slot
and the draft it strands show what it does.
In `TokenRenewal` only the renewal's own request is fair. In `MasterSync` the
background block and each sync's answers are fair, and being lost is one of the
answers. In `PagedList` a request is answered or fails, and the cell of a row that
comes into view again and again is asked for (strong fairness of `CellForRow`,
which needs `bottom`: the table lays its rows out as they come into view, before
they can be scrolled away); the user need not scroll. That a list is loaded to its
end is therefore claimed only of a user who comes to its end again and again, and
that is a premise of `LoadsToTheEnd`. In `UnixLocks` a method that has begun goes on
(weak fairness); what needs the process's mutex gets it (strong fairness, as the
mutex is free again and again): a reader's end, a close, and the retry of whoever
holds PENDING, which the busy handler and the layers above make. Nothing
else is assumed of users, nothing of deaths, logins, crashes or the calendar.

### What the properties say

- `DeliveredExists`, `MemoryDelivers`, `DatabaseDelivers`: no opportunity is
  lost. What counts as delivered, on either side of the save, is on the server.
- `CreatedOnce`: nothing is created twice, but for three named causes: an
  answer that never came, two operations that clashed, a draft opened again
  between its creation and its deletion. The causes are history variables.
- `ClashNeedsRefetch`: a clash needs two fetches; slots alone cannot cause it.
- `IdsAreDurable`: a received identifier is in the database.
- `SyncingIsOwned`, `SyncingIsLeft`, `QueuedIsTried`: no draft is stuck. A queued
  draft is tried while its owner is logged in, unless operations clash over it or
  every slot is held by an operation that will never finish, because its draft was
  deleted, opened again or clashed over (`HeldForCause`).
- `ChannelSpec`: the replays, second users and relaunches of the token layer
  are invisible to callers, except that an answer may not come.
- `ParkedIsResumed`: when it does come for a parked request.
- `VersionIsInstalled`: the stored version is the file's, but for a death
  half-way, an error page, a leftover download, or an overlap; and one sync
  that runs alone ends the damage.
- `MenuComesBack`: each sync ends in switching the menu's entry on again.
- `CustomerSync`'s `CreatedOnce`: a customer is created twice only after a lost
  answer, a clash, a draft open in a form meanwhile, or one left behind by its own
  form; not by a death between the save of the identifier and the deletion.
- `SlotHeldForCause`: an operation that never finishes has lost its draft, or was
  given one that a death left with its identifier.
- `CustomersDelivered`: the database implements `DraftDelivery` for them too.
- `RowsArePrefix`, `OneRequest`, `LoadingEnds`, `LoadsToTheEnd`: whatever fails and
  is retried, a list that is not overtaken is the search's first rows, each once;
  no two pages are under way; a table that says it is loading waits for something,
  unless its last row was cut off; a list left alone but for scrolling, to whose end
  the user comes again and again, ends up complete and quiet.
- `KernelBacks`, `NothingLeaks`: what the handles believe is what the kernel
  holds, no less and no more, over every close and every death.
- `LocksImplemented`, `WriterIsSeen`, `WriterGetsThrough`: `FileLocks`; the check
  for a writer sees every one, waiting ones too; readers that keep coming from a
  process that is empty from time to time do not keep the writer out.
- `TransactionsAtomic`: `TransactionStore`. `AloneWithFile`, `WriterKeepsJournal`,
  `CacheIsCommitted`: the reasons: the file is written by one that is alone, a journal in use is touched by its writer only, and a kept cache is as good as
  the file, also after a rollback of pages that were spilled and lie in it clean.

Every property has a mutant of the code that breaks it (the operators marked
"Faulty").

## 4. Findings

| Run | Code | What happens |
|---|---|---|
| `draft_wrong_row` | `DraftsViewController.m:647` | the confirmed row is looked up after the alert; a draft delivered meanwhile shifts the rows and another draft is deleted |
| `draft_left_queued` | `OptySyncManager.m:97` | a draft queued after the report of the network is not fetched until the network is lost and found again |
| `token_user` | `AccessTokenManager.m:56` | a late renewal stores the previous user's token for the present one |

Met on the way, and not stated as runs:

- The comment at the launch (`AppDelegate.m:52`) says drafts found syncing are
  deleted; `resetDraftStatus` (`UtilityMethods.m:71`) queues them again, which is
  what `DeliveredExists` and `DatabaseDelivers` need.
- "Synced successfully" is shown whatever became of the copy
  (`EGOfflineMasterSyncHelper.m:193`), and the stored login day is never moved
  (`:75`), so from the second day on every login is the day's first.
- Account and contact drafts a death leaves in Syncing stay so until the user
  opens them (`stranded`).
- A table that is reloaded while `doNotFetchData` is set ends with its rows so far,
  without a row to load more with or to show an error in (`Cut`).
- A filter or switch changed while a page is under way lets the old search's rows
  in, and page 1 of the new search is never asked for; a filter changed behind the
  calendar keeps the old rows and appends the new ones (`overtaken`). When the
  server's total shrinks the list keeps the larger one and asks for ever. A
  request that is dropped, or answered with nothing before the first page, leaves
  the table spinning (`lost`).
- `os_unix.c:1572` gives SHARED to a handle whose process already reads, even
  while another process holds PENDING; the comment at 1505 says PENDING keeps new
  readers out. Hence the premise of `WriterGetsThrough`, and `MayJoin`.
- The journal of a file of no pages is taken for stray and deleted
  (`pager.c:4946`). If the file system did not keep the order of metadata, a file
  that was empty before a transaction, rolled back after a crash and then hit by a
  loss of power, could come back with pages and without the journal. `InOrder`
  and `SyncJournal` state that order, which the device's journaled file system
  has.

## 5. Proofs

All theorems hold for any number of drafts, slots, passes, requests, paths,
syncs, versions, rows, handles, processes, connections and pages, from the named
assumptions on the constants alone. Bounds on passes, transactions, crashes and the
like are constants too: the theorems hold whatever they are.

`DraftSyncProofs` (`DraftsAssumption`, `InputsAssumption`, `BoundsAssumption`)

- `TypeCorrect`: `TypeOK` is inductive as it stands.
- `DeliveryCorrect`: `DeliveredExists`. A status is written by an operation that
  read the server's answer several steps before, so the invariant is not
  inductive: `DeliveryInv` adds `Knows(w)`, that a worker past the creation of the
  opportunity, or about to announce a delivery, works on a draft the server has.
- `DurabilityCorrect`: `IdsAreDurable`, inductive together with `TypeOK`.
- `SyncingOwned`: `SyncingIsOwned`. `LifeInv` says what a status means for whom: what
  memory and database may say of a draft that waits in a queue, that an operation
  works on, that an operation is about to announce; and which slots are taken.
- `ClashCorrect`: `ClashNeedsRefetch`. Two operations meet on a draft only through
  two fetches of it. `RaceInv` bounds what queues and slots can hold of one draft,
  `FreshInv` says that without a second fetch there is one of them (`Single`) and
  that what waits still waits (`FreshWait`).
- `OnceCreated`: `CreatedOnce`. `CountInv` ties the number of opportunities the server
  has made of a draft to the operations past their request and the named causes.
- `MemoryDelivered`, `DatabaseDelivered`: memory and database each implement
  `DraftDelivery`: each step of a worker, the screen, the form or a death is a step
  of it or none. A save copies one to the other, so both must tell the same story
  (`SameStory`, from `LifeInv`), and `DeliveryInv` gives the guard of a delivery.

`CustomerSyncProofs` (`DraftsAssumption`, which also says that there are finitely
many drafts)

- `TypeCorrect`, `SyncingOwned`, `SlotCause`, `OnceCreated`, `DeliveredCustomers`:
  `TypeOK`, `SyncingIsOwned`, `SlotHeldForCause`, `CreatedOnce`, and the refinement
  of `DraftDelivery`. The invariants are `LifeInv`, `SlotInv` (an operation that
  holds a slot goes on, or lost its draft for a named reason) and `CountInv` (what
  the server has, by the operations past their request and the causes).

`PagedListProofs` (`PageSizeIsPositive`, `PagedListBounds`)

- `TypeCorrect`, `OneRequestCorrect`, `PrefixCorrect`, `LoadingCorrect`: `TypeOK`,
  `OneRequest`, `RowsArePrefix`, `LoadingEnds`. They hold of `ListInv` together:
  one page at a time is what makes an answer fit behind the rows that are there. What
  is on the screen does not matter to them.

`TokenRenewalProofs` (`PathAssumption`, `MappedAssumption`, `LimitAssumption`)

- `TypeCorrect`: `TypeOK`.
- `ChannelCorrect`: the refinement of `RequestChannel`. The danger is the queue,
  which is never emptied after a success: a second renewal would send requests
  again that were carried out. `ChannelInv` says why there is none: until a
  renewal succeeds the queue holds only parked requests, which the server has not
  carried out (`QueueWaits`, `AllFresh`); after it `isRenewing` stays set
  (`GrantIsKnown`), and a renewal is under way only before it (`RenewalIsKnown`).
  Resetting `isRenewing` in `Granted` breaks the proof, and the run.

`MasterSyncProofs` (`LimitAssumption`)

- `TypeCorrect`: `TypeOK`.
- `VersionCorrect`: `VersionIsInstalled`, inside `VersionInv`. It needs that the
  main thread installs one file at a time (`OneInstalls`), that without the named
  causes in `damage` a fetching sync is alone and the temporary file is its own
  (`FetchesAlone`), and that a dead process has no sync (`Launched`).

`UnixLocksProofs` (`FilesAssumption`: finitely many handles, each in a process;
`UnixBounds`)

- `TypeCorrect`, `KernelBacked`, `NothingLeaked`, `WriterSeen`: `TypeOK`, `KernelBacks`,
  `NothingLeaks`, `WriterIsSeen`. `UnixInv` has a part about one process at a time
  (`ProcInv`): the counts are those of its handles, the inode's level is their
  highest, a method stands where its handle's level says, and the kernel holds the
  byte ranges the level needs; and a part about two: the kernel's own rule
  (`Posix`), and that nobody reads beside an EXCLUSIVE lock (`NoReader`).
- `LocksAreImplemented`: `LocksImplemented`, the refinement of `FileLocks` by the
  locks as they are seen from outside (`Held`). So `ExclusionHolds` is true of the
  POSIX locks.

`RollbackJournalProofs` (no assumption; its lemmas about the files take `PagerBounds`)

- `ExclusionHolds`: in `FileLocks`, who holds EXCLUSIVE is alone, one prepares to
  write, one waits. `Exclusion` is inductive with the type of `lock`; the one step
  that is not read off the table is `MayJoin`, where the peer that reads shows that
  nobody holds EXCLUSIVE.
- `LocksKept`: every step of the pager is one of `FileLocks` for its locks, or none,
  so `Exclusion` holds in it.
- `AloneCorrect`: `AloneWithFile`. The lock is taken several steps before the file is
  written, so `AloneInv` says where it is held: at every place from the first sync
  to the last write, and as long as a transaction's pages are in the file (`Armed`).
  A step of a connection keeps that for itself and touches nobody else's lock or
  pager (`Kept`), and `Exclusion` turns EXCLUSIVE into "alone".
- `WriterCorrect`: `WriterKeepsJournal`. `WriterInv` adds which state of the pager goes
  with which place and operation (`Placed`), and that a connection with an open
  transaction, or about to delete a journal, has one of the three locks of which
  there is one (`Owned`): whoever else gets as far does not have one, and leaves the
  journal alone (`WriterLocal`).

`TransactionStoreProofs` (`PagerBounds`)

- `StoreImplemented`: `TransactionsAtomic`, that the pager implements
  `TransactionStore`. `TypeCorrect`: `TypeOK`, which says that no torn page gets into a
  cache. `CacheCorrect`: `CacheIsCommitted`. All three follow from `StoreInv`, beside
  `WriterInv`. It has a part about the files and one about each connection.
  - `FileInv` speaks of two images: `Image`, what a reader would find, and `Durable`,
    what it would find if the power went now and spared only what is synced.
    Without a journal to play back (`Quiet`) the file is the image, and the disk
    differs at most behind its end, where the last synced journal cuts it off. With
    one (`Hot`), a page that is not the image's, in the file or on the disk, is one
    the *synced* journal has or one behind the old end (`Protected`); the records
    are the image's pages (`From`), and all of the journal but its last segment is
    synced (`Backed`).
  - `Own(c)` says what a connection's fields mean by these images, by its state, place
    and operation: a reader's cache has the image's pages (`Current`, `Clean`), an old
    cache with the image's change counter too (`Valid`); a writer's journal has every
    page it has changed (`Journaled`), its cache, spilled pages counted, is the image's
    or its own (`Edited`), so that a rollback finds an old page for every new one; what
    it may write now is protected (`Secured`, `Writable`); who rolls back has left to put back whatever differs
    (`Undoing`); who deletes a journal has synced the file.
  - There is a lemma for each action. It shows `Advances(c)`: `FileInv` and `Own(c)`
    hold again; the step is one of `TransactionStore` for the two images (`Commits`)
    or leaves the first alone (`Settles`); and to the others it is one of the four
    things `Elsewhere` lists, each of which keeps their `Own` (`StoreLocal`), because
    the locks say who can be where. A loss of power (`Loses`) starts every
    connection anew, and `FileInv` alone gives the images.
  - Two unlikely dangers show up in it. A change counter is only safe because nobody
    can have seen that of a transaction that was rolled back (`Unseen`); and a journal
    whose deletion the disk has not seen is harmless only as long as its pages still
    fit the synced file (`Ready`).
  - The proof found two `CASE`s of the model whose guards overlapped, in
    `LookForWriter` and `PageWritten`: TLC takes the first that is true, as the code
    does, but TLA+ leaves the choice open. They now exclude each other.

Only model-checked: every liveness property (`SyncingIsLeft`, `QueuedIsTried`,
`ParkedIsResumed`, `MenuComesBack`, `LoadsToTheEnd`, `WriterGetsThrough`), which
the prover cannot reach.

## 6. Not modelled

`cancel` of the operations and the web layer's `getPath` have no callers.
Requests that only fill a screen, the mandatory-field checks, the location wait
before a submission, analytics, layout and third-party code are left out. Two web
requests of an operation's activity differ only in their data.

Which alert, PIN screen or notification is on top of which is decided by the
presentation rules of the system's user interface, which are not in the source;
the modules keep what the code decides, that the PIN screen takes alerts away.
So the notification that is handled again each time the PIN screen goes
(`AppRepo.m:349`) is listed as a hazard without a property. Whether an NFA may be
created, updated or cancelled is a pure decision on an opportunity's fields, which
a model could only repeat. The financier tab queues nothing: that code is
commented out.

Of the paged lists, the opportunity grid, which asks for pages outside the table
and without `isLoading`, the collection view's source, and what other screens do
to their tables (the search for an NFA empties its own but for the selected row)
are left out. A list
behind the calendar may or may not be laid out; both are allowed.

Of the pager: write-ahead logging, savepoints and the sub-journal, master
journals, memory-mapped I/O, vacuum, the other journal and locking modes, and
devices that promise more than POSIX, none of which the app uses. Left out
too, though used: free pages, which a writer takes without reading them (`PAGER_GET_NOCONTENT`) and drops
without writing them (`PGHDR_DONT_WRITE`), with or without a journal record; every
page of the model has content that matters. It is assumed
that a sync is one: on Apple systems `PRAGMA fullfsync` is off by default, so the
drive's own cache is outside the model. The codec makes the change counter
unique; pages of a list are written in any order. An instance has one connection
per process; several in one process are `UnixLocks`' matter. Of the file locks:
the other locking styles, shared memory, and calls that fail for another reason
than a lock in the way.

Most of the repository's C is SQLite's compiler, virtual machine, b-tree,
full-text search and test programs: sequential code above the pager, or not used
by the app. The app itself is Objective-C.

## 7. Plan

Every safety invariant, action property and refinement that a run checks is
proved. What could follow: several connections of one process over `UnixLocks`
in one model with the pager, and the opportunity grid beside the paged table.
