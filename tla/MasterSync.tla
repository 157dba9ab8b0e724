----------------------------- MODULE MasterSync -----------------------------
(***************************************************************************)
(* The offline master database: a read-only SQLite file that every form    *)
(* looks values up in.  A copy comes with the app; a sync asks the server  *)
(* whether there is a newer one, stores its version number, downloads the  *)
(* file next to the old one and puts it in the old one's place.  Syncs are *)
(* started by a launch, by the app coming to the foreground, by a login    *)
(* and from the menu, and nothing keeps two of them from overlapping.      *)
(***************************************************************************)
EXTENDS Naturals, FiniteSets

CONSTANTS
    Syncs,        \* syncs that may be under way at a time (bound)
    MaxVersion,   \* bound: versions the server publishes
    MaxDay,       \* bound: days
    MaxLaunches   \* bound: times the app is launched

ASSUME LimitAssumption == /\ MaxVersion \in Nat \ {0}
                          /\ MaxDay \in Nat \ {0}
                          /\ MaxLaunches \in Nat

NoDay   == 0
Bundled == 0          \* the file that comes with the app
Absent  == MaxVersion + 1
Broken  == MaxVersion + 2   \* not a database: half a copy, or an error page

VARIABLES
    (* on the device *)
    version,      \* DBVERSION_KEY in the user defaults
    loginDay,     \* LOGINDATEANDTIME in the user defaults, or NoDay
    master,       \* the master database's file
    temp,         \* temp_offline_db.sqlite, where a download is kept
    user,         \* somebody is logged in
    (* in the process *)
    alive,
    count,        \* 1 while the menu's Sync Master is switched off
    sync,         \* where each sync is
    loggingOut,   \* a logout from the menu waits for its answer
    (* outside *)
    latest,       \* the newest version on the server
    day,
    (* history *)
    launches,     \* launches so far
    damage        \* what happened since the file last was the version's

device  == <<version, loginDay, master, temp, user>>
process == <<alive, count, sync, loggingOut>>
outside == <<latest, day>>
history == <<launches, damage>>
vars    == <<device, process, outside, history>>

Versions == 0..MaxVersion
Files    == Versions \cup {Absent, Broken}
Causes   == {"killed", "page", "disk", "overtaken"}

\* Stages of a sync.  It asks with the stored version, is offered another one (0 for
\* no file), downloads it; the last three stages are one call on the main thread,
\* which only the death of the process can interrupt.
Installing == {"written", "removed", "copied"}
Fetching   == {"downloading", "written", "removed"}
Stages     == {"idle", "auto", "forced", "asked", "offered", "lost"} \cup Fetching \cup Installing

Idle == [stage |-> "idle", version |-> 0]

At(s, stage) == sync[s].stage = stage
MainFree == alive /\ \A s \in Syncs : sync[s].stage \notin Installing
Others(s) == {t \in Syncs \ {s} : sync[t].stage \in Fetching}

Becomes(s, stage, v) == sync' = [sync EXCEPT ![s] = [stage |-> stage, version |-> v]]
Ends(s) == sync' = [sync EXCEPT ![s] = Idle]
Begin(kind) == \E s \in Syncs : sync[s] = Idle /\ Becomes(s, kind, 0)

-----------------------------------------------------------------------------
(* The flag behind the menu's Sync Master.                                 *)

\* Faulty: the flag counts.
DisabledCounted == count + 1

\* disableQueueIntake
Disabled == 1

\* Faulty: a sync that finds nothing new leaves the flag.
EnabledAfterForgotten == count

\* enableQueueIntake, after a sync that found nothing new
EnabledAfter == 0

-----------------------------------------------------------------------------
(* Starting a sync.                                                        *)

FirstLogin == loginDay # day

\* isFirstLoginOfTheDay: the first call stores the day, and nothing stores another.
AskFirstLogin ==
    loginDay' = IF loginDay = NoDay THEN day ELSE loginDay

\* AppDelegate's syncOfflineMasterDatabase.
SyncOfflineMasterDatabase ==
    /\ master' = IF loginDay = NoDay THEN Bundled ELSE master
    /\ IF loginDay = NoDay \/ user THEN AskFirstLogin ELSE UNCHANGED loginDay
    /\ IF user /\ (FirstLogin \/ version = 0) THEN Begin("auto") ELSE UNCHANGED sync

Launch ==
    /\ ~alive
    /\ launches < MaxLaunches
    /\ launches' = launches + 1
    /\ alive' = TRUE
    /\ SyncOfflineMasterDatabase
    /\ UNCHANGED <<version, temp, user, count, loggingOut, outside, damage>>

Foreground ==
    /\ MainFree
    /\ SyncOfflineMasterDatabase
    /\ UNCHANGED <<version, temp, user, alive, count, loggingOut, outside, history>>

\* forceSyncOfflineMaster, up to the block it sends to the background.
ForceSync ==
    /\ count' = Disabled
    /\ version' = 0
    /\ Begin("forced")

\* loginAction: checkForOfflineMasterSync starts a sync in any case.
Login ==
    /\ MainFree
    /\ ~user
    /\ user' = TRUE
    /\ AskFirstLogin
    /\ IF FirstLogin \/ version = 0
       THEN Begin("auto") /\ UNCHANGED <<count, version>>
       ELSE ForceSync
    /\ UNCHANGED <<master, temp, alive, loggingOut, outside, history>>

SyncFromMenu ==
    /\ MainFree
    /\ user
    /\ count = 0
    /\ ForceSync
    /\ UNCHANGED <<loginDay, master, temp, user, alive, loggingOut, outside, history>>

\* The block on the background queue.  An automatic sync switches the menu off here,
\* a forced one already has.
Ask(s) ==
    /\ alive
    /\ \/ At(s, "auto") /\ count' = Disabled
       \/ At(s, "forced") /\ UNCHANGED count
    /\ Becomes(s, "asked", version)
    /\ UNCHANGED <<device, alive, loggingOut, outside, history>>

-----------------------------------------------------------------------------
(* The answer about versions.                                              *)

\* The server offers its newest version, unless that is the one asked with.
Offer(s) ==
    /\ At(s, "asked")
    /\ Becomes(s, "offered", IF sync[s].version = latest THEN 0 ELSE latest)
    /\ UNCHANGED <<device, alive, count, loggingOut, outside, history>>

\* The version is stored before the file is there.
Offered(s) ==
    /\ MainFree
    /\ At(s, "offered")
    /\ sync[s].version # 0
    /\ version' = sync[s].version
    /\ Becomes(s, "downloading", sync[s].version)
    /\ damage' = IF Others(s) # {} THEN damage \cup {"overtaken"} ELSE damage
    /\ UNCHANGED <<loginDay, master, temp, user, alive, count, loggingOut, outside, launches>>

NothingNew(s) ==
    /\ MainFree
    /\ At(s, "offered")
    /\ sync[s].version = 0
    /\ count' = EnabledAfter
    /\ Ends(s)
    /\ UNCHANGED <<device, alive, loggingOut, outside, history>>

AskFailed(s) ==
    /\ MainFree
    /\ sync[s].stage \in {"asked", "offered"}
    /\ count' = 0
    /\ Ends(s)
    /\ UNCHANGED <<device, alive, loggingOut, outside, history>>

\* The request was parked for a renewal of the token and is never answered.
AskLost(s) ==
    /\ alive
    /\ At(s, "asked")
    /\ Becomes(s, "lost", 0)
    /\ UNCHANGED <<device, alive, count, loggingOut, outside, history>>

-----------------------------------------------------------------------------
(* The download and the replacement of the file.                           *)

\* Faulty: the version stays stored.
VersionAfterFailureKept == version

VersionAfterFailure == 0

DownloadFailed(s) ==
    /\ MainFree
    /\ At(s, "downloading")
    /\ count' = 0
    /\ version' = VersionAfterFailure
    /\ Ends(s)
    /\ UNCHANGED <<loginDay, master, temp, user, alive, loggingOut, outside, history>>

\* A status other than 200 is no error to the session: the page is the file.
Downloaded(s) ==
    /\ MainFree
    /\ At(s, "downloading")
    /\ \/ temp' = sync[s].version /\ UNCHANGED damage
       \/ temp' = Broken /\ damage' = damage \cup {"page"}
    /\ Becomes(s, "written", sync[s].version)
    /\ UNCHANGED <<version, loginDay, master, user, alive, count, loggingOut, outside, launches>>

\* The result of writing the file is not looked at; what is there is taken for it.
WriteFailed(s) ==
    /\ MainFree
    /\ At(s, "downloading")
    /\ Becomes(s, "written", sync[s].version)
    /\ damage' = IF temp = Absent THEN damage ELSE damage \cup {"disk"}
    /\ UNCHANGED <<device, alive, count, loggingOut, outside, launches>>

Remove(s) ==
    /\ alive
    /\ At(s, "written")
    /\ temp # Absent
    /\ master' = Absent
    /\ Becomes(s, "removed", sync[s].version)
    /\ UNCHANGED <<version, loginDay, temp, user, alive, count, loggingOut, outside, history>>

Copy(s) ==
    /\ alive
    /\ At(s, "removed")
    /\ master' = temp
    /\ Becomes(s, "copied", sync[s].version)
    /\ UNCHANGED <<version, loginDay, temp, user, alive, count, loggingOut, outside, history>>

\* The end of masterDownloaded, with the alert in any case.
Completed(s) ==
    /\ count' = 0
    /\ Ends(s)

Finish(s) ==
    /\ alive
    /\ At(s, "copied")
    /\ temp' = Absent
    /\ damage' = IF master = version /\ Others(s) = {} THEN {} ELSE damage
    /\ Completed(s)
    /\ UNCHANGED <<version, loginDay, master, user, alive, loggingOut, outside, launches>>

CopyFailed(s) ==
    /\ alive
    /\ At(s, "removed")
    /\ version' = 0
    /\ Completed(s)
    /\ UNCHANGED <<loginDay, master, temp, user, alive, loggingOut, outside, history>>

\* "Local DB Courrupted", whose OK logs out.
NothingToCopy(s) ==
    /\ alive
    /\ At(s, "written")
    /\ temp = Absent
    /\ version' = 0
    /\ Completed(s)
    /\ UNCHANGED <<loginDay, master, temp, user, alive, loggingOut, outside, history>>

-----------------------------------------------------------------------------
(* Logging out, and the rest of the world.                                 *)

LogoutFromMenu ==
    /\ MainFree
    /\ user
    /\ ~loggingOut
    /\ loggingOut' = TRUE
    /\ count' = Disabled
    /\ UNCHANGED <<device, alive, sync, outside, history>>

LogoutAnswered ==
    /\ MainFree
    /\ loggingOut
    /\ loggingOut' = FALSE
    /\ user' = FALSE
    /\ count' = 0
    /\ UNCHANGED <<version, loginDay, master, temp, alive, sync, outside, history>>

\* From the PIN screen, "Session Expired", a deep link or a corrupt master.
LogoutElsewhere ==
    /\ MainFree
    /\ user
    /\ user' = FALSE
    /\ UNCHANGED <<version, loginDay, master, temp, process, outside, history>>

\* An interrupted copy may leave part of the file.
Killed ==
    /\ alive
    /\ alive' = FALSE
    /\ count' = 0
    /\ loggingOut' = FALSE
    /\ sync' = [s \in Syncs |-> Idle]
    /\ \/ UNCHANGED master
       \/ (\E s \in Syncs : At(s, "removed")) /\ master' = Broken
    /\ damage' = IF \E s \in Syncs : sync[s].stage \in Fetching
                 THEN damage \cup {"killed"} ELSE damage
    /\ UNCHANGED <<version, loginDay, temp, user, outside, launches>>

Publish ==
    /\ latest < MaxVersion
    /\ latest' = latest + 1
    /\ UNCHANGED <<device, process, day, history>>

Midnight ==
    /\ day < MaxDay
    /\ day' = day + 1
    /\ UNCHANGED <<device, process, latest, history>>

-----------------------------------------------------------------------------

Init ==
    /\ version = 0
    /\ loginDay = NoDay
    /\ master = Absent
    /\ temp = Absent
    /\ user = FALSE
    /\ alive = FALSE
    /\ count = 0
    /\ sync = [s \in Syncs |-> Idle]
    /\ loggingOut = FALSE
    /\ latest = 1
    /\ day = 1
    /\ launches = 0
    /\ damage = {}

\* What goes on without the user.
SyncStep(s) ==
    \/ Ask(s) \/ Offer(s) \/ Offered(s) \/ NothingNew(s) \/ AskFailed(s) \/ AskLost(s)
    \/ DownloadFailed(s) \/ Downloaded(s) \/ WriteFailed(s)
    \/ Remove(s) \/ Copy(s) \/ Finish(s) \/ CopyFailed(s) \/ NothingToCopy(s)

Next ==
    \/ Launch \/ Foreground \/ Login \/ SyncFromMenu
    \/ LogoutFromMenu \/ LogoutAnswered \/ LogoutElsewhere
    \/ Killed \/ Publish \/ Midnight
    \/ \E s \in Syncs : SyncStep(s)

Spec == Init /\ [][Next]_vars

\* The background queue runs its blocks, and the network layer answers, times out or
\* parks each request.
FairSpec == Spec /\ \A s \in Syncs : WF_vars(SyncStep(s))

-----------------------------------------------------------------------------
(* Properties.                                                             *)

\* Type invariant.
TypeOK ==
    /\ version \in Versions
    /\ loginDay \in 0..MaxDay
    /\ master \in Files
    /\ temp \in Files
    /\ user \in BOOLEAN
    /\ alive \in BOOLEAN
    /\ count \in 0..1
    /\ sync \in [Syncs -> [stage : Stages, version : Versions]]
    /\ loggingOut \in BOOLEAN
    /\ latest \in Versions
    /\ day \in 1..MaxDay
    /\ launches \in 0..MaxLaunches
    /\ damage \subseteq Causes

\* The stored version, which decides whether a newer file is ever asked for, is the
\* file's or that of one being fetched: a wrong file under a current version number
\* stays for good.  The code breaks this in four ways only: the process dies between
\* storing the version and copying the file, an error page is taken for the file, a
\* full disk leaves an older download in the temporary file's place, or a second
\* download starts before the first one is in.  A later sync that runs alone mends it.
VersionIsInstalled ==
    damage = {} => \/ version \in {0, master}
                   \/ \E s \in Syncs : sync[s].stage \in Fetching /\ sync[s].version = version

\* A sync switches the menu's Sync Master off and its end, however it comes, switches
\* it on again, unless a request is never answered.
MenuComesBack ==
    count = 1 ~> count = 0 \/ loggingOut \/ \E s \in Syncs : At(s, "lost")
=============================================================================
