-------------------------- MODULE MasterSyncProofs --------------------------
(***************************************************************************)
(* Theorems about MasterSync, for every set of syncs, every number of      *)
(* versions, days and launches.                                            *)
(***************************************************************************)
EXTENDS MasterSync, TLAPS

USE LimitAssumption DEF device, process, outside, history

Syncing == [Syncs -> [stage : Stages, version : Versions]]

Switches == user \in BOOLEAN /\ alive \in BOOLEAN /\ loggingOut \in BOOLEAN

\* Moving a sync to a stage moves that sync only.
LEMMA BecomesEffect ==
  ASSUME sync \in Syncing, NEW s \in Syncs, NEW stage \in Stages, NEW v \in Versions,
         Becomes(s, stage, v)
  PROVE  /\ sync' \in Syncing
         /\ sync'[s].stage = stage
         /\ sync'[s].version = v
         /\ \A t \in Syncs \ {s} : sync'[t] = sync[t]
  BY DEF Syncing, Becomes

\* Ending a sync leaves the others where they are.
LEMMA EndsEffect ==
  ASSUME sync \in Syncing, NEW s \in Syncs, Ends(s)
  PROVE  /\ sync' \in Syncing
         /\ sync'[s] = Idle
         /\ \A t \in Syncs \ {s} : sync'[t] = sync[t]
  BY DEF Syncing, Ends, Idle, Stages, Versions

\* A new sync takes an idle place, and is not fetching or installing anything.
LEMMA BeginEffect ==
  ASSUME sync \in Syncing, NEW kind \in {"auto", "forced"}, Begin(kind)
  PROVE  /\ sync' \in Syncing
         /\ \E s \in Syncs : /\ sync[s] = Idle
                             /\ sync'[s].stage = kind
                             /\ \A t \in Syncs \ {s} : sync'[t] = sync[t]
  <1>1. PICK s \in Syncs : sync[s] = Idle /\ Becomes(s, kind, 0)
    BY DEF Begin
  <1>2. kind \in Stages /\ 0 \in Versions
    BY DEF Stages, Versions
  <1>. QED
    BY <1>1, <1>2, BecomesEffect

-----------------------------------------------------------------------------
(* Types.                                                                  *)

LEMMA TypeInit == Init => TypeOK
  <1>. SUFFICES ASSUME Init PROVE TypeOK
    OBVIOUS
  <1>1. sync \in Syncing
    BY DEF Init, Syncing, Idle, Stages, Versions
  <1>2. Switches
    BY DEF Init, Switches
  <1>. QED
    BY <1>1, <1>2 DEF Init, TypeOK, Syncing, Switches, Versions, Files, Absent, NoDay

\* What a launch and a return to the foreground do.
LEMMA CheckType ==
  ASSUME TypeOK, SyncOfflineMasterDatabase
  PROVE  /\ master' \in Files
         /\ loginDay' \in 0..MaxDay
         /\ sync' \in Syncing
  <1>1. sync' \in Syncing
    <2>1. CASE Begin("auto")
      BY <2>1, BeginEffect DEF TypeOK, Syncing
    <2>2. CASE UNCHANGED sync
      BY <2>2 DEF TypeOK, Syncing
    <2>. QED
      BY <2>1, <2>2 DEF SyncOfflineMasterDatabase
  <1>. QED
    BY <1>1 DEF SyncOfflineMasterDatabase, AskFirstLogin, TypeOK, Files, Versions, Bundled, NoDay

LEMMA TypeStep == TypeOK /\ [Next]_vars => TypeOK'
  <1>. SUFFICES ASSUME TypeOK, [Next]_vars PROVE TypeOK'
    OBVIOUS
  <1>. sync \in Syncing /\ 0 \in Versions
    BY DEF TypeOK, Syncing, Versions
  <1>. USE DEF TypeOK, Files, Absent, Broken, Versions
  <1>1. CASE Launch
    BY <1>1, CheckType DEF Launch, Syncing
  <1>2. CASE Foreground
    BY <1>2, CheckType DEF Foreground, Syncing
  <1>3. CASE Login
    <2>1. sync' \in Syncing
      BY <1>3, BeginEffect DEF Login, ForceSync
    <2>. QED
      BY <1>3, <2>1 DEF Login, ForceSync, AskFirstLogin, Disabled, Syncing, NoDay
  <1>4. CASE SyncFromMenu
    <2>1. sync' \in Syncing
      BY <1>4, BeginEffect DEF SyncFromMenu, ForceSync
    <2>. QED
      BY <1>4, <2>1 DEF SyncFromMenu, ForceSync, Disabled, Syncing
  <1>5. CASE LogoutFromMenu \/ LogoutAnswered \/ LogoutElsewhere
    <2>1. Switches'
      BY <1>5 DEF LogoutFromMenu, LogoutAnswered, LogoutElsewhere, Switches
    <2>. QED
      BY <1>5, <2>1 DEF LogoutFromMenu, LogoutAnswered, LogoutElsewhere, Disabled, Switches
  <1>6. CASE Killed
    <2>1. Switches'
      BY <1>6 DEF Killed, Switches
    <2>2. sync' \in Syncing
      BY <1>6 DEF Killed, Idle, Stages, Syncing
    <2>. QED
      BY <1>6, <2>1, <2>2 DEF Killed, Causes, Syncing, Switches
  <1>7. CASE Publish \/ Midnight
    BY <1>7 DEF Publish, Midnight
  <1>8. ASSUME NEW s \in Syncs, SyncStep(s) PROVE TypeOK'
    <2>. sync[s].version \in Versions
      BY DEF Syncing
    <2>1. CASE Ask(s)
      <3>1. sync' \in Syncing
        BY <2>1, BecomesEffect DEF Ask, Stages
      <3>. QED
        BY <2>1, <3>1 DEF Ask, Disabled, Syncing
    <2>2. CASE Offer(s)
      <3>1. sync' \in Syncing
        BY <2>2, BecomesEffect DEF Offer, Stages
      <3>. QED
        BY <2>2, <3>1 DEF Offer, Syncing
    <2>3. CASE Offered(s)
      <3>1. sync' \in Syncing
        BY <2>3, BecomesEffect DEF Offered, Stages, Fetching
      <3>. QED
        BY <2>3, <3>1 DEF Offered, Causes, Syncing
    <2>4. CASE AskLost(s)
      <3>1. sync' \in Syncing
        BY <2>4, BecomesEffect DEF AskLost, Stages
      <3>. QED
        BY <2>4, <3>1 DEF AskLost, Syncing
    <2>5. CASE NothingNew(s) \/ AskFailed(s) \/ DownloadFailed(s)
      <3>1. sync' \in Syncing
        BY <2>5, EndsEffect DEF NothingNew, AskFailed, DownloadFailed
      <3>. QED
        BY <2>5, <3>1 DEF NothingNew, AskFailed, DownloadFailed, EnabledAfter, VersionAfterFailure, Syncing
    <2>6. CASE Downloaded(s) \/ WriteFailed(s) \/ Remove(s) \/ Copy(s)
      <3>1. sync' \in Syncing
        BY <2>6, BecomesEffect DEF Downloaded, WriteFailed, Remove, Copy, Stages, Fetching, Installing
      <3>. QED
        BY <2>6, <3>1 DEF Downloaded, WriteFailed, Remove, Copy, Causes, Syncing
    <2>7. CASE Finish(s) \/ CopyFailed(s) \/ NothingToCopy(s)
      <3>1. sync' \in Syncing
        BY <2>7, EndsEffect DEF Finish, CopyFailed, NothingToCopy, Completed
      <3>. QED
        BY <2>7, <3>1 DEF Finish, CopyFailed, NothingToCopy, Completed, Syncing
    <2>. QED
      BY <1>8, <2>1, <2>2, <2>3, <2>4, <2>5, <2>6, <2>7 DEF SyncStep
  <1>9. CASE UNCHANGED vars
    BY <1>9 DEF vars
  <1>. QED
    BY <1>1, <1>2, <1>3, <1>4, <1>5, <1>6, <1>7, <1>8, <1>9 DEF Next

\* The installed and the stored version, the flags and the stages of every master sync
\* hold only what their declarations allow, however many syncs overlap.
THEOREM TypeCorrect == Spec => []TypeOK
  BY TypeInit, TypeStep, PTL DEF Spec

-----------------------------------------------------------------------------
(* The stored version is the file's.                                       *)

\* Nothing is under way in a dead process, and the first launch stores the day.
Launched ==
    /\ ~alive => \A s \in Syncs : sync[s] = Idle
    /\ alive \/ version # 0 => loginDay # NoDay

\* The main thread installs one file at a time.
OneInstalls ==
    \A s, t \in Syncs : sync[s].stage \in Installing /\ sync[t].stage \in Installing => s = t

\* As long as no damage was done, the file in the temporary place is the one fetched,
\* and one sync fetches at a time, of the stored version unless that was reset.
FetchesAlone ==
    damage = {} => \A s \in Syncs : sync[s].stage \in Fetching =>
        /\ Others(s) = {}
        /\ version \in {0, sync[s].version}
        /\ sync[s].stage = "written" => temp \in {Absent, sync[s].version}
        /\ sync[s].stage = "removed" => temp = sync[s].version

VersionInv == TypeOK /\ Launched /\ OneInstalls /\ FetchesAlone /\ VersionIsInstalled

LEMMA VersionInit == Init => VersionInv
  <1>. SUFFICES ASSUME Init PROVE VersionInv
    OBVIOUS
  <1>1. TypeOK
    BY TypeInit
  <1>2. \A s \in Syncs : sync[s] = Idle /\ sync[s].stage = "idle"
    BY DEF Init, Idle
  <1>3. Launched
    BY <1>2 DEF Init, Launched
  <1>. QED
    BY <1>1, <1>2, <1>3 DEF Init, VersionInv, OneInstalls, FetchesAlone, VersionIsInstalled,
       Installing, Fetching

\* Syncs that neither fetch nor install may come, go and move on.
LEMMA Apart ==
  ASSUME VersionInv, TypeOK', Launched',
         \A s \in Syncs : \/ sync'[s] = sync[s]
                          \/ sync'[s].stage \notin Fetching \cup Installing,
         UNCHANGED <<master, temp>>,
         \/ version' = 0
         \/ version' = version /\ \A s \in Syncs : sync[s].stage \in Fetching => sync'[s] = sync[s],
         damage' = damage
  PROVE  VersionInv'
  <1>1. OneInstalls'
    BY DEF VersionInv, OneInstalls
  <1>2. \A s \in Syncs : sync'[s].stage \in Fetching =>
          sync'[s] = sync[s] /\ Others(s)' \subseteq Others(s)
    BY DEF Others
  <1>3. FetchesAlone'
    BY <1>2 DEF VersionInv, FetchesAlone
  <1>4. VersionIsInstalled'
    BY DEF VersionInv, VersionIsInstalled
  <1>. QED
    BY <1>1, <1>3, <1>4 DEF VersionInv

\* A check for a new version may start a sync, which disturbs none.  It puts the
\* bundled file in place on the first launch only, when no version was ever stored.
LEMMA CheckKeeps ==
  ASSUME VersionInv, TypeOK', SyncOfflineMasterDatabase, alive',
         UNCHANGED <<version, temp, damage>>,
         alive \/ \A s \in Syncs : sync[s] = Idle
  PROVE  VersionInv'
  <1>. sync \in Syncing
    BY DEF VersionInv, TypeOK, Syncing
  <1>1. Launched' /\ (loginDay = NoDay => version = 0 /\ ~alive)
    <2>1. user => loginDay' # NoDay
      BY DEF VersionInv, TypeOK, SyncOfflineMasterDatabase, AskFirstLogin, NoDay
    <2>. QED
      BY <2>1 DEF VersionInv, TypeOK, Launched, SyncOfflineMasterDatabase, AskFirstLogin, NoDay
  <1>2. \A s \in Syncs : \/ sync'[s] = sync[s]
                         \/ sync[s] = Idle /\ sync'[s].stage = "auto"
    <2>1. CASE Begin("auto")
      BY <2>1, BeginEffect
    <2>. QED
      BY <2>1 DEF SyncOfflineMasterDatabase
  <1>3. \A s \in Syncs : \/ sync'[s] = sync[s]
                         \/ /\ sync[s].stage \notin Fetching \cup Installing
                            /\ sync'[s].stage \notin Fetching \cup Installing
    BY <1>2 DEF Idle, Fetching, Installing
  <1>4. CASE loginDay # NoDay
    <2>1. master' = master
      BY <1>4 DEF SyncOfflineMasterDatabase
    <2>. QED
      BY <1>1, <1>3, <2>1, Apart
  <1>5. CASE loginDay = NoDay
    <2>1. version' = 0 /\ \A s \in Syncs : sync'[s].stage \notin Fetching \cup Installing
      BY <1>1, <1>2, <1>5 DEF Idle, Fetching, Installing
    <2>. QED
      BY <1>1, <2>1 DEF VersionInv, OneInstalls, FetchesAlone, VersionIsInstalled
  <1>. QED
    BY <1>4, <1>5

\* Where a step of a sync leaves it, and that it leaves the others alone.
LEMMA SyncStepEffect ==
  ASSUME TypeOK, Launched, NEW s \in Syncs, SyncStep(s)
  PROVE  /\ \A t \in Syncs \ {s} : sync'[t] = sync[t]
         /\ sync[s] # Idle
         /\ alive
         /\ UNCHANGED <<alive, loginDay>>
         /\ Launched'
  <1>. sync \in Syncing /\ 0 \in Versions /\ sync[s].version \in Versions
    BY DEF TypeOK, Syncing, Versions
  <1>1. \A t \in Syncs \ {s} : sync'[t] = sync[t]
    BY DEF SyncStep, Ask, Offer, Offered, NothingNew, AskFailed, AskLost, DownloadFailed, Downloaded,
       WriteFailed, Remove, Copy, Finish, CopyFailed, NothingToCopy, Completed, Becomes, Ends, Syncing
  <1>2. sync[s] # Idle
    BY DEF SyncStep, Ask, Offer, Offered, NothingNew, AskFailed, AskLost, DownloadFailed, Downloaded,
       WriteFailed, Remove, Copy, Finish, CopyFailed, NothingToCopy, Idle, At
  <1>3. UNCHANGED <<alive, loginDay>>
    BY DEF SyncStep, Ask, Offer, Offered, NothingNew, AskFailed, AskLost, DownloadFailed, Downloaded,
       WriteFailed, Remove, Copy, Finish, CopyFailed, NothingToCopy
  <1>4. alive
    BY <1>2 DEF Launched
  <1>. QED
    BY <1>1, <1>2, <1>3, <1>4 DEF Launched

LEMMA SyncStepKeeps ==
  ASSUME VersionInv, TypeOK', NEW s \in Syncs, SyncStep(s)
  PROVE  VersionInv'
  <1>. TypeOK /\ Launched /\ OneInstalls /\ FetchesAlone /\ VersionIsInstalled
    BY DEF VersionInv
  <1>. sync \in Syncing /\ 0 \in Versions /\ sync[s].version \in Versions
    BY DEF TypeOK, Syncing, Versions
  <1>0. /\ Launched'
        /\ \A t \in Syncs \ {s} : sync'[t] = sync[t]
    BY SyncStepEffect
  <1>1. CASE Ask(s) \/ Offer(s) \/ NothingNew(s) \/ AskFailed(s) \/ AskLost(s)
    <2>1. UNCHANGED <<version, master, temp, damage>>
      BY <1>1 DEF Ask, Offer, NothingNew, AskFailed, AskLost
    <2>2. sync[s].stage \notin Fetching
      BY <1>1 DEF Ask, Offer, NothingNew, AskFailed, AskLost, At, Fetching
    <2>3. sync'[s].stage \notin Fetching \cup Installing
      BY <1>1, BecomesEffect, EndsEffect DEF Ask, Offer, NothingNew, AskFailed, AskLost, Idle,
         Stages, Fetching, Installing, TypeOK
    <2>. QED
      BY <1>0, <2>1, <2>2, <2>3, Apart
  <1>2. CASE DownloadFailed(s)
    <2>1. version' = 0 /\ UNCHANGED <<master, temp, damage>>
      BY <1>2 DEF DownloadFailed, VersionAfterFailure
    <2>2. sync'[s].stage \notin Fetching \cup Installing
      BY <1>2, EndsEffect DEF DownloadFailed, Idle, Fetching, Installing
    <2>. QED
      BY <1>0, <2>1, <2>2, Apart
  <1>3. CASE CopyFailed(s) \/ NothingToCopy(s)
    <2>1. version' = 0 /\ UNCHANGED <<master, temp, damage>>
      BY <1>3 DEF CopyFailed, NothingToCopy
    <2>2. sync'[s].stage \notin Fetching \cup Installing
      BY <1>3, EndsEffect DEF CopyFailed, NothingToCopy, Completed, Idle, Fetching, Installing
    <2>. QED
      BY <1>0, <2>1, <2>2, Apart
  <1>4. CASE Offered(s)
    <2>1. /\ sync'[s].stage = "downloading"
          /\ sync'[s].version = version'
          /\ UNCHANGED <<master, temp>>
          /\ damage' = {} => damage = {} /\ Others(s) = {}
          /\ \A t \in Syncs : sync[t].stage \notin Installing
      BY <1>4, BecomesEffect DEF Offered, MainFree, Stages, Fetching
    <2>2. OneInstalls'
      BY <1>0, <2>1 DEF OneInstalls, Installing
    <2>3. damage' = {} => \A t \in Syncs : sync'[t].stage \in Fetching => t = s
      BY <1>0, <2>1 DEF Others
    <2>4. FetchesAlone' /\ VersionIsInstalled'
      BY <2>1, <2>3 DEF FetchesAlone, VersionIsInstalled, Others, Fetching
    <2>. QED
      BY <1>0, <2>2, <2>4 DEF VersionInv
  <1>5. CASE Downloaded(s) \/ WriteFailed(s)
    <2>1. /\ sync[s].stage = "downloading"
          /\ sync'[s].stage = "written"
          /\ sync'[s].version = sync[s].version
          /\ UNCHANGED <<version, master>>
          /\ damage' = {} => damage = {} /\ temp' \in {Absent, sync[s].version}
          /\ \A t \in Syncs : sync[t].stage \notin Installing
      BY <1>5, BecomesEffect DEF Downloaded, WriteFailed, At, MainFree, Stages, Fetching, Installing
    <2>2. OneInstalls'
      BY <1>0, <2>1 DEF OneInstalls, Installing
    <2>3. \A t \in Syncs : Others(t)' = Others(t)
      BY <1>0, <2>1 DEF Others, Fetching
    <2>4. FetchesAlone'
      BY <1>0, <2>1, <2>3 DEF FetchesAlone, Fetching, Others
    <2>5. VersionIsInstalled'
      BY <1>0, <2>1 DEF VersionIsInstalled, Fetching
    <2>. QED
      BY <1>0, <2>2, <2>4, <2>5 DEF VersionInv
  <1>6. CASE Remove(s)
    <2>1. /\ sync[s].stage = "written"
          /\ sync'[s].stage = "removed"
          /\ sync'[s].version = sync[s].version
          /\ UNCHANGED <<version, temp, damage>>
          /\ temp # Absent
      BY <1>6, BecomesEffect DEF Remove, At, Stages, Installing
    <2>2. OneInstalls'
      BY <1>0, <2>1 DEF OneInstalls, Installing
    <2>3. \A t \in Syncs : Others(t)' = Others(t)
      BY <1>0, <2>1 DEF Others, Fetching
    <2>4. FetchesAlone'
      BY <1>0, <2>1, <2>3 DEF FetchesAlone, Fetching
    <2>5. VersionIsInstalled'
      BY <2>1 DEF VersionIsInstalled, FetchesAlone, Fetching
    <2>. QED
      BY <1>0, <2>2, <2>4, <2>5 DEF VersionInv
  <1>7. CASE Copy(s)
    <2>1. /\ sync[s].stage = "removed"
          /\ sync'[s].stage = "copied"
          /\ UNCHANGED <<version, temp, damage>>
          /\ master' = temp
      BY <1>7, BecomesEffect DEF Copy, At, Stages, Installing
    <2>2. OneInstalls'
      BY <1>0, <2>1 DEF OneInstalls, Installing
    <2>3. damage = {} => \A t \in Syncs : sync'[t].stage \notin Fetching
      BY <1>0, <2>1 DEF FetchesAlone, Others, Fetching
    <2>4. FetchesAlone'
      BY <2>1, <2>3 DEF FetchesAlone
    <2>5. VersionIsInstalled'
      BY <2>1 DEF VersionIsInstalled, FetchesAlone, Fetching
    <2>. QED
      BY <1>0, <2>2, <2>4, <2>5 DEF VersionInv
  <1>8. CASE Finish(s)
    <2>1. /\ sync[s].stage = "copied"
          /\ sync'[s].stage = "idle"
          /\ UNCHANGED <<version, master>>
          /\ damage' = {} => damage = {} \/ (master = version /\ Others(s) = {})
      BY <1>8, EndsEffect DEF Finish, Completed, At, Idle
    <2>2. OneInstalls'
      BY <1>0, <2>1 DEF OneInstalls, Installing
    <2>3. \A t \in Syncs : Others(t)' = Others(t)
      BY <1>0, <2>1 DEF Others, Fetching
    <2>4. \A t \in Syncs : sync'[t].stage \notin {"written", "removed"}
      BY <1>0, <2>1 DEF OneInstalls, Installing
    <2>5. FetchesAlone'
      <3>1. CASE damage = {}
        BY <1>0, <2>1, <2>3, <2>4, <3>1 DEF FetchesAlone, Fetching
      <3>2. CASE Others(s) = {}
        <4>1. \A t \in Syncs : sync'[t].stage \notin Fetching
          BY <1>0, <2>1, <3>2 DEF Others, Fetching
        <4>. QED
          BY <4>1 DEF FetchesAlone
      <3>. QED
        BY <2>1, <3>1, <3>2 DEF FetchesAlone
    <2>6. VersionIsInstalled'
      BY <1>0, <2>1 DEF VersionIsInstalled, Fetching
    <2>. QED
      BY <1>0, <2>2, <2>5, <2>6 DEF VersionInv
  <1>. QED
    BY <1>1, <1>2, <1>3, <1>4, <1>5, <1>6, <1>7, <1>8 DEF SyncStep

LEMMA VersionStep == VersionInv /\ [Next]_vars => VersionInv'
  <1>. SUFFICES ASSUME VersionInv, [Next]_vars PROVE VersionInv'
    OBVIOUS
  <1>. TypeOK /\ TypeOK' /\ sync \in Syncing /\ 0 \in Versions
    BY TypeStep DEF VersionInv, TypeOK, Syncing, Versions
  <1>1. CASE Launch
    <2>1. \A s \in Syncs : sync[s] = Idle
      BY <1>1 DEF VersionInv, Launched, Launch
    <2>. QED
      BY <1>1, <2>1, CheckKeeps DEF Launch
  <1>2. CASE Foreground
    BY <1>2, CheckKeeps DEF Foreground, MainFree
  <1>3. CASE Login \/ SyncFromMenu
    <2>1. Launched'
      BY <1>3 DEF VersionInv, TypeOK, Launched, Login, SyncFromMenu, ForceSync, MainFree,
         AskFirstLogin, NoDay
    <2>2. PICK k \in {"auto", "forced"} : Begin(k)
      BY <1>3 DEF Login, SyncFromMenu, ForceSync
    <2>3. \A s \in Syncs : \/ sync'[s] = sync[s]
                           \/ /\ sync[s].stage \notin Fetching \cup Installing
                              /\ sync'[s].stage \notin Fetching \cup Installing
      BY <2>2, BeginEffect DEF Idle, Fetching, Installing
    <2>4. UNCHANGED <<master, temp, damage>> /\ version' \in {0, version}
      BY <1>3 DEF Login, SyncFromMenu, ForceSync
    <2>. QED
      BY <2>1, <2>3, <2>4, Apart
  <1>4. CASE LogoutFromMenu \/ LogoutAnswered \/ LogoutElsewhere \/ Publish \/ Midnight
             \/ UNCHANGED vars
    <2>1. UNCHANGED <<version, loginDay, master, temp, alive, sync, damage>>
      BY <1>4 DEF LogoutFromMenu, LogoutAnswered, LogoutElsewhere, Publish, Midnight, vars
    <2>2. Launched'
      BY <2>1 DEF VersionInv, Launched
    <2>. QED
      BY <2>1, <2>2, Apart
  <1>5. CASE Killed
    <2>1. \A s \in Syncs : sync'[s] = Idle /\ sync'[s].stage \notin Fetching \cup Installing
      BY <1>5 DEF Killed, Idle, Fetching, Installing
    <2>2. Launched'
      BY <1>5, <2>1 DEF VersionInv, Launched, Killed
    <2>3. damage' = {} => /\ damage = {} /\ master' = master /\ version' = version
                          /\ \A s \in Syncs : sync[s].stage \notin Fetching
      BY <1>5 DEF Killed, At, Fetching
    <2>. QED
      BY <2>1, <2>2, <2>3 DEF VersionInv, OneInstalls, FetchesAlone, VersionIsInstalled
  <1>6. ASSUME NEW s \in Syncs, SyncStep(s) PROVE VersionInv'
    BY <1>6, SyncStepKeeps
  <1>. QED
    BY <1>1, <1>2, <1>3, <1>4, <1>5, <1>6 DEF Next

\* The version that decides whether a newer file is asked for is the file's, through
\* every overlap, failure and death the named causes do not cover.
THEOREM VersionCorrect == Spec => []VersionIsInstalled
  <1>1. VersionInv => VersionIsInstalled
    BY DEF VersionInv
  <1>. QED
    BY VersionInit, VersionStep, <1>1, PTL DEF Spec
=============================================================================
