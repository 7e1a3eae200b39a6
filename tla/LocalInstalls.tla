---------------------------- MODULE LocalInstalls ----------------------------
(***************************************************************************)
(* Local .NET installs: the commands of extension.ts as they run through   *)
(* DotnetCoreAcquisitionWorker, AcquisitionInvoker and the install tracker,*)
(* in several VS Code processes at once.                                   *)
(*                                                                         *)
(* A job is one command.  acquireLocalCore and uninstallLocal hold the     *)
(* lock named by the install id; acquireStatus, getSimilarExistingInstall, *)
(* findPath and uninstallAll do not.  Locks are taken to exclude, which is *)
(* what module Mutex says and NodeIPCMutex provides where it does.         *)
(* trackerLock appears only where something else can happen while it is    *)
(* held: other uses of the 'installed' lock are one step.                  *)
(***************************************************************************)
EXTENDS InstallTracker, FiniteSets

CONSTANTS
    Jobs,           \* commands
    SessionOf,      \* the process that runs each command
    Kinds,          \* the commands that may be run
    Mortal,         \* sessions that may die
    PartialPasses   \* dotnet may list the version of an incomplete install

AllKinds == {"acquire", "status", "similar", "find",
             "uninstall", "update", "force", "uninstallAll", "deactivate"}

ASSUME JobsAssumption ==
    /\ SessionOf \in [Jobs -> Sessions]
    /\ Kinds \subseteq AllKinds
    /\ Mortal \subseteq Sessions
    /\ Free \notin Jobs
    /\ PartialPasses \in BOOLEAN

VARIABLES
    kind, ext, inst,    \* what each job was asked for
    pc,                 \* where it is
    seen,               \* the record was there when the job read the records
    installLock,        \* the lock named by each install id
    disk,               \* the directory of each install
    granted,            \* history: <<e, i>> handed out and not given up since
    rough               \* history: installs some command touched outside the
                        \* discipline of acquire, uninstall and force

jobVars == <<kind, ext, inst, seen>>
vars == <<trackerVars, jobVars, pc, installLock, trackerLock, disk, granted, rough>>

Ended == {"done", "none", "failed", "dead"}
Stages == {"idle", "lock", "read", "exists", "verify", "install", "script", "validate",
           "forget", "forgetAgain", "track", "record", "mark", "untrack", "check", "wipe", "report",
           "retrack", "rerecord", "clear", "delete", "prune", "leave"} \cup Ended

TypeOK ==
    /\ TrackerTypeOK
    /\ kind \in [Jobs -> AllKinds \cup {"none"}] /\ ext \in [Jobs -> Exts] /\ inst \in [Jobs -> Local]
    /\ pc \in [Jobs -> Stages] /\ seen \in [Jobs -> BOOLEAN]
    /\ installLock \in [Local -> Jobs \cup {Free}]
    /\ trackerLock \in Jobs \cup {Free}
    /\ disk \in [Local -> {"absent", "partial", "torn", "complete"}]
    /\ granted \subseteq Exts \X Local
    /\ rough \subseteq Local

\* Some installs are there already, with their owners.
Init ==
    /\ session = [s \in Sessions |-> "starting"]
    /\ marks = [s \in Sessions |-> {}]
    /\ \E old \in SUBSET Installs, e \in Exts :
         /\ recorded = old
         /\ owners = [i \in Installs |-> IF i \in old THEN {e} ELSE {}]
         /\ disk = [i \in Local |-> IF i \in old THEN "complete" ELSE "absent"]
         /\ granted = {e} \X (old \cap Local)
    /\ kind = [j \in Jobs |-> "none"]
    /\ ext = [j \in Jobs |-> Lib]
    /\ inst = [j \in Jobs |-> CHOOSE i \in Local : TRUE]
    /\ pc = [j \in Jobs |-> "idle"]
    /\ seen = [j \in Jobs |-> FALSE]
    /\ installLock = [i \in Local |-> Free]
    /\ trackerLock = Free
    /\ rough = {}

-----------------------------------------------------------------------------
Go(j, stage) == pc' = [pc EXCEPT ![j] = stage]

\* The end of a command, and of what it holds.
End(j, stage) ==
    /\ Go(j, stage)
    /\ installLock' = [i \in Local |-> IF installLock[i] = j THEN Free ELSE installLock[i]]

\* fs.exists of the dotnet executable: an incomplete install may have it.
ExecutableSeen(i) == IF disk[i] \in {"partial", "torn"} THEN BOOLEAN ELSE {disk[i] = "complete"}

\* dotnetMeetsRequirement runs the executable and looks for the version.
MeetsRequirement(i) ==
    IF disk[i] \in {"partial", "torn"} /\ PartialPasses THEN BOOLEAN ELSE {disk[i] = "complete"}

FirstStage(k) ==
    CASE k \in {"acquire", "uninstall", "update", "force"} -> "lock"
      [] k \in {"status", "similar"} -> "read"
      [] k = "find" -> "verify"
      [] k = "uninstallAll" -> "clear"
      [] k = "deactivate" -> "prune"

\* A command arrives.
Start(j, k, e, i) ==
    /\ pc[j] = "idle"
    /\ session[SessionOf[j]] # "down"
    /\ kind' = [kind EXCEPT ![j] = k]
    /\ ext' = [ext EXCEPT ![j] = e]
    /\ inst' = [inst EXCEPT ![j] = i]
    /\ Go(j, FirstStage(k))
    /\ UNCHANGED <<trackerVars, seen, installLock, trackerLock, disk, granted, rough>>

TakeInstallLock(j) ==
    /\ pc[j] = "lock" /\ installLock[inst[j]] = Free
    /\ installLock' = [installLock EXCEPT ![inst[j]] = j]
    /\ Go(j, IF kind[j] = "acquire" THEN "read" ELSE "untrack")
    /\ UNCHANGED <<trackerVars, jobVars, trackerLock, disk, granted, rough>>

\* NodeIPCMutex gives up: executeWithLock rejects.
LockTimesOut(j) ==
    /\ pc[j] = "lock" /\ installLock[inst[j]] # Free
    /\ End(j, "failed")
    /\ UNCHANGED <<trackerVars, jobVars, trackerLock, disk, granted, rough>>

-----------------------------------------------------------------------------
(***************************************************************************)
(* acquireLocalCore, acquireStatus, getSimilarExistingInstall, findPath    *)
(***************************************************************************)

\* getExistingInstalls: from here on the job goes by this copy of the records.
Read(j) ==
    /\ pc[j] = "read" /\ trackerLock = Free
    /\ seen' = [seen EXCEPT ![j] = inst[j] \in recorded]
    /\ Go(j, "exists")
    /\ UNCHANGED <<trackerVars, kind, ext, inst, installLock, trackerLock, disk, granted, rough>>

\* The install is not there, or not usable: acquire installs it.
NotThere(j) == IF kind[j] = "acquire"
               THEN Go(j, "install") /\ UNCHANGED installLock
               ELSE End(j, "none")

Exists(j) ==
    /\ pc[j] = "exists"
    /\ \E executable \in ExecutableSeen(inst[j]) :
         IF seen[j] /\ executable
         THEN /\ Go(j, IF kind[j] = "similar" THEN "track" ELSE "verify")
              /\ UNCHANGED installLock
         ELSE NotThere(j)
    /\ UNCHANGED <<trackerVars, jobVars, trackerLock, disk, granted, rough>>

\* getValidExistingInstallPath with an executable that validates, or findPath
\* with a candidate: dotnet itself says whether it has the version.
Verify(j) ==
    /\ pc[j] = "verify"
    /\ kind[j] # "find" => TRUE \in ExecutableSeen(inst[j])
    /\ \E meets \in MeetsRequirement(inst[j]) :
         IF meets
         THEN Go(j, IF kind[j] = "find" THEN "mark" ELSE "track") /\ UNCHANGED installLock
         ELSE NotThere(j)
    /\ UNCHANGED <<trackerVars, jobVars, trackerLock, disk, granted, rough>>

\* The executable went away since it was seen: validateDotnetInstall throws.
Vanished(j) ==
    /\ pc[j] = "verify" /\ kind[j] # "find"
    /\ FALSE \in ExecutableSeen(inst[j])
    /\ Go(j, "forget")
    /\ UNCHANGED <<trackerVars, jobVars, installLock, trackerLock, disk, granted, rough>>

\* The catch block drops the record by untrackInstalledVersion with force, and
\* again by reportSuccessfulUninstall.
Forget(j) ==
    /\ pc[j] \in {"forget", "forgetAgain"} /\ trackerLock = Free
    /\ DropRecord(inst[j])
    /\ rough' = IF kind[j] = "acquire" THEN rough ELSE rough \cup {inst[j]}
    /\ IF pc[j] = "forget" THEN Go(j, "forgetAgain") /\ UNCHANGED installLock ELSE NotThere(j)
    /\ UNCHANGED <<marks, session, jobVars, trackerLock, disk, granted>>

\* installDotnet: a directory that already meets the requirement is taken as it
\* is, any other is wiped, and the install script starts to fill it.
Install(j) ==
    /\ pc[j] = "install"
    /\ \E meets \in MeetsRequirement(inst[j]) :
         IF meets
         THEN Go(j, "validate") /\ UNCHANGED disk
         ELSE Go(j, "script") /\ disk' = [disk EXCEPT ![inst[j]] = "partial"]
    /\ UNCHANGED <<trackerVars, jobVars, installLock, trackerLock, granted, rough>>

\* The script ends well.  What was deleted under it stays missing.
ScriptSucceeds(j) ==
    /\ pc[j] = "script"
    /\ disk' = [disk EXCEPT ![inst[j]] = IF @ = "partial" THEN "complete" ELSE "partial"]
    /\ Go(j, "validate")
    /\ UNCHANGED <<trackerVars, jobVars, installLock, trackerLock, granted, rough>>

\* It fails, or SIGKILL ends it at the timeout: installDotnet rejects.
ScriptFails(j) ==
    /\ pc[j] = "script"
    /\ disk' = [disk EXCEPT ![inst[j]] = "partial"]
    /\ End(j, "failed")
    /\ UNCHANGED <<trackerVars, jobVars, trackerLock, granted, rough>>

\* validateDotnetInstall after the installation: a look for the executable.
Validate(j) ==
    /\ pc[j] = "validate"
    /\ \E executable \in ExecutableSeen(inst[j]) :
         IF executable
         THEN Go(j, "track") /\ UNCHANGED installLock
         ELSE End(j, "failed")
    /\ UNCHANGED <<trackerVars, jobVars, trackerLock, disk, granted, rough>>

-----------------------------------------------------------------------------
(***************************************************************************)
(* trackInstalledVersion: validation and update under the 'installed' lock *)
(***************************************************************************)

\* Mutant of TrackValidates: the lock is not released when validation throws.
TrackValidatesKeepsLock(j) ==
    /\ pc[j] \in {"track", "retrack"} /\ trackerLock = Free
    /\ trackerLock' = j
    /\ \E executable \in ExecutableSeen(inst[j]) :
         IF executable
         THEN /\ Go(j, IF pc[j] = "track" THEN "record" ELSE "rerecord")
              /\ UNCHANGED installLock
         ELSE End(j, "failed")
    /\ UNCHANGED <<trackerVars, jobVars, disk, granted, rough>>

TrackValidates(j) ==
    /\ pc[j] \in {"track", "retrack"} /\ trackerLock = Free
    /\ \E executable \in ExecutableSeen(inst[j]) :
         IF executable
         THEN /\ trackerLock' = j
              /\ Go(j, IF pc[j] = "track" THEN "record" ELSE "rerecord")
              /\ UNCHANGED installLock
         ELSE End(j, "failed") /\ UNCHANGED trackerLock
    /\ UNCHANGED <<trackerVars, jobVars, disk, granted, rough>>

\* The path is handed to the extension.  An uninstall that failed puts the
\* owner back in the same way.
Records(j) ==
    /\ pc[j] \in {"record", "rerecord"}
    /\ Track(SessionOf[j], ext[j], inst[j])
    /\ trackerLock' = Free
    /\ End(j, IF pc[j] = "record" THEN "done" ELSE "failed")
    /\ granted' = IF pc[j] = "record" THEN granted \cup {<<ext[j], inst[j]>>} ELSE granted
    /\ rough' = IF kind[j] \in {"status", "similar"} THEN rough \cup {inst[j]} ELSE rough
    /\ UNCHANGED <<session, jobVars, disk>>

\* findPath: markInstallAsInUse, without an owner.
MarkInUse(j) ==
    /\ pc[j] = "mark" /\ trackerLock = Free
    /\ Mark(SessionOf[j], inst[j])
    /\ End(j, "done")
    /\ UNCHANGED <<recorded, owners, session, jobVars, trackerLock, disk, granted, rough>>

-----------------------------------------------------------------------------
(***************************************************************************)
(* uninstallLocal                                                          *)
(***************************************************************************)

UntrackInstall(j) ==
    /\ pc[j] = "untrack" /\ trackerLock = Free
    /\ Untrack(ext[j], inst[j], kind[j] = "force")
    /\ granted' = IF kind[j] = "force" THEN {g \in granted : g[2] # inst[j]}
                  ELSE granted \ {<<ext[j], inst[j]>>}
    /\ Go(j, IF kind[j] = "force" THEN "wipe" ELSE "check")
    /\ UNCHANGED <<marks, session, jobVars, installLock, trackerLock, disk, rough>>

\* The reference count decides: other owners keep the install.
CheckOwners(j) ==
    /\ pc[j] = "check" /\ kind[j] = "uninstall" /\ trackerLock = Free
    /\ IF NoRegisteredDependents(inst[j], ext[j])
       THEN Go(j, "wipe") /\ UNCHANGED installLock
       ELSE End(j, "done")
    /\ UNCHANGED <<trackerVars, jobVars, trackerLock, disk, granted, rough>>

\* The automatic update asks for live dependents instead.  PATH or DOTNET_ROOT
\* of the process may name the install as well.
CheckLive(j) ==
    /\ pc[j] = "check" /\ kind[j] = "update" /\ trackerLock = Free
    /\ DropsDeadSessions(SessionOf[j], inst[j], ext[j])
    /\ \E onPath \in IF NoRegisteredDependents(inst[j], ext[j]) THEN {FALSE} ELSE BOOLEAN :
         IF NoLiveDependents(SessionOf[j], inst[j], ext[j]) /\ ~onPath
         THEN /\ Go(j, "wipe") /\ UNCHANGED installLock
              /\ rough' = IF NoRegisteredDependents(inst[j], ext[j]) THEN rough
                         ELSE rough \cup {inst[j]}
         ELSE End(j, "done") /\ UNCHANGED rough
    /\ UNCHANGED <<recorded, owners, session, jobVars, trackerLock, disk, granted>>

\* wipeDirectory: nothing is deleted while the executable is open, and a file
\* that cannot be deleted is passed over.
Wipe(j) ==
    /\ pc[j] = "wipe"
    /\ \E left \in {"absent", "partial", disk[inst[j]]} :
         disk' = [disk EXCEPT ![inst[j]] = IF @ = "absent" THEN "absent" ELSE left]
    /\ Go(j, "report")
    /\ UNCHANGED <<trackerVars, jobVars, installLock, trackerLock, granted, rough>>

\* wipeDirectory throws: the catch block tracks the install again.
WipeFails(j) ==
    /\ pc[j] = "wipe"
    /\ Go(j, "retrack")
    /\ UNCHANGED <<trackerVars, jobVars, installLock, trackerLock, disk, granted, rough>>

\* reportSuccessfulUninstall.
Report(j) ==
    /\ pc[j] = "report" /\ trackerLock = Free
    /\ DropRecord(inst[j])
    /\ End(j, "done")
    /\ UNCHANGED <<marks, session, jobVars, trackerLock, disk, granted, rough>>

-----------------------------------------------------------------------------
(***************************************************************************)
(* uninstallAll, deactivate, and the life of a session                     *)
(***************************************************************************)

\* Mutant of ClearRecords: the deletion is not awaited under the lock.
ClearRecordsNotAwaited(j) ==
    /\ pc[j] = "clear" /\ trackerLock = Free
    /\ DropAllRecords
    /\ granted' = {}
    /\ rough' = Local
    /\ Go(j, "delete")
    /\ UNCHANGED <<marks, session, jobVars, installLock, trackerLock, disk>>

\* uninstallAllRecords drops the local records and keeps the lock ...
ClearRecords(j) ==
    /\ pc[j] = "clear" /\ trackerLock = Free
    /\ DropAllRecords
    /\ trackerLock' = j
    /\ granted' = {}
    /\ rough' = Local
    /\ Go(j, "delete")
    /\ UNCHANGED <<marks, session, jobVars, installLock, disk>>

\* ... while deleteUninstalls removes every directory that is not open, one that
\* a script is filling included; a file that cannot be removed stays.
DeleteAll(j) ==
    /\ pc[j] = "delete"
    /\ \E open, stuck \in SUBSET Local :
         disk' = [i \in Local |->
                    IF i \in open \/ disk[i] = "absent" THEN disk[i]
                    ELSE IF \E k \in Jobs : inst[k] = i /\ pc[k] = "script" THEN "torn"
                    ELSE IF i \in stuck THEN "partial" ELSE "absent"]
    /\ trackerLock' = Free
    /\ Go(j, "done")
    /\ UNCHANGED <<trackerVars, jobVars, installLock, granted, rough>>

PruneSessions(j) ==
    /\ pc[j] = "prune" /\ trackerLock = Free
    /\ Prune(SessionOf[j])
    /\ Go(j, "leave")
    /\ UNCHANGED <<recorded, owners, session, jobVars, installLock, trackerLock, disk, granted, rough>>

LeaveSession(j) ==
    /\ pc[j] = "leave" /\ trackerLock = Free
    /\ RemoveSession(SessionOf[j])
    /\ Go(j, "done")
    /\ UNCHANGED <<recorded, owners, session, jobVars, installLock, trackerLock, disk, granted, rough>>

MutexAcquired(s) ==
    /\ SessionUp(s)
    /\ UNCHANGED <<jobVars, pc, installLock, trackerLock, disk, granted, rough>>

\* The process dies with its jobs, and its locks are free (module Mutex).
Crash(s) ==
    /\ s \in Mortal /\ session[s] # "down"
    /\ session' = [session EXCEPT ![s] = "down"]
    /\ pc' = [j \in Jobs |-> IF SessionOf[j] = s /\ pc[j] \notin Ended THEN "dead" ELSE pc[j]]
    /\ installLock' = [i \in Local |->
         IF \E j \in Jobs : SessionOf[j] = s /\ installLock[i] = j THEN Free ELSE installLock[i]]
    /\ trackerLock' = IF \E j \in Jobs : SessionOf[j] = s /\ trackerLock = j
                      THEN Free ELSE trackerLock
    /\ UNCHANGED <<recorded, owners, marks, jobVars, disk, granted, rough>>

\* Lib acts for the automatic update only.
Asked(k, e) == (k = "update") <=> (e = Lib)

\* The steps a job takes by itself.
Step(j) ==
    \/ TakeInstallLock(j) \/ Read(j) \/ Exists(j) \/ Verify(j) \/ Vanished(j) \/ Forget(j)
    \/ Install(j) \/ ScriptSucceeds(j) \/ ScriptFails(j) \/ Validate(j)
    \/ TrackValidates(j) \/ Records(j) \/ MarkInUse(j)
    \/ UntrackInstall(j) \/ CheckOwners(j) \/ CheckLive(j)
    \/ Wipe(j) \/ WipeFails(j) \/ Report(j)
    \/ ClearRecords(j) \/ DeleteAll(j) \/ PruneSessions(j) \/ LeaveSession(j)

Next ==
    \/ \E j \in Jobs, k \in Kinds, e \in Exts, i \in Local : Asked(k, e) /\ Start(j, k, e, i)
    \/ \E j \in Jobs : LockTimesOut(j) \/ Step(j)
    \/ \E s \in Sessions : MutexAcquired(s) \/ Crash(s)

Spec == Init /\ [][Next]_vars

-----------------------------------------------------------------------------
(***************************************************************************)
(* Properties                                                              *)
(***************************************************************************)

UninstallKinds == {"uninstall", "update", "force"}

\* An extension that was handed an install by acquire, and has not uninstalled
\* it since, finds it complete and itself among the owners, whatever other
\* extensions and processes acquire, uninstall or break off; the user's forced
\* uninstall ends the grant.  Only the commands that pass by the install lock
\* or by the reference count (rough) can break it.
GrantKept == \A g \in granted :
    g[2] \notin rough =>
        g[2] \in recorded /\ g[1] \in owners[g[2]] /\ disk[g[2]] = "complete"

\* An uninstall that was not forced drops a record only when no other extension
\* owns it, as the comment in reportSuccessfulUninstallHelper assumes.
DropsOwnRecordOnly == \A j \in Jobs :
    (pc[j] = "report" /\ kind[j] = "uninstall" /\ pc'[j] = "done") =>
        owners[inst[j]] \subseteq {ext[j]}
NoOwnerDropped == [][DropsOwnRecordOnly]_vars

\* The marks of a session whose mutex is held go only when this session
\* deactivates: neither a prune nor the search for live dependents of another
\* process drops them.
LosesMarksOnlyBySelf == \A s \in Sessions : \A i \in Local :
    (session[s] = "up" /\ i \in marks[s] /\ i \notin marks'[s]) =>
        \E j \in Jobs : SessionOf[j] = s /\ pc[j] = "leave"
LiveMarksKept == [][LosesMarksOnlyBySelf]_vars

\* A record is only made for a directory that is there, though uninstallAll
\* deletes directories without their install locks; an uninstall that is
\* about to report, or died before it could, is the one exception.
TracksOnlyWhatExists == \A i \in Local :
    (i \in recorded' \ recorded /\ disk[i] = "absent") =>
        \E j \in Jobs : /\ kind[j] \in UninstallKinds /\ inst[j] = i
                       /\ pc[j] \in {"report", "dead"}
TrackedExists == [][TracksOnlyWhatExists]_vars

\* The automatic update finds no live dependent only where there is none: it
\* deletes no install that was handed to a live session (the remarks on
\* installHasNoLiveDependentsBesidesId and markInstallAsInUse).
SparesMarked == \A j \in Jobs :
    (pc[j] = "check" /\ kind[j] = "update" /\ pc'[j] = "wipe") =>
        \A s \in Sessions : session[s] = "up" => inst[j] \notin marks[s]
UpdateSparesMarked == [][SparesMarked]_vars

Unanswered(j) == pc[j] \notin Ended \cup {"idle"}

\* A command that waits for a lock which another has.
Blocked(j) ==
    \/ pc[j] = "lock" /\ installLock[inst[j]] # Free
    \/ pc[j] \in {"read", "forget", "forgetAgain", "track", "retrack", "mark", "untrack", "check",
                 "report", "clear", "prune", "leave"} /\ trackerLock # Free

SomebodyUnblocked == (\E j \in Jobs : Unanswered(j)) => \E j \in Jobs : Unanswered(j) /\ ~ Blocked(j)
UnblockedCanStep == \A j \in Jobs : Unanswered(j) /\ ~ Blocked(j) => ENABLED Step(j)

\* While a command is unanswered some command can take a step without any
\* lock timing out: the locks are taken in one order only, install lock before
\* tracker lock, and none is left behind.  Who waits for no lock can go on.
NoDeadlock == SomebodyUnblocked /\ UnblockedCanStep
=============================================================================
