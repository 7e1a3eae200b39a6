--------------------------- MODULE GlobalInstalls ---------------------------
(***************************************************************************)
(* SDKs installed machine-wide: acquireGlobalSDK and uninstall as they run *)
(* through DotnetCoreAcquisitionWorker, GlobalInstallerResolver and the    *)
(* installers of Windows, macOS and Linux.                                 *)
(*                                                                         *)
(* The installation and the whole uninstallation hold one lock for all     *)
(* versions; resolving the version, the look at what is there already and  *)
(* the tracking do not.  Windows and dotnet answer through the command     *)
(* cache of each process, which its own installs and uninstalls clear.     *)
(***************************************************************************)
EXTENDS InstallTracker, LinuxPackages, WebRequests, FiniteSets

CONSTANTS
    Scenes,         \* machines and what the network says
    Typed           \* the versions that extensions and users ask for

GJobs == Requesters
Global == Installs \ Local

ASSUME GlobalAssumption ==
    /\ Global \subseteq SdkVersions
    /\ Free \notin GJobs

\* A platform the extension supports, and an index whose releases are sequences; the
\* SDKs that the network and the packages offer are among the global installs.
ASSUME ScenesAssumption == \A s \in Scenes :
    /\ s.platform \in {"win32", "darwin", "linux", "wsl"}
    /\ DOMAIN FirstRelease(s.index) \subseteq Nat
    /\ \A i \in DOMAIN FirstRelease(s.index) : FirstRelease(s.index)[i].version \in Global
    /\ \A n \in DOMAIN s.entries : s.entries[n].latest \in Global
    /\ s.index.latestSdk \subseteq Global /\ s.distro.offers \subseteq Global

\* A request has one of the forms that routeRequestToProperVersionRequestType tells apart.
ASSUME TypedAssumption == \A q \in Typed :
    /\ q.form \in {"major", "majorMinor", "band", "full", "other"}
    /\ q.form = "full" => q.version \in Global

VARIABLES
    scene,          \* platform, rid, extension, index, entries and distro
    sdks,           \* the SDKs on the machine
    host,           \* its dotnet executable is there
    installerFile,  \* the downloaded installer of each version
    globalLock,     \* GLOBAL_INSTALL_STATE_MODIFIER_LOCK
    listing,        \* dotnet --list-sdks in the cache of each process
    registry,       \* and its reg query
    order,          \* what each job was asked for, in which process
    target,         \* the version it goes for
    had,            \* its copy of the records has the version
    gpc,            \* where it is
    before,         \* history: the jobs that had ended when this one started
    given,          \* history: jobs whose SDK was handed out and not given up since
    changedBy,      \* history: the job that last added or removed each SDK
    unsure,         \* history: jobs that took the host, or no answer, for an SDK
    forgotten       \* history: versions whose record was dropped as vanished

fileVars == <<installerFile, globalLock>>
machineVars == <<sdks, host, changedBy>>
cacheVars == <<listing, registry>>
jobGVars == <<order, target, had, before>>
historyVars == <<given, unsure, forgotten>>
gvars == <<scene, fileVars, machineVars, cacheVars, jobGVars, gpc, historyVars>>

GEnded == {"done", "refused", "failed"}
GStages == {"idle", "online", "similar", "resolve", "read", "exists", "meets", "found",
            "forget", "forgetAgain", "track", "lock", "conflict", "download", "downloading",
            "verify", "run", "rerun", "backup", "rebackup", "packages", "finish", "untrack", "count",
            "report", "retrack"} \cup GEnded

GTypeOK ==
    /\ TrackerTypeOK /\ WebTypeOK
    /\ scene \in Scenes
    /\ sdks \subseteq Global /\ host \in BOOLEAN
    /\ changedBy \in [Global -> GJobs \cup {Free}]
    /\ installerFile \in [Global -> {"none", "part", "good"}]
    /\ globalLock \in GJobs \cup {Free}
    /\ listing \in [Sessions -> SUBSET (SUBSET Global)]
    /\ registry \in [Sessions -> SUBSET (SUBSET Global)]
    /\ target \in [GJobs -> Global] /\ had \in [GJobs -> BOOLEAN]
    /\ gpc \in [GJobs -> GStages]
    /\ before \in [GJobs -> SUBSET GJobs]
    /\ given \subseteq GJobs /\ unsure \subseteq GJobs /\ forgotten \subseteq Global

\* Some SDKs are there, and the processes may have looked for them.
GInit ==
    /\ WebInit
    /\ scene \in Scenes
    /\ sdks \in SUBSET Global
    /\ host \in BOOLEAN /\ (sdks # {} => host)
    /\ \E seen0 \in {{}, {sdks}} : /\ listing = [s \in Sessions |-> seen0]
                                   /\ registry = [s \in Sessions |-> seen0]
    /\ installerFile = [v \in Global |-> "none"]
    /\ globalLock = Free
    /\ order = [j \in GJobs |-> [command |-> "none", ext |-> Lib]]
    /\ target = [j \in GJobs |-> CHOOSE v \in Global : TRUE]
    /\ had = [j \in GJobs |-> FALSE]
    /\ gpc = [j \in GJobs |-> "idle"]
    /\ before = [j \in GJobs |-> {}]
    /\ changedBy = [v \in Global |-> Free]
    /\ given = {} /\ unsure = {} /\ forgotten = {}

-----------------------------------------------------------------------------
Linux == scene.platform \in {"linux", "wsl"}
Installs_(j) == order[j].command = "install"

At(j, stage) == gpc' = [gpc EXCEPT ![j] = stage]

\* Mutant of EndAt: an error leaves the lock behind.
EndAtKeepsLock(j, stage) ==
    /\ At(j, stage)
    /\ globalLock' = IF globalLock = j /\ stage # "failed" THEN Free ELSE globalLock

\* The end of a command, and of the lock if it has it.
EndAt(j, stage) ==
    /\ At(j, stage)
    /\ globalLock' = IF globalLock = j THEN Free ELSE globalLock

\* An error: the uninstallation catches it and tracks the install again.
Fails(j) == IF Installs_(j) THEN EndAt(j, "failed") ELSE At(j, "retrack") /\ UNCHANGED globalLock

\* The resolver asks for the index.
Asks(j) == At(j, "resolve") /\ Send(j)

\* An answer of the command cache of a process, or of the command itself.
Answers(cache, s) == cache[s] \cup {sdks}

\* Mutant of Invalidates: what was listed before is kept.
InvalidatesNothing(j) == UNCHANGED cacheVars

\* invalidateEntriesContaining('dotnet'), in the process of the job.
Invalidates(j) ==
    /\ listing' = [listing EXCEPT ![order[j].by] = {}]
    /\ registry' = [registry EXCEPT ![order[j].by] = {}]

\* The machine after job j has left these SDKs on it.
MachineBecomes(j, now) ==
    /\ sdks' = now
    /\ changedBy' = [v \in Global |-> IF v \in sdks <=> v \in now THEN changedBy[v] ELSE j]
    /\ host' \in IF now # {} THEN {TRUE}
                 ELSE IF host /\ sdks # {} /\ scene.platform # "darwin" THEN BOOLEAN ELSE {host}

\* What dotnet.globalAcquireSDKPublic proposes; Escape installs it as well.
Proposed ==
    IF Linux THEN RecommendedPackage(scene.distro)
    ELSE {[form |-> "full", major |-> v.major, minor |-> v.minor, version |-> v] :
            v \in Recommended(scene.entries)}

\* acquireGlobalSDK, with the version still to be resolved, and uninstall.
GStart(j, s, command, e, q) ==
    /\ gpc[j] = "idle" /\ session[s] # "down"
    /\ command # "install" => q.form = "full"
    /\ order' = [order EXCEPT ![j] = [by |-> s, command |-> command, ext |-> e, asked |-> q]]
    /\ target' = [target EXCEPT ![j] = IF q.form = "full" THEN q.version ELSE @]
    /\ before' = [before EXCEPT ![j] = {k \in GJobs : gpc[k] \in GEnded}]
    /\ At(j, IF command = "install" THEN "online" ELSE "lock")
    /\ UNCHANGED <<trackerVars, trackerLock, webVars, scene, fileVars, machineVars, cacheVars,
                   had, historyVars>>

\* getExistingInstallIfOffline
Online(j) ==
    /\ gpc[j] = "online"
    /\ \/ Asks(j)
       \/ At(j, "similar") /\ UNCHANGED webVars
    /\ UNCHANGED <<trackerVars, trackerLock, scene, fileVars, machineVars, cacheVars, jobGVars,
                   historyVars>>

\* getSimilarExistingInstall: any record of the major.minor, if the host is there.
Similar(j) ==
    /\ gpc[j] = "similar" /\ trackerLock = Free
    /\ LET similar == {w \in recorded \cap Global :
                         host /\ <<w.major, w.minor>> = MajorMinor(order[j].asked)} IN
       \/ \E w \in similar : /\ target' = [target EXCEPT ![j] = w]
                             /\ unsure' = unsure \cup {j}
                             /\ At(j, "track") /\ UNCHANGED webVars
       \/ similar = {} /\ Asks(j) /\ UNCHANGED <<target, unsure>>
    /\ UNCHANGED <<trackerVars, trackerLock, scene, fileVars, machineVars, cacheVars,
                   order, had, before, given, forgotten>>

InstallerOf(v) == Installer(scene.index, v, scene.rid, scene.extension)

\* determineVersionAndInstallerUrl: data of the index, a version in it, and an
\* installer for this machine.  An uninstallation that fails here has no path to
\* track the install with, and the error of that is its own.
Resolve(j) ==
    /\ gpc[j] = "resolve" /\ web[j] \in Answered
    /\ LET found == {v \in Resolved(scene.index, order[j].asked) :
                       web[j] = "data" /\ InstallerOf(v) # {}} IN
       \/ \E v \in found :
            /\ target' = [target EXCEPT ![j] = v]
            /\ At(j, CASE Installs_(j) -> "read"
                       [] ~Installs_(j) /\ Linux -> "packages"
                       [] ~Installs_(j) /\ scene.platform = "win32" -> "download"
                       [] ~Installs_(j) /\ scene.platform = "darwin" -> "run")
            /\ UNCHANGED globalLock
       \/ found = {} /\ EndAt(j, "failed") /\ UNCHANGED target
    /\ Taken(j)
    /\ UNCHANGED <<trackerVars, trackerLock, scene, installerFile, machineVars, cacheVars,
                   order, had, before, historyVars>>

-----------------------------------------------------------------------------
(***************************************************************************)
(* acquireGlobalCore, up to the installation                               *)
(***************************************************************************)

\* Not under WSL; otherwise the job goes by this copy of the records.
ReadRecords(j) ==
    /\ gpc[j] = "read" /\ trackerLock = Free
    /\ had' = [had EXCEPT ![j] = target[j] \in recorded]
    /\ At(j, IF scene.platform = "wsl" THEN "failed" ELSE "exists")
    /\ UNCHANGED <<trackerVars, trackerLock, webVars, scene, fileVars, machineVars, cacheVars,
                   order, target, before, historyVars>>

HostExists(j) ==
    /\ gpc[j] = "exists"
    /\ At(j, IF had[j] /\ host THEN "meets" ELSE "lock")
    /\ had' = [had EXCEPT ![j] = FALSE]
    /\ UNCHANGED <<trackerVars, trackerLock, webVars, scene, fileVars, machineVars, cacheVars,
                   order, target, before, historyVars>>

\* The host is validated and lists its SDKs.
HostMeets(j) ==
    /\ gpc[j] = "meets"
    /\ \/ ~host /\ At(j, "forget") /\ UNCHANGED listing
       \/ /\ host
          /\ \E seen \in Answers(listing, order[j].by) :
               /\ listing' = [listing EXCEPT ![order[j].by] = {seen}]
               /\ At(j, IF target[j] \in seen THEN "found" ELSE "lock")
    /\ UNCHANGED <<trackerVars, trackerLock, webVars, scene, fileVars, machineVars, registry,
                   jobGVars, historyVars>>

\* sdkIsFound runs whatever dotnet is on the PATH, which may know nothing.
SdkIsFound(j) ==
    /\ gpc[j] = "found"
    /\ \/ /\ \E seen \in Answers(listing, order[j].by) :
               IF Linux THEN OfMajorMinor(seen, target[j]) # {} ELSE target[j] \in seen
          /\ At(j, "track")
       \/ At(j, "forget")
    /\ UNCHANGED <<trackerVars, trackerLock, webVars, scene, fileVars, machineVars, cacheVars,
                   jobGVars, historyVars>>

\* untrackInstalledVersion with force, then reportSuccessfulUninstall: the record
\* goes with all its owners, and the installation goes on.
ForgetRecord(j) ==
    /\ gpc[j] \in {"forget", "forgetAgain"} /\ trackerLock = Free
    /\ DropRecord(target[j])
    /\ forgotten' = forgotten \cup {target[j]}
    /\ At(j, IF gpc[j] = "forget" THEN "forgetAgain" ELSE "lock")
    /\ UNCHANGED <<marks, session, trackerLock, webVars, scene, fileVars, machineVars, cacheVars,
                   jobGVars, given, unsure>>

\* trackInstalledVersion, which validates the host and nothing else.
GTrack(j) ==
    /\ gpc[j] \in {"track", "retrack"} /\ trackerLock = Free
    /\ IF host
       THEN /\ Track(order[j].by, order[j].ext, target[j])
            /\ EndAt(j, IF gpc[j] = "track" THEN "done" ELSE "failed")
            /\ given' = IF gpc[j] = "track" THEN given \cup {j} ELSE given
       ELSE /\ EndAt(j, "failed")
            /\ UNCHANGED <<recorded, owners, marks, given>>
    /\ UNCHANGED <<session, trackerLock, webVars, scene, installerFile, machineVars, cacheVars,
                   jobGVars, unsure, forgotten>>

TakeGlobalLock(j) ==
    /\ gpc[j] = "lock" /\ globalLock = Free
    /\ globalLock' = j
    /\ At(j, CASE ~Installs_(j) -> "untrack"
               [] Installs_(j) /\ Linux -> "packages"
               [] Installs_(j) /\ scene.platform = "win32" -> "conflict"
               [] Installs_(j) /\ scene.platform = "darwin" -> "download")
    /\ UNCHANGED <<trackerVars, trackerLock, webVars, scene, installerFile, machineVars, cacheVars,
                   jobGVars, historyVars>>

GlobalLockTimesOut(j) ==
    /\ gpc[j] = "lock" /\ globalLock # Free
    /\ At(j, "failed")
    /\ UNCHANGED <<trackerVars, trackerLock, webVars, scene, fileVars, machineVars, cacheVars,
                   jobGVars, historyVars>>

-----------------------------------------------------------------------------
(***************************************************************************)
(* WinMacGlobalInstaller and LinuxGlobalInstaller, under the lock          *)
(***************************************************************************)

\* Windows: an SDK of the band in the registry, at least as new, ends it.  A query
\* that throws counts as no SDK at all.
Conflict(j) ==
    /\ gpc[j] = "conflict"
    /\ \E seen \in Answers(registry, order[j].by), answered \in BOOLEAN :
         LET conflicts == IF answered THEN Conflicting(seen, target[j]) ELSE {} IN
         /\ registry' = IF answered THEN [registry EXCEPT ![order[j].by] = {seen}] ELSE registry
         /\ unsure' = IF answered THEN unsure ELSE unsure \cup {j}
         /\ \/ conflicts = {} /\ At(j, "download") /\ UNCHANGED globalLock
            \/ \E w \in conflicts : EndAt(j, IF w = target[j] THEN "finish" ELSE "failed")
    /\ UNCHANGED <<trackerVars, trackerLock, webVars, scene, installerFile, machineVars, listing,
                   jobGVars, given, forgotten>>

Hashed(v) == \E f \in InstallerOf(v) : f.hash # ""

FileBecomes(j, state) == installerFile' = [installerFile EXCEPT ![target[j]] = state]

\* downloadInstaller: a file with the right hash is taken, any other is wiped; one
\* that stays is not downloaded again.
Download(j) ==
    /\ gpc[j] = "download"
    /\ LET valid == installerFile[target[j]] = "good" /\ Hashed(target[j]) IN
       \/ valid /\ At(j, "verify") /\ UNCHANGED <<installerFile, webVars>>
       \/ ~valid /\ installerFile[target[j]] # "none" /\ At(j, "verify")
                 /\ UNCHANGED <<installerFile, webVars>>
       \/ ~valid /\ FileBecomes(j, "part") /\ At(j, "downloading") /\ Send(j)
    /\ UNCHANGED <<trackerVars, trackerLock, scene, globalLock, machineVars, cacheVars,
                   jobGVars, historyVars>>

\* downloadFile ends: with the file that was published or another, or by throwing.
Downloaded(j) ==
    /\ gpc[j] = "downloading"
    /\ \/ /\ web[j] = "data"
          /\ \E state \in {"part", "good"} : FileBecomes(j, state)
          /\ At(j, "verify") /\ UNCHANGED globalLock
       \/ web[j] = "thrown" /\ Fails(j) /\ UNCHANGED installerFile
    /\ Taken(j)
    /\ UNCHANGED <<trackerVars, trackerLock, scene, machineVars, cacheVars,
                   jobGVars, historyVars>>

\* Mutant of VerifyFile: an installer without a published hash is let through.
VerifyHashedOnly(j) ==
    /\ gpc[j] = "verify"
    /\ IF Hashed(target[j]) => installerFile[target[j]] = "good"
       THEN At(j, "run") /\ UNCHANGED globalLock
       ELSE Fails(j)
    /\ UNCHANGED <<trackerVars, trackerLock, webVars, scene, installerFile, machineVars, cacheVars,
                   jobGVars, historyVars>>

\* installerFileHasValidIntegrity, without a question to the user.
VerifyFile(j) ==
    /\ gpc[j] = "verify"
    /\ IF Hashed(target[j]) /\ installerFile[target[j]] = "good"
       THEN At(j, "run") /\ UNCHANGED globalLock
       ELSE Fails(j)
    /\ UNCHANGED <<trackerVars, trackerLock, webVars, scene, installerFile, machineVars, cacheVars,
                   jobGVars, historyVars>>

\* The SDKs once the installer has done its work: on Windows it may take older
\* patches of the band away.
Installed(v) ==
    {sdks \cup {v}} \cup
    (IF scene.platform = "win32" THEN {{w \in sdks : ~SameBand(v, w) \/ v.patch < w.patch} \cup {v}}
     ELSE {})

\* handleStatus with 0, 1641 or 3010: the folder of the installer is wiped.
InstallerDone(j) ==
    /\ EndAt(j, "finish")
    /\ \E state \in {"none", "good"} : FileBecomes(j, state)

\* handleStatus with a status that means a lack of permission: once more.
RetriesElevated(j) ==
    /\ gpc[j] \in {"run", "backup"}
    /\ At(j, "rerun")
    /\ UNCHANGED <<globalLock, installerFile>>

\* The installer of Windows succeeds, lacks permission, or fails in another way,
\* or is given up on while it runs.
RunInstaller(j) ==
    /\ gpc[j] \in {"run", "rerun"} /\ Installs_(j) /\ scene.platform = "win32"
    /\ \/ /\ \E now \in Installed(target[j]) : MachineBecomes(j, now)
          /\ InstallerDone(j)
       \/ RetriesElevated(j) /\ UNCHANGED machineVars
       \/ /\ \E now \in Installed(target[j]) \cup {sdks} : MachineBecomes(j, now)
          /\ EndAt(j, "failed") /\ UNCHANGED installerFile
    /\ UNCHANGED <<trackerVars, trackerLock, webVars, scene, cacheVars,
                   order, target, had, before, historyVars>>

\* The installer of macOS; when it fails the user gets to see it.
RunPackage(j) ==
    /\ gpc[j] \in {"run", "rerun"} /\ Installs_(j) /\ scene.platform = "darwin"
    /\ \/ MachineBecomes(j, sdks \cup {target[j]}) /\ InstallerDone(j)
       \/ At(j, IF gpc[j] = "run" THEN "backup" ELSE "rebackup") /\ UNCHANGED <<machineVars, fileVars>>
       \/ /\ \E now \in {sdks, sdks \cup {target[j]}} : MachineBecomes(j, now)
          /\ EndAt(j, "failed") /\ UNCHANGED installerFile
    /\ UNCHANGED <<trackerVars, trackerLock, webVars, scene, cacheVars, jobGVars, historyVars>>

\* darwinInstallBackup: whatever the user does with it, a host that is there then
\* makes it a success.  Without one the status of the installer counts.
Backup(j) ==
    /\ gpc[j] \in {"backup", "rebackup"}
    /\ \E now \in {sdks, sdks \cup {target[j]}} :
         /\ MachineBecomes(j, now)
         /\ unsure' = IF target[j] \in now THEN unsure ELSE unsure \cup {j}
    /\ \/ host' /\ InstallerDone(j)
       \/ ~host' /\ RetriesElevated(j)
       \/ EndAt(j, "failed") /\ UNCHANGED installerFile
    /\ UNCHANGED <<trackerVars, trackerLock, webVars, scene, cacheVars,
                   order, target, had, before, given, forgotten>>

\* The caches are cleared; 0 means that the SDK is gone.
UninstallEnds(j, result) ==
    IF result = "thrown"
    THEN At(j, "retrack") /\ UNCHANGED <<globalLock, cacheVars>>
    ELSE /\ Invalidates(j)
         /\ IF result = "ok" THEN At(j, "report") /\ UNCHANGED globalLock
            ELSE EndAt(j, "refused")

\* ValidateAndInstallSDK and UninstallSDK of LinuxVersionResolver.
Packages(j) ==
    /\ gpc[j] = "packages"
    /\ \/ /\ Installs_(j)
          /\ \E end \in ValidateAndInstallSDK(scene.distro, sdks, target[j]) :
               /\ MachineBecomes(j, end.sdks)
               /\ EndAt(j, IF end.result = "ok" THEN "finish" ELSE "failed")
          /\ UNCHANGED cacheVars
       \/ /\ ~Installs_(j)
          /\ \E end \in UninstallSDK(sdks, target[j]) :
               MachineBecomes(j, end.sdks) /\ UninstallEnds(j, end.result)
    /\ UNCHANGED <<trackerVars, trackerLock, webVars, scene, installerFile, jobGVars, historyVars>>

\* uninstallSDK of Windows and macOS.  3010 is no success here.
RunUninstaller(j) ==
    /\ gpc[j] = "run" /\ ~Installs_(j)
    /\ \E removed \in BOOLEAN, result \in {"ok", "failed", "thrown"} :
         /\ result = "ok" => removed
         /\ MachineBecomes(j, IF removed THEN sdks \ {target[j]} ELSE sdks)
         /\ UninstallEnds(j, result)
    /\ UNCHANGED <<trackerVars, trackerLock, webVars, scene, installerFile, jobGVars, historyVars>>

\* acquireGlobalCore after the installation, without the lock.  A host that is
\* missing is an error here except on macOS.
Finish(j) ==
    /\ gpc[j] = "finish"
    /\ Invalidates(j)
    /\ At(j, IF host \/ scene.platform = "darwin" THEN "track" ELSE "failed")
    /\ UNCHANGED <<trackerVars, trackerLock, webVars, scene, fileVars, machineVars,
                   jobGVars, historyVars>>

-----------------------------------------------------------------------------
(***************************************************************************)
(* uninstallGlobal                                                         *)
(***************************************************************************)

GUntrack(j) ==
    /\ gpc[j] = "untrack" /\ trackerLock = Free
    /\ Untrack(order[j].ext, target[j], order[j].command = "force")
    /\ given' = {g \in given : target[g] = target[j] =>
                                order[j].command # "force" /\ order[g].ext # order[j].ext}
    /\ IF order[j].command = "force" THEN Asks(j) ELSE At(j, "count") /\ UNCHANGED webVars
    /\ UNCHANGED <<marks, session, trackerLock, scene, fileVars, machineVars, cacheVars,
                   jobGVars, unsure, forgotten>>

\* Other owners keep it, which the caller reports as a failure.
CountOwners(j) ==
    /\ gpc[j] = "count" /\ trackerLock = Free
    /\ IF NoRegisteredDependents(target[j], order[j].ext)
       THEN Asks(j) /\ UNCHANGED globalLock
       ELSE EndAt(j, "refused") /\ UNCHANGED webVars
    /\ UNCHANGED <<trackerVars, trackerLock, scene, installerFile, machineVars, cacheVars,
                   jobGVars, historyVars>>

GReport(j) ==
    /\ gpc[j] = "report" /\ trackerLock = Free
    /\ DropRecord(target[j])
    /\ EndAt(j, "done")
    /\ UNCHANGED <<marks, session, trackerLock, webVars, scene, installerFile, machineVars,
                   cacheVars, jobGVars, historyVars>>

\* The requests of a job.  Only a download can stall.
WebStep(j) ==
    /\ LET download == gpc[j] = "downloading" IN
       \/ Responds(j) \/ Rejects(j, download) \/ FallsBack(j) \/ TimerFires(j, download)
       \/ download /\ Stalls(j)
    /\ UNCHANGED <<trackerVars, trackerLock, gvars>>

\* The steps a job takes by itself.
GStep(j) ==
    \/ Online(j) \/ Similar(j) \/ Resolve(j) \/ ReadRecords(j) \/ HostExists(j) \/ HostMeets(j)
    \/ SdkIsFound(j) \/ ForgetRecord(j) \/ GTrack(j) \/ TakeGlobalLock(j)
    \/ Conflict(j) \/ Download(j) \/ Downloaded(j) \/ VerifyFile(j)
    \/ RunInstaller(j) \/ RunPackage(j) \/ Backup(j) \/ Packages(j) \/ RunUninstaller(j)
    \/ Finish(j) \/ GUntrack(j) \/ CountOwners(j) \/ GReport(j) \/ WebStep(j)

GNext ==
    \/ \E j \in GJobs, s \in Sessions, command \in {"install", "uninstall", "force"},
          e \in Exts \ {Lib}, q \in Typed \cup Proposed : GStart(j, s, command, e, q)
    \/ \E j \in GJobs : GStep(j) \/ GlobalLockTimesOut(j)

GSpec == GInit /\ [][GNext]_<<gvars, webVars, trackerVars, trackerLock>>

-----------------------------------------------------------------------------
(***************************************************************************)
(* Properties                                                              *)
(***************************************************************************)

\* The two jobs were under way at the same time.
Overlap(j, k) == j \notin before[k] /\ k \notin before[j]

\* An uninstallation beside job j that has taken away the SDK of j, and the record
\* with j's extension in it: to later uninstallations nobody owns what is there then.
LostOwner(j, k) ==
    gpc[k] = "done" /\ ~Installs_(k) /\ target[k] = target[j] /\ Overlap(j, k)

\* What may have taken away the SDK that job j handed out, or kept j from seeing
\* that it was gone: on Linux the package manager; macOS when the user's try
\* counted by the host; a job that ran beside it; the cached listing of another
\* process, or of an uninstallation that was given up on and cleared no cache; an
\* upgrade; a record that was dropped because some dotnet did not list the SDK.
MayHaveLost(j) ==
    \/ Linux \/ j \in unsure \/ target[j] \in forgotten
    \/ \E k \in GJobs \ {j} :
         \/ LostOwner(j, k)
         \/ /\ changedBy[target[j]] = k
            /\ \/ Overlap(j, k) \/ Installs_(k)
               \/ k \in before[j] /\ (order[k].by # order[j].by \/ gpc[k] = "failed")

\* An SDK handed to an extension that has not uninstalled it, and that no user
\* forced out, is on the machine but for these causes: commands of one window in
\* sequence never lose one (validateDotnetInstall looks at the host only, and
\* installSDK returns 0 on what a cached registry query says).
GrantCauses == \A j \in given : target[j] \in sdks \/ MayHaveLost(j)

\* An uninstallation that was not forced takes an SDK from another owner only if
\* this owner's acquisition was under way at the same time: it found the SDK, or
\* tracks it, without the lock.
TakesNoOwnedSdk == \A j \in GJobs :
    (gpc[j] \in {"run", "packages"} /\ order[j].command = "uninstall" /\ target[j] \in sdks \ sdks') =>
        \A e \in owners[target[j]] \ {order[j].ext} :
            \E k \in GJobs : order[k].command = "install" /\ order[k].ext = e /\ Overlap(j, k)
OwnersKeepSdk == [][TakesNoOwnedSdk]_<<gvars, trackerVars>>

\* Windows gets the installer of an SDK older than one of its band only if the
\* newer one came from another process, beside this job, or from a job that failed:
\* the registry is asked through a cache that a success clears, after the lock is
\* released, and a failure does not.
NoDowngradeCauses == \A j \in GJobs : \A w \in sdks :
    (/\ gpc[j] \in {"run", "rerun"} /\ Installs_(j) /\ scene.platform = "win32" /\ j \notin unsure
     /\ SameBand(target[j], w) /\ target[j].patch < w.patch) =>
        \E k \in GJobs \ {j} :
            changedBy[w] = k /\ (Overlap(j, k) \/ order[k].by # order[j].by \/ gpc[k] = "failed")

\* No installer runs but the one with the published hash, and only under the lock,
\* whatever is in the folder all processes share.
RunsVerified == \A j \in GJobs :
    (gpc[j] \in {"run", "rerun", "backup", "rebackup"} /\ (Installs_(j) \/ scene.platform = "win32")) =>
        globalLock = j /\ installerFile[target[j]] = "good" /\ Hashed(target[j])

\* A feature band is resolved to its newest SDK when the first release lists a
\* band newest first, as getNewestSpecificVersionFromFeatureBand assumes.
ResolvesToNewest == \A j \in GJobs :
    (gpc[j] = "read" /\ order[j].asked.form = "band" /\ InOrder(scene.index)) =>
        \A i \in OfBand(scene.index, order[j].asked) :
            FirstRelease(scene.index)[i].version.patch <= target[j].patch

\* A job under the lock, on a machine that has such a stage, whose request is out or
\* answered where it waits for one and is not where it sends one.
OnItsWay(j) ==
    \/ /\ gpc[j] \in {"conflict", "download", "verify", "run", "rerun", "backup", "rebackup",
                      "packages", "untrack", "count", "report", "retrack"}
       /\ web[j] = "idle"
       /\ gpc[j] \in {"run", "rerun"} /\ Installs_(j) => ~Linux
       /\ gpc[j] = "rerun" => Installs_(j)
    \/ gpc[j] = "resolve" /\ web[j] \in {"sent", "fallback"} \cup Answered
    \/ gpc[j] = "downloading" /\ web[j] \in {"sent", "data", "nothing", "thrown"}

HolderOnItsWay == \A j \in GJobs : globalLock = j => web[j] = "stuck" \/ OnItsWay(j)
OnItsWayCanStep == \A j \in GJobs : OnItsWay(j) => trackerLock # Free \/ ENABLED GStep(j)

\* Whoever has the lock for the machine can go on, or end, but for a download that
\* stalls: no error path leaves the lock behind.
HolderMoves == HolderOnItsWay /\ OnItsWayCanStep
=============================================================================
