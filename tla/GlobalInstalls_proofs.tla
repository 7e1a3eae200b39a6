----------------------- MODULE GlobalInstalls_proofs -----------------------
(***************************************************************************)
(* Proofs about GlobalInstalls, for any commands, processes, SDKs and      *)
(* machines, and whatever the records of the tracker start from.           *)
(***************************************************************************)
EXTENDS GlobalInstalls, TLAPS

\* The job is between taking GLOBAL_INSTALL_STATE_MODIFIER_LOCK and its end.  An
\* installation resolves its version before it has the lock, an uninstallation
\* under it.
Holding(j) ==
    \/ gpc[j] \in {"conflict", "download", "downloading", "verify", "run", "rerun", "backup",
                   "rebackup", "packages", "untrack", "count", "report"}
    \/ gpc[j] \in {"resolve", "retrack"} /\ ~Installs_(j)

RunsInstaller(j) ==
    /\ gpc[j] \in {"run", "rerun", "backup", "rebackup"}
    /\ Installs_(j) \/ scene.platform = "win32"

\* What is true of one job: it has the lock where it should, an installation alone
\* asks first or tries again, and an installer that runs was verified.
JobInv(j) ==
    /\ Holding(j) => globalLock = j
    /\ gpc[j] \in {"online", "similar", "rerun", "backup", "rebackup"} => Installs_(j)
    /\ RunsInstaller(j) => installerFile[target[j]] = "good" /\ Hashed(target[j])

\* The variables that have a value for each job are functions on the jobs.
JobFunctions ==
    /\ gpc = [j \in GJobs |-> gpc[j]]
    /\ order = [j \in GJobs |-> order[j]]
    /\ target = [j \in GJobs |-> target[j]]

GInv == scene \in Scenes /\ JobFunctions /\ \A j \in GJobs : JobInv(j)

\* A step of job j: the other jobs stay where they are, the lock goes from nobody to
\* j or from j to nobody, and the folder of the installers changes under the lock.
MovesAlone(j) ==
    /\ scene' = scene
    /\ JobFunctions'
    /\ \A k \in GJobs \ {j} : gpc'[k] = gpc[k] /\ order'[k] = order[k] /\ target'[k] = target[k]
    /\ \/ globalLock' = globalLock
       \/ globalLock = Free /\ globalLock' = j
       \/ globalLock = j /\ globalLock' = Free
    /\ installerFile' = installerFile \/ globalLock = j

LEMMA OthersKeepInv ==
    ASSUME GInv, NEW j \in GJobs, MovesAlone(j), JobInv(j)'
    PROVE  GInv'
  <1> SUFFICES ASSUME NEW k \in GJobs, k # j PROVE JobInv(k)'
    BY DEF GInv, MovesAlone
  <1>1. JobInv(k) /\ gpc'[k] = gpc[k] /\ order'[k] = order[k] /\ target'[k] = target[k]
    BY DEF GInv, MovesAlone
  <1>2. Holding(k)' <=> Holding(k)
    BY <1>1 DEF Holding, Installs_
  <1>3. Holding(k) => globalLock' = k /\ installerFile' = installerFile
    BY <1>1, GlobalAssumption DEF MovesAlone, JobInv
  <1>4. RunsInstaller(k)' => RunsInstaller(k) /\ Holding(k)
    BY <1>1 DEF RunsInstaller, Holding, Installs_, MovesAlone
  <1>5. Hashed(target[k]) => Hashed(target[k])'
    BY <1>1 DEF Hashed, InstallerOf, MovesAlone
  <1> QED
    BY <1>1, <1>2, <1>3, <1>4, <1>5 DEF JobInv, Installs_

\* Each step of a job is one of that job alone, and keeps what is true of it.
LEMMA StepKeepsInv ==
    ASSUME GInv, NEW j \in GJobs, GStep(j) \/ GlobalLockTimesOut(j)
    PROVE  MovesAlone(j) /\ JobInv(j)'
  <1> USE DEF MovesAlone, JobInv, JobFunctions, Holding, RunsInstaller, Installs_, At, EndAt,
              Asks, Fails, Hashed, InstallerOf, fileVars, jobGVars
  <1>0. scene \in Scenes /\ JobFunctions /\ JobInv(j)
    BY DEF GInv
  <1>platform. scene.platform \in {"win32", "darwin", "linux", "wsl"}
    BY <1>0, ScenesAssumption
  <1>1. CASE Online(j)
    BY <1>0, <1>1 DEF Online
  <1>2. CASE Similar(j)
    BY <1>0, <1>2 DEF Similar
  <1>3. CASE Resolve(j)
    BY <1>0, <1>platform, <1>3 DEF Resolve, Linux
  <1>4. CASE ReadRecords(j)
    BY <1>0, <1>4 DEF ReadRecords
  <1>5. CASE HostExists(j)
    BY <1>0, <1>5 DEF HostExists
  <1>6. CASE HostMeets(j)
    BY <1>0, <1>6 DEF HostMeets
  <1>7. CASE SdkIsFound(j)
    BY <1>0, <1>7 DEF SdkIsFound
  <1>8. CASE ForgetRecord(j)
    BY <1>0, <1>8 DEF ForgetRecord
  <1>9. CASE GTrack(j)
    BY <1>0, <1>9 DEF GTrack
  <1>10. CASE TakeGlobalLock(j)
    BY <1>0, <1>platform, <1>10 DEF TakeGlobalLock, Linux
  <1>11. CASE Conflict(j)
    BY <1>0, <1>11 DEF Conflict
  <1>12. CASE Download(j)
    BY <1>0, <1>12 DEF Download, FileBecomes
  <1>13. CASE Downloaded(j)
    BY <1>0, <1>13 DEF Downloaded, FileBecomes
  <1>14. CASE VerifyFile(j)
    BY <1>0, <1>14 DEF VerifyFile
  <1>15. CASE RunInstaller(j)
    BY <1>0, <1>15 DEF RunInstaller, InstallerDone, RetriesElevated, FileBecomes
  <1>16. CASE RunPackage(j)
    BY <1>0, <1>16 DEF RunPackage, InstallerDone, FileBecomes
  <1>17. CASE Backup(j)
    BY <1>0, <1>17 DEF Backup, InstallerDone, RetriesElevated, FileBecomes
  <1>18. CASE Packages(j)
    BY <1>0, <1>18 DEF Packages, UninstallEnds
  <1>19. CASE RunUninstaller(j)
    BY <1>0, <1>19 DEF RunUninstaller, UninstallEnds
  <1>20. CASE Finish(j)
    BY <1>0, <1>20 DEF Finish
  <1>21. CASE GUntrack(j)
    BY <1>0, <1>21 DEF GUntrack
  <1>22. CASE CountOwners(j)
    BY <1>0, <1>22 DEF CountOwners
  <1>23. CASE GReport(j)
    BY <1>0, <1>23 DEF GReport
  <1>24. CASE WebStep(j)
    BY <1>0, <1>24 DEF WebStep, gvars
  <1>25. CASE GlobalLockTimesOut(j)
    BY <1>0, <1>25 DEF GlobalLockTimesOut
  <1> QED
    BY <1>1, <1>2, <1>3, <1>4, <1>5, <1>6, <1>7, <1>8, <1>9, <1>10, <1>11, <1>12, <1>13,
       <1>14, <1>15, <1>16, <1>17, <1>18, <1>19, <1>20, <1>21, <1>22, <1>23, <1>24, <1>25
       DEF GStep

\* A new job is idle before, and goes for what it was asked.
LEMMA StartKeepsInv ==
    ASSUME GInv, NEW j \in GJobs, NEW s, NEW command, NEW e, NEW q, GStart(j, s, command, e, q)
    PROVE  MovesAlone(j) /\ JobInv(j)'
  <1>1. scene \in Scenes /\ JobFunctions /\ JobInv(j)
    BY DEF GInv
  <1> QED
    BY <1>1 DEF GStart, At, MovesAlone, JobInv, JobFunctions, Holding, RunsInstaller, Installs_,
                fileVars

LEMMA GInvInit == GInit => GInv
  BY DEF GInit, GInv, JobFunctions, JobInv, Holding, RunsInstaller, Installs_

LEMMA GInvStep ==
    GInv /\ [GNext]_<<gvars, webVars, trackerVars, trackerLock>> => GInv'
  <1> SUFFICES ASSUME GInv, [GNext]_<<gvars, webVars, trackerVars, trackerLock>> PROVE GInv'
    OBVIOUS
  <1>1. ASSUME NEW j \in GJobs, NEW s, NEW command, NEW e, NEW q, GStart(j, s, command, e, q)
        PROVE  GInv'
    BY <1>1, StartKeepsInv, OthersKeepInv
  <1>2. ASSUME NEW j \in GJobs, GStep(j) \/ GlobalLockTimesOut(j) PROVE GInv'
    BY <1>2, StepKeepsInv, OthersKeepInv
  <1>3. CASE UNCHANGED <<gvars, webVars, trackerVars, trackerLock>>
    BY <1>3 DEF gvars, fileVars, jobGVars, GInv, JobFunctions, JobInv, Holding, RunsInstaller,
                Installs_, Hashed, InstallerOf
  <1> QED
    BY <1>1, <1>2, <1>3 DEF GNext

\* No installer runs but a verified one, under the lock for the machine: every way
\* into WinMacGlobalInstaller's executeInstall goes through the check of the hash,
\* and nobody else writes the folder before it has ended.
THEOREM InstallersAreVerified == GSpec => []RunsVerified
  <1>1. GInit => GInv
    BY GInvInit
  <1>2. GInv /\ [GNext]_<<gvars, webVars, trackerVars, trackerLock>> => GInv'
    BY GInvStep
  <1>3. GInv => RunsVerified
    BY DEF GInv, JobInv, RunsInstaller, Holding, RunsVerified
  <1> QED
    BY <1>1, <1>2, <1>3, PTL DEF GSpec

\* The lock for the machine is with one job at a time: two are never both between
\* taking it and their end.
GlobalExclusion == \A j, k \in GJobs : Holding(j) /\ Holding(k) => j = k

THEOREM OneHoldsTheMachine == GSpec => []GlobalExclusion
  <1>1. GInit => GInv
    BY GInvInit
  <1>2. GInv /\ [GNext]_<<gvars, webVars, trackerVars, trackerLock>> => GInv'
    BY GInvStep
  <1>3. GInv => GlobalExclusion
    BY DEF GInv, JobInv, GlobalExclusion
  <1> QED
    BY <1>1, <1>2, <1>3, PTL DEF GSpec

-----------------------------------------------------------------------------
(***************************************************************************)
(* The newest SDK of a band.  Only Resolve brings a job to "read", and what *)
(* it resolved stays until the job goes on.                                *)
(***************************************************************************)

\* The first SDK of a band is the newest if a release lists the band in order.
LEMMA FirstIsNewest ==
    ASSUME scene \in Scenes, InOrder(scene.index), NEW q, NEW v \in NewestOfBand(scene.index, q),
           NEW i \in OfBand(scene.index, q)
    PROVE  FirstRelease(scene.index)[i].version.patch <= v.patch
  <1> DEFINE F == FirstRelease(scene.index)
  <1>1. PICK n \in OfBand(scene.index, q) :
          v = F[n].version /\ \A l \in OfBand(scene.index, q) : n <= l
    BY DEF NewestOfBand
  <1>2. /\ n \in DOMAIN F /\ i \in DOMAIN F
        /\ F[n].version.band = F[i].version.band
    BY DEF OfBand
  <1>3. /\ n \in Nat /\ i \in Nat
        /\ F[n].version.patch \in Nat /\ F[i].version.patch \in Nat
    <2>1. n \in Nat /\ i \in Nat /\ F[n].version \in SdkVersions /\ F[i].version \in SdkVersions
      BY <1>2, ScenesAssumption, GlobalAssumption
    <2> QED
      BY <2>1 DEF SdkVersions
  <1>4. CASE n = i
    BY <1>1, <1>3, <1>4
  <1>5. CASE n < i
    BY <1>1, <1>2, <1>5 DEF InOrder
  <1> QED
    BY <1>1, <1>3, <1>4, <1>5

\* No step but Resolve leads to "read"; an answer from the web may find a job there.
LEMMA OnlyResolveReads ==
    ASSUME GInv, NEW j \in GJobs, GStep(j) \/ GlobalLockTimesOut(j), gpc'[j] = "read"
    PROVE  Resolve(j) \/ WebStep(j)
  <1> USE DEF At, EndAt, Asks, Fails, Installs_
  <1>1. gpc = [k \in GJobs |-> gpc[k]]
    BY DEF GInv, JobFunctions
  <1>2. ~Online(j) /\ ~Similar(j) /\ ~ReadRecords(j) /\ ~HostExists(j) /\ ~HostMeets(j)
    BY <1>1 DEF Online, Similar, ReadRecords, HostExists, HostMeets
  <1>3. ~SdkIsFound(j) /\ ~ForgetRecord(j) /\ ~GTrack(j) /\ ~GlobalLockTimesOut(j)
    BY <1>1 DEF SdkIsFound, ForgetRecord, GTrack, GlobalLockTimesOut
  <1>4. ~TakeGlobalLock(j)
    <2>1. scene.platform \in {"win32", "darwin", "linux", "wsl"}
      BY ScenesAssumption DEF GInv
    <2> QED
      BY <1>1, <2>1 DEF TakeGlobalLock, Linux
  <1>5. ~Conflict(j) /\ ~Download(j) /\ ~Downloaded(j) /\ ~VerifyFile(j)
    BY <1>1 DEF Conflict, Download, Downloaded, VerifyFile
  <1>6. ~RunInstaller(j) /\ ~RunPackage(j) /\ ~Backup(j)
    BY <1>1 DEF RunInstaller, RunPackage, Backup, InstallerDone, RetriesElevated
  <1>7. ~Packages(j) /\ ~RunUninstaller(j)
    BY <1>1 DEF Packages, RunUninstaller, UninstallEnds
  <1>8. ~Finish(j) /\ ~GUntrack(j) /\ ~CountOwners(j) /\ ~GReport(j)
    BY <1>1 DEF Finish, GUntrack, CountOwners, GReport
  <1> QED
    BY <1>2, <1>3, <1>4, <1>5, <1>6, <1>7, <1>8 DEF GStep

LEMMA NewestStep ==
    GInv /\ ResolvesToNewest /\ [GNext]_<<gvars, webVars, trackerVars, trackerLock>>
        => ResolvesToNewest'
  <1> SUFFICES ASSUME GInv, ResolvesToNewest,
                      [GNext]_<<gvars, webVars, trackerVars, trackerLock>>
               PROVE  ResolvesToNewest'
    OBVIOUS
  <1>1. ASSUME NEW j \in GJobs, NEW s, NEW command, NEW e, NEW q, GStart(j, s, command, e, q)
        PROVE  ResolvesToNewest'
    <2>1. MovesAlone(j) /\ gpc'[j] # "read"
      BY <1>1, StartKeepsInv DEF GStart, At, GInv, JobFunctions
    <2> QED
      BY <2>1 DEF ResolvesToNewest, MovesAlone
  <1>2. ASSUME NEW j \in GJobs, GStep(j) \/ GlobalLockTimesOut(j) PROVE ResolvesToNewest'
    <2>1. MovesAlone(j)
      BY <1>2, StepKeepsInv
    <2>2. gpc'[j] = "read" => Resolve(j) \/ WebStep(j)
      BY <1>2, OnlyResolveReads
    <2>3. CASE gpc'[j] # "read"
      BY <2>1, <2>3 DEF ResolvesToNewest, MovesAlone
    <2>4. CASE WebStep(j)
      BY <2>4 DEF WebStep, gvars, jobGVars, ResolvesToNewest
    <2>5. CASE Resolve(j) /\ gpc'[j] = "read"
      <3>1. CASE order[j].asked.form = "band" /\ InOrder(scene.index)
        <4>1. PICK v \in NewestOfBand(scene.index, order[j].asked) : target'[j] = v
          BY <2>5, <3>1 DEF Resolve, Resolved, EndAt, At, GInv, JobFunctions
        <4>2. scene \in Scenes /\ order'[j] = order[j] /\ scene' = scene
          BY <2>5 DEF Resolve, GInv
        <4> QED
          BY <2>1, <3>1, <4>1, <4>2, FirstIsNewest DEF ResolvesToNewest, MovesAlone
      <3>2. CASE ~(order[j].asked.form = "band" /\ InOrder(scene.index))
        BY <2>1, <2>5, <3>2 DEF ResolvesToNewest, MovesAlone, Resolve
      <3> QED
        BY <3>1, <3>2
    <2> QED
      BY <2>2, <2>3, <2>4, <2>5
  <1>3. CASE UNCHANGED <<gvars, webVars, trackerVars, trackerLock>>
    BY <1>3 DEF gvars, jobGVars, ResolvesToNewest
  <1> QED
    BY <1>1, <1>2, <1>3 DEF GNext

\* What installs the newest SDK of a feature band (dotnet.acquireGlobalSDK with
\* 9.0.1xx): getNewestSpecificVersionFromFeatureBand takes the first, whatever else
\* the index holds and however many commands run.
THEOREM BandsResolveToNewest == GSpec => []ResolvesToNewest
  <1>1. GInit => GInv /\ ResolvesToNewest
    BY GInvInit DEF GInit, ResolvesToNewest
  <1>2. GInv /\ ResolvesToNewest /\ [GNext]_<<gvars, webVars, trackerVars, trackerLock>>
          => GInv' /\ ResolvesToNewest'
    BY GInvStep, NewestStep
  <1> QED
    BY <1>1, <1>2, PTL DEF GSpec

-----------------------------------------------------------------------------
(***************************************************************************)
(* Where a job goes.  What the later invariants need of the stages is      *)
(* collected here once.                                                    *)
(***************************************************************************)
InstallStages == {"online", "similar", "read", "exists", "meets", "found", "forget", "forgetAgain",
                  "track", "conflict", "finish", "rerun", "backup", "rebackup"}
UninstallStages == {"untrack", "count", "report", "retrack"}

\* A job that has changed the machine is at one of these, and stays among them.
After == {"finish", "rerun", "backup", "rebackup", "retrack", "failed", "track", "done", "report",
          "refused"}

Commands_ == {"install", "uninstall", "force"}
Forms == {"major", "majorMinor", "band", "full", "other"}

\* What job j was asked for, and the stages that go with it.
OrderOK(j) ==
    IF gpc[j] = "idle" THEN order[j].command = "none"
    ELSE /\ order[j].by \in Sessions /\ order[j].ext \in Exts /\ order[j].command \in Commands_
         /\ order[j].asked.form \in Forms
         /\ order[j].asked.form = "full" => order[j].asked.version \in Global
         /\ ~Installs_(j) => order[j].asked.form = "full" /\ target[j] = order[j].asked.version
         /\ gpc[j] \in InstallStages => Installs_(j)
         /\ gpc[j] \in UninstallStages => ~Installs_(j)
         /\ gpc[j] = "count" => order[j].command = "uninstall"

StageMoves(j) ==
    /\ gpc' = [gpc EXCEPT ![j] = gpc'[j]] /\ gpc'[j] \in GStages
    /\ gpc'[j] = "idle" <=> gpc[j] = "idle"
    /\ gpc[j] \in GEnded => gpc'[j] = gpc[j]
    /\ gpc[j] \in After => gpc'[j] \in After
    /\ gpc'[j] \in InstallStages => Installs_(j)
    /\ gpc'[j] \in UninstallStages => ~Installs_(j)
    /\ gpc'[j] = "count" => order[j].command = "uninstall"
    /\ order' = order /\ before' = before
    /\ target' = target \/ gpc[j] \in {"similar", "resolve"}

\* The stages of a step of any job.
LEMMA StepMoves ==
    ASSUME GInv, GTypeOK, NEW j \in GJobs, OrderOK(j), GStep(j) \/ GlobalLockTimesOut(j)
    PROVE  StageMoves(j)
  <1> USE DEF StageMoves, At, EndAt, Asks, Fails, fileVars, jobGVars, GEnded, After, InstallStages,
              UninstallStages, OrderOK, Installs_, Commands_, JobInv
  <1>0. /\ gpc \in [GJobs -> GStages] /\ JobInv(j)
        /\ scene.platform \in {"win32", "darwin", "linux", "wsl"}
    BY ScenesAssumption DEF GTypeOK, GInv
  <1>1. CASE Online(j)
    BY <1>0, <1>1 DEF Online, GStages
  <1>2. CASE Similar(j)
    BY <1>0, <1>2 DEF Similar, GStages
  <1>3. CASE Resolve(j)
    BY <1>0, <1>3 DEF Resolve, GStages, Linux
  <1>4. CASE ReadRecords(j)
    BY <1>0, <1>4 DEF ReadRecords, GStages
  <1>5. CASE HostExists(j)
    BY <1>0, <1>5 DEF HostExists, GStages
  <1>6. CASE HostMeets(j)
    BY <1>0, <1>6 DEF HostMeets, GStages
  <1>7. CASE SdkIsFound(j)
    BY <1>0, <1>7 DEF SdkIsFound, GStages
  <1>8. CASE ForgetRecord(j)
    BY <1>0, <1>8 DEF ForgetRecord, GStages
  <1>9. CASE GTrack(j)
    BY <1>0, <1>9 DEF GTrack, GStages
  <1>10. CASE TakeGlobalLock(j)
    BY <1>0, <1>10 DEF TakeGlobalLock, GStages, Linux
  <1>11. CASE Conflict(j)
    BY <1>0, <1>11 DEF Conflict, GStages
  <1>12. CASE Download(j)
    BY <1>0, <1>12 DEF Download, FileBecomes, GStages
  <1>13. CASE Downloaded(j)
    BY <1>0, <1>13 DEF Downloaded, FileBecomes, GStages
  <1>14. CASE VerifyFile(j)
    BY <1>0, <1>14 DEF VerifyFile, GStages
  <1>15. CASE RunInstaller(j)
    BY <1>0, <1>15 DEF RunInstaller, InstallerDone, RetriesElevated, FileBecomes, GStages
  <1>16. CASE RunPackage(j)
    BY <1>0, <1>16 DEF RunPackage, InstallerDone, FileBecomes, GStages
  <1>17. CASE Backup(j)
    BY <1>0, <1>17 DEF Backup, InstallerDone, RetriesElevated, FileBecomes, GStages
  <1>18. CASE Packages(j)
    BY <1>0, <1>18 DEF Packages, UninstallEnds, GStages
  <1>19. CASE RunUninstaller(j)
    BY <1>0, <1>19 DEF RunUninstaller, UninstallEnds, GStages
  <1>20. CASE Finish(j)
    BY <1>0, <1>20 DEF Finish, GStages
  <1>21. CASE GUntrack(j)
    BY <1>0, <1>21 DEF GUntrack, GStages
  <1>22. CASE CountOwners(j)
    BY <1>0, <1>22 DEF CountOwners, GStages
  <1>23. CASE GReport(j)
    BY <1>0, <1>23 DEF GReport, GStages
  <1>24. CASE WebStep(j)
    <2>1. UNCHANGED <<gpc, order, before, target>>
      BY <1>24 DEF WebStep, gvars, jobGVars
    <2> QED
      BY <1>0, <2>1
  <1>25. CASE GlobalLockTimesOut(j)
    BY <1>0, <1>25 DEF GlobalLockTimesOut, GStages
  <1> QED
    BY <1>1, <1>2, <1>3, <1>4, <1>5, <1>6, <1>7, <1>8, <1>9, <1>10, <1>11, <1>12, <1>13,
       <1>14, <1>15, <1>16, <1>17, <1>18, <1>19, <1>20, <1>21, <1>22, <1>23, <1>24, <1>25
       DEF GStep

\* Which steps touch what: the machine, the caches, the records, the folder of the
\* installers, the web and the histories.
LEMMA Frames ==
    ASSUME NEW j \in GJobs, GStep(j) \/ GlobalLockTimesOut(j)
    PROVE  /\ RunInstaller(j) \/ RunPackage(j) \/ Backup(j) \/ Packages(j) \/ RunUninstaller(j)
                \/ UNCHANGED machineVars
           /\ HostMeets(j) \/ Conflict(j) \/ Packages(j) \/ RunUninstaller(j) \/ Finish(j)
                \/ UNCHANGED cacheVars
           /\ ForgetRecord(j) \/ GTrack(j) \/ GUntrack(j) \/ GReport(j) \/ UNCHANGED trackerVars
           /\ Download(j) \/ Downloaded(j) \/ RunInstaller(j) \/ RunPackage(j) \/ Backup(j)
                \/ UNCHANGED installerFile
           /\ Similar(j) \/ Resolve(j) \/ UNCHANGED target
           /\ ReadRecords(j) \/ HostExists(j) \/ UNCHANGED had
           /\ GTrack(j) \/ GUntrack(j) \/ UNCHANGED given
           /\ Similar(j) \/ Conflict(j) \/ Backup(j) \/ UNCHANGED unsure
           /\ ForgetRecord(j) \/ UNCHANGED forgotten
           /\ Online(j) \/ Similar(j) \/ Resolve(j) \/ Download(j) \/ Downloaded(j) \/ GUntrack(j)
                \/ CountOwners(j) \/ WebStep(j) \/ UNCHANGED webVars
           /\ scene' = scene /\ trackerLock' = trackerLock
  <1> USE DEF fileVars, machineVars, cacheVars, jobGVars, historyVars, gvars, trackerVars, At
  <1>1. CASE Online(j) \/ Similar(j) \/ Resolve(j) \/ WebStep(j) \/ GlobalLockTimesOut(j)
    BY <1>1 DEF Online, Similar, Resolve, WebStep, GlobalLockTimesOut
  <1>2. CASE ReadRecords(j) \/ HostExists(j) \/ HostMeets(j) \/ SdkIsFound(j) \/ TakeGlobalLock(j)
    BY <1>2 DEF ReadRecords, HostExists, HostMeets, SdkIsFound, TakeGlobalLock
  <1>3. CASE ForgetRecord(j) \/ GTrack(j) \/ GUntrack(j) \/ GReport(j)
    BY <1>3 DEF ForgetRecord, GTrack, GUntrack, GReport
  <1>4. CASE Conflict(j) \/ Download(j) \/ Downloaded(j) \/ VerifyFile(j) \/ CountOwners(j)
               \/ Finish(j)
    BY <1>4 DEF Conflict, Download, Downloaded, VerifyFile, CountOwners, Finish
  <1>5. CASE RunInstaller(j) \/ RunPackage(j) \/ Backup(j)
    BY <1>5 DEF RunInstaller, RunPackage, Backup
  <1>6. CASE Packages(j) \/ RunUninstaller(j)
    BY <1>6 DEF Packages, RunUninstaller
  <1> QED
    BY <1>1, <1>2, <1>3, <1>4, <1>5, <1>6 DEF GStep

\* What a package manager leaves is what was there and what it offers.
LEMMA PackagesOffer ==
    ASSUME NEW d, NEW S, NEW v, NEW end \in ValidateAndInstallSDK(d, S, v)
    PROVE  end.sdks \subseteq S \cup d.offers
  <1>1. Upgraded(d, S, v) \subseteq S \cup d.offers
    BY DEF Upgraded, OfMajorMinor
  <1>2. ASSUME NEW u \in Upgrade(d, S, v) \cup InstallPackage(d, S, v)
        PROVE  u.sdks \subseteq S \cup d.offers
    BY <1>1, <1>2 DEF Upgrade, InstallPackage, Ends
  <1>3. ASSUME NEW w, NEW u \in UpdateOrReject(d, S, v, w) PROVE u.sdks \subseteq S \cup d.offers
    BY <1>2, <1>3 DEF UpdateOrReject, Ends
  <1>4. CASE end = Ends("thrown", S)
    BY <1>4 DEF Ends
  <1>5. CASE end \in InstallPackage(d, S, v)
    BY <1>2, <1>5
  <1>6. CASE \E w : end \in UpdateOrReject(d, S, v, w)
    BY <1>3, <1>6
  <1> QED
    BY <1>4, <1>5, <1>6 DEF ValidateAndInstallSDK

\* A step that changes the machine leaves global SDKs on it.
LEMMA MachineStays ==
    ASSUME GTypeOK, NEW j \in GJobs, target[j] \in Global,
           RunInstaller(j) \/ RunPackage(j) \/ Backup(j) \/ Packages(j) \/ RunUninstaller(j)
    PROVE  UNCHANGED machineVars \/ \E now \in SUBSET Global : MachineBecomes(j, now)
  <1> USE DEF GTypeOK
  <1>1. CASE RunInstaller(j)
    BY <1>1 DEF RunInstaller, Installed
  <1>2. CASE RunPackage(j)
    BY <1>2 DEF RunPackage
  <1>3. CASE Backup(j)
    BY <1>3 DEF Backup
  <1>4. CASE Packages(j)
    <2>1. CASE \E end \in ValidateAndInstallSDK(scene.distro, sdks, target[j]) :
                 MachineBecomes(j, end.sdks)
      BY <2>1, PackagesOffer, ScenesAssumption
    <2>2. CASE \E end \in UninstallSDK(sdks, target[j]) : MachineBecomes(j, end.sdks)
      BY <2>2 DEF UninstallSDK, Ends
    <2> QED
      BY <1>4, <2>1, <2>2 DEF Packages
  <1>5. CASE RunUninstaller(j)
    BY <1>5 DEF RunUninstaller
  <1> QED
    BY <1>1, <1>2, <1>3, <1>4, <1>5

MachineTypeOK ==
    /\ sdks \subseteq Global /\ host \in BOOLEAN
    /\ changedBy \in [Global -> GJobs \cup {Free}]

\* The machine, as any step of a job leaves it.
LEMMA MachineTypes ==
    ASSUME GTypeOK, NEW j \in GJobs, target[j] \in Global, GStep(j) \/ GlobalLockTimesOut(j)
    PROVE  MachineTypeOK'
  <1>1. CASE UNCHANGED machineVars
    BY <1>1 DEF machineVars, MachineTypeOK, GTypeOK
  <1>2. ASSUME NEW now \in SUBSET Global, MachineBecomes(j, now) PROVE MachineTypeOK'
    <2>1. sdks' \subseteq Global
      BY <1>2 DEF MachineBecomes
    <2>2. host' \in BOOLEAN
      <3>1. host' \in {TRUE} \/ host' \in BOOLEAN \/ host' \in {host}
        BY <1>2 DEF MachineBecomes
      <3> QED
        BY <3>1 DEF GTypeOK
    <2>3. changedBy' \in [Global -> GJobs \cup {Free}]
      BY <1>2 DEF MachineBecomes, GTypeOK
    <2> QED
      BY <2>1, <2>2, <2>3 DEF MachineTypeOK
  <1> QED
    BY <1>1, <1>2, Frames, MachineStays

CacheTypeOK ==
    /\ listing \in [Sessions -> SUBSET (SUBSET Global)]
    /\ registry \in [Sessions -> SUBSET (SUBSET Global)]

\* A cache holds sets of global SDKs.
LEMMA CacheTypes ==
    ASSUME GTypeOK, NEW j \in GJobs, GStep(j) \/ GlobalLockTimesOut(j), OrderOK(j), gpc[j] # "idle"
    PROVE  CacheTypeOK'
  <1>0. order[j].by \in Sessions
    BY DEF OrderOK
  <1>1. CASE UNCHANGED cacheVars
    BY <1>1 DEF cacheVars, CacheTypeOK, GTypeOK
  <1>2. CASE Invalidates(j)
    BY <1>2 DEF Invalidates, CacheTypeOK, GTypeOK
  <1>3. \A s \in Sessions : \A seen \in Answers(listing, s) \cup Answers(registry, s) :
             seen \in SUBSET Global
    BY DEF Answers, GTypeOK
  <1>4. CASE HostMeets(j)
    BY <1>0, <1>3, <1>4 DEF HostMeets, CacheTypeOK, GTypeOK
  <1>5. CASE Conflict(j)
    BY <1>0, <1>3, <1>5 DEF Conflict, CacheTypeOK, GTypeOK
  <1>6. CASE Packages(j) \/ RunUninstaller(j) \/ Finish(j)
    BY <1>1, <1>2, <1>6 DEF Packages, RunUninstaller, Finish, UninstallEnds, cacheVars
  <1> QED
    BY <1>1, <1>4, <1>5, <1>6, Frames

\* The records, as a step of a global command leaves them.
LEMMA TrackerTypes ==
    ASSUME GTypeOK, NEW j \in GJobs, GStep(j) \/ GlobalLockTimesOut(j), OrderOK(j), gpc[j] # "idle"
    PROVE  TrackerTypeOK'
  <1>0. /\ order[j].by \in Sessions /\ order[j].ext \in Exts /\ target[j] \in Installs
             /\ TrackerTypeOK
    BY DEF OrderOK, GTypeOK, Global
  <1>1. CASE UNCHANGED trackerVars
    BY <1>0, <1>1 DEF trackerVars, TrackerTypeOK
  <1>2. ASSUME DropRecord(target[j]), UNCHANGED <<marks, session>> PROVE TrackerTypeOK'
    BY <1>0, <1>2 DEF DropRecord, TrackerTypeOK
  <1>3. ASSUME Track(order[j].by, order[j].ext, target[j]), UNCHANGED session PROVE TrackerTypeOK'
    BY <1>0, <1>3 DEF Track, TrackerTypeOK
  <1>4. CASE ForgetRecord(j) \/ GReport(j)
    BY <1>2, <1>4 DEF ForgetRecord, GReport
  <1>5. CASE GTrack(j)
    <2>1. CASE host
      BY <1>3, <1>5, <2>1 DEF GTrack
    <2>2. CASE ~host
      BY <1>1, <1>5, <2>2 DEF GTrack, trackerVars
    <2> QED
      BY <2>1, <2>2
  <1>6. CASE GUntrack(j)
    <2>1. /\ UNCHANGED <<marks, session>>
          /\ Untrack(order[j].ext, target[j], order[j].command = "force")
      BY <1>6 DEF GUntrack
    <2>2. CASE order[j].command = "force"
      BY <1>2, <2>1, <2>2 DEF Untrack
    <2>3. CASE order[j].command # "force"
      BY <1>0, <2>1, <2>3 DEF Untrack, TrackerTypeOK
    <2> QED
      BY <2>2, <2>3
  <1> QED
    BY <1>1, <1>4, <1>5, <1>6, Frames

\* The requests of the jobs to the web.
LEMMA WebTypes ==
    ASSUME WebTypeOK, NEW j \in GJobs, GStep(j) \/ GlobalLockTimesOut(j)
    PROVE  WebTypeOK'
  <1> USE DEF WebTypeOK, Answered, GJobs
  <1>1. ASSUME Send(j) \/ Taken(j) PROVE WebTypeOK'
    BY <1>1 DEF Send, Taken, WebAt
  <1>2. CASE UNCHANGED webVars
    BY <1>2 DEF webVars
  <1>3. CASE Online(j) \/ Similar(j) \/ Resolve(j) \/ Download(j) \/ Downloaded(j) \/ GUntrack(j)
             \/ CountOwners(j)
    BY <1>1, <1>2, <1>3 DEF Online, Similar, Resolve, Download, Downloaded, GUntrack,
       CountOwners, Asks
  <1>4. CASE WebStep(j)
    <2>1. \/ \E download : Rejects(j, download) \/ TimerFires(j, download)
          \/ Responds(j) \/ FallsBack(j) \/ Stalls(j)
      BY <1>4 DEF WebStep
    <2>2. ASSUME NEW download, Rejects(j, download) \/ TimerFires(j, download) PROVE WebTypeOK'
      BY <2>2 DEF Rejects, TimerFires, WebAt
    <2>3. ASSUME Responds(j) \/ FallsBack(j) \/ Stalls(j) PROVE WebTypeOK'
      BY <2>3 DEF Responds, FallsBack, Stalls, WebAt
    <2> QED
      BY <2>1, <2>2, <2>3
  <1> QED
    BY <1>2, <1>3, <1>4, Frames

\* Whatever a request is resolved to is a global SDK.
LEMMA ResolvedIsGlobal ==
    ASSUME NEW s \in Scenes, NEW q, q.form \in Forms, q.form = "full" => q.version \in Global
    PROVE  /\ Resolved(s.index, q) \subseteq Global
           /\ q.form = "full" => Resolved(s.index, q) = {q.version}
  <1>1. NewestOfBand(s.index, q) \subseteq Global
    BY ScenesAssumption DEF NewestOfBand, OfBand
  <1>2. s.index.latestSdk \subseteq Global
    BY ScenesAssumption
  <1> QED
    BY <1>1, <1>2 DEF Resolved, Forms

\* The version a job goes for; an uninstallation keeps the one it was asked for.
LEMMA TargetTypes ==
    ASSUME GInv, GTypeOK, NEW j \in GJobs, OrderOK(j), gpc[j] # "idle",
           GStep(j) \/ GlobalLockTimesOut(j)
    PROVE  /\ target' \in [GJobs -> Global]
           /\ ~Installs_(j) => target'[j] = target[j]
  <1>1. CASE UNCHANGED target
    BY <1>1 DEF GTypeOK
  <1>2. CASE Similar(j)
    <2>1. /\ gpc[j] = "similar"
          /\ UNCHANGED target \/ \E w \in Global : target' = [target EXCEPT ![j] = w]
      BY <1>2 DEF Similar
    <2> QED
      BY <2>1 DEF GTypeOK, OrderOK, InstallStages
  <1>3. CASE Resolve(j)
    <2>1. UNCHANGED target
            \/ \E v \in Resolved(scene.index, order[j].asked) : target' = [target EXCEPT ![j] = v]
      BY <1>3 DEF Resolve
    <2>2. /\ Resolved(scene.index, order[j].asked) \subseteq Global
          /\ ~Installs_(j) => Resolved(scene.index, order[j].asked) = {target[j]}
      BY ResolvedIsGlobal DEF OrderOK, GInv
    <2> QED
      BY <2>1, <2>2 DEF GTypeOK
  <1> QED
    BY <1>1, <1>2, <1>3, Frames

TypeInv == GInv /\ GTypeOK /\ \A j \in GJobs : OrderOK(j)

\* A job that is idle gets no answers from the web that change anything but the web.
LEMMA IdleSteps ==
    ASSUME NEW j \in GJobs, gpc[j] = "idle", GStep(j) \/ GlobalLockTimesOut(j)
    PROVE  WebStep(j)
  BY DEF GStep, Online, Similar, Resolve, ReadRecords, HostExists, HostMeets, SdkIsFound,
         ForgetRecord, GTrack, TakeGlobalLock, Conflict, Download, Downloaded, VerifyFile,
         RunInstaller, RunPackage, Backup, Packages, RunUninstaller, Finish, GUntrack, CountOwners,
         GReport, GlobalLockTimesOut

\* Every step of a job keeps the types and what it was asked for.
LEMMA StepKeepsTypes ==
    ASSUME TypeInv, NEW j \in GJobs, GStep(j) \/ GlobalLockTimesOut(j)
    PROVE  TypeInv'
  <1>0. GInv /\ GTypeOK /\ OrderOK(j) /\ MovesAlone(j) /\ StageMoves(j) /\ GInv'
    BY StepKeepsInv, StepMoves, OthersKeepInv DEF TypeInv
  <1>1. CASE gpc[j] = "idle"
    <2>1. UNCHANGED <<trackerVars, gvars>> /\ WebTypeOK'
      BY <1>0, <1>1, IdleSteps, WebTypes DEF WebStep, GTypeOK
    <2> QED
      BY <1>0, <2>1
         DEF TypeInv, GTypeOK, OrderOK, Installs_, gvars, fileVars, machineVars, cacheVars,
             jobGVars, historyVars, trackerVars, TrackerTypeOK
  <1>2. CASE gpc[j] # "idle"
    <2>1. TrackerTypeOK' /\ WebTypeOK' /\ CacheTypeOK' /\ MachineTypeOK'
      BY <1>0, <1>2, TrackerTypes, WebTypes, CacheTypes, MachineTypes DEF GTypeOK
    <2>2. target' \in [GJobs -> Global] /\ (~Installs_(j) => target'[j] = target[j])
      BY <1>0, <1>2, TargetTypes
    <2>3. scene' \in Scenes /\ globalLock' \in GJobs \cup {Free}
      BY <1>0 DEF GTypeOK, MovesAlone
    <2>4. gpc' \in [GJobs -> GStages] /\ before' \in [GJobs -> SUBSET GJobs]
      BY <1>0 DEF GTypeOK, StageMoves
    <2>5. installerFile' \in [Global -> {"none", "part", "good"}]
      <3>1. CASE UNCHANGED installerFile
        BY <1>0, <3>1 DEF GTypeOK
      <3>2. CASE \E state \in {"none", "part", "good"} : FileBecomes(j, state)
        BY <1>0, <3>2 DEF GTypeOK, FileBecomes
      <3>3. CASE Download(j) \/ Downloaded(j) \/ RunInstaller(j) \/ RunPackage(j) \/ Backup(j)
        BY <3>1, <3>2, <3>3
           DEF Download, Downloaded, RunInstaller, RunPackage, Backup, InstallerDone,
               RetriesElevated, fileVars
      <3> QED
        BY <3>1, <3>3, Frames
    <2>6. had' \in [GJobs -> BOOLEAN]
      <3>1. \A was \in BOOLEAN : [had EXCEPT ![j] = was] \in [GJobs -> BOOLEAN]
        BY <1>0 DEF GTypeOK
      <3>2. CASE UNCHANGED had
        BY <1>0, <3>2 DEF GTypeOK
      <3>3. CASE ReadRecords(j)
        BY <3>1, <3>3, (target[j] \in recorded) \in BOOLEAN DEF ReadRecords
      <3>4. CASE HostExists(j)
        BY <3>1, <3>4 DEF HostExists
      <3> QED
        BY <3>2, <3>3, <3>4, Frames
    <2>7. given' \subseteq GJobs
      BY <1>0, Frames DEF GTypeOK, GTrack, GUntrack
    <2>8. unsure' \subseteq GJobs
      BY <1>0, Frames DEF GTypeOK, Similar, Conflict, Backup
    <2>9. forgotten' \subseteq Global
      BY <1>0, Frames DEF GTypeOK, ForgetRecord
    <2>10. GTypeOK'
      BY <2>1, <2>2, <2>3, <2>4, <2>5, <2>6, <2>7, <2>8, <2>9 DEF GTypeOK, CacheTypeOK,
         MachineTypeOK
    <2>11. OrderOK(j)'
      BY <1>0, <1>2, <2>2 DEF OrderOK, StageMoves, Installs_
    <2>12. ASSUME NEW k \in GJobs, k # j PROVE OrderOK(k)'
      BY <1>0, <2>12 DEF OrderOK, MovesAlone, Installs_, TypeInv
    <2> QED
      BY <1>0, <2>10, <2>11, <2>12 DEF TypeInv
  <1> QED
    BY <1>1, <1>2

\* So does the start of a command, whose request is typed or proposed.
LEMMA StartKeepsTypes ==
    ASSUME TypeInv, NEW j \in GJobs, NEW s \in Sessions, NEW command \in Commands_,
           NEW e \in Exts, NEW q \in Typed \cup Proposed, GStart(j, s, command, e, q)
    PROVE  TypeInv'
  <1>0. GInv /\ GTypeOK /\ MovesAlone(j) /\ GInv'
    BY StartKeepsInv, OthersKeepInv DEF TypeInv
  <1>1. q.form \in Forms /\ (q.form = "full" => q.version \in Global)
    <2>1. CASE q \in Typed
      BY <2>1, TypedAssumption DEF Forms
    <2>2. CASE q \in RecommendedPackage(scene.distro)
      <3>1. PICK p : q = ForPackageManager([form |-> "majorMinor", major |-> p[1], minor |-> p[2]])
        BY <2>2 DEF RecommendedPackage
      <3>2. q.form = "band"
        BY <3>1 DEF ForPackageManager
      <3> QED
        BY <3>2 DEF Forms
    <2>3. CASE \E v \in Recommended(scene.entries) :
                  q = [form |-> "full", major |-> v.major, minor |-> v.minor, version |-> v]
      <3>1. Recommended(scene.entries) \subseteq Global
        BY <1>0, ScenesAssumption DEF Recommended, Earliest, Available, GInv
      <3> QED
        BY <2>3, <3>1 DEF Forms
    <2> QED
      BY <2>1, <2>2, <2>3 DEF Proposed
  <1>2. /\ gpc[j] = "idle" /\ gpc'[j] = (IF command = "install" THEN "online" ELSE "lock")
        /\ order'[j].by = s /\ order'[j].command = command /\ order'[j].ext = e
               /\ order'[j].asked = q
        /\ target'[j] = IF q.form = "full" THEN q.version ELSE target[j]
        /\ command # "install" => q.form = "full"
    BY <1>0 DEF GStart, At, GInv, JobFunctions
  <1>3. target' \in [GJobs -> Global]
    BY <1>0, <1>1 DEF GStart, GTypeOK
  <1>4. gpc' \in [GJobs -> GStages]
    BY <1>0 DEF GStart, At, GTypeOK, GStages
  <1>5. before' \in [GJobs -> SUBSET GJobs]
    <2>1. {k \in GJobs : gpc[k] \in GEnded} \in SUBSET GJobs
      OBVIOUS
    <2> QED
      BY <1>0, <2>1 DEF GStart, GTypeOK
  <1>6. GTypeOK'
    BY <1>0, <1>3, <1>4, <1>5
       DEF GStart, GTypeOK, fileVars, machineVars, cacheVars, historyVars, trackerVars,
           TrackerTypeOK, webVars, WebTypeOK
  <1>7. OrderOK(j)'
    BY <1>1, <1>2 DEF OrderOK, Installs_, InstallStages, UninstallStages
  <1>8. ASSUME NEW k \in GJobs, k # j PROVE OrderOK(k)'
    BY <1>0, <1>8 DEF OrderOK, MovesAlone, Installs_, TypeInv
  <1> QED
    BY <1>0, <1>6, <1>7, <1>8 DEF TypeInv

\* The types are inductive together with the lock and the requests.
LEMMA TypeInvStep ==
    TypeInv /\ [GNext]_<<gvars, webVars, trackerVars, trackerLock>> => TypeInv'
  <1> SUFFICES ASSUME TypeInv, [GNext]_<<gvars, webVars, trackerVars, trackerLock>> PROVE TypeInv'
    OBVIOUS
  <1>1. CASE UNCHANGED <<gvars, webVars, trackerVars, trackerLock>>
    <2>1. GInv'
      BY <1>1, GInvStep DEF TypeInv
    <2> QED
      BY <1>1, <2>1
         DEF TypeInv, GTypeOK, OrderOK, Installs_, gvars, fileVars, machineVars, cacheVars,
             jobGVars, historyVars, trackerVars, TrackerTypeOK, webVars, WebTypeOK
  <1>2. CASE GNext
    BY <1>2, StepKeepsTypes, StartKeepsTypes DEF GNext, Commands_
  <1> QED
    BY <1>1, <1>2

\* They hold at the start, if the records are well-formed and there is a global SDK.
LEMMA TypeInvInit == ASSUME Global # {} PROVE TrackerTypeOK /\ GInit => TypeInv
  <1> SUFFICES ASSUME TrackerTypeOK, GInit PROVE TypeInv
    OBVIOUS
  <1>1. GInv
    BY GInvInit
  <1>2. (CHOOSE v \in Global : TRUE) \in Global
    OBVIOUS
  <1>3. listing \in [Sessions -> SUBSET (SUBSET Global)]
          /\ registry \in [Sessions -> SUBSET (SUBSET Global)]
    BY DEF GInit
  <1>4. WebTypeOK
    BY DEF GInit, WebInit, WebTypeOK
  <1>5. GTypeOK
    BY <1>2, <1>3, <1>4 DEF GInit, GTypeOK, GStages
  <1>6. \A j \in GJobs : OrderOK(j)
    BY DEF GInit, OrderOK
  <1> QED
    BY <1>1, <1>5, <1>6 DEF TypeInv

\* Types of every variable of the global commands, for any machine and index.  There
\* must be a global SDK at all, and the records they start from must be well-formed.
THEOREM GlobalTypes == ASSUME Global # {} PROVE TrackerTypeOK /\ GSpec => []GTypeOK
  <1>1. TrackerTypeOK /\ GInit => TypeInv
    BY TypeInvInit
  <1>2. TypeInv /\ [GNext]_<<gvars, webVars, trackerVars, trackerLock>> => TypeInv'
    BY TypeInvStep
  <1>3. TypeInv => GTypeOK
    BY DEF TypeInv
  <1> QED
    BY <1>1, <1>2, <1>3, PTL DEF GSpec

-----------------------------------------------------------------------------
(***************************************************************************)
(* What the histories and the caches know of the machine.  A listing kept  *)
(* by a process is wrong about an SDK only if the job that last changed it *)
(* ran in another process, or has not cleared the cache of its own: it is  *)
(* still under way, or it has failed.                                      *)
(***************************************************************************)
Uncleared == {"finish", "rerun", "backup", "rebackup", "retrack", "failed"}

Behind(k, s) == order[k].by # s \/ gpc[k] \in Uncleared

BeforeInv == \A j, k \in GJobs : k \in before[j] => gpc[k] \in GEnded
ChangedInv == \A v \in Global : changedBy[v] # Free =>
    changedBy[v] \in GJobs /\ gpc[changedBy[v]] \in After
CacheInv == \A s \in Sessions, v \in Global : \A seen \in listing[s] \cup registry[s] :
    \/ v \in seen <=> v \in sdks
    \/ changedBy[v] \in GJobs /\ Behind(changedBy[v], s)

SeenInv == BeforeInv /\ ChangedInv /\ CacheInv

\* A job that changes the machine has the lock; it clears the caches of its process
\* in the same step or has yet to do so.
LEMMA MachineMoves ==
    ASSUME TypeInv, NEW j \in GJobs, GStep(j) \/ GlobalLockTimesOut(j), gpc[j] # "idle"
    PROVE  \/ UNCHANGED machineVars
           \/ /\ \E now \in SUBSET Global : MachineBecomes(j, now)
              /\ Holding(j) /\ gpc'[j] \in After
              /\ Invalidates(j) \/ (gpc'[j] \in Uncleared /\ UNCHANGED cacheVars)
  <1>0. GTypeOK /\ OrderOK(j) /\ target[j] \in Global /\ gpc \in [GJobs -> GStages]
    BY DEF TypeInv, GTypeOK
  <1>1. SUFFICES ASSUME RunInstaller(j) \/ RunPackage(j) \/ Backup(j) \/ Packages(j)
                          \/ RunUninstaller(j),
                        ~UNCHANGED machineVars
                 PROVE  /\ Holding(j) /\ gpc'[j] \in After
                        /\ Invalidates(j) \/ (gpc'[j] \in Uncleared /\ UNCHANGED cacheVars)
    BY <1>0, MachineStays, Frames
  <1> USE DEF At, EndAt, After, Uncleared, Holding
  <1>2. CASE RunInstaller(j)
    BY <1>0, <1>1, <1>2 DEF RunInstaller, InstallerDone, RetriesElevated
  <1>3. CASE RunPackage(j)
    BY <1>0, <1>1, <1>3 DEF RunPackage, InstallerDone
  <1>4. CASE Backup(j)
    BY <1>0, <1>1, <1>4 DEF Backup, InstallerDone, RetriesElevated
  <1>5. CASE Packages(j)
    BY <1>0, <1>1, <1>5 DEF Packages, UninstallEnds
  <1>6. CASE RunUninstaller(j)
    BY <1>0, <1>1, <1>6 DEF RunUninstaller, UninstallEnds
  <1> QED
    BY <1>1, <1>2, <1>3, <1>4, <1>5, <1>6

\* Only Finish leads on from a change that was not cleared, and clears it.
LEMMA UnclearedStays ==
    ASSUME TypeInv, NEW j \in GJobs, GStep(j) \/ GlobalLockTimesOut(j), gpc[j] \in Uncleared
    PROVE  gpc'[j] \in Uncleared \/ Invalidates(j)
  <1>0. OrderOK(j) /\ gpc \in [GJobs -> GStages]
    BY DEF TypeInv, GTypeOK
  <1> USE DEF At, EndAt, Uncleared
  <1>1. WebStep(j) \/ Finish(j) \/ GTrack(j) \/ RunInstaller(j) \/ RunPackage(j) \/ Backup(j)
    BY <1>0 DEF GStep, Online, Similar, Resolve, ReadRecords, HostExists, HostMeets, SdkIsFound,
         ForgetRecord, TakeGlobalLock, Conflict, Download, Downloaded, VerifyFile,
         Packages, RunUninstaller, GUntrack, CountOwners,
         GReport, GlobalLockTimesOut
  <1>2. CASE WebStep(j)
    BY <1>2 DEF WebStep, gvars
  <1>3. CASE Finish(j)
    BY <1>3 DEF Finish
  <1>4. CASE GTrack(j)
    BY <1>0, <1>4 DEF GTrack
  <1>5. CASE RunInstaller(j)
    BY <1>0, <1>5 DEF RunInstaller, InstallerDone, RetriesElevated
  <1>6. CASE RunPackage(j)
    BY <1>0, <1>6 DEF RunPackage, InstallerDone
  <1>7. CASE Backup(j)
    BY <1>0, <1>7 DEF Backup, InstallerDone, RetriesElevated
  <1> QED
    BY <1>1, <1>2, <1>3, <1>4, <1>5, <1>6, <1>7

\* What a cache holds after a step: what it held, the machine as it is, or nothing.
LEMMA CacheMoves ==
    ASSUME TypeInv, NEW j \in GJobs, GStep(j) \/ GlobalLockTimesOut(j), gpc[j] # "idle"
    PROVE  \/ Invalidates(j)
           \/ \A s \in Sessions : \A seen \in listing'[s] \cup registry'[s] :
                 seen \in listing[s] \cup registry[s] \/ (seen = sdks /\ UNCHANGED machineVars)
  <1>0. OrderOK(j) /\ order[j].by \in Sessions /\ GTypeOK
    BY DEF TypeInv, OrderOK
  <1>1. CASE UNCHANGED cacheVars
    BY <1>1 DEF cacheVars
  <1>2. CASE HostMeets(j)
    <2>1. /\ UNCHANGED <<registry, machineVars>>
          /\ \/ UNCHANGED listing
             \/ \E seen \in Answers(listing, order[j].by) :
                   listing' = [listing EXCEPT ![order[j].by] = {seen}]
      BY <1>2 DEF HostMeets
    <2> QED
      BY <1>0, <2>1 DEF Answers, GTypeOK
  <1>3. CASE Conflict(j)
    <2>1. /\ UNCHANGED <<listing, machineVars>>
          /\ \/ UNCHANGED registry
             \/ \E seen \in Answers(registry, order[j].by) :
                   registry' = [registry EXCEPT ![order[j].by] = {seen}]
      BY <1>3 DEF Conflict
    <2> QED
      BY <1>0, <2>1 DEF Answers, GTypeOK
  <1>4. CASE Packages(j) \/ RunUninstaller(j) \/ Finish(j)
    BY <1>1, <1>4 DEF Packages, RunUninstaller, Finish, UninstallEnds, cacheVars
  <1> QED
    BY <1>1, <1>2, <1>3, <1>4, Frames

\* Caches and histories after a step of a job.
LEMMA StepKeepsSeen ==
    ASSUME TypeInv, SeenInv, NEW j \in GJobs, GStep(j) \/ GlobalLockTimesOut(j), gpc[j] # "idle"
    PROVE  SeenInv'
  <1>0. /\ GTypeOK /\ OrderOK(j) /\ MovesAlone(j) /\ StageMoves(j)
        /\ listing \in [Sessions -> SUBSET (SUBSET Global)]
        /\ registry \in [Sessions -> SUBSET (SUBSET Global)]
    BY StepKeepsInv, StepMoves DEF TypeInv, GTypeOK
  <1>1. BeforeInv'
    BY <1>0 DEF SeenInv, BeforeInv, MovesAlone, StageMoves
  <1>2. \A v \in Global : \/ changedBy'[v] = changedBy[v] /\ (v \in sdks' <=> v \in sdks)
                          \/ /\ changedBy'[v] = j /\ gpc'[j] \in After /\ ~UNCHANGED machineVars
                             /\ Invalidates(j) \/ gpc'[j] \in Uncleared
    <2>1. CASE UNCHANGED machineVars
      BY <2>1 DEF machineVars
    <2>2. CASE ~UNCHANGED machineVars
      <3>1. PICK now \in SUBSET Global : MachineBecomes(j, now)
        BY <2>2, MachineMoves
      <3> QED
        BY <2>2, <3>1, MachineMoves DEF MachineBecomes
    <2> QED
      BY <2>1, <2>2
  <1>3. ChangedInv'
    BY <1>0, <1>2 DEF SeenInv, ChangedInv, MovesAlone, StageMoves
  <1>4. CacheInv'
    <2> SUFFICES ASSUME NEW s \in Sessions, NEW v \in Global,
                        NEW seen \in listing'[s] \cup registry'[s],
                        ~(v \in seen <=> v \in sdks')
                 PROVE  changedBy'[v] \in GJobs /\ Behind(changedBy[v], s)'
      BY DEF CacheInv
    <2>1. ~(Invalidates(j) /\ order[j].by = s)
      BY <1>0 DEF Invalidates
    <2>2. CASE changedBy'[v] = j /\ (Invalidates(j) \/ gpc'[j] \in Uncleared)
      BY <1>0, <2>1, <2>2 DEF Behind, StageMoves
    <2>3. CASE changedBy'[v] = changedBy[v] /\ (v \in sdks' <=> v \in sdks)
      <3>1. seen \in listing[s] \cup registry[s]
        <4>1. CASE Invalidates(j)
          BY <1>0, <2>1, <4>1 DEF Invalidates
        <4>2. CASE ~Invalidates(j)
          BY <2>3, <4>2, CacheMoves
        <4> QED
          BY <4>1, <4>2
      <3>2. changedBy[v] \in GJobs /\ Behind(changedBy[v], s)
        BY <2>3, <3>1 DEF SeenInv, CacheInv
      <3>3. ASSUME NEW k \in GJobs, Behind(k, s) PROVE Behind(k, s)'
        <4>1. CASE k # j
          BY <1>0, <3>3, <4>1 DEF Behind, MovesAlone, StageMoves
        <4>2. CASE k = j
          BY <1>0, <2>1, <3>3, <4>2, UnclearedStays DEF Behind, StageMoves
        <4> QED
          BY <4>1, <4>2
      <3> QED
        BY <2>3, <3>2, <3>3
    <2> QED
      BY <1>2, <2>2, <2>3
  <1> QED
    BY <1>1, <1>3, <1>4 DEF SeenInv

\* A job that starts has changed nothing yet, so that no cache is behind it.
LEMMA StartKeepsSeen ==
    ASSUME TypeInv, SeenInv, NEW j \in GJobs, NEW s, NEW command, NEW e, NEW q,
           GStart(j, s, command, e, q)
    PROVE  SeenInv'
  <1>0. /\ GTypeOK /\ MovesAlone(j) /\ gpc[j] = "idle"
        /\ UNCHANGED <<sdks, changedBy, listing, registry>>
        /\ before' = [before EXCEPT ![j] = {k \in GJobs : gpc[k] \in GEnded}]
    BY StartKeepsInv DEF TypeInv, GStart, machineVars, cacheVars
  <1>1. BeforeInv'
    BY <1>0 DEF SeenInv, BeforeInv, MovesAlone, GEnded, GTypeOK
  <1>2. ChangedInv'
    BY <1>0 DEF SeenInv, ChangedInv, MovesAlone, After
  <1>3. CacheInv'
    <2>1. \A v \in Global : changedBy[v] \in GJobs => changedBy[v] # j
      BY <1>0, GlobalAssumption DEF SeenInv, ChangedInv, After
    <2> QED
      BY <1>0, <2>1 DEF SeenInv, CacheInv, Behind, MovesAlone
  <1> QED
    BY <1>1, <1>2, <1>3 DEF SeenInv

\* An idle job only hears from the web.
LEMMA IdleKeeps ==
    ASSUME NEW j \in GJobs, gpc[j] = "idle", GStep(j) \/ GlobalLockTimesOut(j)
    PROVE  UNCHANGED <<trackerVars, trackerLock, gvars>>
  BY IdleSteps DEF WebStep

\* What caches and histories know is inductive.
LEMMA SeenInvStep ==
    TypeInv /\ SeenInv /\ [GNext]_<<gvars, webVars, trackerVars, trackerLock>> => SeenInv'
  <1> SUFFICES ASSUME TypeInv, SeenInv, [GNext]_<<gvars, webVars, trackerVars, trackerLock>>
               PROVE  SeenInv'
    OBVIOUS
  <1>1. ASSUME UNCHANGED gvars PROVE SeenInv'
    BY <1>1 DEF gvars, machineVars, cacheVars, jobGVars, SeenInv, BeforeInv, ChangedInv,
       CacheInv, Behind
  <1>2. ASSUME NEW j \in GJobs, GStep(j) \/ GlobalLockTimesOut(j) PROVE SeenInv'
    BY <1>1, <1>2, IdleKeeps, StepKeepsSeen
  <1>3. ASSUME NEW j \in GJobs, NEW s, NEW command, NEW e, NEW q, GStart(j, s, command, e, q)
        PROVE  SeenInv'
    BY <1>3, StartKeepsSeen
  <1> QED
    BY <1>1, <1>2, <1>3 DEF GNext

\* At the start nothing was changed.
LEMMA SeenInvInit == GInit => SeenInv
  BY DEF GInit, SeenInv, BeforeInv, ChangedInv, CacheInv

-----------------------------------------------------------------------------
(***************************************************************************)
(* What causes are made of is there to stay.                               *)
(***************************************************************************)

\* Stages of one platform only.
PlatformOK(j) ==
    /\ gpc[j] = "packages" => Linux
    /\ gpc[j] \in {"backup", "rebackup"} => scene.platform = "darwin"

PlatformInv == \A j \in GJobs : PlatformOK(j)

\* A job stays on the platform it runs on.
LEMMA StepKeepsPlatform ==
    ASSUME TypeInv, NEW j \in GJobs, GStep(j) \/ GlobalLockTimesOut(j), PlatformOK(j)
    PROVE  PlatformOK(j)'
  <1>0. /\ gpc \in [GJobs -> GStages] /\ scene.platform \in {"win32", "darwin", "linux", "wsl"}
        /\ scene' = scene
    BY ScenesAssumption, Frames DEF TypeInv, GTypeOK
  <1> USE DEF PlatformOK, Linux, At, EndAt
  <1>1. CASE UNCHANGED gpc
    BY <1>0, <1>1
  <1>2. CASE Resolve(j) \/ TakeGlobalLock(j)
    BY <1>0, <1>2 DEF Resolve, TakeGlobalLock
  <1>3. CASE RunInstaller(j) \/ RunPackage(j) \/ Backup(j)
    BY <1>0, <1>3 DEF RunInstaller, RunPackage, Backup, InstallerDone, RetriesElevated
  <1>4. CASE Packages(j) \/ RunUninstaller(j)
    BY <1>0, <1>4 DEF Packages, RunUninstaller, UninstallEnds
  <1>5. CASE Online(j) \/ Similar(j) \/ GUntrack(j) \/ CountOwners(j)
    BY <1>0, <1>5 DEF Online, Similar, GUntrack, CountOwners, Asks
  <1>6. CASE Downloaded(j) \/ VerifyFile(j)
    BY <1>0, <1>6 DEF Downloaded, VerifyFile, Fails
  <1>7. CASE ReadRecords(j) \/ HostExists(j) \/ HostMeets(j) \/ SdkIsFound(j) \/ ForgetRecord(j)
    BY <1>0, <1>7 DEF ReadRecords, HostExists, HostMeets, SdkIsFound, ForgetRecord
  <1>8. CASE GTrack(j) \/ Conflict(j) \/ Download(j) \/ Finish(j) \/ GReport(j)
               \/ GlobalLockTimesOut(j)
    BY <1>0, <1>8 DEF GTrack, Conflict, Download, Finish, GReport, GlobalLockTimesOut
  <1> QED
    BY <1>1, <1>2, <1>3, <1>4, <1>5, <1>6, <1>7, <1>8 DEF GStep, WebStep, gvars

\* What a step of job j leaves of what is known about all of them.
Remembers(j) ==
    /\ scene' = scene /\ unsure \subseteq unsure' /\ forgotten \subseteq forgotten'
    /\ \A k \in GJobs \ {j} : gpc'[k] = gpc[k] /\ target'[k] = target[k]
    /\ \A k \in GJobs : gpc[k] # "idle" => before'[k] = before[k] /\ order'[k] = order[k]
    /\ \A k \in GJobs : gpc[k] \notin {"idle", "similar", "resolve"} => target'[k] = target[k]
    /\ \A k \in GJobs : gpc[k] \in GEnded => gpc'[k] = gpc[k]

\* Every step of a job remembers all that.
LEMMA StepRemembers ==
    ASSUME TypeInv, NEW j \in GJobs, GStep(j) \/ GlobalLockTimesOut(j)
    PROVE  Remembers(j)
  <1>1. MovesAlone(j) /\ StageMoves(j)
    BY StepKeepsInv, StepMoves DEF TypeInv
  <1>2. unsure \subseteq unsure' /\ forgotten \subseteq forgotten'
    BY Frames DEF Similar, Conflict, Backup, ForgetRecord
  <1>3. \A k \in GJobs : gpc[k] \in GEnded => gpc'[k] = gpc[k]
    BY <1>1 DEF MovesAlone, StageMoves
  <1> QED
    BY <1>1, <1>2, <1>3 DEF Remembers, MovesAlone, StageMoves

\* So does the start of one.
LEMMA StartRemembers ==
    ASSUME TypeInv, NEW j \in GJobs, NEW s, NEW command, NEW e, NEW q,
           GStart(j, s, command, e, q)
    PROVE  Remembers(j)
  <1>1. MovesAlone(j) /\ gpc[j] = "idle" /\ UNCHANGED <<unsure, forgotten>>
    BY StartKeepsInv DEF TypeInv, GStart, historyVars
  <1>2. \A k \in GJobs \ {j} : before'[k] = before[k]
    BY DEF GStart, TypeInv, GTypeOK
  <1> QED
    BY <1>1, <1>2 DEF Remembers, MovesAlone, GEnded

\* A job that left an SDK behind that a cache does not know ran beside the one that
\* asks, in another process, or failed.
LEMMA BehindCauses ==
    ASSUME BeforeInv, NEW j \in GJobs, NEW k \in GJobs, gpc[j] \notin GEnded,
           Behind(k, order[j].by)
    PROVE  \/ Overlap(j, k)
           \/ k \in before[j] /\ (order[k].by # order[j].by \/ gpc[k] = "failed")
  BY DEF BeforeInv, Behind, Overlap, Uncleared, GEnded

-----------------------------------------------------------------------------
(***************************************************************************)
(* No downgrade                                                            *)
(***************************************************************************)

\* The job has asked the registry, and goes on with the installer.
GoesOn(j) ==
    /\ gpc[j] \in {"download", "downloading", "verify", "run", "rerun"}
    /\ Installs_(j) /\ scene.platform = "win32" /\ j \notin unsure

\* Another job put SDK w there, and job j could not know.
PutBeside(j, k, w) ==
    changedBy[w] = k /\ (Overlap(j, k) \/ order[k].by # order[j].by \/ gpc[k] = "failed")

NoNewer(j) == \A w \in sdks :
    SameBand(target[j], w) /\ target[j].patch < w.patch =>
        \E k \in GJobs \ {j} : PutBeside(j, k, w)

DownInv == \A j \in GJobs : GoesOn(j) => NoNewer(j)

\* Who put an SDK beside a job is known for good.
LEMMA PutBesideStays ==
    ASSUME ChangedInv, NEW m \in GJobs, Remembers(m), NEW w \in Global,
           changedBy'[w] = changedBy[w],
           NEW j \in GJobs, NEW k \in GJobs, gpc[j] # "idle", PutBeside(j, k, w)
    PROVE  PutBeside(j, k, w)'
  <1>1. gpc[k] # "idle"
    BY GlobalAssumption DEF ChangedInv, PutBeside, After
  <1> QED
    BY <1>1 DEF Remembers, PutBeside, Overlap, GEnded

\* A job that goes on does so while the machine stays as it is.
LEMMA NoNewerStays ==
    ASSUME TypeInv, ChangedInv, NEW m \in GJobs, Remembers(m), UNCHANGED machineVars,
           NEW j \in GJobs, gpc[j] \notin {"idle", "similar", "resolve"}, NoNewer(j)
    PROVE  NoNewer(j)'
  <1>1. target'[j] = target[j] /\ sdks' = sdks /\ changedBy' = changedBy /\ sdks \subseteq Global
    BY DEF Remembers, machineVars, TypeInv, GTypeOK
  <1> QED
    BY <1>1, PutBesideStays DEF NoNewer

\* An answer of the registry without a conflict: what is newer in fact is not in it.
LEMMA ConflictFindsNewer ==
    ASSUME TypeInv, SeenInv, NEW j \in GJobs, Conflict(j), GoesOn(j)'
    PROVE  NoNewer(j)'
  <1>0. /\ order[j].by \in Sessions /\ sdks \subseteq Global /\ gpc[j] = "conflict"
        /\ target[j] \in SdkVersions /\ Global \subseteq SdkVersions
        /\ gpc \in [GJobs -> GStages]
    BY GlobalAssumption DEF Conflict, TypeInv, OrderOK, GTypeOK
  <1>1. UNCHANGED <<sdks, changedBy, target, order, before>>
    BY DEF Conflict, machineVars, jobGVars
  <1>2. PICK seen \in Answers(registry, order[j].by) :
            Conflicting(seen, target[j]) = {} /\ gpc' = [gpc EXCEPT ![j] = "download"]
    BY <1>0 DEF Conflict, GoesOn, At, EndAt
  <1>3. SUFFICES ASSUME NEW w \in sdks, SameBand(target[j], w), target[j].patch < w.patch
                 PROVE  \E k \in GJobs \ {j} : PutBeside(j, k, w)'
    BY <1>1 DEF NoNewer
  <1>4. target[j].patch \in Int /\ w.patch \in Int
    BY <1>0 DEF SdkVersions
  <1>5. w \notin seen
    BY <1>2, <1>3, <1>4 DEF Conflicting
  <1>6. PICK k \in GJobs : changedBy[w] = k /\ Behind(k, order[j].by)
    BY <1>0, <1>2, <1>5 DEF SeenInv, CacheInv, Answers
  <1>7. gpc[k] \in After
    BY <1>0, <1>6, GlobalAssumption DEF SeenInv, ChangedInv
  <1>8. k # j
    BY <1>0, <1>7 DEF After
  <1>9. PutBeside(j, k, w)
    BY <1>0, <1>6, BehindCauses DEF SeenInv, PutBeside, GEnded
  <1>10. PutBeside(j, k, w)'
    BY <1>0, <1>1, <1>2, <1>8, <1>9 DEF PutBeside, Overlap
  <1> QED
    BY <1>8, <1>10

\* Only an answer of the registry leads there.
LEMMA GoesOnAfterConflict ==
    ASSUME TypeInv, NEW j \in GJobs, PlatformOK(j), GStep(j) \/ GlobalLockTimesOut(j), GoesOn(j)'
    PROVE  Conflict(j) \/ (GoesOn(j) /\ UNCHANGED machineVars)
  <1>0. /\ gpc \in [GJobs -> GStages] /\ scene' = scene /\ order' = order
        /\ unsure \subseteq unsure'
        /\ scene.platform = "win32" /\ Installs_(j) /\ j \notin unsure
        /\ gpc'[j] \in {"download", "downloading", "verify", "run", "rerun"}
    BY Frames, StepRemembers, StepMoves DEF TypeInv, GTypeOK, GoesOn, Installs_, Remembers,
       StageMoves
  <1> USE DEF At, EndAt, Linux
  <1>1. CASE WebStep(j)
    BY <1>0, <1>1 DEF WebStep, gvars, machineVars, GoesOn
  <1>2. CASE Download(j) \/ Downloaded(j) \/ VerifyFile(j)
    BY <1>0, <1>2 DEF Download, Downloaded, VerifyFile, GoesOn
  <1>3. CASE RunInstaller(j)
    BY <1>0, <1>3 DEF RunInstaller, InstallerDone, RetriesElevated, GoesOn
  <1>4. CASE RunPackage(j) \/ Backup(j)
    BY <1>0, <1>4 DEF RunPackage, Backup, PlatformOK
  <1>5. CASE Packages(j) \/ RunUninstaller(j)
    BY <1>0, <1>5 DEF Packages, RunUninstaller, PlatformOK
  <1>6. CASE Resolve(j) \/ TakeGlobalLock(j) \/ Online(j) \/ Similar(j) \/ GUntrack(j)
               \/ CountOwners(j)
    BY <1>0, <1>6 DEF Resolve, TakeGlobalLock, Online, Similar, GUntrack, CountOwners, Asks
  <1>7. CASE ReadRecords(j) \/ HostExists(j) \/ HostMeets(j) \/ SdkIsFound(j) \/ ForgetRecord(j)
    BY <1>0, <1>7 DEF ReadRecords, HostExists, HostMeets, SdkIsFound, ForgetRecord
  <1>8. CASE GTrack(j) \/ Finish(j) \/ GReport(j) \/ GlobalLockTimesOut(j)
    BY <1>0, <1>8 DEF GTrack, Finish, GReport, GlobalLockTimesOut
  <1> QED
    BY <1>1, <1>2, <1>3, <1>4, <1>5, <1>6, <1>7, <1>8 DEF GStep

KnownInv == TypeInv /\ SeenInv /\ PlatformInv /\ DownInv

\* The machine does not change under a job with the lock, but by its own steps.
LEMMA StepKeepsDown ==
    ASSUME KnownInv, NEW m \in GJobs, gpc[m] # "idle", GStep(m) \/ GlobalLockTimesOut(m)
    PROVE  DownInv'
  <1>0. TypeInv /\ SeenInv /\ ChangedInv /\ PlatformOK(m) /\ DownInv /\ Remembers(m)
    BY StepRemembers DEF KnownInv, SeenInv, PlatformInv
  <1> SUFFICES ASSUME NEW j \in GJobs, GoesOn(j)' PROVE NoNewer(j)'
    BY DEF DownInv
  <1>1. CASE j = m
    <2>1. CASE Conflict(j)
      BY <1>0, <2>1, ConflictFindsNewer
    <2>2. CASE GoesOn(j) /\ UNCHANGED machineVars
      BY <1>0, <2>2, NoNewerStays DEF DownInv, GoesOn
    <2> QED
      BY <1>0, <1>1, <2>1, <2>2, GoesOnAfterConflict
  <1>2. CASE j # m
    <2>1. GoesOn(j)
      BY <1>0, <1>2 DEF GoesOn, Remembers, Installs_
    <2>2. globalLock = j
      BY <1>0, <2>1 DEF GoesOn, Holding, TypeInv, GInv, JobInv
    <2>3. UNCHANGED machineVars
      BY <1>0, <1>2, <2>2, MachineMoves DEF TypeInv, GInv, JobInv
    <2> QED
      BY <1>0, <2>1, <2>3, NoNewerStays DEF DownInv, GoesOn
  <1> QED
    BY <1>1, <1>2

\* A command that starts does not go on with an installer.
LEMMA StartKeepsDown ==
    ASSUME KnownInv, NEW m \in GJobs, NEW s, NEW command, NEW e, NEW q, GStart(m, s, command, e, q)
    PROVE  DownInv' /\ PlatformInv'
  <1>0. TypeInv /\ ChangedInv /\ DownInv /\ PlatformInv /\ Remembers(m)
    BY StartRemembers DEF KnownInv, SeenInv
  <1>1. /\ UNCHANGED machineVars /\ gpc'[m] \in {"online", "lock"}
        /\ \A j \in GJobs \ {m} : gpc'[j] = gpc[j] /\ order'[j] = order[j]
    BY <1>0, StartKeepsInv DEF GStart, At, TypeInv, GTypeOK, MovesAlone
  <1>2. \A j \in GJobs : GoesOn(j)' => GoesOn(j)
    BY <1>0, <1>1 DEF GoesOn, Remembers, Installs_
  <1>3. DownInv'
    BY <1>0, <1>1, <1>2, NoNewerStays DEF DownInv, GoesOn
  <1>4. PlatformInv'
    BY <1>0, <1>1 DEF PlatformInv, PlatformOK, Remembers, Linux
  <1> QED
    BY <1>3, <1>4

\* Types, caches, platforms and the answer of the registry are inductive together.
LEMMA KnownInvStep ==
    KnownInv /\ [GNext]_<<gvars, webVars, trackerVars, trackerLock>> => KnownInv'
  <1> SUFFICES ASSUME KnownInv, [GNext]_<<gvars, webVars, trackerVars, trackerLock>>
               PROVE  KnownInv'
    OBVIOUS
  <1>1. TypeInv' /\ SeenInv'
    BY TypeInvStep, SeenInvStep DEF KnownInv
  <1>2. ASSUME UNCHANGED gvars PROVE DownInv' /\ PlatformInv'
    BY <1>2 DEF gvars, machineVars, jobGVars, historyVars, KnownInv, PlatformInv, PlatformOK, Linux,
         DownInv, GoesOn, NoNewer, PutBeside, Overlap, Installs_
  <1>3. ASSUME NEW j \in GJobs, GStep(j) \/ GlobalLockTimesOut(j) PROVE DownInv' /\ PlatformInv'
    <2>1. CASE gpc[j] = "idle"
      BY <1>2, <1>3, <2>1, IdleKeeps
    <2>2. CASE gpc[j] # "idle"
      <3>1. DownInv'
        BY <1>3, <2>2, StepKeepsDown
      <3>2. ASSUME NEW k \in GJobs PROVE PlatformOK(k)'
        <4>1. CASE k = j
          BY <1>3, <4>1, StepKeepsPlatform DEF KnownInv, PlatformInv
        <4>2. CASE k # j
          BY <1>3, <4>2, StepRemembers DEF KnownInv, PlatformInv, PlatformOK, Remembers, Linux
        <4> QED
          BY <4>1, <4>2
      <3> QED
        BY <3>1, <3>2 DEF PlatformInv
    <2> QED
      BY <2>1, <2>2
  <1>4. ASSUME NEW j \in GJobs, NEW s, NEW command, NEW e, NEW q, GStart(j, s, command, e, q)
        PROVE  DownInv' /\ PlatformInv'
    BY <1>4, StartKeepsDown
  <1>5. DownInv' /\ PlatformInv'
    BY <1>2, <1>3, <1>4 DEF GNext
  <1> QED
    BY <1>1, <1>5 DEF KnownInv

\* They hold at the start.
LEMMA KnownInvInit == ASSUME Global # {} PROVE TrackerTypeOK /\ GInit => KnownInv
  <1>1. GInit => DownInv /\ PlatformInv
    BY DEF GInit, DownInv, GoesOn, PlatformInv, PlatformOK
  <1> QED
    BY <1>1, TypeInvInit, SeenInvInit DEF KnownInv

\* An installer that runs belongs to a job that went on.
LEMMA KnownCauses == KnownInv => NoDowngradeCauses
  BY DEF KnownInv, DownInv, GoesOn, NoNewer, PutBeside, NoDowngradeCauses

\* GlobalWindowsInstallWithConflictingVersionAlreadyExists keeps Windows from getting
\* an older SDK of a band, but for a newer one that its cached answer could not show.
THEOREM NoDowngrade ==
    ASSUME Global # {} PROVE TrackerTypeOK /\ GSpec => []NoDowngradeCauses
  <1>1. TrackerTypeOK /\ GInit => KnownInv
    BY KnownInvInit
  <1>2. KnownInv /\ [GNext]_<<gvars, webVars, trackerVars, trackerLock>> => KnownInv'
    BY KnownInvStep
  <1>3. KnownInv => NoDowngradeCauses
    BY KnownCauses
  <1> QED
    BY <1>1, <1>2, <1>3, PTL DEF GSpec

-----------------------------------------------------------------------------
(***************************************************************************)
(* Owners.  A job that handed out an SDK has its extension in the record,  *)
(* or the record was dropped: as vanished, or by an uninstallation beside  *)
(* it.                                                                     *)
(***************************************************************************)
Kept(j) == target[j] \in recorded /\ order[j].ext \in owners[target[j]]

ExcusedOwn(j) == target[j] \in forgotten \/ \E k \in GJobs : LostOwner(j, k)

\* The stages of an uninstallation that goes through with it.
Past == {"resolve", "download", "downloading", "verify", "run", "packages", "report"}

Uninstalls(k) == gpc[k] \in Past /\ ~Installs_(k)

\* A job that handed out the SDK that job k is to uninstall, before k was started.
GivenBefore(j, k) == j \in given /\ j \in before[k] /\ target[j] = target[k]

OwnInv == \A j \in given : gpc[j] = "done" /\ Installs_(j) /\ (Kept(j) \/ ExcusedOwn(j))

CountInv == \A j, k \in GJobs :
    gpc[k] = "count" /\ GivenBefore(j, k) => order[j].ext # order[k].ext

PastInv == \A j, k \in GJobs : Uninstalls(k) /\ GivenBefore(j, k) => ExcusedOwn(j)

TracksBeside(k, e) ==
    \E m \in GJobs : order[m].command = "install" /\ order[m].ext = e /\ Overlap(k, m)

OwnersInv == \A k \in GJobs :
    Uninstalls(k) /\ gpc[k] # "report" /\ order[k].command = "uninstall" =>
        \A e \in owners[target[k]] \ {order[k].ext} : TracksBeside(k, e)

OwnerInv == OwnInv /\ CountInv /\ PastInv /\ OwnersInv

\* An excuse is one for good.
LEMMA ExcusedStays ==
    ASSUME NEW m \in GJobs, Remembers(m), NEW j \in GJobs,
           gpc[j] \notin {"idle", "similar", "resolve"}, ExcusedOwn(j)
    PROVE  ExcusedOwn(j)'
  <1>1. CASE target[j] \in forgotten
    BY <1>1 DEF ExcusedOwn, Remembers
  <1>2. ASSUME NEW k \in GJobs, LostOwner(j, k) PROVE LostOwner(j, k)'
    BY <1>2 DEF LostOwner, Remembers, Overlap, Installs_, GEnded
  <1> QED
    BY <1>1, <1>2 DEF ExcusedOwn

\* Where a job that goes through with an uninstallation comes from.
LEMMA PastMoves ==
    ASSUME TypeInv, NEW k \in GJobs, GStep(k) \/ GlobalLockTimesOut(k), Uninstalls(k)'
    PROVE  \/ Uninstalls(k) /\ UNCHANGED <<given, owners, recorded>> /\ gpc[k] # "report"
           \/ Uninstalls(k) /\ UNCHANGED <<given, owners, recorded, gpc>>
           \/ GUntrack(k) /\ order[k].command = "force"
           \/ CountOwners(k) /\ NoRegisteredDependents(target[k], order[k].ext)
                             /\ UNCHANGED <<given, owners, recorded>>
  <1>0. /\ gpc \in [GJobs -> GStages] /\ OrderOK(k) /\ StageMoves(k) /\ ~Installs_(k)
        /\ gpc'[k] \in Past
    BY StepMoves DEF TypeInv, GTypeOK, Uninstalls, Installs_, StageMoves
  <1> USE DEF At, EndAt, OrderOK, InstallStages, UninstallStages, Past, Uninstalls, historyVars,
              trackerVars
  <1>1. CASE WebStep(k)
    BY <1>0, <1>1 DEF WebStep, gvars
  <1>2. CASE Resolve(k) \/ Download(k) \/ Downloaded(k) \/ VerifyFile(k)
    BY <1>0, <1>2 DEF Resolve, Download, Downloaded, VerifyFile
  <1>3. CASE Packages(k) \/ RunUninstaller(k)
    BY <1>0, <1>3 DEF Packages, RunUninstaller
  <1>4. CASE GUntrack(k)
    BY <1>0, <1>4 DEF GUntrack
  <1>5. CASE CountOwners(k)
    BY <1>0, <1>5 DEF CountOwners
  <1>6. CASE GReport(k) \/ GTrack(k) \/ TakeGlobalLock(k) \/ GlobalLockTimesOut(k)
    BY <1>0, <1>6 DEF GReport, GTrack, TakeGlobalLock, GlobalLockTimesOut
  <1>7. CASE RunInstaller(k) \/ RunPackage(k) \/ Backup(k) \/ Finish(k) \/ Conflict(k)
    BY <1>0, <1>7 DEF RunInstaller, RunPackage, Backup, Finish, Conflict
  <1>8. CASE Online(k) \/ Similar(k) \/ ReadRecords(k) \/ HostExists(k) \/ HostMeets(k)
             \/ SdkIsFound(k) \/ ForgetRecord(k)
    BY <1>0, <1>8 DEF Online, Similar, ReadRecords, HostExists, HostMeets, SdkIsFound, ForgetRecord
  <1> QED
    BY <1>1, <1>2, <1>3, <1>4, <1>5, <1>6, <1>7, <1>8 DEF GStep

\* The SDK an uninstallation goes for is the one it was asked for.
LEMMA UninstallTarget ==
    ASSUME TypeInv, NEW m \in GJobs, GStep(m) \/ GlobalLockTimesOut(m), gpc[m] # "idle",
           NEW k \in GJobs, gpc[k] # "idle", ~Installs_(k)
    PROVE  target'[k] = target[k] /\ ~Installs_(k)' /\ order'[k] = order[k]
  <1>1. GInv /\ GTypeOK /\ OrderOK(m) /\ Remembers(m) /\ order'[k] = order[k]
    BY StepRemembers DEF TypeInv, Remembers
  <1>2. CASE k = m
    BY <1>1, <1>2, TargetTypes DEF Installs_
  <1>3. CASE k # m
    BY <1>1, <1>3 DEF Remembers, Installs_
  <1> QED
    BY <1>2, <1>3

\* A record with its owner goes only by an excuse.
LEMMA StepKeepsOwn ==
    ASSUME TypeInv, BeforeInv, OwnInv, PastInv, NEW m \in GJobs, gpc[m] # "idle",
           GStep(m) \/ GlobalLockTimesOut(m)
    PROVE  OwnInv'
  <1>0. /\ Remembers(m) /\ OrderOK(m) /\ given \subseteq GJobs /\ target \in [GJobs -> Global]
        /\ Global \subseteq Installs /\ owners \in [Installs -> SUBSET Exts]
        /\ gpc \in [GJobs -> GStages]
    BY StepRemembers DEF TypeInv, GTypeOK, TrackerTypeOK, Global
  <1>1. \A j \in given : /\ j \in GJobs /\ gpc'[j] = "done" /\ order'[j] = order[j]
                         /\ target'[j] = target[j] /\ Installs_(j)'
    BY <1>0 DEF OwnInv, Remembers, GEnded, Installs_
  <1>2. ASSUME NEW j \in given, j \in given' PROVE Kept(j)' \/ ExcusedOwn(j)'
    <2>1. CASE ExcusedOwn(j)
      BY <1>0, <2>1, ExcusedStays DEF OwnInv
    <2>2. CASE Kept(j) /\ UNCHANGED trackerVars
      BY <1>1, <2>2 DEF Kept, trackerVars
    <2>3. CASE Kept(j) /\ ForgetRecord(m)
      BY <1>0, <1>1, <2>3 DEF Kept, ForgetRecord, DropRecord, ExcusedOwn
    <2>4. CASE Kept(j) /\ GTrack(m)
      BY <1>0, <1>1, <2>4 DEF Kept, GTrack, Track
    <2>5. CASE Kept(j) /\ GUntrack(m)
      BY <1>0, <1>1, <1>2, <2>5 DEF Kept, GUntrack, Untrack, DropRecord
    <2>6. CASE Kept(j) /\ GReport(m)
      <3>1. CASE target[j] # target[m]
        BY <1>0, <1>1, <2>6, <3>1 DEF Kept, GReport, DropRecord
      <3>2. CASE target[j] = target[m] /\ j \in before[m]
        <4>1. Uninstalls(m) /\ GivenBefore(j, m)
          BY <1>0, <2>6, <3>2 DEF Uninstalls, Past, GReport, GivenBefore, OrderOK, UninstallStages
        <4> QED
          BY <1>0, <4>1, <2>1, <1>1 DEF PastInv
      <3>3. CASE target[j] = target[m] /\ j \notin before[m]
        <4>1. m \notin before[j] /\ ~Installs_(m)
          BY <1>0, <1>1, <2>6 DEF BeforeInv, GReport, GEnded, OrderOK, UninstallStages
        <4>2. gpc'[m] = "done" /\ target' = target /\ order'[m] = order[m] /\ UNCHANGED before
          BY <1>0, <2>6 DEF GReport, EndAt, At, jobGVars
        <4>3. LostOwner(j, m)'
          BY <1>1, <3>3, <4>1, <4>2 DEF LostOwner, Overlap, Installs_
        <4> QED
          BY <4>3 DEF ExcusedOwn
      <3> QED
        BY <3>1, <3>2, <3>3
    <2> QED
      BY <2>1, <2>2, <2>3, <2>4, <2>5, <2>6, Frames DEF OwnInv
  <1>3. ASSUME NEW j \in given', j \notin given
        PROVE  gpc'[j] = "done" /\ Installs_(j)' /\ Kept(j)'
    <2>1. j = m /\ GTrack(m) /\ gpc[m] = "track" /\ host
      BY <1>3, Frames DEF GTrack, GUntrack
    <2> QED
      BY <1>0, <2>1 DEF GTrack, EndAt, At, Track, Kept, jobGVars, OrderOK, InstallStages, Installs_
  <1> QED
    BY <1>1, <1>2, <1>3 DEF OwnInv

\* Nothing new is handed out before a job that has started.
LEMMA GivenBeforeStays ==
    ASSUME TypeInv, BeforeInv, OwnInv, NEW m \in GJobs, GStep(m) \/ GlobalLockTimesOut(m),
           NEW j \in GJobs, NEW k \in GJobs, gpc[k] # "idle", target'[k] = target[k],
           GivenBefore(j, k)'
    PROVE  GivenBefore(j, k) /\ order'[j] = order[j]
  <1>1. Remembers(m)
    BY StepRemembers
  <1>2. j \in before[k] /\ gpc[j] \in GEnded
    BY <1>1 DEF Remembers, GivenBefore, BeforeInv
  <1>3. j \in given
    BY <1>2, Frames DEF GivenBefore, GTrack, GUntrack, GEnded
  <1> QED
    BY <1>1, <1>2, <1>3 DEF Remembers, GivenBefore, GEnded

\* Only a removal from the owners leads to their count.
LEMMA CountIsNext ==
    ASSUME TypeInv, NEW m \in GJobs, GStep(m) \/ GlobalLockTimesOut(m),
           gpc'[m] = "count", gpc[m] # "count"
    PROVE  GUntrack(m) /\ order[m].command # "force"
  <1>0. /\ gpc \in [GJobs -> GStages] /\ order[m].command = "uninstall" /\ ~Installs_(m)
        /\ scene.platform \in {"win32", "darwin", "linux", "wsl"}
    BY StepMoves, ScenesAssumption DEF TypeInv, GTypeOK, StageMoves, Installs_
  <1> USE DEF At, EndAt, Linux
  <1>1. CASE WebStep(m)
    BY <1>0, <1>1 DEF WebStep, gvars
  <1>2. CASE Resolve(m) \/ TakeGlobalLock(m) \/ CountOwners(m)
    BY <1>0, <1>2 DEF Resolve, TakeGlobalLock, CountOwners
  <1>3. CASE Packages(m) \/ RunUninstaller(m)
    BY <1>0, <1>3 DEF Packages, RunUninstaller, UninstallEnds
  <1>4. CASE Download(m) \/ Downloaded(m) \/ VerifyFile(m) \/ Conflict(m)
    BY <1>0, <1>4 DEF Download, Downloaded, VerifyFile, Conflict, Fails
  <1>5. CASE RunInstaller(m) \/ RunPackage(m) \/ Backup(m)
    BY <1>0, <1>5 DEF RunInstaller, RunPackage, Backup, InstallerDone, RetriesElevated
  <1>6. CASE GTrack(m) \/ Finish(m) \/ GReport(m) \/ GlobalLockTimesOut(m)
    BY <1>0, <1>6 DEF GTrack, Finish, GReport, GlobalLockTimesOut
  <1>7. CASE Online(m) \/ Similar(m) \/ ReadRecords(m) \/ HostExists(m) \/ HostMeets(m)
             \/ SdkIsFound(m) \/ ForgetRecord(m)
    BY <1>0, <1>7 DEF Online, Similar, ReadRecords, HostExists, HostMeets, SdkIsFound, ForgetRecord,
         Asks
  <1> QED
    BY <1>0, <1>1, <1>2, <1>3, <1>4, <1>5, <1>6, <1>7 DEF GStep

\* Whoever counts the owners is no owner any more, and nor is an earlier job of its extension.
LEMMA StepKeepsCount ==
    ASSUME TypeInv, BeforeInv, OwnInv, CountInv, NEW m \in GJobs, gpc[m] # "idle",
           GStep(m) \/ GlobalLockTimesOut(m)
    PROVE  CountInv'
  <1>0. Remembers(m) /\ gpc \in [GJobs -> GStages]
    BY StepRemembers DEF TypeInv, GTypeOK
  <1> SUFFICES ASSUME NEW j \in GJobs, NEW k \in GJobs, gpc'[k] = "count", GivenBefore(j, k)'
               PROVE  order'[j].ext # order'[k].ext
    BY DEF CountInv
  <1>1. CASE gpc[k] = "count"
    BY <1>0, <1>1, GivenBeforeStays DEF CountInv, Remembers
  <1>2. CASE gpc[k] # "count"
    <2>1. k = m
      BY <1>0, <1>2 DEF Remembers
    <2>2. GUntrack(m) /\ order[m].command # "force"
      BY <1>0, <1>2, <2>1, CountIsNext
    <2>3. UNCHANGED <<order, target>> /\ gpc[m] = "untrack"
      BY <2>2 DEF GUntrack, jobGVars
    <2>4. GivenBefore(j, m) /\ j \in given'
      BY <2>1, <2>3, GivenBeforeStays DEF GivenBefore
    <2> QED
      BY <2>1, <2>2, <2>3, <2>4 DEF GUntrack, GivenBefore
  <1> QED
    BY <1>1, <1>2

\* Who goes through with an uninstallation has found no owner, or is forced.
LEMMA StepKeepsPast ==
    ASSUME TypeInv, BeforeInv, OwnerInv, NEW m \in GJobs, gpc[m] # "idle",
           GStep(m) \/ GlobalLockTimesOut(m)
    PROVE  PastInv'
  <1>0. Remembers(m) /\ OwnInv /\ CountInv /\ PastInv
    BY StepRemembers DEF OwnerInv
  <1> SUFFICES ASSUME NEW j \in GJobs, NEW k \in GJobs, Uninstalls(k)', GivenBefore(j, k)'
               PROVE  ExcusedOwn(j)'
    BY DEF PastInv
  <1>1. gpc[k] # "idle"
    BY <1>0, IdleSteps, StartKeepsInv, StepMoves
       DEF Uninstalls, Past, Remembers, StageMoves, TypeInv
  <1>2. ~Installs_(k) /\ target'[k] = target[k] /\ order'[k] = order[k]
    <2>1. order'[k] = order[k]
      BY <1>0, <1>1 DEF Remembers
    <2> QED
      BY <1>1, <2>1, UninstallTarget DEF Uninstalls, Installs_
  <1>3. GivenBefore(j, k) /\ gpc[j] = "done"
    BY <1>0, <1>1, <1>2, GivenBeforeStays DEF OwnInv, GivenBefore
  <1>4. ExcusedOwn(j) => ExcusedOwn(j)'
    BY <1>0, <1>3, ExcusedStays
  <1>5. CASE Uninstalls(k)
    BY <1>0, <1>3, <1>4, <1>5 DEF PastInv
  <1>6. CASE ~Uninstalls(k)
    <2>1. k = m
      BY <1>0, <1>2, <1>6 DEF Uninstalls, Remembers, Installs_
    <2>2. CASE GUntrack(m) /\ order[m].command = "force"
      BY <1>2, <1>3, <2>1, <2>2 DEF GUntrack, GivenBefore, jobGVars
    <2>3. CASE CountOwners(m) /\ NoRegisteredDependents(target[m], order[m].ext)
      <3>1. order[j].ext # order[m].ext
        BY <1>0, <1>3, <2>1, <2>3 DEF CountInv, CountOwners
      <3>2. ~Kept(j)
        BY <1>3, <2>1, <2>3, <3>1 DEF Kept, NoRegisteredDependents, GivenBefore
      <3> QED
        BY <1>0, <1>3, <1>4, <3>2 DEF OwnInv, GivenBefore
    <2> QED
      BY <1>6, <2>1, <2>2, <2>3, PastMoves
  <1> QED
    BY <1>5, <1>6

\* An owner that comes after the count tracks the SDK beside the uninstallation.
LEMMA StepKeepsOwners ==
    ASSUME TypeInv, BeforeInv, OwnersInv, NEW m \in GJobs, gpc[m] # "idle",
           GStep(m) \/ GlobalLockTimesOut(m)
    PROVE  OwnersInv'
  <1>0. /\ Remembers(m) /\ OrderOK(m) /\ gpc \in [GJobs -> GStages] /\ TrackerTypeOK
        /\ target \in [GJobs -> Global] /\ Global \subseteq Installs
    BY StepRemembers DEF TypeInv, GTypeOK, Global
  <1> SUFFICES ASSUME NEW k \in GJobs, Uninstalls(k)', gpc'[k] # "report",
                      order'[k].command = "uninstall",
                      NEW e \in owners'[target'[k]] \ {order'[k].ext}
               PROVE  TracksBeside(k, e)'
    BY DEF OwnersInv
  <1>1. gpc[k] # "idle"
    BY <1>0, StepMoves DEF Uninstalls, Past, Remembers, StageMoves, TypeInv
  <1>2. /\ ~Installs_(k) /\ target'[k] = target[k] /\ order'[k] = order[k]
        /\ order[k].command = "uninstall"
    <2>1. order'[k] = order[k]
      BY <1>0, <1>1 DEF Remembers
    <2> QED
      BY <1>1, <2>1, UninstallTarget DEF Uninstalls, Installs_
  <1>3. ASSUME NEW n \in GJobs, order[n].command = "install", order[n].ext = e, Overlap(k, n)
        PROVE  TracksBeside(k, e)'
    <2>1. gpc[n] # "idle"
      BY <1>3 DEF TypeInv, OrderOK
    <2> QED
      BY <1>0, <1>1, <1>3, <2>1 DEF TracksBeside, Remembers, Overlap
  <1>4. CASE Uninstalls(k) /\ gpc[k] # "report" /\ owners'[target[k]] \subseteq owners[target[k]]
    BY <1>2, <1>3, <1>4 DEF OwnersInv, TracksBeside
  <1>5. CASE Uninstalls(k) /\ gpc[k] # "report" /\ ~(owners'[target[k]] \subseteq owners[target[k]])
    <2>1. GTrack(m) /\ host
      <3>1. GTrack(m)
        BY <1>0, <1>5, Frames
           DEF trackerVars, ForgetRecord, GUntrack, GReport, DropRecord, Untrack, TrackerTypeOK
      <3> QED
        BY <1>5, <3>1 DEF GTrack
    <2>2. \A x : x \in owners'[target[k]] => x \in owners[target[k]] \/ x = order[m].ext
      BY <1>0, <2>1 DEF GTrack, Track, TrackerTypeOK
    <2>3. CASE e \in owners[target[k]]
      BY <1>2, <1>3, <1>5, <2>3 DEF OwnersInv, TracksBeside
    <2>4. CASE e = order[m].ext /\ gpc[m] = "track"
      <3>1. Installs_(m) /\ Overlap(k, m)
        BY <1>0, <1>5, <2>4 DEF OrderOK, InstallStages, BeforeInv, Overlap, GEnded, Uninstalls, Past
      <3> QED
        BY <1>3, <2>4, <3>1 DEF Installs_
    <2>5. CASE gpc[m] = "retrack"
      <3>1. Holding(m) /\ Holding(k) /\ k # m
        BY <1>0, <1>5, <2>5 DEF Holding, Uninstalls, Past, OrderOK, UninstallStages
      <3> QED
        BY <3>1 DEF TypeInv, GInv, JobInv
    <2> QED
      BY <1>2, <2>1, <2>2, <2>3, <2>4, <2>5 DEF GTrack
  <1>6. CASE ~Uninstalls(k) \/ gpc[k] = "report"
    <2>1. k = m
      BY <1>0, <1>2, <1>6 DEF Uninstalls, Remembers, Installs_
    <2>2. CountOwners(m) /\ NoRegisteredDependents(target[m], order[m].ext) /\ UNCHANGED owners
      BY <1>2, <1>6, <2>1, PastMoves DEF GUntrack
    <2>3. owners[target[m]] \subseteq {order[m].ext}
      BY <1>0, <2>2 DEF NoRegisteredDependents, TrackerTypeOK
    <2> QED
      BY <1>2, <2>1, <2>2, <2>3
  <1> QED
    BY <1>4, <1>5, <1>6

-----------------------------------------------------------------------------
(***************************************************************************)
(* An SDK that was found, or put there, is on the machine but for causes.  *)
(***************************************************************************)
Found(j) == gpc[j] \in {"finish", "track"} \/ j \in given

FoundInv == \A j \in GJobs : Found(j) => target[j] \in sdks \/ MayHaveLost(j)

FullInv == KnownInv /\ OwnerInv /\ FoundInv

\* Causes stay as long as nobody else changes whether the SDK is there.
LEMMA LostStays ==
    ASSUME ChangedInv, NEW m \in GJobs, Remembers(m), NEW j \in GJobs,
           gpc[j] \notin {"idle", "similar", "resolve"}, target[j] \in Global,
           changedBy'[target[j]] = changedBy[target[j]], MayHaveLost(j)
    PROVE  MayHaveLost(j)'
  <1>1. target'[j] = target[j] /\ order'[j] = order[j] /\ before'[j] = before[j]
    BY DEF Remembers
  <1>2. CASE Linux \/ j \in unsure \/ target[j] \in forgotten
    BY <1>1, <1>2 DEF MayHaveLost, Linux, Remembers
  <1>3. ASSUME NEW k \in GJobs \ {j}, LostOwner(j, k) PROVE MayHaveLost(j)'
    <2>1. LostOwner(j, k)'
      BY <1>1, <1>3 DEF LostOwner, Remembers, Overlap, Installs_, GEnded
    <2> QED
      BY <2>1 DEF MayHaveLost
  <1>4. ASSUME NEW k \in GJobs \ {j}, changedBy[target[j]] = k,
               \/ Overlap(j, k) \/ Installs_(k)
               \/ k \in before[j] /\ (order[k].by # order[j].by \/ gpc[k] = "failed")
        PROVE  MayHaveLost(j)'
    <2>1. gpc[k] # "idle"
      BY <1>4, GlobalAssumption DEF ChangedInv, After
    <2>2. order'[k] = order[k] /\ before'[k] = before[k]
            /\ (gpc[k] = "failed" => gpc'[k] = "failed")
      BY <2>1 DEF Remembers, GEnded
    <2>3. /\ changedBy'[target'[j]] = k
          /\ \/ Overlap(j, k)' \/ Installs_(k)'
             \/ k \in before'[j] /\ (order'[k].by # order'[j].by \/ gpc'[k] = "failed")
      BY <1>1, <1>4, <2>2 DEF Overlap, Installs_
    <2> QED
      BY <2>3 DEF MayHaveLost
  <1> QED
    BY <1>2, <1>3, <1>4 DEF MayHaveLost

\* A cache that shows an SDK: it is there, or there is a cause.
LEMMA SeenCauses ==
    ASSUME TypeInv, SeenInv, NEW j \in GJobs, gpc[j] \notin After \cup {"idle"},
           NEW seen \in Answers(listing, order[j].by) \cup Answers(registry, order[j].by),
           target[j] \in seen
    PROVE  target[j] \in sdks \/ MayHaveLost(j)
  <1>0. order[j].by \in Sessions /\ target[j] \in Global
    BY DEF TypeInv, OrderOK, GTypeOK
  <1>1. CASE seen = sdks
    BY <1>1
  <1>2. CASE seen # sdks /\ target[j] \notin sdks
    <2>1. PICK k \in GJobs : changedBy[target[j]] = k /\ Behind(k, order[j].by)
      BY <1>0, <1>2 DEF SeenInv, CacheInv, Answers
    <2>2. gpc[k] \in After
      BY <1>0, <2>1, GlobalAssumption DEF SeenInv, ChangedInv
    <2>3. k # j
      BY <2>2
    <2>4. Overlap(j, k) \/ (k \in before[j] /\ (order[k].by # order[j].by \/ gpc[k] = "failed"))
      BY <2>1, BehindCauses DEF SeenInv, GEnded, After
    <2> QED
      BY <2>1, <2>3, <2>4 DEF MayHaveLost
  <1> QED
    BY <1>1, <1>2

\* What an uninstallation away from Linux takes is the SDK it was asked for.
LEMMA RemovesTarget ==
    ASSUME TypeInv, NEW m \in GJobs, PlatformOK(m), GStep(m) \/ GlobalLockTimesOut(m),
           gpc[m] # "idle",
           ~Linux, ~Installs_(m), NEW v \in sdks, v \notin sdks'
    PROVE  v = target[m] /\ Uninstalls(m)
  <1>1. /\ RunInstaller(m) \/ RunPackage(m) \/ Backup(m) \/ Packages(m) \/ RunUninstaller(m)
        /\ OrderOK(m)
    BY Frames DEF machineVars, TypeInv
  <1>2. RunUninstaller(m)
    BY <1>1 DEF RunInstaller, RunPackage, Backup, Packages, PlatformOK, OrderOK, InstallStages
  <1> QED
    BY <1>2 DEF RunUninstaller, MachineBecomes, Uninstalls, Past

\* The steps by which a job finds its SDK.
LEMMA FindsIt ==
    ASSUME TypeInv, SeenInv, PlatformInv, NEW j \in GJobs, GStep(j) \/ GlobalLockTimesOut(j),
           Found(j)', ~Found(j)
    PROVE  \/ target'[j] \in sdks' \/ j \in unsure' \/ Linux
           \/ /\ UNCHANGED <<machineVars, target>>
              /\ target[j] \in sdks \/ MayHaveLost(j)
              /\ gpc[j] \notin {"idle", "similar", "resolve"}
  <1>0. /\ gpc \in [GJobs -> GStages] /\ PlatformOK(j) /\ OrderOK(j)
        /\ target \in [GJobs -> Global]
        /\ gpc'[j] \in {"finish", "track"} /\ gpc[j] \notin {"finish", "track"}
    BY Frames DEF TypeInv, GTypeOK, PlatformInv, Found, GTrack, GUntrack
  <1> USE DEF At, EndAt
  <1>1. CASE Similar(j)
    BY <1>0, <1>1 DEF Similar, Asks
  <1>2. CASE SdkIsFound(j)
    <2>1. \/ Linux
          \/ \E seen \in Answers(listing, order[j].by) : target[j] \in seen
      BY <1>0, <1>2 DEF SdkIsFound
    <2>2. UNCHANGED <<machineVars, target>> /\ gpc[j] = "found"
      BY <1>2 DEF SdkIsFound, jobGVars
    <2> QED
      BY <2>1, <2>2, SeenCauses DEF After
  <1>3. CASE Conflict(j)
    <2>1. \E seen \in Answers(registry, order[j].by) : target[j] \in seen
      BY <1>0, <1>3 DEF Conflict, Conflicting
    <2>2. UNCHANGED <<machineVars, target>> /\ gpc[j] = "conflict"
      BY <1>3 DEF Conflict, jobGVars
    <2> QED
      BY <2>1, <2>2, SeenCauses DEF After
  <1>4. CASE RunInstaller(j)
    BY <1>0, <1>4 DEF RunInstaller, RetriesElevated, MachineBecomes, Installed
  <1>5. CASE RunPackage(j)
    BY <1>0, <1>5 DEF RunPackage, MachineBecomes, jobGVars
  <1>6. CASE Backup(j)
    BY <1>0, <1>6 DEF Backup, RetriesElevated, MachineBecomes
  <1>7. CASE Packages(j) \/ RunUninstaller(j)
    BY <1>0, <1>7 DEF Packages, RunUninstaller, UninstallEnds, PlatformOK
  <1>8. CASE Online(j) \/ ReadRecords(j) \/ HostExists(j) \/ HostMeets(j) \/ ForgetRecord(j)
    BY <1>0, <1>8 DEF Online, ReadRecords, HostExists, HostMeets, ForgetRecord, Asks
  <1>9. CASE GTrack(j) \/ Finish(j) \/ GReport(j) \/ GlobalLockTimesOut(j)
    BY <1>0, <1>9 DEF GTrack, Finish, GReport, GlobalLockTimesOut
  <1>10. CASE Download(j) \/ Downloaded(j) \/ VerifyFile(j)
    BY <1>0, <1>10 DEF Download, Downloaded, VerifyFile, Fails
  <1>11. CASE GUntrack(j) \/ CountOwners(j)
    BY <1>0, <1>11 DEF GUntrack, CountOwners, Asks
  <1>12. CASE Resolve(j) \/ TakeGlobalLock(j)
    <2>1. scene.platform \in {"win32", "darwin", "linux", "wsl"}
      BY ScenesAssumption DEF TypeInv, GTypeOK
    <2> QED
      BY <1>0, <1>12, <2>1 DEF Resolve, TakeGlobalLock, Linux
  <1>13. CASE WebStep(j)
    BY <1>0, <1>13 DEF WebStep, gvars
  <1> QED
    BY <1>1, <1>2, <1>3, <1>4, <1>5, <1>6, <1>7, <1>8, <1>9, <1>10, <1>11, <1>12, <1>13 DEF GStep

\* Nobody takes an SDK that was found or put there away without a cause.
LEMMA StepKeepsFound ==
    ASSUME FullInv, NEW m \in GJobs, gpc[m] # "idle", GStep(m) \/ GlobalLockTimesOut(m)
    PROVE  FoundInv'
  <1>0. /\ TypeInv /\ SeenInv /\ ChangedInv /\ BeforeInv /\ PlatformInv /\ OwnInv /\ PastInv
             /\ FoundInv
        /\ Remembers(m) /\ PlatformOK(m) /\ target \in [GJobs -> Global]
        /\ gpc \in [GJobs -> GStages] /\ given \subseteq GJobs /\ TypeInv'
    BY StepRemembers, StepKeepsTypes
       DEF FullInv, KnownInv, OwnerInv, SeenInv, PlatformInv, TypeInv, GTypeOK
  <1> SUFFICES ASSUME NEW j \in GJobs, Found(j)' PROVE (target[j] \in sdks \/ MayHaveLost(j))'
    BY DEF FoundInv
  <1>1. CASE ~Found(j)
    <2>1. j = m
      BY <1>0, <1>1, Frames DEF Found, Remembers, GTrack, GUntrack
    <2>2. CASE target'[j] \in sdks' \/ j \in unsure' \/ Linux
      BY <1>0, <2>2 DEF MayHaveLost, Linux, Remembers
    <2>3. CASE /\ UNCHANGED <<machineVars, target>> /\ gpc[j] \notin {"idle", "similar", "resolve"}
               /\ target[j] \in sdks \/ MayHaveLost(j)
      BY <1>0, <2>3, LostStays DEF machineVars
    <2> QED
      BY <1>0, <1>1, <2>1, <2>2, <2>3, FindsIt
  <1>2. CASE Found(j)
    <2>0. /\ gpc[j] \notin {"idle", "similar", "resolve"} /\ target'[j] = target[j]
          /\ order'[j] = order[j] /\ before'[j] = before[j] /\ target[j] \in Global
      BY <1>0, <1>2 DEF Found, OwnInv, Remembers
    <2>1. CASE UNCHANGED machineVars
      BY <1>0, <1>2, <2>0, <2>1, LostStays DEF FoundInv, machineVars
    <2>2. ASSUME NEW now, MachineBecomes(m, now), ~UNCHANGED machineVars
          PROVE  (target[j] \in sdks \/ MayHaveLost(j))'
      <3>0. Holding(m) /\ gpc[m] \notin GEnded
        BY <1>0, <2>2, MachineMoves DEF Holding, GEnded
      <3>1. CASE target[j] \in sdks <=> target[j] \in sdks'
        <4>1. changedBy'[target[j]] = changedBy[target[j]]
          BY <2>0, <2>2, <3>1 DEF MachineBecomes
        <4> QED
          BY <1>0, <1>2, <2>0, <3>1, <4>1, LostStays DEF FoundInv
      <3>2. CASE target[j] \in sdks' \/ Linux
        BY <1>0, <2>0, <3>2 DEF MayHaveLost, Linux, Remembers
      <3>3. CASE target[j] \in sdks /\ target[j] \notin sdks' /\ ~Linux
        <4>1. changedBy'[target'[j]] = m /\ order'[m] = order[m] /\ before'[m] = before[m]
          BY <1>0, <2>0, <2>2, <3>3 DEF MachineBecomes, Remembers
        <4>2. CASE j = m
          <5>1. gpc[m] \notin {"finish", "track"}
            BY <3>0 DEF Holding
          <5> QED
            BY <1>0, <1>2, <3>0, <4>2, <5>1 DEF Found, OwnInv, GEnded
        <4>3. CASE j # m /\ (Installs_(m) \/ Overlap(j, m))
          <5>1. Installs_(m)' \/ Overlap(j, m)'
            BY <2>0, <4>1, <4>3 DEF Installs_, Overlap
          <5> QED
            BY <4>1, <4>3, <5>1 DEF MayHaveLost
        <4>4. CASE j # m /\ ~Installs_(m) /\ ~Overlap(j, m)
          <5>1. j \in before[m]
            BY <1>0, <3>0, <4>4 DEF Overlap, BeforeInv
          <5>2. j \in given /\ gpc[j] = "done" /\ Installs_(j)
            BY <1>0, <1>2, <5>1 DEF Found, BeforeInv, OwnInv, GEnded
          <5>3. Uninstalls(m) /\ GivenBefore(j, m)
            BY <1>0, <3>3, <4>4, <5>1, <5>2, RemovesTarget DEF GivenBefore
          <5>4. ExcusedOwn(j)'
            BY <1>0, <2>0, <5>3, ExcusedStays DEF PastInv
          <5>5. Installs_(j)'
            BY <2>0, <5>2 DEF Installs_
          <5> QED
            BY <5>4, <5>5 DEF ExcusedOwn, MayHaveLost, LostOwner
        <4> QED
          BY <4>2, <4>3, <4>4
      <3> QED
        BY <3>1, <3>2, <3>3
    <2> QED
      BY <1>0, <2>1, <2>2, MachineMoves
  <1> QED
    BY <1>1, <1>2

\* A command that starts owns and finds nothing.
LEMMA StartKeepsFull ==
    ASSUME FullInv, NEW m \in GJobs, NEW s, NEW command, NEW e, NEW q, GStart(m, s, command, e, q)
    PROVE  OwnerInv' /\ FoundInv'
  <1>0. /\ TypeInv /\ ChangedInv /\ BeforeInv /\ OwnerInv /\ FoundInv /\ Remembers(m)
        /\ given \subseteq GJobs /\ gpc[m] = "idle" /\ gpc'[m] \in {"online", "lock"}
        /\ target \in [GJobs -> Global]
        /\ UNCHANGED <<trackerVars, machineVars, given>>
    BY StartRemembers DEF FullInv, KnownInv, SeenInv, TypeInv, GTypeOK, GStart, At, historyVars
  <1>1. /\ \A j \in GJobs \ {m} : /\ gpc'[j] = gpc[j] /\ order'[j] = order[j]
                                  /\ target'[j] = target[j]
                                  /\ before'[j] = before[j]
        /\ m \notin given
    <2>1. m \notin given
      BY <1>0 DEF OwnerInv, OwnInv
    <2>2. \A j \in GJobs \ {m} : order'[j] = order[j] /\ before'[j] = before[j]
      BY <1>0 DEF GStart, TypeInv, GTypeOK, GInv, JobFunctions
    <2> QED
      BY <1>0, <2>1, <2>2 DEF Remembers
  <1>2. OwnInv'
    BY <1>0, <1>1, ExcusedStays DEF OwnerInv, OwnInv, Kept, trackerVars, Installs_
  <1>3. ASSUME NEW j \in GJobs, NEW k \in GJobs, k # m, GivenBefore(j, k)'
        PROVE  GivenBefore(j, k) /\ order'[j] = order[j] /\ gpc[j] = "done"
    BY <1>0, <1>1, <1>3 DEF GivenBefore, OwnerInv, OwnInv
  <1>4. CountInv'
    BY <1>0, <1>1, <1>3 DEF OwnerInv, CountInv
  <1>5. PastInv'
    BY <1>0, <1>1, <1>3, ExcusedStays DEF OwnerInv, PastInv, Uninstalls, Past, Installs_
  <1>6. OwnersInv'
    <2> SUFFICES ASSUME NEW k \in GJobs, Uninstalls(k)', gpc'[k] # "report",
                        order'[k].command = "uninstall",
                        NEW x \in owners'[target'[k]] \ {order'[k].ext}
                 PROVE  TracksBeside(k, x)'
      BY DEF OwnersInv
    <2>1. k # m
      BY <1>0 DEF Uninstalls, Past
    <2>2. PICK n \in GJobs : order[n].command = "install" /\ order[n].ext = x /\ Overlap(k, n)
      BY <1>0, <1>1, <2>1 DEF OwnerInv, OwnersInv, Uninstalls, Installs_, trackerVars, TracksBeside
    <2>3. n # m
      BY <1>0, <2>2 DEF TypeInv, OrderOK
    <2> QED
      BY <1>1, <2>1, <2>2, <2>3 DEF TracksBeside, Overlap
  <1>7. FoundInv'
    <2> SUFFICES ASSUME NEW j \in GJobs, Found(j)' PROVE (target[j] \in sdks \/ MayHaveLost(j))'
      BY DEF FoundInv
    <2>1. j # m /\ Found(j)
      BY <1>0, <1>1 DEF Found
    <2>2. gpc[j] \notin {"idle", "similar", "resolve"}
      BY <1>0, <2>1 DEF Found, OwnerInv, OwnInv
    <2> QED
      BY <1>0, <1>1, <2>1, <2>2, LostStays DEF FoundInv, machineVars
  <1> QED
    BY <1>2, <1>4, <1>5, <1>6, <1>7 DEF OwnerInv

\* The whole invariant is inductive.
LEMMA FullInvStep ==
    FullInv /\ [GNext]_<<gvars, webVars, trackerVars, trackerLock>> => FullInv'
  <1> SUFFICES ASSUME FullInv, [GNext]_<<gvars, webVars, trackerVars, trackerLock>>
               PROVE  FullInv'
    OBVIOUS
  <1>1. KnownInv'
    BY KnownInvStep DEF FullInv
  <1>2. ASSUME UNCHANGED <<gvars, trackerVars>> PROVE OwnerInv' /\ FoundInv'
    <2>1. UNCHANGED <<scene, sdks, changedBy, order, target, before, gpc, given, unsure, forgotten,
                      recorded, owners>>
      BY <1>2 DEF gvars, machineVars, jobGVars, historyVars, trackerVars
    <2>2. FoundInv'
      BY <2>1 DEF FullInv, FoundInv, Found, MayHaveLost, LostOwner, Overlap, Linux, Installs_
    <2>3. OwnerInv'
      BY <2>1 DEF FullInv, OwnerInv, OwnInv, CountInv, PastInv, OwnersInv, Kept, ExcusedOwn,
         LostOwner,
           Uninstalls, GivenBefore, TracksBeside, Overlap, Installs_
    <2> QED
      BY <2>2, <2>3
  <1>3. ASSUME NEW j \in GJobs, GStep(j) \/ GlobalLockTimesOut(j) PROVE OwnerInv' /\ FoundInv'
    <2>1. CASE gpc[j] = "idle"
      BY <1>2, <1>3, <2>1, IdleKeeps
    <2>2. CASE gpc[j] # "idle"
      <3>1. TypeInv /\ BeforeInv /\ OwnerInv
        BY DEF FullInv, KnownInv, SeenInv
      <3> QED
        BY <1>3, <2>2, <3>1, StepKeepsOwn, StepKeepsCount, StepKeepsPast, StepKeepsOwners,
           StepKeepsFound
           DEF OwnerInv
    <2> QED
      BY <2>1, <2>2
  <1>4. ASSUME NEW j \in GJobs, NEW s, NEW command, NEW e, NEW q, GStart(j, s, command, e, q)
        PROVE  OwnerInv' /\ FoundInv'
    BY <1>4, StartKeepsFull
  <1>5. OwnerInv' /\ FoundInv'
    BY <1>2, <1>3, <1>4 DEF GNext
  <1> QED
    BY <1>1, <1>5 DEF FullInv

\* It holds at the start.
LEMMA FullInvInit == ASSUME Global # {} PROVE TrackerTypeOK /\ GInit => FullInv
  <1>1. GInit => OwnerInv /\ FoundInv
    BY DEF GInit, OwnerInv, OwnInv, CountInv, PastInv, OwnersInv, FoundInv, Found, Uninstalls, Past
  <1> QED
    BY <1>1, KnownInvInit DEF FullInv

\* What was handed out was found.
LEMMA FullGrants == FullInv => GrantCauses
  BY DEF FullInv, FoundInv, Found, GrantCauses, KnownInv, TypeInv, GTypeOK

\* An uninstallation that runs has counted the owners.
LEMMA FullOwners == FullInv => TakesNoOwnedSdk
  <1> SUFFICES ASSUME FullInv, NEW j \in GJobs, gpc[j] \in {"run", "packages"},
                      order[j].command = "uninstall", NEW e \in owners[target[j]] \ {order[j].ext}
               PROVE  \E k \in GJobs : order[k].command = "install" /\ order[k].ext = e
                      /\ Overlap(j, k)
    BY DEF TakesNoOwnedSdk
  <1>1. OwnersInv
    BY DEF FullInv, OwnerInv
  <1> QED
    BY <1>1 DEF OwnersInv, Uninstalls, Past, Installs_, TracksBeside

\* An SDK that acquireGlobalSDK handed out is on the machine, for any number of
\* commands and windows, but for the causes that MayHaveLost lists.
THEOREM GrantsKept ==
    ASSUME Global # {} PROVE TrackerTypeOK /\ GSpec => []GrantCauses
  <1>1. TrackerTypeOK /\ GInit => FullInv
    BY FullInvInit
  <1>2. FullInv /\ [GNext]_<<gvars, webVars, trackerVars, trackerLock>> => FullInv'
    BY FullInvStep
  <1>3. FullInv => GrantCauses
    BY FullGrants
  <1> QED
    BY <1>1, <1>2, <1>3, PTL DEF GSpec

\* uninstallGlobal takes an SDK from another owner only if this owner's acquisition
\* was under way at the same time.
THEOREM OwnersKeep ==
    ASSUME Global # {} PROVE TrackerTypeOK /\ GSpec => OwnersKeepSdk
  <1>1. TrackerTypeOK /\ GInit => FullInv
    BY FullInvInit
  <1>2. FullInv /\ [GNext]_<<gvars, webVars, trackerVars, trackerLock>> => FullInv'
    BY FullInvStep
  <1>3. FullInv => TakesNoOwnedSdk
    BY FullOwners
  <1> QED
    BY <1>1, <1>2, <1>3, PTL DEF GSpec, OwnersKeepSdk
-----------------------------------------------------------------------------
(***************************************************************************)
(* The lock for the machine: who has it is on its way, and it is a mutex.  *)
(***************************************************************************)

\* Job j has the lock only where it should, waits for a request only where it sent
\* one, and is not at a stage of Windows and macOS on Linux.
WayOK(j) ==
    /\ globalLock = j => Holding(j)
    /\ gpc[j] \in UninstallStages => ~Installs_(j)
    /\ IF gpc[j] = "resolve" THEN web[j] \in {"sent", "fallback"} \cup Answered
       ELSE IF gpc[j] = "downloading" THEN web[j] \in {"sent", "data", "nothing", "thrown", "stuck"}
       ELSE web[j] = "idle"
    /\ gpc[j] \in {"conflict", "download", "downloading", "verify", "run", "rerun", "backup",
                   "rebackup"} => ~Linux

WayInv == GInv /\ WebTypeOK /\ \A j \in GJobs : WayOK(j)

\* A step of job j leaves the lock with j only if j holds it afterwards.
LEMMA StepKeepsLock ==
    ASSUME WayInv, NEW j \in GJobs, GStep(j) \/ GlobalLockTimesOut(j)
    PROVE  /\ globalLock' = j => Holding(j)'
           /\ gpc'[j] \in UninstallStages => ~Installs_(j)'
  <1> USE DEF Holding, Installs_, At, EndAt, Asks, Fails, fileVars, jobGVars, UninstallStages
  <1>0. /\ gpc = [k \in GJobs |-> gpc[k]] /\ order = [k \in GJobs |-> order[k]]
        /\ globalLock = j => Holding(j)
        /\ scene.platform \in {"win32", "darwin", "linux", "wsl"}
        /\ j # Free /\ (gpc[j] \in UninstallStages => ~Installs_(j))
        /\ gpc[j] \in {"online", "similar", "rerun", "backup", "rebackup"} => Installs_(j)
    BY ScenesAssumption, GlobalAssumption DEF WayInv, WayOK, GInv, JobFunctions, JobInv
  <1>1. CASE Online(j) \/ Similar(j) \/ ReadRecords(j) \/ HostExists(j) \/ HostMeets(j)
    BY <1>0, <1>1 DEF Online, Similar, ReadRecords, HostExists, HostMeets
  <1>2. CASE Resolve(j)
    BY <1>0, <1>2 DEF Resolve, Linux
  <1>3. CASE SdkIsFound(j) \/ ForgetRecord(j) \/ GTrack(j) \/ Finish(j) \/ GReport(j)
    BY <1>0, <1>3 DEF SdkIsFound, ForgetRecord, GTrack, Finish, GReport
  <1>4. CASE TakeGlobalLock(j) \/ GlobalLockTimesOut(j)
    BY <1>0, <1>4 DEF TakeGlobalLock, GlobalLockTimesOut, Linux
  <1>5. CASE Conflict(j) \/ Download(j) \/ Downloaded(j) \/ VerifyFile(j)
    BY <1>0, <1>5 DEF Conflict, Download, Downloaded, VerifyFile
  <1>6. CASE RunInstaller(j) \/ RunPackage(j)
    BY <1>0, <1>6 DEF RunInstaller, RunPackage, InstallerDone, RetriesElevated
  <1>7. CASE Backup(j)
    BY <1>0, <1>7 DEF Backup, InstallerDone, RetriesElevated
  <1>8. CASE Packages(j) \/ RunUninstaller(j)
    BY <1>0, <1>8 DEF Packages, RunUninstaller, UninstallEnds
  <1>9. CASE GUntrack(j) \/ CountOwners(j)
    BY <1>0, <1>9 DEF GUntrack, CountOwners
  <1>10. CASE WebStep(j)
    BY <1>0, <1>10 DEF WebStep, gvars
  <1> QED
    BY <1>1, <1>2, <1>3, <1>4, <1>5, <1>6, <1>7, <1>8, <1>9, <1>10 DEF GStep

\* Its request is out where it waits for one.
LEMMA StepKeepsWeb ==
    ASSUME WayInv, NEW j \in GJobs, GStep(j) \/ GlobalLockTimesOut(j)
    PROVE  /\ IF gpc'[j] = "resolve" THEN web'[j] \in {"sent", "fallback"} \cup Answered
              ELSE IF gpc'[j] = "downloading"
                   THEN web'[j] \in {"sent", "data", "nothing", "thrown", "stuck"}
              ELSE web'[j] = "idle"
           /\ \A k \in GJobs \ {j} : web'[k] = web[k]
  <1> DEFINE Fits(at, w) ==
          IF at = "resolve" THEN w \in {"sent", "fallback"} \cup Answered
          ELSE IF at = "downloading" THEN w \in {"sent", "data", "nothing", "thrown", "stuck"}
          ELSE w = "idle"
  <1> SUFFICES Fits(gpc'[j], web'[j]) /\ \A k \in GJobs \ {j} : web'[k] = web[k]
    OBVIOUS
  <1> USE DEF At, EndAt, Asks, Fails, Send, Taken, WebAt, webVars
  <1>0. /\ gpc = [k \in GJobs |-> gpc[k]] /\ web = [k \in GJobs |-> web[k]]
        /\ Fits(gpc[j], web[j])
        /\ scene.platform \in {"win32", "darwin", "linux", "wsl"}
    BY ScenesAssumption DEF WayInv, WayOK, GInv, JobFunctions, WebTypeOK, GJobs
  <1>1. CASE Online(j) \/ Similar(j) \/ ReadRecords(j) \/ HostExists(j) \/ HostMeets(j)
    BY <1>0, <1>1 DEF Online, Similar, ReadRecords, HostExists, HostMeets
  <1>2. CASE Resolve(j)
    BY <1>0, <1>2 DEF Resolve, Linux
  <1>3. CASE SdkIsFound(j) \/ ForgetRecord(j) \/ GTrack(j) \/ Finish(j) \/ GReport(j)
    BY <1>0, <1>3 DEF SdkIsFound, ForgetRecord, GTrack, Finish, GReport
  <1>4. CASE TakeGlobalLock(j) \/ GlobalLockTimesOut(j)
    BY <1>0, <1>4 DEF TakeGlobalLock, GlobalLockTimesOut, Linux
  <1>5. CASE Conflict(j) \/ Download(j) \/ Downloaded(j) \/ VerifyFile(j)
    BY <1>0, <1>5 DEF Conflict, Download, Downloaded, VerifyFile
  <1>6. CASE RunInstaller(j) \/ RunPackage(j)
    BY <1>0, <1>6 DEF RunInstaller, RunPackage, InstallerDone, RetriesElevated
  <1>7. CASE Backup(j)
    BY <1>0, <1>7 DEF Backup, InstallerDone, RetriesElevated
  <1>8. CASE Packages(j) \/ RunUninstaller(j)
    BY <1>0, <1>8 DEF Packages, RunUninstaller, UninstallEnds
  <1>9. CASE GUntrack(j) \/ CountOwners(j)
    BY <1>0, <1>9 DEF GUntrack, CountOwners
  <1>10. CASE WebStep(j)
    <2>1. gpc' = gpc
      BY <1>10 DEF WebStep, gvars
    <2> DEFINE download == gpc[j] = "downloading"
    <2>2. Responds(j) \/ Rejects(j, download) \/ FallsBack(j) \/ TimerFires(j, download)
             \/ (download /\ Stalls(j))
      BY <1>10 DEF WebStep
    <2>3. CASE Responds(j) \/ FallsBack(j)
      BY <1>0, <2>1, <2>3 DEF Responds, FallsBack, Answered
    <2>4. CASE Rejects(j, download)
      BY <1>0, <2>1, <2>4 DEF Rejects, Answered
    <2>5. CASE TimerFires(j, download)
      BY <1>0, <2>1, <2>5 DEF TimerFires, Answered
    <2>6. CASE download /\ Stalls(j)
      BY <1>0, <2>1, <2>6 DEF Stalls
    <2> QED
      BY <2>2, <2>3, <2>4, <2>5, <2>6
  <1> QED
    BY <1>1, <1>2, <1>3, <1>4, <1>5, <1>6, <1>7, <1>8, <1>9, <1>10 DEF GStep

\* Linux has none of the stages of the other systems.
LEMMA StepKeepsSystem ==
    ASSUME WayInv, NEW j \in GJobs, GStep(j) \/ GlobalLockTimesOut(j), Linux
    PROVE  gpc'[j] \notin {"conflict", "download", "downloading", "verify", "run", "rerun",
                           "backup", "rebackup"}
  <1> USE DEF At, EndAt, Asks, Fails, Linux
  <1>0. /\ gpc = [k \in GJobs |-> gpc[k]]
        /\ gpc[j] \notin {"conflict", "download", "downloading", "verify", "run", "rerun",
                          "backup", "rebackup"}
    BY DEF WayInv, WayOK, GInv, JobFunctions
  <1>1. CASE Online(j) \/ Similar(j) \/ ReadRecords(j) \/ HostExists(j) \/ HostMeets(j)
    BY <1>0, <1>1 DEF Online, Similar, ReadRecords, HostExists, HostMeets
  <1>2. CASE Resolve(j) \/ TakeGlobalLock(j) \/ GlobalLockTimesOut(j)
    BY <1>0, <1>2 DEF Resolve, TakeGlobalLock, GlobalLockTimesOut
  <1>3. CASE SdkIsFound(j) \/ ForgetRecord(j) \/ GTrack(j) \/ Finish(j) \/ GReport(j)
    BY <1>0, <1>3 DEF SdkIsFound, ForgetRecord, GTrack, Finish, GReport
  <1>4. CASE Conflict(j) \/ Download(j) \/ Downloaded(j) \/ VerifyFile(j) \/ RunInstaller(j)
               \/ RunPackage(j) \/ Backup(j) \/ RunUninstaller(j)
    BY <1>0, <1>4 DEF Conflict, Download, Downloaded, VerifyFile, RunInstaller, RunPackage, Backup,
                      RunUninstaller
  <1>5. CASE Packages(j)
    BY <1>0, <1>5 DEF Packages, UninstallEnds
  <1>6. CASE GUntrack(j) \/ CountOwners(j)
    BY <1>0, <1>6 DEF GUntrack, CountOwners
  <1>7. CASE WebStep(j)
    BY <1>0, <1>7 DEF WebStep, gvars
  <1> QED
    BY <1>1, <1>2, <1>3, <1>4, <1>5, <1>6, <1>7 DEF GStep

\* An ended job takes no step but for its timer.
LEMMA EndedRests ==
    ASSUME NEW j \in GJobs, gpc[j] \in GEnded, GStep(j) \/ GlobalLockTimesOut(j)
    PROVE  gpc' = gpc
  <1>1. ~ (\/ Online(j) \/ Similar(j) \/ Resolve(j) \/ ReadRecords(j) \/ HostExists(j)
           \/ HostMeets(j) \/ SdkIsFound(j) \/ ForgetRecord(j) \/ GTrack(j) \/ TakeGlobalLock(j)
           \/ GlobalLockTimesOut(j))
    BY DEF Online, Similar, Resolve, ReadRecords, HostExists, HostMeets, SdkIsFound, ForgetRecord,
           GTrack, TakeGlobalLock, GlobalLockTimesOut, GEnded
  <1>2. ~ (\/ Conflict(j) \/ Download(j) \/ Downloaded(j) \/ VerifyFile(j) \/ RunInstaller(j)
           \/ RunPackage(j) \/ Backup(j) \/ Packages(j) \/ RunUninstaller(j))
    BY DEF Conflict, Download, Downloaded, VerifyFile, RunInstaller, RunPackage, Backup, Packages,
           RunUninstaller, GEnded
  <1>3. ~ (Finish(j) \/ GUntrack(j) \/ CountOwners(j) \/ GReport(j))
    BY DEF Finish, GUntrack, CountOwners, GReport, GEnded
  <1>4. WebStep(j)
    BY <1>1, <1>2, <1>3 DEF GStep
  <1> QED
    BY <1>4 DEF WebStep, gvars

\* The others keep what is true of them, since the lock does not come to them.
LEMMA OthersKeepWay ==
    ASSUME WayInv, NEW j \in GJobs, MovesAlone(j), \A k \in GJobs \ {j} : web'[k] = web[k]
    PROVE  \A k \in GJobs \ {j} : WayOK(k)'
  <1> SUFFICES ASSUME NEW k \in GJobs \ {j} PROVE WayOK(k)'
    OBVIOUS
  <1>1. WayOK(k) /\ gpc'[k] = gpc[k] /\ order'[k] = order[k] /\ web'[k] = web[k] /\ scene' = scene
    BY DEF WayInv, MovesAlone
  <1>2. globalLock' = k => globalLock = k
    BY GlobalAssumption DEF MovesAlone
  <1> QED
    BY <1>1, <1>2 DEF WayOK, Holding, Installs_, Linux

LEMMA WayInvInit == GInit => WayInv
  <1>1. GInit => GInv
    BY GInvInit
  <1> QED
    BY <1>1, GlobalAssumption DEF GInit, WebInit, WebTypeOK, WayInv, WayOK, GJobs, UninstallStages

LEMMA StartKeepsWay ==
    ASSUME WayInv, NEW j \in GJobs, NEW s, NEW command, NEW e, NEW q, GStart(j, s, command, e, q)
    PROVE  WayInv'
  <1>1. MovesAlone(j) /\ GInv'
    BY StartKeepsInv, OthersKeepInv DEF WayInv
  <1>2. UNCHANGED <<web, timer, client, globalLock>> /\ gpc[j] = "idle"
        /\ gpc'[j] \in {"online", "lock"}
    BY DEF GStart, webVars, fileVars, At, WayInv, GInv, JobFunctions
  <1>3. WayOK(j)'
    BY <1>2 DEF WayInv, WayOK, Holding, UninstallStages
  <1> QED
    BY <1>1, <1>2, <1>3, OthersKeepWay DEF WayInv, WebTypeOK

LEMMA WayInvStep ==
    WayInv /\ [GNext]_<<gvars, webVars, trackerVars, trackerLock>> => WayInv'
  <1> SUFFICES ASSUME WayInv, [GNext]_<<gvars, webVars, trackerVars, trackerLock>> PROVE WayInv'
    OBVIOUS
  <1>1. ASSUME NEW j \in GJobs, GStep(j) \/ GlobalLockTimesOut(j) PROVE WayInv'
    <2>1. GInv' /\ MovesAlone(j) /\ WebTypeOK'
      BY <1>1, StepKeepsInv, OthersKeepInv, WebTypes DEF WayInv
    <2>2. WayOK(j)'
      BY <1>1, <2>1, StepKeepsLock, StepKeepsWeb, StepKeepsSystem DEF WayOK, MovesAlone, Linux
    <2>3. \A k \in GJobs \ {j} : WayOK(k)'
      BY <1>1, <2>1, StepKeepsWeb, OthersKeepWay
    <2> QED
      BY <2>1, <2>2, <2>3 DEF WayInv
  <1>2. CASE UNCHANGED <<gvars, webVars, trackerVars, trackerLock>>
    <2>1. GInv'
      BY <1>2, GInvStep DEF WayInv
    <2> QED
      BY <1>2, <2>1 DEF gvars, fileVars, jobGVars, webVars, WayInv, WayOK, Holding, Installs_, Linux,
                        WebTypeOK
  <1> QED
    BY <1>1, <1>2, StartKeepsWay DEF GNext

\* Whoever has the lock for the machine is at a stage of its way under it, with its
\* request out or answered, or its download stalls: on no path, of an error or not,
\* a command ends or goes on without giving the lock back.  That such a stage has a
\* step is a question to one command, which TLC answers.
THEOREM MachineLockIsFreed == GSpec => []HolderOnItsWay /\ ([]OnItsWayCanStep => []HolderMoves)
  <1>1. WayInv => HolderOnItsWay
    BY DEF WayInv, GInv, JobInv, WayOK, HolderOnItsWay, OnItsWay, Holding
  <1>2. HolderOnItsWay /\ OnItsWayCanStep => HolderMoves
    BY DEF HolderMoves
  <1> QED
    BY <1>1, <1>2, WayInvInit, WayInvStep, PTL DEF GSpec

\* What a command is to the lock for the machine.
AtMachine == [j \in GJobs |->
    IF gpc[j] \in GEnded THEN "finished" ELSE IF Holding(j) THEN "holding" ELSE "waiting"]

MachineMutex == INSTANCE Mutex WITH Calls <- GJobs, stage <- AtMachine

LEMMA MachineMutexStep ==
    ASSUME WayInv, NEW j \in GJobs, GStep(j) \/ GlobalLockTimesOut(j)
    PROVE  MachineMutex!Next \/ UNCHANGED AtMachine
  <1>1. MovesAlone(j) /\ WayInv'
    <2>1. [GNext]_<<gvars, webVars, trackerVars, trackerLock>>
      BY DEF GNext
    <2> QED
      BY <2>1, WayInvStep, StepKeepsInv DEF WayInv
  <1>2. /\ \A k \in GJobs : Holding(k) <=> globalLock = k
        /\ \A k \in GJobs : Holding(k)' <=> globalLock' = k
    BY <1>1 DEF WayInv, WayOK, GInv, JobInv
  <1>3. gpc[j] \in GEnded => gpc' = gpc /\ UNCHANGED AtMachine
    <2>1. gpc[j] \in GEnded => gpc' = gpc
      BY EndedRests
    <2>2. ASSUME gpc[j] \in GEnded, NEW k \in GJobs PROVE AtMachine'[k] = AtMachine[k]
      <3>1. gpc' = gpc
        BY <2>1, <2>2
      <3>2. CASE k = j
        BY <2>2, <3>1, <3>2 DEF AtMachine
      <3>3. CASE k # j
        BY <1>1, <3>1, <3>3 DEF AtMachine, MovesAlone, Holding, Installs_
      <3> QED
        BY <3>2, <3>3
    <2> QED
      BY <2>1, <2>2 DEF AtMachine
  <1> DEFINE next == IF gpc'[j] \in GEnded THEN "finished"
                     ELSE IF Holding(j)' THEN "holding" ELSE "waiting"
  <1>4. AtMachine' = [AtMachine EXCEPT ![j] = next]
    <2>1. \A k \in GJobs \ {j} : AtMachine'[k] = AtMachine[k]
      BY <1>1 DEF MovesAlone, AtMachine, Holding, Installs_
    <2>2. AtMachine'[j] = next
      BY DEF AtMachine
    <2> QED
      BY <2>1, <2>2 DEF AtMachine
  <1>5. \A at \in GEnded : at \notin {"conflict", "download", "downloading", "verify", "run",
                   "rerun", "backup", "rebackup", "packages", "untrack", "count", "report",
                   "resolve", "retrack"}
    BY DEF GEnded
  <1>6. CASE gpc[j] \notin GEnded /\ globalLock # j /\ globalLock' = j
    <2>1. globalLock = Free /\ AtMachine[j] = "waiting" /\ next = "holding"
      BY <1>1, <1>2, <1>5, <1>6 DEF MovesAlone, AtMachine, Holding
    <2>2. \A k \in GJobs : AtMachine[k] # "holding"
      BY <1>2, <2>1, GlobalAssumption DEF AtMachine
    <2>3. MachineMutex!Enter(j)
      BY <1>4, <2>1, <2>2 DEF MachineMutex!Enter
    <2> QED
      BY <2>3 DEF MachineMutex!Next
  <1>7. CASE gpc[j] \notin GEnded /\ globalLock = j /\ globalLock' # j
    <2>1. AtMachine[j] = "holding" /\ next \in {"waiting", "finished"}
      BY <1>2, <1>7 DEF AtMachine
    <2>2. MachineMutex!Leave(j, next)
      BY <1>4, <2>1 DEF MachineMutex!Leave
    <2> QED
      BY <2>1, <2>2 DEF MachineMutex!Next
  <1>8. CASE gpc[j] \notin GEnded /\ (globalLock = j <=> globalLock' = j)
    <2>1. CASE gpc'[j] \in GEnded
      <3>1. ~ Holding(j)'
        BY <1>5, <2>1 DEF Holding
      <3>2. AtMachine[j] = "waiting"
        BY <1>2, <1>8, <3>1 DEF AtMachine
      <3>3. MachineMutex!GiveUp(j)
        BY <1>4, <2>1, <3>2 DEF MachineMutex!GiveUp
      <3> QED
        BY <3>3 DEF MachineMutex!Next
    <2>2. CASE gpc'[j] \notin GEnded
      <3>1. next = AtMachine[j]
        BY <1>2, <1>8, <2>2 DEF AtMachine
      <3> QED
        BY <1>4, <3>1 DEF AtMachine
    <2> QED
      BY <2>1, <2>2
  <1> QED
    BY <1>3, <1>6, <1>7, <1>8

\* executeWithLock on GLOBAL_INSTALL_STATE_MODIFIER_LOCK is used as the abstract mutex
\* promises, for any number of commands and windows: at most one of them is between
\* the start of an installer or of an uninstallation and its last step under the lock,
\* and a failure, a refusal or a timeout gives it back or never had it.
THEOREM MachineIsMutex == GSpec => MachineMutex!Spec
  <1>1. GInit => WayInv /\ MachineMutex!Init
    <2>1. GInit => MachineMutex!Init
      BY DEF GInit, MachineMutex!Init, AtMachine, Holding, GEnded
    <2> QED
      BY <2>1, WayInvInit
  <1>2. WayInv /\ [GNext]_<<gvars, webVars, trackerVars, trackerLock>> => WayInv'
    BY WayInvStep
  <1>3. WayInv /\ [GNext]_<<gvars, webVars, trackerVars, trackerLock>>
            => [MachineMutex!Next]_AtMachine
    <2> SUFFICES ASSUME WayInv, [GNext]_<<gvars, webVars, trackerVars, trackerLock>>
                 PROVE  [MachineMutex!Next]_AtMachine
      OBVIOUS
    <2>1. ASSUME NEW j \in GJobs, GStep(j) \/ GlobalLockTimesOut(j)
          PROVE  [MachineMutex!Next]_AtMachine
      BY <2>1, MachineMutexStep
    <2>2. ASSUME NEW j \in GJobs, NEW s, NEW command, NEW e, NEW q, GStart(j, s, command, e, q)
          PROVE  UNCHANGED AtMachine
      <3>1. MovesAlone(j)
        BY <2>2, StartKeepsInv DEF WayInv
      <3>2. gpc[j] = "idle" /\ gpc'[j] \in {"online", "lock"}
        BY <2>2 DEF GStart, At, WayInv, GInv, JobFunctions
      <3>3. \A k \in GJobs : AtMachine'[k] = AtMachine[k]
        BY <3>1, <3>2 DEF MovesAlone, AtMachine, Holding, Installs_, GEnded
      <3> QED
        BY <3>3 DEF AtMachine
    <2>3. CASE UNCHANGED <<gvars, webVars, trackerVars, trackerLock>>
      BY <2>3 DEF gvars, jobGVars, AtMachine, Holding, Installs_
    <2> QED
      BY <2>1, <2>2, <2>3 DEF GNext
  <1> QED
    BY <1>1, <1>2, <1>3, PTL DEF GSpec, MachineMutex!Spec
=============================================================================
