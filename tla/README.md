# A verification of the .NET install tool for VS Code

The extension in `src/vscode-dotnet-runtime-extension` acquires .NET runtimes and SDKs for other VS Code
extensions; its logic is the library in `src/vscode-dotnet-runtime-library/src`.  Every window of VS Code runs an
extension host of its own.  The hosts share one global storage directory, one store of install records and the locks
that keep them apart, and inside a host the commands of several extensions are interleaved at every `await`.  This
directory models that: the lock between the processes, what it promises, the install records and the commands that
change them, the automatic update, machine-wide SDKs, the search for a usable .NET while installs come and go, the
files through which commands reach a process that runs as root, and what a window tells its user and its log.

Paths below are relative to `src/vscode-dotnet-runtime-library/src` unless they begin with `src/`.

## 1. The system

### Inventory

| Component | State | Operations | What is hard | What makes it correct |
|---|---|---|---|---|
| **NodeIPCMutex** `Utils/NodeIPCMutex.ts` | the socket or pipe at `lockPath`, its directory, the retry counter of each call | `acquire`, `acquireWithManualRelease`; probing and removing a stale lock | several processes, crashes, the moment between bind and listen, verdicts that are out of date when used | mutual exclusion, an answer to every call, the file of a dead process is removed |
| **Lock helpers** `Utils/TypescriptUtilities.ts` (`executeWithLock`), `LockUsedByThisInstanceSingleton.ts` | which locks this process has used | run a function under a lock of a given name | a caller that already holds the lock; errors of the function | never re-entered, always released |
| **InstallTrackerSingleton** `Acquisition/InstallTrackerSingleton.ts` | records with their owners and the marks of every session, in `globalState` | track, untrack, report an uninstall, mark, prune | processes that die with marks; reference counts read before they are used | an extension keeps what it was granted; a live session keeps its marks |
| **DotnetCoreAcquisitionWorker** `Acquisition/DotnetCoreAcquisitionWorker.ts` | none of its own: works on records, directories and locks | `acquireLocal`, `acquireStatus`, `uninstallLocal`, `uninstallAll`, `acquireGlobal`, `uninstallGlobal` | several locks; commands that take none; a failure between two steps | records and directories agree; no deadlock |
| **AcquisitionInvoker** `Acquisition/AcquisitionInvoker.ts` | the install script's process | `installDotnet` | the script fails, or is killed at the timeout with half a directory | an incomplete install is not handed out |
| **LocalInstallUpdateService** `Acquisition/LocalInstallUpdateService.ts` | the list of installs it read, the time of the last update | `ManageInstalls`: acquire the newest patch, move owners, uninstall the old one | works on a list that commands of other windows change | deletes nothing that is used; loses no owner |
| **LocalMemoryCacheSingleton** `LocalMemoryCacheSingleton.ts`, with `Utils/CommandExecutor.ts` | cached command outputs with expiry, aliases of command names | get, put, alias, invalidate | a command in flight stores what it read before the invalidation | no entry outlives its invalidation |
| **DotnetResolver, ExistingPathResolver, DotnetPathFinder** `Acquisition/` | `DOTNET_MULTILEVEL_LOOKUP` of the whole process | list the installs of a host, find the true path of a name, find candidates | a process-wide variable saved and restored around awaits | the documented order, no trace left in the environment |
| **DotnetConditionValidator, VersionUtilities** `Acquisition/` | none | does a version meet a request? | zero, missing parts, the feature band of an SDK | the order of versions |
| **VersionResolver** `Acquisition/VersionResolver.ts`, **GlobalInstallerResolver** | the releases index | a request becomes a full version, and an installer file with its hash | partial requests, previews, feature bands | the newest matching version; a file of a trusted host |
| **CommandExecutor and the sudo protocol** `Utils/CommandExecutor.ts` 90-411, `install scripts/interprocess-communicator.sh` | one elevated process per machine; command, ok, output and exit files | start, check liveness, submit a command, end | a protocol over files with timeouts; late answers | an answer belongs to its command |
| **Global installs** `Acquisition/DotnetCoreAcquisitionWorker.ts` (`acquireGlobalCore`, `uninstallGlobal`), `WinMacGlobalInstaller.ts`, `LinuxGlobalInstaller.ts`, `LinuxVersionResolver.ts` | system-wide installers, the folder they are downloaded to, records of global installs, cached registry queries | install, uninstall | conflicts, retries, elevated steps that fail half way, a folder that all processes share | the record says what is installed; only a verified installer runs |
| **WebRequestWorkerSingleton** `Utils/WebRequestWorkerSingleton.ts` | an HTTP client with a cache | get, download | retries, a timer beside the request, the fallback to `fetch` | every request is answered; a lock is not kept by one that is not |
| **Event stream** `EventStream/`, **ErrorHandler** `Utils/ErrorHandler.ts` | the output channel's list of downloads, the status bar, the log's buffer and its chain of writes | post, show, flush, dispose | an install posts its error several times; several flushes at once; the events of all commands in one stream | what is shown is what is under way; nothing is lost or out of order in the log |
| **Language model tools** `src/vscode-dotnet-runtime-extension/src/LanguageModelTools.ts` | the events heard since the call | uninstall with a recovery, list, install | the error says nothing, so a call listens to the events of every command | a refusal is not followed by another prompt |
| **Extension commands** `src/vscode-dotnet-runtime-extension/src/extension.ts` | the session | `acquire`, `acquireStatus`, `findPath`, `uninstall`, `uninstallAll`, `deactivate`, ... | all of them may run at once, in several windows | those of the parts |

The rest (the dependency installer, the JSON installer, file-header readers, ids, serialization, error pop-ups,
telemetry, the deprecated SDK extension, pipelines) keeps no state that two actors share.  `PROJECT.json` lists each with its reason.

### How the parts interact

```
 findPath ---------> DotnetResolver --> CommandExecutor --> command cache      (one host, interleaved at awaits)
    | mark               | condition validator                ^ invalidate
    v                    v                                     |
 InstallTracker <--- acquisition worker: acquire, uninstall, uninstallAll ---> install directories
    |  'installed' lock       | lock named by the install id
    +------------+------------+
                 v
           NodeIPCMutex  <---- a session's permanent mutex: "is this session alive?"   (several hosts)
```

* `acquire` and `uninstall` hold the lock named by the install id, and inside it the tracker takes the `installed`
  lock for each operation.  `acquireStatus`, `findPath`'s mark and `uninstallAll` take no install lock.
* A session proves it is alive by keeping a mutex of its own; another session that can take that mutex concludes
  that it is dead and drops its marks.
* An install or uninstall clears the cached listings of its directory, in this window only.
* A global install resolves its version over the network and looks at the machine without a lock; it takes one lock
  for the whole machine to download, verify and run the installer, or the package manager through `ExecSudoAsync`, and
  releases it before the tracker records the install.
* Every command posts events to the one event stream of its window, to which the observers, the log and the tools of
  a language model listen.

## 2. The modules

| Module | Models | Correspondence |
|---|---|---|
| `Mutex` | what a caller of the lock is promised | `stage` of each call: waiting, holding, finished, dead |
| `NodeIPCMutex` | the lock, per system call and callback | a task is one call; `pc` is the place in `acquireInternal`/`tryAcquire`, `path` whose server is at `lockPath`, `conn` what a probing `connect` reached, `retries` the local of that name |
| `NodeIPCMutex_proofs` | theorems about it | |
| `InstallTracker` | the records, the marks, the sessions | one operator per method; each is atomic because the method runs under the `installed` lock |
| `LocalInstalls` | the commands on local installs | a job is one command; `pc` is where it is between two awaits at which others may act, `installLock` and `trackerLock` are instances of what `Mutex` promises, `disk` is what each directory holds |
| `LocalInstalls_proofs` | what acquire hands out stays, marks of live sessions stay, records are of directories; the locks are mutexes and are given back; what the third and the fourth finding take | |
| `VersionRequirement` | `stringVersionMeetsRequirement`, `allowPreview`, and the order of versions as reference | numbers instead of strings |
| `VersionRequirement_proofs` | when the two agree, and when they do not | |
| `CommandCache` | the cache and the listing commands | keys are (what is listed, host, environment); `alias` is `commandRootAliases` |
| `FindPath` | `dotnet.findPath`, composed with the cache and the extension's own installs | a lookup's actions run from one `await` to the next; `env` is the process-wide variable, `outer` and `inner` the locals it is saved in |
| `FindPath_proofs` | the variable `DOTNET_MULTILEVEL_LOOKUP`; what invalidations reach; that what a lookup returns met its request and is the first in order | |
| `SudoProtocol` | `ExecSudoAsync`, `endSudoProcessMaster` and the script `interprocess-communicator.sh` | a call is a thread `Main(c)` and, for a command, the unawaited `Startup(c)`; `pc` is the place between two awaits; `files` is what the directory holds; a `master` is the script started by one call's prompt |
| `SudoProtocol_proofs` | one call at a time, the first prompt, whose answer a call gets, how often a command runs | |
| `VersionResolution` | `GlobalInstallerResolver`, `VersionResolver`, the conflict of SDKs | a version is a record, an index a record of sequences of SDKs with their files; results are sets, empty for an error |
| `WebRequests` | `WebRequestWorkerSingleton` | `web[r]` is where the request of `r` is, or what it answered |
| `LinuxPackages` | `LinuxVersionResolver`, `GenericDistroSDKProvider` | a distribution is a record; an operation yields the set of its (result, machine) |
| `GlobalInstalls` | `acquireGlobalSDK` and `uninstall` of a machine-wide SDK on Windows, macOS, Linux and WSL, composed with the four modules above and `InstallTracker` | a job is one command, `gpc` the place between two awaits; `sdks` is what is on the machine, `listing` and `registry` what each process has cached of `dotnet --list-sdks` and `reg query`, `installerFile` the shared folder |
| `GlobalInstalls_proofs` | the lock for the machine, the verified installer, the feature band; downgrades, grants and owners | |
| `UpdateService` | `LocalInstallUpdateService`, composed with `LocalInstalls` | `passAt` is where the one pass is; its acquisitions and uninstalls are jobs of `LocalInstalls` |
| `UpdateService_proofs` | what the update keeps, hands over and leaves alone | |
| `AcquisitionReports` | what `AcquisitionInvoker`, the worker and `ErrorHandler` post, with `OutputChannelObserver` and `StatusBarObserver` | an acquisition is its `caller` and the callbacks of its `script`; `screen` is what is shown |
| `EventLog` | `LoggingObserver` | an event is its number; `log` the buffer, `flushChain` the chained writes, `logFile` the disk |
| `UninstallTools` | `UninstallSystemSdkTool`, `UninstallVSCodeRuntimeTool`, their listener, `runUninstallAttempt` | `stage[c]` is where a call is or its answer, `detail` and `heardFrom` the last error it has heard and whose that was |
| `ExtensionHost_proofs` | the list of downloads, the script and the lock; the order of the log and what askers find; refusals; the types of all parts of a window | |
| `MCNodeIPCMutex`, `MCLocalInstalls`, `MCFindPath`, `MCVersionRequirement`, `MCWindow`, `MCExtensionHost` | instances for TLC | `MCWindow` composes what windows share, `MCExtensionHost` what one does by itself |

Which lines each definition stands for is in `PROJECT.json` under `map`.  Operators named `...Mutant...` in a comment
("Mutant of X") are X as a plausible bug would have it; they are never part of a specification.

### NodeIPCMutex

A call binds the path (`Bind`), starts to listen (`StartListening`, a separate step on Unix because another process
may connect in between), runs its function (`FnSettles`) or hands out a releaser (`HandOver`, `ManualRelease`).  A
call that cannot bind goes to the retry branch (`BindFails`): it gives up (`GiveUp`), makes the directory
(`StartMkdir`, `MkdirSucceeds`, `MkdirFails`), or probes the holder (`Probe`, `ProbeAnswered`, `ProbeReset`), removes
a socket it believes to be stale (`Clean`), and tries again (`NextTry`).  `Crash` kills a process with its calls.

The operating system is external and is modelled as the code meets it: a refused connect (bound but not listening, or
a dead process's file), a reset connection (the server closed before it accepted), `close` that unlinks by name, pipes
that die with their process.  `CloseResets` says whether the system resets such connections; `Access` says which
users may touch which sockets.

### LocalInstalls

Three points of the model deserve care.  A job works on a copy of the records (`seen`), as the code does after
`getExistingInstalls`.  Directories are `absent`, `partial`, `torn` (deleted while a script was filling them) or
`complete`, and an incomplete one may or may not have the executable the validation looks for.  `uninstallAllRecords`
keeps the tracker lock while directories are deleted; everywhere else a tracker operation is one step.

### FindPath

The sources in order are the setting, the shell, `PATH`, the real path of `PATH`, `DOTNET_ROOT`, the extension's own
runtimes and the records of hostfxr.  `Resolve`, `Run`, `Finish`, `ResolveNext`, `ResolveEnds` find true paths;
`Judge`, `ListsNothing`, `AskArchitecture`, `Decide`, `MarkInUse` judge one candidate.  `SomebodyChanges`,
`OwnInstall`, `OwnUninstall`, `OwnInvalidates`, `OwnRecords` and `EntryExpires` are the world around the lookups.

### SudoProtocol

A command takes the sudo lock, checks that a master is alive (`Wipe`, `Create`, `Confirm`, then `Alive`, `NotAlive` or
`TakesError`) and hands itself over (`Submit`, `CreateCommand`, `Fill`, `Result`, `Cleanup`).  `startupSudoProc`, which
nobody awaits, is a thread of its own: it makes the same check over the same files when a master has been seen before,
and prompts otherwise (`Accepts`, `Refuses`, `PromptTimesOut`).  The model lets it lag behind its call by any time.
The master polls: `Look`, `Read`, `Run`, `Finish`, `Signals`, `HourOver`.  `endSudoProcessMaster` is `End`,
`EndLocked` and `EndAwaits`; the removal of the directory follows the release of the lock without an `await`.

`writeFileOntoDisk` makes an empty file, reads it and writes the text, so the master may find `command.txt` without a
command: it then runs the arguments it ran last, or exits when it has none.  The three result files are one field
`status`.  The flag that says a check succeeded is set and taken back before another thread can see it, so it is not a
variable.  `torn`, `late` and `crowd` record the three things after which an answer may belong to another command; the
properties say that there is no fourth.  `execElevated` (the package `@vscode/sudo-prompt`) is external.

The model shows three further effects that no comment speaks of and that are therefore not listed below: the error of
a refused prompt may be thrown by the next call; a master is deaf after an hour, because its outer loop has no end;
and a command that is not terminal throws all the same when its results are missing, so status 1220 is never returned.

### GlobalInstalls

A job is `acquireGlobalSDK` or an uninstall of one command.  It goes online and resolves its version (`Online`,
`Similar`, `Resolve`), looks at the records and at the machine (`ReadRecords`, `HostExists`, `HostMeets`,
`SdkIsFound`, `ForgetRecord`), and only then takes the lock (`TakeGlobalLock`, `GlobalLockTimesOut`) to ask
for a conflict, download, verify and run (`Conflict`, `Download`, `Downloaded`, `VerifyFile`, `RunInstaller`, or
`RunPackage` on macOS, `Backup` when it failed there and the user gets to see it, `Packages` on Linux).  The lock is released with
the last of these; `Finish` clears the caches and `GTrack` makes the record after it.  An uninstall holds the lock for
the whole of `GUntrack`, `CountOwners`, `Resolve`, `RunUninstaller` or `Packages`, and `GReport` (or `GTrack`, which makes
it an owner again after an error).  The installer and the package manager are external: they
succeed, fail, or report success without effect where the code cannot tell.  The command under sudo is not composed
with `SudoProtocol`; of it the model has the ways it can end.

`given`, `unsure`, `forgotten`, `changedBy` and `before` are history for `GrantCauses`, which lists every way in which
an SDK that was handed out can be gone: the package manager of Linux, the host taken for the SDK on macOS, a job that
ran beside it, a cached listing of another process, an upgrade, a dropped record (its own, or that of another command
for the same SDK that an uninstall overlapped).  What it says is that commands of
one window that run one after the other lose none.

### UpdateService

`PassStarts`, `PassOnline`, `PassReads`, then for each group of installs `PassAcquires`, `PassAcquired`,
`PassReReads`, `PassOwns`, `PassRemoves`, `PassRemoved`, and `PassEnds`.  The pass holds no lock between its steps, so
every command of another window runs in between.  `Uninstalling` names those that void what the pass has read: uninstalls
that have got past their lock, `uninstallAll`, and another window's update.

### AcquisitionReports, EventLog, UninstallTools

A stretch of code between two awaits is one step of `AcquisitionReports`, with everything it posts and what the
observers make of it: `Concludes` and `Rejects` post the events of an error in the code's order, which is what the
list of downloads depends on.  In `EventLog` a flush takes the whole buffer in one step and joins the chain; `Write`
makes the oldest write.  In `UninstallTools` a call hears the errors of every command of the window (`OtherCommand`)
and decides on its next step by the last of them.

Four effects that no comment speaks of, and that are therefore not listed as findings: no command calls the log's
`shutdown` when the extension is deactivated (`src/vscode-dotnet-runtime-extension/src/extension.ts` 1141-1149), so
the events since the last flush are lost; the error of a failed uninstall says that it "may have been cancelled" for
every code of the uninstaller, so that the recovery `LanguageModelTools.ts` describes is never begun after a code;
the tool for runtimes reports success also when other owners remain and nothing was removed; an acquisition that
fails before it begins to install may take another's entry from the list of downloads.

## 3. What the runs check

Every passing run explores all reachable states of its instance.

| Run | Properties | What it shows |
|---|---|---|
| `MutexPipe` | `TypeOK`, `MutualExclusion`, `Implements` | on pipes, three calls of two processes that may die at any time (one with a manual release, functions that may fail with retryable codes) exclude each other and implement `Mutex` under the mapping `LockStage` |
| `MutexUnix` | `FileLossCauses`, `CallsEnd`, `DeadHolderCleared` | on sockets with crashes, resets, missing and unwritable directories: a live server loses its file only by a stale verdict or by another server's close; every call is answered; a dead process's file goes |
| `MutexUnixOneProcess` | `MutualExclusion` **violated** | the first finding below |
| `MutexFnError` | `GivesUpWithoutLock` **violated** | the second finding |
| `InstallCommands` | `TypeOK`, `GrantKept`, `LiveMarksKept`, `TrackedExists`, `NoDeadlock` | three commands in two processes, one of which may die, on one install (every kind but `acquireStatus` with a similar install, which `InstallGrants` adds): grants survive, live marks survive, records are made for what exists, no deadlock |
| `InstallGrants` | `NoOwnerDropped` **violated** | the third finding |
| `UpdateInUse` | `UpdateSparesMarked` **violated** | the fourth finding |
| `FindPath` | `TypeOK`, `FirstInOrder`, `ResultWasMet`, `InvalidationReaches`, `EnvLeaksOnlyByOverlap`, `ListsOneRoot` | two lookups at once while an install changes or an entry expires |
| `Window` | `PassTypeOK`, `GTypeOK`, `GrantKept`, `GrantCauses`, `NoDowngradeCauses`, `RunsVerified`, `ResolvesToNewest`, `HolderMoves`, `OwnersHandedOver`, `NewestStays`, `OwnersKeepSdk` | the automatic update beside a command of another window that may die, or two machine-wide commands in two windows on each system: grants and owners survive but for named causes, an update removes nothing newer than it leaves, only a verified installer runs, a lock is not left behind |
| `ExtensionHost` | `HostTypeOK`; `WrongAnswerCauses`, `RunsTwiceCauses`, `HandedToSomebody`, `NeverRunsAlone`; `ListedCauses`, `RunsUnderLock`, `NothingLeft`; `LogKeepsOrder`, `AskerFindsEvents`, `EventsAreWritten`; `DeclineIsHeard` | what one window does by itself. Under sudo: an answer belongs to its command and a command is run once, while its call waits, but for three causes; nothing is handed over before a password. Reports: the list of downloads is right but for named causes and empty in the end. Log: nothing lost, repeated, out of order, or unwritten for ever. Tools: a refusal is told and not repeated |
| `LookupEnv` | `EnvRestored` **violated** | the fifth finding |
| `VersionZero` | `DisableIsExact` **violated** | the sixth finding |

What `GrantKept` excludes is as important as what it says.  The ghost variable `rough` collects the installs that
some command touched outside the discipline of the install lock and the reference count: a record made by
`acquireStatus`, a `uninstallAll`, an automatic update of an install with other registered owners.  For every other
install a grant holds until the extension itself, or a forced uninstall, ends it.

### Bounds, and why they are enough

* **Mutex runs**: three calls, two of one process, `MaxRetries = 2`.  The hazards need a holder, a call that probes
  and a call that takes the path between verdict and removal, and both the same-process and the cross-process case.
  Two retries let a call fail, clean up, and fail again.  The theorems lift safety to any number of calls and retries.
* **Install runs**: three jobs in two sessions, two owners besides the automatic update, one install.  One install is
  enough because commands on different installs share only the tracker lock, which they hold during one step, and
  `uninstallAll`, which treats all alike.  Three jobs cover two commands that race and a third that set the stage; the
  initial states already contain installs with an owner, so none is spent on that.
* **FindPath**: two lookups (a runtime and an SDK), two hosts of which one has two names, one install of the
  extension, `MaxUpsets = 1` change of the installs or expiry.  One change suffices for each stale listing: what
  matters is a change between a reading and a use.
* **Window**: either half acts in a behaviour and the other is fixed, since they share the records' store but no record:
  one half has local installs, the other global ones.  The local half has two installs of one group, three owners, and a
  pass with a job for each of its steps beside one job of another window, which may die: an update that is overtaken needs
  no second group, for groups are taken one after the other and share nothing.  The global half has two jobs in two
  windows or one, and two SDKs of one band, so that an upgrade, a downgrade, a conflict and a race for the folder all
  happen; `FirstIsOfS1` only names the windows.  Every system has a scene of its own, and the older SDK has no hash on
  macOS.
* **SudoProtocol**: two commands, one of them terminal, and one end.  Timeouts need no bound: a wait may end at any
  moment.  Two commands give a late answer, a command file overwritten under the master, a second prompt and a second
  master.  That two masters alone can mix up answers takes a third command (a late prompt beside two further calls):
  three commands without an end were explored once (16.2 million states, all properties hold), too many for a
  run that is repeated.
* **ExtensionHost**, the other parts: three acquisitions of two installs of which `MaxResolved = 2` get as far as a lock
  (a third adds entries that never began, which is one of the causes); `MaxPosts = 3` events, so that a flush, a second one
  behind it and a buffer that fills again coexist; two calls of the tools beside the other commands of the window.
* **VersionZero**: majors and minors of two values and patches 0, 1, 5.

Deadlock checking is off because in every run the actors are finite: commands end and the system stops.
`NoDeadlock` and `HolderMoves` are the meaningful forms for the locks: a predicate on where the commands are and who has
what (`SomebodyUnblocked`, `HolderOnItsWay`), and that whoever it speaks of has a step (ENABLED).  Symmetry is used only in the install runs and in
`Window`, over two extensions, two jobs of the same session, or the two global jobs; those runs check no liveness.

### Fairness

`MutexUnix` and `ExtensionHost` check liveness.  For the log `ExtensionHost` has weak fairness of `Tick`, the timer that
the observer sets again after each flush, and of `Write`, since the disk answers, with a failure perhaps; posting, asking
and shutting down get none, nor do the other parts.  In `MutexUnix` `FairSpec` has weak fairness of `Step(t)` for each call: the event loop of a live
process goes on, system calls return, and the function under the lock settles (the install script is killed at its
timeout).  `ManualRelease` gets no fairness, since nothing obliges the owner of a releaser to call it, and `Crash`
gets none.  `CallsEnd` holds all the same because a call that waits counts its retries.

## 4. What disagrees with its documentation

1. **Two calls in the lock** (`Utils/NodeIPCMutex.ts` 273, run `MutexUnixOneProcess`).  `isLockStale` takes
   ECONNRESET for the death of the holder.  A holder that closes before it accepts the probing connection resets it
   too; the prober then removes the path, by which time the next call may listen there, and a third call binds and
   enters.  The run has one process, no crash.  Whether a system resets in that case is `CloseResets`; with it FALSE
   the theorem `Exclusive` applies.
2. **`fn` runs again** (line 141, `MutexFnError`).  An error of `fn` that carries EACCES, EPERM, EEXIST, EROFS or
   EADDRINUSE is retried as if it came from `listen`, and ends as "failed to acquire the lock".
3. **An owner lost** (`Acquisition/InstallTrackerSingleton.ts` 289, `InstallGrants`).  `acquireStatus` makes an owner
   without the install lock, between the reference count of an uninstall and its report, which drops the record.
4. **An install in use deleted** (line 188, `UpdateInUse`).  `installHasNoLiveDependentsBesidesId` looks at the owners
   first and answers without a look at the sessions; an install handed out by `findPath` has no owner.
5. **The environment stays changed** (`Acquisition/DotnetResolver.ts` 38, 96, 211, `LookupEnv`).  Two lookups that
   overlap restore what the other had set, and `DOTNET_MULTILEVEL_LOOKUP` remains `0`.
6. **8.0.0 accepts 8.0.1** (`Acquisition/DotnetConditionValidator.ts` 97, `VersionZero`).  A requested patch of 0 is
   falsy and the patch is not compared.

## 5. What is proved

`NodeIPCMutex_proofs`, for all tasks, processes, access relations and retry bounds that satisfy
`ConstantsAssumption`:

* `TypeCorrect`: `Spec => []TypeOK`.  `TypeOK` is not inductive: `NextTry` would push a counter past its bound.
  `RetryLeft` (a call in the retry branch has a retry left) makes it so.
* `Exclusive`: `SafeHere` implies `Spec => []MutualExclusion`.  `SafeHere` is the condition under which the lock is
  one: pipes, or one immortal process on a system whose closes show no reset.  Both halves are needed; the first
  finding shows a run without the second.  The inductive invariant `Inv` says that a call that is bound or holds is
  the one at the path, that the path names such a call, and that nobody is about to delete it.  Exclusion follows
  since the path names one call.
* `Refines`: under `SafeHere`, `Spec => Implements`, from `LockInit` (initial states) and `LockStep` (each step is a
  step of `Mutex` or a stutter).  `Enter` is the one interesting case: `Inv` rules out another holder.
* `OnlyStaleVerdictsBreak`: on every platform, with crashes and resets, `Spec /\ [][VerdictsRight]_vars` implies exclusion
  and `Implements`.  `VerdictsRight` forbids one kind of step: `cleanupStaleLock` removing the path of a server that still
  listens, or is bound and about to.  Whatever else goes wrong, directories, closes by name, retries, deaths, cannot put two calls
  in the lock.  `HolderInv` is the half of `Inv` that is left then: a call that is bound or holds is the one at the path.
* `FileLoss`: `Spec => FileLossCauses` on every platform, with crashes.  It needs only type correctness.
* `RunsMeansHadIt`: without `FnCodes`, `Spec => []GivesUpWithoutLock`.  A call that has run its function is from then on
  at one of four places (`Ran`), none of which leads back to the retries.

`VersionRequirement_proofs`, for all numbers:

* `FullRequestsInOrder`: a request that names all parts, the last not 0, is compared in the order of versions.
* `MajorMinorRequestsInOrder`: a request for a major and minor compares these two only.
* `ExactButForZero`: under `disable` and `equal` a full request is met by the same version only; one that ends in 0, by every
  version of its major and minor.  This is the extent of the sixth finding.
* `BandlessRollForwardNeverMet`: the exception to it: no SDK ever meets `latestPatch` or `latestFeature` for a
  request such as 8.0, which has no feature band to compare.

`GlobalInstalls_proofs`, for any jobs, windows, versions asked for, and any scenes that satisfy `ScenesAssumption` (one
of the four systems, an index whose patches are numbers, and SDKs it can hold) under `GlobalAssumption` and
`TypedAssumption` (global jobs and the parameters of the tracker are what their names say):

* `InstallersAreVerified`: `GSpec => []RunsVerified`.  `RunsVerified` is not inductive: what is in the shared folder at
  the moment of running was put there two steps earlier, while other jobs may come and go.  The invariant `GInv` says of
  each job (`JobInv`) that between the lock and its end it is the holder, and that one about to run an installer has
  found its file good.  `MovesAlone` states what a step of one job leaves alone (the places of the others; the folder,
  unless it holds the lock), and `OthersKeepInv` concludes for all the others at once, so that each action needs only
  its own job.
* `OneHoldsTheMachine`: `GSpec => []GlobalExclusion`, from the same invariant.
* `MachineLockIsFreed` and `MachineIsMutex`.  The first: `GSpec => []HolderOnItsWay`, the part of `HolderMoves` without
  ENABLED: who has the lock is at a stage under it that its machine has, with its request out or answered where it
  waits for one and none out where it is to send one; only a download may stall.  `JobInv` says who must have the lock,
  `WayInv` the converse, which an error path that keeps it would break.  `OnItsWayCanStep`, that each such stage has a
  step, is the hypothesis of the rest of the theorem.  The second: `GSpec => MachineMutex!Spec`.
* `BandsResolveToNewest`: `GSpec => []ResolvesToNewest`, from what `NewestOfBand` returns (a lemma of its own).
* `GlobalTypes`, `NoDowngrade`, `GrantsKept`, `OwnersKeep`: types, `NoDowngradeCauses`, `GrantCauses` and
  `OwnersKeepSdk`, where the tracker starts in a well-typed state and the commands are global.  `NoDowngradeCauses` rests
  on `SeenInv`: what a window has in its cache is on the machine, or another command or the user has changed the machine
  since (`Behind`), and `ChangedInv` remembers who.  The other two rest on what records tell: a record of an SDK has an
  owner as long as nobody took it away (`OwnersInv`), an SDK on the machine with an owner is recorded (`FoundInv`,
  `FullInv`), and what an uninstall counts is what was recorded when it counted (`CountInv`), unless a command overlapped
  it (`PastInv`, which of two commands came first).

  The proof of `GrantsKept` found a cause that the runs do not reach, as it takes four commands: an uninstall that
  overlaps an install removes the SDK and then a record that names the install's owner as well; the next install of that
  SDK for the same owner finds it gone and reinstalls; an uninstall for the other owner finds no owner recorded, and
  removes it.  `MayHaveLost` names that cause (`LostOwner`): the record of a command that was granted was dropped by an
  uninstall which overlapped it.

`SudoProtocol_proofs`, for any commands and any ends, under `CallsAssumption`:

* `OneAtATime`: `Spec => []OneInside`.  `LockInv`: a main thread that is inside has the lock.  Each step moves one main
  thread (`OneMainMoves`) or none; no thread of `startupSudoProc` takes or gives up the lock, though it writes the files.
* `SudoLockIsMutex`: `Spec => SudoMutex!Spec`, and whoever has the lock is inside.  `MainStride` is what any step does to a main
  thread and the lock; `FreedInv` is `LockInv` with its converse, which every error on the way must keep.
* `FirstCommandIsPrompted`: `Spec => []HandedToSomebody`.  The invariant is `LockInv`, and `Quiet` as long as there is
  no master: nothing was taken for one, no `startupSudoProc` checks, no end has anything to do, and the one main thread
  that checks finds the `ok.txt` it made.  `LockInv` is needed for the last: another check would wipe it.
* `SudoTypes`: `Spec => []TypeOK`.
* `RunsAreAwaited`, `RunsOnce`: `NeverRunsAlone` and `RunsTwiceCauses`.  What the files hold is tied to the place of the
  one call inside: a command in the folder is that of a call that waits, or of one that gave up (a cause), or the master
  has already read it.
* `AnswersAreOwn`: `WrongAnswerCauses`.  An output in the folder is of the call inside, unless an earlier one was given
  up or a second master is at work.

`LocalInstalls_proofs`, for any commands, processes, extensions and installs, with crashes, under `TrackerAssumption` and
`JobsAssumption`:

* `GrantsAreKept`: if no incomplete install passes for complete (`PartialPasses = FALSE`: what `dotnet` lists of one is
  not in this repository), `Spec => []GrantKept`; as in the runs it speaks of installs that are not in `rough`.  `GrantKept` alone is not inductive: a command may be about to wipe.  `GrantInv`
  adds for each job (`JobInv`) which commands get to a stage (`KindFits`), that past the lock of its install a job is its
  holder, and what the holder knows (`Knows`): one about to wipe has found that nobody was granted the install, one about
  to record that the directory is complete.  `Apart` says what a step of one job leaves to the others, and `KeepsInv`
  concludes for all of them, so that each action has a lemma about its own job only.
* `LiveSessionsKeepMarks`: `Spec => LiveMarksKept`.  Three operations drop marks, and each spares what is not dead.
* `TypeCorrect`: `Spec => []TypeOK` if `Local` is not empty.
* `RecordsAreOfDirectories`: `Spec => TrackedExists`.  `TrackInv`: who is about to record has the tracker's lock, and the
  directory it validated is still there or was wiped by an uninstall that has not reported.  `WithLockFree`,
  `WithoutLock` and `WithLock` split the steps by what they have to do with that lock.
* `LocksAreMutexes`: for each install `i`, `Spec => InstallMutex(i)!Spec /\ TrackerMutex!Spec`: the locks as the commands use
  them implement `Mutex`, so that nobody relies on more than `NodeIPCMutex_proofs` gives.  `LocksInv`: who is within a
  section has its lock, and, the half that errors and deaths could break, a lock that is not free belongs to somebody
  within.  `Stride` is all that any of the 23 steps of a command does to its place and to the two locks; the
  invariants and both refinements are concluded from it, once.
* `LocksAreFreed`: `Spec => []SomebodyUnblocked`, and `NoDeadlock` where `UnblockedCanStep` holds.  A command that waits waits
  for one that is within; the holder of the tracker's lock waits for nobody, and that of an install at most for the
  tracker's.
* `DropsWithoutAdoption`: if `Kinds` has neither `"status"` nor `"similar"`, `Spec => NoOwnerDropped`.  `OwnerInv`: from the count
  to the report (`CountStands`) nobody but the uninstaller owns the install, for whoever would become an owner needs
  the lock of the install.  These two kinds are thus the whole of the third finding.
* `SparedWhileOwned`: `Spec /\ []MarkedIsOwned => UpdateSparesMarked`.  As long as what a live session has in use has an owner
  besides the automatic update, the search for live dependents gets as far as the sessions.

`FindPath_proofs`, for any lookups, candidates, hosts and changes of installs, under `CacheAssumption`:

* `AloneGivesBack` (`Spec => []EnvLeaksOnlyByOverlap`) and `MultiLevelOnlyByOverlap` (`Spec => []ListsOneRoot`), from one
  invariant, `EnvInv`.  `SavesFit` says at which places a lookup has saved the variable once, or twice; `Undisturbed`, as
  long as no two lookups overlapped, that at most one has, and that what it saved first is the user's.  `EnvOfOne` shows
  that a step which saves, saves again, restores or does neither keeps the invariant, and each action is one of those.
* `RestoredWithoutOverlap`: `Spec /\ []OneHolds => []EnvRestored`, from `EnvInv`, and `OverlapShows`: whoever saves the variable
  while another has it saved makes two that hold it.  The fifth finding needs two lookups at once and nothing else.
* `LookupTypes`: `Spec => []TypeOK`.  `TypeOK` is not inductive: a lookup that asks or judges has a candidate left, and
  asks about the first (`Shape`).  The set of managed installs must be finite, for what is read from it is a sequence.
* `CacheCleared`: `Spec => []InvalidationReaches` where hosts do not look at several levels.  The hypothesis is needed: a
  host that reads `DOTNET_MULTILEVEL_LOOKUP` and was asked while another lookup had the variable changed lists the global
  root as well, and the invalidation of a root inside does not reach that entry (TLC shows it if `MultiLevel` is TRUE and
  the managed install is the first candidate).  `AboutInv` says that what is cached or in flight is about the host that
  was asked, `FreshInv` that no entry is older than the last invalidation of its host.
* `ReturnsWhatMet`: `Spec => []ResultWasMet`, under the same hypothesis and if full requests do not end in 0
  (`Comparable`; the finding about version 0 shows why).  `MetInv`: what a lookup has accepted met the request at some
  moment since it began.  `LookupMoves` sums up what any step of a lookup may do (start, rest, end, ask, read, store,
  accept), so that each invariant is shown once per kind and not once per action.
* `FindsFirst`: `Spec => []FirstInOrder`.  Besides the absence of multi-level lookup it takes what the code needs for its
  comparison to be the documented one.  `AsDocumented`: a full request has a third part other than 0, and a request for
  `major.minor` is not for an SDK with `latestPatch` or `latestFeature` (`VersionRequirement_proofs` shows that they agree
  then; TLC, that they do not at version 0).  `HostsRun`: whatever is installed at a root includes a runtime, without
  which `dotnet` lists nothing.  `RecordsTrue`: a record of the extension names the version of the runtime it installed,
  for the code compares the record and not the directory.  `OrderInv` has for every lookup whose answer nothing has
  disturbed: the sources it has passed hold nothing that fits (`Passed`); of the source it is at, what is resolved and
  what is still to be resolved are positions among the offers, in the order of these, and nothing that fits is missing
  (`Kept`); what the host it asks has said is what that host holds (`Told`).  `KeptMoved` is the step that resolves a name
  into its root, `DiskInv` says what the directories can hold.  `FirstInOrder` compares positions (source, place among its
  offers) and builds no list of candidates, so that no induction over a list is needed.

`ExtensionHost_proofs`, for any acquisitions and installs under `AcquisitionsAssumption` (no install is named as a request
is before it is resolved, and nobody is the one who holds no lock), any number of events under `PostsAssumption`, and any
calls of the tools under `ToolCallsAssumption`:

* `ScriptsRunUnderLock`: `ReportsSpec => []RunsUnderLock`.  The invariant relates the two threads of an acquisition: a
  script that is active belongs to a caller that is installing and holds the lock of its install, or to one rejected
  early on Windows.  `Apart` confines a step to one acquisition.
* `DownloadsAreListed`: `ReportsSpec => []ListedCauses`.  Counting entries is not inductive, for an error takes out the
  first entry of its install, or the last of the list if there is none.  `ListInv` says instead that the list names no
  install twice, that what it names is under way, and that, as long as none of the three causes has come, all that is
  under way is named.  An acquisition posts up to three events at its end; `Drops` is what each of them can do to the
  list, and composes, so that the second and third error of an install are seen to take nothing.  The lemmas on
  `RemoveAt` say what a list is without one of its entries.
* `NothingStays`: `ReportsSpec => []NothingLeft`, from the first half of `ListInv`, which holds with the causes too.
* `LogInOrder`: `LogSpec => []LogKeepsOrder`.  The property speaks of all positions of the file, the chain of writes and
  the buffer together; `Parts` makes them one sequence of sequences, of which each step moves an end to the next.
* `AskersFind`: `LogSpec => []AskerFindsEvents`.  `AskerInv` adds that what was posted before the request is
  neither in the buffer nor in a write chained after the one the asker waits for.
* `RefusalsAreHeard`: `ToolsSpec => []DeclineIsHeard`, inductive with `CallInv`, which says of a call at work what it has
  heard and from whom.
* `HostTypes`: `MCSpec => []HostTypeOK`, for the composition in `MCExtensionHost`: with each part acting alone, the
  invariants above are kept by the others' steps.

`UpdateService_proofs`, for `USpec`: any records, groups and commands of other windows beside the pass (their updates and
`uninstallAll` included), with crashes, under `PassAssumption` and the assumptions of `LocalInstalls`:

* `UpdateKeepsNewest` (`USpec => NewestStays`) and `UpdateHandsOver` (`USpec => OwnersHandedOver`), both if
  `PartialPasses = FALSE`; the first also if no two versions of a group have the same third part (`PatchesDiffer`: the code
  compares only that part, so of two previews of one patch it may keep either).  What has to be shown is that what the
  pass listed cannot lose its record before the second reading.  An uninstall could take it, and then it counts as
  `Gone`; but so could a command that finds an executable missing and drops the record (`Forget`).  `DirInv` shows that
  nobody does so to an install that is not `Gone`: what is recorded, or what a command goes by, is complete (`Intact`), so
  the pass's own acquisition cannot drop what the pass has listed.  `Goes` sums up what any step of any command does that the pass
  can notice; `PassInv` is `DirInv` with what the pass knows at each place: its uninstalls are of the group it is at and
  never of `latest` (`UpdateInv`), what it listed is recorded or `Gone` (`ListedInv`), nothing it listed is newer than
  `latest` unless others uninstall it (`LatestInv`), and after `addOwners` the former owners own `latest` unless others
  uninstall that (`OwnersInv`).
* `GrantsSurviveUpdates`: `USpec => []GrantKept`, that is, `GrantsAreKept` for commands beside an update.
* `PassTypes`: `USpec => []PassTypeOK` if any install may be updated, from the lemmas of `TypeCorrect`.

Each finding of section 4 has its counterpart here: a theorem that the documented property holds where the one cause
named there is away (`OnlyStaleVerdictsBreak`, `RunsMeansHadIt`, `DropsWithoutAdoption`, `SparedWhileOwned`,
`RestoredWithoutOverlap`, `ExactButForZero`).  The run shows that the cause is enough; the theorem, that there is no other.

Only model-checked: the liveness properties `CallsEnd`, `DeadHolderCleared` and `EventsAreWritten`, and the halves of
`NoDeadlock` and `HolderMoves` that say a step is possible (`UnblockedCanStep`, `OnItsWayCanStep`): fairness and ENABLED are
beyond the prover.  No other property of a passing run is without a theorem.

## 6. What is not modelled

* **The store.**  VS Code caches `globalState` per window; the code hopes that a read under the lock sees the last
  write.  The model assumes it.
* **Legacy installs** (ids before 1.8.0, `removeMatchingLegacyInstall`, conversion of old records).
* `VSCODE_DOTNET_RUNTIME_DISABLE_MUTEX`, which turns all locks off; `EEXIST` from `listen`, which no system gives.
* **FindPath.**  The setting that allows invalid paths; a `which` that finds nothing (the code then reads `PATH`
  itself); hosts whose architecture is not read from the file; names that come to lead elsewhere while the window is
  open; a time to live of zero.  Changes of this extension's directories by another window, whose caches are its own.
  `MultiLevel` is FALSE in the runs, as hosts since .NET 7 ignore the variable.  `Finish` and the continuation after
  it are separate steps, which allows more orders than the microtask queue does.
* **SudoProtocol.**  A second window, which has files of its own (a directory per `SUDO_SESSION_ID`) and shares only the
  lock: of it the model has that `LockTimesOut` is possible at any time; the death of the window; commands that are not
  on the master's list (the list is that of the distribution, the same for every call); WSL, where the call throws
  before it takes the lock; a directory that cannot be made.
* **Global installs.**  The language of an installer, the reading of the registry, permissions of the folder, a
  distribution's commands and the parsing of their output; a window that dies while it has the lock for the machine (the
  mutex frees it, which `NodeIPCMutex` shows).
* **Reports.**  Pop-ups, telemetry, the wording of events; a second window, which has an output channel and a log of its
  own.  The log's file name and its writing through VS Code's file system are `Write`.
* **Tools.**  Those that list, install or describe: they call commands modelled elsewhere and word their results.
* **Data**: names, paths, messages, the contents of installs.  Versions are numbers; an SDK's third part is taken to
  have three digits.

## 7. Plan

In this order, and why:

1. `NodeIPCMutex`, `Mutex`: everything else rests on the lock.  Done, proved.
2. `InstallTracker`, `LocalInstalls`: what users lose when it goes wrong.  Done; `TypeOK`, `GrantKept`,
   `LiveMarksKept` and `TrackedExists` proved, and that its locks are mutexes that are always given back.
3. `VersionRequirement`, `CommandCache`, `FindPath`: the command called most.  Done; all of the safety of `FindPath` is
   proved.
4. `SudoProtocol`: the files between the extension and its elevated process.  Done; all of its safety is proved.
5. `VersionResolution`, `WebRequests`, `LinuxPackages`, `GlobalInstalls`: machine-wide SDKs.  Done; all of the safety of
   `GlobalInstalls` is proved but the ENABLED half of `HolderMoves`.
6. `UpdateService`: `ManageInstalls`, composed with `LocalInstalls`.  Done; all of its safety is
   proved.
7. `AcquisitionReports`, `EventLog`, `UninstallTools`: what the user, the log and a language model are told.  Done;
   all of its safety is proved.
8. Left: legacy install ids, and a store whose reads lag behind another window's writes.

Each module keeps its parameters as CONSTANTS with a named assumption, has one action per operation and no recursive
operator, so that it can be proved about as it stands.
