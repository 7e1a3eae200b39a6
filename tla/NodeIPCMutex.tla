---------------------------- MODULE NodeIPCMutex ----------------------------
(***************************************************************************)
(* NodeIPCMutex (Utils/NodeIPCMutex.ts): a mutual-exclusion lock made of   *)
(* the right to listen on one path, a named pipe on Windows and a Unix     *)
(* domain socket elsewhere.  A task is one call of acquire or of           *)
(* acquireWithManualRelease for one lock id, made by some process; every   *)
(* call has a NodeIPCMutex object of its own, as executeWithLock makes one *)
(* per call.                                                               *)
(*                                                                         *)
(* The operating system is modelled as the code meets it: bind and listen  *)
(* are two system calls, but no other code of the same process runs        *)
(* between them; a connect to a bound socket that does not listen, or to   *)
(* the socket file of a dead process, is refused; a connection that the    *)
(* server closes before it has accepted it is reset; close unlinks the     *)
(* path by name, whatever file has come to be there; a named pipe dies     *)
(* with its process.                                                       *)
(***************************************************************************)
EXTENDS Naturals

CONSTANTS
    Tasks,          \* calls of acquire and acquireWithManualRelease
    Procs,          \* VS Code extension host processes
    ProcOf,         \* the process that made each call
    Manual,         \* the calls of acquireWithManualRelease
    Mortal,         \* processes that may die at any time
    Access,         \* <<p, q>>: p's user may connect to and unlink q's socket
    NamedPipes,     \* os.platform() === 'win32'
    CloseResets,    \* the OS resets a connection the server closed unaccepted
    FnCodes,        \* fn may reject with an error whose code is retryable
    MaxRetries,     \* maxRetryCountToEndAtRoughlyTimeoutTime
    Free,           \* no file and no pipe at lockPath
    NoConn,         \* no connect is under way
    Reset           \* the server of the connect has closed

ASSUME ConstantsAssumption ==
    /\ ProcOf \in [Tasks -> Procs]
    /\ Manual \subseteq Tasks
    /\ Mortal \subseteq Procs
    /\ Access \subseteq Procs \X Procs
    /\ \A p \in Procs : <<p, p>> \in Access
    /\ {NamedPipes, CloseResets, FnCodes} \subseteq BOOLEAN
    /\ MaxRetries \in Nat
    /\ Free \notin Tasks
    /\ {NoConn, Reset} \cap Tasks = {} /\ NoConn # Reset

VARIABLES
    pc,         \* where each call is
    retries,    \* the local of acquireInternal
    path,       \* the call whose socket or pipe is at lockPath, or Free
    dir,        \* the directory of lockPath: "missing", "writable", "denied"
    conn,       \* the server that a probing call's connect reached
    ran         \* history: fn of this call has run

vars == <<pc, retries, path, dir, conn, ran>>

Waiting == {"listen", "bound", "caught", "mkdir", "connecting", "clean", "delay"}
Holding == {"fn", "held"}
Answered == {"done", "threw", "gaveup"}
Stages == Waiting \cup Holding \cup Answered \cup {"dead"}

TypeOK ==
    /\ pc \in [Tasks -> Stages]
    /\ retries \in [Tasks -> 0 .. MaxRetries]
    /\ path \in Tasks \cup {Free}
    /\ dir \in {"missing", "writable", "denied"}
    /\ conn \in [Tasks -> Tasks \cup {NoConn, Reset}]
    /\ ran \in [Tasks -> BOOLEAN]

\* A call in the retry branch has a retry left.
RetryLeft == \A t \in Tasks :
    pc[t] \in {"mkdir", "connecting", "clean", "delay"} => retries[t] < MaxRetries

Init ==
    /\ pc = [t \in Tasks |-> "listen"]
    /\ retries = [t \in Tasks |-> 0]
    /\ path = Free
    /\ dir \in IF NamedPipes THEN {"writable"} ELSE {"missing", "writable", "denied"}
    /\ conn = [t \in Tasks |-> NoConn]
    /\ ran = [t \in Tasks |-> FALSE]

-----------------------------------------------------------------------------
Go(t, stage) == pc' = [pc EXCEPT ![t] = stage]

\* JavaScript of a process does not run while one of its calls is between the
\* bind and the listen of server.listen.
ThreadFree(t) == \A u \in Tasks : ProcOf[u] = ProcOf[t] => pc[u] # "bound"

CanUnlink(t) == path # Free /\ <<ProcOf[t], ProcOf[path]>> \in Access

\* Directories exist for file-system sockets only.
DirectoryServes == NamedPipes \/ dir = "writable"

-----------------------------------------------------------------------------
(***************************************************************************)
(* tryAcquire                                                              *)
(***************************************************************************)

\* server.listen binds the path.  Creating a pipe also starts to listen.
Bind(t) ==
    /\ pc[t] = "listen" /\ ThreadFree(t)
    /\ DirectoryServes /\ path = Free
    /\ path' = t
    /\ Go(t, IF NamedPipes THEN "fn" ELSE "bound")
    /\ UNCHANGED <<retries, dir, conn, ran>>

\* The second system call of server.listen; its callback starts fn.
StartListening(t) ==
    /\ pc[t] = "bound"
    /\ Go(t, "fn")
    /\ UNCHANGED <<retries, path, dir, conn, ran>>

\* EADDRINUSE, EACCES, EPERM or EROFS: all of them go to the retry branch.
BindFails(t) ==
    /\ pc[t] = "listen" /\ ThreadFree(t)
    /\ ~DirectoryServes \/ path # Free
    /\ Go(t, "caught")
    /\ UNCHANGED <<retries, path, dir, conn, ran>>

\* release: server.close() unlinks the path by name and drops the connections
\* it has not accepted.
Release(t) ==
    /\ path' = IF NamedPipes
               THEN IF path = t THEN Free ELSE path
               ELSE IF CanUnlink(t) THEN Free ELSE path
    /\ conn' = [u \in Tasks |-> IF conn[u] = t THEN Reset ELSE conn[u]]

\* Mutant of FnSettles: fn is not awaited before the finally block.
FnNotAwaited(t) ==
    /\ pc[t] = "fn" /\ t \notin Manual /\ ThreadFree(t)
    /\ \/ Go(t, "done") /\ UNCHANGED <<path, conn>>
       \/ Go(t, "fn") /\ Release(t)
    /\ ran' = [ran EXCEPT ![t] = TRUE]
    /\ UNCHANGED <<retries, dir>>

\* fn of acquire settles, and the finally block releases the lock.  An error of
\* fn with one of the retryable codes is taken for an error of listen.
FnSettles(t) ==
    /\ pc[t] = "fn" /\ t \notin Manual /\ ThreadFree(t)
    /\ \/ Go(t, "done")
       \/ Go(t, "threw")
       \/ FnCodes /\ Go(t, "caught")
    /\ ran' = [ran EXCEPT ![t] = TRUE]
    /\ Release(t)
    /\ UNCHANGED <<retries, dir>>

\* Mutant of HandOver: the finally block releases for a manual call too.
HandOverReleased(t) ==
    /\ pc[t] = "fn" /\ t \in Manual /\ ThreadFree(t)
    /\ Go(t, "held")
    /\ ran' = [ran EXCEPT ![t] = TRUE]
    /\ Release(t)
    /\ UNCHANGED <<retries, dir>>

\* acquireWithManualRelease returns its releaser and keeps the server.
HandOver(t) ==
    /\ pc[t] = "fn" /\ t \in Manual /\ ThreadFree(t)
    /\ Go(t, "held")
    /\ ran' = [ran EXCEPT ![t] = TRUE]
    /\ UNCHANGED <<retries, path, dir, conn>>

\* The releaser that acquireWithManualRelease returned is called.
ManualRelease(t) ==
    /\ pc[t] = "held" /\ ThreadFree(t)
    /\ Go(t, "done")
    /\ Release(t)
    /\ UNCHANGED <<retries, dir, ran>>

-----------------------------------------------------------------------------
(***************************************************************************)
(* acquireInternal, the retry branch of its catch block                    *)
(***************************************************************************)

\* Mutant of GiveUp: the last try removes the file before it throws.
GiveUpAndClean(t) ==
    /\ pc[t] = "caught" /\ ThreadFree(t)
    /\ retries[t] >= MaxRetries
    /\ Go(t, "gaveup")
    /\ path' = IF CanUnlink(t) THEN Free ELSE path
    /\ UNCHANGED <<retries, dir, conn, ran>>

\* The retries are used up: crossUidDiagnostic words the error that is thrown.
GiveUp(t) ==
    /\ pc[t] = "caught" /\ ThreadFree(t)
    /\ retries[t] >= MaxRetries
    /\ Go(t, "gaveup")
    /\ UNCHANGED <<retries, path, dir, conn, ran>>

\* Mutant of Connects: ECONNREFUSED is not among the codes of a stale lock.
ConnectsRefusedIsLive(t) ==
    \/ /\ ~(CanUnlink(t) /\ pc[path] \in Holding)
       /\ Go(t, "delay")
       /\ UNCHANGED conn
    \/ /\ path # Free /\ CanUnlink(t)
       /\ pc[path] \in Holding
       /\ Go(t, "connecting")
       /\ conn' = [conn EXCEPT ![t] = path]

\* connectToExistingLock: what connect finds at the path decides.
Connects(t) ==
    \/ /\ path = Free \/ ~CanUnlink(t)                  \* ENOENT, EACCES
       /\ Go(t, "delay")
       /\ UNCHANGED conn
    \/ /\ path # Free /\ CanUnlink(t)
       /\ pc[path] \in Holding                          \* a server listens
       /\ Go(t, "connecting")
       /\ conn' = [conn EXCEPT ![t] = path]
    \/ /\ path # Free /\ CanUnlink(t)
       /\ pc[path] \notin Holding                       \* ECONNREFUSED
       /\ Go(t, "clean")
       /\ UNCHANGED conn

\* Mutant of Probe: one retry too many.
ProbeOnceMore(t) ==
    /\ pc[t] = "caught" /\ ThreadFree(t)
    /\ retries[t] <= MaxRetries
    /\ NamedPipes \/ dir # "missing"
    /\ Connects(t)
    /\ UNCHANGED <<retries, path, dir, ran>>

\* ensureIPCDirectoryExists finds the directory (or this is Windows), and
\* isLockStale connects.
Probe(t) ==
    /\ pc[t] = "caught" /\ ThreadFree(t)
    /\ retries[t] < MaxRetries
    /\ NamedPipes \/ dir # "missing"
    /\ Connects(t)
    /\ UNCHANGED <<retries, path, dir, ran>>

\* ensureIPCDirectoryExists does not find the directory.
StartMkdir(t) ==
    /\ pc[t] = "caught" /\ ThreadFree(t)
    /\ retries[t] < MaxRetries
    /\ ~NamedPipes /\ dir = "missing"
    /\ Go(t, "mkdir")
    /\ UNCHANGED <<retries, path, dir, conn, ran>>

\* mkdir makes the directory (or finds it made meanwhile).
MkdirSucceeds(t) ==
    /\ pc[t] = "mkdir" /\ ThreadFree(t)
    /\ dir' = IF dir = "missing" THEN "writable" ELSE dir
    /\ Go(t, "delay")
    /\ UNCHANGED <<retries, path, conn, ran>>

\* mkdir is refused: the code goes on to isLockStale.
MkdirFails(t) ==
    /\ pc[t] = "mkdir" /\ ThreadFree(t)
    /\ Connects(t)
    /\ UNCHANGED <<retries, path, dir, ran>>

\* The connect callback: the server is live.  A server that closed after it
\* had accepted the connection looks the same.
ProbeAnswered(t) ==
    /\ pc[t] = "connecting" /\ ThreadFree(t)
    /\ Go(t, "delay")
    /\ conn' = [conn EXCEPT ![t] = NoConn]
    /\ UNCHANGED <<retries, path, dir, ran>>

\* ECONNRESET: the server has closed since the connect, and the code takes
\* that for the death of its process.
ProbeReset(t) ==
    /\ pc[t] = "connecting" /\ ThreadFree(t)
    /\ ~NamedPipes /\ CloseResets /\ conn[t] = Reset
    /\ Go(t, "clean")
    /\ conn' = [conn EXCEPT ![t] = NoConn]
    /\ UNCHANGED <<retries, path, dir, ran>>

\* cleanupStaleLock: rm runs on a thread of its own and removes whatever file
\* is at the path by now; its errors are swallowed.
Clean(t) ==
    /\ pc[t] = "clean"
    /\ path' = IF CanUnlink(t) /\ dir = "writable" THEN Free ELSE path
    /\ Go(t, "delay")
    /\ UNCHANGED <<retries, dir, conn, ran>>

\* Mutant of NextTry: the retry is not counted.
NextTryUncounted(t) ==
    /\ pc[t] = "delay" /\ ThreadFree(t)
    /\ Go(t, "listen")
    /\ UNCHANGED <<retries, path, dir, conn, ran>>

\* The end of an iteration, with or without a wait of retryDelayMs.
NextTry(t) ==
    /\ pc[t] = "delay" /\ ThreadFree(t)
    /\ retries' = [retries EXCEPT ![t] = @ + 1]
    /\ Go(t, "listen")
    /\ UNCHANGED <<path, dir, conn, ran>>

-----------------------------------------------------------------------------
\* A process dies.  Its pipe goes with it, its socket file stays behind.
Crash(p) ==
    /\ p \in Mortal
    /\ \E t \in Tasks : ProcOf[t] = p /\ pc[t] # "dead"
    /\ pc' = [t \in Tasks |-> IF ProcOf[t] = p THEN "dead" ELSE pc[t]]
    /\ path' = IF NamedPipes /\ path # Free /\ ProcOf[path] = p THEN Free ELSE path
    /\ conn' = [t \in Tasks |->
                  IF ProcOf[t] = p THEN NoConn
                  ELSE IF conn[t] \in Tasks /\ ProcOf[conn[t]] = p THEN Reset
                  ELSE conn[t]]
    /\ UNCHANGED <<retries, dir, ran>>

\* What a call does by itself, the end of fn included.
Step(t) ==
    \/ Bind(t) \/ StartListening(t) \/ BindFails(t)
    \/ FnSettles(t) \/ HandOver(t)
    \/ GiveUp(t) \/ Probe(t) \/ StartMkdir(t) \/ MkdirSucceeds(t) \/ MkdirFails(t)
    \/ ProbeAnswered(t) \/ ProbeReset(t) \/ Clean(t) \/ NextTry(t)

Next ==
    \/ \E t \in Tasks : Step(t) \/ ManualRelease(t)
    \/ \E p \in Procs : Crash(p)

Spec == Init /\ [][Next]_vars

\* The event loop of a live process runs on, and fn settles.  Nothing obliges
\* the owner of a releaser to call it.
FairSpec == Spec /\ \A t \in Tasks : WF_vars(Step(t))

-----------------------------------------------------------------------------
(***************************************************************************)
(* Properties                                                              *)
(***************************************************************************)

\* Where the lock is a lock: on Windows, and elsewhere among the calls of one
\* process that does not die, if a closed server never shows as a reset.
SafeHere ==
    \/ NamedPipes
    \/ ~CloseResets /\ Mortal = {} /\ \A t, u \in Tasks : ProcOf[t] = ProcOf[u]

\* At most one call runs its fn or keeps the releaser at any time, across all
\* processes (the class comment of NodeIPCMutex).
MutualExclusion ==
    \A t, u \in Tasks : pc[t] \in Holding /\ pc[u] \in Holding => t = u

\* The inductive form, where SafeHere: the holder is the one at the path, the
\* path names a live holder, and no call ever decides to delete the path.
Inv ==
    /\ TypeOK /\ RetryLeft
    /\ \A t \in Tasks : pc[t] \in Holding \cup {"bound"} => path = t
    /\ path # Free => pc[path] \in Holding \cup {"bound"}
    /\ \A t \in Tasks : pc[t] # "clean"
    /\ NamedPipes => \A t \in Tasks : pc[t] # "bound"

\* A call that gives up the lock as unobtainable never had it.
GivesUpWithoutLock == \A t \in Tasks : pc[t] = "gaveup" => ~ran[t]

\* The abstract lock: bind is not yet possession, listening is.
LockStage == [t \in Tasks |->
    IF pc[t] \in Waiting THEN "waiting"
    ELSE IF pc[t] \in Holding THEN "holding"
    ELSE IF pc[t] \in Answered THEN "finished"
    ELSE "dead"]
Lock == INSTANCE Mutex WITH Calls <- Tasks, stage <- LockStage
Implements == Lock!Spec

\* Every call is answered, unless its process dies first: the retries bound
\* the polling however long another call holds the lock.
CallsEnd == \A t \in Tasks :
    <>(pc[t] \in Answered \cup {"held", "dead"})

\* The socket file of a dead process does not block the lock: one call of the
\* same user with a retry left has it removed.
DeadHolderCleared == \A d, t \in Tasks :
    ( /\ pc[d] = "dead" /\ path = d /\ dir = "writable"
      /\ <<ProcOf[t], ProcOf[d]>> \in Access
      /\ pc[t] = "listen" /\ retries[t] < MaxRetries )
        ~> (path # d \/ pc[t] = "dead")

\* The file of a live server disappears under it only when a call acts on a
\* verdict "stale" that is out of date, or when a server that had lost its own
\* file closes.
LosesFileOnlyTo == \A u \in Tasks :
    (path = u /\ path' # u /\ pc[u] \in Holding /\ pc'[u] \in Holding) =>
        \E t \in Tasks \ {u} :
            \/ pc[t] = "clean" /\ pc'[t] = "delay"
            \/ pc[t] \in Holding /\ pc'[t] \notin Holding
FileLossCauses == [][LosesFileOnlyTo]_vars
=============================================================================
