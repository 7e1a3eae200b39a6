---------------------------- MODULE SudoProtocol ----------------------------
(***************************************************************************)
(* Commands that need root on Linux: CommandExecutor.ExecSudoAsync and     *)
(* endSudoProcessMaster of one window, and the master, the script          *)
(* interprocess-communicator.sh that runs as root once the user has given  *)
(* a password.  They talk through files of a directory of the window.      *)
(*                                                                         *)
(* Each call of ExecSudoAsync is two threads: the one that checks that a   *)
(* master is alive and hands the command over, under the sudo lock, and    *)
(* startupSudoProc, which nobody awaits: it checks as well, over the same  *)
(* files, or prompts for the password, and may go on after the call has    *)
(* ended.  A master is named by the call whose prompt started it.          *)
(***************************************************************************)
EXTENDS Naturals, FiniteSets

CONSTANTS
    Commands,       \* calls of ExecSudoAsync
    Ends,           \* calls of endSudoProcessMaster
    Terminal,       \* the commands with terminalFailure
    Nobody          \* no command, and no holder of the lock

\* command.txt may be there without its text.
Empty == "empty"

ASSUME CallsAssumption ==
    /\ Commands \cap Ends = {} /\ Nobody \notin Commands \cup Ends
    /\ Empty \notin Commands /\ Empty # Nobody
    /\ Terminal \subseteq Commands

Calls == Commands \cup Ends
Threads == (Calls \X {"main"}) \cup (Commands \X {"startup"})
Main(c) == <<c, "main">>
Startup(c) == <<c, "startup">>

VARIABLES
    pc,             \* where each thread is
    sudoLock,       \* holder of RUN_UNDER_SUDO_LOCK
    spawned,        \* everSpawnedSudoSuccessfully
    sudoError,      \* sudoError is not null
    dir,            \* the communication directory exists
    files,          \* what is in it
    master,         \* the masters and their COMMANDARGS
    answer,         \* history: the command whose status a call returned
    runs,           \* history: how often each command was run, 2 for more
    torn,           \* history: a master read a command file with no command in it
    late,           \* history: a call stopped waiting for its output
    crowd           \* history: a second master started beside a live one

windowVars == <<sudoLock, spawned, sudoError>>
historyVars == <<answer, runs, torn, late, crowd>>
vars == <<pc, windowVars, dir, files, master, historyVars>>

Failed == "failed"
CheckStages == {"wipe", "create", "confirm", "await"}
Exchanging == {"submit", "createCommand", "fill", "result", "cleanup"}
MainStages == {"idle", "lock", "done", Failed} \cup CheckStages \cup Exchanging
StartupStages == {"off", "asked", "late", "over"} \cup CheckStages

NoFiles == [ok |-> FALSE, exit |-> FALSE, output |-> FALSE, command |-> Nobody, status |-> Nobody]
Live == {"look", "read", "run", "ran", "signals"}

TypeOK ==
    /\ pc \in [Threads -> MainStages \cup StartupStages]
    /\ \A c \in Calls : pc[Main(c)] \in MainStages
    /\ \A c \in Commands : pc[Startup(c)] \in StartupStages
    /\ sudoLock \in Calls \cup {Nobody}
    /\ {spawned, sudoError, dir, torn, late, crowd} \subseteq BOOLEAN
    /\ files \in [ok : BOOLEAN, exit : BOOLEAN, output : BOOLEAN,
                  command : Commands \cup {Nobody, Empty}, status : Commands \cup {Nobody}]
    /\ ~ dir => files = NoFiles
    /\ master \in [Commands -> [pc : {"none", "gone", "deaf"} \cup Live, args : Commands \cup {Nobody}]]
    /\ answer \in [Commands -> Commands \cup {Nobody}]
    /\ runs \in [Commands -> 0 .. 2]

Init ==
    /\ pc = [t \in Threads |-> IF t[2] = "main" THEN "idle" ELSE "off"]
    /\ sudoLock = Nobody /\ spawned = FALSE /\ sudoError = FALSE
    /\ dir = FALSE /\ files = NoFiles
    /\ master = [c \in Commands |-> [pc |-> "none", args |-> Nobody]]
    /\ answer = [c \in Commands |-> Nobody] /\ runs = [c \in Commands |-> 0]
    /\ torn = FALSE /\ late = FALSE /\ crowd = FALSE

-----------------------------------------------------------------------------
Go(t, stage) == pc' = [pc EXCEPT ![t] = stage]

\* The call is over and gives up the lock.
Leave(c, stage) == Go(Main(c), stage) /\ sudoLock' = Nobody

\* An error: of startupSudoProc it is swallowed.
Throw(t) ==
    IF t[2] = "main" THEN Leave(t[1], Failed) ELSE Go(t, "over") /\ UNCHANGED sudoLock

\* ExecSudoAsync up to its lock
Call(c) ==
    /\ pc[Main(c)] = "idle"
    /\ dir' = TRUE
    /\ Go(Main(c), "lock")
    /\ UNCHANGED <<windowVars, files, master, historyVars>>

\* Mutant of Locked: a check is made whatever was spawned.
LockedAlwaysChecks(c) ==
    /\ pc[Main(c)] = "lock" /\ sudoLock = Nobody
    /\ sudoLock' = c
    /\ pc' = [pc EXCEPT ![Main(c)] = "wipe", ![Startup(c)] = "wipe"]
    /\ UNCHANGED <<spawned, sudoError, dir, files, master, historyVars>>

\* Mutant of Locked: commands are not kept apart.
LockedTogether(c) ==
    /\ pc[Main(c)] = "lock"
    /\ sudoLock' = c
    /\ pc' = [pc EXCEPT ![Main(c)] = "wipe", ![Startup(c)] = IF spawned THEN "wipe" ELSE "asked"]
    /\ UNCHANGED <<spawned, sudoError, dir, files, master, historyVars>>

\* Both threads start: startupSudoProc prompts at once when no master was ever alive.
Locked(c) ==
    /\ pc[Main(c)] = "lock" /\ sudoLock = Nobody
    /\ sudoLock' = c
    /\ pc' = [pc EXCEPT ![Main(c)] = "wipe", ![Startup(c)] = IF spawned THEN "wipe" ELSE "asked"]
    /\ UNCHANGED <<spawned, sudoError, dir, files, master, historyVars>>

\* The lock is held too long, by another call or in another window.
LockTimesOut(c) ==
    /\ pc[Main(c)] = "lock"
    /\ Go(Main(c), Failed)
    /\ UNCHANGED <<windowVars, dir, files, master, historyVars>>

-----------------------------------------------------------------------------
(***************************************************************************)
(* sudoProcIsLive                                                          *)
(***************************************************************************)

\* wipeDirectory, by a check or by endSudoProcessMaster
Wipe(t) ==
    /\ pc[t] = "wipe"
    /\ files' = NoFiles
    /\ Go(t, "create")
    /\ UNCHANGED <<windowVars, dir, master, historyVars>>

\* writeFileOntoDisk makes ok.txt, or exit.txt ...
Create(t) ==
    /\ pc[t] = "create"
    /\ files' = IF t[1] \in Ends THEN [files EXCEPT !.exit = TRUE] ELSE [files EXCEPT !.ok = TRUE]
    /\ dir' = TRUE
    /\ Go(t, "confirm")
    /\ UNCHANGED <<windowVars, master, historyVars>>

Signal(t) == IF t[1] \in Ends THEN files.exit ELSE files.ok

\* ... and reads it, which fails when it has been deleted by then.
Confirm(t) ==
    /\ pc[t] = "confirm"
    /\ IF Signal(t) THEN Go(t, "await") /\ UNCHANGED sudoLock ELSE Throw(t)
    /\ UNCHANGED <<spawned, sudoError, dir, files, master, historyVars>>

\* The error that a prompt has left is taken and thrown.
TakesError(t) ==
    /\ pc[t] = "await" /\ t[1] \in Commands /\ sudoError
    /\ sudoError' = FALSE
    /\ Throw(t)
    /\ UNCHANGED <<spawned, dir, files, master, historyVars>>

\* ok.txt is gone: a master is taken to be alive.
Alive(t) ==
    /\ pc[t] = "await" /\ t[1] \in Commands /\ ~ sudoError /\ ~ files.ok
    /\ spawned' = TRUE
    /\ Go(t, IF t[2] = "main" THEN "submit" ELSE "over")
    /\ UNCHANGED <<sudoLock, sudoError, dir, files, master, historyVars>>

\* The wait is over: startupSudoProc prompts, the call fails or hands over all the same.
NotAlive(t) ==
    /\ pc[t] = "await" /\ t[1] \in Commands /\ ~ sudoError
    /\ IF t[2] = "startup" THEN Go(t, "asked") /\ UNCHANGED sudoLock
       ELSE IF t[1] \in Terminal THEN Leave(t[1], Failed)
       ELSE Go(t, "submit") /\ UNCHANGED sudoLock
    /\ UNCHANGED <<spawned, sudoError, dir, files, master, historyVars>>

-----------------------------------------------------------------------------
(***************************************************************************)
(* execElevated: the prompt                                                *)
(***************************************************************************)
Prompted(c) == pc[Startup(c)] \in {"asked", "late"}

\* The password is given, and a master starts.
Accepts(c) ==
    /\ Prompted(c)
    /\ master' = [master EXCEPT ![c].pc = "look"]
    /\ crowd' = (crowd \/ \E m \in Commands : master[m].pc \in Live)
    /\ Go(Startup(c), "over")
    /\ UNCHANGED <<windowVars, dir, files, answer, runs, torn, late>>

Refuses(c) ==
    /\ Prompted(c)
    /\ sudoError' = TRUE
    /\ Go(Startup(c), "over")
    /\ UNCHANGED <<sudoLock, spawned, dir, files, master, historyVars>>

\* The promise is rejected; the prompt stays on the screen.
PromptTimesOut(c) ==
    /\ pc[Startup(c)] = "asked"
    /\ sudoError' = TRUE
    /\ Go(Startup(c), "late")
    /\ UNCHANGED <<sudoLock, spawned, dir, files, master, historyVars>>

-----------------------------------------------------------------------------
(***************************************************************************)
(* executeSudoViaProcessCommunication                                      *)
(***************************************************************************)

Submit(c) ==
    /\ pc[Main(c)] = "submit"
    /\ files' = NoFiles
    /\ Go(Main(c), "createCommand")
    /\ UNCHANGED <<windowVars, dir, master, historyVars>>

\* writeFileOntoDisk makes an empty command.txt ...
CreateCommand(c) ==
    /\ pc[Main(c)] = "createCommand"
    /\ files' = [files EXCEPT !.command = Empty] /\ dir' = TRUE
    /\ Go(Main(c), "fill")
    /\ UNCHANGED <<windowVars, master, historyVars>>

\* ... reads it, and writes the command.
Fill(c) ==
    /\ pc[Main(c)] = "fill"
    /\ IF files.command = Nobody THEN Throw(Main(c)) /\ UNCHANGED files
       ELSE /\ files' = [files EXCEPT !.command = c]
            /\ Go(Main(c), "result") /\ UNCHANGED sudoLock
    /\ UNCHANGED <<spawned, sudoError, dir, master, historyVars>>

\* output.txt is there or the wait is over: the results are read, which fails
\* when they are missing.  A terminal command throws unless its status is 0.
Result(c) ==
    /\ pc[Main(c)] = "result"
    /\ late' = (late \/ ~ files.output)
    /\ answer' = [answer EXCEPT ![c] = files.status]
    /\ \/ /\ files.status # Nobody
          /\ Go(Main(c), "cleanup") /\ UNCHANGED sudoLock
       \/ /\ files.status = Nobody \/ c \in Terminal
          /\ Throw(Main(c))
    /\ UNCHANGED <<spawned, sudoError, dir, files, master, runs, torn, crowd>>

Cleanup(c) ==
    /\ pc[Main(c)] = "cleanup"
    /\ files' = NoFiles
    /\ Leave(c, "done")
    /\ UNCHANGED <<spawned, sudoError, dir, master, historyVars>>

-----------------------------------------------------------------------------
(***************************************************************************)
(* endSudoProcessMaster: Wipe, Create and Confirm make exit.txt            *)
(***************************************************************************)
End(e) ==
    /\ pc[Main(e)] = "idle"
    /\ Go(Main(e), IF spawned THEN "lock" ELSE "done")
    /\ UNCHANGED <<windowVars, dir, files, master, historyVars>>

EndLocked(e) ==
    /\ pc[Main(e)] = "lock" /\ sudoLock = Nobody
    /\ sudoLock' = e
    /\ Go(Main(e), "wipe")
    /\ UNCHANGED <<spawned, sudoError, dir, files, master, historyVars>>

\* exit.txt is gone, or the wait is over; then the lock is released and the
\* directory removed, with no await in between.
EndAwaits(e) ==
    /\ pc[Main(e)] = "await"
    /\ \/ ~ files.exit /\ spawned' = FALSE
       \/ UNCHANGED spawned
    /\ files' = NoFiles /\ dir' = FALSE
    /\ Leave(e, "done")
    /\ UNCHANGED <<sudoError, master, historyVars>>

-----------------------------------------------------------------------------
(***************************************************************************)
(* The master's loop                                                       *)
(***************************************************************************)

\* The script ends, and its trap removes two files.
Exits(m, left) ==
    /\ master' = [master EXCEPT ![m].pc = "gone"]
    /\ files' = [left EXCEPT !.command = Nobody, !.ok = FALSE]

\* test -f command.txt
Look(m) ==
    /\ master[m].pc = "look"
    /\ master' = [master EXCEPT ![m].pc = IF files.command # Nobody THEN "read" ELSE "signals"]
    /\ UNCHANGED <<pc, windowVars, dir, files, historyVars>>

\* cat command.txt.  COMMANDARGS are set if it holds a command and otherwise keep
\* what they had; without any the script exits.
Read(m) ==
    /\ master[m].pc = "read"
    /\ LET args == IF files.command \in Commands THEN files.command ELSE master[m].args IN
         IF args = Nobody THEN Exits(m, files)
         ELSE master' = [master EXCEPT ![m] = [pc |-> "run", args |-> args]] /\ UNCHANGED files
    /\ torn' = (torn \/ files.command \notin Commands)
    /\ UNCHANGED <<pc, windowVars, dir, answer, runs, late, crowd>>

\* Mutant of Run: the directory is not needed.
RunAnywhere(m) ==
    /\ master[m].pc = "run"
    /\ master' = [master EXCEPT ![m].pc = "ran"]
    /\ files' = [files EXCEPT !.status = master[m].args]
    /\ runs' = [runs EXCEPT ![master[m].args] = IF @ < 2 THEN @ + 1 ELSE 2]
    /\ UNCHANGED <<pc, windowVars, dir, answer, torn, late, crowd>>

\* The command runs and its status is written; without the directory the
\* redirections fail, and it does not run.
Run(m) ==
    /\ master[m].pc = "run"
    /\ master' = [master EXCEPT ![m].pc = "ran"]
    /\ IF dir THEN /\ files' = [files EXCEPT !.status = master[m].args]
                   /\ runs' = [runs EXCEPT ![master[m].args] = IF @ < 2 THEN @ + 1 ELSE 2]
       ELSE UNCHANGED <<files, runs>>
    /\ UNCHANGED <<pc, windowVars, dir, answer, torn, late, crowd>>

\* Mutant of Finish: command.txt stays.
FinishKeepsCommand(m) ==
    /\ master[m].pc = "ran"
    /\ files' = [files EXCEPT !.output = dir]
    /\ master' = [master EXCEPT ![m].pc = "signals"]
    /\ UNCHANGED <<pc, windowVars, dir, historyVars>>

\* command.txt is removed, whatever it holds by now, and output.txt made.
Finish(m) ==
    /\ master[m].pc = "ran"
    /\ files' = [files EXCEPT !.command = Nobody, !.output = dir]
    /\ master' = [master EXCEPT ![m].pc = "signals"]
    /\ UNCHANGED <<pc, windowVars, dir, historyVars>>

\* ok.txt and exit.txt
Signals(m) ==
    /\ master[m].pc = "signals"
    /\ IF files.exit THEN Exits(m, [files EXCEPT !.exit = FALSE])
       ELSE /\ files' = [files EXCEPT !.ok = FALSE]
            /\ master' = [master EXCEPT ![m].pc = "look"]
    /\ UNCHANGED <<pc, windowVars, dir, historyVars>>

\* An hour has passed: the inner loop ends, and the outer one does nothing for ever.
HourOver(m) ==
    /\ master[m].pc = "look"
    /\ master' = [master EXCEPT ![m].pc = "deaf"]
    /\ UNCHANGED <<pc, windowVars, dir, files, historyVars>>

-----------------------------------------------------------------------------
Next ==
    \/ \E t \in Threads : Wipe(t) \/ Create(t) \/ Confirm(t) \/ TakesError(t) \/ Alive(t) \/ NotAlive(t)
    \/ \E c \in Commands :
         \/ Call(c) \/ Locked(c) \/ Accepts(c) \/ Refuses(c) \/ PromptTimesOut(c)
         \/ Submit(c) \/ CreateCommand(c) \/ Fill(c) \/ Result(c) \/ Cleanup(c)
    \/ \E c \in Calls : LockTimesOut(c)
    \/ \E e \in Ends : End(e) \/ EndLocked(e) \/ EndAwaits(e)
    \/ \E m \in Commands : Look(m) \/ Read(m) \/ Run(m) \/ Finish(m) \/ Signals(m) \/ HourOver(m)

Spec == Init /\ [][Next]_vars

-----------------------------------------------------------------------------
(***************************************************************************)
(* Properties                                                              *)
(***************************************************************************)

\* A call returns the status of its own command (executeSudoViaProcessCommunication),
\* unless a master read command.txt when it had no command in it, a call stopped
\* waiting before its output was there, or two masters shared the files.
WrongAnswerCauses ==
    \A c \in Commands : answer[c] \notin {c, Nobody} => torn \/ late \/ crowd

\* A command is run as root at most once, also when its call stopped waiting for it,
\* except for the first and the last of these causes.
RunsTwiceCauses ==
    \A c \in Commands : runs[c] > 1 => torn \/ crowd

\* A command is run only while its call waits for it, except for the same three causes:
\* none is found by a later master, and none is left behind by an answered call.
RunsWhileAwaited ==
    \A c \in Commands : runs'[c] > runs[c] =>
        pc[Main(c)] \in {"fill", "result"} \/ torn \/ late \/ crowd
NeverRunsAlone == [][RunsWhileAwaited]_vars

\* No command is handed over before the user has given a password to some prompt: what
\* deletes the first ok.txt is a master, not another check (startupSudoProc checks only
\* after a master has been seen).
HandedToSomebody ==
    \A c \in Terminal : pc[Main(c)] \in Exchanging => \E m \in Commands : master[m].pc # "none"
=============================================================================
