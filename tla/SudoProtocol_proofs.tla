------------------------ MODULE SudoProtocol_proofs ------------------------
(***************************************************************************)
(* Proofs about SudoProtocol, for any commands and any ends of the master. *)
(***************************************************************************)
EXTENDS SudoProtocol, TLAPS

\* The main thread of a call is between taking RUN_UNDER_SUDO_LOCK and its end.
Inside(c) == pc[Main(c)] \in CheckStages \cup Exchanging

\* Threads are pairs, so that the stage of one says nothing of another.
LEMMA ThreadNames ==
    /\ \A c \in Calls : Main(c) \in Threads
    /\ \A c \in Commands : Startup(c) \in Threads /\ c \in Calls
    /\ \A e \in Ends : e \in Calls
    /\ \A c, d : Main(c) # Startup(d)
    /\ \A c, d : Main(c) = Main(d) => c = d
    /\ \A c, d : Startup(c) = Startup(d) => c = d
    /\ \A c : Main(c)[1] = c /\ Startup(c)[1] = c
    /\ \A c : Main(c)[2] = "main" /\ Startup(c)[2] = "startup"
    /\ \A t \in Threads : \/ t[1] \in Calls /\ t = Main(t[1])
                          \/ t[1] \in Commands /\ t = Startup(t[1])
  BY DEF Threads, Main, Startup, Calls

-----------------------------------------------------------------------------
(***************************************************************************)
(* One call at a time: a main thread that is inside has the lock.  No      *)
(* thread of startupSudoProc ever takes or releases it.                    *)
(***************************************************************************)
LockInv ==
    /\ pc = [t \in Threads |-> pc[t]]
    /\ \A c \in Calls : Inside(c) => sudoLock = c

\* What a step does to the main threads and the lock: nothing; one call takes the
\* lock or goes on inside; or it leaves.
OneMainMoves ==
    \E c \in Calls :
        /\ \A d \in Calls \ {c} : pc'[Main(d)] = pc[Main(d)]
        /\ \/ sudoLock' = sudoLock /\ (Inside(c)' => Inside(c))
           \/ sudoLock = Nobody /\ sudoLock' = c
           \/ Inside(c) /\ ~Inside(c)'

LEMMA OneMainKeepsLock ==
    ASSUME LockInv, OneMainMoves, pc' = [t \in Threads |-> pc'[t]]
    PROVE  LockInv'
  <1>1. PICK c \in Calls :
          /\ \A d \in Calls \ {c} : pc'[Main(d)] = pc[Main(d)]
          /\ \/ sudoLock' = sudoLock /\ (Inside(c)' => Inside(c))
             \/ sudoLock = Nobody /\ sudoLock' = c
             \/ Inside(c) /\ ~Inside(c)'
    BY DEF OneMainMoves
  <1>2. \A d \in Calls \ {c} : Inside(d)' <=> Inside(d)
    BY <1>1 DEF Inside
  <1>3. ASSUME NEW d \in Calls, Inside(d)' PROVE sudoLock' = d
    BY <1>1, <1>2, <1>3, CallsAssumption DEF LockInv, Calls
  <1> QED
    BY <1>3 DEF LockInv

\* The steps of sudoProcIsLive, for a main thread or one of startupSudoProc.
LEMMA CheckKeepsLock ==
    ASSUME LockInv, NEW t \in Threads,
           \/ Wipe(t) \/ Create(t) \/ Confirm(t) \/ TakesError(t) \/ Alive(t) \/ NotAlive(t)
    PROVE  LockInv'
  <1> USE DEF Wipe, Create, Confirm, TakesError, Alive, NotAlive, Throw, Leave, Go, windowVars
  <1>1. pc' = [u \in Threads |-> pc'[u]]
    BY DEF LockInv
  <1>2. CASE t[1] \in Calls /\ t = Main(t[1])
    <2>1. \A d \in Calls \ {t[1]} : pc'[Main(d)] = pc[Main(d)]
      BY <1>2, ThreadNames DEF LockInv
    <2>2. Inside(t[1])
      BY <1>2 DEF Inside, CheckStages
    <2>3. sudoLock' = sudoLock \/ ~Inside(t[1])'
      BY <1>2, ThreadNames DEF LockInv, Inside, CheckStages, Exchanging, Failed
    <2> QED
      BY <1>1, <1>2, <2>1, <2>2, <2>3, OneMainKeepsLock DEF OneMainMoves
  <1>3. CASE t[1] \in Commands /\ t = Startup(t[1])
    <2>1. \A d \in Calls : pc'[Main(d)] = pc[Main(d)]
      BY <1>3, ThreadNames DEF LockInv
    <2>2. sudoLock' = sudoLock
      BY <1>3, ThreadNames
    <2> QED
      BY <1>1, <2>1, <2>2 DEF LockInv, Inside
  <1> QED
    BY <1>2, <1>3, ThreadNames

\* The steps of a call that its own main thread takes.
LEMMA CallKeepsLock ==
    ASSUME LockInv, NEW c \in Calls,
           \/ /\ c \in Commands
              /\ \/ Call(c) \/ Locked(c) \/ Submit(c) \/ CreateCommand(c) \/ Fill(c) \/ Result(c)
                 \/ Cleanup(c)
           \/ LockTimesOut(c)
           \/ c \in Ends /\ (End(c) \/ EndLocked(c) \/ EndAwaits(c))
    PROVE  LockInv'
  <1> USE ThreadNames DEF LockInv, Throw, Leave, Go, windowVars, Inside, CheckStages, Exchanging,
          Failed
  <1>1. pc' = [t \in Threads |-> pc'[t]]
    BY DEF Call, Locked, Submit, CreateCommand, Fill, Result, Cleanup, LockTimesOut, End, EndLocked,
           EndAwaits
  <1>2. \A d \in Calls \ {c} : pc'[Main(d)] = pc[Main(d)]
    BY DEF Call, Locked, Submit, CreateCommand, Fill, Result, Cleanup, LockTimesOut, End, EndLocked,
           EndAwaits
  <1>3. \/ sudoLock' = sudoLock /\ (Inside(c)' => Inside(c))
        \/ sudoLock = Nobody /\ sudoLock' = c
        \/ Inside(c) /\ ~Inside(c)'
    <2>1. CASE Call(c) \/ LockTimesOut(c) \/ End(c)
      BY <2>1 DEF Call, LockTimesOut, End
    <2>2. CASE Locked(c) \/ EndLocked(c)
      BY <2>2 DEF Locked, EndLocked
    <2>3. CASE Submit(c) \/ CreateCommand(c) \/ Fill(c) \/ Result(c)
      BY <2>3 DEF Submit, CreateCommand, Fill, Result
    <2>4. CASE Cleanup(c) \/ EndAwaits(c)
      BY <2>4 DEF Cleanup, EndAwaits
    <2> QED
      BY <2>1, <2>2, <2>3, <2>4
  <1> QED
    BY <1>1, <1>2, <1>3, OneMainKeepsLock DEF OneMainMoves

\* The prompt of a call is answered by its startupSudoProc; a master has no lock.
LEMMA PromptKeepsLock ==
    ASSUME LockInv, NEW c \in Commands, Accepts(c) \/ Refuses(c) \/ PromptTimesOut(c)
    PROVE  LockInv'
  <1> USE DEF LockInv, Accepts, Refuses, PromptTimesOut, Go, windowVars
  <1>1. pc' = [t \in Threads |-> pc'[t]] /\ sudoLock' = sudoLock
    OBVIOUS
  <1>2. \A d \in Calls : pc'[Main(d)] = pc[Main(d)]
    BY ThreadNames
  <1> QED
    BY <1>1, <1>2 DEF Inside

LEMMA MasterKeepsLock ==
    ASSUME LockInv, NEW m \in Commands,
           Look(m) \/ Read(m) \/ Run(m) \/ Finish(m) \/ Signals(m) \/ HourOver(m)
    PROVE  LockInv'
  BY DEF LockInv, Inside, Look, Read, Run, Finish, Signals, HourOver, windowVars

LEMMA LockInvStep == LockInv /\ [Next]_vars => LockInv'
  <1>1. CASE UNCHANGED vars
    BY <1>1 DEF vars, windowVars, LockInv, Inside
  <1>2. ASSUME LockInv, Next PROVE LockInv'
    BY <1>2, CheckKeepsLock, CallKeepsLock, PromptKeepsLock, MasterKeepsLock, ThreadNames DEF Next
  <1> QED
    BY <1>1, <1>2

\* Commands and the end of the master go one at a time: between RUN_UNDER_SUDO_LOCK and
\* the end of the call no two are ever in the files together.
OneInside == \A c, d \in Calls : Inside(c) /\ Inside(d) => c = d

THEOREM OneAtATime == Spec => []OneInside
  <1>1. Init => LockInv
    BY ThreadNames DEF Init, LockInv, Inside, CheckStages, Exchanging
  <1>2. LockInv /\ [Next]_vars => LockInv'
    BY LockInvStep
  <1>3. LockInv => OneInside
    BY DEF LockInv, OneInside
  <1> QED
    BY <1>1, <1>2, <1>3, PTL DEF Spec

-----------------------------------------------------------------------------
(***************************************************************************)
(* Before the first master.  Nothing has been taken for one then, no       *)
(* startupSudoProc checks, no end has anything to do, and the one main     *)
(* thread that checks still finds the ok.txt it made.                      *)
(***************************************************************************)
NoMaster == \A m \in Commands : master[m].pc = "none"

Quiet ==
    /\ spawned = FALSE
    /\ \A c \in Commands : pc[Startup(c)] \notin CheckStages
    /\ \A c \in Commands : pc[Main(c)] \in {"confirm", "await"} => files.ok = TRUE
    /\ \A e \in Ends : pc[Main(e)] \in {"idle", "done"}
    /\ \A c \in Terminal : pc[Main(c)] \notin Exchanging

\* What the files and the masters are, as far as it is needed.
Shapes ==
    /\ "ok" \in DOMAIN files
    /\ master \in [Commands -> [pc : {"none", "gone", "deaf"} \cup Live,
                                 args : Commands \cup {Nobody}]]

SudoInv == LockInv /\ Shapes /\ (NoMaster => Quiet)

\* Once there was a master there always is one, dead or alive.
LEMMA MastersStay ==
    ASSUME Shapes, [Next]_vars
    PROVE  Shapes' /\ (NoMaster' => NoMaster /\ UNCHANGED master)
  <1> USE DEF Shapes, NoMaster, Live
  <1>1. ASSUME NEW t \in Threads,
               Wipe(t) \/ Create(t) \/ Confirm(t) \/ TakesError(t) \/ Alive(t) \/ NotAlive(t)
        PROVE  Shapes' /\ UNCHANGED master
    BY <1>1 DEF Wipe, Create, Confirm, TakesError, Alive, NotAlive, NoFiles
  <1>2. ASSUME NEW c \in Commands,
               \/ Call(c) \/ Locked(c) \/ Refuses(c) \/ PromptTimesOut(c) \/ Submit(c)
               \/ CreateCommand(c) \/ Fill(c) \/ Result(c) \/ Cleanup(c)
        PROVE  Shapes' /\ UNCHANGED master
    BY <1>2 DEF Call, Locked, Refuses, PromptTimesOut, Submit, CreateCommand, Fill, Result, Cleanup,
                NoFiles
  <1>3. ASSUME NEW c \in Commands, Accepts(c) PROVE Shapes' /\ ~NoMaster'
    BY <1>3 DEF Accepts, Live
  <1>4. ASSUME NEW c \in Calls, LockTimesOut(c) \/ End(c) \/ EndLocked(c) \/ EndAwaits(c)
        PROVE  Shapes' /\ UNCHANGED master
    BY <1>4 DEF LockTimesOut, End, EndLocked, EndAwaits, NoFiles
  <1>5. ASSUME NEW m \in Commands,
               Look(m) \/ Read(m) \/ Run(m) \/ Finish(m) \/ Signals(m) \/ HourOver(m)
        PROVE  Shapes' /\ ~NoMaster'
    <2>1. CASE Look(m)
      BY <2>1 DEF Look
    <2>2. CASE Read(m)
      <3> DEFINE args == IF files.command \in Commands THEN files.command ELSE master[m].args
      <3>1. args \in Commands \cup {Nobody}
        OBVIOUS
      <3>2. CASE args = Nobody
        BY <2>2, <3>2 DEF Read, Exits
      <3>3. CASE args # Nobody
        <4>1. /\ master' = [master EXCEPT ![m] = [pc |-> "run", args |-> args]]
              /\ UNCHANGED files
          BY <2>2, <3>3 DEF Read
        <4> QED
          BY <3>1, <3>3, <4>1
      <3> QED
        BY <3>2, <3>3
    <2>3. CASE Run(m)
      BY <2>3 DEF Run
    <2>4. CASE Finish(m)
      BY <2>4 DEF Finish
    <2>5. CASE Signals(m)
      <3>1. master' = [master EXCEPT ![m].pc = "gone"] \/ master' = [master EXCEPT ![m].pc = "look"]
        BY <2>5 DEF Signals, Exits
      <3>2. "ok" \in DOMAIN files'
        BY <2>5 DEF Signals, Exits
      <3> QED
        BY <3>1, <3>2
    <2>6. CASE HourOver(m)
      BY <2>6 DEF HourOver
    <2> QED
      BY <1>5, <2>1, <2>2, <2>3, <2>4, <2>5, <2>6
  <1>6. CASE UNCHANGED vars
    BY <1>6 DEF vars
  <1> QED
    BY <1>1, <1>2, <1>3, <1>4, <1>5, <1>6, ThreadNames DEF Next

\* Before the first master a step of a check is one of a command's main thread.
LEMMA QuietCheck ==
    ASSUME LockInv, Shapes, Quiet, NEW t \in Threads,
           \/ Wipe(t) \/ Create(t) \/ Confirm(t) \/ TakesError(t) \/ Alive(t) \/ NotAlive(t)
    PROVE  Quiet'
  <1> DEFINE c == t[1]
  <1>1. c \in Commands /\ t = Main(c) /\ c \notin Ends
    BY ThreadNames, CallsAssumption
       DEF Quiet, Wipe, Create, Confirm, TakesError, Alive, NotAlive, CheckStages, Calls
  <1>2. \A d \in Commands \ {c} : pc[Main(d)] \notin CheckStages \cup Exchanging
    BY <1>1, ThreadNames
       DEF LockInv, Inside, Wipe, Create, Confirm, TakesError, Alive, NotAlive, CheckStages
  <1>3. /\ \A d \in Calls \ {c} : pc'[Main(d)] = pc[Main(d)]
        /\ \A d \in Commands : pc'[Startup(d)] = pc[Startup(d)]
    BY <1>1, ThreadNames
       DEF LockInv, Wipe, Create, Confirm, TakesError, Alive, NotAlive, Throw, Leave, Go
  <1>4. spawned' = FALSE
    BY <1>1 DEF Quiet, Wipe, Create, Confirm, TakesError, Alive, NotAlive, windowVars, CheckStages
  <1>5. /\ pc'[Main(c)] \in {"confirm", "await"} => files'.ok = TRUE
        /\ c \in Terminal => pc'[Main(c)] \notin Exchanging
    <2> USE <1>1, ThreadNames DEF LockInv, Quiet, Throw, Leave, Go, Failed, Exchanging
    <2>1. CASE Wipe(t)
      BY <2>1 DEF Wipe
    <2>2. CASE Create(t)
      BY <2>2 DEF Create, Shapes
    <2>3. CASE Confirm(t)
      BY <2>3 DEF Confirm, Signal
    <2>4. CASE TakesError(t)
      BY <2>4 DEF TakesError
    <2>5. CASE Alive(t)
      BY <2>5 DEF Alive
    <2>6. CASE NotAlive(t)
      BY <2>6 DEF NotAlive
    <2> QED
      BY <2>1, <2>2, <2>3, <2>4, <2>5, <2>6
  <1>6. \A d \in Commands \ {c} : pc'[Main(d)] \notin CheckStages \cup Exchanging
    BY <1>2, <1>3, ThreadNames
  <1>7. \A d \in Commands : pc'[Main(d)] \in {"confirm", "await"} => files'.ok = TRUE
    BY <1>5, <1>6 DEF CheckStages
  <1>8. \A d \in Terminal : pc'[Main(d)] \notin Exchanging
    BY <1>5, <1>6, CallsAssumption
  <1>9. \A e \in Ends : pc'[Main(e)] \in {"idle", "done"}
    BY <1>1, <1>3, ThreadNames DEF Quiet
  <1> QED
    BY <1>3, <1>4, <1>7, <1>8, <1>9 DEF Quiet

\* The steps of a command outside its check.
LEMMA QuietCommand ==
    ASSUME LockInv, Shapes, Quiet, NEW c \in Commands,
           \/ Call(c) \/ Locked(c) \/ Submit(c) \/ CreateCommand(c) \/ Fill(c) \/ Result(c)
           \/ Cleanup(c) \/ LockTimesOut(c)
    PROVE  Quiet'
  <1> USE DEF Call, Locked, Submit, CreateCommand, Fill, Result, Cleanup, LockTimesOut
  <1>1. /\ \A d \in Calls \ {c} : pc'[Main(d)] = pc[Main(d)]
        /\ \A d \in Commands \ {c} : pc'[Startup(d)] = pc[Startup(d)]
    BY ThreadNames DEF LockInv, Throw, Leave, Go
  <1>2. spawned' = FALSE /\ pc'[Startup(c)] \notin CheckStages
    <2>1. CASE Locked(c)
      BY <2>1, ThreadNames DEF LockInv, Quiet, CheckStages
    <2>2. CASE ~Locked(c)
      <3>1. pc'[Startup(c)] = pc[Startup(c)]
        BY <2>2, ThreadNames DEF LockInv, Throw, Leave, Go
      <3>2. spawned' = spawned
        BY <2>2 DEF windowVars
      <3> QED
        BY <3>1, <3>2 DEF Quiet
    <2> QED
      BY <2>1, <2>2
  <1>3. /\ pc'[Main(c)] \notin {"confirm", "await"}
        /\ c \in Terminal => pc'[Main(c)] \notin Exchanging
    <2> USE ThreadNames DEF LockInv, Throw, Leave, Go, Failed, Exchanging
    <2>1. CASE Call(c) \/ Locked(c) \/ LockTimesOut(c) \/ Cleanup(c)
      BY <2>1
    <2>2. CASE Submit(c) \/ CreateCommand(c) \/ Fill(c) \/ Result(c)
      <3>1. c \notin Terminal
        BY <2>2 DEF Quiet
      <3>2. pc'[Main(c)] \notin {"confirm", "await"}
        BY <2>2
      <3> QED
        BY <3>1, <3>2
    <2> QED
      BY <2>1, <2>2
  <1>4. ASSUME NEW d \in Commands, pc'[Main(d)] \in {"confirm", "await"} PROVE files'.ok = TRUE
    <2>1. d # c /\ pc[Main(d)] \in {"confirm", "await"} /\ files.ok = TRUE /\ sudoLock = d
      BY <1>1, <1>3, <1>4, ThreadNames DEF Quiet, LockInv, Inside, CheckStages
    <2>2. Call(c) \/ LockTimesOut(c)
      BY <2>1, CallsAssumption, ThreadNames DEF LockInv, Inside, Exchanging, Calls
    <2> QED
      BY <2>1, <2>2
  <1>5. c \notin Ends
    BY CallsAssumption
  <1> QED
    BY <1>1, <1>2, <1>3, <1>4, <1>5, ThreadNames, CallsAssumption DEF Quiet

\* The prompt that is refused, or not answered in time.
LEMMA QuietPrompt ==
    ASSUME LockInv, Quiet, NEW c \in Commands, Refuses(c) \/ PromptTimesOut(c)
    PROVE  Quiet'
  <1> USE DEF Refuses, PromptTimesOut
  <1>1. /\ \A d \in Calls : pc'[Main(d)] = pc[Main(d)]
        /\ \A d \in Commands \ {c} : pc'[Startup(d)] = pc[Startup(d)]
        /\ pc'[Startup(c)] \notin CheckStages
    BY ThreadNames DEF LockInv, Go, CheckStages
  <1>2. spawned' = spawned /\ files' = files
    OBVIOUS
  <1> QED
    BY <1>1, <1>2, ThreadNames, CallsAssumption DEF Quiet

\* endSudoProcessMaster finds that no master was ever seen.
LEMMA QuietEnd ==
    ASSUME LockInv, Quiet, NEW e \in Ends,
           LockTimesOut(e) \/ End(e) \/ EndLocked(e) \/ EndAwaits(e)
    PROVE  Quiet'
  <1>1. End(e) /\ pc' = [pc EXCEPT ![Main(e)] = "done"]
    BY DEF Quiet, LockTimesOut, End, EndLocked, EndAwaits, Go
  <1>2. /\ \A d \in Calls \ {e} : pc'[Main(d)] = pc[Main(d)]
        /\ \A d \in Commands : pc'[Startup(d)] = pc[Startup(d)]
        /\ pc'[Main(e)] = "done"
    BY <1>1, ThreadNames DEF LockInv
  <1>3. e \notin Commands /\ spawned' = spawned /\ files' = files
    BY <1>1, CallsAssumption DEF End, windowVars
  <1> QED
    BY <1>2, <1>3, ThreadNames, CallsAssumption DEF Quiet

LEMMA SudoInvStep == SudoInv /\ [Next]_vars => SudoInv'
  <1> SUFFICES ASSUME SudoInv, [Next]_vars PROVE SudoInv'
    OBVIOUS
  <1>1. LockInv' /\ Shapes' /\ (NoMaster' => NoMaster /\ UNCHANGED master)
    BY LockInvStep, MastersStay DEF SudoInv
  <1>2. ASSUME NoMaster' PROVE Quiet'
    <2>1. NoMaster /\ UNCHANGED master /\ Quiet /\ LockInv /\ Shapes
      BY <1>1, <1>2 DEF SudoInv
    <2>2. CASE UNCHANGED vars
      BY <2>1, <2>2 DEF vars, windowVars, Quiet
    <2>3. ASSUME NEW c \in Commands, Accepts(c) PROVE FALSE
      BY <1>2, <2>1, <2>3 DEF Accepts, NoMaster, Shapes
    <2>4. ASSUME NEW m \in Commands,
                 Look(m) \/ Read(m) \/ Run(m) \/ Finish(m) \/ Signals(m) \/ HourOver(m)
          PROVE  FALSE
      BY <2>1, <2>4 DEF NoMaster, Look, Read, Run, Finish, Signals, HourOver
    <2> QED
      BY <2>1, <2>2, <2>3, <2>4, QuietCheck, QuietCommand, QuietPrompt, QuietEnd
         DEF Next, Calls
  <1> QED
    BY <1>1, <1>2 DEF SudoInv

\* A terminal command is handed over only when a master has been started, by a password
\* that was given to some prompt: no other check of the window removes the ok.txt that
\* the first check has made.
THEOREM FirstCommandIsPrompted == Spec => []HandedToSomebody
  <1>1. Init => SudoInv
    BY ThreadNames, CallsAssumption
       DEF Init, SudoInv, LockInv, Shapes, NoMaster, Quiet, NoFiles, Inside, CheckStages, Exchanging
  <1>2. SudoInv /\ [Next]_vars => SudoInv'
    BY SudoInvStep
  <1>3. SudoInv => HandedToSomebody
    BY DEF SudoInv, NoMaster, Quiet, HandedToSomebody
  <1> QED
    BY <1>1, <1>2, <1>3, PTL DEF Spec

-----------------------------------------------------------------------------
(***************************************************************************)
(* Types, and that once the directory is gone nothing is left in it.       *)
(***************************************************************************)
FileTypes == [ok : BOOLEAN, exit : BOOLEAN, output : BOOLEAN,
              command : Commands \cup {Nobody, Empty}, status : Commands \cup {Nobody}]
MasterTypes == [pc : {"none", "gone", "deaf"} \cup Live, args : Commands \cup {Nobody}]

\* What a step makes of the files are files again.
LEMMA FileEdits ==
    ASSUME NEW f \in FileTypes, NEW b \in BOOLEAN, NEW c \in Commands \cup {Nobody}
    PROVE  /\ [f EXCEPT !.ok = b] \in FileTypes
           /\ [f EXCEPT !.exit = b] \in FileTypes
           /\ [f EXCEPT !.command = Empty] \in FileTypes
           /\ [f EXCEPT !.command = c] \in FileTypes
           /\ [f EXCEPT !.status = c] \in FileTypes
           /\ [f EXCEPT !.command = Nobody, !.output = b] \in FileTypes
           /\ [f EXCEPT !.command = Nobody, !.ok = FALSE] \in FileTypes
           /\ NoFiles \in FileTypes
  BY DEF FileTypes, NoFiles

\* The files are told apart by these five.
LEMMA SameFiles ==
    \A f \in FileTypes : f.ok = FALSE /\ f.exit = FALSE /\ f.output = FALSE /\ f.command = Nobody
        /\ f.status = Nobody => f = NoFiles
  BY DEF FileTypes, NoFiles

\* A thread that moves to a stage of its own kind.
LEMMA MovesInType ==
    ASSUME TypeOK, NEW t \in Threads, NEW stage,
           Go(t, stage), stage \in (IF t[2] = "main" THEN MainStages ELSE StartupStages)
    PROVE  /\ pc' \in [Threads -> MainStages \cup StartupStages]
           /\ \A c \in Calls : pc'[Main(c)] \in MainStages
           /\ \A c \in Commands : pc'[Startup(c)] \in StartupStages
  BY ThreadNames DEF TypeOK, Go

PcTypeOK ==
    /\ pc \in [Threads -> MainStages \cup StartupStages]
    /\ \A c \in Calls : pc[Main(c)] \in MainStages
    /\ \A c \in Commands : pc[Startup(c)] \in StartupStages

\* Every step keeps the types.
LEMMA TypeStep == TypeOK /\ [Next]_vars => TypeOK'
  <1> SUFFICES ASSUME TypeOK, [Next]_vars PROVE TypeOK'
    OBVIOUS
  <1> USE DEF windowVars, historyVars
  <1>0. files \in FileTypes
    BY DEF TypeOK, FileTypes
  <1>1. ASSUME NEW t \in Threads,
               Wipe(t) \/ Create(t) \/ Confirm(t) \/ TakesError(t) \/ Alive(t) \/ NotAlive(t)
        PROVE  TypeOK'
    <2>1. \E stage \in IF t[2] = "main" THEN MainStages ELSE StartupStages : Go(t, stage)
      BY <1>1, ThreadNames
         DEF Wipe, Create, Confirm, TakesError, Alive, NotAlive, Throw, Leave, MainStages,
             StartupStages, CheckStages, Exchanging
    <2>2. PcTypeOK'
      BY <2>1, MovesInType DEF PcTypeOK
    <2>3. /\ sudoLock' \in Calls \cup {Nobody}
          /\ {spawned', sudoError', dir', torn', late', crowd'} \subseteq BOOLEAN
          /\ UNCHANGED <<master, answer, runs>>
      BY <1>1 DEF TypeOK, Wipe, Create, Confirm, TakesError, Alive, NotAlive, Throw, Leave
    <2>4. files' \in FileTypes /\ (~dir' => files' = NoFiles)
      <3>1. \/ files' = NoFiles
            \/ dir' /\ (files' = [files EXCEPT !.exit = TRUE] \/ files' = [files EXCEPT !.ok = TRUE])
            \/ UNCHANGED <<dir, files>>
        BY <1>1 DEF Wipe, Create, Confirm, TakesError, Alive, NotAlive
      <3> QED
        BY <3>1, <1>0, FileEdits DEF TypeOK
    <2> QED
      BY <2>2, <2>3, <2>4 DEF TypeOK, PcTypeOK, FileTypes
  <1>2. ASSUME NEW c \in Calls,
               \/ /\ c \in Commands
                  /\ \/ Call(c) \/ Submit(c) \/ CreateCommand(c) \/ Fill(c) \/ Result(c) \/ Cleanup(c)
               \/ LockTimesOut(c)
               \/ c \in Ends /\ (End(c) \/ EndLocked(c) \/ EndAwaits(c))
        PROVE  TypeOK'
    <2> USE DEF Call, Submit, CreateCommand, Fill, Result, Cleanup, LockTimesOut, End, EndLocked,
                EndAwaits
    <2>1. \E stage \in MainStages : Go(Main(c), stage)
      BY <1>2, ThreadNames DEF Throw, Leave, MainStages, CheckStages, Exchanging
    <2>2. PcTypeOK'
      BY <2>1, MovesInType, ThreadNames DEF PcTypeOK
    <2>3. /\ sudoLock' \in Calls \cup {Nobody}
          /\ {spawned', sudoError', dir', torn', late', crowd'} \subseteq BOOLEAN
          /\ UNCHANGED <<master, runs>>
      BY <1>2, ThreadNames DEF TypeOK, Throw, Leave
    <2>4. files' \in FileTypes /\ (~dir' => files' = NoFiles)
      <3>1. \/ files' = NoFiles
            \/ dir' /\ (files' = files \/ files' = [files EXCEPT !.command = Empty])
            \/ files.command # Nobody /\ c \in Commands /\ files' = [files EXCEPT !.command = c] /\ dir' = dir
            \/ UNCHANGED <<dir, files>>
        BY <1>2
      <3>2. files.command # Nobody => dir
        BY DEF TypeOK, NoFiles
      <3>3. files' \in FileTypes
        <4> HIDE DEF Call, Submit, CreateCommand, Fill, Result, Cleanup, LockTimesOut, End,
                     EndLocked, EndAwaits
        <4>1. NoFiles \in FileTypes /\ [files EXCEPT !.command = Empty] \in FileTypes
          BY <1>0, FileEdits
        <4>2. \A d \in Commands : [files EXCEPT !.command = d] \in FileTypes
          BY <1>0, FileEdits
        <4> QED
          BY <3>1, <1>0, <4>1, <4>2
      <3>4. ~dir' => files' = NoFiles
        BY <3>1, <3>2 DEF TypeOK
      <3> QED
        BY <3>3, <3>4
    <2>5. answer' \in [Commands -> Commands \cup {Nobody}]
      BY <1>2 DEF TypeOK
    <2> QED
      BY <2>2, <2>3, <2>4, <2>5 DEF TypeOK, PcTypeOK, FileTypes
  <1>3. ASSUME NEW c \in Commands, Locked(c) \/ Accepts(c) \/ Refuses(c) \/ PromptTimesOut(c)
        PROVE  TypeOK'
    <2>1. PcTypeOK'
      <3>1. CASE Locked(c)
        BY <3>1, ThreadNames DEF Locked, TypeOK, PcTypeOK, MainStages, StartupStages, CheckStages
      <3>2. CASE ~Locked(c)
        <4>1. \E stage \in StartupStages : Go(Startup(c), stage)
          BY <1>3, <3>2 DEF Accepts, Refuses, PromptTimesOut, StartupStages
        <4> QED
          BY <4>1, MovesInType, ThreadNames DEF PcTypeOK
      <3> QED
        BY <3>1, <3>2
    <2>2. /\ sudoLock' \in Calls \cup {Nobody}
          /\ {spawned', sudoError', dir', torn', late', crowd'} \subseteq BOOLEAN
          /\ UNCHANGED <<dir, files, answer, runs>>
      BY <1>3, ThreadNames DEF Locked, Accepts, Refuses, PromptTimesOut, TypeOK
    <2>3. master' \in [Commands -> MasterTypes]
      BY <1>3 DEF Locked, Accepts, Refuses, PromptTimesOut, TypeOK, MasterTypes, Live
    <2> QED
      BY <2>1, <2>2, <2>3 DEF TypeOK, PcTypeOK, MasterTypes
  <1>4. ASSUME NEW m \in Commands,
               Look(m) \/ Read(m) \/ Run(m) \/ Finish(m) \/ Signals(m) \/ HourOver(m)
        PROVE  TypeOK'
    <2> USE DEF Look, Read, Run, Finish, Signals, HourOver, Exits
    <2>1. master' \in [Commands -> MasterTypes]
      <3>1. \/ \E at \in {"gone", "deaf"} \cup Live : master' = [master EXCEPT ![m].pc = at]
            \/ \E args \in Commands \cup {Nobody} :
                  master' = [master EXCEPT ![m] = [pc |-> "run", args |-> args]]
        BY <1>4 DEF TypeOK, Live
      <3> QED
        BY <3>1 DEF TypeOK, MasterTypes, Live
    <2>2. files' \in FileTypes /\ (~dir => files' = NoFiles)
      <3>1. \/ files' = files
            \/ files' = [files EXCEPT !.command = Nobody, !.ok = FALSE]
            \/ files' = [[files EXCEPT !.exit = FALSE] EXCEPT !.command = Nobody, !.ok = FALSE]
            \/ files' = [files EXCEPT !.ok = FALSE]
            \/ files' = [files EXCEPT !.command = Nobody, !.output = dir]
            \/ dir /\ files' = [files EXCEPT !.status = master[m].args]
        BY <1>4
      <3>2. dir \in BOOLEAN /\ master[m].args \in Commands \cup {Nobody}
        BY DEF TypeOK
      <3>3. [files EXCEPT !.exit = FALSE] \in FileTypes
        BY <1>0, FileEdits
      <3>4. files' \in FileTypes
        BY <3>1, <3>2, <3>3, <1>0, FileEdits
      <3>5. ASSUME ~dir PROVE files' = NoFiles
        <4>1. /\ files.ok = FALSE /\ files.exit = FALSE /\ files.output = FALSE
              /\ files.command = Nobody /\ files.status = Nobody
          BY <3>5 DEF TypeOK, NoFiles
        <4>2. dir = FALSE
          BY <3>2, <3>5
        <4> HIDE DEF Look, Read, Run, Finish, Signals, HourOver, Exits
        <4>3. /\ files'.ok = FALSE /\ files'.exit = FALSE /\ files'.output = FALSE
              /\ files'.command = Nobody /\ files'.status = Nobody
          BY <1>0, <3>1, <4>1, <4>2 DEF FileTypes
        <4> QED
          BY <3>4, <4>3, SameFiles
      <3> QED
        BY <3>4, <3>5
    <2>3. runs' \in [Commands -> 0 .. 2]
      <3>1. CASE Run(m)
        BY <3>1 DEF TypeOK
      <3>2. CASE ~Run(m)
        BY <1>4, <3>2 DEF TypeOK
      <3> QED
        BY <3>1, <3>2
    <2>4. /\ UNCHANGED <<pc, sudoLock, spawned, sudoError, dir, late, crowd, answer>>
          /\ torn' \in BOOLEAN
      BY <1>4 DEF TypeOK
    <2> QED
      BY <2>1, <2>2, <2>3, <2>4 DEF TypeOK, MasterTypes, FileTypes
  <1>5. CASE UNCHANGED vars
    BY <1>5 DEF vars, TypeOK
  <1> QED
    BY <1>1, <1>2, <1>3, <1>4, <1>5, ThreadNames DEF Next

-----------------------------------------------------------------------------
(***************************************************************************)
(* One master at a time, and what the causes excuse.                       *)
(***************************************************************************)
OneLive == \A m, n \in Commands : master[m].pc \in Live /\ master[n].pc \in Live => m = n
Busy(m) == master[m].pc \in {"run", "ran"}

\* The causes stay, and a second master is one of them.
LEMMA CausesStay ==
    ASSUME TypeOK, [Next]_vars
    PROVE  /\ (torn => torn') /\ (late => late') /\ (crowd => crowd')
           /\ OneLive /\ ~crowd' => OneLive'
  <1> USE DEF windowVars, historyVars, OneLive
  <1>1. ASSUME NEW t \in Threads,
               Wipe(t) \/ Create(t) \/ Confirm(t) \/ TakesError(t) \/ Alive(t) \/ NotAlive(t)
        PROVE  UNCHANGED <<torn, late, crowd, master>>
    BY <1>1 DEF Wipe, Create, Confirm, TakesError, Alive, NotAlive
  <1>2. ASSUME NEW c \in Commands,
               \/ Call(c) \/ Locked(c) \/ Refuses(c) \/ PromptTimesOut(c) \/ Submit(c)
               \/ CreateCommand(c) \/ Fill(c) \/ Result(c) \/ Cleanup(c)
        PROVE  UNCHANGED <<torn, crowd, master>> /\ (late => late')
    <2>1. UNCHANGED late \/ late' = (late \/ ~files.output)
      BY <1>2 DEF Call, Locked, Refuses, PromptTimesOut, Submit, CreateCommand, Fill, Result, Cleanup
    <2>2. UNCHANGED <<torn, crowd, master>>
      BY <1>2 DEF Call, Locked, Refuses, PromptTimesOut, Submit, CreateCommand, Fill, Result, Cleanup
    <2>3. late => late'
      BY <2>1, Zenon
    <2> QED
      BY <2>2, <2>3
  <1>3. ASSUME NEW c \in Commands, Accepts(c)
        PROVE  /\ UNCHANGED <<torn, late>> /\ (crowd => crowd')
               /\ ~crowd' => OneLive'
    <2>1. UNCHANGED <<torn, late>> /\ crowd' = (crowd \/ \E m \in Commands : master[m].pc \in Live)
      BY <1>3 DEF Accepts
    <2>2. crowd => crowd'
      BY <2>1, Zenon
    <2>3. ASSUME ~crowd' PROVE \A m \in Commands : master[m].pc \notin Live
      BY <2>1, <2>3, Zenon
    <2>4. \A m \in Commands \ {c} : master'[m] = master[m]
      BY <1>3 DEF Accepts, TypeOK
    <2> QED
      BY <2>1, <2>2, <2>3, <2>4
  <1>4. ASSUME NEW c \in Calls, LockTimesOut(c) \/ End(c) \/ EndLocked(c) \/ EndAwaits(c)
        PROVE  UNCHANGED <<torn, late, crowd, master>>
    BY <1>4 DEF LockTimesOut, End, EndLocked, EndAwaits
  <1>5. ASSUME NEW m \in Commands,
               Look(m) \/ Read(m) \/ Run(m) \/ Finish(m) \/ Signals(m) \/ HourOver(m)
        PROVE  /\ UNCHANGED <<late, crowd>> /\ (torn => torn')
               /\ OneLive => OneLive'
    <2>1. /\ master[m].pc \in Live
          /\ \A n \in Commands \ {m} : master'[n] = master[n]
      BY <1>5 DEF Look, Read, Run, Finish, Signals, HourOver, Exits, TypeOK, Live
    <2>2. /\ UNCHANGED <<late, crowd>>
          /\ UNCHANGED torn \/ torn' = (torn \/ files.command \notin Commands)
      BY <1>5 DEF Look, Read, Run, Finish, Signals, HourOver
    <2>3. torn => torn'
      BY <2>2, Zenon
    <2> QED
      BY <2>1, <2>2, <2>3
  <1>6. CASE UNCHANGED vars
    BY <1>6 DEF vars
  <1> QED
    BY <1>1, <1>2, <1>3, <1>4, <1>5, <1>6, ThreadNames DEF Next

-----------------------------------------------------------------------------
(***************************************************************************)
(* What a call waits for is its own.  As long as no cause has come about,  *)
(* a command is in the hands of a master only while its call waits for it. *)
(***************************************************************************)
Handing == {"createCommand", "fill", "result"}

Kept ==
    /\ OneLive
    /\ \A c \in Commands : files.command = c => pc[Main(c)] = "result"
    /\ \A m \in Commands : Busy(m) =>
          master[m].args \in Commands /\ pc[Main(master[m].args)] = "result"
    /\ files.output => files.command = Nobody /\ \A m \in Commands : ~Busy(m)
    /\ \A c \in Commands : pc[Main(c)] \in {"createCommand", "fill"} =>
          ~files.output /\ files.status = Nobody
    /\ \A c \in Commands : pc[Main(c)] = "result" => files.status \in {c, Nobody}
    /\ \A c \in Commands : answer[c] \in {c, Nobody}

KeptInv == torn \/ late \/ crowd \/ Kept

\* A step that only takes files away, and that no call enters or leaves the exchange with.
LEMMA ApartKeeps ==
    ASSUME Kept, UNCHANGED <<master, answer>>,
           files'.command \in {files.command, Nobody},
           files'.output => files.output,
           files'.status \in {files.status, Nobody},
           \A c \in Commands : pc'[Main(c)] = pc[Main(c)]
                               \/ {pc[Main(c)], pc'[Main(c)]} \cap Handing = {}
    PROVE  Kept'
  <1>1. \A c \in Commands : \A at \in Handing : pc'[Main(c)] = at <=> pc[Main(c)] = at
    OBVIOUS
  <1> QED
    BY <1>1, CallsAssumption DEF Kept, OneLive, Busy, Handing

\* The steps of sudoProcIsLive only take away, and are outside the exchange.
LEMMA CheckKeeps ==
    ASSUME TypeOK, Kept, NEW t \in Threads,
           Wipe(t) \/ Create(t) \/ Confirm(t) \/ TakesError(t) \/ Alive(t) \/ NotAlive(t)
    PROVE  Kept'
  <1>1. UNCHANGED <<master, answer>>
    BY DEF Wipe, Create, Confirm, TakesError, Alive, NotAlive, historyVars
  <1>2. \/ files' = NoFiles \/ files' = files
        \/ files' = [files EXCEPT !.exit = TRUE] \/ files' = [files EXCEPT !.ok = TRUE]
    BY DEF Wipe, Create, Confirm, TakesError, Alive, NotAlive
  <1>3. /\ files'.command \in {files.command, Nobody}
        /\ files'.output => files.output
        /\ files'.status \in {files.status, Nobody}
    BY <1>2 DEF TypeOK, NoFiles
  <1>4. \A c \in Commands : pc'[Main(c)] = pc[Main(c)]
                            \/ {pc[Main(c)], pc'[Main(c)]} \cap Handing = {}
    BY ThreadNames
       DEF Wipe, Create, Confirm, TakesError, Alive, NotAlive, Throw, Leave, Go, TypeOK, Handing, Failed
  <1> QED
    BY <1>1, <1>3, <1>4, ApartKeeps

\* So are those of a call before and after the exchange, of the prompts and of the ends.
LEMMA CallKeeps ==
    ASSUME TypeOK, Kept, NEW c \in Calls,
           \/ /\ c \in Commands
              /\ Call(c) \/ Locked(c) \/ Cleanup(c) \/ Refuses(c) \/ PromptTimesOut(c)
           \/ LockTimesOut(c)
           \/ c \in Ends /\ (End(c) \/ EndLocked(c) \/ EndAwaits(c))
    PROVE  Kept'
  <1> USE DEF Call, Locked, Cleanup, Refuses, PromptTimesOut, LockTimesOut, End, EndLocked, EndAwaits
  <1>1. UNCHANGED <<master, answer>>
    BY DEF historyVars
  <1>2. files' = NoFiles \/ files' = files
    OBVIOUS
  <1>3. /\ files'.command \in {files.command, Nobody}
        /\ files'.output => files.output
        /\ files'.status \in {files.status, Nobody}
    BY <1>2 DEF TypeOK, NoFiles
  <1>4. \A d \in Commands : pc'[Main(d)] = pc[Main(d)]
                            \/ {pc[Main(d)], pc'[Main(d)]} \cap Handing = {}
    BY ThreadNames, CallsAssumption DEF Leave, Go, TypeOK, Handing, Failed
  <1> QED
    BY <1>1, <1>3, <1>4, ApartKeeps

\* The exchange: Submit leaves no status of an earlier command, and an answer that is not
\* late is one after which no master has a command in hand.
LEMMA ExchangeKeeps ==
    ASSUME TypeOK, Kept, NEW c \in Commands,
           Submit(c) \/ CreateCommand(c) \/ Fill(c) \/ Result(c), ~late'
    PROVE  Kept'
  <1> USE DEF historyVars
  <1>0. files \in FileTypes /\ OneLive' /\ UNCHANGED master
    BY DEF TypeOK, FileTypes, Kept, OneLive, Submit, CreateCommand, Fill, Result
  <1>1. \A d \in Commands \ {c} : pc'[Main(d)] = pc[Main(d)]
    BY ThreadNames DEF Submit, CreateCommand, Fill, Result, Throw, Leave, Go, TypeOK
  <1>2. CASE Submit(c)
    <2>1. /\ pc[Main(c)] = "submit" /\ pc'[Main(c)] = "createCommand"
          /\ files'.command = Nobody /\ files'.output = FALSE /\ files'.status = Nobody
          /\ UNCHANGED answer
      BY <1>2, ThreadNames DEF Submit, Go, TypeOK, NoFiles
    <2> QED
      BY <1>0, <1>1, <2>1, CallsAssumption DEF Kept, Busy
  <1>3. CASE CreateCommand(c)
    <2>1. /\ pc[Main(c)] = "createCommand" /\ pc'[Main(c)] = "fill"
          /\ files'.command = Empty /\ files'.output = files.output /\ files'.status = files.status
          /\ UNCHANGED answer
      BY <1>0, <1>3, ThreadNames DEF CreateCommand, Go, TypeOK, FileTypes
    <2> QED
      BY <1>0, <1>1, <2>1, CallsAssumption DEF Kept, Busy
  <1>4. CASE Fill(c)
    <2>1. /\ pc[Main(c)] = "fill" /\ UNCHANGED answer
          /\ files'.output = files.output /\ files'.status = files.status
          /\ \/ files'.command = Nobody /\ pc'[Main(c)] = Failed
             \/ files'.command = c /\ pc'[Main(c)] = "result"
      BY <1>0, <1>4, ThreadNames DEF Fill, Throw, Leave, Go, TypeOK, FileTypes
    <2> QED
      BY <1>0, <1>1, <2>1, CallsAssumption DEF Kept, Busy, Failed
  <1>5. CASE Result(c)
    <2>0. files.output
      <3>1. late' = (late \/ ~files.output)
        BY <1>5 DEF Result
      <3> QED
        BY <3>1, Zenon
    <2>1. /\ pc[Main(c)] = "result" /\ pc'[Main(c)] \in {"cleanup", Failed}
          /\ files' = files
          /\ answer' = [answer EXCEPT ![c] = files.status]
      BY <1>0, <1>5, ThreadNames DEF Result, Throw, Leave, Go, TypeOK
    <2>2. \A d \in Commands : answer'[d] \in {d, Nobody}
      BY <2>1 DEF Kept, TypeOK
    <2> QED
      BY <1>0, <1>1, <2>0, <2>1, <2>2, CallsAssumption DEF Kept, Busy, Failed
  <1> QED
    BY <1>2, <1>3, <1>4, <1>5

\* When no signal is left to it, the master takes files away and no command into hand.
LEMMA SignalsTake ==
    ASSUME TypeOK, NEW m \in Commands, Signals(m)
    PROVE  /\ ~Busy(m)' /\ UNCHANGED <<runs, answer>>
           /\ files'.command \in {files.command, Nobody}
           /\ files'.output = files.output /\ files'.status = files.status
  <1> DEFINE left == [files EXCEPT !.exit = FALSE]
  <1>0. files \in FileTypes
    BY DEF TypeOK, FileTypes
  <1>1. left \in FileTypes /\ left.command = files.command
        /\ left.output = files.output /\ left.status = files.status
    BY <1>0, FileEdits DEF FileTypes
  <1> HIDE DEF left
  <1>2. \/ files' = [left EXCEPT !.command = Nobody, !.ok = FALSE]
        \/ files' = [files EXCEPT !.ok = FALSE]
    BY DEF Signals, Exits, left
  <1>3. ~Busy(m)' /\ UNCHANGED <<runs, answer>>
    BY DEF Signals, Exits, TypeOK, Busy, historyVars
  <1> QED
    BY <1>0, <1>1, <1>2, <1>3 DEF FileTypes

\* A master reads only a command whose call waits, and the call that waits is the only one
\* inside, so that its status is the one written.
LEMMA MasterKeeps ==
    ASSUME TypeOK, LockInv, Kept, OneLive', NEW m \in Commands,
           Look(m) \/ Read(m) \/ Run(m) \/ Finish(m) \/ Signals(m) \/ HourOver(m) \/ Accepts(m),
           ~torn'
    PROVE  Kept'
  <1> USE DEF historyVars, Busy
  <1>0. /\ files \in FileTypes /\ UNCHANGED answer
        /\ \A n \in Commands \ {m} : master'[n] = master[n]
    BY DEF TypeOK, FileTypes, Look, Read, Run, Finish, Signals, HourOver, Accepts, Exits
  <1>1. CASE Look(m) \/ Signals(m) \/ HourOver(m) \/ Accepts(m)
    <2>1. /\ ~Busy(m)'
          /\ files'.command \in {files.command, Nobody}
          /\ files'.output = files.output /\ files'.status = files.status
      <3>1. CASE Look(m) \/ HourOver(m) \/ Accepts(m)
        BY <1>0, <3>1 DEF Look, HourOver, Accepts, TypeOK
      <3>2. CASE Signals(m)
        BY <3>2, SignalsTake
      <3> QED
        BY <1>1, <3>1, <3>2
    <2>2. \A c \in Commands : pc'[Main(c)] = pc[Main(c)]
      BY <1>1, ThreadNames DEF Look, Signals, HourOver, Accepts, Go, TypeOK
    <2> QED
      BY <1>0, <2>1, <2>2, CallsAssumption DEF Kept
  <1>2. CASE Read(m)
    <2>1. /\ files.command \in Commands /\ files.command # Nobody
          /\ master'[m] = [pc |-> "run", args |-> files.command]
          /\ UNCHANGED <<pc, files>>
      BY <1>2, CallsAssumption DEF Read, TypeOK
    <2>2. Busy(m)' /\ master'[m].args = files.command
      BY <2>1
    <2> QED
      BY <1>0, <2>1, <2>2 DEF Kept
  <1>3. CASE Run(m)
    <2> DEFINE c == master[m].args
    <2>1. /\ Busy(m) /\ Busy(m)' /\ master'[m].args = c /\ UNCHANGED pc
          /\ files'.command = files.command /\ files'.output = files.output
          /\ files'.status \in {c, files.status}
      BY <1>0, <1>3 DEF Run, TypeOK, FileTypes
    <2>2. c \in Commands /\ pc[Main(c)] = "result" /\ ~files.output
      BY <2>1 DEF Kept
    <2>3. \A d \in Commands : pc[Main(d)] \in Handing => d = c
      BY <2>2, ThreadNames DEF LockInv, Inside, Exchanging, Handing
    <2> HIDE DEF c
    <2> QED
      BY <1>0, <2>1, <2>2, <2>3 DEF Kept, Handing
  <1>4. CASE Finish(m)
    <2> DEFINE c == master[m].args
    <2>1. /\ Busy(m) /\ ~Busy(m)' /\ UNCHANGED pc
          /\ files'.command = Nobody /\ files'.status = files.status
      BY <1>0, <1>4 DEF Finish, TypeOK, FileTypes
    <2>2. c \in Commands /\ pc[Main(c)] = "result"
      BY <2>1 DEF Kept
    <2>3. \A d \in Commands : pc[Main(d)] \in Handing => d = c
      BY <2>2, ThreadNames DEF LockInv, Inside, Exchanging, Handing
    <2>4. \A n \in Commands : ~Busy(n)'
      BY <1>0, <2>1 DEF Kept, OneLive, Live
    <2> HIDE DEF c
    <2> QED
      BY <1>0, <2>1, <2>2, <2>3, <2>4, CallsAssumption DEF Kept, Handing
  <1> QED
    BY <1>1, <1>2, <1>3, <1>4

\* Every step keeps it, by the kind of thread that takes it.
LEMMA KeptStep == TypeOK /\ LockInv /\ KeptInv /\ [Next]_vars => KeptInv'
  <1> SUFFICES ASSUME TypeOK, LockInv, KeptInv, [Next]_vars, ~torn', ~late', ~crowd' PROVE Kept'
    BY DEF KeptInv
  <1>1. Kept /\ OneLive'
    BY CausesStay DEF KeptInv, Kept
  <1>2. CASE UNCHANGED vars
    BY <1>1, <1>2 DEF vars, historyVars, Kept, OneLive, Busy
  <1> QED
    BY <1>1, <1>2, CheckKeeps, CallKeeps, ExchangeKeeps, MasterKeeps, ThreadNames DEF Next

-----------------------------------------------------------------------------
(***************************************************************************)
(* A command is read once.  It is written once, by its call, and removed   *)
(* by the master that has read it before that master looks again.          *)
(***************************************************************************)
Filled(c) == pc[Main(c)] \in {"result", "cleanup", "done", Failed}

Once ==
    /\ OneLive
    /\ \A c \in Commands : files.command = c \/ runs[c] > 0 => Filled(c)
    /\ \A m \in Commands : Busy(m) => master[m].args \in Commands /\ Filled(master[m].args)
    /\ \A m \in Commands : master[m].pc = "run" => runs[master[m].args] = 0
    /\ \A c \in Commands : runs[c] <= 1
    /\ \A c \in Commands : files.command = c /\ runs[c] > 0 =>
          \E m \in Commands : master[m].pc = "ran" /\ master[m].args = c

OnceInv == torn \/ crowd \/ Once

\* A step that writes no command, and with which nothing is run.
LEMMA ApartOnce ==
    ASSUME Once, UNCHANGED <<master, runs>>,
           files'.command \in {files.command, Nobody, Empty},
           \A c \in Commands : Filled(c) => Filled(c)'
    PROVE  Once'
  BY CallsAssumption DEF Once, OneLive, Busy

\* A check writes no command.
LEMMA CheckOnce ==
    ASSUME TypeOK, Once, NEW t \in Threads,
           Wipe(t) \/ Create(t) \/ Confirm(t) \/ TakesError(t) \/ Alive(t) \/ NotAlive(t)
    PROVE  Once'
  <1>1. UNCHANGED <<master, runs>>
    BY DEF Wipe, Create, Confirm, TakesError, Alive, NotAlive, historyVars
  <1>2. \/ files' = NoFiles \/ files' = files
        \/ files' = [files EXCEPT !.exit = TRUE] \/ files' = [files EXCEPT !.ok = TRUE]
    BY DEF Wipe, Create, Confirm, TakesError, Alive, NotAlive
  <1>3. files'.command \in {files.command, Nobody, Empty}
    BY <1>2 DEF TypeOK, NoFiles
  <1>4. \A c \in Commands : Filled(c) => Filled(c)'
    BY ThreadNames
       DEF Wipe, Create, Confirm, TakesError, Alive, NotAlive, Throw, Leave, Go, TypeOK, Filled, Failed
  <1> QED
    BY <1>1, <1>3, <1>4, ApartOnce

\* A call writes its command in one step only, which it never comes back to.
LEMMA CallOnce ==
    ASSUME TypeOK, Once, NEW c \in Calls,
           \/ /\ c \in Commands
              /\ \/ Call(c) \/ Locked(c) \/ Cleanup(c) \/ Refuses(c) \/ PromptTimesOut(c)
                 \/ Submit(c) \/ CreateCommand(c) \/ Fill(c) \/ Result(c)
           \/ LockTimesOut(c)
           \/ c \in Ends /\ (End(c) \/ EndLocked(c) \/ EndAwaits(c))
    PROVE  Once'
  <1> USE DEF Call, Locked, Cleanup, Refuses, PromptTimesOut, LockTimesOut, End, EndLocked, EndAwaits,
              Submit, CreateCommand, Result
  <1>1. UNCHANGED <<master, runs>>
    BY DEF historyVars, Fill
  <1>2. \A d \in Commands : Filled(d) => Filled(d)'
    BY ThreadNames, CallsAssumption DEF Fill, Throw, Leave, Go, TypeOK, Filled, Failed
  <1>3. CASE c \in Commands /\ Fill(c)
    <2>0. files \in FileTypes
      BY DEF TypeOK, FileTypes
    <2>1. CASE files' = files
      BY <1>1, <1>2, <2>1, ApartOnce
    <2>2. CASE files' # files
      <3>1. ~Filled(c) /\ Filled(c)'
        BY <1>3, <2>2, ThreadNames DEF Fill, Throw, Leave, Go, TypeOK, Filled, Failed
      <3>2. files'.command = c
        BY <1>3, <2>0, <2>2 DEF Fill, FileTypes
      <3>3. runs[c] = 0
        BY <1>3, <3>1 DEF Once, TypeOK
      <3> QED
        BY <1>1, <1>2, <3>1, <3>2, <3>3, CallsAssumption DEF Once, OneLive, Busy
    <2> QED
      BY <2>1, <2>2
  <1>4. CASE ~(c \in Commands /\ Fill(c))
    <2>1. files' = NoFiles \/ files' = files \/ files' = [files EXCEPT !.command = Empty]
      BY <1>4
    <2>2. files'.command \in {files.command, Nobody, Empty}
      BY <2>1 DEF TypeOK, NoFiles
    <2> QED
      BY <1>1, <1>2, <2>2, ApartOnce
  <1> QED
    BY <1>3, <1>4

\* A master that reads a command is the only one, and none is past running it.
LEMMA MasterOnce ==
    ASSUME TypeOK, Once, OneLive', NEW m \in Commands,
           Look(m) \/ Read(m) \/ Run(m) \/ Finish(m) \/ Signals(m) \/ HourOver(m) \/ Accepts(m),
           ~torn', ~crowd'
    PROVE  Once'
  <1> USE DEF historyVars, Busy
  <1>0. /\ files \in FileTypes
        /\ \A n \in Commands \ {m} : master'[n] = master[n]
        /\ \A c \in Commands : pc'[Main(c)] = pc[Main(c)]
    BY ThreadNames
       DEF TypeOK, FileTypes, Look, Read, Run, Finish, Signals, HourOver, Accepts, Exits, Go
  <1>1. \A c \in Commands : Filled(c)' <=> Filled(c)
    BY <1>0 DEF Filled
  <1>2. CASE Look(m) \/ Signals(m) \/ HourOver(m) \/ Accepts(m)
    <2>1. ~Busy(m)' /\ files'.command \in {files.command, Nobody} /\ UNCHANGED runs
      <3>1. CASE Look(m) \/ HourOver(m) \/ Accepts(m)
        BY <1>0, <3>1 DEF Look, HourOver, Accepts, TypeOK
      <3>2. CASE Signals(m)
        BY <3>2, SignalsTake
      <3> QED
        BY <1>2, <3>1, <3>2
    <2>2. master[m].pc # "ran"
      <3>1. CASE Accepts(m)
        <4>1. \A n \in Commands : master[n].pc \notin Live
          <5>1. crowd' = (crowd \/ \E n \in Commands : master[n].pc \in Live)
            BY <3>1 DEF Accepts
          <5> QED
            BY <5>1, Zenon
        <4> QED
          BY <4>1 DEF Live
      <3>2. CASE Look(m) \/ Signals(m) \/ HourOver(m)
        BY <3>2 DEF Look, Signals, HourOver
      <3> QED
        BY <1>2, <3>1, <3>2
    <2> QED
      BY <1>0, <1>1, <2>1, <2>2, CallsAssumption DEF Once
  <1>3. CASE Read(m)
    <2>1. /\ files.command \in Commands /\ files.command # Nobody
          /\ master'[m] = [pc |-> "run", args |-> files.command]
          /\ master[m].pc = "read" /\ UNCHANGED <<pc, files, runs>>
      BY <1>3, CallsAssumption DEF Read, TypeOK
    <2>2. runs[files.command] = 0
      BY <2>1 DEF Once, OneLive, Live, TypeOK
    <2>3. master'[m].pc = "run" /\ master'[m].args = files.command
      BY <2>1
    <2> QED
      BY <1>0, <1>1, <2>1, <2>2, <2>3 DEF Once
  <1>4. CASE Run(m)
    <2> DEFINE c == master[m].args
    <2>1. /\ master[m].pc = "run" /\ master'[m].pc = "ran" /\ master'[m].args = c
          /\ files'.command = files.command
      BY <1>0, <1>4 DEF Run, TypeOK, FileTypes
    <2>2. c \in Commands /\ Filled(c) /\ runs[c] = 0
      BY <2>1 DEF Once
    <2>3. runs' = runs \/ runs' = [runs EXCEPT ![c] = 1]
      BY <1>4, <2>2 DEF Run
    <2>4. /\ runs'[c] <= 1
          /\ \A d \in Commands \ {c} : runs'[d] = runs[d]
      BY <2>2, <2>3 DEF TypeOK
    <2>5. \A n \in Commands \ {m} : ~Busy(n)
      BY <2>1 DEF Once, OneLive, Live
    <2> HIDE DEF c
    <2>6. /\ \A d \in Commands : files'.command = d \/ runs'[d] > 0 => Filled(d)'
          /\ \A n \in Commands : Busy(n)' => master'[n].args \in Commands /\ Filled(master[n].args)'
      BY <1>0, <1>1, <2>1, <2>2, <2>4, <2>5 DEF Once
    <2>7. \A n \in Commands : master'[n].pc # "run"
      BY <1>0, <2>1, <2>5
    <2>8. ASSUME NEW d \in Commands, files'.command = d, runs'[d] > 0
          PROVE  \E n \in Commands : master'[n].pc = "ran" /\ master'[n].args = d
      <3>1. CASE d = c
        BY <2>1, <3>1
      <3>2. CASE d # c
        BY <1>0, <2>1, <2>4, <2>5, <2>8, <3>2 DEF Once
      <3> QED
        BY <3>1, <3>2
    <2>9. \A d \in Commands : runs'[d] <= 1
      BY <2>4 DEF Once
    <2> QED
      BY <2>6, <2>7, <2>8, <2>9 DEF Once
  <1>5. CASE Finish(m)
    <2>1. /\ master[m].pc = "ran" /\ ~Busy(m)' /\ files'.command = Nobody /\ UNCHANGED runs
      BY <1>0, <1>5 DEF Finish, TypeOK, FileTypes
    <2> QED
      BY <1>0, <1>1, <2>1, CallsAssumption DEF Once
  <1> QED
    BY <1>2, <1>3, <1>4, <1>5

\* Likewise for the commands that are run once.
LEMMA OnceStep == TypeOK /\ OnceInv /\ [Next]_vars => OnceInv'
  <1> SUFFICES ASSUME TypeOK, OnceInv, [Next]_vars, ~torn', ~crowd' PROVE Once'
    BY DEF OnceInv
  <1>1. Once /\ OneLive'
    BY CausesStay DEF OnceInv, Once
  <1>2. CASE UNCHANGED vars
    BY <1>1, <1>2 DEF vars, historyVars, Once, OneLive, Busy, Filled
  <1> QED
    BY <1>1, <1>2, CheckOnce, CallOnce, MasterOnce, ThreadNames DEF Next

-----------------------------------------------------------------------------
ExchangeInv == TypeOK /\ LockInv /\ KeptInv /\ OnceInv

LEMMA TypesAtFirst == Init => TypeOK
  <1> SUFFICES ASSUME Init PROVE TypeOK
    OBVIOUS
  <1>1. \A t \in Threads : pc[t] = IF t[2] = "main" THEN "idle" ELSE "off"
    BY DEF Init
  <1>2. PcTypeOK
    BY <1>1, ThreadNames DEF Init, PcTypeOK, MainStages, StartupStages
  <1>3. files \in FileTypes
    BY DEF Init, FileTypes, NoFiles
  <1>4. master \in [Commands -> MasterTypes]
    BY DEF Init, MasterTypes
  <1>5. sudoLock \in Calls \cup {Nobody} /\ files = NoFiles
    BY DEF Init
  <1>6. {spawned, sudoError, dir, torn, late, crowd} \subseteq BOOLEAN
    BY DEF Init
  <1>7. answer \in [Commands -> Commands \cup {Nobody}]
    BY DEF Init
  <1>8. runs \in [Commands -> 0 .. 2]
    BY DEF Init
  <1> QED
    BY <1>2, <1>3, <1>4, <1>5, <1>6, <1>7, <1>8 DEF TypeOK, PcTypeOK, FileTypes, MasterTypes

\* Both invariants, with the types and the lock they rest on.
LEMMA ExchangeInvariant == Spec => []ExchangeInv
  <1>1. Init => ExchangeInv
    <2> SUFFICES ASSUME Init PROVE ExchangeInv
      OBVIOUS
    <2>1. TypeOK
      BY TypesAtFirst
    <2>2. LockInv
      BY ThreadNames DEF Init, LockInv, Inside, CheckStages, Exchanging
    <2>3. \A c \in Commands : pc[Main(c)] = "idle"
      BY ThreadNames DEF Init
    <2>4. \A c \in Commands : master[c].pc = "none" /\ runs[c] = 0 /\ answer[c] = Nobody
      BY DEF Init
    <2>5. files.command = Nobody /\ ~files.output
      BY DEF Init, NoFiles
    <2>6. KeptInv
      BY <2>3, <2>4, <2>5, CallsAssumption DEF KeptInv, Kept, OneLive, Busy, Live
    <2>7. OnceInv
      BY <2>3, <2>4, <2>5, CallsAssumption DEF OnceInv, Once, OneLive, Busy, Live
    <2> QED
      BY <2>1, <2>2, <2>6, <2>7 DEF ExchangeInv
  <1>2. ExchangeInv /\ [Next]_vars => ExchangeInv'
    BY TypeStep, LockInvStep, KeptStep, OnceStep DEF ExchangeInv
  <1> QED
    BY <1>1, <1>2, PTL DEF Spec

\* Types of the threads, the files and the masters; the files are none once endSudoProcessMaster
\* has removed the directory, until a call makes it again.
THEOREM SudoTypes == Spec => []TypeOK
  <1>1. ExchangeInv => TypeOK
    BY DEF ExchangeInv
  <1> QED
    BY <1>1, ExchangeInvariant, PTL

\* executeSudoViaProcessCommunication returns the status of its own command: what the master
\* wrote for another is never read, as long as none of the three causes has come about.
THEOREM AnswersAreOwn == Spec => []WrongAnswerCauses
  <1>1. ExchangeInv => WrongAnswerCauses
    BY DEF ExchangeInv, KeptInv, Kept, WrongAnswerCauses
  <1> QED
    BY <1>1, ExchangeInvariant, PTL

\* The master runs a command once, also when its call has stopped waiting: command.txt is
\* removed before the master looks again, and no call writes it twice.
THEOREM RunsOnce == Spec => []RunsTwiceCauses
  <1>1. ExchangeInv => RunsTwiceCauses
    BY DEF ExchangeInv, OnceInv, Once, RunsTwiceCauses, TypeOK
  <1> QED
    BY <1>1, ExchangeInvariant, PTL

\* As an action property: the step that runs a command is taken while its call is waiting
\* for the output, so no later master finds a command that was left behind.
THEOREM RunsAreAwaited == Spec => NeverRunsAlone
  <1>1. ExchangeInv /\ [Next]_vars => [RunsWhileAwaited]_vars
    <2> SUFFICES ASSUME ExchangeInv, Next, NEW c \in Commands, runs'[c] > runs[c]
                 PROVE  pc[Main(c)] \in {"fill", "result"} \/ torn \/ late \/ crowd
      BY DEF RunsWhileAwaited
    <2>1. runs[c] \in 0 .. 2
      BY DEF ExchangeInv, TypeOK
    <2>2. \E m \in Commands : Run(m)
      BY <2>1, ThreadNames
         DEF Next, historyVars, Wipe, Create, Confirm, TakesError, Alive, NotAlive, Call, Locked,
             Accepts, Refuses, PromptTimesOut, Submit, CreateCommand, Fill, Result, Cleanup,
             LockTimesOut, End, EndLocked, EndAwaits, Look, Read, Finish, Signals, HourOver
    <2>3. PICK m \in Commands : Run(m)
      BY <2>2
    <2>4. master[m].args = c /\ Busy(m)
      BY <2>1, <2>3 DEF Run, Busy, ExchangeInv, TypeOK
    <2> QED
      BY <2>4 DEF ExchangeInv, KeptInv, Kept
  <1> QED
    BY <1>1, ExchangeInvariant, PTL DEF Spec, NeverRunsAlone

-----------------------------------------------------------------------------
(***************************************************************************)
(* RUN_UNDER_SUDO_LOCK is a mutex, and no error leaves it behind.          *)
(***************************************************************************)
Over == {"done", Failed}

\* What a step does to the call c whose main thread moves: it gets to the lock, or gives
\* up or has no need of it; gets it; goes on inside; or ends and gives it back.
MainStride(c) ==
    /\ \A d \in Calls \ {c} : pc'[Main(d)] = pc[Main(d)]
    /\ \/ /\ pc[Main(c)] \in {"idle", "lock"} /\ pc'[Main(c)] \in {"lock"} \cup Over
          /\ sudoLock' = sudoLock
       \/ pc[Main(c)] = "lock" /\ Inside(c)' /\ sudoLock = Nobody /\ sudoLock' = c
       \/ Inside(c) /\ Inside(c)' /\ sudoLock' = sudoLock
       \/ Inside(c) /\ pc'[Main(c)] \in Over /\ sudoLock' = Nobody

MainsRest == sudoLock' = sudoLock /\ \A c \in Calls : pc'[Main(c)] = pc[Main(c)]

LEMMA CheckStrides ==
    ASSUME LockInv, NEW t \in Threads,
           \/ Wipe(t) \/ Create(t) \/ Confirm(t) \/ TakesError(t) \/ Alive(t) \/ NotAlive(t)
    PROVE  MainsRest \/ \E c \in Calls : MainStride(c)
  <1> USE DEF Wipe, Create, Confirm, TakesError, Alive, NotAlive, Throw, Leave, Go, windowVars
  <1>1. CASE t[1] \in Calls /\ t = Main(t[1])
    <2>1. \A d \in Calls \ {t[1]} : pc'[Main(d)] = pc[Main(d)]
      BY <1>1, ThreadNames DEF LockInv
    <2>2. Inside(t[1])
      BY <1>1 DEF Inside, CheckStages
    <2>3. \/ Inside(t[1])' /\ sudoLock' = sudoLock
          \/ pc'[Main(t[1])] \in Over /\ sudoLock' = Nobody
      BY <1>1, ThreadNames DEF LockInv, Inside, CheckStages, Exchanging, Failed, Over
    <2> QED
      BY <1>1, <2>1, <2>2, <2>3 DEF MainStride
  <1>2. CASE t[1] \in Commands /\ t = Startup(t[1])
    <2>1. \A d \in Calls : pc'[Main(d)] = pc[Main(d)]
      BY <1>2, ThreadNames DEF LockInv
    <2>2. sudoLock' = sudoLock
      BY <1>2, ThreadNames
    <2> QED
      BY <2>1, <2>2 DEF MainsRest
  <1> QED
    BY <1>1, <1>2, ThreadNames

LEMMA CallStrides ==
    ASSUME LockInv, NEW c \in Calls,
           \/ /\ c \in Commands
              /\ \/ Call(c) \/ Locked(c) \/ Submit(c) \/ CreateCommand(c) \/ Fill(c) \/ Result(c)
                 \/ Cleanup(c)
           \/ LockTimesOut(c)
           \/ c \in Ends /\ (End(c) \/ EndLocked(c) \/ EndAwaits(c))
    PROVE  MainStride(c)
  <1> USE ThreadNames DEF LockInv, Throw, Leave, Go, windowVars, Inside, CheckStages, Exchanging,
          Failed, Over
  <1>1. \A d \in Calls \ {c} : pc'[Main(d)] = pc[Main(d)]
    BY DEF Call, Locked, Submit, CreateCommand, Fill, Result, Cleanup, LockTimesOut, End, EndLocked,
           EndAwaits
  <1>2. CASE Call(c) \/ LockTimesOut(c) \/ End(c)
    BY <1>1, <1>2 DEF Call, LockTimesOut, End, MainStride
  <1>3. CASE Locked(c) \/ EndLocked(c)
    BY <1>1, <1>3 DEF Locked, EndLocked, MainStride
  <1>4. CASE Submit(c) \/ CreateCommand(c) \/ Fill(c) \/ Result(c)
    BY <1>1, <1>4 DEF Submit, CreateCommand, Fill, Result, MainStride
  <1>5. CASE Cleanup(c) \/ EndAwaits(c)
    BY <1>1, <1>5 DEF Cleanup, EndAwaits, MainStride
  <1> QED
    BY <1>2, <1>3, <1>4, <1>5

LEMMA Strides ==
    ASSUME LockInv, [Next]_vars
    PROVE  MainsRest \/ \E c \in Calls : MainStride(c)
  <1>1. ASSUME NEW c \in Commands, Accepts(c) \/ Refuses(c) \/ PromptTimesOut(c) PROVE MainsRest
    <2>1. sudoLock' = sudoLock /\ \A d \in Calls : pc'[Main(d)] = pc[Main(d)]
      BY <1>1, ThreadNames DEF Accepts, Refuses, PromptTimesOut, Go, windowVars, LockInv
    <2> QED
      BY <2>1 DEF MainsRest
  <1>2. ASSUME NEW m \in Commands,
               Look(m) \/ Read(m) \/ Run(m) \/ Finish(m) \/ Signals(m) \/ HourOver(m)
        PROVE  MainsRest
    BY <1>2 DEF MainsRest, Look, Read, Run, Finish, Signals, HourOver, windowVars
  <1>3. CASE UNCHANGED vars
    BY <1>3 DEF vars, windowVars, MainsRest
  <1> QED
    BY <1>1, <1>2, <1>3, CheckStrides, CallStrides, ThreadNames DEF Next

\* Whoever has the lock is inside: on no path a call ends with it.
FreedInv == LockInv /\ \A c \in Calls : sudoLock = c => Inside(c)

LEMMA FreedInvStep == FreedInv /\ [Next]_vars => FreedInv'
  <1> SUFFICES ASSUME FreedInv, [Next]_vars PROVE FreedInv'
    OBVIOUS
  <1>1. LockInv /\ LockInv'
    BY LockInvStep DEF FreedInv
  <1>2. CASE MainsRest
    BY <1>1, <1>2 DEF FreedInv, MainsRest, Inside
  <1>3. ASSUME NEW c \in Calls, MainStride(c) PROVE FreedInv'
    <2>1. \A d \in Calls \ {c} : Inside(d)' <=> Inside(d)
      BY <1>3 DEF MainStride, Inside
    <2>2. \A d \in Calls : d # Nobody
      BY CallsAssumption DEF Calls
    <2>3. ~ (sudoLock = c /\ pc[Main(c)] \in {"idle", "lock"})
      BY DEF FreedInv, Inside, CheckStages, Exchanging
    <2> QED
      BY <1>1, <1>3, <2>1, <2>2, <2>3 DEF FreedInv, MainStride
  <1> QED
    BY <1>1, <1>2, <1>3, Strides

AtSudo == [c \in Calls |->
    IF pc[Main(c)] \in Over THEN "finished" ELSE IF Inside(c) THEN "holding" ELSE "waiting"]

SudoMutex == INSTANCE Mutex WITH stage <- AtSudo

LEMMA SudoMutexStep == FreedInv /\ [Next]_vars => [SudoMutex!Next]_AtSudo
  <1> SUFFICES ASSUME FreedInv, [Next]_vars PROVE SudoMutex!Next \/ UNCHANGED AtSudo
    OBVIOUS
  <1>0. LockInv
    BY DEF FreedInv
  <1>1. CASE MainsRest
    BY <1>1 DEF MainsRest, AtSudo, Inside
  <1>2. ASSUME NEW c \in Calls, MainStride(c) PROVE SudoMutex!Next \/ UNCHANGED AtSudo
    <2> DEFINE next == IF pc'[Main(c)] \in Over THEN "finished"
                       ELSE IF Inside(c)' THEN "holding" ELSE "waiting"
    <2>1. AtSudo' = [AtSudo EXCEPT ![c] = next]
      <3>1. \A d \in Calls \ {c} : AtSudo'[d] = AtSudo[d]
        BY <1>2 DEF MainStride, AtSudo, Inside
      <3>2. AtSudo'[c] = next
        BY DEF AtSudo
      <3> QED
        BY <3>1, <3>2 DEF AtSudo
    <2>2. /\ Inside(c) => pc[Main(c)] \notin Over
          /\ Inside(c)' => pc'[Main(c)] \notin Over
          /\ pc[Main(c)] \in {"idle", "lock"} => ~ Inside(c) /\ pc[Main(c)] \notin Over
          /\ pc'[Main(c)] = "lock" => next = "waiting"
      BY DEF Inside, CheckStages, Exchanging, Over, Failed
    <2>3. CASE pc[Main(c)] \in {"idle", "lock"} /\ pc'[Main(c)] \in {"lock"} \cup Over
      <3>1. AtSudo[c] = "waiting" /\ next \in {"waiting", "finished"}
        BY <2>2, <2>3 DEF AtSudo
      <3>2. CASE next = "waiting"
        BY <2>1, <3>1, <3>2 DEF AtSudo
      <3>3. CASE next = "finished"
        <4>1. SudoMutex!GiveUp(c)
          BY <2>1, <3>1, <3>3 DEF SudoMutex!GiveUp
        <4> QED
          BY <4>1 DEF SudoMutex!Next
      <3> QED
        BY <3>1, <3>2, <3>3
    <2>4. CASE pc[Main(c)] = "lock" /\ Inside(c)' /\ sudoLock = Nobody
      <3>1. AtSudo[c] = "waiting" /\ next = "holding"
        BY <2>2, <2>4 DEF AtSudo
      <3>2. \A d \in Calls : AtSudo[d] # "holding"
        BY <1>0, <2>4, CallsAssumption DEF AtSudo, LockInv, Calls
      <3>3. SudoMutex!Enter(c)
        BY <2>1, <3>1, <3>2 DEF SudoMutex!Enter
      <3> QED
        BY <3>3 DEF SudoMutex!Next
    <2>5. CASE Inside(c) /\ Inside(c)'
      <3>1. next = AtSudo[c]
        BY <2>2, <2>5 DEF AtSudo
      <3> QED
        BY <2>1, <3>1 DEF AtSudo
    <2>6. CASE Inside(c) /\ pc'[Main(c)] \in Over
      <3>1. AtSudo[c] = "holding" /\ next = "finished"
        BY <2>2, <2>6 DEF AtSudo
      <3>2. SudoMutex!Leave(c, "finished")
        BY <2>1, <3>1 DEF SudoMutex!Leave
      <3> QED
        BY <3>2 DEF SudoMutex!Next
    <2> QED
      BY <1>2, <2>3, <2>4, <2>5, <2>6 DEF MainStride
  <1> QED
    BY <1>0, <1>1, <1>2, Strides

\* execElevated's RUN_UNDER_SUDO_LOCK is used as the abstract mutex promises, by commands
\* and ends alike: a check that fails, a prompt's error, a missing file or a status other
\* than 0 ends the call and gives the lock back, and a call that waits too long never had it.
THEOREM SudoLockIsMutex == Spec => SudoMutex!Spec /\ [](\A c \in Calls : sudoLock = c => Inside(c))
  <1>1. Init => FreedInv /\ SudoMutex!Init
    <2> SUFFICES ASSUME Init PROVE FreedInv /\ SudoMutex!Init
      OBVIOUS
    <2>1. \A c \in Calls : pc[Main(c)] = "idle"
      BY ThreadNames DEF Init
    <2>2. "idle" \notin Over \cup CheckStages \cup Exchanging
      BY DEF Over, Failed, CheckStages, Exchanging
    <2>3. FreedInv
      BY <2>1, <2>2, CallsAssumption DEF Init, FreedInv, LockInv, Inside, Calls
    <2>4. SudoMutex!Init
      BY <2>1, <2>2 DEF SudoMutex!Init, AtSudo, Inside
    <2> QED
      BY <2>3, <2>4
  <1>2. FreedInv => \A c \in Calls : sudoLock = c => Inside(c)
    BY DEF FreedInv
  <1> QED
    BY <1>1, <1>2, FreedInvStep, SudoMutexStep, PTL DEF Spec, SudoMutex!Spec
=============================================================================
