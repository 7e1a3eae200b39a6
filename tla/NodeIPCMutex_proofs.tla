------------------------ MODULE NodeIPCMutex_proofs ------------------------
(***************************************************************************)
(* Proofs about NodeIPCMutex, for any calls, processes and retry bound.    *)
(***************************************************************************)
EXTENDS NodeIPCMutex, TLAPS

(***************************************************************************)
(* Type correctness, on every platform: in particular the retry counter    *)
(* never passes maxRetryCountToEndAtRoughlyTimeoutTime.  It is inductive   *)
(* together with RetryLeft.                                                *)
(***************************************************************************)
LEMMA TypeInit == Init => TypeOK /\ RetryLeft
  BY ConstantsAssumption DEF Init, TypeOK, RetryLeft, Stages, Waiting

LEMMA TypeStep == TypeOK /\ RetryLeft /\ [Next]_vars => TypeOK' /\ RetryLeft'
  <1> SUFFICES ASSUME TypeOK, RetryLeft, [Next]_vars
               PROVE  TypeOK' /\ RetryLeft'
    OBVIOUS
  <1> USE ConstantsAssumption
      DEF TypeOK, RetryLeft, Stages, Waiting, Holding, Answered, Go
  <1>1. ASSUME NEW t \in Tasks, Bind(t) PROVE TypeOK' /\ RetryLeft'
    BY <1>1 DEF Bind
  <1>2. ASSUME NEW t \in Tasks, StartListening(t) PROVE TypeOK' /\ RetryLeft'
    BY <1>2 DEF StartListening
  <1>3. ASSUME NEW t \in Tasks, BindFails(t) PROVE TypeOK' /\ RetryLeft'
    BY <1>3 DEF BindFails
  <1>4. ASSUME NEW t \in Tasks, FnSettles(t) PROVE TypeOK' /\ RetryLeft'
    BY <1>4 DEF FnSettles, Release
  <1>5. ASSUME NEW t \in Tasks, HandOver(t) PROVE TypeOK' /\ RetryLeft'
    BY <1>5 DEF HandOver
  <1>6. ASSUME NEW t \in Tasks, ManualRelease(t) PROVE TypeOK' /\ RetryLeft'
    BY <1>6 DEF ManualRelease, Release
  <1>7. ASSUME NEW t \in Tasks, GiveUp(t) PROVE TypeOK' /\ RetryLeft'
    BY <1>7 DEF GiveUp
  <1>8. ASSUME NEW t \in Tasks, Probe(t) PROVE TypeOK' /\ RetryLeft'
    BY <1>8 DEF Probe, Connects
  <1>9. ASSUME NEW t \in Tasks, StartMkdir(t) PROVE TypeOK' /\ RetryLeft'
    BY <1>9 DEF StartMkdir
  <1>10. ASSUME NEW t \in Tasks, MkdirSucceeds(t) PROVE TypeOK' /\ RetryLeft'
    BY <1>10 DEF MkdirSucceeds
  <1>11. ASSUME NEW t \in Tasks, MkdirFails(t) PROVE TypeOK' /\ RetryLeft'
    BY <1>11 DEF MkdirFails, Connects
  <1>12. ASSUME NEW t \in Tasks, ProbeAnswered(t) \/ ProbeReset(t)
         PROVE  TypeOK' /\ RetryLeft'
    BY <1>12 DEF ProbeAnswered, ProbeReset
  <1>13. ASSUME NEW t \in Tasks, Clean(t) PROVE TypeOK' /\ RetryLeft'
    BY <1>13 DEF Clean
  <1>14. ASSUME NEW t \in Tasks, NextTry(t) PROVE TypeOK' /\ RetryLeft'
    BY <1>14 DEF NextTry
  <1>15. ASSUME NEW p \in Procs, Crash(p) PROVE TypeOK' /\ RetryLeft'
    BY <1>15 DEF Crash
  <1>16. CASE UNCHANGED vars
    BY <1>16 DEF vars
  <1> QED
    BY <1>1, <1>2, <1>3, <1>4, <1>5, <1>6, <1>7, <1>8, <1>9, <1>10, <1>11,
       <1>12, <1>13, <1>14, <1>15, <1>16 DEF Next, Step

\* Every variable keeps its type, and no call retries more often than its
\* timeout allows (acquireInternal).
THEOREM TypeCorrect == Spec => []TypeOK
  <1>1. Init => TypeOK /\ RetryLeft
    BY TypeInit
  <1>2. TypeOK /\ RetryLeft /\ [Next]_vars => (TypeOK /\ RetryLeft)'
    BY TypeStep
  <1> QED
    BY <1>1, <1>2, PTL DEF Spec

-----------------------------------------------------------------------------
(***************************************************************************)
(* Mutual exclusion, where SafeHere.  That two holders are the same call   *)
(* does not follow from itself: one has to know that the holder is the one *)
(* at the path, that the path is empty when nobody holds it, and that no   *)
(* call is about to delete the path, which is what Inv adds.               *)
(***************************************************************************)
LEMMA InvInit == Init => Inv
  BY TypeInit DEF Init, Inv, Holding, Waiting

LEMMA InvStep == SafeHere /\ Inv /\ [Next]_vars => Inv'
  <1> SUFFICES ASSUME SafeHere, Inv, [Next]_vars
               PROVE  Inv'
    OBVIOUS
  <1>0. TypeOK' /\ RetryLeft'
    BY TypeStep DEF Inv
  <1> DEFINE Rest ==
        /\ \A t \in Tasks : pc[t] \in Holding \cup {"bound"} => path = t
        /\ path # Free => pc[path] \in Holding \cup {"bound"}
        /\ \A t \in Tasks : pc[t] # "clean"
        /\ NamedPipes => \A t \in Tasks : pc[t] # "bound"
  <1> SUFFICES Rest'
    BY <1>0 DEF Inv
  <1>a. TypeOK /\ Rest
    BY DEF Inv
  <1> USE ConstantsAssumption, <1>a
      DEF TypeOK, Stages, Waiting, Holding, Answered, Go
  \* The path is free, so nobody holds it: the caller becomes the holder.
  <1>1. ASSUME NEW t \in Tasks, Bind(t) PROVE Rest'
    BY <1>1 DEF Bind
  <1>2. ASSUME NEW t \in Tasks, StartListening(t) PROVE Rest'
    BY <1>2 DEF StartListening
  <1>3. ASSUME NEW t \in Tasks, BindFails(t) PROVE Rest'
    BY <1>3 DEF BindFails
  \* The holder is the one at the path, so close removes its own file.
  <1>4. ASSUME NEW t \in Tasks, FnSettles(t) \/ ManualRelease(t) PROVE Rest'
    <2>1. path = t
      BY <1>4 DEF FnSettles, ManualRelease
    <2>2. path' = Free
      BY <1>4, <2>1 DEF FnSettles, ManualRelease, Release, CanUnlink
    <2>3. \A u \in Tasks \ {t} : pc'[u] = pc[u] /\ pc[u] \notin Holding \cup {"bound"}
      BY <1>4, <2>1 DEF FnSettles, ManualRelease
    <2>4. pc'[t] \in {"done", "threw", "caught"}
      BY <1>4 DEF FnSettles, ManualRelease
    <2> QED
      BY <2>2, <2>3, <2>4
  <1>5. ASSUME NEW t \in Tasks, HandOver(t) PROVE Rest'
    BY <1>5 DEF HandOver
  <1>6. ASSUME NEW t \in Tasks, GiveUp(t) \/ StartMkdir(t) \/ MkdirSucceeds(t) \/ NextTry(t)
        PROVE  Rest'
    BY <1>6 DEF GiveUp, StartMkdir, MkdirSucceeds, NextTry
  \* A socket at the path always belongs to a holder, or to a call between its
  \* bind and its listen: then this call is not of the same process.
  <1>7. ASSUME NEW t \in Tasks, Probe(t) \/ MkdirFails(t) PROVE Rest'
    <2>1. ThreadFree(t) /\ Connects(t) /\ path' = path
      BY <1>7 DEF Probe, MkdirFails
    <2>2. path # Free => pc[path] \in Holding
      BY <2>1 DEF ThreadFree, SafeHere
    <2>3. pc'[t] \in {"delay", "connecting"}
      BY <2>1, <2>2 DEF Connects
    <2>4. \A u \in Tasks \ {t} : pc'[u] = pc[u]
      BY <2>1 DEF Connects
    <2>5. pc[t] \in {"caught", "mkdir"}
      BY <1>7 DEF Probe, MkdirFails
    <2> QED
      BY <2>1, <2>3, <2>4, <2>5
  <1>8. ASSUME NEW t \in Tasks, ProbeAnswered(t) PROVE Rest'
    BY <1>8 DEF ProbeAnswered
  <1>9. ASSUME NEW t \in Tasks, ProbeReset(t) PROVE Rest'
    BY <1>9 DEF ProbeReset, SafeHere
  <1>10. ASSUME NEW t \in Tasks, Clean(t) PROVE Rest'
    BY <1>10 DEF Clean
  \* Only a pipe's owner can die, and its pipe dies with it.
  <1>11. ASSUME NEW p \in Procs, Crash(p) PROVE Rest'
    <2>1. NamedPipes
      BY <1>11 DEF Crash, SafeHere
    <2> QED
      BY <1>11, <2>1 DEF Crash
  <1>12. CASE UNCHANGED vars
    BY <1>12 DEF vars
  <1> QED
    BY <1>1, <1>2, <1>3, <1>4, <1>5, <1>6, <1>7, <1>8, <1>9, <1>10, <1>11, <1>12
       DEF Next, Step

LEMMA InvImpliesExclusion == Inv => MutualExclusion
  BY DEF Inv, MutualExclusion

\* NodeIPCMutex is a mutex for any number of calls, processes and deaths on
\* Windows, and for the calls of one lasting process on other systems that do
\* not reset the connections of a closed server.
THEOREM Exclusive == ASSUME SafeHere PROVE Spec => []MutualExclusion
  <1>1. Init => Inv
    BY InvInit
  <1>2. Inv /\ [Next]_vars => Inv'
    BY InvStep
  <1>3. Inv => MutualExclusion
    BY InvImpliesExclusion
  <1> QED
    BY <1>1, <1>2, <1>3, PTL DEF Spec

-----------------------------------------------------------------------------
(***************************************************************************)
(* The lock implements the abstract Mutex, as long as whoever holds it is  *)
(* the one at the path.                                                    *)
(***************************************************************************)
\* Whoever holds the lock, or is about to listen, is the one at the path.
HolderInv ==
    /\ TypeOK /\ RetryLeft
    /\ \A t \in Tasks : pc[t] \in Holding \cup {"bound"} => path = t

LEMMA LockInit == Init => Lock!Init
  BY DEF Init, Lock!Init, LockStage, Waiting

LEMMA LockStep == HolderInv /\ HolderInv' /\ [Next]_vars => [Lock!Next]_LockStage
  <1> SUFFICES ASSUME HolderInv, HolderInv', [Next]_vars
               PROVE  [Lock!Next]_LockStage
    OBVIOUS
  <1>a. TypeOK /\ TypeOK'
    BY DEF HolderInv
  \* What a step of call t does to the abstract state.
  <1>b. ASSUME NEW t \in Tasks, NEW s \in Stages, pc' = [pc EXCEPT ![t] = s],
               s \notin Waiting \/ pc[t] \notin Waiting
        PROVE  LockStage' = [LockStage EXCEPT ![t] =
                               IF s \in Waiting THEN "waiting"
                               ELSE IF s \in Holding THEN "holding"
                               ELSE IF s \in Answered THEN "finished" ELSE "dead"]
    BY <1>a, <1>b DEF LockStage, TypeOK
  <1>c. ASSUME NEW t \in Tasks, NEW s \in Waiting, pc' = [pc EXCEPT ![t] = s],
               pc[t] \in Waiting
        PROVE  UNCHANGED LockStage
    BY <1>a, <1>c DEF LockStage, TypeOK
  <1> USE <1>a DEF Go, Stages, Waiting, Holding, Answered
  \* fn starts: had any other call been holding, path would name that one.
  <1>1. ASSUME NEW t \in Tasks, pc[t] \in Waiting, Go(t, "fn"), path' = t
        PROVE  Lock!Enter(t)
    <2>1. LockStage' = [LockStage EXCEPT ![t] = "holding"]
      BY <1>1, <1>b
    <2>2. LockStage[t] = "waiting"
      BY <1>1 DEF LockStage
    <2>3. \A d \in Tasks : LockStage[d] # "holding"
      <3> SUFFICES ASSUME NEW d \in Tasks, pc[d] \in Holding
                   PROVE  FALSE
        BY DEF LockStage
      <3>1. d # t /\ pc'[d] = pc[d]
        BY <1>1 DEF TypeOK
      <3> QED
        BY <1>1, <3>1 DEF HolderInv
    <2> QED
      BY <2>1, <2>2, <2>3 DEF Lock!Enter
  <1>2. ASSUME NEW t \in Tasks, Bind(t) PROVE [Lock!Next]_LockStage
    <2>1. CASE NamedPipes
      <3>1. Lock!Enter(t)
        BY <1>2, <2>1, <1>1 DEF Bind
      <3> QED
        BY <3>1 DEF Lock!Next
    <2>2. CASE ~NamedPipes
      BY <1>2, <2>2, <1>c DEF Bind
    <2> QED
      BY <2>1, <2>2
  <1>3. ASSUME NEW t \in Tasks, StartListening(t) PROVE [Lock!Next]_LockStage
    <2>1. path' = t
      BY <1>3 DEF StartListening, HolderInv
    <2>2. Lock!Enter(t)
      BY <1>3, <2>1, <1>1 DEF StartListening
    <2> QED
      BY <2>2 DEF Lock!Next
  <1>4. ASSUME NEW t \in Tasks, FnSettles(t) PROVE [Lock!Next]_LockStage
    <2>1. LockStage[t] = "holding"
      BY <1>4 DEF FnSettles, LockStage
    <2>2. PICK s \in {"done", "threw", "caught"} : Go(t, s)
      BY <1>4 DEF FnSettles
    <2>3. \E next \in {"waiting", "finished"} : LockStage' = [LockStage EXCEPT ![t] = next]
      BY <1>4, <2>2, <1>b DEF FnSettles
    <2> QED
      BY <2>1, <2>3 DEF Lock!Next, Lock!Leave
  <1>5. ASSUME NEW t \in Tasks, HandOver(t) PROVE [Lock!Next]_LockStage
    BY <1>5 DEF HandOver, LockStage, TypeOK
  <1>6. ASSUME NEW t \in Tasks, ManualRelease(t) PROVE [Lock!Next]_LockStage
    <2>1. LockStage[t] = "holding"
      BY <1>6 DEF ManualRelease, LockStage
    <2>2. LockStage' = [LockStage EXCEPT ![t] = "finished"]
      BY <1>6, <1>b DEF ManualRelease
    <2> QED
      BY <2>1, <2>2 DEF Lock!Next, Lock!Leave
  <1>7. ASSUME NEW t \in Tasks, GiveUp(t) PROVE [Lock!Next]_LockStage
    <2>1. LockStage[t] = "waiting"
      BY <1>7 DEF GiveUp, LockStage
    <2>2. LockStage' = [LockStage EXCEPT ![t] = "finished"]
      BY <1>7, <1>b DEF GiveUp
    <2> QED
      BY <2>1, <2>2 DEF Lock!Next, Lock!GiveUp
  <1>8. ASSUME NEW t \in Tasks,
               \/ BindFails(t) \/ Probe(t) \/ StartMkdir(t) \/ MkdirSucceeds(t) \/ MkdirFails(t)
               \/ ProbeAnswered(t) \/ ProbeReset(t) \/ Clean(t) \/ NextTry(t)
        PROVE  UNCHANGED LockStage
    <2>1. pc[t] \in Waiting /\ \E s \in Waiting : pc' = [pc EXCEPT ![t] = s]
      BY <1>8 DEF BindFails, Probe, StartMkdir, MkdirSucceeds, MkdirFails, Connects,
                  ProbeAnswered, ProbeReset, Clean, NextTry
    <2> QED
      BY <2>1, <1>c
  <1>9. ASSUME NEW p \in Procs, Crash(p) PROVE [Lock!Next]_LockStage
    <2> DEFINE S == {t \in Tasks : ProcOf[t] = p}
    <2>1. LockStage' = [c \in Tasks |-> IF c \in S THEN "dead" ELSE LockStage[c]]
      BY <1>9, ConstantsAssumption DEF Crash, LockStage, TypeOK
    <2> QED
      BY <2>1 DEF Lock!Next, Lock!Die
  <1>10. CASE UNCHANGED vars
    BY <1>10 DEF vars, LockStage
  <1> QED
    BY <1>2, <1>3, <1>4, <1>5, <1>6, <1>7, <1>8, <1>9, <1>10 DEF Next, Step

\* Every behaviour of the lock, retries, deaths and failed calls included, is
\* one of the abstract mutex, on the platforms of SafeHere.
THEOREM Refines == ASSUME SafeHere PROVE Spec => Implements
  <1>1. Init => Inv /\ Lock!Init
    BY InvInit, LockInit
  <1>2. Inv /\ [Next]_vars => Inv'
    BY InvStep
  <1>3. Inv /\ Inv' /\ [Next]_vars => [Lock!Next]_LockStage
    BY LockStep DEF Inv, HolderInv
  <1> QED
    BY <1>1, <1>2, <1>3, PTL DEF Spec, Implements, Lock!Spec

-----------------------------------------------------------------------------
(***************************************************************************)
(* The same without SafeHere: on file systems too, with several processes  *)
(* that may die, one thing only can break the lock.                        *)
(***************************************************************************)

\* A step of cleanupStaleLock that deletes the file of a live server, or of a call
\* about to be one.
WrongVerdict(t) ==
    /\ pc[t] = "clean" /\ pc'[t] = "delay"
    /\ path # Free /\ pc[path] \in Holding \cup {"bound"} /\ path' # path

VerdictsRight == \A t \in Tasks : ~ WrongVerdict(t)

LEMMA HolderStep == HolderInv /\ [Next]_vars /\ [VerdictsRight]_vars => HolderInv'
  <1> SUFFICES ASSUME HolderInv, [Next]_vars, [VerdictsRight]_vars
               PROVE  HolderInv'
    OBVIOUS
  <1>0. TypeOK' /\ RetryLeft'
    BY TypeStep DEF HolderInv
  <1> DEFINE AtPath == \A t \in Tasks : pc[t] \in Holding \cup {"bound"} => path = t
  <1> SUFFICES AtPath'
    BY <1>0 DEF HolderInv
  <1>a. TypeOK /\ AtPath
    BY DEF HolderInv
  <1> USE ConstantsAssumption, <1>a
      DEF TypeOK, Stages, Waiting, Holding, Answered, Go
  <1>1. ASSUME NEW t \in Tasks, Bind(t) \/ StartListening(t) \/ BindFails(t) \/ HandOver(t)
        PROVE  AtPath'
    BY <1>1 DEF Bind, StartListening, BindFails, HandOver
  \* The holder closes: what its close unlinks is its own file.
  <1>2. ASSUME NEW t \in Tasks, FnSettles(t) \/ ManualRelease(t) PROVE AtPath'
    <2>1. path = t
      BY <1>2 DEF FnSettles, ManualRelease
    <2>2. \A u \in Tasks \ {t} : pc'[u] = pc[u] /\ pc[u] \notin Holding \cup {"bound"}
      BY <1>2, <2>1 DEF FnSettles, ManualRelease
    <2>3. pc'[t] \in {"done", "threw", "caught"}
      BY <1>2 DEF FnSettles, ManualRelease
    <2> QED
      BY <2>2, <2>3
  <1>3. ASSUME NEW t \in Tasks,
               \/ GiveUp(t) \/ Probe(t) \/ StartMkdir(t) \/ MkdirSucceeds(t) \/ MkdirFails(t)
               \/ ProbeAnswered(t) \/ ProbeReset(t) \/ NextTry(t)
        PROVE  AtPath'
    BY <1>3 DEF GiveUp, Probe, StartMkdir, MkdirSucceeds, MkdirFails, Connects, ProbeAnswered,
                ProbeReset, NextTry
  \* A verdict that is right deletes no file of a holder.
  <1>4. ASSUME NEW t \in Tasks, Clean(t) PROVE AtPath'
    <2>1. pc[t] = "clean" /\ pc'[t] = "delay" /\ \A u \in Tasks \ {t} : pc'[u] = pc[u]
      BY <1>4 DEF Clean
    <2>2. VerdictsRight
      BY <2>1 DEF vars
    <2>3. ASSUME NEW u \in Tasks, pc'[u] \in Holding \cup {"bound"} PROVE path' = u
      <3>1. u # t /\ pc[u] \in Holding \cup {"bound"} /\ path = u
        BY <2>1, <2>3
      <3> QED
        BY <2>1, <2>2, <3>1 DEF VerdictsRight, WrongVerdict
    <2> QED
      BY <2>3
  \* A pipe that goes is of a call that has died with its process.
  <1>5. ASSUME NEW p \in Procs, Crash(p) PROVE AtPath'
    BY <1>5 DEF Crash
  <1>6. CASE UNCHANGED vars
    BY <1>6 DEF vars
  <1> QED
    BY <1>1, <1>2, <1>3, <1>4, <1>5, <1>6 DEF Next, Step

\* On every platform, with any number of processes that may die, resets and refused
\* connections: as long as cleanupStaleLock deletes no file of a live server, at most one
\* call has the lock, and the lock is the abstract mutex.  Lost directories, failed calls,
\* retries and closes by name do not matter (isLockStale, cleanupStaleLock).
THEOREM OnlyStaleVerdictsBreak ==
    Spec /\ [][VerdictsRight]_vars => []MutualExclusion /\ Implements
  <1>1. Init => HolderInv /\ Lock!Init
    BY TypeInit, LockInit DEF Init, HolderInv, Holding
  <1>2. HolderInv /\ [Next]_vars /\ [VerdictsRight]_vars => HolderInv'
    BY HolderStep
  <1>3. HolderInv /\ HolderInv' /\ [Next]_vars => [Lock!Next]_LockStage
    BY LockStep
  <1>4. HolderInv => MutualExclusion
    BY DEF HolderInv, MutualExclusion
  <1> QED
    BY <1>1, <1>2, <1>3, <1>4, PTL DEF Spec, Implements, Lock!Spec

-----------------------------------------------------------------------------
\* A call that has run its fn is not answered with the error of a lock that could not be
\* had, if no error of fn has a code that acquireInternal takes for an error of listen.
Ran(t) == ran[t] => pc[t] \in {"held", "done", "threw", "dead"}

THEOREM RunsMeansHadIt == ASSUME ~ FnCodes PROVE Spec => []GivesUpWithoutLock
  <1> DEFINE I == TypeOK /\ RetryLeft /\ \A t \in Tasks : Ran(t)
  <1>1. Init => I
    BY TypeInit DEF Init, Ran
  <1>2. I /\ [Next]_vars => I'
    <2> SUFFICES ASSUME I, [Next]_vars PROVE \A t \in Tasks : Ran(t)'
      BY TypeStep
    <2> USE DEF TypeOK, Go, Ran, Stages, Waiting, Holding, Answered
    <2>1. ASSUME NEW t \in Tasks, FnSettles(t) \/ HandOver(t) \/ ManualRelease(t)
          PROVE  \A u \in Tasks : Ran(u)'
      BY <2>1 DEF FnSettles, HandOver, ManualRelease
    <2>2. ASSUME NEW t \in Tasks,
                 \/ Bind(t) \/ StartListening(t) \/ BindFails(t) \/ GiveUp(t) \/ StartMkdir(t)
                 \/ MkdirSucceeds(t) \/ ProbeAnswered(t) \/ ProbeReset(t) \/ Clean(t) \/ NextTry(t)
          PROVE  \A u \in Tasks : Ran(u)'
      BY <2>2 DEF Bind, StartListening, BindFails, GiveUp, StartMkdir, MkdirSucceeds,
                  ProbeAnswered, ProbeReset, Clean, NextTry
    <2>3. ASSUME NEW t \in Tasks, Probe(t) \/ MkdirFails(t) PROVE \A u \in Tasks : Ran(u)'
      BY <2>3 DEF Probe, MkdirFails, Connects
    <2>4. ASSUME NEW p \in Procs, Crash(p) PROVE \A u \in Tasks : Ran(u)'
      BY <2>4 DEF Crash
    <2>5. CASE UNCHANGED vars
      BY <2>5 DEF vars
    <2> QED
      BY <2>1, <2>2, <2>3, <2>4, <2>5 DEF Next, Step
  <1>3. I => GivesUpWithoutLock
    BY DEF GivesUpWithoutLock, Ran
  <1> HIDE DEF I
  <1> QED
    BY <1>1, <1>2, <1>3, PTL DEF Spec

-----------------------------------------------------------------------------
\* On every platform: the file of a live server is only ever removed by a call
\* that acts on an outdated verdict, or by the close of a server that had lost
\* its own file.
THEOREM FileLoss == Spec => FileLossCauses
  <1>1. ASSUME TypeOK, [Next]_vars, NEW u \in Tasks,
               path = u, path' # u, pc[u] \in Holding, pc'[u] \in Holding
        PROVE  \E t \in Tasks \ {u} :
                   \/ pc[t] = "clean" /\ pc'[t] = "delay"
                   \/ pc[t] \in Holding /\ pc'[t] \notin Holding
    <2> USE <1>1, ConstantsAssumption DEF TypeOK, Go, Holding
    <2>1. PICK t \in Tasks : Bind(t) \/ FnSettles(t) \/ ManualRelease(t) \/ Clean(t)
      <3>1. ASSUME NEW p \in Procs, Crash(p) PROVE FALSE
        BY <3>1 DEF Crash
      <3> QED
        BY <3>1 DEF Next, Step, vars, StartListening, BindFails, HandOver, GiveUp, Probe,
           StartMkdir, MkdirSucceeds, MkdirFails, ProbeAnswered, ProbeReset, NextTry
    <2>2. ~Bind(t)
      BY DEF Bind
    <2>3. CASE FnSettles(t) \/ ManualRelease(t)
      BY <2>3 DEF FnSettles, ManualRelease
    <2>4. CASE Clean(t)
      BY <2>4 DEF Clean
    <2> QED
      BY <2>1, <2>2, <2>3, <2>4
  <1>2. TypeOK /\ [Next]_vars => [LosesFileOnlyTo]_vars
    BY <1>1 DEF LosesFileOnlyTo
  <1> QED
    BY <1>2, TypeCorrect, PTL DEF Spec, FileLossCauses
=============================================================================
