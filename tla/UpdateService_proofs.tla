------------------------ MODULE UpdateService_proofs ------------------------
(***************************************************************************)
(* Proofs about UpdateService, for any records, groups and commands beside *)
(* the pass: it deletes nothing newer than what it keeps, and whoever      *)
(* owned what it deletes owns what it keeps.                               *)
(***************************************************************************)
EXTENDS UpdateService, LocalInstalls_proofs

-----------------------------------------------------------------------------
(***************************************************************************)
(* An install that nobody has begun to uninstall                           *)
(***************************************************************************)

\* Some command has got past the lock to uninstall i, or uninstalls everything.
Gone(i) == \E j \in Jobs :
    \/ kind[j] \in UninstallKinds /\ inst[j] = i /\ pc[j] \notin {"lock", "untrack"}
    \/ kind[j] = "uninstallAll" /\ pc[j] # "clear"

\* A command goes by the directory of its install being usable.
Claims(j) ==
    \/ pc[j] = "exists" /\ seen[j]
    \/ pc[j] = "verify" /\ kind[j] # "find"
    \/ pc[j] \in {"validate", "track", "record"}

\* What is recorded or gone by is complete, a script fills only what is not, and no
\* command has found an executable missing.
IntactFor(j, i) ==
    /\ Claims(j) => disk[i] = "complete"
    /\ pc[j] = "script" => disk[i] = "partial"
    /\ pc[j] \notin {"forget", "forgetAgain"}

Intact(i) ==
    /\ i \in recorded => disk[i] = "complete"
    /\ \A j \in Jobs : inst[j] = i => IntactFor(j, i)

DirInv ==
    /\ GrantInv
    /\ seen = [j \in Jobs |-> seen[j]]
    /\ \A j \in Jobs : pc[j] = "idle" => kind[j] = "none"
    /\ \A i \in Local : Gone(i) \/ Intact(i)

\* A record that is not gone stays, with its owners.
Stays(i) == i \in recorded => i \in recorded' /\ owners[i] \subseteq owners'[i]

\* A command in the middle of its work.
Active(at) == at \notin {"idle"} \cup Ended

\* What a command does of itself: it goes on or ends, and is asked for nothing else.
LEMMA JobGoes ==
    ASSUME GrantInv, NEW j \in Jobs, Step(j) \/ LockTimesOut(j)
    PROVE  /\ UNCHANGED jobAsked
           /\ \A k \in Jobs \ {j} : pc'[k] = pc[k]
           /\ Active(pc[j]) /\ pc'[j] \notin {"idle", "lock", "clear"}
           /\ pc'[j] = "untrack" => pc[j] = "lock"
  <1>1. UNCHANGED jobAsked
    BY DEF Step, TakeInstallLock, Read, Exists, Verify, Vanished, Forget, Install, ScriptSucceeds,
           ScriptFails, Validate, TrackValidates, Records, MarkInUse, UntrackInstall, CheckOwners,
           CheckLive, Wipe, WipeFails, Report, ClearRecords, DeleteAll, PruneSessions, LeaveSession,
           LockTimesOut, jobVars, jobAsked
  <1>2. Active(pc[j])
    BY DEF Step, TakeInstallLock, Read, Exists, Verify, Vanished, Forget, Install, ScriptSucceeds,
           ScriptFails, Validate, TrackValidates, Records, MarkInUse, UntrackInstall, CheckOwners,
           CheckLive, Wipe, WipeFails, Report, ClearRecords, DeleteAll, PruneSessions, LeaveSession,
           LockTimesOut, Active, Ended
  <1>3. \E at : /\ Go(j, at) /\ at \notin {"idle", "lock", "clear"}
                /\ at = "untrack" => pc[j] = "lock"
    <2>1. CASE TakeInstallLock(j)
      BY <2>1 DEF TakeInstallLock, End
    <2>2. CASE LockTimesOut(j)
      BY <2>2 DEF LockTimesOut, End
    <2>3. CASE Read(j)
      BY <2>3 DEF Read, End
    <2>4. CASE Exists(j)
      BY <2>4 DEF Exists, NotThere, End
    <2>5. CASE Verify(j)
      BY <2>5 DEF Verify, NotThere, End
    <2>6. CASE Vanished(j)
      BY <2>6 DEF Vanished
    <2>15. CASE Forget(j)
      <3>1. Go(j, "forgetAgain") \/ Go(j, "install") \/ Go(j, "none")
        BY <2>15 DEF Forget, NotThere, End
      <3> QED
        BY <3>1
    <2>7. CASE Install(j) \/ ScriptSucceeds(j) \/ ScriptFails(j)
      BY <2>7 DEF Install, ScriptSucceeds, ScriptFails, End
    <2>8. CASE Validate(j) \/ TrackValidates(j)
      BY <2>8 DEF Validate, TrackValidates, End
    <2>9. CASE Records(j)
      BY <2>9 DEF Records, End
    <2>10. CASE MarkInUse(j) \/ UntrackInstall(j)
      BY <2>10 DEF MarkInUse, UntrackInstall, End
    <2>11. CASE CheckOwners(j)
      BY <2>11 DEF CheckOwners, End
    <2>12. CASE CheckLive(j)
      BY <2>12 DEF CheckLive, End
    <2>13. CASE Wipe(j) \/ WipeFails(j) \/ Report(j)
      BY <2>13 DEF Wipe, WipeFails, Report, End
    <2>14. CASE ClearRecords(j) \/ DeleteAll(j) \/ PruneSessions(j) \/ LeaveSession(j)
      BY <2>14 DEF ClearRecords, DeleteAll, PruneSessions, LeaveSession, End
    <2> QED
      BY <2>1, <2>2, <2>3, <2>4, <2>5, <2>6, <2>7, <2>8, <2>9, <2>10, <2>11, <2>12, <2>13, <2>14, <2>15 DEF Step
  <1> QED
    BY <1>1, <1>2, <1>3 DEF Go, GrantInv, Functions

\* Uninstalls are not taken back.
LEMMA GoneStays ==
    ASSUME GrantInv, NEW j \in Jobs, Step(j) \/ LockTimesOut(j), NEW i, Gone(i)
    PROVE  Gone(i)'
  BY JobGoes DEF Gone, jobAsked

\* A command that is to drop a record, or has deleted or may delete a directory, makes
\* its install gone, or has found it in no order.
LEMMA NeverDrops ==
    ASSUME DirInv, NEW j \in Jobs, NEW i \in Local, ~Gone(i)',
           Step(j) \/ LockTimesOut(j)
    PROVE  /\ pc[j] \notin {"clear", "delete"}
           /\ inst[j] = i => /\ kind[j] \in UninstallKinds => pc[j] = "lock"
                             /\ pc[j] \notin {"forget", "forgetAgain"}
  <1>1. ~Gone(i) /\ Intact(i)
    BY GoneStays DEF DirInv
  <1>2. UNCHANGED jobAsked /\ KindFits(j, pc[j]) /\ pc'[j] # "clear"
    BY JobGoes DEF DirInv, GrantInv, JobInv
  <1>3. pc[j] \notin {"clear", "delete"}
    BY <1>1, <1>2 DEF Gone, KindFits, jobAsked
  <1>4. ASSUME inst[j] = i, kind[j] \in UninstallKinds PROVE pc[j] = "lock"
    <2>1. pc[j] \in {"lock", "untrack"} /\ pc'[j] \in {"lock", "untrack"}
      BY <1>1, <1>2, <1>4 DEF Gone, jobAsked
    <2> QED
      BY <2>1, JobGoes DEF DirInv
  <1> QED
    BY <1>1, <1>3, <1>4 DEF Intact, IntactFor

\* A command changes nothing of other installs, unless it uninstalls everything.
LEMMA OthersRest ==
    ASSUME DirInv, NEW j \in Jobs, Step(j) \/ LockTimesOut(j), pc[j] \notin {"clear", "delete"},
           NEW i \in Local, i # inst[j]
    PROVE  disk'[i] = disk[i] /\ owners'[i] = owners[i] /\ (i \in recorded' <=> i \in recorded)
  <1>0. /\ disk = [m \in Local |-> disk[m]] /\ owners = [m \in Installs |-> owners[m]]
        /\ i \in Installs
    BY TrackerAssumption DEF DirInv, GrantInv, Functions
  <1>1. CASE UNCHANGED <<recorded, owners, disk>>
    BY <1>1
  <1>2. CASE Forget(j) \/ Report(j)
    BY <1>0, <1>2 DEF Forget, Report, DropRecord
  <1>3. CASE Records(j)
    BY <1>0, <1>3 DEF Records, Track
  <1>4. CASE UntrackInstall(j)
    BY <1>0, <1>4 DEF UntrackInstall, Untrack, DropRecord
  <1>5. CASE Install(j) \/ ScriptSucceeds(j) \/ ScriptFails(j) \/ Wipe(j)
    BY <1>0, <1>5 DEF Install, ScriptSucceeds, ScriptFails, Wipe, trackerVars
  <1>6. CASE \/ TakeInstallLock(j) \/ LockTimesOut(j) \/ Read(j) \/ Exists(j) \/ Verify(j) \/ Vanished(j)
             \/ Validate(j) \/ TrackValidates(j) \/ MarkInUse(j) \/ CheckOwners(j) \/ CheckLive(j)
             \/ WipeFails(j) \/ PruneSessions(j) \/ LeaveSession(j)
    BY <1>1, <1>6 DEF TakeInstallLock, LockTimesOut, Read, Exists, Verify, Vanished, Validate,
       TrackValidates, MarkInUse, CheckOwners, CheckLive, WipeFails, PruneSessions, LeaveSession,
       trackerVars
  <1>7. ~ClearRecords(j) /\ ~DeleteAll(j)
    BY DEF ClearRecords, DeleteAll
  <1> QED
    BY <1>2, <1>3, <1>4, <1>5, <1>6, <1>7 DEF Step

\* Nor of what another command has seen.
LEMMA OthersSeen ==
    ASSUME DirInv, NEW j \in Jobs, Step(j) \/ LockTimesOut(j)
    PROVE  /\ seen' = [k \in Jobs |-> seen'[k]]
           /\ \A k \in Jobs \ {j} : seen'[k] = seen[k]
           /\ pc[j] = "read" => seen'[j] = (inst[j] \in recorded)
           /\ pc[j] # "read" => UNCHANGED seen
  <1>1. CASE Read(j)
    BY <1>1 DEF Read, DirInv
  <1>2. CASE ~Read(j)
    <2>1. UNCHANGED seen /\ pc[j] # "read"
      BY <1>2 DEF Step, TakeInstallLock, Exists, Verify, Vanished, Forget, Install, ScriptSucceeds,
           ScriptFails, Validate, TrackValidates, Records, MarkInUse, UntrackInstall, CheckOwners,
           CheckLive, Wipe, WipeFails, Report, ClearRecords, DeleteAll, PruneSessions, LeaveSession,
           LockTimesOut, jobVars
    <2> QED
      BY <2>1 DEF DirInv
  <1> QED
    BY <1>1, <1>2

\* What a command may do to its own install: it is fit for it afterwards, and changes the
\* directory only when no other goes by it.
OwnStep(j, i) ==
    /\ IntactFor(j, i)'
    /\ i \in recorded' => disk'[i] = "complete"
    /\ Stays(i)
    /\ \/ disk'[i] = disk[i]
       \/ disk[i] # "complete" /\ disk'[i] = "partial"
       \/ disk[i] # "complete" /\ \A k \in Jobs \ {j} : inst[k] = i => pc[k] # "script"

LEMMA OwnSteps ==
    ASSUME DirInv, PartialPasses = FALSE, NEW j \in Jobs, NEW i \in Local, ~Gone(i)', inst[j] = i,
           Step(j) \/ LockTimesOut(j)
    PROVE  OwnStep(j, i)
  <1>0. /\ Intact(i) /\ IntactFor(j, i) /\ KindFits(j, pc[j]) /\ inst'[j] = i /\ kind'[j] = kind[j]
        /\ pc = [k \in Jobs |-> pc[k]]
        /\ disk = [m \in Local |-> disk[m]] /\ owners = [m \in Installs |-> owners[m]]
        /\ i \in Installs
    <2>1. ~Gone(i)
      BY GoneStays DEF DirInv
    <2>2. UNCHANGED jobAsked
      BY JobGoes DEF DirInv
    <2> QED
      BY <2>1, <2>2, TrackerAssumption DEF DirInv, Intact, GrantInv, JobInv, Functions, jobAsked
  <1>1. /\ kind[j] \in UninstallKinds => pc[j] = "lock"
        /\ pc[j] \notin {"clear", "delete", "forget", "forgetAgain"}
    BY NeverDrops
  <1>2. /\ pc[j] = "read" => seen'[j] = (i \in recorded)
        /\ pc[j] # "read" => seen'[j] = seen[j]
    BY OthersSeen
  <1>3. pc[j] \notin {"untrack", "check", "wipe", "report", "retrack", "rerecord"}
    BY <1>0, <1>1 DEF KindFits
  <1>quiet. ASSUME UNCHANGED <<recorded, owners, disk>>, IntactFor(j, i)'
            PROVE  OwnStep(j, i)
    BY <1>quiet, <1>0 DEF OwnStep, Stays, Intact
  <1>4. CASE TakeInstallLock(j) \/ LockTimesOut(j) \/ MarkInUse(j) \/ PruneSessions(j) \/ LeaveSession(j)
    <2>1. UNCHANGED <<recorded, owners, disk>>
      BY <1>4 DEF TakeInstallLock, LockTimesOut, MarkInUse, PruneSessions, LeaveSession, trackerVars
    <2>2. pc'[j] \in {"read", "untrack", "leave"} \cup Ended
      BY <1>0, <1>4 DEF TakeInstallLock, LockTimesOut, MarkInUse, PruneSessions, LeaveSession, End, Go, Ended
    <2>3. IntactFor(j, i)'
      BY <2>2 DEF IntactFor, Claims, Ended
    <2> QED
      BY <2>1, <2>3, <1>quiet
  <1>5. CASE Read(j)
    <2>1. UNCHANGED <<recorded, owners, disk>> /\ pc[j] = "read" /\ pc'[j] = "exists"
      BY <1>0, <1>5 DEF Read, Go, trackerVars
    <2>2. IntactFor(j, i)'
      BY <1>0, <1>2, <2>1 DEF IntactFor, Claims, Intact
    <2> QED
      BY <2>1, <2>2, <1>quiet
  <1>6. CASE Exists(j) \/ Verify(j)
    <2>1. UNCHANGED <<recorded, owners, disk>>
      BY <1>6 DEF Exists, Verify, trackerVars
    <2>2. \/ pc'[j] \in {"install", "mark"} \cup Ended
          \/ pc'[j] \in {"track", "verify"} /\ Claims(j)
      <3>1. CASE Exists(j)
        BY <1>0, <3>1 DEF Exists, NotThere, End, Go, Claims, Ended
      <3>2. CASE Verify(j)
        BY <1>0, <3>2 DEF Verify, NotThere, End, Go, Claims, Ended
      <3> QED
        BY <1>6, <3>1, <3>2
    <2>3. IntactFor(j, i)'
      BY <1>0, <2>1, <2>2 DEF IntactFor, Claims, Ended
    <2> QED
      BY <2>1, <2>3, <1>quiet
  <1>7. CASE Vanished(j)
    <2>1. disk[i] = "complete" /\ FALSE \in ExecutableSeen(i)
      BY <1>0, <1>7 DEF Vanished, IntactFor, Claims
    <2> QED
      BY <2>1 DEF ExecutableSeen
  <1>8. CASE Validate(j) \/ TrackValidates(j)
    <2>1. UNCHANGED <<recorded, owners, disk>> /\ Claims(j)
      BY <1>3, <1>8 DEF Validate, TrackValidates, trackerVars, Claims
    <2>2. pc'[j] \in {"track", "record"} \cup Ended
      BY <1>0, <1>3, <1>8 DEF Validate, TrackValidates, End, Go, Ended
    <2>3. IntactFor(j, i)'
      BY <1>0, <2>1, <2>2 DEF IntactFor, Claims, Ended
    <2> QED
      BY <2>1, <2>3, <1>quiet
  <1>9. CASE Install(j)
    <2>1. UNCHANGED <<recorded, owners>>
      BY <1>9 DEF Install, trackerVars
    <2>2. \/ disk[i] = "complete" /\ UNCHANGED disk /\ pc'[j] = "validate"
          \/ disk[i] # "complete" /\ disk'[i] = "partial" /\ pc'[j] = "script"
      BY <1>0, <1>9 DEF Install, MeetsRequirement, Go
    <2>3. IntactFor(j, i)'
      BY <2>2 DEF IntactFor, Claims
    <2> QED
      BY <1>0, <2>1, <2>2, <2>3 DEF OwnStep, Stays, Intact
  <1>10. CASE ScriptSucceeds(j) \/ ScriptFails(j)
    <2>1. UNCHANGED <<recorded, owners>> /\ disk[i] = "partial" /\ i \notin recorded
      BY <1>0, <1>10 DEF ScriptSucceeds, ScriptFails, trackerVars, IntactFor, Intact
    <2>2. ASSUME NEW k \in Jobs, pc[k] = "script", inst[k] = i PROVE installLock[i] = k
      BY <2>2 DEF DirInv, GrantInv, JobInv, KindFits, Within, LockKinds, Ended
    <2>3. \A k \in Jobs \ {j} : inst[k] = i => pc[k] # "script"
      BY <1>10, <2>2 DEF ScriptSucceeds, ScriptFails
    <2>4. \/ disk'[i] = "complete" /\ pc'[j] = "validate"
          \/ disk'[i] = "partial" /\ pc'[j] = "failed"
      BY <1>0, <1>10, <2>1 DEF ScriptSucceeds, ScriptFails, End, Go
    <2>5. IntactFor(j, i)'
      BY <2>4 DEF IntactFor, Claims
    <2> QED
      BY <2>1, <2>3, <2>4, <2>5 DEF OwnStep, Stays
  <1>11. CASE Records(j)
    <2>1. /\ recorded' = recorded \cup {i} /\ owners[i] \subseteq owners'[i] /\ UNCHANGED disk
          /\ disk[i] = "complete" /\ pc'[j] = "done"
      BY <1>0, <1>3, <1>11 DEF Records, Track, End, Go, IntactFor, Claims
    <2> QED
      BY <2>1 DEF OwnStep, Stays, IntactFor, Claims
  <1> QED
    BY <1>1, <1>3, <1>4, <1>5, <1>6, <1>7, <1>8, <1>9, <1>10, <1>11
       DEF Step, Forget, UntrackInstall, CheckOwners, CheckLive, Wipe, WipeFails, Report, ClearRecords,
           DeleteAll

LEMMA IntactStep ==
    ASSUME DirInv, PartialPasses = FALSE, NEW j \in Jobs, NEW i \in Local, ~Gone(i)',
           Step(j) \/ LockTimesOut(j)
    PROVE  Intact(i)' /\ Stays(i)
  <1>0. Intact(i) /\ pc[j] \notin {"clear", "delete"}
    BY GoneStays, NeverDrops DEF DirInv
  <1>1. /\ kind' = kind /\ inst' = inst
        /\ \A k \in Jobs \ {j} : pc'[k] = pc[k] /\ seen'[k] = seen[k]
    BY JobGoes, OthersSeen DEF DirInv, jobAsked
  <1>2. CASE inst[j] # i
    <2>1. disk'[i] = disk[i] /\ owners'[i] = owners[i] /\ (i \in recorded' <=> i \in recorded)
      BY <1>0, <1>2, OthersRest
    <2> QED
      BY <1>0, <1>1, <1>2, <2>1 DEF Intact, IntactFor, Claims, Stays
  <1>3. CASE inst[j] = i
    <2>1. OwnStep(j, i)
      BY <1>3, OwnSteps
    <2>2. ASSUME NEW k \in Jobs \ {j}, inst[k] = i PROVE IntactFor(k, i)'
      <3>1. IntactFor(k, i) /\ (Claims(k)' <=> Claims(k)) /\ pc'[k] = pc[k]
        BY <1>0, <1>1, <2>2 DEF Intact, Claims
      <3> QED
        BY <2>1, <2>2, <3>1 DEF OwnStep, IntactFor
    <2> QED
      BY <1>1, <2>1, <2>2 DEF OwnStep, Intact
  <1> QED
    BY <1>2, <1>3

\* A command on the way keeps the order of the directories, and what is recorded stays
\* unless it is gone.
LEMMA DirStep ==
    ASSUME DirInv, PartialPasses = FALSE, NEW j \in Jobs, Step(j) \/ LockTimesOut(j)
    PROVE  DirInv' /\ \A i \in Local : Gone(i)' \/ Stays(i)
  <1>1. GrantInv'
    BY LookingSteps, DecidingSteps, DiskSteps, RecordSteps, KeepsInv DEF Step, DirInv
  <1>2. \A k \in Jobs : pc'[k] = "idle" => kind'[k] = "none"
    BY JobGoes DEF DirInv, jobAsked
  <1> QED
    BY <1>1, <1>2, IntactStep, OthersSeen DEF DirInv

-----------------------------------------------------------------------------
(***************************************************************************)
(* What the pass can see of the commands                                   *)
(***************************************************************************)

\* A step of the commands: what is recorded stays with its owners unless it is gone,
\* nobody is asked for another thing, no uninstall is taken back, and the pass's own
\* uninstalls begin by the pass only.
Goes ==
    /\ DirInv'
    /\ \A i \in Local : Gone(i)' \/ Stays(i)
    /\ \A j \in Jobs : kind[j] # "none" => kind'[j] = kind[j] /\ inst'[j] = inst[j]
    /\ \A i : (Gone(i) => Gone(i)') /\ (Uninstalling(i) => Uninstalling(i)')
    /\ \A j \in PassJobs :
         /\ kind'[j] \in {kind[j], "acquire", "similar"}
         /\ kind'[j] = "update" => (Active(pc'[j]) => Active(pc[j]))

LEMMA PassJobsAreJobs == PassJobs \subseteq Jobs
  BY PassAssumption DEF PassJobs

LEMMA StutterGoes == DirInv /\ UNCHANGED vars => Goes
  <1> SUFFICES ASSUME DirInv, UNCHANGED vars PROVE Goes
    OBVIOUS
  <1>1. /\ UNCHANGED <<kind, inst, ext, seen, pc, recorded, owners, disk, granted, rough, installLock>>
    BY DEF vars, jobVars, trackerVars
  <1>2. GrantInv'
    BY <1>1 DEF DirInv, GrantInv, Functions, GrantKept, JobInv, KindFits, Within, Knows
  <1>3. DirInv'
    BY <1>1, <1>2 DEF DirInv, Gone, Intact, IntactFor, Claims
  <1> QED
    BY <1>1, <1>3 DEF Goes, Gone, Uninstalling, Stays

LEMMA StepGoes ==
    ASSUME DirInv, PartialPasses = FALSE, NEW j \in Jobs, Step(j) \/ LockTimesOut(j)
    PROVE  Goes
  <1>1. DirInv' /\ \A i \in Local : Gone(i)' \/ Stays(i)
    BY DirStep
  <1>2. /\ kind' = kind /\ inst' = inst /\ Active(pc[j])
        /\ \A k \in Jobs \ {j} : pc'[k] = pc[k]
        /\ pc'[j] \notin {"lock", "clear"} /\ (pc'[j] = "untrack" => pc[j] = "lock")
    BY JobGoes DEF DirInv, jobAsked
  <1>3. \A i : (Gone(i) => Gone(i)') /\ (Uninstalling(i) => Uninstalling(i)')
    BY <1>2 DEF Gone, Uninstalling
  <1> QED
    BY <1>1, <1>2, <1>3, PassJobsAreJobs DEF Goes

\* A command that arrives was none before, and others are as they were.
Begins(j, k, i) ==
    /\ DirInv'
    /\ UNCHANGED <<recorded, owners>>
    /\ kind[j] = "none" /\ kind'[j] = k /\ inst'[j] = i
    /\ \A other \in Jobs \ {j} :
         pc'[other] = pc[other] /\ kind'[other] = kind[other] /\ inst'[other] = inst[other]
    /\ \A m : (Gone(m) => Gone(m)') /\ (Uninstalling(m) => Uninstalling(m)')

LEMMA StartBegins ==
    ASSUME DirInv, NEW j \in Jobs, NEW k \in AllKinds, NEW e \in Exts, NEW i \in Local, Start(j, k, e, i)
    PROVE  Begins(j, k, i)
  <1>1. GrantInv'
    BY StartKeeps, KeepsInv DEF DirInv
  <1>2. /\ UNCHANGED <<recorded, owners, disk, seen>> /\ kind[j] = "none"
        /\ kind'[j] = k /\ inst'[j] = i /\ pc'[j] = FirstStage(k)
        /\ \A other \in Jobs \ {j} :
             pc'[other] = pc[other] /\ kind'[other] = kind[other] /\ inst'[other] = inst[other]
    BY DEF Start, Go, DirInv, GrantInv, Functions, trackerVars
  <1>3. /\ pc'[j] \notin {"idle", "exists", "validate", "track", "record", "script", "forget", "forgetAgain"}
        /\ pc'[j] = "verify" => kind'[j] = "find"
        /\ k # "none"
    BY <1>2 DEF FirstStage, AllKinds
  <1>4. \A m : (Gone(m) => Gone(m)') /\ (Uninstalling(m) => Uninstalling(m)')
    BY <1>2 DEF Gone, Uninstalling, UninstallKinds
  <1>5. \A m \in Local : Intact(m) => Intact(m)'
    <2>1. ASSUME NEW m PROVE IntactFor(j, m)'
      BY <1>3 DEF IntactFor, Claims
    <2>2. ASSUME NEW m, NEW other \in Jobs \ {j}, IntactFor(other, m) PROVE IntactFor(other, m)'
      BY <1>2, <2>2 DEF IntactFor, Claims
    <2> QED
      BY <1>2, <2>1, <2>2 DEF Intact
  <1>6. DirInv'
    BY <1>1, <1>2, <1>3, <1>4, <1>5 DEF DirInv
  <1> QED
    BY <1>2, <1>4, <1>6 DEF Begins

LEMMA BeginsGoes ==
    ASSUME DirInv, NEW j \in Jobs, NEW k, NEW i, Begins(j, k, i),
           j \notin PassJobs \/ k \in {"acquire", "similar"}
    PROVE  Goes
  BY PassJobsAreJobs DEF Begins, Goes, Stays, Active

LEMMA SessionGoes ==
    ASSUME DirInv, NEW s \in Sessions, MutexAcquired(s) \/ Crash(s)
    PROVE  Goes
  <1>1. CASE MutexAcquired(s)
    <2>1. UNCHANGED <<kind, inst, ext, seen, pc, recorded, owners, disk, granted, rough, installLock>>
      BY <1>1 DEF MutexAcquired, SessionUp, jobVars
    <2>2. GrantInv'
      BY <2>1 DEF DirInv, GrantInv, Functions, GrantKept, JobInv, KindFits, Within, Knows
    <2>3. DirInv'
      BY <2>1, <2>2 DEF DirInv, Gone, Intact, IntactFor, Claims
    <2> QED
      BY <2>1, <2>3 DEF Goes, Gone, Uninstalling, Stays
  <1>2. CASE Crash(s)
    <2>1. /\ UNCHANGED <<kind, inst, seen, recorded, owners, disk>>
          /\ \A j \in Jobs : pc'[j] = pc[j] \/ pc'[j] = "dead"
      BY <1>2 DEF Crash, jobVars
    <2>2. GrantInv'
      BY <1>2, CrashKeeps DEF DirInv
    <2>3. \A m : (Gone(m) => Gone(m)') /\ (Uninstalling(m) => Uninstalling(m)')
      BY <2>1 DEF Gone, Uninstalling
    <2>4. \A m \in Local : Intact(m) => Intact(m)'
      BY <2>1 DEF Intact, IntactFor, Claims
    <2>5. DirInv'
      BY <2>1, <2>2, <2>3, <2>4 DEF DirInv
    <2> QED
      BY <2>1, <2>3, <2>5, PassJobsAreJobs DEF Goes, Stays, Active, Ended
  <1> QED
    BY <1>1, <1>2

LEMMA LocalGoes == PartialPasses = FALSE /\ DirInv /\ LocalNext => Goes
  <1> SUFFICES ASSUME PartialPasses = FALSE, DirInv, LocalNext PROVE Goes
    OBVIOUS
  <1>1. ASSUME NEW j \in Jobs \ PassJobs, NEW k \in Kinds, NEW e \in Exts, NEW i \in Local, Start(j, k, e, i)
        PROVE  Goes
    BY <1>1, StartBegins, BeginsGoes, JobsAssumption
  <1> QED
    BY <1>1, StepGoes, SessionGoes DEF LocalNext

\* addOwners takes nobody off the list.
LEMMA OwnsGoes == DirInv /\ PassOwns => Goes
  <1> SUFFICES ASSUME DirInv, PassOwns PROVE Goes
    OBVIOUS
  <1>1. /\ UNCHANGED <<kind, inst, ext, seen, pc, recorded, disk, granted, rough, installLock>>
        /\ owners' = [owners EXCEPT ![latest] = IF latest \in recorded THEN @ \cup FormerOwners(group) ELSE @]
    BY DEF PassOwns, AddOwners, jobVars
  <1>2. owners' = [i \in Installs |-> owners'[i]] /\ \A i \in Installs : owners[i] \subseteq owners'[i]
    BY <1>1 DEF DirInv, GrantInv, Functions
  <1>3. GrantKept'
    BY <1>1, <1>2, TrackerAssumption DEF DirInv, GrantInv, Functions, GrantKept
  <1>4. GrantInv'
    BY <1>1, <1>2, <1>3 DEF DirInv, GrantInv, Functions, JobInv, KindFits, Within, Knows
  <1>5. DirInv'
    BY <1>1, <1>4 DEF DirInv, Gone, Intact, IntactFor, Claims
  <1> QED
    BY <1>1, <1>2, <1>5, TrackerAssumption DEF Goes, Gone, Uninstalling, Stays

-----------------------------------------------------------------------------
(***************************************************************************)
(* What the pass knows                                                     *)
(***************************************************************************)
Removing == passAt \in {"remove", "removing"}

\* The pass has chosen what it keeps of its group.
Chosen == passAt = "own" \/ Removing

PlacesInv ==
    /\ DOMAIN listed \subseteq DOMAIN GroupOf
    /\ Chosen => latest \in DOMAIN GroupOf /\ GroupOf[latest] = group
    /\ Chosen \/ passAt \in {"acquiring", "reread"} => group \in todo

\* The pass's uninstalls are of what it has read, of groups that are done or of the
\* others of the group it is at, and it waits for each of them.
UpdateInv == \A j \in PassJobs :
    /\ kind[j] \in {"none", "acquire", "similar", "update"}
    /\ kind[j] = "update" =>
         /\ \E i \in DOMAIN Remover : j = Remover[i]
         /\ inst[j] \in DOMAIN listed
         /\ passAt \notin {"off", "online", "read"}
         /\ GroupOf[inst[j]] \in todo => Removing /\ GroupOf[inst[j]] = group /\ inst[j] # latest
         /\ Active(pc[j]) => passAt = "removing" /\ GroupOf[inst[j]] = group

\* What was read of the groups to go is still recorded, or gone.
ListedInv == \A i \in DOMAIN listed :
    GroupOf[i] \in todo /\ ~ (GroupOf[i] = group /\ Chosen) => i \in recorded \/ Gone(i)

\* What is kept is recorded, and nothing that was read of its group is newer.
LatestInv == Chosen =>
    /\ \A i \in DOMAIN listed : GroupOf[i] = group => PatchOf[i] <= PatchOf[latest] \/ Uninstalling(i)
    /\ latest \in recorded \/ Uninstalling(latest)

\* What is to be removed is not what is kept, which has the owners of all.
OwnersInv == Removing =>
    /\ outdated \subseteq Outdated(group)
    /\ \/ \A i \in DOMAIN listed : GroupOf[i] = group => listed[i] \subseteq owners[latest]
       \/ Uninstalling(latest)

PassInv == DirInv /\ PlacesInv /\ UpdateInv /\ ListedInv /\ LatestInv /\ OwnersInv

\* What is gone without anybody else's doing, the pass has removed.
LEMMA GoneBy ==
    ASSUME UpdateInv, NEW i, Gone(i)
    PROVE  Uninstalling(i) \/ \E j \in PassJobs : kind[j] = "update" /\ inst[j] = i
  BY DEF Gone, Uninstalling, UpdateInv, UninstallKinds

LEMMA PassSets ==
    /\ DOMAIN GroupOf \subseteq Local
    /\ \A i \in DOMAIN GroupOf : GroupOf[i] \in Groups /\ PatchOf[i] \in Nat /\ Remover[i] \in PassJobs
    /\ DOMAIN Remover = DOMAIN GroupOf
    /\ \A g \in Groups : Acquirer[g] \in PassJobs
    /\ PassJobs \subseteq Jobs
  BY PassAssumption, PassJobsAreJobs DEF PassJobs, Groups

\* The pass's uninstalls as other steps of the pass see them.
LEMMA UpdatesRest ==
    ASSUME PassInv, Goes,
           \A j \in PassJobs : kind[j] = "update" =>
             /\ inst[j] \in DOMAIN listed' /\ passAt' \notin {"off", "online", "read"}
             /\ GroupOf[inst[j]] \in todo' => Removing' /\ GroupOf[inst[j]] = group' /\ inst[j] # latest'
             /\ Active(pc[j]) => passAt' = "removing" /\ GroupOf[inst[j]] = group'
    PROVE  UpdateInv'
  <1>1. ASSUME NEW j \in PassJobs
        PROVE  /\ kind'[j] \in {"none", "acquire", "similar", "update"}
               /\ kind'[j] = "update" => kind[j] = "update" /\ inst'[j] = inst[j] /\ (Active(pc'[j]) => Active(pc[j]))
    BY <1>1, PassSets DEF Goes, PassInv, UpdateInv
  <1> QED
    BY <1>1 DEF UpdateInv, PassInv

\* What is kept is not among what the pass removes.
LEMMA LatestStays ==
    ASSUME PassInv, Goes, UpdateInv', Chosen, UNCHANGED <<latest, group, todo>>, Chosen'
    PROVE  Stays(latest) \/ Uninstalling(latest)'
  <1>1. latest \in Local /\ GroupOf[latest] \in todo
    BY PassSets DEF PassInv, PlacesInv
  <1>2. CASE Gone(latest)'
    <2>1. Uninstalling(latest)' \/ \E j \in PassJobs : kind'[j] = "update" /\ inst'[j] = latest
      BY <1>2 DEF Gone, Uninstalling, UpdateInv, UninstallKinds
    <2>2. ASSUME NEW j \in PassJobs, kind'[j] = "update", inst'[j] = latest PROVE FALSE
      BY <1>1, <2>2 DEF UpdateInv
    <2> QED
      BY <2>1, <2>2
  <1> QED
    BY <1>1, <1>2 DEF Goes

\* Nothing changes for the pass.
LEMMA PassRests ==
    ASSUME PassInv, Goes, UNCHANGED passVars
    PROVE  PassInv'
  <1>0. UNCHANGED <<passAt, listed, todo, group, latest, outdated>>
    BY DEF passVars
  <1>1. DirInv' /\ PlacesInv' /\ (Chosen <=> Chosen') /\ (Removing <=> Removing')
    BY <1>0 DEF Goes, PassInv, PlacesInv, Chosen, Removing
  <1>2. UpdateInv'
    BY <1>0, <1>1, UpdatesRest DEF PassInv, UpdateInv
  <1>3. ListedInv'
    BY <1>0, <1>1, PassSets DEF PassInv, ListedInv, PlacesInv, Goes, Stays
  <1>4. Chosen => Stays(latest) \/ Uninstalling(latest)'
    BY <1>0, <1>1, <1>2, LatestStays
  <1>5. LatestInv'
    BY <1>0, <1>1, <1>4 DEF PassInv, LatestInv, Goes, Stays
  <1>6. OwnersInv'
    <2>1. CASE Removing
      <3>1. outdated' \subseteq Outdated(group)'
        BY <1>0, <2>1 DEF PassInv, OwnersInv, Outdated
      <3>2. CASE Uninstalling(latest)'
        BY <1>0, <3>1, <3>2 DEF OwnersInv
      <3>3. CASE ~Uninstalling(latest)'
        <4>1. latest \in recorded /\ owners[latest] \subseteq owners'[latest]
          BY <1>0, <1>4, <2>1, <3>3 DEF Chosen, PassInv, LatestInv, Goes, Stays
        <4>2. \A i \in DOMAIN listed : GroupOf[i] = group => listed[i] \subseteq owners[latest]
          BY <1>0, <2>1, <3>3 DEF PassInv, OwnersInv, Goes
        <4> QED
          BY <1>0, <3>1, <4>1, <4>2 DEF OwnersInv
      <3> QED
        BY <3>2, <3>3
    <2> QED
      BY <1>1, <2>1 DEF OwnersInv
  <1> QED
    BY <1>1, <1>2, <1>3, <1>5, <1>6 DEF PassInv

-----------------------------------------------------------------------------
(***************************************************************************)
(* The steps of the pass                                                   *)
(***************************************************************************)

\* Steps outside the work on a group: to start, to acquire, to end.
LEMMA PassMoves ==
    ASSUME PassInv, Goes, ~Chosen, ~Chosen', UNCHANGED <<listed, todo>>,
           passAt' \in {"acquiring", "reread"} => group' \in todo,
           passAt' \in {"off", "online", "read"} => passAt \in {"off", "online", "read"}
    PROVE  PassInv'
  <1>1. DirInv' /\ PlacesInv'
    BY DEF Goes, PassInv, PlacesInv
  <1>2. ~Removing /\ ~Removing' /\ passAt # "removing"
    BY DEF Chosen, Removing
  <1>3. UpdateInv'
    BY <1>2, UpdatesRest DEF PassInv, UpdateInv
  <1>4. ListedInv'
    BY PassSets DEF PassInv, PlacesInv, ListedInv, Goes, Stays
  <1>5. LatestInv' /\ OwnersInv'
    BY <1>2 DEF LatestInv, OwnersInv
  <1> QED
    BY <1>1, <1>3, <1>4, <1>5 DEF PassInv

LEMMA PassAsks ==
    ASSUME PassInv, NEW g \in Groups, PassAcquires(g)
    PROVE  PassInv'
  <1>1. Goes
    <2>1. CASE UNCHANGED vars
      BY <2>1, StutterGoes DEF PassInv
    <2>2. ASSUME NEW k \in {"acquire", "similar"}, NEW i \in Local, Start(Acquirer[g], k, Lib, i)
          PROVE  Goes
      <3>1. Acquirer[g] \in Jobs /\ k \in AllKinds /\ Lib \in Exts
        BY PassSets, TrackerAssumption DEF AllKinds
      <3> QED
        BY <2>2, <3>1, StartBegins, BeginsGoes DEF PassInv
    <2>3. FullVersion(Channels, g) \subseteq Local /\ InGroup(g) \subseteq Local
      BY PassSets, PassAssumption DEF InGroup
    <2> QED
      BY <2>1, <2>2, <2>3 DEF PassAcquires
  <1>2. ~Chosen /\ ~Chosen' /\ UNCHANGED <<listed, todo>> /\ group' \in todo
        /\ passAt' \notin {"off", "online", "read"}
    BY DEF PassAcquires, PassGoes, Chosen, Removing
  <1> QED
    BY <1>1, <1>2, PassMoves

\* The first reading.
LEMMA PassReading ==
    ASSUME PassInv, PassReads
    PROVE  PassInv'
  <1>1. Goes
    BY StutterGoes DEF PassReads, PassInv
  <1>2. /\ passAt = "read" /\ passAt' = "next" /\ UNCHANGED recorded
        /\ DOMAIN listed' = recorded \cap DOMAIN GroupOf
    BY DEF PassReads, PassGoes, vars, trackerVars
  <1>3. \A j \in PassJobs : kind[j] # "update"
    BY <1>2 DEF PassInv, UpdateInv
  <1>4. UpdateInv'
    BY <1>1, <1>3, UpdatesRest
  <1>5. DirInv' /\ PlacesInv' /\ ListedInv' /\ LatestInv' /\ OwnersInv'
    BY <1>1, <1>2 DEF Goes, PlacesInv, ListedInv, LatestInv, OwnersInv, Chosen, Removing
  <1> QED
    BY <1>4, <1>5 DEF PassInv

\* The second reading: whatever was read first is recorded still, or gone by another.
LEMMA PassReading2 ==
    ASSUME PassInv, PassReReads
    PROVE  PassInv'
  <1>1. Goes
    BY StutterGoes DEF PassReReads, PassInv
  <1>2. /\ passAt = "reread" /\ group \in todo /\ UNCHANGED <<listed, group, outdated, recorded>>
        /\ ~Chosen /\ ~Removing
    BY DEF PassReReads, PassInv, PlacesInv, vars, trackerVars, Chosen, Removing
  <1>3. \A j \in PassJobs : kind[j] = "update" =>
          /\ inst[j] \in DOMAIN listed /\ GroupOf[inst[j]] \notin todo /\ ~Active(pc[j])
    BY <1>2 DEF PassInv, UpdateInv, Removing
  <1>4. CASE recorded \cap InGroup(group) = {} /\ todo' = todo \ {group} /\ passAt' = "next"
    <2>1. UpdateInv'
      BY <1>1, <1>2, <1>3, <1>4, UpdatesRest
    <2>2. ListedInv'
      BY <1>1, <1>2, <1>4, PassSets DEF PassInv, PlacesInv, ListedInv, Goes, Stays, Chosen
    <2>3. PlacesInv' /\ LatestInv' /\ OwnersInv'
      BY <1>2, <1>4 DEF PassInv, PlacesInv, LatestInv, OwnersInv, Chosen, Removing
    <2> QED
      BY <1>1, <2>1, <2>2, <2>3 DEF PassInv, Goes
  <1>5. ASSUME NEW i \in recorded \cap InGroup(group),
               \A k \in recorded \cap InGroup(group) : PatchOf[k] <= PatchOf[i],
               latest' = i, passAt' = "own", UNCHANGED todo
        PROVE  PassInv'
    <2>1. i \in DOMAIN GroupOf /\ GroupOf[i] = group /\ i \in recorded
      BY <1>5 DEF InGroup
    <2>2. Chosen' /\ ~Removing'
      BY <1>5 DEF Chosen, Removing
    <2>3. UpdateInv'
      BY <1>1, <1>2, <1>3, <1>5, UpdatesRest
    <2>4. ASSUME NEW m \in DOMAIN listed, GroupOf[m] = group
          PROVE  PatchOf[m] <= PatchOf[i] \/ Uninstalling(m)
      <3>1. m \in DOMAIN GroupOf /\ (m \in recorded \/ Gone(m))
        BY <1>2, <2>4 DEF PassInv, PlacesInv, ListedInv
      <3>2. CASE m \in recorded
        BY <1>5, <2>4, <3>1, <3>2 DEF InGroup
      <3>3. CASE Gone(m)
        BY <1>2, <1>3, <2>4, <3>3, GoneBy DEF PassInv
      <3> QED
        BY <3>1, <3>2, <3>3
    <2>5. LatestInv'
      BY <1>1, <1>2, <1>5, <2>1, <2>4 DEF LatestInv, Goes
    <2>6. ListedInv'
      BY <1>1, <1>2, <1>5, PassSets DEF PassInv, PlacesInv, ListedInv, Goes, Stays, Chosen
    <2>7. PlacesInv' /\ OwnersInv'
      BY <1>2, <1>5, <2>1, <2>2 DEF PassInv, PlacesInv, OwnersInv
    <2> QED
      BY <1>1, <2>3, <2>5, <2>6, <2>7 DEF PassInv, Goes
  <1> QED
    BY <1>4, <1>5 DEF PassReReads, PassGoes

\* The owners of all go to what is kept.
LEMMA PassOwning ==
    ASSUME PassInv, PassOwns
    PROVE  PassInv'
  <1>1. Goes
    BY OwnsGoes DEF PassInv
  <1>2. /\ passAt = "own" /\ passAt' = "remove" /\ UNCHANGED <<listed, todo, group, latest, kind, inst, pc, recorded>>
        /\ outdated' = Outdated(group) /\ AddOwners(latest, FormerOwners(group))
        /\ Chosen /\ ~Removing /\ Chosen' /\ Removing'
    BY DEF PassOwns, PassGoes, AddOwners, jobVars, Chosen, Removing
  <1>3. latest \in DOMAIN GroupOf /\ GroupOf[latest] = group /\ group \in todo /\ DOMAIN listed \subseteq DOMAIN GroupOf
    BY <1>2 DEF PassInv, PlacesInv
  <1>4. UpdateInv'
    BY <1>1, <1>2, UpdatesRest DEF PassInv, UpdateInv, Removing
  <1>5. LatestInv'
    BY <1>1, <1>2 DEF PassInv, LatestInv, Goes
  <1>6. latest \in recorded => \A i \in DOMAIN listed : GroupOf[i] = group => listed[i] \subseteq owners'[latest]
    <2>1. latest \in Installs /\ owners = [i \in Installs |-> owners[i]]
      BY <1>3, PassSets, TrackerAssumption DEF PassInv, DirInv, GrantInv, Functions
    <2>2. latest \in recorded => FormerOwners(group) \subseteq owners'[latest]
      BY <1>2, <2>1 DEF AddOwners
    <2>3. \A i \in DOMAIN listed : GroupOf[i] = group => listed[i] \subseteq FormerOwners(group)
      BY <1>3 DEF FormerOwners, InGroup
    <2> QED
      BY <2>2, <2>3
  <1>7. OwnersInv'
    <2>1. latest \in recorded \/ Uninstalling(latest)'
      BY <1>1, <1>2 DEF PassInv, LatestInv, Goes
    <2>2. outdated' \subseteq Outdated(group)'
      BY <1>2 DEF Outdated
    <2> QED
      BY <1>2, <1>6, <2>1, <2>2 DEF OwnersInv
  <1>8. PlacesInv' /\ ListedInv'
    BY <1>1, <1>2, <1>3 DEF PassInv, PlacesInv, ListedInv, Goes
  <1> QED
    BY <1>1, <1>4, <1>5, <1>7, <1>8 DEF PassInv, Goes

\* The uninstall of one of the others begins, when none is under way.
LEMMA PassRemoving ==
    ASSUME PassInv, NEW i \in DOMAIN GroupOf, PassRemoves(i)
    PROVE  PassInv'
  <1> DEFINE j == Remover[i]
  <1>1. j \in PassJobs /\ j \in Jobs /\ i \in Local /\ "update" \in AllKinds /\ Lib \in Exts
    BY PassSets, TrackerAssumption DEF AllKinds
  <1>2. Begins(j, "update", i)
    BY <1>1, StartBegins DEF PassRemoves, PassInv
  <1>3. /\ passAt = "remove" /\ passAt' = "removing" /\ UNCHANGED <<listed, todo, group, latest, recorded, owners>>
        /\ outdated' = outdated \ {i} /\ i \in outdated /\ Chosen /\ Removing /\ Chosen' /\ Removing'
    BY <1>2 DEF PassRemoves, PassGoes, Chosen, Removing, Begins
  <1>4. /\ i \in DOMAIN listed /\ GroupOf[i] = group /\ i # latest
        /\ outdated' \subseteq Outdated(group)'
    BY <1>3 DEF PassInv, OwnersInv, Outdated, InGroup
  <1> HIDE DEF j
  <1>5. UpdateInv'
    <2>1. ASSUME NEW k \in PassJobs, k # j
          PROVE  kind'[k] = kind[k] /\ inst'[k] = inst[k] /\ pc'[k] = pc[k]
      BY <1>2, <2>1, PassSets DEF Begins
    <2>2. ASSUME NEW k \in PassJobs, kind[k] = "update" PROVE ~Active(pc[k])
      BY <1>3, <2>2 DEF PassInv, UpdateInv
    <2>3. kind'[j] = "update" /\ inst'[j] = i /\ i \in DOMAIN Remover /\ j = Remover[i]
      BY <1>2, PassSets DEF Begins, j
    <2> QED
      BY <1>3, <1>4, <2>1, <2>2, <2>3 DEF PassInv, UpdateInv
  <1>6. LatestInv' /\ OwnersInv' /\ ListedInv' /\ PlacesInv' /\ DirInv'
    BY <1>2, <1>3, <1>4 DEF Begins, PassInv, LatestInv, OwnersInv, ListedInv, PlacesInv
  <1> QED
    BY <1>5, <1>6 DEF PassInv

\* The uninstall has ended.
LEMMA PassWaited ==
    ASSUME PassInv, PassRemoved
    PROVE  PassInv'
  <1>1. Goes
    BY StutterGoes DEF PassRemoved, PassInv
  <1>2. /\ passAt = "removing" /\ passAt' = "remove"
        /\ UNCHANGED <<listed, todo, group, latest, outdated, kind, inst, pc, recorded, owners>>
        /\ Chosen /\ Removing /\ Chosen' /\ Removing'
    BY DEF PassRemoved, PassGoes, vars, trackerVars, jobVars, Chosen, Removing
  <1>3. ASSUME NEW j \in PassJobs, kind[j] = "update" PROVE ~Active(pc[j])
    BY <1>3 DEF PassRemoved, PassInv, UpdateInv, Active
  <1>4. UpdateInv'
    BY <1>1, <1>2, <1>3, UpdatesRest DEF PassInv, UpdateInv
  <1>5. LatestInv' /\ OwnersInv' /\ ListedInv' /\ PlacesInv'
    BY <1>1, <1>2 DEF Goes, PassInv, LatestInv, OwnersInv, ListedInv, PlacesInv, Outdated
  <1> QED
    BY <1>1, <1>4, <1>5 DEF PassInv, Goes

\* ... and with the last of them the group.
LEMMA PassGroupDone ==
    ASSUME PassInv, GroupDone
    PROVE  PassInv'
  <1>1. Goes
    BY StutterGoes DEF GroupDone, PassInv
  <1>2. /\ passAt = "remove" /\ passAt' = "next" /\ todo' = todo \ {group}
        /\ UNCHANGED <<listed, group, latest, outdated, recorded>>
        /\ ~Chosen' /\ ~Removing'
    BY DEF GroupDone, PassGoes, vars, trackerVars, Chosen, Removing
  <1>3. UpdateInv'
    BY <1>1, <1>2, UpdatesRest DEF PassInv, UpdateInv
  <1>4. LatestInv' /\ OwnersInv' /\ ListedInv' /\ PlacesInv'
    BY <1>1, <1>2 DEF Goes, PassInv, LatestInv, OwnersInv, ListedInv, PlacesInv, Chosen
  <1> QED
    BY <1>1, <1>3, <1>4 DEF PassInv, Goes

LEMMA PassInvStep == PartialPasses = FALSE /\ PassInv /\ [UNext]_<<vars, passVars>> => PassInv'
  <1> SUFFICES ASSUME PartialPasses = FALSE, PassInv, [UNext]_<<vars, passVars>> PROVE PassInv'
    OBVIOUS
  <1>1. CASE UNCHANGED <<vars, passVars>>
    BY <1>1, StutterGoes, PassRests DEF PassInv
  <1>2. CASE LocalNext
    <2>1. UNCHANGED passVars
      BY <1>2 DEF LocalNext
    <2> QED
      BY <1>2, <2>1, LocalGoes, PassRests DEF PassInv
  <1>3. CASE (\E forced \in BOOLEAN : PassStarts(forced)) \/ PassOnline \/ PassAcquired \/ PassEnds
    <2>1. UNCHANGED vars /\ UNCHANGED <<listed, todo, group>>
      BY <1>3 DEF PassStarts, PassOnline, PassAcquired, PassEnds
    <2>2. ~Chosen /\ ~Chosen'
      BY <1>3 DEF PassStarts, PassOnline, PassAcquired, PassEnds, PassGoes, Chosen, Removing
    <2>3. /\ passAt' \in {"acquiring", "reread"} => passAt = "acquiring"
          /\ passAt' \in {"off", "online", "read"} => passAt \in {"off", "online", "read"}
      BY <1>3 DEF PassStarts, PassOnline, PassAcquired, PassEnds, PassGoes
    <2>4. passAt' \in {"acquiring", "reread"} => group' \in todo
      BY <2>1, <2>3 DEF PassInv, PlacesInv
    <2> QED
      BY <2>1, <2>2, <2>3, <2>4, StutterGoes, PassMoves DEF PassInv
  <1> QED
    BY <1>1, <1>2, <1>3, PassAsks, PassReading, PassReading2, PassOwning, PassRemoving, PassWaited, PassGroupDone
       DEF UNext, PassStep

LEMMA PassInvInit == Init /\ PassInit => PassInv
  <1> SUFFICES ASSUME Init, PassInit PROVE PassInv
    OBVIOUS
  <1>1. GrantInv
    BY TrackerAssumption DEF Init, GrantInv, Functions, GrantKept, JobInv, KindFits, Within, Knows
  <1>2. DirInv
    BY <1>1 DEF Init, DirInv, Intact, IntactFor, Claims
  <1>3. UpdateInv
    BY PassSets DEF Init, UpdateInv
  <1> QED
    BY <1>2, <1>3 DEF PassInit, PassInv, PlacesInv, ListedInv, LatestInv, OwnersInv, Chosen, Removing

\* What the pass deletes has been read, is of its group and is not what it keeps.
LEMMA DeletedIsOther ==
    ASSUME PassInv, NEW i, Deletes(i)
    PROVE  /\ Removing /\ i \in DOMAIN listed /\ i \in DOMAIN GroupOf
           /\ GroupOf[i] = group /\ i # latest /\ latest \in DOMAIN GroupOf /\ GroupOf[latest] = group
  <1>1. PICK j \in PassJobs : kind[j] = "update" /\ inst[j] = i /\ pc[j] = "check"
    BY DEF Deletes
  <1>2. passAt = "removing" /\ GroupOf[i] = group /\ i \in DOMAIN listed
    BY <1>1 DEF PassInv, UpdateInv, Active, Ended
  <1>3. Removing /\ Chosen /\ group \in todo
    BY <1>2 DEF Removing, Chosen, PassInv, PlacesInv
  <1> QED
    BY <1>1, <1>2, <1>3 DEF PassInv, UpdateInv, PlacesInv

\* No two installs of a group agree in the third component of their version: of none
\* there are two previews.
PatchesDiffer == \A i, k \in DOMAIN GroupOf :
    GroupOf[i] = GroupOf[k] /\ PatchOf[i] = PatchOf[k] => i = k

\* The automatic update deletes nothing newer than what it keeps, though it lists before
\* it acquires and chooses after, unless others uninstalled the newer one meanwhile
\* (LocalInstallUpdateService.automaticUpdate).
THEOREM UpdateKeepsNewest ==
    ASSUME PartialPasses = FALSE, PatchesDiffer
    PROVE  USpec => NewestStays
  <1>1. PassInv => DeletesOlder
    <2> SUFFICES ASSUME PassInv, NEW i \in DOMAIN listed, Deletes(i), ~Uninstalling(i)
                 PROVE  PatchOf[i] < PatchOf[latest]
      BY DEF DeletesOlder
    <2>1. /\ Removing /\ i \in DOMAIN GroupOf /\ latest \in DOMAIN GroupOf
          /\ GroupOf[i] = group /\ GroupOf[latest] = group /\ i # latest
      BY DeletedIsOther
    <2>2. PatchOf[i] <= PatchOf[latest]
      BY <2>1 DEF PassInv, LatestInv, Chosen
    <2>3. PatchOf[i] # PatchOf[latest] /\ PatchOf[i] \in Nat /\ PatchOf[latest] \in Nat
      BY <2>1, PassSets DEF PatchesDiffer
    <2> QED
      BY <2>2, <2>3
  <1>2. PassInv /\ [UNext]_<<vars, passVars>> => PassInv' /\ [DeletesOlder]_<<vars, passVars>>
    BY <1>1, PassInvStep
  <1> QED
    BY <1>2, PassInvInit, PTL DEF USpec, NewestStays

\* Before the update deletes an install, every extension that owned it when the pass
\* read the records owns the install that is kept, unless that one was uninstalled
\* by others meanwhile (addOwners).
THEOREM UpdateHandsOver ==
    ASSUME PartialPasses = FALSE
    PROVE  USpec => OwnersHandedOver
  <1>1. PassInv => HandsOver
    BY DeletedIsOther DEF HandsOver, PassInv, OwnersInv
  <1>2. PassInv /\ [UNext]_<<vars, passVars>> => PassInv' /\ [HandsOver]_<<vars, passVars>>
    BY <1>1, PassInvStep
  <1> QED
    BY <1>2, PassInvInit, PTL DEF USpec, OwnersHandedOver

\* What acquire has handed out stays also beside the automatic update, but for an
\* install it finds without live dependents though it is owned (rough).
THEOREM GrantsSurviveUpdates ==
    ASSUME PartialPasses = FALSE
    PROVE  USpec => []GrantKept
  <1>1. PassInv => GrantKept
    BY DEF PassInv, DirInv, GrantInv
  <1> QED
    BY <1>1, PassInvInit, PassInvStep, PTL DEF USpec

-----------------------------------------------------------------------------
(***************************************************************************)
(* Types                                                                   *)
(***************************************************************************)

\* What is chosen is of the group already when its owners are to be set.
PassTyped == TypeOK /\ PassTypeOK /\ (passAt = "own" => GroupOf[latest] = group)

LEMMA PassTypesAtFirst == DOMAIN GroupOf # {} /\ Init /\ PassInit => PassTyped
  <1> SUFFICES ASSUME DOMAIN GroupOf # {}, Init, PassInit PROVE PassTyped
    OBVIOUS
  <1>1. TypeOK
    BY PassSets, TypesAtFirst
  <1>2. Groups # {}
    BY PassSets
  <1>3. latest \in DOMAIN GroupOf /\ group \in Groups
    BY <1>2 DEF PassInit
  <1> QED
    BY <1>1, <1>3 DEF PassInit, PassTyped, PassTypeOK

\* The records as a step of the pass finds them.
LEMMA TypeOfPass ==
    ASSUME PassTyped, PassStep \/ \E forced \in BOOLEAN : PassStarts(forced)
    PROVE  TypeOK'
  <1>0. TypeOK /\ PassTypeOK
    BY DEF PassTyped
  <1>1. CASE PassOwns
    <2>1. /\ UNCHANGED <<recorded, marks, session, jobVars, pc, installLock, trackerLock, disk, granted, rough>>
          /\ owners' = [owners EXCEPT ![latest] = IF latest \in recorded THEN @ \cup FormerOwners(group) ELSE @]
      BY <1>1 DEF PassOwns, AddOwners
    <2>2. FormerOwners(group) \subseteq Exts
      BY <1>0 DEF FormerOwners, PassTypeOK
    <2>3. owners \in [Installs -> SUBSET Exts] /\ \A i \in Installs \ recorded : owners[i] = {}
      BY <1>0 DEF TypeOK, TrackerTypeOK
    <2>4. owners' \in [Installs -> SUBSET Exts] /\ \A i \in Installs \ recorded' : owners'[i] = {}
      BY <2>1, <2>2, <2>3
    <2> QED
      BY <1>0, <2>1, <2>4 DEF TypeOK, TrackerTypeOK, jobVars
  <1>2. ASSUME NEW g \in Groups, PassAcquires(g) PROVE TypeOK'
    <2>1. FullVersion(Channels, g) \subseteq Local /\ InGroup(g) \subseteq Local
      BY PassSets, PassAssumption DEF InGroup
    <2>2. Acquirer[g] \in Jobs /\ "acquire" \in AllKinds /\ "similar" \in AllKinds /\ Lib \in Exts
      BY PassSets, TrackerAssumption DEF AllKinds
    <2>3. \/ UNCHANGED vars
          \/ \E k \in AllKinds, i \in Local : Start(Acquirer[g], k, Lib, i)
      BY <1>2, <2>1, <2>2 DEF PassAcquires
    <2> QED
      BY <1>0, <2>2, <2>3, TypeOfStart, TypeOfNothing
  <1>3. ASSUME NEW i \in DOMAIN GroupOf, PassRemoves(i) PROVE TypeOK'
    <2>1. Remover[i] \in Jobs /\ i \in Local /\ "update" \in AllKinds /\ Lib \in Exts
      BY PassSets, TrackerAssumption DEF AllKinds
    <2> QED
      BY <1>0, <1>3, <2>1, TypeOfStart DEF PassRemoves
  <1>4. CASE \/ (\E forced \in BOOLEAN : PassStarts(forced))
             \/ PassOnline \/ PassReads \/ PassAcquired \/ PassReReads \/ PassRemoved \/ GroupDone \/ PassEnds
    <2>1. UNCHANGED vars
      BY <1>4 DEF PassStarts, PassOnline, PassReads, PassAcquired, PassReReads, PassRemoved, GroupDone, PassEnds
    <2> QED
      BY <1>0, <2>1, TypeOfNothing
  <1> QED
    BY <1>1, <1>2, <1>3, <1>4 DEF PassStep

\* ... and what it makes of its own variables.
LEMMA TypeOfPassVars ==
    ASSUME PassTyped, PassStep \/ \E forced \in BOOLEAN : PassStarts(forced)
    PROVE  PassTypeOK' /\ (passAt' = "own" => GroupOf[latest'] = group')
  <1> USE DEF PassTyped, PassTypeOK, PassGoes
  <1>1. CASE (\E forced \in BOOLEAN : PassStarts(forced)) \/ PassOnline \/ PassAcquired \/ PassEnds
    BY <1>1 DEF PassStarts, PassOnline, PassAcquired, PassEnds
  <1>2. CASE PassReads
    <2>1. \A i \in recorded \cap DOMAIN GroupOf : owners[i] \subseteq Exts /\ GroupOf[i] \in Groups
      BY PassSets, TrackerAssumption DEF TypeOK, TrackerTypeOK
    <2> QED
      BY <1>2, <2>1 DEF PassReads
  <1>3. ASSUME NEW g \in Groups, PassAcquires(g) PROVE PassTypeOK' /\ passAt' # "own"
    BY <1>3 DEF PassAcquires
  <1>4. CASE PassReReads
    BY <1>4 DEF PassReReads, InGroup
  <1>5. CASE PassOwns
    BY <1>5 DEF PassOwns, Outdated, InGroup
  <1>6. ASSUME NEW i \in DOMAIN GroupOf, PassRemoves(i) PROVE PassTypeOK' /\ passAt' # "own"
    BY <1>6 DEF PassRemoves
  <1>7. CASE PassRemoved \/ GroupDone
    BY <1>7 DEF PassRemoved, GroupDone
  <1> QED
    BY <1>1, <1>2, <1>3, <1>4, <1>5, <1>6, <1>7 DEF PassStep

\* Types of the pass and of the commands beside it, if any install may be updated; and
\* that what is kept is of the group the pass is at and not to be removed.
THEOREM PassTypes == ASSUME DOMAIN GroupOf # {} PROVE USpec => []PassTypeOK
  <1>1. PassTyped /\ [UNext]_<<vars, passVars>> => PassTyped'
    <2> SUFFICES ASSUME PassTyped, [UNext]_<<vars, passVars>> PROVE PassTyped'
      OBVIOUS
    <2>1. CASE UNCHANGED passVars /\ (UNCHANGED vars \/ LocalNext)
      <3>1. TypeOK'
        BY <2>1, TypeOfStart, TypeOfStep, TypeOfSession, TypeOfNothing, JobsAssumption DEF LocalNext, PassTyped
      <3> QED
        BY <2>1, <3>1 DEF passVars, PassTyped, PassTypeOK
    <2>2. CASE PassStep \/ \E forced \in BOOLEAN : PassStarts(forced)
      BY <2>2, TypeOfPass, TypeOfPassVars DEF PassTyped
    <2> QED
      BY <2>1, <2>2 DEF UNext, LocalNext
  <1> QED
    BY <1>1, PassTypesAtFirst, PTL DEF USpec, PassTyped
=============================================================================
