------------------------ MODULE LocalInstalls_proofs ------------------------
(***************************************************************************)
(* Proofs about LocalInstalls, for any commands, processes, extensions and *)
(* installs: what acquire hands out stays, marks of living sessions stay,  *)
(* and records are made for directories that are there; the locks of the   *)
(* installs and of the tracker are mutexes and no command leaves one       *)
(* behind; and what alone can make an uninstall drop another owner, or an  *)
(* update delete what is in use.                                           *)
(***************************************************************************)
EXTENDS LocalInstalls, TLAPS

LockKinds == {"acquire"} \cup UninstallKinds

\* The values of the jobs and of the installs are functions.
Functions ==
    /\ pc = [j \in Jobs |-> pc[j]] /\ kind = [j \in Jobs |-> kind[j]]
    /\ ext = [j \in Jobs |-> ext[j]] /\ inst = [j \in Jobs |-> inst[j]]
    /\ installLock = [i \in Local |-> installLock[i]] /\ disk = [i \in Local |-> disk[i]]
    /\ owners = [i \in Installs |-> owners[i]]
    /\ granted \subseteq Exts \X Local /\ rough \subseteq Local

\* Which commands get to which stage.
KindFits(j, at) ==
    /\ at \in {"install", "script", "validate"} => kind[j] = "acquire"
    /\ at \in {"untrack", "check", "wipe", "report", "retrack", "rerecord"} =>
         kind[j] \in UninstallKinds
    /\ at = "lock" => kind[j] \in LockKinds
    /\ at \in {"read", "exists", "forget", "forgetAgain", "track", "record"} =>
         kind[j] \in {"acquire", "status", "similar"}
    /\ at = "verify" => kind[j] \in {"acquire", "status", "similar", "find"}
    /\ at = "mark" => kind[j] = "find"
    /\ at \in {"clear", "delete"} => kind[j] = "uninstallAll"
    /\ at \in {"prune", "leave"} => kind[j] = "deactivate"
    /\ at \notin {"idle"} \cup Ended => inst[j] \in Local /\ ext[j] \in Exts

\* A command past the lock of its install and before its end.
Within(j, at) == kind[j] \in LockKinds /\ at \notin {"idle", "lock"} \cup Ended

\* What the holder of the install lock knows at a stage of the directory and of the
\* grants, if nobody passes by the lock or the reference count.
Knows(j, at) ==
    /\ at = "delete" => Local \subseteq rough
    /\ inst[j] \notin rough =>
         /\ at = "script" => disk[inst[j]] = "partial"
         /\ kind[j] = "acquire" =>
              /\ at \in {"forget", "forgetAgain"} => disk[inst[j]] # "complete"
              /\ at \in {"validate", "track", "record"} => disk[inst[j]] = "complete"
         /\ at = "check" => <<ext[j], inst[j]>> \notin granted
         /\ at \in {"wipe", "report"} => \A e : <<e, inst[j]>> \notin granted

JobInv(j) ==
    /\ KindFits(j, pc[j])
    /\ Within(j, pc[j]) => installLock[inst[j]] = j
    /\ Knows(j, pc[j])

GrantInv == Functions /\ GrantKept /\ \A j \in Jobs : JobInv(j)

\* A step of job j leaves the others alone, takes no lock from them, and changes the
\* directory or adds to the grants of an install only under its lock, or is rough.
Apart(j) ==
    /\ Functions'
    /\ \A k \in Jobs \ {j} : /\ pc'[k] = pc[k] /\ kind'[k] = kind[k]
                             /\ ext'[k] = ext[k] /\ inst'[k] = inst[k]
    /\ \A i \in Local : installLock[i] \notin {Free, j} => installLock'[i] = installLock[i]
    /\ rough \subseteq rough'
    /\ \A i \in Local \ rough' : installLock[i] # j =>
         disk'[i] = disk[i] /\ \A e : <<e, i>> \in granted' => <<e, i>> \in granted

\* What has to be shown of a step of job j.
Keeps(j) == Apart(j) /\ JobInv(j)' /\ GrantKept'

LEMMA KeepsInv ==
    ASSUME GrantInv, NEW j \in Jobs, Keeps(j)
    PROVE  GrantInv'
  <1>1. ASSUME NEW k \in Jobs, k # j PROVE JobInv(k)'
    <2>1. /\ JobInv(k)
          /\ pc'[k] = pc[k] /\ kind'[k] = kind[k] /\ ext'[k] = ext[k] /\ inst'[k] = inst[k]
      BY <1>1 DEF GrantInv, Keeps, Apart
    <2>2. KindFits(k, pc[k])'
      BY <2>1 DEF JobInv, KindFits
    <2>3. Within(k, pc[k])' <=> Within(k, pc[k])
      BY <2>1 DEF Within
    <2>4. ASSUME Within(k, pc[k])
          PROVE  /\ inst[k] \in Local /\ installLock[inst[k]] = k /\ installLock'[inst[k]] = k
                 /\ inst[k] \notin rough' =>
                      /\ disk'[inst[k]] = disk[inst[k]]
                      /\ \A e : <<e, inst[k]>> \in granted' => <<e, inst[k]>> \in granted
      <3>1. inst[k] \in Local /\ installLock[inst[k]] = k
        BY <2>1, <2>4 DEF JobInv, KindFits, Within
      <3>2. k \notin {Free, j}
        BY <1>1, JobsAssumption
      <3> QED
        BY <3>1, <3>2 DEF Keeps, Apart
    <2>5. pc[k] \in {"script", "check", "wipe", "report"} => Within(k, pc[k])
      BY <2>1 DEF JobInv, KindFits, Within, LockKinds, Ended
    <2>6. kind[k] = "acquire" /\ pc[k] \in {"forget", "forgetAgain", "validate", "track", "record"} =>
            Within(k, pc[k])
      BY DEF Within, LockKinds, Ended
    <2>7. rough \subseteq rough'
      BY DEF Keeps, Apart
    <2>8. Knows(k, pc[k])'
      BY <2>1, <2>4, <2>5, <2>6, <2>7 DEF JobInv, Knows
    <2> QED
      BY <2>1, <2>2, <2>3, <2>4, <2>8 DEF JobInv
  <1> QED
    BY <1>1 DEF GrantInv, Keeps, Apart

-----------------------------------------------------------------------------
(***************************************************************************)
(* Steps of one job                                                        *)
(***************************************************************************)
jobAsked == <<kind, ext, inst>>

\* Job j goes on to a stage; of the locks only its own change, and it still has what
\* it had, unless it ends.
Moves(j, at) ==
    /\ Go(j, at) /\ UNCHANGED jobAsked
    /\ installLock' = [i \in Local |-> installLock'[i]]
    /\ \A i \in Local : installLock[i] \notin {Free, j} => installLock'[i] = installLock[i]
    /\ at \in Ended \/ (KindFits(j, at) /\ (Within(j, at) => installLock'[inst[j]] = j))

LEMMA Ending ==
    ASSUME GrantInv, NEW j \in Jobs, NEW at \in Ended, End(j, at), UNCHANGED jobAsked
    PROVE  Moves(j, at)
  BY DEF Moves, End

LEMMA GoingOn ==
    ASSUME GrantInv, NEW j \in Jobs, NEW at, Go(j, at), UNCHANGED <<jobAsked, installLock>>,
           KindFits(j, at), Within(j, at) => Within(j, pc[j])
    PROVE  Moves(j, at)
  BY DEF Moves, GrantInv, Functions, JobInv

LEMMA MovesKeepsJob ==
    ASSUME GrantInv, NEW j \in Jobs, NEW at, Moves(j, at), Knows(j, at)' \/ at \in Ended
    PROVE  /\ JobInv(j)'
           /\ pc' = [k \in Jobs |-> pc'[k]] /\ kind' = [k \in Jobs |-> kind'[k]]
           /\ ext' = [k \in Jobs |-> ext'[k]] /\ inst' = [k \in Jobs |-> inst'[k]]
           /\ installLock' = [i \in Local |-> installLock'[i]]
           /\ \A k \in Jobs \ {j} : /\ pc'[k] = pc[k] /\ kind'[k] = kind[k]
                                    /\ ext'[k] = ext[k] /\ inst'[k] = inst[k]
           /\ \A i \in Local : installLock[i] \notin {Free, j} => installLock'[i] = installLock[i]
  <1>1. /\ pc' = [k \in Jobs |-> pc'[k]] /\ pc'[j] = at
        /\ \A k \in Jobs \ {j} : pc'[k] = pc[k]
    BY DEF Moves, Go, GrantInv, Functions
  <1>2. /\ kind' = kind /\ ext' = ext /\ inst' = inst
        /\ installLock' = [i \in Local |-> installLock'[i]]
        /\ \A i \in Local : installLock[i] \notin {Free, j} => installLock'[i] = installLock[i]
    BY DEF Moves, jobAsked
  <1>3. CASE at \in Ended
    BY <1>1, <1>2, <1>3 DEF JobInv, KindFits, Within, Knows, GrantInv, Functions, Ended
  <1>4. CASE at \notin Ended
    <2>1. KindFits(j, pc[j])' /\ (Within(j, pc[j])' => installLock'[inst'[j]] = j)
      BY <1>1, <1>2, <1>4 DEF Moves, KindFits, Within
    <2>2. Knows(j, pc[j])'
      BY <1>1, <1>2, <1>4 DEF Knows
    <2> QED
      BY <1>1, <1>2, <2>1, <2>2 DEF JobInv, GrantInv, Functions
  <1> QED
    BY <1>3, <1>4

\* A step that changes neither directories nor grants nor records.
LEMMA QuietKeeps ==
    ASSUME GrantInv, NEW j \in Jobs, NEW at, Moves(j, at),
           Knows(j, at) \/ Knows(j, at)' \/ at \in Ended,
           UNCHANGED <<recorded, owners, disk, granted>>, rough \subseteq rough', rough' \subseteq Local
    PROVE  Keeps(j)
  <1>1. Knows(j, at)' \/ at \in Ended
    BY DEF Moves, jobAsked, Knows
  <1>2. GrantKept'
    BY DEF GrantInv, GrantKept
  <1> QED
    BY <1>1, <1>2, MovesKeepsJob DEF Keeps, Apart, GrantInv, Functions

LEMMA RoughIsLocal == GrantInv => rough \subseteq Local
  BY DEF GrantInv, Functions

\* The install is not there: acquire goes on to install it, others end.
LEMMA NotThereMoves ==
    ASSUME GrantInv, NEW j \in Jobs, pc[j] \in {"exists", "verify", "forgetAgain"}, NotThere(j),
           UNCHANGED jobAsked
    PROVE  \E at : Moves(j, at) /\ at \in Ended \cup {"install"}
  <1>1. CASE kind[j] = "acquire"
    <2>1. Go(j, "install") /\ UNCHANGED installLock
      BY <1>1 DEF NotThere
    <2>2. KindFits(j, "install") /\ Within(j, pc[j])
      BY <1>1 DEF KindFits, Within, LockKinds, Ended, GrantInv, JobInv
    <2> QED
      BY <2>1, <2>2, GoingOn
  <1>2. CASE kind[j] # "acquire"
    BY <1>2, Ending DEF NotThere, Ended
  <1> QED
    BY <1>1, <1>2

\* Steps that change neither directories nor grants nor records.
LEMMA LookingSteps ==
    ASSUME GrantInv, PartialPasses = FALSE, NEW j \in Jobs,
           \/ TakeInstallLock(j) \/ LockTimesOut(j) \/ Read(j) \/ Exists(j) \/ Verify(j) \/ Vanished(j)
           \/ Validate(j) \/ TrackValidates(j) \/ MarkInUse(j)
    PROVE  Keeps(j)
  <1>job. JobInv(j)
    BY DEF GrantInv
  <1> USE DEF Ended
  <1>1. CASE TakeInstallLock(j)
    <2> DEFINE at == IF kind[j] = "acquire" THEN "read" ELSE "untrack"
    <2>1. KindFits(j, at) /\ Knows(j, at) /\ inst[j] \in Local
      BY <1>1, <1>job DEF TakeInstallLock, JobInv, KindFits, Knows, LockKinds, UninstallKinds
    <2>2. Moves(j, at)
      BY <1>1, <2>1 DEF TakeInstallLock, Moves, jobAsked, jobVars, GrantInv, Functions
    <2> QED
      BY <1>1, <2>1, <2>2, QuietKeeps, RoughIsLocal DEF TakeInstallLock, trackerVars
  <1>2. CASE LockTimesOut(j)
    <2>1. Moves(j, "failed")
      BY <1>2, Ending DEF LockTimesOut, jobVars, jobAsked
    <2> QED
      BY <1>2, <2>1, QuietKeeps, RoughIsLocal DEF LockTimesOut, trackerVars
  <1>3. CASE Read(j)
    <2>1. KindFits(j, "exists") /\ Knows(j, "exists") /\ (Within(j, "exists") => Within(j, pc[j]))
      BY <1>3, <1>job DEF Read, JobInv, KindFits, Knows, Within
    <2>2. Moves(j, "exists")
      BY <1>3, <2>1, GoingOn DEF Read, jobAsked
    <2> QED
      BY <1>3, <2>1, <2>2, QuietKeeps, RoughIsLocal DEF Read, trackerVars
  <1>4. CASE Exists(j)
    <2> DEFINE at == IF kind[j] = "similar" THEN "track" ELSE "verify"
    <2>1. KindFits(j, at) /\ Knows(j, at) /\ (Within(j, at) => Within(j, pc[j]))
      BY <1>4, <1>job DEF Exists, JobInv, KindFits, Knows, Within
    <2>2. \/ Go(j, at) /\ UNCHANGED installLock
          \/ NotThere(j)
      BY <1>4 DEF Exists
    <2>3. UNCHANGED jobAsked /\ pc[j] = "exists"
      BY <1>4 DEF Exists, jobVars, jobAsked
    <2>4. \E to : Moves(j, to) /\ (Knows(j, to) \/ to \in Ended)
      BY <2>1, <2>2, <2>3, GoingOn, NotThereMoves DEF Knows
    <2> QED
      BY <1>4, <2>4, QuietKeeps, RoughIsLocal DEF Exists, trackerVars
  <1>5. CASE Verify(j)
    <2> DEFINE at == IF kind[j] = "find" THEN "mark" ELSE "track"
    <2>1. \/ disk[inst[j]] = "complete" /\ Go(j, at) /\ UNCHANGED installLock
          \/ NotThere(j)
      BY <1>5 DEF Verify, MeetsRequirement
    <2>2. KindFits(j, at) /\ (disk[inst[j]] = "complete" => Knows(j, at))
          /\ (Within(j, at) => Within(j, pc[j]))
      BY <1>5, <1>job DEF Verify, JobInv, KindFits, Knows, Within
    <2>3. UNCHANGED jobAsked /\ pc[j] = "verify"
      BY <1>5 DEF Verify, jobVars, jobAsked
    <2>4. \E to : Moves(j, to) /\ (Knows(j, to) \/ to \in Ended)
      BY <2>1, <2>2, <2>3, GoingOn, NotThereMoves DEF Knows
    <2> QED
      BY <1>5, <2>4, QuietKeeps, RoughIsLocal DEF Verify, trackerVars
  <1>6. CASE Vanished(j)
    <2>1. disk[inst[j]] # "complete"
      BY <1>6 DEF Vanished, ExecutableSeen
    <2>2. KindFits(j, "forget") /\ Knows(j, "forget") /\ (Within(j, "forget") => Within(j, pc[j]))
      BY <1>6, <2>1, <1>job DEF Vanished, JobInv, KindFits, Knows, Within
    <2>3. Moves(j, "forget")
      BY <1>6, <2>2, GoingOn DEF Vanished, jobVars, jobAsked
    <2> QED
      BY <1>6, <2>2, <2>3, QuietKeeps, RoughIsLocal DEF Vanished, trackerVars
  <1>7. CASE Validate(j)
    <2>1. KindFits(j, "track") /\ Knows(j, "track") /\ (Within(j, "track") => Within(j, pc[j]))
      BY <1>7, <1>job DEF Validate, JobInv, KindFits, Knows, Within
    <2>2. (Go(j, "track") /\ UNCHANGED installLock) \/ End(j, "failed")
      BY <1>7 DEF Validate
    <2>3. UNCHANGED jobAsked
      BY <1>7 DEF Validate, jobVars, jobAsked
    <2>4. Moves(j, "track") \/ Moves(j, "failed")
      BY <2>1, <2>2, <2>3, GoingOn, Ending
    <2> QED
      BY <1>7, <2>1, <2>4, QuietKeeps, RoughIsLocal DEF Validate, trackerVars
  <1>8. CASE TrackValidates(j)
    <2> DEFINE at == IF pc[j] = "track" THEN "record" ELSE "rerecord"
    <2>1. KindFits(j, at) /\ Knows(j, at) /\ (Within(j, at) => Within(j, pc[j]))
      BY <1>8, <1>job DEF TrackValidates, JobInv, KindFits, Knows, Within
    <2>2. (Go(j, at) /\ UNCHANGED installLock) \/ End(j, "failed")
      BY <1>8 DEF TrackValidates
    <2>3. UNCHANGED jobAsked
      BY <1>8 DEF TrackValidates, jobVars, jobAsked
    <2>4. Moves(j, at) \/ Moves(j, "failed")
      BY <2>1, <2>2, <2>3, GoingOn, Ending
    <2> QED
      BY <1>8, <2>1, <2>4, QuietKeeps, RoughIsLocal DEF TrackValidates, trackerVars
  <1>9. CASE MarkInUse(j)
    <2>1. Moves(j, "done")
      BY <1>9, Ending DEF MarkInUse, jobVars, jobAsked
    <2> QED
      BY <1>9, <2>1, QuietKeeps, RoughIsLocal DEF MarkInUse
  <1> QED
    BY <1>1, <1>2, <1>3, <1>4, <1>5, <1>6, <1>7, <1>8, <1>9

\* The same of the commands that uninstall or deactivate.
LEMMA DecidingSteps ==
    ASSUME GrantInv, NEW j \in Jobs,
           CheckOwners(j) \/ CheckLive(j) \/ WipeFails(j) \/ PruneSessions(j) \/ LeaveSession(j)
    PROVE  Keeps(j)
  <1>job. JobInv(j)
    BY DEF GrantInv
  <1> USE DEF Ended
  <1>alone. ASSUME pc[j] = "check", NoRegisteredDependents(inst[j], ext[j]) PROVE Knows(j, "wipe")
    BY <1>job, <1>alone DEF JobInv, Knows, NoRegisteredDependents, GrantInv, GrantKept
  <1>wipe. ASSUME pc[j] = "check" PROVE KindFits(j, "wipe") /\ Within(j, pc[j])
    BY <1>job, <1>wipe DEF JobInv, KindFits, Within, LockKinds
  <1>1. CASE CheckOwners(j)
    <2>1. \/ NoRegisteredDependents(inst[j], ext[j]) /\ Go(j, "wipe") /\ UNCHANGED installLock
          \/ End(j, "done")
      BY <1>1 DEF CheckOwners
    <2>2. UNCHANGED jobAsked /\ pc[j] = "check"
      BY <1>1 DEF CheckOwners, jobVars, jobAsked
    <2>3. Moves(j, "done") \/ (Moves(j, "wipe") /\ Knows(j, "wipe"))
      BY <1>alone, <1>wipe, <2>1, <2>2, GoingOn, Ending
    <2> QED
      BY <1>1, <2>3, QuietKeeps, RoughIsLocal DEF CheckOwners, trackerVars
  <1>2. CASE CheckLive(j)
    <2>1. \/ /\ Go(j, "wipe") /\ UNCHANGED installLock
             /\ rough' = IF NoRegisteredDependents(inst[j], ext[j]) THEN rough
                         ELSE rough \cup {inst[j]}
          \/ End(j, "done") /\ UNCHANGED rough
      BY <1>2 DEF CheckLive
    <2>2. UNCHANGED jobAsked /\ pc[j] = "check" /\ UNCHANGED <<recorded, owners, disk, granted>>
      BY <1>2 DEF CheckLive, jobVars, jobAsked
    <2>3. CASE Go(j, "wipe") /\ UNCHANGED installLock
      <3>1. Moves(j, "wipe") /\ inst[j] \in Local
        BY <1>wipe, <2>2, <2>3, GoingOn DEF KindFits
      <3>2. rough \subseteq rough' /\ rough' \subseteq Local
        BY <2>1, <3>1, RoughIsLocal
      <3>3. Knows(j, "wipe") \/ inst[j] \in rough'
        BY <1>alone, <2>1, <2>2, <2>3 DEF End, Go, GrantInv, Functions
      <3>4. Knows(j, "wipe") \/ Knows(j, "wipe")'
        BY <2>2, <3>3 DEF Knows, jobAsked
      <3> QED
        BY <2>2, <3>1, <3>2, <3>4, QuietKeeps
    <2>4. CASE End(j, "done") /\ UNCHANGED rough
      <3>1. Moves(j, "done")
        BY <2>2, <2>4, Ending
      <3> QED
        BY <2>2, <2>4, <3>1, QuietKeeps, RoughIsLocal
    <2> QED
      BY <2>1, <2>3, <2>4
  <1>3. CASE WipeFails(j)
    <2>1. KindFits(j, "retrack") /\ Knows(j, "retrack") /\ Within(j, pc[j])
      BY <1>3, <1>job DEF WipeFails, JobInv, KindFits, Knows, Within, LockKinds
    <2>2. Moves(j, "retrack")
      BY <1>3, <2>1, GoingOn DEF WipeFails, jobVars, jobAsked
    <2> QED
      BY <1>3, <2>1, <2>2, QuietKeeps, RoughIsLocal DEF WipeFails, trackerVars
  <1>4. CASE PruneSessions(j)
    <2>1. KindFits(j, "leave") /\ Knows(j, "leave") /\ (Within(j, "leave") => Within(j, pc[j]))
      BY <1>4, <1>job DEF PruneSessions, JobInv, KindFits, Knows, Within
    <2>2. Moves(j, "leave")
      BY <1>4, <2>1, GoingOn DEF PruneSessions, jobVars, jobAsked
    <2> QED
      BY <1>4, <2>1, <2>2, QuietKeeps, RoughIsLocal DEF PruneSessions
  <1>5. CASE LeaveSession(j)
    <2>1. KindFits(j, "done") /\ ~Within(j, "done")
      BY DEF KindFits, Within
    <2>2. Moves(j, "done")
      BY <1>5, <2>1, GoingOn DEF LeaveSession, jobVars, jobAsked
    <2> QED
      BY <1>5, <2>1, <2>2, QuietKeeps, RoughIsLocal DEF LeaveSession
  <1> QED
    BY <1>1, <1>2, <1>3, <1>4, <1>5

\* A step that does change them, under the lock of the install or roughly.
LEMMA ChangeKeeps ==
    ASSUME GrantInv, NEW j \in Jobs, NEW at, Moves(j, at), Knows(j, at)' \/ at \in Ended,
           GrantKept',
           disk' = [i \in Local |-> disk'[i]], owners' = [i \in Installs |-> owners'[i]],
           granted' \subseteq Exts \X Local, rough' \subseteq Local, rough \subseteq rough',
           \A i \in Local \ rough' : installLock[i] # j =>
             disk'[i] = disk[i] /\ \A e : <<e, i>> \in granted' => <<e, i>> \in granted
    PROVE  Keeps(j)
  BY MovesKeepsJob DEF Keeps, Apart, Functions

\* Directories: the install script, and wiping.
LEMMA DiskSteps ==
    ASSUME GrantInv, PartialPasses = FALSE, NEW j \in Jobs,
           Install(j) \/ ScriptSucceeds(j) \/ ScriptFails(j) \/ Wipe(j) \/ DeleteAll(j)
    PROVE  Keeps(j)
  <1>job. JobInv(j)
    BY DEF GrantInv
  <1>same. /\ disk = [i \in Local |-> disk[i]] /\ owners = [i \in Installs |-> owners[i]]
           /\ granted \subseteq Exts \X Local /\ rough \subseteq Local /\ GrantKept
    BY DEF GrantInv, Functions
  <1> USE DEF Ended
  <1>1. CASE Install(j)
    <2>1. /\ UNCHANGED jobAsked /\ UNCHANGED installLock /\ pc[j] = "install"
          /\ UNCHANGED <<recorded, owners, granted, rough>>
      BY <1>1 DEF Install, trackerVars, jobVars, jobAsked
    <2>2. kind[j] = "acquire" /\ inst[j] \in Local /\ ext[j] \in Exts /\ installLock[inst[j]] = j
      BY <1>job, <2>1 DEF JobInv, KindFits, Within, LockKinds
    <2>3. CASE disk[inst[j]] = "complete" /\ Go(j, "validate") /\ UNCHANGED disk
      <3>1. KindFits(j, "validate") /\ Knows(j, "validate") /\ Within(j, pc[j])
        BY <2>1, <2>2, <2>3 DEF KindFits, Knows, Within, LockKinds
      <3>2. Moves(j, "validate")
        BY <2>1, <2>3, <3>1, GoingOn
      <3> QED
        BY <1>same, <2>1, <2>3, <3>1, <3>2, QuietKeeps
    <2>4. CASE disk[inst[j]] # "complete" /\ Go(j, "script") /\ disk' = [disk EXCEPT ![inst[j]] = "partial"]
      <3>1. KindFits(j, "script") /\ Within(j, pc[j])
        BY <2>1, <2>2 DEF KindFits, Within, LockKinds
      <3>2. Moves(j, "script")
        BY <2>1, <2>4, <3>1, GoingOn
      <3>3. disk'[inst[j]] = "partial" /\ \A i \in Local : i # inst[j] => disk'[i] = disk[i]
        BY <1>same, <2>2, <2>4
      <3>4. Knows(j, "script")'
        BY <2>1, <3>3 DEF Knows, jobAsked
      <3>5. GrantKept'
        BY <1>same, <2>1, <2>4, <3>3 DEF GrantKept
      <3> QED
        BY <1>same, <2>1, <2>2, <2>4, <3>2, <3>3, <3>4, <3>5, ChangeKeeps
    <2> QED
      BY <1>1, <2>3, <2>4 DEF Install, MeetsRequirement
  <1>2. CASE ScriptSucceeds(j) \/ ScriptFails(j)
    <2>1. /\ UNCHANGED jobAsked /\ pc[j] = "script"
          /\ UNCHANGED <<recorded, owners, granted, rough>>
      BY <1>2 DEF ScriptSucceeds, ScriptFails, trackerVars, jobVars, jobAsked
    <2>2. /\ kind[j] = "acquire" /\ inst[j] \in Local /\ ext[j] \in Exts /\ installLock[inst[j]] = j
          /\ inst[j] \notin rough => disk[inst[j]] = "partial"
      BY <1>job, <2>1 DEF JobInv, KindFits, Within, LockKinds, Knows
    <2>3. /\ disk' = [i \in Local |-> disk'[i]]
          /\ \A i \in Local : i # inst[j] => disk'[i] = disk[i]
          /\ inst[j] \notin rough /\ ScriptSucceeds(j) => disk'[inst[j]] = "complete"
      BY <1>2, <1>same, <2>2 DEF ScriptSucceeds, ScriptFails
    <2>4. GrantKept'
      BY <1>same, <2>1, <2>2, <2>3 DEF GrantKept
    <2>5. CASE ScriptSucceeds(j)
      <3>1. Go(j, "validate") /\ UNCHANGED installLock /\ KindFits(j, "validate") /\ Within(j, pc[j])
        BY <2>1, <2>2, <2>5 DEF ScriptSucceeds, KindFits, Within, LockKinds
      <3>2. Moves(j, "validate")
        BY <2>1, <3>1, GoingOn
      <3>3. Knows(j, "validate")'
        BY <2>1, <2>3, <2>5 DEF Knows, jobAsked
      <3> QED
        BY <1>same, <2>1, <2>2, <2>3, <2>4, <3>2, <3>3, ChangeKeeps
    <2>6. CASE ScriptFails(j)
      <3>1. Moves(j, "failed")
        BY <2>1, <2>6, Ending DEF ScriptFails
      <3> QED
        BY <1>same, <2>1, <2>2, <2>3, <2>4, <3>1, ChangeKeeps
    <2> QED
      BY <1>2, <2>5, <2>6
  <1>3. CASE Wipe(j)
    <2>1. /\ UNCHANGED jobAsked /\ UNCHANGED installLock /\ pc[j] = "wipe" /\ Go(j, "report")
          /\ UNCHANGED <<recorded, owners, granted, rough>>
      BY <1>3 DEF Wipe, trackerVars, jobVars, jobAsked
    <2>2. /\ kind[j] \in UninstallKinds /\ inst[j] \in Local /\ ext[j] \in Exts /\ installLock[inst[j]] = j
          /\ inst[j] \notin rough => \A e : <<e, inst[j]>> \notin granted
      BY <1>job, <2>1 DEF JobInv, KindFits, Within, LockKinds, Knows
    <2>3. disk' = [i \in Local |-> disk'[i]] /\ \A i \in Local : i # inst[j] => disk'[i] = disk[i]
      BY <1>3, <1>same, <2>2 DEF Wipe
    <2>4. GrantKept'
      BY <1>same, <2>1, <2>2, <2>3 DEF GrantKept
    <2>5. KindFits(j, "report") /\ Within(j, pc[j])
      BY <2>1, <2>2 DEF KindFits, Within, LockKinds
    <2>6. Moves(j, "report")
      BY <2>1, <2>5, GoingOn
    <2>7. Knows(j, "report")'
      BY <2>1, <2>2 DEF Knows, jobAsked
    <2> QED
      BY <1>same, <2>1, <2>2, <2>3, <2>4, <2>6, <2>7, ChangeKeeps
  <1>4. CASE DeleteAll(j)
    <2>1. /\ UNCHANGED jobAsked /\ UNCHANGED installLock /\ pc[j] = "delete" /\ Go(j, "done")
          /\ UNCHANGED <<recorded, owners, granted, rough>>
          /\ disk' = [i \in Local |-> disk'[i]]
      BY <1>4 DEF DeleteAll, trackerVars, jobVars, jobAsked
    <2>2. rough = Local
      BY <1>job, <1>same, <2>1 DEF JobInv, Knows
    <2>3. GrantKept'
      BY <1>same, <2>1, <2>2 DEF GrantKept
    <2>4. KindFits(j, "done") /\ ~Within(j, "done")
      BY DEF KindFits, Within
    <2>5. Moves(j, "done")
      BY <2>1, <2>4, GoingOn
    <2> QED
      BY <1>same, <2>1, <2>2, <2>3, <2>5, ChangeKeeps
  <1> QED
    BY <1>1, <1>2, <1>3, <1>4

\* Records: dropping, tracking and untracking.
LEMMA RecordSteps ==
    ASSUME GrantInv, NEW j \in Jobs,
           Forget(j) \/ Records(j) \/ UntrackInstall(j) \/ Report(j) \/ ClearRecords(j)
    PROVE  Keeps(j)
  <1>job. JobInv(j)
    BY DEF GrantInv
  <1>same. /\ disk = [i \in Local |-> disk[i]] /\ owners = [i \in Installs |-> owners[i]]
           /\ granted \subseteq Exts \X Local /\ rough \subseteq Local /\ GrantKept
    BY DEF GrantInv, Functions
  <1> USE TrackerAssumption DEF Ended
  <1>1. CASE Forget(j)
    <2>1. /\ UNCHANGED jobAsked /\ pc[j] \in {"forget", "forgetAgain"}
          /\ UNCHANGED <<disk, granted>>
          /\ recorded' = recorded \ {inst[j]} /\ owners' = [owners EXCEPT ![inst[j]] = {}]
          /\ rough' = IF kind[j] = "acquire" THEN rough ELSE rough \cup {inst[j]}
      BY <1>1 DEF Forget, DropRecord, jobVars, jobAsked
    <2>2. /\ inst[j] \in Local /\ inst[j] \in Installs
          /\ kind[j] = "acquire" /\ inst[j] \notin rough => disk[inst[j]] # "complete"
      BY <1>job, <2>1 DEF JobInv, KindFits, Knows
    <2>3. GrantKept'
      BY <1>same, <2>1, <2>2 DEF GrantKept
    <2>4. \E at : Moves(j, at) /\ (at \in Ended \cup {"install"} \/ (at = "forgetAgain" /\ pc[j] = "forget"))
      <3>1. CASE pc[j] = "forget"
        <4>1. Go(j, "forgetAgain") /\ UNCHANGED installLock
          BY <1>1, <3>1 DEF Forget
        <4>2. KindFits(j, "forgetAgain") /\ (Within(j, "forgetAgain") => Within(j, pc[j]))
          BY <1>job, <3>1 DEF JobInv, KindFits, Within
        <4> QED
          BY <2>1, <3>1, <4>1, <4>2, GoingOn
      <3>2. CASE pc[j] = "forgetAgain"
        BY <1>1, <2>1, <3>2, NotThereMoves DEF Forget
      <3> QED
        BY <2>1, <3>1, <3>2
    <2>5. PICK at : Moves(j, at) /\ (at \in Ended \cup {"install"} \/ (at = "forgetAgain" /\ pc[j] = "forget"))
      BY <2>4
    <2>6. Knows(j, at)' \/ at \in Ended
      BY <2>1, <2>2, <2>5 DEF Knows, jobAsked
    <2> QED
      BY <1>same, <2>1, <2>2, <2>3, <2>5, <2>6, ChangeKeeps
  <1>2. CASE Records(j)
    <2> DEFINE at == IF pc[j] = "record" THEN "done" ELSE "failed"
    <2>1. /\ UNCHANGED jobAsked /\ pc[j] \in {"record", "rerecord"} /\ UNCHANGED disk /\ End(j, at)
          /\ recorded' = recorded \cup {inst[j]}
          /\ owners' = [owners EXCEPT ![inst[j]] = @ \cup {ext[j]}]
          /\ granted' = IF pc[j] = "record" THEN granted \cup {<<ext[j], inst[j]>>} ELSE granted
          /\ rough' = IF kind[j] \in {"status", "similar"} THEN rough \cup {inst[j]} ELSE rough
      BY <1>2 DEF Records, Track, jobVars, jobAsked
    <2>2. inst[j] \in Local /\ inst[j] \in Installs /\ ext[j] \in Exts
      BY <1>job, <2>1 DEF JobInv, KindFits
    <2>3. /\ kind[j] \in {"acquire", "status", "similar"} \cup UninstallKinds
          /\ pc[j] = "record" => kind[j] \in {"acquire", "status", "similar"}
          /\ pc[j] = "record" /\ kind[j] = "acquire" /\ inst[j] \notin rough => disk[inst[j]] = "complete"
          /\ kind[j] = "acquire" => installLock[inst[j]] = j
      BY <1>job, <2>1 DEF JobInv, KindFits, Knows, Within, LockKinds
    <2>4. /\ owners' = [i \in Installs |-> owners'[i]]
          /\ \A i \in Installs : owners[i] \subseteq owners'[i]
          /\ ext[j] \in owners'[inst[j]]
      BY <1>same, <2>1, <2>2
    <2>5. GrantKept'
      BY <1>same, <2>1, <2>2, <2>3, <2>4 DEF GrantKept
    <2>6. Moves(j, at)
      BY <2>1, Ending
    <2>7. /\ granted' \subseteq Exts \X Local /\ rough' \subseteq Local /\ rough \subseteq rough'
          /\ \A i \in Local \ rough' : installLock[i] # j =>
               disk'[i] = disk[i] /\ \A e : <<e, i>> \in granted' => <<e, i>> \in granted
      BY <1>same, <2>1, <2>2, <2>3
    <2> QED
      BY <1>same, <2>1, <2>4, <2>5, <2>6, <2>7, ChangeKeeps
  <1>3. CASE UntrackInstall(j)
    <2>0. PICK at : at = IF kind[j] = "force" THEN "wipe" ELSE "check"
      OBVIOUS
    <2>1. /\ UNCHANGED jobAsked /\ pc[j] = "untrack" /\ UNCHANGED <<disk, rough, installLock>> /\ Go(j, at)
          /\ granted' = IF kind[j] = "force" THEN {g \in granted : g[2] # inst[j]}
                        ELSE granted \ {<<ext[j], inst[j]>>}
          /\ IF kind[j] = "force"
             THEN recorded' = recorded \ {inst[j]} /\ owners' = [owners EXCEPT ![inst[j]] = {}]
             ELSE recorded' = recorded /\ owners' = [owners EXCEPT ![inst[j]] = @ \ {ext[j]}]
      BY <1>3, <2>0 DEF UntrackInstall, Untrack, DropRecord, jobVars, jobAsked
    <2>2. /\ inst[j] \in Local /\ inst[j] \in Installs /\ ext[j] \in Exts /\ kind[j] \in UninstallKinds
          /\ Within(j, pc[j])
      BY <1>job, <2>1 DEF JobInv, KindFits, Within, LockKinds
    <2>3. /\ owners' = [i \in Installs |-> owners'[i]]
          /\ \A i \in Installs : i # inst[j] => owners'[i] = owners[i]
          /\ kind[j] # "force" => owners'[inst[j]] = owners[inst[j]] \ {ext[j]}
      BY <1>same, <2>1, <2>2
    <2>4. GrantKept'
      <3>1. CASE kind[j] = "force"
        BY <1>same, <2>1, <2>2, <2>3, <3>1 DEF GrantKept
      <3>2. CASE kind[j] # "force"
        BY <1>same, <2>1, <2>2, <2>3, <3>2 DEF GrantKept
      <3> QED
        BY <3>1, <3>2
    <2>5. Moves(j, at)
      <3>1. KindFits(j, at) /\ Within(j, pc[j])
        BY <2>0, <2>2 DEF KindFits
      <3> QED
        BY <2>1, <3>1, GoingOn
    <2>6. Knows(j, at)'
      BY <2>0, <2>1 DEF Knows, jobAsked
    <2>7. granted' \subseteq granted /\ disk' = disk /\ rough' = rough
      BY <2>1
    <2> QED
      BY <1>same, <2>3, <2>4, <2>5, <2>6, <2>7, ChangeKeeps
  <1>4. CASE Report(j)
    <2>1. /\ UNCHANGED jobAsked /\ pc[j] = "report" /\ UNCHANGED <<disk, granted, rough>> /\ End(j, "done")
          /\ recorded' = recorded \ {inst[j]} /\ owners' = [owners EXCEPT ![inst[j]] = {}]
      BY <1>4 DEF Report, DropRecord, jobVars, jobAsked
    <2>2. /\ inst[j] \in Installs
          /\ inst[j] \notin rough => \A e : <<e, inst[j]>> \notin granted
      BY <1>job, <2>1 DEF JobInv, KindFits, Knows
    <2>3. GrantKept'
      BY <1>same, <2>1, <2>2 DEF GrantKept
    <2>4. Moves(j, "done")
      BY <2>1, Ending
    <2> QED
      BY <1>same, <2>1, <2>2, <2>3, <2>4, ChangeKeeps
  <1>5. CASE ClearRecords(j)
    <2>1. /\ UNCHANGED jobAsked /\ pc[j] = "clear" /\ UNCHANGED <<disk, installLock>> /\ Go(j, "delete")
          /\ granted' = {} /\ rough' = Local
          /\ owners' = [i \in Installs |-> owners'[i]]
      BY <1>5 DEF ClearRecords, DropAllRecords, jobVars, jobAsked
    <2>2. KindFits(j, "delete") /\ ~Within(j, "delete")
      BY <1>job, <2>1 DEF JobInv, KindFits, Within, LockKinds, UninstallKinds
    <2>3. Moves(j, "delete")
      BY <2>1, <2>2, GoingOn
    <2>4. GrantKept'
      BY <2>1 DEF GrantKept
    <2>5. Knows(j, "delete")'
      BY <1>job, <2>1 DEF Knows, JobInv, KindFits, jobAsked
    <2> QED
      BY <1>same, <2>1, <2>3, <2>4, <2>5, ChangeKeeps
  <1> QED
    BY <1>1, <1>2, <1>3, <1>4, <1>5

-----------------------------------------------------------------------------
(***************************************************************************)
(* The other steps, and the theorem                                        *)
(***************************************************************************)

\* A command arrives.
LEMMA StartKeeps ==
    ASSUME GrantInv, NEW j \in Jobs, NEW k \in AllKinds, NEW e \in Exts, NEW i \in Local, Start(j, k, e, i)
    PROVE  Keeps(j)
  <1>1. /\ Functions' /\ GrantKept'
        /\ \A other \in Jobs \ {j} :
             /\ pc'[other] = pc[other] /\ kind'[other] = kind[other]
             /\ ext'[other] = ext[other] /\ inst'[other] = inst[other]
        /\ UNCHANGED <<installLock, rough, disk, granted>>
        /\ pc'[j] = FirstStage(k) /\ kind'[j] = k /\ ext'[j] = e /\ inst'[j] = i
    BY DEF Start, Go, GrantInv, Functions, GrantKept, trackerVars
  <1>2. k \in AllKinds
    OBVIOUS
  <1>3. KindFits(j, pc[j])'
    BY <1>1, <1>2 DEF KindFits, FirstStage, AllKinds, LockKinds, UninstallKinds
  <1>4. ~Within(j, pc[j])'
    BY <1>1, <1>2 DEF Within, FirstStage, AllKinds, LockKinds, UninstallKinds
  <1>5. Knows(j, pc[j])'
    BY <1>1, <1>2 DEF Knows, FirstStage, AllKinds
  <1> QED
    BY <1>1, <1>3, <1>4, <1>5 DEF Keeps, Apart, JobInv

\* A process dies: its commands are dead, its locks free, and those of others stay.
LEMMA CrashKeeps ==
    ASSUME GrantInv, NEW s \in Sessions, Crash(s)
    PROVE  GrantInv'
  <1>1. /\ UNCHANGED <<recorded, owners, disk, granted, rough, kind, ext, inst>>
        /\ Functions' /\ GrantKept'
    BY DEF Crash, jobVars, GrantInv, Functions, GrantKept
  <1>2. ASSUME NEW j \in Jobs PROVE JobInv(j)'
    <2>1. CASE pc'[j] = "dead"
      BY <2>1 DEF JobInv, KindFits, Within, Knows, Ended
    <2>2. CASE pc'[j] # "dead"
      <3>1. pc'[j] = pc[j] /\ JobInv(j) /\ (SessionOf[j] # s \/ pc[j] \in Ended)
        BY <2>2 DEF Crash, GrantInv
      <3>2. KindFits(j, pc[j])' /\ Knows(j, pc[j])'
        BY <1>1, <3>1 DEF JobInv, KindFits, Knows
      <3>3. ASSUME Within(j, pc[j])' PROVE installLock'[inst'[j]] = j
        <4>1. Within(j, pc[j]) /\ inst[j] \in Local /\ installLock[inst[j]] = j /\ SessionOf[j] # s
          BY <1>1, <3>1, <3>3 DEF Within, JobInv, KindFits
        <4> QED
          BY <1>1, <4>1 DEF Crash
      <3> QED
        BY <3>2, <3>3 DEF JobInv
    <2> QED
      BY <2>1, <2>2
  <1> QED
    BY <1>1, <1>2 DEF GrantInv

LEMMA GrantInvStep == PartialPasses = FALSE /\ GrantInv /\ [Next]_vars => GrantInv'
  <1> SUFFICES ASSUME PartialPasses = FALSE, GrantInv, [Next]_vars PROVE GrantInv'
    OBVIOUS
  <1>1. CASE UNCHANGED vars
    BY <1>1 DEF vars, trackerVars, jobVars, GrantInv, Functions, GrantKept, JobInv, KindFits, Within, Knows
  <1>2. ASSUME NEW j \in Jobs, NEW k \in Kinds, NEW e \in Exts, NEW i \in Local, Start(j, k, e, i)
        PROVE  GrantInv'
    BY <1>2, StartKeeps, KeepsInv, JobsAssumption
  <1>3. ASSUME NEW j \in Jobs, LockTimesOut(j) \/ Step(j) PROVE GrantInv'
    BY <1>3, LookingSteps, DecidingSteps, DiskSteps, RecordSteps, KeepsInv DEF Step
  <1>4. ASSUME NEW s \in Sessions, MutexAcquired(s) PROVE GrantInv'
    BY <1>4 DEF MutexAcquired, SessionUp, jobVars, GrantInv, Functions, GrantKept, JobInv, KindFits,
                Within, Knows
  <1> QED
    BY <1>1, <1>2, <1>3, <1>4, CrashKeeps DEF Next

\* What acquire has handed to an extension stays complete, recorded and owned until
\* the extension uninstalls it or a user forces it out, whatever else is acquired,
\* uninstalled, updated or broken off (acquireLocalCore and uninstallLocal under the
\* lock of the install), where only acquire and uninstall touch the install and dotnet
\* lists no incomplete one.
THEOREM GrantsAreKept == ASSUME PartialPasses = FALSE PROVE Spec => []GrantKept
  <1>1. Init => GrantInv
    BY TrackerAssumption
       DEF Init, GrantInv, Functions, GrantKept, JobInv, KindFits, Within, Knows
  <1>2. GrantInv /\ [Next]_vars => GrantInv'
    BY GrantInvStep
  <1>3. GrantInv => GrantKept
    BY DEF GrantInv
  <1> QED
    BY <1>1, <1>2, <1>3, PTL DEF Spec

-----------------------------------------------------------------------------
(***************************************************************************)
(* Marks                                                                   *)
(***************************************************************************)
MarkFunction == marks = [s \in Sessions |-> marks[s]]

\* The steps that touch the marks; all others leave them.
LEMMA MarksStep ==
    ASSUME MarkFunction, [Next]_vars
    PROVE  MarkFunction' /\ LosesMarksOnlyBySelf
  <1> USE JobsAssumption DEF MarkFunction, LosesMarksOnlyBySelf
  <1>1. CASE UNCHANGED marks
    BY <1>1
  <1>2. ASSUME NEW j \in Jobs, Records(j) \/ MarkInUse(j) PROVE MarkFunction' /\ LosesMarksOnlyBySelf
    BY <1>2 DEF Records, MarkInUse, Track, Mark
  <1>3. ASSUME NEW j \in Jobs, CheckLive(j) PROVE MarkFunction' /\ LosesMarksOnlyBySelf
    <2>1. PICK met \in SUBSET {t \in Sessions \ {SessionOf[j]} : IsSessionDead(t)} :
            marks' = [t \in Sessions |-> IF t \in met THEN {} ELSE marks[t]]
      BY <1>3 DEF CheckLive, DropsDeadSessions
    <2> QED
      BY <2>1 DEF IsSessionDead
  <1>4. ASSUME NEW j \in Jobs, PruneSessions(j) PROVE MarkFunction' /\ LosesMarksOnlyBySelf
    BY <1>4 DEF PruneSessions, Prune, IsSessionDead
  <1>5. ASSUME NEW j \in Jobs, LeaveSession(j) PROVE MarkFunction' /\ LosesMarksOnlyBySelf
    BY <1>5 DEF LeaveSession, RemoveSession
  <1>6. ASSUME NEW j \in Jobs,
               \/ TakeInstallLock(j) \/ Read(j) \/ Exists(j) \/ Verify(j) \/ Vanished(j) \/ Forget(j)
               \/ Install(j) \/ ScriptSucceeds(j) \/ ScriptFails(j) \/ Validate(j) \/ TrackValidates(j)
               \/ UntrackInstall(j) \/ CheckOwners(j) \/ Wipe(j) \/ WipeFails(j) \/ Report(j)
               \/ ClearRecords(j) \/ DeleteAll(j) \/ LockTimesOut(j)
        PROVE  UNCHANGED marks
    BY <1>6 DEF TakeInstallLock, Read, Exists, Verify, Vanished, Forget, Install, ScriptSucceeds,
                ScriptFails, Validate, TrackValidates, UntrackInstall, CheckOwners, Wipe, WipeFails,
                Report, ClearRecords, DeleteAll, LockTimesOut, trackerVars
  <1>7. ASSUME NEW j \in Jobs, NEW k \in Kinds, NEW e \in Exts, NEW i \in Local, Start(j, k, e, i)
        PROVE  UNCHANGED marks
    BY <1>7 DEF Start, trackerVars
  <1>8. ASSUME NEW s \in Sessions, MutexAcquired(s) \/ Crash(s) PROVE UNCHANGED marks
    BY <1>8 DEF MutexAcquired, Crash, SessionUp
  <1>9. CASE UNCHANGED vars
    BY <1>1, <1>9 DEF vars, trackerVars
  <1> QED
    BY <1>1, <1>2, <1>3, <1>4, <1>5, <1>6, <1>7, <1>8, <1>9 DEF Next, Step

\* What a session was handed stays marked as in use while the session holds its mutex,
\* unless it deactivates itself: pruneStaleSessions and the search for live dependents
\* drop dead sessions only.
THEOREM LiveSessionsKeepMarks == Spec => LiveMarksKept
  <1>1. Init => MarkFunction
    BY DEF Init, MarkFunction
  <1>2. MarkFunction /\ [Next]_vars => MarkFunction' /\ [LosesMarksOnlyBySelf]_vars
    BY MarksStep
  <1> QED
    BY <1>1, <1>2, PTL DEF Spec, LiveMarksKept

-----------------------------------------------------------------------------
(***************************************************************************)
(* Records and directories                                                 *)
(***************************************************************************)

\* An uninstall that has wiped the directory and not reported it, and may never do.
Unreported(i) == \E j \in Jobs : kind[j] \in UninstallKinds /\ inst[j] = i /\ pc[j] \in {"report", "dead"}

Present(i) == disk[i] # "absent" \/ Unreported(i)

KindInv ==
    /\ pc = [j \in Jobs |-> pc[j]] /\ kind = [j \in Jobs |-> kind[j]]
    /\ ext = [j \in Jobs |-> ext[j]] /\ inst = [j \in Jobs |-> inst[j]]
    /\ \A j \in Jobs : KindFits(j, pc[j])

\* Who is about to make a record, or deletes directories, has the tracker's lock, and
\* the directory of a record to be made is still there.
TrackInv ==
    /\ KindInv
    /\ disk = [i \in Local |-> disk[i]]
    /\ \A j \in Jobs : pc[j] \in {"record", "rerecord", "delete"} => trackerLock = j
    /\ \A j \in Jobs : pc[j] \in {"record", "rerecord"} => Present(inst[j])

LEMMA KindGoes ==
    ASSUME KindInv, NEW j \in Jobs, NEW at, Go(j, at), UNCHANGED jobAsked, KindFits(j, at)
    PROVE  KindInv'
  BY DEF KindInv, Go, jobAsked, KindFits

LEMMA KindStep ==
    ASSUME KindInv, NEW j \in Jobs, Step(j) \/ LockTimesOut(j)
    PROVE  KindInv'
  <1>job. KindFits(j, pc[j])
    BY DEF KindInv
  <1>1. \A at \in Ended : KindFits(j, at)
    BY DEF KindFits, Ended
  <1>2. UNCHANGED jobAsked
    BY DEF Step, TakeInstallLock, Read, Exists, Verify, Vanished, Forget, Install, ScriptSucceeds,
           ScriptFails, Validate, TrackValidates, Records, MarkInUse, UntrackInstall, CheckOwners,
           CheckLive, Wipe, WipeFails, Report, ClearRecords, DeleteAll, PruneSessions, LeaveSession,
           LockTimesOut, jobVars, jobAsked
  <1> USE DEF End
  <1>3. CASE \/ TakeInstallLock(j) \/ LockTimesOut(j) \/ Read(j) \/ MarkInUse(j) \/ CheckOwners(j)
             \/ CheckLive(j) \/ Wipe(j) \/ WipeFails(j) \/ Report(j)
    <2>1. \E at : Go(j, at) /\ (at \in Ended \/ KindFits(j, at))
      <3>1. CASE TakeInstallLock(j)
        BY <1>job, <3>1 DEF TakeInstallLock, KindFits, LockKinds, Ended
      <3>2. CASE LockTimesOut(j) \/ MarkInUse(j) \/ Report(j)
        BY <3>2 DEF LockTimesOut, MarkInUse, Report, Ended
      <3>3. CASE Read(j)
        BY <1>job, <3>3 DEF Read, KindFits, Ended
      <3>4. CASE CheckOwners(j) \/ CheckLive(j)
        <4>1. KindFits(j, "wipe")
          BY <1>job, <3>4 DEF CheckOwners, CheckLive, KindFits, Ended
        <4>2. Go(j, "wipe") \/ Go(j, "done")
          BY <3>4 DEF CheckOwners, CheckLive
        <4> QED
          BY <4>1, <4>2 DEF Ended
      <3>5. CASE Wipe(j) \/ WipeFails(j)
        <4>1. KindFits(j, "report") /\ KindFits(j, "retrack")
          BY <1>job, <3>5 DEF Wipe, WipeFails, KindFits, Ended
        <4> QED
          BY <3>5, <4>1 DEF Wipe, WipeFails
      <3> QED
        BY <1>3, <3>1, <3>2, <3>3, <3>4, <3>5
    <2> QED
      BY <1>1, <1>2, <2>1, KindGoes
  <1>4. CASE Exists(j) \/ Verify(j) \/ Vanished(j) \/ Forget(j) \/ Install(j)
    <2>1. \E at : Go(j, at) /\ (at \in Ended \/ KindFits(j, at))
      <3>1. CASE Exists(j)
        <4>1. /\ kind[j] = "acquire" => KindFits(j, "install")
              /\ KindFits(j, "track") /\ KindFits(j, "verify")
          BY <1>job, <3>1 DEF Exists, KindFits, Ended
        <4>2. \/ Go(j, "track") \/ Go(j, "verify") \/ Go(j, "none")
              \/ kind[j] = "acquire" /\ Go(j, "install")
          BY <3>1 DEF Exists, NotThere
        <4> QED
          BY <4>1, <4>2 DEF Ended
      <3>2. CASE Verify(j)
        <4>1. /\ kind[j] = "acquire" => KindFits(j, "install")
              /\ kind[j] = "find" => KindFits(j, "mark")
              /\ kind[j] # "find" => KindFits(j, "track")
          BY <1>job, <3>2 DEF Verify, KindFits, Ended
        <4>2. \/ kind[j] = "find" /\ Go(j, "mark")
              \/ kind[j] # "find" /\ Go(j, "track")
              \/ kind[j] = "acquire" /\ Go(j, "install")
              \/ Go(j, "none")
          BY <3>2 DEF Verify, NotThere
        <4> QED
          BY <4>1, <4>2 DEF Ended
      <3>3. CASE Vanished(j)
        BY <1>job, <3>3 DEF Vanished, KindFits, Ended
      <3>4. CASE Forget(j)
        <4>1. KindFits(j, "forgetAgain") /\ (kind[j] = "acquire" => KindFits(j, "install"))
          BY <1>job, <3>4 DEF Forget, KindFits, Ended
        <4>2. \/ kind[j] = "acquire" /\ Go(j, "install")
              \/ Go(j, "forgetAgain")
              \/ Go(j, "none")
          BY <3>4 DEF Forget, NotThere
        <4> QED
          BY <4>1, <4>2 DEF Ended
      <3>5. CASE Install(j)
        <4>1. KindFits(j, "validate") /\ KindFits(j, "script")
          BY <1>job, <3>5 DEF Install, KindFits, Ended
        <4> QED
          BY <3>5, <4>1 DEF Install
      <3> QED
        BY <1>4, <3>1, <3>2, <3>3, <3>4, <3>5
    <2> QED
      BY <1>1, <1>2, <2>1, KindGoes
  <1>5. CASE ScriptSucceeds(j) \/ ScriptFails(j) \/ Validate(j) \/ TrackValidates(j) \/ Records(j)
    <2>1. \E at : Go(j, at) /\ (at \in Ended \/ KindFits(j, at))
      BY <1>job, <1>5 DEF ScriptSucceeds, ScriptFails, Validate, TrackValidates, Records, KindFits, Ended
    <2> QED
      BY <1>1, <1>2, <2>1, KindGoes
  <1>6. CASE UntrackInstall(j) \/ ClearRecords(j) \/ DeleteAll(j) \/ PruneSessions(j) \/ LeaveSession(j)
    <2>1. \E at : Go(j, at) /\ (at \in Ended \/ KindFits(j, at))
      BY <1>job, <1>6 DEF UntrackInstall, ClearRecords, DeleteAll, PruneSessions, LeaveSession, KindFits,
         UninstallKinds, Ended
    <2> QED
      BY <1>1, <1>2, <2>1, KindGoes
  <1> QED
    BY <1>3, <1>4, <1>5, <1>6 DEF Step

\* Steps that need the tracker's lock to be free.
LEMMA WithLockFree ==
    ASSUME TrackInv, NEW j \in Jobs, trackerLock = Free,
           \/ Read(j) \/ Forget(j) \/ TrackValidates(j) \/ MarkInUse(j) \/ UntrackInstall(j)
           \/ CheckOwners(j) \/ CheckLive(j) \/ Report(j) \/ ClearRecords(j) \/ PruneSessions(j)
           \/ LeaveSession(j)
    PROVE  TrackInv' /\ recorded' \subseteq recorded
  <1>1. KindInv' /\ UNCHANGED disk
    BY KindStep DEF TrackInv, Step, Read, Forget, TrackValidates, MarkInUse, UntrackInstall, CheckOwners,
       CheckLive, Report, ClearRecords, PruneSessions, LeaveSession
  <1>2. \A k \in Jobs : pc[k] \notin {"record", "rerecord", "delete"}
    BY JobsAssumption DEF TrackInv
  <1>3. \A k \in Jobs \ {j} : pc'[k] = pc[k] /\ kind'[k] = kind[k] /\ inst'[k] = inst[k]
    BY DEF Read, Forget, TrackValidates, MarkInUse, UntrackInstall, CheckOwners, CheckLive, Report,
       ClearRecords, PruneSessions, LeaveSession, NotThere, End, Go, jobVars, TrackInv, KindInv
  <1>4. CASE TrackValidates(j)
    <2>1. disk[inst[j]] # "absent" \/ pc'[j] = "failed"
      BY <1>4 DEF TrackValidates, ExecutableSeen, End, Go, TrackInv, KindInv
    <2>2. inst'[j] = inst[j] /\ (trackerLock' = j \/ pc'[j] = "failed") /\ recorded' = recorded
      BY <1>4 DEF TrackValidates, End, Go, jobVars, trackerVars, TrackInv, KindInv
    <2> QED
      BY <1>1, <1>2, <1>3, <2>1, <2>2 DEF TrackInv, Present
  <1>5. CASE ClearRecords(j)
    <2>1. pc'[j] = "delete" /\ trackerLock' = j /\ recorded' \subseteq recorded
      BY <1>5 DEF ClearRecords, DropAllRecords, Go, TrackInv, KindInv
    <2> QED
      BY <1>1, <1>2, <1>3, <2>1 DEF TrackInv
  <1>6. CASE ~TrackValidates(j) /\ ~ClearRecords(j)
    <2>1. pc'[j] \notin {"record", "rerecord", "delete"}
      BY <1>6 DEF Read, Forget, MarkInUse, UntrackInstall, CheckOwners, CheckLive, Report, PruneSessions,
         LeaveSession, NotThere, End, Go, TrackInv, KindInv
    <2>2. recorded' \subseteq recorded
      BY <1>6 DEF Read, Forget, MarkInUse, UntrackInstall, CheckOwners, CheckLive, Report, PruneSessions,
         LeaveSession, DropRecord, Untrack, trackerVars
    <2> QED
      BY <1>1, <1>2, <1>3, <2>1, <2>2 DEF TrackInv
  <1> QED
    BY <1>4, <1>5, <1>6

\* Steps that do without it, of which only a wipe can take a directory away.
LEMMA WithoutLock ==
    ASSUME TrackInv, NEW j \in Jobs,
           \/ TakeInstallLock(j) \/ LockTimesOut(j) \/ Exists(j) \/ Verify(j) \/ Vanished(j)
           \/ Install(j) \/ ScriptSucceeds(j) \/ ScriptFails(j) \/ Validate(j) \/ Wipe(j) \/ WipeFails(j)
    PROVE  TrackInv' /\ recorded' \subseteq recorded
  <1>1. KindInv' /\ recorded' \subseteq recorded /\ UNCHANGED trackerLock
    BY KindStep DEF TrackInv, Step, TakeInstallLock, LockTimesOut, Exists, Verify, Vanished, Install,
       ScriptSucceeds, ScriptFails, Validate, Wipe, WipeFails, trackerVars
  <1>2. /\ \A k \in Jobs \ {j} : pc'[k] = pc[k] /\ kind'[k] = kind[k] /\ inst'[k] = inst[k]
        /\ kind'[j] = kind[j] /\ inst'[j] = inst[j]
    BY DEF TakeInstallLock, LockTimesOut, Exists, Verify, Vanished, Install, ScriptSucceeds, ScriptFails,
       Validate, Wipe, WipeFails, NotThere, End, Go, jobVars, TrackInv, KindInv
  <1>3. pc'[j] \notin {"record", "rerecord", "delete"} /\ pc[j] \notin {"report", "dead"}
    BY DEF TakeInstallLock, LockTimesOut, Exists, Verify, Vanished, Install, ScriptSucceeds, ScriptFails,
       Validate, Wipe, WipeFails, NotThere, End, Go, TrackInv, KindInv
  <1>4. \A i : Unreported(i) => Unreported(i)'
    BY <1>2, <1>3 DEF Unreported
  <1>5. disk' = [i \in Local |-> disk'[i]] /\ \A i \in Local : Present(i) => Present(i)'
    <2>1. CASE Wipe(j)
      <3>1. kind[j] \in UninstallKinds /\ inst[j] \in Local
        BY <2>1 DEF Wipe, TrackInv, KindInv, KindFits, Ended
      <3>2. ASSUME NEW i, i = inst[j] PROVE Unreported(i)'
        BY <1>2, <2>1, <3>1, <3>2 DEF Wipe, Go, Unreported, TrackInv, KindInv
      <3>3. disk' = [i \in Local |-> disk'[i]] /\ \A i \in Local : i # inst[j] => disk'[i] = disk[i]
        BY <2>1, <3>1 DEF Wipe, TrackInv
      <3> QED
        BY <1>4, <3>2, <3>3 DEF Present
    <2>2. CASE Install(j) \/ ScriptSucceeds(j) \/ ScriptFails(j)
      <3>1. /\ disk' = [i \in Local |-> disk'[i]]
            /\ \A i \in Local : disk'[i] = disk[i] \/ disk'[i] \in {"partial", "complete"}
        BY <2>2 DEF Install, ScriptSucceeds, ScriptFails, TrackInv
      <3> QED
        BY <1>4, <3>1 DEF Present
    <2>3. CASE ~Wipe(j) /\ ~(Install(j) \/ ScriptSucceeds(j) \/ ScriptFails(j))
      <3>1. UNCHANGED disk
        BY <2>3 DEF TakeInstallLock, LockTimesOut, Exists, Verify, Vanished, Validate, WipeFails
      <3> QED
        BY <1>4, <3>1 DEF Present, TrackInv
    <2> QED
      BY <2>1, <2>2, <2>3
  <1>6. \A k \in Jobs : pc[k] \in {"record", "rerecord"} => inst[k] \in Local
    BY DEF TrackInv, KindInv, KindFits, Ended
  <1> QED
    BY <1>1, <1>2, <1>3, <1>5, <1>6 DEF TrackInv

\* The holder of the tracker's lock makes its record, or deletes the directories.
LEMMA WithLock ==
    ASSUME TrackInv, NEW j \in Jobs, Records(j) \/ DeleteAll(j)
    PROVE  TrackInv' /\ TracksOnlyWhatExists
  <1>1. KindInv'
    BY KindStep DEF TrackInv, Step
  <1>2. pc[j] \in {"record", "rerecord", "delete"}
    BY DEF Records, DeleteAll
  <1>3. \A k \in Jobs \ {j} : pc[k] \notin {"record", "rerecord", "delete"} /\ pc'[k] = pc[k]
    BY <1>2 DEF TrackInv, KindInv, Records, DeleteAll, End, Go
  <1>4. pc'[j] \notin {"record", "rerecord", "delete"} /\ disk' = [i \in Local |-> disk'[i]]
    BY DEF TrackInv, KindInv, Records, DeleteAll, End, Go
  <1>5. TrackInv'
    BY <1>1, <1>3, <1>4 DEF TrackInv
  <1>6. TracksOnlyWhatExists
    <2>1. CASE Records(j)
      <3>1. recorded' = recorded \cup {inst[j]} /\ Present(inst[j])
        BY <2>1 DEF Records, Track, TrackInv
      <3> QED
        BY <3>1 DEF TracksOnlyWhatExists, Present, Unreported
    <2>2. CASE DeleteAll(j)
      BY <2>2 DEF DeleteAll, trackerVars, TracksOnlyWhatExists
    <2> QED
      BY <2>1, <2>2
  <1> QED
    BY <1>5, <1>6

LEMMA TrackStart ==
    ASSUME TrackInv, NEW j \in Jobs, NEW k \in Kinds, NEW e \in Exts, NEW i \in Local, Start(j, k, e, i)
    PROVE  TrackInv' /\ recorded' \subseteq recorded
  <1>1. /\ UNCHANGED <<recorded, disk, trackerLock>> /\ pc[j] = "idle"
        /\ \A other \in Jobs \ {j} :
             /\ pc'[other] = pc[other] /\ kind'[other] = kind[other]
             /\ ext'[other] = ext[other] /\ inst'[other] = inst[other]
        /\ pc'[j] = FirstStage(k) /\ kind'[j] = k /\ ext'[j] = e /\ inst'[j] = i
        /\ pc' = [o \in Jobs |-> pc'[o]] /\ kind' = [o \in Jobs |-> kind'[o]]
        /\ ext' = [o \in Jobs |-> ext'[o]] /\ inst' = [o \in Jobs |-> inst'[o]]
    BY DEF Start, Go, TrackInv, KindInv, trackerVars
  <1>2. k \in AllKinds
    BY JobsAssumption
  <1>3. KindFits(j, pc[j])' /\ pc'[j] \notin {"record", "rerecord", "delete"}
    BY <1>1, <1>2 DEF KindFits, FirstStage, AllKinds, LockKinds, UninstallKinds
  <1>4. \A other \in Jobs \ {j} : KindFits(other, pc[other])'
    BY <1>1 DEF TrackInv, KindInv, KindFits
  <1>5. \A m : Present(m) => Present(m)'
    BY <1>1 DEF Present, Unreported
  <1> QED
    BY <1>1, <1>3, <1>4, <1>5 DEF TrackInv, KindInv

LEMMA TrackCrash ==
    ASSUME TrackInv, NEW s \in Sessions, Crash(s)
    PROVE  TrackInv' /\ recorded' \subseteq recorded
  <1>1. /\ UNCHANGED <<recorded, disk, kind, ext, inst>>
        /\ \A j \in Jobs : pc'[j] = "dead" \/ (pc'[j] = pc[j] /\ (SessionOf[j] # s \/ pc[j] \in Ended))
        /\ pc' = [j \in Jobs |-> pc'[j]]
    BY DEF Crash, jobVars
  <1>2. KindInv'
    BY <1>1 DEF TrackInv, KindInv, KindFits, Ended
  <1>3. \A i : Present(i) => Present(i)'
    BY <1>1 DEF Present, Unreported
  <1>4. ASSUME NEW j \in Jobs, pc'[j] \in {"record", "rerecord", "delete"} PROVE trackerLock' = j
    <2>1. pc[j] = pc'[j] /\ SessionOf[j] # s /\ trackerLock = j
      BY <1>1, <1>4 DEF TrackInv, Ended
    <2> QED
      BY <2>1 DEF Crash
  <1> QED
    BY <1>1, <1>2, <1>3, <1>4 DEF TrackInv

LEMMA TrackInvStep == TrackInv /\ [Next]_vars => TrackInv' /\ [TracksOnlyWhatExists]_vars
  <1> SUFFICES ASSUME TrackInv, [Next]_vars PROVE TrackInv' /\ [TracksOnlyWhatExists]_vars
    OBVIOUS
  <1>1. CASE UNCHANGED vars
    BY <1>1 DEF vars, trackerVars, jobVars, TrackInv, KindInv, KindFits, Present, Unreported
  <1>2. recorded' \subseteq recorded => TracksOnlyWhatExists
    BY DEF TracksOnlyWhatExists
  <1>3. ASSUME NEW s \in Sessions, MutexAcquired(s) PROVE TrackInv' /\ TracksOnlyWhatExists
    BY <1>3 DEF MutexAcquired, SessionUp, jobVars, TrackInv, KindInv, KindFits, Present, Unreported,
                TracksOnlyWhatExists
  <1>4. ASSUME NEW j \in Jobs, LockTimesOut(j) \/ Step(j) PROVE TrackInv' /\ TracksOnlyWhatExists
    <2>1. CASE trackerLock = Free /\
               (\/ Read(j) \/ Forget(j) \/ TrackValidates(j) \/ MarkInUse(j) \/ UntrackInstall(j)
                \/ CheckOwners(j) \/ CheckLive(j) \/ Report(j) \/ ClearRecords(j) \/ PruneSessions(j)
                \/ LeaveSession(j))
      BY <1>2, <2>1, WithLockFree
    <2>2. CASE \/ TakeInstallLock(j) \/ LockTimesOut(j) \/ Exists(j) \/ Verify(j) \/ Vanished(j)
               \/ Install(j) \/ ScriptSucceeds(j) \/ ScriptFails(j) \/ Validate(j) \/ Wipe(j)
               \/ WipeFails(j)
      BY <1>2, <2>2, WithoutLock
    <2>3. CASE Records(j) \/ DeleteAll(j)
      BY <2>3, WithLock
    <2>4. Read(j) \/ Forget(j) \/ TrackValidates(j) \/ MarkInUse(j) \/ UntrackInstall(j)
          \/ CheckOwners(j) \/ CheckLive(j) \/ Report(j) \/ ClearRecords(j) \/ PruneSessions(j)
          \/ LeaveSession(j) => trackerLock = Free
      BY DEF Read, Forget, TrackValidates, MarkInUse, UntrackInstall, CheckOwners, CheckLive, Report,
             ClearRecords, PruneSessions, LeaveSession
    <2> QED
      BY <1>4, <2>1, <2>2, <2>3, <2>4 DEF Step
  <1> QED
    BY <1>1, <1>2, <1>3, <1>4, TrackStart, TrackCrash DEF Next

\* A record is made only for a directory that is there, or that an uninstall has wiped
\* and not yet reported: validation and record are under one lock, and uninstallAll
\* keeps it while it deletes.
THEOREM RecordsAreOfDirectories == Spec => TrackedExists
  <1>1. Init => TrackInv
    BY DEF Init, TrackInv, KindInv, KindFits
  <1>2. TrackInv /\ [Next]_vars => TrackInv' /\ [TracksOnlyWhatExists]_vars
    BY TrackInvStep
  <1> QED
    BY <1>1, <1>2, PTL DEF Spec, TrackedExists

-----------------------------------------------------------------------------
(***************************************************************************)
(* Types                                                                   *)
(***************************************************************************)

\* The steps of a command, by what they change of the records.
LEMMA TypeOfRecords ==
    ASSUME TypeOK, NEW j \in Jobs, Step(j) \/ LockTimesOut(j)
    PROVE  TrackerTypeOK'
  <1> USE JobsAssumption, TrackerAssumption DEF TypeOK, TrackerTypeOK
  <1>1. CASE UNCHANGED trackerVars
    BY <1>1 DEF trackerVars
  <1>2. CASE Records(j)
    BY <1>2 DEF Records, Track
  <1>3. CASE MarkInUse(j)
    BY <1>3 DEF MarkInUse, Mark
  <1>4. CASE Forget(j) \/ Report(j)
    BY <1>4 DEF Forget, Report, DropRecord
  <1>5. CASE UntrackInstall(j)
    BY <1>5 DEF UntrackInstall, Untrack, DropRecord
  <1>6. CASE ClearRecords(j)
    BY <1>6 DEF ClearRecords, DropAllRecords
  <1>7. CASE CheckLive(j)
    <2>1. PICK met \in SUBSET {t \in Sessions \ {SessionOf[j]} : IsSessionDead(t)} :
            marks' = [t \in Sessions |-> IF t \in met THEN {} ELSE marks[t]]
      BY <1>7 DEF CheckLive, DropsDeadSessions
    <2> QED
      BY <1>7, <2>1 DEF CheckLive
  <1>8. CASE PruneSessions(j) \/ LeaveSession(j)
    BY <1>8 DEF PruneSessions, LeaveSession, Prune, RemoveSession
  <1>9. CASE \/ TakeInstallLock(j) \/ Read(j) \/ Exists(j) \/ Verify(j) \/ Vanished(j)
             \/ Install(j) \/ ScriptSucceeds(j) \/ ScriptFails(j) \/ Validate(j) \/ TrackValidates(j)
             \/ CheckOwners(j) \/ Wipe(j) \/ WipeFails(j) \/ DeleteAll(j) \/ LockTimesOut(j)
    <2>1. UNCHANGED trackerVars
      BY <1>9 DEF TakeInstallLock, Read, Exists, Verify, Vanished, Install, ScriptSucceeds, ScriptFails,
                  Validate, TrackValidates, CheckOwners, Wipe, WipeFails, DeleteAll, LockTimesOut,
                  trackerVars
    <2> QED
      BY <1>1, <2>1
  <1> QED
    BY <1>2, <1>3, <1>4, <1>5, <1>6, <1>7, <1>8, <1>9 DEF Step

\* ... and by where they lead, with which locks.
LEMMA TypeOfPlaces ==
    ASSUME TypeOK, NEW j \in Jobs, Step(j) \/ LockTimesOut(j)
    PROVE  /\ pc' \in [Jobs -> Stages] /\ seen' \in [Jobs -> BOOLEAN]
           /\ installLock' \in [Local -> Jobs \cup {Free}] /\ trackerLock' \in Jobs \cup {Free}
           /\ UNCHANGED <<kind, ext, inst>>
  <1> USE DEF TypeOK, Go, End
  <1>1. \A at \in Stages : [pc EXCEPT ![j] = at] \in [Jobs -> Stages]
    OBVIOUS
  <1>2. [i \in Local |-> IF installLock[i] = j THEN Free ELSE installLock[i]]
          \in [Local -> Jobs \cup {Free}]
    OBVIOUS
  <1>3. CASE TakeInstallLock(j)
    <2>1. installLock' \in [Local -> Jobs \cup {Free}] /\ UNCHANGED <<kind, ext, inst, seen, trackerLock>>
      BY <1>3 DEF TakeInstallLock, jobVars
    <2>2. (IF kind[j] = "acquire" THEN "read" ELSE "untrack") \in Stages
      BY DEF Stages
    <2> QED
      BY <1>1, <1>3, <2>1, <2>2 DEF TakeInstallLock
  <1>4. CASE Exists(j) \/ Verify(j) \/ Vanished(j) \/ Forget(j) \/ Install(j)
    <2>1. UNCHANGED <<kind, ext, inst, seen, trackerLock>>
      BY <1>4 DEF Exists, Verify, Vanished, Forget, Install, jobVars
    <2>2. \E at \in Stages : pc' = [pc EXCEPT ![j] = at]
      <3>1. CASE Exists(j)
        BY <3>1 DEF Exists, NotThere, Stages, Ended
      <3>2. CASE Verify(j)
        BY <3>2 DEF Verify, NotThere, Stages, Ended
      <3>3. CASE Vanished(j) \/ Forget(j)
        BY <3>3 DEF Vanished, Forget, NotThere, Stages, Ended
      <3>4. CASE Install(j)
        BY <3>4 DEF Install, Stages, Ended
      <3> QED
        BY <1>4, <3>1, <3>2, <3>3, <3>4
    <2>3. \/ UNCHANGED installLock
          \/ installLock' = [i \in Local |-> IF installLock[i] = j THEN Free ELSE installLock[i]]
      BY <1>4 DEF Exists, Verify, Vanished, Forget, Install, NotThere
    <2> QED
      BY <1>1, <1>2, <2>1, <2>2, <2>3
  <1>5. CASE ScriptSucceeds(j) \/ ScriptFails(j) \/ Validate(j)
    BY <1>1, <1>2, <1>5 DEF ScriptSucceeds, ScriptFails, Validate, jobVars, Stages, Ended
  <1>6. CASE TrackValidates(j)
    BY <1>1, <1>2, <1>6 DEF TrackValidates, jobVars, Stages, Ended
  <1>7. CASE Records(j) \/ MarkInUse(j)
    BY <1>1, <1>2, <1>7 DEF Records, MarkInUse, jobVars, Stages, Ended
  <1>8. CASE UntrackInstall(j) \/ CheckOwners(j) \/ CheckLive(j)
    BY <1>1, <1>2, <1>8 DEF UntrackInstall, CheckOwners, CheckLive, jobVars, Stages, Ended
  <1>9. CASE \/ Wipe(j) \/ WipeFails(j) \/ Report(j) \/ ClearRecords(j) \/ DeleteAll(j)
             \/ PruneSessions(j) \/ LeaveSession(j)
    BY <1>1, <1>2, <1>9 DEF Wipe, WipeFails, Report, ClearRecords, DeleteAll, PruneSessions,
       LeaveSession, jobVars, Stages, Ended
  <1>10. CASE Read(j) \/ LockTimesOut(j)
    <2>1. pc' \in [Jobs -> Stages]
      BY <1>1, <1>10 DEF Read, LockTimesOut, Stages, Ended
    <2>2. UNCHANGED <<kind, ext, inst, trackerLock>>
      BY <1>10 DEF Read, LockTimesOut, jobVars
    <2>4. seen' \in [Jobs -> BOOLEAN]
      <3>1. \A was \in BOOLEAN : [seen EXCEPT ![j] = was] \in [Jobs -> BOOLEAN]
        OBVIOUS
      <3>2. (inst[j] \in recorded) \in BOOLEAN
        OBVIOUS
      <3>3. seen' = seen \/ seen' = [seen EXCEPT ![j] = inst[j] \in recorded]
        BY <1>10 DEF Read, LockTimesOut, jobVars
      <3>4. seen \in [Jobs -> BOOLEAN]
        OBVIOUS
      <3> QED
        BY <3>1, <3>2, <3>3, <3>4
    <2>3. installLock' \in [Local -> Jobs \cup {Free}]
      BY <1>2, <1>10 DEF Read, LockTimesOut
    <2> QED
      BY <2>1, <2>2, <2>3, <2>4
  <1> QED
    BY <1>3, <1>4, <1>5, <1>6, <1>7, <1>8, <1>9, <1>10 DEF Step

\* ... and what becomes of the directories and of the history.
LEMMA TypeOfDirectories ==
    ASSUME TypeOK, NEW j \in Jobs, Step(j) \/ LockTimesOut(j)
    PROVE  /\ disk' \in [Local -> {"absent", "partial", "torn", "complete"}]
           /\ granted' \subseteq Exts \X Local /\ rough' \subseteq Local
  <1> USE DEF TypeOK
  <1>1. CASE Install(j) \/ ScriptSucceeds(j) \/ ScriptFails(j) \/ Wipe(j)
    BY <1>1 DEF Install, ScriptSucceeds, ScriptFails, Wipe
  <1>2. CASE DeleteAll(j)
    BY <1>2 DEF DeleteAll
  <1>3. CASE Records(j) \/ Forget(j)
    BY <1>3 DEF Records, Forget
  <1>4. CASE UntrackInstall(j) \/ ClearRecords(j)
    BY <1>4 DEF UntrackInstall, ClearRecords
  <1>6. CASE CheckLive(j)
    <2>1. disk' = disk /\ granted' = granted /\ (rough' = rough \/ rough' = rough \cup {inst[j]})
      BY <1>6 DEF CheckLive
    <2> QED
      BY <2>1
  <1>5. CASE \/ TakeInstallLock(j) \/ Read(j) \/ Exists(j) \/ Verify(j) \/ Vanished(j)
             \/ Validate(j) \/ TrackValidates(j) \/ MarkInUse(j) \/ CheckOwners(j)
             \/ WipeFails(j) \/ Report(j) \/ PruneSessions(j) \/ LeaveSession(j) \/ LockTimesOut(j)
    BY <1>5 DEF TakeInstallLock, Read, Exists, Verify, Vanished, Validate, TrackValidates, MarkInUse,
       CheckOwners, WipeFails, Report, PruneSessions, LeaveSession, LockTimesOut
  <1> QED
    BY <1>1, <1>2, <1>3, <1>4, <1>5, <1>6 DEF Step

\* A command arrives.
LEMMA TypeOfStart ==
    ASSUME TypeOK, NEW j \in Jobs, NEW k \in AllKinds, NEW e \in Exts, NEW i \in Local, Start(j, k, e, i)
    PROVE  TypeOK'
  <1>1. FirstStage(k) \in Stages
    BY DEF AllKinds, FirstStage, Stages
  <1> QED
    BY <1>1 DEF Start, Go, TypeOK, TrackerTypeOK, trackerVars

\* A command goes on.
LEMMA TypeOfStep ==
    ASSUME TypeOK, NEW j \in Jobs, LockTimesOut(j) \/ Step(j)
    PROVE  TypeOK'
  <1>1. TrackerTypeOK'
    BY TypeOfRecords
  <1>2. /\ pc' \in [Jobs -> Stages] /\ seen' \in [Jobs -> BOOLEAN]
        /\ installLock' \in [Local -> Jobs \cup {Free}] /\ trackerLock' \in Jobs \cup {Free}
        /\ UNCHANGED <<kind, ext, inst>>
    BY TypeOfPlaces
  <1>3. /\ disk' \in [Local -> {"absent", "partial", "torn", "complete"}]
        /\ granted' \subseteq Exts \X Local /\ rough' \subseteq Local
    BY TypeOfDirectories
  <1> QED
    BY <1>1, <1>2, <1>3 DEF TypeOK

\* A session gets its mutex, or dies.
LEMMA TypeOfSession ==
    ASSUME TypeOK, NEW s \in Sessions, MutexAcquired(s) \/ Crash(s)
    PROVE  TypeOK'
  <1>1. CASE MutexAcquired(s)
    BY <1>1 DEF MutexAcquired, SessionUp, jobVars, TypeOK, TrackerTypeOK
  <1>2. CASE Crash(s)
    BY <1>2 DEF Crash, jobVars, TypeOK, TrackerTypeOK, Stages, Ended
  <1> QED
    BY <1>1, <1>2

LEMMA TypeOfNothing == TypeOK /\ UNCHANGED vars => TypeOK'
  BY DEF vars, trackerVars, jobVars, TypeOK, TrackerTypeOK

LEMMA TypesAtFirst == Local # {} /\ Init => TypeOK
  <1> SUFFICES ASSUME Local # {}, Init PROVE TypeOK
    OBVIOUS
  <1>1. (CHOOSE i \in Local : TRUE) \in Local
    OBVIOUS
  <1>2. TrackerTypeOK
    BY TrackerAssumption DEF Init, TrackerTypeOK
  <1>3. disk \in [Local -> {"absent", "partial", "torn", "complete"}] /\ granted \subseteq Exts \X Local
    BY TrackerAssumption DEF Init
  <1> QED
    BY <1>1, <1>2, <1>3, TrackerAssumption DEF Init, TypeOK, Stages

\* Every command, record, mark, lock and directory stays within its type, and an
\* install without a record has no owners.
THEOREM TypeCorrect == ASSUME Local # {} PROVE Spec => []TypeOK
  <1>1. TypeOK /\ [Next]_vars => TypeOK'
    BY TypeOfStart, TypeOfStep, TypeOfSession, TypeOfNothing, JobsAssumption DEF Next
  <1> QED
    BY <1>1, TypesAtFirst, PTL DEF Spec
-----------------------------------------------------------------------------
(***************************************************************************)
(* The locks                                                               *)
(***************************************************************************)

\* Places at which a command has the tracker's lock, and at which it waits for it.
AtRecords == {"record", "rerecord", "delete"}

\* Each lock is held by the one command that is where it holds it, and by nobody else.
LocksInv ==
    /\ KindInv
    /\ installLock = [i \in Local |-> installLock[i]]
    /\ \A j \in Jobs : Within(j, pc[j]) => installLock[inst[j]] = j
    /\ \A i \in Local : installLock[i] # Free =>
         \E j \in Jobs : installLock[i] = j /\ inst[j] = i /\ Within(j, pc[j])
    /\ \A j \in Jobs : pc[j] \in AtRecords => trackerLock = j
    /\ trackerLock # Free => trackerLock \in Jobs /\ pc[trackerLock] \in AtRecords

Answers == {"done", "none", "failed"}

\* What a step of a command does with the lock of its install ...
WithInstallLock(j, at) ==
    \/ /\ pc[j] = "lock" /\ Within(j, at) /\ installLock[inst[j]] = Free
       /\ installLock' = [installLock EXCEPT ![inst[j]] = j]
    \/ /\ at \notin Ended /\ (Within(j, at) <=> Within(j, pc[j]))
       /\ UNCHANGED installLock
    \/ /\ at \in Answers
       /\ installLock' = [i \in Local |-> IF installLock[i] = j THEN Free ELSE installLock[i]]

\* ... and with the tracker's.
WithTrackerLock(j, at) ==
    \/ pc[j] \notin AtRecords /\ at \notin AtRecords /\ UNCHANGED trackerLock
    \/ pc[j] \notin AtRecords /\ at \in AtRecords /\ trackerLock = Free /\ trackerLock' = j
    \/ pc[j] \in AtRecords /\ at \notin AtRecords /\ trackerLock' = Free

Stride(j, at) ==
    /\ Go(j, at) /\ UNCHANGED jobAsked /\ KindFits(j, at)
    /\ pc[j] \notin Ended \cup {"idle"} /\ at \notin {"idle", "dead"}
    /\ WithInstallLock(j, at) /\ WithTrackerLock(j, at)

LEMMA EndStrides ==
    ASSUME NEW j \in Jobs, NEW at \in Answers, End(j, at), UNCHANGED jobAsked,
           pc[j] \notin Ended \cup {"idle"}, pc[j] \notin AtRecords => UNCHANGED trackerLock,
           pc[j] \in AtRecords => trackerLock' = Free
    PROVE  Stride(j, at)
  <1>1. at \in Ended /\ at \notin AtRecords /\ KindFits(j, at) /\ at \notin {"idle", "dead"}
    BY DEF Answers, Ended, AtRecords, KindFits
  <1> QED
    BY <1>1 DEF Stride, End, WithInstallLock, WithTrackerLock

LEMMA OnStrides ==
    ASSUME NEW j \in Jobs, NEW at, Go(j, at), UNCHANGED jobAsked, UNCHANGED installLock,
           KindFits(j, at), at \notin Ended \cup {"idle", "lock"}, pc[j] \notin Ended \cup {"idle", "lock"},
           WithTrackerLock(j, at)
    PROVE  Stride(j, at)
  <1>1. Within(j, at) <=> Within(j, pc[j])
    BY DEF Within
  <1> QED
    BY <1>1 DEF Stride, WithInstallLock, Ended

\* The install is not there: acquire goes on, others end.
LEMMA NotThereStrides ==
    ASSUME NEW j \in Jobs, pc[j] \in {"exists", "verify", "forgetAgain"}, NotThere(j),
           KindFits(j, pc[j]), UNCHANGED <<jobAsked, trackerLock>>
    PROVE  \E at : Stride(j, at)
  <1>1. pc[j] \notin Ended \cup {"idle", "lock"} /\ pc[j] \notin AtRecords
    BY DEF Ended, AtRecords
  <1>2. CASE kind[j] = "acquire"
    <2>1. Go(j, "install") /\ UNCHANGED installLock
      BY <1>2 DEF NotThere
    <2>2. KindFits(j, "install")
      BY <1>2 DEF KindFits, Ended
    <2>3. WithTrackerLock(j, "install")
      BY <1>1 DEF WithTrackerLock, AtRecords
    <2>4. "install" \notin Ended \cup {"idle", "lock"}
      BY DEF Ended
    <2> QED
      BY <1>1, <2>1, <2>2, <2>3, <2>4, OnStrides
  <1>3. CASE kind[j] # "acquire"
    <2>1. End(j, "none") /\ "none" \in Answers
      BY <1>3 DEF NotThere, Answers
    <2>2. Stride(j, "none")
      BY <1>1, <2>1, EndStrides
    <2> QED
      BY <2>2
  <1> QED
    BY <1>2, <1>3

\* Every step of a command is a stride.
LEMMA TakingStrides ==
    ASSUME KindInv, NEW j \in Jobs,
           \/ TakeInstallLock(j) \/ LockTimesOut(j) \/ Read(j) \/ Exists(j) \/ Verify(j)
           \/ Vanished(j) \/ Forget(j)
    PROVE  \E at : Stride(j, at)
  <1>job. KindFits(j, pc[j])
    BY DEF KindInv
  <1>1. CASE TakeInstallLock(j)
    <2>1. PICK at \in {"read", "untrack"} :
             /\ at = IF kind[j] = "acquire" THEN "read" ELSE "untrack"
             /\ Go(j, at) /\ pc[j] = "lock" /\ installLock[inst[j]] = Free
             /\ installLock' = [installLock EXCEPT ![inst[j]] = j]
             /\ UNCHANGED <<jobAsked, trackerLock>>
      BY <1>1 DEF TakeInstallLock, jobVars, jobAsked
    <2>2. kind[j] \in LockKinds /\ inst[j] \in Local /\ ext[j] \in Exts
      BY <1>job, <2>1 DEF KindFits, Ended
    <2>3. KindFits(j, at) /\ Within(j, at)
      BY <2>1, <2>2 DEF KindFits, Within, LockKinds, Ended
    <2>4. WithInstallLock(j, at) /\ WithTrackerLock(j, at)
      BY <2>1, <2>3 DEF WithInstallLock, WithTrackerLock, AtRecords
    <2>5. pc[j] \notin Ended \cup {"idle"} /\ at \notin {"idle", "dead"}
      BY <2>1 DEF Ended
    <2> QED
      BY <2>1, <2>3, <2>4, <2>5 DEF Stride
  <1>2. CASE LockTimesOut(j)
    <2>1. /\ End(j, "failed") /\ "failed" \in Answers /\ UNCHANGED <<jobAsked, trackerLock>>
          /\ pc[j] \notin Ended \cup {"idle"} /\ pc[j] \notin AtRecords
      BY <1>2 DEF LockTimesOut, jobVars, jobAsked, Answers, Ended, AtRecords
    <2>2. Stride(j, "failed")
      BY <2>1, EndStrides
    <2> QED
      BY <2>2
  <1>3. CASE Read(j)
    <2>1. /\ Go(j, "exists") /\ UNCHANGED <<jobAsked, installLock, trackerLock>> /\ pc[j] = "read"
      BY <1>3 DEF Read, jobAsked
    <2>2. KindFits(j, "exists")
      BY <1>job, <2>1 DEF KindFits, Ended
    <2>3. /\ WithTrackerLock(j, "exists") /\ "exists" \notin Ended \cup {"idle", "lock"}
          /\ pc[j] \notin Ended \cup {"idle", "lock"}
      BY <2>1 DEF WithTrackerLock, AtRecords, Ended
    <2>4. Stride(j, "exists")
      BY <2>1, <2>2, <2>3, OnStrides
    <2> QED
      BY <2>4
  <1>4. CASE Exists(j) \/ Verify(j) \/ Forget(j)
    <2>1. UNCHANGED <<jobAsked, trackerLock>>
      BY <1>4 DEF Exists, Verify, Forget, jobVars, jobAsked
    <2>2. CASE pc[j] \in {"exists", "verify", "forgetAgain"} /\ NotThere(j)
      BY <1>job, <2>1, <2>2, NotThereStrides
    <2>3. CASE \E at \in {"track", "verify", "mark", "forgetAgain"} :
                  Go(j, at) /\ UNCHANGED installLock /\ KindFits(j, at)
      <3>1. PICK at \in {"track", "verify", "mark", "forgetAgain"} :
               Go(j, at) /\ UNCHANGED installLock /\ KindFits(j, at)
        BY <2>3
      <3>2. pc[j] \in {"exists", "verify", "forget", "forgetAgain"}
        BY <1>4 DEF Exists, Verify, Forget
      <3>3. /\ WithTrackerLock(j, at) /\ at \notin Ended \cup {"idle", "lock"}
            /\ pc[j] \notin Ended \cup {"idle", "lock"}
        BY <2>1, <3>2 DEF WithTrackerLock, AtRecords, Ended
      <3>4. Stride(j, at)
        BY <2>1, <3>1, <3>3, OnStrides
      <3> QED
        BY <3>4
    <2>4. CASE Exists(j)
      <3>1. pc[j] = "exists" /\ KindFits(j, "verify") /\ KindFits(j, "track")
        BY <1>job, <2>4 DEF Exists, KindFits, Ended
      <3>2. \/ NotThere(j)
            \/ (Go(j, "track") \/ Go(j, "verify")) /\ UNCHANGED installLock
        BY <2>4 DEF Exists
      <3> QED
        BY <2>2, <2>3, <3>1, <3>2
    <2>5. CASE Verify(j)
      <3>1. pc[j] = "verify"
        BY <2>5 DEF Verify
      <3>2. (kind[j] = "find" => KindFits(j, "mark")) /\ (kind[j] # "find" => KindFits(j, "track"))
        BY <1>job, <3>1 DEF KindFits, Ended
      <3>3. \/ NotThere(j)
            \/ kind[j] = "find" /\ Go(j, "mark") /\ UNCHANGED installLock
            \/ kind[j] # "find" /\ Go(j, "track") /\ UNCHANGED installLock
        BY <2>5 DEF Verify
      <3> QED
        BY <2>2, <2>3, <3>1, <3>2, <3>3
    <2>6. CASE Forget(j)
      <3>1. \/ pc[j] = "forget" /\ Go(j, "forgetAgain") /\ UNCHANGED installLock
            \/ pc[j] = "forgetAgain" /\ NotThere(j)
        BY <2>6 DEF Forget
      <3>2. KindFits(j, "forgetAgain")
        BY <1>job, <3>1 DEF KindFits, Ended
      <3> QED
        BY <2>2, <2>3, <3>1, <3>2
    <2> QED
      BY <1>4, <2>4, <2>5, <2>6
  <1>5. CASE Vanished(j)
    <2>1. Go(j, "forget") /\ UNCHANGED <<jobAsked, installLock, trackerLock>> /\ pc[j] = "verify"
          /\ kind[j] # "find"
      BY <1>5 DEF Vanished, jobVars, jobAsked
    <2>2. KindFits(j, "forget")
      BY <1>job, <2>1 DEF KindFits, Ended
    <2>3. /\ WithTrackerLock(j, "forget") /\ "forget" \notin Ended \cup {"idle", "lock"}
          /\ pc[j] \notin Ended \cup {"idle", "lock"}
      BY <2>1 DEF WithTrackerLock, AtRecords, Ended
    <2>4. Stride(j, "forget")
      BY <2>1, <2>2, <2>3, OnStrides
    <2> QED
      BY <2>4
  <1> QED
    BY <1>1, <1>2, <1>3, <1>4, <1>5

\* Steps that go on without a lock, to one of two stages.
LEMMA FreeStrides ==
    ASSUME NEW j \in Jobs, NEW at, Go(j, at), UNCHANGED <<jobAsked, installLock, trackerLock>>,
           KindFits(j, at), at \notin Ended \cup {"idle", "lock"} \cup AtRecords,
           pc[j] \notin Ended \cup {"idle", "lock"} \cup AtRecords
    PROVE  Stride(j, at)
  <1>1. WithTrackerLock(j, at)
    BY DEF WithTrackerLock
  <1> QED
    BY <1>1, OnStrides

LEMMA InstallStrides ==
    ASSUME KindInv, NEW j \in Jobs,
           Install(j) \/ ScriptSucceeds(j) \/ ScriptFails(j) \/ Validate(j) \/ UntrackInstall(j)
           \/ CheckOwners(j) \/ CheckLive(j) \/ Wipe(j) \/ WipeFails(j)
    PROVE  \E at : Stride(j, at)
  <1>job. KindFits(j, pc[j])
    BY DEF KindInv
  <1>1. UNCHANGED <<jobAsked, trackerLock>>
    BY DEF Install, ScriptSucceeds, ScriptFails, Validate, UntrackInstall, CheckOwners, CheckLive, Wipe,
           WipeFails, jobVars, jobAsked
  <1>2. pc[j] \in {"install", "script", "validate", "untrack", "check", "wipe"}
    BY DEF Install, ScriptSucceeds, ScriptFails, Validate, UntrackInstall, CheckOwners, CheckLive, Wipe,
           WipeFails
  <1>3. pc[j] \notin Ended \cup {"idle", "lock"} \cup AtRecords
    BY <1>2 DEF Ended, AtRecords
  <1>4. CASE \E at \in {"validate", "script", "track", "wipe", "check", "report", "retrack"} :
                Go(j, at) /\ UNCHANGED installLock /\ KindFits(j, at)
    <2>1. PICK at \in {"validate", "script", "track", "wipe", "check", "report", "retrack"} :
             Go(j, at) /\ UNCHANGED installLock /\ KindFits(j, at)
      BY <1>4
    <2>2. at \notin Ended \cup {"idle", "lock"} \cup AtRecords
      BY DEF Ended, AtRecords
    <2>3. Stride(j, at)
      BY <1>1, <1>3, <2>1, <2>2, FreeStrides
    <2> QED
      BY <2>3
  <1>5. CASE \E at \in Answers : End(j, at)
    <2>1. PICK at \in Answers : End(j, at)
      BY <1>5
    <2>2. Stride(j, at)
      BY <1>1, <1>3, <2>1, EndStrides
    <2> QED
      BY <2>2
  <1>6. CASE Install(j)
    <2>1. KindFits(j, "validate") /\ KindFits(j, "script")
      BY <1>job, <1>6 DEF Install, KindFits, Ended
    <2> QED
      BY <1>4, <1>6, <2>1 DEF Install
  <1>7. CASE ScriptSucceeds(j)
    <2>1. KindFits(j, "validate")
      BY <1>job, <1>7 DEF ScriptSucceeds, KindFits, Ended
    <2> QED
      BY <1>4, <1>7, <2>1 DEF ScriptSucceeds
  <1>8. CASE ScriptFails(j)
    BY <1>5, <1>8 DEF ScriptFails, Answers
  <1>9. CASE Validate(j)
    <2>1. KindFits(j, "track")
      BY <1>job, <1>9 DEF Validate, KindFits, Ended
    <2>2. (Go(j, "track") /\ UNCHANGED installLock) \/ End(j, "failed")
      BY <1>9 DEF Validate
    <2> QED
      BY <1>4, <1>5, <2>1, <2>2 DEF Answers
  <1>10. CASE UntrackInstall(j)
    <2>1. KindFits(j, "wipe") /\ KindFits(j, "check")
      BY <1>job, <1>10 DEF UntrackInstall, KindFits, Ended
    <2>2. (Go(j, "wipe") \/ Go(j, "check")) /\ UNCHANGED installLock
      BY <1>10 DEF UntrackInstall
    <2> QED
      BY <1>4, <2>1, <2>2
  <1>11. CASE CheckOwners(j) \/ CheckLive(j)
    <2>1. KindFits(j, "wipe")
      BY <1>job, <1>11 DEF CheckOwners, CheckLive, KindFits, Ended
    <2>2. (Go(j, "wipe") /\ UNCHANGED installLock) \/ End(j, "done")
      BY <1>11 DEF CheckOwners, CheckLive
    <2> QED
      BY <1>4, <1>5, <2>1, <2>2 DEF Answers
  <1>12. CASE Wipe(j) \/ WipeFails(j)
    <2>1. KindFits(j, "report") /\ KindFits(j, "retrack")
      BY <1>job, <1>12 DEF Wipe, WipeFails, KindFits, Ended
    <2>2. (Go(j, "report") \/ Go(j, "retrack")) /\ UNCHANGED installLock
      BY <1>12 DEF Wipe, WipeFails
    <2> QED
      BY <1>4, <2>1, <2>2
  <1> QED
    BY <1>6, <1>7, <1>8, <1>9, <1>10, <1>11, <1>12

LEMMA RecordStrides ==
    ASSUME LocksInv, NEW j \in Jobs,
           TrackValidates(j) \/ Records(j) \/ MarkInUse(j) \/ Report(j) \/ ClearRecords(j)
           \/ DeleteAll(j) \/ PruneSessions(j) \/ LeaveSession(j)
    PROVE  \E at : Stride(j, at)
  <1>job. KindFits(j, pc[j])
    BY DEF LocksInv, KindInv
  <1>1. UNCHANGED jobAsked
    BY DEF TrackValidates, Records, MarkInUse, Report, ClearRecords, DeleteAll, PruneSessions,
           LeaveSession, jobVars, jobAsked
  <1>2. pc[j] \in {"track", "retrack", "record", "rerecord", "mark", "report", "clear", "delete", "prune", "leave"}
    BY DEF TrackValidates, Records, MarkInUse, Report, ClearRecords, DeleteAll, PruneSessions, LeaveSession
  <1>3. pc[j] \notin Ended \cup {"idle", "lock"}
    BY <1>2 DEF Ended
  <1>4. CASE TrackValidates(j)
    <2>1. pc[j] \in {"track", "retrack"} /\ pc[j] \notin AtRecords
      BY <1>4 DEF TrackValidates, AtRecords
    <2>2. CASE End(j, "failed") /\ UNCHANGED trackerLock
      <3>1. Stride(j, "failed")
        BY <1>1, <1>3, <2>1, <2>2, EndStrides DEF Answers
      <3> QED
        BY <3>1
    <2>3. ASSUME NEW at \in {"record", "rerecord"},
                 pc[j] = (IF at = "record" THEN "track" ELSE "retrack"),
                 Go(j, at), trackerLock = Free, trackerLock' = j, UNCHANGED installLock
          PROVE  Stride(j, at)
      <3>1. KindFits(j, at)
        BY <1>job, <2>3 DEF KindFits, Ended
      <3>2. WithTrackerLock(j, at)
        BY <2>1, <2>3 DEF WithTrackerLock, AtRecords
      <3>3. at \notin Ended \cup {"idle", "lock"}
        BY DEF Ended
      <3> QED
        BY <1>1, <1>3, <2>3, <3>1, <3>2, <3>3, OnStrides
    <2>4. \/ End(j, "failed") /\ UNCHANGED trackerLock
          \/ /\ trackerLock = Free /\ trackerLock' = j /\ UNCHANGED installLock
             /\ Go(j, IF pc[j] = "track" THEN "record" ELSE "rerecord")
      BY <1>4 DEF TrackValidates
    <2> QED
      BY <2>1, <2>2, <2>3, <2>4
  <1>5. CASE Records(j)
    <2>1. PICK at \in {"done", "failed"} : End(j, at)
      BY <1>5 DEF Records
    <2>2. pc[j] \in AtRecords /\ trackerLock' = Free /\ at \in Answers
      BY <1>5 DEF Records, AtRecords, Answers
    <2>3. Stride(j, at)
      BY <1>1, <1>3, <2>1, <2>2, EndStrides
    <2> QED
      BY <2>3
  <1>6. CASE MarkInUse(j) \/ Report(j)
    <2>1. End(j, "done") /\ UNCHANGED trackerLock /\ pc[j] \notin AtRecords /\ "done" \in Answers
      BY <1>6 DEF MarkInUse, Report, AtRecords, Answers
    <2>2. Stride(j, "done")
      BY <1>1, <1>3, <2>1, EndStrides
    <2> QED
      BY <2>2
  <1>7. CASE ClearRecords(j)
    <2>1. /\ pc[j] = "clear" /\ trackerLock = Free /\ trackerLock' = j
          /\ Go(j, "delete") /\ UNCHANGED installLock
      BY <1>7 DEF ClearRecords
    <2>2. KindFits(j, "delete")
      BY <1>job, <2>1 DEF KindFits, Ended
    <2>3. WithTrackerLock(j, "delete") /\ "delete" \notin Ended \cup {"idle", "lock"}
      BY <2>1 DEF WithTrackerLock, AtRecords, Ended
    <2>4. Stride(j, "delete")
      BY <1>1, <1>3, <2>1, <2>2, <2>3, OnStrides
    <2> QED
      BY <2>4
  <1>8. CASE PruneSessions(j)
    <2>1. pc[j] = "prune" /\ Go(j, "leave") /\ UNCHANGED <<installLock, trackerLock>>
      BY <1>8 DEF PruneSessions
    <2>2. KindFits(j, "leave")
      BY <1>job, <2>1 DEF KindFits, Ended
    <2>3. "leave" \notin Ended \cup {"idle", "lock"} \cup AtRecords /\ pc[j] \notin AtRecords
      BY <2>1 DEF AtRecords, Ended
    <2>4. Stride(j, "leave")
      BY <1>1, <1>3, <2>1, <2>2, <2>3, FreeStrides
    <2> QED
      BY <2>4
  \* Neither of these has a lock of an install: they end with what they have.
  <1>9. CASE DeleteAll(j) \/ LeaveSession(j)
    <2>1. /\ Go(j, "done") /\ UNCHANGED installLock /\ pc[j] \in {"delete", "leave"}
          /\ pc[j] \in AtRecords => trackerLock' = Free
          /\ pc[j] \notin AtRecords => UNCHANGED trackerLock
      BY <1>9 DEF DeleteAll, LeaveSession, AtRecords
    <2>2. ~ Within(j, pc[j])
      BY <1>job, <2>1 DEF KindFits, Within, LockKinds, UninstallKinds
    <2>3. \A i \in Local : installLock[i] # j
      BY <2>2, JobsAssumption DEF LocksInv
    <2>4. End(j, "done")
      BY <2>1, <2>3 DEF End, LocksInv
    <2>5. Stride(j, "done")
      BY <1>1, <1>3, <2>1, <2>4, EndStrides DEF Answers
    <2> QED
      BY <2>5
  <1> QED
    BY <1>4, <1>5, <1>6, <1>7, <1>8, <1>9

LEMMA Strides ==
    ASSUME LocksInv, NEW j \in Jobs, Step(j) \/ LockTimesOut(j)
    PROVE  \E at : Stride(j, at)
  BY TakingStrides, InstallStrides, RecordStrides DEF Step, LocksInv

LEMMA StrideKeepsLocks ==
    ASSUME LocksInv, NEW j \in Jobs, NEW at, Stride(j, at)
    PROVE  LocksInv'
  <1>1. /\ KindInv' /\ pc'[j] = at /\ kind'[j] = kind[j] /\ inst'[j] = inst[j]
        /\ \A k \in Jobs \ {j} : pc'[k] = pc[k] /\ kind'[k] = kind[k] /\ inst'[k] = inst[k]
    BY KindGoes DEF Stride, LocksInv, KindInv, Go, jobAsked
  <1>2. (\A k \in Jobs \ {j} : Within(k, pc[k])' <=> Within(k, pc[k])) /\ (Within(j, pc[j])' <=> Within(j, at))
    BY <1>1 DEF Within
  <1>3. Within(j, at) => inst[j] \in Local
    BY DEF Stride, KindFits, Within
  <1>4. /\ installLock' = [i \in Local |-> installLock'[i]]
        /\ \A k \in Jobs : Within(k, pc[k])' => installLock'[inst'[k]] = k
        /\ \A i \in Local : installLock'[i] # Free =>
             \E k \in Jobs : installLock'[i] = k /\ inst'[k] = i /\ Within(k, pc[k])'
    <2>0. WithInstallLock(j, at)
      BY DEF Stride
    <2>1. CASE /\ pc[j] = "lock" /\ Within(j, at) /\ installLock[inst[j]] = Free
               /\ installLock' = [installLock EXCEPT ![inst[j]] = j]
      <3>1. \A i \in Local : installLock'[i] = IF i = inst[j] THEN j ELSE installLock[i]
        BY <2>1 DEF LocksInv
      <3>2. \A k \in Jobs \ {j} : Within(k, pc[k]) => inst[k] # inst[j] /\ inst[k] \in Local
        BY <2>1, JobsAssumption DEF LocksInv, KindInv, KindFits, Within
      <3>3. ~ Within(j, pc[j])
        BY <2>1 DEF Within
      <3>4. \A i \in Local : i # inst[j] /\ installLock[i] # Free =>
              \E k \in Jobs \ {j} : installLock[i] = k /\ inst[k] = i /\ Within(k, pc[k])
        BY <3>3 DEF LocksInv
      <3> QED
        BY <1>1, <1>2, <1>3, <2>1, <3>1, <3>2, <3>4 DEF LocksInv
    <2>2. CASE (Within(j, at) <=> Within(j, pc[j])) /\ UNCHANGED installLock
      BY <1>1, <1>2, <2>2 DEF LocksInv
    <2>3. CASE /\ at \in Answers
               /\ installLock' = [i \in Local |-> IF installLock[i] = j THEN Free ELSE installLock[i]]
      <3>1. ~ Within(j, at)
        BY <2>3 DEF Within, Ended, Answers
      <3>2. \A k \in Jobs \ {j} : Within(k, pc[k]) => inst[k] \in Local /\ installLock[inst[k]] # j
        BY DEF LocksInv, KindInv, KindFits, Within
      <3>3. \A i \in Local : installLock'[i] # Free =>
              \E k \in Jobs \ {j} : installLock[i] = k /\ inst[k] = i /\ Within(k, pc[k])
        BY <2>3 DEF LocksInv
      <3> QED
        BY <1>1, <1>2, <2>3, <3>1, <3>2, <3>3 DEF LocksInv
    <2> QED
      BY <2>0, <2>1, <2>2, <2>3 DEF WithInstallLock
  <1>5. /\ \A k \in Jobs : pc'[k] \in AtRecords => trackerLock' = k
        /\ trackerLock' # Free => trackerLock' \in Jobs /\ pc'[trackerLock'] \in AtRecords
    <2>0. WithTrackerLock(j, at)
      BY DEF Stride
    <2>1. CASE pc[j] \notin AtRecords /\ at \notin AtRecords /\ UNCHANGED trackerLock
      BY <1>1, <2>1 DEF LocksInv
    <2>2. CASE pc[j] \notin AtRecords /\ at \in AtRecords /\ trackerLock = Free /\ trackerLock' = j
      BY <1>1, <2>2, JobsAssumption DEF LocksInv
    <2>3. CASE pc[j] \in AtRecords /\ at \notin AtRecords /\ trackerLock' = Free
      BY <1>1, <2>3 DEF LocksInv
    <2> QED
      BY <2>0, <2>1, <2>2, <2>3 DEF WithTrackerLock
  <1> QED
    BY <1>1, <1>4, <1>5 DEF LocksInv

LEMMA StartKeepsLocks ==
    ASSUME LocksInv, NEW j \in Jobs, NEW k \in Kinds, NEW e \in Exts, NEW i \in Local, Start(j, k, e, i)
    PROVE  /\ LocksInv'
           /\ pc[j] = "idle" /\ pc'[j] \notin Ended \cup AtRecords /\ ~ Within(j, pc[j])'
           /\ \A o \in Jobs \ {j} : pc'[o] = pc[o] /\ kind'[o] = kind[o] /\ inst'[o] = inst[o]
  <1>1. /\ UNCHANGED <<installLock, trackerLock>> /\ pc[j] = "idle"
        /\ \A other \in Jobs \ {j} :
             /\ pc'[other] = pc[other] /\ kind'[other] = kind[other]
             /\ ext'[other] = ext[other] /\ inst'[other] = inst[other]
        /\ pc'[j] = FirstStage(k) /\ kind'[j] = k /\ ext'[j] = e /\ inst'[j] = i
        /\ pc' = [o \in Jobs |-> pc'[o]] /\ kind' = [o \in Jobs |-> kind'[o]]
        /\ ext' = [o \in Jobs |-> ext'[o]] /\ inst' = [o \in Jobs |-> inst'[o]]
    BY DEF Start, Go, LocksInv, KindInv
  <1>2. k \in AllKinds
    BY JobsAssumption
  <1>3. /\ KindFits(j, pc[j])' /\ pc'[j] \notin Ended \cup AtRecords
        /\ k \in LockKinds => pc'[j] = "lock"
    BY <1>1, <1>2 DEF KindFits, FirstStage, AllKinds, LockKinds, UninstallKinds, Ended, AtRecords
  <1>4. \A other \in Jobs \ {j} : KindFits(other, pc[other])' /\ (Within(other, pc[other])' <=> Within(other, pc[other]))
    BY <1>1 DEF LocksInv, KindInv, KindFits, Within
  <1>5. ~ Within(j, pc[j])' /\ ~ Within(j, pc[j]) /\ pc[j] \notin AtRecords
    BY <1>1, <1>3 DEF Within, AtRecords
  <1> QED
    BY <1>1, <1>3, <1>4, <1>5 DEF LocksInv, KindInv

LEMMA CrashKeepsLocks ==
    ASSUME LocksInv, NEW s \in Sessions, Crash(s)
    PROVE  /\ LocksInv'
           /\ UNCHANGED <<kind, inst>>
           /\ \A j \in Jobs : pc'[j] = "dead" \/ (pc'[j] = pc[j] /\ (SessionOf[j] # s \/ pc[j] \in Ended))
  <1>1. /\ UNCHANGED <<kind, ext, inst>>
        /\ \A j \in Jobs : pc'[j] = "dead" \/ (pc'[j] = pc[j] /\ (SessionOf[j] # s \/ pc[j] \in Ended))
        /\ \A j \in Jobs : SessionOf[j] # s => pc'[j] = pc[j]
        /\ pc' = [j \in Jobs |-> pc'[j]]
    BY DEF Crash, jobVars
  <1>2. KindInv'
    BY <1>1 DEF LocksInv, KindInv, KindFits, Ended
  <1>3. \A j \in Jobs : Within(j, pc[j])' => Within(j, pc[j]) /\ SessionOf[j] # s /\ inst[j] \in Local
    BY <1>1 DEF Within, Ended, LocksInv, KindInv, KindFits
  <1>4. \A j \in Jobs : SessionOf[j] # s /\ Within(j, pc[j]) => Within(j, pc[j])'
    BY <1>1 DEF Within
  <1>5. /\ installLock' = [i \in Local |-> installLock'[i]]
        /\ \A j \in Jobs : Within(j, pc[j])' => installLock'[inst'[j]] = j
        /\ \A i \in Local : installLock'[i] # Free =>
             \E j \in Jobs : installLock'[i] = j /\ inst'[j] = i /\ Within(j, pc[j])'
    <2>1. installLock' = [i \in Local |->
            IF \E j \in Jobs : SessionOf[j] = s /\ installLock[i] = j THEN Free ELSE installLock[i]]
      BY DEF Crash
    <2>2. \A j \in Jobs : Within(j, pc[j])' => installLock[inst[j]] = j
      BY <1>3 DEF LocksInv
    <2>3. ASSUME NEW i \in Local, installLock'[i] # Free
          PROVE  \E j \in Jobs : installLock'[i] = j /\ inst'[j] = i /\ Within(j, pc[j])'
      <3>1. installLock'[i] = installLock[i] /\ installLock[i] # Free
        BY <2>1, <2>3
      <3>2. PICK j \in Jobs : installLock[i] = j /\ inst[j] = i /\ Within(j, pc[j])
        BY <3>1 DEF LocksInv
      <3>3. SessionOf[j] # s
        BY <2>1, <2>3, <3>2
      <3> QED
        BY <1>1, <1>4, <3>1, <3>2, <3>3
    <2> QED
      BY <1>1, <1>3, <2>1, <2>2, <2>3
  <1>6. /\ \A j \in Jobs : pc'[j] \in AtRecords => trackerLock' = j
        /\ trackerLock' # Free => trackerLock' \in Jobs /\ pc'[trackerLock'] \in AtRecords
    <2>1. \A j \in Jobs : pc'[j] \in AtRecords => pc[j] \in AtRecords /\ SessionOf[j] # s
      BY <1>1 DEF AtRecords, Ended
    <2>2. trackerLock' = IF \E j \in Jobs : SessionOf[j] = s /\ trackerLock = j THEN Free ELSE trackerLock
      BY DEF Crash
    <2> QED
      BY <1>1, <2>1, <2>2 DEF LocksInv
  <1> QED
    BY <1>1, <1>2, <1>5, <1>6 DEF LocksInv

LEMMA LocksStart == Init => LocksInv
  BY DEF Init, LocksInv, KindInv, KindFits, Within, AtRecords

LEMMA LocksStill ==
    ASSUME LocksInv, (UNCHANGED vars) \/ (\E s \in Sessions : MutexAcquired(s))
    PROVE  LocksInv' /\ UNCHANGED <<pc, kind, inst>>
  <1>1. UNCHANGED <<pc, kind, ext, inst, installLock, trackerLock>>
    BY DEF MutexAcquired, vars, jobVars
  <1> QED
    BY <1>1 DEF LocksInv, KindInv, KindFits, Within

LEMMA LocksStep == LocksInv /\ [Next]_vars => LocksInv'
  BY Strides, StrideKeepsLocks, StartKeepsLocks, CrashKeepsLocks, LocksStill DEF Next

-----------------------------------------------------------------------------
\* What a command is to the lock of install i: a call for it, if it gets to it at all.
AtInstall(i) == [j \in Jobs |->
    IF pc[j] = "dead" THEN "dead"
    ELSE IF pc[j] \in Ended THEN "finished"
    ELSE IF Within(j, pc[j]) /\ inst[j] = i THEN "holding" ELSE "waiting"]

\* ... and to the tracker's, between the validation and the record, or while it deletes.
AtTracker == [j \in Jobs |->
    IF pc[j] = "dead" THEN "dead"
    ELSE IF pc[j] \in Ended THEN "finished"
    ELSE IF pc[j] \in AtRecords THEN "holding" ELSE "waiting"]

InstallMutex(i) == INSTANCE Mutex WITH Calls <- Jobs, stage <- AtInstall(i)
TrackerMutex == INSTANCE Mutex WITH Calls <- Jobs, stage <- AtTracker

LEMMA StrideAtInstall ==
    ASSUME LocksInv, NEW j \in Jobs, NEW at, Stride(j, at), NEW i \in Local
    PROVE  InstallMutex(i)!Next \/ UNCHANGED AtInstall(i)
  <1>1. /\ pc' = [pc EXCEPT ![j] = at] /\ pc'[j] = at /\ kind' = kind /\ inst' = inst
        /\ \A k \in Jobs \ {j} : pc'[k] = pc[k]
        /\ pc[j] \notin Ended \cup {"idle"} /\ at # "dead" /\ "dead" \in Ended
    BY DEF Stride, LocksInv, KindInv, Go, jobAsked, Ended
  <1> DEFINE next == IF at \in Ended THEN "finished"
                     ELSE IF Within(j, at) /\ inst[j] = i THEN "holding" ELSE "waiting"
  <1>2. AtInstall(i)' = [AtInstall(i) EXCEPT ![j] = next]
    <2>1. \A k \in Jobs \ {j} : AtInstall(i)'[k] = AtInstall(i)[k]
      BY <1>1 DEF AtInstall, Within
    <2>2. AtInstall(i)'[j] = next
      BY <1>1 DEF AtInstall, Within
    <2> QED
      BY <2>1, <2>2 DEF AtInstall
  <1>3. AtInstall(i)[j] = IF Within(j, pc[j]) /\ inst[j] = i THEN "holding" ELSE "waiting"
    BY <1>1 DEF AtInstall
  <1>0. WithInstallLock(j, at)
    BY DEF Stride
  <1>4. CASE pc[j] = "lock" /\ Within(j, at) /\ installLock[inst[j]] = Free /\ inst[j] = i
    <2>1. AtInstall(i)[j] = "waiting" /\ next = "holding"
      BY <1>3, <1>4 DEF Within
    <2>2. \A k \in Jobs : AtInstall(i)[k] # "holding"
      BY <1>4, JobsAssumption DEF AtInstall, LocksInv
    <2>3. InstallMutex(i)!Enter(j)
      BY <1>2, <2>1, <2>2 DEF InstallMutex!Enter
    <2> QED
      BY <2>3 DEF InstallMutex!Next
  <1>5. CASE at \notin Ended /\ (Within(j, at) /\ inst[j] = i <=> Within(j, pc[j]) /\ inst[j] = i)
    <2>1. next = AtInstall(i)[j]
      BY <1>3, <1>5
    <2> QED
      BY <1>2, <2>1 DEF AtInstall
  <1>6. CASE at \in Ended
    <2>1. CASE AtInstall(i)[j] = "holding"
      <3>1. InstallMutex(i)!Leave(j, "finished")
        BY <1>2, <1>6, <2>1 DEF InstallMutex!Leave
      <3> QED
        BY <3>1 DEF InstallMutex!Next
    <2>2. CASE AtInstall(i)[j] = "waiting"
      <3>1. InstallMutex(i)!GiveUp(j)
        BY <1>2, <1>6, <2>2 DEF InstallMutex!GiveUp
      <3> QED
        BY <3>1 DEF InstallMutex!Next
    <2> QED
      BY <1>3, <2>1, <2>2
  <1>7. pc[j] = "lock" => ~ Within(j, pc[j])
    BY DEF Within
  <1> QED
    BY <1>0, <1>4, <1>5, <1>6, <1>7 DEF WithInstallLock, Answers, Ended

LEMMA StrideAtTracker ==
    ASSUME LocksInv, NEW j \in Jobs, NEW at, Stride(j, at)
    PROVE  TrackerMutex!Next \/ UNCHANGED AtTracker
  <1>1. /\ pc' = [pc EXCEPT ![j] = at] /\ pc'[j] = at
        /\ \A k \in Jobs \ {j} : pc'[k] = pc[k]
        /\ pc[j] \notin Ended \cup {"idle"} /\ at # "dead" /\ "dead" \in Ended
    BY DEF Stride, LocksInv, KindInv, Go, Ended
  <1> DEFINE next == IF at \in Ended THEN "finished"
                     ELSE IF at \in AtRecords THEN "holding" ELSE "waiting"
  <1>2. AtTracker' = [AtTracker EXCEPT ![j] = next]
    <2>1. \A k \in Jobs \ {j} : AtTracker'[k] = AtTracker[k]
      BY <1>1 DEF AtTracker
    <2>2. AtTracker'[j] = next
      BY <1>1 DEF AtTracker
    <2> QED
      BY <2>1, <2>2 DEF AtTracker
  <1>3. AtTracker[j] = IF pc[j] \in AtRecords THEN "holding" ELSE "waiting"
    BY <1>1 DEF AtTracker
  <1>4. CASE pc[j] \notin AtRecords /\ at \in AtRecords /\ trackerLock = Free
    <2>1. AtTracker[j] = "waiting" /\ next = "holding"
      BY <1>3, <1>4 DEF AtRecords, Ended
    <2>2. \A k \in Jobs : AtTracker[k] # "holding"
      BY <1>4, JobsAssumption DEF AtTracker, LocksInv
    <2>3. TrackerMutex!Enter(j)
      BY <1>2, <2>1, <2>2 DEF TrackerMutex!Enter
    <2> QED
      BY <2>3 DEF TrackerMutex!Next
  <1>5. CASE pc[j] \in AtRecords /\ at \notin AtRecords
    <2>1. next \in {"waiting", "finished"}
      BY <1>5
    <2>2. TrackerMutex!Leave(j, next)
      BY <1>2, <1>3, <1>5 DEF TrackerMutex!Leave
    <2> QED
      BY <2>1, <2>2 DEF TrackerMutex!Next
  <1>6. CASE pc[j] \notin AtRecords /\ at \notin AtRecords
    <2>1. CASE at \in Ended
      <3>1. TrackerMutex!GiveUp(j)
        BY <1>2, <1>3, <1>6, <2>1 DEF TrackerMutex!GiveUp
      <3> QED
        BY <3>1 DEF TrackerMutex!Next
    <2>2. CASE at \notin Ended
      BY <1>2, <1>3, <1>6, <2>2 DEF AtTracker
    <2> QED
      BY <2>1, <2>2
  <1> QED
    BY <1>4, <1>5, <1>6 DEF Stride, WithTrackerLock

LEMMA MutexesStep ==
    ASSUME LocksInv, [Next]_vars, NEW i \in Local
    PROVE  [InstallMutex(i)!Next]_(AtInstall(i)) /\ [TrackerMutex!Next]_AtTracker
  <1>1. ASSUME NEW j \in Jobs, LockTimesOut(j) \/ Step(j)
        PROVE  [InstallMutex(i)!Next]_(AtInstall(i)) /\ [TrackerMutex!Next]_AtTracker
    BY <1>1, Strides, StrideAtInstall, StrideAtTracker
  <1>2. ASSUME NEW j \in Jobs, NEW k \in Kinds, NEW e \in Exts, NEW m \in Local, Start(j, k, e, m)
        PROVE  UNCHANGED AtInstall(i) /\ UNCHANGED AtTracker
    <2>1. /\ pc[j] = "idle" /\ pc'[j] \notin Ended \cup AtRecords /\ ~ Within(j, pc[j])'
          /\ \A o \in Jobs \ {j} : pc'[o] = pc[o] /\ kind'[o] = kind[o] /\ inst'[o] = inst[o]
      BY <1>2, StartKeepsLocks
    <2>2. "idle" \notin Ended \cup AtRecords /\ "dead" \in Ended /\ ~ Within(j, "idle")
      BY DEF Ended, AtRecords, Within
    <2>3. \A o \in Jobs : AtInstall(i)'[o] = AtInstall(i)[o] /\ AtTracker'[o] = AtTracker[o]
      BY <2>1, <2>2 DEF AtInstall, AtTracker, Within
    <2> QED
      BY <2>3 DEF AtInstall, AtTracker
  <1>3. ASSUME NEW s \in Sessions, Crash(s)
        PROVE  InstallMutex(i)!Next /\ TrackerMutex!Next
    <2> DEFINE S == {j \in Jobs : pc'[j] = "dead"}
    <2>1. /\ UNCHANGED <<kind, inst>>
          /\ \A j \in Jobs : pc'[j] = "dead" \/ pc'[j] = pc[j]
      BY <1>3, CrashKeepsLocks
    <2>2. AtInstall(i)' = [j \in Jobs |-> IF j \in S THEN "dead" ELSE AtInstall(i)[j]]
      BY <2>1 DEF AtInstall, Within
    <2>3. AtTracker' = [j \in Jobs |-> IF j \in S THEN "dead" ELSE AtTracker[j]]
      BY <2>1 DEF AtTracker
    <2>4. S \in SUBSET Jobs
      OBVIOUS
    <2> QED
      BY <2>2, <2>3, <2>4 DEF InstallMutex!Next, InstallMutex!Die, TrackerMutex!Next, TrackerMutex!Die
  <1>4. CASE (UNCHANGED vars) \/ (\E s \in Sessions : MutexAcquired(s))
    BY <1>4, LocksStill DEF AtInstall, AtTracker, Within
  <1> QED
    BY <1>1, <1>2, <1>3, <1>4 DEF Next

\* The commands that take the lock of an install (executeWithLock on the install id) use
\* it as the abstract mutex promises: of all commands on that install, in any process,
\* at most one is between its first and its last step under the lock; errors, timeouts and
\* deaths on the way give it back.  The same goes for the 'installed' lock.
THEOREM LocksAreMutexes ==
    ASSUME NEW i \in Local
    PROVE  Spec => InstallMutex(i)!Spec /\ TrackerMutex!Spec
  <1>1. Init => LocksInv /\ InstallMutex(i)!Init /\ TrackerMutex!Init
    BY LocksStart DEF Init, InstallMutex!Init, TrackerMutex!Init, AtInstall, AtTracker, Ended, Within, AtRecords
  <1>2. LocksInv /\ [Next]_vars => LocksInv'
    BY LocksStep
  <1>3. LocksInv /\ [Next]_vars => [InstallMutex(i)!Next]_(AtInstall(i)) /\ [TrackerMutex!Next]_AtTracker
    BY MutexesStep
  <1> QED
    BY <1>1, <1>2, <1>3, PTL DEF Spec, InstallMutex!Spec, TrackerMutex!Spec

-----------------------------------------------------------------------------
\* Of the commands that are not answered one can go on without a lock's timing out, in any
\* number of processes: whoever has the tracker's lock waits for nothing, and whoever has
\* the lock of an install waits at most for the tracker's.  That whoever waits for no lock
\* has a step is a question to one command, which TLC answers.
THEOREM LocksAreFreed == Spec => []SomebodyUnblocked /\ ([]UnblockedCanStep => []NoDeadlock)
  <1>1. LocksInv => SomebodyUnblocked
    <2> SUFFICES ASSUME LocksInv, NEW j \in Jobs, Unanswered(j)
                 PROVE  \E k \in Jobs : Unanswered(k) /\ ~ Blocked(k)
      BY DEF SomebodyUnblocked
    <2>1. CASE trackerLock # Free
      <3>1. trackerLock \in Jobs /\ pc[trackerLock] \in AtRecords
        BY <2>1 DEF LocksInv
      <3> QED
        BY <3>1 DEF AtRecords, Unanswered, Blocked, Ended
    <2>2. CASE trackerLock = Free /\ Blocked(j)
      <3>1. pc[j] = "lock" /\ installLock[inst[j]] # Free
        BY <2>2 DEF Blocked
      <3>2. inst[j] \in Local
        BY <3>1 DEF LocksInv, KindInv, KindFits, Ended
      <3>3. PICK k \in Jobs : Within(k, pc[k])
        BY <3>1, <3>2 DEF LocksInv
      <3> QED
        BY <2>2, <3>3 DEF Within, Unanswered, Blocked
    <2> QED
      BY <2>1, <2>2
  <1>2. SomebodyUnblocked /\ UnblockedCanStep => NoDeadlock
    BY DEF NoDeadlock
  <1> QED
    BY <1>1, <1>2, LocksStart, LocksStep, PTL DEF Spec

-----------------------------------------------------------------------------
(***************************************************************************)
(* The owners an uninstall drops                                           *)
(***************************************************************************)

\* An uninstall that goes by the reference count and has found nobody else among the
\* owners still finds nobody else.
CountStands(j) ==
    pc[j] \in {"wipe", "report"} /\ kind[j] = "uninstall" => owners[inst[j]] \subseteq {ext[j]}

\* No command looks for installs without their lock.
NobodyAdopts == \A j \in Jobs : kind[j] \notin {"status", "similar"}

OwnerInv == TypeOK /\ LocksInv /\ NobodyAdopts /\ \A j \in Jobs : CountStands(j)

\* What a step of a command may add to the owners.
LEMMA OwnersShrink ==
    ASSUME OwnerInv, NEW j \in Jobs, Step(j) \/ LockTimesOut(j), NEW i \in Installs
    PROVE  \/ owners'[i] \subseteq owners[i]
           \/ Records(j) /\ inst[j] = i
  <1> USE DEF OwnerInv, TypeOK, TrackerTypeOK
  <1>1. CASE Records(j)
    BY <1>1 DEF Records, Track
  <1>2. CASE Forget(j) \/ Report(j)
    BY <1>2 DEF Forget, Report, DropRecord
  <1>3. CASE UntrackInstall(j)
    BY <1>3 DEF UntrackInstall, Untrack, DropRecord
  <1>4. CASE ClearRecords(j)
    BY <1>4 DEF ClearRecords, DropAllRecords
  <1>5. CASE \/ TakeInstallLock(j) \/ Read(j) \/ Exists(j) \/ Verify(j) \/ Vanished(j)
             \/ Install(j) \/ ScriptSucceeds(j) \/ ScriptFails(j) \/ Validate(j) \/ TrackValidates(j)
             \/ MarkInUse(j) \/ CheckOwners(j) \/ CheckLive(j) \/ Wipe(j) \/ WipeFails(j) \/ DeleteAll(j)
             \/ PruneSessions(j) \/ LeaveSession(j) \/ LockTimesOut(j)
    <2>1. UNCHANGED owners
      BY <1>5 DEF TakeInstallLock, Read, Exists, Verify, Vanished, Install, ScriptSucceeds, ScriptFails,
                  Validate, TrackValidates, MarkInUse, CheckOwners, CheckLive, Wipe, WipeFails, DeleteAll,
                  PruneSessions, LeaveSession, LockTimesOut, trackerVars
    <2> QED
      BY <2>1
  <1> QED
    BY <1>1, <1>2, <1>3, <1>4, <1>5 DEF Step

\* The count of the others stands: who records an install has its lock.
LEMMA OthersCountStands ==
    ASSUME OwnerInv, NEW j \in Jobs, Step(j) \/ LockTimesOut(j), NEW k \in Jobs, k # j,
           pc'[k] = pc[k], kind'[k] = kind[k], ext'[k] = ext[k], inst'[k] = inst[k]
    PROVE  CountStands(k)'
  <1> SUFFICES ASSUME pc[k] \in {"wipe", "report"}, kind[k] = "uninstall"
               PROVE  owners'[inst[k]] \subseteq {ext[k]}
    BY DEF CountStands
  <1>1. owners[inst[k]] \subseteq {ext[k]} /\ inst[k] \in Local /\ inst[k] \in Installs
    BY TrackerAssumption DEF OwnerInv, CountStands, TypeOK
  <1>2. Within(k, pc[k]) /\ installLock[inst[k]] = k
    BY DEF Within, LockKinds, UninstallKinds, Ended, OwnerInv, LocksInv
  <1>3. ASSUME Records(j), inst[j] = inst[k] PROVE FALSE
    <2>1. pc[j] \in {"record", "rerecord"} /\ KindFits(j, pc[j]) /\ kind[j] \notin {"status", "similar"}
      BY <1>3 DEF Records, OwnerInv, LocksInv, KindInv, NobodyAdopts
    <2>2. Within(j, pc[j])
      BY <2>1 DEF KindFits, Within, LockKinds, Ended
    <2> QED
      BY <1>2, <1>3, <2>2 DEF OwnerInv, LocksInv
  <1>4. owners'[inst[k]] \subseteq owners[inst[k]]
    BY <1>1, <1>3, OwnersShrink
  <1> QED
    BY <1>1, <1>4

\* One's own count stands from the moment it was made.
LEMMA OwnCountStands ==
    ASSUME OwnerInv, NEW j \in Jobs, Step(j) \/ LockTimesOut(j)
    PROVE  CountStands(j)'
  <1>0. PICK at : Stride(j, at)
    BY Strides DEF OwnerInv
  <1>1. pc'[j] = at /\ kind'[j] = kind[j] /\ ext'[j] = ext[j] /\ inst'[j] = inst[j] /\ inst[j] \in Installs
    BY <1>0, TrackerAssumption DEF Stride, Go, jobAsked, OwnerInv, TypeOK
  <1> SUFFICES ASSUME at \in {"wipe", "report"}, kind[j] = "uninstall"
               PROVE  owners'[inst[j]] \subseteq {ext[j]}
    BY <1>1 DEF CountStands
  <1>2. CheckOwners(j) \/ Wipe(j) \/ UntrackInstall(j) \/ CheckLive(j)
    BY <1>1 DEF Step, TakeInstallLock, Read, Exists, Verify, Vanished, Forget, Install, ScriptSucceeds,
       ScriptFails, Validate, TrackValidates, Records, MarkInUse, WipeFails, Report, ClearRecords,
       DeleteAll, PruneSessions, LeaveSession, LockTimesOut, NotThere, End, Go, OwnerInv, TypeOK
  <1>3. CASE CheckOwners(j)
    <2>1. NoRegisteredDependents(inst[j], ext[j])
      BY <1>1, <1>3 DEF CheckOwners, End, Go, OwnerInv, TypeOK
    <2>2. owners[inst[j]] \subseteq {ext[j]}
      BY <1>1, <2>1 DEF NoRegisteredDependents, OwnerInv, TypeOK, TrackerTypeOK
    <2> QED
      BY <1>3, <2>2 DEF CheckOwners, trackerVars
  <1>4. CASE Wipe(j)
    <2>1. owners[inst[j]] \subseteq {ext[j]}
      BY <1>4 DEF Wipe, OwnerInv, CountStands
    <2> QED
      BY <1>4, <2>1 DEF Wipe, trackerVars
  <1>5. CASE UntrackInstall(j)
    BY <1>1, <1>5 DEF UntrackInstall, Go, OwnerInv, TypeOK
  <1>6. CASE CheckLive(j)
    BY <1>6 DEF CheckLive
  <1> QED
    BY <1>2, <1>3, <1>4, <1>5, <1>6

LEMMA OwnerStep ==
    Kinds \cap {"status", "similar"} = {} /\ OwnerInv /\ [Next]_vars => OwnerInv'
  <1> SUFFICES ASSUME Kinds \cap {"status", "similar"} = {}, OwnerInv, [Next]_vars PROVE OwnerInv'
    OBVIOUS
  <1>1. TypeOK'
    BY TypeOfStart, TypeOfStep, TypeOfSession, TypeOfNothing, JobsAssumption DEF OwnerInv, Next
  <1>2. LocksInv'
    BY LocksStep DEF OwnerInv
  <1> SUFFICES NobodyAdopts' /\ \A j \in Jobs : CountStands(j)'
    BY <1>1, <1>2 DEF OwnerInv
  <1>3. ASSUME NEW j \in Jobs, LockTimesOut(j) \/ Step(j)
        PROVE  NobodyAdopts' /\ \A k \in Jobs : CountStands(k)'
    <2>0. PICK at : Stride(j, at)
      BY <1>3, Strides DEF OwnerInv
    <2>1. /\ UNCHANGED <<kind, ext, inst>>
          /\ \A k \in Jobs \ {j} : pc'[k] = pc[k]
      BY <2>0 DEF Stride, Go, jobAsked, OwnerInv, TypeOK
    <2>2. \A k \in Jobs \ {j} : CountStands(k)'
      BY <1>3, <2>1, OthersCountStands
    <2>3. CountStands(j)'
      BY <1>3, OwnCountStands
    <2> QED
      BY <2>1, <2>2, <2>3 DEF OwnerInv, NobodyAdopts
  <1>4. ASSUME NEW j \in Jobs, NEW k \in Kinds, NEW e \in Exts, NEW i \in Local, Start(j, k, e, i)
        PROVE  NobodyAdopts' /\ \A o \in Jobs : CountStands(o)'
    <2>1. /\ UNCHANGED owners
          /\ \A o \in Jobs \ {j} : pc'[o] = pc[o] /\ kind'[o] = kind[o] /\ ext'[o] = ext[o] /\ inst'[o] = inst[o]
          /\ kind'[j] = k /\ pc'[j] = FirstStage(k)
      BY <1>4 DEF Start, Go, trackerVars, OwnerInv, TypeOK
    <2>2. k \notin {"status", "similar"} /\ k \in AllKinds
      BY JobsAssumption
    <2>3. pc'[j] \notin {"wipe", "report"}
      BY <2>1, <2>2 DEF FirstStage, AllKinds
    <2> QED
      BY <2>1, <2>2, <2>3 DEF OwnerInv, NobodyAdopts, CountStands
  <1>5. ASSUME NEW s \in Sessions, Crash(s) PROVE NobodyAdopts' /\ \A o \in Jobs : CountStands(o)'
    <2>1. UNCHANGED <<owners, kind, ext, inst>> /\ \A o \in Jobs : pc'[o] = "dead" \/ pc'[o] = pc[o]
      BY <1>5 DEF Crash, jobVars
    <2> QED
      BY <2>1 DEF OwnerInv, NobodyAdopts, CountStands
  <1>6. ASSUME NEW s \in Sessions, MutexAcquired(s) PROVE NobodyAdopts' /\ \A o \in Jobs : CountStands(o)'
    BY <1>6 DEF MutexAcquired, SessionUp, jobVars, OwnerInv, NobodyAdopts, CountStands
  <1>7. CASE UNCHANGED vars
    BY <1>7 DEF vars, trackerVars, jobVars, OwnerInv, NobodyAdopts, CountStands
  <1> QED
    BY <1>3, <1>4, <1>5, <1>6, <1>7 DEF Next

\* An uninstall that is not forced drops a record only when nobody else owns the install,
\* as long as no command looks for installs without their lock: acquireStatus and
\* getSimilarExistingInstall, which record the caller as an owner, are all that can come
\* between the count and the report (reportSuccessfulUninstallHelper).
THEOREM DropsWithoutAdoption ==
    ASSUME Local # {}, Kinds \cap {"status", "similar"} = {}
    PROVE  Spec => NoOwnerDropped
  <1>1. Init => OwnerInv
    BY TypesAtFirst, LocksStart DEF Init, OwnerInv, NobodyAdopts, CountStands
  <1>2. OwnerInv /\ [Next]_vars => OwnerInv'
    BY OwnerStep
  <1>3. OwnerInv => DropsOwnRecordOnly
    BY DEF OwnerInv, CountStands, DropsOwnRecordOnly
  <1> QED
    BY <1>1, <1>2, <1>3, PTL DEF Spec, NoOwnerDropped

-----------------------------------------------------------------------------
\* What a live session has in use is owned by an extension, besides the automatic update.
MarkedIsOwned == \A s \in Sessions : \A i \in marks[s] :
    session[s] = "up" => i \in recorded /\ \E e \in owners[i] : e # Lib

\* Lib asks for updates only, and for all of them.
AskedInv ==
    /\ kind = [j \in Jobs |-> kind[j]] /\ ext = [j \in Jobs |-> ext[j]]
    /\ pc = [j \in Jobs |-> pc[j]]
    /\ \A j \in Jobs : pc[j] \notin {"idle", "dead"} => (kind[j] = "update" <=> ext[j] = Lib)

LEMMA AskedInvStep == LocksInv /\ AskedInv /\ [Next]_vars => AskedInv'
  <1> SUFFICES ASSUME LocksInv, AskedInv, [Next]_vars PROVE AskedInv'
    OBVIOUS
  <1>1. ASSUME NEW j \in Jobs, LockTimesOut(j) \/ Step(j) PROVE AskedInv'
    <2>1. PICK at : Stride(j, at)
      BY <1>1, Strides
    <2>2. pc[j] \notin {"idle", "dead"} /\ pc' = [pc EXCEPT ![j] = at] /\ kind' = kind /\ ext' = ext
      BY <2>1 DEF Stride, Go, jobAsked, Ended
    <2> QED
      BY <2>2 DEF AskedInv
  <1>2. ASSUME NEW j \in Jobs, NEW k \in Kinds, NEW e \in Exts, NEW i \in Local, Asked(k, e),
               Start(j, k, e, i)
        PROVE  AskedInv'
    BY <1>2 DEF Start, Go, Asked, AskedInv
  <1>3. ASSUME NEW s \in Sessions, Crash(s) PROVE AskedInv'
    BY <1>3 DEF Crash, jobVars, AskedInv, Ended
  <1>4. ASSUME NEW s \in Sessions, MutexAcquired(s) PROVE AskedInv'
    BY <1>4 DEF MutexAcquired, jobVars, AskedInv
  <1>5. CASE UNCHANGED vars
    BY <1>5 DEF vars, jobVars, AskedInv
  <1> QED
    BY <1>1, <1>2, <1>3, <1>4, <1>5 DEF Next

\* An update deletes an install that a live session has in use only where the install has
\* no other owner left: installHasNoLiveDependentsBesidesId then answers without a look at
\* the sessions.  As long as what is in use is owned, nothing in use is deleted.
THEOREM SparedWhileOwned == Spec /\ []MarkedIsOwned => UpdateSparesMarked
  <1>1. Init => LocksInv /\ AskedInv
    BY LocksStart DEF Init, AskedInv
  <1>2. LocksInv /\ AskedInv /\ [Next]_vars => LocksInv' /\ AskedInv'
    BY LocksStep, AskedInvStep
  <1>3. LocksInv /\ AskedInv /\ MarkedIsOwned /\ [Next]_vars => [SparesMarked]_vars
    <2> SUFFICES ASSUME LocksInv, AskedInv, MarkedIsOwned, Next,
                        NEW j \in Jobs, pc[j] = "check", kind[j] = "update", pc'[j] = "wipe",
                        NEW s \in Sessions, session[s] = "up", inst[j] \in marks[s]
                 PROVE  FALSE
      BY DEF SparesMarked
    <2>1. ext[j] = Lib
      BY DEF AskedInv
    <2>2. ~ NoRegisteredDependents(inst[j], ext[j])
      BY <2>1 DEF MarkedIsOwned, NoRegisteredDependents
    <2>3. ~ CheckLive(j)
      <3> SUFFICES ASSUME CheckLive(j) PROVE FALSE
        OBVIOUS
      <3>1. pc' = [pc EXCEPT ![j] = "wipe"] \/ pc' = [pc EXCEPT ![j] = "done"]
        BY DEF CheckLive, Go, End
      <3>2. NoLiveDependents(SessionOf[j], inst[j], ext[j])
        BY DEF CheckLive, End, Go, AskedInv
      <3> QED
        BY <2>2, <3>2, JobsAssumption DEF NoLiveDependents, IsSessionDead
    <2>4. ASSUME NEW k \in Jobs, LockTimesOut(k) \/ Step(k) PROVE FALSE
      <3>1. k = j
        <4>1. PICK at : Stride(k, at)
          BY <2>4, Strides
        <4> QED
          BY <4>1 DEF Stride, Go
      <3> QED
        BY <2>3, <2>4, <3>1 DEF LockTimesOut, Step, TakeInstallLock, Read, Exists, Verify, Vanished,
           Forget, Install, ScriptSucceeds, ScriptFails, Validate, TrackValidates, Records, MarkInUse,
           UntrackInstall, CheckOwners, Wipe, WipeFails, Report, ClearRecords, DeleteAll,
           PruneSessions, LeaveSession
    <2>5. ASSUME NEW k \in Jobs, NEW c \in Kinds, NEW e \in Exts, NEW i \in Local, Start(k, c, e, i)
          PROVE  FALSE
      BY <2>5 DEF Start, Go, AskedInv
    <2>6. ASSUME NEW t \in Sessions, MutexAcquired(t) \/ Crash(t) PROVE FALSE
      BY <2>6 DEF MutexAcquired, Crash, jobVars, AskedInv
    <2> QED
      BY <2>4, <2>5, <2>6 DEF Next
  <1> QED
    BY <1>1, <1>2, <1>3, PTL DEF Spec, UpdateSparesMarked
=============================================================================
