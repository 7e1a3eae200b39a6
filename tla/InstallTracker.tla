--------------------------- MODULE InstallTracker ---------------------------
(***************************************************************************)
(* InstallTrackerSingleton (Acquisition/InstallTrackerSingleton.ts): the   *)
(* records of the installs this extension manages, each with the           *)
(* extensions that own it, and for every session (a VS Code process) the   *)
(* installs whose dotnet was handed to it.  Both live in the extension's   *)
(* global state; every operation reads and writes them under the           *)
(* 'installed' lock, so that an operation whose body does nothing else is  *)
(* one atomic change here.  A session is up while it holds the mutex named *)
(* by its id.                                                              *)
(***************************************************************************)
CONSTANTS
    Sessions,       \* VS Code processes that run the extension
    Exts,           \* requesting extension ids
    Lib,            \* AUTOMATIC_UPDATE_EXTENSION_ID
    Installs,       \* install ids
    Local,          \* those of local installs; the others are global
    Free            \* nobody holds a lock

ASSUME TrackerAssumption == Lib \in Exts /\ Local \subseteq Installs

VARIABLES
    recorded,       \* installs with a record in 'installed'
    owners,         \* installingExtensions of each record
    marks,          \* 'dotnet.returnedInstallDirectories'
    session,        \* "starting", "up" or "down"
    trackerLock     \* the 'installed' lock, where it is held across steps

trackerVars == <<recorded, owners, marks, session>>

TrackerTypeOK ==
    /\ recorded \subseteq Installs
    /\ owners \in [Installs -> SUBSET Exts]
    /\ \A i \in Installs \ recorded : owners[i] = {}
    /\ marks \in [Sessions -> SUBSET Installs]
    /\ session \in [Sessions -> {"starting", "up", "down"}]

-----------------------------------------------------------------------------
(***************************************************************************)
(* Operations on the records                                               *)
(***************************************************************************)

\* addVersionToExtensionState, after its validation: the session is marked and
\* the requesting extension becomes an owner.
Track(s, e, i) ==
    /\ marks' = [marks EXCEPT ![s] = @ \cup {i}]
    /\ recorded' = recorded \cup {i}
    /\ owners' = [owners EXCEPT ![i] = @ \cup {e}]

\* Mutant of DropRecord: the list of owners outlives the record.
DropRecordOnly(i) ==
    /\ recorded' = recorded \ {i}
    /\ UNCHANGED owners

\* reportSuccessfulUninstallHelper: the record goes, whoever owns it by now.
DropRecord(i) ==
    /\ recorded' = recorded \ {i}
    /\ owners' = [owners EXCEPT ![i] = {}]

\* removeVersionFromExtensionState: a forced removal drops the record, any
\* other takes the requesting extension off the owners and keeps the record.
Untrack(e, i, force) ==
    IF force
    THEN DropRecord(i)
    ELSE /\ owners' = [owners EXCEPT ![i] = @ \ {e}]
         /\ UNCHANGED recorded

\* uninstallAllRecords, before its deletion function runs: global records stay.
DropAllRecords ==
    /\ recorded' = recorded \ Local
    /\ owners' = [i \in Installs |-> IF i \in Local THEN {} ELSE owners[i]]

\* addOwners: an install without a record gets none.
AddOwners(i, es) ==
    /\ owners' = [owners EXCEPT ![i] = IF i \in recorded THEN @ \cup es ELSE @]
    /\ UNCHANGED recorded

\* Mutant of NoRegisteredDependents: one owner is left, whoever that is.
OneDependentAtMost(i, ignored) ==
    i \notin recorded \/ \E e \in Exts \cup {ignored} : owners[i] \subseteq {e}

\* installHasNoRegisteredDependentsBesidesId, as uninstallLocal calls it.
NoRegisteredDependents(i, ignored) ==
    i \notin recorded \/ owners[i] = {ignored} \/ owners[i] = {}

-----------------------------------------------------------------------------
(***************************************************************************)
(* Sessions                                                                *)
(***************************************************************************)

\* acquirePermanentSessionMutex has got the mutex; nobody awaits it.
SessionUp(s) ==
    /\ session[s] = "starting"
    /\ session' = [session EXCEPT ![s] = "up"]
    /\ UNCHANGED <<recorded, owners, marks>>

\* Mutant of IsSessionDead: its promise is tested, not what it resolves to.
IsSessionDeadNotAwaited(s) == session[s] \in {"starting", "up", "down"}

\* isSessionDead: the mutex of the session can be taken.
IsSessionDead(s) == session[s] # "up"

\* markInstallAsInUse.
Mark(s, i) == marks' = [marks EXCEPT ![s] = @ \cup {i}]

\* pruneStaleSessions, by session s.
Prune(s) ==
    marks' = [t \in Sessions |-> IF t # s /\ IsSessionDead(t) THEN {} ELSE marks[t]]

\* removeCurrentSession.
RemoveSession(s) == marks' = [marks EXCEPT ![s] = {}]

\* installHasNoLiveDependentsBesidesId by session s: TRUE without a look at the
\* sessions when the record names no other dependent.
NoLiveDependents(s, i, ignored) ==
    \/ NoRegisteredDependents(i, ignored)
    \/ /\ i \notin marks[s]
       /\ \A t \in Sessions \ {s} : i \in marks[t] => IsSessionDead(t)

\* The same call drops the dead sessions it meets before it has its answer.
DropsDeadSessions(s, i, ignored) ==
    \E met \in SUBSET {t \in Sessions \ {s} : IsSessionDead(t)} :
        /\ NoRegisteredDependents(i, ignored) => met = {}
        /\ ~NoRegisteredDependents(i, ignored) /\ NoLiveDependents(s, i, ignored)
             => met = {t \in Sessions \ {s} : IsSessionDead(t)}
        /\ marks' = [t \in Sessions |-> IF t \in met THEN {} ELSE marks[t]]
=============================================================================
