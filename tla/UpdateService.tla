--------------------------- MODULE UpdateService ---------------------------
(***************************************************************************)
(* LocalInstallUpdateService: the automatic update of the local installs,  *)
(* once a day or when it is forced.  One pass reads the records, and for   *)
(* each group of installs (a mode and a major.minor) acquires the newest,  *)
(* reads the records again, lets the owners of the group own the latest    *)
(* install, and uninstalls the others it had read at first.                *)
(*                                                                         *)
(* The pass holds no lock between its steps: its acquisitions and          *)
(* uninstallations are commands of LocalInstalls like any other, and run   *)
(* beside those of other extensions and processes.  Owners are extensions; *)
(* what the user owns is not handed over and is left out.                  *)
(***************************************************************************)
EXTENDS LocalInstalls, VersionResolution

CONSTANTS
    GroupOf,        \* the group of each local install that may be updated
    PatchOf,        \* the third component of its version
    Channels,       \* releases-index.json, with local installs as versions
    Acquirer,       \* the command that acquires for each group
    Remover         \* the command that uninstalls each outdated install

PassJobs == {Acquirer[g] : g \in DOMAIN Acquirer} \cup {Remover[i] : i \in DOMAIN Remover}
Groups == {GroupOf[i] : i \in DOMAIN GroupOf}

ASSUME PassAssumption ==
    /\ DOMAIN GroupOf \subseteq Local
    /\ PatchOf \in [DOMAIN GroupOf -> Nat]
    /\ Acquirer \in [Groups -> Jobs] /\ Remover \in [DOMAIN GroupOf -> Jobs]
    /\ \A g \in Groups : FullVersion(Channels, g) \subseteq Local

VARIABLES
    passAt,         \* where the pass is
    recent,         \* 'dotnet.latestUpdateDate' is less than a day old
    listed,         \* the installs of its first reading, with their owners
    todo,           \* groups to go
    group,          \* the group it is at
    latest,         \* the install of the group that is kept
    outdated,       \* installs to go
    processed       \* some group was updated

passVars == <<passAt, recent, listed, todo, group, latest, outdated, processed>>

PassTypeOK ==
    /\ passAt \in {"off", "online", "read", "next", "acquiring", "reread", "own", "remove",
                   "removing", "over"}
    /\ recent \in BOOLEAN /\ processed \in BOOLEAN
    /\ DOMAIN listed \subseteq DOMAIN GroupOf /\ \A i \in DOMAIN listed : listed[i] \subseteq Exts
    /\ todo \subseteq Groups /\ group \in Groups
    /\ latest \in DOMAIN GroupOf
    /\ outdated \subseteq DOMAIN GroupOf
    /\ passAt \in {"remove", "removing"} => GroupOf[latest] = group /\ latest \notin outdated

PassInit ==
    /\ passAt = "off"
    /\ recent \in BOOLEAN
    /\ listed = [i \in {} |-> {}]
    /\ todo = {} /\ outdated = {}
    /\ group = CHOOSE g \in Groups : TRUE
    /\ latest = CHOOSE i \in DOMAIN GroupOf : TRUE
    /\ processed = FALSE

-----------------------------------------------------------------------------
PassGoes(stage) == passAt' = stage

InGroup(g) == {i \in DOMAIN GroupOf : GroupOf[i] = g}

\* checkForUpdates, on activation or by dotnet.forceUpdate.
PassStarts(forced) ==
    /\ passAt = "off" /\ (forced \/ ~recent)
    /\ PassGoes("online")
    /\ UNCHANGED <<recent, listed, todo, group, latest, outdated, processed>>
    /\ UNCHANGED <<vars>>

PassOnline ==
    /\ passAt = "online"
    /\ \E online \in BOOLEAN : PassGoes(IF online THEN "read" ELSE "over")
    /\ UNCHANGED <<recent, listed, todo, group, latest, outdated, processed>>
    /\ UNCHANGED <<vars>>

\* getInstallGroups
PassReads ==
    /\ passAt = "read" /\ trackerLock = Free
    /\ listed' = [i \in recorded \cap DOMAIN GroupOf |-> owners[i]]
    /\ todo' = {GroupOf[i] : i \in recorded \cap DOMAIN GroupOf}
    /\ PassGoes("next")
    /\ UNCHANGED <<recent, group, latest, outdated, processed>>
    /\ UNCHANGED <<vars>>

\* installAction, for the newest version of the group; offline it takes a similar
\* install.  An error on the way to the acquisition is swallowed, as is its own.
PassAcquires(g) ==
    /\ passAt = "next" /\ g \in todo
    /\ group' = g
    /\ \/ /\ \/ \E i \in FullVersion(Channels, g) : Start(Acquirer[g], "acquire", Lib, i)
             \/ \E i \in recorded \cap InGroup(g) : Start(Acquirer[g], "similar", Lib, i)
          /\ PassGoes("acquiring")
       \/ PassGoes("reread") /\ UNCHANGED <<vars>>
    /\ UNCHANGED <<recent, listed, todo, latest, outdated, processed>>

PassAcquired ==
    /\ passAt = "acquiring" /\ pc[Acquirer[group]] \in Ended
    /\ PassGoes("reread")
    /\ UNCHANGED <<recent, listed, todo, group, latest, outdated, processed>>
    /\ UNCHANGED <<vars>>

\* The second reading; a group that is gone by now is passed over.
PassReReads ==
    /\ passAt = "reread" /\ trackerLock = Free
    /\ LET managed == recorded \cap InGroup(group) IN
       \/ /\ managed = {}
          /\ todo' = todo \ {group}
          /\ PassGoes("next") /\ UNCHANGED latest
       \/ /\ \E i \in managed : /\ \A k \in managed : PatchOf[k] <= PatchOf[i]
                                /\ latest' = i
          /\ PassGoes("own") /\ UNCHANGED todo
    /\ UNCHANGED <<recent, listed, group, outdated, processed>>
    /\ UNCHANGED <<vars>>

\* Mutant of FormerOwners: nobody who had an install of the group.
NobodyElse(g) == {}

\* getAllNonUserOwnersOfCollection, of the first reading.
FormerOwners(g) == UNION {listed[i] : i \in DOMAIN listed \cap InGroup(g)}

\* Mutant of Outdated: the latest goes with the others.
OutdatedAll(g) == DOMAIN listed \cap InGroup(g)

\* What was read at first and is not the latest.
Outdated(g) == (DOMAIN listed \cap InGroup(g)) \ {latest}

\* addOwners, and on to the removals.
PassOwns ==
    /\ passAt = "own" /\ trackerLock = Free
    /\ AddOwners(latest, FormerOwners(group))
    /\ outdated' = Outdated(group)
    /\ PassGoes("remove")
    /\ UNCHANGED <<recent, listed, todo, group, latest, processed>>
    /\ UNCHANGED <<marks, session, jobVars, pc, installLock, trackerLock, disk, granted, rough>>

\* uninstallAction with onlyCheckLiveDependents, one install after the other.
PassRemoves(i) ==
    /\ passAt = "remove" /\ i \in outdated
    /\ Start(Remover[i], "update", Lib, i)
    /\ outdated' = outdated \ {i}
    /\ PassGoes("removing")
    /\ UNCHANGED <<recent, listed, todo, group, latest, processed>>

PassRemoved ==
    /\ passAt = "removing"
    /\ \A i \in DOMAIN Remover : pc[Remover[i]] \in Ended \cup {"idle"}
    /\ PassGoes("remove")
    /\ UNCHANGED <<recent, listed, todo, group, latest, outdated, processed>>
    /\ UNCHANGED <<vars>>

GroupDone ==
    /\ passAt = "remove" /\ outdated = {}
    /\ todo' = todo \ {group}
    /\ processed' = TRUE
    /\ PassGoes("next")
    /\ UNCHANGED <<recent, listed, group, latest, outdated>>
    /\ UNCHANGED <<vars>>

\* The date is set when some group was processed, however that went.
PassEnds ==
    /\ passAt = "next" /\ todo = {}
    /\ recent' = (recent \/ processed)
    /\ PassGoes("over")
    /\ UNCHANGED <<listed, todo, group, latest, outdated, processed>>
    /\ UNCHANGED <<vars>>

PassStep ==
    \/ PassOnline \/ PassReads \/ PassAcquired \/ PassReReads \/ PassOwns
    \/ PassRemoved \/ GroupDone \/ PassEnds
    \/ \E g \in Groups : PassAcquires(g)
    \/ \E i \in DOMAIN GroupOf : PassRemoves(i)

\* The commands of LocalInstalls, those of the pass aside, and their steps.
LocalNext ==
    /\ \/ \E j \in Jobs \ PassJobs, k \in Kinds, e \in Exts, i \in Local :
            Asked(k, e) /\ Start(j, k, e, i)
       \/ \E j \in Jobs : LockTimesOut(j) \/ Step(j)
       \/ \E s \in Sessions : MutexAcquired(s) \/ Crash(s)
    /\ UNCHANGED passVars

UNext ==
    \/ LocalNext
    \/ \E forced \in BOOLEAN : PassStarts(forced)
    \/ PassStep

USpec == Init /\ PassInit /\ [][UNext]_<<vars, passVars>>

-----------------------------------------------------------------------------
\* An extension, the user or another window's update has asked to uninstall i and has
\* got past its lock, or has uninstalled everything.
Uninstalling(i) == \E j \in Jobs \ PassJobs :
    \/ kind[j] \in UninstallKinds /\ inst[j] = i /\ pc[j] \notin {"lock", "untrack"}
    \/ kind[j] = "uninstallAll" /\ pc[j] # "clear"

\* The pass goes ahead with deleting i.
Deletes(i) == \E j \in PassJobs :
    kind[j] = "update" /\ inst[j] = i /\ pc[j] = "check" /\ pc'[j] = "wipe"

\* Whoever owned an install when the pass read the records owns the one it keeps
\* before the pass deletes the other, unless somebody uninstalled the one it keeps
\* in the meantime: the owners come from a reading that is older than the
\* acquisition, and addOwners adds nothing to an install without a record.
HandsOver == \A i \in DOMAIN listed :
    Deletes(i) /\ ~ Uninstalling(latest) => listed[i] \subseteq owners[latest]
OwnersHandedOver == [][HandsOver]_<<vars, passVars>>

\* The pass deletes no install newer than the one it keeps, although it compares
\* what it read first with what it read later, unless the newer one was uninstalled
\* and acquired again in between.
DeletesOlder == \A i \in DOMAIN listed :
    Deletes(i) /\ ~ Uninstalling(i) => PatchOf[i] < PatchOf[latest]
NewestStays == [][DeletesOlder]_<<vars, passVars>>
=============================================================================
