------------------------------ MODULE MCWindow ------------------------------
\* The extension as a whole for TLC: local installs with the automatic update,
\* and global installs, over the same records and sessions.  In one behaviour the
\* one half acts or the other.
EXTENDS UpdateService, GlobalInstalls, TLC

CONSTANTS j1, p1, p2, p3, k1, k2, s1, s2, x, y, lib, i1, i2

VARIABLE half           \* "local" or "global"

MCExts == {x, y, lib}
MCSessions == {s1, s2}

\* The window of the update, with a job for the acquisition and one for each
\* install it may remove, and another window that runs one command and may die.
MCJobs == {j1, p1, p2, p3}
MCSessionOf == (j1 :> s2) @@ (p1 :> s1) @@ (p2 :> s1) @@ (p3 :> s1)
MCLocal == {i1, i2}
MCGroupOf == (i1 :> "8.0") @@ (i2 :> "8.0")
MCPatchOf == (i1 :> 1) @@ (i2 :> 2)
MCChannels == <<[type |-> "lts", latest |-> i2, channel |-> "8.0", phase |-> "active"]>>
MCAcquirer == "8.0" :> p1
MCRemover == (i1 :> p2) @@ (i2 :> p3)

\* Two global commands in two windows, two SDKs of one feature band.
MCRequesters == {k1, k2}
Sdk(patch) == [major |-> 9, minor |-> 0, band |-> 1, patch |-> patch]
MCInstalls == MCLocal \cup {Sdk(0), Sdk(1)}

\* The older SDK has no hash on macOS.
MCIndex(rid, extension) ==
    LET Release(v, hash) ==
            [version |-> v, files |-> <<[rid |-> rid, extension |-> extension,
                                         host |-> "trusted", hash |-> hash]>>]
    IN [latestSdk |-> {Sdk(1)},
        releases |-> << <<Release(Sdk(1), "a"),
                          Release(Sdk(0), IF extension = "pkg" THEN "" ELSE "b")>> >>]
MCDistro == [packaged |-> {<<9, 0>>}, feed |-> "Microsoft", otherFeed |-> FALSE,
             custom |-> FALSE, offers |-> {Sdk(1)}]
MCScene(platform, rid, extension, entries) ==
    [platform |-> platform, rid |-> rid, extension |-> extension,
     index |-> MCIndex(rid, extension), entries |-> entries, distro |-> MCDistro]
MCScenes ==
    {MCScene("win32", "win-x64", "exe", <<>>),
     MCScene("darwin", "osx-x64", "pkg",
             <<[type |-> "sts", latest |-> Sdk(1), channel |-> "9.0", phase |-> "active"]>>),
     MCScene("linux", "linux-x64", "tar", <<>>),
     MCScene("wsl", "linux-x64", "tar", <<>>)}
MCTyped ==
    {[form |-> "full", major |-> 9, minor |-> 0, version |-> Sdk(0)],
     [form |-> "band", major |-> 9, minor |-> 0, band |-> 1]}

MCSymmetry == Permutations({x, y}) \cup Permutations({k1, k2})

\* What the half that does not act would start from is fixed.
MCInit ==
    /\ half \in {"local", "global"}
    /\ Init /\ PassInit /\ GInit
    /\ ~recent /\ listing = [s \in Sessions |-> {sdks}]
    /\ half = "local" =>
         /\ recorded \subseteq Local
         /\ scene.platform = "win32" /\ client /\ sdks = {} /\ host
    /\ half = "global" =>
         /\ recorded \subseteq {Sdk(0)} /\ owners[Sdk(0)] # {Lib}
         /\ sdks \subseteq {Sdk(0)}
         /\ client <=> scene.platform \in {"win32", "wsl"}

\* The windows do not differ in the global half: the first command is one of s1.
FirstIsOfS1 == (\A j \in GJobs : gpc[j] = "idle") =>
    \A j \in GJobs : gpc'[j] # "idle" => order'[j].by = s1

MCNext ==
    \/ /\ half = "local" /\ UNext
       /\ UNCHANGED <<half, gvars, webVars>>
    \/ /\ half = "global" /\ GNext /\ FirstIsOfS1
       /\ UNCHANGED <<half, passVars, jobVars, pc, installLock, disk, granted, rough>>

MCSpec == MCInit /\ [][MCNext]_<<half, vars, passVars, gvars, webVars>>
=============================================================================
