------------------------------ MODULE MCFindPath ------------------------------
\* Instances of FindPath for TLC: two lookups, a host on the PATH under two names,
\* another host, and one install of the extension.
EXTENDS FindPath, TLC

CONSTANTS dotnet, g, h, m, a, b, x64

Version(major, minor, third) == [major |-> major, minor |-> minor, third |-> third, preview |-> FALSE]
Runtime801 == [mode |-> "runtime", version |-> Version(8, 0, 1)]
Runtime902 == [mode |-> "runtime", version |-> Version(9, 0, 2)]
Runtime901 == [mode |-> "runtime", version |-> Version(9, 0, 1)]
Sdk101 == [mode |-> "sdk", version |-> Version(8, 0, 101)]

MCRoots == {g, h, m}
MCNames == {dotnet} \cup MCRoots
MCAt == [n \in MCNames |-> IF n = dotnet THEN g ELSE n]
MCInstalls == {Runtime801, Runtime901, Runtime902, Sdk101}
MCInitially == (g :> {Runtime801, Sdk101}) @@ (h :> {Runtime901}) @@ (m :> {Runtime902})

MCArch == [l \in {a, b} |-> x64]
MCHostArch == [r \in MCRoots |-> x64]
MCLocalLookup == [l \in {a, b} |-> TRUE]
MCRecorded == m :> Version(9, 0, 2)

Asks(mode, spec, form, major, minor, third) ==
    [mode |-> mode, spec |-> spec, form |-> form, major |-> major, minor |-> minor,
     third |-> third, rejectPreviews |-> FALSE]

\* a wants the patch that only the extension's install has at first;
\* b wants an SDK, which the first host has.
MCRequest == (a :> Asks("runtime", "latestPatch", "full", 9, 0, 2))
          @@ (b :> Asks("sdk", "latestPatch", "full", 8, 0, 101))

MCCandidates == [s \in NamedSources |->
    CASE s = "setting" -> <<>>
      [] s = "shell" -> <<dotnet>>
      [] s = "PATH" -> <<dotnet, h>>
      [] s = "root" -> <<>>
      [] s = "hostfxr" -> <<h>>]

MCOthers == (g :> {{Runtime901}}) @@ (h :> {{Runtime902}})
=============================================================================
