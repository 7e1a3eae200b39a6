------------------------------- MODULE FindPath -------------------------------
(***************************************************************************)
(* dotnet.findPath: lookups of one extension host that run at once, while  *)
(* installs come and go.                                                   *)
(*                                                                         *)
(* A lookup goes through the sources of candidates in order.  A source     *)
(* that is `resolved` first asks every candidate for its runtimes and goes *)
(* on with the true paths (DotnetResolver.resolveTruePaths).  Each         *)
(* candidate is then judged (dotnetMeetsRequirement): its installs are     *)
(* listed, its true path is taken for its architecture, and the first that *)
(* meets the request is marked in use and returned.                        *)
(*                                                                         *)
(* JavaScript runs to the next await, so an action is what happens between *)
(* two awaits.  Both listings and both resolutions save, set and restore   *)
(* the DOTNET_MULTILEVEL_LOOKUP of the process around their awaits.        *)
(***************************************************************************)
EXTENDS CommandCache, Sequences, SequencesExt

CONSTANTS
    Lookups,        \* findPath calls
    Request,        \* what each asks for
    Arch,           \* the architecture it asks for
    LocalLookup,    \* whether it leaves disableLocalLookup unset
    HostArch,       \* the architecture of the host in each root
    Candidates,     \* the names each source finds
    Managed,        \* the roots the extension installs to
    Recorded,       \* the version in the record of each of them
    SkipHostfxr,    \* DOTNET_INSTALL_TOOL_SKIP_HOSTFXR
    Initially,      \* what the roots hold at first; a managed one, once installed
    Others,         \* what somebody else may put in place of a root's installs
    MaxUpsets       \* bound: changes of the installs and entries whose time is over

\* rawPATH finds the candidates of PATH again, for realPATH.
Order == <<"setting", "shell", "PATH", "rawPATH", "realPATH", "root", "managed", "hostfxr">>
NamedSources == {"setting", "shell", "PATH", "root", "hostfxr"}
Resolved == {"setting", "shell", "PATH", "rawPATH", "realPATH", "hostfxr"}

ASSUME LookupAssumption ==
    /\ Request \in [Lookups -> Requests] /\ LocalLookup \in [Lookups -> BOOLEAN]
    /\ DOMAIN Arch = Lookups /\ DOMAIN HostArch = Roots
    /\ Candidates \in [NamedSources -> Seq(Names)]
    /\ Managed \subseteq Roots /\ IsFiniteSet(Managed) /\ Recorded \in [Managed -> Versions]
    /\ SkipHostfxr \in BOOLEAN
    /\ Initially \in [Roots -> SUBSET Installs]
    /\ Others \in [Roots \ Managed -> SUBSET SUBSET Installs]
    /\ MaxUpsets \in Nat

VARIABLES
    env,        \* DOTNET_MULTILEVEL_LOOKUP of the process
    lookup,     \* where each lookup is
    records,    \* the roots on record as installed
    marks,      \* the paths this process has marked in use
    own,        \* the extension's install or uninstall under way
    upsets,     \* how many installs have changed and entries expired
    overlapped  \* history: two lookups had saved env at once

vars == <<env, lookup, records, marks, own, upsets, overlapped, cacheVars>>

Places == {"idle", "source", "pick", "running", "ran", "answered", "mark", "done"}
Tasks == {"resolve", "list", "arch"}
NoOutput == [items |-> {}, first |-> Nowhere]

(* `outer` and `inner` hold the saved values of env, or Nowhere.           *)
(* History: `clean` says that no install changed while the lookup ran and  *)
(* that it used no stale entry; `could` holds the roots that met the       *)
(* request at some moment the lookup may have seen.                        *)
(***************************************************************************)
TypeOK ==
    /\ CacheTypeOK
    /\ env \in EnvValues /\ own \in [step : {"idle", "installed", "wiped", "cleared"}, root : Roots]
    /\ records \subseteq Managed /\ marks \subseteq Names
    /\ upsets \in 0 .. MaxUpsets /\ overlapped \in BOOLEAN
    /\ DOMAIN lookup = Lookups
    /\ \A l \in Lookups : LET k == lookup[l] IN
         /\ k.pc \in Places /\ k.src \in 1 .. Len(Order) + 1 /\ k.task \in Tasks
         /\ k.todo \in Seq(Names) /\ k.found \in Seq(Names)
         /\ {k.outer, k.inner} \subseteq EnvValues \cup {Nowhere}
         /\ k.key \in Keys /\ k.name \in Names /\ IsOutput(k.out) /\ k.listing \subseteq Roots \X Installs
         /\ k.result \in Names \cup {Nowhere}
         /\ {k.clean, k.crossed} \subseteq BOOLEAN /\ k.could \subseteq Roots

Idle == LET n == CHOOSE r \in Roots : TRUE IN
    [pc |-> "idle", src |-> 1, task |-> "list", todo |-> <<>>, found |-> <<>>,
     outer |-> Nowhere, inner |-> Nowhere, key |-> [kind |-> "runtimes", name |-> n, env |-> "0"],
     name |-> n, out |-> NoOutput, listing |-> {}, result |-> Nowhere,
     clean |-> TRUE, crossed |-> FALSE, could |-> {}]

Init ==
    /\ records \in SUBSET Managed
    /\ disk = [r \in Roots |-> IF r \in Managed \ records THEN {} ELSE Initially[r]]
    /\ cache = [k \in Keys |-> Nowhere]
    /\ alias = [n \in Names |-> n]
    /\ env = "user"
    /\ lookup = [l \in Lookups |-> Idle]
    /\ marks = {}
    /\ own = [step |-> "idle", root |-> CHOOSE r \in Roots : TRUE]
    /\ upsets = 0
    /\ overlapped = FALSE

-----------------------------------------------------------------------------
Source(l) == Order[lookup[l].src]
Sdk(l) == Request[l].mode = "sdk"
ListingOf(l) == IF Sdk(l) THEN "sdks" ELSE "runtimes"

\* The setting is judged without rejectPreviews.
AsJudged(l) == IF Source(l) = "setting" THEN [Request[l] EXCEPT !.rejectPreviews = FALSE] ELSE Request[l]

InstallMeets(i, q) == i.mode = q.mode /\ VersionMeets(i.version, q) /\ AllowPreview(i.version, q)

\* findExtensionManagedRuntimes and filterValidPaths
ManagedPaths(l) ==
    SetToSeq({r \in records : VersionMeets(Recorded[r], Request[l])})

NamesOf(l) ==
    IF Source(l) = "realPATH" THEN lookup[l].found
    ELSE IF Source(l) = "rawPATH" THEN Candidates["PATH"]
    ELSE IF Source(l) = "managed" THEN ManagedPaths(l) ELSE Candidates[Source(l)]

Skipped(l) == Source(l) = "managed" /\ (Sdk(l) \/ ~ LocalLookup[l])

\* The setting is not for SDKs; hostfxr's records may be checked in vain.
Returns(l) ==
    /\ Source(l) = "setting" => ~ Sdk(l)
    /\ Source(l) = "hostfxr" => ~ SkipHostfxr

Holds(l) == lookup[l].outer # Nowhere \/ lookup[l].inner # Nowhere
SaveOverlaps(l) == overlapped' = (overlapped \/ \E o \in Lookups \ {l} : Holds(o))

\* Nothing is kept of the last command.
Settled(k) == [k EXCEPT !.out = NoOutput, !.listing = {}, !.crossed = FALSE, !.key = Idle.key, !.name = Idle.name]
Ended(k, path) == [Idle EXCEPT !.pc = "done", !.result = path, !.clean = k.clean, !.could = k.could]

\* Mutant of Onward: the source after is passed over.
OnwardSkipsOne(k) ==
    IF k.found = <<>> THEN [k EXCEPT !.pc = "source", !.src = @ + 2] ELSE [k EXCEPT !.pc = "pick"]

\* The next candidate, or the next source.
Onward(k) ==
    IF k.found = <<>> THEN [k EXCEPT !.pc = "source", !.src = @ + 1] ELSE [k EXCEPT !.pc = "pick"]

\* CommandExecutor.execute up to its first await: an entry answers, or a process starts.
Execute(k, task, kind, name, e, aliases) ==
    LET key == KeyOf(kind, name, e, aliases)
        hit == cache[key] # Nowhere
    IN  [k EXCEPT !.pc = IF hit THEN "answered" ELSE "running", !.task = task,
                  !.key = key, !.name = name, !.crossed = FALSE,
                  !.out = IF hit THEN cache[key].out ELSE NoOutput,
                  !.clean = k.clean /\ ~ (hit /\ cache[key].out.items # Listed(kind, name, e))]

\* What DotnetVersionSpecRequirement.ts and commands.md say of a version and a request.
Documented(i, q) ==
    /\ i.mode = q.mode /\ AllowPreview(i.version, q)
    /\ IF q.form = "full" THEN InOrder(i.version, q) ELSE InMajorMinorOrder(i.version, q)

\* The roots that meet l's request now, or by an output that may still be used.
Meets(l, items) == \E x \in items : Documented(x[2], [Request[l] EXCEPT !.rejectPreviews = FALSE])
CouldMeet(l, contents) ==
    {r \in Roots :
        \/ Meets(l, {r} \X contents[r])
        \/ \E k \in Keys : At[k.name] = r /\ cache[k] # Nowhere /\ Meets(l, cache[k].out.items)
        \/ \E o \in Lookups : At[lookup[o].name] = r /\ lookup[o].pc = "ran" /\ Meets(l, lookup[o].out.items)}

-----------------------------------------------------------------------------
Start(l) ==
    /\ lookup[l].pc = "idle"
    /\ lookup' = [lookup EXCEPT ![l].pc = "source", ![l].could = CouldMeet(l, disk)]
    /\ UNCHANGED <<env, records, marks, own, upsets, overlapped, cacheVars>>

\* No source is left: undefined.
FindsNothing(l) ==
    /\ lookup[l].pc = "source" /\ lookup[l].src > Len(Order)
    /\ lookup' = [lookup EXCEPT ![l] = Ended(@, Nowhere)]
    /\ UNCHANGED <<env, records, marks, own, upsets, overlapped, cacheVars>>

AtSource(l) == lookup[l].pc = "source" /\ lookup[l].src <= Len(Order)

SkipSource(l) ==
    /\ AtSource(l)
    /\ Skipped(l) \/ (Source(l) \in Resolved /\ NamesOf(l) = <<>>)
    /\ lookup' = [lookup EXCEPT ![l].src = @ + 1, ![l].found = <<>>]
    /\ UNCHANGED <<env, records, marks, own, upsets, overlapped, cacheVars>>

\* The candidates are judged as they are.
Take(l) ==
    /\ AtSource(l) /\ ~ Skipped(l) /\ Source(l) \notin Resolved
    /\ lookup' = [lookup EXCEPT ![l] = Onward([@ EXCEPT !.found = NamesOf(l)])]
    /\ UNCHANGED <<env, records, marks, own, upsets, overlapped, cacheVars>>

\* resolveTruePaths up to its first await
Resolve(l) ==
    /\ AtSource(l) /\ Source(l) \in Resolved /\ NamesOf(l) # <<>>
    /\ env' = "0" /\ SaveOverlaps(l)
    /\ lookup' = [lookup EXCEPT ![l] =
         Execute([@ EXCEPT !.outer = env, !.todo = NamesOf(l), !.found = <<>>],
                 "resolve", "runtimes", NamesOf(l)[1], "0", alias)]
    /\ UNCHANGED <<records, marks, own, upsets, cacheVars>>

\* The process reads the disk.
Run(l) ==
    /\ lookup[l].pc = "running"
    /\ \E out \in OutputsOf(lookup[l].key.kind, lookup[l].name, lookup[l].key.env) :
         lookup' = [lookup EXCEPT ![l].pc = "ran", ![l].out = out]
    /\ UNCHANGED <<env, records, marks, own, upsets, overlapped, cacheVars>>

\* It has ended; its output is stored under the alias its name has by now.
Finish(l) ==
    /\ lookup[l].pc = "ran"
    /\ LET key == lookup[l].key IN
         Put(KeyOf(key.kind, key.name, key.env, alias), lookup[l].out, lookup[l].crossed)
    /\ lookup' = [lookup EXCEPT ![l].pc = "answered"]
    /\ UNCHANGED <<env, records, marks, own, upsets, overlapped, disk, alias>>

Answered(l, task) == lookup[l].pc = "answered" /\ lookup[l].task = task

\* Mutant of FoundSoFar: the path asked about is taken for the true one.
FoundUnresolved(l) ==
    IF lookup[l].out.items = {} THEN lookup[l].found ELSE Append(lookup[l].found, lookup[l].todo[1])

\* A candidate that lists runtimes has a true path: two directories above them.
FoundSoFar(l) ==
    IF lookup[l].out.items = {} THEN lookup[l].found ELSE Append(lookup[l].found, lookup[l].out.first)

\* The loop of resolveTruePaths goes on, with whatever env is by now.
ResolveNext(l) ==
    /\ Answered(l, "resolve") /\ Len(lookup[l].todo) > 1
    /\ LET k == lookup[l]
           aliases == Aliased(k.out.first, k.todo[1])
       IN /\ alias' = aliases
          /\ lookup' = [lookup EXCEPT ![l] =
               Execute([k EXCEPT !.todo = Tail(k.todo), !.found = FoundSoFar(l)],
                       "resolve", "runtimes", k.todo[2], env, aliases)]
    /\ UNCHANGED <<env, records, marks, own, upsets, overlapped, disk, cache>>

ResolveEnds(l) ==
    /\ Answered(l, "resolve") /\ Len(lookup[l].todo) = 1
    /\ alias' = Aliased(lookup[l].out.first, lookup[l].todo[1])
    /\ env' = lookup[l].outer
    /\ lookup' = [lookup EXCEPT ![l] =
         LET k == [Settled(@) EXCEPT !.todo = <<>>, !.found = FoundSoFar(l), !.outer = Nowhere]
         IN  IF Source(l) = "rawPATH" THEN [k EXCEPT !.pc = "source", !.src = k.src + 1] ELSE Onward(k)]
    /\ UNCHANGED <<records, marks, own, upsets, overlapped, disk, cache>>

\* Mutant of Judge: multi-level lookup is left as it is.
JudgeMultiLevel(l) ==
    /\ lookup[l].pc = "pick"
    /\ SaveOverlaps(l)
    /\ lookup' = [lookup EXCEPT ![l] =
         Execute([@ EXCEPT !.outer = env], "list", ListingOf(l), lookup[l].found[1], env, alias)]
    /\ UNCHANGED <<env, records, marks, own, upsets, cacheVars>>

\* getDotnetInstalls up to its first await
Judge(l) ==
    /\ lookup[l].pc = "pick"
    /\ env' = "0" /\ SaveOverlaps(l)
    /\ lookup' = [lookup EXCEPT ![l] =
         Execute([@ EXCEPT !.outer = env], "list", ListingOf(l), lookup[l].found[1], "0", alias)]
    /\ UNCHANGED <<records, marks, own, upsets, cacheVars>>

\* Mutant of ListsNothing: the early return does not restore.
ListsNothingReturns(l) ==
    /\ Answered(l, "list") /\ lookup[l].out.items = {}
    /\ lookup' = [lookup EXCEPT ![l] = Onward([Settled(@) EXCEPT !.outer = Nowhere, !.found = Tail(lookup[l].found)])]
    /\ UNCHANGED <<env, records, marks, own, upsets, overlapped, cacheVars>>

\* Nothing is listed.
ListsNothing(l) ==
    /\ Answered(l, "list") /\ lookup[l].out.items = {}
    /\ env' = lookup[l].outer
    /\ lookup' = [lookup EXCEPT ![l] = Onward([Settled(@) EXCEPT !.outer = Nowhere, !.found = Tail(lookup[l].found)])]
    /\ UNCHANGED <<records, marks, own, upsets, overlapped, cacheVars>>

\* resolveHostArchitecture resolves the path once more.
AskArchitecture(l) ==
    /\ Answered(l, "list") /\ lookup[l].out.items # {}
    /\ env' = "0" /\ SaveOverlaps(l)
    /\ lookup' = [lookup EXCEPT ![l] =
         Execute([@ EXCEPT !.inner = env, !.listing = lookup[l].out.items],
                 "arch", "runtimes", lookup[l].found[1], "0", alias)]
    /\ UNCHANGED <<records, marks, own, upsets, cacheVars>>

\* Both resolutions restore env, the inner one first; the candidate meets the request or not.
Decide(l) ==
    /\ Answered(l, "arch")
    /\ LET k == lookup[l]
           meets == /\ k.out.first # Nowhere /\ HostArch[k.out.first] = Arch[l]
                    /\ \E x \in k.listing : InstallMeets(x[2], AsJudged(l))
       IN /\ alias' = Aliased(k.out.first, k.found[1])
          /\ env' = k.outer
          /\ lookup' = [lookup EXCEPT ![l] =
               LET j == [Settled(k) EXCEPT !.outer = Nowhere, !.inner = Nowhere]
               IN  IF meets THEN [j EXCEPT !.pc = "mark"] ELSE Onward([j EXCEPT !.found = Tail(k.found)])]
    /\ UNCHANGED <<records, marks, own, upsets, overlapped, disk, cache>>

\* markInstallAsInUse, and the end of the lookup if the source is one that returns
MarkInUse(l) ==
    /\ lookup[l].pc = "mark"
    /\ marks' = marks \cup {lookup[l].found[1]}
    /\ lookup' = IF Returns(l)
                 THEN [lookup EXCEPT ![l] = Ended(@, lookup[l].found[1])]
                 ELSE [lookup EXCEPT ![l] = Onward([@ EXCEPT !.found = Tail(lookup[l].found)])]
    /\ UNCHANGED <<env, records, own, upsets, overlapped, cacheVars>>

-----------------------------------------------------------------------------
\* What a change of the installs means to the lookups under way.
LookupsSee(contents) ==
    lookup' = [l \in Lookups |->
                 IF lookup[l].pc = "idle" THEN lookup[l]
                 ELSE IF lookup[l].pc = "done" THEN [lookup[l] EXCEPT !.clean = FALSE]
                 ELSE [lookup[l] EXCEPT !.clean = FALSE, !.crossed = @ \/ lookup[l].pc = "ran",
                                        !.could = @ \cup CouldMeet(l, contents)]]

Change(r, installs) ==
    /\ upsets < MaxUpsets /\ upsets' = upsets + 1
    /\ disk' = [disk EXCEPT ![r] = installs]
    /\ LookupsSee(disk')

\* Somebody else installs or removes a .NET.
SomebodyChanges(r) ==
    /\ \E installs \in Others[r] \ {disk[r]} : Change(r, installs)
    /\ UNCHANGED <<env, records, marks, own, overlapped, cache, alias>>

\* acquireLocalCore: the install script, the cache, the record
OwnInstall(r) ==
    /\ own.step = "idle" /\ r \notin records
    /\ Change(r, Initially[r])
    /\ own' = [step |-> "installed", root |-> r]
    /\ UNCHANGED <<env, records, marks, overlapped, cache, alias>>

\* uninstallLocal: the directory, the cache, the record
OwnUninstall(r) ==
    /\ own.step = "idle" /\ r \in records
    /\ Change(r, {})
    /\ own' = [step |-> "wiped", root |-> r]
    /\ UNCHANGED <<env, records, marks, overlapped, cache, alias>>

OwnInvalidates ==
    /\ own.step \in {"installed", "wiped"}
    /\ Invalidate(own.root)
    /\ own' = [own EXCEPT !.step = "cleared"]
    /\ UNCHANGED <<env, lookup, records, marks, upsets, overlapped, disk, alias>>

OwnRecords ==
    /\ own.step = "cleared"
    /\ records' = IF disk[own.root] = {} THEN records \ {own.root} ELSE records \cup {own.root}
    /\ own' = [own EXCEPT !.step = "idle"]
    /\ LookupsSee(disk)
    /\ UNCHANGED <<env, marks, upsets, overlapped, cacheVars>>

EntryExpires ==
    /\ upsets < MaxUpsets /\ upsets' = upsets + 1
    /\ \E key \in Keys : Expire(key)
    /\ UNCHANGED <<env, lookup, records, marks, own, overlapped>>

-----------------------------------------------------------------------------
Goes(l) ==
    \/ FindsNothing(l) \/ SkipSource(l) \/ Take(l) \/ Resolve(l)
    \/ Run(l) \/ Finish(l) \/ ResolveNext(l) \/ ResolveEnds(l)
    \/ Judge(l) \/ ListsNothing(l) \/ AskArchitecture(l) \/ Decide(l) \/ MarkInUse(l)

Next ==
    \/ \E l \in Lookups : Start(l) \/ Goes(l)
    \/ \E r \in Roots \ Managed : SomebodyChanges(r)
    \/ \E r \in Managed : OwnInstall(r) \/ OwnUninstall(r)
    \/ OwnInvalidates \/ OwnRecords
    \/ EntryExpires

Spec == Init /\ [][Next]_vars

-----------------------------------------------------------------------------
\* The list in commands.md, what it says to skip, and what each source offers.
Documentation == <<"setting", "shell", "PATH", "realPATH", "root", "managed", "hostfxr">>
Consulted(l, s) ==
    /\ s \in {"setting", "managed"} => ~ Sdk(l)
    /\ s = "managed" => LocalLookup[l]
    /\ s = "hostfxr" => ~ SkipHostfxr
Offers(s) ==
    CASE s = "managed" -> SetToSeq(records)
      [] s = "root" -> Candidates["root"]
      [] s = "realPATH" -> [n \in DOMAIN Candidates["PATH"] |-> At[Candidates["PATH"][n]]]
      [] OTHER -> [n \in DOMAIN Candidates[s] |-> At[Candidates[s][n]]]

\* The setting is taken with previews.
Wanted(l, s) == IF s = "setting" THEN [Request[l] EXCEPT !.rejectPreviews = FALSE] ELSE Request[l]

\* The host holds an install the request accepts.
Acceptable(l, s, host) ==
    /\ HostArch[At[host]] = Arch[l]
    /\ \E i \in disk[At[host]] : Documented(i, Wanted(l, s))

\* The n-th offer of the d-th source, for all that the request accepts.
Options(l) == UNION {LET s == Documentation[d] IN
    {<<d, n>> : n \in {m \in DOMAIN Offers(s) : Consulted(l, s) /\ Acceptable(l, s, Offers(s)[m])}} :
        d \in DOMAIN Documentation}

\* The extension's own installs are recorded in no particular order.
ComesBefore(p, q) ==
    p[1] < q[1] \/ (p[1] = q[1] /\ Documentation[p[1]] # "managed" /\ p[2] < q[2])

\* Unless an install changed meanwhile or a cached listing was out of date, findPath
\* returns the first candidate in the documented order that meets the request, and
\* undefined only if there is none, whatever other lookups do at the same time
\* (extension.ts 687-771, DotnetResolver, DotnetConditionValidator).
FirstInOrder ==
    \A l \in Lookups : lookup[l].pc = "done" /\ lookup[l].clean =>
        \/ Options(l) = {} /\ lookup[l].result = Nowhere
        \/ \E p \in Options(l) :
             /\ lookup[l].result = Offers(Documentation[p[1]])[p[2]]
             /\ \A q \in Options(l) : ~ ComesBefore(q, p)

\* Whatever changes and however old the listings are, the host returned did meet the
\* request at a moment between the oldest listing the lookup could have used and its end.
ResultWasMet ==
    \A l \in Lookups : lookup[l].result # Nowhere => At[lookup[l].result] \in lookup[l].could

\* After the extension has installed or removed a .NET and cleared the cache, an entry
\* about that directory is out of date only if its command had read the directory before
\* the change and ended after it (LocalMemoryCacheSingleton.invalidateEntriesContaining).
\* This is of hosts that do not honour multi-level lookup; others list other roots too.
InvalidationReaches ==
    \A k \in Keys : k.name \in Managed /\ Stale(k) =>
        \/ cache[k].crossed
        \/ own.root = k.name /\ own.step \in {"installed", "wiped"}

\* A lookup that runs alone gives DOTNET_MULTILEVEL_LOOKUP back to the user, on every
\* path out of getDotnetInstalls and resolveTruePaths.
EnvLeaksOnlyByOverlap ==
    env # "user" => overlapped \/ \E l \in Lookups : Holds(l)

\* A host lists the installs of other roots only if two lookups overlapped: every listing
\* command is started with multi-level lookup off, except in a loop that another lookup
\* has disturbed.
ListsOneRoot ==
    \A l \in Lookups : lookup[l].pc \in {"running", "ran"} /\ lookup[l].key.env # "0" =>
        overlapped /\ lookup[l].task = "resolve"

\* The comments at DotnetResolver.ts:96 and :211: the environment variable is restored to
\* its original value.
EnvRestored == (\A l \in Lookups : ~ Holds(l)) => env = "user"
=============================================================================
