----------------------------- MODULE CommandCache -----------------------------
(***************************************************************************)
(* LocalMemoryCacheSingleton and what its entries are about: the output of *)
(* `dotnet --list-runtimes` and `dotnet --list-sdks`, as the processes     *)
(* CommandExecutor.execute starts read them from disk.                     *)
(*                                                                         *)
(* An entry's key is the text of the command and of its options.  Three    *)
(* things of it differ between the commands here: what is listed, the host *)
(* that lists it and DOTNET_MULTILEVEL_LOOKUP.                             *)
(***************************************************************************)
EXTENDS VersionRequirement, FiniteSets

CONSTANTS
    Roots,          \* install roots: the directories that hold a dotnet executable
    Names,          \* paths and command names that may run one; a root is its own true path
    At,             \* the root each name leads to
    Installs,       \* what an install root may hold
    GlobalRoot,     \* where multi-level lookup also looks
    MultiLevel,     \* the hosts honour DOTNET_MULTILEVEL_LOOKUP (.NET 6 and below, Windows)
    Windows,
    Nowhere         \* no root, no path, no entry

ListingKinds == {"runtimes", "sdks"}
EnvValues == {"0", "user"}      \* what the code sets, and what the user has

ASSUME CacheAssumption ==
    /\ Roots \subseteq Names /\ Nowhere \notin Names \cup EnvValues
    /\ At \in [Names -> Roots] /\ \A r \in Roots : At[r] = r
    /\ GlobalRoot \in Roots
    /\ Installs \subseteq [mode : Modes, version : Versions]
    /\ MultiLevel \in BOOLEAN /\ Windows \in BOOLEAN

VARIABLES
    disk,       \* the installs in each root
    cache,      \* the entry of each key
    alias       \* commandRootAliases; a name that has none is its own

cacheVars == <<disk, cache, alias>>

Keys == [kind : ListingKinds, name : Names, env : EnvValues]

\* An output lists installs with their roots; `first` is the root of its first line.
\* An entry is [out, crossed]; `crossed` is history: the disk changed between the
\* reading and the storing.
IsOutput(out) == out.items \subseteq Roots \X Installs /\ out.first \in Roots \cup {Nowhere}

CacheTypeOK ==
    /\ disk \in [Roots -> SUBSET Installs]
    /\ alias \in [Names -> Names]
    /\ DOMAIN cache = Keys
    /\ \A k \in Keys : cache[k] # Nowhere => IsOutput(cache[k].out) /\ cache[k].crossed \in BOOLEAN

\* The key under which a command is looked up and stored.
KeyOf(kind, name, env, aliases) == [kind |-> kind, name |-> aliases[name], env |-> env]

\* What the host `name` lists: the SDKs or everything else.
Listed(kind, name, env) ==
    LET roots == {At[name]} \cup (IF MultiLevel /\ env = "user" THEN {GlobalRoot} ELSE {})
    IN  {x \in roots \X Installs :
           x[2] \in disk[x[1]] /\ ((kind = "sdks") <=> (x[2].mode = "sdk"))}

\* The outputs of running it; which line comes first is the host's order.
OutputsOf(kind, name, env) ==
    LET items == Listed(kind, name, env) IN
    IF items = {} THEN {[items |-> {}, first |-> Nowhere]}
    ELSE {[items |-> items, first |-> x[1]] : x \in items}

\* aliasCommandAsAnotherCommandRoot, after `tentative` turned out to be truePath
Aliased(truePath, tentative) ==
    IF Windows /\ truePath # Nowhere THEN [alias EXCEPT ![truePath] = tentative] ELSE alias

Put(key, out, crossed) == cache' = [cache EXCEPT ![key] = [out |-> out, crossed |-> crossed]]

\* Mutant of Invalidate: only what `--list-sdks` said is dropped.
InvalidateSdks(r) ==
    cache' = [k \in Keys |-> IF k.name = r /\ k.kind = "sdks" THEN Nowhere ELSE cache[k]]

\* invalidateEntriesContaining the directory r
Invalidate(r) == cache' = [k \in Keys |-> IF k.name = r THEN Nowhere ELSE cache[k]]

\* The time to live of the entry is over.
Expire(key) ==
    /\ cache[key] # Nowhere
    /\ cache' = [cache EXCEPT ![key] = Nowhere]
    /\ UNCHANGED <<disk, alias>>

\* The entry says something else than the host would say now.
Stale(key) == cache[key] # Nowhere /\ cache[key].out.items # Listed(key.kind, key.name, key.env)
=============================================================================
