-------------------------- MODULE FindPath_proofs --------------------------
(***************************************************************************)
(* Proofs about FindPath, for any lookups, installs and hosts: who changes *)
(* DOTNET_MULTILEVEL_LOOKUP of the process, and with which value of it the *)
(* listing commands are started; then the types, what an entry of the      *)
(* cache may say after an install or an uninstall, that the host a lookup  *)
(* returns did meet its request, and that it is the first that does.       *)
(***************************************************************************)
EXTENDS FindPath, VersionRequirement_proofs, FiniteSetTheorems, TLAPS

Fields == {"pc", "src", "task", "todo", "found", "outer", "inner", "key", "name", "out", "listing",
           "result", "clean", "crossed", "could"}

IsLookup(k) == DOMAIN k = Fields

Asking == {"running", "ran", "answered"}

\* A lookup has saved env while it asks a host, and twice while it asks for the architecture.
SavesFit(k) ==
    \/ /\ k.pc \notin Asking
       /\ k.outer = Nowhere /\ k.inner = Nowhere
    \/ /\ k.pc \in Asking /\ k.task \in {"resolve", "list"}
       /\ k.outer \in EnvValues /\ k.inner = Nowhere
    \/ /\ k.pc \in Asking /\ k.task = "arch"
       /\ k.outer \in EnvValues /\ k.inner \in EnvValues

KeyFits(k, disturbed) == k.pc \in {"running", "ran"} /\ k.key.env # "0" => disturbed /\ k.task = "resolve"

Fits(k, disturbed) == IsLookup(k) /\ SavesFit(k) /\ KeyFits(k, disturbed)

\* Without an overlap at most one lookup has saved env; what it saved first is the user's,
\* and what it set is what env is.
Undisturbed ==
    /\ \A l \in Lookups : Holds(l) =>
         /\ env = "0" /\ lookup[l].outer = "user" /\ lookup[l].inner \in {Nowhere, "0"}
         /\ \A o \in Lookups \ {l} : ~ Holds(o)
    /\ (\A l \in Lookups : ~ Holds(l)) => env = "user"

EnvInv ==
    /\ lookup = [l \in Lookups |-> lookup[l]]
    /\ env \in EnvValues
    /\ \A l \in Lookups : Fits(lookup[l], overlapped)
    /\ ~ overlapped => Undisturbed

-----------------------------------------------------------------------------
(***************************************************************************)
(* What becomes of a lookup                                                *)
(***************************************************************************)
LEMMA ExecuteFits ==
    ASSUME NEW k, IsLookup(k), NEW task, NEW kind, NEW name, NEW e, NEW aliases
    PROVE  \E x :
           /\ x = Execute(k, task, kind, name, e, aliases)
           /\ IsLookup(x) /\ x.pc \in {"running", "answered"} /\ x.task = task /\ x.key.env = e
           /\ x.outer = k.outer /\ x.inner = k.inner
  <1> DEFINE x == Execute(k, task, kind, name, e, aliases)
  <1>1. /\ IsLookup(x) /\ x.pc \in {"running", "answered"} /\ x.task = task /\ x.key.env = e
        /\ x.outer = k.outer /\ x.inner = k.inner
    BY DEF IsLookup, Fields, Execute, KeyOf
  <1> QED
    BY <1>1

LEMMA OnwardFits ==
    ASSUME NEW k, IsLookup(k)
    PROVE  /\ IsLookup(Onward(k)) /\ Onward(k).pc \in {"source", "pick"}
           /\ Onward(k).outer = k.outer /\ Onward(k).inner = k.inner
  BY DEF IsLookup, Fields, Onward

LEMMA SettledFits ==
    ASSUME NEW k, IsLookup(k)
    PROVE  /\ IsLookup(Settled(k)) /\ Settled(k).pc = k.pc
           /\ Settled(k).outer = k.outer /\ Settled(k).inner = k.inner
  BY DEF IsLookup, Fields, Settled

LEMMA IdleFits ==
    IsLookup(Idle) /\ Idle.pc = "idle" /\ Idle.outer = Nowhere /\ Idle.inner = Nowhere
  BY DEF Idle, IsLookup, Fields

LEMMA EndedFits ==
    ASSUME NEW k, IsLookup(k), NEW path
    PROVE  /\ IsLookup(Ended(k, path)) /\ Ended(k, path).pc = "done"
           /\ Ended(k, path).outer = Nowhere /\ Ended(k, path).inner = Nowhere
  BY IdleFits DEF IsLookup, Fields, Ended

-----------------------------------------------------------------------------
(***************************************************************************)
(* What becomes of env                                                     *)
(***************************************************************************)
SavedAsBefore(l) == lookup'[l].outer = lookup[l].outer /\ lookup'[l].inner = lookup[l].inner

\* A lookup saves env for the first time, or for the second, and sets it; or restores it.
SavesFirst(l) ==
    /\ ~ Holds(l) /\ env' = "0" /\ SaveOverlaps(l)
    /\ lookup'[l].outer = env /\ lookup'[l].inner = Nowhere
SavesAgain(l) ==
    /\ Holds(l) /\ env' = "0" /\ SaveOverlaps(l)
    /\ lookup'[l].outer = lookup[l].outer /\ lookup'[l].inner = env
Restores(l) ==
    /\ Holds(l) /\ env' = lookup[l].outer /\ UNCHANGED overlapped
    /\ lookup[l].outer \in EnvValues
    /\ lookup'[l].outer = Nowhere /\ lookup'[l].inner = Nowhere

LEMMA EnvOfOne ==
    ASSUME EnvInv, NEW l \in Lookups,
           lookup' = [o \in Lookups |-> lookup'[o]],
           \A o \in Lookups \ {l} : lookup'[o] = lookup[o],
           Fits(lookup'[l], overlapped'),
           \/ SavedAsBefore(l) /\ UNCHANGED <<env, overlapped>>
           \/ SavesFirst(l) \/ SavesAgain(l) \/ Restores(l)
    PROVE  EnvInv'
  <1>1. overlapped => overlapped'
    BY DEF SavesFirst, SavesAgain, Restores, SaveOverlaps
  <1>2. env' \in EnvValues
    BY DEF EnvInv, SavesFirst, SavesAgain, Restores, EnvValues
  <1>3. \A o \in Lookups : Fits(lookup[o], overlapped)'
    BY <1>1 DEF EnvInv, Fits, KeyFits
  <1>4. \A o \in Lookups \ {l} : Holds(o)' <=> Holds(o)
    BY DEF Holds
  <1>5. ASSUME ~ overlapped' PROVE Undisturbed'
    <2>1. Undisturbed
      BY <1>1, <1>5 DEF EnvInv
    <2>2. CASE SavedAsBefore(l) /\ UNCHANGED <<env, overlapped>>
      <3>1. Holds(l)' <=> Holds(l)
        BY <2>2 DEF SavedAsBefore, Holds
      <3> QED
        BY <1>4, <2>1, <2>2, <3>1 DEF Undisturbed, SavedAsBefore
    <2>3. CASE SavesFirst(l)
      <3>1. \A o \in Lookups : ~ Holds(o)
        BY <1>5, <2>3 DEF SavesFirst, SaveOverlaps
      <3>2. env = "user"
        BY <2>1, <3>1 DEF Undisturbed
      <3>3. Holds(l)'
        BY <2>3, <3>2, CacheAssumption DEF SavesFirst, Holds, EnvValues
      <3> QED
        BY <1>4, <2>3, <3>1, <3>2, <3>3 DEF Undisturbed, SavesFirst
    <2>4. CASE SavesAgain(l)
      <3>1. (\A o \in Lookups \ {l} : ~ Holds(o)) /\ Holds(l)
        BY <1>5, <2>4 DEF SavesAgain, SaveOverlaps
      <3>2. env = "0" /\ lookup[l].outer = "user"
        BY <2>1, <3>1 DEF Undisturbed
      <3>3. Holds(l)'
        BY <2>4, <3>2, CacheAssumption DEF SavesAgain, Holds, EnvValues
      <3> QED
        BY <1>4, <2>4, <3>1, <3>2, <3>3 DEF Undisturbed, SavesAgain
    <2>5. CASE Restores(l)
      <3>1. (\A o \in Lookups \ {l} : ~ Holds(o)) /\ lookup[l].outer = "user"
        BY <2>1, <2>5 DEF Undisturbed, Restores
      <3>2. env' = "user" /\ ~ Holds(l)'
        BY <2>5, <3>1 DEF Restores, Holds
      <3> QED
        BY <1>4, <3>1, <3>2 DEF Undisturbed
    <2> QED
      BY <2>2, <2>3, <2>4, <2>5
  <1> QED
    BY <1>2, <1>3, <1>5 DEF EnvInv

\* The common case: one lookup becomes k.
LEMMA BecomesFits ==
    ASSUME EnvInv, NEW l \in Lookups, NEW k,
           lookup' = [lookup EXCEPT ![l] = k]
    PROVE  /\ lookup' = [o \in Lookups |-> lookup'[o]] /\ lookup'[l] = k
           /\ \A o \in Lookups \ {l} : lookup'[o] = lookup[o]
  BY DEF EnvInv

\* The installs change, and no lookup moves.
LEMMA EnvOfAll ==
    ASSUME EnvInv, UNCHANGED <<env, overlapped>>,
           \/ UNCHANGED lookup
           \/ LookupsSee(disk)
           \/ LookupsSee(disk')
    PROVE  EnvInv'
  <1>1. /\ lookup' = [l \in Lookups |-> lookup'[l]]
        /\ \A l \in Lookups :
             /\ IsLookup(lookup'[l]) /\ SavedAsBefore(l)
             /\ lookup'[l].pc = lookup[l].pc /\ lookup'[l].task = lookup[l].task
             /\ lookup'[l].key = lookup[l].key
    <2>1. CASE UNCHANGED lookup
      BY <2>1 DEF EnvInv, Fits, SavedAsBefore
    <2>2. ASSUME NEW contents, LookupsSee(contents)
          PROVE  /\ lookup' = [l \in Lookups |-> lookup'[l]]
                 /\ \A l \in Lookups :
                      /\ IsLookup(lookup'[l]) /\ SavedAsBefore(l)
                      /\ lookup'[l].pc = lookup[l].pc /\ lookup'[l].task = lookup[l].task
                      /\ lookup'[l].key = lookup[l].key
      <3>1. lookup' = [l \in Lookups |-> lookup'[l]]
        BY <2>2 DEF LookupsSee
      <3>2. ASSUME NEW l \in Lookups
            PROVE  /\ IsLookup(lookup'[l]) /\ SavedAsBefore(l)
                   /\ lookup'[l].pc = lookup[l].pc /\ lookup'[l].task = lookup[l].task
                   /\ lookup'[l].key = lookup[l].key
        <4>1. IsLookup(lookup[l])
          BY DEF EnvInv, Fits
        <4>2. \/ lookup'[l] = lookup[l]
              \/ lookup'[l] = [lookup[l] EXCEPT !.clean = FALSE]
              \/ \E c, d : lookup'[l] = [lookup[l] EXCEPT !.clean = FALSE, !.crossed = c, !.could = d]
          BY <2>2 DEF LookupsSee
        <4> QED
          BY <4>1, <4>2 DEF IsLookup, Fields, SavedAsBefore
      <3> QED
        BY <3>1, <3>2
    <2> QED
      BY <2>1, <2>2
  <1>2. \A l \in Lookups : Fits(lookup[l], overlapped)'
    BY <1>1 DEF EnvInv, Fits, SavesFit, KeyFits, SavedAsBefore
  <1>3. \A l \in Lookups : Holds(l)' <=> Holds(l)
    BY <1>1 DEF Holds, SavedAsBefore
  <1>4. Undisturbed => Undisturbed'
    BY <1>1, <1>3 DEF Undisturbed, SavedAsBefore
  <1> QED
    BY <1>1, <1>2, <1>4 DEF EnvInv

-----------------------------------------------------------------------------
(***************************************************************************)
(* The steps                                                               *)
(***************************************************************************)

\* A lookup that asks nobody neither before nor after.
LEMMA EnvOfQuiet ==
    ASSUME EnvInv, NEW l \in Lookups, lookup[l].pc \notin Asking, UNCHANGED <<env, overlapped>>,
           NEW x, lookup' = [lookup EXCEPT ![l] = x], IsLookup(x), x.pc \notin Asking,
           x.outer = lookup[l].outer, x.inner = lookup[l].inner
    PROVE  EnvInv'
  <1>1. Fits(x, overlapped)
    BY DEF EnvInv, Fits, SavesFit, KeyFits, Asking
  <1> QED
    BY <1>1, BecomesFits, EnvOfOne DEF SavedAsBefore

\* Steps that neither save nor restore.
LEMMA EnvKept ==
    ASSUME EnvInv, NEW l \in Lookups,
           \/ Start(l) \/ FindsNothing(l) \/ SkipSource(l) \/ Take(l) \/ Run(l) \/ Finish(l)
           \/ MarkInUse(l)
    PROVE  EnvInv'
  <1> DEFINE k == lookup[l]
             found(path) == [k EXCEPT !.found = path]
  <1>1. Fits(k, overlapped) /\ IsLookup(k) /\ UNCHANGED <<env, overlapped>>
    BY DEF EnvInv, Fits, Start, FindsNothing, SkipSource, Take, Run, Finish, MarkInUse
  <1>2. \A path : IsLookup(found(path)) /\ found(path).outer = k.outer /\ found(path).inner = k.inner
    BY <1>1 DEF IsLookup, Fields
  <1>3. k.pc \notin Asking => k.outer = Nowhere /\ k.inner = Nowhere
    BY <1>1 DEF Fits, SavesFit
  <1>4. CASE Start(l)
    <2> DEFINE x == [k EXCEPT !.pc = "source", !.could = CouldMeet(l, disk)]
    <2>1. IsLookup(x) /\ x.pc = "source" /\ x.outer = k.outer /\ x.inner = k.inner
      BY <1>1 DEF IsLookup, Fields
    <2>2. lookup' = [lookup EXCEPT ![l] = x] /\ k.pc \notin Asking
      BY <1>4 DEF Start, Asking
    <2> HIDE DEF x
    <2> QED
      BY <1>1, <2>1, <2>2, EnvOfQuiet DEF Asking
  <1>5. CASE SkipSource(l)
    <2> DEFINE x == [k EXCEPT !.src = k.src + 1, !.found = <<>>]
    <2>1. IsLookup(x) /\ x.pc = k.pc /\ x.outer = k.outer /\ x.inner = k.inner
      BY <1>1 DEF IsLookup, Fields
    <2>2. lookup' = [lookup EXCEPT ![l] = x] /\ k.pc \notin Asking
      BY <1>5 DEF SkipSource, AtSource, Asking
    <2> HIDE DEF x
    <2> QED
      BY <1>1, <2>1, <2>2, EnvOfQuiet DEF Asking
  <1>6. CASE FindsNothing(l)
    <2>1. lookup' = [lookup EXCEPT ![l] = Ended(k, Nowhere)] /\ k.pc \notin Asking
      BY <1>6 DEF FindsNothing, Asking
    <2>2. /\ IsLookup(Ended(k, Nowhere)) /\ Ended(k, Nowhere).pc \notin Asking
          /\ Ended(k, Nowhere).outer = k.outer /\ Ended(k, Nowhere).inner = k.inner
      BY <1>1, <1>3, <2>1, EndedFits DEF Asking
    <2> QED
      BY <1>1, <2>1, <2>2, EnvOfQuiet
  <1>7. CASE Take(l)
    <2> DEFINE x == found(NamesOf(l))
    <2>1. lookup' = [lookup EXCEPT ![l] = Onward(x)] /\ k.pc \notin Asking
      BY <1>7 DEF Take, AtSource, Asking
    <2>2. IsLookup(x) /\ x.outer = k.outer /\ x.inner = k.inner
      BY <1>2
    <2> HIDE DEF x
    <2>3. /\ IsLookup(Onward(x)) /\ Onward(x).pc \notin Asking
          /\ Onward(x).outer = k.outer /\ Onward(x).inner = k.inner
      BY <2>2, OnwardFits DEF Asking
    <2> QED
      BY <1>1, <2>1, <2>3, EnvOfQuiet
  <1>8. CASE MarkInUse(l)
    <2> DEFINE x == found(Tail(k.found))
               y == Ended(k, k.found[1])
    <2>1. /\ k.pc \notin Asking
          /\ \/ lookup' = [lookup EXCEPT ![l] = y]
             \/ lookup' = [lookup EXCEPT ![l] = Onward(x)]
      <3>1. CASE Returns(l)
        BY <1>8, <3>1 DEF MarkInUse, Asking
      <3>2. CASE ~ Returns(l)
        BY <1>8, <3>2 DEF MarkInUse, Asking
      <3> QED
        BY <3>1, <3>2
    <2>2. IsLookup(x) /\ x.outer = k.outer /\ x.inner = k.inner
      BY <1>2
    <2>3. IsLookup(y) /\ y.pc \notin Asking /\ y.outer = k.outer /\ y.inner = k.inner
      BY <1>1, <1>3, <2>1, EndedFits DEF Asking
    <2> HIDE DEF x, y
    <2>4. /\ IsLookup(Onward(x)) /\ Onward(x).pc \notin Asking
          /\ Onward(x).outer = k.outer /\ Onward(x).inner = k.inner
      BY <2>2, OnwardFits DEF Asking
    <2>5. CASE lookup' = [lookup EXCEPT ![l] = y]
      BY <1>1, <2>1, <2>3, <2>5, EnvOfQuiet
    <2>6. CASE lookup' = [lookup EXCEPT ![l] = Onward(x)]
      BY <1>1, <2>1, <2>4, <2>6, EnvOfQuiet
    <2> QED
      BY <2>1, <2>5, <2>6
  <1>9. ASSUME NEW x, lookup' = [lookup EXCEPT ![l] = x], IsLookup(x),
               x.outer = k.outer, x.inner = k.inner, x.task = k.task, x.key = k.key,
               k.pc \in {"running", "ran"}, x.pc \in {"ran", "answered"}
        PROVE  EnvInv'
    <2>1. Fits(x, overlapped)
      BY <1>1, <1>9 DEF Fits, SavesFit, KeyFits, Asking
    <2> QED
      BY <1>1, <1>9, <2>1, BecomesFits, EnvOfOne DEF SavedAsBefore
  <1>10. CASE Run(l)
    <2>1. PICK out : lookup' = [lookup EXCEPT ![l].pc = "ran", ![l].out = out]
      BY <1>10 DEF Run
    <2> DEFINE x == [k EXCEPT !.pc = "ran", !.out = out]
    <2>2. lookup' = [lookup EXCEPT ![l] = x] /\ k.pc = "running"
      BY <1>10, <2>1 DEF Run
    <2>3. /\ IsLookup(x) /\ x.pc = "ran" /\ x.outer = k.outer /\ x.inner = k.inner
          /\ x.task = k.task /\ x.key = k.key
      BY <1>1 DEF IsLookup, Fields
    <2> HIDE DEF x
    <2> QED
      BY <1>9, <2>2, <2>3
  <1>11. CASE Finish(l)
    <2> DEFINE x == [k EXCEPT !.pc = "answered"]
    <2>1. lookup' = [lookup EXCEPT ![l] = x] /\ k.pc = "ran"
      BY <1>11 DEF Finish
    <2>2. /\ IsLookup(x) /\ x.pc = "answered" /\ x.outer = k.outer /\ x.inner = k.inner
          /\ x.task = k.task /\ x.key = k.key
      BY <1>1 DEF IsLookup, Fields
    <2> HIDE DEF x
    <2> QED
      BY <1>9, <2>1, <2>2
  <1> QED
    BY <1>4, <1>5, <1>6, <1>7, <1>8, <1>10, <1>11

\* resolveTruePaths and getDotnetInstalls save env and set it.
LEMMA EnvSaved ==
    ASSUME EnvInv, NEW l \in Lookups, Resolve(l) \/ Judge(l) \/ AskArchitecture(l)
    PROVE  EnvInv' /\ Holds(l)' /\ \A o \in Lookups \ {l} : lookup'[o] = lookup[o]
  <1> DEFINE k == lookup[l]
  <1>1. Fits(k, overlapped) /\ env \in EnvValues
    BY DEF EnvInv
  <1>2. CASE Resolve(l) \/ Judge(l)
    <2>1. ~ Holds(l)
      BY <1>1, <1>2 DEF Resolve, Judge, AtSource, Holds, Fits, SavesFit, Asking
    <2>2. PICK x : /\ lookup' = [lookup EXCEPT ![l] = x] /\ IsLookup(x)
                   /\ x.pc \in {"running", "answered"} /\ x.task \in {"resolve", "list"}
                   /\ x.key.env = "0" /\ x.outer = env /\ x.inner = k.inner
      <3>1. CASE Resolve(l)
        <4> DEFINE s == [k EXCEPT !.outer = env, !.todo = NamesOf(l), !.found = <<>>]
        <4>1. IsLookup(s) /\ s.outer = env /\ s.inner = k.inner
          BY <1>1 DEF Fits, IsLookup, Fields
        <4>2. lookup' = [lookup EXCEPT ![l] =
                           Execute(s, "resolve", "runtimes", NamesOf(l)[1], "0", alias)]
          BY <3>1 DEF Resolve, EnvInv
        <4> HIDE DEF s
        <4>3. \E x : /\ x = Execute(s, "resolve", "runtimes", NamesOf(l)[1], "0", alias)
                     /\ IsLookup(x) /\ x.pc \in {"running", "answered"} /\ x.task = "resolve"
                     /\ x.key.env = "0" /\ x.outer = s.outer /\ x.inner = s.inner
          BY <4>1, ExecuteFits
        <4> QED
          BY <4>1, <4>2, <4>3
      <3>2. CASE Judge(l)
        <4> DEFINE s == [k EXCEPT !.outer = env]
        <4>1. IsLookup(s) /\ s.outer = env /\ s.inner = k.inner
          BY <1>1 DEF Fits, IsLookup, Fields
        <4>2. lookup' = [lookup EXCEPT ![l] =
                           Execute(s, "list", ListingOf(l), k.found[1], "0", alias)]
          BY <3>2 DEF Judge, EnvInv
        <4> HIDE DEF s
        <4>3. \E x : /\ x = Execute(s, "list", ListingOf(l), k.found[1], "0", alias)
                     /\ IsLookup(x) /\ x.pc \in {"running", "answered"} /\ x.task = "list"
                     /\ x.key.env = "0" /\ x.outer = s.outer /\ x.inner = s.inner
          BY <4>1, ExecuteFits
        <4> QED
          BY <4>1, <4>2, <4>3
      <3> QED
        BY <1>2, <3>1, <3>2
    <2>3. lookup'[l] = x /\ x.inner = Nowhere
      BY <2>1, <2>2, BecomesFits DEF Holds
    <2>4. Fits(x, overlapped')
      BY <1>1, <2>2, <2>3 DEF Fits, SavesFit, KeyFits, Asking
    <2>5. SavesFirst(l)
      BY <1>2, <2>1, <2>2, <2>3 DEF SavesFirst, Resolve, Judge
    <2>6. Holds(l)' /\ \A o \in Lookups \ {l} : lookup'[o] = lookup[o]
      BY <1>1, <2>2, <2>3, CacheAssumption DEF Holds, EnvInv
    <2> QED
      BY <2>2, <2>3, <2>4, <2>5, <2>6, BecomesFits, EnvOfOne
  <1>3. CASE AskArchitecture(l)
    <2> DEFINE s == [k EXCEPT !.inner = env, !.listing = k.out.items]
    <2>1. IsLookup(s) /\ s.outer = k.outer /\ s.inner = env
      BY <1>1 DEF Fits, IsLookup, Fields
    <2>2. lookup' = [lookup EXCEPT ![l] = Execute(s, "arch", "runtimes", k.found[1], "0", alias)]
      BY <1>3 DEF AskArchitecture, EnvInv
    <2>3. k.outer \in EnvValues /\ Holds(l)
      BY <1>1, <1>3, CacheAssumption DEF AskArchitecture, Answered, Fits, SavesFit, Asking, Holds
    <2> HIDE DEF s
    <2>4. PICK x : /\ lookup' = [lookup EXCEPT ![l] = x] /\ IsLookup(x)
                   /\ x.pc \in {"running", "answered"} /\ x.task = "arch"
                   /\ x.key.env = "0" /\ x.outer = k.outer /\ x.inner = env
      <3>1. \E x : /\ x = Execute(s, "arch", "runtimes", k.found[1], "0", alias)
                   /\ IsLookup(x) /\ x.pc \in {"running", "answered"} /\ x.task = "arch"
                   /\ x.key.env = "0" /\ x.outer = s.outer /\ x.inner = s.inner
        BY <2>1, ExecuteFits
      <3> QED
        BY <2>1, <2>2, <3>1
    <2>5. lookup'[l] = x
      BY <2>4, BecomesFits
    <2>6. Fits(x, overlapped')
      BY <1>1, <2>3, <2>4 DEF Fits, SavesFit, KeyFits, Asking
    <2>7. SavesAgain(l)
      BY <1>3, <2>3, <2>4, <2>5 DEF SavesAgain, AskArchitecture
    <2>8. Holds(l)' /\ \A o \in Lookups \ {l} : lookup'[o] = lookup[o]
      BY <1>1, <2>4, <2>5, CacheAssumption DEF Holds, EnvInv
    <2> QED
      BY <2>4, <2>5, <2>6, <2>7, <2>8, BecomesFits, EnvOfOne
  <1> QED
    BY <1>2, <1>3

\* The loop of resolveTruePaths asks with whatever env is.
LEMMA EnvRead ==
    ASSUME EnvInv, NEW l \in Lookups, ResolveNext(l)
    PROVE  EnvInv'
  <1> DEFINE k == lookup[l]
             s == [k EXCEPT !.todo = Tail(k.todo), !.found = FoundSoFar(l)]
  <1>1. Fits(k, overlapped) /\ UNCHANGED <<env, overlapped>>
    BY DEF EnvInv, ResolveNext
  <1>2. IsLookup(s) /\ s.outer = k.outer /\ s.inner = k.inner
    BY <1>1 DEF Fits, IsLookup, Fields
  <1>3. lookup' = [lookup EXCEPT ![l] = Execute(s, "resolve", "runtimes", k.todo[2], env,
                                                Aliased(k.out.first, k.todo[1]))]
    BY DEF ResolveNext, EnvInv
  <1>4. k.outer \in EnvValues /\ k.inner = Nowhere /\ Holds(l)
    BY <1>1, CacheAssumption DEF ResolveNext, Answered, Fits, SavesFit, Asking, Holds
  <1> HIDE DEF s
  <1>5. PICK x : /\ lookup' = [lookup EXCEPT ![l] = x] /\ IsLookup(x)
                 /\ x.pc \in {"running", "answered"} /\ x.task = "resolve"
                 /\ x.key.env = env /\ x.outer = k.outer /\ x.inner = k.inner
    <2>1. \E x : /\ x = Execute(s, "resolve", "runtimes", k.todo[2], env, Aliased(k.out.first, k.todo[1]))
                 /\ IsLookup(x) /\ x.pc \in {"running", "answered"} /\ x.task = "resolve"
                 /\ x.key.env = env /\ x.outer = s.outer /\ x.inner = s.inner
      BY <1>2, ExecuteFits
    <2> QED
      BY <1>2, <1>3, <2>1
  <1>6. env # "0" => overlapped
    BY <1>4 DEF EnvInv, Undisturbed
  <1>7. Fits(x, overlapped)
    BY <1>4, <1>5, <1>6 DEF Fits, SavesFit, KeyFits, Asking
  <1> QED
    BY <1>1, <1>5, <1>7, BecomesFits, EnvOfOne DEF SavedAsBefore

\* The finally blocks restore env.
LEMMA EnvGivenBack ==
    ASSUME EnvInv, NEW l \in Lookups, ResolveEnds(l) \/ ListsNothing(l) \/ Decide(l)
    PROVE  EnvInv'
  <1> DEFINE k == lookup[l]
  <1>1. Fits(k, overlapped) /\ IsLookup(Settled(k)) /\ UNCHANGED overlapped
    BY SettledFits DEF EnvInv, Fits, ResolveEnds, ListsNothing, Decide
  <1>2. k.outer \in EnvValues /\ Holds(l)
    BY <1>1, CacheAssumption
       DEF ResolveEnds, ListsNothing, Decide, Answered, Fits, SavesFit, Asking, Holds
  <1>3. \A x : /\ lookup' = [lookup EXCEPT ![l] = x] /\ IsLookup(x) /\ x.pc \notin Asking
               /\ x.outer = Nowhere /\ x.inner = Nowhere
               => EnvInv'
    <2> SUFFICES ASSUME NEW x, lookup' = [lookup EXCEPT ![l] = x], IsLookup(x), x.pc \notin Asking,
                        x.outer = Nowhere, x.inner = Nowhere
                 PROVE  EnvInv'
      OBVIOUS
    <2>1. Fits(x, overlapped')
      BY DEF Fits, SavesFit, KeyFits, Asking
    <2>2. lookup'[l] = x
      BY BecomesFits
    <2>3. Restores(l)
      BY <1>1, <1>2, <2>2 DEF Restores, ResolveEnds, ListsNothing, Decide
    <2> QED
      BY <2>1, <2>2, <2>3, BecomesFits, EnvOfOne
  <1>4. CASE ResolveEnds(l)
    <2> DEFINE s == [Settled(k) EXCEPT !.todo = <<>>, !.found = FoundSoFar(l), !.outer = Nowhere]
               t == [s EXCEPT !.pc = "source", !.src = s.src + 1]
    <2>1. Settled(k).inner = Nowhere
      BY <1>1, <1>4, SettledFits DEF ResolveEnds, Answered, Fits, SavesFit, Asking
    <2>2. IsLookup(s) /\ s.outer = Nowhere /\ s.inner = Nowhere
      BY <1>1, <2>1 DEF IsLookup, Fields
    <2>3. lookup' = [lookup EXCEPT ![l] = IF Source(l) = "rawPATH" THEN t ELSE Onward(s)]
      BY <1>4 DEF ResolveEnds, EnvInv
    <2> HIDE DEF s
    <2>4. IsLookup(t) /\ t.pc = "source" /\ t.outer = Nowhere /\ t.inner = Nowhere
      BY <2>2 DEF IsLookup, Fields
    <2> HIDE DEF t
    <2>5. \/ lookup' = [lookup EXCEPT ![l] = t]
          \/ lookup' = [lookup EXCEPT ![l] = Onward(s)]
      BY <2>3
    <2> QED
      BY <1>3, <2>2, <2>4, <2>5, OnwardFits DEF Asking
  <1>5. CASE ListsNothing(l)
    <2> DEFINE s == [Settled(k) EXCEPT !.outer = Nowhere, !.found = Tail(k.found)]
    <2>1. Settled(k).inner = Nowhere
      BY <1>1, <1>5, SettledFits DEF ListsNothing, Answered, Fits, SavesFit, Asking
    <2>2. IsLookup(s) /\ s.outer = Nowhere /\ s.inner = Nowhere
      BY <1>1, <2>1 DEF IsLookup, Fields
    <2>3. lookup' = [lookup EXCEPT ![l] = Onward(s)]
      BY <1>5 DEF ListsNothing, EnvInv
    <2> HIDE DEF s
    <2> QED
      BY <1>3, <2>2, <2>3, OnwardFits DEF Asking
  <1>6. CASE Decide(l)
    <2> DEFINE s == [Settled(k) EXCEPT !.outer = Nowhere, !.inner = Nowhere]
               t == [s EXCEPT !.pc = "mark"]
               u == [s EXCEPT !.found = Tail(k.found)]
    <2>1. IsLookup(s) /\ s.outer = Nowhere /\ s.inner = Nowhere
      BY <1>1 DEF IsLookup, Fields
    <2>2. \/ lookup' = [lookup EXCEPT ![l] = t]
          \/ lookup' = [lookup EXCEPT ![l] = Onward(u)]
      BY <1>6 DEF Decide, EnvInv
    <2> HIDE DEF s
    <2>3. /\ IsLookup(t) /\ t.pc = "mark" /\ t.outer = Nowhere /\ t.inner = Nowhere
          /\ IsLookup(u) /\ u.outer = Nowhere /\ u.inner = Nowhere
      BY <2>1 DEF IsLookup, Fields
    <2> HIDE DEF t, u
    <2> QED
      BY <1>3, <2>2, <2>3, OnwardFits DEF Asking
  <1> QED
    BY <1>4, <1>5, <1>6

LEMMA EnvInvStep == EnvInv /\ [Next]_vars => EnvInv'
  <1> SUFFICES ASSUME EnvInv, [Next]_vars PROVE EnvInv'
    OBVIOUS
  <1>1. ASSUME NEW l \in Lookups, Start(l) \/ Goes(l) PROVE EnvInv'
    BY <1>1, EnvKept, EnvSaved, EnvRead, EnvGivenBack DEF Goes
  <1>2. ASSUME NEW r, SomebodyChanges(r) \/ OwnInstall(r) \/ OwnUninstall(r) PROVE EnvInv'
    BY <1>2, EnvOfAll DEF SomebodyChanges, OwnInstall, OwnUninstall, Change
  <1>3. CASE OwnInvalidates \/ OwnRecords \/ EntryExpires
    BY <1>3, EnvOfAll DEF OwnInvalidates, OwnRecords, EntryExpires
  <1>4. CASE UNCHANGED vars
    BY <1>4, EnvOfAll DEF vars
  <1> QED
    BY <1>1, <1>2, <1>3, <1>4 DEF Next

LEMMA EnvInvStarts == Init => EnvInv
  <1> SUFFICES ASSUME Init PROVE EnvInv
    OBVIOUS
  <1>1. /\ IsLookup(Idle) /\ Idle.pc = "idle" /\ Idle.outer = Nowhere /\ Idle.inner = Nowhere
    BY IdleFits
  <1>2. /\ lookup = [l \in Lookups |-> lookup[l]] /\ env = "user"
        /\ \A l \in Lookups : lookup[l] = Idle
    BY DEF Init
  <1> QED
    BY <1>1, <1>2 DEF EnvInv, Fits, SavesFit, KeyFits, Asking, Undisturbed, Holds, EnvValues

\* A lookup that runs alone gives DOTNET_MULTILEVEL_LOOKUP back to the user, on every
\* path out of getDotnetInstalls and resolveTruePaths.
THEOREM AloneGivesBack == Spec => []EnvLeaksOnlyByOverlap
  <1>1. EnvInv => EnvLeaksOnlyByOverlap
    BY DEF EnvInv, Undisturbed, EnvLeaksOnlyByOverlap
  <1> QED
    BY <1>1, EnvInvStarts, EnvInvStep, PTL DEF Spec

\* No two lookups have the variable saved at once.
OneHolds == \A l, o \in Lookups : Holds(l) /\ Holds(o) => l = o

\* Whoever saves the variable while another has it saved makes two that do.
LEMMA OverlapShows ==
    ASSUME EnvInv, [Next]_vars, OneHolds', ~ overlapped
    PROVE  ~ overlapped'
  <1>1. ASSUME NEW l \in Lookups, Resolve(l) \/ Judge(l) \/ AskArchitecture(l)
        PROVE  ~ overlapped'
    <2>1. Holds(l)' /\ \A o \in Lookups \ {l} : lookup'[o] = lookup[o]
      BY <1>1, EnvSaved
    <2>2. \A o \in Lookups \ {l} : ~ Holds(o)
      BY <2>1 DEF OneHolds, Holds
    <2> QED
      BY <1>1, <2>2 DEF Resolve, Judge, AskArchitecture, SaveOverlaps
  <1>2. ASSUME NEW l \in Lookups, Start(l) \/ Goes(l),
               ~ (Resolve(l) \/ Judge(l) \/ AskArchitecture(l))
        PROVE  overlapped' = overlapped
    BY <1>2 DEF Start, Goes, FindsNothing, SkipSource, Take, Run, Finish, ResolveNext, ResolveEnds,
                ListsNothing, Decide, MarkInUse
  <1>3. ASSUME NEW r, SomebodyChanges(r) \/ OwnInstall(r) \/ OwnUninstall(r)
        PROVE  overlapped' = overlapped
    BY <1>3 DEF SomebodyChanges, OwnInstall, OwnUninstall, Change
  <1>4. CASE OwnInvalidates \/ OwnRecords \/ EntryExpires
    BY <1>4 DEF OwnInvalidates, OwnRecords, EntryExpires
  <1>5. CASE UNCHANGED vars
    BY <1>5 DEF vars
  <1> QED
    BY <1>1, <1>2, <1>3, <1>4, <1>5 DEF Next

\* As the comments of getDotnetInstalls and resolveTruePaths promise, the variable has its
\* value back whenever nobody has it saved, if no two lookups ever have it saved at once:
\* there is no other way to lose it.
THEOREM RestoredWithoutOverlap == Spec /\ []OneHolds => []EnvRestored
  <1>1. EnvInv /\ ~ overlapped => EnvRestored
    BY DEF EnvInv, Undisturbed, EnvRestored
  <1>2. Init => ~ overlapped
    BY DEF Init
  <1>3. EnvInv /\ ~ overlapped /\ OneHolds' /\ [Next]_vars => ~ overlapped'
    BY OverlapShows
  <1> QED
    BY <1>1, <1>2, <1>3, EnvInvStarts, EnvInvStep, PTL DEF Spec

\* A listing command is started with multi-level lookup on only in the loop of
\* resolveTruePaths, after another lookup has disturbed it.
THEOREM MultiLevelOnlyByOverlap == Spec => []ListsOneRoot
  <1>1. EnvInv => ListsOneRoot
    BY DEF EnvInv, Fits, KeyFits, ListsOneRoot
  <1> QED
    BY <1>1, EnvInvStarts, EnvInvStep, PTL DEF Spec

-----------------------------------------------------------------------------
(***************************************************************************)
(* Types                                                                   *)
(***************************************************************************)
Outputs ==
    {o \in [items : SUBSET (Roots \X Installs), first : Roots \cup {Nowhere}] :
        o.items # {} => o.first \in Roots}

Entries == [out : Outputs, crossed : BOOLEAN]

LookupRec ==
    [pc : Places, src : 1 .. Len(Order) + 1, task : Tasks, todo : Seq(Names), found : Seq(Names),
     outer : EnvValues \cup {Nowhere}, inner : EnvValues \cup {Nowhere}, key : Keys, name : Names,
     out : Outputs, listing : SUBSET (Roots \X Installs), result : Names \cup {Nowhere},
     clean : BOOLEAN, crossed : BOOLEAN, could : SUBSET Roots]

\* A lookup that is past its source has a candidate, and asks about the first one.
Shape(k) ==
    /\ k.pc \in Asking \cup {"pick", "mark"} => k.src \in 1 .. Len(Order)
    /\ k.pc \in {"pick", "mark"} => k.found # <<>>
    /\ k.pc \in Asking /\ k.task = "resolve" => k.todo # <<>> /\ k.name = k.todo[1]
    /\ k.pc \in Asking /\ k.task # "resolve" => k.found # <<>> /\ k.name = k.found[1]

CacheInv == cache \in [Keys -> Entries \cup {Nowhere}]

TypeInv ==
    /\ disk \in [Roots -> SUBSET Installs] /\ alias \in [Names -> Names]
    /\ CacheInv
    /\ env \in EnvValues /\ own \in [step : {"idle", "installed", "wiped", "cleared"}, root : Roots]
    /\ own.step # "idle" => own.root \in Managed
    /\ records \subseteq Managed /\ marks \subseteq Names
    /\ upsets \in 0 .. MaxUpsets /\ overlapped \in BOOLEAN
    /\ lookup \in [Lookups -> LookupRec]
    /\ \A l \in Lookups : Shape(lookup[l])

\* The sources.
LEMMA OrderLength == Len(Order) = 8 /\ DOMAIN Order = 1 .. 8
  BY DEF Order

\* TypeInv says more than TypeOK.
LEMMA TypesOK == TypeInv => TypeOK
  BY DEF TypeInv, TypeOK, CacheTypeOK, CacheInv, Entries, Outputs, IsOutput, LookupRec

\* A lookup that has not begun.
LEMMA IdleTypes == Idle \in LookupRec /\ Shape(Idle)
  <1>1. (CHOOSE r \in Roots : TRUE) \in Roots /\ Roots \subseteq Names
    BY CacheAssumption
  <1>2. NoOutput \in Outputs
    BY DEF NoOutput, Outputs
  <1>3. Idle \in LookupRec
    BY <1>1, <1>2, OrderLength DEF Idle, LookupRec, Places, Tasks, Keys, ListingKinds, EnvValues
  <1>4. Shape(Idle)
    BY DEF Idle, Shape, Asking
  <1> QED
    BY <1>3, <1>4

\* The step to the next candidate or source keeps the types.
LEMMA OnwardTypes ==
    ASSUME NEW x \in LookupRec, x.src \in 1 .. Len(Order)
    PROVE  Onward(x) \in LookupRec /\ Shape(Onward(x)) /\ Onward(x).could = x.could
           /\ Onward(x).found = x.found /\ Onward(x).result = x.result
  <1>1. CASE x.found = <<>>
    <2> DEFINE y == [x EXCEPT !.pc = "source", !.src = x.src + 1]
    <2>0. x.src + 1 \in 1 .. Len(Order) + 1
      BY OrderLength
    <2>1. y \in LookupRec /\ y.pc = "source" /\ y.could = x.could /\ y.found = x.found
          /\ y.result = x.result
      BY <2>0 DEF LookupRec, Places
    <2>2. Onward(x) = y
      BY <1>1 DEF Onward
    <2> HIDE DEF y
    <2> QED
      BY <2>1, <2>2 DEF Shape, Asking
  <1>2. CASE x.found # <<>>
    <2> DEFINE y == [x EXCEPT !.pc = "pick"]
    <2>1. y \in LookupRec /\ y.pc = "pick" /\ y.could = x.could /\ y.found = x.found
          /\ y.result = x.result /\ y.src = x.src
      BY DEF LookupRec, Places
    <2>2. Onward(x) = y
      BY <1>2 DEF Onward
    <2> HIDE DEF y
    <2> QED
      BY <1>2, <2>1, <2>2 DEF Shape, Asking
  <1> QED
    BY <1>1, <1>2

\* Forgetting the last command keeps the types.
LEMMA SettledTypes ==
    ASSUME NEW x \in LookupRec
    PROVE  /\ Settled(x) \in LookupRec /\ Settled(x).src = x.src /\ Settled(x).could = x.could
           /\ Settled(x).found = x.found /\ Settled(x).result = x.result
  <1>1. NoOutput \in Outputs
    BY DEF NoOutput, Outputs
  <1>2. Idle.key \in Keys /\ Idle.name \in Names
    BY IdleTypes DEF LookupRec
  <1> HIDE DEF Idle
  <1> QED
    BY <1>1, <1>2 DEF Settled, LookupRec

\* So does the end.
LEMMA EndedTypes ==
    ASSUME NEW x \in LookupRec, NEW path \in Names \cup {Nowhere}
    PROVE  /\ Ended(x, path) \in LookupRec /\ Shape(Ended(x, path)) /\ Ended(x, path).could = x.could
           /\ Ended(x, path).result = path
  <1> DEFINE y == [Idle EXCEPT !.pc = "done", !.result = path, !.clean = x.clean, !.could = x.could]
  <1>1. y \in LookupRec /\ y.pc = "done" /\ y.could = x.could /\ y.result = path
    BY IdleTypes DEF LookupRec, Places
  <1>2. Ended(x, path) = y
    BY DEF Ended
  <1> HIDE DEF y
  <1> QED
    BY <1>1, <1>2 DEF Shape, Asking

\* A key is a key under whatever aliases.
LEMMA KeyTypes ==
    ASSUME NEW kind \in ListingKinds, NEW name \in Names, NEW e \in EnvValues,
           NEW aliases \in [Names -> Names]
    PROVE  KeyOf(kind, name, e, aliases) \in Keys
  BY DEF KeyOf, Keys

\* What becomes of a lookup that executes a command.
LEMMA ExecuteTypes ==
    ASSUME CacheInv, NEW k \in LookupRec, NEW task \in Tasks, NEW kind \in ListingKinds, NEW name \in Names,
           NEW e \in EnvValues, NEW aliases \in [Names -> Names]
    PROVE  LET x == Execute(k, task, kind, name, e, aliases) IN
           /\ x \in LookupRec /\ x.src = k.src /\ x.todo = k.todo /\ x.found = k.found
           /\ x.pc \in {"running", "answered"} /\ x.task = task /\ x.name = name
           /\ x.listing = k.listing /\ x.result = k.result /\ x.could = k.could
           /\ x.key = KeyOf(kind, name, e, aliases)
           /\ x.pc = "answered" => cache[x.key] # Nowhere /\ x.out = cache[x.key].out
  <1> DEFINE key == KeyOf(kind, name, e, aliases)
             hit == cache[key] # Nowhere
             x == Execute(k, task, kind, name, e, aliases)
  <1>1. key \in Keys
    BY KeyTypes
  <1>2. hit => cache[key].out \in Outputs
    BY <1>1 DEF CacheInv, Entries
  <1>3. NoOutput \in Outputs
    BY DEF NoOutput, Outputs
  <1>4. \E p, o, c : /\ x = [k EXCEPT !.pc = p, !.task = task, !.key = key, !.name = name,
                                     !.crossed = FALSE, !.out = o, !.clean = c]
                     /\ p \in {"running", "answered"} /\ o \in Outputs /\ c \in BOOLEAN
                     /\ p = "answered" => hit /\ o = cache[key].out
    <2> DEFINE p == IF hit THEN "answered" ELSE "running"
               o == IF hit THEN cache[key].out ELSE NoOutput
               c == k.clean /\ ~ (hit /\ cache[key].out.items # Listed(kind, name, e))
    <2>1. x = [k EXCEPT !.pc = p, !.task = task, !.key = key, !.name = name,
                        !.crossed = FALSE, !.out = o, !.clean = c]
      BY DEF Execute
    <2>2. c \in BOOLEAN
      OBVIOUS
    <2>3. /\ p \in {"running", "answered"} /\ o \in Outputs
          /\ p = "answered" => hit /\ o = cache[key].out
      BY <1>2, <1>3
    <2> HIDE DEF p, o, c, x
    <2> QED
      BY <2>1, <2>2, <2>3
  <1> HIDE DEF x, key
  <1>5. PICK p, o, c : /\ x = [k EXCEPT !.pc = p, !.task = task, !.key = key, !.name = name,
                                     !.crossed = FALSE, !.out = o, !.clean = c]
                       /\ p \in {"running", "answered"} /\ o \in Outputs /\ c \in BOOLEAN
                       /\ p = "answered" => hit /\ o = cache[key].out
    BY <1>4
  <1>6. /\ x \in LookupRec /\ x.src = k.src /\ x.todo = k.todo /\ x.found = k.found
        /\ x.pc = p /\ x.task = task /\ x.name = name
        /\ x.listing = k.listing /\ x.result = k.result /\ x.could = k.could
        /\ x.key = key /\ x.out = o
    BY <1>1, <1>5 DEF LookupRec, Places
  <1>7. /\ x \in LookupRec /\ x.src = k.src /\ x.todo = k.todo /\ x.found = k.found
        /\ x.pc \in {"running", "answered"} /\ x.task = task /\ x.name = name
        /\ x.listing = k.listing /\ x.result = k.result /\ x.could = k.could
        /\ x.key = key
        /\ x.pc = "answered" => cache[x.key] # Nowhere /\ x.out = cache[x.key].out
    BY <1>5, <1>6
  <1> QED
    BY <1>7 DEF x, key

\* An output that is read is one.
LEMMA OutputTypes ==
    ASSUME disk \in [Roots -> SUBSET Installs], NEW kind, NEW name \in Names, NEW e,
           NEW out \in OutputsOf(kind, name, e)
    PROVE  out \in Outputs /\ out.items = Listed(kind, name, e)
           /\ (out.items # {} => \E x \in out.items : out.first = x[1])
  <1>1. Listed(kind, name, e) \subseteq Roots \X Installs
    BY CacheAssumption DEF Listed
  <1> HIDE DEF Listed
  <1>2. CASE Listed(kind, name, e) = {}
    BY <1>2 DEF OutputsOf, Outputs
  <1>3. CASE Listed(kind, name, e) # {}
    <2>1. PICK x \in Listed(kind, name, e) : out = [items |-> Listed(kind, name, e), first |-> x[1]]
      BY <1>3 DEF OutputsOf
    <2>2. x[1] \in Roots
      BY <1>1
    <2> QED
      BY <1>1, <2>1, <2>2 DEF Outputs
  <1> QED
    BY <1>2, <1>3

\* Elements in some order.
LEMMA SetSequence ==
    ASSUME NEW T, NEW S \in SUBSET T, IsFiniteSet(S)
    PROVE  SetToSeq(S) \in Seq(T)
  <1>1. Cardinality(S) \in Nat /\ ExistsBijection(1 .. Cardinality(S), S)
    BY FS_CardinalityType
  <1>2. PICK f : f \in Bijection(1 .. Cardinality(S), S)
    BY <1>1 DEF ExistsBijection
  <1>3. f \in [1 .. Cardinality(S) -> S] /\ IsInjective(f)
    BY <1>2 DEF Bijection, Injection, IsInjective
  <1>4. SetToSeq(S) \in [1 .. Cardinality(S) -> S]
    BY <1>3 DEF SetToSeq
  <1> QED
    BY <1>1, <1>4

\* What a source offers are names.
LEMMA SourceNames ==
    ASSUME TypeInv, NEW l \in Lookups, lookup[l].src \in 1 .. Len(Order)
    PROVE  NamesOf(l) \in Seq(Names)
  <1>1. Source(l) \in NamedSources \cup {"rawPATH", "realPATH", "managed"}
    BY OrderLength DEF Source, Order, NamedSources
  <1>2. CASE Source(l) = "managed"
    <2>1. {r \in records : VersionMeets(Recorded[r], Request[l])} \in SUBSET Managed
      BY DEF TypeInv
    <2>2. IsFiniteSet({r \in records : VersionMeets(Recorded[r], Request[l])})
      BY <2>1, LookupAssumption, FS_Subset
    <2>3. Managed \subseteq Names
      BY LookupAssumption, CacheAssumption
    <2>4. ManagedPaths(l) \in Seq(Names)
      BY <2>1, <2>2, <2>3, SetSequence DEF ManagedPaths
    <2> QED
      BY <1>2, <2>4 DEF NamesOf
  <1>3. CASE Source(l) # "managed"
    BY <1>1, <1>3, LookupAssumption DEF NamesOf, NamedSources, TypeInv, LookupRec
  <1> QED
    BY <1>2, <1>3

-----------------------------------------------------------------------------
(***************************************************************************)
(* What one lookup does                                                    *)
(***************************************************************************)

\* It goes on, or ends without a result.
Rests(k, x) == x.pc \in {"source", "pick", "done"} /\ x.could = k.could /\ x.result \in {k.result, Nowhere}

\* It returns the candidate it has marked in use.
Ends(k, x) == k.pc = "mark" /\ x.pc = "done" /\ x.could = k.could /\ x.result = k.found[1]

\* It asks a host, which an entry of the cache may answer.
AsksHost(k, x) ==
    /\ x.pc \in {"running", "answered"} /\ x.could = k.could /\ x.result = k.result
    /\ x.key.name = alias'[x.name]
    /\ x.pc = "answered" => cache[x.key] # Nowhere /\ x.out = cache[x.key].out
    /\ x.task = "arch" =>
         k.pc = "answered" /\ k.task = "list" /\ x.listing = k.out.items /\ x.name = k.name

\* The host answers, and the answer is stored.
Reads(k, x) ==
    /\ k.pc = "running"
    /\ \E out \in OutputsOf(k.key.kind, k.name, k.key.env) : x = [k EXCEPT !.pc = "ran", !.out = out]
Stores(k, x) ==
    /\ k.pc = "ran" /\ x = [k EXCEPT !.pc = "answered"]
    /\ Put(KeyOf(k.key.kind, k.key.name, k.key.env, alias), k.out, k.crossed)

\* The candidate meets the request.
Accepts(l, k, x) ==
    /\ k.pc = "answered" /\ k.task = "arch" /\ x.pc = "mark"
    /\ x.could = k.could /\ x.result = k.result /\ x.found = k.found
    /\ \E y \in k.listing : InstallMeets(y[2], AsJudged(l))

Starts(l, k, x) ==
    k.pc = "idle" /\ x.pc = "source" /\ x.could = CouldMeet(l, disk) /\ x.result = k.result

Becomes(l, k, x) ==
    \/ UNCHANGED cache /\ (Starts(l, k, x) \/ Rests(k, x) \/ Ends(k, x) \/ AsksHost(k, x)
                           \/ Reads(k, x) \/ Accepts(l, k, x))
    \/ Stores(k, x)

\* A host that has answered may get an alias.
AliasMoves(k) ==
    \/ UNCHANGED alias
    \/ k.pc = "answered" /\ alias' = Aliased(k.out.first, k.name)

LookupMoves(l, x) ==
    /\ lookup' = [lookup EXCEPT ![l] = x] /\ x \in LookupRec /\ Shape(x)
    /\ Becomes(l, lookup[l], x) /\ AliasMoves(lookup[l])
    /\ UNCHANGED <<disk, records, own, upsets>>

\* The roots that may be met are roots.
LEMMA CouldTypes == \A l, contents : CouldMeet(l, contents) \in SUBSET Roots
  BY DEF CouldMeet

\* The start.
LEMMA StartMoves ==
    ASSUME TypeInv, NEW l \in Lookups, Start(l)
    PROVE  \E x : LookupMoves(l, x)
  <1> DEFINE k == lookup[l]
             x == [k EXCEPT !.pc = "source", !.could = CouldMeet(l, disk)]
  <1>1. k \in LookupRec /\ k.pc = "idle" /\ lookup' = [lookup EXCEPT ![l] = x]
        /\ UNCHANGED <<disk, cache, alias, records, own, upsets>>
    BY DEF TypeInv, Start, cacheVars
  <1>2. x \in LookupRec /\ x.pc = "source" /\ x.could = CouldMeet(l, disk) /\ x.result = k.result
    BY <1>1, CouldTypes DEF LookupRec, Places
  <1> HIDE DEF x
  <1> QED
    BY <1>1, <1>2 DEF LookupMoves, Becomes, Starts, AliasMoves, Shape, Asking

\* No source is left.
LEMMA FindsNothingMoves ==
    ASSUME TypeInv, NEW l \in Lookups, FindsNothing(l)
    PROVE  \E x : LookupMoves(l, x)
  <1> DEFINE k == lookup[l]
             x == Ended(k, Nowhere)
  <1>1. k \in LookupRec /\ lookup' = [lookup EXCEPT ![l] = x]
        /\ UNCHANGED <<disk, cache, alias, records, own, upsets>>
    BY DEF TypeInv, FindsNothing, cacheVars
  <1>2. x \in LookupRec /\ Shape(x) /\ x.pc = "done" /\ x.could = k.could /\ x.result = Nowhere
    BY <1>1, EndedTypes DEF Ended, Idle
  <1> HIDE DEF x
  <1> QED
    BY <1>1, <1>2 DEF LookupMoves, Becomes, Rests, AliasMoves

\* A source without candidates is passed over.
LEMMA SkipSourceMoves ==
    ASSUME TypeInv, NEW l \in Lookups, SkipSource(l)
    PROVE  \E x : LookupMoves(l, x)
  <1> DEFINE k == lookup[l]
             x == [k EXCEPT !.src = k.src + 1, !.found = <<>>]
  <1>1. k \in LookupRec /\ k.pc = "source" /\ lookup' = [lookup EXCEPT ![l] = x]
        /\ UNCHANGED <<disk, cache, alias, records, own, upsets>> /\ k.src <= Len(Order)
    BY DEF TypeInv, SkipSource, AtSource, cacheVars
  <1>2. k.src + 1 \in 1 .. Len(Order) + 1
    BY <1>1, OrderLength DEF LookupRec
  <1>0. <<>> \in Seq(Names)
    OBVIOUS
  <1> DEFINE n == k.src + 1
             y == [k EXCEPT !.src = n, !.found = <<>>]
  <1> HIDE DEF n
  <1>6. n \in 1 .. Len(Order) + 1
    BY <1>2 DEF n
  <1>7. y \in LookupRec /\ y.pc = "source" /\ y.could = k.could /\ y.result = k.result
    BY <1>0, <1>1, <1>6 DEF LookupRec
  <1>3. x \in LookupRec /\ x.pc = "source" /\ x.could = k.could /\ x.result = k.result
    BY <1>7 DEF n
  <1> HIDE DEF x
  <1>4. Shape(x)
    BY <1>3 DEF Shape, Asking
  <1>5. Rests(k, x)
    BY <1>3 DEF Rests
  <1> QED
    BY <1>1, <1>3, <1>4, <1>5 DEF LookupMoves, Becomes, AliasMoves

\* The candidates that are left are judged.
LEMMA OnwardMoves ==
    ASSUME NEW k, NEW s \in LookupRec, s.src \in 1 .. Len(Order), s.could = k.could, s.result = k.result
    PROVE  Onward(s) \in LookupRec /\ Shape(Onward(s)) /\ Rests(k, Onward(s))
  <1>1. Onward(s).pc \in {"source", "pick"}
    BY DEF Onward, LookupRec
  <1> QED
    BY <1>1, OnwardTypes DEF Rests

\* The candidates are taken as they are.
LEMMA TakeMoves ==
    ASSUME TypeInv, NEW l \in Lookups, Take(l)
    PROVE  \E x : LookupMoves(l, x)
  <1> DEFINE k == lookup[l]
             s == [k EXCEPT !.found = NamesOf(l)]
             x == Onward(s)
  <1>1. k \in LookupRec /\ k.src \in 1 .. Len(Order) /\ lookup' = [lookup EXCEPT ![l] = x]
        /\ UNCHANGED <<disk, cache, alias, records, own, upsets>>
    BY OrderLength DEF TypeInv, Take, AtSource, cacheVars, LookupRec
  <1>2. NamesOf(l) \in Seq(Names)
    BY <1>1, SourceNames
  <1>3. s \in LookupRec /\ s.src = k.src /\ s.could = k.could /\ s.result = k.result
    BY <1>1, <1>2 DEF LookupRec
  <1> HIDE DEF s
  <1>4. x \in LookupRec /\ Shape(x) /\ Rests(k, x)
    BY <1>1, <1>3, OnwardMoves
  <1> QED
    BY <1>1, <1>4 DEF LookupMoves, Becomes, AliasMoves

\* The candidate is marked, and returned or not.
LEMMA MarkInUseMoves ==
    ASSUME TypeInv, NEW l \in Lookups, MarkInUse(l)
    PROVE  /\ \E x : LookupMoves(l, x)
           /\ lookup[l].found[1] \in Names
  <1> DEFINE k == lookup[l]
             s == [k EXCEPT !.found = Tail(k.found)]
             e == Ended(k, k.found[1])
  <1>1. k \in LookupRec /\ k.pc = "mark" /\ k.src \in 1 .. Len(Order) /\ k.found # <<>>
        /\ UNCHANGED <<disk, cache, alias, records, own, upsets>>
    BY DEF TypeInv, MarkInUse, cacheVars, Shape
  <1>2. k.found[1] \in Names /\ Tail(k.found) \in Seq(Names)
    BY <1>1 DEF LookupRec
  <1>3. s \in LookupRec /\ s.src = k.src /\ s.could = k.could /\ s.result = k.result
    BY <1>1, <1>2 DEF LookupRec
  <1>4. lookup' = [lookup EXCEPT ![l] = e] \/ lookup' = [lookup EXCEPT ![l] = Onward(s)]
    <2>1. CASE Returns(l)
      BY <2>1 DEF MarkInUse
    <2>2. CASE ~ Returns(l)
      BY <2>2 DEF MarkInUse
    <2> QED
      BY <2>1, <2>2
  <1> HIDE DEF s
  <1>5. CASE lookup' = [lookup EXCEPT ![l] = e]
    <2>1. e \in LookupRec /\ Shape(e) /\ e.could = k.could /\ e.result = k.found[1]
      BY <1>1, <1>2, EndedTypes
    <2>2. e.pc = "done"
      BY <1>1 DEF Ended, Idle
    <2>3. Ends(k, e)
      BY <1>1, <2>1, <2>2 DEF Ends
    <2> HIDE DEF e
    <2> QED
      BY <1>1, <1>2, <1>5, <2>1, <2>3 DEF LookupMoves, Becomes, AliasMoves
  <1>6. CASE lookup' = [lookup EXCEPT ![l] = Onward(s)]
    <2>1. Onward(s) \in LookupRec /\ Shape(Onward(s)) /\ Rests(k, Onward(s))
      BY <1>1, <1>3, OnwardMoves
    <2> QED
      BY <1>1, <1>2, <1>6, <2>1 DEF LookupMoves, Becomes, AliasMoves
  <1> QED
    BY <1>4, <1>5, <1>6

\* A process reads the disk.
LEMMA RunMoves ==
    ASSUME TypeInv, NEW l \in Lookups, Run(l)
    PROVE  \E x : LookupMoves(l, x)
  <1> DEFINE k == lookup[l]
  <1>1. k \in LookupRec /\ k.pc = "running" /\ Shape(k)
        /\ UNCHANGED <<disk, cache, alias, records, own, upsets>>
    BY DEF TypeInv, Run, cacheVars
  <1>2. PICK out \in OutputsOf(k.key.kind, k.name, k.key.env) :
               lookup' = [lookup EXCEPT ![l].pc = "ran", ![l].out = out]
    BY DEF Run
  <1> DEFINE x == [k EXCEPT !.pc = "ran", !.out = out]
  <1>3. out \in Outputs
    BY <1>1, OutputTypes DEF TypeInv, LookupRec
  <1>4. x \in LookupRec /\ x.pc = "ran" /\ x.task = k.task /\ x.src = k.src /\ x.todo = k.todo
        /\ x.found = k.found /\ x.name = k.name
    BY <1>1, <1>3 DEF LookupRec, Places
  <1>5. lookup' = [lookup EXCEPT ![l] = x] /\ Reads(k, x)
    BY <1>1, <1>2 DEF Reads
  <1> HIDE DEF x
  <1>6. Shape(x)
    BY <1>1, <1>4 DEF Shape, Asking
  <1> QED
    BY <1>1, <1>4, <1>5, <1>6 DEF LookupMoves, Becomes, AliasMoves

\* Its output is stored.
LEMMA FinishMoves ==
    ASSUME TypeInv, NEW l \in Lookups, Finish(l)
    PROVE  \E x : LookupMoves(l, x)
  <1> DEFINE k == lookup[l]
             x == [k EXCEPT !.pc = "answered"]
  <1>1. k \in LookupRec /\ k.pc = "ran" /\ Shape(k)
        /\ UNCHANGED <<disk, alias, records, own, upsets>>
    BY DEF TypeInv, Finish
  <1>2. x \in LookupRec /\ x.pc = "answered" /\ x.task = k.task /\ x.src = k.src /\ x.todo = k.todo
        /\ x.found = k.found /\ x.name = k.name
    BY <1>1 DEF LookupRec, Places
  <1>3. lookup' = [lookup EXCEPT ![l] = x] /\ Stores(k, x)
    BY <1>1 DEF Finish, Stores
  <1> HIDE DEF x
  <1>4. Shape(x)
    BY <1>1, <1>2 DEF Shape, Asking
  <1> QED
    BY <1>1, <1>2, <1>3, <1>4 DEF LookupMoves, Becomes, AliasMoves

\* What a host listed has a root to be found at.
LEMMA FoundTypes ==
    ASSUME NEW l, lookup[l] \in LookupRec, lookup[l].todo # <<>>
    PROVE  FoundSoFar(l) \in Seq(Names)
  <1> DEFINE k == lookup[l]
  <1>1. k.out \in Outputs /\ k.found \in Seq(Names)
    BY DEF LookupRec
  <1>2. CASE k.out.items = {}
    BY <1>1, <1>2 DEF FoundSoFar
  <1>3. CASE k.out.items # {}
    <2>1. k.out.first \in Names
      BY <1>1, <1>3, CacheAssumption DEF Outputs
    <2> QED
      BY <1>1, <1>3, <2>1 DEF FoundSoFar
  <1> QED
    BY <1>2, <1>3

\* A lookup asks a host.
LEMMA AsksMoves ==
    ASSUME TypeInv, NEW l \in Lookups, NEW s \in LookupRec, s.could = lookup[l].could,
           s.result = lookup[l].result, s.src \in 1 .. Len(Order),
           NEW task \in Tasks, NEW kind \in ListingKinds, NEW name \in Names, NEW e \in EnvValues,
           alias' \in [Names -> Names],
           task = "resolve" => s.todo # <<>> /\ name = s.todo[1],
           task # "resolve" => s.found # <<>> /\ name = s.found[1],
           task = "arch" => /\ lookup[l].pc = "answered" /\ lookup[l].task = "list"
                            /\ s.listing = lookup[l].out.items /\ name = lookup[l].name,
           lookup' = [lookup EXCEPT ![l] = Execute(s, task, kind, name, e, alias')],
           AliasMoves(lookup[l]), UNCHANGED <<cache, disk, records, own, upsets>>
    PROVE  \E x : LookupMoves(l, x)
  <1> DEFINE x == Execute(s, task, kind, name, e, alias')
  <1>1. /\ x \in LookupRec /\ x.src = s.src /\ x.todo = s.todo /\ x.found = s.found
        /\ x.pc \in {"running", "answered"} /\ x.task = task /\ x.name = name
        /\ x.listing = s.listing /\ x.result = s.result /\ x.could = s.could
        /\ x.key = KeyOf(kind, name, e, alias')
        /\ x.pc = "answered" => cache[x.key] # Nowhere /\ x.out = cache[x.key].out
    BY ExecuteTypes DEF TypeInv
  <1>2. x.key.name = alias'[name]
    BY <1>1 DEF KeyOf
  <1>3. lookup' = [lookup EXCEPT ![l] = x]
    OBVIOUS
  <1> HIDE DEF x
  <1>4. Shape(x)
    BY <1>1 DEF Shape, Asking, Tasks
  <1>5. AsksHost(lookup[l], x)
    BY <1>1, <1>2 DEF AsksHost
  <1> QED
    BY <1>1, <1>3, <1>4, <1>5 DEF LookupMoves, Becomes

\* resolveTruePaths begins.
LEMMA ResolveMoves ==
    ASSUME TypeInv, NEW l \in Lookups, Resolve(l)
    PROVE  \E x : LookupMoves(l, x)
  <1> DEFINE k == lookup[l]
             names == NamesOf(l)
             s == [k EXCEPT !.outer = env, !.todo = names, !.found = <<>>]
  <1>1. k \in LookupRec /\ k.src \in 1 .. Len(Order) /\ env \in EnvValues
        /\ alias \in [Names -> Names] /\ UNCHANGED <<disk, cache, alias, records, own, upsets>>
    BY OrderLength DEF TypeInv, Resolve, AtSource, cacheVars, LookupRec
  <1>2. names \in Seq(Names) /\ names # <<>> /\ <<>> \in Seq(Names)
    BY <1>1, SourceNames DEF Resolve
  <1>3. names[1] \in Names
    BY <1>2
  <1>4. lookup' = [lookup EXCEPT ![l] = Execute(s, "resolve", "runtimes", names[1], "0", alias)]
    BY DEF Resolve
  <1> HIDE DEF names
  <1>5. s \in LookupRec /\ s.src = k.src /\ s.could = k.could /\ s.result = k.result /\ s.todo = names
    BY <1>1, <1>2 DEF LookupRec
  <1> HIDE DEF s
  <1>6. lookup' = [lookup EXCEPT ![l] = Execute(s, "resolve", "runtimes", names[1], "0", alias')]
    BY <1>1, <1>4
  <1> DEFINE task == "resolve"
             kind == "runtimes"
             e == "0"
  <1>7. task \in Tasks /\ kind \in ListingKinds /\ e \in EnvValues /\ task = "resolve"
    BY DEF Tasks, ListingKinds, EnvValues
  <1>8. AliasMoves(k)
    BY <1>1 DEF AliasMoves
  <1> QED
    BY <1>1, <1>2, <1>3, <1>5, <1>6, <1>7, <1>8, AsksMoves

\* getDotnetInstalls lists a candidate's installs.
LEMMA JudgeMoves ==
    ASSUME TypeInv, NEW l \in Lookups, Judge(l)
    PROVE  \E x : LookupMoves(l, x)
  <1> DEFINE k == lookup[l]
             name == k.found[1]
             kind == ListingOf(l)
             s == [k EXCEPT !.outer = env]
  <1>1. k \in LookupRec /\ Shape(k) /\ k.pc = "pick" /\ env \in EnvValues
        /\ alias \in [Names -> Names] /\ UNCHANGED <<disk, cache, alias, records, own, upsets>>
    BY DEF TypeInv, Judge, cacheVars
  <1>2. k.src \in 1 .. Len(Order) /\ k.found # <<>> /\ k.found \in Seq(Names)
    BY <1>1 DEF Shape, LookupRec
  <1>3. name \in Names
    BY <1>2
  <1>4. lookup' = [lookup EXCEPT ![l] = Execute(s, "list", kind, name, "0", alias)]
    BY DEF Judge
  <1>5. s \in LookupRec /\ s.src = k.src /\ s.could = k.could /\ s.result = k.result /\ s.found = k.found
    BY <1>1, <1>2 DEF LookupRec
  <1>7. "list" \in Tasks /\ kind \in ListingKinds /\ "0" \in EnvValues
    BY DEF Tasks, ListingKinds, EnvValues, ListingOf
  <1> HIDE DEF s, kind
  <1>6. lookup' = [lookup EXCEPT ![l] = Execute(s, "list", kind, name, "0", alias')]
    BY <1>1, <1>4
  <1>8. AliasMoves(k)
    BY <1>1 DEF AliasMoves
  <1> QED
    BY <1>1, <1>2, <1>3, <1>5, <1>6, <1>7, <1>8, AsksMoves

\* The candidate's architecture is asked for.
LEMMA AskArchitectureMoves ==
    ASSUME TypeInv, NEW l \in Lookups, AskArchitecture(l)
    PROVE  \E x : LookupMoves(l, x)
  <1> DEFINE k == lookup[l]
             name == k.found[1]
             s == [k EXCEPT !.inner = env, !.listing = k.out.items]
  <1>1. k \in LookupRec /\ Shape(k) /\ k.pc = "answered" /\ k.task = "list" /\ env \in EnvValues
        /\ alias \in [Names -> Names] /\ UNCHANGED <<disk, cache, alias, records, own, upsets>>
    BY DEF TypeInv, AskArchitecture, Answered, cacheVars
  <1>2. k.src \in 1 .. Len(Order) /\ k.found # <<>> /\ k.found \in Seq(Names) /\ k.name = name
        /\ k.out \in Outputs
    BY <1>1 DEF Shape, LookupRec, Asking
  <1>3. name \in Names /\ k.out.items \in SUBSET (Roots \X Installs)
    BY <1>2 DEF Outputs
  <1>4. lookup' = [lookup EXCEPT ![l] = Execute(s, "arch", "runtimes", name, "0", alias)]
    BY DEF AskArchitecture
  <1>5. s \in LookupRec /\ s.src = k.src /\ s.could = k.could /\ s.result = k.result
        /\ s.found = k.found /\ s.listing = k.out.items
    BY <1>1, <1>2, <1>3 DEF LookupRec
  <1>7. "arch" \in Tasks /\ "runtimes" \in ListingKinds /\ "0" \in EnvValues
    BY DEF Tasks, ListingKinds, EnvValues
  <1> HIDE DEF s
  <1>6. lookup' = [lookup EXCEPT ![l] = Execute(s, "arch", "runtimes", name, "0", alias')]
    BY <1>1, <1>4
  <1>8. AliasMoves(k)
    BY <1>1 DEF AliasMoves
  <1> QED
    BY <1>1, <1>2, <1>3, <1>5, <1>6, <1>7, <1>8, AsksMoves

\* An alias is a name.
LEMMA AliasTypes ==
    ASSUME TypeInv, NEW first \in Roots \cup {Nowhere}, NEW name \in Names
    PROVE  Aliased(first, name) \in [Names -> Names]
  BY CacheAssumption DEF TypeInv, Aliased

\* resolveTruePaths goes on.
LEMMA ResolveNextMoves ==
    ASSUME TypeInv, NEW l \in Lookups, ResolveNext(l)
    PROVE  \E x : LookupMoves(l, x)
  <1> DEFINE k == lookup[l]
             todo == Tail(k.todo)
             found == FoundSoFar(l)
             s == [k EXCEPT !.todo = todo, !.found = found]
  <1>1. k \in LookupRec /\ Shape(k) /\ k.pc = "answered" /\ k.task = "resolve" /\ env \in EnvValues
        /\ alias \in [Names -> Names] /\ UNCHANGED <<disk, cache, records, own, upsets>>
    BY DEF TypeInv, ResolveNext, Answered, cacheVars
  <1>2. k.src \in 1 .. Len(Order) /\ k.todo # <<>> /\ k.todo \in Seq(Names) /\ k.name = k.todo[1]
        /\ k.out.first \in Roots \cup {Nowhere} /\ Len(k.todo) > 1 /\ k.name \in Names
    BY <1>1 DEF Shape, LookupRec, Asking, Outputs, ResolveNext
  <1>3. todo \in Seq(Names) /\ todo # <<>> /\ k.todo[2] \in Names /\ todo[1] = k.todo[2]
    <2> DEFINE c == k.todo
    <2>1. c \in Seq(Names) /\ c # <<>> /\ Len(c) > 1 /\ Len(c) \in Nat
      BY <1>2
    <2> HIDE DEF c
    <2>2. Len(Tail(c)) = Len(c) - 1 /\ Tail(c) \in Seq(Names)
      BY <2>1
    <2>3. c[2] \in Names
      BY <2>1
    <2>5. Tail(c)[1] = c[2]
      BY <2>1
    <2>4. Tail(c) # <<>>
      <3> DEFINE d == Tail(c)
      <3>1. Len(d) # 0
        BY <2>1, <2>2
      <3> HIDE DEF d
      <3>2. d # <<>>
        BY <3>1
      <3> QED
        BY <3>2 DEF d
    <2> QED
      BY <2>2, <2>3, <2>4, <2>5 DEF c
  <1>4. found \in Seq(Names)
    BY <1>1, <1>2, FoundTypes
  <1>5. alias' = Aliased(k.out.first, k.name)
    BY <1>2 DEF ResolveNext
  <1>6. alias' \in [Names -> Names]
    BY <1>2, <1>5, AliasTypes
  <1>7. lookup' = [lookup EXCEPT ![l] = Execute(s, "resolve", "runtimes", k.todo[2], env, alias')]
    BY DEF ResolveNext
  <1>8. "resolve" \in Tasks /\ "runtimes" \in ListingKinds
    BY DEF Tasks, ListingKinds
  <1> HIDE DEF todo, found
  <1>9. s \in LookupRec /\ s.src = k.src /\ s.could = k.could /\ s.result = k.result
        /\ s.todo = todo
    BY <1>1, <1>3, <1>4 DEF LookupRec
  <1> HIDE DEF s
  <1>10. AliasMoves(k)
    BY <1>1, <1>5 DEF AliasMoves
  <1> QED
    BY <1>1, <1>2, <1>3, <1>6, <1>7, <1>8, <1>9, <1>10, AsksMoves

\* It ends.
LEMMA ResolveEndsMoves ==
    ASSUME TypeInv, NEW l \in Lookups, ResolveEnds(l)
    PROVE  \E x : LookupMoves(l, x)
  <1> DEFINE k == lookup[l]
             found == FoundSoFar(l)
             s == [Settled(k) EXCEPT !.todo = <<>>, !.found = found, !.outer = Nowhere]
             n == s.src + 1
             t == [s EXCEPT !.pc = "source", !.src = n]
  <1>1. k \in LookupRec /\ Shape(k) /\ k.pc = "answered" /\ k.task = "resolve"
        /\ UNCHANGED <<disk, cache, records, own, upsets>>
    BY DEF TypeInv, ResolveEnds, Answered, cacheVars
  <1>2. k.src \in 1 .. Len(Order) /\ k.todo # <<>> /\ k.name = k.todo[1]
    BY <1>1 DEF Shape, LookupRec, Asking
  <1>3. alias' = Aliased(k.out.first, k.name)
    BY <1>2 DEF ResolveEnds
  <1>4. found \in Seq(Names) /\ <<>> \in Seq(Names)
    BY <1>1, <1>2, FoundTypes
  <1>5. Settled(k) \in LookupRec /\ Settled(k).src = k.src /\ Settled(k).could = k.could
        /\ Settled(k).result = k.result
    BY <1>1, SettledTypes
  <1>6. lookup' = [lookup EXCEPT ![l] = IF Source(l) = "rawPATH" THEN t ELSE Onward(s)]
    BY DEF ResolveEnds
  <1> HIDE DEF found
  <1>7. s \in LookupRec /\ s.src = k.src /\ s.could = k.could /\ s.result = k.result
    BY <1>4, <1>5 DEF LookupRec
  <1> HIDE DEF s
  <1>8. n \in 1 .. Len(Order) + 1
    BY <1>2, <1>7, OrderLength
  <1> HIDE DEF n
  <1>9. t \in LookupRec /\ t.pc = "source" /\ t.could = k.could /\ t.result = k.result
    BY <1>7, <1>8 DEF LookupRec, Places
  <1> HIDE DEF t
  <1>10. AliasMoves(k)
    BY <1>1, <1>3 DEF AliasMoves
  <1>11. CASE Source(l) = "rawPATH"
    <2>1. Shape(t) /\ Rests(k, t)
      BY <1>9 DEF Shape, Rests, Asking
    <2> QED
      BY <1>1, <1>6, <1>9, <1>10, <1>11, <2>1 DEF LookupMoves, Becomes
  <1>12. CASE Source(l) # "rawPATH"
    <2>1. Onward(s) \in LookupRec /\ Shape(Onward(s)) /\ Rests(k, Onward(s))
      BY <1>2, <1>7, OnwardMoves
    <2> QED
      BY <1>1, <1>6, <1>10, <1>12, <2>1 DEF LookupMoves, Becomes
  <1> QED
    BY <1>11, <1>12

\* A candidate without installs is passed over.
LEMMA ListsNothingMoves ==
    ASSUME TypeInv, NEW l \in Lookups, ListsNothing(l)
    PROVE  \E x : LookupMoves(l, x)
  <1> DEFINE k == lookup[l]
             found == Tail(k.found)
             s == [Settled(k) EXCEPT !.outer = Nowhere, !.found = found]
  <1>1. k \in LookupRec /\ Shape(k) /\ k.pc = "answered" /\ k.task = "list"
        /\ UNCHANGED <<disk, cache, alias, records, own, upsets>>
    BY DEF TypeInv, ListsNothing, Answered, cacheVars
  <1>2. k.src \in 1 .. Len(Order) /\ k.found # <<>> /\ k.found \in Seq(Names)
    BY <1>1 DEF Shape, LookupRec, Asking
  <1>3. found \in Seq(Names)
    BY <1>2
  <1>4. Settled(k) \in LookupRec /\ Settled(k).src = k.src /\ Settled(k).could = k.could
        /\ Settled(k).result = k.result
    BY <1>1, SettledTypes
  <1>5. lookup' = [lookup EXCEPT ![l] = Onward(s)]
    BY DEF ListsNothing
  <1> HIDE DEF found
  <1>6. s \in LookupRec /\ s.src = k.src /\ s.could = k.could /\ s.result = k.result
    BY <1>3, <1>4 DEF LookupRec
  <1> HIDE DEF s
  <1>7. Onward(s) \in LookupRec /\ Shape(Onward(s)) /\ Rests(k, Onward(s))
    BY <1>2, <1>6, OnwardMoves
  <1> QED
    BY <1>1, <1>5, <1>7 DEF LookupMoves, Becomes, AliasMoves

\* The candidate is accepted or not.
LEMMA DecideMoves ==
    ASSUME TypeInv, NEW l \in Lookups, Decide(l)
    PROVE  \E x : LookupMoves(l, x)
  <1> DEFINE k == lookup[l]
             found == Tail(k.found)
             s == [Settled(k) EXCEPT !.outer = Nowhere, !.inner = Nowhere]
             t == [s EXCEPT !.pc = "mark"]
             u == [s EXCEPT !.found = found]
  <1>1. k \in LookupRec /\ Shape(k) /\ k.pc = "answered" /\ k.task = "arch"
        /\ UNCHANGED <<disk, cache, records, own, upsets>>
    BY DEF TypeInv, Decide, Answered, cacheVars
  <1>2. k.src \in 1 .. Len(Order) /\ k.found # <<>> /\ k.found \in Seq(Names) /\ k.name = k.found[1]
    BY <1>1 DEF Shape, LookupRec, Asking
  <1>3. found \in Seq(Names)
    BY <1>2
  <1>4. /\ Settled(k) \in LookupRec /\ Settled(k).src = k.src /\ Settled(k).could = k.could
        /\ Settled(k).found = k.found /\ Settled(k).result = k.result
    BY <1>1, SettledTypes
  <1>5. alias' = Aliased(k.out.first, k.name)
    BY <1>2 DEF Decide
  <1>6. \/ (\E y \in k.listing : InstallMeets(y[2], AsJudged(l))) /\ lookup' = [lookup EXCEPT ![l] = t]
        \/ lookup' = [lookup EXCEPT ![l] = Onward(u)]
    <2>1. PICK meets \in BOOLEAN :
              /\ meets => \E y \in k.listing : InstallMeets(y[2], AsJudged(l))
              /\ lookup' = [lookup EXCEPT ![l] = IF meets THEN t ELSE Onward(u)]
      <3> DEFINE m == /\ k.out.first # Nowhere /\ HostArch[k.out.first] = Arch[l]
                      /\ \E x \in k.listing : InstallMeets(x[2], AsJudged(l))
      <3>1. lookup' = [lookup EXCEPT ![l] = IF m THEN t ELSE Onward(u)]
        BY DEF Decide
      <3>2. m \in BOOLEAN /\ (m => \E y \in k.listing : InstallMeets(y[2], AsJudged(l)))
        OBVIOUS
      <3> HIDE DEF m, t, u
      <3> QED
        BY <3>1, <3>2
    <2> HIDE DEF t, u
    <2> QED
      BY <2>1
  <1> HIDE DEF found
  <1>7. /\ s \in LookupRec /\ s.src = k.src /\ s.could = k.could /\ s.result = k.result
        /\ s.found = k.found
    BY <1>4 DEF LookupRec
  <1> HIDE DEF s
  <1>8. /\ t \in LookupRec /\ t.pc = "mark" /\ t.src = k.src /\ t.could = k.could
        /\ t.result = k.result /\ t.found = k.found
        /\ u \in LookupRec /\ u.src = k.src /\ u.could = k.could /\ u.result = k.result
    BY <1>3, <1>7 DEF LookupRec, Places
  <1> HIDE DEF t, u
  <1>9. AliasMoves(k)
    BY <1>1, <1>5 DEF AliasMoves
  <1>10. CASE /\ \E y \in k.listing : InstallMeets(y[2], AsJudged(l))
              /\ lookup' = [lookup EXCEPT ![l] = t]
    <2>1. Shape(t)
      BY <1>2, <1>8 DEF Shape, Asking
    <2>2. Accepts(l, k, t)
      BY <1>1, <1>8, <1>10 DEF Accepts
    <2> QED
      BY <1>1, <1>8, <1>9, <1>10, <2>1, <2>2 DEF LookupMoves, Becomes
  <1>11. CASE lookup' = [lookup EXCEPT ![l] = Onward(u)]
    <2>1. Onward(u) \in LookupRec /\ Shape(Onward(u)) /\ Rests(k, Onward(u))
      BY <1>2, <1>8, OnwardMoves
    <2> QED
      BY <1>1, <1>9, <1>11, <2>1 DEF LookupMoves, Becomes
  <1> QED
    BY <1>6, <1>10, <1>11

\* Whatever a lookup does.
LEMMA MovesAsSaid ==
    ASSUME TypeInv, NEW l \in Lookups, Start(l) \/ Goes(l)
    PROVE  \E x : LookupMoves(l, x)
  BY StartMoves, FindsNothingMoves, SkipSourceMoves, TakeMoves, ResolveMoves, RunMoves, FinishMoves,
     ResolveNextMoves, ResolveEndsMoves, JudgeMoves, ListsNothingMoves, AskArchitectureMoves,
     DecideMoves, MarkInUseMoves DEF Goes

\* What else a lookup writes.
LEMMA RestOfOne ==
    ASSUME TypeInv, NEW l \in Lookups, Start(l) \/ Goes(l)
    PROVE  marks' \subseteq Names /\ overlapped' \in BOOLEAN
  <1>1. marks \subseteq Names /\ overlapped \in BOOLEAN
    BY DEF TypeInv
  <1>2. UNCHANGED overlapped \/ SaveOverlaps(l)
    BY DEF Goes, Start, FindsNothing, SkipSource, Take, Resolve, Run, Finish, ResolveNext, ResolveEnds,
           Judge, ListsNothing, AskArchitecture, Decide, MarkInUse
  <1>3. overlapped' \in BOOLEAN
    <2>1. CASE UNCHANGED overlapped
      BY <1>1, <2>1
    <2>2. CASE SaveOverlaps(l)
      BY <2>2, Zenon DEF SaveOverlaps
    <2> QED
      BY <1>2, <2>1, <2>2
  <1>4. UNCHANGED marks \/ MarkInUse(l)
    BY DEF Goes, Start, FindsNothing, SkipSource, Take, Resolve, Run, Finish, ResolveNext, ResolveEnds,
           Judge, ListsNothing, AskArchitecture, Decide, MarkInUse
  <1>5. marks' \subseteq Names
    <2>1. CASE UNCHANGED marks
      BY <1>1, <2>1
    <2>2. CASE MarkInUse(l)
      <3>1. lookup[l].found[1] \in Names
        BY <2>2, MarkInUseMoves
      <3> QED
        BY <1>1, <2>2, <3>1 DEF MarkInUse
    <2> QED
      BY <1>4, <2>1, <2>2
  <1> QED
    BY <1>3, <1>5

\* What is stored is an entry.
LEMMA StoreTypes ==
    ASSUME TypeInv, NEW k \in LookupRec, NEW x, Stores(k, x)
    PROVE  CacheInv'
  <1> DEFINE key == KeyOf(k.key.kind, k.key.name, k.key.env, alias)
             entry == [out |-> k.out, crossed |-> k.crossed]
  <1>1. k.key \in Keys /\ k.out \in Outputs /\ k.crossed \in BOOLEAN
    BY DEF LookupRec
  <1>2. k.key.kind \in ListingKinds /\ k.key.name \in Names /\ k.key.env \in EnvValues
        /\ alias \in [Names -> Names]
    BY <1>1 DEF Keys, TypeInv
  <1>3. key \in Keys
    BY <1>2, KeyTypes
  <1>4. entry \in Entries
    BY <1>1 DEF Entries
  <1>5. cache' = [cache EXCEPT ![key] = entry]
    BY DEF Stores, Put
  <1> HIDE DEF key, entry
  <1> QED
    BY <1>3, <1>4, <1>5 DEF CacheInv, TypeInv

\* A lookup's step keeps the types.
LEMMA TypesOfOne ==
    ASSUME TypeInv, EnvInv', NEW l \in Lookups, Start(l) \/ Goes(l)
    PROVE  TypeInv'
  <1>1. PICK x : LookupMoves(l, x)
    BY MovesAsSaid
  <1> DEFINE k == lookup[l]
  <1>2. k \in LookupRec /\ lookup \in [Lookups -> LookupRec] /\ alias \in [Names -> Names]
        /\ Shape(k)
    BY DEF TypeInv
  <1>3. lookup' \in [Lookups -> LookupRec] /\ (\A o \in Lookups : Shape(lookup'[o]))
    BY <1>1, <1>2 DEF LookupMoves, TypeInv
  <1>4. alias' \in [Names -> Names]
    <2>1. k.out.first \in Roots \cup {Nowhere} /\ k.name \in Names
      BY <1>2 DEF LookupRec, Outputs
    <2>2. Aliased(k.out.first, k.name) \in [Names -> Names]
      BY <2>1, AliasTypes
    <2> QED
      BY <1>1, <1>2, <2>2 DEF LookupMoves, AliasMoves
  <1>5. CacheInv'
    <2>1. CASE UNCHANGED cache
      BY <2>1 DEF TypeInv, CacheInv
    <2>2. CASE Stores(k, x)
      BY <1>2, <2>2, StoreTypes
    <2> QED
      BY <1>1, <2>1, <2>2 DEF LookupMoves, Becomes
  <1>6. marks' \subseteq Names /\ overlapped' \in BOOLEAN
    BY RestOfOne
  <1>7. env' \in EnvValues
    BY DEF EnvInv
  <1>8. UNCHANGED <<disk, records, own, upsets>>
    BY <1>1 DEF LookupMoves
  <1> QED
    BY <1>3, <1>4, <1>5, <1>6, <1>7, <1>8 DEF TypeInv

\* What the installs' changes leave of a lookup.
SeenAs(k, x) ==
    /\ x.pc = k.pc /\ x.src = k.src /\ x.task = k.task /\ x.todo = k.todo /\ x.found = k.found
    /\ x.key = k.key /\ x.name = k.name /\ x.out = k.out /\ x.listing = k.listing
    /\ x.result = k.result /\ k.could \subseteq x.could
    /\ k.pc = "ran" => x.crossed

\* A change of the installs moves no lookup.
LEMMA SeeTypes ==
    ASSUME TypeInv, NEW contents, LookupsSee(contents)
    PROVE  /\ lookup' \in [Lookups -> LookupRec]
           /\ \A l \in Lookups :
                /\ SeenAs(lookup[l], lookup'[l]) /\ Shape(lookup'[l])
                /\ lookup[l].pc \notin {"idle", "done"} => CouldMeet(l, contents) \subseteq lookup'[l].could
  <1>1. lookup' = [l \in Lookups |-> lookup'[l]]
    BY DEF LookupsSee
  <1>2. ASSUME NEW l \in Lookups
        PROVE  /\ lookup'[l] \in LookupRec /\ SeenAs(lookup[l], lookup'[l]) /\ Shape(lookup'[l])
               /\ lookup[l].pc \notin {"idle", "done"} => CouldMeet(l, contents) \subseteq lookup'[l].could
    <2> DEFINE k == lookup[l]
               d == [k EXCEPT !.clean = FALSE]
               c == k.crossed \/ k.pc = "ran"
               m == k.could \cup CouldMeet(l, contents)
               x == [k EXCEPT !.clean = FALSE, !.crossed = c, !.could = m]
    <2>1. k \in LookupRec /\ Shape(k)
      BY DEF TypeInv
    <2>2. \/ lookup'[l] = k /\ k.pc = "idle"
          \/ lookup'[l] = d /\ k.pc = "done"
          \/ lookup'[l] = x
      BY DEF LookupsSee
    <2>3. d \in LookupRec /\ (k.pc # "ran" => SeenAs(k, d))
      BY <2>1 DEF LookupRec, SeenAs
    <2>4. c \in BOOLEAN /\ (k.pc = "ran" => c)
      BY <2>1 DEF LookupRec
    <2>5. m \in SUBSET Roots /\ k.could \subseteq m /\ CouldMeet(l, contents) \subseteq m
      BY <2>1, CouldTypes DEF LookupRec
    <2> HIDE DEF c, m, d
    <2>6. x \in LookupRec /\ SeenAs(k, x) /\ CouldMeet(l, contents) \subseteq x.could
      BY <2>1, <2>4, <2>5 DEF LookupRec, SeenAs
    <2> HIDE DEF x
    <2>7. \A y : SeenAs(k, y) => Shape(y)
      BY <2>1 DEF Shape, SeenAs
    <2>8. k.pc = "idle" => SeenAs(k, k)
      BY DEF SeenAs
    <2> QED
      BY <2>1, <2>2, <2>3, <2>6, <2>7, <2>8
  <1> QED
    BY <1>1, <1>2

\* It keeps the types.
LEMMA TypesOfChange ==
    ASSUME TypeInv, NEW r \in Roots, NEW installs \in SUBSET Installs, Change(r, installs),
           UNCHANGED <<env, records, marks, overlapped, cache, alias>>,
           own' \in [step : {"idle", "installed", "wiped", "cleared"}, root : Roots],
           own'.step # "idle" => own'.root \in Managed
    PROVE  TypeInv'
  <1>1. disk' \in [Roots -> SUBSET Installs] /\ upsets' \in 0 .. MaxUpsets
    BY LookupAssumption DEF TypeInv, Change
  <1>2. lookup' \in [Lookups -> LookupRec] /\ \A l \in Lookups : Shape(lookup'[l])
    BY SeeTypes DEF Change
  <1>3. CacheInv' /\ alias' \in [Names -> Names] /\ env' \in EnvValues /\ records' \subseteq Managed
        /\ marks' \subseteq Names /\ overlapped' \in BOOLEAN
    BY DEF TypeInv, CacheInv
  <1> QED
    BY <1>1, <1>2, <1>3 DEF TypeInv

\* Somebody's changes and the extension's own.
LEMMA TypesOfChanges ==
    ASSUME TypeInv, NEW r \in Roots,
           \/ r \notin Managed /\ SomebodyChanges(r)
           \/ r \in Managed /\ (OwnInstall(r) \/ OwnUninstall(r))
    PROVE  TypeInv'
  <1>1. /\ own \in [step : {"idle", "installed", "wiped", "cleared"}, root : Roots]
        /\ own.step # "idle" => own.root \in Managed
    BY DEF TypeInv
  <1>2. CASE r \notin Managed /\ SomebodyChanges(r)
    <2>1. PICK installs \in Others[r] : Change(r, installs)
      BY <1>2 DEF SomebodyChanges
    <2>2. installs \in SUBSET Installs
      BY <1>2, <2>1, LookupAssumption
    <2> QED
      BY <1>1, <1>2, <2>1, <2>2, TypesOfChange DEF SomebodyChanges
  <1>3. CASE r \in Managed /\ OwnInstall(r)
    <2>1. Initially[r] \in SUBSET Installs
      BY LookupAssumption
    <2>2. own' \in [step : {"idle", "installed", "wiped", "cleared"}, root : Roots]
           /\ own'.root \in Managed
      BY <1>3 DEF OwnInstall
    <2> QED
      BY <1>3, <2>1, <2>2, TypesOfChange DEF OwnInstall
  <1>4. CASE r \in Managed /\ OwnUninstall(r)
    <2>1. {} \in SUBSET Installs
      OBVIOUS
    <2>2. own' \in [step : {"idle", "installed", "wiped", "cleared"}, root : Roots]
           /\ own'.root \in Managed
      BY <1>4 DEF OwnUninstall
    <2> QED
      BY <1>4, <2>1, <2>2, TypesOfChange DEF OwnUninstall
  <1> QED
    BY <1>2, <1>3, <1>4

\* What is left of the cache is one.
LEMMA InvalidatedTypes ==
    ASSUME CacheInv, NEW r, Invalidate(r)
    PROVE  CacheInv'
  BY DEF CacheInv, Invalidate

\* Reads `own` after a change of its step.
LEMMA OwnTypes ==
    ASSUME own \in [step : {"idle", "installed", "wiped", "cleared"}, root : Roots],
           NEW s \in {"idle", "installed", "wiped", "cleared"}, own' = [own EXCEPT !.step = s]
    PROVE  own' \in [step : {"idle", "installed", "wiped", "cleared"}, root : Roots]
           /\ own'.root = own.root /\ own'.step = s
  OBVIOUS

\* The rest of the extension's own changes.
LEMMA TypesOfOwn ==
    ASSUME TypeInv, OwnInvalidates \/ OwnRecords \/ EntryExpires \/ UNCHANGED vars
    PROVE  TypeInv'
  <1>1. /\ own \in [step : {"idle", "installed", "wiped", "cleared"}, root : Roots]
        /\ own.step # "idle" => own.root \in Managed
    BY DEF TypeInv
  <1>2. CASE OwnInvalidates
    <2>1. CacheInv'
      BY <1>2, InvalidatedTypes DEF TypeInv, OwnInvalidates
    <2>2. own' \in [step : {"idle", "installed", "wiped", "cleared"}, root : Roots]
           /\ own'.root \in Managed
      BY <1>1, <1>2, OwnTypes DEF OwnInvalidates
    <2> QED
      BY <1>2, <2>1, <2>2 DEF TypeInv, OwnInvalidates
  <1>3. CASE OwnRecords
    <2>1. lookup' \in [Lookups -> LookupRec] /\ \A l \in Lookups : Shape(lookup'[l])
      BY <1>3, SeeTypes DEF OwnRecords
    <2>2. own' \in [step : {"idle", "installed", "wiped", "cleared"}, root : Roots]
           /\ own'.step = "idle"
      BY <1>1, <1>3, OwnTypes DEF OwnRecords
    <2>4. own.root \in Managed
      BY <1>1, <1>3 DEF OwnRecords
    <2>3. records' \subseteq Managed
      <3>1. CASE disk[own.root] = {}
        BY <1>3, <3>1 DEF OwnRecords, TypeInv
      <3>2. CASE disk[own.root] # {}
        BY <1>3, <2>4, <3>2 DEF OwnRecords, TypeInv
      <3> QED
        BY <3>1, <3>2
    <2>5. UNCHANGED <<disk, cache, alias, env, marks, upsets, overlapped>>
      BY <1>3 DEF OwnRecords, cacheVars
    <2> QED
      BY <2>1, <2>2, <2>3, <2>5 DEF TypeInv, CacheInv
  <1>4. CASE EntryExpires
    <2>1. upsets' \in 0 .. MaxUpsets
      BY <1>4, LookupAssumption DEF TypeInv, EntryExpires
    <2>2. CacheInv'
      BY <1>4 DEF TypeInv, EntryExpires, Expire, CacheInv
    <2>3. UNCHANGED <<env, lookup, records, marks, own, overlapped, disk, alias>>
      BY <1>4 DEF EntryExpires, Expire
    <2> QED
      BY <2>1, <2>2, <2>3 DEF TypeInv
  <1>5. CASE UNCHANGED vars
    BY <1>5 DEF TypeInv, CacheInv, vars, cacheVars
  <1> QED
    BY <1>2, <1>3, <1>4, <1>5

\* Every step keeps the types.
LEMMA TypeInvStep == TypeInv /\ EnvInv /\ [Next]_vars => TypeInv'
  <1> SUFFICES ASSUME TypeInv, EnvInv, [Next]_vars PROVE TypeInv'
    OBVIOUS
  <1>1. EnvInv'
    BY EnvInvStep
  <1>2. ASSUME NEW l \in Lookups, Start(l) \/ Goes(l) PROVE TypeInv'
    BY <1>1, <1>2, TypesOfOne
  <1>3. ASSUME NEW r \in Roots \ Managed, SomebodyChanges(r) PROVE TypeInv'
    BY <1>3, TypesOfChanges
  <1>4. ASSUME NEW r \in Managed, OwnInstall(r) \/ OwnUninstall(r) PROVE TypeInv'
    BY <1>4, TypesOfChanges, LookupAssumption
  <1>5. CASE OwnInvalidates \/ OwnRecords \/ EntryExpires \/ UNCHANGED vars
    BY <1>5, TypesOfOwn
  <1> QED
    BY <1>2, <1>3, <1>4, <1>5 DEF Next

\* They hold at first.
LEMMA TypeInvStarts == Init => TypeInv
  <1> SUFFICES ASSUME Init PROVE TypeInv
    OBVIOUS
  <1>1. (CHOOSE r \in Roots : TRUE) \in Roots
    BY CacheAssumption
  <1>2. /\ own \in [step : {"idle", "installed", "wiped", "cleared"}, root : Roots]
        /\ own.step = "idle"
    BY <1>1 DEF Init
  <1>3. disk \in [Roots -> SUBSET Installs]
    BY LookupAssumption DEF Init
  <1>4. CacheInv /\ alias \in [Names -> Names] /\ env \in EnvValues /\ records \subseteq Managed
        /\ marks \subseteq Names /\ overlapped \in BOOLEAN
    BY DEF Init, CacheInv, EnvValues
  <1>5. upsets \in 0 .. MaxUpsets
    BY LookupAssumption DEF Init
  <1>6. lookup \in [Lookups -> LookupRec] /\ \A l \in Lookups : Shape(lookup[l])
    BY IdleTypes DEF Init
  <1> QED
    BY <1>2, <1>3, <1>4, <1>5, <1>6 DEF TypeInv

\* Types, for any sources, hosts and installs; in particular what resolveTruePaths passes on
\* are paths, also when a host lists nothing, and a lookup that judges has a candidate to
\* judge. The records need that the extension's own change is of a directory it manages.
THEOREM LookupTypes == Spec => []TypeOK
  <1>1. Init => TypeInv /\ EnvInv
    BY TypeInvStarts, EnvInvStarts
  <1>2. TypeInv /\ EnvInv /\ [Next]_vars => (TypeInv /\ EnvInv)'
    BY TypeInvStep, EnvInvStep
  <1>3. TypeInv /\ EnvInv => TypeOK
    BY TypesOK
  <1> QED
    BY <1>1, <1>2, <1>3, PTL DEF Spec

-----------------------------------------------------------------------------
(***************************************************************************)
(* What an entry is about                                                  *)
(***************************************************************************)
About(out, name) == out.items \subseteq {At[name]} \X Installs /\ out.first \in {At[name], Nowhere}

\* An alias leads where its name leads, and an output is about the host that was asked.
LookupAbout(k) ==
    /\ k.pc \in Asking => At[k.key.name] = At[k.name]
    /\ k.pc \in {"ran", "answered"} => About(k.out, k.name)

\* A reading that no change has crossed says what the host would say now.
LookupFresh(k) ==
    k.pc = "ran" /\ ~ k.crossed => k.out.items = Listed(k.key.kind, k.name, k.key.env)

AliasAbout == \A n \in Names : At[alias[n]] = At[n]

EntryAbout(key) == cache[key] # Nowhere => About(cache[key].out, key.name)

EntryFresh(key) ==
    key.name \in Managed /\ cache[key] # Nowhere /\ ~ cache[key].crossed =>
        \/ cache[key].out.items = Listed(key.kind, key.name, key.env)
        \/ own.root = key.name /\ own.step \in {"installed", "wiped"}

AboutInv ==
    /\ AliasAbout
    /\ \A key \in Keys : EntryAbout(key)
    /\ \A l \in Lookups : LookupAbout(lookup[l])

FreshInv ==
    /\ \A key \in Keys : EntryFresh(key)
    /\ \A l \in Lookups : LookupFresh(lookup[l])

\* Without multi-level lookup, two names of one root list the same, and only its installs.
LEMMA ListedAlone ==
    ASSUME ~ MultiLevel, NEW kind, NEW n \in Names, NEW m \in Names, At[n] = At[m], NEW e
    PROVE  /\ Listed(kind, n, e) = Listed(kind, m, e)
           /\ Listed(kind, n, e) \subseteq {At[n]} \X Installs
  BY DEF Listed

\* What a host lists changes only with its root.
LEMMA ListedStays ==
    ASSUME ~ MultiLevel, NEW kind, NEW n \in Names, NEW e, disk'[At[n]] = disk[At[n]]
    PROVE  Listed(kind, n, e)' = Listed(kind, n, e)
  BY DEF Listed

\* An output that is read is about the host that was asked.
LEMMA OutputAbout ==
    ASSUME ~ MultiLevel, disk \in [Roots -> SUBSET Installs], NEW kind, NEW n \in Names, NEW e,
           NEW out \in OutputsOf(kind, n, e)
    PROVE  About(out, n) /\ out.items = Listed(kind, n, e)
  <1>1. out.items = Listed(kind, n, e) /\ out \in Outputs
        /\ (out.items # {} => \E x \in out.items : out.first = x[1])
    BY OutputTypes
  <1>2. out.items \subseteq {At[n]} \X Installs
    BY <1>1, ListedAlone
  <1>3. out.items = {} => out.first = Nowhere
    BY <1>1 DEF OutputsOf
  <1>4. out.first \in {At[n], Nowhere}
    <2>1. CASE out.items = {}
      BY <1>3, <2>1
    <2>2. CASE out.items # {}
      <3>1. PICK x \in out.items : out.first = x[1]
        BY <1>1, <2>2
      <3>2. x[1] = At[n]
        BY <1>2
      <3> QED
        BY <3>1, <3>2
    <2> QED
      BY <2>1, <2>2
  <1> QED
    BY <1>1, <1>2, <1>4 DEF About

\* It is about the root, by whatever name.
LEMMA AboutSame ==
    ASSUME NEW out, NEW n, NEW m, At[n] = At[m], About(out, n)
    PROVE  About(out, m)
  BY DEF About

\* A new alias leads where its name leads.
LEMMA AliasAboutMoves ==
    ASSUME TypeInv, AboutInv, NEW l \in Lookups, AliasMoves(lookup[l])
    PROVE  AliasAbout'
  <1> DEFINE k == lookup[l]
  <1>1. k \in LookupRec /\ alias \in [Names -> Names] /\ AliasAbout
    BY DEF TypeInv, AboutInv
  <1>2. CASE UNCHANGED alias
    BY <1>1, <1>2 DEF AliasAbout
  <1>3. CASE k.pc = "answered" /\ alias' = Aliased(k.out.first, k.name)
    <2>1. k.out.first \in {At[k.name], Nowhere} /\ k.name \in Names
      BY <1>1, <1>3 DEF AboutInv, LookupAbout, About, LookupRec
    <2>2. At[k.name] \in Roots /\ At[At[k.name]] = At[k.name]
      BY <2>1, CacheAssumption
    <2>3. CASE Windows /\ k.out.first # Nowhere
      <3>1. alias' = [alias EXCEPT ![At[k.name]] = k.name]
        BY <1>3, <2>1, <2>3 DEF Aliased
      <3> QED
        BY <1>1, <2>2, <3>1 DEF AliasAbout
    <2>4. CASE ~ (Windows /\ k.out.first # Nowhere)
      BY <1>1, <1>3, <2>4 DEF AliasAbout, Aliased
    <2> QED
      BY <2>3, <2>4
  <1> QED
    BY <1>2, <1>3 DEF AliasMoves

\* What a lookup has been answered is about the host it asked.
LEMMA LookupAboutMoves ==
    ASSUME TypeInv, AboutInv, ~ MultiLevel, NEW l \in Lookups, NEW x, LookupMoves(l, x), AliasAbout'
    PROVE  LookupAbout(x)
  <1> DEFINE k == lookup[l]
  <1>1. k \in LookupRec /\ x \in LookupRec /\ Becomes(l, k, x) /\ LookupAbout(k)
    BY DEF TypeInv, LookupMoves, AboutInv
  <1>2. CASE x.pc \notin Asking
    BY <1>2 DEF LookupAbout, Asking
  <1>3. CASE AsksHost(k, x)
    <2>1. x.name \in Names /\ x.key \in Keys
      BY <1>1 DEF LookupRec
    <2>2. At[x.key.name] = At[x.name]
      BY <1>3, <2>1 DEF AsksHost, AliasAbout
    <2>3. x.pc = "answered" => About(x.out, x.key.name)
      BY <1>3, <2>1 DEF AsksHost, AboutInv, EntryAbout
    <2>4. x.pc = "answered" => About(x.out, x.name)
      BY <2>2, <2>3, AboutSame
    <2>5. x.pc \in {"running", "answered"}
      BY <1>3 DEF AsksHost
    <2> QED
      BY <2>2, <2>4, <2>5 DEF LookupAbout
  <1>4. CASE Reads(k, x)
    <2>1. PICK out \in OutputsOf(k.key.kind, k.name, k.key.env) :
                 x = [k EXCEPT !.pc = "ran", !.out = out]
      BY <1>4 DEF Reads
    <2>2. x.out = out /\ x.name = k.name /\ x.key = k.key /\ k.pc = "running"
      BY <1>1, <1>4, <2>1 DEF LookupRec, Reads
    <2>3. About(out, k.name)
      BY <1>1, OutputAbout DEF TypeInv, LookupRec
    <2> QED
      BY <1>1, <2>2, <2>3 DEF LookupAbout, Asking
  <1>5. CASE Stores(k, x)
    <2>1. x.out = k.out /\ x.name = k.name /\ x.key = k.key /\ k.pc = "ran"
      BY <1>1, <1>5 DEF LookupRec, Stores
    <2> QED
      BY <1>1, <2>1 DEF LookupAbout, Asking
  <1>6. Starts(l, k, x) \/ Rests(k, x) \/ Ends(k, x) \/ Accepts(l, k, x) => x.pc \notin Asking
    BY DEF Starts, Rests, Ends, Accepts, Asking
  <1> QED
    BY <1>1, <1>2, <1>3, <1>4, <1>5, <1>6 DEF Becomes

\* What was just read is so.
LEMMA LookupFreshMoves ==
    ASSUME TypeInv, ~ MultiLevel, NEW l \in Lookups, NEW x, LookupMoves(l, x)
    PROVE  LookupFresh(x)'
  <1> DEFINE k == lookup[l]
  <1>1. k \in LookupRec /\ Becomes(l, k, x) /\ UNCHANGED disk /\ x \in LookupRec
    BY DEF TypeInv, LookupMoves
  <1>2. CASE x.pc # "ran"
    BY <1>2 DEF LookupFresh
  <1>3. CASE Reads(k, x)
    <2>1. PICK out \in OutputsOf(k.key.kind, k.name, k.key.env) :
                 x = [k EXCEPT !.pc = "ran", !.out = out]
      BY <1>3 DEF Reads
    <2>2. x.out = out /\ x.name = k.name /\ x.key = k.key
      BY <1>1, <2>1 DEF LookupRec
    <2>3. out.items = Listed(k.key.kind, k.name, k.key.env)
      BY <1>1, OutputAbout DEF TypeInv, LookupRec
    <2> QED
      BY <1>1, <2>2, <2>3 DEF LookupFresh, Listed
  <1>4. x.pc = "ran" => Reads(k, x)
    BY <1>1 DEF Becomes, Starts, Rests, Ends, AsksHost, Accepts, Stores, LookupRec
  <1> QED
    BY <1>2, <1>3, <1>4

\* What is stored is about the host whose name the entry has.
LEMMA EntriesAboutMove ==
    ASSUME TypeInv, AboutInv, ~ MultiLevel, NEW l \in Lookups, NEW x, LookupMoves(l, x)
    PROVE  \A key \in Keys : EntryAbout(key)'
  <1> DEFINE k == lookup[l]
  <1>1. k \in LookupRec /\ Becomes(l, k, x)
    BY DEF TypeInv, LookupMoves
  <1>2. CASE UNCHANGED cache
    BY <1>2 DEF AboutInv, EntryAbout
  <1>3. CASE Stores(k, x)
    <2> DEFINE stored == KeyOf(k.key.kind, k.key.name, k.key.env, alias)
               entry == [out |-> k.out, crossed |-> k.crossed]
    <2>1. k.name \in Names /\ k.key.name \in Names /\ stored.name = alias[k.key.name]
      BY <1>1 DEF LookupRec, Keys, KeyOf
    <2>2. At[stored.name] = At[k.name] /\ About(k.out, k.name)
      BY <1>3, <2>1 DEF AboutInv, AliasAbout, LookupAbout, Stores, Asking
    <2>3. About(k.out, stored.name)
      BY <2>2, AboutSame
    <2>4. cache' = [cache EXCEPT ![stored] = entry] /\ entry.out = k.out
      BY <1>3 DEF Stores, Put
    <2> HIDE DEF stored, entry
    <2>5. ASSUME NEW key \in Keys PROVE EntryAbout(key)'
      <3>1. CASE key = stored
        BY <2>3, <2>4, <3>1 DEF EntryAbout, TypeInv, CacheInv
      <3>2. CASE key # stored
        <4>1. cache'[key] = cache[key]
          BY <2>4, <3>2 DEF TypeInv, CacheInv
        <4> QED
          BY <4>1 DEF AboutInv, EntryAbout
      <3> QED
        BY <3>1, <3>2
    <2> QED
      BY <2>5
  <1> QED
    BY <1>1, <1>2, <1>3 DEF Becomes

\* What is stored is so, unless a change has crossed it.
LEMMA EntriesFreshMove ==
    ASSUME TypeInv, AboutInv, FreshInv, ~ MultiLevel, NEW l \in Lookups, NEW x, LookupMoves(l, x)
    PROVE  \A key \in Keys : EntryFresh(key)'
  <1> DEFINE k == lookup[l]
  <1>1. k \in LookupRec /\ Becomes(l, k, x) /\ UNCHANGED <<disk, own>>
    BY DEF TypeInv, LookupMoves
  <1>2. \A kind, n, e : Listed(kind, n, e)' = Listed(kind, n, e)
    BY <1>1 DEF Listed
  <1>3. CASE UNCHANGED cache
    BY <1>1, <1>2, <1>3 DEF FreshInv, EntryFresh
  <1>4. CASE Stores(k, x)
    <2> DEFINE stored == KeyOf(k.key.kind, k.key.name, k.key.env, alias)
               entry == [out |-> k.out, crossed |-> k.crossed]
    <2>1. /\ k.name \in Names /\ k.key.name \in Names /\ stored.name = alias[k.key.name]
          /\ stored.kind = k.key.kind /\ stored.env = k.key.env /\ alias[k.key.name] \in Names
      BY <1>1 DEF LookupRec, Keys, KeyOf, TypeInv
    <2>2. At[stored.name] = At[k.name] /\ k.pc = "ran"
      BY <1>4, <2>1 DEF AboutInv, AliasAbout, LookupAbout, Stores, Asking
    <2>3. ~ k.crossed => k.out.items = Listed(stored.kind, stored.name, stored.env)
      <3>1. Listed(stored.kind, stored.name, stored.env) = Listed(k.key.kind, k.name, k.key.env)
        BY <2>1, <2>2, ListedAlone
      <3> QED
        BY <2>2, <3>1 DEF FreshInv, LookupFresh
    <2>4. cache' = [cache EXCEPT ![stored] = entry] /\ entry.out = k.out /\ entry.crossed = k.crossed
      BY <1>4 DEF Stores, Put
    <2> HIDE DEF stored, entry
    <2>5. ASSUME NEW key \in Keys PROVE EntryFresh(key)'
      <3>1. CASE key = stored
        <4>1. cache'[key] = entry
          BY <2>4, <3>1 DEF TypeInv, CacheInv
        <4> QED
          BY <1>2, <2>3, <2>4, <3>1, <4>1 DEF EntryFresh
      <3>2. CASE key # stored
        <4>1. cache'[key] = cache[key]
          BY <2>4, <3>2 DEF TypeInv, CacheInv
        <4> QED
          BY <1>1, <1>2, <4>1 DEF FreshInv, EntryFresh
      <3> QED
        BY <3>1, <3>2
    <2> QED
      BY <2>5
  <1> QED
    BY <1>1, <1>3, <1>4 DEF Becomes

\* A lookup's step.
LEMMA FreshOfOne ==
    ASSUME TypeInv, AboutInv, FreshInv, ~ MultiLevel, NEW l \in Lookups, Start(l) \/ Goes(l)
    PROVE  AboutInv' /\ FreshInv'
  <1>1. PICK x : LookupMoves(l, x)
    BY MovesAsSaid
  <1>2. /\ \A o \in Lookups : lookup'[o] = lookup[o] \/ lookup'[o] = x
        /\ UNCHANGED disk /\ AliasMoves(lookup[l])
    BY <1>1 DEF LookupMoves, TypeInv
  <1>3. AliasAbout'
    BY <1>2, AliasAboutMoves
  <1>4. LookupAbout(x)
    BY <1>1, <1>3, LookupAboutMoves
  <1>5. \A o \in Lookups : LookupAbout(lookup'[o])
    BY <1>2, <1>4 DEF AboutInv
  <1>6. LookupFresh(x)'
    BY <1>1, LookupFreshMoves
  <1>7. \A kind, n, e : Listed(kind, n, e)' = Listed(kind, n, e)
    BY <1>2 DEF Listed
  <1>8. \A o \in Lookups : LookupFresh(lookup[o])'
    BY <1>2, <1>6, <1>7 DEF FreshInv, LookupFresh
  <1>9. (\A key \in Keys : EntryAbout(key)') /\ (\A key \in Keys : EntryFresh(key)')
    BY <1>1, EntriesAboutMove, EntriesFreshMove
  <1> QED
    BY <1>3, <1>5, <1>8, <1>9 DEF AboutInv, FreshInv

\* A change of a root's installs: entries about other roots stay right, and the root's own
\* are excused until the cache is cleared.
LEMMA FreshOfChange ==
    ASSUME TypeInv, AboutInv, FreshInv, ~ MultiLevel, NEW r \in Roots, NEW installs,
           Change(r, installs), UNCHANGED <<cache, alias>>,
           \/ r \notin Managed /\ UNCHANGED own
           \/ own.step = "idle" /\ own'.step \in {"installed", "wiped"} /\ own'.root = r
    PROVE  AboutInv' /\ FreshInv'
  <1>1. \A l \in Lookups : SeenAs(lookup[l], lookup'[l])
    BY SeeTypes DEF Change
  <1>2. \A l \in Lookups : LookupAbout(lookup'[l])
    BY <1>1 DEF AboutInv, LookupAbout, SeenAs
  <1>3. \A l \in Lookups : LookupFresh(lookup[l])'
    BY <1>1 DEF LookupFresh, SeenAs
  <1>4. ASSUME NEW key \in Keys, key.name # r, key.name \in Roots
        PROVE  Listed(key.kind, key.name, key.env)' = Listed(key.kind, key.name, key.env)
    <2>1. At[key.name] # r /\ key.name \in Names /\ At[key.name] \in Roots
      BY <1>4, CacheAssumption
    <2>2. disk'[At[key.name]] = disk[At[key.name]]
      BY <2>1 DEF Change, TypeInv
    <2> QED
      BY <2>1, <2>2, ListedStays
  <1>5. ASSUME NEW key \in Keys PROVE EntryFresh(key)'
    <2>1. EntryFresh(key) /\ cache'[key] = cache[key]
      BY DEF FreshInv
    <2>2. CASE key.name \notin Managed
      BY <2>2 DEF EntryFresh
    <2>3. CASE key.name \in Managed /\ r \notin Managed /\ UNCHANGED own
      <3>1. key.name # r /\ key.name \in Roots
        BY <2>3, LookupAssumption
      <3> QED
        BY <1>4, <2>1, <2>3, <3>1 DEF EntryFresh
    <2>4. CASE /\ key.name \in Managed /\ own.step = "idle"
               /\ own'.step \in {"installed", "wiped"} /\ own'.root = r
      <3>1. CASE key.name = r
        BY <2>4, <3>1 DEF EntryFresh
      <3>2. CASE key.name # r
        <4>1. key.name \in Roots
          BY <2>4, LookupAssumption
        <4> QED
          BY <1>4, <2>1, <2>4, <3>2, <4>1 DEF EntryFresh
      <3> QED
        BY <3>1, <3>2
    <2> QED
      BY <2>2, <2>3, <2>4
  <1>6. AliasAbout' /\ \A key \in Keys : EntryAbout(key)'
    BY DEF AboutInv, AliasAbout, EntryAbout
  <1> QED
    BY <1>2, <1>3, <1>5, <1>6 DEF AboutInv, FreshInv

\* The rest of an install or uninstall of the extension: the entries that were excused are
\* dropped.
LEMMA FreshOfOwn ==
    ASSUME TypeInv, AboutInv, FreshInv, OwnInvalidates \/ OwnRecords \/ EntryExpires \/ UNCHANGED vars
    PROVE  AboutInv' /\ FreshInv'
  <1>1. UNCHANGED <<disk, alias>>
    BY DEF OwnInvalidates, OwnRecords, EntryExpires, Expire, vars, cacheVars
  <1>2. \A kind, n, e : Listed(kind, n, e)' = Listed(kind, n, e)
    BY <1>1 DEF Listed
  <1>3. \A l \in Lookups : SeenAs(lookup[l], lookup'[l]) \/ lookup'[l] = lookup[l]
    <2>1. CASE OwnRecords
      BY <2>1, SeeTypes DEF OwnRecords
    <2>2. CASE ~ OwnRecords
      BY <2>2 DEF OwnInvalidates, EntryExpires, vars
    <2> QED
      BY <2>1, <2>2
  <1>4. \A l \in Lookups : LookupAbout(lookup'[l])
    BY <1>3 DEF AboutInv, LookupAbout, SeenAs
  <1>5. \A l \in Lookups : LookupFresh(lookup[l])'
    BY <1>2, <1>3 DEF FreshInv, LookupFresh, SeenAs
  <1>6. \A key \in Keys : cache'[key] \in {cache[key], Nowhere}
    <2>1. CASE OwnInvalidates
      BY <2>1 DEF OwnInvalidates, Invalidate
    <2>2. CASE EntryExpires
      BY <2>2 DEF EntryExpires, Expire, TypeInv, CacheInv
    <2>3. CASE OwnRecords \/ UNCHANGED vars
      BY <2>3 DEF OwnRecords, vars, cacheVars
    <2> QED
      BY <2>1, <2>2, <2>3
  <1>7. AliasAbout' /\ \A key \in Keys : EntryAbout(key)'
    BY <1>1, <1>6 DEF AboutInv, AliasAbout, EntryAbout
  <1>8. ASSUME NEW key \in Keys PROVE EntryFresh(key)'
    <2>1. EntryFresh(key)
      BY DEF FreshInv
    <2>2. CASE cache'[key] = Nowhere
      BY <2>2 DEF EntryFresh
    <2>3. CASE cache'[key] = cache[key] /\ UNCHANGED own
      BY <1>2, <2>1, <2>3 DEF EntryFresh
    <2>4. CASE cache'[key] = cache[key] /\ OwnInvalidates
      <3>1. CASE key.name = own.root
        BY <2>2, <2>4, <3>1 DEF OwnInvalidates, Invalidate
      <3>2. CASE key.name # own.root
        BY <1>2, <2>1, <2>4, <3>2 DEF EntryFresh
      <3> QED
        BY <3>1, <3>2
    <2>5. CASE cache'[key] = cache[key] /\ OwnRecords
      BY <1>2, <2>1, <2>5 DEF EntryFresh, OwnRecords
    <2>6. UNCHANGED own \/ OwnInvalidates \/ OwnRecords
      BY DEF EntryExpires, vars
    <2> QED
      BY <1>6, <2>2, <2>3, <2>4, <2>5, <2>6
  <1> QED
    BY <1>4, <1>5, <1>7, <1>8 DEF AboutInv, FreshInv

\* Every step.
LEMMA FreshStep ==
    ASSUME ~ MultiLevel, TypeInv, AboutInv, FreshInv, [Next]_vars
    PROVE  AboutInv' /\ FreshInv'
  <1>1. ASSUME NEW l \in Lookups, Start(l) \/ Goes(l) PROVE AboutInv' /\ FreshInv'
    BY <1>1, FreshOfOne
  <1>2. ASSUME NEW r \in Roots \ Managed, SomebodyChanges(r) PROVE AboutInv' /\ FreshInv'
    <2>1. PICK installs : Change(r, installs)
      BY <1>2 DEF SomebodyChanges
    <2> QED
      BY <1>2, <2>1, FreshOfChange DEF SomebodyChanges
  <1>3. ASSUME NEW r \in Managed, OwnInstall(r) \/ OwnUninstall(r) PROVE AboutInv' /\ FreshInv'
    <2>1. r \in Roots
      BY LookupAssumption
    <2>2. PICK installs : Change(r, installs)
      BY <1>3 DEF OwnInstall, OwnUninstall
    <2>3. UNCHANGED <<cache, alias>> /\ own.step = "idle" /\ own'.step \in {"installed", "wiped"}
          /\ own'.root = r
      BY <1>3 DEF OwnInstall, OwnUninstall
    <2> QED
      BY <2>1, <2>2, <2>3, FreshOfChange
  <1>4. CASE OwnInvalidates \/ OwnRecords \/ EntryExpires \/ UNCHANGED vars
    BY <1>4, FreshOfOwn
  <1> QED
    BY <1>1, <1>2, <1>3, <1>4 DEF Next

\* At first the cache is empty.
LEMMA FreshStarts ==
    ASSUME Init
    PROVE  AboutInv /\ FreshInv
  <1>1. (\A n \in Names : alias[n] = n) /\ (\A key \in Keys : cache[key] = Nowhere)
        /\ \A l \in Lookups : lookup[l].pc = "idle"
    BY DEF Init, Idle
  <1> QED
    BY <1>1 DEF AboutInv, FreshInv, AliasAbout, EntryAbout, EntryFresh, LookupAbout, LookupFresh, Asking

\* After an install or uninstall of the extension and the clearing of the cache, no entry
\* about that directory is out of date but one whose command read the directory before the
\* change and ended after it. Hosts that honour multi-level lookup are excluded: they list
\* other roots too, whose changes clear nothing (LocalMemoryCacheSingleton).
THEOREM CacheCleared ==
    ASSUME ~ MultiLevel
    PROVE  Spec => []InvalidationReaches
  <1> DEFINE Inv == TypeInv /\ EnvInv /\ AboutInv /\ FreshInv
  <1>1. Init => Inv
    BY TypeInvStarts, EnvInvStarts, FreshStarts
  <1>2. Inv /\ [Next]_vars => Inv'
    BY TypeInvStep, EnvInvStep, FreshStep
  <1>3. Inv => InvalidationReaches
    <2> SUFFICES ASSUME FreshInv, NEW k \in Keys, k.name \in Managed, Stale(k)
                 PROVE  cache[k].crossed \/ (own.root = k.name /\ own.step \in {"installed", "wiped"})
      BY DEF InvalidationReaches
    <2> QED
      BY DEF FreshInv, EntryFresh, Stale
  <1> HIDE DEF Inv
  <1> QED
    BY <1>1, <1>2, <1>3, PTL DEF Spec

-----------------------------------------------------------------------------
(***************************************************************************)
(* What a lookup may return                                                *)
(***************************************************************************)

\* The requests whose comparison is the documented one.
Comparable == \A l \in Lookups : Request[l].form = "full" => Request[l].third # 0

\* What is left of a lookup's choices.
LookupMet(l, k) ==
    /\ k.pc # "done" => k.result = Nowhere
    /\ k.pc = "answered" /\ Meets(l, k.out.items) => At[k.name] \in k.could
    /\ k.pc \in Asking /\ k.task = "arch" /\ Meets(l, k.listing) => At[k.name] \in k.could
    /\ k.pc = "mark" => At[k.found[1]] \in k.could
    /\ k.result # Nowhere => At[k.result] \in k.could

LookupSaw(l) ==
    lookup[l].pc \notin {"idle", "done"} => CouldMeet(l, disk) \subseteq lookup[l].could

MetInv == \A l \in Lookups : LookupMet(l, lookup[l]) /\ LookupSaw(l)

\* A request without a third part is met as documented.
LEMMA OthersInOrder ==
    ASSUME NEW v \in Versions, NEW q \in Requests, q.form # "full", VersionMeets(v, q)
    PROVE  InMajorMinorOrder(v, q)
  <1> USE DEF Versions, Requests, AdjustedSpec
  <1>1. CASE v.major # q.major
    BY <1>1 DEF VersionMeets, MajorMeets, InMajorMinorOrder, Specs
  <1>2. CASE v.major = q.major
    <2>1. MinorMeets(v, q) \/ (v.minor = q.minor /\ ThirdMeets(v, q))
      BY <1>2 DEF VersionMeets
    <2>2. CASE MinorMeets(v, q)
      BY <1>2, <2>2 DEF MinorMeets, InMajorMinorOrder, Specs
    <2>3. CASE v.minor = q.minor /\ ThirdMeets(v, q)
      BY <1>2, <2>3 DEF ThirdMeets, InMajorMinorOrder, Specs
    <2> QED
      BY <2>1, <2>2, <2>3
  <1> QED
    BY <1>1, <1>2

\* An install that is accepted is one the documentation accepts.
LEMMA AcceptedMeets ==
    ASSUME Comparable, NEW l \in Lookups, NEW items \in SUBSET (Roots \X Installs),
           NEW y \in items, InstallMeets(y[2], AsJudged(l))
    PROVE  Meets(l, items)
  <1> DEFINE q == Request[l]
             p == [q EXCEPT !.rejectPreviews = FALSE]
             i == y[2]
  <1>1. q \in Requests /\ (q.form = "full" => q.third # 0)
    BY LookupAssumption DEF Comparable
  <1>2. i \in Installs /\ i.version \in Versions
    BY CacheAssumption
  <1>3. /\ p \in Requests /\ p.mode = q.mode /\ p.form = q.form /\ p.spec = q.spec /\ p.major = q.major
        /\ p.minor = q.minor /\ p.third = q.third /\ p.rejectPreviews = FALSE
    BY <1>1 DEF Requests
  <1>4. AsJudged(l) = p \/ AsJudged(l) = q
    BY DEF AsJudged
  <1> HIDE DEF p, i
  <1>5. ASSUME NEW j \in {p, q}, InstallMeets(i, j)
        PROVE  i.mode = q.mode /\ VersionMeets(i.version, p)
    BY <1>3, <1>5 DEF InstallMeets, VersionMeets, MajorMeets, MinorMeets, ThirdMeets, RequestedPatch,
                      BandAgrees
  <1>6. i.mode = q.mode /\ VersionMeets(i.version, p)
    BY <1>4, <1>5 DEF i
  <1>7. IF p.form = "full" THEN InOrder(i.version, p) ELSE InMajorMinorOrder(i.version, p)
    <2>1. CASE p.form = "full"
      <3>1. InOrder(i.version, p)
        BY <1>1, <1>2, <1>3, <1>6, <2>1, FullRequestsInOrder
      <3> QED
        BY <2>1, <3>1
    <2>2. CASE p.form # "full"
      <3>1. InMajorMinorOrder(i.version, p)
        BY <1>2, <1>3, <1>6, <2>2, OthersInOrder
      <3> QED
        BY <2>2, <3>1
    <2> QED
      BY <2>1, <2>2
  <1>8. AllowPreview(i.version, p)
    BY <1>3 DEF AllowPreview
  <1>9. Documented(i, p)
    BY <1>3, <1>6, <1>7, <1>8 DEF Documented
  <1> QED
    BY <1>9 DEF Meets, p, i

\* What is read from a root's disk is what the root holds.
LEMMA ReadMeets ==
    ASSUME ~ MultiLevel, NEW l, NEW kind, NEW n \in Names, NEW e, Meets(l, Listed(kind, n, e))
    PROVE  At[n] \in CouldMeet(l, disk)
  <1>1. Listed(kind, n, e) \subseteq {At[n]} \X disk[At[n]]
    BY DEF Listed
  <1>2. Meets(l, {At[n]} \X disk[At[n]])
    BY <1>1 DEF Meets
  <1> QED
    BY <1>2, CacheAssumption DEF CouldMeet

\* What an entry may still answer counts.
LEMMA EntryMeets ==
    ASSUME NEW l, NEW key \in Keys, cache[key] # Nowhere, Meets(l, cache[key].out.items)
    PROVE  At[key.name] \in CouldMeet(l, disk)
  <1>1. At[key.name] \in Roots
    BY CacheAssumption DEF Keys
  <1> QED
    BY <1>1 DEF CouldMeet

\* So does an output that is about to be stored.
LEMMA RanMeets ==
    ASSUME NEW l, NEW o \in Lookups, lookup[o].pc = "ran", lookup[o].name \in Names,
           Meets(l, lookup[o].out.items)
    PROVE  At[lookup[o].name] \in CouldMeet(l, disk)
  <1>1. At[lookup[o].name] \in Roots
    BY CacheAssumption
  <1> QED
    BY <1>1 DEF CouldMeet

\* A lookup that reads or stores an output brings in no other root.
LEMMA CouldShrinks ==
    ASSUME TypeInv, AboutInv, ~ MultiLevel, NEW l \in Lookups, NEW x, LookupMoves(l, x), NEW m \in Lookups
    PROVE  CouldMeet(m, disk)' \subseteq CouldMeet(m, disk)
  <1> DEFINE k == lookup[l]
  <1>1. k \in LookupRec /\ x \in LookupRec /\ Becomes(l, k, x) /\ UNCHANGED disk
        /\ (\A o \in Lookups \ {l} : lookup'[o] = lookup[o]) /\ lookup'[l] = x
    BY DEF TypeInv, LookupMoves
  <1> SUFFICES ASSUME NEW r \in Roots, r \in CouldMeet(m, disk)' PROVE r \in CouldMeet(m, disk)
    BY DEF CouldMeet
  <1>2. \/ Meets(m, {r} \X disk[r])
        \/ \E key \in Keys : At[key.name] = r /\ cache'[key] # Nowhere /\ Meets(m, cache'[key].out.items)
        \/ \E o \in Lookups : /\ At[lookup'[o].name] = r /\ lookup'[o].pc = "ran"
                              /\ Meets(m, lookup'[o].out.items)
    BY <1>1 DEF CouldMeet, Meets
  <1>3. CASE Meets(m, {r} \X disk[r])
    BY <1>3 DEF CouldMeet
  <1>4. ASSUME NEW key \in Keys, At[key.name] = r, cache'[key] # Nowhere, Meets(m, cache'[key].out.items)
        PROVE  r \in CouldMeet(m, disk)
    <2>1. CASE cache'[key] = cache[key]
      BY <1>4, <2>1, EntryMeets
    <2>2. CASE Stores(k, x) /\ cache'[key] # cache[key]
      <3> DEFINE stored == KeyOf(k.key.kind, k.key.name, k.key.env, alias)
                 entry == [out |-> k.out, crossed |-> k.crossed]
      <3>1. cache' = [cache EXCEPT ![stored] = entry] /\ entry.out = k.out /\ k.pc = "ran"
        BY <2>2 DEF Stores, Put
      <3>2. stored.name = alias[k.key.name]
        BY DEF KeyOf
      <3> HIDE DEF stored, entry
      <3>3. key = stored /\ cache'[key].out = k.out
        BY <2>2, <3>1 DEF TypeInv, CacheInv
      <3>4. k.name \in Names /\ k.key.name \in Names
        BY <1>1 DEF LookupRec, Keys
      <3>5. At[k.name] = r
        BY <1>4, <3>1, <3>2, <3>3, <3>4 DEF AboutInv, AliasAbout, LookupAbout, Asking
      <3> QED
        BY <1>4, <3>1, <3>3, <3>4, <3>5, RanMeets
    <2>3. UNCHANGED cache \/ Stores(k, x)
      BY <1>1 DEF Becomes
    <2> QED
      BY <2>1, <2>2, <2>3
  <1>5. ASSUME NEW o \in Lookups, At[lookup'[o].name] = r, lookup'[o].pc = "ran",
               Meets(m, lookup'[o].out.items)
        PROVE  r \in CouldMeet(m, disk)
    <2>1. CASE o # l
      <3>1. lookup[o].name \in Names
        BY DEF TypeInv, LookupRec
      <3> QED
        BY <1>1, <1>5, <2>1, <3>1, RanMeets
    <2>2. CASE o = l
      <3>1. Reads(k, x)
        BY <1>1, <1>5, <2>2
           DEF Becomes, Starts, Rests, Ends, AsksHost, Accepts, Stores, LookupRec
      <3>2. PICK out \in OutputsOf(k.key.kind, k.name, k.key.env) :
                   x = [k EXCEPT !.pc = "ran", !.out = out]
        BY <3>1 DEF Reads
      <3>3. x.out = out /\ x.name = k.name /\ k.name \in Names
        BY <1>1, <3>2 DEF LookupRec
      <3>4. out.items = Listed(k.key.kind, k.name, k.key.env)
        BY <3>3, OutputAbout DEF TypeInv
      <3> QED
        BY <1>1, <1>5, <2>2, <3>3, <3>4, ReadMeets
    <2> QED
      BY <2>1, <2>2
  <1> QED
    BY <1>2, <1>3, <1>4, <1>5

\* Only a lookup under way goes on.
LEMMA GoesFrom == \A l : Goes(l) => lookup[l].pc \notin {"idle", "done"}
  BY DEF Goes, FindsNothing, SkipSource, Take, Resolve, Run, Finish, ResolveNext, ResolveEnds, Judge,
         ListsNothing, AskArchitecture, Decide, MarkInUse, AtSource, Answered

\* What a lookup has been told, and what it accepts, could be met.
LEMMA MetMoves ==
    ASSUME TypeInv, AboutInv, MetInv, ~ MultiLevel, Comparable,
           NEW l \in Lookups, Goes(l), NEW x, LookupMoves(l, x), AliasAbout'
    PROVE  LookupMet(l, x) /\ x.could = lookup[l].could
  <1> DEFINE k == lookup[l]
  <1>1. /\ k \in LookupRec /\ x \in LookupRec /\ Becomes(l, k, x) /\ Shape(k)
        /\ LookupMet(l, k) /\ k.pc \notin {"idle", "done"}
    BY GoesFrom DEF TypeInv, LookupMoves, MetInv
  <1>2. CouldMeet(l, disk) \subseteq k.could /\ k.result = Nowhere
    BY <1>1 DEF MetInv, LookupSaw, LookupMet
  <1>3. ~ Starts(l, k, x)
    BY <1>1 DEF Starts
  <1>4. CASE Rests(k, x)
    BY <1>2, <1>4 DEF Rests, LookupMet, Asking
  <1>5. CASE Ends(k, x)
    BY <1>1, <1>2, <1>5 DEF Ends, LookupMet, Asking
  <1>6. CASE AsksHost(k, x)
    <2>1. x.name \in Names /\ x.key \in Keys
      BY <1>1 DEF LookupRec
    <2>2. At[x.key.name] = At[x.name]
      BY <1>6, <2>1 DEF AsksHost, AliasAbout
    <2>3. ASSUME x.pc = "answered", Meets(l, x.out.items) PROVE At[x.name] \in x.could
      <3>1. At[x.key.name] \in CouldMeet(l, disk)
        BY <1>6, <2>1, <2>3, EntryMeets DEF AsksHost
      <3> QED
        BY <1>2, <1>6, <2>2, <3>1 DEF AsksHost
    <2>4. ASSUME x.task = "arch", Meets(l, x.listing) PROVE At[x.name] \in x.could
      BY <1>1, <1>6, <2>4 DEF AsksHost, LookupMet
    <2>5. x.pc \in {"running", "answered"} /\ x.result = Nowhere /\ x.could = k.could
      BY <1>2, <1>6 DEF AsksHost
    <2> QED
      BY <2>3, <2>4, <2>5 DEF LookupMet
  <1>7. CASE Reads(k, x)
    <2>1. /\ k.pc = "running" /\ x.pc = "ran" /\ x.task = k.task /\ x.listing = k.listing
          /\ x.name = k.name /\ x.could = k.could /\ x.result = k.result
      BY <1>1, <1>7 DEF Reads, LookupRec
    <2> QED
      BY <1>1, <1>2, <2>1 DEF LookupMet, Asking
  <1>8. CASE Stores(k, x)
    <2>1. /\ k.pc = "ran" /\ x.pc = "answered" /\ x.task = k.task /\ x.listing = k.listing
          /\ x.name = k.name /\ x.could = k.could /\ x.result = k.result /\ x.out = k.out
          /\ k.name \in Names
      BY <1>1, <1>8 DEF Stores, LookupRec
    <2>2. Meets(l, x.out.items) => At[x.name] \in x.could
      BY <1>2, <2>1, RanMeets
    <2> QED
      BY <1>1, <1>2, <2>1, <2>2 DEF LookupMet, Asking
  <1>9. CASE Accepts(l, k, x)
    <2>1. PICK y \in k.listing : InstallMeets(y[2], AsJudged(l))
      BY <1>9 DEF Accepts
    <2>2. Meets(l, k.listing)
      BY <1>1, <2>1, AcceptedMeets DEF LookupRec
    <2>3. At[k.name] \in k.could /\ k.name = k.found[1]
      BY <1>1, <1>9, <2>2 DEF Accepts, LookupMet, Shape, Asking
    <2> QED
      BY <1>2, <1>9, <2>3 DEF Accepts, LookupMet, Asking
  <1> QED
    BY <1>1, <1>3, <1>4, <1>5, <1>6, <1>7, <1>8, <1>9
       DEF Becomes, Rests, Ends, AsksHost, Reads, Stores, Accepts, LookupRec

\* A lookup's step.
LEMMA MetOfOne ==
    ASSUME TypeInv, AboutInv, MetInv, ~ MultiLevel, Comparable, NEW l \in Lookups, Start(l) \/ Goes(l)
    PROVE  MetInv'
  <1>1. PICK x : LookupMoves(l, x)
    BY MovesAsSaid
  <1> DEFINE k == lookup[l]
  <1>2. /\ k \in LookupRec /\ UNCHANGED disk /\ lookup'[l] = x
        /\ \A o \in Lookups \ {l} : lookup'[o] = lookup[o]
    BY <1>1 DEF LookupMoves, TypeInv
  <1>3. \A o \in Lookups : CouldMeet(o, disk)' \subseteq CouldMeet(o, disk)
    BY <1>1, CouldShrinks
  <1>4. \A o \in Lookups \ {l} : LookupMet(o, lookup'[o]) /\ LookupSaw(o)'
    BY <1>2, <1>3 DEF MetInv, LookupSaw
  <1>5. LookupMet(l, x) /\ LookupSaw(l)'
    <2>1. CASE Start(l)
      <3>1. x = [k EXCEPT !.pc = "source", !.could = CouldMeet(l, disk)] /\ k.pc = "idle"
        BY <1>2, <2>1 DEF Start, TypeInv
      <3>2. x.pc = "source" /\ x.could = CouldMeet(l, disk) /\ x.result = k.result
        BY <1>2, <3>1 DEF LookupRec
      <3>3. k.result = Nowhere
        BY <3>1 DEF MetInv, LookupMet
      <3> QED
        BY <1>2, <1>3, <3>2, <3>3 DEF LookupMet, LookupSaw, Asking
    <2>2. CASE Goes(l)
      <3>1. AliasAbout'
        BY <1>1, AliasAboutMoves DEF LookupMoves
      <3>2. LookupMet(l, x) /\ x.could = k.could
        BY <1>1, <2>2, <3>1, MetMoves
      <3>3. CouldMeet(l, disk) \subseteq k.could
        BY <2>2, GoesFrom DEF MetInv, LookupSaw
      <3> QED
        BY <1>2, <1>3, <3>2, <3>3 DEF LookupSaw
    <2> QED
      BY <2>1, <2>2
  <1> QED
    BY <1>2, <1>4, <1>5 DEF MetInv

\* A change of the installs adds what it brings to every lookup under way.
LEMMA MetOfSeen ==
    ASSUME TypeInv, MetInv, LookupsSee(disk'), UNCHANGED cache
    PROVE  MetInv'
  <1>1. \A l \in Lookups :
          /\ SeenAs(lookup[l], lookup'[l])
          /\ lookup[l].pc \notin {"idle", "done"} => CouldMeet(l, disk') \subseteq lookup'[l].could
    BY SeeTypes
  <1>2. ASSUME NEW l \in Lookups PROVE LookupMet(l, lookup'[l]) /\ LookupSaw(l)'
    <2>1. LookupMet(l, lookup[l])
      BY DEF MetInv
    <2>2. LookupMet(l, lookup'[l])
      BY <1>1, <2>1 DEF LookupMet, SeenAs
    <2>3. CouldMeet(l, disk)' \subseteq CouldMeet(l, disk')
      BY <1>1 DEF CouldMeet, Meets, SeenAs
    <2> QED
      BY <1>1, <2>2, <2>3 DEF LookupSaw, SeenAs
  <1> QED
    BY <1>2 DEF MetInv

\* Entries are dropped.
LEMMA MetOfCache ==
    ASSUME MetInv, UNCHANGED <<lookup, disk>>, \A key \in Keys : cache'[key] \in {cache[key], Nowhere}
    PROVE  MetInv'
  <1>1. \A l \in Lookups : CouldMeet(l, disk)' \subseteq CouldMeet(l, disk)
    BY DEF CouldMeet, Meets
  <1> QED
    BY <1>1 DEF MetInv, LookupSaw

\* Every step.
LEMMA MetStep ==
    ASSUME ~ MultiLevel, Comparable, TypeInv, AboutInv, MetInv, [Next]_vars
    PROVE  MetInv'
  <1>1. ASSUME NEW l \in Lookups, Start(l) \/ Goes(l) PROVE MetInv'
    BY <1>1, MetOfOne
  <1>2. ASSUME NEW r, SomebodyChanges(r) \/ OwnInstall(r) \/ OwnUninstall(r) PROVE MetInv'
    BY <1>2, MetOfSeen DEF SomebodyChanges, OwnInstall, OwnUninstall, Change
  <1>3. CASE OwnRecords
    <2>1. LookupsSee(disk') /\ UNCHANGED cache
      BY <1>3 DEF OwnRecords, cacheVars, LookupsSee, CouldMeet
    <2> QED
      BY <2>1, MetOfSeen
  <1>4. CASE OwnInvalidates
    BY <1>4, MetOfCache DEF OwnInvalidates, Invalidate
  <1>5. CASE EntryExpires
    BY <1>5, MetOfCache DEF EntryExpires, Expire, TypeInv, CacheInv
  <1>6. CASE UNCHANGED vars
    BY <1>6, MetOfCache DEF vars, cacheVars
  <1> QED
    BY <1>1, <1>2, <1>3, <1>4, <1>5, <1>6 DEF Next

\* Nobody has been told anything at first.
LEMMA MetStarts ==
    ASSUME Init
    PROVE  MetInv
  <1>1. \A l \in Lookups : lookup[l].pc = "idle" /\ lookup[l].result = Nowhere
    BY DEF Init, Idle
  <1> QED
    BY <1>1 DEF MetInv, LookupMet, LookupSaw, Asking

\* The host findPath returns did hold an install that meets the request, as documented, at
\* a moment the lookup may have seen, however the installs change, whatever the cache holds
\* and whoever else looks up. A full request whose third part is 0 is excluded: it is not
\* compared as documented (DotnetConditionValidator.ts).
THEOREM ReturnsWhatMet ==
    ASSUME ~ MultiLevel, Comparable
    PROVE  Spec => []ResultWasMet
  <1> DEFINE Inv == TypeInv /\ EnvInv /\ AboutInv /\ FreshInv /\ MetInv
  <1>1. Init => Inv
    BY TypeInvStarts, EnvInvStarts, FreshStarts, MetStarts
  <1>2. Inv /\ [Next]_vars => Inv'
    BY TypeInvStep, EnvInvStep, FreshStep, MetStep
  <1>3. Inv => ResultWasMet
    BY DEF MetInv, LookupMet, ResultWasMet
  <1> HIDE DEF Inv
  <1> QED
    BY <1>1, <1>2, <1>3, PTL DEF Spec

-----------------------------------------------------------------------------
(***************************************************************************)
(* The order of the candidates                                             *)
(***************************************************************************)

\* rawPATH looks for what realPATH is offered.
OffersAt(s) == IF s = "rawPATH" THEN Offers("realPATH") ELSE Offers(s)

\* The offers of a source that may be returned.
Fitting(l, s) == {n \in DOMAIN OffersAt(s) : Consulted(l, s) /\ Acceptable(l, s, OffersAt(s)[n])}

\* Of what was offered, `found` has been resolved and `todo` has not, in the order of
\* the offers, and nothing fitting is missing.
Keeps(f, t, found, todo, offers, ordered, fit) ==
    /\ f \in [DOMAIN found -> DOMAIN offers] /\ t \in [DOMAIN todo -> DOMAIN offers]
    /\ \A m \in DOMAIN found : found[m] = offers[f[m]]
    /\ \A m \in DOMAIN todo : At[todo[m]] = At[offers[t[m]]]
    /\ ordered => /\ \A m, n \in DOMAIN found : m < n => f[m] < f[n]
                  /\ \A m, n \in DOMAIN todo : m < n => t[m] < t[n]
                  /\ \A m \in DOMAIN found, n \in DOMAIN todo : f[m] < t[n]
    /\ \A d \in fit :
         \/ \E m \in DOMAIN found : found[m] = offers[d] /\ (ordered => f[m] <= d)
         \/ \E m \in DOMAIN todo : At[todo[m]] = At[offers[d]] /\ (ordered => t[m] <= d)

Kept(found, todo, offers, ordered, fit) == \E f, t : Keeps(f, t, found, todo, offers, ordered, fit)

KeptAt(l, found, todo, s) == Kept(found, todo, OffersAt(s), s # "managed", Fitting(l, s))

\* The sources a lookup is past had nothing that fits.
Passed(l, src) == \A j \in DOMAIN Order : j < src /\ Order[j] # "rawPATH" => Fitting(l, Order[j]) = {}

\* The source it is at.
AtWork(l, k) ==
    /\ k.src \in 1 .. Len(Order)
    /\ KeptAt(l, k.found, k.todo, Order[k.src])
    /\ Order[k.src] = "managed" => Consulted(l, "managed")
    /\ Order[k.src] = "rawPATH" => k.pc \in Asking /\ k.task = "resolve"
    /\ k.pc \in Asking /\ k.task = "resolve" => Order[k.src] \in Resolved

\* What the hosts have told it.
Told(l, k) ==
    /\ k.pc \in Asking => k.key.kind = IF k.task = "list" THEN ListingOf(l) ELSE "runtimes"
    /\ k.pc \in {"ran", "answered"} => k.out.items = Listed(k.key.kind, k.name, k.key.env)
    /\ k.pc \in Asking /\ k.task = "arch" => k.listing = Listed(ListingOf(l), k.name, "0")
    /\ k.pc = "mark" => Acceptable(l, Order[k.src], k.found[1])

\* It has returned the first.
First(l, result) ==
    \/ Options(l) = {} /\ result = Nowhere
    \/ \E p \in Options(l) :
         /\ result = Offers(Documentation[p[1]])[p[2]]
         /\ \A q \in Options(l) : ~ ComesBefore(q, p)

Way(l, k) ==
    /\ k.pc = "idle" => k.src = 1
    /\ ~ (k.pc \in Asking /\ k.task = "resolve") => k.todo = <<>>
    /\ k.clean /\ k.pc \notin {"idle", "done"} =>
         /\ Passed(l, k.src)
         /\ k.pc # "source" => AtWork(l, k) /\ Told(l, k)
         /\ k.pc = "source" /\ k.src = 5 => KeptAt(l, k.found, <<>>, "realPATH")
    /\ k.clean /\ k.pc = "done" => First(l, k.result)

OrderInv == \A l \in Lookups : Way(l, lookup[l])

Runs(installs) == installs # {} => \E i \in installs : i.mode # "sdk"
DiskInv == (\A r \in Roots : Runs(disk[r])) /\ \A r \in Managed : disk[r] \subseteq Initially[r]

\* A source begins with all of its offers, resolved or not.
LEMMA KeptAllTodo ==
    ASSUME NEW names, NEW offers, DOMAIN names = DOMAIN offers, DOMAIN offers \subseteq Nat,
           \A n \in DOMAIN offers : At[names[n]] = At[offers[n]],
           NEW ordered \in BOOLEAN, NEW fit \in SUBSET DOMAIN offers
    PROVE  Kept(<<>>, names, offers, ordered, fit)
  <1> DEFINE f == [m \in DOMAIN <<>> |-> m]
             t == [m \in DOMAIN names |-> m]
  <1>1. DOMAIN <<>> = {}
    OBVIOUS
  <1>2. f \in [DOMAIN <<>> -> DOMAIN offers] /\ t \in [DOMAIN names -> DOMAIN offers]
    BY <1>1
  <1>3. \A m \in DOMAIN names : t[m] = m /\ m \in Nat
    OBVIOUS
  <1> HIDE DEF f, t
  <1>4. \A d \in fit : \E m \in DOMAIN names : At[names[m]] = At[offers[d]] /\ t[m] <= d
    BY <1>3
  <1>5. Keeps(f, t, <<>>, names, offers, ordered, fit)
    BY <1>1, <1>2, <1>3, <1>4 DEF Keeps
  <1> QED
    BY <1>5 DEF Kept

\* Or, where nothing is resolved, they are found at once.
LEMMA KeptAllFound ==
    ASSUME NEW names, NEW offers, names = offers, DOMAIN offers \subseteq Nat,
           NEW ordered \in BOOLEAN, NEW fit \in SUBSET DOMAIN offers
    PROVE  Kept(names, <<>>, offers, ordered, fit)
  <1> DEFINE t == [m \in DOMAIN <<>> |-> m]
             f == [m \in DOMAIN names |-> m]
  <1>1. DOMAIN <<>> = {}
    OBVIOUS
  <1>2. t \in [DOMAIN <<>> -> DOMAIN offers] /\ f \in [DOMAIN names -> DOMAIN offers]
    BY <1>1
  <1>3. \A m \in DOMAIN names : f[m] = m /\ m \in Nat
    OBVIOUS
  <1> HIDE DEF f, t
  <1>4. \A d \in fit : \E m \in DOMAIN names : names[m] = offers[d] /\ f[m] <= d
    BY <1>3
  <1>5. Keeps(f, t, names, <<>>, offers, ordered, fit)
    BY <1>1, <1>2, <1>3, <1>4 DEF Keeps
  <1> QED
    BY <1>5 DEF Kept

\* Where no order is kept, the names may be any selection with all that fits.
LEMMA KeptAnyhow ==
    ASSUME NEW names, NEW offers, NEW fit,
           \A m \in DOMAIN names : \E n \in DOMAIN offers : names[m] = offers[n],
           \A d \in fit : \E m \in DOMAIN names : names[m] = offers[d]
    PROVE  Kept(names, <<>>, offers, FALSE, fit)
  <1> DEFINE t == [m \in DOMAIN <<>> |-> m]
             f == [m \in DOMAIN names |-> CHOOSE n \in DOMAIN offers : names[m] = offers[n]]
  <1>1. DOMAIN <<>> = {}
    OBVIOUS
  <1>2. t \in [DOMAIN <<>> -> DOMAIN offers]
    BY <1>1
  <1>3. \A m \in DOMAIN names : f[m] \in DOMAIN offers /\ names[m] = offers[f[m]]
    OBVIOUS
  <1>4. f \in [DOMAIN names -> DOMAIN offers]
    BY <1>3
  <1> HIDE DEF f, t
  <1>5. Keeps(f, t, names, <<>>, offers, FALSE, fit)
    BY <1>1, <1>2, <1>3, <1>4 DEF Keeps
  <1> QED
    BY <1>5 DEF Kept

\* What was resolved before is resolved again.
LEMMA KeptToResolve ==
    ASSUME NEW names, NEW offers, NEW ordered \in BOOLEAN, NEW fit, Kept(names, <<>>, offers, ordered, fit)
    PROVE  Kept(<<>>, names, offers, ordered, fit)
  <1>1. DOMAIN <<>> = {}
    OBVIOUS
  <1>2. PICK f, t : Keeps(f, t, names, <<>>, offers, ordered, fit)
    BY DEF Kept
  <1>3. Keeps(t, f, <<>>, names, offers, ordered, fit)
    BY <1>1, <1>2 DEF Keeps
  <1> QED
    BY <1>3 DEF Kept

\* When nothing is left, nothing fitted.
LEMMA KeptNothing ==
    ASSUME NEW offers, NEW ordered \in BOOLEAN, NEW fit, Kept(<<>>, <<>>, offers, ordered, fit)
    PROVE  fit = {}
  <1>1. DOMAIN <<>> = {}
    OBVIOUS
  <1> QED
    BY <1>1 DEF Kept, Keeps

\* The parts of a sequence.
LEMMA TailParts ==
    ASSUME NEW T, NEW c \in Seq(T), c # <<>>
    PROVE  /\ DOMAIN c = 1 .. Len(c) /\ Len(c) \in Nat \ {0} /\ Tail(c) \in Seq(T)
           /\ DOMAIN Tail(c) = 1 .. Len(c) - 1 /\ \A m \in 1 .. Len(c) - 1 : Tail(c)[m] = c[m + 1]
  <1>1. c \in Seq(T) /\ c # <<>> /\ Len(c) \in Nat /\ DOMAIN c = 1 .. Len(c)
    OBVIOUS
  <1>2. Len(c) # 0
    BY <1>1
  <1>3. Tail(c) \in Seq(T) /\ Len(Tail(c)) = Len(c) - 1
    BY <1>1
  <1>4. \A m \in 1 .. Len(c) - 1 : Tail(c)[m] = c[m + 1]
    BY <1>1
  <1> QED
    BY <1>1, <1>2, <1>3, <1>4

\* The first of `todo` moves to the end of `found`.
Moves(a, b, found, todo, new, rest) ==
    /\ DOMAIN found = 1 .. a /\ DOMAIN todo = 1 .. b + 1
    /\ DOMAIN new = 1 .. a + 1 /\ DOMAIN rest = 1 .. b
    /\ (\A m \in 1 .. a : new[m] = found[m]) /\ (\A m \in 1 .. b : rest[m] = todo[m + 1])
    /\ new[a + 1] = At[todo[1]]

\* The offers are where their own roots lead; those that fit are among them.
Rooted(offers, ordered, fit) ==
    /\ ordered \in BOOLEAN /\ fit \in SUBSET DOMAIN offers /\ DOMAIN offers \subseteq Nat
    /\ \A n \in DOMAIN offers : At[offers[n]] = offers[n]

\* It is kept where its root was offered.
LEMMA KeptMoved ==
    ASSUME NEW a \in Nat, NEW b \in Nat, NEW found, NEW todo, NEW new, NEW rest,
           NEW offers, NEW ordered, NEW fit,
           Moves(a, b, found, todo, new, rest), Rooted(offers, ordered, fit),
           Kept(found, todo, offers, ordered, fit)
    PROVE  Kept(new, rest, offers, ordered, fit)
  <1> USE DEF Moves, Rooted
  <1>1. PICK f, t : Keeps(f, t, found, todo, offers, ordered, fit)
    BY DEF Kept
  <1>2. /\ f \in [1 .. a -> DOMAIN offers] /\ t \in [1 .. b + 1 -> DOMAIN offers]
        /\ \A m \in 1 .. a : found[m] = offers[f[m]]
        /\ \A m \in 1 .. b + 1 : At[todo[m]] = At[offers[t[m]]]
    BY <1>1 DEF Keeps
  <1>3. 1 \in 1 .. b + 1 /\ a + 1 \in 1 .. a + 1 /\ \A m \in 1 .. b : m + 1 \in 1 .. b + 1
    OBVIOUS
  <1> DEFINE g == [m \in 1 .. a + 1 |-> IF m <= a THEN f[m] ELSE t[1]]
             u == [m \in 1 .. b |-> t[m + 1]]
  <1>4. /\ g \in [1 .. a + 1 -> DOMAIN offers] /\ u \in [1 .. b -> DOMAIN offers]
        /\ (\A m \in 1 .. a : g[m] = f[m]) /\ g[a + 1] = t[1] /\ \A m \in 1 .. b : u[m] = t[m + 1]
    BY <1>2, <1>3
  <1> HIDE DEF g, u
  <1>5. At[todo[1]] = offers[t[1]]
    BY <1>2, <1>3
  <1>6. \A m \in 1 .. a + 1 : new[m] = offers[g[m]]
    <2> SUFFICES ASSUME NEW m \in 1 .. a + 1 PROVE new[m] = offers[g[m]]
      OBVIOUS
    <2>1. CASE m = a + 1
      BY <1>4, <1>5, <2>1
    <2>2. CASE m \in 1 .. a
      BY <1>2, <1>4, <2>2
    <2> QED
      BY <2>1, <2>2
  <1>7. \A m \in 1 .. b : At[rest[m]] = At[offers[u[m]]]
    BY <1>2, <1>3, <1>4
  <1>8. ASSUME ordered
        PROVE  /\ \A m, n \in 1 .. a + 1 : m < n => g[m] < g[n]
               /\ \A m, n \in 1 .. b : m < n => u[m] < u[n]
               /\ \A m \in 1 .. a + 1, n \in 1 .. b : g[m] < u[n]
    <2>1. /\ \A m, n \in 1 .. a : m < n => f[m] < f[n]
          /\ \A m, n \in 1 .. b + 1 : m < n => t[m] < t[n]
          /\ \A m \in 1 .. a, n \in 1 .. b + 1 : f[m] < t[n]
      BY <1>1, <1>8 DEF Keeps
    <2>2. ASSUME NEW m \in 1 .. a + 1
          PROVE  (m \in 1 .. a /\ g[m] = f[m]) \/ (m = a + 1 /\ g[m] = t[1])
      <3>1. m \in 1 .. a \/ m = a + 1
        OBVIOUS
      <3> QED
        BY <1>4, <3>1
    <2>3. \A m \in 1 .. b : u[m] = t[m + 1] /\ m + 1 \in 1 .. b + 1 /\ 1 < m + 1
      BY <1>3, <1>4
    <2>4. \A m, n \in 1 .. b : m < n => u[m] < u[n]
      <3> SUFFICES ASSUME NEW m \in 1 .. b, NEW n \in 1 .. b, m < n PROVE u[m] < u[n]
        OBVIOUS
      <3>1. m + 1 < n + 1
        OBVIOUS
      <3> QED
        BY <2>1, <2>3, <3>1
    <2>5. \A m \in 1 .. a + 1, n \in 1 .. b : g[m] < u[n]
      BY <1>3, <2>1, <2>2, <2>3
    <2>6. \A m, n \in 1 .. a + 1 : m < n => g[m] < g[n]
      BY <1>3, <2>1, <2>2
    <2> QED
      BY <2>4, <2>5, <2>6
  <1>9. ASSUME NEW d \in fit
        PROVE  \/ \E m \in 1 .. a + 1 : new[m] = offers[d] /\ (ordered => g[m] <= d)
               \/ \E m \in 1 .. b : At[rest[m]] = At[offers[d]] /\ (ordered => u[m] <= d)
    <2>1. CASE \E m \in 1 .. a : found[m] = offers[d] /\ (ordered => f[m] <= d)
      BY <1>4, <2>1
    <2>2. ASSUME NEW m \in 1 .. b + 1, At[todo[m]] = At[offers[d]], ordered => t[m] <= d
          PROVE  \/ \E n \in 1 .. a + 1 : new[n] = offers[d] /\ (ordered => g[n] <= d)
                 \/ \E n \in 1 .. b : At[rest[n]] = At[offers[d]] /\ (ordered => u[n] <= d)
      <3>1. CASE m = 1
        <4>1. new[a + 1] = offers[d] /\ g[a + 1] = t[m]
          BY <1>4, <2>2, <3>1
        <4> QED
          BY <1>3, <2>2, <4>1
      <3>2. CASE m # 1
        <4>1. m - 1 \in 1 .. b /\ (m - 1) + 1 = m
          BY <3>2
        <4>2. rest[m - 1] = todo[m] /\ u[m - 1] = t[m]
          BY <1>4, <4>1
        <4> QED
          BY <2>2, <4>1, <4>2
      <3> QED
        BY <3>1, <3>2
    <2>3. \/ \E m \in 1 .. a : found[m] = offers[d] /\ (ordered => f[m] <= d)
          \/ \E m \in 1 .. b + 1 : At[todo[m]] = At[offers[d]] /\ (ordered => t[m] <= d)
      BY <1>1 DEF Keeps
    <2> QED
      BY <2>1, <2>2, <2>3
  <1>10. Keeps(g, u, new, rest, offers, ordered, fit)
    BY <1>4, <1>6, <1>7, <1>8, <1>9 DEF Keeps
  <1> QED
    BY <1>10 DEF Kept

\* The first that was to be resolved is found where it leads.
LEMMA KeptResolved ==
    ASSUME NEW found \in Seq(Names), NEW todo \in Seq(Names), todo # <<>>,
           NEW offers, NEW ordered \in BOOLEAN, NEW fit \in SUBSET DOMAIN offers,
           DOMAIN offers \subseteq Nat,
           \A n \in DOMAIN offers : At[offers[n]] = offers[n],
           Kept(found, todo, offers, ordered, fit)
    PROVE  Kept(Append(found, At[todo[1]]), Tail(todo), offers, ordered, fit)
  <1> DEFINE a == Len(found)
             b == Len(todo) - 1
             new == Append(found, At[todo[1]])
             rest == Tail(todo)
  <1>1. /\ DOMAIN todo = 1 .. b + 1 /\ b \in Nat
        /\ DOMAIN rest = 1 .. b /\ \A m \in 1 .. b : rest[m] = todo[m + 1]
    BY TailParts
  <1>2. /\ DOMAIN found = 1 .. a /\ a \in Nat /\ DOMAIN new = 1 .. a + 1
        /\ (\A m \in 1 .. a : new[m] = found[m]) /\ new[a + 1] = At[todo[1]]
    OBVIOUS
  <1> HIDE DEF a, b, new, rest
  <1>3. Kept(new, rest, offers, ordered, fit)
    <2>1. a \in Nat /\ b \in Nat
      BY <1>1, <1>2
    <2>2. Moves(a, b, found, todo, new, rest)
      BY <1>1, <1>2 DEF Moves
    <2>3. Rooted(offers, ordered, fit)
      BY DEF Rooted
    <2> QED
      BY <2>1, <2>2, <2>3, KeptMoved
  <1> QED
    BY <1>3 DEF new, rest

\* What does not fit is left out before it is resolved.
LEMMA KeptWithoutTodo ==
    ASSUME NEW found \in Seq(Names), NEW todo \in Seq(Names), todo # <<>>,
           NEW offers, NEW ordered \in BOOLEAN, NEW fit \in SUBSET DOMAIN offers,
           \A d \in fit : At[todo[1]] # At[offers[d]],
           Kept(found, todo, offers, ordered, fit)
    PROVE  Kept(found, Tail(todo), offers, ordered, fit)
  <1> DEFINE b == Len(todo) - 1
             rest == Tail(todo)
  <1>1. /\ DOMAIN todo = 1 .. b + 1 /\ b \in Nat
        /\ DOMAIN rest = 1 .. b /\ \A m \in 1 .. b : rest[m] = todo[m + 1]
    BY TailParts
  <1> HIDE DEF b, rest
  <1>2. PICK f, t : Keeps(f, t, found, todo, offers, ordered, fit)
    BY DEF Kept
  <1>3. /\ f \in [DOMAIN found -> DOMAIN offers] /\ t \in [1 .. b + 1 -> DOMAIN offers]
        /\ \A m \in DOMAIN found : found[m] = offers[f[m]]
        /\ \A m \in 1 .. b + 1 : At[todo[m]] = At[offers[t[m]]]
    BY <1>1, <1>2 DEF Keeps
  <1> DEFINE u == [m \in 1 .. b |-> t[m + 1]]
  <1>4. /\ u \in [1 .. b -> DOMAIN offers]
        /\ \A m \in 1 .. b : u[m] = t[m + 1] /\ rest[m] = todo[m + 1] /\ m + 1 \in 1 .. b + 1
    BY <1>1, <1>3
  <1> HIDE DEF u
  <1>5. ASSUME ordered
        PROVE  /\ \A m, n \in DOMAIN found : m < n => f[m] < f[n]
               /\ \A m, n \in 1 .. b : m < n => u[m] < u[n]
               /\ \A m \in DOMAIN found, n \in 1 .. b : f[m] < u[n]
    <2>1. /\ \A m, n \in DOMAIN found : m < n => f[m] < f[n]
          /\ \A m, n \in 1 .. b + 1 : m < n => t[m] < t[n]
          /\ \A m \in DOMAIN found, n \in 1 .. b + 1 : f[m] < t[n]
      BY <1>1, <1>2, <1>5 DEF Keeps
    <2>2. ASSUME NEW m \in 1 .. b, NEW n \in 1 .. b, m < n PROVE u[m] < u[n]
      <3>1. m + 1 < n + 1
        BY <2>2
      <3> QED
        BY <1>4, <2>1, <3>1
    <2> QED
      BY <1>4, <2>1, <2>2
  <1>6. ASSUME NEW d \in fit
        PROVE  \/ \E m \in DOMAIN found : found[m] = offers[d] /\ (ordered => f[m] <= d)
               \/ \E m \in 1 .. b : At[rest[m]] = At[offers[d]] /\ (ordered => u[m] <= d)
    <2>1. ASSUME NEW m \in 1 .. b + 1, At[todo[m]] = At[offers[d]], ordered => t[m] <= d
          PROVE  \E n \in 1 .. b : At[rest[n]] = At[offers[d]] /\ (ordered => u[n] <= d)
      <3>1. m # 1
        BY <2>1
      <3>2. m - 1 \in 1 .. b /\ (m - 1) + 1 = m
        BY <1>1, <3>1
      <3>3. rest[m - 1] = todo[m] /\ u[m - 1] = t[m]
        BY <1>4, <3>2
      <3> QED
        BY <2>1, <3>2, <3>3
    <2>2. \/ \E m \in DOMAIN found : found[m] = offers[d] /\ (ordered => f[m] <= d)
          \/ \E m \in 1 .. b + 1 : At[todo[m]] = At[offers[d]] /\ (ordered => t[m] <= d)
      BY <1>1, <1>2 DEF Keeps
    <2> QED
      BY <2>1, <2>2
  <1>7. \A m \in 1 .. b : At[rest[m]] = At[offers[u[m]]]
    BY <1>3, <1>4
  <1>8. Keeps(f, u, found, rest, offers, ordered, fit)
    BY <1>1, <1>3, <1>4, <1>5, <1>6, <1>7 DEF Keeps
  <1> QED
    BY <1>8 DEF Kept, rest

\* Or after.
LEMMA KeptWithoutFirst ==
    ASSUME NEW found \in Seq(Names), found # <<>>,
           NEW offers, NEW ordered \in BOOLEAN, NEW fit \in SUBSET DOMAIN offers,
           \A d \in fit : found[1] # offers[d],
           Kept(found, <<>>, offers, ordered, fit)
    PROVE  Kept(Tail(found), <<>>, offers, ordered, fit)
  <1> DEFINE b == Len(found) - 1
             rest == Tail(found)
  <1>1. /\ DOMAIN found = 1 .. b + 1 /\ b \in Nat
        /\ DOMAIN rest = 1 .. b /\ \A m \in 1 .. b : rest[m] = found[m + 1]
    BY TailParts
  <1> HIDE DEF b, rest
  <1>2. PICK f, t : Keeps(f, t, found, <<>>, offers, ordered, fit)
    BY DEF Kept
  <1>3. /\ f \in [1 .. b + 1 -> DOMAIN offers] /\ t \in [DOMAIN <<>> -> DOMAIN offers]
        /\ \A m \in 1 .. b + 1 : found[m] = offers[f[m]]
    BY <1>1, <1>2 DEF Keeps
  <1>8. DOMAIN <<>> = {}
    OBVIOUS
  <1> DEFINE g == [m \in 1 .. b |-> f[m + 1]]
  <1>4. /\ g \in [1 .. b -> DOMAIN offers]
        /\ \A m \in 1 .. b : g[m] = f[m + 1] /\ rest[m] = found[m + 1] /\ m + 1 \in 1 .. b + 1
    BY <1>1, <1>3
  <1> HIDE DEF g
  <1>5. ASSUME ordered, NEW m \in 1 .. b, NEW n \in 1 .. b, m < n PROVE g[m] < g[n]
    <2>1. \A i, j \in 1 .. b + 1 : i < j => f[i] < f[j]
      BY <1>1, <1>2, <1>5 DEF Keeps
    <2>2. m + 1 < n + 1
      BY <1>5
    <2> QED
      BY <1>4, <2>1, <2>2
  <1>6. ASSUME NEW d \in fit
        PROVE  \E m \in 1 .. b : rest[m] = offers[d] /\ (ordered => g[m] <= d)
    <2>1. PICK m \in 1 .. b + 1 : found[m] = offers[d] /\ (ordered => f[m] <= d)
      BY <1>1, <1>2, <1>8 DEF Keeps
    <2>2. m # 1
      BY <2>1
    <2>3. m - 1 \in 1 .. b /\ (m - 1) + 1 = m
      BY <1>1, <2>2
    <2>4. rest[m - 1] = found[m] /\ g[m - 1] = f[m]
      BY <1>4, <2>3
    <2> QED
      BY <2>1, <2>3, <2>4
  <1>9. \A m \in 1 .. b : rest[m] = offers[g[m]]
    BY <1>3, <1>4
  <1>7. Keeps(g, t, rest, <<>>, offers, ordered, fit)
    BY <1>1, <1>3, <1>4, <1>5, <1>6, <1>8, <1>9 DEF Keeps
  <1> QED
    BY <1>7 DEF Kept, rest

\* If the first of what is left fits, nothing that fits was offered before it.
LEMMA KeptFirst ==
    ASSUME NEW found \in Seq(Names), found # <<>>,
           NEW offers, NEW ordered \in BOOLEAN, NEW fit \in SUBSET DOMAIN offers,
           DOMAIN offers \subseteq Nat,
           \A n \in DOMAIN offers : found[1] = offers[n] => n \in fit,
           Kept(found, <<>>, offers, ordered, fit)
    PROVE  \E d \in fit : found[1] = offers[d] /\ (ordered => \A e \in fit : d <= e)
  <1>1. PICK f, t : Keeps(f, t, found, <<>>, offers, ordered, fit)
    BY DEF Kept
  <1>2. 1 \in DOMAIN found /\ DOMAIN found \subseteq Nat \ {0} /\ DOMAIN <<>> = {}
    BY TailParts
  <1>3. f[1] \in fit /\ found[1] = offers[f[1]]
    BY <1>1, <1>2 DEF Keeps
  <1>4. ASSUME ordered, NEW e \in fit PROVE f[1] <= e
    <2>1. PICK m \in DOMAIN found : f[m] <= e
      BY <1>1, <1>2, <1>4 DEF Keeps
    <2>2. f[1] \in Nat /\ f[m] \in Nat /\ e \in Nat
      BY <1>1, <1>2 DEF Keeps
    <2>3. f[1] <= f[m]
      <3>1. m = 1 \/ 1 < m
        BY <1>2
      <3> QED
        BY <1>1, <1>2, <1>4, <2>2, <3>1 DEF Keeps
    <2> QED
      BY <2>1, <2>2, <2>3
  <1> QED
    BY <1>3, <1>4

-----------------------------------------------------------------------------
\* The requests that are compared as documented (VersionRequirement_proofs).
AsDocumented == \A l \in Lookups : LET q == Request[l] IN
    \/ q.form = "full" /\ q.third # 0
    \/ q.form = "majorMinor" /\ (q.mode # "sdk" \/ q.spec \notin {"latestPatch", "latestFeature"})

\* Whoever installs a .NET installs a runtime: `dotnet` does not run without one.
HostsRun == \A r \in Roots :
    /\ Runs(Initially[r])
    /\ r \notin Managed => \A installs \in Others[r] : Runs(installs)

\* A record names the version of its runtime.
RecordsTrue == \A r \in Managed : \A i \in Initially[r] : i.mode # "sdk" => i.version = Recorded[r]

\* Then what is accepted is what is documented.
LEMMA AcceptedAsDocumented ==
    ASSUME AsDocumented, NEW l \in Lookups, NEW s, NEW i \in Installs
    PROVE  InstallMeets(i, Wanted(l, s)) <=> Documented(i, Wanted(l, s))
  <1> DEFINE q == Request[l]
             w == Wanted(l, s)
  <1>1. q \in Requests
    BY LookupAssumption
  <1>2. /\ w \in Requests /\ w.form = q.form /\ w.mode = q.mode /\ w.spec = q.spec /\ w.third = q.third
    BY <1>1 DEF Wanted, Requests
  <1>3. i.version \in Versions
    BY CacheAssumption
  <1>4. \/ w.form = "full" /\ w.third # 0
        \/ w.form = "majorMinor" /\ (w.mode # "sdk" \/ w.spec \notin {"latestPatch", "latestFeature"})
    BY <1>2 DEF AsDocumented
  <1> HIDE DEF w
  <1>5. VersionMeets(i.version, w) <=> IF w.form = "full" THEN InOrder(i.version, w)
                                                        ELSE InMajorMinorOrder(i.version, w)
    <2>1. CASE w.form = "full" /\ w.third # 0
      BY <1>2, <1>3, <2>1, FullRequestsInOrder
    <2>2. CASE w.form = "majorMinor" /\ (w.mode # "sdk" \/ w.spec \notin {"latestPatch", "latestFeature"})
      BY <1>2, <1>3, <2>2, MajorMinorRequestsInOrder
    <2> QED
      BY <1>4, <2>1, <2>2
  <1> QED
    BY <1>5 DEF InstallMeets, Documented, w

\* A host that lists no runtime has nothing; one that lists nothing of the mode does not fit.
LEMMA NothingFits ==
    ASSUME TypeInv, DiskInv, NEW l \in Lookups, NEW s, NEW n \in Names, NEW e,
           NEW kind \in {"runtimes", ListingOf(l)}, Listed(kind, n, e) = {}
    PROVE  ~ Acceptable(l, s, n)
  <1>1. At[n] \in Roots /\ disk[At[n]] \subseteq Installs /\ Runs(disk[At[n]])
    BY CacheAssumption DEF TypeInv, DiskInv
  <1>2. \A i \in disk[At[n]] :
          <<At[n], i>> \in Listed(kind, n, e) \/ ~ ((kind = "sdks") <=> (i.mode = "sdk"))
    BY <1>1, CacheAssumption DEF Listed
  <1>3. \A i \in disk[At[n]] : ~ ((kind = "sdks") <=> (i.mode = "sdk"))
    BY <1>2
  <1>4. CASE kind = "runtimes"
    BY <1>1, <1>3, <1>4 DEF Acceptable, Runs
  <1>5. CASE kind = ListingOf(l)
    <2>1. (kind = "sdks") <=> (Request[l].mode = "sdk")
      BY <1>5 DEF ListingOf, Sdk
    <2>2. Wanted(l, s).mode = Request[l].mode
      BY LookupAssumption DEF Wanted, Requests
    <2> QED
      BY <1>3, <2>1, <2>2 DEF Acceptable, Documented
  <1> QED
    BY <1>4, <1>5

\* A candidate whose installs are listed is judged as documented.
LEMMA JudgedAsDocumented ==
    ASSUME TypeInv, ~ MultiLevel, AsDocumented, NEW l \in Lookups, NEW s, NEW n \in Names, NEW e,
           HostArch[At[n]] = Arch[l]
    PROVE  (\E x \in Listed(ListingOf(l), n, e) : InstallMeets(x[2], Wanted(l, s))) <=> Acceptable(l, s, n)
  <1> DEFINE items == Listed(ListingOf(l), n, e)
             w == Wanted(l, s)
  <1>1. At[n] \in Roots /\ disk[At[n]] \subseteq Installs
    BY CacheAssumption DEF TypeInv
  <1>2. w.mode = Request[l].mode
    BY LookupAssumption DEF Wanted, Requests
  <1>3. (ListingOf(l) = "sdks") <=> (Request[l].mode = "sdk")
    BY DEF ListingOf, Sdk
  <1>4. \A x \in items : x[2] \in disk[At[n]]
    BY DEF Listed
  <1>5. \A i \in disk[At[n]] : i.mode = w.mode => <<At[n], i>> \in items
    BY <1>1, <1>2, <1>3, CacheAssumption DEF Listed
  <1> HIDE DEF items, w
  <1>6. ASSUME NEW x \in items, InstallMeets(x[2], w) PROVE \E i \in disk[At[n]] : InstallMeets(i, w)
    BY <1>4, <1>6
  <1>7. ASSUME NEW i \in disk[At[n]], InstallMeets(i, w) PROVE \E x \in items : InstallMeets(x[2], w)
    <2>1. <<At[n], i>> \in items
      BY <1>5, <1>7 DEF InstallMeets
    <2> QED
      BY <1>7, <2>1
  <1>8. (\E x \in items : InstallMeets(x[2], w)) <=> \E i \in disk[At[n]] : InstallMeets(i, w)
    BY <1>6, <1>7
  <1>9. \A i \in disk[At[n]] : InstallMeets(i, w) <=> Documented(i, w)
    BY <1>1, AcceptedAsDocumented DEF w
  <1> QED
    BY <1>8, <1>9 DEF Acceptable, items, w

\* What the sources offer depends on the installs and the records alone.
LEMMA SameOffers ==
    ASSUME UNCHANGED <<disk, records>>
    PROVE  /\ \A s : Offers(s)' = Offers(s) /\ OffersAt(s)' = OffersAt(s)
           /\ \A l, s, n : Acceptable(l, s, n)' <=> Acceptable(l, s, n)
           /\ \A l, s : Fitting(l, s)' = Fitting(l, s)
           /\ \A l : Options(l)' = Options(l)
           /\ \A kind, n, e : Listed(kind, n, e)' = Listed(kind, n, e)
  <1>1. \A s : Offers(s)' = Offers(s)
    BY DEF Offers
  <1>2. \A s : OffersAt(s)' = OffersAt(s)
    BY <1>1 DEF OffersAt
  <1>3. \A l, s, n : Acceptable(l, s, n)' <=> Acceptable(l, s, n)
    BY DEF Acceptable
  <1>4. \A l, s : Fitting(l, s)' = Fitting(l, s)
    BY <1>2, <1>3 DEF Fitting
  <1>5. \A l : Options(l)' = Options(l)
    BY <1>1, <1>3 DEF Options
  <1>6. \A kind, n, e : Listed(kind, n, e)' = Listed(kind, n, e)
    BY DEF Listed
  <1> QED
    BY <1>1, <1>2, <1>3, <1>4, <1>5, <1>6

\* So it does not matter when what a lookup has become is looked at.
LEMMA WayOfNew ==
    ASSUME UNCHANGED <<disk, records>>, NEW l \in Lookups, NEW x, lookup'[l] = x, Way(l, x)
    PROVE  Way(l, lookup[l])'
  <1>1. Passed(l, lookup[l].src)' <=> Passed(l, x.src)
    BY SameOffers DEF Passed
  <1>2. AtWork(l, lookup[l])' <=> AtWork(l, x)
    BY SameOffers DEF AtWork, KeptAt
  <1>3. Told(l, lookup[l])' <=> Told(l, x)
    BY SameOffers DEF Told
  <1>4. KeptAt(l, lookup[l].found, <<>>, "realPATH")' <=> KeptAt(l, x.found, <<>>, "realPATH")
    BY SameOffers DEF KeptAt
  <1>5. First(l, lookup[l].result)' <=> First(l, x.result)
    BY SameOffers DEF First
  <1> QED
    BY <1>1, <1>2, <1>3, <1>4, <1>5 DEF Way

\* Every element is somewhere in the sequence of a set.
LEMMA SequenceOfAll ==
    ASSUME NEW T, NEW S \in SUBSET T, IsFiniteSet(S)
    PROVE  /\ SetToSeq(S) \in Seq(T)
           /\ \A m \in DOMAIN SetToSeq(S) : SetToSeq(S)[m] \in S
           /\ \A x \in S : \E m \in DOMAIN SetToSeq(S) : SetToSeq(S)[m] = x
  <1> DEFINE n == Cardinality(S)
             c == SetToSeq(S)
  <1>1. n \in Nat /\ ExistsBijection(1 .. n, S)
    BY FS_CardinalityType
  <1>2. PICK f : f \in Bijection(1 .. n, S)
    BY <1>1 DEF ExistsBijection
  <1>3. f \in [1 .. n -> S] /\ IsInjective(f)
    BY <1>2 DEF Bijection, Injection, IsInjective
  <1>4. c \in [1 .. n -> S] /\ IsInjective(c)
    BY <1>3 DEF SetToSeq
  <1> HIDE DEF c
  <1>5. c \in Injection(1 .. n, S)
    BY <1>4 DEF Injection, IsInjective
  <1>6. IsFiniteSet(1 .. n) /\ Cardinality(1 .. n) = n
    BY <1>1, FS_Interval
  <1> HIDE DEF n
  <1>7. c \in Surjection(1 .. n, S)
    BY <1>5, <1>6, FS_Injection DEF n
  <1>8. DOMAIN c = 1 .. n
    BY <1>4
  <1>9. \A x \in S : \E m \in 1 .. n : c[m] = x
    BY <1>7 DEF Surjection
  <1>10. c \in Seq(T)
    BY SetSequence DEF c
  <1> QED
    BY <1>4, <1>8, <1>9, <1>10 DEF c

\* The sources by number.
LEMMA OrderIs ==
    /\ DOMAIN Order = 1 .. 8 /\ DOMAIN Documentation = 1 .. 7
    /\ Order[1] = "setting" /\ Order[2] = "shell" /\ Order[3] = "PATH" /\ Order[4] = "rawPATH"
    /\ Order[5] = "realPATH" /\ Order[6] = "root" /\ Order[7] = "managed" /\ Order[8] = "hostfxr"
    /\ Documentation[1] = "setting" /\ Documentation[2] = "shell" /\ Documentation[3] = "PATH"
    /\ Documentation[4] = "realPATH" /\ Documentation[5] = "root" /\ Documentation[6] = "managed"
    /\ Documentation[7] = "hostfxr"
  BY DEF Order, Documentation

\* Every source but rawPATH is documented, and in the same order.
LEMMA SameOrder ==
    /\ \A j \in 1 .. 8 : Order[j] # "rawPATH" => \E d \in 1 .. 7 : Documentation[d] = Order[j]
    /\ \A d \in 1 .. 7 : \E j \in 1 .. 8 : Order[j] = Documentation[d] /\ Order[j] # "rawPATH"
    /\ \A d, e \in 1 .. 7, i, j \in 1 .. 8 :
         Documentation[d] = Order[i] /\ Documentation[e] = Order[j] /\ d < e => i < j
    /\ \A d, e \in 1 .. 7 : Documentation[d] = Documentation[e] => d = e
    /\ \A i, j \in 1 .. 8 : Order[i] = Order[j] => i = j
  BY OrderIs

\* What the sources offer are names, of the roots themselves where they are resolved.
LEMMA OffersAre ==
    ASSUME TypeInv, NEW l, NEW j \in 1 .. 8
    PROVE  LET s == Order[j] IN
           /\ OffersAt(s) \in Seq(Names)
           /\ s \in Resolved => \A n \in DOMAIN OffersAt(s) : At[OffersAt(s)[n]] = OffersAt(s)[n]
           /\ Fitting(l, s) \in SUBSET DOMAIN OffersAt(s)
           /\ DOMAIN OffersAt(s) \subseteq Nat
           /\ (s # "managed") \in BOOLEAN
  <1> DEFINE s == Order[j]
             real(c) == [n \in DOMAIN c |-> At[c[n]]]
  <1>1. \A c \in Seq(Names) : real(c) \in Seq(Names) /\ \A n \in DOMAIN c : At[real(c)[n]] = real(c)[n]
    <2> SUFFICES ASSUME NEW c \in Seq(Names)
                 PROVE  real(c) \in Seq(Names) /\ \A n \in DOMAIN c : At[real(c)[n]] = real(c)[n]
      OBVIOUS
    <2>1. \A n \in DOMAIN c : At[c[n]] \in Roots /\ At[At[c[n]]] = At[c[n]] /\ At[c[n]] \in Names
      BY CacheAssumption
    <2>2. DOMAIN c = 1 .. Len(c) /\ Len(c) \in Nat
      OBVIOUS
    <2> QED
      BY <2>1, <2>2
  <1>2. s \in NamedSources \cup {"rawPATH", "realPATH", "managed"}
    BY OrderIs DEF NamedSources
  <1>3. SetToSeq(records) \in Seq(Names)
    <2>1. records \in SUBSET Managed /\ IsFiniteSet(records) /\ Managed \subseteq Names
      BY LookupAssumption, CacheAssumption, FS_Subset DEF TypeInv
    <2> QED
      BY <2>1, SequenceOfAll
  <1>4. CASE s = "managed"
    BY <1>3, <1>4 DEF OffersAt, Offers, Resolved, Fitting
  <1>5. CASE s = "root"
    <2>1. Candidates["root"] \in Seq(Names)
      BY LookupAssumption DEF NamedSources
    <2> QED
      BY <1>5, <2>1 DEF OffersAt, Offers, Resolved, Fitting
  <1>6. CASE s \in {"rawPATH", "realPATH"}
    <2>1. Candidates["PATH"] \in Seq(Names) /\ OffersAt(s) = real(Candidates["PATH"])
      BY <1>6, LookupAssumption DEF OffersAt, Offers, NamedSources
    <2>2. DOMAIN OffersAt(s) = DOMAIN Candidates["PATH"]
      BY <2>1
    <2> HIDE DEF real
    <2> QED
      BY <1>1, <2>1, <2>2 DEF Fitting
  <1>7. CASE s \in {"setting", "shell", "PATH", "hostfxr"}
    <2>1. Candidates[s] \in Seq(Names) /\ OffersAt(s) = real(Candidates[s])
      BY <1>7, LookupAssumption DEF OffersAt, Offers, NamedSources
    <2>2. DOMAIN OffersAt(s) = DOMAIN Candidates[s]
      BY <2>1
    <2> HIDE DEF real
    <2> QED
      BY <1>1, <2>1, <2>2 DEF Fitting
  <1> QED
    BY <1>2, <1>4, <1>5, <1>6, <1>7 DEF NamedSources

\* An option is a fitting offer of a documented source.
LEMMA OptionsFit ==
    ASSUME NEW l
    PROVE  /\ \A p \in Options(l) : p[1] \in 1 .. 7 /\ p[2] \in Fitting(l, Documentation[p[1]])
           /\ \A d \in 1 .. 7 : \A n \in Fitting(l, Documentation[d]) : <<d, n>> \in Options(l)
  <1>1. \A d \in 1 .. 7 : Documentation[d] # "rawPATH"
    BY OrderIs
  <1>2. \A d \in 1 .. 7 : Fitting(l, Documentation[d]) =
           LET s == Documentation[d] IN
           {m \in DOMAIN Offers(s) : Consulted(l, s) /\ Acceptable(l, s, Offers(s)[m])}
    BY <1>1 DEF Fitting, OffersAt
  <1>3. Options(l) = UNION {{<<d, n>> : n \in Fitting(l, Documentation[d])} : d \in 1 .. 7}
    BY <1>2, OrderIs DEF Options
  <1> QED
    BY <1>3

\* A source without anything that fits is passed.
LEMMA PassOn ==
    ASSUME NEW l, NEW src \in 1 .. 8, Passed(l, src), Order[src] = "rawPATH" \/ Fitting(l, Order[src]) = {}
    PROVE  Passed(l, src + 1)
  BY OrderIs DEF Passed

\* With all passed, there is no option.
LEMMA PassedAll ==
    ASSUME NEW l, Passed(l, 9)
    PROVE  Options(l) = {}
  <1> SUFFICES ASSUME NEW p \in Options(l) PROVE FALSE
    OBVIOUS
  <1>1. p[1] \in 1 .. 7 /\ p[2] \in Fitting(l, Documentation[p[1]])
    BY OptionsFit
  <1>2. PICK j \in 1 .. 8 : Order[j] = Documentation[p[1]] /\ Order[j] # "rawPATH"
    BY <1>1, SameOrder
  <1> QED
    BY <1>1, <1>2, OrderIs DEF Passed

\* On to the next candidate or source.
LEMMA OnwardWay ==
    ASSUME TypeInv, NEW l \in Lookups, NEW x \in LookupRec, x.src \in 1 .. 8, x.todo = <<>>,
           x.clean => /\ Order[x.src] # "rawPATH"
                      /\ Passed(l, x.src) /\ KeptAt(l, x.found, <<>>, Order[x.src])
                      /\ Order[x.src] = "managed" => Consulted(l, "managed")
    PROVE  Way(l, Onward(x))
  <1> DEFINE s == Order[x.src]
  <1>1. OffersAt(s) \in Seq(Names) /\ Fitting(l, s) \in SUBSET DOMAIN OffersAt(s)
    BY OffersAre
  <1>2. CASE x.found = <<>>
    <2> DEFINE y == [x EXCEPT !.pc = "source", !.src = x.src + 1]
    <2>1. Onward(x) = y
      BY <1>2 DEF Onward
    <2>2. y.pc = "source" /\ y.src = x.src + 1 /\ y.todo = <<>> /\ y.clean = x.clean
      BY DEF LookupRec
    <2>3. x.clean => Fitting(l, s) = {}
      BY <1>2, KeptNothing DEF KeptAt
    <2>4. x.clean => Passed(l, x.src + 1)
      BY <2>3, PassOn
    <2>5. x.clean => x.src + 1 # 5
      BY OrderIs
    <2> HIDE DEF y
    <2> QED
      BY <2>1, <2>2, <2>4, <2>5 DEF Way
  <1>3. CASE x.found # <<>>
    <2> DEFINE y == [x EXCEPT !.pc = "pick"]
    <2>1. Onward(x) = y
      BY <1>3 DEF Onward
    <2>2. /\ y.pc = "pick" /\ y.src = x.src /\ y.todo = <<>> /\ y.clean = x.clean
          /\ y.found = x.found
      BY DEF LookupRec
    <2> HIDE DEF y
    <2>3. x.clean => AtWork(l, y) /\ Told(l, y)
      BY <2>2, OrderLength DEF AtWork, Told, Asking
    <2> QED
      BY <2>1, <2>2, <2>3 DEF Way, Asking
  <1> QED
    BY <1>2, <1>3

\* It asks a host.
LEMMA ExecuteWay ==
    ASSUME TypeInv, NEW l \in Lookups, NEW k \in LookupRec, k.src \in 1 .. 8, NEW task \in Tasks,
           NEW kind \in ListingKinds, NEW name \in Names, NEW e \in EnvValues,
           NEW aliases \in [Names -> Names],
           kind = IF task = "list" THEN ListingOf(l) ELSE "runtimes",
           task # "resolve" => k.todo = <<>>,
           k.clean => /\ Passed(l, k.src) /\ KeptAt(l, k.found, k.todo, Order[k.src])
                      /\ task = "resolve" => Order[k.src] \in Resolved
                      /\ Order[k.src] = "rawPATH" => task = "resolve"
                      /\ Order[k.src] = "managed" => Consulted(l, "managed")
                      /\ task = "arch" => k.listing = Listed(ListingOf(l), name, "0")
    PROVE  Way(l, Execute(k, task, kind, name, e, aliases))
  <1> DEFINE x == Execute(k, task, kind, name, e, aliases)
             key == KeyOf(kind, name, e, aliases)
             hit == cache[key] # Nowhere
  <1>1. /\ x \in LookupRec /\ x.src = k.src /\ x.todo = k.todo /\ x.found = k.found
        /\ x.pc \in {"running", "answered"} /\ x.task = task /\ x.name = name
        /\ x.listing = k.listing
        /\ x.key = key
        /\ x.pc = "answered" => cache[x.key] # Nowhere /\ x.out = cache[x.key].out
    BY ExecuteTypes DEF TypeInv
  <1>2. x.clean = (k.clean /\ ~ (hit /\ cache[key].out.items # Listed(kind, name, e)))
    BY DEF Execute, LookupRec
  <1>3. key.kind = kind /\ key.env = e
    BY DEF KeyOf
  <1> HIDE DEF x, key
  <1>4. x.clean => k.clean
    BY <1>2
  <1>5. x.clean => (x.pc = "answered" => x.out.items = Listed(x.key.kind, x.name, x.key.env))
    BY <1>1, <1>2, <1>3
  <1>6. x.clean => Told(l, x)
    BY <1>1, <1>3, <1>4, <1>5 DEF Told, Asking
  <1>7. x.clean => AtWork(l, x)
    BY <1>1, <1>4, OrderLength DEF AtWork, Asking
  <1>8. x.clean => Passed(l, x.src)
    BY <1>1, <1>4
  <1>9. ~ (x.pc \in Asking /\ x.task = "resolve") => x.todo = <<>>
    BY <1>1 DEF Asking
  <1> QED
    BY <1>1, <1>6, <1>7, <1>8, <1>9 DEF Way, x

-----------------------------------------------------------------------------
(***************************************************************************)
(* What each step makes of a lookup on its way                             *)
(***************************************************************************)

\* The start.
LEMMA StartWay ==
    ASSUME TypeInv, OrderInv, NEW l \in Lookups, Start(l)
    PROVE  Way(l, lookup'[l])
  <1> DEFINE k == lookup[l]
             x == [k EXCEPT !.pc = "source", !.could = CouldMeet(l, disk)]
  <1>1. k \in LookupRec /\ k.pc = "idle" /\ lookup'[l] = x /\ Way(l, k)
    BY DEF TypeInv, Start, OrderInv
  <1>2. x.pc = "source" /\ x.src = k.src /\ x.todo = k.todo
    BY <1>1 DEF LookupRec
  <1> HIDE DEF x
  <1>3. x.src = 1 /\ x.todo = <<>>
    BY <1>1, <1>2 DEF Way, Asking
  <1>4. Passed(l, 1)
    BY OrderLength DEF Passed
  <1> QED
    BY <1>1, <1>2, <1>3, <1>4 DEF Way

\* With all sources passed, nothing is the answer.
LEMMA FindsNothingWay ==
    ASSUME TypeInv, OrderInv, NEW l \in Lookups, FindsNothing(l)
    PROVE  Way(l, lookup'[l])
  <1> DEFINE k == lookup[l]
             x == Ended(k, Nowhere)
  <1>1. k \in LookupRec /\ k.pc = "source" /\ lookup'[l] = x /\ Way(l, k) /\ k.src = 9
    BY OrderLength DEF TypeInv, FindsNothing, OrderInv, LookupRec
  <1>2. x.pc = "done" /\ x.todo = <<>> /\ x.result = Nowhere /\ x.clean = k.clean
    BY DEF Ended, Idle
  <1> HIDE DEF x
  <1>3. k.clean => Options(l) = {}
    BY <1>1, PassedAll DEF Way
  <1> QED
    BY <1>1, <1>2, <1>3 DEF Way, First

\* A source that is not consulted, or offers nothing.
LEMMA SkipSourceWay ==
    ASSUME TypeInv, OrderInv, NEW l \in Lookups, SkipSource(l)
    PROVE  Way(l, lookup'[l])
  <1> DEFINE k == lookup[l]
             s == Order[k.src]
             n == k.src + 1
             x == [k EXCEPT !.src = n, !.found = <<>>]
  <1>1. k \in LookupRec /\ k.pc = "source" /\ lookup'[l] = x /\ Way(l, k) /\ k.src \in 1 .. 8
        /\ Source(l) = s
    BY OrderLength DEF TypeInv, SkipSource, AtSource, OrderInv, LookupRec, Source
  <1>2. x.pc = "source" /\ x.src = n /\ x.todo = k.todo /\ x.found = <<>> /\ x.clean = k.clean
    BY <1>1 DEF LookupRec
  <1>3. x.todo = <<>>
    BY <1>1, <1>2 DEF Way, Asking
  <1> HIDE DEF x
  <1>4. CASE ~ k.clean
    BY <1>1, <1>2, <1>3, <1>4 DEF Way
  <1>5. CASE k.clean
    <2>1. Passed(l, k.src) /\ (k.src = 5 => KeptAt(l, k.found, <<>>, "realPATH"))
      BY <1>1, <1>5 DEF Way
    <2>2. CASE Skipped(l)
      <3>1. s = "managed" /\ ~ Consulted(l, "managed")
        BY <1>1, <2>2 DEF Skipped, Consulted
      <3>2. Fitting(l, s) = {}
        BY <3>1 DEF Fitting
      <3>3. Passed(l, n) /\ n # 5
        BY <1>1, <2>1, <3>1, <3>2, PassOn, OrderIs
      <3> QED
        BY <1>1, <1>2, <1>3, <3>3 DEF Way
    <2>3. CASE s \in Resolved \ {"realPATH"} /\ NamesOf(l) = <<>>
      <3>1. s \in NamedSources \/ s = "rawPATH"
        BY <2>3 DEF Resolved, NamedSources
      <3>2. Candidates[IF s = "rawPATH" THEN "PATH" ELSE s] = <<>>
        BY <1>1, <2>3, <3>1 DEF NamesOf, Resolved
      <3>3. DOMAIN <<>> = {}
        OBVIOUS
      <3>4. DOMAIN OffersAt(s) = {}
        BY <2>3, <3>2, <3>3 DEF OffersAt, Offers, Resolved
      <3>5. Fitting(l, s) = {}
        BY <3>4 DEF Fitting
      <3>6. Passed(l, n)
        BY <1>1, <2>1, <3>5, PassOn
      <3>7. n = 5 => KeptAt(l, <<>>, <<>>, "realPATH")
        <4> SUFFICES ASSUME n = 5 PROVE KeptAt(l, <<>>, <<>>, "realPATH")
          OBVIOUS
        <4>1. s = "rawPATH"
          BY <1>1, OrderIs
        <4>2. DOMAIN OffersAt("realPATH") = {} /\ Fitting(l, "realPATH") = {}
          BY <3>4, <4>1 DEF OffersAt, Fitting
        <4> DEFINE offers == OffersAt("realPATH")
                   ordered == "realPATH" # "managed"
                   fit == Fitting(l, "realPATH")
        <4>3. ordered \in BOOLEAN /\ fit \in SUBSET DOMAIN offers /\ DOMAIN offers = {}
          BY <4>2
        <4> HIDE DEF offers, ordered, fit
        <4>4. Kept(<<>>, <<>>, offers, ordered, fit)
          BY <3>3, <4>3, KeptAllTodo
        <4> QED
          BY <4>4 DEF KeptAt, offers, ordered, fit
      <3> QED
        BY <1>1, <1>2, <1>3, <3>6, <3>7 DEF Way
    <2>4. CASE s = "realPATH" /\ NamesOf(l) = <<>>
      <3>1. k.src = 5 /\ k.found = <<>>
        BY <1>1, <2>4, OrderIs DEF NamesOf
      <3>2. Fitting(l, s) = {}
        <4> DEFINE offers == OffersAt("realPATH")
                   ordered == "realPATH" # "managed"
                   fit == Fitting(l, "realPATH")
        <4>1. Kept(<<>>, <<>>, offers, ordered, fit) /\ ordered \in BOOLEAN
          BY <2>1, <3>1 DEF KeptAt
        <4> HIDE DEF offers, ordered, fit
        <4>2. fit = {}
          BY <4>1, KeptNothing
        <4> QED
          BY <2>4, <4>2 DEF fit
      <3>3. Passed(l, n) /\ n # 5
        BY <1>1, <2>1, <3>1, <3>2, PassOn
      <3> QED
        BY <1>1, <1>2, <1>3, <3>3 DEF Way
    <2> QED
      BY <1>1, <2>2, <2>3, <2>4 DEF SkipSource
  <1> QED
    BY <1>4, <1>5

\* The extension's own installs that fit are on record with a version that meets the request.
LEMMA ManagedAll ==
    ASSUME TypeInv, DiskInv, AsDocumented, RecordsTrue, NEW l \in Lookups, ~ Sdk(l)
    PROVE  KeptAt(l, ManagedPaths(l), <<>>, "managed")
  <1> DEFINE S == {r \in records : VersionMeets(Recorded[r], Request[l])}
             names == ManagedPaths(l)
             offers == SetToSeq(records)
             fit == Fitting(l, "managed")
  <1>1. records \in SUBSET Managed /\ S \in SUBSET Managed /\ IsFiniteSet(records) /\ IsFiniteSet(S)
        /\ Managed \subseteq Names /\ Managed \subseteq Roots /\ S \subseteq records
    BY LookupAssumption, CacheAssumption, FS_Subset DEF TypeInv
  <1>2. /\ \A m \in DOMAIN names : names[m] \in S
        /\ \A x \in S : \E m \in DOMAIN names : names[m] = x
    BY <1>1, SequenceOfAll DEF ManagedPaths
  <1>3. /\ \A m \in DOMAIN offers : offers[m] \in records
        /\ \A x \in records : \E m \in DOMAIN offers : offers[m] = x
    BY <1>1, SequenceOfAll
  <1>4. OffersAt("managed") = offers
    BY DEF OffersAt, Offers
  <1>5. ASSUME NEW d \in fit PROVE offers[d] \in S
    <2> DEFINE r == offers[d]
               w == Wanted(l, "managed")
    <2>1. d \in DOMAIN offers /\ Acceptable(l, "managed", r)
      BY <1>4 DEF Fitting
    <2>2. r \in records /\ r \in Managed /\ At[r] = r
      BY <1>1, <1>3, <2>1, CacheAssumption
    <2> HIDE DEF r
    <2>3. PICK i \in disk[r] : Documented(i, w)
      BY <2>1, <2>2 DEF Acceptable
    <2>4. w = Request[l]
      BY DEF Wanted
    <2>5. i \in Installs /\ i \in Initially[r]
      BY <1>1, <2>2, <2>3 DEF TypeInv, DiskInv
    <2>6. InstallMeets(i, w)
      BY <2>3, <2>5, AcceptedAsDocumented
    <2>7. i.mode # "sdk"
      BY <2>4, <2>6 DEF InstallMeets, Sdk
    <2>8. i.version = Recorded[r]
      BY <2>2, <2>5, <2>7 DEF RecordsTrue
    <2>9. VersionMeets(Recorded[r], Request[l])
      BY <2>4, <2>6, <2>8 DEF InstallMeets
    <2> QED
      BY <2>2, <2>9 DEF r
  <1> HIDE DEF names, offers
  <1>6. \A m \in DOMAIN names : \E n \in DOMAIN offers : names[m] = offers[n]
    BY <1>1, <1>2, <1>3
  <1>7. \A d \in fit : \E m \in DOMAIN names : names[m] = offers[d]
    BY <1>2, <1>5
  <1> HIDE DEF fit
  <1>8. Kept(names, <<>>, offers, FALSE, fit)
    BY <1>6, <1>7, KeptAnyhow
  <1>9. FALSE = ("managed" # "managed")
    OBVIOUS
  <1> QED
    BY <1>4, <1>8, <1>9 DEF KeptAt, names, fit

\* The candidates of a source that is not resolved.
LEMMA TakeWay ==
    ASSUME TypeInv, DiskInv, AsDocumented, RecordsTrue, OrderInv, NEW l \in Lookups, Take(l)
    PROVE  Way(l, lookup'[l])
  <1> DEFINE k == lookup[l]
             s == Order[k.src]
             names == NamesOf(l)
             x == [k EXCEPT !.found = names]
  <1>1. k \in LookupRec /\ k.pc = "source" /\ lookup'[l] = Onward(x) /\ Way(l, k) /\ k.src \in 1 .. 8
        /\ Source(l) = s /\ ~ Skipped(l) /\ s \notin Resolved
    BY OrderLength DEF TypeInv, Take, AtSource, OrderInv, LookupRec, Source
  <1>2. names \in Seq(Names)
    BY <1>1, OrderLength, SourceNames
  <1>3. s \in {"root", "managed"}
    BY <1>1, OrderIs DEF Resolved
  <1>4. KeptAt(l, names, <<>>, s)
    <2>1. CASE s = "managed"
      <3>1. names = ManagedPaths(l) /\ ~ Sdk(l)
        BY <1>1, <2>1 DEF NamesOf, Skipped
      <3> QED
        BY <2>1, <3>1, ManagedAll
    <2>2. CASE s = "root"
      <3> DEFINE offers == OffersAt(s)
                 ordered == s # "managed"
                 fit == Fitting(l, s)
      <3>1. names = offers
        BY <1>1, <2>2 DEF NamesOf, OffersAt, Offers
      <3>2. ordered \in BOOLEAN /\ fit \in SUBSET DOMAIN offers /\ DOMAIN offers \subseteq Nat
        BY <1>1, OffersAre
      <3> HIDE DEF names, offers, ordered, fit
      <3>3. Kept(names, <<>>, offers, ordered, fit)
        BY <3>1, <3>2, KeptAllFound
      <3> QED
        BY <3>3 DEF KeptAt, offers, ordered, fit
    <2> QED
      BY <1>3, <2>1, <2>2
  <1>5. s = "managed" => Consulted(l, "managed")
    BY <1>1 DEF Skipped, Consulted
  <1> HIDE DEF names
  <1>6. x \in LookupRec /\ x.src = k.src /\ x.todo = k.todo /\ x.found = names /\ x.clean = k.clean
    BY <1>1, <1>2 DEF LookupRec
  <1> HIDE DEF x
  <1>7. x.todo = <<>>
    BY <1>1, <1>6 DEF Way, Asking
  <1>8. x.clean => Passed(l, k.src)
    BY <1>1, <1>6 DEF Way
  <1>9. s # "rawPATH"
    BY <1>3
  <1> QED
    BY <1>1, <1>4, <1>5, <1>6, <1>7, <1>8, <1>9, OnwardWay

\* The candidates of a source that is resolved, or of PATH once more.
LEMMA NamesKept ==
    ASSUME TypeInv, NEW l \in Lookups, lookup[l].src \in 1 .. 8, Source(l) \in Resolved,
           Source(l) = "realPATH" => KeptAt(l, lookup[l].found, <<>>, "realPATH")
    PROVE  KeptAt(l, <<>>, NamesOf(l), Source(l))
  <1> DEFINE k == lookup[l]
             s == Order[k.src]
             names == NamesOf(l)
             offers == OffersAt(s)
             ordered == s # "managed"
             fit == Fitting(l, s)
  <1>1. Source(l) = s
    BY DEF Source
  <1>2. ordered \in BOOLEAN /\ fit \in SUBSET DOMAIN offers /\ DOMAIN offers \subseteq Nat
    BY OffersAre
  <1>3. CASE s = "realPATH"
    <2>1. names = k.found /\ Kept(names, <<>>, offers, ordered, fit)
      BY <1>1, <1>3 DEF NamesOf, KeptAt
    <2> HIDE DEF names, offers, ordered, fit
    <2>2. Kept(<<>>, names, offers, ordered, fit)
      BY <1>2, <2>1, KeptToResolve
    <2> QED
      BY <1>1, <2>2 DEF KeptAt, names, offers, ordered, fit
  <1>4. CASE s # "realPATH"
    <2>1. s \in NamedSources \/ s = "rawPATH"
      BY <1>1, <1>4 DEF Resolved, NamedSources
    <2> DEFINE c == Candidates[IF s = "rawPATH" THEN "PATH" ELSE s]
    <2>2. c \in Seq(Names)
      BY <2>1, LookupAssumption DEF NamedSources
    <2>3. names = c
      BY <1>1, <1>4, <2>1 DEF NamesOf, Resolved
    <2>4. offers = [n \in DOMAIN c |-> At[c[n]]]
      BY <1>1, <1>4 DEF OffersAt, Offers, Resolved
    <2>5. \A n \in DOMAIN c : c[n] \in Names
      BY <2>2
    <2> HIDE DEF c, names, offers, ordered, fit
    <2>6. DOMAIN names = DOMAIN offers /\ \A n \in DOMAIN offers : At[names[n]] = At[offers[n]]
      BY <2>3, <2>4, <2>5, CacheAssumption
    <2>7. Kept(<<>>, names, offers, ordered, fit)
      BY <1>2, <2>6, KeptAllTodo
    <2> QED
      BY <1>1, <2>7 DEF KeptAt, names, offers, ordered, fit
  <1> QED
    BY <1>3, <1>4

\* resolveTruePaths begins.
LEMMA ResolveWay ==
    ASSUME TypeInv, OrderInv, NEW l \in Lookups, Resolve(l)
    PROVE  Way(l, lookup'[l])
  <1> DEFINE k == lookup[l]
             s == Order[k.src]
             names == NamesOf(l)
             x == [k EXCEPT !.outer = env, !.todo = names, !.found = <<>>]
  <1>1. k \in LookupRec /\ k.pc = "source" /\ Way(l, k) /\ k.src \in 1 .. 8 /\ Source(l) = s
        /\ lookup'[l] = Execute(x, "resolve", "runtimes", names[1], "0", alias)
        /\ s \in Resolved /\ names # <<>> /\ env \in EnvValues /\ alias \in [Names -> Names]
    BY OrderLength DEF TypeInv, Resolve, AtSource, OrderInv, LookupRec, Source
  <1>2. names \in Seq(Names) /\ <<>> \in Seq(Names)
    BY <1>1, OrderLength, SourceNames
  <1>3. names[1] \in Names
    BY <1>1, <1>2
  <1>4. k.clean => Passed(l, k.src) /\ KeptAt(l, <<>>, names, s)
    <2> SUFFICES ASSUME k.clean PROVE Passed(l, k.src) /\ KeptAt(l, <<>>, names, s)
      OBVIOUS
    <2>1. Passed(l, k.src) /\ (k.src = 5 => KeptAt(l, k.found, <<>>, "realPATH"))
      BY <1>1 DEF Way
    <2>2. s = "realPATH" => k.src = 5
      BY <1>1, OrderIs
    <2> QED
      BY <1>1, <2>1, <2>2, NamesKept
  <1>5. s # "managed" /\ s \in Resolved
    BY <1>1 DEF Resolved
  <1> HIDE DEF names
  <1>6. x \in LookupRec /\ x.src = k.src /\ x.todo = names /\ x.found = <<>> /\ x.clean = k.clean
    BY <1>1, <1>2 DEF LookupRec
  <1> HIDE DEF x
  <1> DEFINE task == "resolve"
             kind == "runtimes"
             e == "0"
  <1>7. task \in Tasks /\ kind \in ListingKinds /\ e \in EnvValues
        /\ kind = (IF task = "list" THEN ListingOf(l) ELSE "runtimes") /\ task = "resolve"
    BY DEF Tasks, ListingKinds, EnvValues
  <1>8. lookup'[l] = Execute(x, task, kind, names[1], e, alias)
    BY <1>1
  <1> HIDE DEF task, kind, e
  <1>9. x.clean => /\ Passed(l, x.src) /\ KeptAt(l, x.found, x.todo, Order[x.src])
                   /\ task = "resolve" => Order[x.src] \in Resolved
                   /\ Order[x.src] = "rawPATH" => task = "resolve"
                   /\ Order[x.src] = "managed" => Consulted(l, "managed")
                   /\ task = "arch" => x.listing = Listed(ListingOf(l), names[1], "0")
    BY <1>4, <1>5, <1>6, <1>7
  <1>10. Way(l, Execute(x, task, kind, names[1], e, alias))
    BY <1>1, <1>3, <1>5, <1>6, <1>7, <1>9, ExecuteWay
  <1> QED
    BY <1>8, <1>10

\* A process reads the disk, or its output is stored.
LEMMA RunWay ==
    ASSUME TypeInv, ~ MultiLevel, OrderInv, NEW l \in Lookups, Run(l) \/ Finish(l)
    PROVE  Way(l, lookup'[l])
  <1> DEFINE k == lookup[l]
  <1>1. k \in LookupRec /\ Way(l, k)
    BY DEF TypeInv, OrderInv
  <1> DEFINE Replied(p, out) ==
                /\ lookup'[l] = [k EXCEPT !.pc = p, !.out = out]
                /\ k.pc \in {"running", "ran"} /\ p \in {"ran", "answered"}
                /\ k.clean /\ p = "ran" => out.items = Listed(k.key.kind, k.name, k.key.env)
                /\ p = "answered" => k.pc = "ran" /\ out = k.out
  <1>0. \E p, out : Replied(p, out)
    <2>1. CASE Run(l)
      <3>1. PICK out \in OutputsOf(k.key.kind, k.name, k.key.env) :
                  lookup' = [lookup EXCEPT ![l].pc = "ran", ![l].out = out]
        BY <2>1 DEF Run
      <3>2. out.items = Listed(k.key.kind, k.name, k.key.env)
        BY <1>1, OutputAbout DEF TypeInv, LookupRec
      <3>3. lookup'[l] = [k EXCEPT !.pc = "ran", !.out = out] /\ k.pc = "running"
        BY <2>1, <3>1 DEF Run, TypeInv
      <3>4. Replied("ran", out)
        BY <3>2, <3>3
      <3> QED
        BY <3>4
    <2>2. CASE Finish(l)
      <3>1. lookup'[l] = [k EXCEPT !.pc = "answered"] /\ k.pc = "ran"
        BY <2>2 DEF Finish, TypeInv
      <3>2. [k EXCEPT !.pc = "answered"] = [k EXCEPT !.pc = "answered", !.out = k.out]
        BY <1>1 DEF LookupRec
      <3>3. Replied("answered", k.out)
        BY <3>1, <3>2
      <3> QED
        BY <3>3
    <2> QED
      BY <2>1, <2>2
  <1>2. PICK p, out : Replied(p, out)
    BY <1>0
  <1> DEFINE x == [k EXCEPT !.pc = p, !.out = out]
  <1>3. /\ x.pc = p /\ x.out = out /\ x.src = k.src /\ x.task = k.task /\ x.todo = k.todo
        /\ x.found = k.found /\ x.key = k.key /\ x.name = k.name /\ x.listing = k.listing
        /\ x.clean = k.clean
    BY <1>1 DEF LookupRec
  <1>4. lookup'[l] = x
    BY <1>2
  <1> HIDE DEF x
  <1>5. CASE k.clean
    <2>1. Passed(l, k.src) /\ AtWork(l, k) /\ Told(l, k)
      BY <1>1, <1>2, <1>5 DEF Way
    <2>2. AtWork(l, x)
      BY <1>2, <1>3, <2>1 DEF AtWork, Asking
    <2>3. Told(l, x)
      BY <1>2, <1>3, <1>5, <2>1 DEF Told, Asking
    <2>4. ~ (x.pc \in Asking /\ x.task = "resolve") => x.todo = <<>>
      BY <1>1, <1>2, <1>3 DEF Way, Asking
    <2> QED
      BY <1>2, <1>3, <1>4, <2>1, <2>2, <2>3, <2>4 DEF Way
  <1>6. CASE ~ k.clean
    <2>1. ~ (x.pc \in Asking /\ x.task = "resolve") => x.todo = <<>>
      BY <1>1, <1>2, <1>3 DEF Way, Asking
    <2> QED
      BY <1>2, <1>3, <1>4, <1>6, <2>1 DEF Way
  <1> QED
    BY <1>5, <1>6

\* What keeps of a lookup when only the last command is forgotten.
LEMMA SettledKeeps ==
    ASSUME NEW k \in LookupRec
    PROVE  /\ Settled(k) \in LookupRec /\ Settled(k).src = k.src /\ Settled(k).todo = k.todo
           /\ Settled(k).found = k.found /\ Settled(k).clean = k.clean
  <1>1. NoOutput \in Outputs
    BY DEF NoOutput, Outputs
  <1>2. Idle.key \in Keys /\ Idle.name \in Names
    BY IdleTypes DEF LookupRec
  <1> HIDE DEF Idle
  <1> QED
    BY <1>1, <1>2 DEF Settled, LookupRec

\* A host that answers is found, and one that does not has nothing that fits.
LEMMA FoundKept ==
    ASSUME TypeInv, DiskInv, AboutInv, NEW l \in Lookups, Answered(l, "resolve"),
           AtWork(l, lookup[l]), Told(l, lookup[l])
    PROVE  KeptAt(l, FoundSoFar(l), Tail(lookup[l].todo), Source(l))
  <1> DEFINE k == lookup[l]
             s == Order[k.src]
             found == k.found
             todo == k.todo
             offers == OffersAt(s)
             ordered == s # "managed"
             fit == Fitting(l, s)
  <1>1. /\ k \in LookupRec /\ k.pc = "answered" /\ k.task = "resolve" /\ k.src \in 1 .. 8
        /\ todo # <<>> /\ todo \in Seq(Names) /\ found \in Seq(Names) /\ k.name = todo[1]
        /\ k.name \in Names /\ k.key.env \in EnvValues
    BY OrderLength DEF TypeInv, Shape, Asking, Answered, LookupRec, AtWork, Keys
  <1>2. /\ s \in Resolved /\ Source(l) = s
        /\ k.out.items = Listed("runtimes", k.name, k.key.env)
    BY <1>1 DEF AtWork, Told, Asking, Source
  <1>3. /\ ordered \in BOOLEAN /\ fit \in SUBSET DOMAIN offers /\ DOMAIN offers \subseteq Nat
        /\ \A n \in DOMAIN offers : At[offers[n]] = offers[n]
    BY <1>1, <1>2, OffersAre
  <1>4. Kept(found, todo, offers, ordered, fit)
    BY DEF AtWork, KeptAt
  <1>5. About(k.out, k.name)
    BY <1>1 DEF AboutInv, LookupAbout
  <1>6. CASE k.out.items = {}
    <2>1. ASSUME NEW d \in fit PROVE At[todo[1]] # At[offers[d]]
      <3> SUFFICES ASSUME At[todo[1]] = At[offers[d]] PROVE FALSE
        OBVIOUS
      <3>1. Acceptable(l, s, offers[d])
        BY DEF Fitting
      <3>2. Acceptable(l, s, k.name)
        BY <1>1, <3>1 DEF Acceptable
      <3> DEFINE kind == "runtimes"
      <3>3. kind \in {"runtimes", ListingOf(l)} /\ Listed(kind, k.name, k.key.env) = {}
        BY <1>2, <1>6
      <3> HIDE DEF kind
      <3> QED
        BY <1>1, <3>2, <3>3, NothingFits
    <2>2. FoundSoFar(l) = found
      BY <1>6 DEF FoundSoFar
    <2> HIDE DEF found, todo, offers, ordered, fit
    <2>3. Kept(found, Tail(todo), offers, ordered, fit)
      BY <1>1, <1>3, <1>4, <2>1, KeptWithoutTodo
    <2> QED
      BY <1>2, <2>2, <2>3 DEF KeptAt, found, todo, offers, ordered, fit
  <1>7. CASE k.out.items # {}
    <2>1. k.out.first = At[todo[1]]
      <3>1. k.out.first \in Roots
        BY <1>1, <1>7 DEF LookupRec, Outputs
      <3> QED
        BY <1>1, <1>5, <3>1, CacheAssumption DEF About
    <2>2. FoundSoFar(l) = Append(found, At[todo[1]])
      BY <1>7, <2>1 DEF FoundSoFar
    <2> HIDE DEF found, todo, offers, ordered, fit
    <2>3. Kept(Append(found, At[todo[1]]), Tail(todo), offers, ordered, fit)
      BY <1>1, <1>3, <1>4, KeptResolved
    <2> QED
      BY <1>2, <2>2, <2>3 DEF KeptAt, found, todo, offers, ordered, fit
  <1> QED
    BY <1>6, <1>7

\* resolveTruePaths goes on.
LEMMA ResolveNextWay ==
    ASSUME TypeInv, DiskInv, AboutInv, OrderInv, NEW l \in Lookups, ResolveNext(l)
    PROVE  Way(l, lookup'[l])
  <1> DEFINE k == lookup[l]
             s == Order[k.src]
             found == FoundSoFar(l)
             todo == Tail(k.todo)
             aliases == Aliased(k.out.first, k.todo[1])
             name == k.todo[2]
             x == [k EXCEPT !.todo = todo, !.found = found]
  <1>1. /\ k \in LookupRec /\ Answered(l, "resolve") /\ k.pc = "answered" /\ k.task = "resolve"
        /\ k.src \in 1 .. 8 /\ Way(l, k) /\ env \in EnvValues /\ Len(k.todo) > 1
        /\ k.todo # <<>> /\ k.todo \in Seq(Names) /\ k.out.first \in Roots \cup {Nowhere}
        /\ lookup'[l] = Execute(x, "resolve", "runtimes", name, env, aliases)
    BY OrderLength DEF TypeInv, ResolveNext, Answered, OrderInv, Shape, Asking, LookupRec, Outputs
  <1>2. found \in Seq(Names)
    BY <1>1, FoundTypes
  <1>3. todo \in Seq(Names) /\ name \in Names /\ k.todo[1] \in Names
    BY <1>1
  <1>4. aliases \in [Names -> Names]
    BY <1>1, <1>3, AliasTypes
  <1>5. k.clean => /\ Passed(l, k.src) /\ KeptAt(l, found, todo, s) /\ s \in Resolved
                   /\ s = "managed" => Consulted(l, "managed")
    <2> SUFFICES ASSUME k.clean
                 PROVE  /\ Passed(l, k.src) /\ KeptAt(l, found, todo, s) /\ s \in Resolved
                        /\ s = "managed" => Consulted(l, "managed")
      OBVIOUS
    <2>1. Passed(l, k.src) /\ AtWork(l, k) /\ Told(l, k)
      BY <1>1 DEF Way
    <2>2. KeptAt(l, found, todo, s)
      BY <1>1, <2>1, FoundKept DEF Source
    <2> QED
      BY <1>1, <2>1, <2>2 DEF AtWork, Asking
  <1> HIDE DEF found, todo, aliases, name
  <1>6. x \in LookupRec /\ x.src = k.src /\ x.todo = todo /\ x.found = found /\ x.clean = k.clean
    BY <1>1, <1>2, <1>3 DEF LookupRec
  <1> HIDE DEF x
  <1> DEFINE task == "resolve"
             kind == "runtimes"
  <1>7. task \in Tasks /\ kind \in ListingKinds /\ task = "resolve"
        /\ kind = (IF task = "list" THEN ListingOf(l) ELSE "runtimes")
    BY DEF Tasks, ListingKinds
  <1>8. lookup'[l] = Execute(x, task, kind, name, env, aliases)
    BY <1>1
  <1> HIDE DEF task, kind
  <1>9. x.clean => /\ Passed(l, x.src) /\ KeptAt(l, x.found, x.todo, Order[x.src])
                   /\ task = "resolve" => Order[x.src] \in Resolved
                   /\ Order[x.src] = "rawPATH" => task = "resolve"
                   /\ Order[x.src] = "managed" => Consulted(l, "managed")
                   /\ task = "arch" => x.listing = Listed(ListingOf(l), name, "0")
    BY <1>5, <1>6, <1>7
  <1>10. Way(l, Execute(x, task, kind, name, env, aliases))
    BY <1>1, <1>3, <1>4, <1>6, <1>7, <1>9, ExecuteWay
  <1> QED
    BY <1>8, <1>10

\* It ends: the true paths are judged, or looked for once more.
LEMMA ResolveEndsWay ==
    ASSUME TypeInv, DiskInv, AboutInv, OrderInv, NEW l \in Lookups, ResolveEnds(l)
    PROVE  Way(l, lookup'[l])
  <1> DEFINE k == lookup[l]
             s == Order[k.src]
             found == FoundSoFar(l)
             x == [Settled(k) EXCEPT !.todo = <<>>, !.found = found, !.outer = Nowhere]
             n == x.src + 1
             y == [x EXCEPT !.pc = "source", !.src = n]
  <1>1. /\ k \in LookupRec /\ Answered(l, "resolve") /\ k.pc = "answered" /\ k.task = "resolve"
        /\ k.src \in 1 .. 8 /\ Way(l, k) /\ Len(k.todo) = 1 /\ Source(l) = s
        /\ k.todo # <<>> /\ k.todo \in Seq(Names)
        /\ lookup'[l] = IF Source(l) = "rawPATH" THEN y ELSE Onward(x)
    BY OrderLength DEF TypeInv, ResolveEnds, Answered, OrderInv, Shape, Asking, LookupRec, Source
  <1>2. found \in Seq(Names) /\ <<>> \in Seq(Names)
    BY <1>1, FoundTypes
  <1>3. Tail(k.todo) = <<>>
    <2> DEFINE c == k.todo
    <2>1. c \in Seq(Names) /\ c # <<>> /\ Len(c) = 1
      BY <1>1
    <2> HIDE DEF c
    <2>2. Tail(c) \in Seq(Names) /\ Len(Tail(c)) = 0
      BY <2>1
    <2> DEFINE d == Tail(c)
    <2>3. d \in Seq(Names) /\ Len(d) = 0
      BY <2>2
    <2> HIDE DEF d
    <2>4. d = <<>>
      BY <2>3
    <2> QED
      BY <2>4 DEF c, d
  <1>4. k.clean => /\ Passed(l, k.src) /\ KeptAt(l, found, <<>>, s)
                   /\ s = "managed" => Consulted(l, "managed")
    <2> SUFFICES ASSUME k.clean
                 PROVE  /\ Passed(l, k.src) /\ KeptAt(l, found, <<>>, s)
                        /\ s = "managed" => Consulted(l, "managed")
      OBVIOUS
    <2>1. Passed(l, k.src) /\ AtWork(l, k) /\ Told(l, k)
      BY <1>1 DEF Way
    <2>2. KeptAt(l, found, Tail(k.todo), s)
      BY <1>1, <2>1, FoundKept
    <2> QED
      BY <1>3, <2>1, <2>2 DEF AtWork
  <1>5. Settled(k) \in LookupRec /\ Settled(k).src = k.src /\ Settled(k).clean = k.clean
    BY <1>1, SettledKeeps
  <1> HIDE DEF found
  <1>6. x \in LookupRec /\ x.src = k.src /\ x.todo = <<>> /\ x.found = found /\ x.clean = k.clean
    BY <1>2, <1>5 DEF LookupRec
  <1>7. y.pc = "source" /\ y.src = k.src + 1 /\ y.todo = <<>> /\ y.found = found /\ y.clean = k.clean
    BY <1>6 DEF LookupRec
  <1> HIDE DEF x, y
  <1>8. CASE s = "rawPATH"
    <2>1. k.src = 4
      BY <1>1, <1>8, OrderIs
    <2>2. k.clean => Passed(l, k.src + 1)
      BY <1>1, <1>4, <1>8, PassOn
    <2>3. k.clean => KeptAt(l, found, <<>>, "realPATH")
      <3>1. OffersAt("rawPATH") = OffersAt("realPATH")
        BY DEF OffersAt
      <3>2. Fitting(l, "rawPATH") = Fitting(l, "realPATH")
        <4>1. Consulted(l, "rawPATH") /\ Consulted(l, "realPATH")
          BY DEF Consulted
        <4>2. Wanted(l, "rawPATH") = Wanted(l, "realPATH")
          BY DEF Wanted
        <4> QED
          BY <3>1, <4>1, <4>2 DEF Fitting, Acceptable
      <3>3. ("rawPATH" # "managed") = ("realPATH" # "managed")
        OBVIOUS
      <3> QED
        BY <1>4, <1>8, <3>1, <3>2, <3>3 DEF KeptAt
    <2> QED
      BY <1>1, <1>7, <1>8, <2>2, <2>3 DEF Way
  <1>9. CASE s # "rawPATH"
    <2>1. Way(l, Onward(x))
      BY <1>1, <1>4, <1>6, <1>9, OnwardWay
    <2> QED
      BY <1>1, <1>9, <2>1
  <1> QED
    BY <1>8, <1>9

\* getDotnetInstalls lists a candidate's installs.
LEMMA JudgeWay ==
    ASSUME TypeInv, OrderInv, NEW l \in Lookups, Judge(l)
    PROVE  Way(l, lookup'[l])
  <1> DEFINE k == lookup[l]
             s == Order[k.src]
             name == k.found[1]
             kind == ListingOf(l)
             task == "list"
             e == "0"
             x == [k EXCEPT !.outer = env]
  <1>1. /\ k \in LookupRec /\ k.pc = "pick" /\ k.src \in 1 .. 8 /\ Way(l, k) /\ env \in EnvValues
        /\ alias \in [Names -> Names] /\ k.found # <<>> /\ k.found \in Seq(Names)
        /\ lookup'[l] = Execute(x, task, kind, name, e, alias)
    BY OrderLength DEF TypeInv, Judge, OrderInv, Shape, LookupRec
  <1>2. name \in Names
    BY <1>1
  <1>3. k.todo = <<>>
    BY <1>1 DEF Way, Asking
  <1>4. k.clean => /\ Passed(l, k.src) /\ KeptAt(l, k.found, k.todo, s) /\ s # "rawPATH"
                   /\ s = "managed" => Consulted(l, "managed")
    BY <1>1 DEF Way, AtWork, Asking
  <1>5. /\ x \in LookupRec /\ x.src = k.src /\ x.todo = k.todo /\ x.found = k.found
        /\ x.clean = k.clean
    BY <1>1 DEF LookupRec
  <1>6. task \in Tasks /\ kind \in ListingKinds /\ e \in EnvValues /\ task = "list"
        /\ kind = (IF task = "list" THEN ListingOf(l) ELSE "runtimes")
    BY DEF Tasks, ListingKinds, EnvValues, ListingOf
  <1> HIDE DEF x, task, kind, name, e
  <1>7. x.clean => /\ Passed(l, x.src) /\ KeptAt(l, x.found, x.todo, Order[x.src])
                   /\ task = "resolve" => Order[x.src] \in Resolved
                   /\ Order[x.src] = "rawPATH" => task = "resolve"
                   /\ Order[x.src] = "managed" => Consulted(l, "managed")
                   /\ task = "arch" => x.listing = Listed(ListingOf(l), name, "0")
    BY <1>4, <1>5, <1>6
  <1>8. Way(l, Execute(x, task, kind, name, e, alias))
    BY <1>1, <1>2, <1>3, <1>5, <1>6, <1>7, ExecuteWay
  <1> QED
    BY <1>1, <1>8

\* The candidate's architecture is asked for.
LEMMA AskArchitectureWay ==
    ASSUME TypeInv, ~ MultiLevel, OrderInv, NEW l \in Lookups, AskArchitecture(l)
    PROVE  Way(l, lookup'[l])
  <1> DEFINE k == lookup[l]
             s == Order[k.src]
             name == k.found[1]
             kind == "runtimes"
             task == "arch"
             e == "0"
             items == k.out.items
             x == [k EXCEPT !.inner = env, !.listing = items]
  <1>1. /\ k \in LookupRec /\ k.pc = "answered" /\ k.task = "list" /\ k.src \in 1 .. 8 /\ Way(l, k)
        /\ env \in EnvValues /\ alias \in [Names -> Names] /\ k.found # <<>> /\ k.found \in Seq(Names)
        /\ k.name = name /\ items \in SUBSET (Roots \X Installs)
        /\ lookup'[l] = Execute(x, task, kind, name, e, alias)
    BY OrderLength DEF TypeInv, AskArchitecture, Answered, OrderInv, Shape, Asking, LookupRec, Outputs
  <1>2. name \in Names
    BY <1>1
  <1>3. k.todo = <<>>
    BY <1>1 DEF Way, Asking
  <1>4. k.clean => /\ Passed(l, k.src) /\ KeptAt(l, k.found, k.todo, s) /\ s # "rawPATH"
                   /\ s = "managed" => Consulted(l, "managed")
    BY <1>1 DEF Way, AtWork, Asking
  <1>5. k.clean => items = Listed(ListingOf(l), name, "0")
    <2>1. k.clean => items = Listed(ListingOf(l), name, k.key.env)
      BY <1>1 DEF Way, Told, Asking
    <2> QED
      BY <2>1 DEF Listed
  <1>6. task \in Tasks /\ kind \in ListingKinds /\ e \in EnvValues /\ task = "arch"
        /\ kind = (IF task = "list" THEN ListingOf(l) ELSE "runtimes")
    BY DEF Tasks, ListingKinds, EnvValues
  <1> HIDE DEF task, kind, name, e, items
  <1>7. /\ x \in LookupRec /\ x.src = k.src /\ x.todo = k.todo /\ x.found = k.found
        /\ x.clean = k.clean /\ x.listing = items
    BY <1>1 DEF LookupRec
  <1> HIDE DEF x
  <1>8. x.clean => /\ Passed(l, x.src) /\ KeptAt(l, x.found, x.todo, Order[x.src])
                   /\ task = "resolve" => Order[x.src] \in Resolved
                   /\ Order[x.src] = "rawPATH" => task = "resolve"
                   /\ Order[x.src] = "managed" => Consulted(l, "managed")
                   /\ task = "arch" => x.listing = Listed(ListingOf(l), name, "0")
    BY <1>4, <1>5, <1>6, <1>7
  <1>9. Way(l, Execute(x, task, kind, name, e, alias))
    BY <1>1, <1>2, <1>3, <1>6, <1>7, <1>8, ExecuteWay
  <1> QED
    BY <1>1, <1>9

\* A candidate that may not be returned is left out.
LEMMA KeptOnward ==
    ASSUME TypeInv, NEW l \in Lookups, NEW j \in 1 .. 8, NEW found \in Seq(Names), found # <<>>,
           KeptAt(l, found, <<>>, Order[j]),
           ~ (Consulted(l, Order[j]) /\ Acceptable(l, Order[j], found[1]))
    PROVE  KeptAt(l, Tail(found), <<>>, Order[j])
  <1> DEFINE s == Order[j]
             offers == OffersAt(s)
             ordered == s # "managed"
             fit == Fitting(l, s)
  <1>1. ordered \in BOOLEAN /\ fit \in SUBSET DOMAIN offers
    BY OffersAre
  <1>2. \A d \in fit : found[1] # offers[d]
    BY DEF Fitting
  <1>3. Kept(found, <<>>, offers, ordered, fit)
    BY DEF KeptAt
  <1> HIDE DEF offers, ordered, fit
  <1>4. Kept(Tail(found), <<>>, offers, ordered, fit)
    BY <1>1, <1>2, <1>3, KeptWithoutFirst
  <1> QED
    BY <1>4 DEF KeptAt, offers, ordered, fit

\* A candidate without installs is passed over.
LEMMA ListsNothingWay ==
    ASSUME TypeInv, DiskInv, OrderInv, NEW l \in Lookups, ListsNothing(l)
    PROVE  Way(l, lookup'[l])
  <1> DEFINE k == lookup[l]
             s == Order[k.src]
             found == Tail(k.found)
             x == [Settled(k) EXCEPT !.outer = Nowhere, !.found = found]
  <1>1. /\ k \in LookupRec /\ k.pc = "answered" /\ k.task = "list" /\ k.src \in 1 .. 8 /\ Way(l, k)
        /\ k.found # <<>> /\ k.found \in Seq(Names) /\ k.name = k.found[1] /\ k.name \in Names
        /\ k.out.items = {} /\ lookup'[l] = Onward(x)
    BY OrderLength DEF TypeInv, ListsNothing, Answered, OrderInv, Shape, Asking, LookupRec
  <1>2. found \in Seq(Names)
    BY <1>1
  <1>3. k.todo = <<>>
    BY <1>1 DEF Way, Asking
  <1>4. k.clean => /\ Passed(l, k.src) /\ KeptAt(l, found, <<>>, s) /\ s # "rawPATH"
                   /\ s = "managed" => Consulted(l, "managed")
    <2> SUFFICES ASSUME k.clean
                 PROVE  /\ Passed(l, k.src) /\ KeptAt(l, found, <<>>, s) /\ s # "rawPATH"
                        /\ s = "managed" => Consulted(l, "managed")
      OBVIOUS
    <2>1. Passed(l, k.src) /\ AtWork(l, k) /\ Told(l, k)
      BY <1>1 DEF Way
    <2>2. Listed(ListingOf(l), k.name, k.key.env) = {}
      BY <1>1, <2>1 DEF Told, Asking
    <2>3. ~ Acceptable(l, s, k.found[1])
      BY <1>1, <2>2, NothingFits
    <2>4. KeptAt(l, k.found, <<>>, s) /\ s # "rawPATH" /\ (s = "managed" => Consulted(l, "managed"))
      BY <1>1, <1>3, <2>1 DEF AtWork, Asking
    <2> QED
      BY <1>1, <2>1, <2>3, <2>4, KeptOnward
  <1>5. /\ Settled(k) \in LookupRec /\ Settled(k).src = k.src /\ Settled(k).clean = k.clean
        /\ Settled(k).todo = k.todo
    BY <1>1, SettledKeeps
  <1> HIDE DEF found
  <1>6. x \in LookupRec /\ x.src = k.src /\ x.todo = k.todo /\ x.found = found /\ x.clean = k.clean
    BY <1>2, <1>5 DEF LookupRec
  <1> HIDE DEF x
  <1>7. Way(l, Onward(x))
    BY <1>1, <1>3, <1>4, <1>6, OnwardWay
  <1> QED
    BY <1>1, <1>7

\* What Decide decides is what the documentation says.
LEMMA DecidesAsDocumented ==
    ASSUME TypeInv, DiskInv, AboutInv, ~ MultiLevel, AsDocumented, NEW l \in Lookups, NEW k, k = lookup[l],
           Answered(l, "arch"), Told(l, k), k.src \in 1 .. 8
    PROVE  (/\ k.out.first # Nowhere /\ HostArch[k.out.first] = Arch[l]
            /\ \E x \in k.listing : InstallMeets(x[2], AsJudged(l)))
           <=> Acceptable(l, Order[k.src], k.name)
  <1> DEFINE s == Order[k.src]
             e == "0"
             accepted == \E x \in k.listing : InstallMeets(x[2], AsJudged(l))
  <1>1. /\ k \in LookupRec /\ k.pc = "answered" /\ k.task = "arch" /\ k.name \in Names
        /\ k.out \in Outputs
    BY DEF TypeInv, Answered, LookupRec
  <1>2. k.out.items = Listed("runtimes", k.name, k.key.env) /\ k.listing = Listed(ListingOf(l), k.name, e)
    BY <1>1 DEF Told, Asking
  <1>3. About(k.out, k.name)
    BY <1>1 DEF AboutInv, LookupAbout
  <1>4. AsJudged(l) = Wanted(l, s)
    BY DEF AsJudged, Wanted, Source
  <1>5. At[k.name] # Nowhere /\ (k.out.first # Nowhere => k.out.first = At[k.name])
    BY <1>1, <1>3, CacheAssumption DEF About
  <1>6. HostArch[At[k.name]] = Arch[l] => (accepted <=> Acceptable(l, s, k.name))
    BY <1>1, <1>2, <1>4, JudgedAsDocumented
  <1>7. Acceptable(l, s, k.name) => HostArch[At[k.name]] = Arch[l]
    BY DEF Acceptable
  <1>8. Acceptable(l, s, k.name) => k.out.first # Nowhere
    <2> SUFFICES ASSUME k.out.first = Nowhere PROVE ~ Acceptable(l, s, k.name)
      OBVIOUS
    <2>1. k.out.items = {}
      BY <1>1, CacheAssumption DEF Outputs
    <2> DEFINE kind == "runtimes"
    <2>2. kind \in {"runtimes", ListingOf(l)} /\ Listed(kind, k.name, k.key.env) = {}
      BY <1>2, <2>1
    <2> HIDE DEF kind
    <2> QED
      BY <1>1, <2>2, NothingFits
  <1> HIDE DEF accepted
  <1>9. (k.out.first # Nowhere /\ HostArch[k.out.first] = Arch[l] /\ accepted) <=> Acceptable(l, s, k.name)
    BY <1>5, <1>6, <1>7, <1>8
  <1> QED
    BY <1>9 DEF accepted

\* The candidate is accepted or not.
LEMMA DecideWay ==
    ASSUME TypeInv, DiskInv, AboutInv, ~ MultiLevel, AsDocumented, OrderInv, NEW l \in Lookups, Decide(l)
    PROVE  Way(l, lookup'[l])
  <1> DEFINE k == lookup[l]
             s == Order[k.src]
             found == Tail(k.found)
             settled == [Settled(k) EXCEPT !.outer = Nowhere, !.inner = Nowhere]
             t == [settled EXCEPT !.pc = "mark"]
             u == [settled EXCEPT !.found = found]
             meets == /\ k.out.first # Nowhere /\ HostArch[k.out.first] = Arch[l]
                      /\ \E x \in k.listing : InstallMeets(x[2], AsJudged(l))
  <1>1. /\ k \in LookupRec /\ Answered(l, "arch") /\ k.pc = "answered" /\ k.task = "arch"
        /\ k.src \in 1 .. 8 /\ Way(l, k)
        /\ k.found # <<>> /\ k.found \in Seq(Names) /\ k.name = k.found[1] /\ k.name \in Names
    BY OrderLength DEF TypeInv, Decide, Answered, OrderInv, Shape, Asking, LookupRec
  <1>2. lookup'[l] = IF meets THEN t ELSE Onward(u)
    BY <1>1 DEF Decide, TypeInv
  <1>3. k.clean => (meets <=> Acceptable(l, s, k.name))
    BY <1>1, DecidesAsDocumented DEF Way
  <1>4. found \in Seq(Names)
    BY <1>1
  <1>5. k.todo = <<>>
    BY <1>1 DEF Way, Asking
  <1>6. k.clean => /\ Passed(l, k.src) /\ KeptAt(l, k.found, <<>>, s) /\ s # "rawPATH"
                   /\ s = "managed" => Consulted(l, "managed")
    BY <1>1, <1>5 DEF Way, AtWork, Asking
  <1>7. /\ Settled(k) \in LookupRec /\ Settled(k).src = k.src /\ Settled(k).clean = k.clean
        /\ Settled(k).todo = k.todo /\ Settled(k).found = k.found
    BY <1>1, SettledKeeps
  <1> HIDE DEF found, meets
  <1>8. /\ settled \in LookupRec /\ settled.src = k.src /\ settled.clean = k.clean
        /\ settled.todo = k.todo /\ settled.found = k.found
    BY <1>7 DEF LookupRec
  <1> HIDE DEF settled
  <1>9. /\ t.pc = "mark" /\ t.src = k.src /\ t.todo = k.todo /\ t.found = k.found /\ t.clean = k.clean
        /\ u \in LookupRec /\ u.src = k.src /\ u.todo = k.todo /\ u.found = found /\ u.clean = k.clean
    BY <1>4, <1>8 DEF LookupRec
  <1> HIDE DEF t, u
  <1>10. CASE meets
    <2>1. k.clean => AtWork(l, t)
      BY <1>1, <1>5, <1>6, <1>9, OrderLength DEF AtWork, Asking
    <2>2. k.clean => Told(l, t)
      BY <1>1, <1>3, <1>9, <1>10 DEF Told, Asking
    <2>3. Way(l, t)
      BY <1>5, <1>6, <1>9, <2>1, <2>2 DEF Way
    <2> QED
      BY <1>2, <1>10, <2>3
  <1>11. CASE ~ meets
    <2>1. k.clean => KeptAt(l, found, <<>>, s)
      BY <1>1, <1>3, <1>6, <1>11, KeptOnward DEF found
    <2>2. Way(l, Onward(u))
      BY <1>1, <1>5, <1>6, <1>9, <2>1, OnwardWay
    <2> QED
      BY <1>2, <1>11, <2>2
  <1> QED
    BY <1>10, <1>11

\* A source that returns was consulted.
LEMMA ReturnsConsulted ==
    ASSUME NEW l \in Lookups, Source(l) = "managed" => Consulted(l, "managed")
    PROVE  Returns(l) <=> Consulted(l, Source(l))
  BY DEF Returns, Consulted

\* The first candidate that may be returned is the first of all.
LEMMA FirstOfAll ==
    ASSUME TypeInv, NEW l \in Lookups, NEW j \in 1 .. 8, Order[j] # "rawPATH", Passed(l, j),
           NEW found \in Seq(Names), found # <<>>, KeptAt(l, found, <<>>, Order[j]),
           Consulted(l, Order[j]), Acceptable(l, Order[j], found[1])
    PROVE  First(l, found[1])
  <1> DEFINE s == Order[j]
             offers == OffersAt(s)
             ordered == s # "managed"
             fit == Fitting(l, s)
  <1>1. ordered \in BOOLEAN /\ fit \in SUBSET DOMAIN offers /\ DOMAIN offers \subseteq Nat
    BY OffersAre
  <1>2. \A n \in DOMAIN offers : found[1] = offers[n] => n \in fit
    BY DEF Fitting
  <1>3. PICK d \in fit : found[1] = offers[d] /\ (ordered => \A e \in fit : d <= e)
    <2>1. Kept(found, <<>>, offers, ordered, fit)
      BY DEF KeptAt
    <2> HIDE DEF offers, ordered, fit
    <2> QED
      BY <1>1, <1>2, <2>1, KeptFirst
  <1>4. PICK c \in 1 .. 7 : Documentation[c] = s
    BY SameOrder
  <1> DEFINE p == <<c, d>>
  <1>5. p \in Options(l) /\ p[1] = c /\ p[2] = d
    BY <1>4, OptionsFit
  <1>6. found[1] = Offers(Documentation[p[1]])[p[2]]
    BY <1>3, <1>4, <1>5 DEF OffersAt
  <1>7. ASSUME NEW q \in Options(l), ComesBefore(q, p) PROVE FALSE
    <2>1. q[1] \in 1 .. 7 /\ q[2] \in Fitting(l, Documentation[q[1]])
      BY OptionsFit
    <2>2. CASE q[1] < c
      <3>1. PICK i \in 1 .. 8 : Order[i] = Documentation[q[1]] /\ Order[i] # "rawPATH"
        BY <2>1, SameOrder
      <3>2. i < j
        <4> DEFINE b == q[1]
        <4>1. b \in 1 .. 7 /\ c \in 1 .. 7 /\ b < c
              /\ Documentation[b] = Order[i] /\ Documentation[c] = Order[j]
          BY <1>4, <2>1, <2>2, <3>1
        <4> HIDE DEF b
        <4> QED
          BY <4>1, SameOrder
      <3> QED
        BY <2>1, <3>1, <3>2, OrderIs DEF Passed
    <2>3. CASE q[1] = c /\ ordered /\ q[2] < d
      <3>1. q[2] \in fit
        BY <1>4, <2>1, <2>3
      <3>2. d <= q[2] /\ d \in Nat /\ q[2] \in Nat
        BY <1>1, <1>3, <2>3, <3>1
      <3> QED
        BY <2>3, <3>2
    <2> QED
      BY <1>4, <1>5, <1>7, <2>2, <2>3 DEF ComesBefore
  <1> HIDE DEF p
  <1> QED
    BY <1>5, <1>6, <1>7 DEF First

\* The candidate is marked, and returned or not.
LEMMA MarkInUseWay ==
    ASSUME TypeInv, OrderInv, NEW l \in Lookups, MarkInUse(l)
    PROVE  Way(l, lookup'[l])
  <1> DEFINE k == lookup[l]
             s == Order[k.src]
             found == Tail(k.found)
             x == [k EXCEPT !.found = found]
             y == Ended(k, k.found[1])
  <1>1. /\ k \in LookupRec /\ k.pc = "mark" /\ k.src \in 1 .. 8 /\ Way(l, k) /\ Source(l) = s
        /\ k.found # <<>> /\ k.found \in Seq(Names)
    BY OrderLength DEF TypeInv, MarkInUse, OrderInv, Shape, LookupRec, Source
  <1>2. lookup'[l] = IF Returns(l) THEN y ELSE Onward(x)
    BY <1>1 DEF MarkInUse, TypeInv
  <1>3. found \in Seq(Names)
    BY <1>1
  <1>4. k.todo = <<>>
    BY <1>1 DEF Way, Asking
  <1>5. k.clean => /\ Passed(l, k.src) /\ KeptAt(l, k.found, <<>>, s) /\ s # "rawPATH"
                   /\ s = "managed" => Consulted(l, "managed")
                   /\ Acceptable(l, s, k.found[1])
    BY <1>1, <1>4 DEF Way, AtWork, Told, Asking
  <1>6. k.clean => (Returns(l) <=> Consulted(l, s))
    BY <1>1, <1>5, ReturnsConsulted
  <1>7. y.pc = "done" /\ y.todo = <<>> /\ y.result = k.found[1] /\ y.clean = k.clean
    BY DEF Ended, Idle
  <1> HIDE DEF y, found
  <1>8. x \in LookupRec /\ x.src = k.src /\ x.todo = k.todo /\ x.found = found /\ x.clean = k.clean
    BY <1>1, <1>3 DEF LookupRec
  <1> HIDE DEF x
  <1>9. CASE Returns(l)
    <2>1. k.clean => First(l, k.found[1])
      BY <1>1, <1>5, <1>6, <1>9, FirstOfAll
    <2>2. Way(l, y)
      BY <1>7, <2>1 DEF Way
    <2> QED
      BY <1>2, <1>9, <2>2
  <1>10. CASE ~ Returns(l)
    <2>1. k.clean => KeptAt(l, found, <<>>, s)
      BY <1>1, <1>5, <1>6, <1>10, KeptOnward DEF found
    <2>2. Way(l, Onward(x))
      BY <1>1, <1>4, <1>5, <1>8, <2>1, OnwardWay
    <2> QED
      BY <1>2, <1>10, <2>2
  <1> QED
    BY <1>9, <1>10

\* A step of one lookup.
LEMMA OrderOfOne ==
    ASSUME TypeInv, DiskInv, AboutInv, ~ MultiLevel, AsDocumented, RecordsTrue, OrderInv,
           NEW l \in Lookups, Start(l) \/ Goes(l)
    PROVE  OrderInv'
  <1>1. PICK x : LookupMoves(l, x)
    BY MovesAsSaid
  <1>2. /\ UNCHANGED <<disk, records>> /\ \A o \in Lookups \ {l} : lookup'[o] = lookup[o]
    BY <1>1 DEF LookupMoves, TypeInv
  <1>3. Way(l, lookup'[l])
    BY StartWay, FindsNothingWay, SkipSourceWay, TakeWay, ResolveWay, RunWay, ResolveNextWay,
       ResolveEndsWay, JudgeWay, ListsNothingWay, AskArchitectureWay, DecideWay, MarkInUseWay DEF Goes
  <1>4. Way(l, lookup[l])'
    BY <1>2, <1>3, WayOfNew
  <1>5. ASSUME NEW o \in Lookups \ {l} PROVE Way(o, lookup[o])'
    BY <1>2, WayOfNew DEF OrderInv
  <1> QED
    BY <1>4, <1>5 DEF OrderInv

\* After a change of the installs, no lookup under way is bound to what they are.
LEMMA OrderOfSeen ==
    ASSUME TypeInv, OrderInv, NEW contents, LookupsSee(contents)
    PROVE  OrderInv'
  <1> SUFFICES ASSUME NEW l \in Lookups PROVE Way(l, lookup[l])'
    BY DEF OrderInv
  <1> DEFINE k == lookup[l]
             x == lookup'[l]
  <1>1. k \in LookupRec /\ SeenAs(k, x) /\ Way(l, k)
    BY SeeTypes DEF TypeInv, OrderInv
  <1>2. k.pc = "idle" \/ x.clean = FALSE
    <2> SUFFICES ASSUME k.pc # "idle" PROVE x.clean = FALSE
      OBVIOUS
    <2>1. \/ x = [k EXCEPT !.clean = FALSE]
          \/ \E c, d : x = [k EXCEPT !.clean = FALSE, !.crossed = c, !.could = d]
      BY DEF LookupsSee
    <2> HIDE DEF x
    <2> QED
      BY <1>1, <2>1 DEF LookupRec
  <1>3. x.pc = k.pc /\ x.src = k.src /\ x.todo = k.todo /\ x.task = k.task
    BY <1>1 DEF SeenAs
  <1> QED
    BY <1>1, <1>2, <1>3 DEF Way

\* Every step.
LEMMA OrderStep ==
    ASSUME ~ MultiLevel, AsDocumented, RecordsTrue, TypeInv, DiskInv, AboutInv, OrderInv, [Next]_vars
    PROVE  OrderInv'
  <1>1. ASSUME NEW l \in Lookups, Start(l) \/ Goes(l) PROVE OrderInv'
    BY <1>1, OrderOfOne
  <1>2. ASSUME NEW r, SomebodyChanges(r) \/ OwnInstall(r) \/ OwnUninstall(r) PROVE OrderInv'
    BY <1>2, OrderOfSeen DEF SomebodyChanges, OwnInstall, OwnUninstall, Change
  <1>3. CASE OwnRecords
    BY <1>3, OrderOfSeen DEF OwnRecords
  <1>4. CASE OwnInvalidates \/ EntryExpires \/ UNCHANGED vars
    <2>1. UNCHANGED <<disk, records, lookup>>
      BY <1>4 DEF OwnInvalidates, EntryExpires, Expire, vars, cacheVars
    <2> QED
      BY <2>1, WayOfNew DEF OrderInv
  <1> QED
    BY <1>1, <1>2, <1>3, <1>4 DEF Next

\* A root holds what runs, and a managed one nothing but what the extension installs.
LEMMA DiskStep ==
    ASSUME HostsRun, TypeInv, DiskInv, [Next]_vars
    PROVE  DiskInv'
  <1>1. ASSUME NEW r \in Roots, NEW installs, Change(r, installs), Runs(installs),
               r \in Managed => installs \subseteq Initially[r]
        PROVE  DiskInv'
    <2>1. disk' = [disk EXCEPT ![r] = installs] /\ Managed \subseteq Roots
      BY <1>1, LookupAssumption DEF Change
    <2> QED
      BY <1>1, <2>1 DEF TypeInv, DiskInv
  <1>2. ASSUME NEW r \in Roots \ Managed, SomebodyChanges(r) PROVE DiskInv'
    <2>1. PICK installs \in Others[r] : Change(r, installs)
      BY <1>2 DEF SomebodyChanges
    <2> QED
      BY <1>1, <2>1 DEF HostsRun
  <1>3. ASSUME NEW r \in Managed, OwnInstall(r) \/ OwnUninstall(r) PROVE DiskInv'
    <2>1. r \in Roots /\ Runs(Initially[r]) /\ Runs({})
      BY LookupAssumption DEF HostsRun, Runs
    <2>2. Change(r, Initially[r]) \/ Change(r, {})
      BY <1>3 DEF OwnInstall, OwnUninstall
    <2> QED
      BY <1>1, <2>1, <2>2
  <1>4. ASSUME UNCHANGED disk PROVE DiskInv'
    BY <1>4 DEF DiskInv
  <1>5. ASSUME NEW l \in Lookups, Start(l) \/ Goes(l) PROVE UNCHANGED disk
    <2>1. PICK x : LookupMoves(l, x)
      BY <1>5, MovesAsSaid
    <2> QED
      BY <2>1 DEF LookupMoves
  <1>6. OwnInvalidates \/ OwnRecords \/ EntryExpires \/ UNCHANGED vars => UNCHANGED disk
    BY DEF OwnInvalidates, OwnRecords, EntryExpires, Expire, vars, cacheVars
  <1> QED
    BY <1>2, <1>3, <1>4, <1>5, <1>6 DEF Next

\* No lookup has begun.
LEMMA OrderStarts ==
    ASSUME HostsRun, Init
    PROVE  DiskInv /\ OrderInv
  <1>1. DiskInv
    BY LookupAssumption DEF Init, HostsRun, DiskInv, Runs
  <1>2. ASSUME NEW l \in Lookups PROVE Way(l, lookup[l])
    <2>1. lookup[l].pc = "idle" /\ lookup[l].src = 1 /\ lookup[l].todo = <<>>
      BY DEF Init, Idle
    <2> QED
      BY <2>1 DEF Way
  <1> QED
    BY <1>1, <1>2 DEF OrderInv

\* What a finished lookup returns is the first candidate in the documented order that meets
\* its request, and undefined only if there is none, unless an install changed meanwhile or
\* a cached listing was out of date; whatever other lookups do at the same time. It is so
\* for the requests that are compared as documented, for hosts that do not honour
\* multi-level lookup, where a `dotnet` comes with a runtime and a record of the extension
\* names the version of the runtime (extension.ts, DotnetResolver, DotnetConditionValidator).
THEOREM FindsFirst ==
    ASSUME ~ MultiLevel, AsDocumented, HostsRun, RecordsTrue
    PROVE  Spec => []FirstInOrder
  <1> DEFINE Inv == TypeInv /\ EnvInv /\ AboutInv /\ FreshInv /\ DiskInv /\ OrderInv
  <1>1. Init => Inv
    BY TypeInvStarts, EnvInvStarts, FreshStarts, OrderStarts
  <1>2. Inv /\ [Next]_vars => Inv'
    BY TypeInvStep, EnvInvStep, FreshStep, DiskStep, OrderStep
  <1>3. Inv => FirstInOrder
    BY DEF OrderInv, Way, First, FirstInOrder
  <1> HIDE DEF Inv
  <1> QED
    BY <1>1, <1>2, <1>3, PTL DEF Spec
=============================================================================
