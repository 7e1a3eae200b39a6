------------------------ MODULE ExtensionHost_proofs ------------------------
(***************************************************************************)
(* Proofs about what one window tells: its reports on acquisitions, its    *)
(* log, and its tools for a language model; for any acquisitions,          *)
(* installs, events and calls, and its types as a whole.                   *)
(***************************************************************************)
EXTENDS MCExtensionHost, SudoProtocol_proofs, SequenceTheorems, FiniteSetTheorems,
        WellFoundedInduction, TLAPS

(***************************************************************************)
(* What a call knows by itself at each stage: it has no refusal and no     *)
(* code before the uninstaller has answered; what it heard before that is  *)
(* from another; and after a refusal its own error says so until another   *)
(* is heard.                                                               *)
(***************************************************************************)
CallInv(c) ==
    /\ stage[c] \in {"idle", "waiting", "working"} => c \notin declined
    /\ stage[c] \in {"idle", "waiting", "working", "tracking", "recovering"} => c \notin coded
    /\ stage[c] \in {"working", "tracking"} => c \in asked
    /\ stage[c] = "idle" => detail[c] = ""
    /\ stage[c] = "waiting" => detail[c] = "" \/ heardFrom[c] = "another"
    /\ stage[c] = "tracking" /\ c \in declined => detail[c] = "cancel" \/ heardFrom[c] = "another"

\* The variables that have a value for each call are functions on the calls.
ToolFunctions ==
    /\ stage = [c \in ToolCalls |-> stage[c]]
    /\ detail = [c \in ToolCalls |-> detail[c]]
    /\ heardFrom = [c \in ToolCalls |-> heardFrom[c]]

ToolsInv == ToolFunctions /\ DeclineIsHeard /\ \A c \in ToolCalls : CallInv(c)

\* Whatever is posted, a call that does not post it can only hear it from another.
LEMMA ToolsInvStep == ToolsInv /\ [ToolsNext]_toolVars => ToolsInv'
  <1> SUFFICES ASSUME ToolsInv, [ToolsNext]_toolVars PROVE ToolsInv'
    OBVIOUS
  <1> USE DEF ToolsInv, ToolFunctions, DeclineIsHeard, CallInv, Working, Throws,
              FailureResult, IsCancellation, FreesLock
  <1>1. ASSUME NEW c \in ToolCalls, Invoke(c) PROVE ToolsInv'
    BY <1>1 DEF Invoke
  <1>2. ASSUME NEW c \in ToolCalls, GivesUp(c) PROVE ToolsInv'
    BY <1>2 DEF GivesUp
  <1>3. ASSUME NEW c \in ToolCalls, TakesLock(c) PROVE ToolsInv'
    BY <1>3 DEF TakesLock
  <1>4. ASSUME NEW c \in ToolCalls, Succeeds(c) PROVE ToolsInv'
    BY <1>4 DEF Succeeds
  <1>5. ASSUME NEW c \in ToolCalls, ReturnsCode(c) PROVE ToolsInv'
    BY <1>5 DEF ReturnsCode, Hear, MayDecline
  <1>6. ASSUME NEW c \in ToolCalls, FailsInside(c) PROVE ToolsInv'
    <2>1. PICK text \in Texts :
            /\ Hear(c, text)
            /\ IF text = "cancel" /\ tool[c] = "sdk" THEN MayDecline(c) ELSE UNCHANGED declined
      BY <1>6 DEF FailsInside
    <2>2. c \in declined' => text = "cancel"
      BY <1>6, <2>1 DEF FailsInside, MayDecline
    <2>3. \A d \in ToolCalls \ {c} : d \in declined' => d \in declined
      BY <2>1 DEF MayDecline
    <2> QED
      BY <1>6, <2>1, <2>2, <2>3 DEF FailsInside, Hear
  <1>7. ASSUME NEW c \in ToolCalls, TracksAgain(c) PROVE ToolsInv'
    BY <1>7 DEF TracksAgain
  <1>8. ASSUME NEW c \in ToolCalls, Recover(c) PROVE ToolsInv'
    BY <1>8 DEF Recover
  <1>9. CASE OtherCommand
    <2>1. PICK text \in Texts : Hear(NoCall, text)
      BY <1>9 DEF OtherCommand
    <2> QED
      BY <1>9, <2>1, ToolCallsAssumption DEF OtherCommand, Hear
  <1>10. CASE UNCHANGED toolVars
    BY <1>10 DEF toolVars
  <1> QED
    BY <1>1, <1>2, <1>3, <1>4, <1>5, <1>6, <1>7, <1>8, <1>9, <1>10 DEF ToolsNext

\* A refusal is told and not followed by another prompt, but for an error of another
\* command that came in between; nobody else is taken for refused without one; and no
\* code leads to a recovery (runUninstallAttempt and UninstallSystemSdkTool.invoke).
THEOREM RefusalsAreHeard == ToolsSpec => []DeclineIsHeard
  <1>1. ToolsInit => ToolsInv
    BY DEF ToolFunctions, ToolsInit, ToolsInv, DeclineIsHeard, CallInv
  <1>2. ToolsInv /\ [ToolsNext]_toolVars => ToolsInv'
    BY ToolsInvStep
  <1>3. ToolsInv => DeclineIsHeard
    BY DEF ToolsInv
  <1> QED
    BY <1>1, <1>2, <1>3, PTL DEF ToolsSpec

-----------------------------------------------------------------------------
(***************************************************************************)
(* The reports: the script and the lock.                                   *)
(***************************************************************************)
\* Where the script of an acquisition may be while its caller is elsewhere.  Before
\* the script has run once nothing can have rejected; afterwards only PowerShell can
\* have, which is only there on Windows.
ScriptInv(a) ==
    /\ script[a] \in {"command", "look"} => caller[a] = "installing"
    /\ script[a] \in {"run", "mode", "probing", "online"} =>
         caller[a] = "installing" \/ (platform = "windows" /\ a \in early)
    /\ script[a] = "mode" => platform = "windows"
    /\ caller[a] \in {"idle", "waiting"} => script[a] = "none"
    /\ caller[a] \in {"installing", "tracking"} => installHolder[IdOf[a]] = a

ReportsInv ==
    /\ caller = [a \in Acquisitions |-> caller[a]]
    /\ script = [a \in Acquisitions |-> script[a]]
    /\ installHolder = [i \in Ids |-> installHolder[i]]
    /\ \A a \in Acquisitions : ScriptInv(a)

\* A step of acquisition a leaves the threads of the others, and the locks they have,
\* as they are.
Apart(a) ==
    /\ platform' = platform
    /\ caller' = [b \in Acquisitions |-> caller'[b]]
    /\ script' = [b \in Acquisitions |-> script'[b]]
    /\ installHolder' = [i \in Ids |-> installHolder'[i]]
    /\ \A b \in Acquisitions \ {a} :
         /\ caller'[b] = caller[b] /\ script'[b] = script[b]
         /\ b \in early' <=> b \in early
         /\ installHolder[IdOf[b]] = b => installHolder'[IdOf[b]] = b

LEMMA ApartKeepsInv ==
    ASSUME ReportsInv, NEW a \in Acquisitions, Apart(a), ScriptInv(a)'
    PROVE  ReportsInv'
  <1>1. ASSUME NEW b \in Acquisitions, b # a PROVE ScriptInv(b)'
    BY <1>1 DEF ReportsInv, ScriptInv, Apart
  <1> QED
    BY <1>1 DEF ReportsInv, Apart

LEMMA CallerStep ==
    ASSUME ReportsInv, NEW a \in Acquisitions,
           Unresolved(a) \/ Ask(a) \/ LockWaitEnds(a) \/ Hold(a) \/ Tracks(a)
    PROVE  Apart(a) /\ ScriptInv(a)'
  <1> USE AcquisitionsAssumption DEF ReportsInv, ScriptInv, Apart, Answers, Runs, Frees
  <1>1. CASE Unresolved(a)
    BY <1>1 DEF Unresolved
  <1>2. CASE Ask(a)
    BY <1>2 DEF Ask
  <1>3. CASE LockWaitEnds(a)
    BY <1>3 DEF LockWaitEnds
  <1>4. CASE Hold(a)
    BY <1>4 DEF Hold
  <1>5. CASE Tracks(a)
    BY <1>5 DEF Tracks
  <1> QED
    BY <1>1, <1>2, <1>3, <1>4, <1>5

\* What an answer of installDotnet does to its caller.
LEMMA AnswerStep ==
    ASSUME ReportsInv, NEW a \in Acquisitions, NEW shown,
           Resolves(a, shown) \/ Rejects(a, shown)
    PROVE  /\ caller' = [b \in Acquisitions |-> caller'[b]]
           /\ installHolder' = [i \in Ids |-> installHolder'[i]]
           /\ \A b \in Acquisitions \ {a} :
                /\ caller'[b] = caller[b]
                /\ installHolder[IdOf[b]] = b => installHolder'[IdOf[b]] = b
           /\ IF caller[a] = "installing" THEN caller'[a] \in {"tracking", "failed"}
              ELSE caller'[a] = caller[a]
           /\ caller'[a] = "tracking" => installHolder'[IdOf[a]] = a
  <1> USE AcquisitionsAssumption DEF ReportsInv, ScriptInv, Answers, Frees
  <1>1. CASE Resolves(a, shown)
    BY <1>1 DEF Resolves
  <1>2. CASE Rejects(a, shown)
    BY <1>2 DEF Rejects
  <1> QED
    BY <1>1, <1>2

\* The end of the script: whoever goes on looking after an answer had a rejection.
LEMMA ConcludesStep ==
    ASSUME ReportsInv, NEW a \in Acquisitions, NEW error, NEW shown, NEW rejected \in BOOLEAN,
           script[a] \in {"run", "mode"}, Concludes(a, error, shown, rejected),
           platform' = platform, early' = IF rejected THEN early \cup {a} ELSE early,
           rejected => platform = "windows"
    PROVE  Apart(a) /\ ScriptInv(a)'
  <1> DEFINE last == IF error = "none" THEN Completed(shown, a) ELSE shown
  <1>1. \E next \in {"over", "probing", "online"} :
          Runs(a, next) /\ (error = "none" => next = "over")
    BY DEF Concludes
  <1>2. \/ rejected /\ Rejects(a, last)
        \/ ~rejected /\ error = "none" /\ Resolves(a, last)
        \/ ~rejected /\ UNCHANGED <<caller, installHolder>>
    BY DEF Concludes
  <1>3. CASE rejected \/ error = "none"
    <2>1. Resolves(a, last) \/ Rejects(a, last) \/ UNCHANGED <<caller, installHolder>>
      BY <1>2
    <2> QED
      BY <1>1, <1>2, <1>3, <2>1, AnswerStep DEF Apart, ScriptInv, ReportsInv, Runs
  <1>4. CASE ~rejected /\ error # "none"
    BY <1>1, <1>2, <1>4 DEF Apart, ScriptInv, ReportsInv, Runs
  <1> QED
    BY <1>3, <1>4

LEMMA ScriptStep ==
    ASSUME ReportsInv, NEW a \in Acquisitions,
           \/ Command(a) \/ LookAtDir(a) \/ ScriptEnds(a) \/ ModeKnown(a) \/ Probed(a)
           \/ OnlineKnown(a)
    PROVE  Apart(a) /\ ScriptInv(a)'
  <1>1. CASE Command(a)
    <2>1. \/ Runs(a, "look") /\ UNCHANGED <<caller, installHolder>>
          \/ Runs(a, "over") /\ Rejects(a, Err(screen, a))
      BY <1>1 DEF Command
    <2> QED
      BY <1>1, <2>1, AnswerStep DEF Command, Apart, ScriptInv, ReportsInv, Runs
  <1>2. CASE LookAtDir(a)
    <2>1. \/ Runs(a, "over") /\ \E shown : Resolves(a, shown) \/ Rejects(a, shown)
          \/ Runs(a, "run") /\ UNCHANGED <<caller, installHolder>>
      BY <1>2 DEF LookAtDir
    <2> QED
      BY <1>2, <2>1, AnswerStep DEF LookAtDir, Apart, ScriptInv, ReportsInv, Runs
  <1>3. CASE ScriptEnds(a)
    <2>1. PICK error \in Errors, policy \in BOOLEAN, suspect \in BOOLEAN :
            /\ policy \/ suspect => platform = "windows"
            /\ early' = IF policy THEN early \cup {a} ELSE early
            /\ LET shown == IF policy THEN Err(screen, a) ELSE screen IN
               IF ~ suspect THEN Concludes(a, error, shown, policy)
               ELSE /\ Runs(a, "mode")
                    /\ IF policy THEN Rejects(a, shown)
                       ELSE UNCHANGED <<caller, installHolder, screen>>
      BY <1>3 DEF ScriptEnds
    <2>2. script[a] = "run" /\ platform' = platform
      BY <1>3 DEF ScriptEnds
    <2>3. CASE ~ suspect
      BY <2>1, <2>2, <2>3, ConcludesStep
    <2>4. CASE suspect
      <3>1. /\ Runs(a, "mode")
            /\ IF policy THEN Rejects(a, Err(screen, a)) ELSE UNCHANGED <<caller, installHolder>>
        BY <2>1, <2>4
      <3> QED
        BY <2>1, <2>2, <2>4, <3>1, AnswerStep DEF Apart, ScriptInv, ReportsInv, Runs
    <2> QED
      BY <2>3, <2>4
  <1>4. CASE ModeKnown(a)
    <2>1. PICK bad \in BOOLEAN :
            /\ early' = IF bad THEN early \cup {a} ELSE early
            /\ Concludes(a, failure[a], IF bad THEN Err(screen, a) ELSE screen, bad)
      BY <1>4 DEF ModeKnown
    <2>2. script[a] = "mode" /\ platform' = platform /\ platform = "windows"
      BY <1>4 DEF ModeKnown, ReportsInv, ScriptInv
    <2> QED
      BY <2>1, <2>2, ConcludesStep
  <1>5. CASE Probed(a)
    <2>1. \/ Runs(a, "run") /\ UNCHANGED <<caller, installHolder>>
          \/ Runs(a, "over") /\ Rejects(a, Err(screen, a))
      BY <1>5 DEF Probed
    <2> QED
      BY <1>5, <2>1, AnswerStep DEF Probed, Apart, ScriptInv, ReportsInv, Runs
  <1>6. CASE OnlineKnown(a)
    <2>1. Runs(a, "over") /\ Rejects(a, Err(screen, a))
      BY <1>6 DEF OnlineKnown
    <2> QED
      BY <1>6, <2>1, AnswerStep DEF OnlineKnown, Apart, ScriptInv, ReportsInv, Runs
  <1> QED
    BY <1>1, <1>2, <1>3, <1>4, <1>5, <1>6

LEMMA ReportsInvStep == ReportsInv /\ [ReportsNext]_reportVars => ReportsInv'
  <1> SUFFICES ASSUME ReportsInv, [ReportsNext]_reportVars PROVE ReportsInv'
    OBVIOUS
  <1>1. CASE ReportsNext
    BY <1>1, CallerStep, ScriptStep, ApartKeepsInv DEF ReportsNext
  <1>2. CASE UNCHANGED reportVars
    BY <1>2 DEF reportVars, callVars, ReportsInv, ScriptInv
  <1> QED
    BY <1>1, <1>2

\* The install script runs under the lock of its install, but for an acquisition that
\* was rejected because of PowerShell (the callback of installDotnet goes on after it
\* has called reject).
THEOREM ScriptsRunUnderLock == ReportsSpec => []RunsUnderLock
  <1>1. ReportsInit => ReportsInv
    BY DEF ReportsInit, ReportsInv, ScriptInv
  <1>2. ReportsInv /\ [ReportsNext]_reportVars => ReportsInv'
    BY ReportsInvStep
  <1>3. ReportsInv => RunsUnderLock
    BY DEF ReportsInv, ScriptInv, RunsUnderLock
  <1> QED
    BY <1>1, <1>2, <1>3, PTL DEF ReportsSpec

-----------------------------------------------------------------------------
(***************************************************************************)
(* The list of downloads: what is left of it when an entry is taken out.   *)
(***************************************************************************)

\* A sequence without its i-th element.
Without(s, i, left) ==
    /\ left \in Seq(Ids) /\ Len(left) = Len(s) - 1
    /\ \A k \in 1 .. i - 1 : left[k] = s[k]
    /\ \A k \in i .. Len(s) - 1 : left[k] = s[k + 1]

\* A set of numbers has a least one, as < is well-founded.
LEMMA MinIsLeast ==
    ASSUME NEW T \in SUBSET Nat, T # {}
    PROVE  Min(T) \in T
  <1>1. PICK x \in T : \A y \in T : <<y, x>> \notin OpToRel(<, Nat)
    BY NatLessThanWellFounded, WFMin
  <1>2. ASSUME NEW y \in T PROVE x <= y
    <2>1. ~ (y < x)
      BY <1>1 DEF OpToRel
    <2> QED
      BY <2>1
  <1> QED
    BY <1>2 DEF Min

LEMMA RemoveAtProperties ==
    ASSUME NEW s \in Seq(Ids), NEW i \in 1 .. Len(s)
    PROVE  Without(s, i, RemoveAt(s, i))
  <1>1. Len(s) \in Nat /\ \A k \in 1 .. Len(s) : s[k] \in Ids
    OBVIOUS
  <1> DEFINE front == SubSeq(s, 1, i - 1)
             rest == SubSeq(s, i + 1, Len(s))
  <1>2. front \in Seq(Ids) /\ Len(front) = i - 1 /\ \A k \in 1 .. i - 1 : front[k] = s[k]
    <2>1. 1 \in Int /\ i - 1 \in Int /\ \A k \in 1 .. i - 1 : s[k] \in Ids
      BY <1>1
    <2>2. /\ front \in Seq(Ids)
          /\ Len(front) = IF 1 <= i - 1 THEN (i - 1) - 1 + 1 ELSE 0
          /\ \A k \in 1 .. (i - 1) - 1 + 1 : front[k] = s[1 + k - 1]
      BY <2>1, SubSeqProperties
    <2> HIDE DEF front
    <2> QED
      BY <1>1, <2>2
  <1>3. rest \in Seq(Ids) /\ Len(rest) = Len(s) - i /\ \A k \in 1 .. Len(s) - i : rest[k] = s[i + k]
    <2>1. i + 1 \in Int /\ Len(s) \in Int /\ \A k \in i + 1 .. Len(s) : s[k] \in Ids
      BY <1>1
    <2>2. /\ rest \in Seq(Ids)
          /\ Len(rest) = IF i + 1 <= Len(s) THEN Len(s) - (i + 1) + 1 ELSE 0
          /\ \A k \in 1 .. Len(s) - (i + 1) + 1 : rest[k] = s[(i + 1) + k - 1]
      BY <2>1, SubSeqProperties
    <2> HIDE DEF rest
    <2> QED
      BY <1>1, <2>2
  <1>4. RemoveAt(s, i) = front \o rest
    BY DEF RemoveAt
  <1> HIDE DEF front, rest
  <1>5. /\ front \o rest \in Seq(Ids) /\ Len(front \o rest) = Len(front) + Len(rest)
        /\ \A k \in 1 .. Len(front) + Len(rest) :
             (front \o rest)[k] = IF k <= Len(front) THEN front[k] ELSE rest[k - Len(front)]
    BY <1>2, <1>3, ConcatProperties
  <1>8. Len(front \o rest) = Len(s) - 1
    BY <1>1, <1>2, <1>3, <1>5
  <1>6. \A k \in 1 .. i - 1 : (front \o rest)[k] = s[k]
    BY <1>1, <1>2, <1>3, <1>5
  <1>7. ASSUME NEW k \in i .. Len(s) - 1 PROVE (front \o rest)[k] = s[k + 1]
    BY <1>1, <1>2, <1>3, <1>5
  <1> QED
    BY <1>4, <1>5, <1>6, <1>7, <1>8 DEF Without

LEMMA RemoveFirstProperties ==
    ASSUME NEW s \in Seq(Ids), NEW e \in ToSet(s)
    PROVE  \E i \in 1 .. Len(s) : s[i] = e /\ Without(s, i, RemoveFirst(s, e))
  <1>1. Len(s) \in Nat /\ DOMAIN s = 1 .. Len(s)
    OBVIOUS
  <1>2. \E i \in 1 .. Len(s) : s[i] = e
    BY <1>1 DEF ToSet
  <1> DEFINE places == {i \in 1 .. Len(s) : s[i] = e}
  <1>3. Min(places) \in places
    <2>1. places \subseteq Nat /\ places # {}
      BY <1>2
    <2> QED
      BY <2>1, MinIsLeast
  <1>4. RemoveFirst(s, e) = RemoveAt(s, Min(places))
    BY <1>2 DEF RemoveFirst, SelectInSeq
  <1> QED
    BY <1>3, <1>4, RemoveAtProperties

\* Nothing is listed twice.
Distinct(s) == \A i, k \in DOMAIN s : s[i] = s[k] => i = k

LEMMA WithoutProperties ==
    ASSUME NEW s \in Seq(Ids), Distinct(s), NEW i \in 1 .. Len(s), NEW left, Without(s, i, left)
    PROVE  left \in Seq(Ids) /\ Distinct(left) /\ ToSet(left) = ToSet(s) \ {s[i]}
  <1>1. /\ Len(s) \in Nat /\ DOMAIN s = 1 .. Len(s)
        /\ left \in Seq(Ids) /\ DOMAIN left = 1 .. Len(s) - 1
    BY DEF Without
  <1> DEFINE from(k) == IF k < i THEN k ELSE k + 1
  <1>2. ASSUME NEW k \in DOMAIN left
        PROVE  from(k) \in DOMAIN s \ {i} /\ left[k] = s[from(k)]
    <2>1. CASE k < i
      BY <2>1, <1>1 DEF Without
    <2>2. CASE ~ (k < i)
      BY <2>2, <1>1 DEF Without
    <2> QED
      BY <2>1, <2>2
  <1>3. ASSUME NEW k \in DOMAIN left, NEW j \in DOMAIN left, left[k] = left[j]
        PROVE  k = j
    <2>1. from(k) = from(j)
      BY <1>2, <1>3 DEF Distinct
    <2> QED
      BY <2>1, <1>1
  <1>4. ASSUME NEW k \in DOMAIN s, k # i PROVE s[k] \in ToSet(left)
    <2>1. CASE k < i
      <3>1. k \in DOMAIN left /\ from(k) = k
        BY <2>1, <1>1
      <3> QED
        BY <3>1, <1>2 DEF ToSet
    <2>2. CASE ~ (k < i)
      <3>1. k - 1 \in DOMAIN left /\ from(k - 1) = k
        BY <2>2, <1>1, <1>4
      <3> QED
        BY <3>1, <1>2 DEF ToSet
    <2> QED
      BY <2>1, <2>2
  <1>5. ASSUME NEW k \in DOMAIN left PROVE left[k] \in ToSet(s) /\ left[k] # s[i]
    BY <1>1, <1>2 DEF ToSet, Distinct
  <1>6. ToSet(left) = ToSet(s) \ {s[i]}
    BY <1>4, <1>5 DEF ToSet
  <1> QED
    BY <1>1, <1>3, <1>6 DEF Distinct

LEMMA DoneProperties ==
    ASSUME NEW s \in Seq(Ids), Distinct(s), NEW id
    PROVE  /\ Done(s, id) \in Seq(Ids) /\ Distinct(Done(s, id))
           /\ ToSet(Done(s, id)) \subseteq ToSet(s) \ {id}
           /\ id \in ToSet(s) => ToSet(Done(s, id)) = ToSet(s) \ {id}
  <1>1. CASE id \in ToSet(s)
    <2>1. PICK i \in 1 .. Len(s) : s[i] = id /\ Without(s, i, RemoveFirst(s, id))
      BY <1>1, RemoveFirstProperties
    <2>2. RemoveFirst(s, id) \in Seq(Ids) /\ Distinct(RemoveFirst(s, id))
          /\ ToSet(RemoveFirst(s, id)) = ToSet(s) \ {id}
      BY <2>1, WithoutProperties
    <2> QED
      BY <2>2, <1>1 DEF Done
  <1>2. CASE id \notin ToSet(s) /\ s = <<>>
    BY <1>2 DEF Done, Distinct, ToSet
  <1>3. CASE id \notin ToSet(s) /\ s # <<>>
    <2>1. Len(s) \in 1 .. Len(s) /\ Len(s) \in Nat \ {0}
      BY <1>3
    <2>2. PICK n \in Nat : Len(s) = n + 1 /\ n = Len(s) - 1
      BY <2>1
    <2>3. 1 \in Int /\ n \in Int /\ \A k \in 1 .. n : s[k] \in Ids
      BY <2>2
    <2>4. Without(s, Len(s), Front(s))
      <3>1. /\ SubSeq(s, 1, n) \in Seq(Ids)
            /\ Len(SubSeq(s, 1, n)) = IF 1 <= n THEN n - 1 + 1 ELSE 0
            /\ \A k \in 1 .. n - 1 + 1 : SubSeq(s, 1, n)[k] = s[1 + k - 1]
        BY <2>3, SubSeqProperties
      <3>2. Front(s) = SubSeq(s, 1, n)
        BY <2>2 DEF Front
      <3>3. Front(s) \in Seq(Ids) /\ Len(Front(s)) = n /\ \A k \in 1 .. n : Front(s)[k] = s[k]
        BY <3>1, <3>2
      <3> HIDE DEF Front
      <3> QED
        BY <2>2, <3>3 DEF Without
    <2>5. /\ Front(s) \in Seq(Ids) /\ Distinct(Front(s))
          /\ ToSet(Front(s)) = ToSet(s) \ {s[Len(s)]}
      BY <2>1, <2>4, WithoutProperties
    <2> QED
      BY <2>5, <1>3 DEF Done
  <1> QED
    BY <1>1, <1>2, <1>3

-----------------------------------------------------------------------------
(***************************************************************************)
(* What the observers make of an event.                                    *)
(***************************************************************************)
Screens == [downloads : Seq(Ids), dots : BOOLEAN, bar : {"hidden", "busy", "error"}]

\* A list without repetition, and dots as long as there is one.
ScreenInv(shown) ==
    /\ shown \in Screens
    /\ Distinct(shown.downloads)
    /\ shown.dots <=> shown.downloads # <<>>

Entries(shown) == ToSet(shown.downloads)

\* What is seen after shown has at most its entries, and no new sign of being busy.
Less(shown, seen) ==
    /\ ScreenInv(seen)
    /\ Entries(seen) \subseteq Entries(shown)
    /\ seen.bar = "busy" => shown.bar = "busy"

LEMMA WithDoneProperties ==
    ASSUME NEW shown, ScreenInv(shown), NEW id
    PROVE  /\ Less(shown, WithDone(shown, id)) /\ WithDone(shown, id).bar = shown.bar
           /\ id # NoInstall => id \notin Entries(WithDone(shown, id))
           /\ id \in Entries(shown) \ {NoInstall} => Entries(WithDone(shown, id)) = Entries(shown) \ {id}
  <1> DEFINE left == IF id = NoInstall THEN shown.downloads ELSE Done(shown.downloads, id)
             seen == WithDone(shown, id)
  <1>1. shown \in Screens /\ shown.downloads \in Seq(Ids) /\ Distinct(shown.downloads)
        /\ (shown.dots <=> shown.downloads # <<>>)
    BY DEF ScreenInv, Screens
  <1>2. /\ left \in Seq(Ids) /\ Distinct(left)
        /\ ToSet(left) \subseteq ToSet(shown.downloads)
        /\ id # NoInstall => id \notin ToSet(left)
        /\ id \in ToSet(shown.downloads) /\ id # NoInstall => ToSet(left) = ToSet(shown.downloads) \ {id}
    BY <1>1, DoneProperties
  <1>3. left # <<>> => shown.downloads # <<>>
    <2>1. SUFFICES ASSUME shown.downloads = <<>> PROVE left = <<>>
      OBVIOUS
    <2>2. ToSet(left) = {}
      <3>1. ToSet(shown.downloads) = {}
        BY <2>1 DEF ToSet
      <3> QED
        BY <3>1, <1>2
    <2>3. DOMAIN left = {}
      BY <2>2 DEF ToSet
    <2> HIDE DEF left
    <2> QED
      BY <1>2, <2>3
  <1> HIDE DEF left
  <1>4. seen = [shown EXCEPT !.downloads = left, !.dots = @ /\ left # <<>>]
    BY DEF WithDone, left
  <1>5. seen.downloads = left /\ seen.bar = shown.bar /\ (seen.dots <=> left # <<>>) /\ seen \in Screens
    <2>1. seen.downloads = left /\ seen.bar = shown.bar
      BY <1>1, <1>4 DEF Screens
    <2>2. seen.dots = (shown.dots /\ left # <<>>)
      BY <1>1, <1>4 DEF Screens
    <2>3. seen.dots <=> left # <<>>
      BY <2>2, <1>1, <1>3, Zenon
    <2>4. seen \in Screens
      BY <1>1, <1>2, <1>4 DEF Screens
    <2> QED
      BY <2>1, <2>3, <2>4
  <1> HIDE DEF seen
  <1> QED
    BY <1>2, <1>5 DEF Less, ScreenInv, Entries, seen

\* An event of install id takes out its entry and no other.
Drops(shown, seen, id) == Less(shown, seen) /\ Entries(seen) = Entries(shown) \ {id}

LEMMA EntriesAreIds == ASSUME NEW shown, ScreenInv(shown) PROVE Entries(shown) \subseteq Ids
  BY DEF ScreenInv, Screens, Entries, ToSet

LEMMA LessDrops ==
    ASSUME NEW first, NEW second, NEW third, NEW id, Drops(first, second, id), Drops(second, third, id)
    PROVE  Drops(first, third, id)
  BY DEF Drops, Less

LEMMA OutputOfError ==
    ASSUME NEW shown, ScreenInv(shown), NEW id, NEW type \in {"Error", "FinalError"}
    PROVE  /\ Drops(shown, Output(shown, Event(type, id)), id)
           /\ Output(shown, Event(type, id)).bar = shown.bar
  <1>1. Output(shown, Event(type, id)) = IF id \in Entries(shown) THEN WithDone(shown, id) ELSE shown
    BY DEF Output, Event, Entries
  <1>2. id \in Entries(shown) => id # NoInstall
    BY EntriesAreIds, AcquisitionsAssumption
  <1> QED
    BY <1>1, <1>2, WithDoneProperties DEF Drops, Less

LEMMA OutputOfEnd ==
    ASSUME NEW shown, ScreenInv(shown), NEW id, NEW type \in {"Completed", "ExpectedAbort"}
    PROVE  /\ Less(shown, Output(shown, Event(type, id)))
           /\ id # NoInstall => id \notin Entries(Output(shown, Event(type, id)))
           /\ id \in Entries(shown) => Drops(shown, Output(shown, Event(type, id)), id)
           /\ Output(shown, Event(type, id)).bar = shown.bar
  <1>1. Output(shown, Event(type, id)) = WithDone(shown, id)
    BY DEF Output, Event
  <1>2. id \in Entries(shown) => id # NoInstall
    BY EntriesAreIds, AcquisitionsAssumption
  <1> QED
    BY <1>1, <1>2, WithDoneProperties DEF Drops

\* The status bar changes nothing else.
LEMMA BarProperties ==
    ASSUME NEW shown, NEW seen, ScreenInv(seen), NEW state \in {"hidden", "error"}
    PROVE  /\ [seen EXCEPT !.bar = state].bar = state
           /\ Less(shown, seen) => Less(shown, [seen EXCEPT !.bar = state])
           /\ Entries([seen EXCEPT !.bar = state]) = Entries(seen)
  <1> DEFINE after == [seen EXCEPT !.bar = state]
  <1>1. after \in Screens /\ after.bar = state /\ after.downloads = seen.downloads /\ after.dots = seen.dots
    BY DEF ScreenInv, Screens
  <1> HIDE DEF after
  <1>2. ScreenInv(after) /\ Entries(after) = Entries(seen)
    BY <1>1 DEF ScreenInv, Entries
  <1>3. Less(shown, seen) => Less(shown, after)
    BY <1>1, <1>2 DEF Less
  <1> QED
    BY <1>1, <1>2, <1>3 DEF after

LEMMA ErrorSeen ==
    ASSUME NEW shown, ScreenInv(shown), NEW id
    PROVE  /\ Drops(shown, Observed(shown, Event("Error", id)), id)
           /\ Observed(shown, Event("Error", id)).bar = "error"
  <1> DEFINE seen == Output(shown, Event("Error", id))
  <1>1. Drops(shown, seen, id)
    BY OutputOfError
  <1>2. Observed(shown, Event("Error", id)) = [seen EXCEPT !.bar = "error"]
    BY DEF Observed, Republished, StatusBar, Event
  <1> HIDE DEF seen
  <1>3. ScreenInv(seen) /\ Less(shown, seen) /\ Entries(seen) = Entries(shown) \ {id}
    BY <1>1 DEF Drops, Less
  <1>4. /\ [seen EXCEPT !.bar = "error"].bar = "error"
        /\ Less(shown, [seen EXCEPT !.bar = "error"])
        /\ Entries([seen EXCEPT !.bar = "error"]) = Entries(seen)
    BY <1>3, BarProperties
  <1> QED
    BY <1>2, <1>3, <1>4 DEF Drops

LEMMA FinalErrorSeen ==
    ASSUME NEW shown, ScreenInv(shown), NEW id
    PROVE  /\ Drops(shown, Observed(shown, Event("FinalError", id)), id)
           /\ Observed(shown, Event("FinalError", id)).bar = shown.bar
  <1> DEFINE e == Event("FinalError", id)
             once == Output(shown, e)
             twice == Output(once, e)
  <1>1. Drops(shown, once, id) /\ once.bar = shown.bar
    BY OutputOfError
  <1>2. ScreenInv(once)
    BY <1>1 DEF Drops, Less
  <1>3. Drops(once, twice, id) /\ twice.bar = shown.bar
    <2> HIDE DEF once
    <2> QED
      BY <1>1, <1>2, OutputOfError
  <1>4. Drops(shown, twice, id)
    BY <1>1, <1>3, LessDrops
  <1>5. Observed(shown, e) = IF verbose THEN twice ELSE once
    BY DEF Observed, Republished, StatusBar, Event
  <1> QED
    BY <1>1, <1>3, <1>4, <1>5

LEMMA ReportsSeen ==
    ASSUME NEW shown, ScreenInv(shown), NEW id
    PROVE  Drops(shown, Reports(shown, id), id) /\ Reports(shown, id).bar = "error"
  <1> DEFINE seen == Observed(shown, Event("Error", id))
  <1>1. Drops(shown, seen, id) /\ seen.bar = "error"
    BY ErrorSeen
  <1>2. ScreenInv(seen)
    BY <1>1 DEF Drops, Less
  <1>3. Reports(shown, id) = Observed(seen, Event("FinalError", id))
    BY DEF Reports
  <1> HIDE DEF seen
  <1> QED
    BY <1>1, <1>2, <1>3, FinalErrorSeen, LessDrops

LEMMA EndSeen ==
    ASSUME NEW shown, ScreenInv(shown), NEW id, NEW type \in {"Completed", "ExpectedAbort"}
    PROVE  /\ Less(shown, Observed(shown, Event(type, id)))
           /\ id # NoInstall => id \notin Entries(Observed(shown, Event(type, id)))
           /\ id \in Entries(shown) => Drops(shown, Observed(shown, Event(type, id)), id)
           /\ Observed(shown, Event(type, id)).bar = "hidden"
  <1> DEFINE seen == Output(shown, Event(type, id))
  <1>1. /\ Less(shown, seen)
        /\ id # NoInstall => id \notin Entries(seen)
        /\ id \in Entries(shown) => Drops(shown, seen, id)
    BY OutputOfEnd
  <1>2. Observed(shown, Event(type, id)) = [seen EXCEPT !.bar = "hidden"]
    BY DEF Observed, Republished, StatusBar, Event
  <1> HIDE DEF seen
  <1> QED
    BY <1>1, <1>2, BarProperties DEF Drops, Less

LEMMA StartSeen ==
    ASSUME NEW shown, ScreenInv(shown), NEW id \in Ids, id \notin Entries(shown)
    PROVE  /\ ScreenInv(Observed(shown, Event("Started", id)))
           /\ Entries(Observed(shown, Event("Started", id))) = Entries(shown) \cup {id}
  <1> DEFINE list == Append(shown.downloads, id)
             seen == Observed(shown, Event("Started", id))
  <1>1. shown \in Screens /\ shown.downloads \in Seq(Ids) /\ Distinct(shown.downloads)
    BY DEF ScreenInv, Screens
  <1>2. PICK n \in Nat : n = Len(shown.downloads)
    BY <1>1
  <1>3. DOMAIN shown.downloads = 1 .. n /\ list \in Seq(Ids) /\ DOMAIN list = 1 .. n + 1
        /\ list[n + 1] = id /\ \A k \in 1 .. n : list[k] = shown.downloads[k]
    BY <1>1, <1>2
  <1> HIDE DEF list
  <1>4. Distinct(list) /\ ToSet(list) = ToSet(shown.downloads) \cup {id} /\ list # <<>>
    <2>1. \A k \in 1 .. n : list[k] # id
      BY <1>3 DEF Entries, ToSet
    <2>2. Distinct(list)
      BY <1>1, <1>3, <2>1 DEF Distinct
    <2>3. ToSet(list) = ToSet(shown.downloads) \cup {id}
      BY <1>3 DEF ToSet
    <2> QED
      BY <1>3, <2>2, <2>3
  <1>5. seen = [[shown EXCEPT !.downloads = list, !.dots = TRUE] EXCEPT !.bar = "busy"]
    <2>1. Output(shown, Event("Started", id)) = [shown EXCEPT !.downloads = list, !.dots = TRUE]
      BY DEF Output, Event, list
    <2> QED
      BY <2>1 DEF Observed, Republished, StatusBar, Event
  <1>6. seen \in Screens /\ seen.downloads = list /\ seen.dots
    <2> DEFINE opened == [shown EXCEPT !.downloads = list, !.dots = TRUE]
    <2>1. opened \in Screens /\ opened.downloads = list /\ opened.dots
      BY <1>1, <1>3 DEF Screens
    <2>2. seen = [opened EXCEPT !.bar = "busy"]
      BY <1>5
    <2> HIDE DEF opened, seen
    <2> QED
      BY <2>1, <2>2 DEF Screens
  <1> HIDE DEF seen
  <1>7. ScreenInv(seen) /\ Entries(seen) = Entries(shown) \cup {id}
    BY <1>4, <1>6 DEF ScreenInv, Entries
  <1> QED
    BY <1>7 DEF seen

-----------------------------------------------------------------------------
(***************************************************************************)
(* The list and the acquisitions.  Each id is under way at most once, by the *)
(* lock of the install, so that the first error of an acquisition takes out *)
(* its own entry, and what it reports after that finds none.               *)
(***************************************************************************)
UnderWay == {IdOf[a] : a \in {b \in Acquisitions : caller[b] = "installing"}}

\* None of the causes that ListedCauses names.
NoCause ==
    /\ fellBack \cup early = {}
    /\ \A a \in Acquisitions : caller[a] \notin {"unresolved", "timedOut"}

\* Only what is under way is listed, and all of it but for a cause.
ListInv ==
    /\ ScreenInv(screen)
    /\ Entries(screen) \subseteq UnderWay
    /\ screen.bar = "busy" => UnderWay # {}
    /\ NoCause => UnderWay \subseteq Entries(screen)

\* What a step of acquisition a shows: it leaves its install, or none is taken up or
\* left, or it begins with one.
Leaves(a) ==
    /\ caller[a] = "installing" /\ caller'[a] # "installing"
    /\ Less(screen, screen') /\ screen'.bar # "busy" /\ IdOf[a] \notin Entries(screen')
    /\ NoCause' => Entries(screen') = Entries(screen) \ {IdOf[a]}

Stays(a) ==
    /\ caller'[a] = "installing" <=> caller[a] = "installing"
    /\ Less(screen, screen')
    /\ NoCause' => Entries(screen') = Entries(screen)

Starts(a) ==
    /\ caller[a] = "waiting" /\ caller'[a] = "installing"
    /\ installHolder[IdOf[a]] = Unheld
    /\ screen' = Observed(screen, Event("Started", IdOf[a]))

\* No cause goes away.
Remembers(a) ==
    /\ fellBack \subseteq fellBack' /\ early \subseteq early'
    /\ caller[a] \in {"unresolved", "timedOut"} => caller'[a] = caller[a]

LEMMA NoCauseBefore ==
    ASSUME NEW a \in Acquisitions, Apart(a), Remembers(a), NoCause'
    PROVE  NoCause
  BY DEF Apart, Remembers, NoCause

LEMMA UnderWayOf ==
    ASSUME ReportsInv, NEW a \in Acquisitions, Apart(a)
    PROVE  /\ (caller'[a] = "installing" <=> caller[a] = "installing") => UnderWay' = UnderWay
           /\ caller[a] = "installing" /\ caller'[a] # "installing" => UnderWay' = UnderWay \ {IdOf[a]}
           /\ caller[a] # "installing" /\ caller'[a] = "installing" => UnderWay' = UnderWay \cup {IdOf[a]}
           /\ installHolder[IdOf[a]] = Unheld => IdOf[a] \notin UnderWay
  <1>1. \A b \in Acquisitions : b # a => caller'[b] = caller[b]
    BY DEF Apart
  <1>2. \A b \in Acquisitions : caller[b] = "installing" => installHolder[IdOf[b]] = b
    BY DEF ReportsInv, ScriptInv
  <1>3. ASSUME caller[a] = "installing", caller'[a] # "installing" PROVE UnderWay' = UnderWay \ {IdOf[a]}
    <2>1. \A b \in Acquisitions : caller[b] = "installing" /\ b # a => IdOf[b] # IdOf[a]
      BY <1>2, <1>3
    <2> QED
      BY <1>1, <1>3, <2>1 DEF UnderWay
  <1>4. ASSUME caller[a] # "installing", caller'[a] = "installing" PROVE UnderWay' = UnderWay \cup {IdOf[a]}
    BY <1>1, <1>4 DEF UnderWay
  <1>5. ASSUME caller'[a] = "installing" <=> caller[a] = "installing" PROVE UnderWay' = UnderWay
    BY <1>1, <1>5 DEF UnderWay
  <1>6. installHolder[IdOf[a]] = Unheld => IdOf[a] \notin UnderWay
    BY <1>2, AcquisitionsAssumption DEF UnderWay
  <1> QED
    BY <1>3, <1>4, <1>5, <1>6

LEMMA ListInvKept ==
    ASSUME ReportsInv, ListInv, NEW a \in Acquisitions, Apart(a), Remembers(a),
           Leaves(a) \/ Stays(a) \/ Starts(a)
    PROVE  ListInv'
  <1>1. CASE Leaves(a)
    <2>1. UnderWay' = UnderWay \ {IdOf[a]}
      BY <1>1, UnderWayOf DEF Leaves
    <2> QED
      BY <1>1, <2>1, NoCauseBefore DEF Leaves, Less, ListInv, Entries
  <1>2. CASE Stays(a)
    <2>1. UnderWay' = UnderWay
      BY <1>2, UnderWayOf DEF Stays
    <2> QED
      BY <1>2, <2>1, NoCauseBefore DEF Stays, Less, ListInv, Entries
  <1>3. CASE Starts(a)
    <2>1. UnderWay' = UnderWay \cup {IdOf[a]} /\ IdOf[a] \notin UnderWay /\ IdOf[a] \in Ids
      BY <1>3, UnderWayOf, AcquisitionsAssumption DEF Starts
    <2>2. ScreenInv(screen') /\ Entries(screen') = Entries(screen) \cup {IdOf[a]}
      BY <1>3, <2>1, StartSeen DEF Starts, ListInv
    <2> QED
      BY <2>1, <2>2, NoCauseBefore DEF ListInv, Entries
  <1> QED
    BY <1>1, <1>2, <1>3

Shows(a) == Leaves(a) \/ Stays(a) \/ Starts(a)

LEMMA LessLess ==
    ASSUME NEW first, NEW second, NEW third, Less(first, second), Less(second, third)
    PROVE  Less(first, third)
  BY DEF Less

LEMMA ErrSeen ==
    ASSUME NEW shown, ScreenInv(shown), NEW a \in Acquisitions
    PROVE  Drops(shown, Err(shown, a), IdOf[a]) /\ Less(shown, Err(shown, a)) /\ ScreenInv(Err(shown, a))
  BY ErrorSeen DEF Err, Drops, Less

LEMMA CompletedSeen ==
    ASSUME NEW shown, ScreenInv(shown), NEW a \in Acquisitions
    PROVE  /\ Less(shown, Completed(shown, a)) /\ ScreenInv(Completed(shown, a))
           /\ IdOf[a] \notin Entries(Completed(shown, a))
           /\ IdOf[a] \in Entries(shown) => Drops(shown, Completed(shown, a), IdOf[a])
           /\ Completed(shown, a).bar = "hidden"
  <1>1. IdOf[a] # NoInstall
    BY AcquisitionsAssumption
  <1> QED
    BY <1>1, EndSeen DEF Completed, Less

\* A rejection, with whatever was shown before it.
LEMMA RejectsSeen ==
    ASSUME ReportsInv, ListInv, NEW a \in Acquisitions, NEW shown, Rejects(a, shown), Less(screen, shown),
           NoCause' => /\ caller[a] = "installing"
                       /\ Entries(shown) \ {IdOf[a]} = Entries(screen) \ {IdOf[a]}
    PROVE  Shows(a)
  <1>1. CASE caller[a] = "installing"
    <2>1. ScreenInv(shown)
      BY DEF Less
    <2>2. Drops(shown, Reports(shown, IdOf[a]), IdOf[a]) /\ Reports(shown, IdOf[a]).bar = "error"
      BY <2>1, ReportsSeen
    <2>3. screen' = Reports(shown, IdOf[a]) /\ caller'[a] = "failed"
      BY <1>1 DEF Rejects, Answers, ReportsInv
    <2>4. Less(screen, screen') /\ Entries(screen') = Entries(shown) \ {IdOf[a]}
      BY <2>2, <2>3, LessLess DEF Drops
    <2> QED
      BY <1>1, <2>2, <2>3, <2>4 DEF Shows, Leaves
  <1>2. CASE caller[a] # "installing"
    BY <1>2 DEF Rejects, Shows, Stays
  <1> QED
    BY <1>1, <1>2

\* An install that is completed has its entry taken out.
LEMMA ResolvesSeen ==
    ASSUME ReportsInv, ListInv, NEW a \in Acquisitions, Resolves(a, Completed(screen, a)),
           NoCause' => NoCause /\ caller[a] = "installing"
    PROVE  Shows(a)
  <1>1. /\ Less(screen, screen') /\ IdOf[a] \notin Entries(screen')
        /\ IdOf[a] \in Entries(screen) => Entries(screen') = Entries(screen) \ {IdOf[a]}
        /\ screen'.bar = "hidden"
    BY CompletedSeen DEF ListInv, Resolves, Drops
  <1>2. CASE caller[a] = "installing"
    <2>1. caller'[a] = "tracking"
      BY <1>2 DEF Resolves, ReportsInv
    <2>2. NoCause => IdOf[a] \in Entries(screen)
      BY <1>2 DEF ListInv, UnderWay
    <2> QED
      BY <1>1, <1>2, <2>1, <2>2 DEF Shows, Leaves
  <1>3. CASE caller[a] # "installing"
    BY <1>1, <1>3 DEF Resolves, Shows, Stays
  <1> QED
    BY <1>2, <1>3

\* A step that posts nothing.
LEMMA QuietSeen ==
    ASSUME ListInv, NEW a \in Acquisitions, UNCHANGED screen,
           caller'[a] = "installing" <=> caller[a] = "installing"
    PROVE  Shows(a)
  BY DEF ListInv, Shows, Stays, Less

LEMMA CallerShows ==
    ASSUME ReportsInv, ListInv, NEW a \in Acquisitions,
           Unresolved(a) \/ Ask(a) \/ LockWaitEnds(a) \/ Hold(a) \/ Tracks(a)
    PROVE  Remembers(a) /\ Shows(a)
  <1> USE DEF Answers, Runs, ReportsInv
  <1>0. ScreenInv(screen)
    BY DEF ListInv
  <1>1. CASE Unresolved(a)
    <2>1. caller'[a] = "unresolved" /\ caller[a] = "idle" /\ ~ NoCause' /\ Remembers(a)
      BY <1>1 DEF Unresolved, NoCause, Remembers
    <2>2. Less(screen, screen')
      <3> DEFINE abort == Event("ExpectedAbort", "version")
                 once == Observed(screen, abort)
                 twice == Observed(once, abort)
      <3>1. Less(screen, once) /\ ScreenInv(once)
        BY <1>0, EndSeen DEF Less
      <3>2. Less(once, twice) /\ ScreenInv(twice)
        <4> HIDE DEF once
        <4> QED
          BY <3>1, EndSeen DEF Less
      <3>3. screen' = Observed(twice, Event("FinalError", NoInstall))
        BY <1>1 DEF Unresolved
      <3> HIDE DEF once, twice
      <3>4. Less(twice, screen')
        BY <3>2, <3>3, FinalErrorSeen DEF Drops
      <3> QED
        BY <3>1, <3>2, <3>4, LessLess
    <2> QED
      BY <2>1, <2>2 DEF Shows, Stays
  <1>2. CASE Ask(a)
    BY <1>2, QuietSeen DEF Ask, Remembers
  <1>3. CASE LockWaitEnds(a)
    <2>1. caller'[a] = "timedOut" /\ caller[a] = "waiting" /\ ~ NoCause' /\ Remembers(a)
      BY <1>3 DEF LockWaitEnds, NoCause, Remembers
    <2>2. Less(screen, screen')
      BY <1>0, <1>3, ReportsSeen DEF LockWaitEnds, Drops
    <2> QED
      BY <2>1, <2>2 DEF Shows, Stays
  <1>4. CASE Hold(a)
    <2>0. caller[a] = "waiting" /\ installHolder[IdOf[a]] = Unheld /\ Remembers(a)
      BY <1>4 DEF Hold, Remembers
    <2>1. CASE Answers(a, "done") /\ UNCHANGED screen
      BY <2>0, <2>1, QuietSeen
    <2>2. CASE Answers(a, "installing") /\ screen' = Observed(screen, Event("Started", IdOf[a]))
      BY <2>0, <2>2 DEF Shows, Starts
    <2> QED
      BY <2>1, <2>2, <1>4 DEF Hold
  <1>5. CASE Tracks(a)
    <2>0. caller[a] = "tracking" /\ installHolder[IdOf[a]] = a /\ Remembers(a)
      BY <1>5 DEF Tracks, Remembers, ScriptInv
    <2>1. CASE Answers(a, "done") /\ UNCHANGED screen
      BY <2>0, <2>1, QuietSeen
    <2>2. CASE /\ Answers(a, "failed")
               /\ \E invalid \in BOOLEAN :
                    screen' = Reports(IF invalid THEN Err(screen, a) ELSE screen, IdOf[a])
      <3>1. PICK invalid \in BOOLEAN :
              screen' = Reports(IF invalid THEN Err(screen, a) ELSE screen, IdOf[a])
        BY <2>2
      <3>2. Drops(screen, Err(screen, a), IdOf[a]) /\ ScreenInv(Err(screen, a))
        BY <1>0, ErrSeen
      <3>3. Drops(screen, screen', IdOf[a])
        <4>1. CASE invalid
          <5>1. Drops(Err(screen, a), screen', IdOf[a])
            BY <4>1, <3>1, <3>2, ReportsSeen
          <5> QED
            BY <5>1, <3>2, LessDrops
        <4>2. CASE ~ invalid
          BY <4>2, <1>0, <3>1, ReportsSeen
        <4> QED
          BY <4>1, <4>2
      <3>4. IdOf[a] \notin Entries(screen)
        <4>1. \A b \in Acquisitions : caller[b] = "installing" => IdOf[b] # IdOf[a]
          BY <2>0 DEF ScriptInv
        <4> QED
          BY <4>1 DEF ListInv, UnderWay
      <3> QED
        BY <2>0, <2>2, <3>3, <3>4 DEF Shows, Stays, Drops
    <2> QED
      BY <2>1, <2>2, <1>5 DEF Tracks
  <1> QED
    BY <1>1, <1>2, <1>3, <1>4, <1>5

\* A script that goes on is that of an install under way, or PowerShell is a cause.
LEMMA GoesOn ==
    ASSUME ReportsInv, NEW a \in Acquisitions,
           script[a] \in {"command", "look", "run", "mode", "probing", "online"},
           early \subseteq early', NoCause'
    PROVE  caller[a] = "installing"
  BY DEF ReportsInv, ScriptInv, NoCause

LEMMA ConcludesShows ==
    ASSUME ReportsInv, ListInv, NEW a \in Acquisitions, NEW error, NEW rejected \in BOOLEAN,
           script[a] \in {"run", "mode"}, Apart(a), Remembers(a),
           Concludes(a, error, IF rejected THEN Err(screen, a) ELSE screen, rejected),
           early' = IF rejected THEN early \cup {a} ELSE early
    PROVE  Shows(a)
  <1> DEFINE shown == IF rejected THEN Err(screen, a) ELSE screen
             last == IF error = "none" THEN Completed(shown, a) ELSE shown
  <1>0. ScreenInv(screen)
    BY DEF ListInv
  <1>1. \/ rejected /\ Rejects(a, last)
        \/ ~rejected /\ error = "none" /\ Resolves(a, last)
        \/ ~rejected /\ error # "none" /\ screen' = last /\ UNCHANGED caller
    BY DEF Concludes
  <1>2. NoCause' => NoCause /\ caller[a] = "installing"
    BY NoCauseBefore, GoesOn DEF Remembers
  <1>3. CASE rejected
    <2>1. ~ NoCause'
      BY <1>3 DEF NoCause
    <2>2. Less(screen, shown) /\ ScreenInv(shown)
      BY <1>0, <1>3, ErrSeen
    <2>3. Less(screen, last)
      <3> HIDE DEF shown
      <3> QED
        BY <2>2, CompletedSeen, LessLess
    <2>4. Rejects(a, last)
      BY <1>1, <1>3
    <2> HIDE DEF last
    <2> QED
      BY <2>1, <2>3, <2>4, RejectsSeen
  <1>4. CASE ~rejected /\ error = "none"
    <2>1. Resolves(a, Completed(screen, a))
      BY <1>1, <1>4
    <2> QED
      BY <2>1, <1>2, ResolvesSeen
  <1>5. CASE ~rejected /\ error # "none"
    <2>1. UNCHANGED screen /\ UNCHANGED caller
      BY <1>1, <1>5
    <2> QED
      BY <2>1, QuietSeen
  <1> QED
    BY <1>3, <1>4, <1>5

LEMMA ScriptShows ==
    ASSUME ReportsInv, ListInv, NEW a \in Acquisitions,
           \/ Command(a) \/ LookAtDir(a) \/ ScriptEnds(a) \/ ModeKnown(a) \/ Probed(a)
           \/ OnlineKnown(a)
    PROVE  Remembers(a) /\ Shows(a)
  <1>0. ScreenInv(screen)
    BY DEF ListInv
  <1>1. Apart(a)
    BY ScriptStep
  <1>2. Drops(screen, Err(screen, a), IdOf[a]) /\ Less(screen, Err(screen, a)) /\ ScreenInv(Err(screen, a))
    BY <1>0, ErrSeen
  <1>3. \A shown : Resolves(a, shown) \/ Rejects(a, shown) =>
          (caller[a] \in {"unresolved", "timedOut"} => caller'[a] = caller[a])
    BY AnswerStep
  \* A rejection after one error.
  <1>4. ASSUME Rejects(a, Err(screen, a)), Remembers(a),
               script[a] \in {"command", "look", "run", "mode", "probing", "online"}
        PROVE  Shows(a)
    <2>1. NoCause' => caller[a] = "installing"
      BY <1>4, GoesOn DEF Remembers
    <2> QED
      BY <2>1, <1>2, <1>4, RejectsSeen DEF Drops
  <1>5. CASE Command(a)
    <2>0. script[a] = "command" /\ early' = early /\ fellBack \subseteq fellBack'
      BY <1>5 DEF Command
    <2>1. CASE UNCHANGED <<caller, screen>>
      BY <2>0, <2>1, QuietSeen DEF Remembers
    <2>2. CASE /\ fellBack' = fellBack \cup {a}
               /\ screen' = Err(screen, a) /\ UNCHANGED caller
      <3>1. ~ NoCause'
        BY <2>2 DEF NoCause
      <3> QED
        BY <2>0, <2>2, <3>1, <1>2 DEF Shows, Stays, Remembers
    <2>3. CASE Rejects(a, Err(screen, a))
      BY <2>0, <2>3, <1>3, <1>4 DEF Remembers
    <2> QED
      BY <2>1, <2>2, <2>3, <1>5 DEF Command
  <1>6. CASE LookAtDir(a)
    <2>0. script[a] = "look" /\ early' = early /\ fellBack' = fellBack
      BY <1>6 DEF LookAtDir
    <2>1. CASE Rejects(a, Err(Err(screen, a), a))
      <3>1. Remembers(a)
        BY <2>0, <2>1, <1>3 DEF Remembers
      <3>2. Drops(screen, Err(Err(screen, a), a), IdOf[a])
        BY <1>2, ErrSeen, LessDrops
      <3>3. NoCause' => caller[a] = "installing"
        BY <2>0, GoesOn
      <3> QED
        BY <2>1, <3>1, <3>2, <3>3, RejectsSeen DEF Drops
    <2>2. CASE Resolves(a, Completed(screen, a))
      <3>1. Remembers(a)
        BY <2>0, <2>2, <1>3 DEF Remembers
      <3>2. NoCause' => NoCause /\ caller[a] = "installing"
        BY <2>0, <3>1, <1>1, NoCauseBefore, GoesOn
      <3> QED
        BY <2>2, <3>1, <3>2, ResolvesSeen
    <2>3. CASE UNCHANGED <<caller, screen>>
      BY <2>0, <2>3, QuietSeen DEF Remembers
    <2> QED
      BY <2>1, <2>2, <2>3, <1>6 DEF LookAtDir
  <1>7. CASE ScriptEnds(a)
    <2>0. script[a] = "run" /\ fellBack' = fellBack
      BY <1>7 DEF ScriptEnds
    <2>1. PICK error \in Errors, policy \in BOOLEAN, suspect \in BOOLEAN :
            /\ early' = IF policy THEN early \cup {a} ELSE early
            /\ LET shown == IF policy THEN Err(screen, a) ELSE screen IN
               IF ~ suspect THEN Concludes(a, error, shown, policy)
               ELSE /\ Runs(a, "mode")
                    /\ IF policy THEN Rejects(a, shown)
                       ELSE UNCHANGED <<caller, installHolder, screen>>
      BY <1>7 DEF ScriptEnds
    <2>2. CASE ~ suspect
      <3>1. Concludes(a, error, IF policy THEN Err(screen, a) ELSE screen, policy)
        BY <2>1, <2>2
      <3>2. \/ \E shown : Resolves(a, shown) \/ Rejects(a, shown)
            \/ UNCHANGED caller
        BY <3>1 DEF Concludes
      <3>3. Remembers(a)
        BY <2>0, <2>1, <3>2, <1>3 DEF Remembers
      <3> QED
        BY <2>0, <2>1, <3>1, <3>3, <1>1, ConcludesShows
    <2>3. CASE suspect /\ policy
      <3>1. Rejects(a, Err(screen, a))
        BY <2>1, <2>3
      <3>2. Remembers(a)
        BY <2>0, <2>1, <2>3, <3>1, <1>3 DEF Remembers
      <3> QED
        BY <2>0, <3>1, <3>2, <1>4
    <2>4. CASE suspect /\ ~ policy
      BY <2>0, <2>1, <2>4, QuietSeen DEF Remembers
    <2> QED
      BY <2>2, <2>3, <2>4
  <1>8. CASE ModeKnown(a)
    <2>0. script[a] = "mode" /\ fellBack' = fellBack
      BY <1>8 DEF ModeKnown
    <2>1. PICK bad \in BOOLEAN :
            /\ early' = IF bad THEN early \cup {a} ELSE early
            /\ Concludes(a, failure[a], IF bad THEN Err(screen, a) ELSE screen, bad)
      BY <1>8 DEF ModeKnown
    <2>2. \/ \E shown : Resolves(a, shown) \/ Rejects(a, shown)
          \/ UNCHANGED caller
      BY <2>1 DEF Concludes
    <2>3. Remembers(a)
      BY <2>0, <2>1, <2>2, <1>3 DEF Remembers
    <2> QED
      BY <2>0, <2>1, <2>3, <1>1, ConcludesShows
  <1>9. CASE Probed(a)
    <2>0. script[a] = "probing" /\ early' = early /\ fellBack' = fellBack
      BY <1>9 DEF Probed
    <2>1. CASE UNCHANGED <<caller, screen>>
      BY <2>0, <2>1, QuietSeen DEF Remembers
    <2>2. CASE Rejects(a, Err(screen, a))
      BY <2>0, <2>2, <1>3, <1>4 DEF Remembers
    <2> QED
      BY <2>1, <2>2, <1>9 DEF Probed
  <1>10. CASE OnlineKnown(a)
    <2>0. /\ script[a] = "online" /\ early' = early /\ fellBack' = fellBack
          /\ Rejects(a, Err(screen, a))
      BY <1>10 DEF OnlineKnown
    <2> QED
      BY <2>0, <1>3, <1>4 DEF Remembers
  <1> QED
    BY <1>5, <1>6, <1>7, <1>8, <1>9, <1>10

-----------------------------------------------------------------------------
LEMMA ListInvStep == ReportsInv /\ ListInv /\ [ReportsNext]_reportVars => ListInv'
  <1> SUFFICES ASSUME ReportsInv, ListInv, [ReportsNext]_reportVars PROVE ListInv'
    OBVIOUS
  <1>1. CASE ReportsNext
    <2>1. PICK a \in Acquisitions : Apart(a) /\ Remembers(a) /\ Shows(a)
      BY <1>1, CallerStep, ScriptStep, CallerShows, ScriptShows DEF ReportsNext
    <2> QED
      BY <2>1, ListInvKept DEF Shows
  <1>2. CASE UNCHANGED reportVars
    BY <1>2 DEF reportVars, callVars, ListInv, UnderWay, NoCause, Entries, ScreenInv
  <1> QED
    BY <1>1, <1>2

LEMMA ListInvInit == ReportsInit => ReportsInv /\ ListInv
  <1> SUFFICES ASSUME ReportsInit PROVE ReportsInv /\ ListInv
    OBVIOUS
  <1>1. ReportsInv
    BY DEF ReportsInit, ReportsInv, ScriptInv
  <1>2. ScreenInv(screen) /\ Entries(screen) = {} /\ screen.bar = "hidden"
    BY DEF ReportsInit, ScreenInv, Screens, Entries, Distinct, ToSet
  <1>3. UnderWay = {}
    BY DEF ReportsInit, UnderWay
  <1> QED
    BY <1>1, <1>2, <1>3 DEF ListInv

\* Without a cause each install under way has one entry, and nothing else has one.
LEMMA ListedWithoutCause == ReportsInv /\ ListInv /\ NoCause => Listed
  <1> SUFFICES ASSUME ReportsInv, ListInv, NoCause, NEW i \in Ids
               PROVE  Cardinality({k \in DOMAIN screen.downloads : screen.downloads[k] = i})
                        = Cardinality({a \in Acquisitions : caller[a] = "installing" /\ IdOf[a] = i})
    BY DEF Listed
  <1> DEFINE places == {k \in DOMAIN screen.downloads : screen.downloads[k] = i}
             owners == {a \in Acquisitions : caller[a] = "installing" /\ IdOf[a] = i}
  <1>1. Distinct(screen.downloads) /\ Entries(screen) = UnderWay
    BY DEF ListInv, ScreenInv
  <1>2. \A k, j \in places : k = j
    BY <1>1 DEF Distinct
  <1>3. \A a, b \in owners : a = b
    BY DEF ReportsInv, ScriptInv
  <1>4. places # {} <=> owners # {}
    <2>1. places # {} <=> i \in Entries(screen)
      BY DEF Entries, ToSet
    <2>2. owners # {} <=> i \in UnderWay
      BY DEF UnderWay
    <2> QED
      BY <2>1, <2>2, <1>1
  <1> HIDE DEF places, owners
  <1>5. CASE places = {}
    BY <1>4, <1>5 DEF places, owners
  <1>6. CASE places # {}
    <2>1. PICK k \in places : places = {k}
      BY <1>2, <1>6
    <2>2. PICK a \in owners : owners = {a}
      BY <1>3, <1>4, <1>6
    <2> QED
      BY <2>1, <2>2, FS_Singleton DEF places, owners
  <1> QED
    BY <1>5, <1>6

\* The output channel lists each install that is under way once and nothing else, but
\* after a request that never began to install, a script that could not be
\* downloaded, or a callback that went on after it had rejected: the two or three
\* errors of one install take no other entry (OutputChannelObserver.post).
THEOREM DownloadsAreListed == ReportsSpec => []ListedCauses
  <1>1. ReportsInv /\ ListInv => ListedCauses
    BY ListedWithoutCause DEF ListedCauses, NoCause
  <1> QED
    BY <1>1, ListInvInit, ListInvStep, ReportsInvStep, PTL DEF ReportsSpec

\* When nobody acquires any more, no download is listed, no dots are printed and the
\* status bar is not busy, whatever was taken out of the list in between.
THEOREM NothingStays == ReportsSpec => []NothingLeft
  <1>1. ReportsInv /\ ListInv => NothingLeft
    <2> SUFFICES ASSUME ListInv PROVE NothingLeft
      OBVIOUS
    <2>1. ASSUME \A a \in Acquisitions : caller[a] \in CallerEnds \cup {"idle"}
          PROVE  screen.downloads = <<>> /\ screen.bar # "busy"
      <3>1. UnderWay = {}
        <4>1. \A a \in Acquisitions : caller[a] # "installing"
          BY <2>1 DEF CallerEnds
        <4> QED
          BY <4>1 DEF UnderWay
      <3>2. Entries(screen) = {} /\ screen.bar # "busy" /\ ScreenInv(screen)
        BY <3>1 DEF ListInv
      <3>3. screen.downloads \in Seq(Ids)
        BY <3>2 DEF ScreenInv, Screens
      <3>4. DOMAIN screen.downloads = {}
        BY <3>2, Zenon DEF Entries, ToSet
      <3>5. \A s \in Seq(Ids) : DOMAIN s = {} => s = <<>>
        OBVIOUS
      <3> QED
        BY <3>2, <3>3, <3>4, <3>5
    <2> QED
      BY <2>1 DEF NothingLeft, ListInv, ScreenInv
  <1> QED
    BY <1>1, ListInvInit, ListInvStep, ReportsInvStep, PTL DEF ReportsSpec

-----------------------------------------------------------------------------
(***************************************************************************)
(* The log: flushes take the buffer at once, and the chain keeps their order. *)
(***************************************************************************)
Batches == [events : Seq(Events), waiter : Waiters]

\* What the asker may rely on: nobody waits for an answer before asking, and what
\* was posted since is behind the batch that is awaited.
AskerInv ==
    /\ asker.upTo <= posted
    /\ asker.stage # "idle" => \A k \in DOMAIN log : log[k] > asker.upTo
    /\ \A c \in DOMAIN flushChain : flushChain[c].waiter = "asker" =>
         /\ asker.stage # "idle"
         /\ \A d \in c + 1 .. Len(flushChain) :
              \A k \in DOMAIN flushChain[d].events : flushChain[d].events[k] > asker.upTo

LogInv ==
    LogTypeOK /\ LogKeepsOrder /\ lostEvents \subseteq 1 .. posted /\ AskerInv /\ AskerFindsEvents

\* What is left of a chain without its first write.
LEMMA FirstRemoved ==
    ASSUME NEW T, NEW s \in Seq(T), s # <<>>
    PROVE  /\ RemoveAt(s, 1) \in Seq(T)
           /\ Len(RemoveAt(s, 1)) = Len(s) - 1
           /\ \A k \in 1 .. Len(s) - 1 : RemoveAt(s, 1)[k] = s[k + 1]
  <1>1. SubSeq(s, 1, 0) = <<>>
    OBVIOUS
  <1>2. /\ Tail(s) \in Seq(T) /\ Len(Tail(s)) = Len(s) - 1
        /\ \A k \in 1 .. Len(Tail(s)) : Tail(s)[k] = s[k + 1]
    BY HeadTailProperties
  <1>3. RemoveAt(s, 1) = <<>> \o Tail(s)
    BY <1>1, TailIsSubSeq DEF RemoveAt
  <1>4. RemoveAt(s, 1) = Tail(s)
    BY <1>2, <1>3
  <1> QED
    BY <1>2, <1>4

\* The events of a part, one by one.
LEMMA HeldByPart == \A e : e \in Held <=> \E p \in Parts : \E k \in DOMAIN Part(p) : Part(p)[k] = e
  BY DEF Held, ToSet

-----------------------------------------------------------------------------
\* The event that is posted is the last one of the last part.
LEMMA PostStep == LogInv /\ LogPost => LogInv'
  <1> SUFFICES ASSUME LogInv, LogPost PROVE LogInv'
    OBVIOUS
  <1> USE PostsAssumption DEF LogInv
  <1>1. posted \in Nat /\ posted + 1 \in Events /\ log \in Seq(Events)
    BY DEF LogTypeOK, LogPost, Events
  <1>2. /\ log' \in Seq(Events) /\ Len(log') = Len(log) + 1
        /\ log'[Len(log) + 1] = posted + 1
        /\ \A k \in 1 .. Len(log) : log'[k] = log[k]
    BY <1>1 DEF LogPost
  <1>3. LogTypeOK'
    BY <1>1, <1>2 DEF LogTypeOK, LogPost
  <1>4. LogKeepsOrder'
    <2>0. PICK last \in Nat : last = Len(flushChain) + 1
      BY DEF LogTypeOK
    <2>1. Len(flushChain) \in Nat /\ last \in Parts /\ Parts' = Parts /\ last # 0 /\ Part(last) = log /\ Part(last)' = log'
      BY <2>0 DEF LogTypeOK, LogPost, Parts, Part
    <2>2. \A p \in Parts : p # last => Part(p)' = Part(p)
      BY <2>0, <2>1 DEF LogPost, Parts, Part
    <2>3. \A p \in Parts : \A k \in DOMAIN Part(p) : Part(p)[k] \in 1 .. posted
      BY HeldByPart DEF LogKeepsOrder
    <2>4. \A p \in Parts : p <= last
      BY <2>0, <2>1 DEF Parts
    <2>5. ASSUME NEW p \in Parts, NEW q \in Parts, NEW i \in DOMAIN Part(p)', NEW k \in DOMAIN Part(q)',
                 p < q \/ (p = q /\ i < k)
          PROVE  Part(p)'[i] < Part(q)'[k]
      <3>0. p # last => i \in DOMAIN Part(p) /\ Part(p)'[i] = Part(p)[i]
        BY <2>2
      <3>1. CASE q = last /\ k = Len(log) + 1
        <4>1. Part(q)'[k] = posted + 1
          BY <3>1, <2>1, <1>2
        <4>2. Part(p)'[i] \in 1 .. posted
          <5>1. CASE p = last
            <6>1. i \in 1 .. Len(log)
              BY <5>1, <3>1, <2>5, <2>1, <1>1, <1>2
            <6> QED
              BY <6>1, <5>1, <2>1, <2>3, <1>1, <1>2
          <5>2. CASE p # last
            BY <5>2, <3>0, <2>3
          <5> QED
            BY <5>1, <5>2
        <4> QED
          BY <4>1, <4>2, <1>1
      <3>2. CASE ~ (q = last /\ k = Len(log) + 1)
        <4>1. k \in DOMAIN Part(q) /\ Part(q)'[k] = Part(q)[k]
          BY <3>2, <2>1, <2>2, <1>1, <1>2
        <4>2. i \in DOMAIN Part(p) /\ Part(p)'[i] = Part(p)[i]
          <5>1. CASE p = last
            <6>1. q = last
              BY <5>1, <2>5, <2>4, <2>1 DEF Parts
            <6>2. i \in 1 .. Len(log)
              BY <6>1, <5>1, <4>1, <2>5, <2>1, <1>1, <1>2
            <6> QED
              BY <6>2, <5>1, <2>1, <1>1, <1>2
          <5> QED
            BY <5>1, <3>0
        <4> QED
          BY <4>1, <4>2, <2>5 DEF LogKeepsOrder
      <3> QED
        BY <3>1, <3>2
    <2>6. Held' = Held \cup {posted + 1}
      <3>1. ToSet(log)' = ToSet(log) \cup {posted + 1}
        <4>1. ASSUME NEW e PROVE e \in ToSet(log)' <=> e \in ToSet(log) \cup {posted + 1}
          <5>1. DOMAIN log' = 1 .. Len(log) + 1 /\ DOMAIN log = 1 .. Len(log)
            BY <1>1, <1>2
          <5>2. Len(log) \in Nat
            BY <1>1
          <5> QED
            BY <5>1, <5>2, <1>2 DEF ToSet
        <4> QED
          BY <4>1
      <3>2. ASSUME NEW p \in Parts PROVE ToSet(Part(p))' = IF p = last THEN ToSet(log)' ELSE ToSet(Part(p))
        BY <2>1, <2>2
      <3>3. Held' = UNION {ToSet(Part(p))' : p \in Parts}
        BY <2>1 DEF Held
      <3>4. ASSUME NEW e PROVE e \in Held' <=> e \in Held \cup {posted + 1}
        BY <3>1, <3>2, <3>3, <2>1 DEF Held
      <3> QED
        BY <3>4
    <2>7. 1 .. posted + 1 = (1 .. posted) \cup {posted + 1} /\ posted + 1 \notin lostEvents
      BY <1>1
    <2>8. Held' = (1 .. posted') \ lostEvents'
      BY <2>6, <2>7 DEF LogKeepsOrder, LogPost
    <2> QED
      BY <2>1, <2>5, <2>8 DEF LogKeepsOrder
  <1>5. AskerInv'
    <2>1. asker.upTo \in Nat /\ asker.upTo <= posted /\ asker.upTo < posted + 1
      BY <1>1 DEF AskerInv, LogTypeOK
    <2>2. asker.stage # "idle" => \A k \in DOMAIN log' : log'[k] > asker.upTo
      <3>1. DOMAIN log' = 1 .. Len(log) + 1 /\ DOMAIN log = 1 .. Len(log) /\ Len(log) \in Nat
        BY <1>1, <1>2
      <3>2. ASSUME asker.stage # "idle", NEW k \in 1 .. Len(log) + 1 PROVE log'[k] > asker.upTo
        <4>1. CASE k = Len(log) + 1
          BY <4>1, <2>1, <1>2
        <4>2. CASE k # Len(log) + 1
          BY <4>2, <3>1, <3>2, <1>2 DEF AskerInv
        <4> QED
          BY <4>1, <4>2
      <3> QED
        BY <3>1, <3>2
    <2> QED
      BY <1>1, <2>1, <2>2 DEF AskerInv, LogPost
  <1>6. AskerFindsEvents'
    BY <1>1, <1>2 DEF AskerFindsEvents, LogPost, AskerInv, ToSet, LogTypeOK
  <1>7. (lostEvents \subseteq 1 .. posted)'
    BY <1>1 DEF LogPost
  <1> QED
    BY <1>3, <1>4, <1>5, <1>6, <1>7

-----------------------------------------------------------------------------
\* The buffer has become the last batch of the chain.
Taken(w) ==
    /\ flushChain' \in Seq(Batches) /\ log' = <<>>
    /\ Len(flushChain) \in Nat /\ Len(flushChain') = Len(flushChain) + 1
    /\ DOMAIN flushChain = 1 .. Len(flushChain) /\ DOMAIN flushChain' = 1 .. Len(flushChain) + 1
    /\ flushChain'[Len(flushChain) + 1].events = log
    /\ flushChain'[Len(flushChain) + 1].waiter = w
    /\ \A k \in 1 .. Len(flushChain) : flushChain'[k] = flushChain[k]

LEMMA TakesChain == ASSUME LogTypeOK, NEW w \in Waiters, TakesBuffer(w) PROVE Taken(w)
  <1>1. flushChain \in Seq(Batches) /\ [events |-> log, waiter |-> w] \in Batches
    BY DEF LogTypeOK, Batches
  <1>2. flushChain' = Append(flushChain, [events |-> log, waiter |-> w]) /\ log' = <<>>
    BY DEF TakesBuffer
  <1>3. flushChain' \in Seq(Batches) /\ Len(flushChain) \in Nat /\ Len(flushChain') = Len(flushChain) + 1
    BY <1>1, <1>2
  <1>4. flushChain'[Len(flushChain) + 1] = [events |-> log, waiter |-> w]
        /\ \A k \in 1 .. Len(flushChain) : flushChain'[k] = flushChain[k]
    BY <1>1, <1>2
  <1> QED
    BY <1>1, <1>2, <1>3, <1>4 DEF Taken

\* Another part is between the chain and the buffer, which is empty.
LEMMA TakesKeepsOrder ==
    ASSUME LogInv, NEW w \in Waiters, TakesBuffer(w), UNCHANGED <<posted, logFile, lostEvents>>
    PROVE  LogKeepsOrder'
  <1> LogTypeOK /\ Taken(w)
    BY TakesChain DEF LogInv
  <1>0. PICK last \in Nat : last = Len(flushChain) + 1
    BY DEF LogInv, LogTypeOK
  <1>1. /\ Parts = 0 .. last /\ Parts' = 0 .. last + 1
        /\ \A p \in Parts : Part(p)' = Part(p)
        /\ Part(last + 1)' = <<>>
    BY <1>0 DEF Taken, Parts, Part
  <1>2. Held' = Held
    <2>1. ASSUME NEW e PROVE e \in Held' <=> e \in Held
      <3>1. e \in Held' <=> \E p \in Parts' : e \in ToSet(Part(p))'
        BY DEF Held
      <3>2. e \in Held <=> \E p \in Parts : e \in ToSet(Part(p))
        BY DEF Held
      <3>3. e \notin ToSet(Part(last + 1))'
        BY <1>1 DEF ToSet
      <3>4. \A p \in Parts : ToSet(Part(p))' = ToSet(Part(p))
        BY <1>1
      <3> QED
        BY <3>1, <3>2, <3>3, <3>4, <1>1
    <2> QED
      BY <2>1
  <1>3. ASSUME NEW p \in Parts', NEW q \in Parts', NEW i \in DOMAIN Part(p)', NEW k \in DOMAIN Part(q)',
               p < q \/ (p = q /\ i < k)
        PROVE  Part(p)'[i] < Part(q)'[k]
    <2>1. p # last + 1 /\ q # last + 1
      BY <1>1, <1>3
    <2> QED
      BY <2>1, <1>1, <1>3 DEF LogInv, LogKeepsOrder
  <1> QED
    BY <1>2, <1>3 DEF LogInv, LogKeepsOrder

\* A flush that the asker does not wait for.
LEMMA TakesStep ==
    ASSUME LogInv, NEW w \in Waiters \ {"asker"}, TakesBuffer(w),
           UNCHANGED <<posted, logFile, lostEvents, asker>>,
           flushTimer' \in {"armed", "flushing", "rest"}, periodic' \in BOOLEAN,
           closing' \in {"no", "waiting", "closed"}
    PROVE  LogInv'
  <1> LogTypeOK /\ Taken(w) /\ AskerInv
    BY TakesChain DEF LogInv
  <1>1. LogKeepsOrder'
    BY TakesKeepsOrder
  <1>2. LogTypeOK'
    BY DEF LogTypeOK, Taken, Batches
  <1>3. AskerInv'
    <2>2. ASSUME NEW c \in DOMAIN flushChain', flushChain'[c].waiter = "asker"
          PROVE  /\ c \in 1 .. Len(flushChain) /\ c \in DOMAIN flushChain /\ flushChain[c].waiter = "asker"
                 /\ asker.stage # "idle"
      BY <2>2 DEF Taken, AskerInv
    <2>3. ASSUME NEW c \in DOMAIN flushChain', flushChain'[c].waiter = "asker",
                 NEW d \in c + 1 .. Len(flushChain'), NEW k \in DOMAIN flushChain'[d].events
          PROVE  flushChain'[d].events[k] > asker.upTo
      <3>1. CASE d = Len(flushChain) + 1
        BY <3>1, <2>2, <2>3 DEF Taken, AskerInv
      <3>2. CASE d # Len(flushChain) + 1
        BY <3>2, <2>2, <2>3 DEF Taken, AskerInv
      <3> QED
        BY <3>1, <3>2
    <2> QED
      BY <2>2, <2>3 DEF Taken, AskerInv
  <1>4. AskerFindsEvents'
    BY DEF Taken, LogInv, AskerFindsEvents, ToSet
  <1> QED
    BY <1>1, <1>2, <1>3, <1>4 DEF LogInv

\* Who asks waits for the last batch of the chain, or finds the buffer empty.
LEMMA AskStep == LogInv /\ AskLog => LogInv'
  <1> SUFFICES ASSUME LogInv, AskLog PROVE LogInv'
    OBVIOUS
  <1>0. LogTypeOK /\ LogKeepsOrder /\ AskerInv /\ posted \in Nat
    BY DEF LogInv, LogTypeOK
  <1>1. asker.stage = "idle" /\ asker'.upTo = posted
        /\ asker' \in [stage : {"idle", "waiting", "answered"}, upTo : 0 .. MaxPosts, hadNone : BOOLEAN]
    BY <1>0 DEF AskLog, LogTypeOK
  <1>2. CASE TakesBuffer("asker")
    <2>0. "asker" \in Waiters /\ log # <<>>
      BY <1>2 DEF Waiters, TakesBuffer
    <2> Taken("asker")
      BY <1>0, <1>2, <2>0, TakesChain
    <2>1. LogKeepsOrder'
      BY <1>2, <2>0, TakesKeepsOrder DEF AskLog
    <2>2. LogTypeOK'
      BY <1>0, <1>1 DEF AskLog, LogTypeOK, Taken, Batches
    <2>3. asker'.stage = "waiting"
      BY <2>0 DEF AskLog
    <2>4. AskerInv'
      <3>1. \A c \in DOMAIN flushChain' : flushChain'[c].waiter = "asker" => c = Len(flushChain')
        BY <1>0, <1>1 DEF Taken, AskerInv
      <3>2. log' = <<>> /\ posted' = posted /\ Len(flushChain') \in Nat
        BY DEF AskLog, Taken
      <3> QED
        BY <1>0, <1>1, <2>3, <3>1, <3>2 DEF AskerInv
    <2>5. AskerFindsEvents'
      BY <2>3 DEF AskerFindsEvents
    <2> QED
      BY <2>1, <2>2, <2>4, <2>5 DEF LogInv, AskLog
  <1>3. CASE FindsNothing
    <2>1. LogTypeOK'
      BY <1>0, <1>1, <1>3 DEF AskLog, LogTypeOK, FindsNothing
    <2>2. LogKeepsOrder'
      <3>1. Parts' = Parts /\ \A p \in Parts : Part(p)' = Part(p)
        <4>1. log' = log /\ flushChain' = flushChain /\ logFile' = logFile
          BY <1>3 DEF AskLog, FindsNothing
        <4> QED
          BY <4>1 DEF Parts, Part
      <3>2. Held' = Held
        BY <3>1 DEF Held
      <3> QED
        BY <1>0, <3>1, <3>2 DEF AskLog, LogKeepsOrder
    <2>3. AskerInv'
      <3>1. log' = <<>> /\ flushChain' = flushChain /\ posted' = posted
        BY <1>3 DEF AskLog, FindsNothing
      <3> QED
        BY <1>0, <1>1, <3>1 DEF AskerInv
    <2>4. AskerFindsEvents'
      <3>1. log' = <<>> /\ log = <<>>
        BY <1>3 DEF FindsNothing
      <3>2. asker'.hadNone
        BY <3>1 DEF AskLog
      <3> QED
        BY <3>1, <3>2 DEF AskerFindsEvents, ToSet
    <2> QED
      BY <2>1, <2>2, <2>3, <2>4 DEF LogInv, AskLog
  <1> QED
    BY <1>2, <1>3 DEF AskLog

-----------------------------------------------------------------------------
\* The first n events of the first batch are in the file, and the batch is off the
\* chain.
Written(n) ==
    /\ logFile' \in Seq(Events) /\ Len(logFile') = Len(logFile) + n
    /\ \A k \in 1 .. Len(logFile) : logFile'[k] = logFile[k]
    /\ \A k \in 1 .. n : logFile'[Len(logFile) + k] = flushChain[1].events[k]
    /\ lostEvents' = lostEvents \cup {flushChain[1].events[k] : k \in n + 1 .. Len(flushChain[1].events)}
    /\ flushChain' \in Seq(Batches) /\ Len(flushChain') = Len(flushChain) - 1
    /\ \A k \in 1 .. Len(flushChain) - 1 : flushChain'[k] = flushChain[k + 1]

LEMMA WriteWrites ==
    ASSUME LogTypeOK, Write
    PROVE  /\ flushChain # <<>> /\ flushChain[1] \in Batches
           /\ \E n \in 0 .. Len(flushChain[1].events) : Written(n)
  <1> DEFINE batch == flushChain[1].events
  <1>1. flushChain \in Seq(Batches) /\ logFile \in Seq(Events)
    BY DEF LogTypeOK, Batches
  <1>2. flushChain # <<>> /\ flushChain[1] \in Batches
    BY <1>1 DEF Write, WriteAt
  <1>3. batch \in Seq(Events)
    BY <1>2 DEF Batches
  <1>4. PICK n \in 0 .. Len(batch) :
          /\ logFile' = logFile \o SubSeq(batch, 1, n)
          /\ lostEvents' = lostEvents \cup {batch[k] : k \in n + 1 .. Len(batch)}
    BY DEF Write, WriteAt
  <1> HIDE DEF batch
  <1>5. n \in Nat /\ SubSeq(batch, 1, n) \in Seq(Events) /\ Len(SubSeq(batch, 1, n)) = n
        /\ \A k \in 1 .. n : SubSeq(batch, 1, n)[k] = batch[k]
    <2>1. Len(batch) \in Nat /\ n \in Int /\ n >= 0 /\ \A k \in 1 .. n : batch[k] \in Events
      BY <1>3
    <2>2. /\ SubSeq(batch, 1, n) \in Seq(Events)
          /\ Len(SubSeq(batch, 1, n)) = IF 1 <= n THEN n - 1 + 1 ELSE 0
          /\ \A k \in 1 .. n - 1 + 1 : SubSeq(batch, 1, n)[k] = batch[1 + k - 1]
      BY <2>1, SubSeqProperties
    <2> QED
      BY <2>1, <2>2
  <1>6. logFile' \in Seq(Events) /\ Len(logFile') = Len(logFile) + n
    BY <1>1, <1>4, <1>5
  <1>7. \A k \in 1 .. Len(logFile) : logFile'[k] = logFile[k]
    BY <1>1, <1>4, <1>5
  <1>8. \A k \in 1 .. n : logFile'[Len(logFile) + k] = batch[k]
    BY <1>1, <1>4, <1>5
  <1>9. flushChain' = RemoveAt(flushChain, 1)
    BY DEF Write, WriteAt
  <1>10. flushChain' \in Seq(Batches) /\ Len(flushChain') = Len(flushChain) - 1
         /\ \A k \in 1 .. Len(flushChain) - 1 : flushChain'[k] = flushChain[k + 1]
    BY <1>1, <1>2, <1>9, FirstRemoved
  <1>11. Written(n)
    BY <1>4, <1>6, <1>7, <1>8, <1>10 DEF Written, batch
  <1> QED
    BY <1>2, <1>11 DEF batch

\* Where an event of a part has been before the write.
LEMMA FromPart ==
    ASSUME LogInv, flushChain # <<>>, flushChain[1] \in Batches,
           NEW n \in 0 .. Len(flushChain[1].events), Written(n), log' = log
    PROVE  /\ Parts = 0 .. Len(flushChain) + 1 /\ Parts' = 0 .. Len(flushChain) /\ Len(flushChain) \in Nat \ {0}
           /\ \A p \in Parts' \ {0} : p + 1 \in Parts /\ Part(p)' = Part(p + 1)
           /\ DOMAIN Part(0) = 1 .. Len(logFile) /\ DOMAIN Part(0)' = 1 .. Len(logFile) + n
           /\ Len(logFile) \in Nat
           /\ \A k \in 1 .. Len(logFile) : Part(0)'[k] = Part(0)[k]
           /\ DOMAIN Part(1) = 1 .. Len(flushChain[1].events) /\ Len(flushChain[1].events) \in Nat
           /\ \A k \in 1 .. n : Part(0)'[Len(logFile) + k] = Part(1)[k]
           /\ lostEvents' = lostEvents \cup {Part(1)[k] : k \in n + 1 .. Len(flushChain[1].events)}
  <1>1. flushChain \in Seq(Batches) /\ logFile \in Seq(Events) /\ flushChain[1].events \in Seq(Events)
    BY DEF LogInv, LogTypeOK, Batches
  <1>2. Len(flushChain) \in Nat \ {0} /\ Len(flushChain') = Len(flushChain) - 1
    BY <1>1 DEF Written
  <1>3. Part(0) = logFile /\ Part(0)' = logFile' /\ Part(1) = flushChain[1].events
    BY <1>2 DEF Part
  <1>4. Parts = 0 .. Len(flushChain) + 1 /\ Parts' = 0 .. Len(flushChain)
    BY <1>2 DEF Parts
  <1>5. ASSUME NEW p \in Parts' \ {0} PROVE p + 1 \in Parts /\ Part(p)' = Part(p + 1)
    BY <1>2, <1>4 DEF Part, Written
  <1>6. DOMAIN logFile = 1 .. Len(logFile) /\ Len(logFile) \in Nat /\ DOMAIN logFile' = 1 .. Len(logFile) + n
    BY <1>1 DEF Written
  <1>7. DOMAIN flushChain[1].events = 1 .. Len(flushChain[1].events) /\ Len(flushChain[1].events) \in Nat
    BY <1>1
  <1> QED
    BY <1>2, <1>3, <1>4, <1>5, <1>6, <1>7 DEF Written

\* The first batch moves to the file, but for a part that is lost.
LEMMA WriteKeepsOrder ==
    ASSUME LogInv, flushChain # <<>>, flushChain[1] \in Batches,
           NEW n \in 0 .. Len(flushChain[1].events), Written(n), UNCHANGED <<posted, log>>
    PROVE  LogKeepsOrder' /\ lostEvents' \subseteq 1 .. posted
  <1>1. PICK l \in Nat : l = Len(logFile)
    BY FromPart
  <1>2. PICK m \in Nat : m = Len(flushChain[1].events)
    BY FromPart
  <1>3. PICK last \in Nat \ {0} : last = Len(flushChain)
    BY FromPart
  <1>4. /\ Parts = 0 .. last + 1 /\ Parts' = 0 .. last
        /\ \A p \in Parts' \ {0} : p + 1 \in Parts /\ Part(p)' = Part(p + 1)
        /\ DOMAIN Part(0) = 1 .. l /\ DOMAIN Part(0)' = 1 .. l + n
        /\ \A k \in 1 .. l : Part(0)'[k] = Part(0)[k]
        /\ DOMAIN Part(1) = 1 .. m /\ n \in 0 .. m
        /\ \A k \in 1 .. n : Part(0)'[l + k] = Part(1)[k]
        /\ lostEvents' = lostEvents \cup {Part(1)[k] : k \in n + 1 .. m}
    BY <1>1, <1>2, <1>3, FromPart
  <1>5. ASSUME NEW p \in Parts, NEW q \in Parts, NEW i \in DOMAIN Part(p), NEW k \in DOMAIN Part(q),
               p < q \/ (p = q /\ i < k)
        PROVE  Part(p)[i] < Part(q)[k]
    BY <1>5 DEF LogInv, LogKeepsOrder
  <1>6. \A p \in Parts : \A k \in DOMAIN Part(p) : Part(p)[k] \in 1 .. posted
    BY HeldByPart DEF LogInv, LogKeepsOrder
  <1>7. Held = (1 .. posted) \ lostEvents /\ lostEvents \subseteq 1 .. posted /\ posted \in Nat /\ posted' = posted
    BY DEF LogInv, LogKeepsOrder, LogTypeOK
  <1> HIDE DEF LogInv
  \* An event of the file was in the file or in the first batch.
  <1>8. ASSUME NEW i \in DOMAIN Part(0)'
        PROVE  \/ i \in 1 .. l /\ i \in DOMAIN Part(0) /\ Part(0)'[i] = Part(0)[i]
               \/ i > l /\ i - l \in 1 .. n /\ i - l \in DOMAIN Part(1) /\ Part(0)'[i] = Part(1)[i - l]
    <2>1. CASE i \in 1 .. l
      BY <2>1, <1>4
    <2>2. CASE i \notin 1 .. l
      <3>1. i - l \in 1 .. n /\ i = l + (i - l) /\ i > l
        BY <2>2, <1>4, <1>8
      <3> QED
        BY <3>1, <1>4
    <2> QED
      BY <2>1, <2>2
  <1>9. ASSUME NEW p \in Parts', NEW q \in Parts', NEW i \in DOMAIN Part(p)', NEW k \in DOMAIN Part(q)',
               p < q \/ (p = q /\ i < k)
        PROVE  Part(p)'[i] < Part(q)'[k]
    <2>0. 0 \in Parts /\ 1 \in Parts /\ p \in Nat /\ q \in Nat
      BY <1>4, <1>3
    <2>1. CASE p # 0
      <3>1. q # 0
        BY <2>1, <2>0, <1>9
      <3> QED
        BY <2>1, <3>1, <2>0, <1>9, <1>4, <1>5
    <2>2. CASE p = 0 /\ q # 0
      <3>1. q + 1 \in Parts /\ Part(q)' = Part(q + 1) /\ 1 < q + 1 /\ 0 < q + 1
        BY <2>2, <2>0, <1>4
      <3>2. k \in DOMAIN Part(q + 1)
        BY <3>1
      <3>3. CASE i \in 1 .. l /\ i \in DOMAIN Part(0) /\ Part(0)'[i] = Part(0)[i]
        BY <2>2, <3>1, <3>2, <3>3, <2>0, <1>5
      <3>4. CASE i - l \in DOMAIN Part(1) /\ Part(0)'[i] = Part(1)[i - l]
        BY <2>2, <3>1, <3>2, <3>4, <2>0, <1>5
      <3> QED
        BY <3>3, <3>4, <2>2, <1>8
    <2>3. CASE p = 0 /\ q = 0
      <3>1. i < k /\ i \in DOMAIN Part(0)' /\ k \in DOMAIN Part(0)' /\ i \in Nat /\ k \in Nat
        BY <2>3, <1>9, <1>4
      <3>2. CASE k \in 1 .. l
        <4>1. i \in 1 .. l
          BY <3>1, <3>2
        <4> QED
          BY <4>1, <3>1, <3>2, <2>0, <2>3, <1>4, <1>5
      <3>3. CASE k > l /\ k - l \in DOMAIN Part(1) /\ Part(0)'[k] = Part(1)[k - l]
        <4>1. CASE i \in DOMAIN Part(0) /\ Part(0)'[i] = Part(0)[i]
          BY <4>1, <3>3, <2>0, <2>3, <1>5
        <4>2. CASE i > l /\ i - l \in DOMAIN Part(1) /\ Part(0)'[i] = Part(1)[i - l]
          <5>1. i - l < k - l
            BY <3>1
          <5> QED
            BY <4>2, <5>1, <3>3, <2>0, <2>3, <1>5
        <4> QED
          BY <4>1, <4>2, <3>1, <1>8
      <3> QED
        BY <3>1, <3>2, <3>3, <1>8
    <2> QED
      BY <2>1, <2>2, <2>3
  \* What is lost is nowhere, and all else is where it was or one part before.
  <1>10. ASSUME NEW e PROVE e \in Held' <=> e \in Held /\ e \notin {Part(1)[k] : k \in n + 1 .. m}
    <2>0. 0 \in Parts /\ 1 \in Parts /\ 0 \in Parts'
      BY <1>4, <1>3
    <2>1. e \in Held' <=> \E p \in Parts' : \E k \in DOMAIN Part(p)' : Part(p)'[k] = e
      BY DEF Held, ToSet
    <2>2. ASSUME NEW p \in Parts', NEW i \in DOMAIN Part(p)', Part(p)'[i] = e
          PROVE  e \in Held /\ e \notin {Part(1)[k] : k \in n + 1 .. m}
      <3>0. ASSUME NEW q \in Parts, NEW k \in DOMAIN Part(q), Part(q)[k] = e, q # 1 \/ k <= n
            PROVE  e \in Held /\ e \notin {Part(1)[j] : j \in n + 1 .. m}
        <4>1. e \in Held
          BY <3>0, HeldByPart
        <4>2. ASSUME NEW j \in n + 1 .. m PROVE Part(1)[j] # e
          <5>1. j \in DOMAIN Part(1) /\ q \in Nat /\ (q < 1 \/ q = 1 \/ 1 < q)
            BY <1>4, <1>3
          <5>2. CASE q = 1
            <6>1. k < j
              BY <5>2, <3>0, <1>4
            <6> QED
              BY <6>1, <5>1, <5>2, <3>0, <2>0, <1>5, <1>6
          <5>3. CASE q < 1
            BY <5>3, <5>1, <3>0, <2>0, <1>5, <1>6
          <5>4. CASE 1 < q
            BY <5>4, <5>1, <3>0, <2>0, <1>5, <1>6
          <5> QED
            BY <5>1, <5>2, <5>3, <5>4
        <4> QED
          BY <4>1, <4>2
      <3>1. CASE p # 0
        <4>1. p + 1 \in Parts /\ Part(p)' = Part(p + 1) /\ p + 1 # 1
          BY <3>1, <1>4
        <4> QED
          BY <4>1, <2>2, <3>0
      <3>2. CASE p = 0
        <4>1. CASE i \in DOMAIN Part(0) /\ Part(0)'[i] = Part(0)[i]
          BY <4>1, <3>2, <2>2, <3>0, <2>0
        <4>2. CASE i - l \in 1 .. n /\ i - l \in DOMAIN Part(1) /\ Part(0)'[i] = Part(1)[i - l]
          BY <4>2, <3>2, <2>2, <3>0, <2>0
        <4> QED
          BY <4>1, <4>2, <3>2, <1>8
      <3> QED
        BY <3>1, <3>2
    <2>3. ASSUME e \in Held, e \notin {Part(1)[k] : k \in n + 1 .. m}
          PROVE  \E p \in Parts' : \E k \in DOMAIN Part(p)' : Part(p)'[k] = e
      <3>1. PICK q \in Parts : \E k \in DOMAIN Part(q) : Part(q)[k] = e
        BY <2>3, HeldByPart
      <3>2. PICK k \in DOMAIN Part(q) : Part(q)[k] = e
        BY <3>1
      <3>3. CASE q = 0
        <4>1. k \in 1 .. l + n /\ Part(0)'[k] = e
          BY <3>3, <3>2, <1>4
        <4> QED
          BY <4>1, <2>0, <1>4
      <3>4. CASE q = 1
        <4>1. k \in 1 .. n
          BY <3>4, <3>2, <2>3, <1>4
        <4>2. l + k \in 1 .. l + n /\ Part(0)'[l + k] = e
          BY <4>1, <3>4, <3>2, <1>4
        <4> QED
          BY <4>2, <2>0, <1>4
      <3>5. CASE q # 0 /\ q # 1
        <4>1. q - 1 \in Parts' \ {0} /\ (q - 1) + 1 = q
          BY <3>5, <1>4, <1>3
        <4>2. Part(q - 1)' = Part(q)
          BY <4>1, <1>4
        <4> QED
          BY <4>1, <4>2, <3>2
      <3> QED
        BY <3>3, <3>4, <3>5
    <2> QED
      BY <2>1, <2>2, <2>3
  <1>11. {Part(1)[k] : k \in n + 1 .. m} \subseteq 1 .. posted
    <2>1. ASSUME NEW k \in n + 1 .. m PROVE 1 \in Parts /\ k \in DOMAIN Part(1)
      BY <1>3, <1>4
    <2> QED
      BY <2>1, <1>6
  <1>12. Held' = (1 .. posted') \ lostEvents'
    BY <1>4, <1>7, <1>10
  <1> QED
    BY <1>4, <1>7, <1>9, <1>11, <1>12 DEF LogKeepsOrder

\* When the asker's own batch is written, all of before is in the file or lost: what
\* is still to be written is later.
LEMMA WriteStep == LogInv /\ Write => LogInv'
  <1> SUFFICES ASSUME LogInv, Write PROVE LogInv'
    OBVIOUS
  <1>0. LogTypeOK /\ AskerInv /\ AskerFindsEvents /\ LogKeepsOrder
    BY DEF LogInv
  <1>1. /\ flushChain # <<>> /\ flushChain[1] \in Batches
        /\ \E n \in 0 .. Len(flushChain[1].events) : Written(n)
    BY <1>0, WriteWrites
  <1>2. PICK n \in 0 .. Len(flushChain[1].events) : Written(n)
    BY <1>1
  <1>3. posted' = posted /\ log' = log /\ periodic' = periodic
    BY DEF Write, WriteAt
  <1>4. /\ flushTimer' \in {"armed", "flushing", "rest"}
        /\ closing' \in {"no", "waiting", "closed"}
        /\ asker' = asker \/ (flushChain[1].waiter = "asker" /\ asker' = [asker EXCEPT !.stage = "answered"])
    <2>1. flushChain[1].waiter \in {"nobody", "timer", "asker", "shutdown"}
      BY <1>1 DEF Batches, Waiters
    <2>2. CASE flushChain[1].waiter = "timer"
      BY <2>2, <1>0 DEF Write, WriteAt, Reschedules, LogTypeOK
    <2>3. CASE flushChain[1].waiter = "asker"
      BY <2>3, <1>0 DEF Write, WriteAt, LogTypeOK
    <2>4. CASE flushChain[1].waiter = "shutdown"
      BY <2>4, <1>0 DEF Write, WriteAt, LogTypeOK
    <2>5. CASE flushChain[1].waiter = "nobody"
      BY <2>5, <1>0 DEF Write, WriteAt, LogTypeOK
    <2> QED
      BY <2>1, <2>2, <2>3, <2>4, <2>5
  <1>5. LogKeepsOrder' /\ (lostEvents \subseteq 1 .. posted)'
    BY <1>1, <1>2, <1>3, WriteKeepsOrder
  <1>6. LogTypeOK'
    <2>1. lostEvents' \subseteq Events
      BY <1>0, <1>3, <1>5, PostsAssumption DEF LogTypeOK, Events
    <2>2. logFile' \in Seq(Events) /\ flushChain' \in Seq(Batches)
      BY <1>2 DEF Written
    <2>3. asker' \in [stage : {"idle", "waiting", "answered"}, upTo : 0 .. MaxPosts, hadNone : BOOLEAN]
      BY <1>0, <1>4 DEF LogTypeOK
    <2> QED
      BY <1>0, <1>3, <1>4, <2>1, <2>2, <2>3 DEF LogTypeOK, Batches
  <1>7. asker'.upTo = asker.upTo /\ asker'.hadNone = asker.hadNone
        /\ (asker'.stage = asker.stage \/ (flushChain[1].waiter = "asker" /\ asker'.stage = "answered"))
    BY <1>0, <1>4 DEF LogTypeOK
  <1>8. /\ Len(flushChain) \in Nat \ {0} /\ DOMAIN flushChain = 1 .. Len(flushChain)
        /\ flushChain' \in Seq(Batches) /\ Len(flushChain') = Len(flushChain) - 1
        /\ DOMAIN flushChain' = 1 .. Len(flushChain) - 1
        /\ \A k \in 1 .. Len(flushChain) - 1 : flushChain'[k] = flushChain[k + 1]
    BY <1>0, <1>1, <1>2 DEF Written, LogTypeOK, Batches
  <1>9. flushChain[1].waiter = "asker" => asker.stage # "idle"
    BY <1>0, <1>8 DEF AskerInv
  <1>10. AskerInv'
    <2>1. ASSUME NEW c \in DOMAIN flushChain', flushChain'[c].waiter = "asker"
          PROVE  asker'.stage # "idle"
      <3>1. c + 1 \in DOMAIN flushChain /\ flushChain[c + 1].waiter = "asker"
        BY <2>1, <1>8
      <3> QED
        BY <3>1, <1>0, <1>7 DEF AskerInv
    <2>2. ASSUME NEW c \in DOMAIN flushChain', flushChain'[c].waiter = "asker",
                 NEW d \in c + 1 .. Len(flushChain'), NEW k \in DOMAIN flushChain'[d].events
          PROVE  flushChain'[d].events[k] > asker'.upTo
      <3>1. c + 1 \in DOMAIN flushChain /\ flushChain[c + 1].waiter = "asker"
        BY <2>2, <1>8
      <3>2. d + 1 \in (c + 1) + 1 .. Len(flushChain) /\ flushChain'[d] = flushChain[d + 1]
        BY <2>2, <1>8
      <3> QED
        BY <3>1, <3>2, <2>2, <1>0, <1>7 DEF AskerInv
    <2> QED
      BY <2>1, <2>2, <1>0, <1>3, <1>7, <1>9 DEF AskerInv
  <1>11. ToSet(logFile) \subseteq ToSet(logFile') /\ lostEvents \subseteq lostEvents'
    <2>1. logFile \in Seq(Events)
      BY <1>0 DEF LogTypeOK
    <2>2. Len(flushChain[1].events) \in Nat
      BY <1>1 DEF Batches
    <2>3. n \in Nat
      BY <2>2
    <2>4. DOMAIN logFile = 1 .. Len(logFile) /\ DOMAIN logFile' = 1 .. Len(logFile) + n /\ Len(logFile) \in Nat
      BY <2>1, <1>2 DEF Written
    <2>5. ASSUME NEW k \in DOMAIN logFile PROVE k \in DOMAIN logFile' /\ logFile'[k] = logFile[k]
      BY <2>3, <2>4, <1>2 DEF Written
    <2> QED
      BY <2>5, <1>2 DEF Written, ToSet
  <1>12. AskerFindsEvents'
    <2>1. CASE asker.stage = "answered"
      BY <2>1, <1>0, <1>3, <1>7, <1>11 DEF AskerFindsEvents
    <2>2. CASE asker.stage # "answered" /\ asker'.stage = "answered"
      <3>1. flushChain[1].waiter = "asker"
        BY <2>2, <1>7
      <3>2. ASSUME NEW e \in 1 .. asker.upTo PROVE e \in ToSet(logFile') \cup lostEvents'
        <4>1. e \in 1 .. posted /\ asker.upTo \in Nat
          BY <1>0 DEF AskerInv, LogTypeOK
        <4>2. SUFFICES ASSUME e \notin lostEvents' PROVE e \in ToSet(logFile')
          OBVIOUS
        <4>3. e \in Held'
          BY <4>1, <4>2, <1>3, <1>5 DEF LogKeepsOrder
        <4>4. PICK p \in Parts' : e \in ToSet(Part(p))'
          BY <4>3 DEF Held
        <4>5. Parts' = 0 .. Len(flushChain)
          BY <1>8 DEF Parts
        <4>6. CASE p = 0
          BY <4>4, <4>6 DEF Part
        <4>7. CASE p \in 1 .. Len(flushChain) - 1
          <5>1. Part(p)' = flushChain[p + 1].events
            BY <4>7, <1>8 DEF Part
          <5>2. PICK k \in DOMAIN flushChain[p + 1].events : flushChain[p + 1].events[k] = e
            BY <4>4, <5>1 DEF ToSet
          <5>3. 1 \in DOMAIN flushChain /\ p + 1 \in 1 + 1 .. Len(flushChain)
            BY <4>7, <1>8
          <5>4. e > asker.upTo
            BY <5>2, <5>3, <3>1, <1>0 DEF AskerInv
          <5> QED
            BY <5>4, <4>1
        <4>8. CASE p = Len(flushChain)
          <5>1. Part(p)' = log
            BY <4>8, <1>3, <1>8 DEF Part
          <5>2. PICK k \in DOMAIN log : log[k] = e
            BY <4>4, <5>1 DEF ToSet
          <5>3. e > asker.upTo
            BY <5>2, <3>1, <1>0, <1>9 DEF AskerInv
          <5> QED
            BY <5>3, <4>1
        <4>9. p = 0 \/ p \in 1 .. Len(flushChain) - 1 \/ p = Len(flushChain)
          <5>1. PICK last \in Nat : last = Len(flushChain) /\ last # 0
            BY <1>8
          <5>2. p \in 0 .. last
            BY <4>5, <5>1
          <5> QED
            BY <5>1, <5>2
        <4> QED
          BY <4>6, <4>7, <4>8, <4>9
      <3> QED
        BY <3>2, <1>7 DEF AskerFindsEvents
    <2> QED
      BY <2>1, <2>2 DEF AskerFindsEvents
  <1> QED
    BY <1>5, <1>6, <1>10, <1>12 DEF LogInv

-----------------------------------------------------------------------------
LEMMA LogInitInv == LogInit => LogInv
  <1> SUFFICES ASSUME LogInit PROVE LogInv
    OBVIOUS
  <1>1. LogTypeOK
    BY PostsAssumption DEF LogInit, LogTypeOK
  <1>2. \A p \in Parts : Part(p) = <<>>
    BY DEF LogInit, Parts, Part
  <1>3. Held = {}
    BY <1>2 DEF Held, ToSet
  <1>4. LogKeepsOrder
    BY <1>2, <1>3 DEF LogKeepsOrder, LogInit
  <1> QED
    BY <1>1, <1>4 DEF LogInit, LogInv, AskerInv, AskerFindsEvents

\* What moves neither an event nor the asker.
LEMMA LogIdles == LogInv /\ UNCHANGED <<posted, log, flushChain, logFile, lostEvents, asker>>
                  /\ flushTimer' \in {"armed", "flushing", "rest"} /\ periodic' \in BOOLEAN
                  /\ closing' \in {"no", "waiting", "closed"}
                  => LogInv'
  BY DEF LogInv, LogTypeOK, LogKeepsOrder, Held, Parts, Part, AskerInv, AskerFindsEvents

LEMMA LogInvStep == LogInv /\ [LogNext]_logVars => LogInv'
  <1> SUFFICES ASSUME LogInv, [LogNext]_logVars PROVE LogInv'
    OBVIOUS
  <1>0. flushTimer \in {"armed", "flushing", "rest"} /\ periodic \in BOOLEAN
        /\ closing \in {"no", "waiting", "closed"}
    BY DEF LogInv, LogTypeOK
  <1>1. CASE LogPost
    BY <1>1, PostStep
  <1>2. CASE Dispose
    BY <1>0, <1>2, TakesStep DEF Dispose, Waiters
  <1>3. CASE Tick
    <2>1. CASE TakesBuffer("timer") /\ flushTimer' = "flushing"
      BY <2>1, <1>0, <1>3, TakesStep DEF Tick, Waiters
    <2>2. CASE FindsNothing /\ Reschedules
      BY <2>2, <1>0, <1>3, LogIdles DEF Tick, FindsNothing, Reschedules
    <2> QED
      BY <2>1, <2>2, <1>3 DEF Tick
  <1>4. CASE AskLog
    BY <1>4, AskStep
  <1>5. CASE Shutdown
    <2>1. CASE TakesBuffer("shutdown") /\ closing' = "waiting"
      BY <2>1, <1>0, <1>5, TakesStep DEF Shutdown, Waiters
    <2>2. CASE FindsNothing /\ closing' = "closed"
      BY <2>2, <1>0, <1>5, LogIdles DEF Shutdown, FindsNothing
    <2> QED
      BY <2>1, <2>2, <1>5 DEF Shutdown
  <1>6. CASE Write
    BY <1>6, WriteStep
  <1>7. CASE UNCHANGED logVars
    BY <1>0, <1>7, LogIdles DEF logVars
  <1> QED
    BY <1>1, <1>2, <1>3, <1>4, <1>5, <1>6, <1>7 DEF LogNext

\* The file and what is still to be written hold the events in the order of posting,
\* once each, and all but those of a failed write (LoggingObserver: flush takes the
\* buffer at once, and each write follows the one before).
THEOREM LogInOrder == LogSpec => []LogKeepsOrder
  <1> QED
    BY LogInitInv, LogInvStep, PTL DEF LogSpec, LogInv

\* Who asked for the log finds all events of before in it, but those of a failed
\* write, or those an earlier flush has yet to write if the buffer was empty.
THEOREM AskersFind == LogSpec => []AskerFindsEvents
  <1> QED
    BY LogInitInv, LogInvStep, PTL DEF LogSpec, LogInv

-----------------------------------------------------------------------------
(***************************************************************************)
(* Types of the whole window.                                              *)
(***************************************************************************)

\* All of ReportsTypeOK but the screen, whose type is part of ScreenInv.
CallTypes ==
    /\ platform \in {"windows", "unix"} /\ verbose \in BOOLEAN
    /\ caller \in [Acquisitions -> {"idle", "waiting", "installing", "tracking"} \cup CallerEnds]
    /\ script \in [Acquisitions -> ScriptStages]
    /\ failure \in [Acquisitions -> Errors]
    /\ installHolder \in [Ids -> Acquisitions \cup {Unheld}]
    /\ retried \cup fellBack \cup early \subseteq Acquisitions

LEMMA CallTypesStep == CallTypes /\ [ReportsNext]_reportVars => CallTypes'
  <1> SUFFICES ASSUME CallTypes, [ReportsNext]_reportVars PROVE CallTypes'
    OBVIOUS
  <1> USE AcquisitionsAssumption DEF CallTypes, CallerEnds, ScriptStages, Errors, Answers, Runs, Frees
  \* What an answer of installDotnet, and the end of the callback, do.
  <1>0. ASSUME NEW a \in Acquisitions, NEW shown, Resolves(a, shown) \/ Rejects(a, shown)
        PROVE  /\ caller' \in [Acquisitions -> {"idle", "waiting", "installing", "tracking"} \cup CallerEnds]
               /\ installHolder' \in [Ids -> Acquisitions \cup {Unheld}]
    BY <1>0 DEF Resolves, Rejects
  <1>1. ASSUME NEW a \in Acquisitions, NEW error, NEW shown, NEW rejected,
               Concludes(a, error, shown, rejected)
        PROVE  /\ caller' \in [Acquisitions -> {"idle", "waiting", "installing", "tracking"} \cup CallerEnds]
               /\ installHolder' \in [Ids -> Acquisitions \cup {Unheld}]
               /\ script' \in [Acquisitions -> ScriptStages]
               /\ retried' \subseteq Acquisitions
    <2>1. \/ \E last : Resolves(a, last) \/ Rejects(a, last)
          \/ UNCHANGED <<caller, installHolder>>
      BY <1>1 DEF Concludes
    <2>2. script' \in [Acquisitions -> ScriptStages] /\ retried' \subseteq Acquisitions
      BY <1>1 DEF Concludes
    <2> QED
      BY <2>1, <2>2, <1>0
  <1>2. ASSUME NEW a \in Acquisitions, Unresolved(a) PROVE CallTypes'
    BY <1>2 DEF Unresolved
  <1>3. ASSUME NEW a \in Acquisitions, Ask(a) PROVE CallTypes'
    BY <1>3 DEF Ask
  <1>4. ASSUME NEW a \in Acquisitions, LockWaitEnds(a) PROVE CallTypes'
    BY <1>4 DEF LockWaitEnds
  <1>5. ASSUME NEW a \in Acquisitions, Hold(a) PROVE CallTypes'
    BY <1>5 DEF Hold
  <1>6. ASSUME NEW a \in Acquisitions, Tracks(a) PROVE CallTypes'
    BY <1>6 DEF Tracks
  <1>7. ASSUME NEW a \in Acquisitions, Command(a) PROVE CallTypes'
    <2>1. \/ \E shown : Rejects(a, shown)
          \/ UNCHANGED <<caller, installHolder>>
      BY <1>7 DEF Command
    <2>2. script' \in [Acquisitions -> ScriptStages] /\ fellBack' \subseteq Acquisitions
      BY <1>7 DEF Command
    <2> QED
      BY <1>7, <2>1, <2>2, <1>0 DEF Command
  <1>8. ASSUME NEW a \in Acquisitions, LookAtDir(a) PROVE CallTypes'
    <2>1. \/ \E shown : Resolves(a, shown) \/ Rejects(a, shown)
          \/ UNCHANGED <<caller, installHolder>>
      BY <1>8 DEF LookAtDir
    <2>2. script' \in [Acquisitions -> ScriptStages]
      BY <1>8 DEF LookAtDir
    <2> QED
      BY <1>8, <2>1, <2>2, <1>0 DEF LookAtDir
  <1>9. ASSUME NEW a \in Acquisitions, ScriptEnds(a) PROVE CallTypes'
    <2>1. PICK error \in Errors, policy \in BOOLEAN, suspect \in BOOLEAN :
            /\ failure' = [failure EXCEPT ![a] = error]
            /\ early' = IF policy THEN early \cup {a} ELSE early
            /\ LET shown == IF policy THEN Err(screen, a) ELSE screen IN
               IF ~ suspect THEN Concludes(a, error, shown, policy)
               ELSE /\ Runs(a, "mode")
                    /\ IF policy THEN Rejects(a, shown)
                       ELSE UNCHANGED <<caller, installHolder, screen>>
                    /\ UNCHANGED retried
      BY <1>9 DEF ScriptEnds
    <2>2. failure' \in [Acquisitions -> Errors] /\ early' \subseteq Acquisitions
      BY <2>1
    <2>3. /\ caller' \in [Acquisitions -> {"idle", "waiting", "installing", "tracking"} \cup CallerEnds]
          /\ installHolder' \in [Ids -> Acquisitions \cup {Unheld}]
          /\ script' \in [Acquisitions -> ScriptStages]
          /\ retried' \subseteq Acquisitions
      <3>1. CASE ~ suspect
        BY <3>1, <2>1, <1>1
      <3>2. CASE suspect
        <4>1. \/ \E shown : Rejects(a, shown)
              \/ UNCHANGED <<caller, installHolder>>
          BY <3>2, <2>1
        <4> QED
          BY <3>2, <4>1, <2>1, <1>0
      <3> QED
        BY <3>1, <3>2
    <2> QED
      BY <1>9, <2>2, <2>3 DEF ScriptEnds
  <1>10. ASSUME NEW a \in Acquisitions, ModeKnown(a) PROVE CallTypes'
    <2>1. early' \subseteq Acquisitions
      BY <1>10 DEF ModeKnown
    <2> QED
      BY <1>10, <2>1, <1>1 DEF ModeKnown
  <1>11. ASSUME NEW a \in Acquisitions, Probed(a) PROVE CallTypes'
    <2>1. \/ \E shown : Rejects(a, shown)
          \/ UNCHANGED <<caller, installHolder>>
      BY <1>11 DEF Probed
    <2>2. script' \in [Acquisitions -> ScriptStages]
      BY <1>11 DEF Probed
    <2> QED
      BY <1>11, <2>1, <2>2, <1>0 DEF Probed
  <1>12. ASSUME NEW a \in Acquisitions, OnlineKnown(a) PROVE CallTypes'
    BY <1>12, <1>0 DEF OnlineKnown
  <1>13. CASE UNCHANGED reportVars
    BY <1>13 DEF reportVars, callVars
  <1> QED
    BY <1>2, <1>3, <1>4, <1>5, <1>6, <1>7, <1>8, <1>9, <1>10, <1>11, <1>12, <1>13 DEF ReportsNext

LEMMA ToolTypesStep == ToolsTypeOK /\ [ToolsNext]_toolVars => ToolsTypeOK'
  <1> SUFFICES ASSUME ToolsTypeOK, [ToolsNext]_toolVars PROVE ToolsTypeOK'
    OBVIOUS
  <1> USE DEF ToolsTypeOK, Working, ToolEnds, Texts, Throws, FailureResult, FreesLock, MayDecline
  <1>1. ASSUME NEW c \in ToolCalls, Invoke(c) PROVE ToolsTypeOK'
    <2>1. PICK next \in {"refused", "waiting"} : stage' = [stage EXCEPT ![c] = next]
      BY <1>1 DEF Invoke
    <2>2. stage' \in [ToolCalls -> {"idle", "recovering"} \cup Working \cup ToolEnds]
      BY <2>1
    <2> QED
      BY <1>1, <2>2 DEF Invoke
  <1>2. ASSUME NEW c \in ToolCalls, GivesUp(c) PROVE ToolsTypeOK'
    BY <1>2 DEF GivesUp
  <1>3. ASSUME NEW c \in ToolCalls, TakesLock(c) PROVE ToolsTypeOK'
    BY <1>3 DEF TakesLock
  <1>4. ASSUME NEW c \in ToolCalls, Succeeds(c) PROVE ToolsTypeOK'
    BY <1>4 DEF Succeeds
  <1>5. ASSUME NEW by, NEW text \in Texts, Hear(by, text)
        PROVE  /\ detail' \in [ToolCalls -> Texts \cup {""}]
               /\ heardFrom' \in [ToolCalls -> {"nobody", "itself", "another"}]
    BY <1>5 DEF Hear
  <1>6. ASSUME NEW c \in ToolCalls, ReturnsCode(c) PROVE ToolsTypeOK'
    BY <1>5, <1>6 DEF ReturnsCode
  <1>7. ASSUME NEW c \in ToolCalls, FailsInside(c) PROVE ToolsTypeOK'
    BY <1>5, <1>7 DEF FailsInside
  <1>8. ASSUME NEW c \in ToolCalls, TracksAgain(c) PROVE ToolsTypeOK'
    BY <1>8 DEF TracksAgain
  <1>9. ASSUME NEW c \in ToolCalls, Recover(c) PROVE ToolsTypeOK'
    BY <1>9 DEF Recover
  <1>10. CASE OtherCommand
    <2>1. PICK text \in Texts : Hear(NoCall, text)
      BY <1>10 DEF OtherCommand
    <2> QED
      BY <1>5, <1>10, <2>1 DEF OtherCommand
  <1>11. CASE UNCHANGED toolVars
    BY <1>11 DEF toolVars
  <1> QED
    BY <1>1, <1>2, <1>3, <1>4, <1>6, <1>7, <1>8, <1>9, <1>10, <1>11 DEF ToolsNext

\* What the parts of MCExtensionHost need to be well-typed.
HostInv == TypeOK /\ ReportsInv /\ ListInv /\ CallTypes /\ LogInv /\ ToolsTypeOK

\* Each part acts alone, and is as well-typed as it is by itself.
LEMMA HostInvStep == HostInv /\ [MCNext]_<<part, vars, reportVars, logVars, toolVars>> => HostInv'
  <1> SUFFICES ASSUME HostInv, [MCNext]_<<part, vars, reportVars, logVars, toolVars>> PROVE HostInv'
    OBVIOUS
  <1>1. [Next]_vars /\ [ReportsNext]_reportVars /\ [LogNext]_logVars /\ [ToolsNext]_toolVars
    BY DEF MCNext, SudoPart, ReportsPart, LogPart, ToolsPart
  <1> QED
    BY <1>1, TypeStep, ReportsInvStep, ListInvStep, CallTypesStep, LogInvStep, ToolTypesStep DEF HostInv

\* The types of the elevated process, the reports, the log and the tools, in the window
\* that the runs check.
THEOREM HostTypes == MCSpec => []HostTypeOK
  <1>1. MCInit => HostInv
    <2> SUFFICES ASSUME MCInit PROVE HostInv
      OBVIOUS
    <2>1. Init /\ ReportsInit /\ LogInit /\ ToolsInit
      BY DEF MCInit
    <2>2. TypeOK
      BY <2>1, TypesAtFirst
    <2>3. CallTypes
      BY <2>1 DEF ReportsInit, CallTypes, ScriptStages, Errors
    <2>4. ToolsTypeOK
      BY <2>1 DEF ToolsInit, ToolsTypeOK
    <2> QED
      BY <2>1, <2>2, <2>3, <2>4, ListInvInit, LogInitInv DEF HostInv
  <1>2. HostInv => HostTypeOK
    <2> SUFFICES ASSUME HostInv PROVE HostTypeOK
      OBVIOUS
    <2>1. ReportsTypeOK
      BY DEF HostInv, CallTypes, ListInv, ScreenInv, Screens, ReportsTypeOK
    <2> QED
      BY <2>1 DEF HostInv, LogInv, HostTypeOK
  <1> QED
    BY <1>1, <1>2, HostInvStep, PTL DEF MCSpec
=============================================================================
