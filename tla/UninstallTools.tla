--------------------------- MODULE UninstallTools ---------------------------
(***************************************************************************)
(* The tools with which a language model uninstalls .NET: a call runs      *)
(* dotnet.uninstall and listens to the events of the window meanwhile,     *)
(* because the error it gets may not say why.  What it makes of the two    *)
(* decides between another try and the answer that the user said no.       *)
(*                                                                         *)
(* The event stream is the window's: a call hears every command in it.     *)
(* Other windows may have the lock a call waits for at any time.           *)
(***************************************************************************)
EXTENDS Naturals

CONSTANTS
    ToolCalls,          \* calls of UninstallSystemSdkTool and UninstallVSCodeRuntimeTool
    NoCall          \* the lock when none of them has it

ASSUME ToolCallsAssumption == NoCall \notin ToolCalls

VARIABLES
    isMac,          \* a failed validation mentions cancelled installs on macOS
    tool,           \* "sdk" or "runtime", for each call
    stage,          \* where it is, and its answer
    attempt,        \* the number of the uninstall
    detail,         \* the error it heard last, by what it says
    heardFrom,      \* history: whose that was
    lockOf,         \* who has the lock of the SDKs, and of the runtime
    asked,          \* history: calls that got to the uninstaller in this attempt
    declined,       \* history: those whose prompt the user refused
    coded           \* history: those that ended with a code or a message as one

toolVars == <<isMac, tool, stage, attempt, detail, heardFrom, lockOf, asked, declined, coded>>

Texts == {"plain", "cancel"}
Working == {"waiting", "working", "tracking"}
ToolEnds == {"refused", "uninstalled", "cancelled", "failed"}

ToolsTypeOK ==
    /\ isMac \in BOOLEAN
    /\ tool \in [ToolCalls -> {"sdk", "runtime"}]
    /\ stage \in [ToolCalls -> {"idle", "recovering"} \cup Working \cup ToolEnds]
    /\ attempt \in [ToolCalls -> {1, 2}]
    /\ detail \in [ToolCalls -> Texts \cup {""}]
    /\ heardFrom \in [ToolCalls -> {"nobody", "itself", "another"}]
    /\ lockOf \in [{"sdk", "runtime"} -> ToolCalls \cup {NoCall}]
    /\ asked \subseteq ToolCalls /\ declined \subseteq ToolCalls /\ coded \subseteq ToolCalls

ToolsInit ==
    /\ isMac \in BOOLEAN
    /\ tool \in [ToolCalls -> {"sdk", "runtime"}]
    /\ stage = [c \in ToolCalls |-> "idle"]
    /\ attempt = [c \in ToolCalls |-> 1]
    /\ detail = [c \in ToolCalls |-> ""]
    /\ heardFrom = [c \in ToolCalls |-> "nobody"]
    /\ lockOf = [t \in {"sdk", "runtime"} |-> NoCall]
    /\ asked = {} /\ declined = {} /\ coded = {}

-----------------------------------------------------------------------------
\* DotnetUninstallFailed and SuppressedAcquisitionError, posted by a call or, with
\* NoCall, by another command: the last one stays with all who listen.
Hear(by, text) ==
    LET listens(c) == stage[c] \in Working IN
    /\ detail' = [c \in ToolCalls |-> IF listens(c) THEN text ELSE detail[c]]
    /\ heardFrom' = [c \in ToolCalls |-> IF ~listens(c) THEN heardFrom[c]
                                     ELSE IF c = by THEN "itself" ELSE "another"]

\* Mutant of IsCancellation: the events are not asked.
ThrownCancellation(c, thrown) == thrown = "cancel"

\* isUserCancellationMessage of the error and of what was heard.
IsCancellation(c, thrown) == "cancel" \in {thrown, detail[c]}

\* buildUninstallFailureResult
FailureResult(cancellation) == IF cancellation THEN "cancelled" ELSE "failed"

\* The uninstall throws: the tool for SDKs tries to recover, once.
Throws(c, thrown) ==
    stage' = [stage EXCEPT ![c] =
        IF tool[c] = "sdk" /\ attempt[c] = 1 /\ ~IsCancellation(c, thrown) THEN "recovering"
        ELSE FailureResult(IsCancellation(c, thrown))]

FreesLock(c) == lockOf' = [lockOf EXCEPT ![tool[c]] = NoCall]

\* Another distribution or architecture, no version, or an install of the other
\* kind on the path: the model is told to go another way.
Invoke(c) ==
    /\ stage[c] = "idle"
    /\ \E next \in {"refused", "waiting"} : stage' = [stage EXCEPT ![c] = next]
    /\ UNCHANGED <<isMac, tool, attempt, detail, heardFrom, lockOf, asked, declined, coded>>

\* The lock, or before it the version of a runtime, is not to be had.
GivesUp(c) ==
    /\ stage[c] = "waiting"
    /\ Throws(c, "plain")
    /\ UNCHANGED <<isMac, tool, attempt, detail, heardFrom, lockOf, asked, declined, coded>>

TakesLock(c) ==
    /\ stage[c] = "waiting" /\ lockOf[tool[c]] = NoCall
    /\ stage' = [stage EXCEPT ![c] = "working"]
    /\ lockOf' = [lockOf EXCEPT ![tool[c]] = c]
    /\ asked' = asked \cup {c}
    /\ UNCHANGED <<isMac, tool, attempt, detail, heardFrom, declined, coded>>

Succeeds(c) ==
    /\ stage[c] = "working"
    /\ stage' = [stage EXCEPT ![c] = "uninstalled"]
    /\ FreesLock(c)
    /\ UNCHANGED <<isMac, tool, attempt, detail, heardFrom, asked, declined, coded>>

MayDecline(c) == declined' \in {declined, declined \cup {c}}

\* uninstallGlobal returns 117778: what was posted is overtaken by the error that
\* uninstall makes of every code, which says it may have been cancelled.
ReturnsCode(c) ==
    /\ stage[c] = "working" /\ tool[c] = "sdk"
    /\ Hear(c, "plain")
    /\ Throws(c, "cancel")
    /\ FreesLock(c)
    /\ MayDecline(c) /\ coded' = coded \cup {c}
    /\ UNCHANGED <<isMac, tool, attempt, asked>>

\* An error inside, which is posted; a refused prompt of sudo says so.
FailsInside(c) ==
    /\ stage[c] = "working"
    /\ \E text \in Texts :
         /\ Hear(c, text)
         /\ IF text = "cancel" /\ tool[c] = "sdk" THEN MayDecline(c) ELSE UNCHANGED declined
    /\ stage' = [stage EXCEPT ![c] = "tracking"]
    /\ UNCHANGED <<isMac, tool, attempt, lockOf, asked, coded>>

\* The install is tracked again.  If that works the message of the error is
\* returned, as a code; if not, the error of the validation is thrown.
TracksAgain(c) ==
    /\ stage[c] = "tracking"
    /\ \/ Throws(c, "cancel") /\ coded' = coded \cup {c}
       \/ Throws(c, IF isMac THEN "cancel" ELSE "plain") /\ UNCHANGED coded
    /\ FreesLock(c)
    /\ UNCHANGED <<isMac, tool, attempt, detail, heardFrom, asked, declined>>

\* tryRecoverFromUntrackedGlobalSdk: nothing is found, or acquireGlobalSDK is run,
\* whatever comes of it, and then the second attempt.
Recover(c) ==
    /\ stage[c] = "recovering"
    /\ \/ /\ stage' = [stage EXCEPT ![c] = "failed"]
          /\ UNCHANGED <<attempt, detail, heardFrom, asked, declined, coded>>
       \/ /\ stage' = [stage EXCEPT ![c] = "waiting"]
          /\ attempt' = [attempt EXCEPT ![c] = 2]
          /\ detail' = [detail EXCEPT ![c] = ""]
          /\ heardFrom' = [heardFrom EXCEPT ![c] = "nobody"]
          /\ asked' = asked \ {c} /\ declined' = declined \ {c} /\ coded' = coded \ {c}
    /\ UNCHANGED <<isMac, tool, lockOf>>

\* Another command of the window posts a suppressed error.
OtherCommand ==
    /\ \E text \in Texts : Hear(NoCall, text)
    /\ UNCHANGED <<isMac, tool, stage, attempt, lockOf, asked, declined, coded>>

ToolsNext ==
    \/ \E c \in ToolCalls :
          \/ Invoke(c) \/ GivesUp(c) \/ TakesLock(c) \/ Succeeds(c) \/ ReturnsCode(c)
          \/ FailsInside(c) \/ TracksAgain(c) \/ Recover(c)
    \/ OtherCommand

ToolsSpec == ToolsInit /\ [][ToolsNext]_toolVars

-----------------------------------------------------------------------------
(***************************************************************************)
(* Properties                                                              *)
(***************************************************************************)

\* A user who refused a prompt is not asked again, and the model is told, but where
\* the install could not be tracked again and an error of another command had come
\* in between; a call that never got to the uninstaller is taken for refused only
\* because of another command; and no code of the uninstaller leads to a recovery,
\* for the error made of it says "cancelled" whatever it means.
DeclineIsHeard == \A c \in ToolCalls :
    /\ c \in declined => stage[c] \in {"tracking", "cancelled"} \/ heardFrom[c] = "another"
    /\ stage[c] = "cancelled" => c \in asked \/ heardFrom[c] = "another"
    /\ stage[c] = "recovering" => c \notin coded
=============================================================================
