------------------------- MODULE AcquisitionReports -------------------------
(***************************************************************************)
(* What one window tells the user about its local acquisitions: the events *)
(* that AcquisitionInvoker, DotnetCoreAcquisitionWorker and ErrorHandler   *)
(* post, and what the output channel and the status bar make of them.      *)
(*                                                                         *)
(* An acquisition is two threads: its caller, which holds the lock of the  *)
(* install until installDotnet has answered, and the callbacks of the      *)
(* install script, which go on after they have rejected.  A section of     *)
(* JavaScript without an await for the outside is one step, with what the  *)
(* caller does on the answer: it reports before another command can run.   *)
(***************************************************************************)
EXTENDS Naturals, Sequences, FiniteSets, SequencesExt

CONSTANTS
    Acquisitions,   \* calls of dotnet.acquire in the window
    Ids,            \* install ids
    IdOf,           \* the install each of them comes to
    Unheld          \* the lock of an install that nobody has

\* An install id no acquisition has: what a request names before it is resolved.
NoInstall == "none"

ASSUME AcquisitionsAssumption ==
    /\ IdOf \in [Acquisitions -> Ids]
    /\ Unheld \notin Acquisitions
    /\ NoInstall \notin Ids

VARIABLES
    platform,       \* on Windows the script needs PowerShell
    verbose,        \* highVerbosity of the output channel
    caller,         \* where the caller of each acquisition is
    script,         \* where its installDotnet is
    failure,        \* the error of its script
    retried,        \* runInstall with isRetry
    installHolder,  \* who has the lock of each install
    screen,         \* inProgressDownloads, the dots, and the status bar
    fellBack,       \* history: acquisitions whose script could not be downloaded
    early           \* history: those rejected because of PowerShell

callVars == <<caller, script, failure, retried, installHolder>>
reportVars == <<platform, verbose, callVars, screen, fellBack, early>>

CallerEnds == {"done", "unresolved", "timedOut", "failed"}
ScriptStages == {"none", "command", "look", "run", "mode", "probing", "online", "over"}
Errors == {"none", "start", "one", "killed", "other"}

ReportsTypeOK ==
    /\ platform \in {"windows", "unix"} /\ verbose \in BOOLEAN
    /\ caller \in [Acquisitions -> {"idle", "waiting", "installing", "tracking"} \cup CallerEnds]
    /\ script \in [Acquisitions -> ScriptStages]
    /\ failure \in [Acquisitions -> Errors]
    /\ installHolder \in [Ids -> Acquisitions \cup {Unheld}]
    /\ screen.downloads \in Seq(Ids) /\ screen.dots \in BOOLEAN
    /\ screen.bar \in {"hidden", "busy", "error"}
    /\ retried \cup fellBack \cup early \subseteq Acquisitions

ReportsInit ==
    /\ platform \in {"windows", "unix"} /\ verbose \in BOOLEAN
    /\ caller = [a \in Acquisitions |-> "idle"]
    /\ script = [a \in Acquisitions |-> "none"]
    /\ failure = [a \in Acquisitions |-> "none"]
    /\ installHolder = [i \in Ids |-> Unheld]
    /\ screen = [downloads |-> <<>>, dots |-> FALSE, bar |-> "hidden"]
    /\ retried = {} /\ fellBack = {} /\ early = {}

-----------------------------------------------------------------------------
(***************************************************************************)
(* Events and their observers                                              *)
(***************************************************************************)

Event(type, id) == [type |-> type, install |-> id]

\* inProgressVersionDone: splice at index -1 takes the last one out.
Done(downloads, id) ==
    IF id \in ToSet(downloads) THEN RemoveFirst(downloads, id)
    ELSE IF downloads = <<>> THEN <<>> ELSE Front(downloads)

\* Mutant of WithDone: the dots go on.
WithDoneDots(shown, id) ==
    LET left == IF id = NoInstall THEN shown.downloads ELSE Done(shown.downloads, id) IN
    [shown EXCEPT !.downloads = left]

\* updateDownloadIndicators: the dots stop with the last download.
WithDone(shown, id) ==
    LET left == IF id = NoInstall THEN shown.downloads ELSE Done(shown.downloads, id) IN
    [shown EXCEPT !.downloads = left, !.dots = @ /\ left # <<>>]

\* OutputChannelObserver.post
Output(shown, e) ==
    CASE e.type = "Started" ->
           [shown EXCEPT !.downloads = Append(@, e.install), !.dots = TRUE]
      [] e.type \in {"Completed", "ExpectedAbort"} -> WithDone(shown, e.install)
      [] e.type \in {"Error", "FinalError"} ->
           IF e.install \in ToSet(shown.downloads) THEN WithDone(shown, e.install) ELSE shown

\* StatusBarObserver.post
StatusBar(shown, e) ==
    CASE e.type = "Started" -> [shown EXCEPT !.bar = "busy"]
      [] e.type \in {"Completed", "ExpectedAbort"} -> [shown EXCEPT !.bar = "hidden"]
      [] e.type = "Error" -> [shown EXCEPT !.bar = "error"]
      [] e.type = "FinalError" -> shown

\* ModalEventRepublisher posts the error of the mode too, which the output channel
\* takes only if it is verbose.
Republished(shown, e) ==
    IF e.type = "FinalError" /\ verbose THEN Output(Output(shown, e), e) ELSE Output(shown, e)

\* What is shown after an event that is posted while this is shown.
Observed(shown, e) == StatusBar(Republished(shown, e), e)

-----------------------------------------------------------------------------
(***************************************************************************)
(* The caller                                                              *)
(***************************************************************************)
Answers(a, stage) == caller' = [caller EXCEPT ![a] = stage]
Runs(a, stage) == script' = [script EXCEPT ![a] = stage]

\* Mutant of Reports: a command that failed is one more abort.
ReportsAbort(shown, id) ==
    Observed(Observed(shown, Event("Error", id)), Event("ExpectedAbort", id))

\* callWithErrorHandling: DotnetCommandFailed, and the final error.
Reports(shown, id) == Observed(Observed(shown, Event("Error", id)), Event("FinalError", id))

Frees(a) ==
    installHolder' = [i \in Ids |-> IF installHolder[i] = a THEN Unheld ELSE installHolder[i]]

\* getFullVersion rejects.  Both resolveVersion and its caller post the error, with
\* the version as install id; a cancellation is no failed command.
Unresolved(a) ==
    /\ caller[a] = "idle"
    /\ Answers(a, "unresolved")
    /\ LET abort == Event("ExpectedAbort", "version") IN
       screen' = Observed(Observed(Observed(screen, abort), abort), Event("FinalError", NoInstall))
    /\ UNCHANGED <<platform, verbose, script, failure, retried, installHolder, fellBack, early>>

Ask(a) ==
    /\ caller[a] = "idle"
    /\ Answers(a, "waiting")
    /\ UNCHANGED <<platform, verbose, script, failure, retried, installHolder, screen, fellBack, early>>

LockWaitEnds(a) ==
    /\ caller[a] = "waiting" /\ installHolder[IdOf[a]] # Unheld
    /\ Answers(a, "timedOut")
    /\ screen' = Reports(screen, IdOf[a])
    /\ UNCHANGED <<platform, verbose, script, failure, retried, installHolder, fellBack, early>>

\* acquireLocalCore: an install that is there, or DotnetAcquisitionStarted.
Hold(a) ==
    /\ caller[a] = "waiting" /\ installHolder[IdOf[a]] = Unheld
    /\ \/ Answers(a, "done") /\ UNCHANGED <<script, installHolder, screen>>
       \/ /\ Answers(a, "installing") /\ Runs(a, "command")
          /\ installHolder' = [installHolder EXCEPT ![IdOf[a]] = a]
          /\ screen' = Observed(screen, Event("Started", IdOf[a]))
    /\ UNCHANGED <<platform, verbose, failure, retried, fellBack, early>>

\* installDotnet resolves or rejects, after what is shown then: only the first answer
\* counts, and a rejection frees the lock and is reported at once.
Resolves(a, shown) ==
    /\ screen' = shown
    /\ caller' = IF caller[a] = "installing" THEN [caller EXCEPT ![a] = "tracking"] ELSE caller
    /\ UNCHANGED installHolder
Rejects(a, shown) ==
    IF caller[a] = "installing"
    THEN screen' = Reports(shown, IdOf[a]) /\ Answers(a, "failed") /\ Frees(a)
    ELSE screen' = shown /\ UNCHANGED <<caller, installHolder>>

\* An error of the acquisition, and the end of an install without one.
Err(shown, a) == Observed(shown, Event("Error", IdOf[a]))
Completed(shown, a) == Observed(shown, Event("Completed", IdOf[a]))

\* Validation, the legacy install, and the record.
Tracks(a) ==
    /\ caller[a] = "tracking"
    /\ Frees(a)
    /\ \/ Answers(a, "done") /\ UNCHANGED screen
       \/ /\ Answers(a, "failed")
          /\ \E invalid \in BOOLEAN :
               screen' = Reports(IF invalid THEN Err(screen, a) ELSE screen, IdOf[a])
    /\ UNCHANGED <<platform, verbose, script, failure, retried, fellBack, early>>

-----------------------------------------------------------------------------
(***************************************************************************)
(* installDotnet                                                           *)
(***************************************************************************)
\* getInstallCommand downloads the script.  If that fails it posts an error, and
\* goes on with the script of another time if there is one.
Command(a) ==
    /\ script[a] = "command"
    /\ \/ Runs(a, "look") /\ UNCHANGED <<caller, installHolder, screen, fellBack>>
       \/ /\ fellBack' = fellBack \cup {a}
          /\ \/ Runs(a, "look") /\ screen' = Err(screen, a) /\ UNCHANGED <<caller, installHolder>>
             \/ Runs(a, "over") /\ Rejects(a, Err(screen, a))
    /\ UNCHANGED <<platform, verbose, failure, retried, early>>

\* verifyPowershellCanRun may find none; an install that is there and meets the
\* request is taken, any other is wiped.
LookAtDir(a) ==
    /\ script[a] = "look"
    /\ \/ platform = "windows" /\ Runs(a, "over") /\ Rejects(a, Err(Err(screen, a), a))
       \/ Runs(a, "over") /\ Resolves(a, Completed(screen, a))
       \/ Runs(a, "run") /\ UNCHANGED <<caller, installHolder, screen>>
    /\ UNCHANGED <<platform, verbose, failure, retried, fellBack, early>>

\* Mutant of Concludes: the call is rejected before the script is tried again.
ConcludesRejecting(a, error, shown, rejected) ==
    LET last == IF error = "none" THEN Completed(shown, a) ELSE shown IN
    /\ Runs(a, IF error = "none" THEN "over" ELSE "online")
    /\ IF rejected \/ error # "none" THEN Rejects(a, last) ELSE Resolves(a, last)
    /\ retried' = retried

\* The end of the callback, with this shown and perhaps after a rejection: a script
\* without an error is a completed install, and where PowerShell may be missing
\* another is looked for, once.
Concludes(a, error, shown, rejected) ==
    LET again == error \in {"start", "one"} /\ platform = "windows" /\ a \notin retried
        last == IF error = "none" THEN Completed(shown, a) ELSE shown
    IN /\ Runs(a, IF error = "none" THEN "over" ELSE IF again THEN "probing" ELSE "online")
       /\ IF rejected THEN Rejects(a, last)
          ELSE IF error = "none" THEN Resolves(a, last)
          ELSE screen' = last /\ UNCHANGED <<caller, installHolder>>
       /\ retried' = IF again THEN retried \cup {a} ELSE retried

\* The callback of the script.  A bad execution policy rejects; output or an exit
\* code that hints at a bad language mode has that looked up.
ScriptEnds(a) ==
    /\ script[a] = "run"
    /\ \E error \in Errors, policy, suspect \in BOOLEAN :
         /\ policy \/ suspect => platform = "windows"
         /\ error = "one" /\ platform = "windows" => suspect
         /\ failure' = [failure EXCEPT ![a] = error]
         /\ early' = IF policy THEN early \cup {a} ELSE early
         /\ LET shown == IF policy THEN Err(screen, a) ELSE screen IN
            IF ~ suspect THEN Concludes(a, error, shown, policy)
            ELSE /\ Runs(a, "mode")
                 /\ IF policy THEN Rejects(a, shown) ELSE UNCHANGED <<caller, installHolder, screen>>
                 /\ UNCHANGED retried
    /\ UNCHANGED <<platform, verbose, fellBack>>

\* badLanguageModeSet answers.
ModeKnown(a) ==
    /\ script[a] = "mode"
    /\ \E bad \in BOOLEAN :
         /\ early' = IF bad THEN early \cup {a} ELSE early
         /\ Concludes(a, failure[a], IF bad THEN Err(screen, a) ELSE screen, bad)
    /\ UNCHANGED <<platform, verbose, failure, fellBack>>

\* findWorkingPowershellViaProbing
Probed(a) ==
    /\ script[a] = "probing"
    /\ \/ Runs(a, "run") /\ UNCHANGED <<caller, installHolder, screen>>
       \/ Runs(a, "over") /\ Rejects(a, Err(screen, a))
    /\ UNCHANGED <<platform, verbose, failure, retried, fellBack, early>>

\* isOnline has answered: offline, a timeout, or an error of the script.
OnlineKnown(a) ==
    /\ script[a] = "online"
    /\ Runs(a, "over") /\ Rejects(a, Err(screen, a))
    /\ UNCHANGED <<platform, verbose, failure, retried, fellBack, early>>

ReportsNext == \E a \in Acquisitions :
    \/ Unresolved(a) \/ Ask(a) \/ LockWaitEnds(a) \/ Hold(a) \/ Tracks(a)
    \/ Command(a) \/ LookAtDir(a) \/ ScriptEnds(a) \/ ModeKnown(a) \/ Probed(a) \/ OnlineKnown(a)

ReportsSpec == ReportsInit /\ [][ReportsNext]_reportVars

-----------------------------------------------------------------------------
(***************************************************************************)
(* Properties                                                              *)
(***************************************************************************)

\* The output channel lists one entry for each install that is under way.
Listed == \A i \in Ids :
    Cardinality({k \in DOMAIN screen.downloads : screen.downloads[k] = i})
        = Cardinality({a \in Acquisitions : caller[a] = "installing" /\ IdOf[a] = i})

\* The list is right unless some request never began to install, which may take an
\* entry that is not its own, an install goes on after the error that its script
\* could not be downloaded, or a callback on Windows went on after it had rejected:
\* the errors an install reports two or three times take no other entry.
ListedCauses ==
    \/ Listed
    \/ fellBack \cup early # {}
    \/ \E a \in Acquisitions : caller[a] \in {"unresolved", "timedOut"}

\* The script of an install runs, or its end is looked into, under the lock of the
\* install, but for a call that was rejected because of PowerShell: it may run the
\* script again after the lock was given up.
RunsUnderLock == \A a \in Acquisitions :
    script[a] \in {"look", "run", "mode", "probing", "online"} =>
        installHolder[IdOf[a]] = a \/ (platform = "windows" /\ a \in early)

\* When all is over no download is listed, no dots are printed and the status bar
\* shows none, whatever was taken out of the list in between.
NothingLeft ==
    /\ screen.dots <=> screen.downloads # <<>>
    /\ (\A a \in Acquisitions : caller[a] \in CallerEnds \cup {"idle"} /\ script[a] \in {"none", "over"}) =>
         screen.downloads = <<>> /\ screen.bar # "busy"
=============================================================================
