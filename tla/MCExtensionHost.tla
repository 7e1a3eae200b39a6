--------------------------- MODULE MCExtensionHost ---------------------------
\* What one window does by itself, for TLC: commands under sudo, the reports on its
\* acquisitions, the log, and the tools of a language model.  In one behaviour one
\* of these parts acts.
EXTENDS SudoProtocol, AcquisitionReports, EventLog, UninstallTools

CONSTANTS c1, c2, end, acq1, acq2, acq3, id1, id2, call1, call2

VARIABLE part           \* "sudo", "reports", "log" or "tools"

\* Two commands, only one of them terminal, and one end of the master.
MCCommands == {c1, c2}

\* Two acquisitions of one install and one of another.
MCAcquisitions == {acq1, acq2, acq3}
MCIds == {id1, id2}
MCIdOf == [c \in MCAcquisitions |-> IF c = acq3 THEN id2 ELSE id1]

\* At most two of them get as far as the lock of their install, of one or of two.
MaxResolved == 2
Resolved == {c \in MCAcquisitions : caller'[c] \notin {"idle", "unresolved"}}

MCToolCalls == {call1, call2}

HostTypeOK == TypeOK /\ ReportsTypeOK /\ LogTypeOK /\ ToolsTypeOK

MCInit ==
    /\ part \in {"sudo", "reports", "log", "tools"}
    /\ Init /\ ReportsInit /\ LogInit /\ ToolsInit
    /\ part # "reports" => platform = "unix" /\ ~verbose
    /\ part # "tools" => ~isMac /\ \A c \in ToolCalls : tool[c] = "sdk"

SudoPart == part = "sudo" /\ Next /\ UNCHANGED <<part, reportVars, logVars, toolVars>>
ReportsPart ==
    /\ part = "reports" /\ ReportsNext /\ Cardinality(Resolved) <= MaxResolved
    /\ UNCHANGED <<part, vars, logVars, toolVars>>
LogPart(A) == part = "log" /\ A /\ UNCHANGED <<part, vars, reportVars, toolVars>>
ToolsPart ==
    part = "tools" /\ ToolsNext /\ UNCHANGED <<part, vars, reportVars, logVars>>

MCNext == SudoPart \/ ReportsPart \/ LogPart(LogNext) \/ ToolsPart

\* The timer of the host fires, and the disk answers.
MCSpec ==
    /\ MCInit /\ [][MCNext]_<<part, vars, reportVars, logVars, toolVars>>
    /\ WF_<<part, vars, reportVars, logVars, toolVars>>(LogPart(Tick))
    /\ WF_<<part, vars, reportVars, logVars, toolVars>>(LogPart(Write))
=============================================================================
