------------------------------ MODULE EventLog ------------------------------
(***************************************************************************)
(* LoggingObserver: events are written to a buffer, and flushed from it to *)
(* the log file of the window by a timer, at the end of every command, on  *)
(* the request of a user who wants to see the log, and at a shutdown.  A   *)
(* flush takes the buffer at once; its write follows those before it.      *)
(*                                                                         *)
(* An event is its number in the order of posting.                         *)
(***************************************************************************)
EXTENDS Naturals, Sequences, SequencesExt

CONSTANT MaxPosts       \* bound on the events

ASSUME PostsAssumption == MaxPosts \in Nat

VARIABLES
    posted,         \* the events posted so far
    log,            \* the buffer
    flushChain,     \* the writes still to be made, and who awaits each
    logFile,        \* what is on disk
    lostEvents,     \* events of a write that failed
    flushTimer,     \* the timer is armed, its flush is on, or it is at rest
    periodic,       \* flushTimer is not undefined
    asker,          \* dotnet.getAcquisitionLog
    closing         \* shutdown

logVars == <<posted, log, flushChain, logFile, lostEvents, flushTimer, periodic, asker, closing>>

Events == 1 .. MaxPosts
Waiters == {"nobody", "timer", "asker", "shutdown"}

LogTypeOK ==
    /\ posted \in 0 .. MaxPosts
    /\ log \in Seq(Events) /\ logFile \in Seq(Events)
    /\ flushChain \in Seq([events : Seq(Events), waiter : Waiters])
    /\ lostEvents \subseteq Events
    /\ flushTimer \in {"armed", "flushing", "rest"} /\ periodic \in BOOLEAN
    /\ asker \in [stage : {"idle", "waiting", "answered"}, upTo : 0 .. MaxPosts, hadNone : BOOLEAN]
    /\ closing \in {"no", "waiting", "closed"}

LogInit ==
    /\ posted = 0
    /\ log = <<>> /\ flushChain = <<>> /\ logFile = <<>> /\ lostEvents = {}
    /\ flushTimer = "armed" /\ periodic = TRUE
    /\ asker = [stage |-> "idle", upTo |-> 0, hadNone |-> FALSE]
    /\ closing = "no"

-----------------------------------------------------------------------------
LogPost ==
    /\ posted < MaxPosts
    /\ posted' = posted + 1
    /\ log' = Append(log, posted + 1)
    /\ UNCHANGED <<flushChain, logFile, lostEvents, flushTimer, periodic, asker, closing>>

\* flush, with something in the buffer.
TakesBuffer(waiter) ==
    /\ log # <<>>
    /\ flushChain' = Append(flushChain, [events |-> log, waiter |-> waiter])
    /\ log' = <<>>

\* With nothing in it a flush is over at once, whatever is still to be written.
FindsNothing == log = <<>> /\ UNCHANGED <<log, flushChain>>

\* dispose, which callWithErrorHandling calls at the end of every command.
Dispose ==
    /\ TakesBuffer("nobody")
    /\ UNCHANGED <<posted, logFile, lostEvents, flushTimer, periodic, asker, closing>>

\* Mutant of Reschedules: not after a flush that had nothing to write.
ReschedulesAfterWrite ==
    flushTimer' = IF periodic /\ flushTimer = "flushing" THEN "armed" ELSE "rest"

\* The end of a tick: the next one is scheduled, unless the observer was shut down.
Reschedules == flushTimer' = IF periodic THEN "armed" ELSE "rest"

Tick ==
    /\ flushTimer = "armed"
    /\ \/ TakesBuffer("timer") /\ flushTimer' = "flushing"
       \/ FindsNothing /\ Reschedules
    /\ UNCHANGED <<posted, logFile, lostEvents, periodic, asker, closing>>

\* Mutant of AskLog: it does not wait for the write.
AskLogAtOnce ==
    /\ asker.stage = "idle"
    /\ \/ TakesBuffer("nobody")
       \/ FindsNothing
    /\ asker' = [stage |-> "answered", upTo |-> posted, hadNone |-> log = <<>>]
    /\ UNCHANGED <<posted, logFile, lostEvents, flushTimer, periodic, closing>>

\* dotnet.getAcquisitionLog awaits a flush, then tells where the log is.
AskLog ==
    /\ asker.stage = "idle"
    /\ \/ TakesBuffer("asker")
       \/ FindsNothing
    /\ asker' = [stage |-> IF log = <<>> THEN "answered" ELSE "waiting",
                 upTo |-> posted, hadNone |-> log = <<>>]
    /\ UNCHANGED <<posted, logFile, lostEvents, flushTimer, periodic, closing>>

Shutdown ==
    /\ closing = "no"
    /\ periodic' = FALSE
    /\ flushTimer' = IF flushTimer = "armed" THEN "rest" ELSE flushTimer
    /\ \/ TakesBuffer("shutdown") /\ closing' = "waiting"
       \/ FindsNothing /\ closing' = "closed"
    /\ UNCHANGED <<posted, logFile, lostEvents, asker>>

\* A write ends, with a part of its events in the file if it failed, and whoever
\* awaits its flush goes on.
WriteAt(i) ==
    /\ i \in DOMAIN flushChain
    /\ LET batch == flushChain[i].events IN
       \E n \in 0 .. Len(batch) :
          /\ logFile' = logFile \o SubSeq(batch, 1, n)
          /\ lostEvents' = lostEvents \cup {batch[k] : k \in n + 1 .. Len(batch)}
    /\ flushChain' = RemoveAt(flushChain, i)
    /\ CASE flushChain[i].waiter = "timer" -> Reschedules /\ UNCHANGED <<asker, closing>>
         [] flushChain[i].waiter = "asker" ->
              asker' = [asker EXCEPT !.stage = "answered"] /\ UNCHANGED <<flushTimer, closing>>
         [] flushChain[i].waiter = "shutdown" ->
              closing' = "closed" /\ UNCHANGED <<flushTimer, asker>>
         [] flushChain[i].waiter = "nobody" -> UNCHANGED <<flushTimer, asker, closing>>
    /\ UNCHANGED <<posted, log, periodic>>

\* Mutant of Write: flushes do not wait for one another.
WriteUnchained == \E i \in DOMAIN flushChain : WriteAt(i)

\* The chain lets one write after the other to the disk.
Write == WriteAt(1)

LogNext == LogPost \/ Dispose \/ Tick \/ AskLog \/ Shutdown \/ Write

LogSpec == LogInit /\ [][LogNext]_logVars

-----------------------------------------------------------------------------
(***************************************************************************)
(* Properties                                                              *)
(***************************************************************************)

\* What is on disk, the batches still to be written in the order of the chain, and
\* the buffer.
Parts == 0 .. Len(flushChain) + 1
Part(p) ==
    IF p = 0 THEN logFile ELSE IF p <= Len(flushChain) THEN flushChain[p].events ELSE log
Held == UNION {ToSet(Part(p)) : p \in Parts}

\* The file and what is still to be written hold the events in the order in which
\* they were posted, once each, and all of them but those of a failed write: the
\* flushes of timer, commands and requests never overtake each other.
LogKeepsOrder ==
    /\ \A p, q \in Parts : \A i \in DOMAIN Part(p), k \in DOMAIN Part(q) :
         p < q \/ (p = q /\ i < k) => Part(p)[i] < Part(q)[k]
    /\ Held = (1 .. posted) \ lostEvents

\* Who asked for the log finds all events of before in it, but those of a failed
\* write; if the buffer was empty, flush has answered although an earlier flush
\* may still have to write them.
AskerFindsEvents ==
    asker.stage = "answered" =>
        \A n \in 1 .. asker.upTo :
            \/ n \in ToSet(logFile) \cup lostEvents
            \/ asker.hadNone /\ n \notin ToSet(log)

\* Every event is written in the end, or its write fails, or the observer is shut
\* down: no failed write and no empty flush ends the periodic flushes.
EventsAreWritten ==
    \A n \in Events : (posted >= n) ~> (n \in ToSet(logFile) \cup lostEvents \/ closing # "no")
=============================================================================
