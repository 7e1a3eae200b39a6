----------------------------- MODULE WebRequests -----------------------------
(***************************************************************************)
(* WebRequestWorkerSingleton: one request at a time for each requester,    *)
(* through the Axios client of the process or, when that could not be      *)
(* made, through fetch.  A timer runs beside every request; it aborts the  *)
(* client's request and reports a time-out or a missing connection.        *)
(*                                                                         *)
(* The client's interceptor for failures returns the failure, so that a    *)
(* failed request may end as a response without data; it may also reject.  *)
(***************************************************************************)
CONSTANT Requesters

VARIABLES
    client,         \* the Axios client could be made
    web,            \* where each request is, or how it ended
    timer           \* its timer

webVars == <<client, web, timer>>

Answered == {"data", "nothing", "wrapped", "thrown"}

WebTypeOK ==
    /\ client \in BOOLEAN
    /\ web \in [Requesters -> {"idle", "sent", "fallback", "stuck"} \cup Answered]
    /\ timer \in [Requesters -> {"off", "armed"}]

WebInit ==
    /\ client \in BOOLEAN
    /\ web = [r \in Requesters |-> "idle"]
    /\ timer = [r \in Requesters |-> "off"]

WebAt(r, stage) == web' = [web EXCEPT ![r] = stage]

\* getWithAxiosOrFetch, up to its first await.  An earlier timer that was not
\* cleared goes on by itself; it is not followed any further.
Send(r) ==
    /\ web[r] \notin {"sent", "fallback", "stuck"}
    /\ WebAt(r, "sent")
    /\ timer' = [timer EXCEPT ![r] = "armed"]
    /\ UNCHANGED client

\* The client resolves, or fetch has an answer or null: the timer is cleared.
Responds(r) ==
    /\ web[r] = "sent"
    /\ \E answer \in {"data", "nothing"} : WebAt(r, answer)
    /\ timer' = [timer EXCEPT ![r] = "off"]
    /\ UNCHANGED client

\* The client rejects, after its retries: nothing clears the timer.
\* makeWebRequest goes on with fetch, downloadFile throws.
Rejects(r, download) ==
    /\ web[r] = "sent" /\ client
    /\ WebAt(r, IF download THEN "thrown" ELSE "fallback")
    /\ UNCHANGED <<client, timer>>

\* makeWebRequest returns the response of this fetch, not the data in it, and
\* throws when there is none.
FallsBack(r) ==
    /\ web[r] = "fallback"
    /\ \E answer \in {"wrapped", "thrown"} : WebAt(r, answer)
    /\ UNCHANGED <<client, timer>>

\* The timer of a request that was not cleared.  The client takes its abort as
\* any other failure; fetch does not see it.
TimerFires(r, download) ==
    /\ timer[r] = "armed"
    /\ timer' = [timer EXCEPT ![r] = "off"]
    /\ IF web[r] = "sent" /\ client
       THEN \E answer \in {"nothing", IF download THEN "thrown" ELSE "fallback"} : WebAt(r, answer)
       ELSE UNCHANGED web
    /\ UNCHANGED client

\* downloadFile awaits the end of the file it writes.  Nobody ends it when there
\* is no data to pipe into it, or the data breaks off.
Stalls(r) ==
    /\ web[r] \in {"nothing", "data"}
    /\ WebAt(r, "stuck")
    /\ UNCHANGED <<client, timer>>

\* The requester goes on with the answer.
Taken(r) ==
    /\ WebAt(r, "idle")
    /\ UNCHANGED <<client, timer>>
=============================================================================
