------------------------------- MODULE Mutex -------------------------------
(***************************************************************************)
(* What a caller of NodeIPCMutex.acquire is promised: of all the calls     *)
(* that compete for one lock id, in this process or another, at most one   *)
(* runs its function at a time.  A call may give up, and a process may die *)
(* with all of its calls; the lock it held is then free.                   *)
(***************************************************************************)
CONSTANT Calls
VARIABLE stage

Stages == {"waiting", "holding", "finished", "dead"}

Init == stage = [c \in Calls |-> "waiting"]

\* The call gets the lock: nobody else may be holding it.
Enter(c) ==
    /\ stage[c] = "waiting"
    /\ \A d \in Calls : stage[d] # "holding"
    /\ stage' = [stage EXCEPT ![c] = "holding"]

\* The call gives the lock back; it is answered, or it queues up once more.
Leave(c, next) ==
    /\ stage[c] = "holding"
    /\ stage' = [stage EXCEPT ![c] = next]

\* The call is answered with an error without having had the lock.
GiveUp(c) ==
    /\ stage[c] = "waiting"
    /\ stage' = [stage EXCEPT ![c] = "finished"]

\* A process dies: its unanswered calls die with it.
Die(S) == stage' = [c \in Calls |-> IF c \in S THEN "dead" ELSE stage[c]]

Next ==
    \/ \E c \in Calls : Enter(c)
    \/ \E c \in Calls, next \in {"waiting", "finished"} : Leave(c, next)
    \/ \E c \in Calls : GiveUp(c)
    \/ \E S \in SUBSET Calls : Die(S)

Spec == Init /\ [][Next]_stage
=============================================================================
