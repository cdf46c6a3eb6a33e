------------------------------- MODULE TaskQueue -------------------------------
(***************************************************************************)
(* What a family of AsyncQueues promises the compilation, with the maps,   *)
(* lists, flags and scheduled callbacks of webpack/lib/util/AsyncQueue.js  *)
(* left out: jobs that run at most once and never more than the limit at   *)
(* a time, and callers that are told the outcome of their job exactly      *)
(* once.  AsyncQueue implements it (AsyncQueue!ImplementsTaskQueue).       *)
(***************************************************************************)
EXTENDS Integers, FiniteSets

CONSTANTS
    Job,        \* finite, without 0
    Caller,
    Limit       \* at least 1

VARIABLES
    job,    \* "free" -> "queued" -> "processing" -> "done", or "dropped" while
            \* it is queued, or "free" -> "stopping" -> "done" when refused
    limit,  \* how many jobs may be processed at the same time
    call,   \* "fresh" -> ("adding") -> ("attached") -> "answered" or "refused"
    on      \* the job a caller is attached to, or 0

vars == <<job, limit, call, on>>

Init ==
    /\ job = [j \in Job |-> "free"]
    /\ limit = Limit
    /\ call = [c \in Caller |-> "fresh"]
    /\ on = [c \in Caller |-> 0]

Processing == {j \in Job : job[j] = "processing"}

\* A caller that has not been given to a job yet.
Undecided(c) == call[c] \in {"fresh", "adding"}

\* The caller hears of its outcome without a job, or goes on to submit later.
Reply(c) ==
    /\ Undecided(c)
    /\ \/ call' = [call EXCEPT ![c] = "refused"]
       \/ call' = [call EXCEPT ![c] = "adding"]
       \/ (\E j \in Job : job[j] = "done") /\ call' = [call EXCEPT ![c] = "answered"]
    /\ UNCHANGED <<job, limit, on>>

\* The caller gets a job of its own or joins one that has not ended.
Submit(c, j) ==
    /\ Undecided(c)
    /\ \/ job[j] = "free" /\ \E s \in {"queued", "stopping"} : job' = [job EXCEPT ![j] = s]
       \/ job[j] \in {"queued", "processing", "stopping"} /\ UNCHANGED job
    /\ call' = [call EXCEPT ![c] = "attached"]
    /\ on' = [on EXCEPT ![c] = j]
    /\ UNCHANGED limit

\* Every caller of the jobs is told, and none of them is ever told again.
Tell(J, outcome) ==
    /\ call' = [c \in Caller |-> IF on[c] \in J THEN outcome ELSE call[c]]
    /\ on' = [c \in Caller |-> IF on[c] \in J THEN 0 ELSE on[c]]

Start(j) ==
    /\ job[j] = "queued"
    /\ Cardinality(Processing) < limit
    /\ job' = [job EXCEPT ![j] = "processing"]
    /\ UNCHANGED <<limit, call, on>>

End(j) ==
    /\ \/ job[j] = "processing" /\ Tell({j}, "answered")
       \/ job[j] = "stopping" /\ Tell({j}, "refused")
    /\ job' = [job EXCEPT ![j] = "done"]
    /\ UNCHANGED limit

\* Waiting jobs are refused together, without having been processed.
Refuse(J) ==
    /\ \A j \in J : job[j] = "queued"
    /\ job' = [j \in Job |-> IF j \in J THEN "done" ELSE job[j]]
    /\ Tell(J, "refused")
    /\ UNCHANGED limit

\* A waiting job is forgotten; its callers are never told.
Drop(j) ==
    /\ job[j] = "queued"
    /\ job' = [job EXCEPT ![j] = "dropped"]
    /\ UNCHANGED <<limit, call, on>>

ChangeLimit ==
    /\ limit' \in {limit - 1, limit + 1}
    /\ limit' >= Limit
    /\ UNCHANGED <<job, call, on>>

Next ==
    \/ \E c \in Caller : Reply(c) \/ \E j \in Job : Submit(c, j)
    \/ \E j \in Job : Start(j) \/ End(j) \/ Drop(j)
    \/ \E J \in SUBSET Job : Refuse(J)
    \/ ChangeLimit

\* A job that may be processed is: no wake-up is lost.
Spec == Init /\ [][Next]_vars /\ WF_vars(\E j \in Job : Start(j))
=============================================================================
