---- MODULE InferenceLock ----
(* The lock of the inference facade: src/src/findevil/inference/facade.py.  *)
(*                                                                         *)
(* Every request to the model server is made under one lock file, which    *)
(* watcher, narrator and scripts share.  An event loop must not block, so  *)
(* the lock is taken and given back by jobs of the default thread pool of  *)
(* the process, and the jobs of a task survive the task: asyncio cancels a *)
(* task, never a thread.                                                   *)
EXTENDS Integers, FiniteSets, Sequences

CONSTANTS
    Callers,        \* tasks that make requests, one after the other
    Processes,
    Home,           \* the process of a task
    Workers,        \* threads in the default pool of each process
    Nobody

ASSUME HomeAssumption == Home \in [Callers -> Processes]

ASSUME WorkersAssumption == Workers \in [Processes -> Nat \ {0}]

ASSUME NobodyAssumption == Nobody \notin Callers

VARIABLES
    stage,          \* what a task is doing: "idle", "acquiring", "posting",
                    \* "releasing", "calling" (without the lock) or "gone"
    job,            \* the job it has given to the pool of its process:
                    \* "none", "acquire", "release" or "call"
    queue,          \* the jobs of a pool that no thread has taken, by their tasks
    busy,           \* the tasks whose jobs have a thread
    lock            \* the task for which the lock file is held

lockVars == <<stage, job, queue, busy, lock>>

LockInit ==
    /\ stage = [c \in Callers |-> "idle"]
    /\ job = [c \in Callers |-> "none"]
    /\ queue = [p \in Processes |-> <<>>]
    /\ busy = {}
    /\ lock = Nobody

(* asyncio.to_thread.                                                      *)
Submit(c, what) ==
    /\ job' = [job EXCEPT ![c] = what]
    /\ queue' = [queue EXCEPT ![Home[c]] = Append(@, c)]

(* A task asks for the lock: _openai_chat.                                 *)
Chat(c) ==
    /\ stage[c] = "idle"
    /\ stage' = [stage EXCEPT ![c] = "acquiring"]
    /\ Submit(c, "acquire")
    /\ UNCHANGED <<busy, lock>>

(* A free thread takes the next job.  The job of a task that was cancelled *)
(* while it was queued is thrown away, and with it the last reference to   *)
(* the file it was to unlock.                                              *)
TakeJob(p) ==
    /\ queue[p] # <<>>
    /\ Cardinality({c \in busy : Home[c] = p}) < Workers[p]
    /\ LET c == Head(queue[p])
           void == stage[c] = "gone"
       IN  /\ queue' = [queue EXCEPT ![p] = Tail(@)]
           /\ busy' = IF void THEN busy ELSE busy \cup {c}
           /\ job' = IF void THEN [job EXCEPT ![c] = "none"] ELSE job
           /\ lock' = IF void /\ lock = c THEN Nobody ELSE lock
           /\ UNCHANGED stage

JobEnds(c) ==
    /\ busy' = busy \ {c}
    /\ job' = [job EXCEPT ![c] = "none"]
    /\ UNCHANGED queue

(* The variant whose wait for the lock ends without it.                    *)
LockedShared(c) ==
    /\ c \in busy /\ job[c] = "acquire"
    /\ lock' = c
    /\ stage' = IF stage[c] = "gone" THEN stage ELSE [stage EXCEPT ![c] = "posting"]
    /\ JobEnds(c)

(* A thread waits in flock until the file is free.  Its task may have gone *)
(* meanwhile; the thread takes the lock none the less.                     *)
Locked(c) ==
    /\ c \in busy /\ job[c] = "acquire"
    /\ lock = Nobody
    /\ lock' = c
    /\ stage' = IF stage[c] = "gone" THEN stage ELSE [stage EXCEPT ![c] = "posting"]
    /\ JobEnds(c)

(* The event loop drops the result of a job nobody awaits: the file object *)
(* has no reference left and is closed.                                    *)
Dropped(c) ==
    /\ stage[c] = "gone" /\ job[c] = "none" /\ lock = c
    /\ lock' = Nobody
    /\ UNCHANGED <<stage, job, queue, busy>>

(* The variant that gives the lock back after an answer only.              *)
PostedNoFinally(c) ==
    /\ stage[c] = "posting"
    /\ stage' = [stage EXCEPT ![c] = "idle"]
    /\ UNCHANGED <<job, queue, busy, lock>>

(* The answer of the server, an error of it, or the time limit of the      *)
(* client.                                                                 *)
Posted(c) ==
    /\ stage[c] = "posting"
    /\ stage' = [stage EXCEPT ![c] = "releasing"]
    /\ Submit(c, "release")
    /\ UNCHANGED <<busy, lock>>

(* The release of a request, whether its task still waits for it or not.   *)
Unlocked(c) ==
    /\ c \in busy /\ job[c] = "release"
    /\ lock' = Nobody
    /\ stage' = IF stage[c] = "gone" THEN stage ELSE [stage EXCEPT ![c] = "idle"]
    /\ JobEnds(c)

(* Other work of a task on the pool: the narrator's reads and appends.     *)
Call(c) ==
    /\ stage[c] = "idle"
    /\ stage' = [stage EXCEPT ![c] = "calling"]
    /\ Submit(c, "call")
    /\ UNCHANGED <<busy, lock>>

Called(c) ==
    /\ c \in busy /\ job[c] = "call"
    /\ stage' = [stage EXCEPT ![c] = "idle"]
    /\ JobEnds(c)
    /\ UNCHANGED lock

(* The time limit of a pivot or debate (anyio.move_on_after).  A request   *)
(* in progress still submits its release, which the scope then cancels if  *)
(* it is still queued.                                                     *)
Cancel(c) ==
    /\ stage[c] \in {"idle", "acquiring", "posting", "releasing"}
    /\ stage' = [stage EXCEPT ![c] = "gone"]
    /\ IF stage[c] = "posting" THEN Submit(c, "release") ELSE UNCHANGED <<job, queue>>
    /\ UNCHANGED <<busy, lock>>

(* A process dies with its tasks and threads; its files are closed.        *)
Die(p, tasks) ==
    LET own == {c \in Callers : Home[c] = p /\ (c \in tasks \/ stage[c] # "idle")}
    IN  /\ stage' = [c \in Callers |-> IF c \in own THEN "gone" ELSE stage[c]]
        /\ job' = [c \in Callers |-> IF c \in own THEN "none" ELSE job[c]]
        /\ queue' = [queue EXCEPT ![p] = <<>>]
        /\ busy' = busy \ own
        /\ lock' = IF lock \in own THEN Nobody ELSE lock

Serving == IF lock # Nobody /\ stage[lock] = "posting" THEN lock ELSE Nobody
====
