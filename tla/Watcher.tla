------------------------------ MODULE Watcher ------------------------------
(***************************************************************************)
(* The fractal watcher (fractal/watcher.py, fractal/agent.py): an asyncio  *)
(* process that turns spawn frames into pivot tasks under a depth, a width *)
(* and a concurrency budget, runs one time-limited inference in each, has  *)
(* a thread append the finding to the ledger, reports, and spawns the      *)
(* follow-ups of the finding one level deeper.                             *)
(*                                                                         *)
(* A pivot is its number in `pivots`, in the order the tasks were created. *)
(* The inference itself answers, raises or runs into the time limit.       *)
(***************************************************************************)
EXTENDS Naturals, Sequences, FiniteSets

CONSTANTS
    MaxDepth,       \* settings.fractal.max_depth
    MaxWidth,       \* settings.fractal.max_width
    Slots,          \* max_concurrency, the initial value of the semaphore
    MaxFollowUps,   \* the most follow-ups a finding names
    HasConsumer,    \* is a PULL socket connected to fractal.report?
    MaxPivots       \* bound: the number of pivots ever created

ASSUME WatcherAssumption ==
    /\ MaxDepth \in Nat /\ MaxWidth \in Nat /\ MaxFollowUps \in Nat
    /\ Slots \in Nat \ {0}
    /\ HasConsumer \in BOOLEAN
    /\ MaxPivots \in Nat

VARIABLES
    pivots,     \* the pivot tasks, with the append thread of each
    live,       \* Watcher.live
    free,       \* the semaphore's value
    rows        \* the pivots whose finding is in the ledger, in order

vars == <<pivots, live, free, rows>>

NoParent == 0

(* `stage` is where _dispatch stands ("lost": it never got past its        *)
(* report), `result` the PivotReport it holds, `thread` the append that    *)
(* asyncio.to_thread started.                                              *)
Pivot == [depth : Nat, parent : Nat,
          stage : {"created", "waiting", "infer", "append", "report", "done",
                   "lost"},
          result : {"none", "ok", "ttl", "error"},
          thread : {"none", "running", "wrote", "failed"},
          followUps : 0 .. MaxFollowUps]

NewPivot(depth, parent) ==
    [depth |-> depth, parent |-> parent, stage |-> "created",
     result |-> "none", thread |-> "none", followUps |-> 0]

TypeOK ==
    /\ pivots \in Seq(Pivot)
    /\ live \in 0 .. MaxWidth
    /\ free \in 0 .. Slots
    /\ rows \in Seq(DOMAIN pivots)

Init ==
    /\ pivots = <<>>
    /\ live = 0
    /\ free = Slots
    /\ rows = <<>>

(* A task that is over keeps nothing but what its thread did.              *)
Over(r, stage) ==
    [r EXCEPT !.stage = stage, !.result = "none", !.followUps = 0]

At(stage) == {p \in DOMAIN pivots : pivots[p].stage = stage}

(* The event loop runs new tasks, and the semaphore wakes its waiters, in  *)
(* the order they came.                                                    *)
IsFirst(p, stage) == p \in At(stage) /\ \A q \in At(stage) : p <= q

-----------------------------------------------------------------------------
(* Watcher.                                                                *)

(* run_forever takes a frame; one that is too deep is dropped.             *)
Receive(depth) ==
    /\ Len(pivots) < MaxPivots
    /\ depth < MaxDepth
    /\ pivots' = Append(pivots, NewPivot(depth, NoParent))
    /\ UNCHANGED <<live, free, rows>>

(* _dispatch up to the semaphore.  DepthExceeded and WidthExceeded end the *)
(* task; nobody looks at its exception.                                    *)
Start(p) ==
    /\ IsFirst(p, "created")
    /\ IF pivots[p].depth >= MaxDepth \/ live >= MaxWidth
       THEN /\ pivots' = [pivots EXCEPT ![p].stage = "lost"]
            /\ UNCHANGED live
       ELSE /\ pivots' = [pivots EXCEPT ![p].stage = "waiting"]
            /\ live' = live + 1
    /\ UNCHANGED <<free, rows>>

(* The time limit does not run while a task waits for the semaphore.       *)
Enter(p) ==
    /\ IsFirst(p, "waiting")
    /\ free > 0
    /\ free' = free - 1
    /\ pivots' = [pivots EXCEPT ![p].stage = "infer"]
    /\ UNCHANGED <<live, rows>>

(* run_pivot returns, with its finding if it is ok: the semaphore and      *)
(* then, in the finally, the width are given back.                         *)
Return(p, result) ==
    /\ pivots' = [pivots EXCEPT ![p].stage = "report", ![p].result = result,
                                ![p].followUps = IF result = "ok" THEN @ ELSE 0]
    /\ free' = free + 1
    /\ live' = live - 1
    /\ UNCHANGED rows

(* The report is sent; a PUSH socket without a peer keeps the send waiting.*)
(* Then the follow-ups are spawned, at most MaxWidth of them.              *)
Report(p) ==
    /\ p \in At("report")
    /\ HasConsumer
    /\ LET r == pivots[p]
           n == IF r.followUps <= MaxWidth THEN r.followUps ELSE MaxWidth
           children == IF r.result = "ok" /\ r.depth + 1 < MaxDepth
                       THEN [i \in 1 .. n |-> NewPivot(r.depth + 1, p)]
                       ELSE <<>>
       IN  /\ Len(pivots) + Len(children) <= MaxPivots
           /\ pivots' = [pivots EXCEPT ![p] = Over(r, "done")] \o children
    /\ UNCHANGED <<live, free, rows>>

-----------------------------------------------------------------------------
(* run_pivot.                                                              *)

(* A finding that cites its exhibits is handed to a thread.                *)
Finding(p, n) ==
    /\ p \in At("infer")
    /\ pivots' = [pivots EXCEPT ![p].stage = "append", ![p].followUps = n,
                                ![p].thread = "running"]
    /\ UNCHANGED <<live, free, rows>>

(* Mutation: an error leaves the semaphore taken.                          *)
InferFailsHolding(p) ==
    /\ p \in At("infer")
    /\ pivots' = [pivots EXCEPT ![p].stage = "report", ![p].result = "error"]
    /\ live' = live - 1
    /\ UNCHANGED <<free, rows>>

(* The inference raises, or its output is not a finding.                   *)
InferFails(p) ==
    /\ p \in At("infer")
    /\ Return(p, "error")

(* Mutation: the finding is not waited for.                                *)
AppendReturnsEarly(p) ==
    /\ p \in At("append")
    /\ Return(p, "ok")

(* The thread is done; an append that failed is only logged.               *)
AppendReturns(p) ==
    /\ p \in At("append")
    /\ pivots[p].thread # "running"
    /\ Return(p, "ok")

(* The time limit cancels whatever run_pivot waits for; a thread that      *)
(* appends goes on.                                                        *)
Expire(p) ==
    /\ p \in At("infer") \cup At("append")
    /\ Return(p, "ttl")

(* _append_finding, in its thread.                                         *)
ThreadEnds(p) ==
    /\ pivots[p].thread = "running"
    /\ \/ /\ pivots' = [pivots EXCEPT ![p].thread = "wrote"]
          /\ rows' = Append(rows, p)
       \/ /\ pivots' = [pivots EXCEPT ![p].thread = "failed"]
          /\ UNCHANGED rows
    /\ UNCHANGED <<live, free>>

-----------------------------------------------------------------------------

Ended == {"done", "lost"}

(* The process dies with its tasks and threads; systemd starts a new one.  *)
Crash ==
    /\ \E p \in DOMAIN pivots : \/ pivots[p].stage \notin Ended
                                \/ pivots[p].thread = "running"
    /\ pivots' = [p \in DOMAIN pivots |->
                     LET r == IF pivots[p].thread = "running"
                              THEN [pivots[p] EXCEPT !.thread = "failed"]
                              ELSE pivots[p]
                     IN  IF r.stage \in Ended THEN r ELSE Over(r, "lost")]
    /\ live' = 0
    /\ free' = Slots
    /\ UNCHANGED rows

Step(p) ==
    \/ Start(p)
    \/ Enter(p)
    \/ \E n \in 0 .. MaxFollowUps : Finding(p, n)
    \/ InferFails(p)
    \/ AppendReturns(p)
    \/ Expire(p)
    \/ ThreadEnds(p)
    \/ Report(p)

Next ==
    \/ \E depth \in 0 .. MaxDepth : Receive(depth)
    \/ \E p \in DOMAIN pivots : Step(p)
    \/ Crash

Spec == Init /\ [][Next]_vars

(* The event loop runs every task that can go on, and the time limit       *)
(* interrupts the inference and the wait for the thread in the end.        *)
FairSpec == Spec /\ WF_vars(\E p \in DOMAIN pivots : Step(p))

-----------------------------------------------------------------------------
(* Properties.                                                             *)

(* The width counter and the semaphore account for exactly the pivots that *)
(* hold them, whichever way pivots end: "enforces max_depth, max_width,    *)
(* and a GPU-slot semaphore".                                              *)
BudgetsExact ==
    LET running == At("infer") \cup At("append") IN
    /\ live = Cardinality(At("waiting") \cup running)
    /\ free = Slots - Cardinality(running)
    /\ \A p \in DOMAIN pivots : pivots[p].depth < MaxDepth

(* A finding has at most one row, and the row of a follow-up comes after   *)
(* the row of its parent, one level up, unless the parent's append failed: *)
(* the lineage the ledger shows is the lineage that was.                   *)
Lineage ==
    \A i \in DOMAIN rows :
        LET q == pivots[rows[i]].parent IN
        /\ \A j \in DOMAIN rows : rows[j] = rows[i] => j = i
        /\ q # NoParent =>
               /\ pivots[rows[i]].depth = pivots[q].depth + 1
               /\ \/ pivots[q].thread = "failed"
                  \/ \E j \in 1 .. i - 1 : rows[j] = q

(* A pivot that is created or waits for the semaphore goes on in the end,  *)
(* however many came before it: with pivot MaxPivots, all the others may.  *)
PivotsEnd ==
    MaxPivots \in At("created") \cup At("waiting")
        ~> MaxPivots \notin At("created") \cup At("waiting")
=============================================================================
