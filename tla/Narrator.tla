---- MODULE Narrator ----
(* The narrator: src/src/findevil/narrator/service.py and graph.py.  Each   *)
(* frame of a conflict is debated through the facade, one debate at a time *)
(* and each under a budget; the pivots of the watcher compete for the same *)
(* lock.                                                                   *)
EXTENDS InferenceFacade

CONSTANTS
    Debates,        \* the tasks of the narrator, one for each conflict frame
    Permits         \* debates, and pivots, at a time (FINDEVIL_NARRATOR_CONC, _WATCHER_CONC)

(* One process runs the narrator, with all of its tasks.                   *)
ASSUME DebatesAssumption ==
    /\ Debates \subseteq Callers
    /\ \A d, e \in Debates : Home[d] = Home[e]

(* The nodes of the graph of a debate, and the one request of a pivot.     *)
ASSUME ScriptAssumption ==
    \A c \in Callers :
        Script[c] = IF c \in Debates
                    THEN <<"prosecutor", "defense", "judge", "swapped">>
                    ELSE <<"pivot">>

Pivots == Callers \ Debates

VARIABLES
    waiting,        \* the debates that wait for a permit, in order of arrival
    inside,         \* the debates that have one
    exhibits,       \* the debates that have collected their exhibits
    scores,         \* the scores the judge has given in a debate, in order
    rows            \* the narrator's entries in the ledger

vars == <<facadeVars, waiting, inside, exhibits, scores, rows>>

Init ==
    /\ FacadeInit
    /\ waiting = <<>> /\ inside = {} /\ exhibits = {}
    /\ scores = [d \in Debates |-> <<>>]
    /\ rows = <<>>

Begun(c) == stage[c] # "idle" \/ attempt[c] > 0 \/ part[c] > 1

(* A conflict_ledger or escalate_human frame: run_forever makes a task of  *)
(* it at once, and the tasks wait for the semaphore in that order.         *)
Receive(d) ==
    /\ outcome[d] = "open" /\ d \notin inside \cup Range(waiting)
    /\ waiting' = Append(waiting, d)
    /\ UNCHANGED <<facadeVars, inside, exhibits, scores, rows>>

(* The debate begins with the ledger's findings on the artifact, which are *)
(* read on the thread pool, outside of the budget.                         *)
Begin ==
    /\ waiting # <<>> /\ Cardinality(inside) < Permits
    /\ LET d == Head(waiting)
       IN  /\ inside' = inside \cup {d}
           /\ Call(d)
    /\ waiting' = Tail(waiting)
    /\ UNCHANGED <<part, attempt, heard, outcome, exhibits, scores, rows>>

(* The exhibits are read, or could not be: the debate goes on.             *)
Collect(d) ==
    /\ d \in inside \ exhibits
    /\ Called(d)
    /\ exhibits' = exhibits \cup {d}
    /\ UNCHANGED <<part, attempt, heard, outcome, waiting, inside, scores, rows>>

(* prosecutor, defense, judge and the judge again with the arguments       *)
(* swapped.                                                                *)
Argue(d) ==
    /\ d \in exhibits
    /\ Request(d)
    /\ UNCHANGED <<waiting, inside, exhibits, scores, rows>>

(* A pivot makes its request; the watcher has a semaphore of its own.      *)
Pivot(q) ==
    /\ Cardinality({r \in Pivots \ {q} : Begun(r) /\ outcome[r] = "open"}) < Permits
    /\ Request(q)
    /\ UNCHANGED <<waiting, inside, exhibits, scores, rows>>

Hear(c) ==
    /\ Respond(c)
    /\ UNCHANGED <<waiting, inside, exhibits, scores, rows>>

(* Mutation: a debate that does not come to its end keeps its permit.      *)
PermitKept(tasks) ==
    /\ exhibits' = exhibits \ tasks
    /\ scores' = [d \in Debates |-> IF d \in tasks THEN <<>> ELSE scores[d]]
    /\ UNCHANGED inside

Forget(tasks) ==
    /\ inside' = inside \ tasks
    /\ exhibits' = exhibits \ tasks
    /\ scores' = [d \in Debates |-> IF d \in tasks THEN <<>> ELSE scores[d]]

(* A request returns; an error ends the task, and so does the answer to a  *)
(* pivot, whose finding the watcher appends.                               *)
Answered(c) ==
    /\ Return(c)
    /\ IF outcome'[c] # "open" THEN Forget({c})
       ELSE /\ scores' =
                 IF c \in Debates /\ Fitting(c) /\ Role(c) \in {"judge", "swapped"}
                 THEN [scores EXCEPT ![c] = Append(@, ScoreOf(heard[c].fields))]
                 ELSE scores
            /\ UNCHANGED <<inside, exhibits>>
    /\ UNCHANGED <<waiting, rows>>

(* The variant that keeps the lower one.                                   *)
LowerVerdict(d) == IF scores[d][2] >= scores[d][1] THEN scores[d][1] ELSE scores[d][2]

(* The swapped verdict replaces the first unless its score is lower.       *)
Verdict(d) == IF scores[d][2] >= scores[d][1] THEN scores[d][2] ELSE scores[d][1]

(* The verdict is published, or could not be, and given to the ledger.     *)
Tell(d) ==
    /\ d \in inside /\ outcome[d] = "open" /\ part[d] > Len(Script[d])
    /\ Call(d)
    /\ UNCHANGED <<part, attempt, heard, outcome, waiting, inside, exhibits, scores, rows>>

(* The entry is appended, or could not be, and the debate ends.            *)
Told(d) ==
    /\ d \in exhibits /\ Called(d)
    /\ \/ rows' = Append(rows, [debate |-> d, score |-> Verdict(d)])
       \/ UNCHANGED rows
    /\ outcome' = [outcome EXCEPT ![d] = "told"]
    /\ inside' = inside \ {d}
    /\ exhibits' = exhibits \ {d}
    /\ UNCHANGED <<part, attempt, heard, waiting, scores>>

Budget(c) ==
    /\ c \in exhibits \cup Pivots
    /\ Expire(c)
    /\ Forget({c})
    /\ UNCHANGED <<waiting, rows>>

Thread ==
    /\ LockStep
    /\ UNCHANGED <<waiting, inside, exhibits, scores, rows>>

(* A process dies; frames it has received are not received again.          *)
Crash(p) ==
    LET begun == {c \in Callers : Begun(c) \/ c \in inside \cup Range(waiting)}
        lost == {c \in begun : Home[c] = p /\ outcome[c] = "open"}
    IN  /\ Die(p, begun)
        /\ End(lost)
        /\ Forget(lost)
        /\ waiting' = IF Range(waiting) \cap lost = {} THEN waiting ELSE <<>>
        /\ UNCHANGED rows

Next ==
    \/ Begin
    \/ Thread
    \/ \E d \in Debates : Receive(d) \/ Collect(d) \/ Argue(d) \/ Tell(d) \/ Told(d)
    \/ \E q \in Pivots : Pivot(q)
    \/ \E c \in Callers : Hear(c) \/ Answered(c) \/ Budget(c)
    \/ \E p \in Processes : Crash(p)

Spec == Init /\ [][Next]_vars

(* Threads run and requests end (FINDEVIL_INFERENCE_HTTP_TIMEOUT_S), time  *)
(* limits pass, and the event loop goes on with what is ready; nobody has  *)
(* to make a pivot or to send a frame.                                     *)
Fairness ==
    /\ \A p \in Processes : WF_vars(Thread /\ TakeJob(p))
    /\ \A c \in Callers :
          /\ WF_vars(Thread /\ (Locked(c) \/ Dropped(c)))
          /\ WF_vars(Hear(c)) /\ WF_vars(Answered(c)) /\ WF_vars(Budget(c))
    /\ \A d \in Debates : WF_vars(Collect(d) \/ Argue(d) \/ Tell(d) \/ Told(d))
    /\ WF_vars(Begin)

FairSpec == Spec /\ Fairness

Server == INSTANCE ModelServer WITH serving <- Serving

(* However tasks are cancelled and processes die, the server is asked by   *)
(* one task at a time: one posts, though the server may still be at work   *)
(* on what a cancelled one posted (facade.py:184-204, 304-313).            *)
Refines == Server!Spec

(* With one permit in a process, as findevil-watcher.service and the       *)
(* narrator's default have it, the lock always comes back, although its    *)
(* release is a job of the pool in whose threads those wait for it whose   *)
(* time was up.  With two permits it need not: a pivot whose time is up    *)
(* gives its permit back and keeps its thread, so that of three pivots two *)
(* can fill two threads while the release of the third waits for one       *)
(* (agent.py:82, facade.py:304-313).                                       *)
LockReturns == \A c \in Callers : []<>(lock # c)

(* A debate that has been received ends, whether or not its budget passes  *)
(* in a thread of the pool that nothing can cancel, and the permit goes to *)
(* the next one (service.py:126-137, 229-236).                             *)
DebatesEnd == \A d \in Debates : []<>(d \notin inside \cup Range(waiting))

(* The ledger has at most one verdict on a frame, that of a debate that    *)
(* went to its end, and it is the higher of the two that the judge gave,   *)
(* one for each order of the arguments (graph.py:119-149).                 *)
HigherOfBoth ==
    /\ IsInjective([i \in DOMAIN rows |-> rows[i].debate])
    /\ \A i \in DOMAIN rows :
          LET given == scores[rows[i].debate]
          IN  /\ outcome[rows[i].debate] = "told"
              /\ Len(given) = 2 /\ rows[i].score = Max(Range(given))
====
