----------------------------- MODULE Blackboard -----------------------------
(***************************************************************************)
(* What becomes of a window that fires: _process_window and the sinks of   *)
(* the ingest process (ingest/flow.py, ingest/sinks.py), with the          *)
(* pheromone store it shares with the decay worker and the priors, the     *)
(* JetStream publication (transport/nats_bus.py) and the shadow channel of *)
(* the dashboards (mcp_server/shadow.py, ui/http.py).                      *)
(*                                                                         *)
(* Frames are numbered as the windows are processed, one after the other.  *)
(***************************************************************************)
EXTENDS Pheromone

CONSTANTS
    Outcomes,       \* [bel, pl, action, sensors]: what the fusion may say of a window
    Waterline,      \* messages a subscriber's socket holds (8192)
    MaxWindows      \* bound: windows that fire

ASSUME BlackboardAssumption ==
    /\ Waterline \in Nat \ {0} /\ MaxWindows \in Nat
    /\ \A o \in Outcomes :
           /\ o \in [bel : 0 .. 1000, pl : 0 .. 1000, action : STRING, sensors : SUBSET Sensors]
           /\ o.bel <= o.pl
           /\ o.sensors # {} /\ IsFiniteSet(o.sensors)

VARIABLES
    stage,      \* where the window processor is
    outcome,    \* what the fusion said of the present window
    id,         \* the number of its frame
    entries,    \* the frames that have a consensus entry in the ledger
    failed,     \* those whose append failed
    frame,      \* the last one published on ZeroMQ: [id, parent]
    pivot,      \* the last one sent to the watcher as a pivot
    tries,      \* attempts to publish the frame on JetStream
    stored,     \* the last frame in the consensus stream
    inbox,      \* what the socket of the shadow publisher holds
    shown       \* the frames that reached the dashboard

NoOutcome == [bel |-> 0, pl |-> 0, action |-> "none", sensors |-> {}]

windowVars == <<stage, outcome, id>>
ledgerVars == <<entries, failed>>
sinkVars == <<frame, pivot>>
natsVars == <<tries, stored>>
shadowVars == <<inbox, shown>>

vars == <<boardVars, windowVars, ledgerVars, sinkVars, natsVars, shadowVars>>

TypeOK ==
    /\ BoardTypeOK
    /\ stage \in {"idle", "fused", "deposited", "named", "described", "recorded",
                  "published", "sent"}
    /\ outcome \in Outcomes \cup {NoOutcome}
    /\ stage # "idle" => outcome \in Outcomes
    /\ id \in Nat
    /\ entries \subseteq 1 .. id /\ failed \subseteq 1 .. id
    /\ frame \in [id : 0 .. id, parent : 0 .. id]
    /\ pivot \in 0 .. id /\ tries \in 0 .. 2 /\ stored \in 0 .. id
    /\ inbox \in Seq(1 .. id) /\ shown \in Seq(1 .. id)

Init ==
    /\ BoardInit
    /\ stage = "idle" /\ outcome = NoOutcome /\ id = 0
    /\ entries = {} /\ failed = {}
    /\ frame = [id |-> 0, parent |-> 0] /\ pivot = 0
    /\ tries = 0 /\ stored = 0
    /\ inbox = <<>> /\ shown = <<>>

-----------------------------------------------------------------------------
(* The window processor.                                                   *)

Idle == stage' = "idle" /\ outcome' = NoOutcome /\ tries' = 0

(* A window fires, its reports are fused.                                  *)
Fire(o) ==
    /\ stage = "idle" /\ "ingest" \in up
    /\ id < MaxWindows
    /\ outcome' = o
    /\ id' = id + 1
    /\ stage' = "fused"
    /\ UNCHANGED <<boardVars, ledgerVars, sinkVars, natsVars, shadowVars>>

(* tau_delta is the belief less half of the uncertainty; the script is     *)
(* told the sensor of one report.                                          *)
OfWindow(sensor) ==
    LET half == (outcome.pl - outcome.bel) \div 2
    IN  [delta |-> IF outcome.bel > half + 10 THEN outcome.bel - half ELSE 10,
         bel |-> outcome.bel, sensor |-> sensor, tauMax |-> TauMax]

Deposit ==
    /\ stage = "fused" /\ Callable
    /\ \E sensor \in outcome.sensors :
           store' = [Deposited(store, OfWindow(sensor)) EXCEPT !.witnessed = TRUE]
    /\ stage' = "deposited"
    /\ UNCHANGED <<valkey, scripts, up, due, iocs, bundles, faults, outcome, id,
                   ledgerVars, sinkVars, natsVars, shadowVars>>

(* An error of the deposit is not caught: it ends the dataflow.            *)
DepositFails ==
    /\ stage = "fused" /\ ~Callable
    /\ up' = up \ {"ingest"}
    /\ Idle
    /\ UNCHANGED <<store, valkey, scripts, due, iocs, bundles, faults, id,
                   ledgerVars, sinkVars, stored, shadowVars>>

(* SADD of all sensors of the window.                                      *)
AddSensors ==
    /\ stage = "deposited"
    /\ IF valkey
       THEN /\ store' = [store EXCEPT !.sensors = @ \cup outcome.sensors]
            /\ stage' = "named"
       ELSE stage' = "described" /\ UNCHANGED store
    /\ UNCHANGED <<valkey, scripts, up, due, iocs, bundles, faults, outcome, id,
                   ledgerVars, sinkVars, natsVars, shadowVars>>

(* Mutation: the diversity of the window is added to the key's.            *)
SetDiversitySum ==
    /\ stage = "named"
    /\ store' = IF valkey
                THEN [store EXCEPT !.diversity = @ + Cardinality(outcome.sensors)] ELSE store
    /\ stage' = "described"
    /\ UNCHANGED <<valkey, scripts, up, due, iocs, bundles, faults, outcome, id,
                   ledgerVars, sinkVars, natsVars, shadowVars>>

(* The diversity of the window replaces the one the script has counted.    *)
SetDiversity ==
    /\ stage = "named"
    /\ store' = IF valkey
                THEN [store EXCEPT !.diversity = Cardinality(outcome.sensors)] ELSE store
    /\ stage' = "described"
    /\ UNCHANGED <<valkey, scripts, up, due, iocs, bundles, faults, outcome, id,
                   ledgerVars, sinkVars, natsVars, shadowVars>>

(* Mutation: only what the swarm acts on is recorded.                      *)
ActedOn(o) == o.action # "observe"

(* should_append_ledger                                                    *)
ShouldAppend(o) == o.action # "observe" \/ o.bel >= 400

(* The consensus entry, or the error of its append, which is swallowed.    *)
Record ==
    /\ stage = "described"
    /\ stage' = "recorded"
    /\ IF ShouldAppend(outcome)
       THEN \/ entries' = entries \cup {id} /\ UNCHANGED failed
            \/ failed' = failed \cup {id} /\ UNCHANGED entries
       ELSE UNCHANGED ledgerVars
    /\ UNCHANGED <<boardVars, outcome, id, sinkVars, natsVars, shadowVars>>

-----------------------------------------------------------------------------
(* The sinks.                                                              *)

(* What a PUB socket does with a message for a subscriber without room.    *)
Offered(box, f) == IF Len(box) < Waterline THEN Append(box, f) ELSE box

(* The frame goes out on the PUB socket.                                   *)
Publish ==
    /\ stage = "recorded"
    /\ frame' = [id |-> id, parent |-> IF id \in entries THEN id ELSE 0]
    /\ inbox' = IF "mcp" \in up THEN Offered(inbox, id) ELSE inbox
    /\ stage' = "published"
    /\ UNCHANGED <<boardVars, outcome, id, ledgerVars, pivot, natsVars, shown>>

(* Stored or given up: _NatsPartition logs the error and goes on.          *)
Sent == stage' = "sent" /\ tries' = 0

(* An attempt of NatsBus.publish: the message is stored or not, and the    *)
(* answer may take longer than five seconds; after three attempts, or for  *)
(* any other error, the sink gives the frame up.                           *)
NatsAttempt ==
    /\ stage = "published"
    /\ stored' \in {stored, id}
    /\ \/ Sent
       \/ tries < 2 /\ tries' = tries + 1 /\ UNCHANGED stage
    /\ UNCHANGED <<boardVars, outcome, id, ledgerVars, sinkVars, shadowVars>>

(* _should_spawn                                                           *)
ShouldSpawn(o) == o.action \in {"escalate_human", "conflict_ledger"} \/ o.bel >= 500

(* The last sink: a pivot for the watcher.  Its socket is one of asyncio's *)
(* and no loop runs here: what cannot be sent at once is never sent.       *)
Spawn ==
    /\ stage = "sent"
    /\ pivot' \in {pivot} \cup {f \in {id} : ShouldSpawn(outcome)}
    /\ Idle
    /\ UNCHANGED <<boardVars, id, ledgerVars, frame, stored, shadowVars>>

(* _sse_shadow: the dashboard gets what its subscription delivers, and     *)
(* misses what is published while it has none.                             *)
Relay(f) == shown' = Append(shown, f) \/ UNCHANGED shown

(* Mutation: a frame whose PUBLISH has no answer is sent again.            *)
ForwardAgain ==
    /\ inbox # <<>>
    /\ inbox' \in {inbox, Tail(inbox)}
    /\ IF valkey THEN Relay(Head(inbox)) ELSE UNCHANGED shown
    /\ UNCHANGED <<boardVars, windowVars, ledgerVars, sinkVars, natsVars>>

(* The shadow publisher passes a frame on to the subscribers of the Valkey *)
(* channel; it is gone when Valkey fails.                                  *)
Forward ==
    /\ inbox # <<>>
    /\ inbox' = Tail(inbox)
    /\ IF valkey THEN Relay(Head(inbox)) ELSE UNCHANGED shown
    /\ UNCHANGED <<boardVars, windowVars, ledgerVars, sinkVars, natsVars>>

-----------------------------------------------------------------------------

Board ==
    \/ \E b \in Bundles : IngestBundle(b)
    \/ DepositPrior \/ Scan \/ Decay \/ ValkeyDies
    \/ \E p \in Processes : Start(p)

(* The window, the frame and the socket of a process that dies.            *)
Gone(dead) ==
    /\ IF "ingest" \in dead THEN Idle ELSE UNCHANGED <<stage, outcome, tries>>
    /\ inbox' = IF "mcp" \in dead THEN <<>> ELSE inbox
    /\ UNCHANGED <<id, ledgerVars, sinkVars, stored, shown>>

Process ==
    \/ Deposit \/ DepositFails \/ AddSensors \/ SetDiversity \/ Record
    \/ Publish \/ NatsAttempt \/ Spawn

Next ==
    \/ Board /\ UNCHANGED <<windowVars, ledgerVars, sinkVars, natsVars, shadowVars>>
    \/ \E p \in Processes : Die(p) /\ Gone({p})
    \/ ValkeyReturns /\ Gone(up)
    \/ \E o \in Outcomes : Fire(o)
    \/ Process
    \/ Forward

Spec == Init /\ [][Next]_vars

(* systemd restarts what died (Restart=on-failure), the decay worker       *)
(* ticks, and an ingestion goes on.                                        *)
Fairness ==
    LET Quiet == UNCHANGED <<windowVars, ledgerVars, sinkVars, natsVars, shadowVars>>
    IN  /\ WF_vars(ValkeyReturns /\ Gone(up))
        /\ \A p \in Processes : WF_vars(Start(p) /\ Quiet)
        /\ WF_vars(Scan /\ Quiet) /\ WF_vars(Decay /\ Quiet) /\ WF_vars(DepositPrior /\ Quiet)
        /\ WF_vars(Process)

FairSpec == Spec /\ Fairness

-----------------------------------------------------------------------------
(* Properties.                                                             *)

(* The sensor diversity that the blackboard shows is never more than the   *)
(* sensors it can name, although three commands of the window processor    *)
(* and the script of another process set the two (flow.py:309-331).        *)
DiversityWitnessed == store.diversity <= Cardinality(store.sensors)

(* A frame that leaves the process names its entry only when the ledger    *)
(* has it, and one that asks for an action or for a pivot has its entry    *)
(* unless the append failed, wherever the process died: no consumer acts   *)
(* on a decision that is still to be recorded (flow.py:363-376, 597-602).  *)
FramesBacked ==
    /\ frame.parent # 0 => frame.parent \in entries
    /\ pivot # 0 => pivot \in entries \cup failed
    /\ stage \in {"published", "sent"} /\ ShouldAppend(outcome) =>
           id \in entries \cup failed

(* Frames may get lost or be stored twice, but the consensus stream never  *)
(* goes back to an earlier frame, and the dashboard sees every frame once  *)
(* at most and in order (nats_bus.py:85-97, shadow.py:62-82).              *)
InOrder ==
    [][/\ stored' >= stored
       /\ shown' # shown => shown = <<>> \/ Last(shown') > Last(shown)]_vars
=============================================================================
