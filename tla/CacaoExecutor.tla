--------------------------- MODULE CacaoExecutor ---------------------------
(***************************************************************************)
(* The CACAO daemon (cacao/executor.py, cacao/factory.py): one process     *)
(* that takes consensus frames off a ZeroMQ SUB socket, builds a linear    *)
(* playbook from each mitigate frame and runs its steps through the MCP    *)
(* server, one frame at a time.                                            *)
(*                                                                         *)
(* A playbook of n steps has the steps 1 .. n and the end step n + 1.      *)
(* A step is a tool call to the MCP server, which outlives the daemon and  *)
(* the time limit of the call: whoever gives a call up leaves the tool at  *)
(* work, and it may act later or never.  A tool that answers need not have *)
(* acted: the daemon does not read {"ok": False}.  Valkey, MCP and the     *)
(* ledger may fail a call; a failed Valkey write may have landed.          *)
(***************************************************************************)
EXTENDS Naturals, Sequences, FiniteSets

CONSTANTS
    MaxSteps,   \* the longest action list of a technique
    MaxQueue,   \* bound: frames waiting in the SUB socket (8192 in the code)
    MaxRuns     \* bound: no frame is published once there are MaxRuns instances

ASSUME ExecutorAssumption ==
    MaxSteps \in Nat \ {0} /\ MaxQueue \in Nat /\ MaxRuns \in Nat

VARIABLES
    queue,      \* frames in the SUB socket
    pc,         \* where the daemon stands
    steps,      \* the number of steps of the current playbook
    cursor,     \* the current step, None when there is none
    ran,        \* steps_ran
    errors,     \* the steps that have an entry in errors
    inst,       \* cacao:instance:* in Valkey, by creation order
    calls,      \* <<instance, step>> pairs whose tool is at work
    answers,    \* those whose tool returned, whatever it returned
    effects,    \* those whose tool acted
    ledger,     \* the cacao_executed entries
    sent        \* the instances announced on mitigation.fire

locals == <<steps, cursor, ran, errors>>
server == <<calls, answers, effects>>
vars == <<queue, pc, locals, inst, server, ledger, sent>>

None == 0

(* `target` is what _target_from_pher_key makes of the key: a target, None *)
(* or an exception; `steps` what the techniques of the reports map to.     *)
Frame == [action : {"mitigate", "other"},
          target : {"known", "none", "malformed"}, steps : 1 .. MaxSteps]

TypeOK ==
    /\ queue \in Seq(Frame)
    /\ pc \in {"down", "recv", "verify", "connect", "dispatch", "await",
               "finish", "ledger", "announce", "fatal"}
    /\ steps \in 0 .. MaxSteps
    /\ cursor \in 0 .. MaxSteps + 1
    /\ ran \subseteq 1 .. MaxSteps
    /\ errors \subseteq ran
    /\ inst \in Seq([steps : 1 .. MaxSteps,
                     status : {"running", "succeeded", "failed"}])
    /\ calls \cup answers \cup effects \subseteq (DOMAIN inst) \X (1 .. MaxSteps)
    /\ ledger \in Seq([inst : DOMAIN inst, ran : SUBSET (1 .. MaxSteps),
                       status : {"succeeded", "failed"}])
    /\ sent \subseteq DOMAIN inst

Init ==
    /\ queue = <<>>
    /\ pc = "recv"
    /\ steps = 0
    /\ cursor = None
    /\ ran = {}
    /\ errors = {}
    /\ inst = <<>>
    /\ calls = {} /\ answers = {} /\ effects = {}
    /\ ledger = <<>>
    /\ sent = {}

-----------------------------------------------------------------------------
(* The daemon loop.                                                        *)

(* The ingest process publishes a frame; it reaches a daemon that is up    *)
(* and has room for it, and is lost otherwise.                             *)
Publish(f) ==
    /\ pc # "down"
    /\ Len(queue) < MaxQueue
    /\ Len(inst) < MaxRuns
    /\ queue' = Append(queue, f)
    /\ UNCHANGED <<pc, locals, inst, server, ledger, sent>>

Forget ==
    /\ steps' = 0
    /\ cursor' = None
    /\ ran' = {}
    /\ errors' = {}

(* Other actions and unknown keys are skipped; a key whose pid is no       *)
(* number raises outside the try, as does a missing signing key in         *)
(* build_playbook, and the process is gone with its queue.                 *)
Recv ==
    /\ pc = "recv"
    /\ queue # <<>>
    /\ LET f == Head(queue)
           accepted == f.action = "mitigate" /\ f.target = "known"
           raises == f.action = "mitigate" /\ f.target = "malformed"
       IN  \/ /\ accepted
              /\ pc' = "verify"
              /\ steps' = f.steps
              /\ queue' = Tail(queue)
              /\ UNCHANGED <<cursor, ran, errors>>
           \/ /\ accepted \/ raises
              /\ pc' = "down"
              /\ queue' = <<>>
              /\ UNCHANGED locals
           \/ /\ ~accepted /\ ~raises
              /\ queue' = Tail(queue)
              /\ UNCHANGED <<pc, locals>>
    /\ UNCHANGED <<inst, server, ledger, sent>>

(* The process dies, and systemd starts it again.                          *)
Crash ==
    /\ pc # "down"
    /\ pc' = "down"
    /\ queue' = <<>>
    /\ Forget
    /\ UNCHANGED <<inst, server, ledger, sent>>

Restart ==
    /\ pc = "down"
    /\ pc' = "recv"
    /\ UNCHANGED <<queue, locals, inst, server, ledger, sent>>

-----------------------------------------------------------------------------
(* execute_playbook.                                                       *)

Current == Len(inst)
Started == Append(inst, [steps |-> steps, status |-> "running"])

(* The signature is checked and the instance put in Valkey, both outside   *)
(* the try; a write that fails may have landed.                            *)
Verify ==
    /\ pc = "verify"
    /\ \/ /\ pc' = "connect"
          /\ inst' = Started
          /\ cursor' = 1
          /\ UNCHANGED <<steps, ran, errors>>
       \/ /\ pc' = "recv"
          /\ inst' \in {inst, Started}
          /\ Forget
    /\ UNCHANGED <<queue, server, ledger, sent>>

Connect ==
    /\ pc = "connect"
    /\ pc' \in {"dispatch", "fatal"}
    /\ UNCHANGED <<queue, locals, inst, server, ledger, sent>>

OnSuccess(s) == s + 1

(* Mutation: a failed step sends the playbook back to its first step.      *)
OnFailureRestart(s) == 1

(* build_playbook: "continue on failure"; the last step has no on_failure. *)
OnFailure(s) == IF s < steps THEN s + 1 ELSE None

Call == <<Current, cursor>>

(* A round of the loop begins: the tool of the step is called.             *)
Dispatch ==
    /\ pc = "dispatch"
    /\ ran' = ran \cup {cursor}
    /\ calls' = calls \cup {Call}
    /\ pc' = "await"
    /\ UNCHANGED <<queue, steps, cursor, errors, inst, answers, effects, ledger, sent>>

(* The write of step_cursor (left out), which ends the round, and the      *)
(* closing of the client may raise.                                        *)
NextRound == pc' \in {IF cursor' \in 1 .. steps THEN "dispatch" ELSE "finish", "fatal"}

(* The tool's answer arrives; what it says is not looked at.               *)
StepSucceeds ==
    /\ pc = "await"
    /\ Call \in answers
    /\ cursor' = OnSuccess(cursor)
    /\ NextRound
    /\ UNCHANGED <<queue, steps, ran, errors, inst, server, ledger, sent>>

(* Mutation: a step that fails leaves no entry in errors.                  *)
StepFailsSilently ==
    /\ pc = "await"
    /\ cursor' = OnFailure(cursor)
    /\ NextRound
    /\ UNCHANGED <<queue, steps, ran, errors, inst, server, ledger, sent>>

(* An error of the tool or the connection arrives, or the time limit of    *)
(* the step passes; the call is given up, not taken back.                  *)
StepFails ==
    /\ pc = "await"
    /\ cursor' = OnFailure(cursor)
    /\ errors' = errors \cup {cursor}
    /\ NextRound
    /\ UNCHANGED <<queue, steps, ran, inst, server, ledger, sent>>

(* A tool ends, having acted or not, with an answer or without: it raises, *)
(* the server dies or the call never reached it.                           *)
Serve(c) ==
    /\ c \in calls
    /\ calls' = calls \ {c}
    /\ answers' \in {answers, answers \cup {c}}
    /\ effects' \in {effects, effects \cup {c}}
    /\ UNCHANGED <<queue, pc, locals, inst, ledger, sent>>

FinalStatus == IF errors = {} THEN "succeeded" ELSE "failed"

SetStatus(status) == inst' = [inst EXCEPT ![Current].status = status]

(* The terminal status is written; a write that fails may have landed.     *)
Finish ==
    /\ pc = "finish"
    /\ \/ SetStatus(FinalStatus) /\ pc' \in {"ledger", "fatal"}
       \/ UNCHANGED inst /\ pc' = "fatal"
    /\ UNCHANGED <<queue, locals, server, ledger, sent>>

(* _append_ledger swallows whatever goes wrong.                            *)
AppendLedger ==
    /\ pc = "ledger"
    /\ LET entry == [inst |-> Current, ran |-> ran, status |-> FinalStatus]
       IN  ledger' \in {ledger, Append(ledger, entry)}
    /\ pc' = "announce"
    /\ UNCHANGED <<queue, locals, inst, server, sent>>

(* mitigation.fire: a broadcast that may fail; then the next frame.        *)
Announce ==
    /\ pc = "announce"
    /\ sent' \in {sent, sent \cup {Current}}
    /\ pc' = "recv"
    /\ Forget
    /\ UNCHANGED <<queue, inst, server, ledger>>

(* The outer except: the instance is marked failed, if Valkey lets it, and *)
(* the exception ends in the daemon loop's except.                         *)
Fatal ==
    /\ pc = "fatal"
    /\ SetStatus("failed") \/ UNCHANGED inst
    /\ pc' = "recv"
    /\ Forget
    /\ UNCHANGED <<queue, server, ledger, sent>>

-----------------------------------------------------------------------------

Daemon == Recv \/ Verify \/ Connect \/ Dispatch \/ StepSucceeds \/ StepFails
              \/ Finish \/ AppendLedger \/ Announce \/ Fatal

Next ==
    \/ \E f \in Frame : Publish(f)
    \/ Daemon
    \/ \E c \in calls : Serve(c)
    \/ Crash
    \/ Restart

Spec == Init /\ [][Next]_vars

(* The event loop runs the daemon's next step (every step has a time       *)
(* limit), and systemd restarts the unit on failure.  No tool has to end.  *)
FairSpec == Spec /\ WF_vars(Daemon) /\ WF_vars(Restart)

-----------------------------------------------------------------------------
(* Properties.                                                             *)

(* What a cacao_executed entry may be relied on for: one entry for an      *)
(* instance at most, with the status that Valkey has; every step of the    *)
(* playbook was tried, and every tool that acted or may still act for the  *)
(* instance is among steps_ran, however late; and after "succeeded", which *)
(* means that each tool answered, none is at work any more                 *)
(* (executor.py:195-237).                                                  *)
EntryTruthful ==
    \A e \in DOMAIN ledger :
        LET i == ledger[e].inst
            Steps(cs) == {x[2] : x \in {y \in cs : y[1] = i}}
        IN  /\ \A d \in DOMAIN ledger : ledger[d].inst = i => d = e
            /\ inst[i].status = ledger[e].status
            /\ ledger[e].ran = 1 .. inst[i].steps
            /\ Steps(effects \cup calls) \subseteq ledger[e].ran
            /\ ledger[e].status = "succeeded" =>
                   Steps(answers) = ledger[e].ran /\ Steps(calls) = {}

(* A tool is called only for the instance under way, after every earlier   *)
(* step of it was answered or counted as an error, and once: a step is not *)
(* tried again, and nothing resumes an instance whose daemon died.  Tools  *)
(* act for such calls alone.  One that was given up may act after later    *)
(* steps, after the entry or during another instance, but never for an     *)
(* instance that is told to have succeeded (executor.py:160-222).          *)
ActsOnceInOrder ==
    [][/\ \A x \in calls' \ calls :
             /\ x[1] = Len(inst) /\ inst[x[1]].status = "running"
             /\ ran = 1 .. x[2] - 1
             /\ \A s \in ran \ errors : <<x[1], s>> \in answers
       /\ \A x \in effects' \ effects :
             x \in calls /\ inst[x[1]].status # "succeeded"]_<<calls, effects, ran>>

(* The daemon gets back to its socket whatever fails, dies or times out.   *)
ReturnsToSocket == pc # "recv" ~> pc = "recv"
=============================================================================
