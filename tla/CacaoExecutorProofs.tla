------------------------ MODULE CacaoExecutorProofs ------------------------
(***************************************************************************)
(* Type correctness of CacaoExecutor, what a cacao_executed entry may be   *)
(* relied on for, and the order of the tool calls, for every length of     *)
(* playbook and every number of instances and waiting frames.              *)
(***************************************************************************)
EXTENDS CacaoExecutor, SequenceTheorems, TLAPS

USE ExecutorAssumption DEF None

(* From the opening of the MCP client to the ledger entry.                 *)
Running == {"connect", "dispatch", "await", "finish", "ledger"}

(* Between two playbooks nothing is left of the last one's results.        *)
Fresh ==
    pc \in {"recv", "down", "verify", "connect"} => ran = {} /\ errors = {}

(* The playbook under way is that of the last instance, and the steps      *)
(* tried are those before the cursor.                                      *)
InStep ==
    /\ pc = "verify" => steps \in 1 .. MaxSteps
    /\ pc \in Running =>
           /\ Len(inst) > 0
           /\ steps \in 1 .. MaxSteps
           /\ inst[Len(inst)].steps = steps
    /\ pc \in {"connect", "dispatch", "await"} => inst[Len(inst)].status = "running"
    /\ pc = "connect" => cursor = 1
    /\ pc = "dispatch" => cursor \in 1 .. steps /\ ran = 1 .. cursor - 1
    /\ pc = "await" => cursor \in 1 .. steps /\ ran = 1 .. cursor
    /\ pc \in {"finish", "ledger"} => ran = 1 .. steps
    /\ pc = "ledger" => inst[Len(inst)].status = FinalStatus
    /\ pc \in {"announce", "fatal"} => Len(inst) > 0

(* The calls ever made of which something is left.                         *)
Touched == calls \cup answers \cup effects

(* The steps called for the instance under way were tried, and a tried     *)
(* step without an error was answered, unless it is the one awaited.       *)
Known ==
    pc \in Running =>
        /\ \A s \in 1 .. MaxSteps : <<Len(inst), s>> \in Touched => s \in ran
        /\ \A s \in ran \ errors : \/ <<Len(inst), s>> \in answers
                                   \/ pc = "await" /\ s = cursor

(* A tool that has answered is not at work, and none is at work for an     *)
(* instance that is told to have succeeded.                                *)
Quiet ==
    /\ calls \cap answers = {}
    /\ \A x \in calls : inst[x[1]].status # "succeeded"

(* Until its own entry is written no entry names the instance under way.   *)
Unwritten ==
    pc \in Running \cup {"fatal"} =>
        \A e \in DOMAIN ledger : ledger[e].inst # Len(inst)

(* EntryTruthful, entry by entry and step by step.                         *)
Faithful(e) ==
    LET i == ledger[e].inst IN
    /\ \A d \in DOMAIN ledger : ledger[d].inst = i => d = e
    /\ inst[i].status = ledger[e].status
    /\ \A s \in 1 .. MaxSteps : <<i, s>> \in Touched => s \in ledger[e].ran
    /\ ledger[e].ran = 1 .. inst[i].steps
    /\ ledger[e].status = "succeeded" =>
           \A s \in ledger[e].ran : <<i, s>> \in answers

AllFaithful == \A e \in DOMAIN ledger : Faithful(e)

Inv == TypeOK /\ Fresh /\ InStep /\ Known /\ Quiet /\ Unwritten /\ AllFaithful

-----------------------------------------------------------------------------
(* One entry.                                                              *)

(* The record sets of TypeOK.                                              *)
Instance == [steps : 1 .. MaxSteps,
             status : {"running", "succeeded", "failed"}]
Entry(D) == [inst : D, ran : SUBSET (1 .. MaxSteps),
             status : {"succeeded", "failed"}]

LEMMA Typed ==
    ASSUME TypeOK
    PROVE  /\ inst \in Seq(Instance) /\ DOMAIN inst = 1 .. Len(inst)
           /\ Len(inst) \in Nat
           /\ ledger \in Seq(Entry(DOMAIN inst))
           /\ DOMAIN ledger = 1 .. Len(ledger) /\ Len(ledger) \in Nat
<1>1. inst \in Seq(Instance) /\ ledger \in Seq(Entry(DOMAIN inst))
    BY DEF TypeOK, Instance, Entry
<1> QED
    BY <1>1, LenProperties

LEMMA EntryType ==
    ASSUME TypeOK, NEW e \in DOMAIN ledger
    PROVE  ledger[e] \in Entry(DOMAIN inst)
BY Typed, ElementOfSeq

(* An entry stays faithful when the instances it could name are unchanged, *)
(* no call is made for one of them, and the ledger is unchanged.           *)
LEMMA FaithfulStays ==
    ASSUME TypeOK, AllFaithful, UNCHANGED ledger, answers \subseteq answers',
           \A e \in DOMAIN ledger :
               /\ inst'[ledger[e].inst] = inst[ledger[e].inst]
               /\ \A s \in 1 .. MaxSteps : <<ledger[e].inst, s>> \in Touched'
                                         => <<ledger[e].inst, s>> \in Touched
    PROVE  AllFaithful'
<1> SUFFICES ASSUME NEW e \in DOMAIN ledger
             PROVE  Faithful(e)'
    BY DEF AllFaithful
<1>1. Faithful(e)
    BY DEF AllFaithful
<1>2. ledger[e].ran \subseteq 1 .. MaxSteps
    BY EntryType DEF Entry
<1> HIDE DEF Touched
<1> QED
    BY <1>1, <1>2 DEF Faithful

(* A call is a pair.                                                       *)
LEMMA CallType ==
    ASSUME TypeOK, NEW x \in Touched
    PROVE  x[1] \in DOMAIN inst /\ x[2] \in 1 .. MaxSteps /\ x = <<x[1], x[2]>>
<1>1. x \in (DOMAIN inst) \X (1 .. MaxSteps)
    BY DEF TypeOK, Touched
<1> QED
    BY <1>1

(* What EntryTruthful says of an entry, from what Faithful says of it.     *)
LEMMA TruthfulEntry ==
    ASSUME TypeOK, Quiet, NEW e \in DOMAIN ledger, Faithful(e)
    PROVE  LET i == ledger[e].inst
               Steps(cs) == {x[2] : x \in {y \in cs : y[1] = i}}
           IN  /\ \A d \in DOMAIN ledger : ledger[d].inst = i => d = e
               /\ inst[i].status = ledger[e].status
               /\ ledger[e].ran = 1 .. inst[i].steps
               /\ Steps(effects \cup calls) \subseteq ledger[e].ran
               /\ ledger[e].status = "succeeded" =>
                      Steps(answers) = ledger[e].ran /\ Steps(calls) = {}
<1> DEFINE i == ledger[e].inst
           Steps(cs) == {x[2] : x \in {y \in cs : y[1] = i}}
<1>1. ASSUME NEW cs \in SUBSET Touched, NEW s \in Steps(cs)
      PROVE  s \in 1 .. MaxSteps /\ <<i, s>> \in cs
  <2>1. PICK x \in cs : x[1] = i /\ x[2] = s
      OBVIOUS
  <2>2. x[2] \in 1 .. MaxSteps /\ x = <<x[1], x[2]>>
      BY <2>1, CallType
  <2> QED
      BY <2>1, <2>2
<1>2. ASSUME NEW s, <<i, s>> \in answers
      PROVE  s \in Steps(answers)
  <2> DEFINE x == <<i, s>>
  <2>1. x \in answers /\ x[1] = i /\ x[2] = s
      BY <1>2
  <2> QED
      BY <2>1
<1>3. ASSUME NEW cs \in SUBSET Touched
      PROVE  Steps(cs) \subseteq ledger[e].ran
  <2> SUFFICES ASSUME NEW s \in Steps(cs)
               PROVE  s \in ledger[e].ran
      OBVIOUS
  <2>1. s \in 1 .. MaxSteps /\ <<i, s>> \in Touched
      BY <1>1
  <2> QED
      BY <2>1 DEF Faithful
<1>4. /\ effects \cup calls \in SUBSET Touched /\ answers \in SUBSET Touched
      /\ calls \in SUBSET Touched
    BY DEF Touched
<1>5. ASSUME ledger[e].status = "succeeded"
      PROVE  Steps(answers) = ledger[e].ran /\ Steps(calls) = {}
  <2>1. \A s \in ledger[e].ran : <<i, s>> \in answers
      BY <1>5 DEF Faithful
  <2>2. ledger[e].ran \subseteq Steps(answers)
      BY <2>1, <1>2
  <2>3. ASSUME NEW s \in Steps(calls)
        PROVE  FALSE
    <3>1. <<i, s>> \in calls /\ s \in ledger[e].ran
        BY <1>1, <1>3, <1>4
    <3> QED
        BY <3>1, <2>1 DEF Quiet
  <2> QED
      BY <2>2, <2>3, <1>3, <1>4
<1> HIDE DEF Steps
<1>6. Steps(effects \cup calls) \subseteq ledger[e].ran
    BY <1>3, <1>4
<1> USE DEF Steps
<1> QED
    BY <1>5, <1>6 DEF Faithful

-----------------------------------------------------------------------------
(* The invariant.                                                          *)

LEMMA InvInit == Init => Inv
BY DEF Init, Inv, TypeOK, Fresh, InStep, Known, Touched, Quiet, Unwritten,
       AllFaithful, Running

(* The steps of the daemon between two playbooks, and process death.       *)
LEMMA InvIdle ==
    ASSUME Inv, \/ \E f \in Frame : Publish(f)
                \/ Recv
                \/ Crash
                \/ Restart
    PROVE  Inv'
<1> USE DEF Inv
<1>1. UNCHANGED <<inst, calls, answers, effects, ledger>>
    BY DEF Publish, Recv, Crash, Restart, server
<1>2. AllFaithful' /\ Quiet'
    BY <1>1, FaithfulStays DEF Touched, Quiet
<1>3. CASE \E f \in Frame : Publish(f)
  <2> PICK f \in Frame : Publish(f)
      BY <1>3
  <2>1. TypeOK'
      BY <1>1 DEF TypeOK, Publish, locals
  <2>2. (Fresh /\ InStep /\ Known /\ Unwritten)'
      BY <1>1 DEF Publish, locals, Fresh, InStep, Known, Touched, Unwritten, Running,
                  FinalStatus
  <2> QED
      BY <1>2, <2>1, <2>2
<1>4. CASE Recv
  <2>1. queue \in Seq(Frame) /\ queue # <<>>
      BY <1>4 DEF TypeOK, Recv
  <2>2. Head(queue) \in Frame /\ Tail(queue) \in Seq(Frame)
      BY <2>1
  <2>3. queue' \in {Tail(queue), <<>>}
      BY <1>4 DEF Recv
  <2>4. queue' \in Seq(Frame)
      BY <2>3, <2>2, EmptySeq
  <2>5. Head(queue).steps \in 1 .. MaxSteps
      BY <2>2 DEF Frame
  <2>6. steps' \in {steps, Head(queue).steps} /\ pc' \in {"verify", "down", "recv"}
        /\ UNCHANGED <<cursor, ran, errors, sent>>
      BY <1>4 DEF Recv, locals
  <2>7. steps' \in 0 .. MaxSteps
      BY <2>5, <2>6 DEF TypeOK
  <2>8. TypeOK'
      BY <1>1, <2>4, <2>6, <2>7 DEF TypeOK
  <2>9. (Fresh /\ InStep /\ Known /\ Unwritten)'
      BY <1>1, <1>4, <2>2 DEF Recv, locals, Fresh, InStep, Known, Unwritten,
                              Running, FinalStatus, Frame
  <2> QED
      BY <1>2, <2>8, <2>9
<1>5. CASE Crash
  <2>1. TypeOK'
      BY <1>1, <1>5 DEF TypeOK, Crash, Forget
  <2>2. (Fresh /\ InStep /\ Known /\ Unwritten)'
      BY <1>1, <1>5 DEF Crash, Forget, Fresh, InStep, Known, Unwritten, Running
  <2> QED
      BY <1>2, <2>1, <2>2
<1>6. CASE Restart
  <2>1. TypeOK'
      BY <1>1, <1>6 DEF TypeOK, Restart, locals
  <2>2. (Fresh /\ InStep /\ Known /\ Unwritten)'
      BY <1>1, <1>6 DEF Restart, locals, Fresh, InStep, Known, Unwritten, Running
  <2> QED
      BY <1>2, <2>1, <2>2
<1> QED
    BY <1>3, <1>4, <1>5, <1>6

(* A new instance: nothing has been done for it and no entry names it.     *)
LEMMA InvVerify ==
    ASSUME Inv, Verify
    PROVE  Inv'
<1> USE DEF Inv
<1> DEFINE n == Len(inst)
           new == [steps |-> steps, status |-> "running"]
<1>1. /\ pc = "verify" /\ steps \in 1 .. MaxSteps
      /\ UNCHANGED <<queue, calls, answers, effects, ledger>>
    BY DEF Verify, InStep, server
<1>2. /\ inst \in Seq(Instance) /\ n \in Nat /\ DOMAIN inst = 1 .. n
      /\ new \in Instance
    BY <1>1, Typed DEF Instance
<1>3. inst' \in {inst, Append(inst, new)}
    BY DEF Verify, Started
<1>4. /\ inst' \in Seq(Instance)
      /\ DOMAIN inst \subseteq DOMAIN inst'
      /\ \A i \in DOMAIN inst : inst'[i] = inst[i]
  <2> HIDE DEF new
  <2>1. CASE inst' = inst
      BY <2>1, <1>2
  <2>2. CASE inst' = Append(inst, new)
      BY <2>2, <1>2, AppendProperties
  <2> QED
      BY <2>1, <2>2, <1>3
<1>5. \A e \in DOMAIN ledger : ledger[e].inst \in DOMAIN inst
    BY EntryType DEF Entry
<1>6. AllFaithful' /\ Quiet'
  <2>1. \A x \in calls : x[1] \in DOMAIN inst
      BY CallType DEF Touched
  <2> QED
      BY <2>1, <1>1, <1>4, <1>5, FaithfulStays DEF Touched, Quiet
<1>7. TypeOK'
  <2>1. /\ queue' \in Seq(Frame)
        /\ calls' \cup answers' \cup effects' \subseteq (DOMAIN inst') \X (1 .. MaxSteps)
        /\ sent' \subseteq DOMAIN inst'
      BY <1>1, <1>4 DEF TypeOK, Verify
  <2>2. ledger' \in Seq(Entry(DOMAIN inst'))
    <3>1. \A e \in DOMAIN ledger : ledger[e] \in Entry(DOMAIN inst')
        BY EntryType, <1>4 DEF Entry
    <3>2. ledger \in Seq(Entry(DOMAIN inst'))
        BY <3>1, Typed
    <3> QED
        BY <3>2, <1>1
  <2>3. /\ pc' \in {"connect", "recv"}
        /\ steps' \in {steps, 0} /\ cursor' \in {1, 0}
        /\ \/ ran' = ran /\ errors' = errors
           \/ ran' = {} /\ errors' = {}
      BY DEF Verify, Forget
  <2>4. /\ steps' \in 0 .. MaxSteps /\ cursor' \in 0 .. MaxSteps + 1
        /\ ran' \subseteq 1 .. MaxSteps /\ errors' \subseteq ran'
    <3>1. steps \in 0 .. MaxSteps /\ ran \subseteq 1 .. MaxSteps /\ errors \subseteq ran
        BY DEF TypeOK
    <3>2. 0 \in 0 .. MaxSteps /\ {0, 1} \subseteq 0 .. MaxSteps + 1
        OBVIOUS
    <3> QED
        BY <2>3, <3>1, <3>2
  <2> QED
      BY <1>4, <2>1, <2>2, <2>3, <2>4 DEF TypeOK, Instance, Entry
<1>8. CASE pc' = "recv"
  <2>1. ran' = {} /\ errors' = {}
      BY <1>8 DEF Verify, Forget
  <2> QED
      BY <1>6, <1>7, <1>8, <2>1 DEF Fresh, InStep, Known, Unwritten, Running
<1>9. CASE pc' = "connect"
  <2>1. /\ inst' = Append(inst, new) /\ cursor' = 1
        /\ UNCHANGED <<steps, ran, errors>>
      BY <1>9 DEF Verify, Started
  <2>2. Len(inst') = n + 1 /\ inst'[n + 1].steps = steps
        /\ inst'[n + 1].status = "running"
      BY <1>1, <2>1
  <2>3. \A s : <<n + 1, s>> \notin Touched
    <3> SUFFICES ASSUME NEW s, <<n + 1, s>> \in Touched
                 PROVE  FALSE
        OBVIOUS
    <3>1. n + 1 \in DOMAIN inst
        BY CallType
    <3> QED
        BY <3>1, <1>2
  <2>4. \A e \in DOMAIN ledger : ledger[e].inst # n + 1
    <3>1. n + 1 \notin DOMAIN inst
        BY <1>2
    <3> QED
        BY <3>1, <1>5
  <2>5. ran = {} /\ errors = {}
      BY <1>1 DEF Fresh
  <2>6. (Fresh /\ InStep)'
      BY <1>1, <1>9, <2>1, <2>2, <2>5 DEF Fresh, InStep
  <2>7. (Known /\ Unwritten)'
    <3>1. Touched' = Touched
        BY <1>1 DEF Touched
    <3> QED
        BY <3>1, <1>1, <1>9, <2>1, <2>2, <2>3, <2>4, <2>5 DEF Known, Unwritten
  <2> QED
      BY <1>6, <1>7, <2>6, <2>7
<1> QED
    BY <1>8, <1>9 DEF Verify

Locals == /\ steps \in 0 .. MaxSteps /\ cursor \in 0 .. MaxSteps + 1
          /\ ran \subseteq 1 .. MaxSteps /\ errors \subseteq ran

(* Forgetting, and what is left of the invariant at the socket.            *)
LEMMA AtTheSocket ==
    ASSUME pc' = "recv", Forget
    PROVE  (Fresh /\ InStep /\ Known /\ Unwritten /\ Locals)'
BY DEF Forget, Fresh, InStep, Known, Unwritten, Running, Locals

LEMMA InvConnect ==
    ASSUME Inv, Connect
    PROVE  Inv'
<1> USE DEF Inv
<1>1. /\ pc = "connect" /\ pc' \in {"dispatch", "fatal"}
      /\ UNCHANGED <<queue, steps, cursor, ran, errors, inst, calls, answers, effects, ledger, sent>>
    BY DEF Connect, locals, server
<1>2. TypeOK'
    BY <1>1 DEF TypeOK
<1>3. AllFaithful' /\ Quiet'
    BY <1>1, FaithfulStays DEF Touched, Quiet
<1>4. (Fresh /\ Known /\ Unwritten)'
    BY <1>1 DEF Fresh, Known, Touched, Unwritten, Running
<1>5. ran = {} /\ cursor = 1 /\ Len(inst) > 0 /\ steps \in 1 .. MaxSteps
      /\ inst[Len(inst)].steps = steps /\ inst[Len(inst)].status = "running"
    BY <1>1 DEF Fresh, InStep, Running
<1>6. InStep'
    BY <1>1, <1>5 DEF InStep, Running
<1> QED
    BY <1>2, <1>3, <1>4, <1>6

(* A step is called: it is for the instance under way and no entry names   *)
(* that.                                                                   *)
LEMMA InvDispatch ==
    ASSUME Inv, Dispatch
    PROVE  Inv'
<1> USE DEF Inv
<1> DEFINE n == Len(inst)
<1>1. /\ pc = "dispatch" /\ cursor \in 1 .. steps /\ ran = 1 .. cursor - 1
      /\ n > 0 /\ steps \in 1 .. MaxSteps /\ inst[n].steps = steps
      /\ inst[n].status = "running"
    BY DEF Dispatch, InStep, Running
<1>2. /\ n \in Nat /\ n \in DOMAIN inst /\ cursor \in 1 .. MaxSteps
      /\ (1 .. cursor - 1) \cup {cursor} = 1 .. cursor /\ cursor \notin 1 .. cursor - 1
    BY <1>1, Typed
<1>3. /\ pc' = "await" /\ ran' = 1 .. cursor /\ calls' = calls \cup {<<n, cursor>>}
      /\ UNCHANGED <<queue, steps, cursor, errors, inst, answers, effects, ledger, sent>>
    BY <1>1, <1>2 DEF Dispatch, Call, Current
<1> HIDE DEF n
<1>4. \A i, s : <<i, s>> \in Touched' <=> <<i, s>> \in Touched \/ (i = n /\ s = cursor)
    BY <1>3 DEF Touched
<1>5. \A e \in DOMAIN ledger : ledger[e].inst # n
    BY <1>1 DEF Unwritten, Running, n
<1>6. TypeOK'
  <2>1. <<n, cursor>> \in (DOMAIN inst) \X (1 .. MaxSteps)
      BY <1>2
  <2>2. calls' \cup answers' \cup effects' \subseteq (DOMAIN inst') \X (1 .. MaxSteps)
      BY <1>3, <2>1 DEF TypeOK
  <2>3. ran' \subseteq 1 .. MaxSteps /\ errors' \subseteq ran'
      BY <1>1, <1>2, <1>3 DEF TypeOK
  <2> QED
      BY <1>3, <2>2, <2>3 DEF TypeOK
<1>7. AllFaithful'
    BY <1>3, <1>4, <1>5, FaithfulStays
<1>8. Fresh' /\ InStep' /\ Unwritten'
    BY <1>1, <1>3, <1>5 DEF Fresh, InStep, Unwritten, Running, n
<1>9. /\ \A s \in 1 .. MaxSteps : <<n, s>> \in Touched => s \in ran
      /\ \A s \in ran \ errors : <<n, s>> \in answers
    BY <1>1 DEF Known, Running, n
<1>10. Known'
  <2>1. \A s \in 1 .. MaxSteps : <<n, s>> \in Touched' => s \in ran'
      BY <1>1, <1>2, <1>3, <1>4, <1>9
  <2>2. \A s \in ran' \ errors' : <<n, s>> \in answers' \/ s = cursor
      BY <1>1, <1>2, <1>3, <1>9
  <2> QED
      BY <1>3, <2>1, <2>2 DEF Known, n
<1>11. Quiet'
  <2>1. <<n, cursor>> \notin answers
      BY <1>1, <1>2, <1>9 DEF Touched
  <2> QED
      BY <1>1, <1>3, <2>1 DEF Quiet
<1> QED
    BY <1>6, <1>7, <1>8, <1>10, <1>11

(* A step is over, answered or counted as an error: on to the next step or *)
(* to the end.                                                             *)
LEMMA InvAwait ==
    ASSUME Inv, StepSucceeds \/ StepFails
    PROVE  Inv'
<1> USE DEF Inv
<1> DEFINE n == Len(inst)
<1>1. /\ pc = "await" /\ cursor \in 1 .. steps /\ ran = 1 .. cursor
      /\ n > 0 /\ steps \in 1 .. MaxSteps /\ inst[n].steps = steps
      /\ inst[n].status = "running"
    BY DEF StepSucceeds, StepFails, InStep, Running
<1>2. /\ pc' \in {IF cursor' \in 1 .. steps THEN "dispatch" ELSE "finish", "fatal"}
      /\ UNCHANGED <<queue, steps, ran, inst, calls, answers, effects, ledger, sent>>
    BY DEF StepSucceeds, StepFails, NextRound, server
<1>3. \/ /\ <<n, cursor>> \in answers
         /\ cursor' = cursor + 1 /\ errors' = errors
      \/ /\ cursor' = (IF cursor < steps THEN cursor + 1 ELSE 0)
         /\ errors' = errors \cup {cursor}
    BY DEF StepSucceeds, StepFails, OnSuccess, OnFailure, Call, Current
<1>4. /\ cursor' \in 0 .. MaxSteps + 1
      /\ cursor' \in 1 .. steps => cursor' - 1 = cursor
      /\ cursor' \notin 1 .. steps => cursor = steps
  <2>1. /\ cursor \in Nat /\ steps \in Nat /\ 1 <= cursor /\ cursor <= steps
        /\ steps <= MaxSteps
      BY <1>1
  <2>2. cursor' = cursor + 1 \/ (cursor' = 0 /\ ~(cursor < steps))
      BY <1>3
  <2> QED
      BY <2>1, <2>2
<1>5. errors' \subseteq ran'
  <2>1. errors \subseteq ran /\ ran' = ran
      BY <1>2 DEF TypeOK
  <2>2. cursor \in ran
      BY <1>1
  <2>3. errors' \subseteq errors \cup {cursor}
      BY <1>3
  <2> QED
      BY <2>1, <2>2, <2>3
<1> HIDE DEF n
<1>6. TypeOK'
  <2>1. pc' \in {"dispatch", "finish", "fatal"}
      BY <1>2
  <2> QED
      BY <1>2, <1>4, <1>5, <2>1 DEF TypeOK
<1>7. AllFaithful' /\ Quiet'
    BY <1>2, FaithfulStays DEF Touched, Quiet
<1>8. InStep'
  <2>1. /\ pc' = "dispatch" => cursor' \in 1 .. steps
        /\ pc' = "finish" => cursor' \notin 1 .. steps
        /\ pc' \in {"dispatch", "finish", "fatal"}
      BY <1>2
  <2> QED
      BY <1>1, <1>2, <1>4, <2>1 DEF InStep, Running, n
<1>9. Fresh' /\ Unwritten'
  <2>1. \A e \in DOMAIN ledger : ledger[e].inst # n
      BY <1>1 DEF Unwritten, Running, n
  <2>2. pc' \in {"dispatch", "finish", "fatal"}
      BY <1>2
  <2> QED
      BY <1>2, <2>1, <2>2 DEF Fresh, Unwritten, n
<1>10. Known'
  <2>1. /\ \A s \in 1 .. MaxSteps : <<n, s>> \in Touched => s \in ran
        /\ \A s \in ran \ errors : <<n, s>> \in answers \/ s = cursor
      BY <1>1 DEF Known, Running, n
  <2>2. \A s \in ran \ errors' : <<n, s>> \in answers
      BY <1>3, <2>1
  <2>3. Touched' = Touched
      BY <1>2 DEF Touched
  <2> QED
      BY <1>2, <2>1, <2>2, <2>3 DEF Known, n
<1> QED
    BY <1>6, <1>7, <1>8, <1>9, <1>10

(* A tool ends, whoever made the call: nothing new is called.              *)
LEMMA InvServe ==
    ASSUME Inv, NEW c \in calls, Serve(c)
    PROVE  Inv'
<1> USE DEF Inv
<1>1. /\ UNCHANGED <<queue, pc, steps, cursor, ran, errors, inst, ledger, sent>>
      /\ calls' = calls \ {c}
      /\ answers' \in {answers, answers \cup {c}}
      /\ effects' \in {effects, effects \cup {c}}
    BY DEF Serve, locals
<1>2. Touched' \subseteq Touched /\ answers \subseteq answers'
    BY <1>1 DEF Touched
<1>3. TypeOK'
    BY <1>1, <1>2 DEF TypeOK, Touched
<1>4. AllFaithful'
    BY <1>1, <1>2, FaithfulStays
<1>5. Quiet'
    BY <1>1 DEF Quiet
<1>6. (Fresh /\ InStep /\ Unwritten)'
    BY <1>1 DEF Fresh, InStep, Unwritten, Running, FinalStatus
<1>7. Known'
    BY <1>1, <1>2 DEF Known, Running
<1> QED
    BY <1>3, <1>4, <1>5, <1>6, <1>7

(* The status of the instance under way is set.                            *)
LEMMA StatusSet ==
    ASSUME TypeOK, Len(inst) > 0, NEW st \in {"running", "succeeded", "failed"},
           SetStatus(st) \/ UNCHANGED inst
    PROVE  /\ inst' \in Seq(Instance)
           /\ DOMAIN inst' = DOMAIN inst /\ Len(inst') = Len(inst)
           /\ \A i \in DOMAIN inst : inst'[i].steps = inst[i].steps
           /\ \A i \in DOMAIN inst : i # Len(inst) => inst'[i] = inst[i]
           /\ SetStatus(st) => inst'[Len(inst)].status = st
<1> DEFINE n == Len(inst)
           new == [inst[n] EXCEPT !.status = st]
<1>1. /\ inst \in Seq(Instance) /\ DOMAIN inst = 1 .. n /\ n \in Nat
      /\ n \in 1 .. n
    BY Typed
<1>2. inst[n] \in Instance
    BY <1>1, ElementOfSeq
<1>3. new \in Instance /\ new.status = st /\ new.steps = inst[n].steps
    BY <1>2 DEF Instance
<1>4. SetStatus(st) => inst' = [inst EXCEPT ![n] = new]
    BY DEF SetStatus, Current
<1> HIDE DEF new, n
<1>5. SetStatus(st) => /\ inst' \in Seq(Instance)
                       /\ Len(inst') = n
                       /\ \A i \in 1 .. n : inst'[i] = IF i = n THEN new ELSE inst[i]
  <2>1. /\ [inst EXCEPT ![n] = new] \in Seq(Instance)
        /\ Len([inst EXCEPT ![n] = new]) = Len(inst)
        /\ \A i \in 1 .. Len(inst) :
               [inst EXCEPT ![n] = new][i] = IF i = n THEN new ELSE inst[i]
    <3>1. n \in 1 .. Len(inst) /\ inst \in Seq(Instance) /\ new \in Instance
        BY <1>1, <1>3 DEF n
    <3> QED
        BY <3>1, ExceptSeq
  <2> QED
      BY <2>1, <1>4 DEF n
<1>6. CASE SetStatus(st)
    BY <1>1, <1>3, <1>5, <1>6, LenProperties DEF n
<1>7. CASE UNCHANGED inst /\ ~SetStatus(st)
    BY <1>1, <1>7 DEF n
<1> QED
    BY <1>6, <1>7

LEMMA InvFinish ==
    ASSUME Inv, Finish
    PROVE  Inv'
<1> USE DEF Inv
<1> DEFINE n == Len(inst)
<1>1. /\ pc = "finish" /\ n > 0 /\ steps \in 1 .. MaxSteps
      /\ inst[n].steps = steps /\ ran = 1 .. steps
    BY DEF Finish, InStep, Running
<1>2. /\ n \in Nat /\ n \in DOMAIN inst
    BY <1>1, Typed
<1>3. /\ SetStatus(FinalStatus) \/ UNCHANGED inst
      /\ pc' \in {"ledger", "fatal"}
      /\ pc' = "ledger" => SetStatus(FinalStatus)
      /\ UNCHANGED <<queue, steps, cursor, ran, errors, calls, answers, effects, ledger, sent>>
    BY DEF Finish, locals, server
<1>4. FinalStatus \in {"running", "succeeded", "failed"}
    BY DEF FinalStatus
<1>5. /\ inst' \in Seq(Instance)
      /\ DOMAIN inst' = DOMAIN inst /\ Len(inst') = Len(inst)
      /\ \A i \in DOMAIN inst : inst'[i].steps = inst[i].steps
      /\ \A i \in DOMAIN inst : i # n => inst'[i] = inst[i]
      /\ SetStatus(FinalStatus) => inst'[n].status = FinalStatus
    BY <1>1, <1>3, <1>4, StatusSet
<1> HIDE DEF n
<1>6. TypeOK'
    BY <1>3, <1>5 DEF TypeOK, Instance
<1>7. \A e \in DOMAIN ledger : ledger[e].inst # n /\ ledger[e].inst \in DOMAIN inst
    BY <1>1, EntryType DEF Unwritten, Running, n, Entry
<1>8. AllFaithful'
  <2>1. Touched' = Touched
      BY <1>3 DEF Touched
  <2> QED
      BY <2>1, <1>3, <1>5, <1>7, FaithfulStays
<1>9. Len(inst') = n
    BY <1>5 DEF n
<1>10. Fresh' /\ Unwritten'
    BY <1>3, <1>7, <1>9 DEF Fresh, Unwritten, Running
<1>11. inst'[n].steps = steps
    BY <1>1, <1>2, <1>5
<1>12. FinalStatus' = FinalStatus
    BY <1>3 DEF FinalStatus
<1>13. InStep'
    BY <1>1, <1>3, <1>5, <1>9, <1>11, <1>12 DEF InStep, Running
<1>14. /\ \A s \in 1 .. MaxSteps : <<n, s>> \in Touched => s \in ran
       /\ \A s \in ran \ errors : <<n, s>> \in answers
    BY <1>1 DEF Known, Running, n
<1>15. Known'
  <2>1. Touched' = Touched
      BY <1>3 DEF Touched
  <2> QED
      BY <2>1, <1>14, <1>3, <1>9 DEF Known
<1>16. Quiet'
  <2> SUFFICES ASSUME NEW x \in calls
               PROVE  inst'[x[1]].status # "succeeded"
      BY <1>3 DEF Quiet
  <2>1. x[1] \in DOMAIN inst /\ x[2] \in 1 .. MaxSteps /\ x = <<x[1], x[2]>>
      BY CallType DEF Touched
  <2>2. inst[x[1]].status # "succeeded" /\ x \notin answers
      BY DEF Quiet
  <2>3. CASE x[1] # n \/ inst' = inst
      BY <1>5, <2>1, <2>2, <2>3
  <2>4. CASE x[1] = n /\ inst' # inst
    <3>1. x[2] \in ran /\ <<n, x[2]>> \notin answers
        BY <1>14, <2>1, <2>2, <2>4 DEF Touched
    <3>2. errors # {}
        BY <1>14, <3>1
    <3>3. inst'[n].status = "failed"
        BY <1>3, <1>5, <2>4, <3>2 DEF FinalStatus
    <3> QED
        BY <2>4, <3>3
  <2> QED
      BY <2>3, <2>4
<1> QED
    BY <1>6, <1>8, <1>10, <1>13, <1>15, <1>16

(* The entry written is faithful: every step was tried, those called are   *)
(* among them, and without errors each of them was answered.               *)
LEMMA InvAppendLedger ==
    ASSUME Inv, AppendLedger
    PROVE  Inv'
<1> USE DEF Inv
<1> DEFINE n == Len(inst)
           entry == [inst |-> n, ran |-> ran, status |-> FinalStatus]
           m == Len(ledger) + 1
<1>1. /\ pc = "ledger" /\ n > 0 /\ steps \in 1 .. MaxSteps
      /\ inst[n].steps = steps /\ ran = 1 .. steps
      /\ inst[n].status = FinalStatus
    BY DEF AppendLedger, InStep, Running
<1>2. /\ n \in Nat /\ n \in DOMAIN inst /\ m \in Nat
      /\ ledger \in Seq(Entry(DOMAIN inst))
      /\ DOMAIN ledger = 1 .. Len(ledger) /\ Len(ledger) \in Nat
    BY <1>1, Typed
<1>3. /\ ledger' \in {ledger, Append(ledger, entry)}
      /\ pc' = "announce"
      /\ UNCHANGED <<queue, steps, cursor, ran, errors, inst, calls, answers, effects, sent>>
    BY DEF AppendLedger, locals, server, Current
<1>4. ran \subseteq 1 .. MaxSteps /\ FinalStatus \in {"succeeded", "failed"}
    BY DEF TypeOK, FinalStatus
<1>5. /\ entry \in Entry(DOMAIN inst)
      /\ entry.inst = n /\ entry.ran = ran /\ entry.status = FinalStatus
    BY <1>2, <1>4 DEF Entry
<1> HIDE DEF entry
<1>t. Touched' = Touched /\ Quiet'
    BY <1>3 DEF Touched, Quiet
<1>6. CASE ledger' = ledger
  <2>1. TypeOK'
      BY <1>3, <1>6 DEF TypeOK
  <2>2. AllFaithful'
      BY <1>3, <1>6, <1>t, FaithfulStays
  <2> QED
      BY <1>1, <1>3, <1>t, <2>1, <2>2 DEF Fresh, InStep, Known, Unwritten, Running
<1>7. CASE ledger' = Append(ledger, entry)
  <2>1. /\ ledger' \in Seq(Entry(DOMAIN inst))
        /\ DOMAIN ledger' = 1 .. m
        /\ \A e \in DOMAIN ledger : ledger'[e] = ledger[e]
        /\ ledger'[m] = entry
    <3>1. Append(ledger, entry) \in Seq(Entry(DOMAIN inst))
        BY <1>2, <1>5, AppendProperties
    <3>2. /\ Len(Append(ledger, entry)) = m
          /\ \A e \in 1 .. Len(ledger) : Append(ledger, entry)[e] = ledger[e]
          /\ Append(ledger, entry)[m] = entry
        BY <1>2, <1>5, AppendProperties
    <3> QED
        BY <3>1, <3>2, <1>2, <1>7, LenProperties
  <2>2. TypeOK'
      BY <2>1, <1>3 DEF TypeOK, Entry
  <2>3. \A e \in DOMAIN ledger : ledger[e].inst # n /\ ledger[e].ran \subseteq 1 .. MaxSteps
      BY <1>1, EntryType DEF Unwritten, Running, Entry
  <2>4. \A e \in DOMAIN ledger' : e \in DOMAIN ledger \/ e = m
      BY <1>2, <2>1
  <2>5. /\ \A s \in 1 .. MaxSteps : <<n, s>> \in Touched => s \in ran
        /\ \A s \in ran \ errors : <<n, s>> \in answers
      BY <1>1 DEF Known, Running
  <2> HIDE DEF n, m
  <2>6. ASSUME NEW e \in DOMAIN ledger
        PROVE  Faithful(e)'
    <3>1. Faithful(e) /\ ledger'[e] = ledger[e] /\ ledger[e].inst # n
        BY <2>1, <2>3 DEF AllFaithful
    <3>2. \A d \in DOMAIN ledger' : ledger'[d].inst = ledger[e].inst => d = e
        BY <2>1, <2>4, <3>1, <1>5 DEF Faithful
    <3> QED
        BY <3>1, <3>2, <1>3, <1>t DEF Faithful
  <2>7. ASSUME NEW k, k = m
        PROVE  Faithful(k)'
    <3>1. \A d \in DOMAIN ledger' : ledger'[d].inst = n => d = m
        BY <2>1, <2>3, <2>4
    <3>2. FinalStatus = "succeeded" => errors = {}
        BY DEF FinalStatus
    <3>3. FinalStatus = "succeeded" => \A s \in ran : <<n, s>> \in answers
        BY <2>5, <3>2
    <3>4. ledger'[m].inst = n /\ ledger'[m].ran = ran /\ ledger'[m].status = FinalStatus
        BY <2>1, <1>5
    <3>5. /\ \A d \in DOMAIN ledger' : ledger'[d].inst = ledger'[k].inst => d = k
          /\ inst'[ledger'[k].inst].status = ledger'[k].status
          /\ \A s \in 1 .. MaxSteps :
                 <<ledger'[k].inst, s>> \in Touched' => s \in ledger'[k].ran
          /\ ledger'[k].ran = 1 .. inst'[ledger'[k].inst].steps
          /\ ledger'[k].status = "succeeded" =>
                 \A s \in ledger'[k].ran : <<ledger'[k].inst, s>> \in answers'
        BY <2>7, <3>1, <3>3, <3>4, <2>5, <1>1, <1>3, <1>t DEF n
    <3> QED
        BY <3>5 DEF Faithful
  <2>8. AllFaithful'
    <3> SUFFICES ASSUME NEW k \in DOMAIN ledger'
                 PROVE  Faithful(k)'
        BY DEF AllFaithful
    <3> QED
        BY <2>4, <2>6, <2>7
  <2> QED
      BY <1>1, <1>3, <1>t, <2>2, <2>8 DEF Fresh, InStep, Known, Unwritten, Running, n
<1> QED
    BY <1>3, <1>6, <1>7

LEMMA InvAnnounce ==
    ASSUME Inv, Announce
    PROVE  Inv'
<1> USE DEF Inv
<1>1. /\ pc' = "recv" /\ Forget
      /\ UNCHANGED <<queue, inst, calls, answers, effects, ledger>>
      /\ pc = "announce"
    BY DEF Announce, server
<1>2. AllFaithful' /\ Quiet'
    BY <1>1, FaithfulStays DEF Touched, Quiet
<1>3. TypeOK'
  <2>1. sent' \subseteq DOMAIN inst'
    <3>1. Len(inst) \in DOMAIN inst
        BY <1>1, Typed DEF InStep, Running
    <3> QED
        BY <1>1, <3>1 DEF TypeOK, Announce, Current
  <2> QED
      BY <1>1, <2>1, AtTheSocket DEF TypeOK, Locals
<1> QED
    BY <1>1, <1>2, <1>3, AtTheSocket

LEMMA InvFatal ==
    ASSUME Inv, Fatal
    PROVE  Inv'
<1> USE DEF Inv
<1> DEFINE n == Len(inst)
<1>1. /\ pc = "fatal" /\ pc' = "recv" /\ Forget
      /\ SetStatus("failed") \/ UNCHANGED inst
      /\ UNCHANGED <<queue, calls, answers, effects, ledger, sent>>
    BY DEF Fatal, server
<1>2. n > 0
    BY <1>1 DEF InStep
<1>3. /\ inst' \in Seq(Instance)
      /\ DOMAIN inst' = DOMAIN inst
      /\ \A i \in DOMAIN inst : i # n => inst'[i] = inst[i]
      /\ inst'[n].status = "failed" \/ inst' = inst
    BY <1>1, <1>2, StatusSet
<1> HIDE DEF n
<1>4. \A e \in DOMAIN ledger : ledger[e].inst # n /\ ledger[e].inst \in DOMAIN inst
    BY <1>1, EntryType DEF Unwritten, Running, n, Entry
<1>5. AllFaithful' /\ Quiet'
  <2>1. \A x \in calls : x[1] \in DOMAIN inst
      BY CallType DEF Touched
  <2>2. Quiet'
      BY <2>1, <1>1, <1>3 DEF Quiet
  <2> QED
      BY <2>2, <1>1, <1>3, <1>4, FaithfulStays DEF Touched
<1>6. (Fresh /\ InStep /\ Known /\ Unwritten /\ Locals)'
    BY <1>1, AtTheSocket
<1>7. TypeOK'
    BY <1>1, <1>3, <1>6 DEF TypeOK, Locals, Instance
<1> QED
    BY <1>5, <1>6, <1>7

-----------------------------------------------------------------------------
(* The theorems.                                                           *)

LEMMA Invariance == Spec => []Inv
<1>1. Init => Inv
    BY InvInit
<1>2. Inv /\ [Next]_vars => Inv'
  <2> SUFFICES ASSUME Inv, [Next]_vars
               PROVE  Inv'
      OBVIOUS
  <2>1. CASE UNCHANGED vars
    <3>1. UNCHANGED <<queue, pc, steps, cursor, ran, errors, inst, calls, answers, effects, ledger, sent>>
        BY <2>1 DEF vars, locals, server
    <3>2. TypeOK'
        BY <3>1 DEF Inv, TypeOK
    <3>3. AllFaithful'
        BY <3>1, FaithfulStays DEF Inv, Touched
    <3> QED
        BY <3>1, <3>2, <3>3 DEF Inv, Fresh, InStep, Known, Touched, Quiet, Unwritten,
                                Running, FinalStatus
  <2>2. CASE Next
      BY <2>2, InvIdle, InvVerify, InvConnect, InvDispatch, InvAwait, InvServe,
         InvFinish, InvAppendLedger, InvAnnounce, InvFatal DEF Next, Daemon
  <2> QED
      BY <2>1, <2>2
<1> QED
    BY <1>1, <1>2, PTL DEF Spec

(* The daemon's locals, the instances in Valkey, the tool calls with what  *)
(* came of them and the entries stay of their types, whatever fails or     *)
(* dies.                                                                   *)
THEOREM TypeCorrect == Spec => []TypeOK
<1>1. Inv => TypeOK
    BY DEF Inv
<1> QED
    BY <1>1, Invariance, PTL

(* For playbooks of any length and any number of them: what a              *)
(* cacao_executed entry may be relied on for, although a tool may act      *)
(* after its time limit, after the daemon's death or not at all.           *)
THEOREM TruthfulEntries == Spec => []EntryTruthful
<1>1. Inv => EntryTruthful
    BY TruthfulEntry DEF Inv, AllFaithful, EntryTruthful
<1> QED
    BY <1>1, Invariance, PTL

(* A tool is called only for the instance under way, once and after every  *)
(* earlier step was answered or counted as an error, and acts for such a   *)
(* call alone and never for an instance told to have succeeded, for        *)
(* playbooks of any length.                                                *)
THEOREM ActsInOrder == Spec => ActsOnceInOrder
<1> DEFINE Made(x) == /\ x[1] = Len(inst) /\ inst[x[1]].status = "running"
                      /\ ran = 1 .. x[2] - 1
                      /\ \A s \in ran \ errors : <<x[1], s>> \in answers
           Allowed(x) == x \in calls /\ inst[x[1]].status # "succeeded"
<1>1. Inv /\ [Next]_vars =>
          [/\ \A x \in calls' \ calls : Made(x)
           /\ \A x \in effects' \ effects : Allowed(x)]_<<calls, effects, ran>>
  <2> SUFFICES ASSUME Inv, [Next]_vars
               PROVE  /\ \A x \in calls' \ calls : Made(x)
                      /\ \A x \in effects' \ effects : Allowed(x)
      OBVIOUS
  <2>1. CASE Dispatch
    <3>1. /\ calls' \ calls \subseteq {<<Len(inst), cursor>>}
          /\ effects' = effects /\ pc = "dispatch"
        BY <2>1 DEF Dispatch, Call, Current
    <3>2. /\ inst[Len(inst)].status = "running" /\ ran = 1 .. cursor - 1
          /\ \A s \in ran \ errors : <<Len(inst), s>> \in answers
        BY <3>1 DEF Inv, InStep, Known, Running
    <3>3. Made(<<Len(inst), cursor>>)
        BY <3>2
    <3> QED
        BY <3>1, <3>3
  <2>2. CASE \E c \in calls : Serve(c)
    <3>1. calls' \subseteq calls /\ effects' \ effects \subseteq calls
        BY <2>2 DEF Serve
    <3> QED
        BY <3>1 DEF Inv, Quiet
  <2>3. CASE UNCHANGED <<calls, effects>>
      BY <2>3
  <2> QED
      BY <2>1, <2>2, <2>3
      DEF vars, Next, Daemon, Publish, Recv, Crash, Restart, Verify, Connect,
          StepSucceeds, StepFails, Finish, AppendLedger, Announce, Fatal, server
<1> QED
    BY <1>1, Invariance, PTL DEF Spec, ActsOnceInOrder
=============================================================================
