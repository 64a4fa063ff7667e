-------------------------- MODULE InferenceProofs --------------------------
(***************************************************************************)
(* What holds of the inference lock and of the verdicts of the narrator    *)
(* for any number of processes, threads, debates and pivots, whatever the  *)
(* model answers, however tasks are cancelled and processes die.           *)
(***************************************************************************)
EXTENDS Narrator, TLAPS

Stages == {"idle", "acquiring", "posting", "releasing", "calling", "gone"}

Jobs == {"none", "acquire", "release", "call"}

-----------------------------------------------------------------------------
(* The lock and the thread pools.                                          *)

LockTypeOK ==
    /\ stage \in [Callers -> Stages]
    /\ job \in [Callers -> Jobs]
    /\ queue \in [Processes -> Seq(Callers)]
    /\ busy \in SUBSET Callers
    /\ lock \in Callers \cup {Nobody}

(* The job of a task is the one of its stage, and a task that is gone may  *)
(* have left one in the pool.                                              *)
JobOfStage(c) ==
    /\ stage[c] \in {"idle", "posting"} => job[c] = "none"
    /\ stage[c] = "acquiring" => job[c] = "acquire"
    /\ stage[c] = "releasing" => job[c] = "release"
    /\ stage[c] = "calling" => job[c] = "call"
    /\ stage[c] = "gone" => job[c] # "call"

(* No request is made, and nothing is released, without the lock.          *)
ByHolder(c) == stage[c] = "posting" \/ job[c] = "release" => lock = c

(* The job of a task is queued or has a thread.                            *)
JobInPool(c) == job[c] # "none" => c \in busy \/ c \in Range(queue[Home[c]])

(* The lock of a task is in use or about to come back.                     *)
ComesBack(c) ==
    lock = c => \/ stage[c] = "posting"
                \/ job[c] = "release"
                \/ stage[c] = "gone" /\ job[c] = "none"

LockOK(c) == JobOfStage(c) /\ ByHolder(c) /\ JobInPool(c) /\ ComesBack(c)

LockInv == LockTypeOK /\ \A c \in Callers : LockOK(c)

LEMMA Appended ==
    ASSUME NEW q \in [Processes -> Seq(Callers)], NEW c \in Callers
    PROVE  LET r == [q EXCEPT ![Home[c]] = Append(@, c)] IN
           /\ r \in [Processes -> Seq(Callers)]
           /\ c \in Range(r[Home[c]])
           /\ \A d \in Callers : d \in Range(q[Home[d]]) => d \in Range(r[Home[d]])
<1> DEFINE p == Home[c]
           r == [q EXCEPT ![p] = Append(@, c)]
<1>1. p \in Processes /\ \A d \in Callers : Home[d] \in Processes
    BY HomeAssumption
<1>2. r \in [Processes -> Seq(Callers)] /\ r[p] = Append(q[p], c)
    BY <1>1
<1>3. r[p][Len(q[p]) + 1] = c /\ Len(q[p]) + 1 \in DOMAIN r[p]
    BY <1>1, <1>2
<1>4. \A i \in DOMAIN q[p] : i \in DOMAIN r[p] /\ r[p][i] = q[p][i]
    BY <1>1, <1>2
<1>5. ASSUME NEW d \in Callers, d \in Range(q[Home[d]])
      PROVE  d \in Range(r[Home[d]])
    BY <1>1, <1>4, <1>5 DEF Range
<1> QED
    BY <1>2, <1>3, <1>5 DEF Range

LEMMA Taken ==
    ASSUME NEW q \in [Processes -> Seq(Callers)], NEW p \in Processes, q[p] # <<>>
    PROVE  LET r == [q EXCEPT ![p] = Tail(@)] IN
           /\ r \in [Processes -> Seq(Callers)]
           /\ Head(q[p]) \in Callers
           /\ \A d \in Callers : d \in Range(q[Home[d]]) =>
                 d = Head(q[p]) \/ d \in Range(r[Home[d]])
<1> DEFINE r == [q EXCEPT ![p] = Tail(@)]
<1>1. r \in [Processes -> Seq(Callers)] /\ r[p] = Tail(q[p]) /\ Head(q[p]) \in Callers
    OBVIOUS
<1>2. \A i \in DOMAIN q[p] : i # 1 => i - 1 \in DOMAIN r[p] /\ r[p][i - 1] = q[p][i]
    BY <1>1
<1>3. ASSUME NEW d \in Callers, d \in Range(q[Home[d]]), d # Head(q[p])
      PROVE  d \in Range(r[Home[d]])
    <2>1. CASE Home[d] = p
        <3>1. PICK i \in DOMAIN q[p] : q[p][i] = d
            BY <1>3, <2>1 DEF Range
        <3>2. i # 1
            BY <1>3, <3>1
        <3>3. i - 1 \in DOMAIN r[Home[d]] /\ r[Home[d]][i - 1] = d
            BY <1>2, <2>1, <3>1, <3>2
        <3> HIDE DEF r
        <3> QED
            BY <3>3, Zenon DEF Range
    <2>2. CASE Home[d] # p
        BY <1>3, <2>2, HomeAssumption
    <2> QED
        BY <2>1, <2>2
<1> QED
    BY <1>1, <1>3

LEMMA ChatLock ==
    ASSUME LockInv, NEW c \in Callers, Chat(c)
    PROVE  LockInv'
<1>1. LockTypeOK'
    BY Appended DEF LockInv, LockTypeOK, Chat, Submit, Stages, Jobs
<1>2. ASSUME NEW d \in Callers
      PROVE  LockOK(d)'
    BY Appended DEF LockInv, LockTypeOK, Chat, Submit, LockOK, JobOfStage, ByHolder, JobInPool,
                    ComesBack
<1> QED
    BY <1>1, <1>2 DEF LockInv

LEMMA CallLock ==
    ASSUME LockInv, NEW c \in Callers, Call(c)
    PROVE  LockInv'
<1>1. LockTypeOK'
    BY Appended DEF LockInv, LockTypeOK, Call, Submit, Stages, Jobs
<1>2. ASSUME NEW d \in Callers
      PROVE  LockOK(d)'
    BY Appended DEF LockInv, LockTypeOK, Call, Submit, LockOK, JobOfStage, ByHolder, JobInPool,
                    ComesBack
<1> QED
    BY <1>1, <1>2 DEF LockInv

LEMMA PostedLock ==
    ASSUME LockInv, NEW c \in Callers, Posted(c)
    PROVE  LockInv'
<1>1. LockTypeOK'
    BY Appended DEF LockInv, LockTypeOK, Posted, Submit, Stages, Jobs
<1>2. ASSUME NEW d \in Callers
      PROVE  LockOK(d)'
    BY Appended DEF LockInv, LockTypeOK, Posted, Submit, LockOK, JobOfStage, ByHolder,
                    JobInPool, ComesBack
<1> QED
    BY <1>1, <1>2 DEF LockInv

LEMMA CancelLock ==
    ASSUME LockInv, NEW c \in Callers, Cancel(c)
    PROVE  LockInv'
<1>1. CASE stage[c] = "posting"
    <2>1. LockTypeOK'
        <3>1. queue' = [queue EXCEPT ![Home[c]] = Append(@, c)]
            BY <1>1 DEF Cancel, Submit
        <3>2. queue' \in [Processes -> Seq(Callers)]
            BY <3>1, Appended DEF LockInv, LockTypeOK
        <3> QED
            BY <1>1, <3>2 DEF LockInv, LockTypeOK, Cancel, Submit, Stages, Jobs
    <2>2. ASSUME NEW d \in Callers
          PROVE  LockOK(d)'
        <3>1. /\ stage' = [stage EXCEPT ![c] = "gone"]
              /\ job' = [job EXCEPT ![c] = "release"]
              /\ busy' = busy /\ lock' = lock /\ lock = c
            BY <1>1 DEF Cancel, Submit, LockInv, LockOK, ByHolder
        <3>2. /\ c \in Range(queue'[Home[c]])
              /\ d \in Range(queue[Home[d]]) => d \in Range(queue'[Home[d]])
            BY <1>1, Appended DEF Cancel, Submit, LockInv, LockTypeOK
        <3> QED
            BY <3>1, <3>2 DEF LockInv, LockTypeOK, LockOK, JobOfStage, ByHolder, JobInPool,
                              ComesBack
    <2> QED
        BY <2>1, <2>2 DEF LockInv
<1>2. CASE stage[c] # "posting"
    <2>1. LockTypeOK'
        BY <1>2 DEF LockInv, LockTypeOK, Cancel, Stages
    <2>2. ASSUME NEW d \in Callers
          PROVE  LockOK(d)'
        BY <1>2 DEF LockInv, LockTypeOK, Cancel, LockOK, JobOfStage, ByHolder, JobInPool,
                    ComesBack
    <2> QED
        BY <2>1, <2>2 DEF LockInv
<1> QED
    BY <1>1, <1>2

LEMMA UnlockedLock ==
    ASSUME LockInv, NEW c \in Callers, Unlocked(c)
    PROVE  LockInv'
<1>1. LockTypeOK'
    BY DEF LockInv, LockTypeOK, Unlocked, JobEnds, Stages, Jobs
<1>2. ASSUME NEW d \in Callers
      PROVE  LockOK(d)'
    BY NobodyAssumption
    DEF LockInv, LockTypeOK, Unlocked, JobEnds, LockOK, JobOfStage, ByHolder, JobInPool, ComesBack
<1> QED
    BY <1>1, <1>2 DEF LockInv

LEMMA CalledLock ==
    ASSUME LockInv, NEW c \in Callers, Called(c)
    PROVE  LockInv'
<1>1. LockTypeOK'
    BY DEF LockInv, LockTypeOK, Called, JobEnds, Stages, Jobs
<1>2. ASSUME NEW d \in Callers
      PROVE  LockOK(d)'
    BY DEF LockInv, LockTypeOK, Stages, Called, JobEnds, LockOK, JobOfStage, ByHolder, JobInPool,
           ComesBack
<1> QED
    BY <1>1, <1>2 DEF LockInv

LEMMA ThreadLock ==
    ASSUME LockInv, LockStep
    PROVE  LockInv'
<1>1. ASSUME NEW p \in Processes, TakeJob(p)
      PROVE  LockInv'
    <2> DEFINE c == Head(queue[p])
    <2>1. /\ queue' \in [Processes -> Seq(Callers)]
          /\ c \in Callers
          /\ \A d \in Callers : d \in Range(queue[Home[d]]) =>
                d = c \/ d \in Range(queue'[Home[d]])
        BY <1>1, Taken DEF TakeJob, LockInv, LockTypeOK
    <2>2. /\ stage' = stage
          /\ busy' = IF stage[c] = "gone" THEN busy ELSE busy \cup {c}
          /\ job' = IF stage[c] = "gone" THEN [job EXCEPT ![c] = "none"] ELSE job
          /\ lock' = IF stage[c] = "gone" /\ lock = c THEN Nobody ELSE lock
        BY <1>1 DEF TakeJob
    <2> HIDE DEF c
    <2>3. LockTypeOK'
        BY <2>1, <2>2 DEF LockInv, LockTypeOK, Jobs
    <2>4. ASSUME NEW d \in Callers
          PROVE  LockOK(d)'
        BY <2>1, <2>2, NobodyAssumption
        DEF LockInv, LockTypeOK, LockOK, JobOfStage, ByHolder, JobInPool, ComesBack
    <2> QED
        BY <2>3, <2>4 DEF LockInv
<1>2. ASSUME NEW c \in Callers, Locked(c)
      PROVE  LockInv'
    <2>1. LockTypeOK'
        BY <1>2 DEF LockInv, LockTypeOK, Locked, JobEnds, Stages, Jobs
    <2>2. ASSUME NEW d \in Callers
          PROVE  LockOK(d)'
        BY <1>2, NobodyAssumption
        DEF LockInv, LockTypeOK, Stages, Locked, JobEnds, LockOK, JobOfStage, ByHolder, JobInPool,
            ComesBack
    <2> QED
        BY <2>1, <2>2 DEF LockInv
<1>3. ASSUME NEW c \in Callers, Dropped(c)
      PROVE  LockInv'
    BY <1>3, NobodyAssumption
    DEF LockInv, LockTypeOK, Dropped, LockOK, JobOfStage, ByHolder, JobInPool, ComesBack
<1> QED
    BY <1>1, <1>2, <1>3 DEF LockStep

LEMMA DieLock ==
    ASSUME LockInv, NEW p \in Processes, NEW tasks, Die(p, tasks)
    PROVE  LockInv'
<1> DEFINE own == {c \in Callers : Home[c] = p /\ (c \in tasks \/ stage[c] # "idle")}
<1>1. /\ stage' = [c \in Callers |-> IF c \in own THEN "gone" ELSE stage[c]]
      /\ job' = [c \in Callers |-> IF c \in own THEN "none" ELSE job[c]]
      /\ queue' = [queue EXCEPT ![p] = <<>>]
      /\ busy' = busy \ own
      /\ lock' = IF lock \in own THEN Nobody ELSE lock
    BY DEF Die
<1>2. own \subseteq Callers /\ \A c \in Callers \ own : Home[c] = p => stage[c] = "idle"
    OBVIOUS
<1> HIDE DEF own
<1>3. LockTypeOK'
    BY <1>1, <1>2 DEF LockInv, LockTypeOK, Stages, Jobs
<1>4. ASSUME NEW d \in Callers
      PROVE  LockOK(d)'
    <2>1. CASE d \in own
        BY <1>1, <1>2, <2>1, NobodyAssumption
        DEF LockOK, JobOfStage, ByHolder, JobInPool, ComesBack, LockInv, LockTypeOK
    <2>2. CASE d \notin own /\ Home[d] = p
        BY <1>1, <1>2, <2>2, NobodyAssumption
        DEF LockOK, JobOfStage, ByHolder, JobInPool, ComesBack, LockInv, LockTypeOK
    <2>3. CASE d \notin own /\ Home[d] # p
        BY <1>1, <1>2, <2>3, NobodyAssumption, HomeAssumption
        DEF LockOK, JobOfStage, ByHolder, JobInPool, ComesBack, LockInv, LockTypeOK
    <2> QED
        BY <2>1, <2>2, <2>3
<1> QED
    BY <1>3, <1>4 DEF LockInv

-----------------------------------------------------------------------------
(* The requests of a task.                                                 *)

Roles == {"prosecutor", "defense", "judge", "swapped", "pivot"}

Replies == {None} \cup UNION {Answers[role] : role \in Roles}

FacadeTypeOK ==
    /\ part \in [Callers -> Nat \ {0}]
    /\ attempt \in [Callers -> {0, 1}]
    /\ heard \in [Callers -> Replies]
    /\ outcome \in [Callers -> {"open", "ended", "told"}]

(* A task holds on to one of its requests; when it is gone or its script   *)
(* has ended it makes no other one.                                        *)
OnScript(c) ==
    /\ part[c] <= Len(Script[c]) + 1
    /\ stage[c] \in {"acquiring", "posting", "releasing"} => part[c] \in DOMAIN Script[c]
    /\ stage[c] = "gone" => outcome[c] # "open"
    /\ outcome[c] # "open" => stage[c] \in {"idle", "gone"}
    /\ outcome[c] = "told" => job[c] = "none"

(* What a task has heard answers the request it is at.                     *)
HeardInTurn(c) == heard[c] # None => stage[c] = "releasing" /\ heard[c] \in Answers[Role(c)]

TaskOK(c) == OnScript(c) /\ HeardInTurn(c)

TaskInv == FacadeTypeOK /\ \A c \in Callers : TaskOK(c)

LEMMA Scripts ==
    ASSUME NEW c \in Callers
    PROVE  /\ Script[c] \in Seq(Roles)
           /\ c \in Debates => /\ Len(Script[c]) = 4
                               /\ Script[c][1] = "prosecutor" /\ Script[c][2] = "defense"
                               /\ Script[c][3] = "judge" /\ Script[c][4] = "swapped"
           /\ c \notin Debates => Len(Script[c]) = 1 /\ Script[c][1] = "pivot"
<1>1. CASE c \in Debates
    <2>1. Script[c] = <<"prosecutor", "defense", "judge", "swapped">>
        BY <1>1, ScriptAssumption
    <2>2. <<"prosecutor", "defense", "judge", "swapped">> \in Seq(Roles)
        BY DEF Roles
    <2> QED
        BY <1>1, <2>1, <2>2
<1>2. CASE c \notin Debates
    <2>1. Script[c] = <<"pivot">>
        BY <1>2, ScriptAssumption
    <2>2. <<"pivot">> \in Seq(Roles)
        BY DEF Roles
    <2> QED
        BY <1>2, <2>1, <2>2
<1> QED
    BY <1>1, <1>2

LEMMA RequestTask ==
    ASSUME LockInv, TaskInv, NEW c \in Callers, Request(c)
    PROVE  TaskInv'
<1>1. ASSUME NEW d \in Callers
      PROVE  TaskOK(d)'
    BY DEF TaskInv, FacadeTypeOK, TaskOK, OnScript, HeardInTurn, Role, Request, Chat, Submit,
           LockInv, LockTypeOK
<1> QED
    BY <1>1 DEF TaskInv, FacadeTypeOK, Request

LEMMA RespondTask ==
    ASSUME LockInv, TaskInv, NEW c \in Callers, Respond(c)
    PROVE  TaskInv'
<1>1. PICK h \in Answers[Role(c)] \cup {None} : heard' = [heard EXCEPT ![c] = h]
    BY DEF Respond
<1>2. Role(c) \in Roles
    BY Scripts DEF Respond, Posted, TaskInv, TaskOK, OnScript, Role
<1>3. FacadeTypeOK'
    BY <1>1, <1>2 DEF TaskInv, FacadeTypeOK, Respond, Replies
<1>4. ASSUME NEW d \in Callers
      PROVE  TaskOK(d)'
    BY <1>1 DEF TaskInv, FacadeTypeOK, TaskOK, OnScript, HeardInTurn, Role, Respond, Posted,
                Submit, LockInv, LockTypeOK, LockOK, JobOfStage
<1> QED
    BY <1>3, <1>4 DEF TaskInv

LEMMA Released ==
    ASSUME LockInv, TaskInv, NEW c \in Callers, Unlocked(c)
    PROVE  /\ stage[c] \in {"releasing", "gone"} /\ outcome[c] # "told"
           /\ stage' = IF stage[c] = "gone" THEN stage ELSE [stage EXCEPT ![c] = "idle"]
           /\ job' = [job EXCEPT ![c] = "none"]
BY DEF LockInv, LockTypeOK, Stages, LockOK, JobOfStage, TaskInv, TaskOK, OnScript, Unlocked,
       JobEnds

LEMMA ReturnTask ==
    ASSUME LockInv, TaskInv, NEW c \in Callers, Return(c)
    PROVE  TaskInv'
<1>1. /\ stage[c] \in {"releasing", "gone"} /\ outcome[c] # "told"
      /\ stage' = IF stage[c] = "gone" THEN stage ELSE [stage EXCEPT ![c] = "idle"]
      /\ job' = [job EXCEPT ![c] = "none"]
    BY Released DEF Return
<1>2. CASE stage[c] = "gone"
    <2>1. UNCHANGED <<stage, part, attempt, heard, outcome>>
        BY <1>1, <1>2 DEF Return
    <2> QED
        BY <1>1, <2>1
        DEF TaskInv, FacadeTypeOK, TaskOK, OnScript, HeardInTurn, Role, LockInv, LockTypeOK
<1>3. CASE stage[c] # "gone" /\ End({c})
    <2>1. FacadeTypeOK'
        BY <1>3 DEF TaskInv, FacadeTypeOK, End, Replies
    <2>2. ASSUME NEW d \in Callers
          PROVE  TaskOK(d)'
        BY <1>1, <1>3, Scripts
        DEF TaskInv, FacadeTypeOK, TaskOK, OnScript, HeardInTurn, Role, LockInv, LockTypeOK, End
    <2> QED
        BY <2>1, <2>2 DEF TaskInv
<1>4. CASE stage[c] # "gone" /\ ~End({c})
    <2>1. /\ part' = [part EXCEPT ![c] = IF Fitting(c) THEN @ + 1 ELSE @]
          /\ attempt' = [attempt EXCEPT ![c] = IF Fitting(c) THEN 0 ELSE 1]
          /\ heard' = [heard EXCEPT ![c] = None]
          /\ outcome' = [outcome EXCEPT ![c] =
                 IF Fitting(c) /\ Role(c) = "pivot" THEN "told" ELSE @]
        BY <1>4 DEF Return
    <2>2. FacadeTypeOK'
        BY <2>1 DEF TaskInv, FacadeTypeOK, Replies
    <2>3. part[c] \in DOMAIN Script[c] /\ Script[c] \in Seq(Roles)
        BY <1>1, <1>4, Scripts DEF TaskInv, TaskOK, OnScript
    <2>4. part'[c] <= Len(Script[c]) + 1 /\ heard'[c] = None /\ stage'[c] = "idle" /\ job'[c] = "none"
        BY <1>1, <1>4, <2>1, <2>3 DEF TaskInv, FacadeTypeOK, LockInv, LockTypeOK
    <2>5. \A d \in Callers \ {c} :
              /\ part'[d] = part[d] /\ heard'[d] = heard[d] /\ outcome'[d] = outcome[d]
              /\ stage'[d] = stage[d] /\ job'[d] = job[d]
        BY <1>1, <1>4, <2>1 DEF TaskInv, FacadeTypeOK, LockInv, LockTypeOK
    <2>6. ASSUME NEW d \in Callers
          PROVE  TaskOK(d)'
        BY <2>4, <2>5 DEF TaskInv, TaskOK, OnScript, HeardInTurn, Role
    <2> QED
        BY <2>2, <2>6 DEF TaskInv
<1> QED
    BY <1>2, <1>3, <1>4

(* A task that ends, cancelled or with its process.                        *)
LEMMA EndTask ==
    ASSUME LockInv, TaskInv, NEW tasks \in SUBSET Callers, NEW own \in SUBSET Callers, End(tasks),
           stage' = [c \in Callers |-> IF c \in own THEN "gone" ELSE stage[c]],
           \A c \in Callers \ own : job'[c] = job[c],
           \A c \in own : outcome[c] = "told" => job'[c] = "none",
           tasks \subseteq own, \A c \in own : outcome[c] = "open" => c \in tasks
    PROVE  TaskInv'
<1>1. FacadeTypeOK'
    BY DEF TaskInv, FacadeTypeOK, End, Replies
<1>2. ASSUME NEW d \in Callers
      PROVE  TaskOK(d)'
    BY Scripts
    DEF TaskInv, FacadeTypeOK, TaskOK, OnScript, HeardInTurn, Role, LockInv, LockTypeOK, End
<1> QED
    BY <1>1, <1>2 DEF TaskInv

LEMMA ExpireTask ==
    ASSUME LockInv, TaskInv, NEW c \in Callers, Expire(c)
    PROVE  TaskInv'
<1>1. /\ stage' = [d \in Callers |-> IF d \in {c} THEN "gone" ELSE stage[d]]
      /\ \A d \in Callers \ {c} : job'[d] = job[d]
      /\ outcome[c] = "open" /\ End({c})
    BY DEF Expire, Cancel, Submit, LockInv, LockTypeOK
<1> QED
    BY <1>1, EndTask

LEMMA LockStepTask ==
    ASSUME LockInv, TaskInv, LockStep
    PROVE  TaskInv'
<1>1. UNCHANGED <<part, attempt, heard, outcome>>
    BY DEF LockStep
<1>2. FacadeTypeOK'
    BY <1>1 DEF TaskInv, FacadeTypeOK
<1>3. ASSUME NEW p \in Processes, TakeJob(p)
      PROVE  \A d \in Callers : TaskOK(d)'
    <2>1. UNCHANGED stage /\ Head(queue[p]) \in Callers /\
          (UNCHANGED job \/ job' = [job EXCEPT ![Head(queue[p])] = "none"])
        BY <1>3, Taken DEF TakeJob, LockInv, LockTypeOK
    <2> QED
        BY <1>1, <2>1 DEF TaskInv, TaskOK, OnScript, HeardInTurn, Role, LockInv, LockTypeOK
<1>4. ASSUME NEW c \in Callers, Locked(c)
      PROVE  \A d \in Callers : TaskOK(d)'
    <2>1. stage[c] \in {"acquiring", "gone"}
        BY <1>4 DEF Locked, LockInv, LockTypeOK, Stages, LockOK, JobOfStage
    <2> QED
        BY <1>1, <1>4, <2>1
        DEF TaskInv, TaskOK, OnScript, HeardInTurn, Role, LockInv, LockTypeOK, Locked, JobEnds
<1>5. ASSUME NEW c \in Callers, Dropped(c)
      PROVE  \A d \in Callers : TaskOK(d)'
    BY <1>1, <1>5 DEF TaskInv, TaskOK, OnScript, HeardInTurn, Role, Dropped
<1> QED
    BY <1>2, <1>3, <1>4, <1>5 DEF TaskInv, LockStep

LEMMA CallTask ==
    ASSUME LockInv, TaskInv, NEW c \in Callers, outcome[c] = "open", Call(c),
           UNCHANGED <<part, attempt, heard, outcome>>
    PROVE  TaskInv'
BY DEF TaskInv, FacadeTypeOK, TaskOK, OnScript, HeardInTurn, Role, LockInv, LockTypeOK, LockOK,
       JobOfStage, Call, Submit

(* A call that ends, and with it perhaps the debate.                       *)
LEMMA CalledTask ==
    ASSUME LockInv, TaskInv, NEW c \in Callers, Called(c), UNCHANGED <<part, attempt, heard>>,
           outcome' \in {outcome, [outcome EXCEPT ![c] = "told"]}
    PROVE  TaskInv' /\ stage[c] = "calling" /\ outcome[c] = "open"
<1>1. stage[c] = "calling" /\ outcome[c] = "open"
    BY DEF Called, LockInv, LockTypeOK, Stages, LockOK, JobOfStage, TaskInv, TaskOK, OnScript
<1>2. FacadeTypeOK'
    BY DEF TaskInv, FacadeTypeOK
<1>3. ASSUME NEW d \in Callers
      PROVE  TaskOK(d)'
    BY <1>1 DEF TaskInv, FacadeTypeOK, TaskOK, OnScript, HeardInTurn, Role, LockInv, LockTypeOK,
                Called, JobEnds
<1> QED
    BY <1>1, <1>2, <1>3 DEF TaskInv

-----------------------------------------------------------------------------
(* The debates.                                                            *)

(* The scores of a verdict.                                                *)
Points == {0, 4}

Row == [debate : Debates, score : Points]

NarratorTypeOK ==
    /\ waiting \in Seq(Debates)
    /\ inside \in SUBSET Debates
    /\ exhibits \in SUBSET Debates
    /\ scores \in [Debates -> Seq(Points)]
    /\ rows \in Seq(Row)

(* The number of scores that the requests before the nth one have given.   *)
GivenBefore(n) == IF n <= 3 THEN 0 ELSE n - 3

InTurn(d) ==
    /\ d \in Range(waiting) => outcome[d] = "open" /\ d \notin inside
    /\ d \in inside => outcome[d] = "open"
    /\ outcome[d] = "open" /\ d \notin inside => stage[d] = "idle"
    /\ d \in exhibits => d \in inside
    /\ d \in exhibits /\ stage[d] = "calling" => part[d] = 5

Scored(d) ==
    /\ outcome[d] = "open" => Len(scores[d]) = GivenBefore(part[d])
    /\ outcome[d] = "told" => Len(scores[d]) = 2

RowsInv ==
    /\ \A i, j \in DOMAIN rows : rows[i].debate = rows[j].debate => i = j
    /\ \A i \in DOMAIN rows :
          outcome[rows[i].debate] = "told" /\ rows[i].score = Verdict(rows[i].debate)

DebateInv ==
    /\ NarratorTypeOK
    /\ \A d \in Debates : InTurn(d) /\ Scored(d)
    /\ IsInjective(waiting)
    /\ RowsInv

NarratorInv == LockInv /\ TaskInv /\ DebateInv

LEMMA RowsOf ==
    ASSUME NarratorTypeOK
    PROVE  \A i \in DOMAIN rows : rows[i].debate \in Debates /\ rows[i].score \in Points
<1>1. \A i \in DOMAIN rows : rows[i] \in Row
    BY DEF NarratorTypeOK
<1>2. \A r \in Row : r.debate \in Debates /\ r.score \in Points
    BY DEF Row
<1> QED
    BY <1>1, <1>2

(* Rows stay what they are as long as the debates that were told do.       *)
LEMMA RowsKept ==
    ASSUME DebateInv, UNCHANGED rows,
           \A d \in Debates : outcome[d] = "told" => outcome'[d] = "told" /\ scores'[d] = scores[d]
    PROVE  RowsInv'
<1>1. \A i \in DOMAIN rows : rows[i].debate \in Debates
    BY RowsOf DEF DebateInv
<1> QED
    BY <1>1 DEF DebateInv, RowsInv, Verdict

(* A step that changes only what a task of the narrator does.              *)
LEMMA OneMoves ==
    ASSUME DebateInv, UNCHANGED <<part, outcome, waiting, inside, scores, rows>>,
           exhibits' \in SUBSET inside,
           \A d \in Debates :
              /\ outcome[d] = "open" /\ d \notin inside => stage'[d] = stage[d]
              /\ d \in exhibits' /\ stage'[d] = "calling" => part[d] = 5
    PROVE  DebateInv'
<1>1. NarratorTypeOK' /\ IsInjective(waiting')
    BY DEF DebateInv, NarratorTypeOK
<1>2. RowsInv'
    BY RowsKept
<1>3. ASSUME NEW d \in Debates
      PROVE  InTurn(d)' /\ Scored(d)'
    BY DEF DebateInv, InTurn, Scored, NarratorTypeOK
<1> QED
    BY <1>1, <1>2, <1>3 DEF DebateInv

LEMMA Same ==
    ASSUME UNCHANGED facadeVars, LockInv, TaskInv
    PROVE  LockInv' /\ TaskInv'
<1>1. UNCHANGED <<stage, job, queue, busy, lock, part, attempt, heard, outcome>>
    BY DEF facadeVars, lockVars
<1>2. LockInv'
    BY <1>1 DEF LockInv, LockTypeOK, LockOK, JobOfStage, ByHolder, JobInPool, ComesBack
<1>3. TaskInv'
    BY <1>1 DEF TaskInv, FacadeTypeOK, TaskOK, OnScript, HeardInTurn, Role
<1> QED
    BY <1>2, <1>3

LEMMA ReceiveStep ==
    ASSUME NarratorInv, NEW d \in Debates, Receive(d)
    PROVE  NarratorInv'
<1>1. /\ waiting' = Append(waiting, d) /\ waiting \in Seq(Debates)
      /\ outcome[d] = "open" /\ d \notin inside /\ d \notin Range(waiting)
      /\ UNCHANGED <<facadeVars, inside, exhibits, scores, rows>>
    BY DEF Receive, NarratorInv, DebateInv, NarratorTypeOK
<1>2. UNCHANGED <<stage, part, outcome>>
    BY <1>1 DEF facadeVars, lockVars
<1>3. NarratorTypeOK'
    BY <1>1 DEF NarratorInv, DebateInv, NarratorTypeOK
<1>4. \A i \in DOMAIN waiting' : \/ i \in DOMAIN waiting /\ waiting'[i] = waiting[i]
                                 \/ i = Len(waiting) + 1 /\ waiting'[i] = d
    BY <1>1
<1>5. IsInjective(waiting')
    <2>1. \A i \in DOMAIN waiting : waiting[i] # d
        BY <1>1 DEF Range
    <2> QED
        BY <1>1, <1>4, <2>1 DEF IsInjective, NarratorInv, DebateInv
<1>6. \A e \in Debates : e \in Range(waiting') => e \in Range(waiting) \/ e = d
    BY <1>4 DEF Range
<1>7. ASSUME NEW e \in Debates
      PROVE  InTurn(e)' /\ Scored(e)'
    BY <1>1, <1>2, <1>6 DEF NarratorInv, DebateInv, InTurn, Scored
<1>8. RowsInv'
    BY <1>1, <1>2, RowsKept DEF NarratorInv
<1> QED
    BY <1>1, <1>3, <1>5, <1>7, <1>8, Same DEF NarratorInv, DebateInv

LEMMA BeginStep ==
    ASSUME NarratorInv, Begin
    PROVE  NarratorInv'
<1> DEFINE d == Head(waiting)
<1>1. /\ waiting # <<>> /\ waiting' = Tail(waiting) /\ inside' = inside \cup {d}
      /\ Call(d) /\ UNCHANGED <<part, attempt, heard, outcome, exhibits, scores, rows>>
    BY DEF Begin
<1>2. waiting \in Seq(Debates) /\ IsInjective(waiting)
    BY DEF NarratorInv, DebateInv, NarratorTypeOK
<1>3. d \in Debates /\ d \in Range(waiting) /\ d \in Callers
    BY <1>1, <1>2, DebatesAssumption DEF Range
<1>4. outcome[d] = "open" /\ d \notin inside /\ d \notin exhibits
    BY <1>3 DEF NarratorInv, DebateInv, InTurn
<1> HIDE DEF d
<1>5. \A i \in DOMAIN waiting' : i + 1 \in DOMAIN waiting /\ waiting'[i] = waiting[i + 1]
    BY <1>1, <1>2
<1>6. IsInjective(waiting')
    BY <1>1, <1>2, <1>5 DEF IsInjective
<1>7. \A e \in Debates : e \in Range(waiting') => e \in Range(waiting) /\ e # d
    <2>1. \A i \in DOMAIN waiting' : waiting'[i] # d
        BY <1>1, <1>2, <1>5 DEF d, IsInjective
    <2> QED
        BY <1>5, <2>1 DEF Range
<1>8. NarratorTypeOK'
    BY <1>1, <1>2, <1>3 DEF NarratorInv, DebateInv, NarratorTypeOK
<1>9. ASSUME NEW e \in Debates
      PROVE  InTurn(e)' /\ Scored(e)'
    <2>1. e # d => stage'[e] = stage[e]
        BY <1>1, <1>3, DebatesAssumption DEF Call, NarratorInv, LockInv, LockTypeOK
    <2> QED
        BY <1>1, <1>4, <1>7, <2>1 DEF NarratorInv, DebateInv, InTurn, Scored
<1>10. RowsInv'
    BY <1>1, RowsKept DEF NarratorInv
<1>11. LockInv' /\ TaskInv'
    BY <1>1, <1>3, <1>4, CallLock, CallTask DEF NarratorInv
<1> QED
    BY <1>6, <1>8, <1>9, <1>10, <1>11 DEF NarratorInv, DebateInv

LEMMA CollectStep ==
    ASSUME NarratorInv, NEW d \in Debates, Collect(d)
    PROVE  NarratorInv'
<1>1. d \in Callers
    BY DebatesAssumption
<1>2. LockInv' /\ TaskInv'
    BY <1>1, CalledLock, CalledTask DEF NarratorInv, Collect
<1>3. stage' = [stage EXCEPT ![d] = "idle"] /\ stage \in [Callers -> Stages]
    BY DEF Collect, Called, NarratorInv, LockInv, LockTypeOK
<1>4. \A e \in Debates :
         /\ outcome[e] = "open" /\ e \notin inside => stage'[e] = stage[e]
         /\ e \in exhibits' /\ stage'[e] = "calling" => part[e] = 5
    BY <1>1, <1>3, DebatesAssumption DEF Collect, NarratorInv, DebateInv, InTurn
<1>5. exhibits' \in SUBSET inside
    BY DEF Collect, NarratorInv, DebateInv, InTurn, NarratorTypeOK
<1> QED
    BY <1>2, <1>4, <1>5, OneMoves DEF Collect, NarratorInv

(* A request that is made, answered, or given the lock.                    *)
LEMMA RequestMoves ==
    ASSUME NarratorInv, NEW c \in Callers, c \in inside \/ c \notin Debates,
           stage'[c] # "calling", \A d \in Callers \ {c} : stage'[d] = stage[d],
           UNCHANGED <<part, outcome, waiting, inside, exhibits, scores, rows>>
    PROVE  DebateInv'
<1>1. \A e \in Debates :
         /\ outcome[e] = "open" /\ e \notin inside => stage'[e] = stage[e]
         /\ e \in exhibits' /\ stage'[e] = "calling" => part[e] = 5
    BY DebatesAssumption DEF NarratorInv, DebateInv, InTurn
<1>2. exhibits' \in SUBSET inside
    BY DEF NarratorInv, DebateInv, InTurn, NarratorTypeOK
<1> QED
    BY <1>1, <1>2, OneMoves DEF NarratorInv

LEMMA ArgueStep ==
    ASSUME NarratorInv, NEW d \in Debates, Argue(d)
    PROVE  NarratorInv'
<1>1. d \in Callers /\ d \in inside /\ Request(d)
    BY DebatesAssumption DEF Argue, NarratorInv, DebateInv, InTurn
<1>2. LockInv' /\ TaskInv'
    BY <1>1, ChatLock, RequestTask DEF NarratorInv, Request
<1>3. DebateInv'
    BY <1>1, RequestMoves DEF Argue, Request, Chat, NarratorInv, LockInv, LockTypeOK
<1> QED
    BY <1>2, <1>3 DEF NarratorInv

LEMMA PivotStep ==
    ASSUME NarratorInv, NEW q \in Pivots, Pivot(q)
    PROVE  NarratorInv'
<1>1. q \in Callers /\ q \notin Debates /\ Request(q)
    BY DEF Pivots, Pivot
<1>2. LockInv' /\ TaskInv'
    BY <1>1, ChatLock, RequestTask DEF NarratorInv, Request
<1>3. DebateInv'
    BY <1>1, RequestMoves DEF Pivot, Request, Chat, NarratorInv, LockInv, LockTypeOK
<1> QED
    BY <1>2, <1>3 DEF NarratorInv

LEMMA HearStep ==
    ASSUME NarratorInv, NEW c \in Callers, Hear(c)
    PROVE  NarratorInv'
<1>1. Respond(c) /\ Posted(c)
    BY DEF Hear, Respond
<1>2. LockInv' /\ TaskInv'
    BY <1>1, PostedLock, RespondTask DEF NarratorInv
<1>3. c \in inside \/ c \notin Debates
    BY <1>1 DEF Posted, NarratorInv, DebateInv, InTurn, TaskInv, TaskOK, OnScript
<1>4. DebateInv'
    BY <1>1, <1>3, RequestMoves DEF Hear, Respond, Posted, NarratorInv, LockInv, LockTypeOK
<1> QED
    BY <1>2, <1>4 DEF NarratorInv

LEMMA ThreadStep ==
    ASSUME NarratorInv, Thread
    PROVE  NarratorInv'
<1>1. LockInv' /\ TaskInv'
    BY ThreadLock, LockStepTask DEF Thread, NarratorInv
<1>2. UNCHANGED <<part, outcome, waiting, inside, exhibits, scores, rows>>
    BY DEF Thread, LockStep
<1>3. \A d \in Callers : stage'[d] # stage[d] => stage[d] = "acquiring" /\ stage'[d] = "posting"
    BY DEF Thread, LockStep, TakeJob, Locked, Dropped, NarratorInv, LockInv, LockTypeOK, Stages,
           LockOK, JobOfStage
<1>4. \A e \in Debates :
         /\ outcome[e] = "open" /\ e \notin inside => stage'[e] = stage[e]
         /\ e \in exhibits' /\ stage'[e] = "calling" => part[e] = 5
    BY <1>2, <1>3, DebatesAssumption DEF NarratorInv, DebateInv, InTurn
<1>5. exhibits' \in SUBSET inside
    BY <1>2 DEF NarratorInv, DebateInv, InTurn, NarratorTypeOK
<1> QED
    BY <1>1, <1>2, <1>4, <1>5, OneMoves DEF NarratorInv

LEMMA TellStep ==
    ASSUME NarratorInv, NEW d \in Debates, Tell(d)
    PROVE  NarratorInv'
<1>1. d \in Callers
    BY DebatesAssumption
<1>2. LockInv' /\ TaskInv'
    BY <1>1, CallLock, CallTask DEF NarratorInv, Tell
<1>3. part[d] = 5 /\ d \in inside
    <2>1. Len(Script[d]) = 4
        BY <1>1, Scripts
    <2>2. part[d] \in Nat /\ part[d] <= Len(Script[d]) + 1 /\ part[d] > Len(Script[d])
        BY <1>1 DEF Tell, NarratorInv, TaskInv, FacadeTypeOK, TaskOK, OnScript
    <2> QED
        BY <2>1, <2>2 DEF Tell
<1>4. \A e \in Debates :
         /\ outcome[e] = "open" /\ e \notin inside => stage'[e] = stage[e]
         /\ e \in exhibits' /\ stage'[e] = "calling" => part[e] = 5
    BY <1>1, <1>3, DebatesAssumption
    DEF Tell, Call, NarratorInv, DebateInv, InTurn, LockInv, LockTypeOK
<1>5. exhibits' \in SUBSET inside
    BY DEF Tell, NarratorInv, DebateInv, InTurn, NarratorTypeOK
<1> QED
    BY <1>2, <1>4, <1>5, OneMoves DEF Tell, NarratorInv

(* The verdict of a debate that has both of its scores.                    *)
LEMMA VerdictGiven ==
    ASSUME NEW d \in Debates, scores \in [Debates -> Seq(Points)], Len(scores[d]) = 2
    PROVE  /\ Verdict(d) \in Points /\ Verdict(d) \in Range(scores[d])
           /\ \A s \in Range(scores[d]) : s <= Verdict(d)
<1>1. PICK s \in Seq(Points) : s = scores[d]
    OBVIOUS
<1>2. s[1] \in Points /\ s[2] \in Points
    <2>1. Len(s) = 2
        BY <1>1
    <2>2. \A i \in 1 .. Len(s) : s[i] \in Points
        OBVIOUS
    <2> QED
        BY <2>1, <2>2
<1>3. \A i \in DOMAIN s : i \in {1, 2}
    BY <1>1
<1>4. 1 \in DOMAIN s /\ 2 \in DOMAIN s
    BY <1>1
<1>5. Range(s) = {s[1], s[2]}
    BY <1>3, <1>4 DEF Range
<1> QED
    BY <1>1, <1>2, <1>5 DEF Verdict, Points

LEMMA ToldStep ==
    ASSUME NarratorInv, NEW d \in Debates, Told(d)
    PROVE  NarratorInv'
<1>1. d \in Callers /\ d \in exhibits /\ d \in inside /\ Called(d)
    BY DebatesAssumption DEF Told, NarratorInv, DebateInv, InTurn
<1>2. LockInv'
    BY <1>1, CalledLock DEF NarratorInv
<1>3. TaskInv' /\ stage[d] = "calling" /\ outcome[d] = "open"
    BY <1>1, CalledTask DEF NarratorInv, Told
<1>4. part[d] = 5 /\ Len(scores[d]) = 2
    <2>1. part[d] = 5 /\ Len(scores[d]) = GivenBefore(part[d])
        BY <1>1, <1>3 DEF NarratorInv, DebateInv, InTurn, Scored
    <2>2. GivenBefore(5) = 2
        BY DEF GivenBefore
    <2> QED
        BY <2>1, <2>2
<1>5. /\ stage' = [stage EXCEPT ![d] = "idle"] /\ stage \in [Callers -> Stages]
      /\ outcome' = [outcome EXCEPT ![d] = "told"]
      /\ outcome \in [Callers -> {"open", "ended", "told"}]
      /\ inside' = inside \ {d} /\ exhibits' = exhibits \ {d} /\ UNCHANGED <<part, waiting, scores>>
    BY <1>1 DEF Told, Called, NarratorInv, LockInv, LockTypeOK, TaskInv, FacadeTypeOK
<1>6. UNCHANGED rows \/ rows' = Append(rows, [debate |-> d, score |-> Verdict(d)])
    BY DEF Told
<1>7. NarratorTypeOK /\ RowsInv
    BY DEF NarratorInv, DebateInv
<1>8. Verdict(d) \in Points
    BY <1>4, <1>7, VerdictGiven DEF NarratorTypeOK
<1>9. NarratorTypeOK'
    <2>1. [debate |-> d, score |-> Verdict(d)] \in Row
        BY <1>8 DEF Row
    <2>2. rows' \in Seq(Row)
        <3>1. \A r \in Seq(Row), x \in Row : Append(r, x) \in Seq(Row)
            OBVIOUS
        <3> QED
            BY <1>6, <1>7, <2>1, <3>1 DEF NarratorTypeOK
    <2> QED
        BY <1>5, <1>7, <2>2 DEF NarratorTypeOK
<1>10. ASSUME NEW e \in Debates
       PROVE  InTurn(e)' /\ Scored(e)'
    BY <1>1, <1>3, <1>4, <1>5, DebatesAssumption DEF NarratorInv, DebateInv, InTurn, Scored
<1>11. \A i \in DOMAIN rows : rows[i].debate \in Debates /\ rows[i].debate # d
    BY <1>3, <1>7, RowsOf DEF RowsInv
<1>12. \A i \in DOMAIN rows' :
          \/ i \in DOMAIN rows /\ rows'[i] = rows[i]
          \/ i = Len(rows) + 1 /\ rows'[i] = [debate |-> d, score |-> Verdict(d)]
    <2>1. CASE UNCHANGED rows
        BY <2>1
    <2>2. CASE rows' = Append(rows, [debate |-> d, score |-> Verdict(d)])
        <3> DEFINE row == [debate |-> d, score |-> Verdict(d)]
        <3>1. PICK r \in Seq(Row) : r = rows
            BY <1>7 DEF NarratorTypeOK
        <3> HIDE DEF row
        <3>2. \A i \in DOMAIN Append(r, row) :
                 \/ i \in DOMAIN r /\ Append(r, row)[i] = r[i]
                 \/ i = Len(r) + 1 /\ Append(r, row)[i] = row
            OBVIOUS
        <3> QED
            BY <2>2, <3>1, <3>2 DEF row
    <2> QED
        BY <1>6, <2>1, <2>2
<1>13. RowsInv'
    BY <1>1, <1>5, <1>7, <1>11, <1>12, DebatesAssumption DEF RowsInv, Verdict
<1> QED
    BY <1>2, <1>3, <1>5, <1>9, <1>10, <1>13 DEF NarratorInv, DebateInv

(* Debates that end, whatever they had.                                    *)
LEMMA Forgotten ==
    ASSUME NarratorInv, TaskInv', NEW tasks \in SUBSET Callers, Forget(tasks), UNCHANGED rows,
           waiting' \in {waiting, <<>>},
           \A d \in Debates \cap tasks : outcome[d] # "told" /\ outcome'[d] = "ended",
           \A d \in Debates \cap tasks : d \notin Range(waiting'),
           \A d \in Debates \ tasks :
              /\ outcome'[d] = outcome[d] /\ part'[d] = part[d]
              /\ stage'[d] = stage[d] \/ outcome[d] # "open"
    PROVE  DebateInv'
<1>1. /\ inside' = inside \ tasks /\ exhibits' = exhibits \ tasks
      /\ scores' = [d \in Debates |-> IF d \in tasks THEN <<>> ELSE scores[d]]
    BY DEF Forget
<1>2. NarratorTypeOK'
    <2>1. <<>> \in Seq(Points) /\ <<>> \in Seq(Debates)
        OBVIOUS
    <2>2. scores' \in [Debates -> Seq(Points)]
        BY <1>1, <2>1 DEF NarratorInv, DebateInv, NarratorTypeOK
    <2> QED
        BY <1>1, <2>1, <2>2 DEF NarratorInv, DebateInv, NarratorTypeOK
<1>3. IsInjective(waiting')
    BY DEF NarratorInv, DebateInv, IsInjective
<1>4. \A d \in Debates : d \in Range(waiting') => d \in Range(waiting)
    BY DEF Range
<1>5. ASSUME NEW d \in Debates
      PROVE  InTurn(d)' /\ Scored(d)'
    BY <1>1, <1>4 DEF NarratorInv, DebateInv, InTurn, Scored
<1>6. RowsInv'
    BY <1>1, RowsKept DEF NarratorInv
<1> QED
    BY <1>2, <1>3, <1>5, <1>6 DEF DebateInv

LEMMA BudgetStep ==
    ASSUME NarratorInv, NEW c \in Callers, Budget(c)
    PROVE  NarratorInv'
<1>1. Expire(c) /\ Cancel(c) /\ End({c}) /\ outcome[c] = "open"
    BY DEF Budget, Expire
<1>2. LockInv' /\ TaskInv'
    BY <1>1, CancelLock, ExpireTask DEF NarratorInv
<1>3. c \in Debates => c \notin Range(waiting)
    BY DEF Budget, Pivots, NarratorInv, DebateInv, InTurn
<1>4. /\ outcome'[c] = "ended"
      /\ \A d \in Callers \ {c} : /\ outcome'[d] = outcome[d] /\ part'[d] = part[d]
                                 /\ stage'[d] = stage[d]
    BY <1>1 DEF Cancel, End, NarratorInv, LockInv, LockTypeOK
<1>5. DebateInv'
    <2>1. Forget({c}) /\ UNCHANGED <<waiting, rows>>
        BY DEF Budget
    <2>2. \A d \in Debates \cap {c} : outcome[d] # "told" /\ outcome'[d] = "ended"
        BY <1>1, <1>4
    <2>3. \A d \in Debates \cap {c} : d \notin Range(waiting')
        BY <1>3, <2>1
    <2>4. \A d \in Debates \ {c} :
             /\ outcome'[d] = outcome[d] /\ part'[d] = part[d]
             /\ stage'[d] = stage[d] \/ outcome[d] # "open"
        BY <1>4, DebatesAssumption
    <2> QED
        BY <1>2, <2>1, <2>2, <2>3, <2>4, Forgotten
<1> QED
    BY <1>2, <1>5 DEF NarratorInv

LEMMA CrashStep ==
    ASSUME NarratorInv, NEW p \in Processes, Crash(p)
    PROVE  NarratorInv'
<1> DEFINE begun == {c \in Callers : Begun(c) \/ c \in inside \cup Range(waiting)}
           lost == {c \in begun : Home[c] = p /\ outcome[c] = "open"}
           own == {c \in Callers : Home[c] = p /\ (c \in begun \/ stage[c] # "idle")}
<1>1. /\ Die(p, begun) /\ End(lost) /\ Forget(lost) /\ UNCHANGED rows
      /\ waiting' = IF Range(waiting) \cap lost = {} THEN waiting ELSE <<>>
    BY DEF Crash
<1>2. LockInv'
    BY <1>1, DieLock DEF NarratorInv
<1>3. /\ stage' = [c \in Callers |-> IF c \in own THEN "gone" ELSE stage[c]]
      /\ job' = [c \in Callers |-> IF c \in own THEN "none" ELSE job[c]]
    BY <1>1 DEF Die
<1>4. lost \subseteq own /\ own \subseteq Callers /\ \A c \in own : outcome[c] = "open" => c \in lost
    BY DEF Begun
<1>5. \A c \in lost : outcome[c] = "open"
    OBVIOUS
<1> HIDE DEF begun, lost, own
<1>6. TaskInv'
    <2>1. \A c \in Callers \ own : job'[c] = job[c]
        BY <1>3
    <2>2. \A c \in own : outcome[c] = "told" => job'[c] = "none"
        BY <1>3, <1>4
    <2> QED
        BY <1>1, <1>3, <1>4, <2>1, <2>2, EndTask DEF NarratorInv
<1>7. DebateInv'
    <2>1. waiting' \in {waiting, <<>>}
        BY <1>1
    <2>2. \A d \in Debates \cap lost : outcome[d] # "told" /\ outcome'[d] = "ended"
        BY <1>1, <1>4, <1>5 DEF End
    <2>3. \A d \in Debates \cap lost : d \notin Range(waiting')
        BY <1>1 DEF Range
    <2>4. \A d \in Debates \ lost :
             /\ outcome'[d] = outcome[d] /\ part'[d] = part[d]
             /\ stage'[d] = stage[d] \/ outcome[d] # "open"
        <3>1. End(lost) /\ FacadeTypeOK
            BY <1>1 DEF NarratorInv, TaskInv
        <3>2. ASSUME NEW d \in Debates \ lost
              PROVE  outcome'[d] = outcome[d] /\ part'[d] = part[d]
            BY <3>1, DebatesAssumption DEF End
        <3>3. ASSUME NEW d \in Debates \ lost
              PROVE  stage'[d] = stage[d] \/ outcome[d] # "open"
            BY <1>3, <1>4, DebatesAssumption
        <3> QED
            BY <3>2, <3>3
    <2>5. lost \in SUBSET Callers
        BY <1>4
    <2> QED
        BY <1>1, <1>6, <2>1, <2>2, <2>3, <2>4, <2>5, Forgotten
<1> QED
    BY <1>2, <1>6, <1>7 DEF NarratorInv

LEMMA AnsweredStep ==
    ASSUME NarratorInv, NEW c \in Callers, Answered(c)
    PROVE  NarratorInv'
<1>1. Return(c) /\ Unlocked(c) /\ UNCHANGED <<waiting, rows>>
    BY DEF Answered, Return
<1>2. LockInv' /\ TaskInv'
    BY <1>1, UnlockedLock, ReturnTask DEF NarratorInv
<1>3. /\ stage[c] \in {"releasing", "gone"} /\ outcome[c] # "told"
      /\ stage' = IF stage[c] = "gone" THEN stage ELSE [stage EXCEPT ![c] = "idle"]
    BY <1>1, Released DEF NarratorInv
<1>4. stage[c] = "releasing" => outcome[c] = "open" /\ part[c] \in DOMAIN Script[c]
    BY DEF NarratorInv, TaskInv, TaskOK, OnScript
<1>5. c \in Debates => c \notin Range(waiting)
    BY <1>3, <1>4 DEF NarratorInv, DebateInv, InTurn, TaskInv, TaskOK, OnScript
<1>6. \A d \in Callers \ {c} :
         outcome'[d] = outcome[d] /\ part'[d] = part[d] /\ stage'[d] = stage[d]
    BY <1>1, <1>3
    DEF Return, End, NarratorInv, LockInv, LockTypeOK, TaskInv, FacadeTypeOK
<1>7. c \in Debates => outcome'[c] \in {outcome[c], "ended"}
    <2>1. c \in Debates /\ stage[c] = "releasing" => Role(c) # "pivot"
        <3>1. c \in Debates /\ part[c] \in DOMAIN Script[c] =>
                  Role(c) \in {"prosecutor", "defense", "judge", "swapped"}
            BY ScriptAssumption DEF Role
        <3> QED
            BY <1>4, <3>1
    <2> QED
        BY <1>1, <1>3, <2>1 DEF Return, End, NarratorInv, TaskInv, FacadeTypeOK
<1>8. CASE outcome'[c] # "open"
    <2>1. Forget({c})
        BY <1>8 DEF Answered
    <2>2. \A d \in Debates \cap {c} : outcome[d] # "told" /\ outcome'[d] = "ended"
        BY <1>3, <1>7, <1>8 DEF NarratorInv, TaskInv, FacadeTypeOK
    <2>3. \A d \in Debates \cap {c} : d \notin Range(waiting')
        BY <1>1, <1>5
    <2>4. \A d \in Debates \ {c} :
             /\ outcome'[d] = outcome[d] /\ part'[d] = part[d]
             /\ stage'[d] = stage[d] \/ outcome[d] # "open"
        BY <1>6, DebatesAssumption
    <2>5. DebateInv'
        BY <1>1, <1>2, <2>1, <2>2, <2>3, <2>4, Forgotten
    <2> QED
        BY <1>2, <2>5 DEF NarratorInv
<1>9. CASE outcome'[c] = "open"
    <2>1. /\ stage[c] = "releasing" /\ outcome[c] = "open" /\ stage'[c] = "idle"
          /\ part' = [part EXCEPT ![c] = IF Fitting(c) THEN @ + 1 ELSE @]
        <3>1. stage[c] # "gone"
            BY <1>1, <1>9 DEF Return, NarratorInv, TaskInv, TaskOK, OnScript
        <3>2. ~End({c})
            BY <1>9 DEF End
        <3> QED
            BY <1>1, <1>3, <1>4, <3>1, <3>2 DEF Return, NarratorInv, LockInv, LockTypeOK
    <2>2. /\ UNCHANGED <<inside, exhibits>>
          /\ scores' = IF c \in Debates /\ Fitting(c) /\ Role(c) \in {"judge", "swapped"}
                       THEN [scores EXCEPT ![c] = Append(@, ScoreOf(heard[c].fields))]
                       ELSE scores
        BY <1>9 DEF Answered
    <2>3. ScoreOf(heard[c].fields) \in Points
        BY DEF ScoreOf, Points
    <2>4. NarratorTypeOK'
        <3>1. \A s \in Seq(Points), x \in Points : Append(s, x) \in Seq(Points)
            OBVIOUS
        <3> QED
            BY <1>1, <2>2, <2>3, <3>1 DEF NarratorInv, DebateInv, NarratorTypeOK
    <2>5. ASSUME c \in Debates
          PROVE  Len(scores'[c]) = GivenBefore(part'[c])
        <3>1. /\ part[c] \in 1 .. 4 /\ (Role(c) \in {"judge", "swapped"} <=> part[c] \in {3, 4})
            <4>1. Script[c] = <<"prosecutor", "defense", "judge", "swapped">>
                BY <2>5, ScriptAssumption
            <4>2. part[c] \in 1 .. 4
                BY <1>4, <2>1, <4>1
            <4> QED
                BY <4>1, <4>2 DEF Role
        <3>2. scores[c] \in Seq(Points) /\ Len(scores[c]) = GivenBefore(part[c])
            BY <2>1, <2>5 DEF NarratorInv, DebateInv, Scored, NarratorTypeOK
        <3>3. part'[c] = IF Fitting(c) THEN part[c] + 1 ELSE part[c]
            BY <2>1 DEF NarratorInv, TaskInv, FacadeTypeOK
        <3>4. Len(scores'[c]) = IF Fitting(c) /\ part[c] \in {3, 4} THEN Len(scores[c]) + 1
                                ELSE Len(scores[c])
            BY <2>2, <2>3, <2>5, <3>1, <3>2 DEF NarratorInv, DebateInv, NarratorTypeOK
        <3> QED
            BY <3>1, <3>2, <3>3, <3>4 DEF GivenBefore
    <2>6. \A d \in Debates \ {c} : scores'[d] = scores[d]
        BY <2>2 DEF NarratorInv, DebateInv, NarratorTypeOK
    <2>7. ASSUME NEW d \in Debates
          PROVE  InTurn(d)' /\ Scored(d)'
        <3>1. CASE d = c
            BY <1>1, <1>9, <2>1, <2>2, <2>5, <3>1 DEF NarratorInv, DebateInv, InTurn, Scored
        <3>2. CASE d # c
            BY <1>1, <1>6, <2>2, <2>6, <3>2, DebatesAssumption
            DEF NarratorInv, DebateInv, InTurn, Scored
        <3> QED
            BY <3>1, <3>2
    <2>8. RowsInv'
        BY <1>1, <1>6, <2>1, <2>6, RowsKept, DebatesAssumption DEF NarratorInv
    <2>9. IsInjective(waiting')
        BY <1>1 DEF NarratorInv, DebateInv
    <2> QED
        BY <1>2, <2>4, <2>7, <2>8, <2>9 DEF NarratorInv, DebateInv
<1> QED
    BY <1>8, <1>9

LEMMA NarratorStarts ==
    ASSUME Init
    PROVE  NarratorInv
<1>1. /\ stage = [c \in Callers |-> "idle"] /\ job = [c \in Callers |-> "none"]
      /\ queue = [p \in Processes |-> <<>>] /\ busy = {} /\ lock = Nobody
      /\ part = [c \in Callers |-> 1] /\ attempt = [c \in Callers |-> 0]
      /\ heard = [c \in Callers |-> None] /\ outcome = [c \in Callers |-> "open"]
      /\ waiting = <<>> /\ inside = {} /\ exhibits = {} /\ rows = <<>>
      /\ scores = [d \in Debates |-> <<>>]
    BY DEF Init, FacadeInit, LockInit
<1>2. LockInv
    BY <1>1, NobodyAssumption
    DEF LockInv, LockTypeOK, Stages, Jobs, LockOK, JobOfStage, ByHolder, JobInPool, ComesBack
<1>3. TaskInv
    BY <1>1, Scripts DEF TaskInv, FacadeTypeOK, Replies, TaskOK, OnScript, HeardInTurn
<1>4. NarratorTypeOK
    BY <1>1 DEF NarratorTypeOK
<1>5. ASSUME NEW d \in Debates
      PROVE  InTurn(d) /\ Scored(d)
    BY <1>1, DebatesAssumption DEF InTurn, Scored, GivenBefore, Range
<1>6. IsInjective(waiting) /\ RowsInv
    BY <1>1 DEF IsInjective, RowsInv
<1> QED
    BY <1>2, <1>3, <1>4, <1>5, <1>6 DEF NarratorInv, DebateInv

LEMMA NarratorSteps ==
    ASSUME NarratorInv, [Next]_vars
    PROVE  NarratorInv'
<1>1. CASE UNCHANGED vars
    <2>1. /\ UNCHANGED facadeVars
          /\ UNCHANGED <<waiting, inside, exhibits, scores, rows>>
        BY <1>1 DEF vars
    <2>2. UNCHANGED <<stage, part, outcome>>
        BY <2>1 DEF facadeVars, lockVars
    <2>3. DebateInv'
        BY <2>1, <2>2 DEF NarratorInv, DebateInv, NarratorTypeOK, InTurn, Scored, RowsInv, Verdict
    <2> QED
        BY <2>1, <2>3, Same DEF NarratorInv
<1>2. CASE Next
    <2>1. \A d \in Debates : Receive(d) => NarratorInv'
        BY ReceiveStep
    <2>2. \A d \in Debates : Collect(d) => NarratorInv'
        BY CollectStep
    <2>3. \A d \in Debates : Argue(d) => NarratorInv'
        BY ArgueStep
    <2>4. \A d \in Debates : Tell(d) => NarratorInv'
        BY TellStep
    <2>5. \A d \in Debates : Told(d) => NarratorInv'
        BY ToldStep
    <2>6. \A q \in Pivots : Pivot(q) => NarratorInv'
        BY PivotStep
    <2>7. \A c \in Callers : Hear(c) => NarratorInv'
        BY HearStep
    <2>8. \A c \in Callers : Answered(c) => NarratorInv'
        BY AnsweredStep
    <2>9. \A c \in Callers : Budget(c) => NarratorInv'
        BY BudgetStep
    <2>10. \A p \in Processes : Crash(p) => NarratorInv'
        BY CrashStep
    <2> QED
        BY <1>2, <2>1, <2>2, <2>3, <2>4, <2>5, <2>6, <2>7, <2>8, <2>9, <2>10, BeginStep, ThreadStep
        DEF Next
<1> QED
    BY <1>1, <1>2

(* The types of all variables, what each task may be doing while its job   *)
(* is in the pool, and where each debate is: facade.py:184-204, 304-313 and *)
(* service.py:126-154, 207-238.                                             *)
THEOREM NarratorSafe == Spec => []NarratorInv
<1>1. Init => NarratorInv
    BY NarratorStarts
<1>2. NarratorInv /\ [Next]_vars => NarratorInv'
    BY NarratorSteps
<1> QED
    BY <1>1, <1>2, PTL DEF Spec

(* The greatest element of a set of scores.                                *)
LEMMA MaxIs ==
    ASSUME NEW S \in SUBSET Int, NEW m \in S, \A s \in S : s <= m
    PROVE  Max(S) = m
<1>1. \A y \in S : m >= y
    OBVIOUS
<1>2. \A x \in S : (\A y \in S : x >= y) => x = m
    OBVIOUS
<1> QED
    BY <1>1, <1>2 DEF Max

(* HigherOfBoth: however often the judge is asked again, budgets end and   *)
(* processes die, the ledger gets one verdict of a debate at most, and that *)
(* with the higher of its two scores (graph.py:119-149).                    *)
THEOREM HigherScoreWins == Spec => []HigherOfBoth
<1>1. NarratorInv => HigherOfBoth
    <2> SUFFICES ASSUME NarratorInv
                 PROVE  HigherOfBoth
        OBVIOUS
    <2>1. RowsInv /\ NarratorTypeOK /\ \A d \in Debates : Scored(d)
        BY DEF NarratorInv, DebateInv
    <2>2. IsInjective([i \in DOMAIN rows |-> rows[i].debate])
        BY <2>1 DEF RowsInv, IsInjective
    <2>3. ASSUME NEW i \in DOMAIN rows
          PROVE  LET given == scores[rows[i].debate]
                 IN  /\ outcome[rows[i].debate] = "told"
                     /\ Len(given) = 2 /\ rows[i].score = Max(Range(given))
        <3>1. PICK d \in Debates : d = rows[i].debate
            BY <2>1, RowsOf
        <3>2. outcome[d] = "told" /\ rows[i].score = Verdict(d) /\ Len(scores[d]) = 2
            BY <2>1, <3>1 DEF RowsInv, Scored
        <3>3. /\ Verdict(d) \in Range(scores[d])
              /\ \A s \in Range(scores[d]) : s <= Verdict(d)
            BY <2>1, <3>2, VerdictGiven DEF NarratorTypeOK
        <3>4. Range(scores[d]) \in SUBSET Int
            <4>1. scores[d] \in Seq(Points)
                BY <2>1 DEF NarratorTypeOK
            <4>2. \A n \in DOMAIN scores[d] : scores[d][n] \in Points
                BY <4>1
            <4> QED
                BY <4>2 DEF Range, Points
        <3>5. Max(Range(scores[d])) = Verdict(d)
            BY <3>3, <3>4, MaxIs
        <3> QED
            BY <3>1, <3>2, <3>5
    <2> QED
        BY <2>2, <2>3 DEF HigherOfBoth
<1> QED
    BY <1>1, NarratorSafe, PTL

NoneBegins ==
    /\ lock' \in {lock, Nobody}
    /\ \A c \in Callers : stage'[c] = "posting" => stage[c] = "posting"

LockTaken == lock = Nobody /\ lock' \in Callers

LEMMA LockMoves ==
    ASSUME NarratorInv, [Next]_vars
    PROVE  NoneBegins \/ LockTaken
<1>1. stage \in [Callers -> Stages]
    BY DEF NarratorInv, LockInv, LockTypeOK
<1>2. CASE UNCHANGED <<stage, lock>>
    BY <1>2 DEF NoneBegins
<1>3. ASSUME NEW c \in Callers,
             Chat(c) \/ Posted(c) \/ Unlocked(c) \/ Call(c) \/ Called(c) \/ Cancel(c)
      PROVE  NoneBegins
    BY <1>1, <1>3 DEF NoneBegins, Chat, Posted, Unlocked, Call, Called, Cancel
<1>4. CASE LockStep
    BY <1>1, <1>4 DEF LockStep, TakeJob, Locked, Dropped, NoneBegins, LockTaken
<1>5. ASSUME NEW p \in Processes, NEW tasks, Die(p, tasks)
      PROVE  NoneBegins
    BY <1>1, <1>5 DEF Die, NoneBegins
<1>6. CASE UNCHANGED vars
    BY <1>2, <1>6 DEF vars, facadeVars, lockVars
<1>7. CASE Begin
    <2>1. Head(waiting) \in Callers
        BY <1>7, DebatesAssumption
        DEF Begin, NarratorInv, DebateInv, NarratorTypeOK
    <2> QED
        BY <1>3, <1>7, <2>1 DEF Begin
<1>8. ASSUME NEW d \in Debates, Receive(d)
      PROVE  NoneBegins
    <2>1. UNCHANGED facadeVars
        BY <1>8 DEF Receive
    <2>2. stage' = stage /\ lock' = lock
        BY <2>1 DEF facadeVars, lockVars
    <2> QED
        BY <2>2 DEF NoneBegins
<1>9. ASSUME NEW d \in Debates, Collect(d) \/ Argue(d) \/ Tell(d) \/ Told(d)
      PROVE  NoneBegins
    BY <1>3, <1>9, DebatesAssumption DEF Collect, Argue, Request, Tell, Told
<1>10. ASSUME NEW q \in Pivots, Pivot(q)
       PROVE  NoneBegins
    BY <1>3, <1>10 DEF Pivot, Pivots, Request
<1>11. ASSUME NEW c \in Callers, Hear(c) \/ Answered(c) \/ Budget(c)
       PROVE  NoneBegins
    BY <1>3, <1>11 DEF Hear, Respond, Answered, Return, Budget, Expire
<1>12. ASSUME NEW p \in Processes, Crash(p)
       PROVE  NoneBegins
    BY <1>5, <1>12 DEF Crash
<1> QED
    BY <1>4, <1>6, <1>7, <1>8, <1>9, <1>10, <1>11, <1>12 DEF Next, Thread

(* Refines: one request at a time at the model server, whatever the number *)
(* of processes and of threads in their pools (facade.py:184-204, 304-313). *)
THEOREM OneRequestAtATime == Spec => Refines
<1>1. Init => Server!Init
    BY DEF Init, FacadeInit, LockInit, Server!Init, Serving
<1>2. NarratorInv /\ [Next]_vars => [Server!Next]_Serving
    <2> SUFFICES ASSUME NarratorInv, [Next]_vars, Serving' # Serving
                 PROVE  Server!Next
        OBVIOUS
    <2>1. lock \in Callers \cup {Nobody} /\ lock' \in Callers \cup {Nobody}
        BY NarratorSteps DEF NarratorInv, LockInv, LockTypeOK
    <2>2. CASE NoneBegins
        BY <2>1, <2>2, NobodyAssumption DEF NoneBegins, Serving, Server!Next, Server!Begin, Server!End
    <2>3. CASE LockTaken
        BY <2>1, <2>3, NobodyAssumption DEF LockTaken, Serving, Server!Next, Server!Begin, Server!End
    <2> QED
        BY <2>2, <2>3, LockMoves
<1> QED
    BY <1>1, <1>2, NarratorSafe, PTL DEF Spec, Refines, Server!Spec

(* No request is made without the lock, so that of two tasks one only is   *)
(* at the server, and a lock that is held is used, or on its way back, in a *)
(* job that the pool has: cancelled or dead, no task loses it              *)
(* (facade.py:184-204, 304-313).                                            *)
LockIsKept ==
    \A c \in Callers :
        /\ stage[c] = "posting" => lock = c
        /\ lock = c =>
              \/ stage[c] = "posting"
              \/ job[c] = "release" /\ (c \in busy \/ c \in Range(queue[Home[c]]))
              \/ stage[c] = "gone" /\ job[c] = "none"

THEOREM LockIsNeverLost == Spec => []LockIsKept
<1>1. NarratorInv => LockIsKept
    BY DEF NarratorInv, LockInv, LockOK, ByHolder, JobInPool, ComesBack, LockIsKept
<1> QED
    BY <1>1, NarratorSafe, PTL
=============================================================================
