---------------------------- MODULE LedgerProofs ----------------------------
(***************************************************************************)
(* Theorems about the ledger and the jobs around it: Ledger for every set  *)
(* of threads, every assignment of writer instances to them and every      *)
(* bound, and the dashboard that follows it; the rotation of its key, its  *)
(* anchor, and its verification after an accident.                         *)
(***************************************************************************)
EXTENDS LedgerTail, KeyRotation, Anchor, LedgerDamage,
        FiniteSetTheorems, WellFoundedInduction, TLAPS

(* The lock of an instance belongs to the thread inside its append().      *)
LockHeld ==
    \A t \in Threads :
        pc[t] \in {"tip", "insert"} => lock[InstanceOf[t]] = t

(* The tip a thread is about to link to is a row of the table, and no row  *)
(* of the thread's own instance has come after it.                         *)
SeenFresh ==
    \A t \in Threads : pc[t] = "insert" =>
        /\ seen[t] <= Len(rows)
        /\ \A k \in 1 .. Len(rows) :
               rows[k].inst = InstanceOf[t] => k <= seen[t]

ChainInv == LockHeld /\ SeenFresh /\ ChainOrder

(* A typed state stays typed: what every step assigns to the table, the    *)
(* locks and the jobs has the declared shape.                              *)
LEMMA TypeStep == TypeOK /\ [Next]_vars => TypeOK'
<1> SUFFICES ASSUME TypeOK, [Next]_vars PROVE TypeOK'
  OBVIOUS
<1> USE LedgerAssumption DEF TypeOK
<1>n. Len(rows) \in Nat
  OBVIOUS
<1>s. ASSUME NEW k \in Kinds \ {"report"}, NEW C \in SUBSET Nat
      PROVE SingleEntry(k, C) \in Job
  BY DEF SingleEntry, Job
<1>j. NoJob \in Job
  BY <1>s DEF NoJob, Kinds
<1>1. ASSUME NEW t \in Threads, NEW j \in Job, Start(t, j) PROVE TypeOK'
  BY <1>1 DEF Start
<1>2. ASSUME NEW t \in Threads, StartRecord(t) PROVE TypeOK'
  <2>1. PICK parent \in SUBSET (1 .. Len(rows)) :
            Start(t, SingleEntry("record", parent))
    BY <1>2 DEF StartRecord
  <2>2. parent \in SUBSET Nat
    BY <1>n
  <2>3. SingleEntry("record", parent) \in Job
    BY <1>s, <2>2 DEF Kinds
  <2> QED BY <1>1, <2>1, <2>3
<1>3. ASSUME NEW t \in Threads, StartGenesis(t) PROVE TypeOK'
  <2>1. SingleEntry("genesis", {}) \in Job
    BY <1>s DEF Kinds
  <2> QED BY <1>1, <1>3, <2>1 DEF StartGenesis
<1>4. ASSUME NEW t \in Threads, NEW n \in 0 .. MaxReports + 1, StartFrame(t, n)
      PROVE TypeOK'
  <2> DEFINE kept == IF n <= MaxReports THEN n ELSE MaxReports
             j == [kind |-> "consensus", fused |-> kept, left |-> kept,
                   custody |-> {}]
  <2>1. j \in Job
    BY DEF Job, Kinds
  <2> QED BY <1>1, <1>4, <2>1 DEF StartFrame
<1>5. ASSUME NEW t \in Threads, Acquire(t) PROVE TypeOK'
  BY <1>5 DEF Acquire
<1>6. ASSUME NEW t \in Threads, ReadTip(t) PROVE TypeOK'
  BY <1>6, <1>n DEF ReadTip
<1>7. ASSUME NEW t \in Threads, Insert(t) PROVE TypeOK'
  <2>0. job[t] \in Job /\ seen[t] \in Nat /\ InstanceOf[t] \in Instances
    OBVIOUS
  <2>1. NextEntry(t) \in Row
    <3>1. CASE job[t].left = 0
      BY <2>0, <3>1 DEF NextEntry, Row, Job, Kinds, Null
    <3>2. CASE job[t].left # 0
      BY <2>0, <3>2 DEF NextEntry, Row, Job, Kinds
    <3> QED BY <3>1, <3>2
  <2>2. rows' \in Seq(Row)
    BY <1>7, <2>1 DEF Insert
  <2>3. pc' \in [Threads -> {"idle", "enter", "tip", "insert"}]
    BY <1>7 DEF Insert
  <2>4. job' \in [Threads -> Job]
    <3>1. CASE job[t].left = 0
      BY <1>7, <3>1, <1>j DEF Insert
    <3>2. CASE job[t].left # 0
      <4>1. Written(job[t], Len(rows) + 1) \in Job
        BY <1>n, <2>0, <3>2 DEF Job, Written
      <4>2. job' = [job EXCEPT ![t] = Written(@, Len(rows) + 1)]
        BY <1>7, <3>2 DEF Insert
      <4> QED BY <4>1, <4>2
    <3> QED BY <3>1, <3>2
  <2>5. lock' \in [Instances -> Threads \cup {NoThread}]
        /\ seen' \in [Threads -> Nat]
    BY <1>7 DEF Insert, Release, Forget, Null
  <2> QED BY <2>2, <2>3, <2>4, <2>5
<1>8. ASSUME NEW t \in Threads, Fail(t) PROVE TypeOK'
  BY <1>8, <1>j DEF Fail, Release, Forget, Null
<1>9. ASSUME NEW i \in Instances, Crash(i) PROVE TypeOK'
  BY <1>9, <1>j DEF Crash, Null
<1>10. CASE UNCHANGED vars
  BY <1>10 DEF vars
<1> QED BY <1>2, <1>3, <1>4, <1>5, <1>6, <1>7, <1>8, <1>9, <1>10
        DEF Next, Step

(* Every reachable state is typed: in particular no job holds more than    *)
(* MaxReports reports.                                                     *)
THEOREM TypeCorrect == Spec => []TypeOK
<1>1. Init => TypeOK
  BY LedgerAssumption DEF Init, TypeOK, Job, Kinds, NoJob, SingleEntry, Null
<1> QED BY <1>1, TypeStep, PTL DEF Spec

-----------------------------------------------------------------------------

(* The invariant that carries the chain: a thread that read the tip under  *)
(* its lock cannot be overtaken by its own instance.                       *)
LEMMA ChainStep == TypeOK /\ ChainInv /\ [Next]_vars => ChainInv'
<1> SUFFICES ASSUME TypeOK, ChainInv, [Next]_vars PROVE ChainInv'
  OBVIOUS
<1> USE LedgerAssumption DEF TypeOK
<1>n. Len(rows) \in Nat
  OBVIOUS
<1>1. ASSUME NEW t \in Threads, NEW j, Start(t, j) PROVE ChainInv'
  BY <1>1 DEF Start, ChainInv, LockHeld, SeenFresh, ChainOrder
<1>2. ASSUME NEW t \in Threads, Acquire(t) PROVE ChainInv'
  <2>1. LockHeld'
    BY <1>2 DEF Acquire, ChainInv, LockHeld
  <2> QED BY <1>2, <2>1 DEF Acquire, ChainInv, SeenFresh, ChainOrder
<1>3. ASSUME NEW t \in Threads, ReadTip(t) PROVE ChainInv'
  <2>1. LockHeld'
    BY <1>3 DEF ReadTip, ChainInv, LockHeld
  <2>2. SeenFresh'
    BY <1>3, <1>n DEF ReadTip, ChainInv, SeenFresh
  <2> QED BY <1>3, <2>1, <2>2 DEF ReadTip, ChainInv, ChainOrder
<1>4. ASSUME NEW t \in Threads, Insert(t) PROVE ChainInv'
  <2> DEFINE e == NextEntry(t)
  <2>1. /\ rows' = Append(rows, e)
        /\ Len(rows') = Len(rows) + 1
        /\ rows'[Len(rows) + 1] = e
        /\ \A k \in 1 .. Len(rows) : rows'[k] = rows[k]
    BY <1>4 DEF Insert
  <2>2. e.prev = seen[t] /\ e.inst = InstanceOf[t]
    BY DEF NextEntry
  <2>3. pc[t] = "insert" /\ lock[InstanceOf[t]] = t
    BY <1>4 DEF Insert, ChainInv, LockHeld
  <2>4. \A u \in Threads \ {t} :
            pc[u] \in {"tip", "insert"} => InstanceOf[u] # InstanceOf[t]
    BY <2>3 DEF ChainInv, LockHeld
  <2>5. \A u \in Threads \ {t} : pc'[u] = pc[u] /\ seen'[u] = seen[u]
    BY <1>4 DEF Insert, Release, Forget
  <2>6. pc'[t] \in {"idle", "enter"}
    BY <1>4 DEF Insert
  <2>7. LockHeld'
    BY <1>4, <2>4, <2>5, <2>6 DEF Insert, Release, ChainInv, LockHeld
  <2>8. SeenFresh'
    <3> SUFFICES ASSUME NEW u \in Threads, pc'[u] = "insert"
                 PROVE  /\ seen'[u] <= Len(rows')
                        /\ \A k \in 1 .. Len(rows') :
                               rows'[k].inst = InstanceOf[u] => k <= seen'[u]
      BY DEF SeenFresh
    <3>1. u # t /\ pc[u] = "insert" /\ seen'[u] = seen[u]
      BY <2>5, <2>6
    <3>2. InstanceOf[u] # e.inst
      BY <2>2, <2>4, <3>1
    <3>3. seen[u] <= Len(rows)
          /\ \A k \in 1 .. Len(rows) :
                 rows[k].inst = InstanceOf[u] => k <= seen[u]
      BY <3>1 DEF ChainInv, SeenFresh
    <3> HIDE DEF e
    <3> QED BY <1>n, <2>1, <3>1, <3>2, <3>3
  <2>9. ChainOrder'
    <3>1. seen[t] <= Len(rows)
          /\ \A k \in 1 .. Len(rows) :
                 rows[k].inst = InstanceOf[t] => k <= seen[t]
      BY <2>3 DEF ChainInv, SeenFresh
    <3>2. seen[t] \in Nat
      OBVIOUS
    <3> HIDE DEF e
    <3> SUFFICES ASSUME NEW i \in 1 .. Len(rows')
                 PROVE  /\ rows'[i].prev < i
                        /\ \A k \in 1 .. i - 1 : rows'[k].inst = rows'[i].inst
                                                  => k <= rows'[i].prev
      BY DEF ChainOrder
    <3>3. CASE i = Len(rows) + 1
      <4>1. rows'[i].prev = seen[t] /\ rows'[i].inst = InstanceOf[t]
        BY <2>1, <2>2, <3>3
      <4>2. \A k \in 1 .. i - 1 : rows'[k] = rows[k]
        BY <1>n, <2>1, <3>3
      <4>3. \A k \in 1 .. i - 1 : rows[k].inst = InstanceOf[t] => k <= seen[t]
        BY <1>n, <3>1, <3>3
      <4>4. seen[t] < i
        BY <1>n, <3>1, <3>2, <3>3
      <4> QED BY <4>1, <4>2, <4>3, <4>4
    <3>4. CASE i \in 1 .. Len(rows)
      BY <1>n, <2>1, <3>4 DEF ChainInv, ChainOrder
    <3>5. i = Len(rows) + 1 \/ i \in 1 .. Len(rows)
      BY <1>n, <2>1
    <3> QED BY <3>3, <3>4, <3>5, Zenon
  <2> QED BY <2>7, <2>8, <2>9 DEF ChainInv
<1>5. ASSUME NEW t \in Threads, Fail(t) PROVE ChainInv'
  <2>1. lock[InstanceOf[t]] = t
    BY <1>5 DEF Fail, ChainInv, LockHeld
  <2>2. LockHeld'
    BY <1>5, <2>1 DEF Fail, Release, ChainInv, LockHeld
  <2>3. SeenFresh'
    BY <1>5 DEF Fail, Release, Forget, ChainInv, SeenFresh
  <2> QED BY <1>5, <2>2, <2>3 DEF Fail, ChainInv, ChainOrder
<1>6. ASSUME NEW i \in Instances, Crash(i) PROVE ChainInv'
  <2>1. LockHeld'
    BY <1>6 DEF Crash, ChainInv, LockHeld
  <2>2. SeenFresh'
    BY <1>6 DEF Crash, ChainInv, SeenFresh
  <2> QED BY <1>6, <2>1, <2>2 DEF Crash, ChainInv, ChainOrder
<1>7. CASE UNCHANGED vars
  BY <1>7 DEF vars, ChainInv, LockHeld, SeenFresh, ChainOrder
<1> QED BY <1>1, <1>2, <1>3, <1>4, <1>5, <1>6, <1>7
        DEF Next, Step, StartRecord, StartGenesis, StartFrame

(* However many writer instances there are, a row never precedes a row of  *)
(* its own instance in the hash order: the lock rules out a fork within    *)
(* one instance, and nothing rules it out between two.                     *)
THEOREM OrderedPerInstance == Spec => []ChainOrder
<1>1. Init => ChainInv
  BY DEF Init, ChainInv, LockHeld, SeenFresh, ChainOrder
<1>2. ChainInv => ChainOrder
  BY DEF ChainInv
<1> QED BY <1>1, <1>2, TypeCorrect, ChainStep, PTL DEF Spec

SingleInstance == \A i, j \in Instances : i = j

LEMMA LinkedFromOrder ==
    SingleInstance /\ TypeOK /\ ChainOrder => ChainLinked
<1> SUFFICES ASSUME SingleInstance, TypeOK, ChainOrder,
                    NEW i \in 1 .. Len(rows)
             PROVE  rows[i].prev = i - 1
  BY DEF ChainLinked
<1>1. \A k \in 1 .. Len(rows) : rows[k] \in Row
  BY DEF TypeOK
<1>2. rows[i].prev \in Nat /\ rows[i].prev < i
  BY <1>1 DEF ChainOrder, Row
<1>3. CASE i = 1
  BY <1>2, <1>3
<1>4. CASE i # 1
  <2>1. i - 1 \in 1 .. i - 1 /\ i - 1 \in 1 .. Len(rows)
    BY <1>4
  <2>2. rows[i - 1].inst = rows[i].inst
    BY <1>1, <2>1 DEF SingleInstance, Row
  <2>3. i - 1 <= rows[i].prev
    BY <2>1, <2>2 DEF ChainOrder
  <2> QED BY <1>2, <2>3
<1> QED BY <1>3, <1>4

(* With one LedgerWriter for all threads (the pattern its docstring names) *)
(* each row links to the row before it, whatever fails or crashes.         *)
THEOREM SingleWriterChain == SingleInstance => (Spec => []ChainLinked)
<1> SUFFICES ASSUME SingleInstance PROVE Spec => []ChainLinked
  OBVIOUS
<1>1. TypeOK /\ ChainOrder => ChainLinked
  BY LinkedFromOrder
<1> QED BY <1>1, TypeCorrect, OrderedPerInstance, PTL

-----------------------------------------------------------------------------

(* The ids a job will cite: rows already committed, of the right kind, and *)
(* for a frame one for each report appended so far.                        *)
JobSound ==
    \A t \in Threads :
        /\ job[t].custody \subseteq 1 .. Len(rows)
        /\ job[t].kind = "consensus" =>
              /\ IsFiniteSet(job[t].custody)
              /\ Cardinality(job[t].custody) + job[t].left = job[t].fused
              /\ \A c \in job[t].custody : /\ rows[c].kind = "report"
                                           /\ rows[c].inst = InstanceOf[t]
        /\ job[t].kind # "consensus" =>
              /\ job[t].left = 0
              /\ \A c \in job[t].custody : rows[c].kind = "consensus"

(* What a row cites is older than the row.                                 *)
CustodyOlder ==
    \A i \in 1 .. Len(rows) : rows[i].custody \subseteq Null .. i - 1

CustodyInv == JobSound /\ ConsensusComplete /\ CustodyOlder

(* The steps that append nothing keep CustodyInv if they keep the jobs or  *)
(* replace one by a job that cites nothing or one consensus row.           *)
LEMMA CustodyJobStep ==
    ASSUME TypeOK, CustodyInv, UNCHANGED rows,
           \A t \in Threads :
               \/ job'[t] = job[t]
               \/ /\ job'[t].custody \subseteq 1 .. Len(rows)
                  /\ job'[t].kind = "consensus" =>
                        job'[t].custody = {} /\ job'[t].left = job'[t].fused
                  /\ job'[t].kind # "consensus" =>
                        /\ job'[t].left = 0
                        /\ \A c \in job'[t].custody : rows[c].kind = "consensus",
           job' \in [Threads -> Job]
    PROVE  CustodyInv'
<1>1. JobSound'
  <2> SUFFICES ASSUME NEW t \in Threads
               PROVE
        (/\ job[t].custody \subseteq 1 .. Len(rows)
         /\ job[t].kind = "consensus" =>
              /\ IsFiniteSet(job[t].custody)
              /\ Cardinality(job[t].custody) + job[t].left = job[t].fused
              /\ \A c \in job[t].custody : /\ rows[c].kind = "report"
                                           /\ rows[c].inst = InstanceOf[t]
         /\ job[t].kind # "consensus" =>
              /\ job[t].left = 0
              /\ \A c \in job[t].custody : rows[c].kind = "consensus")'
    BY DEF JobSound
  <2>1. CASE job'[t] = job[t]
    BY <2>1 DEF CustodyInv, JobSound
  <2>2. CASE job'[t] # job[t]
    <3>1. job'[t].left \in Nat
      BY LedgerAssumption DEF Job
    <3>2. IsFiniteSet({}) /\ Cardinality({}) = 0
      BY FS_EmptySet
    <3>3. /\ job'[t].custody \subseteq 1 .. Len(rows')
          /\ job'[t].kind # "consensus" =>
                /\ job'[t].left = 0
                /\ \A c \in job'[t].custody : rows'[c].kind = "consensus"
      BY <2>2
    <3>4. ASSUME job'[t].kind = "consensus"
          PROVE  job'[t].custody = {} /\ job'[t].left = job'[t].fused
      BY <2>2, <3>4
    <3>5. ASSUME job'[t].kind = "consensus"
          PROVE  /\ IsFiniteSet(job'[t].custody)
                 /\ Cardinality(job'[t].custody) + job'[t].left = job'[t].fused
      <4>1. IsFiniteSet(job'[t].custody) /\ Cardinality(job'[t].custody) = 0
        BY <3>2, <3>4, <3>5, Zenon
      <4> QED BY <3>1, <3>4, <3>5, <4>1
    <3> QED BY <3>3, <3>4, <3>5, Zenon
  <2> QED BY <2>1, <2>2
<1> QED BY <1>1 DEF CustodyInv, ConsensusComplete, CustodyOlder

LEMMA CustodyStep == TypeOK /\ CustodyInv /\ [Next]_vars => CustodyInv'
<1> SUFFICES ASSUME TypeOK, CustodyInv, [Next]_vars PROVE CustodyInv'
  OBVIOUS
<1>t. TypeOK'
  BY TypeStep
<1>n. Len(rows) \in Nat
  BY DEF TypeOK
<1>j. job \in [Threads -> Job] /\ job' \in [Threads -> Job]
  BY <1>t DEF TypeOK
<1>1. ASSUME NEW t \in Threads, StartRecord(t) PROVE CustodyInv'
  <2>1. PICK parent \in SUBSET {i \in 1 .. Len(rows) : rows[i].kind = "consensus"} :
            Start(t, SingleEntry("record", parent))
    BY <1>1 DEF StartRecord
  <2>2. rows' = rows /\ job'[t] = SingleEntry("record", parent)
        /\ \A u \in Threads \ {t} : job'[u] = job[u]
    BY <1>j, <2>1 DEF Start
  <2>3. /\ job'[t].custody = parent
        /\ job'[t].kind = "record"
        /\ job'[t].left = 0
    BY <2>2 DEF SingleEntry
  <2>4. /\ parent \subseteq 1 .. Len(rows)
        /\ \A c \in parent : rows[c].kind = "consensus"
    OBVIOUS
  <2> QED BY <1>j, <2>2, <2>3, <2>4, CustodyJobStep
<1>2. ASSUME NEW t \in Threads, StartGenesis(t) PROVE CustodyInv'
  <2>1. rows' = rows /\ job'[t] = SingleEntry("genesis", {})
        /\ \A u \in Threads \ {t} : job'[u] = job[u]
    BY <1>j, <1>2 DEF StartGenesis, Start
  <2> QED BY <1>j, <2>1, CustodyJobStep DEF SingleEntry
<1>3. ASSUME NEW t \in Threads, NEW n \in 0 .. MaxReports + 1, StartFrame(t, n)
      PROVE CustodyInv'
  <2>1. /\ rows' = rows
        /\ job'[t].kind = "consensus"
        /\ job'[t].custody = {}
        /\ job'[t].left = job'[t].fused
        /\ \A u \in Threads \ {t} : job'[u] = job[u]
    BY <1>j, <1>3 DEF StartFrame, Start
  <2> QED BY <1>j, <2>1, CustodyJobStep
<1>4. ASSUME NEW t \in Threads, Acquire(t) \/ ReadTip(t) PROVE CustodyInv'
  BY <1>j, <1>4, CustodyJobStep DEF Acquire, ReadTip
<1>5. ASSUME NEW t \in Threads, Fail(t) PROVE CustodyInv'
  <2>1. rows' = rows /\ job'[t] = NoJob
        /\ \A u \in Threads \ {t} : job'[u] = job[u]
    BY <1>j, <1>5 DEF Fail
  <2> QED BY <1>j, <2>1, CustodyJobStep DEF NoJob, SingleEntry
<1>6. ASSUME NEW i \in Instances, Crash(i) PROVE CustodyInv'
  <2>1. rows' = rows /\ \A u \in Threads : job'[u] \in {NoJob, job[u]}
    BY <1>j, <1>6 DEF Crash
  <2> QED BY <1>j, <2>1, CustodyJobStep DEF NoJob, SingleEntry
<1>7. ASSUME NEW t \in Threads, Insert(t) PROVE CustodyInv'
  <2> DEFINE e == NextEntry(t)
             n == Len(rows) + 1
  <2>1. /\ rows' = Append(rows, e)
        /\ Len(rows') = n
        /\ rows'[n] = e
        /\ \A k \in 1 .. Len(rows) : rows'[k] = rows[k]
    BY <1>7 DEF Insert, TypeOK
  <2>2. job[t] \in Job /\ job[t].left \in 0 .. MaxReports
        /\ job[t].fused \in 0 .. MaxReports
    BY <1>j DEF Job
  <2>3. \A u \in Threads \ {t} : job'[u] = job[u]
    BY <1>j, <1>7 DEF Insert
  <2>4. /\ job[t].custody \subseteq 1 .. Len(rows)
        /\ job[t].kind = "consensus" =>
              /\ IsFiniteSet(job[t].custody)
              /\ Cardinality(job[t].custody) + job[t].left = job[t].fused
              /\ \A c \in job[t].custody : /\ rows[c].kind = "report"
                                           /\ rows[c].inst = InstanceOf[t]
        /\ job[t].kind # "consensus" =>
              /\ job[t].left = 0
              /\ \A c \in job[t].custody : rows[c].kind = "consensus"
    BY DEF CustodyInv, JobSound
  <2>5. e.inst = InstanceOf[t]
        /\ e.kind = (IF job[t].left = 0 THEN job[t].kind ELSE "report")
        /\ e.custody = (IF job[t].left # 0 THEN {}
                        ELSE IF job[t].kind = "consensus" /\ job[t].custody = {}
                             THEN {Null} ELSE job[t].custody)
        /\ e.fused = (IF job[t].left = 0 THEN job[t].fused ELSE 0)
    BY DEF NextEntry
  <2> HIDE DEF e
  <2>6. JobSound'
    <3> SUFFICES ASSUME NEW u \in Threads
                 PROVE
          (/\ job[u].custody \subseteq 1 .. Len(rows)
           /\ job[u].kind = "consensus" =>
                /\ IsFiniteSet(job[u].custody)
                /\ Cardinality(job[u].custody) + job[u].left = job[u].fused
                /\ \A c \in job[u].custody : /\ rows[c].kind = "report"
                                             /\ rows[c].inst = InstanceOf[u]
           /\ job[u].kind # "consensus" =>
                /\ job[u].left = 0
                /\ \A c \in job[u].custody : rows[c].kind = "consensus")'
      BY DEF JobSound
    <3>1. CASE u # t
      BY <1>n, <2>1, <2>3, <3>1 DEF CustodyInv, JobSound
    <3>2. CASE u = t /\ job[t].left = 0
      <4>1. job'[t] = NoJob
        BY <1>j, <1>7, <3>2 DEF Insert
      <4> QED BY <3>2, <4>1 DEF NoJob, SingleEntry
    <3>3. CASE u = t /\ job[t].left # 0
      <4>1. job'[t] = Written(job[t], n)
        BY <1>j, <1>7, <3>3 DEF Insert
      <4>2. job[t].kind = "consensus" /\ e.kind = "report"
        BY <2>4, <2>5, <3>3
      <4>3. n \notin job[t].custody
        BY <1>n, <2>4
      <4>4. /\ IsFiniteSet(job[t].custody \cup {n})
            /\ Cardinality(job[t].custody \cup {n}) = Cardinality(job[t].custody) + 1
        BY <2>4, <4>2, <4>3, FS_AddElement
      <4>5. Cardinality(job[t].custody) \in Nat
        BY <2>4, <4>2, FS_CardinalityType
      <4>6. Cardinality(job[t].custody \cup {n}) + (job[t].left - 1) = job[t].fused
        BY <2>2, <2>4, <4>2, <4>4, <4>5 DEF LedgerAssumption
      <4>7. \A c \in job[t].custody \cup {n} : /\ rows'[c].kind = "report"
                                              /\ rows'[c].inst = InstanceOf[t]
        BY <2>1, <2>4, <2>5, <4>2
      <4>8. job[t].custody \cup {n} \subseteq 1 .. n
        BY <1>n, <2>4
      <4> QED BY <2>1, <3>3, <4>1, <4>2, <4>4, <4>6, <4>7, <4>8 DEF Written
    <3> QED BY <3>1, <3>2, <3>3
  <2>7. ConsensusComplete'
    <3> SUFFICES ASSUME NEW i \in 1 .. Len(rows')
                 PROVE
          (LET r == rows[i] IN
           /\ r.kind = "consensus" /\ r.fused > 0 =>
                  /\ Cardinality(r.custody) = r.fused
                  /\ \A c \in r.custody : /\ c \in 1 .. i - 1
                                          /\ rows[c].kind = "report"
                                          /\ rows[c].inst = r.inst
           /\ r.kind \in {"record", "genesis"} =>
                  \A c \in r.custody : c \in 1 .. i - 1
                                       /\ rows[c].kind = "consensus")'
      BY DEF ConsensusComplete
    <3>1. CASE i \in 1 .. Len(rows)
      BY <1>n, <2>1, <3>1 DEF CustodyInv, ConsensusComplete
    <3>2. CASE i = n
      <4>1. CASE e.kind = "consensus" /\ e.fused > 0
        <5>1. job[t].left = 0 /\ job[t].kind = "consensus" /\ e.fused = job[t].fused
          BY <2>5, <4>1
        <5>2. Cardinality(job[t].custody) = job[t].fused
          BY <2>2, <2>4, <5>1, FS_CardinalityType
        <5>3. job[t].custody # {}
          <6>1. Cardinality({}) = 0
            BY FS_EmptySet
          <6>2. job[t].custody = {} => job[t].fused = 0
            BY <5>2, <6>1, Zenon
          <6> QED BY <4>1, <5>1, <6>2
        <5>4. e.custody = job[t].custody
          BY <2>5, <5>1, <5>3
        <5> QED BY <1>n, <2>1, <2>4, <2>5, <3>2, <4>1, <5>1, <5>2, <5>4
      <4>2. CASE e.kind \in {"record", "genesis"}
        <5>1. job[t].kind # "consensus" /\ e.custody = job[t].custody
          BY <2>5, <4>2
        <5> QED BY <1>n, <2>1, <2>4, <3>2, <4>2, <5>1
      <4> QED BY <2>1, <3>2, <4>1, <4>2
    <3>3. i \in 1 .. Len(rows) \/ i = n
      BY <1>n, <2>1
    <3> QED BY <3>1, <3>2, <3>3, Zenon
  <2>8. CustodyOlder'
    <3>1. e.custody \subseteq Null .. Len(rows)
      BY <1>n, <2>4, <2>5 DEF Null
    <3> QED BY <1>n, <2>1, <3>1 DEF CustodyInv, CustodyOlder
  <2> QED BY <2>6, <2>7, <2>8 DEF CustodyInv
<1>8. CASE UNCHANGED vars
  BY <1>8, <1>j, CustodyJobStep DEF vars
<1> QED BY <1>1, <1>2, <1>3, <1>4, <1>5, <1>6, <1>7, <1>8 DEF Next, Step

LEMMA CustodyInit == Init => CustodyInv
<1> SUFFICES ASSUME Init PROVE CustodyInv
  OBVIOUS
<1>1. rows = <<>> /\ Len(rows) = 0 /\ \A t \in Threads : job[t] = NoJob
  BY DEF Init
<1> QED BY <1>1 DEF CustodyInv, JobSound, ConsensusComplete, CustodyOlder,
                   NoJob, SingleEntry

(* A consensus entry is committed after all the reports it fuses, and it   *)
(* cites exactly those, for any number of writers, failures and crashes.   *)
THEOREM ConsensusParents == Spec => []ConsensusComplete
<1>1. CustodyInv => ConsensusComplete
  BY DEF CustodyInv
<1> QED BY <1>1, CustodyInit, CustodyStep, TypeCorrect, PTL DEF Spec

(* The chain the abstract specification sees.                              *)
LEMMA RefinedStep ==
    ASSUME TypeOK, ChainLinked, ChainLinked', CustodyOlder', [Next]_vars
    PROVE  [AL!Next]_[i \in DOMAIN rows |-> [prev |-> rows[i].prev,
                                            custody |-> rows[i].custody]]
<1> DEFINE abs == [i \in DOMAIN rows |-> [prev |-> rows[i].prev,
                                         custody |-> rows[i].custody]]
<1>1. CASE UNCHANGED rows
  BY <1>1
<1>2. ASSUME NEW t \in Threads, Insert(t) PROVE AL!Next
  <2> DEFINE n == Len(rows) + 1
             e == rows'[n]
             a == [prev |-> Len(abs), custody |-> e.custody]
  <2>n. Len(rows) \in Nat
    BY DEF TypeOK
  <2>1. /\ Len(rows') = n
        /\ DOMAIN rows = 1 .. Len(rows)
        /\ DOMAIN rows' = 1 .. n
        /\ \A k \in 1 .. Len(rows) : rows'[k] = rows[k]
    BY <1>2 DEF Insert, TypeOK
  <2>2. e.prev = Len(rows)
    BY <2>n, <2>1 DEF ChainLinked
  <2>3. Len(abs) = Len(rows) /\ abs \in Seq([prev : {rows[i].prev : i \in 1 .. Len(rows)},
                                             custody : {rows[i].custody : i \in 1 .. Len(rows)}])
    BY <2>n, <2>1
  <2>4. e.custody \in SUBSET (Null .. Len(abs))
    BY <2>n, <2>1, <2>3 DEF CustodyOlder
  <2>5. abs' = Append(abs, a)
    <3>1. abs' = [i \in 1 .. n |-> [prev |-> rows'[i].prev,
                                    custody |-> rows'[i].custody]]
      BY <2>1
    <3>2. Append(abs, a) = [i \in 1 .. n |-> IF i = n THEN a ELSE abs[i]]
      BY <2>n, <2>1, <2>3
    <3>3. \A i \in 1 .. n : [prev |-> rows'[i].prev, custody |-> rows'[i].custody]
                            = IF i = n THEN a ELSE abs[i]
      BY <2>n, <2>1, <2>2, <2>3
    <3> QED BY <3>1, <3>2, <3>3
  <2>6. \E custody \in SUBSET (Null .. Len(abs)) :
            abs' = Append(abs, [prev |-> Len(abs), custody |-> custody])
    BY <2>4, <2>5
  <2> QED BY <2>6 DEF AL!Next, AL!Extend, AL!Null, Null
<1>3. [\E t \in Threads : Insert(t)]_rows
  BY DEF Next, vars, Step, StartRecord, StartGenesis, StartFrame, Start,
         Acquire, ReadTip, Fail, Crash
<1> QED BY <1>1, <1>2, <1>3

(* With one LedgerWriter the table implements AbstractLedger: an           *)
(* append-only hash chain whose entries only vouch for older entries.      *)
THEOREM SingleWriterRefines == SingleInstance => (Spec => Refines)
<1> SUFFICES ASSUME SingleInstance PROVE Spec => Refines
  OBVIOUS
<1>1. Init => AL!Init
  BY DEF Init, AL!Init
<1>2. Spec => []CustodyOlder
  <2>1. CustodyInv => CustodyOlder
    BY DEF CustodyInv
  <2> QED BY <2>1, CustodyInit, CustodyStep, TypeCorrect, PTL DEF Spec
<1>3. Spec => []ChainLinked
  BY SingleWriterChain
<1> QED BY <1>1, <1>2, <1>3, RefinedStep, TypeCorrect, PTL
        DEF Spec, Refines, AL!Spec

-----------------------------------------------------------------------------
(* The dashboard's tail.                                                   *)

TailTypeOK ==
    /\ open \in BOOLEAN /\ gap \in BOOLEAN /\ burst \in BOOLEAN
    /\ lastSeq \in Nat /\ looked \in Nat

(* TailFollows needs that the table only grows, and that a client that has *)
(* gone leaves nothing behind.                                             *)
TailInv ==
    /\ TailTypeOK
    /\ TailFollows
    /\ looked <= Len(rows)
    /\ ~open => lastSeq = 0 /\ ~gap

(* The seqs from m to n, and the first of them that is after last_seq.     *)
Run(m, n) == [i \in 1 .. n + 1 - m |-> m + i - 1]
From(m) == IF lastSeq < m THEN m ELSE lastSeq + 1

LEMMA RunFacts ==
    ASSUME NEW m \in Nat \ {0}, NEW n \in Nat, m <= n + 1
    PROVE  /\ Run(m, n) \in Seq(Nat) /\ Len(Run(m, n)) = n + 1 - m
           /\ DOMAIN Run(m, n) = 1 .. n + 1 - m
           /\ \A i \in 1 .. n + 1 - m : Run(m, n)[i] = m + i - 1
  BY DEF Run

LEMMA LeastIsMin ==
    ASSUME NEW S \in SUBSET Nat, NEW x \in S, \A y \in S : x <= y
    PROVE  Min(S) = x
<1> DEFINE c == CHOOSE z \in S : \A y \in S : z <= y
<1>1. c \in S /\ \A y \in S : c <= y
  OBVIOUS
<1>2. Min(S) = c
  BY DEF Min
<1> HIDE DEF c
<1> QED BY <1>1, <1>2

(* What is left of a run of seqs behind last_seq begins right after that,  *)
(* or where the run does.                                                  *)
LEMMA NewerSeqs ==
    ASSUME NEW m \in Nat \ {0}, NEW n \in Nat, m <= n + 1, lastSeq \in Nat,
           lastSeq <= n
    PROVE  /\ Newer(Run(m, n)) \in Seq(Nat)
           /\ Newer(Run(m, n)) # <<>> <=> lastSeq < n /\ m <= n
           /\ Newer(Run(m, n)) # <<>> =>
                  Head(Newer(Run(m, n))) = From(m) /\ Last(Newer(Run(m, n))) = n
<1> DEFINE page == Run(m, n)
           S == {i \in DOMAIN page : page[i] > lastSeq} \cup {Len(page) + 1}
           first == From(m) - m + 1
<1>1. /\ page \in Seq(Nat) /\ Len(page) = n + 1 - m
      /\ DOMAIN page = 1 .. n + 1 - m
      /\ \A i \in DOMAIN page : page[i] = m + i - 1
  BY RunFacts
<1> HIDE DEF page
<1>2. first \in Nat \ {0} /\ first <= n + 2 - m /\ From(m) \in Nat \ {0}
      /\ (first <= n + 1 - m <=> lastSeq < n /\ m <= n)
  BY DEF From
<1>3. first \in S /\ \A i \in S : first <= i
  <2>1. ASSUME NEW i \in 1 .. n + 1 - m PROVE i \in S <=> m + i - 1 > lastSeq
    <3>1. i \in DOMAIN page /\ page[i] = m + i - 1 /\ i # Len(page) + 1
      BY <1>1
    <3> QED BY <3>1
  <2>2. n + 2 - m \in S /\ S \subseteq 1 .. n + 2 - m
    <3>1. Len(page) + 1 = n + 2 - m /\ n + 2 - m \in Nat \ {0}
      BY <1>1
    <3>2. n + 2 - m \in S
      BY <3>1
    <3>3. \A i \in DOMAIN page : i \in 1 .. n + 2 - m
      BY <1>1
    <3> QED BY <3>1, <3>2, <3>3
  <2> HIDE DEF S, first
  <2>3. /\ lastSeq < m => first = 1
        /\ ~(lastSeq < m) => first = lastSeq + 2 - m
    BY DEF From, first
  <2>4. \A i \in 1 .. n + 1 - m : m + i - 1 > lastSeq <=> first <= i
    BY <2>3
  <2>5. first \in S
    BY <1>2, <2>1, <2>2, <2>4
  <2>6. \A i \in S : first <= i
    BY <1>2, <2>1, <2>2, <2>4
  <2> QED BY <2>5, <2>6
<1>4. Min(S) = first
  <2>1. S \in SUBSET Nat
    BY <1>1
  <2> HIDE DEF S, first
  <2> QED BY <1>3, <2>1, LeastIsMin
<1>5. Newer(page) = SubSeq(page, first, n + 1 - m)
  BY <1>1, <1>4 DEF Newer
<1>6. From(m) = m + first - 1
  BY <1>2
<1> HIDE DEF first, S
<1>7. /\ Newer(page) \in Seq(Nat)
      /\ Len(Newer(page)) = n + 2 - m - first
      /\ \A i \in 1 .. n + 2 - m - first :
             Newer(page)[i] = page[first + i - 1]
  BY <1>1, <1>2, <1>5
<1>8. ASSUME Newer(page) # <<>>
      PROVE  Head(Newer(page)) = From(m) /\ Last(Newer(page)) = n
  <2>1. n + 2 - m - first >= 1
    BY <1>2, <1>7, <1>8
  <2>2. Newer(page)[1] = page[first] /\ Newer(page)[n + 2 - m - first] = page[n + 1 - m]
    BY <1>2, <1>7, <2>1
  <2>3. page[first] = From(m) /\ page[n + 1 - m] = n
    BY <1>1, <1>2, <1>6, <2>1, SMTT(30)
  <2> QED BY <1>7, <1>8, <2>2, <2>3 DEF Last
<1>9. Newer(page) # <<>> <=> n + 2 - m - first >= 1
  BY <1>2, <1>7
<1> QED BY <1>2, <1>7, <1>8, <1>9 DEF page

(* recent(n) reads a run that ends with the table.                         *)
LEMMA RecentSeqs ==
    ASSUME NEW n \in Nat \ {0}, Len(rows) \in Nat, DOMAIN rows = 1 .. Len(rows)
    PROVE  \E m \in 1 .. Len(rows) + 1 :
               /\ Recent(n) = Run(m, Len(rows))
               /\ m = IF Len(rows) <= n THEN 1 ELSE Len(rows) - n + 1
<1> DEFINE seqs == [i \in DOMAIN rows |-> i]
<1>1. seqs \in Seq(Nat) /\ Len(seqs) = Len(rows) /\ \A i \in 1 .. Len(rows) : seqs[i] = i
  OBVIOUS
<1>2. CASE Len(rows) <= n
  <2>1. Recent(n) = seqs
    BY <1>1, <1>2 DEF Recent
  <2>2. seqs = Run(1, Len(rows))
    BY DEF Run
  <2> QED BY <1>2, <2>1, <2>2
<1>3. CASE ~(Len(rows) <= n)
  <2> DEFINE m == Len(rows) - n + 1
  <2>1. Recent(n) = SubSeq(seqs, m, Len(rows))
    <3>1. Recent(n) = SubSeq(seqs, Len(seqs) - n + 1, Len(seqs))
      BY <1>1, <1>3 DEF Recent
    <3> QED BY <1>1, <3>1
  <2>2. m \in 1 .. Len(rows)
    BY <1>3
  <2> HIDE DEF seqs, m
  <2>3. SubSeq(seqs, m, Len(rows)) = [i \in 1 .. Len(rows) + 1 - m |-> seqs[m + i - 1]]
    BY <1>1, <2>2
  <2>4. \A i \in 1 .. Len(rows) + 1 - m : seqs[m + i - 1] = m + i - 1
    BY <1>1, <2>2
  <2>5. Recent(n) = Run(m, Len(rows))
    BY <2>1, <2>3, <2>4 DEF Run
  <2> QED BY <1>3, <2>2, <2>5 DEF m
<1> QED BY <1>2, <1>3

(* The table only grows.                                                   *)
LEMMA RowsGrow == TypeOK /\ [Next]_vars => Len(rows) <= Len(rows')
<1> SUFFICES ASSUME TypeOK, [Next]_vars PROVE Len(rows) <= Len(rows')
  OBVIOUS
<1>1. Len(rows) \in Nat
  BY DEF TypeOK
<1>2. ASSUME NEW t \in Threads, Insert(t) PROVE Len(rows) <= Len(rows')
  <2>1. Len(Append(rows, NextEntry(t))) = Len(rows) + 1
    BY DEF TypeOK
  <2> QED BY <1>1, <1>2, <2>1 DEF Insert
<1>3. (\E t \in Threads : Insert(t)) \/ UNCHANGED rows
  BY DEF Next, vars, Step, StartRecord, StartGenesis, StartFrame, Start,
         Acquire, ReadTip, Fail, Crash
<1> QED BY <1>1, <1>2, <1>3

(* A page of n rows that is sent leaves out a row only if the table has    *)
(* grown by more than n since the last look.                               *)
LEMMA SendStep ==
    ASSUME NEW n \in Nat \ {0}, TypeOK, TailInv, Send(Newer(Recent(n)))
    PROVE  /\ gap' \in BOOLEAN /\ lastSeq' \in Nat
           /\ looked' = Len(rows) /\ lastSeq' = Len(rows)
           /\ gap' => gap \/ (lastSeq # 0 /\ Len(rows) > looked + n)
<1>1. /\ Len(rows) \in Nat /\ DOMAIN rows = 1 .. Len(rows)
      /\ lastSeq \in Nat /\ lastSeq = looked /\ lastSeq <= Len(rows)
      /\ gap \in BOOLEAN
  BY DEF TypeOK, TailInv, TailTypeOK, TailFollows
<1>2. PICK m \in 1 .. Len(rows) + 1 :
          /\ Recent(n) = Run(m, Len(rows))
          /\ m = IF Len(rows) <= n THEN 1 ELSE Len(rows) - n + 1
  BY <1>1, RecentSeqs
<1> DEFINE seqs == Newer(Recent(n))
<1>3. /\ seqs # <<>> <=> lastSeq < Len(rows) /\ m <= Len(rows)
      /\ seqs # <<>> => Head(seqs) = From(m) /\ Last(seqs) = Len(rows)
  <2>1. m \in Nat \ {0} /\ m <= Len(rows) + 1
    BY <1>1, <1>2
  <2> HIDE DEF seqs
  <2>2. seqs = Newer(Run(m, Len(rows)))
    BY <1>2 DEF seqs
  <2> QED BY <1>1, <2>1, <2>2, NewerSeqs
<1>4. m <= Len(rows) <=> Len(rows) # 0
  BY <1>1, <1>2
<1>5. /\ gap' = (gap \/ (seqs # <<>> /\ lastSeq # 0 /\ Head(seqs) # lastSeq + 1))
      /\ lastSeq' = IF seqs = <<>> THEN lastSeq ELSE Last(seqs)
      /\ looked' = Len(rows)
  BY DEF Send
<1> HIDE DEF seqs
<1>6. lastSeq' = Len(rows)
  <2>1. CASE seqs = <<>>
    <3>1. ~(lastSeq < Len(rows))
      <4>1. m \in Nat
        BY <1>1, <1>2
      <4> QED BY <1>1, <1>3, <1>4, <2>1, <4>1
    <3>2. lastSeq = Len(rows)
      <4>1. Len(rows) \in Nat /\ lastSeq \in Nat /\ lastSeq <= Len(rows)
        BY <1>1
      <4> QED BY <3>1, <4>1
    <3> QED BY <1>5, <2>1, <3>2
  <2>2. CASE seqs # <<>>
    BY <1>3, <1>5, <2>2
  <2> QED BY <2>1, <2>2
<1>7. gap' \in BOOLEAN
  BY <1>5
<1>8. ASSUME gap', ~gap PROVE lastSeq # 0 /\ Len(rows) > looked + n
  <2>1. lastSeq # 0 /\ From(m) # lastSeq + 1
    BY <1>3, <1>5, <1>8
  <2>2. From(m) = m /\ m # lastSeq + 1 /\ lastSeq < m
    BY <2>1, <1>1, <1>2 DEF From
  <2> QED BY <1>1, <1>2, <2>1, <2>2
<1> QED BY <1>1, <1>5, <1>6, <1>7, <1>8

LEMMA TailStep ==
    TypeOK /\ TailInv /\ [TailNext]_<<vars, tailVars>> => TailInv'
<1> SUFFICES ASSUME TypeOK, TailInv, [TailNext]_<<vars, tailVars>>
             PROVE  TailInv'
  OBVIOUS
<1> USE TailAssumption DEF TailInv, TailTypeOK, TailFollows
<1>1. Len(rows) \in Nat
  BY DEF TypeOK
<1>2. CASE [Next]_vars /\ UNCHANGED tailVars
  <2>1. Len(rows) <= Len(rows') /\ Len(rows') \in Nat
    <3>1. TypeOK'
      BY <1>2, TypeStep
    <3> QED BY <1>2, <3>1, RowsGrow DEF TypeOK
  <2> QED BY <1>1, <1>2, <2>1 DEF tailVars
<1>3. ASSUME Connect, UNCHANGED vars PROVE TailInv'
  <2>1. rows' = rows
    BY <1>3 DEF vars
  <2>2. CASE Send(Recent(SeedPage)) /\ burst' = FALSE
    <3>1. lastSeq = 0 /\ ~gap
      BY <1>3 DEF Connect
    <3>2. Newer(Recent(SeedPage)) = Recent(SeedPage)
      <4>1. /\ Len(rows) \in Nat /\ DOMAIN rows = 1 .. Len(rows)
        BY DEF TypeOK
      <4>2. PICK m \in 1 .. Len(rows) + 1 : Recent(SeedPage) = Run(m, Len(rows))
        BY <4>1, RecentSeqs
      <4> DEFINE page == Run(m, Len(rows))
      <4>3. /\ page \in Seq(Nat) /\ DOMAIN page = 1 .. Len(page)
            /\ Len(page) \in Nat
            /\ \A i \in 1 .. Len(page) : page[i] > 0
        <5>1. m \in Nat \ {0} /\ m <= Len(rows) + 1
          BY <4>1, <4>2
        <5> HIDE DEF page
        <5>2. /\ page \in Seq(Nat) /\ Len(page) = Len(rows) + 1 - m
              /\ DOMAIN page = 1 .. Len(rows) + 1 - m
              /\ \A i \in 1 .. Len(rows) + 1 - m : page[i] = m + i - 1
          BY <4>1, <5>1, RunFacts DEF page
        <5> QED BY <4>1, <5>1, <5>2
      <4> HIDE DEF page
      <4> DEFINE S == {i \in DOMAIN page : page[i] > 0} \cup {Len(page) + 1}
      <4>4. S \in SUBSET Nat /\ 1 \in S /\ \A i \in S : 1 <= i
        BY <4>3
      <4>5. Min(S) = 1
        BY <4>4, LeastIsMin
      <4>6. Newer(page) = SubSeq(page, 1, Len(page))
        BY <3>1, <4>5 DEF Newer
      <4> QED BY <4>2, <4>3, <4>6 DEF page
    <3>3. Send(Newer(Recent(SeedPage)))
      BY <2>2, <3>2
    <3>4. /\ gap' \in BOOLEAN /\ lastSeq' \in Nat
          /\ looked' = Len(rows) /\ lastSeq' = Len(rows) /\ ~gap'
      BY <3>1, <3>3, SendStep
    <3>5. open' \in BOOLEAN /\ burst' \in BOOLEAN /\ (gap => burst)' /\ open'
      BY <1>3, <2>2, <3>4, Zenon DEF Connect
    <3> QED BY <1>1, <2>1, <3>4, <3>5
  <2>3. CASE UNCHANGED <<lastSeq, gap, looked, burst>>
    BY <1>3, <2>1, <2>3 DEF Connect
  <2> QED BY <1>3, <2>2, <2>3 DEF Connect
<1>4. ASSUME Poll, UNCHANGED vars PROVE TailInv'
  <2>1. rows' = rows
    BY <1>4 DEF vars
  <2>2. Send(Newer(Recent(Page)))
    BY <1>4 DEF Poll
  <2>3. /\ gap' \in BOOLEAN /\ lastSeq' \in Nat
        /\ looked' = Len(rows) /\ lastSeq' = Len(rows)
        /\ gap' => gap \/ Len(rows) > looked + Page
    BY <2>2, SendStep
  <2> QED BY <1>1, <1>4, <2>1, <2>3 DEF Poll
<1>5. ASSUME Disconnect, UNCHANGED vars PROVE TailInv'
  <2>1. rows' = rows /\ lastSeq' = 0 /\ looked' = 0
    BY <1>5 DEF Disconnect, vars
  <2>2. /\ open' \in BOOLEAN /\ gap' \in BOOLEAN /\ burst' \in BOOLEAN /\ ~gap'
    BY <1>5, Zenon DEF Disconnect
  <2> QED BY <1>1, <2>1, <2>2
<1> QED BY <1>2, <1>3, <1>4, <1>5 DEF TailNext, vars, tailVars

(* A ledger with a dashboard is a ledger: polling changes nothing in it.   *)
LEMMA TailIsLedger == TailSpec => Spec
<1>1. TailInit => Init
  BY DEF TailInit
<1>2. [TailNext]_<<vars, tailVars>> => [Next]_vars
  BY DEF TailNext, vars
<1> QED BY <1>1, <1>2, PTL DEF TailSpec, Spec

(* The dashboard has the table up to its last look, and misses no row of   *)
(* it unless more came between two looks than a page holds, whatever the   *)
(* sizes of the pages and whoever appends (ui/http.py, _sse_ledger_tail).  *)
THEOREM DashboardFollows == TailSpec => []TailFollows
<1>1. TailInit => TailInv
  <2> SUFFICES ASSUME TailInit PROVE TailInv
    OBVIOUS
  <2>1. Len(rows) = 0 /\ lastSeq = 0 /\ looked = 0
    BY DEF TailInit, Init, Hidden
  <2>2. open \in BOOLEAN /\ gap \in BOOLEAN /\ burst \in BOOLEAN /\ ~gap
    BY Zenon DEF TailInit, Hidden
  <2> QED BY <2>1, <2>2 DEF TailInv, TailTypeOK, TailFollows
<1>2. TailInv => TailFollows
  BY DEF TailInv
<1> QED BY <1>1, <1>2, TailStep, TailIsLedger, TypeCorrect, PTL DEF TailSpec

-----------------------------------------------------------------------------
(* A set of numbers that is not empty has a least one.                     *)
LEMMA LeastNumber ==
    ASSUME NEW T \in SUBSET Nat, T # {}
    PROVE  \E n \in T : \A k \in T : n <= k
<1>1. IsWellFoundedOn(OpToRel(<, Nat), Nat)
    BY NatLessThanWellFounded
<1>2. PICK n \in T : \A k \in T : <<k, n>> \notin OpToRel(<, Nat)
    BY <1>1, WFMin
<1>3. OpToRel(<, Nat) = {ss \in Nat \X Nat : ss[1] < ss[2]}
    BY DEF OpToRel
<1>4. \A k \in T : ~(k < n)
    BY <1>2, <1>3
<1> QED
    BY <1>4

(* Induction, over a set: that of the numbers for which a formula holds.   *)
LEMMA Upwards ==
    ASSUME NEW S, NEW n \in Nat, 0 \in S,
           \A i \in 1 .. n : i - 1 \in S => i \in S
    PROVE  \A i \in 0 .. n : i \in S
<1> DEFINE T == {i \in 0 .. n : i \notin S}
<1>1. SUFFICES ASSUME T # {} PROVE FALSE
    OBVIOUS
<1>2. PICK m \in T : \A k \in T : m <= k
    <2>1. T \in SUBSET Nat
        OBVIOUS
    <2> HIDE DEF T
    <2> QED
        BY <1>1, <2>1, LeastNumber
<1>3. m # 0 /\ m \in 1 .. n /\ m - 1 \in 0 .. n
    BY <1>2
<1>4. m - 1 \in S
    BY <1>2, <1>3
<1> QED
    BY <1>2, <1>3, <1>4

-----------------------------------------------------------------------------
(* KeyRotation, for every number of processes, keys and rows.              *)
(*                                                                         *)
(* KeyAnnounced is not inductive: a row is signed with a key that was read *)
(* from a file steps ago, and that file was written by a run of the script *)
(* that announced its key steps before that.  KeysKnown carries the fact   *)
(* along that path: whatever key is in a file, in an open writer, or about *)
(* to be written is one the ledger has announced.                          *)

(* The keys announced by the whole ledger.                                 *)
Known == {FirstKey} \cup {signed[j].announces : j \in DOMAIN signed}

KeysKnown ==
    /\ sk \in Known \cup {Empty}
    /\ pk \in Known \cup {Empty}
    /\ \A p \in Procs :
           /\ place[p] \in {"half", "open"} => hsk[p] \in Known \ {0}
           /\ hpk[p] \in Known \cup {Empty}
           /\ place[p] \in Swapping => new[p] \in Known

(* Every step keeps the types.                                             *)
LEMMA RotationTypeStep ==
    RotationTypeOK /\ [RotationNext]_rotationVars => RotationTypeOK'
<1> SUFFICES ASSUME RotationTypeOK, [RotationNext]_rotationVars PROVE RotationTypeOK'
    OBVIOUS
<1> USE DEF RotationTypeOK, SignedRow, Goto, Empty, FirstKey, Places, Swapping
<1>1. CASE UNCHANGED rotationVars
    BY <1>1 DEF rotationVars
<1>2. ASSUME NEW p \in Procs, StartService(p) PROVE RotationTypeOK'
    BY <1>2 DEF StartService, ReadSk
<1>3. ASSUME NEW p \in Procs, StartRotation(p) PROVE RotationTypeOK'
    <2>1. made + 1 \in Nat \ {0, 1}
        OBVIOUS
    <2>2. /\ hsk' \in [Procs -> Nat]
          /\ made' \in Nat \ {0}
          /\ new' \in [Procs -> Nat \ {1}]
        BY <1>3, <2>1 DEF StartRotation, ReadSk
    <2>3. /\ place' = [place EXCEPT ![p] = "half"]
          /\ \A q \in Procs \ {p} : new'[q] = new[q] /\ place'[q] = place[q]
          /\ UNCHANGED <<signed, sk, pk, hpk>>
        BY <1>3 DEF StartRotation, ReadSk
    <2> QED
        BY <2>2, <2>3
<1>4. ASSUME NEW p \in Procs, ReadPk(p) PROVE RotationTypeOK'
    BY <1>4 DEF ReadPk
<1>5. ASSUME NEW p \in Procs, NEW k \in Nat, Sign(p, k)
      PROVE  signed' \in Seq(SignedRow)
    BY <1>5 DEF Sign
<1>6. ASSUME NEW p \in Procs, SignEntry(p) PROVE RotationTypeOK'
    BY <1>5, <1>6 DEF SignEntry
<1>7. ASSUME NEW p \in Procs, Announce(p) PROVE RotationTypeOK'
    <2>1. new[p] \in Nat
        OBVIOUS
    <2> QED
        BY <1>5, <1>7, <2>1 DEF Announce
<1>8. ASSUME NEW p \in Procs, CutSk(p) \/ WriteSk(p) \/ CutPk(p)
      PROVE  RotationTypeOK'
    <2>1. new[p] \in Nat
        OBVIOUS
    <2>2. CASE CutSk(p)
        BY <2>2 DEF CutSk
    <2>3. CASE WriteSk(p)
        BY <2>1, <2>3 DEF WriteSk
    <2>4. CASE CutPk(p)
        BY <2>4 DEF CutPk
    <2> QED
        BY <1>8, <2>2, <2>3, <2>4
<1>9. ASSUME NEW p \in Procs, WritePk(p) \/ Stop(p) PROVE RotationTypeOK'
    <2>1. new[p] \in Nat
        OBVIOUS
    <2>2. /\ pk' \in Nat
          /\ new' = [new EXCEPT ![p] = 0]
          /\ place' = [place EXCEPT ![p] = "closed"]
          /\ UNCHANGED <<signed, sk, made, hsk, hpk>>
        BY <1>9, <2>1 DEF WritePk, Stop
    <2>3. new' \in [Procs -> Nat \ {1}]
        BY <2>2
    <2> QED
        BY <2>2, <2>3
<1> QED
    BY <1>1, <1>2, <1>3, <1>4, <1>6, <1>7, <1>8, <1>9 DEF RotationNext

(* KeyRotation has its types in every behaviour.                           *)
THEOREM RotationTypeCorrect == RotationSpec => []RotationTypeOK
<1>1. RotationInit => RotationTypeOK
    BY DEF RotationInit, RotationTypeOK, SignedRow, Empty, FirstKey, Places,
           Swapping
<1> QED
    BY <1>1, RotationTypeStep, PTL DEF RotationSpec

(* Every step keeps KeysKnown and KeyAnnounced: an Announce adds its key   *)
(* to the known ones before the swap of the files can start.               *)
LEMMA KeyStep ==
    RotationTypeOK /\ KeysKnown /\ KeyAnnounced /\ [RotationNext]_rotationVars
        => KeysKnown' /\ KeyAnnounced'
<1> SUFFICES ASSUME RotationTypeOK, KeysKnown, KeyAnnounced,
                    [RotationNext]_rotationVars
             PROVE  KeysKnown' /\ KeyAnnounced'
    OBVIOUS
<1>t. /\ signed \in Seq(SignedRow) /\ Len(signed) \in Nat
      /\ place \in [Procs -> Places] /\ hsk \in [Procs -> Nat]
      /\ hpk \in [Procs -> Nat] /\ new \in [Procs -> Nat \ {FirstKey}]
      /\ \A p \in Procs : new[p] \in Nat
    BY DEF RotationTypeOK
<1>a. ASSUME UNCHANGED signed PROVE Known' = Known /\ KeyAnnounced'
    <2>1. signed' = signed
        BY <1>a
    <2> QED
        BY <2>1 DEF Known, KeyAnnounced, KnownBefore
<1>b. ASSUME NEW p \in Procs, NEW k \in Nat, place[p] = "open", Sign(p, k)
      PROVE  Known' = Known \cup {k} /\ KeyAnnounced'
    <2> DEFINE e == [key |-> hsk[p], fpr |-> hpk[p], announces |-> k]
               n == Len(signed)
    <2>1. signed' = Append(signed, e) /\ e \in SignedRow
        BY <1>b, <1>t DEF Sign, SignedRow
    <2>2. /\ DOMAIN signed' = 1 .. n + 1
          /\ \A i \in 1 .. n : signed'[i] = signed[i]
          /\ signed'[n + 1] = e
          /\ DOMAIN signed = 1 .. n
        BY <2>1, <1>t
    <2>3. Known' = Known \cup {k}
        <3>1. 1 .. n + 1 = (1 .. n) \cup {n + 1}
            BY <1>t
        <3>2. {signed'[j].announces : j \in DOMAIN signed'}
                  = {signed[j].announces : j \in DOMAIN signed} \cup {e.announces}
            BY <2>2, <3>1
        <3> QED
            BY <3>2 DEF Known
    <2>4. ASSUME NEW i \in 1 .. n + 1 PROVE KnownBefore(i)' = KnownBefore(i)
        <3>1. \A j \in 1 .. i - 1 : signed'[j] = signed[j]
            BY <2>2, <1>t
        <3>2. {signed'[j].announces : j \in 1 .. i - 1}
                  = {signed[j].announces : j \in 1 .. i - 1}
            BY <3>1
        <3> QED
            BY <3>2 DEF KnownBefore
    <2>5. KnownBefore(n + 1) = Known
        <3>1. 1 .. (n + 1) - 1 = DOMAIN signed
            BY <2>2, <1>t
        <3> QED
            BY <3>1 DEF KnownBefore, Known
    <2>6. hsk[p] \in Known \ {0} /\ hpk[p] \in Known \cup {Empty}
        BY <1>b DEF KeysKnown
    <2>7. ASSUME NEW i \in 1 .. n + 1
          PROVE  /\ signed'[i].key \in KnownBefore(i) \ {0}
                 /\ signed'[i].fpr \in KnownBefore(i) \cup {Empty}
        <3>1. CASE i = n + 1
            BY <3>1, <2>2, <2>5, <2>6
        <3>2. CASE i # n + 1
            <4>1. i \in DOMAIN signed
                BY <3>2, <2>2, <1>t
            <4> QED
                BY <4>1, <2>2 DEF KeyAnnounced
        <3> QED
            BY <3>1, <3>2
    <2>8. KeyAnnounced'
        BY <2>2, <2>4, <2>7 DEF KeyAnnounced
    <2> QED
        BY <2>3, <2>8
<1>c. FirstKey \in Known /\ FirstKey # 0 /\ Empty = 0
    BY DEF Known, FirstKey, Empty
<1>1. CASE UNCHANGED rotationVars
    BY <1>1, <1>a DEF rotationVars, KeysKnown
<1>2. ASSUME NEW p \in Procs, StartService(p) \/ StartRotation(p)
      PROVE  KeysKnown' /\ KeyAnnounced'
    <2>1. /\ place[p] = "closed" /\ sk # Empty
          /\ hsk' = [hsk EXCEPT ![p] = sk]
          /\ place' = [place EXCEPT ![p] = "half"]
          /\ UNCHANGED <<signed, sk, pk, hpk>>
        BY <1>2 DEF StartService, StartRotation, ReadSk, Goto
    <2>2. \A q \in Procs : q # p => new'[q] = new[q]
        BY <1>2, <1>t DEF StartService, StartRotation
    <2> QED
        BY <2>1, <2>2, <1>a, <1>c, <1>t DEF KeysKnown, Swapping
<1>3. ASSUME NEW p \in Procs, ReadPk(p) PROVE KeysKnown' /\ KeyAnnounced'
    BY <1>3, <1>a, <1>t DEF ReadPk, Goto, KeysKnown, Swapping
<1>4. ASSUME NEW p \in Procs, SignEntry(p)
      PROVE  KeysKnown' /\ KeyAnnounced'
    <2>1. /\ Known' = Known \cup {0} /\ KeyAnnounced'
          /\ UNCHANGED <<sk, pk, place, hsk, hpk, new>>
        BY <1>4, <1>b DEF SignEntry
    <2> QED
        BY <2>1 DEF KeysKnown
<1>5. ASSUME NEW p \in Procs, Announce(p)
      PROVE  KeysKnown' /\ KeyAnnounced'
    <2>1. /\ Known' = Known \cup {new[p]} /\ KeyAnnounced'
          /\ place' = [place EXCEPT ![p] = "announced"]
          /\ UNCHANGED <<sk, pk, hsk, hpk, new>>
        BY <1>5, <1>b, <1>t DEF Announce, Goto
    <2> QED
        BY <2>1, <1>t DEF KeysKnown, Swapping
<1>6. ASSUME NEW p \in Procs,
             CutSk(p) \/ WriteSk(p) \/ CutPk(p) \/ WritePk(p)
      PROVE  KeysKnown' /\ KeyAnnounced'
    <2>1. new[p] \in Known
        BY <1>6 DEF CutSk, WriteSk, CutPk, WritePk, KeysKnown, Swapping
    <2>2. /\ UNCHANGED <<signed, hsk, hpk>>
          /\ sk' \in {sk, Empty, new[p]}
          /\ pk' \in {pk, Empty, new[p]}
          /\ \E at \in Swapping \cup {"closed"} : place' = [place EXCEPT ![p] = at]
        BY <1>6 DEF CutSk, WriteSk, CutPk, WritePk, Goto, Swapping
    <2>3. place'[p] \in Swapping => new'[p] = new[p]
        BY <1>6, <1>t
        DEF CutSk, WriteSk, CutPk, WritePk, Goto, Swapping
    <2>4. \A q \in Procs : q # p => place'[q] = place[q] /\ new'[q] = new[q]
        BY <1>6, <1>t DEF CutSk, WriteSk, CutPk, WritePk, Goto
    <2>5. place'[p] \notin {"half", "open"}
        BY <2>2, <1>t DEF Swapping
    <2> QED
        BY <2>1, <2>2, <2>3, <2>4, <2>5, <1>a DEF KeysKnown
<1>7. ASSUME NEW p \in Procs, Stop(p) PROVE KeysKnown' /\ KeyAnnounced'
    BY <1>7, <1>a, <1>t DEF Stop, Goto, KeysKnown, Swapping
<1> QED
    BY <1>1, <1>2, <1>3, <1>4, <1>5, <1>6, <1>7 DEF RotationNext

(* The timeline of signing keys can be rebuilt from the ledger, however    *)
(* many runs of the script overlap and wherever they die.                  *)
THEOREM TimelineRebuildable == RotationSpec => []KeyAnnounced
<1>1. RotationInit => KeysKnown /\ KeyAnnounced
    BY DEF RotationInit, KeysKnown, KeyAnnounced, Known, Swapping, Empty
<1> QED
    BY <1>1, KeyStep, RotationTypeCorrect, PTL DEF RotationSpec

-----------------------------------------------------------------------------
(* Anchor, for every set of callers that pass the same batch size,         *)
(* whatever the size, the length of the ledger and the overlap of calls.   *)
(*                                                                         *)
(* The argument: a call works on the batch after one that the table holds, *)
(* batch k of size B is always the same B entries once they exist, and the *)
(* primary key lets the first call in.                                     *)

(* Every caller passes the batch size B.                                   *)
AllPass(B) == B \in Nat \ {0} /\ \A p \in Anchorers : SizeOf[p] = B

OneBatchSize == \E B \in Nat : AllPass(B)

(* Batch k exists in full.                                                 *)
Full(k, B) == (k - 1) * B + B <= entries

TableInv(B) ==
    \A a \in anchors :
        /\ a.batch \in Nat \ {0}
        /\ a.leaves = Batch(a.batch, B)
        /\ Full(a.batch, B)
        /\ a.batch # 1 => \E b \in anchors : b.batch = a.batch - 1

CallInv(B) ==
    \A p \in Anchorers :
        /\ call[p] # "idle" =>
               max[p] = 0 \/ \E a \in anchors : a.batch = max[p]
        /\ call[p] \in {"submit", "insert"} =>
               leaves[p] = Batch(max[p] + 1, B) /\ Full(max[p] + 1, B)

RekorInv(B) ==
    /\ \A i \in DOMAIN rekor : rekor[i].leaves = Batch(rekor[i].batch, B)
    /\ \A a \in anchors : a.index # 0 =>
           /\ a.index \in DOMAIN rekor
           /\ rekor[a.index] = [batch |-> a.batch, leaves |-> a.leaves]
    /\ \A p \in Anchorers : index[p] # 0 =>
           /\ call[p] = "insert"
           /\ index[p] \in DOMAIN rekor
           /\ rekor[index[p]] = [batch |-> max[p] + 1, leaves |-> leaves[p]]

Inv(B) == TableInv(B) /\ CallInv(B) /\ RekorInv(B)

(* A batch is a sequence of positive numbers.                              *)
LEMMA BatchType ==
    ASSUME NEW k \in Nat \ {0}, NEW B \in Nat \ {0}
    PROVE  Batch(k, B) \in Seq(Nat) /\ Len(Batch(k, B)) = B
<1>1. \A i \in 1 .. B : (k - 1) * B + i \in Nat
    <2>1. (k - 1) * B \in Nat
        OBVIOUS
    <2> QED
        BY <2>1
<1>2. Batch(k, B) \in [1 .. B -> Nat]
    BY <1>1 DEF Batch
<1> QED
    BY <1>2

(* The last entry of a batch is right before the first of the next one.    *)
LEMMA BatchEnds ==
    ASSUME NEW k \in Nat \ {0}, NEW B \in Nat \ {0}
    PROVE  /\ \A i \in 1 .. B : Batch(k, B)[i] = Batch(k, B)[1] + (i - 1)
           /\ Batch(k, B)[B] = (k - 1) * B + B
           /\ Batch(1, B)[1] = 1
           /\ k # 1 => Batch(k, B)[1] = Batch(k - 1, B)[B] + 1
<1>1. 1 \in 1 .. B /\ B \in 1 .. B
    OBVIOUS
<1>2. ASSUME NEW j \in Nat \ {0}, NEW i \in 1 .. B
      PROVE  Batch(j, B)[i] = (j - 1) * B + i
    BY DEF Batch
<1>3. (k - 1) * B \in Nat
    OBVIOUS
<1>4. ASSUME NEW i \in 1 .. B
      PROVE  Batch(k, B)[i] = Batch(k, B)[1] + (i - 1)
    <2>1. Batch(k, B)[i] = (k - 1) * B + i
        BY <1>2
    <2>2. Batch(k, B)[1] = (k - 1) * B + 1
        BY <1>1, <1>2
    <2> QED
        BY <2>1, <2>2, <1>3
<1>5. Batch(k, B)[B] = (k - 1) * B + B
    BY <1>1, <1>2
<1>6. Batch(1, B)[1] = 1
    <2>1. Batch(1, B)[1] = (1 - 1) * B + 1
        BY <1>1, <1>2
    <2> QED
        BY <2>1
<1>7. ASSUME k # 1 PROVE Batch(k, B)[1] = Batch(k - 1, B)[B] + 1
    <2>1. k - 1 \in Nat \ {0}
        BY <1>7
    <2>2. Batch(k - 1, B)[B] = (k - 1 - 1) * B + B
        BY <1>1, <1>2, <2>1
    <2>3. Batch(k, B)[1] = (k - 1) * B + 1
        BY <1>1, <1>2
    <2>4. (k - 1 - 1) * B + B = (k - 1) * B
        OBVIOUS
    <2> QED
        BY <2>2, <2>3, <2>4, <1>3
<1> QED
    BY <1>4, <1>5, <1>6, <1>7

(* Every step keeps the types.                                             *)
LEMMA AnchorTypeStep == AnchorTypeOK /\ [AnchorNext]_anchorVars => AnchorTypeOK'
<1> SUFFICES ASSUME AnchorTypeOK, [AnchorNext]_anchorVars PROVE AnchorTypeOK'
    OBVIOUS
<1> USE AnchorAssumption DEF AnchorTypeOK
<1>0. ASSUME NEW p \in Anchorers
      PROVE  /\ SizeOf[p] \in Nat \ {0} /\ max[p] + 1 \in Nat \ {0}
             /\ leaves[p] \in Seq(Nat) /\ index[p] \in Nat
    OBVIOUS
<1>r. ASSUME NEW p \in Anchorers, Return(p)
      PROVE  /\ call' \in [Anchorers -> {"idle", "rows", "submit", "insert"}]
             /\ max' \in [Anchorers -> Nat]
             /\ leaves' \in [Anchorers -> Seq(Nat)]
             /\ index' \in [Anchorers -> Nat]
    <2>1. <<>> \in Seq(Nat)
        OBVIOUS
    <2> QED
        BY <1>r, <2>1 DEF Return
<1>1. CASE UNCHANGED anchorVars
    BY <1>1 DEF anchorVars
<1>2. CASE Grow
    BY <1>2 DEF Grow
<1>3. ASSUME NEW p \in Anchorers, ReadMax(p) PROVE AnchorTypeOK'
    <2>1. PICK m \in {0} \cup {a.batch : a \in anchors} :
              max' = [max EXCEPT ![p] = m]
        BY <1>3 DEF ReadMax
    <2>2. m \in Nat
        BY <2>1 DEF Anchored
    <2> QED
        BY <1>3, <2>1, <2>2 DEF ReadMax
<1>4. ASSUME NEW p \in Anchorers, ReadRows(p) PROVE AnchorTypeOK'
    <2> DEFINE batch == Batch(max[p] + 1, SizeOf[p])
               full == batch[SizeOf[p]] <= entries
    <2>1. batch \in Seq(Nat)
        BY <1>0, BatchType
    <2>2. Take(p, full, batch)
        BY <1>4 DEF ReadRows
    <2> HIDE DEF batch, full
    <2>3. CASE full
        <3>1. /\ call' = [call EXCEPT ![p] = "submit"]
              /\ leaves' = [leaves EXCEPT ![p] = batch]
              /\ UNCHANGED <<entries, anchors, rekor, max, index>>
            BY <2>2, <2>3 DEF Take
        <3> QED
            BY <2>1, <3>1
    <2>4. CASE ~full
        <3>1. Return(p) /\ UNCHANGED <<entries, anchors, rekor>>
            BY <2>2, <2>4 DEF Take
        <3> QED
            BY <3>1, <1>r
    <2> QED
        BY <2>3, <2>4
<1>5. ASSUME NEW p \in Anchorers, Submit(p) PROVE AnchorTypeOK'
    <2>1. Len(rekor) + 1 \in Nat
        OBVIOUS
    <2>2. index' \in [Anchorers -> Nat]
        BY <1>5, <2>1 DEF Submit
    <2>3. rekor' \in Seq(Submitted)
        <3> DEFINE entry == [batch |-> max[p] + 1, leaves |-> leaves[p]]
        <3>1. entry \in Submitted
            BY <1>0 DEF Submitted
        <3> QED
            <4>1. rekor' = rekor \/ rekor' = Append(rekor, entry)
                BY <1>5 DEF Submit, Log
            <4>2. rekor \in Seq(Submitted)
                OBVIOUS
            <4> HIDE DEF entry, AnchorTypeOK
            <4> QED
                BY ONLY <3>1, <4>1, <4>2
    <2>4. call' = [call EXCEPT ![p] = "insert"]
          /\ UNCHANGED <<entries, anchors, max, leaves>>
        BY <1>5 DEF Submit
    <2> QED
        BY <2>2, <2>3, <2>4
<1>6. ASSUME NEW p \in Anchorers, InsertAnchor(p) PROVE AnchorTypeOK'
    <2> DEFINE inserted == [batch |-> max[p] + 1, leaves |-> leaves[p],
                       index |-> index[p]]
    <2>1. inserted \in Anchored
        BY <1>0 DEF Anchored
    <2>2. \/ anchors' = anchors
          \/ /\ anchors' = anchors \cup {inserted}
             /\ \A a \in anchors : a.batch # inserted.batch
        BY <1>6 DEF InsertAnchor
    <2>3. Return(p) /\ UNCHANGED <<entries, rekor>>
        BY <1>6 DEF InsertAnchor
    <2> HIDE DEF inserted
    <2>4. anchors' \subseteq Anchored
        BY <2>1, <2>2
    <2>5. \A a, b \in anchors' : a.batch = b.batch => a = b
        BY <2>2
    <2> QED
        BY <2>3, <2>4, <2>5, <1>r
<1>7. ASSUME NEW p \in Anchorers, FailAnchor(p) PROVE AnchorTypeOK'
    BY <1>7, <1>r DEF FailAnchor
<1> QED
    BY <1>1, <1>2, <1>3, <1>4, <1>5, <1>6, <1>7 DEF AnchorNext

(* The types hold in every behaviour, batch_seq a primary key included.    *)
THEOREM AnchorTypeCorrect == AnchorSpec => []AnchorTypeOK
<1>1. AnchorInit => AnchorTypeOK
    BY DEF AnchorInit, AnchorTypeOK
<1> QED
    BY <1>1, AnchorTypeStep, PTL DEF AnchorSpec

(* What holds of a call in progress and of the two tables is kept by every *)
(* step, the overlapping calls' included.                                  *)
LEMMA InvStep ==
    ASSUME NEW B \in Nat, AllPass(B)
    PROVE  AnchorTypeOK /\ Inv(B) /\ [AnchorNext]_anchorVars => Inv(B)'
<1> SUFFICES ASSUME AnchorTypeOK, Inv(B), [AnchorNext]_anchorVars PROVE Inv(B)'
    OBVIOUS
<1> USE DEF Inv
<1>b. B \in Nat \ {0} /\ \A p \in Anchorers : SizeOf[p] = B
    BY DEF AllPass
<1>t. /\ entries \in Nat /\ anchors \subseteq Anchored
      /\ rekor \in Seq(Submitted) /\ Len(rekor) \in Nat
      /\ call \in [Anchorers -> {"idle", "rows", "submit", "insert"}]
      /\ max \in [Anchorers -> Nat] /\ index \in [Anchorers -> Nat]
      /\ leaves \in [Anchorers -> Seq(Nat)]
    BY DEF AnchorTypeOK
<1>r. ASSUME NEW p \in Anchorers, Return(p), UNCHANGED <<entries, rekor>>,
             anchors \subseteq anchors'
      PROVE  CallInv(B)' /\ (UNCHANGED anchors => Inv(B)')
    <2>1. \A q \in Anchorers :
              IF q = p THEN call'[q] = "idle" /\ index'[q] = 0
              ELSE /\ call'[q] = call[q] /\ max'[q] = max[q]
                   /\ leaves'[q] = leaves[q] /\ index'[q] = index[q]
        BY <1>r, <1>t DEF Return
    <2>2. CallInv(B)'
        BY <1>r, <2>1 DEF CallInv, Full
    <2>3. UNCHANGED anchors => TableInv(B)' /\ RekorInv(B)'
        BY <1>r, <2>1 DEF TableInv, RekorInv, Full
    <2> QED
        BY <2>2, <2>3
<1>1. CASE UNCHANGED anchorVars
    BY <1>1 DEF anchorVars, TableInv, CallInv, RekorInv, Full
<1>2. CASE Grow
    <2>1. /\ entries' = entries + 1
          /\ UNCHANGED <<anchors, rekor, call, max, leaves, index>>
        BY <1>2 DEF Grow
    <2>2. ASSUME NEW k \in Nat \ {0}, Full(k, B) PROVE Full(k, B)'
        <3>1. (k - 1) * B + B \in Nat
            BY <1>b
        <3> QED
            BY <2>1, <2>2, <3>1, <1>t DEF Full
    <2>3. TableInv(B)'
        BY <2>1, <2>2 DEF TableInv
    <2>4. \A p \in Anchorers : max[p] + 1 \in Nat \ {0}
        BY <1>t
    <2>5. CallInv(B)'
        BY <2>1, <2>2, <2>4 DEF CallInv
    <2>6. RekorInv(B)'
        BY <2>1 DEF RekorInv
    <2> QED
        BY <2>3, <2>5, <2>6
<1>3. ASSUME NEW p \in Anchorers, ReadMax(p) PROVE Inv(B)'
    <2>1. PICK m : /\ max' = [max EXCEPT ![p] = m]
                   /\ m = 0 \/ \E a \in anchors : a.batch = m
        BY <1>3 DEF ReadMax, IsLastBatch
    <2>2. /\ call[p] = "idle"
          /\ call' = [call EXCEPT ![p] = "rows"]
          /\ UNCHANGED <<entries, anchors, rekor, leaves, index>>
        BY <1>3 DEF ReadMax
    <2>3. TableInv(B)'
        BY <2>2 DEF TableInv, Full
    <2>4. CallInv(B)'
        BY <2>1, <2>2, <1>t DEF CallInv, Full
    <2>5. RekorInv(B)'
        BY <2>1, <2>2, <1>t DEF RekorInv
    <2> QED
        BY <2>3, <2>4, <2>5
<1>4. ASSUME NEW p \in Anchorers, ReadRows(p) PROVE Inv(B)'
    <2> DEFINE batch == Batch(max[p] + 1, B)
               full == batch[B] <= entries
    <2>1. Take(p, full, batch)
        BY <1>4, <1>b DEF ReadRows
    <2>2. full => Full(max[p] + 1, B)
        <3>1. max[p] + 1 \in Nat \ {0}
            BY <1>t
        <3> QED
            BY <3>1, <1>b, BatchEnds DEF Full
    <2> HIDE DEF full
    <2>3. CASE full
        <3>1. /\ call[p] = "rows"
              /\ call' = [call EXCEPT ![p] = "submit"]
              /\ leaves' = [leaves EXCEPT ![p] = batch]
              /\ UNCHANGED <<entries, anchors, rekor, max, index>>
            BY <2>1, <2>3 DEF Take
        <3> HIDE DEF batch
        <3>2. TableInv(B)'
            BY <3>1 DEF TableInv, Full
        <3>3. CallInv(B)'
            <4>1. ASSUME NEW q \in Anchorers, q # p
                  PROVE  /\ call'[q] = call[q] /\ leaves'[q] = leaves[q]
                         /\ max'[q] = max[q]
                BY <3>1, <4>1, <1>t
            <4>2. /\ leaves'[p] = Batch(max'[p] + 1, B)
                  /\ Full(max[p] + 1, B)' /\ call[p] # "idle"
                BY <3>1, <2>2, <2>3, <1>t DEF batch, Full
            <4> QED
                BY <3>1, <4>1, <4>2 DEF CallInv, Full
        <3>4. RekorInv(B)'
            BY <3>1, <1>t DEF RekorInv
        <3> QED
            BY <3>2, <3>3, <3>4
    <2>4. CASE ~full
        BY <2>1, <2>4, <1>r DEF Take
    <2> QED
        BY <2>3, <2>4
<1>5. ASSUME NEW p \in Anchorers, Submit(p) PROVE Inv(B)'
    <2> DEFINE entry == [batch |-> max[p] + 1, leaves |-> leaves[p]]
               n == Len(rekor)
    <2>1. /\ call[p] = "submit"
          /\ call' = [call EXCEPT ![p] = "insert"]
          /\ UNCHANGED <<entries, anchors, max, leaves>>
          /\ \/ rekor' = Append(rekor, entry) /\ index' = [index EXCEPT ![p] = n + 1]
             \/ rekor' = Append(rekor, entry) /\ UNCHANGED index
             \/ UNCHANGED <<rekor, index>>
        BY <1>5 DEF Submit, Log
    <2>2. TableInv(B)' /\ CallInv(B)'
        BY <2>1, <1>t DEF TableInv, CallInv, Full
    <2>3. leaves[p] = Batch(max[p] + 1, B)
        BY <2>1 DEF CallInv
    <2>4. ASSUME UNCHANGED <<rekor, index>> PROVE RekorInv(B)'
        BY <2>1, <2>4, <1>t DEF RekorInv
    <2>5. ASSUME rekor' = Append(rekor, entry) PROVE RekorInv(B)'
        <3>1. /\ DOMAIN rekor' = 1 .. n + 1
              /\ DOMAIN rekor = 1 .. n
              /\ \A i \in 1 .. n : rekor'[i] = rekor[i]
              /\ rekor'[n + 1] = entry
              /\ entry.batch = max[p] + 1 /\ entry.leaves = leaves[p]
            BY <2>5, <1>t
        <3> HIDE DEF entry, n
        <3>2. n + 1 \in DOMAIN rekor' /\ n \in Nat
              /\ \A i \in DOMAIN rekor : i \in DOMAIN rekor' /\ i \in 1 .. n
            BY <3>1, <1>t DEF n
        <3>3. \A i \in DOMAIN rekor' :
                  rekor'[i].leaves = Batch(rekor'[i].batch, B)
            <4>1. \A i \in 1 .. n : rekor'[i].leaves = Batch(rekor'[i].batch, B)
                BY <3>1 DEF RekorInv
            <4>2. rekor'[n + 1].leaves = Batch(rekor'[n + 1].batch, B)
                BY <3>1, <2>3
            <4>3. 1 .. n + 1 = (1 .. n) \cup {n + 1}
                BY <3>2
            <4> QED
                BY <4>1, <4>2, <4>3, <3>1
        <3>4. \A a \in anchors : a.index # 0 =>
                  /\ a.index \in DOMAIN rekor'
                  /\ rekor'[a.index] = [batch |-> a.batch, leaves |-> a.leaves]
            BY <3>1, <3>2 DEF RekorInv
        <3>5. ASSUME NEW q \in Anchorers, index'[q] # 0
              PROVE  /\ call'[q] = "insert"
                     /\ index'[q] \in DOMAIN rekor'
                     /\ rekor'[index'[q]] =
                            [batch |-> max[q] + 1, leaves |-> leaves[q]]
            <4>1. CASE q = p /\ index' = [index EXCEPT ![p] = n + 1]
                BY <4>1, <3>1, <3>2, <2>1, <1>t DEF entry
            <4>2. CASE index'[q] = index[q]
                <5>1. call[q] = "insert" /\ q # p
                    BY <3>5, <4>2, <2>1 DEF RekorInv
                <5>2. index[q] \in DOMAIN rekor
                      /\ rekor[index[q]] =
                             [batch |-> max[q] + 1, leaves |-> leaves[q]]
                    BY <3>5, <4>2 DEF RekorInv
                <5> QED
                    BY <5>1, <5>2, <4>2, <3>1, <3>2, <2>1, <1>t
            <4> QED
                BY <4>1, <4>2, <2>1, <2>5, <1>t DEF n
        <3> QED
            BY <3>3, <3>4, <3>5, <2>1 DEF RekorInv
    <2>6. RekorInv(B)'
        BY <2>1, <2>4, <2>5
    <2> QED
        BY <2>2, <2>6
<1>6. ASSUME NEW p \in Anchorers, InsertAnchor(p) PROVE Inv(B)'
    <2> DEFINE inserted == [batch |-> max[p] + 1, leaves |-> leaves[p],
                       index |-> index[p]]
    <2>1. /\ call[p] = "insert" /\ Return(p) /\ UNCHANGED <<entries, rekor>>
          /\ UNCHANGED anchors \/ anchors' = anchors \cup {inserted}
        BY <1>6 DEF InsertAnchor
    <2>2. CASE UNCHANGED anchors
        BY <2>1, <2>2, <1>r
    <2>3. CASE anchors' = anchors \cup {inserted}
        <3>1. /\ inserted.batch = max[p] + 1 /\ inserted.leaves = leaves[p]
              /\ inserted.index = index[p] /\ max[p] \in Nat
            BY <1>t
        <3> HIDE DEF inserted
        <3>2. /\ max[p] = 0 \/ \E a \in anchors : a.batch = max[p]
              /\ leaves[p] = Batch(max[p] + 1, B) /\ Full(max[p] + 1, B)
            BY <2>1 DEF CallInv
        <3>3. /\ inserted.batch \in Nat \ {0} /\ Full(inserted.batch, B)
              /\ inserted.leaves = Batch(inserted.batch, B)
              /\ inserted.batch # 1 => \E b \in anchors : b.batch = inserted.batch - 1
            BY <3>1, <3>2
        <3>4. TableInv(B)'
            BY <3>3, <2>1, <2>3 DEF TableInv, Full
        <3>5. CallInv(B)'
            BY <2>1, <2>3, <1>r
        <3>6. \A q \in Anchorers :
                  IF q = p THEN index'[q] = 0
                  ELSE /\ call'[q] = call[q] /\ max'[q] = max[q]
                       /\ leaves'[q] = leaves[q] /\ index'[q] = index[q]
            BY <2>1, <1>t DEF Return
        <3>7. RekorInv(B)'
            BY <3>1, <3>6, <2>1, <2>3 DEF RekorInv
        <3> QED
            BY <3>4, <3>5, <3>7
    <2> QED
        BY <2>1, <2>2, <2>3
<1>7. ASSUME NEW p \in Anchorers, FailAnchor(p) PROVE Inv(B)'
    BY <1>7, <1>r DEF FailAnchor
<1> QED
    BY <1>1, <1>2, <1>3, <1>4, <1>5, <1>6, <1>7 DEF AnchorNext

(* Callers that pass one batch size anchor the ledger's entries in order,  *)
(* none skipped and none twice.                                            *)
THEOREM ConsecutiveAnchors == OneBatchSize => (AnchorSpec => []Consecutive)
<1> SUFFICES ASSUME NEW B \in Nat, AllPass(B) PROVE AnchorSpec => []Consecutive
    BY DEF OneBatchSize
<1>1. AnchorInit => Inv(B)
    BY DEF AnchorInit, Inv, TableInv, CallInv, RekorInv
<1>2. AnchorTypeOK /\ Inv(B) => Consecutive
    <2> SUFFICES ASSUME AnchorTypeOK, Inv(B), NEW a \in anchors
                 PROVE  /\ \A i \in 1 .. Len(a.leaves) :
                               a.leaves[i] = a.leaves[1] + (i - 1)
                        /\ a.leaves[Len(a.leaves)] <= entries
                        /\ IF a.batch = 1 THEN a.leaves[1] = 1
                           ELSE \E b \in anchors :
                                    /\ b.batch = a.batch - 1
                                    /\ a.leaves[1] = b.leaves[Len(b.leaves)] + 1
        BY DEF Consecutive
    <2>1. B \in Nat \ {0}
        BY DEF AllPass
    <2>2. \A b \in anchors : /\ b.batch \in Nat \ {0}
                             /\ b.leaves = Batch(b.batch, B)
                             /\ Full(b.batch, B)
        BY DEF Inv, TableInv
    <2>3. a.batch # 1 => \E b \in anchors : b.batch = a.batch - 1
        BY DEF Inv, TableInv
    <2>4. ASSUME NEW b \in anchors
          PROVE  /\ Len(b.leaves) = B
                 /\ \A i \in 1 .. B : b.leaves[i] = b.leaves[1] + (i - 1)
                 /\ b.leaves[B] = (b.batch - 1) * B + B
                 /\ b.batch # 1 => b.leaves[1] = Batch(b.batch - 1, B)[B] + 1
        <3>1. b.batch \in Nat \ {0} /\ b.leaves = Batch(b.batch, B)
            BY <2>2
        <3> DEFINE k == b.batch
        <3> HIDE DEF k
        <3>2. /\ Len(Batch(k, B)) = B
              /\ \A i \in 1 .. B : Batch(k, B)[i] = Batch(k, B)[1] + (i - 1)
              /\ Batch(k, B)[B] = (k - 1) * B + B
              /\ k # 1 => Batch(k, B)[1] = Batch(k - 1, B)[B] + 1
            BY <2>1, <3>1, BatchType, BatchEnds DEF k
        <3> QED
            BY <3>1, <3>2 DEF k
    <2>5. a.leaves[Len(a.leaves)] <= entries
        BY <2>2, <2>4 DEF Full
    <2>6. ASSUME a.batch # 1
          PROVE  \E b \in anchors :
                     /\ b.batch = a.batch - 1
                     /\ a.leaves[1] = b.leaves[Len(b.leaves)] + 1
        <3>1. PICK b \in anchors : b.batch = a.batch - 1
            BY <2>3, <2>6
        <3>2. a.leaves[1] = Batch(a.batch - 1, B)[B] + 1
            BY <2>4, <2>6
        <3>3. Len(b.leaves) = B /\ b.leaves = Batch(b.batch, B)
            BY <2>2, <2>4
        <3> QED
            BY <3>1, <3>2, <3>3
    <2>7. a.batch = 1 => a.leaves[1] = 1
        <3>1. Batch(1, B)[1] = 1
            BY <2>1, BatchEnds
        <3> QED
            BY <2>2, <3>1
    <2>8. \A i \in 1 .. Len(a.leaves) : a.leaves[i] = a.leaves[1] + (i - 1)
        BY <2>4
    <2> QED
        BY <2>5, <2>6, <2>7, <2>8
<1>3. AnchorTypeOK /\ Inv(B) /\ [AnchorNext]_anchorVars => Inv(B)'
    BY InvStep
<1> QED
    BY <1>1, <1>2, <1>3, AnchorTypeCorrect, PTL DEF AnchorSpec

(* With one batch size Rekor holds one content for each batch, the         *)
(* table's, and an index in the table leads to it.                         *)
THEOREM OneContentPerBatch == OneBatchSize => (AnchorSpec => []RekorAgrees)
<1> SUFFICES ASSUME NEW B \in Nat, AllPass(B) PROVE AnchorSpec => []RekorAgrees
    BY DEF OneBatchSize
<1>1. AnchorInit => Inv(B)
    BY DEF AnchorInit, Inv, TableInv, CallInv, RekorInv
<1>2. AnchorTypeOK /\ Inv(B) => RekorAgrees
    <2> SUFFICES ASSUME AnchorTypeOK, Inv(B) PROVE RekorAgrees
        OBVIOUS
    <2>1. /\ \A i \in DOMAIN rekor : rekor[i].leaves = Batch(rekor[i].batch, B)
          /\ \A a \in anchors : a.leaves = Batch(a.batch, B)
        BY DEF Inv, RekorInv, TableInv
    <2>2. \A i \in DOMAIN rekor :
              rekor[i] = [batch |-> rekor[i].batch, leaves |-> rekor[i].leaves]
        <3>1. \A e \in Submitted : e = [batch |-> e.batch, leaves |-> e.leaves]
            BY DEF Submitted
        <3>2. \A i \in DOMAIN rekor : rekor[i] \in Submitted
            <4>1. rekor \in Seq(Submitted)
                BY DEF AnchorTypeOK
            <4> QED
                BY <4>1
        <3> QED
            BY <3>1, <3>2, Zenon
    <2>3. \A i, j \in DOMAIN rekor :
              rekor[i].batch = rekor[j].batch => rekor[i] = rekor[j]
        BY <2>1, <2>2
    <2>4. \A a \in anchors : a.index # 0 =>
              /\ a.index \in DOMAIN rekor
              /\ rekor[a.index] = [batch |-> a.batch, leaves |-> a.leaves]
        BY DEF Inv, RekorInv
    <2> QED
        BY <2>1, <2>3, <2>4 DEF RekorAgrees
<1>3. AnchorTypeOK /\ Inv(B) /\ [AnchorNext]_anchorVars => Inv(B)'
    BY InvStep
<1> QED
    BY <1>1, <1>2, <1>3, AnchorTypeCorrect, PTL DEF AnchorSpec

-----------------------------------------------------------------------------
(* verify_chain, on any table.  Its loop is a recursive function; the      *)
(* lemmas give what it computes, row by row: the hash held before a row is *)
(* that of the latest row read before it whose payload parses.             *)

(* What the proofs ask of a table.                                         *)
IsTable(t) ==
    /\ Len(t) \in Nat /\ DOMAIN t = 1 .. Len(t)
    /\ \A i \in DOMAIN t : t[i].seq \in Nat

(* The rows up to i that are read and parse; the hash held after row i.    *)
Read(t, start, i) == {j \in 1 .. i : t[j].seq >= start /\ t[j].parses}

Latest(S) == CHOOSE j \in S : \A k \in S : k <= j

Held(t, start, i) ==
    IF Read(t, start, i) = {} THEN Seed(t, start)
    ELSE t[Latest(Read(t, start, i))].hash

Sound(row, held, pk0) ==
    /\ row.parses /\ row.prev = held /\ row.prevcol = held
    /\ row.intact /\ row.key = pk0

Unsound(t, pk0, start, i) ==
    {t[j].seq : j \in {k \in 1 .. i :
        t[k].seq >= start /\ ~Sound(t[k], Held(t, start, k - 1), pk0)}}

Walked(t, pk0, start, i) ==
    [prev |-> Held(t, start, i), tainted |-> Unsound(t, pk0, start, i)]

LEMMA HeldStep ==
    ASSUME NEW t, IsTable(t), NEW start \in Nat, NEW i \in 1 .. Len(t)
    PROVE  Held(t, start, i) =
               IF t[i].seq >= start /\ t[i].parses THEN t[i].hash
               ELSE Held(t, start, i - 1)
<1>1. i \in Nat /\ 1 .. i = (1 .. i - 1) \cup {i} /\ i \notin 1 .. i - 1
    BY DEF IsTable
<1>2. CASE t[i].seq >= start /\ t[i].parses
    <2>1. i \in Read(t, start, i) /\ \A k \in Read(t, start, i) : k <= i /\ k \in Nat
        BY <1>1, <1>2 DEF Read
    <2>2. Latest(Read(t, start, i)) = i
        <3> DEFINE S == Read(t, start, i)
        <3> HIDE DEF S
        <3>1. i \in S /\ \A k \in S : k <= i /\ k \in Nat
            BY <2>1 DEF S
        <3>2. Latest(S) \in S /\ \A k \in S : k <= Latest(S)
            BY <3>1 DEF Latest
        <3> QED
            BY <1>1, <3>1, <3>2 DEF S
    <2> QED
        BY <1>2, <2>1, <2>2 DEF Held
<1>3. CASE ~(t[i].seq >= start /\ t[i].parses)
    <2>1. Read(t, start, i) = Read(t, start, i - 1)
        BY <1>1, <1>3 DEF Read
    <2> QED
        BY <1>3, <2>1 DEF Held
<1> QED
    BY <1>2, <1>3

LEMMA WalkedStep ==
    ASSUME NEW t, NEW pk0, IsTable(t), NEW start \in Nat, NEW i \in 1 .. Len(t)
    PROVE  Walked(t, pk0, start, i) =
               IF t[i].seq < start THEN Walked(t, pk0, start, i - 1)
               ELSE Walk(Walked(t, pk0, start, i - 1), t[i], pk0)
<1> DEFINE held == Held(t, start, i - 1)
           bad == {k \in 1 .. i :
                      t[k].seq >= start /\ ~Sound(t[k], Held(t, start, k - 1), pk0)}
           before == {k \in 1 .. i - 1 :
                      t[k].seq >= start /\ ~Sound(t[k], Held(t, start, k - 1), pk0)}
<1>1. i \in Nat /\ 1 .. i = (1 .. i - 1) \cup {i} /\ t[i].seq \in Nat
    BY DEF IsTable
<1>2. /\ Unsound(t, pk0, start, i) = {t[j].seq : j \in bad}
      /\ Unsound(t, pk0, start, i - 1) = {t[j].seq : j \in before}
    BY DEF Unsound
<1>3. bad = IF t[i].seq >= start /\ ~Sound(t[i], held, pk0)
            THEN before \cup {i} ELSE before
    BY <1>1
<1> HIDE DEF bad, before, held
<1>4. Unsound(t, pk0, start, i) =
          IF t[i].seq >= start /\ ~Sound(t[i], held, pk0)
          THEN Unsound(t, pk0, start, i - 1) \cup {t[i].seq}
          ELSE Unsound(t, pk0, start, i - 1)
    BY <1>2, <1>3
<1>5. Held(t, start, i) =
          IF t[i].seq >= start /\ t[i].parses THEN t[i].hash ELSE held
    BY HeldStep DEF held
<1>6. CASE t[i].seq < start
    BY <1>1, <1>4, <1>5, <1>6 DEF Walked, held
<1>7. CASE ~(t[i].seq < start)
    <2>1. t[i].seq >= start
        BY <1>1, <1>7
    <2>2. Held(t, start, i) = IF t[i].parses THEN t[i].hash ELSE held
        BY <1>5, <2>1
    <2>3. Unsound(t, pk0, start, i) =
              IF Sound(t[i], held, pk0) THEN Unsound(t, pk0, start, i - 1)
              ELSE Unsound(t, pk0, start, i - 1) \cup {t[i].seq}
        BY <1>4, <2>1
    <2> QED
        BY <1>7, <2>2, <2>3 DEF Walked, Walk, Sound, held
<1> QED
    BY <1>6, <1>7

(* verify_chain reports the rows that are not sound where they stand.      *)
LEMMA TaintedIs ==
    ASSUME NEW t, NEW pk0, IsTable(t), NEW start \in Nat
    PROVE  Tainted(t, pk0, start) = Unsound(t, pk0, start, Len(t))
<1> DEFINE n == Len(t)
           P(w) == w = [i \in 0 .. Len(t) |->
                            IF i = 0 THEN [prev |-> Seed(t, start), tainted |-> {}]
                            ELSE IF t[i].seq < start THEN w[i - 1]
                            ELSE Walk(w[i - 1], t[i], pk0)]
           q == [i \in 0 .. Len(t) |-> Walked(t, pk0, start, i)]
           w == CHOOSE w : P(w)
<1>n. n \in Nat
    BY DEF IsTable
<1>1. Tainted(t, pk0, start) = w[n].tainted
    BY DEF Tainted
<1>2. Walked(t, pk0, start, 0) = [prev |-> Seed(t, start), tainted |-> {}]
    <2>1. 1 .. 0 = {}
        OBVIOUS
    <2>2. Read(t, start, 0) = {} /\ Unsound(t, pk0, start, 0) = {}
        BY <2>1 DEF Read, Unsound
    <2> QED
        BY <2>2 DEF Walked, Held
<1>3. P(q)
    <2>1. ASSUME NEW i \in 0 .. n
          PROVE  q[i] = IF i = 0 THEN [prev |-> Seed(t, start), tainted |-> {}]
                        ELSE IF t[i].seq < start THEN q[i - 1]
                        ELSE Walk(q[i - 1], t[i], pk0)
        <3>1. CASE i = 0
            BY <1>n, <1>2, <3>1
        <3>2. CASE i # 0
            <4>1. i \in 1 .. n /\ i - 1 \in 0 .. n
                BY <1>n, <3>2
            <4>2. q[i] = Walked(t, pk0, start, i) /\ q[i - 1] = Walked(t, pk0, start, i - 1)
                BY <4>1
            <4> QED
                BY <3>2, <4>1, <4>2, WalkedStep
        <3> QED
            BY <3>1, <3>2
    <2> QED
        BY <2>1
<1>4. P(w)
    <2> HIDE DEF P
    <2> QED
        BY <1>3
<1> HIDE DEF w
<1>5. \A i \in 0 .. n : w[i] = Walked(t, pk0, start, i)
    <2> DEFINE S == {i \in 0 .. n : w[i] = Walked(t, pk0, start, i)}
    <2>1. 0 \in S
        BY <1>n, <1>2, <1>4
    <2>2. ASSUME NEW i \in 1 .. n, i - 1 \in S PROVE i \in S
        <3>1. i \in 0 .. n /\ i # 0
            BY <1>n
        <3>2. w[i - 1] = Walked(t, pk0, start, i - 1)
            BY <2>2
        <3>3. w[i] = IF t[i].seq < start THEN w[i - 1] ELSE Walk(w[i - 1], t[i], pk0)
            BY <1>4, <3>1
        <3> QED
            BY <3>1, <3>2, <3>3, WalkedStep
    <2> HIDE DEF S
    <2>3. \A i \in 0 .. n : i \in S
        BY <1>n, <2>1, <2>2, Upwards
    <2> QED
        BY <2>3 DEF S
<1> QED
    <2>1. w[n] = Walked(t, pk0, start, n)
        BY <1>n, <1>5
    <2> QED
        BY <1>1, <2>1 DEF Walked

-----------------------------------------------------------------------------
(* LedgerDamage, for every length of the ledger and every accident.        *)

Entry == [seq : Nat, hash : Nat, prevcol : Nat, prev : Nat,
          parses : BOOLEAN, intact : BOOLEAN, key : {Key, BadKey}]

DamageTypeOK ==
    /\ table \in Seq(Entry)
    /\ nextSeq \in 1 .. MaxSeq + 1
    /\ damage.kind \in DamageKinds \cup {"none"}
    /\ damage.at \in Nat /\ damage.next \in Nat
    /\ anchored \in Seq(Nat \ {0})

HitBy(r, kind) == damage.kind = kind /\ r.seq = damage.at

(* A row that embeds a hash the table does not hold any more.              *)
Cut(r) ==
    damage.kind \in {"rehashed", "lost"} /\ damage.next # 0 /\ r.seq = damage.next

Link(i) ==
    IF Cut(table[i]) THEN damage.at ELSE IF i = 1 THEN NoHash ELSE table[i - 1].hash

(* A row is as append() wrote it, but for what the accident did to it.     *)
AsWritten(i) ==
    LET r == table[i]
    IN  /\ r.hash = IF HitBy(r, "rehashed") THEN MaxSeq + r.seq ELSE r.seq
        /\ r.prev = Link(i)
        /\ r.prevcol = IF HitBy(r, "relinked") THEN MaxSeq + r.seq ELSE Link(i)
        /\ r.parses <=> ~HitBy(r, "garbled")
        /\ r.intact <=> ~HitBy(r, "altered")
        /\ r.key = IF HitBy(r, "altered") \/ HitBy(r, "rehashed")
                   THEN BadKey ELSE Key

Ascending ==
    /\ \A i \in DOMAIN table : 0 < table[i].seq /\ table[i].seq < nextSeq
    /\ \A i, j \in DOMAIN table : i < j => table[i].seq < table[j].seq

DamagePlaced ==
    /\ damage.kind = "none" => damage = NoDamage
    /\ damage.kind # "none" =>
           /\ 0 < damage.at /\ damage.at < nextSeq
           /\ (\E i \in DOMAIN table : table[i].seq = damage.at)
                  <=> damage.kind # "lost"
           /\ damage.next # 0 =>
                  \E i \in DOMAIN table :
                      /\ table[i].seq = damage.next /\ damage.at < damage.next
                      /\ \A j \in DOMAIN table : j < i => table[j].seq <= damage.at

DamageInv ==
    /\ DamageTypeOK
    /\ Ascending
    /\ DamagePlaced
    /\ \A i \in DOMAIN table : AsWritten(i)

(* The shape of the table.                                                 *)
LEMMA TableShape ==
    ASSUME DamageTypeOK
    PROVE  /\ Len(table) \in Nat /\ DOMAIN table = 1 .. Len(table)
           /\ table = <<>> <=> Len(table) = 0
           /\ \A i \in DOMAIN table : table[i] \in Entry
           /\ \A r \in Entry :
                  /\ r.seq \in Nat /\ r.hash \in Nat
                  /\ r.prev \in Nat /\ r.prevcol \in Nat
<1>1. /\ Len(table) \in Nat /\ DOMAIN table = 1 .. Len(table)
      /\ table = <<>> <=> Len(table) = 0
      /\ \A i \in DOMAIN table : table[i] \in Entry
    BY DEF DamageTypeOK
<1>2. \A r \in Entry : /\ r.seq \in Nat /\ r.hash \in Nat
                       /\ r.prev \in Nat /\ r.prevcol \in Nat
    BY DEF Entry
<1> QED
    BY <1>1, <1>2

LEMMA AppendStep == DamageInv /\ AppendEntry => DamageInv'
<1> SUFFICES ASSUME DamageInv, AppendEntry PROVE DamageInv'
    OBVIOUS
<1>n. PICK n \in Nat : n = Len(table)
    BY TableShape DEF DamageInv
<1>e. PICK e : e = [seq |-> nextSeq, hash |-> nextSeq, prevcol |-> Tip,
                    prev |-> Tip, parses |-> TRUE, intact |-> TRUE, key |-> Key]
    OBVIOUS
<1>t. /\ n \in Nat /\ DOMAIN table = 1 .. n
      /\ table = <<>> <=> n = 0
      /\ \A i \in 1 .. n : table[i] \in Entry /\ table[i].seq \in Nat /\ table[i].hash \in Nat
      /\ MaxSeq \in Nat /\ nextSeq \in 1 .. MaxSeq + 1
      /\ table \in Seq(Entry)
    BY <1>n, TableShape, MaxSeqAssumption DEF DamageInv, DamageTypeOK
<1>1. /\ table' = Append(table, e)
      /\ nextSeq <= MaxSeq /\ nextSeq' = nextSeq + 1
      /\ damage' = damage /\ anchored' = anchored
    BY <1>e DEF AppendEntry
<1>2. e \in Entry
    <2>1. Tip \in Nat
        BY <1>t DEF Tip, NoHash
    <2> QED
        BY <1>e, <1>t, <2>1 DEF Entry
<1>3. /\ e.seq = nextSeq /\ e.hash = nextSeq /\ e.prev = Tip /\ e.prevcol = Tip
      /\ e.parses /\ e.intact /\ e.key = Key
    BY <1>e
<1>4. /\ table' \in Seq(Entry) /\ Len(table') = n + 1
      /\ DOMAIN table' = 1 .. n + 1
      /\ \A i \in 1 .. n : table'[i] = table[i]
      /\ table'[n + 1] = e
    BY <1>n, <1>t, <1>1, <1>2
<1>5. 1 .. n + 1 = (1 .. n) \cup {n + 1}
    BY <1>t
<1>6. DamageTypeOK'
    BY <1>t, <1>1, <1>4 DEF DamageInv, DamageTypeOK
<1>7. Ascending'
    <2>1. /\ \A i \in 1 .. n : 0 < table[i].seq /\ table[i].seq < nextSeq
          /\ \A i, j \in 1 .. n : i < j => table[i].seq < table[j].seq
        BY <1>t DEF DamageInv, Ascending
    <2> QED
        BY <2>1, <1>t, <1>1, <1>3, <1>4 DEF Ascending
<1>8. damage.kind # "none" => damage.at < nextSeq /\ damage.next < nextSeq
    <2>1. damage.kind # "none" => damage.at < nextSeq
        BY DEF DamageInv, DamagePlaced
    <2>2. damage.kind # "none" /\ damage.next # 0 => damage.next < nextSeq
        BY DEF DamageInv, DamagePlaced, Ascending
    <2> QED
        BY <1>t, <2>1, <2>2
<1>9. DamagePlaced'
    <2>1. CASE damage.kind = "none"
        BY <1>1, <2>1 DEF DamageInv, DamagePlaced
    <2>2. CASE damage.kind # "none"
        <3>1. 0 < damage.at /\ damage.at < nextSeq'
            BY <1>t, <1>1, <1>8, <2>2 DEF DamageInv, DamagePlaced, DamageTypeOK
        <3>2. (\E i \in DOMAIN table' : table'[i].seq = damage.at)
                  <=> damage.kind # "lost"
            <4>1. (\E i \in 1 .. n : table[i].seq = damage.at) <=> damage.kind # "lost"
                BY <1>t, <2>2 DEF DamageInv, DamagePlaced
            <4>2. e.seq # damage.at
                BY <1>t, <1>3, <1>8, <2>2 DEF DamageInv, DamageTypeOK
            <4> QED
                BY <1>4, <1>5, <4>1, <4>2
        <3>3. ASSUME damage.next # 0
              PROVE  \E i \in DOMAIN table' :
                         /\ table'[i].seq = damage.next /\ damage.at < damage.next
                         /\ \A j \in DOMAIN table' : j < i => table'[j].seq <= damage.at
            <4>1. PICK i \in 1 .. n :
                         /\ table[i].seq = damage.next /\ damage.at < damage.next
                         /\ \A j \in 1 .. n : j < i => table[j].seq <= damage.at
                BY <1>t, <2>2, <3>3 DEF DamageInv, DamagePlaced
            <4>2. \A j \in 1 .. n + 1 : j < i => j \in 1 .. n
                BY <1>t
            <4> QED
                BY <1>4, <1>5, <4>1, <4>2
        <3> QED
            BY <1>1, <2>2, <3>1, <3>2, <3>3 DEF DamagePlaced
    <2> QED
        BY <2>1, <2>2
<1>10. ASSUME NEW i \in 1 .. n PROVE AsWritten(i)'
    <2>1. table'[i] = table[i] /\ (i # 1 => table'[i - 1] = table[i - 1])
        BY <1>t, <1>4
    <2>2. Link(i)' = Link(i)
        BY <1>1, <2>1 DEF Link, Cut
    <2>3. AsWritten(i)
        BY <1>t DEF DamageInv
    <2> QED
        BY <1>1, <2>1, <2>2, <2>3 DEF AsWritten, HitBy
<1>11. AsWritten(n + 1)'
    <2>1. ~HitBy(e, "rehashed") /\ ~HitBy(e, "relinked") /\ ~HitBy(e, "garbled")
          /\ ~HitBy(e, "altered")
        BY <1>t, <1>3, <1>8 DEF HitBy, DamageInv, DamageTypeOK
    <2>2. ~Cut(e)
        BY <1>t, <1>3, <1>8 DEF Cut, DamageInv, DamageTypeOK
    <2>3. Link(n + 1)' = Tip
        <3>1. n # 0 => n + 1 # 1 /\ (n + 1) - 1 = n /\ table'[n] = table[n]
            BY <1>t, <1>4
        <3>2. Link(n + 1)' = IF n + 1 = 1 THEN NoHash ELSE table'[(n + 1) - 1].hash
            BY <1>1, <1>4, <2>2 DEF Link, Cut
        <3> QED
            BY <1>n, <1>t, <3>1, <3>2 DEF Tip
    <2> QED
        BY <1>1, <1>3, <1>4, <2>1, <2>3 DEF AsWritten, HitBy
<1> QED
    BY <1>4, <1>5, <1>6, <1>7, <1>9, <1>10, <1>11 DEF DamageInv

(* A table without damage.                                                 *)
LEMMA Undamaged ==
    ASSUME DamageInv, damage = NoDamage, NEW i \in DOMAIN table
    PROVE  LET r == table[i]
           IN  /\ r.hash = r.seq /\ r.parses /\ r.intact /\ r.key = Key
               /\ r.prev = IF i = 1 THEN 0 ELSE table[i - 1].seq
               /\ r.prevcol = r.prev
<1>1. damage.kind = "none" /\ \A r : ~Cut(r) /\ \A k \in DamageKinds : ~HitBy(r, k)
    BY DEF NoDamage, Cut, HitBy, DamageKinds
<1>2. \A j \in DOMAIN table : table[j].hash = table[j].seq
    BY <1>1 DEF DamageInv, AsWritten, DamageKinds
<1>3. Link(i) = IF i = 1 THEN 0 ELSE table[i - 1].seq
    <2>1. i # 1 => i - 1 \in DOMAIN table
        BY TableShape DEF DamageInv
    <2> QED
        BY <1>1, <1>2, <2>1 DEF Link, NoHash
<1>4. AsWritten(i)
    BY DEF DamageInv
<1> QED
    BY <1>1, <1>2, <1>3, <1>4 DEF AsWritten, DamageKinds

LEMMA LossStep ==
    ASSUME DamageInv, NEW i \in DOMAIN table, Accident(i, "lost")
    PROVE  DamageInv'
<1>n. PICK n \in Nat : n = Len(table)
    BY TableShape DEF DamageInv
<1>t. /\ table \in Seq(Entry) /\ DOMAIN table = 1 .. n /\ i \in 1 .. n
      /\ \A j \in 1 .. n : table[j] \in Entry /\ table[j].seq \in Nat
      /\ MaxSeq \in Nat /\ nextSeq \in 1 .. MaxSeq + 1
      /\ anchored \in Seq(Nat \ {0})
    BY <1>n, TableShape, MaxSeqAssumption DEF DamageInv, DamageTypeOK
<1>1. /\ damage = NoDamage
      /\ table' = SubSeq(table, 1, i - 1) \o SubSeq(table, i + 1, n)
      /\ damage' = [kind |-> "lost", at |-> table[i].seq, next |-> SeqAfter(i)]
      /\ nextSeq' = nextSeq /\ anchored' = anchored
    BY <1>n DEF Accident
<1>2. /\ table' \in Seq(Entry) /\ Len(table') = n - 1 /\ DOMAIN table' = 1 .. n - 1
      /\ \A j \in 1 .. n - 1 : table'[j] = IF j < i THEN table[j] ELSE table[j + 1]
    <2> DEFINE a == SubSeq(table, 1, i - 1)
               b == SubSeq(table, i + 1, n)
    <2>1. /\ a \in Seq(Entry) /\ Len(a) = i - 1
          /\ \A j \in 1 .. i - 1 : a[j] = table[j]
        BY <1>n, <1>t
    <2>2. /\ b \in Seq(Entry) /\ Len(b) = n - i
          /\ \A j \in 1 .. n - i : b[j] = table[i + j]
        BY <1>n, <1>t
    <2> HIDE DEF a, b
    <2>3. /\ a \o b \in Seq(Entry) /\ Len(a \o b) = n - 1
          /\ \A j \in 1 .. n - 1 : (a \o b)[j] = IF j < i THEN a[j] ELSE b[j - (i - 1)]
        <3>1. /\ a \o b \in Seq(Entry) /\ Len(a \o b) = Len(a) + Len(b)
              /\ \A j \in 1 .. Len(a) + Len(b) :
                     (a \o b)[j] = IF j <= Len(a) THEN a[j] ELSE b[j - Len(a)]
            BY <2>1, <2>2
        <3>2. Len(a) + Len(b) = n - 1 /\ \A j \in 1 .. n - 1 : j <= Len(a) <=> j < i
            BY <1>t, <2>1, <2>2
        <3> QED
            BY <2>1, <3>1, <3>2
    <2>4. ASSUME NEW j \in 1 .. n - 1, ~(j < i)
          PROVE  b[j - (i - 1)] = table[j + 1]
        <3>1. j - (i - 1) \in 1 .. n - i /\ i + (j - (i - 1)) = j + 1
            BY <1>t, <2>4
        <3> QED
            BY <2>2, <3>1
    <2>5. ASSUME NEW j \in 1 .. n - 1, j < i PROVE a[j] = table[j]
        BY <1>t, <2>1, <2>5
    <2>6. table' = a \o b
        BY <1>1 DEF a, b
    <2>7. DOMAIN (a \o b) = 1 .. n - 1
        BY <2>3
    <2> QED
        BY <2>3, <2>4, <2>5, <2>6, <2>7
<1>3. /\ \A j \in 1 .. n : 0 < table[j].seq /\ table[j].seq < nextSeq
      /\ \A j, k \in 1 .. n : j < k => table[j].seq < table[k].seq
    BY <1>t DEF DamageInv, Ascending
<1>4. /\ damage'.kind = "lost" /\ damage'.at = table[i].seq
      /\ damage'.next = IF i < n THEN table[i + 1].seq ELSE 0
    BY <1>n, <1>1 DEF SeqAfter
<1>5. i < n => i + 1 \in 1 .. n /\ i \in 1 .. n - 1
    BY <1>t
<1>6. DamageTypeOK'
    BY <1>1, <1>2, <1>4, <1>5, <1>t DEF DamageTypeOK, DamageKinds
<1>7. Ascending'
    <2>1. ASSUME NEW j \in 1 .. n - 1
          PROVE  0 < table'[j].seq /\ table'[j].seq < nextSeq
        <3>1. j \in 1 .. n /\ j + 1 \in 1 .. n
            BY <1>t
        <3> QED
            BY <1>2, <1>3, <3>1
    <2>2. ASSUME NEW j \in 1 .. n - 1, NEW k \in 1 .. n - 1, j < k
          PROVE  table'[j].seq < table'[k].seq
        <3>1. /\ j \in 1 .. n /\ k \in 1 .. n /\ j + 1 \in 1 .. n /\ k + 1 \in 1 .. n
              /\ j < k + 1 /\ j + 1 < k + 1 /\ (k < i => j < i)
            BY <1>t, <2>2
        <3>2. /\ table[j].seq < table[k].seq
              /\ table[j].seq < table[k + 1].seq
              /\ table[j + 1].seq < table[k + 1].seq
            BY <1>3, <3>1, <2>2
        <3>3. /\ table'[j] = IF j < i THEN table[j] ELSE table[j + 1]
              /\ table'[k] = IF k < i THEN table[k] ELSE table[k + 1]
            BY <1>2
        <3> QED
            BY <3>1, <3>2, <3>3
    <2> QED
        BY <1>1, <1>2, <2>1, <2>2 DEF Ascending
<1>8. \A j \in 1 .. n - 1 : IF j < i THEN table'[j].seq < table[i].seq
                            ELSE table'[j].seq > table[i].seq
    <2> TAKE j \in 1 .. n - 1
    <2>1. j \in 1 .. n /\ j + 1 \in 1 .. n
        BY <1>t
    <2>2. j < i => table[j].seq < table[i].seq
        BY <1>3, <1>t, <2>1
    <2>3. ~(j < i) => table[i].seq < table[j + 1].seq
        BY <1>3, <1>t, <2>1
    <2> QED
        BY <1>2, <1>t, <2>1, <2>2, <2>3
<1>9. DamagePlaced'
    <2>1. 0 < table[i].seq /\ table[i].seq < nextSeq
        BY <1>3, <1>t
    <2>2. ~ \E j \in 1 .. n - 1 : table'[j].seq = table[i].seq
        BY <1>8, <1>2, <1>t
    <2>3. ASSUME damage'.next # 0
          PROVE  \E k \in 1 .. n - 1 :
                     /\ table'[k].seq = damage'.next /\ table[i].seq < damage'.next
                     /\ \A j \in 1 .. n - 1 : j < k => table'[j].seq <= table[i].seq
        <3>1. i < n
            BY <2>3, <1>4
        <3>2. table'[i] = table[i + 1] /\ damage'.next = table[i + 1].seq
            BY <3>1, <1>2, <1>4, <1>5, <1>t
        <3>3. table[i].seq < table[i + 1].seq
            BY <3>1, <1>3, <1>5, <1>t
        <3>4. \A j \in 1 .. n - 1 : j < i => table'[j].seq <= table[i].seq
            <4>1. \A j \in 1 .. n - 1 : j < i => j \in 1 .. n /\ table'[j] = table[j]
                BY <1>2, <1>t
            <4> QED
                BY <4>1, <1>8, <1>t
        <3> QED
            BY <3>1, <3>2, <3>3, <3>4, <1>5
    <2> QED
        BY <1>1, <1>2, <1>4, <2>1, <2>2, <2>3 DEF DamagePlaced
<1>10. ASSUME NEW j \in 1 .. n - 1 PROVE AsWritten(j)'
    <2>0. j \in 1 .. n /\ j + 1 \in 1 .. n /\ j + 1 # 1 /\ (j + 1) - 1 = j
        BY <1>t
    <2> DEFINE k == IF j < i THEN j ELSE j + 1
    <2>1. /\ k \in 1 .. n /\ table'[j] = table[k]
          /\ table[k].hash = table[k].seq /\ table[k].parses /\ table[k].intact
          /\ table[k].key = Key /\ table[k].prevcol = table[k].prev
          /\ table[k].prev = IF k = 1 THEN 0 ELSE table[k - 1].seq
        <3>1. k \in DOMAIN table
            BY <1>t, <2>0
        <3>2. table'[j] = table[k]
            BY <1>2
        <3> HIDE DEF k
        <3> QED
            BY <1>1, <1>t, <3>1, <3>2, Undamaged
    <2>2. \A r : /\ ~HitBy(r, "rehashed")' /\ ~HitBy(r, "relinked")'
                 /\ ~HitBy(r, "garbled")' /\ ~HitBy(r, "altered")'
        BY <1>4 DEF HitBy
    <2>3. Link(j)' = table[k].prev
        <3>1. CASE j < i
            <4>1. table'[j].seq < table[i].seq
                BY <1>8, <3>1
            <4>2. i < n => table[i].seq < table[i + 1].seq
                BY <1>3, <1>5, <1>t
            <4>3. ~Cut(table[j])'
                BY <1>2, <1>4, <1>t, <1>5, <2>0, <3>1, <4>1, <4>2 DEF Cut
            <4>4. j # 1 => j - 1 \in 1 .. n - 1 /\ j - 1 < i /\ j - 1 \in 1 .. n
                BY <1>t, <3>1
            <4>5. j # 1 => table'[j - 1].hash = table[j - 1].seq
                <5>1. j # 1 => table'[j - 1] = table[j - 1]
                    BY <1>2, <4>4
                <5> QED
                    BY <1>1, <1>t, <4>4, <5>1, Undamaged
            <4> QED
                BY <2>1, <3>1, <4>3, <4>5 DEF Link, NoHash
        <3>2. CASE j = i
            <4>1. Cut(table[j])' /\ k = i + 1 /\ table[k].prev = table[i].seq
                <5>1. i < n
                    BY <1>t, <3>2
                <5>2. table[i + 1].seq # 0
                    BY <1>3, <1>5, <5>1
                <5>3. k = i + 1 /\ k # 1 /\ k - 1 = i
                    BY <3>2, <1>t
                <5>4. table'[j].seq = damage'.next /\ damage'.next # 0
                    BY <1>4, <2>1, <5>1, <5>2, <5>3
                <5> HIDE DEF k
                <5> QED
                    BY <1>4, <2>1, <5>3, <5>4 DEF Cut
            <4> QED
                BY <1>4, <4>1 DEF Link
        <3>3. CASE j > i
            <4>1. /\ i + 1 \in 1 .. n /\ i < n /\ i + 1 < j + 1 /\ j - 1 \in 1 .. n - 1
                  /\ ~(j - 1 < i) /\ j # 1 /\ k = j + 1
                BY <1>t, <3>3
            <4>2. table[i + 1].seq < table[j + 1].seq
                BY <1>3, <2>0, <4>1
            <4>3. ~Cut(table[j])'
                BY <1>4, <1>t, <2>0, <2>1, <4>1, <4>2 DEF Cut
            <4>4. table'[j - 1] = table[j]
                <5>1. table'[j - 1] = table[(j - 1) + 1]
                    BY <1>2, <4>1
                <5> QED
                    BY <5>1, <2>0
            <4>5. table[j].hash = table[j].seq
                BY <1>1, <1>t, <2>0, Undamaged
            <4>6. table[k].prev = table[j].seq
                BY <2>0, <2>1, <4>1
            <4> QED
                BY <4>1, <4>3, <4>4, <4>5, <4>6 DEF Link
        <3> QED
            BY <3>1, <3>2, <3>3, <1>t
    <2> HIDE DEF k
    <2> QED
        BY <2>1, <2>2, <2>3 DEF AsWritten
<1> QED
    BY <1>2, <1>6, <1>7, <1>9, <1>10 DEF DamageInv

LEMMA HitStep ==
    ASSUME DamageInv, NEW i \in DOMAIN table, NEW kind \in DamageKinds \ {"lost"},
           Accident(i, kind)
    PROVE  DamageInv'
<1>n. PICK n \in Nat : n = Len(table)
    BY TableShape DEF DamageInv
<1>t. /\ table \in Seq(Entry) /\ DOMAIN table = 1 .. n /\ i \in 1 .. n
      /\ \A j \in 1 .. n : /\ table[j] \in Entry
                           /\ table[j].seq \in Nat /\ table[j].hash \in Nat
      /\ MaxSeq \in Nat /\ nextSeq \in 1 .. MaxSeq + 1
      /\ anchored \in Seq(Nat \ {0})
    BY <1>n, TableShape, MaxSeqAssumption DEF DamageInv, DamageTypeOK
<1>1. /\ damage = NoDamage
      /\ table' = [table EXCEPT ![i] = Damaged(table[i], kind)]
      /\ damage' = [kind |-> kind, at |-> table[i].seq, next |-> SeqAfter(i)]
      /\ nextSeq' = nextSeq /\ anchored' = anchored
    BY DEF Accident
<1>k. kind \in {"garbled", "altered", "relinked", "rehashed"}
    BY DEF DamageKinds
<1> DEFINE old == table[i]
           new0 == Damaged(old, kind)
<1>2. /\ new0 \in Entry /\ new0.seq = old.seq /\ new0.prev = old.prev
      /\ new0.hash = IF kind = "rehashed" THEN MaxSeq + old.seq ELSE old.hash
      /\ new0.prevcol = IF kind = "relinked" THEN MaxSeq + old.seq ELSE old.prevcol
      /\ new0.parses = IF kind = "garbled" THEN FALSE ELSE old.parses
      /\ new0.intact = IF kind = "altered" THEN FALSE ELSE old.intact
      /\ new0.key = IF kind \in {"altered", "rehashed"} THEN BadKey ELSE old.key
    <2>1. old \in Entry /\ old.seq \in Nat
        BY <1>t
    <2> HIDE DEF old
    <2>2. MaxSeq + old.seq \in Nat
        BY <1>t, <2>1
    <2>3. CASE kind = "garbled"
        BY <2>1, <2>3 DEF Damaged, Entry
    <2>4. CASE kind = "altered"
        BY <2>1, <2>4 DEF Damaged, Entry
    <2>5. CASE kind = "relinked"
        BY <2>1, <2>2, <2>5 DEF Damaged, Entry
    <2>6. CASE kind = "rehashed"
        BY <2>1, <2>2, <2>6 DEF Damaged, Entry
    <2> QED
        BY <1>k, <2>3, <2>4, <2>5, <2>6
<1>3. /\ table' \in Seq(Entry) /\ Len(table') = n /\ DOMAIN table' = 1 .. n
      /\ table'[i] = new0
      /\ \A j \in 1 .. n : j # i => table'[j] = table[j]
      /\ \A j \in 1 .. n : table'[j].seq = table[j].seq
    <2> HIDE DEF new0
    <2>1. table' = [table EXCEPT ![i] = new0]
        BY <1>1 DEF new0
    <2> QED
        BY <1>n, <1>t, <1>2, <2>1
<1>4. /\ \A j \in 1 .. n : 0 < table[j].seq /\ table[j].seq < nextSeq
      /\ \A j, k \in 1 .. n : j < k => table[j].seq < table[k].seq
    BY <1>t DEF DamageInv, Ascending
<1>5. /\ damage'.kind = kind /\ damage'.at = table[i].seq
      /\ damage'.next = IF i < n THEN table[i + 1].seq ELSE 0
    BY <1>n, <1>1 DEF SeqAfter
<1>6. i < n => i + 1 \in 1 .. n /\ (i + 1) - 1 = i /\ i + 1 # 1
    BY <1>t
<1>7. DamageTypeOK'
    BY <1>1, <1>3, <1>5, <1>6, <1>t, <1>k DEF DamageTypeOK, DamageKinds
<1>8. Ascending'
    BY <1>1, <1>3, <1>4 DEF Ascending
<1>9. DamagePlaced'
    <2>1. 0 < table[i].seq /\ table[i].seq < nextSeq
        BY <1>4, <1>t
    <2>2. kind # "lost" /\ kind # "none" /\ table'[i].seq = table[i].seq
        BY <1>3, <1>k, <1>t
    <2>3. ASSUME damage'.next # 0
          PROVE  \E k \in 1 .. n :
                     /\ table'[k].seq = damage'.next /\ table[i].seq < damage'.next
                     /\ \A j \in 1 .. n : j < k => table'[j].seq <= table[i].seq
        <3>1. i < n
            BY <2>3, <1>5
        <3>2. table[i].seq < table[i + 1].seq
            BY <3>1, <1>4, <1>6, <1>t
        <3>3. \A j \in 1 .. n : j < i + 1 => table[j].seq <= table[i].seq
            <4>1. \A j \in 1 .. n : j < i + 1 => j = i \/ j < i
                BY <1>t
            <4> QED
                BY <4>1, <1>4, <1>t
        <3> QED
            BY <3>1, <3>2, <3>3, <1>3, <1>5, <1>6
    <2> QED
        BY <1>1, <1>3, <1>5, <1>t, <2>1, <2>2, <2>3 DEF DamagePlaced
<1>10. \A j, k \in 1 .. n : table[j].seq = table[k].seq => j = k
    <2> TAKE j, k \in 1 .. n
    <2>1. j < k \/ k < j \/ j = k
        OBVIOUS
    <2> QED
        BY <2>1, <1>4, <1>t
<1>11. ASSUME NEW j \in 1 .. n PROVE AsWritten(j)'
    <2>1. /\ table[j].hash = table[j].seq /\ table[j].parses /\ table[j].intact
          /\ table[j].key = Key /\ table[j].prevcol = table[j].prev
          /\ table[j].prev = IF j = 1 THEN 0 ELSE table[j - 1].seq
        BY <1>1, <1>t, Undamaged
    <2>2. Link(j)' = table[j].prev
        <3>1. CASE j = 1
            <4>1. ~Cut(table[j])'
                <5>1. i < n => table[1].seq < table[i + 1].seq
                    <6>1. i < n => 1 \in 1 .. n /\ 1 < i + 1
                        BY <1>t
                    <6> QED
                        BY <6>1, <1>4, <1>6
                <5> QED
                    BY <5>1, <1>3, <1>5, <1>6, <1>t, <3>1 DEF Cut
            <4> QED
                BY <2>1, <3>1, <4>1 DEF Link, NoHash
        <3>2. CASE j # 1
            <4>1. j - 1 \in 1 .. n
                BY <1>t, <3>2
            <4>2. table[j - 1].hash = table[j - 1].seq
                BY <1>1, <1>t, <4>1, Undamaged
            <4>3. CASE j - 1 = i /\ kind = "rehashed"
                <5>1. i < n /\ j = i + 1
                    BY <1>t, <4>3
                <5>2. table[j].seq # 0
                    BY <1>4
                <5>3. Cut(table[j])'
                    BY <1>3, <1>5, <4>3, <5>1, <5>2 DEF Cut
                <5> QED
                    BY <1>5, <2>1, <3>2, <4>3, <5>3 DEF Link
            <4>4. CASE ~(j - 1 = i /\ kind = "rehashed")
                <5>1. ~Cut(table[j])'
                    <6>1. CASE kind = "rehashed"
                        <7>1. i < n => j # i + 1
                            BY <4>4, <6>1, <1>t
                        <7>2. i < n => table[j].seq # table[i + 1].seq
                            BY <7>1, <1>6, <1>10
                        <7> QED
                            BY <7>2, <1>3, <1>5 DEF Cut
                    <6>2. CASE kind # "rehashed"
                        BY <6>2, <1>5, <1>k DEF Cut
                    <6> QED
                        BY <6>1, <6>2
                <5>2. table'[j - 1].hash = table[j - 1].seq
                    <6>1. CASE j - 1 = i
                        BY <6>1, <1>2, <1>3, <4>2, <4>4
                    <6>2. CASE j - 1 # i
                        BY <6>2, <1>3, <4>1, <4>2
                    <6> QED
                        BY <6>1, <6>2
                <5> QED
                    BY <2>1, <3>2, <5>1, <5>2 DEF Link
            <4> QED
                BY <4>3, <4>4
        <3> QED
            BY <3>1, <3>2
    <2>3. CASE j = i
        <3>1. \A what : HitBy(table[j], what)' <=> what = kind
            BY <1>3, <1>5, <2>3 DEF HitBy
        <3>2. /\ table'[j].seq = table[j].seq /\ table'[j].prev = table[j].prev
              /\ table'[j].hash = IF kind = "rehashed" THEN MaxSeq + table[j].seq ELSE table[j].seq
              /\ table'[j].prevcol = IF kind = "relinked" THEN MaxSeq + table[j].seq ELSE table[j].prev
              /\ table'[j].parses <=> kind # "garbled"
              /\ table'[j].intact <=> kind # "altered"
              /\ table'[j].key = IF kind \in {"altered", "rehashed"} THEN BadKey ELSE Key
            BY <1>2, <1>3, <2>1, <2>3
        <3> QED
            BY <2>2, <3>1, <3>2 DEF AsWritten
    <2>4. CASE j # i
        <3>1. \A what : ~HitBy(table[j], what)'
            BY <1>3, <1>5, <1>10, <1>t, <2>4 DEF HitBy
        <3>2. table'[j] = table[j]
            BY <1>3, <2>4
        <3> QED
            BY <2>1, <2>2, <3>1, <3>2 DEF AsWritten
    <2> QED
        BY <2>3, <2>4
<1> QED
    BY <1>3, <1>7, <1>8, <1>9, <1>11 DEF DamageInv

LEMMA DamageStep == DamageInv /\ [DamageNext]_damageVars => DamageInv'
<1> SUFFICES ASSUME DamageInv, [DamageNext]_damageVars PROVE DamageInv'
    OBVIOUS
<1>1. ASSUME UNCHANGED <<table, nextSeq, damage>>, anchored' \in Seq(Nat \ {0})
      PROVE  DamageInv'
    BY <1>1 DEF DamageInv, DamageTypeOK, Ascending, DamagePlaced, AsWritten, HitBy,
                Cut, Link
<1>2. CASE UNCHANGED damageVars
    BY <1>1, <1>2 DEF damageVars, DamageInv, DamageTypeOK
<1>3. ASSUME NEW size \in DOMAIN table, AnchorFirst(size) PROVE DamageInv'
    <2>1. FirstHashes(size) \in Seq(Nat \ {0})
        <3>1. size \in Nat /\ \A i \in 1 .. size : i \in DOMAIN table
            BY TableShape DEF DamageInv
        <3>2. \A i \in DOMAIN table : table[i].hash \in Nat \ {0}
            <4> TAKE i \in DOMAIN table
            <4>1. AsWritten(i) /\ 0 < table[i].seq /\ table[i].seq \in Nat
                BY TableShape DEF DamageInv, Ascending
            <4> QED
                BY <4>1, MaxSeqAssumption DEF AsWritten
        <3> QED
            BY <3>1, <3>2 DEF FirstHashes
    <2> QED
        BY <1>1, <1>3, <2>1 DEF AnchorFirst
<1>4. ASSUME NEW i \in DOMAIN table, NEW kind \in DamageKinds, Accident(i, kind)
      PROVE  DamageInv'
    BY <1>4, LossStep, HitStep
<1> QED
    BY <1>2, <1>3, <1>4, AppendStep DEF DamageNext

(* In every behaviour the table is what append() and the accident made it. *)
LEMMA DamageKnown == DamageSpec => []DamageInv
<1>1. DamageInit => DamageInv
    <2> SUFFICES ASSUME DamageInit PROVE DamageInv
        OBVIOUS
    <2>1. table = <<>> /\ nextSeq = 1 /\ damage = NoDamage /\ anchored = <<>>
        BY DEF DamageInit
    <2>2. DamageTypeOK
        BY <2>1, MaxSeqAssumption DEF DamageTypeOK, NoDamage
    <2>3. DOMAIN table = {}
        BY <2>1
    <2> QED
        BY <2>1, <2>2, <2>3 DEF DamageInv, Ascending, DamagePlaced, NoDamage
<1> QED
    BY <1>1, DamageStep, PTL DEF DamageSpec

(* What a proof about the rows needs of them, in arithmetic.               *)
LEMMA RowFacts ==
    ASSUME DamageInv
    PROVE  /\ MaxSeq \in Nat /\ Len(table) \in Nat /\ DOMAIN table = 1 .. Len(table)
           /\ IsTable(table)
           /\ damage.at \in Nat /\ damage.next \in Nat
           /\ damage.kind \in DamageKinds \cup {"none"}
           /\ \A i \in 1 .. Len(table) :
                  /\ table[i].seq \in Nat /\ table[i].hash \in Nat
                  /\ 1 <= table[i].seq /\ table[i].seq <= MaxSeq
                  /\ table[i].hash = IF HitBy(table[i], "rehashed")
                                    THEN MaxSeq + table[i].seq ELSE table[i].seq
                  /\ table[i].parses <=> ~HitBy(table[i], "garbled")
           /\ \A i, j \in 1 .. Len(table) : i < j => table[i].seq < table[j].seq
           /\ \A i, j \in 1 .. Len(table) : table[i].seq = table[j].seq => i = j
<1>1. /\ MaxSeq \in Nat /\ Len(table) \in Nat /\ DOMAIN table = 1 .. Len(table)
      /\ \A i \in 1 .. Len(table) : table[i].seq \in Nat /\ table[i].hash \in Nat
      /\ nextSeq \in 1 .. MaxSeq + 1
      /\ damage.at \in Nat /\ damage.next \in Nat
      /\ damage.kind \in DamageKinds \cup {"none"}
    BY TableShape, MaxSeqAssumption DEF DamageInv, DamageTypeOK
<1>2. IsTable(table)
    BY <1>1 DEF IsTable
<1>3. \A i \in 1 .. Len(table) : 1 <= table[i].seq /\ table[i].seq <= MaxSeq
    <2>1. \A i \in 1 .. Len(table) : 0 < table[i].seq /\ table[i].seq < nextSeq
        BY <1>1 DEF DamageInv, Ascending
    <2> QED
        BY <1>1, <2>1
<1>4. \A i, j \in 1 .. Len(table) : i < j => table[i].seq < table[j].seq
    BY <1>1 DEF DamageInv, Ascending
<1>5. \A i, j \in 1 .. Len(table) : table[i].seq = table[j].seq => i = j
    <2> TAKE i, j \in 1 .. Len(table)
    <2>1. i < j \/ j < i \/ i = j
        BY <1>1
    <2> QED
        BY <1>1, <1>4, <2>1
<1>6. \A i \in 1 .. Len(table) :
          /\ table[i].hash = IF HitBy(table[i], "rehashed")
                            THEN MaxSeq + table[i].seq ELSE table[i].seq
          /\ table[i].parses <=> ~HitBy(table[i], "garbled")
    BY <1>1 DEF DamageInv, AsWritten
<1> QED
    BY <1>1, <1>2, <1>3, <1>4, <1>5, <1>6

(* The hash the row before embeds in this one, and the hash the verifier   *)
(* holds there: they differ behind an unreadable row only.                 *)
HashBefore(i) == IF i = 1 THEN NoHash ELSE table[i - 1].hash

LEMMA HeldIs ==
    ASSUME DamageInv, NEW i \in 1 .. Len(table)
    PROVE  Held(table, 1, i - 1) =
               IF i = 1 \/ table[i - 1].parses THEN HashBefore(i)
               ELSE HashBefore(i - 1)
<1>1. /\ IsTable(table) /\ Len(table) \in Nat /\ DOMAIN table = 1 .. Len(table)
      /\ \A j \in 1 .. Len(table) : table[j].seq \in Nat /\ table[j].seq >= 1
    BY RowFacts
<1>2. Held(table, 1, 0) = NoHash
    <2>1. Read(table, 1, 0) = {}
        BY DEF Read
    <2>2. Seed(table, 1) = NoHash
        BY DEF Seed
    <2> QED
        BY <2>1, <2>2 DEF Held
<1>3. \A j \in 1 .. Len(table) :
          Held(table, 1, j) = IF table[j].parses THEN table[j].hash ELSE Held(table, 1, j - 1)
    BY <1>1, HeldStep
<1>4. CASE i = 1
    BY <1>2, <1>4 DEF HashBefore
<1>5. CASE i # 1
    <2>1. i - 1 \in 1 .. Len(table) /\ i - 1 - 1 \in Nat
        BY <1>1, <1>5
    <2>2. CASE table[i - 1].parses
        BY <1>3, <1>5, <2>1, <2>2 DEF HashBefore
    <2>3. CASE ~table[i - 1].parses
        <3>1. Held(table, 1, i - 1) = Held(table, 1, i - 1 - 1)
            BY <1>3, <2>1, <2>3
        <3>2. CASE i - 1 = 1
            BY <1>2, <1>5, <2>3, <3>1, <3>2 DEF HashBefore
        <3>3. CASE i - 1 # 1
            <4>1. i - 1 - 1 \in 1 .. Len(table)
                BY <1>1, <2>1, <3>3
            <4>2. table[i - 1 - 1].parses
                <5>1. HitBy(table[i - 1], "garbled")
                    BY <2>1, <2>3, RowFacts
                <5>2. table[i - 1 - 1].seq # table[i - 1].seq
                    BY <1>1, <2>1, <4>1, RowFacts
                <5> QED
                    BY <4>1, <5>1, <5>2, RowFacts DEF HitBy
            <4> QED
                BY <1>3, <1>5, <2>3, <3>1, <3>3, <4>1, <4>2 DEF HashBefore
        <3> QED
            BY <3>2, <3>3
    <2> QED
        BY <2>2, <2>3
<1> QED
    BY <1>4, <1>5

(* The row after an unreadable one.                                        *)
LEMMA SuccessorIs ==
    ASSUME DamageInv, damage.kind = "garbled", NEW i \in 1 .. Len(table)
    PROVE  table[i].seq \in Successor
               <=> i # 1 /\ HitBy(table[i - 1], "garbled")
<1>1. PICK a \in 1 .. Len(table) : table[a].seq = damage.at
    BY RowFacts DEF DamageInv, DamagePlaced
<1>t. /\ Len(table) \in Nat /\ DOMAIN table = 1 .. Len(table)
      /\ \A j \in 1 .. Len(table) : table[j].seq \in Nat
      /\ \A j, k \in 1 .. Len(table) : j < k => table[j].seq < table[k].seq
      /\ \A j, k \in 1 .. Len(table) : table[j].seq = table[k].seq => j = k
    BY RowFacts
<1>2. \A j \in 1 .. Len(table) : table[j].seq > damage.at <=> j > a
    <2> TAKE j \in 1 .. Len(table)
    <2>1. j > a => table[j].seq > table[a].seq
        BY <1>t
    <2>2. j < a => table[j].seq < table[a].seq
        BY <1>t
    <2>3. j > a \/ j < a \/ j = a
        BY <1>t
    <2> QED
        BY <1>1, <1>t, <2>1, <2>2, <2>3
<1>3. table[i].seq \in Successor
          <=> i > a /\ \A j \in 1 .. Len(table) : j > a => table[i].seq <= table[j].seq
    BY <1>t, <1>2, SMTT(30) DEF Successor, Present
<1>4. i # 1 => (HitBy(table[i - 1], "garbled") <=> i - 1 = a)
    <2>1. i # 1 => i - 1 \in 1 .. Len(table)
        BY <1>t
    <2> QED
        BY <1>1, <1>t, <2>1 DEF HitBy
<1>5. ASSUME i > a, \A j \in 1 .. Len(table) : j > a => table[i].seq <= table[j].seq
      PROVE  i # 1 /\ i - 1 = a
    <2>1. a + 1 \in 1 .. Len(table) /\ a + 1 > a
        BY <1>t, <1>5
    <2>2. table[i].seq <= table[a + 1].seq
        BY <1>5, <2>1
    <2>3. ~(a + 1 < i)
        <3>1. a + 1 < i => table[a + 1].seq < table[i].seq
            BY <1>t, <2>1
        <3> QED
            BY <1>t, <2>1, <2>2, <3>1
    <2> QED
        BY <1>5, <1>t, <2>1, <2>3
<1>6. ASSUME i # 1, i - 1 = a
      PROVE  i > a /\ \A j \in 1 .. Len(table) : j > a => table[i].seq <= table[j].seq
    <2>1. i > a /\ \A j \in 1 .. Len(table) : j > a => j = i \/ i < j
        BY <1>t, <1>6
    <2> QED
        BY <1>t, <2>1
<1> QED
    BY <1>3, <1>4, <1>5, <1>6

(* A row that embeds a hash the table does not hold: it is not the hash of *)
(* the row before it.                                                      *)
LEMMA CutIs ==
    ASSUME DamageInv, NEW i \in 1 .. Len(table), Cut(table[i])
    PROVE  /\ damage.at # HashBefore(i)
           /\ i = 1 \/ table[i - 1].parses
<1>t. /\ MaxSeq \in Nat /\ Len(table) \in Nat /\ DOMAIN table = 1 .. Len(table)
      /\ damage.at \in Nat
      /\ \A j \in 1 .. Len(table) : table[j].seq \in Nat /\ 1 <= table[j].seq
    BY RowFacts
<1>1. damage.kind \in {"rehashed", "lost"} /\ damage.kind # "none"
      /\ damage.next # 0 /\ table[i].seq = damage.next
    BY DEF Cut
<1>2. PICK k \in DOMAIN table :
          /\ table[k].seq = damage.next
          /\ \A j \in DOMAIN table : j < k => table[j].seq <= damage.at
    BY <1>1 DEF DamageInv, DamagePlaced
<1>3. k = i
    BY <1>1, <1>2, <1>t, RowFacts
<1>4. 0 < damage.at
    BY <1>1 DEF DamageInv, DamagePlaced
<1>5. CASE i = 1
    BY <1>4, <1>5, <1>t DEF HashBefore, NoHash
<1>6. CASE i # 1
    <2>1. i - 1 \in 1 .. Len(table) /\ i - 1 < i
        BY <1>6, <1>t
    <2>2. table[i - 1].seq <= damage.at
        BY <1>2, <1>3, <2>1, <1>t
    <2>3. table[i - 1].parses
        BY <1>1, <2>1, RowFacts DEF HitBy
    <2>4. table[i - 1].hash = IF HitBy(table[i - 1], "rehashed")
                             THEN MaxSeq + table[i - 1].seq ELSE table[i - 1].seq
        BY <2>1, RowFacts
    <2>5. table[i - 1].hash # damage.at
        <3>1. CASE damage.kind = "rehashed" /\ table[i - 1].seq = damage.at
            <4>1. table[i - 1].hash = MaxSeq + table[i - 1].seq
                BY <2>4, <3>1 DEF HitBy
            <4>2. table[i - 1].seq <= MaxSeq /\ 1 <= table[i - 1].seq
                BY <2>1, RowFacts
            <4> QED
                BY <4>1, <4>2, <3>1, <1>t, <2>1
        <3>2. CASE table[i - 1].seq # damage.at
            BY <2>4, <3>2 DEF HitBy
        <3>3. CASE damage.kind # "rehashed"
            <4>1. damage.kind = "lost"
                BY <1>1, <3>3
            <4>2. table[i - 1].seq # damage.at
                BY <4>1, <1>1, <2>1, <1>t DEF DamageInv, DamagePlaced
            <4> QED
                BY <3>2, <4>2
        <3> QED
            BY <3>1, <3>2, <3>3
    <2> QED
        BY <1>6, <2>3, <2>5 DEF HashBefore
<1> QED
    BY <1>5, <1>6

(* The verifier finds fault with the rows that the accident must taint.    *)
LEMMA SoundIff ==
    ASSUME DamageInv, NEW i \in 1 .. Len(table)
    PROVE  Sound(table[i], Held(table, 1, i - 1), Key) <=> table[i].seq \notin Expected
<1> DEFINE r == table[i]
           held == Held(table, 1, i - 1)
<1>t. /\ MaxSeq \in Nat /\ Len(table) \in Nat /\ DOMAIN table = 1 .. Len(table)
      /\ damage.at \in Nat /\ damage.next \in Nat
      /\ damage.kind \in {"none", "garbled", "altered", "relinked", "rehashed", "lost"}
      /\ \A j \in 1 .. Len(table) : /\ table[j].seq \in Nat /\ table[j].hash \in Nat
                                   /\ 1 <= table[j].seq /\ table[j].seq <= MaxSeq
    BY RowFacts DEF DamageKinds
<1>w. /\ r.prev = Link(i)
      /\ r.prevcol = IF HitBy(r, "relinked") THEN MaxSeq + r.seq ELSE Link(i)
      /\ r.parses <=> ~HitBy(r, "garbled")
      /\ r.intact <=> ~HitBy(r, "altered")
      /\ r.key = IF HitBy(r, "altered") \/ HitBy(r, "rehashed") THEN BadKey ELSE Key
    BY <1>t DEF DamageInv, AsWritten
<1>l. Link(i) = IF Cut(r) THEN damage.at ELSE HashBefore(i)
    BY DEF Link, HashBefore
<1>h. held = IF i = 1 \/ table[i - 1].parses THEN HashBefore(i) ELSE HashBefore(i - 1)
    BY HeldIs
<1>k. BadKey # Key
    BY DEF BadKey, Key
<1>a. damage.kind = "lost" => r.seq # damage.at
    BY <1>t DEF DamageInv, DamagePlaced
<1>p. i # 1 => i - 1 \in 1 .. Len(table)
    BY <1>t
<1>e. r.seq \in Expected <=>
          \/ damage.kind \in {"garbled", "altered", "relinked", "rehashed"} /\ r.seq = damage.at
          \/ damage.kind = "garbled" /\ r.seq \in Successor
          \/ damage.kind \in {"rehashed", "lost"} /\ damage.next # 0 /\ r.seq = damage.next
    <2> HIDE DEF r
    <2> QED
        BY <1>t DEF Expected
<1> HIDE DEF r, held
<1>1. CASE ~(i = 1 \/ table[i - 1].parses)
    <2>1. HitBy(table[i - 1], "garbled") /\ damage.kind = "garbled"
        BY <1>1, <1>p, RowFacts DEF HitBy
    <2>2. r.seq \in Expected
        BY <1>1, <1>e, <2>1, SuccessorIs DEF r
    <2>3. Link(i) = table[i - 1].seq
        <3>1. ~Cut(r)
            BY <2>1 DEF Cut
        <3>2. table[i - 1].hash = table[i - 1].seq
            BY <1>1, <1>p, <2>1, RowFacts DEF HitBy
        <3> QED
            BY <1>1, <1>l, <3>1, <3>2 DEF HashBefore
    <2>4. HashBefore(i - 1) # table[i - 1].seq
        <3>1. CASE i - 1 = 1
            BY <1>1, <1>p, <1>t, <3>1 DEF HashBefore, NoHash
        <3>2. CASE i - 1 # 1
            <4>1. i - 1 - 1 \in 1 .. Len(table) /\ i - 1 - 1 < i - 1
                BY <1>1, <1>p, <1>t, <3>2
            <4>2. table[i - 1 - 1].hash = table[i - 1 - 1].seq
                BY <4>1, <2>1, RowFacts DEF HitBy
            <4>3. table[i - 1 - 1].seq < table[i - 1].seq
                BY <1>1, <1>p, <4>1, RowFacts
            <4> QED
                BY <1>1, <1>p, <1>t, <3>2, <4>1, <4>2, <4>3 DEF HashBefore
        <3> QED
            BY <3>1, <3>2
    <2>5. r.prev # held
        BY <1>1, <1>h, <1>w, <2>3, <2>4
    <2> QED
        BY <2>2, <2>5 DEF Sound, held, r
<1>2. CASE i = 1 \/ table[i - 1].parses
    <2>1. held = HashBefore(i)
        BY <1>2, <1>h
    <2>2. damage.kind = "garbled" => r.seq \notin Successor
        BY <1>2, <1>p, SuccessorIs, RowFacts DEF r
    <2>3. CASE Cut(r)
        <3>1. damage.at # HashBefore(i)
            BY <2>3, CutIs DEF r
        <3>2. r.seq \in Expected
            BY <2>3, <1>e DEF Cut
        <3>3. r.prev # held
            BY <1>l, <1>w, <2>1, <2>3, <3>1
        <3> QED
            BY <3>2, <3>3 DEF Sound, held, r
    <2>4. CASE ~Cut(r)
        <3>1. r.prev = held
            BY <1>l, <1>w, <2>1, <2>4
        <3>2. r.seq \in Expected <=>
                  damage.kind \in {"garbled", "altered", "relinked", "rehashed"}
                      /\ r.seq = damage.at
            BY <1>e, <2>2, <2>4 DEF Cut
        <3>3. HitBy(r, "relinked") => r.prevcol # held
            <4>1. ASSUME HitBy(r, "relinked") PROVE HashBefore(i) < MaxSeq + r.seq
                <5>1. CASE i = 1
                    BY <5>1, <1>t DEF HashBefore, NoHash, r
                <5>2. CASE i # 1
                    <6>1. table[i - 1].hash = table[i - 1].seq
                        BY <1>p, <4>1, <5>2, RowFacts DEF HitBy
                    <6>2. table[i - 1].seq <= MaxSeq /\ 1 <= r.seq /\ r.seq \in Nat
                          /\ table[i - 1].seq \in Nat
                        BY <1>p, <1>t, <5>2 DEF r
                    <6> QED
                        BY <1>t, <5>2, <6>1, <6>2 DEF HashBefore
                <5> QED
                    BY <5>1, <5>2
            <4>2. HashBefore(i) \in Nat /\ r.seq \in Nat
                BY <1>p, <1>t DEF HashBefore, NoHash, r
            <4> QED
                BY <1>t, <1>w, <2>1, <4>1, <4>2
        <3>4. Sound(r, held, Key) <=>
                  ~HitBy(r, "garbled") /\ ~HitBy(r, "altered")
                  /\ ~HitBy(r, "relinked") /\ ~HitBy(r, "rehashed")
            BY <1>k, <1>w, <3>1, <3>3, <1>l, <2>1, <2>4 DEF Sound
        <3>5. (~HitBy(r, "garbled") /\ ~HitBy(r, "altered")
                  /\ ~HitBy(r, "relinked") /\ ~HitBy(r, "rehashed"))
              <=> r.seq \notin Expected
            BY <3>2 DEF HitBy
        <3> QED
            BY <3>4, <3>5 DEF held, r
    <2> QED
        BY <2>3, <2>4
<1> QED
    BY <1>1, <1>2

LEMMA TaintExactHolds == DamageInv => TaintExact
<1> SUFFICES ASSUME DamageInv PROVE TaintExact
    OBVIOUS
<1> DEFINE n == Len(table)
<1>t. /\ IsTable(table) /\ n \in Nat /\ DOMAIN table = 1 .. n
      /\ damage.kind \in {"none", "garbled", "altered", "relinked", "rehashed", "lost"}
      /\ \A j \in 1 .. n : table[j].seq \in Nat /\ 1 <= table[j].seq
    BY RowFacts DEF DamageKinds
<1>1. Tainted(table, Key, 1) = Unsound(table, Key, 1, n)
    BY <1>t, TaintedIs
<1>2. {k \in 1 .. n : table[k].seq >= 1 /\ ~Sound(table[k], Held(table, 1, k - 1), Key)}
          = {k \in 1 .. n : table[k].seq \in Expected}
    <2>1. \A k \in 1 .. n : table[k].seq >= 1
        BY <1>t
    <2>2. \A k \in 1 .. n : ~Sound(table[k], Held(table, 1, k - 1), Key)
                                <=> table[k].seq \in Expected
        BY SoundIff
    <2> QED
        BY <2>1, <2>2
<1>3. Unsound(table, Key, 1, n) = {table[j].seq : j \in {k \in 1 .. n : table[k].seq \in Expected}}
    BY <1>2 DEF Unsound
<1>4. Expected \subseteq {table[j].seq : j \in 1 .. n}
    <2>1. damage.kind \in {"garbled", "altered", "relinked", "rehashed"}
              => damage.at \in {table[j].seq : j \in 1 .. n}
        BY <1>t DEF DamageInv, DamagePlaced
    <2>2. damage.kind # "none" /\ damage.next # 0
              => damage.next \in {table[j].seq : j \in 1 .. n}
        BY <1>t DEF DamageInv, DamagePlaced
    <2>3. Successor \subseteq {table[j].seq : j \in 1 .. n}
        BY <1>t DEF Successor, Present
    <2> QED
        BY <1>t, <2>1, <2>2, <2>3 DEF Expected
<1> QED
    BY <1>1, <1>3, <1>4 DEF TaintExact

(* verify_chain reports exactly the rows an accident touches, for a ledger *)
(* of any length, any accident and any entries appended after it           *)
(* (ledger/verify.py, verify_chain).                                       *)
THEOREM TaintIsExact == DamageSpec => []TaintExact
    BY DamageKnown, TaintExactHolds, PTL


(* Behind an unreadable row nothing links: the next row embeds its hash,   *)
(* which is neither null nor the hash of the row before it.                *)
LEMMA BehindUnreadable ==
    ASSUME DamageInv, NEW i \in 1 .. Len(table), i # 1, ~table[i - 1].parses
    PROVE  table[i].prev # NoHash /\ table[i].prev # HashBefore(i - 1)
<1>t. /\ Len(table) \in Nat /\ DOMAIN table = 1 .. Len(table)
      /\ \A j \in 1 .. Len(table) : table[j].seq \in Nat /\ 1 <= table[j].seq
      /\ i - 1 \in 1 .. Len(table)
    BY RowFacts
<1>1. damage.kind = "garbled"
    BY <1>t, RowFacts DEF HitBy
<1>2. \A j \in 1 .. Len(table) : table[j].hash = table[j].seq
    BY <1>1, RowFacts DEF HitBy
<1>3. table[i].prev = table[i - 1].seq
    <2>1. table[i].prev = Link(i) /\ ~Cut(table[i])
        BY <1>1, <1>t DEF DamageInv, AsWritten, Cut
    <2> QED
        BY <1>2, <1>t, <2>1 DEF Link
<1>4. CASE i - 1 = 1
    BY <1>3, <1>4, <1>t DEF HashBefore, NoHash
<1>5. CASE i - 1 # 1
    <2>1. i - 1 - 1 \in 1 .. Len(table) /\ i - 1 - 1 < i - 1
        BY <1>5, <1>t
    <2>2. table[i - 1 - 1].seq < table[i - 1].seq
        BY <1>t, <2>1, RowFacts
    <2> QED
        BY <1>2, <1>3, <1>5, <1>t, <2>1, <2>2 DEF HashBefore, NoHash
<1> QED
    BY <1>4, <1>5

(* A walk that starts at row f begins with a null hash or the hash of the  *)
(* row before f.                                                           *)
LEMMA SeedIs ==
    ASSUME DamageInv, NEW f \in 1 .. Len(table)
    PROVE  /\ Held(table, table[f].seq, f - 1) \in {NoHash, HashBefore(f)}
           /\ (table[f].seq = 1 \/ \E i \in DOMAIN table :
                                      table[i].seq = table[f].seq - 1 /\ table[i].parses)
                  => Held(table, table[f].seq, f - 1) = Held(table, 1, f - 1)
<1>s. PICK s \in Nat : s = table[f].seq /\ s >= 1
    BY RowFacts
<1>t. /\ Len(table) \in Nat /\ DOMAIN table = 1 .. Len(table)
      /\ \A j \in 1 .. Len(table) : table[j].seq \in Nat /\ 1 <= table[j].seq
      /\ \A j, k \in 1 .. Len(table) : j < k => table[j].seq < table[k].seq
      /\ \A j, k \in 1 .. Len(table) : table[j].seq = table[k].seq => j = k
    BY RowFacts
<1>1. Held(table, s, f - 1) = Seed(table, s)
    <2>1. Read(table, s, f - 1) = {}
        <3>1. \A j \in 1 .. f - 1 : table[j].seq < s
            BY <1>s, <1>t
        <3>2. \A j \in 1 .. f - 1 : j \in 1 .. Len(table)
            BY <1>t
        <3> QED
            BY <1>s, <1>t, <3>1, <3>2 DEF Read
    <2> QED
        BY <2>1 DEF Held
<1>2. ASSUME NEW j \in 1 .. Len(table), table[j].seq = s - 1
      PROVE  /\ j = f - 1 /\ f # 1
             /\ Seed(table, s) = table[j].hash
    <2>1. j < f
        <3>1. table[j].seq < table[f].seq
            BY <1>2, <1>s, <1>t
        <3>2. f < j => table[f].seq < table[j].seq
            BY <1>t
        <3> QED
            BY <1>t, <3>1, <3>2
    <2>2. ~(j < f - 1)
        <3> SUFFICES ASSUME j < f - 1 PROVE FALSE
            OBVIOUS
        <3>1. f - 1 \in 1 .. Len(table) /\ f - 1 < f
            BY <1>t
        <3>2. table[j].seq < table[f - 1].seq /\ table[f - 1].seq < table[f].seq
            BY <1>t, <3>1
        <3> QED
            BY <1>2, <1>s, <1>t, <3>1, <3>2
    <2>3. {i \in DOMAIN table : table[i].seq = s - 1} = {j}
        BY <1>2, <1>t
    <2>4. s > 1
        BY <1>2, <1>s, <1>t
    <2> QED
        BY <1>t, <2>1, <2>2, <2>3, <2>4 DEF Seed
<1>3. CASE \E j \in 1 .. Len(table) : table[j].seq = s - 1
    <2>1. PICK j \in 1 .. Len(table) : table[j].seq = s - 1
        BY <1>3
    <2>2. j = f - 1 /\ f # 1 /\ Held(table, s, f - 1) = HashBefore(f)
        BY <1>1, <1>2, <2>1 DEF HashBefore
    <2>3. s # 1
        BY <1>s, <1>t, <2>1
    <2>4. ASSUME \E i \in DOMAIN table : table[i].seq = s - 1 /\ table[i].parses
          PROVE  Held(table, 1, f - 1) = HashBefore(f)
        <3>1. table[j].parses
            BY <1>t, <2>1, <2>4
        <3> QED
            BY <2>2, <3>1, HeldIs
    <2> QED
        BY <1>s, <2>2, <2>3, <2>4
<1>4. CASE ~\E j \in 1 .. Len(table) : table[j].seq = s - 1
    <2>1. Seed(table, s) = NoHash
        BY <1>4, <1>t DEF Seed
    <2>2. s = 1 => f = 1
        <3>1. 1 < f => table[1].seq < table[f].seq
            BY <1>t
        <3> QED
            BY <1>s, <1>t, <3>1
    <2>3. f = 1 => Held(table, 1, f - 1) = NoHash
        BY HeldIs DEF HashBefore
    <2> QED
        BY <1>1, <1>4, <1>s, <1>t, <2>1, <2>2, <2>3
<1> QED
    BY <1>3, <1>4

(* From the row after the one it starts with, a walk holds what the full   *)
(* walk holds, or both hold something that the next row does not embed.    *)
LEMMA RangeSound ==
    ASSUME DamageInv, NEW f \in 1 .. Len(table), NEW i \in 1 .. Len(table), f < i
    PROVE  Sound(table[i], Held(table, table[f].seq, i - 1), Key)
               <=> Sound(table[i], Held(table, 1, i - 1), Key)
<1>s. PICK s \in Nat : s = table[f].seq
    BY RowFacts
<1>t. /\ Len(table) \in Nat /\ DOMAIN table = 1 .. Len(table)
      /\ IsTable(table)
      /\ \A j \in 1 .. Len(table) : table[j].seq \in Nat /\ 1 <= table[j].seq
      /\ \A j, k \in 1 .. Len(table) : j < k => table[j].seq < table[k].seq
    BY RowFacts
<1>1. i - 1 \in 1 .. Len(table) /\ i # 1 /\ f <= i - 1
    BY <1>t
<1>2. \A j \in 1 .. Len(table) : f <= j =>
          Held(table, s, j) = IF table[j].parses THEN table[j].hash ELSE Held(table, s, j - 1)
    <2> TAKE j \in 1 .. Len(table)
    <2>1. f <= j => table[j].seq >= s
        <3>1. f < j => table[f].seq < table[j].seq
            BY <1>t
        <3>2. f <= j => f < j \/ f = j
            BY <1>t
        <3> QED
            BY <1>s, <1>t, <3>1, <3>2
    <2> QED
        BY <1>t, <2>1, HeldStep
<1>3. CASE table[i - 1].parses
    BY <1>1, <1>2, <1>3, <1>s, HeldIs DEF HashBefore
<1>4. CASE ~table[i - 1].parses
    <2>1. Held(table, s, i - 1) = Held(table, s, i - 1 - 1)
        BY <1>1, <1>2, <1>4
    <2>2. Held(table, 1, i - 1) = HashBefore(i - 1)
        BY <1>1, <1>4, HeldIs
    <2>3. CASE i - 1 = f
        <3>1. Held(table, s, i - 1) \in {NoHash, HashBefore(i - 1)}
            BY <1>s, <2>1, <2>3, SeedIs
        <3> QED
            BY <1>1, <1>4, <1>s, <2>2, <3>1, BehindUnreadable DEF Sound
    <2>4. CASE i - 1 # f
        <3>1. i - 1 - 1 \in 1 .. Len(table) /\ f <= i - 1 - 1 /\ i - 1 # 1
            BY <1>1, <1>t, <2>4
        <3>2. table[i - 1 - 1].parses
            <4>1. HitBy(table[i - 1], "garbled")
                BY <1>1, <1>4, RowFacts
            <4>2. table[i - 1 - 1].seq # table[i - 1].seq
                BY <1>1, <1>t, <3>1, RowFacts
            <4> QED
                BY <3>1, <4>1, <4>2, RowFacts DEF HitBy
        <3>3. Held(table, s, i - 1) = HashBefore(i - 1)
            BY <1>2, <2>1, <3>1, <3>2 DEF HashBefore
        <3> QED
            BY <1>s, <2>2, <3>3
    <2> QED
        BY <2>3, <2>4
<1> QED
    BY <1>3, <1>4

LEMMA RangeAgreesHolds == DamageInv => RangeAgrees
<1> SUFFICES ASSUME DamageInv, NEW s \in Present
             PROVE  LET full == {q \in Tainted(table, Key, 1) : q >= s}
                        part == Tainted(table, Key, s)
                        seeded == \/ s = 1
                                  \/ \E i \in DOMAIN table :
                                         table[i].seq = s - 1 /\ table[i].parses
                    IN  /\ full \ {s} = part \ {s}
                        /\ seeded => full = part
    BY DEF RangeAgrees
<1> DEFINE full == {q \in Tainted(table, Key, 1) : q >= s}
           part == Tainted(table, Key, s)
           seeded == \/ s = 1
                     \/ \E i \in DOMAIN table : table[i].seq = s - 1 /\ table[i].parses
           bad(k, start) == ~Sound(table[k], Held(table, start, k - 1), Key)
<1>t. /\ IsTable(table) /\ Len(table) \in Nat /\ DOMAIN table = 1 .. Len(table)
      /\ \A j \in 1 .. Len(table) : table[j].seq \in Nat /\ 1 <= table[j].seq
      /\ \A j, k \in 1 .. Len(table) : j < k => table[j].seq < table[k].seq
    BY RowFacts
<1>1. PICK f \in 1 .. Len(table) : table[f].seq = s
    BY <1>t DEF Present
<1>2. s \in Nat
    BY <1>1, <1>t
<1>3. Tainted(table, Key, 1) = Unsound(table, Key, 1, Len(table))
      /\ part = Unsound(table, Key, s, Len(table))
    BY <1>2, <1>t, TaintedIs
<1>4. \A q : q \in full <=> \E k \in 1 .. Len(table) :
                 table[k].seq = q /\ q >= s /\ bad(k, 1)
    BY <1>3, <1>t DEF Unsound
<1>5. \A q : q \in part <=> \E k \in 1 .. Len(table) :
                 table[k].seq = q /\ q >= s /\ bad(k, s)
    BY <1>3, <1>t DEF Unsound
<1>6. \A k \in 1 .. Len(table) : table[k].seq >= s /\ table[k].seq # s
          => (bad(k, 1) <=> bad(k, s))
    <2> TAKE k \in 1 .. Len(table)
    <2>1. table[k].seq >= s /\ table[k].seq # s => f < k
        <3>1. k < f => table[k].seq < table[f].seq
            BY <1>t
        <3>2. k < f \/ k = f \/ f < k
            BY <1>t
        <3> QED
            BY <1>1, <1>2, <1>t, <3>1, <3>2
    <2> QED
        BY <1>1, <2>1, RangeSound
<1>7. seeded => \A k \in 1 .. Len(table) : table[k].seq = s => (bad(k, 1) <=> bad(k, s))
    <2>1. \A k \in 1 .. Len(table) : table[k].seq = s => k = f
        BY <1>1, RowFacts
    <2> QED
        BY <1>1, <2>1, SeedIs
<1> HIDE DEF bad, full, part, seeded
<1>8. \A q : q # s => (q \in full <=> q \in part)
    BY <1>4, <1>5, <1>6
<1>9. seeded => \A q : q \in full <=> q \in part
    BY <1>4, <1>5, <1>6, <1>7
<1>10. full \ {s} = part \ {s}
    BY <1>8
<1>11. seeded => full = part
    BY <1>9
<1> QED
    BY <1>10, <1>11 DEF full, part, seeded

(* A verification that starts in the middle of the ledger agrees with the  *)
(* full one on every row after its first, and on that one too when the row *)
(* before it is there and readable (ledger/verify.py, start_seq).          *)
THEOREM RangeIsSound == DamageSpec => []RangeAgrees
    BY DamageKnown, RangeAgreesHolds, PTL

-----------------------------------------------------------------------------
(* MerkleTree, on batches of any size.                                     *)

(* A level of the tree: a sequence that is not empty.                      *)
IsLevel(l) == Len(l) \in Nat \ {0} /\ l = [i \in 1 .. Len(l) |-> l[i]]

LEMMA Level ==
    ASSUME NEW m \in Nat \ {0}, NEW l, l = [i \in 1 .. m |-> l[i]]
    PROVE  /\ Len(l) = m /\ IsLevel(l)
           /\ l \in Seq({l[i] : i \in 1 .. m})
<1> DEFINE S == {l[i] : i \in 1 .. m}
<1>1. \A i \in 1 .. m : l[i] \in S
    OBVIOUS
<1> HIDE DEF S
<1>2. l \in [1 .. m -> S]
    BY <1>1
<1>3. l \in Seq(S)
    BY <1>2
<1>4. Len(l) = m
    <2>1. DOMAIN l = 1 .. m /\ DOMAIN l = 1 .. Len(l) /\ Len(l) \in Nat
        BY <1>2, <1>3
    <2> QED
        BY <2>1
<1> QED
    BY <1>3, <1>4 DEF S, IsLevel

LEMMA SameLevel ==
    ASSUME NEW k, NEW l, IsLevel(k), IsLevel(l), Len(k) = Len(l),
           \A i \in 1 .. Len(k) : k[i] = l[i]
    PROVE  k = l
BY DEF IsLevel

(* Padding makes the number of hashes even, by the last one again.         *)
LEMMA PadIs ==
    ASSUME NEW l, IsLevel(l)
    PROVE  /\ IsLevel(Pad(l))
           /\ Len(Pad(l)) = 2 * ((Len(l) + 1) \div 2)
           /\ \A i \in 1 .. Len(Pad(l)) :
                  Pad(l)[i] = IF i <= Len(l) THEN l[i] ELSE l[Len(l)]
<1>m. PICK m \in Nat \ {0} : m = Len(l) /\ l = [i \in 1 .. m |-> l[i]]
    BY DEF IsLevel
<1>1. l \in Seq({l[i] : i \in 1 .. m})
    BY <1>m, Level
<1>2. CASE m % 2 = 1
    <2>1. Pad(l) = Append(l, l[m])
        BY <1>2, <1>m DEF Pad
    <2>2. l[m] \in {l[i] : i \in 1 .. m}
        BY <1>m
    <2>3. /\ Len(Pad(l)) = m + 1 /\ DOMAIN Pad(l) = 1 .. m + 1
          /\ \A i \in 1 .. m : Pad(l)[i] = l[i]
          /\ Pad(l)[m + 1] = l[m]
        <3> DEFINE S == {l[i] : i \in 1 .. m}
        <3> HIDE DEF S
        <3>1. l \in Seq(S) /\ l[m] \in S
            BY <1>1, <2>2 DEF S
        <3> QED
            BY <1>m, <2>1, <3>1
    <2>4. Pad(l) = [i \in 1 .. m + 1 |-> Pad(l)[i]]
        <3> DEFINE S == {l[i] : i \in 1 .. m}
        <3> HIDE DEF S
        <3>1. l \in Seq(S) /\ l[m] \in S
            BY <1>1, <2>2 DEF S
        <3> QED
            BY <1>m, <2>1, <2>3, <3>1
    <2>5. m + 1 = 2 * ((m + 1) \div 2)
        BY <1>2
    <2>6. IsLevel(Pad(l))
        BY <2>3, <2>4 DEF IsLevel
    <2>7. \A i \in 1 .. m + 1 : Pad(l)[i] = IF i <= m THEN l[i] ELSE l[m]
        BY <2>3
    <2> QED
        BY <1>m, <2>3, <2>5, <2>6, <2>7
<1>3. CASE m % 2 # 1
    <2>1. Pad(l) = l
        BY <1>3, <1>m DEF Pad
    <2>2. m = 2 * ((m + 1) \div 2)
        BY <1>3
    <2>3. Len(Pad(l)) = 2 * ((Len(l) + 1) \div 2)
        BY <1>m, <2>1, <2>2
    <2>4. \A i \in 1 .. m : l[i] = IF i <= m THEN l[i] ELSE l[m]
        BY <1>m
    <2> QED
        BY <1>m, <2>1, <2>3, <2>4
<1> QED
    BY <1>2, <1>3

(* The level above has half as many hashes, each over two of those below.  *)
LEMMA AboveIs ==
    ASSUME NEW l, IsLevel(l)
    PROVE  /\ IsLevel(Above(l)) /\ Len(Above(l)) = (Len(l) + 1) \div 2
           /\ \A i \in 1 .. Len(Above(l)) :
                  /\ 2 * i - 1 \in 1 .. Len(Pad(l)) /\ 2 * i \in 1 .. Len(Pad(l))
                  /\ 2 * i - 1 <= Len(l)
                  /\ Above(l)[i] = NodeHash(Pad(l)[2 * i - 1], Pad(l)[2 * i])
<1>m. PICK m \in Nat \ {0} : m = Len(l)
    BY DEF IsLevel
<1>p. PICK p \in Nat : p = Len(Pad(l)) /\ p = 2 * ((m + 1) \div 2)
    BY <1>m, PadIs DEF IsLevel
<1>h. PICK h \in Nat \ {0} : h = p \div 2 /\ h = (m + 1) \div 2
    BY <1>p
<1>1. Above(l) = [i \in 1 .. h |-> NodeHash(Pad(l)[2 * i - 1], Pad(l)[2 * i])]
    BY <1>p, <1>h DEF Above
<1>2. Above(l) = [i \in 1 .. h |-> Above(l)[i]]
    BY <1>1
<1>3. Len(Above(l)) = h /\ IsLevel(Above(l))
    BY <1>2, Level
<1>4. \A i \in 1 .. h : /\ 2 * i - 1 \in 1 .. p /\ 2 * i \in 1 .. p
                        /\ 2 * i - 1 <= m
    BY <1>p, <1>h
<1> QED
    BY <1>1, <1>3, <1>4, <1>m, <1>p, <1>h

(* BLAKE3 does not collide: a level is known by the level above it.        *)
LEMMA AboveInjective ==
    ASSUME NEW k, NEW l, IsLevel(k), IsLevel(l), Len(k) = Len(l), Above(k) = Above(l)
    PROVE  k = l
<1>m. PICK m \in Nat \ {0} : m = Len(l) /\ m = Len(k)
    BY DEF IsLevel
<1>h. PICK h \in Nat : h = (m + 1) \div 2 /\ h = Len(Above(k)) /\ h = Len(Above(l))
    BY <1>m, AboveIs
<1>1. \A i \in 1 .. h : Pad(k)[2 * i - 1] = Pad(l)[2 * i - 1] /\ Pad(k)[2 * i] = Pad(l)[2 * i]
    <2> TAKE i \in 1 .. h
    <2>1. NodeHash(Pad(k)[2 * i - 1], Pad(k)[2 * i]) = NodeHash(Pad(l)[2 * i - 1], Pad(l)[2 * i])
        BY <1>h, AboveIs
    <2> QED
        BY <2>1 DEF NodeHash
<1>2. \A j \in 1 .. m : Pad(k)[j] = k[j] /\ Pad(l)[j] = l[j]
    <2>1. \A j \in 1 .. m : j \in 1 .. 2 * ((m + 1) \div 2) /\ j <= m
        BY <1>m
    <2> QED
        BY <1>m, <2>1, PadIs
<1>3. ASSUME NEW j \in 1 .. m PROVE k[j] = l[j]
    <2>1. CASE j % 2 = 0
        <3>1. PICK i \in 1 .. h : 2 * i = j
            <4>1. j \div 2 \in 1 .. h /\ 2 * (j \div 2) = j
                BY <1>h, <1>m, <2>1
            <4> QED
                BY <4>1
        <3> QED
            BY <1>1, <1>2, <3>1
    <2>2. CASE j % 2 # 0
        <3>1. PICK i \in 1 .. h : 2 * i - 1 = j
            <4>1. (j + 1) \div 2 \in 1 .. h /\ 2 * ((j + 1) \div 2) - 1 = j
                BY <1>h, <1>m, <2>2
            <4> QED
                BY <4>1
        <3> QED
            BY <1>1, <1>2, <3>1
    <2> QED
        BY <2>1, <2>2
<1> QED
    BY <1>3, <1>m, SameLevel

(* A tree is built level by level.                                         *)
Leaves(s) == [i \in DOMAIN s |-> LeafHash(s[i])]
OneUp(l) == IF Len(l) = 1 THEN l ELSE Above(l)

LEMMA LevelsExist ==
    ASSUME NEW s, IsLevel(s)
    PROVE  /\ LevelsOf(s)[0] = Leaves(s)
           /\ \A d \in 1 .. Len(s) : LevelsOf(s)[d] = OneUp(LevelsOf(s)[d - 1])
<1>n. PICK n \in Nat : n = Len(s)
    BY DEF IsLevel
<1> DEFINE P(w, k) == w = [d \in 0 .. k |-> IF d = 0 THEN Leaves(s) ELSE OneUp(w[d - 1])]
<1>1. \A k \in 0 .. n : \E w : P(w, k)
    <2> DEFINE S == {k \in 0 .. n : \E w : P(w, k)}
    <2>1. 0 \in S
        <3>1. P([d \in 0 .. 0 |-> Leaves(s)], 0)
            <4>1. \A d \in 0 .. 0 : d = 0
                OBVIOUS
            <4> QED
                BY <4>1
        <3>2. 0 \in 0 .. n
            BY <1>n
        <3> HIDE DEF P
        <3> QED
            BY <3>1, <3>2
    <2>2. ASSUME NEW k \in 1 .. n, k - 1 \in S PROVE k \in S
        <3>1. PICK w : P(w, k - 1)
            BY <2>2
        <3> DEFINE v == [d \in 0 .. k |-> IF d = k THEN OneUp(w[k - 1]) ELSE w[d]]
        <3>2. ASSUME NEW d \in 0 .. k
              PROVE  v[d] = IF d = 0 THEN Leaves(s) ELSE OneUp(v[d - 1])
            <4>1. CASE d = 0
                <5>1. d # k /\ d \in 0 .. k - 1
                    BY <4>1
                <5>2. v[d] = w[d]
                    BY <5>1
                <5>3. w[d] = Leaves(s)
                    BY <3>1, <4>1, <5>1
                <5> QED
                    BY <4>1, <5>2, <5>3
            <4>2. CASE d # 0 /\ d # k
                <5>1. d \in 0 .. k - 1 /\ d - 1 \in 0 .. k - 1 /\ d - 1 # k /\ d - 1 \in 0 .. k
                    BY <4>2
                <5>2. v[d] = w[d] /\ v[d - 1] = w[d - 1]
                    BY <4>2, <5>1
                <5>3. w[d] = OneUp(w[d - 1])
                    BY <3>1, <4>2, <5>1
                <5> QED
                    BY <4>2, <5>2, <5>3
            <4>3. CASE d = k
                <5>1. k # 0 /\ k - 1 # k /\ k - 1 \in 0 .. k
                    OBVIOUS
                <5>2. v[k - 1] = w[k - 1] /\ v[k] = OneUp(w[k - 1])
                    BY <5>1
                <5> QED
                    BY <4>3, <5>1, <5>2
            <4> QED
                BY <4>1, <4>2, <4>3
        <3>3. P(v, k)
            BY <3>2
        <3>4. k \in 0 .. n
            BY <1>n
        <3> HIDE DEF P, v
        <3> QED
            BY <3>3, <3>4
    <2> HIDE DEF S
    <2>3. \A k \in 0 .. n : k \in S
        BY <1>n, <2>1, <2>2, Upwards
    <2> QED
        BY <2>3 DEF S
<1> DEFINE w == CHOOSE w : P(w, n)
<1>2. P(w, n)
    <2>1. \E v : P(v, n)
        BY <1>1, <1>n
    <2> HIDE DEF P
    <2> QED
        BY <2>1
<1>3. LevelsOf(s) = w
    BY <1>n DEF LevelsOf, Leaves, OneUp
<1> HIDE DEF w
<1>4. w[0] = Leaves(s)
    BY <1>2, <1>n
<1>5. ASSUME NEW d \in 1 .. n PROVE w[d] = OneUp(w[d - 1])
    <2>1. d \in 0 .. n /\ d # 0
        BY <1>n
    <2> QED
        BY <1>2, <2>1
<1> QED
    BY <1>3, <1>4, <1>5, <1>n

(* Each level is at least one hash shorter, so the last has a single one.  *)
LEMMA LevelsAre ==
    ASSUME NEW s, IsLevel(s)
    PROVE  /\ \A d \in 0 .. Len(s) :
                  /\ IsLevel(LevelsOf(s)[d])
                  /\ Len(LevelsOf(s)[d]) = 1 \/ Len(LevelsOf(s)[d]) <= Len(s) - d
           /\ Len(LevelsOf(s)[0]) = Len(s)
           /\ Len(LevelsOf(s)[Len(s)]) = 1
<1>n. PICK n \in Nat \ {0} : n = Len(s) /\ s = [i \in 1 .. n |-> s[i]]
    BY DEF IsLevel
<1> DEFINE w == LevelsOf(s)
           S == {d \in 0 .. n : IsLevel(w[d]) /\ (Len(w[d]) = 1 \/ Len(w[d]) <= n - d)}
<1>1. w[0] = Leaves(s) /\ \A d \in 1 .. n : w[d] = OneUp(w[d - 1])
    BY <1>n, LevelsExist
<1>2. IsLevel(w[0]) /\ Len(w[0]) = n
    <2>1. DOMAIN s = 1 .. n
        BY <1>n
    <2>2. Leaves(s) = [i \in 1 .. n |-> Leaves(s)[i]]
        BY <2>1 DEF Leaves
    <2> QED
        BY <1>1, <2>2, Level
<1> HIDE DEF w
<1>3. \A d \in 0 .. n : d \in S
    <2>1. 0 \in S
        BY <1>2, <1>n
    <2>2. ASSUME NEW d \in 1 .. n, d - 1 \in S PROVE d \in S
        <3>1. d \in 0 .. n /\ w[d] = OneUp(w[d - 1])
            BY <1>1, <1>n
        <3>2. IsLevel(w[d - 1])
            BY <2>2
        <3>5. Len(w[d - 1]) = 1 \/ Len(w[d - 1]) <= n - (d - 1)
            BY <2>2
        <3>3. CASE Len(w[d - 1]) = 1
            BY <3>1, <3>2, <3>3 DEF OneUp
        <3>4. CASE Len(w[d - 1]) # 1
            <4>1. PICK m \in Nat \ {0} : m = Len(w[d - 1])
                BY <3>2 DEF IsLevel
            <4>2. w[d] = Above(w[d - 1])
                BY <3>1, <3>4 DEF OneUp
            <4>3. IsLevel(w[d]) /\ Len(w[d]) = (m + 1) \div 2
                BY <3>2, <4>1, <4>2, AboveIs
            <4>4. m >= 2 /\ m <= n - (d - 1)
                <5>1. m # 1 /\ (m = 1 \/ m <= n - (d - 1))
                    BY <3>4, <3>5, <4>1
                <5> QED
                    BY <5>1
            <4>5. (m + 1) \div 2 <= m - 1
                BY <4>4
            <4>6. (m + 1) \div 2 <= n - d
                BY <1>n, <4>4, <4>5
            <4> QED
                BY <3>1, <4>3, <4>6
        <3> QED
            BY <3>3, <3>4
    <2> HIDE DEF S
    <2> QED
        BY <1>n, <2>1, <2>2, Upwards
<1>4. Len(w[n]) = 1
    <2>1. IsLevel(w[n]) /\ (Len(w[n]) = 1 \/ Len(w[n]) <= n - n)
        BY <1>3, <1>n
    <2> QED
        BY <2>1, <1>n DEF IsLevel
<1> QED
    BY <1>2, <1>3, <1>4, <1>n DEF w

(* BLAKE3 does not collide: a root commits to a batch of known size.       *)
LEMMA RootInjective ==
    ASSUME NEW s, NEW t, IsLevel(s), IsLevel(t), Len(s) = Len(t), Root(s) = Root(t)
    PROVE  s = t
<1>n. PICK n \in Nat \ {0} : n = Len(s) /\ n = Len(t)
    BY DEF IsLevel
<1> DEFINE v == LevelsOf(s)
           w == LevelsOf(t)
           S == {d \in 0 .. n : Len(v[d]) = Len(w[d]) /\ (v[d] = w[d] => s = t)}
<1>1. /\ v[0] = Leaves(s) /\ \A d \in 1 .. n : v[d] = OneUp(v[d - 1])
      /\ w[0] = Leaves(t) /\ \A d \in 1 .. n : w[d] = OneUp(w[d - 1])
    BY <1>n, LevelsExist
<1>2. /\ \A d \in 0 .. n : IsLevel(v[d]) /\ IsLevel(w[d])
      /\ Len(v[0]) = n /\ Len(w[0]) = n /\ Len(v[n]) = 1 /\ Len(w[n]) = 1
    BY <1>n, LevelsAre
<1>3. v[n][1] = w[n][1]
    BY <1>n DEF Root
<1> HIDE DEF v, w
<1>4. v[0] = w[0] => s = t
    <2> SUFFICES ASSUME v[0] = w[0] PROVE s = t
        OBVIOUS
    <2>1. s = [i \in 1 .. n |-> s[i]] /\ t = [i \in 1 .. n |-> t[i]]
        BY <1>n DEF IsLevel
    <2>2. DOMAIN s = 1 .. n /\ DOMAIN t = 1 .. n
        BY <2>1
    <2>3. Leaves(s) = Leaves(t)
        BY <1>1
    <2>4. \A i \in 1 .. n : s[i] = t[i]
        <3> TAKE i \in 1 .. n
        <3>1. Leaves(s)[i] = LeafHash(s[i]) /\ Leaves(t)[i] = LeafHash(t[i])
            BY <2>2 DEF Leaves
        <3> QED
            BY <2>3, <3>1 DEF LeafHash
    <2> QED
        BY <2>1, <2>4
<1>5. \A d \in 0 .. n : d \in S
    <2>1. 0 \in S
        BY <1>2, <1>4, <1>n
    <2>2. ASSUME NEW d \in 1 .. n, d - 1 \in S PROVE d \in S
        <3>1. /\ d \in 0 .. n /\ d - 1 \in 0 .. n
              /\ v[d] = OneUp(v[d - 1]) /\ w[d] = OneUp(w[d - 1])
            BY <1>1, <1>n
        <3>2. Len(v[d - 1]) = Len(w[d - 1]) /\ (v[d - 1] = w[d - 1] => s = t)
            BY <2>2
        <3>3. CASE Len(v[d - 1]) = 1
            BY <3>1, <3>2, <3>3 DEF OneUp
        <3>4. CASE Len(v[d - 1]) # 1
            <4>1. v[d] = Above(v[d - 1]) /\ w[d] = Above(w[d - 1])
                BY <3>1, <3>2, <3>4 DEF OneUp
            <4>2. IsLevel(v[d - 1]) /\ IsLevel(w[d - 1])
                BY <1>2, <3>1
            <4>3. Len(v[d]) = Len(w[d])
                BY <3>2, <4>1, <4>2, AboveIs
            <4>4. v[d] = w[d] => v[d - 1] = w[d - 1]
                BY <3>2, <4>1, <4>2, AboveInjective
            <4> QED
                BY <3>1, <3>2, <4>3, <4>4
        <3> QED
            BY <3>3, <3>4
    <2> HIDE DEF S
    <2> QED
        BY <1>n, <2>1, <2>2, Upwards
<1>6. v[n] = w[n]
    <2>1. IsLevel(v[n]) /\ IsLevel(w[n])
        BY <1>2, <1>n
    <2>2. \A i \in 1 .. 1 : v[n][i] = w[n][i]
        BY <1>3
    <2> QED
        BY <1>2, <2>1, <2>2, SameLevel
<1> QED
    BY <1>5, <1>6, <1>n

-----------------------------------------------------------------------------
(* LedgerDamage: the two mechanisms together.                              *)

(* What verify_chain does not see is the loss of the last rows, and then   *)
(* the lost hash is missing from the batch read again.                     *)
LEMMA NothingSlipsHolds == DamageInv /\ TaintExact => NothingSlips
<1> SUFFICES ASSUME DamageInv, TaintExact PROVE NothingSlips
    OBVIOUS
<1>n. PICK n \in Nat : n = Len(anchored)
    BY DEF DamageInv, DamageTypeOK
<1>1. SUFFICES ASSUME damage.at \in {anchored[i] : i \in 1 .. n},
                      Tainted(table, Key, 1) = {},
                      Len(table) >= n, Root(FirstHashes(n)) = Root(anchored)
               PROVE  FALSE
    BY <1>n DEF NothingSlips
<1>2. anchored = [i \in 1 .. n |-> anchored[i]] /\ \A i \in 1 .. n : anchored[i] \in Nat \ {0}
    BY <1>n DEF DamageInv, DamageTypeOK
<1>3. PICK a \in 1 .. n : anchored[a] = damage.at
    BY <1>1
<1>4. damage.kind = "lost"
    <2>1. damage.at # 0
        BY <1>2, <1>3
    <2>2. damage.kind # "none"
        BY <2>1 DEF DamageInv, DamagePlaced, NoDamage
    <2>3. Expected = {}
        BY <1>1 DEF TaintExact
    <2>4. damage.kind \in {"garbled", "altered", "relinked", "rehashed"}
              => damage.at \in Expected
        BY DEF Expected
    <2>5. damage.kind \in DamageKinds \cup {"none"}
        BY RowFacts
    <2> QED
        BY <2>2, <2>3, <2>4, <2>5 DEF DamageKinds
<1>5. FirstHashes(n) = anchored
    <2>1. n \in Nat \ {0}
        BY <1>3
    <2>2. IsLevel(anchored)
        BY <1>2, <1>n, <2>1 DEF IsLevel
    <2>3. FirstHashes(n) = [i \in 1 .. n |-> FirstHashes(n)[i]]
        BY DEF FirstHashes
    <2>4. IsLevel(FirstHashes(n)) /\ Len(FirstHashes(n)) = n
        BY <2>1, <2>3, Level
    <2> QED
        BY <1>1, <1>n, <2>2, <2>4, RootInjective
<1>6. table[a].hash = damage.at
    BY <1>3, <1>5 DEF FirstHashes
<1>7. a \in 1 .. Len(table) /\ DOMAIN table = 1 .. Len(table)
    BY <1>1, RowFacts
<1>8. table[a].seq = damage.at
    BY <1>4, <1>6, <1>7, RowFacts DEF HitBy
<1> QED
    BY <1>4, <1>7, <1>8 DEF DamageInv, DamagePlaced

(* No accident to an anchored row goes unseen: either verify_chain taints  *)
(* some row or the batch no longer has the anchored root (ledger/verify.py *)
(* and ledger/anchor.py together), for a batch and a ledger of any size.   *)
THEOREM NothingGoesUnseen == DamageSpec => []NothingSlips
    BY DamageKnown, TaintExactHolds, NothingSlipsHolds, PTL

-----------------------------------------------------------------------------
(* MerkleTree: its recursive functions of numbers.                         *)

LEMMA Iterates ==
    ASSUME NEW x \in Nat, NEW F \in [Nat -> Nat], NEW n \in Nat
    PROVE  \E w \in [0 .. n -> Nat] :
               w[0] = x /\ \A d \in 1 .. n : w[d] = F[w[d - 1]]
<1> DEFINE P(w, k) == /\ w \in [0 .. k -> Nat]
                      /\ w[0] = x /\ \A d \in 1 .. k : w[d] = F[w[d - 1]]
           S == {k \in 0 .. n : \E w : P(w, k)}
<1>1. 0 \in S
    <2> DEFINE v == [d \in 0 .. 0 |-> x]
    <2>1. P(v, 0)
        OBVIOUS
    <2> HIDE DEF P, v
    <2> QED
        BY <2>1
<1>2. ASSUME NEW k \in 1 .. n, k - 1 \in S PROVE k \in S
    <2>1. PICK w : P(w, k - 1)
        BY <1>2
    <2> DEFINE v == [d \in 0 .. k |-> IF d = k THEN F[w[k - 1]] ELSE w[d]]
    <2>2. v \in [0 .. k -> Nat] /\ v[0] = x
        <3>1. k - 1 \in 0 .. k - 1 /\ w[k - 1] \in Nat
            BY <2>1
        <3>2. \A d \in 0 .. k : d # k => d \in 0 .. k - 1
            OBVIOUS
        <3>3. \A d \in 0 .. k : v[d] \in Nat
            BY <2>1, <3>1, <3>2
        <3>4. v \in [0 .. k -> Nat]
            BY <3>3
        <3>5. v[0] = w[0]
            BY 0 # k, 0 \in 0 .. k
        <3> QED
            BY <2>1, <3>4, <3>5
    <2>3. ASSUME NEW d \in 1 .. k PROVE v[d] = F[v[d - 1]]
        <3>1. d - 1 \in 0 .. k /\ d - 1 # k /\ d \in 0 .. k
            OBVIOUS
        <3>2. v[d - 1] = w[d - 1]
            BY <3>1
        <3>3. CASE d = k
            BY <3>1, <3>2, <3>3
        <3>4. CASE d # k
            <4>1. d \in 1 .. k - 1
                BY <3>4
            <4>2. v[d] = w[d] /\ w[d] = F[w[d - 1]]
                BY <2>1, <3>1, <3>4, <4>1
            <4> QED
                BY <3>2, <4>2
        <3> QED
            BY <3>3, <3>4
    <2> HIDE DEF v
    <2>4. P(v, k) /\ k \in 0 .. n
        BY <2>2, <2>3
    <2> HIDE DEF P
    <2> QED
        BY <2>4
<1>3. n \in S
    <2> HIDE DEF S
    <2>1. \A k \in 0 .. n : k \in S
        BY <1>1, <1>2, Upwards
    <2> QED
        BY <2>1
<1> QED
    BY <1>3

LEMMA WayIs ==
    ASSUME NEW i \in Nat, NEW n \in Nat
    PROVE  /\ Way(i, n)[0] = i
           /\ \A d \in 0 .. n : Way(i, n)[d] \in Nat
           /\ \A d \in 1 .. n : Way(i, n)[d] = Way(i, n)[d - 1] \div 2
<1> DEFINE P(w) == w = [d \in 0 .. n |-> IF d = 0 THEN i ELSE w[d - 1] \div 2]
           w == CHOOSE w : P(w)
           F == [m \in Nat |-> m \div 2]
<1>1. PICK v \in [0 .. n -> Nat] : v[0] = i /\ \A d \in 1 .. n : v[d] = F[v[d - 1]]
    <2>1. F \in [Nat -> Nat]
        OBVIOUS
    <2> HIDE DEF F
    <2> QED
        BY <2>1, Iterates
<1>2. \A d \in 0 .. n : v[d] = IF d = 0 THEN i ELSE v[d - 1] \div 2
    <2> TAKE d \in 0 .. n
    <2>1. d # 0 => d \in 1 .. n /\ v[d - 1] \in Nat
        OBVIOUS
    <2> QED
        BY <1>1, <2>1
<1>3. P(v)
    BY <1>2
<1>4. P(w)
    <2> HIDE DEF P
    <2> QED
        BY <1>3
<1>5. Way(i, n) = w
    BY DEF Way
<1> HIDE DEF w
<1>6. w[0] = i /\ \A d \in 1 .. n : w[d] = w[d - 1] \div 2
    <2>1. w[0] = i
        BY <1>4
    <2>2. ASSUME NEW d \in 1 .. n PROVE w[d] = w[d - 1] \div 2
        BY <1>4, d \in 0 .. n, d # 0
    <2> QED
        BY <2>1, <2>2
<1>7. \A d \in 0 .. n : w[d] \in Nat
    <2> DEFINE S == {d \in 0 .. n : w[d] \in Nat}
    <2>1. 0 \in S
        BY <1>6
    <2>2. ASSUME NEW d \in 1 .. n, d - 1 \in S PROVE d \in S
        <3>1. w[d - 1] \in Nat /\ w[d] = w[d - 1] \div 2
            BY <1>6, <2>2
        <3>2. w[d] \in Nat
            BY <3>1
        <3> QED
            BY <3>2
    <2> HIDE DEF S
    <2>3. \A d \in 0 .. n : d \in S
        BY <2>1, <2>2, Upwards
    <2> QED
        BY <2>3 DEF S
<1> QED
    BY <1>5, <1>6, <1>7

(* The way does not depend on how far it is followed.                      *)
LEMMA SameWay ==
    ASSUME NEW i \in Nat, NEW m \in Nat, NEW n \in Nat, m <= n
    PROVE  \A d \in 0 .. m : Way(i, m)[d] = Way(i, n)[d]
<1> DEFINE S == {d \in 0 .. m : Way(i, m)[d] = Way(i, n)[d]}
<1>1. 0 \in S
    BY WayIs
<1>2. ASSUME NEW d \in 1 .. m, d - 1 \in S PROVE d \in S
    <2>1. d \in 1 .. n
        OBVIOUS
    <2> QED
        BY <1>2, <2>1, WayIs
<1> HIDE DEF S
<1>3. \A d \in 0 .. m : d \in S
    BY <1>1, <1>2, Upwards
<1> QED
    BY <1>3 DEF S

LEMMA PowersAre ==
    ASSUME NEW n \in Nat
    PROVE  /\ Powers(n)[0] = 1
           /\ \A e \in 0 .. n : Powers(n)[e] \in Nat
           /\ \A e \in 1 .. n : Powers(n)[e] = 2 * Powers(n)[e - 1]
<1> DEFINE P(w) == w = [e \in 0 .. n |-> IF e = 0 THEN 1 ELSE 2 * w[e - 1]]
           w == CHOOSE w : P(w)
           F == [m \in Nat |-> 2 * m]
<1>1. PICK v \in [0 .. n -> Nat] : v[0] = 1 /\ \A e \in 1 .. n : v[e] = F[v[e - 1]]
    <2>1. F \in [Nat -> Nat] /\ 1 \in Nat
        OBVIOUS
    <2> HIDE DEF F
    <2> QED
        BY <2>1, Iterates
<1>2. \A e \in 0 .. n : v[e] = IF e = 0 THEN 1 ELSE 2 * v[e - 1]
    <2> TAKE e \in 0 .. n
    <2>1. e # 0 => e \in 1 .. n /\ v[e - 1] \in Nat
        OBVIOUS
    <2> QED
        BY <1>1, <2>1
<1>3. P(v)
    BY <1>2
<1>4. P(w)
    <2> HIDE DEF P
    <2> QED
        BY <1>3
<1>5. Powers(n) = w
    BY DEF Powers
<1> HIDE DEF w
<1>6. w[0] = 1 /\ \A e \in 1 .. n : w[e] = 2 * w[e - 1]
    <2>1. w[0] = 1
        BY <1>4
    <2>2. ASSUME NEW e \in 1 .. n PROVE w[e] = 2 * w[e - 1]
        BY <1>4, e \in 0 .. n, e # 0
    <2> QED
        BY <2>1, <2>2
<1>7. \A e \in 0 .. n : w[e] \in Nat
    <2> DEFINE S == {e \in 0 .. n : w[e] \in Nat}
    <2>1. 0 \in S
        BY <1>6
    <2>2. ASSUME NEW e \in 1 .. n, e - 1 \in S PROVE e \in S
        <3>1. w[e - 1] \in Nat /\ w[e] = 2 * w[e - 1]
            BY <1>6, <2>2
        <3>2. w[e] \in Nat
            BY <3>1
        <3> QED
            BY <3>2
    <2> HIDE DEF S
    <2>3. \A e \in 0 .. n : e \in S
        BY <2>1, <2>2, Upwards
    <2> QED
        BY <2>3 DEF S
<1> QED
    BY <1>5, <1>6, <1>7

TwoTo(e) == Powers(e)[e]

LEMMA PowerIs ==
    ASSUME NEW n \in Nat, NEW e \in 0 .. n
    PROVE  Powers(n)[e] = TwoTo(e)
<1> DEFINE S == {d \in 0 .. e : Powers(n)[d] = Powers(e)[d]}
<1>1. e \in Nat /\ 0 \in S
    BY PowersAre
<1>2. ASSUME NEW d \in 1 .. e, d - 1 \in S PROVE d \in S
    <2>1. d \in 1 .. n
        OBVIOUS
    <2> QED
        BY <1>2, <2>1, PowersAre
<1> HIDE DEF S
<1>3. e \in S
    BY <1>1, <1>2, Upwards
<1> QED
    BY <1>3 DEF S, TwoTo

LEMMA TwoToIs ==
    /\ TwoTo(0) = 1
    /\ \A e \in Nat : /\ TwoTo(e) \in Nat /\ TwoTo(e + 1) = 2 * TwoTo(e)
                      /\ e < TwoTo(e)
<1>1. TwoTo(0) = 1
    BY PowersAre DEF TwoTo
<1>2. ASSUME NEW e \in Nat PROVE TwoTo(e) \in Nat /\ TwoTo(e + 1) = 2 * TwoTo(e)
    <2>1. TwoTo(e) \in Nat
        BY PowersAre DEF TwoTo
    <2>2. Powers(e + 1)[e + 1] = 2 * Powers(e + 1)[(e + 1) - 1]
        BY e + 1 \in Nat, e + 1 \in 1 .. e + 1, PowersAre
    <2>3. Powers(e + 1)[e] = TwoTo(e)
        BY e + 1 \in Nat, e \in 0 .. e + 1, PowerIs
    <2> QED
        BY <2>1, <2>2, <2>3 DEF TwoTo
<1>3. ASSUME NEW n \in Nat PROVE n < TwoTo(n)
    <2> DEFINE S == {e \in 0 .. n : e < TwoTo(e)}
    <2>1. 0 \in S
        BY <1>1
    <2>2. ASSUME NEW e \in 1 .. n, e - 1 \in S PROVE e \in S
        <3>1. e - 1 \in Nat /\ (e - 1) + 1 = e /\ e - 1 < TwoTo(e - 1)
            BY <2>2
        <3>2. TwoTo(e - 1) \in Nat /\ TwoTo(e) = 2 * TwoTo(e - 1)
            BY <1>2, <3>1
        <3> QED
            BY <3>1, <3>2
    <2> HIDE DEF S
    <2>3. n \in S
        BY <2>1, <2>2, Upwards
    <2> QED
        BY <2>3 DEF S
<1> QED
    BY <1>1, <1>2, <1>3

LEMMA TwoToGrows ==
    ASSUME NEW e \in Nat, NEW d \in Nat, d < e
    PROVE  2 * TwoTo(d) <= TwoTo(e)
<1> DEFINE S == {c \in 0 .. e : d < c => 2 * TwoTo(d) <= TwoTo(c)}
<1>1. 0 \in S
    OBVIOUS
<1>2. ASSUME NEW c \in 1 .. e, c - 1 \in S PROVE c \in S
    <2>1. c - 1 \in Nat /\ (c - 1) + 1 = c /\ c \in 0 .. e
        OBVIOUS
    <2>2. TwoTo(d) \in Nat /\ TwoTo(c - 1) \in Nat /\ TwoTo(c) = 2 * TwoTo(c - 1)
        BY <2>1, TwoToIs
    <2>3. CASE d < c - 1
        <3>1. 2 * TwoTo(d) <= TwoTo(c - 1)
            BY <1>2, <2>3
        <3>2. 2 * TwoTo(d) <= TwoTo(c)
            BY <2>2, <3>1
        <3> QED
            BY <2>1, <3>2
    <2>4. CASE d = c - 1
        BY <2>1, <2>2, <2>4
    <2>5. CASE d > c - 1
        <3>1. ~(d < c)
            BY <2>5
        <3> QED
            BY <2>1, <3>1
    <2> QED
        BY <2>3, <2>4, <2>5
<1> HIDE DEF S
<1>3. e \in S
    BY <1>1, <1>2, Upwards
<1> QED
    BY <1>3 DEF S

(* The largest power of two below m.                                       *)
LEMMA SplitExists ==
    ASSUME NEW m \in Nat, m >= 2
    PROVE  \E e \in 0 .. m : TwoTo(e) < m /\ m <= 2 * TwoTo(e)
<1> DEFINE T == {e \in 0 .. m : m <= 2 * TwoTo(e)}
<1>1. T \in SUBSET Nat
    OBVIOUS
<1>2. m \in T
    <2>1. m < TwoTo(m) /\ TwoTo(m) \in Nat
        BY TwoToIs
    <2>2. m <= 2 * TwoTo(m)
        BY <2>1
    <2> QED
        BY <2>2
<1>3. PICK e \in T : \A k \in T : e <= k
    <2> HIDE DEF T
    <2> QED
        BY <1>1, <1>2, LeastNumber
<1>4. e \in 0 .. m /\ m <= 2 * TwoTo(e) /\ TwoTo(e) \in Nat
    BY <1>3, TwoToIs
<1>5. TwoTo(e) < m
    <2>1. CASE e = 0
        BY <2>1, TwoToIs
    <2>2. CASE e # 0
        <3>1. e - 1 \in 0 .. m /\ e - 1 \in Nat /\ (e - 1) + 1 = e /\ ~(e <= e - 1)
            BY <1>4, <2>2
        <3>2. TwoTo(e) = 2 * TwoTo(e - 1) /\ TwoTo(e - 1) \in Nat
            BY <3>1, TwoToIs
        <3>3. e - 1 \notin T
            BY <1>3, <3>1
        <3>4. ~(m <= 2 * TwoTo(e - 1))
            BY <3>1, <3>3
        <3> QED
            BY <3>2, <3>4
    <2> QED
        BY <2>1, <2>2
<1> QED
    BY <1>4, <1>5

LEMMA SplitUnique ==
    ASSUME NEW d \in Nat, NEW e \in Nat,
           TwoTo(e) < 2 * TwoTo(d), 2 * TwoTo(d) <= 2 * TwoTo(e)
    PROVE  e = d
<1>1. TwoTo(d) \in Nat /\ TwoTo(e) \in Nat /\ 0 < TwoTo(d) /\ 0 < TwoTo(e)
    <2>1. TwoTo(d) \in Nat /\ TwoTo(e) \in Nat /\ d < TwoTo(d) /\ e < TwoTo(e)
        BY TwoToIs
    <2> QED
        BY <2>1
<1>2. d < e => 2 * TwoTo(d) <= TwoTo(e)
    BY TwoToGrows
<1>3. e < d => 2 * TwoTo(e) <= TwoTo(d)
    BY TwoToGrows
<1> QED
    BY <1>1, <1>2, <1>3

-----------------------------------------------------------------------------
(* MerkleTree: the inclusion proofs.                                       *)

(* The number of levels above the leaves up to the first of one hash.      *)
Height(s) ==
    CHOOSE h \in 0 .. Len(s) :
        /\ Len(LevelsOf(s)[h]) = 1
        /\ \A g \in 0 .. h - 1 : Len(LevelsOf(s)[g]) > 1

LEMMA HeightIs ==
    ASSUME NEW s, IsLevel(s)
    PROVE  /\ Height(s) \in 0 .. Len(s)
           /\ Len(LevelsOf(s)[Height(s)]) = 1
           /\ \A d \in 1 .. Height(s) : /\ Len(LevelsOf(s)[d - 1]) > 1
                                        /\ LevelsOf(s)[d] = Above(LevelsOf(s)[d - 1])
           /\ \A d \in Height(s) .. Len(s) : LevelsOf(s)[d] = LevelsOf(s)[Height(s)]
           /\ Root(s) = LevelsOf(s)[Height(s)][1]
<1>n. PICK n \in Nat \ {0} : n = Len(s)
    BY DEF IsLevel
<1> DEFINE w == LevelsOf(s)
           T == {h \in 0 .. n : Len(w[h]) = 1}
<1>1. /\ \A d \in 0 .. n : IsLevel(w[d]) /\ Len(w[d]) \in Nat \ {0}
      /\ Len(w[n]) = 1
      /\ \A d \in 1 .. n : w[d] = OneUp(w[d - 1])
    BY <1>n, LevelsAre, LevelsExist DEF IsLevel
<1>2. \E h \in 0 .. n : Len(w[h]) = 1 /\ \A g \in 0 .. h - 1 : Len(w[g]) > 1
    <2>1. T \in SUBSET Nat /\ n \in T
        BY <1>1
    <2>2. PICK h \in T : \A g \in T : h <= g
        <3> HIDE DEF T
        <3> QED
            BY <2>1, LeastNumber
    <2>3. h \in 0 .. n /\ Len(w[h]) = 1
        BY <2>2
    <2>4. ASSUME NEW g \in 0 .. h - 1 PROVE Len(w[g]) > 1
        <3>1. g \in 0 .. n /\ ~(h <= g)
            BY <2>3
        <3>2. Len(w[g]) # 1
            BY <2>2, <3>1
        <3>3. PICK m \in Nat \ {0} : m = Len(w[g])
            BY <1>1, <3>1
        <3>4. m # 1
            BY <3>2, <3>3
        <3>5. m > 1
            BY <3>4
        <3> QED
            BY <3>3, <3>5
    <2> HIDE DEF T, w
    <2> QED
        BY <2>3, <2>4
<1> DEFINE h == Height(s)
<1>3. h \in 0 .. n /\ Len(w[h]) = 1 /\ \A g \in 0 .. h - 1 : Len(w[g]) > 1
    BY <1>2, <1>n DEF Height
<1> HIDE DEF w, h, T
<1>4. ASSUME NEW d \in 1 .. h PROVE Len(w[d - 1]) > 1 /\ w[d] = Above(w[d - 1])
    <2>1. d - 1 \in 0 .. h - 1 /\ d \in 1 .. n
        BY <1>3
    <2>2. Len(w[d - 1]) > 1
        BY <1>3, <2>1
    <2>3. w[d] = OneUp(w[d - 1])
        BY <1>1, <2>1
    <2>4. Len(w[d - 1]) # 1
        <3> SUFFICES ASSUME Len(w[d - 1]) = 1 PROVE FALSE
            OBVIOUS
        <3>1. 1 > 1
            BY <2>2
        <3> QED
            BY <3>1
    <2> QED
        BY <2>2, <2>3, <2>4 DEF OneUp
<1>5. \A d \in h .. n : w[d] = w[h]
    <2> DEFINE S == {k \in 0 .. n : k >= h => w[k] = w[h]}
    <2>1. 0 \in S
        BY <1>3
    <2>2. ASSUME NEW k \in 1 .. n, k - 1 \in S PROVE k \in S
        <3>1. k \in 0 .. n /\ w[k] = OneUp(w[k - 1])
            BY <1>1
        <3>2. CASE k - 1 >= h
            <4>1. w[k - 1] = w[h]
                BY <2>2, <3>2
            <4> QED
                BY <1>3, <3>1, <4>1 DEF OneUp
        <3>3. CASE ~(k - 1 >= h)
            <4>1. k >= h => k = h
                BY <1>3, <3>3
            <4> QED
                BY <3>1, <4>1
        <3> QED
            BY <3>2, <3>3
    <2> HIDE DEF S
    <2>3. \A k \in 0 .. n : k \in S
        BY <2>1, <2>2, Upwards
    <2> QED
        BY <1>3, <2>3 DEF S
<1>6. Root(s) = w[h][1]
    <2>1. w[n] = w[h]
        BY <1>3, <1>5
    <2> QED
        BY <1>n, <2>1 DEF Root, w
<1> QED
    BY <1>3, <1>4, <1>5, <1>6, <1>n DEF w, h

(* One step towards the root: the hash and its sibling make the hash above *)
(* them.                                                                   *)
Joined(k, v, sibling) ==
    IF k % 2 = 0 THEN NodeHash(v, sibling) ELSE NodeHash(sibling, v)

LEMMA ClimbStep ==
    ASSUME NEW l, IsLevel(l), NEW k \in 0 .. Len(l) - 1
    PROVE  /\ k \div 2 \in 0 .. Len(Above(l)) - 1
           /\ Above(l)[(k \div 2) + 1] =
                  Joined(k, l[k + 1], Pad(l)[Sibling(k, Len(Pad(l))) + 1])
<1>m. PICK m \in Nat \ {0} : m = Len(l)
    BY DEF IsLevel
<1>q. PICK q \in Nat : q = k \div 2 /\ (k % 2 = 0 => k = 2 * q)
                       /\ (k % 2 # 0 => k = 2 * q + 1)
    <2>1. k \in Nat
        BY <1>m
    <2> QED
        BY <2>1
<1>1. Len(Above(l)) = (m + 1) \div 2
    BY <1>m, AboveIs
<1>2. q \in 0 .. ((m + 1) \div 2) - 1 /\ q + 1 \in 1 .. (m + 1) \div 2
    BY <1>m, <1>q
<1>3. Above(l)[q + 1] = NodeHash(Pad(l)[2 * (q + 1) - 1], Pad(l)[2 * (q + 1)])
    BY <1>1, <1>2, AboveIs
<1>4. Pad(l)[k + 1] = l[k + 1]
    <2>1. k + 1 \in 1 .. 2 * ((m + 1) \div 2) /\ k + 1 <= m
        BY <1>m
    <2> QED
        BY <1>m, <2>1, PadIs
<1>5. CASE k % 2 = 0
    <2>1. 2 * (q + 1) - 1 = k + 1 /\ 2 * (q + 1) = k + 1 + 1
        BY <1>q, <1>5
    <2>2. Sibling(k, Len(Pad(l))) = k + 1
        BY <1>5 DEF Sibling
    <2> QED
        BY <1>q, <1>1, <1>2, <1>3, <1>4, <1>5, <2>1, <2>2 DEF Joined
<1>6. CASE k % 2 # 0
    <2>1. 2 * (q + 1) = k + 1 /\ 2 * (q + 1) - 1 = k - 1 + 1
        BY <1>q, <1>6
    <2>2. Sibling(k, Len(Pad(l))) = k - 1
        BY <1>6 DEF Sibling
    <2> QED
        BY <1>q, <1>1, <1>2, <1>3, <1>4, <1>6, <2>1, <2>2 DEF Joined
<1> QED
    BY <1>5, <1>6

(* What the verifier computes on the way.                                  *)
OnTheWay(up, v, i, path, n) ==
    /\ up[0] = LeafHash(v)
    /\ \A d \in 1 .. n : up[d] = Joined(Way(i, n)[d - 1], up[d - 1], path[d])
    /\ Recomputed(v, i, path) = up[n]

LEMMA RecomputedIs ==
    ASSUME NEW v, NEW i \in Nat, NEW path, NEW n \in Nat, Len(path) = n
    PROVE  \E up : OnTheWay(up, v, i, path, n)
<1>n. n \in Nat /\ Len(path) = n
    OBVIOUS
<1> DEFINE J(d, x) == Joined(Way(i, n)[d - 1], x, path[d])
           P(w, k) == w = [d \in 0 .. k |-> IF d = 0 THEN LeafHash(v) ELSE J(d, w[d - 1])]
<1> HIDE DEF J
<1>1. \A k \in 0 .. n : \E w : P(w, k)
    <2> DEFINE S == {k \in 0 .. n : \E w : P(w, k)}
    <2>1. 0 \in S
        <3>1. P([d \in 0 .. 0 |-> LeafHash(v)], 0)
            <4>1. \A d \in 0 .. 0 : d = 0
                OBVIOUS
            <4> QED
                BY <4>1
        <3>2. 0 \in 0 .. n
            BY <1>n
        <3> HIDE DEF P
        <3> QED
            BY <3>1, <3>2
    <2>2. ASSUME NEW k \in 1 .. n, k - 1 \in S PROVE k \in S
        <3>1. PICK w : P(w, k - 1)
            BY <2>2
        <3> DEFINE u == [d \in 0 .. k |-> IF d = k THEN J(k, w[k - 1]) ELSE w[d]]
        <3>2. ASSUME NEW d \in 0 .. k
              PROVE  u[d] = IF d = 0 THEN LeafHash(v) ELSE J(d, u[d - 1])
            <4>1. CASE d = 0
                <5>1. d # k /\ d \in 0 .. k - 1
                    BY <4>1
                <5>2. u[d] = w[d]
                    BY <5>1
                <5>3. w[d] = LeafHash(v)
                    BY <3>1, <4>1, <5>1
                <5> QED
                    BY <4>1, <5>2, <5>3
            <4>2. CASE d # 0 /\ d # k
                <5>1. d \in 0 .. k - 1 /\ d - 1 \in 0 .. k - 1 /\ d - 1 # k /\ d - 1 \in 0 .. k
                    BY <4>2
                <5>2. u[d] = w[d] /\ u[d - 1] = w[d - 1]
                    BY <4>2, <5>1
                <5>3. w[d] = J(d, w[d - 1])
                    BY <3>1, <4>2, <5>1
                <5> QED
                    BY <4>2, <5>2, <5>3
            <4>3. CASE d = k
                <5>1. k # 0 /\ k - 1 # k /\ k - 1 \in 0 .. k
                    OBVIOUS
                <5>2. u[k - 1] = w[k - 1] /\ u[k] = J(k, w[k - 1])
                    BY <5>1
                <5> QED
                    BY <4>3, <5>1, <5>2
            <4> QED
                BY <4>1, <4>2, <4>3
        <3>3. P(u, k)
            BY <3>2
        <3>4. k \in 0 .. n
            BY <1>n
        <3> HIDE DEF P, u
        <3> QED
            BY <3>3, <3>4
    <2> HIDE DEF S
    <2>3. \A k \in 0 .. n : k \in S
        BY <1>n, <2>1, <2>2, Upwards
    <2> QED
        BY <2>3 DEF S
<1> DEFINE w == CHOOSE w : P(w, n)
<1>2. P(w, n)
    <2>1. \E u : P(u, n)
        BY <1>1, <1>n
    <2> HIDE DEF P
    <2> QED
        BY <2>1
<1>3. Recomputed(v, i, path) = w[n]
    BY <1>n DEF Recomputed, J, Joined
<1> HIDE DEF w
<1>4. w[0] = LeafHash(v)
    BY <1>2, <1>n
<1>5. ASSUME NEW d \in 1 .. n PROVE w[d] = J(d, w[d - 1])
    <2>1. d \in 0 .. n /\ d # 0
        BY <1>n
    <2> QED
        BY <1>2, <2>1
<1> QED
    BY <1>3, <1>4, <1>5, <1>n DEF J, OnTheWay

(* Two leaves that lead to one root by one path are the same.              *)
LEMMA RecomputedInjective ==
    ASSUME NEW u, NEW v, NEW i \in Nat, NEW path, NEW n \in Nat, Len(path) = n,
           Recomputed(u, i, path) = Recomputed(v, i, path)
    PROVE  u = v
<1>1. PICK a : OnTheWay(a, u, i, path, n)
    BY RecomputedIs
<1>2. PICK b : OnTheWay(b, v, i, path, n)
    BY RecomputedIs
<1> DEFINE S == {d \in 0 .. n : a[d] = b[d] => u = v}
<1>3. 0 \in S
    BY <1>1, <1>2 DEF LeafHash, OnTheWay
<1>4. ASSUME NEW d \in 1 .. n, d - 1 \in S PROVE d \in S
    <2>1. d \in 0 .. n
        OBVIOUS
    <2>2. a[d] = b[d] => a[d - 1] = b[d - 1]
        <3>1. /\ a[d] = Joined(Way(i, n)[d - 1], a[d - 1], path[d])
              /\ b[d] = Joined(Way(i, n)[d - 1], b[d - 1], path[d])
            BY <1>1, <1>2 DEF OnTheWay
        <3> QED
            BY <3>1 DEF Joined, NodeHash
    <2> QED
        BY <1>4, <2>1, <2>2
<1> HIDE DEF S
<1>5. n \in S
    BY <1>3, <1>4, Upwards
<1> QED
    BY <1>1, <1>2, <1>5 DEF S, OnTheWay

LEMMA CopathIs ==
    ASSUME NEW s, IsLevel(s), NEW i
    PROVE  /\ Len(Copath(s, i)) = Height(s)
           /\ \A d \in 1 .. Height(s) :
                  Copath(s, i)[d] =
                      LET l == Pad(LevelsOf(s)[d - 1])
                      IN  l[Sibling(Way(i, Len(s))[d - 1], Len(l)) + 1]
<1>h. PICK h \in Nat : h = Height(s)
    BY HeightIs DEF IsLevel
<1> DEFINE sib(d) == LET l == Pad(LevelsOf(s)[d - 1])
                     IN  l[Sibling(Way(i, Len(s))[d - 1], Len(l)) + 1]
<1>1. Copath(s, i) = [d \in 1 .. h |-> sib(d)]
    BY <1>h DEF Copath, Height
<1> HIDE DEF sib
<1>2. Len(Copath(s, i)) = h
    <2> DEFINE X == {sib(d) : d \in 1 .. h}
    <2>1. \A d \in 1 .. h : sib(d) \in X
        OBVIOUS
    <2> HIDE DEF X
    <2>2. Copath(s, i) \in [1 .. h -> X]
        BY <1>1, <2>1
    <2>3. Copath(s, i) \in Seq(X)
        BY <2>2
    <2>4. DOMAIN Copath(s, i) = 1 .. h /\ DOMAIN Copath(s, i) = 1 .. Len(Copath(s, i))
          /\ Len(Copath(s, i)) \in Nat
        BY <2>2, <2>3
    <2> QED
        BY <2>4
<1> QED
    BY <1>h, <1>1, <1>2 DEF sib

(* An inclusion proof leads from its leaf to the root.                     *)
LEMMA ProofLeads ==
    ASSUME NEW s, IsLevel(s), NEW n \in Nat \ {0}, n = Len(s), NEW i \in 0 .. n - 1
    PROVE  Recomputed(s[i + 1], i, Copath(s, i)) = Root(s)
<1>n. n = Len(s) /\ s = [j \in 1 .. n |-> s[j]]
    BY DEF IsLevel
<1>h. PICK h \in Nat : h = Height(s) /\ h <= n
    <2>1. Height(s) \in 0 .. n
        BY <1>n, HeightIs
    <2> QED
        BY <2>1
<1>i. i \in Nat /\ i + 1 \in 1 .. n
    BY <1>n
<1> DEFINE w == LevelsOf(s)
           at == Way(i, n)
<1>1. /\ \A d \in 1 .. h : w[d] = Above(w[d - 1])
      /\ Len(w[h]) = 1 /\ Root(s) = w[h][1]
    BY <1>h, HeightIs
<1>2. /\ \A d \in 0 .. n : IsLevel(w[d])
      /\ Len(w[0]) = n /\ w[0] = Leaves(s)
    BY <1>n, LevelsAre, LevelsExist
<1>3. /\ Len(Copath(s, i)) = h
      /\ \A d \in 1 .. h : Copath(s, i)[d] =
             Pad(w[d - 1])[Sibling(at[d - 1], Len(Pad(w[d - 1]))) + 1]
    <2>1. Len(Copath(s, i)) = h
        BY <1>h, CopathIs
    <2>2. ASSUME NEW d \in 1 .. h
          PROVE  Copath(s, i)[d] = Pad(w[d - 1])[Sibling(at[d - 1], Len(Pad(w[d - 1]))) + 1]
        BY <1>n, <1>h, CopathIs
    <2> QED
        BY <2>1, <2>2
<1>4. PICK up : /\ up[0] = LeafHash(s[i + 1])
                /\ \A d \in 1 .. h : up[d] = Joined(Way(i, h)[d - 1], up[d - 1], Copath(s, i)[d])
                /\ Recomputed(s[i + 1], i, Copath(s, i)) = up[h]
    <2>1. PICK up : OnTheWay(up, s[i + 1], i, Copath(s, i), h)
        BY <1>3, <1>i, RecomputedIs
    <2> QED
        BY <2>1 DEF OnTheWay
<1>5. \A d \in 0 .. h : Way(i, h)[d] = at[d]
    BY <1>h, <1>i, SameWay
<1>6. at[0] = i /\ \A d \in 1 .. n : at[d] = at[d - 1] \div 2
    BY <1>i, WayIs
<1> HIDE DEF w, at
<1> DEFINE S == {d \in 0 .. h : at[d] \in 0 .. Len(w[d]) - 1 /\ up[d] = w[d][at[d] + 1]}
<1>7. 0 \in S
    <2>1. at[0] \in 0 .. Len(w[0]) - 1
        BY <1>2, <1>6, <1>n
    <2>2. w[0][i + 1] = LeafHash(s[i + 1])
        <3>1. DOMAIN s = 1 .. n
            BY <1>n
        <3> QED
            BY <1>2, <1>i, <3>1 DEF Leaves
    <2> QED
        BY <1>4, <1>6, <1>h, <2>1, <2>2
<1>8. ASSUME NEW d \in 1 .. h, d - 1 \in S PROVE d \in S
    <2>1. d \in 1 .. n /\ d - 1 \in 0 .. h /\ d - 1 \in 0 .. n /\ d \in 0 .. h
        BY <1>h
    <2>2. at[d - 1] \in 0 .. Len(w[d - 1]) - 1 /\ up[d - 1] = w[d - 1][at[d - 1] + 1]
        BY <1>8
    <2>3. IsLevel(w[d - 1]) /\ w[d] = Above(w[d - 1]) /\ at[d] = at[d - 1] \div 2
        BY <1>1, <1>2, <1>6, <2>1
    <2>4. /\ at[d] \in 0 .. Len(w[d]) - 1
          /\ w[d][at[d] + 1] = Joined(at[d - 1], up[d - 1], Copath(s, i)[d])
        BY <1>3, <2>2, <2>3, ClimbStep
    <2>5. up[d] = Joined(at[d - 1], up[d - 1], Copath(s, i)[d])
        BY <1>4, <1>5, <2>1
    <2> QED
        BY <2>1, <2>4, <2>5
<1>9. h \in S
    <2> HIDE DEF S
    <2> QED
        <3>1. \A d \in 1 .. h : d - 1 \in S => d \in S
            BY <1>8
        <3>2. \A d \in 0 .. h : d \in S
            BY <1>7, <3>1, Upwards
        <3> QED
            BY <3>2
<1>10. at[h] = 0
    <2>1. at[h] \in 0 .. Len(w[h]) - 1
        BY <1>9
    <2> QED
        BY <1>1, <2>1
<1> QED
    BY <1>1, <1>4, <1>9, <1>10

(* It verifies for this leaf and for no other.                             *)
LEMMA ProofIsSound ==
    ASSUME NEW s, IsLevel(s), NEW n \in Nat \ {0}, n = Len(s), NEW i \in 0 .. n - 1,
           NEW v
    PROVE  Recomputed(v, i, Copath(s, i)) = Root(s) <=> v = s[i + 1]
<1>1. PICK m \in Nat : m = Len(Copath(s, i))
    <2>1. Height(s) \in 0 .. n
        BY HeightIs
    <2> QED
        BY <2>1, CopathIs
<1> QED
    BY <1>1, i \in Nat, ProofLeads, RecomputedInjective

(* The last entry of an odd batch twice: the same root.                    *)
LEMMA LastTwice ==
    ASSUME NEW s, IsLevel(s), Len(s) % 2 = 1, Len(s) > 1
    PROVE  Root(Append(s, s[Len(s)])) = Root(s)
<1>n. PICK n \in Nat \ {0} : n = Len(s) /\ s = [j \in 1 .. n |-> s[j]]
    BY DEF IsLevel
<1> DEFINE t == Append(s, s[n])
           v == LevelsOf(s)
           w == LevelsOf(t)
<1>1. t = Pad(s)
    BY <1>n DEF Pad
<1>2. /\ IsLevel(t) /\ Len(t) = n + 1
      /\ \A i \in 1 .. n + 1 : t[i] = IF i <= n THEN s[i] ELSE s[n]
    <2>1. 2 * ((n + 1) \div 2) = n + 1
        BY <1>n
    <2> QED
        BY <1>1, <1>n, <2>1, PadIs
<1>3. /\ v[0] = Leaves(s) /\ \A d \in 1 .. n : v[d] = OneUp(v[d - 1])
      /\ Len(v[0]) = n /\ IsLevel(v[0]) /\ Len(v[n]) = 1
    <2>1. /\ v[0] = Leaves(s) /\ \A d \in 1 .. n : v[d] = OneUp(v[d - 1])
        BY <1>n, LevelsExist
    <2>2. Len(v[0]) = n /\ Len(v[n]) = 1 /\ \A d \in 0 .. n : IsLevel(v[d])
        BY <1>n, LevelsAre
    <2>3. 0 \in 0 .. n
        OBVIOUS
    <2> QED
        BY <2>1, <2>2, <2>3
<1>4. /\ w[0] = Leaves(t) /\ \A d \in 1 .. n + 1 : w[d] = OneUp(w[d - 1])
      /\ Len(w[0]) = n + 1 /\ IsLevel(w[0])
    <2>1. /\ w[0] = Leaves(t) /\ \A d \in 1 .. n + 1 : w[d] = OneUp(w[d - 1])
        BY <1>2, LevelsExist
    <2>2. Len(w[0]) = n + 1 /\ \A d \in 0 .. n + 1 : IsLevel(w[d])
        BY <1>2, LevelsAre
    <2>3. 0 \in 0 .. n + 1
        OBVIOUS
    <2> HIDE DEF t, w
    <2> QED
        BY <2>1, <2>2, <2>3
<1> HIDE DEF t, v, w
<1>5. w[0] = Pad(v[0])
    <2>1. DOMAIN s = 1 .. n
        BY <1>n
    <2>2. t = [i \in 1 .. n + 1 |-> t[i]]
        BY <1>2 DEF IsLevel
    <2>3. DOMAIN t = 1 .. n + 1
        BY <2>2
    <2>4. IsLevel(Pad(v[0])) /\ Len(Pad(v[0])) = n + 1
          /\ \A i \in 1 .. n + 1 : Pad(v[0])[i] = IF i <= n THEN v[0][i] ELSE v[0][n]
        <3>1. 2 * ((n + 1) \div 2) = n + 1
            BY <1>n
        <3> QED
            BY <1>3, <3>1, PadIs
    <2>5. \A i \in 1 .. n + 1 : w[0][i] = Pad(v[0])[i]
        <3> TAKE i \in 1 .. n + 1
        <3>1. w[0][i] = LeafHash(t[i])
            BY <1>4, <2>3 DEF Leaves
        <3>2. \A j \in 1 .. n : v[0][j] = LeafHash(s[j])
            BY <1>3, <2>1 DEF Leaves
        <3>3. CASE i <= n
            BY <1>2, <2>4, <3>1, <3>2, <3>3, i \in 1 .. n
        <3>4. CASE ~(i <= n)
            BY <1>2, <2>4, <3>1, <3>2, <3>4
        <3> QED
            BY <3>3, <3>4
    <2> QED
        BY <1>4, <2>4, <2>5, SameLevel
<1>6. Above(w[0]) = Above(v[0])
    <2>1. Pad(w[0]) = w[0]
        <3>1. (n + 1) % 2 # 1
            BY <1>n
        <3> QED
            BY <1>4, <3>1 DEF Pad
    <2> QED
        BY <1>5, <2>1 DEF Above
<1>7. w[1] = v[1]
    <2>1. w[1] = OneUp(w[0]) /\ v[1] = OneUp(v[0])
        BY <1>3, <1>4
    <2> QED
        BY <1>3, <1>4, <1>6, <1>n, <2>1 DEF OneUp
<1> DEFINE S == {d \in 0 .. n : d # 0 => w[d] = v[d]}
<1>8. n \in S
    <2>1. 0 \in S
        OBVIOUS
    <2>2. ASSUME NEW d \in 1 .. n, d - 1 \in S PROVE d \in S
        <3>1. d \in 0 .. n /\ d \in 1 .. n + 1
            OBVIOUS
        <3>2. w[d] = OneUp(w[d - 1]) /\ v[d] = OneUp(v[d - 1])
            BY <1>3, <1>4, <3>1
        <3>3. CASE d = 1
            BY <1>7, <3>1, <3>3
        <3>4. CASE d # 1
            BY <2>2, <3>1, <3>2, <3>4
        <3> QED
            BY <3>3, <3>4
    <2> HIDE DEF S
    <2> QED
        BY <2>1, <2>2, Upwards
<1>9. w[n] = v[n] /\ w[n + 1] = w[n]
    <2>1. w[n] = v[n]
        BY <1>8
    <2>2. w[n + 1] = OneUp(w[(n + 1) - 1])
        BY <1>4, n + 1 \in 1 .. n + 1
    <2>3. (n + 1) - 1 = n
        OBVIOUS
    <2> QED
        BY <1>3, <2>1, <2>2, <2>3 DEF OneUp
<1> QED
    BY <1>2, <1>9, <1>n DEF Root, t, v, w

-----------------------------------------------------------------------------
(* MerkleTree: its root and the tree hash of RFC 6962.                     *)

Split(m) ==
    CHOOSE p \in {Powers(m)[e] : e \in 0 .. m} : p < m /\ m <= 2 * p

LEMMA SplitIs ==
    ASSUME NEW m \in Nat, m >= 2
    PROVE  /\ Split(m) \in 1 .. m - 1
           /\ \E e \in Nat : /\ Split(m) = TwoTo(e)
                             /\ TwoTo(e) < m /\ m <= 2 * TwoTo(e)
<1> DEFINE X == {Powers(m)[e] : e \in 0 .. m}
<1>1. \E p \in X : p < m /\ m <= 2 * p
    <2>1. PICK e \in 0 .. m : TwoTo(e) < m /\ m <= 2 * TwoTo(e)
        BY SplitExists
    <2>2. Powers(m)[e] = TwoTo(e)
        BY PowerIs
    <2>3. Powers(m)[e] \in X
        OBVIOUS
    <2> HIDE DEF X
    <2> QED
        BY <2>1, <2>2, <2>3
<1>2. Split(m) \in X /\ Split(m) < m /\ m <= 2 * Split(m)
    <2>1. Split(m) = CHOOSE p \in X : p < m /\ m <= 2 * p
        BY DEF Split
    <2> HIDE DEF X
    <2> QED
        BY <1>1, <2>1
<1>3. PICK e \in 0 .. m : Split(m) = Powers(m)[e]
    BY <1>2
<1>4. Split(m) = TwoTo(e) /\ e \in Nat /\ TwoTo(e) \in Nat /\ e < TwoTo(e)
    <2>1. Powers(m)[e] = TwoTo(e)
        BY PowerIs
    <2>2. e \in Nat
        OBVIOUS
    <2>3. TwoTo(e) \in Nat /\ e < TwoTo(e)
        BY <2>2, TwoToIs
    <2> QED
        BY <1>3, <2>1, <2>2, <2>3
<1>5. Split(m) \in 1 .. m - 1
    BY <1>2, <1>4
<1> QED
    BY <1>2, <1>4, <1>5

(* The recursion of TreeHash: the hash of every run of entries.            *)
IsMth(w, s, N) ==
    /\ \A from \in 0 .. N - 1 : w[1][from] = LeafHash(s[from + 1])
    /\ \A m \in 2 .. N : \A from \in 0 .. N - m :
           w[m][from] = NodeHash(w[Split(m)][from], w[m - Split(m)][from + Split(m)])
    /\ TreeHash(s) = w[N][0]

LEMMA MthExists ==
    ASSUME NEW s, NEW N \in Nat \ {0}, N = Len(s)
    PROVE  \E w : IsMth(w, s, N)
<1> DEFINE RowAt(w, m) ==
        [from \in 0 .. N - m |->
            IF m = 1 THEN LeafHash(s[from + 1])
            ELSE NodeHash(w[Split(m)][from], w[m - Split(m)][from + Split(m)])]
           P(w, k) == w = [m \in 1 .. k |-> RowAt(w, m)]
<1>1. ASSUME NEW u, NEW w, NEW m \in 1 .. N, \A j \in 1 .. m - 1 : u[j] = w[j]
      PROVE  RowAt(u, m) = RowAt(w, m)
    <2>1. CASE m = 1
        BY <2>1
    <2>2. CASE m # 1
        <3>1. m >= 2 /\ m \in Nat
            BY <2>2
        <3>2. PICK p \in 1 .. m - 1 : p = Split(m)
            BY <3>1, SplitIs
        <3>3. m - p \in 1 .. m - 1
            BY <3>2
        <3>4. u[Split(m)] = w[Split(m)] /\ u[m - Split(m)] = w[m - Split(m)]
            BY <1>1, <3>2, <3>3
        <3> QED
            BY <3>4
    <2> QED
        BY <2>1, <2>2
<1> HIDE DEF RowAt
<1>2. \A k \in 0 .. N : \E w : P(w, k)
    <2> DEFINE S == {k \in 0 .. N : \E w : P(w, k)}
    <2>1. 0 \in S
        <3> DEFINE u == [m \in 1 .. 0 |-> 0]
        <3>1. P(u, 0)
            <4>1. 1 .. 0 = {}
                OBVIOUS
            <4> QED
                BY <4>1
        <3>2. 0 \in 0 .. N
            OBVIOUS
        <3> HIDE DEF P, u
        <3> QED
            BY <3>1, <3>2
    <2>2. ASSUME NEW k \in 1 .. N, k - 1 \in S PROVE k \in S
        <3>1. PICK w : P(w, k - 1)
            BY <2>2
        <3> DEFINE u == [m \in 1 .. k |-> IF m = k THEN RowAt(w, k) ELSE w[m]]
        <3>2. ASSUME NEW m \in 1 .. k PROVE u[m] = RowAt(u, m)
            <4>1. \A j \in 1 .. m - 1 : u[j] = w[j]
                <5> TAKE j \in 1 .. m - 1
                <5>1. j \in 1 .. k /\ j # k
                    OBVIOUS
                <5> QED
                    BY <5>1
            <4>2. RowAt(u, m) = RowAt(w, m)
                <5>1. m \in 1 .. N
                    OBVIOUS
                <5> HIDE DEF u
                <5> QED
                    BY <1>1, <4>1, <5>1
            <4>3. CASE m = k
                <5>1. u[m] = RowAt(w, k)
                    BY <4>3
                <5> HIDE DEF u
                <5> QED
                    BY <4>2, <4>3, <5>1
            <4>4. CASE m # k
                <5>1. m \in 1 .. k - 1
                    BY <4>4
                <5>2. w[m] = RowAt(w, m)
                    BY <3>1, <5>1
                <5>3. u[m] = w[m]
                    BY <4>4
                <5> HIDE DEF u
                <5> QED
                    BY <4>2, <5>2, <5>3
            <4> QED
                BY <4>3, <4>4
        <3>3. P(u, k)
            <4>1. u = [m \in 1 .. k |-> u[m]]
                OBVIOUS
            <4> HIDE DEF u
            <4>2. [m \in 1 .. k |-> u[m]] = [m \in 1 .. k |-> RowAt(u, m)]
                BY <3>2
            <4> QED
                BY <4>1, <4>2
        <3>4. k \in 0 .. N
            OBVIOUS
        <3> HIDE DEF P, u
        <3> QED
            BY <3>3, <3>4
    <2> HIDE DEF S
    <2>3. \A k \in 0 .. N : k \in S
        BY <2>1, <2>2, Upwards
    <2> QED
        BY <2>3 DEF S
<1> DEFINE w == CHOOSE w : P(w, N)
<1>3. P(w, N)
    <2>1. \E u : P(u, N)
        BY <1>2
    <2> HIDE DEF P
    <2> QED
        BY <2>1
<1>4. TreeHash(s) = w[N][0]
    BY DEF TreeHash, RowAt, Split
<1> HIDE DEF w
<1>5. \A m \in 1 .. N : w[m] = RowAt(w, m)
    BY <1>3
<1>6. ASSUME NEW from \in 0 .. N - 1 PROVE w[1][from] = LeafHash(s[from + 1])
    <2>1. w[1] = RowAt(w, 1)
        BY <1>5
    <2> QED
        BY <2>1 DEF RowAt
<1>7. ASSUME NEW m \in 2 .. N, NEW from \in 0 .. N - m
      PROVE  w[m][from] = NodeHash(w[Split(m)][from], w[m - Split(m)][from + Split(m)])
    <2>1. m \in 1 .. N /\ m # 1
        OBVIOUS
    <2>2. w[m] = RowAt(w, m)
        BY <1>5, <2>1
    <2> QED
        BY <2>1, <2>2 DEF RowAt
<1>8. IsMth(w, s, N)
    BY <1>4, <1>6, <1>7 DEF IsMth
<1> QED
    BY <1>8

(* A run of entries whose tree hash is in a level d steps above the leaves *)
(* has 2^d entries: the tree under that hash is full.                      *)
LEMMA FullTree ==
    ASSUME NEW s, IsLevel(s), NEW N \in Nat \ {0}, N = Len(s), NEW w, IsMth(w, s, N)
    PROVE  \A d \in 0 .. Height(s) : \A m \in 1 .. N : \A from \in 0 .. N - m :
               \A j \in 1 .. Len(LevelsOf(s)[d]) :
                   w[m][from] = LevelsOf(s)[d][j] => m = TwoTo(d)
<1>h. PICK h \in Nat : h = Height(s) /\ h <= N
    <2>1. Height(s) \in 0 .. N
        BY HeightIs
    <2> QED
        BY <2>1
<1> DEFINE v == LevelsOf(s)
<1>1. \A d \in 1 .. h : v[d] = Above(v[d - 1])
    BY <1>h, HeightIs
<1>2. /\ \A d \in 0 .. N : IsLevel(v[d])
      /\ v[0] = Leaves(s)
    BY LevelsAre, LevelsExist
<1>l. Len(v[0]) = N
    BY LevelsAre
<1> HIDE DEF v
<1> DEFINE Same(d) == \A m \in 1 .. N : \A from \in 0 .. N - m : \A j \in 1 .. Len(v[d]) :
                          w[m][from] = v[d][j] => m = TwoTo(d)
           S == {d \in 0 .. h : Same(d)}
<1>3. ASSUME NEW m \in 1 .. N, NEW from \in 0 .. N - m
      PROVE  IF m = 1 THEN \E x : w[m][from] = LeafHash(x)
             ELSE w[m][from] = NodeHash(w[Split(m)][from], w[m - Split(m)][from + Split(m)])
    <2>1. CASE m = 1
        BY <2>1 DEF IsMth
    <2>2. CASE m # 1
        BY <2>2, m \in 2 .. N DEF IsMth
    <2> QED
        BY <2>1, <2>2
<1>4. 0 \in S
    <2>1. ASSUME NEW m \in 1 .. N, NEW from \in 0 .. N - m, NEW j \in 1 .. N,
                 w[m][from] = v[0][j]
          PROVE  m = 1
        <3>1. v[0][j] = LeafHash(s[j])
            <4>1. DOMAIN s = 1 .. N
                BY DEF IsLevel
            <4> QED
                BY <1>2, <4>1 DEF Leaves
        <3> SUFFICES ASSUME m # 1 PROVE FALSE
            OBVIOUS
        <3>2. LeafHash(s[j]) = NodeHash(w[Split(m)][from], w[m - Split(m)][from + Split(m)])
            BY <1>3, <2>1, <3>1
        <3> QED
            BY <3>2 DEF LeafHash, NodeHash
    <2>2. Same(0)
        BY <1>l, <2>1, TwoToIs
    <2> HIDE DEF Same
    <2> QED
        BY <2>2
<1>5. ASSUME NEW d \in 1 .. h, d - 1 \in S PROVE d \in S
    <2>0. d \in 0 .. h /\ d - 1 \in 0 .. N /\ d - 1 \in Nat /\ (d - 1) + 1 = d
        BY <1>h
    <2>1. IsLevel(v[d - 1]) /\ v[d] = Above(v[d - 1])
        BY <1>1, <1>2, <2>0
    <2>2. PICK q \in Nat \ {0} : q = Len(v[d - 1])
        BY <2>1 DEF IsLevel
    <2>3. PICK p \in Nat : p = (q + 1) \div 2 /\ p = Len(v[d])
        <3>1. Len(v[d]) = (q + 1) \div 2
            BY <2>1, <2>2, AboveIs
        <3>2. (q + 1) \div 2 \in Nat
            OBVIOUS
        <3> QED
            BY <3>1, <3>2
    <2>4. TwoTo(d) = 2 * TwoTo(d - 1) /\ TwoTo(d - 1) \in Nat
        BY <2>0, TwoToIs
    <2>5. ASSUME NEW m \in 1 .. N, NEW from \in 0 .. N - m, NEW j \in 1 .. p,
                 w[m][from] = v[d][j]
          PROVE  m = TwoTo(d)
        <3>1. v[d][j] = NodeHash(Pad(v[d - 1])[2 * j - 1], Pad(v[d - 1])[2 * j])
            BY <2>1, <2>3, AboveIs
        <3>2. \E k, l \in 1 .. q : Pad(v[d - 1])[2 * j - 1] = v[d - 1][k]
                                   /\ Pad(v[d - 1])[2 * j] = v[d - 1][l]
            <4>1. 2 * j \in 1 .. 2 * ((q + 1) \div 2) /\ 2 * j - 1 \in 1 .. 2 * ((q + 1) \div 2)
                BY <2>3
            <4>2. \A i \in 1 .. 2 * ((q + 1) \div 2) : \E k \in 1 .. q :
                      Pad(v[d - 1])[i] = v[d - 1][k]
                <5> TAKE i \in 1 .. 2 * ((q + 1) \div 2)
                <5>1. Pad(v[d - 1])[i] = IF i <= q THEN v[d - 1][i] ELSE v[d - 1][q]
                    BY <2>1, <2>2, PadIs
                <5>2. i <= q => i \in 1 .. q
                    OBVIOUS
                <5> QED
                    BY <5>1, <5>2, q \in 1 .. q
            <4> QED
                BY <4>1, <4>2
        <3>3. m # 1
            <4> SUFFICES ASSUME m = 1 PROVE FALSE
                OBVIOUS
            <4>1. PICK x : w[m][from] = LeafHash(x)
                BY <1>3
            <4> QED
                BY <2>5, <3>1, <4>1 DEF LeafHash, NodeHash
        <3>4. PICK k \in 1 .. m - 1 : k = Split(m)
            <4>1. m \in Nat /\ m >= 2
                BY <3>3
            <4> QED
                BY <4>1, SplitIs
        <3>5. w[m][from] = NodeHash(w[k][from], w[m - k][from + k])
            BY <1>3, <3>3, <3>4
        <3>6. w[k][from] = Pad(v[d - 1])[2 * j - 1] /\ w[m - k][from + k] = Pad(v[d - 1])[2 * j]
            BY <2>5, <3>1, <3>5 DEF NodeHash
        <3>7. /\ k \in 1 .. N /\ from \in 0 .. N - k
              /\ m - k \in 1 .. N /\ from + k \in 0 .. N - (m - k)
            OBVIOUS
        <3>8. Same(d - 1)
            BY <1>5
        <3>9. k = TwoTo(d - 1) /\ m - k = TwoTo(d - 1)
            <4>1. PICK i, l \in 1 .. q : Pad(v[d - 1])[2 * j - 1] = v[d - 1][i]
                                         /\ Pad(v[d - 1])[2 * j] = v[d - 1][l]
                BY <3>2
            <4>2. w[k][from] = v[d - 1][i] /\ w[m - k][from + k] = v[d - 1][l]
                BY <3>6, <4>1
            <4>3. i \in 1 .. Len(v[d - 1]) /\ l \in 1 .. Len(v[d - 1])
                BY <2>2
            <4>4. k = TwoTo(d - 1)
                BY <3>7, <3>8, <4>2, <4>3
            <4>5. m - k = TwoTo(d - 1)
                BY <3>7, <3>8, <4>2, <4>3
            <4> QED
                BY <4>4, <4>5
        <3> QED
            BY <2>4, <3>9
    <2>6. Same(d)
        BY <2>3, <2>5
    <2> HIDE DEF Same
    <2> QED
        BY <2>0, <2>6
<1> HIDE DEF S
<1>6. \A d \in 0 .. h : d \in S
    <2>1. \A d \in 1 .. h : d - 1 \in S => d \in S
        BY <1>5
    <2> QED
        BY <1>4, <2>1, Upwards
<1>7. \A d \in 0 .. h : Same(d)
    BY <1>6 DEF S
<1> QED
    BY <1>7, <1>h DEF v

LEMMA Scale ==
    ASSUME NEW a \in Nat, NEW b \in Nat, NEW p \in Nat, a <= b
    PROVE  a * p <= b * p /\ a * p \in Nat
<1>1. PICK c \in Nat : b = a + c
    BY b - a \in Nat
<1>2. (a + c) * p = a * p + c * p
    OBVIOUS
<1>3. a * p \in Nat /\ c * p \in Nat
    OBVIOUS
<1> QED
    BY <1>1, <1>2, <1>3

(* On a batch of 2^E entries, the levels are the tree hashes of the runs   *)
(* of 2^d entries.                                                         *)
LevelIsRuns(s, w, E, d) ==
    /\ Len(LevelsOf(s)[d]) = TwoTo(E - d)
    /\ \A j \in 1 .. TwoTo(E - d) :
           w[TwoTo(d)][(j - 1) * TwoTo(d)] = LevelsOf(s)[d][j]

LEMMA PowerTree ==
    ASSUME NEW s, IsLevel(s), NEW N \in Nat \ {0}, N = Len(s), NEW w, IsMth(w, s, N),
           NEW E \in Nat, N = TwoTo(E)
    PROVE  \A d \in 0 .. E : LevelIsRuns(s, w, E, d)
<1> DEFINE v == LevelsOf(s)
           AsRuns(d) == \A j \in 1 .. TwoTo(E - d) :
                         w[TwoTo(d)][(j - 1) * TwoTo(d)] = v[d][j]
           S == {d \in 0 .. E : /\ Len(v[d]) = TwoTo(E - d)
                                /\ TwoTo(E - d) * TwoTo(d) = N
                                /\ AsRuns(d)}
<1>e. E < N
    BY TwoToIs
<1>1. /\ \A d \in 0 .. N : IsLevel(v[d])
      /\ \A d \in 1 .. N : v[d] = OneUp(v[d - 1])
      /\ v[0] = Leaves(s)
    BY LevelsAre, LevelsExist
<1>l. Len(v[0]) = N
    BY LevelsAre
<1>d. DOMAIN s = 1 .. N
    BY DEF IsLevel
<1> HIDE DEF v
<1>2. 0 \in S
    <2>1. TwoTo(0) = 1 /\ E - 0 = E
        BY TwoToIs
    <2>2. N * 1 = N
        OBVIOUS
    <2>3. ASSUME NEW j \in 1 .. N PROVE w[1][(j - 1) * 1] = v[0][j]
        <3>1. (j - 1) * 1 = j - 1 /\ j - 1 \in 0 .. N - 1 /\ (j - 1) + 1 = j
            OBVIOUS
        <3>2. w[1][j - 1] = LeafHash(s[(j - 1) + 1])
            BY <3>1 DEF IsMth
        <3>3. v[0][j] = LeafHash(s[j])
            BY <1>1, <1>d DEF Leaves
        <3> QED
            BY <3>1, <3>2, <3>3
    <2>4. AsRuns(0)
        BY <2>1, <2>3
    <2> HIDE DEF AsRuns
    <2> QED
        BY <1>l, <2>1, <2>2, <2>4
<1>3. ASSUME NEW d \in 1 .. E, d - 1 \in S PROVE d \in S
    <2>0. /\ d \in 0 .. E /\ d \in 1 .. N /\ d - 1 \in 0 .. N /\ d - 1 \in Nat
          /\ (d - 1) + 1 = d /\ E - d \in Nat /\ (E - d) + 1 = E - (d - 1)
        BY <1>e
    <2>q. PICK q \in Nat : q = TwoTo(d - 1) /\ TwoTo(d) = 2 * q /\ 0 < q
        BY <2>0, TwoToIs
    <2>c. PICK c \in Nat : c = TwoTo(E - d) /\ TwoTo(E - (d - 1)) = 2 * c /\ 0 < c
        BY <2>0, TwoToIs
    <2>1. Len(v[d - 1]) = 2 * c /\ (2 * c) * q = N /\ AsRuns(d - 1)
        BY <1>3, <2>q, <2>c
    <2>2. IsLevel(v[d - 1]) /\ v[d] = OneUp(v[d - 1])
        BY <1>1, <2>0
    <2>3. v[d] = Above(v[d - 1])
        BY <2>1, <2>2, <2>c DEF OneUp
    <2>4. ((2 * c) + 1) \div 2 = c
        OBVIOUS
    <2>5. Len(v[d]) = c /\ \A j \in 1 .. c : v[d][j] =
              NodeHash(Pad(v[d - 1])[2 * j - 1], Pad(v[d - 1])[2 * j])
        <3>1. Len(v[d]) = c
            BY <2>1, <2>2, <2>3, <2>4, AboveIs
        <3>2. \A j \in 1 .. Len(v[d]) : v[d][j] =
                  NodeHash(Pad(v[d - 1])[2 * j - 1], Pad(v[d - 1])[2 * j])
            BY <2>2, <2>3, AboveIs
        <3> QED
            BY <3>1, <3>2
    <2>6. Pad(v[d - 1]) = v[d - 1]
        <3>1. (2 * c) % 2 # 1
            OBVIOUS
        <3> QED
            BY <2>1, <3>1 DEF Pad
    <2>7. c * (2 * q) = N
        BY <2>1
    <2>8. ASSUME NEW j \in 1 .. c PROVE w[2 * q][(j - 1) * (2 * q)] = v[d][j]
        <3> DEFINE from == (j - 1) * (2 * q)
        <3>1. from \in 0 .. N - 2 * q
            <4>1. j \in Nat /\ j <= c /\ j - 1 \in Nat /\ 2 * q \in Nat
                OBVIOUS
            <4>2. j * (2 * q) <= N
                BY <2>7, <4>1, Scale
            <4>3. from \in Nat
                BY <4>1
            <4>4. from + 2 * q = j * (2 * q)
                BY <4>1
            <4> HIDE DEF from
            <4> QED
                BY <4>2, <4>3, <4>4
        <3>2. 2 * q \in 2 .. N
            <4> HIDE DEF from
            <4> QED
                BY <2>q, <3>1
        <3>3. Split(2 * q) = q
            <4>1. 2 * q \in Nat /\ 2 * q >= 2
                BY <3>2
            <4>2. PICK e \in Nat : /\ Split(2 * q) = TwoTo(e)
                                   /\ TwoTo(e) < 2 * q /\ 2 * q <= 2 * TwoTo(e)
                BY <4>1, SplitIs
            <4>3. e = d - 1
                BY <2>0, <2>q, <4>2, SplitUnique
            <4> QED
                BY <2>q, <4>2, <4>3
        <3>4. w[2 * q][from] = NodeHash(w[Split(2 * q)][from],
                                        w[2 * q - Split(2 * q)][from + Split(2 * q)])
            <4> HIDE DEF from
            <4> QED
                BY <3>1, <3>2 DEF IsMth
        <3>5. w[2 * q][from] = NodeHash(w[q][from], w[q][from + q])
            BY <3>3, <3>4, 2 * q - q = q
        <3>6. from = ((2 * j - 1) - 1) * q /\ from + q = (2 * j - 1) * q
            OBVIOUS
        <3>7. 2 * j - 1 \in 1 .. 2 * c /\ 2 * j \in 1 .. 2 * c /\ (2 * j) - 1 = 2 * j - 1
            OBVIOUS
        <3>8. /\ w[q][((2 * j - 1) - 1) * q] = v[d - 1][2 * j - 1]
              /\ w[q][((2 * j) - 1) * q] = v[d - 1][2 * j]
            BY <2>1, <2>q, <2>c, <3>7
        <3> HIDE DEF from
        <3>9. w[q][from] = v[d - 1][2 * j - 1] /\ w[q][from + q] = v[d - 1][2 * j]
            BY <3>6, <3>8
        <3>10. v[d][j] = NodeHash(v[d - 1][2 * j - 1], v[d - 1][2 * j])
            BY <2>5, <2>6
        <3> QED
            BY <3>5, <3>9, <3>10 DEF from
    <2>9. AsRuns(d)
        BY <2>8, <2>q, <2>c
    <2> HIDE DEF AsRuns
    <2>10. Len(v[d]) = TwoTo(E - d) /\ TwoTo(E - d) * TwoTo(d) = N
        BY <2>5, <2>7, <2>q, <2>c
    <2> QED
        BY <2>0, <2>9, <2>10
<1>4. \A d \in 0 .. E : d \in S
    <2> HIDE DEF S
    <2>1. \A d \in 1 .. E : d - 1 \in S => d \in S
        BY <1>3
    <2> QED
        BY <1>2, <2>1, Upwards
<1> QED
    BY <1>4 DEF v, LevelIsRuns

(* The root is RFC 6962's on batches of a power of two, and on no other.   *)
LEMMA RootIsTreeHash ==
    ASSUME NEW s, IsLevel(s), NEW N \in Nat \ {0}, N = Len(s)
    PROVE  (\E e \in 0 .. N : Powers(N)[e] = N) <=> Root(s) = TreeHash(s)
<1>w. PICK w : IsMth(w, s, N)
    BY MthExists
<1>h. PICK h \in Nat : h = Height(s) /\ h <= N
    <2>1. Height(s) \in 0 .. N
        BY HeightIs
    <2> QED
        BY <2>1
<1>1. /\ Len(LevelsOf(s)[h]) = 1 /\ Root(s) = LevelsOf(s)[h][1]
      /\ \A d \in 1 .. h : Len(LevelsOf(s)[d - 1]) > 1
      /\ \A d \in h .. N : LevelsOf(s)[d] = LevelsOf(s)[h]
    BY <1>h, HeightIs
<1>2. TreeHash(s) = w[N][0]
    BY <1>w DEF IsMth
<1>3. ASSUME Root(s) = TreeHash(s) PROVE \E e \in 0 .. N : Powers(N)[e] = N
    <2>1. w[N][0] = LevelsOf(s)[h][1]
        BY <1>1, <1>2, <1>3
    <2>2. /\ h \in 0 .. Height(s) /\ N \in 1 .. N /\ 0 \in 0 .. N - N
          /\ 1 \in 1 .. Len(LevelsOf(s)[h])
        BY <1>h, <1>1
    <2>3. N = TwoTo(h)
        BY <1>w, <2>1, <2>2, FullTree
    <2>4. h \in 0 .. N /\ Powers(N)[h] = TwoTo(h)
        BY <1>h, PowerIs
    <2> QED
        BY <2>3, <2>4
<1>4. ASSUME NEW E \in 0 .. N, Powers(N)[E] = N PROVE Root(s) = TreeHash(s)
    <2>1. E \in Nat /\ N = TwoTo(E)
        BY <1>4, PowerIs
    <2>2. /\ E \in 0 .. E /\ E - E = 0 /\ TwoTo(0) = 1 /\ 1 \in 1 .. 1
          /\ (1 - 1) * TwoTo(E) = 0
        BY <2>1, TwoToIs
    <2>3. Len(LevelsOf(s)[E]) = 1 /\ w[TwoTo(E)][(1 - 1) * TwoTo(E)] = LevelsOf(s)[E][1]
        <3>1. \A d \in 0 .. E : LevelIsRuns(s, w, E, d)
            BY <1>w, <2>1, PowerTree
        <3>2. LevelIsRuns(s, w, E, E)
            BY <2>2, <3>1
        <3>3. TwoTo(E - E) = 1
            BY <2>2
        <3> QED
            BY <2>2, <3>2, <3>3 DEF LevelIsRuns
    <2>4. h <= E
        <3> SUFFICES ASSUME ~(h <= E) PROVE FALSE
            OBVIOUS
        <3>1. E + 1 \in 1 .. h /\ (E + 1) - 1 = E
            BY <1>h
        <3>2. Len(LevelsOf(s)[E]) > 1
            BY <1>1, <3>1
        <3> QED
            BY <2>3, <3>2
    <2>5. LevelsOf(s)[E] = LevelsOf(s)[h]
        BY <1>1, <2>4, E \in h .. N
    <2> QED
        BY <1>1, <1>2, <2>1, <2>2, <2>3, <2>5
<1> QED
    BY <1>3, <1>4

LEMMA ProofsVerifyHolds == DamageInv => ProofsVerify
<1> SUFFICES ASSUME DamageInv, Len(anchored) # 0
             PROVE  LET n == Len(anchored)
                    IN  /\ \A i \in 1 .. n, v \in 1 .. 2 * MaxSeq :
                               Recomputed(v, i - 1, Copath(anchored, i - 1)) = Root(anchored)
                                   <=> v = anchored[i]
                        /\ (\E e \in 0 .. n : Powers(n)[e] = n)
                               <=> Root(anchored) = TreeHash(anchored)
                        /\ n % 2 = 1 /\ n > 1 =>
                               Root(Append(anchored, anchored[n])) = Root(anchored)
    BY DEF ProofsVerify
<1>n. PICK n \in Nat \ {0} : n = Len(anchored)
    BY DEF DamageInv, DamageTypeOK
<1>1. IsLevel(anchored)
    BY <1>n DEF DamageInv, DamageTypeOK, IsLevel
<1>2. ASSUME NEW i \in 1 .. n, NEW v
      PROVE  Recomputed(v, i - 1, Copath(anchored, i - 1)) = Root(anchored)
                 <=> v = anchored[i]
    <2>1. i - 1 \in 0 .. n - 1 /\ (i - 1) + 1 = i
        OBVIOUS
    <2>2. Recomputed(v, i - 1, Copath(anchored, i - 1)) = Root(anchored)
              <=> v = anchored[(i - 1) + 1]
        BY <1>1, <1>n, <2>1, ProofIsSound
    <2> QED
        BY <2>1, <2>2
<1>3. (\E e \in 0 .. n : Powers(n)[e] = n) <=> Root(anchored) = TreeHash(anchored)
    BY <1>1, <1>n, RootIsTreeHash
<1>4. n % 2 = 1 /\ n > 1 => Root(Append(anchored, anchored[n])) = Root(anchored)
    BY <1>1, <1>n, LastTwice
<1> QED
    BY <1>2, <1>3, <1>4, <1>n

(* An inclusion proof verifies for its own leaf and for no other hash; the *)
(* root is RFC 6962's for batches of a power of two only; the last entry   *)
(* of an odd batch may be doubled unseen (ledger/anchor.py), for batches   *)
(* of every size.                                                          *)
THEOREM InclusionProofs == DamageSpec => []ProofsVerify
    BY DamageKnown, ProofsVerifyHolds, PTL

=============================================================================
