------------------------------- MODULE Ledger -------------------------------
(***************************************************************************)
(* The SQLite hash chain and the threads that append to it                 *)
(* (ledger/writer.py, ledger/events.py, scripts/seed_genesis.py).          *)
(*                                                                         *)
(* A thread holds a LedgerWriter, whose threading.Lock is private to that  *)
(* instance; append() takes the lock, reads the tip and inserts, and the   *)
(* read and the INSERT are two separate autocommit statements.  The bytes  *)
(* of an entry hold a fresh UUIDv7 and a nonce, so its BLAKE3 hash names   *)
(* one row: the model identifies a hash with the row's seq, and the null   *)
(* prev_hash with 0.  A thread's caller runs a job: a single record, the   *)
(* genesis record, or a consensus frame (report entries, then the entry    *)
(* that fuses them), one append() each.                                    *)
(***************************************************************************)
EXTENDS Naturals, Sequences, FiniteSets

CONSTANTS
    Threads,        \* the threads of all processes that append
    Instances,      \* the LedgerWriter instances
    InstanceOf,     \* the instance each thread appends through
    NoThread,       \* the owner of a free lock
    MaxReports,     \* reports a frame may carry (16 in the code)
    MaxRows         \* bound: no job starts once the ledger has MaxRows rows

ASSUME LedgerAssumption ==
    /\ InstanceOf \in [Threads -> Instances]
    /\ NoThread \notin Threads
    /\ MaxReports \in Nat
    /\ MaxRows \in Nat

Null == 0

VARIABLES
    rows,    \* the ledger table, ORDER BY seq
    lock,    \* LedgerWriter._lock of each instance
    pc,      \* where each thread stands in append()
    seen,    \* prev_hash, the tip each thread read last
    job      \* what each thread's caller still has to append

vars == <<rows, lock, pc, seen, job>>

Kinds == {"report", "consensus", "record", "genesis"}

(* `fused` is the number of reports a consensus entry claims to have fused *)
(* and `inst` the instance that wrote the row.                             *)
Row == [prev : Nat, kind : Kinds, custody : SUBSET Nat,
        fused : 0 .. MaxReports, inst : Instances]

(* `custody` holds the ids written so far (a frame) or the parent (a       *)
(* record); `left` the reports of the frame still to be appended.          *)
Job == [kind : Kinds \ {"report"}, fused : 0 .. MaxReports,
        left : 0 .. MaxReports, custody : SUBSET Nat]

SingleEntry(kind, custody) ==
    [kind |-> kind, fused |-> 0, left |-> 0, custody |-> custody]

NoJob == SingleEntry("record", {})

TypeOK ==
    /\ rows \in Seq(Row)
    /\ lock \in [Instances -> Threads \cup {NoThread}]
    /\ pc \in [Threads -> {"idle", "enter", "tip", "insert"}]
    /\ seen \in [Threads -> Nat]
    /\ job \in [Threads -> Job]

Init ==
    /\ rows = <<>>
    /\ lock = [i \in Instances |-> NoThread]
    /\ pc = [t \in Threads |-> "idle"]
    /\ seen = [t \in Threads |-> Null]
    /\ job = [t \in Threads |-> NoJob]

-----------------------------------------------------------------------------
(* Callers.                                                                *)

Start(t, j) ==
    /\ pc[t] = "idle"
    /\ Len(rows) < MaxRows
    /\ pc' = [pc EXCEPT ![t] = "enter"]
    /\ job' = [job EXCEPT ![t] = j]
    /\ UNCHANGED <<rows, lock, seen>>

(* append_raw_record has no parent; the executor and the narrator cite the *)
(* consensus entry of the frame they act on, when the frame names one.     *)
StartRecord(t) ==
    \E parent \in SUBSET {i \in 1 .. Len(rows) : rows[i].kind = "consensus"} :
        /\ Cardinality(parent) <= 1
        /\ Start(t, SingleEntry("record", parent))

(* seed_genesis: the emptiness check runs before append() takes the lock.  *)
StartGenesis(t) ==
    /\ rows = <<>>
    /\ Start(t, SingleEntry("genesis", {}))

(* append_consensus_frame keeps the first MaxReports reports.              *)
StartFrame(t, n) ==
    LET kept == IF n <= MaxReports THEN n ELSE MaxReports
    IN  Start(t, [kind |-> "consensus", fused |-> kept, left |-> kept,
                  custody |-> {}])

-----------------------------------------------------------------------------
(* LedgerWriter.append.                                                    *)

(* Mutation: the lock is taken without waiting for its holder.             *)
AcquireHeld(t) ==
    /\ pc[t] = "enter"
    /\ lock' = [lock EXCEPT ![InstanceOf[t]] = t]
    /\ pc' = [pc EXCEPT ![t] = "tip"]
    /\ UNCHANGED <<rows, seen, job>>

Acquire(t) ==
    /\ pc[t] = "enter"
    /\ lock[InstanceOf[t]] = NoThread
    /\ lock' = [lock EXCEPT ![InstanceOf[t]] = t]
    /\ pc' = [pc EXCEPT ![t] = "tip"]
    /\ UNCHANGED <<rows, seen, job>>

ReadTip(t) ==
    /\ pc[t] = "tip"
    /\ seen' = [seen EXCEPT ![t] = Len(rows)]
    /\ pc' = [pc EXCEPT ![t] = "insert"]
    /\ UNCHANGED <<rows, lock, job>>

(* The entry the thread is about to insert: a report while some are left,  *)
(* else the job's last entry.  A consensus entry must have parents, and    *)
(* one without reports gets the id of no entry.                            *)
NextEntry(t) ==
    LET j == job[t]
        parents == IF j.kind = "consensus" /\ j.custody = {}
                   THEN {Null} ELSE j.custody
    IN  IF j.left = 0
        THEN [prev |-> seen[t], kind |-> j.kind, custody |-> parents,
              fused |-> j.fused, inst |-> InstanceOf[t]]
        ELSE [prev |-> seen[t], kind |-> "report", custody |-> {},
              fused |-> 0, inst |-> InstanceOf[t]]

(* The rest of a frame once its next report has become row `id`.           *)
Written(j, id) ==
    [kind |-> j.kind, fused |-> j.fused, left |-> j.left - 1,
     custody |-> j.custody \cup {id}]

(* Leaving append(): the lock is free and the local prev_hash is gone.     *)
Forget(t) == seen' = [seen EXCEPT ![t] = Null]
Release(t) == Forget(t) /\ lock' = [lock EXCEPT ![InstanceOf[t]] = NoThread]

(* The INSERT commits and the lock is released; the caller goes on with    *)
(* the next entry of its frame, if it has one.                             *)
Insert(t) ==
    /\ pc[t] = "insert"
    /\ rows' = Append(rows, NextEntry(t))
    /\ Release(t)
    /\ IF job[t].left = 0
       THEN /\ pc' = [pc EXCEPT ![t] = "idle"]
            /\ job' = [job EXCEPT ![t] = NoJob]
       ELSE /\ pc' = [pc EXCEPT ![t] = "enter"]
            /\ job' = [job EXCEPT ![t] = Written(@, Len(rows) + 1)]

(* Mutation: the frame goes on without the report that failed.             *)
FailSwallowed(t) ==
    /\ pc[t] = "insert"
    /\ Release(t)
    /\ IF job[t].left = 0
       THEN /\ pc' = [pc EXCEPT ![t] = "idle"]
            /\ job' = [job EXCEPT ![t] = NoJob]
       ELSE /\ pc' = [pc EXCEPT ![t] = "enter"]
            /\ job' = [job EXCEPT ![t].left = @ - 1]
    /\ UNCHANGED rows

(* The tip query, validation or the INSERT raises (a busy database, a      *)
(* rejected field): the `with` releases the lock and the caller gives its  *)
(* whole job up.                                                           *)
Fail(t) ==
    /\ pc[t] \in {"tip", "insert"}
    /\ Release(t)
    /\ pc' = [pc EXCEPT ![t] = "idle"]
    /\ job' = [job EXCEPT ![t] = NoJob]
    /\ UNCHANGED rows

(* The process that owns instance i dies and is restarted by systemd: its  *)
(* threads are gone, and the committed rows stay.                          *)
Crash(i) ==
    LET dead == {t \in Threads : InstanceOf[t] = i}
    IN  /\ \E t \in dead : pc[t] # "idle"
        /\ pc' = [t \in Threads |-> IF t \in dead THEN "idle" ELSE pc[t]]
        /\ job' = [t \in Threads |-> IF t \in dead THEN NoJob ELSE job[t]]
        /\ seen' = [t \in Threads |-> IF t \in dead THEN Null ELSE seen[t]]
        /\ lock' = [lock EXCEPT ![i] = NoThread]
        /\ UNCHANGED rows

-----------------------------------------------------------------------------

Step(t) == Acquire(t) \/ ReadTip(t) \/ Insert(t) \/ Fail(t)

Next ==
    \/ \E t \in Threads :
        \/ StartRecord(t)
        \/ StartGenesis(t)
        \/ \E n \in 0 .. MaxReports + 1 : StartFrame(t, n)
        \/ Step(t)
    \/ \E i \in Instances : Crash(i)

Spec == Init /\ [][Next]_vars

-----------------------------------------------------------------------------
(* Properties.                                                             *)

(* Every row embeds the hash of the row right before it, the first one     *)
(* null: what test_ledger_prev_hash_linkage asserts and verify_chain needs *)
(* to report no taint.                                                     *)
ChainLinked == \A i \in 1 .. Len(rows) : rows[i].prev = i - 1

(* Whatever the number of instances, a row embeds the hash of an earlier   *)
(* row (no cycle, no dangling hash), and of one not older than any row     *)
(* its own instance had written: an instance never forks the chain with    *)
(* itself, so a fork has at most one branch per instance.                  *)
ChainOrder ==
    \A i \in 1 .. Len(rows) :
        /\ rows[i].prev < i
        /\ \A k \in 1 .. i - 1 :
               rows[k].inst = rows[i].inst => k <= rows[i].prev

(* A consensus entry is in the ledger only after every report it fuses is, *)
(* and it cites exactly these, whatever failed or crashed on the way; any  *)
(* other entry cites consensus entries before it.                          *)
ConsensusComplete ==
    \A i \in 1 .. Len(rows) :
        LET r == rows[i] IN
        /\ r.kind = "consensus" /\ r.fused > 0 =>
               /\ Cardinality(r.custody) = r.fused
               /\ \A c \in r.custody : /\ c \in 1 .. i - 1
                                       /\ rows[c].kind = "report"
                                       /\ rows[c].inst = r.inst
        /\ r.kind \in {"record", "genesis"} =>
               \A c \in r.custody : c \in 1 .. i - 1
                                    /\ rows[c].kind = "consensus"

(* Through one shared instance the table is the append-only hash chain.    *)
AL == INSTANCE AbstractLedger WITH
          chain <- [i \in DOMAIN rows |-> [prev |-> rows[i].prev,
                                           custody |-> rows[i].custody]]

Refines == AL!Spec
=============================================================================
