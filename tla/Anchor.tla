------------------------------- MODULE Anchor -------------------------------
(***************************************************************************)
(* The Merkle anchor job (anchor_batch of ledger/anchor.py): each call     *)
(* reads the last batch, reads the entries of the next one, submits their  *)
(* root to Rekor and inserts a row in the anchor table.  The steps are     *)
(* separate autocommit statements around a long network call, and nothing  *)
(* keeps two calls from overlapping.                                       *)
(*                                                                         *)
(* An entry_hash is identified with its seq, and a Merkle root with the    *)
(* sequence of leaves it commits to (module MerkleTree has the tree).      *)
(***************************************************************************)
EXTENDS Naturals, Sequences, FiniteSets

CONSTANTS
    Anchorers,  \* the callers of anchor_batch
    SizeOf,     \* the batch_size each of them passes
    MaxEntries,    \* bound: entries the ledger grows to
    MaxLog      \* bound: submissions Rekor logs

ASSUME AnchorAssumption ==
    /\ SizeOf \in [Anchorers -> Nat \ {0}]
    /\ MaxEntries \in Nat
    /\ MaxLog \in Nat

VARIABLES
    entries,    \* the number of rows of the ledger table
    anchors,    \* the anchor table
    rekor,      \* the Rekor log
    call,       \* where each call stands
    max,        \* max_batch of each call
    leaves,     \* the leaves each call hashes
    index       \* rekor_index of each call, 0 for None

anchorVars == <<entries, anchors, rekor, call, max, leaves, index>>

Anchored == [batch : Nat \ {0}, leaves : Seq(Nat), index : Nat]
Submitted == [batch : Nat \ {0}, leaves : Seq(Nat)]

(* Batch sequence numbers are a primary key.                               *)
AnchorTypeOK ==
    /\ entries \in Nat
    /\ anchors \subseteq Anchored
    /\ \A a, b \in anchors : a.batch = b.batch => a = b
    /\ rekor \in Seq(Submitted)
    /\ call \in [Anchorers -> {"idle", "rows", "submit", "insert"}]
    /\ max \in [Anchorers -> Nat]
    /\ leaves \in [Anchorers -> Seq(Nat)]
    /\ index \in [Anchorers -> Nat]

AnchorInit ==
    /\ entries = 0
    /\ anchors = {}
    /\ rekor = <<>>
    /\ call = [p \in Anchorers |-> "idle"]
    /\ max = [p \in Anchorers |-> 0]
    /\ leaves = [p \in Anchorers |-> <<>>]
    /\ index = [p \in Anchorers |-> 0]

-----------------------------------------------------------------------------

(* LedgerWriter.append, from any process.                                  *)
Grow ==
    /\ entries < MaxEntries
    /\ entries' = entries + 1
    /\ UNCHANGED <<anchors, rekor, call, max, leaves, index>>

(* SELECT COALESCE(MAX(batch_seq), 0) FROM anchor                          *)
IsLastBatch(m) ==
    /\ m = 0 => anchors = {}
    /\ m # 0 => \E a \in anchors : a.batch = m
    /\ \A a \in anchors : a.batch <= m

ReadMax(p) ==
    /\ call[p] = "idle"
    /\ \E m \in {0} \cup {a.batch : a \in anchors} :
           IsLastBatch(m) /\ max' = [max EXCEPT ![p] = m]
    /\ call' = [call EXCEPT ![p] = "rows"]
    /\ UNCHANGED <<entries, anchors, rekor, leaves, index>>

(* The seqs of batch k when every batch has `size` entries.                *)
Batch(k, size) == [i \in 1 .. size |-> (k - 1) * size + i]

(* The call is over: its locals are gone.                                  *)
Return(p) ==
    /\ call' = [call EXCEPT ![p] = "idle"]
    /\ max' = [max EXCEPT ![p] = 0]
    /\ leaves' = [leaves EXCEPT ![p] = <<>>]
    /\ index' = [index EXCEPT ![p] = 0]

(* The call hashes `batch` if there is one, and returns None if not.       *)
Take(p, full, batch) ==
    /\ call[p] = "rows"
    /\ IF full
       THEN /\ call' = [call EXCEPT ![p] = "submit"]
            /\ leaves' = [leaves EXCEPT ![p] = batch]
            /\ UNCHANGED <<max, index>>
       ELSE Return(p)
    /\ UNCHANGED <<entries, anchors, rekor>>

(* Mutation: start_seq is the last entry of the batch before.              *)
ReadRowsOverlap(p) ==
    LET batch == Batch(max[p] + 1, SizeOf[p])
    IN  Take(p, batch[SizeOf[p]] <= entries,
             [i \in 1 .. SizeOf[p] |->
                 IF max[p] = 0 THEN i ELSE batch[i] - 1])

(* Mutation: a batch that is not full yet is anchored as it is.            *)
ReadRowsPartial(p) ==
    LET there == SelectSeq(Batch(max[p] + 1, SizeOf[p]),
                           LAMBDA s : s <= entries)
    IN  Take(p, there # <<>>, there)

(* The next size entries from max_batch * size + 1 on; None when there are *)
(* fewer yet.                                                              *)
ReadRows(p) ==
    LET batch == Batch(max[p] + 1, SizeOf[p])
    IN  Take(p, batch[SizeOf[p]] <= entries, batch)

Log(p) ==
    /\ Len(rekor) < MaxLog
    /\ rekor' = Append(rekor, [batch |-> max[p] + 1, leaves |-> leaves[p]])

(* _submit_to_rekor: Rekor logs the root and answers; it logs the root but *)
(* the answer is lost or rejected; or nothing is logged (offline, network  *)
(* down).  In the last two cases the call goes on without an index.        *)
Submit(p) ==
    /\ call[p] = "submit"
    /\ \/ Log(p) /\ index' = [index EXCEPT ![p] = Len(rekor) + 1]
       \/ Log(p) /\ UNCHANGED index
       \/ UNCHANGED <<rekor, index>>
    /\ call' = [call EXCEPT ![p] = "insert"]
    /\ UNCHANGED <<entries, anchors, max, leaves>>

(* The INSERT raises IntegrityError when the batch is in the table by now. *)
InsertAnchor(p) ==
    /\ call[p] = "insert"
    /\ IF \E a \in anchors : a.batch = max[p] + 1
       THEN UNCHANGED anchors
       ELSE anchors' = anchors \cup
                {[batch |-> max[p] + 1, leaves |-> leaves[p],
                  index |-> index[p]]}
    /\ Return(p)
    /\ UNCHANGED <<entries, rekor>>

(* A locked database or the death of the process ends the call anywhere.   *)
FailAnchor(p) ==
    /\ call[p] # "idle"
    /\ Return(p)
    /\ UNCHANGED <<entries, anchors, rekor>>

AnchorNext ==
    \/ Grow
    \/ \E p \in Anchorers :
           ReadMax(p) \/ ReadRows(p) \/ Submit(p) \/ InsertAnchor(p) \/ FailAnchor(p)

AnchorSpec == AnchorInit /\ [][AnchorNext]_anchorVars

-----------------------------------------------------------------------------
(* Properties.                                                             *)

(* "Anchor the next complete batch of entries" (anchor.py): read in batch  *)
(* order the anchored leaves are the seqs 1, 2, 3, ... of rows that exist, *)
(* none skipped and none twice, however the calls overlap or fail.         *)
Consecutive ==
    \A a \in anchors :
        /\ \A i \in 1 .. Len(a.leaves) : a.leaves[i] = a.leaves[1] + (i - 1)
        /\ a.leaves[Len(a.leaves)] <= entries
        /\ IF a.batch = 1 THEN a.leaves[1] = 1
           ELSE \E b \in anchors :
                    /\ b.batch = a.batch - 1
                    /\ a.leaves[1] = b.leaves[Len(b.leaves)] + 1

(* Calls that race, retry after a lost answer or lose the insert may log a *)
(* batch several times, but Rekor never holds two contents for one batch,  *)
(* nor one that differs from the table's, and an anchor's index leads to   *)
(* the log entry of that very batch.                                       *)
RekorAgrees ==
    /\ \A i, j \in DOMAIN rekor :
           rekor[i].batch = rekor[j].batch => rekor[i] = rekor[j]
    /\ \A a \in anchors, i \in DOMAIN rekor :
           a.batch = rekor[i].batch => a.leaves = rekor[i].leaves
    /\ \A a \in anchors : a.index # 0 =>
           /\ a.index \in DOMAIN rekor
           /\ rekor[a.index] = [batch |-> a.batch, leaves |-> a.leaves]
=============================================================================
