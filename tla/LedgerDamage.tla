---------------------------- MODULE LedgerDamage ----------------------------
(***************************************************************************)
(* A ledger of one writer whose table suffers one accident (a damaged      *)
(* payload, a wrong column, a lost row) before or while more entries are   *)
(* appended, and what verify_chain and the Merkle root of an anchored      *)
(* batch make of it.                                                       *)
(***************************************************************************)
EXTENDS VerifyChain, MerkleTree, FiniteSets

CONSTANTS
    MaxSeq      \* bound: the number of entries ever appended

ASSUME MaxSeqAssumption == MaxSeq \in Nat

VARIABLES
    table,      \* in the order of seq: [seq, hash, prevcol, prev, parses,
                \* intact, key], the entry_hash and prev_hash columns and what
                \* the payload says, as module VerifyChain reads them
    nextSeq,    \* the AUTOINCREMENT counter
    damage,     \* the accident: its kind, the seq hit, the seq after it
    anchored    \* the entry hashes of the anchored batch, <<>> before

damageVars == <<table, nextSeq, damage, anchored>>

DamageKinds == {"garbled", "altered", "relinked", "rehashed", "lost"}
NoDamage == [kind |-> "none", at |-> 0, next |-> 0]
Key == "pk"
BadKey == "none"

DamageInit ==
    /\ table = <<>>
    /\ nextSeq = 1
    /\ damage = NoDamage
    /\ anchored = <<>>

Tip == IF table = <<>> THEN NoHash ELSE table[Len(table)].hash

(* LedgerWriter.append: the new entry embeds the tip's entry_hash column.  *)
AppendEntry ==
    /\ nextSeq <= MaxSeq
    /\ table' = Append(table, [seq |-> nextSeq, hash |-> nextSeq,
                             prevcol |-> Tip, prev |-> Tip,
                             parses |-> TRUE, intact |-> TRUE, key |-> Key])
    /\ nextSeq' = nextSeq + 1
    /\ UNCHANGED <<damage, anchored>>

(* What is left of row i after an accident of each kind: the JSON is       *)
(* unreadable; its content differs; its prev_hash column differs; content  *)
(* and entry_hash column differ together.                                  *)
Damaged(row, kind) ==
    CASE kind = "garbled"  -> [row EXCEPT !.parses = FALSE]
      [] kind = "altered"  -> [row EXCEPT !.intact = FALSE, !.key = BadKey]
      [] kind = "relinked" -> [row EXCEPT !.prevcol = MaxSeq + row.seq]
      [] kind = "rehashed" -> [row EXCEPT !.hash = MaxSeq + row.seq,
                                          !.key = BadKey]

SeqAfter(i) == IF i < Len(table) THEN table[i + 1].seq ELSE 0

Accident(i, kind) ==
    /\ damage = NoDamage
    /\ table' = IF kind = "lost"
               THEN SubSeq(table, 1, i - 1) \o SubSeq(table, i + 1, Len(table))
               ELSE [table EXCEPT ![i] = Damaged(@, kind)]
    /\ damage' = [kind |-> kind, at |-> table[i].seq, next |-> SeqAfter(i)]
    /\ UNCHANGED <<nextSeq, anchored>>

(* The first size rows of the table, ORDER BY seq.                         *)
FirstHashes(size) == [i \in 1 .. size |-> table[i].hash]

(* anchor_batch, for the first batch (module Anchor has the whole job).    *)
AnchorFirst(size) ==
    /\ anchored = <<>>
    /\ anchored' = FirstHashes(size)
    /\ UNCHANGED <<table, nextSeq, damage>>

DamageNext ==
    \/ AppendEntry
    \/ \E size \in DOMAIN table : AnchorFirst(size)
    \/ \E i \in DOMAIN table, kind \in DamageKinds : Accident(i, kind)

DamageSpec == DamageInit /\ [][DamageNext]_damageVars

-----------------------------------------------------------------------------

Present == {table[i].seq : i \in DOMAIN table}

(* The row right after the damaged one in the table, if there is one.      *)
Successor ==
    {s \in Present : /\ s > damage.at
                     /\ \A r \in Present : r > damage.at => s <= r}

(* The seqs an accident must taint.  An unreadable payload also taints the *)
(* row after it, even one appended later; a lost row or a changed          *)
(* entry_hash taints the row that already embedded the old hash; a lost    *)
(* last row taints nothing, nor do rows appended after that.               *)
Expected ==
    LET follower == {damage.next} \ {0} IN
    CASE damage.kind = "none" -> {}
      [] damage.kind = "garbled" -> {damage.at} \cup Successor
      [] damage.kind \in {"altered", "relinked"} -> {damage.at}
      [] damage.kind = "rehashed" -> {damage.at} \cup follower
      [] damage.kind = "lost" -> follower

(* verify_chain reports exactly these: it misses no accident but the loss  *)
(* of the tail, and resynchronises on the row after the damage.            *)
TaintExact == Tainted(table, Key, 1) = Expected

(* A walk that starts at seq s agrees with the full walk on every row from *)
(* s on but perhaps s itself, and on s too when the row before it is there *)
(* and readable: its seed is then the hash the full walk holds.            *)
RangeAgrees ==
    \A s \in Present :
        LET full == {q \in Tainted(table, Key, 1) : q >= s}
            part == Tainted(table, Key, s)
            seeded == \/ s = 1
                      \/ \E i \in DOMAIN table :
                             table[i].seq = s - 1 /\ table[i].parses
        IN  /\ full \ {s} = part \ {s}
            /\ seeded => full = part

(* An inclusion proof taken from the anchored batch verifies for the leaf  *)
(* it was taken for, and for no other entry hash at that index; and on     *)
(* batches of a power of two, the default 256 among them, the root it      *)
(* leads to is RFC 6962's.  An odd level makes it another one, which also  *)
(* is the root of the batch with its last entry twice (anchor.py:36-89).   *)
ProofsVerify ==
    LET n == Len(anchored) IN
    n # 0 =>
        /\ \A i \in 1 .. n, h \in 1 .. 2 * MaxSeq :
               Recomputed(h, i - 1, Copath(anchored, i - 1)) = Root(anchored)
                   <=> h = anchored[i]
        /\ (\E e \in 0 .. n : Powers(n)[e] = n) <=> Root(anchored) = TreeHash(anchored)
        /\ n % 2 = 1 /\ n > 1 =>
               Root(Append(anchored, anchored[n])) = Root(anchored)

(* The two mechanisms together miss no accident to an anchored row: what   *)
(* verify_chain cannot see, the loss of the last rows, changes the root of *)
(* the batch or leaves it incomplete, whatever is appended after the loss. *)
NothingSlips ==
    LET n == Len(anchored)
        reproduced == /\ Len(table) >= n
                      /\ Root(FirstHashes(n)) = Root(anchored)
    IN  damage.at \in {anchored[i] : i \in 1 .. n} =>
            Tainted(table, Key, 1) # {} \/ ~reproduced
=============================================================================
