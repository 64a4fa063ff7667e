----------------------------- MODULE MerkleTree -----------------------------
(***************************************************************************)
(* The Merkle tree over a batch of entry hashes and the inclusion proofs   *)
(* taken from it (ledger/anchor.py), as functions of the batch.            *)
(*                                                                         *)
(* BLAKE3 is an injective function here: a hash is the tuple of what was   *)
(* hashed, with the domain byte in front.                                  *)
(***************************************************************************)
EXTENDS Naturals, Sequences

LeafHash(v) == <<0, v>>
NodeHash(a, b) == <<1, a, b>>

(* Mutation: the odd hash of a level is dropped.                           *)
PadDropping(level) ==
    IF Len(level) % 2 = 1 THEN SubSeq(level, 1, Len(level) - 1) ELSE level

(* An odd level ends with its last hash twice.                             *)
Pad(level) ==
    IF Len(level) % 2 = 1 THEN Append(level, level[Len(level)]) ELSE level

Above(level) ==
    LET l == Pad(level)
    IN  [i \in 1 .. Len(l) \div 2 |-> NodeHash(l[2 * i - 1], l[2 * i])]

(* The levels of the tree over s, from the leaf hashes to the root.        *)
LevelsOf(s) ==
    LET level[d \in 0 .. Len(s)] ==
            IF d = 0 THEN [i \in DOMAIN s |-> LeafHash(s[i])]
            ELSE IF Len(level[d - 1]) = 1 THEN level[d - 1]
            ELSE Above(level[d - 1])
    IN  level

Root(s) == LevelsOf(s)[Len(s)][1]

(* Mutation: the sibling is the next hash wherever there is one.           *)
SiblingNext(i, size) == IF i + 1 < size THEN i + 1 ELSE i

(* The 0-based position i ^ 1.                                             *)
Sibling(i, size) == IF i % 2 = 0 THEN i + 1 ELSE i - 1

(* The 0-based position of leaf i's way to the root on each of n levels    *)
(* above it: it halves from one to the next.                               *)
Way(i, n) ==
    LET at[d \in 0 .. n] == IF d = 0 THEN i ELSE at[d - 1] \div 2
    IN  at

(* The siblings met on the way from leaf i (0-based) to the root: one for  *)
(* every level of more than one hash.                                      *)
Copath(s, i) ==
    LET levels == LevelsOf(s)
        height == CHOOSE h \in 0 .. Len(s) :
                      /\ Len(levels[h]) = 1
                      /\ \A g \in 0 .. h - 1 : Len(levels[g]) > 1
    IN  [d \in 1 .. height |->
            LET l == Pad(levels[d - 1])
            IN  l[Sibling(Way(i, Len(s))[d - 1], Len(l)) + 1]]

(* What a verifier recomputes from a leaf, its index and its copath, as    *)
(* the tests' _verify_inclusion does.                                      *)
Recomputed(v, i, path) ==
    LET up[d \in 0 .. Len(path)] ==
            IF d = 0 THEN LeafHash(v)
            ELSE IF Way(i, Len(path))[d - 1] % 2 = 0
                 THEN NodeHash(up[d - 1], path[d])
                 ELSE NodeHash(path[d], up[d - 1])
    IN  up[Len(path)]

(* The powers of two, from 1 on.                                           *)
Powers(n) ==
    LET power[e \in 0 .. n] == IF e = 0 THEN 1 ELSE 2 * power[e - 1]
    IN  power

(* RFC 6962's tree hash: mth[n] is the hash of n entries of s, after the   *)
(* first `from`, split at the largest power of two below n.                *)
TreeHash(s) ==
    LET mth[n \in 1 .. Len(s)] ==
            [from \in 0 .. Len(s) - n |->
                IF n = 1 THEN LeafHash(s[from + 1])
                ELSE LET k == CHOOSE p \in {Powers(n)[e] : e \in 0 .. n} :
                                  p < n /\ n <= 2 * p
                     IN  NodeHash(mth[k][from], mth[n - k][from + k])]
    IN  mth[Len(s)][0]
=============================================================================
