---------------------------- MODULE VerifyChain ----------------------------
(***************************************************************************)
(* verify_chain of ledger/verify.py, as a function of the table it reads.  *)
(*                                                                         *)
(* A row carries its `seq`, the columns `hash` (entry_hash) and `prevcol`  *)
(* (prev_hash), and what the verifier finds out about its payload: whether *)
(* it `parses`, the `prev` hash inside it, whether its BLAKE3 hash is the  *)
(* one in the column (`intact`), and the `key` its signature verifies      *)
(* under.  A table is a sequence of rows in seq order; 0 is a null hash.   *)
(***************************************************************************)
EXTENDS Naturals, Sequences

NoHash == 0

(* Mutation: a tainted row leaves prev_hash as it was.                     *)
WalkNoResync(acc, row, pk) ==
    LET good == /\ row.parses
                /\ row.prev = acc.prev
                /\ row.prevcol = acc.prev
                /\ row.intact
                /\ row.key = pk
    IN  IF good THEN [prev |-> row.hash, tainted |-> acc.tainted]
        ELSE [prev |-> acc.prev, tainted |-> acc.tainted \cup {row.seq}]

(* The loop body: `prev` is prev_hash, the hash the next row must embed. A *)
(* payload that does not parse leaves prev as it was; every other verdict  *)
(* moves it on.                                                            *)
Walk(acc, row, pk) ==
    LET good == /\ row.prev = acc.prev
                /\ row.prevcol = acc.prev
                /\ row.intact
                /\ row.key = pk
    IN  [prev    |-> IF row.parses THEN row.hash ELSE acc.prev,
         tainted |-> IF row.parses /\ good THEN acc.tainted
                     ELSE acc.tainted \cup {row.seq}]

(* Mutation: the walk is seeded with the hash of the first row itself.     *)
SeedOffByOne(rows, start) ==
    LET first == {i \in DOMAIN rows : rows[i].seq = start}
    IN  IF start > 1 /\ first # {}
        THEN rows[CHOOSE i \in first : TRUE].hash ELSE NoHash

(* With start_seq > 1 the walk starts from the entry_hash column of row    *)
(* start - 1, whatever that row's payload holds.                           *)
Seed(rows, start) ==
    LET before == {i \in DOMAIN rows : rows[i].seq = start - 1}
    IN  IF start > 1 /\ before # {}
        THEN rows[CHOOSE i \in before : TRUE].hash ELSE NoHash

(* The tainted seqs verify_chain reports for `rows` under public key pk.   *)
Tainted(rows, pk, start) ==
    LET walk[i \in 0 .. Len(rows)] ==
            IF i = 0 THEN [prev |-> Seed(rows, start), tainted |-> {}]
            ELSE IF rows[i].seq < start THEN walk[i - 1]
            ELSE Walk(walk[i - 1], rows[i], pk)
    IN  walk[Len(rows)].tainted
=============================================================================
