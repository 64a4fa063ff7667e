--------------------------- MODULE AbstractLedger ---------------------------
(***************************************************************************)
(* What the forensic ledger promises its readers: one hash chain that only *)
(* grows at its end.  An entry is identified by its position; `prev` is    *)
(* the entry whose hash it embeds (Null for the first one) and `custody`   *)
(* the entries it names as its parents.                                    *)
(***************************************************************************)
EXTENDS Naturals, Sequences

Null == 0      \* prev_hash of the first entry; also an id that names no entry

VARIABLE chain

Init == chain = <<>>

(* An entry links to the tip and may only vouch for entries already there. *)
Extend ==
    \E custody \in SUBSET (Null .. Len(chain)) :
        chain' = Append(chain, [prev |-> Len(chain), custody |-> custody])

Next == Extend

Spec == Init /\ [][Next]_chain
=============================================================================
