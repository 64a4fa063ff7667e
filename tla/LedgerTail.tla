----------------------------- MODULE LedgerTail -----------------------------
(***************************************************************************)
(* The dashboard's tail of the ledger: _sse_ledger_tail (ui/http.py) polls *)
(* the table through LedgerReader.recent (ledger/reader.py) while the      *)
(* threads of module Ledger append to it.  One client; a row is its seq.   *)
(***************************************************************************)
EXTENDS Ledger, SequencesExt

CONSTANTS
    SeedPage,       \* rows sent on connect (8)
    Page            \* rows of a poll (64)

ASSUME TailAssumption == SeedPage \in Nat \ {0} /\ Page \in Nat \ {0}

VARIABLES
    open,       \* a client is connected
    lastSeq,    \* last_seq
    gap,        \* what it was sent leaves out a row, or repeats one
    looked,     \* the length of the table when it was last read
    burst       \* more rows came between two reads than a read returns

tailVars == <<open, lastSeq, gap, looked, burst>>

Hidden == open = FALSE /\ lastSeq = 0 /\ gap = FALSE /\ looked = 0 /\ burst = FALSE

TailInit == Init /\ Hidden

-----------------------------------------------------------------------------

(* LedgerReader.recent, oldest first.                                      *)
Recent(n) ==
    LET seqs == [i \in DOMAIN rows |-> i]
    IN  IF Len(seqs) <= n THEN seqs ELSE SubSeq(seqs, Len(seqs) - n + 1, Len(seqs))

(* The rows of a page after last_seq: it is in the order of seq.           *)
Newer(page) ==
    SubSeq(page, Min({i \in DOMAIN page : page[i] > lastSeq} \cup {Len(page) + 1}), Len(page))

Send(seqs) ==
    /\ gap' = (gap \/ (seqs # <<>> /\ lastSeq # 0 /\ Head(seqs) # lastSeq + 1))
    /\ lastSeq' = IF seqs = <<>> THEN lastSeq ELSE Last(seqs)
    /\ looked' = Len(rows)

(* Mutation: a poll reads no more than the page of a new client.           *)
PollSeedPage ==
    /\ open
    /\ Send(Newer(Recent(SeedPage)))
    /\ burst' = (burst \/ Len(rows) > looked + Page)
    /\ UNCHANGED open

(* Connecting sends the newest rows; without a database nothing is sent.   *)
Connect ==
    /\ ~open
    /\ open' = TRUE
    /\ \/ Send(Recent(SeedPage)) /\ burst' = FALSE
       \/ UNCHANGED <<lastSeq, gap, looked, burst>>

(* A poll; one that fails changes nothing.                                 *)
Poll ==
    /\ open
    /\ Send(Newer(Recent(Page)))
    /\ burst' = (burst \/ Len(rows) > looked + Page)
    /\ UNCHANGED open

Disconnect ==
    /\ open
    /\ open' = FALSE /\ lastSeq' = 0 /\ gap' = FALSE /\ looked' = 0 /\ burst' = FALSE

TailNext ==
    \/ Next /\ UNCHANGED tailVars
    \/ (Connect \/ Poll \/ Disconnect) /\ UNCHANGED vars

TailSpec == TailInit /\ [][TailNext]_<<vars, tailVars>>

-----------------------------------------------------------------------------

(* A client has the table up to its last poll, and from the first row it   *)
(* was sent on it has every row once and in order, whatever is appended    *)
(* meanwhile by whom, as long as no more rows come between two polls than  *)
(* a poll returns (ui/http.py:370-406).                                    *)
TailFollows == lastSeq = looked /\ (gap => burst)
=============================================================================
