----------------------------- MODULE KeyRotation -----------------------------
(***************************************************************************)
(* The signing key of the ledger: scripts/rotate_signing_key.py against    *)
(* the processes that open a LedgerWriter and append with it.              *)
(*                                                                         *)
(* Keys are numbered in the order they are generated; 1 is the installed   *)
(* one.  A LedgerWriter reads the sk file, then the pk file, once, when it *)
(* is opened.  write_bytes truncates a file before it fills it, so a       *)
(* reader may find it empty: SigningKey(b"") raises, while the fingerprint *)
(* of an empty pk file is computed like any other.                         *)
(* An append() is one step here; module Ledger has its inner steps.        *)
(***************************************************************************)
EXTENDS Naturals, Sequences

CONSTANTS
    Procs,      \* the processes: services, and runs of the script
    MaxKeys,    \* bound: keys ever generated
    MaxSigned     \* bound: entries ever appended

ASSUME KeyRotationAssumption == MaxKeys \in Nat /\ MaxSigned \in Nat

Empty == 0      \* a truncated file
FirstKey == 1

VARIABLES
    signed,     \* the ledger: signing key, pk fingerprint, announced key
    sk,         \* the key in the sk file
    pk,         \* the key in the pk file
    made,       \* the number of keys generated so far
    place,      \* where each process stands
    hsk,        \* LedgerWriter.sk of each process
    hpk,        \* LedgerWriter.pk_fpr of each process
    new         \* the key a run of the script installs, 0 for a service

rotationVars == <<signed, sk, pk, made, place, hsk, hpk, new>>

SignedRow == [key : Nat, fpr : Nat, announces : Nat]

(* Where a run of the script stands once its entry is appended, and any    *)
(* process: its writer closed, with the sk file read, or open.             *)
Swapping == {"announced", "skcut", "skset", "pkcut"}
Places == Swapping \cup {"closed", "half", "open"}

RotationTypeOK ==
    /\ signed \in Seq(SignedRow)
    /\ sk \in Nat
    /\ pk \in Nat
    /\ made \in Nat \ {0}
    /\ place \in [Procs -> Places]
    /\ hsk \in [Procs -> Nat]
    /\ hpk \in [Procs -> Nat]
    /\ new \in [Procs -> Nat \ {FirstKey}]
    /\ \A p \in Procs : place[p] \in Swapping => new[p] # 0

RotationInit ==
    /\ signed = <<>>
    /\ sk = FirstKey
    /\ pk = FirstKey
    /\ made = FirstKey
    /\ place = [p \in Procs |-> "closed"]
    /\ hsk = [p \in Procs |-> Empty]
    /\ hpk = [p \in Procs |-> Empty]
    /\ new = [p \in Procs |-> 0]

-----------------------------------------------------------------------------

Goto(p, at) == place' = [place EXCEPT ![p] = at]

(* LedgerWriter.__init__ reads the sk file; an empty one raises.           *)
ReadSk(p) ==
    /\ place[p] = "closed"
    /\ sk # Empty
    /\ hsk' = [hsk EXCEPT ![p] = sk]
    /\ Goto(p, "half")

StartService(p) ==
    /\ ReadSk(p)
    /\ UNCHANGED <<signed, sk, pk, made, hpk, new>>

(* The script generates the new pair, then opens a writer.                 *)
StartRotation(p) ==
    /\ made < MaxKeys
    /\ ReadSk(p)
    /\ made' = made + 1
    /\ new' = [new EXCEPT ![p] = made + 1]
    /\ UNCHANGED <<signed, sk, pk, hpk>>

(* Then it reads the pk file, whatever that holds by now.                  *)
ReadPk(p) ==
    /\ place[p] = "half"
    /\ hpk' = [hpk EXCEPT ![p] = pk]
    /\ Goto(p, "open")
    /\ UNCHANGED <<signed, sk, pk, made, hsk, new>>

Sign(p, announced) ==
    /\ Len(signed) < MaxSigned
    /\ signed' = Append(signed, [key |-> hsk[p], fpr |-> hpk[p],
                                 announces |-> announced])

SignEntry(p) ==
    /\ place[p] = "open"
    /\ new[p] = 0
    /\ Sign(p, 0)
    /\ UNCHANGED <<sk, pk, made, place, hsk, hpk, new>>

(* Mutation: a failed append is swallowed and the swap goes on.            *)
AnnounceSwallowed(p) ==
    /\ place[p] = "open"
    /\ new[p] # 0
    /\ \/ Sign(p, new[p])
       \/ UNCHANGED signed
    /\ Goto(p, "announced")
    /\ UNCHANGED <<sk, pk, made, hsk, hpk, new>>

(* The key_rotation entry, signed with the key the writer opened with.     *)
Announce(p) ==
    /\ place[p] = "open"
    /\ new[p] # 0
    /\ Sign(p, new[p])
    /\ Goto(p, "announced")
    /\ UNCHANGED <<sk, pk, made, hsk, hpk, new>>

CutSk(p) ==
    /\ place[p] = "announced"
    /\ sk' = Empty
    /\ Goto(p, "skcut")
    /\ UNCHANGED <<signed, pk, made, hsk, hpk, new>>

WriteSk(p) ==
    /\ place[p] = "skcut"
    /\ sk' = new[p]
    /\ Goto(p, "skset")
    /\ UNCHANGED <<signed, pk, made, hsk, hpk, new>>

CutPk(p) ==
    /\ place[p] = "skset"
    /\ pk' = Empty
    /\ Goto(p, "pkcut")
    /\ UNCHANGED <<signed, sk, made, hsk, hpk, new>>

WritePk(p) ==
    /\ place[p] = "pkcut"
    /\ pk' = new[p]
    /\ Goto(p, "closed")
    /\ new' = [new EXCEPT ![p] = 0]
    /\ UNCHANGED <<signed, sk, made, hsk, hpk>>

(* A service closes its writer, or a process dies or raises anywhere.      *)
Stop(p) ==
    /\ place[p] # "closed"
    /\ Goto(p, "closed")
    /\ new' = [new EXCEPT ![p] = 0]
    /\ UNCHANGED <<signed, sk, pk, made, hsk, hpk>>

RotationNext ==
    \E p \in Procs :
        \/ StartService(p) \/ StartRotation(p) \/ ReadPk(p)
        \/ SignEntry(p) \/ Announce(p)
        \/ CutSk(p) \/ WriteSk(p) \/ CutPk(p) \/ WritePk(p)
        \/ Stop(p)

RotationSpec == RotationInit /\ [][RotationNext]_rotationVars

-----------------------------------------------------------------------------
(* Properties.                                                             *)

(* The keys a reader of the rows before row i may hold for genuine.        *)
KnownBefore(i) ==
    {FirstKey} \cup {signed[j].announces : j \in 1 .. i - 1}

(* The pubkey-as-of timeline can be rebuilt from the ledger alone: whoever *)
(* crashes, overlaps or reads a file half-written, no row is signed with a *)
(* key, or carries the fingerprint of one, before an entry signed with an  *)
(* already known key has announced it (an empty pk file aside).            *)
KeyAnnounced ==
    \A i \in DOMAIN signed :
        /\ signed[i].key \in KnownBefore(i) \ {0}
        /\ signed[i].fpr \in KnownBefore(i) \cup {Empty}
=============================================================================
