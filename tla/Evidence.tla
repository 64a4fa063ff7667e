------------------------------ MODULE Evidence ------------------------------
(***************************************************************************)
(* The ingest dataflow (Ingest) with the parsers, the keyer and the        *)
(* threshold evaluation (Parsers): which raw events meet in one window,    *)
(* and what becomes of them there.                                         *)
(***************************************************************************)
EXTENDS Ingest, Parsers

CONSTANT Raws   \* the raw events that producers send, all of window 0

(* The event that the dataflow of Ingest sees.                             *)
Encode(raw) ==
    [time |-> 0, source |-> raw.source,
     keys |-> UNION {Keyer(ev) : ev \in Parse(raw)},
     id |-> IF RawEventId(raw) = None THEN NoId
            ELSE <<raw.source, raw.sensor, RawEventId(raw)>>,
     valid |-> raw.body # <<>>]

RawOf(e) == CHOOSE raw \in Raws : Encode(raw) = e

KeysOfRaws == UNION {Encode(raw).keys : raw \in Raws}

IdsOfRaws == {Encode(raw).id : raw \in Raws} \ {NoId}

(* The producers send raw events, with hashes and confidences as Parsers   *)
(* writes them.                                                            *)
ASSUME EvidenceAssumption ==
    /\ Telemetry \subseteq {Encode(raw) : raw \in Raws}
    /\ \A raw \in Raws : Written(raw)

(* The parsed events of a window, in the order in which they came.         *)
ParsedOf(cs) ==
    LET oldest == Kept([c \in DOMAIN copies |-> c], cs)
    IN  [i \in DOMAIN oldest |->
            CHOOSE ev \in Parse(RawOf(copies[oldest[i]].event)) : TRUE]

-----------------------------------------------------------------------------

(* A window that fires always has reports for its key, so its evidence     *)
(* reaches the fusion (_process_window never gives up at flow.py:278):     *)
(* each of its events counts in one report, that of its own agent.         *)
WeighedOnce ==
    \A i \in DOMAIN fused :
        LET evs     == ParsedOf(fused[i].copies)
            reports == Reports(evs, fused[i].key)
            Of(a)   == {n \in DOMAIN reports : reports[n].agent = a}
        IN  /\ \A n \in DOMAIN evs : Cardinality(Of(AgentOf(evs[n]))) = 1
            /\ \A n \in DOMAIN reports :
                   reports[n].events = Cardinality({m \in DOMAIN evs :
                                           AgentOf(evs[m]) = reports[n].agent})
            /\ \A n \in DOMAIN reports :
                   reports[n].confidence.n \in 0 .. reports[n].confidence.of

(* However the sources spell a hash and whatever field or URI they put it  *)
(* in, prompt evidence about it in one second is weighed in one frame.     *)
HashesMeet ==
    \A i, j \in DOMAIN fused :
        (/\ fused[i].key[1] = "hash" /\ fused[j].key[1] = "hash"
         /\ fused[i].key[2].hash = fused[j].key[2].hash
         /\ fused[i].time = fused[j].time
         /\ \E c \in fused[i].copies : copies[c].prompt
         /\ \E c \in fused[j].copies : copies[c].prompt) => i = j

(* flow.py:219 and test_raw_event_id_ignores_event_type_fields: only an    *)
(* event that came before is a duplicate, since the fields that hold the   *)
(* type of an event are not taken for its identity.                        *)
DuplicatesCameBefore ==
    \A c \in DOMAIN copies : copies[c].fate = "dupe" =>
        \E d \in 1 .. c - 1 : copies[d].event = copies[c].event
=============================================================================
