------------------------------- MODULE Parsers -------------------------------
(***************************************************************************)
(* From a raw event to the reports of a window (ingest/parsers.py,         *)
(* indicators.py, threshold.py and the keyer of flow.py), as functions.    *)
(*                                                                         *)
(* The body of a raw event maps the fields it has to values: a number, a   *)
(* name, a hash [hash, form], an indicator URI [scheme, value] or a        *)
(* sequence of techniques [name, form].  The form of a technique is        *)
(* "attack" for an ATT&CK id, "tactic" for what else begins with a T, and  *)
(* "word".  Blank fields count as absent, names are taken without          *)
(* surrounding space; what has the wrong type, null where a number belongs *)
(* included, is Junk.  An alert's severity is taken to be a field.         *)
(* Confidences are twentieths.                                             *)
(***************************************************************************)
EXTENDS Integers, Sequences, FiniteSets, TLC

CONSTANTS
    None,   \* Python's None, and any field that is absent or blank
    Junk    \* a value that int(), float() or tuple() rejects

Get(b, field) == IF field \in DOMAIN b THEN b[field] ELSE None

Or(x, y) == IF x # None THEN x ELSE y

Clamped(n) == IF n < 0 THEN 0 ELSE IF n > 20 THEN 20 ELSE n

(* The items of a sequence at some places: SelectSeq, with a definition    *)
(* that proofs can use.                                                    *)
Kept(s, places) ==
    LET Nth(n) == CHOOSE i \in places : Cardinality({j \in places : j <= i}) = n
    IN  [n \in 1 .. Cardinality(places) |-> s[Nth(n)]]

(* The items of a sequence, each once, in the order of their appearance.   *)
Distinct(s) == Kept(s, {i \in DOMAIN s : \A j \in 1 .. i - 1 : s[j] # s[i]})

-----------------------------------------------------------------------------
(* Parsers.  Each gives the parsed events of a raw one, one at most; an    *)
(* exception gives none.                                                   *)

(* Mutation: hashes are matched as they are spelled.                       *)
ShaAsSpelled(v) == IF v = None \/ v.form = "junk" THEN None ELSE v

(* A hash in lower case, if it is one.                                     *)
Sha(v) == IF v = None \/ v.form = "junk" THEN None ELSE [v EXCEPT !.form = "lower"]

(* What the parsers fill in: at first the fields are absent.               *)
Parsed(raw) ==
    [source |-> raw.source, sensor |-> raw.sensor, host |-> raw.host,
     ip |-> None, domain |-> None, sha256 |-> None, pid |-> None,
     indicator |-> None, techniques |-> <<>>, confidence |-> 0]

(* The fields that an indicator URI stands for: those of raw schemes none. *)
IndicatorParts(ev, uri) ==
    CASE uri.scheme = "ipv4-addr"               -> [ev EXCEPT !.ip = uri.value]
      [] uri.scheme \in {"domain", "domain-name"} -> [ev EXCEPT !.domain = uri.value]
      [] uri.scheme \in {"hash", "sha256"}      -> [ev EXCEPT !.sha256 = Sha(uri.value)]
      [] uri.scheme = "proc"                    -> [ev EXCEPT !.pid = uri.value.pid]
      [] OTHER                                  -> ev

(* _techniques: the ATT&CK ids in two fields.                              *)
Techniques(x, y) ==
    LET both == Or(x, <<>>) \o Or(y, <<>>)
    IN  Distinct(Kept(both, {i \in DOMAIN both : both[i].form = "attack"}))

ParseFlat(raw) ==
    LET conf == Or(Get(raw.body, "confidence"), 0)
    IN  IF conf = Junk THEN {}
        ELSE {[IndicatorParts(Parsed(raw), raw.body["indicator_key"]) EXCEPT
                 !.indicator = raw.body["indicator_key"],
                 !.techniques = Techniques(Get(raw.body, "mitre_technique"),
                                           Get(raw.body, "techniques")),
                 !.confidence = Clamped(conf)]}

ParseZeekConn(raw) ==
    LET b == raw.body
    IN  {[Parsed(raw) EXCEPT
            !.ip = Or(Get(b, "id.resp_h"), Or(Get(b, "dest_ip"), Get(b, "dst"))),
            !.confidence = 1]}

ParseZeekDns(raw) ==
    {[Parsed(raw) EXCEPT !.domain = Or(Get(raw.body, "query"), Get(raw.body, "answer")),
                         !.confidence = 1]}

ParseZeekSsl(raw) ==
    {[Parsed(raw) EXCEPT
        !.ip = Get(raw.body, "id.resp_h"),
        !.confidence = IF Get(raw.body, "validation_status") \in {None, "ok"} THEN 1 ELSE 2]}

(* Severity 1 is high; without an alert, or with another number, it is 3.  *)
ParseSuricataAlert(raw) ==
    LET severity == Or(Get(raw.body, "severity"), 3)
        table    == <<17, 11, 6, 2>>
    IN  IF severity = Junk THEN {}
        ELSE {[Parsed(raw) EXCEPT
                 !.ip = Get(raw.body, "dest_ip"),
                 !.confidence = IF severity \in DOMAIN table THEN table[severity] ELSE 6]}

(* The event number decides which fields count; other numbers, and a field *)
(* event_id that is no number, give nothing.                               *)
ParseSysmon(raw) ==
    LET b    == raw.body
        eid  == Or(Get(b, "event_id"), Or(Get(b, "EventID"), 0))
        data == IF Get(b, "event_data") \in {None, Junk} THEN b ELSE b["event_data"]
        pid  == IF Get(data, "ProcessId") = Junk THEN None ELSE Get(data, "ProcessId")
        event == [Parsed(raw) EXCEPT !.pid = pid]
    IN  IF eid = Junk THEN {}
        ELSE CASE eid = 1  -> {[event EXCEPT !.confidence = 5,
                                             !.sha256 = Sha(Get(data, "Hashes"))]}
               [] eid = 11 -> {[event EXCEPT !.confidence = 2]}
               [] eid \in 12 .. 14 -> {[event EXCEPT !.confidence = 4]}
               [] eid = 3  -> {[event EXCEPT !.confidence = 3,
                                             !.ip = Get(data, "DestinationIp")]}
               [] OTHER    -> {}

ParseYara(raw) ==
    LET tags == Or(Get(raw.body, "tags"), {})
    IN  IF tags = Junk THEN {}
        ELSE {[Parsed(raw) EXCEPT !.sha256 = Sha(Get(raw.body, "sha256")),
                                  !.confidence = IF "strong" \in tags THEN 17 ELSE 11]}

(* Its techniques are taken as they are.                                   *)
ParseEdr(raw) ==
    LET inds  == Or(Get(raw.body, "indicators"), <<>>)
        score == Or(Get(raw.body, "score"), 4)
    IN  IF Junk \in {inds, score, Get(raw.body, "techniques")} THEN {}
        ELSE {[Parsed(raw) EXCEPT
                 !.ip = Get(inds, "ip"), !.domain = Get(inds, "domain"),
                 !.sha256 = Sha(Get(inds, "sha256")), !.pid = Get(inds, "pid"),
                 !.techniques = Or(Get(raw.body, "techniques"), <<>>),
                 !.confidence = Clamped(score)]}

Parse(raw) ==
    LET kind == Get(raw.body, "kind")
    IN  IF Get(raw.body, "indicator_key") # None THEN ParseFlat(raw) ELSE
        CASE raw.source = "zeek" /\ kind = "conn" -> ParseZeekConn(raw)
          [] raw.source = "zeek" /\ kind = "dns"  -> ParseZeekDns(raw)
          [] raw.source = "zeek" /\ kind = "ssl"  -> ParseZeekSsl(raw)
          [] raw.source = "suricata" /\ kind = "alert" -> ParseSuricataAlert(raw)
          [] raw.source = "sysmon" -> ParseSysmon(raw)
          [] raw.source = "yara"   -> ParseYara(raw)
          [] raw.source = "edr"    -> ParseEdr(raw)
          [] OTHER -> {}

(* What a raw event holds where a parser may look for a hash.              *)
HashesOf(raw) ==
    LET nested == {Get(raw.body, "event_data"), Get(raw.body, "indicators")} \ {None, Junk}
    IN  {Get(b, f) : b \in {raw.body} \cup nested, f \in {"Hashes", "sha256"}} \cup
        {uri.value : uri \in {u \in {Get(raw.body, "indicator_key")} :
                                 u # None /\ u.scheme \in {"hash", "sha256"}}}

(* Its hashes and numbers are as this module writes them.                  *)
Written(raw) ==
    /\ \A v \in HashesOf(raw) : v # None => v = [hash |-> v.hash, form |-> v.form]
    /\ {Get(raw.body, "confidence"), Get(raw.body, "score")} \subseteq Int \cup {None, Junk}

-----------------------------------------------------------------------------
(* The pheromone keys of a parsed event: <<dimension, identifier>>.        *)

Key(dim, id) == <<dim, id>>

(* The key that an indicator URI names directly, if it is well formed.     *)
IndicatorTuple(uri) ==
    IF uri = None THEN None ELSE
    CASE uri.scheme = "ipv4-addr" -> Key("ip", uri.value)
      [] uri.scheme \in {"domain", "domain-name"} -> Key("domain", uri.value)
      [] uri.scheme \in {"hash", "sha256"} ->
             IF Sha(uri.value) = None THEN None ELSE Key("hash", Sha(uri.value))
      [] uri.scheme = "proc" -> Key("proc", uri.value)
      [] uri.scheme \in {"user", "reg", "task", "url", "file"} ->
             Key("raw", <<uri.scheme, uri.value>>)
      [] OTHER -> None

(* Mutation: processes are keyed by their indicator URI only.              *)
AggKeysOfFiles(ev) ==
    LET direct == IndicatorTuple(ev.indicator)
    IN  IF direct # None THEN {direct}
        ELSE {k \in {Key("ip", ev.ip), Key("domain", ev.domain), Key("hash", ev.sha256)} :
                 k[2] # None}

(* threshold._agg_keys: the keys under which the evidence of an event is   *)
(* aggregated.                                                             *)
AggKeys(ev) ==
    LET direct == IndicatorTuple(ev.indicator)
    IN  IF direct # None THEN {direct}
        ELSE {k \in {Key("ip", ev.ip), Key("domain", ev.domain), Key("hash", ev.sha256)} :
                 k[2] # None} \cup
             (IF ev.pid = None THEN {}
              ELSE {Key("proc", [host |-> ev.host, pid |-> ev.pid])})

(* The dataflow's keyer: the windows to which an event goes.               *)
Keyer(ev) ==
    IF IndicatorTuple(ev.indicator) # None THEN {IndicatorTuple(ev.indicator)}
    ELSE {k \in {Key("ip", ev.ip), Key("domain", ev.domain), Key("hash", ev.sha256),
                 Key("proc", IF ev.pid = None THEN None
                             ELSE [host |-> ev.host, pid |-> ev.pid])} :
             k[2] # None}

(* raw_event_id: the idempotency key that the producer gave.               *)
RawEventId(raw) ==
    Or(Get(raw, "event_id"),
       Or(Get(raw.body, "event_id"),
          Or(Get(raw.body, "event_guid"), Get(raw.body, "EventGuid"))))

-----------------------------------------------------------------------------
(* threshold.evaluate: the reports of a window for one key.                *)

AgentOf(ev) == <<ev.source, ev.sensor>>

(* Independent signals of one agent: 1 - (1 - c1)(1 - c2)...               *)
NoisyOr(confs) ==
    LET miss[i \in 0 .. Len(confs)] ==
            IF i = 0 THEN 1 ELSE miss[i - 1] * (20 - Clamped(confs[i]))
        all[i \in 0 .. Len(confs)] == IF i = 0 THEN 1 ELSE all[i - 1] * 20
    IN  [n |-> all[Len(confs)] - miss[Len(confs)], of |-> all[Len(confs)]]

Report(agent, evs) ==
    [agent |-> agent, sensor |-> agent[2], events |-> Len(evs),
     confidence |-> NoisyOr([i \in DOMAIN evs |-> evs[i].confidence]),
     ignorance |-> IF \E i \in DOMAIN evs : evs[i].techniques # <<>> THEN 1 ELSE 3]

(* One report for each agent with evidence for the key, in the order in    *)
(* which the agents appear.                                                *)
Reports(events, key) ==
    LET mine   == Kept(events, {i \in DOMAIN events : key \in AggKeys(events[i])})
        agents == Distinct([i \in DOMAIN mine |-> AgentOf(mine[i])])
        By(a)  == Kept(mine, {i \in DOMAIN mine : AgentOf(mine[i]) = a})
    IN  [n \in DOMAIN agents |-> Report(agents[n], By(agents[n]))]
=============================================================================
