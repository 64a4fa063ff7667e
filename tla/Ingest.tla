------------------------------- MODULE Ingest -------------------------------
(***************************************************************************)
(* The ingest dataflow (ingest/flow.py, nats_source.py, zmq_source.py):    *)
(* one process that takes telemetry off JetStream and a ZeroMQ socket,     *)
(* drops what is malformed, late or seen before, and collects the rest in  *)
(* windows of one second per pheromone key.  What becomes of a window that *)
(* fires (_process_window) is not part of this module.                     *)
(*                                                                         *)
(* Time is counted in windows.  An event of time t belongs to window t; no *)
(* event is from the future.  Valkey may fail a call, the process may die  *)
(* at any time; Valkey keeps what it was told.                             *)
(***************************************************************************)
EXTENDS Naturals, Sequences, FiniteSets

CONSTANTS
    Keys,       \* pheromone keys
    Sources,
    Ids,        \* dedupe keys: source, sensor and the event id of the producer
    NoId,       \* no event id was given
    Telemetry,  \* the events that producers send
    Allowed,    \* ALLOWED_LATENESS_NS, by source
    Wait,       \* wait_for_system_duration
    TTL,        \* DEDUPE_TTL_S
    MaxTime,    \* bound: nothing is published after it
    MaxSent,    \* bound: messages published
    MaxCopies   \* bound: messages handed to the dataflow, redeliveries included

(* `id`: what the dedupe check goes by; `keys`: the indicators that the    *)
(* parsers find; `valid`: decodes and has a time.                          *)
Event == [time : Nat, source : Sources, keys : SUBSET Keys,
          id : Ids \cup {NoId}, valid : BOOLEAN]

(* A duplicate that has outlived its dedupe key is late by then: 300 s     *)
(* against at most 180 s.                                                  *)
ASSUME IngestAssumption ==
    /\ Telemetry \subseteq Event
    /\ Allowed \in [Sources -> Nat]
    /\ Wait \in Nat /\ TTL \in Nat
    /\ \A s \in Sources : Allowed[s] < TTL
    /\ MaxTime \in Nat /\ MaxSent \in Nat /\ MaxCopies \in Nat

VARIABLES
    now,        \* the clock
    stream,     \* the messages in the JetStream stream
    todo,       \* those that the durable consumer has yet to deliver
    unacked,    \* those delivered whose acknowledgement was lost
    copies,     \* what the dataflow was handed: event, fate, promptness
    seen,       \* ingest:seen:* in Valkey: when a dedupe key expires
    win,        \* open windows, as pairs of a copy and a key
    lag,        \* by key: how far the watermark is behind the clock
    dropped,    \* what the windowing dropped as late (windowed.late)
    fused,      \* the windows that fired: [key, time, copies], in order
    up          \* the process runs

consumer == <<stream, todo, unacked>>
windows == <<win, lag, dropped>>
vars == <<now, consumer, copies, seen, windows, fused, up>>

TypeOK ==
    /\ now \in Nat
    /\ stream \in Seq(Telemetry)
    /\ todo \subseteq DOMAIN stream
    /\ unacked \subseteq DOMAIN stream
    /\ copies \in Seq([event : Telemetry, prompt : BOOLEAN,
                       fate : {"queued", "ok", "unchecked", "late", "dupe",
                               "malformed", "lost"}])
    /\ seen \in [Ids \cup {NoId} -> Nat]
    /\ win \subseteq (DOMAIN copies) \X Keys
    /\ lag \in [Keys -> Nat]
    /\ dropped \subseteq (DOMAIN copies) \X Keys
    /\ fused \in Seq([key : Keys, time : Nat, copies : SUBSET DOMAIN copies])
    /\ up \in BOOLEAN

Init ==
    /\ now = 0
    /\ stream = <<>>
    /\ todo = {}
    /\ unacked = {}
    /\ copies = <<>>
    /\ seen = [i \in Ids \cup {NoId} |-> 0]
    /\ win = {}
    /\ lag = [k \in Keys |-> 0]
    /\ dropped = {}
    /\ fused = <<>>
    /\ up = TRUE

-----------------------------------------------------------------------------
(* The event clocks.                                                       *)

(* Mutation: the event clock stands still between two copies.              *)
WatermarkOfCopies(k) ==
    LET times == {copies[p[1]].event.time : p \in {q \in win : q[2] = k}}
        last == CHOOSE t \in times : \A u \in times : u <= t
    IN  IF last > Wait THEN last - Wait ELSE 0

(* The event clock of a key: behind the system clock by what the promptest *)
(* copy was late, and by the wait.                                         *)
Watermark(k) == now - lag[k]

(* Mutation: a window closes when the watermark enters it.                 *)
RipeEarly(k, t) == t <= Watermark(k)

Ripe(k, t) == t + 1 <= Watermark(k)

-----------------------------------------------------------------------------
(* The world outside.                                                      *)

(* Beyond the bound time passes only until every window is due.            *)
Tick ==
    /\ now < MaxTime \/ \E p \in win :
                            now <= copies[p[1]].event.time + lag[p[2]]
    /\ now' = now + 1
    /\ UNCHANGED <<consumer, copies, seen, windows, fused, up>>

(* A producer publishes an event, not always for the first time.           *)
Publish(e) ==
    /\ e.time <= now
    /\ now <= MaxTime
    /\ Len(stream) < MaxSent
    /\ stream' = Append(stream, e)
    /\ todo' = todo \cup {Len(stream')}
    /\ UNCHANGED <<now, unacked, copies, seen, windows, fused, up>>

Handed(e) == Append(copies, [event |-> e, prompt |-> FALSE, fate |-> "queued"])

(* A message of the ZeroMQ firehose: it reaches a process that is up.      *)
Broadcast(e) ==
    /\ up
    /\ e.time <= now
    /\ now <= MaxTime
    /\ Len(copies) < MaxCopies
    /\ copies' = Handed(e)
    /\ UNCHANGED <<now, consumer, seen, windows, fused, up>>

(* JetStream delivers again what was not acknowledged in time.             *)
Redeliver(m) ==
    /\ m \in unacked
    /\ unacked' = unacked \ {m}
    /\ todo' = todo \cup {m}
    /\ UNCHANGED <<now, stream, copies, seen, windows, fused, up>>

-----------------------------------------------------------------------------
(* The dataflow.                                                           *)

(* The message is acknowledged as soon as it is fetched; the error of an   *)
(* acknowledgement that fails is swallowed.                                *)
Fetch(m) ==
    /\ up
    /\ m \in todo
    /\ \A n \in todo : m <= n
    /\ Len(copies) < MaxCopies
    /\ copies' = Handed(stream[m])
    /\ todo' = todo \ {m}
    /\ unacked' \in {unacked, unacked \cup {m}}
    /\ UNCHANGED <<now, stream, seen, windows, fused, up>>

Open(k) == \E p \in win : p[2] = k

Lag(delay) == delay + Wait

(* The copy goes to a window of each of its keys.  The event clock of a    *)
(* key starts with the first copy and is forgotten with its last window;   *)
(* a copy behind the watermark is dropped, and nothing takes note.         *)
Collect(c, e) ==
    LET delay == now - e.time
        behind == {k \in e.keys : Open(k) /\ lag[k] < delay}
    IN  /\ win' = win \cup ({c} \X (e.keys \ behind))
        /\ dropped' = dropped \cup ({c} \X behind)
        /\ lag' = [k \in Keys |->
                      IF k \in e.keys /\ ~(Open(k) /\ lag[k] <= Lag(delay))
                      THEN Lag(delay) ELSE lag[k]]

Decided(c, fate) ==
    copies' = [copies EXCEPT ![c] =
                  [event |-> @.event, fate |-> fate,
                   prompt |-> now <= @.event.time + Wait]]

(* Mutation: the lateness check allows for the wait of the windows too.    *)
LateForWindow(e) == now - e.time > Allowed[e.source] + Wait

Late(e) == now - e.time > Allowed[e.source]

(* SET NX EX in Valkey.                                                    *)
Claimed(e) == seen' = [seen EXCEPT ![e.id] = now + TTL]

(* _decode of the oldest message, parsing, keying and windowing.  When the *)
(* dedupe check fails the message passes, whatever Valkey made of it; one  *)
(* without an id passes unchecked.                                         *)
Decode(c) ==
    LET e == copies[c].event
    IN  /\ up
        /\ copies[c].fate = "queued"
        /\ \A d \in DOMAIN copies : copies[d].fate = "queued" => c <= d
        /\ \/ /\ ~e.valid
              /\ Decided(c, "malformed")
              /\ UNCHANGED <<seen, windows>>
           \/ /\ e.valid /\ Late(e)
              /\ Decided(c, "late")
              /\ UNCHANGED <<seen, windows>>
           \/ /\ e.valid /\ ~Late(e) /\ e.id # NoId /\ seen[e.id] > now
              /\ Decided(c, "dupe")
              /\ UNCHANGED <<seen, windows>>
           \/ /\ e.valid /\ ~Late(e) /\ e.id # NoId /\ seen[e.id] <= now
              /\ Decided(c, "ok")
              /\ Claimed(e)
              /\ Collect(c, e)
           \/ /\ e.valid /\ ~Late(e)
              /\ Decided(c, "unchecked")
              /\ UNCHANGED seen \/ (e.id # NoId /\ seen[e.id] <= now /\ Claimed(e))
              /\ Collect(c, e)
    /\ UNCHANGED <<now, consumer, fused, up>>

InWindow(k, t) == {c \in DOMAIN copies : <<c, k>> \in win /\ copies[c].event.time = t}

(* The first window of a key that is due fires.                            *)
Close(k, t) ==
    LET cs == InWindow(k, t)
    IN  /\ up
        /\ cs # {}
        /\ Ripe(k, t)
        /\ \A s \in 0 .. t - 1 : InWindow(k, s) = {}
        /\ win' = win \ (cs \X {k})
        /\ lag' = [lag EXCEPT ![k] = IF \E p \in win' : p[2] = k THEN @ ELSE 0]
        /\ fused' = Append(fused, [key |-> k, time |-> t, copies |-> cs])
        /\ UNCHANGED <<now, consumer, copies, seen, dropped, up>>

(* The process dies, of an exception in the dataflow too: what it had in   *)
(* memory is gone, acknowledged or not.                                    *)
Crash ==
    /\ up
    /\ up' = FALSE
    /\ copies' = [c \in DOMAIN copies |->
                     IF copies[c].fate = "queued"
                     THEN [copies[c] EXCEPT !.fate = "lost"] ELSE copies[c]]
    /\ win' = {}
    /\ lag' = [k \in Keys |-> 0]
    /\ UNCHANGED <<now, consumer, seen, dropped, fused>>

Restart ==
    /\ ~up
    /\ up' = TRUE
    /\ UNCHANGED <<now, consumer, copies, seen, windows, fused>>

-----------------------------------------------------------------------------

Step ==
    \/ \E c \in DOMAIN copies : Decode(c)
    \/ \E k \in Keys, t \in 0 .. now : Close(k, t)

Next ==
    \/ Tick
    \/ \E e \in Telemetry : Publish(e) \/ Broadcast(e)
    \/ \E m \in DOMAIN stream : Redeliver(m) \/ Fetch(m)
    \/ Step
    \/ Crash
    \/ Restart

Spec == Init /\ [][Next]_vars

(* Time passes, the dataflow's worker runs, systemd restarts the unit.     *)
FairSpec == Spec /\ WF_vars(Tick) /\ WF_vars(Step) /\ WF_vars(Restart)

-----------------------------------------------------------------------------
(* Properties.                                                             *)

(* However often an event with an id is sent, broadcast and redelivered,   *)
(* through restarts and beyond the life of its dedupe key, one copy of it  *)
(* at most counts for a key, but for copies that Valkey could not check.   *)
AtMostOnce ==
    \A i, j \in DOMAIN fused :
        \A c \in fused[i].copies, d \in fused[j].copies :
            (/\ fused[i].key = fused[j].key
             /\ copies[c].event = copies[d].event
             /\ copies[c].fate = "ok" /\ copies[d].fate = "ok") => i = j /\ c = d

(* Evidence that comes within the wait is never dropped by the windowing   *)
(* and is weighed together: no two frames of one key and second both have  *)
(* such evidence, be it delayed by other copies, sources or a restart.     *)
PromptTogether ==
    /\ \A i, j \in DOMAIN fused :
           (/\ fused[i].key = fused[j].key /\ fused[i].time = fused[j].time
            /\ \E c \in fused[i].copies : copies[c].prompt
            /\ \E c \in fused[j].copies : copies[c].prompt) => i = j
    /\ \A p \in dropped : ~copies[p[1]].prompt

(* A copy in a window is fused in the end, also when nothing else comes    *)
(* for its key, unless the process dies.                                   *)
WindowsFire == win # {} ~> win = {}
=============================================================================
