---------------------------- MODULE IngestProofs ----------------------------
(***************************************************************************)
(* Type correctness of Ingest; an event with an id counts once for a key;  *)
(* prompt evidence is weighed together, also when it is about one hash in  *)
(* two spellings; every event of a window counts in one report.  For every *)
(* set of raw events, sensors and keys, every wait, and every lateness     *)
(* below the life of a dedupe key.                                         *)
(***************************************************************************)
EXTENDS Evidence, ParsersProofs

USE IngestAssumption

Fate == {"queued", "ok", "unchecked", "late", "dupe", "malformed", "lost"}
Copy == [event : Telemetry, prompt : BOOLEAN, fate : Fate]
Fired(D) == [key : Keys, time : Nat, copies : SUBSET D]

(* No event is from the future.                                            *)
Past ==
    /\ \A m \in DOMAIN stream : stream[m].time <= now
    /\ \A c \in DOMAIN copies : copies[c].event.time <= now

(* The dedupe key of an event that was let through lives until the event   *)
(* is late.                                                                *)
Claims ==
    \A c \in DOMAIN copies : copies[c].fate = "ok" =>
        copies[c].event.time + TTL <= seen[copies[c].event.id]

(* Of the copies of an event one at most was let through.                  *)
OneTaken ==
    \A c, d \in DOMAIN copies :
        (copies[c].fate = "ok" /\ copies[d].fate = "ok"
         /\ copies[c].event = copies[d].event) => c = d

(* A copy is in a window only once decoded, and fires once for a key.      *)
FiresOnce ==
    /\ \A p \in win : copies[p[1]].fate # "queued"
    /\ \A i \in DOMAIN fused, c \in DOMAIN copies : c \in fused[i].copies =>
           /\ copies[c].fate # "queued"
           /\ <<c, fused[i].key>> \notin win
    /\ \A i, j \in DOMAIN fused, c \in DOMAIN copies :
           (c \in fused[i].copies /\ c \in fused[j].copies
            /\ fused[i].key = fused[j].key) => i = j

Inv == TypeOK /\ Past /\ Claims /\ OneTaken /\ FiresOnce

-----------------------------------------------------------------------------
(* Types.                                                                  *)

LEMMA Typed ==
    ASSUME TypeOK
    PROVE  /\ stream \in Seq(Telemetry) /\ DOMAIN stream = 1 .. Len(stream)
           /\ Len(stream) \in Nat
           /\ copies \in Seq(Copy) /\ DOMAIN copies = 1 .. Len(copies)
           /\ Len(copies) \in Nat
           /\ fused \in Seq(Fired(DOMAIN copies)) /\ Len(fused) \in Nat
           /\ DOMAIN fused = 1 .. Len(fused)
<1>1. /\ stream \in Seq(Telemetry) /\ copies \in Seq(Copy)
      /\ fused \in Seq(Fired(DOMAIN copies))
    BY DEF TypeOK, Copy, Fate, Fired
<1> QED
    BY <1>1, LenProperties

LEMMA CopyType ==
    ASSUME TypeOK, NEW c \in DOMAIN copies
    PROVE  copies[c] \in Copy
BY Typed, ElementOfSeq

LEMMA StreamType ==
    ASSUME TypeOK, NEW m \in DOMAIN stream
    PROVE  stream[m] \in Telemetry
BY Typed, ElementOfSeq

LEMMA FiredType ==
    ASSUME TypeOK, NEW i \in DOMAIN fused
    PROVE  fused[i] \in Fired(DOMAIN copies)
BY Typed, ElementOfSeq

LEMMA EventType ==
    ASSUME NEW e \in Telemetry
    PROVE  /\ e.time \in Nat /\ e.source \in Sources /\ e.keys \subseteq Keys
           /\ e.id \in Ids \cup {NoId}
           /\ Allowed[e.source] \in Nat /\ Allowed[e.source] < TTL
BY DEF Event

(* The windows that fired stay of their type when copies are handed over.  *)
LEMMA FiredStays ==
    ASSUME TypeOK, NEW D, DOMAIN copies \subseteq D
    PROVE  fused \in Seq(Fired(D))
<1>1. \A i \in DOMAIN fused : fused[i] \in Fired(D)
    BY FiredType DEF Fired
<1> QED
    BY <1>1, Typed

-----------------------------------------------------------------------------
(* The invariant.                                                          *)

LEMMA InvInit == Init => Inv
BY DEF Init, Inv, TypeOK, Past, Claims, OneTaken, FiresOnce

(* The steps that touch neither copies nor windows.                        *)
LEMMA InvOutside ==
    ASSUME Inv, \/ Tick
                \/ \E e \in Telemetry : Publish(e)
                \/ \E m \in DOMAIN stream : Redeliver(m)
                \/ Restart
    PROVE  Inv'
<1> USE DEF Inv
<1>1. UNCHANGED <<copies, seen, win, lag, dropped, fused>>
    BY DEF Tick, Publish, Redeliver, Restart, windows
<1>2. (Claims /\ OneTaken /\ FiresOnce)'
    BY <1>1 DEF Claims, OneTaken, FiresOnce
<1>3. CASE Tick
  <2>1. /\ now' = now + 1 /\ UNCHANGED <<stream, todo, unacked, up>>
      BY <1>3 DEF Tick, consumer
  <2>2. now \in Nat
      BY DEF TypeOK
  <2>3. TypeOK'
      BY <1>1, <2>1, <2>2 DEF TypeOK
  <2>4. /\ \A m \in DOMAIN stream : stream[m].time \in Nat
        /\ \A c \in DOMAIN copies : copies[c].event.time \in Nat
      BY StreamType, CopyType, EventType DEF Copy
  <2>5. Past'
      BY <1>1, <2>1, <2>2, <2>4 DEF Past
  <2> QED
      BY <1>2, <2>3, <2>5
<1>4. CASE \E e \in Telemetry : Publish(e)
  <2> PICK e \in Telemetry : Publish(e)
      BY <1>4
  <2>1. /\ stream' = Append(stream, e) /\ e.time <= now
        /\ todo' = todo \cup {Len(stream')}
        /\ UNCHANGED <<now, unacked, up>>
      BY DEF Publish
  <2>2. /\ stream' \in Seq(Telemetry)
        /\ DOMAIN stream' = 1 .. Len(stream) + 1
        /\ \A m \in DOMAIN stream : stream'[m] = stream[m]
        /\ stream'[Len(stream) + 1] = e /\ Len(stream') = Len(stream) + 1
      BY <2>1, Typed, AppendProperties, LenProperties
  <2>3. DOMAIN stream \subseteq DOMAIN stream' /\ Len(stream') \in DOMAIN stream'
      BY <2>2, Typed
  <2>4. TypeOK'
      BY <1>1, <2>1, <2>2, <2>3 DEF TypeOK
  <2>5. \A m \in DOMAIN stream' : m \in DOMAIN stream \/ m = Len(stream) + 1
      BY <2>2, Typed
  <2>6. Past'
      BY <1>1, <2>1, <2>2, <2>5 DEF Past
  <2> QED
      BY <1>2, <2>4, <2>6
<1>5. CASE \E m \in DOMAIN stream : Redeliver(m)
  <2>1. TypeOK'
      BY <1>1, <1>5 DEF TypeOK, Redeliver
  <2>2. Past'
      BY <1>1, <1>5 DEF Past, Redeliver
  <2> QED
      BY <1>2, <2>1, <2>2
<1>6. CASE Restart
  <2>1. TypeOK'
      BY <1>1, <1>6 DEF TypeOK, Restart, consumer
  <2>2. Past'
      BY <1>1, <1>6 DEF Past, Restart, consumer
  <2> QED
      BY <1>2, <2>1, <2>2
<1> QED
    BY <1>3, <1>4, <1>5, <1>6

(* A copy handed to the dataflow is queued, in no window.                  *)
LEMMA InvHanded ==
    ASSUME Inv, NEW e \in Telemetry, e.time <= now, copies' = Handed(e),
           UNCHANGED <<now, stream, seen, win, lag, dropped, fused, up>>,
           todo' \subseteq todo, unacked' \subseteq DOMAIN stream
    PROVE  Inv'
<1> USE DEF Inv
<1> DEFINE new == [event |-> e, prompt |-> FALSE, fate |-> "queued"]
           n == Len(copies) + 1
<1>1. new \in Copy /\ new.event = e /\ new.fate = "queued"
    BY DEF Copy, Fate
<1>2. copies' = Append(copies, new)
    BY DEF Handed
<1> HIDE DEF new
<1>3. /\ copies' \in Seq(Copy)
      /\ DOMAIN copies' = 1 .. n
      /\ \A c \in DOMAIN copies : copies'[c] = copies[c]
      /\ copies'[n] = new
    BY <1>1, <1>2, Typed, AppendProperties, LenProperties
<1>4. /\ DOMAIN copies \subseteq DOMAIN copies'
      /\ \A c \in DOMAIN copies' : c \in DOMAIN copies \/ c = n
    BY <1>3, Typed
<1> HIDE DEF n
<1>5. fused' \in Seq(Fired(DOMAIN copies'))
    BY <1>4, FiredStays
<1>6. TypeOK'
  <2>1. /\ win' \subseteq (DOMAIN copies') \X Keys
        /\ dropped' \subseteq (DOMAIN copies') \X Keys
      BY <1>4 DEF TypeOK
  <2> QED
      BY <1>3, <1>5, <2>1 DEF TypeOK, Copy, Fate, Fired
<1>7. Past'
    BY <1>1, <1>3, <1>4 DEF Past
<1>8. Claims'
    BY <1>1, <1>3, <1>4 DEF Claims
<1>9. OneTaken'
    BY <1>1, <1>3, <1>4 DEF OneTaken
<1>10. FiresOnce'
  <2>1. \A p \in win : p[1] \in DOMAIN copies
      BY DEF TypeOK
  <2>2. \A i \in DOMAIN fused : fused[i].copies \subseteq DOMAIN copies
      BY FiredType DEF Fired
  <2> QED
      BY <1>3, <1>4, <2>1, <2>2 DEF FiresOnce
<1> QED
    BY <1>6, <1>7, <1>8, <1>9, <1>10

LEMMA InvArrival ==
    ASSUME Inv, \/ \E e \in Telemetry : Broadcast(e)
                \/ \E m \in DOMAIN stream : Fetch(m)
    PROVE  Inv'
<1>1. CASE \E e \in Telemetry : Broadcast(e)
  <2> PICK e \in Telemetry : Broadcast(e)
      BY <1>1
  <2>1. /\ e.time <= now /\ copies' = Handed(e)
        /\ UNCHANGED <<now, stream, todo, unacked, seen, win, lag, dropped, fused, up>>
      BY DEF Broadcast, consumer, windows
  <2>2. unacked' \subseteq DOMAIN stream
      BY <2>1 DEF Inv, TypeOK
  <2> QED
      BY <2>1, <2>2, InvHanded
<1>2. CASE \E m \in DOMAIN stream : Fetch(m)
  <2> PICK m \in DOMAIN stream : Fetch(m)
      BY <1>2
  <2>1. /\ copies' = Handed(stream[m]) /\ todo' \subseteq todo
        /\ UNCHANGED <<now, stream, seen, win, lag, dropped, fused, up>>
        /\ unacked' \in {unacked, unacked \cup {m}}
      BY DEF Fetch, windows
  <2>2. stream[m] \in Telemetry /\ stream[m].time <= now
      BY StreamType DEF Inv, Past
  <2>3. unacked' \subseteq DOMAIN stream
      BY <2>1 DEF Inv, TypeOK
  <2> QED
      BY <2>1, <2>2, <2>3, InvHanded
<1> QED
    BY <1>1, <1>2

-----------------------------------------------------------------------------
(* Decoding.                                                               *)

(* What a decision changes in copies.                                      *)
LEMMA DecidedCopy ==
    ASSUME TypeOK, NEW c \in DOMAIN copies, NEW f \in Fate, Decided(c, f)
    PROVE  /\ copies' \in Seq(Copy) /\ DOMAIN copies' = DOMAIN copies
           /\ copies'[c].event = copies[c].event /\ copies'[c].fate = f
           /\ \A d \in DOMAIN copies : d # c => copies'[d] = copies[d]
<1> DEFINE p == now <= copies[c].event.time + Wait
           new == [event |-> copies[c].event, prompt |-> p, fate |-> f]
<1>1. copies[c] \in Copy /\ copies \in Seq(Copy) /\ c \in 1 .. Len(copies)
    BY CopyType, Typed
<1>2. p \in BOOLEAN
    OBVIOUS
<1>3. copies' = [copies EXCEPT ![c] = new]
    BY <1>1 DEF Decided
<1> HIDE DEF p
<1>4. new \in Copy /\ new.event = copies[c].event /\ new.fate = f
    BY <1>1, <1>2 DEF Copy
<1> HIDE DEF new
<1>5. /\ [copies EXCEPT ![c] = new] \in Seq(Copy)
      /\ Len([copies EXCEPT ![c] = new]) = Len(copies)
      /\ \A d \in 1 .. Len(copies) :
             [copies EXCEPT ![c] = new][d] = IF d = c THEN new ELSE copies[d]
    BY <1>1, <1>4, ExceptSeq
<1> QED
    BY <1>1, <1>3, <1>4, <1>5, Typed, LenProperties

(* A copy that leaves the queue keeps the invariant when the windows it    *)
(* goes to are its own, and when an "ok" is a first one with a new claim.  *)
LEMMA InvDecided ==
    ASSUME Inv, NEW c \in DOMAIN copies, NEW f \in Fate \ {"queued"},
           copies[c].fate = "queued", Decided(c, f),
           UNCHANGED <<now, stream, todo, unacked, fused, up>>,
           seen' \in [Ids \cup {NoId} -> Nat],
           \A x \in Ids \cup {NoId} : seen[x] <= seen'[x],
           f = "ok" => /\ copies[c].event.time + TTL <= seen'[copies[c].event.id]
                       /\ \A d \in DOMAIN copies :
                              copies[d].fate = "ok" =>
                                  copies[d].event # copies[c].event,
           win' \subseteq win \cup ({c} \X Keys),
           dropped' \subseteq dropped \cup ({c} \X Keys),
           lag' \in [Keys -> Nat]
    PROVE  Inv'
<1> USE DEF Inv
<1>1. /\ copies' \in Seq(Copy) /\ DOMAIN copies' = DOMAIN copies
      /\ copies'[c].event = copies[c].event /\ copies'[c].fate = f
      /\ \A d \in DOMAIN copies : d # c => copies'[d] = copies[d]
    BY DecidedCopy
<1>2. \A d \in DOMAIN copies : copies'[d].event = copies[d].event
    BY <1>1
<1>3. \A d \in DOMAIN copies : /\ copies[d].event \in Telemetry
                                /\ copies[d].event.id \in Ids \cup {NoId}
    BY CopyType, EventType DEF Copy
<1>4. TypeOK'
  <2>1. /\ win' \subseteq (DOMAIN copies') \X Keys
        /\ dropped' \subseteq (DOMAIN copies') \X Keys
      BY <1>1 DEF TypeOK
  <2>2. fused' \in Seq(Fired(DOMAIN copies'))
      BY <1>1, FiredStays
  <2> QED
      BY <1>1, <2>1, <2>2 DEF TypeOK, Copy, Fate, Fired
<1>5. Past'
    BY <1>1, <1>2 DEF Past
<1>6. Claims'
  <2> SUFFICES ASSUME NEW d \in DOMAIN copies, copies'[d].fate = "ok"
               PROVE  copies[d].event.time + TTL <= seen'[copies[d].event.id]
      BY <1>1, <1>2 DEF Claims
  <2>1. CASE d = c
      BY <1>1, <2>1
  <2>2. CASE d # c
    <3>1. copies[d].event.time + TTL <= seen[copies[d].event.id]
        BY <1>1, <2>2 DEF Claims
    <3>2. seen[copies[d].event.id] <= seen'[copies[d].event.id]
        BY <1>3
    <3>3. /\ copies[d].event.time + TTL \in Nat
          /\ seen[copies[d].event.id] \in Nat /\ seen'[copies[d].event.id] \in Nat
      <4>1. copies[d].event.time \in Nat
          BY <1>3, EventType
      <4>2. copies[d].event.time + TTL \in Nat
          BY <4>1
      <4>3. seen \in [Ids \cup {NoId} -> Nat]
          BY DEF TypeOK
      <4> QED
          BY <1>3, <4>2, <4>3
    <3> QED
        BY <3>1, <3>2, <3>3
  <2> QED
      BY <2>1, <2>2
<1>7. OneTaken'
  <2> SUFFICES ASSUME NEW a \in DOMAIN copies, NEW b \in DOMAIN copies,
                      copies'[a].fate = "ok", copies'[b].fate = "ok",
                      copies[a].event = copies[b].event
               PROVE  a = b
      BY <1>1, <1>2 DEF OneTaken
  <2>1. CASE a # c /\ b # c
      BY <1>1, <2>1 DEF OneTaken
  <2>2. CASE a = c /\ b # c
      BY <1>1, <2>2
  <2>3. CASE a # c /\ b = c
      BY <1>1, <2>3
  <2> QED
      BY <2>1, <2>2, <2>3
<1>8. FiresOnce'
  <2>1. \A i \in DOMAIN fused : c \notin fused[i].copies
      BY DEF FiresOnce
  <2>2. \A d \in DOMAIN copies : d # c => copies'[d].fate = copies[d].fate
      BY <1>1
  <2>3. \A p \in win' : p \in win \/ p[1] = c
      OBVIOUS
  <2>4. \A p \in win : p[1] \in DOMAIN copies
      BY DEF TypeOK
  <2>5. \A p \in win' : copies'[p[1]].fate # "queued"
      BY <1>1, <2>2, <2>3, <2>4 DEF FiresOnce
  <2>6. \A d \in DOMAIN copies : \A k : d # c /\ <<d, k>> \in win' => <<d, k>> \in win
      OBVIOUS
  <2>7. \A i \in DOMAIN fused, d \in DOMAIN copies : d \in fused[i].copies =>
            copies'[d].fate # "queued" /\ <<d, fused[i].key>> \notin win'
      BY <2>1, <2>2, <2>6 DEF FiresOnce
  <2> QED
      BY <1>1, <2>5, <2>7 DEF FiresOnce
<1> QED
    BY <1>4, <1>5, <1>6, <1>7, <1>8

(* The windows that a copy goes to.                                        *)
LEMMA Collected ==
    ASSUME TypeOK, NEW c, NEW e \in Telemetry, e.time <= now, Collect(c, e)
    PROVE  /\ win' \subseteq win \cup ({c} \X Keys)
           /\ dropped' \subseteq dropped \cup ({c} \X Keys)
           /\ lag' \in [Keys -> Nat]
<1>1. /\ e.keys \subseteq Keys /\ e.time \in Nat /\ now \in Nat /\ Wait \in Nat
      /\ lag \in [Keys -> Nat]
    BY EventType DEF TypeOK
<1>2. Lag(now - e.time) \in Nat
    BY <1>1 DEF Lag
<1>3. lag' \in [Keys -> Nat]
    BY <1>1, <1>2 DEF Collect
<1> QED
    BY <1>1, <1>3 DEF Collect

LEMMA InvDecode ==
    ASSUME Inv, NEW c \in DOMAIN copies, Decode(c)
    PROVE  Inv'
<1> DEFINE e == copies[c].event
<1>1. /\ copies[c].fate = "queued"
      /\ UNCHANGED <<now, stream, todo, unacked, fused, up>>
    BY DEF Decode, consumer
<1>2. /\ e \in Telemetry /\ e.time <= now
      /\ seen \in [Ids \cup {NoId} -> Nat] /\ now \in Nat /\ TypeOK
    BY CopyType DEF Inv, Copy, Past, TypeOK
<1>3. e.time \in Nat /\ TTL \in Nat /\ e.id \in Ids \cup {NoId}
    BY <1>2, EventType
<1>4. /\ win \subseteq win \cup ({c} \X Keys)
      /\ dropped \subseteq dropped \cup ({c} \X Keys) /\ lag \in [Keys -> Nat]
      /\ \A x \in Ids \cup {NoId} : seen[x] <= seen[x]
    BY <1>2 DEF TypeOK
<1>5. ASSUME seen[e.id] <= now, Claimed(e)
      PROVE  /\ seen' \in [Ids \cup {NoId} -> Nat]
             /\ \A x \in Ids \cup {NoId} : seen[x] <= seen'[x]
             /\ e.time + TTL <= seen'[e.id]
  <2>1. /\ seen' = [seen EXCEPT ![e.id] = now + TTL] /\ now + TTL \in Nat
        /\ seen[e.id] <= now + TTL /\ e.time + TTL <= now + TTL
      BY <1>2, <1>3, <1>5 DEF Claimed
  <2> HIDE DEF e
  <2> QED
      BY <2>1, <1>2, <1>3
<1>6. ASSUME NEW f \in {"malformed", "late", "dupe"}, Decided(c, f),
             UNCHANGED <<seen, windows>>
      PROVE  Inv'
  <2>1. f \in Fate \ {"queued"} /\ f # "ok"
      BY DEF Fate
  <2>2. UNCHANGED <<seen, win, lag, dropped>>
      BY <1>6 DEF windows
  <2> HIDE DEF e
  <2> QED
      BY <1>1, <1>2, <1>4, <1>6, <2>1, <2>2, InvDecided
<1>7. ASSUME ~Late(e), seen[e.id] <= now, Decided(c, "ok"), Claimed(e), Collect(c, e)
      PROVE  Inv'
  <2>1. ASSUME NEW d \in DOMAIN copies, copies[d].fate = "ok", copies[d].event = e
        PROVE  FALSE
    <3>1. e.time + TTL <= seen[e.id]
        BY <2>1 DEF Inv, Claims
    <3>2. seen[e.id] \in Nat /\ Allowed[e.source] \in Nat /\ Allowed[e.source] < TTL
        BY <1>2, EventType
    <3>3. now - e.time <= Allowed[e.source]
        BY <1>2, <1>3, <1>7, <3>2 DEF Late
    <3> QED
        BY <1>2, <1>3, <1>7, <3>1, <3>2, <3>3
  <2>2. /\ win' \subseteq win \cup ({c} \X Keys)
        /\ dropped' \subseteq dropped \cup ({c} \X Keys)
        /\ lag' \in [Keys -> Nat]
      BY <1>2, <1>7, Collected
  <2>3. "ok" \in Fate \ {"queued"}
      BY DEF Fate
  <2> QED
      BY <1>1, <1>5, <1>7, <2>1, <2>2, <2>3, InvDecided
<1>8. ASSUME Decided(c, "unchecked"), Collect(c, e),
             UNCHANGED seen \/ (seen[e.id] <= now /\ Claimed(e))
      PROVE  Inv'
  <2>1. /\ seen' \in [Ids \cup {NoId} -> Nat]
        /\ \A x \in Ids \cup {NoId} : seen[x] <= seen'[x]
      BY <1>2, <1>4, <1>5, <1>8
  <2>2. /\ win' \subseteq win \cup ({c} \X Keys)
        /\ dropped' \subseteq dropped \cup ({c} \X Keys)
        /\ lag' \in [Keys -> Nat]
      BY <1>2, <1>8, Collected
  <2>3. "unchecked" \in Fate \ {"queued"} /\ "unchecked" # "ok"
      BY DEF Fate
  <2> QED
      BY <1>1, <1>8, <2>1, <2>2, <2>3, InvDecided
<1> QED
    BY <1>6, <1>7, <1>8 DEF Decode

-----------------------------------------------------------------------------
(* Windows that fire or are lost.                                          *)

LEMMA InvClose ==
    ASSUME Inv, NEW k \in Keys, NEW t \in 0 .. now, Close(k, t)
    PROVE  Inv'
<1> USE DEF Inv
<1> DEFINE cs == InWindow(k, t)
           new == [key |-> k, time |-> t, copies |-> cs]
           n == Len(fused) + 1
<1>1. /\ win' = win \ (cs \X {k})
      /\ fused' = Append(fused, new)
      /\ lag' = [lag EXCEPT ![k] = IF \E p \in win' : p[2] = k THEN @ ELSE 0]
      /\ UNCHANGED <<now, stream, todo, unacked, copies, seen, dropped, up>>
    BY DEF Close, consumer
<1>2. cs \subseteq DOMAIN copies /\ \A c \in cs : <<c, k>> \in win
    BY DEF InWindow
<1> HIDE DEF cs
<1>3. new \in Fired(DOMAIN copies) /\ new.key = k /\ new.copies = cs
  <2>1. t \in Nat
      BY DEF TypeOK
  <2> QED
      BY <1>2, <2>1 DEF Fired
<1> HIDE DEF new
<1>4. /\ fused' \in Seq(Fired(DOMAIN copies))
      /\ DOMAIN fused' = 1 .. n
      /\ \A i \in DOMAIN fused : fused'[i] = fused[i]
      /\ fused'[n] = new
    BY <1>1, <1>3, Typed, AppendProperties, LenProperties
<1>5. /\ \A i \in DOMAIN fused' : i \in DOMAIN fused \/ i = n
      /\ n \notin DOMAIN fused
    BY <1>4, Typed
<1> HIDE DEF n
<1>6. lag' \in [Keys -> Nat]
    BY <1>1 DEF TypeOK
<1>7. TypeOK'
  <2>1. win' \subseteq (DOMAIN copies') \X Keys
      BY <1>1 DEF TypeOK
  <2>2. fused' \in Seq(Fired(DOMAIN copies'))
      BY <1>1, <1>4
  <2> QED
      BY <1>1, <1>6, <2>1, <2>2 DEF TypeOK, Fired
<1>8. (Past /\ Claims /\ OneTaken)'
    BY <1>1 DEF Past, Claims, OneTaken
<1>9. FiresOnce'
  <2>1. \A p \in win' : copies'[p[1]].fate # "queued"
      BY <1>1 DEF FiresOnce
  <2>2. \A c \in cs : copies[c].fate # "queued"
    <3> SUFFICES ASSUME NEW c \in cs
                 PROVE  copies[c].fate # "queued"
        OBVIOUS
    <3> DEFINE p == <<c, k>>
    <3>1. p \in win /\ p[1] = c
        BY <1>2
    <3> QED
        BY <3>1 DEF FiresOnce
  <2>3. \A c \in cs : <<c, k>> \notin win'
      BY <1>1
  <2>4. \A i \in DOMAIN fused', c \in DOMAIN copies : c \in fused'[i].copies =>
            copies[c].fate # "queued" /\ <<c, fused'[i].key>> \notin win'
    <3> SUFFICES ASSUME NEW i \in DOMAIN fused', NEW c \in DOMAIN copies,
                        c \in fused'[i].copies
                 PROVE  /\ copies[c].fate # "queued"
                        /\ <<c, fused'[i].key>> \notin win'
        OBVIOUS
    <3>1. CASE i \in DOMAIN fused
        BY <1>1, <1>4, <3>1 DEF FiresOnce
    <3>2. CASE i = n
        BY <1>3, <1>4, <2>2, <2>3, <3>2
    <3> QED
        BY <1>5, <3>1, <3>2
  <2>5. \A i \in DOMAIN fused, c \in DOMAIN copies :
            c \in fused[i].copies /\ c \in cs => fused[i].key # k
      BY <1>2 DEF FiresOnce
  <2>6. \A i, j \in DOMAIN fused', c \in DOMAIN copies :
            (c \in fused'[i].copies /\ c \in fused'[j].copies
             /\ fused'[i].key = fused'[j].key) => i = j
    <3> SUFFICES ASSUME NEW i \in DOMAIN fused', NEW j \in DOMAIN fused',
                        NEW c \in DOMAIN copies,
                        c \in fused'[i].copies, c \in fused'[j].copies,
                        fused'[i].key = fused'[j].key
                 PROVE  i = j
        OBVIOUS
    <3>1. CASE i \in DOMAIN fused /\ j \in DOMAIN fused
        BY <1>4, <3>1 DEF FiresOnce
    <3>2. CASE i = n /\ j \in DOMAIN fused
        BY <1>3, <1>4, <2>5, <3>2
    <3>3. CASE i \in DOMAIN fused /\ j = n
        BY <1>3, <1>4, <2>5, <3>3
    <3> QED
        BY <1>5, <3>1, <3>2, <3>3
  <2> QED
      BY <1>1, <2>1, <2>4, <2>6 DEF FiresOnce
<1> QED
    BY <1>7, <1>8, <1>9

LEMMA InvCrash ==
    ASSUME Inv, Crash
    PROVE  Inv'
<1> USE DEF Inv
<1> DEFINE after(c) == IF copies[c].fate = "queued"
                       THEN [copies[c] EXCEPT !.fate = "lost"] ELSE copies[c]
<1>1. /\ copies' = [c \in DOMAIN copies |-> after(c)]
      /\ win' = {} /\ lag' = [k \in Keys |-> 0] /\ up' = FALSE
      /\ UNCHANGED <<now, stream, todo, unacked, seen, dropped, fused>>
    BY DEF Crash, consumer
<1>2. ASSUME NEW c \in DOMAIN copies
      PROVE  /\ after(c) \in Copy /\ after(c).event = copies[c].event
             /\ after(c).fate # "queued"
             /\ after(c).fate = "ok" => copies[c].fate = "ok"
    BY CopyType DEF Copy, Fate
<1> HIDE DEF after
<1>3. /\ copies' \in Seq(Copy) /\ DOMAIN copies' = DOMAIN copies
      /\ \A c \in DOMAIN copies : copies'[c] = after(c)
    BY <1>1, <1>2, Typed
<1>4. TypeOK'
  <2>1. fused' \in Seq(Fired(DOMAIN copies'))
      BY <1>1, <1>3, FiredStays
  <2> QED
      BY <1>1, <1>3, <2>1 DEF TypeOK, Copy, Fate, Fired
<1>5. (Past /\ Claims /\ OneTaken)'
    BY <1>1, <1>2, <1>3 DEF Past, Claims, OneTaken
<1>6. FiresOnce'
    BY <1>1, <1>2, <1>3 DEF FiresOnce
<1> QED
    BY <1>4, <1>5, <1>6

-----------------------------------------------------------------------------
(* The theorems.                                                           *)

LEMMA Invariance == Spec => []Inv
<1>1. Init => Inv
    BY InvInit
<1>2. Inv /\ [Next]_vars => Inv'
  <2> SUFFICES ASSUME Inv, [Next]_vars
               PROVE  Inv'
      OBVIOUS
  <2>1. CASE UNCHANGED vars
    <3>1. UNCHANGED <<now, stream, todo, unacked, copies, seen, win, lag,
                      dropped, fused, up>>
        BY <2>1 DEF vars, consumer, windows
    <3> QED
        BY <3>1 DEF Inv, TypeOK, Past, Claims, OneTaken, FiresOnce
  <2>2. CASE Next
      BY <2>2, InvOutside, InvArrival, InvDecode, InvClose, InvCrash
         DEF Next, Step
  <2> QED
      BY <2>1, <2>2
<1> QED
    BY <1>1, <1>2, PTL DEF Spec

(* The stream, the copies, the event clocks and the windows stay of their  *)
(* types through losses, redeliveries, failures and deaths.                *)
THEOREM TypeCorrect == Spec => []TypeOK
<1>1. Inv => TypeOK
    BY DEF Inv
<1> QED
    BY <1>1, Invariance, PTL

(* An event with an id counts once for a key at most, however often it     *)
(* comes: when its dedupe key expires, the event is late.                  *)
THEOREM CountedOnce == Spec => []AtMostOnce
<1>1. Inv => AtMostOnce
  <2> SUFFICES ASSUME Inv, NEW i \in DOMAIN fused, NEW j \in DOMAIN fused,
                      NEW c \in fused[i].copies, NEW d \in fused[j].copies,
                      fused[i].key = fused[j].key,
                      copies[c].event = copies[d].event,
                      copies[c].fate = "ok", copies[d].fate = "ok"
               PROVE  i = j /\ c = d
      BY DEF AtMostOnce
  <2>1. c \in DOMAIN copies /\ d \in DOMAIN copies
      BY FiredType DEF Inv, Fired
  <2>2. c = d
      BY <2>1 DEF Inv, OneTaken
  <2> QED
      BY <2>1, <2>2 DEF Inv, FiresOnce
<1> QED
    BY <1>1, Invariance, PTL

-----------------------------------------------------------------------------
(* Prompt evidence.                                                        *)

(* The event clock of a key with a window is behind the system clock by    *)
(* the wait at least.                                                      *)
Waits == \A p \in win : lag[p[2]] >= Wait

(* A second that has fired is over for prompt evidence, and none of it is  *)
(* left in a window.                                                       *)
Over ==
    \A i \in DOMAIN fused :
        /\ fused[i].time + Wait < now
        /\ \A c \in fused[i].copies : copies[c].event.time = fused[i].time
        /\ \A p \in win :
               p[2] = fused[i].key /\ copies[p[1]].event.time = fused[i].time =>
                   ~copies[p[1]].prompt

DroppedOnce == \A p \in dropped : copies[p[1]].fate # "queued"

PromptInv == Waits /\ Over /\ DroppedOnce /\ PromptTogether

LEMMA PromptInit == Init => PromptInv
BY DEF Init, PromptInv, Waits, Over, DroppedOnce, PromptTogether

(* Time, and what does not come to the windows, changes nothing.           *)
LEMMA PromptStays ==
    ASSUME Inv, PromptInv, now' \in Nat, now <= now',
           UNCHANGED <<fused, dropped>>,
           \/ win' = win /\ lag' = lag
           \/ win' = {},
           \A c \in DOMAIN copies :
               /\ copies'[c].event = copies[c].event
               /\ copies'[c].prompt = copies[c].prompt
               /\ copies[c].fate # "queued" => copies'[c].fate # "queued"
    PROVE  PromptInv'
<1>1. /\ \A p \in win : p[1] \in DOMAIN copies
      /\ \A p \in dropped : p[1] \in DOMAIN copies
    BY DEF Inv, TypeOK
<1>2. \A i \in DOMAIN fused : fused[i].copies \subseteq DOMAIN copies /\ fused[i].time \in Nat
    BY FiredType DEF Inv, Fired
<1>3. Waits' /\ DroppedOnce'
    BY <1>1 DEF PromptInv, Waits, DroppedOnce
<1>4. Over'
  <2>1. now \in Nat /\ Wait \in Nat
      BY DEF Inv, TypeOK
  <2>2. \A i \in DOMAIN fused : fused[i].time + Wait < now'
      BY <1>2, <2>1 DEF PromptInv, Over
  <2> QED
      BY <1>1, <1>2, <2>2 DEF PromptInv, Over
<1>5. PromptTogether'
    BY <1>1, <1>2 DEF PromptInv, PromptTogether
<1> QED
    BY <1>3, <1>4, <1>5 DEF PromptInv

LEMMA PromptArrival ==
    ASSUME Inv, PromptInv,
           \/ Tick \/ Restart
           \/ \E e \in Telemetry : Publish(e) \/ Broadcast(e)
           \/ \E m \in DOMAIN stream : Redeliver(m) \/ Fetch(m)
    PROVE  PromptInv'
<1>1. UNCHANGED <<fused, dropped, win, lag>>
    BY DEF Tick, Restart, Publish, Broadcast, Redeliver, Fetch, windows
<1>2. now \in Nat /\ now' \in {now, now + 1}
    BY DEF Inv, TypeOK, Tick, Restart, Publish, Broadcast, Redeliver, Fetch
<1>3. copies' = copies \/ \E e \in Telemetry : copies' = Handed(e)
    BY StreamType DEF Tick, Restart, Publish, Broadcast, Redeliver, Fetch, Inv
<1>4. ASSUME NEW e \in Telemetry, copies' = Handed(e)
      PROVE  \A c \in DOMAIN copies : copies'[c] = copies[c]
  <2> DEFINE new == [event |-> e, prompt |-> FALSE, fate |-> "queued"]
  <2>1. new \in Copy /\ copies' = Append(copies, new)
      BY <1>4 DEF Handed, Copy, Fate
  <2> HIDE DEF new
  <2> QED
      BY <2>1, Typed, AppendProperties DEF Inv
<1>5. \A c \in DOMAIN copies : copies'[c] = copies[c]
    BY <1>3, <1>4
<1> QED
    BY <1>1, <1>2, <1>5, PromptStays

LEMMA PromptCrash ==
    ASSUME Inv, PromptInv, Crash
    PROVE  PromptInv'
<1>1. win' = {} /\ UNCHANGED <<now, dropped, fused>> /\ now \in Nat
    BY DEF Crash, Inv, TypeOK
<1>2. ASSUME NEW c \in DOMAIN copies
      PROVE  /\ copies'[c].event = copies[c].event
             /\ copies'[c].prompt = copies[c].prompt
             /\ copies[c].fate # "queued" => copies'[c].fate # "queued"
  <2>1. copies[c] \in Copy
      BY <1>2, CopyType DEF Inv
  <2>2. copies'[c] = IF copies[c].fate = "queued"
                     THEN [copies[c] EXCEPT !.fate = "lost"] ELSE copies[c]
      BY DEF Crash
  <2> QED
      BY <2>1, <2>2 DEF Copy
<1> QED
    BY <1>1, <1>2, PromptStays

(* A copy that is decoded is prompt, or goes to a second that may be over. *)
LEMMA PromptDecode ==
    ASSUME Inv, PromptInv, NEW c \in DOMAIN copies, Decode(c)
    PROVE  PromptInv'
<1> DEFINE e == copies[c].event
<1>1. /\ copies[c].fate = "queued" /\ UNCHANGED <<now, fused>>
      /\ \E f \in Fate \ {"queued"} : Decided(c, f)
      /\ UNCHANGED windows \/ Collect(c, e)
    BY DEF Decode, Fate
<1>2. PICK f \in Fate \ {"queued"} : Decided(c, f)
    BY <1>1
<1>3. TypeOK /\ e \in Telemetry /\ e.time <= now /\ now \in Nat /\ Wait \in Nat
    BY CopyType DEF Inv, Past, Copy, TypeOK
<1>4. e.time \in Nat /\ e.keys \subseteq Keys
    BY <1>3, EventType
<1>5. /\ copies'[c].event = e /\ copies'[c].fate # "queued"
      /\ DOMAIN copies' = DOMAIN copies
      /\ \A d \in DOMAIN copies : d # c => copies'[d] = copies[d]
    BY <1>2, <1>3, DecidedCopy
<1>6. copies'[c].prompt => now <= e.time + Wait
    BY <1>2, <1>3, Typed DEF Decided
<1>7. /\ \A p \in win : p[1] \in DOMAIN copies /\ p[1] # c /\ p[2] \in Keys
      /\ \A p \in dropped : p[1] \in DOMAIN copies /\ p[1] # c
    BY <1>1 DEF Inv, TypeOK, FiresOnce, PromptInv, DroppedOnce
<1>8. \A i \in DOMAIN fused : /\ fused[i].copies \subseteq DOMAIN copies \ {c}
                              /\ fused[i].time \in Nat
    BY <1>1, FiredType DEF Inv, Fired, FiresOnce
<1> DEFINE late == {k \in e.keys : Open(k) /\ lag[k] < now - e.time}
<1>9. /\ win' \subseteq win \cup ({c} \X Keys)
      /\ \/ dropped' = dropped
         \/ dropped' = dropped \cup ({c} \X late)
    BY <1>1, <1>3, Collected DEF Collect, windows
<1>10. Waits'
  <2>1. CASE UNCHANGED windows
      BY <2>1 DEF windows, PromptInv, Waits
  <2>2. CASE Collect(c, e)
    <3> DEFINE delay == now - e.time
               keep(k) == Open(k) /\ lag[k] <= Lag(delay)
    <3>1. lag' = [k \in Keys |-> IF k \in e.keys /\ ~keep(k) THEN Lag(delay) ELSE lag[k]]
        BY <2>2 DEF Collect
    <3>2. Lag(delay) >= Wait
        BY <1>3, <1>4 DEF Lag
    <3>3. win' \subseteq win \cup ({c} \X e.keys)
        BY <2>2 DEF Collect
    <3>4. \A k \in Keys : Open(k) => lag[k] >= Wait
        BY DEF Open, PromptInv, Waits
    <3> HIDE DEF delay, e
    <3>5. ASSUME NEW p \in win'
          PROVE  lag'[p[2]] >= Wait
      <4>1. CASE p \in win
        <5>1. p[2] \in Keys /\ lag[p[2]] >= Wait
            BY <1>7, <4>1 DEF PromptInv, Waits
        <5> QED
            BY <3>1, <3>2, <5>1
      <4>2. CASE p[2] \in e.keys
        <5>1. p[2] \in Keys
            BY <1>4, <4>2
        <5>2. lag'[p[2]] = IF ~keep(p[2]) THEN Lag(delay) ELSE lag[p[2]]
            BY <3>1, <4>2, <5>1
        <5> QED
            BY <3>2, <3>4, <5>1, <5>2
      <4> QED
          BY <3>3, <3>5, <4>1, <4>2
    <3> QED
        BY <3>5 DEF Waits
  <2> QED
      BY <1>1, <2>1, <2>2
<1>11. DroppedOnce'
  <2>1. \A p \in dropped' : p \in dropped \/ p[1] = c
      BY <1>9
  <2> QED
      BY <1>5, <1>7, <2>1 DEF PromptInv, DroppedOnce
<1>12. \A p \in win' : p \in win \/ p[1] = c
    BY <1>9
<1>13. Over'
  <2> SUFFICES ASSUME NEW i \in DOMAIN fused
               PROVE  /\ fused[i].time + Wait < now
                      /\ \A d \in fused[i].copies : copies'[d].event.time = fused[i].time
                      /\ \A p \in win' :
                             p[2] = fused[i].key /\ copies'[p[1]].event.time = fused[i].time =>
                                 ~copies'[p[1]].prompt
      BY <1>1 DEF Over
  <2>1. fused[i].time + Wait < now
      BY DEF PromptInv, Over
  <2>2. \A d \in fused[i].copies : copies'[d].event.time = fused[i].time
      BY <1>5, <1>8 DEF PromptInv, Over
  <2>3. e.time = fused[i].time => ~copies'[c].prompt
      BY <1>3, <1>4, <1>6, <2>1
  <2> HIDE DEF e
  <2>4. \A p \in win' : p[2] = fused[i].key /\ copies'[p[1]].event.time = fused[i].time =>
                             ~copies'[p[1]].prompt
      BY <1>5, <1>7, <1>12, <2>3 DEF PromptInv, Over
  <2> QED
      BY <2>1, <2>2, <2>4
<1>14. PromptTogether'
  <2>1. \A i \in DOMAIN fused : \A d \in fused[i].copies : copies'[d] = copies[d]
      BY <1>5, <1>8
  <2>2. ASSUME NEW p \in dropped'
        PROVE  ~copies'[p[1]].prompt
    <3>1. CASE p \in dropped
        BY <1>5, <1>7, <3>1 DEF PromptInv, PromptTogether
    <3>2. CASE p \in {c} \X late
      <4>1. PICK k \in late : p = <<c, k>>
          BY <3>2
      <4>2. Open(k) /\ lag[k] < now - e.time /\ k \in Keys
          BY <1>4
      <4>3. lag[k] >= Wait /\ lag[k] \in Nat
          BY <4>2 DEF Open, PromptInv, Waits, Inv, TypeOK
      <4>4. ~(now <= e.time + Wait)
          BY <1>3, <1>4, <4>2, <4>3
      <4> QED
          BY <1>6, <4>1, <4>4
    <3> QED
        BY <1>9, <2>2, <3>1, <3>2
  <2> QED
      BY <1>1, <2>1, <2>2 DEF PromptInv, PromptTogether
<1> QED
    BY <1>10, <1>11, <1>13, <1>14 DEF PromptInv

(* A window fires with all that is left of its second.                     *)
LEMMA PromptClose ==
    ASSUME Inv, PromptInv, NEW k \in Keys, NEW t \in 0 .. now, Close(k, t)
    PROVE  PromptInv'
<1> DEFINE cs == InWindow(k, t)
           new == [key |-> k, time |-> t, copies |-> cs]
           n == Len(fused) + 1
<1>1. /\ cs # {} /\ t + 1 <= now - lag[k]
      /\ win' = win \ (cs \X {k})
      /\ lag' = [lag EXCEPT ![k] = IF \E p \in win' : p[2] = k THEN @ ELSE 0]
      /\ fused' = Append(fused, new)
      /\ UNCHANGED <<now, copies, dropped>>
    BY DEF Close, Ripe, Watermark
<1>2. TypeOK /\ now \in Nat /\ Wait \in Nat /\ t \in Nat /\ lag \in [Keys -> Nat]
    BY DEF Inv, TypeOK
<1>3. /\ \A c \in cs : c \in DOMAIN copies /\ <<c, k>> \in win /\ copies[c].event.time = t
      /\ \A c \in DOMAIN copies : <<c, k>> \in win /\ copies[c].event.time = t => c \in cs
    BY DEF InWindow
<1> HIDE DEF cs
<1>4. lag[k] >= Wait
  <2>1. PICK c \in cs : TRUE
      BY <1>1
  <2> DEFINE p == <<c, k>>
  <2>2. p \in win /\ p[2] = k
      BY <1>3
  <2> HIDE DEF p
  <2> QED
      BY <2>2 DEF PromptInv, Waits
<1>5. t + Wait < now
  <2>1. lag[k] \in Nat
      BY <1>2
  <2> QED
      BY <1>1, <1>2, <1>4, <2>1
<1>6. new.key = k /\ new.time = t /\ new.copies = cs /\ new \in Fired(DOMAIN copies)
    BY <1>2, <1>3 DEF Fired
<1> HIDE DEF new
<1>7. /\ DOMAIN fused' = 1 .. n /\ fused'[n] = new
      /\ \A i \in DOMAIN fused : fused'[i] = fused[i]
      /\ \A i \in DOMAIN fused' : i \in DOMAIN fused \/ i = n
    BY <1>1, <1>2, <1>6, Typed, AppendProperties, LenProperties
<1> HIDE DEF n
<1>8. win' \subseteq win /\ \A p \in win' : p[2] \in Keys /\ p[1] \in DOMAIN copies /\ p = <<p[1], p[2]>>
    BY <1>1, <1>2 DEF TypeOK
<1>9. \A p \in win' : lag'[p[2]] = lag[p[2]]
    BY <1>1, <1>2, <1>8
<1>10. Waits'
    BY <1>8, <1>9 DEF PromptInv, Waits
<1>11. DroppedOnce'
    BY <1>1 DEF PromptInv, DroppedOnce
<1>12. \A p \in win' : p[2] = k => copies[p[1]].event.time # t
    BY <1>1, <1>3, <1>8
<1>13. Over'
  <2> SUFFICES ASSUME NEW i \in DOMAIN fused'
               PROVE  /\ fused'[i].time + Wait < now
                      /\ \A c \in fused'[i].copies : copies[c].event.time = fused'[i].time
                      /\ \A p \in win' :
                             p[2] = fused'[i].key /\ copies[p[1]].event.time = fused'[i].time =>
                                 ~copies[p[1]].prompt
      BY <1>1 DEF Over
  <2>1. CASE i \in DOMAIN fused
      BY <1>7, <1>8, <2>1 DEF PromptInv, Over
  <2>2. CASE i = n
      BY <1>3, <1>5, <1>6, <1>7, <1>12, <2>2
  <2> QED
      BY <1>7, <2>1, <2>2
<1>14. ASSUME NEW i \in DOMAIN fused, fused[i].key = k, fused[i].time = t,
              NEW c \in cs, copies[c].prompt
       PROVE  FALSE
  <2> DEFINE p == <<c, k>>
  <2>1. p \in win /\ p[1] = c /\ p[2] = k /\ copies[c].event.time = t
      BY <1>3
  <2> HIDE DEF p
  <2> QED
      BY <1>14, <2>1 DEF PromptInv, Over
<1>15. PromptTogether'
  <2>1. ASSUME NEW i \in DOMAIN fused', NEW j \in DOMAIN fused',
               fused'[i].key = fused'[j].key, fused'[i].time = fused'[j].time,
               NEW c \in fused'[i].copies, copies[c].prompt,
               NEW d \in fused'[j].copies, copies[d].prompt
        PROVE  i = j
    <3>1. CASE i \in DOMAIN fused /\ j \in DOMAIN fused
        BY <1>7, <2>1, <3>1 DEF PromptInv, PromptTogether
    <3>2. CASE i \in DOMAIN fused /\ j = n
        BY <1>6, <1>7, <1>14, <2>1, <3>2
    <3>3. CASE i = n /\ j \in DOMAIN fused
        BY <1>6, <1>7, <1>14, <2>1, <3>3
    <3> QED
        BY <1>7, <3>1, <3>2, <3>3
  <2>2. \A p \in dropped : ~copies[p[1]].prompt
      BY DEF PromptInv, PromptTogether
  <2> QED
      BY <1>1, <2>1, <2>2, ZenonT(40) DEF PromptTogether
<1> QED
    BY <1>10, <1>11, <1>13, <1>15 DEF PromptInv

(* Evidence that comes within the wait is weighed in one frame of its key  *)
(* and second, and never dropped, for every lateness of the sources.       *)
THEOREM PromptWeighedTogether == Spec => []PromptTogether
<1>1. Init => PromptInv
    BY PromptInit
<1>2. Inv /\ PromptInv /\ [Next]_vars => PromptInv'
  <2> SUFFICES ASSUME Inv, PromptInv, [Next]_vars
               PROVE  PromptInv'
      OBVIOUS
  <2>1. CASE UNCHANGED vars
    <3>1. UNCHANGED <<now, copies, win, lag, dropped, fused>> /\ now \in Nat
        BY <2>1 DEF vars, windows, Inv, TypeOK
    <3> QED
        BY <3>1, PromptStays
  <2>2. CASE Next
      BY <2>2, PromptArrival, PromptCrash, PromptDecode, PromptClose DEF Next, Step
  <2> QED
      BY <2>1, <2>2
<1>3. PromptInv => PromptTogether
    BY DEF PromptInv
<1> QED
    BY <1>1, <1>2, <1>3, Invariance, PTL DEF Spec

-----------------------------------------------------------------------------
(* The hashes in the keys.                                                 *)

LEMMA HashKey ==
    ASSUME NEW e \in Telemetry, NEW k \in e.keys, k[1] = "hash"
    PROVE  k = <<"hash", [hash |-> k[2].hash, form |-> "lower"]>>
<1>1. PICK raw \in Raws : \E ev \in Parse(raw) : k \in Keyer(ev)
    BY EvidenceAssumption DEF Encode
<1>2. PICK ev \in Parse(raw) : k \in Keyer(ev)
    BY <1>1
<1>3. k \in AggKeys(ev) /\ Written(raw)
    BY <1>2, KeyAggregated, EvidenceAssumption
<1> QED
    BY <1>3, AggregatedHash

(* Copies wait, and are weighed, in windows of keys of their own events.   *)
Own ==
    /\ \A p \in win : p[2] \in copies[p[1]].event.keys
    /\ \A i \in DOMAIN fused, c \in DOMAIN copies :
           c \in fused[i].copies => fused[i].key \in copies[c].event.keys

LEMMA OwnInit == Init => Own
BY DEF Init, Own

(* A copy keeps its event.                                                 *)
LEMMA EventsStay ==
    ASSUME Inv, [Next]_vars, NEW c \in DOMAIN copies
    PROVE  copies'[c].event = copies[c].event
<1>1. CASE copies' = copies
    BY <1>1
<1>2. CASE \E e \in Telemetry : copies' = Handed(e)
  <2> PICK e \in Telemetry : copies' = Handed(e)
      BY <1>2
  <2> DEFINE new == [event |-> e, prompt |-> FALSE, fate |-> "queued"]
  <2>1. new \in Copy /\ copies' = Append(copies, new)
      BY DEF Handed, Copy, Fate
  <2> HIDE DEF new
  <2> QED
      BY <2>1, Typed, AppendProperties DEF Inv
<1>3. CASE \E d \in DOMAIN copies : Decode(d)
  <2> PICK d \in DOMAIN copies : Decode(d)
      BY <1>3
  <2>1. \E f \in Fate : Decided(d, f)
      BY DEF Decode, Fate
  <2> QED
      BY <2>1, DecidedCopy DEF Inv
<1>4. CASE Crash
  <2>1. copies[c] \in Copy
      BY CopyType DEF Inv
  <2> QED
      BY <1>4, <2>1 DEF Crash, Copy
<1>5. \/ copies' = copies
      \/ \E e \in Telemetry : copies' = Handed(e)
      \/ \E d \in DOMAIN copies : Decode(d)
      \/ Crash
    BY StreamType DEF Inv, Next, Step, vars, Tick, Publish, Broadcast, Redeliver, Fetch,
                      Close, Restart
<1> QED
    BY <1>1, <1>2, <1>3, <1>4, <1>5

LEMMA OwnStep ==
    ASSUME Inv, Own, [Next]_vars
    PROVE  Own'
<1>1. /\ \A p \in win : p[1] \in DOMAIN copies
      /\ \A c \in DOMAIN copies : copies'[c].event = copies[c].event
    BY EventsStay DEF Inv, TypeOK
<1>2. \A i \in DOMAIN fused : fused[i].copies \subseteq DOMAIN copies
    BY FiredType DEF Inv, Fired
<1>3. CASE \E c \in DOMAIN copies : Decode(c)
  <2> PICK c \in DOMAIN copies : Decode(c)
      BY <1>3
  <2>1. /\ fused' = fused /\ win' \subseteq win \cup ({c} \X copies[c].event.keys)
      BY DEF Decode, Collect, windows
  <2>2. \A p \in win' : p \in win \/ (p[1] = c /\ p[2] \in copies[c].event.keys)
      BY <2>1
  <2> QED
      BY <1>1, <1>2, <2>1, <2>2 DEF Own
<1>4. CASE \E k \in Keys, t \in 0 .. now : Close(k, t)
  <2> PICK k \in Keys, t \in 0 .. now : Close(k, t)
      BY <1>4
  <2> DEFINE cs == InWindow(k, t)
             new == [key |-> k, time |-> t, copies |-> cs]
  <2>1. win' \subseteq win /\ fused' = Append(fused, new)
      BY DEF Close
  <2>2. new.key = k /\ new.copies = cs /\ new \in Fired(DOMAIN copies)
      BY DEF InWindow, Fired, Inv, TypeOK
  <2>3. ASSUME NEW c \in cs
        PROVE  c \in DOMAIN copies /\ k \in copies[c].event.keys
    <3> DEFINE p == <<c, k>>
    <3>1. p \in win /\ p[1] = c /\ p[2] = k /\ c \in DOMAIN copies
        BY DEF InWindow
    <3> HIDE DEF p
    <3> QED
        BY <3>1 DEF Own
  <2> HIDE DEF new, cs
  <2>4. \A i \in DOMAIN fused' : \/ i \in DOMAIN fused /\ fused'[i] = fused[i]
                                 \/ fused'[i] = new
      BY <2>1, <2>2, Typed, AppendProperties DEF Inv
  <2> QED
      BY <1>1, <1>2, <2>1, <2>2, <2>3, <2>4 DEF Own
<1>5. CASE win' \subseteq win /\ fused' = fused
    BY <1>1, <1>2, <1>5 DEF Own
<1>6. \/ \E c \in DOMAIN copies : Decode(c)
      \/ \E k \in Keys, t \in 0 .. now : Close(k, t)
      \/ win' \subseteq win /\ fused' = fused
    BY DEF Next, Step, vars, windows, Tick, Publish, Broadcast, Redeliver, Fetch, Crash,
           Restart
<1> QED
    BY <1>3, <1>4, <1>5, <1>6

(* Two sources may spell a hash differently and put it in any field or     *)
(* URI: prompt evidence about it in one second is weighed in one frame,    *)
(* whatever the raw events.                                                *)
THEOREM OneFramePerHash == Spec => []HashesMeet
<1>1. Inv /\ Own /\ PromptTogether => HashesMeet
  <2> SUFFICES ASSUME Inv, Own, PromptTogether,
                      NEW i \in DOMAIN fused, NEW j \in DOMAIN fused,
                      fused[i].key[1] = "hash", fused[j].key[1] = "hash",
                      fused[i].key[2].hash = fused[j].key[2].hash,
                      fused[i].time = fused[j].time,
                      NEW c \in fused[i].copies, copies[c].prompt,
                      NEW d \in fused[j].copies, copies[d].prompt
               PROVE  i = j
      BY DEF HashesMeet
  <2>1. c \in DOMAIN copies /\ d \in DOMAIN copies
      BY FiredType DEF Inv, Fired
  <2>2. /\ copies[c].event \in Telemetry /\ fused[i].key \in copies[c].event.keys
        /\ copies[d].event \in Telemetry /\ fused[j].key \in copies[d].event.keys
      BY <2>1, CopyType DEF Inv, Own, Copy
  <2>3. /\ fused[i].key = <<"hash", [hash |-> fused[i].key[2].hash, form |-> "lower"]>>
        /\ fused[j].key = <<"hash", [hash |-> fused[j].key[2].hash, form |-> "lower"]>>
      BY <2>2, HashKey
  <2>4. fused[i].key = fused[j].key
      BY <2>3
  <2> QED
      BY <2>4 DEF PromptTogether
<1> QED
    BY <1>1, Invariance, OwnInit, OwnStep, PromptWeighedTogether, PTL DEF Spec

-----------------------------------------------------------------------------
(* Confidences and reports.                                                *)

(* A parsed event has a confidence, whatever the producer wrote.           *)
LEMMA ParsedConfidence ==
    ASSUME NEW raw \in Raws, NEW ev \in Parse(raw)
    PROVE  ev.confidence \in Int
<1>1. /\ "confidence" \in DOMAIN Parsed(raw)
      /\ \A uri : "confidence" \in DOMAIN IndicatorParts(Parsed(raw), uri)
    BY DEF Parsed, IndicatorParts
<1>2. \A n \in Int : Clamped(n) \in Int
    BY DEF Clamped
<1>3. {Get(raw.body, "confidence"), Get(raw.body, "score")} \subseteq Int \cup {None, Junk}
    BY EvidenceAssumption DEF Written
<1>4. CASE ev \in ParseFlat(raw)
  <2> DEFINE conf == Or(Get(raw.body, "confidence"), 0)
  <2>1. conf # Junk /\ conf \in Int \cup {Junk}
      BY <1>3, <1>4 DEF ParseFlat, Or
  <2>2. \E uri, ts : ev = [IndicatorParts(Parsed(raw), uri) EXCEPT
                     !.indicator = uri, !.techniques = ts, !.confidence = Clamped(conf)]
      BY <1>4 DEF ParseFlat
  <2> HIDE DEF conf
  <2> QED
      BY <1>1, <1>2, <2>1, <2>2
<1>5. CASE ev \in ParseEdr(raw)
  <2> DEFINE score == Or(Get(raw.body, "score"), 4)
  <2>1. score # Junk /\ score \in Int \cup {Junk}
      BY <1>3, <1>5 DEF ParseEdr, Or
  <2>2. \E a, b, c, d, ts : ev = [Parsed(raw) EXCEPT
              !.ip = a, !.domain = b, !.sha256 = c, !.pid = d, !.techniques = ts,
              !.confidence = Clamped(score)]
      BY <1>5 DEF ParseEdr
  <2> HIDE DEF score
  <2> QED
      BY <1>1, <1>2, <2>1, <2>2
<1>6. CASE ev \in ParseSuricataAlert(raw)
  <2> DEFINE severity == Or(Get(raw.body, "severity"), 3)
             table == <<17, 11, 6, 2>>
             n == IF severity \in DOMAIN table THEN table[severity] ELSE 6
  <2>1. ev = [Parsed(raw) EXCEPT !.ip = Get(raw.body, "dest_ip"), !.confidence = n]
      BY <1>6 DEF ParseSuricataAlert
  <2>2. \A k \in DOMAIN table : table[k] \in Int
      OBVIOUS
  <2> HIDE DEF severity, table
  <2>3. n \in Int
      BY <2>2
  <2> HIDE DEF n
  <2> QED
      BY <1>1, <2>1, <2>3
<1>7. CASE \/ ev \in ParseZeekConn(raw) \/ ev \in ParseZeekDns(raw) \/ ev \in ParseZeekSsl(raw)
           \/ ev \in ParseYara(raw)
  <2>1. CASE ev \in ParseZeekConn(raw) \/ ev \in ParseZeekSsl(raw)
    <3>1. \E x : \E n \in {1, 2} : ev = [Parsed(raw) EXCEPT !.ip = x, !.confidence = n]
        BY <2>1 DEF ParseZeekConn, ParseZeekSsl
    <3> QED
        BY <1>1, <3>1
  <2>2. CASE ev \in ParseZeekDns(raw)
    <3>1. \E x : ev = [Parsed(raw) EXCEPT !.domain = x, !.confidence = 1]
        BY <2>2 DEF ParseZeekDns
    <3> QED
        BY <1>1, <3>1
  <2>3. CASE ev \in ParseYara(raw)
    <3>1. \E x : \E n \in {11, 17} : ev = [Parsed(raw) EXCEPT !.sha256 = x, !.confidence = n]
        BY <2>3 DEF ParseYara
    <3> QED
        BY <1>1, <3>1
  <2> QED
      BY <1>7, <2>1, <2>2, <2>3
<1>8. CASE ev \in ParseSysmon(raw)
  <2> DEFINE event(x) == [Parsed(raw) EXCEPT !.pid = x]
  <2>1. \E x, y, z : \E n \in {2, 3, 4, 5} :
            \/ ev = [event(x) EXCEPT !.confidence = n]
            \/ ev = [event(x) EXCEPT !.confidence = n, !.sha256 = y]
            \/ ev = [event(x) EXCEPT !.confidence = n, !.ip = z]
      BY <1>8 DEF ParseSysmon
  <2>2. \A x : "confidence" \in DOMAIN event(x)
      BY <1>1
  <2> HIDE DEF event
  <2>3. PICK x, y, z : \E n \in {2, 3, 4, 5} :
            \/ ev = [event(x) EXCEPT !.confidence = n]
            \/ ev = [event(x) EXCEPT !.confidence = n, !.sha256 = y]
            \/ ev = [event(x) EXCEPT !.confidence = n, !.ip = z]
      BY <2>1, Zenon
  <2>4. PICK n \in {2, 3, 4, 5} :
            \/ ev = [event(x) EXCEPT !.confidence = n]
            \/ ev = [event(x) EXCEPT !.confidence = n, !.sha256 = y]
            \/ ev = [event(x) EXCEPT !.confidence = n, !.ip = z]
      BY <2>3, Zenon
  <2>5. CASE ev = [event(x) EXCEPT !.confidence = n]
      BY <2>2, <2>5
  <2>6. CASE ev = [event(x) EXCEPT !.confidence = n, !.sha256 = y]
      BY <2>2, <2>6
  <2>7. CASE ev = [event(x) EXCEPT !.confidence = n, !.ip = z]
      BY <2>2, <2>7
  <2> QED
      BY <2>4, <2>5, <2>6, <2>7, SMTT(40)
<1> QED
    BY <1>4, <1>5, <1>6, <1>7, <1>8 DEF Parse

EventIn(e) == CHOOSE ev \in Parse(RawOf(e)) : TRUE

LEMMA EventCounts ==
    ASSUME NEW e \in Telemetry, NEW k \in e.keys
    PROVE  k \in AggKeys(EventIn(e)) /\ EventIn(e).confidence \in Int
<1> DEFINE raw == RawOf(e)
<1>1. raw \in Raws /\ Encode(raw) = e
    BY EvidenceAssumption DEF RawOf
<1>2. \E ev \in Parse(raw) : k \in Keyer(ev)
    BY <1>1 DEF Encode
<1> HIDE DEF raw
<1>3. EventIn(e) \in Parse(raw)
    BY <1>2 DEF EventIn, raw
<1>4. k \in Keyer(EventIn(e))
    BY <1>2, <1>3, OneParsed
<1> QED
    BY <1>1, <1>3, <1>4, KeyAggregated, ParsedConfidence

(* Every event of a window that fires counts in one report, that of its    *)
(* own agent, and every report has a confidence between none and           *)
(* certainty, for all raw events and windows of any size.                  *)
THEOREM EveryEventCounts == Spec => []WeighedOnce
<1>1. Inv /\ Own => WeighedOnce
  <2> SUFFICES ASSUME Inv, Own, NEW i \in DOMAIN fused
               PROVE  LET evs     == ParsedOf(fused[i].copies)
                          reports == Reports(evs, fused[i].key)
                          Of(a)   == {n \in DOMAIN reports : reports[n].agent = a}
                      IN  /\ \A n \in DOMAIN evs : Cardinality(Of(AgentOf(evs[n]))) = 1
                          /\ \A n \in DOMAIN reports :
                                 reports[n].events = Cardinality({m \in DOMAIN evs :
                                                         AgentOf(evs[m]) = reports[n].agent})
                          /\ \A n \in DOMAIN reports :
                                 reports[n].confidence.n \in 0 .. reports[n].confidence.of
      BY DEF WeighedOnce
  <2> DEFINE cs == fused[i].copies
             key == fused[i].key
             all == [c \in DOMAIN copies |-> c]
             oldest == Kept(all, cs)
             evs == ParsedOf(cs)
  <2>1. cs \in SUBSET (1 .. Len(copies)) /\ Len(copies) \in Nat
        /\ DOMAIN copies = 1 .. Len(copies)
      BY FiredType, Typed DEF Inv, Fired
  <2>2. PICK n \in Nat : ItemsAt(oldest, all, cs, n)
    <3> HIDE DEF all, cs
    <3> QED
        BY <2>1, KeptIs
  <2>3. evs = [j \in DOMAIN oldest |-> EventIn(copies[oldest[j]].event)]
      BY Zenon DEF ParsedOf, EventIn
  <2>4. ASSUME NEW j \in 1 .. n
        PROVE  oldest[j] \in cs
    <3> HIDE DEF oldest, cs
    <3>1. PICK f \in Bijection(1 .. n, cs) : \A k \in 1 .. n : oldest[k] = all[f[k]]
        BY <2>2 DEF ItemsAt
    <3>2. f[j] \in cs
        BY Fun_BijectionProperties
    <3> QED
        BY <2>1, <3>1, <3>2
  <2> HIDE DEF oldest
  <2>5. DOMAIN oldest = 1 .. n
      BY <2>2 DEF ItemsAt
  <2>6. DOMAIN evs = 1 .. n
      BY <2>3, <2>5
  <2>7. ASSUME NEW j \in 1 .. n
        PROVE  key \in AggKeys(evs[j]) /\ evs[j].confidence \in Int
    <3> DEFINE c == oldest[j]
    <3>1. c \in cs /\ c \in DOMAIN copies
        BY <2>1, <2>4
    <3>2. copies[c].event \in Telemetry /\ key \in copies[c].event.keys
        BY <3>1, CopyType DEF Inv, Own, Copy
    <3>3. evs[j] = EventIn(copies[c].event)
        BY <2>3, <2>5
    <3> HIDE DEF c, evs, key
    <3> QED
        BY <3>2, <3>3, EventCounts
  <2> HIDE DEF evs, key
  <2>8. LET reports == Reports(evs, key) IN
        /\ \A j \in 1 .. n :
               Cardinality({r \in DOMAIN reports : reports[r].agent = AgentOf(evs[j])}) = 1
        /\ \A r \in DOMAIN reports :
               reports[r].events = Cardinality({j \in DOMAIN evs :
                                       AgentOf(evs[j]) = reports[r].agent})
        /\ \A r \in DOMAIN reports :
               reports[r].confidence.n \in 0 .. reports[r].confidence.of
      BY <2>6, <2>7, ReportsAre
  <2> QED
      BY <2>6, <2>8, Zenon DEF evs, key
<1> QED
    BY <1>1, Invariance, OwnInit, OwnStep, PTL DEF Spec
=============================================================================
