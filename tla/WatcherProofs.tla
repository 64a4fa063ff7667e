---------------------------- MODULE WatcherProofs ----------------------------
(***************************************************************************)
(* That the watcher's budgets are exact and the lineage of its findings    *)
(* is the one the ledger shows, for every depth, width, concurrency and    *)
(* number of pivots, through errors, time limits and crashes.              *)
(***************************************************************************)
EXTENDS Watcher, FiniteSetTheorems, SequenceTheorems, TLAPS

USE WatcherAssumption DEF NoParent

In(S) == {p \in DOMAIN pivots : pivots[p].stage \in S}

Held == {"infer", "append"}
Busy == {"waiting", "infer", "append"}

(* The width is held from the check on, the semaphore from its wait on.    *)
Budgets ==
    /\ live = Cardinality(In(Busy))
    /\ free = Slots - Cardinality(In(Held))

Shallow == \A p \in DOMAIN pivots : pivots[p].depth < MaxDepth

(* A thread is started by a finding and by nothing else, and a result is   *)
(* ok only after its thread.                                               *)
Threads ==
    \A p \in DOMAIN pivots :
        /\ pivots[p].stage \in {"created", "waiting", "infer"} =>
               pivots[p].thread = "none"
        /\ pivots[p].stage = "append" => pivots[p].thread # "none"
        /\ pivots[p].result = "ok" => pivots[p].thread \in {"wrote", "failed"}

(* A follow-up comes from an earlier pivot, whose thread was done.         *)
Follows(p) ==
    LET q == pivots[p].parent IN
    q # NoParent =>
        /\ q \in DOMAIN pivots
        /\ pivots[p].depth = pivots[q].depth + 1
        /\ pivots[q].thread \in {"wrote", "failed"}

Descent == \A p \in DOMAIN pivots : Follows(p)

(* The rows are those of the threads that wrote.                           *)
Recorded ==
    /\ \A j \in DOMAIN rows : pivots[rows[j]].thread = "wrote"
    /\ \A p \in DOMAIN pivots :
           pivots[p].thread = "wrote" => \E j \in DOMAIN rows : rows[j] = p

Inv == TypeOK /\ Budgets /\ Shallow /\ Threads /\ Descent /\ Recorded /\ Lineage

-----------------------------------------------------------------------------
(* One pivot.                                                              *)

LEMMA Typed ==
    ASSUME TypeOK
    PROVE  /\ Len(pivots) \in Nat /\ DOMAIN pivots = 1 .. Len(pivots)
           /\ \A p \in DOMAIN pivots : pivots[p] \in Pivot
           /\ Len(rows) \in Nat /\ DOMAIN rows = 1 .. Len(rows)
           /\ \A j \in DOMAIN rows : rows[j] \in DOMAIN pivots
<1>1. pivots \in Seq(Pivot) /\ rows \in Seq(DOMAIN pivots)
    BY DEF TypeOK
<1>2. /\ Len(pivots) \in Nat /\ DOMAIN pivots = 1 .. Len(pivots)
      /\ Len(rows) \in Nat /\ DOMAIN rows = 1 .. Len(rows)
    BY <1>1, LenProperties
<1>3. \A p \in 1 .. Len(pivots) : pivots[p] \in Pivot
    BY <1>1, ElementOfSeq
<1>4. \A j \in 1 .. Len(rows) : rows[j] \in DOMAIN pivots
    BY <1>1, ElementOfSeq
<1> QED
    BY <1>2, <1>3, <1>4

(* Nothing changes but pivot p, which keeps its place; others are created. *)
Keeps(p) ==
    /\ pivots' \in Seq(Pivot)
    /\ Len(pivots) <= Len(pivots')
    /\ \A q \in DOMAIN pivots :
           /\ q # p => pivots'[q] = pivots[q]
           /\ pivots'[q].depth = pivots[q].depth
           /\ pivots'[q].parent = pivots[q].parent
    /\ \A q \in DOMAIN pivots' \ DOMAIN pivots :
           /\ pivots'[q].stage = "created"
           /\ pivots'[q].thread = "none"
           /\ pivots'[q].result = "none"

(* A row keeps what the ledger says of it.                                 *)
Quiet(p) ==
    p \in DOMAIN pivots =>
        \/ pivots'[p].thread = pivots[p].thread
        \/ pivots[p].thread = "none" /\ pivots'[p].thread = "running"

LEMMA OverRecord ==
    ASSUME NEW r \in Pivot, NEW stage \in {"done", "lost"}
    PROVE  /\ Over(r, stage) \in Pivot
           /\ Over(r, stage).depth = r.depth /\ Over(r, stage).parent = r.parent
           /\ Over(r, stage).stage = stage /\ Over(r, stage).result = "none"
           /\ Over(r, stage).thread = r.thread
<1> DEFINE e == [r EXCEPT !.stage = stage, !.result = "none", !.followUps = 0]
<1>1. Over(r, stage) = e
    BY DEF Over
<1>2. /\ e.depth = r.depth /\ e.parent = r.parent /\ e.thread = r.thread
      /\ e.stage = stage /\ e.result = "none" /\ e.followUps = 0
    BY DEF Pivot
<1>3. 0 \in 0 .. MaxFollowUps
    OBVIOUS
<1>4. e \in Pivot
    BY <1>3 DEF Pivot
<1> HIDE DEF e
<1> QED
    BY <1>1, <1>2, <1>4

LEMMA KeepsDomain ==
    ASSUME TypeOK, NEW p, Keeps(p)
    PROVE  /\ Len(pivots') \in Nat /\ DOMAIN pivots' = 1 .. Len(pivots')
           /\ DOMAIN pivots \subseteq DOMAIN pivots'
<1>1. Len(pivots') \in Nat /\ DOMAIN pivots' = 1 .. Len(pivots')
    BY LenProperties DEF Keeps
<1> QED
    BY <1>1, Typed DEF Keeps

LEMMA OneChanges ==
    ASSUME TypeOK, NEW p \in DOMAIN pivots, NEW r \in Pivot,
           r.depth = pivots[p].depth, r.parent = pivots[p].parent,
           pivots' = [pivots EXCEPT ![p] = r]
    PROVE  Keeps(p) /\ DOMAIN pivots' = DOMAIN pivots /\ pivots'[p] = r
<1>1. pivots \in Seq(Pivot) /\ p \in 1 .. Len(pivots)
    BY Typed DEF TypeOK
<1>2. /\ pivots' \in Seq(Pivot) /\ Len(pivots') = Len(pivots)
      /\ \A q \in 1 .. Len(pivots) : pivots'[q] = IF q = p THEN r ELSE pivots[q]
    BY <1>1, ExceptSeq
<1>3. DOMAIN pivots' = DOMAIN pivots
    OBVIOUS
<1> QED
    BY <1>1, <1>2, <1>3, Typed DEF Keeps

(* Counting.                                                               *)
LEMMA FiniteIn ==
    ASSUME TypeOK, NEW S
    PROVE  IsFiniteSet(In(S)) /\ Cardinality(In(S)) \in Nat
<1>1. IsFiniteSet(DOMAIN pivots)
    BY Typed, FS_Interval
<1>2. In(S) \in SUBSET DOMAIN pivots
    BY DEF In
<1>3. IsFiniteSet(In(S))
    BY <1>1, <1>2, FS_Subset
<1> QED
    BY <1>3, FS_CardinalityType

LEMMA CountIn ==
    ASSUME TypeOK, NEW p, Keeps(p), NEW S, "created" \notin S
    PROVE  /\ IsFiniteSet(In(S)')
           /\ p \in In(S) /\ p \notin In(S)' => Cardinality(In(S)') = Cardinality(In(S)) - 1
           /\ p \notin In(S) /\ p \in In(S)' => Cardinality(In(S)') = Cardinality(In(S)) + 1
           /\ (p \in In(S) <=> p \in In(S)') => Cardinality(In(S)') = Cardinality(In(S))
<1> DEFINE A == In(S)
           B == In(S)'
<1>1. B \ {p} = A \ {p}
    BY KeepsDomain DEF In, Keeps
<1>2. IsFiniteSet(A) /\ Cardinality(A) \in Nat
    BY FiniteIn
<1> HIDE DEF A, B
<1>3. CASE p \in A /\ p \notin B
  <2>1. B = A \ {p}
      BY <1>1, <1>3
  <2> QED
      BY <1>2, <1>3, <2>1, FS_RemoveElement DEF A, B
<1>4. CASE p \notin A /\ p \in B
  <2>1. B = A \cup {p}
      BY <1>1, <1>4
  <2> QED
      BY <1>2, <1>4, <2>1, FS_AddElement DEF A, B
<1>5. CASE p \in A <=> p \in B
  <2>1. B = A
      BY <1>1, <1>5
  <2> QED
      BY <1>2, <1>5, <2>1 DEF A, B
<1> QED
    BY <1>3, <1>4, <1>5 DEF A, B

-----------------------------------------------------------------------------
(* What a step keeps that writes no row.                                   *)

LEMMA TreeKept ==
    ASSUME Inv, NEW p, Keeps(p), Quiet(p), UNCHANGED rows,
           \A q \in DOMAIN pivots' \ DOMAIN pivots : Follows(q)'
    PROVE  rows' \in Seq(DOMAIN pivots') /\ Descent' /\ Recorded' /\ Lineage'
<1>1. DOMAIN pivots \subseteq DOMAIN pivots'
    BY KeepsDomain DEF Inv
<1>2. \A q \in DOMAIN pivots :
          pivots[q].thread \in {"wrote", "failed"} => pivots'[q].thread = pivots[q].thread
    BY DEF Keeps, Quiet
<1>3. \A q \in DOMAIN pivots : pivots'[q].thread = "wrote" => pivots[q].thread = "wrote"
    BY DEF Keeps, Quiet
<1>4. rows' \in Seq(DOMAIN pivots')
    BY <1>1, SeqMonotonic DEF Inv, TypeOK
<1>5. Descent'
  <2> SUFFICES ASSUME NEW q \in DOMAIN pivots'
               PROVE  Follows(q)'
      BY DEF Descent
  <2>1. CASE q \in DOMAIN pivots
    <3>1. Follows(q)
        BY <2>1 DEF Inv, Descent
    <3>2. pivots'[q].parent = pivots[q].parent /\ pivots'[q].depth = pivots[q].depth
        BY <2>1 DEF Keeps
    <3>3. CASE pivots[q].parent = NoParent
        BY <3>2, <3>3 DEF Follows
    <3>4. CASE pivots[q].parent # NoParent
      <4> DEFINE m == pivots[q].parent
      <4>1. m \in DOMAIN pivots /\ pivots[q].depth = pivots[m].depth + 1
            /\ pivots[m].thread \in {"wrote", "failed"}
          BY <3>1, <3>4 DEF Follows
      <4>2. pivots'[m].depth = pivots[m].depth /\ pivots'[m].thread = pivots[m].thread
          BY <4>1, <1>2 DEF Keeps
      <4>3. pivots'[q].parent = m
          BY <3>2
      <4> HIDE DEF m
      <4> QED
          BY <4>1, <4>2, <4>3, <3>2, <1>1 DEF Follows
    <3> QED
        BY <3>3, <3>4
  <2> QED
      BY <2>1
<1>6. Recorded'
  <2>1. \A j \in DOMAIN rows' : pivots'[rows'[j]].thread = "wrote"
      BY <1>2, Typed DEF Inv, Recorded
  <2>2. ASSUME NEW q \in DOMAIN pivots', pivots'[q].thread = "wrote"
        PROVE  \E j \in DOMAIN rows' : rows'[j] = q
    <3>1. q \in DOMAIN pivots
        BY <2>2 DEF Keeps
    <3> QED
        BY <3>1, <2>2, <1>3 DEF Inv, Recorded
  <2> QED
      BY <2>1, <2>2 DEF Recorded
<1>7. Lineage'
  <2> SUFFICES ASSUME NEW i \in DOMAIN rows
               PROVE  LET q == pivots'[rows[i]].parent IN
                      /\ \A j \in DOMAIN rows : rows[j] = rows[i] => j = i
                      /\ q # NoParent =>
                             /\ pivots'[rows[i]].depth = pivots'[q].depth + 1
                             /\ \/ pivots'[q].thread = "failed"
                                \/ \E j \in 1 .. i - 1 : rows[j] = q
      BY DEF Lineage
  <2> DEFINE q == pivots[rows[i]].parent
  <2>1. /\ \A j \in DOMAIN rows : rows[j] = rows[i] => j = i
        /\ q # NoParent =>
               /\ pivots[rows[i]].depth = pivots[q].depth + 1
               /\ \/ pivots[q].thread = "failed"
                  \/ \E j \in 1 .. i - 1 : rows[j] = q
      BY DEF Inv, Lineage
  <2>2. rows[i] \in DOMAIN pivots
      BY Typed DEF Inv
  <2>3. pivots'[rows[i]].parent = q /\ pivots'[rows[i]].depth = pivots[rows[i]].depth
      BY <2>2 DEF Keeps
  <2>4. q # NoParent => q \in DOMAIN pivots
      BY <2>2 DEF Inv, Descent, Follows
  <2>5. q # NoParent => /\ pivots'[q].depth = pivots[q].depth
                        /\ pivots[q].thread = "failed" => pivots'[q].thread = "failed"
      BY <2>4, <1>2 DEF Keeps
  <2> HIDE DEF q
  <2> QED
      BY <2>1, <2>3, <2>5
<1> QED
    BY <1>4, <1>5, <1>6, <1>7

(* Where nothing is created, it is enough to look at pivot p.              *)
LEMMA PivotsKept ==
    ASSUME Inv, NEW p \in DOMAIN pivots, Keeps(p), DOMAIN pivots' = DOMAIN pivots
    PROVE  /\ Shallow'
           /\ (/\ pivots'[p].stage \in {"created", "waiting", "infer"} =>
                      pivots'[p].thread = "none"
               /\ pivots'[p].stage = "append" => pivots'[p].thread # "none"
               /\ pivots'[p].result = "ok" => pivots'[p].thread \in {"wrote", "failed"})
              => Threads'
<1>1. Shallow'
    BY DEF Inv, Shallow, Keeps
<1>2. ASSUME /\ pivots'[p].stage \in {"created", "waiting", "infer"} =>
                    pivots'[p].thread = "none"
             /\ pivots'[p].stage = "append" => pivots'[p].thread # "none"
             /\ pivots'[p].result = "ok" => pivots'[p].thread \in {"wrote", "failed"}
      PROVE  Threads'
  <2> SUFFICES ASSUME NEW q \in DOMAIN pivots
               PROVE  /\ pivots'[q].stage \in {"created", "waiting", "infer"} =>
                             pivots'[q].thread = "none"
                      /\ pivots'[q].stage = "append" => pivots'[q].thread # "none"
                      /\ pivots'[q].result = "ok" => pivots'[q].thread \in {"wrote", "failed"}
      BY DEF Threads
  <2>1. CASE q = p
      BY <2>1, <1>2
  <2>2. CASE q # p
      BY <2>2 DEF Inv, Threads, Keeps
  <2> QED
      BY <2>1, <2>2
<1> QED
    BY <1>1, <1>2

(* How the budgets move with the stage of p.                               *)
LEMMA BudgetsKept ==
    ASSUME Inv, NEW p \in DOMAIN pivots, Keeps(p), 
           live' = live + (IF pivots'[p].stage \in Busy THEN 1 ELSE 0)
                        - (IF pivots[p].stage \in Busy THEN 1 ELSE 0),
           free' = free - (IF pivots'[p].stage \in Held THEN 1 ELSE 0)
                        + (IF pivots[p].stage \in Held THEN 1 ELSE 0)
    PROVE  Budgets' /\ free' <= Slots /\ live' \in Nat
<1>1. p \in DOMAIN pivots'
    BY KeepsDomain DEF Inv
<1>2. /\ p \in In(Busy) <=> pivots[p].stage \in Busy
      /\ p \in In(Busy)' <=> pivots'[p].stage \in Busy
      /\ p \in In(Held) <=> pivots[p].stage \in Held
      /\ p \in In(Held)' <=> pivots'[p].stage \in Held
    BY <1>1 DEF In
<1>3. "created" \notin Busy /\ "created" \notin Held
    BY DEF Busy, Held
<1>4. /\ live = Cardinality(In(Busy)) /\ Cardinality(In(Busy)) \in Nat
      /\ free = Slots - Cardinality(In(Held)) /\ Cardinality(In(Held)) \in Nat
    BY FiniteIn DEF Inv, Budgets
<1>5. /\ p \in In(Busy) /\ p \notin In(Busy)' => Cardinality(In(Busy)') = Cardinality(In(Busy)) - 1
      /\ p \notin In(Busy) /\ p \in In(Busy)' => Cardinality(In(Busy)') = Cardinality(In(Busy)) + 1
      /\ (p \in In(Busy) <=> p \in In(Busy)') => Cardinality(In(Busy)') = Cardinality(In(Busy))
    BY <1>3, CountIn DEF Inv
<1>6. /\ p \in In(Held) /\ p \notin In(Held)' => Cardinality(In(Held)') = Cardinality(In(Held)) - 1
      /\ p \notin In(Held) /\ p \in In(Held)' => Cardinality(In(Held)') = Cardinality(In(Held)) + 1
      /\ (p \in In(Held) <=> p \in In(Held)') => Cardinality(In(Held)') = Cardinality(In(Held))
    BY <1>3, CountIn DEF Inv
<1>7. IsFiniteSet(In(Busy)') /\ IsFiniteSet(In(Held)')
    BY <1>3, CountIn DEF Inv
<1>8. Cardinality(In(Busy)') \in Nat /\ Cardinality(In(Held)') \in Nat
    BY <1>7, FS_CardinalityType
<1>9. live' = Cardinality(In(Busy)')
    BY <1>2, <1>4, <1>5
<1>10. free' = Slots - Cardinality(In(Held)')
    BY <1>2, <1>4, <1>6
<1> QED
    BY <1>8, <1>9, <1>10 DEF Budgets

(* A step of one pivot that writes no row and creates nothing.             *)
Moves(p) ==
    /\ pivots'[p].stage \in {"created", "waiting", "infer"} =>
           pivots'[p].thread = "none"
    /\ pivots'[p].stage = "append" => pivots'[p].thread # "none"
    /\ pivots'[p].result = "ok" => pivots'[p].thread \in {"wrote", "failed"}
    /\ live' = live + (IF pivots'[p].stage \in Busy THEN 1 ELSE 0)
                    - (IF pivots[p].stage \in Busy THEN 1 ELSE 0)
    /\ free' = free - (IF pivots'[p].stage \in Held THEN 1 ELSE 0)
                    + (IF pivots[p].stage \in Held THEN 1 ELSE 0)
    /\ live' <= MaxWidth
    /\ 0 <= free'

LEMMA MoveKeepsInv ==
    ASSUME Inv, NEW p \in DOMAIN pivots, Keeps(p), DOMAIN pivots' = DOMAIN pivots,
           Quiet(p), Moves(p), UNCHANGED rows
    PROVE  Inv'
<1>1. Budgets' /\ free' <= Slots /\ live' \in Nat
    BY BudgetsKept DEF Moves
<1>2. Shallow' /\ Threads'
    BY PivotsKept DEF Moves
<1>3. rows' \in Seq(DOMAIN pivots') /\ Descent' /\ Recorded' /\ Lineage'
    BY TreeKept
<1>4. free' \in Int
    BY DEF Moves, Inv, TypeOK
<1>5. TypeOK'
    BY <1>1, <1>3, <1>4 DEF TypeOK, Moves, Keeps
<1> QED
    BY <1>1, <1>2, <1>3, <1>5 DEF Inv

-----------------------------------------------------------------------------
(* The actions.                                                            *)

LEMMA StartInv ==
    ASSUME Inv, NEW p \in DOMAIN pivots, Start(p)
    PROVE  Inv'
<1> DEFINE stage == pivots'[p].stage
           r == [pivots[p] EXCEPT !.stage =
                    IF pivots[p].depth >= MaxDepth \/ live >= MaxWidth
                    THEN "lost" ELSE "waiting"]
<1>1. pivots[p] \in Pivot /\ pivots[p].stage = "created" /\ pivots[p].thread = "none"
    BY Typed DEF Inv, Start, IsFirst, At, Threads
<1>2. pivots' = [pivots EXCEPT ![p] = r]
    BY DEF Start
<1>3. r \in Pivot /\ r.depth = pivots[p].depth /\ r.parent = pivots[p].parent
    BY <1>1 DEF Pivot
<1>4. Keeps(p) /\ DOMAIN pivots' = DOMAIN pivots /\ pivots'[p] = r
    BY <1>2, <1>3, OneChanges DEF Inv
<1>5. live \in 0 .. MaxWidth /\ free \in 0 .. Slots
    BY DEF Inv, TypeOK
<1>6. r.thread = "none" /\ r.result = pivots[p].result /\ r.stage \in {"lost", "waiting"}
    BY <1>1 DEF Pivot
<1>7. pivots[p].result # "ok"
    BY <1>1 DEF Inv, Threads
<1>8. Quiet(p)
    BY <1>1, <1>4, <1>6 DEF Quiet
<1>9. Moves(p)
  <2>1. CASE pivots[p].depth >= MaxDepth \/ live >= MaxWidth
    <3>1. r.stage = "lost" /\ live' = live /\ free' = free
        BY <2>1, <1>1 DEF Start, Pivot
    <3> QED
        BY <3>1, <1>1, <1>4, <1>5, <1>6, <1>7 DEF Moves, Busy, Held
  <2>2. CASE ~(pivots[p].depth >= MaxDepth \/ live >= MaxWidth)
    <3>1. r.stage = "waiting" /\ live' = live + 1 /\ free' = free
        BY <2>2, <1>1 DEF Start, Pivot
    <3>2. live' <= MaxWidth
        BY <2>2, <3>1, <1>5
    <3> QED
        BY <3>1, <3>2, <1>1, <1>4, <1>5, <1>6, <1>7 DEF Moves, Busy, Held
  <2> QED
      BY <2>1, <2>2
<1>10. UNCHANGED rows
    BY DEF Start
<1> QED
    BY <1>4, <1>8, <1>9, <1>10, MoveKeepsInv

LEMMA EnterInv ==
    ASSUME Inv, NEW p \in DOMAIN pivots, Enter(p)
    PROVE  Inv'
<1> DEFINE r == [pivots[p] EXCEPT !.stage = "infer"]
<1>1. pivots[p] \in Pivot /\ pivots[p].stage = "waiting" /\ pivots[p].thread = "none"
    BY Typed DEF Inv, Enter, IsFirst, At, Threads
<1>2. pivots' = [pivots EXCEPT ![p] = r]
    BY DEF Enter
<1>3. r \in Pivot /\ r.depth = pivots[p].depth /\ r.parent = pivots[p].parent
    BY <1>1 DEF Pivot
<1>4. Keeps(p) /\ DOMAIN pivots' = DOMAIN pivots /\ pivots'[p] = r
    BY <1>2, <1>3, OneChanges DEF Inv
<1>5. r.stage = "infer" /\ r.thread = "none" /\ r.result = pivots[p].result
    BY <1>1 DEF Pivot
<1>6. pivots[p].result # "ok"
    BY <1>1 DEF Inv, Threads
<1>7. Quiet(p)
    BY <1>1, <1>4, <1>5 DEF Quiet
<1>8. live' = live /\ free' = free - 1 /\ free > 0 /\ live \in 0 .. MaxWidth /\ free \in 0 .. Slots
    BY DEF Enter, Inv, TypeOK
<1>9. Moves(p)
    BY <1>1, <1>4, <1>5, <1>6, <1>8 DEF Moves, Busy, Held
<1>10. UNCHANGED rows
    BY DEF Enter
<1> QED
    BY <1>4, <1>7, <1>9, <1>10, MoveKeepsInv

LEMMA FindingInv ==
    ASSUME Inv, NEW p \in DOMAIN pivots, NEW n \in 0 .. MaxFollowUps, Finding(p, n)
    PROVE  Inv'
<1> DEFINE r == [pivots[p] EXCEPT !.stage = "append", !.followUps = n, !.thread = "running"]
<1>1. pivots[p] \in Pivot /\ pivots[p].stage = "infer" /\ pivots[p].thread = "none"
    BY Typed DEF Inv, Finding, At, Threads
<1>2. pivots' = [pivots EXCEPT ![p] = r]
    BY DEF Finding
<1>3. r \in Pivot /\ r.depth = pivots[p].depth /\ r.parent = pivots[p].parent
    BY <1>1 DEF Pivot
<1>4. Keeps(p) /\ DOMAIN pivots' = DOMAIN pivots /\ pivots'[p] = r
    BY <1>2, <1>3, OneChanges DEF Inv
<1>5. r.stage = "append" /\ r.thread = "running" /\ r.result = pivots[p].result
    BY <1>1 DEF Pivot
<1>6. pivots[p].result # "ok"
    BY <1>1 DEF Inv, Threads
<1>7. Quiet(p)
    BY <1>1, <1>4, <1>5 DEF Quiet
<1>8. live' = live /\ free' = free /\ live \in 0 .. MaxWidth /\ free \in 0 .. Slots
    BY DEF Finding, Inv, TypeOK
<1>9. Moves(p)
    BY <1>1, <1>4, <1>5, <1>6, <1>8 DEF Moves, Busy, Held
<1>10. UNCHANGED rows
    BY DEF Finding
<1> QED
    BY <1>4, <1>7, <1>9, <1>10, MoveKeepsInv

(* However a pivot returns, it held a width and a place in the semaphore.  *)
LEMMA ReturnInv ==
    ASSUME Inv, NEW p \in DOMAIN pivots, pivots[p].stage \in Held,
           NEW result \in {"ok", "ttl", "error"}, Return(p, result),
           result = "ok" => pivots[p].thread \in {"wrote", "failed"}
    PROVE  Inv'
<1> DEFINE kept == IF result = "ok" THEN pivots[p].followUps ELSE 0
           r == [pivots[p] EXCEPT !.stage = "report", !.result = result, !.followUps = kept]
<1>1. pivots[p] \in Pivot
    BY Typed DEF Inv
<1>2. pivots' = [pivots EXCEPT ![p] = r]
    BY <1>1 DEF Return, Pivot
<1>3. r \in Pivot /\ r.depth = pivots[p].depth /\ r.parent = pivots[p].parent
  <2>1. kept \in 0 .. MaxFollowUps
      BY <1>1 DEF Pivot
  <2> QED
      BY <1>1, <2>1 DEF Pivot
<1>4. Keeps(p) /\ DOMAIN pivots' = DOMAIN pivots /\ pivots'[p] = r
    BY <1>2, <1>3, OneChanges DEF Inv
<1>5. r.stage = "report" /\ r.thread = pivots[p].thread /\ r.result = result
    BY <1>1 DEF Pivot
<1>6. Quiet(p)
    BY <1>4, <1>5 DEF Quiet
<1>7. live' = live - 1 /\ free' = free + 1 /\ live \in 0 .. MaxWidth /\ free \in 0 .. Slots
    BY DEF Return, Inv, TypeOK
<1>8. Moves(p)
    BY <1>4, <1>5, <1>7 DEF Moves, Busy, Held
<1>9. UNCHANGED rows
    BY DEF Return
<1> QED
    BY <1>4, <1>6, <1>8, <1>9, MoveKeepsInv

LEMMA InferFailsInv ==
    ASSUME Inv, NEW p \in DOMAIN pivots, InferFails(p)
    PROVE  Inv'
BY ReturnInv DEF InferFails, At, Held

LEMMA AppendReturnsInv ==
    ASSUME Inv, NEW p \in DOMAIN pivots, AppendReturns(p)
    PROVE  Inv'
<1>1. pivots[p].stage = "append" /\ pivots[p].thread # "running" /\ Return(p, "ok")
    BY DEF AppendReturns, At
<1>2. pivots[p].thread \in {"wrote", "failed"}
    BY <1>1, Typed DEF Inv, Threads, Pivot
<1> QED
    BY <1>1, <1>2, ReturnInv DEF Held

LEMMA ExpireInv ==
    ASSUME Inv, NEW p \in DOMAIN pivots, Expire(p)
    PROVE  Inv'
BY ReturnInv DEF Expire, At, Held

(* A step that creates pivots, and may end the one that asked for them.    *)
LEMMA CreateKeepsInv ==
    ASSUME Inv, NEW p, Keeps(p), UNCHANGED <<live, free, rows>>,
           p \in DOMAIN pivots =>
               /\ pivots[p].stage \notin Busy /\ pivots'[p].stage = "done"
               /\ pivots'[p].result = "none" /\ pivots'[p].thread = pivots[p].thread,
           \A q \in DOMAIN pivots' \ DOMAIN pivots :
               pivots'[q].depth < MaxDepth /\ Follows(q)'
    PROVE  Inv'
<1>1. Quiet(p)
    BY DEF Quiet
<1>2. rows' \in Seq(DOMAIN pivots') /\ Descent' /\ Recorded' /\ Lineage'
    BY <1>1, TreeKept
<1>3. TypeOK'
    BY <1>2 DEF Inv, TypeOK, Keeps
<1>4. Shallow'
    BY DEF Inv, Shallow, Keeps
<1>5. Threads'
  <2> SUFFICES ASSUME NEW q \in DOMAIN pivots'
               PROVE  /\ pivots'[q].stage \in {"created", "waiting", "infer"} =>
                             pivots'[q].thread = "none"
                      /\ pivots'[q].stage = "append" => pivots'[q].thread # "none"
                      /\ pivots'[q].result = "ok" => pivots'[q].thread \in {"wrote", "failed"}
      BY DEF Threads
  <2>1. CASE q \notin DOMAIN pivots
      BY <2>1 DEF Keeps
  <2>2. CASE q \in DOMAIN pivots /\ q = p
      BY <2>2
  <2>3. CASE q \in DOMAIN pivots /\ q # p
      BY <2>3 DEF Inv, Threads, Keeps
  <2> QED
      BY <2>1, <2>2, <2>3
<1>6. Budgets'
  <2>1. ASSUME NEW S \in {Busy, Held}
        PROVE  Cardinality(In(S)') = Cardinality(In(S))
    <3>1. "created" \notin S /\ "done" \notin S /\ S \subseteq Busy
        BY DEF Busy, Held
    <3>2. p \notin In(S) /\ p \notin In(S)'
      <4>1. CASE p \in DOMAIN pivots
          BY <4>1, <3>1 DEF In
      <4>2. CASE p \notin DOMAIN pivots
          BY <4>2, <3>1 DEF In, Keeps
      <4> QED
          BY <4>1, <4>2
    <3> QED
        BY <3>1, <3>2, CountIn DEF Inv
  <2>2. Cardinality(In(Busy)') = Cardinality(In(Busy))
        /\ Cardinality(In(Held)') = Cardinality(In(Held))
      BY <2>1
  <2> QED
      BY <2>2 DEF Inv, Budgets
<1> QED
    BY <1>2, <1>3, <1>4, <1>5, <1>6 DEF Inv

LEMMA ReceiveInv ==
    ASSUME Inv, NEW depth \in 0 .. MaxDepth, Receive(depth)
    PROVE  Inv'
<1> DEFINE new == NewPivot(depth, NoParent)
<1>1. new \in Pivot /\ new.parent = NoParent /\ new.depth = depth
      /\ new.stage = "created" /\ new.thread = "none" /\ new.result = "none"
    BY DEF NewPivot, Pivot
<1>2. pivots' = Append(pivots, new) /\ depth < MaxDepth
    BY DEF Receive
<1> HIDE DEF new
<1>3. pivots \in Seq(Pivot) /\ Len(pivots) \in Nat /\ DOMAIN pivots = 1 .. Len(pivots)
    BY Typed DEF Inv, TypeOK
<1>4. /\ pivots' \in Seq(Pivot) /\ Len(pivots') = Len(pivots) + 1
      /\ \A q \in 1 .. Len(pivots) : pivots'[q] = pivots[q]
      /\ pivots'[Len(pivots) + 1] = new
    BY <1>1, <1>2, <1>3, AppendProperties
<1>5. DOMAIN pivots' = 1 .. Len(pivots) + 1
    BY <1>4, LenProperties
<1>6. \A q \in DOMAIN pivots' \ DOMAIN pivots : pivots'[q] = new
    BY <1>3, <1>4, <1>5
<1>7. Keeps(NoParent)
    BY <1>1, <1>3, <1>4, <1>6 DEF Keeps
<1>8. NoParent \notin DOMAIN pivots
    BY <1>3
<1>9. ASSUME NEW q \in DOMAIN pivots' \ DOMAIN pivots
      PROVE  pivots'[q].depth < MaxDepth /\ Follows(q)'
    BY <1>1, <1>2, <1>6 DEF Follows
<1>10. UNCHANGED <<live, free, rows>>
    BY DEF Receive
<1> QED
    BY <1>7, <1>8, <1>9, <1>10, CreateKeepsInv

LEMMA ReportInv ==
    ASSUME Inv, NEW p \in DOMAIN pivots, Report(p)
    PROVE  Inv'
<1> DEFINE r == pivots[p]
           n == IF r.followUps <= MaxWidth THEN r.followUps ELSE MaxWidth
           asks == r.result = "ok" /\ r.depth + 1 < MaxDepth
           child == NewPivot(r.depth + 1, p)
           children == IF asks THEN [i \in 1 .. n |-> child] ELSE <<>>
           over == Over(r, "done")
           mid == [pivots EXCEPT ![p] = over]
<1>1. r \in Pivot /\ p \in Nat /\ r.stage = "report"
    BY Typed DEF Inv, Report, At
<1>2. over \in Pivot /\ over.depth = r.depth /\ over.parent = r.parent
      /\ over.stage = "done" /\ over.result = "none" /\ over.thread = r.thread
    BY <1>1, OverRecord
<1>3. child \in Pivot /\ child.parent = p /\ child.depth = r.depth + 1
      /\ child.stage = "created" /\ child.thread = "none" /\ child.result = "none"
    BY <1>1 DEF NewPivot, Pivot
<1>4. n \in Nat
    BY <1>1 DEF Pivot
<1>5. pivots' = mid \o children
    BY DEF Report
<1>6. UNCHANGED <<live, free, rows>>
    BY DEF Report
<1>7. r.depth \in Nat
    BY <1>1 DEF Pivot
<1>8. asks => r.thread \in {"wrote", "failed"}
    BY DEF Inv, Threads
<1>9. pivots \in Seq(Pivot) /\ Len(pivots) \in Nat /\ DOMAIN pivots = 1 .. Len(pivots)
    BY Typed DEF Inv, TypeOK
<1> HIDE DEF n, child, over
<1>10. /\ children \in Seq(Pivot)
       /\ \A i \in 1 .. Len(children) : children[i] = child
       /\ Len(children) \in Nat
       /\ ~asks => Len(children) = 0
  <2>1. CASE asks
    <3>1. children \in [1 .. n -> Pivot]
        BY <2>1, <1>3
    <3>2. children \in Seq(Pivot)
        BY <3>1, <1>4, SeqDef
    <3>3. DOMAIN children = 1 .. Len(children) /\ Len(children) \in Nat
        BY <3>2, LenProperties
    <3> QED
        BY <2>1, <3>2, <3>3
  <2>2. CASE ~asks
      BY <2>2, EmptySeq
  <2> QED
      BY <2>1, <2>2
<1>11. /\ mid \in Seq(Pivot) /\ Len(mid) = Len(pivots)
       /\ \A q \in 1 .. Len(pivots) : mid[q] = IF q = p THEN over ELSE pivots[q]
    BY <1>2, <1>9, ExceptSeq
<1> HIDE DEF mid, children
<1>12. /\ pivots' \in Seq(Pivot) /\ Len(pivots') = Len(pivots) + Len(children)
       /\ \A q \in 1 .. Len(pivots) + Len(children) :
              pivots'[q] = IF q <= Len(pivots) THEN mid[q] ELSE children[q - Len(pivots)]
  <2>1. /\ mid \o children \in Seq(Pivot)
        /\ Len(mid \o children) = Len(mid) + Len(children)
        /\ \A q \in 1 .. Len(mid) + Len(children) : (mid \o children)[q] =
               IF q <= Len(mid) THEN mid[q] ELSE children[q - Len(mid)]
      BY <1>10, <1>11, ConcatProperties
  <2>2. Len(mid) = Len(pivots)
      BY <1>11
  <2> QED
      BY <1>5, <2>1, <2>2
<1>13. DOMAIN pivots' = 1 .. Len(pivots) + Len(children)
    BY <1>12, LenProperties
<1>14. \A q \in DOMAIN pivots : pivots'[q] = IF q = p THEN over ELSE pivots[q]
    BY <1>9, <1>10, <1>11, <1>12
<1>15. \A q \in DOMAIN pivots' \ DOMAIN pivots : pivots'[q] = child /\ asks
  <2> SUFFICES ASSUME NEW q \in DOMAIN pivots' \ DOMAIN pivots
               PROVE  pivots'[q] = child /\ asks
      OBVIOUS
  <2>1. q - Len(pivots) \in 1 .. Len(children) /\ q \in 1 .. Len(pivots) + Len(children)
        /\ ~(q <= Len(pivots))
      BY <1>9, <1>10, <1>13
  <2> QED
      BY <2>1, <1>10, <1>12
<1>16. Keeps(p)
    BY <1>2, <1>3, <1>9, <1>10, <1>12, <1>14, <1>15 DEF Keeps
<1>17. pivots'[p] = over
    BY <1>14
<1>18. ASSUME NEW q \in DOMAIN pivots' \ DOMAIN pivots
       PROVE  pivots'[q].depth < MaxDepth /\ Follows(q)'
  <2>1. pivots'[q] = child /\ asks
      BY <1>15
  <2>2. p \in DOMAIN pivots'
      BY <1>16, KeepsDomain DEF Inv
  <2> QED
      BY <2>1, <2>2, <1>2, <1>3, <1>8, <1>17 DEF Follows
<1>19. pivots[p].stage \notin Busy
    BY <1>1 DEF Busy
<1> QED
    BY <1>2, <1>6, <1>16, <1>17, <1>18, <1>19, CreateKeepsInv

LEMMA ThreadEndsInv ==
    ASSUME Inv, NEW p \in DOMAIN pivots, ThreadEnds(p)
    PROVE  Inv'
<1>1. pivots[p] \in Pivot /\ pivots[p].thread = "running"
    BY Typed DEF Inv, ThreadEnds
<1>2. ASSUME NEW thread \in {"wrote", "failed"},
             pivots' = [pivots EXCEPT ![p].thread = thread]
      PROVE  /\ Keeps(p) /\ DOMAIN pivots' = DOMAIN pivots
             /\ pivots'[p].thread = thread
             /\ pivots'[p].stage = pivots[p].stage
             /\ pivots'[p].result = pivots[p].result
  <2> DEFINE new == [pivots[p] EXCEPT !.thread = thread]
  <2>1. new \in Pivot /\ new.depth = pivots[p].depth /\ new.parent = pivots[p].parent
      BY <1>1 DEF Pivot
  <2>2. new.thread = thread /\ new.stage = pivots[p].stage /\ new.result = pivots[p].result
      BY <1>1 DEF Pivot
  <2>3. pivots' = [pivots EXCEPT ![p] = new]
      BY <1>2
  <2> HIDE DEF new
  <2>4. Keeps(p) /\ DOMAIN pivots' = DOMAIN pivots /\ pivots'[p] = new
      BY <2>1, <2>3, OneChanges DEF Inv
  <2> QED
      BY <2>2, <2>4
<1>3. PICK thread \in {"wrote", "failed"} :
          /\ pivots' = [pivots EXCEPT ![p].thread = thread]
          /\ rows' = IF thread = "wrote" THEN Append(rows, p) ELSE rows
    BY DEF ThreadEnds
<1>4. /\ Keeps(p) /\ DOMAIN pivots' = DOMAIN pivots
      /\ pivots'[p].thread = thread
      /\ pivots'[p].stage = pivots[p].stage
      /\ pivots'[p].result = pivots[p].result
    BY <1>2, <1>3
<1>5. UNCHANGED <<live, free>> /\ live \in 0 .. MaxWidth /\ free \in 0 .. Slots
    BY DEF ThreadEnds, Inv, TypeOK
<1>6. pivots[p].stage \notin {"created", "waiting", "infer"} /\ pivots[p].result # "ok"
    BY <1>1 DEF Inv, Threads
<1>7. Budgets'
    BY <1>4, <1>5, BudgetsKept
<1>8. Shallow' /\ Threads'
    BY <1>4, <1>6, PivotsKept
<1>9. \A j \in DOMAIN rows : rows[j] \in DOMAIN pivots /\ rows[j] # p
    BY <1>1, Typed DEF Inv, Recorded
<1>10. \A q \in DOMAIN pivots :
           pivots[q].parent # NoParent => pivots[q].parent \in DOMAIN pivots \ {p}
    BY <1>1 DEF Inv, Descent, Follows
<1>11. Descent'
  <2> SUFFICES ASSUME NEW q \in DOMAIN pivots
               PROVE  Follows(q)'
      BY <1>4 DEF Descent
  <2> DEFINE m == pivots[q].parent
  <2>1. m # NoParent => /\ pivots[q].depth = pivots[m].depth + 1
                        /\ pivots[m].thread \in {"wrote", "failed"}
      BY DEF Inv, Descent, Follows
  <2>2. m # NoParent => m \in DOMAIN pivots /\ pivots'[m] = pivots[m]
      BY <1>4, <1>10 DEF Keeps
  <2>3. pivots'[q].parent = m /\ pivots'[q].depth = pivots[q].depth
      BY <1>4 DEF Keeps
  <2> HIDE DEF m
  <2> QED
      BY <1>4, <2>1, <2>2, <2>3 DEF Follows
<1>12. /\ DOMAIN rows = 1 .. Len(rows) /\ Len(rows) \in Nat
       /\ rows' \in Seq(DOMAIN pivots) /\ DOMAIN rows \subseteq DOMAIN rows'
       /\ \A j \in DOMAIN rows : rows'[j] = rows[j]
       /\ \A j \in DOMAIN rows' \ DOMAIN rows :
              thread = "wrote" /\ j = Len(rows) + 1 /\ rows'[j] = p
       /\ thread = "wrote" => Len(rows) + 1 \in DOMAIN rows'
  <2>1. rows \in Seq(DOMAIN pivots) /\ DOMAIN rows = 1 .. Len(rows) /\ Len(rows) \in Nat
      BY Typed DEF Inv, TypeOK
  <2>2. CASE thread = "failed"
      BY <1>3, <2>1, <2>2
  <2>3. CASE thread = "wrote"
    <3>1. rows' = Append(rows, p)
        BY <1>3, <2>3
    <3>2. /\ rows' \in Seq(DOMAIN pivots) /\ Len(rows') = Len(rows) + 1
          /\ \A j \in 1 .. Len(rows) : rows'[j] = rows[j]
          /\ rows'[Len(rows) + 1] = p
        BY <2>1, <3>1, AppendProperties
    <3>3. DOMAIN rows' = 1 .. Len(rows) + 1
        BY <3>2, LenProperties
    <3> QED
        BY <2>1, <2>3, <3>2, <3>3
  <2> QED
      BY <2>2, <2>3
<1>13. Recorded'
  <2>1. \A j \in DOMAIN rows' : pivots'[rows'[j]].thread = "wrote"
    <3>1. ASSUME NEW j \in DOMAIN rows
          PROVE  pivots'[rows'[j]].thread = "wrote"
        BY <1>4, <1>9, <1>12 DEF Inv, Recorded, Keeps
    <3> QED
        BY <3>1, <1>4, <1>12
  <2>2. ASSUME NEW q \in DOMAIN pivots, pivots'[q].thread = "wrote"
        PROVE  \E j \in DOMAIN rows' : rows'[j] = q
    <3>1. CASE q = p
        BY <3>1, <2>2, <1>4, <1>12
    <3>2. CASE q # p
      <4>1. pivots[q].thread = "wrote"
          BY <3>2, <2>2, <1>4 DEF Keeps
      <4>2. PICK j \in DOMAIN rows : rows[j] = q
          BY <4>1 DEF Inv, Recorded
      <4> QED
          BY <4>2, <1>12
    <3> QED
        BY <3>1, <3>2
  <2> QED
      BY <2>1, <2>2, <1>4 DEF Recorded
<1>14. Lineage'
  <2> SUFFICES ASSUME NEW i \in DOMAIN rows'
               PROVE  LET q == pivots'[rows'[i]].parent IN
                      /\ \A j \in DOMAIN rows' : rows'[j] = rows'[i] => j = i
                      /\ q # NoParent =>
                             /\ pivots'[rows'[i]].depth = pivots'[q].depth + 1
                             /\ \/ pivots'[q].thread = "failed"
                                \/ \E j \in 1 .. i - 1 : rows'[j] = q
      BY DEF Lineage
  <2> DEFINE q == pivots'[rows'[i]].parent
  <2>1. \A j \in DOMAIN rows' : rows'[j] = rows'[i] => j = i
    <3>1. CASE i \in DOMAIN rows
        BY <3>1, <1>9, <1>12 DEF Inv, Lineage
    <3>2. CASE i \notin DOMAIN rows
        BY <3>2, <1>9, <1>12
    <3> QED
        BY <3>1, <3>2
  <2>2. rows'[i] \in DOMAIN pivots
    <3>1. CASE i \in DOMAIN rows
        BY <3>1, <1>9, <1>12
    <3>2. CASE i \notin DOMAIN rows
        BY <3>2, <1>12
    <3> QED
        BY <3>1, <3>2
  <2>3. q = pivots[rows'[i]].parent /\ pivots'[rows'[i]].depth = pivots[rows'[i]].depth
      BY <2>2, <1>4 DEF Keeps
  <2>4. ASSUME q # NoParent
        PROVE  /\ q \in DOMAIN pivots /\ pivots'[q] = pivots[q]
               /\ pivots'[rows'[i]].depth = pivots'[q].depth + 1
               /\ pivots[q].thread \in {"wrote", "failed"}
      BY <2>2, <2>3, <2>4, <1>4, <1>10 DEF Inv, Descent, Follows, Keeps
  <2>5. ASSUME q # NoParent, pivots[q].thread = "wrote"
        PROVE  \E j \in 1 .. i - 1 : rows'[j] = q
    <3>1. CASE i \in DOMAIN rows
      <4>1. rows[i] = rows'[i]
          BY <3>1, <1>12
      <4>2. \/ pivots[q].thread = "failed"
            \/ \E j \in 1 .. i - 1 : rows[j] = q
          BY <3>1, <4>1, <2>3, <2>5 DEF Inv, Lineage
      <4>3. PICK j \in 1 .. i - 1 : rows[j] = q
          BY <4>2, <2>5
      <4>4. j \in DOMAIN rows
          BY <3>1, <4>3, <1>12
      <4> QED
          BY <4>3, <4>4, <1>12
    <3>2. CASE i \notin DOMAIN rows
      <4>1. PICK j \in DOMAIN rows : rows[j] = q
          BY <2>4, <2>5 DEF Inv, Recorded
      <4>2. j \in 1 .. i - 1 /\ rows'[j] = q
          BY <3>2, <4>1, <1>12
      <4> QED
          BY <4>2
    <3> QED
        BY <3>1, <3>2
  <2> HIDE DEF q
  <2>6. q # NoParent =>
            /\ pivots'[rows'[i]].depth = pivots'[q].depth + 1
            /\ \/ pivots'[q].thread = "failed"
               \/ \E j \in 1 .. i - 1 : rows'[j] = q
      BY <2>4, <2>5
  <2> QED
      BY <2>1, <2>6 DEF q
<1>15. TypeOK'
    BY <1>4, <1>5, <1>12 DEF TypeOK, Keeps
<1> QED
    BY <1>7, <1>8, <1>11, <1>13, <1>14, <1>15 DEF Inv

(* A crash ends every pivot where it stands, and its thread with it.       *)
LEMMA CrashInv ==
    ASSUME Inv, Crash
    PROVE  Inv'
<1> DEFINE r(p) == IF pivots[p].thread = "running"
                   THEN [pivots[p] EXCEPT !.thread = "failed"] ELSE pivots[p]
           e(p) == IF r(p).stage \in Ended THEN r(p) ELSE Over(r(p), "lost")
<1>1. /\ pivots' = [p \in DOMAIN pivots |-> e(p)]
      /\ live' = 0 /\ free' = Slots /\ rows' = rows
    BY DEF Crash
<1>2. ASSUME NEW p \in DOMAIN pivots
      PROVE  /\ e(p) \in Pivot /\ e(p).depth = pivots[p].depth
             /\ e(p).parent = pivots[p].parent /\ e(p).stage \in Ended
             /\ e(p).thread = IF pivots[p].thread = "running"
                              THEN "failed" ELSE pivots[p].thread
             /\ e(p).result = "ok" => pivots[p].result = "ok"
  <2>1. pivots[p] \in Pivot
      BY Typed DEF Inv
  <2>2. /\ r(p) \in Pivot /\ r(p).depth = pivots[p].depth
        /\ r(p).parent = pivots[p].parent /\ r(p).result = pivots[p].result
        /\ r(p).thread = IF pivots[p].thread = "running"
                         THEN "failed" ELSE pivots[p].thread
    <3>1. CASE pivots[p].thread = "running"
        BY <2>1, <3>1 DEF Pivot
    <3>2. CASE pivots[p].thread # "running"
        BY <2>1, <3>2
    <3> QED
        BY <3>1, <3>2
  <2> HIDE DEF r
  <2>3. CASE r(p).stage \in Ended
      BY <2>2, <2>3
  <2>4. CASE r(p).stage \notin Ended
      BY <2>2, <2>4, OverRecord DEF Ended
  <2> QED
      BY <2>3, <2>4
<1> HIDE DEF e
<1>3. pivots \in Seq(Pivot) /\ Len(pivots) \in Nat /\ DOMAIN pivots = 1 .. Len(pivots)
    BY Typed DEF Inv, TypeOK
<1>4. pivots' \in Seq(Pivot) /\ DOMAIN pivots' = DOMAIN pivots
  <2>1. pivots' \in [1 .. Len(pivots) -> Pivot]
      BY <1>1, <1>2, <1>3
  <2>2. pivots' \in Seq(Pivot)
      BY <2>1, <1>3, SeqDef
  <2> QED
      BY <2>2, <1>1
<1>5. \A p \in DOMAIN pivots :
          /\ pivots'[p].depth = pivots[p].depth
          /\ pivots'[p].parent = pivots[p].parent /\ pivots'[p].stage \in Ended
          /\ pivots'[p].thread = IF pivots[p].thread = "running"
                                 THEN "failed" ELSE pivots[p].thread
          /\ pivots'[p].result = "ok" => pivots[p].result = "ok"
    BY <1>1, <1>2
<1>6. TypeOK'
    BY <1>1, <1>4 DEF Inv, TypeOK
<1>7. Budgets'
  <2>1. In(Busy)' = {} /\ In(Held)' = {}
      BY <1>4, <1>5 DEF In, Busy, Held, Ended
  <2> QED
      BY <1>1, <2>1, FS_EmptySet DEF Budgets
<1>8. Shallow'
    BY <1>4, <1>5 DEF Inv, Shallow
<1>9. Threads'
  <2> SUFFICES ASSUME NEW p \in DOMAIN pivots
               PROVE  /\ pivots'[p].stage \in {"created", "waiting", "infer"} =>
                             pivots'[p].thread = "none"
                      /\ pivots'[p].stage = "append" => pivots'[p].thread # "none"
                      /\ pivots'[p].result = "ok" => pivots'[p].thread \in {"wrote", "failed"}
      BY <1>4 DEF Threads
  <2> QED
      BY <1>5 DEF Ended, Inv, Threads
<1>10. \A p \in DOMAIN pivots :
           pivots[p].thread \in {"wrote", "failed"} => pivots'[p].thread = pivots[p].thread
    BY <1>5
<1>11. Descent'
  <2> SUFFICES ASSUME NEW p \in DOMAIN pivots
               PROVE  Follows(p)'
      BY <1>4 DEF Descent
  <2> DEFINE m == pivots[p].parent
  <2>1. m # NoParent => /\ m \in DOMAIN pivots /\ pivots[p].depth = pivots[m].depth + 1
                        /\ pivots[m].thread \in {"wrote", "failed"}
      BY DEF Inv, Descent, Follows
  <2>2. pivots'[p].parent = m /\ pivots'[p].depth = pivots[p].depth
      BY <1>5
  <2>3. m # NoParent => pivots'[m].depth = pivots[m].depth /\ pivots'[m].thread = pivots[m].thread
      BY <2>1, <1>5, <1>10
  <2> HIDE DEF m
  <2> QED
      BY <1>4, <2>1, <2>2, <2>3 DEF Follows
<1>12. Recorded'
  <2>1. \A j \in DOMAIN rows : rows[j] \in DOMAIN pivots /\ pivots[rows[j]].thread = "wrote"
      BY Typed DEF Inv, Recorded
  <2>2. \A p \in DOMAIN pivots : pivots'[p].thread = "wrote" => pivots[p].thread = "wrote"
      BY <1>5
  <2> QED
      BY <1>1, <1>4, <1>10, <2>1, <2>2 DEF Inv, Recorded
<1>13. Lineage'
  <2> SUFFICES ASSUME NEW i \in DOMAIN rows'
               PROVE  LET q == pivots'[rows'[i]].parent IN
                      /\ \A j \in DOMAIN rows' : rows'[j] = rows'[i] => j = i
                      /\ q # NoParent =>
                             /\ pivots'[rows'[i]].depth = pivots'[q].depth + 1
                             /\ \/ pivots'[q].thread = "failed"
                                \/ \E j \in 1 .. i - 1 : rows'[j] = q
      BY DEF Lineage
  <2>0. rows' = rows /\ i \in DOMAIN rows
      BY <1>1
  <2> DEFINE q == pivots[rows[i]].parent
  <2>1. /\ \A j \in DOMAIN rows : rows[j] = rows[i] => j = i
        /\ q # NoParent =>
               /\ pivots[rows[i]].depth = pivots[q].depth + 1
               /\ \/ pivots[q].thread = "failed"
                  \/ \E j \in 1 .. i - 1 : rows[j] = q
      BY <2>0 DEF Inv, Lineage
  <2>2. rows[i] \in DOMAIN pivots
      BY <2>0, Typed DEF Inv
  <2>3. pivots'[rows[i]].parent = q /\ pivots'[rows[i]].depth = pivots[rows[i]].depth
      BY <2>2, <1>5
  <2>4. q # NoParent => q \in DOMAIN pivots
      BY <2>2 DEF Inv, Descent, Follows
  <2>5. q # NoParent => /\ pivots'[q].depth = pivots[q].depth
                        /\ pivots[q].thread = "failed" => pivots'[q].thread = "failed"
      BY <2>4, <1>5, <1>10
  <2> HIDE DEF q
  <2> QED
      BY <2>0, <2>1, <2>3, <2>5
<1> QED
    BY <1>6, <1>7, <1>8, <1>9, <1>11, <1>12, <1>13 DEF Inv

LEMMA StutterInv ==
    ASSUME Inv, UNCHANGED vars
    PROVE  Inv'
<1>1. UNCHANGED <<pivots, live, free, rows>>
    BY DEF vars
<1>2. Keeps(NoParent) /\ Quiet(NoParent)
    BY <1>1, Typed DEF Inv, TypeOK, Keeps, Quiet
<1>3. Lineage'
  <2>1. \A q \in DOMAIN pivots' \ DOMAIN pivots : Follows(q)'
      BY <1>1
  <2>2. UNCHANGED rows
      BY <1>1
  <2> QED
      BY <1>2, <2>1, <2>2, TreeKept
<1> QED
    BY <1>1, <1>3
       DEF Inv, TypeOK, Budgets, In, Shallow, Threads, Descent, Follows, Recorded

-----------------------------------------------------------------------------
(* The theorems.                                                           *)

LEMMA InitInv == Init => Inv
<1> SUFFICES ASSUME Init
             PROVE  Inv
    OBVIOUS
<1>1. pivots = <<>> /\ rows = <<>> /\ live = 0 /\ free = Slots
    BY DEF Init
<1>2. pivots \in Seq(Pivot) /\ rows \in Seq(DOMAIN pivots)
    BY <1>1, EmptySeq
<1>3. DOMAIN pivots = {} /\ DOMAIN rows = {}
    BY <1>1
<1>4. TypeOK
    BY <1>1, <1>2 DEF TypeOK
<1>5. In(Busy) = {} /\ In(Held) = {}
    BY <1>3 DEF In
<1>6. Budgets
    BY <1>1, <1>5, FS_EmptySet DEF Budgets
<1> QED
    BY <1>3, <1>4, <1>6 DEF Inv, Shallow, Threads, Descent, Recorded, Lineage

LEMMA NextInv == Inv /\ [Next]_vars => Inv'
<1> SUFFICES ASSUME Inv, [Next]_vars
             PROVE  Inv'
    OBVIOUS
<1>1. ASSUME NEW depth \in 0 .. MaxDepth, Receive(depth)
      PROVE  Inv'
    BY <1>1, ReceiveInv
<1>2. ASSUME NEW p \in DOMAIN pivots, Step(p)
      PROVE  Inv'
  <2>1. CASE Start(p)
      BY <2>1, StartInv
  <2>2. CASE Enter(p)
      BY <2>2, EnterInv
  <2>3. CASE \E n \in 0 .. MaxFollowUps : Finding(p, n)
      BY <2>3, FindingInv
  <2>4. CASE InferFails(p)
      BY <2>4, InferFailsInv
  <2>5. CASE AppendReturns(p)
      BY <2>5, AppendReturnsInv
  <2>6. CASE Expire(p)
      BY <2>6, ExpireInv
  <2>7. CASE ThreadEnds(p)
      BY <2>7, ThreadEndsInv
  <2>8. CASE Report(p)
      BY <2>8, ReportInv
  <2> QED
      BY <1>2, <2>1, <2>2, <2>3, <2>4, <2>5, <2>6, <2>7, <2>8 DEF Step
<1>3. CASE Crash
    BY <1>3, CrashInv
<1>4. CASE UNCHANGED vars
    BY <1>4, StutterInv
<1> QED
    BY <1>1, <1>2, <1>3, <1>4 DEF Next

LEMMA Invariance == Spec => []Inv
BY InitInv, NextInv, PTL DEF Spec

(* Type correctness: the width counter stays in 0 .. MaxWidth and the      *)
(* semaphore in 0 .. Slots, whatever ends a pivot (watcher.py:40-165).     *)
THEOREM TypeCorrect == Spec => []TypeOK
<1>1. Inv => TypeOK
    BY DEF Inv
<1> QED
    BY <1>1, Invariance, PTL

(* The budgets account for exactly the pivots that hold them, for every    *)
(* depth, width and concurrency (watcher.py:79-120).                       *)
THEOREM BudgetsAlwaysExact == Spec => []BudgetsExact
<1>1. Inv => BudgetsExact
  <2> SUFFICES ASSUME Inv
               PROVE  BudgetsExact
      OBVIOUS
  <2>1. At("infer") \cup At("append") = In(Held)
        /\ At("waiting") \cup (At("infer") \cup At("append")) = In(Busy)
      BY DEF At, In, Held, Busy
  <2> QED
      BY <2>1 DEF Inv, Budgets, Shallow, BudgetsExact
<1> QED
    BY <1>1, Invariance, PTL

(* The lineage the ledger shows is the lineage that was, for every number  *)
(* of pivots and follow-ups, through time limits that overtake an append   *)
(* and crashes between any two steps (agent.py:203-240, watcher.py:79-165). *)
THEOREM LineageTrue == Spec => []Lineage
<1>1. Inv => Lineage
    BY DEF Inv
<1> QED
    BY <1>1, Invariance, PTL
=============================================================================
