------------------------------- MODULE Fusion -------------------------------
(***************************************************************************)
(* Dempster-Shafer fusion of the reports of one window and the action it   *)
(* leads to (swarm/ds_fusion.py, swarm/evaluator.py).                      *)
(*                                                                         *)
(* A mass function is exact: three numerators over a common denominator    *)
(* `of`.  The fold of fuse() is one step for each report.                  *)
(***************************************************************************)
EXTENDS Naturals, Sequences, FiniteSets

CONSTANT Inputs     \* the report lists that are fused

Technique == [name : STRING, form : {"attack", "tactic", "word"}]

(* A confidence n/of, ignorance in twentieths; the reliability is the      *)
(* default of threshold.evaluate, 4/5.  The frame shows the techniques     *)
(* with the report.                                                        *)
AgentReport == [agent : STRING \X STRING, sensor : STRING,
                n : Nat, of : Nat \ {0}, ignorance : 0 .. 20,
                techniques : Seq(Technique)]

Reporting(rs) ==
    /\ rs \in Seq(AgentReport)
    /\ rs # <<>>
    /\ \A i \in DOMAIN rs : rs[i].n <= rs[i].of

ASSUME InputsAssumption == \A rs \in Inputs : Reporting(rs)

(* What threshold.evaluate gives: one report for each agent, of ignorance  *)
(* 0.05 or 0.15.                                                           *)
Evaluated(rs) ==
    /\ \A i \in DOMAIN rs : rs[i].ignorance \in {1, 3}
    /\ \A i, j \in DOMAIN rs : rs[i].agent = rs[j].agent => i = j

ASSUME EvaluatedAssumption == \A rs \in Inputs : Evaluated(rs)

VARIABLES
    reports,
    folded,     \* how many of the reports are in m
    m,          \* the combined masses
    norm,       \* the normaliser of the last use of Dempster's rule, as below
    calm,       \* 1 - total_K, as numerator and denominator
    action      \* what evaluate() says, "none" before; "total_conflict" is its
                \* escalate_human for a ConsensusConflictError

vars == <<reports, folded, m, norm, calm, action>>

Mass == [evil : Nat, benign : Nat, theta : Nat, of : Nat \ {0}]

TypeOK ==
    /\ Reporting(reports)
    /\ folded \in 1 .. Len(reports)
    /\ m \in Mass
    /\ m.evil + m.benign + m.theta = m.of
    /\ norm \in Nat \X (Nat \ {0})
    /\ calm \in Nat \X (Nat \ {0})
    /\ action \in {"none", "total_conflict", "mitigate", "escalate_human",
                   "conflict_ledger", "observe"}

-----------------------------------------------------------------------------

Fraction == Nat \X (Nat \ {0})

(* a/b <= c/d, without a product: integer parts first, then the            *)
(* reciprocals of the remainders.                                          *)
AtMost(a, b, c, d) ==
    LET Part(x) == x[1] \div x[2]
        Rest(x) == x[1] % x[2]
        leq[f \in Fraction \X Fraction] ==
            IF Part(f[1]) # Part(f[2]) THEN Part(f[1]) < Part(f[2])
            ELSE \/ Rest(f[1]) = 0
                 \/ /\ Rest(f[2]) # 0
                    /\ leq[<<<<f[2][2], Rest(f[2])>>, <<f[1][2], Rest(f[1])>>>>]
    IN  leq[<<<<a, b>>, <<c, d>>>>]

(* to_bpa: ignorance k and Shafer's discount 4/5.                          *)
Bpa(r) ==
    [evil   |-> (20 - r.ignorance) * r.n,
     benign |-> (20 - r.ignorance) * (r.of - r.n),
     theta  |-> (5 + r.ignorance) * r.of,
     of     |-> 25 * r.of]

PrefersEvil(x) == x.evil >= x.benign

Conflict(x, y) == x.evil * y.benign + x.benign * y.evil

(* Mutation: conflict is never looked for.                                 *)
NeverYager(x, y) == FALSE

(* Mutation: also reports of one preference can clash.                     *)
AnyConflict(x, y) == 10 * Conflict(x, y) >= 3 * (x.of * y.of)

(* K_would_exceed: opposite preferences and a conflict of 0.30 or more.    *)
KWouldExceed(x, y) ==
    /\ PrefersEvil(x) # PrefersEvil(y)
    /\ 10 * Conflict(x, y) >= 3 * (x.of * y.of)

(* Mutation: ignorance of the first and evil of the second are not joined. *)
MeetOneSided(x, y) ==
    [evil   |-> x.evil * y.evil + x.evil * y.theta,
     benign |-> x.benign * y.benign + x.benign * y.theta + x.theta * y.benign,
     theta  |-> x.theta * y.theta + x.theta * y.evil,
     of     |-> x.of * y.of - Conflict(x, y)]

(* The products that meet in a non-empty set, over what they sum up to:    *)
(* Dempster's rule.                                                        *)
Meet(x, y) ==
    [evil   |-> x.evil * y.evil + x.evil * y.theta + x.theta * y.evil,
     benign |-> x.benign * y.benign + x.benign * y.theta + x.theta * y.benign,
     theta  |-> x.theta * y.theta,
     of     |-> x.of * y.of - Conflict(x, y)]

(* The conflict is pushed to theta: Yager's rule.                          *)
Yager(x, y) == [Meet(x, y) EXCEPT !.theta = @ + Conflict(x, y), !.of = x.of * y.of]

-----------------------------------------------------------------------------

Init ==
    /\ reports \in Inputs
    /\ folded = 1
    /\ m = Bpa(reports[1])
    /\ norm = <<1, 1>>
    /\ calm = <<1, 1>>
    /\ action = "none"

(* One turn of the loop of fuse().  Floating point calls 1 - K <= 1e-12    *)
(* total conflict.                                                         *)
Combine ==
    LET y == Bpa(reports[folded + 1])
        K == Conflict(m, y)
        d == m.of * y.of
    IN  /\ action = "none"
        /\ folded < Len(reports)
        /\ \/ /\ KWouldExceed(m, y)
              /\ m' = Yager(m, y)
              /\ calm' = <<calm[1] * (d - K), calm[2] * d>>
              /\ folded' = folded + 1
              /\ UNCHANGED <<norm, action>>
           \/ /\ ~KWouldExceed(m, y)
              /\ norm' = <<d - K, d>>
              /\ IF K < d
                 THEN m' = Meet(m, y) /\ folded' = folded + 1 /\ UNCHANGED action
                 ELSE action' = "total_conflict" /\ UNCHANGED <<m, folded>>
              /\ UNCHANGED calm
        /\ UNCHANGED reports

(* A tenth of the largest declared ignorance, in 250ths.                   *)
Floor ==
    LET declared == {i \in DOMAIN reports : reports[i].ignorance > 0}
        most     == CHOOSE i \in declared :
                        \A j \in declared : reports[j].ignorance <= reports[i].ignorance
    IN  IF declared = {} THEN 0 ELSE 5 + reports[most].ignorance

(* belief_evil >= p/q.  Ignorance below the floor is made up from both     *)
(* singletons, which are always large enough.                              *)
BeliefAtLeast(p, q) ==
    IF ~AtMost(Floor, 250, m.theta, m.of)
    THEN AtMost(250 * p, (250 - Floor) * q, m.evil, m.evil + m.benign)
    ELSE AtMost(p, q, m.evil, m.of)

SensorDiversity == Cardinality({reports[i].sensor : i \in DOMAIN reports})

(* total_K >= tenths / 10                                                  *)
ConflictAtLeast(tenths) == AtMost(calm[1], calm[2], 10 - tenths, 10)

(* Mutation: plausibility instead of belief.                               *)
ActionByPlausibility ==
    IF AtMost(4, 5, m.evil + m.theta, m.of) /\ SensorDiversity >= 2 THEN "mitigate"
    ELSE IF ConflictAtLeast(7) THEN "escalate_human"
    ELSE IF ConflictAtLeast(3) THEN "conflict_ledger"
    ELSE "observe"

(* The thresholds of evaluate(), in its order.                             *)
Action ==
    IF BeliefAtLeast(4, 5) /\ SensorDiversity >= 2 THEN "mitigate"
    ELSE IF ConflictAtLeast(7) THEN "escalate_human"
    ELSE IF ConflictAtLeast(3) THEN "conflict_ledger"
    ELSE "observe"

Decide ==
    /\ action = "none"
    /\ folded = Len(reports)
    /\ action' = Action
    /\ UNCHANGED <<reports, folded, m, norm, calm>>

Next == Combine \/ Decide

Spec == Init /\ [][Next]_vars

-----------------------------------------------------------------------------
(* Properties.                                                             *)

(* Dempster's rule is never applied where half of the mass or more         *)
(* conflicts, so its normaliser is at least one half and the error for     *)
(* total conflict (ds_fusion.py:108) cannot occur: reports of one          *)
(* preference never clash that much, others go to Yager's rule.            *)
ConflictBounded == action # "total_conflict" /\ norm[2] <= 2 * norm[1]

Product(f) ==
    LET p[i \in 0 .. Len(f)] == IF i = 0 THEN 1 ELSE p[i - 1] * f[i]
    IN  p[Len(f)]

(* While no two reports oppose each other the fold is a product over all   *)
(* reports, whatever their order: agents that agree get the same frame in  *)
(* whatever order their events come.                                       *)
AgreementIsProduct ==
    LET xs == [i \in 1 .. folded |-> Bpa(reports[i])]
    IN  Cardinality({PrefersEvil(xs[i]) : i \in DOMAIN xs}) = 1 =>
            LET thetas == Product([i \in DOMAIN xs |-> xs[i].theta])
            IN  /\ m.theta = thetas
                /\ m.evil = Product([i \in DOMAIN xs |-> xs[i].evil + xs[i].theta]) - thetas
                /\ m.benign = Product([i \in DOMAIN xs |-> xs[i].benign + xs[i].theta]) - thetas

(* A report that leans to evil never lowers the belief of a fold that      *)
(* leans to evil: corroboration cannot talk the swarm out of a finding.    *)
Corroborated ==
    [][(/\ folded' > folded
        /\ PrefersEvil(m) /\ PrefersEvil(Bpa(reports[folded'])))
       => AtMost(m.evil, m.of, m'.evil, m'.of)]_vars

(* No single agent brings about a mitigation, however sure it is and       *)
(* whatever counter-evidence makes up the two sensors: at least two agents *)
(* do not lean to benign.                                                  *)
MitigationNeedsTwo ==
    action = "mitigate" =>
        \E i, j \in DOMAIN reports :
            /\ i # j /\ reports[i].agent # reports[j].agent
            /\ PrefersEvil(Bpa(reports[i])) /\ PrefersEvil(Bpa(reports[j]))
=============================================================================
