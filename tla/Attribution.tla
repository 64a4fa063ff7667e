---------------------------- MODULE Attribution ----------------------------
(***************************************************************************)
(* Shapley attribution of a fused belief to the agents, as the consensus   *)
(* entry records it (swarm/shapley.py, ledger/events.py), for up to six    *)
(* reports; more are sampled.                                              *)
(*                                                                         *)
(* Fractions of several fusions have no small common denominator, so an    *)
(* attribution is kept as the sum it is: n! times the coefficient of every *)
(* belief in it.  A belief stands for itself in lowest terms, with the     *)
(* ignorance floor that applies to it.                                     *)
(***************************************************************************)
EXTENDS Fusion, Parsers, Combinatorics, SequencesExt

(* n/of in lowest terms                                                    *)
Lowest(c) ==
    LET gcd[p \in Nat \X Nat] == IF p[2] = 0 THEN p[1] ELSE gcd[<<p[2], p[1] % p[2]>>]
        g == gcd[<<c.n, c.of>>]
    IN  [n |-> c.n \div g, of |-> c.of \div g]

Zero == [n |-> 0, of |-> 1, floor |-> 0]

(* belief_evil of fuse(); v is 0 without reports.                          *)
FusedBelief(rs) ==
    LET Joined(x, y) == IF KWouldExceed(x, y) THEN Yager(x, y) ELSE Meet(x, y)
        fold[i \in DOMAIN rs] ==
            IF i = 1 THEN Bpa(rs[1]) ELSE Joined(fold[i - 1], Bpa(rs[i]))
        all   == fold[Len(rs)]
        floor == 5 + Max({rs[i].ignorance : i \in DOMAIN rs})
    IN  IF rs = <<>> \/ fold[Len(rs)].evil = 0 THEN Zero
        ELSE IF AtMost(floor, 250, all.theta, all.of)
        THEN Lowest([n |-> all.evil, of |-> all.of]) @@ [floor |-> 0]
        ELSE Lowest([n |-> all.evil, of |-> all.evil + all.benign]) @@ [floor |-> floor]

(* Mutation: every coalition has the same weight.                          *)
WeightUniform(k, n) == factorial[n] \div 2 ^ (n - 1)

(* n! / (n * comb(n - 1, k))                                               *)
Weight(k, n) == factorial[k] * factorial[n - 1 - k]

(* What each agent adds to each coalition of others: the agent comes last. *)
Gains(rs) ==
    LET n == Len(rs)
        Of(S) == Kept(rs, S)
    IN  UNION {{[agent |-> i, coalition |-> S, weight |-> Weight(Cardinality(S), n),
                 after |-> FusedBelief(Append(Of(S), rs[i])), before |-> FusedBelief(Of(S))]
                   : S \in SUBSET (1 .. n \ {i})} : i \in 1 .. n}

(* shapley_attribution_kernel, had it drawn exactly the orders in `perms`: *)
(* what each agent adds to those before it.                                *)
Sampled(rs, perms) ==
    LET Of(perm, k) == [l \in 1 .. k |-> rs[perm[l]]]
    IN  {[agent |-> perm[k], order |-> perm, weight |-> 1,
          after |-> FusedBelief(Of(perm, k)), before |-> FusedBelief(Of(perm, k - 1))]
            : perm \in perms, k \in DOMAIN rs}

(* _shapley_for_reports: what the consensus entry holds.                   *)
Recorded(rs) == IF Len(rs) < 2 THEN {} ELSE Gains(rs)

(* The coefficient of the belief v in the attribution that they sum up to. *)
Coefficient(gains, v) ==
    LET Weigh(S) == MapThenSumSet(LAMBDA g : g.weight, S)
    IN  Weigh({g \in gains : g.after = v}) - Weigh({g \in gains : g.before = v})

-----------------------------------------------------------------------------

(* The attributions of a consensus entry add up to its belief, and agents  *)
(* that report the same are attributed the same, what test_shapley.py says *)
(* of three equal reports: for two agents whatever they say, for more as   *)
(* long as no two of them are opposed.  Each coalition is fused with the   *)
(* agent in question last, so that sums cancel only if the order does not  *)
(* matter; then sampling every order once gives the same attribution too   *)
(* (shapley.py:21-65, events.py:102-129).                                  *)
AttributionAddsUp ==
    LET n     == Len(reports)
        gains == Recorded(reports)
        Of(i) == {g \in gains : g.agent = i}
        sampled == Sampled(reports, Bijection(1 .. n, 1 .. n))
        beliefs == {g.after : g \in gains} \ {Zero}
        opposed == \E i, j \in 1 .. n : PrefersEvil(Bpa(reports[i])) # PrefersEvil(Bpa(reports[j]))
    IN  action # "none" /\ (n > 2 => ~opposed) => \A v \in beliefs :
            /\ Coefficient(gains, v) = IF v = FusedBelief(reports) THEN factorial[n] ELSE 0
            /\ \A i \in 1 .. n :
                   Coefficient({g \in sampled : g.agent = i}, v) = Coefficient(Of(i), v)
            /\ \A i, j \in 1 .. n :
                   Bpa(reports[i]) = Bpa(reports[j]) =>
                       Coefficient(Of(i), v) = Coefficient(Of(j), v)
=============================================================================
