---- MODULE MCAnchor ----
(* Instances of Anchor for TLC: interchangeable callers, one batch size.   *)
EXTENDS Anchor, TLC

CONSTANTS c1, c2, c3

OneSize == [p \in Anchorers |-> 2]
SymCallers == Permutations({c1, c2, c3})
====
