---- MODULE MCKeyRotation ----
(* Instances of KeyRotation for TLC: interchangeable processes.            *)
EXTENDS KeyRotation, TLC

CONSTANTS p1, p2, p3

SymProcs == Permutations({p1, p2, p3})
====
