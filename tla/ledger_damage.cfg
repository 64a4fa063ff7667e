\* One accident anywhere in a ledger of up to six entries, and one anchored
\* batch of any size, in any order.
SPECIFICATION DamageSpec
CONSTANT MaxSeq = 6
INVARIANTS TaintExact RangeAgrees
INVARIANTS ProofsVerify NothingSlips
\* the bound MaxSeq ends every behaviour
CHECK_DEADLOCK FALSE
