------------------------------ MODULE MCGroups -----------------------------
\* Groups for TLC: brokers and member IDs are interchangeable.
EXTENDS Groups, TLC

Symmetry == Permutations(Brokers) \cup Permutations(Members)
=============================================================================
