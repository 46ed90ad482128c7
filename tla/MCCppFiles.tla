---- MODULE MCCppFiles ----
EXTENDS CppFiles, TLC
CONSTANTS p1, p2, k1, k2
\* One file, the same under another name, and another file under its hash; k2
\* is a hash nobody seeds.
MCDesc == {[name |-> "a", size |-> 1, hash |-> k1],
           [name |-> "b", size |-> 1, hash |-> k1],
           [name |-> "a", size |-> 2, hash |-> k1]}
Symmetry == Permutations(Addr)
====
