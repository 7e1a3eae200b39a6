--------------------------- MODULE MCLocalInstalls ---------------------------
\* Instances of LocalInstalls for TLC: three commands in two processes.
EXTENDS LocalInstalls, TLC

CONSTANTS j1, j2, j3, s1, s2, x, y, lib, i1

MCJobs == {j1, j2, j3}
MCSessions == {s1, s2}
MCSessionOf == (j1 :> s1) @@ (j2 :> s2) @@ (j3 :> s2)
MCExts == {x, y, lib}
MCInstalls == {i1}
MCSymmetry == Permutations({x, y}) \cup Permutations({j2, j3})
=============================================================================
