----------------------------- MODULE MCArtifactStore -----------------------------
EXTENDS ArtifactStore, TLC

CONSTANTS p1, p2, u1, u2, c1, c2

MCSymmetry == Permutations({u1, u2})

\* A call after a call, and another process.
MCCalls == p1 :> 2 @@ p2 :> 1
====
