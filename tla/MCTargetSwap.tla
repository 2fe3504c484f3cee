----------------------------- MODULE MCTargetSwap -----------------------------
(* Instance of TargetSwap: two processes, two distributions and two versions. The *)
(* requests are the same version twice, two versions of one distribution, and two *)
(* distributions; the others are these under a renaming.                           *)
EXTENDS TargetSwap, TLC

CONSTANTS p1, p2, a, b, v1, v2

MCProcs == {p1, p2}
MCDists == {a, b}
MCVersions == {v1, v2}
Wheel(k, v) == [dist |-> k, version |-> v]
MCRequests == p1 :> {Wheel(a, v1)} @@ p2 :> {Wheel(a, v1), Wheel(a, v2), Wheel(b, v1)}
===============================================================================
