------------------------------ MODULE AtomicBatch ------------------------------
(* What install_wheels_transactionally promises its caller, whichever route it     *)
(* takes: when the call is over, the target holds the whole batch or what it held  *)
(* before, and nothing the call started changes the target afterwards.             *)
VARIABLES
    before,     \* what the target held when the call was made
    batch,      \* what it holds once every wheel of the batch is installed
    target,     \* what the caller may rely on
    answer      \* "none" while the call runs, then how it ended

Init == target = before /\ answer = "none"

\* The call returns the candidates.
Return == answer = "none" /\ answer' = "returned" /\ target' = batch

\* The call raises. An interrupt may come too late to undo a finished batch.
Raise == answer = "none" /\ answer' = "raised" /\ target' \in {before, batch}

Next == (Return \/ Raise) /\ UNCHANGED <<before, batch>>

Spec == Init /\ [][Next]_<<before, batch, target, answer>>
================================================================================
