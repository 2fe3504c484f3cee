------------------------------ MODULE MCIndexCatalog ------------------------------
EXTENDS IndexCatalog, TLC

CONSTANTS t1, t2, p1, p2

\* Two threads of one process, or two processes.
MCSharing == {(t1 :> p1 @@ t2 :> p1), (t1 :> p1 @@ t2 :> p2)}

\* max-age of one tick, or no-store.
MCLifetimes == {1, NoStore}
====
