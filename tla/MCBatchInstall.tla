---------------------------- MODULE MCBatchInstall ----------------------------
(* Instance of BatchInstall: batches of one to three wheels over two ordinary files *)
(* and a generated one, with a shared file in one batch, a pool of two. A file that  *)
(* no wheel of a batch installs is one of the distributions it replaces, or of       *)
(* others.                                                                           *)
EXTENDS BatchInstall

CONSTANTS a, b, g

MCFiles == {a, b, g}
MCGenerated == {g}
MCPlans ==
    { <<{a, g}>>,               \* one wheel: never parallel
      <<{a, g}, {b}>>,          \* two wheels, parallel when not compiled
      <<{a}, {a, b}>>,          \* two wheels that share a file
      <<{a}, {b}, {g}>> }       \* more wheels than the pool has threads
===============================================================================
