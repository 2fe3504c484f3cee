-------------------------- MODULE MCInstallTransaction --------------------------
(* Instance of InstallTransaction: two files, three texts, two of them aliases.  *)
EXTENDS InstallTransaction, TLC

CONSTANTS f1, f2, t1, t2, t3

MCFiles == {f1, f2}
MCTexts == {t1, t2, t3}
MCReal == (t1 :> f1) @@ (t2 :> f1) @@ (t3 :> f2)
==================================================================================
