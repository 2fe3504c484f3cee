---------------------------- MODULE MCArchiveCache ----------------------------
(* Instance of ArchiveCache: three processes, a wheel of one member. *)
EXTENDS ArchiveCache
===============================================================================
