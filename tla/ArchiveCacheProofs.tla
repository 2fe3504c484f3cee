--------------------------- MODULE ArchiveCacheProofs ---------------------------
(* Proofs about ArchiveCache: one process at a time extracts an entry, and an entry *)
(* that was published stays, for any number of processes and members.              *)
EXTENDS ArchiveCache, TLAPS

USE DEF Dirs, Items, Waiting, Scope, Ended

------------------------------------------------------------------------------------
(* The inductive invariant.                                                         *)

\* A process whose lock file is there knows it; one that still waits has none.
LockInv ==
    /\ lock # NoProc => locked[lock] = TRUE
    /\ \A p \in Procs : pc[p] \in {"loading"} \cup Waiting => locked[p] = FALSE

\* Before its rename, nobody can reach the directory of a process.
PrivateInv ==
    \A p \in Procs :
        pc[p] \in {"loading", "checking", "extracting", "removing", "unlinking", "renaming"}
                  \cup Waiting
        => entry # p

\* Between the second load and the rename.
Replacing(p) == pc[p] \in {"extracting", "removing", "unlinking", "renaming"}

\* Who created a lock file in the scope still holds it, and only such a process extracts.
HolderInv ==
    \A p \in Procs :
        /\ pc[p] \in Scope /\ locked[p] = TRUE => lock = p
        /\ Extracting(p) => locked[p] = TRUE

\* An extractor has nothing to destroy, a process in the no-op scope something to load.
EntryInv ==
    \A p \in Procs :
        /\ Replacing(p) => ~Loads
        /\ pc[p] = "checking" /\ locked[p] = FALSE => Loads

IInv == TypeOK /\ LockInv /\ PrivateInv /\ (~stolen => HolderInv /\ EntryInv)

------------------------------------------------------------------------------------
LEMMA InvInit == Init => IInv
<1> SUFFICES ASSUME Init PROVE IInv
  OBVIOUS
<1>1. TypeOK
  BY DEF Init, TypeOK
<1>2. LockInv /\ PrivateInv /\ HolderInv /\ EntryInv
  BY ProcsAssumption DEF Init, LockInv, PrivateInv, HolderInv, EntryInv, Extracting, Replacing
<1> QED BY <1>1, <1>2 DEF IInv

\* Every step keeps the types, and no lock file is left behind.
LEMMA TypeStep == TypeOK /\ LockInv /\ [Next]_vars => TypeOK' /\ LockInv'
<1> SUFFICES ASSUME TypeOK, LockInv, [Next]_vars PROVE TypeOK' /\ LockInv'
  OBVIOUS
<1> USE ProcsAssumption DEF TypeOK, LockInv, Goes, dirvars, lockvars, procvars
<1>1. ASSUME NEW p \in Procs, Prepare(p) PROVE TypeOK' /\ LockInv'
  <2>1. CASE Load(p)
    BY <2>1 DEF Load
  <2>2. CASE TakeLock(p)
    BY <2>2 DEF TakeLock
  <2>3. CASE LockExists(p)
    BY <2>3 DEF LockExists
  <2>4. CASE EnterUnlocked(p)
    BY <2>4 DEF EnterUnlocked
  <2>5. CASE StatLock(p)
    BY <2>5 DEF StatLock
  <2>6. CASE TimeOut(p)
    BY <2>6 DEF TimeOut
  <2>7. CASE BreakLock(p)
    BY <2>7 DEF BreakLock, Unlink
  <2>8. CASE Recheck(p)
    BY <2>8 DEF Recheck
  <2>9. CASE Release(p)
    BY <2>9 DEF Release, Unlink
  <2> QED BY <1>1, <2>1, <2>2, <2>3, <2>4, <2>5, <2>6, <2>7, <2>8, <2>9 DEF Prepare
<1>2. ASSUME NEW p \in Procs, ExtractStep(p) PROVE TypeOK' /\ LockInv'
  <2>1. CASE Extract(p)
    BY <2>1 DEF Extract
  <2>2. CASE ExtractFails(p)
    BY <2>2 DEF ExtractFails, Raises
  <2>3. CASE OpenDoomed(p)
    BY <2>3 DEF OpenDoomed
  <2>4. ASSUME NEW item \in Items, UnlinkItem(p, item) PROVE TypeOK' /\ LockInv'
    BY <2>4 DEF UnlinkItem
  <2>5. CASE UnlinkMisses(p)
    BY <2>5 DEF UnlinkMisses
  <2>6. CASE RemoveDir(p)
    BY <2>6 DEF RemoveDir, Raises
  <2>7. CASE Publish(p)
    BY <2>7 DEF Publish
  <2>8. CASE PublishFails(p)
    BY <2>8 DEF PublishFails, Raises
  <2>9. CASE Reload(p)
    BY <2>9 DEF Reload
  <2> QED BY <1>2, <2>1, <2>2, <2>3, <2>4, <2>5, <2>6, <2>7, <2>8, <2>9 DEF ExtractStep
<1>3. ASSUME NEW p \in Procs, Copy(p) PROVE TypeOK' /\ LockInv'
  BY <1>3 DEF Copy, CopyMember, CopyFails, Installed
<1>4. ASSUME NEW p \in Procs, Crash(p) PROVE TypeOK' /\ LockInv'
  BY <1>4 DEF Crash
<1>5. CASE GrowStale
  BY <1>5 DEF GrowStale
<1>6. CASE UNCHANGED vars
  BY <1>6 DEF vars
<1> QED BY <1>1, <1>2, <1>3, <1>4, <1>5, <1>6 DEF Next, Step, Terminated

\* The directory an extractor builds is its own until it renames it.
LEMMA PrivateStep == TypeOK /\ PrivateInv /\ [Next]_vars => PrivateInv'
<1> SUFFICES ASSUME TypeOK, PrivateInv, [Next]_vars PROVE PrivateInv'
  OBVIOUS
<1> USE ProcsAssumption DEF TypeOK, PrivateInv, Goes, dirvars, lockvars, procvars
<1>1. ASSUME NEW p \in Procs, Prepare(p) PROVE PrivateInv'
  BY <1>1 DEF Prepare, Load, TakeLock, LockExists, EnterUnlocked, StatLock, TimeOut,
              BreakLock, Recheck, Release
<1>2. ASSUME NEW p \in Procs, ExtractStep(p) PROVE PrivateInv'
  BY <1>2 DEF ExtractStep, Extract, ExtractFails, OpenDoomed, UnlinkItem, UnlinkMisses,
              RemoveDir, Publish, PublishFails, Reload
<1>3. ASSUME NEW p \in Procs, Copy(p) PROVE PrivateInv'
  BY <1>3 DEF Copy, CopyMember, CopyFails, Installed
<1>4. ASSUME NEW p \in Procs, Crash(p) PROVE PrivateInv'
  BY <1>4 DEF Crash
<1>5. CASE GrowStale \/ UNCHANGED vars
  BY <1>5 DEF GrowStale, vars
<1> QED BY <1>1, <1>2, <1>3, <1>4, <1>5 DEF Next, Step, Terminated

------------------------------------------------------------------------------------
(* What a step does to the entry while no lock has been stolen.                     *)

\* Only a process between its second load and its rename can take a loadable entry away,
\* and there is none.
LEMMA EntryStays ==
    IInv /\ ~stolen /\ Loads /\ [Next]_vars => Loads'
<1> SUFFICES ASSUME IInv, ~stolen, Loads, [Next]_vars PROVE Loads'
  OBVIOUS
<1>1. \A p \in Procs : ~Replacing(p)
  BY DEF IInv, EntryInv
<1> USE ProcsAssumption DEF IInv, TypeOK, PrivateInv, Loads, Goes, Replacing, dirvars, lockvars, procvars
<1>2. ASSUME NEW p \in Procs, Prepare(p) PROVE Loads'
  BY <1>2 DEF Prepare, Load, TakeLock, LockExists, EnterUnlocked, StatLock, TimeOut,
              BreakLock, Recheck, Release
<1>3. ASSUME NEW p \in Procs, ExtractStep(p) PROVE Loads'
  BY <1>1, <1>3 DEF ExtractStep, Extract, ExtractFails, OpenDoomed, UnlinkItem, UnlinkMisses,
                    RemoveDir, Publish, PublishFails, Reload
<1>4. ASSUME NEW p \in Procs, Copy(p) PROVE Loads'
  BY <1>4 DEF Copy, CopyMember, CopyFails, Installed
<1>5. ASSUME NEW p \in Procs, Crash(p) PROVE Loads'
  BY <1>5 DEF Crash
<1>6. CASE GrowStale \/ UNCHANGED vars
  BY <1>6 DEF GrowStale, vars
<1> QED BY <1>2, <1>3, <1>4, <1>5, <1>6 DEF Next, Step, Terminated

\* What was not loadable becomes so only when an extractor renames its directory.
LEMMA EntryAppears ==
    IInv /\ ~Loads /\ [Next]_vars /\ Loads' => \E p \in Procs : Publish(p)
<1> SUFFICES ASSUME IInv, ~Loads, [Next]_vars, \A p \in Procs : ~Publish(p) PROVE ~Loads'
  OBVIOUS
<1> USE ProcsAssumption DEF IInv, TypeOK, PrivateInv, Loads, Goes, dirvars, lockvars, procvars
<1>2. ASSUME NEW p \in Procs, Prepare(p) PROVE ~Loads'
  BY <1>2 DEF Prepare, Load, TakeLock, LockExists, EnterUnlocked, StatLock, TimeOut,
              BreakLock, Recheck, Release
<1>3. ASSUME NEW p \in Procs, ExtractStep(p) PROVE ~Loads'
  BY <1>3 DEF ExtractStep, Extract, ExtractFails, OpenDoomed, UnlinkItem, UnlinkMisses,
              RemoveDir, PublishFails, Reload
<1>4. ASSUME NEW p \in Procs, Copy(p) PROVE ~Loads'
  BY <1>4 DEF Copy, CopyMember, CopyFails, Installed
<1>5. ASSUME NEW p \in Procs, Crash(p) PROVE ~Loads'
  BY <1>5 DEF Crash
<1>6. CASE GrowStale \/ UNCHANGED vars
  BY <1>6 DEF GrowStale, vars
<1> QED BY <1>2, <1>3, <1>4, <1>5, <1>6 DEF Next, Step, Terminated

\* The first unlink of a live process's lock file ends the premise for good.
LEMMA StolenStays == TypeOK /\ [Next]_vars /\ ~stolen' => ~stolen
<1> SUFFICES ASSUME TypeOK, [Next]_vars, stolen PROVE stolen'
  BY DEF TypeOK
<1> USE DEF TypeOK, dirvars, lockvars, procvars
<1>1. ASSUME NEW p \in Procs, Prepare(p) PROVE stolen'
  BY <1>1 DEF Prepare, Load, TakeLock, LockExists, EnterUnlocked, StatLock, TimeOut,
              BreakLock, Unlink, Recheck, Release
<1>2. ASSUME NEW p \in Procs, ExtractStep(p) PROVE stolen'
  BY <1>2 DEF ExtractStep, Extract, ExtractFails, OpenDoomed, UnlinkItem, UnlinkMisses,
              RemoveDir, Publish, PublishFails, Reload
<1>3. ASSUME NEW p \in Procs, Copy(p) PROVE stolen'
  BY <1>3 DEF Copy, CopyMember, CopyFails, Installed
<1>4. CASE (\E p \in Procs : Crash(p)) \/ GrowStale \/ UNCHANGED vars
  BY <1>4 DEF Crash, GrowStale, vars
<1> QED BY <1>1, <1>2, <1>3, <1>4 DEF Next, Step, Terminated

\* The holder's claim: who enters the scope with a lock file owns it until it leaves.
LEMMA HolderStep == IInv /\ ~stolen /\ [Next]_vars /\ ~stolen' => HolderInv'
<1> SUFFICES ASSUME IInv, ~stolen, [Next]_vars, ~stolen' PROVE HolderInv'
  OBVIOUS
<1>1. HolderInv /\ EntryInv /\ LockInv /\ TypeOK
  BY DEF IInv
<1> USE <1>1, ProcsAssumption DEF TypeOK, LockInv, HolderInv, Extracting, Goes, dirvars, lockvars, procvars
<1>2. ASSUME NEW p \in Procs, Prepare(p) PROVE HolderInv'
  <2>1. CASE TakeLock(p)
    BY <2>1 DEF TakeLock
  <2>2. CASE BreakLock(p)
    BY <2>2 DEF BreakLock, Unlink
  <2>3. CASE Release(p)
    BY <2>3 DEF Release, Unlink
  <2>4. CASE Recheck(p)
    BY <2>4 DEF Recheck, EntryInv
  <2>5. CASE Load(p) \/ LockExists(p) \/ EnterUnlocked(p) \/ StatLock(p) \/ TimeOut(p)
    BY <2>5 DEF Load, LockExists, EnterUnlocked, StatLock, TimeOut
  <2> QED BY <1>2, <2>1, <2>2, <2>3, <2>4, <2>5 DEF Prepare
<1>3. ASSUME NEW p \in Procs, ExtractStep(p) PROVE HolderInv'
  BY <1>3 DEF ExtractStep, Extract, ExtractFails, OpenDoomed, UnlinkItem, UnlinkMisses,
              RemoveDir, Publish, PublishFails, Reload, Raises
<1>4. ASSUME NEW p \in Procs, Copy(p) PROVE HolderInv'
  BY <1>4 DEF Copy, CopyMember, CopyFails, Installed
<1>5. ASSUME NEW p \in Procs, Crash(p) PROVE HolderInv'
  BY <1>5 DEF Crash
<1>6. CASE GrowStale \/ UNCHANGED vars
  BY <1>6 DEF GrowStale, vars
<1> QED BY <1>2, <1>3, <1>4, <1>5, <1>6 DEF Next, Step, Terminated

\* Two extractors would both own the lock file.
LEMMA HoldersAreOne ==
    TypeOK /\ HolderInv => \A p, q \in Procs : Extracting(p) /\ Extracting(q) => p = q
BY DEF HolderInv, Extracting

\* A process starts to extract, or enters the no-op scope, by its own look at the entry;
\* what it saw then stays true.
LEMMA EntryStep == IInv /\ ~stolen /\ [Next]_vars /\ ~stolen' => EntryInv'
<1> SUFFICES ASSUME IInv, ~stolen, [Next]_vars, NEW p \in Procs
             PROVE /\ Replacing(p)' => ~Loads'
                   /\ pc'[p] = "checking" /\ locked'[p] = FALSE => Loads'
  BY DEF EntryInv
<1>1. HolderInv /\ EntryInv /\ LockInv /\ TypeOK
  BY DEF IInv
\* Another process's step leaves pc[p] and locked[p] alone.
<1>2. (pc[p] = pc'[p] /\ locked[p] = locked'[p]) \/ Step(p) \/ Crash(p)
  <2> USE <1>1 DEF TypeOK, Goes, dirvars, lockvars, procvars
  <2>1. ASSUME NEW q \in Procs \ {p}, Prepare(q) PROVE pc[p] = pc'[p] /\ locked[p] = locked'[p]
    BY <2>1 DEF Prepare, Load, TakeLock, LockExists, EnterUnlocked, StatLock, TimeOut,
                BreakLock, Recheck, Release
  <2>2. ASSUME NEW q \in Procs \ {p}, ExtractStep(q)
        PROVE pc[p] = pc'[p] /\ locked[p] = locked'[p]
    BY <2>2 DEF ExtractStep, Extract, ExtractFails, OpenDoomed, UnlinkItem, UnlinkMisses,
                RemoveDir, Publish, PublishFails, Reload
  <2>3. ASSUME NEW q \in Procs \ {p}, Copy(q) PROVE pc[p] = pc'[p] /\ locked[p] = locked'[p]
    BY <2>3 DEF Copy, CopyMember, CopyFails, Installed
  <2>4. ASSUME NEW q \in Procs \ {p}, Crash(q) PROVE pc[p] = pc'[p] /\ locked[p] = locked'[p]
    BY <2>4 DEF Crash
  <2>5. CASE GrowStale \/ UNCHANGED vars
    BY <2>5 DEF GrowStale, vars
  <2> QED BY <2>1, <2>2, <2>3, <2>4, <2>5 DEF Next, Step, Terminated
\* The last process to have looked at the entry looked well.
<1>3. /\ Replacing(p)' => ~Loads
      /\ pc'[p] = "checking" /\ locked'[p] = FALSE => Loads
  <2> USE <1>1 DEF TypeOK, EntryInv, Replacing, Goes, dirvars, lockvars, procvars
  <2>1. CASE pc[p] = pc'[p] /\ locked[p] = locked'[p]
    BY <2>1
  <2>2. CASE Prepare(p)
    BY <2>2 DEF Prepare, Load, TakeLock, LockExists, EnterUnlocked, StatLock, TimeOut,
                BreakLock, Recheck, Release
  <2>3. CASE ExtractStep(p)
    BY <2>3 DEF ExtractStep, Extract, ExtractFails, OpenDoomed, UnlinkItem, UnlinkMisses,
                RemoveDir, Publish, PublishFails, Reload
  <2>4. CASE Copy(p) \/ Crash(p)
    BY <2>4 DEF Copy, CopyMember, CopyFails, Installed, Crash
  <2> QED BY <1>2, <2>1, <2>2, <2>3, <2>4 DEF Step
\* No directory is renamed to the entry while p replaces it.
<1>4. Replacing(p)' => ~\E q \in Procs : Publish(q)
  <2> SUFFICES ASSUME Replacing(p)', NEW q \in Procs, Publish(q) PROVE FALSE
    OBVIOUS
  <2>1. q # p => Replacing(p)
    BY <1>1 DEF Replacing, Publish, Goes, TypeOK
  <2>2. q # p
    BY <1>1 DEF Replacing, Publish, Goes, TypeOK
  <2> QED BY <1>1, <2>1, <2>2, HoldersAreOne DEF Replacing, Extracting, Publish, Goes
<1>5. Replacing(p)' => ~Loads'
  BY <1>3, <1>4, EntryAppears
<1> QED BY <1>3, <1>5, EntryStays

LEMMA InvStep == IInv /\ [Next]_vars => IInv'
<1> SUFFICES ASSUME IInv, [Next]_vars PROVE IInv'
  OBVIOUS
<1>1. TypeOK /\ LockInv /\ PrivateInv
  BY DEF IInv
<1>2. ~stolen' => HolderInv' /\ EntryInv'
  BY <1>1, StolenStays, HolderStep, EntryStep
<1> QED BY <1>1, <1>2, TypeStep, PrivateStep DEF IInv

LEMMA Invariance == Spec => []IInv
BY InvInit, InvStep, PTL DEF Spec

------------------------------------------------------------------------------------
(* The theorems.                                                                    *)

\* Every variable keeps its type, and a lock file belongs to a process that is in its
\* scope or was killed there: _entry_lock's `finally` leaves none behind.
THEOREM Typing == Spec => []TypeOK
<1>1. IInv => TypeOK
  BY DEF IInv
<1> QED BY <1>1, Invariance, PTL

\* _entry_lock: as long as no live process loses its lock file, one process at a time
\* extracts the entry, whatever crashes, broken stale locks and no-op scopes there are.
THEOREM LockExcludes == Spec => []OneExtractor
<1>1. IInv => OneExtractor
  BY HoldersAreOne DEF IInv, OneExtractor
<1> QED BY <1>1, Invariance, PTL

\* prepare_cached_wheel and _extract_archive: an entry that loads is never taken away, as
\* long as no live process loses its lock file.
THEOREM EntriesStay == Spec => PublishedForGood
<1>1. IInv /\ [Next]_vars => [Loads /\ ~stolen => Loads']_vars
  BY EntryStays
<1> QED BY <1>1, Invariance, PTL DEF Spec, PublishedForGood

------------------------------------------------------------------------------------
(* What readers copy.                                                               *)

\* The directory of an extractor is complete before it is renamed, and not the one that
\* is being removed.
BuiltInv ==
    \A p \in Procs :
        /\ pc[p] \in {"removing", "unlinking", "renaming"} => content[p] = Items
        /\ pc[p] = "unlinking" => doomed[p] # p

\* What loads is complete.
WholeInv == Loads => content[entry] = Items

\* Who was told that the entry is there finds it there, and misses no member of it.
CopyInv ==
    \A p \in Procs :
        /\ pc[p] = "releasing" /\ result[p] = "loaded" => Loads
        /\ pc[p] = "copying" => Loads /\ copied[p] = Members \ left[p]
        /\ pc[p] = "installed" => copied[p] = Members
        /\ pc[p] \notin {"copying", "installed"} => copied[p] = {} /\ left[p] = Members
        /\ pc[p] # "failed"

ReadInv == BuiltInv /\ WholeInv /\ CopyInv

LEMMA ReadInit == Init => ReadInv
<1> SUFFICES ASSUME Init PROVE ReadInv
  OBVIOUS
<1>1. BuiltInv /\ WholeInv /\ CopyInv
  BY DEF Init, BuiltInv, WholeInv, CopyInv, Loads
<1> QED BY <1>1 DEF ReadInv

LEMMA BuiltStep == IInv /\ ~stolen /\ BuiltInv /\ [Next]_vars => BuiltInv'
<1> SUFFICES ASSUME IInv, ~stolen, BuiltInv, [Next]_vars PROVE BuiltInv'
  OBVIOUS
<1>1. TypeOK /\ PrivateInv /\ HolderInv
  BY DEF IInv
<1> USE <1>1, ProcsAssumption DEF TypeOK, BuiltInv, Goes, dirvars, lockvars, procvars
<1>2. ASSUME NEW p \in Procs, Prepare(p) PROVE BuiltInv'
  BY <1>2 DEF Prepare, Load, TakeLock, LockExists, EnterUnlocked, StatLock, TimeOut,
              BreakLock, Recheck, Release
<1>3. ASSUME NEW p \in Procs, ExtractStep(p) PROVE BuiltInv'
  <2>1. ASSUME NEW item \in Items, UnlinkItem(p, item) PROVE BuiltInv'
    <3>1. \A q \in Procs : pc[q] \in {"removing", "unlinking", "renaming"} => q = p
      BY <2>1, HoldersAreOne DEF UnlinkItem, Extracting
    <3> QED BY <2>1, <3>1 DEF UnlinkItem
  <2>2. CASE OpenDoomed(p)
    BY <2>2 DEF OpenDoomed, PrivateInv
  <2>3. CASE Extract(p) \/ ExtractFails(p) \/ UnlinkMisses(p) \/ RemoveDir(p)
             \/ Publish(p) \/ PublishFails(p) \/ Reload(p)
    BY <2>3 DEF Extract, ExtractFails, UnlinkMisses, RemoveDir, Publish, PublishFails, Reload
  <2> QED BY <1>3, <2>1, <2>2, <2>3 DEF ExtractStep
<1>4. ASSUME NEW p \in Procs, Copy(p) PROVE BuiltInv'
  BY <1>4 DEF Copy, CopyMember, CopyFails, Installed
<1>5. ASSUME NEW p \in Procs, Crash(p) PROVE BuiltInv'
  BY <1>5 DEF Crash
<1>6. CASE GrowStale \/ UNCHANGED vars
  BY <1>6 DEF GrowStale, vars
<1> QED BY <1>2, <1>3, <1>4, <1>5, <1>6 DEF Next, Step, Terminated

\* What is at the path changes only by the rename of a complete directory, or is not
\* loadable and stays so.
LEMMA WholeStep == IInv /\ ~stolen /\ BuiltInv /\ WholeInv /\ [Next]_vars => WholeInv'
<1> SUFFICES ASSUME IInv, ~stolen, BuiltInv, WholeInv, [Next]_vars, Loads'
             PROVE content'[entry'] = Items
  BY DEF WholeInv
<1>1. CASE \E p \in Procs : Publish(p)
  BY <1>1 DEF Publish, BuiltInv, Goes
<1>2. CASE ~\E p \in Procs : Publish(p)
  <2>1. Loads
    BY <1>2, EntryAppears
  <2>2. content[entry] = Items /\ entry \in Dirs
    BY <2>1 DEF WholeInv, Loads, IInv, TypeOK
  <2>3. \A p \in Procs : ~Replacing(p)
    BY <2>1 DEF IInv, EntryInv
  <2> USE <2>2, <2>3 DEF Replacing, Goes, dirvars, lockvars, procvars
  <2>4. ASSUME NEW p \in Procs, Prepare(p) PROVE content'[entry'] = Items
    BY <2>4 DEF Prepare, Load, TakeLock, LockExists, EnterUnlocked, StatLock, TimeOut,
                BreakLock, Recheck, Release
  <2>5. ASSUME NEW p \in Procs, ExtractStep(p) PROVE content'[entry'] = Items
    BY <2>5 DEF ExtractStep, Extract, ExtractFails, OpenDoomed, UnlinkItem, UnlinkMisses,
                RemoveDir, Publish, PublishFails, Reload
  <2>6. ASSUME NEW p \in Procs, Copy(p) PROVE content'[entry'] = Items
    BY <2>6 DEF Copy, CopyMember, CopyFails, Installed
  <2>7. CASE (\E p \in Procs : Crash(p)) \/ GrowStale \/ UNCHANGED vars
    BY <2>7 DEF Crash, GrowStale, vars
  <2> QED BY <2>4, <2>5, <2>6, <2>7 DEF Next, Step, Terminated
<1> QED BY <1>1, <1>2

LEMMA CopyStep == IInv /\ ~stolen /\ WholeInv /\ CopyInv /\ [Next]_vars => CopyInv'
<1> SUFFICES ASSUME IInv, ~stolen, WholeInv, CopyInv, [Next]_vars PROVE CopyInv'
  OBVIOUS
<1>1. TypeOK
  BY DEF IInv
<1>2. Loads => Loads'
  BY EntryStays
<1>3. \A m \in Members : Loads => Present(m)
  BY DEF WholeInv, Loads, Present
<1> USE <1>1, <1>2 DEF TypeOK, CopyInv, Goes, dirvars, lockvars, procvars
<1>4. ASSUME NEW p \in Procs, Prepare(p) PROVE CopyInv'
  BY <1>4 DEF Prepare, Load, TakeLock, LockExists, EnterUnlocked, StatLock, TimeOut,
              BreakLock, Recheck, Release
<1>5. ASSUME NEW p \in Procs, ExtractStep(p) PROVE CopyInv'
  BY <1>5 DEF ExtractStep, Extract, ExtractFails, Raises, OpenDoomed, UnlinkItem,
              UnlinkMisses, RemoveDir, Publish, PublishFails, Reload
<1>6. ASSUME NEW p \in Procs, Copy(p) PROVE CopyInv'
  <2>1. ASSUME NEW m \in Members, CopyMember(p, m) PROVE CopyInv'
    BY <1>3, <2>1 DEF CopyMember
  <2>2. ASSUME NEW m \in Members, CopyFails(p, m) PROVE FALSE
    BY <1>3, <2>2 DEF CopyFails
  <2>3. CASE Installed(p)
    BY <2>3 DEF Installed
  <2> QED BY <1>6, <2>1, <2>2, <2>3 DEF Copy
<1>7. ASSUME NEW p \in Procs, Crash(p) PROVE CopyInv'
  BY <1>7 DEF Crash
<1>8. CASE GrowStale \/ UNCHANGED vars
  BY <1>8 DEF GrowStale, vars
<1> QED BY <1>4, <1>5, <1>6, <1>7, <1>8 DEF Next, Step, Terminated

\* clone_path and _extract_archive: whoever installs from the cache has copied every
\* member, and no copy fails for a file that went away, as long as no live process loses
\* its lock file.
THEOREM ReadersSeeAll == Spec => []InstalledWhole
<1>1. Init => (~stolen => ReadInv)
  BY ReadInit
<1>2. IInv /\ (~stolen => ReadInv) /\ [Next]_vars => (~stolen => ReadInv)'
  <2> SUFFICES ASSUME IInv, ~stolen => ReadInv, [Next]_vars, ~stolen' PROVE ReadInv'
    OBVIOUS
  <2>1. ~stolen /\ ReadInv
    BY StolenStays DEF IInv
  <2> QED BY <2>1, BuiltStep, WholeStep, CopyStep DEF ReadInv
<1>3. (~stolen => ReadInv) => InstalledWhole
  BY DEF ReadInv, CopyInv, InstalledWhole
<1> QED BY <1>1, <1>2, <1>3, Invariance, PTL DEF Spec

------------------------------------------------------------------------------------
(* What a removal leaves.                                                           *)

\* Locks may be stolen. A directory that looks loadable and is not whole is being removed, or its
\* removal was cut short by a crash; a process that removes something knows what.
RemovalInv ==
    /\ \A p \in Procs : doomed[p] # NoDir => pc[p] \in {"unlinking", "crashed"}
    /\ \A p \in Procs : pc[p] = "unlinking" => doomed[p] # NoDir
    /\ \A d \in Dirs : {"tree", "manifest"} \subseteq content[d]
            => content[d] = Items \/ \E p \in Procs : doomed[p] = d

LEMMA RemovalInit == Init => RemovalInv
<1> SUFFICES ASSUME Init PROVE RemovalInv
  OBVIOUS
<1>1. \A d \in Dirs : {"tree", "manifest"} \subseteq content[d] => content[d] = Items
  BY DEF Init
<1> QED BY <1>1 DEF Init, RemovalInv

LEMMA RemovalStep == TypeOK /\ RemovalInv /\ [Next]_vars => RemovalInv'
<1> SUFFICES ASSUME TypeOK, RemovalInv, [Next]_vars PROVE RemovalInv'
  OBVIOUS
<1> USE ProcsAssumption DEF TypeOK, RemovalInv, Goes, dirvars, lockvars, procvars
<1>1. ASSUME NEW p \in Procs, Prepare(p) PROVE RemovalInv'
  BY <1>1 DEF Prepare, Load, TakeLock, LockExists, EnterUnlocked, StatLock, TimeOut,
              BreakLock, Recheck, Release
<1>2. ASSUME NEW p \in Procs, ExtractStep(p) PROVE RemovalInv'
  <2>1. CASE Extract(p)
    BY <2>1 DEF Extract
  <2>2. CASE ExtractFails(p) \/ Publish(p) \/ PublishFails(p) \/ Reload(p)
    BY <2>2 DEF ExtractFails, Publish, PublishFails, Reload
  <2>3. CASE OpenDoomed(p)
    BY <2>3 DEF OpenDoomed
  <2>4. ASSUME NEW item \in Items, UnlinkItem(p, item) PROVE RemovalInv'
    BY <2>4 DEF UnlinkItem
  <2>5. CASE UnlinkMisses(p)
    BY <2>5 DEF UnlinkMisses
  <2>6. CASE RemoveDir(p)
    BY <2>6 DEF RemoveDir
  <2> QED BY <1>2, <2>1, <2>2, <2>3, <2>4, <2>5, <2>6 DEF ExtractStep
<1>3. ASSUME NEW p \in Procs, Copy(p) \/ Crash(p) PROVE RemovalInv'
  BY <1>3 DEF Copy, CopyMember, CopyFails, Installed, Crash
<1>4. CASE GrowStale \/ UNCHANGED vars
  BY <1>4 DEF GrowStale, vars
<1> QED BY <1>1, <1>2, <1>3, <1>4 DEF Next, Step, Terminated

\* _remove_cache_path and the rename that publishes: also when locks are stolen and several processes
\* remove and publish at once, what loads in the end is whole, unless a removal was cut short by a crash.
THEOREM EndsWhole == Spec => []EndsMissOrWhole
<1>1. TypeOK /\ RemovalInv => EndsMissOrWhole
  BY DEF TypeOK, RemovalInv, EndsMissOrWhole, Loads
<1>2. RemovalInv /\ TypeOK /\ [Next]_vars => RemovalInv'
  BY RemovalStep
<1> QED BY <1>1, <1>2, RemovalInit, Typing, PTL DEF Spec
=================================================================================
