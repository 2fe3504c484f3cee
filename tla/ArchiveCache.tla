------------------------------ MODULE ArchiveCache ------------------------------
(* One entry of the wheel archive cache (install/wheel_archive_cache.py) and the     *)
(* processes that prepare it and install from it: the O_EXCL lock file with its wait, *)
(* its timeout and its stale rule, the extraction into a temporary directory, the    *)
(* removal of what is at the entry's path and the rename that publishes the new       *)
(* directory, and the copy of the tree into an install stage.                        *)
(*                                                                                   *)
(* A directory keeps its identity when it is renamed and while rmtree empties it.    *)
(* Process p extracts into the directory named p.                                    *)
EXTENDS Naturals, FiniteSets

CONSTANTS
    Procs,          \* processes, each prepares the entry once
    Members,        \* members of the wheel
    First,          \* the directory that may be at the entry's path at first
    NoDir, NoProc,
    MayCrash,       \* may a process be killed?
    SlowHolders     \* may a live process hold the lock for more than 300 s?

ASSUME ProcsAssumption == First \notin Procs /\ NoDir \notin Procs \cup {First} /\ NoProc \notin Procs
ASSUME MembersAssumption == "tree" \notin Members /\ "manifest" \notin Members
ASSUME TimingAssumption == MayCrash \in BOOLEAN /\ SlowHolders \in BOOLEAN

Dirs == Procs \cup {First}
Items == Members \cup {"tree", "manifest"}    \* what a whole directory contains

VARIABLES
    entry,      \* the directory at the entry's path
    content,    \* the items of every directory
    lock,       \* the process whose lock file is there
    stale,      \* the lock file is older than 300 s
    pc,         \* where each process is
    locked,     \* the process created a lock file (and not the no-op scope)
    doomed,     \* the directory a process is removing
    result,     \* what prepare_cached_wheel returns: "loaded", "raised" or "none" so far
    copied,     \* members a process has copied into its stage
    left,       \* members its copy has not reached
    stolen      \* a lock file of a live process was unlinked by another one

dirvars == <<entry, content>>
lockvars == <<lock, stale, stolen>>
procvars == <<pc, locked, doomed, result, copied, left>>
vars == <<dirvars, lockvars, procvars>>

Waiting == {"locking", "held", "stat", "breaking"}
Scope == {"checking", "extracting", "removing", "unlinking", "renaming", "reloading",
          "releasing"}
Ended == {"installed", "failed", "declined", "crashed"}

TypeOK ==
    /\ entry \in Dirs \cup {NoDir}
    /\ content \in [Dirs -> SUBSET Items]
    /\ lock \in Procs \cup {NoProc}
    /\ stale \in BOOLEAN /\ stolen \in BOOLEAN
    /\ lock # NoProc => pc[lock] \in Scope \cup {"crashed"}    \* no lock file is left behind
    /\ pc \in [Procs -> {"loading", "copying"} \cup Waiting \cup Scope \cup Ended]
    /\ locked \in [Procs -> BOOLEAN]
    /\ doomed \in [Procs -> Dirs \cup {NoDir}]
    /\ result \in [Procs -> {"none", "loaded", "raised"}]
    /\ copied \in [Procs -> SUBSET Members]
    /\ left \in [Procs -> SUBSET Members]

\* Mutant of Loads: the manifest is enough.
LoadsByManifest == entry # NoDir /\ "manifest" \in content[entry]

\* load_archive looks at the manifest and for the directory "tree", not into the tree.
Loads == entry # NoDir /\ {"tree", "manifest"} \subseteq content[entry]

\* Nothing, a whole entry, or one without a usable manifest or tree.
Init ==
    /\ entry \in {NoDir, First}
    /\ content \in [Dirs -> SUBSET Items]
    /\ \A p \in Procs : content[p] = {}
    /\ content[First] \cap Members # {} => "tree" \in content[First]
    /\ entry = NoDir => content[First] = {}
    /\ {"tree", "manifest"} \subseteq content[First] => content[First] = Items
    /\ lock = NoProc /\ stale = FALSE /\ stolen = FALSE
    /\ pc = [p \in Procs |-> "loading"]
    /\ locked = [p \in Procs |-> FALSE]
    /\ doomed = [p \in Procs |-> NoDir]
    /\ result = [p \in Procs |-> "none"]
    /\ copied = [p \in Procs |-> {}]
    /\ left = [p \in Procs |-> Members]

\* What os.rename of a directory may replace: nothing, or an empty directory.
Vacant == entry # NoDir => content[entry] = {}

Goes(p, from, to) == pc[p] = from /\ pc' = [pc EXCEPT ![p] = to]

------------------------------------------------------------------------------------
(* prepare_cached_wheel and _entry_lock.                                            *)

Load(p) ==
    /\ Goes(p, "loading", IF Loads THEN "copying" ELSE "locking")
    /\ UNCHANGED <<dirvars, lockvars, locked, doomed, result, copied, left>>

\* Mutant of TakeLock: os.open(O_CREAT) without O_EXCL.
TakeLockShared(p) ==
    /\ Goes(p, "locking", "checking")
    /\ lock' = p /\ stale' = FALSE
    /\ locked' = [locked EXCEPT ![p] = TRUE]
    /\ UNCHANGED <<dirvars, stolen, doomed, result, copied, left>>

\* os.open(O_CREAT | O_EXCL).
TakeLock(p) ==
    /\ lock = NoProc
    /\ Goes(p, "locking", "checking")
    /\ lock' = p /\ stale' = FALSE
    /\ locked' = [locked EXCEPT ![p] = TRUE]
    /\ UNCHANGED <<dirvars, stolen, doomed, result, copied, left>>

LockExists(p) ==
    /\ lock # NoProc
    /\ Goes(p, "locking", "held")
    /\ UNCHANGED <<dirvars, lockvars, locked, doomed, result, copied, left>>

\* The no-op lock scope, when another process has published the entry.
EnterUnlocked(p) ==
    /\ Goes(p, "held", IF Loads THEN "checking" ELSE "stat")
    /\ UNCHANGED <<dirvars, lockvars, locked, doomed, result, copied, left>>

\* Sleeping leads back to the next attempt.
StatLock(p) ==
    /\ Goes(p, "stat", IF lock # NoProc /\ stale THEN "breaking" ELSE "locking")
    /\ UNCHANGED <<dirvars, lockvars, locked, doomed, result, copied, left>>

\* After 30 s of a fresh lock: OSError(EBUSY), and the install takes another route.
TimeOut(p) ==
    /\ lock # NoProc /\ ~stale
    /\ Goes(p, "stat", "declined")
    /\ UNCHANGED <<dirvars, lockvars, locked, doomed, result, copied, left>>

\* os.unlink of a lock file, by p, whoever created it meanwhile.
Unlink(p) ==
    /\ lock' = NoProc /\ stale' = FALSE
    /\ stolen' = (stolen \/ (lock \notin {p, NoProc} /\ pc[lock] \in Scope))

\* Mutant of BreakLock: the stale lock file is left where it is.
RetryStaleLock(p) ==
    /\ Goes(p, "breaking", "locking")
    /\ UNCHANGED <<dirvars, lockvars, locked, doomed, result, copied, left>>

BreakLock(p) ==
    /\ Goes(p, "breaking", "locking")
    /\ Unlink(p)
    /\ UNCHANGED <<dirvars, locked, doomed, result, copied, left>>

\* Mutant of Recheck: whoever enters the scope extracts.
ExtractAnyway(p) ==
    /\ Goes(p, "checking", "extracting")
    /\ UNCHANGED <<dirvars, lockvars, locked, doomed, result, copied, left>>

\* The second load_archive, inside the scope.
Recheck(p) ==
    /\ Goes(p, "checking", IF Loads THEN "releasing" ELSE "extracting")
    /\ result' = [result EXCEPT ![p] = IF Loads THEN "loaded" ELSE @]
    /\ UNCHANGED <<dirvars, lockvars, locked, doomed, copied, left>>

\* Mutant of Release: the unlink is not in a `finally`.
ReleaseOnSuccess(p) ==
    /\ Goes(p, "releasing", IF result[p] = "loaded" THEN "copying" ELSE "declined")
    /\ IF locked[p] /\ result[p] = "loaded" THEN Unlink(p) ELSE UNCHANGED lockvars
    /\ locked' = [locked EXCEPT ![p] = FALSE]
    /\ UNCHANGED <<dirvars, doomed, result, copied, left>>

\* Leaving the scope: `finally: os.unlink(path)`, or nothing when no lock was taken.
Release(p) ==
    /\ Goes(p, "releasing", IF result[p] = "loaded" THEN "copying" ELSE "declined")
    /\ IF locked[p] THEN Unlink(p) ELSE UNCHANGED lockvars
    /\ locked' = [locked EXCEPT ![p] = FALSE]
    /\ UNCHANGED <<dirvars, doomed, result, copied, left>>

------------------------------------------------------------------------------------
(* _extract_archive.                                                                *)

Raises(p) == result' = [result EXCEPT ![p] = "raised"]

\* mkdtemp, the members, then the manifest: nobody else knows the directory.
Extract(p) ==
    /\ Goes(p, "extracting", "removing")
    /\ content' = [content EXCEPT ![p] = Items]
    /\ UNCHANGED <<entry, lockvars, locked, doomed, result, copied, left>>

\* A bad member, a full disk; the temporary directory is removed.
ExtractFails(p) ==
    /\ Goes(p, "extracting", "releasing")
    /\ Raises(p)
    /\ UNCHANGED <<dirvars, lockvars, locked, doomed, copied, left>>

\* _remove_cache_path: rmtree opens what is at the path now.
OpenDoomed(p) ==
    /\ Goes(p, "removing", IF entry = NoDir THEN "renaming" ELSE "unlinking")
    /\ doomed' = [doomed EXCEPT ![p] = entry]
    /\ UNCHANGED <<dirvars, lockvars, locked, result, copied, left>>

\* Mutant of UnlinkItem: rmtree by path, where it does not work on descriptors: what
\* it unlinks is at the entry's path by now.
UnlinkItemByPath(p, item) ==
    /\ pc[p] = "unlinking" /\ entry # NoDir /\ item \in content[entry]
    /\ item = "tree" => content[entry] \cap Members = {}
    /\ content' = [content EXCEPT ![entry] = @ \ {item}]
    /\ UNCHANGED <<entry, lockvars, procvars>>

\* rmtree unlinks the items in any order, the members before the directory "tree".
UnlinkItem(p, item) ==
    /\ pc[p] = "unlinking" /\ item \in content[doomed[p]]
    /\ item = "tree" => content[doomed[p]] \cap Members = {}
    /\ content' = [content EXCEPT ![doomed[p]] = @ \ {item}]
    /\ UNCHANGED <<entry, lockvars, procvars>>

\* Another rmtree of the same directory got there first: FileNotFoundError, ignored.
UnlinkMisses(p) ==
    /\ \E q \in Procs \ {p} : doomed[q] = doomed[p]
    /\ Goes(p, "unlinking", "renaming")
    /\ doomed' = [doomed EXCEPT ![p] = NoDir]
    /\ UNCHANGED <<dirvars, lockvars, locked, result, copied, left>>

\* The final rmdir goes by path: it may meet another process's directory there.
RemoveDir(p) ==
    /\ pc[p] = "unlinking" /\ content[doomed[p]] = {}
    /\ doomed' = [doomed EXCEPT ![p] = NoDir]
    /\ IF Vacant
         THEN Goes(p, "unlinking", "renaming") /\ entry' = NoDir /\ UNCHANGED result
         ELSE Goes(p, "unlinking", "releasing") /\ Raises(p) /\ UNCHANGED entry
    /\ UNCHANGED <<content, lockvars, locked, copied, left>>

Publish(p) ==
    /\ Vacant
    /\ Goes(p, "renaming", "reloading")
    /\ entry' = p
    /\ UNCHANGED <<content, lockvars, locked, doomed, result, copied, left>>

\* ENOTEMPTY; the temporary directory is removed.
PublishFails(p) ==
    /\ ~Vacant
    /\ Goes(p, "renaming", "releasing")
    /\ Raises(p)
    /\ UNCHANGED <<dirvars, lockvars, locked, doomed, copied, left>>

\* The load that _extract_archive ends with; EIO when it finds nothing.
Reload(p) ==
    /\ Goes(p, "reloading", "releasing")
    /\ result' = [result EXCEPT ![p] = IF Loads THEN "loaded" ELSE "raised"]
    /\ UNCHANGED <<dirvars, lockvars, locked, doomed, copied, left>>

------------------------------------------------------------------------------------
(* clone_path of the tree into the stage, by path, without the lock.                *)

Present(m) == entry # NoDir /\ {"tree", m} \subseteq content[entry]

CopyMember(p, m) ==
    /\ pc[p] = "copying" /\ m \in left[p]
    /\ left' = [left EXCEPT ![p] = @ \ {m}]
    /\ copied' = [copied EXCEPT ![p] = IF Present(m) THEN @ \cup {m} ELSE @]
    /\ UNCHANGED <<dirvars, lockvars, pc, locked, doomed, result>>

\* A file goes between the listing of its directory and its copy, or the tree is gone.
CopyFails(p, m) ==
    /\ m \in left[p] /\ ~Present(m)
    /\ Goes(p, "copying", "failed")
    /\ UNCHANGED <<dirvars, lockvars, locked, doomed, result, copied, left>>

Installed(p) ==
    /\ left[p] = {}
    /\ Goes(p, "copying", "installed")
    /\ UNCHANGED <<dirvars, lockvars, locked, doomed, result, copied, left>>

------------------------------------------------------------------------------------
(* Time and crashes.                                                                *)

\* A live holder that takes more than 300 s: a huge wheel, a suspended machine.
GrowStale ==
    /\ lock # NoProc /\ ~stale
    /\ SlowHolders \/ pc[lock] = "crashed"
    /\ stale' = TRUE
    /\ UNCHANGED <<dirvars, lock, stolen, procvars>>

\* The lock file, the temporary directory and the entry stay as they are.
Crash(p) ==
    /\ MayCrash
    /\ pc[p] \in Scope
    /\ pc' = [pc EXCEPT ![p] = "crashed"]
    /\ UNCHANGED <<dirvars, lockvars, locked, doomed, result, copied, left>>

------------------------------------------------------------------------------------
Prepare(p) ==
    \/ Load(p) \/ TakeLock(p) \/ LockExists(p) \/ EnterUnlocked(p) \/ StatLock(p)
    \/ TimeOut(p) \/ BreakLock(p) \/ Recheck(p) \/ Release(p)

ExtractStep(p) ==
    \/ Extract(p) \/ ExtractFails(p) \/ OpenDoomed(p)
    \/ \E item \in Items : UnlinkItem(p, item)
    \/ UnlinkMisses(p) \/ RemoveDir(p) \/ Publish(p) \/ PublishFails(p) \/ Reload(p)

Copy(p) == (\E m \in Members : CopyMember(p, m) \/ CopyFails(p, m)) \/ Installed(p)

Step(p) == Prepare(p) \/ ExtractStep(p) \/ Copy(p)

Terminated == (\A p \in Procs : pc[p] \in Ended) /\ UNCHANGED vars

Next ==
    \/ \E p \in Procs : Step(p) \/ Crash(p)
    \/ GrowStale \/ Terminated

\* Every process that is not killed runs, and a lock file left behind grows old.
Fairness ==
    /\ \A p \in Procs : WF_vars(Step(p))
    /\ WF_vars(GrowStale)

Spec == Init /\ [][Next]_vars /\ Fairness

------------------------------------------------------------------------------------
(* Properties.                                                                      *)

Extracting(p) == pc[p] \in Scope \ {"checking", "releasing"}

\* _entry_lock: as long as no live process loses its lock file to another one, one
\* process at a time extracts, also after crashes, broken stale locks and no-op scopes.
OneExtractor ==
    ~stolen => \A p, q \in Procs : Extracting(p) /\ Extracting(q) => p = q

\* _extract_archive publishes with one rename: as long as no lock is stolen, whoever
\* installs from the cache has copied every member.
InstalledWhole ==
    ~stolen => \A p \in Procs : /\ pc[p] = "installed" => copied[p] = Members
                                /\ pc[p] # "failed"

\* Locks may be stolen, two processes may remove and publish at once: when all is
\* quiet, the entry is a miss or whole, unless a removal was cut short by a crash.
EndsMissOrWhole ==
    /\ \A p \in Procs : pc[p] \in Ended
    /\ \A p \in Procs : pc[p] = "crashed" => doomed[p] = NoDir
    /\ Loads
    => content[entry] = Items

\* load_archive of a published entry: it stays until a process that holds no claim on
\* the entry any more removes it.
PublishedForGood == [][Loads /\ ~stolen => Loads']_vars

\* The wait of _entry_lock is bounded and a crashed holder's lock is broken: whatever
\* happens, every process ends.
EveryCallEnds == <>(\A p \in Procs : pc[p] \in Ended)

------------------------------------------------------------------------------------
(* What the code does not keep.                                                     *)

\* "Entries are published only after validation, atomically; readers never see a
\* partial write."
ReadersSeeWhole == \A p \in Procs : pc[p] = "installed" => copied[p] = Members
====================================================================================
