------------------------------- MODULE TargetSwap -------------------------------
(* install_wheels_from_archive_cache: a target directory is cloned into a stage next   *)
(* to it, the old distributions are removed from the stage and the cached trees       *)
(* cloned into it, and the stage takes the place of the target with two renames.      *)
(* Several processes may install into one target; nothing locks it. A process that    *)
(* declines (None) goes on to the staged route, which writes into the target in place: *)
(* one step here.                                                                      *)
(*                                                                                     *)
(* A directory keeps its identity when it is renamed. Process p stages in directory p. *)
EXTENDS Naturals, FiniteSets, SequencesExt

CONSTANTS
    Procs,          \* processes, each of which makes one call
    Dists,          \* distributions
    Versions,       \* versions of a distribution
    Absent,         \* the version of a distribution that is not installed
    Requests,       \* the wheels that a process may be asked to install
    Target, NoDir,  \* the directory that may be the target at first
    FaultKinds      \* which faults may happen, out of AllFaults

AllFaults ==
    { "error",      \* a call raises OSError: a full disk, a bad entry point
      "interrupt",  \* KeyboardInterrupt where the code is ready for it
      "gap",        \* KeyboardInterrupt between the first rename and the `try`, or again
                    \* in the handler
      "restore",    \* the rename that puts the old target back raises as well
      "crash" }     \* the process is killed

ASSUME ProcsAssumption == Target \notin Procs /\ NoDir \notin Procs \cup {Target}
ASSUME VersionsAssumption == Absent \notin Versions
ASSUME FaultAssumption == FaultKinds \subseteq AllFaults

Held == Versions \cup {Absent}
Wheels == [dist : Dists, version : Versions]
ASSUME RequestsAssumption == Requests \in [Procs -> SUBSET Wheels]
ASSUME NoDirAssumption == NoDir \notin [Dists -> Held]

Dirs == Procs \cup {Target}

VARIABLES
    root,       \* the directory at the target's path
    content,    \* the version (or Absent) of every distribution in every directory
    previous,   \* the directory a process keeps as "previous" in its staging parent
    pc,         \* where each process is
    wheel,      \* the wheel a call installs; chosen at first
    existed,    \* root_existed
    found,      \* the version a process discovered in the target
    left,       \* distributions its clone of the target has not reached
    result,     \* "none", "returned", "declined" or "raised"
    origin,     \* what the target held at first; NoDir when there was none
    begun,      \* the processes in the order of their calls
    overlapped, \* two processes have been at work at the same time
    hit         \* the faults that happened

local == <<wheel, existed, found, left, result>>
ghost == <<origin, begun, overlapped, hit>>
vars == <<root, content, previous, pc, local, ghost>>

Empty == [d \in Dists |-> Absent]

TypeOK ==
    /\ root \in Dirs \cup {NoDir}
    /\ content \in [Dirs -> [Dists -> Held]]
    /\ previous \in [Procs -> Dirs \cup {NoDir}]
    /\ \A p \in Procs : previous[p] # NoDir => previous[p] # root
    /\ pc \in [Procs -> {"idle", "cloning", "discovering", "removing", "filling", "checking",
                         "moving", "swapout", "swapin", "restoring", "dropping", "leaving",
                         "fallback", "ended", "crashed"}]
    /\ wheel \in [Procs -> Wheels]
    /\ existed \in [Procs -> BOOLEAN]
    /\ found \in [Procs -> Held]
    /\ left \in [Procs -> SUBSET Dists]
    /\ result \in [Procs -> {"none", "returned", "declined", "raised"}]
    /\ origin \in [Dists -> Held] \cup {NoDir}
    /\ begun \in Seq(Procs)
    /\ overlapped \in BOOLEAN
    /\ hit \subseteq AllFaults

Init ==
    /\ root \in {Target, NoDir}
    /\ \E c \in [Dists -> Held] :
          /\ root = NoDir => c = Empty
          /\ content = [d \in Dirs |-> IF d = Target THEN c ELSE Empty]
          /\ origin = IF root = NoDir THEN NoDir ELSE c
    /\ previous = [p \in Procs |-> NoDir]
    /\ pc = [p \in Procs |-> "idle"]
    /\ wheel \in [Procs -> Wheels] /\ \A p \in Procs : wheel[p] \in Requests[p]
    /\ existed = [p \in Procs |-> FALSE]
    /\ found = [p \in Procs |-> Absent]
    /\ left = [p \in Procs |-> {}]
    /\ result = [p \in Procs |-> "none"]
    /\ begun = <<>> /\ overlapped = FALSE /\ hit = {}

Goes(p, from, to) == pc[p] = from /\ pc' = [pc EXCEPT ![p] = to]
Answers(p, r) == result' = [result EXCEPT ![p] = r]
AtWork(p) == pc[p] \notin {"idle", "ended", "crashed"}

Listed(d) == {k \in Dists : content[d][k] # Absent}

\* os.rename of a directory replaces nothing but an empty directory.
Vacant == root # NoDir => Listed(root) = {}

------------------------------------------------------------------------------------
(* Building the stage.                                                              *)

Begin(p) ==
    /\ Goes(p, "idle", IF root # NoDir THEN "cloning" ELSE "filling")
    /\ existed' = [existed EXCEPT ![p] = root # NoDir]
    /\ left' = [left EXCEPT ![p] = IF root = NoDir THEN {} ELSE Listed(root)]
    /\ begun' = Append(begun, p)
    /\ overlapped' = (overlapped \/ \E q \in Procs : AtWork(q))
    /\ UNCHANGED <<root, content, previous, wheel, found, result, origin, hit>>

Stages(p, k, v) == content' = [content EXCEPT ![p][k] = v]
InRoot(k) == IF root = NoDir THEN Absent ELSE content[root][k]

\* clone_path lists a directory once, and opens what it copies by path.
CloneNext(p, k) ==
    /\ pc[p] = "cloning" /\ k \in left[p]
    /\ IF InRoot(k) = Absent
         THEN Goes(p, "cloning", "leaving") /\ Answers(p, "raised") /\ UNCHANGED <<content, left>>
         ELSE /\ Stages(p, k, InRoot(k))
              /\ left' = [left EXCEPT ![p] = @ \ {k}]
              /\ UNCHANGED <<pc, result>>
    /\ UNCHANGED <<root, previous, wheel, existed, found, ghost>>

CloneDone(p) ==
    /\ left[p] = {}
    /\ Goes(p, "cloning", "discovering")
    /\ UNCHANGED <<root, content, previous, local, ghost>>

\* discover_installed_wheels reads the target, not the stage.
Discover(p) ==
    /\ Goes(p, "discovering", "removing")
    /\ found' = [found EXCEPT ![p] = InRoot(wheel[p].dist)]
    /\ UNCHANGED <<root, content, previous, wheel, existed, left, result, ghost>>

\* Mutant of AlreadyThere: any version of the distribution will do.
AlreadyThereByName(p) ==
    /\ InRoot(wheel[p].dist) # Absent
    /\ Goes(p, "discovering", "leaving")
    /\ Answers(p, "returned")
    /\ UNCHANGED <<root, content, previous, wheel, existed, found, left, ghost>>

\* The version is there already, and the caller did not ask to force it.
AlreadyThere(p) ==
    /\ InRoot(wheel[p].dist) = wheel[p].version
    /\ Goes(p, "discovering", "leaving")
    /\ Answers(p, "returned")
    /\ UNCHANGED <<root, content, previous, wheel, existed, found, left, ghost>>

\* An unrelated file is in the way, or a removal is outside the target.
Decline(p) ==
    /\ Goes(p, "discovering", "leaving")
    /\ Answers(p, "declined")
    /\ UNCHANGED <<root, content, previous, wheel, existed, found, left, ghost>>

\* _remove_stage_files: the files of the version that was discovered.
RemoveOld(p) ==
    /\ Goes(p, "removing", "filling")
    /\ IF content[p][wheel[p].dist] = found[p]
         THEN Stages(p, wheel[p].dist, Absent)
         ELSE UNCHANGED content
    /\ UNCHANGED <<root, previous, local, ghost>>

\* Mutant of Fill: the results of pool.map are not awaited.
FillUnawaited(p) ==
    /\ Goes(p, "filling", "checking")
    /\ content[p][wheel[p].dist] = Absent
    /\ UNCHANGED <<root, content, previous, local, ghost>>

\* clone_path, _relocate_data and _finalize_wheel; a file in the way raises.
Fill(p) ==
    /\ IF content[p][wheel[p].dist] = Absent
         THEN /\ Goes(p, "filling", "checking")
              /\ Stages(p, wheel[p].dist, wheel[p].version)
              /\ UNCHANGED result
         ELSE Goes(p, "filling", "leaving") /\ Answers(p, "raised") /\ UNCHANGED content
    /\ UNCHANGED <<root, previous, wheel, existed, found, left, ghost>>

------------------------------------------------------------------------------------
(* The swap.                                                                        *)

\* os.path.lexists(root) != root_existed.
Check(p) ==
    /\ IF (root # NoDir) = existed[p]
         THEN Goes(p, "checking", IF existed[p] THEN "swapout" ELSE "moving") /\ UNCHANGED result
         ELSE Goes(p, "checking", "leaving") /\ Answers(p, "declined")
    /\ UNCHANGED <<root, content, previous, wheel, existed, found, left, ghost>>

\* os.rename(stage, root) where there was no target.
MoveNew(p) ==
    /\ IF Vacant
         THEN root' = p /\ Goes(p, "moving", "leaving") /\ Answers(p, "returned")
         ELSE Goes(p, "moving", "leaving") /\ Answers(p, "raised") /\ UNCHANGED root
    /\ UNCHANGED <<content, previous, wheel, existed, found, left, ghost>>

\* Mutant of SwapOut: the old target is removed rather than kept.
SwapOutForGood(p) ==
    /\ root # NoDir
    /\ Goes(p, "swapout", "swapin")
    /\ root' = NoDir
    /\ UNCHANGED <<content, previous, wheel, existed, found, left, result, ghost>>

\* os.rename(root, backup): fails when another process has just moved it away.
SwapOut(p) ==
    /\ IF root # NoDir
         THEN /\ Goes(p, "swapout", "swapin")
              /\ previous' = [previous EXCEPT ![p] = root]
              /\ root' = NoDir /\ UNCHANGED result
         ELSE Goes(p, "swapout", "leaving") /\ Answers(p, "raised") /\ UNCHANGED <<root, previous>>
    /\ UNCHANGED <<content, wheel, existed, found, left, ghost>>

\* os.rename(stage, root), inside the `try`.
SwapIn(p) ==
    /\ IF Vacant
         THEN root' = p /\ Goes(p, "swapin", "dropping") /\ Answers(p, "returned")
         ELSE Goes(p, "swapin", "restoring") /\ Answers(p, "raised") /\ UNCHANGED root
    /\ UNCHANGED <<content, previous, wheel, existed, found, left, ghost>>

\* Mutant of PutBack: the old target is copied back, and the copy kept is the target.
PutBackShared(p) ==
    /\ Goes(p, "restoring", "leaving")
    /\ root' = IF Vacant THEN previous[p] ELSE root
    /\ UNCHANGED <<content, previous, local, ghost>>

\* `except BaseException: os.rename(backup, root)`: fails when another process has put a
\* target there. RestoreFails has the other reasons.
PutBack(p) ==
    /\ Goes(p, "restoring", "leaving")
    /\ IF Vacant
         THEN root' = previous[p] /\ previous' = [previous EXCEPT ![p] = NoDir]
         ELSE UNCHANGED <<root, previous>>
    /\ UNCHANGED <<content, local, ghost>>

\* rmtree(backup).
Drop(p) ==
    /\ Goes(p, "dropping", "leaving")
    /\ previous' = [previous EXCEPT ![p] = NoDir]
    /\ UNCHANGED <<root, content, local, ghost>>

\* `finally`: rmtree of the staging parent, "previous" included.
CleanUp(p) ==
    /\ Goes(p, "leaving", IF result[p] = "declined" THEN "fallback" ELSE "ended")
    /\ previous' = [previous EXCEPT ![p] = NoDir]
    /\ UNCHANGED <<root, content, local, ghost>>

\* The staged route (BatchInstall), which makes the target when there is none. It may
\* refuse an unrelated file.
Fallback(p) ==
    /\ Goes(p, "fallback", "ended")
    /\ \/ /\ Answers(p, "returned")
          /\ IF root = NoDir
               THEN /\ root' = p
                    /\ content' = [content EXCEPT ![p] = [Empty EXCEPT ![wheel[p].dist] = wheel[p].version]]
               ELSE /\ content' = [content EXCEPT ![root][wheel[p].dist] = wheel[p].version]
                    /\ UNCHANGED root
       \/ Answers(p, "raised") /\ UNCHANGED <<root, content>>
    /\ UNCHANGED <<previous, wheel, existed, found, left, ghost>>

------------------------------------------------------------------------------------
(* Faults.                                                                          *)

Injected(fault) ==
    /\ fault \in FaultKinds /\ hit' = hit \cup {fault}
    /\ UNCHANGED <<origin, begun, overlapped>>

Building == {"cloning", "discovering", "removing", "filling", "checking"}

\* Mutant of CallFails: the second rename is outside the `try`.
CallFailsUnguarded(p) ==
    /\ Injected("error")
    /\ \E at \in Building \cup {"moving", "swapout", "swapin"} : Goes(p, at, "leaving")
    /\ Answers(p, "raised")
    /\ UNCHANGED <<root, content, previous, wheel, existed, found, left>>

\* A call raises. The rename in the `try` is undone, everything else only leaves.
CallFails(p) ==
    /\ Injected("error")
    /\ \/ \E at \in Building \cup {"moving", "swapout"} : Goes(p, at, "leaving")
       \/ Goes(p, "swapin", "restoring")
    /\ Answers(p, "raised")
    /\ UNCHANGED <<root, content, previous, wheel, existed, found, left>>

\* The rename back raises: the `finally` goes on to remove the old target with the rest.
RestoreFails(p) ==
    /\ Injected("restore")
    /\ Goes(p, "restoring", "leaving")
    /\ UNCHANGED <<root, content, previous, local>>

Interrupt(p) ==
    /\ Injected("interrupt")
    /\ \/ \E at \in Building \cup {"moving", "swapout", "dropping"} : Goes(p, at, "leaving")
       \/ Goes(p, "swapin", "restoring")
    /\ Answers(p, "raised")
    /\ UNCHANGED <<root, content, previous, wheel, existed, found, left>>

InterruptInGap(p) ==
    /\ Injected("gap")
    /\ \E at \in {"swapin", "restoring"} : Goes(p, at, "leaving")
    /\ Answers(p, "raised")
    /\ UNCHANGED <<root, content, previous, wheel, existed, found, left>>

Crash(p) ==
    /\ Injected("crash")
    /\ AtWork(p) /\ pc[p] # "fallback"
    /\ pc' = [pc EXCEPT ![p] = "crashed"]
    /\ UNCHANGED <<root, content, previous, local>>

------------------------------------------------------------------------------------
Step(p) ==
    \/ Begin(p) \/ CloneDone(p) \/ Discover(p) \/ AlreadyThere(p) \/ Decline(p) \/ RemoveOld(p) \/ Fill(p)
    \/ Check(p) \/ MoveNew(p) \/ SwapOut(p) \/ SwapIn(p) \/ PutBack(p) \/ Drop(p)
    \/ CleanUp(p) \/ Fallback(p)
    \/ \E k \in Dists : CloneNext(p, k)

Fault(p) == CallFails(p) \/ RestoreFails(p) \/ Interrupt(p) \/ InterruptInGap(p) \/ Crash(p)

Terminated == (\A p \in Procs : pc[p] \in {"ended", "crashed"}) /\ UNCHANGED vars

Next == (\E p \in Procs : Step(p) \/ Fault(p)) \/ Terminated

\* A process that is not killed goes on.
Spec == Init /\ [][Next]_vars /\ \A p \in Procs : WF_vars(Step(p))

------------------------------------------------------------------------------------
(* Properties.                                                                      *)

Quiet == \A p \in Procs : pc[p] \in {"ended", "crashed", "idle"}
\* The faults that the recovery is no match for: it is never reached, or fails itself.
Unrecovered == hit \cap {"gap", "restore"} # {}
Orderly == ~overlapped /\ ~Unrecovered /\ "crash" \notin hit

\* The calls that installed a distribution and returned, and what the last of them leaves.
Returned(k) == {i \in DOMAIN begun : result[begun[i]] = "returned" /\ wheel[begun[i]].dist = k}
Before(k) == IF origin = NoDir THEN Absent ELSE origin[k]
After(k) == IF Returned(k) = {} THEN Before(k) ELSE wheel[begun[Max(Returned(k))]].version

\* The module's promise: calls made one after the other, some of which decline or raise,
\* leave what they found plus what the others installed, and nothing else, as long as no
\* rename back has raised.
CallsAreExact ==
    Orderly /\ Quiet /\ "interrupt" \notin hit => \A k \in Dists : InRoot(k) = After(k)

\* A directory holds what was there at first, but for what the calls install.
Kept(d) ==
    \A k \in Dists :
        \/ content[d][k] = Before(k)
        \/ \E p \in ToSet(begun) : wheel[p] = [dist |-> k, version |-> content[d][k]]

\* Whatever fails but the recovery itself, even a crash between the two renames, calls that
\* do not overlap never lose the target: it is at its path or kept as "previous".
TargetKept ==
    /\ ~overlapped /\ ~Unrecovered /\ origin # NoDir
    => \E d \in {root} \cup {previous[p] : p \in Procs} : d # NoDir /\ Kept(d)

\* Processes that overlap may lose each other's work (the clone is not the target any
\* more), but the path never names a directory that is still being built.
NeverHalfBuilt ==
    \A p \in Procs :
        root = p => /\ pc[p] \notin Building \cup {"idle", "swapout", "swapin"}
                    /\ content[p][wheel[p].dist] # Absent

\* A target that was moved away is put back or replaced, by the process that moved it,
\* unless that process is killed or interrupted in the gap, or the rename back raises.
TargetComesBack ==
    origin # NoDir /\ root = NoDir ~> root # NoDir \/ Unrecovered \/ "crash" \in hit

------------------------------------------------------------------------------------
(* What the code does not keep.                                                     *)

\* "each preserving batch rollback": an interrupted install leaves the target that was
\* there.
InterruptKeepsTarget ==
    Quiet /\ origin # NoDir /\ "crash" \notin hit => root # NoDir
====================================================================================
