---------------------------- MODULE InstallTransaction ----------------------------
(* The file replacement transaction of src/src/cpip/install/transaction.py: the    *)
(* calls that stage a plan, commit (validate, then back up, place and record every *)
(* file, then the deletions), rollback, finish_successfully and __exit__.           *)
(*                                                                                  *)
(* A step is one system call or one append to the lists that rollback reads, so     *)
(* that a failing call or a KeyboardInterrupt can fall between any two of them.     *)
(* A path is a text; Real maps it to the file it reaches, so that two texts may be  *)
(* one file (a case-insensitive file system, a symbolic link among the parents).    *)
(* Directories are left out: makedirs, rmdir and rmtree change no file here.        *)
EXTENDS Naturals, Sequences, FiniteSets

CONSTANTS
    Files,        \* files on disk
    Texts,        \* path texts the callers use
    Real,         \* the file a text reaches
    FaultKinds,   \* which faults may happen, out of AllFaults
    MaxPlan       \* bound on staged files and deletions, for TLC

AllFaults ==
    { "error",      \* a call raises OSError and changed nothing, or a recorded write is short
      "partial",    \* a copy raises after it made part of its destination
      "interrupt",  \* KeyboardInterrupt, at a point where the lists agree with the disk
      "gap",        \* KeyboardInterrupt between a change on disk and its record
      "rollback" }  \* a call of rollback itself raises or is interrupted

ASSUME TextsNotEmpty == Texts # {}
ASSUME RealAssumption == Real \in [Texts -> Files]
ASSUME FaultKindsAssumption == FaultKinds \subseteq AllFaults

\* "old" is what some earlier program wrote, "new" what the plan stages, "torn" a
\* prefix of it, "link" a symbolic link that resolves to nothing once it is moved.
Contents == {"absent", "old", "new", "torn", "link"}
Slots == Contents \cup {"gone"}
Kinds == {"move", "clone", "contents"}

VARIABLES
    disk,       \* what every file holds
    origin,     \* what it held when the transaction was created
    owned,      \* files of the distribution that is replaced
    guarded,    \* the caller wraps the transaction in `with`
    staged,     \* staged_internal
    deletions,  \* deletions
    presence,   \* destination_presence
    backups,    \* the list of (original, slot); a slot is "gone" once it is emptied
    created,    \* created_internal
    finished,   \* finished
    retain,     \* commit was called with finalize=False
    pc,         \* where the program is
    at,         \* index of the staged file that commit has reached
    left,       \* deletions that commit has not reached
    target,     \* the text that backup_if_needed or the placing works on
    moved,      \* content that shutil.move put in a slot not yet listed
    undo,       \* how many entries rollback has handled in its current loop
    inExit,     \* rollback runs from __exit__
    outcome,    \* what the caller has been told
    hit         \* the faults that happened

plan == <<staged, deletions, retain>>
caller == <<origin, owned, guarded>>
vars == <<disk, caller, plan, presence, backups, created, finished,
          pc, at, left, target, moved, undo, inExit, outcome, hit>>

Dests == {staged[i].dest : i \in DOMAIN staged}
Planned == {Real[t] : t \in Dests \cup deletions}

TypeOK ==
    /\ disk \in [Files -> Contents]
    /\ origin \in [Files -> Contents \ {"torn"}]
    /\ owned \subseteq Files
    /\ guarded \in BOOLEAN
    /\ staged \in Seq([dest: Texts, kind: Kinds])
    /\ deletions \subseteq Texts
    /\ presence \in [Texts -> {"unknown", "absent", "present"}]
    /\ backups \in Seq([orig: Texts, slot: Slots])
    /\ created \in Seq(Texts)
    /\ finished \in BOOLEAN
    /\ retain \in BOOLEAN
    /\ pc \in {"open", "validating", "backup", "moved", "placing", "placed", "writing",
               "chmod", "deleting", "retained", "removing", "restoring", "closing",
               "closed", "done"}
    /\ at \in Nat
    /\ left \subseteq Texts
    /\ target \in Texts
    /\ moved \in Slots
    /\ undo \in Nat
    /\ inExit \in BOOLEAN
    /\ outcome \in {"running", "committed", "raised"}
    /\ hit \subseteq AllFaults

Init ==
    /\ origin \in [Files -> Contents \ {"torn"}]
    /\ disk = origin
    /\ owned \in SUBSET Files
    /\ guarded \in BOOLEAN
    /\ staged = <<>> /\ deletions = {} /\ retain = FALSE
    /\ presence = [t \in Texts |-> "unknown"]
    /\ backups = <<>> /\ created = <<>> /\ finished = FALSE
    /\ pc = "open" /\ at = 0 /\ left = {}
    /\ target = CHOOSE t \in Texts : TRUE
    /\ moved = "gone" /\ undo = 0 /\ inExit = FALSE
    /\ outcome = "running" /\ hit = {}

------------------------------------------------------------------------------------
(* How an exception leaves the code that runs.                                      *)

\* `except Exception: self.rollback()` of commit, or of the caller while it stages.
ToRollback ==
    /\ pc' = "removing" /\ outcome' = "raised" /\ undo' = 0
    /\ UNCHANGED inExit

\* The exception reaches the caller. A `with` block runs __exit__, which rolls back
\* when the transaction is not finished; otherwise nothing more runs.
Unwind ==
    /\ outcome' = "raised" /\ undo' = 0
    /\ IF guarded /\ ~inExit
         THEN pc' = "removing" /\ inExit' = TRUE
         ELSE pc' = "done" /\ UNCHANGED inExit

Injected(fault) == fault \in FaultKinds /\ hit' = hit \cup {fault}

Rest == <<caller, plan, presence, backups, created, finished, at, left, target>>

------------------------------------------------------------------------------------
(* Staging.                                                                         *)

Room == Len(staged) + Cardinality(deletions) < MaxPlan

\* add, add_contents, add_clone. A caller either stages files or writes them itself
\* and records them, never both in one transaction.
Add(t, kind) ==
    /\ pc = "open" /\ created = <<>> /\ Room
    /\ t \notin Dests
    /\ staged' = Append(staged, [dest |-> t, kind |-> kind])
    /\ UNCHANGED <<disk, caller, deletions, retain, presence, backups, created, finished,
                   pc, at, left, target, moved, undo, inExit, outcome, hit>>

\* delete, for a path the caller saw on disk (existing_paths, uninstall_distribution).
Delete(t) ==
    /\ pc = "open" /\ created = <<>> /\ Room
    /\ disk[Real[t]] # "absent"
    /\ deletions' = deletions \cup {t}
    /\ UNCHANGED <<disk, caller, staged, retain, presence, backups, created, finished,
                   pc, at, left, target, moved, undo, inExit, outcome, hit>>

\* record_created by install_wheel_internal(direct=True): the path was absent, it is
\* recorded first and written next, and the caller rolls back on failure.
RecordCreated(t) ==
    /\ pc = "open" /\ guarded /\ staged = <<>> /\ deletions = {}
    /\ Len(created) < MaxPlan
    /\ disk[Real[t]] = "absent"
    /\ created' = Append(created, t)
    /\ target' = t /\ pc' = "writing"
    /\ UNCHANGED <<disk, caller, plan, presence, backups, finished,
                   at, left, moved, undo, inExit, outcome, hit>>

\* The caller fails while it stages: a duplicate destination, a bad wheel.
StagingFails ==
    /\ pc = "open"
    /\ IF guarded THEN ToRollback ELSE Unwind
    /\ UNCHANGED <<disk, Rest, moved, hit>>

\* A direct caller ends with finish_successfully and never commits.
FinishDirect ==
    /\ pc = "open" /\ created # <<>>
    /\ pc' = "closing"
    /\ UNCHANGED <<disk, Rest, moved, undo, inExit, outcome, hit>>

StartCommit ==
    /\ pc = "open" /\ created = <<>> /\ ~finished
    /\ retain' \in BOOLEAN
    /\ pc' = "validating"
    /\ UNCHANGED <<disk, caller, staged, deletions, presence, backups, created, finished,
                   at, left, target, moved, undo, inExit, outcome, hit>>

------------------------------------------------------------------------------------
(* validate.                                                                        *)

\* Mutant of Unrelated: an upgrade may replace any file, not only those it owns.
UnrelatedToNobody(t) == disk[Real[t]] = "old" /\ owned = {}

\* An existing file that is neither owned nor equal to what would replace it.
Unrelated(t) == disk[Real[t]] = "old" /\ Real[t] \notin owned

\* A link resolves or dangles: validate refuses the first and ignores the second.
MaybeUnrelated(t) == disk[Real[t]] = "link" /\ Real[t] \notin owned

\* What lstat says. Only genuine absence is recorded as absent.
Observed(t) == IF disk[Real[t]] = "absent" THEN "absent" ELSE "present"

AfterItem(n) == IF n > Len(staged) THEN "deleting" ELSE "backup"

Validate ==
    /\ pc = "validating"
    /\ \A t \in Dests : ~Unrelated(t)
    /\ Dests \cap deletions = {}
    /\ presence' = [t \in Texts |-> IF t \in Dests THEN Observed(t) ELSE "unknown"]
    /\ at' = 1 /\ left' = deletions
    /\ pc' = AfterItem(1)
    /\ UNCHANGED <<disk, caller, plan, backups, created, finished,
                   target, moved, undo, inExit, outcome, hit>>

ValidateRefuses ==
    /\ pc = "validating"
    /\ \/ \E t \in Dests : Unrelated(t) \/ MaybeUnrelated(t)
       \/ Dests \cap deletions # {}
    /\ ToRollback
    /\ UNCHANGED <<disk, Rest, moved, hit>>

------------------------------------------------------------------------------------
(* commit.                                                                          *)

\* Mutants of NeedsBackup: only what validate did not look at, only what it saw.
NeedsBackupIfUnseen(t) == presence[t] = "unknown" /\ disk[Real[t]] # "absent"
NeedsBackupIfSeen(t) == presence[t] = "present"

\* backup_if_needed trusts what validate saw, and looks only for an unknown text.
NeedsBackup(t) ==
    \/ presence[t] = "present"
    \/ presence[t] = "unknown" /\ disk[Real[t]] # "absent"

MoveAside(t) ==
    /\ moved' = disk[Real[t]]
    /\ disk' = [disk EXCEPT ![Real[t]] = "absent"]
    /\ pc' = "moved"

BackUp ==
    /\ pc = "backup"
    /\ target' = staged[at].dest
    /\ IF NeedsBackup(staged[at].dest)
         THEN MoveAside(staged[at].dest)
         ELSE pc' = "placing" /\ UNCHANGED <<disk, moved>>
    /\ UNCHANGED <<caller, plan, presence, backups, created, finished,
                   at, left, undo, inExit, outcome, hit>>

AppendBackup ==
    /\ pc = "moved"
    /\ backups' = Append(backups, [orig |-> target, slot |-> moved])
    /\ moved' = "gone"
    /\ pc' = IF at <= Len(staged) THEN "placing" ELSE "deleting"
    /\ UNCHANGED <<disk, caller, plan, presence, created, finished,
                   at, left, target, undo, inExit, outcome, hit>>

\* clone_path refuses a destination that exists; replace and shutil.move do not.
Clashes == staged[at].kind = "clone" /\ disk[Real[target]] # "absent"

Place ==
    /\ pc = "placing" /\ staged[at].kind # "contents" /\ ~Clashes
    /\ disk' = [disk EXCEPT ![Real[target]] = "new"]
    /\ pc' = "placed"
    /\ UNCHANGED <<Rest, moved, undo, inExit, outcome, hit>>

PlaceClashes ==
    /\ pc = "placing" /\ Clashes
    /\ ToRollback
    /\ UNCHANGED <<disk, Rest, moved, hit>>

\* Recorded before chmod, which may raise.
RecordPlaced ==
    /\ pc = "placed"
    /\ created' = Append(created, target)
    /\ pc' = "chmod"
    /\ UNCHANGED <<disk, caller, plan, presence, backups, finished,
                   at, left, target, moved, undo, inExit, outcome, hit>>

\* Mutant of RecordContents: the path is not recorded before it is written.
WriteUnrecorded ==
    /\ pc = "placing" /\ staged[at].kind = "contents"
    /\ pc' = "writing"
    /\ UNCHANGED <<disk, caller, plan, presence, backups, created, finished,
                   at, left, target, moved, undo, inExit, outcome, hit>>

\* Contents are recorded before they are written: a short write is undone as well.
RecordContents ==
    /\ pc = "placing" /\ staged[at].kind = "contents"
    /\ created' = Append(created, target)
    /\ pc' = "writing"
    /\ UNCHANGED <<disk, caller, plan, presence, backups, finished,
                   at, left, target, moved, undo, inExit, outcome, hit>>

\* _write_contents of commit, write_direct of a direct caller (at = 0).
Write ==
    /\ pc = "writing"
    /\ disk' = [disk EXCEPT ![Real[target]] = "new"]
    /\ pc' = IF at = 0 THEN "open" ELSE "chmod"
    /\ UNCHANGED <<Rest, moved, undo, inExit, outcome, hit>>

Chmod ==
    /\ pc = "chmod"
    /\ at' = at + 1
    /\ pc' = AfterItem(at + 1)
    /\ UNCHANGED <<disk, caller, plan, presence, backups, created, finished,
                   left, target, moved, undo, inExit, outcome, hit>>

BackUpDeletion(t) ==
    /\ pc = "deleting" /\ t \in left
    /\ left' = left \ {t} /\ target' = t
    /\ IF NeedsBackup(t)
         THEN MoveAside(t)
         ELSE UNCHANGED <<pc, disk, moved>>
    /\ UNCHANGED <<caller, plan, presence, backups, created, finished,
                   at, undo, inExit, outcome, hit>>

EndCommit ==
    /\ pc = "deleting" /\ left = {}
    /\ pc' = IF retain THEN "retained" ELSE "closing"
    /\ UNCHANGED <<disk, Rest, moved, undo, inExit, outcome, hit>>

\* A commit that keeps its rollback state is ended by finalize or by rollback.
Finalize ==
    /\ pc = "retained" /\ ~finished
    /\ pc' = "closing"
    /\ UNCHANGED <<disk, Rest, moved, undo, inExit, outcome, hit>>

RollBackRetained ==
    /\ pc = "retained"
    /\ ToRollback
    /\ UNCHANGED <<disk, Rest, moved, hit>>

------------------------------------------------------------------------------------
(* rollback.                                                                        *)

Last(s, n) == s[Len(s) - n]    \* the entry a loop over reversed(s) reaches after n

RemoveCreated ==
    /\ pc = "removing" /\ undo < Len(created)
    /\ disk' = [disk EXCEPT ![Real[Last(created, undo)]] = "absent"]
    /\ undo' = undo + 1
    /\ UNCHANGED <<Rest, pc, moved, inExit, outcome, hit>>

CreatedRemoved ==
    /\ pc = "removing" /\ undo = Len(created)
    /\ pc' = "restoring" /\ undo' = 0
    /\ UNCHANGED <<disk, Rest, moved, inExit, outcome, hit>>

\* Mutant of SlotExists: rollback moves every slot back without looking.
SlotAssumed(b) == TRUE

\* os.path.exists follows links: it answers no for a link that dangles in its slot.
SlotExists(b) == b.slot \notin {"gone", "link"}

Restore ==
    /\ pc = "restoring" /\ undo < Len(backups)
    /\ LET n == Len(backups) - undo
           b == backups[n]
       IN  IF SlotExists(b)
             THEN /\ disk' = [disk EXCEPT ![Real[b.orig]] = b.slot]
                  /\ backups' = [backups EXCEPT ![n] = [orig |-> b.orig, slot |-> "gone"]]
             ELSE UNCHANGED <<disk, backups>>
    /\ undo' = undo + 1
    /\ UNCHANGED <<caller, plan, presence, created, finished, pc, at, left, target,
                   moved, inExit, outcome, hit>>

BackupsRestored ==
    /\ pc = "restoring" /\ undo = Len(backups)
    /\ pc' = "closing"
    /\ UNCHANGED <<disk, Rest, moved, undo, inExit, outcome, hit>>

------------------------------------------------------------------------------------
(* finish_successfully: rmtree of the backup directory, then the flag.              *)

DropSlots ==
    /\ pc = "closing"
    /\ backups' = [i \in DOMAIN backups |-> [orig |-> backups[i].orig, slot |-> "gone"]]
    /\ pc' = "closed"
    /\ UNCHANGED <<disk, caller, plan, presence, created, finished,
                   at, left, target, moved, undo, inExit, outcome, hit>>

MarkFinished ==
    /\ pc = "closed"
    /\ finished' = TRUE
    /\ pc' = "done"
    /\ outcome' = IF outcome = "running" THEN "committed" ELSE outcome
    /\ UNCHANGED <<disk, caller, plan, presence, backups, created,
                   at, left, target, moved, undo, inExit, hit>>

------------------------------------------------------------------------------------
(* Faults.                                                                          *)

InCommit == {"validating", "backup", "placing", "writing", "chmod", "deleting"}

\* A call raises before it changes anything, or a write to a recorded path is short.
CallFails ==
    /\ Injected("error")
    /\ pc \in InCommit
    /\ disk' \in IF pc = "writing"
                   THEN {disk, [disk EXCEPT ![Real[target]] = "torn"]}
                   ELSE {disk}
    /\ ToRollback
    /\ UNCHANGED <<Rest, moved>>

\* A copy, or the copy inside shutil.move, raises after it made its destination; the
\* destination is not recorded yet.
CopyFails ==
    /\ Injected("partial")
    /\ pc = "placing" /\ staged[at].kind # "contents" /\ ~Clashes
    /\ \E c \in {"new", "torn"} : disk' = [disk EXCEPT ![Real[target]] = c]
    /\ ToRollback
    /\ UNCHANGED <<Rest, moved>>

\* KeyboardInterrupt is no Exception: commit does not roll back, only __exit__ does.
Interrupt ==
    /\ Injected("interrupt")
    /\ pc \in InCommit \cup {"open", "retained"}
    /\ disk' \in IF pc = "writing"
                   THEN {disk, [disk EXCEPT ![Real[target]] = "torn"]}
                   ELSE {disk}
    /\ Unwind
    /\ UNCHANGED <<Rest, moved>>

\* ... between shutil.move and backups.append, between replace and created.append, or
\* between rmtree of the slots and finished = True.
InterruptInGap ==
    /\ Injected("gap")
    /\ pc \in {"moved", "placed"} \/ (pc = "closed" /\ outcome = "running")
    /\ moved' = "gone"
    /\ Unwind
    /\ UNCHANGED <<disk, Rest>>

\* lstat, unlink, makedirs or move of a rollback raises (or an interrupt lands there);
\* the unlink that precedes a move may be done.
RollbackFails ==
    /\ Injected("rollback")
    /\ \/ pc = "removing" /\ undo < Len(created) /\ UNCHANGED disk
       \/ /\ pc = "restoring" /\ undo < Len(backups)
          /\ LET b == backups[Len(backups) - undo]
             IN  /\ SlotExists(b)
                 /\ disk' \in {disk, [disk EXCEPT ![Real[b.orig]] = "absent"]}
    /\ Unwind
    /\ UNCHANGED <<Rest, moved>>

\* `except OSError: continue` around the lstat of rollback: the path is skipped.
LstatFails ==
    /\ Injected("rollback")
    /\ pc = "removing" /\ undo < Len(created)
    /\ undo' = undo + 1
    /\ UNCHANGED <<disk, Rest, pc, moved, inExit, outcome>>

Fault == CallFails \/ CopyFails \/ Interrupt \/ InterruptInGap \/ RollbackFails \/ LstatFails

------------------------------------------------------------------------------------
Stage ==
    \/ \E t \in Texts, kind \in Kinds : Add(t, kind)
    \/ \E t \in Texts : Delete(t)
    \/ \E t \in Texts : RecordCreated(t)
    \/ StagingFails \/ FinishDirect \/ StartCommit

Commit ==
    \/ Validate \/ ValidateRefuses
    \/ BackUp \/ AppendBackup \/ Place \/ PlaceClashes \/ RecordPlaced \/ RecordContents
    \/ Write \/ Chmod
    \/ \E t \in Texts : BackUpDeletion(t)
    \/ EndCommit \/ Finalize \/ RollBackRetained

Rollback == RemoveCreated \/ CreatedRemoved \/ Restore \/ BackupsRestored

Finish == DropSlots \/ MarkFinished

Terminated == pc = "done" /\ UNCHANGED vars

Next == Stage \/ Commit \/ Rollback \/ Finish \/ Fault \/ Terminated

Spec == Init /\ [][Next]_vars

------------------------------------------------------------------------------------
(* Properties.                                                                      *)

\* Faults that rollback is written for: a failing call, and a KeyboardInterrupt when
\* the caller uses `with`.
Undoable == {"error"} \cup IF guarded THEN {"interrupt"} ELSE {}

\* rollback does not see a link in its slot (README, Findings).
NoLinks == \A f \in Files : origin[f] # "link"

\* transaction.py rollback: whatever call of commit failed, but for a copy that leaves a
\* part of the file behind (README, Findings), in whatever state the backups and the
\* created list were, the disk ends as it began, also when several texts of the plan are
\* one file.
RollbackRestores ==
    pc = "done" /\ outcome = "raised" /\ hit \subseteq Undoable /\ NoLinks => disk = origin

\* transaction.py commit and backup_if_needed: at every moment before the slots are
\* dropped after success, a replaced or deleted file is on disk or in a listed slot.
NothingLost ==
    hit \subseteq (Undoable \cup {"partial"}) /\ NoLinks =>
        \A f \in Files :
            \/ origin[f] = "absent"
            \/ disk[f] = origin[f]
            \/ moved = origin[f] /\ Real[target] = f
            \/ \E i \in DOMAIN backups : Real[backups[i].orig] = f /\ backups[i].slot = origin[f]
            \/ outcome = "running" /\ pc \in {"closed", "done"}
            \/ outcome = "committed"

\* No deletion reaches a file that is installed (README, Findings).
PlanApart == \A d \in deletions : Real[d] \notin {Real[t] : t \in Dests}

\* transaction.py commit: a commit that returns installed every staged file, deleted
\* every deletion and left every other file as it was.
CommitApplies ==
    outcome = "committed" /\ PlanApart =>
        \A f \in Files :
            disk[f] = CASE f \in {Real[t] : t \in Dests}      -> "new"
                        [] f \in {Real[t] : t \in deletions}  -> "absent"
                        [] f \in {Real[created[i]] : i \in DOMAIN created} -> "new"
                        [] OTHER -> origin[f]

\* transaction.py validate, "an unrelated file already exists": no step of a
\* transaction, commit or rollback, changes a file that is not the replaced
\* distribution's and that nobody asked to delete, even if rollback runs twice.
UnrelatedKept ==
    [][\A f \in Files :
         origin[f] = "old" /\ f \notin owned /\ f \notin {Real[t] : t \in deletions}
            => disk'[f] = disk[f]]_vars

------------------------------------------------------------------------------------
(* What the code does not keep.                                                     *)

\* "rollback must know to remove it (and restore any backup underneath)": what was
\* replaced can be had back until the commit succeeds, also when rollback is run again
\* by __exit__ after it failed half way.
OriginalsRecoverable ==
    outcome # "committed" /\ NoLinks =>
        \A f \in Files :
            \/ origin[f] = "absent"
            \/ disk[f] = origin[f]
            \/ moved = origin[f] /\ Real[target] = f
            \/ \E i \in DOMAIN backups : Real[backups[i].orig] = f /\ backups[i].slot = origin[f]
            \/ outcome = "running" /\ pc \in {"closed", "done"}

------------------------------------------------------------------------------------
(* The inductive invariant behind RollbackRestores. Rollback is right because the     *)
(* first backup of a file holds what the file held at first, because restoring runs   *)
(* backwards and so ends with that first backup, and because a file with no backup    *)
(* is either untouched or was absent and is on the created list.                      *)

Forward == {"open", "validating", "backup", "moved", "placing", "placed", "writing",
            "chmod", "deleting", "retained"}

BackedUp(f, n) == \E i \in 1..n : Real[backups[i].orig] = f
HasBackup(f) == BackedUp(f, Len(backups))

FirstBackup(i) == ~BackedUp(Real[backups[i].orig], i - 1)

FirstSlotsHoldOrigin(n) ==
    \A i \in 1..n :
        FirstBackup(i) => /\ backups[i].slot = origin[Real[backups[i].orig]]
                          /\ origin[Real[backups[i].orig]] # "absent"

CreatedAmong(f, n) == \E i \in 1..n : Real[created[i]] = f

Justified(f) == origin[f] = "absent" \/ HasBackup(f)

\* The cursor points at a staged file wherever commit works on one.
CursorInv ==
    /\ pc = "open" => at = 0
    /\ pc \in {"backup", "placing", "placed", "chmod"} => at \in 1..Len(staged)
    /\ pc = "moved" => at # 0
    /\ pc = "deleting" => at > Len(staged)
    /\ pc = "writing" => at \in 0..Len(staged)

\* Where the lists stand at each point of the program.
ControlInv ==
    /\ pc \in Forward => outcome = "running" /\ ~inExit /\ undo = 0
    /\ pc \in {"open", "validating"} => backups = <<>>
    /\ pc = "validating" => created = <<>>
    /\ pc = "open" /\ ~guarded => created = <<>>
    /\ pc \in {"placing", "placed"} => target = staged[at].dest
    /\ pc = "moved" /\ at <= Len(staged) => target = staged[at].dest
    /\ pc = "writing" => /\ created # <<>> /\ created[Len(created)] = target
                         /\ at = 0 => backups = <<>> /\ guarded
    /\ pc = "removing" => undo <= Len(created)
    /\ pc = "restoring" => undo <= Len(backups)
    /\ left \subseteq deletions

\* What validate and the callers knew of the disk is still true of the origin.
PresenceInv ==
    /\ \A t \in deletions : origin[Real[t]] # "absent"
    /\ \A t \in Texts : /\ presence[t] = "present" => origin[Real[t]] # "absent"
                        /\ presence[t] = "absent" => origin[Real[t]] = "absent"
    /\ pc \in {"backup", "moved", "placing", "placed", "chmod", "deleting"} \/ (pc = "writing" /\ at # 0) =>
           \A i \in 1..Len(staged) : presence[staged[i].dest] # "unknown"

ForwardInv ==
    pc \in Forward =>
        /\ FirstSlotsHoldOrigin(Len(backups))
        /\ \A i \in 1..Len(created) : Justified(Real[created[i]])
        /\ pc \in {"placing", "placed"} => Justified(Real[target])
        /\ pc = "moved" /\ ~HasBackup(Real[target]) =>
               moved = origin[Real[target]] /\ moved # "absent"
        /\ \A f \in Files :
              ~HasBackup(f) =>
                 \/ disk[f] = origin[f]
                 \/ origin[f] = "absent" /\ CreatedAmong(f, Len(created))
                 \/ origin[f] = "absent" /\ pc = "placed" /\ f = Real[target]
                 \/ pc = "moved" /\ f = Real[target]

RemovingInv ==
    pc = "removing" =>
        /\ FirstSlotsHoldOrigin(Len(backups))
        /\ \A i \in 1..Len(created) : Justified(Real[created[i]])
        /\ \A f \in Files :
              ~HasBackup(f) =>
                 \/ disk[f] = origin[f]
                 \/ origin[f] = "absent" /\ CreatedAmong(f, Len(created) - undo)

RestoringInv ==
    pc = "restoring" =>
        /\ FirstSlotsHoldOrigin(Len(backups) - undo)
        /\ \A f \in Files : ~BackedUp(f, Len(backups) - undo) => disk[f] = origin[f]

EndInv == pc \in {"closing", "closed", "done"} /\ outcome = "raised" => disk = origin

Recoverable ==
    ControlInv /\ PresenceInv /\ ForwardInv /\ RemovingInv /\ RestoringInv /\ EndInv

IInv == hit \subseteq Undoable /\ NoLinks => Recoverable
====================================================================================
