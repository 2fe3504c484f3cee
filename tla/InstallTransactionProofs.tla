------------------------- MODULE InstallTransactionProofs -------------------------
(* Proofs about InstallTransaction: its types, that rollback restores the disk, that  *)
(* a commit does its plan and that nothing is lost on the way, for every set of files, *)
(* every plan and every way its paths alias.                                          *)
EXTENDS InstallTransaction, SequenceTheorems, WellFoundedInduction, TLAPS

\* Types and the cursor of commit: no step leaves them.
TypeInv == TypeOK /\ CursorInv

USE DEF Contents, Slots, Kinds, AllFaults

LEMMA TypeInit == Init => TypeInv
<1> SUFFICES ASSUME Init PROVE TypeInv
  OBVIOUS
<1>1. (CHOOSE t \in Texts : TRUE) \in Texts
  BY TextsNotEmpty
<1>2. target \in Texts
  BY <1>1 DEF Init
<1>3. staged \in Seq([dest: Texts, kind: Kinds]) /\ created \in Seq(Texts)
      /\ backups \in Seq([orig: Texts, slot: Slots])
  BY DEF Init
<1>4. disk \in [Files -> Contents] /\ origin \in [Files -> Contents \ {"torn"}]
  BY DEF Init
<1>5. presence \in [Texts -> {"unknown", "absent", "present"}]
  BY DEF Init
<1> QED BY <1>2, <1>3, <1>4, <1>5 DEF Init, TypeInv, TypeOK, CursorInv

LEMMA TypeStage == TypeInv /\ Stage => TypeInv'
<1> SUFFICES ASSUME TypeInv, Stage PROVE TypeInv'
  OBVIOUS
<1> USE DEF TypeInv, TypeOK, CursorInv, plan, caller, Rest
<1>1. ASSUME NEW t \in Texts, NEW kind \in Kinds, Add(t, kind) PROVE TypeInv'
  BY <1>1 DEF Add
<1>2. ASSUME NEW t \in Texts, Delete(t) PROVE TypeInv'
  BY <1>2 DEF Delete
<1>3. ASSUME NEW t \in Texts, RecordCreated(t) PROVE TypeInv'
  BY <1>3 DEF RecordCreated
<1>4. CASE StagingFails
  BY <1>4 DEF StagingFails, ToRollback, Unwind
<1>5. CASE FinishDirect
  BY <1>5 DEF FinishDirect
<1>6. CASE StartCommit
  BY <1>6 DEF StartCommit
<1> QED BY <1>1, <1>2, <1>3, <1>4, <1>5, <1>6 DEF Stage

LEMMA TypeCommit == TypeInv /\ Commit => TypeInv'
<1> SUFFICES ASSUME TypeInv, Commit PROVE TypeInv'
  OBVIOUS
<1> USE RealAssumption DEF TypeInv, TypeOK, CursorInv, plan, caller, Rest
<1>1. CASE Validate
  <2>1. presence' \in [Texts -> {"unknown", "absent", "present"}]
    BY <1>1 DEF Validate, Observed
  <2> QED BY <1>1, <2>1 DEF Validate, AfterItem
<1>2. CASE ValidateRefuses
  BY <1>2 DEF ValidateRefuses, ToRollback
<1>3. CASE BackUp
  <2>1. at \in 1..Len(staged) /\ staged \in Seq([dest: Texts, kind: Kinds])
    BY <1>3 DEF BackUp
  <2>2. staged[at] \in [dest: Texts, kind: Kinds]
    BY ONLY <2>1, ElementOfSeq
  <2>3. staged[at].dest \in Texts
    BY ONLY <2>2
  <2>4. disk' \in [Files -> Contents] /\ moved' \in Slots
    BY <1>3, <2>3 DEF BackUp, MoveAside
  <2>5. target' \in Texts /\ pc' \in {"moved", "placing"}
    BY <1>3, <2>3 DEF BackUp, MoveAside
  <2> QED BY <1>3, <2>1, <2>4, <2>5 DEF BackUp
<1>4. CASE AppendBackup
  BY <1>4 DEF AppendBackup
<1>5. CASE Place
  BY <1>5 DEF Place
<1>6. CASE PlaceClashes
  BY <1>6 DEF PlaceClashes, ToRollback
<1>7. CASE RecordPlaced
  BY <1>7 DEF RecordPlaced
<1>8. CASE RecordContents
  BY <1>8 DEF RecordContents
<1>9. CASE Write
  BY <1>9 DEF Write
<1>10. CASE Chmod
  BY <1>10 DEF Chmod, AfterItem
<1>11. ASSUME NEW t \in Texts, BackUpDeletion(t) PROVE TypeInv'
  <2>1. disk' \in [Files -> Contents] /\ moved' \in Slots
    BY <1>11 DEF BackUpDeletion, MoveAside
  <2>2. pc' \in {"moved", "deleting"}
    BY <1>11 DEF BackUpDeletion, MoveAside
  <2> QED BY <1>11, <2>1, <2>2 DEF BackUpDeletion
<1>12. CASE EndCommit
  BY <1>12 DEF EndCommit
<1>13. CASE Finalize
  BY <1>13 DEF Finalize
<1>14. CASE RollBackRetained
  BY <1>14 DEF RollBackRetained, ToRollback
<1> QED
  BY <1>1, <1>2, <1>3, <1>4, <1>5, <1>6, <1>7, <1>8, <1>9, <1>10, <1>11, <1>12, <1>13,
     <1>14 DEF Commit

LEMMA TypeRollback == TypeInv /\ (Rollback \/ Finish \/ Fault) => TypeInv'
<1> SUFFICES ASSUME TypeInv, Rollback \/ Finish \/ Fault PROVE TypeInv'
  OBVIOUS
<1> USE RealAssumption, FaultKindsAssumption
    DEF TypeInv, TypeOK, CursorInv, plan, caller, Rest, ToRollback, Unwind, Injected
<1>1. CASE RemoveCreated
  BY <1>1 DEF RemoveCreated, Last
<1>2. CASE CreatedRemoved
  BY <1>2 DEF CreatedRemoved
<1>3. CASE Restore
  <2> DEFINE n == Len(backups) - undo
  <2>1. n \in 1..Len(backups)
    BY <1>3 DEF Restore
  <2>2. backups[n] \in [orig: Texts, slot: Slots]
    <3>1. backups \in Seq([orig: Texts, slot: Slots])
      OBVIOUS
    <3> QED BY ONLY <2>1, <3>1, ElementOfSeq
  <2>3. disk' \in [Files -> Contents]
    BY <1>3, <2>1, <2>2 DEF Restore, SlotExists
  <2>4. backups' \in Seq([orig: Texts, slot: Slots])
    <3> DEFINE e == [orig |-> backups[n].orig, slot |-> "gone"]
    <3>1. e \in [orig: Texts, slot: Slots]
      BY <2>2
    <3>2. [backups EXCEPT ![n] = e] \in Seq([orig: Texts, slot: Slots])
      BY <2>1, <3>1, ExceptSeq
    <3> QED BY <1>3, <3>2 DEF Restore
  <2> QED BY <1>3, <2>3, <2>4 DEF Restore
<1>4. CASE BackupsRestored
  BY <1>4 DEF BackupsRestored
<1>5. CASE DropSlots
  <2>1. backups' \in Seq([orig: Texts, slot: Slots])
    <3> DEFINE e(i) == [orig |-> backups[i].orig, slot |-> "gone"]
    <3>0. backups \in Seq([orig: Texts, slot: Slots])
      OBVIOUS
    <3>1. DOMAIN backups = 1..Len(backups) /\ Len(backups) \in Nat
      BY ONLY <3>0, LenProperties
    <3>2. \A i \in 1..Len(backups) : e(i) \in [orig: Texts, slot: Slots]
      <4> TAKE i \in 1..Len(backups)
      <4>1. backups[i] \in [orig: Texts, slot: Slots]
        BY ONLY <3>0, ElementOfSeq
      <4> QED BY <4>1
    <3>3. backups' \in [1..Len(backups) -> [orig: Texts, slot: Slots]]
      BY <1>5, <3>1, <3>2 DEF DropSlots
    <3> DEFINE R == [orig: Texts, slot: Slots]
    <3>4. \E n \in Nat : backups' \in [1..n -> R]
      BY ONLY <3>1, <3>3
    <3>5. Seq(R) = UNION {[1..n -> R] : n \in Nat}
      BY ONLY SeqDef
    <3> HIDE DEF R
    <3>6. backups' \in Seq(R)
      BY ONLY <3>4, <3>5, Zenon
    <3> QED BY <3>6 DEF R
  <2> QED BY <1>5, <2>1 DEF DropSlots
<1>6. CASE MarkFinished
  BY <1>6 DEF MarkFinished
<1>7. CASE CallFails
  BY <1>7 DEF CallFails, InCommit
<1>8. CASE CopyFails
  BY <1>8 DEF CopyFails
<1>9. CASE Interrupt
  BY <1>9 DEF Interrupt, InCommit
<1>10. CASE InterruptInGap
  BY <1>10 DEF InterruptInGap
<1>11. CASE RollbackFails
  BY <1>11 DEF RollbackFails, SlotExists
<1>12. CASE LstatFails
  BY <1>12 DEF LstatFails
<1> QED
  BY <1>1, <1>2, <1>3, <1>4, <1>5, <1>6, <1>7, <1>8, <1>9, <1>10, <1>11, <1>12
     DEF Rollback, Finish, Fault

LEMMA TypeStutter == TypeInv /\ UNCHANGED vars => TypeInv'
BY DEF TypeInv, TypeOK, CursorInv, vars, plan, caller

\* Every variable keeps its type, whatever fails.
THEOREM Typing == Spec => []TypeOK
<1>1. TypeInv /\ [Next]_vars => TypeInv'
  BY TypeStage, TypeCommit, TypeRollback, TypeStutter DEF Next, Terminated
<1>2. TypeInv => TypeOK
  BY DEF TypeInv
<1> QED
  BY TypeInit, <1>1, <1>2, PTL DEF Spec

------------------------------------------------------------------------------------

LEMMA InvInit == Init => IInv
BY DEF Init, IInv, Recoverable, ControlInv, PresenceInv, ForwardInv, RemovingInv, RestoringInv,
       EndInv, Forward, FirstSlotsHoldOrigin, HasBackup, BackedUp, CreatedAmong, Justified

\* No file is backed up before commit runs.
LEMMA NoBackupYet ==
    ASSUME backups = <<>>, NEW f PROVE ~HasBackup(f)
BY DEF HasBackup, BackedUp

LEMMA InvRecordCreated ==
    ASSUME TypeInv, Recoverable, NEW t \in Texts, RecordCreated(t) PROVE Recoverable'
<1>1. /\ pc = "open" /\ pc' = "writing" /\ guarded /\ target' = t /\ at = 0
      /\ backups = <<>> /\ disk[Real[t]] = "absent" /\ created \in Seq(Texts)
      /\ created' = Append(created, t)
      /\ UNCHANGED <<origin, disk, backups, staged, deletions, presence, left, at,
                     undo, inExit, outcome, guarded, moved>>
  BY DEF RecordCreated, Recoverable, ControlInv, plan, caller, TypeInv, TypeOK, CursorInv
<1>2. /\ Len(created') = Len(created) + 1 /\ created'[Len(created) + 1] = t
      /\ \A i \in 1..Len(created) : created'[i] = created[i]
      /\ Len(created) \in Nat
  BY <1>1, AppendProperties, LenProperties
<1>3. \A f \in Files : disk[f] = origin[f] \/ (origin[f] = "absent" /\ CreatedAmong(f, Len(created)))
  BY <1>1, NoBackupYet DEF Recoverable, ForwardInv, Forward
<1>4. origin[Real[t]] = "absent"
  BY <1>1, <1>3, RealAssumption
<1>5. \A i \in 1..Len(created) : origin[Real[created[i]]] = "absent"
  BY <1>1, NoBackupYet DEF Recoverable, ForwardInv, Forward, Justified
<1>6. (\A i \in 1..Len(created) : Justified(Real[created[i]]))'
  BY <1>1, <1>2, <1>4, <1>5 DEF Justified
<1>7. \A f : CreatedAmong(f, Len(created)) => CreatedAmong(f, Len(created))'
  BY <1>2 DEF CreatedAmong
<1>8. FirstSlotsHoldOrigin(Len(backups))'
  BY <1>1 DEF FirstSlotsHoldOrigin
<1>9. ForwardInv'
  BY <1>1, <1>3, <1>6, <1>7, <1>8 DEF ForwardInv
<1>10. ControlInv' /\ PresenceInv'
  BY <1>1, <1>2 DEF Recoverable, ControlInv, PresenceInv, Forward
<1> QED BY <1>1, <1>9, <1>10 DEF Recoverable, RemovingInv, RestoringInv, EndInv

LEMMA InvStage ==
    ASSUME TypeInv, Recoverable, NoLinks, Stage PROVE Recoverable'
<1> USE DEF TypeInv, TypeOK, CursorInv, plan, caller, Rest, Recoverable, ControlInv,
            PresenceInv, ForwardInv, RemovingInv, RestoringInv, EndInv, Forward,
            FirstSlotsHoldOrigin, HasBackup, BackedUp, CreatedAmong, Justified, FirstBackup
<1>1. ASSUME NEW t \in Texts, NEW kind \in Kinds, Add(t, kind) PROVE Recoverable'
  BY <1>1 DEF Add
<1>2. ASSUME NEW t \in Texts, Delete(t) PROVE Recoverable'
  BY <1>2 DEF Delete
<1>3. ASSUME NEW t \in Texts, RecordCreated(t) PROVE Recoverable'
  BY ONLY TypeInv, Recoverable, <1>3, InvRecordCreated
<1>4. CASE StagingFails
  BY <1>4 DEF StagingFails, ToRollback, Unwind
<1>5. CASE FinishDirect
  BY <1>5 DEF FinishDirect
<1>6. CASE StartCommit
  BY <1>6 DEF StartCommit
<1> HIDE DEF Recoverable, TypeInv
<1> QED BY <1>1, <1>2, <1>3, <1>4, <1>5, <1>6 DEF Stage

LEMMA InvValidate ==
    ASSUME TypeInv, Recoverable, Validate PROVE Recoverable'
<1>1. /\ pc = "validating" /\ pc' \in {"backup", "deleting"} /\ backups = <<>> /\ created = <<>>
      /\ left' = deletions
      /\ UNCHANGED <<origin, disk, backups, created, staged, deletions, outcome, inExit, undo>>
  BY DEF Validate, AfterItem, Recoverable, ControlInv, plan, caller
<1>2. \A f \in Files : disk[f] = origin[f]
  BY <1>1, NoBackupYet DEF Recoverable, ForwardInv, Forward, CreatedAmong
<1>3. \A t \in Texts : presence'[t] = IF t \in Dests THEN Observed(t) ELSE "unknown"
  BY DEF Validate
<1>4. \A i \in 1..Len(staged) : staged[i] \in [dest: Texts, kind: Kinds]
  <2>1. staged \in Seq([dest: Texts, kind: Kinds])
    BY DEF TypeInv, TypeOK
  <2> QED BY ONLY <2>1, ElementOfSeq
<1>5. \A i \in 1..Len(staged) : staged[i].dest \in Texts /\ staged[i].dest \in Dests
  BY <1>4, LenProperties DEF Dests, TypeInv, TypeOK
<1>6. \A t \in Texts : /\ presence'[t] = "present" => origin[Real[t]] # "absent"
                       /\ presence'[t] = "absent" => origin[Real[t]] = "absent"
                       /\ t \in Dests => presence'[t] # "unknown"
  BY <1>2, <1>3, RealAssumption DEF Observed
<1>7. PresenceInv'
  BY <1>1, <1>5, <1>6 DEF PresenceInv, Recoverable
<1>8. ForwardInv'
  BY <1>1, <1>2 DEF ForwardInv, FirstSlotsHoldOrigin
<1>9. ControlInv'
  BY <1>1 DEF ControlInv, Recoverable, Forward
<1> QED BY <1>1, <1>7, <1>8, <1>9 DEF Recoverable, RemovingInv, RestoringInv, EndInv

\* A file moved aside for the first time still held what it held at first.
LEMMA InvMoveAside ==
    ASSUME TypeInv, Recoverable, NEW t \in Texts, pc \in {"backup", "deleting"},
           MoveAside(t), target' = t, origin[Real[t]] # "absent",
           UNCHANGED <<origin, backups, created>>
    PROVE  ForwardInv'
<1>1. moved' = disk[Real[t]] /\ pc' = "moved" /\ disk' = [disk EXCEPT ![Real[t]] = "absent"]
  BY DEF MoveAside
<1>2. Real[t] \in Files /\ disk \in [Files -> Contents]
  BY RealAssumption DEF TypeInv, TypeOK
<1>3. \A f \in Files : ~HasBackup(f) =>
         disk[f] = origin[f] \/ (origin[f] = "absent" /\ CreatedAmong(f, Len(created)))
  BY DEF Recoverable, ForwardInv, Forward
<1>4. ~HasBackup(Real[t]) => moved' = origin[Real[t]]
  BY <1>1, <1>2, <1>3
<1>5. \A f : /\ HasBackup(f)' <=> HasBackup(f)
             /\ Justified(f)' <=> Justified(f)
             /\ CreatedAmong(f, Len(created))' <=> CreatedAmong(f, Len(created))
  BY DEF HasBackup, BackedUp, Justified, CreatedAmong
<1>6. FirstSlotsHoldOrigin(Len(backups))' <=> FirstSlotsHoldOrigin(Len(backups))
  BY DEF FirstSlotsHoldOrigin, FirstBackup, BackedUp
<1>7. \A f \in Files : f # Real[t] => disk'[f] = disk[f]
  BY <1>1, <1>2
<1> QED BY <1>1, <1>3, <1>4, <1>5, <1>6, <1>7 DEF Recoverable, ForwardInv, Forward

LEMMA InvBackUp ==
    ASSUME TypeInv, Recoverable, BackUp PROVE Recoverable'
<1> DEFINE t == staged[at].dest
<1>1. /\ pc = "backup" /\ pc' \in {"moved", "placing"} /\ target' = t /\ at \in 1..Len(staged)
      /\ UNCHANGED <<origin, backups, created, staged, deletions, presence, at, left,
                     outcome, inExit, undo>>
  BY DEF BackUp, MoveAside, plan, caller, TypeInv, CursorInv
<1>2. t \in Texts
  <2>1. staged[at] \in [dest: Texts, kind: Kinds]
    BY <1>1, ElementOfSeq DEF TypeInv, TypeOK
  <2> QED BY <2>1
<1>3. presence[t] \in {"absent", "present"}
  BY <1>1, <1>2 DEF Recoverable, PresenceInv, TypeInv, TypeOK
<1>4. ForwardInv'
  <2>1. CASE NeedsBackup(t)
    <3>1. MoveAside(t)
      BY <2>1 DEF BackUp
    <3>2. origin[Real[t]] # "absent"
      BY <1>2, <1>3, <2>1 DEF NeedsBackup, Recoverable, PresenceInv
    <3> QED BY <1>1, <1>2, <3>1, <3>2, InvMoveAside
  <2>2. CASE ~NeedsBackup(t)
    <3>1. pc' = "placing" /\ disk' = disk /\ moved' = moved
      BY <2>2 DEF BackUp
    <3>2. origin[Real[t]] = "absent"
      BY <1>2, <1>3, <2>2 DEF NeedsBackup, Recoverable, PresenceInv
    <3> QED BY <1>1, <3>1, <3>2 DEF Recoverable, ForwardInv, Forward, FirstSlotsHoldOrigin,
               FirstBackup, BackedUp, HasBackup, Justified, CreatedAmong
  <2> QED BY <2>1, <2>2
<1>5. ControlInv'
  BY <1>1 DEF Recoverable, ControlInv, Forward
<1>6. PresenceInv'
  BY <1>1 DEF Recoverable, PresenceInv
<1> QED BY <1>1, <1>4, <1>5, <1>6 DEF Recoverable, RemovingInv, RestoringInv, EndInv

LEMMA InvBackUpDeletion ==
    ASSUME TypeInv, Recoverable, NEW t \in Texts, BackUpDeletion(t) PROVE Recoverable'
<1>1. /\ pc = "deleting" /\ pc' \in {"moved", "deleting"} /\ target' = t /\ t \in deletions
      /\ left' \subseteq deletions
      /\ UNCHANGED <<origin, backups, created, staged, deletions, presence, at,
                     outcome, inExit, undo>>
  BY DEF BackUpDeletion, MoveAside, plan, caller, Recoverable, ControlInv
<1>2. origin[Real[t]] # "absent"
  BY <1>1 DEF Recoverable, PresenceInv
<1>3. ForwardInv'
  <2>1. CASE NeedsBackup(t)
    <3>1. MoveAside(t)
      BY <2>1 DEF BackUpDeletion
    <3> QED BY <1>1, <1>2, <3>1, InvMoveAside
  <2>2. CASE ~NeedsBackup(t)
    <3>1. pc' = "deleting" /\ disk' = disk
      BY <1>1, <2>2 DEF BackUpDeletion
    <3> QED BY <1>1, <3>1 DEF Recoverable, ForwardInv, Forward, FirstSlotsHoldOrigin,
               FirstBackup, BackedUp, HasBackup, Justified, CreatedAmong
  <2> QED BY <2>1, <2>2
<1>4. ControlInv'
  <2>1. at > Len(staged) /\ at \in Nat /\ Len(staged) \in Nat
    BY <1>1, LenProperties DEF TypeInv, TypeOK, CursorInv
  <2> QED BY <1>1, <2>1 DEF Recoverable, ControlInv, Forward
<1>5. PresenceInv'
  <2>1. \A i \in 1..Len(staged) : pc' = "moved" => presence[staged[i].dest] # "unknown"
    BY <1>1 DEF Recoverable, PresenceInv
  <2> QED BY <1>1, <2>1 DEF Recoverable, PresenceInv
<1> QED BY <1>1, <1>3, <1>4, <1>5 DEF Recoverable, RemovingInv, RestoringInv, EndInv

\* The slot just filled is listed: it is the first of its file, or not the first.
LEMMA InvAppendBackup ==
    ASSUME TypeInv, Recoverable, AppendBackup PROVE Recoverable'
<1> DEFINE b == [orig |-> target, slot |-> moved]
<1>1. /\ pc = "moved" /\ pc' \in {"placing", "deleting"}
      /\ backups' = Append(backups, b) /\ b \in [orig: Texts, slot: Slots]
      /\ UNCHANGED <<origin, disk, created, staged, deletions, presence, left, target, at,
                     outcome, inExit, undo>>
  BY DEF AppendBackup, plan, caller, TypeInv, TypeOK
<1>2. backups \in Seq([orig: Texts, slot: Slots]) /\ Len(backups) \in Nat
  BY LenProperties DEF TypeInv, TypeOK
<1> PICK n \in Nat : n = Len(backups)
  BY <1>2
<1>3. /\ Len(backups') = n + 1 /\ backups'[n + 1] = b
      /\ \A i \in 1..n : backups'[i] = backups[i]
  BY ONLY <1>1, <1>2, AppendProperties, n = Len(backups)
<1>4. \A f : HasBackup(f)' <=> (HasBackup(f) \/ f = Real[target])
  BY <1>2, <1>3 DEF HasBackup, BackedUp
<1>5. \A i \in 1..n : FirstBackup(i)' <=> FirstBackup(i)
  BY <1>2, <1>3 DEF FirstBackup, BackedUp
<1>6. FirstBackup(n + 1)' => ~HasBackup(Real[target])
  BY <1>2, <1>3 DEF FirstBackup, BackedUp, HasBackup
<1>7. FirstSlotsHoldOrigin(Len(backups))'
  <2>1. /\ FirstSlotsHoldOrigin(n)
        /\ ~HasBackup(Real[target]) => moved = origin[Real[target]] /\ moved # "absent"
    BY <1>1 DEF Recoverable, ForwardInv, Forward
  <2> SUFFICES ASSUME NEW i \in 1..(n + 1), FirstBackup(i)'
               PROVE  (/\ backups[i].slot = origin[Real[backups[i].orig]]
                       /\ origin[Real[backups[i].orig]] # "absent")'
    BY <1>3 DEF FirstSlotsHoldOrigin
  <2>2. CASE i \in 1..n
    BY <1>1, <1>3, <1>5, <2>1, <2>2 DEF FirstSlotsHoldOrigin
  <2>3. CASE i = n + 1
    BY <1>1, <1>3, <1>6, <2>1, <2>3
  <2> QED BY <2>2, <2>3
<1>8. ForwardInv'
  <2>1. \A f : CreatedAmong(f, Len(created))' <=> CreatedAmong(f, Len(created))
    BY <1>1 DEF CreatedAmong
  <2>2. \A f : Justified(f) \/ f = Real[target] => Justified(f)'
    BY <1>1, <1>4 DEF Justified
  <2> QED BY <1>1, <1>4, <1>7, <2>1, <2>2 DEF Recoverable, ForwardInv, Forward
<1>9. ControlInv'
  <2>1. pc' = "placing" => at <= Len(staged)
    BY DEF AppendBackup
  <2> QED BY <1>1, <2>1 DEF Recoverable, ControlInv, Forward
<1>10. PresenceInv'
  BY <1>1 DEF Recoverable, PresenceInv
<1> QED BY <1>1, <1>8, <1>9, <1>10 DEF Recoverable, RemovingInv, RestoringInv, EndInv

\* A path is recorded only when it had nothing at first or its file is backed up.
LEMMA InvRecord ==
    ASSUME TypeInv, Recoverable, RecordPlaced \/ RecordContents PROVE Recoverable'
<1>1. /\ pc \in {"placing", "placed"} /\ pc' \in {"chmod", "writing"} /\ at # 0 /\ at \in Nat
      /\ created' = Append(created, target) /\ created \in Seq(Texts) /\ target \in Texts
      /\ (pc = "placed" => pc' = "chmod")
      /\ UNCHANGED <<origin, disk, backups, staged, deletions, presence, left, at, target,
                     undo, inExit, outcome, guarded, moved>>
  BY DEF RecordPlaced, RecordContents, plan, caller, TypeInv, TypeOK, CursorInv
<1>2. /\ Len(created') = Len(created) + 1 /\ created'[Len(created) + 1] = target
      /\ \A i \in 1..Len(created) : created'[i] = created[i]
      /\ Len(created) \in Nat /\ created' # <<>>
  BY <1>1, AppendProperties, LenProperties
<1>3. /\ \A f \in Files : ~HasBackup(f) =>
              \/ disk[f] = origin[f]
              \/ origin[f] = "absent" /\ CreatedAmong(f, Len(created))
              \/ origin[f] = "absent" /\ f = Real[target]
      /\ Justified(Real[target])
      /\ \A i \in 1..Len(created) : Justified(Real[created[i]])
      /\ FirstSlotsHoldOrigin(Len(backups))
  BY <1>1 DEF Recoverable, ForwardInv, Forward
<1>4. \A f : /\ HasBackup(f)' <=> HasBackup(f)
             /\ Justified(f) => Justified(f)'
             /\ CreatedAmong(f, Len(created)) \/ f = Real[target] => CreatedAmong(f, Len(created))'
  BY <1>1, <1>2 DEF HasBackup, BackedUp, Justified, CreatedAmong
<1>5. (\A i \in 1..Len(created) : Justified(Real[created[i]]))'
  BY <1>1, <1>2, <1>3 DEF Justified, HasBackup, BackedUp
<1>6. FirstSlotsHoldOrigin(Len(backups))'
  BY <1>1, <1>3 DEF FirstSlotsHoldOrigin, FirstBackup, BackedUp
<1>7. ForwardInv'
  BY <1>1, <1>3, <1>4, <1>5, <1>6 DEF ForwardInv
<1>8. ControlInv' /\ PresenceInv'
  BY <1>1, <1>2 DEF Recoverable, ControlInv, PresenceInv, Forward
<1> QED BY <1>1, <1>7, <1>8 DEF Recoverable, RemovingInv, RestoringInv, EndInv

\* A recorded path is written: either it had nothing at first or its file is backed up.
LEMMA InvWrite ==
    ASSUME TypeInv, Recoverable, Write PROVE Recoverable'
<1>1. /\ pc = "writing" /\ pc' = (IF at = 0 THEN "open" ELSE "chmod")
      /\ disk' = [disk EXCEPT ![Real[target]] = "new"]
      /\ UNCHANGED <<origin, backups, created, staged, deletions, presence, left, at,
                     undo, inExit, outcome, guarded>>
  BY DEF Write, Rest, plan, caller
<1>2. Real[target] \in Files /\ disk \in [Files -> Contents] /\ created \in Seq(Texts)
      /\ Len(created) \in Nat /\ at \in Nat
  BY RealAssumption, LenProperties DEF TypeInv, TypeOK
<1>3. CreatedAmong(Real[target], Len(created))
  BY <1>1, <1>2, EmptySeq DEF Recoverable, ControlInv, CreatedAmong
<1>4. Justified(Real[target])
  BY <1>1, <1>3 DEF Recoverable, ForwardInv, Forward, CreatedAmong
<1>5. \A f \in Files : ~HasBackup(f) =>
         disk'[f] = origin[f] \/ (origin[f] = "absent" /\ CreatedAmong(f, Len(created)))
  BY <1>1, <1>2, <1>3, <1>4 DEF Recoverable, ForwardInv, Forward, Justified
<1>6. /\ \A f : /\ HasBackup(f)' <=> HasBackup(f)
                /\ CreatedAmong(f, Len(created))' <=> CreatedAmong(f, Len(created))
      /\ (\A i \in 1..Len(created) : Justified(Real[created[i]]))'
      /\ FirstSlotsHoldOrigin(Len(backups))'
  BY <1>1 DEF Recoverable, ForwardInv, Forward, HasBackup, BackedUp, Justified, CreatedAmong,
              FirstSlotsHoldOrigin, FirstBackup
<1>7. ForwardInv'
  BY <1>1, <1>5, <1>6 DEF ForwardInv
<1>8. ControlInv' /\ PresenceInv'
  BY <1>1 DEF Recoverable, ControlInv, PresenceInv, Forward
<1> QED BY <1>1, <1>7, <1>8 DEF Recoverable, RemovingInv, RestoringInv, EndInv

LEMMA InvCommit ==
    ASSUME TypeInv, TypeInv', Recoverable, NoLinks, Commit PROVE Recoverable'
<1> USE RealAssumption
    DEF TypeInv, TypeOK, CursorInv, plan, caller, Rest, Recoverable, ControlInv,
        PresenceInv, ForwardInv, RemovingInv, RestoringInv, EndInv, Forward,
        FirstSlotsHoldOrigin, HasBackup, BackedUp, CreatedAmong, Justified, FirstBackup
<1>1. CASE Validate
  BY ONLY TypeInv, Recoverable, <1>1, InvValidate
<1>2. CASE ValidateRefuses
  BY <1>2 DEF ValidateRefuses, ToRollback
<1>3. CASE BackUp
  BY ONLY TypeInv, Recoverable, <1>3, InvBackUp
<1>4. CASE AppendBackup
  BY ONLY TypeInv, Recoverable, <1>4, InvAppendBackup
<1>5. CASE Place
  BY <1>5 DEF Place
<1>6. CASE PlaceClashes
  BY <1>6 DEF PlaceClashes, ToRollback
<1>7. CASE RecordPlaced
  BY ONLY TypeInv, Recoverable, <1>7, InvRecord
<1>8. CASE RecordContents
  BY ONLY TypeInv, Recoverable, <1>8, InvRecord
<1>9. CASE Write
  BY ONLY TypeInv, Recoverable, <1>9, InvWrite
<1>10. CASE Chmod
  BY <1>10 DEF Chmod, AfterItem
<1>11. ASSUME NEW t \in Texts, BackUpDeletion(t) PROVE Recoverable'
  BY ONLY TypeInv, Recoverable, <1>11, InvBackUpDeletion
<1>12. CASE EndCommit
  BY <1>12 DEF EndCommit
<1>13. CASE Finalize
  BY <1>13 DEF Finalize
<1>14. CASE RollBackRetained
  BY <1>14 DEF RollBackRetained, ToRollback
<1> HIDE DEF Recoverable, TypeInv
<1> QED
  BY <1>1, <1>2, <1>3, <1>4, <1>5, <1>6, <1>7, <1>8, <1>9, <1>10, <1>11, <1>12, <1>13,
     <1>14 DEF Commit

\* Restoring runs backwards: the last slot put back for a file is its first.
LEMMA InvRestore ==
    ASSUME TypeInv, Recoverable, NoLinks, Restore PROVE Recoverable'
<1>1. /\ pc = "restoring" /\ pc' = "restoring" /\ undo' = undo + 1 /\ undo < Len(backups)
      /\ UNCHANGED <<origin, created, staged, deletions, presence, left, at, target,
                     outcome, inExit>>
  BY DEF Restore, plan, caller
<1>2. backups \in Seq([orig: Texts, slot: Slots]) /\ Len(backups) \in Nat /\ undo \in Nat
  BY LenProperties DEF TypeInv, TypeOK
<1>3. Len(backups) - undo \in 1..Len(backups)
  BY ONLY <1>1, <1>2
<1> PICK n \in 1..Len(backups) : n = Len(backups) - undo
  BY ONLY <1>3
<1>4. backups[n] \in [orig: Texts, slot: Slots]
  BY ONLY <1>2, n \in 1..Len(backups), ElementOfSeq
<1> PICK b \in [orig: Texts, slot: Slots] : b = backups[n]
  BY ONLY <1>4
<1> PICK f \in Files : f = Real[b.orig]
  BY RealAssumption
<1> DEFINE gone == [orig |-> b.orig, slot |-> "gone"]
<1>5. IF SlotExists(b)
        THEN disk' = [disk EXCEPT ![f] = b.slot] /\ backups' = [backups EXCEPT ![n] = gone]
        ELSE disk' = disk /\ backups' = backups
  BY DEF Restore
<1>6. /\ Len(backups') = Len(backups)
      /\ \A i \in 1..Len(backups) : backups'[i].orig = backups[i].orig
      /\ \A i \in 1..(n - 1) : backups'[i] = backups[i]
  <2>1. gone \in [orig: Texts, slot: Slots]
    OBVIOUS
  <2>2. CASE SlotExists(b)
    BY <1>2, <1>5, <2>1, <2>2, ExceptSeq
  <2>3. CASE ~SlotExists(b)
    BY <1>5, <2>3
  <2> QED BY <2>2, <2>3
<1>7. disk \in [Files -> Contents] /\ origin \in [Files -> Contents \ {"torn"}]
  BY DEF TypeInv, TypeOK
<1>8. \A g \in Files : g # f => disk'[g] = disk[g]
  BY <1>5, <1>7
<1>9. FirstSlotsHoldOrigin(n) /\ \A g \in Files : ~BackedUp(g, n) => disk[g] = origin[g]
  BY <1>1 DEF Recoverable, RestoringInv
<1>10. FirstBackup(n) => disk'[f] = origin[f]
  <2> SUFFICES ASSUME FirstBackup(n) PROVE disk'[f] = origin[f]
    OBVIOUS
  <2>1. b.slot = origin[f] /\ origin[f] # "absent"
    BY <1>2, <1>9 DEF FirstSlotsHoldOrigin
  <2>2. SlotExists(b)
    BY <1>7, <2>1 DEF SlotExists, NoLinks
  <2> QED BY <1>5, <1>7, <2>1, <2>2
<1>11. \A g \in Files : ~BackedUp(g, n - 1) => disk'[g] = origin[g]
  <2> TAKE g \in Files
  <2>1. CASE g = f
    BY <1>10, <2>1 DEF FirstBackup
  <2>2. CASE g # f
    <3>1. BackedUp(g, n) => BackedUp(g, n - 1)
      BY <1>2, <2>2 DEF BackedUp
    <3> QED BY <1>8, <1>9, <2>2, <3>1
  <2> QED BY <2>1, <2>2
<1>12. \A g : \A i \in 0..(n - 1) : BackedUp(g, i)' <=> BackedUp(g, i)
  <2> TAKE g
  <2> TAKE i \in 0..(n - 1)
  <2>1. \A j \in 1..i : j \in 1..(n - 1)
    BY ONLY <1>2, n \in 1..Len(backups), i \in 0..(n - 1)
  <2> QED BY <1>6, <2>1 DEF BackedUp
<1>13. \A i \in 1..(n - 1) : FirstBackup(i)' <=> FirstBackup(i)
  BY <1>2, <1>6, <1>12 DEF FirstBackup
<1>14. Len(backups') - undo' = n - 1
  BY <1>1, <1>2, <1>6
<1>15. RestoringInv'
  <2>1. (\A i \in 1..(n - 1) :
            FirstBackup(i) => /\ backups[i].slot = origin[Real[backups[i].orig]]
                              /\ origin[Real[backups[i].orig]] # "absent")'
    BY <1>1, <1>2, <1>6, <1>9, <1>13 DEF FirstSlotsHoldOrigin
  <2>2. (\A g \in Files : ~BackedUp(g, n - 1) => disk[g] = origin[g])'
    BY <1>1, <1>2, <1>11, <1>12
  <2> QED BY <1>1, <1>14, <2>1, <2>2 DEF RestoringInv, FirstSlotsHoldOrigin
<1>16. ControlInv'
  BY <1>1, <1>2, <1>6 DEF Recoverable, ControlInv, Forward
<1>17. PresenceInv'
  BY <1>1 DEF Recoverable, PresenceInv
<1> QED BY <1>1, <1>15, <1>16, <1>17 DEF Recoverable, ForwardInv, Forward, RemovingInv, EndInv

LEMMA InvRollback ==
    ASSUME TypeInv, TypeInv', Recoverable, NoLinks, Rollback \/ Finish PROVE Recoverable'
<1> USE RealAssumption
    DEF TypeInv, TypeOK, CursorInv, plan, caller, Rest, Recoverable, ControlInv,
        PresenceInv, ForwardInv, RemovingInv, RestoringInv, EndInv, Forward,
        FirstSlotsHoldOrigin, HasBackup, BackedUp, CreatedAmong, Justified, FirstBackup
<1>1. CASE RemoveCreated
  BY <1>1 DEF RemoveCreated, Last
<1>2. CASE CreatedRemoved
  BY <1>2 DEF CreatedRemoved
<1>3. CASE Restore
  BY ONLY TypeInv, Recoverable, NoLinks, <1>3, InvRestore
<1>4. CASE BackupsRestored
  BY <1>4 DEF BackupsRestored
<1>5. CASE DropSlots
  BY <1>5 DEF DropSlots
<1>6. CASE MarkFinished
  BY <1>6 DEF MarkFinished
<1> HIDE DEF Recoverable, TypeInv
<1> QED BY <1>1, <1>2, <1>3, <1>4, <1>5, <1>6 DEF Rollback, Finish

\* The step from the forward phase into rollback, whatever raised.
LEMMA InvToRollback ==
    ASSUME TypeInv, Recoverable, pc \in InCommit \cup {"open", "retained"},
           pc' = "removing", undo' = 0, outcome' = "raised",
           disk' = disk \/ (pc = "writing" /\ disk' = [disk EXCEPT ![Real[target]] = "torn"]),
           UNCHANGED <<origin, backups, created, staged, deletions, presence, left, at>>
    PROVE  Recoverable'
<1>1. pc \in Forward /\ pc \notin {"moved", "placed"}
  BY DEF InCommit, Forward
<1>2. created \in Seq(Texts) /\ Len(created) \in Nat /\ Real[target] \in Files
      /\ disk \in [Files -> Contents]
  BY LenProperties, RealAssumption DEF TypeInv, TypeOK
<1>3. \A f \in Files : ~HasBackup(f) =>
         disk[f] = origin[f] \/ (origin[f] = "absent" /\ CreatedAmong(f, Len(created)))
  BY <1>1 DEF Recoverable, ForwardInv
<1>4. pc = "writing" => CreatedAmong(Real[target], Len(created))
  BY <1>2, EmptySeq DEF Recoverable, ControlInv, CreatedAmong
<1>5. pc = "writing" => Justified(Real[target])
  BY <1>1, <1>4 DEF Recoverable, ForwardInv, CreatedAmong
<1>6. \A f \in Files : ~HasBackup(f) =>
         disk'[f] = origin[f] \/ (origin[f] = "absent" /\ CreatedAmong(f, Len(created)))
  BY <1>2, <1>3, <1>4, <1>5 DEF Justified
<1>7. \A f : /\ HasBackup(f)' <=> HasBackup(f)
             /\ Justified(f)' <=> Justified(f)
             /\ CreatedAmong(f, Len(created) - undo)' <=> CreatedAmong(f, Len(created))
  BY <1>2 DEF HasBackup, BackedUp, Justified, CreatedAmong
<1>8. FirstSlotsHoldOrigin(Len(backups))'
  BY <1>1 DEF FirstSlotsHoldOrigin, FirstBackup, BackedUp, Recoverable, ForwardInv
<1>9. RemovingInv'
  BY <1>1, <1>6, <1>7, <1>8 DEF RemovingInv, Recoverable, ForwardInv
<1>10. ControlInv' /\ PresenceInv'
  BY <1>2 DEF Recoverable, ControlInv, PresenceInv, Forward
<1> QED BY <1>9, <1>10 DEF Recoverable, ForwardInv, Forward, RestoringInv, EndInv

\* A fault that rollback is written for.
LEMMA InvFault ==
    ASSUME TypeInv, Recoverable, NoLinks, Fault, hit' \subseteq Undoable PROVE Recoverable'
<1>1. ~(CopyFails \/ InterruptInGap \/ RollbackFails \/ LstatFails)
  BY DEF CopyFails, InterruptInGap, RollbackFails, LstatFails, Injected, Undoable
<1>2. CASE CallFails
  BY <1>2, InvToRollback DEF CallFails, ToRollback, Rest, plan, caller
<1>3. CASE Interrupt
  <2>1. guarded /\ ~inExit
    BY <1>3 DEF Interrupt, Injected, Undoable, Recoverable, ControlInv, Forward, InCommit
  <2> QED BY <1>3, <2>1, InvToRollback DEF Interrupt, Unwind, Rest, plan, caller
<1> QED BY <1>1, <1>2, <1>3 DEF Fault

LEMMA InvStutter ==
    ASSUME TypeInv, Recoverable, UNCHANGED vars PROVE Recoverable'
BY DEF Recoverable, ControlInv, PresenceInv, ForwardInv, RemovingInv, RestoringInv, EndInv,
       FirstSlotsHoldOrigin, HasBackup, BackedUp, CreatedAmong, Justified, FirstBackup,
       vars, plan, caller

LEMMA InvStep == TypeInv /\ IInv /\ [Next]_vars /\ TypeInv' => IInv'
<1> SUFFICES ASSUME TypeInv, IInv, [Next]_vars, TypeInv', hit' \subseteq Undoable', NoLinks'
             PROVE  Recoverable'
  BY DEF IInv
<1>1. hit \subseteq hit' /\ UNCHANGED caller
  BY DEF Next, Terminated, Stage, Commit, Rollback, Finish, Fault, Add, Delete, RecordCreated,
         StagingFails, FinishDirect, StartCommit, Validate, ValidateRefuses, BackUp,
         AppendBackup, Place, PlaceClashes, RecordPlaced, RecordContents, Write, Chmod,
         BackUpDeletion, EndCommit, Finalize, RollBackRetained, RemoveCreated, CreatedRemoved,
         Restore, BackupsRestored, DropSlots, MarkFinished, CallFails, CopyFails, Interrupt,
         InterruptInGap, RollbackFails, LstatFails, Injected, Rest, vars
<1>2. hit' \subseteq Undoable /\ hit \subseteq Undoable /\ NoLinks
  BY <1>1 DEF Undoable, NoLinks, caller
<1>3. Recoverable
  BY <1>2 DEF IInv
<1> QED
  BY <1>2, <1>3, InvStage, InvCommit, InvRollback, InvFault, InvStutter DEF Next, Terminated

\* Whatever call fails, and whenever, a transaction that reports failure has put back
\* what every file held when it began.
THEOREM RollbackIsComplete == Spec => []RollbackRestores
<1>1. TypeInv /\ [Next]_vars => TypeInv'
  BY TypeStage, TypeCommit, TypeRollback, TypeStutter DEF Next, Terminated
<1>2. TypeInv /\ IInv => RollbackRestores
  BY DEF IInv, Recoverable, EndInv, RollbackRestores
<1> QED
  BY TypeInit, InvInit, InvStep, <1>1, <1>2, PTL DEF Spec

------------------------------------------------------------------------------------
(* Unrelated files. validate refuses a plan that would replace one, and what it refused *)
(* never reaches the lists that commit and rollback work from.                        *)

Bystander(f) == origin[f] = "old" /\ f \notin owned /\ f \notin {Real[t] : t \in deletions}

Committing == {"backup", "moved", "placing", "placed", "writing", "chmod", "deleting"}

\* No list, and no path that a step is about to change, reaches f.
OutOfReach(f) ==
    /\ \A i \in 1..Len(created) : Real[created[i]] # f
    /\ \A i \in 1..Len(backups) : Real[backups[i].orig] # f
    /\ pc \in Committing => \A i \in 1..Len(staged) : Real[staged[i].dest] # f
    /\ pc \in {"moved", "placing", "placed", "writing"} => Real[target] # f

BystanderInv ==
    /\ left \subseteq deletions
    /\ \A f \in Files : Bystander(f) => disk[f] = "old" /\ OutOfReach(f)

LEMMA BystanderInit == Init => BystanderInv
BY DEF Init, BystanderInv, Bystander, OutOfReach, Committing

LEMMA BystanderStage == ASSUME TypeInv, BystanderInv, Stage PROVE BystanderInv'
<1> USE RealAssumption DEF TypeInv, TypeOK, BystanderInv, Bystander, OutOfReach, Committing,
        plan, caller, Rest, CursorInv
<1>1. ASSUME NEW t \in Texts, NEW kind \in Kinds, Add(t, kind) PROVE BystanderInv'
  BY <1>1 DEF Add
<1>2. ASSUME NEW t \in Texts, Delete(t) PROVE BystanderInv'
  BY <1>2 DEF Delete
<1>3. ASSUME NEW t \in Texts, RecordCreated(t) PROVE BystanderInv'
  <2>1. /\ Len(created') = Len(created) + 1 /\ created'[Len(created) + 1] = t
        /\ \A i \in 1..Len(created) : created'[i] = created[i]
        /\ Len(created) \in Nat
    BY <1>3, AppendProperties, LenProperties DEF RecordCreated
  <2>2. \A f \in Files : Bystander(f) => Real[t] # f
    BY <1>3 DEF RecordCreated
  <2> QED BY <1>3, <2>1, <2>2 DEF RecordCreated
<1>4. CASE StagingFails
  BY <1>4 DEF StagingFails, ToRollback, Unwind
<1>5. CASE FinishDirect
  BY <1>5 DEF FinishDirect
<1>6. CASE StartCommit
  BY <1>6 DEF StartCommit
<1> QED BY <1>1, <1>2, <1>3, <1>4, <1>5, <1>6 DEF Stage

\* A file moved aside, put in place or listed is not a bystander's.
LEMMA BystanderCommit == ASSUME TypeInv, BystanderInv, Commit PROVE BystanderInv'
<1> USE RealAssumption DEF TypeInv, TypeOK, BystanderInv, Bystander, OutOfReach, Committing,
        plan, caller, Rest, CursorInv
<1>1. CASE Validate
  <2>1. \A i \in 1..Len(staged) : staged[i].dest \in Dests
    BY LenProperties DEF Dests
  <2>2. \A f \in Files : Bystander(f) => \A i \in 1..Len(staged) : Real[staged[i].dest] # f
    BY <1>1, <2>1 DEF Validate, Unrelated
  <2> QED BY <1>1, <2>2 DEF Validate, AfterItem
<1>2. CASE ValidateRefuses
  BY <1>2 DEF ValidateRefuses, ToRollback
<1>3. CASE BackUp
  <2> DEFINE t == staged[at].dest
  <2>1. at \in 1..Len(staged) /\ \A f \in Files : Bystander(f) => Real[t] # f
    BY <1>3 DEF BackUp
  <2> HIDE DEF t
  <2>2. target' = t /\ UNCHANGED <<origin, owned, deletions, left, created, backups, staged>>
    BY <1>3 DEF BackUp, t
  <2>3. disk' = disk \/ disk' = [disk EXCEPT ![Real[t]] = "absent"]
    BY <1>3 DEF BackUp, MoveAside, t
  <2>4. pc = "backup"
    BY <1>3 DEF BackUp
  <2> QED BY <2>1, <2>2, <2>3, <2>4
<1>4. CASE AppendBackup
  <2> DEFINE e == [orig |-> target, slot |-> moved]
  <2>1. /\ Len(backups') = Len(backups) + 1 /\ backups'[Len(backups) + 1] = e
        /\ \A i \in 1..Len(backups) : backups'[i] = backups[i]
        /\ Len(backups) \in Nat
    <3>1. e \in [orig: Texts, slot: Slots]
      OBVIOUS
    <3> QED BY <1>4, <3>1, AppendProperties, LenProperties DEF AppendBackup
  <2> QED BY <1>4, <2>1 DEF AppendBackup
<1>5. CASE Place
  BY <1>5 DEF Place
<1>6. CASE PlaceClashes
  BY <1>6 DEF PlaceClashes, ToRollback
<1>7. CASE RecordPlaced \/ RecordContents
  <2>1. /\ Len(created') = Len(created) + 1 /\ created'[Len(created) + 1] = target
        /\ \A i \in 1..Len(created) : created'[i] = created[i]
        /\ Len(created) \in Nat
    BY <1>7, AppendProperties, LenProperties DEF RecordPlaced, RecordContents
  <2>2. /\ pc \in {"placing", "placed"} /\ pc' \in {"writing", "chmod"}
        /\ UNCHANGED <<disk, origin, owned, deletions, left, backups, staged, target>>
    BY <1>7 DEF RecordPlaced, RecordContents
  <2>3. \A f \in Files : Bystander(f) => Real[target] # f
    BY <2>2
  <2>4. \A f \in Files : Bystander(f) => \A i \in 1..Len(created') : Real[created'[i]] # f
    <3>1. \A i \in 1..Len(created') : i \in 1..Len(created) \/ i = Len(created) + 1
      BY <2>1
    <3> QED BY <2>1, <2>3, <3>1
  <2> QED BY <2>2, <2>3, <2>4
<1>9. CASE Write
  BY <1>9 DEF Write
<1>10. CASE Chmod
  BY <1>10 DEF Chmod, AfterItem
<1>11. ASSUME NEW t \in Texts, BackUpDeletion(t) PROVE BystanderInv'
  <2>1. \A f \in Files : Bystander(f) => Real[t] # f
    BY <1>11 DEF BackUpDeletion
  <2>2. /\ pc = "deleting" /\ target' = t /\ left' \subseteq left
        /\ UNCHANGED <<origin, owned, deletions, created, backups, staged>>
    BY <1>11 DEF BackUpDeletion
  <2>3. disk' = disk \/ disk' = [disk EXCEPT ![Real[t]] = "absent"]
    BY <1>11 DEF BackUpDeletion, MoveAside
  <2> QED BY <2>1, <2>2, <2>3
<1>12. CASE EndCommit
  BY <1>12 DEF EndCommit
<1>13. CASE Finalize
  BY <1>13 DEF Finalize
<1>14. CASE RollBackRetained
  BY <1>14 DEF RollBackRetained, ToRollback
<1> QED
  BY <1>1, <1>2, <1>3, <1>4, <1>5, <1>6, <1>7, <1>9, <1>10, <1>11, <1>12, <1>13, <1>14
     DEF Commit

LEMMA BystanderRollback ==
    ASSUME TypeInv, BystanderInv, Rollback \/ Finish \/ Fault PROVE BystanderInv'
<1> USE RealAssumption DEF TypeInv, TypeOK, BystanderInv, Bystander, OutOfReach, Committing,
        plan, caller, Rest, CursorInv, ToRollback, Unwind
<1>1. CASE RemoveCreated
  <2>1. /\ Len(created) - undo \in 1..Len(created) /\ pc' = pc /\ pc = "removing"
        /\ disk' = [disk EXCEPT ![Real[created[Len(created) - undo]]] = "absent"]
        /\ UNCHANGED <<origin, owned, deletions, left, created, staged, backups>>
    BY <1>1, LenProperties DEF RemoveCreated, Last
  <2> PICK n \in 1..Len(created) : n = Len(created) - undo
    BY <2>1
  <2>2. disk' = [disk EXCEPT ![Real[created[n]]] = "absent"]
    BY <2>1
  <2>3. \A f \in Files : Bystander(f) => Real[created[n]] # f
    OBVIOUS
  <2> QED BY <2>1, <2>2, <2>3
<1>2. CASE CreatedRemoved
  BY <1>2 DEF CreatedRemoved
<1>3. CASE Restore
  <2>1. /\ Len(backups) - undo \in 1..Len(backups) /\ pc' = "restoring"
        /\ UNCHANGED <<origin, owned, deletions, left, created, staged>>
    BY <1>3 DEF Restore
  <2> PICK n \in 1..Len(backups) : n = Len(backups) - undo
    BY <2>1
  <2>2. /\ \/ disk' = disk
           \/ disk' = [disk EXCEPT ![Real[backups[n].orig]] = backups[n].slot]
        /\ \/ backups' = backups
           \/ backups' = [backups EXCEPT ![n] = [orig |-> backups[n].orig, slot |-> "gone"]]
    BY <1>3 DEF Restore
  <2>3. Len(backups') = Len(backups) /\ \A i \in 1..Len(backups) : backups'[i].orig = backups[i].orig
    <3>1. backups[n] \in [orig: Texts, slot: Slots]
      <4>1. backups \in Seq([orig: Texts, slot: Slots])
        OBVIOUS
      <4> QED BY ONLY <4>1, n \in 1..Len(backups), ElementOfSeq
    <3>2. [orig |-> backups[n].orig, slot |-> "gone"] \in [orig: Texts, slot: Slots]
      BY <3>1
    <3> QED BY <2>2, <3>2, ExceptSeq
  <2>4. \A f \in Files : Bystander(f) => disk'[f] = disk[f]
    <3>1. \A f \in Files : Bystander(f) => Real[backups[n].orig] # f
      OBVIOUS
    <3> DEFINE g == Real[backups[n].orig]
    <3>2. disk' = disk \/ disk' = [disk EXCEPT ![g] = backups[n].slot]
      BY <2>2
    <3> HIDE DEF g, Bystander
    <3>3. \A f \in Files : f # g => disk'[f] = disk[f]
      <4>1. disk \in [Files -> Contents]
        OBVIOUS
      <4> QED BY ONLY <3>2, <4>1
    <3> QED BY <3>1, <3>3 DEF g
  <2>5. \A f \in Files : Bystander(f)' <=> Bystander(f)
    BY <2>1
  <2>6. ASSUME NEW f \in Files, Bystander(f) PROVE OutOfReach(f)'
    <3>1. \A i \in 1..Len(created') : Real[created'[i]] # f
      BY <2>1, <2>6
    <3>2. \A i \in 1..Len(backups) : Real[backups[i].orig] # f
      BY <2>6
    <3>3. \A i \in 1..Len(backups') : Real[backups'[i].orig] # f
      BY ONLY <2>3, <3>2
    <3> QED BY <2>1, <3>1, <3>3
  <2> HIDE DEF Bystander, OutOfReach
  <2> QED BY <2>1, <2>4, <2>5, <2>6
<1>4. CASE BackupsRestored
  BY <1>4 DEF BackupsRestored
<1>5. CASE DropSlots
  <2>1. Len(backups') = Len(backups) /\ \A i \in 1..Len(backups) : backups'[i].orig = backups[i].orig
    BY <1>5, LenProperties DEF DropSlots
  <2> QED BY <1>5, <2>1 DEF DropSlots
<1>6. CASE MarkFinished
  BY <1>6 DEF MarkFinished
<1>7. CASE CallFails
  BY <1>7 DEF CallFails
<1>8. CASE CopyFails
  BY <1>8 DEF CopyFails
<1>9. CASE Interrupt
  BY <1>9 DEF Interrupt
<1>10. CASE InterruptInGap
  BY <1>10 DEF InterruptInGap
<1>11. CASE RollbackFails
  <2>1. \A f \in Files : Bystander(f) => disk'[f] = disk[f]
    <3>1. CASE disk' = disk
      BY <3>1
    <3>2. CASE disk' # disk
      <4> DEFINE n == Len(backups) - undo
      <4>1. n \in 1..Len(backups) /\ disk' = [disk EXCEPT ![Real[backups[n].orig]] = "absent"]
        BY <1>11, <3>2, LenProperties DEF RollbackFails
      <4> HIDE DEF n
      <4>2. \A f \in Files : Bystander(f) => Real[backups[n].orig] # f
        BY <4>1
      <4> QED BY <4>1, <4>2
    <3> QED BY <3>1, <3>2
  <2>2. /\ pc' \in {"removing", "done"}
        /\ UNCHANGED <<origin, owned, deletions, left, created, staged, backups>>
    BY <1>11 DEF RollbackFails
  <2> QED BY <2>1, <2>2
<1>12. CASE LstatFails
  BY <1>12 DEF LstatFails
<1> QED
  BY <1>1, <1>2, <1>3, <1>4, <1>5, <1>6, <1>7, <1>8, <1>9, <1>10, <1>11, <1>12
     DEF Rollback, Finish, Fault

LEMMA BystanderStutter == BystanderInv /\ UNCHANGED vars => BystanderInv'
BY DEF BystanderInv, Bystander, OutOfReach, vars, plan, caller

\* A step that adds a deletion changes no file; every other step keeps the deletions.
LEMMA DeletionsSettled ==
    ASSUME [Next]_vars
    PROVE  UNCHANGED <<origin, owned>> /\ (UNCHANGED disk \/ UNCHANGED deletions)
BY DEF Next, Terminated, Stage, Commit, Rollback, Finish, Fault, Add, Delete, RecordCreated,
       StagingFails, FinishDirect, StartCommit, Validate, ValidateRefuses, BackUp,
       AppendBackup, Place, PlaceClashes, RecordPlaced, RecordContents, Write, Chmod,
       BackUpDeletion, EndCommit, Finalize, RollBackRetained, RemoveCreated, CreatedRemoved,
       Restore, BackupsRestored, DropSlots, MarkFinished, CallFails, CopyFails, Interrupt,
       InterruptInGap, RollbackFails, LstatFails, Rest, plan, caller, vars

\* Whatever the plan, and whatever fails, also when rollback itself fails and runs again,
\* no step changes a file that is not the replaced distribution's and that nobody asked
\* to delete.
THEOREM UnrelatedUntouched == Spec => UnrelatedKept
<1> DEFINE Inv == TypeInv /\ BystanderInv
<1>1. Init => Inv
  BY TypeInit, BystanderInit
<1>2. Inv /\ [Next]_vars => Inv'
  BY TypeStage, TypeCommit, TypeRollback, TypeStutter, BystanderStage, BystanderCommit,
     BystanderRollback, BystanderStutter DEF Next, Terminated
<1>3. Inv /\ Inv' /\ [Next]_vars =>
          [\A f \in Files :
             origin[f] = "old" /\ f \notin owned /\ f \notin {Real[t] : t \in deletions}
                => disk'[f] = disk[f]]_vars
  <2> SUFFICES ASSUME Inv, Inv', [Next]_vars, NEW f \in Files, Bystander(f)
               PROVE  disk'[f] = disk[f]
    BY DEF Bystander
  <2>1. CASE UNCHANGED deletions
    BY <2>1, DeletionsSettled DEF Bystander, BystanderInv
  <2>2. CASE UNCHANGED disk
    BY <2>2
  <2> QED BY <2>1, <2>2, DeletionsSettled
<1> QED
  BY <1>1, <1>2, <1>3, PTL DEF Spec, UnrelatedKept

------------------------------------------------------------------------------------
(* What a commit that goes through does. Nothing is assumed of the faults: one of them *)
(* ends in "raised".                                                                   *)

Replacing == {"moved", "placing", "placed", "writing", "chmod"}
Settled == {"retained", "closing", "closed", "done"}

\* The files that commit has put in place and those it has deleted so far.
PlacedFiles == {Real[staged[i].dest] : i \in {j \in 1..Len(staged) : j < at}}
DeletedFiles == {Real[t] : t \in deletions \ left}
CreatedFiles == {Real[created[i]] : i \in 1..Len(created)}

\* The file of the staged entry that commit works on.
AtWorkOn(f) == pc \in Replacing /\ at <= Len(staged) /\ f = Real[target]

RunsInv ==
    /\ outcome = "running" => pc \in Forward \cup {"closing", "closed"}
    /\ outcome = "committed" => pc = "done"
    /\ pc \in Forward => outcome = "running"

\* A caller that writes its files itself stages nothing.
DirectInv == at = 0 /\ outcome # "raised" =>
    /\ pc \in {"open", "validating", "writing"} \cup Settled
    /\ created # <<>> => staged = <<>> /\ deletions = {}
    /\ pc \in Settled => created # <<>>
    /\ pc = "validating" => created = <<>>
    /\ pc = "writing" => created # <<>> /\ Real[target] \in CreatedFiles
    /\ \A f \in Files :
          disk[f] = IF f \in CreatedFiles /\ ~(pc = "writing" /\ f = Real[target]) THEN "new" ELSE origin[f]

\* What the disk holds while commit goes through its plan.
AppliedInv == at # 0 /\ outcome # "raised" =>
    /\ pc \in {"backup", "deleting"} \cup Replacing \cup Settled
    /\ at <= Len(staged) + 1
    /\ pc \in Settled => at > Len(staged) /\ left = {}
    /\ \A t \in deletions : presence[t] = "unknown"
    /\ left \subseteq deletions /\ (at <= Len(staged) => left = deletions)
    /\ CreatedFiles \subseteq {Real[t] : t \in Dests}
    /\ pc \in Replacing /\ at <= Len(staged) => target = staged[at].dest
    /\ pc \in {"placed", "chmod"} => disk[Real[target]] = "new"
    /\ PlanApart => \A f \in Files : AtWorkOn(f) \/
          disk[f] = CASE f \in PlacedFiles  -> "new"
                      [] f \in DeletedFiles -> "absent"
                      [] OTHER              -> origin[f]

ApplyInv == RunsInv /\ DirectInv /\ AppliedInv

LEMMA ApplyInit == Init => ApplyInv
BY DEF Init, ApplyInv, RunsInv, DirectInv, AppliedInv, Forward, CreatedFiles, Settled, caller

\* Once it has raised, a transaction does not commit.
LEMMA ApplyRaised ==
    ASSUME outcome' = "raised", pc' \notin Forward PROVE ApplyInv'
BY DEF ApplyInv, RunsInv, DirectInv, AppliedInv

LEMMA RecordedFiles ==
    ASSUME TypeInv, NEW t \in Texts, created' = Append(created, t)
    PROVE  CreatedFiles' = CreatedFiles \cup {Real[t]} /\ created' # <<>>
<1>1. /\ Len(created') = Len(created) + 1 /\ created'[Len(created) + 1] = t
      /\ \A i \in 1..Len(created) : created'[i] = created[i]
      /\ Len(created) \in Nat /\ created' # <<>>
  BY AppendProperties, LenProperties DEF TypeInv, TypeOK
<1>2. 1..Len(created') = 1..Len(created) \cup {Len(created) + 1}
  BY <1>1
<1> QED BY <1>1, <1>2 DEF CreatedFiles

LEMMA StagedText ==
    ASSUME TypeInv, at \in 1..Len(staged)
    PROVE  staged[at].dest \in Texts /\ staged[at].dest \in Dests
<1>1. staged \in Seq([dest: Texts, kind: Kinds])
  BY DEF TypeInv, TypeOK
<1>2. staged[at] \in [dest: Texts, kind: Kinds] /\ at \in DOMAIN staged
  BY ONLY <1>1, at \in 1..Len(staged), ElementOfSeq, LenProperties
<1> QED BY <1>2 DEF Dests

LEMMA ApplyStage == ASSUME TypeInv, ApplyInv, Stage PROVE ApplyInv'
<1> USE DEF plan, caller, Rest
<1>1. ASSUME NEW t \in Texts, NEW kind \in Kinds, Add(t, kind) PROVE ApplyInv'
  BY <1>1 DEF Add, TypeInv, CursorInv, ApplyInv, RunsInv, DirectInv, AppliedInv, CreatedFiles, Forward, Settled
<1>2. ASSUME NEW t \in Texts, Delete(t) PROVE ApplyInv'
  BY <1>2 DEF Delete, TypeInv, CursorInv, ApplyInv, RunsInv, DirectInv, AppliedInv, CreatedFiles, Forward, Settled
<1>3. ASSUME NEW t \in Texts, RecordCreated(t) PROVE ApplyInv'
  <2>1. /\ pc = "open" /\ pc' = "writing" /\ at = 0 /\ at' = 0 /\ target' = t /\ disk[Real[t]] = "absent"
        /\ staged = <<>> /\ deletions = {} /\ created' = Append(created, t)
        /\ UNCHANGED <<staged, deletions, disk, origin, outcome>>
    BY <1>3 DEF RecordCreated, TypeInv, CursorInv
  <2>2. CreatedFiles' = CreatedFiles \cup {Real[t]} /\ created' # <<>>
    BY <2>1, RecordedFiles
  <2>3. Real[t] \in Files
    BY RealAssumption
  <2>4. outcome = "running"
    BY <2>1 DEF ApplyInv, RunsInv, Forward
  <2>5. \A f \in Files : disk[f] = IF f \in CreatedFiles THEN "new" ELSE origin[f]
    BY <2>1, <2>4 DEF ApplyInv, DirectInv
  <2>6. DirectInv'
    BY <2>1, <2>2, <2>3, <2>4, <2>5 DEF DirectInv, Settled
  <2> QED BY <2>1, <2>4, <2>6 DEF ApplyInv, RunsInv, AppliedInv, Forward
<1>4. CASE StagingFails
  BY <1>4, ApplyRaised DEF StagingFails, ToRollback, Unwind, Forward
<1>5. CASE FinishDirect
  BY <1>5 DEF FinishDirect, TypeInv, CursorInv, ApplyInv, RunsInv, DirectInv, AppliedInv, CreatedFiles, Forward, Settled
<1>6. CASE StartCommit
  BY <1>6 DEF StartCommit, TypeInv, CursorInv, ApplyInv, RunsInv, DirectInv, AppliedInv, CreatedFiles, Forward, Settled
<1> QED BY <1>1, <1>2, <1>3, <1>4, <1>5, <1>6 DEF Stage

LEMMA ApplyValidate == ASSUME TypeInv, ApplyInv, Validate PROVE ApplyInv'
<1>1. /\ pc = "validating" /\ pc' \in {"backup", "deleting"} /\ at' = 1 /\ left' = deletions
      /\ Dests \cap deletions = {}
      /\ UNCHANGED <<staged, deletions, disk, origin, outcome, created>>
  BY DEF Validate, AfterItem, plan, caller
<1>2. outcome = "running" /\ at = 0
  BY <1>1 DEF ApplyInv, RunsInv, AppliedInv, Forward, Replacing, Settled
<1>3. created = <<>> /\ CreatedFiles = {}
  BY <1>1, <1>2 DEF ApplyInv, DirectInv, CreatedFiles
<1>4. \A f \in Files : disk[f] = origin[f]
  BY <1>1, <1>2, <1>3 DEF ApplyInv, DirectInv
<1>5. PlacedFiles' = {} /\ DeletedFiles' = {} /\ CreatedFiles' = {}
  BY <1>1, <1>3 DEF PlacedFiles, DeletedFiles, CreatedFiles
<1>6. \A t \in deletions' : presence'[t] = "unknown"
  BY <1>1 DEF Validate, TypeInv, TypeOK
<1>7. Len(staged) \in Nat
  BY LenProperties DEF TypeInv, TypeOK
<1>8. pc' \notin Replacing \cup Settled
  BY <1>1 DEF Replacing, Settled
<1>9. AppliedInv'
  BY <1>1, <1>4, <1>5, <1>6, <1>7, <1>8 DEF AppliedInv, AtWorkOn
<1> QED BY <1>1, <1>2, <1>9 DEF ApplyInv, RunsInv, DirectInv, Forward

\* commit works on a plan that does not change.
LEMMA ApplyFrame ==
    ASSUME UNCHANGED <<staged, deletions>>
    PROVE  /\ Dests' = Dests /\ (PlanApart' <=> PlanApart)
           /\ at' = at => PlacedFiles' = PlacedFiles
           /\ left' = left => DeletedFiles' = DeletedFiles
           /\ created' = created => CreatedFiles' = CreatedFiles
BY DEF Dests, PlanApart, PlacedFiles, DeletedFiles, CreatedFiles

LEMMA ApplyBackUp == ASSUME TypeInv, ApplyInv, BackUp PROVE ApplyInv'
<1> DEFINE t == staged[at].dest
<1>1. /\ pc = "backup" /\ pc' \in {"moved", "placing"} /\ target' = t /\ at \in 1..Len(staged)
      /\ UNCHANGED <<origin, backups, created, staged, deletions, presence, at, left, outcome>>
  BY DEF BackUp, MoveAside, plan, caller, TypeInv, CursorInv
<1>2. t \in Texts /\ Real[t] \in Files
  BY <1>1, StagedText, RealAssumption
<1>3. disk' = disk \/ disk' = [disk EXCEPT ![Real[t]] = "absent"]
  BY DEF BackUp, MoveAside
<1> HIDE DEF t
<1>4. outcome = "running" /\ at # 0
  BY <1>1 DEF ApplyInv, RunsInv, Forward
<1>5. \A f \in Files : ~AtWorkOn(f)
  BY <1>1 DEF AtWorkOn, Replacing
<1>6. \A f \in Files : f # Real[t] => disk'[f] = disk[f]
  BY <1>2, <1>3 DEF TypeInv, TypeOK
<1>7. \A f \in Files : f = Real[t] => AtWorkOn(f)'
  BY <1>1 DEF AtWorkOn, Replacing
<1>8. PlanApart' => \A f \in Files : AtWorkOn(f)' \/
          disk'[f] = CASE f \in PlacedFiles'  -> "new"
                       [] f \in DeletedFiles' -> "absent"
                       [] OTHER               -> origin'[f]
  <2>1. PlacedFiles' = PlacedFiles /\ DeletedFiles' = DeletedFiles /\ origin' = origin /\ (PlanApart' <=> PlanApart)
    BY <1>1, ApplyFrame
  <2>2. PlanApart => \A f \in Files :
          disk[f] = CASE f \in PlacedFiles  -> "new"
                      [] f \in DeletedFiles -> "absent"
                      [] OTHER              -> origin[f]
    BY <1>4, <1>5 DEF ApplyInv, AppliedInv
  <2> QED BY <1>6, <1>7, <2>1, <2>2
<1>9. AppliedInv'
  BY <1>1, <1>4, <1>8, ApplyFrame DEF ApplyInv, AppliedInv, Replacing, Settled, t
<1> QED BY <1>1, <1>4, <1>9 DEF ApplyInv, RunsInv, DirectInv, Forward

LEMMA ApplyAppendBackup == ASSUME TypeInv, ApplyInv, AppendBackup PROVE ApplyInv'
<1>1. /\ pc = "moved" /\ pc' = (IF at <= Len(staged) THEN "placing" ELSE "deleting") /\ at # 0
      /\ UNCHANGED <<origin, disk, created, staged, deletions, presence, left, target, at, outcome>>
  BY DEF AppendBackup, plan, caller, TypeInv, CursorInv
<1>2. outcome = "running"
  BY <1>1 DEF ApplyInv, RunsInv, Forward
<1>3. \A f \in Files : AtWorkOn(f)' <=> AtWorkOn(f)
  BY <1>1 DEF AtWorkOn, Replacing
<1>4. AppliedInv'
  BY <1>1, <1>2, <1>3, ApplyFrame DEF ApplyInv, AppliedInv, Replacing, Settled
<1> QED BY <1>1, <1>2, <1>4 DEF ApplyInv, RunsInv, DirectInv, Forward

LEMMA ApplyPlace == ASSUME TypeInv, ApplyInv, Place PROVE ApplyInv'
<1>1. /\ pc = "placing" /\ pc' = "placed" /\ at \in 1..Len(staged)
      /\ disk' = [disk EXCEPT ![Real[target]] = "new"]
      /\ UNCHANGED <<origin, created, staged, deletions, presence, left, target, at, outcome>>
  BY DEF Place, Rest, plan, caller, TypeInv, CursorInv
<1>2. outcome = "running" /\ at # 0 /\ at <= Len(staged)
  BY <1>1 DEF ApplyInv, RunsInv, Forward
<1>3. disk'[Real[target]] = "new" /\ \A f \in Files : f # Real[target] => disk'[f] = disk[f]
  BY <1>1, RealAssumption DEF TypeInv, TypeOK
<1>4. \A f : (AtWorkOn(f)' <=> AtWorkOn(f)) /\ (AtWorkOn(f) <=> f = Real[target])
  BY <1>1, <1>2 DEF AtWorkOn, Replacing
<1>5. AppliedInv'
  BY <1>1, <1>2, <1>3, <1>4, ApplyFrame DEF ApplyInv, AppliedInv, Replacing, Settled
<1> QED BY <1>1, <1>2, <1>5 DEF ApplyInv, RunsInv, DirectInv, Forward

LEMMA ApplyRecord == ASSUME TypeInv, ApplyInv, RecordPlaced \/ RecordContents PROVE ApplyInv'
<1>1. /\ pc \in {"placing", "placed"} /\ pc' \in {"chmod", "writing"} /\ at \in 1..Len(staged)
      /\ pc' = "chmod" => pc = "placed"
      /\ created' = Append(created, target) /\ target \in Texts
      /\ UNCHANGED <<origin, disk, staged, deletions, presence, left, target, at, outcome>>
  BY DEF RecordPlaced, RecordContents, plan, caller, TypeInv, TypeOK, CursorInv
<1>2. outcome = "running" /\ at # 0 /\ at <= Len(staged)
  BY <1>1 DEF ApplyInv, RunsInv, Forward
<1>3. target = staged[at].dest /\ target \in Dests
  BY <1>1, <1>2, StagedText DEF ApplyInv, AppliedInv, Replacing
<1>4. CreatedFiles' = CreatedFiles \cup {Real[target]}
  BY <1>1, RecordedFiles
<1>5. \A f : AtWorkOn(f)' <=> AtWorkOn(f)
  BY <1>1, <1>2 DEF AtWorkOn, Replacing
<1>6. AppliedInv'
  BY <1>1, <1>2, <1>3, <1>4, <1>5, ApplyFrame DEF ApplyInv, AppliedInv, Replacing, Settled
<1> QED BY <1>1, <1>2, <1>6 DEF ApplyInv, RunsInv, DirectInv, Forward

LEMMA ApplyWrite == ASSUME TypeInv, ApplyInv, Write PROVE ApplyInv'
<1>1. /\ pc = "writing" /\ pc' = (IF at = 0 THEN "open" ELSE "chmod") /\ at \in 0..Len(staged)
      /\ disk' = [disk EXCEPT ![Real[target]] = "new"]
      /\ UNCHANGED <<origin, created, staged, deletions, presence, left, target, at, outcome>>
  BY DEF Write, Rest, plan, caller, TypeInv, CursorInv
<1>2. outcome = "running"
  BY <1>1 DEF ApplyInv, RunsInv, Forward
<1>3. /\ Real[target] \in Files /\ disk'[Real[target]] = "new"
      /\ \A f \in Files : f # Real[target] => disk'[f] = disk[f]
  BY <1>1, RealAssumption DEF TypeInv, TypeOK
<1>4. CASE at = 0
  <2>1. DirectInv'
    BY <1>1, <1>2, <1>3, <1>4, ApplyFrame DEF ApplyInv, DirectInv, Settled
  <2> QED BY <1>1, <1>2, <1>4, <2>1 DEF ApplyInv, RunsInv, AppliedInv, Forward
<1>5. CASE at # 0
  <2>1. \A f : (AtWorkOn(f)' <=> AtWorkOn(f)) /\ (AtWorkOn(f) <=> f = Real[target])
    BY <1>1, <1>5 DEF AtWorkOn, Replacing
  <2>2. AppliedInv'
    BY <1>1, <1>2, <1>3, <1>5, <2>1, ApplyFrame DEF ApplyInv, AppliedInv, Replacing, Settled
  <2> QED BY <1>1, <1>2, <1>5, <2>2 DEF ApplyInv, RunsInv, DirectInv, Forward
<1> QED BY <1>4, <1>5

\* The file of the entry that is done joins those in place.
LEMMA ApplyChmod == ASSUME TypeInv, ApplyInv, Chmod PROVE ApplyInv'
<1>1. /\ pc = "chmod" /\ pc' \in {"backup", "deleting"} /\ at \in 1..Len(staged) /\ at' = at + 1
      /\ UNCHANGED <<origin, disk, created, staged, deletions, presence, left, target, outcome>>
  BY DEF Chmod, AfterItem, Rest, plan, caller, TypeInv, CursorInv
<1>2. outcome = "running" /\ at # 0 /\ at <= Len(staged) /\ Len(staged) \in Nat
  BY <1>1, LenProperties DEF ApplyInv, RunsInv, Forward, TypeInv, TypeOK
<1>3. Real[target] = Real[staged[at].dest] /\ disk[Real[target]] = "new"
  BY <1>1, <1>2 DEF ApplyInv, AppliedInv, Replacing
<1>4. PlacedFiles' = PlacedFiles \cup {Real[target]}
  <2>1. {j \in 1..Len(staged) : j < at + 1} = {j \in 1..Len(staged) : j < at} \cup {at}
    BY <1>1, <1>2
  <2> QED BY <1>1, <1>3, <2>1 DEF PlacedFiles
<1>5. \A f : ~AtWorkOn(f)' /\ (AtWorkOn(f) <=> f = Real[target])
  BY <1>1, <1>2 DEF AtWorkOn, Replacing
<1>6. PlanApart' => \A f \in Files :
          disk'[f] = CASE f \in PlacedFiles'  -> "new"
                       [] f \in DeletedFiles' -> "absent"
                       [] OTHER               -> origin'[f]
  <2>1. DeletedFiles' = DeletedFiles /\ origin' = origin /\ disk' = disk /\ (PlanApart' <=> PlanApart)
    BY <1>1, ApplyFrame
  <2>2. PlanApart => \A f \in Files : f = Real[target] \/
          disk[f] = CASE f \in PlacedFiles  -> "new"
                      [] f \in DeletedFiles -> "absent"
                      [] OTHER              -> origin[f]
    BY <1>2, <1>5 DEF ApplyInv, AppliedInv
  <2> SUFFICES ASSUME PlanApart, NEW f \in Files
               PROVE  disk[f] = CASE f \in PlacedFiles \cup {Real[target]} -> "new"
                                  [] f \in DeletedFiles -> "absent"
                                  [] OTHER              -> origin[f]
    BY <1>4, <2>1
  <2>3. CASE f = Real[target]
    <3>1. f \in PlacedFiles \cup {Real[target]} /\ disk[f] = "new"
      BY <1>3, <2>3
    <3>2. staged[at].dest \in Dests
      BY <1>1, StagedText
    <3>3. f \notin DeletedFiles
      BY <1>3, <2>3, <3>2 DEF PlanApart, DeletedFiles
    <3> QED BY <3>1, <3>3
  <2>4. CASE f # Real[target]
    BY <2>2, <2>4
  <2> QED BY <2>3, <2>4
<1>7. AppliedInv'
  BY <1>1, <1>2, <1>6, ApplyFrame DEF ApplyInv, AppliedInv, Replacing, Settled
<1> QED BY <1>1, <1>2, <1>7 DEF ApplyInv, RunsInv, DirectInv, Forward

\* A path to be deleted that is still there is moved aside, and it is no path of the plan.
LEMMA ApplyDeletion ==
    ASSUME TypeInv, ApplyInv, NEW t \in Texts, BackUpDeletion(t) PROVE ApplyInv'
<1>1. /\ pc = "deleting" /\ pc' \in {"moved", "deleting"} /\ target' = t /\ at > Len(staged)
      /\ t \in left /\ left' = left \ {t}
      /\ UNCHANGED <<origin, created, staged, deletions, presence, at, outcome>>
  BY DEF BackUpDeletion, MoveAside, Rest, plan, caller, TypeInv, CursorInv
<1>2. outcome = "running" /\ at # 0 /\ Len(staged) \in Nat /\ at \in Nat
  BY <1>1, LenProperties DEF ApplyInv, RunsInv, Forward, TypeInv, TypeOK
<1>3. t \in deletions /\ presence[t] = "unknown" /\ Real[t] \in Files
  BY <1>1, <1>2, RealAssumption DEF ApplyInv, AppliedInv
<1>4. disk'[Real[t]] = "absent" /\ \A f \in Files : f # Real[t] => disk'[f] = disk[f]
  BY <1>3 DEF BackUpDeletion, NeedsBackup, MoveAside, TypeInv, TypeOK
<1>5. DeletedFiles' = DeletedFiles \cup {Real[t]}
  BY <1>1, <1>3 DEF DeletedFiles
<1>6. \A f : ~AtWorkOn(f) /\ ~AtWorkOn(f)'
  BY <1>1, <1>2 DEF AtWorkOn
<1>7. PlacedFiles \subseteq {Real[d] : d \in Dests}
  BY LenProperties DEF PlacedFiles, Dests, TypeInv, TypeOK
<1>8. PlanApart => Real[t] \notin PlacedFiles
  BY <1>3, <1>7 DEF PlanApart
<1>9. PlanApart' => \A f \in Files :
          disk'[f] = CASE f \in PlacedFiles'  -> "new"
                       [] f \in DeletedFiles' -> "absent"
                       [] OTHER               -> origin'[f]
  BY <1>1, <1>2, <1>4, <1>5, <1>6, <1>8, ApplyFrame DEF ApplyInv, AppliedInv
<1>10. AppliedInv'
  BY <1>1, <1>2, <1>9, ApplyFrame DEF ApplyInv, AppliedInv, Replacing, Settled
<1> QED BY <1>1, <1>2, <1>10 DEF ApplyInv, RunsInv, DirectInv, Forward

\* From the last deletion to the end nothing changes on disk.
LEMMA ApplyEnding ==
    ASSUME TypeInv, ApplyInv, EndCommit \/ Finalize \/ DropSlots \/ MarkFinished, outcome # "raised"
    PROVE  ApplyInv'
<1>1. /\ pc \in {"deleting", "retained", "closing", "closed"} /\ pc' \in Settled
      /\ pc = "deleting" => left = {} /\ at > Len(staged)
      /\ pc' = "done" => outcome' = "committed"
      /\ pc' # "done" => outcome' = outcome
      /\ UNCHANGED <<origin, disk, created, staged, deletions, presence, at, left, target>>
  <2> USE DEF Rest, plan, caller, TypeInv, TypeOK, CursorInv, Settled
  <2>1. CASE EndCommit
    BY <2>1 DEF EndCommit
  <2>2. CASE Finalize
    BY <2>2 DEF Finalize
  <2>3. CASE DropSlots
    BY <2>3 DEF DropSlots
  <2>4. CASE MarkFinished
    BY <2>4 DEF MarkFinished
  <2> QED BY <2>1, <2>2, <2>3, <2>4
<1>2. outcome = "running" /\ pc \notin Replacing /\ pc' \notin Replacing
  BY <1>1 DEF ApplyInv, RunsInv, TypeInv, TypeOK, Replacing, Settled
<1>3. \A f : ~AtWorkOn(f) /\ ~AtWorkOn(f)'
  BY <1>2 DEF AtWorkOn
<1>4. AppliedInv'
  BY <1>1, <1>2, <1>3, ApplyFrame DEF ApplyInv, AppliedInv, Settled
<1>5. DirectInv'
  BY <1>1, <1>2, ApplyFrame DEF ApplyInv, DirectInv, Settled
<1>6. RunsInv'
  BY <1>1, <1>2 DEF RunsInv, Forward, Settled
<1> QED BY <1>4, <1>5, <1>6 DEF ApplyInv

LEMMA ApplyStep == ASSUME TypeInv, ApplyInv, [Next]_vars PROVE ApplyInv'
<1>1. CASE Stage
  BY <1>1, ApplyStage
<1>2. CASE Commit
  BY <1>2, ApplyValidate, ApplyBackUp, ApplyAppendBackup, ApplyPlace, ApplyRecord, ApplyWrite, ApplyChmod,
     ApplyDeletion, ApplyEnding, ApplyRaised
     DEF Commit, ValidateRefuses, PlaceClashes, RollBackRetained, ToRollback, Forward, EndCommit, Finalize,
         ApplyInv, RunsInv
<1>3. CASE Finish
  <2>1. CASE outcome # "raised"
    BY <1>3, <2>1, ApplyEnding DEF Finish
  <2>2. CASE outcome = "raised"
    BY <1>3, <2>2, ApplyRaised DEF Finish, DropSlots, MarkFinished, Forward
  <2> QED BY <2>1, <2>2
<1>4. CASE Rollback \/ LstatFails
  <2>1. pc \in {"removing", "restoring"} /\ pc' \in {"removing", "restoring", "closing"} /\ outcome' = outcome
    BY <1>4 DEF Rollback, RemoveCreated, CreatedRemoved, Restore, BackupsRestored, LstatFails
  <2>2. outcome = "raised"
    BY <2>1 DEF ApplyInv, RunsInv, Forward, TypeInv, TypeOK
  <2> QED BY <2>1, <2>2, ApplyRaised DEF Forward
<1>5. CASE Fault /\ ~LstatFails
  <2>1. outcome' = "raised" /\ pc' \in {"removing", "done"}
    BY <1>5 DEF Fault, CallFails, CopyFails, Interrupt, InterruptInGap, RollbackFails, ToRollback, Unwind
  <2> QED BY <2>1, ApplyRaised DEF Forward
<1>6. CASE UNCHANGED vars
  BY <1>6, ApplyFrame DEF vars, plan, caller, ApplyInv, RunsInv, DirectInv, AppliedInv, AtWorkOn
<1> QED BY <1>1, <1>2, <1>3, <1>4, <1>5, <1>6 DEF Next, Terminated

\* A commit that returns has done its plan, all of it and nothing else, and a caller that
\* recorded files itself has them, whatever the plan and however its paths alias.
THEOREM CommitIsExact == Spec => []CommitApplies
<1> DEFINE Inv == TypeInv /\ ApplyInv
<1>1. Init => Inv
  BY TypeInit, ApplyInit
<1>2. Inv /\ [Next]_vars => Inv'
  <2>1. TypeInv /\ [Next]_vars => TypeInv'
    BY TypeStage, TypeCommit, TypeRollback, TypeStutter DEF Next, Terminated
  <2> QED BY <2>1, ApplyStep
<1>3. Inv => CommitApplies
  <2> SUFFICES ASSUME Inv, outcome = "committed", PlanApart, NEW f \in Files
               PROVE  disk[f] = CASE f \in {Real[t] : t \in Dests}      -> "new"
                                  [] f \in {Real[t] : t \in deletions}  -> "absent"
                                  [] f \in {Real[created[i]] : i \in DOMAIN created} -> "new"
                                  [] OTHER -> origin[f]
    BY DEF CommitApplies
  <2>1. pc = "done" /\ DOMAIN created = 1..Len(created) /\ DOMAIN staged = 1..Len(staged) /\ Len(staged) \in Nat
    BY LenProperties DEF ApplyInv, RunsInv, TypeInv, TypeOK
  <2>2. CreatedFiles = {Real[created[i]] : i \in DOMAIN created}
    BY <2>1 DEF CreatedFiles
  <2>3. CASE at = 0
    <3>1. Dests = {} /\ deletions = {}
      BY <2>1, <2>3 DEF ApplyInv, DirectInv, Settled, Dests
    <3>2. disk[f] = IF f \in CreatedFiles THEN "new" ELSE origin[f]
      BY <2>1, <2>3 DEF ApplyInv, DirectInv
    <3> QED BY <2>2, <3>1, <3>2
  <2>4. CASE at # 0
    <3>1. at > Len(staged) /\ left = {} /\ CreatedFiles \subseteq {Real[t] : t \in Dests}
      BY <2>1, <2>4 DEF ApplyInv, AppliedInv, Settled
    <3>2. at \in Nat
      BY DEF TypeInv, TypeOK
    <3>3. {j \in 1..Len(staged) : j < at} = 1..Len(staged)
      BY <2>1, <3>1, <3>2
    <3>4. PlacedFiles = {Real[t] : t \in Dests} /\ DeletedFiles = {Real[t] : t \in deletions}
      BY <2>1, <3>1, <3>3 DEF PlacedFiles, DeletedFiles, Dests
    <3>5. ~AtWorkOn(f)
      BY <2>1 DEF AtWorkOn, Replacing
    <3>6. disk[f] = CASE f \in PlacedFiles  -> "new"
                      [] f \in DeletedFiles -> "absent"
                      [] OTHER              -> origin[f]
      BY <2>4, <3>5 DEF ApplyInv, AppliedInv
    <3> QED BY <2>2, <3>1, <3>4, <3>6
  <2> QED BY <2>3, <2>4
<1> QED BY <1>1, <1>2, <1>3, PTL DEF Spec

------------------------------------------------------------------------------------
(* What was replaced is somewhere until the commit is over, also when a copy left a part *)
(* of its destination that no list names.                                              *)

Bearable == Undoable \cup {"partial"}

Held(f) == origin[f] = "absent" \/ disk[f] = origin[f]

\* The first n slots still hold what they took from the files that are not held.
SlotsKeep(n) ==
    /\ FirstSlotsHoldOrigin(n)
    /\ \A f \in Files : ~BackedUp(f, n) => Held(f)

KeepingInv ==
    /\ pc = "removing" => /\ undo <= Len(created)
                          /\ SlotsKeep(Len(backups))
                          /\ \A i \in 1..Len(created) : Justified(Real[created[i]])
    /\ pc = "restoring" => undo <= Len(backups) /\ SlotsKeep(Len(backups) - undo)
    /\ pc = "closing" /\ outcome = "running" => SlotsKeep(Len(backups))
    /\ pc \in {"closing", "closed", "done"} /\ outcome = "raised" => \A f \in Files : Held(f)

LostInv ==
    /\ pc \in Forward => hit = {}
    /\ hit \subseteq Bearable /\ NoLinks => KeepingInv

LEMMA LostInit == Init => LostInv
BY DEF Init, LostInv, KeepingInv

\* A file with a backup among the first n has a first one among them.
LEMMA FirstExists ==
    ASSUME NEW n \in Nat, NEW f, BackedUp(f, n)
    PROVE  \E i \in 1..n : Real[backups[i].orig] = f /\ FirstBackup(i)
<1> DEFINE I == {i \in 1..n : Real[backups[i].orig] = f}
<1>1. I \subseteq Nat /\ I # {}
  BY DEF BackedUp
<1>2. PICK i \in I : \A j \in I : ~(<<j, i>> \in OpToRel(<, Nat))
  BY ONLY <1>1, WFMin, NatLessThanWellFounded
<1>3. \A j \in I : ~(j < i)
  BY <1>1, <1>2 DEF OpToRel
<1>4. ~BackedUp(f, i - 1)
  <2>1. \A j \in 1..(i - 1) : j \in 1..n /\ j < i
    OBVIOUS
  <2> QED BY <1>3, <2>1 DEF BackedUp
<1> QED BY <1>2, <1>4 DEF FirstBackup

\* What NothingLost asks of a file, where the slots keep it.
LEMMA KeptInSlots ==
    ASSUME TypeInv, NEW n \in 0..Len(backups), FirstSlotsHoldOrigin(n), NEW f, BackedUp(f, n)
    PROVE  \E i \in DOMAIN backups : Real[backups[i].orig] = f /\ backups[i].slot = origin[f]
<1>1. Len(backups) \in Nat /\ DOMAIN backups = 1..Len(backups)
  BY LenProperties DEF TypeInv, TypeOK
<1>2. PICK i \in 1..n : Real[backups[i].orig] = f /\ FirstBackup(i)
  BY <1>1, FirstExists
<1> QED BY <1>1, <1>2 DEF FirstSlotsHoldOrigin

\* Until it ends, a commit has not lost anything: what has no backup is there.
LEMMA ForwardKeeps ==
    ASSUME Recoverable, pc \in Forward \ {"moved"}
    PROVE  SlotsKeep(Len(backups))
BY DEF Recoverable, ForwardInv, SlotsKeep, Held, HasBackup

LEMMA LostForward ==
    ASSUME [Next]_vars, pc' \in Forward
    PROVE  pc \in Forward /\ hit' = hit
BY DEF Next, Terminated, Stage, Commit, Rollback, Finish, Fault, Add, Delete, RecordCreated,
       StagingFails, FinishDirect, StartCommit, Validate, ValidateRefuses, BackUp,
       AppendBackup, Place, PlaceClashes, RecordPlaced, RecordContents, Write, Chmod,
       BackUpDeletion, EndCommit, Finalize, RollBackRetained, RemoveCreated, CreatedRemoved,
       Restore, BackupsRestored, DropSlots, MarkFinished, CallFails, CopyFails, Interrupt,
       InterruptInGap, RollbackFails, LstatFails, Rest, plan, caller, vars, ToRollback, Unwind, Forward, InCommit,
       MoveAside

\* A copy that stops half way leaves its part where nothing was or where a backup is.
LEMMA LostCopy ==
    ASSUME TypeInv, Recoverable, CopyFails PROVE KeepingInv'
<1>1. /\ pc = "placing" /\ pc' = "removing" /\ undo' = 0 /\ outcome' = "raised"
      /\ UNCHANGED <<origin, backups, created, staged, deletions>>
  BY DEF CopyFails, ToRollback, Rest, plan, caller
<1>2. Real[target] \in Files /\ \A f \in Files : f # Real[target] => disk'[f] = disk[f]
  BY RealAssumption DEF CopyFails, TypeInv, TypeOK
<1>3. Justified(Real[target]) /\ \A i \in 1..Len(created) : Justified(Real[created[i]])
  BY <1>1 DEF Recoverable, ForwardInv, Forward
<1>4. SlotsKeep(Len(backups))
  BY <1>1, ForwardKeeps DEF Forward
<1>5. Len(created) \in Nat
  BY LenProperties DEF TypeInv, TypeOK
<1>6. \A f, n : BackedUp(f, n)' <=> BackedUp(f, n)
  BY <1>1 DEF BackedUp
<1>7. (\A i \in 1..Len(created) : Justified(Real[created[i]]))'
  BY <1>1, <1>3 DEF Justified, HasBackup, BackedUp
<1>8. FirstSlotsHoldOrigin(Len(backups))'
  BY <1>1, <1>4 DEF SlotsKeep, FirstSlotsHoldOrigin, FirstBackup, BackedUp
<1>9. ASSUME NEW f \in Files, ~BackedUp(f, Len(backups))' PROVE Held(f)'
  <2>1. ~HasBackup(f) /\ Held(f)
    BY <1>1, <1>4, <1>9 DEF SlotsKeep, HasBackup, BackedUp
  <2> QED BY <1>1, <1>2, <1>3, <2>1 DEF Held, Justified
<1>10. SlotsKeep(Len(backups))'
  BY <1>8, <1>9 DEF SlotsKeep
<1> QED BY <1>1, <1>5, <1>7, <1>10 DEF KeepingInv

LEMMA LostEnding ==
    ASSUME Recoverable, EndCommit \/ Finalize \/ FinishDirect PROVE (pc' = "closing" => KeepingInv')
<1>1. /\ pc \in Forward \ {"moved"} /\ outcome' = "running"
      /\ UNCHANGED <<disk, origin, backups, created, undo>>
  BY DEF EndCommit, Finalize, FinishDirect, Rest, plan, caller, Forward, Recoverable, ControlInv
<1>2. SlotsKeep(Len(backups))
  BY <1>1, ForwardKeeps
<1>3. SlotsKeep(Len(backups))'
  BY <1>1, <1>2 DEF SlotsKeep, FirstSlotsHoldOrigin, FirstBackup, BackedUp, Held
<1> QED BY <1>1, <1>3 DEF KeepingInv

LEMMA LostRemove ==
    ASSUME TypeInv, KeepingInv, RemoveCreated PROVE KeepingInv'
<1>1. /\ pc = "removing" /\ pc' = "removing" /\ undo' = undo + 1 /\ undo < Len(created)
      /\ UNCHANGED <<origin, backups, created>>
  BY DEF RemoveCreated, Rest, plan, caller
<1>2. Len(created) \in Nat /\ undo \in Nat
  BY LenProperties DEF TypeInv, TypeOK
<1>3. Len(created) - undo \in 1..Len(created)
  BY ONLY <1>1, <1>2
<1> PICK i \in 1..Len(created) : i = Len(created) - undo
  BY ONLY <1>3
<1>4. disk' = [disk EXCEPT ![Real[created[i]]] = "absent"]
  BY <1>3 DEF RemoveCreated, Last
<1>5. Justified(Real[created[i]])
  BY <1>1 DEF KeepingInv
<1>6. \A f \in Files : f # Real[created[i]] => disk'[f] = disk[f]
  BY <1>4 DEF TypeInv, TypeOK
<1>7. (\A j \in 1..Len(created) : Justified(Real[created[j]]))'
  BY <1>1 DEF KeepingInv, Justified, HasBackup, BackedUp
<1>8. FirstSlotsHoldOrigin(Len(backups))'
  BY <1>1 DEF KeepingInv, SlotsKeep, FirstSlotsHoldOrigin, FirstBackup, BackedUp
<1>9. ASSUME NEW f \in Files, ~BackedUp(f, Len(backups))' PROVE Held(f)'
  <2>1. ~HasBackup(f) /\ Held(f)
    BY <1>1, <1>9 DEF KeepingInv, SlotsKeep, HasBackup, BackedUp
  <2> QED BY <1>1, <1>5, <1>6, <2>1 DEF Held, Justified
<1>10. SlotsKeep(Len(backups))'
  BY <1>8, <1>9 DEF SlotsKeep
<1> QED BY <1>1, <1>2, <1>7, <1>10 DEF KeepingInv

\* As in InvRestore: the last slot put back for a file is its first.
LEMMA LostRestore ==
    ASSUME TypeInv, KeepingInv, NoLinks, Restore PROVE KeepingInv'
<1>1. /\ pc = "restoring" /\ pc' = "restoring" /\ undo' = undo + 1 /\ undo < Len(backups)
      /\ UNCHANGED <<origin, created>>
  BY DEF Restore, plan, caller
<1>2. backups \in Seq([orig: Texts, slot: Slots]) /\ Len(backups) \in Nat /\ undo \in Nat
  BY LenProperties DEF TypeInv, TypeOK
<1>3. Len(backups) - undo \in 1..Len(backups)
  BY ONLY <1>1, <1>2
<1> PICK n \in 1..Len(backups) : n = Len(backups) - undo
  BY ONLY <1>3
<1>4. backups[n] \in [orig: Texts, slot: Slots]
  BY ONLY <1>2, n \in 1..Len(backups), ElementOfSeq
<1> PICK b \in [orig: Texts, slot: Slots] : b = backups[n]
  BY ONLY <1>4
<1> PICK f \in Files : f = Real[b.orig]
  BY RealAssumption
<1> DEFINE gone == [orig |-> b.orig, slot |-> "gone"]
<1>5. IF SlotExists(b)
        THEN disk' = [disk EXCEPT ![f] = b.slot] /\ backups' = [backups EXCEPT ![n] = gone]
        ELSE disk' = disk /\ backups' = backups
  BY DEF Restore
<1>6. /\ Len(backups') = Len(backups)
      /\ \A i \in 1..Len(backups) : backups'[i].orig = backups[i].orig
      /\ \A i \in 1..(n - 1) : backups'[i] = backups[i]
  <2>1. gone \in [orig: Texts, slot: Slots]
    OBVIOUS
  <2>2. CASE SlotExists(b)
    BY <1>2, <1>5, <2>1, <2>2, ExceptSeq
  <2>3. CASE ~SlotExists(b)
    BY <1>5, <2>3
  <2> QED BY <2>2, <2>3
<1>7. disk \in [Files -> Contents] /\ origin \in [Files -> Contents \ {"torn"}]
  BY DEF TypeInv, TypeOK
<1>8. \A g \in Files : g # f => disk'[g] = disk[g]
  BY <1>5, <1>7
<1>9. FirstSlotsHoldOrigin(n) /\ \A g \in Files : ~BackedUp(g, n) => Held(g)
  BY <1>1 DEF KeepingInv, SlotsKeep
<1>10. FirstBackup(n) => disk'[f] = origin[f]
  <2> SUFFICES ASSUME FirstBackup(n) PROVE disk'[f] = origin[f]
    OBVIOUS
  <2>1. b.slot = origin[f] /\ origin[f] # "absent"
    BY <1>2, <1>9 DEF FirstSlotsHoldOrigin
  <2>2. SlotExists(b)
    BY <1>7, <2>1 DEF SlotExists, NoLinks
  <2> QED BY <1>5, <1>7, <2>1, <2>2
<1>11. \A g \in Files : ~BackedUp(g, n - 1) => origin[g] = "absent" \/ disk'[g] = origin[g]
  <2> TAKE g \in Files
  <2>1. CASE g = f
    BY <1>10, <2>1 DEF FirstBackup
  <2>2. CASE g # f
    <3>1. BackedUp(g, n) => BackedUp(g, n - 1)
      BY <1>2, <2>2 DEF BackedUp
    <3> QED BY <1>8, <1>9, <2>2, <3>1 DEF Held
  <2> QED BY <2>1, <2>2
<1>12. \A g : \A i \in 0..(n - 1) : BackedUp(g, i)' <=> BackedUp(g, i)
  <2> TAKE g
  <2> TAKE i \in 0..(n - 1)
  <2>1. \A j \in 1..i : j \in 1..(n - 1)
    BY ONLY <1>2, n \in 1..Len(backups), i \in 0..(n - 1)
  <2> QED BY <1>6, <2>1 DEF BackedUp
<1>13. \A i \in 1..(n - 1) : FirstBackup(i)' <=> FirstBackup(i)
  BY <1>2, <1>6, <1>12 DEF FirstBackup
<1>14. Len(backups') - undo' = n - 1
  BY <1>1, <1>2, <1>6
<1>15. (\A i \in 1..(n - 1) :
            FirstBackup(i) => /\ backups[i].slot = origin[Real[backups[i].orig]]
                              /\ origin[Real[backups[i].orig]] # "absent")'
  <2>1. \A i \in 1..(n - 1) : i \in 1..n
    BY ONLY n \in 1..Len(backups), <1>2
  <2>2. \A i \in 1..(n - 1) : FirstBackup(i) => /\ backups[i].slot = origin[Real[backups[i].orig]]
                                               /\ origin[Real[backups[i].orig]] # "absent"
    BY <1>9, <2>1 DEF FirstSlotsHoldOrigin
  <2> QED BY <1>1, <1>6, <1>13, <2>2
<1>16. (\A g \in Files : ~BackedUp(g, n - 1) => Held(g))'
  BY <1>1, <1>2, <1>11, <1>12 DEF Held
<1> QED BY <1>1, <1>2, <1>6, <1>14, <1>15, <1>16 DEF KeepingInv, SlotsKeep, FirstSlotsHoldOrigin

\* The steps of rollback and of the end that change no file.
LEMMA LostQuiet ==
    ASSUME TypeInv, KeepingInv, RunsInv,
           CreatedRemoved \/ BackupsRestored \/ DropSlots \/ MarkFinished \/ UNCHANGED vars,
           pc \notin Forward
    PROVE  KeepingInv'
<1>1. Len(created) \in Nat /\ Len(backups) \in Nat
  BY LenProperties DEF TypeInv, TypeOK
<1>2. CASE CreatedRemoved
  BY <1>1, <1>2 DEF CreatedRemoved, Rest, plan, caller, KeepingInv, SlotsKeep, FirstSlotsHoldOrigin, FirstBackup,
                    BackedUp, Held
<1>3. CASE BackupsRestored
  <2>1. /\ pc = "restoring" /\ pc' = "closing" /\ undo = Len(backups)
        /\ UNCHANGED <<outcome, disk, origin>>
    BY <1>3 DEF BackupsRestored, Rest, plan, caller
  <2>2. outcome = "raised"
    BY <2>1 DEF RunsInv, Forward, TypeInv, TypeOK
  <2>3. \A f \in Files : ~BackedUp(f, 0) => Held(f)
    BY <1>1, <2>1 DEF KeepingInv, SlotsKeep
  <2>4. \A f \in Files : Held(f)
    BY <2>3 DEF BackedUp
  <2> QED BY <2>1, <2>2, <2>4 DEF KeepingInv, Held
<1>4. CASE DropSlots
  BY <1>4 DEF DropSlots, plan, caller, KeepingInv, Held
<1>5. CASE MarkFinished
  BY <1>5 DEF MarkFinished, plan, caller, KeepingInv, Held
<1>6. CASE UNCHANGED vars
  BY <1>6 DEF vars, plan, caller, KeepingInv, SlotsKeep, FirstSlotsHoldOrigin, FirstBackup, BackedUp, Held, Justified,
              HasBackup
<1> QED BY <1>2, <1>3, <1>4, <1>5, <1>6

LEMMA LostStep ==
    ASSUME TypeInv, RunsInv, RunsInv', IInv, IInv', LostInv, [Next]_vars PROVE LostInv'
<1> SUFFICES ASSUME pc' \notin Forward, hit' \subseteq Bearable', NoLinks' PROVE KeepingInv'
  BY LostForward DEF LostInv, KeepingInv, Forward
<1>1. hit \subseteq hit' /\ UNCHANGED caller
  BY DEF Next, Terminated, Stage, Commit, Rollback, Finish, Fault, Add, Delete, RecordCreated,
         StagingFails, FinishDirect, StartCommit, Validate, ValidateRefuses, BackUp,
         AppendBackup, Place, PlaceClashes, RecordPlaced, RecordContents, Write, Chmod,
         BackUpDeletion, EndCommit, Finalize, RollBackRetained, RemoveCreated, CreatedRemoved,
         Restore, BackupsRestored, DropSlots, MarkFinished, CallFails, CopyFails, Interrupt,
         InterruptInGap, RollbackFails, LstatFails, Injected, Rest, vars
<1>2. hit' \subseteq Bearable /\ hit \subseteq Bearable /\ NoLinks /\ Bearable' = Bearable /\ Undoable' = Undoable
  BY <1>1 DEF Bearable, Undoable, NoLinks, caller
<1>3. CASE pc \in Forward
  <2>1. hit = {} /\ Recoverable
    BY <1>2, <1>3 DEF LostInv, IInv
  <2>2. CASE CopyFails
    BY <2>1, <2>2, LostCopy
  <2>3. CASE ~CopyFails
    <3>1. hit' \subseteq Undoable
      BY <1>2, <1>3, <2>1, <2>3
         DEF Next, Terminated, Stage, Commit, Rollback, Finish, Fault, Add, Delete, RecordCreated,
         StagingFails, FinishDirect, StartCommit, Validate, ValidateRefuses, BackUp,
         AppendBackup, Place, PlaceClashes, RecordPlaced, RecordContents, Write, Chmod,
         BackUpDeletion, EndCommit, Finalize, RollBackRetained, RemoveCreated, CreatedRemoved,
         Restore, BackupsRestored, DropSlots, MarkFinished, CallFails, Interrupt,
         InterruptInGap, RollbackFails, LstatFails, Injected, Rest, vars, Bearable
    <3>2. Recoverable'
      BY <1>2, <3>1 DEF IInv
    <3>3. CASE pc' = "closing"
      <4>1. EndCommit \/ Finalize \/ FinishDirect
        BY <1>3, <3>3 DEF Next, Terminated, Stage, Commit, Rollback, Finish, Fault, Add, Delete, RecordCreated,
         StagingFails, StartCommit, Validate, ValidateRefuses, BackUp, MoveAside, AfterItem,
         AppendBackup, Place, PlaceClashes, RecordPlaced, RecordContents, Write, Chmod,
         BackUpDeletion, RollBackRetained, RemoveCreated, CreatedRemoved,
         Restore, BackupsRestored, DropSlots, MarkFinished, CallFails, CopyFails, Interrupt,
         InterruptInGap, RollbackFails, LstatFails, Rest, vars, ToRollback, Unwind, Forward
      <4> QED BY <2>1, <3>3, <4>1, LostEnding
    <3>4. CASE pc' # "closing"
      <4>1. Recoverable' /\ ~(pc \in Forward)' /\ (pc = "closing" => outcome # "running")' => KeepingInv'
        BY DEF Recoverable, ControlInv, RemovingInv, RestoringInv, EndInv, KeepingInv, SlotsKeep, Held, HasBackup
      <4> QED BY <3>2, <3>4, <4>1
    <3> QED BY <3>3, <3>4
  <2> QED BY <2>2, <2>3
<1>4. CASE pc \notin Forward
  <2>1. KeepingInv
    BY <1>2 DEF LostInv
  <2>2. ~(RollbackFails \/ LstatFails \/ InterruptInGap)
    BY <1>2 DEF RollbackFails, LstatFails, InterruptInGap, Injected, Bearable, Undoable
  <2>3. RemoveCreated \/ CreatedRemoved \/ Restore \/ BackupsRestored \/ DropSlots \/ MarkFinished \/ UNCHANGED vars
    BY <1>4, <2>2
       DEF Next, Terminated, Stage, Commit, Rollback, Finish, Fault, Add, Delete, RecordCreated,
         StagingFails, FinishDirect, StartCommit, Validate, ValidateRefuses, BackUp,
         AppendBackup, Place, PlaceClashes, RecordPlaced, RecordContents, Write, Chmod,
         BackUpDeletion, EndCommit, Finalize, RollBackRetained,
         CallFails, CopyFails, Interrupt, InCommit, Forward
  <2> QED BY <1>2, <1>4, <2>1, <2>3, LostRemove, LostRestore, LostQuiet
<1> QED BY <1>3, <1>4

\* Until a commit is over, what a replaced or deleted file held is on disk, in a listed slot or in
\* the one about to be listed: also when a copy failed half way and all through the rollback, for
\* any plan and however its paths alias.
THEOREM NothingIsLost == Spec => []NothingLost
<1> DEFINE Inv == TypeInv /\ ApplyInv /\ IInv /\ LostInv
<1>1. Init => Inv
  BY TypeInit, ApplyInit, InvInit, LostInit
<1>2. Inv /\ [Next]_vars => Inv'
  <2>1. TypeInv /\ [Next]_vars => TypeInv'
    BY TypeStage, TypeCommit, TypeRollback, TypeStutter DEF Next, Terminated
  <2>2. TypeInv /\ ApplyInv /\ [Next]_vars => ApplyInv'
    BY ApplyStep
  <2>3. TypeInv /\ IInv /\ TypeInv' /\ [Next]_vars => IInv'
    BY InvStep
  <2>4. ApplyInv => RunsInv
    BY DEF ApplyInv
  <2>5. ApplyInv' => RunsInv'
    BY DEF ApplyInv
  <2>6. TypeInv /\ RunsInv /\ RunsInv' /\ IInv /\ IInv' /\ LostInv /\ [Next]_vars => LostInv'
    BY LostStep
  <2> QED BY <2>1, <2>2, <2>3, <2>4, <2>5, <2>6
<1>3. Inv => NothingLost
  <2> SUFFICES ASSUME Inv, hit \subseteq Bearable, NoLinks, NEW f \in Files, ~Held(f), outcome # "committed",
                      ~(outcome = "running" /\ pc \in {"closed", "done"}),
                      ~(moved = origin[f] /\ Real[target] = f)
               PROVE  \E i \in DOMAIN backups : Real[backups[i].orig] = f /\ backups[i].slot = origin[f]
    BY DEF NothingLost, Bearable, Held
  <2>1. Len(backups) \in Nat /\ undo \in Nat
    BY LenProperties DEF TypeInv, TypeOK
  <2>2. CASE pc \in Forward
    <3>1. Recoverable
      BY <2>2 DEF LostInv, IInv
    <3>2. FirstSlotsHoldOrigin(Len(backups)) /\ BackedUp(f, Len(backups))
      BY <2>2, <3>1 DEF Recoverable, ForwardInv, Held, HasBackup
    <3> QED BY <2>1, <3>2, KeptInSlots
  <2>3. CASE pc \notin Forward
    <3>1. KeepingInv
      BY DEF LostInv
    <3>2. pc \in {"removing", "restoring"} \/ (pc = "closing" /\ outcome = "running")
      BY <2>3, <3>1 DEF KeepingInv, Forward, ApplyInv, RunsInv, TypeInv, TypeOK
    <3>3. CASE pc = "restoring"
      <4>1. undo <= Len(backups) /\ SlotsKeep(Len(backups) - undo) /\ Len(backups) - undo \in 0..Len(backups)
        BY <2>1, <3>1, <3>3 DEF KeepingInv
      <4>2. BackedUp(f, Len(backups) - undo) /\ FirstSlotsHoldOrigin(Len(backups) - undo)
        BY <4>1 DEF SlotsKeep
      <4> QED BY <4>1, <4>2, KeptInSlots
    <3>4. CASE pc # "restoring"
      <4>1. SlotsKeep(Len(backups))
        BY <3>1, <3>2, <3>4 DEF KeepingInv
      <4>2. BackedUp(f, Len(backups)) /\ FirstSlotsHoldOrigin(Len(backups))
        BY <4>1 DEF SlotsKeep
      <4> QED BY <2>1, <4>2, KeptInSlots
    <3> QED BY <3>3, <3>4
  <2> QED BY <2>2, <2>3
<1> QED BY <1>1, <1>2, <1>3, PTL DEF Spec
====================================================================================
