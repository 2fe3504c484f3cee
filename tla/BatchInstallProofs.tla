----------------------------- MODULE BatchInstallProofs -----------------------------
(* Proofs about batches of any number of wheels and files, on any number of threads:  *)
(* type correctness, that a batch implements AtomicBatch, that a failed call leaves    *)
(* nothing behind, and that files of others are not touched.                          *)
EXTENDS BatchInstall, FiniteSetTheorems, TLAPS

\* The tuples that the actions leave unchanged.
USE DEF workers, lists

------------------------------------------------------------------------------------
(* The steps: of the pool's threads, of the calling thread before and after the     *)
(* commit, of the commit, and of the batch transaction's rollback.                  *)

OfWorker(w) == Work(w) \/ WorkerFails(w) \/ WorkerUndoFails(w)

OfCaller ==
    \/ ChooseDirect \/ ChooseStaged \/ PoolDrained \/ Adopt \/ SerialStage \/ AddRefuses \/ AllTaken
    \/ Finalize \/ WorkersUndone \/ Drained \/ SerialFails \/ UndoWorkerFails \/ Interrupt
    \/ \E w \in Batch : Submit(w)
    \/ \E f \in Files : SerialWrite(f)
    \/ \E w \in Batch, f \in Files : UndoWorker(w, f)

OfCommit ==
    \/ Validate \/ ValidateRefuses \/ EndCommit \/ CommitFails \/ CopyFails \/ InterruptInGap
    \/ \E f \in Files : MoveAside(f) \/ Place(f)

OfRollback == Leave \/ RollbackFails \/ \E f \in Files : UndoOuter(f) \/ Restore(f)

LEMMA StepKinds ==
    ASSUME [Next]_vars
    PROVE  \/ \E w \in Batch : OfWorker(w)
           \/ OfCaller \/ OfCommit \/ OfRollback
           \/ UNCHANGED vars
BY DEF Next, MainStep, Fault, OfWorker, OfCaller, OfCommit, OfRollback, Terminated

LEMMA OfWorkerFrame ==
    ASSUME NEW w \in Batch, OfWorker(w)
    PROVE  /\ UNCHANGED <<request, route, main, adopted, outer, undone, aside>> /\ hit \subseteq hit'
           /\ worker[w] \in {"queued", "running", "undoing"}
BY DEF OfWorker, Work, Begin, WorkerEnds, WorkerRaises, WorkerWrites, WorkerUndoes, WorkerFails, WorkerUndoFails,
       Injected

LEMMA OfCallerFrame ==
    ASSUME OfCaller
    PROVE  /\ UNCHANGED <<request, undone, aside>> /\ hit \subseteq hit'
           /\ main \notin {"handling", "leaving"} \cup Ended
           /\ main = "replacing" => main' = "leaving" /\ UNCHANGED <<disk, outer>>
           /\ main' \in Ended \/ main' = "finalizing" => UNCHANGED <<disk, workers, lists>>
           /\ main' # "replacing" \/ UNCHANGED main
<1>1. CASE ChooseDirect \/ ChooseStaged \/ PoolDrained \/ Adopt \/ SerialStage \/ AddRefuses
  BY <1>1 DEF ChooseDirect, ChooseStaged, PoolDrained, Adopt, SerialStage, AddRefuses, Ended
<1>2. CASE AllTaken \/ Finalize \/ WorkersUndone \/ Drained \/ SerialFails \/ UndoWorkerFails \/ Interrupt
  BY <1>2 DEF AllTaken, Finalize, WorkersUndone, Drained, SerialFails, UndoWorkerFails, Interrupt, Injected, Ended
<1>3. ASSUME NEW w \in Batch, Submit(w) PROVE main = "submitting" /\ main' \in {main, "awaiting"}
                                                /\ UNCHANGED <<request, disk, lists, hit>>
  BY <1>3 DEF Submit
<1>4. ASSUME NEW f \in Files, SerialWrite(f) PROVE main = "serial" /\ UNCHANGED <<request, main, undone, aside, hit>>
  BY <1>4 DEF SerialWrite
<1>5. ASSUME NEW w \in Batch, NEW f \in Files, UndoWorker(w, f)
      PROVE  main = "undoing" /\ UNCHANGED <<request, main, lists, hit>>
  BY <1>5 DEF UndoWorker
<1> QED BY <1>1, <1>2, <1>3, <1>4, <1>5 DEF OfCaller, Ended

LEMMA OfCommitFrame ==
    ASSUME OfCommit
    PROVE  /\ UNCHANGED <<request, route, worker, recorded, adopted, undone>> /\ hit \subseteq hit'
           /\ main \in {"committing", "replacing"}
           /\ main' \in {"replacing", "finalizing", "handling", "leaving"}
BY DEF OfCommit, Validate, ValidateRefuses, EndCommit, CommitFails, CopyFails, InterruptInGap, MoveAside, Place,
       Movable, Placeable, Done, Injected

LEMMA OfRollbackFrame ==
    ASSUME OfRollback
    PROVE  /\ UNCHANGED <<request, route, worker, recorded, adopted, outer>> /\ hit \subseteq hit'
           /\ main \in {"handling", "leaving"} /\ main' \in {main, "leaving", "raised"}
BY DEF OfRollback, Leave, RollbackFails, UndoOuter, Restore, RollingBack, Injected

------------------------------------------------------------------------------------
(* The request, which no step changes.                                              *)

LEMMA RequestKept ==
    ASSUME [Next]_vars
    PROVE  /\ origin' = origin /\ owned' = owned /\ needs' = needs /\ pycompile' = pycompile
           /\ Batch' = Batch /\ size' = size /\ Wanted' = Wanted /\ Parallel' = Parallel
           /\ Installed' = Installed
<1>1. request' = request
  BY StepKinds, OfWorkerFrame, OfCallerFrame, OfCommitFrame, OfRollbackFrame DEF vars
<1>2. origin' = origin /\ owned' = owned /\ needs' = needs /\ pycompile' = pycompile
  BY <1>1 DEF request
<1> QED BY <1>2 DEF Batch, size, Wanted, Parallel, Installed

LEMMA PlanFacts ==
    ASSUME needs \in Plans
    PROVE  /\ size \in Nat \ {0} /\ Batch = 1..size /\ DOMAIN needs = Batch /\ IsFiniteSet(Batch)
           /\ \A w \in Batch : needs[w] \subseteq Files
           /\ Wanted \subseteq Files
           /\ \A v, w \in Batch : v # w => needs[v] \cap needs[w] \cap Generated = {}
<1>1. needs \in Seq((SUBSET Files) \ {{}}) /\ needs # <<>>
  BY PlansAssumption
<1>2. size \in Nat \ {0} /\ DOMAIN needs = 1..size
  BY <1>1 DEF size
<1>3. Batch = 1..size /\ IsFiniteSet(Batch)
  BY <1>2, FS_Interval DEF Batch
<1>4. \A w \in Batch : needs[w] \subseteq Files
  BY <1>1, <1>2, <1>3
<1> QED BY <1>2, <1>3, <1>4, PlansAssumption DEF Wanted

------------------------------------------------------------------------------------
(* Types.                                                                           *)

Mains == {"start", "submitting", "awaiting", "draining", "serial", "adopting", "committing", "replacing",
          "finalizing", "undoing", "handling", "leaving"} \cup Ended
Workers == {"idle", "queued", "running", "undoing", "ok", "failed"}

\* TypeOK but for the number of threads.
Typed ==
    /\ disk \in [Files -> Contents]
    /\ origin \in [Files -> Contents]
    /\ owned \subseteq Files
    /\ needs \in Plans
    /\ pycompile \in BOOLEAN
    /\ route \in {"none", "direct", "staged"}
    /\ main \in Mains
    /\ worker \in [Batch -> Workers]
    /\ recorded \in [Batch -> SUBSET Files]
    /\ adopted \in 0..size
    /\ undone \subseteq outer /\ outer \subseteq Files
    /\ aside \subseteq Files
    /\ hit \subseteq AllFaults

LEMMA InitTyped == ASSUME Init PROVE TypeOK
<1>1. needs \in Plans
  BY DEF Init
<1>2. Active = {}
  BY DEF Init, Active
<1>3. Cardinality(Active) <= PoolSize
  BY <1>2, FS_EmptySet, PoolAssumption
<1>4. Typed
  BY <1>1, PlanFacts DEF Init, Typed, Mains, Workers
<1> QED BY <1>3, <1>4 DEF Typed, Mains, Workers, TypeOK

LEMMA WorkTyped ==
    ASSUME Typed, NEW w \in Batch, OfWorker(w)
    PROVE  /\ disk' \in [Files -> Contents] /\ recorded' \in [Batch -> SUBSET Files]
           /\ worker' \in [Batch -> Workers] /\ hit' \subseteq AllFaults
<1>1. \A v \in Batch : needs[v] \subseteq Files
  BY PlanFacts DEF Typed
<1>2. \A f \in needs[w] : f \in Files
  BY <1>1
<1>3. CASE Begin(w) \/ WorkerEnds(w) \/ WorkerRaises(w) \/ WorkerUndoFails(w)
  BY <1>3, FaultAssumption DEF Typed, Workers, Begin, WorkerEnds, WorkerRaises, WorkerUndoFails, Moves, Injected
<1>4. ASSUME NEW f \in Files, WorkerWrites(w, f) \/ WorkerUndoes(w, f)
      PROVE  /\ disk' \in [Files -> Contents] /\ recorded' \in [Batch -> SUBSET Files] /\ worker' = worker
             /\ hit' = hit
  BY <1>4 DEF Typed, WorkerWrites, WorkerUndoes, Records, Contents
<1>5. CASE WorkerFails(w)
  BY <1>2, <1>5, FaultAssumption DEF Typed, Workers, WorkerFails, Moves, Records, Injected, Contents
<1> QED BY <1>3, <1>4, <1>5 DEF OfWorker, Work, Typed

LEMMA CallerTyped == ASSUME Typed, OfCaller, request' = request PROVE Typed'
<1>1. size \in Nat /\ Batch = 1..size /\ \A v \in Batch : needs[v] \subseteq Files
  BY PlanFacts DEF Typed
<1>2. adopted < size => adopted + 1 \in Batch
  BY <1>1 DEF Typed
<1>3. adopted < size => \A f \in needs[adopted + 1] : f \in Files
  BY <1>1, <1>2
<1>4. /\ Batch' = Batch /\ size' = size /\ origin' = origin /\ owned' = owned /\ needs' = needs
      /\ pycompile' = pycompile
  BY DEF request, Batch, size
<1>5. ASSUME /\ disk' \in [Files -> Contents] /\ recorded' \in [Batch -> SUBSET Files]
             /\ worker' \in [Batch -> Workers] /\ route' \in {"none", "direct", "staged"} /\ main' \in Mains
             /\ adopted' \in 0..size /\ outer' \subseteq Files /\ outer \subseteq outer' /\ hit' \subseteq AllFaults
      PROVE  Typed'
  BY <1>4, <1>5, OfCallerFrame DEF Typed
<1>6. CASE \/ ChooseDirect \/ ChooseStaged \/ PoolDrained \/ AddRefuses \/ AllTaken \/ Finalize
           \/ WorkersUndone \/ Drained \/ UndoWorkerFails \/ Interrupt
  BY <1>5, <1>6, FaultAssumption DEF Typed, Mains, ChooseDirect, ChooseStaged, PoolDrained, AddRefuses, AllTaken,
        Finalize, WorkersUndone, Drained, UndoWorkerFails, Interrupt, Injected, Ended
<1>7. CASE Adopt
  BY <1>1, <1>2, <1>5, <1>7 DEF Typed, Adopt
<1>8. CASE SerialStage
  BY <1>1, <1>2, <1>5, <1>8 DEF Typed, SerialStage
<1>9. ASSUME NEW w \in Batch, Submit(w) PROVE Typed'
  BY <1>5, <1>9 DEF Typed, Submit, Moves, Mains, Workers
<1>10. ASSUME NEW f \in Files, SerialWrite(f) PROVE Typed'
  BY <1>5, <1>10 DEF Typed, SerialWrite, Contents
<1>11. ASSUME NEW w \in Batch, NEW f \in Files, UndoWorker(w, f) PROVE Typed'
  BY <1>5, <1>11 DEF Typed, UndoWorker, Records, Contents
<1>12. CASE SerialFails
  BY <1>3, <1>5, <1>12, FaultAssumption DEF Typed, Mains, SerialFails, Injected, Contents
<1> QED BY <1>6, <1>7, <1>8, <1>9, <1>10, <1>11, <1>12 DEF OfCaller

LEMMA CommitTyped == ASSUME Typed, OfCommit \/ OfRollback, request' = request PROVE Typed'
<1>1. /\ Batch' = Batch /\ size' = size /\ origin' = origin /\ owned' = owned /\ needs' = needs
      /\ pycompile' = pycompile /\ main' \in Mains /\ UNCHANGED <<route, worker, recorded, adopted>>
  BY OfCommitFrame, OfRollbackFrame DEF request, Batch, size, Typed, Mains, Ended
<1>2. CASE OfCommit
  BY <1>1, <1>2, FaultAssumption DEF OfCommit, Validate, ValidateRefuses, EndCommit, CommitFails, CopyFails,
        InterruptInGap, MoveAside, Place, Injected, Typed, Contents
<1>3. CASE OfRollback
  BY <1>1, <1>3, FaultAssumption DEF OfRollback, Leave, RollbackFails, UndoOuter, Restore, Injected, Typed, Contents
<1> QED BY <1>2, <1>3

\* Only Begin makes a worker active, when the pool has a thread left.
LEMMA PoolIsBounded == ASSUME TypeOK, [Next]_vars PROVE Cardinality(Active') <= PoolSize
<1>1. IsFiniteSet(Batch) /\ Batch' = Batch
  BY PlanFacts, RequestKept DEF TypeOK
<1>2. IsFiniteSet(Active) /\ Active \subseteq Batch /\ Cardinality(Active) <= PoolSize
  BY <1>1, FS_Subset DEF Active, TypeOK
<1>3. Cardinality(Active) \in Nat /\ PoolSize \in Nat
  BY <1>2, FS_CardinalityType, PoolAssumption
<1>4. ASSUME NEW w \in Batch, Begin(w) PROVE Cardinality(Active') <= PoolSize
  <2>1. Active' = Active \cup {w} /\ Cardinality(Active) < PoolSize
    BY <1>1, <1>4 DEF Begin, Moves, Active, TypeOK
  <2>2. w \notin Active => Cardinality(Active \cup {w}) = Cardinality(Active) + 1
    BY <1>2, FS_AddElement
  <2>3. w \in Active => Active \cup {w} = Active
    OBVIOUS
  <2>4. CASE w \in Active
    BY <1>2, <2>1, <2>3, <2>4
  <2>5. CASE w \notin Active
    <3>1. Cardinality(Active \cup {w}) <= PoolSize
      BY <1>3, <2>1, <2>2, <2>5
    <3> QED BY <2>1, <3>1
  <2> QED BY <2>4, <2>5
<1>5. CASE Active' \subseteq Active
  <2>1. Cardinality(Active') <= Cardinality(Active) /\ Cardinality(Active') \in Nat
    BY <1>2, <1>5, FS_Subset, FS_CardinalityType
  <2> QED BY <1>2, <1>3, <2>1
<1>6. ASSUME NEW w \in Batch, OfWorker(w), ~Begin(w) PROVE Active' \subseteq Active
  BY <1>1, <1>6 DEF OfWorker, Work, WorkerEnds, WorkerRaises, WorkerWrites, WorkerUndoes, WorkerFails, WorkerUndoFails, Moves, Active, TypeOK
<1>7. CASE OfCaller \/ OfCommit \/ OfRollback \/ UNCHANGED vars
  <2>1. ASSUME NEW w \in Batch, Submit(w) PROVE Active' \subseteq Active
    BY <1>1, <2>1 DEF Submit, Moves, Active, TypeOK
  <2>2. (\E w \in Batch : Submit(w)) \/ worker' = worker
    BY <1>7, OfCommitFrame, OfRollbackFrame
       DEF OfCaller, ChooseDirect, ChooseStaged, PoolDrained, Adopt, SerialStage, AddRefuses, AllTaken, Finalize,
           WorkersUndone, Drained, SerialWrite, UndoWorker, SerialFails, UndoWorkerFails, Interrupt, vars
  <2>3. worker' = worker => Active' = Active
    BY <1>1 DEF Active
  <2> QED BY <1>5, <2>1, <2>2, <2>3
<1>8. ASSUME NEW w \in Batch, OfWorker(w) PROVE Cardinality(Active') <= PoolSize
  BY <1>4, <1>5, <1>6, <1>8
<1> QED BY <1>7, <1>8, StepKinds

LEMMA TypeStep == ASSUME TypeOK, [Next]_vars PROVE TypeOK'
<1>1. Typed
  BY DEF TypeOK, Typed, Mains, Workers
<1>2. Typed'
  <2>1. request' = request
    BY RequestKept DEF request
  <2>2. ASSUME NEW w \in Batch, OfWorker(w) PROVE Typed'
    BY <1>1, <2>2, WorkTyped, OfWorkerFrame, RequestKept DEF Typed
  <2>3. CASE UNCHANGED vars
    BY <1>1, <2>3, RequestKept DEF vars, Typed
  <2> QED BY <1>1, <2>1, <2>2, <2>3, CallerTyped, CommitTyped, StepKinds
<1>3. Cardinality(Active') <= PoolSize
  BY PoolIsBounded
<1> QED BY <1>2, <1>3 DEF Typed, Mains, Workers, TypeOK

\* Every variable has its type, and no more threads work than the pool has.
THEOREM Typing == Spec => []TypeOK
<1> QED BY InitTyped, TypeStep, PTL DEF Spec

------------------------------------------------------------------------------------
(* The invariant.                                                                   *)

\* What the choice of the direct route has seen.
DirectPlan == route = "direct" =>
    /\ owned = {} /\ ~pycompile
    /\ \A f \in Wanted \ Overlooked : origin[f] = "absent"
    /\ \A v, w \in Batch : v # w => needs[v] \cap needs[w] = {}

\* Where the main thread can be.
MainInv ==
    /\ main = "start" => route = "none" /\ adopted = 0
    /\ route = "none" => main \in {"start", "raised"}
    /\ main \in {"submitting", "awaiting", "draining", "adopting"} => Parallel
    /\ main = "serial" => ~Parallel
    /\ main \in {"committing", "replacing"} => route = "staged"
    /\ main = "draining" => "interrupt" \in hit

\* What a worker has written, by how far it has come.
WorkerInv(w) ==
    /\ recorded[w] \subseteq needs[w]
    /\ route # "direct" \/ worker[w] \in {"idle", "queued"} => recorded[w] = {}
    /\ worker[w] = "failed" /\ "rollback" \notin hit => recorded[w] = {}
    /\ ~Parallel \/ main \in {"start", "serial"} => worker[w] = "idle"
    /\ main = "awaiting" => worker[w] # "idle"
    /\ main = "adopting" \/ (main = "finalizing" /\ Parallel /\ route = "direct") => worker[w] = "ok"
    /\ route = "direct" /\ worker[w] = "ok" /\ main \notin {"undoing", "handling", "leaving", "raised"} =>
            recorded[w] = needs[w]

\* In the parallel direct route, as long as its undoing is promised, nobody writes any more once the
\* main thread has left the pool, and what the handler leaves is undone.
SettledInv == route = "direct" /\ Parallel /\ Undoable =>
    /\ main \in {"undoing", "handling", "leaving"} \cup Ended =>
            \A w \in Batch : worker[w] \notin {"queued", "running", "undoing"}
    /\ main \in {"handling", "leaving", "raised"} => \A w \in Batch : recorded[w] = {}
    /\ main \notin {"adopting", "finalizing", "returned"} => outer = {}

\* Until validate has let the staged route pass nothing has been replaced.
Early == {"start", "submitting", "awaiting", "draining", "serial", "adopting", "committing"}

ListsInv ==
    /\ outer \subseteq Wanted /\ aside \subseteq Wanted \cup owned
    /\ route = "direct" => aside = {}
    /\ route # "direct" /\ (route = "none" \/ main \in Early) => outer = {} /\ aside = {}
    /\ ~RollingBack /\ main # "raised" => undone = {}
    /\ route = "direct" /\ main = "serial" => \A w \in 1..adopted : needs[w] \subseteq outer

\* What validate has seen: the batch replaces files of others only if they equal its own.
StrangersInv == route # "direct" =>
    /\ main \in Early => disk = origin
    /\ main = "replacing" \/ outer \cup aside # {} => \A f \in Wanted : origin[f] = "old" => f \in owned

Pending == outer \ undone
Written == Pending \cup UNION {recorded[w] : w \in Batch}
ImageOf(f) == IF f \in Written THEN "new" ELSE IF f \in aside THEN "absent" ELSE origin[f]
Complete == Written = Wanted /\ (route # "direct" => owned \ Wanted \subseteq aside)

\* As long as everything is undone the disk is what the lists say, and a call that raised has undone
\* what it did, or was interrupted when it was through.
DiskInv == Undoable =>
    /\ \A f \in Files \ Overlooked : disk[f] = ImageOf(f)
    /\ \A f \in (Pending \ aside) \ Overlooked : origin[f] = "absent"
    /\ main = "raised" => Written \cup aside = {} \/ ("interrupt" \in hit /\ Complete)
    /\ main \in {"finalizing", "returned"} => Complete

BatchInv ==
    /\ DirectPlan /\ MainInv /\ (\A w \in Batch : WorkerInv(w)) /\ SettledInv
    /\ ListsInv /\ StrangersInv /\ DiskInv

LEMMA InitInv == ASSUME Init PROVE BatchInv
<1>1. needs \in Plans /\ \A w \in Batch : worker[w] = "idle" /\ recorded[w] = {}
  BY DEF Init
<1>2. \A w \in Batch : WorkerInv(w)
  BY <1>1 DEF Init, WorkerInv
<1>3. Written = {}
  BY <1>1 DEF Init, Written, Pending
<1> QED BY <1>2, <1>3 DEF Init, BatchInv, DirectPlan, MainInv, SettledInv, ListsInv, StrangersInv, DiskInv, ImageOf,
                          Pending, Ended

------------------------------------------------------------------------------------
(* Facts about one step.                                                            *)

\* The route is chosen once, and no call is in doubt that was not.
LEMMA RouteKept == ASSUME TypeOK, BatchInv, [Next]_vars PROVE route = "none" \/ route' = route
<1>1. CASE OfCaller
  <2>1. ASSUME NEW w \in Batch, Submit(w) PROVE route' = route
    BY <2>1 DEF Submit
  <2>2. ASSUME NEW f \in Files, SerialWrite(f) PROVE route' = route
    BY <2>2 DEF SerialWrite
  <2>3. ASSUME NEW w \in Batch, NEW f \in Files, UndoWorker(w, f) PROVE route' = route
    BY <2>3 DEF UndoWorker
  <2>4. CASE ChooseDirect \/ ChooseStaged
    BY <2>4 DEF ChooseDirect, ChooseStaged, BatchInv, MainInv
  <2> QED BY <1>1, <2>1, <2>2, <2>3, <2>4 DEF OfCaller, PoolDrained, Adopt, SerialStage, AddRefuses, AllTaken,
              Finalize, WorkersUndone, Drained, SerialFails, UndoWorkerFails, Interrupt
<1> QED BY <1>1, StepKinds, OfWorkerFrame, OfCommitFrame, OfRollbackFrame DEF vars

LEMMA RouteChoice == ASSUME [Next]_vars, route' # route PROVE ChooseDirect \/ ChooseStaged
<1>1. OfCaller
  BY StepKinds, OfWorkerFrame, OfCommitFrame, OfRollbackFrame DEF vars
<1>2. ASSUME NEW w \in Batch, Submit(w) PROVE FALSE
  BY <1>2 DEF Submit
<1>3. ASSUME NEW f \in Files, SerialWrite(f) PROVE FALSE
  BY <1>3 DEF SerialWrite
<1>4. ASSUME NEW w \in Batch, NEW f \in Files, UndoWorker(w, f) PROVE FALSE
  BY <1>4 DEF UndoWorker
<1> QED BY <1>1, <1>2, <1>3, <1>4 DEF OfCaller, PoolDrained, Adopt, SerialStage, AddRefuses, AllTaken,
              Finalize, WorkersUndone, Drained, SerialFails, UndoWorkerFails, Interrupt

LEMMA HitGrows == ASSUME [Next]_vars PROVE hit \subseteq hit'
BY StepKinds, OfWorkerFrame, OfCallerFrame, OfCommitFrame, OfRollbackFrame DEF vars

LEMMA UndoableKept == ASSUME TypeOK, BatchInv, [Next]_vars, Undoable' PROVE Undoable /\ "rollback" \notin hit'
BY RequestKept, RouteKept, HitGrows DEF Undoable

LEMMA OverlookedKept == ASSUME [Next]_vars, route' = route PROVE Overlooked' = Overlooked
BY RequestKept DEF Overlooked

\* Only the direct route overlooks files, and its created lists have only files that were not there, or
\* overlooked ones.
LEMMA ListFacts ==
    ASSUME TypeOK, BatchInv
    PROVE  /\ route # "direct" => Overlooked = {} /\ \A w \in Batch : recorded[w] = {}
           /\ Written \subseteq Wanted /\ Wanted \subseteq Files
           /\ \A w \in Batch : recorded[w] \subseteq Wanted /\ needs[w] \subseteq Wanted
<1>1. \A w \in Batch : recorded[w] \subseteq needs[w] /\ (route # "direct" => recorded[w] = {})
  BY DEF BatchInv, WorkerInv
<1>2. outer \subseteq Wanted
  BY DEF BatchInv, ListsInv
<1> QED BY <1>1, <1>2, PlanFacts DEF Written, Pending, Wanted, TypeOK, Overlooked

\* In the parallel direct route a worker is at work only before the main thread has left the pool.
LEMMA AtWorkEarly ==
    ASSUME TypeOK, BatchInv, NEW w \in Batch, route = "direct", Undoable,
           worker[w] \in {"queued", "running", "undoing"}
    PROVE  Parallel /\ main \in {"submitting", "awaiting"} /\ outer = {}
<1>1. Parallel /\ main \notin {"start", "serial", "adopting", "finalizing"}
  BY DEF BatchInv, WorkerInv
<1>2. main \notin {"undoing", "handling", "leaving"} \cup Ended /\ outer = {}
  BY <1>1 DEF BatchInv, SettledInv, Ended
<1>3. main \notin {"committing", "replacing", "draining"}
  BY <1>1 DEF BatchInv, MainInv, Undoable
<1> QED BY <1>1, <1>2, <1>3 DEF TypeOK

------------------------------------------------------------------------------------
(* Every step keeps every part.                                                     *)

LEMMA PlanKept == ASSUME TypeOK, BatchInv, [Next]_vars PROVE DirectPlan'
<1>1. CASE route' = route
  BY <1>1, RequestKept, OverlookedKept DEF BatchInv, DirectPlan
<1>2. CASE ChooseDirect
  <2>1. disk = origin
    BY <1>2 DEF ChooseDirect, BatchInv, MainInv, StrangersInv, Early
  <2>2. \A f \in Wanted : origin[f] = "absent" \/ f \in Overlooked'
    BY <1>2, <2>1, RequestKept DEF ChooseDirect, Preflight, Overlooked
  <2>3. \A v, w \in Batch : v # w => needs[v] \cap needs[w] = {}
    BY <1>2, PlanFacts DEF ChooseDirect, Preflight, TypeOK
  <2> QED BY <1>2, <2>2, <2>3, RequestKept DEF ChooseDirect, DirectPlan
<1>3. CASE ChooseStaged
  BY <1>3 DEF ChooseStaged, DirectPlan
<1> QED BY <1>1, <1>2, <1>3, RouteChoice

LEMMA MainKept == ASSUME TypeOK, BatchInv, [Next]_vars PROVE MainInv'
<1>1. MainInv /\ Parallel' = Parallel /\ size' = size
  BY RequestKept DEF BatchInv
<1>2. CASE OfCaller
  BY <1>1, <1>2 DEF OfCaller, ChooseDirect, ChooseStaged, PoolDrained, Adopt, SerialStage, AddRefuses,
              AllTaken, Finalize, WorkersUndone, Drained, Submit, SerialWrite,
              UndoWorker, SerialFails, UndoWorkerFails, Interrupt, Injected, MainInv, TypeOK
<1>3. CASE UNCHANGED vars \/ \E w \in Batch : OfWorker(w)
  BY <1>1, <1>3, OfWorkerFrame DEF MainInv, vars
<1>4. CASE OfCommit \/ OfRollback
  BY <1>1, <1>4, OfCommitFrame, OfRollbackFrame DEF MainInv
<1> QED BY <1>2, <1>3, <1>4, StepKinds

LEMMA WorkersKept == ASSUME TypeOK, BatchInv, [Next]_vars, NEW v \in Batch PROVE WorkerInv(v)'
<1> DEFINE Inert == worker[v]' = worker[v] /\ recorded[v]' = recorded[v]
<1>1. WorkerInv(v) /\ MainInv /\ Parallel' = Parallel /\ needs' = needs /\ recorded[v] \subseteq Files
  BY RequestKept DEF BatchInv, TypeOK
<1>2. ASSUME NEW w \in Batch, Work(w) PROVE WorkerInv(v)'
  <2>1. CASE v # w
    <3>1. Inert
      BY <1>2, <2>1 DEF Work, Begin, WorkerEnds, WorkerRaises, WorkerWrites, WorkerUndoes, Moves, Records, TypeOK
    <3> QED BY <1>1, <1>2, <3>1, OfWorkerFrame DEF OfWorker, WorkerInv
  <2>2. CASE v = w /\ Begin(w)
    BY <1>1, <2>2 DEF Begin, Moves, WorkerInv, TypeOK
  <2>3. CASE v = w /\ WorkerEnds(w)
    BY <1>1, <2>3 DEF WorkerEnds, Moves, WorkerInv, TypeOK
  <2>4. CASE v = w /\ WorkerRaises(w)
    BY <1>1, <2>4 DEF WorkerRaises, Moves, WorkerInv, TypeOK
  <2>5. ASSUME v = w, NEW f \in Files, WorkerWrites(w, f) PROVE WorkerInv(v)'
    BY <1>1, <2>5 DEF WorkerWrites, Records, WorkerInv, TypeOK
  <2>6. ASSUME v = w, NEW f \in Files, WorkerUndoes(w, f) PROVE WorkerInv(v)'
    BY <1>1, <2>6 DEF WorkerUndoes, Records, WorkerInv, TypeOK
  <2> QED BY <1>2, <2>1, <2>2, <2>3, <2>4, <2>5, <2>6 DEF Work
<1>3. ASSUME NEW w \in Batch, WorkerFails(w) PROVE WorkerInv(v)'
  BY <1>1, <1>3 DEF WorkerFails, Moves, Records, Injected, WorkerInv, TypeOK
<1>4. ASSUME NEW w \in Batch, WorkerUndoFails(w) PROVE WorkerInv(v)'
  BY <1>1, <1>4 DEF WorkerUndoFails, Moves, Injected, WorkerInv, TypeOK
<1>5. ASSUME NEW w \in Batch, Submit(w) PROVE WorkerInv(v)'
  <2>1. main' = "awaiting" => \A u \in 1..(size - 1) : worker[u] # "idle"
    BY <1>5 DEF Submit
  <2>2. v = size \/ v \in 1..(size - 1)
    BY PlanFacts DEF TypeOK
  <2>3. main' = "awaiting" => worker'[v] # "idle"
    BY <1>5, <2>1, <2>2 DEF Submit, Moves, TypeOK
  <2> QED BY <1>1, <1>5, <2>3 DEF Submit, Moves, WorkerInv, MainInv, TypeOK
<1>6. CASE \/ ChooseDirect \/ ChooseStaged \/ Adopt \/ SerialStage \/ AddRefuses \/ AllTaken
           \/ Finalize \/ WorkersUndone \/ Drained \/ SerialFails \/ UndoWorkerFails \/ Interrupt
  BY <1>1, <1>6 DEF ChooseDirect, ChooseStaged, Adopt, SerialStage, AddRefuses, AllTaken,
         Finalize, WorkersUndone, Drained, SerialFails, UndoWorkerFails, Interrupt, Injected, WorkerInv, MainInv
<1>7. CASE PoolDrained
  BY <1>1, <1>7 DEF PoolDrained, PoolIsIdle, Settled, WorkerInv, MainInv
<1>8. ASSUME NEW f \in Files, SerialWrite(f) PROVE WorkerInv(v)'
  BY <1>1, <1>8 DEF SerialWrite, WorkerInv
<1>9. ASSUME NEW w \in Batch, NEW f \in Files, UndoWorker(w, f) PROVE WorkerInv(v)'
  BY <1>1, <1>9 DEF UndoWorker, Records, WorkerInv, TypeOK
<1>10. CASE OfCommit \/ OfRollback
  BY <1>1, <1>10, OfCommitFrame, OfRollbackFrame DEF WorkerInv, MainInv
<1> QED BY <1>1, <1>2, <1>3, <1>4, <1>5, <1>6, <1>7, <1>8, <1>9, <1>10, StepKinds
        DEF OfWorker, OfCaller, WorkerInv, vars

LEMMA ListsKept == ASSUME TypeOK, BatchInv, [Next]_vars PROVE ListsInv'
<1>1. /\ ListsInv /\ MainInv /\ Parallel' = Parallel /\ needs' = needs /\ Wanted' = Wanted /\ owned' = owned
      /\ size \in Nat /\ adopted \in 0..size /\ Batch = 1..size /\ \A w \in Batch : needs[w] \subseteq Wanted
  BY RequestKept, PlanFacts DEF BatchInv, TypeOK, Wanted
<1>2. CASE UNCHANGED vars \/ \E w \in Batch : OfWorker(w)
  BY <1>1, <1>2, OfWorkerFrame DEF ListsInv, RollingBack, vars
<1>3. CASE \/ ChooseDirect \/ ChooseStaged \/ PoolDrained \/ AddRefuses \/ AllTaken
           \/ Finalize \/ WorkersUndone \/ Drained \/ UndoWorkerFails \/ Interrupt
  BY <1>1, <1>3 DEF ChooseDirect, ChooseStaged, PoolDrained, AddRefuses, AllTaken, Finalize, WorkersUndone, Drained,
         UndoWorkerFails, Interrupt, ListsInv, RollingBack, Early, MainInv, TypeOK
<1>4. CASE Adopt
  <2>1. adopted + 1 \in Batch
    BY <1>1, <1>4 DEF Adopt
  <2>2. recorded[adopted + 1] \subseteq Wanted /\ (route # "direct" => recorded[adopted + 1] = {})
    BY <1>1, <2>1 DEF BatchInv, WorkerInv
  <2> QED BY <1>1, <1>4, <2>2 DEF Adopt, ListsInv, RollingBack, Early, MainInv
<1>5. CASE SerialStage
  <2>1. adopted' = adopted + 1 /\ (route = "direct" => needs[adopted + 1] \subseteq outer)
    BY <1>5 DEF SerialStage
  <2>2. \A w \in 1..adopted' : w \in 1..adopted \/ w = adopted + 1
    BY <1>1, <2>1
  <2> QED BY <1>1, <1>5, <2>1, <2>2 DEF SerialStage, ListsInv, RollingBack, Early
<1>6. ASSUME NEW f \in Files, SerialWrite(f) PROVE ListsInv'
  <2>1. adopted + 1 \in Batch
    BY <1>1, <1>6 DEF SerialWrite
  <2> QED BY <1>1, <1>6, <2>1 DEF SerialWrite, ListsInv, RollingBack
<1>7. CASE SerialFails
  <2>1. adopted + 1 \in Batch
    BY <1>1, <1>7 DEF SerialFails
  <2> QED BY <1>1, <1>7, <2>1 DEF SerialFails, ListsInv, RollingBack, Early, MainInv
<1>8. ASSUME NEW w \in Batch, NEW f \in Files, UndoWorker(w, f) PROVE ListsInv'
  BY <1>1, <1>8 DEF UndoWorker, ListsInv, RollingBack
<1>9. ASSUME NEW w \in Batch, Submit(w) PROVE ListsInv'
  BY <1>1, <1>9 DEF Submit, ListsInv, RollingBack, Early
<1>10. CASE OfCommit
  <2>1. /\ route = "staged" /\ route' = route /\ main' \notin Early /\ main' # "serial" /\ undone' = {}
        /\ main \in {"committing", "replacing"}
    BY <1>1, <1>10, OfCommitFrame DEF MainInv, ListsInv, RollingBack, Early
  <2>2. outer' \subseteq Wanted /\ aside' \subseteq Wanted \cup owned
    BY <1>1, <1>10 DEF ListsInv, OfCommit, Validate, ValidateRefuses, EndCommit, CommitFails, CopyFails,
                       InterruptInGap, MoveAside, Place, Movable, Placeable
  <2> QED BY <1>1, <2>1, <2>2 DEF ListsInv
<1>11. CASE OfRollback
  <2>1. /\ route' = route /\ outer' = outer /\ main \in {"handling", "leaving"}
        /\ main' \in {"handling", "leaving", "raised"}
    BY <1>11, OfRollbackFrame
  <2>2. aside' \subseteq aside
    BY <1>11 DEF OfRollback, Leave, RollbackFails, UndoOuter, Restore
  <2>3. route = "none" => main \in {"start", "raised"}
    BY <1>1 DEF MainInv
  <2> QED BY <1>1, <2>1, <2>2, <2>3 DEF ListsInv, RollingBack, Early
<1> QED BY <1>2, <1>3, <1>4, <1>5, <1>6, <1>7, <1>8, <1>9, <1>10, <1>11, StepKinds DEF OfCaller

LEMMA SettledKept == ASSUME TypeOK, BatchInv, [Next]_vars PROVE SettledInv'
<1> SUFFICES ASSUME route' = "direct", Parallel', Undoable' PROVE SettledInv'
  BY DEF SettledInv
<1>1. /\ Parallel /\ "rollback" \notin hit' /\ "interrupt" \notin hit' /\ Batch' = Batch /\ Undoable
      /\ \A w \in Batch : WorkerInv(w)
      /\ SettledInv /\ MainInv
  BY UndoableKept, RequestKept DEF BatchInv, Undoable
<1>2. CASE route # "direct"
  <2>1. CASE ChooseDirect
    <3>1. main' = "submitting" /\ outer' = {}
      BY <1>1, <1>2, <2>1 DEF ChooseDirect, BatchInv, ListsInv, Early
    <3> QED BY <3>1 DEF SettledInv, Ended
  <2> QED BY <1>2, <2>1, RouteChoice DEF ChooseStaged
<1>3. CASE route = "direct"
  <2>1. ASSUME NEW w \in Batch, OfWorker(w) PROVE SettledInv'
    <3>1. main \in {"submitting", "awaiting"} /\ outer = {}
      BY <1>1, <1>3, <2>1, AtWorkEarly, OfWorkerFrame
    <3> QED BY <2>1, <3>1, OfWorkerFrame DEF SettledInv, Ended
  <2>2. CASE OfCaller
    <3>1. ASSUME NEW w \in Batch, Submit(w) PROVE SettledInv'
      BY <1>1, <1>3, <3>1 DEF Submit, SettledInv, Ended
    <3>2. ASSUME NEW w \in Batch, NEW f \in Files, UndoWorker(w, f) PROVE SettledInv'
      BY <1>1, <1>3, <3>2 DEF UndoWorker, Records, SettledInv, Ended, TypeOK
    <3>3. ASSUME NEW f \in Files, SerialWrite(f) PROVE SettledInv'
      BY <1>1, <1>3, <3>3 DEF SerialWrite, MainInv
    <3>4. CASE PoolDrained
      BY <1>1, <1>3, <3>4 DEF PoolDrained, PoolIsIdle, Settled, SettledInv, Ended
    <3>5. CASE WorkersUndone
      <4>1. \A w \in Batch : recorded[w] = {}
        <5> SUFFICES ASSUME NEW w \in Batch PROVE recorded[w] = {}
          OBVIOUS
        <5>1. worker[w] \notin {"queued", "running", "undoing"}
          BY <1>1, <1>3, <3>5 DEF WorkersUndone, SettledInv
        <5>2. worker[w] \in {"idle", "ok", "failed"}
          BY <5>1 DEF TypeOK
        <5>3. "rollback" \notin hit
          BY <1>1 DEF Undoable
        <5> QED BY <1>1, <3>5, <5>2, <5>3 DEF WorkersUndone, WorkerInv
      <4> QED BY <1>1, <1>3, <3>5, <4>1 DEF WorkersUndone, SettledInv, Ended
    <3>6. ~UndoWorkerFails /\ ~Interrupt /\ ~Drained
      BY <1>1 DEF UndoWorkerFails, Interrupt, Drained, Injected, Undoable, MainInv
    <3>7. CASE AddRefuses \/ SerialFails \/ SerialStage
      BY <1>1, <1>3, <3>7 DEF AddRefuses, Clashes, SerialFails, SerialStage, MainInv
    <3>8. CASE AllTaken \/ Finalize \/ Adopt
      <4>1. \A w \in Batch : main \in {"adopting", "finalizing"} => worker[w] = "ok"
        BY <1>1, <1>3 DEF WorkerInv
      <4> QED BY <1>1, <1>3, <3>8, <4>1 DEF AllTaken, Finalize, Adopt, SettledInv, Ended
    <3>9. ~ChooseDirect /\ ~ChooseStaged
      BY <1>1, <1>3 DEF ChooseDirect, ChooseStaged, MainInv
    <3> QED BY <2>2, <3>1, <3>2, <3>3, <3>4, <3>5, <3>6, <3>7, <3>8, <3>9 DEF OfCaller
  <2>3. ~OfCommit
    BY <1>1, <1>3, OfCommitFrame DEF MainInv
  <2>4. CASE OfRollback
    <3>1. outer = {} /\ outer' = outer /\ worker' = worker /\ recorded' = recorded
          /\ \A w \in Batch : worker[w] \notin {"queued", "running", "undoing"} /\ recorded[w] = {}
      BY <1>1, <1>3, <2>4, OfRollbackFrame DEF SettledInv
    <3> QED BY <1>1, <3>1 DEF SettledInv
  <2>5. CASE UNCHANGED vars
    BY <1>1, <1>3, <2>5 DEF vars, SettledInv
  <2> QED BY <2>1, <2>2, <2>3, <2>4, <2>5, StepKinds
<1> QED BY <1>2, <1>3

\* What a step outside the commit may write: in the direct route, files of the batch.
LEMMA WritesOfInstalls ==
    ASSUME TypeOK, BatchInv, OfCaller \/ \E w \in Batch : OfWorker(w)
    PROVE  \/ disk' = disk
           \/ route = "direct" /\ \E f \in Wanted, c \in Contents : disk' = [disk EXCEPT ![f] = c]
<1>1. /\ \A w \in Batch : recorded[w] \subseteq Wanted /\ needs[w] \subseteq Wanted
      /\ route # "direct" => \A w \in Batch : recorded[w] = {}
      /\ adopted < size => adopted + 1 \in Batch
  BY ListFacts, PlanFacts DEF TypeOK
<1>2. ASSUME NEW w \in Batch, OfWorker(w)
      PROVE  \/ disk' = disk
             \/ route = "direct" /\ \E f \in Wanted, c \in Contents : disk' = [disk EXCEPT ![f] = c]
  <2>1. CASE Begin(w) \/ WorkerEnds(w) \/ WorkerRaises(w) \/ WorkerUndoFails(w)
    BY <2>1 DEF Begin, WorkerEnds, WorkerRaises, WorkerUndoFails
  <2>2. ASSUME NEW f \in Files, WorkerWrites(w, f) \/ WorkerUndoes(w, f)
        PROVE  route = "direct" /\ f \in Wanted /\ \E c \in Contents : disk' = [disk EXCEPT ![f] = c]
    BY <1>1, <2>2 DEF WorkerWrites, WorkerUndoes, Contents
  <2>3. CASE WorkerFails(w)
    BY <1>1, <2>3 DEF WorkerFails, Contents
  <2> QED BY <1>2, <2>1, <2>2, <2>3 DEF OfWorker, Work
<1>3. ASSUME NEW f \in Files, SerialWrite(f) \/ \E w \in Batch : UndoWorker(w, f)
      PROVE  route = "direct" /\ f \in Wanted /\ \E c \in Contents : disk' = [disk EXCEPT ![f] = c]
  BY <1>1, <1>3 DEF SerialWrite, UndoWorker, Contents
<1>4. CASE SerialFails
  BY <1>1, <1>4 DEF SerialFails, Contents
<1>5. ASSUME NEW w \in Batch, Submit(w) PROVE disk' = disk
  BY <1>5 DEF Submit
<1>6. ASSUME \/ ChooseDirect \/ ChooseStaged \/ PoolDrained \/ Adopt \/ SerialStage \/ AddRefuses \/ AllTaken
             \/ Finalize \/ WorkersUndone \/ Drained \/ UndoWorkerFails \/ Interrupt
      PROVE  disk' = disk
  BY <1>6 DEF ChooseDirect, ChooseStaged, PoolDrained, Adopt, SerialStage, AddRefuses, AllTaken, Finalize,
              WorkersUndone, Drained, UndoWorkerFails, Interrupt
<1> QED BY <1>2, <1>3, <1>4, <1>5, <1>6 DEF OfCaller

\* What a step of the commit or of a rollback may write.
LEMMA WritesOfCommit ==
    ASSUME TypeOK, BatchInv, OfCommit \/ OfRollback
    PROVE  \/ disk' = disk
           \/ \E f \in Wanted \cup owned, c \in Contents :
                 /\ disk' = [disk EXCEPT ![f] = c]
                 /\ main = "replacing" \/ outer \cup aside # {}
<1>1. outer \subseteq Wanted /\ aside \subseteq Wanted \cup owned
  BY DEF BatchInv, ListsInv
<1>2. CASE Validate \/ ValidateRefuses \/ EndCommit \/ CommitFails \/ Leave \/ RollbackFails
  BY <1>2 DEF Validate, ValidateRefuses, EndCommit, CommitFails, Leave, RollbackFails
<1>3. ASSUME NEW f \in Files, Movable(f) \/ Placeable(f) PROVE f \in Wanted \cup owned /\ main = "replacing"
  BY <1>3 DEF Movable, Placeable
<1>4. CASE CopyFails \/ InterruptInGap \/ \E f \in Files : MoveAside(f) \/ Place(f)
  BY <1>3, <1>4 DEF CopyFails, InterruptInGap, MoveAside, Place, Contents
<1>5. ASSUME NEW f \in Files, UndoOuter(f) \/ Restore(f)
      PROVE  f \in outer \cup aside /\ \E c \in Contents : disk' = [disk EXCEPT ![f] = c]
  BY <1>5 DEF UndoOuter, Restore, Contents, TypeOK
<1> QED BY <1>1, <1>2, <1>4, <1>5 DEF OfCommit, OfRollback

LEMMA StagedCaller == ASSUME TypeOK, BatchInv, OfCaller, route # "direct" PROVE outer' = outer
<1>1. ASSUME Adopt PROVE recorded[adopted + 1] = {}
  BY <1>1, ListFacts, PlanFacts DEF Adopt, TypeOK
<1> QED BY <1>1 DEF OfCaller, ChooseDirect, ChooseStaged, PoolDrained, Adopt, SerialStage, AddRefuses, AllTaken,
            Finalize, WorkersUndone, Drained, Submit, SerialWrite, UndoWorker, SerialFails, UndoWorkerFails, Interrupt

LEMMA StrangersInvKept == ASSUME TypeOK, BatchInv, [Next]_vars PROVE StrangersInv'
<1>1. /\ StrangersInv /\ MainInv /\ ListsInv /\ origin' = origin /\ owned' = owned /\ Wanted' = Wanted
      /\ route = "none" \/ route' = route
  BY RequestKept, RouteKept DEF BatchInv
<1> SUFFICES ASSUME route' # "direct" PROVE StrangersInv'
  BY DEF StrangersInv
<1>2. route # "direct"
  BY <1>1
<1>3. CASE UNCHANGED vars \/ \E w \in Batch : OfWorker(w)
  BY <1>1, <1>2, <1>3, WritesOfInstalls, OfWorkerFrame DEF vars, StrangersInv
<1>4. CASE OfCaller
  <2>1. disk' = disk /\ aside' = aside
    BY <1>2, <1>4, WritesOfInstalls, OfCallerFrame
  <2>2. main' \in Early => main \in Early
    BY <1>4 DEF OfCaller, ChooseDirect, ChooseStaged, PoolDrained, Adopt, SerialStage, AddRefuses,
              AllTaken, Finalize, WorkersUndone, Drained, Submit, SerialWrite,
              UndoWorker, SerialFails, UndoWorkerFails, Interrupt, Early, Ended
  <2>3. outer' = outer
    BY <1>2, <1>4, StagedCaller
  <2>4. main' = "replacing" => main = "replacing"
    BY <1>4, OfCallerFrame
  <2> QED BY <1>1, <1>2, <2>1, <2>2, <2>3, <2>4 DEF StrangersInv
<1>5. CASE OfCommit \/ OfRollback
  <2>1. main' \notin Early
    BY <1>5, OfCommitFrame, OfRollbackFrame DEF Early
  <2>2. CASE Validate
    <3>1. \A f \in Wanted : origin[f] = "old" => f \in owned
      BY <1>1, <1>2, <2>2 DEF Validate, Unrelated, StrangersInv, Early
    <3> QED BY <1>1, <2>1, <3>1 DEF StrangersInv
  <2>3. CASE main = "replacing" \/ outer \cup aside # {}
    BY <1>1, <1>2, <2>1, <2>3 DEF StrangersInv
  <2>4. CASE main # "replacing" /\ outer \cup aside = {} /\ ~Validate
    <3>1. main' # "replacing" /\ outer' \cup aside' = {}
      BY <1>5, <2>4, OfRollbackFrame DEF OfCommit, OfRollback, ValidateRefuses, EndCommit, CommitFails, CopyFails,
            InterruptInGap, MoveAside, Place, Movable, Placeable, Done, Leave, RollbackFails, UndoOuter, Restore
    <3> QED BY <2>1, <3>1 DEF StrangersInv
  <2> QED BY <2>2, <2>3, <2>4
<1> QED BY <1>3, <1>4, <1>5, StepKinds

------------------------------------------------------------------------------------
(* The disk and the lists.                                                          *)

\* In the direct route, as long as its undoing is promised, what a worker recorded is undone before the
\* batch's transaction is rolled back, and the batch's transaction has nothing before that.
LEMMA UndoneInTurn ==
    ASSUME TypeOK, BatchInv, NEW w \in Batch, route = "direct", Undoable
    PROVE  /\ RollingBack => recorded[w] = {}
           /\ main = "undoing" => recorded[w] = {} \/ outer = {}
<1>1. CASE Parallel
  BY <1>1 DEF BatchInv, SettledInv, RollingBack
<1>2. CASE ~Parallel
  BY <1>2 DEF BatchInv, WorkerInv
<1> QED BY <1>1, <1>2


\* The direct route: a write adds a file to a created list, an undo takes it out and removes a file that
\* was not there before.
LEMMA DirectImage ==
    ASSUME TypeOK, BatchInv, [Next]_vars, route = "direct", Undoable'
    PROVE  \A f \in Files \ Overlooked : disk'[f] = IF f \in Written' THEN "new" ELSE origin[f]
<1> DEFINE Shown(d, written) == \A f \in Files \ Overlooked : d[f] = IF f \in written THEN "new" ELSE origin[f]
<1>1. /\ Batch' = Batch /\ "rollback" \notin hit' /\ Undoable /\ ListsInv /\ MainInv
      /\ \A w \in Batch : needs[w] \subseteq Wanted
      /\ \A f \in Wanted : f \in Files /\ (f \in Overlooked \/ origin[f] = "absent")
      /\ \A v, w \in Batch : v # w => needs[v] \cap needs[w] = {}
      /\ \A w \in Batch : recorded[w] \subseteq needs[w]
      /\ Written \subseteq Wanted
  BY RequestKept, ListFacts, UndoableKept DEF BatchInv, DirectPlan, WorkerInv
<1>2. Shown(disk, Written)
  BY <1>1 DEF BatchInv, DiskInv, ImageOf, ListsInv
<1> SUFFICES Shown(disk', Written')
  OBVIOUS
<1>3. ASSUME Written' = Written, disk' = disk PROVE Shown(disk', Written')
  BY <1>2, <1>3
<1>4. ASSUME NEW f \in Files, Written' = Written \cup {f}, disk' = [disk EXCEPT ![f] = "new"]
      PROVE  Shown(disk', Written')
  BY <1>2, <1>4 DEF TypeOK
<1>5. ASSUME NEW f \in Wanted, Written' = Written \ {f}, disk' = [disk EXCEPT ![f] = "absent"]
      PROVE  Shown(disk', Written')
  BY <1>1, <1>2, <1>5 DEF TypeOK
<1> HIDE DEF Shown
<1>6. ASSUME outer' = outer, undone' = undone, recorded' = recorded PROVE Written' = Written
  BY <1>1, <1>6 DEF Written, Pending
<1>7. ASSUME NEW w \in Batch, NEW f \in Files, outer' = outer, undone' = undone, Records(w, recorded[w] \cup {f})
      PROVE  Written' = Written \cup {f}
  BY <1>1, <1>7 DEF Written, Pending, Records, TypeOK
\* No other worker has the file on its list, nor has the batch's transaction.
<1>8. ASSUME NEW w \in Batch, NEW f \in recorded[w], outer' = outer, undone' = undone,
             Records(w, recorded[w] \ {f}), f \notin outer
      PROVE  Written' = Written \ {f}
  <2>1. \A v \in Batch : v # w => f \notin recorded[v] /\ recorded'[v] = recorded[v]
    BY <1>1, <1>8 DEF Records, TypeOK
  <2>2. recorded'[w] = recorded[w] \ {f}
    BY <1>8 DEF Records, TypeOK
  <2> QED BY <1>1, <1>8, <2>1, <2>2 DEF Written, Pending
<1>9. ASSUME NEW w \in Batch, OfWorker(w) PROVE Shown(disk', Written')
  <2>1. CASE Begin(w) \/ WorkerEnds(w) \/ WorkerRaises(w)
    BY <1>3, <1>6, <2>1 DEF Begin, WorkerEnds, WorkerRaises
  <2>2. ASSUME NEW f \in Files, WorkerWrites(w, f) PROVE Shown(disk', Written')
    BY <1>4, <1>7, <2>2 DEF WorkerWrites
  <2>3. ASSUME NEW f \in Files, WorkerUndoes(w, f) PROVE Shown(disk', Written')
    <3>1. outer = {} /\ f \in Wanted
      BY <1>1, <2>3, AtWorkEarly DEF WorkerUndoes
    <3> QED BY <1>5, <1>8, <2>3, <3>1 DEF WorkerUndoes
  <2>4. CASE WorkerFails(w)
    <3>1. CASE UNCHANGED <<disk, recorded>>
      BY <1>3, <1>6, <2>4, <3>1 DEF WorkerFails
    <3>2. ASSUME NEW f \in needs[w] \ recorded[w], Records(w, recorded[w] \cup {f}), disk' = [disk EXCEPT ![f] = "new"]
          PROVE  Shown(disk', Written')
      <4>1. f \in Files
        BY <1>1
      <4> QED BY <1>4, <1>7, <2>4, <3>2, <4>1 DEF WorkerFails
    <3> QED BY <2>4, <3>1, <3>2 DEF WorkerFails
  <2>5. ~WorkerUndoFails(w)
    BY <1>1 DEF WorkerUndoFails, Injected
  <2> QED BY <1>9, <2>1, <2>2, <2>3, <2>4, <2>5 DEF OfWorker, Work
<1>10. ASSUME NEW f \in Files, outer' = outer \cup {f}, recorded' = recorded, undone' = undone, undone = {}
       PROVE  Written' = Written \cup {f}
  BY <1>1, <1>10 DEF Written, Pending
<1>11. CASE OfCaller
  <2>1. undone' = undone /\ undone = {}
    BY <1>1, <1>11, OfCallerFrame DEF ListsInv, RollingBack, Ended
  <2>2. ~ChooseDirect /\ ~ChooseStaged
    BY <1>1 DEF ChooseDirect, ChooseStaged, MainInv
  <2>3. CASE \/ PoolDrained \/ SerialStage \/ AddRefuses \/ AllTaken \/ Finalize \/ WorkersUndone \/ Drained
             \/ UndoWorkerFails \/ Interrupt
    BY <1>3, <1>6, <2>3 DEF PoolDrained, SerialStage, AddRefuses, AllTaken, Finalize, WorkersUndone, Drained,
              UndoWorkerFails, Interrupt
  <2>4. CASE Adopt
    <3>1. adopted + 1 \in Batch
      BY <2>4, PlanFacts DEF Adopt, TypeOK
    <3>2. Written' = Written
      BY <1>1, <2>1, <2>4, <3>1 DEF Adopt, Written, Pending
    <3> QED BY <1>3, <2>4, <3>2 DEF Adopt
  <2>5. ASSUME NEW w \in Batch, Submit(w) PROVE Shown(disk', Written')
    BY <1>3, <1>6, <2>5 DEF Submit
  <2>6. ASSUME NEW f \in Files, SerialWrite(f) PROVE Shown(disk', Written')
    BY <1>4, <1>10, <2>1, <2>6 DEF SerialWrite
  <2>7. CASE SerialFails
    <3>1. adopted + 1 \in Batch
      BY <2>7, PlanFacts DEF SerialFails, TypeOK
    <3>2. \A f \in needs[adopted + 1] : f \in Files
      BY <1>1, <3>1
    <3> QED BY <1>3, <1>4, <1>6, <1>10, <2>1, <2>7, <3>2 DEF SerialFails
  <2>8. ASSUME NEW w \in Batch, NEW f \in Files, UndoWorker(w, f) PROVE Shown(disk', Written')
    <3>1. f \in Wanted /\ f \in recorded[w] /\ outer = {}
      BY <1>1, <2>8, UndoneInTurn DEF UndoWorker
    <3> QED BY <1>5, <1>8, <2>8, <3>1 DEF UndoWorker
  <2> QED BY <1>11, <2>2, <2>3, <2>4, <2>5, <2>6, <2>7, <2>8 DEF OfCaller
<1>12. ~OfCommit
  BY <1>1, OfCommitFrame DEF MainInv
<1>13. CASE OfRollback
  <2>1. aside = {} /\ outer' = outer /\ recorded' = recorded /\ RollingBack
    BY <1>1, <1>13, OfRollbackFrame DEF ListsInv, RollingBack
  <2>2. \A w \in Batch : recorded[w] = {}
    BY <1>1, <2>1, UndoneInTurn
  <2>3. Written = Pending /\ Written' = Pending'
    BY <1>1, <2>1, <2>2 DEF Written
  <2>4. ~RollbackFails /\ \A f \in Files : ~Restore(f)
    BY <1>1, <2>1 DEF RollbackFails, Injected, Restore
  <2>5. ASSUME NEW f \in Files, UndoOuter(f) PROVE Shown(disk', Written')
    <3>1. f \in Wanted /\ Written' = Written \ {f}
      BY <1>1, <2>1, <2>3, <2>5 DEF UndoOuter, ListsInv, Pending
    <3> QED BY <1>5, <2>5, <3>1 DEF UndoOuter
  <2>6. CASE Leave
    BY <1>3, <1>6, <2>6 DEF Leave
  <2> QED BY <1>13, <2>4, <2>5, <2>6 DEF OfRollback
<1>14. CASE UNCHANGED vars
  BY <1>3, <1>6, <1>14 DEF vars
<1> QED BY <1>9, <1>11, <1>12, <1>13, <1>14, StepKinds

\* The staged route: the commit lists what it has moved aside and what it has placed where nothing is.
LEMMA StagedImage ==
    ASSUME TypeOK, BatchInv, [Next]_vars, route # "direct", Undoable', \A w \in Batch : recorded'[w] = {}
    PROVE  /\ \A f \in Files : disk'[f] = ImageOf(f)'
           /\ \A f \in Pending' \ aside' : origin[f] = "absent"
<1>1. /\ Batch' = Batch /\ origin' = origin /\ hit' \cap {"rollback", "partial", "gap"} = {} /\ Undoable
      /\ ListsInv /\ MainInv /\ Overlooked = {} /\ Wanted \subseteq Files
      /\ Written = Pending /\ Written' = Pending'
  BY RequestKept, ListFacts, UndoableKept DEF BatchInv, Written, Undoable
<1>2. /\ \A f \in Files : disk[f] = IF f \in Pending THEN "new" ELSE IF f \in aside THEN "absent" ELSE origin[f]
      /\ \A f \in Pending \ aside : origin[f] = "absent"
  BY <1>1 DEF BatchInv, DiskInv, ImageOf
<1> DEFINE Shown ==
             /\ \A f \in Files : disk'[f] = IF f \in Pending' THEN "new" ELSE IF f \in aside' THEN "absent" ELSE origin[f]
             /\ \A f \in Pending' \ aside' : origin[f] = "absent"
<1> SUFFICES Shown
  BY <1>1 DEF ImageOf
<1>3. CASE UNCHANGED <<disk, lists>>
  BY <1>2, <1>3 DEF Pending
<1>4. CASE OfCaller \/ \E w \in Batch : OfWorker(w)
  BY <1>3, <1>4, WritesOfInstalls, StagedCaller, OfCallerFrame, OfWorkerFrame
<1>5. CASE OfCommit
  <2>1. undone = {} /\ undone' = {}
    BY <1>1, <1>5, OfCommitFrame DEF ListsInv, RollingBack
  <2>2. ~CopyFails /\ ~InterruptInGap
    BY <1>1 DEF CopyFails, InterruptInGap, Injected
  <2>3. CASE Validate \/ ValidateRefuses \/ EndCommit \/ CommitFails
    BY <1>3, <2>3 DEF Validate, ValidateRefuses, EndCommit, CommitFails
  <2>4. ASSUME NEW f \in Files, MoveAside(f) PROVE Shown
    <3>1. f \notin outer /\ aside' = aside \cup {f} /\ outer' = outer /\ disk' = [disk EXCEPT ![f] = "absent"]
      BY <1>1, <2>4 DEF MoveAside, Movable, ListsInv
    <3> QED BY <1>2, <2>1, <3>1 DEF Pending, TypeOK
  <2>5. ASSUME NEW f \in Files, Place(f) PROVE Shown
    <3>1. /\ f \notin outer /\ outer' = outer \cup {f} /\ aside' = aside /\ disk[f] = "absent"
          /\ disk' = [disk EXCEPT ![f] = "new"]
      BY <1>1, <2>5 DEF Place, Placeable
    <3>2. f \in aside \/ origin[f] = "absent"
      BY <1>2, <2>1, <3>1 DEF Pending
    <3> QED BY <1>2, <2>1, <3>1, <3>2 DEF Pending, TypeOK
  <2> QED BY <1>5, <2>2, <2>3, <2>4, <2>5 DEF OfCommit
<1>6. CASE OfRollback
  <2>1. outer' = outer
    BY <1>6, OfRollbackFrame
  <2>2. ~RollbackFails
    BY <1>1 DEF RollbackFails, Injected
  <2>3. ASSUME NEW f \in Files, UndoOuter(f) PROVE Shown
    <3>1. f \in Pending /\ Pending' = Pending \ {f} /\ aside' = aside /\ disk' = [disk EXCEPT ![f] = "absent"]
      BY <2>3 DEF UndoOuter, Pending
    <3> QED BY <1>2, <3>1 DEF TypeOK
  <2>4. ASSUME NEW f \in Files, Restore(f) PROVE Shown
    <3>1. /\ Pending = {} /\ Pending' = {} /\ aside' = aside \ {f} /\ disk' = [disk EXCEPT ![f] = origin[f]]
      BY <2>4 DEF Restore, Pending
    <3> QED BY <1>2, <3>1 DEF TypeOK
  <2>5. CASE Leave
    BY <1>3, <2>5 DEF Leave
  <2> QED BY <1>6, <2>2, <2>3, <2>4, <2>5 DEF OfRollback
<1>7. CASE UNCHANGED vars
  BY <1>3, <1>7 DEF vars
<1> QED BY <1>4, <1>5, <1>6, <1>7, StepKinds

LEMMA WrittenAll ==
    ASSUME TypeOK, BatchInv, route = "direct", main \in {"adopting", "serial"}, adopted = size
    PROVE  Written = Wanted
<1>1. undone = {} /\ Batch = 1..size
  BY PlanFacts DEF BatchInv, ListsInv, RollingBack, TypeOK
<1>2. \A w \in Batch : needs[w] \subseteq Written
  <2> SUFFICES ASSUME NEW w \in Batch PROVE needs[w] \subseteq Written
    OBVIOUS
  <2>1. CASE main = "adopting"
    <3>1. recorded[w] = needs[w]
      BY <2>1 DEF BatchInv, WorkerInv
    <3> QED BY <3>1 DEF Written
  <2>2. CASE main = "serial"
    <3>1. needs[w] \subseteq outer
      BY <1>1, <2>2 DEF BatchInv, ListsInv
    <3> QED BY <1>1, <3>1 DEF Written, Pending
  <2> QED BY <2>1, <2>2
<1> QED BY <1>2, ListFacts DEF Wanted

LEMMA StepsToEnd ==
    ASSUME [Next]_vars, main' \in {"finalizing"} \cup Ended, main' # main
    PROVE  \/ AllTaken \/ EndCommit \/ Finalize \/ Leave \/ RollbackFails
           \/ Interrupt /\ main \in {"start", "finalizing"}
<1>1. CASE OfCaller
  <2>1. ASSUME NEW w \in Batch, Submit(w) PROVE FALSE
    BY <2>1 DEF Submit, Ended
  <2>2. ASSUME NEW f \in Files, SerialWrite(f) PROVE FALSE
    BY <2>2 DEF SerialWrite
  <2>3. ASSUME NEW w \in Batch, NEW f \in Files, UndoWorker(w, f) PROVE FALSE
    BY <2>3 DEF UndoWorker
  <2>4. ~ChooseDirect /\ ~ChooseStaged /\ ~PoolDrained /\ ~Adopt /\ ~SerialStage /\ ~AddRefuses
        /\ ~WorkersUndone /\ ~Drained /\ ~SerialFails /\ ~UndoWorkerFails
    BY DEF ChooseDirect, ChooseStaged, PoolDrained, Adopt, SerialStage, AddRefuses, WorkersUndone, Drained,
           SerialFails, UndoWorkerFails, Ended
  <2>5. Interrupt => main \in {"start", "finalizing"}
    BY DEF Interrupt, Ended
  <2> QED BY <1>1, <2>1, <2>2, <2>3, <2>4, <2>5 DEF OfCaller
<1>2. CASE OfCommit
  BY <1>2 DEF OfCommit, Validate, ValidateRefuses, CommitFails, CopyFails, InterruptInGap, MoveAside, Place, Ended
<1>3. CASE OfRollback
  BY <1>3 DEF OfRollback, UndoOuter, Restore
<1> QED BY <1>1, <1>2, <1>3, StepKinds, OfWorkerFrame DEF vars

\* A call that is through does nothing more in the main thread; in the direct route, as long as its
\* undoing is promised, nor in the others, and in the staged route those write nothing.
LEMMA EndedIsQuiet ==
    ASSUME TypeOK, BatchInv, [Next]_vars, main \in {"finalizing"} \cup Ended, main' = main, Undoable
    PROVE  UNCHANGED <<disk, request, route, main, recorded, adopted, lists>>
<1>1. CASE OfCaller
  <2>1. main = "finalizing"
    BY <1>1, OfCallerFrame
  <2> QED BY <1>1, <2>1, OfCallerFrame DEF OfCaller, ChooseDirect, ChooseStaged, PoolDrained, Adopt, SerialStage,
            AddRefuses, AllTaken, Finalize, WorkersUndone, Drained, Submit, SerialWrite, UndoWorker, SerialFails,
            UndoWorkerFails, Interrupt
<1>2. ~OfCommit /\ ~OfRollback
  BY OfCommitFrame, OfRollbackFrame DEF Ended
<1>3. ASSUME NEW w \in Batch, OfWorker(w)
      PROVE  UNCHANGED <<disk, request, route, main, recorded, adopted, lists>>
  <2>1. worker[w] \in {"queued", "running", "undoing"}
    BY <1>3, OfWorkerFrame
  <2>2. route # "direct"
    BY <2>1, AtWorkEarly DEF Ended
  <2>3. recorded[w] = {}
    BY <2>2, ListFacts
  <2> QED BY <1>3, <2>2, <2>3, OfWorkerFrame DEF OfWorker, Work, Begin, WorkerEnds, WorkerRaises, WorkerWrites,
             WorkerUndoes, WorkerFails, WorkerUndoFails
<1> QED BY <1>1, <1>2, <1>3, StepKinds DEF vars

LEMMA DiskKept == ASSUME TypeOK, BatchInv, [Next]_vars PROVE DiskInv'
<1> SUFFICES ASSUME Undoable' PROVE DiskInv'
  BY DEF DiskInv
<1>1. /\ Undoable /\ "rollback" \notin hit' /\ hit \subseteq hit' /\ origin' = origin /\ Wanted' = Wanted
      /\ Batch' = Batch /\ owned' = owned /\ DirectPlan' /\ ListsInv' /\ \A w \in Batch : WorkerInv(w)'
      /\ DirectPlan /\ MainInv /\ ListsInv /\ StrangersInv /\ DiskInv
  BY UndoableKept, HitGrows, RequestKept, PlanKept, ListsKept, WorkersKept DEF BatchInv
<1>2. \A f \in Files \ Overlooked' : disk'[f] = ImageOf(f)'
  <2>1. CASE route # "direct" /\ route' # "direct"
    BY <1>1, <2>1, StagedImage DEF WorkerInv
  <2>2. CASE route = "direct"
    <3>1. route' = route /\ aside' = {}
      BY <1>1, <2>2, RouteKept DEF ListsInv
    <3> QED BY <1>1, <2>2, <3>1, DirectImage, OverlookedKept DEF ImageOf
  <2>3. CASE route # "direct" /\ route' = "direct"
    <3>1. ChooseDirect
      BY <2>3, RouteChoice DEF ChooseStaged
    <3>2. disk' = origin /\ outer' = {} /\ aside' = {} /\ recorded' = recorded
      BY <1>1, <2>3, <3>1 DEF ChooseDirect, StrangersInv, ListsInv, Early
    <3>3. Written' = {}
      BY <1>1, <2>3, <3>2, ListFacts DEF Written, Pending
    <3> QED BY <1>1, <3>2, <3>3 DEF ImageOf
  <2> QED BY <2>1, <2>2, <2>3
<1>3. \A f \in (Pending' \ aside') \ Overlooked' : origin[f] = "absent"
  <2>1. CASE route' = "direct"
    BY <1>1, <2>1 DEF DirectPlan, ListsInv, Pending
  <2>2. CASE route' # "direct"
    <3>1. route # "direct"
      BY <2>2, RouteKept
    <3> QED BY <1>1, <2>2, <3>1, StagedImage DEF WorkerInv
  <2> QED BY <2>1, <2>2
<1>4. ASSUME UNCHANGED <<recorded, lists>> PROVE Written' = Written /\ aside' = aside
  BY <1>1, <1>4 DEF Written, Pending
<1>5. ASSUME UNCHANGED <<recorded, lists, route>> PROVE Complete' = Complete
  BY <1>1, <1>4, <1>5 DEF Complete
<1>6. main' = "raised" => Written' \cup aside' = {} \/ ("interrupt" \in hit' /\ Complete')
  <2> SUFFICES ASSUME main' = "raised" PROVE Written' \cup aside' = {} \/ ("interrupt" \in hit' /\ Complete')
    OBVIOUS
  <2>1. CASE main = "raised"
    <3>1. UNCHANGED <<recorded, lists, route>>
      BY <1>1, <2>1, EndedIsQuiet DEF Ended
    <3> QED BY <1>1, <1>4, <1>5, <2>1, <3>1 DEF DiskInv
  <2>2. ASSUME Leave, main # "raised" PROVE Written' \cup aside' = {}
    <3>1. Pending = {} /\ aside = {} /\ UNCHANGED <<recorded, lists>> /\ RollingBack
      BY <2>2 DEF Leave, Pending
    <3>2. \A w \in Batch : recorded[w] = {}
      BY <1>1, <3>1, ListFacts, UndoneInTurn
    <3> QED BY <1>4, <3>1, <3>2 DEF Written
  <2>3. ASSUME Interrupt, main = "finalizing" PROVE "interrupt" \in hit' /\ Complete'
    BY <1>1, <1>5, <2>3 DEF Interrupt, Injected, DiskInv
  <2>4. ASSUME Interrupt, main = "start" PROVE Written' \cup aside' = {}
    <3>1. UNCHANGED <<recorded, lists>> /\ outer = {} /\ aside = {} /\ \A w \in Batch : recorded[w] = {}
      BY <1>1, <2>4, ListFacts DEF Interrupt, MainInv, ListsInv
    <3> QED BY <1>4, <3>1 DEF Written, Pending
  <2>5. ~RollbackFails
    BY <1>1 DEF RollbackFails, Injected
  <2> QED BY <2>1, <2>2, <2>3, <2>4, <2>5, StepsToEnd DEF AllTaken, EndCommit, Finalize, Ended
<1>7. main' \in {"finalizing", "returned"} => Complete'
  <2> SUFFICES ASSUME main' \in {"finalizing", "returned"} PROVE Complete'
    OBVIOUS
  <2>1. CASE main' = main
    <3>1. UNCHANGED <<recorded, lists, route>>
      BY <1>1, <2>1, EndedIsQuiet DEF Ended
    <3> QED BY <1>1, <1>5, <2>1, <3>1 DEF DiskInv
  <2>2. ASSUME AllTaken PROVE Complete'
    <3>1. route = "direct" /\ UNCHANGED <<recorded, lists, route>>
      BY <2>2 DEF AllTaken
    <3>2. Written = Wanted
      BY <2>2, <3>1, WrittenAll DEF AllTaken
    <3> QED BY <1>5, <3>1, <3>2 DEF Complete
  <2>3. ASSUME EndCommit PROVE Complete'
    <3>1. UNCHANGED <<recorded, lists, route>> /\ Wanted \subseteq outer /\ owned \ Wanted \subseteq aside
          /\ undone = {}
      BY <1>1, <2>3 DEF EndCommit, Done, ListsInv, RollingBack
    <3>2. Wanted \subseteq Written
      BY <3>1 DEF Written, Pending
    <3>3. Complete
      BY <3>1, <3>2, ListFacts DEF Complete
    <3> QED BY <1>5, <3>1, <3>3
  <2>4. ASSUME Finalize PROVE Complete'
    BY <1>1, <1>5, <2>4 DEF Finalize, DiskInv
  <2> QED BY <2>1, <2>2, <2>3, <2>4, StepsToEnd DEF Leave, RollbackFails, Interrupt, Ended
<1> QED BY <1>1, <1>2, <1>3, <1>6, <1>7 DEF DiskInv

LEMMA InvStep == ASSUME TypeOK, BatchInv, [Next]_vars PROVE BatchInv'
<1>1. Batch' = Batch
  BY RequestKept
<1>2. \A w \in Batch : WorkerInv(w)'
  BY WorkersKept
<1>3. (\A w \in Batch : WorkerInv(w))'
  BY <1>1, <1>2
<1> QED BY <1>3, PlanKept, MainKept, SettledKept, ListsKept, StrangersInvKept, DiskKept DEF BatchInv

THEOREM Invariance == Spec => [](TypeOK /\ BatchInv)
<1>1. Init => TypeOK /\ BatchInv
  BY InitTyped, InitInv
<1>2. TypeOK /\ BatchInv /\ [Next]_vars => (TypeOK /\ BatchInv)'
  BY TypeStep, InvStep
<1> QED BY <1>1, <1>2, PTL DEF Spec

------------------------------------------------------------------------------------
(* What the batch promises.                                                         *)

\* When a call raises and nothing else goes wrong, the target is as it was, but for what the preflight
\* overlooked: for every number of wheels, on every route, wherever the commit fails and whatever other
\* workers were doing (install_one, the handlers, rollback).
THEOREM NothingIsLeft == Spec => []FailureLeavesNothing
<1>1. ASSUME TypeOK, BatchInv PROVE FailureLeavesNothing
  <2> SUFFICES ASSUME main = "raised", hit \subseteq {"error"}, NEW f \in Files \ Overlooked
               PROVE  disk[f] = origin[f]
    BY DEF FailureLeavesNothing
  <2> QED BY <1>1 DEF BatchInv, DiskInv, Undoable, ImageOf
<1> QED BY <1>1, Invariance, PTL

LEMMA StrangersStep ==
    ASSUME TypeOK, BatchInv, [Next]_vars, NEW f \in Files, origin[f] = "old", f \notin owned \cup Overlooked
    PROVE  disk'[f] = disk[f]
<1>1. ASSUME NEW g, g # f, NEW c, disk' = [disk EXCEPT ![g] = c] PROVE disk'[f] = disk[f]
  BY <1>1 DEF TypeOK
<1>2. CASE OfCaller \/ \E w \in Batch : OfWorker(w)
  <2>1. route = "direct" => f \notin Wanted
    BY DEF BatchInv, DirectPlan
  <2> QED BY <1>1, <1>2, <2>1, WritesOfInstalls
<1>3. CASE OfCommit \/ OfRollback
  <2>1. /\ route = "direct" => f \notin Wanted \cup owned /\ main # "replacing"
        /\ route # "direct" /\ (main = "replacing" \/ outer \cup aside # {}) => f \notin Wanted \cup owned
    BY DEF BatchInv, DirectPlan, MainInv, StrangersInv
  <2> QED BY <1>1, <1>3, <2>1, WritesOfCommit
<1> QED BY <1>2, <1>3, StepKinds DEF vars

\* No step of any batch, of its commit or of its rollback writes, moves or removes a file of others that
\* differs from what the batch installs, unless the preflight overlooked it (validate,
\* direct_batch_preflight).
THEOREM StrangersAreSafe == Spec => StrangersKept
<1>1. TypeOK /\ BatchInv /\ [Next]_vars
          => [\A f \in Files : origin[f] = "old" /\ f \notin owned \cup Overlooked => disk'[f] = disk[f]]_vars
  BY StrangersStep
<1> QED BY <1>1, Invariance, PTL DEF Spec, StrangersKept

\* What the caller may rely on, and the answer, as the abstract batch sees them.
Target == IF main \in Ended /\ Promised THEN disk ELSE IF main = "returned" THEN Installed ELSE origin
Answer == IF main \in Ended THEN main ELSE "none"

LEMMA EndedStays == ASSUME [Next]_vars, main \in Ended PROVE UNCHANGED <<main, route>>
BY StepKinds, OfWorkerFrame, OfCallerFrame, OfCommitFrame, OfRollbackFrame DEF vars, Ended

\* A target that holds what the lists say holds the batch if they are complete, and what it held before
\* if they are empty.
LEMMA WholeOrNothing ==
    ASSUME TypeOK, BatchInv, Promised
    PROVE  /\ Complete => disk = Installed
           /\ Written \cup aside = {} => disk = origin
<1>1. disk \in [Files -> Contents] /\ origin \in [Files -> Contents] /\ Installed \in [Files -> Contents]
  BY DEF TypeOK, Installed, Contents
<1>2. \A f \in Files : disk[f] = ImageOf(f)
  BY DEF Promised, BatchInv, DiskInv
<1>3. aside \subseteq Wanted \cup owned /\ (route = "direct" => owned = {} /\ aside = {})
  BY DEF BatchInv, ListsInv, DirectPlan
<1>4. ASSUME Complete PROVE disk = Installed
  <2>1. \A f \in Files : ImageOf(f) = Installed[f]
    BY <1>3, <1>4 DEF Complete, ImageOf, Installed
  <2> QED BY <1>1, <1>2, <2>1
<1>5. ASSUME Written \cup aside = {} PROVE disk = origin
  <2>1. \A f \in Files : ImageOf(f) = origin[f]
    BY <1>5 DEF ImageOf
  <2> QED BY <1>1, <1>2, <2>1
<1> QED BY <1>4, <1>5

\* Every step of the call is a step of AtomicBatch, or none.
LEMMA StepIsAtomic ==
    ASSUME TypeOK, BatchInv, TypeOK', BatchInv', [Next]_vars
    PROVE  [Result!Next]_<<origin, Installed, Target, Answer>>
<1>1. origin' = origin /\ Installed' = Installed /\ Batch' = Batch
  BY RequestKept
<1>2. CASE main' \notin Ended
  <2>1. main \notin Ended
    BY <1>2, EndedStays
  <2>2. Target = origin /\ Target' = origin' /\ Answer = "none" /\ Answer' = "none"
    BY <1>2, <2>1 DEF Target, Answer, Ended
  <2> QED BY <1>1, <2>2
<1>3. CASE main \notin Ended /\ main' \in Ended
  <2>1. Target = origin /\ Answer = "none" /\ Answer' = main'
    BY <1>3 DEF Target, Answer, Ended
  <2>2. Promised' => (Complete' => disk' = Installed) /\ (Written' \cup aside' = {} => disk' = origin)
    <3>1. (Promised => (Complete => disk = Installed) /\ (Written \cup aside = {} => disk = origin))'
      BY WholeOrNothing, PTL
    <3> QED BY <1>1, <3>1
  <2>3. CASE main' = "returned"
    <3>1. Target' = Installed
      BY <1>1, <2>2, <2>3 DEF Target, BatchInv, DiskInv, Promised, Ended
    <3> QED BY <1>1, <2>1, <2>3, <3>1 DEF Result!Next, Result!Return, Target, Answer
  <2>4. CASE main' = "raised"
    <3>1. Target' \in {origin, Installed}
      BY <1>1, <2>2, <2>4 DEF Target, BatchInv, DiskInv, Promised, Ended
    <3> QED BY <1>1, <2>1, <2>4, <3>1 DEF Result!Next, Result!Raise, Target, Answer
  <2> QED BY <1>3, <2>3, <2>4 DEF Ended
<1>4. CASE main \in Ended
  <2>1. main' = main /\ Answer' = Answer /\ route' = route /\ Overlooked' = Overlooked
    BY <1>4, EndedStays, OverlookedKept DEF Answer
  <2>2. Undoable' => Undoable
    BY UndoableKept
  <2>3. Promised => disk' = disk /\ Undoable'
    <3> SUFFICES ASSUME Promised PROVE disk' = disk /\ Undoable'
      OBVIOUS
    <3>1. UNCHANGED <<disk, recorded, lists>>
      BY <1>4, <2>1, EndedIsQuiet DEF Promised
    <3>2. hit' \subseteq hit \cup {"error"}
      <4>1. ~OfCaller /\ ~OfCommit /\ ~OfRollback
        BY <1>4, OfCallerFrame, OfCommitFrame, OfRollbackFrame DEF Ended
      <4>2. ASSUME NEW w \in Batch, OfWorker(w) PROVE hit' \subseteq hit \cup {"error"}
        <5>1. ~WorkerUndoFails(w)
          <6>1. CASE route = "direct"
            BY <1>4, <6>1, <4>2, AtWorkEarly, OfWorkerFrame DEF Promised, Ended
          <6>2. CASE route # "direct"
            BY <6>2, ListFacts DEF WorkerUndoFails
          <6> QED BY <6>1, <6>2
        <5> QED BY <4>2, <5>1 DEF OfWorker, Work, Begin, WorkerEnds, WorkerRaises, WorkerWrites, WorkerUndoes,
                   WorkerFails, Injected
      <4> QED BY <4>1, <4>2, StepKinds DEF vars
    <3> QED BY <2>1, <3>1, <3>2, RequestKept DEF Promised, Undoable
  <2>4. Promised' = Promised
    BY <2>1, <2>2, <2>3 DEF Promised
  <2> QED BY <1>1, <2>1, <2>3, <2>4 DEF Target
<1> QED BY <1>2, <1>3, <1>4

\* A batch of any number of wheels, on any number of threads, ends with all of the batch in the target or
\* with the target as it was, and nothing it started changes the target later: the route, the order in
\* which the workers run, fail and are undone, where the commit fails and the moment of an interrupt make
\* no difference, as far as the code undoes them (install_wheels_transactionally).
THEOREM BatchImplementsAtomic == Spec => BatchIsAtomic
<1>1. Init => Result!Init
  BY DEF Init, Ended, Result!Init
<1>2. TypeOK /\ BatchInv /\ (TypeOK /\ BatchInv)' /\ [Next]_vars
          => [Result!Next]_<<origin, Installed, Target, Answer>>
  BY StepIsAtomic
<1> QED BY <1>1, <1>2, Invariance, PTL DEF Spec, BatchIsAtomic, Result!Spec, Target, Answer
====
