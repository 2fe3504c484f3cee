------------------------------ MODULE BatchInstall ------------------------------
(* A batch of wheels installed by install_wheels_transactionally, after the archive *)
(* cache route has declined: the choice between the direct and the staged route,    *)
(* the thread pool that installs the wheels, the merge of the workers' transactions *)
(* into the batch's, and what happens when a worker raises or Ctrl-C reaches the    *)
(* main thread. The commit of the staged route moves files aside, places and deletes *)
(* them one at a time, and its rollback undoes them one at a time, in the handler and,   *)
(* when that is broken off, once more in __exit__. InstallTransaction has the single     *)
(* calls, links and aliased paths.                                                       *)
EXTENDS Naturals, Sequences, FiniteSets

CONSTANTS
    Files,          \* destinations in the target
    Generated,      \* those a wheel does not contain: INSTALLER, REQUESTED
    Plans,          \* the batches considered: sequences of sets of files
    ParallelFrom,   \* 4 in the code: a smaller batch is installed in order
    ParallelTo,     \* 64 in the code: so is a larger one
    PoolSize,       \* 4 in the code
    FaultKinds      \* which faults may happen, out of AllFaults

AllFaults ==
    { "error",      \* an install raises: a bad wheel, a full disk
      "interrupt",  \* KeyboardInterrupt in the main thread
      "rollback",   \* a rollback is broken off: a call of it raises, or Ctrl-C
      "partial",    \* a copy of the commit raises after it made part of the file
      "gap" }       \* KeyboardInterrupt between a change of the commit and its record

ASSUME GeneratedAssumption == Generated \subseteq Files
ASSUME PoolAssumption ==
    PoolSize \in Nat \ {0} /\ ParallelFrom \in Nat /\ ParallelTo \in Nat
\* A generated file belongs to the metadata of one wheel.
ASSUME PlansAssumption ==
    /\ Plans \subseteq Seq((SUBSET Files) \ {{}}) \ {<<>>}
    /\ \A p \in Plans : \A v, w \in DOMAIN p : v # w => p[v] \cap p[w] \cap Generated = {}
ASSUME FaultAssumption == FaultKinds \subseteq AllFaults

\* "new" is what the batch installs, also when another program put it there before.
Contents == {"absent", "old", "new"}

VARIABLES
    disk,       \* what every destination holds
    origin,     \* what it held when the call was made
    owned,      \* files of the distributions the batch replaces
    needs,      \* the files each wheel installs, in the order of the requests
    pycompile,  \* compile modules after staging them
    route,      \* "none", "direct" or "staged"
    main,       \* where the main thread is
    worker,     \* where the install of each wheel is
    recorded,   \* created_internal of each worker's transaction, less what it undid
    adopted,    \* how many wheels the batch transaction has taken over, in order
    outer,      \* created_internal of the batch transaction
    undone,     \* those of them that its rollback has handled; a second run starts over
    aside,      \* files in a slot of its backups that are not back in their place
    hit         \* the faults that happened

request == <<origin, owned, needs, pycompile>>
workers == <<worker, recorded, adopted>>
lists == <<outer, undone, aside>>
vars == <<disk, request, route, main, workers, lists, hit>>

size == Len(needs)
Batch == 1..size
Wanted == UNION {needs[w] : w \in Batch}
Parallel == size \in ParallelFrom..ParallelTo /\ ~pycompile /\ owned = {}
Ended == {"returned", "raised"}
RollingBack == main \in {"handling", "leaving"}
Active == {w \in Batch : worker[w] \in {"running", "undoing"}}

\* Generated files of others that the direct route writes over: its preflight does not
\* look at them (README, Findings).
Overlooked == {f \in Wanted \cap Generated : route = "direct" /\ origin[f] # "absent"}

TypeOK ==
    /\ disk \in [Files -> Contents]
    /\ origin \in [Files -> Contents]
    /\ owned \subseteq Files
    /\ needs \in Plans
    /\ pycompile \in BOOLEAN
    /\ route \in {"none", "direct", "staged"}
    /\ main \in {"start", "submitting", "awaiting", "draining", "serial", "adopting",
                 "committing", "replacing", "finalizing", "undoing", "handling", "leaving"}
                 \cup Ended
    /\ worker \in [Batch -> {"idle", "queued", "running", "undoing", "ok", "failed"}]
    /\ Cardinality(Active) <= PoolSize
    /\ recorded \in [Batch -> SUBSET Files]
    /\ adopted \in 0..size
    /\ undone \subseteq outer /\ outer \subseteq Files
    /\ aside \subseteq Files
    /\ hit \subseteq AllFaults

Init ==
    /\ origin \in [Files -> Contents]
    /\ disk = origin
    /\ owned \in SUBSET {f \in Files : origin[f] # "absent"}
    /\ needs \in Plans
    /\ pycompile \in BOOLEAN
    /\ route = "none" /\ main = "start"
    /\ worker = [w \in Batch |-> "idle"]
    /\ recorded = [w \in Batch |-> {}]
    /\ adopted = 0 /\ outer = {} /\ undone = {} /\ aside = {} /\ hit = {}

Injected(fault) == fault \in FaultKinds /\ hit' = hit \cup {fault}

------------------------------------------------------------------------------------
(* The choice of the route.                                                         *)

\* direct_batch_preflight: every member is new, and no two wheels share one. It does
\* not look at generated files.
Preflight ==
    /\ \A f \in Wanted \ Generated : disk[f] = "absent"
    /\ \A v, w \in Batch : v # w => (needs[v] \cap needs[w]) \subseteq Generated

ChooseDirect ==
    /\ main = "start"
    /\ ~pycompile /\ owned = {} /\ Preflight
    /\ route' = "direct"
    /\ main' = IF Parallel THEN "submitting" ELSE "serial"
    /\ UNCHANGED <<disk, request, workers, lists, hit>>

\* The preflight declines for other reasons as well: a small batch, scripts, no layout.
ChooseStaged ==
    /\ main = "start"
    /\ route' = "staged"
    /\ main' = IF Parallel THEN "submitting" ELSE "serial"
    /\ UNCHANGED <<disk, request, workers, lists, hit>>

------------------------------------------------------------------------------------
(* The workers.                                                                     *)

Settled(w) == worker[w] \in {"ok", "failed"}

Moves(w, state) == worker' = [worker EXCEPT ![w] = state]
Records(w, files) == recorded' = [recorded EXCEPT ![w] = files]

Submit(w) ==
    /\ main = "submitting" /\ worker[w] = "idle"
    /\ \A v \in 1..(w - 1) : worker[v] # "idle"
    /\ Moves(w, "queued")
    /\ main' = IF w = size THEN "awaiting" ELSE main
    /\ UNCHANGED <<disk, request, route, recorded, adopted, lists, hit>>

\* Mutants of Begin: no bound on the threads; nothing starts after a failure.
BeginUnbounded(w) ==
    /\ worker[w] = "queued"
    /\ \A v \in 1..(w - 1) : worker[v] # "queued"
    /\ Moves(w, "running")
    /\ UNCHANGED <<disk, request, route, main, recorded, adopted, lists, hit>>

BeginUnlessFailed(w) ==
    /\ worker[w] = "queued"
    /\ \A v \in Batch : worker[v] # "failed"
    /\ Cardinality(Active) < PoolSize
    /\ Moves(w, "running")
    /\ UNCHANGED <<disk, request, route, main, recorded, adopted, lists, hit>>

\* The pool takes the calls in the order they were submitted.
Begin(w) ==
    /\ worker[w] = "queued"
    /\ \A v \in 1..(w - 1) : worker[v] # "queued"
    /\ Cardinality(Active) < PoolSize
    /\ Moves(w, "running")
    /\ UNCHANGED <<disk, request, route, main, recorded, adopted, lists, hit>>

\* record_created, then the write.
WorkerWrites(w, f) ==
    /\ worker[w] = "running" /\ route = "direct"
    /\ f \in needs[w] \ recorded[w]
    /\ Records(w, recorded[w] \cup {f})
    /\ disk' = [disk EXCEPT ![f] = "new"]
    /\ UNCHANGED <<request, route, main, worker, adopted, lists, hit>>

\* A staged install writes in its own directory and only adds to its transaction.
WorkerEnds(w) ==
    /\ worker[w] = "running"
    /\ route = "direct" => recorded[w] = needs[w]
    /\ Moves(w, "ok")
    /\ UNCHANGED <<disk, request, route, main, recorded, adopted, lists, hit>>

\* `except Exception: local_transaction.rollback()`. The file that could not be
\* written is on the created list.
WorkerFails(w) ==
    /\ Injected("error")
    /\ worker[w] = "running"
    /\ Moves(w, "undoing")
    /\ \/ UNCHANGED <<disk, recorded>>
       \/ \E f \in needs[w] \ recorded[w] :
             /\ route = "direct"
             /\ Records(w, recorded[w] \cup {f})
             /\ disk' = [disk EXCEPT ![f] = "new"]
    /\ UNCHANGED <<request, route, main, adopted, lists>>

WorkerUndoes(w, f) ==
    /\ worker[w] = "undoing" /\ f \in recorded[w]
    /\ Records(w, recorded[w] \ {f})
    /\ disk' = [disk EXCEPT ![f] = "absent"]
    /\ UNCHANGED <<request, route, main, worker, adopted, lists, hit>>

WorkerRaises(w) ==
    /\ worker[w] = "undoing" /\ recorded[w] = {}
    /\ Moves(w, "failed")
    /\ UNCHANGED <<disk, request, route, main, recorded, adopted, lists, hit>>

WorkerUndoFails(w) ==
    /\ Injected("rollback")
    /\ worker[w] = "undoing" /\ recorded[w] # {}
    /\ Moves(w, "failed")
    /\ UNCHANGED <<disk, request, route, main, recorded, adopted, lists>>

------------------------------------------------------------------------------------
(* The main thread.                                                                 *)

\* Leaving `with pool` waits for every call that was submitted.
PoolIsIdle == \A w \in Batch : worker[w] = "idle" \/ Settled(w)

\* Mutant of PoolDrained: shutdown(wait=False), and the first exception is handled
\* while other workers still run.
PoolAbandoned ==
    /\ main = "awaiting"
    /\ \/ \E w \in Batch : worker[w] = "failed"
       \/ \A w \in Batch : worker[w] = "ok"
    /\ main' = IF \E w \in Batch : worker[w] = "failed" THEN "undoing" ELSE "adopting"
    /\ UNCHANGED <<disk, request, route, workers, lists, hit>>

PoolDrained ==
    /\ main = "awaiting" /\ PoolIsIdle
    /\ main' = IF \E w \in Batch : worker[w] = "failed" THEN "undoing" ELSE "adopting"
    /\ UNCHANGED <<disk, request, route, workers, lists, hit>>

\* What the batch transaction has staged so far.
StagedFiles == UNION {needs[w] : w \in 1..adopted}
Clashes == route = "staged" /\ needs[adopted + 1] \cap StagedFiles # {}

\* adopt, for the next wheel in the order of the requests.
Adopt ==
    /\ main = "adopting" /\ adopted < size /\ ~Clashes
    /\ adopted' = adopted + 1
    /\ outer' = outer \cup recorded[adopted + 1]
    /\ UNCHANGED <<disk, request, route, main, worker, recorded, undone, aside, hit>>

\* A batch that is not parallel stages each wheel in the batch transaction itself, or
\* writes its files under it.
SerialStage ==
    /\ main = "serial" /\ adopted < size /\ ~Clashes
    /\ route = "direct" => needs[adopted + 1] \subseteq outer
    /\ adopted' = adopted + 1
    /\ UNCHANGED <<disk, request, route, main, worker, recorded, lists, hit>>

SerialWrite(f) ==
    /\ main = "serial" /\ adopted < size /\ route = "direct"
    /\ f \in needs[adopted + 1] \ outer
    /\ outer' = outer \cup {f}
    /\ disk' = [disk EXCEPT ![f] = "new"]
    /\ UNCHANGED <<request, route, main, workers, undone, aside, hit>>

\* add: "multiple wheels target the same path".
AddRefuses ==
    /\ main \in {"adopting", "serial"} /\ adopted < size /\ Clashes
    /\ main' = "undoing"
    /\ UNCHANGED <<disk, request, route, workers, lists, hit>>

SerialFails ==
    /\ Injected("error")
    /\ main = "serial" /\ adopted < size
    /\ main' = "undoing"
    /\ \/ UNCHANGED <<disk, outer>>
       \/ \E f \in needs[adopted + 1] \ outer :
             /\ route = "direct"
             /\ outer' = outer \cup {f}
             /\ disk' = [disk EXCEPT ![f] = "new"]
    /\ UNCHANGED <<request, route, workers, undone, aside>>

\* finish_successfully of the batch transaction, or the end of staging.
AllTaken ==
    /\ main \in {"adopting", "serial"} /\ adopted = size
    /\ main' = IF route = "direct" THEN "finalizing" ELSE "committing"
    /\ UNCHANGED <<disk, request, route, workers, lists, hit>>

\* What the target holds when every wheel is installed.
Installed ==
    [f \in Files |-> IF f \in Wanted THEN "new"
                     ELSE IF f \in owned THEN "absent" ELSE origin[f]]

------------------------------------------------------------------------------------
(* The commit of the staged route.                                                  *)

\* validate accepts a file of others that equals the one that replaces it.
Unrelated(f) == disk[f] = "old" /\ f \notin owned

\* Mutant of Validate: an unrelated file is taken for one of the batch's own.
ValidateAnything ==
    /\ main = "committing"
    /\ main' = "replacing"
    /\ UNCHANGED <<disk, request, route, workers, lists, hit>>

Validate ==
    /\ main = "committing"
    /\ \A f \in Wanted : ~Unrelated(f)
    /\ main' = "replacing"
    /\ UNCHANGED <<disk, request, route, workers, lists, hit>>

ValidateRefuses ==
    /\ main = "committing"
    /\ \E f \in Wanted : Unrelated(f)
    /\ main' = "handling"
    /\ UNCHANGED <<disk, request, route, workers, lists, hit>>

\* One file at a time is moved aside and replaced; the deletions come last.
Between == (aside \cap Wanted) \ outer
Movable(f) ==
    /\ main = "replacing" /\ disk[f] # "absent" /\ Between = {}
    /\ f \in Wanted \ outer \/ (Wanted \subseteq outer /\ f \in owned \ Wanted)
Placeable(f) ==
    /\ main = "replacing" /\ disk[f] = "absent" /\ Between \subseteq {f}
    /\ f \in Wanted \ outer
Done == main = "replacing" /\ Wanted \subseteq outer /\ owned \ Wanted \subseteq aside

\* backup_if_needed: the move, then the entry in backups.
MoveAside(f) ==
    /\ Movable(f)
    /\ aside' = aside \cup {f}
    /\ disk' = [disk EXCEPT ![f] = "absent"]
    /\ UNCHANGED <<request, route, main, workers, outer, undone, hit>>

\* The file, then its entry in created_internal, or the other way round.
Place(f) ==
    /\ Placeable(f)
    /\ outer' = outer \cup {f}
    /\ disk' = [disk EXCEPT ![f] = "new"]
    /\ UNCHANGED <<request, route, main, workers, undone, aside, hit>>

\* finish_successfully.
EndCommit ==
    /\ Done
    /\ main' = "finalizing"
    /\ UNCHANGED <<disk, request, route, workers, lists, hit>>

\* A call raises; a file that is listed may be half written, which is "new" here too.
CommitFails ==
    /\ Injected("error")
    /\ main \in {"committing", "replacing"}
    /\ main' = "handling"
    /\ UNCHANGED <<disk, request, route, workers, lists>>

\* clone_path, or a move to another file system: the part it made is on no list.
CopyFails ==
    /\ Injected("partial")
    /\ \E f \in Files : Placeable(f) /\ disk' = [disk EXCEPT ![f] = "new"]
    /\ main' = "handling"
    /\ UNCHANGED <<request, route, workers, lists>>

\* Moved and not listed, placed and not listed, or the slots are gone and the transaction
\* is not finished.
InterruptInGap ==
    /\ Injected("gap")
    /\ \/ \E f \in Files : Movable(f) /\ disk' = [disk EXCEPT ![f] = "absent"] /\ UNCHANGED aside
       \/ \E f \in Files : Placeable(f) /\ disk' = [disk EXCEPT ![f] = "new"] /\ UNCHANGED aside
       \/ Done /\ aside' = {} /\ UNCHANGED disk
    /\ main' = "leaving"
    /\ UNCHANGED <<request, route, workers, outer, undone>>

------------------------------------------------------------------------------------
(* The end of the call.                                                             *)

\* The batch transaction is finished, the workers' are finalized, nothing can fail.
Finalize ==
    /\ main = "finalizing"
    /\ main' = "returned"
    /\ UNCHANGED <<disk, request, route, workers, lists, hit>>

\* `except Exception`: every call that returned is rolled back, one file at a time.
UndoWorker(w, f) ==
    /\ main = "undoing" /\ worker[w] = "ok" /\ f \in recorded[w]
    /\ Records(w, recorded[w] \ {f})
    /\ disk' = [disk EXCEPT ![f] = "absent"]
    /\ UNCHANGED <<request, route, main, worker, adopted, lists, hit>>

\* Mutant of WorkersUndone: the handler leaves the workers that returned alone.
WorkersForgotten ==
    /\ main = "undoing"
    /\ main' = "handling"
    /\ UNCHANGED <<disk, request, route, workers, lists, hit>>

WorkersUndone ==
    /\ main = "undoing"
    /\ \A w \in Batch : worker[w] = "ok" => recorded[w] = {}
    /\ main' = "handling"
    /\ UNCHANGED <<disk, request, route, workers, lists, hit>>

UndoWorkerFails ==
    /\ Injected("rollback")
    /\ main = "undoing"
    /\ \E w \in Batch : worker[w] = "ok" /\ recorded[w] # {}
    /\ main' = "leaving"
    /\ UNCHANGED <<disk, request, route, workers, lists>>

\* rollback of the batch transaction, in the handler of its caller or of commit
\* ("handling"), or in __exit__ ("leaving"): the created list, then the backups.
UndoOuter(f) ==
    /\ RollingBack /\ f \in outer \ undone
    /\ undone' = undone \cup {f}
    /\ disk' = [disk EXCEPT ![f] = "absent"]
    /\ UNCHANGED <<request, route, main, workers, outer, aside, hit>>

Restore(f) ==
    /\ RollingBack /\ undone = outer /\ f \in aside
    /\ aside' = aside \ {f}
    /\ disk' = [disk EXCEPT ![f] = origin[f]]
    /\ UNCHANGED <<request, route, main, workers, outer, undone, hit>>

Leave ==
    /\ RollingBack /\ undone = outer /\ aside = {}
    /\ main' = "raised"
    /\ UNCHANGED <<disk, request, route, workers, lists, hit>>

\* What breaks off the handler's run makes __exit__ run rollback again, from the start.
RollbackFails ==
    /\ Injected("rollback")
    /\ RollingBack /\ outer \cup aside # {}
    /\ main' = IF main = "handling" THEN "leaving" ELSE "raised"
    /\ undone' = IF main = "handling" THEN {} ELSE undone
    /\ UNCHANGED <<disk, request, route, workers, outer, aside>>

\* KeyboardInterrupt: no `except Exception` catches it. `with pool` waits for its
\* workers, unless the interrupt falls in that very wait; `with InstallTransaction`
\* rolls back what the batch transaction knows unless it is finished.
Interrupt ==
    /\ Injected("interrupt")
    /\ \/ main \in {"submitting", "awaiting"} /\ main' = "draining"
       \/ main = "awaiting" /\ (\E w \in Batch : worker[w] = "failed") /\ main' = "leaving"
       \/ /\ main \in {"draining", "serial", "adopting", "committing", "replacing", "undoing"}
          /\ main' = "leaving"
       \/ main \in {"start", "finalizing"} /\ main' = "raised"
    /\ UNCHANGED <<disk, request, route, workers, lists>>

Drained ==
    /\ main = "draining" /\ PoolIsIdle
    /\ main' = "leaving"
    /\ UNCHANGED <<disk, request, route, workers, lists, hit>>

------------------------------------------------------------------------------------
Work(w) ==
    \/ Begin(w) \/ WorkerEnds(w) \/ WorkerRaises(w)
    \/ \E f \in Files : WorkerWrites(w, f) \/ WorkerUndoes(w, f)

MainStep ==
    \/ ChooseDirect \/ ChooseStaged \/ PoolDrained \/ Adopt \/ SerialStage
    \/ AddRefuses \/ AllTaken \/ Validate \/ ValidateRefuses \/ EndCommit \/ Finalize
    \/ WorkersUndone \/ Leave \/ Drained
    \/ \E w \in Batch : Submit(w)
    \/ \E f \in Files : SerialWrite(f) \/ MoveAside(f) \/ Place(f) \/ UndoOuter(f) \/ Restore(f)
    \/ \E w \in Batch, f \in Files : UndoWorker(w, f)

Fault ==
    \/ SerialFails \/ UndoWorkerFails \/ Interrupt
    \/ CommitFails \/ CopyFails \/ InterruptInGap \/ RollbackFails
    \/ \E w \in Batch : WorkerFails(w) \/ WorkerUndoFails(w)

Terminated == main \in Ended /\ UNCHANGED vars

Next == (\E w \in Batch : Work(w)) \/ MainStep \/ Fault \/ Terminated

\* The main thread and the threads of the pool are scheduled.
Fairness == WF_vars(MainStep) /\ WF_vars(\E w \in Batch : Work(w))

Spec == Init /\ [][Next]_vars /\ Fairness

------------------------------------------------------------------------------------
(* Properties.                                                                      *)

\* The faults that the code undoes. Nothing undoes the files of the parallel direct route
\* after a KeyboardInterrupt, part of a copy that raised, or what a KeyboardInterrupt left
\* unlisted (README, Findings).
Undoable ==
    /\ hit \cap {"rollback", "partial", "gap"} = {}
    /\ "interrupt" \in hit => ~(route = "direct" /\ Parallel)

Promised == Undoable /\ Overlooked = {}

Result ==
    INSTANCE AtomicBatch WITH
        before <- origin,
        batch  <- Installed,
        target <- IF main \in Ended /\ Promised THEN disk ELSE
                  IF main = "returned" THEN Installed ELSE origin,
        answer <- IF main \in Ended THEN main ELSE "none"

\* install_wheels_transactionally, "with rollback across every wheel in the batch":
\* on every route, for every order in which the workers run and fail, wherever the commit
\* fails or is interrupted, the call ends with the whole batch or with the target as it
\* was, and no worker writes later.
BatchIsAtomic == Result!Spec

\* validate of the staged route, direct_batch_preflight of the direct one: a file of others
\* that differs from what the batch installs is never written, moved or removed, not even
\* for a moment and whatever goes wrong, unless the preflight does not look at it. (One
\* that equals what the batch installs may be moved aside and replaced.)
StrangersKept ==
    [][\A f \in Files : origin[f] = "old" /\ f \notin owned \cup Overlooked => disk'[f] = disk[f]]_vars

\* install_one and the handlers: when a call raises, in an install while others run and
\* after some have returned or in the commit, the batch leaves every file as it was, but
\* for those its preflight did not look at.
FailureLeavesNothing ==
    main = "raised" /\ hit \subseteq {"error"} => \A f \in Files \ Overlooked : disk[f] = origin[f]

\* The pool is bounded and the main thread waits for all of it: the call always ends.
CallEnds == <>(main \in Ended)

------------------------------------------------------------------------------------
(* What the code does not keep.                                                     *)

\* "A faster install route preserves batch atomicity or declines to one that does."
EveryRouteIsAtomic == main \in Ended /\ Overlooked = {} => disk \in {origin, Installed}
====================================================================================
