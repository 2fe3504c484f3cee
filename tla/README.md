# Formal model of cpip

cpip is a package installer for Python: it resolves requirements against package
indexes, downloads wheels, keeps several caches that processes share, and installs
batches of wheels into a target directory with rollback. This directory holds TLA+
modules translated from its source (`src/src/cpip`, vendored code other than the resolver's solver aside about 42,000 lines),
TLC configurations that check them on small instances, and TLAPS proofs.

`docs/architecture.md` below is `src/docs/architecture.md`; other paths are relative to
`src/src/cpip`.

## 1. The system

A command runs as follows. `cli` parses it and picks a fast path or the general one;
`resolution` turns requirements into a set of candidates, asking `index` for versions and
metadata, which `network` fetches and several caches remember; `install/output.py`
materializes the winners and prepares their archives in the wheel archive cache; and
`install/wheel_transaction.py` installs the batch by one of three routes. Processes run
side by side and share the cache directory and possibly a target; inside a process there
are thread pools for downloads, archive preparation, metadata and installs.

| Component | State it keeps | Operations | What is hard | What makes it correct |
| --- | --- | --- | --- | --- |
| Install transaction (`install/transaction.py`) | staged files, deletions, what validate saw, backups, created list, finished | add, add_contents, add_clone, delete, record_created, validate, commit, rollback, finalize, `__exit__` | a failure between any two system calls, aliases of one file, a rollback that fails | rollback restores the disk; nothing is lost before success; unrelated files are never touched |
| Batch installation (`install/wheel_transaction.py`, `wheel_transaction_direct.py`) | the batch transaction, one transaction per worker, futures | choose a route, submit, adopt, commit, undo | workers that fail while others run, Ctrl-C in the main thread, the order of adoption | all of the batch or none of it, on every route |
| Wheel archive cache (`install/wheel_archive_cache.py`) | entry directory, lock file, temporary directories | load, lock, extract, publish | several processes, killed holders, stale locks, readers without a lock | one extractor; readers see whole entries; nobody waits for ever |
| Archive-cache route (`install/wheel_archive_installer.py`) | stage, target, "previous" | clone, discover, fill, swap, recover | crashes and interrupts between two renames, overlapping installs | the target is never half built, and never lost |
| Member paths, scripts (`install/wheel_archive*.py`, `wheel_scripts.py`) | none | validate, relocate, generate | conflicts of a file with a directory | every member lands inside the target, once |
| Installed state (`install/wheel_state.py`, `uninstall.py`) | none | read RECORD, list removals | stale RECORD entries | a removal deletes what the distribution owns |
| Install plan cache (`install/wheel_install_plan_cache.py`) | receipts | save, load | a receipt older than the trees it names | a hit is what resolution would give |
| Materialization pipeline (`install/output.py`) | per-index results and errors | download, prepare | two pools, one fed by the other | results in request order, first error raised |
| Downloads (`network/download.py`) | output file, size, attempts | get, resume, restart, cache | dropped connections, changed files | an accepted file is whole |
| HTTP session (`network/http.py`) | requests in flight, cached metadata | request, coalesce, retry, revalidate, 401 retry | threads on one request, unbounded retries | each caller gets one answer to its request |
| HTTP cache (`network/cache.py`) | metadata file and body file per entry | get, set | the pair is not atomic | both are of one response |
| Lazy wheels (`network/lazy_wheel.py`) | intervals fetched, local file | read, fetch, merge | bookkeeping ahead of the data | a byte read was fetched |
| Index catalog cache (`index/catalog_cache.py`, `page_parsing.py`) | per page: catalog of links, summary with choices | load, compile, embed choices, save | four files of one answer written one by one, beside other processes | what is derived from a page is never ahead of it and does not stay behind it |
| Artifact store (`index/artifact_cache.py`, `artifacts.py`) | receipts, bodies by digest | get, store, materialize | several processes, partial targets, hard links | a body is whole and matches its digest; a hash that is reported is the file's |
| Candidate stream, prefetch (`index/candidate_stream.py`, `prefetch.py`) | buffer, futures | iterate, submit, take, close | interleaved iterators, threads | every reader sees every item; a task runs once |
| Metadata caches (`index/*_cache.py`) | rows, pending entries | get, put, flush | put during flush, one connection for several threads | no entry lost, none stale |
| Resolution (`resolution/`, `_vendor/nab_resolver/`) | requirements seen, extras; clauses, trail, ranges, queue, counters | choose_version, get_dependencies, propagate, resolve a conflict, jump, restart, decide, walk the result | long sequences of conflicts; cached ranges and keys; fallbacks outside the range asked for | the result satisfies every requirement; a failure means that nothing does; it ends |
| Builds, VCS, configuration, CLI | little | drive other programs, parse | sequential | - |

`PROJECT.json` lists every component with its status, and under `hazards` each thing
that is hard to test, with the line where it bites.

## 2. Modules

| Module | What it is | Code |
| --- | --- | --- |
| `InstallTransaction` | one transaction, one system call or list append per step | `install/transaction.py` |
| `MCInstallTransaction` | its instance | |
| `InstallTransactionProofs` | type correctness, completeness of rollback, exactness of commit, and that nothing is lost or strays, proved | |
| `AtomicBatch` | what a batch promises: all or nothing | `docs/architecture.md:94-98,236`, `install_wheels_transactionally` |
| `BatchInstall` | the direct and staged routes with their thread pool; implements `AtomicBatch` | `install/wheel_transaction.py`, `wheel_transaction_direct.py` |
| `MCBatchInstall` | its instance | |
| `BatchInstallProofs` | the refinement of `AtomicBatch` and the safety of the target, proved | |
| `ArchiveCache` | one entry, the processes that prepare it and copy from it | `install/wheel_archive_cache.py`, the cloning in `wheel_archive_installer.py` |
| `MCArchiveCache` | its instance | |
| `ArchiveCacheProofs` | exclusion, permanence, whole reads and a whole end, proved | |
| `TargetSwap` | two or more processes that replace one target directory | `install/wheel_archive_installer.py` |
| `MCTargetSwap` | its instance | |
| `TargetSwapProofs` | what the target holds after any calls, that it is never lost or half built, proved | |
| `Releases` | packages, releases and what they require; the reference definition of a solution | `resolution/models.py`, Requires-Dist as `nab_provider.py` reads it |
| `NabProvider` | what the solver is told: candidates, replacements of unusable releases, dependencies, extras | `resolution/nab_provider.py`, `nab_types.py` |
| `NabSolver` | the solver: propagation, conflicts, learned clauses, jumps, restarts, decisions, the walk of the result | `_vendor/nab_resolver/`, `resolution/api.py` |
| `MCNabSolver`, `MCExtras` | its instances | |
| `NabSolverProofs` | that a failure is a proof, yanked releases come last, keys are fresh | |
| `NabSearchProofs` | type correctness, the trail and its caches, conflict resolution, and that the answer is sound, proved | |
| `HttpSession` | GET of one page by the threads of several processes | `network/http.py`, `cache.py` |
| `IndexCatalog` | looking a project up: the page, its catalog and summary; extends `HttpSession` | `index/catalog_cache.py`, `page_parsing.py` |
| `MCIndexCatalog` | its instance | |
| `IndexCatalogProofs` | type correctness, sharing of requests, and what is derived from a page against the page, proved | |
| `ArtifactStore` | files of URLs brought to disks through one store | `index/artifact_cache.py`, `artifacts.py` |
| `MCArtifactStore` | its instance | |
| `ArtifactStoreProofs` | whole bodies and true hashes, proved | |

How they fit together: `install_wheels_transactionally` tries the archive-cache route first
(`TargetSwap`, which reads entries of `ArchiveCache`); when that declines it takes one of the
routes of `BatchInstall`, where a commit and its rollback go file by file; `InstallTransaction` has the
same commit call by call, with links and aliased paths, and the `record_created` and `rollback` that
the workers' transactions use.
`TargetSwap` in turn has this route as the single step `Fallback`. Before that, `NabSolver` picks
the releases with `NabProvider` as its provider, over catalogs that `IndexCatalog` keeps and
`HttpSession` fetches, and `ArtifactStore` brings the wheels of the winners to the disk, where
`ArchiveCache` extracts them. Each of these hands a finished value to the next, so they are
checked apart, except `HttpSession` and `IndexCatalog`, whose caches and threads are the same.

### InstallTransaction

A path is a text, and `Real` maps a text to the file it reaches, because `transaction.py`
compares texts while the disk knows files. `disk` gives the content of every file, as far as
the properties tell contents apart: absent, old, new, a torn prefix, or a symbolic link.
`backups`, `created`, `presence`, `staged`, `deletions` and `finished` are the fields of the same
names. `moved` is the content that `shutil.move` put into a slot before
`self.backups.append` (lines 337 and 338): between the two only the disk knows of it. `guarded`
says whether the caller uses `with`, as `wheel_transaction.py` does and `uninstall.py` does not.

| Action | Code |
| --- | --- |
| `Add`, `Delete`, `RecordCreated`, `StagingFails`, `FinishDirect`, `StartCommit` | the callers' side: lines 90-163 and the two install routes |
| `Validate`, `ValidateRefuses` | `validate`, 169-231 |
| `BackUp`, `AppendBackup`, `Place`, `PlaceClashes`, `RecordPlaced`, `RecordContents`, `Write`, `Chmod`, `BackUpDeletion`, `EndCommit` | the loop of `commit`, 251-298 and `backup_if_needed` |
| `RemoveCreated`, `CreatedRemoved`, `Restore`, `BackupsRestored` | `rollback`, 303-321 |
| `DropSlots`, `MarkFinished`, `Finalize`, `RollBackRetained` | `finish_successfully`, `finalize` |
| `CallFails`, `CopyFails`, `Interrupt`, `InterruptInGap`, `RollbackFails`, `LstatFails` | the exceptions that can arise there; `FaultKinds` chooses among them |

Left out: directories (`makedirs`, `remove_empty_parents`, rmtree of a created directory
change no file that the properties speak of), file modes, the comparison of contents by which
validate accepts an equal file (in the model such a file is "new" from the start).

### AtomicBatch and BatchInstall

`AtomicBatch` is four variables and two actions: a call ends with the whole batch, or with what
was there. `BatchInstall` has a program counter for the main thread and one state per wheel's
worker. A worker of the direct route writes its files one by one into the target (`recorded` is
its created list); a worker of the staged route changes nothing. `outer` is the created list of
the batch's own transaction, `aside` the files that are in slots of its backups. The pool starts at
most `PoolSize` calls, in order; leaving it waits for all (`PoolDrained`). The refinement mapping
shows the abstract specification the disk when the call is over and what was there until then.

| Action | Code |
| --- | --- |
| `ChooseDirect`, `ChooseStaged`, `Submit`, `Begin`, `WorkerWrites`, `WorkerEnds`, `PoolDrained`, `Adopt`, `SerialStage`, `SerialWrite`, `AddRefuses`, `AllTaken` | the two routes up to the end of staging |
| `Validate`, `ValidateRefuses`, `MoveAside`, `Place`, `EndCommit`, `Finalize` | `commit` of the staged route: a file is moved aside and replaced before the next one is touched, and deletions come last |
| `WorkerUndoes`, `WorkerRaises`, `UndoWorker`, `WorkersUndone` | the handlers of a worker and of the direct route |
| `UndoOuter`, `Restore`, `Leave` | `rollback` of the batch transaction, in a handler (`handling`) or in `__exit__` (`leaving`) |
| `WorkerFails`, `SerialFails`, `CommitFails`, `CopyFails`, `InterruptInGap`, `Interrupt`, `WorkerUndoFails`, `UndoWorkerFails`, `RollbackFails` | the faults: a call that raises, a copy that raises half way, Ctrl-C between a change and its record, Ctrl-C elsewhere, a rollback broken off (in the handler: `__exit__` runs it again from the start) |

`Validate` accepts a file of others that equals the one to be installed, and the commit moves such a
file aside and replaces it like its own: `StrangersKept` is about files of others that differ.
`ChooseStaged` has no guard: the preflight also declines for reasons the model does not have.
`Overlooked` are the generated files of others (INSTALLER, REQUESTED) that the direct route writes
over because its preflight does not look at them; see Findings.

### ArchiveCache

A directory has an identity: `content` says which items it holds, `entry` which directory is at
the entry's path, so that a rename moves a directory with everything in it and rmtree, which
works on descriptors on Linux and macOS, empties the directory it opened even when another one
has taken the path since. `Prepare` is `prepare_cached_wheel` with `_entry_lock`, `ExtractStep`
is `_extract_archive`, `Copy` is the clone of the tree by the installer, without the lock.
`stale` is the age of the lock file (300 s), `TimeOut` the wait of 30 s. `stolen` is a history
variable: a live process lost its lock file to another one.

### TargetSwap

A target is a directory with a version of every distribution. A call clones it, removes the
version it discovered, fills in the new one, and swaps: `SwapOut` is the first rename, `SwapIn`
the second, `PutBack` the recovery, `RestoreFails` the recovery that raises itself (after which the
`finally` removes what it was to bring back), `Drop` and `CleanUp` the removals. `previous` is the
directory kept in the staging parent. `begun` and `overlapped` are history: the order of the
calls and whether two were at work at once. A forced reinstall is covered since `Discover` has
no guard; `preserve_existing` is left out.

### Releases, NabProvider and NabSolver

A package is a number, in the order of the names, and so is a version. A `World` says, for every
package and release, the `Requires-Dist` lines, whether the release is good, yanked, asks for
another Python, has metadata that cannot be read or that name another project, or is absent, and
what the user asks for (`root`, `asked`) and constrains (`limit`). `Solutions(w)` is the reference
definition that the results are compared with; it knows nothing of clauses.

The state of `NabSolver` is that of the solver and the provider: `clauses` (terms, cause and the
order in which they are merged and scanned), `trail` with levels and causes, the ranges and
decisions per package that `partial_solution.py` caches, the `queue` of propagation, the counters
that lead to a restart or a targeted jump, `wants` and `extras` of the provider. A candidate record
has the `Requires-Dist` lines of the extras it was found with. `first` is the package's first entry in
`records`, which is found anew when the package's extra comes on (`reread`); `read` is the
dependency cache: whether a release's lines were read with those of the extra. `ByName` says when
choose_version finds a record by the package's name alone, so without them, and the forward check of
pins always does (`Seen`).

| Action | Code |
| --- | --- |
| `Propagate` with `NextPackage`, `FindConflict`, `Derive` | `propagate.py`: one clause looked at per step |
| `Explain` with `Resolve`, `Jump`, `Backjump`, `GiveUp` | `conflict.py`: a resolution step, or the jump with the learned clause, the culprit counts, a targeted jump or a restart |
| `Choose` with `Decide`, `RecordNoVersions` | `decide.py`, `NabProvider.choose_version` and `get_dependencies` |
| `Stop` | the clause that says there is no solution, or the spent budget of resolution steps |
| `AllDecided`, `Visit`, `Answer` | `result.py`, the walk that asks for the dependencies again |

Left out: installed distributions, URL requirements, pre-releases and `allow_yanked` (releases of an
index only); a second extra per package; the limit of 200,000 iterations; the hooks of the solver
that `cpip` leaves empty; error reports. Versions run from 0 to N + 1 so that a specifier may name
a version no release has; a specifier of a single version is a pin. That a term of a conflict has a
satisfier on the trail is checked as absence of deadlock: without one `Explain` could not go on.
An earlier form of this module, in which every record has all its lines (no `first`, `reread` and
`read`), was translated into Python and run beside the code on the 5,376 worlds of the first six
families of the instance: the ends, results, restarts and targeted jumps agreed on all of them. That
a yanked release loses the lines of the extra asked for was seen on the code with an index of
two packages.

### HttpSession and IndexCatalog

One page and everything kept of it. `entry` and `body` are the two files of the page in the HTTP
cache, `catalog` and `summary` the two files derived from it, each a version of the page.
`inflight_requests` is per process; `pc` is where a thread is inside `request`, `stage` where it is
in the lookup around it. The server may publish the next version at any time (`Publish`), answer
late, with another lifetime, with an error that is tried again or one that is not, or with 304.
`Tick` lets lifetimes pass; `KillProcess` may strike between any two steps, `InterruptedWait` is
Ctrl-C in a thread that waits.

The page is not streamed and no ranges are asked for; authentication, redirects, cache writes that
fail, the hand-over of a catalog inside a process and its choices file are left out. The metadata
file is read again right after the freshness test, in one step with it. A server may answer 304
here, although no standard server does for the headers the code sends (section 5).
`clash` is history: two threads had different versions of the page in hand at once. `InHand(t)` is the
version a thread may yet write of: that of the catalog it has taken, of its answer, or of the metadata that
was confirmed; 0 when it has none or was killed.

### ArtifactStore

`body[d]` is the file at the path of digest d, `receipt[u]` the digest the store holds for URL u,
`target[p][u]` the file that process p asked for. Two paths may be one file after a hard link:
`linked` names the body a target shares, and `Overwrite` writes both. A body is whole, torn, or
absent. A call (`Begin`) looks the URL up (`Get`), streams the answer into the store (`Stream`,
`Keep`, `ReplaceBody`, `StatBody`, `PublishReceipt`), links the body to its target (`Link`) or, when
anything in the store fails, downloads again into the target (`Truncate`, `WriteTarget`).
Connections break (`StoreFails`, `WriteFails`), a file system refuses links (`LinkFails`), processes
are killed (`Kill`) and `cpip cache` removes files (`PurgeBody`, `PurgeReceipt`) between any two steps.
What a URL serves does not change, and the hash an index gives may be wrong. `Superuser` says
whether writing a file of mode 0444 works.

Each call is made by a locator that has not met the URL: its memo is left out, as are the branch
through the HTTP cache, version control and local paths. Files that share an inode only with
each other, after the body was replaced or purged, are treated as separate.

## 3. Runs

| Run | Instance | Distinct states | Shows |
| --- | --- | --- | --- |
| `transaction` | 2 files, 3 texts (two are one file), plans of up to 2 entries, every initial disk, every fault | 4.6 million | `RollbackRestores`, `NothingLost`, `CommitApplies`, `UnrelatedKept` |
| `batch` | batches of 1 to 3 wheels, 2 ordinary files and a generated one, pool of 2, every fault | 403,858 | `BatchIsAtomic` (refinement), `FailureLeavesNothing`, `StrangersKept`, `CallEnds` (liveness) |
| `archive_cache` | 3 processes, a wheel of one member, every initial entry, crashes, slow holders | 395,184 | `OneExtractor`, `InstalledWhole`, `PublishedForGood` while no lock is stolen; `EndsMissOrWhole`, `EveryCallEnds` always |
| `target_swap` | 2 processes, 2 distributions, 2 versions, every fault | 509,908 | `CallsAreExact`, `TargetKept`, `NeverHalfBuilt`, `TargetComesBack` (liveness) |
| `resolver` | 3 packages, up to 3 versions, 5,862 worlds | 229,509 | `Sound`, `Complete`, `PrefersNewest`, `YankedLastResort`, `EndsWell` of the results; `ConflictIsSatisfied`, `DecisionsAgree`, `AsIfReplayed`, `KeysAreFresh`, `LearnsSomethingNew` of the way there; `Terminates` (liveness) |
| `index_catalog` | 2 threads of one process or of two, 2 versions, 2 attempts | 519,710 | `OneRequest`, `DerivedNeverAhead`, `RestingAgree`, `EveryLookupEnds` (liveness) |
| `artifact_store` | 2 processes with 2 calls and 1, 2 URLs, 2 contents | 569,366 | `BodiesAreWhole`, `ReturnsWhatItSays` |
| `transaction_rollback_again`, `batch_interrupted`, `archive_cache_stolen_lock`, `target_swap_interrupted`, `resolver_extras` | the same (`MCExtras`: 12 worlds of 4 packages) | to a violation | what the code does not keep: section 5 |

Every property of a passing run has a mutant in `PROJECT.json`: a variant of one action, in
the same module and marked "Mutant of", that a plausible mistake in the code would give and
under which TLC finds the property violated.

**Bounds, and why they are enough.**
*Transaction*: two texts of one file and one of another give every aliasing of two entries;
two entries give a first and a second backup of one file, a deletion with an installation, and a
rollback that is interrupted between two restores. Longer plans and more files are covered by the proof of
`RollbackRestores`. *Batch*: the code runs in parallel from 4 to 64 wheels on 4 threads; the
instance from 2 to 3 on 2, which keeps the three cases (a queue longer than the pool, a pool
that is not full, a batch that is not parallel), and two files per commit, so that one is done when
the other fails. *Archive cache*: a stolen lock needs three
processes: the holder that is killed and two waiters. One member tells a whole copy from a
partial one; the proofs hold for any number of both. *Target*: lost updates and both failing
renames need two processes; requests equal up to a renaming are left out.
*Resolver*: three packages are the fewest in which a conflict has a culprit that is neither the
last decision nor the root; the worlds are seven families (mutual requirements,
pins that disagree, circles, the forward check of pins, unusable releases, extras, extras asked of packages
with yanked releases), some with constraints; the code's thresholds (5 conflicts for a restart, 5 for a targeted jump) are lowered
so that restarts and targeted jumps happen (in 1,827 and 187 of them). 1,308 of the
resolutions fail and 43 raise. *Index*: two threads are what it
takes to share a request, two processes to overwrite a cache; two versions and one tick make a page
stale and changed. With two lookups per thread TLC went through 3.4 million states, too many to repeat each time, and
the safety properties hold. *Artifacts*: one call that fails over a link made by another
and one that reads what is left; with two calls each, 12.2 million states, the same holds.

**Fairness.** `BatchInstall`: the main thread and the pool's threads are scheduled by the
operating system (WF of `MainStep` and of the workers' steps; faults are never fair).
`ArchiveCache`: each process that is not killed goes on (WF of `Step(p)`), and a lock file nobody
removes grows older than 300 s (WF of `GrowStale`). The sleep of 0.05 s is a loop through
`StatLock`; a process leaves it because the holder releases, or dies and its lock grows stale.
`TargetSwap`: a process that is not killed goes on. `NabSolver`: the resolver goes on until it has ended. `IndexCatalog`:
a thread that has something to do and does not wait for another one goes on (`Busy`); requests
end because every one has a timeout, and Ctrl-C is outside the fair step. In these two, WF is
written out with its ENABLED condition, which TLC then need not compute. `InstallTransaction` and
`ArtifactStore` have no liveness property.

## 4. Proofs

`InstallTransactionProofs`
- `Typing`: `Spec => []TypeOK`.
- `RollbackIsComplete`: `Spec => []RollbackRestores`. If the faults were failing calls (and, for a
  caller with `with`, interrupts where lists and disk agree) and no dangling link was in the way,
  then a transaction that is over and has raised leaves the disk as it was. `RollbackRestores`
  speaks of the end only. The inductive invariant `Recoverable`, in the module itself, says why
  it holds: the *first* backup of a file holds what the file held at first
  (`FirstSlotsHoldOrigin`), a file without a backup is untouched or was absent and is on the
  created list (`ForwardInv`), removing the created files keeps that (`RemovingInv`), and
  restoring backwards leaves every file whose backups are all restored as it began
  (`RestoringInv`). The last restore of a file is its first backup, which is why the
  order matters. `PresenceInv` carries what validate read into the commit.
- `UnrelatedUntouched`: `Spec => UnrelatedKept`, under every fault, a rollback that fails and runs
  again included. `BystanderInv`: once validate has passed, no staged path, no listed path and no
  path a step works on reaches a file that is not owned and not to be deleted; before that, only
  paths that are absent are listed.
- `CommitIsExact`: `Spec => []CommitApplies`. `DirectInv` and `AppliedInv`: at every point of commit, a file
  that an entry behind the cursor reaches is new, one that a handled deletion reaches is absent,
  and every other one is as it was, except the one being worked on.
- `NothingIsLost`: `Spec => []NothingLost`, with copies that fail half way, for which `RollbackRestores` does
  not hold. While rollback runs, the slots it has not reached still hold what the first backups took,
  and a file without one there is as it was, or was absent (`KeepingInv`).

`BatchInstallProofs`
- `Typing`: `Spec => []TypeOK`, which says among others that no more installs are at work than the
  pool has threads.
- `BatchImplementsAtomic`: `Spec => BatchIsAtomic`: `BatchInstall` implements `AtomicBatch`. `Promised`, in the
  refinement mapping, names what is set aside: the faults that nothing undoes (section 5) and
  targets in which the direct route overlooks a generated file.
- `NothingIsLeft`: `Spec => []FailureLeavesNothing`.
- `StrangersAreSafe`: `Spec => StrangersKept`, under every fault, the gaps, half-made copies and broken-off
  rollbacks included.
  The invariant `BatchInv` says that as long as everything is undone the disk is what the lists say
  (`DiskInv`: a file on a created list that is not undone is new, one that is only in a slot is absent, every
  other one is as it was), at every step of a commit and of a rollback of either kind; how much each worker's
  list holds by how far it has come (`WorkerInv`), which lists are empty when (`ListsInv`); that the direct route was
  chosen when the target had none of the batch's files (`DirectPlan`) and the staged one replaces no
  file of others that differs (`StrangersInv`); and that once the main thread has left the pool no worker is at
  work, and what the handler leaves is undone (`SettledInv`).

`ArchiveCacheProofs`
- `Typing`: `Spec => []TypeOK`.
- `LockExcludes`: `Spec => []OneExtractor`. `LockInv`: a process inside the scope with its
  own lock file is its owner unless a lock was stolen; `HolderInv`: an extracting process has
  one.
- `EntriesStay`: `Spec => PublishedForGood`. `PrivateInv`: nobody else reaches the temporary
  directory of an extractor; `EntryInv`: what is being removed does not load.
- `ReadersSeeAll`: `Spec => []InstalledWhole`, with `BuiltInv` and `WholeInv` (an entry that loads
  has every member) and `CopyInv` (what a reader has copied and what is left make up the wheel).
- `EndsWhole`: `Spec => []EndsMissOrWhole`. `RemovalInv` holds while locks are stolen too: a
  directory that lost a member has a removal at work on it, or one that was killed.

`TargetSwapProofs`
- `Typing`: `Spec => []TypeOK`.
- `PathIsComplete`: `Spec => []NeverHalfBuilt`. `PlacesInv`: a directory is at one place, and one
  that is at the target's path or kept aside is past its fill and has its call's wheel (`Complete`).
- `TargetIsKept`: `Spec => []TargetKept`. `KeptInv` goes through a call: the old target is at its
  path, or moved away and known to the call that will put it back. A rename back that raises, and Ctrl-C that
  keeps it from being reached, are set aside (`Unrecovered`): the target is lost then (section 5).
- `ExactCalls`: `Spec => []CallsAreExact`. `ExactInv`: while no two calls overlapped, the target (or,
  between the renames, the directory kept aside) holds exactly what the calls that returned left,
  and the stage of the call at work mirrors it.

`NabSolverProofs`
- `FailureIsProof`: `Spec => []Complete`, the completeness of the resolver: when it fails, no
  selection of usable releases satisfies what was asked. The invariant `SearchInv` says that every
  solution of the world satisfies every clause, learned ones and those merged in place included,
  and that what `Explain` resolves is a consequence of them (`FailsRightly`). It needs no property of the
  order of decisions, of restarts or of jumps, which is why it holds for all of them.
- `YankedIsLast`: `Spec => YankedLastResort`.
- `KeysAreNotStale`: `Spec => []KeysAreFresh`.
  `Complete` sets two cases aside that section 5 names: releases that ask for extras, and pins of
  packages with unusable releases.

`NabSearchProofs` extends `NabSolverProofs`. Its theorems share two invariants of the trail:
`Types`, which adds the shape of clauses (`Shape`: a clause lists the packages it has terms for) to the types, and
`WellTrailed`: every entry fits what comes before it (`TrailFits`: levels do not fall, a decision opens one
and was left by the ranges before, a derivation follows from a clause whose other terms were satisfied
before), and what is cached of a package is its last entry's (`Cached`). `NoneEmpty` says
that a package left without a version is of the level on top, with a violated clause still to come.
- `SearchIsTyped`: `Spec => []TypeOK`.
- `CacheIsReplayed`: `Spec => []AsIfReplayed`, from `TrailFits`: a prefix of a trail fits, so that jumps
  and restarts, which cut the trail, keep it.
- `ConflictHasSatisfiers`: `Spec => []ConflictIsSatisfied`. `StepsLast`: the terms of the conflict are satisfied
  within the first `steps` entries. The satisfier is the last of them, its cause was satisfied before it, and so is
  the clause they resolve to (`ResolvedIsEarlier`), which also covers a satisfier that only completes what
  earlier entries satisfy in part. The invariant bounds the number of steps as well: the budget
  is never spent.
- `SearchEndsWell`: `Spec => []EndsWell`, from `StepsLast`, from `JumpFacts` (a jump goes to a level
  of at least 1), from `Walked` below, and from what `choose_version` raises for (`RaisingIsUnreadable`).
- `AnswerIsSound`: `Spec => []Sound`. `Heeded`: every release on the trail was on offer, and for each requirement it
  has there is a clause that says so, merged or not, and either the trail meets the requirement at
  the level of the decision or propagation has not come to that clause yet (`Pends`). A jump goes to
  whole levels, so it takes back what meets a requirement only together with the decision that has it. When nothing is undecided nothing
  pends, and what is required is decided within its range. `Walked`: the second walk of the dependencies goes from the
  roots on to what they require, and only to decided packages. What a decided release requires is read off
  its record under the same extras in the search and in the walk (`Held`, `ReadStays`), and `RootsStand` says that
  no release a root names was found by name alone, without the lines of the extra the user asks for, where only
  pinned releases of such packages are yanked. It rests on extras staying those of the user,
  which is why `Sound` sets releases that ask for extras aside.
- `NewestIsSelected`: `Spec => []PrefersNewest`. `TracksNewest`: where the newest releases are a solution, the search
  never leaves it: the clauses admit it, so that derivations agree with it and no conflict arises, and the
  forward check of pins passes the release (`SolvedPinsArePossible`).
- `DecisionsStandTogether`: `Spec => []DecisionsAgree`. `Agree`: a clause that decisions violate is about the package
  decided last, which is the one being propagated, and its turn is still to come. A jump takes that
  decision back, and the last satisfier of the clause it learns.

`IndexCatalogProofs`
- `Typing`: `Spec => []TypeOK`.
- `RequestsAreShared`: `Spec => []OneRequest`: who waits, waits for a thread of its process that is at
  work and will set the event.
- `NothingRunsAhead`: `Spec => []DerivedNeverAhead`, and `HalvesMeet`: `Spec => []RestingAgree`. The invariant `LookupInv` is
  `Typed /\ Bounded /\ Shaped /\ (~clash => Apart)`: no file is newer than the page (`Bounded`); what a thread has in
  hand fits where it is in the lookup (`Shaped`); and until versions clash (`Apart`) the threads that have
  something in hand have the same version, no derived file is ahead of what it is derived from (`NeverAhead`), a
  thread's version is current against the files it will write (`AllCurrent`), and files that differ
  have a thread at work that will bring them together, unless one was killed (`Mending`).

`ArtifactStoreProofs`
- `StoreStaysWhole`: under `~Superuser`, `Spec => []BodiesAreWhole`. A body gets to its path by a rename of
  a file whose digest was taken, and a target that shares it cannot be written.
- `HashesAreTrue`: under `~Superuser`, `Spec => []ReturnsWhatItSays`.

Assumptions are those the modules declare on their constants, for example that `Real` maps
texts to files, that `FaultKinds` names known faults, that `NoDir`, `NoProc` and `Nobody` are not members of
the sets they stand beside, that `Worlds` is a set of worlds, and `Superuser` where a
theorem names it. Nothing is assumed finite: the number of
files, texts, wheels, processes, members, packages, versions and the length of a plan are arbitrary.

Only model-checked: `CallEnds`, `EveryCallEnds`, `TargetComesBack`, `Terminates` and
`EveryLookupEnds`, which are liveness under fairness, and `LearnsSomethingNew`. That a learned clause is new would
follow if propagation left no clause unit at a decision; the code does not give that. It queues a
package only when its range changes (`propagate.py:132`), but a package's first positive term counts even when it
leaves the range as it was (`partial_solution.py`), so that a clause about packages that are not decided yet
may be passed over. `DecisionsAgree` is what does hold of every state, and is proved.

## 5. Findings

With a run that shows the behaviour:
1. **A rollback that is run twice deletes what it restored** (`transaction.py:303-321`,
   run `transaction_rollback_again`). When a call of `rollback` raises inside commit's handler,
   `__exit__` runs it again from the start; the created list still names files whose originals
   are back in place, and they are unlinked.
2. **Ctrl-C in the parallel direct route leaves the workers' files**
   (`wheel_transaction_direct.py:158`, run `batch_interrupted`), against
   `docs/architecture.md:236`.
3. **A stale lock may be unlinked after it was replaced** (`wheel_archive_cache.py:215-225`, run
   `archive_cache_stolen_lock`): two extractors, and a reader that clones a part of a tree, against
   `docs/architecture.md:181-182`.
4. **Ctrl-C between the first rename and the `try` destroys the target**
   (`wheel_archive_installer.py:805`, run `target_swap_interrupted`), against
   `docs/architecture.md:94-95`.

5. **A package may be left without a decision** (`nab_provider.py:931`, run `resolver_extras`): an
   extra that a later release asks for is merged into a package that was decided without it; the
   walk of the result meets what the extra requires and raises `Bug: reachable package ...`.

Found while translating, without a run of their own:

6. rollback does not see a dangling link in its slot (`transaction.py:316`); the properties carry
   `NoLinks`.
7. validate compares deletions with destinations as texts (`transaction.py:227`); `CommitApplies`
   carries `PlanApart`.
8. The preflight of the direct route does not look at generated files
   (`wheel_transaction_direct.py:61`); `Overlooked` in the properties of `BatchInstall`.
9. `uninstall_distribution` does not use `with`, so Ctrl-C is not undone (`uninstall.py:173`).
10. Extras are never taken back, neither those merged between roots nor those of releases that are
    abandoned (`nab_provider.py:1093`, `931`).
11. Of two lines of one release about one package the last one wins (`nab_provider.py:970`);
    `Sound` carries `IsPlain`.
12. A replacement for inconsistent metadata may be a release already rejected, and reading its
    version may raise (`nab_provider.py:766`); `EndsWell` names the case.
13. A pin seen first is kept when its release is abandoned (`nab_provider.py:919`); `Complete`
    carries `PinsAreClean`.
14. A page without max-age and Expires, or with `no-cache`, is fresh for ever (`http.py:756`);
    lifetime `Never`.
15. Revalidation sends response header names, so no server answers 304 (`http.py:410`).
16. The 401 retry is bounded by the interpreter's recursion limit only (`http.py:484`).
17. A process killed between page and catalog leaves a fresh page with old links
    (`page_parsing.py:54`); `RestingAgree` is about runs that nobody killed.
18. Links of a `no-store` page are saved (`page_parsing.py:62`).
19. Choices are embedded over the summary of a newer catalog (`catalog_cache.py:292`); `clash`.
20. As root, a download after a failed store writes through a hard link into the store
    (`artifacts.py:284`); constant `Superuser`, with TRUE TLC finds `BodiesAreWhole` violated.
21. Connection errors are taken for failures of the store, and the second download is not checked
    against the hashes (`artifacts.py:273`); `ReturnsWhatItSays` is about files that came from the store.
22. A restarted download of unknown size is accepted when it is cut short (`download.py:330`;
    only the tests reach this code at this commit).
23. Interleaved iterators of one `CandidateStream` miss items (`candidate_stream.py:43`).
24. `models.py:79` cannot be imported on Python 3.11.
25. A copy that raises half way leaves its part of the file, which is on no list
    (`transaction.py:262-273`, `clone.py:216`); the fault `partial`, set aside by `RollbackRestores` and
    `BatchIsAtomic`.
26. Ctrl-C between a change of commit and its record is not undone: the original is lost
    (`transaction.py:337-338`), the new file stays (265-273), or the new files are removed when the originals
    are gone already (350-351); the fault `gap`, set aside by `RollbackRestores`, `NothingLost` and `BatchIsAtomic`.
27. The rename back of the old target may raise, and the `finally` removes the old target
    (`wheel_archive_installer.py:811`, `836`); the fault `restore`, set aside by `Unrecovered`. Without that TLC finds
    `CallsAreExact`, `TargetKept` and `TargetComesBack` violated.
28. A release that only yanked artifacts stand for is found by name and loses the requirements of the extra
    that was asked for (`nab_provider.py:354-360`, `636`, `655-660`); so does a release decided before its extra
    is asked for, unless its record is the package's first (`nab_provider.py:940-955`). `Sound` carries
    `YankedIsPinned`; without it TLC finds `Sound` violated.

What the code does not promise, and the model shows it need not: two installs into one target
that overlap may lose each other's work (there is no lock on a target), and when the swap of one
finds the target of the other, its rename back fails as well and its `finally` removes the old target with
the staging directory. `NeverHalfBuilt` and `TargetComesBack` hold even then.

## 6. Not modelled

Parsing and formatting (index pages, requirement files, locks, configuration, archive formats),
subprocess protocols (build backends, version control), presentation: sequential code with
little state, tested as functions. The other vendored libraries are outside. What else is not modelled
is in the plan; `PROJECT.json` gives the reason per component.

## 7. Plan

What is left, in this order:

1. `PreparePipeline`: the two pools of `install/output.py`, refining a sequential loop.
2. `CandidateStream` and `Prefetch`: replay against interleaved iterators; each task once.
   A run for finding 23.
3. `PlanReceipt`: receipts over `ArchiveCache`, composed with a remover.
4. `SqliteCache`, `MemberPaths`, `Versions`, `Dispatch`: put and flush; pure operators against
   reference definitions; the decline chain of the fast paths.
5. Installed distributions, URL requirements and pre-releases in `NabProvider`; the 401 retry of
   `HttpSession`.
6. `Download` and `LazyZip`, which at this commit only the tests reach: the attempts against a
   server that drops, restarts, ignores ranges or changes the file; an accepted file is one
   version of the file, whole; intervals against the bytes in the local file. A run for finding 22.

Proofs still wanted for what is modelled: `LearnsSomethingNew`, from an invariant that says which
clauses propagation may pass over; and a bound on the steps of conflict resolution between two jumps as
an action property, to which `SatisfiedBy` already comes down.
