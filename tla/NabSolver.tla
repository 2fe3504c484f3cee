-------------------------------- MODULE NabSolver --------------------------------
(* Resolution: the PubGrub solver cpip vendors (_vendor/nab_resolver) driven by      *)
(* NabProvider, as resolution/api.py runs it. What it is asked is chosen in Init;    *)
(* from there it is sequential, and one action stands for one clause that unit       *)
(* propagation acts on, one step of conflict resolution, one decision, or one        *)
(* package of the walk that builds the result.                                       *)
EXTENDS NabProvider, SequencesExt

CONSTANTS
    Worlds,                 \* what may be asked
    MinConflictSteps,       \* _MIN_CONFLICT_STEPS
    StepsPerTrailEntry,     \* _STEPS_PER_TRAIL_ENTRY
    RestartThreshold,       \* _RESTART_THRESHOLD
    MaxRestarts,            \* _MAX_RESTARTS
    CulpritThreshold,       \* CULPRIT_THRESHOLD
    MinConflicts,           \* TARGETED_BT_MIN_CONFLICTS
    MaxTargeted             \* MAX_TARGETED_BACKTRACKS

ASSUME WorldsAssumption == Worlds \subseteq World /\ \A w \in Worlds : w.asked \subseteq Roots(w)
ASSUME VersionAssumption == N >= 1    \* ROOT has version 1
ASSUME LimitsAssumption ==
    /\ MinConflictSteps \in Nat /\ StepsPerTrailEntry \in Nat \ {0} /\ CulpritThreshold \in Nat \ {0}
    /\ {RestartThreshold, MaxRestarts, MinConflicts, MaxTargeted} \subseteq Nat

ROOT == 0
Names == 0..P

Term == [positive: BOOLEAN, range: SUBSET Universe]
Causes == {"root", "dependency", "no_versions", "derived", "none"}

\* A clause has at most one term a package; order lists the packages that have one.
NoTerm == [positive |-> FALSE, range |-> NoRange]
Clause == [terms: [Names -> Term \cup {NoTerm}], order: Seq(Names), cause: Causes]
NoClause == [terms |-> [p \in Names |-> NoTerm], order |-> <<>>, cause |-> "none"]

\* The packages the clause is about.
About(c) == {p \in Names : c.terms[p] # NoTerm}

\* One entry of the trail: cause is NoClause for a decision. The rest is the state of
\* the package as of the entry.
Entry == [package: Names, level: Nat, cause: Clause,
          pos: (SUBSET Universe) \cup {NoRange}, neg: (SUBSET Universe) \cup {NoRange},
          decision: Versions \cup {None}]

VARIABLES
    world,          \* what is asked; never changes
    \* NabProvider
    wants,          \* the specifier of each package's entry in requirements, or NoRange
    extras,         \* the packages whose entry has the extra
    first,          \* the version of each package's first entry in records
    reread,         \* releases whose record was replaced when the extra came on
    read,           \* how a release's lines were read, with the extra on: _dependency_cache
    \* PartialSolution
    trail,          \* the assignments
    positive,       \* _positive_ranges
    negative,       \* _negative_ranges
    decided,        \* _decided_versions
    \* Resolver
    phase,          \* what it does next, or how it ended
    clauses,        \* incompatibilities
    queue,          \* packages to propagate; then packages of the result to visit
    at,             \* the clause propagation has come to
    conflict,       \* the clause conflict resolution works on
    derived,        \* it is not one of clauses
    steps,          \* what is left of its budget
    reached,        \* packages of the result visited
    \* ResolverStats and the choice of a package
    conflicts, conflictCount, culpritCount, pending, targeted, threshold, restarts,
    keys,           \* priority_keys: the conflict count each key was built from
    moved           \* packages recorded as touched since the last choice

provider == <<wants, extras, first, reread, read>>
solution == <<trail, positive, negative, decided>>
search == <<phase, clauses, queue, at, conflict, derived, steps, reached>>
stats == <<conflicts, conflictCount, culpritCount, pending, targeted, threshold, restarts>>
choice == <<keys, moved>>
vars == <<world, provider, solution, search, stats, choice>>

Ended == {"done", "failed", "gave up", "stalled", "raised", "no decision"}
Phases == {"propagating", "resolving", "deciding", "building"} \cup Ended

------------------------------------------------------------------------------------
(* Terms against a range: types.py, propagate.py.                                    *)

Full == Universe

\* positive - negative; NoRange when there is neither.
Effective(pos, neg) ==
    IF pos # NoRange THEN (IF neg = NoRange THEN pos ELSE pos \ neg)
    ELSE IF neg # NoRange THEN Full \ neg ELSE NoRange

\* PartialSolution.get, and what "get(package) or full()" makes of it: an empty range is false.
RangeNow(p) == Effective(positive[p], negative[p])
RangeOrFull(p) == IF RangeNow(p) \in {NoRange, {}} THEN Full ELSE RangeNow(p)

Disjoint(R, S) == R \cap S = {}
Meets(t, range) == IF t.positive THEN range \subseteq t.range ELSE Disjoint(range, t.range)
Negate(t) == [t EXCEPT !.positive = ~@]

Relation(p, t) ==
    LET needsPositive == positive[p] = NoRange
    IN  IF RangeNow(p) = NoRange THEN "undetermined"
        ELSE IF Meets(t, RangeNow(p))
             THEN IF t.positive /\ needsPositive THEN "undetermined" ELSE "satisfied"
        ELSE IF Meets(Negate(t), RangeNow(p))
             THEN IF ~t.positive /\ needsPositive THEN "undetermined" ELSE "contradicted"
        ELSE "undetermined"

Unsatisfied(c) == {p \in About(c) : Relation(p, c.terms[p]) # "satisfied"}
IsConflict(c) == Unsatisfied(c) = {}
IsUnit(c) == \E p \in Unsatisfied(c) :
    Unsatisfied(c) = {p} /\ Relation(p, c.terms[p]) = "undetermined"

Intersect(t, u) ==
    CASE t.positive /\ u.positive -> [positive |-> TRUE, range |-> t.range \cap u.range]
      [] ~t.positive /\ ~u.positive -> [positive |-> FALSE, range |-> t.range \cup u.range]
      [] t.positive /\ ~u.positive -> [positive |-> TRUE, range |-> t.range \ u.range]
      [] OTHER -> [positive |-> TRUE, range |-> u.range \ t.range]

\* Mutant of Union: the term of one of the two clauses.
UnionOfOne(t, u) == IF t.positive THEN t ELSE u

Union(t, u) ==
    CASE t.positive /\ u.positive -> [positive |-> TRUE, range |-> t.range \cup u.range]
      [] ~t.positive /\ ~u.positive -> [positive |-> FALSE, range |-> t.range \cap u.range]
      [] t.positive /\ ~u.positive -> [positive |-> FALSE, range |-> u.range \ t.range]
      [] OTHER -> [positive |-> FALSE, range |-> t.range \ u.range]

IsTautology(t) == ~t.positive /\ t.range = {}

\* The members of s that are in Q, in their order: SelectSeq, without its recursion.
Keep(s, Q) ==
    LET I == {i \in DOMAIN s : s[i] \in Q}
        rank(i) == Cardinality({j \in I : j <= i})
    IN  [k \in 1..Cardinality(I) |-> s[CHOOSE i \in I : rank(i) = k]]

\* report.prior_cause: both clauses without the package that resolves them, where the
\* union of the two terms says nothing. A package of neither or of one is kept as it is.
PriorCause(c, d, p) ==
    LET term(q) == IF q \notin About(c) THEN d.terms[q]
                   ELSE IF q \notin About(d) THEN c.terms[q]
                   ELSE IF q = p THEN Union(c.terms[q], d.terms[q])
                   ELSE Intersect(c.terms[q], d.terms[q])
        drops == p \in About(c) \cap About(d) /\ IsTautology(term(p))
        order == Keep(c.order, Names \ {p}) \o Keep(d.order, Names \ ({p} \cup About(c)))
    IN  [terms |-> [q \in Names |-> IF q = p /\ drops THEN NoTerm ELSE term(q)],
         order |-> IF drops THEN order ELSE <<p>> \o order,
         cause |-> "derived"]

------------------------------------------------------------------------------------
(* Satisfiers: partial_solution.py, conflict.py.                                     *)

Level(tr) == IF tr = <<>> THEN 0 ELSE tr[Len(tr)].level

EntriesOf(tr, p) == {i \in DOMAIN tr : tr[i].package = p}

SatisfiedAt(e, t) ==
    /\ t.positive => e.pos # NoRange
    /\ Meets(t, Effective(e.pos, e.neg))

Satisfiers(tr, p, t) == {i \in EntriesOf(tr, p) : SatisfiedAt(tr[i], t)}

\* The earliest entry that satisfies the term.
Satisfier(tr, p, t) == Min(Satisfiers(tr, p, t))

IsSatisfied(tr, c) == \A p \in About(c) : Satisfiers(tr, p, c.terms[p]) # {}

\* recompute_previous_level: what the entry itself asserts may cover the term only in part.
\* The level of what covers the difference, if it takes more than the entry.
DifferenceLevels(tr, e, t) ==
    LET p == e.package
        difference == Intersect(Negate(e.cause.terms[p]), Negate(t))
        others == Satisfiers(tr, p, Negate(difference))
    IN  IF \/ e.cause = NoClause \/ p \notin About(e.cause)
           \/ difference.range = {} \/ others = {}
        THEN {}
        ELSE {tr[Min(others)].level}

\* find_most_recent_satisfier: the satisfier, and the level of the others.
Analysis(tr, c) ==
    LET by == [p \in About(c) |-> Satisfier(tr, p, c.terms[p])]
        e == tr[Max(Range(by))]
        p == e.package
    IN  [satisfier |-> e,
         previous |-> Max({1} \cup {tr[by[q]].level : q \in (DOMAIN by) \ {p}}
                              \cup DifferenceLevels(tr, e, c.terms[p]))]

CanBackjump(a) == a.satisfier.cause = NoClause \/ a.previous # a.satisfier.level

Resolved(c, a) == PriorCause(c, a.satisfier.cause, a.satisfier.package)

\* try_force_resolution_step. What it returns has two terms, so that it applies once.
Forces(tr, c, a) ==
    /\ a.satisfier.cause # NoClause
    /\ Cardinality(About(c)) = 1
    /\ LET d == Resolved(c, a) IN Cardinality(About(d)) >= 2 /\ CanBackjump(Analysis(tr, d))

\* Mutant of IsTerminal: a clause about the root alone is resolved further.
IsTerminalWhenEmpty(c) == About(c) = {}

IsTerminal(c) == About(c) \subseteq {ROOT}

------------------------------------------------------------------------------------
(* The partial solution.                                                             *)

\* decide and derive, as the entry they put on the trail; the package's state follows it.
Assign(p, level, cause, pos, neg, version) ==
    [package |-> p, level |-> level, cause |-> cause, pos |-> pos, neg |-> neg, decision |-> version]

\* Mutant of RestoreFrom: decisions are not undone.
RestoreRanges(tr) ==
    LET last(p) == Max(EntriesOf(tr, p))
        known(p) == EntriesOf(tr, p) # {}
    IN  /\ trail' = tr
        /\ positive' = [p \in Names |-> IF known(p) THEN tr[last(p)].pos ELSE NoRange]
        /\ negative' = [p \in Names |-> IF known(p) THEN tr[last(p)].neg ELSE NoRange]
        /\ UNCHANGED decided

\* backtrack, to a trail all of whose entries are left: every package is as its last entry says.
RestoreFrom(tr) ==
    LET last(p) == Max(EntriesOf(tr, p))
        known(p) == EntriesOf(tr, p) # {}
    IN  /\ trail' = tr
        /\ positive' = [p \in Names |-> IF known(p) THEN tr[last(p)].pos ELSE NoRange]
        /\ negative' = [p \in Names |-> IF known(p) THEN tr[last(p)].neg ELSE NoRange]
        /\ decided' = [p \in Names |-> IF known(p) THEN tr[last(p)].decision ELSE None]

\* Levels do not fall along the trail.
DownTo(tr, level) == SubSeq(tr, 1, Max({0} \cup {i \in DOMAIN tr : tr[i].level <= level}))

RootTrail == <<Assign(ROOT, 1, NoClause, {1}, NoRange, 1)>>

------------------------------------------------------------------------------------
(* Clauses: incompat_index.py.                                                       *)

RequirementClause(p, V, q, range, cause) ==
    [terms |-> [n \in Names |-> IF n = p THEN [positive |-> TRUE, range |-> V]
                                ELSE IF n = q THEN [positive |-> FALSE, range |-> range]
                                ELSE NoTerm],
     order |-> <<p, q>>, cause |-> cause]

NoVersionsClause(p, range) ==
    [terms |-> [n \in Names |-> IF n = p THEN [positive |-> TRUE, range |-> range] ELSE NoTerm],
     order |-> <<p>>, cause |-> "no_versions"]

\* Mutant of MergesWith: whatever versions of q the two clauses require.
MergesWithAny(c, p, q, range) == c.cause = "dependency" /\ c.order = <<p, q>>

\* dependency_merge_key: the clause says that some version of p requires this of q.
MergesWith(c, p, q, range) ==
    c.cause = "dependency" /\ c.order = <<p, q>> /\ c.terms[q].range = range

\* add_incompatibility for each package p@v requires a range of: into the clause that says the
\* same of another version of p; new are the packages for which there is none.
AddDependencies(cl, p, v, range, new) ==
    LET hits(c) == {q \in DOMAIN range : MergesWith(c, p, q, range[q])}
    IN  [i \in DOMAIN cl |->
            IF hits(cl[i]) = {} THEN cl[i]
            ELSE LET q == cl[i].order[2]
                 IN  RequirementClause(p, cl[i].terms[p].range \cup {v}, q, range[q], "dependency")]
        \o [k \in DOMAIN new |-> RequirementClause(p, {v}, new[k], range[new[k]], "dependency")]

RootClauses(w, roots) ==
    [k \in DOMAIN roots |-> RequirementClause(ROOT, {1}, roots[k], RootRange(w, roots[k]), "root")]

------------------------------------------------------------------------------------
Init ==
    /\ world \in Worlds
    /\ wants = world.root /\ extras = RootExtras(world)
    /\ first = [p \in Packages |-> None] /\ reread = {}
    /\ read = [p \in Packages |-> [v \in Versions |-> "none"]]
    /\ trail = RootTrail
    /\ positive = [p \in Names |-> IF p = ROOT THEN {1} ELSE NoRange]
    /\ negative = [p \in Names |-> NoRange]
    /\ decided = [p \in Names |-> IF p = ROOT THEN 1 ELSE None]
    /\ phase = "propagating"
    /\ \E roots \in InOrder(Roots(world), [p \in Packages |-> p]) : clauses = RootClauses(world, roots)
    /\ queue = <<ROOT>> /\ at = 1 /\ conflict = NoClause /\ derived = FALSE /\ steps = 0
    /\ reached = {}
    /\ conflicts = 0
    /\ conflictCount = [p \in Packages |-> 0] /\ culpritCount = [p \in Packages |-> 0]
    /\ pending = <<>> /\ targeted = 0 /\ threshold = RestartThreshold /\ restarts = MaxRestarts
    /\ keys = [p \in Packages |-> None] /\ moved = Names

------------------------------------------------------------------------------------
(* Unit propagation: propagate.py.                                                   *)

\* Mutant of NextClause: a clause after one that was acted on is passed over.
NextClauseAfter ==
    LET due == {i \in at + 1..Len(clauses) : Head(queue) \in About(clauses[i])
                                             /\ (IsConflict(clauses[i]) \/ IsUnit(clauses[i]))}
    IN  IF due = {} THEN 0 ELSE Min(due)

\* The first clause of the package being propagated that is left and calls for something.
NextClause ==
    LET due == {i \in at..Len(clauses) : Head(queue) \in About(clauses[i])
                                         /\ (IsConflict(clauses[i]) \/ IsUnit(clauses[i]))}
    IN  IF due = {} THEN 0 ELSE Min(due)

Enqueued(p) == IF p \in Range(Tail(queue)) THEN queue ELSE Append(queue, p)

Derive(i) ==
    /\ i > 0 /\ IsUnit(clauses[i])
    /\ \E p \in Unsatisfied(clauses[i]) :
        LET t == Negate(clauses[i].terms[p])
            pos == IF ~t.positive THEN positive[p]
                   ELSE IF positive[p] = NoRange THEN t.range ELSE positive[p] \cap t.range
            neg == IF t.positive THEN negative[p]
                   ELSE IF negative[p] = NoRange THEN t.range ELSE negative[p] \cup t.range
        IN  /\ trail' = Append(trail, Assign(p, Level(trail), clauses[i], pos, neg, decided[p]))
            /\ positive' = [positive EXCEPT ![p] = pos]
            /\ negative' = [negative EXCEPT ![p] = neg]
            /\ queue' = IF RangeNow(p) = Effective(pos, neg) THEN queue ELSE Enqueued(p)
            /\ moved' = moved \cup {p}
    /\ at' = i + 1
    /\ UNCHANGED <<world, provider, decided, phase, clauses, conflict, derived, steps, reached,
                   stats, keys>>

\* Mutant of FindConflict: the clause found violated is taken for a new one.
FindConflictDerived(i) ==
    /\ i > 0 /\ IsConflict(clauses[i])
    /\ phase' = "resolving" /\ conflict' = clauses[i] /\ derived' = TRUE
    /\ steps' = Max({MinConflictSteps, StepsPerTrailEntry * Len(trail)})
    /\ queue' = <<>> /\ at' = 1
    /\ conflicts' = conflicts + 1
    /\ UNCHANGED <<world, provider, solution, clauses, reached, conflictCount, culpritCount,
                   pending, targeted, threshold, restarts, choice>>

FindConflict(i) ==
    /\ i > 0 /\ IsConflict(clauses[i])
    /\ phase' = "resolving" /\ conflict' = clauses[i] /\ derived' = FALSE
    /\ steps' = Max({MinConflictSteps, StepsPerTrailEntry * Len(trail)})
    /\ queue' = <<>> /\ at' = 1
    /\ conflicts' = conflicts + 1
    /\ UNCHANGED <<world, provider, solution, clauses, reached, conflictCount, culpritCount,
                   pending, targeted, threshold, restarts, choice>>

NextPackage(i) ==
    /\ i = 0
    /\ queue' = Tail(queue) /\ at' = 1
    /\ phase' = IF Tail(queue) = <<>> THEN "deciding" ELSE phase
    /\ UNCHANGED <<world, provider, solution, clauses, conflict, derived, steps, reached,
                   stats, choice>>

Propagate ==
    /\ phase = "propagating"
    /\ \E i \in {NextClause} : Derive(i) \/ FindConflict(i) \/ NextPackage(i)

------------------------------------------------------------------------------------
(* Conflict resolution: conflict.py, Resolver._handle_conflict.                      *)

\* The clause says that there is no solution, or the budget of steps is spent.
Stop ==
    /\ phase = "resolving" /\ (steps = 0 \/ IsTerminal(conflict))
    /\ phase' = IF steps = 0 THEN "stalled" ELSE "failed"
    /\ UNCHANGED <<world, provider, solution, clauses, queue, at, conflict, derived, steps,
                   reached, stats, choice>>

Resolve(a) ==
    /\ ~CanBackjump(a)
    /\ conflict' = Resolved(conflict, a) /\ derived' = TRUE /\ steps' = steps - 1
    /\ UNCHANGED <<world, provider, solution, phase, clauses, queue, at, reached, stats, choice>>

\* The level to jump to.
Target(a) == IF a.satisfier.cause = NoClause /\ a.previous >= a.satisfier.level
             THEN a.satisfier.level - 1 ELSE Min({a.previous, Level(trail)})

\* conflict_credit_target.
Credited(e) == IF e.cause = NoClause \/ e.cause.cause # "dependency" THEN e.package ELSE e.cause.order[1]

\* update_culprit_counts: who is blamed, in order.
Blamed(c, e) ==
    LET also == IF Len(c.order) = 1 /\ e.cause # NoClause THEN e.cause.order ELSE <<>>
        others == Packages \ {e.package}
    IN  Keep(c.order, others) \o Keep(also, others \ Range(c.order))

BlamedCount(blamed) == [p \in Packages |-> culpritCount[p] + IF p \in Range(blamed) THEN 1 ELSE 0]

\* The queue for a targeted backtrack: each multiple of the threshold puts a package there.
PendingWith(blamed, count) == pending \o Keep(blamed, {p \in Packages \ Range(pending) :
    count[p] >= CulpritThreshold /\ count[p] % CulpritThreshold = 0})

\* apply_targeted_backtrack: to before the earliest entry of a package in the queue that is
\* not of level 1. The level for one package; 0 when it has none.
BeforeLevel(tr, p) ==
    LET above == {i \in EntriesOf(tr, p) : tr[i].level > 1}
    IN  IF above = {} THEN 0 ELSE tr[Min(above)].level - 1

\* The levels it may jump to.
JumpLevels(tr, queued) == {BeforeLevel(tr, p) : p \in Range(queued)} \cap 1..(Level(tr) - 1)

\* Mutant of RestartDue: restarts are not counted down to none.
RestartDueAlways(count) == \E p \in Packages : count[p] >= threshold

\* maybe_restart.
RestartDue(count) == restarts > 0 /\ \E p \in Packages : count[p] >= threshold

GiveUp(a) ==
    /\ CanBackjump(a) /\ Target(a) = 0
    /\ phase' = "gave up"
    /\ UNCHANGED <<world, provider, solution, clauses, queue, at, conflict, derived, steps, reached,
                   stats, choice>>

\* conflict_resolution once it can jump, from the clause c it has come to; then
\* maybe_targeted_backtrack and maybe_restart.
Backjump(c, a, learned) ==
    LET blamed == Blamed(c, a.satisfier)
        count == BlamedCount(blamed)
        credited == [conflictCount EXCEPT ![Credited(a.satisfier)] = @ + 1]
        queued == PendingWith(blamed, count)
        jumped == DownTo(trail, Target(a))
        due == queued # <<>> /\ conflicts >= MinConflicts
        levels == IF due /\ targeted < MaxTargeted THEN JumpLevels(jumped, queued) ELSE {}
        kept == IF levels = {} THEN jumped ELSE DownTo(jumped, Min(levels))
        triggers == Keep(queued, {p \in Packages : BeforeLevel(jumped, p) = Min(levels)})
        again == RestartDue(credited)
        gone == {trail[i].package : i \in Len(kept) + 1..Len(trail)}
    IN  /\ Target(a) > 0
        /\ clauses' = IF learned THEN Append(clauses, c) ELSE clauses
        /\ conflictCount' = credited
        /\ culpritCount' = count
        /\ RestoreFrom(IF again THEN RootTrail ELSE kept)
        /\ pending' = IF due \/ again THEN <<>> ELSE queued
        /\ targeted' = IF again THEN 0 ELSE IF levels = {} THEN targeted ELSE targeted + 1
        /\ restarts' = IF again THEN restarts - 1 ELSE restarts
        /\ threshold' = IF again THEN 2 * threshold ELSE threshold
        /\ keys' = IF again THEN [p \in Packages |-> None] ELSE keys
        /\ moved' = moved \cup gone \cup {Credited(a.satisfier)} \cup Range(blamed)
        /\ queue' = <<IF again THEN ROOT ELSE IF levels = {} THEN c.order[1] ELSE triggers[1]>>
        /\ phase' = "propagating"
        /\ conflict' = NoClause /\ derived' = FALSE /\ steps' = 0
        /\ UNCHANGED <<world, provider, conflicts, at, reached>>

\* iterate_force_resolution comes before the jump.
Jump(a) ==
    /\ CanBackjump(a)
    /\ IF Forces(trail, conflict, a)
       THEN LET c == Resolved(conflict, a)
            IN  IsSatisfied(trail, c) /\ \E b \in {Analysis(trail, c)} : Backjump(c, b, TRUE)
       ELSE Backjump(conflict, a, derived)

\* A term without a satisfier raises ("Bug: no satisfier"); here it stops the system, which the
\* check for deadlock and ConflictIsSatisfied show never happens.
Explain ==
    /\ phase = "resolving" /\ steps > 0 /\ ~IsTerminal(conflict) /\ IsSatisfied(trail, conflict)
    /\ \E a \in {Analysis(trail, conflict)} : Resolve(a) \/ Jump(a) \/ GiveUp(a)

------------------------------------------------------------------------------------
(* Decisions: decide.py, Resolver._decide_next.                                      *)

Undecided == {p \in Packages : positive[p] # NoRange /\ decided[p] = None}

\* Mutant of ScanKeys: a package keeps the key it was first given.
ScanKeysOnce == [p \in Packages |->
    IF p \notin Undecided THEN None
    ELSE IF keys[p] = None THEN conflictCount[p] ELSE keys[p]]

\* The keys the scan compares: those of packages that moved, and of new ones, are rebuilt.
ScanKeys == [p \in Packages |->
    IF p \notin Undecided THEN (IF p \in moved THEN None ELSE keys[p])
    ELSE IF p \in moved \/ keys[p] = None THEN conflictCount[p] ELSE keys[p]]

\* NabProvider.prioritize: fewest versions, then most conflicts, then the name.
GoesBefore(count, p, q) ==
    LET versions(r) == Cardinality(Catalog(world, r))
    IN  \/ versions(p) < versions(q)
        \/ versions(p) = versions(q) /\ count[p] > count[q]
        \/ versions(p) = versions(q) /\ count[p] = count[q] /\ p <= q

NextToDecide(p) == \A q \in Undecided : GoesBefore(ScanKeys, p, q)

\* The extras under which the lines of p@v count: not its own when the record lacks its lines.
\* What was read with the extra on is kept; full says how the record at hand was read.
Under(p, v, full) ==
    IF read[p][v] = "full" \/ (read[p][v] = "none" /\ full) THEN extras ELSE extras \ {p}

\* get_dependencies: a package whose extra comes on has its first record read again, p its
\* own. Another release's record stays as it was read without the extra.
GetDependencies(p, v, full) ==
    LET under == Under(p, v, full)
        asked == extras \cup ExtrasAfter(world, under, p, v)
        recorded(q) == IF q = p THEN v ELSE first[q]
        newly == {q \in asked \ extras : recorded(q) # None}
    IN  /\ wants' = WantsAfter(world, wants, under, p, v)
        /\ extras' = asked
        /\ reread' = reread \cup {<<q, recorded(q)>> : q \in {r \in newly : ReadsAgain(world, wants, r, recorded(r))}}
        /\ read' = [read EXCEPT ![p][v] =
                        IF @ = "none" /\ p \in extras THEN (IF full THEN "full" ELSE "bare") ELSE @]

\* A version for p was chosen: its requirements become clauses.
Decide(p, v) ==
    LET full == ~ByName(world, wants, p, RangeOrFull(p), v)
        under == Under(p, v, full)
        required == Required(world, under, p, v)
        range == [q \in required |-> RangeOf(world, under, p, v, q)]
        known == {q \in required : \E i \in DOMAIN clauses : MergesWith(clauses[i], p, q, range[q])}
    IN  /\ v \in Versions
        /\ trail' = Append(trail, Assign(p, Level(trail) + 1, NoClause, {v}, negative[p], v))
        /\ positive' = [positive EXCEPT ![p] = {v}]
        /\ decided' = [decided EXCEPT ![p] = v]
        /\ \E new \in InOrder(required \ known, FirstRow(world, under, p, v)) :
            clauses' = AddDependencies(clauses, p, v, range, new)
        /\ GetDependencies(p, v, full)
        /\ first' = [first EXCEPT ![p] = IF @ = None THEN v ELSE @]
        /\ phase' = "propagating" /\ queue' = <<p>>
        /\ keys' = ScanKeys
        /\ moved' = {p} \cup {q \in Packages : wants'[q] # wants[q]} \cup (extras' \ extras)
        /\ UNCHANGED <<world, negative, at, conflict, derived, steps, reached, stats>>

RecordNoVersions(p, v) ==
    /\ v = None
    /\ clauses' = Append(clauses, NoVersionsClause(p, RangeOrFull(p)))
    /\ phase' = "propagating" /\ queue' = <<p>>
    /\ keys' = ScanKeys /\ moved' = {}
    /\ UNCHANGED <<world, provider, solution, at, conflict, derived, steps, reached, stats>>

ChoiceRaises(v) ==
    /\ v = Raises
    /\ phase' = "raised"
    /\ UNCHANGED <<world, provider, solution, clauses, queue, at, conflict, derived, steps, reached,
                   stats, choice>>

Choose ==
    /\ phase = "deciding"
    /\ \E p \in Undecided :
        /\ NextToDecide(p)
        /\ \E v \in {ChooseVersion(world, wants, p, RangeOrFull(p))} :
            Decide(p, v) \/ RecordNoVersions(p, v) \/ ChoiceRaises(v)

AllDecided ==
    /\ phase = "deciding" /\ Undecided = {}
    /\ phase' = "building"
    /\ queue' \in SetToSeqs(Roots(world))     \* a set of names: hashed, in any order
    /\ UNCHANGED <<world, provider, solution, clauses, at, conflict, derived, steps, reached,
                   stats, choice>>

------------------------------------------------------------------------------------
(* The result: result.build_reachable_decisions.                                     *)

\* Mutant of Walk: a package met again is walked again.
WalkAgain(p) ==
    LET full == <<p, decided[p]>> \in reread
        rows == FirstRow(world, Under(p, decided[p], full), p, decided[p])
    IN  /\ decided[p] # None
        /\ reached' = reached \cup {p}
        /\ \E required \in InOrder(DOMAIN rows, rows) : queue' = Tail(queue) \o required
        /\ GetDependencies(p, decided[p], full)
        /\ UNCHANGED <<first, phase>>

\* Its get_dependencies, a second time for the release.
Walk(p) ==
    LET full == <<p, decided[p]>> \in reread
        rows == FirstRow(world, Under(p, decided[p], full), p, decided[p])
    IN  /\ p \notin reached /\ decided[p] # None
        /\ reached' = reached \cup {p}
        /\ \E required \in InOrder((DOMAIN rows) \ reached', rows) : queue' = Tail(queue) \o required
        /\ GetDependencies(p, decided[p], full)
        /\ UNCHANGED <<first, phase>>

\* "Bug: reachable package has no decision".
HasNoDecision(p) ==
    /\ p \notin reached /\ decided[p] = None
    /\ phase' = "no decision"
    /\ reached' = reached \cup {p}
    /\ UNCHANGED <<provider, queue>>

Skip(p) ==
    /\ p \in reached
    /\ queue' = Tail(queue)
    /\ UNCHANGED <<provider, phase, reached>>

Visit ==
    /\ phase = "building" /\ queue # <<>>
    /\ LET p == Head(queue) IN Walk(p) \/ HasNoDecision(p) \/ Skip(p)
    /\ UNCHANGED <<world, solution, clauses, at, conflict, derived, steps, stats, choice>>

Answer ==
    /\ phase = "building" /\ queue = <<>>
    /\ phase' = "done"
    /\ UNCHANGED <<world, provider, solution, clauses, queue, at, conflict, derived, steps, reached,
                   stats, choice>>

Ends == phase \in Ended /\ UNCHANGED vars

Next == Propagate \/ Stop \/ Explain \/ Choose \/ AllDecided \/ Visit \/ Answer \/ Ends

\* One thread, that nothing blocks: WF_vars(Next). ENABLED <<Next>>_vars is written out: it is
\* phase \notin Ended, for Ends alone repeats a state and there is no deadlock.
Fairness == []<>(phase \in Ended) \/ []<><<Next>>_vars

Spec == Init /\ [][Next]_vars /\ Fairness

------------------------------------------------------------------------------------
(* Properties.                                                                       *)

\* Every variable has its type; a clause has at most one term a package.
TypeOK ==
    /\ wants \in [Packages -> Specifiers \cup {NoRange}] /\ extras \subseteq Packages
    /\ first \in [Packages -> Versions \cup {None}] /\ reread \subseteq Packages \X Versions
    /\ read \in [Packages -> [Versions -> {"none", "bare", "full"}]]
    /\ trail \in Seq(Entry)
    /\ positive \in [Names -> (SUBSET Universe) \cup {NoRange}]
    /\ negative \in [Names -> (SUBSET Universe) \cup {NoRange}]
    /\ decided \in [Names -> Versions \cup {None}]
    /\ phase \in Phases /\ clauses \in Seq(Clause) /\ queue \in Seq(Names) /\ at \in Nat \ {0}
    /\ conflict \in Clause /\ derived \in BOOLEAN /\ steps \in Nat
    /\ reached \subseteq Packages
    /\ conflicts \in Nat /\ conflictCount \in [Packages -> Nat] /\ culpritCount \in [Packages -> Nat]
    /\ pending \in Seq(Packages) /\ targeted \in 0..MaxTargeted
    /\ threshold \in Nat /\ restarts \in 0..MaxRestarts
    /\ keys \in [Packages -> Nat \cup {None}] /\ moved \subseteq Names

Selected == [p \in Packages |-> IF p \in reached THEN decided[p] ELSE Absent]

\* What is installed satisfies what was asked: every requirement of the user and of every selected
\* release, its extra, its constraint; after restarts, learned clauses and merged ones, and although
\* the result is read off a second walk of get_dependencies. Where a release states a requirement in
\* two lines, asks for an extra, or is found with the yanked ones, by name and so without the extra
\* that was asked for, it does not hold (README, Findings).
Sound == phase = "done" /\ IsPlain(world) /\ AsksForNoExtra(world) /\ YankedIsPinned(world) =>
            Satisfies(world, Selected, world.asked)

\* The resolution fails only if nothing satisfies what was asked: no clause learned, merged or
\* recorded for want of a version, and no replacement made by choose_version, rules out a set of
\* releases without a flaw that does. Extras that releases ask for, and pins of packages some of
\* whose releases cannot be used, break it and are set aside.
Complete == phase = "failed" /\ AsksForNoExtra(world) /\ PinsAreClean(world) =>
            Solutions(world) = {}

\* The resolver ends with an answer or with the clause that says there is none. Its step budget
\* holds; it raises only where a release whose metadata does not load stands next to one that is
\* renamed, or where releases ask for extras.
EndsWell ==
    /\ phase \notin {"stalled", "gave up"}
    /\ phase = "no decision" => ~AsksForNoExtra(world)
    /\ phase = "raised" => \E p \in Packages, u, v \in Versions :
                                world.flaw[p][u] = "renamed" /\ world.flaw[p][v] = "bad"

\* Conflict resolution only ever looks at a clause all of whose terms the trail satisfies, so that
\* each has a satisfier to resolve with: no clause it derives, and no entry of a package that was
\* decided since, leaves a term without one.
ConflictIsSatisfied == phase = "resolving" =>
    IsSatisfied(trail, conflict)

\* When a version is about to be chosen no clause about decided packages alone is violated: what was
\* skipped because a range did not change, because its package was in the queue already or because a
\* clause was merged into another, lets no decisions stand that rule each other out.
DecisionsAgree == phase = "deciding" => \A i \in DOMAIN clauses :
    (\A p \in About(clauses[i]) : decided[p] # None) => ~IsConflict(clauses[i])

\* What an entry of the trail asserts of its package.
Says(e) == IF e.cause = NoClause THEN [positive |-> TRUE, range |-> {e.decision}]
           ELSE Negate(e.cause.terms[e.package])

\* The ranges and the decision that are cached for each package are those its entries add up to: a
\* decision or a derivation undone by a jump, a targeted jump or a restart leaves no trace, and
\* none that stays is lost.
AsIfReplayed == \A p \in Names :
    LET said(sign) == {Says(trail[i]).range : i \in {j \in EntriesOf(trail, p) : Says(trail[j]).positive = sign}}
    IN  /\ positive[p] = IF said(TRUE) = {} THEN NoRange
                         ELSE {v \in Universe : \A R \in said(TRUE) : v \in R}
        /\ negative[p] = IF said(FALSE) = {} THEN NoRange ELSE UNION said(FALSE)
        /\ decided[p] = IF \E i \in EntriesOf(trail, p) : trail[i].cause = NoClause
                        THEN trail[CHOOSE i \in EntriesOf(trail, p) : trail[i].cause = NoClause].decision
                        ELSE None

\* Packages are compared for the next choice under the conflict counts of the moment: no priority
\* key kept from an earlier scan is stale.
KeysAreFresh == phase = "deciding" => \A p \in Undecided : ScanKeys[p] = conflictCount[p]

\* Every package's newest release, as long as it can be used.
AllNewest(w, S) == \A p \in Packages : S[p] # Absent =>
    w.flaw[p][S[p]] = "good" /\ \A v \in Catalog(w, p) : v <= S[p]

\* When the newest releases satisfy everything, they are what is selected: a conflict met on the
\* way, a learned clause or a restart costs no package its newest version.
PrefersNewest == phase = "done" /\ AsksForNoExtra(world) =>
    \A S \in Solutions(world) : AllNewest(world, S) =>
        \A p \in Packages : Selected[p] # Absent => Selected[p] = S[p]

\* A yanked release is decided only under a pin that names it, or where nothing else is left in the
\* range it is chosen from.
YankedLastResort == [][phase = "deciding" /\ phase' = "propagating" =>
    \A p \in Packages : decided[p] = None /\ decided'[p] # None /\ world.flaw[p][decided'[p]] = "yanked" =>
        \/ decided'[p] \in wants[p] /\ IsPin(wants[p])
        \/ \A v \in Matching(world, p, RangeOrFull(p)) : world.flaw[p][v] = "yanked"]_vars

\* A clause that conflict resolution learns says what no clause said before: the search does not come
\* back to a conflict it has explained.
LearnsSomethingNew == [][phase = "resolving" /\ clauses' # clauses =>
    \A i \in DOMAIN clauses : clauses[i].terms # clauses'[Len(clauses')].terms]_vars

\* Every package the walk of the result reaches has a decision: where one has none, result.py raises
\* "Bug: reachable package ... has no decision", a branch it marks as never taken.
UnreachableBug == phase # "no decision"

\* Every resolution ends: restarts and targeted jumps do not keep it going for ever.
Terminates == <>(phase \in Ended)
====
