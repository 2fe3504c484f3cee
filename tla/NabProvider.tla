------------------------------- MODULE NabProvider -------------------------------
(* How the resolver is told about releases (resolution/nab_provider.py): which       *)
(* version of a package it is offered, and what a release requires. wants is         *)
(* self.requirements without the extras: the specifier of the first requirement seen *)
(* for each package, kept for the whole resolution; extras are the packages whose    *)
(* extra was merged into it. Releases come from an index: nothing is installed, no   *)
(* requirement is a URL, no version is a pre-release, yanked releases are not asked  *)
(* for.                                                                              *)
EXTENDS Releases

None == -1      \* no version: NabProvider.choose_version returns None
Raises == -2    \* the call raises

Newest(V) == CHOOSE v \in V : \A u \in V : u <= v

NewestOrNone(V) == IF V = {} THEN None ELSE Newest(V)

\* Mutant of Matching: constraints count for ranges alone.
MatchingWithoutLimit(w, p, range) == Catalog(w, p) \cap range

\* The versions choose_version considers.
Matching(w, p, range) == Catalog(w, p) \cap range \cap w.limit[p]

\* find_candidates of choose_version's candidate_requirement has this release: when the
\* package was first seen with a pin that is still what is asked for.
Found(w, wants, p, v) ==
    IF IsPin(wants[p]) THEN v \in wants[p] ELSE w.flaw[p][v] # "yanked"

------------------------------------------------------------------------------------
(* The forward check of exact pins.                                                  *)

\* The indexes of the lines that hold under these extras, in order.
Applicable(w, extras, p, v) ==
    {i \in DOMAIN w.lines[p][v] : w.lines[p][v][i].when => p \in extras}

\* The release's metadata, when the catalog offers it and it loads.
IsOffered(w, p, v) == v \in Versions /\ w.flaw[p][v] \notin {"absent", "yanked", "bad"}

\* Mutant of Apart: two specifiers that differ.
ApartWhenDifferent(spec, other) == spec # other

\* The intervals of two specifiers share no version. Where a version the index does not have
\* lies is not known, so that it is apart only from another pin.
Apart(spec, other) ==
    /\ spec # other
    /\ \/ IsPin(spec) /\ IsPin(other)
       \/ spec \cup other \subseteq Versions /\ \A v \in spec, u \in other : v < u
       \/ spec \cup other \subseteq Versions /\ \A v \in spec, u \in other : u < v

\* The catalog is read by the package's name alone, and a record has the lines of the extras
\* it was found with: those of an extra are not seen here, whatever is asked for.
Seen(w, p, v) == Applicable(w, {}, p, v)

\* What a pin of line l brings in.
Brought(w, l) ==
    LET v == Newest(l.spec)
    IN  {[on |-> w.lines[l.on][v][i].on, spec |-> w.lines[l.on][v][i].spec] : i \in Seen(w, l.on, v)}

PinsAreImpossible(w, p, v) ==
    LET rows == Seen(w, p, v)
        line(i) == w.lines[p][v][i]
        read(k) == {i \in rows : i <= k}
    IN  /\ IsOffered(w, p, v)
        /\ Cardinality(rows) >= 2
        /\ \A i \in rows : IsPin(line(i).spec)
        /\ \E k \in rows :
            /\ \A i \in read(k) : IsOffered(w, line(i).on, Newest(line(i).spec))
            /\ \E b, c \in UNION {Brought(w, line(i)) : i \in read(k)} :
                b.on = c.on /\ Apart(b.spec, c.spec)

NewestViable(w, p, M) ==
    LET viable == {v \in M : ~PinsAreImpossible(w, p, v)}
    IN  IF Cardinality(M) = 1 \/ viable = {} THEN Newest(M) ELSE Newest(viable)

------------------------------------------------------------------------------------
(* choose_version: a candidate, then what replaces it when it cannot be used.        *)

\* Mutant of Retrieved: nothing is tried for a yanked version.
RetrievedAnyway(w, wants, p, M, v) == v

\* _retry_including_yanked, for a version only yanked artifacts stand for.
Retrieved(w, wants, p, M, v) ==
    LET unyanked == {u \in M : w.flaw[p][u] # "yanked"}
    IN  IF Found(w, wants, p, v) \/ v \in unyanked \/ unyanked = {} THEN v ELSE Newest(unyanked)

Others(w, wants, p, M, v) == {u \in M \ {v} : Found(w, wants, p, u)}

MetadataLoads(w, wants, p, M, v) ==
    IF w.flaw[p][v] # "bad" THEN v
    ELSE NewestOrNone({u \in Others(w, wants, p, M, v) : w.flaw[p][u] # "bad"})

PythonRuns(w, wants, p, M, v) ==
    IF v = None THEN None
    ELSE IF w.flaw[p][v] # "python" THEN v
    ELSE NewestOrNone({u \in Others(w, wants, p, M, v) : w.flaw[p][u] \notin {"python", "bad"}})

\* Reading metadata_version of a release whose metadata does not load raises.
NameAgrees(w, wants, p, M, v) ==
    IF v = None THEN None
    ELSE IF w.flaw[p][v] # "renamed" THEN v
    ELSE LET u == NewestOrNone({o \in Others(w, wants, p, M, v) : w.flaw[p][o] # "renamed"})
         IN  IF u # None /\ w.flaw[p][u] = "bad" THEN Raises ELSE u

ChooseVersion(w, wants, p, range) ==
    LET M == Matching(w, p, range)
        found == Retrieved(w, wants, p, M, NewestViable(w, p, M))
        loads == MetadataLoads(w, wants, p, M, found)
        runs == PythonRuns(w, wants, p, M, loads)
    IN  IF M = {} THEN None ELSE NameAgrees(w, wants, p, M, runs)

\* The record of u was found by the package's name alone, in the second attempt or in
\* _retry_including_yanked: it lacks the lines of the extra. Replacements do not.
ByName(w, wants, p, range, u) ==
    LET M == Matching(w, p, range)
        v == NewestViable(w, p, M)
    IN  /\ ~Found(w, wants, p, v) /\ u = Retrieved(w, wants, p, M, v)
        /\ w.flaw[p][u] \in {"good", "yanked"}

\* choose_version(p, Range.singleton(v)) records v anew, with the extra that is on now.
ReadsAgain(w, wants, p, v) == ChooseVersion(w, wants, p, {v}) = v /\ ~ByName(w, wants, p, {v}, v)

------------------------------------------------------------------------------------
(* get_dependencies and what it leaves in self.requirements.                         *)

\* The one sequence of the members of Q in the order of key.
InOrder(Q, key) == {f \in [1..Cardinality(Q) -> Q] : \A i, j \in DOMAIN f : i < j => key[f[i]] < key[f[j]]}

First(I) == CHOOSE i \in I : \A j \in I : i <= j

\* The lines on q that hold.
Rows(w, extras, p, v, q) == {i \in Applicable(w, extras, p, v) : w.lines[p][v][i].on = q}

\* The packages a release requires, itself left out, and the line that first names each.
Required(w, extras, p, v) == {w.lines[p][v][i].on : i \in Applicable(w, extras, p, v)} \ {p}
FirstRow(w, extras, p, v) == [q \in Required(w, extras, p, v) |-> First(Rows(w, extras, p, v, q))]

\* Of two lines on one package the last replaces the first.
RangeOf(w, extras, p, v, q) ==
    LET spec == w.lines[p][v][Newest(Rows(w, extras, p, v, q))].spec
    IN  IF IsPin(spec) THEN spec ELSE spec \cap Catalog(w, q) \cap w.limit[q]

\* A package seen for the first time is wanted with this specifier.
WantsAfter(w, wants, extras, p, v) ==
    LET first == FirstRow(w, extras, p, v)
    IN  [q \in Packages |->
            IF wants[q] = NoRange /\ q \in DOMAIN first THEN w.lines[p][v][first[q]].spec ELSE wants[q]]

\* The extras its lines ask for, its own included, stay on.
ExtrasAfter(w, extras, p, v) ==
    extras \cup {w.lines[p][v][i].on : i \in {j \in Applicable(w, extras, p, v) : w.lines[p][v][j].ask}}

------------------------------------------------------------------------------------
(* add_roots.                                                                        *)

Roots(w) == {p \in Packages : w.root[p] # NoRange}

RootRange(w, p) == Catalog(w, p) \cap w.root[p] \cap w.limit[p]

\* Each root's best candidate turns on the extras it asks of other roots, in lines that hold
\* under the user's extras.
RootExtras(w) ==
    w.asked \cup UNION {
        LET V == {v \in Catalog(w, p) \cap w.root[p] : w.flaw[p][v] # "yanked" \/ IsPin(w.root[p])}
        IN  IF V = {} \/ w.flaw[p][Newest(V)] = "bad" THEN {}
            ELSE {q \in Roots(w) : \E i \in Applicable(w, w.asked, p, Newest(V)) :
                    LET l == w.lines[p][Newest(V)][i] IN l.on = q /\ l.ask} : p \in Roots(w)}
====
