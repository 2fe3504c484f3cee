------------------------------ MODULE NabSolverProofs ------------------------------
(* Proof that the resolver fails only where nothing satisfies what is asked, for any  *)
(* number of packages and versions and for all that their releases may require.       *)
EXTENDS NabSolver, WellFoundedInduction, SequenceTheorems, FiniteSetTheorems, TLAPS

------------------------------------------------------------------------------------
(* Least and greatest numbers.                                                      *)

LEMMA LeastExists == ASSUME NEW I, I \subseteq Nat, I # {} PROVE \E i \in I : \A j \in I : i <= j
<1>1. PICK i \in I : \A j \in I : ~(<<j, i>> \in OpToRel(<, Nat))
  BY WFMin, NatLessThanWellFounded
<1>2. \A j \in I : ~(j < i)
  BY <1>1 DEF OpToRel
<1> QED BY <1>2

LEMMA GreatestExists ==
    ASSUME NEW n \in Nat, NEW I, I \subseteq 0..n, I # {} PROVE \E i \in I : \A j \in I : j <= i
<1> DEFINE rest == {k \in 0..n : n - k \in I}
<1>1. PICK i \in I : TRUE
  OBVIOUS
<1>2. n - i \in rest
  BY <1>1
<1>3. PICK k \in rest : \A l \in rest : k <= l
  <2>1. rest \subseteq Nat
    OBVIOUS
  <2> QED BY <1>2, <2>1, LeastExists
<1>4. \A j \in I : n - j \in rest
  OBVIOUS
<1>5. n - k \in I /\ \A j \in I : j <= n - k
  BY <1>3, <1>4
<1> QED BY <1>5

LEMMA MinIn == ASSUME NEW I, I \subseteq Nat, I # {} PROVE Min(I) \in I
BY LeastExists DEF Min

LEMMA FirstIn == ASSUME NEW I, I \subseteq Nat, I # {} PROVE First(I) \in I
BY LeastExists DEF First

LEMMA MaxIn == ASSUME NEW n \in Nat, NEW I, I \subseteq 0..n, I # {} PROVE Max(I) \in I
<1>1. \E i \in I : \A j \in I : i >= j
  BY GreatestExists
<1> QED BY <1>1 DEF Max

LEMMA NewestIn == ASSUME NEW n \in Nat, NEW I, I \subseteq 0..n, I # {} PROVE Newest(I) \in I
BY GreatestExists DEF Newest

------------------------------------------------------------------------------------
(* Clauses against a selection.                                                     *)

\* What S selects of p; ROOT is always there.
Chosen(S, p) == IF p = ROOT THEN 1 ELSE S[p]

Holds(t, x) == IF t.positive THEN x \in t.range ELSE x \notin t.range

\* S is not what c rules out.
Admits(c, S) == \E p \in About(c) : ~Holds(c.terms[p], Chosen(S, p))

RootTerm == [positive |-> TRUE, range |-> {1}]

Typed(c) == c.terms \in [Names -> Term \cup {NoTerm}]

LEMMA NoTermIsNone == NoTerm \notin Term
BY DEF NoTerm, NoRange, Term, Universe

LEMMA IntersectIsAnd ==
    ASSUME NEW t \in Term, NEW u \in Term
    PROVE  /\ Intersect(t, u) \in Term
           /\ \A x : Holds(Intersect(t, u), x) => Holds(t, x) /\ Holds(u, x)
BY DEF Intersect, Holds, Term

LEMMA UnionIsOr ==
    ASSUME NEW t \in Term, NEW u \in Term
    PROVE  /\ Union(t, u) \in Term
           /\ \A x : Holds(Union(t, u), x) => Holds(t, x) \/ Holds(u, x)
           /\ IsTautology(Union(t, u)) => \A x : Holds(Union(t, u), x)
BY DEF Union, Holds, Term, IsTautology

LEMMA PriorCauseTerms ==
    ASSUME NEW c, NEW d, Typed(c), Typed(d), NEW p \in Names
    PROVE  LET r == PriorCause(c, d, p)
           IN  /\ Typed(r)
               /\ \A q \in Names : q \notin About(c) => r.terms[q] = d.terms[q]
               /\ \A q \in Names : q \notin About(d) => r.terms[q] = c.terms[q]
               /\ \A q \in About(c) \cap About(d) : q # p => r.terms[q] = Intersect(c.terms[q], d.terms[q])
               /\ p \in About(c) \cap About(d) =>
                    \/ r.terms[p] = NoTerm /\ IsTautology(Union(c.terms[p], d.terms[p]))
                    \/ r.terms[p] = Union(c.terms[p], d.terms[p])
<1> DEFINE term(q) == IF q \notin About(c) THEN d.terms[q]
                      ELSE IF q \notin About(d) THEN c.terms[q]
                      ELSE IF q = p THEN Union(c.terms[q], d.terms[q])
                      ELSE Intersect(c.terms[q], d.terms[q])
           drops == p \in About(c) \cap About(d) /\ IsTautology(term(p))
           r == PriorCause(c, d, p)
<1>1. r.terms = [q \in Names |-> IF q = p /\ drops THEN NoTerm ELSE term(q)]
  BY DEF PriorCause
<1>2. \A q \in Names : term(q) \in Term \cup {NoTerm}
  <2> SUFFICES ASSUME NEW q \in Names PROVE term(q) \in Term \cup {NoTerm}
    OBVIOUS
  <2>1. CASE q \in About(c) /\ q \in About(d)
    <3>1. c.terms[q] \in Term /\ d.terms[q] \in Term
      BY <2>1 DEF About, Typed
    <3> QED BY <2>1, <3>1, IntersectIsAnd, UnionIsOr
  <2>2. CASE q \notin About(c) \/ q \notin About(d)
    BY <2>2 DEF Typed
  <2> QED BY <2>1, <2>2
<1>3. Typed(r)
  BY <1>1, <1>2 DEF Typed
<1>4. \A q \in Names : q \notin About(d) /\ q \notin About(c) => d.terms[q] = NoTerm /\ c.terms[q] = NoTerm
  BY DEF About
<1>5. About(c) \subseteq Names /\ About(d) \subseteq Names
  BY DEF About
<1>6. \A q \in Names : r.terms[q] = IF q = p /\ drops THEN NoTerm ELSE term(q)
  BY <1>1
<1>7. \A q \in Names : q \notin About(c) => r.terms[q] = d.terms[q]
  BY <1>6
<1>8. \A q \in Names : q \notin About(d) => r.terms[q] = c.terms[q]
  BY <1>4, <1>6
<1>9. \A q \in About(c) \cap About(d) : q # p => r.terms[q] = Intersect(c.terms[q], d.terms[q])
  BY <1>5, <1>6
<1>10. p \in About(c) \cap About(d) =>
           \/ r.terms[p] = NoTerm /\ IsTautology(Union(c.terms[p], d.terms[p]))
           \/ r.terms[p] = Union(c.terms[p], d.terms[p])
  BY <1>5, <1>6
<1> QED BY <1>3, <1>7, <1>8, <1>9, <1>10

\* Resolution: what two clauses admit, the clause derived from them admits.
LEMMA PriorCauseAdmits ==
    ASSUME NEW c, NEW d, Typed(c), Typed(d), NEW p \in Names, NEW S, Admits(c, S), Admits(d, S)
    PROVE  Admits(PriorCause(c, d, p), S)
<1> DEFINE r == PriorCause(c, d, p)
           x(q) == Chosen(S, q)
<1>1. SUFFICES ASSUME \A q \in About(r) : Holds(r.terms[q], x(q)) PROVE FALSE
  BY DEF Admits
<1>2. PICK a \in About(c) : ~Holds(c.terms[a], x(a))
  BY DEF Admits
<1>3. PICK b \in About(d) : ~Holds(d.terms[b], x(b))
  BY DEF Admits
<1>4. a \in Names /\ b \in Names /\ c.terms[a] \in Term /\ d.terms[b] \in Term
  BY <1>2, <1>3 DEF About, Typed
<1>5. ASSUME a # p PROVE FALSE
  <2>1. CASE a \notin About(d)
    <3>1. r.terms[a] = c.terms[a]
      BY <1>4, <1>5, <2>1, PriorCauseTerms
    <3> QED BY <1>1, <1>2, <1>4, <3>1, NoTermIsNone DEF About
  <2>2. CASE a \in About(d)
    <3>1. d.terms[a] \in Term
      BY <1>4, <2>2 DEF About, Typed
    <3>2. r.terms[a] = Intersect(c.terms[a], d.terms[a])
      BY <1>2, <1>5, <2>2, PriorCauseTerms
    <3> QED BY <1>1, <1>2, <1>4, <3>1, <3>2, IntersectIsAnd, NoTermIsNone DEF About
  <2> QED BY <2>1, <2>2
<1>6. ASSUME b # p PROVE FALSE
  <2>1. CASE b \notin About(c)
    <3>1. r.terms[b] = d.terms[b]
      BY <1>4, <1>6, <2>1, PriorCauseTerms
    <3> QED BY <1>1, <1>3, <1>4, <3>1, NoTermIsNone DEF About
  <2>2. CASE b \in About(c)
    <3>1. c.terms[b] \in Term
      BY <1>4, <2>2 DEF About, Typed
    <3>2. r.terms[b] = Intersect(c.terms[b], d.terms[b])
      BY <1>3, <1>6, <2>2, PriorCauseTerms
    <3> QED BY <1>1, <1>3, <1>4, <3>1, <3>2, IntersectIsAnd, NoTermIsNone DEF About
  <2> QED BY <2>1, <2>2
<1>7. CASE a = p /\ b = p
  <2>1. Union(c.terms[p], d.terms[p]) \in Term
    BY <1>4, <1>7, UnionIsOr
  <2>2. Holds(Union(c.terms[p], d.terms[p]), x(p))
    <3>1. CASE r.terms[p] = NoTerm /\ IsTautology(Union(c.terms[p], d.terms[p]))
      BY <1>4, <1>7, <3>1, UnionIsOr
    <3>2. CASE r.terms[p] = Union(c.terms[p], d.terms[p])
      BY <1>1, <2>1, <3>2, NoTermIsNone DEF About
    <3>3. p \in About(c) \cap About(d)
      BY <1>7
    <3> QED BY <3>1, <3>2, <3>3, PriorCauseTerms
  <2>3. Holds(c.terms[p], x(p)) \/ Holds(d.terms[p], x(p))
    BY <1>4, <1>7, <2>2, UnionIsOr
  <2> QED BY <1>2, <1>3, <1>7, <2>3
<1> QED BY <1>5, <1>6, <1>7

------------------------------------------------------------------------------------
(* What is asked.                                                                   *)

LEMMA WorldFacts ==
    ASSUME NEW w \in World
    PROVE  /\ \A p \in Packages : w.root[p] \in Specifiers \cup {NoRange} /\ w.limit[p] \subseteq Versions
           /\ \A p \in Packages, v \in Versions :
                w.flaw[p][v] \in Flaws /\ w.lines[p][v] \in Seq(Line)
           /\ \A p \in Packages, v \in Versions : \A i \in DOMAIN w.lines[p][v] : w.lines[p][v][i] \in Line
           /\ \A p \in Packages, v \in Versions : DOMAIN w.lines[p][v] = 1..Len(w.lines[p][v])
           /\ \A p \in Packages, v \in Versions : Len(w.lines[p][v]) \in Nat
<1>1. /\ w.root \in [Packages -> Specifiers \cup {NoRange}]
      /\ w.lines \in [Packages -> [Versions -> Seq(Line)]]
      /\ w.flaw \in [Packages -> [Versions -> Flaws]]
      /\ w.limit \in [Packages -> SUBSET Versions]
  BY DEF World
<1>2. \A p \in Packages, v \in Versions : w.flaw[p][v] \in Flaws /\ w.lines[p][v] \in Seq(Line)
  BY <1>1
<1>3. \A s \in Seq(Line) : /\ \A i \in DOMAIN s : s[i] \in Line
                           /\ DOMAIN s = 1..Len(s) /\ Len(s) \in Nat
  OBVIOUS
<1> QED BY <1>1, <1>2, <1>3

LEMMA SpecifierFacts == \A spec \in Specifiers : spec \subseteq Universe /\ Absent \notin spec
BY SizeAssumption DEF Specifiers, Universe, Absent

LEMMA LineFacts == \A l \in Line : l.on \in Packages /\ l.spec \in Specifiers
BY DEF Line

LEMMA RowsFacts ==
    ASSUME NEW w \in World, NEW xs, NEW p \in Packages, NEW v \in Versions,
           NEW q \in Required(w, xs, p, v)
    PROVE  /\ q \in Packages /\ q # p
           /\ Rows(w, xs, p, v, q) # {}
           /\ Rows(w, xs, p, v, q) \subseteq 0..Len(w.lines[p][v])
           /\ Rows(w, xs, p, v, q) \subseteq DOMAIN w.lines[p][v]
           /\ \A i \in Rows(w, xs, p, v, q) :
                i \in Applicable(w, xs, p, v) /\ w.lines[p][v][i].on = q
<1>1. /\ Applicable(w, xs, p, v) \subseteq DOMAIN w.lines[p][v]
      /\ DOMAIN w.lines[p][v] \subseteq 0..Len(w.lines[p][v])
  BY WorldFacts DEF Applicable
<1>2. PICK i \in Applicable(w, xs, p, v) : w.lines[p][v][i].on = q
  BY DEF Required
<1>3. q \in Packages /\ q # p
  BY <1>1, <1>2, WorldFacts, LineFacts DEF Required
<1> QED BY <1>1, <1>2, <1>3 DEF Rows

LEMMA RequiredOthers ==
    ASSUME NEW w \in World, NEW xs, NEW p \in Packages, NEW v \in Versions
    PROVE  Required(w, xs, p, v) \subseteq Packages \ {p}
BY RowsFacts

\* A selection that satisfies what is asked satisfies the range the solver is given.
LEMMA RangeIsRequired ==
    ASSUME NEW w \in World, NEW xs, xs \subseteq w.asked, NEW S \in Solutions(w),
           NEW p \in Packages, S[p] \in Versions, NEW q \in Required(w, xs, p, S[p])
    PROVE  S[q] \in RangeOf(w, xs, p, S[p], q)
<1> DEFINE v == S[p]
           rows == Rows(w, xs, p, v, q)
           i == Newest(rows)
           l == w.lines[p][v][i]
<1>1. PICK A \in SUBSET Packages : Satisfies(w, S, A)
  BY DEF Solutions
<1>2. i \in rows
  <2>1. rows # {} /\ rows \subseteq 0..Len(w.lines[p][v])
    BY RowsFacts
  <2>2. Len(w.lines[p][v]) \in Nat
    BY WorldFacts
  <2> HIDE DEF rows, v
  <2> QED BY <2>1, <2>2, NewestIn
<1> HIDE DEF i, rows
<1>3. /\ i \in DOMAIN w.lines[p][v] /\ l.on = q /\ (l.when => p \in w.asked)
      /\ l.spec \in Specifiers /\ q \in Packages
  <2>1. i \in DOMAIN w.lines[p][v] /\ i \in Applicable(w, xs, p, v) /\ l.on = q
    BY <1>2, RowsFacts DEF rows
  <2>2. q \in Packages
    BY RowsFacts
  <2>3. l.when => p \in w.asked
    BY <2>1 DEF Applicable
  <2>4. l \in Line
    BY <2>1, WorldFacts
  <2> QED BY <2>1, <2>2, <2>3, <2>4, LineFacts
<1>4. w.asked \subseteq A /\ v # Absent
  BY <1>1 DEF Satisfies, Versions, Absent
<1>5. S[q] \in l.spec
  BY <1>1, <1>3, <1>4 DEF Satisfies
<1>6. S[q] # Absent
  BY <1>3, <1>5, SpecifierFacts
<1>7. S[q] \in Catalog(w, q) \cap w.limit[q]
  BY <1>1, <1>3, <1>6 DEF Satisfies
<1> QED BY <1>5, <1>7 DEF RangeOf, i, rows

LEMMA RangeIsRange ==
    ASSUME NEW w \in World, NEW xs, NEW p \in Packages, NEW v \in Versions,
           NEW q \in Required(w, xs, p, v)
    PROVE  RangeOf(w, xs, p, v, q) \subseteq Universe
<1> DEFINE i == Newest(Rows(w, xs, p, v, q))
<1>1. i \in Rows(w, xs, p, v, q)
  <2>1. Rows(w, xs, p, v, q) # {} /\ Rows(w, xs, p, v, q) \subseteq 0..Len(w.lines[p][v])
    BY RowsFacts
  <2>2. Len(w.lines[p][v]) \in Nat
    BY WorldFacts
  <2> QED BY <2>1, <2>2, NewestIn
<1>2. w.lines[p][v][i].spec \in Specifiers
  BY <1>1, RowsFacts, WorldFacts, LineFacts
<1>3. w.lines[p][v][i].spec \subseteq Universe
  BY <1>2, SpecifierFacts
<1> HIDE DEF i
<1> QED BY <1>3 DEF RangeOf, i

LEMMA RootIsRequired ==
    ASSUME NEW w \in World, NEW q \in Roots(w)
    PROVE  /\ q \in Packages /\ RootRange(w, q) \subseteq Universe
           /\ \A S \in Solutions(w) : S[q] \in RootRange(w, q)
<1>1. q \in Packages /\ w.root[q] \in Specifiers
  BY WorldFacts DEF Roots
<1>2. w.root[q] \subseteq Universe /\ Absent \notin w.root[q]
  BY <1>1, SpecifierFacts
<1>3. ASSUME NEW S \in Solutions(w) PROVE S[q] \in RootRange(w, q)
  <2>1. PICK A \in SUBSET Packages : Satisfies(w, S, A)
    BY DEF Solutions
  <2>2. S[q] \in w.root[q]
    BY <1>1, <2>1 DEF Satisfies, Roots
  <2>3. S[q] # Absent
    BY <1>2, <2>2
  <2>4. S[q] \in Catalog(w, q) \cap w.limit[q]
    BY <1>1, <2>1, <2>3 DEF Satisfies
  <2> QED BY <2>2, <2>4 DEF RootRange
<1> QED BY <1>1, <1>2, <1>3 DEF RootRange

------------------------------------------------------------------------------------
(* The version that is chosen.                                                      *)

\* What every stage of choose_version leaves: a version of M, which find_candidates offers, or is
\* not yanked, or only yanked ones are left.
Sane(w, ws, p, M, v) ==
    v \in M /\ (Found(w, ws, p, v) \/ w.flaw[p][v] # "yanked" \/ \A u \in M : w.flaw[p][u] = "yanked")

LEMMA NewestOrNoneFacts ==
    ASSUME NEW V, V \subseteq Versions
    PROVE  /\ NewestOrNone(V) \in V \cup {None}
           /\ V # {} => NewestOrNone(V) \in V /\ NewestOrNone(V) # None
<1>1. V \subseteq 0..N /\ N \in Nat
  BY SizeAssumption DEF Versions
<1>2. ASSUME V # {} PROVE Newest(V) \in V
  <2> HIDE DEF Newest
  <2> QED BY <1>1, <1>2, NewestIn
<1>3. None \notin Versions
  BY DEF Versions, None
<1> QED BY <1>2, <1>3 DEF NewestOrNone

LEMMA RetrievedIsSane ==
    ASSUME NEW w, NEW ws, NEW p, NEW M, M \subseteq Versions, M # {}
    PROVE  Sane(w, ws, p, M, Retrieved(w, ws, p, M, NewestViable(w, p, M)))
<1> DEFINE v == NewestViable(w, p, M)
           unyanked == {u \in M : w.flaw[p][u] # "yanked"}
<1>1. ASSUME NEW V, V \subseteq M, V # {} PROVE Newest(V) \in V
  <2>1. V \subseteq 0..N /\ N \in Nat
    BY <1>1, SizeAssumption DEF Versions
  <2> QED BY <1>1, <2>1, NewestIn
<1>2. v \in M
  BY <1>1 DEF NewestViable
<1>3. unyanked # {} => Newest(unyanked) \in unyanked
  BY <1>1
<1> HIDE DEF v
<1>4. CASE Found(w, ws, p, v) \/ v \in unyanked \/ unyanked = {}
  BY <1>2, <1>4 DEF Retrieved, Sane, v
<1>5. CASE ~(Found(w, ws, p, v) \/ v \in unyanked \/ unyanked = {})
  <2>1. Retrieved(w, ws, p, M, v) = Newest(unyanked)
    BY <1>5 DEF Retrieved
  <2> QED BY <1>3, <1>5, <2>1 DEF Sane, v
<1> QED BY <1>4, <1>5

\* The three replacements keep that, and find one where there is one.
LEMMA StagesAreSane ==
    ASSUME NEW w, NEW ws, NEW p, NEW M, M \subseteq Versions,
           NEW x, x = None \/ Sane(w, ws, p, M, x)
    PROVE  /\ LET y == PythonRuns(w, ws, p, M, x)
              IN  y = None \/ Sane(w, ws, p, M, y)
           /\ LET y == NameAgrees(w, ws, p, M, x)
              IN  y = None \/ y = Raises \/ Sane(w, ws, p, M, y)
           /\ x # None => LET y == MetadataLoads(w, ws, p, M, x)
                          IN  y = None \/ Sane(w, ws, p, M, y)
<1>1. \A V : V \subseteq Others(w, ws, p, M, x) =>
          NewestOrNone(V) = None \/ Sane(w, ws, p, M, NewestOrNone(V))
  BY NewestOrNoneFacts DEF Others, Sane
<1> QED BY <1>1 DEF PythonRuns, NameAgrees, MetadataLoads

\* Where M has a good release that is offered, or no flawed one but yanked ones.
LEMMA StagesFind ==
    ASSUME NEW w, NEW ws, NEW p, NEW M, M \subseteq Versions, NEW x \in M,
           \/ \E u \in M : w.flaw[p][u] = "good" /\ Found(w, ws, p, u)
           \/ \A u \in M : w.flaw[p][u] \in {"good", "yanked"}
    PROVE  /\ MetadataLoads(w, ws, p, M, x) \in M
           /\ PythonRuns(w, ws, p, M, x) \in M
           /\ NameAgrees(w, ws, p, M, x) # None
<1>0. x # None /\ Raises # None
  BY DEF Versions, None, Raises
<1>1. CASE w.flaw[p][x] \in {"good", "yanked"}
  BY <1>0, <1>1 DEF MetadataLoads, PythonRuns, NameAgrees
<1>2. CASE w.flaw[p][x] \notin {"good", "yanked"}
  <2>1. PICK u \in M : w.flaw[p][u] = "good" /\ Found(w, ws, p, u)
    BY <1>2
  <2>2. u \in Others(w, ws, p, M, x)
    BY <1>2, <2>1 DEF Others
  <2>3. \A V : V \subseteq Others(w, ws, p, M, x) /\ u \in V =>
            NewestOrNone(V) \in M /\ NewestOrNone(V) # None
    BY NewestOrNoneFacts DEF Others
  <2>4. MetadataLoads(w, ws, p, M, x) \in M
    BY <2>1, <2>2, <2>3 DEF MetadataLoads
  <2>5. PythonRuns(w, ws, p, M, x) \in M
    BY <1>0, <2>1, <2>2, <2>3 DEF PythonRuns
  <2>6. NameAgrees(w, ws, p, M, x) # None
    BY <1>0, <2>1, <2>2, <2>3 DEF NameAgrees
  <2> QED BY <2>4, <2>5, <2>6
<1> QED BY <1>1, <1>2

\* choose_version stays in the range, and takes a yanked release only as a last resort.
LEMMA ChosenIsSane ==
    ASSUME NEW w, NEW ws, NEW p, NEW range,
           ChooseVersion(w, ws, p, range) \in Versions
    PROVE  Sane(w, ws, p, Matching(w, p, range), ChooseVersion(w, ws, p, range))
<1> DEFINE M == Matching(w, p, range)
           found == Retrieved(w, ws, p, M, NewestViable(w, p, M))
           loads == MetadataLoads(w, ws, p, M, found)
           runs == PythonRuns(w, ws, p, M, loads)
<1>1. M \subseteq Versions
  BY DEF Matching, Catalog
<1>2. None \notin Versions /\ Raises \notin Versions
  BY DEF Versions, None, Raises
<1>3. M # {} /\ ChooseVersion(w, ws, p, range) = NameAgrees(w, ws, p, M, runs)
  BY <1>2 DEF ChooseVersion
<1>4. Sane(w, ws, p, M, found)
  BY <1>1, <1>3, RetrievedIsSane
<1>5. found # None
  BY <1>1, <1>2, <1>4 DEF Sane
<1> HIDE DEF M, found
<1>6. loads = None \/ Sane(w, ws, p, M, loads)
  BY <1>1, <1>4, <1>5, StagesAreSane
<1> HIDE DEF loads
<1>7. runs = None \/ Sane(w, ws, p, M, runs)
  BY <1>1, <1>6, StagesAreSane
<1> HIDE DEF runs
<1>8. LET y == NameAgrees(w, ws, p, M, runs) IN y = None \/ y = Raises \/ Sane(w, ws, p, M, y)
  BY <1>1, <1>7, StagesAreSane
<1> QED BY <1>2, <1>3, <1>8 DEF M

\* Where there is a release without a flaw choose_version finds one.
LEMMA ChoiceIsMade ==
    ASSUME NEW w, NEW ws, NEW p, NEW range,
           NEW u \in Matching(w, p, range), w.flaw[p][u] = "good",
           IsPin(ws[p]) => \A v \in Versions : w.flaw[p][v] \in {"good", "yanked", "absent"}
    PROVE  ChooseVersion(w, ws, p, range) # None
<1> DEFINE M == Matching(w, p, range)
           found == Retrieved(w, ws, p, M, NewestViable(w, p, M))
           loads == MetadataLoads(w, ws, p, M, found)
           runs == PythonRuns(w, ws, p, M, loads)
<1>1. M \subseteq Versions /\ u \in M /\ \A v \in M : w.flaw[p][v] # "absent"
  BY DEF Matching, Catalog
<1>2. ChooseVersion(w, ws, p, range) = NameAgrees(w, ws, p, M, runs)
  BY <1>1 DEF ChooseVersion
<1>3. \/ \E v \in M : w.flaw[p][v] = "good" /\ Found(w, ws, p, v)
      \/ \A v \in M : w.flaw[p][v] \in {"good", "yanked"}
  BY <1>1 DEF Found
<1>4. found \in M
  BY <1>1, RetrievedIsSane DEF Sane
<1> HIDE DEF M, found
<1>5. loads \in M
  BY <1>1, <1>3, <1>4, StagesFind
<1> HIDE DEF loads
<1>6. runs \in M
  BY <1>1, <1>3, <1>5, StagesFind
<1>7. NameAgrees(w, ws, p, M, runs) # None
  <2> HIDE DEF runs
  <2> QED BY <1>1, <1>3, <1>6, StagesFind
<1> QED BY <1>2, <1>7 DEF M, found, loads
------------------------------------------------------------------------------------
(* Sequences, by what their members are.                                            *)

IsSeq(s) == s \in Seq(Range(s))

\* The members of s are members of one of the two sets.
LEMMA SeqOfSome == ASSUME NEW S, NEW s \in Seq(S) PROVE IsSeq(s) /\ Range(s) \subseteq S
BY SeqOfRange, RangeOfSeq DEF IsSeq

LEMMA AppendRange ==
    ASSUME NEW s, IsSeq(s), NEW e
    PROVE  IsSeq(Append(s, e)) /\ Range(Append(s, e)) \subseteq Range(s) \cup {e}
<1>1. s \in Seq(Range(s) \cup {e})
  BY SeqMonotonic DEF IsSeq
<1>2. Append(s, e) \in Seq(Range(s) \cup {e})
  BY <1>1, AppendProperties
<1> QED BY <1>2, SeqOfSome

LEMMA ConcatRange ==
    ASSUME NEW s, NEW t, IsSeq(s), IsSeq(t)
    PROVE  IsSeq(s \o t) /\ Range(s \o t) \subseteq Range(s) \cup Range(t)
<1>1. s \in Seq(Range(s) \cup Range(t)) /\ t \in Seq(Range(s) \cup Range(t))
  BY SeqMonotonic DEF IsSeq
<1>2. s \o t \in Seq(Range(s) \cup Range(t))
  BY <1>1, ConcatProperties
<1> QED BY <1>2, SeqOfSome

LEMMA PrefixRange ==
    ASSUME NEW s, IsSeq(s), NEW n \in 0..Len(s)
    PROVE  IsSeq(SubSeq(s, 1, n)) /\ Range(SubSeq(s, 1, n)) \subseteq Range(s)
<1>1. \A i \in 1..n : s[i] \in Range(s)
  <2>1. DOMAIN s = 1..Len(s) /\ Len(s) \in Nat
    BY LenProperties DEF IsSeq
  <2> QED BY <2>1 DEF Range
<1>2. n \in Int
  BY LenProperties DEF IsSeq
<1>3. SubSeq(s, 1, n) \in Seq(Range(s))
  BY <1>1, <1>2, SubSeqProperties
<1> QED BY <1>3, SeqOfSome

LEMMA FunctionRange ==
    ASSUME NEW n \in Nat, NEW f, DOMAIN f = 1..n, f = [i \in 1..n |-> f[i]]
    PROVE  IsSeq(f)
<1>1. f \in [1..n -> Range(f)]
  BY DEF Range
<1> QED BY <1>1, SeqDef DEF IsSeq

\* A sequence of the members of Q in some order.
LEMMA InOrderFacts ==
    ASSUME NEW Q, Q \subseteq Packages, NEW key, NEW f \in InOrder(Q, key)
    PROVE  /\ \E n \in Nat : DOMAIN f = 1..n
           /\ \A i \in DOMAIN f : f[i] \in Q
<1>1. IsFiniteSet(Packages)
  BY SizeAssumption, FS_Interval DEF Packages
<1>2. Cardinality(Q) \in Nat
  BY <1>1, FS_Subset, FS_CardinalityType
<1>3. f \in [1..Cardinality(Q) -> Q]
  BY DEF InOrder
<1> QED BY <1>2, <1>3

------------------------------------------------------------------------------------
(* The invariant.                                                                   *)

Nice(w) == AsksForNoExtra(w) /\ PinsAreClean(w)

\* A clause holds of every solution of w.
GoodClause(w, c) ==
    /\ Typed(c)
    /\ c.terms[ROOT] = NoTerm \/ (c.terms[ROOT].positive /\ 1 \in c.terms[ROOT].range)
    /\ c.cause = "dependency" =>
        \E p, q \in Packages, V, R \in SUBSET Universe :
            p # q /\ c = RequirementClause(p, V, q, R, "dependency")
    /\ \A S \in Solutions(w) : Admits(c, S)

Ranges == (SUBSET Universe) \cup {NoRange}

GoodEntry(w, e) ==
    /\ e.package \in Names /\ e.pos \in Ranges /\ e.neg \in Ranges
    /\ e.cause = NoClause \/ GoodClause(w, e.cause)

ClausesInv == IsSeq(clauses) /\ \A c \in Range(clauses) : GoodClause(world, c)

GoodTrail(w, tr) == IsSeq(tr) /\ \A e \in Range(tr) : GoodEntry(w, e)

SolutionInv ==
    /\ GoodTrail(world, trail)
    /\ positive \in [Names -> Ranges] /\ negative \in [Names -> Ranges]

ConflictInv == phase \in {"resolving", "failed"} => GoodClause(world, conflict)

PinsWanted(w, f) == \A q \in Packages :
    IsPin(f[q]) => \A v \in Versions : w.flaw[q][v] \in {"good", "yanked", "absent"}

\* Until the result is built.
ProviderInv == phase \in {"propagating", "resolving", "deciding"} =>
    extras = world.asked /\ PinsWanted(world, wants)

SearchInv == at \in Nat \ {0} /\ ClausesInv /\ SolutionInv /\ ConflictInv /\ ProviderInv

FailsRightly == world \in World /\ (Nice(world) => SearchInv)

------------------------------------------------------------------------------------
(* Clauses that are made.                                                           *)

LEMMA UniverseFacts ==
    /\ Versions \subseteq Universe /\ 1 \in Universe /\ Universe # {} /\ N \in Nat
    /\ ROOT \notin Packages /\ Packages \subseteq Names /\ ROOT \in Names
BY SizeAssumption DEF Versions, Universe, ROOT, Packages, Names

LEMMA SelectionFacts ==
    ASSUME NEW w, NEW S \in Solutions(w), NEW p \in Packages
    PROVE  /\ S[p] \in Versions \cup {Absent} /\ Chosen(S, p) = S[p]
           /\ S[p] # Absent => S[p] \in Versions /\ w.flaw[p][S[p]] = "good"
                               /\ S[p] \in Catalog(w, p) \cap w.limit[p]
<1>1. S \in Selections /\ AllGood(w, S) /\ \E A \in SUBSET Packages : Satisfies(w, S, A)
  BY DEF Solutions
<1>2. S[p] \in Versions \cup {Absent}
  BY <1>1 DEF Selections
<1>3. Chosen(S, p) = S[p]
  BY UniverseFacts DEF Chosen
<1> QED BY <1>1, <1>2, <1>3 DEF AllGood, Satisfies

LEMMA RequirementClauseFacts ==
    ASSUME NEW p \in Names, NEW q \in Packages, p # q, NEW V \in SUBSET Universe, NEW R \in SUBSET Universe,
           NEW cause
    PROVE  LET c == RequirementClause(p, V, q, R, cause)
           IN  /\ Typed(c) /\ c.cause = cause /\ c.order = <<p, q>>
               /\ c.terms[p] = [positive |-> TRUE, range |-> V]
               /\ c.terms[q] = [positive |-> FALSE, range |-> R]
               /\ \A n \in Names \ {p, q} : c.terms[n] = NoTerm
               /\ About(c) = {p, q}
<1> DEFINE c == RequirementClause(p, V, q, R, cause)
<1>1. /\ c.cause = cause /\ c.order = <<p, q>>
      /\ c.terms = [n \in Names |-> IF n = p THEN [positive |-> TRUE, range |-> V]
                                ELSE IF n = q THEN [positive |-> FALSE, range |-> R]
                                ELSE NoTerm]
  BY DEF RequirementClause
<1>2. q \in Names
  BY UniverseFacts
<1> HIDE DEF c
<1>3. /\ c.terms[p] = [positive |-> TRUE, range |-> V]
      /\ c.terms[q] = [positive |-> FALSE, range |-> R]
      /\ \A n \in Names \ {p, q} : c.terms[n] = NoTerm
  BY <1>1, <1>2
<1>4. [positive |-> TRUE, range |-> V] \in Term /\ [positive |-> FALSE, range |-> R] \in Term
  BY DEF Term
<1>5. Typed(c)
  BY <1>1, <1>4 DEF Typed
<1>6. About(c) = {p, q}
  BY <1>2, <1>3, <1>4, NoTermIsNone DEF About
<1> QED BY <1>1, <1>3, <1>5, <1>6 DEF c

\* A requirement that every solution meets makes a good clause.
LEMMA RequirementIsGood ==
    ASSUME NEW w, NEW p \in Packages, NEW q \in Packages, p # q,
           NEW V \in SUBSET Universe, NEW R \in SUBSET Universe,
           \A S \in Solutions(w) : S[p] \in V => S[q] \in R
    PROVE  GoodClause(w, RequirementClause(p, V, q, R, "dependency"))
<1> DEFINE c == RequirementClause(p, V, q, R, "dependency")
<1>1. /\ Typed(c) /\ About(c) = {p, q} /\ c.cause = "dependency"
      /\ c.terms[p] = [positive |-> TRUE, range |-> V]
      /\ c.terms[q] = [positive |-> FALSE, range |-> R]
      /\ c.terms[ROOT] = NoTerm
  BY RequirementClauseFacts, UniverseFacts
<1>2. ASSUME NEW S \in Solutions(w) PROVE Admits(c, S)
  <2>1. Chosen(S, p) = S[p] /\ Chosen(S, q) = S[q]
    BY SelectionFacts
  <2> HIDE DEF c
  <2> QED BY <1>1, <2>1 DEF Admits, Holds
<1>3. \E x, y \in Packages, X, Y \in SUBSET Universe :
        x # y /\ c = RequirementClause(x, X, y, Y, "dependency")
  OBVIOUS
<1> HIDE DEF c
<1>4. GoodClause(w, c)
  BY <1>1, <1>2, <1>3 DEF GoodClause
<1> QED BY <1>4 DEF c

LEMMA RootClauseIsGood ==
    ASSUME NEW w \in World, NEW q \in Roots(w)
    PROVE  GoodClause(w, RequirementClause(ROOT, {1}, q, RootRange(w, q), "root"))
<1>0. PICK V \in SUBSET Universe, R \in SUBSET Universe : V = {1} /\ R = RootRange(w, q)
  BY RootIsRequired, UniverseFacts
<1> DEFINE c == RequirementClause(ROOT, V, q, R, "root")
<1>1. q \in Packages
  BY RootIsRequired
<1>2. ROOT # q /\ ROOT \in Names
  BY <1>1, UniverseFacts
<1>3. /\ Typed(c) /\ About(c) = {ROOT, q} /\ c.cause = "root"
      /\ c.terms[ROOT] = [positive |-> TRUE, range |-> V]
      /\ c.terms[q] = [positive |-> FALSE, range |-> R]
  BY <1>1, <1>2, RequirementClauseFacts
<1>4. ASSUME NEW S \in Solutions(w) PROVE Admits(c, S)
  <2>1. Chosen(S, q) = S[q] /\ S[q] \in RootRange(w, q)
    BY <1>1, SelectionFacts, RootIsRequired
  <2> HIDE DEF c
  <2> QED BY <1>0, <1>3, <2>1 DEF Admits, Holds
<1> HIDE DEF c
<1>5. GoodClause(w, c)
  BY <1>0, <1>3, <1>4 DEF GoodClause
<1> QED BY <1>0, <1>5 DEF c

LEMMA NoVersionsIsGood ==
    ASSUME NEW w, NEW p \in Packages, NEW R \in SUBSET Universe,
           \A S \in Solutions(w) : S[p] \notin R
    PROVE  GoodClause(w, NoVersionsClause(p, R))
<1> DEFINE c == NoVersionsClause(p, R)
           t == [positive |-> TRUE, range |-> R]
<1>1. c.terms = [n \in Names |-> IF n = p THEN t ELSE NoTerm] /\ c.cause = "no_versions"
  BY DEF NoVersionsClause
<1>2. t \in Term
  BY DEF Term
<1>3. p \in Names /\ p # ROOT /\ ROOT \in Names
  BY UniverseFacts
<1> HIDE DEF c
<1>4. Typed(c)
  BY <1>1, <1>2 DEF Typed
<1>5. c.terms[p] = t /\ c.terms[ROOT] = NoTerm /\ p \in About(c)
  BY <1>1, <1>2, <1>3, NoTermIsNone DEF About
<1>6. ASSUME NEW S \in Solutions(w) PROVE Admits(c, S)
  BY <1>5, SelectionFacts DEF Admits, Holds
<1>7. GoodClause(w, c)
  BY <1>1, <1>4, <1>5, <1>6 DEF GoodClause
<1> QED BY <1>7 DEF c

LEMMA ResolvedIsGood ==
    ASSUME NEW w, NEW c, NEW d, NEW p \in Names, GoodClause(w, c), GoodClause(w, d)
    PROVE  GoodClause(w, PriorCause(c, d, p))
<1> DEFINE r == PriorCause(c, d, p)
           good(t) == t = NoTerm \/ (t.positive /\ 1 \in t.range)
<1>1. Typed(c) /\ Typed(d) /\ good(c.terms[ROOT]) /\ good(d.terms[ROOT])
  BY DEF GoodClause
<1>2. Typed(r)
  BY <1>1, PriorCauseTerms
<1>3. r.cause = "derived"
  BY DEF PriorCause
<1>4. \A S \in Solutions(w) : Admits(r, S)
  BY <1>1, PriorCauseAdmits DEF GoodClause
<1>5. ROOT \in Names
  BY UniverseFacts
<1>6. good(r.terms[ROOT])
  <2>1. CASE ROOT \notin About(c)
    <3>1. r.terms[ROOT] = d.terms[ROOT]
      BY <1>1, <1>5, <2>1, PriorCauseTerms
    <3> QED BY <1>1, <3>1
  <2>2. CASE ROOT \notin About(d)
    <3>1. r.terms[ROOT] = c.terms[ROOT]
      BY <1>1, <1>5, <2>2, PriorCauseTerms
    <3> QED BY <1>1, <3>1
  <2>3. CASE ROOT \in About(c) \cap About(d)
    <3>1. /\ c.terms[ROOT].positive /\ 1 \in c.terms[ROOT].range
          /\ d.terms[ROOT].positive /\ 1 \in d.terms[ROOT].range
      BY <1>1, <2>3 DEF About
    <3>2. good(Intersect(c.terms[ROOT], d.terms[ROOT])) /\ good(Union(c.terms[ROOT], d.terms[ROOT]))
      BY <3>1 DEF Intersect, Union
    <3>3. ROOT # p => r.terms[ROOT] = Intersect(c.terms[ROOT], d.terms[ROOT])
      BY <1>1, <2>3, PriorCauseTerms
    <3>4. ROOT = p => r.terms[ROOT] = NoTerm \/ r.terms[ROOT] = Union(c.terms[ROOT], d.terms[ROOT])
      <4>1. p \in About(c) \cap About(d) =>
               \/ r.terms[p] = NoTerm /\ IsTautology(Union(c.terms[p], d.terms[p]))
               \/ r.terms[p] = Union(c.terms[p], d.terms[p])
        BY <1>1, PriorCauseTerms
      <4> QED BY <2>3, <4>1
    <3> HIDE DEF good, r
    <3> QED BY <3>2, <3>3, <3>4 DEF good
  <2> QED BY <2>1, <2>2, <2>3
<1> HIDE DEF r
<1>7. GoodClause(w, r)
  BY <1>2, <1>3, <1>4, <1>6 DEF GoodClause
<1> QED BY <1>7 DEF r

------------------------------------------------------------------------------------
(* The trail.                                                                       *)

LEMMA RootTrailIsGood == ASSUME NEW w PROVE GoodTrail(w, RootTrail)
<1> DEFINE e == Assign(ROOT, 1, NoClause, {1}, NoRange, 1)
<1>1. GoodEntry(w, e)
  BY UniverseFacts DEF Assign, GoodEntry, Ranges
<1> HIDE DEF e
<1>2. <<e>> \in Seq({e})
  OBVIOUS
<1>3. IsSeq(<<e>>) /\ Range(<<e>>) \subseteq {e}
  BY <1>2, SeqOfSome
<1>4. GoodTrail(w, <<e>>)
  BY <1>1, <1>3 DEF GoodTrail
<1> QED BY <1>4 DEF RootTrail, e

LEMMA DownToIsGood ==
    ASSUME NEW w, NEW tr, GoodTrail(w, tr), NEW level PROVE GoodTrail(w, DownTo(tr, level))
<1> DEFINE below == {0} \cup {i \in DOMAIN tr : tr[i].level <= level}
<1>1. IsSeq(tr) /\ DOMAIN tr = 1..Len(tr) /\ Len(tr) \in Nat
  BY LenProperties DEF GoodTrail, IsSeq
<1>2. below \subseteq 0..Len(tr) /\ below # {}
  BY <1>1
<1> HIDE DEF below
<1>3. Max(below) \in 0..Len(tr)
  BY <1>1, <1>2, MaxIn
<1>4. IsSeq(SubSeq(tr, 1, Max(below))) /\ Range(SubSeq(tr, 1, Max(below))) \subseteq Range(tr)
  BY <1>1, <1>3, PrefixRange
<1>5. GoodTrail(w, SubSeq(tr, 1, Max(below)))
  BY <1>4 DEF GoodTrail
<1> QED BY <1>5 DEF DownTo, below

LEMMA RestoredIsGood ==
    ASSUME NEW w, NEW tr, GoodTrail(w, tr), RestoreFrom(tr)
    PROVE  /\ trail' = tr
           /\ positive' \in [Names -> Ranges] /\ negative' \in [Names -> Ranges]
<1> DEFINE last(p) == Max(EntriesOf(tr, p))
<1>1. DOMAIN tr = 1..Len(tr) /\ Len(tr) \in Nat
  BY LenProperties DEF GoodTrail, IsSeq
<1>2. ASSUME NEW p \in Names, EntriesOf(tr, p) # {}
      PROVE  tr[last(p)].pos \in Ranges /\ tr[last(p)].neg \in Ranges
  <2>1. EntriesOf(tr, p) \subseteq 0..Len(tr) /\ EntriesOf(tr, p) \subseteq DOMAIN tr
    BY <1>1 DEF EntriesOf
  <2>2. last(p) \in DOMAIN tr
    BY <1>1, <1>2, <2>1, MaxIn
  <2> HIDE DEF last
  <2>3. tr[last(p)] \in Range(tr)
    BY <2>2 DEF Range
  <2> QED BY <2>3 DEF GoodTrail, GoodEntry
<1>3. NoRange \in Ranges
  BY DEF Ranges
<1> HIDE DEF last
<1>4. /\ positive' = [p \in Names |-> IF EntriesOf(tr, p) # {} THEN tr[last(p)].pos ELSE NoRange]
      /\ negative' = [p \in Names |-> IF EntriesOf(tr, p) # {} THEN tr[last(p)].neg ELSE NoRange]
      /\ trail' = tr
  BY DEF RestoreFrom, last
<1> QED BY <1>2, <1>3, <1>4

\* Where every term has a satisfier the last of them is on the trail.
LEMMA SatisfierIsOnTrail ==
    ASSUME NEW tr, IsSeq(tr), NEW c, IsSatisfied(tr, c), About(c) # {}
    PROVE  Analysis(tr, c).satisfier \in Range(tr)
<1> DEFINE by == [p \in About(c) |-> Satisfier(tr, p, c.terms[p])]
<1>1. DOMAIN tr = 1..Len(tr) /\ Len(tr) \in Nat
  BY LenProperties DEF IsSeq
<1>2. ASSUME NEW p \in About(c) PROVE by[p] \in DOMAIN tr
  <2>1. Satisfiers(tr, p, c.terms[p]) # {} /\ Satisfiers(tr, p, c.terms[p]) \subseteq DOMAIN tr
    BY DEF IsSatisfied, Satisfiers, EntriesOf
  <2>2. DOMAIN tr \subseteq Nat
    BY <1>1
  <2>3. Min(Satisfiers(tr, p, c.terms[p])) \in DOMAIN tr
    BY <2>1, <2>2, MinIn
  <2> QED BY <2>3 DEF Satisfier
<1>3. Range(by) \subseteq DOMAIN tr /\ Range(by) # {}
  BY <1>2 DEF Range
<1>4. Analysis(tr, c).satisfier = tr[Max(Range(by))]
  BY DEF Analysis
<1> HIDE DEF by
<1>5. Range(by) \subseteq 0..Len(tr)
  BY <1>1, <1>3
<1>6. Max(Range(by)) \in DOMAIN tr
  BY <1>1, <1>3, <1>5, MaxIn
<1> QED BY <1>4, <1>6 DEF Range

LEMMA SatisfierIsGood ==
    ASSUME NEW w, NEW tr, GoodTrail(w, tr), NEW c, IsSatisfied(tr, c), About(c) # {}
    PROVE  GoodEntry(w, Analysis(tr, c).satisfier)
BY SatisfierIsOnTrail DEF GoodTrail

------------------------------------------------------------------------------------
(* Ranges.                                                                          *)

LEMMA EffectiveIsRange ==
    ASSUME NEW pos \in Ranges, NEW neg \in Ranges, Effective(pos, neg) # NoRange
    PROVE  Effective(pos, neg) \in SUBSET Universe
BY DEF Effective, Ranges, Full

LEMMA RangeOrFullIsRange ==
    ASSUME positive \in [Names -> Ranges], negative \in [Names -> Ranges], NEW p \in Names
    PROVE  RangeOrFull(p) \in SUBSET Universe
<1>1. positive[p] \in Ranges /\ negative[p] \in Ranges
  OBVIOUS
<1>2. RangeNow(p) # NoRange => RangeNow(p) \in SUBSET Universe
  BY <1>1, EffectiveIsRange DEF RangeNow
<1> QED BY <1>2 DEF RangeOrFull, Full

------------------------------------------------------------------------------------
(* The steps.                                                                       *)

LEMMA NextClauseIsClause ==
    ASSUME IsSeq(clauses), at \in Nat \ {0}, NextClause > 0
    PROVE  NextClause \in DOMAIN clauses /\ NextClause \in Nat /\ clauses[NextClause] \in Range(clauses)
<1> DEFINE due == {i \in at..Len(clauses) : Head(queue) \in About(clauses[i])
                                            /\ (IsConflict(clauses[i]) \/ IsUnit(clauses[i]))}
<1>1. DOMAIN clauses = 1..Len(clauses) /\ Len(clauses) \in Nat
  BY LenProperties DEF IsSeq
<1>2. NextClause = IF due = {} THEN 0 ELSE Min(due)
  BY DEF NextClause
<1>3. due \subseteq at..Len(clauses)
  OBVIOUS
<1> HIDE DEF due
<1>4. due # {} /\ NextClause = Min(due)
  BY <1>2
<1>5. due \subseteq Nat /\ due \subseteq DOMAIN clauses
  BY <1>1, <1>3
<1>6. Min(due) \in due
  BY <1>4, <1>5, MinIn
<1> QED BY <1>4, <1>5, <1>6 DEF Range

LEMMA NegateIsTerm == ASSUME NEW t \in Term PROVE Negate(t) \in Term
BY DEF Negate, Term

LEMMA DeriveKeeps ==
    ASSUME SearchInv, NextClause > 0, Derive(NextClause) PROVE SearchInv'
<1> DEFINE i == NextClause
<1>1. /\ world' = world /\ clauses' = clauses /\ phase' = phase /\ conflict' = conflict
      /\ wants' = wants /\ extras' = extras /\ at' = i + 1
  BY DEF Derive, provider
<1>2. i \in Nat /\ i \in DOMAIN clauses /\ clauses[i] \in Range(clauses)
  BY NextClauseIsClause DEF SearchInv, ClausesInv
<1>3. GoodClause(world, clauses[i])
  BY <1>2 DEF SearchInv, ClausesInv
<1> HIDE DEF i
<1>4. at' \in Nat \ {0} /\ ClausesInv' /\ ConflictInv' /\ ProviderInv'
  BY <1>1, <1>2 DEF SearchInv, ClausesInv, ConflictInv, ProviderInv
<1>5. PICK p \in Unsatisfied(clauses[i]) :
        LET t == Negate(clauses[i].terms[p])
            pos == IF ~t.positive THEN positive[p]
                   ELSE IF positive[p] = NoRange THEN t.range ELSE positive[p] \cap t.range
            neg == IF t.positive THEN negative[p]
                   ELSE IF negative[p] = NoRange THEN t.range ELSE negative[p] \cup t.range
        IN  /\ trail' = Append(trail, Assign(p, Level(trail), clauses[i], pos, neg, decided[p]))
            /\ positive' = [positive EXCEPT ![p] = pos]
            /\ negative' = [negative EXCEPT ![p] = neg]
  BY DEF Derive, i
<1> DEFINE t == Negate(clauses[i].terms[p])
           pos == IF ~t.positive THEN positive[p]
                  ELSE IF positive[p] = NoRange THEN t.range ELSE positive[p] \cap t.range
           neg == IF t.positive THEN negative[p]
                  ELSE IF negative[p] = NoRange THEN t.range ELSE negative[p] \cup t.range
           e == Assign(p, Level(trail), clauses[i], pos, neg, decided[p])
<1>6. p \in Names /\ clauses[i].terms[p] \in Term
  BY <1>3 DEF Unsatisfied, About, GoodClause, Typed
<1>7. t \in Term
  BY <1>6, NegateIsTerm
<1>8. positive[p] \in Ranges /\ negative[p] \in Ranges
  BY <1>6 DEF SearchInv, SolutionInv
<1> HIDE DEF t
<1>9. pos \in Ranges /\ neg \in Ranges
  BY <1>7, <1>8 DEF Ranges, Term
<1> HIDE DEF pos, neg
<1>10. GoodEntry(world, e)
  BY <1>3, <1>6, <1>9 DEF GoodEntry, Assign
<1>11. trail' = Append(trail, e) /\ positive' = [positive EXCEPT ![p] = pos] /\ negative' = [negative EXCEPT ![p] = neg]
  BY <1>5 DEF pos, neg, t
<1> HIDE DEF e
<1>12. GoodTrail(world, trail')
  BY <1>10, <1>11, AppendRange DEF SearchInv, SolutionInv, GoodTrail
<1>13. positive' \in [Names -> Ranges] /\ negative' \in [Names -> Ranges]
  BY <1>6, <1>9, <1>11 DEF SearchInv, SolutionInv
<1>14. SolutionInv'
  BY <1>1, <1>12, <1>13 DEF SolutionInv
<1> QED BY <1>4, <1>14 DEF SearchInv

LEMMA FindConflictKeeps ==
    ASSUME SearchInv, phase = "propagating", NextClause > 0, FindConflict(NextClause) PROVE SearchInv'
<1>1. /\ world' = world /\ clauses' = clauses /\ conflict' = clauses[NextClause] /\ at' = 1
      /\ trail' = trail /\ positive' = positive /\ negative' = negative
      /\ wants' = wants /\ extras' = extras
  BY DEF FindConflict, provider, solution
<1>2. GoodClause(world, clauses[NextClause])
  BY NextClauseIsClause DEF SearchInv, ClausesInv
<1>3. ConflictInv'
  BY <1>1, <1>2 DEF ConflictInv
<1>4. ClausesInv' /\ SolutionInv' /\ ProviderInv' /\ at' \in Nat \ {0}
  BY <1>1 DEF SearchInv, ClausesInv, SolutionInv, ProviderInv
<1> QED BY <1>3, <1>4 DEF SearchInv

LEMMA NextPackageKeeps ==
    ASSUME SearchInv, phase = "propagating", NextPackage(NextClause) PROVE SearchInv'
<1>1. /\ world' = world /\ clauses' = clauses /\ at' = 1 /\ phase' \in {"deciding", "propagating"}
      /\ trail' = trail /\ positive' = positive /\ negative' = negative
      /\ wants' = wants /\ extras' = extras
  BY DEF NextPackage, provider, solution
<1>2. ConflictInv'
  BY <1>1 DEF ConflictInv
<1>3. ClausesInv' /\ SolutionInv' /\ ProviderInv' /\ at' \in Nat \ {0}
  BY <1>1 DEF SearchInv, ClausesInv, SolutionInv, ProviderInv
<1> QED BY <1>2, <1>3 DEF SearchInv

LEMMA StopKeeps == ASSUME SearchInv, Stop PROVE SearchInv'
<1>1. /\ world' = world /\ clauses' = clauses /\ at' = at /\ phase = "resolving"
      /\ phase' \in {"stalled", "failed"} /\ conflict' = conflict
      /\ trail' = trail /\ positive' = positive /\ negative' = negative
      /\ wants' = wants /\ extras' = extras
  BY DEF Stop, provider, solution
<1>2. ConflictInv' /\ ProviderInv'
  BY <1>1 DEF ConflictInv, ProviderInv, SearchInv
<1>3. ClausesInv' /\ SolutionInv' /\ at' \in Nat \ {0}
  BY <1>1 DEF SearchInv, ClausesInv, SolutionInv
<1> QED BY <1>2, <1>3 DEF SearchInv

\* What conflict resolution derives from a conflict that is not terminal.
LEMMA DerivedIsGood ==
    ASSUME SearchInv, phase = "resolving", IsSatisfied(trail, conflict), ~IsTerminal(conflict)
    PROVE  LET a == Analysis(trail, conflict)
           IN  /\ GoodClause(world, conflict)
               /\ a.satisfier.cause # NoClause => GoodClause(world, Resolved(conflict, a))
<1> DEFINE e == Analysis(trail, conflict).satisfier
<1>1. GoodClause(world, conflict)
  BY DEF SearchInv, ConflictInv
<1>2. About(conflict) # {}
  BY DEF IsTerminal
<1>3. GoodEntry(world, e)
  BY <1>2, SatisfierIsGood DEF SearchInv, SolutionInv
<1> HIDE DEF e
<1>4. e.cause # NoClause => GoodClause(world, PriorCause(conflict, e.cause, e.package))
  BY <1>1, <1>3, ResolvedIsGood DEF GoodEntry
<1> QED BY <1>1, <1>4 DEF Resolved, e

LEMMA ResolveKeeps ==
    ASSUME SearchInv, phase = "resolving", IsSatisfied(trail, conflict), ~IsTerminal(conflict),
           NEW a, a = Analysis(trail, conflict), Resolve(a)
    PROVE  SearchInv'
<1>1. /\ world' = world /\ clauses' = clauses /\ at' = at /\ phase' = phase
      /\ conflict' = Resolved(conflict, a)
      /\ trail' = trail /\ positive' = positive /\ negative' = negative
      /\ wants' = wants /\ extras' = extras
  BY DEF Resolve, provider, solution
<1>2. a.satisfier.cause # NoClause
  BY DEF Resolve, CanBackjump
<1>3. ConflictInv'
  BY <1>1, <1>2, DerivedIsGood DEF ConflictInv
<1>4. ClausesInv' /\ SolutionInv' /\ ProviderInv' /\ at' \in Nat \ {0}
  BY <1>1 DEF SearchInv, ClausesInv, SolutionInv, ProviderInv
<1> QED BY <1>3, <1>4 DEF SearchInv

LEMMA GiveUpKeeps == ASSUME SearchInv, NEW a, GiveUp(a) PROVE SearchInv'
<1>1. /\ world' = world /\ clauses' = clauses /\ at' = at /\ phase' = "gave up"
      /\ trail' = trail /\ positive' = positive /\ negative' = negative
  BY DEF GiveUp, solution
<1>2. ConflictInv' /\ ProviderInv'
  BY <1>1 DEF ConflictInv, ProviderInv
<1>3. ClausesInv' /\ SolutionInv' /\ at' \in Nat \ {0}
  BY <1>1 DEF SearchInv, ClausesInv, SolutionInv
<1> QED BY <1>2, <1>3 DEF SearchInv

LEMMA BackjumpKeeps ==
    ASSUME SearchInv, phase = "resolving", NEW c, GoodClause(world, c), NEW a, NEW learned,
           Backjump(c, a, learned)
    PROVE  SearchInv'
<1> DEFINE jumped == DownTo(trail, Target(a))
<1>1. /\ world' = world /\ at' = at /\ phase' = "propagating"
      /\ wants' = wants /\ extras' = extras
      /\ clauses' = IF learned THEN Append(clauses, c) ELSE clauses
  BY DEF Backjump, provider
<1>2. \E again, stays, level :
        RestoreFrom(IF again THEN RootTrail ELSE IF stays THEN jumped ELSE DownTo(jumped, level))
  BY DEF Backjump
<1>3. PICK again, stays, level :
        RestoreFrom(IF again THEN RootTrail ELSE IF stays THEN jumped ELSE DownTo(jumped, level))
  BY <1>2
<1> DEFINE tr == IF again THEN RootTrail ELSE IF stays THEN jumped ELSE DownTo(jumped, level)
<1>4. GoodTrail(world, jumped)
  BY DownToIsGood DEF SearchInv, SolutionInv
<1> HIDE DEF jumped
<1>5. GoodTrail(world, tr)
  BY <1>4, DownToIsGood, RootTrailIsGood
<1>6. RestoreFrom(tr)
  BY <1>3
<1> HIDE DEF tr
<1>7. SolutionInv'
  BY <1>1, <1>5, <1>6, RestoredIsGood DEF SolutionInv
<1>8. ClausesInv'
  <2>1. IsSeq(clauses) /\ \A d \in Range(clauses) : GoodClause(world, d)
    BY DEF SearchInv, ClausesInv
  <2>2. IsSeq(clauses') /\ Range(clauses') \subseteq Range(clauses) \cup {c}
    BY <1>1, <2>1, AppendRange
  <2> QED BY <1>1, <2>1, <2>2 DEF ClausesInv
<1>9. ConflictInv' /\ ProviderInv' /\ at' \in Nat \ {0}
  BY <1>1 DEF SearchInv, ConflictInv, ProviderInv
<1> QED BY <1>7, <1>8, <1>9 DEF SearchInv

LEMMA JumpKeeps ==
    ASSUME SearchInv, phase = "resolving", IsSatisfied(trail, conflict), ~IsTerminal(conflict),
           NEW a, a = Analysis(trail, conflict), Jump(a)
    PROVE  SearchInv'
<1>1. GoodClause(world, conflict)
  BY DerivedIsGood
<1>2. CASE Forces(trail, conflict, a)
  <2>1. GoodClause(world, Resolved(conflict, a))
    BY <1>2, DerivedIsGood DEF Forces
  <2>2. \E b : Backjump(Resolved(conflict, a), b, TRUE)
    BY <1>2 DEF Jump
  <2> QED BY <2>1, <2>2, BackjumpKeeps
<1>3. CASE ~Forces(trail, conflict, a)
  <2>1. Backjump(conflict, a, derived)
    BY <1>3 DEF Jump
  <2> QED BY <1>1, <2>1, BackjumpKeeps
<1> QED BY <1>2, <1>3

LEMMA ExplainKeeps == ASSUME SearchInv, Explain PROVE SearchInv'
<1>1. phase = "resolving" /\ IsSatisfied(trail, conflict) /\ ~IsTerminal(conflict)
  BY DEF Explain
<1>2. PICK a : a = Analysis(trail, conflict) /\ (Resolve(a) \/ Jump(a) \/ GiveUp(a))
  BY DEF Explain
<1> QED BY <1>1, <1>2, ResolveKeeps, JumpKeeps, GiveUpKeeps

------------------------------------------------------------------------------------
(* Decisions.                                                                       *)

LEMMA PinsStayClean ==
    ASSUME NEW w \in World, PinsAreClean(w), NEW ws, PinsWanted(w, ws), NEW xs,
           NEW p \in Packages, NEW v \in Versions
    PROVE  PinsWanted(w, WantsAfter(w, ws, xs, p, v))
<1> DEFINE rows == FirstRow(w, xs, p, v)
           after == WantsAfter(w, ws, xs, p, v)
<1>1. SUFFICES ASSUME NEW q \in Packages, IsPin(after[q])
               PROVE  \A u \in Versions : w.flaw[q][u] \in {"good", "yanked", "absent"}
  BY DEF PinsWanted
<1>2. after[q] = IF ws[q] = NoRange /\ q \in DOMAIN rows THEN w.lines[p][v][rows[q]].spec ELSE ws[q]
  BY DEF WantsAfter
<1>3. CASE ~(ws[q] = NoRange /\ q \in DOMAIN rows)
  BY <1>1, <1>2, <1>3 DEF PinsWanted
<1>4. CASE ws[q] = NoRange /\ q \in DOMAIN rows
  <2>1. q \in Required(w, xs, p, v) /\ rows[q] = First(Rows(w, xs, p, v, q))
    BY <1>4 DEF FirstRow
  <2>2. Rows(w, xs, p, v, q) \subseteq Nat /\ Rows(w, xs, p, v, q) # {}
    <3>1. Rows(w, xs, p, v, q) \subseteq DOMAIN w.lines[p][v] /\ Rows(w, xs, p, v, q) # {}
      BY <2>1, RowsFacts
    <3>2. DOMAIN w.lines[p][v] \subseteq Nat
      BY WorldFacts
    <3> QED BY <3>1, <3>2
  <2>3. rows[q] \in Rows(w, xs, p, v, q)
    BY <2>1, <2>2, FirstIn
  <2>4. rows[q] \in DOMAIN w.lines[p][v] /\ w.lines[p][v][rows[q]].on = q
    BY <2>1, <2>3, RowsFacts
  <2>5. IsPin(w.lines[p][v][rows[q]].spec)
    BY <1>1, <1>2, <1>4
  <2> QED BY <2>4, <2>5 DEF PinsAreClean
<1> QED BY <1>3, <1>4

LEMMA ExtrasStay ==
    ASSUME NEW w, AsksForNoExtra(w), NEW xs, NEW p \in Packages, NEW v \in Versions
    PROVE  ExtrasAfter(w, xs, p, v) = xs
BY DEF ExtrasAfter, AsksForNoExtra, Applicable

\* A release is read under the extras that are on, or all of them but its own.
LEMMA UnderFacts == \A p, v, full : Under(p, v, full) \in {extras, extras \ {p}}
BY DEF Under

LEMMA DependenciesKeep ==
    ASSUME AsksForNoExtra(world), NEW p \in Packages, NEW v \in Versions, NEW full, GetDependencies(p, v, full)
    PROVE  extras' = extras /\ wants' = WantsAfter(world, wants, Under(p, v, full), p, v)
<1>1. ExtrasAfter(world, Under(p, v, full), p, v) = Under(p, v, full)
  BY ExtrasStay
<1> QED BY <1>1, UnderFacts DEF GetDependencies

LEMMA AddedAreGood ==
    ASSUME NEW w \in World, NEW xs, xs \subseteq w.asked, NEW p \in Packages, NEW v \in Versions,
           NEW cl, IsSeq(cl), \A c \in Range(cl) : GoodClause(w, c),
           NEW range, range = [q \in Required(w, xs, p, v) |-> RangeOf(w, xs, p, v, q)],
           NEW n \in Nat, NEW new, DOMAIN new = 1..n, \A k \in DOMAIN new : new[k] \in DOMAIN range
    PROVE  /\ IsSeq(AddDependencies(cl, p, v, range, new))
           /\ \A c \in Range(AddDependencies(cl, p, v, range, new)) : GoodClause(w, c)
<1> DEFINE hits(c) == {q \in DOMAIN range : MergesWith(c, p, q, range[q])}
           merged(c) == RequirementClause(p, c.terms[p].range \cup {v}, c.order[2], range[c.order[2]], "dependency")
           old == [i \in DOMAIN cl |-> IF hits(cl[i]) = {} THEN cl[i] ELSE merged(cl[i])]
           added == [k \in DOMAIN new |-> RequirementClause(p, {v}, new[k], range[new[k]], "dependency")]
<1>1. ASSUME NEW q \in DOMAIN range
      PROVE  /\ q \in Packages /\ q # p /\ range[q] \in SUBSET Universe
             /\ \A S \in Solutions(w) : S[p] = v => S[q] \in range[q]
  <2>1. q \in Required(w, xs, p, v) /\ range[q] = RangeOf(w, xs, p, v, q)
    BY <1>1
  <2>2. ASSUME NEW S \in Solutions(w), S[p] = v PROVE S[q] \in range[q]
    <3>1. S[p] \in Versions /\ q \in Required(w, xs, p, S[p])
      BY <2>1, <2>2
    <3>2. S[q] \in RangeOf(w, xs, p, S[p], q)
      BY <3>1, RangeIsRequired
    <3> QED BY <2>1, <2>2, <3>2
  <2>3. q \in Packages /\ q # p
    BY <2>1, RequiredOthers
  <2>4. range[q] \subseteq Universe
    BY <2>1, RangeIsRange
  <2> QED BY <2>2, <2>3, <2>4
<1>2. {v} \in SUBSET Universe
  BY UniverseFacts
<1>3. ASSUME NEW q \in DOMAIN range
      PROVE  GoodClause(w, RequirementClause(p, {v}, q, range[q], "dependency"))
  <2>1. PICK V \in SUBSET Universe : V = {v}
    BY <1>2
  <2>2. \A S \in Solutions(w) : S[p] \in V => S[q] \in range[q]
    BY <1>1, <1>3, <2>1
  <2>3. GoodClause(w, RequirementClause(p, V, q, range[q], "dependency"))
    BY <1>1, <1>3, <2>2, RequirementIsGood
  <2> QED BY <2>1, <2>3
<1>4. ASSUME NEW c \in Range(cl), hits(c) # {} PROVE GoodClause(w, merged(c))
  <2>1. PICK q \in DOMAIN range : MergesWith(c, p, q, range[q])
    BY <1>4
  <2>2. c.cause = "dependency" /\ c.order = <<p, q>> /\ c.terms[q].range = range[q]
    BY <2>1 DEF MergesWith
  <2>3. GoodClause(w, c)
    BY <1>4
  <2>4. PICK x, y \in Packages, V, R \in SUBSET Universe :
            x # y /\ c = RequirementClause(x, V, y, R, "dependency")
    BY <2>2, <2>3 DEF GoodClause
  <2>5. /\ c.order = <<x, y>> /\ About(c) = {x, y}
        /\ c.terms[x] = [positive |-> TRUE, range |-> V] /\ c.terms[y] = [positive |-> FALSE, range |-> R]
    BY <2>4, RequirementClauseFacts, UniverseFacts
  <2>6. x = p /\ y = q /\ R = range[q] /\ c.terms[p].range = V /\ c.order[2] = q
    BY <2>2, <2>5
  <2>7. PICK W \in SUBSET Universe : W = V \cup {v}
    BY <1>2
  <2>8. ASSUME NEW S \in Solutions(w), S[p] \in W PROVE S[q] \in range[q]
    <3>1. CASE S[p] = v
      BY <1>1, <3>1
    <3>2. CASE S[p] \in V
      <4>1. Admits(c, S)
        BY <2>3 DEF GoodClause
      <4>2. Chosen(S, p) = S[p] /\ Chosen(S, q) = S[q]
        BY <1>1, SelectionFacts
      <4> QED BY <2>5, <2>6, <3>2, <4>1, <4>2 DEF Admits, Holds
    <3> QED BY <2>7, <2>8, <3>1, <3>2
  <2>9. GoodClause(w, RequirementClause(p, W, q, range[q], "dependency"))
    BY <1>1, <2>8, RequirementIsGood
  <2> QED BY <2>6, <2>7, <2>9
<1>5. IsSeq(old) /\ \A c \in Range(old) : GoodClause(w, c)
  <2>1. DOMAIN cl = 1..Len(cl) /\ Len(cl) \in Nat
    BY LenProperties DEF IsSeq
  <2> HIDE DEF hits, merged
  <2>2. ASSUME NEW i \in DOMAIN cl PROVE GoodClause(w, old[i])
    <3>1. cl[i] \in Range(cl)
      BY DEF Range
    <3> QED BY <1>4, <3>1 DEF old
  <2>3. DOMAIN old = 1..Len(cl) /\ old = [i \in 1..Len(cl) |-> old[i]]
    BY <2>1
  <2> HIDE DEF old
  <2>4. IsSeq(old)
    BY <2>1, <2>3, FunctionRange
  <2> QED BY <2>1, <2>2, <2>3, <2>4 DEF Range
<1>6. IsSeq(added) /\ \A c \in Range(added) : GoodClause(w, c)
  <2>1. \A k \in DOMAIN new : GoodClause(w, added[k])
    BY <1>3
  <2>2. DOMAIN added = 1..n /\ added = [i \in 1..n |-> added[i]]
    OBVIOUS
  <2> HIDE DEF added
  <2>3. IsSeq(added)
    BY <2>2, FunctionRange
  <2> QED BY <2>1, <2>2, <2>3 DEF Range
<1>7. AddDependencies(cl, p, v, range, new) = old \o added
  BY DEF AddDependencies
<1> HIDE DEF old, added
<1>8. IsSeq(old \o added) /\ Range(old \o added) \subseteq Range(old) \cup Range(added)
  BY <1>5, <1>6, ConcatRange
<1> QED BY <1>5, <1>6, <1>7, <1>8

LEMMA DecideKeeps ==
    ASSUME world \in World, Nice(world), SearchInv, phase = "deciding",
           NEW p \in Packages, NEW v, Decide(p, v)
    PROVE  SearchInv'
<1> DEFINE full == ~ByName(world, wants, p, RangeOrFull(p), v)
           under == Under(p, v, full)
           required == Required(world, under, p, v)
           range == [q \in required |-> RangeOf(world, under, p, v, q)]
           known == {q \in required : \E i \in DOMAIN clauses : MergesWith(clauses[i], p, q, range[q])}
           e == Assign(p, Level(trail) + 1, NoClause, {v}, negative[p], v)
<1>1. /\ world' = world /\ at' = at /\ phase' = "propagating" /\ v \in Versions
      /\ GetDependencies(p, v, full)
      /\ trail' = Append(trail, e)
      /\ positive' = [positive EXCEPT ![p] = {v}] /\ negative' = negative
  BY DEF Decide
<1>2. PICK new \in InOrder(required \ known, FirstRow(world, under, p, v)) :
          clauses' = AddDependencies(clauses, p, v, range, new)
  BY DEF Decide
<1>3. extras = world.asked /\ PinsWanted(world, wants)
  BY DEF SearchInv, ProviderInv
<1> HIDE DEF full, under
<1>4. ProviderInv'
  <2>1. extras' = extras /\ wants' = WantsAfter(world, wants, under, p, v)
    BY <1>1, DependenciesKeep DEF Nice, under
  <2>2. PinsWanted(world, wants')
    BY <1>1, <1>3, <2>1, PinsStayClean DEF Nice
  <2> QED BY <1>1, <1>3, <2>1, <2>2 DEF ProviderInv
<1>5. p \in Names /\ {v} \in Ranges
  BY <1>1, UniverseFacts DEF Ranges
<1>6. GoodEntry(world, e)
  BY <1>5 DEF Assign, GoodEntry, SearchInv, SolutionInv
<1>7. SolutionInv'
  <2> HIDE DEF e
  <2>1. GoodTrail(world, trail')
    BY <1>1, <1>6, AppendRange DEF SearchInv, SolutionInv, GoodTrail
  <2>2. positive' \in [Names -> Ranges] /\ negative' \in [Names -> Ranges]
    BY <1>1, <1>5 DEF SearchInv, SolutionInv
  <2> QED BY <1>1, <2>1, <2>2 DEF SolutionInv
<1>8. ClausesInv'
  <2>1. required \ known \subseteq Packages
    BY <1>1, RowsFacts
  <2>2. PICK n \in Nat : DOMAIN new = 1..n /\ \A k \in DOMAIN new : new[k] \in required
    <3> HIDE DEF required, known
    <3> QED BY <1>2, <2>1, InOrderFacts
  <2>3. under \subseteq world.asked
    BY <1>3, UnderFacts DEF under
  <2>4. DOMAIN range = required /\ range = [q \in Required(world, under, p, v) |-> RangeOf(world, under, p, v, q)]
    OBVIOUS
  <2> HIDE DEF required, known, range
  <2>5. IsSeq(clauses) /\ \A c \in Range(clauses) : GoodClause(world, c)
    BY DEF SearchInv, ClausesInv
  <2>6. IsSeq(clauses') /\ \A c \in Range(clauses') : GoodClause(world, c)
    BY <1>1, <1>2, <2>2, <2>3, <2>4, <2>5, AddedAreGood DEF Nice
  <2> QED BY <1>1, <2>6 DEF ClausesInv
<1>9. ConflictInv' /\ at' \in Nat \ {0}
  BY <1>1 DEF SearchInv, ConflictInv
<1> QED BY <1>4, <1>7, <1>8, <1>9 DEF SearchInv

LEMMA RecordNoVersionsKeeps ==
    ASSUME world \in World, Nice(world), SearchInv, phase = "deciding", NEW p \in Packages,
           NEW v, v = ChooseVersion(world, wants, p, RangeOrFull(p)), RecordNoVersions(p, v)
    PROVE  SearchInv'
<1> DEFINE R == RangeOrFull(p)
<1>1. /\ world' = world /\ at' = at /\ phase' = "propagating"
      /\ wants' = wants /\ extras' = extras
      /\ trail' = trail /\ positive' = positive /\ negative' = negative
      /\ clauses' = Append(clauses, NoVersionsClause(p, R))
      /\ ChooseVersion(world, wants, p, R) = None
  BY DEF RecordNoVersions, provider, solution
<1>2. R \in SUBSET Universe
  BY RangeOrFullIsRange, UniverseFacts DEF SearchInv, SolutionInv
<1>3. PinsWanted(world, wants)
  BY DEF SearchInv, ProviderInv
<1> HIDE DEF R
<1>4. ASSUME NEW S \in Solutions(world), S[p] \in R PROVE FALSE
  <2>1. S[p] \in Versions
    BY <1>2, <1>4, SelectionFacts DEF Universe, Absent
  <2>2. S[p] \in Matching(world, p, R) /\ world.flaw[p][S[p]] = "good"
    BY <1>4, <2>1, SelectionFacts DEF Matching, Versions, Absent
  <2>3. IsPin(wants[p]) => \A u \in Versions : world.flaw[p][u] \in {"good", "yanked", "absent"}
    BY <1>3 DEF PinsWanted
  <2>4. ChooseVersion(world, wants, p, R) # None
    BY <2>2, <2>3, ChoiceIsMade
  <2> QED BY <1>1, <2>4
<1>5. GoodClause(world, NoVersionsClause(p, R))
  BY <1>2, <1>4, NoVersionsIsGood
<1>6. ClausesInv'
  <2>1. IsSeq(clauses) /\ \A c \in Range(clauses) : GoodClause(world, c)
    BY DEF SearchInv, ClausesInv
  <2>2. IsSeq(clauses') /\ Range(clauses') \subseteq Range(clauses) \cup {NoVersionsClause(p, R)}
    BY <1>1, <2>1, AppendRange
  <2> QED BY <1>1, <1>5, <2>1, <2>2 DEF ClausesInv
<1>7. SolutionInv' /\ ConflictInv' /\ ProviderInv' /\ at' \in Nat \ {0}
  BY <1>1 DEF SearchInv, SolutionInv, ConflictInv, ProviderInv
<1> QED BY <1>6, <1>7 DEF SearchInv

LEMMA ChooseKeeps ==
    ASSUME world \in World, Nice(world), SearchInv, Choose PROVE SearchInv'
<1>1. phase = "deciding"
  BY DEF Choose
<1>2. PICK p \in Undecided : \E v \in {ChooseVersion(world, wants, p, RangeOrFull(p))} :
            Decide(p, v) \/ RecordNoVersions(p, v) \/ ChoiceRaises(v)
  BY DEF Choose
<1>3. PICK v : /\ v = ChooseVersion(world, wants, p, RangeOrFull(p))
               /\ Decide(p, v) \/ RecordNoVersions(p, v) \/ ChoiceRaises(v)
  BY <1>2
<1>4. p \in Packages
  BY DEF Undecided
<1>5. CASE Decide(p, v)
  BY <1>1, <1>4, <1>5, DecideKeeps
<1>6. CASE RecordNoVersions(p, v)
  BY <1>1, <1>3, <1>4, <1>6, RecordNoVersionsKeeps
<1>7. CASE ChoiceRaises(v)
  <2>1. /\ world' = world /\ clauses' = clauses /\ at' = at /\ phase' = "raised"
        /\ trail' = trail /\ positive' = positive /\ negative' = negative
    BY <1>7 DEF ChoiceRaises, solution
  <2>2. ClausesInv' /\ SolutionInv' /\ ConflictInv' /\ ProviderInv' /\ at' \in Nat \ {0}
    BY <2>1 DEF SearchInv, ClausesInv, SolutionInv, ConflictInv, ProviderInv
  <2> QED BY <2>2 DEF SearchInv
<1> QED BY <1>3, <1>5, <1>6, <1>7

\* From here on the clauses and the trail do not change.
LEMMA BuildingKeeps ==
    ASSUME SearchInv, AllDecided \/ Visit \/ Answer PROVE SearchInv'
<1>1. /\ world' = world /\ clauses' = clauses /\ at' = at
      /\ trail' = trail /\ positive' = positive /\ negative' = negative
      /\ phase' \in {"building", "no decision", "done"}
  BY DEF AllDecided, Visit, Walk, HasNoDecision, Skip, Answer, solution
<1>2. ClausesInv' /\ SolutionInv' /\ ConflictInv' /\ ProviderInv' /\ at' \in Nat \ {0}
  BY <1>1 DEF SearchInv, ClausesInv, SolutionInv, ConflictInv, ProviderInv
<1> QED BY <1>2 DEF SearchInv

LEMMA StepKeeps == ASSUME FailsRightly, [Next]_vars PROVE FailsRightly'
<1>1. CASE UNCHANGED vars
  BY <1>1 DEF vars, provider, solution, search, FailsRightly, Nice, SearchInv, ClausesInv, SolutionInv, ConflictInv, ProviderInv
<1>2. CASE Next
  <2>1. world' = world
    <3>1. Propagate => world' = world
      BY DEF Propagate, Derive, FindConflict, NextPackage
    <3>2. \A c, a, learned : Backjump(c, a, learned) => world' = world
      BY DEF Backjump
    <3>3. Explain => world' = world
      BY <3>2 DEF Explain, Resolve, Jump, GiveUp
    <3>4. \A p, v : Decide(p, v) => world' = world
      BY DEF Decide
    <3>5. Choose => world' = world
      BY <3>4 DEF Choose, RecordNoVersions, ChoiceRaises
    <3>6. Stop \/ AllDecided \/ Visit \/ Answer \/ Ends => world' = world
      BY DEF Stop, AllDecided, Visit, Answer, Ends, vars
    <3> QED BY <1>2, <3>1, <3>3, <3>5, <3>6 DEF Next
  <2>2. ASSUME Nice(world) PROVE SearchInv'
    <3>1. world \in World /\ SearchInv
      BY <2>2 DEF FailsRightly
    <3>2. CASE Propagate
      <4>1. phase = "propagating" /\ (Derive(NextClause) \/ FindConflict(NextClause) \/ NextPackage(NextClause))
        BY <3>2 DEF Propagate
      <4>2. NextClause > 0 \/ NextPackage(NextClause)
        BY <4>1 DEF Derive, FindConflict
      <4> QED BY <3>1, <4>1, <4>2, DeriveKeeps, FindConflictKeeps, NextPackageKeeps
    <3>3. CASE Stop
      BY <3>1, <3>3, StopKeeps
    <3>4. CASE Explain
      BY <3>1, <3>4, ExplainKeeps
    <3>5. CASE Choose
      BY <2>2, <3>1, <3>5, ChooseKeeps
    <3>6. CASE AllDecided \/ Visit \/ Answer
      BY <3>1, <3>6, BuildingKeeps
    <3>7. CASE Ends
      BY <3>1, <3>7 DEF Ends, vars, provider, solution, search, SearchInv, ClausesInv, SolutionInv, ConflictInv, ProviderInv
    <3> QED BY <1>2, <3>2, <3>3, <3>4, <3>5, <3>6, <3>7 DEF Next
  <2> QED BY <2>1, <2>2 DEF FailsRightly, Nice
<1> QED BY <1>1, <1>2

------------------------------------------------------------------------------------
(* The beginning and the end.                                                       *)

LEMMA RootExtrasStay ==
    ASSUME NEW w \in World, AsksForNoExtra(w) PROVE RootExtras(w) = w.asked
<1> DEFINE V(p) == {v \in Catalog(w, p) \cap w.root[p] : w.flaw[p][v] # "yanked" \/ IsPin(w.root[p])}
           asks(p) == IF V(p) = {} \/ w.flaw[p][Newest(V(p))] = "bad" THEN {}
                      ELSE {q \in Roots(w) : \E i \in Applicable(w, w.asked, p, Newest(V(p))) :
                              LET l == w.lines[p][Newest(V(p))][i] IN l.on = q /\ l.ask}
<1>1. RootExtras(w) = w.asked \cup UNION {asks(p) : p \in Roots(w)}
  BY DEF RootExtras
<1>2. ASSUME NEW p \in Roots(w), V(p) # {} PROVE Newest(V(p)) \in Versions /\ p \in Packages
  <2>1. V(p) \subseteq Versions /\ V(p) \subseteq 0..N /\ N \in Nat
    BY SizeAssumption DEF Catalog, Versions
  <2> HIDE DEF V
  <2>2. Newest(V(p)) \in V(p)
    BY <1>2, <2>1, NewestIn
  <2> QED BY <2>1, <2>2 DEF Roots
<1> HIDE DEF V
<1>3. \A p \in Roots(w) : asks(p) = {}
  BY <1>2 DEF AsksForNoExtra, Applicable
<1> HIDE DEF asks
<1> QED BY <1>1, <1>3

LEMMA InitFailsRightly == ASSUME Init PROVE FailsRightly
<1>1. /\ world \in World /\ at = 1 /\ phase = "propagating" /\ trail = RootTrail
      /\ wants = world.root /\ extras = RootExtras(world)
      /\ positive = [p \in Names |-> IF p = ROOT THEN {1} ELSE NoRange]
      /\ negative = [p \in Names |-> NoRange]
  BY WorldsAssumption DEF Init
<1>2. ASSUME AsksForNoExtra(world), PinsAreClean(world) PROVE ProviderInv
  <2>1. extras = world.asked
    BY <1>1, <1>2, RootExtrasStay
  <2>2. ASSUME NEW q \in Packages, IsPin(wants[q])
        PROVE  \A v \in Versions : world.flaw[q][v] \in {"good", "yanked", "absent"}
    <3>1. ~IsPin(NoRange)
      BY SizeAssumption DEF IsPin, NoRange, Universe
    <3> QED BY <1>1, <1>2, <2>2, <3>1 DEF PinsAreClean
  <2> QED BY <2>1, <2>2 DEF ProviderInv, PinsWanted
<1>3. SolutionInv
  <2>1. {1} \in Ranges /\ NoRange \in Ranges
    BY UniverseFacts DEF Ranges
  <2> QED BY <1>1, <2>1, RootTrailIsGood DEF SolutionInv
<1>4. ClausesInv
  <2>1. PICK roots \in InOrder(Roots(world), [p \in Packages |-> p]) : clauses = RootClauses(world, roots)
    BY DEF Init
  <2>2. Roots(world) \subseteq Packages
    BY DEF Roots
  <2>3. PICK n \in Nat : DOMAIN roots = 1..n
    BY <2>1, <2>2, InOrderFacts
  <2>4. \A k \in DOMAIN roots : roots[k] \in Roots(world)
    BY <2>1, <2>2, InOrderFacts
  <2>5. /\ DOMAIN clauses = 1..n /\ clauses = [k \in 1..n |-> clauses[k]]
        /\ \A k \in 1..n : clauses[k] = RequirementClause(ROOT, {1}, roots[k], RootRange(world, roots[k]), "root")
    BY <2>1, <2>3 DEF RootClauses
  <2>6. IsSeq(clauses)
    BY <2>5, FunctionRange
  <2>7. \A k \in 1..n : GoodClause(world, clauses[k])
    BY <1>1, <2>3, <2>4, <2>5, RootClauseIsGood
  <2> QED BY <2>5, <2>6, <2>7 DEF ClausesInv, Range
<1>5. ConflictInv /\ at \in Nat \ {0}
  BY <1>1 DEF ConflictInv
<1> QED BY <1>1, <1>2, <1>3, <1>4, <1>5 DEF FailsRightly, Nice, SearchInv

\* Complete: when the resolver stops with the clause that says there is no solution, there is none.
\* The clause is about the root alone, and every clause it holds is met by every solution.
LEMMA FailsRightlyIsEnough == FailsRightly /\ (phase = "failed" => IsTerminal(conflict)) => Complete
<1> SUFFICES ASSUME FailsRightly, phase = "failed", IsTerminal(conflict), Nice(world),
                    NEW S \in Solutions(world)
             PROVE  FALSE
  BY DEF Complete, Nice
<1>1. GoodClause(world, conflict)
  BY DEF FailsRightly, SearchInv, ConflictInv
<1>2. PICK p \in About(conflict) : ~Holds(conflict.terms[p], Chosen(S, p))
  BY <1>1 DEF GoodClause, Admits
<1>3. p = ROOT /\ conflict.terms[ROOT] # NoTerm
  BY <1>2 DEF IsTerminal, About
<1>4. Chosen(S, p) = 1
  BY <1>3 DEF Chosen
<1> QED BY <1>1, <1>2, <1>3, <1>4 DEF GoodClause, Holds

FailsWhenTerminal == phase = "failed" => IsTerminal(conflict)

LEMMA TerminalKept == ASSUME FailsWhenTerminal, [Next]_vars PROVE FailsWhenTerminal'
<1>1. CASE UNCHANGED vars
  BY <1>1 DEF vars, search, FailsWhenTerminal, IsTerminal, About
<1>2. CASE Propagate
  BY <1>2 DEF Propagate, Derive, FindConflict, NextPackage, FailsWhenTerminal
<1>3. CASE Stop
  BY <1>3 DEF Stop, FailsWhenTerminal, IsTerminal, About
<1>4. CASE Explain
  <2>1. ASSUME NEW c, NEW a, NEW learned, Backjump(c, a, learned) PROVE FailsWhenTerminal'
    BY <2>1 DEF Backjump, FailsWhenTerminal
  <2> QED BY <1>4, <2>1 DEF Explain, Resolve, Jump, GiveUp, FailsWhenTerminal
<1>5. CASE Choose
  <2>1. ASSUME NEW p, NEW v, Decide(p, v) PROVE FailsWhenTerminal'
    BY <2>1 DEF Decide, FailsWhenTerminal
  <2> QED BY <1>5, <2>1 DEF Choose, RecordNoVersions, ChoiceRaises, FailsWhenTerminal
<1>6. CASE AllDecided \/ Visit \/ Answer
  BY <1>6 DEF AllDecided, Visit, Walk, HasNoDecision, Skip, Answer, FailsWhenTerminal
<1>7. CASE Ends
  BY <1>7 DEF Ends, vars, search, FailsWhenTerminal, IsTerminal, About
<1> QED BY <1>1, <1>2, <1>3, <1>4, <1>5, <1>6, <1>7 DEF Next

\* Resolution fails only if nothing satisfies what was asked: whatever is asked, for any number of
\* packages and versions, and whatever the limits that make it jump, restart or stop.
THEOREM FailureIsProof == Spec => []Complete
<1>1. Init => FailsWhenTerminal
  BY DEF Init, FailsWhenTerminal
<1>2. FailsRightly /\ FailsWhenTerminal => Complete
  BY FailsRightlyIsEnough DEF FailsWhenTerminal
<1> QED BY <1>1, <1>2, InitFailsRightly, StepKeeps, TerminalKept, PTL DEF Spec

------------------------------------------------------------------------------------
(* Yanked releases.                                                                 *)

DecidedInv == DOMAIN decided = Names

LEMMA DecidedKept == ASSUME DecidedInv, [Next]_vars PROVE DecidedInv'
<1>1. CASE UNCHANGED vars
  BY <1>1 DEF vars, solution, DecidedInv
<1>2. CASE Propagate
  BY <1>2 DEF Propagate, Derive, FindConflict, NextPackage, solution, DecidedInv
<1>3. CASE Stop
  BY <1>3 DEF Stop, solution, DecidedInv
<1>4. CASE Explain
  <2>1. ASSUME NEW tr, RestoreFrom(tr) PROVE DecidedInv'
    BY <2>1 DEF RestoreFrom, DecidedInv
  <2>2. ASSUME NEW c, NEW a, NEW learned, Backjump(c, a, learned) PROVE DecidedInv'
    BY <2>1, <2>2 DEF Backjump
  <2> QED BY <1>4, <2>2 DEF Explain, Resolve, Jump, GiveUp, solution, DecidedInv
<1>5. CASE Choose
  <2>1. ASSUME NEW p, NEW v, Decide(p, v) PROVE DecidedInv'
    BY <2>1 DEF Decide, DecidedInv
  <2> QED BY <1>5, <2>1 DEF Choose, RecordNoVersions, ChoiceRaises, solution, DecidedInv
<1>6. CASE AllDecided \/ Visit \/ Answer
  BY <1>6 DEF AllDecided, Visit, Answer, solution, DecidedInv
<1>7. CASE Ends
  BY <1>7 DEF Ends, vars, solution, DecidedInv
<1> QED BY <1>1, <1>2, <1>3, <1>4, <1>5, <1>6, <1>7 DEF Next

\* What a step that decides a yanked release may be.
YankedStep == phase = "deciding" /\ phase' = "propagating" =>
    \A p \in Packages : decided[p] = None /\ decided'[p] # None /\ world.flaw[p][decided'[p]] = "yanked" =>
        \/ decided'[p] \in wants[p] /\ IsPin(wants[p])
        \/ \A v \in Matching(world, p, RangeOrFull(p)) : world.flaw[p][v] = "yanked"

LEMMA OnlyPinnedOrLast == ASSUME DecidedInv, [Next]_vars PROVE YankedStep
<1>1. SUFFICES ASSUME phase = "deciding", phase' = "propagating", NEW q \in Packages,
                      decided[q] = None, decided'[q] # None, world.flaw[q][decided'[q]] = "yanked"
               PROVE  \/ decided'[q] \in wants[q] /\ IsPin(wants[q])
                      \/ \A v \in Matching(world, q, RangeOrFull(q)) : world.flaw[q][v] = "yanked"
  BY DEF YankedStep
<1>2. Choose
  BY <1>1 DEF Next, Propagate, Stop, Explain, AllDecided, Visit, Answer, Ends, Ended, vars, search
<1>3. PICK p \in Undecided : \E v \in {ChooseVersion(world, wants, p, RangeOrFull(p))} :
            Decide(p, v) \/ RecordNoVersions(p, v) \/ ChoiceRaises(v)
  BY <1>2 DEF Choose
<1>4. PICK v : /\ v = ChooseVersion(world, wants, p, RangeOrFull(p))
               /\ Decide(p, v) \/ RecordNoVersions(p, v) \/ ChoiceRaises(v)
  BY <1>3
<1>5. ~RecordNoVersions(p, v) /\ ~ChoiceRaises(v)
  BY <1>1 DEF RecordNoVersions, ChoiceRaises, solution
<1>6. v \in Versions /\ decided' = [decided EXCEPT ![p] = v]
  BY <1>4, <1>5 DEF Decide
<1>7. q = p /\ decided'[q] = v
  BY <1>1, <1>6, UniverseFacts DEF DecidedInv
<1>8. Sane(world, wants, p, Matching(world, p, RangeOrFull(p)), v)
  BY <1>4, <1>6, ChosenIsSane
<1>9. IsPin(wants[p]) => (Found(world, wants, p, v) => v \in wants[p])
  BY DEF Found
<1> QED BY <1>1, <1>7, <1>8, <1>9 DEF Sane, Found

\* A yanked release is decided only under a pin that names it, or where nothing else is left.
THEOREM YankedIsLast == Spec => YankedLastResort
<1>1. Init => DecidedInv
  BY DEF Init, DecidedInv
<1>2. DecidedInv /\ [Next]_vars => DecidedInv' /\ [YankedStep]_vars
  BY DecidedKept, OnlyPinnedOrLast
<1> QED BY <1>1, <1>2, PTL DEF Spec, YankedLastResort, YankedStep

------------------------------------------------------------------------------------
(* Priority keys.                                                                   *)

\* A key that is kept is the count it was built from, or its package is recorded as moved.
KeysInv ==
    /\ DOMAIN conflictCount = Packages
    /\ \A p \in Packages : p \in moved \/ keys[p] = None \/ keys[p] = conflictCount[p]

LEMMA ScannedKeysAreFresh ==
    ASSUME KeysInv PROVE \A p \in Packages : ScanKeys[p] = None \/ ScanKeys[p] = conflictCount[p]
BY DEF KeysInv, ScanKeys

LEMMA KeysKept == ASSUME KeysInv, [Next]_vars PROVE KeysInv'
<1>1. CASE UNCHANGED vars
  BY <1>1 DEF vars, stats, choice, KeysInv
<1>2. CASE Propagate
  BY <1>2 DEF Propagate, Derive, FindConflict, NextPackage, stats, choice, KeysInv
<1>3. CASE Stop
  BY <1>3 DEF Stop, stats, choice, KeysInv
<1>4. CASE Explain
  <2>1. ASSUME NEW c, NEW a, NEW learned, Backjump(c, a, learned) PROVE KeysInv'
    <3>1. /\ conflictCount' = [conflictCount EXCEPT ![Credited(a.satisfier)] = @ + 1]
          /\ keys' = keys \/ keys' = [p \in Packages |-> None]
          /\ moved \subseteq moved' /\ Credited(a.satisfier) \in moved'
      BY <2>1 DEF Backjump
    <3>2. \A p \in Packages : p \in moved' \/ conflictCount'[p] = conflictCount[p]
      BY <3>1 DEF KeysInv
    <3> QED BY <3>1, <3>2 DEF KeysInv
  <2> QED BY <1>4, <2>1 DEF Explain, Resolve, Jump, GiveUp, stats, choice, KeysInv
<1>5. CASE Choose
  <2>1. ASSUME NEW p, NEW v, Decide(p, v) PROVE KeysInv'
    BY <2>1, ScannedKeysAreFresh DEF Decide, stats, KeysInv
  <2>2. ASSUME NEW p, NEW v, RecordNoVersions(p, v) PROVE KeysInv'
    BY <2>2, ScannedKeysAreFresh DEF RecordNoVersions, stats, KeysInv
  <2> QED BY <1>5, <2>1, <2>2 DEF Choose, ChoiceRaises, stats, choice, KeysInv
<1>6. CASE AllDecided \/ Visit \/ Answer
  BY <1>6 DEF AllDecided, Visit, Answer, stats, choice, KeysInv
<1>7. CASE Ends
  BY <1>7 DEF Ends, vars, stats, choice, KeysInv
<1> QED BY <1>1, <1>2, <1>3, <1>4, <1>5, <1>6, <1>7 DEF Next

\* No priority key is stale when packages are compared for the next choice.
THEOREM KeysAreNotStale == Spec => []KeysAreFresh
<1>1. Init => KeysInv
  BY DEF Init, KeysInv
<1>2. KeysInv /\ [Next]_vars => KeysInv'
  BY KeysKept
<1>3. KeysInv => KeysAreFresh
  <2> SUFFICES ASSUME KeysInv, NEW p \in Undecided PROVE ScanKeys[p] = conflictCount[p]
    BY DEF KeysAreFresh
  <2> QED BY DEF KeysInv, ScanKeys, Undecided
<1> QED BY <1>1, <1>2, <1>3, PTL DEF Spec
====
