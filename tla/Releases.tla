-------------------------------- MODULE Releases --------------------------------
(* What a resolution is asked: the releases of every package, what their metadata    *)
(* requires, the requirements of the user and the constraints; and what it promises, *)
(* stated without the algorithm: the sets of releases that satisfy all of it.        *)
(*                                                                                   *)
(* A version is a number, the newest the greatest; 0 stands for a version the index  *)
(* does not have and a pin may name, N + 1 for all other such versions. A            *)
(* requirement's specifier is the set of versions it admits; one that admits a       *)
(* single version, and N + 1 does not stand for one, is a pin, ==. A package has one *)
(* extra.                                                                            *)
EXTENDS Integers, FiniteSets, Sequences

CONSTANTS
    P,          \* packages are 1..P, in the order of their names
    N           \* versions are 1..N

ASSUME SizeAssumption == P \in Nat /\ N \in Nat

Packages == 1..P
Versions == 1..N
Universe == 0..N + 1
Absent == -1    \* the package is not installed
NoRange == {-1}    \* no specifier or range: Python's None

\* "python": this interpreter does not satisfy Requires-Python. "bad": the metadata does
\* not load. "renamed": the metadata names another version. "absent": no such release.
Flaws == {"good", "yanked", "python", "bad", "renamed", "absent"}

\* One Requires-Dist: when says it holds only for the extra, ask that it asks for that of on.
Specifiers == (SUBSET Universe) \ {{}}
Line == [on: Packages, spec: Specifiers, ask: BOOLEAN, when: BOOLEAN]

World == [root: [Packages -> Specifiers \cup {NoRange}],    \* specifiers of the user
          asked: SUBSET Packages,                                \* extras the user asks for
          lines: [Packages -> [Versions -> Seq(Line)]],
          flaw: [Packages -> [Versions -> Flaws]],
          limit: [Packages -> SUBSET Versions]]                  \* constraints

IsPin(spec) == \E v \in 0..N : spec = {v}
Catalog(w, p) == {v \in Versions : w.flaw[p][v] # "absent"}

------------------------------------------------------------------------------------
(* The promise.                                                                     *)

\* S gives each package its version or Absent, A is the set of packages whose extra is on.
Satisfies(w, S, A) ==
    /\ \A p \in Packages : w.root[p] # NoRange => S[p] \in w.root[p]
    /\ w.asked \subseteq A
    /\ \A p \in Packages : S[p] # Absent =>
        /\ S[p] \in Catalog(w, p) \cap w.limit[p]
        /\ \A i \in DOMAIN w.lines[p][S[p]] :
            LET l == w.lines[p][S[p]][i]
            IN  (l.when => p \in A) =>
                    /\ S[l.on] \in l.spec
                    /\ l.ask => l.on \in A

Selections == [Packages -> Versions \cup {Absent}]

\* Only releases with no flaw.
AllGood(w, S) == \A p \in Packages : S[p] # Absent => w.flaw[p][S[p]] = "good"

Solutions(w) == {S \in Selections : AllGood(w, S) /\ \E A \in SUBSET Packages : Satisfies(w, S, A)}

\* No release asks for an extra: the extras that are on are those of the user.
AsksForNoExtra(w) == \A p \in Packages, v \in Versions :
    \A i \in DOMAIN w.lines[p][v] : ~w.lines[p][v][i].ask

\* Of a package whose extra the user asks for no release is yanked but one that is pinned.
YankedIsPinned(w) == \A p \in w.asked, v \in Versions : w.flaw[p][v] = "yanked" => w.root[p] = {v}

\* A release states each of its requirements in one line, and admits itself.
IsPlain(w) == \A p \in Packages, v \in Versions :
    /\ \A i, j \in DOMAIN w.lines[p][v] : w.lines[p][v][i].on = w.lines[p][v][j].on => i = j
    /\ \A i \in DOMAIN w.lines[p][v] : w.lines[p][v][i].on # p

\* Only packages all of whose releases can be used are pinned.
PinsAreClean(w) == \A q \in Packages :
    \/ \A v \in Versions : w.flaw[q][v] \in {"good", "yanked", "absent"}
    \/ /\ w.root[q] # NoRange => ~IsPin(w.root[q])
       /\ \A p \in Packages, v \in Versions : \A i \in DOMAIN w.lines[p][v] :
            w.lines[p][v][i].on = q => ~IsPin(w.lines[p][v][i].spec)
====
