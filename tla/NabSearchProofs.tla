------------------------------ MODULE NabSearchProofs ------------------------------
(* Proofs about the solver's trail and its search, for any number of packages and    *)
(* versions: the types; that the newest releases are selected where they will do;     *)
(* that cached ranges are what the trail adds up to; that conflict resolution always  *)
(* has a satisfier and steps left; that the answer satisfies what was asked; and that *)
(* no clause rules out what is decided.                                               *)
EXTENDS NabSolverProofs

------------------------------------------------------------------------------------
(* Sequences that are made of the members of a set.                                 *)

\* A sequence as long as Q, of different members of Q, has all of them.
LEMMA AllOfThem ==
    ASSUME NEW Q, IsFiniteSet(Q), NEW f \in [1..Cardinality(Q) -> Q],
           \A i, j \in 1..Cardinality(Q) : i # j => f[i] # f[j]
    PROVE  f \in Seq(Q) /\ Range(f) = Q /\ DOMAIN f = 1..Cardinality(Q) /\ Cardinality(Q) \in Nat
<1> DEFINE n == Cardinality(Q)
<1>1. n \in Nat
  BY FS_CardinalityType
<1>2. f \in Injection(1..n, Q)
  BY DEF Injection, IsInjective
<1>3. Cardinality(1..n) = n
  BY <1>1, FS_Interval
<1> HIDE DEF n
<1>4. f \in Surjection(1..n, Q)
  BY <1>2, <1>3, FS_Injection DEF n
<1>5. Range(f) = Q
  BY <1>4 DEF Surjection, Range
<1>6. f \in [1..n -> Q] /\ DOMAIN f = 1..n
  BY DEF n
<1>7. f \in Seq(Q)
  BY <1>1, <1>6, SeqDef
<1> QED BY <1>1, <1>5, <1>6, <1>7 DEF n

LEMMA PackagesFinite == ASSUME NEW Q, Q \subseteq Packages PROVE IsFiniteSet(Q)
<1>1. IsFiniteSet(Packages)
  BY SizeAssumption, FS_Interval DEF Packages
<1> QED BY <1>1, FS_Subset

LEMMA InOrderIsAll ==
    ASSUME NEW Q, Q \subseteq Packages, NEW key, NEW f \in InOrder(Q, key),
           \A q \in Q : key[q] \in Int
    PROVE  f \in Seq(Q) /\ Range(f) = Q
<1>1. /\ f \in [1..Cardinality(Q) -> Q]
      /\ \A i, j \in DOMAIN f : i < j => key[f[i]] < key[f[j]]
  BY DEF InOrder
<1>2. IsFiniteSet(Q) /\ Cardinality(Q) \in Nat
  BY PackagesFinite, FS_CardinalityType
<1>3. \A i, j \in 1..Cardinality(Q) : i # j => f[i] # f[j]
  <2> SUFFICES ASSUME NEW i \in 1..Cardinality(Q), NEW j \in 1..Cardinality(Q), i # j
               PROVE  f[i] # f[j]
    OBVIOUS
  <2>1. key[f[i]] \in Int /\ key[f[j]] \in Int
    BY <1>1
  <2>2. i < j \/ j < i
    BY <1>2
  <2> QED BY <1>1, <2>1, <2>2
<1> QED BY <1>1, <1>2, <1>3, AllOfThem

LEMMA SetToSeqsIsAll ==
    ASSUME NEW Q, Q \subseteq Packages, NEW f \in SetToSeqs(Q)
    PROVE  f \in Seq(Q) /\ Range(f) = Q
<1>1. /\ f \in [1..Cardinality(Q) -> Q]
      /\ \A i, j \in 1..Cardinality(Q) : i # j => f[i] # f[j]
  BY DEF SetToSeqs
<1> QED BY <1>1, PackagesFinite, AllOfThem

\* Keep leaves the members of s that are in Q.
LEMMA KeepFacts ==
    ASSUME NEW S, NEW s \in Seq(S), NEW Q
    PROVE  Keep(s, Q) \in Seq(S) /\ Range(Keep(s, Q)) = Range(s) \cap Q
<1> DEFINE I == {i \in DOMAIN s : s[i] \in Q}
           below(i) == {j \in I : j <= i}
           rank(i) == Cardinality(below(i))
           n == Cardinality(I)
           f == [i \in I |-> rank(i)]
           t == [k \in 1..n |-> s[CHOOSE i \in I : rank(i) = k]]
<1>1. DOMAIN s = 1..Len(s) /\ Len(s) \in Nat /\ \A i \in DOMAIN s : s[i] \in S
  BY LenProperties
<1>2. IsFiniteSet(I) /\ n \in Nat
  <2>1. IsFiniteSet(1..Len(s))
    BY <1>1, FS_Interval
  <2> QED BY <1>1, <2>1, FS_Subset, FS_CardinalityType
<1>3. ASSUME NEW i \in I
      PROVE  IsFiniteSet(below(i)) /\ rank(i) \in 1..n
  <2>1. below(i) \in SUBSET I /\ i \in below(i)
    BY <1>1
  <2> HIDE DEF below, I
  <2>2. IsFiniteSet(below(i)) /\ rank(i) <= n /\ rank(i) \in Nat
    BY <1>2, <2>1, FS_Subset, FS_CardinalityType
  <2>3. rank(i) # 0
    BY <2>1, <2>2, FS_EmptySet
  <2> QED BY <1>2, <2>2, <2>3
<1>4. ASSUME NEW i \in I, NEW j \in I, i < j PROVE rank(i) # rank(j)
  <2>1. below(i) \in SUBSET below(j) /\ j \in below(j) /\ j \notin below(i)
    BY <1>1, <1>4
  <2>2. IsFiniteSet(below(j))
    BY <1>3
  <2> HIDE DEF below, I
  <2> QED BY <2>1, <2>2, FS_Subset
<1>5. \A i, j \in I : i # j => rank(i) # rank(j)
  <2> SUFFICES ASSUME NEW i \in I, NEW j \in I, i # j PROVE rank(i) # rank(j)
    OBVIOUS
  <2>1. i < j \/ j < i
    BY <1>1
  <2> HIDE DEF rank, I
  <2> QED BY <1>4, <2>1
<1> HIDE DEF rank, I, n
<1>6. f \in Injection(I, 1..n)
  BY <1>3, <1>5 DEF Injection, IsInjective
<1>7. f \in Surjection(I, 1..n)
  <2>1. IsFiniteSet(1..n) /\ Cardinality(1..n) = n
    BY <1>2, FS_Interval
  <2> HIDE DEF f
  <2> QED BY <1>6, <2>1, FS_Injection DEF n
<1>8. \A k \in 1..n : \E i \in I : rank(i) = k
  BY <1>7 DEF Surjection
<1>9. \A k \in 1..n : t[k] \in Q /\ t[k] \in Range(s) /\ t[k] \in S
  <2> SUFFICES ASSUME NEW k \in 1..n PROVE t[k] \in Q /\ t[k] \in Range(s) /\ t[k] \in S
    OBVIOUS
  <2>1. PICK i \in I : t[k] = s[i]
    BY <1>8
  <2> QED BY <1>1, <2>1 DEF I, Range
<1>10. \A i \in I : s[i] \in Range(t)
  <2> SUFFICES ASSUME NEW i \in I PROVE s[i] \in Range(t)
    OBVIOUS
  <2>1. rank(i) \in 1..n
    BY <1>3
  <2>2. (CHOOSE j \in I : rank(j) = rank(i)) = i
    BY <1>5
  <2>3. t[rank(i)] = s[i]
    BY <2>1, <2>2
  <2> QED BY <2>1, <2>3 DEF Range
<1>11. DOMAIN t = 1..n
  OBVIOUS
<1>12. Keep(s, Q) = t
  BY DEF Keep, rank, I, n
<1> HIDE DEF t
<1>13. Range(t) = Range(s) \cap Q
  <2>1. \A x \in Range(s) \cap Q : x \in Range(t)
    BY <1>10 DEF Range, I
  <2>2. \A x \in Range(t) : x \in Range(s) \cap Q
    BY <1>9, <1>11 DEF Range
  <2> QED BY <2>1, <2>2
<1>14. t \in [1..n -> S]
  <2>1. t = [k \in 1..n |-> t[k]]
    BY DEF t
  <2> QED BY <1>9, <2>1
<1>15. t \in Seq(S)
  BY <1>2, <1>14, SeqDef
<1> QED BY <1>12, <1>13, <1>15

LEMMA KeepIn ==
    ASSUME NEW S, NEW s \in Seq(S), NEW Q PROVE Keep(s, Q) \in Seq(Q)
<1>1. Keep(s, Q) \in Seq(S) /\ Range(Keep(s, Q)) \subseteq Q
  BY KeepFacts
<1> QED BY <1>1, SeqOfRange, SeqMonotonic

LEMMA ConcatIn ==
    ASSUME NEW S, NEW s \in Seq(S), NEW t \in Seq(S)
    PROVE  s \o t \in Seq(S) /\ Range(s \o t) = Range(s) \cup Range(t)
BY ConcatProperties, RangeConcatenation

LEMMA AppendIn ==
    ASSUME NEW S, NEW s \in Seq(S), NEW e \in S
    PROVE  /\ Append(s, e) \in Seq(S) /\ Len(Append(s, e)) = Len(s) + 1
           /\ Range(Append(s, e)) = Range(s) \cup {e}
           /\ \A i \in 1..Len(s) : Append(s, e)[i] = s[i]
           /\ Append(s, e)[Len(s) + 1] = e
<1> DEFINE t == <<e>>
<1>1. t \in Seq(S) /\ Range(t) = {e} /\ Append(s, e) = s \o t
  BY AppendIsConcat DEF Range
<1> HIDE DEF t
<1>2. Range(s \o t) = Range(s) \cup Range(t)
  BY <1>1, ConcatIn
<1>3. Range(Append(s, e)) = Range(s) \cup {e}
  BY <1>1, <1>2
<1> QED BY <1>3, AppendProperties

LEMMA TailIn ==
    ASSUME NEW S, NEW s \in Seq(S), s # <<>>
    PROVE  /\ Head(s) \in S /\ Tail(s) \in Seq(S) /\ Range(s) = {Head(s)} \cup Range(Tail(s))
<1>1. /\ Head(s) \in S /\ Tail(s) \in Seq(S) /\ Len(Tail(s)) = Len(s) - 1
      /\ \A i \in 1..Len(Tail(s)) : Tail(s)[i] = s[i + 1]
  BY HeadTailProperties
<1>2. Len(s) \in Nat \ {0} /\ Head(s) = s[1] /\ DOMAIN s = 1..Len(s) /\ DOMAIN Tail(s) = 1..Len(Tail(s))
  BY <1>1, EmptySeq, LenProperties
<1>3. \A x \in Range(s) : x \in {Head(s)} \cup Range(Tail(s))
  <2> SUFFICES ASSUME NEW i \in 1..Len(s) PROVE s[i] \in {Head(s)} \cup Range(Tail(s))
    BY <1>2 DEF Range
  <2>1. CASE i = 1
    BY <1>2, <2>1
  <2>2. CASE i > 1
    <3>1. i - 1 \in 1..Len(Tail(s)) /\ Tail(s)[i - 1] = s[i]
      BY <1>1, <1>2, <2>2
    <3> QED BY <1>2, <3>1 DEF Range
  <2> QED BY <2>1, <2>2
<1>4. \A x \in {Head(s)} \cup Range(Tail(s)) : x \in Range(s)
  <2>1. Head(s) \in Range(s)
    BY <1>2 DEF Range
  <2>2. \A i \in 1..Len(Tail(s)) : i + 1 \in DOMAIN s
    BY <1>1, <1>2
  <2> QED BY <1>1, <1>2, <2>1, <2>2 DEF Range
<1> QED BY <1>1, <1>3, <1>4

------------------------------------------------------------------------------------
(* Types.                                                                           *)

\* order lists the packages a clause is about; a dependency is about two of them.
Shape(c) ==
    /\ c \in Clause /\ Range(c.order) = About(c)
    /\ c.cause = "dependency" => \E p, q \in Packages, V, R \in SUBSET Universe :
            p # q /\ c = RequirementClause(p, V, q, R, "dependency")

ProviderTypes ==
    /\ wants \in [Packages -> Specifiers \cup {NoRange}] /\ extras \subseteq Packages
    /\ first \in [Packages -> Versions \cup {None}] /\ reread \subseteq Packages \X Versions
    /\ read \in [Packages -> [Versions -> {"none", "bare", "full"}]]

SolutionTypes ==
    /\ trail \in Seq(Entry) /\ \A e \in Range(trail) : Shape(e.cause)
    /\ positive \in [Names -> Ranges] /\ negative \in [Names -> Ranges]
    /\ decided \in [Names -> Versions \cup {None}]

ClauseTypes == clauses \in Seq(Clause) /\ \A c \in Range(clauses) : Shape(c) /\ About(c) # {}

ConflictTypes == Shape(conflict) /\ derived \in BOOLEAN /\ steps \in Nat

\* Something is propagated while the phase says so, from the first clause on.
QueueTypes ==
    /\ phase \in Phases /\ queue \in Seq(Names) /\ at \in Nat \ {0}
    /\ phase = "propagating" => queue # <<>>
    /\ phase # "propagating" => at = 1
    /\ phase = "building" => queue \in Seq(Packages)
    /\ reached \subseteq Packages

StatsTypes ==
    /\ conflicts \in Nat /\ conflictCount \in [Packages -> Nat] /\ culpritCount \in [Packages -> Nat]
    /\ pending \in Seq(Packages) /\ targeted \in 0..MaxTargeted
    /\ threshold \in Nat /\ restarts \in 0..MaxRestarts

ChoiceTypes == keys \in [Packages -> Nat \cup {None}] /\ moved \subseteq Names

Types ==
    /\ world \in World /\ ProviderTypes /\ SolutionTypes /\ ClauseTypes /\ ConflictTypes
    /\ QueueTypes /\ StatsTypes /\ ChoiceTypes

LEMMA ClauseFacts ==
    ASSUME NEW c \in Clause
    PROVE  Typed(c) /\ c.order \in Seq(Names) /\ c.cause \in Causes
           /\ \A p \in About(c) : p \in Names /\ c.terms[p] \in Term
BY DEF Clause, Typed, About

LEMMA NoClauseShape == Shape(NoClause) /\ About(NoClause) = {}
<1>1. NoClause.terms = [p \in Names |-> NoTerm] /\ NoClause.order = <<>> /\ NoClause.cause = "none"
  BY DEF NoClause
<1>2. NoClause \in Clause
  BY DEF NoClause, Clause, Causes
<1>3. About(NoClause) = {}
  BY <1>1 DEF About
<1>4. Range(<<>>) = {}
  BY DEF Range
<1> QED BY <1>1, <1>2, <1>3, <1>4 DEF Shape

LEMMA RequirementShape ==
    ASSUME NEW p \in Names, NEW q \in Packages, p # q, NEW V \in SUBSET Universe, NEW R \in SUBSET Universe,
           NEW cause \in Causes, cause = "dependency" => p \in Packages
    PROVE  Shape(RequirementClause(p, V, q, R, cause))
<1> DEFINE c == RequirementClause(p, V, q, R, cause)
<1>1. /\ Typed(c) /\ c.cause = cause /\ c.order = <<p, q>> /\ About(c) = {p, q}
  <2>1. Typed(c)
    BY RequirementClauseFacts
  <2>2. c.cause = cause /\ c.order = <<p, q>>
    BY DEF RequirementClause
  <2>3. /\ c.terms[p] = [positive |-> TRUE, range |-> V]
        /\ c.terms[q] = [positive |-> FALSE, range |-> R]
        /\ \A n \in Names \ {p, q} : c.terms[n] = NoTerm
    BY RequirementClauseFacts
  <2>4. c.terms[p] \in Term /\ c.terms[q] \in Term /\ q \in Names
    BY <2>3, UniverseFacts DEF Term
  <2> HIDE DEF c
  <2>5. About(c) = {p, q}
    BY <2>3, <2>4, NoTermIsNone DEF About
  <2> QED BY <2>1, <2>2, <2>5
<1>2. <<p, q>> \in Seq(Names) /\ Range(<<p, q>>) = {p, q}
  <2>1. q \in Names
    BY UniverseFacts
  <2>2. <<p, q>> \in Seq(Names)
    BY <2>1
  <2>3. Range(<<p, q>>) = {p, q}
    BY DEF Range
  <2> QED BY <2>2, <2>3
<1>3. c = [terms |-> c.terms, order |-> <<p, q>>, cause |-> cause]
  BY DEF RequirementClause
<1>4. c.cause = "dependency" => \E x, y \in Packages, X, Y \in SUBSET Universe :
            x # y /\ c = RequirementClause(x, X, y, Y, "dependency")
  BY <1>1
<1> HIDE DEF c
<1>5. c \in Clause
  BY <1>1, <1>2, <1>3 DEF Clause, Typed
<1>6. Shape(c)
  BY <1>1, <1>2, <1>4, <1>5 DEF Shape
<1> QED BY <1>6 DEF c

LEMMA NoVersionsShape ==
    ASSUME NEW p \in Packages, NEW R \in SUBSET Universe
    PROVE  Shape(NoVersionsClause(p, R)) /\ About(NoVersionsClause(p, R)) = {p}
<1> DEFINE c == NoVersionsClause(p, R)
           t == [positive |-> TRUE, range |-> R]
<1>1. c.terms = [n \in Names |-> IF n = p THEN t ELSE NoTerm] /\ c.cause = "no_versions" /\ c.order = <<p>>
      /\ c = [terms |-> c.terms, order |-> <<p>>, cause |-> "no_versions"]
  BY DEF NoVersionsClause
<1>2. t \in Term /\ p \in Names
  BY UniverseFacts DEF Term
<1> HIDE DEF c
<1>3. About(c) = {p}
  BY <1>1, <1>2, NoTermIsNone DEF About
<1>4. <<p>> \in Seq(Names) /\ Range(<<p>>) = {p}
  BY <1>2 DEF Range
<1>5. c.terms \in [Names -> Term \cup {NoTerm}]
  BY <1>1, <1>2
<1>6. c \in Clause
  BY <1>1, <1>4, <1>5 DEF Clause, Causes
<1>7. Shape(c) /\ About(c) = {p}
  BY <1>1, <1>3, <1>4, <1>6 DEF Shape
<1> QED BY <1>7 DEF c

LEMMA PriorCauseShape ==
    ASSUME NEW c, NEW d, Shape(c), Shape(d), NEW p \in About(c)
    PROVE  /\ Shape(PriorCause(c, d, p))
           /\ About(PriorCause(c, d, p)) \subseteq About(c) \cup About(d)
<1> DEFINE r == PriorCause(c, d, p)
           drops == p \in About(c) \cap About(d) /\
                    IsTautology(IF p \notin About(c) THEN d.terms[p]
                                ELSE IF p \notin About(d) THEN c.terms[p]
                                ELSE IF p = p THEN Union(c.terms[p], d.terms[p])
                                ELSE Intersect(c.terms[p], d.terms[p]))
           order == Keep(c.order, Names \ {p}) \o Keep(d.order, Names \ ({p} \cup About(c)))
<1>1. Typed(c) /\ Typed(d) /\ p \in Names /\ c.terms[p] \in Term
      /\ c.order \in Seq(Names) /\ d.order \in Seq(Names)
      /\ Range(c.order) = About(c) /\ Range(d.order) = About(d)
  BY ClauseFacts DEF Shape
<1>2. Typed(r) /\ r.cause = "derived"
  BY <1>1, PriorCauseTerms DEF PriorCause
<1>3. r.order = (IF drops THEN order ELSE <<p>> \o order)
      /\ r = [terms |-> r.terms, order |-> r.order, cause |-> "derived"]
  BY DEF PriorCause
<1>4. order \in Seq(Names) /\ Range(order) = (About(c) \cup About(d)) \ {p}
  <2>1. Keep(c.order, Names \ {p}) \in Seq(Names) /\ Range(Keep(c.order, Names \ {p})) = About(c) \cap (Names \ {p})
    BY <1>1, KeepFacts
  <2>2. /\ Keep(d.order, Names \ ({p} \cup About(c))) \in Seq(Names)
        /\ Range(Keep(d.order, Names \ ({p} \cup About(c)))) = About(d) \cap (Names \ ({p} \cup About(c)))
    BY <1>1, KeepFacts
  <2> DEFINE left == Keep(c.order, Names \ {p})
             second == Keep(d.order, Names \ ({p} \cup About(c)))
  <2>3. order \in Seq(Names)
        /\ Range(order) = (About(c) \cap (Names \ {p})) \cup (About(d) \cap (Names \ ({p} \cup About(c))))
    <3> HIDE DEF left, second
    <3>1. left \o second \in Seq(Names) /\ Range(left \o second) = Range(left) \cup Range(second)
      BY <2>1, <2>2, ConcatIn DEF left, second
    <3> QED BY <2>1, <2>2, <3>1 DEF left, second
  <2>4. About(c) \subseteq Names /\ About(d) \subseteq Names
    BY DEF About
  <2> HIDE DEF order
  <2> QED BY <2>3, <2>4
<1> HIDE DEF order
<1>5. r.order \in Seq(Names) /\ Range(r.order) = IF drops THEN Range(order) ELSE {p} \cup Range(order)
  <2>1. <<p>> \in Seq(Names) /\ Range(<<p>>) = {p}
    BY <1>1 DEF Range
  <2>2. <<p>> \o order \in Seq(Names) /\ Range(<<p>> \o order) = {p} \cup Range(order)
    <3> DEFINE one == <<p>>
    <3>1. one \in Seq(Names) /\ Range(one) = {p}
      BY <2>1
    <3> HIDE DEF one
    <3>2. one \o order \in Seq(Names) /\ Range(one \o order) = {p} \cup Range(order)
      BY <1>4, <3>1, ConcatIn
    <3> QED BY <3>2 DEF one
  <2> QED BY <1>3, <1>4, <2>2
<1>6. r.terms[p] = NoTerm <=> drops
  <2>1. r.terms = [q \in Names |-> IF q = p /\ drops THEN NoTerm
                      ELSE IF q \notin About(c) THEN d.terms[q]
                      ELSE IF q \notin About(d) THEN c.terms[q]
                      ELSE IF q = p THEN Union(c.terms[q], d.terms[q])
                      ELSE Intersect(c.terms[q], d.terms[q])]
    BY DEF PriorCause
  <2> HIDE DEF r, drops
  <2>2. drops => r.terms[p] = NoTerm
    BY <1>1, <2>1
  <2>3. ~drops => r.terms[p] = IF p \notin About(d) THEN c.terms[p] ELSE Union(c.terms[p], d.terms[p])
    BY <1>1, <2>1
  <2>4. p \in About(d) => Union(c.terms[p], d.terms[p]) \in Term
    BY <1>1, UnionIsOr DEF About, Typed
  <2> QED BY <1>1, <2>2, <2>3, <2>4, NoTermIsNone
<1>7. \A q \in Names \ {p} : r.terms[q] # NoTerm <=> q \in About(c) \cup About(d)
  <2> SUFFICES ASSUME NEW q \in Names, q # p
               PROVE  r.terms[q] # NoTerm <=> q \in About(c) \cup About(d)
    OBVIOUS
  <2> HIDE DEF r
  <2>1. CASE q \notin About(c)
    <3>1. r.terms[q] = d.terms[q]
      BY <1>1, <2>1, PriorCauseTerms DEF r
    <3> QED BY <2>1, <3>1 DEF About
  <2>2. CASE q \notin About(d)
    <3>1. r.terms[q] = c.terms[q]
      BY <1>1, <2>2, PriorCauseTerms DEF r
    <3> QED BY <2>2, <3>1 DEF About
  <2>3. CASE q \in About(c) \cap About(d)
    <3>1. r.terms[q] = Intersect(c.terms[q], d.terms[q])
      BY <1>1, <2>3, PriorCauseTerms DEF r
    <3>2. c.terms[q] \in Term /\ d.terms[q] \in Term
      BY <1>1, <2>3 DEF About, Typed
    <3> QED BY <2>3, <3>1, <3>2, IntersectIsAnd, NoTermIsNone
  <2> QED BY <2>1, <2>2, <2>3
<1> HIDE DEF r, drops
<1>8. About(r) = Range(r.order)
  <2>1. About(c) \subseteq Names /\ About(d) \subseteq Names
    BY DEF About
  <2> QED BY <1>1, <1>4, <1>5, <1>6, <1>7, <2>1 DEF About
<1>9. r \in Clause
  BY <1>2, <1>3, <1>5 DEF Clause, Causes, Typed
<1>10. Shape(r)
  BY <1>2, <1>8, <1>9 DEF Shape
<1>11. About(r) \subseteq About(c) \cup About(d)
  BY <1>4, <1>5, <1>8
<1> QED BY <1>10, <1>11 DEF r

LEMMA MinFacts ==
    ASSUME NEW I, I \subseteq Nat, I # {} PROVE Min(I) \in I /\ \A i \in I : Min(I) <= i
BY LeastExists DEF Min

LEMMA MaxFacts ==
    ASSUME NEW n \in Nat, NEW I, I \subseteq 0..n, I # {} PROVE Max(I) \in I /\ \A i \in I : i <= Max(I)
<1>1. \E i \in I : \A j \in I : i >= j
  BY GreatestExists
<1>2. Max(I) \in I /\ \A j \in I : Max(I) >= j
  BY <1>1 DEF Max
<1>3. \A j \in I : j \in Int
  OBVIOUS
<1> HIDE DEF Max
<1> QED BY <1>2, <1>3

\* The satisfier that conflict resolution finds: the entry where the last of the terms became satisfied.
LastOf(tr, c, k) ==
    /\ k \in DOMAIN tr /\ tr[k].package \in About(c)
    /\ k \in Satisfiers(tr, tr[k].package, c.terms[tr[k].package])
    /\ \A j \in Satisfiers(tr, tr[k].package, c.terms[tr[k].package]) : k <= j
    /\ \A q \in About(c) : \E j \in Satisfiers(tr, q, c.terms[q]) : j <= k

LEMMA SatisfierFacts ==
    ASSUME NEW tr \in Seq(Entry), NEW p, NEW t, Satisfiers(tr, p, t) # {}
    PROVE  /\ Satisfier(tr, p, t) \in Satisfiers(tr, p, t) /\ Satisfier(tr, p, t) \in DOMAIN tr
           /\ Satisfier(tr, p, t) \in Nat /\ tr[Satisfier(tr, p, t)].package = p
           /\ \A j \in Satisfiers(tr, p, t) : Satisfier(tr, p, t) <= j
<1>1. DOMAIN tr = 1..Len(tr) /\ Len(tr) \in Nat
  BY LenProperties
<1>2. Satisfiers(tr, p, t) \subseteq Nat /\ Satisfiers(tr, p, t) \subseteq DOMAIN tr
  BY <1>1 DEF Satisfiers, EntriesOf
<1>3. \A j \in Satisfiers(tr, p, t) : tr[j].package = p
  BY DEF Satisfiers, EntriesOf
<1>4. Satisfier(tr, p, t) \in Satisfiers(tr, p, t) /\ \A j \in Satisfiers(tr, p, t) : Satisfier(tr, p, t) <= j
  BY <1>2, MinFacts DEF Satisfier
<1> QED BY <1>2, <1>3, <1>4

\* Analysis, by the place of the satisfier.
LEMMA AnalysisFacts ==
    ASSUME NEW tr \in Seq(Entry), NEW c, IsSatisfied(tr, c), About(c) # {}
    PROVE  \E k \in DOMAIN tr :
               /\ LastOf(tr, c, k) /\ Analysis(tr, c).satisfier = tr[k]
               /\ Analysis(tr, c).previous =
                    Max({1} \cup {tr[Satisfier(tr, q, c.terms[q])].level : q \in About(c) \ {tr[k].package}}
                            \cup DifferenceLevels(tr, tr[k], c.terms[tr[k].package]))
<1> DEFINE by == [p \in About(c) |-> Satisfier(tr, p, c.terms[p])]
           k == Max(Range(by))
<1>1. DOMAIN tr = 1..Len(tr) /\ Len(tr) \in Nat
  BY LenProperties
<1>2. ASSUME NEW p \in About(c)
      PROVE  /\ by[p] \in Satisfiers(tr, p, c.terms[p]) /\ by[p] \in DOMAIN tr /\ tr[by[p]].package = p
             /\ \A j \in Satisfiers(tr, p, c.terms[p]) : by[p] <= j
  BY SatisfierFacts DEF IsSatisfied
<1>3. DOMAIN by = About(c)
  OBVIOUS
<1>4. Analysis(tr, c).satisfier = tr[k] /\ Analysis(tr, c).previous =
        Max({1} \cup {tr[by[q]].level : q \in (DOMAIN by) \ {tr[k].package}}
                \cup DifferenceLevels(tr, tr[k], c.terms[tr[k].package]))
  BY DEF Analysis
<1>5. {tr[by[q]].level : q \in (DOMAIN by) \ {tr[k].package}} =
      {tr[Satisfier(tr, q, c.terms[q])].level : q \in About(c) \ {tr[k].package}}
  OBVIOUS
<1> HIDE DEF by, k
<1>6. Range(by) \subseteq 0..Len(tr) /\ Range(by) # {}
  BY <1>1, <1>2, <1>3 DEF Range
<1>7. k \in Range(by) /\ \A j \in Range(by) : j <= k
  BY <1>1, <1>6, MaxFacts DEF k
<1>8. PICK p \in About(c) : k = by[p]
  BY <1>3, <1>7 DEF Range
<1>9. k \in DOMAIN tr /\ tr[k].package = p
  BY <1>2, <1>8
<1>10. \A q \in About(c) : by[q] <= k
  BY <1>3, <1>7 DEF Range
<1>11. LastOf(tr, c, k)
  BY <1>2, <1>8, <1>9, <1>10 DEF LastOf
<1> QED BY <1>4, <1>5, <1>9, <1>11

LEMMA ShapedFacts ==
    ASSUME NEW c, Shape(c)
    PROVE  /\ c \in Clause /\ Typed(c) /\ c.order \in Seq(Names) /\ About(c) \subseteq Names
           /\ \A p \in About(c) : c.terms[p] \in Term /\ Negate(c.terms[p]) \in Term
           /\ About(c) # {} => c.order # <<>> /\ c.order[1] \in About(c)
<1>1. c \in Clause /\ Typed(c) /\ c.order \in Seq(Names) /\ About(c) = Range(c.order)
  BY ClauseFacts DEF Shape
<1>2. About(c) \subseteq Names /\ \A p \in About(c) : c.terms[p] \in Term
  BY <1>1, ClauseFacts DEF About
<1>3. \A p \in About(c) : Negate(c.terms[p]) \in Term
  BY <1>2, NegateIsTerm
<1>4. ASSUME About(c) # {} PROVE c.order # <<>> /\ c.order[1] \in About(c)
  <2>1. DOMAIN c.order = 1..Len(c.order) /\ Len(c.order) \in Nat
    BY <1>1, LenProperties
  <2>2. DOMAIN c.order # {}
    BY <1>1, <1>4 DEF Range
  <2>3. 1 \in DOMAIN c.order
    BY <2>1, <2>2
  <2> QED BY <1>1, <2>3 DEF Range
<1> QED BY <1>1, <1>2, <1>3, <1>4

\* The ranges of p after a derivation of t.
NewPos(p, t) ==
    IF ~t.positive THEN positive[p]
    ELSE IF positive[p] = NoRange THEN t.range ELSE positive[p] \cap t.range
NewNeg(p, t) ==
    IF t.positive THEN negative[p]
    ELSE IF negative[p] = NoRange THEN t.range ELSE negative[p] \cup t.range

\* What Derive does, for the one package of clause i that is not satisfied.
Derives(i, p) ==
    LET t == Negate(clauses[i].terms[p])
    IN  /\ i \in DOMAIN clauses /\ i \in Nat /\ Shape(clauses[i])
        /\ p \in About(clauses[i]) /\ p \in Names /\ t \in Term /\ Unsatisfied(clauses[i]) = {p}
        /\ Relation(p, clauses[i].terms[p]) = "undetermined"
        /\ trail' = Append(trail, Assign(p, Level(trail), clauses[i], NewPos(p, t), NewNeg(p, t), decided[p]))
        /\ positive' = [positive EXCEPT ![p] = NewPos(p, t)]
        /\ negative' = [negative EXCEPT ![p] = NewNeg(p, t)]
        /\ queue' = IF RangeNow(p) = Effective(NewPos(p, t), NewNeg(p, t)) THEN queue ELSE Enqueued(p)
        /\ moved' = moved \cup {p}

LEMMA NextClauseFacts ==
    ASSUME Types, NextClause > 0
    PROVE  /\ NextClause \in DOMAIN clauses /\ NextClause \in Nat /\ NextClause >= at
           /\ clauses[NextClause] \in Range(clauses)
           /\ Shape(clauses[NextClause])
<1>1. IsSeq(clauses) /\ at \in Nat \ {0}
  BY SeqOfSome DEF Types, ClauseTypes, QueueTypes
<1>2. NextClause \in DOMAIN clauses /\ NextClause \in Nat /\ clauses[NextClause] \in Range(clauses)
  BY <1>1, NextClauseIsClause
<1>3. Shape(clauses[NextClause])
  BY <1>2 DEF Types, ClauseTypes
<1>4. NextClause >= at
  <2> DEFINE due == {i \in at..Len(clauses) : Head(queue) \in About(clauses[i])
                                            /\ (IsConflict(clauses[i]) \/ IsUnit(clauses[i]))}
  <2>1. NextClause = Min(due) /\ due # {}
    BY <1>2 DEF NextClause
  <2>2. due \subseteq Nat /\ \A i \in due : i >= at
    BY <1>1
  <2> HIDE DEF due
  <2> QED BY <2>1, <2>2, MinFacts
<1> QED BY <1>2, <1>3, <1>4

LEMMA DeriveFacts ==
    ASSUME Types, NextClause > 0, Derive(NextClause)
    PROVE  \E p : Derives(NextClause, p)
<1> DEFINE i == NextClause
<1>1. i \in DOMAIN clauses /\ i \in Nat /\ Shape(clauses[i])
  BY NextClauseFacts
<1> HIDE DEF i
<1>2. PICK p \in Unsatisfied(clauses[i]) :
        LET t == Negate(clauses[i].terms[p])
            pos == IF ~t.positive THEN positive[p]
                   ELSE IF positive[p] = NoRange THEN t.range ELSE positive[p] \cap t.range
            neg == IF t.positive THEN negative[p]
                   ELSE IF negative[p] = NoRange THEN t.range ELSE negative[p] \cup t.range
        IN  /\ trail' = Append(trail, Assign(p, Level(trail), clauses[i], pos, neg, decided[p]))
            /\ positive' = [positive EXCEPT ![p] = pos]
            /\ negative' = [negative EXCEPT ![p] = neg]
            /\ queue' = IF RangeNow(p) = Effective(pos, neg) THEN queue ELSE Enqueued(p)
            /\ moved' = moved \cup {p}
  BY DEF Derive, i
<1>3. Unsatisfied(clauses[i]) = {p} /\ Relation(p, clauses[i].terms[p]) = "undetermined"
  <2>1. IsUnit(clauses[i])
    BY DEF Derive, i
  <2> QED BY <1>2, <2>1 DEF IsUnit
<1>4. p \in About(clauses[i])
  BY <1>2 DEF Unsatisfied
<1>5. p \in Names /\ Negate(clauses[i].terms[p]) \in Term
  BY <1>1, <1>4, ShapedFacts
<1>6. Derives(i, p)
  BY <1>1, <1>2, <1>3, <1>4, <1>5 DEF Derives, NewPos, NewNeg
<1> QED BY <1>6 DEF i

LEMMA EnqueuedFacts ==
    ASSUME queue \in Seq(Names), queue # <<>>, NEW p \in Names
    PROVE  /\ Enqueued(p) \in Seq(Names) /\ Enqueued(p) # <<>> /\ Head(Enqueued(p)) = Head(queue)
           /\ Range(Tail(Enqueued(p))) = Range(Tail(queue)) \cup {p}
<1>1. Tail(queue) \in Seq(Names)
  BY HeadTailProperties
<1>2. CASE p \in Range(Tail(queue))
  BY <1>2 DEF Enqueued
<1>3. CASE p \notin Range(Tail(queue))
  <2>1. Enqueued(p) = Append(queue, p)
    BY <1>3 DEF Enqueued
  <2>2. Append(queue, p) \in Seq(Names) /\ Append(queue, p) # <<>>
    BY AppendProperties
  <2>3. Head(Append(queue, p)) = Head(queue) /\ Tail(Append(queue, p)) = Append(Tail(queue), p)
    <3>1. /\ Head(Append(queue, p)) = IF queue = <<>> THEN p ELSE Head(queue)
          /\ Tail(Append(queue, p)) = IF queue = <<>> THEN <<>> ELSE Append(Tail(queue), p)
      BY HeadTailAppend, Zenon
    <3> QED BY <3>1
  <2>4. Range(Append(Tail(queue), p)) = Range(Tail(queue)) \cup {p}
    <3> DEFINE rest == Tail(queue)
    <3> HIDE DEF rest
    <3>1. rest \in Seq(Names)
      BY <1>1 DEF rest
    <3>2. Range(Append(rest, p)) = Range(rest) \cup {p}
      BY <3>1, AppendIn
    <3> QED BY <3>2 DEF rest
  <2> QED BY <2>1, <2>2, <2>3, <2>4
<1> QED BY <1>2, <1>3

LEMMA LevelIsNat == ASSUME NEW tr \in Seq(Entry) PROVE Level(tr) \in Nat
<1>1. CASE tr = <<>>
  BY <1>1 DEF Level
<1>2. CASE tr # <<>>
  <2>1. Len(tr) \in Nat \ {0}
    BY <1>2, EmptySeq
  <2>2. tr[Len(tr)] \in Entry
    BY <2>1, ElementOfSeq
  <2> QED BY <1>2, <2>2 DEF Level, Entry
<1> QED BY <1>1, <1>2

\* A trail of entries whose causes are clauses.
TrailTypes(tr) == tr \in Seq(Entry) /\ \A e \in Range(tr) : Shape(e.cause)

LEMMA AssignIsEntry ==
    ASSUME NEW p \in Names, NEW level \in Nat, NEW c, Shape(c), NEW pos \in Ranges, NEW neg \in Ranges,
           NEW v \in Versions \cup {None}
    PROVE  LET e == Assign(p, level, c, pos, neg, v)
           IN  /\ e \in Entry /\ e.package = p /\ e.level = level /\ e.cause = c /\ e.pos = pos
               /\ e.neg = neg /\ e.decision = v
<1>1. c \in Clause
  BY DEF Shape
<1> QED BY <1>1 DEF Assign, Entry, Ranges

LEMMA EntryFacts ==
    ASSUME NEW tr, TrailTypes(tr)
    PROVE  /\ DOMAIN tr = 1..Len(tr) /\ Len(tr) \in Nat
           /\ \A i \in DOMAIN tr :
                /\ tr[i] \in Entry /\ tr[i] \in Range(tr) /\ Shape(tr[i].cause)
                /\ tr[i].package \in Names /\ tr[i].level \in Nat /\ tr[i].pos \in Ranges
                /\ tr[i].neg \in Ranges /\ tr[i].decision \in Versions \cup {None}
<1>1. DOMAIN tr = 1..Len(tr) /\ Len(tr) \in Nat
  BY LenProperties DEF TrailTypes
<1>2. ASSUME NEW i \in DOMAIN tr PROVE tr[i] \in Entry /\ tr[i] \in Range(tr) /\ Shape(tr[i].cause)
  <2>1. tr[i] \in Range(tr)
    BY DEF Range
  <2>2. tr[i] \in Entry
    BY <1>1, ElementOfSeq DEF TrailTypes
  <2> QED BY <2>1, <2>2 DEF TrailTypes
<1>3. ASSUME NEW i \in DOMAIN tr
      PROVE  /\ tr[i].package \in Names /\ tr[i].level \in Nat /\ tr[i].pos \in Ranges
             /\ tr[i].neg \in Ranges /\ tr[i].decision \in Versions \cup {None}
  BY <1>2 DEF Entry, Ranges
<1> QED BY <1>1, <1>2, <1>3

LEMMA LongerTrail ==
    ASSUME NEW tr, TrailTypes(tr), NEW e \in Entry, Shape(e.cause)
    PROVE  /\ TrailTypes(Append(tr, e)) /\ Len(Append(tr, e)) = Len(tr) + 1
           /\ \A i \in 1..Len(tr) : Append(tr, e)[i] = tr[i]
           /\ Append(tr, e)[Len(tr) + 1] = e
<1>1. /\ Append(tr, e) \in Seq(Entry) /\ Len(Append(tr, e)) = Len(tr) + 1
      /\ Range(Append(tr, e)) = Range(tr) \cup {e}
      /\ \A i \in 1..Len(tr) : Append(tr, e)[i] = tr[i]
      /\ Append(tr, e)[Len(tr) + 1] = e
  BY AppendIn DEF TrailTypes
<1> QED BY <1>1 DEF TrailTypes

LEMMA ShorterTrail ==
    ASSUME NEW tr, TrailTypes(tr), NEW m \in 0..Len(tr)
    PROVE  /\ TrailTypes(SubSeq(tr, 1, m)) /\ Len(SubSeq(tr, 1, m)) = m
           /\ \A i \in 1..m : SubSeq(tr, 1, m)[i] = tr[i]
<1>1. DOMAIN tr = 1..Len(tr) /\ Len(tr) \in Nat /\ \A i \in 1..Len(tr) : tr[i] \in Entry
  BY EntryFacts
<1>2. m \in Int /\ 1 \in Int /\ \A i \in 1..m : tr[i] \in Entry
  BY <1>1
<1>3. /\ SubSeq(tr, 1, m) \in Seq(Entry)
      /\ Len(SubSeq(tr, 1, m)) = IF 1 <= m THEN m - 1 + 1 ELSE 0
      /\ \A i \in 1..m - 1 + 1 : SubSeq(tr, 1, m)[i] = tr[1 + i - 1]
  BY <1>2, SubSeqProperties
<1>4. Len(SubSeq(tr, 1, m)) = m /\ \A i \in 1..m : SubSeq(tr, 1, m)[i] = tr[i]
  BY <1>1, <1>3
<1>5. IsSeq(tr)
  BY SeqOfSome DEF TrailTypes
<1>6. Range(SubSeq(tr, 1, m)) \subseteq Range(tr)
  BY <1>5, PrefixRange
<1> QED BY <1>3, <1>4, <1>6 DEF TrailTypes

\* DownTo leaves the entries up to the last one that is not above the level.
LEMMA DownToFacts ==
    ASSUME NEW tr, TrailTypes(tr), NEW level
    PROVE  \E m \in 0..Len(tr) :
               /\ DownTo(tr, level) = SubSeq(tr, 1, m)
               /\ m # 0 => tr[m].level <= level
               /\ \A i \in DOMAIN tr : tr[i].level <= level => i <= m
<1> DEFINE below == {0} \cup {i \in DOMAIN tr : tr[i].level <= level}
           m == Max(below)
<1>1. DOMAIN tr = 1..Len(tr) /\ Len(tr) \in Nat
  BY EntryFacts
<1>2. below \subseteq 0..Len(tr) /\ below # {}
  BY <1>1
<1>3. DownTo(tr, level) = SubSeq(tr, 1, m)
  BY DEF DownTo
<1>4. m \in below /\ \A i \in below : i <= m
  <2> HIDE DEF below
  <2> QED BY <1>1, <1>2, MaxFacts
<1> HIDE DEF m
<1> QED BY <1>2, <1>3, <1>4

\* The last entry of a package.
LEMMA LastEntry ==
    ASSUME NEW tr, TrailTypes(tr), NEW p, EntriesOf(tr, p) # {}
    PROVE  /\ Max(EntriesOf(tr, p)) \in EntriesOf(tr, p) /\ Max(EntriesOf(tr, p)) \in DOMAIN tr
           /\ \A i \in EntriesOf(tr, p) : i <= Max(EntriesOf(tr, p))
<1>1. DOMAIN tr = 1..Len(tr) /\ Len(tr) \in Nat
  BY EntryFacts
<1>2. EntriesOf(tr, p) \subseteq 0..Len(tr) /\ EntriesOf(tr, p) \subseteq DOMAIN tr
  BY <1>1 DEF EntriesOf
<1>3. Max(EntriesOf(tr, p)) \in EntriesOf(tr, p) /\ \A i \in EntriesOf(tr, p) : i <= Max(EntriesOf(tr, p))
  BY <1>1, <1>2, MaxFacts
<1> QED BY <1>2, <1>3

LEMMA RestoredTypes ==
    ASSUME NEW tr, TrailTypes(tr), RestoreFrom(tr) PROVE SolutionTypes'
<1> DEFINE last(p) == Max(EntriesOf(tr, p))
           known(p) == EntriesOf(tr, p) # {}
<1>1. /\ trail' = tr
      /\ positive' = [p \in Names |-> IF known(p) THEN tr[last(p)].pos ELSE NoRange]
      /\ negative' = [p \in Names |-> IF known(p) THEN tr[last(p)].neg ELSE NoRange]
      /\ decided' = [p \in Names |-> IF known(p) THEN tr[last(p)].decision ELSE None]
  BY DEF RestoreFrom
<1>2. ASSUME NEW p \in Names, known(p)
      PROVE  tr[last(p)].pos \in Ranges /\ tr[last(p)].neg \in Ranges /\ tr[last(p)].decision \in Versions \cup {None}
  <2>1. last(p) \in DOMAIN tr
    BY <1>2, LastEntry
  <2> QED BY <2>1, EntryFacts
<1>3. NoRange \in Ranges
  BY DEF Ranges
<1> HIDE DEF last, known
<1> QED BY <1>1, <1>2, <1>3 DEF SolutionTypes, TrailTypes

LEMMA RootTrailTypes ==
    /\ TrailTypes(RootTrail) /\ Len(RootTrail) = 1
    /\ RootTrail[1] = Assign(ROOT, 1, NoClause, {1}, NoRange, 1)
<1> DEFINE e == Assign(ROOT, 1, NoClause, {1}, NoRange, 1)
<1>1. e \in Entry /\ e.cause = NoClause
  <2>1. {1} \in Ranges /\ NoRange \in Ranges /\ 1 \in Versions \cup {None} /\ ROOT \in Names
    BY UniverseFacts, VersionAssumption DEF Ranges, Versions
  <2> QED BY <2>1, NoClauseShape, AssignIsEntry
<1> HIDE DEF e
<1>2. <<e>> \in Seq(Entry) /\ Range(<<e>>) = {e} /\ Len(<<e>>) = 1 /\ <<e>>[1] = e
  BY <1>1 DEF Range
<1>3. RootTrail = <<e>>
  BY DEF RootTrail, e
<1> QED BY <1>1, <1>2, <1>3, NoClauseShape DEF TrailTypes, e

LEMMA DependencyFacts ==
    ASSUME NEW c, Shape(c), c.cause = "dependency"
    PROVE  c.order[1] \in Packages
<1>1. PICK p, q \in Packages, V, R \in SUBSET Universe :
            p # q /\ c = RequirementClause(p, V, q, R, "dependency")
  BY DEF Shape
<1>2. c.order = <<p, q>>
  BY <1>1 DEF RequirementClause
<1> QED BY <1>2

LEMMA CreditedFacts ==
    ASSUME NEW e \in Entry, Shape(e.cause) PROVE Credited(e) \in Names
BY DependencyFacts, UniverseFacts DEF Credited, Entry

\* What Blamed lists are packages of the clause and of the satisfier's cause.
LEMMA BlamedFacts ==
    ASSUME NEW c, Shape(c), NEW e \in Entry, Shape(e.cause)
    PROVE  Blamed(c, e) \in Seq(Packages)
<1> DEFINE also == IF Len(c.order) = 1 /\ e.cause # NoClause THEN e.cause.order ELSE <<>>
           others == Packages \ {e.package}
<1>1. c.order \in Seq(Names) /\ e.cause.order \in Seq(Names) /\ <<>> \in Seq(Names)
  BY ShapedFacts
<1>2. also \in Seq(Names)
  BY <1>1
<1>3. Blamed(c, e) = Keep(c.order, others) \o Keep(also, others \ Range(c.order))
  BY DEF Blamed
<1> HIDE DEF also
<1>4. Keep(c.order, others) \in Seq(others) /\ Keep(also, others \ Range(c.order)) \in Seq(others \ Range(c.order))
  BY <1>1, <1>2, KeepIn
<1> DEFINE left == Keep(c.order, others)
           second == Keep(also, others \ Range(c.order))
<1>5. left \in Seq(Packages) /\ second \in Seq(Packages)
  BY <1>4, SeqMonotonic
<1> HIDE DEF left, second
<1>6. left \o second \in Seq(Packages)
  BY <1>5, ConcatIn
<1> QED BY <1>3, <1>6 DEF left, second

LEMMA PendingFacts ==
    ASSUME pending \in Seq(Packages), NEW blamed \in Seq(Packages), NEW count
    PROVE  PendingWith(blamed, count) \in Seq(Packages)
<1> DEFINE Q == {p \in Packages \ Range(pending) :
                    count[p] >= CulpritThreshold /\ count[p] % CulpritThreshold = 0}
<1>1. Keep(blamed, Q) \in Seq(Packages)
  <2> HIDE DEF Q
  <2> QED BY KeepFacts
<1>2. PendingWith(blamed, count) = pending \o Keep(blamed, Q)
  BY DEF PendingWith
<1> HIDE DEF Q
<1> QED BY <1>1, <1>2, ConcatIn

\* The parts of Backjump, by name.
QueuedAt(c, a) == PendingWith(Blamed(c, a.satisfier), BlamedCount(Blamed(c, a.satisfier)))
JumpedTo(a) == DownTo(trail, Target(a))
LevelsAt(c, a) ==
    IF QueuedAt(c, a) # <<>> /\ conflicts >= MinConflicts /\ targeted < MaxTargeted
    THEN JumpLevels(JumpedTo(a), QueuedAt(c, a)) ELSE {}
KeptAt(c, a) ==
    IF LevelsAt(c, a) = {} THEN JumpedTo(a) ELSE DownTo(JumpedTo(a), Min(LevelsAt(c, a)))
TriggersAt(c, a) == Keep(QueuedAt(c, a), {p \in Packages : BeforeLevel(JumpedTo(a), p) = Min(LevelsAt(c, a))})
CreditedAt(a) == [conflictCount EXCEPT ![Credited(a.satisfier)] = @ + 1]

LEMMA BackjumpParts ==
    ASSUME NEW c, NEW a, NEW learned, Backjump(c, a, learned)
    PROVE  /\ Target(a) > 0
           /\ (learned => clauses' = Append(clauses, c)) /\ (~learned => clauses' = clauses)
           /\ conflictCount' = CreditedAt(a) /\ culpritCount' = BlamedCount(Blamed(c, a.satisfier))
           /\ RestoreFrom(IF RestartDue(CreditedAt(a)) THEN RootTrail ELSE KeptAt(c, a))
           /\ pending' \in {<<>>, QueuedAt(c, a)}
           /\ targeted' \in {0, targeted} \/ (targeted' = targeted + 1 /\ targeted < MaxTargeted)
           /\ RestartDue(CreditedAt(a)) => restarts' = restarts - 1
           /\ ~RestartDue(CreditedAt(a)) => restarts' = restarts
           /\ threshold' \in {threshold, 2 * threshold}
           /\ keys' \in {keys, [p \in Packages |-> None]}
           /\ queue' = <<IF RestartDue(CreditedAt(a)) THEN ROOT
                         ELSE IF LevelsAt(c, a) = {} THEN c.order[1] ELSE TriggersAt(c, a)[1]>>
           /\ phase' = "propagating"
           /\ conflict' = NoClause /\ derived' = FALSE /\ steps' = 0
           /\ UNCHANGED <<world, provider, conflicts, at, reached>>
<1>1. /\ Target(a) > 0
      /\ (learned => clauses' = Append(clauses, c)) /\ (~learned => clauses' = clauses)
      /\ conflictCount' = CreditedAt(a) /\ culpritCount' = BlamedCount(Blamed(c, a.satisfier))
  BY DEF Backjump, CreditedAt
<1>2. RestoreFrom(IF RestartDue(CreditedAt(a)) THEN RootTrail ELSE KeptAt(c, a))
  BY DEF Backjump, QueuedAt, JumpedTo, LevelsAt, KeptAt, CreditedAt
<1>3. pending' \in {<<>>, QueuedAt(c, a)}
  BY DEF Backjump, QueuedAt, CreditedAt
<1>4. targeted' \in {0, targeted} \/ (targeted' = targeted + 1 /\ targeted < MaxTargeted)
  <2> DEFINE again == RestartDue(CreditedAt(a))
             levels == LevelsAt(c, a)
  <2>1. targeted' = IF again THEN 0 ELSE IF levels = {} THEN targeted ELSE targeted + 1
    BY DEF Backjump, QueuedAt, JumpedTo, LevelsAt, CreditedAt
  <2>2. levels # {} => targeted < MaxTargeted
    BY DEF LevelsAt
  <2> HIDE DEF again, levels
  <2>3. CASE again
    BY <2>1, <2>3
  <2>4. CASE ~again /\ levels = {}
    BY <2>1, <2>4
  <2>5. CASE ~again /\ levels # {}
    BY <2>1, <2>2, <2>5
  <2> QED BY <2>3, <2>4, <2>5
<1>5. /\ RestartDue(CreditedAt(a)) => restarts' = restarts - 1
      /\ ~RestartDue(CreditedAt(a)) => restarts' = restarts
      /\ threshold' \in {threshold, 2 * threshold}
      /\ keys' \in {keys, [p \in Packages |-> None]}
  BY DEF Backjump, CreditedAt
<1>6. queue' = <<IF RestartDue(CreditedAt(a)) THEN ROOT
                 ELSE IF LevelsAt(c, a) = {} THEN c.order[1] ELSE TriggersAt(c, a)[1]>>
  BY DEF Backjump, QueuedAt, JumpedTo, LevelsAt, TriggersAt, CreditedAt
<1>7. /\ phase' = "propagating"
      /\ conflict' = NoClause /\ derived' = FALSE /\ steps' = 0
      /\ UNCHANGED <<world, provider, conflicts, at, reached>>
  BY DEF Backjump
<1> QED BY <1>1, <1>2, <1>3, <1>4, <1>5, <1>6, <1>7

LEMMA BackjumpMoves ==
    ASSUME NEW c, NEW a, NEW learned, Backjump(c, a, learned)
    PROVE  LET kept == KeptAt(c, a)
           IN  moved' = moved \cup {trail[i].package : i \in Len(kept) + 1..Len(trail)}
                              \cup {Credited(a.satisfier)} \cup Range(Blamed(c, a.satisfier))
BY DEF Backjump, QueuedAt, JumpedTo, LevelsAt, KeptAt, TriggersAt, CreditedAt

\* What a backjump leaves of the trail is a beginning of it.
LEMMA KeptFacts ==
    ASSUME NEW c, NEW a, TrailTypes(trail)
    PROVE  \E m \in 0..Len(trail) : KeptAt(c, a) = SubSeq(trail, 1, m)
<1>1. PICK n \in 0..Len(trail) : JumpedTo(a) = SubSeq(trail, 1, n)
  BY DownToFacts DEF JumpedTo
<1>2. Len(trail) \in Nat
  BY EntryFacts
<1>3. TrailTypes(JumpedTo(a)) /\ Len(JumpedTo(a)) = n /\ \A i \in 1..n : JumpedTo(a)[i] = trail[i]
  BY <1>1, ShorterTrail
<1>4. CASE LevelsAt(c, a) = {}
  BY <1>1, <1>4 DEF KeptAt
<1>5. CASE LevelsAt(c, a) # {}
  <2>1. KeptAt(c, a) = DownTo(JumpedTo(a), Min(LevelsAt(c, a)))
    BY <1>5 DEF KeptAt
  <2>2. PICK m \in 0..n : KeptAt(c, a) = SubSeq(JumpedTo(a), 1, m)
    BY <1>3, <2>1, DownToFacts
  <2>3. m \in 0..Len(trail)
    BY <1>2
  <2>4. /\ TrailTypes(SubSeq(JumpedTo(a), 1, m)) /\ Len(SubSeq(JumpedTo(a), 1, m)) = m
        /\ \A i \in 1..m : SubSeq(JumpedTo(a), 1, m)[i] = JumpedTo(a)[i]
    BY <1>3, ShorterTrail
  <2>5. /\ TrailTypes(SubSeq(trail, 1, m)) /\ Len(SubSeq(trail, 1, m)) = m
        /\ \A i \in 1..m : SubSeq(trail, 1, m)[i] = trail[i]
    BY <2>3, ShorterTrail
  <2>6. \A i \in 1..m : JumpedTo(a)[i] = trail[i]
    BY <1>2, <1>3
  <2>7. SubSeq(JumpedTo(a), 1, m) = SubSeq(trail, 1, m)
    <3> DEFINE s == SubSeq(JumpedTo(a), 1, m)
               t == SubSeq(trail, 1, m)
    <3>1. s \in Seq(Entry) /\ t \in Seq(Entry) /\ Len(s) = Len(t) /\ \A i \in 1..Len(s) : s[i] = t[i]
      BY <2>4, <2>5, <2>6 DEF TrailTypes
    <3> HIDE DEF s, t
    <3>2. s = t
      BY <3>1, SeqEqual
    <3> QED BY <3>2 DEF s, t
  <2> QED BY <2>2, <2>3, <2>7
<1> QED BY <1>4, <1>5

LEMMA TypesParts ==
    ASSUME Types
    PROVE  /\ world \in World /\ ProviderTypes /\ SolutionTypes /\ ClauseTypes /\ ConflictTypes
           /\ QueueTypes /\ StatsTypes /\ ChoiceTypes /\ TrailTypes(trail)
BY DEF Types, SolutionTypes, TrailTypes

\* The package a targeted jump starts from is one of those that are due.
LEMMA TriggerFacts ==
    ASSUME NEW c, NEW a, QueuedAt(c, a) \in Seq(Packages), LevelsAt(c, a) # {}
    PROVE  /\ Len(TriggersAt(c, a)) >= 1 /\ TriggersAt(c, a)[1] \in Packages
           /\ BeforeLevel(JumpedTo(a), TriggersAt(c, a)[1]) = Min(LevelsAt(c, a))
           /\ Min(LevelsAt(c, a)) \in 1..(Level(JumpedTo(a)) - 1)
<1> DEFINE levels == LevelsAt(c, a)
           q == QueuedAt(c, a)
           before(p) == BeforeLevel(JumpedTo(a), p)
           due == {p \in Packages : before(p) = Min(levels)}
           s == TriggersAt(c, a)
<1>1. levels = {before(p) : p \in Range(q)} \cap 1..(Level(JumpedTo(a)) - 1)
  BY DEF LevelsAt, JumpLevels
<1>2. s = Keep(q, due)
  BY DEF TriggersAt
<1> HIDE DEF levels, before
<1>3. Min(levels) \in levels
  <2>1. levels \subseteq Nat
    BY <1>1
  <2>2. levels # {}
    BY DEF levels
  <2> QED BY <2>1, <2>2, MinFacts
<1>4. PICK p \in Range(q) : before(p) = Min(levels)
  BY <1>1, <1>3
<1>5. Range(q) \subseteq Packages
  BY RangeOfSeq
<1> HIDE DEF q
<1>6. p \in due
  BY <1>4, <1>5
<1> HIDE DEF due, s
<1>7. s \in Seq(Packages) /\ Range(s) = Range(q) \cap due
  BY <1>2, KeepFacts DEF q
<1>8. p \in Range(s)
  BY <1>4, <1>6, <1>7
<1>9. DOMAIN s = 1..Len(s) /\ Len(s) \in Nat /\ DOMAIN s # {}
  BY <1>7, <1>8, LenProperties DEF Range
<1>10. Len(s) >= 1 /\ 1 \in DOMAIN s /\ s[1] \in Range(s)
  BY <1>9 DEF Range
<1>11. s[1] \in due /\ s[1] \in Packages
  BY <1>7, <1>10, RangeOfSeq
<1> QED BY <1>1, <1>3, <1>10, <1>11 DEF s, due, levels, before

LEMMA BackjumpTypes ==
    ASSUME Types, phase = "resolving", NEW c, Shape(c), About(c) # {}, NEW a, a.satisfier \in Range(trail),
           NEW learned, Backjump(c, a, learned)
    PROVE  Types'
<1> DEFINE e == a.satisfier
           again == RestartDue(CreditedAt(a))
           blamed == Blamed(c, e)
           tr == IF again THEN RootTrail ELSE KeptAt(c, a)
<1>1. TrailTypes(trail) /\ e \in Entry /\ Shape(e.cause)
  <2>1. TrailTypes(trail)
    BY TypesParts
  <2>2. trail \in Seq(Entry) /\ Shape(e.cause)
    BY <2>1 DEF TrailTypes
  <2> QED BY <2>1, <2>2, RangeOfSeq
<1> HIDE DEF e
<1>2. blamed \in Seq(Packages)
  BY <1>1, BlamedFacts
<1>3. QueuedAt(c, a) \in Seq(Packages)
  BY <1>2, TypesParts, PendingFacts DEF QueuedAt, StatsTypes, e
<1>4. world' = world /\ UNCHANGED provider /\ conflicts' = conflicts /\ at' = at /\ reached' = reached
      /\ phase' = "propagating" /\ conflict' = NoClause /\ derived' = FALSE /\ steps' = 0
  BY BackjumpParts
<1>5. SolutionTypes'
  <2>1. PICK m \in 0..Len(trail) : KeptAt(c, a) = SubSeq(trail, 1, m)
    BY <1>1, KeptFacts
  <2>2. TrailTypes(KeptAt(c, a))
    BY <1>1, <2>1, ShorterTrail
  <2>3. TrailTypes(tr)
    BY <2>2, RootTrailTypes
  <2>4. RestoreFrom(tr)
    BY BackjumpParts
  <2> HIDE DEF tr
  <2> QED BY <2>3, <2>4, RestoredTypes
<1>6. ClauseTypes'
  <2>1. clauses' = Append(clauses, c) \/ clauses' = clauses
    BY BackjumpParts
  <2>2. clauses \in Seq(Clause) /\ c \in Clause /\ \A d \in Range(clauses) : Shape(d) /\ About(d) # {}
    BY TypesParts DEF ClauseTypes, Shape
  <2>3. Append(clauses, c) \in Seq(Clause) /\ Range(Append(clauses, c)) = Range(clauses) \cup {c}
    BY <2>2, AppendIn
  <2> QED BY <2>1, <2>2, <2>3 DEF ClauseTypes
<1>7. ConflictTypes'
  BY <1>4, NoClauseShape DEF ConflictTypes
<1>8. QueueTypes'
  <2>1. at' = 1 /\ reached' \subseteq Packages
    BY <1>4, TypesParts DEF QueueTypes
  <2> DEFINE x == IF again THEN ROOT ELSE IF LevelsAt(c, a) = {} THEN c.order[1] ELSE TriggersAt(c, a)[1]
  <2>2. x \in Names
    <3>1. c.order[1] \in Names
      BY ShapedFacts
    <3>2. LevelsAt(c, a) # {} => TriggersAt(c, a)[1] \in Names
      BY <1>3, TriggerFacts, UniverseFacts
    <3> QED BY <3>1, <3>2, UniverseFacts
  <2>3. queue' = <<x>>
    BY BackjumpParts, Zenon
  <2> HIDE DEF x
  <2>4. queue' \in Seq(Names) /\ queue' # <<>>
    BY <2>2, <2>3
  <2> QED BY <1>4, <2>1, <2>4 DEF QueueTypes, Phases, Ended
<1>9. StatsTypes'
  <2>1. StatsTypes
    BY TypesParts
  <2>2. /\ conflictCount' = CreditedAt(a) /\ culpritCount' = BlamedCount(blamed)
        /\ pending' \in {<<>>, QueuedAt(c, a)}
        /\ targeted' \in {0, targeted} \/ (targeted' = targeted + 1 /\ targeted < MaxTargeted)
        /\ again => restarts' = restarts - 1
        /\ ~again => restarts' = restarts
        /\ threshold' \in {threshold, 2 * threshold}
    <3>1. conflictCount' = CreditedAt(a) /\ culpritCount' = BlamedCount(blamed)
      BY BackjumpParts DEF e
    <3>2. pending' \in {<<>>, QueuedAt(c, a)} /\ threshold' \in {threshold, 2 * threshold}
      BY BackjumpParts
    <3>3. targeted' \in {0, targeted} \/ (targeted' = targeted + 1 /\ targeted < MaxTargeted)
      BY BackjumpParts
    <3>4. (again => restarts' = restarts - 1) /\ (~again => restarts' = restarts)
      BY BackjumpParts
    <3> QED BY <3>1, <3>2, <3>3, <3>4
  <2>3. conflictCount' \in [Packages -> Nat]
    <3> DEFINE x == Credited(a.satisfier)
    <3>1. conflictCount' = [conflictCount EXCEPT ![x] = @ + 1]
      BY <2>2 DEF CreditedAt
    <3>2. conflictCount \in [Packages -> Nat]
      BY <2>1 DEF StatsTypes
    <3> HIDE DEF x
    <3>3. CASE x \in Packages
      <4>1. conflictCount[x] + 1 \in Nat
        BY <3>2, <3>3
      <4> QED BY <3>1, <3>2, <4>1
    <3>4. CASE x \notin Packages
      BY <3>1, <3>2, <3>4
    <3> QED BY <3>3, <3>4
  <2>4. culpritCount' \in [Packages -> Nat]
    BY <2>1, <2>2 DEF BlamedCount, StatsTypes
  <2>5. pending' \in Seq(Packages)
    <3>1. <<>> \in Seq(Packages)
      OBVIOUS
    <3> QED BY <1>3, <2>2, <3>1
  <2>6. targeted' \in 0..MaxTargeted
    BY <2>1, <2>2, LimitsAssumption DEF StatsTypes
  <2>7. restarts' \in 0..MaxRestarts
    <3>1. again => restarts > 0
      BY DEF RestartDue
    <3>2. restarts \in 0..MaxRestarts /\ MaxRestarts \in Nat
      BY <2>1, LimitsAssumption DEF StatsTypes
    <3> HIDE DEF again
    <3>3. CASE again
      BY <2>2, <3>1, <3>2, <3>3
    <3>4. CASE ~again
      BY <2>2, <3>2, <3>4
    <3> QED BY <3>3, <3>4
  <2>8. threshold' \in Nat
    <3>1. threshold \in Nat /\ threshold' \in {threshold, 2 * threshold}
      BY <2>1, <2>2 DEF StatsTypes
    <3> QED BY <3>1
  <2>9. conflicts' \in Nat
    BY <1>4, <2>1 DEF StatsTypes
  <2> QED BY <2>3, <2>4, <2>5, <2>6, <2>7, <2>8, <2>9 DEF StatsTypes
<1>10. ChoiceTypes'
  <2>1. keys' \in [Packages -> Nat \cup {None}]
    <3>1. keys' \in {keys, [p \in Packages |-> None]}
      BY BackjumpParts
    <3>2. keys \in [Packages -> Nat \cup {None}]
      BY TypesParts DEF ChoiceTypes
    <3> QED BY <3>1, <3>2
  <2> DEFINE kept == KeptAt(c, a)
             gone == {trail[i].package : i \in Len(kept) + 1..Len(trail)}
  <2>2. moved' = moved \cup gone \cup {Credited(e)} \cup Range(blamed)
    BY BackjumpMoves DEF e
  <2>3. gone \subseteq Names
    <3>1. PICK m \in 0..Len(trail) : kept = SubSeq(trail, 1, m)
      BY <1>1, KeptFacts
    <3>2. Len(kept) = m /\ Len(trail) \in Nat
      BY <1>1, <3>1, ShorterTrail, EntryFacts
    <3>3. \A i \in Len(kept) + 1..Len(trail) : i \in DOMAIN trail
      BY <1>1, <3>2, EntryFacts
    <3> QED BY <1>1, <3>3, EntryFacts
  <2>4. Credited(e) \in Names
    BY <1>1, CreditedFacts
  <2>5. Range(blamed) \subseteq Names
    BY <1>2, RangeOfSeq, UniverseFacts
  <2>6. moved \subseteq Names
    BY TypesParts DEF ChoiceTypes
  <2> HIDE DEF gone, blamed
  <2> QED BY <2>1, <2>2, <2>3, <2>4, <2>5, <2>6 DEF ChoiceTypes
<1>11. world' \in World /\ ProviderTypes'
  BY <1>4, TypesParts DEF ProviderTypes, provider
<1> QED BY <1>5, <1>6, <1>7, <1>8, <1>9, <1>10, <1>11 DEF Types

\* A clause that conflict resolution works on: the trail satisfies it, and it is not about ROOT alone.
Explained(c) == Shape(c) /\ ~IsTerminal(c) /\ About(c) # {} /\ IsSatisfied(trail, c)

LEMMA ExplainedFacts ==
    ASSUME Types, NEW c, Explained(c)
    PROVE  \E k \in DOMAIN trail :
               /\ LastOf(trail, c, k) /\ Analysis(trail, c).satisfier = trail[k]
               /\ trail[k] \in Range(trail) /\ trail[k].package \in About(c)
               /\ Shape(trail[k].cause)
               /\ Analysis(trail, c).previous =
                    Max({1} \cup {trail[Satisfier(trail, q, c.terms[q])].level : q \in About(c) \ {trail[k].package}}
                            \cup DifferenceLevels(trail, trail[k], c.terms[trail[k].package]))
<1>1. TrailTypes(trail) /\ trail \in Seq(Entry)
  BY TypesParts DEF TrailTypes
<1>2. IsSatisfied(trail, c) /\ About(c) # {}
  BY DEF Explained
<1>3. PICK k \in DOMAIN trail :
               /\ LastOf(trail, c, k) /\ Analysis(trail, c).satisfier = trail[k]
               /\ Analysis(trail, c).previous =
                    Max({1} \cup {trail[Satisfier(trail, q, c.terms[q])].level : q \in About(c) \ {trail[k].package}}
                            \cup DifferenceLevels(trail, trail[k], c.terms[trail[k].package]))
  BY <1>1, <1>2, AnalysisFacts
<1>4. trail[k].package \in About(c)
  BY <1>3 DEF LastOf
<1>5. trail[k] \in Range(trail) /\ Shape(trail[k].cause)
  BY <1>1, EntryFacts
<1> QED BY <1>3, <1>4, <1>5

\* What Explain does: it resolves the conflict further, gives up, or jumps from a clause it has explained.
LEMMA ExplainCases ==
    ASSUME Types, Explain
    PROVE  /\ phase = "resolving" /\ steps > 0 /\ Explained(conflict)
           /\ \/ Resolve(Analysis(trail, conflict))
              \/ GiveUp(Analysis(trail, conflict))
              \/ \E c, learned : /\ Explained(c) /\ CanBackjump(Analysis(trail, c))
                                 /\ c = conflict \/ (/\ c = Resolved(conflict, Analysis(trail, conflict))
                                                     /\ Analysis(trail, conflict).satisfier.cause # NoClause
                                                     /\ learned)
                                 /\ learned => derived \/ c # conflict
                                 /\ Backjump(c, Analysis(trail, c), learned)
<1> DEFINE a == Analysis(trail, conflict)
           r == Resolved(conflict, a)
<1>1. /\ phase = "resolving" /\ steps > 0 /\ ~IsTerminal(conflict) /\ IsSatisfied(trail, conflict)
      /\ Resolve(a) \/ Jump(a) \/ GiveUp(a)
  BY DEF Explain
<1>2. Explained(conflict)
  BY <1>1, TypesParts DEF Explained, ConflictTypes, IsTerminal
<1>3. ASSUME Jump(a)
      PROVE  \E c, learned : /\ Explained(c) /\ CanBackjump(Analysis(trail, c))
                             /\ c = conflict \/ (c = r /\ a.satisfier.cause # NoClause /\ learned)
                             /\ learned => derived \/ c # conflict
                             /\ Backjump(c, Analysis(trail, c), learned)
  <2>1. CASE ~Forces(trail, conflict, a)
    <3>1. CanBackjump(a) /\ Backjump(conflict, a, derived)
      BY <1>3, <2>1 DEF Jump
    <3> QED BY <1>2, <3>1
  <2>2. CASE Forces(trail, conflict, a)
    <3>1. /\ a.satisfier.cause # NoClause /\ Cardinality(About(conflict)) = 1
          /\ Cardinality(About(r)) >= 2 /\ CanBackjump(Analysis(trail, r))
      BY <2>2 DEF Forces
    <3>2. IsSatisfied(trail, r) /\ Backjump(r, Analysis(trail, r), TRUE)
      BY <1>3, <2>2 DEF Jump
    <3>3. PICK k \in DOMAIN trail : a.satisfier = trail[k] /\ trail[k].package \in About(conflict) /\ Shape(trail[k].cause)
      BY <1>2, ExplainedFacts
    <3>4. Shape(conflict)
      BY <1>2 DEF Explained
    <3>5. Shape(r)
      BY <3>3, <3>4, PriorCauseShape DEF Resolved
    <3> HIDE DEF r, a
    <3>6. ~(About(r) \subseteq {ROOT})
      <4>1. IsFiniteSet({ROOT}) /\ Cardinality({ROOT}) = 1
        BY FS_Singleton
      <4> HIDE DEF ROOT
      <4>2. About(r) \subseteq {ROOT} => Cardinality(About(r)) <= Cardinality({ROOT})
        BY <4>1, FS_Subset
      <4>3. About(r) \subseteq {ROOT} => Cardinality(About(r)) \in Nat
        BY <4>1, FS_Subset, FS_CardinalityType
      <4> QED BY <3>1, <4>1, <4>2, <4>3
    <3>7. About(r) # {} /\ ~IsTerminal(r)
      BY <3>6 DEF IsTerminal
    <3>8. Explained(r)
      BY <3>2, <3>5, <3>7 DEF Explained
    <3>9. r # conflict
      BY <3>1
    <3> QED BY <3>1, <3>2, <3>8, <3>9
  <2> QED BY <2>1, <2>2
<1> QED BY <1>1, <1>2, <1>3

LEMMA DeriveTypes ==
    ASSUME Types, phase = "propagating", NextClause > 0, Derive(NextClause) PROVE Types'
<1>1. PICK p : Derives(NextClause, p)
  BY DeriveFacts
<1> DEFINE i == NextClause
           t == Negate(clauses[i].terms[p])
           e == Assign(p, Level(trail), clauses[i], NewPos(p, t), NewNeg(p, t), decided[p])
<1>2. /\ i \in Nat /\ Shape(clauses[i]) /\ p \in Names /\ t \in Term
      /\ trail' = Append(trail, e)
      /\ positive' = [positive EXCEPT ![p] = NewPos(p, t)]
      /\ negative' = [negative EXCEPT ![p] = NewNeg(p, t)]
      /\ queue' \in {queue, Enqueued(p)}
      /\ moved' = moved \cup {p}
  BY <1>1 DEF Derives
<1>3. /\ at' = i + 1 /\ i > 0
      /\ UNCHANGED <<world, wants, extras, first, reread, read, decided, phase, clauses, conflict, derived, steps, reached,
                     stats, keys>>
  BY DEF Derive, provider
<1> HIDE DEF i, t
<1>4. /\ positive \in [Names -> Ranges] /\ negative \in [Names -> Ranges]
      /\ decided \in [Names -> Versions \cup {None}] /\ TrailTypes(trail) /\ trail \in Seq(Entry)
  BY TypesParts DEF SolutionTypes
<1>5. NewPos(p, t) \in Ranges /\ NewNeg(p, t) \in Ranges
  <2>1. positive[p] \in Ranges /\ negative[p] \in Ranges /\ t.range \in SUBSET Universe
    BY <1>2, <1>4 DEF Term
  <2> QED BY <2>1 DEF NewPos, NewNeg, Ranges
<1>6. e \in Entry /\ e.cause = clauses[i]
  <2>1. decided[p] \in Versions \cup {None} /\ Level(trail) \in Nat
    BY <1>2, <1>4, LevelIsNat
  <2> QED BY <1>2, <1>5, <2>1, AssignIsEntry
<1> HIDE DEF e
<1>7. SolutionTypes'
  <2>1. TrailTypes(trail')
    BY <1>2, <1>4, <1>6, LongerTrail
  <2>2. decided' \in [Names -> Versions \cup {None}]
    BY <1>3, <1>4
  <2>3. positive' \in [Names -> Ranges] /\ negative' \in [Names -> Ranges]
    BY <1>2, <1>4, <1>5
  <2> QED BY <2>1, <2>2, <2>3 DEF SolutionTypes, TrailTypes
<1>8. QueueTypes'
  <2>1. queue \in Seq(Names) /\ queue # <<>> /\ reached \subseteq Packages
    BY TypesParts DEF QueueTypes
  <2>2. queue' \in Seq(Names) /\ queue' # <<>>
    BY <1>2, <2>1, EnqueuedFacts
  <2> QED BY <1>2, <1>3, <2>1, <2>2 DEF QueueTypes, Phases
<1>9. ChoiceTypes'
  BY <1>2, <1>3, TypesParts DEF ChoiceTypes
<1>10. world' \in World /\ ProviderTypes' /\ ClauseTypes' /\ ConflictTypes' /\ StatsTypes'
  BY <1>3, TypesParts DEF ProviderTypes, ClauseTypes, ConflictTypes, StatsTypes, stats
<1> QED BY <1>7, <1>8, <1>9, <1>10 DEF Types

LEMMA StepsAreNat == ASSUME Types PROVE Max({MinConflictSteps, StepsPerTrailEntry * Len(trail)}) \in Nat
                                        /\ Max({MinConflictSteps, StepsPerTrailEntry * Len(trail)}) >= Len(trail)
<1> DEFINE x == StepsPerTrailEntry * Len(trail)
           n == MinConflictSteps + x
           I == {MinConflictSteps, x}
<1>1. Len(trail) \in Nat /\ MinConflictSteps \in Nat /\ StepsPerTrailEntry \in Nat /\ StepsPerTrailEntry >= 1
  BY TypesParts, EntryFacts, LimitsAssumption
<1>2. x \in Nat /\ x >= Len(trail)
  BY <1>1, SMT
<1> HIDE DEF x
<1>3. n \in Nat /\ I \subseteq 0..n /\ I # {} /\ x \in I
  BY <1>1, <1>2
<1> HIDE DEF I, n
<1>4. Max(I) \in I /\ x <= Max(I)
  BY <1>3, MaxFacts
<1> QED BY <1>1, <1>2, <1>4 DEF I, x

LEMMA PropagateTypes == ASSUME Types, Propagate PROVE Types'
<1>1. phase = "propagating" /\ (Derive(NextClause) \/ FindConflict(NextClause) \/ NextPackage(NextClause))
  BY DEF Propagate
<1>2. CASE Derive(NextClause)
  BY <1>1, <1>2, DeriveTypes DEF Derive
<1>3. CASE FindConflict(NextClause)
  <2>1. /\ phase' = "resolving" /\ conflict' = clauses[NextClause] /\ derived' = FALSE
        /\ steps' = Max({MinConflictSteps, StepsPerTrailEntry * Len(trail)})
        /\ queue' = <<>> /\ at' = 1 /\ conflicts' = conflicts + 1
        /\ UNCHANGED <<world, wants, extras, first, reread, read, trail, positive, negative, decided, clauses, reached,
                       conflictCount, culpritCount, pending, targeted, threshold, restarts, choice>>
    BY <1>3 DEF FindConflict, provider, solution
  <2>2. Shape(conflict')
    BY <1>3, <2>1, NextClauseFacts DEF FindConflict
  <2>3. ConflictTypes'
    BY <2>1, <2>2, StepsAreNat DEF ConflictTypes
  <2>4. QueueTypes'
    <3>1. <<>> \in Seq(Names)
      OBVIOUS
    <3> QED BY <2>1, <3>1, TypesParts DEF QueueTypes, Phases
  <2>5. StatsTypes'
    BY <2>1, TypesParts DEF StatsTypes
  <2>6. world' \in World /\ ProviderTypes' /\ SolutionTypes' /\ ClauseTypes' /\ ChoiceTypes'
    BY <2>1, TypesParts DEF ProviderTypes, SolutionTypes, ClauseTypes, ChoiceTypes, choice
  <2> QED BY <2>3, <2>4, <2>5, <2>6 DEF Types
<1>4. CASE NextPackage(NextClause)
  <2>1. /\ queue' = Tail(queue) /\ at' = 1
        /\ phase' = IF Tail(queue) = <<>> THEN "deciding" ELSE phase
        /\ UNCHANGED <<world, wants, extras, first, reread, read, trail, positive, negative, decided, clauses, conflict, derived,
                       steps, reached, stats, choice>>
    BY <1>4 DEF NextPackage, provider, solution
  <2>2. queue \in Seq(Names) /\ queue # <<>> /\ reached \subseteq Packages
    BY <1>1, TypesParts DEF QueueTypes
  <2>3. Tail(queue) \in Seq(Names)
    BY <2>2, HeadTailProperties
  <2>4. QueueTypes'
    BY <1>1, <2>1, <2>2, <2>3 DEF QueueTypes, Phases
  <2>5. /\ world' \in World /\ ProviderTypes' /\ SolutionTypes' /\ ClauseTypes' /\ ConflictTypes'
        /\ StatsTypes' /\ ChoiceTypes'
    BY <2>1, TypesParts DEF ProviderTypes, SolutionTypes, ClauseTypes, ConflictTypes, StatsTypes, ChoiceTypes,
                            stats, choice
  <2> QED BY <2>4, <2>5 DEF Types
<1> QED BY <1>1, <1>2, <1>3, <1>4

\* A step after which the resolver does no more than it did, but for its phase.
LEMMA PhaseTypes ==
    ASSUME Types, phase' \in Ended, phase \notin {"propagating", "building"},
           UNCHANGED <<world, provider, solution, clauses, queue, at, conflict, derived, steps, reached,
                       stats, choice>>
    PROVE  Types'
<1>1. QueueTypes'
  BY TypesParts DEF QueueTypes, Phases, Ended
<1>2. /\ world' \in World /\ ProviderTypes' /\ SolutionTypes' /\ ClauseTypes' /\ ConflictTypes'
      /\ StatsTypes' /\ ChoiceTypes'
  BY TypesParts DEF ProviderTypes, SolutionTypes, ClauseTypes, ConflictTypes, StatsTypes, ChoiceTypes,
                    provider, solution, stats, choice
<1> QED BY <1>1, <1>2 DEF Types

LEMMA ExplainTypes == ASSUME Types, Explain PROVE Types'
<1> DEFINE a == Analysis(trail, conflict)
<1>1. phase = "resolving" /\ steps > 0 /\ Explained(conflict)
  BY ExplainCases
<1>2. CASE GiveUp(a)
  BY <1>1, <1>2, PhaseTypes DEF GiveUp, Ended
<1>3. CASE Resolve(a)
  <2>1. /\ conflict' = Resolved(conflict, a) /\ derived' = TRUE /\ steps' = steps - 1
        /\ UNCHANGED <<world, wants, extras, first, reread, read, trail, positive, negative, decided, phase, clauses, queue, at,
                       reached, stats, choice>>
    BY <1>3 DEF Resolve, provider, solution
  <2>2. PICK k \in DOMAIN trail : a.satisfier = trail[k] /\ trail[k].package \in About(conflict) /\ Shape(trail[k].cause)
    BY <1>1, ExplainedFacts
  <2>3. Shape(conflict')
    BY <1>1, <2>1, <2>2, PriorCauseShape DEF Resolved, Explained
  <2>4. ConflictTypes'
    BY <1>1, <2>1, <2>3, TypesParts DEF ConflictTypes
  <2>5. world' \in World /\ ProviderTypes' /\ SolutionTypes' /\ ClauseTypes' /\ StatsTypes' /\ ChoiceTypes' /\ QueueTypes'
    BY <2>1, TypesParts DEF ProviderTypes, SolutionTypes, ClauseTypes, StatsTypes, ChoiceTypes, QueueTypes,
                            stats, choice
  <2> QED BY <2>4, <2>5 DEF Types
<1>4. CASE \E c, learned : Explained(c) /\ Backjump(c, Analysis(trail, c), learned)
  <2>1. PICK c, learned : Explained(c) /\ Backjump(c, Analysis(trail, c), learned)
    BY <1>4
  <2>2. Analysis(trail, c).satisfier \in Range(trail)
    BY <2>1, ExplainedFacts
  <2> QED BY <1>1, <2>1, <2>2, BackjumpTypes DEF Explained
<1> QED BY <1>2, <1>3, <1>4, ExplainCases

LEMMA StopTypes == ASSUME Types, Stop PROVE Types'
BY PhaseTypes DEF Stop, Ended

\* The lines that hold, by number; the packages a release requires.
LEMMA RequiredFacts ==
    ASSUME NEW w \in World, NEW xs, NEW p \in Packages, NEW v \in Versions
    PROVE  /\ Required(w, xs, p, v) \subseteq Packages \ {p}
           /\ DOMAIN FirstRow(w, xs, p, v) = Required(w, xs, p, v)
           /\ \A q \in Required(w, xs, p, v) :
                /\ FirstRow(w, xs, p, v)[q] \in Rows(w, xs, p, v, q) /\ FirstRow(w, xs, p, v)[q] \in Nat
                /\ w.lines[p][v][FirstRow(w, xs, p, v)[q]].spec \in Specifiers
<1>1. \A q \in Required(w, xs, p, v) : q \in Packages /\ q # p
  BY RowsFacts
<1>2. ASSUME NEW q \in Required(w, xs, p, v)
      PROVE  /\ FirstRow(w, xs, p, v)[q] \in Rows(w, xs, p, v, q) /\ FirstRow(w, xs, p, v)[q] \in Nat
             /\ w.lines[p][v][FirstRow(w, xs, p, v)[q]].spec \in Specifiers
  <2> DEFINE rows == Rows(w, xs, p, v, q)
  <2>1. rows # {} /\ rows \subseteq DOMAIN w.lines[p][v]
    BY RowsFacts
  <2>2. rows \subseteq Nat
    BY <2>1, WorldFacts
  <2>3. FirstRow(w, xs, p, v)[q] = First(rows)
    BY DEF FirstRow
  <2> HIDE DEF rows
  <2>4. First(rows) \in rows
    BY <2>1, <2>2, FirstIn
  <2>5. w.lines[p][v][First(rows)] \in Line
    BY <2>1, <2>4, WorldFacts
  <2> QED BY <2>2, <2>3, <2>4, <2>5, LineFacts DEF rows
<1> QED BY <1>1, <1>2 DEF FirstRow

LEMMA WantsTypes ==
    ASSUME NEW w \in World, NEW ws \in [Packages -> Specifiers \cup {NoRange}], NEW xs, NEW p \in Packages,
           NEW v \in Versions
    PROVE  WantsAfter(w, ws, xs, p, v) \in [Packages -> Specifiers \cup {NoRange}]
<1> DEFINE rows == FirstRow(w, xs, p, v)
<1>1. \A q \in DOMAIN rows : w.lines[p][v][rows[q]].spec \in Specifiers
  <2>1. /\ DOMAIN rows = Required(w, xs, p, v)
        /\ \A q \in Required(w, xs, p, v) : w.lines[p][v][rows[q]].spec \in Specifiers
    BY RequiredFacts, Zenon
  <2> QED BY <2>1
<1>2. WantsAfter(w, ws, xs, p, v)
        = [q \in Packages |-> IF ws[q] = NoRange /\ q \in DOMAIN rows THEN w.lines[p][v][rows[q]].spec ELSE ws[q]]
  BY DEF WantsAfter
<1> HIDE DEF rows
<1>3. ASSUME NEW q \in Packages
      PROVE  (IF ws[q] = NoRange /\ q \in DOMAIN rows THEN w.lines[p][v][rows[q]].spec ELSE ws[q])
                \in Specifiers \cup {NoRange}
  BY <1>1
<1> QED BY <1>2, <1>3

LEMMA ExtrasTypes ==
    ASSUME NEW w \in World, NEW xs, xs \subseteq Packages, NEW p \in Packages, NEW v \in Versions
    PROVE  ExtrasAfter(w, xs, p, v) \subseteq Packages
<1>1. \A i \in Applicable(w, xs, p, v) : w.lines[p][v][i].on \in Packages
  <2>1. \A i \in Applicable(w, xs, p, v) : i \in DOMAIN w.lines[p][v]
    BY DEF Applicable
  <2>2. \A i \in DOMAIN w.lines[p][v] : w.lines[p][v][i] \in Line
    BY WorldFacts
  <2> QED BY <2>1, <2>2, LineFacts
<1> QED BY <1>1 DEF ExtrasAfter

LEMMA DependenciesTypes ==
    ASSUME world \in World, ProviderTypes, NEW p \in Packages, NEW v \in Versions, NEW full,
           GetDependencies(p, v, full), first' \in [Packages -> Versions \cup {None}]
    PROVE  ProviderTypes'
<1> DEFINE under == Under(p, v, full)
           asked == extras \cup ExtrasAfter(world, under, p, v)
           recorded(q) == IF q = p THEN v ELSE first[q]
           newly == {q \in asked \ extras : recorded(q) # None}
           again == {q \in newly : ReadsAgain(world, wants, q, recorded(q))}
<1>1. /\ wants' = WantsAfter(world, wants, under, p, v) /\ extras' = asked
      /\ reread' = reread \cup {<<q, recorded(q)>> : q \in again}
      /\ read' = [read EXCEPT ![p][v] =
                    IF @ = "none" /\ p \in extras THEN (IF full THEN "full" ELSE "bare") ELSE @]
  BY DEF GetDependencies
<1>2. under \subseteq Packages
  BY UnderFacts DEF ProviderTypes
<1> HIDE DEF under
<1>3. ExtrasAfter(world, under, p, v) \subseteq Packages
  BY <1>2, ExtrasTypes
<1>4. wants' \in [Packages -> Specifiers \cup {NoRange}]
  BY <1>1, WantsTypes DEF ProviderTypes
<1>5. \A q \in again : q \in Packages /\ recorded(q) \in Versions
  BY <1>3 DEF ProviderTypes
<1> HIDE DEF again, recorded
<1>6. reread' \subseteq Packages \X Versions
  BY <1>1, <1>5 DEF ProviderTypes
<1>7. read' \in [Packages -> [Versions -> {"none", "bare", "full"}]]
  BY <1>1 DEF ProviderTypes
<1> QED BY <1>1, <1>3, <1>4, <1>6, <1>7 DEF ProviderTypes

\* What Decide makes of the clauses: some clauses on p gain the version v, new ones are added, and for
\* each package that is required one says so of v.
Adds(cl, p, v, Q, range, new) ==
    /\ cl \in Seq(Clause) /\ \A c \in Range(cl) : Shape(c) /\ About(c) # {}
    /\ p \in Packages /\ v \in Versions /\ Q \subseteq Packages \ {p}
    /\ DOMAIN range = Q /\ \A q \in Q : range[q] \in SUBSET Universe
    /\ new \in Seq(Q)
    /\ Range(new) = Q \ {q \in Q : \E i \in DOMAIN cl : MergesWith(cl[i], p, q, range[q])}

LEMMA FunctionIsSeq ==
    ASSUME NEW S, NEW n \in Nat, NEW f \in [1..n -> S] PROVE f \in Seq(S) /\ Len(f) = n
<1>1. f \in Seq(S)
  BY SeqDef
<1> QED BY <1>1, LenProperties

\* r is cl with that done to it.
Added(cl, r, p, v, Q, range) ==
    /\ r \in Seq(Clause) /\ \A c \in Range(r) : Shape(c) /\ About(c) # {}
    /\ Len(cl) <= Len(r)
    /\ \A i \in DOMAIN cl :
         \/ r[i] = cl[i]
         \/ \E q \in Q, V \in SUBSET Universe :
             /\ cl[i] = RequirementClause(p, V, q, range[q], "dependency")
             /\ r[i] = RequirementClause(p, V \cup {v}, q, range[q], "dependency")
    /\ \A i \in DOMAIN r : i \notin DOMAIN cl =>
         \E q \in Q : r[i] = RequirementClause(p, {v}, q, range[q], "dependency")
    /\ \A q \in Q : \E i \in DOMAIN r, V \in SUBSET Universe :
         v \in V /\ r[i] = RequirementClause(p, V, q, range[q], "dependency")

LEMMA AddedFacts ==
    ASSUME NEW cl, NEW p, NEW v, NEW Q, NEW range, NEW new, Adds(cl, p, v, Q, range, new)
    PROVE  Added(cl, AddDependencies(cl, p, v, range, new), p, v, Q, range)
<1> DEFINE hits(c) == {q \in DOMAIN range : MergesWith(c, p, q, range[q])}
           merged(c) == RequirementClause(p, c.terms[p].range \cup {v}, c.order[2], range[c.order[2]], "dependency")
           old == [i \in DOMAIN cl |-> IF hits(cl[i]) = {} THEN cl[i] ELSE merged(cl[i])]
           added == [k \in DOMAIN new |-> RequirementClause(p, {v}, new[k], range[new[k]], "dependency")]
           r == AddDependencies(cl, p, v, range, new)
           says(c, q, V) == c = RequirementClause(p, V, q, range[q], "dependency")
           joins(c, q) == \E V \in SUBSET Universe :
                says(c, q, V) /\ merged(c) = RequirementClause(p, V \cup {v}, q, range[q], "dependency")
<1>0. /\ p \in Names /\ p \in Packages /\ v \in Versions /\ {v} \in SUBSET Universe /\ DOMAIN range = Q
      /\ \A q \in Q : q \in Packages /\ p # q /\ range[q] \in SUBSET Universe
  BY UniverseFacts DEF Adds
<1>1. ASSUME NEW V \in SUBSET Universe, NEW q \in Q
      PROVE  LET c == RequirementClause(p, V, q, range[q], "dependency")
             IN  c \in Clause /\ Shape(c) /\ About(c) # {}
  <2> DEFINE c == RequirementClause(p, V, q, range[q], "dependency")
  <2>1. "dependency" \in Causes
    BY DEF Causes
  <2>2. Shape(c)
    BY <1>0, <2>1, RequirementShape
  <2>3. About(c) = {p, q}
    <3> DEFINE R == range[q]
    <3>1. p \in Names /\ q \in Packages /\ p # q /\ R \in SUBSET Universe
      BY <1>0
    <3> HIDE DEF R
    <3>2. LET d == RequirementClause(p, V, q, R, "dependency")
          IN  /\ Typed(d) /\ d.cause = "dependency" /\ d.order = <<p, q>>
              /\ d.terms[p] = [positive |-> TRUE, range |-> V]
              /\ d.terms[q] = [positive |-> FALSE, range |-> R]
              /\ \A n \in Names \ {p, q} : d.terms[n] = NoTerm
              /\ About(d) = {p, q}
      BY <3>1, RequirementClauseFacts
    <3> QED BY <3>2 DEF R
  <2> HIDE DEF c
  <2>4. c \in Clause /\ Shape(c) /\ About(c) # {}
    BY <2>2, <2>3 DEF Shape
  <2> QED BY <2>4 DEF c
<1>2. ASSUME NEW c, Shape(c), NEW q \in Q, MergesWith(c, p, q, range[q])
      PROVE  joins(c, q)
  <2>1. c.cause = "dependency" /\ c.order = <<p, q>> /\ c.terms[q].range = range[q]
    BY <1>2 DEF MergesWith
  <2>2. PICK x, y \in Packages, V, R \in SUBSET Universe :
            x # y /\ c = RequirementClause(x, V, y, R, "dependency")
    BY <1>2, <2>1 DEF Shape
  <2>3. /\ c.order = <<x, y>>
        /\ c.terms[x] = [positive |-> TRUE, range |-> V] /\ c.terms[y] = [positive |-> FALSE, range |-> R]
    BY <2>2, RequirementClauseFacts, UniverseFacts
  <2>4. x = p /\ y = q /\ R = range[q] /\ c.terms[p].range = V /\ c.order[2] = q
    BY <2>1, <2>3
  <2> QED BY <2>2, <2>4
<1>3. /\ DOMAIN cl = 1..Len(cl) /\ Len(cl) \in Nat /\ DOMAIN new = 1..Len(new) /\ Len(new) \in Nat
      /\ \A k \in DOMAIN new : new[k] \in Q
      /\ \A i \in DOMAIN cl : cl[i] \in Range(cl) /\ cl[i] \in Clause /\ Shape(cl[i]) /\ About(cl[i]) # {}
  <2>0. cl \in Seq(Clause) /\ new \in Seq(Q) /\ \A c \in Range(cl) : Shape(c) /\ About(c) # {}
    BY DEF Adds
  <2>1. \A i \in DOMAIN cl : cl[i] \in Range(cl)
    BY DEF Range
  <2>2. DOMAIN cl = 1..Len(cl) /\ Len(cl) \in Nat /\ DOMAIN new = 1..Len(new) /\ Len(new) \in Nat
    BY <2>0, LenProperties
  <2>3. \A k \in DOMAIN new : new[k] \in Q
    BY <2>0, <2>2, ElementOfSeq
  <2>4. \A c \in Range(cl) : c \in Clause
    BY <2>0, RangeOfSeq
  <2> QED BY <2>0, <2>1, <2>2, <2>3, <2>4
<1>4. ASSUME NEW i \in DOMAIN cl
      PROVE  /\ old[i] \in Clause /\ Shape(old[i]) /\ About(old[i]) # {}
             /\ \/ old[i] = cl[i]
                \/ \E q \in Q, V \in SUBSET Universe :
                     says(cl[i], q, V) /\ old[i] = RequirementClause(p, V \cup {v}, q, range[q], "dependency")
             /\ \A q \in Q : MergesWith(cl[i], p, q, range[q]) =>
                     \E V \in SUBSET Universe : v \in V /\ old[i] = RequirementClause(p, V, q, range[q], "dependency")
  <2>1. CASE hits(cl[i]) = {}
    <3>1. old[i] = cl[i]
      BY <2>1
    <3> QED BY <1>0, <1>3, <2>1, <3>1
  <2>2. CASE hits(cl[i]) # {}
    <3>1. old[i] = merged(cl[i])
      BY <2>2
    <3> HIDE DEF merged, old
    <3>2. PICK q \in Q : MergesWith(cl[i], p, q, range[q])
      BY <1>0, <2>2
    <3>3. PICK V \in SUBSET Universe :
            says(cl[i], q, V) /\ merged(cl[i]) = RequirementClause(p, V \cup {v}, q, range[q], "dependency")
      <4>1. Shape(cl[i])
        BY <1>3
      <4> HIDE DEF joins
      <4>2. joins(cl[i], q)
        BY <1>2, <3>2, <4>1
      <4> QED BY <4>2 DEF joins
    <3>4. V \cup {v} \in SUBSET Universe
      BY <1>0
    <3>5. old[i] \in Clause /\ Shape(old[i]) /\ About(old[i]) # {}
      BY <1>1, <3>1, <3>3, <3>4
    <3>6. \A x \in Q : MergesWith(cl[i], p, x, range[x]) => x = q
      BY <3>2 DEF MergesWith
    <3> QED BY <3>1, <3>3, <3>4, <3>5, <3>6
  <2> QED BY <2>1, <2>2
<1>5. ASSUME NEW k \in DOMAIN new
      PROVE  added[k] \in Clause /\ Shape(added[k]) /\ About(added[k]) # {}
  BY <1>0, <1>1, <1>3
<1>6. old \in Seq(Clause) /\ added \in Seq(Clause) /\ Len(old) = Len(cl) /\ Len(added) = Len(new)
  <2>1. old \in [1..Len(cl) -> Clause]
    <3>1. DOMAIN old = 1..Len(cl) /\ old = [i \in 1..Len(cl) |-> old[i]]
      BY <1>3
    <3> HIDE DEF old
    <3> QED BY <1>3, <1>4, <3>1
  <2>2. added \in [1..Len(new) -> Clause]
    <3>1. DOMAIN added = 1..Len(new) /\ added = [i \in 1..Len(new) |-> added[i]]
      BY <1>3
    <3> HIDE DEF added
    <3> QED BY <1>3, <1>5, <3>1
  <2> HIDE DEF old, added
  <2> QED BY <1>3, <2>1, <2>2, FunctionIsSeq
<1>7. r = old \o added
  BY DEF AddDependencies
<1>8. \A k \in DOMAIN new : added[k] = RequirementClause(p, {v}, new[k], range[new[k]], "dependency")
  OBVIOUS
<1> HIDE DEF old, added, r, merged, hits
<1>9. /\ r \in Seq(Clause) /\ Len(r) = Len(cl) + Len(new)
      /\ \A i \in 1..Len(r) : r[i] = IF i <= Len(cl) THEN old[i] ELSE added[i - Len(cl)]
  <2>1. /\ old \o added \in Seq(Clause) /\ Len(old \o added) = Len(old) + Len(added)
        /\ \A i \in 1..Len(old) + Len(added) :
                (old \o added)[i] = IF i <= Len(old) THEN old[i] ELSE added[i - Len(old)]
    BY <1>6, ConcatProperties
  <2> QED BY <1>6, <1>7, <2>1
<1>10. DOMAIN r = 1..Len(r) /\ Len(r) \in Nat
  BY <1>9, LenProperties
<1>11. \A i \in DOMAIN cl : i \in DOMAIN r /\ r[i] = old[i]
  BY <1>3, <1>9, <1>10
<1>12. \A k \in DOMAIN new : Len(cl) + k \in DOMAIN r /\ r[Len(cl) + k] = added[k]
  <2> SUFFICES ASSUME NEW k \in DOMAIN new PROVE Len(cl) + k \in DOMAIN r /\ r[Len(cl) + k] = added[k]
    OBVIOUS
  <2>1. Len(cl) + k \in 1..Len(r) /\ ~(Len(cl) + k <= Len(cl)) /\ Len(cl) + k - Len(cl) = k
    BY <1>3, <1>9
  <2> QED BY <1>9, <1>10, <2>1
<1>13. ASSUME NEW i \in DOMAIN r, i \notin DOMAIN cl PROVE \E k \in DOMAIN new : r[i] = added[k]
  <2>1. i - Len(cl) \in DOMAIN new /\ ~(i <= Len(cl))
    BY <1>3, <1>9, <1>10, <1>13
  <2> QED BY <1>9, <1>10, <2>1
<1>14. \A c \in Range(r) : Shape(c) /\ About(c) # {}
  <2> SUFFICES ASSUME NEW i \in DOMAIN r PROVE Shape(r[i]) /\ About(r[i]) # {}
    BY DEF Range
  <2>1. CASE i \in DOMAIN cl
    BY <1>4, <1>11, <2>1
  <2>2. CASE i \notin DOMAIN cl
    BY <1>5, <1>13, <2>2
  <2> QED BY <2>1, <2>2
<1>15. ASSUME NEW q \in Q
       PROVE  \E i \in DOMAIN r, V \in SUBSET Universe :
                  v \in V /\ r[i] = RequirementClause(p, V, q, range[q], "dependency")
  <2>1. CASE \E i \in DOMAIN cl : MergesWith(cl[i], p, q, range[q])
    BY <1>4, <1>11, <2>1
  <2>2. CASE ~\E i \in DOMAIN cl : MergesWith(cl[i], p, q, range[q])
    <3>1. q \in Range(new)
      BY <2>2 DEF Adds
    <3>2. PICK k \in DOMAIN new : new[k] = q
      BY <3>1 DEF Range
    <3>3. Len(cl) + k \in DOMAIN r /\ r[Len(cl) + k] = RequirementClause(p, {v}, q, range[q], "dependency")
      BY <1>8, <1>12, <3>2
    <3> QED BY <1>0, <3>3
  <2> QED BY <2>1, <2>2
<1>16. \A i \in DOMAIN r : i \notin DOMAIN cl =>
            \E q \in Q : r[i] = RequirementClause(p, {v}, q, range[q], "dependency")
  BY <1>3, <1>8, <1>13
<1>17. Len(cl) <= Len(r)
  BY <1>3, <1>9
<1>18. \A i \in DOMAIN cl :
            \/ r[i] = cl[i]
            \/ \E q \in Q, V \in SUBSET Universe :
                /\ cl[i] = RequirementClause(p, V, q, range[q], "dependency")
                /\ r[i] = RequirementClause(p, V \cup {v}, q, range[q], "dependency")
  BY <1>4, <1>11, Zenon
<1>19. r = AddDependencies(cl, p, v, range, new)
  BY DEF r
<1>20. r \in Seq(Clause) /\ \A c \in Range(r) : Shape(c) /\ About(c) # {}
  BY <1>9, <1>14
<1> HIDE DEF says, joins, old, added, hits, merged
<1>21. Added(cl, r, p, v, Q, range)
  BY <1>15, <1>16, <1>17, <1>18, <1>20 DEF Added
<1> QED BY <1>19, <1>21

LEMMA UndecidedFacts ==
    ASSUME NEW p \in Undecided PROVE p \in Packages /\ p \in Names /\ positive[p] # NoRange /\ decided[p] = None
BY UniverseFacts DEF Undecided

LEMMA ScanKeysTypes ==
    ASSUME keys \in [Packages -> Nat \cup {None}], conflictCount \in [Packages -> Nat]
    PROVE  ScanKeys \in [Packages -> Nat \cup {None}]
<1>1. ASSUME NEW p \in Packages PROVE keys[p] \in Nat \cup {None} /\ conflictCount[p] \in Nat
  OBVIOUS
<1> QED BY <1>1 DEF ScanKeys

\* The extras the lines of a version of p are read under, and its requirements, as Decide finds them.
FullOf(p, v) == ~ByName(world, wants, p, RangeOrFull(p), v)
UnderOf(p, v) == Under(p, v, FullOf(p, v))
RequiredOf(p, v) == Required(world, UnderOf(p, v), p, v)
RangesOf(p, v) == [q \in RequiredOf(p, v) |-> RangeOf(world, UnderOf(p, v), p, v, q)]
KnownOf(p, v) == {q \in RequiredOf(p, v) :
                    \E i \in DOMAIN clauses : MergesWith(clauses[i], p, q, RangesOf(p, v)[q])}

LEMMA DecideParts ==
    ASSUME NEW p, NEW v, Decide(p, v)
    PROVE  /\ v \in Versions
           /\ trail' = Append(trail, Assign(p, Level(trail) + 1, NoClause, {v}, negative[p], v))
           /\ positive' = [positive EXCEPT ![p] = {v}]
           /\ decided' = [decided EXCEPT ![p] = v]
           /\ \E new \in InOrder(RequiredOf(p, v) \ KnownOf(p, v), FirstRow(world, UnderOf(p, v), p, v)) :
                clauses' = AddDependencies(clauses, p, v, RangesOf(p, v), new)
           /\ GetDependencies(p, v, FullOf(p, v))
           /\ first' = [first EXCEPT ![p] = IF @ = None THEN v ELSE @]
           /\ phase' = "propagating" /\ queue' = <<p>>
           /\ keys' = ScanKeys
           /\ moved' = {p} \cup {q \in Packages : wants'[q] # wants[q]} \cup (extras' \ extras)
           /\ UNCHANGED <<world, negative, at, conflict, derived, steps, reached, stats>>
BY DEF Decide, FullOf, UnderOf, RequiredOf, RangesOf, KnownOf

LEMMA DecideAdds ==
    ASSUME Types, NEW p \in Packages, NEW v, Decide(p, v)
    PROVE  \E new : /\ Adds(clauses, p, v, RequiredOf(p, v), RangesOf(p, v), new)
                    /\ clauses' = AddDependencies(clauses, p, v, RangesOf(p, v), new)
<1> DEFINE under == UnderOf(p, v)
           Q == Required(world, under, p, v)
           key == FirstRow(world, under, p, v)
           known == KnownOf(p, v)
<1>1. v \in Versions /\ world \in World
  BY DecideParts, TypesParts
<1>2. PICK new \in InOrder(Q \ known, key) : clauses' = AddDependencies(clauses, p, v, RangesOf(p, v), new)
  BY DecideParts DEF RequiredOf
<1> HIDE DEF under
<1>3. Q \subseteq Packages \ {p} /\ \A q \in Q : key[q] \in Int
  <2>1. Q \subseteq Packages \ {p} /\ \A q \in Q : key[q] \in Nat
    BY <1>1, RequiredFacts, Zenon
  <2> HIDE DEF Q, key
  <2> QED BY <2>1
<1>4. \A q \in Q : RangeOf(world, under, p, v, q) \in SUBSET Universe
  BY <1>1, RangeIsRange
<1>5. new \in Seq(Q \ known) /\ Range(new) = Q \ known
  <2> HIDE DEF Q, key, known
  <2>1. Q \ known \subseteq Packages /\ \A q \in Q \ known : key[q] \in Int
    BY <1>3
  <2> QED BY <1>2, <2>1, InOrderIsAll
<1>6. new \in Seq(Q)
  <2>1. Q \ known \subseteq Q
    OBVIOUS
  <2> HIDE DEF Q, known
  <2> QED BY <1>5, <2>1, SeqMonotonic
<1>7. DOMAIN RangesOf(p, v) = Q /\ \A q \in Q : RangesOf(p, v)[q] \in SUBSET Universe
  BY <1>4 DEF RangesOf, RequiredOf, under
<1>8. known = {q \in Q : \E i \in DOMAIN clauses : MergesWith(clauses[i], p, q, RangesOf(p, v)[q])}
  BY DEF KnownOf, RequiredOf, under
<1>9. clauses \in Seq(Clause) /\ \A c \in Range(clauses) : Shape(c) /\ About(c) # {}
  BY TypesParts DEF ClauseTypes
<1> HIDE DEF Q, known
<1>10. Adds(clauses, p, v, Q, RangesOf(p, v), new)
  BY <1>1, <1>3, <1>5, <1>6, <1>7, <1>8, <1>9 DEF Adds
<1> QED BY <1>2, <1>10 DEF Q, under, RequiredOf

LEMMA DecideTypes ==
    ASSUME Types, phase = "deciding", NEW p \in Undecided, NEW v, Decide(p, v) PROVE Types'
<1> DEFINE e == Assign(p, Level(trail) + 1, NoClause, {v}, negative[p], v)
<1>1. p \in Packages /\ p \in Names
  BY UndecidedFacts
<1>2. /\ v \in Versions /\ trail' = Append(trail, e)
      /\ positive' = [positive EXCEPT ![p] = {v}] /\ decided' = [decided EXCEPT ![p] = v]
      /\ GetDependencies(p, v, FullOf(p, v))
      /\ first' = [first EXCEPT ![p] = IF @ = None THEN v ELSE @]
      /\ phase' = "propagating" /\ queue' = <<p>> /\ keys' = ScanKeys
      /\ moved' = {p} \cup {q \in Packages : wants'[q] # wants[q]} \cup (extras' \ extras)
      /\ UNCHANGED <<world, negative, at, conflict, derived, steps, reached, stats>>
  BY DecideParts
<1>3. /\ positive \in [Names -> Ranges] /\ negative \in [Names -> Ranges]
      /\ decided \in [Names -> Versions \cup {None}] /\ TrailTypes(trail) /\ trail \in Seq(Entry)
      /\ world \in World
  BY TypesParts DEF SolutionTypes
<1>4. {v} \in Ranges
  BY <1>2, UniverseFacts DEF Ranges
<1>5. e \in Entry /\ e.cause = NoClause
  <2>1. negative[p] \in Ranges /\ Level(trail) + 1 \in Nat /\ v \in Versions \cup {None}
    BY <1>1, <1>2, <1>3, LevelIsNat
  <2> QED BY <1>1, <1>4, <2>1, NoClauseShape, AssignIsEntry
<1> HIDE DEF e
<1>6. SolutionTypes'
  <2>1. TrailTypes(trail')
    BY <1>2, <1>3, <1>5, LongerTrail, NoClauseShape
  <2>2. positive' \in [Names -> Ranges] /\ negative' \in [Names -> Ranges] /\ decided' \in [Names -> Versions \cup {None}]
    BY <1>1, <1>2, <1>3, <1>4
  <2> QED BY <2>1, <2>2 DEF SolutionTypes, TrailTypes
<1>7. ClauseTypes'
  <2>1. PICK new : /\ Adds(clauses, p, v, RequiredOf(p, v), RangesOf(p, v), new)
                   /\ clauses' = AddDependencies(clauses, p, v, RangesOf(p, v), new)
    BY <1>1, DecideAdds
  <2> QED BY <2>1, AddedFacts DEF ClauseTypes, Added
<1>8. ProviderTypes'
  <2>1. ProviderTypes /\ first' \in [Packages -> Versions \cup {None}]
    BY <1>1, <1>2, TypesParts DEF ProviderTypes
  <2> QED BY <1>1, <1>2, <1>3, <2>1, DependenciesTypes
<1>9. QueueTypes'
  <2>1. queue' \in Seq(Names) /\ queue' # <<>>
    BY <1>1, <1>2
  <2>2. at = 1 /\ reached \subseteq Packages
    BY TypesParts DEF QueueTypes
  <2> QED BY <1>2, <2>1, <2>2 DEF QueueTypes, Phases
<1>10. ChoiceTypes'
  <2>1. keys' \in [Packages -> Nat \cup {None}]
    BY <1>2, ScanKeysTypes, TypesParts DEF ChoiceTypes, StatsTypes
  <2>2. extras' \subseteq Packages
    BY <1>8 DEF ProviderTypes
  <2>3. moved' \subseteq Names
    BY <1>1, <1>2, <2>2, UniverseFacts
  <2> QED BY <2>1, <2>3 DEF ChoiceTypes
<1>11. world' \in World /\ ConflictTypes' /\ StatsTypes'
  BY <1>2, TypesParts DEF ConflictTypes, StatsTypes, stats
<1> QED BY <1>6, <1>7, <1>8, <1>9, <1>10, <1>11 DEF Types

LEMMA RecordTypes ==
    ASSUME Types, phase = "deciding", NEW p \in Undecided, NEW v, RecordNoVersions(p, v) PROVE Types'
<1> DEFINE c == NoVersionsClause(p, RangeOrFull(p))
<1>1. p \in Packages /\ p \in Names
  BY UndecidedFacts
<1>2. /\ clauses' = Append(clauses, c)
      /\ phase' = "propagating" /\ queue' = <<p>> /\ keys' = ScanKeys /\ moved' = {}
      /\ UNCHANGED <<world, wants, extras, first, reread, read, trail, positive, negative, decided, at, conflict, derived, steps,
                     reached, stats>>
  BY DEF RecordNoVersions, provider, solution
<1>3. RangeOrFull(p) \in SUBSET Universe
  BY <1>1, TypesParts, RangeOrFullIsRange DEF SolutionTypes
<1>4. Shape(c) /\ c \in Clause /\ About(c) # {}
  <2>1. Shape(c) /\ About(c) = {p}
    BY <1>1, <1>3, NoVersionsShape
  <2> HIDE DEF c
  <2> QED BY <2>1 DEF Shape
<1> HIDE DEF c
<1>5. ClauseTypes'
  <2>1. clauses \in Seq(Clause) /\ \A d \in Range(clauses) : Shape(d) /\ About(d) # {}
    BY TypesParts DEF ClauseTypes
  <2>2. clauses' \in Seq(Clause) /\ Range(clauses') = Range(clauses) \cup {c}
    BY <1>2, <1>4, <2>1, AppendIn
  <2> QED BY <1>4, <2>1, <2>2 DEF ClauseTypes
<1>6. QueueTypes'
  <2>1. queue' \in Seq(Names) /\ queue' # <<>>
    BY <1>1, <1>2
  <2>2. at = 1 /\ reached \subseteq Packages
    BY TypesParts DEF QueueTypes
  <2> QED BY <1>2, <2>1, <2>2 DEF QueueTypes, Phases
<1>7. ChoiceTypes'
  BY <1>2, ScanKeysTypes, TypesParts DEF ChoiceTypes, StatsTypes
<1>8. world' \in World /\ ProviderTypes' /\ SolutionTypes' /\ ConflictTypes' /\ StatsTypes'
  BY <1>2, TypesParts DEF ProviderTypes, SolutionTypes, ConflictTypes, StatsTypes, stats
<1> QED BY <1>5, <1>6, <1>7, <1>8 DEF Types

\* What Choose does, for the package it takes.
LEMMA ChooseCases ==
    ASSUME Choose
    PROVE  /\ phase = "deciding"
           /\ \E p \in Undecided : \E v :
                /\ v = ChooseVersion(world, wants, p, RangeOrFull(p))
                /\ Decide(p, v) \/ RecordNoVersions(p, v) \/ ChoiceRaises(v)
BY DEF Choose

LEMMA ChooseTypes == ASSUME Types, Choose PROVE Types'
<1>1. phase = "deciding"
  BY ChooseCases
<1>2. PICK p \in Undecided : \E v : Decide(p, v) \/ RecordNoVersions(p, v) \/ ChoiceRaises(v)
  BY ChooseCases
<1>3. PICK v : Decide(p, v) \/ RecordNoVersions(p, v) \/ ChoiceRaises(v)
  BY <1>2
<1>4. CASE ChoiceRaises(v)
  BY <1>1, <1>4, PhaseTypes DEF ChoiceRaises, Ended
<1> QED BY <1>1, <1>3, <1>4, DecideTypes, RecordTypes

LEMMA BuildTypes == ASSUME Types, AllDecided \/ Visit \/ Answer PROVE Types'
<1>1. /\ world \in World /\ ProviderTypes /\ SolutionTypes /\ ClauseTypes /\ ConflictTypes /\ StatsTypes /\ ChoiceTypes
      /\ phase \in Phases /\ queue \in Seq(Names) /\ at \in Nat \ {0} /\ reached \subseteq Packages
      /\ phase = "building" => queue \in Seq(Packages)
      /\ phase # "propagating" => at = 1
  BY TypesParts DEF QueueTypes
<1>2. ASSUME UNCHANGED <<world, solution, clauses, at, conflict, derived, steps, stats, choice>>, ProviderTypes', QueueTypes'
      PROVE  Types'
  BY <1>1, <1>2 DEF Types, SolutionTypes, ClauseTypes, ConflictTypes, StatsTypes, ChoiceTypes, solution, stats, choice
<1>3. CASE AllDecided
  <2>1. /\ phase = "deciding" /\ phase' = "building" /\ queue' \in SetToSeqs(Roots(world))
        /\ UNCHANGED <<world, wants, extras, first, reread, read, solution, clauses, at, conflict, derived, steps, reached, stats, choice>>
    BY <1>3 DEF AllDecided, provider
  <2>2. Roots(world) \subseteq Packages
    BY DEF Roots
  <2>3. queue' \in Seq(Packages) /\ queue' \in Seq(Names)
    <3>1. queue' \in Seq(Roots(world))
      BY <2>1, <2>2, SetToSeqsIsAll
    <3> QED BY <2>2, <3>1, SeqMonotonic, UniverseFacts
  <2>4. QueueTypes'
    BY <1>1, <2>1, <2>3 DEF QueueTypes, Phases
  <2> QED BY <1>1, <1>2, <2>1, <2>4 DEF ProviderTypes
<1>4. CASE Answer
  <2>1. /\ phase' = "done" /\ phase = "building"
        /\ UNCHANGED <<world, wants, extras, first, reread, read, solution, clauses, queue, at, conflict, derived, steps, reached, stats, choice>>
    BY <1>4 DEF Answer, provider
  <2>2. QueueTypes'
    BY <1>1, <2>1 DEF QueueTypes, Phases, Ended
  <2> QED BY <1>1, <1>2, <2>1, <2>2 DEF ProviderTypes
<1>5. CASE Visit
  <2> DEFINE p == Head(queue)
  <2>1. /\ phase = "building" /\ queue # <<>>
        /\ Walk(p) \/ HasNoDecision(p) \/ Skip(p)
        /\ UNCHANGED <<world, solution, clauses, at, conflict, derived, steps, stats, choice>>
    BY <1>5 DEF Visit
  <2>2. p \in Packages /\ Tail(queue) \in Seq(Packages) /\ at = 1 /\ queue # <<>>
    <3>1. queue \in Seq(Packages) /\ queue # <<>> /\ phase # "propagating"
      BY <1>1, <2>1
    <3> QED BY <1>1, <3>1, HeadTailProperties
  <2> HIDE DEF p
  <2>3. Seq(Packages) \subseteq Seq(Names)
    BY UniverseFacts, SeqMonotonic
  <2>4. CASE HasNoDecision(p)
    <3>1. phase' = "no decision" /\ reached' = reached \cup {p} /\ UNCHANGED <<wants, extras, first, reread, read, queue>>
      BY <2>4 DEF HasNoDecision, provider
    <3>2. QueueTypes'
      BY <1>1, <2>1, <2>2, <3>1 DEF QueueTypes, Phases, Ended
    <3> QED BY <1>1, <1>2, <2>1, <3>1, <3>2 DEF ProviderTypes
  <2>5. CASE Skip(p)
    <3>1. queue' = Tail(queue) /\ UNCHANGED <<wants, extras, first, reread, read, phase, reached>>
      BY <2>5 DEF Skip, provider
    <3>2. queue' \in Seq(Packages) /\ queue' \in Seq(Names)
      BY <2>2, <2>3, <3>1
    <3>3. QueueTypes'
      BY <1>1, <2>1, <2>2, <3>1, <3>2 DEF QueueTypes, Phases
    <3> QED BY <1>1, <1>2, <2>1, <3>1, <3>3 DEF ProviderTypes
  <2>6. CASE Walk(p)
    <3> DEFINE full == <<p, decided[p]>> \in reread
               under == Under(p, decided[p], full)
               rows == FirstRow(world, under, p, decided[p])
               rest == Tail(queue)
    <3>1. /\ decided[p] # None /\ reached' = reached \cup {p} /\ phase' = phase
          /\ \E required \in InOrder((DOMAIN rows) \ reached', rows) : queue' = rest \o required
          /\ GetDependencies(p, decided[p], full) /\ first' = first
      BY <2>6 DEF Walk
    <3> HIDE DEF full, under
    <3>2. decided[p] \in Versions
      BY <1>1, <2>2, <3>1, UniverseFacts DEF SolutionTypes
    <3>3. PICK required \in InOrder((DOMAIN rows) \ reached', rows) : queue' = rest \o required
      BY <3>1
    <3>4. required \in Seq((DOMAIN rows) \ reached') /\ (DOMAIN rows) \ reached' \subseteq Packages
      <4>1. DOMAIN rows \subseteq Packages /\ \A q \in DOMAIN rows : rows[q] \in Nat
        <5>1. /\ Required(world, under, p, decided[p]) \subseteq Packages \ {p}
              /\ DOMAIN rows = Required(world, under, p, decided[p])
              /\ \A q \in Required(world, under, p, decided[p]) : rows[q] \in Nat
          BY <1>1, <2>2, <3>2, RequiredFacts, Zenon
        <5> QED BY <5>1, Zenon
      <4> HIDE DEF rows
      <4>2. (DOMAIN rows) \ reached' \subseteq Packages /\ \A q \in (DOMAIN rows) \ reached' : rows[q] \in Int
        BY <4>1
      <4> QED BY <3>3, <4>2, InOrderIsAll
    <3>5. required \in Seq(Packages) /\ rest \in Seq(Packages)
      BY <2>2, <3>4, SeqMonotonic
    <3> HIDE DEF rest, rows
    <3>6. queue' \in Seq(Packages)
      BY <3>3, <3>5, ConcatIn
    <3>9. queue' \in Seq(Names) /\ reached' \subseteq Packages
      BY <1>1, <2>2, <2>3, <3>1, <3>6
    <3>7. QueueTypes'
      BY <1>1, <2>1, <2>2, <3>1, <3>6, <3>9 DEF QueueTypes, Phases
    <3>8. ProviderTypes'
      BY <1>1, <2>2, <3>1, <3>2, DependenciesTypes DEF ProviderTypes
    <3> QED BY <1>2, <2>1, <3>7, <3>8
  <2> QED BY <2>1, <2>4, <2>5, <2>6
<1> QED BY <1>3, <1>4, <1>5

LEMMA TypesKept == ASSUME Types, [Next]_vars PROVE Types'
<1>1. ASSUME UNCHANGED vars PROVE Types'
  <2>1. UNCHANGED <<world, wants, extras, first, reread, read, trail, positive, negative, decided, phase, clauses, queue, at, conflict,
                    derived, steps, reached, stats, choice>>
    BY <1>1 DEF vars, provider, solution, search
  <2> QED BY <2>1 DEF Types, ProviderTypes, SolutionTypes, ClauseTypes, ConflictTypes, QueueTypes, StatsTypes,
                      ChoiceTypes, stats, choice
<1>2. Ends => UNCHANGED vars
  BY DEF Ends
<1> QED BY <1>1, <1>2, PropagateTypes, StopTypes, ExplainTypes, ChooseTypes, BuildTypes DEF Next

LEMMA TypesFirst == ASSUME Init PROVE Types
<1>1. world \in World
  BY WorldsAssumption DEF Init
<1>2. /\ wants = world.root /\ extras = RootExtras(world) /\ trail = RootTrail
      /\ first = [p \in Packages |-> None] /\ reread = {}
      /\ read = [p \in Packages |-> [v \in Versions |-> "none"]]
      /\ positive = [p \in Names |-> IF p = ROOT THEN {1} ELSE NoRange]
      /\ negative = [p \in Names |-> NoRange]
      /\ decided = [p \in Names |-> IF p = ROOT THEN 1 ELSE None]
      /\ phase = "propagating" /\ queue = <<ROOT>> /\ at = 1 /\ conflict = NoClause /\ derived = FALSE /\ steps = 0
      /\ reached = {}
      /\ conflicts = 0
      /\ conflictCount = [p \in Packages |-> 0] /\ culpritCount = [p \in Packages |-> 0]
      /\ pending = <<>> /\ targeted = 0 /\ threshold = RestartThreshold /\ restarts = MaxRestarts
      /\ keys = [p \in Packages |-> None] /\ moved = Names
  BY DEF Init
<1>3. ProviderTypes
  <2>1. world.root \in [Packages -> Specifiers \cup {NoRange}] /\ world.asked \subseteq Packages
    BY <1>1 DEF World
  <2>2. RootExtras(world) \subseteq world.asked \cup Packages
    BY DEF RootExtras, Roots
  <2> QED BY <1>2, <2>1, <2>2 DEF ProviderTypes
<1>4. SolutionTypes
  <2>1. {1} \in Ranges /\ NoRange \in Ranges /\ 1 \in Versions
    BY UniverseFacts, VersionAssumption DEF Ranges, Versions
  <2>2. TrailTypes(trail)
    BY <1>2, RootTrailTypes
  <2> QED BY <1>2, <2>1, <2>2 DEF SolutionTypes, TrailTypes
<1>5. ClauseTypes
  <2>1. PICK roots \in InOrder(Roots(world), [p \in Packages |-> p]) : clauses = RootClauses(world, roots)
    BY DEF Init
  <2>2. Roots(world) \subseteq Packages /\ \A q \in Packages : q \in Int
    BY DEF Roots, Packages
  <2>3. roots \in Seq(Roots(world))
    <3> DEFINE key == [p \in Packages |-> p]
    <3>1. \A q \in Roots(world) : key[q] \in Int
      BY <2>2
    <3> HIDE DEF key
    <3> QED BY <2>1, <2>2, <3>1, InOrderIsAll DEF key
  <2>4. DOMAIN roots = 1..Len(roots) /\ Len(roots) \in Nat /\ \A k \in DOMAIN roots : roots[k] \in Roots(world)
    BY <2>3, LenProperties, ElementOfSeq
  <2>5. clauses = [k \in 1..Len(roots) |-> RequirementClause(ROOT, {1}, roots[k], RootRange(world, roots[k]), "root")]
    BY <2>1, <2>4 DEF RootClauses
  <2>6. ASSUME NEW q \in Roots(world)
        PROVE  LET c == RequirementClause(ROOT, {1}, q, RootRange(world, q), "root")
               IN  c \in Clause /\ Shape(c) /\ About(c) # {}
    <3> DEFINE V == {1}
               R == RootRange(world, q)
    <3>1. q \in Packages /\ ROOT # q /\ ROOT \in Names /\ V \in SUBSET Universe /\ R \in SUBSET Universe
      BY <1>1, RootIsRequired, UniverseFacts
    <3>2. "root" \in Causes /\ "root" # "dependency"
      BY DEF Causes
    <3> HIDE DEF V, R
    <3> DEFINE c == RequirementClause(ROOT, V, q, R, "root")
    <3>3. Shape(c)
      BY <3>1, <3>2, RequirementShape
    <3>4. LET d == RequirementClause(ROOT, V, q, R, "root")
          IN  /\ Typed(d) /\ d.cause = "root" /\ d.order = <<ROOT, q>>
              /\ d.terms[ROOT] = [positive |-> TRUE, range |-> V]
              /\ d.terms[q] = [positive |-> FALSE, range |-> R]
              /\ \A n \in Names \ {ROOT, q} : d.terms[n] = NoTerm
              /\ About(d) = {ROOT, q}
      BY <3>1, RequirementClauseFacts
    <3>5. About(c) = {ROOT, q}
      BY <3>4 DEF c
    <3> HIDE DEF c
    <3>6. c \in Clause /\ Shape(c) /\ About(c) # {}
      BY <3>3, <3>5 DEF Shape
    <3> QED BY <3>6 DEF c, V, R
  <2>7. \A k \in 1..Len(roots) : clauses[k] \in Clause /\ Shape(clauses[k]) /\ About(clauses[k]) # {}
    BY <2>4, <2>5, <2>6
  <2>8. clauses \in [1..Len(roots) -> Clause] /\ DOMAIN clauses = 1..Len(roots)
    <3>1. DOMAIN clauses = 1..Len(roots) /\ clauses = [k \in 1..Len(roots) |-> clauses[k]]
      BY <2>5
    <3> QED BY <2>7, <3>1
  <2>9. clauses \in Seq(Clause)
    BY <2>4, <2>8, FunctionIsSeq
  <2> QED BY <2>7, <2>8, <2>9 DEF ClauseTypes, Range
<1>6. ConflictTypes
  BY <1>2, NoClauseShape DEF ConflictTypes
<1>7. QueueTypes
  <2>1. queue \in Seq(Names) /\ queue # <<>>
    BY <1>2, UniverseFacts
  <2> QED BY <1>2, <2>1 DEF QueueTypes, Phases
<1>8. StatsTypes
  <2>1. <<>> \in Seq(Packages)
    OBVIOUS
  <2> QED BY <1>2, <2>1, LimitsAssumption DEF StatsTypes
<1>9. ChoiceTypes
  BY <1>2 DEF ChoiceTypes
<1> QED BY <1>1, <1>3, <1>4, <1>5, <1>6, <1>7, <1>8, <1>9 DEF Types

\* TypeOK: the solver's data keep their types, whatever is asked of it: clauses have a term a package and
\* list it, the trail's entries are decisions or have a clause for a cause, counters stay in their bounds.
THEOREM SearchIsTyped == Spec => []TypeOK
<1>1. Types => TypeOK
  <2> SUFFICES ASSUME Types PROVE TypeOK
    OBVIOUS
  <2>1. conflict \in Clause
    BY TypesParts DEF ConflictTypes, Shape
  <2> QED BY <2>1, TypesParts DEF TypeOK, ProviderTypes, SolutionTypes, ClauseTypes, ConflictTypes, QueueTypes,
                                  StatsTypes, ChoiceTypes, Ranges
<1> QED BY <1>1, TypesFirst, TypesKept, PTL DEF Spec

------------------------------------------------------------------------------------
(* The newest releases.                                                             *)

\* S solves what is asked, with the newest release of every package that has one in it.
IsNewest(w, S) == S \in Solutions(w) /\ AllNewest(w, S)

\* What is known of p holds of x.
Allows(p, x) ==
    /\ positive[p] # NoRange => x \in positive[p]
    /\ negative[p] # NoRange => x \notin negative[p]
    /\ decided[p] # None => decided[p] = x

\* While S tracks the search, no clause, entry or decision goes against it, and no conflict is met.
Tracks(S) ==
    /\ phase \notin {"resolving", "failed", "gave up", "stalled"}
    /\ extras = world.asked
    /\ \A c \in Range(clauses) : Admits(c, S)
    /\ \A p \in Names : Allows(p, Chosen(S, p))

TracksNewest == AsksForNoExtra(world) => \A S : IsNewest(world, S) => Tracks(S)

LEMMA NewestFacts ==
    ASSUME NEW w \in World, NEW S, IsNewest(w, S), NEW p \in Packages
    PROVE  /\ S[p] \in Versions \cup {Absent} /\ Chosen(S, p) = S[p]
           /\ S[p] # Absent => /\ S[p] \in Versions /\ w.flaw[p][S[p]] = "good"
                               /\ S[p] \in Catalog(w, p) \cap w.limit[p]
                               /\ \A v \in Catalog(w, p) : v <= S[p]
<1>1. S \in Solutions(w) /\ AllNewest(w, S)
  BY DEF IsNewest
<1>2. S[p] # Absent => \A v \in Catalog(w, p) : v <= S[p]
  BY <1>1 DEF AllNewest
<1> QED BY <1>1, <1>2, SelectionFacts

\* A term that the trail satisfies holds of S.
LEMMA SatisfiedHolds ==
    ASSUME Types, NEW p \in Names, NEW t \in Term, NEW x, x \in Universe \cup {Absent},
           Allows(p, x), Relation(p, t) = "satisfied"
    PROVE  Holds(t, x)
<1>1. /\ RangeNow(p) # NoRange /\ Meets(t, RangeNow(p)) /\ (t.positive => positive[p] # NoRange)
  BY DEF Relation
<1>2. /\ positive[p] \in Ranges /\ negative[p] \in Ranges /\ t.range \subseteq Universe /\ t.positive \in BOOLEAN
      /\ Absent \notin Universe
  BY TypesParts, SizeAssumption DEF SolutionTypes, Term, Universe, Absent
<1>3. CASE positive[p] # NoRange
  <2>1. x \in RangeNow(p)
    BY <1>2, <1>3 DEF RangeNow, Effective, Allows
  <2> QED BY <1>1, <1>2, <2>1 DEF Meets, Disjoint, Holds
<1>4. CASE positive[p] = NoRange
  <2>1. ~t.positive /\ negative[p] # NoRange
    BY <1>1, <1>4 DEF RangeNow, Effective
  <2>2. RangeNow(p) = Universe \ negative[p] /\ x \notin negative[p]
    BY <1>4, <2>1 DEF RangeNow, Effective, Full, Allows
  <2> QED BY <1>1, <1>2, <2>1, <2>2 DEF Meets, Disjoint, Holds
<1> QED BY <1>3, <1>4

LEMMA TracksPropagate ==
    ASSUME Types, NEW S, IsNewest(world, S), Tracks(S), Propagate
    PROVE  Tracks(S)'
<1>1. \A p \in Names : Chosen(S, p) \in Universe \cup {Absent}
  <2>1. \A p \in Packages : Chosen(S, p) \in Versions \cup {Absent}
    BY TypesParts, NewestFacts
  <2>2. Chosen(S, ROOT) = 1 /\ \A p \in Names : p = ROOT \/ p \in Packages
    BY SizeAssumption DEF Chosen, Names, Packages, ROOT
  <2> QED BY <2>1, <2>2, UniverseFacts
<1>2. \A c \in Range(clauses) : Shape(c) /\ Admits(c, S)
  BY TypesParts DEF Tracks, ClauseTypes
<1>3. ASSUME NEW c \in Range(clauses), NEW q \in About(c), Relation(q, c.terms[q]) = "satisfied"
      PROVE  Holds(c.terms[q], Chosen(S, q))
  <2>1. q \in Names /\ c.terms[q] \in Term
    BY <1>2, <1>3, ShapedFacts
  <2> QED BY <1>1, <1>3, <2>1, SatisfiedHolds DEF Tracks
<1>4. phase = "propagating" /\ (Derive(NextClause) \/ FindConflict(NextClause) \/ NextPackage(NextClause))
  BY DEF Propagate
<1>5. CASE NextPackage(NextClause)
  <2>1. /\ phase' \in {"deciding", "propagating"}
        /\ UNCHANGED <<world, extras, positive, negative, decided, clauses>>
    BY <1>4, <1>5 DEF NextPackage, provider, solution
  <2> QED BY <2>1 DEF Tracks, Allows
<1>6. CASE FindConflict(NextClause)
  <2>1. NextClause > 0 /\ IsConflict(clauses[NextClause])
    BY <1>6 DEF FindConflict
  <2>2. clauses[NextClause] \in Range(clauses)
    BY <2>1, NextClauseFacts
  <2> DEFINE c == clauses[NextClause]
  <2>3. c \in Range(clauses) /\ IsConflict(c)
    BY <2>1, <2>2
  <2> HIDE DEF c
  <2>4. PICK q \in About(c) : ~Holds(c.terms[q], Chosen(S, q))
    BY <1>2, <2>3 DEF Admits
  <2>5. Relation(q, c.terms[q]) = "satisfied"
    BY <2>3 DEF IsConflict, Unsatisfied
  <2> QED BY <1>3, <2>3, <2>4, <2>5
<1>7. CASE Derive(NextClause)
  <2>1. NextClause > 0
    BY <1>7 DEF Derive
  <2>2. PICK p : Derives(NextClause, p)
    BY <1>7, <2>1, DeriveFacts
  <2> DEFINE c == clauses[NextClause]
             t == Negate(c.terms[p])
  <2>3. /\ c \in Range(clauses) /\ p \in About(c) /\ p \in Names /\ Unsatisfied(c) = {p}
        /\ c.terms[p] \in Term /\ t \in Term
        /\ positive' = [positive EXCEPT ![p] = NewPos(p, t)] /\ negative' = [negative EXCEPT ![p] = NewNeg(p, t)]
    BY <2>1, <2>2, NextClauseFacts, ShapedFacts DEF Derives
  <2>4. /\ phase' = phase /\ UNCHANGED <<world, extras, decided, clauses>>
    BY <1>7 DEF Derive, provider
  <2>5. t = [c.terms[p] EXCEPT !.positive = ~@]
    BY DEF Negate
  <2> HIDE DEF c, t
  <2>6. ~Holds(c.terms[p], Chosen(S, p))
    <3>1. PICK q \in About(c) : ~Holds(c.terms[q], Chosen(S, q))
      BY <1>2, <2>3 DEF Admits
    <3>2. CASE q # p
      <4>1. Relation(q, c.terms[q]) = "satisfied"
        BY <2>3, <3>2 DEF Unsatisfied
      <4> QED BY <1>3, <2>3, <3>1, <4>1
    <3> QED BY <3>1, <3>2
  <2>7. t.range = c.terms[p].range /\ t.positive = ~c.terms[p].positive
    BY <2>3, <2>5 DEF Term
  <2>8. IF t.positive THEN Chosen(S, p) \in t.range ELSE Chosen(S, p) \notin t.range
    BY <2>3, <2>6, <2>7 DEF Holds, Term
  <2>9. /\ NewPos(p, t) # NoRange => Chosen(S, p) \in NewPos(p, t)
        /\ NewNeg(p, t) # NoRange => Chosen(S, p) \notin NewNeg(p, t)
    BY <2>3, <2>8 DEF NewPos, NewNeg, Tracks, Allows
  <2>10. positive \in [Names -> Ranges] /\ negative \in [Names -> Ranges]
    BY TypesParts DEF SolutionTypes
  <2>11. /\ positive'[p] = NewPos(p, t) /\ negative'[p] = NewNeg(p, t)
         /\ \A q \in Names : q # p => positive'[q] = positive[q] /\ negative'[q] = negative[q]
    BY <2>3, <2>10
  <2>12. \A q \in Names : Allows(q, Chosen(S, q))'
    <3> SUFFICES ASSUME NEW q \in Names PROVE Allows(q, Chosen(S, q))'
      OBVIOUS
    <3>1. Allows(q, Chosen(S, q))
      BY DEF Tracks
    <3> QED BY <2>4, <2>9, <2>11, <3>1 DEF Allows
  <2> QED BY <2>4, <2>12 DEF Tracks
<1> QED BY <1>4, <1>5, <1>6, <1>7

LEMMA NewestIs ==
    ASSUME NEW V, V \subseteq Int, NEW x \in V, \A v \in V : v <= x PROVE Newest(V) = x
<1>1. \E v \in V : \A u \in V : u <= v
  OBVIOUS
<1>2. Newest(V) \in V /\ \A u \in V : u <= Newest(V)
  BY <1>1 DEF Newest
<1>3. x <= Newest(V) /\ Newest(V) <= x /\ Newest(V) \in Int /\ x \in Int
  BY <1>2
<1> HIDE DEF Newest
<1> QED BY <1>3

\* The lines of a release that S selects hold of S.
LEMMA LinesHold ==
    ASSUME NEW w \in World, NEW xs, xs \subseteq w.asked, NEW S \in Solutions(w), NEW p \in Packages,
           NEW v \in Versions, S[p] = v, NEW i \in Applicable(w, xs, p, v)
    PROVE  /\ i \in DOMAIN w.lines[p][v] /\ w.lines[p][v][i] \in Line
           /\ S[w.lines[p][v][i].on] \in w.lines[p][v][i].spec
           /\ S[w.lines[p][v][i].on] \in Versions
           /\ w.lines[p][v][i].on \in Packages
<1> DEFINE l == w.lines[p][v][i]
<1>1. i \in DOMAIN w.lines[p][v] /\ (l.when => p \in w.asked)
  BY DEF Applicable
<1>2. l \in Line /\ l.on \in Packages /\ l.spec \in Specifiers
  BY <1>1, WorldFacts, LineFacts
<1>3. PICK A \in SUBSET Packages : Satisfies(w, S, A)
  BY DEF Solutions
<1>4. w.asked \subseteq A /\ S[p] # Absent
  BY <1>3 DEF Satisfies, Versions, Absent
<1>5. S[l.on] \in l.spec
  BY <1>1, <1>3, <1>4 DEF Satisfies
<1>6. S[l.on] # Absent
  BY <1>2, <1>5, SpecifierFacts
<1>7. S[l.on] \in Versions
  BY <1>2, <1>6, SelectionFacts
<1> QED BY <1>1, <1>2, <1>5, <1>7

\* The forward check does not turn a release of a solution down.
LEMMA SolvedPinsArePossible ==
    ASSUME NEW w \in World, NEW S \in Solutions(w), NEW p \in Packages, NEW v \in Versions, S[p] = v
    PROVE  ~PinsAreImpossible(w, p, v)
<1> SUFFICES ASSUME PinsAreImpossible(w, p, v) PROVE FALSE
  OBVIOUS
<1> DEFINE xs == {}
           rows == Applicable(w, xs, p, v)
           line(i) == w.lines[p][v][i]
<1>1. \A i \in rows : IsPin(line(i).spec)
  BY DEF PinsAreImpossible, Seen
<1>2. PICK I \in SUBSET rows : \E b, c \in UNION {Brought(w, line(i)) : i \in I} :
                    b.on = c.on /\ Apart(b.spec, c.spec)
  <2>1. PICK k \in rows : \E b, c \in UNION {Brought(w, line(i)) : i \in {i \in rows : i <= k}} :
                    b.on = c.on /\ Apart(b.spec, c.spec)
    BY DEF PinsAreImpossible, Seen
  <2>2. {i \in rows : i <= k} \in SUBSET rows
    OBVIOUS
  <2> QED BY <2>1, <2>2
<1>0. xs \subseteq w.asked
  OBVIOUS
<1> HIDE DEF xs
<1>3. ASSUME NEW i \in rows, NEW b \in Brought(w, line(i))
      PROVE  S[b.on] \in b.spec /\ S[b.on] \in Versions
  <2>1. line(i).on \in Packages /\ S[line(i).on] \in line(i).spec /\ S[line(i).on] \in Versions
    BY <1>0, <1>3, LinesHold
  <2>2. PICK u \in 0..N : line(i).spec = {u}
    BY <1>1 DEF IsPin
  <2>3. S[line(i).on] = u /\ u \in Versions
    BY <2>1, <2>2
  <2>4. Newest(line(i).spec) = u
    <3>1. {u} \subseteq Int /\ u \in {u} /\ \A x \in {u} : x <= u
      BY <2>3 DEF Versions
    <3>2. Newest({u}) = u
      BY <3>1, NewestIs
    <3> QED BY <2>2, <3>2
  <2> DEFINE q == line(i).on
  <2>5. PICK j \in Applicable(w, xs, q, u) : b = [on |-> w.lines[q][u][j].on, spec |-> w.lines[q][u][j].spec]
    <3> HIDE DEF q
    <3>1. b \in {[on |-> w.lines[line(i).on][u][k].on, spec |-> w.lines[line(i).on][u][k].spec] :
                    k \in Applicable(w, {}, line(i).on, u)}
      BY <1>3, <2>4 DEF Brought, Seen
    <3> QED BY <3>1 DEF xs, q
  <2>6. q \in Packages /\ S[q] = u
    BY <2>1, <2>3
  <2> HIDE DEF q
  <2>8. S[w.lines[q][u][j].on] \in w.lines[q][u][j].spec /\ S[w.lines[q][u][j].on] \in Versions
    BY <1>0, <2>3, <2>5, <2>6, LinesHold
  <2> QED BY <2>5, <2>8
<1>4. PICK b, c : /\ \E i \in rows : b \in Brought(w, line(i))
                  /\ \E i \in rows : c \in Brought(w, line(i))
                  /\ b.on = c.on /\ Apart(b.spec, c.spec)
  <2> HIDE DEF rows, line
  <2> QED BY <1>2
<1>5. S[b.on] \in b.spec /\ S[b.on] \in c.spec /\ S[b.on] \in Versions
  <2> HIDE DEF rows, line
  <2> QED BY <1>3, <1>4
<1>6. PICK x \in Versions : x \in b.spec /\ x \in c.spec
  BY <1>5
<1>7. x < x \/ (b.spec # c.spec /\ IsPin(b.spec) /\ IsPin(c.spec))
  BY <1>4, <1>6 DEF Apart
<1>8. ~(x < x)
  BY <1>6 DEF Versions
<1>9. IsPin(b.spec) /\ IsPin(c.spec) => b.spec = {x} /\ c.spec = {x}
  BY <1>6 DEF IsPin
<1> QED BY <1>7, <1>8, <1>9

LEMMA NewestIsChosen ==
    ASSUME NEW w \in World, NEW S, IsNewest(w, S), NEW p \in Packages, NEW ws, NEW range,
           S[p] # Absent, S[p] \in range
    PROVE  ChooseVersion(w, ws, p, range) = S[p]
<1> DEFINE M == Matching(w, p, range)
           x == S[p]
           viable == {v \in M : ~PinsAreImpossible(w, p, v)}
<1>1. x \in Versions /\ w.flaw[p][x] = "good" /\ x \in Catalog(w, p) \cap w.limit[p] /\ \A v \in Catalog(w, p) : v <= x
  BY NewestFacts
<1>2. x \in M /\ M \subseteq Catalog(w, p) /\ M \subseteq Int /\ x # None
  BY <1>1 DEF Matching, Catalog, Versions, None
<1>3. ~PinsAreImpossible(w, p, x)
  <2>1. S \in Solutions(w)
    BY DEF IsNewest
  <2> HIDE DEF M
  <2> QED BY <1>1, <2>1, SolvedPinsArePossible
<1>4. x \in viable /\ viable \subseteq M
  BY <1>2, <1>3
<1>5. Newest(M) = x /\ Newest(viable) = x
  <2> HIDE DEF M, viable, x
  <2>1. \A v \in M : v <= x
    BY <1>1, <1>2
  <2>2. viable \subseteq Int /\ \A v \in viable : v <= x
    BY <1>2, <1>4, <2>1
  <2> QED BY <1>2, <1>4, <2>1, <2>2, NewestIs
<1>6. NewestViable(w, p, M) = x
  BY <1>5 DEF NewestViable
<1> HIDE DEF M, x, viable
<1>7. Retrieved(w, ws, p, M, x) = x
  BY <1>1, <1>2 DEF Retrieved
<1>8. MetadataLoads(w, ws, p, M, x) = x /\ PythonRuns(w, ws, p, M, x) = x /\ NameAgrees(w, ws, p, M, x) = x
  BY <1>1, <1>2 DEF MetadataLoads, PythonRuns, NameAgrees
<1>9. ChooseVersion(w, ws, p, range)
        = IF M = {} THEN None
          ELSE NameAgrees(w, ws, p, M, PythonRuns(w, ws, p, M, MetadataLoads(w, ws, p, M,
                    Retrieved(w, ws, p, M, NewestViable(w, p, M)))))
  BY DEF ChooseVersion, M
<1> QED BY <1>2, <1>6, <1>7, <1>8, <1>9 DEF x

\* A requirement that S meets does not rule S out, whichever versions it is a requirement of.
LEMMA MetIsAdmitted ==
    ASSUME NEW S, NEW p \in Names, NEW q \in Packages, p # q, NEW V \in SUBSET Universe,
           NEW R \in SUBSET Universe, NEW cause, S[q] \in R
    PROVE  Admits(RequirementClause(p, V, q, R, cause), S)
<1> DEFINE c == RequirementClause(p, V, q, R, cause)
<1>1. LET d == RequirementClause(p, V, q, R, cause)
      IN  /\ Typed(d) /\ d.cause = cause /\ d.order = <<p, q>>
          /\ d.terms[p] = [positive |-> TRUE, range |-> V]
          /\ d.terms[q] = [positive |-> FALSE, range |-> R]
          /\ \A n \in Names \ {p, q} : d.terms[n] = NoTerm
          /\ About(d) = {p, q}
  BY RequirementClauseFacts
<1>2. q \in About(c) /\ c.terms[q] = [positive |-> FALSE, range |-> R]
  BY <1>1
<1> HIDE DEF c
<1>3. ~Holds(c.terms[q], Chosen(S, q))
  BY <1>2, UniverseFacts DEF Holds, Chosen
<1>4. Admits(c, S)
  BY <1>2, <1>3 DEF Admits
<1> QED BY <1>4 DEF c

LEMMA TracksDecide ==
    ASSUME Types, AsksForNoExtra(world), NEW S, IsNewest(world, S), Tracks(S),
           NEW p \in Packages, NEW v, v = S[p], Decide(p, v)
    PROVE  Tracks(S)'
<1> DEFINE Q == RequiredOf(p, v)
           under == UnderOf(p, v)
           range == RangesOf(p, v)
<1>1. /\ v \in Versions /\ positive' = [positive EXCEPT ![p] = {v}] /\ decided' = [decided EXCEPT ![p] = v]
      /\ GetDependencies(p, v, FullOf(p, v)) /\ phase' = "propagating" /\ UNCHANGED <<world, negative>>
  BY DecideParts
<1>2. world \in World /\ extras = world.asked /\ S \in Solutions(world) /\ under \subseteq world.asked
  <2>1. under \in {extras, extras \ {p}}
    BY UnderFacts DEF UnderOf
  <2> HIDE DEF under
  <2> QED BY <2>1, TypesParts DEF Tracks, IsNewest
<1>3. extras' = world.asked
  BY <1>1, <1>2, DependenciesKeep
<1>4. PICK new : Adds(clauses, p, v, Q, range, new) /\ clauses' = AddDependencies(clauses, p, v, range, new)
  BY DecideAdds
<1>5. \A q \in Q : /\ S[q] \in range[q] /\ range[q] \in SUBSET Universe /\ q \in Packages /\ q # p /\ p \in Names
                   /\ {v} \in SUBSET Universe
  <2> SUFFICES ASSUME NEW q \in Q
               PROVE  /\ S[q] \in range[q] /\ range[q] \in SUBSET Universe /\ q \in Packages /\ q # p /\ p \in Names
                      /\ {v} \in SUBSET Universe
    OBVIOUS
  <2>1. range[q] = RangeOf(world, under, p, v, q)
    BY DEF RangesOf
  <2>2. S[p] \in Versions /\ q \in Required(world, under, p, S[p])
    BY <1>1 DEF RequiredOf
  <2> HIDE DEF under
  <2>3. S[q] \in RangeOf(world, under, p, S[p], q)
    BY <1>2, <2>2, RangeIsRequired
  <2> HIDE DEF Q, range
  <2>4. q \in Packages /\ q # p /\ range[q] \in SUBSET Universe
    BY <1>4 DEF Adds
  <2> QED BY <1>1, <1>2, <2>1, <2>3, <2>4, UniverseFacts
<1>6. \A c \in Range(clauses') : Admits(c, S)
  <2> HIDE DEF Q, range
  <2> DEFINE r == AddDependencies(clauses, p, v, range, new)
  <2>0. Added(clauses, r, p, v, Q, range)
    BY <1>4, AddedFacts
  <2>1. /\ \A i \in DOMAIN clauses :
             \/ r[i] = clauses[i]
             \/ \E q \in Q, V \in SUBSET Universe :
                 /\ clauses[i] = RequirementClause(p, V, q, range[q], "dependency")
                 /\ r[i] = RequirementClause(p, V \cup {v}, q, range[q], "dependency")
        /\ \A i \in DOMAIN r : i \notin DOMAIN clauses =>
             \E q \in Q : r[i] = RequirementClause(p, {v}, q, range[q], "dependency")
    BY <2>0 DEF Added
  <2>2. clauses' = r
    BY <1>4
  <2> HIDE DEF r
  <2>3. \A q \in Q : \A V \in SUBSET Universe : Admits(RequirementClause(p, V, q, range[q], "dependency"), S)
    BY <1>5, MetIsAdmitted
  <2>4. \A V \in SUBSET Universe, q \in Q : V \cup {v} \in SUBSET Universe
    BY <1>5
  <2>5. \A i \in DOMAIN clauses : Admits(clauses[i], S)
    BY DEF Tracks, Range
  <2>6. ASSUME NEW i \in DOMAIN r PROVE Admits(r[i], S)
    <3>1. CASE i \notin DOMAIN clauses
      BY <1>5, <2>1, <2>3, <3>1
    <3>2. CASE i \in DOMAIN clauses
      <4>1. CASE r[i] = clauses[i]
        BY <2>5, <3>2, <4>1
      <4>2. CASE \E q \in Q, V \in SUBSET Universe :
                    /\ clauses[i] = RequirementClause(p, V, q, range[q], "dependency")
                    /\ r[i] = RequirementClause(p, V \cup {v}, q, range[q], "dependency")
        <5>1. PICK q \in Q, V \in SUBSET Universe : r[i] = RequirementClause(p, V \cup {v}, q, range[q], "dependency")
          BY <4>2
        <5>2. PICK W \in SUBSET Universe : W = V \cup {v}
          BY <2>4
        <5>3. Admits(RequirementClause(p, W, q, range[q], "dependency"), S)
          BY <2>3
        <5> QED BY <5>1, <5>2, <5>3
      <4> QED BY <2>1, <3>2, <4>1, <4>2
    <3> QED BY <3>1, <3>2
  <2> QED BY <2>2, <2>6 DEF Range
<1>7. \A q \in Names : Allows(q, Chosen(S, q))'
  <2> SUFFICES ASSUME NEW q \in Names PROVE Allows(q, Chosen(S, q))'
    OBVIOUS
  <2>1. Allows(q, Chosen(S, q))
    BY DEF Tracks
  <2>2. positive \in [Names -> Ranges] /\ decided \in [Names -> Versions \cup {None}] /\ p \in Names
    BY TypesParts, UniverseFacts DEF SolutionTypes
  <2>3. CASE q = p
    <3>1. Chosen(S, p) = v
      BY UniverseFacts DEF Chosen
    <3>2. positive'[p] = {v} /\ decided'[p] = v
      BY <1>1, <2>2
    <3> QED BY <1>1, <2>1, <2>3, <3>1, <3>2 DEF Allows
  <2>4. CASE q # p
    BY <1>1, <2>1, <2>2, <2>4 DEF Allows
  <2> QED BY <2>3, <2>4
<1> QED BY <1>1, <1>3, <1>6, <1>7 DEF Tracks

LEMMA TracksChoose ==
    ASSUME Types, AsksForNoExtra(world), NEW S, IsNewest(world, S), Tracks(S), Choose
    PROVE  Tracks(S)'
<1>1. PICK p \in Undecided : \E v : /\ v = ChooseVersion(world, wants, p, RangeOrFull(p))
                                    /\ Decide(p, v) \/ RecordNoVersions(p, v) \/ ChoiceRaises(v)
  BY ChooseCases
<1>2. PICK v : /\ v = ChooseVersion(world, wants, p, RangeOrFull(p))
               /\ Decide(p, v) \/ RecordNoVersions(p, v) \/ ChoiceRaises(v)
  BY <1>1
<1>3. p \in Packages /\ p \in Names /\ positive[p] # NoRange /\ world \in World /\ extras = world.asked
  BY UndecidedFacts, TypesParts DEF Tracks
<1>4. Allows(p, S[p])
  <2>1. Chosen(S, p) = S[p]
    BY <1>3, NewestFacts
  <2> QED BY <1>3, <2>1 DEF Tracks
<1>5. positive[p] \in SUBSET Universe /\ Absent \notin Universe
  BY <1>3, TypesParts, SizeAssumption DEF SolutionTypes, Ranges, Universe, Absent
<1>6. S[p] \in RangeNow(p) /\ S[p] # Absent /\ RangeNow(p) # NoRange
  BY <1>3, <1>4, <1>5 DEF Allows, RangeNow, Effective, NoRange, Absent
<1>7. S[p] \in RangeOrFull(p)
  BY <1>6 DEF RangeOrFull
<1>8. v = S[p]
  BY <1>2, <1>3, <1>6, <1>7, NewestIsChosen
<1>9. v # None /\ v # Raises
  <2>1. S[p] \in Versions
    BY <1>3, <1>6, NewestFacts
  <2> QED BY <1>8, <2>1 DEF Versions, None, Raises
<1>10. Decide(p, v)
  BY <1>2, <1>9 DEF RecordNoVersions, ChoiceRaises
<1> QED BY <1>3, <1>8, <1>10, TracksDecide

LEMMA TracksBuild ==
    ASSUME Types, AsksForNoExtra(world), NEW S, Tracks(S), AllDecided \/ Visit \/ Answer
    PROVE  Tracks(S)'
<1>1. UNCHANGED <<world, clauses, positive, negative, decided>> /\ phase' \in {"building", "no decision", "done"}
  BY DEF AllDecided, Visit, Walk, HasNoDecision, Skip, Answer, solution
<1>2. extras' = world.asked
  <2>1. CASE AllDecided \/ Answer
    BY <2>1 DEF AllDecided, Answer, provider, Tracks
  <2>2. CASE Visit
    <3> DEFINE p == Head(queue)
    <3>1. Walk(p) \/ HasNoDecision(p) \/ Skip(p)
      BY <2>2 DEF Visit
    <3>2. p \in Packages
      <4>1. queue \in Seq(Packages) /\ queue # <<>>
        BY <2>2, TypesParts DEF Visit, QueueTypes
      <4> QED BY <4>1, HeadTailProperties
    <3> HIDE DEF p
    <3>3. CASE HasNoDecision(p) \/ Skip(p)
      BY <3>3 DEF HasNoDecision, Skip, provider, Tracks
    <3>4. CASE Walk(p)
      <4>1. decided[p] \in Versions
        <5>1. decided[p] # None /\ decided \in [Names -> Versions \cup {None}] /\ p \in Names
          BY <3>2, <3>4, TypesParts, UniverseFacts DEF Walk, SolutionTypes
        <5> QED BY <5>1
      <4>2. \E full : GetDependencies(p, decided[p], full)
        BY <3>4 DEF Walk
      <4> QED BY <3>2, <4>1, <4>2, DependenciesKeep DEF Tracks
    <3> QED BY <3>1, <3>3, <3>4
  <2> QED BY <2>1, <2>2
<1> QED BY <1>1, <1>2 DEF Tracks, Allows

LEMMA WorldStays == ASSUME [Next]_vars PROVE world' = world
<1>1. Propagate => world' = world
  BY DEF Propagate, Derive, FindConflict, NextPackage
<1>2. \A c, a, learned : Backjump(c, a, learned) => world' = world
  BY DEF Backjump
<1>3. Explain => world' = world
  BY <1>2 DEF Explain, Resolve, Jump, GiveUp
<1>4. \A p, v : Decide(p, v) => world' = world
  BY DEF Decide
<1>5. Choose => world' = world
  BY <1>4 DEF Choose, RecordNoVersions, ChoiceRaises
<1>6. Stop \/ AllDecided \/ Visit \/ Answer \/ Ends \/ UNCHANGED vars => world' = world
  BY DEF Stop, AllDecided, Visit, Answer, Ends, vars
<1> QED BY <1>1, <1>3, <1>5, <1>6 DEF Next

LEMMA TracksKept == ASSUME Types, TracksNewest, [Next]_vars PROVE TracksNewest'
<1> SUFFICES ASSUME AsksForNoExtra(world), NEW S, IsNewest(world, S) PROVE Tracks(S)'
  BY WorldStays DEF TracksNewest
<1>1. Tracks(S)
  BY DEF TracksNewest
<1>2. CASE UNCHANGED vars
  BY <1>1, <1>2 DEF vars, provider, solution, search, Tracks, Allows
<1>3. CASE Ends
  BY <1>1, <1>3 DEF Ends, vars, provider, solution, search, Tracks, Allows
<1>4. CASE Stop \/ Explain
  BY <1>1, <1>4 DEF Stop, Explain, Tracks
<1> QED BY <1>1, <1>2, <1>3, <1>4, TracksPropagate, TracksChoose, TracksBuild DEF Next

LEMMA TracksFirst == ASSUME Init, Types PROVE TracksNewest
<1> SUFFICES ASSUME AsksForNoExtra(world), NEW S, IsNewest(world, S) PROVE Tracks(S)
  BY DEF TracksNewest
<1>1. /\ extras = RootExtras(world) /\ phase = "propagating"
      /\ positive = [p \in Names |-> IF p = ROOT THEN {1} ELSE NoRange]
      /\ negative = [p \in Names |-> NoRange]
      /\ decided = [p \in Names |-> IF p = ROOT THEN 1 ELSE None]
  BY DEF Init
<1>2. world \in World /\ S \in Solutions(world)
  BY TypesParts DEF IsNewest
<1>3. extras = world.asked
  BY <1>1, <1>2, RootExtrasStay
<1>4. \A p \in Names : Allows(p, Chosen(S, p))
  BY <1>1 DEF Allows, Chosen
<1>5. \A c \in Range(clauses) : Admits(c, S)
  <2>1. PICK roots \in InOrder(Roots(world), [p \in Packages |-> p]) : clauses = RootClauses(world, roots)
    BY DEF Init
  <2>2. Roots(world) \subseteq Packages
    BY DEF Roots
  <2>3. PICK n \in Nat : DOMAIN roots = 1..n /\ \A k \in DOMAIN roots : roots[k] \in Roots(world)
    BY <2>1, <2>2, InOrderFacts
  <2>4. \A k \in DOMAIN clauses : /\ roots[k] \in Roots(world)
                                  /\ clauses[k] = RequirementClause(ROOT, {1}, roots[k], RootRange(world, roots[k]), "root")
    BY <2>1, <2>3 DEF RootClauses
  <2>5. ASSUME NEW q \in Roots(world)
        PROVE  Admits(RequirementClause(ROOT, {1}, q, RootRange(world, q), "root"), S)
    <3> DEFINE V == {1}
               R == RootRange(world, q)
    <3>1. q \in Packages /\ V \in SUBSET Universe /\ R \in SUBSET Universe /\ S[q] \in R /\ ROOT # q /\ ROOT \in Names
      BY <1>2, RootIsRequired, UniverseFacts
    <3> HIDE DEF V, R
    <3>2. Admits(RequirementClause(ROOT, V, q, R, "root"), S)
      BY <3>1, MetIsAdmitted
    <3> QED BY <3>2 DEF V, R
  <2> QED BY <2>4, <2>5 DEF Range
<1> QED BY <1>1, <1>3, <1>4, <1>5 DEF Tracks

\* PrefersNewest: where the newest releases satisfy everything they are selected. The search then never
\* meets a conflict: they satisfy each clause, so that every derivation agrees with them, and
\* choose_version, whose forward check of pins they pass, offers no other release.
THEOREM NewestIsSelected == Spec => []PrefersNewest
<1>1. Init => TracksNewest
  BY TypesFirst, TracksFirst
<1>2. TracksNewest => PrefersNewest
  <2> SUFFICES ASSUME TracksNewest, phase = "done", AsksForNoExtra(world), NEW S \in Solutions(world),
                      AllNewest(world, S), NEW p \in Packages, Selected[p] # Absent
               PROVE  Selected[p] = S[p]
    BY DEF PrefersNewest
  <2>1. Tracks(S)
    BY DEF TracksNewest, IsNewest
  <2>2. Selected[p] = decided[p] /\ decided[p] # None
    BY DEF Selected, None, Absent
  <2>3. Chosen(S, p) = S[p] /\ p \in Names
    BY UniverseFacts DEF Chosen
  <2> QED BY <2>1, <2>2, <2>3 DEF Tracks, Allows
<1> QED BY <1>1, <1>2, TypesFirst, TypesKept, TracksKept, PTL DEF Spec

------------------------------------------------------------------------------------
(* The trail: what every entry of it is, and that what is cached is its last word.  *)

\* What the entries of p up to the n-th assert and deny.
TruthsOf(tr, p, n) == {i \in EntriesOf(tr, p) : i <= n /\ Says(tr[i]).positive}
DenialsOf(tr, p, n) == {i \in EntriesOf(tr, p) : i <= n /\ ~Says(tr[i]).positive}

\* The ranges of p that they add up to.
PosAt(tr, p, n) ==
    IF TruthsOf(tr, p, n) = {} THEN NoRange
    ELSE {v \in Universe : \A i \in TruthsOf(tr, p, n) : v \in Says(tr[i]).range}
NegAt(tr, p, n) ==
    IF DenialsOf(tr, p, n) = {} THEN NoRange
    ELSE {v \in Universe : \E i \in DenialsOf(tr, p, n) : v \in Says(tr[i]).range}

\* What is left to a package as of an entry.
Left(e) == Effective(e.pos, e.neg)

\* A decision is for a version that was left, and opens a level.
DecisionFits(tr, k) ==
    /\ tr[k].decision \in Versions /\ tr[k].pos = {tr[k].decision} /\ Left(tr[k]) = {tr[k].decision}
    /\ \A j \in 1..k - 1 : tr[j].level < tr[k].level

\* A derivation follows from entries before it, by a clause about its package.
DerivationFits(tr, k) ==
    /\ tr[k].decision = None /\ tr[k].package \in About(tr[k].cause)
    /\ \A q \in About(tr[k].cause) \ {tr[k].package} :
            \E j \in Satisfiers(tr, q, tr[k].cause.terms[q]) : j < k

EntryFits(tr, k) ==
    /\ tr[k].level >= 1 /\ \A j \in 1..k - 1 : tr[j].level <= tr[k].level
    /\ tr[k].pos = PosAt(tr, tr[k].package, k) /\ tr[k].neg = NegAt(tr, tr[k].package, k)
    /\ \A j \in 1..k - 1 : tr[j].package = tr[k].package => tr[j].cause # NoClause
    /\ tr[k].cause = NoClause => DecisionFits(tr, k)
    /\ tr[k].cause # NoClause => DerivationFits(tr, k)

TrailFits(tr) == /\ TrailTypes(tr) /\ Len(tr) >= 1 /\ tr[1] = RootTrail[1]
                 /\ \A k \in DOMAIN tr : EntryFits(tr, k)

\* An entry fits whatever comes after it.
LEMMA PrefixFits ==
    ASSUME NEW s, NEW t, TrailTypes(s), TrailTypes(t), NEW n \in Nat, n <= Len(s), n <= Len(t),
           \A i \in 1..n : s[i] = t[i], NEW k \in 1..n
    PROVE  /\ EntryFits(s, k) => EntryFits(t, k)
           /\ \A q, u : k \in Satisfiers(s, q, u) <=> k \in Satisfiers(t, q, u)
<1>1. DOMAIN s = 1..Len(s) /\ DOMAIN t = 1..Len(t) /\ Len(s) \in Nat /\ Len(t) \in Nat
  BY EntryFacts
<1>2. \A i \in 1..n : i \in DOMAIN s /\ i \in DOMAIN t
  BY <1>1
<1>3. s[k] = t[k]
  OBVIOUS
<1>4. \A p : \A i \in 1..n : i \in EntriesOf(s, p) <=> i \in EntriesOf(t, p)
  BY <1>2 DEF EntriesOf
<1>5. \A q, u : \A i \in 1..n : i \in Satisfiers(s, q, u) <=> i \in Satisfiers(t, q, u)
  BY <1>4 DEF Satisfiers
<1>6. \A p : TruthsOf(s, p, k) = TruthsOf(t, p, k) /\ DenialsOf(s, p, k) = DenialsOf(t, p, k)
  <2> SUFFICES ASSUME NEW p
               PROVE  TruthsOf(s, p, k) = TruthsOf(t, p, k) /\ DenialsOf(s, p, k) = DenialsOf(t, p, k)
    OBVIOUS
  <2>1. \A i : i \in EntriesOf(s, p) \/ i \in EntriesOf(t, p) => i \in Nat /\ i >= 1
    BY <1>1 DEF EntriesOf
  <2>2. \A i : i \in EntriesOf(s, p) /\ i <= k => i \in EntriesOf(t, p) /\ s[i] = t[i]
    BY <1>4, <2>1
  <2>3. \A i : i \in EntriesOf(t, p) /\ i <= k => i \in EntriesOf(s, p) /\ s[i] = t[i]
    BY <1>4, <2>1
  <2> QED BY <2>2, <2>3 DEF TruthsOf, DenialsOf
<1>7. \A p : \A i \in TruthsOf(s, p, k) \cup DenialsOf(s, p, k) : s[i] = t[i]
  <2> SUFFICES ASSUME NEW p, NEW i \in EntriesOf(s, p), i <= k PROVE s[i] = t[i]
    BY DEF TruthsOf, DenialsOf
  <2>1. i \in 1..n
    BY <1>1 DEF EntriesOf
  <2> QED BY <2>1
<1>8. \A p : PosAt(s, p, k) = PosAt(t, p, k) /\ NegAt(s, p, k) = NegAt(t, p, k)
  BY <1>6, <1>7 DEF PosAt, NegAt
<1>9. \A j \in 1..k - 1 : s[j] = t[j]
  OBVIOUS
<1>10. ASSUME EntryFits(s, k) PROVE EntryFits(t, k)
  <2>1. DecisionFits(s, k) => DecisionFits(t, k)
    BY <1>3, <1>9 DEF DecisionFits
  <2>2. ASSUME DerivationFits(s, k) PROVE DerivationFits(t, k)
    <3>1. \A q, u : \A j \in Satisfiers(s, q, u) : j < k => j \in Satisfiers(t, q, u)
      <4> SUFFICES ASSUME NEW q, NEW u, NEW j \in Satisfiers(s, q, u), j < k PROVE j \in Satisfiers(t, q, u)
        OBVIOUS
      <4>1. j \in 1..n
        BY <1>1 DEF Satisfiers, EntriesOf
      <4> QED BY <1>5, <4>1
    <3> QED BY <1>3, <2>2, <3>1 DEF DerivationFits
  <2>3. /\ s[k].level >= 1 /\ \A j \in 1..k - 1 : s[j].level <= s[k].level
        /\ s[k].pos = PosAt(s, s[k].package, k) /\ s[k].neg = NegAt(s, s[k].package, k)
        /\ \A j \in 1..k - 1 : s[j].package = s[k].package => s[j].cause # NoClause
        /\ s[k].cause = NoClause => DecisionFits(s, k)
        /\ s[k].cause # NoClause => DerivationFits(s, k)
    BY <1>10 DEF EntryFits
  <2> QED BY <1>3, <1>8, <1>9, <2>1, <2>2, <2>3 DEF EntryFits
<1> QED BY <1>5, <1>10

LEMMA RangeIsSome == \A V \in SUBSET Universe : V # NoRange
BY DEF NoRange, Universe

\* What is left as of an entry is what all entries of the package up to it agree on.
LEMMA LeftIs ==
    ASSUME NEW tr, TrailTypes(tr), NEW k \in DOMAIN tr, EntryFits(tr, k)
    PROVE  /\ Left(tr[k]) = {v \in Universe : \A i \in EntriesOf(tr, tr[k].package) :
                                i <= k => Holds(Says(tr[i]), v)}
           /\ Left(tr[k]) # NoRange
           /\ tr[k].pos = NoRange <=> TruthsOf(tr, tr[k].package, k) = {}
<1> DEFINE p == tr[k].package
           yes == TruthsOf(tr, p, k)
           no == DenialsOf(tr, p, k)
           agreed == {v \in Universe : \A i \in EntriesOf(tr, p) : i <= k => Holds(Says(tr[i]), v)}
<1>1. tr[k].pos = PosAt(tr, p, k) /\ tr[k].neg = NegAt(tr, p, k)
  BY DEF EntryFits
<1>2. k \in EntriesOf(tr, p) /\ k <= k
  BY EntryFacts DEF EntriesOf
<1>3. yes # {} \/ no # {}
  BY <1>2 DEF TruthsOf, DenialsOf
<1>4. \A v \in Universe : v \in agreed <=> (\A i \in yes : v \in Says(tr[i]).range) /\ (\A i \in no : v \notin Says(tr[i]).range)
  BY DEF TruthsOf, DenialsOf, Holds
<1>5. \A V \in SUBSET Universe : V # NoRange
  BY RangeIsSome
<1>6. agreed \in SUBSET Universe
  OBVIOUS
<1> DEFINE pos == {v \in Universe : \A i \in yes : v \in Says(tr[i]).range}
           neg == {v \in Universe : \E i \in no : v \in Says(tr[i]).range}
<1>7. tr[k].pos = (IF yes = {} THEN NoRange ELSE pos) /\ tr[k].neg = (IF no = {} THEN NoRange ELSE neg)
  BY <1>1 DEF PosAt, NegAt
<1>8. pos # NoRange /\ neg # NoRange /\ pos \subseteq Universe /\ neg \subseteq Universe
  BY <1>5
<1>9. \A v \in Universe : (v \in pos <=> \A i \in yes : v \in Says(tr[i]).range)
                          /\ (v \in neg <=> \E i \in no : v \in Says(tr[i]).range)
  OBVIOUS
<1> HIDE DEF yes, no, agreed, pos, neg
<1>10. Left(tr[k]) = agreed
  <2>1. CASE yes # {} /\ no # {}
    <3>1. Left(tr[k]) = pos \ neg
      BY <1>7, <1>8, <2>1 DEF Left, Effective
    <3> QED BY <1>4, <1>6, <1>8, <1>9, <3>1
  <2>2. CASE yes # {} /\ no = {}
    <3>1. Left(tr[k]) = pos
      BY <1>7, <1>8, <2>2 DEF Left, Effective
    <3> QED BY <1>4, <1>6, <1>8, <1>9, <2>2, <3>1
  <2>3. CASE yes = {} /\ no # {}
    <3>1. Left(tr[k]) = Universe \ neg
      BY <1>7, <1>8, <2>3 DEF Left, Effective, Full
    <3> QED BY <1>4, <1>6, <1>8, <1>9, <2>3, <3>1
  <2> QED BY <1>3, <2>1, <2>2, <2>3
<1>11. tr[k].pos = NoRange <=> yes = {}
  BY <1>7, <1>8
<1> QED BY <1>5, <1>6, <1>10, <1>11 DEF yes, agreed

\* A term that an entry satisfies is satisfied by the later entries of the package.
LEMMA StillSatisfied ==
    ASSUME NEW tr, TrailTypes(tr), NEW p, NEW t, NEW i \in Satisfiers(tr, p, t), NEW k \in EntriesOf(tr, p), i <= k,
           EntryFits(tr, i), EntryFits(tr, k)
    PROVE  k \in Satisfiers(tr, p, t)
<1>1. i \in DOMAIN tr /\ k \in DOMAIN tr /\ tr[i].package = p /\ tr[k].package = p /\ i \in Nat /\ k \in Nat
  BY EntryFacts DEF Satisfiers, EntriesOf
<1>2. Left(tr[k]) \subseteq Left(tr[i])
  <2>1. /\ Left(tr[i]) = {v \in Universe : \A j \in EntriesOf(tr, p) : j <= i => Holds(Says(tr[j]), v)}
        /\ Left(tr[k]) = {v \in Universe : \A j \in EntriesOf(tr, p) : j <= k => Holds(Says(tr[j]), v)}
    BY <1>1, LeftIs
  <2>2. \A j \in EntriesOf(tr, p) : j \in Nat /\ (j <= i => j <= k)
    BY <1>1, EntryFacts DEF EntriesOf
  <2> QED BY <2>1, <2>2
<1>3. tr[i].pos # NoRange => tr[k].pos # NoRange
  <2>1. \A j \in TruthsOf(tr, p, i) : j \in TruthsOf(tr, p, k)
    BY <1>1, EntryFacts DEF TruthsOf, EntriesOf
  <2>2. /\ tr[i].pos = NoRange <=> TruthsOf(tr, p, i) = {}
        /\ tr[k].pos = NoRange <=> TruthsOf(tr, p, k) = {}
    BY <1>1, LeftIs
  <2> QED BY <2>1, <2>2
<1>4. (t.positive => tr[i].pos # NoRange) /\ Meets(t, Left(tr[i]))
  BY DEF Satisfiers, SatisfiedAt, Left
<1>5. Meets(t, Left(tr[k]))
  BY <1>2, <1>4 DEF Meets, Disjoint
<1> QED BY <1>3, <1>4, <1>5 DEF Satisfiers, SatisfiedAt, Left

\* The cache is what the last entry of each package says.
CacheIs(tr, pos, neg, dec) ==
    /\ DOMAIN pos = Names /\ DOMAIN neg = Names /\ DOMAIN dec = Names
    /\ \A p \in Names : EntriesOf(tr, p) = {} => pos[p] = NoRange /\ neg[p] = NoRange /\ dec[p] = None
    /\ \A p \in Names : \A k \in EntriesOf(tr, p) : (\A j \in EntriesOf(tr, p) : j <= k) =>
            pos[p] = tr[k].pos /\ neg[p] = tr[k].neg /\ dec[p] = tr[k].decision

Cached == CacheIs(trail, positive, negative, decided)

\* The last entry of a package says what its ranges are now.
LEMMA NowIs ==
    ASSUME TrailFits(trail), Cached, NEW p \in Names, EntriesOf(trail, p) # {}
    PROVE  \E k \in EntriesOf(trail, p) :
               /\ \A j \in EntriesOf(trail, p) : j <= k
               /\ k \in DOMAIN trail /\ trail[k].package = p /\ EntryFits(trail, k)
               /\ positive[p] = trail[k].pos /\ negative[p] = trail[k].neg /\ decided[p] = trail[k].decision
               /\ RangeNow(p) = Left(trail[k]) /\ RangeNow(p) # NoRange /\ RangeNow(p) \subseteq Universe
<1> DEFINE k == Max(EntriesOf(trail, p))
<1>1. k \in EntriesOf(trail, p) /\ k \in DOMAIN trail /\ \A j \in EntriesOf(trail, p) : j <= k
  BY LastEntry DEF TrailFits
<1> HIDE DEF k
<1>2. positive[p] = trail[k].pos /\ negative[p] = trail[k].neg /\ decided[p] = trail[k].decision
  BY <1>1 DEF Cached, CacheIs
<1>3. EntryFits(trail, k) /\ trail[k].package = p
  BY <1>1 DEF TrailFits, EntriesOf
<1>4. Left(trail[k]) # NoRange /\ Left(trail[k]) \subseteq Universe
  BY <1>1, <1>3, LeftIs DEF TrailFits
<1>5. RangeNow(p) = Left(trail[k])
  BY <1>2 DEF RangeNow, Left
<1> QED BY <1>1, <1>2, <1>3, <1>4, <1>5

\* Nothing is known of a package without an entry.
LEMMA NowIsNothing ==
    ASSUME Cached, NEW p \in Names, EntriesOf(trail, p) = {}
    PROVE  positive[p] = NoRange /\ negative[p] = NoRange /\ decided[p] = None /\ RangeNow(p) = NoRange
BY DEF Cached, CacheIs, RangeNow, Effective

LEMMA RelationFacts ==
    ASSUME NEW p, NEW t
    PROVE  /\ Relation(p, t) = "satisfied" <=>
                RangeNow(p) # NoRange /\ Meets(t, RangeNow(p)) /\ (t.positive => positive[p] # NoRange)
           /\ Relation(p, t) = "undetermined" => ~Meets(t, RangeNow(p)) \/ RangeNow(p) = NoRange
                                                  \/ (t.positive /\ positive[p] = NoRange)
           /\ Relation(p, t) \notin {"satisfied", "undetermined"} =>
                RangeNow(p) # NoRange /\ Meets(Negate(t), RangeNow(p)) /\ (~t.positive => positive[p] # NoRange)
           /\ Relation(p, t) = "undetermined" /\ positive[p] # NoRange /\ RangeNow(p) # NoRange =>
                ~Meets(t, RangeNow(p)) /\ ~Meets(Negate(t), RangeNow(p))
BY DEF Relation

\* A term is satisfied when an entry of the trail satisfies it.
LEMMA SatisfiedIs ==
    ASSUME TrailFits(trail), Cached, NEW p \in Names, NEW t
    PROVE  Relation(p, t) = "satisfied" <=> Satisfiers(trail, p, t) # {}
<1>1. CASE EntriesOf(trail, p) = {}
  <2>1. Relation(p, t) # "satisfied"
    BY <1>1, NowIsNothing, RelationFacts
  <2> QED BY <1>1, <2>1 DEF Satisfiers
<1>2. CASE EntriesOf(trail, p) # {}
  <2>1. PICK k \in EntriesOf(trail, p) :
               /\ \A j \in EntriesOf(trail, p) : j <= k
               /\ EntryFits(trail, k) /\ positive[p] = trail[k].pos
               /\ RangeNow(p) = Left(trail[k]) /\ RangeNow(p) # NoRange
    BY <1>2, NowIs
  <2>2. Relation(p, t) = "satisfied" <=> k \in Satisfiers(trail, p, t)
    BY <2>1, RelationFacts DEF Satisfiers, SatisfiedAt, Left
  <2>3. ASSUME NEW i \in Satisfiers(trail, p, t) PROVE k \in Satisfiers(trail, p, t)
    <3>1. i \in EntriesOf(trail, p) /\ i \in DOMAIN trail
      BY DEF Satisfiers, EntriesOf
    <3>2. EntryFits(trail, i) /\ i <= k /\ TrailTypes(trail)
      BY <2>1, <3>1 DEF TrailFits
    <3> QED BY <2>1, <3>2, StillSatisfied
  <2> QED BY <2>2, <2>3
<1> QED BY <1>1, <1>2

\* The decision on a package is the last of its entries.
LEMMA DecisionIs ==
    ASSUME TrailFits(trail), Cached, NEW p \in Names
    PROVE  /\ decided[p] # None => \E k \in EntriesOf(trail, p) :
                /\ k \in DOMAIN trail /\ trail[k].package = p /\ trail[k].cause = NoClause
                /\ trail[k].decision = decided[p]
                /\ decided[p] \in Versions /\ positive[p] = {decided[p]} /\ RangeNow(p) = {decided[p]}
                /\ \A j \in EntriesOf(trail, p) : j <= k /\ (trail[j].cause = NoClause => j = k)
           /\ decided[p] = None => \A k \in EntriesOf(trail, p) : trail[k].cause # NoClause
<1>1. CASE EntriesOf(trail, p) = {}
  BY <1>1, NowIsNothing
<1>2. CASE EntriesOf(trail, p) # {}
  <2>1. PICK k \in EntriesOf(trail, p) :
               /\ \A j \in EntriesOf(trail, p) : j <= k
               /\ k \in DOMAIN trail /\ trail[k].package = p /\ EntryFits(trail, k)
               /\ positive[p] = trail[k].pos /\ decided[p] = trail[k].decision
               /\ RangeNow(p) = Left(trail[k])
    BY <1>2, NowIs
  <2>2. \A j \in EntriesOf(trail, p) : j # k => j \in 1..k - 1 /\ trail[j].package = p
    BY <2>1, EntryFacts DEF EntriesOf, TrailFits
  <2>3. \A j \in EntriesOf(trail, p) : j # k => trail[j].cause # NoClause
    BY <2>1, <2>2 DEF EntryFits
  <2>4. CASE trail[k].cause = NoClause
    <3>1. DecisionFits(trail, k)
      BY <2>1, <2>4 DEF EntryFits
    <3>2. trail[k].decision \in Versions /\ None \notin Versions
      BY <3>1, SizeAssumption DEF DecisionFits, Versions, None
    <3> QED BY <2>1, <2>3, <2>4, <3>1, <3>2 DEF DecisionFits
  <2>5. CASE trail[k].cause # NoClause
    <3>1. decided[p] = None
      BY <2>1, <2>5 DEF EntryFits, DerivationFits
    <3> QED BY <2>3, <2>5, <3>1
  <2> QED BY <2>4, <2>5
<1> QED BY <1>1, <1>2

\* Nothing is derived about a package that is decided.
LEMMA UndeterminedIsUndecided ==
    ASSUME TrailFits(trail), Cached, NEW p \in Names, NEW t \in Term, Relation(p, t) = "undetermined"
    PROVE  decided[p] = None
<1>1. SUFFICES ASSUME decided[p] # None PROVE FALSE
  OBVIOUS
<1>2. decided[p] \in Versions /\ positive[p] = {decided[p]} /\ RangeNow(p) = {decided[p]}
  BY <1>1, DecisionIs
<1>3. {decided[p]} # NoRange
  BY <1>2, SizeAssumption DEF Versions, NoRange
<1>4. Meets(t, {decided[p]}) \/ Meets(Negate(t), {decided[p]})
  BY DEF Meets, Negate, Disjoint, Term
<1> QED BY <1>2, <1>3, <1>4, RelationFacts

\* The cached ranges are what the entries add up to.
LEMMA CacheAddsUp ==
    ASSUME TrailFits(trail), Cached, NEW p \in Names
    PROVE  positive[p] = PosAt(trail, p, Len(trail)) /\ negative[p] = NegAt(trail, p, Len(trail))
<1>1. DOMAIN trail = 1..Len(trail) /\ Len(trail) \in Nat
  BY EntryFacts DEF TrailFits
<1>2. CASE EntriesOf(trail, p) = {}
  <2>1. TruthsOf(trail, p, Len(trail)) = {} /\ DenialsOf(trail, p, Len(trail)) = {}
    BY <1>2 DEF TruthsOf, DenialsOf
  <2> QED BY <1>2, <2>1, NowIsNothing DEF PosAt, NegAt
<1>3. CASE EntriesOf(trail, p) # {}
  <2>1. PICK k \in EntriesOf(trail, p) :
               /\ \A j \in EntriesOf(trail, p) : j <= k
               /\ trail[k].package = p /\ EntryFits(trail, k)
               /\ positive[p] = trail[k].pos /\ negative[p] = trail[k].neg
    BY <1>3, NowIs
  <2>2. \A j \in EntriesOf(trail, p) : j <= k /\ j <= Len(trail)
    BY <1>1, <2>1 DEF EntriesOf
  <2>3. /\ TruthsOf(trail, p, k) = TruthsOf(trail, p, Len(trail))
        /\ DenialsOf(trail, p, k) = DenialsOf(trail, p, Len(trail))
    BY <2>2 DEF TruthsOf, DenialsOf
  <2>4. positive[p] = PosAt(trail, p, k) /\ negative[p] = NegAt(trail, p, k)
    BY <2>1 DEF EntryFits
  <2> QED BY <2>3, <2>4 DEF PosAt, NegAt
<1> QED BY <1>2, <1>3

LEMMA LevelsRise ==
    ASSUME NEW tr, TrailFits(tr)
    PROVE  /\ Level(tr) \in Nat /\ Level(tr) >= 1 /\ Level(tr) = tr[Len(tr)].level /\ Len(tr) \in DOMAIN tr
           /\ \A i \in DOMAIN tr : tr[i].level \in Nat /\ tr[i].level >= 1 /\ tr[i].level <= Level(tr)
           /\ \A i, j \in DOMAIN tr : i <= j => tr[i].level <= tr[j].level
<1>1. DOMAIN tr = 1..Len(tr) /\ Len(tr) \in Nat /\ Len(tr) >= 1 /\ \A i \in DOMAIN tr : tr[i].level \in Nat
  BY EntryFacts DEF TrailFits
<1>2. \A i \in DOMAIN tr : tr[i].level >= 1
  BY DEF TrailFits, EntryFits
<1>3. ASSUME NEW i \in DOMAIN tr, NEW j \in DOMAIN tr, i <= j PROVE tr[i].level <= tr[j].level
  <2>1. EntryFits(tr, j)
    BY DEF TrailFits
  <2>2. CASE i = j
    BY <1>1, <2>2
  <2>3. CASE i < j
    <3>1. i \in 1..j - 1
      BY <1>1, <2>3
    <3> QED BY <2>1, <3>1 DEF EntryFits
  <2> QED BY <1>1, <1>3, <2>2, <2>3
<1>4. tr # <<>> /\ Len(tr) \in DOMAIN tr
  BY <1>1
<1>5. Level(tr) = tr[Len(tr)].level
  BY <1>4 DEF Level
<1>6. \A i \in DOMAIN tr : tr[i].level <= tr[Len(tr)].level
  BY <1>1, <1>3, <1>4
<1> QED BY <1>1, <1>2, <1>3, <1>4, <1>5, <1>6

\* A longer trail.
LEMMA AppendedFacts ==
    ASSUME NEW tr, TrailTypes(tr), NEW e \in Entry, Shape(e.cause)
    PROVE  /\ \A p : EntriesOf(Append(tr, e), p) =
                        IF e.package = p THEN EntriesOf(tr, p) \cup {Len(tr) + 1} ELSE EntriesOf(tr, p)
           /\ \A p, t : \A i : i \in Satisfiers(tr, p, t) <=> i \in Satisfiers(Append(tr, e), p, t) /\ i <= Len(tr)
<1> DEFINE new == Append(tr, e)
<1>1. /\ TrailTypes(new) /\ Len(new) = Len(tr) + 1 /\ new[Len(tr) + 1] = e
      /\ \A i \in 1..Len(tr) : new[i] = tr[i]
  BY LongerTrail
<1> HIDE DEF new
<1>2. DOMAIN tr = 1..Len(tr) /\ Len(tr) \in Nat /\ DOMAIN new = 1..Len(tr) + 1
  BY <1>1, EntryFacts
<1>3. \A p : EntriesOf(new, p) = IF e.package = p THEN EntriesOf(tr, p) \cup {Len(tr) + 1} ELSE EntriesOf(tr, p)
  BY <1>1, <1>2 DEF EntriesOf
<1>4. \A p, t : \A i : i \in Satisfiers(tr, p, t) <=> i \in Satisfiers(new, p, t) /\ i <= Len(tr)
  <2> SUFFICES ASSUME NEW p, NEW t, NEW i
               PROVE  i \in Satisfiers(tr, p, t) <=> i \in Satisfiers(new, p, t) /\ i <= Len(tr)
    OBVIOUS
  <2>1. i \in EntriesOf(tr, p) <=> i \in EntriesOf(new, p) /\ i <= Len(tr)
    BY <1>1, <1>2 DEF EntriesOf
  <2>2. i \in EntriesOf(tr, p) => new[i] = tr[i]
    BY <1>1, <1>2 DEF EntriesOf
  <2> QED BY <2>1, <2>2 DEF Satisfiers
<1> QED BY <1>3, <1>4 DEF new

LEMMA AppendFits ==
    ASSUME NEW tr, TrailFits(tr), NEW e \in Entry, Shape(e.cause), EntryFits(Append(tr, e), Len(tr) + 1)
    PROVE  TrailFits(Append(tr, e))
<1> DEFINE new == Append(tr, e)
<1>1. /\ TrailTypes(new) /\ Len(new) = Len(tr) + 1
      /\ \A i \in 1..Len(tr) : new[i] = tr[i]
  BY LongerTrail DEF TrailFits
<1> HIDE DEF new
<1>2. DOMAIN tr = 1..Len(tr) /\ Len(tr) \in Nat /\ Len(tr) >= 1 /\ DOMAIN new = 1..Len(tr) + 1 /\ TrailTypes(tr)
  BY <1>1, EntryFacts DEF TrailFits
<1>3. \A k \in 1..Len(tr) : EntryFits(tr, k)
  BY <1>2 DEF TrailFits
<1>4. \A k \in 1..Len(tr) : EntryFits(new, k)
  BY <1>1, <1>2, <1>3, PrefixFits
<1>5. \A k \in DOMAIN new : EntryFits(new, k)
  BY <1>2, <1>4 DEF new
<1>6. new[1] = tr[1] /\ Len(new) >= 1
  BY <1>1, <1>2
<1>7. TrailFits(new)
  BY <1>1, <1>5, <1>6 DEF TrailFits
<1> QED BY <1>7 DEF new

LEMMA ShortenFits ==
    ASSUME NEW tr, TrailFits(tr), NEW m \in 1..Len(tr)
    PROVE  /\ TrailFits(SubSeq(tr, 1, m)) /\ Len(SubSeq(tr, 1, m)) = m
           /\ \A i \in 1..m : SubSeq(tr, 1, m)[i] = tr[i]
           /\ \A p, t : \A i : i \in Satisfiers(SubSeq(tr, 1, m), p, t) <=> i \in Satisfiers(tr, p, t) /\ i <= m
           /\ \A p : \A i : i \in EntriesOf(SubSeq(tr, 1, m), p) <=> i \in EntriesOf(tr, p) /\ i <= m
<1> DEFINE new == SubSeq(tr, 1, m)
<1>1. DOMAIN tr = 1..Len(tr) /\ Len(tr) \in Nat /\ TrailTypes(tr)
  BY EntryFacts DEF TrailFits
<1>2. m \in 0..Len(tr) /\ m \in Nat
  BY <1>1
<1>3. TrailTypes(new) /\ Len(new) = m /\ \A i \in 1..m : new[i] = tr[i]
  BY <1>1, <1>2, ShorterTrail
<1> HIDE DEF new
<1>4. DOMAIN new = 1..m
  BY <1>3, EntryFacts
<1>5. \A k \in 1..m : EntryFits(tr, k)
  BY <1>1, <1>2 DEF TrailFits
<1>6. \A k \in DOMAIN new : EntryFits(new, k)
  BY <1>1, <1>2, <1>3, <1>4, <1>5, PrefixFits
<1>7. new[1] = tr[1] /\ Len(new) >= 1
  BY <1>2, <1>3
<1>8. TrailFits(new)
  BY <1>3, <1>6, <1>7 DEF TrailFits
<1>9. \A p : \A i : i \in EntriesOf(new, p) <=> i \in EntriesOf(tr, p) /\ i <= m
  BY <1>1, <1>2, <1>3, <1>4 DEF EntriesOf
<1>10. \A p, t : \A i : i \in Satisfiers(new, p, t) <=> i \in Satisfiers(tr, p, t) /\ i <= m
  <2> SUFFICES ASSUME NEW p, NEW t, NEW i
               PROVE  i \in Satisfiers(new, p, t) <=> i \in Satisfiers(tr, p, t) /\ i <= m
    OBVIOUS
  <2>1. i \in EntriesOf(new, p) => new[i] = tr[i]
    BY <1>3, <1>4 DEF EntriesOf
  <2> QED BY <1>9, <2>1 DEF Satisfiers
<1> QED BY <1>3, <1>8, <1>9, <1>10 DEF new

LEMMA AppendCache ==
    ASSUME NEW tr, TrailTypes(tr), NEW pos, NEW neg, NEW dec, CacheIs(tr, pos, neg, dec), NEW e \in Entry, Shape(e.cause)
    PROVE  CacheIs(Append(tr, e), [pos EXCEPT ![e.package] = e.pos], [neg EXCEPT ![e.package] = e.neg],
                   [dec EXCEPT ![e.package] = e.decision])
<1> DEFINE new == Append(tr, e)
           p == e.package
<1>1. \A q : EntriesOf(new, q) = IF p = q THEN EntriesOf(tr, q) \cup {Len(tr) + 1} ELSE EntriesOf(tr, q)
  BY AppendedFacts
<1>2. /\ TrailTypes(new) /\ new[Len(tr) + 1] = e /\ \A i \in 1..Len(tr) : new[i] = tr[i]
  BY LongerTrail
<1> HIDE DEF new
<1>3. DOMAIN tr = 1..Len(tr) /\ Len(tr) \in Nat /\ p \in Names
  BY EntryFacts DEF Entry
<1>4. /\ DOMAIN pos = Names /\ DOMAIN neg = Names /\ DOMAIN dec = Names
      /\ \A q \in Names : EntriesOf(tr, q) = {} => pos[q] = NoRange /\ neg[q] = NoRange /\ dec[q] = None
      /\ \A q \in Names : \A k \in EntriesOf(tr, q) : (\A j \in EntriesOf(tr, q) : j <= k) =>
            pos[q] = tr[k].pos /\ neg[q] = tr[k].neg /\ dec[q] = tr[k].decision
  BY DEF CacheIs
<1> DEFINE pos2 == [pos EXCEPT ![p] = e.pos]
           neg2 == [neg EXCEPT ![p] = e.neg]
           dec2 == [dec EXCEPT ![p] = e.decision]
<1>5. /\ DOMAIN pos2 = Names /\ DOMAIN neg2 = Names /\ DOMAIN dec2 = Names
      /\ pos2[p] = e.pos /\ neg2[p] = e.neg /\ dec2[p] = e.decision
      /\ \A q \in Names : q # p => pos2[q] = pos[q] /\ neg2[q] = neg[q] /\ dec2[q] = dec[q]
  BY <1>3, <1>4
<1> HIDE DEF pos2, neg2, dec2, p
<1>6. ASSUME NEW q \in Names, EntriesOf(new, q) = {} PROVE pos2[q] = NoRange /\ neg2[q] = NoRange /\ dec2[q] = None
  <2>1. p # q /\ EntriesOf(tr, q) = {}
    BY <1>1, <1>6
  <2> QED BY <1>4, <1>5, <2>1
<1>7. ASSUME NEW q \in Names, NEW k \in EntriesOf(new, q), \A j \in EntriesOf(new, q) : j <= k
      PROVE  pos2[q] = new[k].pos /\ neg2[q] = new[k].neg /\ dec2[q] = new[k].decision
  <2>1. CASE p = q
    <3>1. Len(tr) + 1 <= k /\ (k \in 1..Len(tr) \/ k = Len(tr) + 1)
      BY <1>1, <1>3, <1>7, <2>1 DEF EntriesOf
    <3>2. k = Len(tr) + 1
      BY <1>3, <3>1
    <3> QED BY <1>2, <1>5, <2>1, <3>2
  <2>2. CASE p # q
    <3>1. EntriesOf(new, q) = EntriesOf(tr, q) /\ k \in 1..Len(tr)
      BY <1>1, <1>3, <2>2 DEF EntriesOf
    <3>2. new[k] = tr[k]
      BY <1>2, <3>1
    <3> QED BY <1>4, <1>5, <1>7, <2>2, <3>1, <3>2
  <2> QED BY <2>1, <2>2
<1>8. CacheIs(new, pos2, neg2, dec2)
  BY <1>5, <1>6, <1>7 DEF CacheIs
<1> QED BY <1>8 DEF new, pos2, neg2, dec2, p

LEMMA RestoredCache ==
    ASSUME NEW tr, TrailTypes(tr), RestoreFrom(tr) PROVE trail' = tr /\ Cached'
<1> DEFINE last(p) == Max(EntriesOf(tr, p))
           known(p) == EntriesOf(tr, p) # {}
<1>1. /\ trail' = tr
      /\ positive' = [p \in Names |-> IF known(p) THEN tr[last(p)].pos ELSE NoRange]
      /\ negative' = [p \in Names |-> IF known(p) THEN tr[last(p)].neg ELSE NoRange]
      /\ decided' = [p \in Names |-> IF known(p) THEN tr[last(p)].decision ELSE None]
  BY DEF RestoreFrom
<1>2. ASSUME NEW p \in Names, NEW k \in EntriesOf(tr, p), \A j \in EntriesOf(tr, p) : j <= k PROVE last(p) = k
  <2>1. last(p) \in EntriesOf(tr, p) /\ \A j \in EntriesOf(tr, p) : j <= last(p)
    BY LastEntry
  <2>2. \A j \in EntriesOf(tr, p) : j \in Nat
    BY EntryFacts DEF EntriesOf
  <2> HIDE DEF last
  <2>3. last(p) <= k /\ k <= last(p) /\ k \in Nat /\ last(p) \in Nat
    BY <1>2, <2>1, <2>2
  <2> QED BY <2>3
<1> HIDE DEF last
<1>3. CacheIs(tr, positive', negative', decided')
  BY <1>1, <1>2 DEF CacheIs
<1> QED BY <1>1, <1>3 DEF Cached

\* What p's range becomes when R is asserted of it, or denied.
Asserted(p, R) == IF positive[p] = NoRange THEN R ELSE positive[p] \cap R
Denied(p, R) == IF negative[p] = NoRange THEN R ELSE negative[p] \cup R

LEMMA NewEntryFits ==
    ASSUME TrailFits(trail), Cached, NEW e \in Entry, Shape(e.cause),
           decided[e.package] = None, e.level >= Level(trail), Says(e).range \subseteq Universe,
           e.pos = IF Says(e).positive THEN Asserted(e.package, Says(e).range) ELSE positive[e.package],
           e.neg = IF Says(e).positive THEN negative[e.package] ELSE Denied(e.package, Says(e).range),
           e.cause = NoClause => DecisionFits(Append(trail, e), Len(trail) + 1),
           e.cause # NoClause => DerivationFits(Append(trail, e), Len(trail) + 1)
    PROVE  TrailFits(Append(trail, e))
<1> DEFINE new == Append(trail, e)
           p == e.package
           n == Len(trail)
           t == Says(e)
<1>1. /\ TrailTypes(new) /\ Len(new) = n + 1 /\ new[n + 1] = e /\ \A i \in 1..n : new[i] = trail[i]
  BY LongerTrail DEF TrailFits
<1>2. \A q : EntriesOf(new, q) = IF p = q THEN EntriesOf(trail, q) \cup {n + 1} ELSE EntriesOf(trail, q)
  BY AppendedFacts DEF TrailFits
<1> HIDE DEF new
<1>3. DOMAIN trail = 1..n /\ n \in Nat /\ n >= 1 /\ p \in Names /\ e.level \in Nat
  BY EntryFacts DEF Entry, TrailFits
<1>4. \A i \in EntriesOf(trail, p) : i \in 1..n /\ new[i] = trail[i]
  BY <1>1, <1>3 DEF EntriesOf
<1> DEFINE yes == TruthsOf(trail, p, n)
           no == DenialsOf(trail, p, n)
           yes2 == TruthsOf(new, p, n + 1)
           no2 == DenialsOf(new, p, n + 1)
<1>5. /\ yes2 = IF t.positive THEN yes \cup {n + 1} ELSE yes
      /\ no2 = IF t.positive THEN no ELSE no \cup {n + 1}
      /\ n + 1 \notin yes /\ n + 1 \notin no
      /\ \A i \in yes \cup no : new[i] = trail[i]
  <2>1. EntriesOf(new, p) = EntriesOf(trail, p) \cup {n + 1} /\ Says(new[n + 1]) = t
    BY <1>1, <1>2
  <2>2. \A i \in EntriesOf(trail, p) : i <= n /\ i <= n + 1 /\ i # n + 1
    BY <1>3, <1>4
  <2>3. n + 1 \notin EntriesOf(trail, p)
    BY <2>2
  <2> HIDE DEF t, n, p
  <2>4. n + 1 <= n + 1
    BY <1>3
  <2>5. \A i : i \in yes2 <=> (i \in EntriesOf(trail, p) \/ i = n + 1) /\ Says(new[i]).positive
    BY <2>1, <2>2, <2>4 DEF TruthsOf
  <2>6. \A i : i \in no2 <=> (i \in EntriesOf(trail, p) \/ i = n + 1) /\ ~Says(new[i]).positive
    BY <2>1, <2>2, <2>4 DEF DenialsOf
  <2>7. \A i : i \in yes <=> i \in EntriesOf(trail, p) /\ Says(trail[i]).positive
    BY <2>2 DEF TruthsOf
  <2>8. \A i : i \in no <=> i \in EntriesOf(trail, p) /\ ~Says(trail[i]).positive
    BY <2>2 DEF DenialsOf
  <2> HIDE DEF yes, no, yes2, no2
  <2>9. \A i : i \in yes2 <=> i \in yes \/ (i = n + 1 /\ t.positive)
    BY <1>4, <2>1, <2>5, <2>7
  <2>10. \A i : i \in no2 <=> i \in no \/ (i = n + 1 /\ ~t.positive)
    BY <1>4, <2>1, <2>6, <2>8
  <2>11. n + 1 \notin yes /\ n + 1 \notin no /\ \A i \in yes \cup no : new[i] = trail[i]
    BY <1>4, <2>3, <2>7, <2>8
  <2>12. CASE t.positive
    BY <2>9, <2>10, <2>11, <2>12
  <2>13. CASE ~t.positive
    BY <2>9, <2>10, <2>11, <2>13
  <2> QED BY <2>12, <2>13
<1>6. positive[p] = PosAt(trail, p, n) /\ negative[p] = NegAt(trail, p, n)
  BY <1>3, CacheAddsUp
<1> DEFINE said(i) == Says(trail[i]).range
<1>7. /\ positive[p] = IF yes = {} THEN NoRange ELSE {v \in Universe : \A i \in yes : v \in said(i)}
      /\ negative[p] = IF no = {} THEN NoRange ELSE {v \in Universe : \E i \in no : v \in said(i)}
  BY <1>6 DEF PosAt, NegAt
<1>8. /\ PosAt(new, p, n + 1) = IF yes2 = {} THEN NoRange ELSE {v \in Universe : \A i \in yes2 : v \in Says(new[i]).range}
      /\ NegAt(new, p, n + 1) = IF no2 = {} THEN NoRange ELSE {v \in Universe : \E i \in no2 : v \in Says(new[i]).range}
  BY DEF PosAt, NegAt
<1>9. \A V \in SUBSET Universe : V # NoRange
  BY RangeIsSome
<1>10. Says(new[n + 1]) = t /\ t.range \subseteq Universe
  BY <1>1
<1> HIDE DEF yes, no, yes2, no2, t, n
<1>11. e.pos = PosAt(new, p, n + 1)
  <2>1. CASE ~t.positive
    <3>1. yes2 = yes /\ e.pos = positive[p]
      BY <1>5, <2>1 DEF t
    <3>2. \A i \in yes2 : Says(new[i]).range = said(i)
      BY <1>5, <3>1
    <3> HIDE DEF said
    <3>3. {v \in Universe : \A i \in yes : v \in said(i)} = {v \in Universe : \A i \in yes : v \in Says(new[i]).range}
      BY <3>1, <3>2
    <3> QED BY <1>7, <1>8, <3>1, <3>3
  <2>2. CASE t.positive
    <3>1. yes2 = yes \cup {n + 1} /\ e.pos = Asserted(p, t.range)
      BY <1>5, <2>2 DEF t
    <3>2. \A i \in yes : Says(new[i]).range = said(i)
      BY <1>5
    <3> HIDE DEF said
    <3>3. PosAt(new, p, n + 1) = {v \in Universe : (\A i \in yes : v \in said(i)) /\ v \in t.range}
      BY <1>8, <1>10, <3>1, <3>2
    <3>4. CASE yes = {}
      BY <1>7, <1>10, <3>1, <3>3, <3>4 DEF Asserted
    <3>5. CASE yes # {}
      <4>1. positive[p] # NoRange
        BY <1>7, <1>9, <3>5
      <4> QED BY <1>7, <1>10, <3>1, <3>3, <3>5, <4>1 DEF Asserted
    <3> QED BY <3>4, <3>5
  <2> QED BY <2>1, <2>2
<1>12. e.neg = NegAt(new, p, n + 1)
  <2>1. CASE t.positive
    <3>1. no2 = no /\ e.neg = negative[p]
      BY <1>5, <2>1 DEF t
    <3>2. \A i \in no2 : Says(new[i]).range = said(i)
      BY <1>5, <3>1
    <3> HIDE DEF said
    <3>3. {v \in Universe : \E i \in no : v \in said(i)} = {v \in Universe : \E i \in no : v \in Says(new[i]).range}
      BY <3>1, <3>2
    <3> QED BY <1>7, <1>8, <3>1, <3>3
  <2>2. CASE ~t.positive
    <3>1. no2 = no \cup {n + 1} /\ e.neg = Denied(p, t.range)
      BY <1>5, <2>2 DEF t
    <3>2. \A i \in no : Says(new[i]).range = said(i)
      BY <1>5
    <3> HIDE DEF said
    <3>3. NegAt(new, p, n + 1) = {v \in Universe : (\E i \in no : v \in said(i)) \/ v \in t.range}
      BY <1>8, <1>10, <3>1, <3>2
    <3>4. CASE no = {}
      BY <1>7, <1>10, <3>1, <3>3, <3>4 DEF Denied
    <3>5. CASE no # {}
      <4>1. negative[p] # NoRange
        BY <1>7, <1>9, <3>5
      <4> QED BY <1>7, <1>10, <3>1, <3>3, <3>5, <4>1 DEF Denied
    <3> QED BY <3>4, <3>5
  <2> QED BY <2>1, <2>2
<1>13. \A j \in 1..n : new[j].level <= e.level /\ new[j].level \in Nat /\ (new[j].package = p => new[j].cause # NoClause)
  <2> SUFFICES ASSUME NEW j \in 1..n
               PROVE  new[j].level <= e.level /\ new[j].level \in Nat /\ (new[j].package = p => new[j].cause # NoClause)
    OBVIOUS
  <2>1. j \in DOMAIN trail /\ new[j] = trail[j]
    BY <1>1, <1>3 DEF n
  <2>2. trail[j].level <= Level(trail) /\ trail[j].level \in Nat /\ Level(trail) \in Nat
    BY <2>1, LevelsRise
  <2>3. trail[j].package = p => trail[j].cause # NoClause
    BY <1>3, <2>1, DecisionIs DEF EntriesOf
  <2>4. trail[j].level <= e.level
    BY <1>3, <2>2
  <2> QED BY <2>1, <2>2, <2>3, <2>4
<1>14. e.level >= 1
  <2>1. Level(trail) >= 1 /\ Level(trail) \in Nat
    BY LevelsRise
  <2> QED BY <1>3, <2>1
<1>15. \A j \in 1..(n + 1) - 1 : j \in 1..n
  BY <1>3 DEF n
<1>16. e.cause = NoClause => DecisionFits(new, n + 1)
  BY DEF new, n
<1>17. e.cause # NoClause => DerivationFits(new, n + 1)
  BY DEF new, n
<1>18. EntryFits(new, n + 1)
  <2>1. new[n + 1] = e
    BY <1>1 DEF n
  <2> HIDE DEF said
  <2> QED BY <1>11, <1>12, <1>13, <1>14, <1>15, <1>16, <1>17, <2>1 DEF EntryFits
<1>19. TrailFits(Append(trail, e))
  BY <1>18, AppendFits DEF new, n
<1> QED BY <1>19

LEMMA DeriveFits ==
    ASSUME TrailFits(trail), Cached, ProviderTypes, SolutionTypes, NEW i, NEW p, Derives(i, p), decided' = decided
    PROVE  TrailFits(trail') /\ Cached'
<1> DEFINE c == clauses[i]
           t == Negate(c.terms[p])
           e == Assign(p, Level(trail), c, NewPos(p, t), NewNeg(p, t), decided[p])
           n == Len(trail)
<1>1. /\ Shape(c) /\ p \in About(c) /\ p \in Names /\ t \in Term /\ c.terms[p] \in Term /\ Unsatisfied(c) = {p}
      /\ Relation(p, c.terms[p]) = "undetermined"
      /\ trail' = Append(trail, e)
      /\ positive' = [positive EXCEPT ![p] = NewPos(p, t)]
      /\ negative' = [negative EXCEPT ![p] = NewNeg(p, t)]
  <2>1. Derives(i, p)
    OBVIOUS
  <2>2. Shape(c) /\ p \in About(c)
    BY <2>1 DEF Derives
  <2>3. c.terms[p] \in Term
    BY <2>2, ShapedFacts
  <2> QED BY <2>1, <2>2, <2>3 DEF Derives
<1> HIDE DEF t
<1>2. positive[p] \in Ranges /\ negative[p] \in Ranges /\ decided[p] \in Versions \cup {None} /\ t.range \in SUBSET Universe
  BY <1>1 DEF SolutionTypes, Term
<1>3. NewPos(p, t) \in Ranges /\ NewNeg(p, t) \in Ranges
  BY <1>2 DEF NewPos, NewNeg, Ranges
<1>4. Level(trail) \in Nat
  BY LevelsRise
<1> HIDE DEF c
<1>5. /\ e \in Entry /\ e.package = p /\ e.level = Level(trail) /\ e.cause = c /\ e.pos = NewPos(p, t)
      /\ e.neg = NewNeg(p, t) /\ e.decision = decided[p]
  BY <1>1, <1>2, <1>3, <1>4, AssignIsEntry
<1> HIDE DEF e
<1>6. c # NoClause
  BY <1>1, NoClauseShape
<1>7. Says(e) = t
  BY <1>5, <1>6 DEF Says, t
<1>8. decided[p] = None
  BY <1>1, UndeterminedIsUndecided
<1>9. DerivationFits(Append(trail, e), n + 1)
  <2>1. Append(trail, e)[n + 1] = e
    BY <1>1, <1>5, LongerTrail DEF TrailFits
  <2>2. ASSUME NEW q \in About(c) \ {p}
        PROVE  \E j \in Satisfiers(Append(trail, e), q, c.terms[q]) : j < n + 1
    <3>1. Relation(q, c.terms[q]) = "satisfied" /\ q \in Names
      BY <1>1, <2>2 DEF Unsatisfied, About
    <3>2. PICK j \in Satisfiers(trail, q, c.terms[q]) : TRUE
      BY <3>1, SatisfiedIs
    <3>3. j \in Satisfiers(Append(trail, e), q, c.terms[q]) /\ j <= n
      BY <1>1, <1>5, AppendedFacts DEF TrailFits
    <3>4. j \in Nat /\ n \in Nat
      BY EntryFacts DEF TrailFits, Satisfiers, EntriesOf
    <3> QED BY <3>3, <3>4
  <2> QED BY <1>1, <1>5, <1>8, <2>1, <2>2 DEF DerivationFits
<1>10. Says(e).range \subseteq Universe /\ e.level >= Level(trail) /\ Shape(e.cause) /\ decided[e.package] = None
  BY <1>1, <1>2, <1>4, <1>5, <1>7, <1>8
<1>11. /\ e.pos = IF Says(e).positive THEN Asserted(e.package, Says(e).range) ELSE positive[e.package]
       /\ e.neg = IF Says(e).positive THEN negative[e.package] ELSE Denied(e.package, Says(e).range)
  BY <1>5, <1>7 DEF NewPos, NewNeg, Asserted, Denied
<1>12. TrailFits(Append(trail, e))
  BY <1>5, <1>6, <1>9, <1>10, <1>11, NewEntryFits DEF n
<1>13. CacheIs(Append(trail, e), positive', negative', decided')
  <2>1. CacheIs(Append(trail, e), [positive EXCEPT ![e.package] = e.pos], [negative EXCEPT ![e.package] = e.neg],
                   [decided EXCEPT ![e.package] = e.decision])
    BY <1>5, <1>10, AppendCache DEF Cached, TrailFits
  <2>2. [decided EXCEPT ![p] = decided[p]] = decided
    BY DEF SolutionTypes
  <2> QED BY <1>1, <1>5, <2>1, <2>2
<1> QED BY <1>1, <1>12, <1>13 DEF Cached

LEMMA DecideFits ==
    ASSUME TrailFits(trail), Cached, SolutionTypes, NEW p \in Packages, NEW v \in Versions,
           decided[p] = None, positive[p] # NoRange, v \in RangeNow(p),
           trail' = Append(trail, Assign(p, Level(trail) + 1, NoClause, {v}, negative[p], v)),
           positive' = [positive EXCEPT ![p] = {v}], negative' = negative,
           decided' = [decided EXCEPT ![p] = v]
    PROVE  TrailFits(trail') /\ Cached'
<1> DEFINE e == Assign(p, Level(trail) + 1, NoClause, {v}, negative[p], v)
           n == Len(trail)
<1>1. p \in Names /\ {v} \in Ranges /\ {v} # NoRange /\ negative[p] \in Ranges /\ positive[p] \in SUBSET Universe
      /\ v \in Universe
  <2>1. p \in Names /\ v \in Universe
    BY UniverseFacts
  <2> QED BY <2>1, RangeIsSome DEF SolutionTypes, Ranges
<1>2. Level(trail) \in Nat /\ Level(trail) >= 1
  BY LevelsRise
<1>3. /\ e \in Entry /\ e.package = p /\ e.level = Level(trail) + 1 /\ e.cause = NoClause /\ e.pos = {v}
      /\ e.neg = negative[p] /\ e.decision = v
  <2>1. Level(trail) + 1 \in Nat /\ v \in Versions \cup {None}
    BY <1>2
  <2>2. NoClause \in Clause
    BY NoClauseShape DEF Shape
  <2> QED BY <1>1, <2>1, <2>2 DEF Assign, Entry, Ranges
<1>4. trail' = Append(trail, e)
  OBVIOUS
<1> HIDE DEF e
<1>5. Says(e) = [positive |-> TRUE, range |-> {v}]
  BY <1>3 DEF Says
<1>6. v \in positive[p] /\ (negative[p] # NoRange => v \notin negative[p])
  BY DEF RangeNow, Effective
<1>7. Left(e) = {v}
  BY <1>1, <1>3, <1>6 DEF Left, Effective
<1>8. DecisionFits(Append(trail, e), n + 1)
  <2>1. Append(trail, e)[n + 1] = e /\ \A j \in 1..n : Append(trail, e)[j] = trail[j]
    BY <1>3, NoClauseShape, LongerTrail DEF TrailFits
  <2>2. n \in Nat /\ DOMAIN trail = 1..n
    BY EntryFacts DEF TrailFits
  <2>3. \A j \in 1..n : trail[j].level \in Nat /\ trail[j].level <= Level(trail)
    BY <2>2, LevelsRise
  <2>4. \A j \in 1..(n + 1) - 1 : Append(trail, e)[j].level < e.level
    <3> SUFFICES ASSUME NEW j \in 1..n PROVE Append(trail, e)[j].level < e.level
      BY <2>2
    <3>1. trail[j].level < Level(trail) + 1
      BY <1>2, <2>3
    <3> QED BY <1>3, <2>1, <3>1
  <2> DEFINE new == Append(trail, e)
  <2>5. new[n + 1] = e /\ \A j \in 1..(n + 1) - 1 : new[j].level < e.level
    BY <2>1, <2>4
  <2> HIDE DEF new, n
  <2>6. DecisionFits(new, n + 1)
    BY <1>3, <1>7, <2>5 DEF DecisionFits
  <2> QED BY <2>6 DEF new, n
<1>9. /\ e.pos = IF Says(e).positive THEN Asserted(e.package, Says(e).range) ELSE positive[e.package]
      /\ e.neg = IF Says(e).positive THEN negative[e.package] ELSE Denied(e.package, Says(e).range)
  BY <1>3, <1>5, <1>6 DEF Asserted, Denied
<1>10. Says(e).range \subseteq Universe /\ e.level >= Level(trail) /\ Shape(e.cause) /\ decided[e.package] = None
  BY <1>1, <1>2, <1>3, <1>5, NoClauseShape
<1>11. TrailFits(Append(trail, e))
  BY <1>3, <1>8, <1>9, <1>10, NewEntryFits DEF n
<1>12. CacheIs(Append(trail, e), positive', negative', decided')
  <2>1. CacheIs(Append(trail, e), [positive EXCEPT ![e.package] = e.pos], [negative EXCEPT ![e.package] = e.neg],
                   [decided EXCEPT ![e.package] = e.decision])
    BY <1>3, <1>10, AppendCache DEF Cached, TrailFits
  <2>2. [negative EXCEPT ![p] = negative[p]] = negative
    BY DEF SolutionTypes
  <2> QED BY <1>3, <2>1, <2>2
<1> QED BY <1>4, <1>11, <1>12 DEF Cached

LEMMA RootTrailFits == TrailFits(RootTrail)
<1> DEFINE e == RootTrail[1]
<1>1. TrailTypes(RootTrail) /\ Len(RootTrail) = 1 /\ e = Assign(ROOT, 1, NoClause, {1}, NoRange, 1)
  BY RootTrailTypes
<1>2. e.package = ROOT /\ e.level = 1 /\ e.cause = NoClause /\ e.pos = {1} /\ e.neg = NoRange /\ e.decision = 1
  BY <1>1 DEF Assign
<1>3. DOMAIN RootTrail = {1}
  BY <1>1, EntryFacts
<1> HIDE DEF e
<1>4. Says(e) = [positive |-> TRUE, range |-> {1}]
  BY <1>2 DEF Says
<1>5. TruthsOf(RootTrail, ROOT, 1) = {1} /\ DenialsOf(RootTrail, ROOT, 1) = {}
  BY <1>2, <1>3, <1>4 DEF TruthsOf, DenialsOf, EntriesOf, e
<1>6. PosAt(RootTrail, ROOT, 1) = {1} /\ NegAt(RootTrail, ROOT, 1) = NoRange
  <2>1. Says(RootTrail[1]).range = {1}
    BY <1>4 DEF e
  <2>2. {v \in Universe : \A i \in {1} : v \in Says(RootTrail[i]).range} = {1}
    BY <2>1, UniverseFacts
  <2> QED BY <1>5, <2>2 DEF PosAt, NegAt
<1>7. DecisionFits(RootTrail, 1)
  <2>1. {1} # NoRange /\ 1 \in Versions
    BY RangeIsSome, UniverseFacts, SizeAssumption, VersionAssumption DEF Versions
  <2>2. Left(e) = {1}
    BY <1>2, <2>1 DEF Left, Effective
  <2> QED BY <1>2, <2>1, <2>2 DEF DecisionFits, e
<1>8. EntryFits(RootTrail, 1)
  BY <1>2, <1>6, <1>7 DEF EntryFits, e
<1> QED BY <1>1, <1>3, <1>8 DEF TrailFits

------------------------------------------------------------------------------------
(* Where a jump goes.                                                               *)

LEMMA NegateIsNot ==
    ASSUME NEW t \in Term
    PROVE  /\ Negate(t).positive <=> ~t.positive
           /\ \A x : Holds(Negate(t), x) <=> ~Holds(t, x)
BY DEF Negate, Holds, Term

LEMMA MeetsIsAll ==
    ASSUME NEW t \in Term, NEW R PROVE Meets(t, R) <=> \A x \in R : Holds(t, x)
BY DEF Meets, Disjoint, Holds

LEMMA IntersectSign ==
    ASSUME NEW t \in Term, NEW u \in Term
    PROVE  Intersect(t, u).positive <=> t.positive \/ u.positive
BY DEF Intersect, Term

\* What the satisfier's clause says beyond the term is covered no later than by the satisfier.
LEMMA DifferenceIsMet ==
    ASSUME NEW tr, TrailFits(tr), NEW p, NEW t \in Term, NEW k \in Satisfiers(tr, p, t)
    PROVE  DifferenceLevels(tr, tr[k], t) \subseteq 0..tr[k].level
<1> DEFINE e == tr[k]
           u == Negate(e.cause.terms[p])
           difference == Intersect(u, Negate(t))
           others == Satisfiers(tr, p, Negate(difference))
<1>1. /\ k \in DOMAIN tr /\ e.package = p /\ (t.positive => e.pos # NoRange) /\ Meets(t, Left(e))
      /\ Shape(e.cause) /\ k \in EntriesOf(tr, p) /\ k \in Nat
  BY EntryFacts DEF Satisfiers, EntriesOf, SatisfiedAt, Left, TrailFits
<1>2. DifferenceLevels(tr, e, t) = (IF \/ e.cause = NoClause \/ p \notin About(e.cause)
                                       \/ difference.range = {} \/ others = {}
                                    THEN {} ELSE {tr[Min(others)].level})
  BY <1>1 DEF DifferenceLevels
<1>3. SUFFICES ASSUME p \in About(e.cause), others # {} PROVE tr[Min(others)].level \in 0..e.level
  BY <1>2
<1>4. u \in Term /\ Negate(t) \in Term
  BY <1>1, <1>3, ShapedFacts, NegateIsTerm
<1> HIDE DEF e
<1>5. Meets(Negate(difference), Left(e)) /\ (Negate(difference).positive => e.pos # NoRange)
  <2> DEFINE n == Negate(t)
  <2> HIDE DEF u, n
  <2>1. difference \in Term /\ (~difference.positive => ~n.positive)
        /\ \A x : Holds(difference, x) => Holds(n, x)
    BY <1>4, IntersectIsAnd, IntersectSign DEF n
  <2> HIDE DEF difference
  <2>2. Negate(difference) \in Term /\ (Negate(difference).positive <=> ~difference.positive)
        /\ (n.positive <=> ~t.positive) /\ n \in Term
    BY <1>4, <2>1, NegateIsTerm, NegateIsNot DEF n
  <2>3. \A x \in Left(e) : Holds(Negate(difference), x)
    BY <1>1, <2>1, MeetsIsAll, NegateIsNot DEF n
  <2> QED BY <1>1, <2>1, <2>2, <2>3, MeetsIsAll
<1> HIDE DEF difference
<1>6. k \in others
  BY <1>1, <1>5 DEF Satisfiers, SatisfiedAt, Left, e
<1>7. others \subseteq Nat /\ others \subseteq DOMAIN tr
  BY EntryFacts DEF TrailFits, Satisfiers, EntriesOf
<1> HIDE DEF others
<1>8. Min(others) \in DOMAIN tr /\ Min(others) <= k
  BY <1>6, <1>7, MinFacts
<1> QED BY <1>1, <1>8, LevelsRise DEF e

\* The satisfier is not the root's entry, the others come no later, and a jump undoes it.
JumpsTo(c, k) ==
    LET a == Analysis(trail, c)
    IN  /\ k \in DOMAIN trail /\ LastOf(trail, c, k) /\ a.satisfier = trail[k] /\ k >= 2
        /\ trail[k].package \in About(c) /\ Shape(trail[k].cause)
        /\ CanBackjump(a) => Target(a) \in 1..trail[k].level - 1
        /\ trail[k].cause = NoClause => CanBackjump(a)

LEMMA JumpFacts ==
    ASSUME Types, TrailFits(trail), NEW c, Explained(c)
    PROVE  \E k : JumpsTo(c, k)
<1> DEFINE a == Analysis(trail, c)
<1>1. PICK k \in DOMAIN trail :
        /\ LastOf(trail, c, k) /\ a.satisfier = trail[k]
        /\ trail[k].package \in About(c) /\ Shape(trail[k].cause)
        /\ a.previous =
             Max({1} \cup {trail[Satisfier(trail, q, c.terms[q])].level : q \in About(c) \ {trail[k].package}}
                     \cup DifferenceLevels(trail, trail[k], c.terms[trail[k].package]))
  BY ExplainedFacts
<1> DEFINE e == trail[k]
           p == e.package
           least(q) == Satisfier(trail, q, c.terms[q])
           levels == {trail[least(q)].level : q \in About(c) \ {p}}
           differences == DifferenceLevels(trail, e, c.terms[p])
           all == {1} \cup levels \cup differences
<1>2. /\ DOMAIN trail = 1..Len(trail) /\ Len(trail) \in Nat /\ k \in Nat /\ trail \in Seq(Entry)
      /\ \A i \in DOMAIN trail : trail[i].level \in Nat /\ trail[i].level >= 1 /\ trail[i].level <= Level(trail)
      /\ \A i, j \in DOMAIN trail : i <= j => trail[i].level <= trail[j].level
      /\ Level(trail) \in Nat
  BY EntryFacts, LevelsRise DEF TrailFits, TrailTypes
<1>3. /\ \A q \in About(c) : \E j \in Satisfiers(trail, q, c.terms[q]) : j <= k
      /\ k \in Satisfiers(trail, p, c.terms[p])
  BY <1>1 DEF LastOf
<1>4. Shape(c) /\ ~IsTerminal(c) /\ \A q \in About(c) : c.terms[q] \in Term
  BY ShapedFacts DEF Explained
<1>5. ASSUME NEW q \in About(c) \ {p}
      PROVE  least(q) \in DOMAIN trail /\ least(q) < k
  <2>1. PICK j \in Satisfiers(trail, q, c.terms[q]) : j <= k
    BY <1>3, <1>5
  <2>2. /\ least(q) \in DOMAIN trail /\ least(q) \in Nat /\ trail[least(q)].package = q
        /\ \A i \in Satisfiers(trail, q, c.terms[q]) : least(q) <= i
    BY <1>2, <2>1, SatisfierFacts
  <2>3. j \in Nat
    BY <1>2, <2>1 DEF Satisfiers, EntriesOf
  <2>4. least(q) # k
    BY <1>5, <2>2
  <2> HIDE DEF least
  <2> QED BY <1>2, <2>1, <2>2, <2>3, <2>4
<1>6. k >= 2
  <2>1. SUFFICES ASSUME k = 1 PROVE About(c) \subseteq {ROOT}
    BY <1>2, <1>4 DEF IsTerminal
  <2>2. trail[1].package = ROOT
    <3>1. trail[1] = RootTrail[1]
      BY DEF TrailFits
    <3> QED BY <3>1, RootTrailTypes DEF Assign
  <2>3. ASSUME NEW q \in About(c) PROVE q = ROOT
    <3>1. PICK j \in Satisfiers(trail, q, c.terms[q]) : j <= 1
      BY <1>3, <2>1
    <3>2. j \in DOMAIN trail /\ trail[j].package = q
      BY <3>1 DEF Satisfiers, EntriesOf
    <3> QED BY <1>2, <2>2, <3>1, <3>2
  <2> QED BY <2>3
<1> HIDE DEF least
<1>7. levels \subseteq 0..e.level
  BY <1>2, <1>5
<1>8. differences \subseteq 0..e.level
  BY <1>1, <1>3, <1>4, DifferenceIsMet
<1>9. e.level \in Nat /\ e.level >= 1 /\ e.level <= Level(trail)
  BY <1>2
<1>10. a.previous = Max(all)
  BY <1>1 DEF least
<1> HIDE DEF differences, levels, a
<1>11. a.previous \in all /\ \A l \in all : l <= a.previous
  <2>1. all \subseteq 0..e.level /\ all # {}
    BY <1>7, <1>8, <1>9
  <2> HIDE DEF all, e
  <2> QED BY <1>9, <1>10, <2>1, MaxFacts
<1>12. a.previous \in 1..e.level
  <2>1. 1 <= a.previous
    BY <1>11
  <2>2. a.previous \in Nat /\ a.previous <= e.level
    <3> DEFINE top == e.level
    <3>1. levels \subseteq 0..top /\ differences \subseteq 0..top /\ top \in Nat /\ top >= 1
      BY <1>7, <1>8, <1>9
    <3> HIDE DEF top
    <3>2. \A l \in all : l \in Nat /\ l <= top
      BY <3>1
    <3> QED BY <1>11, <3>2 DEF top
  <2> QED BY <1>9, <2>1, <2>2
<1>13. e.cause = NoClause => a.previous < e.level
  <2>1. SUFFICES ASSUME e.cause = NoClause PROVE a.previous < e.level
    OBVIOUS
  <2>2. differences = {}
    BY <2>1 DEF DifferenceLevels, differences
  <2>3. \A j \in 1..k - 1 : trail[j].level < e.level
    <3>1. EntryFits(trail, k)
      BY DEF TrailFits
    <3> QED BY <2>1, <3>1 DEF EntryFits, DecisionFits
  <2>4. \A l \in levels : l < e.level
    BY <1>2, <1>5, <2>3 DEF levels
  <2>5. 1 < e.level
    <3>1. 1 \in 1..k - 1 /\ 1 \in DOMAIN trail
      BY <1>2, <1>6
    <3>2. trail[1].level < e.level /\ trail[1].level >= 1 /\ trail[1].level \in Nat
      BY <1>2, <2>3, <3>1
    <3> HIDE DEF e
    <3> QED BY <1>9, <3>2
  <2> QED BY <1>11, <2>2, <2>4, <2>5
<1>14. a.satisfier = e
  BY <1>1 DEF a
<1>15. ASSUME CanBackjump(a) PROVE Target(a) \in 1..e.level - 1
  <2>1. a.previous < e.level
    BY <1>9, <1>12, <1>13, <1>14, <1>15 DEF CanBackjump
  <2>2. Target(a) = Min({a.previous, Level(trail)})
    BY <1>9, <1>12, <1>13, <1>14 DEF Target
  <2>3. Min({a.previous, Level(trail)}) \in {a.previous, Level(trail)} /\ Min({a.previous, Level(trail)}) <= a.previous
    <3>1. a.previous \in Nat
      BY <1>12
    <3> QED BY <1>2, <3>1, MinFacts
  <2> HIDE DEF e
  <2> QED BY <1>2, <1>9, <1>12, <2>1, <2>2, <2>3
<1>16. e.cause = NoClause => CanBackjump(a)
  BY <1>14 DEF CanBackjump
<1>17. JumpsTo(c, k)
  BY <1>1, <1>6, <1>14, <1>15, <1>16 DEF JumpsTo, a
<1> QED BY <1>17

LEMMA DownToLevels ==
    ASSUME NEW tr, TrailFits(tr), NEW level \in Nat \ {0}
    PROVE  \E m \in 1..Len(tr) :
               /\ DownTo(tr, level) = SubSeq(tr, 1, m)
               /\ \A i \in DOMAIN tr : i <= m <=> tr[i].level <= level
<1>1. PICK m \in 0..Len(tr) :
        /\ DownTo(tr, level) = SubSeq(tr, 1, m)
        /\ m # 0 => tr[m].level <= level
        /\ \A i \in DOMAIN tr : tr[i].level <= level => i <= m
  BY DownToFacts DEF TrailFits
<1>2. DOMAIN tr = 1..Len(tr) /\ Len(tr) \in Nat /\ Len(tr) >= 1
  BY EntryFacts DEF TrailFits
<1>3. /\ \A i \in DOMAIN tr : tr[i].level \in Nat
      /\ \A i, j \in DOMAIN tr : i <= j => tr[i].level <= tr[j].level
  BY LevelsRise
<1>4. tr[1].level <= level
  <2>1. tr[1].level = 1
    BY RootTrailTypes DEF TrailFits, Assign
  <2> QED BY <2>1
<1>5. m \in 1..Len(tr)
  BY <1>1, <1>2, <1>4
<1>6. ASSUME NEW i \in DOMAIN tr, i <= m PROVE tr[i].level <= level
  <2>1. m \in DOMAIN tr /\ tr[m].level <= level
    BY <1>1, <1>2, <1>5
  <2> QED BY <1>3, <1>6, <2>1
<1> QED BY <1>1, <1>5, <1>6

\* A backjump leaves the entries up to a level, which the jump's target is not below.
LEMMA KeptLevels ==
    ASSUME TrailFits(trail), NEW c, NEW a, Target(a) \in Nat \ {0}
    PROVE  \E m \in 1..Len(trail), level \in 1..Target(a) :
               /\ KeptAt(c, a) = SubSeq(trail, 1, m)
               /\ \A i \in DOMAIN trail : i <= m <=> trail[i].level <= level
<1> DEFINE T == Target(a)
<1>1. PICK n \in 1..Len(trail) :
        /\ JumpedTo(a) = SubSeq(trail, 1, n)
        /\ \A i \in DOMAIN trail : i <= n <=> trail[i].level <= T
  BY DownToLevels DEF JumpedTo
<1>2. /\ DOMAIN trail = 1..Len(trail) /\ Len(trail) \in Nat
      /\ \A i \in DOMAIN trail : trail[i].level \in Nat
  BY EntryFacts DEF TrailFits
<1> HIDE DEF T
<1>3. CASE LevelsAt(c, a) = {}
  <2>1. KeptAt(c, a) = JumpedTo(a) /\ T \in 1..T
    BY <1>3 DEF KeptAt, T
  <2> QED BY <1>1, <2>1 DEF T
<1>4. CASE LevelsAt(c, a) # {}
  <2> DEFINE jumped == JumpedTo(a)
             L == Min(LevelsAt(c, a))
  <2>1. TrailFits(jumped) /\ Len(jumped) = n /\ \A i \in 1..n : jumped[i] = trail[i]
    BY <1>1, ShortenFits
  <2> HIDE DEF jumped
  <2>2. /\ Level(jumped) \in Nat /\ Level(jumped) = jumped[n].level /\ n \in DOMAIN jumped
    BY <2>1, LevelsRise
  <2>3. Level(jumped) <= T
    <3>1. n \in DOMAIN trail /\ jumped[n] = trail[n]
      BY <1>2, <2>1
    <3> QED BY <1>1, <1>2, <2>2, <3>1
  <2>4. L \in 1..Level(jumped) - 1
    <3>1. LevelsAt(c, a) \subseteq 1..(Level(jumped) - 1)
      BY <1>4 DEF LevelsAt, JumpLevels, jumped
    <3>2. LevelsAt(c, a) \subseteq Nat
      BY <3>1
    <3> QED BY <1>4, <3>1, <3>2, MinFacts
  <2> HIDE DEF L
  <2>5. L \in Nat \ {0} /\ L \in 1..T /\ L < T /\ T \in Nat
    BY <2>2, <2>3, <2>4 DEF T
  <2>6. PICK m \in 1..n :
          /\ DownTo(jumped, L) = SubSeq(jumped, 1, m)
          /\ \A i \in DOMAIN jumped : i <= m <=> jumped[i].level <= L
    BY <2>1, <2>5, DownToLevels
  <2>7. KeptAt(c, a) = SubSeq(jumped, 1, m)
    BY <1>4, <2>6 DEF KeptAt, jumped, L
  <2>8. Len(KeptAt(c, a)) = m
    BY <2>1, <2>6, <2>7, ShortenFits
  <2>9. PICK k \in 0..Len(trail) : KeptAt(c, a) = SubSeq(trail, 1, k)
    BY KeptFacts DEF TrailFits
  <2>10. k = m
    BY <2>8, <2>9, ShorterTrail DEF TrailFits
  <2>11. m \in 1..Len(trail)
    BY <1>2, <2>6
  <2>12. ASSUME NEW i \in DOMAIN trail PROVE i <= m <=> trail[i].level <= L
    <3>1. CASE i <= n
      <4>1. i \in DOMAIN jumped /\ jumped[i] = trail[i]
        BY <1>2, <2>1, <3>1, EntryFacts DEF TrailFits
      <4> QED BY <2>6, <4>1
    <3>2. CASE i > n
      <4>1. trail[i].level > T
        BY <1>1, <1>2, <2>5, <3>2
      <4>2. trail[i].level > L /\ i > m
        BY <1>2, <2>5, <3>2, <4>1
      <4> QED BY <1>2, <2>5, <4>2
    <3> QED BY <1>2, <3>1, <3>2
  <2> QED BY <2>5, <2>9, <2>10, <2>11, <2>12 DEF T
<1> QED BY <1>3, <1>4

\* What a jump from c leaves: the first m entries, without the satisfier, and nothing of the level
\* it leaves; whole levels, unless it starts over.
JumpLeaves(c, k, m) ==
    /\ LastOf(trail, c, k) /\ m \in 1..Len(trail) /\ m < k
    /\ trail' = SubSeq(trail, 1, m)
    /\ \A i \in DOMAIN trail : i <= m => trail[i].level < Level(trail)
    /\ \/ m = 1 /\ queue' = <<ROOT>>
       \/ \A i, j \in DOMAIN trail : i <= m /\ trail[j].level <= trail[i].level => j <= m

LEMMA BackjumpLeaves ==
    ASSUME Types, TrailFits(trail), NEW c, Explained(c), CanBackjump(Analysis(trail, c)), NEW learned,
           Backjump(c, Analysis(trail, c), learned)
    PROVE  \E k \in DOMAIN trail, m \in 1..Len(trail) : JumpLeaves(c, k, m) /\ TrailFits(trail') /\ Cached'
<1> DEFINE a == Analysis(trail, c)
           again == RestartDue(CreditedAt(a))
<1>1. PICK k : JumpsTo(c, k)
  BY JumpFacts
<1>2. k \in DOMAIN trail /\ LastOf(trail, c, k) /\ k >= 2 /\ Target(a) \in 1..trail[k].level - 1
  BY <1>1 DEF JumpsTo
<1> HIDE DEF a
<1>3. /\ DOMAIN trail = 1..Len(trail) /\ Len(trail) \in Nat /\ k \in Nat
      /\ \A i \in DOMAIN trail : trail[i].level \in Nat /\ trail[i].level <= Level(trail)
      /\ \A i, j \in DOMAIN trail : i <= j => trail[i].level <= trail[j].level
      /\ Level(trail) \in Nat
  BY <1>2, EntryFacts, LevelsRise DEF TrailFits
<1>4. RestoreFrom(IF again THEN RootTrail ELSE KeptAt(c, a)) /\ (again => queue' = <<ROOT>>)
  <2>1. Backjump(c, a, learned)
    BY DEF a
  <2> QED BY <2>1, BackjumpParts
<1> HIDE DEF again
<1>5. CASE again
  <2> DEFINE s == SubSeq(trail, 1, 1)
  <2>0. 1 \in 1..Len(trail)
    BY <1>2, <1>3
  <2>1. TrailFits(s) /\ Len(s) = 1 /\ s[1] = trail[1]
    BY <2>0, ShortenFits
  <2> HIDE DEF s
  <2>2. s = RootTrail
    <3>1. s \in Seq(Entry) /\ RootTrail \in Seq(Entry) /\ Len(s) = Len(RootTrail) /\ Len(s) = 1
      BY <2>1, RootTrailTypes DEF TrailTypes, TrailFits
    <3>2. s[1] = RootTrail[1]
      BY <2>1 DEF TrailFits
    <3>3. \A i \in 1..Len(s) : s[i] = RootTrail[i]
      BY <3>1, <3>2
    <3> QED BY <3>1, <3>3, SeqEqual
  <2>3. trail' = s /\ Cached'
    BY <1>4, <1>5, <2>2, RootTrailTypes, RestoredCache
  <2>4. trail[1].level < Level(trail)
    <3>1. trail[1].level = 1
      BY RootTrailTypes DEF TrailFits, Assign
    <3>2. trail[k].level <= Level(trail) /\ trail[k].level > 1 /\ trail[k].level \in Nat
      BY <1>2, <1>3
    <3> QED BY <1>3, <3>1, <3>2
  <2>5. JumpLeaves(c, k, 1)
    BY <1>2, <1>3, <1>4, <1>5, <2>3, <2>4 DEF JumpLeaves, s
  <2> QED BY <1>2, <1>3, <2>1, <2>3, <2>5
<1>6. CASE ~again
  <2>1. Target(a) \in Nat \ {0}
    BY <1>2, <1>3
  <2>2. PICK m \in 1..Len(trail), level \in 1..Target(a) :
               /\ KeptAt(c, a) = SubSeq(trail, 1, m)
               /\ \A i \in DOMAIN trail : i <= m <=> trail[i].level <= level
    BY <2>1, KeptLevels
  <2>3. TrailFits(KeptAt(c, a))
    BY <2>2, ShortenFits
  <2>4. trail' = KeptAt(c, a) /\ Cached'
    BY <1>4, <1>6, <2>3, RestoredCache DEF TrailFits
  <2>5. level \in Nat /\ level < trail[k].level /\ m \in Nat
    BY <1>2, <1>3, <2>1, <2>2
  <2>6. m < k
    BY <1>2, <1>3, <2>2, <2>5
  <2>7. \A i \in DOMAIN trail : i <= m => trail[i].level < Level(trail)
    <3> SUFFICES ASSUME NEW i \in DOMAIN trail, i <= m PROVE trail[i].level < Level(trail)
      OBVIOUS
    <3>1. trail[i].level <= level /\ trail[k].level <= Level(trail) /\ trail[i].level \in Nat /\ trail[k].level \in Nat
      BY <1>2, <1>3, <2>2
    <3> QED BY <1>3, <2>5, <3>1
  <2>8. \A i, j \in DOMAIN trail : i <= m /\ trail[j].level <= trail[i].level => j <= m
    <3> SUFFICES ASSUME NEW i \in DOMAIN trail, NEW j \in DOMAIN trail, i <= m, trail[j].level <= trail[i].level
                 PROVE  j <= m
      OBVIOUS
    <3>1. trail[i].level <= level /\ trail[i].level \in Nat /\ trail[j].level \in Nat
      BY <1>3, <2>2
    <3> QED BY <2>2, <2>5, <3>1
  <2>9. JumpLeaves(c, k, m)
    BY <1>2, <2>2, <2>4, <2>6, <2>7, <2>8 DEF JumpLeaves
  <2> QED BY <1>2, <2>3, <2>4, <2>9
<1> QED BY <1>5, <1>6

------------------------------------------------------------------------------------
(* The trail fits, whatever the resolver does.                                      *)

WellTrailed == TrailFits(trail) /\ Cached

\* A clause is violated when the trail satisfies it.
LEMMA ViolatedIs ==
    WellTrailed => \A c : IsConflict(c) <=> IsSatisfied(trail, c)
<1> SUFFICES ASSUME WellTrailed, NEW c PROVE IsConflict(c) <=> IsSatisfied(trail, c)
  OBVIOUS
<1>1. \A p \in About(c) : p \in Names
  BY DEF About
<1>2. \A p \in About(c) : Relation(p, c.terms[p]) = "satisfied" <=> Satisfiers(trail, p, c.terms[p]) # {}
  BY <1>1, SatisfiedIs DEF WellTrailed
<1> QED BY <1>2 DEF IsConflict, Unsatisfied, IsSatisfied

\* Propagation comes to every clause of its package that calls for something.
LEMMA DueFacts ==
    ASSUME Types, NEW j \in DOMAIN clauses, j >= at, Head(queue) \in About(clauses[j]),
           IsConflict(clauses[j]) \/ IsUnit(clauses[j])
    PROVE  NextClause > 0 /\ NextClause <= j
<1> DEFINE due == {i \in at..Len(clauses) : Head(queue) \in About(clauses[i])
                                            /\ (IsConflict(clauses[i]) \/ IsUnit(clauses[i]))}
<1>1. DOMAIN clauses = 1..Len(clauses) /\ Len(clauses) \in Nat /\ at \in Nat \ {0}
  BY LenProperties DEF Types, ClauseTypes, QueueTypes
<1>2. j \in due /\ due \subseteq Nat \ {0}
  BY <1>1
<1>3. NextClause = Min(due)
  BY <1>2 DEF NextClause
<1> HIDE DEF due
<1>4. due \subseteq Nat /\ Min(due) \in due /\ Min(due) <= j
  BY <1>2, MinFacts
<1> QED BY <1>2, <1>3, <1>4

Emptied(e) == e.pos # NoRange /\ Left(e) = {}

\* A package left with no version is of the level on top, and the clause that is thereby violated is
\* still to come.
NoneEmpty == \A k \in DOMAIN trail : Emptied(trail[k]) =>
    /\ trail[k].level = Level(trail) /\ phase # "deciding"
    /\ phase = "propagating" => \E i \in DOMAIN clauses :
        /\ IsSatisfied(trail, clauses[i]) /\ trail[k].package \in About(clauses[i])
        /\ trail[k].package \in Range(Tail(queue)) \/ (trail[k].package = Head(queue) /\ at <= i)

LEMMA DerivesFacts ==
    ASSUME Types, TrailFits(trail), NEW i, NEW p, Derives(i, p)
    PROVE  \E e \in Entry :
               /\ e.package = p /\ e.level = Level(trail) /\ e.cause = clauses[i] /\ e.cause # NoClause
               /\ Shape(e.cause) /\ trail' = Append(trail, e)
               /\ e.pos = NewPos(p, Negate(clauses[i].terms[p])) /\ e.neg = NewNeg(p, Negate(clauses[i].terms[p]))
               /\ e.decision = decided[p]
<1> DEFINE c == clauses[i]
           t == Negate(c.terms[p])
           e == Assign(p, Level(trail), c, NewPos(p, t), NewNeg(p, t), decided[p])
<1>1. /\ Shape(c) /\ p \in About(c) /\ p \in Names /\ t \in Term /\ trail' = Append(trail, e)
  BY DEF Derives
<1> HIDE DEF t
<1>2. positive[p] \in Ranges /\ negative[p] \in Ranges /\ decided[p] \in Versions \cup {None} /\ t.range \in SUBSET Universe
  BY <1>1, TypesParts DEF SolutionTypes, Term
<1>3. NewPos(p, t) \in Ranges /\ NewNeg(p, t) \in Ranges
  BY <1>2 DEF NewPos, NewNeg, Ranges
<1>4. Level(trail) \in Nat
  BY LevelsRise
<1>5. c # NoClause
  BY <1>1, NoClauseShape
<1> HIDE DEF c
<1>6. /\ e \in Entry /\ e.package = p /\ e.level = Level(trail) /\ e.cause = c /\ e.pos = NewPos(p, t)
      /\ e.neg = NewNeg(p, t) /\ e.decision = decided[p]
  BY <1>1, <1>2, <1>3, <1>4, AssignIsEntry
<1> HIDE DEF e
<1> QED BY <1>1, <1>5, <1>6 DEF t, c

\* Whatever was satisfied stays satisfied while the trail grows.
LEMMA StaysSatisfied ==
    ASSUME NEW tr, TrailTypes(tr), NEW e \in Entry, Shape(e.cause), NEW c, IsSatisfied(tr, c)
    PROVE  IsSatisfied(Append(tr, e), c)
BY AppendedFacts DEF IsSatisfied

LEMMA AppendLevel ==
    ASSUME NEW tr, TrailTypes(tr), NEW e \in Entry, Shape(e.cause)
    PROVE  Level(Append(tr, e)) = e.level
<1>1. /\ TrailTypes(Append(tr, e)) /\ Len(Append(tr, e)) = Len(tr) + 1 /\ Append(tr, e)[Len(tr) + 1] = e
      /\ Len(tr) \in Nat
  BY LongerTrail, EntryFacts
<1> DEFINE new == Append(tr, e)
<1> HIDE DEF new
<1>2. new # <<>>
  BY <1>1 DEF new
<1> QED BY <1>1, <1>2 DEF Level, new

LEMMA DeriveTrail ==
    ASSUME Types, WellTrailed, NoneEmpty, phase = "propagating", NextClause > 0, Derive(NextClause)
    PROVE  WellTrailed' /\ NoneEmpty'
<1> DEFINE i == NextClause
           n == Len(trail)
<1>1. PICK p : Derives(i, p)
  BY DeriveFacts
<1>2. /\ at' = i + 1 /\ decided' = decided /\ phase' = phase /\ clauses' = clauses
      /\ IsUnit(clauses[i])
  BY DEF Derive
<1>3. TrailFits(trail) /\ Cached /\ TrailTypes(trail)
  BY DEF WellTrailed, TrailFits
<1>4. TrailFits(trail') /\ Cached'
  BY <1>1, <1>2, <1>3, DeriveFits, TypesParts
<1>5. PICK e \in Entry :
        /\ e.package = p /\ e.level = Level(trail) /\ e.cause = clauses[i] /\ Shape(e.cause)
        /\ trail' = Append(trail, e)
        /\ e.pos = NewPos(p, Negate(clauses[i].terms[p])) /\ e.neg = NewNeg(p, Negate(clauses[i].terms[p]))
  BY <1>1, <1>3, DerivesFacts
<1>6. /\ p \in About(clauses[i]) /\ p \in Names /\ clauses[i].terms[p] \in Term /\ Unsatisfied(clauses[i]) = {p}
      /\ Relation(p, clauses[i].terms[p]) = "undetermined" /\ i \in DOMAIN clauses /\ i \in Nat
      /\ queue' = IF RangeNow(p) = Left(e) THEN queue ELSE Enqueued(p)
  <2>1. /\ p \in About(clauses[i]) /\ p \in Names /\ Unsatisfied(clauses[i]) = {p} /\ Shape(clauses[i])
        /\ Relation(p, clauses[i].terms[p]) = "undetermined" /\ i \in DOMAIN clauses /\ i \in Nat
    BY <1>1 DEF Derives
  <2>2. clauses[i].terms[p] \in Term
    BY <2>1, ShapedFacts
  <2>3. queue' = IF RangeNow(p) = Left(e) THEN queue ELSE Enqueued(p)
    BY <1>1, <1>5 DEF Derives, Left
  <2> QED BY <2>1, <2>2, <2>3
<1> HIDE DEF i
<1>7. /\ DOMAIN trail = 1..n /\ n \in Nat /\ DOMAIN trail' = 1..n + 1
      /\ \A k \in 1..n : trail'[k] = trail[k]
      /\ trail'[n + 1] = e /\ Level(trail') = Level(trail)
  <2>1. TrailTypes(trail') /\ Len(trail') = n + 1 /\ trail'[n + 1] = e /\ \A k \in 1..n : trail'[k] = trail[k]
    BY <1>3, <1>5, LongerTrail
  <2>2. DOMAIN trail = 1..n /\ n \in Nat /\ DOMAIN trail' = 1..n + 1
    BY <1>3, <2>1, EntryFacts
  <2> QED BY <1>3, <1>5, <2>1, <2>2, AppendLevel
<1>8. /\ queue \in Seq(Names) /\ queue # <<>> /\ queue' # <<>> /\ Head(queue') = Head(queue)
      /\ Range(Tail(queue)) \subseteq Range(Tail(queue'))
      /\ RangeNow(p) # Left(e) => p \in Range(Tail(queue'))
      /\ at \in Nat
  <2>1. queue \in Seq(Names) /\ queue # <<>> /\ at \in Nat
    BY TypesParts DEF QueueTypes
  <2>2. /\ Enqueued(p) # <<>> /\ Head(Enqueued(p)) = Head(queue)
        /\ Range(Tail(Enqueued(p))) = Range(Tail(queue)) \cup {p}
    BY <1>6, <2>1, EnqueuedFacts
  <2> QED BY <1>6, <2>1, <2>2
<1>9. \A c : IsSatisfied(trail, c) => IsSatisfied(trail', c)
  BY <1>3, <1>5, StaysSatisfied
<1>10. ASSUME Emptied(e)
       PROVE  IsSatisfied(trail', clauses[i]) /\ p \in Range(Tail(queue'))
  <2> DEFINE t == clauses[i].terms[p]
  <2>1. e.pos # NoRange /\ Left(e) = {}
    BY <1>10 DEF Emptied
  <2>2. n + 1 \in Satisfiers(trail', p, t)
    <3>1. n + 1 \in EntriesOf(trail', p)
      BY <1>5, <1>7 DEF EntriesOf
    <3>2. Meets(t, {})
      BY DEF Meets, Disjoint
    <3> QED BY <1>7, <2>1, <3>1, <3>2 DEF Satisfiers, SatisfiedAt, Left
  <2>3. ASSUME NEW q \in About(clauses[i]) PROVE Satisfiers(trail', q, clauses[i].terms[q]) # {}
    <3>1. CASE q = p
      BY <2>2, <3>1
    <3>2. CASE q # p
      <4>1. Relation(q, clauses[i].terms[q]) = "satisfied" /\ q \in Names
        BY <1>6, <2>3, <3>2 DEF Unsatisfied, About
      <4>2. Satisfiers(trail, q, clauses[i].terms[q]) # {}
        BY <1>3, <4>1, SatisfiedIs
      <4> QED BY <1>3, <1>5, <4>2, AppendedFacts
    <3> QED BY <3>1, <3>2
  <2>4. RangeNow(p) # Left(e)
    <3>1. SUFFICES ASSUME RangeNow(p) = {} PROVE FALSE
      BY <2>1
    <3>2. Meets(t, {}) /\ {} # NoRange
      BY RangeIsSome DEF Meets, Disjoint
    <3>3. t.positive /\ positive[p] = NoRange
      BY <1>6, <3>1, <3>2, RelationFacts
    <3>4. ~Negate(t).positive
      BY <1>6, <3>3, NegateIsNot
    <3>5. e.pos = positive[p]
      BY <1>5, <3>4 DEF NewPos
    <3> QED BY <2>1, <3>3, <3>5
  <2> QED BY <1>8, <2>3, <2>4 DEF IsSatisfied
<1>11. ASSUME NEW k \in 1..n, Emptied(trail[k])
       PROVE  /\ trail[k].level = Level(trail)
              /\ \E j \in DOMAIN clauses :
                    /\ IsSatisfied(trail', clauses[j]) /\ trail[k].package \in About(clauses[j])
                    /\ trail[k].package \in Range(Tail(queue')) \/ (trail[k].package = Head(queue') /\ at' <= j)
  <2> DEFINE q == trail[k].package
  <2>1. trail[k].level = Level(trail)
    BY <1>7, <1>11 DEF NoneEmpty
  <2>2. PICK j \in DOMAIN clauses :
        /\ IsSatisfied(trail, clauses[j]) /\ q \in About(clauses[j])
        /\ q \in Range(Tail(queue)) \/ (q = Head(queue) /\ at <= j)
    BY <1>7, <1>11 DEF NoneEmpty
  <2>3. ASSUME q = Head(queue), at <= j PROVE at' <= j
    <3>1. IsConflict(clauses[j])
      BY <2>2, ViolatedIs
    <3>2. j \in Nat
      BY LenProperties, TypesParts DEF ClauseTypes
    <3>3. i <= j
      BY <1>8, <2>2, <2>3, <3>1, <3>2, DueFacts DEF i
    <3>4. i # j
      BY <1>6, <3>1 DEF IsConflict
    <3> QED BY <1>2, <1>6, <3>2, <3>3, <3>4 DEF i
  <2> QED BY <1>8, <1>9, <2>1, <2>2, <2>3
<1>12. NoneEmpty'
  <2>1. ASSUME NEW k \in DOMAIN trail', Emptied(trail'[k])
        PROVE  /\ trail'[k].level = Level(trail')
               /\ \E j \in DOMAIN clauses' :
                    /\ IsSatisfied(trail', clauses'[j]) /\ trail'[k].package \in About(clauses'[j])
                    /\ trail'[k].package \in Range(Tail(queue')) \/ (trail'[k].package = Head(queue') /\ at' <= j)
    <3>1. CASE k = n + 1
      BY <1>2, <1>5, <1>6, <1>7, <1>10, <2>1, <3>1
    <3>2. CASE k \in 1..n
      BY <1>2, <1>7, <1>11, <2>1, <3>2
    <3> QED BY <1>7, <2>1, <3>1, <3>2
  <2> QED BY <1>2, <2>1 DEF NoneEmpty
<1> QED BY <1>4, <1>12 DEF WellTrailed

LEMMA NextPackageTrail ==
    ASSUME Types, WellTrailed, NoneEmpty, phase = "propagating", NextPackage(NextClause)
    PROVE  WellTrailed' /\ NoneEmpty'
<1>1. /\ NextClause = 0 /\ queue' = Tail(queue) /\ at' = 1 /\ clauses' = clauses
      /\ phase' = (IF Tail(queue) = <<>> THEN "deciding" ELSE phase)
      /\ trail' = trail /\ positive' = positive /\ negative' = negative /\ decided' = decided
  BY DEF NextPackage, solution
<1>2. WellTrailed'
  BY <1>1 DEF WellTrailed, Cached
<1>3. queue \in Seq(Names) /\ queue # <<>> /\ Tail(queue) \in Seq(Names)
  BY TypesParts, HeadTailProperties DEF QueueTypes
<1>4. ASSUME NEW k \in DOMAIN trail, Emptied(trail[k])
      PROVE  /\ trail[k].level = Level(trail) /\ Tail(queue) # <<>>
             /\ \E j \in DOMAIN clauses :
                  /\ IsSatisfied(trail, clauses[j]) /\ trail[k].package \in About(clauses[j])
                  /\ trail[k].package \in Range(Tail(queue')) \/ (trail[k].package = Head(queue') /\ at' <= j)
  <2> DEFINE q == trail[k].package
  <2>1. trail[k].level = Level(trail)
    BY <1>4 DEF NoneEmpty
  <2>2. PICK j \in DOMAIN clauses :
        /\ IsSatisfied(trail, clauses[j]) /\ q \in About(clauses[j])
        /\ q \in Range(Tail(queue)) \/ (q = Head(queue) /\ at <= j)
    BY <1>4 DEF NoneEmpty
  <2>3. j \in Nat /\ j >= 1
    BY LenProperties, TypesParts DEF ClauseTypes
  <2>4. q \in Range(Tail(queue))
    <3>1. SUFFICES ASSUME q = Head(queue), at <= j PROVE FALSE
      BY <2>2
    <3>2. j >= at /\ Head(queue) \in About(clauses[j])
      <4>1. at \in Nat
        BY TypesParts DEF QueueTypes
      <4> QED BY <2>2, <2>3, <3>1, <4>1
    <3>3. IsConflict(clauses[j])
      BY <2>2, ViolatedIs
    <3>4. NextClause > 0
      BY <3>2, <3>3, DueFacts
    <3> QED BY <1>1, <3>4
  <2>5. Tail(queue) # <<>>
    BY <2>4 DEF Range
  <2>6. Range(Tail(queue)) = {Head(queue')} \cup Range(Tail(queue'))
    BY <1>1, <1>3, <2>5, TailIn
  <2> QED BY <1>1, <2>1, <2>2, <2>3, <2>4, <2>5, <2>6
<1>5. NoneEmpty'
  BY <1>1, <1>4 DEF NoneEmpty
<1> QED BY <1>2, <1>5

\* A version is chosen from what is left of a package, of which something is.
LEMMA ChosenIsLeft ==
    ASSUME WellTrailed, NoneEmpty, phase = "deciding", NEW p \in Undecided, NEW v \in Versions,
           v = ChooseVersion(world, wants, p, RangeOrFull(p))
    PROVE  v \in RangeNow(p) /\ v \in Catalog(world, p) \cap world.limit[p]
<1>1. p \in Packages /\ p \in Names /\ positive[p] # NoRange
  BY UndecidedFacts
<1>2. EntriesOf(trail, p) # {}
  BY <1>1, NowIsNothing DEF WellTrailed
<1>3. PICK k \in DOMAIN trail : positive[p] = trail[k].pos /\ RangeNow(p) = Left(trail[k]) /\ RangeNow(p) # NoRange
  BY <1>1, <1>2, NowIs DEF WellTrailed
<1>4. RangeNow(p) # {}
  BY <1>1, <1>3 DEF NoneEmpty, Emptied
<1>5. RangeOrFull(p) = RangeNow(p)
  BY <1>3, <1>4 DEF RangeOrFull
<1>6. v \in Matching(world, p, RangeNow(p))
  BY <1>5, ChosenIsSane DEF Sane
<1> QED BY <1>6 DEF Matching

LEMMA DecideTrail ==
    ASSUME Types, WellTrailed, NoneEmpty, phase = "deciding", NEW p \in Undecided, NEW v,
           v = ChooseVersion(world, wants, p, RangeOrFull(p)), Decide(p, v)
    PROVE  WellTrailed' /\ NoneEmpty'
<1>1. /\ v \in Versions /\ trail' = Append(trail, Assign(p, Level(trail) + 1, NoClause, {v}, negative[p], v))
      /\ positive' = [positive EXCEPT ![p] = {v}] /\ negative' = negative /\ decided' = [decided EXCEPT ![p] = v]
  BY DecideParts
<1>2. p \in Packages /\ p \in Names /\ positive[p] # NoRange /\ decided[p] = None
  BY UndecidedFacts
<1>3. v \in RangeNow(p)
  BY <1>1, ChosenIsLeft
<1>4. TrailFits(trail) /\ Cached /\ SolutionTypes
  BY TypesParts DEF WellTrailed
<1>5. TrailFits(trail') /\ Cached'
  BY <1>1, <1>2, <1>3, <1>4, DecideFits
<1> DEFINE e == Assign(p, Level(trail) + 1, NoClause, {v}, negative[p], v)
<1>6. e \in Entry /\ e.cause = NoClause /\ {v} # {}
  <2>1. negative[p] \in Ranges /\ Level(trail) + 1 \in Nat /\ v \in Versions \cup {None} /\ {v} \in Ranges
    BY <1>1, <1>2, <1>4, LevelsRise, UniverseFacts DEF SolutionTypes, Ranges
  <2> QED BY <1>2, <2>1, NoClauseShape, AssignIsEntry
<1>7. trail' = Append(trail, e)
  BY <1>1
<1> HIDE DEF e
<1>8. /\ Len(trail) \in Nat /\ DOMAIN trail = 1..Len(trail) /\ DOMAIN trail' = 1..Len(trail) + 1
      /\ trail'[Len(trail) + 1] = e /\ \A i \in 1..Len(trail) : trail'[i] = trail[i]
  <2>1. TrailTypes(trail) /\ TrailTypes(trail')
    BY <1>4, <1>5 DEF TrailFits
  <2>2. Len(trail') = Len(trail) + 1 /\ trail'[Len(trail) + 1] = e /\ \A i \in 1..Len(trail) : trail'[i] = trail[i]
    BY <1>6, <1>7, <2>1, NoClauseShape, LongerTrail
  <2> QED BY <2>1, <2>2, EntryFacts
<1>9. ASSUME NEW k \in DOMAIN trail' PROVE ~Emptied(trail'[k])
  <2>1. CASE k = Len(trail) + 1
    <3>1. EntryFits(trail', k)
      BY <1>5 DEF TrailFits
    <3>2. Left(trail'[k]) = {trail'[k].decision}
      BY <1>6, <1>8, <2>1, <3>1 DEF EntryFits, DecisionFits
    <3> QED BY <3>2 DEF Emptied
  <2>2. CASE k \in 1..Len(trail)
    BY <1>8, <2>2 DEF NoneEmpty
  <2> QED BY <1>8, <2>1, <2>2
<1>10. NoneEmpty'
  BY <1>9 DEF NoneEmpty
<1> QED BY <1>5, <1>10 DEF WellTrailed

LEMMA BackjumpTrail ==
    ASSUME Types, WellTrailed, NoneEmpty, NEW c, Explained(c), CanBackjump(Analysis(trail, c)), NEW learned,
           Backjump(c, Analysis(trail, c), learned)
    PROVE  WellTrailed' /\ NoneEmpty'
<1>1. TrailFits(trail)
  BY DEF WellTrailed
<1>2. PICK k \in DOMAIN trail, m \in 1..Len(trail) : JumpLeaves(c, k, m) /\ TrailFits(trail') /\ Cached'
  BY <1>1, BackjumpLeaves
<1>3. /\ trail' = SubSeq(trail, 1, m) /\ \A i \in DOMAIN trail : i <= m => trail[i].level < Level(trail)
  BY <1>2 DEF JumpLeaves
<1>4. /\ Len(trail') = m /\ \A i \in 1..m : trail'[i] = trail[i]
  BY <1>1, <1>3, ShortenFits
<1>5. DOMAIN trail' = 1..m /\ m \in Nat /\ DOMAIN trail = 1..Len(trail) /\ Len(trail) \in Nat
      /\ Level(trail) \in Nat /\ \A i \in DOMAIN trail : trail[i].level \in Nat
  BY <1>1, <1>2, <1>4, EntryFacts, LevelsRise DEF TrailFits
<1>6. ASSUME NEW i \in DOMAIN trail' PROVE ~Emptied(trail'[i])
  <2>1. i \in DOMAIN trail /\ i <= m /\ trail'[i] = trail[i]
    BY <1>4, <1>5
  <2>2. trail[i].level # Level(trail)
    BY <1>3, <1>5, <2>1
  <2> QED BY <2>1, <2>2 DEF NoneEmpty
<1>7. NoneEmpty'
  BY <1>6 DEF NoneEmpty
<1> QED BY <1>2, <1>7 DEF WellTrailed

\* The trail stays, and propagation does not go on.
LEMMA RestingTrail ==
    ASSUME WellTrailed, NoneEmpty, UNCHANGED solution, phase = "deciding" \/ phase' \notin {"propagating", "deciding"}
    PROVE  WellTrailed' /\ NoneEmpty'
<1>1. trail' = trail /\ positive' = positive /\ negative' = negative /\ decided' = decided
  BY DEF solution
<1>2. WellTrailed'
  BY <1>1 DEF WellTrailed, Cached
<1>3. NoneEmpty'
  BY <1>1 DEF NoneEmpty
<1> QED BY <1>2, <1>3

LEMMA TrailKept == ASSUME Types, WellTrailed, NoneEmpty, [Next]_vars PROVE WellTrailed' /\ NoneEmpty'
<1>1. CASE UNCHANGED vars
  BY <1>1 DEF vars, solution, search, WellTrailed, Cached, NoneEmpty
<1>2. CASE Ends
  BY <1>2 DEF Ends, vars, solution, search, WellTrailed, Cached, NoneEmpty
<1>3. CASE Propagate
  <2>1. phase = "propagating" /\ (Derive(NextClause) \/ FindConflict(NextClause) \/ NextPackage(NextClause))
    BY <1>3 DEF Propagate
  <2>2. CASE Derive(NextClause)
    BY <2>1, <2>2, DeriveTrail DEF Derive
  <2>3. CASE FindConflict(NextClause)
    BY <2>3, RestingTrail DEF FindConflict
  <2> QED BY <2>1, <2>2, <2>3, NextPackageTrail
<1>4. CASE Stop
  <2>1. UNCHANGED solution /\ phase' \in {"stalled", "failed"}
    BY <1>4 DEF Stop
  <2> QED BY <2>1, RestingTrail
<1>5. CASE Explain
  <2> DEFINE a == Analysis(trail, conflict)
  <2>1. CASE Resolve(a) \/ GiveUp(a)
    <3>1. UNCHANGED solution /\ phase' \notin {"propagating", "deciding"}
      BY <1>5, <2>1, ExplainCases DEF Resolve, GiveUp
    <3> QED BY <3>1, RestingTrail
  <2>2. CASE \E c, learned : /\ Explained(c) /\ CanBackjump(Analysis(trail, c))
                             /\ Backjump(c, Analysis(trail, c), learned)
    BY <2>2, BackjumpTrail
  <2> QED BY <1>5, <2>1, <2>2, ExplainCases
<1>6. CASE Choose
  <2>1. phase = "deciding"
    BY <1>6, ChooseCases
  <2>2. PICK p \in Undecided : \E v : /\ v = ChooseVersion(world, wants, p, RangeOrFull(p))
                                      /\ Decide(p, v) \/ RecordNoVersions(p, v) \/ ChoiceRaises(v)
    BY <1>6, ChooseCases
  <2>3. \A v : RecordNoVersions(p, v) \/ ChoiceRaises(v) => UNCHANGED solution
    BY DEF RecordNoVersions, ChoiceRaises
  <2> QED BY <2>1, <2>2, <2>3, DecideTrail, RestingTrail
<1>7. CASE AllDecided \/ Visit \/ Answer
  <2>1. UNCHANGED solution /\ phase' \notin {"propagating", "deciding"}
    BY <1>7 DEF AllDecided, Visit, Answer, Walk, HasNoDecision, Skip
  <2> QED BY <2>1, RestingTrail
<1> QED BY <1>1, <1>2, <1>3, <1>4, <1>5, <1>6, <1>7 DEF Next

LEMMA TrailFirst == ASSUME Init PROVE WellTrailed /\ NoneEmpty
<1>1. /\ trail = RootTrail
      /\ positive = [p \in Names |-> IF p = ROOT THEN {1} ELSE NoRange]
      /\ negative = [p \in Names |-> NoRange]
      /\ decided = [p \in Names |-> IF p = ROOT THEN 1 ELSE None]
  BY DEF Init
<1>2. TrailTypes(RootTrail) /\ Len(RootTrail) = 1 /\ RootTrail[1] = Assign(ROOT, 1, NoClause, {1}, NoRange, 1)
  BY RootTrailTypes
<1>3. DOMAIN trail = {1} /\ trail[1].package = ROOT /\ trail[1].pos = {1} /\ trail[1].neg = NoRange
      /\ trail[1].decision = 1
  BY <1>1, <1>2, EntryFacts DEF Assign
<1>4. \A p : EntriesOf(trail, p) = IF p = ROOT THEN {1} ELSE {}
  BY <1>3 DEF EntriesOf
<1>5. Cached
  BY <1>1, <1>3, <1>4 DEF Cached, CacheIs
<1>6. Left(trail[1]) = {1}
  BY <1>3, RangeIsSome, UniverseFacts DEF Left, Effective
<1>7. NoneEmpty
  BY <1>3, <1>6 DEF NoneEmpty, Emptied
<1> QED BY <1>1, <1>5, <1>7, RootTrailFits DEF WellTrailed

\* AsIfReplayed: what is cached for a package is what its entries add up to. Every entry records what
\* they add up to up to it, so that the last one says it all, whichever entries a jump has cut off
\* after it.
THEOREM CacheIsReplayed == Spec => []AsIfReplayed
<1>1. Init => Types /\ WellTrailed /\ NoneEmpty
  BY TypesFirst, TrailFirst
<1>2. WellTrailed => AsIfReplayed
  <2> SUFFICES ASSUME WellTrailed, NEW p \in Names
               PROVE  LET said(sign) == {Says(trail[i]).range :
                                            i \in {j \in EntriesOf(trail, p) : Says(trail[j]).positive = sign}}
                      IN  /\ positive[p] = IF said(TRUE) = {} THEN NoRange
                                           ELSE {v \in Universe : \A R \in said(TRUE) : v \in R}
                          /\ negative[p] = IF said(FALSE) = {} THEN NoRange ELSE UNION said(FALSE)
                          /\ decided[p] = IF \E i \in EntriesOf(trail, p) : trail[i].cause = NoClause
                                          THEN trail[CHOOSE i \in EntriesOf(trail, p) : trail[i].cause = NoClause].decision
                                          ELSE None
    BY DEF AsIfReplayed
  <2> DEFINE E == EntriesOf(trail, p)
             n == Len(trail)
             yes == TruthsOf(trail, p, n)
             no == DenialsOf(trail, p, n)
             said(sign) == {Says(trail[i]).range : i \in {j \in E : Says(trail[j]).positive = sign}}
  <2>1. TrailFits(trail) /\ Cached
    BY DEF WellTrailed
  <2>2. \A i \in E : i \in DOMAIN trail /\ i <= n
    BY <2>1, EntryFacts DEF TrailFits, EntriesOf
  <2>3. \A i \in E : Says(trail[i]).positive \in BOOLEAN /\ Says(trail[i]).range \subseteq Universe
    <3> SUFFICES ASSUME NEW i \in E PROVE Says(trail[i]).positive \in BOOLEAN /\ Says(trail[i]).range \subseteq Universe
      OBVIOUS
    <3>1. i \in DOMAIN trail /\ trail[i].package = p /\ EntryFits(trail, i) /\ Shape(trail[i].cause)
      BY <2>1, <2>2, EntryFacts DEF TrailFits, EntriesOf
    <3>2. CASE trail[i].cause = NoClause
      <4>1. trail[i].decision \in Universe
        BY <3>1, <3>2, UniverseFacts DEF EntryFits, DecisionFits
      <4> QED BY <3>2, <4>1 DEF Says
    <3>3. CASE trail[i].cause # NoClause
      <4>1. Negate(trail[i].cause.terms[p]) \in Term
        BY <3>1, <3>3, ShapedFacts DEF EntryFits, DerivationFits
      <4> QED BY <3>1, <3>3, <4>1 DEF Says, Term
    <3> QED BY <3>2, <3>3
  <2>4. yes = {j \in E : Says(trail[j]).positive = TRUE} /\ no = {j \in E : Says(trail[j]).positive = FALSE}
    BY <2>2, <2>3 DEF TruthsOf, DenialsOf
  <2>5. said(TRUE) = {Says(trail[i]).range : i \in yes} /\ said(FALSE) = {Says(trail[i]).range : i \in no}
    BY <2>4
  <2>6. positive[p] = PosAt(trail, p, n) /\ negative[p] = NegAt(trail, p, n)
    BY <2>1, CacheAddsUp
  <2>7. /\ positive[p] = IF yes = {} THEN NoRange ELSE {v \in Universe : \A i \in yes : v \in Says(trail[i]).range}
        /\ negative[p] = IF no = {} THEN NoRange ELSE {v \in Universe : \E i \in no : v \in Says(trail[i]).range}
    BY <2>6 DEF PosAt, NegAt
  <2>8. yes \subseteq E /\ no \subseteq E
    BY DEF TruthsOf, DenialsOf
  <2> HIDE DEF yes, no, said
  <2>9. positive[p] = IF said(TRUE) = {} THEN NoRange ELSE {v \in Universe : \A R \in said(TRUE) : v \in R}
    <3>1. said(TRUE) = {} <=> yes = {}
      <4>1. PICK S : S = said(TRUE)
        OBVIOUS
      <4>2. S = {Says(trail[i]).range : i \in yes}
        BY <2>5, <4>1
      <4>3. S = {} <=> yes = {}
        BY <4>2
      <4> QED BY <4>1, <4>3
    <3>2. {v \in Universe : \A R \in said(TRUE) : v \in R} = {v \in Universe : \A i \in yes : v \in Says(trail[i]).range}
      BY <2>5
    <3> QED BY <2>7, <3>1, <3>2
  <2>10. negative[p] = IF said(FALSE) = {} THEN NoRange ELSE UNION said(FALSE)
    <3>1. said(FALSE) = {} <=> no = {}
      BY <2>5
    <3>2. \A i \in no : Says(trail[i]).range \subseteq Universe
      BY <2>3, <2>8
    <3>3. UNION said(FALSE) = {v \in Universe : \E i \in no : v \in Says(trail[i]).range}
      BY <2>5, <3>2
    <3> QED BY <2>7, <3>1, <3>3
  <2>11. decided[p] = IF \E i \in E : trail[i].cause = NoClause
                      THEN trail[CHOOSE i \in E : trail[i].cause = NoClause].decision ELSE None
    <3>1. CASE decided[p] = None
      BY <2>1, <3>1, DecisionIs
    <3>2. CASE decided[p] # None
      <4>1. PICK k \in E : /\ trail[k].cause = NoClause /\ trail[k].decision = decided[p]
                           /\ \A j \in E : trail[j].cause = NoClause => j = k
        BY <2>1, <3>2, DecisionIs
      <4>2. (CHOOSE i \in E : trail[i].cause = NoClause) = k
        BY <4>1
      <4> QED BY <4>1, <4>2
    <3> QED BY <3>1, <3>2
  <2> QED BY <2>9, <2>10, <2>11 DEF said
<1>3. Types /\ WellTrailed /\ NoneEmpty /\ [Next]_vars => (Types /\ WellTrailed /\ NoneEmpty)'
  BY TypesKept, TrailKept
<1> QED BY <1>1, <1>2, <1>3, PTL DEF Spec

------------------------------------------------------------------------------------
(* Conflict resolution: each clause it comes to is satisfied earlier than the last. *)

LEMMA OperatorsAre ==
    ASSUME NEW t \in Term, NEW u \in Term
    PROVE  /\ \A x : Holds(Intersect(t, u), x) <=> Holds(t, x) /\ Holds(u, x)
           /\ \A x : Holds(Union(t, u), x) <=> Holds(t, x) \/ Holds(u, x)
           /\ Intersect(t, u).positive <=> t.positive \/ u.positive
           /\ Union(t, u).positive <=> t.positive /\ u.positive
           /\ Intersect(t, u) \in Term /\ Union(t, u) \in Term
BY DEF Intersect, Union, Holds, Term

LEMMA UnionSaysSomething ==
    ASSUME NEW c, NEW d, NEW p \in Names, p \in About(c) \cap About(d), p \in About(PriorCause(c, d, p))
    PROVE  ~IsTautology(Union(c.terms[p], d.terms[p]))
<1> DEFINE r == PriorCause(c, d, p)
<1>1. IsTautology(Union(c.terms[p], d.terms[p])) => r.terms[p] = NoTerm
  BY DEF PriorCause
<1> QED BY <1>1 DEF About

\* A clause is satisfied by the n-th entry at the latest.
SatisfiedBy(c, n) == \A q \in About(c) : \E j \in Satisfiers(trail, q, c.terms[q]) : j <= n

\* The term of the package that is resolved: an entry before the satisfier satisfies it.
LEMMA UnionIsEarlier ==
    ASSUME TrailFits(trail), NEW t \in Term, NEW u \in Term, NEW p \in Names, NEW k \in EntriesOf(trail, p),
           trail[k].cause # NoClause, trail[k].cause.terms[p] = u,
           k \in Satisfiers(trail, p, t), ~IsTautology(Union(t, u))
    PROVE  \E j \in Satisfiers(trail, p, Union(t, u)) : j < k
<1> DEFINE E == {i \in EntriesOf(trail, p) : i < k}
           x == Union(t, u)
<1>1. /\ DOMAIN trail = 1..Len(trail) /\ Len(trail) \in Nat /\ TrailTypes(trail)
      /\ k \in DOMAIN trail /\ trail[k].package = p /\ k \in Nat /\ EntryFits(trail, k)
      /\ \A i \in EntriesOf(trail, p) : i \in Nat /\ i \in DOMAIN trail /\ trail[i].package = p
      /\ \A i \in DOMAIN trail : EntryFits(trail, i)
  BY EntryFacts DEF TrailFits, EntriesOf
<1>2. Says(trail[k]) = Negate(u) /\ (Says(trail[k]).positive <=> ~u.positive)
  <2>1. Says(trail[k]) = Negate(u)
    BY <1>1 DEF Says
  <2> QED BY <2>1, NegateIsNot
<1>3. /\ x \in Term /\ (x.positive <=> t.positive /\ u.positive)
      /\ \A v : Holds(x, v) <=> Holds(t, v) \/ Holds(u, v)
  BY OperatorsAre
<1>4. (t.positive => trail[k].pos # NoRange) /\ \A v \in Left(trail[k]) : Holds(t, v)
  BY MeetsIsAll DEF Satisfiers, SatisfiedAt, Left
<1>5. Left(trail[k]) = {v \in Universe : \A i \in EntriesOf(trail, p) : i <= k => Holds(Says(trail[i]), v)}
  BY <1>1, LeftIs
<1>6. ASSUME NEW v \in Universe, \A i \in E : Holds(Says(trail[i]), v) PROVE Holds(x, v)
  <2>1. CASE Holds(u, v)
    BY <1>3, <2>1
  <2>2. CASE ~Holds(u, v)
    <3>1. Holds(Says(trail[k]), v)
      BY <1>2, <2>2, NegateIsNot
    <3>2. \A i \in EntriesOf(trail, p) : i <= k => Holds(Says(trail[i]), v)
      BY <1>1, <1>6, <3>1
    <3> QED BY <1>3, <1>4, <1>5, <3>2
  <2> QED BY <2>1, <2>2
<1>7. x.positive => \E i \in E : Says(trail[i]).positive
  <2>1. SUFFICES ASSUME t.positive, u.positive PROVE \E i \in E : Says(trail[i]).positive
    BY <1>3
  <2>2. TruthsOf(trail, p, k) # {}
    BY <1>1, <1>4, <2>1, LeftIs
  <2>3. PICK i \in EntriesOf(trail, p) : i <= k /\ Says(trail[i]).positive
    BY <2>2 DEF TruthsOf
  <2>4. i # k
    BY <1>2, <2>1, <2>3
  <2> QED BY <1>1, <2>3, <2>4
<1> HIDE DEF x
<1>8. E # {}
  <2>1. SUFFICES ASSUME E = {} PROVE FALSE
    OBVIOUS
  <2>2. ~x.positive /\ \A v \in Universe : Holds(x, v)
    BY <1>6, <1>7, <2>1
  <2>3. x.range = {}
    BY <1>3, <2>2 DEF Holds, Term
  <2> QED BY <2>2, <2>3 DEF IsTautology, x
<1>9. PICK j \in E : \A i \in E : i <= j
  <2>1. E \subseteq 0..Len(trail)
    BY <1>1
  <2>2. \E j \in E : \A i \in E : j >= i
    BY <1>1, <1>8, <2>1, GreatestExists
  <2>3. \A i \in E : i \in Nat
    BY <1>1
  <2> QED BY <2>2, <2>3
<1>10. Left(trail[j]) = {v \in Universe : \A i \in EntriesOf(trail, p) : i <= j => Holds(Says(trail[i]), v)}
  BY <1>1, LeftIs
<1>11. \A i \in E : i \in EntriesOf(trail, p) /\ i <= j
  BY <1>9
<1>12. Meets(x, Left(trail[j]))
  <2>1. \A v \in Left(trail[j]) : Holds(x, v)
    BY <1>6, <1>10, <1>11
  <2> QED BY <1>3, <2>1, MeetsIsAll
<1>13. x.positive => trail[j].pos # NoRange
  <2>1. SUFFICES ASSUME x.positive PROVE TruthsOf(trail, p, j) # {}
    BY <1>1, LeftIs
  <2> QED BY <1>7, <1>9, <2>1 DEF TruthsOf
<1>14. j \in Satisfiers(trail, p, x)
  BY <1>12, <1>13 DEF Satisfiers, SatisfiedAt, Left
<1> QED BY <1>14 DEF x

\* Two terms of one package are satisfied together by the later of their satisfiers.
LEMMA IntersectIsMet ==
    ASSUME TrailFits(trail), NEW t \in Term, NEW u \in Term, NEW p, NEW i \in Satisfiers(trail, p, t),
           NEW j \in Satisfiers(trail, p, u), i <= j
    PROVE  j \in Satisfiers(trail, p, Intersect(t, u)) /\ j \in Satisfiers(trail, p, Intersect(u, t))
<1>1. i \in EntriesOf(trail, p) /\ j \in EntriesOf(trail, p) /\ i \in DOMAIN trail /\ j \in DOMAIN trail
  BY DEF Satisfiers, EntriesOf
<1>2. j \in Satisfiers(trail, p, t)
  BY <1>1, StillSatisfied DEF TrailFits
<1>3. /\ (t.positive => trail[j].pos # NoRange) /\ (u.positive => trail[j].pos # NoRange)
      /\ \A v \in Left(trail[j]) : Holds(t, v) /\ Holds(u, v)
  BY <1>2, MeetsIsAll DEF Satisfiers, SatisfiedAt, Left
<1>4. SatisfiedAt(trail[j], Intersect(t, u)) /\ SatisfiedAt(trail[j], Intersect(u, t))
  BY <1>3, OperatorsAre, MeetsIsAll DEF SatisfiedAt, Left
<1> QED BY <1>1, <1>4 DEF Satisfiers

\* Resolving with the cause of the satisfier leaves a clause that entries before it satisfy.
LEMMA ResolvedIsEarlier ==
    ASSUME TrailFits(trail), NEW c, Shape(c), NEW k, LastOf(trail, c, k), trail[k].cause # NoClause
    PROVE  SatisfiedBy(PriorCause(c, trail[k].cause, trail[k].package), k - 1)
<1> DEFINE p == trail[k].package
           d == trail[k].cause
           r == PriorCause(c, d, p)
<1>1. /\ DOMAIN trail = 1..Len(trail) /\ Len(trail) \in Nat /\ k \in DOMAIN trail /\ k \in Nat /\ p \in About(c)
      /\ k \in Satisfiers(trail, p, c.terms[p]) /\ k \in EntriesOf(trail, p)
      /\ \A q \in About(c) : \E j \in Satisfiers(trail, q, c.terms[q]) : j <= k
      /\ Shape(d) /\ EntryFits(trail, k)
  BY EntryFacts DEF LastOf, TrailFits, Satisfiers
<1>2. /\ p \in About(d) /\ \A q \in About(d) \ {p} : \E j \in Satisfiers(trail, q, d.terms[q]) : j < k
  BY <1>1 DEF EntryFits, DerivationFits
<1>3. \A q, t : \A j \in Satisfiers(trail, q, t) : j \in Nat /\ trail[j].package = q
  BY <1>1 DEF Satisfiers, EntriesOf
<1>4. \A q \in About(c) \ {p} : \E j \in Satisfiers(trail, q, c.terms[q]) : j < k
  <2> SUFFICES ASSUME NEW q \in About(c) \ {p} PROVE \E j \in Satisfiers(trail, q, c.terms[q]) : j < k
    OBVIOUS
  <2>1. PICK j \in Satisfiers(trail, q, c.terms[q]) : j <= k
    BY <1>1
  <2>2. j # k /\ j \in Nat
    BY <1>3, <2>1
  <2> QED BY <1>1, <2>1, <2>2
<1>5. /\ About(c) \subseteq Names /\ About(d) \subseteq Names /\ Typed(c) /\ Typed(d)
      /\ \A q \in About(c) : c.terms[q] \in Term
      /\ \A q \in About(d) : d.terms[q] \in Term
  BY <1>1, ShapedFacts
<1> HIDE DEF p, d
<1>6. ASSUME NEW q \in About(r)
      PROVE  /\ q \in Names /\ (q \in About(c) \/ q \in About(d))
             /\ q \notin About(c) => r.terms[q] = d.terms[q]
             /\ q \notin About(d) => r.terms[q] = c.terms[q]
             /\ q # p /\ q \in About(c) /\ q \in About(d) => r.terms[q] = Intersect(c.terms[q], d.terms[q])
             /\ q = p => r.terms[q] = Union(c.terms[p], d.terms[p]) /\ ~IsTautology(Union(c.terms[p], d.terms[p]))
  <2>1. About(r) \subseteq About(c) \cup About(d)
    BY <1>1, PriorCauseShape
  <2>2. q \in Names /\ p \in Names
    BY <1>1, <1>2, <1>5, <2>1
  <2>3. q \notin About(c) => r.terms[q] = d.terms[q]
    BY <1>5, <2>2, PriorCauseTerms
  <2>4. q \notin About(d) => r.terms[q] = c.terms[q]
    BY <1>5, <2>2, PriorCauseTerms
  <2>5. q # p /\ q \in About(c) /\ q \in About(d) => r.terms[q] = Intersect(c.terms[q], d.terms[q])
    BY <1>5, <2>2, PriorCauseTerms
  <2>6. ASSUME q = p
        PROVE  r.terms[p] = Union(c.terms[p], d.terms[p]) /\ ~IsTautology(Union(c.terms[p], d.terms[p]))
    <3>1. ~IsTautology(Union(c.terms[p], d.terms[p]))
      BY <1>1, <1>2, <2>2, <2>6, UnionSaysSomething
    <3>2. r.terms[p] # NoTerm
      BY <1>6, <2>6 DEF About
    <3>3. r.terms[p] = NoTerm \/ r.terms[p] = Union(c.terms[p], d.terms[p])
      BY <1>1, <1>2, <1>5, <2>2, PriorCauseTerms
    <3> QED BY <3>1, <3>2, <3>3
  <2> QED BY <1>6, <2>1, <2>2, <2>3, <2>4, <2>5, <2>6
<1> HIDE DEF r
<1>7. ASSUME NEW q \in About(r) PROVE \E j \in Satisfiers(trail, q, r.terms[q]) : j < k
  <2>1. CASE q = p
    <3>1. trail[k].cause.terms[p] = d.terms[p] /\ trail[k].cause # NoClause /\ p \in Names
      BY <1>1, <1>5 DEF d
    <3> QED BY <1>1, <1>2, <1>5, <1>6, <1>7, <2>1, <3>1, UnionIsEarlier
  <2>2. CASE q # p /\ q \notin About(c)
    BY <1>2, <1>5, <1>6, <1>7, <2>2
  <2>3. CASE q # p /\ q \notin About(d)
    BY <1>4, <1>5, <1>6, <1>7, <2>3
  <2>4. CASE q # p /\ q \in About(c) /\ q \in About(d)
    <3>1. PICK i \in Satisfiers(trail, q, c.terms[q]) : i < k
      BY <1>4, <2>4
    <3>2. PICK j \in Satisfiers(trail, q, d.terms[q]) : j < k
      BY <1>2, <2>4
    <3>3. i \in Nat /\ j \in Nat
      BY <1>3
    <3>4. r.terms[q] = Intersect(c.terms[q], d.terms[q]) /\ c.terms[q] \in Term /\ d.terms[q] \in Term
      BY <1>5, <1>6, <2>4
    <3>5. CASE i <= j
      BY <3>2, <3>4, <3>5, IntersectIsMet
    <3>6. CASE j <= i
      BY <3>1, <3>4, <3>6, IntersectIsMet
    <3> QED BY <3>3, <3>5, <3>6
  <2> QED BY <2>1, <2>2, <2>3, <2>4
<1>8. SatisfiedBy(r, k - 1)
  <2> SUFFICES ASSUME NEW q \in About(r) PROVE \E j \in Satisfiers(trail, q, r.terms[q]) : j <= k - 1
    BY DEF SatisfiedBy
  <2>1. PICK j \in Satisfiers(trail, q, r.terms[q]) : j < k
    BY <1>7
  <2>2. j \in Nat
    BY <1>3
  <2>3. j <= k - 1
    BY <1>1, <2>1, <2>2
  <2> QED BY <2>3
<1> QED BY <1>8 DEF r, d, p

\* While it resolves, the steps that are left reach down to where the conflict's terms are satisfied.
StepsLast ==
    /\ phase \notin {"stalled", "gave up"}
    /\ phase = "resolving" => steps >= 1 /\ SatisfiedBy(conflict, steps)

LEMMA FirstStepsLast ==
    ASSUME Types, WellTrailed, NextClause > 0, FindConflict(NextClause) PROVE StepsLast'
<1> DEFINE n == Len(trail)
           budget == StepsPerTrailEntry * n
<1>1. /\ phase' = "resolving" /\ conflict' = clauses[NextClause] /\ trail' = trail
      /\ steps' = Max({MinConflictSteps, budget}) /\ IsConflict(clauses[NextClause])
  BY DEF FindConflict, solution
<1>2. /\ n \in Nat /\ n >= 1 /\ DOMAIN trail = 1..n
  BY EntryFacts DEF WellTrailed, TrailFits
<1>3. budget \in Nat /\ budget >= n
  <2>1. StepsPerTrailEntry \in Nat /\ StepsPerTrailEntry >= 1
    BY LimitsAssumption
  <2> HIDE DEF n
  <2> QED BY <1>2, <2>1
<1> HIDE DEF budget
<1>4. steps' \in Nat /\ steps' >= budget
  <2>1. MinConflictSteps \in Nat
    BY LimitsAssumption
  <2> DEFINE both == {MinConflictSteps, budget}
  <2>2. \E m \in Nat : both \subseteq 0..m /\ both # {}
    <3>1. MinConflictSteps <= MinConflictSteps + budget /\ budget <= MinConflictSteps + budget
      BY <1>3, <2>1
    <3>2. both \subseteq 0..MinConflictSteps + budget
      BY <1>3, <2>1, <3>1
    <3> QED BY <1>3, <2>1, <3>2
  <2>3. budget \in both /\ both \subseteq Nat
    BY <1>3, <2>1
  <2> HIDE DEF both
  <2>4. Max(both) \in both /\ budget <= Max(both)
    BY <2>2, <2>3, MaxFacts
  <2>5. steps' = Max(both)
    BY <1>1 DEF both
  <2> QED BY <1>3, <2>3, <2>4, <2>5
<1>5. steps' >= n /\ steps' >= 1
  BY <1>2, <1>3, <1>4
<1>6. IsSatisfied(trail, clauses[NextClause])
  BY <1>1, ViolatedIs
<1>7. ASSUME NEW q \in About(clauses[NextClause])
      PROVE  \E j \in Satisfiers(trail, q, clauses[NextClause].terms[q]) : j <= steps'
  <2>1. PICK j \in Satisfiers(trail, q, clauses[NextClause].terms[q]) : TRUE
    BY <1>6, <1>7 DEF IsSatisfied
  <2>2. j \in 1..n
    BY <1>2 DEF Satisfiers, EntriesOf
  <2>3. j <= steps'
    BY <1>2, <1>4, <1>5, <2>2
  <2> QED BY <2>3
<1>8. SatisfiedBy(conflict, steps)'
  BY <1>1, <1>7 DEF SatisfiedBy
<1> QED BY <1>1, <1>5, <1>8 DEF StepsLast

LEMMA ResolveLasts ==
    ASSUME Types, WellTrailed, StepsLast, phase = "resolving", Explained(conflict),
           Resolve(Analysis(trail, conflict))
    PROVE  StepsLast'
<1> DEFINE a == Analysis(trail, conflict)
<1>1. /\ ~CanBackjump(a) /\ conflict' = Resolved(conflict, a) /\ steps' = steps - 1
      /\ phase' = phase /\ trail' = trail
  BY DEF Resolve, solution
<1>2. TrailFits(trail) /\ Shape(conflict) /\ steps \in Nat
  BY TypesParts DEF WellTrailed, Explained, ConflictTypes
<1>3. PICK k : JumpsTo(conflict, k)
  BY <1>2, JumpFacts
<1>4. /\ LastOf(trail, conflict, k) /\ a.satisfier = trail[k] /\ k >= 2 /\ trail[k].cause # NoClause
      /\ k \in Nat
  <2>1. k \in DOMAIN trail /\ trail[k].cause = NoClause => CanBackjump(a)
    BY <1>3 DEF JumpsTo
  <2>2. k \in Nat
    BY <1>2, <1>3, EntryFacts DEF TrailFits, JumpsTo
  <2> QED BY <1>1, <1>3, <2>1, <2>2 DEF JumpsTo
<1>5. k <= steps
  <2>1. /\ trail[k].package \in About(conflict)
        /\ \A j \in Satisfiers(trail, trail[k].package, conflict.terms[trail[k].package]) : k <= j
    BY <1>4 DEF LastOf
  <2>2. PICK j \in Satisfiers(trail, trail[k].package, conflict.terms[trail[k].package]) : j <= steps
    BY <2>1 DEF StepsLast, SatisfiedBy
  <2>3. j \in Nat
    BY <1>2, EntryFacts DEF TrailFits, Satisfiers, EntriesOf
  <2> QED BY <1>2, <1>4, <2>1, <2>2, <2>3
<1>6. SatisfiedBy(conflict', k - 1)
  BY <1>1, <1>2, <1>4, ResolvedIsEarlier DEF Resolved
<1>7. \A q \in About(conflict') : \E j \in Satisfiers(trail, q, conflict'.terms[q]) : j <= steps'
  <2> SUFFICES ASSUME NEW q \in About(conflict')
               PROVE  \E j \in Satisfiers(trail, q, conflict'.terms[q]) : j <= steps'
    OBVIOUS
  <2>1. PICK j \in Satisfiers(trail, q, conflict'.terms[q]) : j <= k - 1
    BY <1>6 DEF SatisfiedBy
  <2>2. j \in Nat
    BY <1>2, EntryFacts DEF TrailFits, Satisfiers, EntriesOf
  <2> QED BY <1>1, <1>2, <1>4, <1>5, <2>1, <2>2
<1>8. steps' >= 1
  BY <1>1, <1>2, <1>4, <1>5
<1> QED BY <1>1, <1>7, <1>8 DEF StepsLast, SatisfiedBy

LEMMA StepsKept == ASSUME Types, WellTrailed, StepsLast, [Next]_vars PROVE StepsLast'
<1>1. CASE UNCHANGED vars
  BY <1>1 DEF vars, solution, search, StepsLast, SatisfiedBy
<1>2. CASE Ends
  BY <1>2 DEF Ends, vars, solution, search, StepsLast, SatisfiedBy
<1>3. CASE Propagate
  <2>1. Derive(NextClause) \/ FindConflict(NextClause) \/ NextPackage(NextClause)
    BY <1>3 DEF Propagate
  <2>2. CASE Derive(NextClause) \/ NextPackage(NextClause)
    BY <1>3, <2>2 DEF Propagate, Derive, NextPackage, StepsLast
  <2>3. CASE FindConflict(NextClause)
    BY <2>3, FirstStepsLast DEF FindConflict
  <2> QED BY <2>1, <2>2, <2>3
<1>4. CASE Stop
  BY <1>4 DEF Stop, StepsLast
<1>5. CASE Explain
  <2> DEFINE a == Analysis(trail, conflict)
  <2>1. phase = "resolving" /\ Explained(conflict)
    BY <1>5, ExplainCases
  <2>2. CASE Resolve(a)
    BY <2>1, <2>2, ResolveLasts
  <2>3. CASE GiveUp(a)
    <3>1. PICK k : JumpsTo(conflict, k)
      BY <2>1, JumpFacts DEF WellTrailed
    <3>2. CanBackjump(a) /\ Target(a) = 0
      BY <2>3 DEF GiveUp
    <3>3. Target(a) # 0
      BY <3>1, <3>2 DEF JumpsTo
    <3> QED BY <3>2, <3>3
  <2>4. CASE \E c, learned : Backjump(c, Analysis(trail, c), learned)
    BY <2>4, BackjumpParts DEF StepsLast
  <2> QED BY <1>5, <2>2, <2>3, <2>4, ExplainCases
<1>6. CASE Choose
  BY <1>6, ChooseCases, DecideParts DEF RecordNoVersions, ChoiceRaises, StepsLast
<1>7. CASE AllDecided \/ Visit \/ Answer
  BY <1>7 DEF AllDecided, Visit, Answer, Walk, HasNoDecision, Skip, StepsLast
<1> QED BY <1>1, <1>2, <1>3, <1>4, <1>5, <1>6, <1>7 DEF Next

\* ConflictIsSatisfied: conflict resolution always has a satisfier to resolve with. The clause that
\* propagation found violated is satisfied by the trail, and resolving it with the cause of its last
\* satisfier leaves a clause that is satisfied before.
THEOREM ConflictHasSatisfiers == Spec => []ConflictIsSatisfied
<1>1. Init => Types /\ WellTrailed /\ NoneEmpty /\ StepsLast
  <2>1. Init => StepsLast
    BY DEF Init, StepsLast
  <2> QED BY <2>1, TypesFirst, TrailFirst
<1>2. StepsLast => ConflictIsSatisfied
  BY DEF StepsLast, SatisfiedBy, ConflictIsSatisfied, IsSatisfied
<1>3. Types /\ WellTrailed /\ NoneEmpty /\ StepsLast /\ [Next]_vars => (Types /\ WellTrailed /\ NoneEmpty /\ StepsLast)'
  BY TypesKept, TrailKept, StepsKept
<1> QED BY <1>1, <1>2, <1>3, PTL DEF Spec

------------------------------------------------------------------------------------
(* What is decided gets what it requires.                                           *)

Requires(R) == [positive |-> TRUE, range |-> R]
Denies(R) == [positive |-> FALSE, range |-> R]

LEMMA DeniesIs ==
    ASSUME NEW R \in SUBSET Universe
    PROVE  /\ Denies(R) \in Term /\ \A x : Holds(Denies(R), x) <=> x \notin R
           /\ Negate(Denies(R)).positive /\ Negate(Denies(R)).range = R
BY DEF Denies, Term, Holds, Negate

\* Up to the level the trail keeps the package within the range.
MetBy(q, R, level) == \E j \in Satisfiers(trail, q, Requires(R)) : trail[j].level <= level

\* What a decision requires of another package: of a root for ROOT, of a dependency for a release
\* whose lines are read under the extras xs.
Demands(w, xs, e, q, R) ==
    \/ e.package = ROOT /\ q \in Roots(w) /\ R = RootRange(w, q)
    \/ /\ e.package \in Packages /\ q \in Required(w, xs, e.package, e.decision)
       /\ R = RangeOf(w, xs, e.package, e.decision, q)

\* The extras under which the lines of version v of p are read where the user's are on: not its own
\* when its record was found by its name.
Held(p, v) == IF read[p][v] = "bare" THEN world.asked \ {p} ELSE world.asked

Asks(k, q, R) == Demands(world, Held(trail[k].package, trail[k].decision), trail[k], q, R)

\* What is decided goes on being read as it was.
ReadStays == \A p \in Packages, v \in Versions : decided[p] = v => read'[p][v] = read[p][v]

\* The clause says that version v of p requires it.
States(c, p, v, q, R) == \E V \in SUBSET Universe, cause \in Causes :
    v \in V /\ c = RequirementClause(p, V, q, R, cause)

\* Propagation of p has not come to clause i yet, a conflict is being resolved, or nothing is answered.
Pends(p, i) ==
    \/ phase \in {"resolving", "failed", "stalled", "gave up"}
    \/ phase = "propagating" /\ Head(queue) = p /\ at <= i

LEMMA DemandFacts ==
    ASSUME NEW w \in World, NEW xs, NEW e, e.package \in Packages => e.decision \in Versions, NEW q, NEW R,
           Demands(w, xs, e, q, R)
    PROVE  q \in Packages /\ R \in SUBSET Universe /\ q # e.package /\ e.package \in Names
<1>1. CASE e.package = ROOT /\ q \in Roots(w) /\ R = RootRange(w, q)
  BY <1>1, RootIsRequired, UniverseFacts
<1>2. CASE /\ e.package \in Packages /\ q \in Required(w, xs, e.package, e.decision)
           /\ R = RangeOf(w, xs, e.package, e.decision, q)
  BY <1>2, RequiredFacts, RangeIsRange, UniverseFacts
<1> QED BY <1>1, <1>2 DEF Demands

LEMMA StatedFacts ==
    ASSUME NEW c, NEW p \in Names, NEW v, NEW q \in Packages, NEW R \in SUBSET Universe, q # p,
           States(c, p, v, q, R)
    PROVE  /\ About(c) = {p, q} /\ c.terms[q] = Denies(R) /\ Holds(c.terms[p], v)
<1>1. PICK V \in SUBSET Universe, cause \in Causes : v \in V /\ c = RequirementClause(p, V, q, R, cause)
  BY DEF States
<1>2. /\ c.terms[p] = [positive |-> TRUE, range |-> V]
      /\ c.terms[q] = [positive |-> FALSE, range |-> R]
      /\ About(c) = {p, q}
  BY <1>1, RequirementClauseFacts
<1> QED BY <1>1, <1>2 DEF Denies, Holds

\* A package is within the range now when all of the trail keeps it there.
LEMMA MetIs ==
    ASSUME WellTrailed, NEW q \in Names, NEW R
    PROVE  /\ MetBy(q, R, Level(trail)) <=> positive[q] # NoRange /\ RangeNow(q) # NoRange /\ RangeNow(q) \subseteq R
           /\ \A level : MetBy(q, R, level) => MetBy(q, R, Level(trail))
<1> DEFINE t == Requires(R)
<1>1. Relation(q, t) = "satisfied" <=> Satisfiers(trail, q, t) # {}
  BY SatisfiedIs DEF WellTrailed
<1>2. t.positive /\ t.range = R
  BY DEF Requires
<1> HIDE DEF t
<1>3. Relation(q, t) = "satisfied" <=> positive[q] # NoRange /\ RangeNow(q) # NoRange /\ RangeNow(q) \subseteq R
  BY <1>2, RelationFacts DEF Meets
<1>4. \A j \in Satisfiers(trail, q, t) : trail[j].level <= Level(trail)
  BY LevelsRise DEF WellTrailed, Satisfiers, EntriesOf
<1>5. /\ MetBy(q, R, Level(trail)) <=> Satisfiers(trail, q, t) # {}
      /\ \A level : MetBy(q, R, level) => Satisfiers(trail, q, t) # {}
  BY <1>4 DEF MetBy, t
<1> QED BY <1>1, <1>3, <1>5

\* A decision on the trail is the one that is cached.
LEMMA DecidedEntry ==
    ASSUME WellTrailed, NEW k \in DOMAIN trail, trail[k].cause = NoClause, trail[k].package \in Names
    PROVE  LET p == trail[k].package
           IN  /\ decided[p] = trail[k].decision /\ decided[p] \in Versions /\ decided[p] # None
               /\ positive[p] = {decided[p]} /\ RangeNow(p) = {decided[p]}
<1> DEFINE p == trail[k].package
<1>1. k \in EntriesOf(trail, p)
  BY DEF EntriesOf
<1> HIDE DEF p
<1>2. p \in Names
  BY DEF p
<1>3. decided[p] # None
  BY <1>1, <1>2, DecisionIs DEF WellTrailed
<1>4. PICK n \in EntriesOf(trail, p) :
         /\ trail[n].decision = decided[p]
         /\ decided[p] \in Versions /\ positive[p] = {decided[p]} /\ RangeNow(p) = {decided[p]}
         /\ \A j \in EntriesOf(trail, p) : j <= n /\ (trail[j].cause = NoClause => j = n)
  BY <1>2, <1>3, DecisionIs DEF WellTrailed
<1>5. n = k
  BY <1>1, <1>4
<1> QED BY <1>3, <1>4, <1>5 DEF p

\* The clause of a requirement of what is decided: its other term is left.
LEMMA OnlyRequired ==
    ASSUME WellTrailed, NEW p \in Names, NEW v \in Versions, decided[p] = v,
           NEW q \in Packages, NEW R \in SUBSET Universe, q # p, NEW c, States(c, p, v, q, R)
    PROVE  Unsatisfied(c) \subseteq {q} /\ About(c) = {p, q} /\ c.terms[q] = Denies(R)
<1>1. About(c) = {p, q} /\ c.terms[q] = Denies(R) /\ Holds(c.terms[p], v)
  BY StatedFacts
<1>2. positive[p] = {v} /\ RangeNow(p) = {v}
  <2>1. decided[p] # None
    BY DEF Versions, None
  <2> QED BY <2>1, DecisionIs DEF WellTrailed
<1>3. {v} \in SUBSET Universe
  BY <1>2, UniverseFacts
<1>4. positive[p] # NoRange /\ RangeNow(p) # NoRange
  BY <1>2, <1>3, RangeIsSome
<1>5. Relation(p, c.terms[p]) = "satisfied"
  <2> DEFINE t == c.terms[p]
  <2>1. Holds(t, v)
    BY <1>1
  <2> HIDE DEF t
  <2>2. Meets(t, {v})
    BY <2>1 DEF Holds, Meets, Disjoint
  <2>3. Relation(p, t) = "satisfied"
    BY <1>2, <1>4, <2>2, RelationFacts
  <2> QED BY <2>3 DEF t
<1>6. Unsatisfied(c) \subseteq {q}
  BY <1>1, <1>5 DEF Unsatisfied
<1> QED BY <1>1, <1>6

\* Where the clause calls for nothing the requirement is met.
LEMMA PassedIsMet ==
    ASSUME WellTrailed, NEW p \in Names, NEW v \in Versions, decided[p] = v,
           NEW q \in Packages, NEW R \in SUBSET Universe, q # p, NEW c, States(c, p, v, q, R),
           ~IsConflict(c), ~IsUnit(c)
    PROVE  MetBy(q, R, Level(trail))
<1> DEFINE t == Denies(R)
<1>1. Unsatisfied(c) \subseteq {q} /\ c.terms[q] = t
  BY OnlyRequired
<1>2. Unsatisfied(c) = {q}
  BY <1>1 DEF IsConflict
<1>3. Relation(q, t) \notin {"satisfied", "undetermined"}
  BY <1>1, <1>2 DEF IsUnit, Unsatisfied
<1>4. t \in Term /\ \A x : Holds(t, x) <=> x \notin R
  BY DeniesIs
<1>5. ~t.positive
  BY DEF Denies
<1> HIDE DEF t
<1>6. RangeNow(q) # NoRange /\ Meets(Negate(t), RangeNow(q)) /\ positive[q] # NoRange
  BY <1>3, <1>5, RelationFacts
<1>7. \A x \in RangeNow(q) : ~Holds(t, x)
  BY <1>4, <1>6, NegateIsNot, NegateIsTerm, MeetsIsAll
<1>8. q \in Names /\ RangeNow(q) \subseteq R
  BY <1>4, <1>7, UniverseFacts
<1> QED BY <1>6, <1>8, MetIs

\* A requirement of the decision at k has its clause, and is met at the level of the decision or is
\* still to be.
Sees(k, q, R) == \E i \in DOMAIN clauses :
    /\ States(clauses[i], trail[k].package, trail[k].decision, q, R)
    /\ \/ MetBy(q, R, trail[k].level)
       \/ trail[k].level = Level(trail) /\ Pends(trail[k].package, i)

IsRead(k) == trail[k].package \in world.asked => read[trail[k].package][trail[k].decision] # "none"

OnOffer(w, e) == e.package # ROOT => e.decision \in Catalog(w, e.package) \cap w.limit[e.package]

\* Every decision is of a release on offer whose record was read, and is heeded.
Heeded == \A k \in DOMAIN trail : trail[k].cause = NoClause =>
    OnOffer(world, trail[k]) /\ IsRead(k) /\ \A q, R : Asks(k, q, R) => Sees(k, q, R)

\* Clauses are only added, or made to speak of more versions.
ClausesGrow == \A i \in DOMAIN clauses : i \in DOMAIN clauses' /\
    \A p \in Names, v \in Versions, q \in Packages, R \in SUBSET Universe :
        p # q /\ States(clauses[i], p, v, q, R) => States(clauses'[i], p, v, q, R)

LEMMA AppendedGrow ==
    ASSUME NEW S, clauses \in Seq(S), NEW c, clauses' = clauses \/ clauses' = Append(clauses, c)
    PROVE  ClausesGrow
<1>1. CASE clauses' = clauses
  BY <1>1 DEF ClausesGrow
<1>2. CASE clauses' = Append(clauses, c)
  <2>1. DOMAIN clauses = 1..Len(clauses) /\ DOMAIN clauses' = 1..Len(clauses) + 1 /\ Len(clauses) \in Nat
    BY <1>2
  <2>2. \A i \in DOMAIN clauses : clauses'[i] = clauses[i]
    BY <1>2, <2>1
  <2>3. \A i \in DOMAIN clauses : i \in DOMAIN clauses'
    BY <2>1
  <2> QED BY <2>2, <2>3 DEF ClausesGrow
<1> QED BY <1>1, <1>2

\* What a merged clause says, it says of one more version.
LEMMA MergedSays ==
    ASSUME NEW p \in Packages, NEW q \in Packages, p # q, NEW V \in SUBSET Universe, NEW W \in SUBSET Universe,
           V \subseteq W, NEW R \in SUBSET Universe,
           NEW p0 \in Names, NEW v0 \in Versions, NEW q0 \in Packages, NEW R0 \in SUBSET Universe, p0 # q0,
           States(RequirementClause(p, V, q, R, "dependency"), p0, v0, q0, R0)
    PROVE  States(RequirementClause(p, W, q, R, "dependency"), p0, v0, q0, R0)
<1> DEFINE c == RequirementClause(p, V, q, R, "dependency")
<1>1. PICK V0 \in SUBSET Universe, cause \in Causes : v0 \in V0 /\ c = RequirementClause(p0, V0, q0, R0, cause)
  BY DEF States
<1> DEFINE d == RequirementClause(p0, V0, q0, R0, cause)
<1>2. /\ c.order = <<p, q>> /\ c.terms[p] = [positive |-> TRUE, range |-> V]
      /\ c.terms[q] = [positive |-> FALSE, range |-> R] /\ c.cause = "dependency"
  BY UniverseFacts, RequirementClauseFacts
<1>3. /\ d.order = <<p0, q0>> /\ d.terms[p0] = [positive |-> TRUE, range |-> V0]
      /\ d.terms[q0] = [positive |-> FALSE, range |-> R0] /\ d.cause = cause
  BY RequirementClauseFacts
<1>4. c = d
  BY <1>1
<1> HIDE DEF c, d
<1>5. p = p0 /\ q = q0
  BY <1>2, <1>3, <1>4
<1>6. V = V0 /\ R = R0
  BY <1>2, <1>3, <1>4, <1>5
<1>7. v0 \in W /\ "dependency" \in Causes
  BY <1>1, <1>6 DEF Causes
<1> QED BY <1>5, <1>6, <1>7 DEF States

LEMMA AddedGrow ==
    ASSUME NEW p, NEW v, NEW Q, NEW range, NEW new, Adds(clauses, p, v, Q, range, new),
           clauses' = AddDependencies(clauses, p, v, range, new)
    PROVE  /\ ClausesGrow
           /\ \A q \in Q : \E i \in DOMAIN clauses' : States(clauses'[i], p, v, q, range[q])
<1> DEFINE r == AddDependencies(clauses, p, v, range, new)
<1>1. Added(clauses, r, p, v, Q, range)
  BY AddedFacts
<1>2. clauses' = r
  OBVIOUS
<1> HIDE DEF r
<1>3. /\ p \in Packages /\ v \in Versions /\ Q \subseteq Packages \ {p} /\ \A q \in Q : range[q] \in SUBSET Universe
  BY DEF Adds
<1>4. v \in Universe
  BY <1>3, UniverseFacts
<1>5. \A i \in DOMAIN clauses : i \in DOMAIN r
  BY <1>1, LenProperties DEF Added, Adds
<1>6. ASSUME NEW i \in DOMAIN clauses, NEW p0 \in Names, NEW v0 \in Versions, NEW q0 \in Packages,
             NEW R0 \in SUBSET Universe, p0 # q0, States(clauses[i], p0, v0, q0, R0)
      PROVE  States(r[i], p0, v0, q0, R0)
  <2>1. CASE r[i] = clauses[i]
    BY <1>6, <2>1
  <2>2. CASE \E q \in Q, V \in SUBSET Universe :
               /\ clauses[i] = RequirementClause(p, V, q, range[q], "dependency")
               /\ r[i] = RequirementClause(p, V \cup {v}, q, range[q], "dependency")
    <3>1. PICK q \in Q, V \in SUBSET Universe :
               /\ clauses[i] = RequirementClause(p, V, q, range[q], "dependency")
               /\ r[i] = RequirementClause(p, V \cup {v}, q, range[q], "dependency")
      BY <2>2
    <3>2. PICK W \in SUBSET Universe : W = V \cup {v}
      BY <1>4
    <3>3. PICK R \in SUBSET Universe : R = range[q]
      BY <1>3
    <3>4. States(RequirementClause(p, V, q, R, "dependency"), p0, v0, q0, R0)
      BY <1>6, <3>1, <3>3
    <3>5. q \in Packages /\ p # q /\ V \subseteq W
      BY <1>3, <3>2
    <3>6. States(RequirementClause(p, W, q, R, "dependency"), p0, v0, q0, R0)
      BY <1>3, <1>6, <3>4, <3>5, MergedSays
    <3> QED BY <3>1, <3>2, <3>3, <3>6
  <2> QED BY <1>1, <2>1, <2>2 DEF Added
<1>7. ClausesGrow
  BY <1>2, <1>5, <1>6 DEF ClausesGrow
<1>8. ASSUME NEW q \in Q PROVE \E i \in DOMAIN r : States(r[i], p, v, q, range[q])
  <2>1. PICK i \in DOMAIN r : \E V \in SUBSET Universe :
           v \in V /\ r[i] = RequirementClause(p, V, q, range[q], "dependency")
    BY <1>1 DEF Added
  <2>2. "dependency" \in Causes
    BY DEF Causes
  <2>3. States(r[i], p, v, q, range[q])
    BY <2>1, <2>2 DEF States
  <2> QED BY <2>3
<1> QED BY <1>2, <1>7, <1>8

\* The trail stays, or gets a derivation.
Derived ==
    \/ trail' = trail
    \/ \E e \in Entry : /\ Shape(e.cause) /\ e.cause # NoClause /\ e.level = Level(trail)
                        /\ trail' = Append(trail, e)

LEMMA DerivedFacts ==
    ASSUME TrailFits(trail), Derived
    PROVE  /\ Level(trail') = Level(trail)
           /\ \A k \in DOMAIN trail : k \in DOMAIN trail' /\ trail'[k] = trail[k]
           /\ \A k \in DOMAIN trail' : k \notin DOMAIN trail => trail'[k].cause # NoClause
           /\ \A q, t : \A j \in Satisfiers(trail, q, t) : j \in Satisfiers(trail', q, t)
<1>1. CASE trail' = trail
  BY <1>1
<1>2. CASE \E e \in Entry : /\ Shape(e.cause) /\ e.cause # NoClause /\ e.level = Level(trail)
                            /\ trail' = Append(trail, e)
  <2>1. PICK e \in Entry : /\ Shape(e.cause) /\ e.cause # NoClause /\ e.level = Level(trail)
                           /\ trail' = Append(trail, e)
    BY <1>2
  <2>2. TrailTypes(trail)
    BY DEF TrailFits
  <2>3. Level(trail') = Level(trail)
    BY <2>1, <2>2, AppendLevel
  <2>4. /\ TrailTypes(trail') /\ Len(trail') = Len(trail) + 1 /\ trail'[Len(trail) + 1] = e
        /\ \A i \in 1..Len(trail) : trail'[i] = trail[i]
    BY <2>1, <2>2, LongerTrail
  <2>5. DOMAIN trail = 1..Len(trail) /\ DOMAIN trail' = 1..Len(trail) + 1 /\ Len(trail) \in Nat
    BY <2>2, <2>4, EntryFacts
  <2>6. \A k \in DOMAIN trail' : k \notin DOMAIN trail => k = Len(trail) + 1
    BY <2>5
  <2>7. \A q, t : \A j : j \in Satisfiers(trail, q, t) => j \in Satisfiers(trail', q, t)
    BY <2>1, <2>2, AppendedFacts
  <2> QED BY <2>1, <2>3, <2>4, <2>5, <2>6, <2>7
<1> QED BY <1>1, <1>2 DEF Derived

\* A decision that stays on the trail requires what it did.
LEMMA AskedAsBefore ==
    ASSUME WellTrailed, world' = world, ReadStays, NEW k \in DOMAIN trail, trail[k].cause = NoClause,
           trail[k].package \in Names, trail'[k] = trail[k], world \in World, IsRead(k)
    PROVE  IsRead(k)' /\ \A q, R : Asks(k, q, R)' => Asks(k, q, R)
<1>1. PICK e : e = trail[k]
  OBVIOUS
<1>2. e.package \in Packages => read'[e.package][e.decision] = read[e.package][e.decision]
  BY <1>1, DecidedEntry DEF ReadStays
<1>3. ASSUME NEW q, NEW R, Asks(k, q, R)' PROVE Asks(k, q, R)
  <2>1. Demands(world, Held(e.package, e.decision)', e, q, R)
    BY <1>1, <1>3 DEF Asks, Held
  <2>2. e.package \in Packages => Held(e.package, e.decision)' = Held(e.package, e.decision)
    BY <1>2 DEF Held
  <2> QED BY <1>1, <2>1, <2>2 DEF Asks, Demands
<1>4. world.asked \subseteq Packages
  BY DEF World
<1>5. IsRead(k)'
  BY <1>1, <1>2, <1>4 DEF IsRead
<1> QED BY <1>3, <1>5

\* What decisions there are stay heeded while requirements that wait go on waiting until they are met.
LEMMA HeededGrows ==
    ASSUME Types, WellTrailed, Heeded, world' = world, ReadStays, Derived, ClausesGrow,
           \A p \in Names, v \in Versions, q \in Packages, R \in SUBSET Universe : \A i \in DOMAIN clauses :
               decided[p] = v /\ p # q /\ States(clauses[i], p, v, q, R) /\ Pends(p, i) =>
                   Pends(p, i)' \/ MetBy(q, R, Level(trail))'
    PROVE  Heeded'
<1>1. TrailFits(trail) /\ world \in World
  BY TypesParts DEF WellTrailed
<1>2. /\ Level(trail') = Level(trail)
      /\ \A k \in DOMAIN trail : k \in DOMAIN trail' /\ trail'[k] = trail[k]
      /\ \A k \in DOMAIN trail' : k \notin DOMAIN trail => trail'[k].cause # NoClause
      /\ \A q, t : \A j \in Satisfiers(trail, q, t) : j \in Satisfiers(trail', q, t)
  BY <1>1, DerivedFacts
<1> SUFFICES ASSUME NEW k \in DOMAIN trail', trail'[k].cause = NoClause
             PROVE  /\ OnOffer(world', trail'[k]) /\ IsRead(k)'
                    /\ \A q, R : Asks(k, q, R)' => Sees(k, q, R)'
  BY DEF Heeded
<1>3. k \in DOMAIN trail /\ trail'[k] = trail[k] /\ trail[k].cause = NoClause
  BY <1>2
<1>4. OnOffer(world', trail'[k])
  BY <1>3 DEF Heeded
<1>5. ASSUME NEW q, NEW R, Asks(k, q, R) PROVE Sees(k, q, R)'
  <2>1. PICK p, v, level : p = trail[k].package /\ v = trail[k].decision /\ level = trail[k].level
    OBVIOUS
  <2>2. PICK i \in DOMAIN clauses :
           /\ States(clauses[i], p, v, q, R)
           /\ MetBy(q, R, level) \/ (level = Level(trail) /\ Pends(p, i))
    BY <1>3, <1>5, <2>1 DEF Heeded, Sees
  <2>3. p \in Names
    BY <1>1, <1>3, <2>1, EntryFacts DEF TrailFits
  <2>4. decided[p] = v /\ v \in Versions
    BY <1>3, <2>1, <2>3, DecidedEntry
  <2>5. q \in Packages /\ R \in SUBSET Universe /\ p # q
    BY <1>1, <1>5, <2>1, <2>4, DemandFacts DEF Asks
  <2>6. i \in DOMAIN clauses' /\ States(clauses'[i], p, v, q, R)
    BY <2>2, <2>3, <2>4, <2>5 DEF ClausesGrow
  <2>7. MetBy(q, R, level) => MetBy(q, R, level)'
    <3> SUFFICES ASSUME NEW j \in Satisfiers(trail, q, Requires(R)), trail[j].level <= level
                 PROVE  \E n \in Satisfiers(trail', q, Requires(R)) : trail'[n].level <= level
      BY DEF MetBy
    <3>1. j \in DOMAIN trail
      BY DEF Satisfiers, EntriesOf
    <3> QED BY <1>2, <3>1
  <2>8. level = Level(trail) => level = Level(trail') /\ (MetBy(q, R, Level(trail))' => MetBy(q, R, level)')
    BY <1>2 DEF MetBy
  <2>9. MetBy(q, R, level)' \/ (level = Level(trail') /\ Pends(p, i)')
    BY <2>2, <2>3, <2>4, <2>5, <2>7, <2>8
  <2> QED BY <1>3, <2>1, <2>6, <2>9 DEF Sees, MetBy, Pends
<1>6. trail[k].package \in Names /\ IsRead(k)
  BY <1>1, <1>3, EntryFacts DEF TrailFits, Heeded
<1>7. IsRead(k)' /\ \A q, R : Asks(k, q, R)' => Asks(k, q, R)
  BY <1>1, <1>3, <1>6, AskedAsBefore
<1> QED BY <1>4, <1>5, <1>7

\* Where nothing waits, or what waits goes on waiting.
LEMMA RestingHeeded ==
    ASSUME Types, WellTrailed, Heeded, world' = world, ReadStays, trail' = trail, ClausesGrow,
           \/ phase \in {"deciding", "building", "done", "raised", "no decision"}
           \/ phase' \in {"resolving", "failed", "stalled", "gave up"}
    PROVE  Heeded'
<1>1. \A p, i : Pends(p, i) => Pends(p, i)'
  BY DEF Pends
<1> QED BY <1>1, HeededGrows DEF Derived

LEMMA NextPackageHeeded ==
    ASSUME Types, WellTrailed, Heeded, phase = "propagating", NextPackage(NextClause)
    PROVE  Heeded'
<1>1. /\ NextClause = 0 /\ clauses' = clauses /\ trail' = trail /\ world' = world /\ ReadStays
  BY DEF NextPackage, solution, provider, ReadStays
<1>2. ASSUME NEW p \in Names, NEW v \in Versions, NEW q \in Packages, NEW R \in SUBSET Universe, NEW i \in DOMAIN clauses,
             decided[p] = v, p # q, States(clauses[i], p, v, q, R), Pends(p, i)
      PROVE  MetBy(q, R, Level(trail))
  <2>1. Head(queue) = p /\ at <= i
    BY <1>2 DEF Pends
  <2>2. i \in Nat /\ at \in Nat
    BY LenProperties, TypesParts DEF ClauseTypes, QueueTypes
  <2>3. p \in About(clauses[i])
    <3>1. PICK c : c = clauses[i]
      OBVIOUS
    <3>2. About(c) = {p, q}
      BY <1>2, <3>1, StatedFacts
    <3> QED BY <3>1, <3>2
  <2>4. ~IsConflict(clauses[i]) /\ ~IsUnit(clauses[i])
    BY <1>1, <2>1, <2>2, <2>3, DueFacts
  <2>5. PICK c : c = clauses[i]
    OBVIOUS
  <2> QED BY <1>2, <2>4, <2>5, PassedIsMet
<1>3. \A q, R : MetBy(q, R, Level(trail)) => MetBy(q, R, Level(trail))'
  BY <1>1 DEF MetBy
<1> QED BY <1>1, <1>2, <1>3, HeededGrows DEF Derived, ClausesGrow

LEMMA DeriveHeeded ==
    ASSUME Types, WellTrailed, Heeded, phase = "propagating", NextClause > 0, Derive(NextClause)
    PROVE  Heeded'
<1> DEFINE j == NextClause
<1>1. PICK p0 : Derives(j, p0)
  BY DeriveFacts
<1>2. /\ at' = j + 1 /\ phase' = phase /\ clauses' = clauses /\ world' = world /\ decided' = decided
      /\ ReadStays
  BY DEF Derive, provider, ReadStays
<1>3. j \in DOMAIN clauses /\ j \in Nat /\ at \in Nat /\ TrailFits(trail) /\ queue \in Seq(Names) /\ queue # <<>>
  BY NextClauseFacts, TypesParts DEF QueueTypes, WellTrailed
<1> HIDE DEF j
<1>4. PICK e \in Entry :
         /\ e.package = p0 /\ e.level = Level(trail) /\ e.cause # NoClause /\ Shape(e.cause)
         /\ trail' = Append(trail, e)
         /\ e.pos = NewPos(p0, Negate(clauses[j].terms[p0])) /\ e.neg = NewNeg(p0, Negate(clauses[j].terms[p0]))
  BY <1>1, <1>3, DerivesFacts
<1>5. Derived
  BY <1>4 DEF Derived
<1>6. /\ Level(trail') = Level(trail)
      /\ \A k \in DOMAIN trail : k \in DOMAIN trail' /\ trail'[k] = trail[k]
      /\ \A q, t : \A k \in Satisfiers(trail, q, t) : k \in Satisfiers(trail', q, t)
  BY <1>3, <1>5, DerivedFacts
<1>7. p0 \in Names /\ Unsatisfied(clauses[j]) = {p0}
      /\ queue' = (IF RangeNow(p0) = Effective(NewPos(p0, Negate(clauses[j].terms[p0])), NewNeg(p0, Negate(clauses[j].terms[p0])))
                   THEN queue ELSE Enqueued(p0))
  BY <1>1 DEF Derives
<1>8. Head(queue') = Head(queue)
  BY <1>3, <1>7, EnqueuedFacts
<1>9. ASSUME NEW p \in Names, NEW v \in Versions, NEW q \in Packages, NEW R \in SUBSET Universe, NEW i \in DOMAIN clauses,
             decided[p] = v, p # q, States(clauses[i], p, v, q, R), Pends(p, i)
      PROVE  Pends(p, i)' \/ MetBy(q, R, Level(trail))'
  <2>1. Head(queue) = p /\ at <= i
    BY <1>9 DEF Pends
  <2>2. i \in Nat
    BY LenProperties, TypesParts DEF ClauseTypes
  <2>3. PICK c : c = clauses[i]
    OBVIOUS
  <2>4. About(c) = {p, q} /\ Unsatisfied(c) \subseteq {q} /\ c.terms[q] = Denies(R)
    BY <1>9, <2>3, OnlyRequired
  <2>5. CASE i > j
    BY <1>2, <1>3, <1>8, <2>1, <2>2, <2>5 DEF Pends
  <2>6. CASE i < j
    <3>1. ~IsConflict(c) /\ ~IsUnit(c)
      BY <1>3, <2>1, <2>2, <2>3, <2>4, <2>6, DueFacts DEF j
    <3>2. MetBy(q, R, Level(trail))
      BY <1>9, <2>3, <3>1, PassedIsMet
    <3>3. PICK k \in Satisfiers(trail, q, Requires(R)) : trail[k].level <= Level(trail)
      BY <3>2 DEF MetBy
    <3>4. k \in DOMAIN trail
      BY DEF Satisfiers, EntriesOf
    <3> QED BY <1>6, <3>3, <3>4 DEF MetBy
  <2>7. CASE i = j
    <3>1. p0 = q
      BY <1>7, <2>3, <2>4, <2>7
    <3> DEFINE t == Negate(Denies(R))
    <3>2. t.positive /\ t.range = R
      BY DeniesIs
    <3>3. e.pos = NewPos(q, t) /\ e.neg = NewNeg(q, t)
      BY <1>4, <2>3, <2>4, <2>7, <3>1
    <3> HIDE DEF t
    <3>4. positive[q] \in Ranges /\ negative[q] \in Ranges
      BY <1>7, <3>1, TypesParts DEF SolutionTypes
    <3>5. e.pos \in SUBSET Universe /\ e.pos \subseteq R /\ e.neg = negative[q]
      BY <3>2, <3>3, <3>4 DEF NewPos, NewNeg, Ranges
    <3>6. e.pos # NoRange
      BY <3>5, RangeIsSome
    <3>7. Effective(e.pos, e.neg) \subseteq R
      BY <3>5, <3>6 DEF Effective
    <3>8. SatisfiedAt(e, Requires(R))
      BY <3>6, <3>7 DEF SatisfiedAt, Requires, Meets
    <3>9. TrailTypes(trail) /\ Len(trail) \in Nat
      BY <1>3, EntryFacts DEF TrailFits
    <3>10. TrailTypes(trail') /\ Len(trail') = Len(trail) + 1 /\ trail'[Len(trail) + 1] = e
      BY <1>4, <3>9, LongerTrail
    <3>11. Len(trail) + 1 \in DOMAIN trail'
      BY <3>9, <3>10, EntryFacts
    <3>12. Len(trail) + 1 \in Satisfiers(trail', q, Requires(R))
      BY <1>4, <3>1, <3>8, <3>10, <3>11 DEF Satisfiers, EntriesOf
    <3>13. trail'[Len(trail) + 1].level <= Level(trail')
      BY <1>3, <1>4, <1>6, <3>10, LevelsRise
    <3> QED BY <3>12, <3>13 DEF MetBy
  <2> QED BY <1>3, <2>2, <2>5, <2>6, <2>7
<1>10. ClausesGrow
  BY <1>2 DEF ClausesGrow
<1> QED BY <1>2, <1>5, <1>9, <1>10, HeededGrows

\* A jump undoes whole levels, and with a decision nothing that it needs; a restart begins with ROOT.
LEMMA BackjumpHeeded ==
    ASSUME Types, WellTrailed, Heeded, phase = "resolving", NEW c, Explained(c), CanBackjump(Analysis(trail, c)),
           NEW learned, Backjump(c, Analysis(trail, c), learned)
    PROVE  Heeded'
<1>1. TrailFits(trail) /\ world \in World /\ clauses \in Seq(Clause)
  BY TypesParts DEF WellTrailed, ClauseTypes
<1>2. PICK n \in DOMAIN trail, m \in 1..Len(trail) : JumpLeaves(c, n, m) /\ TrailFits(trail')
  BY <1>1, BackjumpLeaves
<1>3. /\ trail' = SubSeq(trail, 1, m) /\ \A i \in DOMAIN trail : i <= m => trail[i].level < Level(trail)
      /\ \/ m = 1 /\ queue' = <<ROOT>>
         \/ \A i, j \in DOMAIN trail : i <= m /\ trail[j].level <= trail[i].level => j <= m
  BY <1>2 DEF JumpLeaves
<1>4. /\ world' = world /\ phase' = "propagating" /\ at' = at /\ ReadStays
      /\ clauses' = clauses \/ clauses' = Append(clauses, c)
  BY BackjumpParts DEF provider, ReadStays
<1>5. at = 1
  BY TypesParts DEF QueueTypes
<1>6. ClausesGrow
  BY <1>1, <1>4, AppendedGrow
<1>7. /\ Len(trail') = m /\ \A i \in 1..m : trail'[i] = trail[i]
      /\ \A p, t : \A i : i \in Satisfiers(trail', p, t) <=> i \in Satisfiers(trail, p, t) /\ i <= m
  BY <1>1, <1>3, ShortenFits
<1>8. DOMAIN trail' = 1..m /\ m \in Nat /\ m >= 1 /\ DOMAIN trail = 1..Len(trail) /\ Len(trail) \in Nat /\ Level(trail) \in Nat
      /\ \A i \in DOMAIN trail : trail[i].level \in Nat
  BY <1>1, <1>2, <1>7, EntryFacts, LevelsRise DEF TrailFits
<1> SUFFICES ASSUME NEW k \in DOMAIN trail', trail'[k].cause = NoClause
             PROVE  /\ OnOffer(world', trail'[k]) /\ IsRead(k)'
                    /\ \A q, R : Asks(k, q, R)' => Sees(k, q, R)'
  BY DEF Heeded
<1>9. k \in DOMAIN trail /\ trail'[k] = trail[k] /\ trail[k].cause = NoClause /\ k <= m
  BY <1>7, <1>8
<1>10. OnOffer(world', trail'[k])
  BY <1>4, <1>9 DEF Heeded
<1>11. ASSUME NEW q, NEW R, Asks(k, q, R) PROVE Sees(k, q, R)'
  <2>1. PICK p, v, level : p = trail[k].package /\ v = trail[k].decision /\ level = trail[k].level
    OBVIOUS
  <2>2. PICK i \in DOMAIN clauses :
           /\ States(clauses[i], p, v, q, R)
           /\ MetBy(q, R, level) \/ (level = Level(trail) /\ Pends(p, i))
    BY <1>9, <1>11, <2>1 DEF Heeded, Sees
  <2>3. p \in Names
    BY <1>1, <1>9, <2>1, EntryFacts DEF TrailFits
  <2>4. v \in Versions
    BY <1>9, <2>1, <2>3, DecidedEntry
  <2>5. q \in Packages /\ R \in SUBSET Universe /\ p # q
    BY <1>1, <1>11, <2>1, <2>4, DemandFacts DEF Asks
  <2>6. i \in DOMAIN clauses' /\ States(clauses'[i], p, v, q, R)
    BY <1>6, <2>2, <2>3, <2>4, <2>5 DEF ClausesGrow
  <2>7. level < Level(trail) /\ level \in Nat
    BY <1>3, <1>8, <1>9, <2>1
  <2>8. PICK j \in Satisfiers(trail, q, Requires(R)) : trail[j].level <= level
    BY <1>8, <2>2, <2>7 DEF MetBy
  <2>9. j \in DOMAIN trail
    BY DEF Satisfiers, EntriesOf
  <2>10. CASE \A x, y \in DOMAIN trail : x <= m /\ trail[y].level <= trail[x].level => y <= m
    <3>1. j <= m
      BY <1>9, <2>1, <2>8, <2>9, <2>10
    <3>2. j \in Satisfiers(trail', q, Requires(R)) /\ trail'[j] = trail[j]
      BY <1>7, <1>8, <2>8, <2>9, <3>1
    <3>3. MetBy(q, R, level)'
      BY <2>8, <3>2 DEF MetBy
    <3> QED BY <1>9, <2>1, <2>6, <3>3 DEF Sees, MetBy, Pends
  <2>11. CASE m = 1 /\ queue' = <<ROOT>>
    <3>1. k = 1 /\ Len(trail') = 1
      BY <1>7, <1>8, <2>11
    <3>2. level = Level(trail')
      BY <1>1, <1>2, <1>9, <2>1, <3>1, LevelsRise
    <3>3. p = ROOT
      <4>1. trail[1] = RootTrail[1] /\ RootTrail[1].package = ROOT
        BY <1>1, RootTrailTypes DEF TrailFits, Assign
      <4> QED BY <2>1, <3>1, <4>1
    <3>4. Pends(p, i)'
      <4>1. i >= 1
        BY <1>1, LenProperties
      <4> QED BY <1>4, <1>5, <2>11, <3>3, <4>1 DEF Pends
    <3> QED BY <1>9, <2>1, <2>6, <3>2, <3>4 DEF Sees, MetBy, Pends
  <2> QED BY <1>3, <2>10, <2>11
<1>12. trail[k].package \in Names /\ IsRead(k)
  BY <1>1, <1>9, EntryFacts DEF TrailFits, Heeded
<1>13. IsRead(k)' /\ \A q, R : Asks(k, q, R)' => Asks(k, q, R)
  BY <1>1, <1>4, <1>9, <1>12, AskedAsBefore
<1> QED BY <1>10, <1>11, <1>13

\* get_dependencies reads a release under the extras under which it goes on being read.
LEMMA ReadUnder ==
    ASSUME ProviderTypes, extras = world.asked, world' = world, NEW p \in Packages, NEW v \in Versions, NEW full,
           GetDependencies(p, v, full)
    PROVE  /\ Under(p, v, full) = Held(p, v)'
           /\ \A q \in Packages, u \in Versions : <<q, u>> # <<p, v>> => read'[q][u] = read[q][u]
           /\ read[p][v] # "none" \/ p \notin world.asked => read' = read
           /\ p \in world.asked => read'[p][v] # "none"
           /\ p \in world.asked /\ read'[p][v] = "bare" => read[p][v] = "bare" \/ ~full
<1>1. read' = [read EXCEPT ![p][v] =
                  IF @ = "none" /\ p \in extras THEN (IF full THEN "full" ELSE "bare") ELSE @]
  BY DEF GetDependencies
<1>2. read \in [Packages -> [Versions -> {"none", "bare", "full"}]]
  BY DEF ProviderTypes
<1>3. /\ read'[p][v] = (IF read[p][v] = "none" /\ p \in extras THEN (IF full THEN "full" ELSE "bare") ELSE read[p][v])
      /\ \A q \in Packages, u \in Versions : <<q, u>> # <<p, v>> => read'[q][u] = read[q][u]
  BY <1>1, <1>2
<1>4. read[p][v] \in {"none", "bare", "full"}
  BY <1>2
<1>5. Held(p, v)' = IF read'[p][v] = "bare" THEN extras \ {p} ELSE extras
  BY DEF Held
<1>6. Under(p, v, full) = Held(p, v)'
  BY <1>3, <1>4, <1>5 DEF Under
<1>7. read[p][v] # "none" \/ p \notin extras => read' = read
  BY <1>1, <1>2
<1> QED BY <1>3, <1>4, <1>6, <1>7 DEF Held

\* A decision comes when nothing waits, with the clauses of what it requires and its package to propagate.
LEMMA DecideHeeded ==
    ASSUME Types, WellTrailed, NoneEmpty, Heeded, extras = world.asked, phase = "deciding", NEW p \in Undecided, NEW v,
           v = ChooseVersion(world, wants, p, RangeOrFull(p)), Decide(p, v)
    PROVE  Heeded'
<1>1. /\ v \in Versions /\ phase' = "propagating" /\ queue' = <<p>> /\ at' = at /\ world' = world
      /\ trail' = Append(trail, Assign(p, Level(trail) + 1, NoClause, {v}, negative[p], v))
  BY DecideParts
<1>2. p \in Packages /\ p \in Names /\ TrailFits(trail) /\ TrailTypes(trail) /\ world \in World /\ at = 1
      /\ negative[p] \in Ranges
  BY UndecidedFacts, TypesParts DEF WellTrailed, QueueTypes, SolutionTypes
<1> DEFINE e == Assign(p, Level(trail) + 1, NoClause, {v}, negative[p], v)
<1>3. /\ e \in Entry /\ Shape(e.cause) /\ e.cause = NoClause /\ e.package = p /\ e.decision = v
      /\ e.level = Level(trail) + 1
  <2>1. Level(trail) + 1 \in Nat /\ v \in Versions \cup {None} /\ {v} \in Ranges
    BY <1>1, <1>2, LevelsRise, UniverseFacts DEF Ranges
  <2> QED BY <1>2, <2>1, NoClauseShape, AssignIsEntry
<1>4. trail' = Append(trail, e)
  BY <1>1
<1> HIDE DEF e
<1>5. /\ TrailTypes(trail') /\ Len(trail') = Len(trail) + 1 /\ trail'[Len(trail) + 1] = e
      /\ \A i \in 1..Len(trail) : trail'[i] = trail[i]
      /\ DOMAIN trail = 1..Len(trail) /\ DOMAIN trail' = 1..Len(trail) + 1 /\ Len(trail) \in Nat
  BY <1>2, <1>3, <1>4, LongerTrail, EntryFacts
<1>6. Level(trail') = Level(trail) + 1
  BY <1>2, <1>3, <1>4, AppendLevel
<1>7. \A q, t : \A j : j \in Satisfiers(trail, q, t) => j \in Satisfiers(trail', q, t)
  BY <1>2, <1>3, <1>4, AppendedFacts
<1>8. /\ ClausesGrow /\ clauses' \in Seq(Clause)
      /\ \A q \in RequiredOf(p, v) :
           \E i \in DOMAIN clauses' : States(clauses'[i], p, v, q, RangesOf(p, v)[q])
  <2>1. PICK new : /\ Adds(clauses, p, v, RequiredOf(p, v), RangesOf(p, v), new)
                   /\ clauses' = AddDependencies(clauses, p, v, RangesOf(p, v), new)
    BY <1>2, DecideAdds
  <2>2. clauses' \in Seq(Clause)
    BY <2>1, AddedFacts DEF Added
  <2> QED BY <2>1, <2>2, AddedGrow
<1>9. /\ UnderOf(p, v) = Held(p, v)' /\ ReadStays
      /\ p \in world.asked => read'[p][v] # "none"
  <2>1. GetDependencies(p, v, FullOf(p, v)) /\ decided[p] = None
    BY DecideParts, UndecidedFacts
  <2>2. /\ Under(p, v, FullOf(p, v)) = Held(p, v)'
        /\ \A q \in Packages, u \in Versions : <<q, u>> # <<p, v>> => read'[q][u] = read[q][u]
        /\ p \in world.asked => read'[p][v] # "none"
    BY <1>1, <1>2, <2>1, ReadUnder, TypesParts
  <2>3. \A u \in Versions : decided[p] # u
    BY <2>1 DEF Versions, None
  <2> QED BY <2>2, <2>3 DEF ReadStays, UnderOf
<1> SUFFICES ASSUME NEW k \in DOMAIN trail', trail'[k].cause = NoClause
             PROVE  /\ OnOffer(world', trail'[k]) /\ IsRead(k)'
                    /\ \A q, R : Asks(k, q, R)' => Sees(k, q, R)'
  BY DEF Heeded
<1>10. CASE k \in DOMAIN trail
  <2>1. trail'[k] = trail[k] /\ trail[k].cause = NoClause
    BY <1>5, <1>10
  <2>2. OnOffer(world', trail'[k])
    BY <1>1, <1>10, <2>1 DEF Heeded
  <2>3. ASSUME NEW q, NEW R, Asks(k, q, R) PROVE Sees(k, q, R)'
    <3>1. PICK p0, v0, level : p0 = trail[k].package /\ v0 = trail[k].decision /\ level = trail[k].level
      OBVIOUS
    <3>2. PICK i \in DOMAIN clauses :
             /\ States(clauses[i], p0, v0, q, R)
             /\ MetBy(q, R, level) \/ (level = Level(trail) /\ Pends(p0, i))
      BY <1>10, <2>1, <2>3, <3>1 DEF Heeded, Sees
    <3>3. p0 \in Names
      BY <1>2, <1>10, <3>1, EntryFacts
    <3>4. v0 \in Versions
      BY <1>10, <2>1, <3>1, <3>3, DecidedEntry
    <3>5. q \in Packages /\ R \in SUBSET Universe /\ p0 # q
      BY <1>2, <2>3, <3>1, <3>4, DemandFacts DEF Asks
    <3>6. i \in DOMAIN clauses' /\ States(clauses'[i], p0, v0, q, R)
      BY <1>8, <3>2, <3>3, <3>4, <3>5 DEF ClausesGrow
    <3>7. PICK j \in Satisfiers(trail, q, Requires(R)) : trail[j].level <= level
      BY <3>2 DEF MetBy, Pends
    <3>8. j \in DOMAIN trail
      BY DEF Satisfiers, EntriesOf
    <3>9. MetBy(q, R, level)'
      BY <1>5, <1>7, <3>7, <3>8 DEF MetBy
    <3> QED BY <2>1, <3>1, <3>6, <3>9 DEF Sees, MetBy, Pends
  <2>4. trail[k].package \in Names /\ IsRead(k)
    BY <1>2, <1>10, <2>1, EntryFacts DEF Heeded
  <2>5. IsRead(k)' /\ \A q, R : Asks(k, q, R)' => Asks(k, q, R)
    BY <1>1, <1>2, <1>10, <1>9, <2>1, <2>4, AskedAsBefore
  <2> QED BY <1>1, <2>1, <2>2, <2>3, <2>5
<1>11. CASE k = Len(trail) + 1
  <2>1. trail'[k] = e
    BY <1>5, <1>11
  <2>2. OnOffer(world', trail'[k])
    BY <1>1, <1>3, <2>1, ChosenIsLeft DEF OnOffer
  <2>3. ASSUME NEW q, NEW R, Asks(k, q, R)' PROVE Sees(k, q, R)'
    <3>0. Demands(world, UnderOf(p, v), e, q, R)
      <4>1. Demands(world, Held(p, v)', e, q, R)
        BY <1>1, <1>3, <2>1, <2>3 DEF Asks, Held
      <4> QED BY <1>9, <4>1
    <3>1. q \in RequiredOf(p, v) /\ R = RangesOf(p, v)[q]
      BY <1>2, <1>3, <3>0, UniverseFacts DEF Demands, RangesOf, RequiredOf
    <3>2. PICK i \in DOMAIN clauses' : States(clauses'[i], p, v, q, R)
      BY <1>8, <3>1
    <3>3. i >= 1
      BY <1>8, LenProperties
    <3>4. Pends(p, i)'
      BY <1>1, <1>2, <3>3 DEF Pends
    <3> QED BY <1>3, <1>6, <2>1, <3>2, <3>4 DEF Sees, Pends
  <2>4. IsRead(k)'
    BY <1>1, <1>3, <1>9, <2>1 DEF IsRead
  <2> QED BY <1>1, <2>1, <2>2, <2>3, <2>4
<1> QED BY <1>5, <1>10, <1>11

\* Only a decision and the walk read requirements.
LEMMA ProviderMoves ==
    ASSUME Types, [Next]_vars
    PROVE  \/ UNCHANGED provider
           \/ \E p \in Undecided : \E v \in Versions : v = ChooseVersion(world, wants, p, RangeOrFull(p)) /\ Decide(p, v)
           \/ \E p \in Packages : Walk(p) /\ decided[p] \in Versions
<1>1. CASE UNCHANGED vars \/ Ends
  BY <1>1 DEF Ends, vars
<1>2. CASE Propagate \/ Stop \/ AllDecided \/ Answer
  BY <1>2 DEF Propagate, Derive, FindConflict, NextPackage, Stop, AllDecided, Answer
<1>3. CASE Explain
  <2>1. \A c, a, learned : Backjump(c, a, learned) => UNCHANGED provider
    BY BackjumpParts
  <2> QED BY <1>3, <2>1, ExplainCases DEF Resolve, GiveUp
<1>4. CASE Choose
  <2>1. PICK p \in Undecided : \E v : /\ v = ChooseVersion(world, wants, p, RangeOrFull(p))
                                      /\ Decide(p, v) \/ RecordNoVersions(p, v) \/ ChoiceRaises(v)
    BY <1>4, ChooseCases
  <2>2. PICK v : /\ v = ChooseVersion(world, wants, p, RangeOrFull(p))
                 /\ Decide(p, v) \/ RecordNoVersions(p, v) \/ ChoiceRaises(v)
    BY <2>1
  <2>3. Decide(p, v) => v \in Versions
    BY DecideParts
  <2> QED BY <2>2, <2>3 DEF RecordNoVersions, ChoiceRaises
<1>5. CASE Visit
  <2>1. PICK p : p = Head(queue)
    OBVIOUS
  <2>2. Walk(p) \/ HasNoDecision(p) \/ Skip(p)
    BY <1>5, <2>1 DEF Visit
  <2>3. CASE Walk(p)
    <3>1. p \in Packages
      BY <1>5, <2>1, TypesParts, HeadTailProperties DEF Visit, QueueTypes
    <3>2. decided[p] \in Versions
      BY <2>3, <3>1, TypesParts, UniverseFacts DEF Walk, SolutionTypes
    <3> QED BY <2>3, <3>1, <3>2
  <2> QED BY <2>2, <2>3 DEF HasNoDecision, Skip
<1> QED BY <1>1, <1>2, <1>3, <1>4, <1>5 DEF Next

\* Where no release asks for an extra, those of the user are on.
LEMMA AskedKept ==
    ASSUME Types, AsksForNoExtra(world), extras = world.asked, [Next]_vars
    PROVE  extras' = world'.asked
<1>1. world' = world
  BY WorldStays
<1>2. ASSUME NEW p \in Packages, NEW v \in Versions, NEW full, GetDependencies(p, v, full) PROVE extras' = extras
  BY <1>2, DependenciesKeep
<1>3. ASSUME NEW p \in Undecided, NEW v \in Versions, Decide(p, v) PROVE extras' = extras
  BY <1>2, <1>3, DecideParts, UndecidedFacts
<1>4. ASSUME NEW p \in Packages, Walk(p), decided[p] \in Versions PROVE extras' = extras
  BY <1>2, <1>4 DEF Walk
<1> QED BY <1>1, <1>3, <1>4, ProviderMoves DEF provider

\* The walk reads what is decided as it was read before.
LEMMA WalkReads ==
    ASSUME Types, WellTrailed, Heeded, extras = world.asked, world' = world, NEW p \in Packages, Walk(p)
    PROVE  /\ read' = read
           /\ \E full : Under(p, decided[p], full) = Held(p, decided[p]) /\ full = (<<p, decided[p]>> \in reread)
           /\ ReadStays
<1>1. PICK full, v : v = decided[p] /\ full = (<<p, v>> \in reread) /\ GetDependencies(p, v, full) /\ v # None
  BY DEF Walk
<1>2. p \in Names /\ TrailFits(trail) /\ Cached
  BY UniverseFacts DEF WellTrailed
<1>3. PICK k \in DOMAIN trail : /\ trail[k].package = p /\ trail[k].cause = NoClause /\ trail[k].decision = v
                               /\ v \in Versions
  BY <1>1, <1>2, DecisionIs
<1>4. p \in world.asked => read[p][v] # "none"
  BY <1>3 DEF Heeded, IsRead
<1>5. read' = read /\ Under(p, v, full) = Held(p, v)'
  BY <1>1, <1>3, <1>4, ReadUnder, TypesParts
<1>6. Held(p, v)' = Held(p, v)
  BY <1>5 DEF Held
<1> QED BY <1>1, <1>5, <1>6 DEF ReadStays

LEMMA HeededKept ==
    ASSUME Types, WellTrailed, NoneEmpty, Heeded, extras = world.asked, [Next]_vars
    PROVE  Heeded'
<1>0. world' = world /\ clauses \in Seq(Clause)
  BY WorldStays, TypesParts DEF ClauseTypes
<1>1. CASE UNCHANGED vars \/ Ends
  <2>1. /\ trail' = trail /\ clauses' = clauses /\ phase' = phase /\ queue' = queue /\ at' = at
    BY <1>1 DEF Ends, vars, solution, search
  <2>2. \A p, i : Pends(p, i) => Pends(p, i)'
    BY <2>1 DEF Pends
  <2>3. ClausesGrow /\ ReadStays
    BY <1>1, <2>1 DEF ClausesGrow, Ends, vars, provider, ReadStays
  <2> QED BY <1>0, <2>1, <2>2, <2>3, HeededGrows DEF Derived
<1>2. CASE Propagate
  <2>1. phase = "propagating" /\ (Derive(NextClause) \/ FindConflict(NextClause) \/ NextPackage(NextClause))
    BY <1>2 DEF Propagate
  <2>2. CASE Derive(NextClause)
    BY <2>1, <2>2, DeriveHeeded DEF Derive
  <2>3. CASE FindConflict(NextClause)
    BY <1>0, <2>3, RestingHeeded DEF FindConflict, solution, provider, ClausesGrow, ReadStays
  <2> QED BY <2>1, <2>2, <2>3, NextPackageHeeded
<1>3. CASE Stop
  <2>1. /\ trail' = trail /\ clauses' = clauses /\ phase' \in {"stalled", "failed"} /\ ReadStays
    BY <1>3 DEF Stop, solution, provider, ReadStays
  <2> QED BY <1>0, <2>1, RestingHeeded DEF ClausesGrow
<1>4. CASE Explain
  <2>1. phase = "resolving"
    BY <1>4 DEF Explain
  <2>2. CASE Resolve(Analysis(trail, conflict)) \/ GiveUp(Analysis(trail, conflict))
    <3>1. trail' = trail /\ clauses' = clauses /\ phase' \in {"resolving", "gave up"} /\ ReadStays
      BY <2>1, <2>2 DEF Resolve, GiveUp, solution, provider, ReadStays
    <3> QED BY <1>0, <3>1, RestingHeeded DEF ClausesGrow
  <2>3. CASE \E c, learned : /\ Explained(c) /\ CanBackjump(Analysis(trail, c))
                             /\ Backjump(c, Analysis(trail, c), learned)
    <3>1. ReadStays
      BY <2>3, BackjumpParts DEF provider, ReadStays
    <3> QED BY <2>1, <2>3, <3>1, BackjumpHeeded
  <2> QED BY <1>4, <2>2, <2>3, ExplainCases
<1>5. CASE Choose
  <2>1. phase = "deciding"
    BY <1>5, ChooseCases
  <2>2. PICK p \in Undecided : \E v : /\ v = ChooseVersion(world, wants, p, RangeOrFull(p))
                                      /\ Decide(p, v) \/ RecordNoVersions(p, v) \/ ChoiceRaises(v)
    BY <1>5, ChooseCases
  <2>3. PICK v : /\ v = ChooseVersion(world, wants, p, RangeOrFull(p))
                 /\ Decide(p, v) \/ RecordNoVersions(p, v) \/ ChoiceRaises(v)
    BY <2>2
  <2>4. CASE RecordNoVersions(p, v)
    <3>1. trail' = trail /\ clauses' = Append(clauses, NoVersionsClause(p, RangeOrFull(p))) /\ ReadStays
      BY <2>4 DEF RecordNoVersions, solution, provider, ReadStays
    <3>2. ClausesGrow
      BY <1>0, <3>1, AppendedGrow
    <3> QED BY <1>0, <2>1, <3>1, <3>2, RestingHeeded
  <2>5. CASE ChoiceRaises(v)
    <3>1. trail' = trail /\ clauses' = clauses /\ ReadStays
      BY <2>5 DEF ChoiceRaises, solution, provider, ReadStays
    <3> QED BY <1>0, <2>1, <3>1, RestingHeeded DEF ClausesGrow
  <2> QED BY <2>1, <2>3, <2>4, <2>5, DecideHeeded
<1>6. CASE AllDecided \/ Visit \/ Answer
  <2>1. trail' = trail /\ clauses' = clauses /\ phase \in {"deciding", "building"}
    BY <1>6 DEF AllDecided, Visit, Answer, solution
  <2>2. ASSUME AllDecided \/ Answer PROVE ReadStays
    BY <2>2 DEF AllDecided, Answer, provider, ReadStays
  <2>3. ASSUME Visit PROVE ReadStays
    <3>1. PICK p : p = Head(queue)
      OBVIOUS
    <3>2. Walk(p) \/ HasNoDecision(p) \/ Skip(p)
      BY <2>3, <3>1 DEF Visit
    <3>3. CASE Walk(p)
      <4>1. p \in Packages
        BY <2>3, <3>1, TypesParts, HeadTailProperties DEF Visit, QueueTypes
      <4> QED BY <1>0, <3>3, <4>1, WalkReads
    <3> QED BY <3>2, <3>3 DEF HasNoDecision, Skip, provider, ReadStays
  <2> QED BY <1>0, <1>6, <2>1, <2>2, <2>3, RestingHeeded DEF ClausesGrow
<1> QED BY <1>1, <1>2, <1>3, <1>4, <1>5, <1>6 DEF Next

LEMMA HeededFirst == ASSUME Init, Types PROVE Heeded
<1>1. /\ trail = RootTrail /\ queue = <<ROOT>> /\ at = 1 /\ phase = "propagating" /\ world \in World
  BY TypesParts DEF Init
<1>2. Len(trail) = 1 /\ DOMAIN trail = {1} /\ trail[1].package = ROOT /\ trail[1].decision = 1 /\ trail[1].level = 1
  BY <1>1, RootTrailTypes, EntryFacts DEF Assign
<1>3. Level(trail) = 1
  BY <1>1, <1>2, RootTrailFits, LevelsRise
<1>4. PICK roots \in InOrder(Roots(world), [p \in Packages |-> p]) : clauses = RootClauses(world, roots)
  BY DEF Init
<1>5. Range(roots) = Roots(world)
  <2> DEFINE key == [p \in Packages |-> p]
  <2>1. Roots(world) \subseteq Packages /\ \A q \in Roots(world) : key[q] \in Int
    BY DEF Roots, Packages
  <2> HIDE DEF key
  <2> QED BY <1>4, <2>1, InOrderIsAll DEF key
<1>6. ASSUME NEW q \in Roots(world) PROVE Sees(1, q, RootRange(world, q))
  <2>1. PICK i \in DOMAIN roots : roots[i] = q
    BY <1>5 DEF Range
  <2>2. i \in DOMAIN clauses /\ clauses[i] = RequirementClause(ROOT, {1}, q, RootRange(world, q), "root")
    BY <1>4, <2>1 DEF RootClauses
  <2>3. {1} \in SUBSET Universe /\ "root" \in Causes
    BY UniverseFacts DEF Causes
  <2>4. States(clauses[i], ROOT, 1, q, RootRange(world, q))
    BY <2>2, <2>3 DEF States
  <2>5. i >= 1
    BY <2>2, TypesParts, LenProperties DEF ClauseTypes
  <2>6. Pends(ROOT, i)
    BY <1>1, <2>5 DEF Pends
  <2> QED BY <1>2, <1>3, <2>2, <2>4, <2>6 DEF Sees
<1>7. \A q, R : Asks(1, q, R) => q \in Roots(world) /\ R = RootRange(world, q)
  BY <1>2, UniverseFacts DEF Demands, Asks
<1>8. IsRead(1)
  BY <1>1, <1>2, UniverseFacts DEF World, IsRead
<1> QED BY <1>2, <1>6, <1>7, <1>8 DEF Heeded, OnOffer

\* Nothing is left to decide, and nothing waits.
Settled == phase \in {"deciding", "building", "done"} /\ Undecided = {}

LEMMA SettledFacts ==
    ASSUME Types, WellTrailed, Heeded, Settled, NEW k \in DOMAIN trail, trail[k].cause = NoClause,
           NEW q, NEW R, Asks(k, q, R)
    PROVE  q \in Packages /\ decided[q] # None /\ decided[q] \in R
<1>1. world \in World /\ trail[k].package \in Names
  BY TypesParts, EntryFacts
<1>2. trail[k].decision \in Versions
  BY <1>1, DecidedEntry
<1>3. q \in Packages /\ R \in SUBSET Universe
  BY <1>1, <1>2, DemandFacts DEF Asks
<1>4. MetBy(q, R, trail[k].level)
  BY DEF Heeded, Sees, Settled, Pends
<1>5. q \in Names
  BY <1>3, UniverseFacts
<1>6. positive[q] # NoRange /\ RangeNow(q) \subseteq R
  BY <1>4, <1>5, MetIs
<1>7. decided[q] # None
  BY <1>3, <1>6 DEF Settled, Undecided
<1>8. RangeNow(q) = {decided[q]}
  BY <1>5, <1>7, DecisionIs DEF WellTrailed
<1> QED BY <1>3, <1>6, <1>7, <1>8

LEMMA RootsAreMet ==
    ASSUME Types, WellTrailed, Heeded, Settled, NEW q \in Roots(world)
    PROVE  decided[q] # None /\ decided[q] \in RootRange(world, q)
<1>1. 1 \in DOMAIN trail /\ trail[1].cause = NoClause /\ trail[1].package = ROOT
  BY EntryFacts, RootTrailTypes DEF WellTrailed, TrailFits, Assign
<1>2. Asks(1, q, RootRange(world, q))
  BY <1>1 DEF Demands, Asks
<1> QED BY <1>1, <1>2, SettledFacts

\* A decided release is on offer, and what it requires is decided within the range it asks for.
LEMMA ReleaseIsMet ==
    ASSUME Types, WellTrailed, Heeded, Settled, NEW p \in Packages, decided[p] # None
    PROVE  /\ decided[p] \in Versions /\ decided[p] \in Catalog(world, p) \cap world.limit[p]
           /\ \A q \in Required(world, Held(p, decided[p]), p, decided[p]) :
                /\ q \in Packages /\ decided[q] # None
                /\ decided[q] \in RangeOf(world, Held(p, decided[p]), p, decided[p], q)
<1>1. p \in Names /\ p # ROOT
  BY UniverseFacts
<1>2. PICK k \in EntriesOf(trail, p) :
         /\ k \in DOMAIN trail /\ trail[k].package = p /\ trail[k].cause = NoClause
         /\ trail[k].decision = decided[p] /\ decided[p] \in Versions
  BY <1>1, DecisionIs DEF WellTrailed
<1>3. decided[p] \in Catalog(world, p) \cap world.limit[p]
  BY <1>1, <1>2 DEF Heeded, OnOffer
<1>4. \A q \in Required(world, Held(p, decided[p]), p, decided[p]) :
         Asks(k, q, RangeOf(world, Held(p, decided[p]), p, decided[p], q))
  BY <1>2 DEF Demands, Asks
<1> QED BY <1>2, <1>3, <1>4, SettledFacts

Queued == reached \cup Range(queue)

\* The walk of the result goes to decided packages, from the roots on to what they require.
Walked ==
    /\ phase \notin {"building", "done"} => reached = {}
    /\ phase # "no decision"
    /\ phase = "done" => queue = <<>>
    /\ phase \in {"building", "done"} =>
        /\ Undecided = {} /\ \A p \in Queued : p \in Packages /\ decided[p] # None
        /\ Roots(world) \subseteq Queued
        /\ \A p \in reached : Required(world, Held(p, decided[p]), p, decided[p]) \subseteq Queued

LEMMA AllDecidedWalked ==
    ASSUME Types, WellTrailed, Heeded, Walked, AllDecided
    PROVE  Walked'
<1>1. /\ phase = "deciding" /\ Undecided = {} /\ phase' = "building" /\ queue' \in SetToSeqs(Roots(world))
      /\ world' = world /\ decided' = decided /\ positive' = positive /\ reached' = reached
  BY DEF AllDecided, solution
<1>2. Range(queue') = Roots(world)
  <2>1. Roots(world) \subseteq Packages
    BY DEF Roots
  <2> QED BY <1>1, <2>1, SetToSeqsIsAll
<1>3. reached' = {}
  BY <1>1 DEF Walked
<1>4. \A q \in Roots(world) : q \in Packages /\ decided[q] # None
  BY <1>1, RootsAreMet DEF Settled, Roots
<1>5. Undecided' = {}
  BY <1>1 DEF Undecided
<1> QED BY <1>1, <1>2, <1>3, <1>4, <1>5 DEF Walked, Queued

LEMMA VisitWalked ==
    ASSUME Types, WellTrailed, Heeded, Walked, AsksForNoExtra(world), extras = world.asked, Visit
    PROVE  Walked'
<1>1. PICK p : p = Head(queue)
  OBVIOUS
<1>2. /\ phase = "building" /\ queue # <<>> /\ world' = world /\ decided' = decided /\ positive' = positive
      /\ Walk(p) \/ HasNoDecision(p) \/ Skip(p)
  BY <1>1 DEF Visit, solution
<1>3. queue \in Seq(Packages) /\ world \in World /\ reached \subseteq Packages
  BY <1>2, TypesParts DEF QueueTypes
<1>4. p \in Packages /\ Tail(queue) \in Seq(Packages) /\ Range(queue) = {p} \cup Range(Tail(queue))
  BY <1>1, <1>2, <1>3, TailIn
<1>5. /\ Undecided = {} /\ \A q \in Queued : q \in Packages /\ decided[q] # None
      /\ Roots(world) \subseteq Queued
      /\ \A q \in reached : Required(world, Held(q, decided[q]), q, decided[q]) \subseteq Queued
  BY <1>2 DEF Walked
<1>6. p \in Queued /\ decided[p] # None
  BY <1>4, <1>5 DEF Queued
<1>7. Undecided' = {} /\ Settled
  BY <1>2, <1>5 DEF Undecided, Settled
<1>8. ~HasNoDecision(p)
  BY <1>6 DEF HasNoDecision
<1>9. CASE Skip(p)
  <2>1. p \in reached /\ queue' = Tail(queue) /\ phase' = phase /\ reached' = reached
    BY <1>9 DEF Skip
  <2>2. Queued' = Queued
    BY <1>4, <2>1 DEF Queued
  <2>3. \A q : Held(q, decided[q])' = Held(q, decided[q])
    BY <1>2, <1>9 DEF Skip, provider, Held
  <2> QED BY <1>2, <1>5, <1>7, <2>1, <2>2, <2>3 DEF Walked
<1>10. CASE Walk(p)
  <2>0. PICK full : Under(p, decided[p], full) = Held(p, decided[p]) /\ full = (<<p, decided[p]>> \in reread)
    BY <1>2, <1>4, <1>10, WalkReads
  <2> DEFINE xs == Held(p, decided[p])
             Q == Required(world, xs, p, decided[p])
             rows == FirstRow(world, xs, p, decided[p])
  <2>1. decided[p] \in Versions /\ \A q \in Q : q \in Packages /\ decided[q] # None
    BY <1>4, <1>6, <1>7, ReleaseIsMet
  <2>2. PICK required \in InOrder((DOMAIN rows) \ reached', rows) : queue' = Tail(queue) \o required
    BY <1>10, <2>0 DEF Walk
  <2>3. reached' = reached \cup {p} /\ phase' = phase
    BY <1>10 DEF Walk
  <2>4. DOMAIN rows = Q /\ Q \subseteq Packages /\ \A q \in Q : rows[q] \in Int
    <3>1. PICK v : v = decided[p]
      OBVIOUS
    <3>2. v \in Versions
      BY <2>1, <3>1
    <3>3. Q = Required(world, xs, p, v) /\ rows = FirstRow(world, xs, p, v)
      BY <3>1
    <3> HIDE DEF Q, rows, xs
    <3>4. /\ Required(world, xs, p, v) \subseteq Packages \ {p}
          /\ DOMAIN FirstRow(world, xs, p, v) = Required(world, xs, p, v)
          /\ \A q \in Required(world, xs, p, v) : FirstRow(world, xs, p, v)[q] \in Nat
      BY <1>3, <1>4, <3>2, RequiredFacts
    <3> QED BY <3>3, <3>4
  <2> HIDE DEF Q, rows
  <2>5. required \in Seq(Q \ reached') /\ Range(required) = Q \ reached'
    BY <2>2, <2>4, InOrderIsAll
  <2>6. required \in Seq(Packages)
    <3>1. Q \ reached' \subseteq Packages
      BY <2>4
    <3> QED BY <2>5, <3>1, SeqMonotonic
  <2>7. Range(queue') = Range(Tail(queue)) \cup (Q \ reached')
    <3>1. PICK r : r = required
      OBVIOUS
    <3>2. r \in Seq(Packages) /\ Range(r) = Q \ reached'
      BY <2>5, <2>6, <3>1
    <3>3. PICK s : s = Tail(queue)
      OBVIOUS
    <3>4. s \in Seq(Packages)
      BY <1>4, <3>3
    <3>5. Range(s \o r) = Range(s) \cup Range(r)
      BY <3>2, <3>4, ConcatIn
    <3> QED BY <2>2, <3>1, <3>2, <3>3, <3>5
  <2>8. Queued' = Queued \cup Q
    BY <1>4, <2>3, <2>7 DEF Queued
  <2>9. \A q \in Queued' : q \in Packages /\ decided'[q] # None
    BY <1>2, <1>5, <2>1, <2>8
  <2>10. \A q \in reached' : (Required(world, Held(q, decided[q]), q, decided[q]) \subseteq Queued)'
    <3>1. \A q : Held(q, decided[q])' = Held(q, decided[q])
      BY <1>2, <1>4, <1>10, WalkReads DEF Held
    <3>2. \A q \in reached' : Required(world, Held(q, decided[q]), q, decided[q]) \subseteq Queued'
      BY <1>5, <2>3, <2>8 DEF Q, xs
    <3> QED BY <1>2, <3>1, <3>2
  <2>11. Roots(world') \subseteq Queued'
    BY <1>2, <1>5, <2>8
  <2> QED BY <1>2, <1>7, <2>3, <2>9, <2>10, <2>11 DEF Walked
<1> QED BY <1>2, <1>8, <1>9, <1>10

LEMMA WalkedKept ==
    ASSUME Types, WellTrailed, Heeded, Walked, AsksForNoExtra(world), extras = world.asked, [Next]_vars
    PROVE  Walked'
<1>1. CASE UNCHANGED vars \/ Ends
  <2>1. /\ phase' = phase /\ reached' = reached /\ queue' = queue /\ decided' = decided /\ positive' = positive
        /\ world' = world /\ read' = read
    BY <1>1 DEF Ends, vars, solution, search, provider
  <2> QED BY <2>1 DEF Walked, Queued, Undecided, Held
<1>2. CASE Propagate \/ Stop
  <2>1. /\ phase \in {"propagating", "resolving"} /\ reached' = reached
        /\ phase' \in {"propagating", "resolving", "deciding", "stalled", "failed"}
    BY <1>2 DEF Propagate, Derive, FindConflict, NextPackage, Stop
  <2> QED BY <2>1 DEF Walked
<1>3. CASE Explain
  <2>1. phase = "resolving"
    BY <1>3 DEF Explain
  <2>2. \A c, a, learned : Backjump(c, a, learned) => reached' = reached /\ phase' = "propagating"
    BY BackjumpParts
  <2>3. reached' = reached /\ phase' \in {"resolving", "gave up", "propagating"}
    BY <1>3, <2>1, <2>2, ExplainCases DEF Resolve, GiveUp
  <2> QED BY <2>1, <2>3 DEF Walked
<1>4. CASE Choose
  <2>1. phase = "deciding"
    BY <1>4, ChooseCases
  <2>2. reached' = reached /\ phase' \in {"propagating", "raised"}
    BY <1>4, ChooseCases, DecideParts DEF RecordNoVersions, ChoiceRaises
  <2> QED BY <2>1, <2>2 DEF Walked
<1>5. CASE Answer
  <2>1. /\ phase = "building" /\ queue = <<>> /\ phase' = "done" /\ reached' = reached /\ queue' = queue
        /\ decided' = decided /\ positive' = positive /\ world' = world /\ read' = read
    BY <1>5 DEF Answer, solution, provider
  <2> QED BY <2>1 DEF Walked, Queued, Undecided, Held
<1> QED BY <1>1, <1>2, <1>3, <1>4, <1>5, AllDecidedWalked, VisitWalked DEF Next

LEMMA WalkedFirst == ASSUME Init PROVE Walked
BY DEF Init, Walked

\* A root is wanted as the user put it, and where only pins have releases that are yanked none that it
\* names was found by its name alone when its extra is on.
RootsStand ==
    /\ world.asked \subseteq Roots(world)
    /\ \A p \in Roots(world) : wants[p] = world.root[p]
    /\ YankedIsPinned(world) =>
        \A p \in world.asked, v \in Versions : read[p][v] = "bare" => v \notin world.root[p]

\* What is found by its name alone for a root is not what the root names.
LEMMA ByNameIsOff ==
    ASSUME NEW w, YankedIsPinned(w), NEW ws, NEW p \in w.asked, ws[p] = w.root[p], NEW range,
           ChooseVersion(w, ws, p, range) # None, NEW v, ByName(w, ws, p, range, v)
    PROVE  v \notin w.root[p]
<1> DEFINE M == Matching(w, p, range)
           u == NewestViable(w, p, M)
           unyanked == {x \in M : w.flaw[p][x] # "yanked"}
<1>1. M # {} /\ M \subseteq Versions
  BY DEF ChooseVersion, Matching, Catalog
<1>2. u \in M
  <2>1. ASSUME NEW V, V \subseteq M, V # {} PROVE Newest(V) \in V
    <3>1. V \subseteq 0..N /\ N \in Nat
      BY <1>1, <2>1, SizeAssumption DEF Versions
    <3> QED BY <2>1, <3>1, NewestIn
  <2> QED BY <1>1, <2>1 DEF NewestViable
<1>3. ~Found(w, ws, p, u) /\ v = Retrieved(w, ws, p, M, u)
  BY DEF ByName
<1> HIDE DEF M, u
<1>4. w.flaw[p][u] = "yanked" => w.root[p] = {u} /\ IsPin(w.root[p])
  <2>1. u \in 0..N
    BY <1>1, <1>2, SizeAssumption DEF Versions
  <2> QED BY <1>1, <1>2, <2>1 DEF YankedIsPinned, IsPin
<1>5. w.flaw[p][u] # "yanked" /\ u \notin w.root[p]
  BY <1>3, <1>4 DEF Found
<1>6. v = u
  BY <1>2, <1>3, <1>5 DEF Retrieved
<1> QED BY <1>5, <1>6

LEMMA RootsStandKept ==
    ASSUME Types, WellTrailed, Heeded, extras = world.asked, RootsStand, [Next]_vars
    PROVE  RootsStand'
<1>1. world' = world /\ world \in World /\ world.asked \subseteq Packages
  BY WorldStays, TypesParts DEF World
<1>2. ASSUME NEW p \in Packages, NEW v \in Versions, NEW full, GetDependencies(p, v, full)
      PROVE  \A q \in Roots(world) : wants'[q] = wants[q]
  BY <1>2 DEF GetDependencies, WantsAfter, Roots, RootsStand
<1>3. ASSUME NEW p \in Undecided, NEW v \in Versions, v = ChooseVersion(world, wants, p, RangeOrFull(p)), Decide(p, v)
      PROVE  RootsStand'
  <2>1. GetDependencies(p, v, FullOf(p, v)) /\ p \in Packages /\ v # None
    <3>1. GetDependencies(p, v, FullOf(p, v))
      BY <1>3, DecideParts
    <3>2. v # None
      BY DEF Versions, None
    <3> QED BY <3>1, <3>2, UndecidedFacts
  <2>2. /\ \A q \in Packages, u \in Versions : <<q, u>> # <<p, v>> => read'[q][u] = read[q][u]
        /\ p \in world.asked /\ read'[p][v] = "bare" => read[p][v] = "bare" \/ ~FullOf(p, v)
    BY <1>1, <2>1, ReadUnder, TypesParts
  <2>3. ASSUME YankedIsPinned(world), p \in world.asked, ~FullOf(p, v) PROVE v \notin world.root[p]
    <3>1. ByName(world, wants, p, RangeOrFull(p), v) /\ ChooseVersion(world, wants, p, RangeOrFull(p)) # None
      BY <1>3, <2>1, <2>3 DEF FullOf
    <3>2. wants[p] = world.root[p]
      BY <2>3 DEF RootsStand
    <3> QED BY <2>3, <3>1, <3>2, ByNameIsOff
  <2>4. ASSUME YankedIsPinned(world), NEW q \in world.asked, NEW u \in Versions, read'[q][u] = "bare"
        PROVE  u \notin world.root[q]
    <3>1. CASE <<q, u>> = <<p, v>>
      BY <2>2, <2>3, <2>4, <3>1 DEF RootsStand
    <3>2. CASE <<q, u>> # <<p, v>>
      BY <1>1, <2>2, <2>4, <3>2 DEF RootsStand
    <3> QED BY <3>1, <3>2
  <2>5. \A q \in Roots(world) : wants'[q] = world.root[q]
    BY <1>2, <2>1 DEF RootsStand
  <2> QED BY <1>1, <2>4, <2>5 DEF RootsStand
<1>4. ASSUME NEW p \in Packages, Walk(p), decided[p] \in Versions PROVE RootsStand'
  <2>1. read' = read
    BY <1>1, <1>4, WalkReads
  <2>2. \A q \in Roots(world) : wants'[q] = wants[q]
    BY <1>2, <1>4 DEF Walk
  <2> QED BY <1>1, <2>1, <2>2 DEF RootsStand
<1>5. CASE UNCHANGED provider
  BY <1>1, <1>5 DEF provider, RootsStand
<1> QED BY <1>3, <1>4, <1>5, ProviderMoves

\* Where no release asks for an extra: the extras are those of the user, every requirement of what is
\* decided is heeded, and the walk follows them.
Explored == AsksForNoExtra(world) => extras = world.asked /\ Heeded /\ Walked /\ RootsStand

LEMMA ExploredFirst == ASSUME Init PROVE Explored
<1> SUFFICES ASSUME AsksForNoExtra(world) PROVE extras = world.asked /\ Heeded /\ Walked /\ RootsStand
  BY DEF Explored
<1>1. Types
  BY TypesFirst
<1>2. world \in World
  BY <1>1, TypesParts
<1>3. extras = RootExtras(world)
  BY DEF Init
<1>4. extras = world.asked
  BY <1>2, <1>3, RootExtrasStay
<1>5. RootsStand
  <2>1. world.asked \subseteq Roots(world) /\ wants = world.root
    BY WorldsAssumption DEF Init
  <2>2. \A p \in Packages, v \in Versions : read[p][v] = "none"
    BY DEF Init
  <2>3. world.asked \subseteq Packages
    BY <1>2 DEF World
  <2> QED BY <2>1, <2>2, <2>3 DEF RootsStand
<1> QED BY <1>1, <1>4, <1>5, HeededFirst, WalkedFirst

LEMMA ExploredKept ==
    ASSUME Types, WellTrailed, NoneEmpty, Explored, [Next]_vars PROVE Explored'
<1>1. world' = world
  BY WorldStays
<1>2. ASSUME AsksForNoExtra(world) PROVE extras' = world'.asked /\ Heeded' /\ Walked' /\ RootsStand'
  <2>1. extras = world.asked /\ Heeded /\ Walked /\ RootsStand
    BY <1>2 DEF Explored
  <2> QED BY <1>2, <2>1, AskedKept, HeededKept, WalkedKept, RootsStandKept
<1>3. AsksForNoExtra(world)' => AsksForNoExtra(world)
  BY <1>1
<1> QED BY <1>2, <1>3 DEF Explored

\* A release that states each requirement in one line requires, of the package a line is on, what the
\* line admits.
LEMMA LineIsRequired ==
    ASSUME NEW w \in World, IsPlain(w), AsksForNoExtra(w), NEW p \in Packages, NEW v \in Versions,
           NEW i \in DOMAIN w.lines[p][v], w.lines[p][v][i].when => p \in w.asked
    PROVE  /\ w.lines[p][v][i].on \in Required(w, w.asked, p, v)
           /\ RangeOf(w, w.asked, p, v, w.lines[p][v][i].on) \subseteq w.lines[p][v][i].spec
           /\ ~w.lines[p][v][i].ask
<1> DEFINE q == w.lines[p][v][i].on
           rows == Rows(w, w.asked, p, v, q)
<1>1. i \in Applicable(w, w.asked, p, v)
  BY DEF Applicable
<1>2. i \in Int
  BY WorldFacts
<1>3. q # p /\ \A j \in DOMAIN w.lines[p][v] : w.lines[p][v][j].on = q => j = i
  BY DEF IsPlain
<1>4. rows = {i}
  <2>1. i \in rows
    BY <1>1 DEF Rows
  <2>2. \A j \in rows : j \in DOMAIN w.lines[p][v] /\ w.lines[p][v][j].on = q
    BY DEF Rows, Applicable
  <2> QED BY <1>3, <2>1, <2>2
<1>5. q \in Required(w, w.asked, p, v)
  BY <1>1, <1>3 DEF Required
<1>6. Newest({i}) = i
  BY <1>2, NewestIs
<1>7. RangeOf(w, w.asked, p, v, q) \subseteq w.lines[p][v][i].spec
  BY <1>4, <1>6 DEF RangeOf
<1>8. ~w.lines[p][v][i].ask
  BY DEF AsksForNoExtra
<1> QED BY <1>5, <1>7, <1>8

\* Sound: what is installed satisfies what was asked. Every requirement of a decided release is a clause
\* and is heeded: it is met on the trail at the release's level, or propagation is still to come to its
\* clause. Once nothing is left to decide it is met by a decision, and the walk selects that decision.
THEOREM AnswerIsSound == Spec => []Sound
<1>1. Init => Types /\ WellTrailed /\ NoneEmpty /\ Explored
  BY TypesFirst, TrailFirst, ExploredFirst
<1>2. Types /\ WellTrailed /\ Explored => Sound
  <2> SUFFICES ASSUME Types, WellTrailed, Explored, phase = "done", IsPlain(world), AsksForNoExtra(world),
                      YankedIsPinned(world)
               PROVE  Satisfies(world, Selected, world.asked)
    BY DEF Sound
  <2>1. /\ extras = world.asked /\ Heeded /\ RootsStand
        /\ world \in World /\ reached \subseteq Packages
    BY TypesParts DEF Explored, QueueTypes
  <2>2. /\ queue = <<>> /\ Undecided = {} /\ Roots(world) \subseteq Queued
        /\ \A p \in reached : Required(world, Held(p, decided[p]), p, decided[p]) \subseteq Queued
        /\ \A p \in Queued : decided[p] # None
    BY DEF Explored, Walked
  <2>3. Queued = reached
    BY <2>2 DEF Queued, Range
  <2>4. Settled
    BY <2>2 DEF Settled
  <2>5. \A q \in reached : Selected[q] = decided[q]
    BY <2>1 DEF Selected
  <2>6. ASSUME NEW p \in Packages, world.root[p] # NoRange PROVE Selected[p] \in world.root[p]
    <3>1. p \in Roots(world)
      BY <2>6 DEF Roots
    <3>2. decided[p] \in RootRange(world, p)
      BY <2>1, <2>4, <3>1, RootsAreMet
    <3> QED BY <2>2, <2>3, <2>5, <3>1, <3>2 DEF RootRange
  <2>7. ASSUME NEW p \in Packages, Selected[p] # Absent
        PROVE  /\ Selected[p] \in Catalog(world, p) \cap world.limit[p]
               /\ \A i \in DOMAIN world.lines[p][Selected[p]] :
                    LET l == world.lines[p][Selected[p]][i]
                    IN  (l.when => p \in world.asked) =>
                            /\ Selected[l.on] \in l.spec
                            /\ l.ask => l.on \in world.asked
    <3>1. p \in reached /\ Selected[p] = decided[p] /\ decided[p] # None
      BY <2>2, <2>3, <2>5, <2>7 DEF Selected
    <3>2. /\ decided[p] \in Versions /\ decided[p] \in Catalog(world, p) \cap world.limit[p]
          /\ \A q \in Required(world, Held(p, decided[p]), p, decided[p]) :
                decided[q] \in RangeOf(world, Held(p, decided[p]), p, decided[p], q)
      BY <2>1, <2>4, <3>1, ReleaseIsMet
    <3>3. PICK v : v = decided[p]
      OBVIOUS
    <3>5. Held(p, v) = world.asked
      <4>1. CASE p \in world.asked
        <5>1. decided[p] \in RootRange(world, p)
          BY <2>1, <2>4, <4>1, RootsAreMet DEF RootsStand
        <5>2. read[p][v] # "bare"
          BY <2>1, <3>2, <3>3, <4>1, <5>1 DEF RootsStand, RootRange
        <5> QED BY <5>2 DEF Held
      <4>2. CASE p \notin world.asked
        BY <4>2 DEF Held
      <4> QED BY <4>1, <4>2
    <3>4. ASSUME NEW i \in DOMAIN world.lines[p][v], world.lines[p][v][i].when => p \in world.asked
          PROVE  Selected[world.lines[p][v][i].on] \in world.lines[p][v][i].spec /\ ~world.lines[p][v][i].ask
      <4>1. v \in Versions
        BY <3>2, <3>3
      <4>2. PICK q : q = world.lines[p][v][i].on
        OBVIOUS
      <4>3. /\ q \in Required(world, world.asked, p, v)
            /\ RangeOf(world, world.asked, p, v, q) \subseteq world.lines[p][v][i].spec
            /\ ~world.lines[p][v][i].ask
        BY <2>1, <3>4, <4>1, <4>2, LineIsRequired
      <4>4. q \in reached /\ Selected[q] = decided[q]
        BY <2>2, <2>3, <2>5, <3>1, <3>3, <3>5, <4>3
      <4>5. decided[q] \in RangeOf(world, world.asked, p, v, q)
        BY <3>2, <3>3, <3>5, <4>3
      <4> QED BY <4>2, <4>3, <4>4, <4>5
    <3> QED BY <3>1, <3>2, <3>3, <3>4
  <2> QED BY <2>6, <2>7 DEF Satisfies
<1> QED BY <1>1, <1>2, TypesKept, TrailKept, ExploredKept, PTL DEF Spec

\* Some package has a release that is renamed and one whose metadata does not load.
Unreadable == \E p \in Packages, u, v \in Versions :
    world.flaw[p][u] = "renamed" /\ world.flaw[p][v] = "bad"

\* choose_version raises only where, in the place of a renamed release, it takes one whose metadata
\* does not load.
LEMMA RaisingIsUnreadable ==
    ASSUME NEW w, NEW ws, NEW p, NEW range, ChooseVersion(w, ws, p, range) = Raises
    PROVE  \E u, v \in Versions : w.flaw[p][u] = "renamed" /\ w.flaw[p][v] = "bad"
<1> DEFINE M == Matching(w, p, range)
           found == Retrieved(w, ws, p, M, NewestViable(w, p, M))
           loads == MetadataLoads(w, ws, p, M, found)
           runs == PythonRuns(w, ws, p, M, loads)
<1>1. M \subseteq Versions
  BY DEF Matching, Catalog
<1>2. None \notin Versions /\ Raises \notin Versions /\ None # Raises
  BY DEF Versions, None, Raises
<1>3. M # {} /\ NameAgrees(w, ws, p, M, runs) = Raises
  BY <1>2 DEF ChooseVersion
<1>4. Sane(w, ws, p, M, found)
  BY <1>1, <1>3, RetrievedIsSane
<1>5. found # None
  BY <1>1, <1>2, <1>4 DEF Sane
<1> HIDE DEF M, found
<1>6. loads = None \/ Sane(w, ws, p, M, loads)
  BY <1>1, <1>4, <1>5, StagesAreSane
<1> HIDE DEF loads
<1>7. runs = None \/ Sane(w, ws, p, M, runs)
  BY <1>1, <1>6, StagesAreSane
<1> HIDE DEF runs
<1>8. runs \in Versions /\ w.flaw[p][runs] = "renamed"
  BY <1>1, <1>2, <1>3, <1>7 DEF NameAgrees, Sane
<1> DEFINE V == {o \in Others(w, ws, p, M, runs) : w.flaw[p][o] # "renamed"}
           u == NewestOrNone(V)
<1>9. u \in V \cup {None}
  <2>1. V \subseteq Versions
    BY <1>1 DEF Others
  <2> HIDE DEF V
  <2> QED BY <2>1, NewestOrNoneFacts
<1>10. u # None /\ w.flaw[p][u] = "bad"
  <2>1. NameAgrees(w, ws, p, M, runs) = IF u # None /\ w.flaw[p][u] = "bad" THEN Raises ELSE u
    BY <1>2, <1>8 DEF NameAgrees
  <2>2. u # Raises
    BY <1>1, <1>2, <1>9 DEF Others
  <2> QED BY <1>3, <2>1, <2>2
<1>11. u \in Versions
  BY <1>1, <1>9, <1>10 DEF Others
<1> QED BY <1>8, <1>10, <1>11

RaisedFor == phase = "raised" => Unreadable

LEMMA RaisedKept == ASSUME RaisedFor, [Next]_vars PROVE RaisedFor'
<1> SUFFICES ASSUME phase' = "raised" PROVE Unreadable
  BY WorldStays DEF RaisedFor, Unreadable
<1>1. CASE UNCHANGED vars \/ Ends
  BY <1>1 DEF vars, search, Ends, RaisedFor
<1>2. CASE Propagate
  <2>1. phase = "propagating" /\ phase' \in {"propagating", "resolving", "deciding"}
    BY <1>2 DEF Propagate, Derive, FindConflict, NextPackage
  <2> QED BY <2>1
<1>3. CASE Stop \/ AllDecided \/ Answer
  BY <1>3 DEF Stop, AllDecided, Answer
<1>4. CASE Explain
  <2>1. \A c, a, learned : Backjump(c, a, learned) => phase' = "propagating"
    BY DEF Backjump
  <2>2. phase = "resolving" /\ phase' \in {"resolving", "gave up", "propagating"}
    BY <1>4, <2>1 DEF Explain, Resolve, Jump, GiveUp
  <2> QED BY <2>2
<1>5. CASE Visit
  <2>1. phase = "building" /\ phase' \in {"building", "no decision"}
    BY <1>5 DEF Visit, Walk, HasNoDecision, Skip
  <2> QED BY <2>1
<1>6. CASE Choose
  <2>1. PICK p \in Undecided : \E v :
           /\ v = ChooseVersion(world, wants, p, RangeOrFull(p))
           /\ Decide(p, v) \/ RecordNoVersions(p, v) \/ ChoiceRaises(v)
    BY <1>6, ChooseCases
  <2>2. p \in Packages
    BY <2>1 DEF Undecided
  <2>3. \A v : Decide(p, v) => phase' = "propagating"
    BY DEF Decide
  <2>4. ChooseVersion(world, wants, p, RangeOrFull(p)) = Raises
    BY <2>1, <2>3 DEF RecordNoVersions, ChoiceRaises
  <2>5. \E u, v \in Versions : world.flaw[p][u] = "renamed" /\ world.flaw[p][v] = "bad"
    BY <2>4, RaisingIsUnreadable
  <2> QED BY <2>2, <2>5 DEF Unreadable
<1> QED BY <1>1, <1>2, <1>3, <1>4, <1>5, <1>6 DEF Next

\* EndsWell: the resolver never runs out of steps or gives up: each step of conflict resolution moves to
\* earlier entries, and the budget is at least the length of the trail. The walk meets no package without
\* a decision unless releases ask for extras, and choose_version raises only over unreadable metadata.
THEOREM SearchEndsWell == Spec => []EndsWell
<1>1. Init => Types /\ WellTrailed /\ NoneEmpty /\ Explored /\ StepsLast /\ RaisedFor
  <2>1. Init => StepsLast /\ RaisedFor
    BY DEF Init, StepsLast, RaisedFor
  <2> QED BY <2>1, TypesFirst, TrailFirst, ExploredFirst
<1>2. Explored /\ StepsLast /\ RaisedFor => EndsWell
  BY DEF Explored, Walked, StepsLast, RaisedFor, Unreadable, EndsWell
<1> QED BY <1>1, <1>2, TypesKept, TrailKept, ExploredKept, StepsKept, RaisedKept, PTL DEF Spec

------------------------------------------------------------------------------------
(* What is decided is not ruled out.                                                *)

\* The clause is about decided packages alone, and what they are decided to be violates it.
Violated(c) == (\A p \in About(c) : decided[p] # None) /\ IsSatisfied(trail, c)

\* The package was the last to be decided.
DecidedLast(p) == \E k \in DOMAIN trail :
    trail[k].package = p /\ trail[k].cause = NoClause /\ trail[k].level = Level(trail)

\* A clause that decisions violate is about the package decided last, and propagation, which starts from
\* that package, is still to come to it.
Agree == \A i \in DOMAIN clauses : Violated(clauses[i]) =>
    /\ phase # "deciding"
    /\ \E p \in About(clauses[i]) : DecidedLast(p) /\ (phase = "propagating" => Head(queue) = p /\ at <= i)

\* An entry of another package satisfies no more of a clause.
LEMMA NothingNew ==
    ASSUME NEW tr, TrailTypes(tr), NEW e \in Entry, Shape(e.cause), NEW c, e.package \notin About(c),
           IsSatisfied(Append(tr, e), c)
    PROVE  IsSatisfied(tr, c)
<1> DEFINE new == Append(tr, e)
<1>1. /\ \A p : e.package # p => EntriesOf(new, p) = EntriesOf(tr, p)
      /\ \A p, t : \A i : i \in Satisfiers(new, p, t) /\ i <= Len(tr) => i \in Satisfiers(tr, p, t)
  BY AppendedFacts
<1>2. \A p : \A i \in EntriesOf(tr, p) : i <= Len(tr)
  BY EntryFacts DEF EntriesOf
<1> HIDE DEF new
<1>3. ASSUME NEW p \in About(c) PROVE Satisfiers(tr, p, c.terms[p]) # {}
  <2>1. PICK i : i \in Satisfiers(new, p, c.terms[p])
    BY DEF IsSatisfied, new
  <2>2. i \in EntriesOf(new, p) /\ e.package # p
    BY <2>1 DEF Satisfiers
  <2> QED BY <1>1, <1>2, <2>1, <2>2
<1> QED BY <1>3 DEF IsSatisfied

\* Where the solution and the clauses stay and neither decisions nor propagation come next.
LEMMA RestingAgrees ==
    ASSUME Agree, UNCHANGED solution, clauses' = clauses, phase' \notin {"propagating", "deciding"}
    PROVE  Agree'
<1>1. trail' = trail /\ decided' = decided
  BY DEF solution
<1> QED BY <1>1 DEF Agree, Violated, DecidedLast

LEMMA NextPackageAgrees ==
    ASSUME Types, WellTrailed, Agree, phase = "propagating", NextPackage(NextClause)
    PROVE  Agree'
<1>1. /\ NextClause = 0 /\ clauses' = clauses /\ trail' = trail /\ decided' = decided
  BY DEF NextPackage, solution
<1>2. ASSUME NEW i \in DOMAIN clauses PROVE ~Violated(clauses[i])
  <2> SUFFICES ASSUME Violated(clauses[i]) PROVE FALSE
    OBVIOUS
  <2>1. Head(queue) \in About(clauses[i]) /\ at <= i
    BY DEF Agree
  <2>2. IsConflict(clauses[i])
    BY ViolatedIs DEF Violated
  <2>3. i \in Nat /\ at \in Nat
    BY LenProperties, TypesParts DEF ClauseTypes, QueueTypes
  <2> QED BY <1>1, <2>1, <2>2, <2>3, DueFacts
<1> QED BY <1>1, <1>2 DEF Agree, Violated

LEMMA DeriveAgrees ==
    ASSUME Types, WellTrailed, Agree, phase = "propagating", NextClause > 0, Derive(NextClause)
    PROVE  Agree'
<1> DEFINE j == NextClause
<1>1. PICK p0 : Derives(j, p0)
  BY DeriveFacts
<1>2. at' = j + 1 /\ phase' = phase /\ clauses' = clauses /\ decided' = decided
  BY DEF Derive
<1>3. /\ j \in DOMAIN clauses /\ j \in Nat /\ at \in Nat /\ TrailFits(trail) /\ Cached /\ TrailTypes(trail)
      /\ queue \in Seq(Names) /\ queue # <<>>
  BY NextClauseFacts, TypesParts DEF QueueTypes, WellTrailed
<1>4. \A i \in DOMAIN clauses : i >= at /\ Head(queue) \in About(clauses[i]) /\ IsConflict(clauses[i]) => j <= i
  BY DueFacts
<1> HIDE DEF j
<1>5. PICK e \in Entry :
         /\ e.package = p0 /\ e.level = Level(trail) /\ e.cause # NoClause /\ Shape(e.cause)
         /\ trail' = Append(trail, e)
  BY <1>1, <1>3, DerivesFacts
<1>6. Level(trail') = Level(trail) /\ \A k \in DOMAIN trail : k \in DOMAIN trail' /\ trail'[k] = trail[k]
  <2>1. Derived
    BY <1>5 DEF Derived
  <2> QED BY <1>3, <2>1, DerivedFacts
<1>7. /\ p0 \in Names /\ p0 \in About(clauses[j]) /\ Unsatisfied(clauses[j]) = {p0}
      /\ Relation(p0, clauses[j].terms[p0]) = "undetermined"
      /\ queue' = (IF RangeNow(p0) = Effective(NewPos(p0, Negate(clauses[j].terms[p0])), NewNeg(p0, Negate(clauses[j].terms[p0])))
                   THEN queue ELSE Enqueued(p0))
  BY <1>1 DEF Derives
<1>8. Head(queue') = Head(queue)
  BY <1>3, <1>7, EnqueuedFacts
<1>9. decided[p0] = None
  <2>1. clauses[j].terms[p0] \in Term
    <3>1. PICK c : c = clauses[j]
      OBVIOUS
    <3>2. c \in Clause /\ p0 \in About(c)
      BY <1>1, <1>7, <3>1 DEF Derives, Shape
    <3> QED BY <3>1, <3>2, ClauseFacts
  <2> QED BY <1>3, <1>7, <2>1, UndeterminedIsUndecided
<1>10. ~IsConflict(clauses[j])
  BY <1>7 DEF IsConflict
<1> SUFFICES ASSUME NEW i \in DOMAIN clauses, NEW c, c = clauses[i], \A p \in About(c) : decided[p] # None,
                    IsSatisfied(trail', c)
             PROVE  /\ phase' # "deciding"
                    /\ \E p \in About(c) :
                            DecidedLast(p)' /\ (phase' = "propagating" => Head(queue') = p /\ at' <= i)
  BY <1>2 DEF Agree, Violated
<1>13. IsSatisfied(trail, c)
  BY <1>3, <1>5, <1>9, NothingNew
<1>14. PICK p \in About(c) : DecidedLast(p) /\ Head(queue) = p /\ at <= i
  BY <1>13 DEF Agree, Violated
<1>15. IsConflict(c)
  BY <1>13, ViolatedIs
<1>16. i \in Nat
  BY LenProperties, TypesParts DEF ClauseTypes
<1>17. j + 1 <= i
  <2>1. j <= i
    BY <1>3, <1>4, <1>14, <1>15, <1>16
  <2>2. j # i
    BY <1>10, <1>15
  <2> QED BY <1>3, <1>16, <2>1, <2>2
<1>18. DecidedLast(p)'
  BY <1>6, <1>14 DEF DecidedLast
<1> QED BY <1>2, <1>8, <1>14, <1>17, <1>18

\* A package that is decided has a decision on the trail.
LEMMA DecisionIsKept ==
    ASSUME NEW tr, TrailFits(tr), NEW pos, NEW neg, NEW dec, CacheIs(tr, pos, neg, dec), NEW p \in Names, dec[p] # None
    PROVE  \E k \in DOMAIN tr : tr[k].package = p /\ tr[k].cause = NoClause
<1> DEFINE k == Max(EntriesOf(tr, p))
<1>1. EntriesOf(tr, p) # {}
  BY DEF CacheIs
<1>2. EntriesOf(tr, p) \subseteq Nat /\ EntriesOf(tr, p) \subseteq 0..Len(tr) /\ EntriesOf(tr, p) \subseteq DOMAIN tr
      /\ Len(tr) \in Nat
  BY EntryFacts DEF EntriesOf, TrailFits
<1>3. k \in EntriesOf(tr, p) /\ \A j \in EntriesOf(tr, p) : j <= k
  BY <1>1, <1>2, MaxFacts
<1> HIDE DEF k
<1>4. k \in DOMAIN tr /\ tr[k].package = p /\ tr[k].decision # None
  BY <1>3 DEF CacheIs, EntriesOf
<1>5. tr[k].cause = NoClause
  BY <1>4 DEF TrailFits, EntryFits, DerivationFits
<1> QED BY <1>4, <1>5

\* A jump takes the decision of the level on top back, and with it what violated a clause; of the clause
\* that is learned it takes back the last satisfier.
LEMMA BackjumpAgrees ==
    ASSUME Types, WellTrailed, Agree, WellTrailed', phase = "resolving", NEW c, Explained(c),
           CanBackjump(Analysis(trail, c)), NEW learned, Backjump(c, Analysis(trail, c), learned)
    PROVE  Agree'
<1>1. TrailFits(trail) /\ clauses \in Seq(Clause) /\ c \in Clause
  BY TypesParts DEF WellTrailed, ClauseTypes, Explained, Shape
<1>2. PICK n \in DOMAIN trail, m \in 1..Len(trail) : JumpLeaves(c, n, m)
  BY <1>1, BackjumpLeaves
<1>3. /\ trail' = SubSeq(trail, 1, m) /\ \A i \in DOMAIN trail : i <= m => trail[i].level < Level(trail)
      /\ LastOf(trail, c, n) /\ m < n
  BY <1>2 DEF JumpLeaves
<1>4. clauses' = clauses \/ clauses' = Append(clauses, c)
  BY BackjumpParts
<1>5. /\ Len(trail') = m /\ \A i \in 1..m : trail'[i] = trail[i]
      /\ \A p, t : \A i : i \in Satisfiers(trail', p, t) <=> i \in Satisfiers(trail, p, t) /\ i <= m
  BY <1>1, <1>3, ShortenFits
<1>6. DOMAIN trail' = 1..m /\ m \in Nat /\ DOMAIN trail = 1..Len(trail) /\ Len(trail) \in Nat /\ Level(trail) \in Nat
      /\ \A i \in DOMAIN trail : trail[i].level \in Nat
  BY <1>1, <1>2, <1>5, EntryFacts, LevelsRise DEF TrailFits, WellTrailed
<1>7. ~IsSatisfied(trail', c)
  <2> SUFFICES ASSUME IsSatisfied(trail', c) PROVE FALSE
    OBVIOUS
  <2>1. PICK q : q = trail[n].package
    OBVIOUS
  <2>2. q \in About(c) /\ \A j \in Satisfiers(trail, q, c.terms[q]) : n <= j
    BY <1>3, <2>1 DEF LastOf
  <2>3. PICK j : j \in Satisfiers(trail', q, c.terms[q])
    BY <2>2 DEF IsSatisfied
  <2>4. j \in Satisfiers(trail, q, c.terms[q]) /\ j <= m
    BY <1>5, <2>3
  <2>5. j \in DOMAIN trail
    BY <2>4 DEF Satisfiers, EntriesOf
  <2> QED BY <1>3, <1>6, <2>2, <2>4, <2>5
<1>8. ASSUME NEW d, \A p \in About(d) : decided'[p] # None, IsSatisfied(trail', d), NEW i \in DOMAIN clauses, d = clauses[i]
      PROVE  FALSE
  <2>1. \A p \in About(d) : p \in Names
    BY DEF About
  <2>2. \A p \in About(d) : \E k \in DOMAIN trail :
           k <= m /\ trail[k].package = p /\ trail[k].cause = NoClause
    <3> SUFFICES ASSUME NEW p \in About(d)
                 PROVE  \E k \in DOMAIN trail : k <= m /\ trail[k].package = p /\ trail[k].cause = NoClause
      OBVIOUS
    <3>1. \E k \in DOMAIN trail' : trail'[k].package = p /\ trail'[k].cause = NoClause
      <4>1. p \in Names /\ decided'[p] # None
        BY <1>8, <2>1
      <4>2. TrailFits(trail') /\ CacheIs(trail', positive', negative', decided')
        BY DEF WellTrailed, Cached
      <4> QED BY <4>1, <4>2, DecisionIsKept
    <3> QED BY <1>5, <1>6, <3>1
  <2>3. \A p \in About(d) : decided[p] # None
    BY <2>1, <2>2, DecidedEntry
  <2>4. IsSatisfied(trail, d)
    BY <1>5, <1>8 DEF IsSatisfied
  <2>5. PICK p \in About(d) : DecidedLast(p)
    BY <1>8, <2>3, <2>4 DEF Agree, Violated
  <2>6. PICK k \in DOMAIN trail : trail[k].package = p /\ trail[k].cause = NoClause /\ trail[k].level = Level(trail)
    BY <2>5 DEF DecidedLast
  <2>7. PICK j \in DOMAIN trail : j <= m /\ trail[j].package = p /\ trail[j].cause = NoClause
    BY <2>2
  <2>8. j = k
    <3>1. j \in EntriesOf(trail, p) /\ k \in EntriesOf(trail, p) /\ p \in Names /\ decided[p] # None
      BY <2>1, <2>3, <2>6, <2>7 DEF EntriesOf
    <3>2. PICK l \in EntriesOf(trail, p) : \A i2 \in EntriesOf(trail, p) : trail[i2].cause = NoClause => i2 = l
      BY <3>1, DecisionIs DEF WellTrailed
    <3> QED BY <2>6, <2>7, <3>1, <3>2
  <2> QED BY <1>3, <1>6, <2>6, <2>7, <2>8
<1>9. ASSUME NEW i \in DOMAIN clauses', NEW d, d = clauses'[i], \A p \in About(d) : decided'[p] # None,
             IsSatisfied(trail', d)
      PROVE  FALSE
  <2>1. (i \in DOMAIN clauses /\ d = clauses[i]) \/ d = c
    <3>1. CASE clauses' = clauses
      BY <1>9, <3>1
    <3>2. CASE clauses' = Append(clauses, c)
      <4>1. /\ Len(clauses') = Len(clauses) + 1 /\ clauses'[Len(clauses) + 1] = c
            /\ \A k \in 1..Len(clauses) : clauses'[k] = clauses[k]
            /\ DOMAIN clauses = 1..Len(clauses) /\ DOMAIN clauses' = 1..Len(clauses) + 1 /\ Len(clauses) \in Nat
        BY <1>1, <3>2
      <4> QED BY <1>9, <4>1
    <3> QED BY <1>4, <3>1, <3>2
  <2> QED BY <1>7, <1>8, <1>9, <2>1
<1> QED BY <1>9 DEF Agree, Violated

\* Of a decision every clause that it may violate is about the package that was decided.
LEMMA DecideAgrees ==
    ASSUME Types, WellTrailed, Agree, phase = "deciding", NEW p \in Undecided, NEW v, Decide(p, v)
    PROVE  Agree'
<1>1. /\ v \in Versions /\ phase' = "propagating" /\ queue' = <<p>> /\ at' = at
      /\ trail' = Append(trail, Assign(p, Level(trail) + 1, NoClause, {v}, negative[p], v))
      /\ decided' = [decided EXCEPT ![p] = v]
  BY DecideParts
<1>2. p \in Packages /\ p \in Names /\ TrailFits(trail) /\ TrailTypes(trail) /\ at = 1 /\ negative[p] \in Ranges
      /\ decided \in [Names -> Versions \cup {None}]
  BY UndecidedFacts, TypesParts DEF WellTrailed, QueueTypes, SolutionTypes
<1> DEFINE e == Assign(p, Level(trail) + 1, NoClause, {v}, negative[p], v)
<1>3. e \in Entry /\ Shape(e.cause) /\ e.cause = NoClause /\ e.package = p /\ e.level = Level(trail) + 1
  <2>1. Level(trail) + 1 \in Nat /\ v \in Versions \cup {None} /\ {v} \in Ranges
    BY <1>1, <1>2, LevelsRise, UniverseFacts DEF Ranges
  <2> QED BY <1>2, <2>1, NoClauseShape, AssignIsEntry
<1>4. trail' = Append(trail, e)
  BY <1>1
<1> HIDE DEF e
<1>5. trail'[Len(trail) + 1] = e /\ DOMAIN trail' = 1..Len(trail) + 1 /\ Len(trail) \in Nat
  <2>1. TrailTypes(trail') /\ Len(trail') = Len(trail) + 1 /\ trail'[Len(trail) + 1] = e
    BY <1>2, <1>3, <1>4, LongerTrail
  <2> QED BY <1>2, <2>1, EntryFacts
<1>6. Level(trail') = Level(trail) + 1
  BY <1>2, <1>3, <1>4, AppendLevel
<1>7. DecidedLast(p)'
  BY <1>3, <1>5, <1>6 DEF DecidedLast
<1>8. /\ clauses' \in Seq(Clause)
      /\ \A i \in DOMAIN clauses' : (i \in DOMAIN clauses /\ clauses'[i] = clauses[i]) \/ p \in About(clauses'[i])
  <2>1. PICK new : /\ Adds(clauses, p, v, RequiredOf(p, v), RangesOf(p, v), new)
                   /\ clauses' = AddDependencies(clauses, p, v, RangesOf(p, v), new)
    BY <1>2, DecideAdds
  <2> DEFINE Q == RequiredOf(p, v)
             range == RangesOf(p, v)
  <2>2. Added(clauses, clauses', p, v, Q, range)
    BY <2>1, AddedFacts
  <2>3. \A q \in Q : range[q] \in SUBSET Universe
    BY <2>1 DEF Adds
  <2> HIDE DEF Q, range
  <2>4. \A q \in Q, V \in SUBSET Universe : \A i :
           clauses'[i] = RequirementClause(p, V, q, range[q], "dependency") => p \in About(clauses'[i])
    BY <1>2 DEF RequirementClause, About, NoTerm
  <2>5. \A V \in SUBSET Universe : V \cup {v} \in SUBSET Universe
    BY <1>1, UniverseFacts
  <2>6. {v} \in SUBSET Universe
    BY <1>1, UniverseFacts
  <2> QED BY <2>2, <2>4, <2>5, <2>6 DEF Added
<1>9. ASSUME NEW i \in DOMAIN clauses', NEW c, c = clauses'[i], \A q \in About(c) : decided'[q] # None,
             IsSatisfied(trail', c)
      PROVE  p \in About(c) /\ at' <= i
  <2>1. p \in About(c)
    <3> SUFFICES ASSUME p \notin About(c) PROVE FALSE
      OBVIOUS
    <3>1. i \in DOMAIN clauses /\ c = clauses[i]
      BY <1>8, <1>9
    <3>2. IsSatisfied(trail, c)
      BY <1>2, <1>3, <1>4, <1>9, NothingNew
    <3>3. \A q \in About(c) : q \in Names /\ decided[q] # None
      BY <1>1, <1>2, <1>9 DEF About
    <3> QED BY <3>1, <3>2, <3>3 DEF Agree, Violated
  <2>2. i >= 1
    BY <1>8, LenProperties
  <2> QED BY <1>1, <1>2, <2>1, <2>2
<1>10. Head(queue') = p
  BY <1>1
<1> QED BY <1>1, <1>7, <1>9, <1>10 DEF Agree, Violated

LEMMA RecordAgrees ==
    ASSUME Types, WellTrailed, Agree, phase = "deciding", NEW p \in Undecided, NEW v, RecordNoVersions(p, v)
    PROVE  Agree'
<1>1. /\ clauses' = Append(clauses, NoVersionsClause(p, RangeOrFull(p))) /\ trail' = trail /\ decided' = decided
  BY DEF RecordNoVersions, solution
<1>2. p \in Packages /\ p \in Names /\ decided[p] = None /\ clauses \in Seq(Clause)
  BY UndecidedFacts, TypesParts DEF ClauseTypes
<1> DEFINE c == NoVersionsClause(p, RangeOrFull(p))
<1>3. p \in About(c)
  BY <1>2 DEF NoVersionsClause, About, NoTerm
<1> HIDE DEF c
<1>4. clauses' = Append(clauses, c)
  BY <1>1 DEF c
<1>5. \A i \in DOMAIN clauses' : (i \in DOMAIN clauses /\ clauses'[i] = clauses[i]) \/ clauses'[i] = c
  BY <1>2, <1>4
<1>6. \A i \in DOMAIN clauses' : \A d : d = clauses'[i] =>
         ~((\A q \in About(d) : decided[q] # None) /\ IsSatisfied(trail, d))
  BY <1>2, <1>3, <1>5 DEF Agree, Violated
<1> QED BY <1>1, <1>6 DEF Agree, Violated

LEMMA AgreeKept == ASSUME Types, WellTrailed, WellTrailed', Agree, [Next]_vars PROVE Agree'
<1>1. CASE UNCHANGED vars \/ Ends
  <2>1. /\ trail' = trail /\ clauses' = clauses /\ phase' = phase /\ queue' = queue /\ at' = at /\ decided' = decided
    BY <1>1 DEF Ends, vars, solution, search
  <2> QED BY <2>1 DEF Agree, Violated, DecidedLast
<1>2. CASE Propagate
  <2>1. phase = "propagating" /\ (Derive(NextClause) \/ FindConflict(NextClause) \/ NextPackage(NextClause))
    BY <1>2 DEF Propagate
  <2>2. CASE Derive(NextClause)
    <3>1. NextClause > 0
      BY <2>2 DEF Derive
    <3> QED BY <2>1, <2>2, <3>1, DeriveAgrees
  <2>3. CASE FindConflict(NextClause)
    BY <2>3, RestingAgrees DEF FindConflict
  <2>4. CASE NextPackage(NextClause)
    BY <2>1, <2>4, NextPackageAgrees
  <2> QED BY <2>1, <2>2, <2>3, <2>4
<1>3. CASE Stop
  BY <1>3, RestingAgrees DEF Stop
<1>4. CASE Explain
  <2> DEFINE a == Analysis(trail, conflict)
  <2>1. phase = "resolving"
    BY <1>4, ExplainCases
  <2>2. CASE Resolve(a) \/ GiveUp(a)
    BY <2>1, <2>2, RestingAgrees DEF Resolve, GiveUp
  <2>3. ASSUME NEW c, NEW learned, Explained(c), CanBackjump(Analysis(trail, c)),
               Backjump(c, Analysis(trail, c), learned)
        PROVE  Agree'
    BY <2>1, <2>3, BackjumpAgrees
  <2> QED BY <1>4, <2>2, <2>3, ExplainCases
<1>5. CASE Choose
  <2>1. phase = "deciding"
    BY <1>5, ChooseCases
  <2>2. PICK p \in Undecided : \E v : Decide(p, v) \/ RecordNoVersions(p, v) \/ ChoiceRaises(v)
    BY <1>5, ChooseCases
  <2>3. PICK v : Decide(p, v) \/ RecordNoVersions(p, v) \/ ChoiceRaises(v)
    BY <2>2
  <2>4. CASE ChoiceRaises(v)
    BY <2>4, RestingAgrees DEF ChoiceRaises
  <2> QED BY <2>1, <2>3, <2>4, DecideAgrees, RecordAgrees
<1>6. CASE AllDecided \/ Answer
  BY <1>6, RestingAgrees DEF AllDecided, Answer
<1>7. CASE Visit
  <2>1. UNCHANGED solution /\ clauses' = clauses /\ phase' \in {"building", "no decision"}
    BY <1>7 DEF Visit, Walk, HasNoDecision, Skip
  <2> QED BY <2>1, RestingAgrees
<1> QED BY <1>1, <1>2, <1>3, <1>4, <1>5, <1>6, <1>7 DEF Next

LEMMA AgreeFirst == ASSUME Init PROVE Agree
<1>1. decided = [p \in Names |-> IF p = ROOT THEN 1 ELSE None] /\ world \in World
  BY TypesFirst, TypesParts DEF Init
<1>2. PICK roots \in InOrder(Roots(world), [p \in Packages |-> p]) : clauses = RootClauses(world, roots)
  BY DEF Init
<1>3. \A k \in DOMAIN roots : roots[k] \in Roots(world)
  <2>1. Roots(world) \subseteq Packages
    BY DEF Roots
  <2> QED BY <1>2, <2>1, InOrderFacts
<1>4. ASSUME NEW i \in DOMAIN clauses PROVE \E q \in About(clauses[i]) : decided[q] = None
  <2>1. PICK q \in Packages : clauses[i] = RequirementClause(ROOT, {1}, q, RootRange(world, q), "root")
    <3>1. PICK n \in Nat : DOMAIN roots = 1..n
      <4>1. Roots(world) \subseteq Packages
        BY DEF Roots
      <4> QED BY <1>2, <4>1, InOrderFacts
    <3>2. i \in DOMAIN roots /\ clauses[i] = RequirementClause(ROOT, {1}, roots[i], RootRange(world, roots[i]), "root")
      BY <1>2, <3>1 DEF RootClauses
    <3>3. roots[i] \in Packages
      BY <1>3, <3>2 DEF Roots
    <3> QED BY <3>2, <3>3
  <2>2. q \in Names /\ q # ROOT
    BY UniverseFacts
  <2>3. q \in About(clauses[i])
    <3> DEFINE V == {1}
               R == RootRange(world, q)
    <3>1. V \in SUBSET Universe /\ R \in SUBSET Universe
      BY UniverseFacts DEF RootRange, Catalog
    <3>2. clauses[i] = RequirementClause(ROOT, V, q, R, "root")
      BY <2>1
    <3>3. "root" \in Causes /\ 1 \in V
      BY DEF Causes
    <3> HIDE DEF V, R
    <3>4. States(clauses[i], ROOT, 1, q, R)
      BY <3>1, <3>2, <3>3 DEF States
    <3>5. PICK c : c = clauses[i]
      OBVIOUS
    <3>6. About(c) = {ROOT, q}
      BY <2>2, <3>1, <3>4, <3>5, UniverseFacts, StatedFacts
    <3> QED BY <3>5, <3>6
  <2> QED BY <1>1, <2>2, <2>3
<1> QED BY <1>4 DEF Agree, Violated

\* DecisionsAgree: at each choice no clause about decided packages alone is violated. A decision violates
\* only clauses about the package decided, of which propagation misses none; a jump takes the decision
\* back, and the learned clause's last satisfier.
THEOREM DecisionsStandTogether == Spec => []DecisionsAgree
<1>1. Init => Types /\ WellTrailed /\ NoneEmpty /\ Agree
  BY TypesFirst, TrailFirst, AgreeFirst
<1>2. WellTrailed /\ Agree => DecisionsAgree
  <2> SUFFICES ASSUME WellTrailed, Agree, phase = "deciding", NEW i \in DOMAIN clauses,
                      \A p \in About(clauses[i]) : decided[p] # None, IsConflict(clauses[i])
               PROVE  FALSE
    BY DEF DecisionsAgree
  <2>1. Violated(clauses[i])
    BY ViolatedIs DEF Violated
  <2> QED BY <2>1 DEF Agree
<1>3. Types /\ WellTrailed /\ NoneEmpty /\ Agree /\ [Next]_vars => (Types /\ WellTrailed /\ NoneEmpty /\ Agree)'
  BY TypesKept, TrailKept, AgreeKept
<1> QED BY <1>1, <1>2, <1>3, PTL DEF Spec
====
