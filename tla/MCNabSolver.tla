-------------------------------- MODULE MCNabSolver --------------------------------
EXTENDS NabSolver

AnyVersion == Versions

Line1(q, spec) == [on |-> q, spec |-> spec, ask |-> FALSE, when |-> FALSE]
Asking(l) == [l EXCEPT !.ask = TRUE]
Optional(l) == [l EXCEPT !.when = TRUE]

NoLines == [v \in Versions |-> <<>>]
Good == [v \in Versions |-> "good"]
GoodTo2 == <<"good", "good", "absent">>

Ask(root, lines) ==
    [root |-> root, asked |-> {}, lines |-> lines, flaw |-> <<Good, Good, Good>>,
     limit |-> [p \in Packages |-> Versions]]

FirstOnly == <<AnyVersion, NoRange, NoRange>>
AllThree == <<AnyVersion, AnyVersion, AnyVersion>>

\* What a release of p may require: nothing, a pin, or a pin of each other package.
Needs(p) ==
    LET one(q) == {Line1(q, {v}) : v \in 1..2}
        others == Packages \ {p}
    IN  {<<>>} \cup {<<l>> : l \in one(Min(others)) \cup one(Max(others))}
        \cup {<<l, k>> : l \in one(Min(others)), k \in one(Max(others))}

\* Two packages that require each other and a third; two versions of each.
Mutual == {[Ask(FirstOnly, <<<<a, b, <<>>>>, <<c, d, <<>>>>, NoLines>>)
            EXCEPT !.flaw = <<GoodTo2, GoodTo2, GoodTo2>>] :
                a \in Needs(1), b \in {n \in Needs(1) : Len(n) = 2},
                c \in Needs(2), d \in {n \in Needs(2) : Len(n) = 2}}

\* The releases of 1 pin 2 and 3, those of 2 pin 3, which may be constrained.
Disagreeing ==
    {[Ask(<<AnyVersion, AnyVersion, NoRange>>, <<[v \in Versions |-> <<Line1(2, {4 - v}), Line1(3, {b[v]})>>],
                      [v \in Versions |-> <<Line1(3, {c[v]})>>], NoLines>>)
      EXCEPT !.limit[3] = limit] :
        b, c \in [Versions -> Versions], limit \in {{1, 2}, {1, 2, 3}}}

\* Each package may pin the next, in a circle.
Pins(q, f) == [v \in Versions |-> IF f[v] = 0 THEN <<>> ELSE <<Line1(q, {f[v]})>>]
Circle == {Ask(AllThree, <<Pins(2, a), Pins(3, b), Pins(1, c)>>) :
            a, b \in [Versions -> 0..2], c \in {<<0, 1, 1>>, <<2, 1, 0>>}}

\* 1 pins 2 and 3, whose releases ask for versions of 1: what the forward check looks at.
Forward ==
    {Ask(AllThree, <<[v \in Versions |-> <<Line1(2, {a[v]}), Line1(3, {b[v]})>>],
                     <<<<Line1(1, c)>>, <<Line1(1, d)>>, <<Line1(1, {2, 3})>>>>,
                     <<<<Line1(1, e)>>, <<Line1(1, {1, 2})>>, <<Line1(1, AnyVersion)>>>>>>) :
        a \in {<<1, 2, 3>>, <<3, 2, 1>>}, b \in {<<1, 2, 3>>, <<3, 2, 1>>, <<1, 1, 1>>, <<1, 2, 1>>},
        c, d \in {{1}, {1, 2}, {2, 3}}, e \in {{1}, {3}}}

\* Releases of 2 that cannot be used, asked for by two releases of 1.
Flawed ==
    {[Ask(<<AnyVersion, root, NoRange>>, <<<<<<Line1(2, old)>>, <<Line1(2, new)>>, <<>>>>, NoLines, NoLines>>)
      EXCEPT !.flaw = <<GoodTo2, f, GoodTo2>>] :
        f \in [Versions -> {"good", "yanked", "python", "bad", "renamed"}],
        old \in {{1, 2, 3}}, new \in {{0}, {2}, {2, 3}}, root \in {NoRange, {1, 2, 3}}}

\* Extras, asked for by the user or by releases; a requirement in two lines.
Extras ==
    {[Ask(FirstOnly, <<<<<<Line1(2, AnyVersion)>>, a, <<>>>>, <<<<x>>, <<x, y>>, <<>>>>,
                       <<<<>>, <<z>>, <<>>>>>>)
      EXCEPT !.flaw = <<GoodTo2, GoodTo2, GoodTo2>>, !.asked = asked] :
        asked \in {{}, {1}},
        a \in {<<Line1(2, {1, 2}), Line1(3, {1, 2})>>, <<Asking(Line1(2, {2})), Line1(3, {1, 2})>>,
               <<Line1(2, {1, 2}), Asking(Line1(3, {1, 2}))>>, <<Asking(Line1(1, {2})), Line1(3, {1, 2})>>,
               <<Optional(Line1(2, {1})), Line1(3, {1, 2})>>},
        x \in {Optional(Line1(3, {1})), Line1(3, {2}), Asking(Line1(1, {1, 2}))},
        y \in {Optional(Line1(3, {2})), Line1(1, {2}), Asking(Line1(3, {2}))},
        z \in {Line1(2, {1}), Asking(Line1(2, {1, 2})), Optional(Line1(1, {1}))}}

\* The user asks for 2 with its extra, of which only some releases are not yanked; the extra brings
\* 3 in, which 1 may want at another version.
Withdrawn ==
    {[Ask(<<AnyVersion, root, NoRange>>,
          <<<<<<Line1(2, AnyVersion), Line1(3, {1})>>, <<Line1(2, old)>>, <<>>>>,
            [v \in Versions |-> <<Optional(Line1(3, of2[v]))>>], NoLines>>)
      EXCEPT !.flaw = <<GoodTo2, f, GoodTo2>>, !.asked = {2}] :
        f \in [Versions -> {"good", "yanked", "python"}],
        root \in {AnyVersion, {2}, {2, 3}}, old \in {{1}, {2}, {1, 2}},
        of2 \in {<<{1}, {2}, {1, 2}>>, <<{1, 2}, {1}, {1}>>}}

MCWorlds == Mutual \cup Disagreeing \cup Circle \cup Forward \cup Flawed \cup Extras \cup Withdrawn
====
