-------------------------------- MODULE MCExtras --------------------------------
(* One package of the user, 1, requires 2 and 3; 3 asks for the extra of 2, which was   *)
(* decided before. The extra brings 4.                                                  *)
EXTENDS NabSolver

Line1(q, ask, when) == [on |-> q, spec |-> Versions, ask |-> ask, when |-> when]

\* What 2 requires, and whether 2 or 3 is the one that 1 requires first.
WidenedWorlds ==
    {[root |-> [p \in Packages |-> IF p = 1 THEN Versions ELSE NoRange],
      asked |-> {},
      lines |-> [p \in Packages |->
        [v \in Versions |->
            CASE p = 1 -> IF swap THEN <<Line1(3, FALSE, FALSE), Line1(2, FALSE, FALSE)>>
                                  ELSE <<Line1(2, FALSE, FALSE), Line1(3, FALSE, FALSE)>>
              [] p = 2 -> of2
              [] p = 3 -> <<Line1(2, ask, FALSE)>>
              [] OTHER -> <<>>]],
      flaw |-> [p \in Packages |-> [v \in Versions |-> "good"]],
      limit |-> [p \in Packages |-> Versions]] :
        swap, ask \in BOOLEAN,
        of2 \in {<<>>, <<Line1(4, FALSE, FALSE)>>, <<Line1(4, FALSE, TRUE)>>}}
====
