--------------------------- MODULE MCTasksConsumer ---------------------------
(* Values of the constants of TasksConsumer for the model checker.         *)
EXTENDS TasksConsumer, TLC

CONSTANTS t1, t2, u1, c1, s1, none

P(c, h) == [active |-> TRUE, cap |-> c, hours |-> h]

OnePolicy == {P(2, 1)}
AllPolicies == {P(3, 1), P(2, 2), [active |-> FALSE, cap |-> 2, hours |-> 1]}

Governance == (t1 :> s1) @@ (t2 :> s1)
Mixed == (t1 :> s1) @@ (t2 :> s1) @@ (u1 :> none) @@ (c1 :> s1)

Symmetry == Permutations(Deliveries)
===============================================================================
