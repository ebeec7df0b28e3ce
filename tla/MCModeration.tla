------------------------------ MODULE MCModeration ------------------------------
(* Instances of Moderation: a message crossposted to two lists, and another *)
(* one to the first of them.                                               *)
EXTENDS Moderation, TLC

CONSTANTS c1, c2, c3, l1, l2, m1, m2

Crossposted == (c1 :> [list |-> l1, id |-> m1]) @@ (c2 :> [list |-> l2, id |-> m1])
               @@ (c3 :> [list |-> l1, id |-> m2])

Permuted == Permutations(Runners) \cup Permutations(Moderators)
================================================================================
