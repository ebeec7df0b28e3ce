----------------------------- MODULE MCSubscription -----------------------------
(* Instances of Subscription for TLC.                                      *)
EXTENDS Subscription, TLC

NoFlags == {{}}
SomeFlags == {{}, {"verified", "confirmed"}, {"approved"}}
Both == {<<p, p>> : p \in Policies}

(* One transaction after the other, with the administration in between;    *)
(* two at a time, which the administration leaves alone; and two at a      *)
(* time, of requests without flags, when a policy may be changed.          *)
MCScopes ==
    {[settings |-> Both, pres |-> SomeFlags, together |-> 1,
      changes |-> {"add", "remove", "ban", "policy", "prefer", "unverify"}],
     [settings |-> Both, pres |-> {{}, {"verified", "confirmed"}}, together |-> 2,
      changes |-> {}],
     [settings |-> {<<p, p>> : p \in Moderated}, pres |-> NoFlags, together |-> 2,
      changes |-> {"policy"}]}

Alike == Permutations(Processes)
================================================================================
