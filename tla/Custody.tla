-------------------------------- MODULE Custody --------------------------------
(***************************************************************************)
(* What the queues promise about a message, without files or processes.    *)
(* places[m] are the places that have a copy of m.  A copy goes from one   *)
(* place to another along a route, and a place gives its copy up only when *)
(* another place has one: nobody lets go of a message before somebody else *)
(* has it.                                                                 *)
(***************************************************************************)
CONSTANT Msgs

VARIABLE places

(* queue: a queue a runner serves.  next: a queue behind it.  An interrupt *)
(* just after the runner removed its file sends to the shunt queue what it *)
(* still has in memory, wherever the message has got to meanwhile.         *)
Place == {"queue", "next", "shunt", "bad", "done", "db"}

Routes == {<<"queue", "next">>, <<"queue", "shunt">>, <<"queue", "bad">>,
           <<"queue", "done">>, <<"queue", "db">>, <<"shunt", "queue">>,
           <<"shunt", "bad">>, <<"shunt", "done">>,
           <<"next", "shunt">>, <<"done", "shunt">>, <<"bad", "shunt">>}

Set(m, S) == places' = [places EXCEPT ![m] = S]

Enter(m) == places[m] = {} /\ Set(m, {"queue"})

Copy(m, r) == /\ r[1] \in places[m]
              /\ Set(m, places[m] \cup {r[2]})

(* A file is moved to the bad queue in one step.                           *)
Bury(m, r) == /\ r[1] \in places[m] /\ r[2] = "bad"
              /\ Set(m, (places[m] \ {r[1]}) \cup {"bad"})

Drop(m, a) == /\ a \in places[m] /\ places[m] # {a}
              /\ Set(m, places[m] \ {a})

Init == places = [m \in Msgs |-> {}]

Next == \E m \in Msgs :
           \/ Enter(m)
           \/ \E r \in Routes : Copy(m, r) \/ Bury(m, r)
           \/ \E a \in {"queue", "shunt"} : Drop(m, a)

Spec == Init /\ [][Next]_places
================================================================================
