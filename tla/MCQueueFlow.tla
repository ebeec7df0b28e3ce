------------------------------ MODULE MCQueueFlow ------------------------------
(* Instances of QueueFlow for TLC.                                         *)
EXTENDS QueueFlow

MCQueues == {"in", "pipeline", "out", "shunt", "bad"}
MCNextQ == [q \in MCQueues |-> IF q = "in" THEN "pipeline" ELSE "out"]
MCInQ == [m \in Msgs |-> "in"]

(* One runner on the in queue, and the unshunt command.                    *)
OneRunner == [p \in {"in0", "cli"} |-> IF p = "in0" THEN "in" ELSE "shunt"]
(* Two slices of the in queue.                                             *)
TwoSlices == [p \in {"in0", "in1"} |-> "in"]

Mixed == [m \in Msgs |-> IF m = "m1" THEN {"forward"}
                         ELSE {"fail", "keep", "hold"}]
AllButHold == [m \in Msgs |-> {"forward", "fail", "discard", "missing"}]
HoldOnly == [m \in Msgs |-> {"hold"}]
================================================================================
