-------------------------------- MODULE Mailing --------------------------------
(***************************************************************************)
(* What outgoing delivery promises to the recipients of a message, without *)
(* queues, connections or transactions: whoever is due stays due until the *)
(* message was handed over, or the failure was reported, or delivery was   *)
(* given up; and nobody becomes due again.                                 *)
(***************************************************************************)
CONSTANT Rcpts

VARIABLES due, sent, failed, givenUp

Init == due \subseteq Rcpts /\ sent = {} /\ failed = {} /\ givenUp = {}

Send(S) == /\ S \subseteq due
           /\ sent' = sent \cup S
           /\ UNCHANGED <<due, failed, givenUp>>

(* A failure may still be reported of somebody who is no longer due: the   *)
(* message came back.                                                      *)
Report(F, X) == /\ F \subseteq Rcpts /\ X \subseteq due
                /\ failed' = failed \cup F /\ givenUp' = givenUp \cup X
                /\ UNCHANGED <<due, sent>>

LetGo(S) == /\ S \subseteq due \cap (sent \cup failed \cup givenUp)
            /\ due' = due \ S
            /\ UNCHANGED <<sent, failed, givenUp>>

Next == \/ \E S \in SUBSET Rcpts : Send(S) \/ LetGo(S)
        \/ \E F, X \in SUBSET Rcpts : Report(F, X)

Spec == Init /\ [][Next]_<<due, sent, failed, givenUp>>
================================================================================
