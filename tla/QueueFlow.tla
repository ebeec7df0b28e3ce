------------------------------- MODULE QueueFlow -------------------------------
(***************************************************************************)
(* The queue directories with everything that works on them: producers     *)
(* that inject messages, the runners, and the unshunt command              *)
(* (mailman/commands/cli_unshunt.py), which processes the shunt queue the  *)
(* way a runner does, in a process of its own.                             *)
(***************************************************************************)
EXTENDS Runner, FiniteSets

CONSTANTS
    InQ,            \* InQ[m] is the queue a message is injected into
    MaxUnshunts     \* bound on the runs of the unshunt command

ASSUME QueueFlowAssumption ==
    /\ InQ \in [Msgs -> Queues]
    /\ MaxUnshunts \in Nat

VARIABLE unshunts   \* runs of the unshunt command so far

vars == <<file, procVars, dbVars, faultVars, unshunts>>

Init == SwitchboardInit /\ RunnerInit /\ unshunts = 0

Accepted == {file[f].msg : f \in 1..Len(file)}

(* A producer enqueues a message; it is accepted once the rename is done.  *)
Accept(m) ==
    /\ m \notin Accepted /\ Len(file) < MaxFiles
    /\ \E o \in OwnersOf(InQ[m]) :
          file' = Append(file, NewEntry(InQ[m], m, o, "in", InQ[m], "pck"))
    /\ UNCHANGED <<procVars, dbVars, faultVars, unshunts>>

-------------------------------------------------------------------------------
UnshuntStart(p) ==
    /\ ~IsRunner(p) /\ unshunts < MaxUnshunts
    /\ Goto(p, "off", "recover")
    /\ todo' = [todo EXCEPT ![p] = FilesOf(p, "bak")]
    /\ unshunts' = unshunts + 1
    /\ UNCHANGED <<file, cur, new, stop, dbVars, faultVars>>

(* An entry that cannot be loaded is reported, and stays a backup file.    *)
UnshuntLoad(p) ==
    /\ ~IsRunner(p)
    /\ Goto(p, "load", IF file[cur[p]].whole THEN "emit" ELSE "next")
    /\ UNCHANGED <<file, todo, cur, new, stop, dbVars, faultVars, unshunts>>

UnshuntEmit(p) ==
    /\ Goto(p, "emit", "publish")
    /\ BeginEnqueue(p, file[cur[p]].whichq, file[cur[p]].whichq)
    /\ UNCHANGED <<todo, cur, stop, dbVars, faultVars, unshunts>>

(* With --discard the message is thrown away; here the flag is chosen      *)
(* entry by entry, which covers the runs with it and the runs without.     *)
UnshuntDiscard(p) ==
    /\ Goto(p, "emit", "finish")
    /\ done' = done \cup {MsgOf(p)}
    /\ UNCHANGED <<file, todo, cur, new, stop, txn, held, dropped, faultVars, unshunts>>

UnshuntFinish(p) ==
    /\ ~IsRunner(p)
    /\ Goto(p, "finish", "next")
    /\ Finish(cur[p])
    /\ Release(p)
    /\ UNCHANGED <<todo, stop, dbVars, faultVars, unshunts>>

UnshuntEnd(p) ==
    /\ ~IsRunner(p)
    /\ pc[p] = "next" /\ todo[p] = {}
    /\ Exit(p)
    /\ UNCHANGED <<file, held, done, faultVars, unshunts>>

Unshunt(p) == \/ UnshuntLoad(p) \/ UnshuntEmit(p) \/ UnshuntDiscard(p)
              \/ UnshuntFinish(p) \/ UnshuntEnd(p)

-------------------------------------------------------------------------------
(* What a process does that is up.                                         *)
Running(p) == \/ (Recovery(p) \/ Iteration(p)) /\ UNCHANGED unshunts
              \/ Unshunt(p)

Work(p) == \/ StartRunner(p) /\ UNCHANGED unshunts
           \/ Running(p)

Fault(p) == (Crash(p) \/ Interrupt(p)) /\ UNCHANGED unshunts

Next == \/ \E m \in Msgs : Accept(m)
        \/ \E p \in Procs : Work(p) \/ UnshuntStart(p) \/ Fault(p)

Spec == Init /\ [][Next]_vars

(* A process that is up runs.  Nothing makes anybody start one: the master *)
(* restarts a runner only after SIGUSR1, and only so often                 *)
(* (bin/master.py:430-436), and unshunt is called by hand.                 *)
FairSpec == Spec /\ \A p \in Procs : WF_vars(Running(p))

-------------------------------------------------------------------------------
(* The variables have the values the code can give them.                   *)
TypeOK ==
    /\ file \in Seq(Entry)
    /\ pc \in [Procs -> Labels]
    /\ todo \in [Procs -> SUBSET (1..Len(file))]
    /\ cur \in [Procs -> 0..Len(file)]
    /\ new \in [Procs -> 0..Len(file)]
    /\ stop \in [Procs -> BOOLEAN]
    /\ txn \in [Procs -> SUBSET Msgs]
    /\ {held, done, dropped} \subseteq SUBSET Msgs
    /\ crashes \in Nat /\ signals \in Nat /\ unshunts \in Nat

OnDisk(m) == \E f \in 1..Len(file) : file[f].msg = m /\ Live(f)
Settled(m) == m \in done \cup held
InTransaction(m) == \E p \in Procs : m \in txn[p]

(* An accepted message is in some queue directory until it is disposed of  *)
(* or held in the database: the backup file outlives the crash of every    *)
(* process at every step (switchboard.py:156-159), and a shunted message   *)
(* is on disk before its original is removed (runner.py:187-189).  The one *)
(* exception is a held message whose transaction is rolled back: its file  *)
(* is removed (runner.py:175) before the commit (runner.py:208).           *)
NoLoss == \A m \in Accepted : \/ OnDisk(m) \/ Settled(m)
                              \/ InTransaction(m) \/ m \in dropped

(* Without the hold there is no exception.                                 *)
NeverLost ==
    \A m \in Accepted : "hold" \notin Fate[m] => OnDisk(m) \/ Settled(m)

(* The queues keep the promise of Custody: here is where each message is.  *)
PlaceOf(f) == IF file[f].q \in {"shunt", "bad"} THEN file[f].q
              ELSE IF \E p \in Procs : Serves[p] = file[f].q THEN "queue"
              ELSE "next"

Places(m) == {PlaceOf(f) : f \in {g \in 1..Len(file) : file[g].msg = m /\ Live(g)}}
             \cup (IF m \in done THEN {"done"} ELSE {})
             \cup (IF m \in held THEN {"db"} ELSE {})

Promise == INSTANCE Custody WITH places <- [m \in Msgs |-> Places(m)]

(* Every step that moves a message copies it first and removes the         *)
(* original later, along the routes the code has, in all interleavings of  *)
(* two processes, crashes and signals.                                     *)
KeepsCustody == Promise!Spec

(* A backup file is looked for only when a runner starts                   *)
(* (switchboard.py:94-95).  None is left behind for that while a runner is *)
(* up, whose only backup file is the one it is working on; and a message   *)
(* that takes its runner down is tried MAX_BAK_COUNT times and never       *)
(* again, however crashes, the rewrite of the count and the restarts       *)
(* interleave (switchboard.py:239-255).                                    *)
Busy == {"load", "process", "publish", "finish", "shunt", "shuntPublish",
         "shuntFinish", "preserve", "badPreserve"}

BackupsTriedAgain ==
    \A f \in 1..Len(file) :
       /\ file[f].tries <= MaxBakCount
       /\ \A p \in Procs :
            (/\ file[f].ext = "bak" /\ file[f].owner = p /\ IsRunner(p)
             /\ pc[p] \notin {"off", "recover", "rewrite", "reinstate"})
              => pc[p] \in Busy /\ cur[p] = f

(* A message whose only outcome is the next queue gets there once, and     *)
(* once more at most for each crash and each signal: duplicates need a     *)
(* fault, and shunting and unshunting add none.                            *)
CopiesIn(q, m) == {f \in 1..Len(file) : /\ file[f].q = q /\ file[f].msg = m
                                        /\ Live(f)}

DuplicatesNeedFaults ==
    \A m \in Msgs : Fate[m] = {"forward"} =>
       Cardinality(CopiesIn(NextQ[InQ[m]], m)) <= 1 + crashes + signals

(* Whatever went wrong before, a runner that was started and stays up      *)
(* drains its slice: in the end every entry there has been disposed of,    *)
(* handed on, shunted or preserved, the backup files that its predecessors *)
(* left included (switchboard.py:94-95, 239-255).  Of a runner that stays  *)
(* down nothing is claimed.                                                *)
Drained(p) == \A f \in 1..Len(file) :
                 file[f].owner = p => file[f].ext \notin {"pck", "bak"}

QueuesDrain ==
    \A p \in Procs :
        IsRunner(p) => (<>[](pc[p] # "off") => <>[]Drained(p))

(* A runner that was told to stop exits, although the exception that tells *)
(* it is caught inside the loop (runner.py:104-113 and 140-143).           *)
StopHonoured == \A p \in Procs : stop[p] ~> pc[p] = "off"

-------------------------------------------------------------------------------
(* What a comment of the code says and the code does not do.               *)

(* runner.py:179-182: "we do not want those to cause messages to be lost.  *)
(* Any uncaught exceptions will cause the message to be stored in the      *)
(* shunt queue for human intervention."                                    *)
NothingVanishes ==
    \A m \in Accepted : OnDisk(m) \/ Settled(m) \/ InTransaction(m)
================================================================================
