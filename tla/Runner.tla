--------------------------------- MODULE Runner ---------------------------------
(***************************************************************************)
(* A queue runner: the main loop of mailman/core/runner.py over the        *)
(* entries of its slice, and the recovery its constructor does first.      *)
(*                                                                         *)
(* A process is at pc[p].  The labels from "load" to "unlinked" lie inside *)
(* the two try statements of _one_iteration, "shuntPublish" and            *)
(* "shuntFinish" inside the inner one of the exception handler, and        *)
(* "shunt" in part before that, in part inside.  What the _dispose method  *)
(* of a concrete runner does with a message is one of the outcomes         *)
(* Fate[m]:                                                                *)
(*    "forward"  it enqueues the message for the next queue                *)
(*    "discard"  it is done with it (delivered, posted, thrown away)       *)
(*    "hold"     it holds it for moderation, in the database transaction   *)
(*    "keep"     it returns True: the message is enqueued again            *)
(*    "missing"  the mailing list does not exist, _dispose is not called   *)
(*    "fail"     it raises an exception                                    *)
(***************************************************************************)
EXTENDS Switchboard

CONSTANTS
    Fate,           \* what can become of each message
    NextQ,          \* the queue behind each queue
    MaxFiles,       \* bound: nothing is kept or accepted beyond this length
    MaxCrashes,     \* bound on the processes that die
    MaxSignals      \* bound on the signals that stop a runner

Fates == {"forward", "discard", "hold", "keep", "missing", "fail"}

ASSUME RunnerAssumption ==
    /\ Fate \in [Msgs -> SUBSET Fates]
    /\ NextQ \in [Queues -> Queues]
    /\ MaxFiles \in Nat /\ MaxCrashes \in Nat /\ MaxSignals \in Nat

VARIABLES
    pc,             \* where each process is
    todo,           \* the entries left of the list the process iterates over
    cur,            \* the entry the process is working on
    new,            \* the entry the process is writing
    stop,           \* the _stop flag
    txn,            \* messages held in the open transaction of the process
    held,           \* messages held in the database
    done,           \* history: messages some process has disposed of
    dropped,        \* history: messages of transactions rolled back
    crashes,        \* processes that died so far
    signals         \* stopping signals so far

procVars == <<pc, todo, cur, new, stop>>
dbVars == <<txn, held, done, dropped>>
faultVars == <<crashes, signals>>

Labels == {"off", "recover", "rewrite", "reinstate", "listing", "next", "load",
           "process", "emit", "publish", "finish", "unlinked", "shunt",
           "shuntPublish", "shuntFinish", "preserve", "badPreserve", "commit",
           "check", "loop"}

IsRunner(p) == Serves[p] # "shunt"

RunnerInit ==
    /\ pc = [p \in Procs |-> "off"]
    /\ todo = [p \in Procs |-> {}]
    /\ cur = [p \in Procs |-> 0]
    /\ new = [p \in Procs |-> 0]
    /\ stop = [p \in Procs |-> FALSE]
    /\ txn = [p \in Procs |-> {}]
    /\ held = {}
    /\ done = {}
    /\ dropped = {}
    /\ crashes = 0
    /\ signals = 0

Goto(p, from, to) == pc[p] = from /\ pc' = [pc EXCEPT ![p] = to]

MsgOf(p) == file[cur[p]].msg

(* (as if the name of another entry were remembered)                       *)
BeginEnqueueOffByOne(p, q, which) ==
    /\ WriteTmp(q, MsgOf(p), which, Serves[p])
    /\ new' = [new EXCEPT ![p] = Len(file) + 2]

(* The process writes a new entry and remembers which one it is.           *)
BeginEnqueue(p, q, which) ==
    /\ WriteTmp(q, MsgOf(p), which, Serves[p])
    /\ new' = [new EXCEPT ![p] = Len(file) + 1]

(* config.db.abort(), or the end of the connection.                        *)
Rollback(p) ==
    /\ txn' = [txn EXCEPT ![p] = {}]
    /\ dropped' = dropped \cup txn[p]

(* The process is gone, and what it kept in memory with it.                *)
Exit(p) ==
    /\ pc' = [pc EXCEPT ![p] = "off"]
    /\ todo' = [todo EXCEPT ![p] = {}]
    /\ cur' = [cur EXCEPT ![p] = 0]
    /\ new' = [new EXCEPT ![p] = 0]
    /\ stop' = [stop EXCEPT ![p] = FALSE]
    /\ Rollback(p)

(* The next file of the loop; the file just worked on is of no more use.   *)
Release(p) ==
    /\ cur' = [cur EXCEPT ![p] = 0]
    /\ new' = [new EXCEPT ![p] = 0]

Advance(p, f) == todo' = [todo EXCEPT ![p] = @ \ {f}]

-------------------------------------------------------------------------------
(* The constructor: Switchboard(..., recover=True).  The signal handlers   *)
(* are not installed yet.                                                  *)

(* (as if the constructor passed recover=False)                            *)
StartRunnerUnrecovered(p) ==
    /\ IsRunner(p)
    /\ Goto(p, "off", "recover")
    /\ UNCHANGED <<file, todo, cur, new, stop, dbVars, faultVars>>

StartRunner(p) ==
    /\ IsRunner(p)
    /\ Goto(p, "off", "recover")
    /\ todo' = [todo EXCEPT ![p] = FilesOf(p, "bak")]
    /\ UNCHANGED <<file, cur, new, stop, dbVars, faultVars>>

RecoverPreserve(p) ==
    /\ pc[p] = "recover"
    /\ \E f \in Oldest(todo[p]) :
          ~file[f].whole /\ FinishPreserve(f) /\ Advance(p, f)
    /\ UNCHANGED <<pc, cur, new, stop, dbVars, faultVars>>

RecoverBegin(p) ==
    /\ Goto(p, "recover", "rewrite")
    /\ \E f \in Oldest(todo[p]) :
          /\ file[f].whole /\ BeginRewrite(f) /\ Advance(p, f)
          /\ cur' = [cur EXCEPT ![p] = f]
    /\ UNCHANGED <<new, stop, dbVars, faultVars>>

RecoverEnd(p) ==
    /\ Goto(p, "rewrite", "reinstate")
    /\ EndRewrite(cur[p])
    /\ UNCHANGED <<todo, cur, new, stop, dbVars, faultVars>>

RecoverMove(p) ==
    /\ Goto(p, "reinstate", "recover")
    /\ Reinstate(cur[p])
    /\ Release(p)
    /\ UNCHANGED <<todo, stop, dbVars, faultVars>>

Recovered(p) ==
    /\ Goto(p, "recover", "listing") /\ todo[p] = {}
    /\ UNCHANGED <<file, todo, cur, new, stop, dbVars, faultVars>>

-------------------------------------------------------------------------------
(* _one_iteration.                                                         *)

ListFiles(p) ==
    /\ Goto(p, "listing", "next")
    /\ todo' = [todo EXCEPT ![p] = FilesOf(p, "pck")]
    /\ UNCHANGED <<file, cur, new, stop, dbVars, faultVars>>

EndOfList(p) ==
    /\ IsRunner(p)
    /\ Goto(p, "next", "loop") /\ todo[p] = {}
    /\ UNCHANGED <<file, todo, cur, new, stop, dbVars, faultVars>>

Dequeue(p) ==
    /\ Goto(p, "next", "load")
    /\ \E f \in Oldest(todo[p]) :
          Claim(f) /\ Advance(p, f) /\ cur' = [cur EXCEPT ![p] = f]
    /\ UNCHANGED <<new, stop, dbVars, faultVars>>

(* The rest of dequeue.  Anything it raises preserves the entry.           *)
Load(p) ==
    /\ IsRunner(p)
    /\ Goto(p, "load", IF file[cur[p]].whole THEN "process" ELSE "badPreserve")
    /\ UNCHANGED <<file, todo, cur, new, stop, dbVars, faultVars>>

(* (as if finish were not called for a message that does not load)         *)
BadPreserveSkips(p) ==
    /\ Goto(p, "badPreserve", "next")
    /\ Release(p)
    /\ Rollback(p)
    /\ UNCHANGED <<file, todo, stop, held, done, faultVars>>

(* finish(preserve=True), abort, continue: the rest of the loop body is    *)
(* skipped, the test of the stop flag included.                            *)
BadPreserve(p) ==
    /\ Goto(p, "badPreserve", "next")
    /\ FinishPreserve(cur[p])
    /\ Release(p)
    /\ Rollback(p)
    /\ UNCHANGED <<todo, stop, held, done, faultVars>>

(* _process_one_file.                                                      *)
Forward(p) ==
    /\ Goto(p, "process", "publish")
    /\ "forward" \in Fate[MsgOf(p)]
    /\ BeginEnqueue(p, NextQ[Serves[p]], file[cur[p]].whichq)
    /\ UNCHANGED <<todo, cur, stop, dbVars, faultVars>>

Keep(p) ==
    /\ Goto(p, "process", "publish")
    /\ "keep" \in Fate[MsgOf(p)] /\ Len(file) < MaxFiles
    /\ BeginEnqueue(p, Serves[p], file[cur[p]].whichq)
    /\ UNCHANGED <<todo, cur, stop, dbVars, faultVars>>

(* Here whichq is not set: an earlier value stays, else it is the default. *)
MissingList(p) ==
    /\ Goto(p, "process", "publish")
    /\ "missing" \in Fate[MsgOf(p)]
    /\ BeginEnqueue(p, "shunt", file[cur[p]].whichq)
    /\ UNCHANGED <<todo, cur, stop, dbVars, faultVars>>

Discard(p) ==
    /\ Goto(p, "process", "finish")
    /\ "discard" \in Fate[MsgOf(p)]
    /\ done' = done \cup {MsgOf(p)}
    /\ UNCHANGED <<file, todo, cur, new, stop, txn, held, dropped, faultVars>>

Hold(p) ==
    /\ Goto(p, "process", "finish")
    /\ "hold" \in Fate[MsgOf(p)]
    /\ txn' = [txn EXCEPT ![p] = @ \cup {MsgOf(p)}]
    /\ UNCHANGED <<file, todo, cur, new, stop, held, done, dropped, faultVars>>

Fail(p) ==
    /\ Goto(p, "process", "shunt")
    /\ "fail" \in Fate[MsgOf(p)]
    /\ UNCHANGED <<file, todo, cur, new, stop, dbVars, faultVars>>

(* (as if enqueue did not rename the temporary file)                       *)
PublishNewUnrenamed(p) ==
    /\ Goto(p, "publish", "finish")
    /\ UNCHANGED <<file, todo, cur, new, stop, dbVars, faultVars>>

PublishNew(p) ==
    /\ Goto(p, "publish", "finish")
    /\ Publish(new[p])
    /\ UNCHANGED <<todo, cur, new, stop, dbVars, faultVars>>

FinishEntry(p) ==
    /\ IsRunner(p)
    /\ Goto(p, "finish", "unlinked")
    /\ Finish(cur[p])
    /\ UNCHANGED <<todo, cur, new, stop, dbVars, faultVars>>

LeaveTry(p) ==
    /\ Goto(p, "unlinked", "commit")
    /\ Release(p)
    /\ UNCHANGED <<file, todo, stop, dbVars, faultVars>>

(* The exception handler: whichq is set, the message is shunted, and when  *)
(* that raises too the original entry is preserved.  Both end in abort.    *)
Shunt(p) ==
    /\ Goto(p, "shunt", "shuntPublish")
    /\ BeginEnqueue(p, "shunt", Serves[p])
    /\ UNCHANGED <<todo, cur, stop, dbVars, faultVars>>

ShuntFails(p) ==
    /\ Goto(p, "shunt", "preserve")
    /\ UNCHANGED <<file, todo, cur, new, stop, dbVars, faultVars>>

ShuntPublish(p) ==
    /\ Goto(p, "shuntPublish", "shuntFinish")
    /\ Publish(new[p])
    /\ UNCHANGED <<todo, cur, new, stop, dbVars, faultVars>>

ShuntFinish(p) ==
    /\ Goto(p, "shuntFinish", "commit")
    /\ Finish(cur[p])
    /\ Release(p)
    /\ Rollback(p)
    /\ UNCHANGED <<todo, stop, held, done, faultVars>>

Preserve(p) ==
    /\ Goto(p, "preserve", "commit")
    /\ FinishPreserve(cur[p])
    /\ Release(p)
    /\ Rollback(p)
    /\ UNCHANGED <<todo, stop, held, done, faultVars>>

(* (as if the transaction were aborted after a success, too)               *)
CommitAborts(p) ==
    /\ Goto(p, "commit", "check")
    /\ txn' = [txn EXCEPT ![p] = {}]
    /\ UNCHANGED <<file, todo, cur, new, stop, held, done, dropped, faultVars>>

(* _do_periodic, then config.db.commit().                                  *)
Commit(p) ==
    /\ Goto(p, "commit", "check")
    /\ held' = held \cup txn[p]
    /\ txn' = [txn EXCEPT ![p] = {}]
    /\ UNCHANGED <<file, todo, cur, new, stop, done, dropped, faultVars>>

(* _short_circuit.                                                         *)
Check(p) ==
    /\ Goto(p, "check", IF stop[p] THEN "loop" ELSE "next")
    /\ UNCHANGED <<file, todo, cur, new, stop, dbVars, faultVars>>

(* (as if run did not test the stop flag)                                  *)
LoopUntested(p) ==
    /\ Goto(p, "loop", "listing")
    /\ UNCHANGED <<file, todo, cur, new, stop, dbVars, faultVars>>

(* run: leave the loop when the stop flag is set, else snooze.             *)
Loop(p) ==
    /\ Goto(p, "loop", "listing") /\ ~stop[p]
    /\ UNCHANGED <<file, todo, cur, new, stop, dbVars, faultVars>>

LeaveLoop(p) ==
    /\ pc[p] = "loop" /\ stop[p]
    /\ Exit(p)
    /\ UNCHANGED <<file, held, done, faultVars>>


-------------------------------------------------------------------------------
(* SIGTERM, SIGINT or SIGUSR1: the handler sets the flag and raises        *)
(* RunnerInterrupt, an Exception, wherever the process is.                 *)

Inside == {"load", "process", "publish", "finish", "unlinked", "shunt",
           "shuntPublish", "shuntFinish"}
Outside == {"listing", "next", "shunt", "preserve", "badPreserve", "commit",
            "check", "loop"}

Signalled(p) ==
    /\ IsRunner(p)
    /\ signals < MaxSignals
    /\ signals' = signals + 1
    /\ UNCHANGED <<file, held, done, crashes>>

InterruptHandler(label) ==
    CASE label = "load" -> "badPreserve"
      [] label \in {"process", "publish", "finish", "unlinked"} -> "shunt"
      [] label \in {"shunt", "shuntPublish", "shuntFinish"} -> "preserve"

(* Inside a try statement the exception is caught by its handler ...       *)
InterruptInside(p) ==
    /\ Signalled(p)
    /\ pc[p] \in Inside
    /\ pc' = [pc EXCEPT ![p] = InterruptHandler(@)]
    /\ stop' = [stop EXCEPT ![p] = TRUE]
    /\ UNCHANGED <<todo, cur, new, txn, dropped>>

(* ... also in dequeue before the rename ...                               *)
InterruptDequeue(p) ==
    /\ Signalled(p)
    /\ Goto(p, "next", "badPreserve")
    /\ \E f \in Oldest(todo[p]) :
          Advance(p, f) /\ cur' = [cur EXCEPT ![p] = f]
    /\ stop' = [stop EXCEPT ![p] = TRUE]
    /\ UNCHANGED <<new, txn, dropped>>

(* ... and elsewhere by run: the process exits, its transaction is lost.   *)
InterruptOutside(p) ==
    /\ Signalled(p)
    /\ pc[p] \in Outside
    /\ Exit(p)

(* The process dies: SIGKILL, a power failure, or an exception no handler  *)
(* catches (the database refuses the commit).                              *)
Crash(p) ==
    /\ pc[p] # "off"
    /\ crashes < MaxCrashes
    /\ crashes' = crashes + 1
    /\ Exit(p)
    /\ UNCHANGED <<file, held, done, signals>>

-------------------------------------------------------------------------------
Recovery(p) == \/ RecoverPreserve(p) \/ RecoverBegin(p) \/ RecoverEnd(p)
               \/ RecoverMove(p) \/ Recovered(p)

Dispose(p) == \/ Forward(p) \/ Keep(p) \/ MissingList(p) \/ Discard(p)
              \/ Hold(p) \/ Fail(p)

Iteration(p) == \/ ListFiles(p) \/ EndOfList(p) \/ Dequeue(p) \/ Load(p)
                \/ BadPreserve(p) \/ Dispose(p) \/ PublishNew(p)
                \/ FinishEntry(p) \/ LeaveTry(p) \/ Shunt(p) \/ ShuntFails(p)
                \/ ShuntPublish(p) \/ ShuntFinish(p) \/ Preserve(p)
                \/ Commit(p) \/ Check(p) \/ Loop(p) \/ LeaveLoop(p)

Interrupt(p) == InterruptInside(p) \/ InterruptDequeue(p) \/ InterruptOutside(p)
================================================================================
