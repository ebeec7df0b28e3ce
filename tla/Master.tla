--------------------------------- MODULE Master ---------------------------------
(***************************************************************************)
(* The master watcher (mailman/bin/master.py) and the processes of the     *)
(* runners it starts (mailman/bin/runner.py), seen from outside: which     *)
(* process serves which slice, who is told to stop and who is restarted.   *)
(*                                                                         *)
(* A process is proc[p], numbered in the order of the forks:               *)
(*    "forked"    the child of _start_runner before its exec: it still has *)
(*                the signal handlers of the master, which do nothing here *)
(*                but signal its siblings once more                        *)
(*    "booting"   bin/runner before set_signals: default dispositions      *)
(*    "armed"     after set_signals and before run(): the RunnerInterrupt  *)
(*                that a signal raises is caught by nobody                 *)
(*    "up"        in the loop of run(), which suppresses RunnerInterrupt   *)
(*    "stopping"  in that loop with the stop flag set                      *)
(*    "leaving"   past the loop: RunnerInterrupt is caught by nobody       *)
(*    "zombie"    dead, the master has not waited for it                   *)
(*    "gone"      the master (or init, for an orphan) has waited for it    *)
(* SIGINT is treated as SIGTERM by every process and is left out.  Process *)
(* ids are never reused.  The alarm that refreshes the lock is left out.   *)
(***************************************************************************)
EXTENDS Integers, Sequences, FiniteSets

CONSTANTS
    Specs,          \* the slices the master serves: name:slice:count
    Restartable,    \* FALSE under --no-restart
    MaxRestarts,    \* max_restarts in the section of the runner
    Signals,        \* the signals the administrator sends to the master
    MaxSignals,     \* bound on those
    MaxFails,       \* bound on the runners that die by themselves
    MaxStarts,      \* bound on the incarnations of the master
    MaxKills,       \* bound on the masters killed outright
    MaxEvents       \* bound on those together, see Room

ASSUME MasterAssumption ==
    /\ Restartable \in BOOLEAN
    /\ MaxRestarts \in Nat /\ MaxSignals \in Nat /\ MaxFails \in Nat
    /\ MaxStarts \in Nat /\ MaxKills \in Nat /\ MaxEvents \in Nat
    /\ Signals \subseteq {"term", "usr1", "hup"}

VARIABLES
    mpc,            \* where the master is
    proc,           \* every process forked so far
    kids,           \* _kids, the process ids the master tracks
    unstarted,      \* what start_runners has not forked yet
    got,            \* the process id os.wait or os.fork returned last
    base,           \* how many processes were forked by earlier masters
    told,           \* history: a stop reached every runner, no restart since
    starts, signals, fails, kills

vars == <<mpc, proc, kids, unstarted, got, base, told, starts, signals, fails,
          kills>>
faults == <<starts, signals, fails, kills>>

(* The budget of events; a killed master, whose runners live on beside the *)
(* next one's, costs two.                                                  *)
Room(n) == signals + fails + 2 * kills + n <= MaxEvents


Live == {"forked", "booting", "armed", "up", "stopping", "leaving"}
Exited == {"off", "killed"}
Cleaning == {"cleanup", "drain", "drop"}
Looping == {"wait", "reaped", "refork", "readd"}
Starting == {"start", "add", "started", "pause"}

Pids == 1 .. Len(proc)
Mine == {p \in Pids : p > base}
SetState(p, st) == proc' = [proc EXCEPT ![p].st = st]
Die(p, why) == proc' = [proc EXCEPT ![p].st = "zombie", ![p].why = why]

Init ==
    /\ mpc = "off"
    /\ proc = <<>>
    /\ kids = {}
    /\ unstarted = {}
    /\ got = 0
    /\ base = 0
    /\ told = FALSE
    /\ starts = 0 /\ signals = 0 /\ fails = 0 /\ kills = 0

(***************************************************************************)
(* The main flow of the master.                                            *)
(***************************************************************************)
(* A master that got the lock enters main().  An earlier one may have been *)
(* killed: its children, now orphans, run on.                              *)
Start ==
    /\ mpc \in Exited
    /\ starts < MaxStarts
    /\ mpc' = "start"
    /\ unstarted' = Specs
    /\ kids' = {}
    /\ base' = Len(proc)
    /\ told' = FALSE
    /\ starts' = starts + 1
    /\ UNCHANGED <<proc, got, signals, fails, kills>>

ForkChild(s, restarts) ==
    /\ proc' = Append(proc, [spec |-> s, restarts |-> restarts,
                             st |-> "forked", why |-> "none"])
    /\ got' = Len(proc) + 1

(* start_runners: one fork, then the child is added to _kids.  A signal    *)
(* handled in between does not reach that child.                           *)
StartRunner ==
    /\ mpc = "start"
    /\ \E s \in unstarted :
         /\ ForkChild(s, 0)
         /\ unstarted' = unstarted \ {s}
    /\ mpc' = "add"
    /\ UNCHANGED <<kids, base, told, faults>>

Add ==
    /\ mpc \in {"add", "readd"}
    /\ kids' = kids \cup {got}
    /\ mpc' = IF mpc = "add" THEN "start" ELSE "wait"
    /\ UNCHANGED <<proc, unstarted, got, base, told, faults>>

Started ==
    /\ mpc = "start"
    /\ unstarted = {}
    /\ mpc' = "started"
    /\ UNCHANGED <<proc, kids, unstarted, got, base, told, faults>>

(* Only the handler of a signal ends _pause.                               *)
Pause ==
    /\ mpc = "started"
    /\ mpc' = "pause"
    /\ UNCHANGED <<proc, kids, unstarted, got, base, told, faults>>

(* Mutant: a child that was told to stop counts as exited.                 *)
WaitEarly ==
    /\ mpc = "wait"
    /\ \E p \in Mine :
         /\ proc[p].st \in {"stopping", "zombie"}
         /\ proc' = IF proc[p].st = "zombie"
                    THEN [proc EXCEPT ![p].st = "gone"] ELSE proc
         /\ got' = p
    /\ mpc' = "reaped"
    /\ UNCHANGED <<kids, unstarted, base, told, faults>>

(* os.wait in loop(): any dead child, and in cleanup().                    *)
Wait ==
    /\ mpc \in {"wait", "drain"}
    /\ mpc = "drain" => kids # {}
    /\ \E p \in Mine :
         /\ proc[p].st = "zombie"
         /\ SetState(p, "gone")
         /\ got' = p
    /\ mpc' = IF mpc = "wait" THEN "reaped" ELSE "drop"
    /\ UNCHANGED <<kids, unstarted, base, told, faults>>

(* Mutants: the last restart is refused; every exit is restarted.          *)
WantsRestartStrict(p) ==
    /\ proc[p].why = "usr1"
    /\ Restartable
    /\ proc[p].restarts + 1 < MaxRestarts
WantsRestartAlways(p) == Restartable /\ proc[p].restarts + 1 <= MaxRestarts

WantsRestart(p) ==
    /\ proc[p].why = "usr1"
    /\ Restartable
    /\ proc[p].restarts + 1 <= MaxRestarts

Pop ==
    /\ mpc = "reaped"
    /\ kids' = kids \ {got}
    /\ mpc' = IF WantsRestart(got) THEN "refork" ELSE "wait"
    /\ UNCHANGED <<proc, unstarted, got, base, told, faults>>

Restart ==
    /\ mpc = "refork"
    /\ ForkChild(proc[got].spec, proc[got].restarts + 1)
    /\ mpc' = "readd"
    /\ UNCHANGED <<kids, unstarted, base, told, faults>>

(* ChildProcessError: the loop ends and the finally clause cleans up.      *)
NoChildren ==
    /\ mpc = "wait"
    /\ \A p \in Mine : proc[p].st = "gone"
    /\ mpc' = "cleanup"
    /\ UNCHANGED <<proc, kids, unstarted, got, base, told, faults>>

(***************************************************************************)
(* What a signal does to a child; the why of a runner that runs on is the  *)
(* status it will exit with.                                               *)
(***************************************************************************)
Hit(r, sig) ==
    CASE r.st = "booting" -> [r EXCEPT !.st = "zombie", !.why = sig]
      [] r.st = "up" /\ sig # "hup" -> [r EXCEPT !.st = "stopping", !.why = sig]
      [] r.st = "stopping" /\ sig # "hup" -> [r EXCEPT !.why = sig]
      [] r.st \in {"armed", "leaving"} /\ sig # "hup" ->
           [r EXCEPT !.st = "leaving", !.why = "fail"]
      [] OTHER -> r

Kill(S, sig) ==
    proc' = [p \in Pids |-> IF p \in S THEN Hit(proc[p], sig) ELSE proc[p]]

(* cleanup() ignores ProcessLookupError when it sends its SIGTERMs.        *)
Cleanup ==
    /\ mpc = "cleanup"
    /\ Kill(kids, "term")
    /\ mpc' = "drain"
    /\ UNCHANGED <<kids, unstarted, got, base, told, faults>>

Drop ==
    /\ mpc = "drop"
    /\ kids' = kids \ {got}
    /\ mpc' = "drain"
    /\ UNCHANGED <<proc, unstarted, got, base, told, faults>>

Drained ==
    /\ mpc = "drain"
    /\ kids = {} \/ \A p \in Mine : proc[p].st = "gone"
    /\ mpc' = "off"
    /\ UNCHANGED <<proc, kids, unstarted, got, base, told, faults>>

(* A process id the master has waited for and not yet dropped from _kids:  *)
(* os.kill raises ProcessLookupError for it.                               *)
Stale == {p \in kids : proc[p].st = "gone"}
(* The handlers signal the children in the order they were added.          *)
Reached == {p \in kids : \A q \in Stale : p < q}
(* Nobody escapes a stop that is heard now.                                *)
AllInReach == /\ mpc \in {"pause", "wait"}
              /\ \A p \in Mine : \/ proc[p].st \in Live \ {"forked"} /\ p \in kids
                                 \/ proc[p].st = "zombie" /\ proc[p].why # "usr1"
                                 \/ proc[p].st = "gone"

(* sighup_handler, sigusr1_handler, sigterm_handler.  The exception leaves *)
(* loop() for the cleanup, or leaves the cleanup itself.                   *)
Handle(sig) ==
    /\ mpc \notin Exited
    /\ signals < MaxSignals /\ Room(1)
    /\ signals' = signals + 1
    /\ Kill(Reached, sig)
    /\ mpc' = IF Stale # {} THEN IF mpc \in Cleaning THEN "off" ELSE "cleanup"
              ELSE IF mpc = "pause" THEN "wait" ELSE mpc
    /\ told' = CASE sig = "term" -> told \/ AllInReach
                 [] sig = "usr1" -> FALSE
                 [] OTHER -> told
    /\ UNCHANGED <<kids, unstarted, got, base, starts, fails, kills>>

Killed ==
    /\ mpc \notin Exited
    /\ kills < MaxKills /\ Room(2)
    /\ mpc' = "killed"
    /\ kills' = kills + 1
    /\ UNCHANGED <<proc, kids, unstarted, got, base, told, starts, signals,
                   fails>>

(***************************************************************************)
(* The processes of the runners.                                           *)
(***************************************************************************)
Climb == [forked |-> "booting", booting |-> "armed", armed |-> "up",
          stopping |-> "leaving", leaving |-> "zombie"]

(* One more stage of the life of a runner: exec, set_signals, run, the end *)
(* of its loop, exit.                                                      *)
Progress(p) ==
    /\ proc[p].st \in DOMAIN Climb
    /\ SetState(p, Climb[proc[p].st])
    /\ UNCHANGED <<mpc, kids, unstarted, got, base, told, faults>>

(* An uncaught exception; make_runner exits with a status that is no       *)
(* signal either.                                                          *)
Fail(p) ==
    /\ proc[p].st \in Live \ {"forked"}
    /\ fails < MaxFails /\ Room(1)
    /\ fails' = fails + 1
    /\ Die(p, "fail")
    /\ UNCHANGED <<mpc, kids, unstarted, got, base, told, starts, signals, kills>>

(* init waits for the orphans.                                             *)
Adopted(p) ==
    /\ proc[p].st = "zombie"
    /\ p <= base \/ mpc \in Exited
    /\ SetState(p, "gone")
    /\ UNCHANGED <<mpc, kids, unstarted, got, base, told, faults>>

MasterStep == \/ StartRunner \/ Add \/ Started \/ Pause
              \/ Wait \/ Pop \/ Restart \/ NoChildren
              \/ Cleanup \/ Drop \/ Drained

Next == \/ Start \/ MasterStep \/ Killed
        \/ \E sig \in Signals : Handle(sig)
        \/ \E p \in Pids : Progress(p) \/ Fail(p) \/ Adopted(p)

Spec == Init /\ [][Next]_vars

(* The master and the runners run on; nobody has to signal or to fail.     *)
MaxPids == Cardinality(Specs) * (MaxRestarts + 1) * MaxStarts
FairSpec == /\ Spec
            /\ WF_vars(MasterStep)
            /\ \A p \in 1 .. MaxPids : WF_vars(p \in Pids /\ Progress(p))

--------------------------------------------------------------------------------
(***************************************************************************)
(* Properties.                                                             *)
(***************************************************************************)
(* One master never has two live processes on one slice, whatever it is    *)
(* told and whoever dies: that is what lets Switchboard.dequeue rename an  *)
(* entry without a lock.                                                   *)
OneProcessPerSlice ==
    \A p, q \in Mine :
        /\ proc[p].st \in Live /\ proc[q].st \in Live
        /\ proc[p].spec = proc[q].spec
        => p = q

(* A SIGTERM that finds every runner past its exec and the master in       *)
(* signal.pause or in os.wait ends the master, unless a restart is asked   *)
(* for after it; also when runners have died before anybody waited.        *)
StopCompletes == told ~> (mpc \in Exited \/ ~told)

(* Once the master waits for its children, a runner that ended with        *)
(* SIGUSR1 is replaced, unless it has used up its restarts.                *)
RestartCompletes ==
    \A s \in Specs, n \in 0 .. MaxRestarts - 1 :
        (/\ Restartable /\ mpc \in Looping
         /\ \E p \in Mine : /\ proc[p].spec = s /\ proc[p].restarts = n
                            /\ proc[p].st = "zombie" /\ proc[p].why = "usr1")
        ~> (\/ mpc \in Cleaning \cup Exited
            \/ \E q \in Mine : proc[q].spec = s /\ proc[q].restarts = n + 1)
================================================================================
