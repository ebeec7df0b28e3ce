------------------------------- MODULE MasterLock -------------------------------
(***************************************************************************)
(* Who is the master: the lock file and the PID file, the start command    *)
(* and bin/master that take them, and the commands that signal the process *)
(* named in the PID file (bin/master.py, commands/cli_control.py).         *)
(*                                                                         *)
(* A master is a process of Masters, started at most once; the lock file   *)
(* and the PID file hold the process written in them, or Nobody.  The lock *)
(* is flufl.lock: it is taken by linking the file, and unlock() removes    *)
(* the file only if it is one's own.  All processes are on one host, no    *)
(* process id is reused and the lock, refreshed daily, never expires.      *)
(***************************************************************************)
EXTENDS Naturals, FiniteSets

CONSTANTS
    Masters,        \* the processes of bin/master, in any order of starting
    Forced,         \* those of them started with --force
    Direct,         \* those of them not started by the start command
    Commands,       \* the stop, reopen and restart commands
    Nobody,
    MaxPerished     \* bound on the processes killed outright

ASSUME MasterLockAssumption ==
    /\ Forced \subseteq Masters /\ Direct \subseteq Masters
    /\ Nobody \notin Masters
    /\ MaxPerished \in Nat

VARIABLES
    mp,             \* where each master is
    lock,           \* the lock file
    pidfile,        \* the PID file
    cp,             \* where each signalling command is
    target,         \* the process id it has read
    perished,       \* processes killed so far
    broken,         \* history: locks of living masters removed with --force
    swept           \* history: PID files of living masters removed as stale

lockVars == <<mp, lock, pidfile, cp, target, perished, broken, swept>>

Alive(m) == mp[m] \notin {"none", "exited", "killed"}
Running(m) == mp[m] \in {"locked", "running", "stopping"}

LockInit ==
    /\ mp = [m \in Masters |-> "none"]
    /\ lock = Nobody
    /\ pidfile = Nobody
    /\ cp = [c \in Commands |-> "none"]
    /\ target = [c \in Commands |-> Nobody]
    /\ perished = 0 /\ broken = 0 /\ swept = 0

Go(m, label) == mp' = [mp EXCEPT ![m] = label]

(* The start command looks at the lock before it forks: it refuses when a  *)
(* living process holds it, and a stale lock needs --force.                *)
StartCommand(m) ==
    /\ mp[m] = "none"
    /\ m \notin Direct
    /\ Go(m, IF lock = Nobody THEN "claim"
             ELSE IF Alive(lock) \/ m \notin Forced THEN "exited" ELSE "claim")
    /\ UNCHANGED <<lock, pidfile, cp, target, perished, broken, swept>>

StartDirectly(m) ==
    /\ mp[m] = "none"
    /\ m \in Direct
    /\ Go(m, "claim")
    /\ UNCHANGED <<lock, pidfile, cp, target, perished, broken, swept>>

(* acquire_lock_1: at the first call ("claim") and after the removal of    *)
(* the lock file ("reclaim").                                              *)
Claim(m) ==
    /\ mp[m] \in {"claim", "reclaim"}
    /\ lock = Nobody
    /\ lock' = m
    /\ Go(m, "locked")
    /\ UNCHANGED <<pidfile, cp, target, perished, broken, swept>>

(* Mutant: acquire_lock inside the try whose finally removes the PID file. *)
TimeOutCleansUp(m) ==
    /\ mp[m] \in {"claim", "reclaim"}
    /\ lock # Nobody
    /\ pidfile' = Nobody
    /\ Go(m, IF m \in Forced /\ mp[m] = "claim" THEN "force" ELSE "exited")
    /\ UNCHANGED <<lock, cp, target, perished, broken, swept>>

TimeOut(m) ==
    /\ mp[m] \in {"claim", "reclaim"}
    /\ lock # Nobody
    /\ Go(m, IF m \in Forced /\ mp[m] = "claim" THEN "force" ELSE "exited")
    /\ UNCHANGED <<lock, pidfile, cp, target, perished, broken, swept>>

(* disown, details, os.unlink: whoever holds the lock by now.  When nobody *)
(* does, details raises NotLockedError and the master exits.               *)
Unlink(m) ==
    /\ mp[m] = "force"
    /\ lock' = Nobody
    /\ broken' = IF lock # Nobody /\ Alive(lock) THEN broken + 1 ELSE broken
    /\ Go(m, IF lock = Nobody THEN "exited" ELSE "reclaim")
    /\ UNCHANGED <<pidfile, cp, target, perished, swept>>

WritePid(m) ==
    /\ mp[m] = "locked"
    /\ pidfile' = m
    /\ Go(m, "running")
    /\ UNCHANGED <<lock, cp, target, perished, broken, swept>>

(* Mutant: the lock is released before the children are cleaned up.        *)
RemovePidUnlocked(m) ==
    /\ mp[m] = "running"
    /\ pidfile' = Nobody
    /\ lock' = IF lock = m THEN Nobody ELSE lock
    /\ Go(m, "stopping")
    /\ UNCHANGED <<cp, target, perished, broken, swept>>

(* The inner finally clause: cleanup() and the removal of the PID file.    *)
RemovePid(m) ==
    /\ mp[m] = "running"
    /\ pidfile' = Nobody
    /\ Go(m, "stopping")
    /\ UNCHANGED <<lock, cp, target, perished, broken, swept>>

(* The outer one: unlock() of a lock that is not one's own raises.         *)
Unlock(m) ==
    /\ mp[m] = "stopping"
    /\ lock' = IF lock = m THEN Nobody ELSE lock
    /\ Go(m, "exited")
    /\ UNCHANGED <<pidfile, cp, target, perished, broken, swept>>

Perish(m) ==
    /\ Alive(m)
    /\ perished < MaxPerished
    /\ perished' = perished + 1
    /\ Go(m, "killed")
    /\ UNCHANGED <<lock, pidfile, cp, target, broken, swept>>

(* kill_watcher: read the PID file, signal the process; a process that     *)
(* does not exist has its PID file removed.  A signal to a living master   *)
(* makes it stop when the master likes to, as RemovePid has it.            *)
ReadPid(c) ==
    /\ cp[c] = "none"
    /\ target' = [target EXCEPT ![c] = pidfile]
    /\ cp' = [cp EXCEPT ![c] = IF pidfile = Nobody THEN "done" ELSE "read"]
    /\ UNCHANGED <<mp, lock, pidfile, perished, broken, swept>>

Signal(c) ==
    /\ cp[c] = "read"
    /\ cp' = [cp EXCEPT ![c] = IF Alive(target[c]) THEN "done" ELSE "sweep"]
    /\ UNCHANGED <<mp, lock, pidfile, target, perished, broken, swept>>

Sweep(c) ==
    /\ cp[c] = "sweep"
    /\ pidfile' = Nobody
    /\ swept' = IF pidfile # Nobody /\ Alive(pidfile) THEN swept + 1 ELSE swept
    /\ cp' = [cp EXCEPT ![c] = "done"]
    /\ UNCHANGED <<mp, lock, target, perished, broken>>

LockNext == \/ \E m \in Masters :
             \/ StartCommand(m) \/ StartDirectly(m) \/ Claim(m) \/ TimeOut(m)
             \/ Unlink(m) \/ WritePid(m) \/ RemovePid(m) \/ Unlock(m)
             \/ Perish(m)
        \/ \E c \in Commands : ReadPid(c) \/ Signal(c) \/ Sweep(c)

LockSpec == LockInit /\ [][LockNext]_lockVars

--------------------------------------------------------------------------------
(* Two masters run at once only if --force removed the lock of a living    *)
(* one: crashes, stale locks and failed starts alone never bring it about. *)
TwoMastersNeedForce ==
    broken = 0 => \A m, n \in Masters : Running(m) /\ Running(n) => m = n

(* While a master runs, the PID file the stop command reads names it: the  *)
(* file is written under the lock and removed before the lock is released, *)
(* so neither a dying master nor one that failed to start takes it away.   *)
PidFileNamesMaster ==
    broken = 0 /\ swept = 0 =>
        \A m \in Masters : mp[m] = "running" => pidfile = m
================================================================================
