------------------------------ MODULE MasterProofs ------------------------------
(***************************************************************************)
(* Theorems about Master: no master ever has two processes on one slice;   *)
(* and about MasterLock: who is the master, for any number of masters,     *)
(* commands and kills.                                                     *)
(***************************************************************************)
EXTENDS Master, MasterLock, TLAPS

States == Live \cup {"zombie", "gone"}
MasterStates == Exited \cup Cleaning \cup Looping \cup Starting
Process == [spec : Specs, restarts : Nat, st : States,
            why : {"none", "fail", "term", "usr1", "hup"}]

TypeOK ==
    /\ mpc \in MasterStates
    /\ proc \in Seq(Process)
    /\ unstarted \subseteq Specs
    /\ base \in Nat /\ base <= Len(proc)
    /\ mpc \in {"reaped", "refork"} => got \in Mine /\ proc[got].st = "gone"

(* A process holds its slice until the master has waited for it and, if it *)
(* is to be replaced, until its successor was forked.                      *)
Holds(p) == proc[p].st # "gone" \/ (mpc \in {"reaped", "refork"} /\ p = got)

OneHolder == \A p, q \in Mine : Holds(p) /\ Holds(q) /\ proc[p].spec = proc[q].spec => p = q

(* What start_runners has not forked yet was not forked.                   *)
NotYetForked == \A p \in Mine : proc[p].spec \notin unstarted

IInv == TypeOK /\ OneHolder /\ NotYetForked

(* A step that forks nobody and wakes nobody from the dead keeps it.       *)
Calm ==
    /\ DOMAIN proc' = DOMAIN proc /\ Len(proc') = Len(proc)
    /\ \A p \in Pids : /\ proc'[p].spec = proc[p].spec
                       /\ proc[p].st = "gone" => proc'[p].st = "gone"
    /\ base' = base /\ unstarted' = unstarted

--------------------------------------------------------------------------------
LEMMA Initially == Init => IInv
BY MasterAssumption DEF Init, IInv, TypeOK, OneHolder, NotYetForked, Mine, Pids, MasterStates, Exited

Whys == {"none", "fail", "term", "usr1", "hup"}
Put(r, st) == [r EXCEPT !.st = st]
Mark(r, why) == [r EXCEPT !.why = why]

LEMMA ProcessStates ==
    ASSUME NEW r \in Process, NEW st \in States, NEW why \in Whys
    PROVE  /\ Put(r, st) \in Process /\ Put(r, st).st = st
           /\ Put(r, st).spec = r.spec
           /\ Mark(r, why) \in Process /\ Mark(r, why).st = r.st
           /\ Mark(r, why).spec = r.spec
BY DEF Process, Put, Mark, Whys

(* A signal stops a process or leaves it alone; the dead stay dead.        *)
LEMMA HitProcess ==
    ASSUME NEW r \in Process, NEW sig \in {"term", "usr1", "hup"}
    PROVE  /\ Hit(r, sig) \in Process
           /\ Hit(r, sig).spec = r.spec
           /\ r.st = "gone" => Hit(r, sig).st = "gone"
<1>1. CASE r.st = "booting"
  <2>1. Hit(r, sig) = Mark(Put(r, "zombie"), sig)
    BY <1>1 DEF Hit, Put, Mark
  <2>2. "zombie" \in States /\ sig \in Whys
    BY DEF States, Whys
  <2>. QED BY <1>1, <2>1, <2>2, ProcessStates
<1>2. CASE r.st = "up" /\ sig # "hup"
  <2>1. Hit(r, sig) = Mark(Put(r, "stopping"), sig)
    BY <1>2 DEF Hit, Put, Mark
  <2>. QED BY <1>2, <2>1, ProcessStates DEF States, Live, Whys
<1>3. CASE r.st = "stopping" /\ sig # "hup"
  <2>1. Hit(r, sig) = Mark(r, sig)
    BY <1>3 DEF Hit, Mark
  <2>2. r.st \in States /\ sig \in Whys
    BY DEF Process, Whys
  <2>. QED BY <1>3, <2>1, <2>2, ProcessStates
<1>4. CASE r.st \in {"armed", "leaving"} /\ sig # "hup"
  <2>1. Hit(r, sig) = Mark(Put(r, "leaving"), "fail")
    BY <1>4 DEF Hit, Put, Mark
  <2>. QED BY <1>4, <2>1, ProcessStates DEF States, Live, Whys
<1>5. CASE /\ r.st # "booting"
           /\ ~(r.st = "up" /\ sig # "hup")
           /\ ~(r.st = "stopping" /\ sig # "hup")
           /\ ~(r.st \in {"armed", "leaving"} /\ sig # "hup")
  <2>1. Hit(r, sig) = r
    BY <1>5 DEF Hit
  <2>. QED BY <2>1
<1>. QED BY <1>1, <1>2, <1>3, <1>4, <1>5

LEMMA KillIsCalm ==
    ASSUME proc \in Seq(Process), NEW S, NEW sig \in {"term", "usr1", "hup"}, Kill(S, sig)
    PROVE  /\ proc' \in Seq(Process) /\ Len(proc') = Len(proc)
           /\ \A p \in Pids : /\ proc'[p].spec = proc[p].spec
                              /\ proc[p].st = "gone" => proc'[p].st = "gone"
<1>1. \A p \in Pids : proc[p] \in Process
  BY DEF Pids
<1>2. \A p \in Pids : proc'[p] = IF p \in S THEN Hit(proc[p], sig) ELSE proc[p]
  BY DEF Kill
<1>3. \A p \in Pids : /\ proc'[p] \in Process
                      /\ proc'[p].spec = proc[p].spec
                      /\ proc[p].st = "gone" => proc'[p].st = "gone"
  BY <1>1, <1>2, HitProcess
<1>4. proc' = [p \in 1 .. Len(proc) |-> proc'[p]]
  BY DEF Kill, Pids
<1>5. proc' \in Seq(Process) /\ Len(proc') = Len(proc)
  BY <1>3, <1>4 DEF Pids
<1>. QED BY <1>3, <1>5

LEMMA SetStateIsCalm ==
    ASSUME proc \in Seq(Process), NEW p \in Pids, NEW st \in States,
           SetState(p, st) \/ (st = "zombie" /\ Die(p, "fail"))
    PROVE  /\ proc' \in Seq(Process) /\ Len(proc') = Len(proc)
           /\ proc'[p].st = st
           /\ \A q \in Pids : proc'[q].spec = proc[q].spec
           /\ \A q \in Pids \ {p} : proc'[q] = proc[q]
<1>1. proc[p] \in Process /\ "fail" \in Whys
  BY DEF Pids, Whys
<1>2. CASE SetState(p, st)
  <2>1. proc' = [proc EXCEPT ![p] = Put(proc[p], st)]
    BY <1>2 DEF SetState, Put
  <2>. QED BY <1>1, <2>1, ProcessStates DEF Pids
<1>3. CASE st = "zombie" /\ Die(p, "fail")
  <2>1. proc' = [proc EXCEPT ![p] = Mark(Put(proc[p], st), "fail")]
    BY <1>3 DEF Die, Put, Mark
  <2>. QED BY <1>1, <2>1, ProcessStates DEF Pids
<1>. QED BY <1>2, <1>3

LEMMA CalmKeeps ==
    ASSUME IInv, Calm, proc' \in Seq(Process), mpc' \in MasterStates,
           mpc' \in {"reaped", "refork"} =>
               got' \in Mine /\ Holds(got') /\ proc'[got'].st = "gone"
    PROVE  IInv'
<1>1. Mine' = Mine /\ Pids' = Pids
  BY DEF Calm, Mine, Pids
<1>2. TypeOK'
  BY <1>1 DEF IInv, TypeOK, Calm
<1>3. \A p \in Mine : Holds(p)' => Holds(p)
  BY <1>1 DEF Holds, Calm, Mine
<1>4. OneHolder'
  <2> SUFFICES ASSUME NEW p \in Mine, NEW q \in Mine, Holds(p)', Holds(q)', proc'[p].spec = proc'[q].spec
               PROVE  p = q
    BY <1>1 DEF OneHolder
  <2>. QED BY <1>3 DEF IInv, OneHolder, Calm, Mine
<1>5. NotYetForked'
  BY <1>1 DEF IInv, NotYetForked, Calm, Mine
<1>. QED BY <1>2, <1>4, <1>5 DEF IInv

(* A fork, of a slice that nobody else holds.                              *)
LEMMA ForkKeeps ==
    ASSUME IInv, NEW s \in Specs, NEW n \in Nat, ForkChild(s, n),
           base' = base, unstarted' \subseteq unstarted \ {s},
           mpc' \in MasterStates \ {"reaped", "refork"},
           \A p \in Mine : proc[p].spec = s => proc[p].st = "gone"
    PROVE  IInv'
<1> DEFINE r == [spec |-> s, restarts |-> n, st |-> "forked", why |-> "none"]
<1>1. r \in Process /\ r.spec = s
  BY DEF Process, States, Live
<1>2. proc' = Append(proc, r)
  BY DEF ForkChild
<1> HIDE DEF r
<1> DEFINE k == Len(proc) + 1
<1>3. /\ proc' \in Seq(Process) /\ Len(proc') = k
      /\ \A p \in Pids : proc'[p] = proc[p]
      /\ proc'[k] = r
  BY <1>1, <1>2 DEF IInv, TypeOK, Pids
<1>4. /\ Mine' = Mine \cup {k} /\ k \notin Mine
      /\ \A p \in Mine : p \in Pids
  BY <1>3 DEF IInv, TypeOK, Mine, Pids
<1>5. TypeOK'
  BY <1>3 DEF IInv, TypeOK
<1>6. \A p \in Mine : Holds(p)' => Holds(p) /\ proc[p].spec # s
  BY <1>3, <1>4 DEF Holds
<1>7. OneHolder'
  BY <1>1, <1>3, <1>4, <1>6 DEF IInv, OneHolder
<1>8. NotYetForked'
  BY <1>1, <1>3, <1>4 DEF IInv, NotYetForked
<1>. QED BY <1>5, <1>7, <1>8 DEF IInv

--------------------------------------------------------------------------------
LEMMA Inductive == IInv /\ [Next]_vars => IInv'
<1> SUFFICES ASSUME IInv, [Next]_vars PROVE IInv'
  OBVIOUS
<1> USE DEF IInv, TypeOK
<1>1. CASE Start
  <2>1. Mine' = {}
    BY <1>1 DEF Start, Mine, Pids
  <2>2. TypeOK'
    BY <1>1, <2>1 DEF Start, MasterStates, Starting
  <2>. QED BY <2>1, <2>2 DEF OneHolder, NotYetForked
<1>2. CASE StartRunner
  <2>1. PICK s \in unstarted : ForkChild(s, 0) /\ unstarted' = unstarted \ {s}
    BY <1>2 DEF StartRunner
  <2>2. /\ base' = base /\ mpc' \in MasterStates \ {"reaped", "refork"}
        /\ \A p \in Mine : proc[p].spec # s
    BY <1>2 DEF StartRunner, NotYetForked, MasterStates, Starting
  <2>. QED BY <2>1, <2>2, ForkKeeps
<1>3. CASE Restart
  <2>1. got \in Mine /\ got \in Pids /\ proc[got] \in Process
    BY <1>3 DEF Restart, Mine, Pids
  <2>2. proc[got].spec \in Specs /\ proc[got].restarts + 1 \in Nat
    BY <2>1 DEF Process
  <2>3. \A p \in Mine : proc[p].spec = proc[got].spec => proc[p].st = "gone"
    <3>1. Holds(got) /\ proc[got].st = "gone"
      BY <1>3 DEF Restart, Holds
    <3>. QED BY <2>1, <3>1 DEF OneHolder, Holds
  <2>4. /\ base' = base /\ mpc' \in MasterStates \ {"reaped", "refork"}
        /\ unstarted' \subseteq unstarted \ {proc[got].spec}
        /\ ForkChild(proc[got].spec, proc[got].restarts + 1)
    BY <1>3, <2>1 DEF Restart, NotYetForked, MasterStates, Looping
  <2>. QED BY <2>2, <2>3, <2>4, ForkKeeps
<1>4. CASE \/ Add \/ Started \/ Pause \/ Pop \/ NoChildren \/ Drop \/ Drained \/ Killed
           \/ UNCHANGED vars
  <2>1. proc' = proc /\ base' = base /\ unstarted' = unstarted /\ got' = got
    BY <1>4 DEF Add, Started, Pause, Pop, NoChildren, Drop, Drained, Killed, vars, faults
  <2>2. mpc' \in MasterStates
    BY <1>4 DEF Add, Started, Pause, Pop, NoChildren, Drop, Drained, Killed, vars,
                MasterStates, Starting, Cleaning, Looping, Exited
  <2>3. mpc' \in {"reaped", "refork"} => mpc \in {"reaped", "refork"}
    BY <1>4 DEF Add, Started, Pause, Pop, NoChildren, Drop, Drained, Killed, vars
  <2>4. Calm
    BY <2>1 DEF Calm
  <2>. QED BY <2>1, <2>2, <2>3, <2>4, CalmKeeps DEF Holds
<1>5. CASE Wait
  <2>1. PICK p \in Mine : proc[p].st = "zombie" /\ SetState(p, "gone") /\ got' = p
    BY <1>5 DEF Wait
  <2>2. p \in Pids /\ "gone" \in States
    BY DEF Mine, States
  <2>3. Calm /\ proc' \in Seq(Process)
    BY <1>5, <2>1, <2>2, SetStateIsCalm DEF Calm, Wait
  <2>4. Holds(p) /\ mpc' \in MasterStates
    BY <1>5, <2>1 DEF Holds, Wait, MasterStates, Looping, Cleaning
  <2>5. proc'[p].st = "gone"
    BY <2>1, <2>2, SetStateIsCalm
  <2>. QED BY <2>1, <2>3, <2>4, <2>5, CalmKeeps
<1>6. CASE Cleanup
  <2>1. Kill(kids, "term") /\ mpc' = "drain" /\ base' = base /\ unstarted' = unstarted
    BY <1>6 DEF Cleanup
  <2>2. Calm /\ proc' \in Seq(Process)
    BY <2>1, KillIsCalm DEF Calm
  <2>. QED BY <2>1, <2>2, CalmKeeps DEF MasterStates, Cleaning
<1>7. ASSUME NEW sig \in Signals, Handle(sig)
      PROVE  IInv'
  <2>1. Kill(Reached, sig) /\ base' = base /\ unstarted' = unstarted /\ got' = got
    BY <1>7 DEF Handle
  <2>2. Calm /\ proc' \in Seq(Process)
    BY <2>1, KillIsCalm, MasterAssumption DEF Calm
  <2>3. /\ mpc' \in MasterStates
        /\ mpc' \in {"reaped", "refork"} => mpc \in {"reaped", "refork"}
    BY <1>7 DEF Handle, MasterStates, Exited, Cleaning, Looping
  <2>. QED BY <2>1, <2>2, <2>3, CalmKeeps DEF Holds, Calm, Mine
<1>8. ASSUME NEW p \in Pids, Progress(p) \/ Fail(p) \/ Adopted(p)
      PROVE  IInv'
  <2>1. /\ base' = base /\ unstarted' = unstarted /\ got' = got /\ mpc' = mpc
        /\ \E st \in States : \/ SetState(p, st) /\ proc[p].st # "gone"
                              \/ st = "zombie" /\ Die(p, "fail") /\ proc[p].st # "gone"
    <3>1. CASE Progress(p)
      <4>1. Climb[proc[p].st] \in States
        BY <1>8, <3>1 DEF Progress, Climb, States, Live
      <4>. QED BY <3>1, <4>1 DEF Progress, Climb
    <3>2. CASE Fail(p)
      BY <3>2 DEF Fail, States, Live
    <3>3. CASE Adopted(p)
      BY <3>3 DEF Adopted, States
    <3>. QED BY <1>8, <3>1, <3>2, <3>3
  <2>2. PICK st \in States : /\ SetState(p, st) \/ (st = "zombie" /\ Die(p, "fail"))
                            /\ proc[p].st # "gone"
    BY <2>1
  <2>3. Calm /\ proc' \in Seq(Process)
    BY <2>1, <2>2, SetStateIsCalm DEF Calm
  <2>. QED BY <2>1, <2>3, CalmKeeps DEF Holds, Calm, Mine
<1>. QED
  BY <1>1, <1>2, <1>3, <1>4, <1>5, <1>6, <1>7, <1>8 DEF Next, MasterStep

LEMMA Invariance == Spec => []IInv
BY Initially, Inductive, PTL DEF Spec

(* Whatever the master is told, whoever dies, and however often a runner   *)
(* is restarted: a slice never has two live processes of one master, which *)
(* start_runners and loop (bin/master.py) keep apart by their order.       *)
THEOREM NeverTwoProcesses == Spec => []OneProcessPerSlice
<1>1. IInv => OneProcessPerSlice
  BY DEF IInv, OneHolder, Holds, OneProcessPerSlice, Live
<1>. QED BY <1>1, Invariance, PTL

--------------------------------------------------------------------------------
(***************************************************************************)
(* The lock file and the PID file.                                         *)
(***************************************************************************)
LockTypeOK ==
    /\ mp \in [Masters -> {"none", "claim", "reclaim", "force", "locked", "running",
                           "stopping", "exited", "killed"}]
    /\ lock \in Masters \cup {Nobody}
    /\ pidfile \in Masters \cup {Nobody}
    /\ cp \in [Commands -> {"none", "read", "sweep", "done"}]
    /\ target \in [Commands -> Masters \cup {Nobody}]
    /\ perished \in Nat /\ broken \in Nat /\ swept \in Nat

(* Unless a living master lost its lock, whoever is past the acquisition   *)
(* still has it: a stale lock belongs to somebody who does not run.        *)
RunningHasLock ==
    broken = 0 => \A m \in Masters : Running(m) => lock = m

LockInv == LockTypeOK /\ RunningHasLock /\ PidFileNamesMaster

-------------------------------------------------------------------------------
LEMMA LockInitially == LockInit => LockInv
BY DEF LockInit, LockInv, LockTypeOK, RunningHasLock, PidFileNamesMaster, Running

LEMMA LockTypeStep == LockTypeOK /\ [LockNext]_lockVars => LockTypeOK'
<1> SUFFICES ASSUME LockTypeOK, [LockNext]_lockVars PROVE LockTypeOK'
  OBVIOUS
<1> USE MasterLockAssumption DEF LockTypeOK, Go
<1>1. ASSUME NEW m \in Masters, StartCommand(m) \/ StartDirectly(m) PROVE LockTypeOK'
  BY <1>1 DEF StartCommand, StartDirectly
<1>2. ASSUME NEW m \in Masters, Claim(m) \/ TimeOut(m) \/ Unlink(m) PROVE LockTypeOK'
  BY <1>2 DEF Claim, TimeOut, Unlink
<1>3. ASSUME NEW m \in Masters, WritePid(m) \/ RemovePid(m) \/ Unlock(m) PROVE LockTypeOK'
  BY <1>3 DEF WritePid, RemovePid, Unlock
<1>4. ASSUME NEW m \in Masters, Perish(m) PROVE LockTypeOK'
  BY <1>4 DEF Perish
<1>5. ASSUME NEW c \in Commands, ReadPid(c) \/ Signal(c) \/ Sweep(c) PROVE LockTypeOK'
  BY <1>5 DEF ReadPid, Signal, Sweep
<1>6. CASE UNCHANGED lockVars
  BY <1>6 DEF lockVars
<1>. QED BY <1>1, <1>2, <1>3, <1>4, <1>5, <1>6 DEF LockNext

(* Only Claim lets a master in, and it finds no lock; the lock of a master *)
(* that runs is taken away by Unlink alone, which counts it as broken.     *)
LEMMA LockStep == LockTypeOK /\ RunningHasLock /\ [LockNext]_lockVars => RunningHasLock'
<1> SUFFICES ASSUME LockTypeOK, RunningHasLock, [LockNext]_lockVars PROVE RunningHasLock'
  OBVIOUS
<1> USE MasterLockAssumption DEF LockTypeOK, RunningHasLock, Running, Go
<1>1. ASSUME NEW m \in Masters, StartCommand(m) \/ StartDirectly(m)
      PROVE  RunningHasLock'
  BY <1>1 DEF StartCommand, StartDirectly
<1>2. ASSUME NEW m \in Masters, Claim(m) PROVE RunningHasLock'
  BY <1>2 DEF Claim
<1>3. ASSUME NEW m \in Masters, TimeOut(m) PROVE RunningHasLock'
  BY <1>3 DEF TimeOut
<1>4. ASSUME NEW m \in Masters, Unlink(m) PROVE RunningHasLock'
  <2>1. CASE lock # Nobody /\ Alive(lock)
    BY <1>4, <2>1 DEF Unlink
  <2>2. CASE ~(lock # Nobody /\ Alive(lock))
    <3>1. broken = 0 => \A n \in Masters : ~Running(n)
      BY <2>2 DEF Alive
    <3>. QED BY <1>4, <2>2, <3>1 DEF Unlink
  <2>. QED BY <2>1, <2>2
<1>5. ASSUME NEW m \in Masters, WritePid(m) \/ RemovePid(m) PROVE RunningHasLock'
  BY <1>5 DEF WritePid, RemovePid
<1>6. ASSUME NEW m \in Masters, Unlock(m) \/ Perish(m) PROVE RunningHasLock'
  BY <1>6 DEF Unlock, Perish
<1>7. ASSUME NEW c \in Commands, ReadPid(c) \/ Signal(c) \/ Sweep(c)
      PROVE  RunningHasLock'
  BY <1>7 DEF ReadPid, Signal, Sweep
<1>8. CASE UNCHANGED lockVars
  BY <1>8 DEF lockVars
<1>. QED BY <1>1, <1>2, <1>3, <1>4, <1>5, <1>6, <1>7, <1>8 DEF LockNext

(* The file is written and removed by a master that has the lock, and so   *)
(* while no other one runs; Sweep counts those it takes from the living.   *)
LEMMA PidFileStep ==
    LockTypeOK /\ RunningHasLock /\ PidFileNamesMaster /\ [LockNext]_lockVars => PidFileNamesMaster'
<1> SUFFICES ASSUME LockTypeOK, RunningHasLock, PidFileNamesMaster, [LockNext]_lockVars
             PROVE  PidFileNamesMaster'
  OBVIOUS
<1> USE MasterLockAssumption DEF LockTypeOK, PidFileNamesMaster, Go
<1>1. ASSUME NEW m \in Masters, StartCommand(m) \/ StartDirectly(m)
      PROVE  PidFileNamesMaster'
  BY <1>1 DEF StartCommand, StartDirectly
<1>2. ASSUME NEW m \in Masters, Claim(m) \/ TimeOut(m) PROVE PidFileNamesMaster'
  BY <1>2 DEF Claim, TimeOut
<1>3. ASSUME NEW m \in Masters, Unlink(m) PROVE PidFileNamesMaster'
  BY <1>3 DEF Unlink
<1>4. ASSUME NEW m \in Masters, WritePid(m) PROVE PidFileNamesMaster'
  <2>1. broken = 0 => \A n \in Masters : mp[n] = "running" => n = m
    BY <1>4 DEF WritePid, RunningHasLock, Running
  <2>. QED BY <1>4, <2>1 DEF WritePid
<1>5. ASSUME NEW m \in Masters, RemovePid(m) PROVE PidFileNamesMaster'
  <2>1. broken = 0 => \A n \in Masters : mp[n] = "running" => n = m
    BY <1>5 DEF RemovePid, RunningHasLock, Running
  <2>. QED BY <1>5, <2>1 DEF RemovePid
<1>6. ASSUME NEW m \in Masters, Unlock(m) \/ Perish(m) PROVE PidFileNamesMaster'
  BY <1>6 DEF Unlock, Perish
<1>7. ASSUME NEW c \in Commands, ReadPid(c) \/ Signal(c) PROVE PidFileNamesMaster'
  BY <1>7 DEF ReadPid, Signal
<1>8. ASSUME NEW c \in Commands, Sweep(c) PROVE PidFileNamesMaster'
  BY <1>8 DEF Sweep, Alive
<1>9. CASE UNCHANGED lockVars
  BY <1>9 DEF lockVars
<1>. QED BY <1>1, <1>2, <1>3, <1>4, <1>5, <1>6, <1>7, <1>8, <1>9 DEF LockNext

LEMMA LockInductive == LockInv /\ [LockNext]_lockVars => LockInv'
BY LockTypeStep, LockStep, PidFileStep DEF LockInv

LEMMA LockInvariance == LockSpec => []LockInv
BY LockInitially, LockInductive, PTL DEF LockSpec

(* Two masters run at once only after --force removed the lock of a living *)
(* one: crashes, stale locks and failed starts never bring it about.       *)
THEOREM NoSecondMaster == LockSpec => []TwoMastersNeedForce
<1>1. LockInv => TwoMastersNeedForce
  BY DEF LockInv, RunningHasLock, TwoMastersNeedForce
<1>. QED BY <1>1, LockInvariance, PTL

(* The commands that read the PID file signal the master that runs.        *)
THEOREM CommandsFindTheMaster == LockSpec => []PidFileNamesMaster
<1>1. LockInv => PidFileNamesMaster
  BY DEF LockInv
<1>. QED BY <1>1, LockInvariance, PTL
================================================================================
