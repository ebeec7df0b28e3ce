---------------------------- MODULE QueueFlowProofs ----------------------------
(***************************************************************************)
(* Theorems about QueueFlow, for every value of its constants.             *)
(***************************************************************************)
EXTENDS QueueFlow, TLAPS, FiniteSetTheorems, SequenceTheorems

(* A message that needs no file any more.                                  *)
Safe(m) == Settled(m) \/ InTransaction(m) \/ m \in dropped

(* The message at hand of p would survive the removal of its entry: a      *)
(* younger entry has it.  Younger, so that two processes never rely on     *)
(* each other's entries.                                                   *)
Handed(p) ==
    \/ Safe(MsgOf(p))
    \/ \E g \in 1..Len(file) : g > cur[p] /\ file[g].msg = MsgOf(p) /\ Live(g)

(* A process between two labels has an entry at hand; at the labels that   *)
(* publish one it has a younger entry with the same message; at the labels *)
(* that remove the entry its message has been handed on.                   *)
WithCur == {"rewrite", "reinstate", "load", "process", "emit", "publish",
            "finish", "unlinked", "shunt", "shuntPublish", "shuntFinish",
            "preserve", "badPreserve"}
WithNew == {"publish", "shuntPublish"}
Removing == {"finish", "shuntFinish"}

Local(p) ==
    /\ pc[p] \in WithCur => cur[p] >= 1
    /\ pc[p] \in WithNew => new[p] > cur[p] /\ file[new[p]].msg = MsgOf(p)
    /\ pc[p] \in Removing => Handed(p)

IInv == TypeOK /\ (\A p \in Procs : Local(p)) /\ NoLoss

-------------------------------------------------------------------------------
(* What the operations of the switchboard do to the sequence of entries.   *)

(* Only entry f has changed, and not its message.                          *)
OnlyTouches(f) ==
    /\ file' \in Seq(Entry) /\ Len(file') = Len(file)
    /\ \A g \in 1..Len(file) : g # f => file'[g] = file[g]
    /\ file'[f].msg = file[f].msg

LEMMA Edit ==
    ASSUME file \in Seq(Entry), NEW f \in 1..Len(file), NEW e \in Entry,
           e.msg = file[f].msg, file' = [file EXCEPT ![f] = e]
    PROVE  OnlyTouches(f) /\ file'[f] = e
<1>1. /\ file' \in Seq(Entry) /\ Len(file') = Len(file)
      /\ \A g \in 1..Len(file) : file'[g] = IF g = f THEN e ELSE file[g]
  BY ExceptSeq
<1>. QED BY <1>1 DEF OnlyTouches

LEMMA PublishEdit ==
    ASSUME file \in Seq(Entry), NEW f \in 1..Len(file), Publish(f)
    PROVE  OnlyTouches(f) /\ file'[f].ext = "pck"
<1> DEFINE e == [file[f] EXCEPT !.ext = "pck"]
<1>1. file[f] \in Entry
  OBVIOUS
<1>2. e \in Entry /\ e.msg = file[f].msg /\ e.ext = "pck"
  BY <1>1 DEF Entry, Extensions
<1>3. file' = [file EXCEPT ![f] = e]
  BY <1>1 DEF Publish
<1>. QED BY <1>2, <1>3, Edit

LEMMA ClaimEdit ==
    ASSUME file \in Seq(Entry), NEW f \in 1..Len(file), Claim(f)
    PROVE  OnlyTouches(f) /\ file'[f].ext = "bak"
<1> DEFINE e == [file[f] EXCEPT !.ext = "bak", !.tries = @ + 1]
<1>0. file[f] \in Entry
  OBVIOUS
<1>1. file[f] \in Entry /\ file[f].tries + 1 \in Nat
  BY <1>0 DEF Entry
<1>2. e \in Entry /\ e.msg = file[f].msg /\ e.ext = "bak"
  BY <1>1 DEF Entry, Extensions
<1>3. file' = [file EXCEPT ![f] = e]
  BY <1>1 DEF Claim
<1>. QED BY <1>2, <1>3, Edit

LEMMA BeginRewriteEdit ==
    ASSUME file \in Seq(Entry), NEW f \in 1..Len(file), BeginRewrite(f)
    PROVE  OnlyTouches(f) /\ file'[f].ext = file[f].ext
<1> DEFINE e == [file[f] EXCEPT !.whole = FALSE]
<1>1. file[f] \in Entry
  OBVIOUS
<1>2. e \in Entry /\ e.msg = file[f].msg /\ e.ext = file[f].ext
  BY <1>1 DEF Entry, Extensions
<1>3. file' = [file EXCEPT ![f] = e]
  BY <1>1 DEF BeginRewrite
<1>. QED BY <1>2, <1>3, Edit

LEMMA EndRewriteEdit ==
    ASSUME file \in Seq(Entry), NEW f \in 1..Len(file), EndRewrite(f)
    PROVE  OnlyTouches(f) /\ file'[f].ext = file[f].ext
<1> DEFINE e == [file[f] EXCEPT !.whole = TRUE, !.bak = @ + 1]
<1>0. file[f] \in Entry
  OBVIOUS
<1>1. file[f] \in Entry /\ file[f].bak + 1 \in Nat
  BY <1>0 DEF Entry
<1>2. e \in Entry /\ e.msg = file[f].msg /\ e.ext = file[f].ext
  BY <1>1 DEF Entry, Extensions
<1>3. file' = [file EXCEPT ![f] = e]
  BY <1>1 DEF EndRewrite
<1>. QED BY <1>2, <1>3, Edit

LEMMA FinishEdit ==
    ASSUME file \in Seq(Entry), NEW f \in 1..Len(file), Finish(f)
    PROVE  OnlyTouches(f)
<1> DEFINE e == [file[f] EXCEPT !.ext = "gone"]
<1>1. file[f] \in Entry
  OBVIOUS
<1>2. e \in Entry /\ e.msg = file[f].msg
  BY <1>1 DEF Entry, Extensions
<1>3. CASE OnQueue(f)
  <2>1. file' = [file EXCEPT ![f] = e]
    BY <1>3 DEF Finish
  <2>. QED BY <1>2, <2>1, Edit
<1>4. CASE ~OnQueue(f)
  BY <1>4 DEF Finish, OnlyTouches
<1>. QED BY <1>3, <1>4

LEMMA FinishPreserveEdit ==
    ASSUME file \in Seq(Entry), NEW f \in 1..Len(file), FinishPreserve(f)
    PROVE  /\ OnlyTouches(f)
           /\ Live(f) => Live(f)'
<1> DEFINE e == [file[f] EXCEPT !.ext = "psv", !.q = "bad", !.owner = Nobody]
<1>1. file[f] \in Entry
  OBVIOUS
<1>2. e \in Entry /\ e.msg = file[f].msg /\ e.ext = "psv"
  BY <1>1, SwitchboardAssumption DEF Entry, Extensions
<1>3. CASE OnQueue(f)
  <2>1. file' = [file EXCEPT ![f] = e]
    BY <1>3 DEF FinishPreserve
  <2>2. OnlyTouches(f) /\ file'[f].ext = "psv"
    BY <1>2, <2>1, Edit
  <2>. QED BY <2>2 DEF Live
<1>4. CASE ~OnQueue(f)
  BY <1>4 DEF FinishPreserve, OnlyTouches, Live
<1>. QED BY <1>3, <1>4

LEMMA ReinstateEdit ==
    ASSUME file \in Seq(Entry), NEW f \in 1..Len(file), Reinstate(f)
    PROVE  /\ OnlyTouches(f)
           /\ Live(f) => Live(f)'
<1>1. CASE file[f].bak >= MaxBakCount
  BY <1>1, FinishPreserveEdit DEF Reinstate
<1>2. CASE ~(file[f].bak >= MaxBakCount)
  <2> DEFINE e == [file[f] EXCEPT !.ext = "pck"]
  <2>1. file[f] \in Entry
    OBVIOUS
  <2>2. e \in Entry /\ e.msg = file[f].msg /\ e.ext = "pck"
    BY <2>1 DEF Entry, Extensions
  <2>3. file' = [file EXCEPT ![f] = e]
    BY <1>2 DEF Reinstate
  <2>4. OnlyTouches(f) /\ file'[f].ext = "pck"
    BY <2>2, <2>3, Edit
  <2>. QED BY <2>4 DEF Live
<1>. QED BY <1>1, <1>2

(* A new entry comes last and disturbs none of the others.                 *)
Appended(m) ==
    /\ file' \in Seq(Entry) /\ Len(file') = Len(file) + 1
    /\ \A g \in 1..Len(file) : file'[g] = file[g]
    /\ file'[Len(file) + 1].msg = m

LEMMA AppendEdit ==
    ASSUME file \in Seq(Entry), NEW q \in Queues, NEW m \in Msgs,
           NEW o \in OwnersOf(q), NEW which \in Queues, NEW src \in Queues,
           NEW e \in Extensions,
           file' = Append(file, NewEntry(q, m, o, which, src, e))
    PROVE  Appended(m) /\ file'[Len(file) + 1].ext = e
<1> DEFINE n == NewEntry(q, m, o, which, src, e)
<1>1. o \in Procs \cup {Nobody}
  BY DEF OwnersOf
<1>2. n \in Entry /\ n.msg = m /\ n.ext = e
  BY <1>1 DEF NewEntry, Entry
<1>. QED BY <1>2, AppendProperties DEF Appended

-------------------------------------------------------------------------------
(* Steps that take nothing away: entries stay, keep their messages, and    *)
(* stay alive; messages that need no file still need none.                 *)
Grows ==
    /\ file' \in Seq(Entry) /\ Len(file') >= Len(file)
    /\ \A g \in 1..Len(file) : /\ file'[g].msg = file[g].msg
                               /\ Live(g) => Live(g)'

SafeGrows == \A m \in Msgs : Safe(m) => Safe(m)'

(* Processes that are not concerned by a step of p.                        *)
OthersStay(p) ==
    \A q \in Procs \ {p} : pc'[q] = pc[q] /\ cur'[q] = cur[q] /\ new'[q] = new[q]

LEMMA EntryHasMsg ==
    ASSUME file \in Seq(Entry), NEW f \in 1..Len(file)
    PROVE  file[f].msg \in Msgs
<1>1. file[f] \in Entry
  OBVIOUS
<1>. QED BY <1>1 DEF Entry

LEMMA SameFileGrows ==
    ASSUME file \in Seq(Entry), file' = file
    PROVE  Grows
BY DEF Grows, Live

LEMMA TouchGrows ==
    ASSUME file \in Seq(Entry), NEW f \in 1..Len(file), OnlyTouches(f),
           Live(f) => Live(f)'
    PROVE  Grows
BY DEF Grows, OnlyTouches, Live

LEMMA AppendGrows ==
    ASSUME file \in Seq(Entry), NEW m \in Msgs, Appended(m)
    PROVE  Grows
BY DEF Grows, Appended, Live

LEMMA LocalStays ==
    ASSUME TypeOK, NEW q \in Procs, Local(q), Grows, SafeGrows,
           pc'[q] = pc[q], cur'[q] = cur[q], new'[q] = new[q]
    PROVE  Local(q)'
<1>1. /\ cur[q] \in 0..Len(file) /\ new[q] \in 0..Len(file)
      /\ file \in Seq(Entry) /\ Len(file) \in Nat /\ Len(file') \in Nat
  BY DEF TypeOK, Grows
<1>2. pc[q] \in WithCur => cur[q] \in 1..Len(file) /\ MsgOf(q)' = MsgOf(q)
  BY <1>1 DEF Local, Grows, MsgOf
<1>3. pc[q] \in WithCur => MsgOf(q) \in Msgs
  BY <1>1, <1>2, EntryHasMsg DEF MsgOf
<1>4. WithNew \subseteq WithCur /\ Removing \subseteq WithCur
  BY DEF WithNew, WithCur, Removing
<1>5. pc'[q] \in WithNew => new'[q] > cur'[q] /\ file'[new'[q]].msg = MsgOf(q)'
  BY <1>1, <1>2, <1>4 DEF Local, Grows
<1>6. pc'[q] \in Removing => Handed(q)'
  <2>1. SUFFICES ASSUME pc[q] \in Removing PROVE Handed(q)'
    OBVIOUS
  <2>2. CASE Safe(MsgOf(q))
    BY <2>1, <2>2, <1>2, <1>3, <1>4 DEF Handed, SafeGrows
  <2>3. ASSUME NEW g \in 1..Len(file), g > cur[q], file[g].msg = MsgOf(q), Live(g)
        PROVE  Handed(q)'
    BY <2>1, <2>3, <1>1, <1>2, <1>4 DEF Handed, Grows
  <2>. QED BY <2>1, <2>2, <2>3 DEF Local, Handed
<1>. QED BY <1>5, <1>6 DEF Local

LEMMA NoLossStays ==
    ASSUME TypeOK, NoLoss, Grows, SafeGrows,
           \A g \in 1..Len(file') :
              g > Len(file) => file'[g].msg \in Accepted \/ Live(g)'
    PROVE  NoLoss'
<1>1. file \in Seq(Entry) /\ Len(file) \in Nat /\ Len(file') \in Nat
  BY DEF TypeOK, Grows
<1>2. ASSUME NEW m \in Accepted PROVE OnDisk(m)' \/ Safe(m)'
  <2>1. m \in Msgs
    BY <1>1, EntryHasMsg DEF Accepted
  <2>2. OnDisk(m) => OnDisk(m)'
    BY <1>1 DEF OnDisk, Grows
  <2>. QED BY <2>1, <2>2 DEF NoLoss, Safe, SafeGrows
<1>3. ASSUME NEW m \in Accepted' PROVE OnDisk(m)' \/ Safe(m)'
  <2>1. PICK g \in 1..Len(file') : m = file'[g].msg
    BY DEF Accepted
  <2>2. CASE g \in 1..Len(file)
    <3>1. m \in Accepted
      BY <2>1, <2>2 DEF Accepted, Grows
    <3>. QED BY <3>1, <1>2
  <2>3. CASE g > Len(file)
    <3>1. m \in Accepted \/ Live(g)'
      BY <2>1, <2>3
    <3>2. Live(g)' => OnDisk(m)'
      BY <2>1 DEF OnDisk
    <3>. QED BY <3>1, <3>2, <1>2
  <2>. QED BY <1>1, <2>2, <2>3
<1>. QED BY <1>3 DEF NoLoss, Safe

LEMMA SafeSame ==
    ASSUME UNCHANGED dbVars
    PROVE  SafeGrows
BY DEF dbVars, SafeGrows, Safe, Settled, InTransaction

LEMMA SafeRollback ==
    ASSUME TypeOK, NEW p \in Procs, Rollback(p), held' = held, done' = done
    PROVE  SafeGrows
BY DEF TypeOK, Rollback, SafeGrows, Safe, Settled, InTransaction

LEMMA GrowingStep ==
    ASSUME IInv, NEW p \in Procs, TypeOK', Grows, SafeGrows, OthersStay(p), Local(p)',
           \A g \in 1..Len(file') :
              g > Len(file) => file'[g].msg \in Accepted \/ Live(g)'
    PROVE  IInv'
<1>1. ASSUME NEW q \in Procs PROVE Local(q)'
  BY LocalStays DEF IInv, OthersStay
<1>. QED BY <1>1, NoLossStays DEF IInv

LEMMA FileTypes ==
    ASSUME TypeOK
    PROVE  /\ file \in Seq(Entry) /\ Len(file) \in Nat
           /\ \A q \in Procs : todo[q] \subseteq 1..Len(file)
           /\ \A q \in Procs : cur[q] \in 0..Len(file) /\ new[q] \in 0..Len(file)
BY DEF TypeOK

LEMMA SameFileStep ==
    ASSUME IInv, NEW p \in Procs, TypeOK', file' = file, SafeGrows, OthersStay(p),
           Local(p)'
    PROVE  IInv'
<1>1. file \in Seq(Entry) /\ Len(file) \in Nat
  BY FileTypes DEF IInv
<1>. QED BY <1>1, SameFileGrows, GrowingStep

LEMMA TouchStep ==
    ASSUME IInv, NEW p \in Procs, TypeOK', NEW f \in 1..Len(file), OnlyTouches(f),
           Live(f) => Live(f)', SafeGrows, OthersStay(p), Local(p)'
    PROVE  IInv'
<1>1. file \in Seq(Entry) /\ Len(file) \in Nat
  BY FileTypes DEF IInv
<1>2. Grows
  BY <1>1, TouchGrows
<1>3. Len(file') = Len(file)
  BY DEF OnlyTouches
<1>. QED BY <1>1, <1>2, <1>3, GrowingStep

-------------------------------------------------------------------------------
(* Every action preserves the invariant.                                   *)

LEMMA StartRunnerStep ==
    ASSUME IInv, NEW p \in Procs, StartRunner(p), UNCHANGED unshunts
    PROVE  IInv'
<1>1. TypeOK'
  BY DEF IInv, TypeOK, StartRunner, Goto, Labels, FilesOf, MsgOf, dbVars, faultVars
<1>2. Local(p)'
  BY DEF IInv, TypeOK, StartRunner, Goto, Local, WithCur, WithNew, Removing
<1>3. OthersStay(p)
  BY DEF IInv, TypeOK, StartRunner, Goto, OthersStay
<1>. QED BY <1>1, <1>2, <1>3, SafeSame, SameFileStep DEF StartRunner

LEMMA RecoveredStep ==
    ASSUME IInv, NEW p \in Procs, Recovered(p), UNCHANGED unshunts
    PROVE  IInv'
<1>1. TypeOK'
  BY DEF IInv, TypeOK, Recovered, Goto, Labels, FilesOf, MsgOf, dbVars, faultVars
<1>2. Local(p)'
  BY DEF IInv, TypeOK, Recovered, Goto, Local, WithCur, WithNew, Removing
<1>3. OthersStay(p)
  BY DEF IInv, TypeOK, Recovered, Goto, OthersStay
<1>. QED BY <1>1, <1>2, <1>3, SafeSame, SameFileStep DEF Recovered

LEMMA ListFilesStep ==
    ASSUME IInv, NEW p \in Procs, ListFiles(p), UNCHANGED unshunts
    PROVE  IInv'
<1>1. TypeOK'
  BY DEF IInv, TypeOK, ListFiles, Goto, Labels, FilesOf, MsgOf, dbVars, faultVars
<1>2. Local(p)'
  BY DEF IInv, TypeOK, ListFiles, Goto, Local, WithCur, WithNew, Removing
<1>3. OthersStay(p)
  BY DEF IInv, TypeOK, ListFiles, Goto, OthersStay
<1>. QED BY <1>1, <1>2, <1>3, SafeSame, SameFileStep DEF ListFiles

LEMMA EndOfListStep ==
    ASSUME IInv, NEW p \in Procs, EndOfList(p), UNCHANGED unshunts
    PROVE  IInv'
<1>1. TypeOK'
  BY DEF IInv, TypeOK, EndOfList, Goto, Labels, FilesOf, MsgOf, dbVars, faultVars
<1>2. Local(p)'
  BY DEF IInv, TypeOK, EndOfList, Goto, Local, WithCur, WithNew, Removing
<1>3. OthersStay(p)
  BY DEF IInv, TypeOK, EndOfList, Goto, OthersStay
<1>. QED BY <1>1, <1>2, <1>3, SafeSame, SameFileStep DEF EndOfList

LEMMA LoadStep ==
    ASSUME IInv, NEW p \in Procs, Load(p), UNCHANGED unshunts
    PROVE  IInv'
<1>1. TypeOK'
  BY DEF IInv, TypeOK, Load, Goto, Labels, FilesOf, MsgOf, dbVars, faultVars
<1>2. Local(p)'
  BY DEF IInv, TypeOK, Load, Goto, Local, WithCur, WithNew, Removing
<1>3. OthersStay(p)
  BY DEF IInv, TypeOK, Load, Goto, OthersStay
<1>. QED BY <1>1, <1>2, <1>3, SafeSame, SameFileStep DEF Load

LEMMA FailStep ==
    ASSUME IInv, NEW p \in Procs, Fail(p), UNCHANGED unshunts
    PROVE  IInv'
<1>1. TypeOK'
  BY DEF IInv, TypeOK, Fail, Goto, Labels, FilesOf, MsgOf, dbVars, faultVars
<1>2. Local(p)'
  BY DEF IInv, TypeOK, Fail, Goto, Local, WithCur, WithNew, Removing
<1>3. OthersStay(p)
  BY DEF IInv, TypeOK, Fail, Goto, OthersStay
<1>. QED BY <1>1, <1>2, <1>3, SafeSame, SameFileStep DEF Fail

LEMMA ShuntFailsStep ==
    ASSUME IInv, NEW p \in Procs, ShuntFails(p), UNCHANGED unshunts
    PROVE  IInv'
<1>1. TypeOK'
  BY DEF IInv, TypeOK, ShuntFails, Goto, Labels, FilesOf, MsgOf, dbVars, faultVars
<1>2. Local(p)'
  BY DEF IInv, TypeOK, ShuntFails, Goto, Local, WithCur, WithNew, Removing
<1>3. OthersStay(p)
  BY DEF IInv, TypeOK, ShuntFails, Goto, OthersStay
<1>. QED BY <1>1, <1>2, <1>3, SafeSame, SameFileStep DEF ShuntFails

LEMMA CheckStep ==
    ASSUME IInv, NEW p \in Procs, Check(p), UNCHANGED unshunts
    PROVE  IInv'
<1>1. TypeOK'
  BY DEF IInv, TypeOK, Check, Goto, Labels, FilesOf, MsgOf, dbVars, faultVars
<1>2. Local(p)'
  BY DEF IInv, TypeOK, Check, Goto, Local, WithCur, WithNew, Removing
<1>3. OthersStay(p)
  BY DEF IInv, TypeOK, Check, Goto, OthersStay
<1>. QED BY <1>1, <1>2, <1>3, SafeSame, SameFileStep DEF Check

LEMMA LoopStep ==
    ASSUME IInv, NEW p \in Procs, Loop(p), UNCHANGED unshunts
    PROVE  IInv'
<1>1. TypeOK'
  BY DEF IInv, TypeOK, Loop, Goto, Labels, FilesOf, MsgOf, dbVars, faultVars
<1>2. Local(p)'
  BY DEF IInv, TypeOK, Loop, Goto, Local, WithCur, WithNew, Removing
<1>3. OthersStay(p)
  BY DEF IInv, TypeOK, Loop, Goto, OthersStay
<1>. QED BY <1>1, <1>2, <1>3, SafeSame, SameFileStep DEF Loop

LEMMA UnshuntStartStep ==
    ASSUME IInv, NEW p \in Procs, UnshuntStart(p)
    PROVE  IInv'
<1>1. TypeOK'
  BY DEF IInv, TypeOK, UnshuntStart, Goto, Labels, FilesOf, MsgOf, dbVars, faultVars
<1>2. Local(p)'
  BY DEF IInv, TypeOK, UnshuntStart, Goto, Local, WithCur, WithNew, Removing
<1>3. OthersStay(p)
  BY DEF IInv, TypeOK, UnshuntStart, Goto, OthersStay
<1>. QED BY <1>1, <1>2, <1>3, SafeSame, SameFileStep DEF UnshuntStart

LEMMA UnshuntLoadStep ==
    ASSUME IInv, NEW p \in Procs, UnshuntLoad(p)
    PROVE  IInv'
<1>1. TypeOK'
  BY DEF IInv, TypeOK, UnshuntLoad, Goto, Labels, FilesOf, MsgOf, dbVars, faultVars
<1>2. Local(p)'
  BY DEF IInv, TypeOK, UnshuntLoad, Goto, Local, WithCur, WithNew, Removing
<1>3. OthersStay(p)
  BY DEF IInv, TypeOK, UnshuntLoad, Goto, OthersStay
<1>. QED BY <1>1, <1>2, <1>3, SafeSame, SameFileStep DEF UnshuntLoad

LEMMA LeaveTryStep ==
    ASSUME IInv, NEW p \in Procs, LeaveTry(p), UNCHANGED unshunts
    PROVE  IInv'
<1>1. TypeOK'
  BY DEF IInv, TypeOK, LeaveTry, Goto, Labels, FilesOf, MsgOf, dbVars, faultVars, Release
<1>2. Local(p)'
  BY DEF IInv, TypeOK, LeaveTry, Goto, Local, WithCur, WithNew, Removing, Release
<1>3. OthersStay(p)
  BY DEF IInv, TypeOK, LeaveTry, Goto, OthersStay, Release
<1>. QED BY <1>1, <1>2, <1>3, SafeSame, SameFileStep DEF LeaveTry

LEMMA LeaveLoopStep ==
    ASSUME IInv, NEW p \in Procs, LeaveLoop(p), UNCHANGED unshunts
    PROVE  IInv'
<1>1. TypeOK'
  BY DEF IInv, TypeOK, LeaveLoop, Goto, Labels, FilesOf, MsgOf, dbVars, faultVars, Exit, Rollback
<1>2. Local(p)'
  BY DEF IInv, TypeOK, LeaveLoop, Goto, Local, WithCur, WithNew, Removing, Exit, Rollback
<1>3. OthersStay(p)
  BY DEF IInv, TypeOK, LeaveLoop, Goto, OthersStay, Exit, Rollback
<1>4. SafeGrows
  BY SafeRollback DEF IInv, LeaveLoop, Exit, Rollback
<1>. QED BY <1>1, <1>2, <1>3, <1>4, SameFileStep DEF LeaveLoop, Exit, Rollback

LEMMA UnshuntEndStep ==
    ASSUME IInv, NEW p \in Procs, UnshuntEnd(p)
    PROVE  IInv'
<1>1. TypeOK'
  BY DEF IInv, TypeOK, UnshuntEnd, Goto, Labels, FilesOf, MsgOf, dbVars, faultVars, Exit, Rollback
<1>2. Local(p)'
  BY DEF IInv, TypeOK, UnshuntEnd, Goto, Local, WithCur, WithNew, Removing, Exit, Rollback
<1>3. OthersStay(p)
  BY DEF IInv, TypeOK, UnshuntEnd, Goto, OthersStay, Exit, Rollback
<1>4. SafeGrows
  BY SafeRollback DEF IInv, UnshuntEnd, Exit, Rollback
<1>. QED BY <1>1, <1>2, <1>3, <1>4, SameFileStep DEF UnshuntEnd, Exit, Rollback

LEMMA CrashStep ==
    ASSUME IInv, NEW p \in Procs, Crash(p), UNCHANGED unshunts
    PROVE  IInv'
<1>1. TypeOK'
  BY DEF IInv, TypeOK, Crash, Goto, Labels, FilesOf, MsgOf, dbVars, faultVars, Exit, Rollback
<1>2. Local(p)'
  BY DEF IInv, TypeOK, Crash, Goto, Local, WithCur, WithNew, Removing, Exit, Rollback
<1>3. OthersStay(p)
  BY DEF IInv, TypeOK, Crash, Goto, OthersStay, Exit, Rollback
<1>4. SafeGrows
  BY SafeRollback DEF IInv, Crash, Exit, Rollback
<1>. QED BY <1>1, <1>2, <1>3, <1>4, SameFileStep DEF Crash, Exit, Rollback

LEMMA InterruptOutsideStep ==
    ASSUME IInv, NEW p \in Procs, InterruptOutside(p), UNCHANGED unshunts
    PROVE  IInv'
<1>1. TypeOK'
  BY DEF IInv, TypeOK, InterruptOutside, Goto, Labels, FilesOf, MsgOf, dbVars, faultVars, Exit, Rollback, Signalled, Outside
<1>2. Local(p)'
  BY DEF IInv, TypeOK, InterruptOutside, Goto, Local, WithCur, WithNew, Removing, Exit, Rollback, Signalled, Outside
<1>3. OthersStay(p)
  BY DEF IInv, TypeOK, InterruptOutside, Goto, OthersStay, Exit, Rollback, Signalled, Outside
<1>4. SafeGrows
  BY SafeRollback DEF IInv, InterruptOutside, Exit, Rollback, Signalled, Outside
<1>. QED BY <1>1, <1>2, <1>3, <1>4, SameFileStep DEF InterruptOutside, Exit, Rollback, Signalled, Outside

LEMMA InterruptInsideStep ==
    ASSUME IInv, NEW p \in Procs, InterruptInside(p), UNCHANGED unshunts
    PROVE  IInv'
<1>1. pc[p] \in Inside /\ pc' = [pc EXCEPT ![p] = InterruptHandler(pc[p])]
  BY DEF InterruptInside
<1>2. InterruptHandler(pc[p]) \in {"badPreserve", "shunt", "preserve"}
  BY <1>1 DEF InterruptHandler, Inside
<1>3. pc[p] \in WithCur
  BY <1>1 DEF Inside, WithCur
<1>4. TypeOK'
  BY <1>1, <1>2 DEF IInv, TypeOK, InterruptInside, Signalled, Labels
<1>5. Local(p)'
  BY <1>1, <1>2, <1>3 DEF IInv, TypeOK, InterruptInside, Signalled, Local,
                          WithCur, WithNew, Removing
<1>6. OthersStay(p) /\ file' = file
  BY DEF IInv, TypeOK, InterruptInside, Signalled, OthersStay
<1>7. SafeGrows
  BY SafeSame DEF InterruptInside, Signalled, dbVars
<1>. QED BY <1>4, <1>5, <1>6, <1>7, SameFileStep

LEMMA InterruptDequeueStep ==
    ASSUME IInv, NEW p \in Procs, InterruptDequeue(p), UNCHANGED unshunts
    PROVE  IInv'
<1>1. PICK f \in Oldest(todo[p]) : Advance(p, f) /\ cur' = [cur EXCEPT ![p] = f]
  BY DEF InterruptDequeue
<1>2. f \in 1..Len(file)
  BY FileTypes DEF IInv, Oldest
<1>4. TypeOK'
  BY <1>1, <1>2 DEF IInv, TypeOK, InterruptDequeue, Signalled, Goto, Labels, Advance
<1>5. Local(p)'
  BY <1>1, <1>2 DEF IInv, TypeOK, InterruptDequeue, Signalled, Goto, Local,
                    WithCur, WithNew, Removing
<1>6. OthersStay(p) /\ file' = file
  BY <1>1 DEF IInv, TypeOK, InterruptDequeue, Signalled, Goto, OthersStay
<1>7. SafeGrows
  BY SafeSame DEF InterruptDequeue, Signalled, dbVars
<1>. QED BY <1>4, <1>5, <1>6, <1>7, SameFileStep

LEMMA MsgAtHand ==
    ASSUME IInv, NEW p \in Procs, pc[p] \in WithCur
    PROVE  cur[p] \in 1..Len(file) /\ MsgOf(p) \in Msgs /\ MsgOf(p) \in Accepted
<1>1. cur[p] \in 1..Len(file)
  BY FileTypes DEF IInv, Local
<1>. QED BY <1>1, EntryHasMsg, FileTypes DEF IInv, MsgOf, Accepted

LEMMA DiscardStep ==
    ASSUME IInv, NEW p \in Procs, Discard(p), UNCHANGED unshunts
    PROVE  IInv'
<1>1. pc[p] = "process" /\ cur[p] \in 1..Len(file) /\ MsgOf(p) \in Msgs
  BY MsgAtHand DEF Discard, Goto, WithCur
<1>2. TypeOK'
  BY <1>1 DEF IInv, TypeOK, Discard, Goto, Labels, dbVars, faultVars
<1>3. SafeGrows
  BY DEF IInv, TypeOK, Discard, SafeGrows, Safe, Settled, InTransaction
<1>4. Safe(MsgOf(p))'
  BY <1>1 DEF IInv, TypeOK, Discard, Safe, Settled, InTransaction, MsgOf
<1>5. Local(p)'
  BY <1>1, <1>4 DEF IInv, TypeOK, Discard, Goto, Local, Handed,
                    WithCur, WithNew, Removing
<1>6. OthersStay(p) /\ file' = file
  BY DEF IInv, TypeOK, Discard, Goto, OthersStay
<1>. QED BY <1>2, <1>3, <1>5, <1>6, SameFileStep

LEMMA HoldStep ==
    ASSUME IInv, NEW p \in Procs, Hold(p), UNCHANGED unshunts
    PROVE  IInv'
<1>1. pc[p] = "process" /\ cur[p] \in 1..Len(file) /\ MsgOf(p) \in Msgs
  BY MsgAtHand DEF Hold, Goto, WithCur
<1>2. TypeOK'
  BY <1>1 DEF IInv, TypeOK, Hold, Goto, Labels, dbVars, faultVars
<1>3. SafeGrows
  BY DEF IInv, TypeOK, Hold, SafeGrows, Safe, Settled, InTransaction
<1>4. Safe(MsgOf(p))'
  BY <1>1 DEF IInv, TypeOK, Hold, Safe, Settled, InTransaction, MsgOf
<1>5. Local(p)'
  BY <1>1, <1>4 DEF IInv, TypeOK, Hold, Goto, Local, Handed,
                    WithCur, WithNew, Removing
<1>6. OthersStay(p) /\ file' = file
  BY DEF IInv, TypeOK, Hold, Goto, OthersStay
<1>. QED BY <1>2, <1>3, <1>5, <1>6, SameFileStep

LEMMA UnshuntDiscardStep ==
    ASSUME IInv, NEW p \in Procs, UnshuntDiscard(p)
    PROVE  IInv'
<1>1. pc[p] = "emit" /\ cur[p] \in 1..Len(file) /\ MsgOf(p) \in Msgs
  BY MsgAtHand DEF UnshuntDiscard, Goto, WithCur
<1>2. TypeOK'
  BY <1>1 DEF IInv, TypeOK, UnshuntDiscard, Goto, Labels, dbVars, faultVars
<1>3. SafeGrows
  BY DEF IInv, TypeOK, UnshuntDiscard, SafeGrows, Safe, Settled, InTransaction
<1>4. Safe(MsgOf(p))'
  BY <1>1 DEF IInv, TypeOK, UnshuntDiscard, Safe, Settled, InTransaction, MsgOf
<1>5. Local(p)'
  BY <1>1, <1>4 DEF IInv, TypeOK, UnshuntDiscard, Goto, Local, Handed,
                    WithCur, WithNew, Removing
<1>6. OthersStay(p) /\ file' = file
  BY DEF IInv, TypeOK, UnshuntDiscard, Goto, OthersStay
<1>. QED BY <1>2, <1>3, <1>5, <1>6, SameFileStep

LEMMA CommitStep ==
    ASSUME IInv, NEW p \in Procs, Commit(p), UNCHANGED unshunts
    PROVE  IInv'
<1>1. TypeOK'
  BY DEF IInv, TypeOK, Commit, Goto, Labels, faultVars
<1>2. SafeGrows
  BY DEF IInv, TypeOK, Commit, SafeGrows, Safe, Settled, InTransaction
<1>3. Local(p)'
  BY DEF IInv, TypeOK, Commit, Goto, Local, WithCur, WithNew, Removing
<1>4. OthersStay(p) /\ file' = file
  BY DEF IInv, TypeOK, Commit, Goto, OthersStay
<1>. QED BY <1>1, <1>2, <1>3, <1>4, SameFileStep

LEMMA RecoverPreserveStep ==
    ASSUME IInv, NEW p \in Procs, RecoverPreserve(p), UNCHANGED unshunts
    PROVE  IInv'
<1>1. PICK f \in Oldest(todo[p]) : FinishPreserve(f) /\ Advance(p, f)
  BY DEF RecoverPreserve
<1>2. f \in 1..Len(file) /\ file \in Seq(Entry)
  BY FileTypes DEF IInv, Oldest
<1>3. OnlyTouches(f) /\ (Live(f) => Live(f)')
  BY <1>1, <1>2, FinishPreserveEdit DEF Live
<1>4. TypeOK'
  BY <1>1, <1>2, <1>3 DEF IInv, TypeOK, RecoverPreserve, Goto, Labels, Advance, OnlyTouches,
                          dbVars, faultVars
<1>5. Local(p)'
  BY <1>1, <1>2 DEF IInv, TypeOK, RecoverPreserve, Goto, Local, WithCur, WithNew, Removing
<1>6. OthersStay(p)
  BY <1>1 DEF IInv, TypeOK, RecoverPreserve, Goto, OthersStay
<1>7. SafeGrows
  BY SafeSame DEF RecoverPreserve
<1>. QED BY <1>2, <1>3, <1>4, <1>5, <1>6, <1>7, TouchStep

LEMMA RecoverBeginStep ==
    ASSUME IInv, NEW p \in Procs, RecoverBegin(p), UNCHANGED unshunts
    PROVE  IInv'
<1>1. PICK f \in Oldest(todo[p]) : BeginRewrite(f) /\ Advance(p, f) /\ cur' = [cur EXCEPT ![p] = f]
  BY DEF RecoverBegin
<1>2. f \in 1..Len(file) /\ file \in Seq(Entry)
  BY FileTypes DEF IInv, Oldest
<1>3. OnlyTouches(f) /\ (Live(f) => Live(f)')
  BY <1>1, <1>2, BeginRewriteEdit DEF Live
<1>4. TypeOK'
  BY <1>1, <1>2, <1>3 DEF IInv, TypeOK, RecoverBegin, Goto, Labels, Advance, OnlyTouches,
                          dbVars, faultVars
<1>5. Local(p)'
  BY <1>1, <1>2 DEF IInv, TypeOK, RecoverBegin, Goto, Local, WithCur, WithNew, Removing
<1>6. OthersStay(p)
  BY <1>1 DEF IInv, TypeOK, RecoverBegin, Goto, OthersStay
<1>7. SafeGrows
  BY SafeSame DEF RecoverBegin
<1>. QED BY <1>2, <1>3, <1>4, <1>5, <1>6, <1>7, TouchStep

LEMMA DequeueStep ==
    ASSUME IInv, NEW p \in Procs, Dequeue(p), UNCHANGED unshunts
    PROVE  IInv'
<1>1. PICK f \in Oldest(todo[p]) : Claim(f) /\ Advance(p, f) /\ cur' = [cur EXCEPT ![p] = f]
  BY DEF Dequeue
<1>2. f \in 1..Len(file) /\ file \in Seq(Entry)
  BY FileTypes DEF IInv, Oldest
<1>3. OnlyTouches(f) /\ (Live(f) => Live(f)')
  BY <1>1, <1>2, ClaimEdit DEF Live
<1>4. TypeOK'
  BY <1>1, <1>2, <1>3 DEF IInv, TypeOK, Dequeue, Goto, Labels, Advance, OnlyTouches,
                          dbVars, faultVars
<1>5. Local(p)'
  BY <1>1, <1>2 DEF IInv, TypeOK, Dequeue, Goto, Local, WithCur, WithNew, Removing
<1>6. OthersStay(p)
  BY <1>1 DEF IInv, TypeOK, Dequeue, Goto, OthersStay
<1>7. SafeGrows
  BY SafeSame DEF Dequeue
<1>. QED BY <1>2, <1>3, <1>4, <1>5, <1>6, <1>7, TouchStep

LEMMA RecoverEndStep ==
    ASSUME IInv, NEW p \in Procs, RecoverEnd(p), UNCHANGED unshunts
    PROVE  IInv'
<1>1. PICK f \in 1..Len(file) : f = cur[p] /\ EndRewrite(f)
  BY MsgAtHand DEF RecoverEnd, Goto, WithCur
<1>2. file \in Seq(Entry)
  BY FileTypes DEF IInv
<1>3. OnlyTouches(f) /\ (Live(f) => Live(f)')
  BY <1>1, <1>2, EndRewriteEdit DEF Live
<1>4. TypeOK'
  BY <1>1, <1>2, <1>3 DEF IInv, TypeOK, RecoverEnd, Goto, Labels, OnlyTouches,
                          dbVars, faultVars
<1>5. Local(p)'
  BY <1>1, <1>2 DEF IInv, TypeOK, RecoverEnd, Goto, Local, WithCur, WithNew, Removing
<1>6. OthersStay(p)
  BY <1>1 DEF IInv, TypeOK, RecoverEnd, Goto, OthersStay
<1>7. SafeGrows
  BY SafeSame DEF RecoverEnd
<1>. QED BY <1>2, <1>3, <1>4, <1>5, <1>6, <1>7, TouchStep

LEMMA RecoverMoveStep ==
    ASSUME IInv, NEW p \in Procs, RecoverMove(p), UNCHANGED unshunts
    PROVE  IInv'
<1>1. PICK f \in 1..Len(file) : f = cur[p] /\ Reinstate(f)
  BY MsgAtHand DEF RecoverMove, Goto, WithCur
<1>2. file \in Seq(Entry)
  BY FileTypes DEF IInv
<1>3. OnlyTouches(f) /\ (Live(f) => Live(f)')
  BY <1>1, <1>2, ReinstateEdit DEF Live
<1>4. TypeOK'
  BY <1>1, <1>2, <1>3 DEF IInv, TypeOK, RecoverMove, Goto, Labels, OnlyTouches,
                          dbVars, faultVars, Release
<1>5. Local(p)'
  BY <1>1, <1>2 DEF IInv, TypeOK, RecoverMove, Goto, Local, WithCur, WithNew, Removing, Release
<1>6. OthersStay(p)
  BY <1>1 DEF IInv, TypeOK, RecoverMove, Goto, OthersStay, Release
<1>7. SafeGrows
  BY SafeSame DEF RecoverMove
<1>. QED BY <1>2, <1>3, <1>4, <1>5, <1>6, <1>7, TouchStep

LEMMA BadPreserveStep ==
    ASSUME IInv, NEW p \in Procs, BadPreserve(p), UNCHANGED unshunts
    PROVE  IInv'
<1>1. PICK f \in 1..Len(file) : f = cur[p] /\ FinishPreserve(f)
  BY MsgAtHand DEF BadPreserve, Goto, WithCur
<1>2. file \in Seq(Entry)
  BY FileTypes DEF IInv
<1>3. OnlyTouches(f) /\ (Live(f) => Live(f)')
  BY <1>1, <1>2, FinishPreserveEdit DEF Live
<1>4. TypeOK'
  BY <1>1, <1>2, <1>3 DEF IInv, TypeOK, BadPreserve, Goto, Labels, OnlyTouches,
                          Rollback, faultVars, Release
<1>5. Local(p)'
  BY <1>1, <1>2 DEF IInv, TypeOK, BadPreserve, Goto, Local, WithCur, WithNew, Removing, Release
<1>6. OthersStay(p)
  BY <1>1 DEF IInv, TypeOK, BadPreserve, Goto, OthersStay, Release
<1>7. SafeGrows
  BY SafeRollback DEF IInv, BadPreserve
<1>. QED BY <1>2, <1>3, <1>4, <1>5, <1>6, <1>7, TouchStep

LEMMA PreserveStep ==
    ASSUME IInv, NEW p \in Procs, Preserve(p), UNCHANGED unshunts
    PROVE  IInv'
<1>1. PICK f \in 1..Len(file) : f = cur[p] /\ FinishPreserve(f)
  BY MsgAtHand DEF Preserve, Goto, WithCur
<1>2. file \in Seq(Entry)
  BY FileTypes DEF IInv
<1>3. OnlyTouches(f) /\ (Live(f) => Live(f)')
  BY <1>1, <1>2, FinishPreserveEdit DEF Live
<1>4. TypeOK'
  BY <1>1, <1>2, <1>3 DEF IInv, TypeOK, Preserve, Goto, Labels, OnlyTouches,
                          Rollback, faultVars, Release
<1>5. Local(p)'
  BY <1>1, <1>2 DEF IInv, TypeOK, Preserve, Goto, Local, WithCur, WithNew, Removing, Release
<1>6. OthersStay(p)
  BY <1>1 DEF IInv, TypeOK, Preserve, Goto, OthersStay, Release
<1>7. SafeGrows
  BY SafeRollback DEF IInv, Preserve
<1>. QED BY <1>2, <1>3, <1>4, <1>5, <1>6, <1>7, TouchStep

LEMMA PublishNewStep ==
    ASSUME IInv, NEW p \in Procs, PublishNew(p), UNCHANGED unshunts
    PROVE  IInv'
<1>1. PICK f \in 1..Len(file) : f = new[p] /\ Publish(f)
  BY FileTypes DEF IInv, Local, PublishNew, Goto, WithNew, WithCur
<1>2. file \in Seq(Entry) /\ Len(file) \in Nat
  BY FileTypes DEF IInv
<1>3. OnlyTouches(f) /\ file'[f].ext = "pck"
  BY <1>1, <1>2, PublishEdit
<1>4. TypeOK'
  BY <1>1, <1>2, <1>3 DEF IInv, TypeOK, PublishNew, Goto, Labels, OnlyTouches,
                          dbVars, faultVars
<1>5. /\ cur'[p] = cur[p] /\ cur[p] \in 1..Len(file) /\ f > cur[p]
      /\ file[f].msg = MsgOf(p)
  BY <1>1, MsgAtHand DEF IInv, TypeOK, Local, PublishNew, Goto, WithNew, WithCur
<1>6. MsgOf(p)' = file[f].msg /\ Live(f)' /\ file'[f].msg = file[f].msg
  BY <1>1, <1>3, <1>5 DEF MsgOf, OnlyTouches, Live
<1>7. Handed(p)'
  BY <1>2, <1>3, <1>5, <1>6 DEF Handed, OnlyTouches, Live
<1>8. Local(p)'
  BY <1>5, <1>7 DEF IInv, TypeOK, PublishNew, Goto, Local, WithCur, WithNew, Removing
<1>9. OthersStay(p)
  BY <1>1 DEF IInv, TypeOK, PublishNew, Goto, OthersStay
<1>10. SafeGrows
  BY SafeSame DEF PublishNew
<1>11. Live(f) => Live(f)'
  BY <1>6
<1>. QED BY <1>2, <1>3, <1>4, <1>8, <1>9, <1>10, <1>11, TouchStep

LEMMA ShuntPublishStep ==
    ASSUME IInv, NEW p \in Procs, ShuntPublish(p), UNCHANGED unshunts
    PROVE  IInv'
<1>1. PICK f \in 1..Len(file) : f = new[p] /\ Publish(f)
  BY FileTypes DEF IInv, Local, ShuntPublish, Goto, WithNew, WithCur
<1>2. file \in Seq(Entry) /\ Len(file) \in Nat
  BY FileTypes DEF IInv
<1>3. OnlyTouches(f) /\ file'[f].ext = "pck"
  BY <1>1, <1>2, PublishEdit
<1>4. TypeOK'
  BY <1>1, <1>2, <1>3 DEF IInv, TypeOK, ShuntPublish, Goto, Labels, OnlyTouches,
                          dbVars, faultVars
<1>5. /\ cur'[p] = cur[p] /\ cur[p] \in 1..Len(file) /\ f > cur[p]
      /\ file[f].msg = MsgOf(p)
  BY <1>1, MsgAtHand DEF IInv, TypeOK, Local, ShuntPublish, Goto, WithNew, WithCur
<1>6. MsgOf(p)' = file[f].msg /\ Live(f)' /\ file'[f].msg = file[f].msg
  BY <1>1, <1>3, <1>5 DEF MsgOf, OnlyTouches, Live
<1>7. Handed(p)'
  BY <1>2, <1>3, <1>5, <1>6 DEF Handed, OnlyTouches, Live
<1>8. Local(p)'
  BY <1>5, <1>7 DEF IInv, TypeOK, ShuntPublish, Goto, Local, WithCur, WithNew, Removing
<1>9. OthersStay(p)
  BY <1>1 DEF IInv, TypeOK, ShuntPublish, Goto, OthersStay
<1>10. SafeGrows
  BY SafeSame DEF ShuntPublish
<1>11. Live(f) => Live(f)'
  BY <1>6
<1>. QED BY <1>2, <1>3, <1>4, <1>8, <1>9, <1>10, <1>11, TouchStep

LEMMA BeginEnqueueEdit ==
    ASSUME IInv, NEW p \in Procs, pc[p] \in WithCur, NEW q \in Queues,
           NEW which \in Queues, BeginEnqueue(p, q, which)
    PROVE  /\ Appended(MsgOf(p)) /\ MsgOf(p) \in Accepted /\ Grows
           /\ new' = [new EXCEPT ![p] = Len(file) + 1]
           /\ cur[p] \in 1..Len(file) /\ Len(file) \in Nat
<1>1. cur[p] \in 1..Len(file) /\ MsgOf(p) \in Msgs /\ MsgOf(p) \in Accepted
  BY MsgAtHand
<1>2. file \in Seq(Entry) /\ Len(file) \in Nat
  BY FileTypes DEF IInv
<1>3. Serves[p] \in Queues
  BY SwitchboardAssumption
<1>4. Appended(MsgOf(p))
  BY <1>1, <1>2, <1>3, AppendEdit DEF BeginEnqueue, WriteTmp, Extensions
<1>. QED BY <1>1, <1>2, <1>4, AppendGrows DEF BeginEnqueue

LEMMA WhichqType ==
    ASSUME IInv, NEW p \in Procs, pc[p] \in WithCur
    PROVE  file[cur[p]].whichq \in Queues
<1>1. file[cur[p]] \in Entry
  BY MsgAtHand, FileTypes DEF IInv
<1>. QED BY <1>1 DEF Entry

LEMMA ForwardStep ==
    ASSUME IInv, NEW p \in Procs, Forward(p), UNCHANGED unshunts
    PROVE  IInv'
<1>1. pc[p] = "process" /\ pc[p] \in WithCur
  BY DEF Forward, Goto, WithCur
<1>2. NextQ[Serves[p]] \in Queues /\ file[cur[p]].whichq \in Queues
  BY <1>1, WhichqType, SwitchboardAssumption, RunnerAssumption
<1>3. BeginEnqueue(p, NextQ[Serves[p]], file[cur[p]].whichq)
  BY DEF Forward
<1>4. /\ Appended(MsgOf(p)) /\ MsgOf(p) \in Accepted /\ Grows
      /\ new' = [new EXCEPT ![p] = Len(file) + 1]
      /\ cur[p] \in 1..Len(file) /\ Len(file) \in Nat
  BY <1>1, <1>2, <1>3, BeginEnqueueEdit
<1>5. TypeOK'
  BY <1>4 DEF IInv, TypeOK, Forward, Goto, Labels, Appended, dbVars, faultVars
<1>6. MsgOf(p)' = MsgOf(p) /\ cur'[p] = cur[p] /\ new'[p] = Len(file) + 1
  BY <1>4 DEF IInv, TypeOK, Forward, MsgOf, Appended
<1>7. Local(p)'
  BY <1>4, <1>6 DEF IInv, TypeOK, Forward, Goto, Local, Appended, WithCur, WithNew,
                    Removing
<1>8. OthersStay(p)
  BY <1>4 DEF IInv, TypeOK, Forward, Goto, OthersStay
<1>9. SafeGrows
  BY SafeSame DEF Forward
<1>10. \A g \in 1..Len(file') : g > Len(file) => file'[g].msg \in Accepted
  BY <1>4 DEF Appended
<1>. QED BY <1>4, <1>5, <1>7, <1>8, <1>9, <1>10, GrowingStep

LEMMA KeepStep ==
    ASSUME IInv, NEW p \in Procs, Keep(p), UNCHANGED unshunts
    PROVE  IInv'
<1>1. pc[p] = "process" /\ pc[p] \in WithCur
  BY DEF Keep, Goto, WithCur
<1>2. Serves[p] \in Queues /\ file[cur[p]].whichq \in Queues
  BY <1>1, WhichqType, SwitchboardAssumption, RunnerAssumption
<1>3. BeginEnqueue(p, Serves[p], file[cur[p]].whichq)
  BY DEF Keep
<1>4. /\ Appended(MsgOf(p)) /\ MsgOf(p) \in Accepted /\ Grows
      /\ new' = [new EXCEPT ![p] = Len(file) + 1]
      /\ cur[p] \in 1..Len(file) /\ Len(file) \in Nat
  BY <1>1, <1>2, <1>3, BeginEnqueueEdit
<1>5. TypeOK'
  BY <1>4 DEF IInv, TypeOK, Keep, Goto, Labels, Appended, dbVars, faultVars
<1>6. MsgOf(p)' = MsgOf(p) /\ cur'[p] = cur[p] /\ new'[p] = Len(file) + 1
  BY <1>4 DEF IInv, TypeOK, Keep, MsgOf, Appended
<1>7. Local(p)'
  BY <1>4, <1>6 DEF IInv, TypeOK, Keep, Goto, Local, Appended, WithCur, WithNew,
                    Removing
<1>8. OthersStay(p)
  BY <1>4 DEF IInv, TypeOK, Keep, Goto, OthersStay
<1>9. SafeGrows
  BY SafeSame DEF Keep
<1>10. \A g \in 1..Len(file') : g > Len(file) => file'[g].msg \in Accepted
  BY <1>4 DEF Appended
<1>. QED BY <1>4, <1>5, <1>7, <1>8, <1>9, <1>10, GrowingStep

LEMMA MissingListStep ==
    ASSUME IInv, NEW p \in Procs, MissingList(p), UNCHANGED unshunts
    PROVE  IInv'
<1>1. pc[p] = "process" /\ pc[p] \in WithCur
  BY DEF MissingList, Goto, WithCur
<1>2. "shunt" \in Queues /\ file[cur[p]].whichq \in Queues
  BY <1>1, WhichqType, SwitchboardAssumption, RunnerAssumption
<1>3. BeginEnqueue(p, "shunt", file[cur[p]].whichq)
  BY DEF MissingList
<1>4. /\ Appended(MsgOf(p)) /\ MsgOf(p) \in Accepted /\ Grows
      /\ new' = [new EXCEPT ![p] = Len(file) + 1]
      /\ cur[p] \in 1..Len(file) /\ Len(file) \in Nat
  BY <1>1, <1>2, <1>3, BeginEnqueueEdit
<1>5. TypeOK'
  BY <1>4 DEF IInv, TypeOK, MissingList, Goto, Labels, Appended, dbVars, faultVars
<1>6. MsgOf(p)' = MsgOf(p) /\ cur'[p] = cur[p] /\ new'[p] = Len(file) + 1
  BY <1>4 DEF IInv, TypeOK, MissingList, MsgOf, Appended
<1>7. Local(p)'
  BY <1>4, <1>6 DEF IInv, TypeOK, MissingList, Goto, Local, Appended, WithCur, WithNew,
                    Removing
<1>8. OthersStay(p)
  BY <1>4 DEF IInv, TypeOK, MissingList, Goto, OthersStay
<1>9. SafeGrows
  BY SafeSame DEF MissingList
<1>10. \A g \in 1..Len(file') : g > Len(file) => file'[g].msg \in Accepted
  BY <1>4 DEF Appended
<1>. QED BY <1>4, <1>5, <1>7, <1>8, <1>9, <1>10, GrowingStep

LEMMA ShuntStep ==
    ASSUME IInv, NEW p \in Procs, Shunt(p), UNCHANGED unshunts
    PROVE  IInv'
<1>1. pc[p] = "shunt" /\ pc[p] \in WithCur
  BY DEF Shunt, Goto, WithCur
<1>2. "shunt" \in Queues /\ Serves[p] \in Queues
  BY <1>1, WhichqType, SwitchboardAssumption, RunnerAssumption
<1>3. BeginEnqueue(p, "shunt", Serves[p])
  BY DEF Shunt
<1>4. /\ Appended(MsgOf(p)) /\ MsgOf(p) \in Accepted /\ Grows
      /\ new' = [new EXCEPT ![p] = Len(file) + 1]
      /\ cur[p] \in 1..Len(file) /\ Len(file) \in Nat
  BY <1>1, <1>2, <1>3, BeginEnqueueEdit
<1>5. TypeOK'
  BY <1>4 DEF IInv, TypeOK, Shunt, Goto, Labels, Appended, dbVars, faultVars
<1>6. MsgOf(p)' = MsgOf(p) /\ cur'[p] = cur[p] /\ new'[p] = Len(file) + 1
  BY <1>4 DEF IInv, TypeOK, Shunt, MsgOf, Appended
<1>7. Local(p)'
  BY <1>4, <1>6 DEF IInv, TypeOK, Shunt, Goto, Local, Appended, WithCur, WithNew,
                    Removing
<1>8. OthersStay(p)
  BY <1>4 DEF IInv, TypeOK, Shunt, Goto, OthersStay
<1>9. SafeGrows
  BY SafeSame DEF Shunt
<1>10. \A g \in 1..Len(file') : g > Len(file) => file'[g].msg \in Accepted
  BY <1>4 DEF Appended
<1>. QED BY <1>4, <1>5, <1>7, <1>8, <1>9, <1>10, GrowingStep

LEMMA UnshuntEmitStep ==
    ASSUME IInv, NEW p \in Procs, UnshuntEmit(p)
    PROVE  IInv'
<1>1. pc[p] = "emit" /\ pc[p] \in WithCur
  BY DEF UnshuntEmit, Goto, WithCur
<1>2. file[cur[p]].whichq \in Queues /\ file[cur[p]].whichq \in Queues
  BY <1>1, WhichqType, SwitchboardAssumption, RunnerAssumption
<1>3. BeginEnqueue(p, file[cur[p]].whichq, file[cur[p]].whichq)
  BY DEF UnshuntEmit
<1>4. /\ Appended(MsgOf(p)) /\ MsgOf(p) \in Accepted /\ Grows
      /\ new' = [new EXCEPT ![p] = Len(file) + 1]
      /\ cur[p] \in 1..Len(file) /\ Len(file) \in Nat
  BY <1>1, <1>2, <1>3, BeginEnqueueEdit
<1>5. TypeOK'
  BY <1>4 DEF IInv, TypeOK, UnshuntEmit, Goto, Labels, Appended, dbVars, faultVars
<1>6. MsgOf(p)' = MsgOf(p) /\ cur'[p] = cur[p] /\ new'[p] = Len(file) + 1
  BY <1>4 DEF IInv, TypeOK, UnshuntEmit, MsgOf, Appended
<1>7. Local(p)'
  BY <1>4, <1>6 DEF IInv, TypeOK, UnshuntEmit, Goto, Local, Appended, WithCur, WithNew,
                    Removing
<1>8. OthersStay(p)
  BY <1>4 DEF IInv, TypeOK, UnshuntEmit, Goto, OthersStay
<1>9. SafeGrows
  BY SafeSame DEF UnshuntEmit
<1>10. \A g \in 1..Len(file') : g > Len(file) => file'[g].msg \in Accepted
  BY <1>4 DEF Appended
<1>. QED BY <1>4, <1>5, <1>7, <1>8, <1>9, <1>10, GrowingStep

LEMMA AcceptStep ==
    ASSUME IInv, NEW m \in Msgs, Accept(m)
    PROVE  IInv'
<1>1. file \in Seq(Entry) /\ Len(file) \in Nat
  BY FileTypes DEF IInv
<1>2. InQ[m] \in Queues /\ "in" \in Queues /\ "pck" \in Extensions
  BY SwitchboardAssumption, QueueFlowAssumption DEF Extensions
<1>3. Appended(m) /\ file'[Len(file) + 1].ext = "pck"
  BY <1>1, <1>2, AppendEdit DEF Accept
<1>4. Grows
  BY <1>1, <1>3, AppendGrows
<1>5. TypeOK'
  BY <1>1, <1>3 DEF IInv, TypeOK, Accept, Appended, procVars, dbVars, faultVars
<1>6. SafeGrows
  BY SafeSame DEF Accept
<1>7. ASSUME NEW q \in Procs PROVE Local(q)'
  BY <1>4, <1>6, LocalStays DEF IInv, Accept, procVars
<1>8. \A g \in 1..Len(file') : g > Len(file) => Live(g)'
  BY <1>1, <1>3 DEF Appended, Live
<1>. QED BY <1>4, <1>5, <1>6, <1>7, <1>8, NoLossStays DEF IInv

-------------------------------------------------------------------------------
(* The steps that remove an entry.  The message of the entry has been      *)
(* handed on; who relied on this entry relies on what it was handed to.    *)

LEMMA RemovingStep ==
    ASSUME IInv, NEW p \in Procs, pc[p] \in Removing, Finish(cur[p]), SafeGrows,
           TypeOK', OthersStay(p), Local(p)'
    PROVE  IInv'
<1>1. /\ file \in Seq(Entry) /\ Len(file) \in Nat /\ cur[p] \in 1..Len(file)
      /\ MsgOf(p) \in Msgs
      /\ \A q \in Procs : cur[q] \in 0..Len(file) /\ new[q] \in 0..Len(file)
  BY FileTypes, MsgAtHand DEF IInv, Removing, WithCur
<1>2. OnlyTouches(cur[p])
  <2>1. PICK f \in 1..Len(file) : f = cur[p] /\ Finish(f)
    BY <1>1
  <2>. QED BY <1>1, <2>1, FinishEdit
<1>3. /\ file' \in Seq(Entry) /\ Len(file') = Len(file)
      /\ \A g \in 1..Len(file) : file'[g].msg = file[g].msg
      /\ \A g \in 1..Len(file) : g # cur[p] /\ Live(g) => Live(g)'
  BY <1>1, <1>2 DEF OnlyTouches, Live
<1>4. \/ Safe(MsgOf(p))
      \/ \E g \in 1..Len(file) : g > cur[p] /\ file[g].msg = MsgOf(p) /\ Live(g)
  BY DEF IInv, Local, Handed
<1>5. ASSUME NEW m \in Msgs, NEW g \in 1..Len(file), file[g].msg = m, Live(g)
      PROVE  \/ Safe(m)'
             \/ \E h \in 1..Len(file) : h >= g /\ file[h].msg = m /\ Live(h)'
  <2>1. CASE g # cur[p]
    BY <2>1, <1>1, <1>3, <1>5
  <2>2. CASE g = cur[p]
    <3>1. MsgOf(p) = m
      BY <2>2, <1>5 DEF MsgOf
    <3>2. CASE Safe(m)
      BY <3>2 DEF SafeGrows
    <3>3. ASSUME NEW h \in 1..Len(file), h > cur[p], file[h].msg = m, Live(h)
          PROVE  h >= g /\ file[h].msg = m /\ Live(h)'
      BY <2>2, <3>3, <1>1, <1>3
    <3>. QED BY <3>1, <3>2, <3>3, <1>4
  <2>. QED BY <2>1, <2>2
<1>6. ASSUME NEW q \in Procs PROVE Local(q)'
  <2>1. CASE q = p
    BY <2>1
  <2>2. CASE q # p
    <3>1. pc'[q] = pc[q] /\ cur'[q] = cur[q] /\ new'[q] = new[q]
      BY <2>2 DEF OthersStay
    <3>2. WithNew \subseteq WithCur /\ Removing \subseteq WithCur
      BY DEF WithNew, WithCur, Removing
    <3>3. pc[q] \in WithCur =>
             cur[q] \in 1..Len(file) /\ MsgOf(q)' = MsgOf(q) /\ MsgOf(q) \in Msgs
      BY <3>1, <1>1, <1>3, MsgAtHand DEF MsgOf
    <3>4. pc'[q] \in WithNew => new'[q] > cur'[q] /\ file'[new'[q]].msg = MsgOf(q)'
      BY <3>1, <3>2, <3>3, <1>1, <1>3 DEF IInv, Local
    <3>5. ASSUME pc[q] \in Removing PROVE Handed(q)'
      <4>1. PICK m \in Msgs : m = MsgOf(q) /\ m = MsgOf(q)'
        BY <3>2, <3>3, <3>5
      <4>2. Safe(m)' => Handed(q)'
        BY <4>1 DEF Handed
      <4>3. CASE Safe(m)
        BY <4>2, <4>3 DEF SafeGrows
      <4>4. ASSUME NEW g \in 1..Len(file), g > cur[q], file[g].msg = m, Live(g)
            PROVE  Handed(q)'
        <5>1. ASSUME NEW h \in 1..Len(file), h >= g, file[h].msg = m, Live(h)'
              PROVE  Handed(q)'
          BY <5>1, <4>1, <4>4, <3>1, <3>2, <3>3, <3>5, <1>1, <1>3 DEF Handed
        <5>. QED BY <5>1, <4>2, <4>4, <1>5
      <4>. QED BY <4>1, <4>3, <4>4, <3>5 DEF IInv, Local, Handed
    <3>. QED BY <3>1, <3>2, <3>3, <3>4, <3>5 DEF IInv, Local
  <2>. QED BY <2>1, <2>2
<1>7. ASSUME NEW m \in Accepted PROVE OnDisk(m)' \/ Safe(m)'
  <2>1. m \in Msgs
    BY <1>1, EntryHasMsg DEF Accepted
  <2>2. CASE Safe(m)
    BY <2>1, <2>2 DEF SafeGrows
  <2>3. ASSUME NEW g \in 1..Len(file), file[g].msg = m, Live(g)
        PROVE  OnDisk(m)' \/ Safe(m)'
    <3>1. ASSUME NEW h \in 1..Len(file), file[h].msg = m, Live(h)' PROVE OnDisk(m)'
      BY <3>1, <1>3 DEF OnDisk
    <3>. QED BY <2>1, <2>3, <3>1, <1>5
  <2>. QED BY <2>2, <2>3 DEF IInv, NoLoss, Safe, OnDisk
<1>8. Accepted' \subseteq Accepted
  BY <1>3 DEF Accepted
<1>9. NoLoss'
  BY <1>7, <1>8 DEF NoLoss, Safe
<1>. QED BY <1>6, <1>9 DEF IInv

LEMMA FinishEntryStep ==
    ASSUME IInv, NEW p \in Procs, FinishEntry(p), UNCHANGED unshunts
    PROVE  IInv'
<1>1. PICK f \in 1..Len(file) : f = cur[p] /\ Finish(f)
  BY MsgAtHand DEF FinishEntry, Goto, WithCur
<1>2. file' \in Seq(Entry) /\ Len(file') = Len(file)
  BY <1>1, FinishEdit, FileTypes DEF IInv, OnlyTouches
<1>3. TypeOK'
  BY <1>2 DEF IInv, TypeOK, FinishEntry, Goto, Labels, dbVars, faultVars
<1>4. pc[p] \in Removing /\ Local(p)'
  BY <1>1 DEF IInv, TypeOK, FinishEntry, Goto, Local, WithCur, WithNew, Removing
<1>5. OthersStay(p)
  BY DEF IInv, TypeOK, FinishEntry, Goto, OthersStay
<1>6. SafeGrows
  BY SafeSame DEF FinishEntry
<1>. QED BY <1>3, <1>4, <1>5, <1>6, RemovingStep DEF FinishEntry

LEMMA ShuntFinishStep ==
    ASSUME IInv, NEW p \in Procs, ShuntFinish(p), UNCHANGED unshunts
    PROVE  IInv'
<1>1. PICK f \in 1..Len(file) : f = cur[p] /\ Finish(f)
  BY MsgAtHand DEF ShuntFinish, Goto, WithCur
<1>2. file' \in Seq(Entry) /\ Len(file') = Len(file)
  BY <1>1, FinishEdit, FileTypes DEF IInv, OnlyTouches
<1>3. TypeOK'
  BY <1>2 DEF IInv, TypeOK, ShuntFinish, Goto, Labels, Rollback, faultVars, Release
<1>4. pc[p] \in Removing /\ Local(p)'
  BY <1>1 DEF IInv, TypeOK, ShuntFinish, Goto, Local, WithCur, WithNew, Removing, Release
<1>5. OthersStay(p)
  BY DEF IInv, TypeOK, ShuntFinish, Goto, OthersStay, Release
<1>6. SafeGrows
  BY SafeRollback DEF IInv, ShuntFinish
<1>. QED BY <1>3, <1>4, <1>5, <1>6, RemovingStep DEF ShuntFinish

LEMMA UnshuntFinishStep ==
    ASSUME IInv, NEW p \in Procs, UnshuntFinish(p)
    PROVE  IInv'
<1>1. PICK f \in 1..Len(file) : f = cur[p] /\ Finish(f)
  BY MsgAtHand DEF UnshuntFinish, Goto, WithCur
<1>2. file' \in Seq(Entry) /\ Len(file') = Len(file)
  BY <1>1, FinishEdit, FileTypes DEF IInv, OnlyTouches
<1>3. TypeOK'
  BY <1>2 DEF IInv, TypeOK, UnshuntFinish, Goto, Labels, dbVars, faultVars, Release
<1>4. pc[p] \in Removing /\ Local(p)'
  BY <1>1 DEF IInv, TypeOK, UnshuntFinish, Goto, Local, WithCur, WithNew, Removing, Release
<1>5. OthersStay(p)
  BY DEF IInv, TypeOK, UnshuntFinish, Goto, OthersStay, Release
<1>6. SafeGrows
  BY SafeSame DEF UnshuntFinish
<1>. QED BY <1>3, <1>4, <1>5, <1>6, RemovingStep DEF UnshuntFinish

-------------------------------------------------------------------------------
LEMMA StutterStep ==
    ASSUME IInv, UNCHANGED vars
    PROVE  IInv'
<1>1. file \in Seq(Entry) /\ Len(file) \in Nat
  BY FileTypes DEF IInv
<1>2. TypeOK'
  BY DEF IInv, TypeOK, vars, procVars, dbVars, faultVars
<1>3. Grows /\ SafeGrows
  BY <1>1, SameFileGrows, SafeSame DEF vars
<1>4. ASSUME NEW q \in Procs PROVE Local(q)'
  BY <1>3, LocalStays DEF IInv, vars, procVars
<1>. QED BY <1>1, <1>2, <1>3, <1>4, NoLossStays DEF IInv, vars

(* Initially and at every step.                                            *)
LEMMA Initially == Init => IInv
BY DEF Init, SwitchboardInit, RunnerInit, IInv, TypeOK, Local, NoLoss, Accepted,
       Labels, WithCur, WithNew, Removing

LEMMA Inductive == IInv /\ [Next]_vars => IInv'
<1>. SUFFICES ASSUME IInv, [Next]_vars PROVE IInv'
  OBVIOUS
<1>1. ASSUME NEW m \in Msgs, Accept(m) PROVE IInv'
  BY <1>1, AcceptStep
<1>2. ASSUME NEW p \in Procs, StartRunner(p) \/ Recovery(p) \/ Iteration(p),
             UNCHANGED unshunts
      PROVE  IInv'
  BY <1>2, StartRunnerStep, RecoverPreserveStep, RecoverBeginStep, RecoverEndStep,
     RecoverMoveStep, RecoveredStep, ListFilesStep, EndOfListStep,
     DequeueStep, LoadStep, BadPreserveStep, ForwardStep,
     KeepStep, MissingListStep, DiscardStep, HoldStep,
     FailStep, PublishNewStep, FinishEntryStep, LeaveTryStep,
     ShuntStep, ShuntFailsStep, ShuntPublishStep, ShuntFinishStep,
     PreserveStep, CommitStep, CheckStep, LoopStep,
     LeaveLoopStep
     DEF Recovery, Iteration, Dispose
<1>3. ASSUME NEW p \in Procs, Unshunt(p) PROVE IInv'
  BY <1>3, UnshuntLoadStep, UnshuntEmitStep, UnshuntDiscardStep, UnshuntFinishStep,
     UnshuntEndStep DEF Unshunt
<1>4. ASSUME NEW p \in Procs, UnshuntStart(p) PROVE IInv'
  BY <1>4, UnshuntStartStep
<1>5. ASSUME NEW p \in Procs, Fault(p) PROVE IInv'
  BY <1>5, CrashStep, InterruptInsideStep, InterruptDequeueStep, InterruptOutsideStep DEF Fault, Interrupt
<1>6. CASE UNCHANGED vars
  BY <1>6, StutterStep
<1>. QED BY <1>1, <1>2, <1>3, <1>4, <1>5, <1>6 DEF Next, Work, Running

THEOREM Invariance == Spec => []IInv
BY Initially, Inductive, PTL DEF Spec

(* The variables keep the values the code can give them.                   *)
THEOREM TypeCorrect == Spec => []TypeOK
<1>1. IInv => TypeOK
  BY DEF IInv
<1>. QED BY <1>1, Invariance, PTL

(* However the processes interleave, die, are interrupted and recover: an  *)
(* accepted message is in a queue directory, has been disposed of or is    *)
(* held, or the transaction that held it is open or was rolled back.       *)
THEOREM NoMessageIsLost == Spec => []NoLoss
<1>1. IInv => NoLoss
  BY DEF IInv
<1>. QED BY <1>1, Invariance, PTL

-------------------------------------------------------------------------------
(* A transaction holds only messages that can be held.                     *)
OnlyHolds ==
    /\ \A m \in dropped : "hold" \in Fate[m]
    /\ \A p \in Procs : \A m \in txn[p] : "hold" \in Fate[m]

LEMMA OnlyHoldsInductive ==
    ASSUME IInv, OnlyHolds, [Next]_vars
    PROVE  OnlyHolds'
<1>1. ASSUME UNCHANGED <<txn, dropped>> PROVE OnlyHolds'
  BY <1>1 DEF OnlyHolds
<1>2. ASSUME NEW p \in Procs, Rollback(p) PROVE OnlyHolds'
  BY <1>2 DEF OnlyHolds, Rollback, IInv, TypeOK
<1>3. ASSUME NEW p \in Procs, Commit(p) PROVE OnlyHolds'
  BY <1>3 DEF OnlyHolds, Commit, IInv, TypeOK
<1>4. ASSUME NEW p \in Procs, Hold(p) PROVE OnlyHolds'
  BY <1>4 DEF OnlyHolds, Hold, IInv, TypeOK
<1>5. ASSUME NEW p \in Procs, Recovery(p) \/ StartRunner(p) \/ UnshuntStart(p)
      PROVE  OnlyHolds'
  BY <1>5, <1>1 DEF Recovery, StartRunner, UnshuntStart, RecoverPreserve, RecoverBegin,
                    RecoverEnd, RecoverMove, Recovered, dbVars
<1>6. ASSUME NEW p \in Procs, Dispose(p) PROVE OnlyHolds'
  BY <1>6, <1>1, <1>4 DEF Dispose, Forward, Keep, MissingList, Discard, Fail, dbVars
<1>7. ASSUME NEW p \in Procs, Iteration(p) PROVE OnlyHolds'
  BY <1>7, <1>1, <1>2, <1>3, <1>6
     DEF Iteration, ListFiles, EndOfList, Dequeue, Load, BadPreserve, PublishNew,
         FinishEntry, LeaveTry, Shunt, ShuntFails, ShuntPublish, ShuntFinish, Preserve,
         Check, Loop, LeaveLoop, Exit, dbVars
<1>8. ASSUME NEW p \in Procs, Unshunt(p) PROVE OnlyHolds'
  BY <1>8, <1>1, <1>2 DEF Unshunt, UnshuntLoad, UnshuntEmit, UnshuntDiscard,
                          UnshuntFinish, UnshuntEnd, Exit, dbVars
<1>9. ASSUME NEW p \in Procs, Fault(p) PROVE OnlyHolds'
  BY <1>9, <1>1, <1>2 DEF Fault, Crash, Interrupt, InterruptInside, InterruptDequeue,
                          InterruptOutside, Exit
<1>10. ASSUME NEW m \in Msgs, Accept(m) PROVE OnlyHolds'
  BY <1>10, <1>1 DEF Accept, dbVars
<1>11. CASE UNCHANGED vars
  BY <1>11, <1>1 DEF vars, dbVars
<1>. QED BY <1>5, <1>7, <1>8, <1>9, <1>10, <1>11 DEF Next, Work, Running

(* A message that is never held is never lost at all: at every moment it   *)
(* is in a queue directory or has been disposed of.                        *)
THEOREM WhatIsNotHeldIsNeverLost == Spec => []NeverLost
<1>1. Init => OnlyHolds
  BY DEF Init, RunnerInit, OnlyHolds
<1>2. IInv /\ OnlyHolds /\ [Next]_vars => OnlyHolds'
  BY OnlyHoldsInductive
<1>3. IInv /\ OnlyHolds => NeverLost
  BY DEF IInv, OnlyHolds, NoLoss, NeverLost, InTransaction
<1>. QED BY <1>1, <1>2, <1>3, Invariance, PTL DEF Spec

-----------------------------------------------------------------------------
(***************************************************************************)
(* More theorems about QueueFlow: that the recovery of backup files        *)
(* forgets none and tries none for ever; that the queues implement         *)
(* Custody; and that duplicates are paid for by faults.                    *)
(***************************************************************************)

(* Entries are owned by the process that serves their queue; the count in  *)
(* the metadata keeps up with the times an entry has been tried, and an    *)
(* entry whose count has reached the limit is not queued.                  *)
EntryOK(f) ==
    /\ \A p \in Procs : file[f].owner = p => file[f].q = Serves[p]
    /\ file[f].tries <= MaxBakCount
    /\ file[f].ext \in {"tmp", "pck"} => /\ file[f].tries <= file[f].bak
                                         /\ file[f].bak < MaxBakCount
    /\ file[f].ext = "bak" => file[f].tries <= file[f].bak + 1

Entries == \A f \in 1..Len(file) : EntryOK(f)

(* What a process has on its list, at hand and in the making is its own:   *)
(* backup files while it recovers, queued entries later; the entry at hand *)
(* is a backup file until it has been handed on.  And a runner that is up  *)
(* knows all of its backup files.                                          *)
Recovering == {"recover", "rewrite", "reinstate"}
Untouched == {"rewrite", "reinstate", "load", "process", "emit", "publish"}

OwnList(p) ==
    \A f \in todo[p] : /\ file[f].owner = p
                       /\ file[f].ext = IF pc[p] \in Recovering THEN "bak" ELSE "pck"

OwnCur(p) ==
    /\ pc[p] \in WithCur =>
         /\ file[cur[p]].owner = p /\ cur[p] \notin todo[p]
         /\ file[cur[p]].ext \in {"pck", "bak", "gone"}
         /\ pc[p] \in Untouched => file[cur[p]].ext = "bak"
    /\ pc[p] = "reinstate" => file[cur[p]].tries <= file[cur[p]].bak
    /\ pc[p] = "emit" => ~IsRunner(p)

OwnNew(p) ==
    pc[p] \in WithNew =>
        /\ file[new[p]].ext = "tmp"
        /\ \A r \in Procs \ {p} : pc[r] \in WithNew => new[r] # new[p]

Knows(p) ==
    IsRunner(p) /\ pc[p] # "off" =>
        \A f \in 1..Len(file) :
            file[f].owner = p /\ file[f].ext = "bak" =>
                \/ pc[p] \in Recovering /\ f \in todo[p]
                \/ pc[p] \in Busy \cup {"rewrite", "reinstate"} /\ f = cur[p]

Task(p) == OwnList(p) /\ OwnCur(p) /\ OwnNew(p) /\ Knows(p)

RInv == IInv /\ Entries /\ \A p \in Procs : Task(p)

-------------------------------------------------------------------------------
(* What the operations of the switchboard do to the fields of an entry.    *)

(* Entry f keeps its queues, its owner, its count and its history.         *)
Keeps(f) == /\ file'[f].q = file[f].q /\ file'[f].owner = file[f].owner
            /\ file'[f].whichq = file[f].whichq
            /\ file'[f].bak = file[f].bak /\ file'[f].tries = file[f].tries

LEMMA PublishFields ==
    ASSUME file \in Seq(Entry), NEW f \in 1..Len(file), Publish(f)
    PROVE  OnlyTouches(f) /\ Keeps(f) /\ file'[f].ext = "pck"
<1> DEFINE e == [file[f] EXCEPT !.ext = "pck"]
<1>1. file[f] \in Entry
  OBVIOUS
<1>2. /\ e \in Entry /\ e.msg = file[f].msg /\ e.ext = "pck"
      /\ e.q = file[f].q /\ e.owner = file[f].owner /\ e.whichq = file[f].whichq
      /\ e.bak = file[f].bak /\ e.tries = file[f].tries
  BY <1>1 DEF Entry, Extensions
<1>3. file' = [file EXCEPT ![f] = e]
  BY <1>1 DEF Publish
<1>4. OnlyTouches(f) /\ file'[f] = e
  BY <1>2, <1>3, Edit
<1>. QED BY <1>2, <1>4 DEF Keeps

LEMMA ClaimFields ==
    ASSUME file \in Seq(Entry), NEW f \in 1..Len(file), Claim(f)
    PROVE  /\ OnlyTouches(f) /\ file'[f].ext = "bak"
           /\ file'[f].q = file[f].q /\ file'[f].owner = file[f].owner
           /\ file'[f].whichq = file[f].whichq
           /\ file'[f].bak = file[f].bak /\ file'[f].tries = file[f].tries + 1
<1> DEFINE e == [file[f] EXCEPT !.ext = "bak", !.tries = @ + 1]
<1>0. file[f] \in Entry
  OBVIOUS
<1>1. file[f] \in Entry /\ file[f].tries + 1 \in Nat
  BY <1>0 DEF Entry
<1>2. /\ e \in Entry /\ e.msg = file[f].msg /\ e.ext = "bak"
      /\ e.q = file[f].q /\ e.owner = file[f].owner /\ e.whichq = file[f].whichq
      /\ e.bak = file[f].bak /\ e.tries = file[f].tries + 1
  BY <1>1 DEF Entry, Extensions
<1>3. file' = [file EXCEPT ![f] = e]
  BY <1>1 DEF Claim
<1>4. OnlyTouches(f) /\ file'[f] = e
  BY <1>2, <1>3, Edit
<1>. QED BY <1>2, <1>4

LEMMA BeginRewriteFields ==
    ASSUME file \in Seq(Entry), NEW f \in 1..Len(file), BeginRewrite(f)
    PROVE  OnlyTouches(f) /\ Keeps(f) /\ file'[f].ext = file[f].ext
<1> DEFINE e == [file[f] EXCEPT !.whole = FALSE]
<1>1. file[f] \in Entry
  OBVIOUS
<1>2. /\ e \in Entry /\ e.msg = file[f].msg /\ e.ext = file[f].ext
      /\ e.q = file[f].q /\ e.owner = file[f].owner /\ e.whichq = file[f].whichq
      /\ e.bak = file[f].bak /\ e.tries = file[f].tries
  BY <1>1 DEF Entry, Extensions
<1>3. file' = [file EXCEPT ![f] = e]
  BY <1>1 DEF BeginRewrite
<1>4. OnlyTouches(f) /\ file'[f] = e
  BY <1>2, <1>3, Edit
<1>. QED BY <1>2, <1>4 DEF Keeps

LEMMA EndRewriteFields ==
    ASSUME file \in Seq(Entry), NEW f \in 1..Len(file), EndRewrite(f)
    PROVE  /\ OnlyTouches(f) /\ file'[f].ext = file[f].ext
           /\ file'[f].q = file[f].q /\ file'[f].owner = file[f].owner
           /\ file'[f].whichq = file[f].whichq
           /\ file'[f].bak = file[f].bak + 1 /\ file'[f].tries = file[f].tries
<1> DEFINE e == [file[f] EXCEPT !.whole = TRUE, !.bak = @ + 1]
<1>0. file[f] \in Entry
  OBVIOUS
<1>1. file[f] \in Entry /\ file[f].bak + 1 \in Nat
  BY <1>0 DEF Entry
<1>2. /\ e \in Entry /\ e.msg = file[f].msg /\ e.ext = file[f].ext
      /\ e.q = file[f].q /\ e.owner = file[f].owner /\ e.whichq = file[f].whichq
      /\ e.bak = file[f].bak + 1 /\ e.tries = file[f].tries
  BY <1>1 DEF Entry, Extensions
<1>3. file' = [file EXCEPT ![f] = e]
  BY <1>1 DEF EndRewrite
<1>4. OnlyTouches(f) /\ file'[f] = e
  BY <1>2, <1>3, Edit
<1>. QED BY <1>2, <1>4

LEMMA FinishFields ==
    ASSUME file \in Seq(Entry), NEW f \in 1..Len(file), Finish(f)
    PROVE  /\ OnlyTouches(f) /\ Keeps(f)
           /\ file'[f].ext = IF OnQueue(f) THEN "gone" ELSE file[f].ext
<1> DEFINE e == [file[f] EXCEPT !.ext = "gone"]
<1>1. file[f] \in Entry
  OBVIOUS
<1>2. /\ e \in Entry /\ e.msg = file[f].msg /\ e.ext = "gone"
      /\ e.q = file[f].q /\ e.owner = file[f].owner /\ e.whichq = file[f].whichq
      /\ e.bak = file[f].bak /\ e.tries = file[f].tries
  BY <1>1 DEF Entry, Extensions
<1>3. CASE OnQueue(f)
  <2>1. file' = [file EXCEPT ![f] = e]
    BY <1>3 DEF Finish
  <2>2. OnlyTouches(f) /\ file'[f] = e
    BY <1>2, <2>1, Edit
  <2>. QED BY <1>2, <1>3, <2>2 DEF Keeps
<1>4. CASE ~OnQueue(f)
  BY <1>4 DEF Finish, OnlyTouches, Keeps
<1>. QED BY <1>3, <1>4

(* The entry has been moved to the bad queue.                              *)
Buried(f) == /\ file'[f].ext = "psv" /\ file'[f].q = "bad"
             /\ file'[f].owner = Nobody /\ file'[f].tries = file[f].tries
             /\ file'[f].whichq = file[f].whichq

LEMMA FinishPreserveFields ==
    ASSUME file \in Seq(Entry), NEW f \in 1..Len(file), FinishPreserve(f)
    PROVE  /\ OnlyTouches(f)
           /\ IF OnQueue(f) THEN Buried(f) ELSE file' = file
<1> DEFINE e == [file[f] EXCEPT !.ext = "psv", !.q = "bad", !.owner = Nobody]
<1>1. file[f] \in Entry
  OBVIOUS
<1>2. /\ e \in Entry /\ e.msg = file[f].msg /\ e.ext = "psv"
      /\ e.q = "bad" /\ e.owner = Nobody /\ e.tries = file[f].tries
      /\ e.whichq = file[f].whichq
  BY <1>1, SwitchboardAssumption DEF Entry, Extensions
<1>3. CASE OnQueue(f)
  <2>1. file' = [file EXCEPT ![f] = e]
    BY <1>3 DEF FinishPreserve
  <2>2. OnlyTouches(f) /\ file'[f] = e
    BY <1>2, <2>1, Edit
  <2>. QED BY <1>2, <1>3, <2>2 DEF Buried
<1>4. CASE ~OnQueue(f)
  BY <1>4 DEF FinishPreserve, OnlyTouches
<1>. QED BY <1>3, <1>4

LEMMA ReinstateFields ==
    ASSUME file \in Seq(Entry), NEW f \in 1..Len(file), Reinstate(f), OnQueue(f)
    PROVE  /\ OnlyTouches(f)
           /\ IF file[f].bak >= MaxBakCount
                THEN Buried(f)
                ELSE Keeps(f) /\ file'[f].ext = "pck"
<1>1. CASE file[f].bak >= MaxBakCount
  BY <1>1, FinishPreserveFields DEF Reinstate
<1>2. CASE ~(file[f].bak >= MaxBakCount)
  BY <1>2, PublishFields DEF Reinstate, Publish
<1>. QED BY <1>1, <1>2

(* The new entry, at the end of the sequence.                              *)
Added(q, m, o, e) ==
    /\ Appended(m)
    /\ file'[Len(file) + 1].ext = e /\ file'[Len(file) + 1].q = q
    /\ file'[Len(file) + 1].owner = o
    /\ file'[Len(file) + 1].bak = 0 /\ file'[Len(file) + 1].tries = 0

LEMMA AppendFields ==
    ASSUME file \in Seq(Entry), NEW q \in Queues, NEW m \in Msgs,
           NEW o \in OwnersOf(q), NEW which \in Queues, NEW src \in Queues,
           NEW e \in Extensions,
           file' = Append(file, NewEntry(q, m, o, which, src, e))
    PROVE  Added(q, m, o, e) /\ file'[Len(file) + 1].whichq = which
<1> DEFINE n == NewEntry(q, m, o, which, src, e)
<1>1. o \in Procs \cup {Nobody}
  BY DEF OwnersOf
<1>2. /\ n \in Entry /\ n.msg = m /\ n.ext = e /\ n.q = q /\ n.owner = o
      /\ n.bak = 0 /\ n.tries = 0 /\ n.whichq = which
  BY <1>1 DEF NewEntry, Entry
<1>3. Appended(m) /\ file'[Len(file) + 1] = n
  BY <1>2, AppendProperties DEF Appended
<1>. QED BY <1>2, <1>3 DEF Added

-------------------------------------------------------------------------------
(* A step of p is no concern of the other processes when the entries it    *)
(* changes are p's own, or the one p is making.                            *)
OthersMove(p) ==
    \A q \in Procs \ {p} : /\ pc'[q] = pc[q] /\ cur'[q] = cur[q]
                           /\ new'[q] = new[q] /\ todo'[q] = todo[q]

(* What p is making was just begun, or p was making it before.             *)
NewIsOwn(p) ==
    pc'[p] \in WithNew => \/ pc[p] \in WithNew /\ new'[p] = new[p]
                          \/ new'[p] > Len(file)

Meddles(p, g) ==
    \/ file'[g] = file[g]
    \/ /\ file[g].owner = p /\ file[g].ext # "tmp"
       /\ file'[g].owner \in {p, Nobody} /\ file'[g].ext # "tmp"
    \/ pc[p] \in WithNew /\ g = new[p] /\ file'[g].ext = "pck"

LEMMA OthersTask ==
    ASSUME RInv, NEW p \in Procs, NEW q \in Procs, q # p,
           OthersMove(p), NewIsOwn(p), Len(file') \in Nat, Len(file') >= Len(file),
           \A g \in 1..Len(file) : Meddles(p, g),
           \A g \in 1..Len(file') : g > Len(file) => file'[g].ext # "bak"
    PROVE  Task(q)'
<1>1. /\ pc'[q] = pc[q] /\ cur'[q] = cur[q] /\ new'[q] = new[q] /\ todo'[q] = todo[q]
      /\ Task(q) /\ Task(p)
  BY DEF OthersMove, RInv
<1>2. /\ Len(file) \in Nat /\ todo[q] \subseteq 1..Len(file)
      /\ pc[q] \in WithCur => cur[q] \in 1..Len(file)
      /\ new[q] \in 0..Len(file)
  BY FileTypes, MsgAtHand DEF RInv, IInv
<1>3. pc[q] \in WithNew => new[q] \in 1..Len(file)
  BY <1>2 DEF RInv, IInv, Local, WithNew, WithCur
<1>4. ASSUME NEW g \in 1..Len(file), file[g].owner = q, file[g].ext # "tmp"
      PROVE  file'[g] = file[g]
  BY <1>1, <1>4 DEF Meddles, Task, OwnNew
<1>5. OwnList(q)'
  BY <1>1, <1>2, <1>4 DEF Task, OwnList
<1>6. OwnCur(q)'
  <2>1. pc[q] \in WithCur => file'[cur[q]] = file[cur[q]]
    BY <1>1, <1>2, <1>4 DEF Task, OwnCur
  <2>. QED BY <1>1, <2>1 DEF Task, OwnCur, WithCur
<1>7. OwnNew(q)'
  <2>1. SUFFICES ASSUME pc[q] \in WithNew
                 PROVE  /\ file'[new[q]].ext = "tmp"
                        /\ \A r \in Procs \ {q} : pc'[r] \in WithNew => new'[r] # new[q]
    BY <1>1 DEF OwnNew
  <2>2. file[new[q]].ext = "tmp" /\ (pc[p] \in WithNew => new[p] # new[q])
    BY <2>1, <1>1 DEF Task, OwnNew
  <2>3. file'[new[q]].ext = "tmp"
    BY <2>1, <2>2, <1>3 DEF Meddles
  <2>4. ASSUME NEW r \in Procs \ {q}, pc'[r] \in WithNew PROVE new'[r] # new[q]
    <3>1. CASE r = p
      BY <3>1, <2>1, <2>2, <2>4, <1>2, <1>3 DEF NewIsOwn
    <3>2. CASE r # p
      BY <3>2, <2>1, <2>4, <1>1 DEF OthersMove, Task, OwnNew
    <3>. QED BY <3>1, <3>2
  <2>. QED BY <2>3, <2>4
<1>8. Knows(q)'
  <2>1. SUFFICES ASSUME IsRunner(q), pc[q] # "off", NEW g \in 1..Len(file'),
                        file'[g].owner = q, file'[g].ext = "bak"
                 PROVE  \/ pc[q] \in Recovering /\ g \in todo[q]
                        \/ pc[q] \in Busy \cup {"rewrite", "reinstate"} /\ g = cur[q]
    BY <1>1 DEF Knows, IsRunner
  <2>2. g \in 1..Len(file)
    BY <2>1, <1>2
  <2>3. file'[g] = file[g]
    BY <2>1, <2>2, SwitchboardAssumption DEF Meddles
  <2>. QED BY <2>1, <2>2, <2>3, <1>1 DEF Task, Knows
<1>. QED BY <1>5, <1>6, <1>7, <1>8 DEF Task

(* The three kinds of steps: the entries stay as they are, one of them     *)
(* changes, one is added.                                                  *)
Rest == Entries /\ \A q \in Procs : Task(q)

LEMMA FilesStay ==
    ASSUME RInv, NEW p \in Procs, file' = file, OthersMove(p), NewIsOwn(p), Task(p)'
    PROVE  Rest'
<1>1. Len(file) \in Nat
  BY FileTypes DEF RInv, IInv
<1>2. ASSUME NEW q \in Procs PROVE Task(q)'
  BY <1>1, OthersTask DEF Meddles
<1>. QED BY <1>2 DEF Rest, RInv, Entries, EntryOK

LEMMA FileChanges ==
    ASSUME RInv, NEW p \in Procs, NEW f \in 1..Len(file), OnlyTouches(f),
           Meddles(p, f), EntryOK(f)', OthersMove(p), NewIsOwn(p), Task(p)'
    PROVE  Rest'
<1>1. Len(file) \in Nat
  BY FileTypes DEF RInv, IInv
<1>2. ASSUME NEW q \in Procs PROVE Task(q)'
  BY <1>1, OthersTask DEF Meddles, OnlyTouches
<1>3. ASSUME NEW g \in 1..Len(file') PROVE EntryOK(g)'
  <2>1. CASE g = f
    BY <2>1
  <2>2. CASE g # f
    BY <2>2 DEF OnlyTouches, RInv, Entries, EntryOK
  <2>. QED BY <2>1, <2>2
<1>. QED BY <1>2, <1>3 DEF Rest, Entries

LEMMA OwnersServe ==
    ASSUME NEW q \in Queues, NEW o \in OwnersOf(q), NEW p \in Procs, o = p
    PROVE  Serves[p] = q
BY SwitchboardAssumption DEF OwnersOf

LEMMA FileAdded ==
    ASSUME RInv, NEW p \in Procs, NEW q \in Queues, NEW m \in Msgs, NEW o \in OwnersOf(q),
           Added(q, m, o, "tmp"), OthersMove(p), NewIsOwn(p), Task(p)'
    PROVE  Rest'
<1>1. Len(file) \in Nat /\ Len(file') = Len(file) + 1
  BY FileTypes DEF RInv, IInv, Added, Appended
<1>2. ASSUME NEW r \in Procs PROVE Task(r)'
  BY <1>1, OthersTask DEF Meddles, Added, Appended
<1>3. ASSUME NEW g \in 1..Len(file') PROVE EntryOK(g)'
  <2>1. CASE g = Len(file) + 1
    BY <2>1, OwnersServe, SwitchboardAssumption DEF Added, EntryOK
  <2>2. CASE g # Len(file) + 1
    BY <1>1, <2>2 DEF Added, Appended, RInv, Entries, EntryOK
  <2>. QED BY <2>1, <2>2
<1>. QED BY <1>2, <1>3 DEF Rest, Entries

-------------------------------------------------------------------------------
(* The steps that leave the entries as they are.                           *)

LEMMA RecoveredTask ==
    ASSUME RInv, NEW p \in Procs, Recovered(p)
    PROVE  Rest'
<1>1. /\ file' = file /\ OthersMove(p) /\ pc[p] = "recover" /\ pc'[p] = "listing"
      /\ todo'[p] = todo[p] /\ cur'[p] = cur[p] /\ new'[p] = new[p]
  BY DEF RInv, IInv, TypeOK, Recovered, Goto, OthersMove
<1>2. Task(p)'
  BY <1>1 DEF RInv, Task, OwnList, OwnCur, OwnNew, Knows, Recovering, Untouched,
              WithCur, WithNew, Busy, IsRunner, Recovered
<1>. QED BY <1>1, <1>2, FilesStay DEF NewIsOwn, WithNew

LEMMA EndOfListTask ==
    ASSUME RInv, NEW p \in Procs, EndOfList(p)
    PROVE  Rest'
<1>1. /\ file' = file /\ OthersMove(p) /\ pc[p] = "next" /\ pc'[p] = "loop"
      /\ todo'[p] = todo[p] /\ cur'[p] = cur[p] /\ new'[p] = new[p]
  BY DEF RInv, IInv, TypeOK, EndOfList, Goto, OthersMove
<1>2. Task(p)'
  BY <1>1 DEF RInv, Task, OwnList, OwnCur, OwnNew, Knows, Recovering, Untouched,
              WithCur, WithNew, Busy, IsRunner
<1>. QED BY <1>1, <1>2, FilesStay DEF NewIsOwn, WithNew

LEMMA LoadTask ==
    ASSUME RInv, NEW p \in Procs, Load(p)
    PROVE  Rest'
<1>1. /\ file' = file /\ OthersMove(p) /\ pc[p] = "load" /\ pc'[p] = IF file[cur[p]].whole THEN "process" ELSE "badPreserve"
      /\ todo'[p] = todo[p] /\ cur'[p] = cur[p] /\ new'[p] = new[p]
  BY DEF RInv, IInv, TypeOK, Load, Goto, OthersMove
<1>2. Task(p)'
  BY <1>1 DEF RInv, Task, OwnList, OwnCur, OwnNew, Knows, Recovering, Untouched,
              WithCur, WithNew, Busy, IsRunner
<1>. QED BY <1>1, <1>2, FilesStay DEF NewIsOwn, WithNew

LEMMA FailTask ==
    ASSUME RInv, NEW p \in Procs, Fail(p)
    PROVE  Rest'
<1>1. /\ file' = file /\ OthersMove(p) /\ pc[p] = "process" /\ pc'[p] = "shunt"
      /\ todo'[p] = todo[p] /\ cur'[p] = cur[p] /\ new'[p] = new[p]
  BY DEF RInv, IInv, TypeOK, Fail, Goto, OthersMove
<1>2. Task(p)'
  BY <1>1 DEF RInv, Task, OwnList, OwnCur, OwnNew, Knows, Recovering, Untouched,
              WithCur, WithNew, Busy, IsRunner
<1>. QED BY <1>1, <1>2, FilesStay DEF NewIsOwn, WithNew

LEMMA ShuntFailsTask ==
    ASSUME RInv, NEW p \in Procs, ShuntFails(p)
    PROVE  Rest'
<1>1. /\ file' = file /\ OthersMove(p) /\ pc[p] = "shunt" /\ pc'[p] = "preserve"
      /\ todo'[p] = todo[p] /\ cur'[p] = cur[p] /\ new'[p] = new[p]
  BY DEF RInv, IInv, TypeOK, ShuntFails, Goto, OthersMove
<1>2. Task(p)'
  BY <1>1 DEF RInv, Task, OwnList, OwnCur, OwnNew, Knows, Recovering, Untouched,
              WithCur, WithNew, Busy, IsRunner
<1>. QED BY <1>1, <1>2, FilesStay DEF NewIsOwn, WithNew

LEMMA CheckTask ==
    ASSUME RInv, NEW p \in Procs, Check(p)
    PROVE  Rest'
<1>1. /\ file' = file /\ OthersMove(p) /\ pc[p] = "check" /\ pc'[p] = IF stop[p] THEN "loop" ELSE "next"
      /\ todo'[p] = todo[p] /\ cur'[p] = cur[p] /\ new'[p] = new[p]
  BY DEF RInv, IInv, TypeOK, Check, Goto, OthersMove
<1>2. Task(p)'
  BY <1>1 DEF RInv, Task, OwnList, OwnCur, OwnNew, Knows, Recovering, Untouched,
              WithCur, WithNew, Busy, IsRunner
<1>. QED BY <1>1, <1>2, FilesStay DEF NewIsOwn, WithNew

LEMMA LoopTask ==
    ASSUME RInv, NEW p \in Procs, Loop(p)
    PROVE  Rest'
<1>1. /\ file' = file /\ OthersMove(p) /\ pc[p] = "loop" /\ pc'[p] = "listing"
      /\ todo'[p] = todo[p] /\ cur'[p] = cur[p] /\ new'[p] = new[p]
  BY DEF RInv, IInv, TypeOK, Loop, Goto, OthersMove
<1>2. Task(p)'
  BY <1>1 DEF RInv, Task, OwnList, OwnCur, OwnNew, Knows, Recovering, Untouched,
              WithCur, WithNew, Busy, IsRunner
<1>. QED BY <1>1, <1>2, FilesStay DEF NewIsOwn, WithNew

LEMMA LeaveTryTask ==
    ASSUME RInv, NEW p \in Procs, LeaveTry(p)
    PROVE  Rest'
<1>1. /\ file' = file /\ OthersMove(p) /\ pc[p] = "unlinked" /\ pc'[p] = "commit"
      /\ todo'[p] = todo[p] /\ cur'[p] = 0 /\ new'[p] = 0
  BY DEF RInv, IInv, TypeOK, LeaveTry, Goto, OthersMove, Release
<1>2. Task(p)'
  BY <1>1 DEF RInv, Task, OwnList, OwnCur, OwnNew, Knows, Recovering, Untouched,
              WithCur, WithNew, Busy, IsRunner
<1>. QED BY <1>1, <1>2, FilesStay DEF NewIsOwn, WithNew

LEMMA DiscardTask ==
    ASSUME RInv, NEW p \in Procs, Discard(p)
    PROVE  Rest'
<1>1. /\ file' = file /\ OthersMove(p) /\ pc[p] = "process" /\ pc'[p] = "finish"
      /\ todo'[p] = todo[p] /\ cur'[p] = cur[p] /\ new'[p] = new[p]
  BY DEF RInv, IInv, TypeOK, Discard, Goto, OthersMove
<1>2. Task(p)'
  BY <1>1 DEF RInv, Task, OwnList, OwnCur, OwnNew, Knows, Recovering, Untouched,
              WithCur, WithNew, Busy, IsRunner
<1>. QED BY <1>1, <1>2, FilesStay DEF NewIsOwn, WithNew

LEMMA HoldTask ==
    ASSUME RInv, NEW p \in Procs, Hold(p)
    PROVE  Rest'
<1>1. /\ file' = file /\ OthersMove(p) /\ pc[p] = "process" /\ pc'[p] = "finish"
      /\ todo'[p] = todo[p] /\ cur'[p] = cur[p] /\ new'[p] = new[p]
  BY DEF RInv, IInv, TypeOK, Hold, Goto, OthersMove
<1>2. Task(p)'
  BY <1>1 DEF RInv, Task, OwnList, OwnCur, OwnNew, Knows, Recovering, Untouched,
              WithCur, WithNew, Busy, IsRunner
<1>. QED BY <1>1, <1>2, FilesStay DEF NewIsOwn, WithNew

LEMMA CommitTask ==
    ASSUME RInv, NEW p \in Procs, Commit(p)
    PROVE  Rest'
<1>1. /\ file' = file /\ OthersMove(p) /\ pc[p] = "commit" /\ pc'[p] = "check"
      /\ todo'[p] = todo[p] /\ cur'[p] = cur[p] /\ new'[p] = new[p]
  BY DEF RInv, IInv, TypeOK, Commit, Goto, OthersMove
<1>2. Task(p)'
  BY <1>1 DEF RInv, Task, OwnList, OwnCur, OwnNew, Knows, Recovering, Untouched,
              WithCur, WithNew, Busy, IsRunner
<1>. QED BY <1>1, <1>2, FilesStay DEF NewIsOwn, WithNew

LEMMA UnshuntLoadTask ==
    ASSUME RInv, NEW p \in Procs, UnshuntLoad(p)
    PROVE  Rest'
<1>1. /\ file' = file /\ OthersMove(p) /\ pc[p] = "load" /\ pc'[p] = IF file[cur[p]].whole THEN "emit" ELSE "next"
      /\ todo'[p] = todo[p] /\ cur'[p] = cur[p] /\ new'[p] = new[p]
  BY DEF RInv, IInv, TypeOK, UnshuntLoad, Goto, OthersMove
<1>2. Task(p)'
  BY <1>1 DEF RInv, Task, OwnList, OwnCur, OwnNew, Knows, Recovering, Untouched,
              WithCur, WithNew, Busy, IsRunner, UnshuntLoad
<1>. QED BY <1>1, <1>2, FilesStay DEF NewIsOwn, WithNew

LEMMA UnshuntDiscardTask ==
    ASSUME RInv, NEW p \in Procs, UnshuntDiscard(p)
    PROVE  Rest'
<1>1. /\ file' = file /\ OthersMove(p) /\ pc[p] = "emit" /\ pc'[p] = "finish"
      /\ todo'[p] = todo[p] /\ cur'[p] = cur[p] /\ new'[p] = new[p]
  BY DEF RInv, IInv, TypeOK, UnshuntDiscard, Goto, OthersMove
<1>2. Task(p)'
  BY <1>1 DEF RInv, Task, OwnList, OwnCur, OwnNew, Knows, Recovering, Untouched,
              WithCur, WithNew, Busy, IsRunner
<1>. QED BY <1>1, <1>2, FilesStay DEF NewIsOwn, WithNew

LEMMA StartRunnerTask ==
    ASSUME RInv, NEW p \in Procs, StartRunner(p)
    PROVE  Rest'
<1>1. /\ file' = file /\ OthersMove(p) /\ pc[p] = "off" /\ pc'[p] = "recover"
      /\ todo'[p] = FilesOf(p, "bak") /\ cur'[p] = cur[p] /\ new'[p] = new[p]
  BY DEF RInv, IInv, TypeOK, StartRunner, Goto, OthersMove
<1>2. Task(p)'
  BY <1>1, FileTypes DEF RInv, Task, OwnList, OwnCur, OwnNew, Knows, Recovering, Untouched,
              WithCur, WithNew, Busy, IsRunner, FilesOf, IInv, Entries, EntryOK
<1>. QED BY <1>1, <1>2, FilesStay DEF NewIsOwn, WithNew

LEMMA UnshuntStartTask ==
    ASSUME RInv, NEW p \in Procs, UnshuntStart(p)
    PROVE  Rest'
<1>1. /\ file' = file /\ OthersMove(p) /\ pc[p] = "off" /\ pc'[p] = "recover"
      /\ todo'[p] = FilesOf(p, "bak") /\ cur'[p] = cur[p] /\ new'[p] = new[p]
  BY DEF RInv, IInv, TypeOK, UnshuntStart, Goto, OthersMove
<1>2. Task(p)'
  BY <1>1, FileTypes DEF RInv, Task, OwnList, OwnCur, OwnNew, Knows, Recovering, Untouched,
              WithCur, WithNew, Busy, IsRunner, FilesOf, UnshuntStart
<1>. QED BY <1>1, <1>2, FilesStay DEF NewIsOwn, WithNew

LEMMA ListFilesTask ==
    ASSUME RInv, NEW p \in Procs, ListFiles(p)
    PROVE  Rest'
<1>1. /\ file' = file /\ OthersMove(p) /\ pc[p] = "listing" /\ pc'[p] = "next"
      /\ todo'[p] = FilesOf(p, "pck") /\ cur'[p] = cur[p] /\ new'[p] = new[p]
  BY DEF RInv, IInv, TypeOK, ListFiles, Goto, OthersMove
<1>2. Task(p)'
  BY <1>1 DEF RInv, Task, OwnList, OwnCur, OwnNew, Knows, Recovering, Untouched,
              WithCur, WithNew, Busy, IsRunner, FilesOf
<1>. QED BY <1>1, <1>2, FilesStay DEF NewIsOwn, WithNew

LEMMA ExitTask ==
    ASSUME RInv, NEW p \in Procs, Exit(p), file' = file
    PROVE  Rest'
<1>1. OthersMove(p) /\ pc'[p] = "off" /\ todo'[p] = {} /\ cur'[p] = 0 /\ new'[p] = 0
  BY DEF RInv, IInv, TypeOK, Exit, OthersMove
<1>2. Task(p)'
  BY <1>1 DEF Task, OwnList, OwnCur, OwnNew, Knows, WithCur, WithNew
<1>. QED BY <1>1, <1>2, FilesStay DEF NewIsOwn, WithNew

LEMMA InterruptInsideTask ==
    ASSUME RInv, NEW p \in Procs, InterruptInside(p)
    PROVE  Rest'
<1>1. pc[p] \in Inside /\ pc' = [pc EXCEPT ![p] = InterruptHandler(pc[p])]
  BY DEF InterruptInside
<1>2. InterruptHandler(pc[p]) \in {"badPreserve", "shunt", "preserve"}
  BY <1>1 DEF InterruptHandler, Inside
<1>3. /\ file' = file /\ OthersMove(p) /\ pc'[p] \in {"badPreserve", "shunt", "preserve"}
      /\ todo'[p] = todo[p] /\ cur'[p] = cur[p] /\ new'[p] = new[p]
  BY <1>1, <1>2 DEF RInv, IInv, TypeOK, InterruptInside, Signalled, OthersMove
<1>4. Task(p)'
  BY <1>1, <1>3 DEF RInv, Task, OwnList, OwnCur, OwnNew, Knows, Recovering, Untouched,
                    WithCur, WithNew, Busy, Inside, IsRunner
<1>. QED BY <1>3, <1>4, FilesStay DEF NewIsOwn, WithNew

LEMMA InterruptDequeueTask ==
    ASSUME RInv, NEW p \in Procs, InterruptDequeue(p)
    PROVE  Rest'
<1>1. PICK f \in Oldest(todo[p]) : Advance(p, f) /\ cur' = [cur EXCEPT ![p] = f]
  BY DEF InterruptDequeue
<1>2. f \in todo[p]
  BY DEF Oldest
<1>3. /\ file' = file /\ OthersMove(p) /\ pc[p] = "next" /\ pc'[p] = "badPreserve"
      /\ todo'[p] = todo[p] \ {f} /\ cur'[p] = f /\ new'[p] = new[p]
  BY <1>1 DEF RInv, IInv, TypeOK, InterruptDequeue, Signalled, Goto, Advance, OthersMove
<1>4. Task(p)'
  BY <1>2, <1>3 DEF RInv, Task, OwnList, OwnCur, OwnNew, Knows, Recovering, Untouched,
                    WithCur, WithNew, Busy, IsRunner
<1>. QED BY <1>3, <1>4, FilesStay DEF NewIsOwn, WithNew

-------------------------------------------------------------------------------
(* The steps that change one entry.                                        *)

(* What is known of an entry on p's list ...                               *)
LEMMA Listed ==
    ASSUME RInv, NEW p \in Procs, NEW f \in Oldest(todo[p])
    PROVE  /\ f \in 1..Len(file) /\ f \in todo[p] /\ file \in Seq(Entry)
           /\ file[f].owner = p /\ EntryOK(f)
           /\ file[f].ext = IF pc[p] \in Recovering THEN "bak" ELSE "pck"
           /\ file[f].bak \in Nat /\ file[f].tries \in Nat
<1>1. f \in 1..Len(file) /\ f \in todo[p] /\ file \in Seq(Entry)
  BY FileTypes DEF RInv, IInv, Oldest
<1>2. file[f] \in Entry
  BY <1>1
<1>. QED BY <1>1, <1>2 DEF RInv, Entries, Task, OwnList, Entry

(* ... and of the one p is working on.                                     *)
LEMMA AtHand ==
    ASSUME RInv, NEW p \in Procs, pc[p] \in WithCur
    PROVE  /\ cur[p] \in 1..Len(file) /\ cur[p] \notin todo[p] /\ file \in Seq(Entry)
           /\ file[cur[p]].owner = p /\ EntryOK(cur[p])
           /\ file[cur[p]].ext \in {"pck", "bak", "gone"}
           /\ pc[p] \in Untouched => file[cur[p]].ext = "bak"
           /\ file[cur[p]].bak \in Nat /\ file[cur[p]].tries \in Nat
<1>1. cur[p] \in 1..Len(file) /\ file \in Seq(Entry)
  BY FileTypes, MsgAtHand DEF RInv, IInv
<1>2. file[cur[p]] \in Entry
  BY <1>1
<1>. QED BY <1>1, <1>2 DEF RInv, Entries, Task, OwnCur, Entry

LEMMA RecoverPreserveTask ==
    ASSUME RInv, NEW p \in Procs, RecoverPreserve(p)
    PROVE  Rest'
<1>1. PICK f \in Oldest(todo[p]) : FinishPreserve(f) /\ Advance(p, f)
  BY DEF RecoverPreserve
<1>2. /\ OthersMove(p) /\ pc[p] = "recover" /\ pc'[p] = "recover"
      /\ todo'[p] = todo[p] \ {f} /\ cur'[p] = cur[p] /\ new'[p] = new[p]
  BY <1>1 DEF RInv, IInv, TypeOK, RecoverPreserve, Goto, Advance, OthersMove
<1>3. /\ f \in 1..Len(file) /\ f \in todo[p] /\ file \in Seq(Entry)
      /\ file[f].owner = p /\ EntryOK(f)
      /\ file[f].ext = IF pc[p] \in Recovering THEN "bak" ELSE "pck"
      /\ file[f].bak \in Nat /\ file[f].tries \in Nat
  BY Listed
<1>4. OnlyTouches(f) /\ Buried(f)
  BY <1>1, <1>2, <1>3, FinishPreserveFields DEF OnQueue, Recovering
<1>5. Meddles(p, f) /\ EntryOK(f)'
  BY <1>2, <1>3, <1>4, SwitchboardAssumption DEF Meddles, EntryOK, Recovering, Buried, Keeps
<1>6. Task(p)'
  <2>1. /\ Task(p) /\ Len(file') = Len(file)
        /\ \A g \in 1..Len(file) : g # f => file'[g] = file[g]
        /\ todo[p] \subseteq 1..Len(file)
    BY <1>4, FileTypes DEF RInv, IInv, OnlyTouches
  <2>2. OwnList(p)'
    BY <1>2, <1>3, <1>4, <2>1 DEF Task, OwnList, Recovering
  <2>3. OwnCur(p)'
    BY <1>2, <1>3, <1>4, <2>1
       DEF Task, OwnCur, WithCur, Untouched, Recovering, IsRunner, EntryOK, Buried, Keeps
  <2>4. OwnNew(p)'
    BY <1>2, <1>3, <1>4 DEF OwnNew, WithNew
  <2>5. Knows(p)'
    BY <1>2, <1>3, <1>4, <2>1, SwitchboardAssumption
       DEF Task, Knows, Recovering, Busy, IsRunner, Buried, Keeps
  <2>. QED BY <2>2, <2>3, <2>4, <2>5 DEF Task
<1>. QED BY <1>2, <1>3, <1>4, <1>5, <1>6, FileChanges DEF NewIsOwn, WithNew

LEMMA RecoverBeginTask ==
    ASSUME RInv, NEW p \in Procs, RecoverBegin(p)
    PROVE  Rest'
<1>1. PICK f \in Oldest(todo[p]) : /\ BeginRewrite(f) /\ Advance(p, f)
                                  /\ cur' = [cur EXCEPT ![p] = f]
  BY DEF RecoverBegin
<1>2. /\ OthersMove(p) /\ pc[p] = "recover" /\ pc'[p] = "rewrite"
      /\ todo'[p] = todo[p] \ {f} /\ cur'[p] = f /\ new'[p] = new[p]
  BY <1>1 DEF RInv, IInv, TypeOK, RecoverBegin, Goto, Advance, OthersMove
<1>3. /\ f \in 1..Len(file) /\ f \in todo[p] /\ file \in Seq(Entry)
      /\ file[f].owner = p /\ EntryOK(f)
      /\ file[f].ext = IF pc[p] \in Recovering THEN "bak" ELSE "pck"
      /\ file[f].bak \in Nat /\ file[f].tries \in Nat
  BY Listed
<1>4. OnlyTouches(f) /\ Keeps(f) /\ file'[f].ext = file[f].ext
  BY <1>1, <1>2, <1>3, BeginRewriteFields
<1>5. Meddles(p, f) /\ EntryOK(f)'
  BY <1>2, <1>3, <1>4, SwitchboardAssumption DEF Meddles, EntryOK, Recovering, Buried, Keeps
<1>6. Task(p)'
  <2>1. /\ Task(p) /\ Len(file') = Len(file)
        /\ \A g \in 1..Len(file) : g # f => file'[g] = file[g]
        /\ todo[p] \subseteq 1..Len(file)
    BY <1>4, FileTypes DEF RInv, IInv, OnlyTouches
  <2>2. OwnList(p)'
    BY <1>2, <1>3, <1>4, <2>1 DEF Task, OwnList, Recovering
  <2>3. OwnCur(p)'
    BY <1>2, <1>3, <1>4, <2>1
       DEF Task, OwnCur, WithCur, Untouched, Recovering, IsRunner, EntryOK, Buried, Keeps
  <2>4. OwnNew(p)'
    BY <1>2, <1>3, <1>4 DEF OwnNew, WithNew
  <2>5. Knows(p)'
    BY <1>2, <1>3, <1>4, <2>1, SwitchboardAssumption
       DEF Task, Knows, Recovering, Busy, IsRunner, Buried, Keeps
  <2>. QED BY <2>2, <2>3, <2>4, <2>5 DEF Task
<1>. QED BY <1>2, <1>3, <1>4, <1>5, <1>6, FileChanges DEF NewIsOwn, WithNew

LEMMA DequeueTask ==
    ASSUME RInv, NEW p \in Procs, Dequeue(p)
    PROVE  Rest'
<1>1. PICK f \in Oldest(todo[p]) : /\ Claim(f) /\ Advance(p, f)
                                  /\ cur' = [cur EXCEPT ![p] = f]
  BY DEF Dequeue
<1>2. /\ OthersMove(p) /\ pc[p] = "next" /\ pc'[p] = "load"
      /\ todo'[p] = todo[p] \ {f} /\ cur'[p] = f /\ new'[p] = new[p]
  BY <1>1 DEF RInv, IInv, TypeOK, Dequeue, Goto, Advance, OthersMove
<1>3. /\ f \in 1..Len(file) /\ f \in todo[p] /\ file \in Seq(Entry)
      /\ file[f].owner = p /\ EntryOK(f)
      /\ file[f].ext = IF pc[p] \in Recovering THEN "bak" ELSE "pck"
      /\ file[f].bak \in Nat /\ file[f].tries \in Nat
  BY Listed
<1>4. /\ OnlyTouches(f) /\ file'[f].ext = "bak"
      /\ file'[f].q = file[f].q /\ file'[f].owner = file[f].owner
      /\ file'[f].bak = file[f].bak /\ file'[f].tries = file[f].tries + 1
  BY <1>1, <1>2, <1>3, ClaimFields
<1>5. Meddles(p, f) /\ EntryOK(f)'
  BY <1>2, <1>3, <1>4, SwitchboardAssumption DEF Meddles, EntryOK, Recovering, Buried, Keeps
<1>6. Task(p)'
  <2>1. /\ Task(p) /\ Len(file') = Len(file)
        /\ \A g \in 1..Len(file) : g # f => file'[g] = file[g]
        /\ todo[p] \subseteq 1..Len(file)
    BY <1>4, FileTypes DEF RInv, IInv, OnlyTouches
  <2>2. OwnList(p)'
    BY <1>2, <1>3, <1>4, <2>1 DEF Task, OwnList, Recovering
  <2>3. OwnCur(p)'
    BY <1>2, <1>3, <1>4, <2>1
       DEF Task, OwnCur, WithCur, Untouched, Recovering, IsRunner, EntryOK, Buried, Keeps
  <2>4. OwnNew(p)'
    BY <1>2, <1>3, <1>4 DEF OwnNew, WithNew
  <2>5. Knows(p)'
    BY <1>2, <1>3, <1>4, <2>1, SwitchboardAssumption
       DEF Task, Knows, Recovering, Busy, IsRunner, Buried, Keeps
  <2>. QED BY <2>2, <2>3, <2>4, <2>5 DEF Task
<1>. QED BY <1>2, <1>3, <1>4, <1>5, <1>6, FileChanges DEF NewIsOwn, WithNew

LEMMA RecoverEndTask ==
    ASSUME RInv, NEW p \in Procs, RecoverEnd(p)
    PROVE  Rest'
<1>1. /\ OthersMove(p) /\ pc[p] = "rewrite" /\ pc'[p] = "reinstate"
      /\ todo'[p] = todo[p] /\ cur'[p] = cur[p] /\ new'[p] = new[p]
  BY DEF RInv, IInv, TypeOK, RecoverEnd, Goto, OthersMove
<1>2. PICK f \in 1..Len(file) : f = cur[p] /\ EndRewrite(f)
  BY <1>1, AtHand DEF RecoverEnd, WithCur
<1>3. /\ f \notin todo[p] /\ file \in Seq(Entry) /\ file[f].owner = p /\ EntryOK(f)
      /\ file[f].ext \in {"pck", "bak", "gone"}
      /\ pc[p] \in Untouched => file[f].ext = "bak"
      /\ file[f].bak \in Nat /\ file[f].tries \in Nat
  BY <1>1, <1>2, AtHand DEF WithCur
<1>4. /\ OnlyTouches(f) /\ file'[f].ext = file[f].ext
      /\ file'[f].q = file[f].q /\ file'[f].owner = file[f].owner
      /\ file'[f].bak = file[f].bak + 1 /\ file'[f].tries = file[f].tries
  BY <1>1, <1>2, <1>3, EndRewriteFields
<1>5. Meddles(p, f) /\ EntryOK(f)'
  BY <1>1, <1>2, <1>3, <1>4, SwitchboardAssumption
     DEF Meddles, EntryOK, Buried, Keeps, OnQueue, RInv, Task, OwnCur, Untouched
<1>6. Task(p)'
  <2>1. /\ Task(p) /\ Len(file') = Len(file)
        /\ \A g \in 1..Len(file) : g # f => file'[g] = file[g]
        /\ todo[p] \subseteq 1..Len(file)
    BY <1>4, FileTypes DEF RInv, IInv, OnlyTouches
  <2>2. OwnList(p)'
    BY <1>1, <1>2, <1>3, <1>4, <2>1 DEF Task, OwnList, Recovering
  <2>3. OwnCur(p)'
    BY <1>1, <1>2, <1>3, <1>4, <2>1
       DEF Task, OwnCur, WithCur, Untouched, Recovering, IsRunner, EntryOK, Buried, Keeps, OnQueue
  <2>4. OwnNew(p)'
    BY <1>1, <1>2, <1>3, <1>4 DEF OwnNew, WithNew
  <2>5. Knows(p)'
    BY <1>1, <1>2, <1>3, <1>4, <2>1, SwitchboardAssumption
       DEF Task, Knows, Recovering, Busy, IsRunner, Buried, Keeps, OnQueue
  <2>. QED BY <2>2, <2>3, <2>4, <2>5 DEF Task
<1>. QED BY <1>1, <1>2, <1>4, <1>5, <1>6, FileChanges DEF NewIsOwn, WithNew

LEMMA RecoverMoveTask ==
    ASSUME RInv, NEW p \in Procs, RecoverMove(p)
    PROVE  Rest'
<1>1. /\ OthersMove(p) /\ pc[p] = "reinstate" /\ pc'[p] = "recover"
      /\ todo'[p] = todo[p] /\ cur'[p] = 0 /\ new'[p] = 0
  BY DEF RInv, IInv, TypeOK, RecoverMove, Goto, OthersMove, Release
<1>2. PICK f \in 1..Len(file) : f = cur[p] /\ Reinstate(f)
  BY <1>1, AtHand DEF RecoverMove, WithCur
<1>3. /\ f \notin todo[p] /\ file \in Seq(Entry) /\ file[f].owner = p /\ EntryOK(f)
      /\ file[f].ext \in {"pck", "bak", "gone"}
      /\ pc[p] \in Untouched => file[f].ext = "bak"
      /\ file[f].bak \in Nat /\ file[f].tries \in Nat
  BY <1>1, <1>2, AtHand DEF WithCur
<1>4. /\ OnlyTouches(f)
      /\ IF file[f].bak >= MaxBakCount THEN Buried(f)
                                       ELSE Keeps(f) /\ file'[f].ext = "pck"
  BY <1>1, <1>2, <1>3, ReinstateFields DEF OnQueue, Untouched
<1>5. Meddles(p, f) /\ EntryOK(f)'
  BY <1>1, <1>2, <1>3, <1>4, SwitchboardAssumption
     DEF Meddles, EntryOK, Buried, Keeps, OnQueue, RInv, Task, OwnCur, Untouched
<1>6. Task(p)'
  <2>1. /\ Task(p) /\ Len(file') = Len(file)
        /\ \A g \in 1..Len(file) : g # f => file'[g] = file[g]
        /\ todo[p] \subseteq 1..Len(file)
    BY <1>4, FileTypes DEF RInv, IInv, OnlyTouches
  <2>2. OwnList(p)'
    BY <1>1, <1>2, <1>3, <1>4, <2>1 DEF Task, OwnList, Recovering
  <2>3. OwnCur(p)'
    BY <1>1, <1>2, <1>3, <1>4, <2>1
       DEF Task, OwnCur, WithCur, Untouched, Recovering, IsRunner, EntryOK, Buried, Keeps, OnQueue
  <2>4. OwnNew(p)'
    BY <1>1, <1>2, <1>3, <1>4 DEF OwnNew, WithNew
  <2>5. Knows(p)'
    BY <1>1, <1>2, <1>3, <1>4, <2>1, SwitchboardAssumption
       DEF Task, Knows, Recovering, Busy, IsRunner, Buried, Keeps, OnQueue
  <2>. QED BY <2>2, <2>3, <2>4, <2>5 DEF Task
<1>. QED BY <1>1, <1>2, <1>4, <1>5, <1>6, FileChanges DEF NewIsOwn, WithNew

LEMMA BadPreserveTask ==
    ASSUME RInv, NEW p \in Procs, BadPreserve(p)
    PROVE  Rest'
<1>1. /\ OthersMove(p) /\ pc[p] = "badPreserve" /\ pc'[p] = "next"
      /\ todo'[p] = todo[p] /\ cur'[p] = 0 /\ new'[p] = 0
  BY DEF RInv, IInv, TypeOK, BadPreserve, Goto, OthersMove, Release
<1>2. PICK f \in 1..Len(file) : f = cur[p] /\ FinishPreserve(f)
  BY <1>1, AtHand DEF BadPreserve, WithCur
<1>3. /\ f \notin todo[p] /\ file \in Seq(Entry) /\ file[f].owner = p /\ EntryOK(f)
      /\ file[f].ext \in {"pck", "bak", "gone"}
      /\ pc[p] \in Untouched => file[f].ext = "bak"
      /\ file[f].bak \in Nat /\ file[f].tries \in Nat
  BY <1>1, <1>2, AtHand DEF WithCur
<1>4. /\ OnlyTouches(f)
      /\ IF OnQueue(f) THEN Buried(f) ELSE file' = file
  BY <1>1, <1>2, <1>3, FinishPreserveFields
<1>5. Meddles(p, f) /\ EntryOK(f)'
  BY <1>1, <1>2, <1>3, <1>4, SwitchboardAssumption
     DEF Meddles, EntryOK, Buried, Keeps, OnQueue, RInv, Task, OwnCur, Untouched
<1>6. Task(p)'
  <2>1. /\ Task(p) /\ Len(file') = Len(file)
        /\ \A g \in 1..Len(file) : g # f => file'[g] = file[g]
        /\ todo[p] \subseteq 1..Len(file)
    BY <1>4, FileTypes DEF RInv, IInv, OnlyTouches
  <2>2. OwnList(p)'
    BY <1>1, <1>2, <1>3, <1>4, <2>1 DEF Task, OwnList, Recovering
  <2>3. OwnCur(p)'
    BY <1>1, <1>2, <1>3, <1>4, <2>1
       DEF Task, OwnCur, WithCur, Untouched, Recovering, IsRunner, EntryOK, Buried, Keeps, OnQueue
  <2>4. OwnNew(p)'
    BY <1>1, <1>2, <1>3, <1>4 DEF OwnNew, WithNew
  <2>5. Knows(p)'
    BY <1>1, <1>2, <1>3, <1>4, <2>1, SwitchboardAssumption
       DEF Task, Knows, Recovering, Busy, IsRunner, Buried, Keeps, OnQueue
  <2>. QED BY <2>2, <2>3, <2>4, <2>5 DEF Task
<1>. QED BY <1>1, <1>2, <1>4, <1>5, <1>6, FileChanges DEF NewIsOwn, WithNew

LEMMA PreserveTask ==
    ASSUME RInv, NEW p \in Procs, Preserve(p)
    PROVE  Rest'
<1>1. /\ OthersMove(p) /\ pc[p] = "preserve" /\ pc'[p] = "commit"
      /\ todo'[p] = todo[p] /\ cur'[p] = 0 /\ new'[p] = 0
  BY DEF RInv, IInv, TypeOK, Preserve, Goto, OthersMove, Release
<1>2. PICK f \in 1..Len(file) : f = cur[p] /\ FinishPreserve(f)
  BY <1>1, AtHand DEF Preserve, WithCur
<1>3. /\ f \notin todo[p] /\ file \in Seq(Entry) /\ file[f].owner = p /\ EntryOK(f)
      /\ file[f].ext \in {"pck", "bak", "gone"}
      /\ pc[p] \in Untouched => file[f].ext = "bak"
      /\ file[f].bak \in Nat /\ file[f].tries \in Nat
  BY <1>1, <1>2, AtHand DEF WithCur
<1>4. /\ OnlyTouches(f)
      /\ IF OnQueue(f) THEN Buried(f) ELSE file' = file
  BY <1>1, <1>2, <1>3, FinishPreserveFields
<1>5. Meddles(p, f) /\ EntryOK(f)'
  BY <1>1, <1>2, <1>3, <1>4, SwitchboardAssumption
     DEF Meddles, EntryOK, Buried, Keeps, OnQueue, RInv, Task, OwnCur, Untouched
<1>6. Task(p)'
  <2>1. /\ Task(p) /\ Len(file') = Len(file)
        /\ \A g \in 1..Len(file) : g # f => file'[g] = file[g]
        /\ todo[p] \subseteq 1..Len(file)
    BY <1>4, FileTypes DEF RInv, IInv, OnlyTouches
  <2>2. OwnList(p)'
    BY <1>1, <1>2, <1>3, <1>4, <2>1 DEF Task, OwnList, Recovering
  <2>3. OwnCur(p)'
    BY <1>1, <1>2, <1>3, <1>4, <2>1
       DEF Task, OwnCur, WithCur, Untouched, Recovering, IsRunner, EntryOK, Buried, Keeps, OnQueue
  <2>4. OwnNew(p)'
    BY <1>1, <1>2, <1>3, <1>4 DEF OwnNew, WithNew
  <2>5. Knows(p)'
    BY <1>1, <1>2, <1>3, <1>4, <2>1, SwitchboardAssumption
       DEF Task, Knows, Recovering, Busy, IsRunner, Buried, Keeps, OnQueue
  <2>. QED BY <2>2, <2>3, <2>4, <2>5 DEF Task
<1>. QED BY <1>1, <1>2, <1>4, <1>5, <1>6, FileChanges DEF NewIsOwn, WithNew

LEMMA FinishEntryTask ==
    ASSUME RInv, NEW p \in Procs, FinishEntry(p)
    PROVE  Rest'
<1>1. /\ OthersMove(p) /\ pc[p] = "finish" /\ pc'[p] = "unlinked"
      /\ todo'[p] = todo[p] /\ cur'[p] = cur[p] /\ new'[p] = new[p]
  BY DEF RInv, IInv, TypeOK, FinishEntry, Goto, OthersMove
<1>2. PICK f \in 1..Len(file) : f = cur[p] /\ Finish(f)
  BY <1>1, AtHand DEF FinishEntry, WithCur
<1>3. /\ f \notin todo[p] /\ file \in Seq(Entry) /\ file[f].owner = p /\ EntryOK(f)
      /\ file[f].ext \in {"pck", "bak", "gone"}
      /\ pc[p] \in Untouched => file[f].ext = "bak"
      /\ file[f].bak \in Nat /\ file[f].tries \in Nat
  BY <1>1, <1>2, AtHand DEF WithCur
<1>4. /\ OnlyTouches(f) /\ Keeps(f)
      /\ file'[f].ext = IF OnQueue(f) THEN "gone" ELSE file[f].ext
  BY <1>1, <1>2, <1>3, FinishFields
<1>5. Meddles(p, f) /\ EntryOK(f)'
  BY <1>1, <1>2, <1>3, <1>4, SwitchboardAssumption
     DEF Meddles, EntryOK, Buried, Keeps, OnQueue, RInv, Task, OwnCur, Untouched
<1>6. Task(p)'
  <2>1. /\ Task(p) /\ Len(file') = Len(file)
        /\ \A g \in 1..Len(file) : g # f => file'[g] = file[g]
        /\ todo[p] \subseteq 1..Len(file)
    BY <1>4, FileTypes DEF RInv, IInv, OnlyTouches
  <2>2. OwnList(p)'
    BY <1>1, <1>2, <1>3, <1>4, <2>1 DEF Task, OwnList, Recovering
  <2>3. OwnCur(p)'
    BY <1>1, <1>2, <1>3, <1>4, <2>1
       DEF Task, OwnCur, WithCur, Untouched, Recovering, IsRunner, EntryOK, Buried, Keeps, OnQueue
  <2>4. OwnNew(p)'
    BY <1>1, <1>2, <1>3, <1>4 DEF OwnNew, WithNew
  <2>5. Knows(p)'
    BY <1>1, <1>2, <1>3, <1>4, <2>1, SwitchboardAssumption
       DEF Task, Knows, Recovering, Busy, IsRunner, Buried, Keeps, OnQueue
  <2>. QED BY <2>2, <2>3, <2>4, <2>5 DEF Task
<1>. QED BY <1>1, <1>2, <1>4, <1>5, <1>6, FileChanges DEF NewIsOwn, WithNew

LEMMA ShuntFinishTask ==
    ASSUME RInv, NEW p \in Procs, ShuntFinish(p)
    PROVE  Rest'
<1>1. /\ OthersMove(p) /\ pc[p] = "shuntFinish" /\ pc'[p] = "commit"
      /\ todo'[p] = todo[p] /\ cur'[p] = 0 /\ new'[p] = 0
  BY DEF RInv, IInv, TypeOK, ShuntFinish, Goto, OthersMove, Release
<1>2. PICK f \in 1..Len(file) : f = cur[p] /\ Finish(f)
  BY <1>1, AtHand DEF ShuntFinish, WithCur
<1>3. /\ f \notin todo[p] /\ file \in Seq(Entry) /\ file[f].owner = p /\ EntryOK(f)
      /\ file[f].ext \in {"pck", "bak", "gone"}
      /\ pc[p] \in Untouched => file[f].ext = "bak"
      /\ file[f].bak \in Nat /\ file[f].tries \in Nat
  BY <1>1, <1>2, AtHand DEF WithCur
<1>4. /\ OnlyTouches(f) /\ Keeps(f)
      /\ file'[f].ext = IF OnQueue(f) THEN "gone" ELSE file[f].ext
  BY <1>1, <1>2, <1>3, FinishFields
<1>5. Meddles(p, f) /\ EntryOK(f)'
  BY <1>1, <1>2, <1>3, <1>4, SwitchboardAssumption
     DEF Meddles, EntryOK, Buried, Keeps, OnQueue, RInv, Task, OwnCur, Untouched
<1>6. Task(p)'
  <2>1. /\ Task(p) /\ Len(file') = Len(file)
        /\ \A g \in 1..Len(file) : g # f => file'[g] = file[g]
        /\ todo[p] \subseteq 1..Len(file)
    BY <1>4, FileTypes DEF RInv, IInv, OnlyTouches
  <2>2. OwnList(p)'
    BY <1>1, <1>2, <1>3, <1>4, <2>1 DEF Task, OwnList, Recovering
  <2>3. OwnCur(p)'
    BY <1>1, <1>2, <1>3, <1>4, <2>1
       DEF Task, OwnCur, WithCur, Untouched, Recovering, IsRunner, EntryOK, Buried, Keeps, OnQueue
  <2>4. OwnNew(p)'
    BY <1>1, <1>2, <1>3, <1>4 DEF OwnNew, WithNew
  <2>5. Knows(p)'
    BY <1>1, <1>2, <1>3, <1>4, <2>1, SwitchboardAssumption
       DEF Task, Knows, Recovering, Busy, IsRunner, Buried, Keeps, OnQueue
  <2>. QED BY <2>2, <2>3, <2>4, <2>5 DEF Task
<1>. QED BY <1>1, <1>2, <1>4, <1>5, <1>6, FileChanges DEF NewIsOwn, WithNew

LEMMA UnshuntFinishTask ==
    ASSUME RInv, NEW p \in Procs, UnshuntFinish(p)
    PROVE  Rest'
<1>1. /\ OthersMove(p) /\ pc[p] = "finish" /\ pc'[p] = "next"
      /\ todo'[p] = todo[p] /\ cur'[p] = 0 /\ new'[p] = 0
  BY DEF RInv, IInv, TypeOK, UnshuntFinish, Goto, OthersMove, Release
<1>2. PICK f \in 1..Len(file) : f = cur[p] /\ Finish(f)
  BY <1>1, AtHand DEF UnshuntFinish, WithCur
<1>3. /\ f \notin todo[p] /\ file \in Seq(Entry) /\ file[f].owner = p /\ EntryOK(f)
      /\ file[f].ext \in {"pck", "bak", "gone"}
      /\ pc[p] \in Untouched => file[f].ext = "bak"
      /\ file[f].bak \in Nat /\ file[f].tries \in Nat
  BY <1>1, <1>2, AtHand DEF WithCur
<1>4. /\ OnlyTouches(f) /\ Keeps(f)
      /\ file'[f].ext = IF OnQueue(f) THEN "gone" ELSE file[f].ext
  BY <1>1, <1>2, <1>3, FinishFields
<1>5. Meddles(p, f) /\ EntryOK(f)'
  BY <1>1, <1>2, <1>3, <1>4, SwitchboardAssumption
     DEF Meddles, EntryOK, Buried, Keeps, OnQueue, RInv, Task, OwnCur, Untouched
<1>6. Task(p)'
  <2>1. /\ Task(p) /\ Len(file') = Len(file)
        /\ \A g \in 1..Len(file) : g # f => file'[g] = file[g]
        /\ todo[p] \subseteq 1..Len(file)
    BY <1>4, FileTypes DEF RInv, IInv, OnlyTouches
  <2>2. OwnList(p)'
    BY <1>1, <1>2, <1>3, <1>4, <2>1 DEF Task, OwnList, Recovering
  <2>3. OwnCur(p)'
    BY <1>1, <1>2, <1>3, <1>4, <2>1
       DEF Task, OwnCur, WithCur, Untouched, Recovering, IsRunner, EntryOK, Buried, Keeps, OnQueue
  <2>4. OwnNew(p)'
    BY <1>1, <1>2, <1>3, <1>4 DEF OwnNew, WithNew
  <2>5. Knows(p)'
    BY <1>1, <1>2, <1>3, <1>4, <2>1, SwitchboardAssumption
       DEF Task, Knows, Recovering, Busy, IsRunner, Buried, Keeps, OnQueue
  <2>. QED BY <2>2, <2>3, <2>4, <2>5 DEF Task
<1>. QED BY <1>1, <1>2, <1>4, <1>5, <1>6, FileChanges DEF NewIsOwn, WithNew
LEMMA PublishNewTask ==
    ASSUME RInv, NEW p \in Procs, PublishNew(p)
    PROVE  Rest'
<1>1. /\ OthersMove(p) /\ pc[p] = "publish" /\ pc'[p] = "finish"
      /\ todo'[p] = todo[p] /\ cur'[p] = cur[p] /\ new'[p] = new[p]
  BY DEF RInv, IInv, TypeOK, PublishNew, Goto, OthersMove
<1>2. PICK f \in 1..Len(file) : f = new[p] /\ Publish(f)
  BY <1>1, FileTypes DEF RInv, IInv, Local, PublishNew, WithNew, WithCur
<1>3. /\ file[f].ext = "tmp" /\ EntryOK(f) /\ file \in Seq(Entry)
  BY <1>1, <1>2, FileTypes DEF RInv, IInv, Entries, Task, OwnNew, WithNew
<1>4. OnlyTouches(f) /\ Keeps(f) /\ file'[f].ext = "pck"
  BY <1>2, <1>3, PublishFields
<1>5. Meddles(p, f) /\ EntryOK(f)'
  BY <1>1, <1>2, <1>3, <1>4 DEF Meddles, EntryOK, Keeps, WithNew
<1>6. Task(p)'
  <2>1. /\ Task(p) /\ Len(file') = Len(file)
        /\ \A g \in 1..Len(file) : file[g].ext # "tmp" => file'[g] = file[g]
        /\ todo[p] \subseteq 1..Len(file) /\ cur[p] \in 1..Len(file)
    BY <1>1, <1>3, <1>4, FileTypes, MsgAtHand DEF RInv, IInv, OnlyTouches, WithCur
  <2>2. OwnList(p)'
    BY <1>1, <2>1 DEF Task, OwnList, Recovering
  <2>3. OwnCur(p)'
    BY <1>1, <2>1 DEF Task, OwnCur, WithCur, Untouched
  <2>4. OwnNew(p)'
    BY <1>1 DEF OwnNew, WithNew
  <2>5. ASSUME NEW g \in 1..Len(file), file'[g].ext = "bak"
        PROVE  file'[g] = file[g]
    BY <2>5, <1>4 DEF OnlyTouches
  <2>6. Knows(p)'
    BY <1>1, <2>1, <2>5 DEF Task, Knows, Recovering, Busy, IsRunner
  <2>. QED BY <2>2, <2>3, <2>4, <2>6 DEF Task
<1>. QED BY <1>1, <1>2, <1>4, <1>5, <1>6, FileChanges DEF NewIsOwn, WithNew

LEMMA ShuntPublishTask ==
    ASSUME RInv, NEW p \in Procs, ShuntPublish(p)
    PROVE  Rest'
<1>1. /\ OthersMove(p) /\ pc[p] = "shuntPublish" /\ pc'[p] = "shuntFinish"
      /\ todo'[p] = todo[p] /\ cur'[p] = cur[p] /\ new'[p] = new[p]
  BY DEF RInv, IInv, TypeOK, ShuntPublish, Goto, OthersMove
<1>2. PICK f \in 1..Len(file) : f = new[p] /\ Publish(f)
  BY <1>1, FileTypes DEF RInv, IInv, Local, ShuntPublish, WithNew, WithCur
<1>3. /\ file[f].ext = "tmp" /\ EntryOK(f) /\ file \in Seq(Entry)
  BY <1>1, <1>2, FileTypes DEF RInv, IInv, Entries, Task, OwnNew, WithNew
<1>4. OnlyTouches(f) /\ Keeps(f) /\ file'[f].ext = "pck"
  BY <1>2, <1>3, PublishFields
<1>5. Meddles(p, f) /\ EntryOK(f)'
  BY <1>1, <1>2, <1>3, <1>4 DEF Meddles, EntryOK, Keeps, WithNew
<1>6. Task(p)'
  <2>1. /\ Task(p) /\ Len(file') = Len(file)
        /\ \A g \in 1..Len(file) : file[g].ext # "tmp" => file'[g] = file[g]
        /\ todo[p] \subseteq 1..Len(file) /\ cur[p] \in 1..Len(file)
    BY <1>1, <1>3, <1>4, FileTypes, MsgAtHand DEF RInv, IInv, OnlyTouches, WithCur
  <2>2. OwnList(p)'
    BY <1>1, <2>1 DEF Task, OwnList, Recovering
  <2>3. OwnCur(p)'
    BY <1>1, <2>1 DEF Task, OwnCur, WithCur, Untouched
  <2>4. OwnNew(p)'
    BY <1>1 DEF OwnNew, WithNew
  <2>5. ASSUME NEW g \in 1..Len(file), file'[g].ext = "bak"
        PROVE  file'[g] = file[g]
    BY <2>5, <1>4 DEF OnlyTouches
  <2>6. Knows(p)'
    BY <1>1, <2>1, <2>5 DEF Task, Knows, Recovering, Busy, IsRunner
  <2>. QED BY <2>2, <2>3, <2>4, <2>6 DEF Task
<1>. QED BY <1>1, <1>2, <1>4, <1>5, <1>6, FileChanges DEF NewIsOwn, WithNew

-------------------------------------------------------------------------------
(* The steps that add an entry.                                            *)

LEMMA Begins ==
    ASSUME RInv, NEW p \in Procs, pc[p] \in {"process", "shunt", "emit"},
           pc' \in [Procs -> Labels], pc'[p] \in WithNew,
           pc'[p] \in Untouched => pc[p] \in Untouched,
           \A q \in Procs \ {p} : pc'[q] = pc[q],
           NEW q \in Queues, NEW which \in Queues, BeginEnqueue(p, q, which),
           UNCHANGED <<todo, cur>>
    PROVE  Rest'
<1>1. /\ cur[p] \in 1..Len(file) /\ file \in Seq(Entry) /\ Len(file) \in Nat
      /\ todo[p] \subseteq 1..Len(file) /\ MsgOf(p) \in Msgs /\ Task(p)
      /\ \A r \in Procs : new[r] \in 0..Len(file)
  BY FileTypes, MsgAtHand DEF RInv, IInv, WithCur
<1>2. PICK o \in OwnersOf(q) :
         file' = Append(file, NewEntry(q, MsgOf(p), o, which, Serves[p], "tmp"))
  BY DEF BeginEnqueue, WriteTmp
<1>3. Added(q, MsgOf(p), o, "tmp")
  BY <1>1, <1>2, AppendFields, SwitchboardAssumption DEF Extensions
<1>4. /\ OthersMove(p) /\ todo'[p] = todo[p] /\ cur'[p] = cur[p]
      /\ new'[p] = Len(file) + 1
  BY DEF RInv, IInv, TypeOK, BeginEnqueue, OthersMove
<1>5. /\ Len(file') = Len(file) + 1 /\ file'[Len(file) + 1].ext = "tmp"
      /\ \A g \in 1..Len(file) : file'[g] = file[g]
  BY <1>3 DEF Added, Appended
<1>6. OwnList(p)'
  BY <1>1, <1>4, <1>5 DEF Task, OwnList, Recovering, WithNew
<1>7. OwnCur(p)'
  BY <1>1, <1>4, <1>5 DEF Task, OwnCur, WithCur, WithNew
<1>8. OwnNew(p)'
  <2>1. ASSUME NEW r \in Procs \ {p} PROVE new'[r] # new'[p]
    BY <2>1, <1>1, <1>4 DEF OthersMove
  <2>. QED BY <2>1, <1>4, <1>5 DEF OwnNew
<1>9. Knows(p)'
  <2>1. pc[p] \in Busy \/ ~IsRunner(p)
    BY <1>1 DEF Task, OwnCur, Busy, WithCur
  <2>2. pc'[p] \in Busy
    BY DEF Busy, WithNew
  <2>. QED BY <1>1, <1>4, <1>5, <2>1, <2>2 DEF Task, Knows, Busy, Recovering, IsRunner
<1>10. NewIsOwn(p)
  BY <1>1, <1>4 DEF NewIsOwn
<1>. QED BY <1>1, <1>3, <1>4, <1>6, <1>7, <1>8, <1>9, <1>10, FileAdded DEF Task

LEMMA BeginsTask ==
    ASSUME RInv, NEW p \in Procs,
           Forward(p) \/ Keep(p) \/ MissingList(p) \/ Shunt(p) \/ UnshuntEmit(p)
    PROVE  Rest'
<1>1. pc \in [Procs -> Labels] /\ "shunt" \in Queues /\ Serves[p] \in Queues
      /\ NextQ[Serves[p]] \in Queues
  BY SwitchboardAssumption, RunnerAssumption DEF RInv, IInv, TypeOK
<1>2. ASSUME pc[p] \in WithCur PROVE file[cur[p]].whichq \in Queues
  BY <1>2, WhichqType DEF RInv
<1>3. CASE Forward(p)
  BY <1>1, <1>2, <1>3, Begins DEF Forward, Goto, WithCur, WithNew, Untouched, Labels
<1>4. CASE Keep(p)
  BY <1>1, <1>2, <1>4, Begins DEF Keep, Goto, WithCur, WithNew, Untouched, Labels
<1>5. CASE MissingList(p)
  BY <1>1, <1>2, <1>5, Begins DEF MissingList, Goto, WithCur, WithNew, Untouched, Labels
<1>6. CASE Shunt(p)
  BY <1>1, <1>2, <1>6, Begins DEF Shunt, Goto, WithCur, WithNew, Untouched, Labels
<1>7. CASE UnshuntEmit(p)
  BY <1>1, <1>2, <1>7, Begins DEF UnshuntEmit, Goto, WithCur, WithNew, Untouched, Labels
<1>. QED BY <1>3, <1>4, <1>5, <1>6, <1>7

(* A producer adds an entry that is nobody's task yet.                     *)
LEMMA AcceptTask ==
    ASSUME RInv, NEW m \in Msgs, Accept(m)
    PROVE  Rest'
<1>1. file \in Seq(Entry) /\ Len(file) \in Nat /\ UNCHANGED procVars
  BY FileTypes DEF RInv, IInv, Accept
<1>2. PICK o \in OwnersOf(InQ[m]) :
         file' = Append(file, NewEntry(InQ[m], m, o, "in", InQ[m], "pck"))
  BY DEF Accept
<1>3. Added(InQ[m], m, o, "pck") /\ InQ[m] \in Queues
  BY <1>1, <1>2, AppendFields, SwitchboardAssumption, QueueFlowAssumption DEF Extensions
<1>4. /\ Len(file') = Len(file) + 1 /\ file'[Len(file) + 1].ext = "pck"
      /\ \A g \in 1..Len(file) : file'[g] = file[g]
  BY <1>3 DEF Added, Appended
<1>5. ASSUME NEW p \in Procs PROVE Task(p)'
  <2>1. /\ Task(p) /\ todo[p] \subseteq 1..Len(file) /\ new[p] \in 0..Len(file)
        /\ pc[p] \in WithCur => cur[p] \in 1..Len(file)
    BY FileTypes, MsgAtHand DEF RInv, IInv
  <2>2. pc[p] \in WithNew => new[p] \in 1..Len(file)
    BY <2>1 DEF RInv, IInv, Local, WithNew, WithCur
  <2>3. OwnList(p)'
    BY <1>1, <1>4, <2>1 DEF procVars, Task, OwnList
  <2>4. OwnCur(p)'
    BY <1>1, <1>4, <2>1 DEF procVars, Task, OwnCur, WithCur
  <2>5. OwnNew(p)'
    BY <1>1, <1>4, <2>1, <2>2 DEF procVars, Task, OwnNew
  <2>6. Knows(p)'
    BY <1>1, <1>4, <2>1 DEF procVars, Task, Knows, IsRunner
  <2>. QED BY <2>3, <2>4, <2>5, <2>6 DEF Task
<1>6. ASSUME NEW g \in 1..Len(file') PROVE EntryOK(g)'
  <2>1. CASE g = Len(file) + 1
    BY <2>1, <1>3, OwnersServe, SwitchboardAssumption DEF Added, EntryOK
  <2>2. CASE g # Len(file) + 1
    BY <1>1, <1>4, <2>2 DEF RInv, Entries, EntryOK
  <2>. QED BY <2>1, <2>2
<1>. QED BY <1>5, <1>6 DEF Rest, Entries

-------------------------------------------------------------------------------
(* Initially and at every step.                                            *)
LEMMA RInitially == Init => RInv
<1>. SUFFICES ASSUME Init PROVE Rest
  BY Initially DEF RInv, Rest
<1>1. Entries
  BY DEF Init, SwitchboardInit, Entries
<1>2. ASSUME NEW p \in Procs PROVE Task(p)
  BY DEF Init, RunnerInit, Task, OwnList, OwnCur, OwnNew, Knows, WithCur, WithNew
<1>. QED BY <1>1, <1>2 DEF Rest

LEMMA RInductive ==
    ASSUME RInv, [Next]_vars
    PROVE  RInv'
<1>. SUFFICES Rest'
  BY Inductive DEF RInv, Rest
<1>1. ASSUME NEW m \in Msgs, Accept(m) PROVE Rest'
  BY <1>1, AcceptTask
<1>2. ASSUME NEW p \in Procs, StartRunner(p) \/ Recovery(p) PROVE Rest'
  BY <1>2, StartRunnerTask, RecoverPreserveTask, RecoverBeginTask, RecoverEndTask,
     RecoverMoveTask, RecoveredTask DEF Recovery
<1>3. ASSUME NEW p \in Procs, LeaveLoop(p) PROVE Rest'
  BY <1>3, ExitTask DEF LeaveLoop
<1>4. ASSUME NEW p \in Procs, Iteration(p) PROVE Rest'
  BY <1>3, <1>4, ListFilesTask, EndOfListTask, DequeueTask, LoadTask, BadPreserveTask,
     BeginsTask, DiscardTask, HoldTask, FailTask, PublishNewTask, FinishEntryTask,
     LeaveTryTask, ShuntFailsTask, ShuntPublishTask, ShuntFinishTask, PreserveTask,
     CommitTask, CheckTask, LoopTask
     DEF Iteration, Dispose
<1>5. ASSUME NEW p \in Procs, Unshunt(p) \/ UnshuntStart(p) PROVE Rest'
  <2>1. ASSUME UnshuntEnd(p) PROVE Rest'
    BY <2>1, ExitTask DEF UnshuntEnd
  <2>. QED BY <2>1, <1>5, UnshuntStartTask, UnshuntLoadTask, BeginsTask,
              UnshuntDiscardTask, UnshuntFinishTask DEF Unshunt
<1>6. ASSUME NEW p \in Procs, Fault(p) PROVE Rest'
  <2>1. ASSUME Crash(p) PROVE Rest'
    BY <2>1, ExitTask DEF Crash
  <2>2. ASSUME InterruptOutside(p) PROVE Rest'
    BY <2>2, ExitTask DEF InterruptOutside, Signalled
  <2>. QED BY <2>1, <2>2, <1>6, InterruptInsideTask, InterruptDequeueTask
           DEF Fault, Interrupt
<1>7. CASE UNCHANGED vars
  BY <1>7 DEF vars, procVars, RInv, Rest, Entries, EntryOK, Task, OwnList, OwnCur, OwnNew,
              Knows
<1>. QED BY <1>1, <1>2, <1>4, <1>5, <1>6, <1>7 DEF Next, Work, Running

LEMMA RInvariance == Spec => []RInv
BY RInitially, RInductive, PTL DEF Spec

(* While a runner is up, its only backup file is the one it is working on, *)
(* so that none is left behind until the next recovery; and no entry is    *)
(* tried more often than MAX_BAK_COUNT says, whenever the processes die.   *)
THEOREM BackupsAreTriedAgain == Spec => []BackupsTriedAgain
<1>1. RInv => BackupsTriedAgain
  BY DEF RInv, Entries, EntryOK, Task, Knows, Recovering, BackupsTriedAgain, IsRunner, Busy
<1>. QED BY <1>1, RInvariance, PTL

-------------------------------------------------------------------------------
(* Custody.  Two hypotheses on the constants: runners serve the queues by  *)
(* which messages enter (and the default of the unshunt command is one of  *)
(* them), and no message is held: the file of a message that is held is    *)
(* gone before the database has it, which Custody forbids.                 *)
Served(q) == \E p \in Procs : Serves[p] = q /\ IsRunner(p)

EntrancesServed == Served("in") /\ \A m \in Msgs : Served(InQ[m])
NoHolds == \A m \in Msgs : "hold" \notin Fate[m]

(* Where a process sends its message: a runner, wherever its queue leads   *)
(* to; the unshunt command, back to a queue that a runner serves.          *)
Route(p) ==
    /\ pc[p] \in {"process", "shunt"} => IsRunner(p)
    /\ pc[p] = "publish" => IsRunner(p) \/ Served(file[new[p]].q)
    /\ pc[p] = "shuntPublish" => file[new[p]].q = "shunt"

WaysBack == \A f \in 1..Len(file) : Served(file[f].whichq)

Routed == /\ held = {} /\ done \subseteq Accepted
          /\ WaysBack /\ \A p \in Procs : Route(p)

CInv == RInv /\ OnlyHolds /\ Routed

-------------------------------------------------------------------------------
(* What a step does to the entries: nothing, one operation of the          *)
(* switchboard on one of them, or a new one.                               *)
Operation(f) ==
    \/ Publish(f) /\ file[f].ext = "tmp"
    \/ Claim(f) /\ file[f].ext = "pck"
    \/ BeginRewrite(f)
    \/ EndRewrite(f)
    \/ Finish(f)
    \/ FinishPreserve(f)
    \/ Reinstate(f) /\ OnQueue(f)

NewFile == \E q, which, src \in Queues, m \in Msgs, e \in {"tmp", "pck"} :
              \E o \in OwnersOf(q) :
                 /\ file' = Append(file, NewEntry(q, m, o, which, src, e))
                 /\ WaysBack => Served(which)

(* So entries stay, with their messages and their ways back, and one that  *)
(* is being written stays in its queue.                                    *)
EntriesStay ==
    /\ Len(file') \in Nat /\ Len(file') >= Len(file)
    /\ \A g \in 1..Len(file) :
          /\ file'[g].msg = file[g].msg /\ file'[g].whichq = file[g].whichq
          /\ file[g].ext = "tmp" => file'[g].q = file[g].q
    /\ \A g \in 1..Len(file') : g > Len(file) => (WaysBack => Served(file'[g].whichq))

LEMMA OperationStays ==
    ASSUME file \in Seq(Entry), Len(file) \in Nat, NEW f \in 1..Len(file), Operation(f)
    PROVE  EntriesStay
<1>1. OnlyTouches(f) /\ file'[f].whichq = file[f].whichq
      /\ (file[f].ext = "tmp" => file'[f].q = file[f].q)
  BY PublishFields, ClaimFields, BeginRewriteFields, EndRewriteFields, FinishFields,
     FinishPreserveFields, ReinstateFields
     DEF Operation, Keeps, Buried, OnQueue
<1>. QED BY <1>1 DEF OnlyTouches, EntriesStay

LEMMA NewFileStays ==
    ASSUME file \in Seq(Entry), Len(file) \in Nat, NewFile
    PROVE  EntriesStay
<1>1. PICK q \in Queues, which \in Queues, src \in Queues, m \in Msgs, e \in {"tmp", "pck"} :
         \E o \in OwnersOf(q) :
            /\ file' = Append(file, NewEntry(q, m, o, which, src, e))
            /\ WaysBack => Served(which)
  BY DEF NewFile
<1>2. PICK o \in OwnersOf(q) :
            /\ file' = Append(file, NewEntry(q, m, o, which, src, e))
            /\ WaysBack => Served(which)
  BY <1>1
<1>3. Added(q, m, o, e) /\ file'[Len(file) + 1].whichq = which
  BY <1>2, AppendFields DEF Extensions
<1>. QED BY <1>2, <1>3 DEF Added, Appended, EntriesStay

LEMMA FilesOperated ==
    ASSUME RInv, NEW p \in Procs,
           \/ RecoverPreserve(p) \/ RecoverBegin(p) \/ Dequeue(p)
           \/ RecoverEnd(p) \/ RecoverMove(p) \/ BadPreserve(p) \/ Preserve(p)
           \/ FinishEntry(p) \/ ShuntFinish(p) \/ UnshuntFinish(p)
           \/ PublishNew(p) \/ ShuntPublish(p)
    PROVE  \E f \in 1..Len(file) : Operation(f)
<1>1. ASSUME NEW f \in Oldest(todo[p])
      PROVE  /\ f \in 1..Len(file)
             /\ pc[p] = "next" => file[f].ext = "pck"
  BY Listed DEF Recovering
<1>2. pc[p] \in WithCur => cur[p] \in 1..Len(file)
  BY AtHand
<1>3. pc[p] = "reinstate" => OnQueue(cur[p])
  BY AtHand DEF OnQueue, Untouched, WithCur
<1>4. pc[p] \in WithNew => new[p] \in 1..Len(file) /\ file[new[p]].ext = "tmp"
  <2>1. SUFFICES ASSUME pc[p] \in WithNew PROVE new[p] \in 1..Len(file)
    BY DEF RInv, Task, OwnNew
  <2>. QED BY <2>1, FileTypes DEF RInv, IInv, Local, WithNew, WithCur
<1>5. CASE RecoverPreserve(p)
  BY <1>1, <1>5 DEF RecoverPreserve, Operation
<1>6. CASE RecoverBegin(p)
  BY <1>1, <1>6 DEF RecoverBegin, Operation
<1>7. CASE Dequeue(p)
  BY <1>1, <1>7 DEF Dequeue, Goto, Operation
<1>8. CASE RecoverEnd(p) \/ RecoverMove(p)
  BY <1>2, <1>3, <1>8 DEF RecoverEnd, RecoverMove, Goto, WithCur, Operation
<1>9. CASE BadPreserve(p) \/ Preserve(p)
  BY <1>2, <1>9 DEF BadPreserve, Preserve, Goto, WithCur, Operation
<1>10. CASE FinishEntry(p) \/ ShuntFinish(p) \/ UnshuntFinish(p)
  BY <1>2, <1>10 DEF FinishEntry, ShuntFinish, UnshuntFinish, Goto, WithCur, Operation
<1>11. CASE PublishNew(p) \/ ShuntPublish(p)
  BY <1>4, <1>11 DEF PublishNew, ShuntPublish, Goto, WithNew, Operation
<1>. QED BY <1>5, <1>6, <1>7, <1>8, <1>9, <1>10, <1>11

LEMMA FilesBegun ==
    ASSUME CInv, NEW p \in Procs,
           Forward(p) \/ Keep(p) \/ MissingList(p) \/ Shunt(p) \/ UnshuntEmit(p)
    PROVE  NewFile
<1>1. pc[p] \in WithCur
  BY DEF Forward, Keep, MissingList, Shunt, UnshuntEmit, Goto, WithCur
<1>2. MsgOf(p) \in Msgs /\ cur[p] \in 1..Len(file) /\ file[cur[p]].whichq \in Queues
  BY <1>1, MsgAtHand, WhichqType DEF CInv, RInv
<1>3. "shunt" \in Queues /\ Serves[p] \in Queues /\ NextQ[Serves[p]] \in Queues
  BY SwitchboardAssumption, RunnerAssumption
<1>4. WaysBack => Served(file[cur[p]].whichq)
  BY <1>2 DEF WaysBack
<1>5. pc[p] = "shunt" => Served(Serves[p])
  BY DEF CInv, Routed, Route, Served
<1>6. ASSUME NEW q \in Queues, NEW which \in Queues, BeginEnqueue(p, q, which),
             WaysBack => Served(which)
      PROVE  NewFile
  BY <1>2, <1>3, <1>6 DEF BeginEnqueue, WriteTmp, NewFile
<1>7. CASE Forward(p)
  BY <1>2, <1>3, <1>4, <1>6, <1>7 DEF Forward
<1>8. CASE Keep(p)
  BY <1>2, <1>3, <1>4, <1>6, <1>8 DEF Keep
<1>9. CASE MissingList(p)
  BY <1>2, <1>3, <1>4, <1>6, <1>9 DEF MissingList
<1>10. CASE Shunt(p)
  BY <1>3, <1>5, <1>6, <1>10 DEF Shunt, Goto
<1>11. CASE UnshuntEmit(p)
  BY <1>2, <1>4, <1>6, <1>11 DEF UnshuntEmit
<1>. QED BY <1>7, <1>8, <1>9, <1>10, <1>11

(* The steps of p that leave the entries alone.                            *)
Quiet(p) ==
    \/ StartRunner(p) \/ Recovered(p) \/ ListFiles(p) \/ EndOfList(p) \/ Load(p)
    \/ Discard(p) \/ Hold(p) \/ Fail(p) \/ LeaveTry(p) \/ ShuntFails(p) \/ Commit(p)
    \/ Check(p) \/ Loop(p) \/ LeaveLoop(p)
    \/ UnshuntStart(p) \/ UnshuntLoad(p) \/ UnshuntDiscard(p) \/ UnshuntEnd(p)
    \/ Fault(p)

LEMMA QuietFiles ==
    ASSUME NEW p \in Procs, Quiet(p)
    PROVE  file' = file
BY DEF Quiet, StartRunner, Recovered, ListFiles, EndOfList, Load, Discard, Hold, Fail,
       LeaveTry, ShuntFails, Commit, Check, Loop, LeaveLoop, UnshuntStart, UnshuntLoad,
       UnshuntDiscard, UnshuntEnd, Fault, Crash, Interrupt, InterruptInside,
       InterruptDequeue, InterruptOutside, Signalled

Operates(p) ==
    \/ RecoverPreserve(p) \/ RecoverBegin(p) \/ Dequeue(p)
    \/ RecoverEnd(p) \/ RecoverMove(p) \/ BadPreserve(p) \/ Preserve(p)
    \/ FinishEntry(p) \/ ShuntFinish(p) \/ UnshuntFinish(p)
    \/ PublishNew(p) \/ ShuntPublish(p)

Enqueues(p) == Forward(p) \/ Keep(p) \/ MissingList(p) \/ Shunt(p) \/ UnshuntEmit(p)

LEMMA NextKinds ==
    ASSUME Next
    PROVE  \/ \E m \in Msgs : Accept(m)
           \/ \E p \in Procs : Quiet(p) \/ Operates(p) \/ Enqueues(p)
BY DEF Next, Work, Running, Recovery, Iteration, Dispose, Unshunt, Quiet, Operates, Enqueues

(* The entry that is begun has the message at hand.                        *)
LEMMA EnqueuesAdd ==
    ASSUME RInv, NEW p \in Procs, Enqueues(p)
    PROVE  \E q \in Queues : \E o \in OwnersOf(q) : Added(q, MsgOf(p), o, "tmp")
<1>1. file \in Seq(Entry) /\ Serves[p] \in Queues
  BY FileTypes, SwitchboardAssumption DEF RInv, IInv
<1>2. pc[p] \in WithCur
  BY DEF Enqueues, Forward, Keep, MissingList, Shunt, UnshuntEmit, Goto, WithCur
<1>3. MsgOf(p) \in Msgs /\ file[cur[p]].whichq \in Queues
  BY <1>2, MsgAtHand, WhichqType DEF RInv
<1>4. PICK q \in Queues, which \in Queues : BeginEnqueue(p, q, which)
  BY <1>1, <1>3, SwitchboardAssumption, RunnerAssumption
     DEF Enqueues, Forward, Keep, MissingList, Shunt, UnshuntEmit
<1>5. PICK o \in OwnersOf(q) :
         file' = Append(file, NewEntry(q, MsgOf(p), o, which, Serves[p], "tmp"))
  BY <1>4 DEF BeginEnqueue, WriteTmp
<1>6. Added(q, MsgOf(p), o, "tmp")
  BY <1>1, <1>3, <1>5, AppendFields DEF Extensions
<1>. QED BY <1>6

LEMMA NextStays ==
    ASSUME CInv, EntrancesServed, Next
    PROVE  EntriesStay
<1>1. file \in Seq(Entry) /\ Len(file) \in Nat
  BY FileTypes DEF CInv, RInv, IInv
<1>2. ASSUME NEW m \in Msgs, Accept(m) PROVE NewFile
  BY <1>2, SwitchboardAssumption, QueueFlowAssumption DEF EntrancesServed, Accept, NewFile
<1>3. ASSUME NEW p \in Procs, Quiet(p) PROVE EntriesStay
  BY <1>1, <1>3, QuietFiles DEF EntriesStay
<1>4. ASSUME NEW p \in Procs, Operates(p) PROVE EntriesStay
  BY <1>1, <1>4, FilesOperated, OperationStays DEF Operates, CInv
<1>5. ASSUME NEW p \in Procs, Enqueues(p) PROVE NewFile
  BY <1>5, FilesBegun DEF Enqueues
<1>. QED BY <1>1, <1>2, <1>3, <1>4, <1>5, NextKinds, NewFileStays

LEMMA NextMoves ==
    ASSUME IInv, NEW p \in Procs, Quiet(p) \/ Operates(p) \/ Enqueues(p)
    PROVE  \A q \in Procs \ {p} : pc'[q] = pc[q] /\ cur'[q] = cur[q] /\ new'[q] = new[q]
<1>. /\ pc \in [Procs -> Labels] /\ new \in [Procs -> 0..Len(file)]
     /\ cur \in [Procs -> 0..Len(file)]
  BY DEF IInv, TypeOK
<1>1. CASE \/ StartRunner(p) \/ Recovered(p) \/ ListFiles(p) \/ EndOfList(p) \/ Load(p)
           \/ Discard(p) \/ Hold(p) \/ Fail(p) \/ LeaveTry(p) \/ ShuntFails(p) \/ Commit(p)
           \/ Check(p) \/ Loop(p) \/ UnshuntStart(p) \/ UnshuntLoad(p) \/ UnshuntDiscard(p)
  BY <1>1 DEF StartRunner, Recovered, ListFiles, EndOfList, Load, Discard, Hold, Fail,
       LeaveTry, ShuntFails, Commit, Check, Loop, UnshuntStart, UnshuntLoad,
       UnshuntDiscard, Goto, Release
<1>2. CASE LeaveLoop(p) \/ UnshuntEnd(p) \/ Fault(p)
  BY <1>2 DEF LeaveLoop, UnshuntEnd, Fault, Crash, Interrupt, InterruptInside,
              InterruptDequeue, InterruptOutside, Signalled, Goto, Exit
<1>3. CASE Operates(p)
  BY <1>3 DEF Operates, RecoverPreserve, RecoverBegin, Dequeue, RecoverEnd, RecoverMove,
              BadPreserve, Preserve, FinishEntry, ShuntFinish, UnshuntFinish, PublishNew,
              ShuntPublish, Goto, Release
<1>4. CASE Enqueues(p)
  BY <1>4 DEF Enqueues, Forward, Keep, MissingList, Shunt, UnshuntEmit, BeginEnqueue, Goto
<1>. QED BY <1>1, <1>2, <1>3, <1>4 DEF Quiet

LEMMA NewIsWritten ==
    ASSUME RInv, NEW p \in Procs, pc[p] \in WithNew
    PROVE  new[p] \in 1..Len(file) /\ file[new[p]].ext = "tmp"
<1>1. new[p] > cur[p] /\ cur[p] >= 1
  BY DEF RInv, IInv, Local, WithNew, WithCur
<1>. QED BY <1>1, FileTypes DEF RInv, IInv, Task, OwnNew

LEMMA RouteStays ==
    ASSUME RInv, EntriesStay, NEW q \in Procs, Route(q),
           pc'[q] = pc[q], new'[q] = new[q]
    PROVE  Route(q)'
<1>1. pc[q] \in WithNew => file'[new[q]].q = file[new[q]].q
  BY NewIsWritten DEF EntriesStay
<1>. QED BY <1>1 DEF Route, WithNew, Served, IsRunner

LEMMA RouteOfQuiet ==
    ASSUME CInv, NEW p \in Procs, Quiet(p) \/ Operates(p)
    PROVE  Route(p)'
<1>. pc \in [Procs -> Labels] /\ Route(p)
  BY DEF CInv, RInv, IInv, TypeOK, Routed
<1>1. CASE InterruptInside(p)
  <2>1. pc[p] \in Inside /\ pc' = [pc EXCEPT ![p] = InterruptHandler(pc[p])] /\ IsRunner(p)
    BY <1>1 DEF InterruptInside, Signalled
  <2>2. InterruptHandler(pc[p]) \in {"badPreserve", "shunt", "preserve"}
    BY <2>1 DEF InterruptHandler, Inside
  <2>. QED BY <2>1, <2>2 DEF Route, IsRunner
<1>2. ASSUME ~InterruptInside(p)
      PROVE  pc'[p] \in {"process", "shunt"} => IsRunner(p)
  BY <1>2 DEF Quiet, StartRunner, Recovered, ListFiles, EndOfList, Load, Discard, Hold, Fail,
       LeaveTry, ShuntFails, Commit, Check, Loop, UnshuntStart, UnshuntLoad,
       UnshuntDiscard, LeaveLoop, UnshuntEnd, Fault, Crash, Interrupt,
       InterruptDequeue, InterruptOutside, Signalled, Goto, Exit,
       Operates, RecoverPreserve, RecoverBegin, Dequeue, RecoverEnd, RecoverMove,
       BadPreserve, Preserve, FinishEntry, ShuntFinish, UnshuntFinish, PublishNew,
       ShuntPublish, Route
<1>3. ASSUME ~InterruptInside(p) PROVE pc'[p] \notin WithNew
  BY <1>3 DEF WithNew, Quiet, StartRunner, Recovered, ListFiles, EndOfList, Load, Discard,
       Hold, Fail, LeaveTry, ShuntFails, Commit, Check, Loop, UnshuntStart, UnshuntLoad,
       UnshuntDiscard, LeaveLoop, UnshuntEnd, Fault, Crash, Interrupt,
       InterruptDequeue, InterruptOutside, Signalled, Goto, Exit,
       Operates, RecoverPreserve, RecoverBegin, Dequeue, RecoverEnd, RecoverMove,
       BadPreserve, Preserve, FinishEntry, ShuntFinish, UnshuntFinish, PublishNew,
       ShuntPublish
<1>. QED BY <1>1, <1>2, <1>3 DEF Route, WithNew, IsRunner

LEMMA RouteOfEnqueues ==
    ASSUME CInv, NEW p \in Procs, Enqueues(p)
    PROVE  Route(p)'
<1>1. /\ pc \in [Procs -> Labels] /\ new \in [Procs -> 0..Len(file)] /\ Route(p)
      /\ file \in Seq(Entry) /\ Len(file) \in Nat
  BY FileTypes DEF CInv, RInv, IInv, TypeOK, Routed
<1>2. pc[p] \in WithCur
  BY DEF Enqueues, Forward, Keep, MissingList, Shunt, UnshuntEmit, Goto, WithCur
<1>3. MsgOf(p) \in Msgs /\ cur[p] \in 1..Len(file) /\ file[cur[p]].whichq \in Queues
  BY <1>2, MsgAtHand, WhichqType DEF CInv, RInv
<1>4. "shunt" \in Queues /\ Serves[p] \in Queues /\ NextQ[Serves[p]] \in Queues
  BY SwitchboardAssumption, RunnerAssumption
<1>5. ASSUME NEW q \in Queues, NEW which \in Queues, BeginEnqueue(p, q, which)
      PROVE  file'[new'[p]].q = q
  <2>1. PICK o \in OwnersOf(q) :
         file' = Append(file, NewEntry(q, MsgOf(p), o, which, Serves[p], "tmp"))
    BY <1>5 DEF BeginEnqueue, WriteTmp
  <2>2. Added(q, MsgOf(p), o, "tmp")
    BY <1>1, <1>3, <1>4, <2>1, AppendFields DEF Extensions
  <2>. QED BY <1>1, <1>5, <2>2 DEF BeginEnqueue, Added
<1>6. CASE Forward(p) \/ Keep(p) \/ MissingList(p)
  BY <1>1, <1>6 DEF Forward, Keep, MissingList, Goto, Route, IsRunner
<1>7. CASE Shunt(p)
  BY <1>1, <1>4, <1>5, <1>7 DEF Shunt, Goto, Route
<1>8. CASE UnshuntEmit(p)
  <2>1. Served(file[cur[p]].whichq)
    BY <1>3 DEF CInv, Routed, WaysBack
  <2>2. file'[new'[p]].q = file[cur[p]].whichq /\ pc'[p] = "publish"
    BY <1>1, <1>3, <1>5, <1>8 DEF UnshuntEmit, Goto
  <2>. QED BY <2>1, <2>2 DEF Route, Served, IsRunner
<1>. QED BY <1>6, <1>7, <1>8 DEF Enqueues

(* Without holds, transactions are empty.                                  *)
LEMMA NothingOpen ==
    ASSUME CInv, NoHolds
    PROVE  dropped = {} /\ \A p \in Procs : txn[p] = {}
BY DEF CInv, RInv, IInv, TypeOK, OnlyHolds, NoHolds

LEMMA HeldStays ==
    ASSUME CInv, NoHolds, Next
    PROVE  held' = held
<1>1. ASSUME NEW p \in Procs, Commit(p) PROVE held' = held
  BY <1>1, NothingOpen DEF Commit
<1>2. ASSUME NEW p \in Procs, Quiet(p) PROVE held' = held
  BY <1>1, <1>2 DEF Quiet, StartRunner, Recovered, ListFiles, EndOfList, Load, Discard, Hold,
       Fail, LeaveTry, ShuntFails, Check, Loop, UnshuntStart, UnshuntLoad,
       UnshuntDiscard, LeaveLoop, UnshuntEnd, Fault, Crash, Interrupt, InterruptInside,
       InterruptDequeue, InterruptOutside, Signalled, dbVars
<1>3. ASSUME NEW p \in Procs, Operates(p) \/ Enqueues(p) PROVE held' = held
  BY <1>3 DEF Operates, RecoverPreserve, RecoverBegin, Dequeue, RecoverEnd, RecoverMove,
       BadPreserve, Preserve, FinishEntry, ShuntFinish, UnshuntFinish, PublishNew,
       ShuntPublish, Enqueues, Forward, Keep, MissingList, Shunt, UnshuntEmit, dbVars
<1>4. ASSUME NEW m \in Msgs, Accept(m) PROVE held' = held
  BY <1>4 DEF Accept, dbVars
<1>. QED BY <1>2, <1>3, <1>4, NextKinds

(* What is disposed of is the message at hand.                             *)
LEMMA DoneGrows ==
    ASSUME CInv, Next
    PROVE  \/ done' = done
           \/ \E p \in Procs : /\ Discard(p) \/ UnshuntDiscard(p)
                               /\ done' = done \cup {MsgOf(p)}
<1>1. ASSUME NEW p \in Procs, Quiet(p), ~Discard(p), ~UnshuntDiscard(p) PROVE done' = done
  BY <1>1 DEF Quiet, StartRunner, Recovered, ListFiles, EndOfList, Load, Hold, Commit,
       Fail, LeaveTry, ShuntFails, Check, Loop, UnshuntStart, UnshuntLoad,
       LeaveLoop, UnshuntEnd, Fault, Crash, Interrupt, InterruptInside,
       InterruptDequeue, InterruptOutside, Signalled, dbVars
<1>2. ASSUME NEW p \in Procs, Operates(p) \/ Enqueues(p) PROVE done' = done
  BY <1>2 DEF Operates, RecoverPreserve, RecoverBegin, Dequeue, RecoverEnd, RecoverMove,
       BadPreserve, Preserve, FinishEntry, ShuntFinish, UnshuntFinish, PublishNew,
       ShuntPublish, Enqueues, Forward, Keep, MissingList, Shunt, UnshuntEmit, dbVars
<1>3. ASSUME NEW m \in Msgs, Accept(m) PROVE done' = done
  BY <1>3 DEF Accept, dbVars
<1>4. ASSUME NEW p \in Procs, Discard(p) \/ UnshuntDiscard(p)
      PROVE  done' = done \cup {MsgOf(p)}
  BY <1>4 DEF Discard, UnshuntDiscard
<1>. QED BY <1>1, <1>2, <1>3, <1>4, NextKinds

LEMMA CInductive ==
    ASSUME CInv, NoHolds, EntrancesServed, Next
    PROVE  CInv'
<1>1. RInv' /\ OnlyHolds' /\ EntriesStay
  BY RInductive, OnlyHoldsInductive, NextStays DEF CInv, RInv
<1>2. held' = {}
  BY HeldStays DEF CInv, Routed
<1>3. WaysBack'
  BY <1>1 DEF CInv, Routed, WaysBack, EntriesStay, Served, IsRunner
<1>4. Accepted \subseteq Accepted'
  BY <1>1 DEF Accepted, EntriesStay
<1>5. done' \subseteq Accepted'
  <2>1. ASSUME NEW p \in Procs, Discard(p) \/ UnshuntDiscard(p) PROVE MsgOf(p) \in Accepted
    BY <2>1, MsgAtHand DEF Discard, UnshuntDiscard, Goto, WithCur, CInv, RInv
  <2>. QED BY <2>1, <1>4, DoneGrows DEF CInv, Routed
<1>6. ASSUME NEW q \in Procs PROVE Route(q)'
  <2>1. CASE \E m \in Msgs : Accept(m)
    BY <2>1, <1>1, RouteStays DEF Accept, procVars, CInv, Routed
  <2>2. ASSUME NEW p \in Procs, Quiet(p) \/ Operates(p) \/ Enqueues(p) PROVE Route(q)'
    <3>1. CASE q = p
      BY <2>2, <3>1, RouteOfQuiet, RouteOfEnqueues
    <3>2. CASE q # p
      BY <2>2, <3>2, <1>1, NextMoves, RouteStays DEF CInv, RInv, Routed
    <3>. QED BY <3>1, <3>2
  <2>. QED BY <2>1, <2>2, NextKinds
<1>. QED BY <1>1, <1>2, <1>3, <1>5, <1>6 DEF CInv, Routed

LEMMA CInitially == Init => CInv
<1>. SUFFICES ASSUME Init PROVE CInv
  OBVIOUS
<1>1. RInv /\ OnlyHolds
  BY RInitially DEF Init, RunnerInit, OnlyHolds
<1>2. Routed
  BY DEF Init, SwitchboardInit, RunnerInit, Routed, WaysBack, Route
<1>. QED BY <1>1, <1>2 DEF CInv

-------------------------------------------------------------------------------
(* Where the messages are.                                                 *)
LEMMA PlacesAre ==
    ASSUME NEW f
    PROVE  /\ PlaceOf(f) \in {"queue", "next", "shunt", "bad"}
           /\ file[f].q = "shunt" => PlaceOf(f) = "shunt"
           /\ file[f].q = "bad" => PlaceOf(f) = "bad"
           /\ Served(file[f].q) => PlaceOf(f) = "queue"
<1>1. Served(file[f].q) => file[f].q \notin {"shunt", "bad"}
  BY SwitchboardAssumption DEF Served, IsRunner
<1>2. Served(file[f].q) => \E p \in Procs : Serves[p] = file[f].q
  BY DEF Served
<1>3. CASE file[f].q \in {"shunt", "bad"}
  BY <1>1, <1>3 DEF PlaceOf
<1>4. CASE file[f].q \notin {"shunt", "bad"} /\ \E p \in Procs : Serves[p] = file[f].q
  BY <1>4 DEF PlaceOf
<1>5. CASE file[f].q \notin {"shunt", "bad"} /\ ~\E p \in Procs : Serves[p] = file[f].q
  BY <1>2, <1>5 DEF PlaceOf
<1>. QED BY <1>3, <1>4, <1>5

(* The places of m but for entry f.                                        *)
Elsewhere(m, f) ==
    {PlaceOf(g) : g \in {h \in 1..Len(file) : h # f /\ file[h].msg = m /\ Live(h)}}
    \cup (IF m \in done THEN {"done"} ELSE {})
    \cup (IF m \in held THEN {"db"} ELSE {})

Here(f) == IF Live(f) THEN {PlaceOf(f)} ELSE {}

LEMMA PlacesSplit ==
    ASSUME NEW f \in 1..Len(file), NEW n \in Msgs, file[f].msg = n
    PROVE  Places(n) = Elsewhere(n, f) \cup Here(f)
BY DEF Places, Elsewhere, Here

LEMMA PlacesOfTouched ==
    ASSUME NEW f \in 1..Len(file), OnlyTouches(f), done' = done, held' = held,
           NEW n \in Msgs, file[f].msg = n
    PROVE  /\ \A m \in Msgs : m # n => Places(m)' = Places(m)
           /\ Places(n)' = Elsewhere(n, f) \cup Here(f)'
<1>1. /\ Len(file') = Len(file) /\ file'[f].msg = n
      /\ \A g \in 1..Len(file) : g # f => file'[g] = file[g]
  BY DEF OnlyTouches
<1>2. \A g \in 1..Len(file) : g # f => PlaceOf(g)' = PlaceOf(g) /\ Live(g)' = Live(g)
  BY <1>1 DEF PlaceOf, Live
<1>3. ASSUME NEW m \in Msgs, m # n PROVE Places(m)' = Places(m)
  <2>1. {g \in 1..Len(file') : file'[g].msg = m /\ Live(g)'}
           = {g \in 1..Len(file) : file[g].msg = m /\ Live(g)}
    BY <1>1, <1>2, <1>3
  <2>2. {PlaceOf(g)' : g \in {h \in 1..Len(file) : file[h].msg = m /\ Live(h)}}
           = {PlaceOf(g) : g \in {h \in 1..Len(file) : file[h].msg = m /\ Live(h)}}
    BY <1>2, <1>3
  <2>. QED BY <2>1, <2>2 DEF Places
<1>4. Elsewhere(n, f)' = Elsewhere(n, f)
  <2>1. {g \in 1..Len(file') : g # f /\ file'[g].msg = n /\ Live(g)'}
           = {g \in 1..Len(file) : g # f /\ file[g].msg = n /\ Live(g)}
    BY <1>1, <1>2
  <2>2. {PlaceOf(g)' : g \in {h \in 1..Len(file) : h # f /\ file[h].msg = n /\ Live(h)}}
           = {PlaceOf(g) : g \in {h \in 1..Len(file) : h # f /\ file[h].msg = n /\ Live(h)}}
    BY <1>2
  <2>. QED BY <1>1, <2>1, <2>2 DEF Elsewhere
<1>5. f \in 1..Len(file')
  BY <1>1
<1>6. Places(n)' = Elsewhere(n, f)' \cup Here(f)'
  BY <1>1, <1>5 DEF Places, Elsewhere, Here
<1>. QED BY <1>3, <1>4, <1>6

-------------------------------------------------------------------------------
(* What the places may do at a step.                                       *)
LEMMA PlacesStay ==
    ASSUME \A m \in Msgs : Places(m)' = Places(m)
    PROVE  [Promise!Next]_[m \in Msgs |-> Places(m)]
OBVIOUS

LEMMA PlacesSet ==
    ASSUME NEW n \in Msgs, NEW S, \A m \in Msgs : m # n => Places(m)' = Places(m),
           Places(n)' = S
    PROVE  Promise!Set(n, S)
BY DEF Promise!Set

LEMMA PlacesEnter ==
    ASSUME NEW n \in Msgs, \A m \in Msgs : m # n => Places(m)' = Places(m),
           Places(n) = {}, Places(n)' = {"queue"}
    PROVE  [Promise!Next]_[m \in Msgs |-> Places(m)]
<1>1. Promise!Enter(n)
  BY PlacesSet DEF Promise!Enter
<1>. QED BY <1>1 DEF Promise!Next

LEMMA PlacesCopy ==
    ASSUME NEW n \in Msgs, \A m \in Msgs : m # n => Places(m)' = Places(m),
           NEW x \in Places(n), NEW y, y \in Places(n) \/ <<x, y>> \in Promise!Routes,
           Places(n)' = Places(n) \cup {y}
    PROVE  [Promise!Next]_[m \in Msgs |-> Places(m)]
<1>1. CASE y \in Places(n)
  BY <1>1, PlacesStay
<1>2. CASE <<x, y>> \in Promise!Routes
  <2>1. Promise!Copy(n, <<x, y>>)
    BY PlacesSet DEF Promise!Copy
  <2>. QED BY <1>2, <2>1 DEF Promise!Next
<1>. QED BY <1>1, <1>2

LEMMA PlacesBury ==
    ASSUME NEW n \in Msgs, \A m \in Msgs : m # n => Places(m)' = Places(m),
           NEW x \in Places(n), x \in {"queue", "shunt"},
           \/ Places(n)' = Places(n) \cup {"bad"}
           \/ Places(n)' = (Places(n) \ {x}) \cup {"bad"}
    PROVE  [Promise!Next]_[m \in Msgs |-> Places(m)]
<1>1. <<x, "bad">> \in Promise!Routes
  BY DEF Promise!Routes
<1>2. CASE Places(n)' = Places(n) \cup {"bad"}
  BY <1>1, <1>2, PlacesCopy
<1>3. CASE Places(n)' = (Places(n) \ {x}) \cup {"bad"}
  <2>1. Promise!Bury(n, <<x, "bad">>)
    BY <1>3, PlacesSet DEF Promise!Bury
  <2>. QED BY <1>1, <2>1 DEF Promise!Next
<1>. QED BY <1>2, <1>3

LEMMA PlacesDrop ==
    ASSUME NEW n \in Msgs, \A m \in Msgs : m # n => Places(m)' = Places(m),
           NEW x \in Places(n), x \in {"queue", "shunt"}, Places(n) # {x},
           Places(n)' = Places(n) \/ Places(n)' = Places(n) \ {x}
    PROVE  [Promise!Next]_[m \in Msgs |-> Places(m)]
<1>1. CASE Places(n)' = Places(n)
  BY <1>1, PlacesStay
<1>2. CASE Places(n)' = Places(n) \ {x}
  <2>1. Promise!Drop(n, x)
    BY <1>2, PlacesSet DEF Promise!Drop
  <2>. QED BY <2>1 DEF Promise!Next
<1>. QED BY <1>1, <1>2

-------------------------------------------------------------------------------
(* Steps that move nothing.                                                *)
LEMMA SameFilesSamePlaces ==
    ASSUME file' = file, held' = held,
           NEW n, \A m \in Msgs : m # n => (m \in done' <=> m \in done)
    PROVE  \A m \in Msgs : m # n => Places(m)' = Places(m)
<1>1. \A g \in 1..Len(file) : PlaceOf(g)' = PlaceOf(g) /\ Live(g)' = Live(g)
  BY DEF PlaceOf, Live
<1>. QED BY <1>1 DEF Places

LEMMA TouchedInPlace ==
    ASSUME NEW f \in 1..Len(file), file[f].msg \in Msgs, OnlyTouches(f),
           file'[f].q = file[f].q, Live(f)' = Live(f), done' = done, held' = held
    PROVE  \A m \in Msgs : Places(m)' = Places(m)
<1>1. Here(f)' = Here(f)
  BY DEF Here, PlaceOf
<1>2. PICK n \in Msgs : file[f].msg = n
  OBVIOUS
<1>3. /\ \A m \in Msgs : m # n => Places(m)' = Places(m)
      /\ Places(n)' = Elsewhere(n, f) \cup Here(f)'
  BY <1>2, PlacesOfTouched
<1>4. Places(n) = Elsewhere(n, f) \cup Here(f)
  BY <1>2, PlacesSplit
<1>. QED BY <1>1, <1>3, <1>4

LEMMA WritingMovesNothing ==
    ASSUME NEW q, NEW m, NEW o, Added(q, m, o, "tmp"), Len(file) \in Nat,
           done' = done, held' = held
    PROVE  \A n \in Msgs : Places(n)' = Places(n)
<1>1. PICK k \in Nat : k = Len(file) + 1
  OBVIOUS
<1>2. /\ Len(file') = k /\ \A g \in 1..Len(file) : file'[g] = file[g]
      /\ file'[k].ext = "tmp"
  BY <1>1 DEF Added, Appended
<1>3. \A g \in 1..Len(file) : PlaceOf(g)' = PlaceOf(g) /\ Live(g)' = Live(g)
  BY <1>2 DEF PlaceOf, Live
<1>4. ~Live(k)'
  BY <1>2 DEF Live
<1>5. ASSUME NEW n \in Msgs PROVE Places(n)' = Places(n)
  <2>1. {g \in 1..Len(file') : file'[g].msg = n /\ Live(g)'}
           = {g \in 1..Len(file) : file[g].msg = n /\ Live(g)}
    BY <1>1, <1>2, <1>3, <1>4
  <2>2. {PlaceOf(g)' : g \in {h \in 1..Len(file) : file[h].msg = n /\ Live(h)}}
           = {PlaceOf(g) : g \in {h \in 1..Len(file) : file[h].msg = n /\ Live(h)}}
    BY <1>3
  <2>. QED BY <2>1, <2>2 DEF Places
<1>. QED BY <1>5

-------------------------------------------------------------------------------
(* Every step is one that Custody allows.                                  *)
LEMMA OwnPlace ==
    ASSUME CInv, NEW p \in Procs, NEW f \in 1..Len(file), file[f].owner = p
    PROVE  PlaceOf(f) = IF IsRunner(p) THEN "queue" ELSE "shunt"
<1>1. file[f].q = Serves[p]
  BY DEF CInv, RInv, Entries, EntryOK
<1>2. IsRunner(p) => Served(Serves[p])
  BY DEF Served
<1>. QED BY <1>1, <1>2, PlacesAre DEF IsRunner

LEMMA AcceptRefines ==
    ASSUME CInv, EntrancesServed, NEW m \in Msgs, Accept(m)
    PROVE  [Promise!Next]_[n \in Msgs |-> Places(n)]
<1>1. file \in Seq(Entry) /\ Len(file) \in Nat /\ done' = done /\ held' = held
  BY FileTypes DEF CInv, RInv, IInv, Accept, dbVars
<1>2. PICK o \in OwnersOf(InQ[m]) :
         file' = Append(file, NewEntry(InQ[m], m, o, "in", InQ[m], "pck"))
  BY DEF Accept
<1>3. Added(InQ[m], m, o, "pck")
  BY <1>1, <1>2, AppendFields, SwitchboardAssumption, QueueFlowAssumption DEF Extensions
<1>4. PICK k \in Nat : k = Len(file) + 1
  BY <1>1
<1>5. /\ Len(file') = k /\ \A g \in 1..Len(file) : file'[g] = file[g]
      /\ file'[k].ext = "pck" /\ file'[k].q = InQ[m] /\ file'[k].msg = m
  BY <1>3, <1>4 DEF Added, Appended
<1>6. \A g \in 1..Len(file) : PlaceOf(g)' = PlaceOf(g) /\ Live(g)' = Live(g)
  BY <1>5 DEF PlaceOf, Live
<1>7. Live(k)' /\ PlaceOf(k)' = "queue"
  <2>1. \E p \in Procs : Serves[p] = InQ[m] /\ IsRunner(p)
    BY DEF EntrancesServed, Served
  <2>2. InQ[m] \notin {"shunt", "bad"}
    BY <2>1, SwitchboardAssumption DEF IsRunner
  <2>. QED BY <1>5, <2>1, <2>2 DEF Live, PlaceOf
<1>8. ASSUME NEW n \in Msgs, n # m PROVE Places(n)' = Places(n)
  <2>1. {g \in 1..Len(file') : file'[g].msg = n /\ Live(g)'}
           = {g \in 1..Len(file) : file[g].msg = n /\ Live(g)}
    BY <1>1, <1>4, <1>5, <1>6, <1>8
  <2>2. {PlaceOf(g)' : g \in {h \in 1..Len(file) : file[h].msg = n /\ Live(h)}}
           = {PlaceOf(g) : g \in {h \in 1..Len(file) : file[h].msg = n /\ Live(h)}}
    BY <1>6
  <2>. QED BY <2>1, <2>2, <1>1 DEF Places
<1>9. /\ \A g \in 1..Len(file) : file[g].msg # m
      /\ m \notin done /\ m \notin held
  BY DEF Accept, Accepted, CInv, Routed
<1>10. Places(m) = {}
  BY <1>9 DEF Places
<1>11. {g \in 1..Len(file') : file'[g].msg = m /\ Live(g)'} = {k}
  BY <1>1, <1>4, <1>5, <1>7, <1>9
<1>12. Places(m)' = {"queue"}
  BY <1>1, <1>7, <1>9, <1>11 DEF Places
<1>. QED BY <1>8, <1>10, <1>12, PlacesEnter

LEMMA DiscardRefines ==
    ASSUME CInv, NEW p \in Procs, Discard(p) \/ UnshuntDiscard(p)
    PROVE  [Promise!Next]_[n \in Msgs |-> Places(n)]
<1>1. /\ pc[p] \in {"process", "emit"} /\ pc[p] \in WithCur /\ pc[p] \in Untouched
      /\ file' = file /\ held' = held /\ done' = done \cup {MsgOf(p)}
  BY DEF Discard, UnshuntDiscard, Goto, WithCur, Untouched
<1>2. /\ cur[p] \in 1..Len(file) /\ file[cur[p]].owner = p /\ file[cur[p]].ext = "bak"
      /\ MsgOf(p) \in Msgs
  BY <1>1, AtHand, MsgAtHand DEF CInv, RInv
<1>3. PICK n \in Msgs : n = MsgOf(p)
  BY <1>2
<1>4. PlaceOf(cur[p]) \in Places(n) /\ PlaceOf(cur[p]) \in {"queue", "shunt"}
  BY <1>2, <1>3, OwnPlace DEF Places, Live, MsgOf
<1>5. \A m \in Msgs : m # n => Places(m)' = Places(m)
  BY <1>1, <1>3, SameFilesSamePlaces
<1>6. \A g \in 1..Len(file) : PlaceOf(g)' = PlaceOf(g) /\ Live(g)' = Live(g)
  BY <1>1 DEF PlaceOf, Live
<1>7. Places(n)' = Places(n) \cup {"done"}
  BY <1>1, <1>3, <1>6 DEF Places
<1>8. <<PlaceOf(cur[p]), "done">> \in Promise!Routes
  BY <1>4 DEF Promise!Routes
<1>. QED BY <1>4, <1>5, <1>7, <1>8, PlacesCopy

LEMMA BuryRefines ==
    ASSUME CInv, NEW p \in Procs, NEW f \in 1..Len(file), file[f].owner = p,
           OnQueue(f), OnlyTouches(f), Buried(f), done' = done, held' = held
    PROVE  [Promise!Next]_[n \in Msgs |-> Places(n)]
<1>1. PICK n \in Msgs : file[f].msg = n
  BY FileTypes, EntryHasMsg DEF CInv, RInv, IInv
<1>2. Here(f) = {PlaceOf(f)} /\ PlaceOf(f) \in {"queue", "shunt"}
  BY OwnPlace DEF Here, Live, OnQueue
<1>3. Here(f)' = {"bad"}
  BY DEF Here, Live, PlaceOf, Buried
<1>4. /\ \A m \in Msgs : m # n => Places(m)' = Places(m)
      /\ Places(n)' = Elsewhere(n, f) \cup {"bad"}
      /\ Places(n) = Elsewhere(n, f) \cup {PlaceOf(f)}
  BY <1>1, <1>2, <1>3, PlacesOfTouched, PlacesSplit
<1>5. \/ Places(n)' = Places(n) \cup {"bad"}
      \/ Places(n)' = (Places(n) \ {PlaceOf(f)}) \cup {"bad"}
  BY <1>2, <1>4
<1>. QED BY <1>2, <1>4, <1>5, PlacesBury

LEMMA DropRefines ==
    ASSUME CInv, NoHolds, NEW p \in Procs, pc[p] \in Removing,
           Finish(cur[p]), done' = done, held' = held
    PROVE  [Promise!Next]_[n \in Msgs |-> Places(n)]
<1>1. PICK f \in 1..Len(file) : f = cur[p] /\ Finish(f)
  BY AtHand DEF CInv, Removing, WithCur
<1>2. PICK n \in Msgs : file[f].msg = n
  BY FileTypes, EntryHasMsg DEF CInv, RInv, IInv
<1>3. /\ OnlyTouches(f) /\ Keeps(f)
      /\ file'[f].ext = IF OnQueue(f) THEN "gone" ELSE file[f].ext
      /\ file[f].owner = p /\ file[f].ext \in {"pck", "bak", "gone"}
  BY <1>1, FinishFields, AtHand DEF CInv, Removing, WithCur
<1>4. /\ \A m \in Msgs : m # n => Places(m)' = Places(m)
      /\ Places(n)' = Elsewhere(n, f) \cup Here(f)'
      /\ Places(n) = Elsewhere(n, f) \cup Here(f)
  BY <1>2, <1>3, PlacesOfTouched, PlacesSplit
<1>5. CASE ~OnQueue(f)
  <2>1. file'[f].ext = file[f].ext /\ file'[f].q = file[f].q
    BY <1>3, <1>5 DEF Keeps
  <2>2. Here(f)' = Here(f)
    BY <2>1 DEF Here, Live, PlaceOf
  <2>. QED BY <1>4, <2>2, PlacesStay
<1>6. CASE OnQueue(f)
  <2>1. Here(f) = {PlaceOf(f)} /\ PlaceOf(f) \in {"queue", "shunt"} /\ Here(f)' = {}
    BY <1>3, <1>6, OwnPlace DEF Here, Live, OnQueue
  <2>2. Elsewhere(n, f) # {}
    <3>1. Handed(p) /\ MsgOf(p) = n
      BY <1>1, <1>2 DEF CInv, RInv, IInv, Local, MsgOf
    <3>2. CASE Safe(n)
      BY <3>2, NothingOpen DEF Safe, Settled, InTransaction, Elsewhere
    <3>3. ASSUME NEW g \in 1..Len(file), g > cur[p], file[g].msg = n, Live(g)
          PROVE  PlaceOf(g) \in Elsewhere(n, f)
      BY <1>1, <3>3 DEF Elsewhere
    <3>. QED BY <3>1, <3>2, <3>3 DEF Handed
  <2>3. Places(n)' = Places(n) \/ Places(n)' = Places(n) \ {PlaceOf(f)}
    BY <1>4, <2>1
  <2>4. CASE Places(n) = {PlaceOf(f)}
    BY <1>4, <2>1, <2>2, <2>4, PlacesStay
  <2>5. CASE Places(n) # {PlaceOf(f)}
    BY <1>4, <2>1, <2>3, <2>5, PlacesDrop
  <2>. QED BY <2>4, <2>5
<1>. QED BY <1>5, <1>6

LEMMA PublishRefines ==
    ASSUME CInv, NoHolds, NEW p \in Procs, pc[p] \in WithNew,
           Publish(new[p]), done' = done, held' = held
    PROVE  [Promise!Next]_[n \in Msgs |-> Places(n)]
<1>1. PICK f \in 1..Len(file) : f = new[p] /\ Publish(f)
  BY NewIsWritten DEF CInv
<1>2. file \in Seq(Entry) /\ file[f].ext = "tmp" /\ file[f].msg = MsgOf(p)
  BY <1>1, FileTypes, NewIsWritten DEF CInv, RInv, IInv, Local
<1>3. PICK n \in Msgs : file[f].msg = n
  BY <1>2, EntryHasMsg
<1>4. OnlyTouches(f) /\ Keeps(f) /\ file'[f].ext = "pck"
  BY <1>1, <1>2, PublishFields
<1>5. Here(f)' = {PlaceOf(f)} /\ Here(f) = {}
  BY <1>2, <1>4 DEF Here, Live, PlaceOf, Keeps
<1>6. /\ \A m \in Msgs : m # n => Places(m)' = Places(m)
      /\ Places(n)' = Places(n) \cup {PlaceOf(f)}
  BY <1>3, <1>4, <1>5, PlacesOfTouched, PlacesSplit
<1>7. /\ cur[p] \in 1..Len(file) /\ file[cur[p]].owner = p /\ file[cur[p]].msg = n
      /\ pc[p] = "publish" => file[cur[p]].ext = "bak"
  BY <1>2, <1>3, AtHand DEF CInv, WithNew, WithCur, Untouched, MsgOf
<1>8. CASE pc[p] = "publish"
  <2>1. PlaceOf(cur[p]) \in Places(n)
    BY <1>7, <1>8 DEF Places, Live
  <2>2. PlaceOf(cur[p]) = IF IsRunner(p) THEN "queue" ELSE "shunt"
    BY <1>7, OwnPlace
  <2>3. IsRunner(p) \/ PlaceOf(f) = "queue"
    BY <1>1, <1>8, PlacesAre DEF CInv, Routed, Route
  <2>4. \/ PlaceOf(f) \in Places(n)
        \/ <<PlaceOf(cur[p]), PlaceOf(f)>> \in Promise!Routes
    BY <2>1, <2>2, <2>3, PlacesAre DEF Promise!Routes
  <2>. QED BY <1>6, <2>1, <2>4, PlacesCopy
<1>9. CASE pc[p] = "shuntPublish"
  <2>1. PlaceOf(f) = "shunt"
    BY <1>1, <1>9, PlacesAre DEF CInv, Routed, Route
  <2>2. Places(n) # {}
    <3>1. n \in Accepted
      BY <1>3 DEF Accepted
    <3>2. OnDisk(n) \/ n \in done
      BY <3>1, NothingOpen DEF CInv, RInv, IInv, NoLoss, Settled, InTransaction, Routed
    <3>. QED BY <3>2 DEF OnDisk, Places
  <2>3. PICK x \in Places(n) : TRUE
    BY <2>2
  <2>4. x \in {"queue", "next", "shunt", "bad", "done"}
    BY <2>3, PlacesAre DEF Places, CInv, Routed
  <2>5. "shunt" \in Places(n) \/ <<x, "shunt">> \in Promise!Routes
    BY <2>3, <2>4 DEF Promise!Routes
  <2>. QED BY <1>6, <2>1, <2>3, <2>5, PlacesCopy
<1>. QED BY <1>8, <1>9 DEF WithNew

LEMMA OperatesRefines ==
    ASSUME CInv, NoHolds, NEW p \in Procs, Operates(p), done' = done, held' = held
    PROVE  [Promise!Next]_[n \in Msgs |-> Places(n)]
<1>1. /\ file \in Seq(Entry)
      /\ \A f \in 1..Len(file) : file[f].msg \in Msgs
  BY FileTypes, EntryHasMsg DEF CInv, RInv, IInv
<1>2. ASSUME NEW f \in 1..Len(file), OnlyTouches(f), file'[f].q = file[f].q,
             \/ file'[f].ext = file[f].ext
             \/ file[f].ext \in {"pck", "bak"} /\ file'[f].ext \in {"pck", "bak"}
      PROVE  [Promise!Next]_[n \in Msgs |-> Places(n)]
  <2>1. Live(f)' = Live(f)
    BY <1>2 DEF Live
  <2>. QED BY <1>1, <1>2, <2>1, TouchedInPlace, PlacesStay
<1>3. ASSUME NEW f \in 1..Len(file), file[f].owner = p, FinishPreserve(f)
      PROVE  [Promise!Next]_[n \in Msgs |-> Places(n)]
  <2>1. OnlyTouches(f) /\ IF OnQueue(f) THEN Buried(f) ELSE file' = file
    BY <1>1, <1>3, FinishPreserveFields
  <2>2. CASE OnQueue(f)
    BY <1>3, <2>1, <2>2, BuryRefines
  <2>3. CASE ~OnQueue(f)
    BY <1>2, <2>1, <2>3
  <2>. QED BY <2>2, <2>3
<1>4. CASE RecoverPreserve(p)
  BY <1>3, <1>4, Listed DEF RecoverPreserve, CInv
<1>5. CASE RecoverBegin(p)
  <2>1. PICK f \in Oldest(todo[p]) : BeginRewrite(f)
    BY <1>5 DEF RecoverBegin
  <2>2. f \in 1..Len(file)
    BY Listed DEF CInv
  <2>. QED BY <1>1, <1>2, <2>1, <2>2, BeginRewriteFields DEF Keeps
<1>6. CASE Dequeue(p)
  <2>1. PICK f \in Oldest(todo[p]) : Claim(f)
    BY <1>6 DEF Dequeue
  <2>2. f \in 1..Len(file) /\ file[f].ext = "pck"
    BY <1>6, Listed DEF Dequeue, Goto, Recovering, CInv
  <2>. QED BY <1>1, <1>2, <2>1, <2>2, ClaimFields
<1>7. CASE RecoverEnd(p)
  <2>1. PICK f \in 1..Len(file) : f = cur[p] /\ EndRewrite(f)
    BY <1>7, AtHand DEF RecoverEnd, Goto, WithCur, CInv
  <2>. QED BY <1>1, <1>2, <2>1, EndRewriteFields
<1>8. CASE RecoverMove(p)
  <2>1. PICK f \in 1..Len(file) : f = cur[p] /\ Reinstate(f)
    BY <1>8, AtHand DEF RecoverMove, Goto, WithCur, CInv
  <2>2. file[f].owner = p /\ file[f].ext = "bak" /\ OnQueue(f)
    BY <1>8, <2>1, AtHand DEF RecoverMove, Goto, WithCur, Untouched, OnQueue, CInv
  <2>3. OnlyTouches(f)
    BY <1>1, <2>1, <2>2, ReinstateFields
  <2>4. CASE file[f].bak >= MaxBakCount
    BY <1>1, <2>1, <2>2, <2>3, <2>4, ReinstateFields, BuryRefines
  <2>5. CASE ~(file[f].bak >= MaxBakCount)
    BY <1>1, <1>2, <2>1, <2>2, <2>3, <2>5, ReinstateFields DEF Keeps
  <2>. QED BY <2>4, <2>5
<1>9. CASE BadPreserve(p) \/ Preserve(p)
  BY <1>3, <1>9, AtHand DEF BadPreserve, Preserve, Goto, WithCur, CInv
<1>10. CASE FinishEntry(p) \/ ShuntFinish(p) \/ UnshuntFinish(p)
  BY <1>10, DropRefines DEF FinishEntry, ShuntFinish, UnshuntFinish, Goto, Removing
<1>11. CASE PublishNew(p) \/ ShuntPublish(p)
  BY <1>11, PublishRefines DEF PublishNew, ShuntPublish, Goto, WithNew
<1>. QED BY <1>4, <1>5, <1>6, <1>7, <1>8, <1>9, <1>10, <1>11 DEF Operates

LEMMA EnqueuesRefines ==
    ASSUME CInv, NEW p \in Procs, Enqueues(p), done' = done, held' = held
    PROVE  [Promise!Next]_[n \in Msgs |-> Places(n)]
<1>1. Len(file) \in Nat
  BY FileTypes DEF CInv, RInv, IInv
<1>2. PICK q \in Queues : \E o \in OwnersOf(q) : Added(q, MsgOf(p), o, "tmp")
  BY EnqueuesAdd DEF CInv
<1>3. PICK o \in OwnersOf(q) : Added(q, MsgOf(p), o, "tmp")
  BY <1>2
<1>. QED BY <1>1, <1>3, WritingMovesNothing, PlacesStay

LEMMA NextRefines ==
    ASSUME CInv, NoHolds, EntrancesServed, [Next]_vars
    PROVE  [Promise!Next]_[n \in Msgs |-> Places(n)]
<1>1. ASSUME file' = file, done' = done, held' = held
      PROVE  [Promise!Next]_[n \in Msgs |-> Places(n)]
  <2>1. \A g \in 1..Len(file) : PlaceOf(g)' = PlaceOf(g) /\ Live(g)' = Live(g)
    BY <1>1 DEF PlaceOf, Live
  <2>2. \A n \in Msgs : Places(n)' = Places(n)
    BY <1>1, <2>1 DEF Places
  <2>. QED BY <2>2, PlacesStay
<1>2. CASE UNCHANGED vars
  BY <1>1, <1>2 DEF vars, dbVars
<1>3. CASE Next
  <2>1. held' = held
    BY <1>3, HeldStays
  <2>2. CASE done' = done
    BY <1>1, <1>3, <2>1, <2>2, NextKinds, AcceptRefines, QuietFiles, OperatesRefines,
       EnqueuesRefines
  <2>3. ASSUME NEW p \in Procs, Discard(p) \/ UnshuntDiscard(p)
        PROVE  [Promise!Next]_[n \in Msgs |-> Places(n)]
    BY <2>3, DiscardRefines
  <2>. QED BY <1>3, <2>2, <2>3, DoneGrows
<1>. QED BY <1>2, <1>3

LEMMA StutterKeepsC ==
    ASSUME CInv, UNCHANGED vars
    PROVE  CInv'
<1>1. RInv' /\ OnlyHolds'
  BY RInductive, OnlyHoldsInductive DEF CInv, RInv
<1>. QED BY <1>1 DEF vars, procVars, dbVars, CInv, Routed, Accepted, WaysBack, Route

(* The queues, with all their processes, crashes, signals and recoveries,  *)
(* implement Custody: whatever happens, a copy of a message moves only     *)
(* along the routes, and no place gives up its copy before another place   *)
(* has one.  Runners serve the entrances, and no message is held.          *)
THEOREM QueuesImplementCustody ==
    ASSUME NoHolds, EntrancesServed
    PROVE  Spec => KeepsCustody
<1>1. Init => Promise!Init
  BY DEF Init, SwitchboardInit, RunnerInit, Promise!Init, Places
<1>2. CInv /\ [Next]_vars => CInv' /\ [Promise!Next]_[m \in Msgs |-> Places(m)]
  BY CInductive, StutterKeepsC, NextRefines
<1>. QED BY <1>1, <1>2, CInitially, PTL DEF Spec, KeepsCustody, Promise!Spec

-------------------------------------------------------------------------------
(* Duplicates.  Every entry that may still bring its message forward is    *)
(* pending: it is on disk and nobody has handed its message on yet, or a   *)
(* process is about to shunt what it has of it in memory.                  *)
Shunting == {"shunt", "shuntPublish"}

Pending(f) ==
    \/ Live(f) /\ \A p \in Procs : pc[p] \in Removing => cur[p] # f
    \/ \E p \in Procs : pc[p] \in Shunting /\ cur[p] = f

PendingOf(m) == {f \in 1..Len(file) : file[f].msg = m /\ Pending(f)}

(* There is one, and one more at most for each crash and each signal.      *)
FaultsPay == \A m \in Msgs : Cardinality(PendingOf(m)) <= 1 + crashes + signals

LEMMA PendingFinite ==
    ASSUME NEW m, file \in Seq(Entry)
    PROVE  IsFiniteSet(PendingOf(m)) /\ Cardinality(PendingOf(m)) \in Nat
<1>1. IsFiniteSet(1..Len(file))
  BY FS_Interval, LenProperties
<1>2. PendingOf(m) \subseteq 1..Len(file)
  BY DEF PendingOf
<1>. QED BY <1>1, <1>2, FS_Subset, FS_CardinalityType

(* The ways the pending entries of a message change.                       *)
LEMMA PendingShrinks ==
    ASSUME file \in Seq(Entry), crashes \in Nat, signals \in Nat, NEW m \in Msgs,
           Cardinality(PendingOf(m)) <= 1 + crashes + signals,
           PendingOf(m)' \subseteq PendingOf(m), UNCHANGED faultVars
    PROVE  Cardinality(PendingOf(m))' <= 1 + crashes' + signals'
<1>1. /\ IsFiniteSet(PendingOf(m)) /\ Cardinality(PendingOf(m)) \in Nat
  BY PendingFinite
<1>2. Cardinality(PendingOf(m)') \in Nat /\ Cardinality(PendingOf(m)') <= Cardinality(PendingOf(m))
  BY <1>1, FS_Subset, FS_CardinalityType
<1>. QED BY <1>1, <1>2 DEF faultVars

LEMMA AddOne ==
    ASSUME NEW S, IsFiniteSet(S), NEW x
    PROVE  /\ IsFiniteSet(S \cup {x}) /\ Cardinality(S \cup {x}) \in Nat
           /\ Cardinality(S \cup {x}) <= Cardinality(S) + 1
<1>1. /\ IsFiniteSet(S \cup {x})
      /\ Cardinality(S \cup {x}) = IF x \in S THEN Cardinality(S) ELSE Cardinality(S) + 1
  BY FS_AddElement
<1>2. Cardinality(S) \in Nat /\ Cardinality(S \cup {x}) \in Nat
  BY <1>1, FS_CardinalityType
<1>. QED BY <1>1, <1>2

LEMMA PendingGrows ==
    ASSUME file \in Seq(Entry), crashes \in Nat, signals \in Nat, NEW m \in Msgs,
           Cardinality(PendingOf(m)) <= 1 + crashes + signals,
           NEW x, PendingOf(m)' \subseteq PendingOf(m) \cup {x},
           \/ crashes' = crashes + 1 /\ signals' = signals
           \/ crashes' = crashes /\ signals' = signals + 1
    PROVE  Cardinality(PendingOf(m))' <= 1 + crashes' + signals'
<1>1. /\ IsFiniteSet(PendingOf(m)) /\ Cardinality(PendingOf(m)) \in Nat
  BY PendingFinite
<1>2. /\ IsFiniteSet(PendingOf(m) \cup {x})
      /\ Cardinality(PendingOf(m) \cup {x}) \in Nat
      /\ Cardinality(PendingOf(m) \cup {x}) <= Cardinality(PendingOf(m)) + 1
  BY <1>1, AddOne
<1>3. /\ Cardinality(PendingOf(m)') \in Nat
      /\ Cardinality(PendingOf(m)') <= Cardinality(PendingOf(m) \cup {x})
  BY <1>2, FS_Subset, FS_CardinalityType
<1>4. Cardinality(PendingOf(m)') <= Cardinality(PendingOf(m)) + 1
  BY <1>1, <1>2, <1>3
<1>5. 1 + crashes' + signals' = 2 + (crashes + signals)
  OBVIOUS
<1>6. Cardinality(PendingOf(m)') <= 2 + (crashes + signals)
  BY <1>1, <1>3, <1>4
<1>. QED BY <1>5, <1>6

LEMMA PendingMoves ==
    ASSUME file \in Seq(Entry), crashes \in Nat, signals \in Nat, NEW m \in Msgs,
           Cardinality(PendingOf(m)) <= 1 + crashes + signals,
           NEW x, NEW y, x \in PendingOf(m) \/ PendingOf(m) = {},
           PendingOf(m)' \subseteq (PendingOf(m) \ {x}) \cup {y}, UNCHANGED faultVars
    PROVE  Cardinality(PendingOf(m))' <= 1 + crashes' + signals'
<1>1. /\ IsFiniteSet(PendingOf(m)) /\ Cardinality(PendingOf(m)) \in Nat
  BY PendingFinite
<1>2. /\ IsFiniteSet(PendingOf(m) \ {x}) /\ Cardinality(PendingOf(m) \ {x}) \in Nat
      /\ x \in PendingOf(m) => Cardinality(PendingOf(m) \ {x}) = Cardinality(PendingOf(m)) - 1
  BY <1>1, FS_RemoveElement, FS_CardinalityType
<1>3. PendingOf(m) = {} => Cardinality(PendingOf(m) \ {x}) = 0
  BY FS_EmptySet
<1>4. Cardinality(PendingOf(m) \ {x}) <= crashes + signals
  BY <1>1, <1>2, <1>3
<1>5. /\ IsFiniteSet((PendingOf(m) \ {x}) \cup {y})
      /\ Cardinality((PendingOf(m) \ {x}) \cup {y}) \in Nat
      /\ Cardinality((PendingOf(m) \ {x}) \cup {y}) <= Cardinality(PendingOf(m) \ {x}) + 1
  BY <1>2, AddOne
<1>6. /\ Cardinality(PendingOf(m)') \in Nat
      /\ Cardinality(PendingOf(m)') <= Cardinality((PendingOf(m) \ {x}) \cup {y})
  BY <1>5, FS_Subset, FS_CardinalityType
<1>. QED BY <1>2, <1>4, <1>5, <1>6 DEF faultVars

(* The entry at hand of p is the entry at hand of p only.                  *)
LEMMA HandsApart ==
    ASSUME RInv, NEW p \in Procs, NEW q \in Procs, pc[p] \in WithCur, pc[q] \in WithCur,
           cur[p] = cur[q]
    PROVE  p = q
BY DEF RInv, Task, OwnCur

(* An entry on disk that none removes is pending; so is one at hand.       *)
LEMMA HandPending ==
    ASSUME RInv, NEW p \in Procs, pc[p] \in WithCur \ Removing,
           Live(cur[p]) \/ pc[p] \in Shunting
    PROVE  Pending(cur[p])
<1>1. CASE pc[p] \in Shunting
  BY <1>1 DEF Pending
<1>2. CASE Live(cur[p])
  <2>1. ASSUME NEW q \in Procs, pc[q] \in Removing PROVE cur[q] # cur[p]
    BY <2>1, HandsApart DEF Removing, WithCur
  <2>. QED BY <1>2, <2>1 DEF Pending
<1>. QED BY <1>1, <1>2

LEMMA QuietPending ==
    ASSUME RInv, NEW p \in Procs, Quiet(p), ~Fault(p), NEW m
    PROVE  PendingOf(m)' \subseteq PendingOf(m) /\ UNCHANGED faultVars
<1>1. file' = file /\ \A f : Live(f)' = Live(f)
  BY QuietFiles DEF Live
<1>2. UNCHANGED faultVars
  BY DEF Quiet, StartRunner, Recovered, ListFiles, EndOfList, Load, Discard, Hold, Fail,
         LeaveTry, ShuntFails, Commit, Check, Loop, LeaveLoop, UnshuntStart, UnshuntLoad,
         UnshuntDiscard, UnshuntEnd
<1>3. \A q \in Procs \ {p} : pc'[q] = pc[q] /\ cur'[q] = cur[q]
  BY NextMoves DEF RInv
<1>4. /\ pc[p] \notin Removing
      /\ pc'[p] \in Shunting => pc[p] = "process" /\ cur'[p] = cur[p]
  <2>1. pc \in [Procs -> Labels] /\ cur \in [Procs -> 0..Len(file)]
    BY DEF RInv, IInv, TypeOK
  <2>2. CASE Fail(p)
    BY <2>1, <2>2 DEF Fail, Goto, Removing
  <2>. QED BY <2>1, <2>2
      DEF Quiet, StartRunner, Recovered, ListFiles, EndOfList, Load, Discard, Hold, Fail,
         LeaveTry, ShuntFails, Commit, Check, Loop, LeaveLoop, UnshuntStart, UnshuntLoad,
         UnshuntDiscard, UnshuntEnd, Goto, Exit, Removing, Shunting
<1>5. pc[p] = "process" => Pending(cur[p])
  BY HandPending, AtHand DEF WithCur, Removing, Untouched, Live
<1>6. ASSUME NEW f, Pending(f)' PROVE Pending(f)
  BY <1>1, <1>3, <1>4, <1>5, <1>6 DEF Pending
<1>. QED BY <1>1, <1>2, <1>6 DEF PendingOf

LEMMA FaultPending ==
    ASSUME RInv, NEW p \in Procs, Fault(p), NEW m
    PROVE  /\ PendingOf(m)' \subseteq PendingOf(m) \cup {cur[p]}
           /\ \/ crashes' = crashes + 1 /\ signals' = signals
              \/ crashes' = crashes /\ signals' = signals + 1
<1>1. file' = file /\ \A f : Live(f)' = Live(f)
  BY QuietFiles DEF Quiet, Live
<1>2. \A q \in Procs \ {p} : pc'[q] = pc[q] /\ cur'[q] = cur[q]
  BY NextMoves DEF RInv, Quiet
<1>3. pc \in [Procs -> Labels] /\ cur \in [Procs -> 0..Len(file)]
  BY DEF RInv, IInv, TypeOK
<1>4. pc'[p] \in Shunting => cur'[p] = cur[p]
  BY <1>3 DEF Fault, Crash, Interrupt, InterruptInside, InterruptDequeue, InterruptOutside,
              Goto, Exit, Shunting
<1>5. ASSUME NEW f, f # cur[p], Pending(f)' PROVE Pending(f)
  BY <1>1, <1>2, <1>4, <1>5 DEF Pending
<1>6. \/ crashes' = crashes + 1 /\ signals' = signals
      \/ crashes' = crashes /\ signals' = signals + 1
  BY DEF Fault, Crash, Interrupt, InterruptInside, InterruptDequeue, InterruptOutside,
         Signalled
<1>. QED BY <1>1, <1>5, <1>6 DEF PendingOf

LEMMA EnqueuesPending ==
    ASSUME RInv, NEW p \in Procs, Enqueues(p), NEW m
    PROVE  PendingOf(m)' \subseteq PendingOf(m) /\ UNCHANGED faultVars
<1>1. /\ file \in Seq(Entry) /\ Len(file) \in Nat
      /\ pc \in [Procs -> Labels] /\ cur \in [Procs -> 0..Len(file)]
  BY FileTypes DEF RInv, IInv, TypeOK
<1>2. PICK q \in Queues : \E o \in OwnersOf(q) : Added(q, MsgOf(p), o, "tmp")
  BY EnqueuesAdd
<1>4. PICK o \in OwnersOf(q) : Added(q, MsgOf(p), o, "tmp")
  BY <1>2
<1>5. PICK k \in Nat : k = Len(file) + 1
  BY <1>1
<1>6. /\ Len(file') = k /\ \A g \in 1..Len(file) : file'[g] = file[g]
      /\ file'[k].ext = "tmp"
  BY <1>4, <1>5 DEF Added, Appended
<1>7. \A q2 \in Procs \ {p} : pc'[q2] = pc[q2] /\ cur'[q2] = cur[q2]
  BY NextMoves DEF RInv
<1>8. /\ cur'[p] = cur[p] /\ pc[p] \notin Removing
      /\ pc'[p] \in Shunting => pc[p] \in Shunting
  BY <1>1 DEF Enqueues, Forward, Keep, MissingList, Shunt, UnshuntEmit, Goto, Removing,
              Shunting
<1>9. \A q2 \in Procs : cur'[q2] # k
  BY <1>1, <1>5, <1>7, <1>8
<1>10. ~Pending(k)'
  BY <1>6, <1>9 DEF Pending, Live
<1>11. ASSUME NEW f \in 1..Len(file), Pending(f)' PROVE Pending(f)
  <2>1. Live(f)' = Live(f)
    BY <1>6 DEF Live
  <2>. QED BY <2>1, <1>7, <1>8, <1>11 DEF Pending
<1>12. ASSUME NEW f \in PendingOf(m)' PROVE f \in PendingOf(m)
  <2>1. f \in 1..Len(file') /\ file'[f].msg = m /\ Pending(f)'
    BY <1>12 DEF PendingOf
  <2>2. f \in 1..Len(file)
    BY <2>1, <1>1, <1>5, <1>6, <1>10
  <2>. QED BY <2>1, <2>2, <1>6, <1>11 DEF PendingOf
<1>13. UNCHANGED faultVars
  BY DEF Enqueues, Forward, Keep, MissingList, Shunt, UnshuntEmit
<1>. QED BY <1>12, <1>13

LEMMA OperatesKeepsFaults ==
    ASSUME NEW p, Operates(p)
    PROVE  UNCHANGED faultVars
BY DEF Operates, RecoverPreserve, RecoverBegin, Dequeue, RecoverEnd, RecoverMove,
       BadPreserve, Preserve, FinishEntry, ShuntFinish, UnshuntFinish, PublishNew,
       ShuntPublish

LEMMA RemovingPending ==
    ASSUME RInv, NEW p \in Procs, FinishEntry(p) \/ ShuntFinish(p) \/ UnshuntFinish(p),
           NEW m
    PROVE  PendingOf(m)' \subseteq PendingOf(m)
<1>1. /\ pc[p] \in Removing /\ pc[p] \in WithCur /\ Finish(cur[p])
      /\ pc'[p] \notin Shunting
  BY DEF FinishEntry, ShuntFinish, UnshuntFinish, Goto, Removing, WithCur, Shunting,
         RInv, IInv, TypeOK
<1>2. PICK f \in 1..Len(file) : f = cur[p] /\ Finish(f)
  BY <1>1, AtHand
<1>3. OnlyTouches(f) /\ ~Live(f)'
  BY <1>1, <1>2, FinishFields, AtHand DEF OnQueue, Live
<1>4. \A q \in Procs \ {p} : pc'[q] = pc[q] /\ cur'[q] = cur[q]
  BY NextMoves DEF RInv, Operates
<1>5. /\ Len(file') = Len(file) /\ \A g \in 1..Len(file) : file'[g].msg = file[g].msg
      /\ \A g \in 1..Len(file) : g # f => Live(g)' = Live(g)
  BY <1>3 DEF OnlyTouches, Live
<1>6. ASSUME NEW g \in 1..Len(file), Pending(g)' PROVE Pending(g)
  <2>1. ASSUME NEW q \in Procs, pc'[q] \in Shunting, cur'[q] = g PROVE Pending(g)
    BY <2>1, <1>1, <1>4 DEF Pending
  <2>2. ASSUME Live(g)', \A q \in Procs : pc'[q] \in Removing => cur'[q] # g
        PROVE  Pending(g)
    BY <2>2, <1>2, <1>3, <1>4, <1>5 DEF Pending
  <2>. QED BY <1>6, <2>1, <2>2 DEF Pending
<1>. QED BY <1>5, <1>6 DEF PendingOf

LEMMA PublishPending ==
    ASSUME RInv, NEW p \in Procs, PublishNew(p) \/ ShuntPublish(p), NEW m
    PROVE  \/ PendingOf(m)' \subseteq PendingOf(m)
           \/ /\ cur[p] \in PendingOf(m)
              /\ PendingOf(m)' \subseteq (PendingOf(m) \ {cur[p]}) \cup {new[p]}
<1>1. /\ pc[p] \in WithNew /\ pc[p] \in WithCur \ Removing /\ Publish(new[p])
      /\ pc'[p] \in Removing /\ cur'[p] = cur[p]
      /\ pc[p] \in Shunting \/ pc[p] \in Untouched
  BY DEF PublishNew, ShuntPublish, Goto, Removing, WithCur, WithNew, Shunting, Untouched,
         RInv, IInv, TypeOK
<1>2. PICK f \in 1..Len(file) : f = new[p] /\ Publish(f)
  BY <1>1, NewIsWritten
<1>3. OnlyTouches(f) /\ file[f].msg = MsgOf(p) /\ file \in Seq(Entry)
  BY <1>1, <1>2, FileTypes, PublishFields DEF RInv, IInv, Local
<1>4. \A q \in Procs \ {p} : pc'[q] = pc[q] /\ cur'[q] = cur[q]
  BY NextMoves DEF RInv, Operates
<1>5. /\ Len(file') = Len(file) /\ \A g \in 1..Len(file) : file'[g].msg = file[g].msg
      /\ \A g \in 1..Len(file) : g # f => Live(g)' = Live(g)
  BY <1>3 DEF OnlyTouches, Live
<1>6. Pending(cur[p]) /\ cur[p] \in 1..Len(file)
  BY <1>1, AtHand, HandPending DEF Live
<1>7. ASSUME NEW g \in 1..Len(file), g # f, Pending(g)' PROVE Pending(g) /\ g # cur[p]
  <2>1. ASSUME NEW q \in Procs, pc'[q] \in Shunting, cur'[q] = g
        PROVE  Pending(g) /\ g # cur[p]
    <3>1. q # p /\ pc[q] \in Shunting /\ cur[q] = g
      BY <2>1, <1>1, <1>4 DEF Removing, Shunting
    <3>2. g # cur[p]
      BY <3>1, <1>1, HandsApart DEF Shunting, WithCur
    <3>. QED BY <3>1, <3>2 DEF Pending
  <2>2. ASSUME Live(g)', \A q \in Procs : pc'[q] \in Removing => cur'[q] # g
        PROVE  Pending(g) /\ g # cur[p]
    <3>1. g # cur[p] /\ Live(g)
      BY <2>2, <1>1, <1>5, <1>7
    <3>. QED BY <2>2, <3>1, <1>4 DEF Pending
  <2>. QED BY <1>7, <2>1, <2>2 DEF Pending
<1>8. CASE m = MsgOf(p)
  BY <1>2, <1>5, <1>6, <1>7, <1>8 DEF PendingOf, MsgOf
<1>9. CASE m # MsgOf(p)
  BY <1>2, <1>3, <1>5, <1>7, <1>9 DEF PendingOf
<1>. QED BY <1>8, <1>9

LEMMA OperatesPending ==
    ASSUME RInv, NEW p \in Procs, Operates(p), NEW m
    PROVE  \/ PendingOf(m)' \subseteq PendingOf(m)
           \/ /\ cur[p] \in PendingOf(m)
              /\ PendingOf(m)' \subseteq (PendingOf(m) \ {cur[p]}) \cup {new[p]}
<1>1. CASE FinishEntry(p) \/ ShuntFinish(p) \/ UnshuntFinish(p)
  BY <1>1, RemovingPending
<1>2. CASE PublishNew(p) \/ ShuntPublish(p)
  BY <1>2, PublishPending
<1>3. CASE \/ RecoverPreserve(p) \/ RecoverBegin(p) \/ Dequeue(p)
           \/ RecoverEnd(p) \/ RecoverMove(p) \/ BadPreserve(p) \/ Preserve(p)
  <2>1. pc[p] \notin Removing /\ pc'[p] \notin Shunting
    BY <1>3 DEF RecoverPreserve, RecoverBegin, Dequeue, RecoverEnd, RecoverMove,
         BadPreserve, Preserve, Goto, Removing, Shunting, RInv, IInv, TypeOK
  <2>2. \A q \in Procs \ {p} : pc'[q] = pc[q] /\ cur'[q] = cur[q]
    BY NextMoves DEF RInv
  <2>3. file \in Seq(Entry)
    BY FileTypes DEF RInv, IInv
  <2>4. /\ Len(file') = Len(file) /\ \A g \in 1..Len(file) : file'[g].msg = file[g].msg
        /\ \A g \in 1..Len(file) : Live(g)' => Live(g)
    <3>1. ASSUME NEW f \in 1..Len(file), OnlyTouches(f), Live(f)' => Live(f)
          PROVE  /\ Len(file') = Len(file)
                 /\ \A g \in 1..Len(file) : file'[g].msg = file[g].msg
                 /\ \A g \in 1..Len(file) : Live(g)' => Live(g)
      BY <3>1 DEF OnlyTouches, Live
    <3>2. CASE RecoverPreserve(p)
      <4>1. PICK f \in Oldest(todo[p]) : FinishPreserve(f)
        BY <3>2 DEF RecoverPreserve
      <4>2. f \in 1..Len(file) /\ file[f].ext = "bak"
        BY <3>2, Listed DEF RecoverPreserve, Recovering
      <4>. QED BY <2>3, <3>1, <4>1, <4>2, FinishPreserveFields DEF Live
    <3>3. CASE RecoverBegin(p)
      <4>1. PICK f \in Oldest(todo[p]) : BeginRewrite(f)
        BY <3>3 DEF RecoverBegin
      <4>2. f \in 1..Len(file)
        BY Listed
      <4>. QED BY <2>3, <3>1, <4>1, <4>2, BeginRewriteFields DEF Live
    <3>4. CASE Dequeue(p)
      <4>1. PICK f \in Oldest(todo[p]) : Claim(f)
        BY <3>4 DEF Dequeue
      <4>2. f \in 1..Len(file) /\ file[f].ext = "pck"
        BY <3>4, Listed DEF Dequeue, Goto, Recovering
      <4>. QED BY <2>3, <3>1, <4>1, <4>2, ClaimFields DEF Live
    <3>5. CASE RecoverEnd(p)
      <4>1. PICK f \in 1..Len(file) : f = cur[p] /\ EndRewrite(f)
        BY <3>5, AtHand DEF RecoverEnd, Goto, WithCur
      <4>. QED BY <2>3, <3>1, <4>1, EndRewriteFields DEF Live
    <3>6. CASE RecoverMove(p)
      <4>1. PICK f \in 1..Len(file) : f = cur[p] /\ Reinstate(f)
        BY <3>6, AtHand DEF RecoverMove, Goto, WithCur
      <4>2. file[f].ext = "bak"
        BY <3>6, <4>1, AtHand DEF RecoverMove, Goto, WithCur, Untouched
      <4>. QED BY <2>3, <3>1, <4>1, <4>2, ReinstateFields DEF Live, OnQueue
    <3>7. CASE BadPreserve(p) \/ Preserve(p)
      <4>1. PICK f \in 1..Len(file) : f = cur[p] /\ FinishPreserve(f)
        BY <3>7, AtHand DEF BadPreserve, Preserve, Goto, WithCur
      <4>. QED BY <2>3, <3>1, <4>1, FinishPreserveFields DEF Live, OnQueue
    <3>. QED BY <1>3, <3>2, <3>3, <3>4, <3>5, <3>6, <3>7
  <2>5. ASSUME NEW g \in 1..Len(file), Pending(g)' PROVE Pending(g)
    BY <2>1, <2>2, <2>4, <2>5 DEF Pending
  <2>. QED BY <2>4, <2>5 DEF PendingOf
<1>. QED BY <1>1, <1>2, <1>3 DEF Operates

LEMMA AcceptPending ==
    ASSUME RInv, NEW n \in Msgs, Accept(n), NEW m \in Msgs
    PROVE  /\ UNCHANGED faultVars
           /\ \/ PendingOf(m)' \subseteq PendingOf(m)
              \/ PendingOf(m) = {} /\ PendingOf(m)' \subseteq {Len(file) + 1}
<1>1. /\ file \in Seq(Entry) /\ Len(file) \in Nat /\ UNCHANGED <<procVars, faultVars>>
      /\ n \notin Accepted
      /\ \A q \in Procs : cur[q] \in 0..Len(file)
  BY FileTypes DEF RInv, IInv, Accept
<1>2. PICK o \in OwnersOf(InQ[n]) :
         file' = Append(file, NewEntry(InQ[n], n, o, "in", InQ[n], "pck"))
  BY DEF Accept
<1>3. Added(InQ[n], n, o, "pck")
  BY <1>1, <1>2, AppendFields, SwitchboardAssumption, QueueFlowAssumption DEF Extensions
<1>4. PICK k \in Nat : k = Len(file) + 1
  BY <1>1
<1>5. /\ Len(file') = k /\ \A g \in 1..Len(file) : file'[g] = file[g]
      /\ file'[k].msg = n
  BY <1>3, <1>4 DEF Added, Appended
<1>6. ASSUME NEW g \in 1..Len(file) PROVE Pending(g)' = Pending(g)
  <2>1. Live(g)' = Live(g)
    BY <1>5 DEF Live
  <2>. QED BY <2>1, <1>1 DEF Pending, procVars
<1>7. CASE m = n
  <2>1. PendingOf(m) = {}
    BY <1>1, <1>7 DEF PendingOf, Accepted
  <2>2. ASSUME NEW g \in PendingOf(m)' PROVE g = k
    <3>1. g \in 1..k /\ file'[g].msg = n
      BY <2>2, <1>5, <1>7 DEF PendingOf
    <3>. QED BY <3>1, <1>1, <1>4, <1>5 DEF Accepted
  <2>. QED BY <2>1, <2>2, <1>1, <1>4
<1>8. CASE m # n
  <2>1. ASSUME NEW g \in PendingOf(m)' PROVE g \in PendingOf(m)
    <3>1. g \in 1..k /\ file'[g].msg = m /\ Pending(g)'
      BY <2>1, <1>5 DEF PendingOf
    <3>2. g \in 1..Len(file)
      BY <3>1, <1>1, <1>4, <1>5, <1>8
    <3>. QED BY <3>1, <3>2, <1>5, <1>6 DEF PendingOf
  <2>. QED BY <2>1, <1>1
<1>. QED BY <1>7, <1>8

LEMMA FaultsPayInductive ==
    ASSUME RInv, FaultsPay, [Next]_vars
    PROVE  FaultsPay'
<1>1. file \in Seq(Entry) /\ crashes \in Nat /\ signals \in Nat
  BY DEF RInv, IInv, TypeOK
<1>. SUFFICES ASSUME NEW m \in Msgs
              PROVE  Cardinality(PendingOf(m))' <= 1 + crashes' + signals'
  BY DEF FaultsPay
<1>2. Cardinality(PendingOf(m)) <= 1 + crashes + signals
  BY DEF FaultsPay
<1>3. ASSUME NEW n \in Msgs, Accept(n)
      PROVE  Cardinality(PendingOf(m))' <= 1 + crashes' + signals'
  <2>1. CASE PendingOf(m)' \subseteq PendingOf(m)
    BY <1>1, <1>2, <1>3, <2>1, AcceptPending, PendingShrinks
  <2>2. CASE PendingOf(m) = {} /\ PendingOf(m)' \subseteq {Len(file) + 1}
    <3>1. PendingOf(m)' \subseteq (PendingOf(m) \ {0}) \cup {Len(file) + 1}
      BY <2>2
    <3>. QED BY <1>1, <1>2, <1>3, <2>2, <3>1, AcceptPending, PendingMoves
  <2>. QED BY <1>3, <2>1, <2>2, AcceptPending
<1>4. ASSUME NEW p \in Procs, Quiet(p)
      PROVE  Cardinality(PendingOf(m))' <= 1 + crashes' + signals'
  <2>1. CASE Fault(p)
    BY <1>1, <1>2, <2>1, FaultPending, PendingGrows
  <2>2. CASE ~Fault(p)
    BY <1>1, <1>2, <1>4, <2>2, QuietPending, PendingShrinks
  <2>. QED BY <2>1, <2>2
<1>5. ASSUME NEW p \in Procs, Enqueues(p)
      PROVE  Cardinality(PendingOf(m))' <= 1 + crashes' + signals'
  BY <1>1, <1>2, <1>5, EnqueuesPending, PendingShrinks
<1>6. ASSUME NEW p \in Procs, Operates(p)
      PROVE  Cardinality(PendingOf(m))' <= 1 + crashes' + signals'
  <2>1. UNCHANGED faultVars
    BY <1>6, OperatesKeepsFaults
  <2>2. CASE PendingOf(m)' \subseteq PendingOf(m)
    BY <1>1, <1>2, <2>1, <2>2, PendingShrinks
  <2>3. CASE /\ cur[p] \in PendingOf(m)
             /\ PendingOf(m)' \subseteq (PendingOf(m) \ {cur[p]}) \cup {new[p]}
    BY <1>1, <1>2, <2>1, <2>3, PendingMoves
  <2>. QED BY <1>6, <2>2, <2>3, OperatesPending
<1>7. CASE UNCHANGED vars
  <2>1. PendingOf(m)' = PendingOf(m)
    BY <1>7 DEF vars, procVars, PendingOf, Pending, Live
  <2>. QED BY <1>2, <1>7, <2>1 DEF vars, faultVars
<1>. QED BY <1>3, <1>4, <1>5, <1>6, <1>7, NextKinds

(* A copy that nobody's queue holds is nobody's entry at hand: pending.    *)
LEMMA CopiesPending ==
    ASSUME RInv, NEW q, NEW m, \A p \in Procs : Serves[p] # q
    PROVE  CopiesIn(q, m) \subseteq PendingOf(m)
<1>1. ASSUME NEW f \in CopiesIn(q, m), NEW p \in Procs, pc[p] \in Removing
      PROVE  cur[p] # f
  BY <1>1, AtHand DEF CopiesIn, EntryOK, Removing, WithCur
<1>. QED BY <1>1 DEF CopiesIn, PendingOf, Pending

(* Each message waits in one place, and in one more at most for each crash *)
(* and each signal, however processes, recoveries and the unshunt command  *)
(* interleave; so a message that is only ever forwarded has no more copies *)
(* in a queue behind those that are served here.                           *)
THEOREM NoDuplicatesWithoutFaults ==
    ASSUME \A m \in Msgs : Fate[m] = {"forward"} =>
              \A p \in Procs : Serves[p] # NextQ[InQ[m]]
    PROVE  Spec => []DuplicatesNeedFaults
<1>1. Init => FaultsPay
  <2>. SUFFICES ASSUME Init, NEW m \in Msgs PROVE Cardinality(PendingOf(m)) <= 1
    BY DEF Init, RunnerInit, FaultsPay
  <2>1. PendingOf(m) = {}
    BY DEF Init, SwitchboardInit, PendingOf
  <2>. QED BY <2>1, FS_EmptySet
<1>2. RInv /\ FaultsPay /\ [Next]_vars => FaultsPay'
  BY FaultsPayInductive
<1>3. RInv /\ FaultsPay => DuplicatesNeedFaults
  <2>. SUFFICES ASSUME RInv, FaultsPay, NEW m \in Msgs, Fate[m] = {"forward"}
                PROVE  Cardinality(CopiesIn(NextQ[InQ[m]], m)) <= 1 + crashes + signals
    BY DEF DuplicatesNeedFaults
  <2>1. /\ file \in Seq(Entry) /\ crashes \in Nat /\ signals \in Nat
        /\ Cardinality(PendingOf(m)) <= 1 + crashes + signals
    BY DEF RInv, IInv, TypeOK, FaultsPay
  <2>2. CopiesIn(NextQ[InQ[m]], m) \subseteq PendingOf(m)
    BY CopiesPending
  <2>3. /\ IsFiniteSet(PendingOf(m)) /\ Cardinality(PendingOf(m)) \in Nat
    BY <2>1, PendingFinite
  <2>4. /\ Cardinality(CopiesIn(NextQ[InQ[m]], m)) \in Nat
        /\ Cardinality(CopiesIn(NextQ[InQ[m]], m)) <= Cardinality(PendingOf(m))
    BY <2>2, <2>3, FS_Subset, FS_CardinalityType
  <2>. QED BY <2>1, <2>3, <2>4
<1>. QED BY <1>1, <1>2, <1>3, RInvariance, PTL DEF Spec
=============================================================================
