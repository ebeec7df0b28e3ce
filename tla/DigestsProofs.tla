----------------------------- MODULE DigestsProofs -----------------------------
(***************************************************************************)
(* Theorems about Digests, for any postings, readers, scenarios and dates: *)
(* the numbers of the digests rise, and each posting is in one of them.    *)
(***************************************************************************)
EXTENDS Digests, FiniteSetTheorems, WellFoundedInduction, TLAPS

(***************************************************************************)
(* What the variables hold.                                                *)
(***************************************************************************)
Row == [volume: Nat \ {0}, number: Nat, last: Nat]
Names == Nat \X Nat
Name(row) == <<row.volume, row.number>>
Session == [pc: {"idle", "handlers", "open", "check", "rename", "enqueue", "later", "commit"},
            msg: Msgs \cup {"none"}, inode: Nat, force: BOOLEAN,
            seen: Row \cup {<<>>}, row: Row \cup {<<>>}, dest: Names, moved: BOOLEAN]
Trigger == [path: Names, queue: {"digest", "shunt"}]

(* A session counts up from the row that it has read.  It has named a      *)
(* digest when the mailbox is to be renamed, or was.  The administration   *)
(* takes no posting.                                                       *)
Named(w) == w.dest # Current
SessionOK(p, w) ==
    /\ w.pc # "idle" =>
          /\ w.seen \in Row /\ w.row \in Row
          /\ w.row = w.seen \/ Before(Name(w.seen), Name(w.row))
          /\ p = "pipeline" => w.msg \in Msgs
    /\ p = "admin" => w.pc \notin {"handlers", "open", "later"}
    /\ w.pc \in {"rename", "enqueue"} => Named(w)
    /\ Named(w) => w.pc \in {"rename", "enqueue", "later", "commit"}
    /\ w.moved <=> Named(w) /\ w.pc # "rename"
SessionsOK == /\ work \in [Senders -> Session]
              /\ \A p \in Senders : SessionOK(p, work[p])

TriggersOK == /\ trigger \in [DOMAIN trigger -> Trigger] /\ DOMAIN trigger \subseteq Nat
              /\ IsFiniteSet(DOMAIN trigger)

RunnerState ==
    [pc: {"idle", "reading", "sending", "plain", "remove", "finish"}, id: Nat, inode: Nat,
     contents: Seq(Msgs), mime: SUBSET Readers, plain: SUBSET (Readers \cup {Former}),
     ended: BOOLEAN]
RunnerOK == /\ runner \in RunnerState
            /\ runner.pc # "idle" => runner.id \in DOMAIN trigger

(* No file has two names.                                                  *)
FilesOK ==
    /\ dir \in [DOMAIN dir -> DOMAIN box] /\ DOMAIN dir \subseteq Names
    /\ box \in [DOMAIN box -> Seq(Msgs)] /\ DOMAIN box \subseteq Nat
    /\ IsFiniteSet(DOMAIN box)
    /\ \A a, b \in DOMAIN dir : dir[a] = dir[b] => a = b

(* Whoever reads a mailbox, or is about to append to it, has it open.      *)
HandlesOK ==
    /\ runner.pc = "reading" => runner.inode \in DOMAIN box
    /\ work["pipeline"].pc = "open" => work["pipeline"].inode \in DOMAIN box

TypeOK ==
    /\ today \in Nat /\ list \in Row /\ olds \subseteq {Former}
    /\ SessionsOK /\ TriggersOK /\ RunnerOK /\ FilesOK /\ HandlesOK
    /\ posts \in [Msgs -> {"queued", "taken", "shunted", "done"}]
    /\ latest \in Names /\ fell \in BOOLEAN
    /\ added \in [Msgs -> Nat] /\ issued \in [Msgs -> Nat]

(***************************************************************************)
(* The numbers.  As long as nobody was overtaken, one session at a time    *)
(* names a digest, from the row as it is; the digests in the queue have    *)
(* lower numbers than the row, or than what the session will write to it.  *)
(***************************************************************************)
NamesDigest(w) ==
    /\ list = w.seen
    /\ w.dest = Name(list) \/ Before(Name(list), w.dest)
    /\ Before(w.dest, Name(w.row))
Queued(w) == Named(w) /\ w.pc \in {"later", "commit"}
InOrder ==
    /\ ~fell
    /\ \A p \in Senders : Named(work[p]) => NamesDigest(work[p])
    /\ \A p, q \in Senders : Named(work[p]) /\ Named(work[q]) => p = q
    /\ \A p \in Senders : Queued(work[p]) => latest = work[p].dest
    /\ (\A p \in Senders : ~Queued(work[p])) => Before(latest, Name(list))

(***************************************************************************)
(* The mailboxes.                                                          *)
(***************************************************************************)
(* The mailbox of each trigger has a name of its own.                      *)
NamesApart ==
    /\ \A i \in DOMAIN trigger :
          /\ trigger[i].path # Current
          /\ trigger[i].path = latest \/ Before(trigger[i].path, latest)
    /\ \A i, j \in DOMAIN trigger : trigger[i].path = trigger[j].path => i = j

(* What the digest runner sends is what the mailbox of its trigger has,    *)
(* until it removes it.                                                    *)
SendsIt(path) ==
    /\ runner.pc = "reading" => path \in DOMAIN dir /\ dir[path] = runner.inode
    /\ runner.pc \in {"sending", "plain", "remove"} =>
          path \in DOMAIN dir /\ box[dir[path]] = runner.contents
    /\ runner.pc = "finish" => path \notin DOMAIN dir
SendsTheMailbox == runner.pc # "idle" => SendsIt(trigger[runner.id].path)

Balanced ==
    \A m \in Msgs : /\ IsFiniteSet(Places(m))
                    /\ added[m] = Cardinality(Places(m)) + issued[m]

IInv ==
    /\ TypeOK
    /\ races = {} => InOrder /\ NamesApart /\ SendsTheMailbox /\ Balanced

--------------------------------------------------------------------------------
(***************************************************************************)
(* Numbers and ids.                                                        *)
(***************************************************************************)
LEMMA FreshIsNew ==
    ASSUME NEW ids, IsFiniteSet(ids)
    PROVE  Fresh(ids) \in Nat /\ Fresh(ids) \notin ids
<1> DEFINE n == Cardinality(ids)
           S == (1 .. n + 1) \ ids
<1>1. n \in Nat
  BY FS_CardinalityType
<1>2. S # {}
  <2>1. SUFFICES ASSUME 1 .. n + 1 \subseteq ids PROVE FALSE
    OBVIOUS
  <2>2. Cardinality(1 .. n + 1) = n + 1
    BY <1>1, FS_Interval
  <2>3. Cardinality(1 .. n + 1) <= n
    BY <2>1, FS_Subset
  <2>. QED BY <1>1, <2>2, <2>3
<1>3. \E x \in S : \A y \in S : x <= y
  <2>1. S \in SUBSET Nat
    BY <1>1
  <2> HIDE DEF S
  <2>2. PICK x \in S : \A y \in S : ~ (<<y, x>> \in OpToRel(<, Nat))
    BY <1>2, <2>1, NatLessThanWellFounded, WFMin
  <2>3. \A y \in S : ~ (y < x)
    BY <2>1, <2>2 DEF OpToRel
  <2>. QED BY <2>1, <2>3
<1>4. Fresh(ids) \in S
  BY <1>3 DEF Fresh, Min
<1>. QED BY <1>1, <1>4

LEMMA BeforeIsOrder ==
    /\ \A a \in Names : ~Before(a, a)
    /\ \A a, b, c \in Names : Before(a, b) /\ Before(b, c) => Before(a, c)
    /\ \A a, b \in Names : Before(a, b) => a # b
BY DEF Before, Names

LEMMA NameOfRow ==
    ASSUME NEW row \in Row
    PROVE  Name(row) \in Names /\ Name(row) # Current /\ Before(Current, Name(row))
BY DEF Row, Names, Name, Current, Before

(* A date in another period or not, a row counts up.                       *)
LEMMA BumpedCounts ==
    ASSUME NEW row \in Row, today \in Nat
    PROVE  Bumped(row) \in Row /\ Before(Name(row), Name(Bumped(row)))
<1> DEFINE v == [row EXCEPT !.volume = @ + 1, !.number = 1, !.last = today]
           n == [row EXCEPT !.number = @ + 1, !.last = today]
<1>1. row.volume \in Nat \ {0} /\ row.number \in Nat /\ row.last \in Nat
  BY DEF Row
<1>2. row.volume + 1 \in Nat \ {0} /\ row.number + 1 \in Nat /\ 1 \in Nat
  BY <1>1
<1>3. v \in Row /\ v.volume = row.volume + 1 /\ v.number = 1
  BY <1>1, <1>2, Zenon DEF Row
<1>4. n \in Row /\ n.volume = row.volume /\ n.number = row.number + 1
  BY <1>1, <1>2, Zenon DEF Row
<1>5. Bumped(row) = v \/ Bumped(row) = n
  BY Zenon DEF Bumped
<1> HIDE DEF v, n
<1>6. Before(Name(row), Name(v)) /\ Before(Name(row), Name(n))
  BY <1>1, <1>3, <1>4 DEF Before, Name
<1>. QED BY <1>3, <1>4, <1>5, <1>6

(* What a commit writes.                                                   *)
LEMMA CommittedRow ==
    ASSUME list \in Row, NEW w \in Session, w.seen \in Row, w.row \in Row
    PROVE  /\ Committed(w) \in Row
           /\ w.row = w.seen => Committed(w) = list
           /\ list = w.seen => Committed(w) = w.row
<1>1. DOMAIN list = {"volume", "number", "last"}
  BY DEF Row
<1>2. DOMAIN w.row = {"volume", "number", "last"}
  BY DEF Row
<1>3. Committed(w) = [c \in {"volume", "number", "last"} |->
                        IF w.row[c] # w.seen[c] THEN w.row[c] ELSE list[c]]
  BY <1>1 DEF Committed
<1>4. Committed(w) \in Row
  BY <1>3 DEF Row
<1>5. w.row = w.seen => Committed(w) = list
  BY <1>1, <1>3 DEF Row
<1>6. list = w.seen => Committed(w) = w.row
  BY <1>2, <1>3 DEF Row
<1>. QED BY <1>4, <1>5, <1>6

--------------------------------------------------------------------------------
(***************************************************************************)
(* What the actions do with a session.                                     *)
(***************************************************************************)
Taking(m) == [Idle EXCEPT !.pc = "handlers", !.msg = m, !.seen = list, !.row = list]
Asking(bump, send) ==
    [Idle EXCEPT !.pc = IF send THEN "check" ELSE "commit", !.force = TRUE,
                 !.seen = list, !.row = IF bump THEN Bumped(list) ELSE list]
Opening(w, i) == [w EXCEPT !.pc = "open", !.inode = i]
Appending(w) == [w EXCEPT !.pc = "check", !.inode = 0]
Naming(w) == [w EXCEPT !.pc = "rename", !.row = Bumped(w.row),
                       !.dest = <<w.row.volume, w.row.number>>]
Moving(w) == [w EXCEPT !.pc = "enqueue", !.moved = TRUE]
Going(w, pc) == [w EXCEPT !.pc = pc]

LEMMA IdleOK ==
    /\ Idle \in Session /\ \A p \in Senders : SessionOK(p, Idle)
    /\ Idle.pc = "idle" /\ ~Named(Idle) /\ Idle.inode = 0
<1>1. /\ Idle \in Session /\ Idle.pc = "idle" /\ Idle.dest = Current /\ Idle.inode = 0
      /\ Idle.moved = FALSE
  BY DEF Idle, Session, Current, Names
<1>. QED BY <1>1 DEF SessionOK, Named

LEMMA TakingOK ==
    ASSUME list \in Row, NEW m \in Msgs
    PROVE  /\ Taking(m) \in Session /\ SessionOK("pipeline", Taking(m)) /\ ~Named(Taking(m))
           /\ Taking(m).pc = "handlers"
<1>1. /\ Taking(m).pc = "handlers" /\ Taking(m).msg = m /\ Taking(m).seen = list
      /\ Taking(m).row = list /\ Taking(m).dest = Current /\ Taking(m).moved = FALSE
  BY DEF Taking, Idle
<1>2. Taking(m) \in Session
  BY DEF Taking, Idle, Session, Current, Names
<1>. QED BY <1>1, <1>2 DEF SessionOK, Named

LEMMA AskingOK ==
    ASSUME list \in Row, today \in Nat, NEW bump \in BOOLEAN, NEW send \in BOOLEAN
    PROVE  /\ Asking(bump, send) \in Session /\ SessionOK("admin", Asking(bump, send))
           /\ ~Named(Asking(bump, send))
<1> DEFINE row == IF bump THEN Bumped(list) ELSE list
           v == Asking(bump, send)
<1>1. row \in Row /\ (row = list \/ Before(Name(list), Name(row)))
  BY BumpedCounts
<1> HIDE DEF row
<1>2. v = [Idle EXCEPT !.pc = IF send THEN "check" ELSE "commit", !.force = TRUE,
                       !.seen = list, !.row = row]
  BY Zenon DEF Asking, row
<1>3. /\ v.pc = (IF send THEN "check" ELSE "commit") /\ v.seen = list /\ v.row = row
      /\ v.dest = Current /\ v.moved = FALSE
  BY <1>2, Zenon DEF Idle
<1>4. v \in Session
  <2>1. (IF send THEN "check" ELSE "commit") \in {"check", "commit"}
    OBVIOUS
  <2>. QED BY <1>1, <1>2, <2>1, IdleOK, Zenon DEF Session
<1> HIDE DEF v
<1>5. v.pc \in {"check", "commit"}
  BY <1>3
<1>6. SessionOK("admin", v) /\ ~Named(v)
  BY <1>1, <1>3, <1>5 DEF SessionOK, Named
<1>. QED BY <1>4, <1>6 DEF v

LEMMA OpeningOK ==
    ASSUME NEW w \in Session, w.pc = "handlers", SessionOK("pipeline", w), NEW i \in Nat
    PROVE  /\ Opening(w, i) \in Session /\ SessionOK("pipeline", Opening(w, i))
           /\ Opening(w, i).pc = "open" /\ Opening(w, i).inode = i
           /\ Opening(w, i).dest = w.dest
<1>1. /\ Opening(w, i).pc = "open" /\ Opening(w, i).inode = i /\ Opening(w, i).msg = w.msg
      /\ Opening(w, i).seen = w.seen /\ Opening(w, i).row = w.row
      /\ Opening(w, i).dest = w.dest /\ Opening(w, i).moved = w.moved
      /\ Opening(w, i) \in Session
  BY Zenon DEF Opening, Session
<1>. QED BY <1>1 DEF SessionOK, Named

LEMMA AppendingOK ==
    ASSUME NEW w \in Session, w.pc = "open", SessionOK("pipeline", w)
    PROVE  /\ Appending(w) \in Session /\ SessionOK("pipeline", Appending(w))
           /\ Appending(w).pc = "check" /\ Appending(w).dest = w.dest
<1>1. /\ Appending(w).pc = "check" /\ Appending(w).inode = 0 /\ Appending(w).msg = w.msg
      /\ Appending(w).seen = w.seen /\ Appending(w).row = w.row
      /\ Appending(w).dest = w.dest /\ Appending(w).moved = w.moved
      /\ Appending(w) \in Session
  BY Zenon DEF Appending, Session
<1>. QED BY <1>1 DEF SessionOK, Named

LEMMA NamingOK ==
    ASSUME today \in Nat, NEW p \in Senders, NEW w \in Session, w.pc = "check",
           SessionOK(p, w)
    PROVE  /\ Naming(w) \in Session /\ SessionOK(p, Naming(w))
           /\ Naming(w).pc = "rename" /\ Naming(w).dest = Name(w.row)
           /\ Naming(w).seen = w.seen /\ Naming(w).row = Bumped(w.row)
           /\ Named(Naming(w))
<1>1. w.row \in Row /\ w.seen \in Row /\ (p = "pipeline" => w.msg \in Msgs)
  BY DEF SessionOK
<1>2. Bumped(w.row) \in Row /\ Before(Name(w.row), Name(Bumped(w.row)))
  BY <1>1, BumpedCounts
<1>3. Name(w.row) \in Names /\ Name(w.row) # Current /\ Name(w.seen) \in Names
  BY <1>1, NameOfRow
<1>4. /\ Naming(w).pc = "rename" /\ Naming(w).msg = w.msg
      /\ Naming(w).seen = w.seen /\ Naming(w).row = Bumped(w.row)
      /\ Naming(w).dest = Name(w.row) /\ Naming(w).moved = w.moved
  BY Zenon DEF Naming, Session, Name
<1>5. Naming(w) \in Session
  BY <1>2, <1>3, Zenon DEF Naming, Session, Name
<1>6. Before(Name(w.seen), Name(Bumped(w.row)))
  <2>1. CASE w.row = w.seen
    BY <1>2, <2>1
  <2>2. CASE Before(Name(w.seen), Name(w.row))
    <3>1. Name(Bumped(w.row)) \in Names
      BY <1>2, NameOfRow
    <3>. QED BY <1>2, <1>3, <2>2, <3>1, BeforeIsOrder
  <2>3. w.row = w.seen \/ Before(Name(w.seen), Name(w.row))
    BY DEF SessionOK
  <2>. QED BY <2>1, <2>2, <2>3
<1>7. ~w.moved
  BY DEF SessionOK
<1>. QED BY <1>1, <1>2, <1>3, <1>4, <1>5, <1>6, <1>7 DEF SessionOK, Named

LEMMA MovingOK ==
    ASSUME NEW p \in Senders, NEW w \in Session, w.pc = "rename", SessionOK(p, w)
    PROVE  /\ Moving(w) \in Session /\ SessionOK(p, Moving(w))
           /\ Moving(w).pc = "enqueue" /\ Moving(w).dest = w.dest
           /\ Moving(w).seen = w.seen /\ Moving(w).row = w.row
<1>1. /\ Moving(w).pc = "enqueue" /\ Moving(w).msg = w.msg
      /\ Moving(w).seen = w.seen /\ Moving(w).row = w.row
      /\ Moving(w).dest = w.dest /\ Moving(w).moved = TRUE
      /\ Moving(w) \in Session
  BY Zenon DEF Moving, Session
<1>. QED BY <1>1 DEF SessionOK, Named

(* To the later handlers, or to the commit.                                *)
LEMMA GoingOK ==
    ASSUME NEW p \in Senders, NEW w \in Session, SessionOK(p, w),
           NEW pc \in {"later", "commit"}, p = "admin" => pc = "commit",
           w.pc \in {"check", "enqueue", "later"}
    PROVE  /\ Going(w, pc) \in Session /\ SessionOK(p, Going(w, pc))
           /\ Going(w, pc).pc = pc /\ Going(w, pc).dest = w.dest
           /\ Going(w, pc).seen = w.seen /\ Going(w, pc).row = w.row
<1>1. /\ Going(w, pc).pc = pc /\ Going(w, pc).msg = w.msg
      /\ Going(w, pc).seen = w.seen /\ Going(w, pc).row = w.row
      /\ Going(w, pc).dest = w.dest /\ Going(w, pc).moved = w.moved
      /\ Going(w, pc) \in Session
  BY Zenon DEF Going, Session
<1>. QED BY <1>1 DEF SessionOK, Named

--------------------------------------------------------------------------------
(***************************************************************************)
(* What the actions do to the sessions.                                    *)
(***************************************************************************)
Becomes(p, v) == work' = [work EXCEPT ![p] = v]

LEMMA SessionsStep ==
    ASSUME SessionsOK, NEW p \in Senders, NEW v \in Session, SessionOK(p, v), Becomes(p, v)
    PROVE  /\ SessionsOK' /\ work'[p] = v
           /\ \A q \in Senders \ {p} : work'[q] = work[q]
BY DEF SessionsOK, Becomes

LEMMA TakeView ==
    ASSUME NEW m \in Msgs, Take(m)
    PROVE  Becomes("pipeline", Taking(m))
BY Zenon DEF Take, Taking, Becomes

LEMMA AdministerView ==
    ASSUME NEW bump \in BOOLEAN, NEW send \in BOOLEAN, Administer(bump, send)
    PROVE  Becomes("admin", Asking(bump, send))
BY Zenon DEF Administer, Asking, Becomes

LEMMA OpenView ==
    ASSUME TypeOK, OpenMailbox
    PROVE  \E i \in Nat : /\ Becomes("pipeline", Opening(work["pipeline"], i))
                          /\ i \in DOMAIN box'
<1> DEFINE new == IF Exists(Current) THEN dir ELSE With(dir, Current, NewInode)
<1>1. work' = [work EXCEPT !["pipeline"].pc = "open", !["pipeline"].inode = new[Current]]
  BY Zenon DEF OpenMailbox
<1>2. Becomes("pipeline", Opening(work["pipeline"], new[Current]))
  BY <1>1, Zenon DEF Becomes, Opening
<1>3. new[Current] \in Nat /\ new[Current] \in DOMAIN box'
  <2>1. CASE Exists(Current)
    <3>1. new[Current] = dir[Current] /\ dir[Current] \in DOMAIN box /\ DOMAIN box \subseteq Nat
      BY <2>1 DEF TypeOK, FilesOK, Exists
    <3>2. box' = box
      BY <2>1 DEF OpenMailbox
    <3>. QED BY <3>1, <3>2
  <2>2. CASE ~Exists(Current)
    <3>1. new[Current] = NewInode
      BY <2>2 DEF With
    <3>2. NewInode \in Nat
      BY FreshIsNew DEF TypeOK, FilesOK, NewInode
    <3>3. box' = With(box, NewInode, <<>>)
      BY <2>2 DEF OpenMailbox
    <3>. QED BY <3>1, <3>2, <3>3 DEF With
  <2>. QED BY <2>1, <2>2
<1>. QED BY <1>2, <1>3

LEMMA FailsView ==
    ASSUME NEW p \in Senders, Fails(p)
    PROVE  /\ Becomes(p, Idle)
           /\ races' = {} => races = {} /\ ~work[p].moved
BY DEF Fails, Becomes

LEMMA AddView ==
    ASSUME AddMessage
    PROVE  \/ Fails("pipeline") /\ UNCHANGED files
           \/ /\ Becomes("pipeline", Appending(work["pipeline"]))
              /\ races' = {} => races = {}
BY Zenon DEF AddMessage, Becomes, Appending

LEMMA CheckView ==
    ASSUME NEW p \in Senders, CheckSize(p)
    PROVE  /\ \/ /\ Becomes(p, Naming(work[p]))
                 /\ races' = {} => ~Overtaken(p)
              \/ Becomes(p, Going(work[p], AfterSending(p)))
           /\ races' = {} => races = {}
<1>1. CASE Due(work[p])
  <2>1. /\ Becomes(p, Naming(work[p]))
        /\ races' = IF Overtaken(p) THEN races \cup {"number"} ELSE races
    BY <1>1, Zenon DEF CheckSize, Becomes, Naming
  <2>. QED BY <2>1
<1>2. CASE ~Due(work[p])
  BY <1>2, Zenon DEF CheckSize, Becomes, Going
<1>. QED BY <1>1, <1>2

LEMMA RenameView ==
    ASSUME NEW p \in Senders, RenameMailbox(p)
    PROVE  \/ Fails(p) /\ dir' = dir /\ box' = box
           \/ /\ Becomes(p, Moving(work[p]))
              /\ Exists(Current) /\ races' = races
              /\ dir' = With(Restrict(dir, DOMAIN dir \ {Current}), work[p].dest, dir[Current])
              /\ box' = Kept(dir')
BY Zenon DEF RenameMailbox, Becomes, Moving

LEMMA EnqueueView ==
    ASSUME NEW p \in Senders, EnqueueTrigger(p)
    PROVE  Becomes(p, Going(work[p], AfterSending(p)))
BY Zenon DEF EnqueueTrigger, Becomes, Going

LEMMA LaterView ==
    ASSUME LaterHandlers
    PROVE  \/ Becomes("pipeline", Going(work["pipeline"], "commit")) /\ races' = races
           \/ Fails("pipeline")
BY Zenon DEF LaterHandlers, Becomes, Going

LEMMA CommitView ==
    ASSUME NEW p \in Senders, Commit(p)
    PROVE  /\ Becomes(p, Idle)
           /\ races' = {} => /\ races = {}
                             /\ work[p].row # work[p].seen => ~Overtaken(p)
BY DEF Commit, Becomes

LEMMA CrashView ==
    ASSUME NEW p \in Senders, Crash(p)
    PROVE  /\ Becomes(p, Idle)
           /\ races' = {} => races = {} /\ ~work[p].moved
BY DEF Crash, Becomes

(* The other actions.                                                      *)
OtherSteps ==
    \/ \E i \in DOMAIN trigger : Dequeue(i)
    \/ Build \/ SendMime \/ SendPlain \/ RemoveMailbox \/ FinishDigest
    \/ DigestCrash \/ Unshunt
    \/ \E c \in Wishes : ChangePreferences(c)
    \/ NextDay

LEMMA OthersLeaveSessions ==
    ASSUME OtherSteps
    PROVE  UNCHANGED <<work, list, latest, fell, races, added>>
BY DEF OtherSteps, Dequeue, Build, SendMime, SendPlain, RemoveMailbox, FinishDigest,
       DigestCrash, Unshunt, ChangePreferences, NextDay, database, files, digester, numbering

(* The actions, each with its actor.                                       *)
LEMMA NextIs ==
    ASSUME Next
    PROVE  \/ \E m \in Msgs : Take(m)
           \/ OpenMailbox \/ AddMessage \/ LaterHandlers
           \/ \E p \in Senders : \/ CheckSize(p) \/ RenameMailbox(p) \/ EnqueueTrigger(p)
                                 \/ Commit(p) \/ Crash(p)
           \/ \E bump, send \in BOOLEAN : Administer(bump, send)
           \/ OtherSteps
BY Zenon DEF Next, PipelineRunner, DigestRunner, Sending, Senders, Request, Cron, OtherSteps

LEMMA SendersAre == /\ "pipeline" \in Senders /\ "admin" \in Senders
                    /\ \A p \in Senders : /\ AfterSending(p) \in {"later", "commit"}
                                          /\ p = "admin" => AfterSending(p) = "commit"
BY DEF Senders, AfterSending

LEMMA SessionsKept ==
    ASSUME TypeOK, Next
    PROVE  SessionsOK'
<1>0. SessionsOK /\ list \in Row /\ today \in Nat
  BY DEF TypeOK
<1>a. \A p \in Senders : work[p] \in Session /\ SessionOK(p, work[p])
  BY <1>0 DEF SessionsOK
<1>f. ASSUME NEW p \in Senders, Becomes(p, Idle) PROVE SessionsOK'
  BY <1>0, <1>f, IdleOK, SessionsStep
<1>1. ASSUME NEW m \in Msgs, Take(m) PROVE SessionsOK'
  BY <1>0, <1>1, TakeView, TakingOK, SessionsStep, SendersAre
<1>2. CASE OpenMailbox
  <2>1. work["pipeline"].pc = "handlers"
    BY <1>2 DEF OpenMailbox
  <2>. QED BY <1>0, <1>a, <1>2, <2>1, OpenView, OpeningOK, SessionsStep, SendersAre
<1>3. CASE AddMessage
  <2>1. work["pipeline"].pc = "open"
    BY <1>3 DEF AddMessage
  <2>2. CASE Fails("pipeline")
    BY <1>f, <2>2, FailsView, SendersAre
  <2>3. CASE Becomes("pipeline", Appending(work["pipeline"]))
    BY <1>0, <1>a, <2>1, <2>3, AppendingOK, SessionsStep, SendersAre
  <2>. QED BY <1>3, <2>2, <2>3, AddView
<1>4. CASE LaterHandlers
  <2>1. work["pipeline"].pc = "later"
    BY <1>4 DEF LaterHandlers
  <2>2. CASE Fails("pipeline")
    BY <1>f, <2>2, FailsView, SendersAre
  <2>3. CASE Becomes("pipeline", Going(work["pipeline"], "commit"))
    BY <1>0, <1>a, <2>1, <2>3, GoingOK, SessionsStep, SendersAre
  <2>. QED BY <1>4, <2>2, <2>3, LaterView
<1>5. ASSUME NEW p \in Senders, CheckSize(p) PROVE SessionsOK'
  <2>1. work[p].pc = "check"
    BY <1>5 DEF CheckSize
  <2>2. CASE Becomes(p, Naming(work[p]))
    BY <1>0, <1>a, <2>1, <2>2, NamingOK, SessionsStep
  <2>3. CASE Becomes(p, Going(work[p], AfterSending(p)))
    BY <1>0, <1>a, <2>1, <2>3, GoingOK, SessionsStep, SendersAre
  <2>. QED BY <1>5, <2>2, <2>3, CheckView
<1>6. ASSUME NEW p \in Senders, RenameMailbox(p) PROVE SessionsOK'
  <2>1. work[p].pc = "rename"
    BY <1>6 DEF RenameMailbox
  <2>2. CASE Fails(p)
    BY <1>f, <2>2, FailsView
  <2>3. CASE Becomes(p, Moving(work[p]))
    BY <1>0, <1>a, <2>1, <2>3, MovingOK, SessionsStep
  <2>. QED BY <1>6, <2>2, <2>3, RenameView
<1>7. ASSUME NEW p \in Senders, EnqueueTrigger(p) PROVE SessionsOK'
  <2>1. work[p].pc = "enqueue"
    BY <1>7 DEF EnqueueTrigger
  <2>. QED BY <1>0, <1>a, <1>7, <2>1, EnqueueView, GoingOK, SessionsStep, SendersAre
<1>8. ASSUME NEW p \in Senders, Commit(p) \/ Crash(p) PROVE SessionsOK'
  BY <1>f, <1>8, CommitView, CrashView
<1>9. ASSUME NEW bump \in BOOLEAN, NEW send \in BOOLEAN, Administer(bump, send) PROVE SessionsOK'
  BY <1>0, <1>9, AdministerView, AskingOK, SessionsStep, SendersAre
<1>10. CASE OtherSteps
  BY <1>0, <1>10, OthersLeaveSessions DEF SessionsOK
<1>. QED BY <1>1, <1>2, <1>3, <1>4, <1>5, <1>6, <1>7, <1>8, <1>9, <1>10, NextIs

--------------------------------------------------------------------------------
(***************************************************************************)
(* The order of the numbers.                                               *)
(***************************************************************************)
(* A session that queued nothing ends, or another begins.                  *)
LEMMA ForgottenInOrder ==
    ASSUME SessionsOK, InOrder, NEW p \in Senders, NEW v \in Session, Becomes(p, v),
           ~Named(v), ~Queued(work[p]), UNCHANGED <<list, latest, fell>>
    PROVE  InOrder'
<1>1. /\ work'[p] = v
      /\ \A q \in Senders \ {p} : work'[q] = work[q]
  BY DEF SessionsOK, Becomes
<1>2. ~Queued(v)
  BY DEF Queued
<1>3. ~fell' /\ \A q \in Senders : Named(work'[q]) => q # p /\ Named(work[q])
  BY <1>1 DEF InOrder
<1>4. \A q \in Senders : Queued(work'[q]) <=> Queued(work[q])
  BY <1>1, <1>2
<1>5. \A q \in Senders : NamesDigest(work[q]) /\ q # p => NamesDigest(work[q])'
  BY <1>1 DEF NamesDigest
<1>. QED BY <1>1, <1>3, <1>4, <1>5 DEF InOrder

(* A session goes on with what it has read, written and queued.            *)
LEMMA GoingOnInOrder ==
    ASSUME SessionsOK, InOrder, NEW p \in Senders, NEW v \in Session, Becomes(p, v),
           v.dest = work[p].dest, v.seen = work[p].seen \/ ~Named(v),
           v.row = work[p].row \/ ~Named(v),
           Queued(v) <=> Queued(work[p]), UNCHANGED <<list, latest, fell>>
    PROVE  InOrder'
<1>1. /\ work'[p] = v
      /\ \A q \in Senders \ {p} : work'[q] = work[q]
  BY DEF SessionsOK, Becomes
<1>3. ~fell' /\ \A q \in Senders : /\ Named(work'[q]) <=> Named(work[q])
                                   /\ work'[q].dest = work[q].dest
  BY <1>1 DEF InOrder, Named
<1>4. \A q \in Senders : Queued(work'[q]) <=> Queued(work[q])
  BY <1>1
<1>5. \A q \in Senders : Named(work[q]) => NamesDigest(work[q])'
  BY <1>1 DEF NamesDigest, InOrder, Named
<1>. QED BY <1>1, <1>3, <1>4, <1>5 DEF InOrder

(* Whoever has named a digest has changed the row.                         *)
LEMMA NamedCounts ==
    ASSUME SessionsOK, list \in Row, InOrder, NEW p \in Senders, Named(work[p])
    PROVE  work[p].row # work[p].seen /\ Before(Name(list), Name(work[p].row))
<1>1. NamesDigest(work[p])
  BY DEF InOrder
<1>2. work[p].seen \in Row /\ work[p].row \in Row /\ work[p].dest \in Names
  <2>1. work[p] \in Session /\ SessionOK(p, work[p])
    BY DEF SessionsOK
  <2>2. work[p].pc # "idle"
    BY <2>1 DEF SessionOK
  <2>. QED BY <2>1, <2>2 DEF SessionOK, Session
<1>3. Name(list) \in Names /\ Name(work[p].row) \in Names
  BY <1>2, NameOfRow
<1>4. Before(Name(list), Name(work[p].row))
  BY <1>1, <1>2, <1>3, BeforeIsOrder DEF NamesDigest
<1>5. ~Before(Name(list), Name(list))
  BY <1>3, BeforeIsOrder
<1>. QED BY <1>1, <1>4, <1>5 DEF NamesDigest

LEMMA NotOvertaken ==
    ASSUME SessionsOK, list \in Row, InOrder, NEW p \in Senders, ~Overtaken(p)
    PROVE  list = work[p].seen /\ \A q \in Senders \ {p} : ~Named(work[q])
BY NamedCounts DEF Overtaken

LEMMA CheckInOrder ==
    ASSUME TypeOK, InOrder, NEW p \in Senders, CheckSize(p), races' = {}
    PROVE  InOrder'
<1> DEFINE w == work[p]
<1>0. SessionsOK /\ list \in Row /\ today \in Nat /\ UNCHANGED <<list, latest, fell>>
  BY DEF TypeOK, CheckSize, database, numbering
<1>1. w \in Session /\ w.pc = "check" /\ SessionOK(p, w)
  BY <1>0 DEF SessionsOK, CheckSize
<1>2. ~Named(w) /\ ~Queued(w)
  BY <1>1 DEF SessionOK, Queued
<1>3. CASE Becomes(p, Going(w, AfterSending(p)))
  BY <1>0, <1>1, <1>2, <1>3, GoingOK, SendersAre, ForgottenInOrder DEF Named
<1>4. CASE Becomes(p, Naming(w)) /\ ~Overtaken(p)
  <2>1. list = w.seen /\ \A q \in Senders \ {p} : ~Named(work[q])
    BY <1>0, <1>4, NotOvertaken
  <2>2. /\ Naming(w) \in Session /\ Naming(w).pc = "rename" /\ Naming(w).dest = Name(w.row)
        /\ Naming(w).seen = w.seen /\ Naming(w).row = Bumped(w.row)
    BY <1>0, <1>1, NamingOK
  <2>3. /\ work'[p] = Naming(w)
        /\ \A q \in Senders \ {p} : work'[q] = work[q]
    BY <1>0, <1>4, <2>2 DEF SessionsOK, Becomes
  <2>4. w.row \in Row /\ (w.row = w.seen \/ Before(Name(w.seen), Name(w.row)))
    BY <1>1 DEF SessionOK
  <2>5. Before(Name(w.row), Name(Bumped(w.row)))
    BY <1>0, <2>4, BumpedCounts
  <2>6. NamesDigest(work[p])'
    BY <1>0, <2>1, <2>2, <2>3, <2>4, <2>5 DEF NamesDigest
  <2>7. \A q \in Senders : ~Queued(work[q]) /\ ~Queued(work'[q])
    BY <1>2, <2>1, <2>2, <2>3 DEF Queued
  <2>8. ~fell' /\ Before(latest', Name(list'))
    BY <1>0, <2>7 DEF InOrder
  <2>9. \A q \in Senders : Named(work'[q]) => q = p
    BY <2>1, <2>3
  <2>. QED BY <2>6, <2>7, <2>8, <2>9 DEF InOrder
<1>. QED BY <1>3, <1>4, CheckView

LEMMA EnqueueInOrder ==
    ASSUME TypeOK, InOrder, NEW p \in Senders, EnqueueTrigger(p)
    PROVE  InOrder' /\ Before(latest, latest') /\ latest' = work[p].dest
<1> DEFINE w == work[p]
           v == Going(w, AfterSending(p))
<1>0. SessionsOK /\ list \in Row /\ list' = list /\ latest \in Names
  BY DEF TypeOK, EnqueueTrigger, database
<1>1. w \in Session /\ w.pc = "enqueue" /\ SessionOK(p, w)
  BY <1>0 DEF SessionsOK, EnqueueTrigger
<1>2. Named(w) /\ NamesDigest(w) /\ \A q \in Senders \ {p} : ~Named(work[q])
  BY <1>1 DEF SessionOK, InOrder
<1>3. /\ v \in Session /\ v.pc \in {"later", "commit"} /\ v.dest = w.dest
      /\ v.seen = w.seen /\ v.row = w.row
  BY <1>1, GoingOK, SendersAre
<1> HIDE DEF v
<1>4. /\ work'[p] = v
      /\ \A q \in Senders \ {p} : work'[q] = work[q]
  BY <1>0, EnqueueView DEF SessionsOK, Becomes, v
<1>5. latest' = w.dest /\ fell' = (fell \/ ~Before(latest, w.dest))
  BY DEF EnqueueTrigger
<1>6. Before(latest, Name(list))
  BY <1>1, <1>2 DEF InOrder, Queued
<1>7. Before(latest, w.dest)
  <2>1. Name(list) \in Names /\ w.dest \in Names
    BY <1>0, <1>1, NameOfRow DEF Session
  <2>. QED BY <1>0, <1>2, <1>6, <2>1, BeforeIsOrder DEF NamesDigest
<1>8. ~fell'
  BY <1>5, <1>7 DEF InOrder
<1>9. NamesDigest(work[p])' /\ Queued(work'[p])
  BY <1>0, <1>2, <1>3, <1>4 DEF NamesDigest, Queued, Named
<1>10. \A q \in Senders : Named(work'[q]) => q = p
  BY <1>2, <1>4
<1>11. \A q \in Senders : Queued(work'[q]) => latest' = work'[q].dest
  BY <1>3, <1>4, <1>5, <1>10 DEF Queued
<1>. QED BY <1>5, <1>7, <1>8, <1>9, <1>10, <1>11 DEF InOrder

LEMMA CommitInOrder ==
    ASSUME TypeOK, InOrder, NEW p \in Senders, Commit(p), races' = {}
    PROVE  InOrder'
<1> DEFINE w == work[p]
<1>0. SessionsOK /\ list \in Row /\ latest \in Names /\ UNCHANGED <<latest, fell>>
  BY DEF TypeOK, Commit, numbering
<1>1. w \in Session /\ w.pc = "commit" /\ SessionOK(p, w)
  BY <1>0 DEF SessionsOK, Commit
<1>2. w.seen \in Row /\ w.row \in Row /\ (w.row = w.seen \/ Before(Name(w.seen), Name(w.row)))
  BY <1>1 DEF SessionOK
<1>3. /\ work'[p] = Idle
      /\ \A q \in Senders \ {p} : work'[q] = work[q]
  BY <1>0, CommitView DEF SessionsOK, Becomes
<1>4. list' = Committed(w)
  BY DEF Commit
<1>5. CASE w.row = w.seen
  <2>1. list' = list
    BY <1>0, <1>1, <1>2, <1>4, <1>5, CommittedRow
  <2>2. ~Named(w) /\ ~Queued(w)
    BY <1>0, <1>5, NamedCounts DEF Queued
  <2>. QED BY <1>0, <2>1, <2>2, IdleOK, ForgottenInOrder, CommitView
<1>6. CASE w.row # w.seen
  <2>1. list = w.seen /\ \A q \in Senders \ {p} : ~Named(work[q])
    BY <1>0, <1>6, NotOvertaken, CommitView
  <2>2. list' = w.row
    BY <1>0, <1>1, <1>2, <1>4, <2>1, CommittedRow
  <2>3. \A q \in Senders : ~Named(work'[q]) /\ ~Queued(work'[q])
    BY <1>3, <2>1, IdleOK DEF Queued
  <2>4. Before(Name(list), Name(w.row))
    BY <1>2, <1>6, <2>1
  <2>5. Before(latest, Name(w.row))
    <3>1. CASE Queued(w)
      <4>1. latest = w.dest /\ NamesDigest(w)
        BY <3>1 DEF InOrder, Queued
      <4>. QED BY <4>1 DEF NamesDigest
    <3>2. CASE ~Queued(w)
      <4>1. Before(latest, Name(list))
        BY <2>1, <3>2 DEF InOrder, Queued
      <4>2. Name(list) \in Names /\ Name(w.row) \in Names
        BY <1>0, <1>2, NameOfRow
      <4>. QED BY <1>0, <2>4, <4>1, <4>2, BeforeIsOrder
    <3>. QED BY <3>1, <3>2
  <2>6. ~fell' /\ Before(latest', Name(list'))
    BY <1>0, <2>2, <2>5 DEF InOrder
  <2>. QED BY <2>3, <2>6 DEF InOrder
<1>. QED BY <1>5, <1>6

LEMMA InOrderKept ==
    ASSUME TypeOK, InOrder, Next, races' = {}
    PROVE  InOrder'
<1>0. SessionsOK /\ list \in Row /\ today \in Nat
  BY DEF TypeOK
<1>a. \A p \in Senders : work[p] \in Session /\ SessionOK(p, work[p])
  BY <1>0 DEF SessionsOK
<1>f. ASSUME NEW p \in Senders, Becomes(p, Idle), ~work[p].moved, UNCHANGED <<list, latest, fell>>
      PROVE  InOrder'
  <2>1. ~Queued(work[p])
    BY <1>a, <1>f DEF SessionOK, Queued
  <2>. QED BY <1>0, <1>f, <2>1, IdleOK, ForgottenInOrder
<1>1. ASSUME NEW m \in Msgs, Take(m) PROVE InOrder'
  <2>1. work["pipeline"].pc = "idle" /\ UNCHANGED <<list, latest, fell>>
    BY <1>1 DEF Take, database, numbering
  <2>2. ~Queued(work["pipeline"])
    BY <2>1 DEF Queued
  <2>. QED BY <1>0, <1>1, <2>1, <2>2, TakeView, TakingOK, SendersAre, ForgottenInOrder
<1>2. CASE OpenMailbox
  <2>1. work["pipeline"].pc = "handlers" /\ UNCHANGED <<list, latest, fell>>
    BY <1>2 DEF OpenMailbox, database, numbering
  <2>2. ~Named(work["pipeline"]) /\ ~Queued(work["pipeline"])
    BY <1>a, <2>1, SendersAre DEF Queued, SessionOK
  <2>3. PICK i \in Nat : Becomes("pipeline", Opening(work["pipeline"], i))
    BY <1>2, OpenView
  <2>4. Opening(work["pipeline"], i) \in Session /\ ~Named(Opening(work["pipeline"], i))
    BY <1>a, <2>1, <2>2, OpeningOK, SendersAre DEF Named
  <2>. QED BY <1>0, <2>1, <2>2, <2>3, <2>4, SendersAre, ForgottenInOrder
<1>3. CASE AddMessage
  <2>1. work["pipeline"].pc = "open" /\ UNCHANGED <<list, latest, fell>>
    BY <1>3 DEF AddMessage, database, numbering
  <2>2. ~Named(work["pipeline"]) /\ ~Queued(work["pipeline"])
    BY <1>a, <2>1, SendersAre DEF Queued, SessionOK
  <2>3. CASE Fails("pipeline")
    BY <1>f, <2>1, <2>3, FailsView, SendersAre
  <2>4. CASE Becomes("pipeline", Appending(work["pipeline"]))
    <3>1. /\ Appending(work["pipeline"]) \in Session
          /\ ~Named(Appending(work["pipeline"]))
      BY <1>a, <2>1, <2>2, AppendingOK, SendersAre DEF Named
    <3>. QED BY <1>0, <2>1, <2>2, <2>4, <3>1, SendersAre, ForgottenInOrder
  <2>. QED BY <1>3, <2>3, <2>4, AddView
<1>4. CASE LaterHandlers
  <2>1. work["pipeline"].pc = "later" /\ UNCHANGED <<list, latest, fell>>
    BY <1>4 DEF LaterHandlers, database, numbering
  <2>3. CASE Fails("pipeline")
    BY <1>f, <2>1, <2>3, FailsView, SendersAre
  <2>4. CASE Becomes("pipeline", Going(work["pipeline"], "commit"))
    <3> DEFINE w == work["pipeline"]
               v == Going(w, "commit")
    <3>1. /\ v \in Session /\ v.pc = "commit" /\ v.dest = w.dest
          /\ v.seen = w.seen /\ v.row = w.row
      BY <1>a, <2>1, GoingOK, SendersAre
    <3>2. Queued(v) <=> Queued(w)
      BY <2>1, <3>1 DEF Queued, Named
    <3> HIDE DEF v
    <3>3. Becomes("pipeline", v)
      BY <2>4 DEF v
    <3>. QED BY <1>0, <2>1, <3>1, <3>2, <3>3, SendersAre, GoingOnInOrder
  <2>. QED BY <1>4, <2>3, <2>4, LaterView
<1>5. ASSUME NEW p \in Senders, RenameMailbox(p) PROVE InOrder'
  <2>1. work[p].pc = "rename" /\ UNCHANGED <<list, latest, fell>>
    BY <1>5 DEF RenameMailbox, database, numbering
  <2>2. CASE Fails(p)
    BY <1>f, <2>1, <2>2, FailsView
  <2>3. CASE Becomes(p, Moving(work[p]))
    <3> DEFINE v == Moving(work[p])
    <3>1. /\ v \in Session /\ v.pc = "enqueue" /\ v.dest = work[p].dest
          /\ v.seen = work[p].seen /\ v.row = work[p].row
      BY <1>a, <2>1, MovingOK
    <3>2. ~Queued(v) /\ ~Queued(work[p])
      BY <2>1, <3>1 DEF Queued
    <3> HIDE DEF v
    <3>3. Becomes(p, v)
      BY <2>3 DEF v
    <3>. QED BY <1>0, <2>1, <3>1, <3>2, <3>3, GoingOnInOrder
  <2>. QED BY <1>5, <2>2, <2>3, RenameView
<1>6. ASSUME NEW p \in Senders, Crash(p) PROVE InOrder'
  <2>1. UNCHANGED <<list, latest, fell>>
    BY <1>6 DEF Crash, database, numbering
  <2>. QED BY <1>f, <1>6, <2>1, CrashView
<1>7. ASSUME NEW bump \in BOOLEAN, NEW send \in BOOLEAN, Administer(bump, send) PROVE InOrder'
  <2>1. work["admin"].pc = "idle" /\ UNCHANGED <<list, latest, fell>>
    BY <1>7 DEF Administer, database, numbering
  <2>2. ~Queued(work["admin"])
    BY <2>1 DEF Queued
  <2>. QED BY <1>0, <1>7, <2>1, <2>2, AdministerView, AskingOK, SendersAre, ForgottenInOrder
<1>8. CASE OtherSteps
  BY <1>8, OthersLeaveSessions DEF InOrder, NamesDigest
<1>. QED BY <1>1, <1>2, <1>3, <1>4, <1>5, <1>6, <1>7, <1>8, CheckInOrder, EnqueueInOrder,
            CommitInOrder, NextIs

--------------------------------------------------------------------------------
(***************************************************************************)
(* The files.                                                              *)
(***************************************************************************)
(* Mailbox(path) makes the file if there is none.                          *)
Opens(name) ==
    /\ dir' = IF Exists(name) THEN dir ELSE With(dir, name, NewInode)
    /\ box' = IF Exists(name) THEN box ELSE With(box, NewInode, <<>>)
LEMMA OpensStep ==
    ASSUME FilesOK, NEW name \in Names, Opens(name)
    PROVE  /\ FilesOK'
           /\ DOMAIN dir' = DOMAIN dir \cup {name} /\ DOMAIN box \subseteq DOMAIN box'
           /\ \A n \in DOMAIN dir : dir'[n] = dir[n] /\ box'[dir'[n]] = box[dir[n]]
           /\ name \notin DOMAIN dir => box'[dir'[name]] = <<>>
<1>1. CASE Exists(name)
  BY <1>1 DEF Opens, Exists, FilesOK
<1>2. CASE ~Exists(name)
  <2> DEFINE i == NewInode
  <2>1. i \in Nat /\ i \notin DOMAIN box
    BY FreshIsNew DEF NewInode, FilesOK
  <2>2. dir' = With(dir, name, i) /\ box' = With(box, i, <<>>) /\ name \notin DOMAIN dir
    BY <1>2 DEF Opens, Exists
  <2> HIDE DEF i
  <2>3. /\ DOMAIN dir' = DOMAIN dir \cup {name} /\ dir'[name] = i
        /\ \A n \in DOMAIN dir : dir'[n] = dir[n]
    BY <2>2 DEF With
  <2>4. /\ DOMAIN box' = DOMAIN box \cup {i} /\ box'[i] = <<>>
        /\ \A j \in DOMAIN box : box'[j] = box[j]
    BY <2>1, <2>2 DEF With
  <2>5. \A n \in DOMAIN dir : dir[n] \in DOMAIN box
    BY DEF FilesOK
  <2>6. dir' \in [DOMAIN dir' -> DOMAIN box'] /\ DOMAIN dir' \subseteq Names
    BY <2>2, <2>3, <2>4, <2>5 DEF FilesOK, With
  <2>7. box' \in [DOMAIN box' -> Seq(Msgs)] /\ DOMAIN box' \subseteq Nat
    BY <2>1, <2>2, <2>4 DEF FilesOK, With
  <2>8. IsFiniteSet(DOMAIN box')
    BY <2>4, FS_AddElement DEF FilesOK
  <2>9. \A a, b \in DOMAIN dir' : dir'[a] = dir'[b] => a = b
    BY <2>1, <2>3, <2>5 DEF FilesOK
  <2>. QED BY <2>3, <2>4, <2>5, <2>6, <2>7, <2>8, <2>9 DEF FilesOK
<1>. QED BY <1>1, <1>2

(* An append goes to the inode; without a name it is gone with the handle. *)
Appends(i, m) ==
    /\ dir' = dir
    /\ box' = IF i \in Range(dir) THEN [box EXCEPT ![i] = Append(@, m)]
              ELSE Restrict(box, DOMAIN box \ {i})
LEMMA AppendsStep ==
    ASSUME FilesOK, NEW i \in DOMAIN box, NEW m \in Msgs, Appends(i, m)
    PROVE  /\ FilesOK' /\ DOMAIN box \ {i} \subseteq DOMAIN box'
           /\ \A n \in DOMAIN dir : dir[n] # i => box'[dir[n]] = box[dir[n]]
           /\ \A n \in DOMAIN dir : dir[n] = i => box'[dir[n]] = Append(box[dir[n]], m)
<1>1. CASE i \in Range(dir)
  <2>1. box' = [box EXCEPT ![i] = Append(@, m)] /\ dir' = dir
    BY <1>1 DEF Appends
  <2>2. Append(box[i], m) \in Seq(Msgs)
    BY DEF FilesOK
  <2>. QED BY <2>1, <2>2 DEF FilesOK
<1>2. CASE i \notin Range(dir)
  <2>1. box' = [j \in DOMAIN box \ {i} |-> box[j]] /\ dir' = dir
    BY <1>2 DEF Appends, Restrict
  <2>2. \A n \in DOMAIN dir : dir[n] \in DOMAIN box /\ dir[n] # i
    BY <1>2 DEF Range, FilesOK
  <2>3. IsFiniteSet(DOMAIN box')
    BY <2>1, FS_Subset DEF FilesOK
  <2>. QED BY <2>1, <2>2, <2>3 DEF FilesOK
<1>. QED BY <1>1, <1>2

(* What has a name or is open stays.                                       *)
LEMMA KeptStep ==
    ASSUME FilesOK, NEW d, DOMAIN d \subseteq Names,
           \A n \in DOMAIN d : d[n] \in DOMAIN box,
           d = [n \in DOMAIN d |-> d[n]],
           \A a, b \in DOMAIN d : d[a] = d[b] => a = b,
           dir' = d, box' = Kept(d)
    PROVE  /\ FilesOK' /\ DOMAIN box \cap OpenFiles \subseteq DOMAIN box'
           /\ \A n \in DOMAIN d : d[n] \in DOMAIN box' /\ box'[d[n]] = box[d[n]]
<1> DEFINE K == DOMAIN box \cap (Range(d) \cup OpenFiles)
<1>1. box' = [j \in K |-> box[j]]
  BY DEF Kept, Restrict
<1>2. \A n \in DOMAIN d : d[n] \in K
  BY DEF Range
<1>3. K \subseteq DOMAIN box /\ DOMAIN box \cap OpenFiles \subseteq K
  OBVIOUS
<1> HIDE DEF K
<1>4. IsFiniteSet(DOMAIN box')
  BY <1>1, <1>3, FS_Subset DEF FilesOK
<1>5. box' \in [DOMAIN box' -> Seq(Msgs)] /\ DOMAIN box' \subseteq Nat
  BY <1>1, <1>3 DEF FilesOK
<1>6. dir' \in [DOMAIN dir' -> DOMAIN box'] /\ DOMAIN dir' \subseteq Names
  BY <1>1, <1>2
<1>. QED BY <1>1, <1>2, <1>3, <1>4, <1>5, <1>6 DEF FilesOK

Renames(dest) ==
    /\ Exists(Current)
    /\ dir' = With(Restrict(dir, DOMAIN dir \ {Current}), dest, dir[Current])
    /\ box' = Kept(dir')
LEMMA RenamesStep ==
    ASSUME FilesOK, NEW dest \in Names, dest # Current, Renames(dest)
    PROVE  /\ FilesOK' /\ DOMAIN box \cap OpenFiles \subseteq DOMAIN box'
           /\ DOMAIN dir' = (DOMAIN dir \ {Current}) \cup {dest}
           /\ Current \in DOMAIN dir /\ dir'[dest] = dir[Current]
           /\ box'[dir'[dest]] = box[dir[Current]]
           /\ \A n \in DOMAIN dir \ {Current, dest} : dir'[n] = dir[n] /\ box'[dir'[n]] = box[dir[n]]
<1> DEFINE d == With(Restrict(dir, DOMAIN dir \ {Current}), dest, dir[Current])
<1>1. dir' = d /\ box' = Kept(d) /\ Current \in DOMAIN dir
  BY DEF Renames, Exists
<1>2. /\ d = [n \in (DOMAIN dir \ {Current}) \cup {dest} |->
                IF n = dest THEN dir[Current] ELSE dir[n]]
  BY DEF With, Restrict
<1> HIDE DEF d
<1>3. /\ DOMAIN d = (DOMAIN dir \ {Current}) \cup {dest} /\ d[dest] = dir[Current]
      /\ \A n \in DOMAIN dir \ {Current, dest} : d[n] = dir[n]
      /\ d = [n \in DOMAIN d |-> d[n]]
  BY <1>2
<1>4. /\ DOMAIN d \subseteq Names /\ \A n \in DOMAIN d : d[n] \in DOMAIN box
      /\ \A a, b \in DOMAIN d : d[a] = d[b] => a = b
  BY <1>1, <1>3 DEF FilesOK
<1>5. /\ FilesOK' /\ DOMAIN box \cap OpenFiles \subseteq DOMAIN box'
      /\ \A n \in DOMAIN d : d[n] \in DOMAIN box' /\ box'[d[n]] = box[d[n]]
  BY <1>1, <1>3, <1>4, KeptStep
<1>. QED BY <1>1, <1>3, <1>5

Removes(path) ==
    /\ dir' = Restrict(dir, DOMAIN dir \ {path})
    /\ box' = Kept(dir')
LEMMA RemovesStep ==
    ASSUME FilesOK, NEW path, Removes(path)
    PROVE  /\ FilesOK' /\ DOMAIN box \cap OpenFiles \subseteq DOMAIN box'
           /\ DOMAIN dir' = DOMAIN dir \ {path}
           /\ \A n \in DOMAIN dir \ {path} : dir'[n] = dir[n] /\ box'[dir'[n]] = box[dir[n]]
<1> DEFINE d == [n \in DOMAIN dir \ {path} |-> dir[n]]
<1>1. dir' = d /\ box' = Kept(d)
  BY DEF Removes, Restrict
<1>3. /\ DOMAIN d = DOMAIN dir \ {path}
      /\ \A n \in DOMAIN dir \ {path} : d[n] = dir[n]
      /\ d = [n \in DOMAIN d |-> d[n]]
  OBVIOUS
<1> HIDE DEF d
<1>4. /\ DOMAIN d \subseteq Names /\ \A n \in DOMAIN d : d[n] \in DOMAIN box
      /\ \A a, b \in DOMAIN d : d[a] = d[b] => a = b
  BY <1>1, <1>3 DEF FilesOK
<1>5. /\ FilesOK' /\ DOMAIN box \cap OpenFiles \subseteq DOMAIN box'
      /\ \A n \in DOMAIN d : d[n] \in DOMAIN box' /\ box'[d[n]] = box[d[n]]
  BY <1>1, <1>3, <1>4, KeptStep
<1>. QED BY <1>1, <1>3, <1>5

LEMMA FileActions ==
    /\ OpenMailbox => Opens(Current)
    /\ AddMessage => \/ UNCHANGED <<dir, box>>
                     \/ Appends(work["pipeline"].inode, work["pipeline"].msg)
    /\ \A p \in Senders : RenameMailbox(p) => UNCHANGED <<dir, box>> \/ Renames(work[p].dest)
    /\ \A i \in DOMAIN trigger : Dequeue(i) => Opens(trigger[i].path)
    /\ RemoveMailbox => Removes(trigger[runner.id].path)
<1>1. OpenMailbox => Opens(Current)
  BY DEF OpenMailbox, Opens
<1>2. AddMessage => \/ UNCHANGED <<dir, box>>
                    \/ Appends(work["pipeline"].inode, work["pipeline"].msg)
  BY DEF AddMessage, Appends, files
<1>3. \A p \in Senders : RenameMailbox(p) => UNCHANGED <<dir, box>> \/ Renames(work[p].dest)
  BY RenameView DEF Renames
<1>4. \A i \in DOMAIN trigger : Dequeue(i) => Opens(trigger[i].path)
  BY DEF Dequeue, Opens
<1>5. RemoveMailbox => Removes(trigger[runner.id].path)
  BY DEF RemoveMailbox, Removes
<1>. QED BY <1>1, <1>2, <1>3, <1>4, <1>5

LEMMA FilesStay ==
    ASSUME Next, ~OpenMailbox, ~AddMessage, \A p \in Senders : ~RenameMailbox(p),
           \A i \in DOMAIN trigger : ~Dequeue(i), ~RemoveMailbox
    PROVE  UNCHANGED <<dir, box>>
<1>1. ASSUME NEW m \in Msgs, Take(m) PROVE UNCHANGED <<dir, box>>
  BY <1>1 DEF Take, files
<1>2. ASSUME NEW p \in Senders, CheckSize(p) \/ EnqueueTrigger(p) \/ Commit(p) \/ Crash(p)
      PROVE  UNCHANGED <<dir, box>>
  BY <1>2 DEF CheckSize, EnqueueTrigger, Commit, Crash, files
<1>3. ASSUME NEW bump \in BOOLEAN, NEW send \in BOOLEAN, Administer(bump, send)
      PROVE  UNCHANGED <<dir, box>>
  BY <1>3 DEF Administer, files
<1>4. ASSUME LaterHandlers \/ Build \/ SendMime \/ SendPlain \/ FinishDigest
             \/ DigestCrash \/ Unshunt \/ NextDay \/ \E c \in Wishes : ChangePreferences(c)
      PROVE  UNCHANGED <<dir, box>>
  BY <1>4 DEF LaterHandlers, Build, SendMime, SendPlain, FinishDigest, DigestCrash, Unshunt,
              NextDay, ChangePreferences, files
<1>. QED BY <1>1, <1>2, <1>3, <1>4, NextIs DEF OtherSteps

LEMMA FilesKept ==
    ASSUME TypeOK, Next
    PROVE  FilesOK'
<1>0. FilesOK /\ SessionsOK /\ TriggersOK /\ RunnerOK /\ HandlesOK
  BY DEF TypeOK
<1>1. CASE OpenMailbox
  <2>1. Current \in Names
    BY DEF Current, Names
  <2>. QED BY <1>0, <1>1, <2>1, FileActions, OpensStep
<1>2. CASE AddMessage
  <2>1. work["pipeline"].inode \in DOMAIN box /\ work["pipeline"].msg \in Msgs
    BY <1>0, <1>2, SendersAre DEF AddMessage, HandlesOK, SessionsOK, SessionOK
  <2>. QED BY <1>0, <1>2, <2>1, FileActions, AppendsStep DEF FilesOK
<1>3. ASSUME NEW p \in Senders, RenameMailbox(p) PROVE FilesOK'
  <2>1. work[p].dest \in Names /\ work[p].dest # Current
    BY <1>0, <1>3 DEF RenameMailbox, SessionsOK, SessionOK, Session, Named
  <2>. QED BY <1>0, <1>3, <2>1, FileActions, RenamesStep DEF FilesOK
<1>4. ASSUME NEW i \in DOMAIN trigger, Dequeue(i) PROVE FilesOK'
  <2>1. trigger[i].path \in Names
    BY <1>0 DEF TriggersOK, Trigger
  <2>. QED BY <1>0, <1>4, <2>1, FileActions, OpensStep
<1>5. CASE RemoveMailbox
  BY <1>0, <1>5, FileActions, RemovesStep
<1>6. CASE UNCHANGED <<dir, box>>
  BY <1>0, <1>6 DEF FilesOK
<1>. QED BY <1>1, <1>2, <1>3, <1>4, <1>5, <1>6, FilesStay

--------------------------------------------------------------------------------
(***************************************************************************)
(* The triggers and the digest runner.                                     *)
(***************************************************************************)
Requeued(e, q) == [e EXCEPT !.queue = q]
Reading(i, inode) == [Asleep EXCEPT !.pc = "reading", !.id = i, !.inode = inode]
Building(contents) ==
    [runner EXCEPT !.pc = "sending", !.inode = 0, !.contents = contents, !.ended = (olds # {}),
                   !.mime = Getting({"mime", "summary"}),
                   !.plain = Getting({"plaintext"}) \cup olds]
At(pc) == [runner EXCEPT !.pc = pc]

LEMMA AsleepFields == Asleep \in RunnerState /\ Asleep.pc = "idle"
BY DEF Asleep, RunnerState

LEMMA ReadingFields ==
    ASSUME NEW i \in Nat, NEW inode \in Nat
    PROVE  /\ Reading(i, inode) \in RunnerState /\ Reading(i, inode).pc = "reading"
           /\ Reading(i, inode).id = i /\ Reading(i, inode).inode = inode
BY AsleepFields, Zenon DEF Reading, RunnerState

LEMMA BuildingFields ==
    ASSUME runner \in RunnerState, olds \subseteq {Former}, NEW c \in Seq(Msgs)
    PROVE  /\ Building(c) \in RunnerState /\ Building(c).pc = "sending"
           /\ Building(c).id = runner.id /\ Building(c).contents = c
<1>1. Getting({"mime", "summary"}) \subseteq Readers /\ Getting({"plaintext"}) \subseteq Readers
  BY DEF Getting
<1>2. Getting({"plaintext"}) \cup olds \subseteq Readers \cup {Former}
  BY <1>1
<1>. QED BY <1>1, <1>2, Zenon DEF Building, RunnerState

LEMMA AtFields ==
    ASSUME runner \in RunnerState, NEW pc \in {"plain", "remove", "finish"}
    PROVE  /\ At(pc) \in RunnerState /\ At(pc).pc = pc
           /\ At(pc).id = runner.id /\ At(pc).contents = runner.contents
BY Zenon DEF At, RunnerState

(* An entry goes to another queue; its mailbox keeps its name.             *)
SamePaths == /\ DOMAIN trigger' = DOMAIN trigger
             /\ \A i \in DOMAIN trigger : trigger'[i].path = trigger[i].path
LEMMA RequeuedStep ==
    ASSUME TriggersOK, NEW i \in DOMAIN trigger, NEW q \in {"digest", "shunt"},
           trigger' = [trigger EXCEPT ![i].queue = q]
    PROVE  TriggersOK' /\ SamePaths
<1>1. trigger' = [trigger EXCEPT ![i] = Requeued(trigger[i], q)]
  BY Zenon DEF Requeued
<1>2. trigger[i] \in Trigger
  BY DEF TriggersOK
<1>3. Requeued(trigger[i], q) \in Trigger /\ Requeued(trigger[i], q).path = trigger[i].path
  BY <1>2, Zenon DEF Requeued, Trigger
<1>. QED BY <1>1, <1>3 DEF TriggersOK, SamePaths

LEMMA EnqueuedStep ==
    ASSUME TriggersOK, NEW path \in Names,
           trigger' = With(trigger, NewId, [path |-> path, queue |-> "digest"])
    PROVE  \E n \in Nat \ DOMAIN trigger :
              /\ TriggersOK' /\ DOMAIN trigger' = DOMAIN trigger \cup {n}
              /\ trigger'[n].path = path
              /\ \A i \in DOMAIN trigger : trigger'[i] = trigger[i]
<1> DEFINE n == NewId
           e == [path |-> path, queue |-> "digest"]
<1>1. n \in Nat \ DOMAIN trigger
  BY FreshIsNew DEF NewId, TriggersOK
<1>2. trigger' = With(trigger, n, e)
  OBVIOUS
<1>3. e \in Trigger /\ e.path = path
  BY DEF Trigger
<1> HIDE DEF n, e
<1>4. /\ DOMAIN trigger' = DOMAIN trigger \cup {n} /\ trigger'[n] = e
      /\ \A i \in DOMAIN trigger : trigger'[i] = trigger[i]
  BY <1>1, <1>2 DEF With
<1>5. trigger' \in [DOMAIN trigger' -> Trigger] /\ DOMAIN trigger' \subseteq Nat
  BY <1>1, <1>2, <1>3, <1>4 DEF With, TriggersOK
<1>6. IsFiniteSet(DOMAIN trigger')
  BY <1>4, FS_AddElement DEF TriggersOK
<1>. QED BY <1>1, <1>3, <1>4, <1>5, <1>6 DEF TriggersOK

LEMMA WithoutStep ==
    ASSUME TriggersOK, NEW i, trigger' = Without(i)
    PROVE  /\ TriggersOK' /\ DOMAIN trigger' = DOMAIN trigger \ {i}
           /\ \A j \in DOMAIN trigger' : trigger'[j] = trigger[j]
<1>1. trigger' = [j \in DOMAIN trigger \ {i} |-> trigger[j]]
  BY DEF Without, Restrict
<1>2. IsFiniteSet(DOMAIN trigger')
  BY <1>1, FS_Subset DEF TriggersOK
<1>. QED BY <1>1, <1>2 DEF TriggersOK

LEMMA DequeueView ==
    ASSUME TypeOK, NEW i \in DOMAIN trigger, Dequeue(i)
    PROVE  \/ /\ \E f \in DOMAIN box' : /\ f = dir'[trigger[i].path] /\ f \in Nat
                                        /\ runner' = Reading(i, f)
              /\ trigger' = trigger
           \/ /\ trigger' = [trigger EXCEPT ![i].queue = "shunt"]
              /\ runner' = runner
<1> DEFINE path == trigger[i].path
           new == IF Exists(path) THEN dir ELSE With(dir, path, NewInode)
<1>1. FilesOK' /\ path \in DOMAIN dir'
  <2>1. path \in Names
    BY DEF TypeOK, TriggersOK, Trigger
  <2>. QED BY <2>1, FileActions, OpensStep DEF TypeOK
<1>2. /\ dir' = new
      /\ \/ runner' = [Asleep EXCEPT !.pc = "reading", !.id = i, !.inode = new[path]]
            /\ trigger' = trigger
         \/ Shunt(i) /\ runner' = runner
  BY Zenon DEF Dequeue
<1> HIDE DEF new
<1>a. \/ runner' = Reading(i, new[path]) /\ trigger' = trigger
      \/ Shunt(i) /\ runner' = runner
  BY <1>2, Zenon DEF Reading
<1>3. dir'[path] \in DOMAIN box' /\ dir'[path] \in Nat
  BY <1>1 DEF FilesOK
<1>. QED BY <1>2, <1>a, <1>3 DEF Shunt

LEMMA BuildView ==
    ASSUME Build
    PROVE  \/ /\ trigger' = [trigger EXCEPT ![runner.id].queue = "shunt"]
              /\ runner' = Asleep
           \/ runner' = Building(box[runner.inode]) /\ trigger' = trigger
BY Zenon DEF Build, Building, Shunt

LEMMA SendView ==
    /\ SendMime => runner.pc = "sending" /\ runner' = At("plain") /\ trigger' = trigger
    /\ SendPlain => runner.pc = "plain" /\ runner' = At("remove") /\ trigger' = trigger
    /\ RemoveMailbox => runner.pc = "remove" /\ runner' = At("finish") /\ trigger' = trigger
BY Zenon DEF SendMime, SendPlain, RemoveMailbox, At

LEMMA RunnerStays ==
    ASSUME Next
    PROVE  \/ \E i \in DOMAIN trigger : Dequeue(i)
           \/ Build \/ SendMime \/ SendPlain \/ RemoveMailbox \/ FinishDigest \/ DigestCrash
           \/ runner' = runner
<1>1. ASSUME NEW m \in Msgs, Take(m) PROVE runner' = runner
  BY <1>1 DEF Take, digester
<1>2. ASSUME NEW p \in Senders, \/ CheckSize(p) \/ RenameMailbox(p) \/ EnqueueTrigger(p)
                                \/ Commit(p) \/ Crash(p)
      PROVE  runner' = runner
  BY <1>2 DEF CheckSize, RenameMailbox, EnqueueTrigger, Commit, Crash, digester
<1>3. ASSUME NEW bump \in BOOLEAN, NEW send \in BOOLEAN, Administer(bump, send)
      PROVE  runner' = runner
  BY <1>3 DEF Administer, digester
<1>4. ASSUME OpenMailbox \/ AddMessage \/ LaterHandlers \/ Unshunt \/ NextDay
             \/ \E c \in Wishes : ChangePreferences(c)
      PROVE  runner' = runner
  BY <1>4 DEF OpenMailbox, AddMessage, LaterHandlers, Unshunt, NextDay, ChangePreferences,
              digester
<1>. QED BY <1>1, <1>2, <1>3, <1>4, NextIs DEF OtherSteps

LEMMA TriggersStay ==
    ASSUME Next
    PROVE  \/ \E i \in DOMAIN trigger : Dequeue(i)
           \/ Build \/ FinishDigest \/ Unshunt
           \/ \E p \in Senders : EnqueueTrigger(p)
           \/ trigger' = trigger
<1>1. ASSUME NEW m \in Msgs, Take(m) PROVE trigger' = trigger
  BY <1>1 DEF Take, digester
<1>2. ASSUME NEW p \in Senders, CheckSize(p) \/ RenameMailbox(p) \/ Commit(p) \/ Crash(p)
      PROVE  trigger' = trigger
  BY <1>2 DEF CheckSize, RenameMailbox, Commit, Crash, digester
<1>3. ASSUME NEW bump \in BOOLEAN, NEW send \in BOOLEAN, Administer(bump, send)
      PROVE  trigger' = trigger
  BY <1>3 DEF Administer, digester
<1>4. ASSUME \/ OpenMailbox \/ AddMessage \/ LaterHandlers \/ NextDay \/ SendMime \/ SendPlain
             \/ RemoveMailbox \/ DigestCrash \/ \E c \in Wishes : ChangePreferences(c)
      PROVE  trigger' = trigger
  BY <1>4 DEF OpenMailbox, AddMessage, LaterHandlers, NextDay, ChangePreferences, SendMime,
              SendPlain, RemoveMailbox, DigestCrash, digester
<1>. QED BY <1>1, <1>2, <1>3, <1>4, NextIs DEF OtherSteps

LEMMA UnshuntView ==
    ASSUME Unshunt
    PROVE  \/ trigger' = trigger
           \/ \E i \in DOMAIN trigger : trigger' = [trigger EXCEPT ![i].queue = "digest"]
BY Zenon DEF Unshunt

LEMMA TriggersKept ==
    ASSUME TypeOK, Next
    PROVE  TriggersOK'
<1>0. TriggersOK /\ SessionsOK /\ RunnerOK
  BY DEF TypeOK
<1>1. ASSUME NEW i \in DOMAIN trigger, Dequeue(i) PROVE TriggersOK'
  BY <1>0, <1>1, DequeueView, RequeuedStep DEF TriggersOK
<1>2. CASE Build
  <2>1. runner.id \in DOMAIN trigger
    BY <1>0, <1>2 DEF Build, RunnerOK
  <2>. QED BY <1>0, <1>2, <2>1, BuildView, RequeuedStep DEF TriggersOK
<1>3. CASE FinishDigest
  BY <1>0, <1>3, WithoutStep DEF FinishDigest
<1>4. CASE Unshunt
  BY <1>0, <1>4, UnshuntView, RequeuedStep DEF TriggersOK
<1>5. ASSUME NEW p \in Senders, EnqueueTrigger(p) PROVE TriggersOK'
  <2>1. work[p].dest \in Names
    BY <1>0 DEF SessionsOK, Session
  <2>. QED BY <1>0, <1>5, <2>1, EnqueuedStep DEF EnqueueTrigger
<1>. QED BY <1>0, <1>1, <1>2, <1>3, <1>4, <1>5, TriggersStay DEF TriggersOK

LEMMA RunnerKept ==
    ASSUME TypeOK, Next
    PROVE  RunnerOK'
<1>0. TriggersOK /\ SessionsOK /\ RunnerOK /\ HandlesOK /\ FilesOK /\ olds \subseteq {Former}
  BY DEF TypeOK
<1>1. ASSUME NEW i \in DOMAIN trigger, Dequeue(i) PROVE RunnerOK'
  <2>1. i \in Nat
    BY <1>0 DEF TriggersOK
  <2>2. CASE trigger' = trigger /\ \E f \in Nat : runner' = Reading(i, f)
    BY <2>1, <2>2, ReadingFields DEF RunnerOK
  <2>3. CASE trigger' = [trigger EXCEPT ![i].queue = "shunt"] /\ runner' = runner
    BY <1>0, <2>3, RequeuedStep DEF RunnerOK, SamePaths
  <2>. QED BY <1>1, <2>2, <2>3, DequeueView
<1>2. CASE Build
  <2>1. runner.pc = "reading" /\ runner.id \in DOMAIN trigger /\ box[runner.inode] \in Seq(Msgs)
    BY <1>0, <1>2 DEF Build, RunnerOK, HandlesOK, FilesOK
  <2>2. CASE runner' = Asleep
    BY <2>2, AsleepFields DEF RunnerOK
  <2>3. CASE runner' = Building(box[runner.inode]) /\ trigger' = trigger
    BY <1>0, <2>1, <2>3, BuildingFields DEF RunnerOK
  <2>. QED BY <1>2, <2>2, <2>3, BuildView
<1>3. CASE FinishDigest \/ DigestCrash
  <2>1. runner' = Asleep
    BY <1>3 DEF FinishDigest, DigestCrash
  <2>. QED BY <2>1, AsleepFields DEF RunnerOK
<1>4. CASE SendMime \/ SendPlain \/ RemoveMailbox
  <2>1. PICK pc \in {"plain", "remove", "finish"} :
           runner' = At(pc) /\ trigger' = trigger /\ runner.pc # "idle"
    BY <1>4, SendView
  <2>. QED BY <1>0, <2>1, AtFields DEF RunnerOK
<1>5. CASE runner' = runner
  <2>1. DOMAIN trigger \subseteq DOMAIN trigger' \/ FinishDigest
    <3>1. ASSUME NEW p \in Senders, EnqueueTrigger(p) PROVE DOMAIN trigger \subseteq DOMAIN trigger'
      <4>1. work[p].dest \in Names
        BY <1>0 DEF SessionsOK, Session
      <4>. QED BY <1>0, <3>1, <4>1, EnqueuedStep DEF EnqueueTrigger
    <3>2. CASE Unshunt
      BY <1>0, <3>2, UnshuntView, RequeuedStep DEF SamePaths
    <3>3. CASE Build
      BY <1>0, <3>3, BuildView, RequeuedStep DEF SamePaths, Build, RunnerOK
    <3>4. ASSUME NEW i \in DOMAIN trigger, Dequeue(i) PROVE DOMAIN trigger \subseteq DOMAIN trigger'
      BY <1>0, <3>4, DequeueView, RequeuedStep DEF SamePaths
    <3>. QED BY <3>1, <3>2, <3>3, <3>4, TriggersStay
  <2>. QED BY <1>0, <1>3, <1>5, <2>1 DEF RunnerOK
<1>. QED BY <1>1, <1>2, <1>3, <1>4, <1>5, RunnerStays

LEMMA HandlesKept ==
    ASSUME TypeOK, Next
    PROVE  HandlesOK'
<1>0. TriggersOK /\ SessionsOK /\ RunnerOK /\ HandlesOK /\ FilesOK
  BY DEF TypeOK
<1> DEFINE w == work["pipeline"]
           RunnerFile == runner.pc = "reading" => runner.inode \in DOMAIN box'
           SessionFile == w.pc = "open" => w.inode \in DOMAIN box'
<1>a. \A p \in Senders : work[p] \in Session /\ SessionOK(p, work[p])
  BY <1>0 DEF SessionsOK
<1>b. \/ RunnerFile /\ SessionFile
      \/ RunnerFile /\ (AddMessage \/ RenameMailbox("pipeline"))
  <2>1. CASE OpenMailbox
    <3>1. Current \in Names
      BY DEF Current, Names
    <3>. QED BY <1>0, <2>1, <3>1, FileActions, OpensStep DEF HandlesOK
  <2>2. CASE AddMessage
    <3>1. w.pc = "open" /\ w.inode \in DOMAIN box /\ w.msg \in Msgs
      BY <1>0, <2>2, SendersAre DEF AddMessage, HandlesOK, SessionsOK, SessionOK
    <3>2. CASE Locked(w.inode)
      <4>1. box' = box
        BY <2>2, <3>2 DEF AddMessage, files
      <4>. QED BY <1>0, <4>1 DEF HandlesOK
    <3>3. CASE ~Locked(w.inode)
      <4>1. Appends(w.inode, w.msg) \/ box' = box
        BY <2>2, FileActions
      <4>2. DOMAIN box \ {w.inode} \subseteq DOMAIN box'
        BY <1>0, <3>1, <4>1, AppendsStep
      <4>. QED BY <1>0, <2>2, <3>3, <4>2 DEF HandlesOK, Locked
    <3>. QED BY <3>2, <3>3
  <2>3. ASSUME NEW p \in Senders, RenameMailbox(p) PROVE RunnerFile /\ SessionFile
    <3>1. work[p].dest \in Names /\ work[p].dest # Current
      BY <1>a, <2>3 DEF RenameMailbox, SessionOK, Session, Named
    <3>2. DOMAIN box \cap OpenFiles \subseteq DOMAIN box'
      BY <1>0, <2>3, <3>1, FileActions, RenamesStep
    <3>. QED BY <1>0, <3>2 DEF HandlesOK, OpenFiles
  <2>4. ASSUME NEW i \in DOMAIN trigger, Dequeue(i) PROVE RunnerFile /\ SessionFile
    <3>1. trigger[i].path \in Names
      BY <1>0 DEF TriggersOK, Trigger
    <3>. QED BY <1>0, <2>4, <3>1, FileActions, OpensStep DEF HandlesOK
  <2>5. CASE RemoveMailbox
    <3>1. DOMAIN box \cap OpenFiles \subseteq DOMAIN box'
      BY <1>0, <2>5, FileActions, RemovesStep
    <3>. QED BY <1>0, <3>1 DEF HandlesOK, OpenFiles
  <2>6. CASE UNCHANGED <<dir, box>>
    BY <1>0, <2>6 DEF HandlesOK
  <2>. QED BY <2>1, <2>2, <2>3, <2>4, <2>5, <2>6, FilesStay
<1>c. runner'.pc = "reading" => runner'.inode \in DOMAIN box'
  <2>1. ASSUME NEW i \in DOMAIN trigger, Dequeue(i)
        PROVE  runner'.pc = "reading" => runner'.inode \in DOMAIN box'
    <3>1. i \in Nat
      BY <1>0 DEF TriggersOK
    <3>. QED BY <1>b, <2>1, <3>1, DequeueView, ReadingFields
  <2>2. CASE Build
    <3>1. runner.pc = "reading" /\ box[runner.inode] \in Seq(Msgs)
      BY <1>0, <2>2 DEF Build, HandlesOK, FilesOK
    <3>. QED BY <1>0, <2>2, <3>1, BuildView, BuildingFields, AsleepFields DEF TypeOK, RunnerOK
  <2>3. CASE FinishDigest \/ DigestCrash
    BY <2>3, AsleepFields DEF FinishDigest, DigestCrash
  <2>4. CASE SendMime \/ SendPlain \/ RemoveMailbox
    BY <1>0, <2>4, SendView, AtFields DEF RunnerOK
  <2>. QED BY <1>b, <2>1, <2>2, <2>3, <2>4, RunnerStays
<1>d. work'["pipeline"].pc = "open" => work'["pipeline"].inode \in DOMAIN box'
  <2>1. CASE OpenMailbox
    <3>1. w.pc = "handlers"
      BY <2>1 DEF OpenMailbox
    <3>2. PICK i \in Nat : Becomes("pipeline", Opening(w, i)) /\ i \in DOMAIN box'
      BY <2>1, OpenView
    <3>3. work'["pipeline"] = Opening(w, i)
      BY <1>0, <3>2, SendersAre DEF SessionsOK, Becomes
    <3>. QED BY <1>a, <3>1, <3>2, <3>3, OpeningOK, SendersAre
  <2>2. CASE work'["pipeline"] = w
    <3>1. (~AddMessage /\ ~RenameMailbox("pipeline")) \/ w.pc # "open"
      <4>1. RenameMailbox("pipeline") => w.pc # "open"
        BY DEF RenameMailbox
      <4>2. AddMessage => work'["pipeline"].pc # "open"
        <5>1. ASSUME AddMessage PROVE work'["pipeline"] = Idle \/ work'["pipeline"] = Appending(w)
          BY <1>0, <5>1, AddView, FailsView, SendersAre DEF SessionsOK, Becomes
        <5>2. AddMessage => w.pc = "open"
          BY DEF AddMessage
        <5>. QED BY <1>a, <5>1, <5>2, AppendingOK, IdleOK, SendersAre
      <4>. QED BY <2>2, <4>1, <4>2
    <3>. QED BY <1>b, <2>2, <3>1
  <2>3. CASE work'["pipeline"].pc # "open"
    BY <2>3
  <2>4. ASSUME NEW p \in Senders, NEW v, v.pc # "open", Becomes(p, v)
        PROVE  work'["pipeline"] = w \/ work'["pipeline"].pc # "open"
    BY <1>0, <2>4, SendersAre DEF SessionsOK, Becomes
  <2>5. OpenMailbox \/ work'["pipeline"] = w \/ work'["pipeline"].pc # "open"
    <3>f. ASSUME NEW p \in Senders, Becomes(p, Idle)
          PROVE  work'["pipeline"] = w \/ work'["pipeline"].pc # "open"
      BY <2>4, <3>f, IdleOK
    <3>1. ASSUME NEW m \in Msgs, Take(m)
          PROVE  work'["pipeline"] = w \/ work'["pipeline"].pc # "open"
      BY <2>4, <3>1, TakeView, TakingOK, SendersAre DEF TypeOK
    <3>2. CASE AddMessage
      <4>1. w.pc = "open"
        BY <3>2 DEF AddMessage
      <4>. QED BY <1>a, <2>4, <3>f, <3>2, <4>1, AddView, FailsView, AppendingOK, SendersAre
    <3>3. CASE LaterHandlers
      <4>1. w.pc = "later"
        BY <3>3 DEF LaterHandlers
      <4>2. Going(w, "commit").pc = "commit"
        BY <1>a, <4>1, GoingOK, SendersAre
      <4>. QED BY <2>4, <3>f, <3>3, <4>2, LaterView, FailsView, SendersAre
    <3>4. ASSUME NEW p \in Senders, CheckSize(p)
          PROVE  work'["pipeline"] = w \/ work'["pipeline"].pc # "open"
      <4>1. work[p].pc = "check"
        BY <3>4 DEF CheckSize
      <4>2. Naming(work[p]).pc = "rename" /\ Going(work[p], AfterSending(p)).pc # "open"
        BY <1>a, <4>1, NamingOK, GoingOK, SendersAre DEF TypeOK
      <4>. QED BY <2>4, <3>4, <4>2, CheckView
    <3>5. ASSUME NEW p \in Senders, RenameMailbox(p)
          PROVE  work'["pipeline"] = w \/ work'["pipeline"].pc # "open"
      <4>1. work[p].pc = "rename"
        BY <3>5 DEF RenameMailbox
      <4>2. Moving(work[p]).pc = "enqueue"
        BY <1>a, <4>1, MovingOK
      <4>. QED BY <2>4, <3>f, <3>5, <4>2, RenameView, FailsView
    <3>6. ASSUME NEW p \in Senders, EnqueueTrigger(p)
          PROVE  work'["pipeline"] = w \/ work'["pipeline"].pc # "open"
      <4>1. work[p].pc = "enqueue"
        BY <3>6 DEF EnqueueTrigger
      <4>2. Going(work[p], AfterSending(p)).pc # "open"
        BY <1>a, <4>1, GoingOK, SendersAre
      <4>. QED BY <2>4, <3>6, <4>2, EnqueueView
    <3>7. ASSUME NEW p \in Senders, Commit(p) \/ Crash(p)
          PROVE  work'["pipeline"] = w \/ work'["pipeline"].pc # "open"
      BY <3>f, <3>7, CommitView, CrashView
    <3>8. ASSUME NEW bump \in BOOLEAN, NEW send \in BOOLEAN, Administer(bump, send)
          PROVE  work'["pipeline"] = w
      BY <1>0, <3>8, AdministerView, SendersAre DEF SessionsOK, Becomes, Senders
    <3>9. CASE OtherSteps
      BY <3>9, OthersLeaveSessions
    <3>. QED BY <3>1, <3>2, <3>3, <3>4, <3>5, <3>6, <3>7, <3>8, <3>9, NextIs
  <2>. QED BY <2>1, <2>2, <2>3, <2>5
<1>. QED BY <1>c, <1>d DEF HandlesOK

LEMMA CountOfSeq ==
    ASSUME NEW s \in Seq(Msgs), NEW m
    PROVE  IsFiniteSet(Positions(s, m)) /\ Count(s, m) \in Nat
<1>1. Positions(s, m) \subseteq 1 .. Len(s) /\ Len(s) \in Nat
  BY DEF Positions
<1>2. IsFiniteSet(1 .. Len(s))
  BY <1>1, FS_Interval
<1>3. IsFiniteSet(Positions(s, m))
  BY <1>1, <1>2, FS_Subset
<1>. QED BY <1>3, FS_CardinalityType DEF Count

PostsOK == posts \in [Msgs -> {"queued", "taken", "shunted", "done"}]

LEMMA PostsKept ==
    ASSUME TypeOK, Next
    PROVE  PostsOK'
<1>0. PostsOK
  BY DEF TypeOK, PostsOK
<1>f. ASSUME NEW p \in Senders, Fails(p) PROVE PostsOK'
  BY <1>0, <1>f DEF Fails, PostsOK
<1>1. ASSUME NEW m \in Msgs, Take(m) PROVE PostsOK'
  BY <1>0, <1>1 DEF Take, PostsOK
<1>2. CASE OpenMailbox \/ AddMessage \/ LaterHandlers
  <2>1. AddMessage => Fails("pipeline") \/ posts' = posts
    BY DEF AddMessage
  <2>2. LaterHandlers => \/ Fails("pipeline")
                         \/ posts' = [posts EXCEPT ![work["pipeline"].msg] = "done"]
    BY DEF LaterHandlers
  <2>3. OpenMailbox => posts' = posts
    BY DEF OpenMailbox
  <2>4. CASE posts' = [posts EXCEPT ![work["pipeline"].msg] = "done"]
    BY <1>0, <2>4 DEF PostsOK
  <2>. QED BY <1>0, <1>2, <1>f, <2>1, <2>2, <2>3, <2>4, SendersAre DEF PostsOK
<1>3. ASSUME NEW p \in Senders, CheckSize(p) \/ EnqueueTrigger(p) \/ Commit(p) PROVE PostsOK'
  BY <1>0, <1>3 DEF CheckSize, EnqueueTrigger, Commit, PostsOK
<1>4. ASSUME NEW p \in Senders, RenameMailbox(p) PROVE PostsOK'
  <2>1. Fails(p) \/ posts' = posts
    BY <1>4 DEF RenameMailbox
  <2>. QED BY <1>0, <1>f, <2>1 DEF PostsOK
<1>5. ASSUME NEW p \in Senders, Crash(p) PROVE PostsOK'
  BY <1>0, <1>5 DEF Crash, PostsOK
<1>6. ASSUME NEW bump \in BOOLEAN, NEW send \in BOOLEAN, Administer(bump, send) PROVE PostsOK'
  BY <1>0, <1>6 DEF Administer, PostsOK
<1>7. CASE Unshunt
  BY <1>0, <1>7 DEF Unshunt, PostsOK
<1>8. CASE OtherSteps /\ ~Unshunt
  BY <1>0, <1>8 DEF OtherSteps, Dequeue, Build, SendMime, SendPlain, RemoveMailbox,
     FinishDigest, DigestCrash, ChangePreferences, NextDay, PostsOK
<1>. QED BY <1>1, <1>2, <1>3, <1>4, <1>5, <1>6, <1>7, <1>8, NextIs

Counted == /\ added \in [Msgs -> Nat] /\ issued \in [Msgs -> Nat]

(* What is counted changes with an append and with the end of a digest.    *)
LEMMA CountsStay ==
    ASSUME Next
    PROVE  /\ AddMessage \/ added' = added
           /\ RemoveMailbox \/ issued' = issued
<1>1. ASSUME NEW m \in Msgs, Take(m) PROVE UNCHANGED <<added, issued>>
  BY <1>1 DEF Take, files, digester
<1>2. CASE OpenMailbox \/ LaterHandlers
  BY <1>2 DEF OpenMailbox, LaterHandlers, files, digester
<1>3. ASSUME NEW p \in Senders, \/ CheckSize(p) \/ RenameMailbox(p) \/ EnqueueTrigger(p)
                                \/ Commit(p) \/ Crash(p)
      PROVE  UNCHANGED <<added, issued>>
  BY <1>3 DEF CheckSize, RenameMailbox, EnqueueTrigger, Commit, Crash, files, digester
<1>4. ASSUME NEW bump \in BOOLEAN, NEW send \in BOOLEAN, Administer(bump, send)
      PROVE  UNCHANGED <<added, issued>>
  BY <1>4 DEF Administer, files, digester
<1>5. CASE OtherSteps /\ ~RemoveMailbox
  BY <1>5 DEF OtherSteps, Dequeue, Build, SendMime, SendPlain, FinishDigest, DigestCrash,
              Unshunt, ChangePreferences, NextDay, files, digester
<1>6. AddMessage => issued' = issued
  BY DEF AddMessage, digester
<1>7. RemoveMailbox => added' = added
  BY DEF RemoveMailbox
<1>. QED BY <1>1, <1>2, <1>3, <1>4, <1>5, <1>6, <1>7, NextIs

LEMMA CountedKept ==
    ASSUME TypeOK, Next
    PROVE  Counted'
<1>0. Counted
  BY DEF TypeOK, Counted
<1>1. added' \in [Msgs -> Nat]
  <2>1. CASE AddMessage
    <3>1. \/ added' = added
          \/ added' = [added EXCEPT ![work["pipeline"].msg] = @ + 1]
      BY <2>1 DEF AddMessage, files
    <3>. QED BY <1>0, <3>1 DEF Counted
  <2>. QED BY <1>0, <2>1, CountsStay DEF Counted
<1>2. issued' \in [Msgs -> Nat]
  <2>1. CASE RemoveMailbox
    <3>1. \A m \in Msgs : Count(runner.contents, m) \in Nat
      BY CountOfSeq DEF TypeOK, RunnerOK, RunnerState
    <3>. QED BY <1>0, <2>1, <3>1 DEF RemoveMailbox, Counted
  <2>. QED BY <1>0, <2>1, CountsStay DEF Counted
<1>. QED BY <1>1, <1>2 DEF Counted

LEMMA ScalarsKept ==
    ASSUME TypeOK, Next
    PROVE  /\ today' \in Nat /\ list' \in Row /\ olds' \subseteq {Former}
           /\ latest' \in Names /\ fell' \in BOOLEAN
<1>0. /\ today \in Nat /\ list \in Row /\ olds \subseteq {Former}
      /\ latest \in Names /\ fell \in BOOLEAN /\ SessionsOK
  BY DEF TypeOK
<1>1. ASSUME NEW m \in Msgs, Take(m) PROVE UNCHANGED <<today, list, olds, latest, fell>>
  BY <1>1 DEF Take, database, numbering
<1>2. CASE OpenMailbox \/ AddMessage \/ LaterHandlers
  BY <1>0, <1>2 DEF OpenMailbox, AddMessage, LaterHandlers, database, numbering
<1>3. ASSUME NEW p \in Senders, CheckSize(p) \/ RenameMailbox(p) \/ Crash(p)
      PROVE  UNCHANGED <<today, list, olds, latest, fell>>
  BY <1>3 DEF CheckSize, RenameMailbox, Crash, database, numbering
<1>4. ASSUME NEW p \in Senders, EnqueueTrigger(p)
      PROVE  /\ UNCHANGED <<today, list, olds>> /\ latest' \in Names /\ fell' \in BOOLEAN
  <2>1. work[p].dest \in Names
    BY <1>0 DEF SessionsOK, Session
  <2>. QED BY <1>0, <1>4, <2>1 DEF EnqueueTrigger, database
<1>5. ASSUME NEW p \in Senders, Commit(p)
      PROVE  UNCHANGED <<today, olds, latest, fell>> /\ list' \in Row
  <2>1. work[p] \in Session /\ work[p].seen \in Row /\ work[p].row \in Row
    BY <1>0, <1>5 DEF SessionsOK, SessionOK, Commit
  <2>. QED BY <1>0, <1>5, <2>1, CommittedRow DEF Commit, numbering
<1>6. ASSUME NEW bump \in BOOLEAN, NEW send \in BOOLEAN, Administer(bump, send)
      PROVE  UNCHANGED <<today, list, olds, latest, fell>>
  BY <1>6 DEF Administer, database, numbering
<1>7. CASE OtherSteps
  <2>1. UNCHANGED <<list, latest, fell>>
    BY <1>7, OthersLeaveSessions
  <2>2. today' = today \/ today' = today + 1
    BY <1>7 DEF OtherSteps, Dequeue, Build, SendMime, SendPlain, RemoveMailbox, FinishDigest,
       DigestCrash, Unshunt, ChangePreferences, NextDay
  <2>3. olds' = olds \/ olds' = {}
    BY <1>7 DEF OtherSteps, Dequeue, Build, SendMime, SendPlain, RemoveMailbox, FinishDigest,
       DigestCrash, Unshunt, ChangePreferences, NextDay, database
  <2>. QED BY <1>0, <2>1, <2>2, <2>3
<1>. QED BY <1>0, <1>1, <1>2, <1>3, <1>4, <1>5, <1>6, <1>7, NextIs

LEMMA TypeKept ==
    ASSUME TypeOK, Next
    PROVE  TypeOK'
<1>1. SessionsOK' /\ TriggersOK' /\ RunnerOK' /\ FilesOK' /\ HandlesOK'
  BY SessionsKept, TriggersKept, RunnerKept, FilesKept, HandlesKept
<1>2. PostsOK' /\ Counted'
  BY PostsKept, CountedKept
<1>. QED BY <1>1, <1>2, ScalarsKept DEF TypeOK, PostsOK, Counted

--------------------------------------------------------------------------------
(***************************************************************************)
(* The names of the mailboxes.                                             *)
(***************************************************************************)
LEMMA PathsStay ==
    ASSUME TypeOK, Next
    PROVE  \/ SamePaths \/ FinishDigest
           \/ \E p \in Senders : EnqueueTrigger(p)
<1>0. TriggersOK /\ RunnerOK
  BY DEF TypeOK
<1>1. ASSUME NEW i \in DOMAIN trigger, Dequeue(i) PROVE SamePaths
  BY <1>0, <1>1, DequeueView, RequeuedStep DEF SamePaths
<1>2. CASE Build
  BY <1>0, <1>2, BuildView, RequeuedStep DEF SamePaths, Build, RunnerOK
<1>3. CASE Unshunt
  BY <1>0, <1>3, UnshuntView, RequeuedStep DEF SamePaths
<1>4. CASE trigger' = trigger
  BY <1>4 DEF SamePaths
<1>. QED BY <1>1, <1>2, <1>3, <1>4, TriggersStay

LEMMA LatestStays ==
    ASSUME Next
    PROVE  latest' = latest \/ \E p \in Senders : EnqueueTrigger(p)
<1>1. ASSUME NEW m \in Msgs, Take(m) PROVE latest' = latest
  BY <1>1 DEF Take, numbering
<1>2. CASE OpenMailbox \/ AddMessage \/ LaterHandlers
  BY <1>2 DEF OpenMailbox, AddMessage, LaterHandlers, numbering
<1>3. ASSUME NEW p \in Senders, CheckSize(p) \/ RenameMailbox(p) \/ Commit(p) \/ Crash(p)
      PROVE  latest' = latest
  BY <1>3 DEF CheckSize, RenameMailbox, Commit, Crash, numbering
<1>4. ASSUME NEW bump \in BOOLEAN, NEW send \in BOOLEAN, Administer(bump, send)
      PROVE  latest' = latest
  BY <1>4 DEF Administer, numbering
<1>. QED BY <1>1, <1>2, <1>3, <1>4, NextIs, OthersLeaveSessions

LEMMA NamesApartKept ==
    ASSUME TypeOK, InOrder, NamesApart, Next
    PROVE  NamesApart'
<1>0. TriggersOK /\ SessionsOK /\ latest \in Names
  BY DEF TypeOK
<1>1. ASSUME NEW p \in Senders, EnqueueTrigger(p) PROVE NamesApart'
  <2> DEFINE path == work[p].dest
  <2>1. path \in Names /\ path # Current
    BY <1>0, <1>1 DEF EnqueueTrigger, SessionsOK, SessionOK, Session, Named
  <2>2. PICK n \in Nat \ DOMAIN trigger :
           /\ DOMAIN trigger' = DOMAIN trigger \cup {n} /\ trigger'[n].path = path
           /\ \A i \in DOMAIN trigger : trigger'[i] = trigger[i]
    BY <1>0, <1>1, <2>1, EnqueuedStep DEF EnqueueTrigger
  <2>3. latest' = path /\ Before(latest, path)
    BY <1>1, EnqueueInOrder
  <2> HIDE DEF path
  <2>4. \A i \in DOMAIN trigger : /\ trigger[i].path # Current
                                  /\ Before(trigger[i].path, path) /\ trigger[i].path # path
    <3>1. \A i \in DOMAIN trigger : trigger[i].path \in Names
      BY <1>0 DEF TriggersOK, Trigger
    <3>. QED BY <1>0, <2>1, <2>3, <3>1, BeforeIsOrder DEF NamesApart
  <2>5. \A i \in DOMAIN trigger' : /\ trigger'[i].path # Current
                                   /\ trigger'[i].path = latest' \/ Before(trigger'[i].path, latest')
    BY <2>1, <2>2, <2>3, <2>4
  <2>6. \A i, j \in DOMAIN trigger' : trigger'[i].path = trigger'[j].path => i = j
    BY <2>2, <2>4 DEF NamesApart
  <2>. QED BY <2>5, <2>6 DEF NamesApart
<1>2. ASSUME \A p \in Senders : ~EnqueueTrigger(p) PROVE NamesApart'
  <2>1. latest' = latest
    BY <1>2, LatestStays
  <2>2. CASE SamePaths
    BY <2>1, <2>2 DEF SamePaths, NamesApart
  <2>3. CASE FinishDigest
    <3>1. DOMAIN trigger' \subseteq DOMAIN trigger /\ \A j \in DOMAIN trigger' : trigger'[j] = trigger[j]
      BY <1>0, <2>3, WithoutStep DEF FinishDigest
    <3>. QED BY <2>1, <3>1 DEF NamesApart
  <2>. QED BY <1>2, <2>2, <2>3, PathsStay
<1>. QED BY <1>1, <1>2

(* The mailbox that is renamed gets a name that no trigger has.            *)
LEMMA NewName ==
    ASSUME TypeOK, InOrder, NamesApart, NEW p \in Senders, work[p].pc = "rename"
    PROVE  /\ work[p].dest \in Names /\ work[p].dest # Current
           /\ \A i \in DOMAIN trigger : trigger[i].path # work[p].dest
           /\ \A q \in Senders : work[q].pc # "enqueue"
<1> DEFINE w == work[p]
<1>0. SessionsOK /\ TriggersOK /\ list \in Row /\ latest \in Names
  BY DEF TypeOK
<1>1. w \in Session /\ Named(w) /\ ~Queued(w) /\ w.dest \in Names /\ w.dest # Current
  BY <1>0 DEF SessionsOK, SessionOK, Session, Named, Queued
<1>2. NamesDigest(w) /\ \A q \in Senders \ {p} : ~Named(work[q])
  BY <1>1 DEF InOrder
<1>3. Before(latest, Name(list))
  BY <1>1, <1>2 DEF InOrder, Queued
<1>4. Name(list) \in Names
  BY <1>0, NameOfRow
<1>5. Before(latest, w.dest)
  BY <1>0, <1>1, <1>2, <1>3, <1>4, BeforeIsOrder DEF NamesDigest
<1>6. \A i \in DOMAIN trigger : trigger[i].path \in Names
  BY <1>0 DEF TriggersOK, Trigger
<1>7. \A i \in DOMAIN trigger : Before(trigger[i].path, w.dest)
  BY <1>0, <1>1, <1>5, <1>6, BeforeIsOrder DEF NamesApart
<1>8. \A q \in Senders : work[q].pc # "enqueue"
  BY <1>0, <1>2 DEF SessionsOK, SessionOK
<1>. QED BY <1>1, <1>6, <1>7, <1>8, BeforeIsOrder

--------------------------------------------------------------------------------
(***************************************************************************)
(* What the digest runner has read is what the mailbox has.                *)
(***************************************************************************)
(* The mailbox of a trigger changes only when it is removed.               *)
LEMMA AppendKeepsTheRest ==
    ASSUME TypeOK, AddMessage, races' = {}
    PROVE  \/ UNCHANGED <<dir, box, added>>
           \/ LET w == work["pipeline"]
              IN  /\ w.msg \in Msgs /\ FilesOK' /\ dir' = dir
                  /\ Current \in DOMAIN dir
                  /\ \A n \in DOMAIN dir \ {Current} : box'[dir[n]] = box[dir[n]]
                  /\ box'[dir[Current]] = Append(box[dir[Current]], w.msg)
                  /\ added' = [added EXCEPT ![w.msg] = @ + 1]
<1> DEFINE w == work["pipeline"]
<1>0. FilesOK /\ SessionsOK /\ HandlesOK
  BY DEF TypeOK
<1>1. w.pc = "open" /\ w.inode \in DOMAIN box /\ w.msg \in Msgs
  BY <1>0, SendersAre DEF AddMessage, HandlesOK, SessionsOK, SessionOK
<1>2. CASE Locked(w.inode)
  BY <1>2 DEF AddMessage, files
<1>3. CASE ~Locked(w.inode)
  <2>1. /\ Appends(w.inode, w.msg)
        /\ added' = [added EXCEPT ![w.msg] = @ + 1]
        /\ Exists(Current) /\ dir[Current] = w.inode
    BY <1>3 DEF AddMessage, Appends
  <2>2. Current \in DOMAIN dir /\ dir' = dir
    BY <2>1 DEF Exists, Appends
  <2>3. /\ FilesOK'
        /\ \A n \in DOMAIN dir : dir[n] # w.inode => box'[dir[n]] = box[dir[n]]
        /\ \A n \in DOMAIN dir : dir[n] = w.inode => box'[dir[n]] = Append(box[dir[n]], w.msg)
    BY <1>0, <1>1, <2>1, AppendsStep
  <2>4. \A n \in DOMAIN dir \ {Current} : dir[n] # w.inode
    BY <1>0, <2>1, <2>2 DEF FilesOK
  <2>. QED BY <1>1, <2>1, <2>2, <2>3, <2>4
<1>. QED BY <1>2, <1>3

LEMMA MailboxesStay ==
    ASSUME TypeOK, InOrder, NamesApart, Next, races' = {}, ~RemoveMailbox,
           NEW i \in DOMAIN trigger
    PROVE  LET path == trigger[i].path
           IN  /\ path \in DOMAIN dir =>
                     path \in DOMAIN dir' /\ dir'[path] = dir[path] /\ box'[dir'[path]] = box[dir[path]]
               /\ (\A j \in DOMAIN trigger : ~Dequeue(j)) /\ path \notin DOMAIN dir =>
                     path \notin DOMAIN dir'
<1> DEFINE path == trigger[i].path
<1>0. FilesOK /\ TriggersOK /\ path # Current
  BY DEF TypeOK, NamesApart
<1>1. CASE OpenMailbox
  <2>1. Current \in Names
    BY DEF Current, Names
  <2>. QED BY <1>0, <1>1, <2>1, FileActions, OpensStep
<1>2. CASE AddMessage
  BY <1>0, <1>2, AppendKeepsTheRest
<1>3. ASSUME NEW p \in Senders, RenameMailbox(p) 
      PROVE  /\ path \in DOMAIN dir => /\ path \in DOMAIN dir' /\ dir'[path] = dir[path]
                                       /\ box'[dir'[path]] = box[dir[path]]
             /\ path \notin DOMAIN dir => path \notin DOMAIN dir'
  <2>1. work[p].dest \in Names /\ work[p].dest # Current /\ path # work[p].dest
    BY <1>3, NewName DEF RenameMailbox
  <2>2. CASE UNCHANGED <<dir, box>>
    BY <2>2
  <2>3. CASE Renames(work[p].dest)
    <3>1. /\ DOMAIN dir' = (DOMAIN dir \ {Current}) \cup {work[p].dest}
          /\ \A n \in DOMAIN dir \ {Current, work[p].dest} :
                dir'[n] = dir[n] /\ box'[dir'[n]] = box[dir[n]]
      BY <1>0, <2>1, <2>3, RenamesStep
    <3>. QED BY <1>0, <2>1, <3>1
  <2>. QED BY <1>3, <2>2, <2>3, FileActions
<1>4. ASSUME NEW j \in DOMAIN trigger, Dequeue(j)
      PROVE  path \in DOMAIN dir => /\ path \in DOMAIN dir' /\ dir'[path] = dir[path]
                                    /\ box'[dir'[path]] = box[dir[path]]
  <2>1. trigger[j].path \in Names
    BY <1>0 DEF TriggersOK, Trigger
  <2>. QED BY <1>0, <1>4, <2>1, FileActions, OpensStep
<1>5. CASE UNCHANGED <<dir, box>>
  BY <1>5
<1>. QED BY <1>1, <1>2, <1>3, <1>4, <1>5, FilesStay

LEMMA SendsKept ==
    ASSUME TypeOK, InOrder, NamesApart, SendsTheMailbox, Next, races' = {}
    PROVE  SendsTheMailbox'
<1> DEFINE path == trigger[runner.id].path
<1>0. FilesOK /\ TriggersOK /\ RunnerOK /\ SessionsOK /\ HandlesOK
  BY DEF TypeOK
<1>1. ASSUME NEW i \in DOMAIN trigger, Dequeue(i) PROVE SendsTheMailbox'
  <2>1. runner.pc = "idle" /\ i \in Nat
    BY <1>0, <1>1 DEF Dequeue, TriggersOK
  <2>2. CASE runner' = runner
    BY <2>1, <2>2 DEF SendsTheMailbox
  <2>3. ASSUME NEW f \in Nat, f = dir'[trigger[i].path], runner' = Reading(i, f),
               trigger' = trigger
        PROVE  SendsTheMailbox'
    <3>1. trigger[i].path \in Names
      BY <1>0 DEF TriggersOK, Trigger
    <3>2. trigger[i].path \in DOMAIN dir'
      BY <1>0, <1>1, <3>1, FileActions, OpensStep
    <3>3. runner'.pc = "reading" /\ runner'.id = i /\ runner'.inode = f
      BY <2>1, <2>3, ReadingFields
    <3>. QED BY <2>3, <3>2, <3>3 DEF SendsTheMailbox, SendsIt
  <2>. QED BY <1>1, <2>2, <2>3, DequeueView
<1>2. CASE FinishDigest \/ DigestCrash
  BY <1>2, AsleepFields DEF FinishDigest, DigestCrash, SendsTheMailbox
<1>3. CASE Build
  <2>1. /\ runner.pc = "reading" /\ UNCHANGED <<dir, box>> /\ box[runner.inode] \in Seq(Msgs)
        /\ olds \subseteq {Former}
    BY <1>0, <1>3 DEF Build, files, HandlesOK, FilesOK, TypeOK
  <2>2. CASE runner' = Asleep
    BY <2>2, AsleepFields DEF SendsTheMailbox
  <2>3. CASE runner' = Building(box[runner.inode]) /\ trigger' = trigger
    <3>1. runner'.pc = "sending" /\ runner'.id = runner.id /\ runner'.contents = box[runner.inode]
      BY <1>0, <2>1, <2>3, BuildingFields DEF RunnerOK
    <3>2. path \in DOMAIN dir /\ dir[path] = runner.inode
      BY <2>1 DEF SendsTheMailbox, SendsIt
    <3>. QED BY <2>1, <2>3, <3>1, <3>2 DEF SendsTheMailbox, SendsIt
  <2>. QED BY <1>3, <2>2, <2>3, BuildView
<1>4. CASE SendMime \/ SendPlain
  <2>1. UNCHANGED <<dir, box, trigger>> /\ runner.pc \in {"sending", "plain"}
    BY <1>4 DEF SendMime, SendPlain, files
  <2>2. PICK pc \in {"plain", "remove"} : runner' = At(pc)
    BY <1>4, SendView
  <2>3. runner'.pc = pc /\ runner'.id = runner.id /\ runner'.contents = runner.contents
    BY <1>0, <2>2, AtFields DEF RunnerOK
  <2>. QED BY <2>1, <2>3 DEF SendsTheMailbox, SendsIt
<1>5. CASE RemoveMailbox
  <2>1. runner' = At("finish") /\ trigger' = trigger
    BY <1>5, SendView
  <2>2. runner'.pc = "finish" /\ runner'.id = runner.id
    BY <1>0, <2>1, AtFields DEF RunnerOK
  <2>3. path \notin DOMAIN dir'
    BY <1>0, <1>5, FileActions, RemovesStep
  <2>. QED BY <2>1, <2>2, <2>3 DEF SendsTheMailbox, SendsIt
<1>6. CASE /\ runner' = runner /\ runner.pc # "idle"
           /\ ~RemoveMailbox /\ ~FinishDigest /\ \A i \in DOMAIN trigger : ~Dequeue(i)
  <2>1. runner.id \in DOMAIN trigger
    BY <1>0, <1>6 DEF RunnerOK
  <2>2. runner.id \in DOMAIN trigger' /\ trigger'[runner.id].path = path
    <3>1. CASE SamePaths
      BY <2>1, <3>1 DEF SamePaths
    <3>2. ASSUME NEW p \in Senders, EnqueueTrigger(p)
          PROVE  runner.id \in DOMAIN trigger' /\ trigger'[runner.id] = trigger[runner.id]
      <4>1. work[p].dest \in Names
        BY <1>0 DEF SessionsOK, Session
      <4>. QED BY <1>0, <2>1, <3>2, <4>1, EnqueuedStep DEF EnqueueTrigger
    <3>. QED BY <1>6, <3>1, <3>2, PathsStay
  <2>3. /\ path \in DOMAIN dir =>
              path \in DOMAIN dir' /\ dir'[path] = dir[path] /\ box'[dir'[path]] = box[dir[path]]
        /\ path \notin DOMAIN dir => path \notin DOMAIN dir'
    BY <1>6, <2>1, MailboxesStay
  <2>4. SendsIt(path)
    BY <1>6 DEF SendsTheMailbox
  <2>. QED BY <1>6, <2>2, <2>3, <2>4 DEF SendsTheMailbox, SendsIt
<1>7. CASE runner' = runner /\ runner.pc = "idle"
  BY <1>7 DEF SendsTheMailbox
<1>. QED BY <1>1, <1>2, <1>3, <1>4, <1>5, <1>6, <1>7, RunnerStays

--------------------------------------------------------------------------------
(***************************************************************************)
(* Where the postings are.                                                 *)
(***************************************************************************)
Leading == DOMAIN dir \cap Alive

LEMMA PlacesAre ==
    ASSUME NEW m
    PROVE  /\ \A n, i : <<n, i>> \in Places(m) <=>
                        n \in Leading /\ i \in Positions(box[dir[n]], m)
           /\ \A x \in Places(m) : x = <<x[1], x[2]>>
BY DEF Places, Leading

LEMMA PlacesAreNext ==
    ASSUME NEW m
    PROVE  /\ \A n, i : <<n, i>> \in Places(m)' <=>
                        n \in Leading' /\ i \in Positions(box'[dir'[n]], m)
           /\ \A x \in Places(m)' : x = <<x[1], x[2]>>
BY DEF Places, Leading

LEMMA SamePairs ==
    ASSUME NEW S, NEW T, \A x \in S : x = <<x[1], x[2]>>, \A x \in T : x = <<x[1], x[2]>>,
           \A n, i : <<n, i>> \in S <=> <<n, i>> \in T
    PROVE  S = T
OBVIOUS

(* Mailboxes that come and go are empty.                                   *)
LEMMA SamePlaces ==
    ASSUME \A n \in Leading : n \in Leading' /\ box'[dir'[n]] = box[dir[n]],
           \A n \in Leading' \ Leading : box'[dir'[n]] = <<>>,
           NEW m
    PROVE  Places(m)' = Places(m)
<1>1. Positions(<<>>, m) = {}
  BY DEF Positions
<1>2. \A n, i : <<n, i>> \in Places(m)' <=> <<n, i>> \in Places(m)
  BY <1>1, PlacesAre, PlacesAreNext
<1>. QED BY <1>2, PlacesAre, PlacesAreNext

(* A posting is appended to the current mailbox.                           *)
LEMMA OnePlaceMore ==
    ASSUME Leading' = Leading, Current \in Leading, NEW m, NEW k \in Msgs,
           \A n \in Leading \ {Current} : box'[dir'[n]] = box[dir[n]],
           box[dir[Current]] \in Seq(Msgs),
           box'[dir'[Current]] = Append(box[dir[Current]], k), IsFiniteSet(Places(m))
    PROVE  /\ IsFiniteSet(Places(m)')
           /\ Cardinality(Places(m)') = Cardinality(Places(m)) + (IF k = m THEN 1 ELSE 0)
<1> DEFINE s == box[dir[Current]]
           t == Append(s, k)
           new == <<Current, Len(s) + 1>>
<1>1. Positions(t, m) = IF k = m THEN Positions(s, m) \cup {Len(s) + 1} ELSE Positions(s, m)
  BY DEF Positions
<1>2. Len(s) + 1 \notin Positions(s, m)
  BY DEF Positions
<1>3. new \notin Places(m)
  BY <1>2, PlacesAre
<1>a. \A n \in Leading :
         Positions(box'[dir'[n]], m) =
           IF n = Current /\ k = m THEN Positions(box[dir[n]], m) \cup {Len(s) + 1}
           ELSE Positions(box[dir[n]], m)
  BY <1>1
<1> HIDE DEF s, t
<1>4. CASE k = m
  <2>1. \A n, i : <<n, i>> \in Places(m)' <=> <<n, i>> \in Places(m) \/ <<n, i>> = new
    <3>1. SUFFICES ASSUME NEW n, NEW i
                   PROVE  <<n, i>> \in Places(m)' <=> <<n, i>> \in Places(m) \/ <<n, i>> = new
      OBVIOUS
    <3>2. <<n, i>> \in Places(m)' <=> n \in Leading /\ i \in Positions(box'[dir'[n]], m)
      BY PlacesAreNext
    <3>3. <<n, i>> \in Places(m) <=> n \in Leading /\ i \in Positions(box[dir[n]], m)
      BY PlacesAre
    <3>4. CASE n = Current
      BY <1>a, <1>4, <3>2, <3>3, <3>4
    <3>5. CASE n # Current
      <4>1. <<n, i>> # new
        BY <3>5
      <4>2. n \in Leading => Positions(box'[dir'[n]], m) = Positions(box[dir[n]], m)
        BY <1>a, <3>5
      <4>. QED BY <3>2, <3>3, <4>1, <4>2
    <3>. QED BY <3>4, <3>5
  <2>2. Places(m)' = Places(m) \cup {new}
    <3>1. \A x \in Places(m) \cup {new} : x = <<x[1], x[2]>>
      <4>1. new = <<new[1], new[2]>>
        OBVIOUS
      <4>2. \A x \in Places(m) : x = <<x[1], x[2]>>
        BY PlacesAre
      <4> HIDE DEF new
      <4>. QED BY <4>1, <4>2
    <3>2. \A x \in Places(m)' : x = <<x[1], x[2]>>
      BY PlacesAreNext
    <3>3. \A n, i : <<n, i>> \in Places(m)' <=> <<n, i>> \in Places(m) \cup {new}
      BY <2>1
    <3>. QED BY <3>1, <3>2, <3>3, SamePairs
  <2>. QED BY <1>3, <1>4, <2>2, FS_AddElement
<1>5. CASE k # m
  <2>1. \A n, i : <<n, i>> \in Places(m)' <=> <<n, i>> \in Places(m)
    BY <1>a, <1>5, PlacesAre, PlacesAreNext
  <2>2. Places(m)' = Places(m)
    <3>1. \A x \in Places(m) : x = <<x[1], x[2]>>
      BY PlacesAre
    <3>2. \A x \in Places(m)' : x = <<x[1], x[2]>>
      BY PlacesAreNext
    <3>. QED BY <2>1, <3>1, <3>2, SamePairs
  <2>3. Cardinality(Places(m)) \in Nat
    BY FS_CardinalityType
  <2>. QED BY <1>5, <2>2, <2>3
<1>. QED BY <1>4, <1>5

LEMMA SameSize ==
    ASSUME NEW S, NEW T, IsFiniteSet(S), NEW f \in [S -> T],
           \A x, y \in S : f[x] = f[y] => x = y, \A y \in T : \E x \in S : f[x] = y
    PROVE  IsFiniteSet(T) /\ Cardinality(T) = Cardinality(S)
<1>1. f \in Bijection(S, T)
  BY DEF Bijection, Injection, Surjection, IsInjective
<1>. QED BY <1>1, FS_Bijection DEF ExistsBijection

(* The current mailbox gets another name.                                  *)
LEMMA MovedPlaces ==
    ASSUME NEW dest, dest # Current, Current \in Leading, dest \notin Leading,
           Leading' = (Leading \ {Current}) \cup {dest},
           \A n \in Leading \ {Current} : box'[dir'[n]] = box[dir[n]],
           box'[dir'[dest]] = box[dir[Current]],
           NEW m, IsFiniteSet(Places(m))
    PROVE  IsFiniteSet(Places(m)') /\ Cardinality(Places(m)') = Cardinality(Places(m))
<1> DEFINE S == Places(m)
           T == Places(m)'
           To(n) == IF n = Current THEN dest ELSE n
           f == [x \in S |-> <<To(x[1]), x[2]>>]
<1>1. \A n, i : <<n, i>> \in S => <<To(n), i>> \in T
  BY PlacesAre, PlacesAreNext
<1>2. \A n, i : <<n, i>> \in T => \E o : To(o) = n /\ <<o, i>> \in S
  <2>1. SUFFICES ASSUME NEW n, NEW i, <<n, i>> \in T PROVE \E o : To(o) = n /\ <<o, i>> \in S
    OBVIOUS
  <2>2. n \in Leading' /\ i \in Positions(box'[dir'[n]], m)
    BY <2>1, PlacesAreNext
  <2>3. CASE n = dest
    <3>1. <<Current, i>> \in S /\ To(Current) = n
      BY <2>2, <2>3, PlacesAre
    <3>. QED BY <3>1
  <2>4. CASE n # dest
    <3>1. <<n, i>> \in S /\ To(n) = n
      BY <2>2, <2>4, PlacesAre
    <3>. QED BY <3>1
  <2>. QED BY <2>3, <2>4
<1>3. \A x \in S : x = <<x[1], x[2]>> /\ x[1] # dest
  <2>1. \A x \in S : x = <<x[1], x[2]>>
    BY PlacesAre
  <2>2. \A n, i : <<n, i>> \in S => n \in Leading
    BY PlacesAre
  <2>. QED BY <2>1, <2>2
<1>4. \A y \in T : y = <<y[1], y[2]>>
  BY PlacesAreNext
<1> HIDE DEF S, T
<1>5. f \in [S -> T]
  BY <1>1, <1>3
<1>6. \A x, y \in S : f[x] = f[y] => x = y
  BY <1>3
<1>7. \A y \in T : \E x \in S : f[x] = y
  <2>1. SUFFICES ASSUME NEW y \in T PROVE \E x \in S : f[x] = y
    OBVIOUS
  <2>2. PICK o : To(o) = y[1] /\ <<o, y[2]>> \in S
    BY <1>2, <1>4
  <2>3. f[<<o, y[2]>>] = <<To(o), y[2]>>
    BY <2>2
  <2>. QED BY <1>4, <2>2, <2>3
<1> HIDE DEF f
<1>8. IsFiniteSet(S)
  BY DEF S
<1>9. IsFiniteSet(T) /\ Cardinality(T) = Cardinality(S)
  BY <1>5, <1>6, <1>7, <1>8, SameSize
<1>. QED BY <1>9 DEF S, T

(* A mailbox is removed.                                                   *)
LEMMA FewerPlaces ==
    ASSUME NEW path \in Leading, Leading' = Leading \ {path},
           \A n \in Leading' : box'[dir'[n]] = box[dir[n]],
           box[dir[path]] \in Seq(Msgs), NEW m, IsFiniteSet(Places(m))
    PROVE  /\ IsFiniteSet(Places(m)')
           /\ Cardinality(Places(m)) = Cardinality(Places(m)') + Count(box[dir[path]], m)
<1> DEFINE s == box[dir[path]]
           P == Positions(s, m)
           Q == {path} \X P
           f == [i \in P |-> <<path, i>>]
<1>1. IsFiniteSet(P) /\ Cardinality(P) = Count(s, m)
  BY CountOfSeq DEF Count
<1>2. IsFiniteSet(Q) /\ Cardinality(Q) = Cardinality(P)
  <2>1. f \in [P -> Q] /\ \A i, j \in P : f[i] = f[j] => i = j
    OBVIOUS
  <2>2. \A y \in Q : \E i \in P : f[i] = y
    OBVIOUS
  <2> HIDE DEF f, P, Q
  <2>3. IsFiniteSet(P)
    BY <1>1 DEF P
  <2>4. IsFiniteSet(Q) /\ Cardinality(Q) = Cardinality(P)
    BY <2>1, <2>2, <2>3, SameSize
  <2>. QED BY <2>4 DEF P, Q
<1>3. \A n, i : <<n, i>> \in Places(m) <=> <<n, i>> \in Places(m)' \/ <<n, i>> \in Q
  BY PlacesAre, PlacesAreNext
<1>4. Places(m) = Places(m)' \cup Q
  BY <1>3, PlacesAre, PlacesAreNext
<1>5. \A n, i : <<n, i>> \in Places(m)' => <<n, i>> \notin Q
  BY PlacesAreNext
<1>6. Places(m)' \cap Q = {}
  BY <1>5, PlacesAreNext
<1> HIDE DEF Q, P
<1>7. IsFiniteSet(Places(m)')
  BY <1>4, FS_Subset
<1>8. Cardinality(Places(m)) = Cardinality(Places(m)') + Cardinality(Q) - Cardinality({})
  BY <1>2, <1>4, <1>6, <1>7, FS_Union
<1>9. Cardinality({}) = 0 /\ Cardinality(Places(m)') \in Nat /\ Cardinality(Q) \in Nat
  BY <1>2, <1>7, FS_EmptySet, FS_CardinalityType
<1>. QED BY <1>1, <1>2, <1>7, <1>8, <1>9

--------------------------------------------------------------------------------
(***************************************************************************)
(* Each posting is in one mailbox or in one digest.                        *)
(***************************************************************************)
(* Who is about to queue a trigger is still about to.                      *)
EnqueueStays ==
    \A p \in Senders :
       /\ work[p].pc = "enqueue" => work'[p].pc = "enqueue" /\ work'[p].dest = work[p].dest
       /\ work'[p].pc = "enqueue" => work[p].pc = "enqueue"

LEMMA AliveStays ==
    ASSUME SamePaths, EnqueueStays
    PROVE  Alive' = Alive
<1>1. {trigger'[i].path : i \in DOMAIN trigger'} = {trigger[i].path : i \in DOMAIN trigger}
  BY DEF SamePaths
<1>2. {work'[p].dest : p \in {q \in Senders : work'[q].pc = "enqueue"}}
        = {work[p].dest : p \in {q \in Senders : work[q].pc = "enqueue"}}
  BY DEF EnqueueStays
<1>. QED BY <1>1, <1>2 DEF Alive

LEMMA EnqueueStaysIf ==
    ASSUME SessionsOK, NEW p \in Senders, NEW v, Becomes(p, v),
           work[p].pc # "enqueue", v.pc # "enqueue"
    PROVE  EnqueueStays
BY DEF SessionsOK, Becomes, EnqueueStays

LEMMA WhoEnqueues ==
    ASSUME TypeOK, Next, races' = {}
    PROVE  \/ EnqueueStays
           \/ \E p \in Senders : EnqueueTrigger(p)
           \/ \E p \in Senders : /\ work[p].pc = "rename" /\ Becomes(p, Moving(work[p]))
                                 /\ Renames(work[p].dest)
<1>0. SessionsOK /\ list \in Row /\ today \in Nat
  BY DEF TypeOK
<1>a. \A p \in Senders : work[p] \in Session /\ SessionOK(p, work[p])
  BY <1>0 DEF SessionsOK
<1>f. ASSUME NEW p \in Senders, Becomes(p, Idle), ~work[p].moved PROVE EnqueueStays
  <2>1. work[p].pc # "enqueue"
    BY <1>a, <1>f DEF SessionOK
  <2>. QED BY <1>0, <1>f, <2>1, IdleOK, EnqueueStaysIf
<1>1. ASSUME NEW m \in Msgs, Take(m) PROVE EnqueueStays
  <2>1. work["pipeline"].pc = "idle"
    BY <1>1 DEF Take
  <2>. QED BY <1>0, <1>1, <2>1, TakeView, TakingOK, SendersAre, EnqueueStaysIf
<1>2. CASE OpenMailbox
  <2>1. work["pipeline"].pc = "handlers"
    BY <1>2 DEF OpenMailbox
  <2>2. PICK i \in Nat : Becomes("pipeline", Opening(work["pipeline"], i))
    BY <1>2, OpenView
  <2>3. Opening(work["pipeline"], i).pc = "open"
    BY <1>a, <2>1, OpeningOK, SendersAre
  <2>. QED BY <1>0, <2>1, <2>2, <2>3, SendersAre, EnqueueStaysIf
<1>3. CASE AddMessage
  <2>1. work["pipeline"].pc = "open"
    BY <1>3 DEF AddMessage
  <2>2. Appending(work["pipeline"]).pc = "check"
    BY <1>a, <2>1, AppendingOK, SendersAre
  <2>. QED BY <1>0, <1>f, <1>3, <2>1, <2>2, AddView, FailsView, SendersAre, EnqueueStaysIf
<1>4. CASE LaterHandlers
  <2>1. work["pipeline"].pc = "later"
    BY <1>4 DEF LaterHandlers
  <2>2. Going(work["pipeline"], "commit").pc = "commit"
    BY <1>a, <2>1, GoingOK, SendersAre
  <2>. QED BY <1>0, <1>f, <1>4, <2>1, <2>2, LaterView, FailsView, SendersAre, EnqueueStaysIf
<1>5. ASSUME NEW p \in Senders, CheckSize(p) PROVE EnqueueStays
  <2>1. work[p].pc = "check"
    BY <1>5 DEF CheckSize
  <2>2. Naming(work[p]).pc = "rename" /\ Going(work[p], AfterSending(p)).pc # "enqueue"
    BY <1>0, <1>a, <2>1, NamingOK, GoingOK, SendersAre
  <2>. QED BY <1>0, <1>5, <2>1, <2>2, CheckView, EnqueueStaysIf
<1>6. ASSUME NEW p \in Senders, RenameMailbox(p)
      PROVE  \/ EnqueueStays
             \/ /\ work[p].pc = "rename" /\ Becomes(p, Moving(work[p]))
                /\ Renames(work[p].dest)
  <2>1. work[p].pc = "rename"
    BY <1>6 DEF RenameMailbox
  <2>. QED BY <1>f, <1>6, <2>1, RenameView, FailsView DEF Renames
<1>7. ASSUME NEW p \in Senders, Crash(p) PROVE EnqueueStays
  BY <1>f, <1>7, CrashView
<1>8. ASSUME NEW p \in Senders, Commit(p) PROVE EnqueueStays
  <2>1. work[p].pc = "commit"
    BY <1>8 DEF Commit
  <2>. QED BY <1>0, <1>8, <2>1, CommitView, IdleOK, EnqueueStaysIf
<1>9. ASSUME NEW bump \in BOOLEAN, NEW send \in BOOLEAN, Administer(bump, send)
      PROVE  EnqueueStays
  <2>1. work["admin"].pc = "idle"
    BY <1>9 DEF Administer
  <2>2. Asking(bump, send).pc # "enqueue"
    <3>1. Asking(bump, send) \in Session /\ SessionOK("admin", Asking(bump, send))
          /\ ~Named(Asking(bump, send))
      BY <1>0, AskingOK
    <3>. QED BY <3>1 DEF SessionOK
  <2>3. Becomes("admin", Asking(bump, send))
    BY <1>9, AdministerView
  <2>. QED BY <1>0, <2>1, <2>2, <2>3, SendersAre, EnqueueStaysIf
<1>10. CASE OtherSteps
  BY <1>10, OthersLeaveSessions DEF EnqueueStays
<1>. QED BY <1>1, <1>2, <1>3, <1>4, <1>5, <1>6, <1>7, <1>8, <1>9, <1>10, NextIs

(* The action leaves all postings where they are.                          *)
LEMMA BalancedStays ==
    ASSUME Balanced, UNCHANGED <<added, issued>>, \A m \in Msgs : Places(m)' = Places(m)
    PROVE  Balanced'
BY DEF Balanced

LEMMA RenameBalanced ==
    ASSUME TypeOK, InOrder, NamesApart, Balanced, NEW p \in Senders, work[p].pc = "rename",
           Becomes(p, Moving(work[p])), Renames(work[p].dest), trigger' = trigger,
           UNCHANGED <<added, issued>>
    PROVE  Balanced'
<1> DEFINE dest == work[p].dest
<1>0. FilesOK /\ SessionsOK
  BY DEF TypeOK
<1>1. /\ dest \in Names /\ dest # Current
      /\ \A i \in DOMAIN trigger : trigger[i].path # dest
      /\ \A q \in Senders : work[q].pc # "enqueue"
  BY NewName
<1>2. /\ DOMAIN dir' = (DOMAIN dir \ {Current}) \cup {dest}
      /\ Current \in DOMAIN dir
      /\ box'[dir'[dest]] = box[dir[Current]]
      /\ \A n \in DOMAIN dir \ {Current, dest} : dir'[n] = dir[n] /\ box'[dir'[n]] = box[dir[n]]
  BY <1>0, <1>1, RenamesStep
<1>3. Moving(work[p]).pc = "enqueue" /\ Moving(work[p]).dest = dest
  BY <1>0, MovingOK DEF SessionsOK
<1>4. /\ work'[p].pc = "enqueue" /\ work'[p].dest = dest
      /\ \A q \in Senders \ {p} : work'[q].pc # "enqueue"
  BY <1>0, <1>1, <1>3 DEF SessionsOK, Becomes
<1> HIDE DEF dest
<1>5. Alive' = Alive \cup {dest} /\ dest \notin Alive /\ Current \in Alive
  BY <1>1, <1>4 DEF Alive
<1>6. /\ Leading' = (Leading \ {Current}) \cup {dest}
      /\ Current \in Leading /\ dest \notin Leading
  BY <1>1, <1>2, <1>5 DEF Leading
<1>7. \A n \in Leading \ {Current} : box'[dir'[n]] = box[dir[n]]
  BY <1>2, <1>6 DEF Leading
<1>8. ASSUME NEW m \in Msgs
      PROVE  IsFiniteSet(Places(m)') /\ Cardinality(Places(m)') = Cardinality(Places(m))
  <2>1. IsFiniteSet(Places(m))
    BY DEF Balanced
  <2>. QED BY <1>1, <1>2, <1>6, <1>7, <2>1, MovedPlaces
<1>. QED BY <1>8 DEF Balanced

LEMMA EnqueueBalanced ==
    ASSUME TypeOK, Balanced, NEW p \in Senders, EnqueueTrigger(p)
    PROVE  Balanced'
<1> DEFINE path == work[p].dest
<1>0. TriggersOK /\ SessionsOK /\ UNCHANGED <<dir, box, added, issued>> /\ work[p].pc = "enqueue"
  BY DEF TypeOK, EnqueueTrigger, files
<1>1. path \in Names
  BY <1>0 DEF SessionsOK, Session
<1>2. PICK n \in Nat \ DOMAIN trigger :
         /\ DOMAIN trigger' = DOMAIN trigger \cup {n} /\ trigger'[n].path = path
         /\ \A i \in DOMAIN trigger : trigger'[i] = trigger[i]
  BY <1>0, <1>1, EnqueuedStep DEF EnqueueTrigger
<1>3. Going(work[p], AfterSending(p)).pc # "enqueue"
  BY <1>0, GoingOK, SendersAre DEF SessionsOK
<1>4. work'[p].pc # "enqueue" /\ \A q \in Senders \ {p} : work'[q] = work[q]
  BY <1>0, <1>3, EnqueueView DEF SessionsOK, Becomes
<1>5. {trigger'[i].path : i \in DOMAIN trigger'}
        = {trigger[i].path : i \in DOMAIN trigger} \cup {path}
  BY <1>2
<1>6. {work[r].dest : r \in {q \in Senders : work[q].pc = "enqueue"}}
        = {work'[r].dest : r \in {q \in Senders : work'[q].pc = "enqueue"}} \cup {path}
  BY <1>0, <1>4
<1>7. Alive' = Alive
  BY <1>5, <1>6 DEF Alive
<1>8. \A m \in Msgs : Places(m)' = Places(m)
  BY <1>0, <1>7 DEF Places
<1>. QED BY <1>0, <1>8, BalancedStays

LEMMA AddBalanced ==
    ASSUME TypeOK, Balanced, AddMessage, EnqueueStays, races' = {}
    PROVE  Balanced'
<1> DEFINE k == work["pipeline"].msg
<1>0. FilesOK /\ trigger' = trigger /\ issued' = issued /\ added \in [Msgs -> Nat]
      /\ issued \in [Msgs -> Nat]
  BY DEF TypeOK, AddMessage, digester
<1>1. Alive' = Alive
  BY <1>0, AliveStays DEF SamePaths
<1>2. CASE UNCHANGED <<dir, box, added>>
  <2>1. \A m \in Msgs : Places(m)' = Places(m)
    BY <1>1, <1>2 DEF Places
  <2>. QED BY <1>0, <1>2, <2>1, BalancedStays
<1>3. CASE /\ k \in Msgs /\ dir' = dir /\ Current \in DOMAIN dir
           /\ \A n \in DOMAIN dir \ {Current} : box'[dir[n]] = box[dir[n]]
           /\ box'[dir[Current]] = Append(box[dir[Current]], k)
           /\ added' = [added EXCEPT ![k] = @ + 1]
  <2>1. Leading' = Leading /\ Current \in Leading
    BY <1>1, <1>3 DEF Leading, Alive
  <2>2. box[dir[Current]] \in Seq(Msgs)
    BY <1>0, <1>3 DEF FilesOK
  <2>3. \A n \in Leading \ {Current} : box'[dir'[n]] = box[dir[n]]
    BY <1>3 DEF Leading
  <2>4. box'[dir'[Current]] = Append(box[dir[Current]], k)
    BY <1>3
  <2>5. ASSUME NEW m \in Msgs
        PROVE  IsFiniteSet(Places(m)') /\ added'[m] = Cardinality(Places(m)') + issued[m]
    <3>1. /\ IsFiniteSet(Places(m)) /\ added[m] = Cardinality(Places(m)) + issued[m]
          /\ Cardinality(Places(m)) \in Nat /\ issued[m] \in Nat
      BY <1>0, FS_CardinalityType DEF Balanced
    <3>2. /\ IsFiniteSet(Places(m)')
          /\ Cardinality(Places(m)') = Cardinality(Places(m)) + (IF k = m THEN 1 ELSE 0)
      BY <1>3, <2>1, <2>2, <2>3, <2>4, <3>1, OnePlaceMore
    <3>3. added'[m] = added[m] + (IF k = m THEN 1 ELSE 0)
      BY <1>0, <1>3
    <3>. QED BY <3>1, <3>2, <3>3
  <2>. QED BY <1>0, <2>5 DEF Balanced
<1>. QED BY <1>2, <1>3, AppendKeepsTheRest

LEMMA RemoveBalanced ==
    ASSUME TypeOK, NamesApart, SendsTheMailbox, Balanced, RemoveMailbox
    PROVE  Balanced'
<1> DEFINE path == trigger[runner.id].path
           s == runner.contents
<1>0. /\ FilesOK /\ RunnerOK /\ UNCHANGED <<work, trigger, added>>
      /\ runner.pc = "remove" /\ issued \in [Msgs -> Nat]
      /\ issued' = [m \in Msgs |-> issued[m] + Count(s, m)]
  BY DEF TypeOK, RemoveMailbox
<1>1. Alive' = Alive
  BY <1>0 DEF Alive
<1>2. path \in DOMAIN dir /\ box[dir[path]] = s /\ path \in Alive
  BY <1>0 DEF SendsTheMailbox, SendsIt, RunnerOK, Alive
<1>3. /\ DOMAIN dir' = DOMAIN dir \ {path}
      /\ \A n \in DOMAIN dir \ {path} : dir'[n] = dir[n] /\ box'[dir'[n]] = box[dir[n]]
  BY <1>0, FileActions, RemovesStep
<1>4. s \in Seq(Msgs)
  BY <1>0 DEF RunnerOK, RunnerState
<1> HIDE DEF path, s
<1>5. path \in Leading /\ Leading' = Leading \ {path}
  BY <1>1, <1>2, <1>3 DEF Leading
<1>6. \A n \in Leading' : box'[dir'[n]] = box[dir[n]]
  BY <1>3, <1>5 DEF Leading
<1>7. ASSUME NEW m \in Msgs
      PROVE  IsFiniteSet(Places(m)') /\ added[m] = Cardinality(Places(m)') + issued'[m]
  <2>1. /\ IsFiniteSet(Places(m)) /\ added[m] = Cardinality(Places(m)) + issued[m]
    BY DEF Balanced
  <2>2. /\ IsFiniteSet(Places(m)')
        /\ Cardinality(Places(m)) = Cardinality(Places(m)') + Count(s, m)
    BY <1>2, <1>4, <1>5, <1>6, <2>1, FewerPlaces
  <2>3. Count(s, m) \in Nat /\ issued[m] \in Nat /\ Cardinality(Places(m)') \in Nat
    BY <1>0, <1>4, <2>2, CountOfSeq, FS_CardinalityType
  <2>. QED BY <1>0, <2>1, <2>2, <2>3
<1>. QED BY <1>0, <1>7 DEF Balanced

LEMMA BalancedKept ==
    ASSUME TypeOK, InOrder, NamesApart, SendsTheMailbox, Balanced, Next, races' = {}
    PROVE  Balanced'
<1>0. FilesOK /\ TriggersOK /\ RunnerOK /\ SessionsOK
  BY DEF TypeOK
<1>1. ASSUME NEW p \in Senders, EnqueueTrigger(p) PROVE Balanced'
  BY <1>1, EnqueueBalanced
<1>2. ASSUME NEW p \in Senders, work[p].pc = "rename", Becomes(p, Moving(work[p])),
             Renames(work[p].dest)
      PROVE  Balanced'
  <2>1. work' # work
    <3>1. Moving(work[p]).pc = "enqueue"
      BY <1>0, <1>2, MovingOK DEF SessionsOK
    <3>. QED BY <1>0, <1>2, <3>1 DEF SessionsOK, Becomes
  <2>2. ~OtherSteps
    BY <2>1, OthersLeaveSessions
  <2>3. ~AddMessage
    <3>1. Appending(work["pipeline"]).pc # "enqueue" \/ ~AddMessage
      BY <1>0, AppendingOK, SendersAre DEF SessionsOK, AddMessage
    <3>2. AddMessage => \/ Becomes("pipeline", Idle)
                        \/ Becomes("pipeline", Appending(work["pipeline"]))
      BY AddView, FailsView, SendersAre
    <3>3. Moving(work[p]).pc = "enqueue"
      BY <1>0, <1>2, MovingOK DEF SessionsOK
    <3>4. work'[p].pc = "enqueue"
      BY <1>0, <1>2, <3>3 DEF SessionsOK, Becomes
    <3>5. AddMessage => work["pipeline"].pc = "open"
      BY DEF AddMessage
    <3>. QED BY <1>0, <1>2, <3>1, <3>2, <3>4, <3>5, IdleOK, SendersAre DEF SessionsOK, Becomes
  <2>4. UNCHANGED <<added, issued>>
    BY <2>2, <2>3, CountsStay DEF OtherSteps
  <2>5. trigger' = trigger \/ \E q \in Senders : EnqueueTrigger(q)
    BY <2>2, TriggersStay DEF OtherSteps
  <2>. QED BY <1>1, <1>2, <2>4, <2>5, RenameBalanced
<1>3. CASE AddMessage /\ EnqueueStays
  BY <1>3, AddBalanced
<1>4. CASE RemoveMailbox
  BY <1>4, RemoveBalanced
<1>5. CASE OpenMailbox /\ EnqueueStays
  <2>1. trigger' = trigger /\ UNCHANGED <<added, issued>> /\ Current \in Names
    BY <1>5 DEF OpenMailbox, digester, Current, Names
  <2>2. Alive' = Alive
    BY <1>5, <2>1, AliveStays DEF SamePaths
  <2>3. /\ DOMAIN dir' = DOMAIN dir \cup {Current}
        /\ \A n \in DOMAIN dir : dir'[n] = dir[n] /\ box'[dir'[n]] = box[dir[n]]
        /\ Current \notin DOMAIN dir => box'[dir'[Current]] = <<>>
    BY <1>0, <1>5, <2>1, FileActions, OpensStep
  <2>4. /\ \A n \in Leading : n \in Leading' /\ box'[dir'[n]] = box[dir[n]]
        /\ \A n \in Leading' \ Leading : box'[dir'[n]] = <<>>
    BY <2>2, <2>3 DEF Leading
  <2>. QED BY <2>1, <2>4, SamePlaces, BalancedStays
<1>6. ASSUME NEW i \in DOMAIN trigger, Dequeue(i) PROVE Balanced'
  <2> DEFINE path == trigger[i].path
  <2>1. UNCHANGED <<added, issued, work>> /\ path \in Names
    BY <1>0, <1>6 DEF Dequeue, TriggersOK, Trigger
  <2>2. SamePaths
    BY <1>0, <1>6, DequeueView, RequeuedStep DEF SamePaths
  <2>3. Alive' = Alive
    BY <2>1, <2>2, AliveStays DEF EnqueueStays
  <2>4. /\ DOMAIN dir' = DOMAIN dir \cup {path}
        /\ \A n \in DOMAIN dir : dir'[n] = dir[n] /\ box'[dir'[n]] = box[dir[n]]
        /\ path \notin DOMAIN dir => box'[dir'[path]] = <<>>
    BY <1>0, <1>6, <2>1, FileActions, OpensStep
  <2> HIDE DEF path
  <2>5. /\ \A n \in Leading : n \in Leading' /\ box'[dir'[n]] = box[dir[n]]
        /\ \A n \in Leading' \ Leading : box'[dir'[n]] = <<>>
    BY <2>3, <2>4 DEF Leading
  <2>. QED BY <2>1, <2>5, SamePlaces, BalancedStays
<1>7. CASE FinishDigest
  <2> DEFINE path == trigger[runner.id].path
  <2>1. UNCHANGED <<added, issued, work, dir, box>> /\ runner.pc = "finish"
    BY <1>7 DEF FinishDigest, files
  <2>2. path \notin DOMAIN dir
    BY <2>1 DEF SendsTheMailbox, SendsIt
  <2>3. /\ DOMAIN trigger' = DOMAIN trigger \ {runner.id}
        /\ \A j \in DOMAIN trigger' : trigger'[j] = trigger[j]
    BY <1>0, <1>7, WithoutStep DEF FinishDigest
  <2>4. {trigger[j].path : j \in DOMAIN trigger} \subseteq
          {trigger'[j].path : j \in DOMAIN trigger'} \cup {path}
    BY <2>3
  <2>5. {trigger'[j].path : j \in DOMAIN trigger'} \subseteq
          {trigger[j].path : j \in DOMAIN trigger}
    BY <2>3
  <2> HIDE DEF path
  <2>6. Alive \subseteq Alive' \cup {path} /\ Alive' \subseteq Alive
    BY <2>1, <2>4, <2>5 DEF Alive
  <2>7. Leading' = Leading
    BY <2>1, <2>2, <2>6 DEF Leading
  <2>8. \A m \in Msgs : Places(m)' = Places(m)
    BY <2>1, <2>7 DEF Places, Leading
  <2>. QED BY <2>1, <2>8, BalancedStays
<1>8. CASE /\ UNCHANGED <<dir, box>> /\ ~AddMessage /\ ~RemoveMailbox
           /\ EnqueueStays /\ SamePaths
  <2>1. UNCHANGED <<added, issued>>
    BY <1>8, CountsStay
  <2>2. Alive' = Alive
    BY <1>8, AliveStays
  <2>3. \A m \in Msgs : Places(m)' = Places(m)
    BY <1>8, <2>2 DEF Places
  <2>. QED BY <2>1, <2>3, BalancedStays
<1>9. ASSUME NEW p \in Senders, RenameMailbox(p), EnqueueStays
      PROVE  UNCHANGED <<dir, box>>
  <2>1. work[p].pc = "rename"
    BY <1>9 DEF RenameMailbox
  <2>2. ~Becomes(p, Moving(work[p]))
    <3>1. Moving(work[p]).pc = "enqueue"
      BY <1>0, <2>1, MovingOK DEF SessionsOK
    <3>. QED BY <1>0, <1>9, <2>1, <3>1 DEF SessionsOK, Becomes, EnqueueStays
  <2>. QED BY <1>9, <2>2, RenameView
<1>. QED BY <1>1, <1>2, <1>3, <1>4, <1>5, <1>6, <1>7, <1>8, <1>9, WhoEnqueues, PathsStay,
            FilesStay

--------------------------------------------------------------------------------
(***************************************************************************)
(* Theorems.                                                               *)
(***************************************************************************)
LEMMA Beginning ==
    ASSUME Init
    PROVE  IInv
<1>1. /\ list = [volume |-> 1, number |-> 1, last |-> settings.last] /\ today = 1
      /\ settings \in Scenarios /\ olds = settings.olds /\ dir = <<>> /\ box = <<>>
      /\ posts = [m \in Msgs |-> "queued"] /\ work = [p \in Senders |-> Idle]
      /\ trigger = <<>> /\ runner = Asleep /\ added = [m \in Msgs |-> 0]
      /\ issued = [m \in Msgs |-> 0] /\ latest = Current /\ fell = FALSE
  BY DEF Init
<1>2. list \in Row /\ olds \subseteq {Former}
  <2>1. settings.last \in Nat /\ settings.olds \subseteq {Former}
    <3>1. settings.last \in 0 .. 1 /\ settings.olds \subseteq {Former}
      BY <1>1, DigestsAssumption, Zenon
    <3>. QED BY <3>1
  <2>. QED BY <1>1, <2>1 DEF Row
<1>3. SessionsOK /\ \A p \in Senders : work[p] = Idle
  BY <1>1, IdleOK DEF SessionsOK
<1>4. DOMAIN dir = {} /\ DOMAIN box = {} /\ DOMAIN trigger = {}
  BY <1>1
<1>5. TriggersOK /\ FilesOK
  BY <1>1, <1>4, FS_EmptySet DEF TriggersOK, FilesOK
<1>6. RunnerOK /\ HandlesOK
  BY <1>1, <1>3, AsleepFields, IdleOK, SendersAre DEF RunnerOK, HandlesOK
<1>7. latest \in Names
  BY <1>1 DEF Current, Names
<1>8. TypeOK
  BY <1>1, <1>2, <1>3, <1>5, <1>6, <1>7 DEF TypeOK
<1>9. InOrder
  <2>1. \A p \in Senders : ~Named(work[p]) /\ ~Queued(work[p])
    BY <1>3, IdleOK DEF Queued
  <2>2. Before(latest, Name(list))
    BY <1>1, <1>2, NameOfRow
  <2>3. ~fell
    BY <1>1
  <2>4. \A p \in Senders : Named(work[p]) => NamesDigest(work[p])
    BY <2>1, Zenon
  <2>5. \A p, q \in Senders : Named(work[p]) /\ Named(work[q]) => p = q
    BY <2>1, Zenon
  <2>6. \A p \in Senders : Queued(work[p]) => latest = work[p].dest
    BY <2>1, Zenon
  <2>. QED BY <2>2, <2>3, <2>4, <2>5, <2>6, Zenon DEF InOrder
<1>10. NamesApart /\ SendsTheMailbox
  BY <1>1, <1>4, AsleepFields DEF NamesApart, SendsTheMailbox
<1>11. \A m \in Msgs : Places(m) = {}
  BY <1>4 DEF Places
<1>12. Balanced
  <2>1. \A m \in Msgs : added[m] = 0 /\ issued[m] = 0
    BY <1>1
  <2>2. IsFiniteSet({}) /\ Cardinality({}) = 0
    BY FS_EmptySet
  <2>3. ASSUME NEW m \in Msgs
        PROVE  IsFiniteSet(Places(m)) /\ added[m] = Cardinality(Places(m)) + issued[m]
    <3>1. Places(m) = {} /\ added[m] = 0 /\ issued[m] = 0
      BY <1>11, <2>1
    <3>. QED BY <2>2, <3>1
  <2>. QED BY <2>3 DEF Balanced
<1>. QED BY <1>8, <1>9, <1>10, <1>12 DEF IInv

(* What went wrong is not forgotten.                                       *)
LEMMA RacesStay ==
    ASSUME Next, races' = {}
    PROVE  races = {}
<1>1. ASSUME NEW m \in Msgs, Take(m) PROVE races' = races
  BY <1>1 DEF Take
<1>2. CASE OpenMailbox
  BY <1>2 DEF OpenMailbox
<1>3. ASSUME NEW p \in Senders, EnqueueTrigger(p) PROVE races' = races
  BY <1>3 DEF EnqueueTrigger
<1>4. ASSUME NEW bump \in BOOLEAN, NEW send \in BOOLEAN, Administer(bump, send)
      PROVE  races' = races
  BY <1>4 DEF Administer
<1>5. OtherSteps => races' = races
  BY OthersLeaveSessions
<1>. QED BY <1>1, <1>2, <1>3, <1>4, <1>5, NextIs, AddView, LaterView, FailsView, CheckView,
            RenameView, CommitView, CrashView, SendersAre

LEMMA Inductive == IInv /\ [Next]_vars => IInv'
<1>1. ASSUME IInv, Next PROVE IInv'
  <2>1. TypeOK /\ TypeOK'
    BY <1>1, TypeKept DEF IInv
  <2>2. ASSUME races' = {} PROVE (InOrder /\ NamesApart /\ SendsTheMailbox /\ Balanced)'
    <3>1. InOrder /\ NamesApart /\ SendsTheMailbox /\ Balanced
      BY <1>1, <2>2, RacesStay DEF IInv
    <3>. QED BY <1>1, <2>1, <2>2, <3>1, InOrderKept, NamesApartKept, SendsKept, BalancedKept
  <2>. QED BY <2>1, <2>2 DEF IInv
<1>2. ASSUME IInv, UNCHANGED vars PROVE IInv'
  <2>1. UNCHANGED <<today, list, olds, dir, box, posts, work, trigger, runner, added, issued,
                    latest, fell, races>>
    BY <1>2 DEF vars, database, files, digester, numbering
  <2>2. TypeOK'
    BY <1>2, <2>1 DEF IInv, TypeOK, SessionsOK, TriggersOK, RunnerOK, FilesOK, HandlesOK
  <2>3. (InOrder => InOrder') /\ (NamesApart => NamesApart')
    BY <2>1 DEF InOrder, NamesDigest, NamesApart
  <2>4. (SendsTheMailbox => SendsTheMailbox') /\ (Balanced => Balanced')
    BY <2>1 DEF SendsTheMailbox, SendsIt, Balanced, Places, Alive
  <2>. QED BY <1>2, <2>1, <2>2, <2>3, <2>4 DEF IInv
<1>. QED BY <1>1, <1>2

LEMMA Invariance == Spec => []IInv
<1>1. Init => IInv
  BY Beginning
<1>. QED BY <1>1, Inductive, PTL DEF Spec

(* The volumes and numbers of the digests rise, whatever the frequency and *)
(* the dates are, and however many senders bump them, unless a transaction *)
(* overtook another or one was undone after its rename                     *)
(* (bump_digest_number_and_volume, maybe_send_digest_now).                 *)
THEOREM NumbersAlwaysRise == Spec => []NumbersRise
<1>1. IInv => NumbersRise
  BY DEF IInv, InOrder, NumbersRise
<1>. QED BY <1>1, Invariance, PTL

(* Under the same conditions, and while nobody appends to a mailbox that   *)
(* was renamed, each posting that was appended is in one mailbox that will *)
(* be sent or in one digest that was, wherever the digest runner and the   *)
(* other processes are, and whenever they die (ToDigest.process,           *)
(* maybe_send_digest_now, DigestRunner._dispose).                          *)
THEOREM PostingsAreSentOnce == Spec => []EachPostingInOneDigest
<1>1. IInv => EachPostingInOneDigest
  BY DEF IInv, Balanced, EachPostingInOneDigest
<1>. QED BY <1>1, Invariance, PTL

================================================================================
