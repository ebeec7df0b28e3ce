----------------------------- MODULE OutletsProofs -----------------------------
(***************************************************************************)
(* Theorems about Outlets and Delivery: nothing is done twice without a    *)
(* fault, the newsgroup and the archives are served, and delivery          *)
(* implements Mailing.                                                     *)
(***************************************************************************)
EXTENDS Outlets, FiniteSetTheorems, WellFoundedInduction, TLAPS

(***************************************************************************)
(* What the variables hold.                                                *)
(***************************************************************************)
Entry == [queue : {"out", "retry", "shunt"}, taken : BOOLEAN,
          rcpts : SUBSET Everybody, count : Nat, left : Int,
          verp : {"unset", "yes", "no"}, token : BOOLEAN, deco : {0, 1},
          once : BOOLEAN]
Work == [pc : {"idle", "sending", "finish", "commit"}, id : Nat,
         todo : SUBSET Everybody, temp : SUBSET Everybody,
         perm : SUBSET Everybody, conn : {"none", "open", "dead"},
         single : BOOLEAN, msg : Entry \cup {<<>>}]
Tx == [scored : SUBSET Everybody, confirmed : BOOLEAN, probe : BOOLEAN]

(* A probe is for one address and has nothing to decorate; a posting is    *)
(* decorated once if its metadata say so.                                  *)
Sound(e) == /\ e \in Entry
            /\ e.deco = IF e.once THEN 1 ELSE 0
            /\ e.rcpts \subseteq IF e.token THEN {Probed} ELSE Rcpts

TypeOK ==
    /\ IsFiniteSet(DOMAIN entry) /\ DOMAIN entry \subseteq Nat
    /\ \A i \in DOMAIN entry : Sound(entry[i])
    /\ out \in Work /\ tx \in [Runners -> Tx]
    /\ got \in [Everybody -> Nat]
    /\ faults \in Nat /\ probes \in Nat /\ overlaps \in Nat
    /\ {token, member, twice} \subseteq BOOLEAN
    /\ scored \subseteq Everybody
    /\ \A d \in returned : d.who \in Everybody

(***************************************************************************)
(* The entry at hand.                                                      *)
(***************************************************************************)
AtHand == /\ out.id \in DOMAIN entry
          /\ entry[out.id].queue = "out" /\ entry[out.id].taken

(* While the agent is sending, a recipient was not tried, has the message, *)
(* or failed; and nobody who failed for the moment is tried again.         *)
Sending ==
    out.pc = "sending" =>
        /\ AtHand
        /\ Sound(out.msg) /\ ~out.msg.taken
        /\ out.msg.rcpts = entry[out.id].rcpts
        /\ out.msg.token = entry[out.id].token
        /\ out.single \/ out.msg.once
        /\ out.todo \cup out.temp \cup out.perm \subseteq out.msg.rcpts
        /\ out.todo \cap out.temp = {}
        /\ \A r \in out.msg.rcpts :
              r \in out.todo \cup out.temp \cup out.perm \/ got[r] > 0

(* Before its file is removed, everybody it was for has the message, is    *)
(* registered or given up, or is in another entry.                         *)
ElseWhere(r) == \E j \in DOMAIN entry \ {out.id} : r \in entry[j].rcpts
Disposed ==
    out.pc = "finish" =>
        /\ AtHand
        /\ \A r \in entry[out.id].rcpts \cap Rcpts :
              \/ got[r] > 0 \/ r \in tx["out"].scored \/ r \in givenUp
              \/ ElseWhere(r)

CleanTx == out.pc \in {"idle", "sending"} => tx["out"] = NoTx

(***************************************************************************)
(* The accounts: every copy is paid for.                                   *)
(***************************************************************************)
(* The entries that may still bring the message to r.                      *)
Due(r) ==
    {i \in DOMAIN entry :
        /\ entry[i].queue # "shunt" /\ r \in entry[i].rcpts
        /\ i = out.id /\ out.pc = "sending" => r \in out.todo \cup out.temp
        /\ ~(i = out.id /\ out.pc = "finish")}
ToStore(a) == archiveFile = "queue" \/ a \in Range(archive.todo)
Pending(r) == IF r = MailAddress /\ ToStore("mail-archive") THEN 1 ELSE 0

CopiesPaid ==
    \A r \in Everybody : got[r] + Cardinality(Due(r)) + Pending(r) <= 1 + faults

Probing == {r \in Runners : tx[r].probe}
ProbesPaid ==
    /\ \A r \in Runners : tx[r].probe => tx[r].confirmed
    /\ token => probes = 0
    /\ probes + Cardinality(Probing) <= 1 + overlaps

(***************************************************************************)
(* The newsgroup and the archives.                                         *)
(***************************************************************************)
NewsStates == {"idle", "prepare", "connect", "quit", "finish"}
NewsFile == [place : {"none", "queue", "taken", "shunt", "done"}, article : Nat]
NewsWork == [pc : NewsStates, article : Nat, again : BOOLEAN]
(* Every Message-ID but the first is paid for by a fault; the first one,   *)
(* too, while the message has none.                                        *)
NewsFine(file, n, made, group, log, deaths) ==
    /\ file \in NewsFile /\ n \in NewsWork
    /\ made \in Nat /\ group \subseteq 1 .. made
    /\ file.article <= made /\ n.article <= made
    /\ n.pc = "idle" <=> file.place # "taken"
    /\ n.pc = "idle" => n.article = 0
    /\ n.pc = "prepare" => n.article = file.article
    /\ n.pc \in {"connect", "quit", "finish"} => n.article # 0
    /\ file.place = "shunt" => file.article # 0
    /\ made <= 1 + deaths
    /\ file.place \in {"queue", "taken"} /\ file.article = 0 /\ n.article = 0 =>
          made <= deaths
    /\ n.pc \in {"quit", "finish"} => n.article \in group \/ "news" \in log
    /\ file.place = "done" => group # {} \/ "news" \in log
NewsOK == NewsFine(newsFile, news, articles, newsgroup, logged, faults)

(* An archiver that is past has the posting, failed, or was not to get it. *)
Past(a) == archived[a] > 0 \/ a \in logged \/ (a = "mail-archive" /\ ~ArchivePublic)
ArchiveOK ==
    /\ archiveFile \in {"none", "queue", "taken", "done"}
    /\ archive.pc = "idle" <=> archiveFile # "taken"
    /\ archive \in [pc : {"idle", "archive"}, todo : Seq(Range(Archivers))]
    /\ IsInjective(archive.todo)
    /\ archive.pc = "idle" => archive.todo = <<>>
    /\ archived \in [Range(Archivers) -> Nat]
    /\ \A a \in Range(Archivers) :
          /\ archived[a] + (IF ToStore(a) THEN 1 ELSE 0) <= 1 + faults
          /\ archiveFile \in {"taken", "done"} /\ ~ToStore(a) => Past(a)
    /\ archiveFile \in {"taken", "done"} /\ ~ToStore("mail-archive") =>
          ByMail \subseteq InEntries \cup SentTo \cup FailedFor \cup givenUp

IInv ==
    /\ TypeOK /\ Sending /\ Disposed /\ CleanTx
    /\ CopiesPaid /\ ProbesPaid /\ ~twice
    /\ NewsOK /\ ArchiveOK

--------------------------------------------------------------------------------
(***************************************************************************)
(* Finite sets.                                                            *)
(***************************************************************************)
LEMMA Grown ==
    ASSUME NEW D, IsFiniteSet(D), NEW y, NEW E, E \subseteq D \cup {y}
    PROVE  /\ IsFiniteSet(E) /\ Cardinality(E) \in Nat /\ Cardinality(D) \in Nat
           /\ Cardinality(E) <= Cardinality(D) + 1
<1>1. /\ IsFiniteSet(D \cup {y})
      /\ Cardinality(D \cup {y}) = IF y \in D THEN Cardinality(D) ELSE Cardinality(D) + 1
  BY FS_AddElement
<1>2. Cardinality(D) \in Nat
  BY FS_CardinalityType
<1>3. IsFiniteSet(E) /\ Cardinality(E) <= Cardinality(D \cup {y})
  BY <1>1, FS_Subset
<1>4. Cardinality(E) \in Nat
  BY <1>3, FS_CardinalityType
<1>. QED BY <1>1, <1>2, <1>3, <1>4

LEMMA Shrunk ==
    ASSUME NEW D, IsFiniteSet(D), NEW E, E \subseteq D
    PROVE  /\ IsFiniteSet(E) /\ Cardinality(E) \in Nat /\ Cardinality(D) \in Nat
           /\ Cardinality(E) <= Cardinality(D)
BY FS_Subset, FS_CardinalityType

LEMMA Fewer ==
    ASSUME NEW D, IsFiniteSet(D), NEW x \in D, NEW E, E \subseteq D \ {x}
    PROVE  /\ IsFiniteSet(E) /\ Cardinality(E) \in Nat /\ Cardinality(D) \in Nat
           /\ Cardinality(E) + 1 <= Cardinality(D)
<1>1. IsFiniteSet(D \ {x}) /\ Cardinality(D \ {x}) = Cardinality(D) - 1
  BY FS_RemoveElement
<1>2. Cardinality(D) \in Nat
  BY FS_CardinalityType
<1>3. /\ IsFiniteSet(E) /\ Cardinality(E) \in Nat
      /\ Cardinality(E) <= Cardinality(D \ {x})
  BY <1>1, Shrunk
<1>. QED BY <1>1, <1>2, <1>3

LEMMA Swapped ==
    ASSUME NEW D, IsFiniteSet(D), NEW x \in D, NEW y, NEW E, E \subseteq (D \ {x}) \cup {y}
    PROVE  /\ IsFiniteSet(E) /\ Cardinality(E) \in Nat /\ Cardinality(D) \in Nat
           /\ Cardinality(E) <= Cardinality(D)
<1>1. /\ IsFiniteSet(D \ {x}) /\ Cardinality(D \ {x}) + 1 <= Cardinality(D)
      /\ Cardinality(D \ {x}) \in Nat /\ Cardinality(D) \in Nat
  BY Fewer
<1>2. /\ IsFiniteSet(E) /\ Cardinality(E) \in Nat
      /\ Cardinality(E) <= Cardinality(D \ {x}) + 1
  BY <1>1, Grown
<1>. QED BY <1>1, <1>2

(* The least unused number is one that is not used.                        *)
LEMMA NewIdIsNew ==
    ASSUME IsFiniteSet(DOMAIN entry)
    PROVE  NewId \in Nat /\ NewId \notin DOMAIN entry
<1> DEFINE n == Cardinality(DOMAIN entry)
           S == (1 .. n + 1) \ DOMAIN entry
<1>1. n \in Nat
  BY FS_CardinalityType
<1>2. S # {}
  <2>1. SUFFICES ASSUME 1 .. n + 1 \subseteq DOMAIN entry PROVE FALSE
    OBVIOUS
  <2>2. Cardinality(1 .. n + 1) = n + 1
    BY <1>1, FS_Interval
  <2>3. Cardinality(1 .. n + 1) <= n
    BY <2>1, FS_Subset
  <2>. QED BY <1>1, <2>2, <2>3
<1>3. \E x \in S : \A y \in S : x <= y
  <2>1. S \in SUBSET Nat
    BY <1>1
  <2> HIDE DEF S
  <2>2. PICK x \in S : \A y \in S : ~ (<<y, x>> \in OpToRel(<, Nat))
    BY <1>2, <2>1, NatLessThanWellFounded, WFMin
  <2>3. \A y \in S : ~ (y < x)
    BY <2>1, <2>2 DEF OpToRel
  <2>. QED BY <2>1, <2>3
<1>4. NewId \in S
  BY <1>3 DEF NewId, Min
<1>. QED BY <1>1, <1>4

--------------------------------------------------------------------------------
(***************************************************************************)
(* The records, and what the code does with them.                          *)
(***************************************************************************)
Queues == {"out", "retry", "shunt"}
Claimed(e) == [e EXCEPT !.taken = TRUE]
Free(e) == [e EXCEPT !.taken = FALSE]
Moved(e, q) == [e EXCEPT !.queue = q]
Queued(e, q) == [e EXCEPT !.queue = q, !.taken = FALSE]
Verped(e, v) == [e EXCEPT !.verp = v]
Again(e, temp, n, left) == [e EXCEPT !.rcpts = temp, !.count = n, !.left = left]

SameMail(e, f) == f.rcpts = e.rcpts /\ f.token = e.token

LEMMA EntryFields ==
    ASSUME NEW e, Sound(e), NEW q \in Queues
    PROVE  /\ Sound(Claimed(e)) /\ SameMail(e, Claimed(e))
           /\ Claimed(e).queue = e.queue /\ Claimed(e).taken
           /\ Sound(Free(e)) /\ SameMail(e, Free(e))
           /\ Free(e).queue = e.queue /\ ~Free(e).taken
           /\ Sound(Moved(e, q)) /\ SameMail(e, Moved(e, q))
           /\ Moved(e, q).queue = q /\ Moved(e, q).taken = e.taken
           /\ Sound(Queued(e, q)) /\ SameMail(e, Queued(e, q))
           /\ Queued(e, q).queue = q /\ ~Queued(e, q).taken
<1> USE DEF Sound, Entry, SameMail
<1>1. /\ Claimed(e) \in Entry /\ Claimed(e).queue = e.queue /\ Claimed(e).taken = TRUE
      /\ Claimed(e).rcpts = e.rcpts /\ Claimed(e).token = e.token
      /\ Claimed(e).deco = e.deco /\ Claimed(e).once = e.once
  BY Zenon DEF Claimed
<1>2. /\ Free(e) \in Entry /\ Free(e).queue = e.queue /\ Free(e).taken = FALSE
      /\ Free(e).rcpts = e.rcpts /\ Free(e).token = e.token
      /\ Free(e).deco = e.deco /\ Free(e).once = e.once
  BY Zenon DEF Free
<1>3. /\ Moved(e, q) \in Entry /\ Moved(e, q).queue = q /\ Moved(e, q).taken = e.taken
      /\ Moved(e, q).rcpts = e.rcpts /\ Moved(e, q).token = e.token
      /\ Moved(e, q).deco = e.deco /\ Moved(e, q).once = e.once
  BY Zenon DEF Moved, Queues
<1>4. /\ Queued(e, q) \in Entry /\ Queued(e, q).queue = q /\ Queued(e, q).taken = FALSE
      /\ Queued(e, q).rcpts = e.rcpts /\ Queued(e, q).token = e.token
      /\ Queued(e, q).deco = e.deco /\ Queued(e, q).once = e.once
  BY Zenon DEF Queued, Queues
<1>. QED BY <1>1, <1>2, <1>3, <1>4

LEMMA VerpedFields ==
    ASSUME NEW e, Sound(e), NEW v \in {"unset", "yes", "no"}
    PROVE  /\ Sound(Verped(e, v)) /\ SameMail(e, Verped(e, v))
           /\ Verped(e, v).taken = e.taken
<1> USE DEF Sound, Entry, SameMail
<1>1. /\ Verped(e, v) \in Entry /\ Verped(e, v).taken = e.taken
      /\ Verped(e, v).rcpts = e.rcpts /\ Verped(e, v).token = e.token
      /\ Verped(e, v).deco = e.deco /\ Verped(e, v).once = e.once
  BY Zenon DEF Verped
<1>. QED BY <1>1

LEMMA LaterFields ==
    ASSUME NEW e, Sound(e)
    PROVE  /\ Sound(Later(e)) /\ SameMail(e, Later(e))
           /\ Later(e).queue = e.queue /\ Later(e).taken = e.taken
           /\ Later(e).once = e.once
<1> USE DEF Sound, Entry, SameMail
<1>1. Max({-1, e.left - 1}) \in Int
  <2>1. e.left \in Int
    OBVIOUS
  <2>2. \E x \in {-1, e.left - 1} : \A y \in {-1, e.left - 1} : x >= y
    BY <2>1
  <2>3. Max({-1, e.left - 1}) \in {-1, e.left - 1}
    BY <2>2 DEF Max
  <2>. QED BY <2>1, <2>3
<1>2. /\ Later(e) \in Entry /\ Later(e).queue = e.queue /\ Later(e).taken = e.taken
      /\ Later(e).rcpts = e.rcpts /\ Later(e).token = e.token
      /\ Later(e).deco = e.deco /\ Later(e).once = e.once
  BY <1>1, Zenon DEF Later
<1>. QED BY <1>2

LEMMA DecoratedFields ==
    ASSUME NEW e, Sound(e)
    PROVE  /\ Sound(Decorated(e)) /\ SameMail(e, Decorated(e))
           /\ Decorated(e).taken = e.taken
           /\ Decorated(e).once /\ Decorated(e).deco = 1
<1> USE DEF Sound, Entry, SameMail
<1>1. CASE e.once
  BY <1>1 DEF Decorated
<1>2. CASE ~e.once
  <2>1. Min({2, e.deco + 1}) = 1
    <3>1. e.deco + 1 = 1
      BY <1>2
    <3>2. \E x \in {2, 1} : \A y \in {2, 1} : x <= y
      OBVIOUS
    <3>. QED BY <3>1, <3>2 DEF Min
  <2>2. Decorated(e) = [e EXCEPT !.deco = 1, !.once = TRUE]
    BY <1>2, <2>1, Zenon DEF Decorated
  <2> DEFINE f == [e EXCEPT !.deco = 1, !.once = TRUE]
  <2>3. /\ f \in Entry /\ f.taken = e.taken
        /\ f.rcpts = e.rcpts /\ f.token = e.token
        /\ f.deco = 1 /\ f.once = TRUE
    BY Zenon
  <2> HIDE DEF f
  <2>. QED BY <2>2, <2>3
<1>. QED BY <1>1, <1>2

LEMMA AgainFields ==
    ASSUME NEW e, Sound(e), NEW temp, temp \subseteq e.rcpts, NEW n \in Nat, NEW left \in Int
    PROVE  /\ Sound(Again(e, temp, n, left))
           /\ Again(e, temp, n, left).rcpts = temp
<1> USE DEF Sound, Entry
<1>1. temp \in SUBSET Everybody
  OBVIOUS
<1>2. /\ Again(e, temp, n, left) \in Entry
      /\ Again(e, temp, n, left).rcpts = temp /\ Again(e, temp, n, left).token = e.token
      /\ Again(e, temp, n, left).deco = e.deco /\ Again(e, temp, n, left).once = e.once
  BY <1>1, Zenon DEF Again
<1>. QED BY <1>2

CopyFor(r) == [Fresh EXCEPT !.rcpts = {r}]

LEMMA NewEntries ==
    /\ Sound(Fresh) /\ Sound(Probe)
    /\ Sound(CopyFor(MailAddress)) /\ CopyFor(MailAddress).rcpts = {MailAddress}
<1>1. Fresh \in Entry /\ Fresh.rcpts = Rcpts /\ Fresh.token = FALSE
      /\ Fresh.deco = 0 /\ Fresh.once = FALSE
  BY DEF Fresh, Entry, Everybody
<1>2. /\ Probe \in Entry /\ Probe.rcpts = {Probed} /\ Probe.token = TRUE
      /\ Probe.deco = 1 /\ Probe.once = TRUE
  BY <1>1 DEF Probe, Fresh, Entry, Everybody
<1>3. /\ CopyFor(MailAddress) \in Entry /\ CopyFor(MailAddress).rcpts = {MailAddress}
      /\ CopyFor(MailAddress).token = FALSE
      /\ CopyFor(MailAddress).deco = 0 /\ CopyFor(MailAddress).once = FALSE
  BY <1>1, OutletsAssumption DEF CopyFor, Fresh, Entry, Everybody
<1>4. Sound(Fresh)
  BY <1>1 DEF Sound
<1>5. Sound(Probe)
  BY <1>2 DEF Sound
<1>6. Sound(CopyFor(MailAddress))
  BY <1>3, OutletsAssumption DEF Sound
<1>. QED BY <1>3, <1>4, <1>5, <1>6

(* The outgoing runner, and its transaction.                               *)
Begun(i, todo, single, msg) ==
    [IdleOut EXCEPT !.pc = "sending", !.id = i, !.todo = todo, !.single = single,
                    !.msg = msg]
TriedBy(w, c, temp, perm, conn) ==
    [w EXCEPT !.todo = @ \ c, !.temp = @ \cup temp, !.perm = @ \cup perm, !.conn = conn]
AtStep(w, pc) == [w EXCEPT !.pc = pc]
LaterOut(w) == [w EXCEPT !.msg = Later(@)]

LEMMA IdleFields ==
    /\ IdleOut \in Work /\ IdleOut.pc = "idle"
    /\ AtStep(IdleOut, "commit") \in Work /\ AtStep(IdleOut, "commit").pc = "commit"
BY DEF IdleOut, Work, AtStep

LEMMA BegunFields ==
    ASSUME NEW i, NEW todo, NEW single, NEW msg, NEW w,
           i \in Nat, todo \in SUBSET Everybody, single \in BOOLEAN, msg \in Entry,
           w = Begun(i, todo, single, msg)
    PROVE  /\ w \in Work /\ w.pc = "sending" /\ w.id = i /\ w.todo = todo
           /\ w.temp = {} /\ w.perm = {} /\ w.single = single /\ w.msg = msg
<1> DEFINE v == Begun(i, todo, single, msg)
<1>1. /\ v \in Work /\ v.pc = "sending" /\ v.id = i /\ v.todo = todo
      /\ v.temp = IdleOut.temp /\ v.perm = IdleOut.perm /\ v.single = single /\ v.msg = msg
  BY IdleFields, Zenon DEF Begun, Work
<1>2. IdleOut.temp = {} /\ IdleOut.perm = {}
  BY DEF IdleOut
<1>3. w = v
  OBVIOUS
<1> HIDE DEF v
<1>. QED BY <1>1, <1>2, <1>3, Zenon

LEMMA TriedFields ==
    ASSUME NEW w, NEW c, NEW temp, NEW perm, NEW conn, NEW x,
           w \in Work, temp \in SUBSET Everybody, perm \in SUBSET Everybody,
           conn \in {"none", "open", "dead"}, x = TriedBy(w, c, temp, perm, conn)
    PROVE  /\ x \in Work /\ x.pc = w.pc /\ x.id = w.id /\ x.todo = w.todo \ c
           /\ x.temp = w.temp \cup temp /\ x.perm = w.perm \cup perm
           /\ x.single = w.single /\ x.msg = w.msg
<1> DEFINE v == TriedBy(w, c, temp, perm, conn)
<1>1. /\ w.todo \ c \in SUBSET Everybody
      /\ w.temp \cup temp \in SUBSET Everybody
      /\ w.perm \cup perm \in SUBSET Everybody
  BY DEF Work
<1>2. /\ v \in Work /\ v.pc = w.pc /\ v.id = w.id /\ v.todo = w.todo \ c
      /\ v.temp = w.temp \cup temp /\ v.perm = w.perm \cup perm
      /\ v.single = w.single /\ v.msg = w.msg
  BY <1>1, Zenon DEF Work, TriedBy
<1>3. x = v
  OBVIOUS
<1> HIDE DEF v
<1>. QED BY <1>2, <1>3, Zenon

LEMMA StepFields ==
    ASSUME NEW w \in Work, NEW pc \in {"idle", "sending", "finish", "commit"},
           NEW x, x = AtStep(w, pc)
    PROVE  /\ x \in Work /\ x.pc = pc /\ x.id = w.id /\ x.todo = w.todo
           /\ x.temp = w.temp /\ x.perm = w.perm
           /\ x.single = w.single /\ x.msg = w.msg
<1> DEFINE v == AtStep(w, pc)
<1>1. /\ v \in Work /\ v.pc = pc /\ v.id = w.id /\ v.todo = w.todo
      /\ v.temp = w.temp /\ v.perm = w.perm
      /\ v.single = w.single /\ v.msg = w.msg
  BY Zenon DEF Work, AtStep
<1>2. x = v
  OBVIOUS
<1> HIDE DEF v
<1>. QED BY <1>1, <1>2, Zenon

LEMMA LaterOutFields ==
    ASSUME NEW w \in Work, Sound(w.msg), NEW x, x = LaterOut(w)
    PROVE  /\ x \in Work /\ x.pc = w.pc /\ x.id = w.id /\ x.todo = w.todo
           /\ x.temp = w.temp /\ x.perm = w.perm
           /\ x.single = w.single /\ x.msg = Later(w.msg)
<1> DEFINE v == LaterOut(w)
<1>1. Later(w.msg) \in Entry
  BY LaterFields DEF Sound
<1>2. /\ v \in Work /\ v.pc = w.pc /\ v.id = w.id /\ v.todo = w.todo
      /\ v.temp = w.temp /\ v.perm = w.perm
      /\ v.single = w.single /\ v.msg = Later(w.msg)
  BY <1>1, Zenon DEF Work, LaterOut
<1>3. x = v
  OBVIOUS
<1> HIDE DEF v
<1>. QED BY <1>2, <1>3, Zenon

(* Entries that are added, removed, or both.                               *)
LEMMA Adds ==
    ASSUME IsFiniteSet(DOMAIN entry), NEW e, NEW q, NEW E, E = Enqueued(e, q)
    PROVE  /\ DOMAIN E = DOMAIN entry \cup {NewId} /\ NewId \notin DOMAIN entry
           /\ NewId \in Nat /\ E[NewId] = Queued(e, q)
           /\ \A i \in DOMAIN entry : E[i] = entry[i]
<1> DEFINE n == NewId
<1>1. n \in Nat /\ n \notin DOMAIN entry
  BY NewIdIsNew
<1>2. E = [i \in DOMAIN entry \cup {n} |-> IF i = n THEN Queued(e, q) ELSE entry[i]]
  BY DEF Enqueued, Added, Queued
<1> HIDE DEF n
<1>3. /\ DOMAIN E = {n} \cup DOMAIN entry /\ E[n] = Queued(e, q)
      /\ \A i \in DOMAIN entry : E[i] = entry[i]
  BY <1>1, <1>2
<1>. QED BY <1>1, <1>3 DEF n

LEMMA Replaces ==
    ASSUME IsFiniteSet(DOMAIN entry), NEW i \in DOMAIN entry, NEW e, NEW E,
           E = Added(Without(i), e)
    PROVE  /\ DOMAIN E = (DOMAIN entry \ {i}) \cup {NewId} /\ NewId \notin DOMAIN entry
           /\ NewId \in Nat /\ E[NewId] = e
           /\ \A j \in DOMAIN entry \ {i} : E[j] = entry[j]
<1> DEFINE n == NewId
<1>1. n \in Nat /\ n \notin DOMAIN entry
  BY NewIdIsNew
<1>2. E = [j \in DOMAIN Without(i) \cup {n} |-> IF j = n THEN e ELSE Without(i)[j]]
  BY DEF Added
<1> HIDE DEF n
<1>3. /\ DOMAIN E = (DOMAIN entry \ {i}) \cup {n} /\ E[n] = e
      /\ \A j \in DOMAIN entry \ {i} : E[j] = entry[j]
  BY <1>1, <1>2 DEF Without, Restrict
<1>. QED BY <1>1, <1>3 DEF n

LEMMA Removes ==
    ASSUME NEW i, NEW E, E = Without(i)
    PROVE  /\ DOMAIN E = DOMAIN entry \ {i}
           /\ \A j \in DOMAIN entry \ {i} : E[j] = entry[j]
BY DEF Without, Restrict

Registered(S) == [NoTx EXCEPT !.scored = S]
ConfirmedTx(S, event) == [scored |-> S, confirmed |-> TRUE, probe |-> event]

LEMMA TxFields ==
    ASSUME NEW S \in SUBSET Everybody, NEW event \in BOOLEAN
    PROVE  /\ NoTx \in Tx /\ NoTx.scored = {} /\ ~NoTx.confirmed /\ ~NoTx.probe
           /\ Registered(S) \in Tx /\ Registered(S).scored = S
           /\ ~Registered(S).confirmed /\ ~Registered(S).probe
           /\ ConfirmedTx(S, event) \in Tx /\ ConfirmedTx(S, event).scored = S
           /\ ConfirmedTx(S, event).confirmed /\ ConfirmedTx(S, event).probe = event
BY DEF NoTx, Tx, Registered, ConfirmedTx

--------------------------------------------------------------------------------
(***************************************************************************)
(* Each action of Delivery, by what it does to the fields of the records.  *)
(***************************************************************************)
WInv == TypeOK /\ Sending /\ Disposed /\ CleanTx

LEMMA DequeueView ==
    ASSUME WInv, NEW i \in DOMAIN entry, Dequeue(i)
    PROVE  /\ out.pc = "idle" /\ entry[i].queue = "out"
           /\ DOMAIN entry' = DOMAIN entry /\ entry'[i] = Claimed(entry[i])
           /\ \A j \in DOMAIN entry \ {i} : entry'[j] = entry[j]
           /\ \E single \in BOOLEAN, msg \in Entry :
                 /\ Sound(msg) /\ SameMail(entry[i], msg) /\ ~msg.taken
                 /\ single \/ msg.once
                 /\ out' = Begun(i, entry[i].rcpts, single, msg)
<1>1. /\ out.pc = "idle" /\ entry[i].queue = "out" /\ ~entry[i].taken
      /\ entry' = [entry EXCEPT ![i] = Claimed(entry[i])]
  BY DEF Dequeue, Waiting, Claimed
<1>2a. PICK personalize \in BOOLEAN : \E v \in Verp(entry[i], personalize) :
         LET e == [entry[i] EXCEPT !.verp = v]
             single == Individually(e, personalize)
         IN  out' = [IdleOut EXCEPT
                       !.pc = "sending", !.id = i, !.todo = e.rcpts,
                       !.single = single,
                       !.msg = IF single THEN e ELSE Decorated(e)]
  BY DEF Dequeue
<1>2. PICK v \in Verp(entry[i], personalize) :
         LET e == [entry[i] EXCEPT !.verp = v]
             single == Individually(e, personalize)
         IN  out' = [IdleOut EXCEPT
                       !.pc = "sending", !.id = i, !.todo = e.rcpts,
                       !.single = single,
                       !.msg = IF single THEN e ELSE Decorated(e)]
  BY <1>2a
<1>3. Sound(entry[i])
  BY DEF WInv, TypeOK
<1>4. v \in {"unset", "yes", "no"}
  BY <1>3, DeliveryAssumption DEF Verp, Sound, Entry
<1> DEFINE e == Verped(entry[i], v)
           single == Individually(e, personalize)
           msg == IF single THEN e ELSE Decorated(e)
<1>5. Sound(e) /\ SameMail(entry[i], e) /\ e.taken = entry[i].taken
  BY <1>3, <1>4, VerpedFields
<1>6. out' = Begun(i, e.rcpts, single, msg)
  BY <1>2, Zenon DEF Begun, Verped
<1>7. single \in BOOLEAN
  BY DEF Individually
<1> HIDE DEF e
<1>8. Sound(msg) /\ SameMail(entry[i], msg) /\ ~msg.taken /\ (single \/ msg.once)
  BY <1>1, <1>5, DecoratedFields DEF SameMail
<1>9. e.rcpts = entry[i].rcpts /\ msg \in Entry
  BY <1>5, <1>8 DEF SameMail, Sound
<1> HIDE DEF single, msg
<1>. QED BY <1>1, <1>6, <1>7, <1>8, <1>9

(* An answer of the mail server or the lack of one: some have the message, *)
(* some failed, and nobody fails who has it, unless there was a fault.     *)
Tries(c, ok, temp, perm) ==
    /\ out.pc = "sending"
    /\ ok \cup temp \cup perm = c
    /\ \E conn \in {"none", "open", "dead"} : out' = TriedBy(out, c, temp, perm, conn)
    /\ \A r \in Everybody : got'[r] = IF r \in ok THEN got[r] + 1 ELSE got[r]
    /\ got' \in [Everybody -> Nat]
    /\ twice' = (twice \/ (ok # {} /\ CopyDeco(out) # 1))
    /\ \/ temp \cap ok = {} /\ faults' = faults
       \/ faults' = faults + 1
    /\ UNCHANGED <<entry, tx, database, bounces, lost, givenUp, overlaps>>

LEMMA ChunkOf ==
    ASSUME NEW e, NEW todo, NEW c \in Chunks(e, todo)
    PROVE  c \in SUBSET todo
<1> DEFINE Size(b) == Cardinality(Bucket(e.rcpts, b))
           Left(b) == Bucket(todo, b)
           open == {b \in Range(TopDomain) : Left(b) # {}}
           begun == {b \in open : Left(b) # Bucket(e.rcpts, b)}
           next == IF begun # {} THEN begun
                   ELSE {b \in open : \A a \in open : Size(a) <= Size(b)}
           Some(b) == kSubset(Min({MaxRecipients, Cardinality(Left(b))}), Left(b))
<1>1. Chunks(e, todo) = IF e.token \/ MaxRecipients <= 0 THEN {todo}
                        ELSE UNION {Some(b) : b \in next}
  BY Zenon DEF Chunks
<1>2. \A b : \A x \in Some(b) : x \in SUBSET todo
  BY DEF kSubset, Bucket
<1> HIDE DEF next, Some
<1>. QED BY <1>1, <1>2

LEMMA SendView ==
    ASSUME WInv, Send
    PROVE  \E c, ok, temp, perm \in SUBSET out.todo : Tries(c, ok, temp, perm)
<1> USE DEF WInv, TypeOK
<1>1. PICK c \in NextOf(out) : Session(c) \/ NoSession(c) \/ Disconnected(c)
  BY DEF Send
<1>2. c \in SUBSET out.todo
  <2>1. CASE out.single
    BY <1>1, <2>1 DEF NextOf
  <2>2. CASE ~out.single
    <3>1. c \in Chunks(out.msg, out.todo)
      BY <1>1, <2>2 DEF NextOf
    <3>. QED BY <3>1, ChunkOf
  <2>. QED BY <2>1, <2>2
<1>3. out.pc = "sending" /\ UNCHANGED <<entry, tx, database, bounces>>
  BY DEF Send
<1>4. out.todo \subseteq Everybody
  BY DEF Work
<1>5. ASSUME NEW temp, NEW perm, NEW conn \in {"none", "open", "dead"}, Tried(c, temp, perm, conn)
      PROVE  \E x \in {"none", "open", "dead"} : out' = TriedBy(out, c, temp, perm, x)
  <2>1. out' = TriedBy(out, c, temp, perm, IF out.todo = c THEN "none" ELSE conn)
    BY <1>5, Zenon DEF Tried, TriedBy
  <2>2. (IF out.todo = c THEN "none" ELSE conn) \in {"none", "open", "dead"}
    OBVIOUS
  <2>. QED BY <2>1, <2>2
<1>6. ASSUME NEW S \in SUBSET c, Took(out, S)
      PROVE  /\ \A r \in Everybody : got'[r] = IF r \in S THEN got[r] + 1 ELSE got[r]
             /\ got' \in [Everybody -> Nat]
             /\ twice' = (twice \/ (S # {} /\ CopyDeco(out) # 1))
             /\ UNCHANGED <<lost, givenUp, overlaps>>
  BY <1>6 DEF Took
<1>7. CASE Session(c)
  <2>1. PICK answer \in [c -> Codes] :
          LET perm == With(answer, Permanent)
              ok == With(answer, LAMBDA code : code = 250)
          IN  /\ Took(out, ok)
              /\ \E conn \in {"open", "none"} : Tried(c, c \ (ok \cup perm), perm, conn)
    BY <1>7 DEF Session
  <2> DEFINE perm == With(answer, Permanent)
             ok == With(answer, LAMBDA code : code = 250)
  <2>2. ok \in SUBSET c /\ perm \in SUBSET c
    BY DEF With
  <2>3. Took(out, ok) /\ \E conn \in {"open", "none"} : Tried(c, c \ (ok \cup perm), perm, conn)
    BY <2>1
  <2>4. faults' = faults
    BY <1>7 DEF Session
  <2> HIDE DEF ok, perm
  <2> DEFINE temp == c \ (ok \cup perm)
  <2>5. \E conn \in {"none", "open", "dead"} : out' = TriedBy(out, c, temp, perm, conn)
    BY <2>3, <1>5
  <2>6. temp \in SUBSET c /\ temp \cap ok = {} /\ ok \cup temp \cup perm = c
    BY <2>2
  <2> HIDE DEF temp
  <2>7. /\ c \in SUBSET out.todo /\ ok \in SUBSET out.todo
        /\ temp \in SUBSET out.todo /\ perm \in SUBSET out.todo
    BY <1>2, <2>2, <2>6
  <2>8. Tries(c, ok, temp, perm)
    BY <1>3, <1>6, <2>2, <2>3, <2>4, <2>5, <2>6 DEF Tries
  <2>. QED BY <2>7, <2>8
<1>8. CASE NoSession(c)
  <2>1. /\ Tried(c, c, {}, IF out.conn = "none" THEN "dead" ELSE "none")
        /\ UNCHANGED <<got, history, faults>>
    BY <1>8 DEF NoSession
  <2>2. \E conn \in {"none", "open", "dead"} : out' = TriedBy(out, c, c, {}, conn)
    BY <2>1, <1>5
  <2>3. Tries(c, {}, c, {})
    BY <1>3, <2>1, <2>2 DEF Tries, history
  <2>. QED BY <1>2, <2>3
<1>9. CASE Disconnected(c)
  <2>1. PICK S \in SUBSET c : Took(out, S)
    BY <1>9 DEF Disconnected
  <2>2. Tried(c, c, {}, "none") /\ faults' = faults + 1
    BY <1>9 DEF Disconnected
  <2>3. \E conn \in {"none", "open", "dead"} : out' = TriedBy(out, c, c, {}, conn)
    BY <2>2, <1>5
  <2>4. Tries(c, S, c, {})
    BY <1>3, <1>6, <2>1, <2>2, <2>3 DEF Tries
  <2>. QED BY <1>2, <2>4
<1>. QED BY <1>1, <1>7, <1>8, <1>9

LEMMA ShuntedView ==
    ASSUME WInv, out.pc = "sending", Shunted
    PROVE  /\ DOMAIN entry' = (DOMAIN entry \ {out.id}) \cup {NewId}
           /\ NewId \notin DOMAIN entry /\ NewId \in Nat
           /\ entry'[NewId] = Moved(out.msg, "shunt")
           /\ \A j \in DOMAIN entry \ {out.id} : entry'[j] = entry[j]
           /\ out' = IdleOut /\ tx' = [tx EXCEPT !["out"] = NoTx]
<1>1. entry' = Added(Without(out.id), Moved(out.msg, "shunt"))
  BY DEF Shunted, Moved
<1>2. out' = IdleOut /\ tx' = [tx EXCEPT !["out"] = NoTx]
  BY DEF Shunted
<1>3. out.id \in DOMAIN entry /\ IsFiniteSet(DOMAIN entry)
  BY DEF WInv, TypeOK, Sending, AtHand
<1> DEFINE i == out.id
           e == Moved(out.msg, "shunt")
<1> HIDE DEF i, e
<1>4. i \in DOMAIN entry /\ entry' = Added(Without(i), e)
  BY <1>1, <1>3 DEF i, e
<1>5. /\ DOMAIN entry' = (DOMAIN entry \ {i}) \cup {NewId}
      /\ NewId \notin DOMAIN entry /\ NewId \in Nat /\ entry'[NewId] = e
      /\ \A j \in DOMAIN entry \ {i} : entry'[j] = entry[j]
  BY <1>3, <1>4, Replaces
<1>. QED BY <1>2, <1>5 DEF i, e

(* A posting of which everybody was tried: the others are queued again or  *)
(* given up.                                                               *)
DisposePosting(e) ==
    /\ ~out.msg.token
    /\ tx' = [tx EXCEPT !["out"] = Registered(out.perm)]
    /\ out' = AtStep(out, "finish")
    /\ UNCHANGED overlaps
    /\ \/ /\ DOMAIN entry' = DOMAIN entry \cup {NewId}
          /\ NewId \notin DOMAIN entry /\ NewId \in Nat
          /\ \A i \in DOMAIN entry : entry'[i] = entry[i]
          /\ entry'[NewId] = Queued(e, "retry") /\ Sound(e) /\ e.rcpts = out.temp
          /\ givenUp' = givenUp
       \/ entry' = entry /\ givenUp' = givenUp \cup out.temp
       \/ entry' = entry /\ givenUp' = givenUp /\ out.temp = {}

DisposeProbe ==
    /\ out.msg.token
    /\ out' = AtStep(out, "finish")
    /\ UNCHANGED <<entry, givenUp>>
    /\ \/ UNCHANGED <<tx, overlaps>>
       \/ Confirm("out", {}, TRUE) /\ token

DisposeShunts ==
    /\ out.msg.token /\ out.perm # {}
    /\ Shunted /\ UNCHANGED <<overlaps, givenUp>>

LEMMA DisposeView ==
    ASSUME WInv, Dispose
    PROVE  /\ out.pc = "sending" /\ out.todo = {}
           /\ UNCHANGED <<database, bounces, lost, twice, got, faults>>
           /\ DisposeShunts \/ DisposeProbe \/ \E e : DisposePosting(e)
<1>1. /\ out.pc = "sending" /\ out.todo = {}
      /\ UNCHANGED <<database, bounces, lost, twice, got, faults>>
  BY DEF Dispose
<1>2. CASE out.msg.token
  <2>1. CASE out.perm # {} /\ token /\ ~member
    BY <1>2, <2>1 DEF Dispose, DisposeShunts
  <2>2. CASE ~(out.perm # {} /\ token /\ ~member)
    BY <1>2, <2>2 DEF Dispose, ProbeFailed, DisposeProbe, AtStep
  <2>. QED BY <1>1, <2>1, <2>2
<1>3. CASE ~out.msg.token
  <2> DEFINE n == Cardinality(out.temp)
             progress == n # out.msg.count
             left == IF progress THEN Period ELSE out.msg.left
             e == Again(out.msg, out.temp, n, left)
             over == ~progress /\ out.msg.left < 0
  <2>1. /\ tx' = [tx EXCEPT !["out"] = Registered(out.perm)]
        /\ out' = AtStep(out, "finish")
        /\ UNCHANGED overlaps
    BY <1>3 DEF Dispose, Register, Registered, AtStep
  <2>2. /\ entry' = IF over \/ n = 0 THEN entry ELSE Enqueued(e, "retry")
        /\ givenUp' = IF over THEN givenUp \cup out.temp ELSE givenUp
    <3>1. RetryLater
      BY <1>3 DEF Dispose
    <3>. QED BY <3>1, Zenon DEF RetryLater, Again
  <2>3. IsFiniteSet(out.temp)
    <3>1. IsFiniteSet(Everybody)
      BY DeliveryAssumption, FS_AddElement DEF Everybody
    <3>. QED BY <3>1, FS_Subset DEF WInv, TypeOK, Work
  <2>4. n \in Nat /\ (n = 0 => out.temp = {})
    BY <2>3, FS_CardinalityType, FS_EmptySet
  <2>5. Sound(out.msg) /\ out.temp \subseteq out.msg.rcpts
    BY <1>1 DEF WInv, Sending
  <2>6. left \in Int
    BY <2>5, DeliveryAssumption DEF Sound, Entry
  <2> HIDE DEF n, left
  <2>7. Sound(e) /\ e.rcpts = out.temp
    BY <2>4, <2>5, <2>6, AgainFields
  <2>8. IsFiniteSet(DOMAIN entry)
    BY DEF WInv, TypeOK
  <2> HIDE DEF e, over
  <2>9. DisposePosting(e)
    <3>1. CASE over \/ n = 0
      BY <1>3, <2>1, <2>2, <2>4, <3>1 DEF DisposePosting
    <3>2. CASE ~(over \/ n = 0)
      <4>1. entry' = Enqueued(e, "retry") /\ givenUp' = givenUp
        BY <2>2, <3>2
      <4>2. /\ DOMAIN entry' = DOMAIN entry \cup {NewId} /\ NewId \notin DOMAIN entry
            /\ NewId \in Nat /\ entry'[NewId] = Queued(e, "retry")
            /\ \A i \in DOMAIN entry : entry'[i] = entry[i]
        BY <4>1, <2>8, Adds
      <4>. QED BY <1>3, <2>1, <2>7, <4>1, <4>2 DEF DisposePosting
    <3>. QED BY <3>1, <3>2
  <2>. QED BY <1>1, <2>9
<1>. QED BY <1>1, <1>2, <1>3

LEMMA FinishView ==
    ASSUME WInv, Finish
    PROVE  /\ out.pc = "finish" /\ AtHand
           /\ DOMAIN entry' = DOMAIN entry \ {out.id}
           /\ \A j \in DOMAIN entry \ {out.id} : entry'[j] = entry[j]
           /\ out' = AtStep(IdleOut, "commit")
           /\ UNCHANGED <<tx, database, bounces, history, got, faults>>
BY Removes DEF Finish, WInv, Disposed, AtStep

LEMMA CrashView ==
    ASSUME WInv, Crash
    PROVE  /\ out.pc # "idle" /\ faults' = faults + 1
           /\ DOMAIN entry' = DOMAIN entry
           /\ \A j \in DOMAIN entry : entry'[j] = entry[j] \/ entry'[j] = Free(entry[j])
           /\ \A j \in DOMAIN entry \ {out.id} : entry'[j] = entry[j]
           /\ out' = IdleOut /\ tx' = [tx EXCEPT !["out"] = NoTx]
           /\ lost' = lost \cup tx["out"].scored
           /\ UNCHANGED <<database, bounces, givenUp, twice, overlaps, got>>
<1>1. /\ out.pc # "idle" /\ faults' = faults + 1
      /\ out' = IdleOut /\ tx' = [tx EXCEPT !["out"] = NoTx]
      /\ lost' = lost \cup tx["out"].scored
      /\ UNCHANGED <<database, bounces, givenUp, twice, overlaps, got>>
  BY DEF Crash
<1>2. CASE out.pc = "commit"
  BY <1>1, <1>2 DEF Crash
<1>3. CASE out.pc # "commit"
  <2>1. entry' = [entry EXCEPT ![out.id] = Free(entry[out.id])]
    BY <1>3 DEF Crash, Free
  <2>. QED BY <1>1, <2>1
<1>. QED BY <1>2, <1>3

(* The retry runner and unshunt.                                           *)
LEMMA RetryView ==
    ASSUME WInv, NEW i \in DOMAIN entry, RetryDispose(i)
    PROVE  /\ entry[i].queue = "retry"
           /\ DOMAIN entry' = (DOMAIN entry \ {i}) \cup {NewId}
           /\ NewId \notin DOMAIN entry /\ NewId \in Nat
           /\ entry'[NewId] = Moved(entry[i], "out")
           /\ \A j \in DOMAIN entry \ {i} : entry'[j] = entry[j]
<1>1. entry[i].queue = "retry" /\ entry' = Added(Without(i), Moved(entry[i], "out"))
  BY DEF RetryDispose, Waiting, Moved
<1>2. IsFiniteSet(DOMAIN entry)
  BY DEF WInv, TypeOK
<1>. QED BY <1>1, <1>2, Replaces

LEMMA RetryCrashView ==
    ASSUME WInv, NEW i \in DOMAIN entry, RetryCrash(i)
    PROVE  /\ DOMAIN entry' = DOMAIN entry \cup {NewId}
           /\ NewId \notin DOMAIN entry /\ NewId \in Nat
           /\ entry'[NewId] = Queued(entry[i], "out")
           /\ \A j \in DOMAIN entry : entry'[j] = entry[j]
<1>1. entry' = Enqueued(entry[i], "out")
  BY DEF RetryCrash
<1>2. IsFiniteSet(DOMAIN entry)
  BY DEF WInv, TypeOK
<1>. QED BY <1>1, <1>2, Adds

LEMMA UnshuntView ==
    ASSUME WInv, NEW i \in DOMAIN entry, Unshunt(i)
    PROVE  /\ entry[i].queue = "shunt"
           /\ DOMAIN entry' = DOMAIN entry /\ entry'[i] = Moved(entry[i], "out")
           /\ \A j \in DOMAIN entry \ {i} : entry'[j] = entry[j]
<1>1. entry[i].queue = "shunt" /\ entry' = [entry EXCEPT ![i] = Moved(entry[i], "out")]
  BY DEF Unshunt, Waiting, Moved
<1>. QED BY <1>1

LEMMA TickView ==
    ASSUME WInv, Tick
    PROVE  /\ DOMAIN entry' = DOMAIN entry
           /\ \A j \in DOMAIN entry : entry'[j] = Later(entry[j])
           /\ out.pc = "sending" => out' = LaterOut(out)
           /\ out.pc # "sending" => out' = out
           /\ UNCHANGED <<tx, database, bounces, history, got, faults>>
BY DEF Tick, LaterOut

--------------------------------------------------------------------------------
(***************************************************************************)
(* The invariants of delivery, action by action.                           *)
(***************************************************************************)
Good == WInv /\ CopiesPaid /\ ~twice

LEMMA DueFinite ==
    ASSUME TypeOK, NEW r
    PROVE  IsFiniteSet(Due(r)) /\ Cardinality(Due(r)) \in Nat
<1>1. Due(r) \in SUBSET DOMAIN entry
  BY DEF Due
<1>. QED BY <1>1, FS_Subset, FS_CardinalityType DEF TypeOK

(* No more copies than before, or as many more as there were faults.       *)
LEMMA PaidStep ==
    ASSUME Good, TypeOK', UNCHANGED outlets,
           \A r \in Everybody :
              \/ /\ got'[r] = got[r] /\ Due(r)' \subseteq Due(r)
                 /\ faults' = faults \/ faults' = faults + 1
              \/ /\ got'[r] = got[r] /\ \E i \in Due(r) : \E n : Due(r)' \subseteq (Due(r) \ {i}) \cup {n}
                 /\ faults' = faults \/ faults' = faults + 1
              \/ /\ got'[r] = got[r] /\ \E n : Due(r)' \subseteq Due(r) \cup {n}
                 /\ faults' = faults + 1
              \/ /\ got'[r] = got[r] + 1 /\ \E i \in Due(r) : Due(r)' \subseteq Due(r) \ {i}
                 /\ faults' = faults
              \/ /\ got'[r] = got[r] + 1 /\ Due(r)' \subseteq Due(r)
                 /\ faults' = faults + 1
    PROVE  CopiesPaid'
<1> SUFFICES ASSUME NEW r \in Everybody
             PROVE  (got[r] + Cardinality(Due(r)) + Pending(r) <= 1 + faults)'
  BY DEF CopiesPaid
<1>1. Pending(r)' = Pending(r) /\ Pending(r) \in Nat
  BY DEF outlets, archiveVars, Pending, ToStore
<1>2. /\ got[r] \in Nat /\ faults \in Nat
      /\ got[r] + Cardinality(Due(r)) + Pending(r) <= 1 + faults
  BY DEF Good, WInv, TypeOK, CopiesPaid
<1>3. IsFiniteSet(Due(r)) /\ Cardinality(Due(r)) \in Nat
  BY DueFinite DEF Good, WInv
<1> DEFINE D == Due(r)
           E == Due(r)'
           p == Pending(r)
<1>4. got'[r] + Cardinality(E) + p <= 1 + faults'
  <2> HIDE DEF D, E, p
  <2>0. /\ IsFiniteSet(D) /\ Cardinality(D) \in Nat /\ p \in Nat
        /\ got[r] + Cardinality(D) + p <= 1 + faults
    BY <1>1, <1>2, <1>3 DEF D, p
  <2>1. CASE /\ got'[r] = got[r] /\ E \subseteq D
             /\ faults' = faults \/ faults' = faults + 1
    <3>1. Cardinality(E) \in Nat /\ Cardinality(E) <= Cardinality(D)
      BY <2>0, <2>1, Shrunk
    <3>. QED BY <1>2, <2>0, <2>1, <3>1
  <2>2. CASE /\ got'[r] = got[r] /\ \E i \in D : \E n : E \subseteq (D \ {i}) \cup {n}
             /\ faults' = faults \/ faults' = faults + 1
    <3>1. Cardinality(E) \in Nat /\ Cardinality(E) <= Cardinality(D)
      BY <2>0, <2>2, Swapped
    <3>. QED BY <1>2, <2>0, <2>2, <3>1
  <2>3. CASE /\ got'[r] = got[r] /\ \E n : E \subseteq D \cup {n}
             /\ faults' = faults + 1
    <3>1. Cardinality(E) \in Nat /\ Cardinality(E) <= Cardinality(D) + 1
      BY <2>0, <2>3, Grown
    <3>. QED BY <1>2, <2>0, <2>3, <3>1
  <2>4. CASE /\ got'[r] = got[r] + 1 /\ \E i \in D : E \subseteq D \ {i}
             /\ faults' = faults
    <3>1. Cardinality(E) \in Nat /\ Cardinality(E) + 1 <= Cardinality(D)
      BY <2>0, <2>4, Fewer
    <3>. QED BY <1>2, <2>0, <2>4, <3>1
  <2>5. CASE /\ got'[r] = got[r] + 1 /\ E \subseteq D
             /\ faults' = faults + 1
    <3>1. Cardinality(E) \in Nat /\ Cardinality(E) <= Cardinality(D)
      BY <2>0, <2>5, Shrunk
    <3>. QED BY <1>2, <2>0, <2>5, <3>1
  <2>. QED BY <2>1, <2>2, <2>3, <2>4, <2>5 DEF D, E
<1>. QED BY <1>1, <1>4

LEMMA DequeueKeeps ==
    ASSUME Good, NEW i \in DOMAIN entry, Dequeue(i), UNCHANGED outlets
    PROVE  Good'
<1>1. /\ out.pc = "idle" /\ entry[i].queue = "out"
      /\ DOMAIN entry' = DOMAIN entry /\ entry'[i] = Claimed(entry[i])
      /\ \A j \in DOMAIN entry \ {i} : entry'[j] = entry[j]
  BY DequeueView DEF Good
<1>2. PICK single \in BOOLEAN, msg \in Entry :
         /\ Sound(msg) /\ SameMail(entry[i], msg) /\ ~msg.taken
         /\ single \/ msg.once
         /\ out' = Begun(i, entry[i].rcpts, single, msg)
  BY DequeueView DEF Good
<1>3. UNCHANGED <<tx, database, bounces, history, got, faults>>
  BY DEF Dequeue
<1>4. Sound(entry[i]) /\ i \in Nat /\ entry[i].rcpts \in SUBSET Everybody
  BY DEF Good, WInv, TypeOK, Sound, Entry
<1>5. /\ Sound(entry'[i]) /\ SameMail(entry[i], entry'[i])
      /\ entry'[i].queue = "out" /\ entry'[i].taken
  BY <1>1, <1>4, EntryFields DEF Queues
<1>6. /\ out' \in Work /\ out'.pc = "sending" /\ out'.id = i /\ out'.todo = entry[i].rcpts
      /\ out'.temp = {} /\ out'.perm = {} /\ out'.single = single /\ out'.msg = msg
  <2>1. out' = Begun(i, entry[i].rcpts, single, msg)
    BY <1>2
  <2>2. i \in Nat /\ entry[i].rcpts \in SUBSET Everybody /\ single \in BOOLEAN /\ msg \in Entry
    BY <1>4
  <2>. QED BY <2>1, <2>2, BegunFields
<1>7. TypeOK'
  BY <1>1, <1>3, <1>5, <1>6 DEF Good, WInv, TypeOK, database, bounces, history
<1>8. Sending'
  BY <1>1, <1>2, <1>5, <1>6 DEF Sending, AtHand, SameMail
<1>9. Disposed' /\ CleanTx'
  BY <1>1, <1>3, <1>6 DEF Disposed, CleanTx, Good, WInv
<1>10. \A r \in Everybody : got'[r] = got[r] /\ Due(r)' \subseteq Due(r)
  BY <1>1, <1>3, <1>5, <1>6 DEF Due, SameMail
<1>11. CopiesPaid'
  BY <1>3, <1>7, <1>10, PaidStep
<1>12. ~twice'
  BY <1>3 DEF history, Good
<1>. QED BY <1>7, <1>8, <1>9, <1>11, <1>12 DEF Good, WInv

LEMMA SendKeeps ==
    ASSUME Good, Send, UNCHANGED outlets
    PROVE  Good'
<1>1. PICK c, ok, temp, perm \in SUBSET out.todo : Tries(c, ok, temp, perm)
  BY SendView DEF Good
<1>2. PICK conn \in {"none", "open", "dead"} : out' = TriedBy(out, c, temp, perm, conn)
  BY <1>1 DEF Tries
<1>3. out \in Work /\ out.pc = "sending" /\ out.todo \subseteq Everybody
  BY <1>1 DEF Good, WInv, TypeOK, Work, Tries
<1>4. /\ out' \in Work /\ out'.pc = out.pc /\ out'.id = out.id /\ out'.todo = out.todo \ c
      /\ out'.temp = out.temp \cup temp /\ out'.perm = out.perm \cup perm
      /\ out'.single = out.single /\ out'.msg = out.msg
  <2>1. /\ temp \in SUBSET Everybody /\ perm \in SUBSET Everybody
        /\ conn \in {"none", "open", "dead"}
    BY <1>3
  <2>2. out' = TriedBy(out, c, temp, perm, conn)
    BY <1>2
  <2>. QED BY <1>3, <2>1, <2>2, TriedFields
<1>5. /\ ok \cup temp \cup perm = c
      /\ \A r \in Everybody : got'[r] = IF r \in ok THEN got[r] + 1 ELSE got[r]
      /\ got' \in [Everybody -> Nat]
      /\ twice' = (twice \/ (ok # {} /\ CopyDeco(out) # 1))
      /\ \/ temp \cap ok = {} /\ faults' = faults
         \/ faults' = faults + 1
      /\ UNCHANGED <<entry, tx, database, bounces, lost, givenUp, overlaps>>
  BY <1>1 DEF Tries
<1>6. /\ AtHand /\ Sound(out.msg) /\ ~out.msg.taken
      /\ out.msg.rcpts = entry[out.id].rcpts
      /\ out.msg.token = entry[out.id].token
      /\ out.single \/ out.msg.once
      /\ out.todo \cup out.temp \cup out.perm \subseteq out.msg.rcpts
      /\ out.todo \cap out.temp = {}
      /\ \A r \in out.msg.rcpts :
            r \in out.todo \cup out.temp \cup out.perm \/ got[r] > 0
      /\ got \in [Everybody -> Nat]
  BY <1>3 DEF Good, WInv, Sending, TypeOK
<1>7. TypeOK'
  BY <1>4, <1>5 DEF Good, WInv, TypeOK, database, bounces
<1>8. Sending'
  <2>1. AtHand'
    BY <1>4, <1>5, <1>6 DEF AtHand
  <2>2. \A r \in out.msg.rcpts :
            r \in out'.todo \cup out'.temp \cup out'.perm \/ got'[r] > 0
    <3>1. \A r \in out.msg.rcpts : r \in Everybody
      BY <1>6 DEF Sound, Entry
    <3>. QED BY <1>4, <1>5, <1>6, <3>1
  <2>3. /\ out'.todo \cup out'.temp \cup out'.perm \subseteq out.msg.rcpts
        /\ out'.todo \cap out'.temp = {}
    BY <1>4, <1>5, <1>6
  <2>4. Sound(out'.msg)
    BY <1>4, <1>6
  <2>. QED BY <1>4, <1>5, <1>6, <2>1, <2>2, <2>3, <2>4 DEF Sending
<1>9. Disposed' /\ CleanTx'
  BY <1>3, <1>4, <1>5 DEF Disposed, CleanTx, Good, WInv
<1>10. ASSUME NEW r \in Everybody
       PROVE  Due(r)' \subseteq Due(r)
  BY <1>4, <1>5, <1>6 DEF Due
<1>11. ASSUME NEW r \in ok, temp \cap ok = {}
       PROVE  out.id \in Due(r) /\ Due(r)' \subseteq Due(r) \ {out.id}
  <2>1. r \in out.todo /\ r \notin out'.todo \cup out'.temp
    BY <1>4, <1>5, <1>6, <1>11
  <2>2. out.id \in Due(r)
    BY <1>3, <1>6, <2>1 DEF Due, AtHand
  <2>3. out.id \notin Due(r)'
    BY <1>3, <1>4, <1>6, <2>1 DEF Due
  <2>. QED BY <1>3, <1>10, <2>1, <2>2, <2>3
<1>12. CopiesPaid'
  <2>1. ASSUME NEW r \in Everybody
        PROVE  \/ /\ got'[r] = got[r] /\ Due(r)' \subseteq Due(r)
                  /\ faults' = faults \/ faults' = faults + 1
               \/ /\ got'[r] = got[r] + 1 /\ \E i \in Due(r) : Due(r)' \subseteq Due(r) \ {i}
                  /\ faults' = faults
               \/ /\ got'[r] = got[r] + 1 /\ Due(r)' \subseteq Due(r)
                  /\ faults' = faults + 1
    BY <1>5, <1>10, <1>11
  <2>. QED BY <1>7, <2>1, PaidStep
<1>13. ~twice'
  <2>1. CopyDeco(out) = 1
    BY <1>6, DecoratedFields DEF CopyDeco, Sound
  <2>. QED BY <1>5, <2>1 DEF Good
<1>. QED BY <1>7, <1>8, <1>9, <1>12, <1>13 DEF Good, WInv

LEMMA ShuntKeeps ==
    ASSUME Good, out.pc = "sending", Shunted, faults' = faults \/ faults' = faults + 1,
           UNCHANGED <<database, bounces, lost, givenUp, twice, overlaps, got, outlets>>
    PROVE  Good'
<1>1. /\ DOMAIN entry' = (DOMAIN entry \ {out.id}) \cup {NewId}
      /\ NewId \notin DOMAIN entry /\ NewId \in Nat
      /\ entry'[NewId] = Moved(out.msg, "shunt")
      /\ \A j \in DOMAIN entry \ {out.id} : entry'[j] = entry[j]
      /\ out' = IdleOut /\ tx' = [tx EXCEPT !["out"] = NoTx]
  BY ShuntedView DEF Good
<1> DEFINE n == NewId
<1> HIDE DEF n
<1>2. /\ DOMAIN entry' = (DOMAIN entry \ {out.id}) \cup {n}
      /\ n \notin DOMAIN entry /\ n \in Nat /\ entry'[n] = Moved(out.msg, "shunt")
  BY <1>1 DEF n
<1>3. Sound(entry'[n]) /\ entry'[n].queue = "shunt"
  BY <1>2, EntryFields DEF Queues, Good, WInv, Sending
<1>4. IsFiniteSet(DOMAIN entry')
  BY <1>2, Grown DEF Good, WInv, TypeOK
<1>5. /\ out' \in Work /\ out'.pc = "idle"
      /\ tx' \in [Runners -> Tx] /\ tx'["out"] = NoTx
  BY <1>1, IdleFields, TxFields DEF Runners, Good, WInv, TypeOK
<1>6. TypeOK'
  BY <1>1, <1>2, <1>3, <1>4, <1>5 DEF Good, WInv, TypeOK, database, bounces
<1>7. Sending' /\ Disposed' /\ CleanTx'
  BY <1>5 DEF Sending, Disposed, CleanTx
<1>8. ASSUME NEW r \in Everybody
      PROVE  got'[r] = got[r] /\ Due(r)' \subseteq Due(r)
  BY <1>1, <1>2, <1>3, <1>5 DEF Due
<1>9. CopiesPaid'
  BY <1>6, <1>8, PaidStep
<1>. QED BY <1>6, <1>7, <1>9 DEF Good, WInv

LEMMA DisposeKeeps ==
    ASSUME Good, Dispose, UNCHANGED outlets
    PROVE  Good'
<1>1. /\ out.pc = "sending" /\ out.todo = {}
      /\ UNCHANGED <<database, bounces, lost, twice, got, faults>>
      /\ DisposeShunts \/ DisposeProbe \/ \E e : DisposePosting(e)
  BY DisposeView DEF Good
<1>2. /\ out \in Work /\ AtHand /\ Sound(out.msg)
      /\ out.msg.rcpts = entry[out.id].rcpts
      /\ out.msg.token = entry[out.id].token
      /\ out.temp \cup out.perm \subseteq out.msg.rcpts
      /\ \A r \in out.msg.rcpts : r \in out.temp \cup out.perm \/ got[r] > 0
      /\ out.perm \in SUBSET Everybody
      /\ "out" \in Runners
  BY <1>1 DEF Good, WInv, Sending, TypeOK, Work, Runners
<1>3. CASE DisposeShunts
  BY <1>1, <1>3, ShuntKeeps DEF DisposeShunts
<1>4. CASE DisposeProbe
  <2>1. /\ out.msg.token /\ UNCHANGED <<entry, givenUp>>
        /\ \/ UNCHANGED <<tx, overlaps>>
           \/ Confirm("out", {}, TRUE)
        /\ out' = AtStep(out, "finish")
    BY <1>4 DEF DisposeProbe
  <2>2. /\ out' \in Work /\ out'.pc = "finish" /\ out'.id = out.id
    BY <1>2, <2>1, StepFields
  <2>3. tx' \in [Runners -> Tx] /\ overlaps' \in Nat
    <3>1. CASE UNCHANGED <<tx, overlaps>>
      BY <3>1 DEF Good, WInv, TypeOK
    <3>2. CASE Confirm("out", {}, TRUE)
      <4>1. tx' = [tx EXCEPT !["out"] = ConfirmedTx({}, TRUE)]
        BY <3>2 DEF Confirm, ConfirmedTx
      <4>2. overlaps' = overlaps \/ overlaps' = overlaps + 1
        BY <3>2 DEF Confirm, Good, WInv, TypeOK
      <4>3. ConfirmedTx({}, TRUE) \in Tx
        BY TxFields
      <4>4. tx \in [Runners -> Tx] /\ overlaps \in Nat
        BY DEF Good, WInv, TypeOK
      <4> DEFINE t == ConfirmedTx({}, TRUE)
      <4> HIDE DEF t
      <4>5. tx' = [tx EXCEPT !["out"] = t] /\ t \in Tx
        BY <4>1, <4>3 DEF t
      <4>6. tx' \in [Runners -> Tx]
        BY <4>4, <4>5
      <4>7. overlaps' \in Nat
        BY <4>2, <4>4
      <4>. QED BY <4>6, <4>7
    <3>. QED BY <2>1, <3>1, <3>2
  <2>4. TypeOK'
    BY <1>1, <2>1, <2>2, <2>3 DEF Good, WInv, TypeOK, database, bounces
  <2>5. Sending' /\ CleanTx'
    BY <2>2 DEF Sending, CleanTx
  <2>6. Disposed'
    <3>1. entry[out.id].rcpts \cap Rcpts = {}
      BY <1>2, <2>1, DeliveryAssumption DEF Sound
    <3>. QED BY <1>2, <2>1, <2>2, <3>1 DEF Disposed, AtHand
  <2>7. ASSUME NEW r \in Everybody
        PROVE  got'[r] = got[r] /\ Due(r)' \subseteq Due(r)
    BY <1>1, <2>1, <2>2 DEF Due
  <2>8. CopiesPaid'
    BY <1>1, <2>4, <2>7, PaidStep
  <2>. QED BY <1>1, <2>4, <2>5, <2>6, <2>8 DEF Good, WInv
<1>5. ASSUME NEW e, DisposePosting(e)
      PROVE  Good'
  <2>1. /\ tx' = [tx EXCEPT !["out"] = Registered(out.perm)]
        /\ out' = AtStep(out, "finish")
        /\ UNCHANGED overlaps
    BY <1>5 DEF DisposePosting
  <2>2. /\ out' \in Work /\ out'.pc = "finish" /\ out'.id = out.id
    BY <1>2, <2>1, StepFields
  <2>3. tx' \in [Runners -> Tx] /\ tx'["out"].scored = out.perm
    BY <1>2, <2>1, TxFields DEF Good, WInv, TypeOK
  <2> DEFINE n == NewId
             Adding == /\ DOMAIN entry' = DOMAIN entry \cup {n}
                       /\ n \notin DOMAIN entry /\ n \in Nat
                       /\ \A i \in DOMAIN entry : entry'[i] = entry[i]
                       /\ entry'[n] = Queued(e, "retry") /\ Sound(e) /\ e.rcpts = out.temp
  <2>4. \/ Adding /\ givenUp' = givenUp
        \/ entry' = entry /\ givenUp' = givenUp \cup out.temp
        \/ entry' = entry /\ givenUp' = givenUp /\ out.temp = {}
    BY <1>5 DEF DisposePosting
  <2>5. Adding => /\ Sound(entry'[n]) /\ entry'[n].rcpts = out.temp
                  /\ entry'[n].queue = "retry" /\ IsFiniteSet(DOMAIN entry')
    <3> HIDE DEF n
    <3>1. ASSUME Adding
          PROVE  IsFiniteSet(DOMAIN entry')
      BY <3>1, Grown DEF Good, WInv, TypeOK
    <3>2. ASSUME Adding
          PROVE  /\ Sound(entry'[n]) /\ entry'[n].rcpts = out.temp
                 /\ entry'[n].queue = "retry"
      <4>1. Sound(e) /\ "retry" \in Queues
        BY <3>2 DEF Queues
      <4>2. /\ Sound(Queued(e, "retry")) /\ Queued(e, "retry").rcpts = e.rcpts
            /\ Queued(e, "retry").queue = "retry"
        BY <4>1, EntryFields DEF SameMail
      <4>. QED BY <3>2, <4>2
    <3>. QED BY <3>1, <3>2
  <2> HIDE DEF n
  <2>6. TypeOK'
    <3>1. /\ IsFiniteSet(DOMAIN entry') /\ DOMAIN entry' \subseteq Nat
          /\ \A i \in DOMAIN entry' : Sound(entry'[i])
      BY <2>4, <2>5 DEF Good, WInv, TypeOK
    <3>. QED BY <1>1, <2>1, <2>2, <2>3, <3>1 DEF Good, WInv, TypeOK, database, bounces
  <2>7. Sending' /\ CleanTx'
    BY <2>2 DEF Sending, CleanTx
  <2>8. Disposed'
    <3>1. out.id \in DOMAIN entry' /\ entry'[out.id] = entry[out.id]
      BY <1>2, <2>4 DEF AtHand
    <3>2. AtHand'
      BY <1>2, <2>2, <3>1 DEF AtHand
    <3>3. ASSUME NEW r \in entry[out.id].rcpts
          PROVE  \/ got'[r] > 0 \/ r \in tx'["out"].scored \/ r \in givenUp'
                 \/ \E j \in DOMAIN entry' \ {out.id} : r \in entry'[j].rcpts
      BY <1>1, <1>2, <2>3, <2>4, <2>5 DEF AtHand
    <3>. QED BY <2>2, <3>1, <3>2, <3>3 DEF Disposed, ElseWhere
  <2>9. ASSUME NEW r \in Everybody, r \in out.temp
        PROVE  out.id \in Due(r) /\ Due(r)' \subseteq (Due(r) \ {out.id}) \cup {n}
    <3>1. out.id \in Due(r)
      BY <1>1, <1>2, <2>9 DEF Due, AtHand
    <3>2. out.id \notin Due(r)'
      BY <2>2 DEF Due
    <3>3. Due(r)' \subseteq Due(r) \cup {n}
      BY <1>1, <2>2, <2>4 DEF Due
    <3>. QED BY <3>1, <3>2, <3>3
  <2>10. ASSUME NEW r \in Everybody, r \notin out.temp
        PROVE  Due(r)' \subseteq Due(r)
    BY <1>1, <2>2, <2>4, <2>5, <2>10 DEF Due
  <2>11. CopiesPaid'
    <3>1. ASSUME NEW r \in Everybody
          PROVE  \/ Due(r)' \subseteq Due(r)
                 \/ \E i \in Due(r) : \E x : Due(r)' \subseteq (Due(r) \ {i}) \cup {x}
      BY <2>9, <2>10
    <3>. QED BY <1>1, <2>6, <3>1, PaidStep
  <2>12. ~twice'
    BY <1>1 DEF Good
  <2>. QED BY <2>6, <2>7, <2>8, <2>11, <2>12 DEF Good, WInv
<1>. QED BY <1>1, <1>3, <1>4, <1>5

LEMMA CallbackFailsKeeps ==
    ASSUME Good, CallbackFails, UNCHANGED outlets
    PROVE  Good'
BY ShuntKeeps DEF CallbackFails, history

LEMMA FinishKeeps ==
    ASSUME Good, Finish, UNCHANGED outlets
    PROVE  Good'
<1>1. /\ out.pc = "finish" /\ AtHand
      /\ DOMAIN entry' = DOMAIN entry \ {out.id}
      /\ \A j \in DOMAIN entry \ {out.id} : entry'[j] = entry[j]
      /\ out' = AtStep(IdleOut, "commit")
      /\ UNCHANGED <<tx, database, bounces, history, got, faults>>
  BY FinishView DEF Good
<1>2. out' \in Work /\ out'.pc = "commit"
  BY <1>1, IdleFields
<1>3. IsFiniteSet(DOMAIN entry')
  BY <1>1, Shrunk DEF Good, WInv, TypeOK
<1>4. TypeOK'
  BY <1>1, <1>2, <1>3 DEF Good, WInv, TypeOK, database, bounces, history
<1>5. Sending' /\ Disposed' /\ CleanTx'
  BY <1>2 DEF Sending, Disposed, CleanTx
<1>6. ASSUME NEW r \in Everybody
      PROVE  got'[r] = got[r] /\ Due(r)' \subseteq Due(r)
  BY <1>1, <1>2 DEF Due
<1>7. CopiesPaid'
  BY <1>1, <1>4, <1>6, PaidStep
<1>8. ~twice'
  BY <1>1 DEF history, Good
<1>. QED BY <1>4, <1>5, <1>7, <1>8 DEF Good, WInv

LEMMA CrashKeeps ==
    ASSUME Good, Crash, UNCHANGED outlets
    PROVE  Good'
<1>1. /\ out.pc # "idle" /\ faults' = faults + 1
      /\ DOMAIN entry' = DOMAIN entry
      /\ \A j \in DOMAIN entry : entry'[j] = entry[j] \/ entry'[j] = Free(entry[j])
      /\ \A j \in DOMAIN entry \ {out.id} : entry'[j] = entry[j]
      /\ out' = IdleOut /\ tx' = [tx EXCEPT !["out"] = NoTx]
      /\ UNCHANGED <<database, bounces, givenUp, twice, overlaps, got>>
  BY CrashView DEF Good
<1>2. /\ out' \in Work /\ out'.pc = "idle"
      /\ tx' \in [Runners -> Tx] /\ tx'["out"] = NoTx
  BY <1>1, IdleFields, TxFields DEF Runners, Good, WInv, TypeOK
<1>3. \A j \in DOMAIN entry : /\ Sound(entry'[j]) /\ entry'[j].rcpts = entry[j].rcpts
                              /\ entry'[j].queue = entry[j].queue
  <2> SUFFICES ASSUME NEW j \in DOMAIN entry
               PROVE  /\ Sound(entry'[j]) /\ entry'[j].rcpts = entry[j].rcpts
                      /\ entry'[j].queue = entry[j].queue
    OBVIOUS
  <2>1. Sound(entry[j])
    BY DEF Good, WInv, TypeOK
  <2>2. Sound(Free(entry[j])) /\ SameMail(entry[j], Free(entry[j])) /\ Free(entry[j]).queue = entry[j].queue
    <3>1. "out" \in Queues
      BY DEF Queues
    <3>. QED BY <2>1, <3>1, EntryFields
  <2>. QED BY <1>1, <2>1, <2>2 DEF SameMail
<1>4. TypeOK'
  BY <1>1, <1>2, <1>3 DEF Good, WInv, TypeOK, database, bounces
<1>5. Sending' /\ Disposed' /\ CleanTx'
  BY <1>2 DEF Sending, Disposed, CleanTx
<1>6. ASSUME NEW r \in Everybody
      PROVE  got'[r] = got[r] /\ Due(r)' \subseteq Due(r) \cup {out.id}
  BY <1>1, <1>2, <1>3 DEF Due
<1>7. CopiesPaid'
  BY <1>1, <1>4, <1>6, PaidStep
<1>. QED BY <1>1, <1>4, <1>5, <1>7 DEF Good, WInv

(* The runner has the entry at hand for itself.                            *)
LEMMA NotAtHand ==
    ASSUME WInv, NEW i, entry[i].queue # "out"
    PROVE  out.pc \in {"sending", "finish"} => i # out.id
BY DEF WInv, Sending, Disposed, AtHand

LEMMA RetryDisposeKeeps ==
    ASSUME Good, NEW i \in DOMAIN entry, RetryDispose(i), UNCHANGED outlets
    PROVE  Good'
<1> DEFINE n == NewId
<1>1. /\ entry[i].queue = "retry"
      /\ DOMAIN entry' = (DOMAIN entry \ {i}) \cup {n}
      /\ n \notin DOMAIN entry /\ n \in Nat /\ entry'[n] = Moved(entry[i], "out")
      /\ \A j \in DOMAIN entry \ {i} : entry'[j] = entry[j]
  BY RetryView DEF Good
<1> HIDE DEF n
<1>2. UNCHANGED <<out, tx, database, bounces, history, got, faults>>
  BY DEF RetryDispose
<1>3. out.pc \in {"sending", "finish"} => i # out.id
  BY <1>1, NotAtHand DEF Good
<1>4. /\ Sound(entry'[n]) /\ entry'[n].rcpts = entry[i].rcpts /\ entry'[n].queue = "out"
  <2>1. Sound(entry[i]) /\ "out" \in Queues
    BY DEF Good, WInv, TypeOK, Queues
  <2>2. /\ Sound(Moved(entry[i], "out")) /\ Moved(entry[i], "out").rcpts = entry[i].rcpts
        /\ Moved(entry[i], "out").queue = "out"
    BY <2>1, EntryFields DEF SameMail
  <2>. QED BY <1>1, <2>2
<1>5. IsFiniteSet(DOMAIN entry')
  BY <1>1, Grown DEF Good, WInv, TypeOK
<1>6. TypeOK'
  <2>1. \A j \in DOMAIN entry' : Sound(entry'[j])
    BY <1>1, <1>4 DEF Good, WInv, TypeOK
  <2>2. DOMAIN entry' \subseteq Nat
    BY <1>1 DEF Good, WInv, TypeOK
  <2>. QED BY <1>2, <1>5, <2>1, <2>2 DEF Good, WInv, TypeOK, database, bounces, history
<1>7. Sending'
  BY <1>1, <1>2, <1>3 DEF Sending, AtHand, Good, WInv
<1>8. Disposed'
  <2>1. SUFFICES ASSUME out.pc = "finish"
                 PROVE  /\ AtHand'
                        /\ \A r \in entry[out.id].rcpts \cap Rcpts :
                              \/ got[r] > 0 \/ r \in tx["out"].scored \/ r \in givenUp
                              \/ \E j \in DOMAIN entry' \ {out.id} : r \in entry'[j].rcpts
    BY <1>1, <1>2, <1>3 DEF Disposed, ElseWhere, history, AtHand, Good, WInv
  <2>2. AtHand'
    BY <1>1, <1>2, <1>3, <2>1 DEF Disposed, AtHand, Good, WInv
  <2>3. ASSUME NEW r, NEW j \in DOMAIN entry \ {out.id}, r \in entry[j].rcpts
        PROVE  \E k \in DOMAIN entry' \ {out.id} : r \in entry'[k].rcpts
    <3>1. CASE j = i
      <4>1. n # out.id /\ n \in DOMAIN entry' /\ r \in entry'[n].rcpts
        BY <1>1, <1>4, <2>1, <2>3, <3>1 DEF Disposed, AtHand, Good, WInv
      <4>. QED BY <4>1
    <3>2. CASE j # i
      BY <1>1, <2>3, <3>2
    <3>. QED BY <3>1, <3>2
  <2>. QED BY <2>1, <2>2, <2>3 DEF Disposed, ElseWhere, Good, WInv
<1>9. CleanTx'
  BY <1>2 DEF CleanTx, Good, WInv
<1>10. ASSUME NEW r \in Everybody, r \in entry[i].rcpts
       PROVE  i \in Due(r) /\ Due(r)' \subseteq (Due(r) \ {i}) \cup {n}
  BY <1>1, <1>2, <1>3, <1>10 DEF Due
<1>11. ASSUME NEW r \in Everybody, r \notin entry[i].rcpts
       PROVE  Due(r)' \subseteq Due(r)
  BY <1>1, <1>2, <1>3, <1>4, <1>11 DEF Due
<1>12. CopiesPaid'
  <2>1. ASSUME NEW r \in Everybody
        PROVE  \/ Due(r)' \subseteq Due(r)
               \/ \E k \in Due(r) : \E x : Due(r)' \subseteq (Due(r) \ {k}) \cup {x}
    BY <1>10, <1>11
  <2>. QED BY <1>2, <1>6, <2>1, PaidStep
<1>13. ~twice'
  BY <1>2 DEF history, Good
<1>. QED BY <1>6, <1>7, <1>8, <1>9, <1>12, <1>13 DEF Good, WInv

LEMMA RetryCrashKeeps ==
    ASSUME Good, NEW i \in DOMAIN entry, RetryCrash(i), UNCHANGED outlets
    PROVE  Good'
<1> DEFINE n == NewId
<1>1. /\ DOMAIN entry' = DOMAIN entry \cup {n}
      /\ n \notin DOMAIN entry /\ n \in Nat /\ entry'[n] = Queued(entry[i], "out")
      /\ \A j \in DOMAIN entry : entry'[j] = entry[j]
  BY RetryCrashView DEF Good
<1> HIDE DEF n
<1>2. UNCHANGED <<out, tx, database, bounces, history, got>> /\ faults' = faults + 1
  BY DEF RetryCrash
<1>3. Sound(entry'[n])
  <2>1. Sound(entry[i]) /\ "out" \in Queues
    BY DEF Good, WInv, TypeOK, Queues
  <2>2. Sound(Queued(entry[i], "out"))
    BY <2>1, EntryFields
  <2>. QED BY <1>1, <2>2
<1>4. IsFiniteSet(DOMAIN entry')
  BY <1>1, Grown DEF Good, WInv, TypeOK
<1>5. TypeOK'
  BY <1>1, <1>2, <1>3, <1>4 DEF Good, WInv, TypeOK, database, bounces, history
<1>6. Sending' /\ CleanTx'
  BY <1>1, <1>2 DEF Sending, CleanTx, AtHand, Good, WInv
<1>7. Disposed'
  BY <1>1, <1>2 DEF Disposed, ElseWhere, AtHand, Good, WInv, history
<1>8. ASSUME NEW r \in Everybody
      PROVE  Due(r)' \subseteq Due(r) \cup {n}
  BY <1>1, <1>2 DEF Due
<1>9. CopiesPaid'
  BY <1>2, <1>5, <1>8, PaidStep
<1>10. ~twice'
  BY <1>2 DEF history, Good
<1>. QED BY <1>5, <1>6, <1>7, <1>9, <1>10 DEF Good, WInv

LEMMA UnshuntKeeps ==
    ASSUME Good, NEW i \in DOMAIN entry, Unshunt(i), UNCHANGED outlets
    PROVE  Good'
<1>1. /\ entry[i].queue = "shunt"
      /\ DOMAIN entry' = DOMAIN entry /\ entry'[i] = Moved(entry[i], "out")
      /\ \A j \in DOMAIN entry \ {i} : entry'[j] = entry[j]
  BY UnshuntView DEF Good
<1>2. UNCHANGED <<out, tx, database, bounces, history, got>> /\ faults' = faults + 1
  BY DEF Unshunt
<1>3. out.pc \in {"sending", "finish"} => i # out.id
  BY <1>1, NotAtHand DEF Good
<1>4. Sound(entry'[i]) /\ entry'[i].rcpts = entry[i].rcpts
  <2>1. Sound(entry[i]) /\ "out" \in Queues
    BY DEF Good, WInv, TypeOK, Queues
  <2>2. Sound(Moved(entry[i], "out")) /\ Moved(entry[i], "out").rcpts = entry[i].rcpts
    BY <2>1, EntryFields DEF SameMail
  <2>. QED BY <1>1, <2>2
<1>5. TypeOK'
  BY <1>1, <1>2, <1>4 DEF Good, WInv, TypeOK, database, bounces, history
<1>6. Sending' /\ CleanTx'
  BY <1>1, <1>2, <1>3 DEF Sending, CleanTx, AtHand, Good, WInv
<1>7. Disposed'
  <2>1. \A j \in DOMAIN entry : entry'[j].rcpts = entry[j].rcpts
    BY <1>1, <1>4
  <2>. QED BY <1>1, <1>2, <1>3, <2>1 DEF Disposed, ElseWhere, AtHand, Good, WInv, history
<1>8. ASSUME NEW r \in Everybody
      PROVE  Due(r)' \subseteq Due(r) \cup {i}
  BY <1>1, <1>2 DEF Due
<1>9. CopiesPaid'
  BY <1>2, <1>5, <1>8, PaidStep
<1>10. ~twice'
  BY <1>2 DEF history, Good
<1>. QED BY <1>5, <1>6, <1>7, <1>9, <1>10 DEF Good, WInv

LEMMA TickKeeps ==
    ASSUME Good, Tick, UNCHANGED outlets
    PROVE  Good'
<1>1. /\ DOMAIN entry' = DOMAIN entry
      /\ \A j \in DOMAIN entry : entry'[j] = Later(entry[j])
      /\ out.pc = "sending" => out' = LaterOut(out)
      /\ out.pc # "sending" => out' = out
      /\ UNCHANGED <<tx, database, bounces, history, got, faults>>
  BY TickView DEF Good
<1>2. \A j \in DOMAIN entry :
         /\ Sound(entry'[j]) /\ entry'[j].rcpts = entry[j].rcpts
         /\ entry'[j].token = entry[j].token
         /\ entry'[j].queue = entry[j].queue /\ entry'[j].taken = entry[j].taken
  <2> SUFFICES ASSUME NEW j \in DOMAIN entry
               PROVE  /\ Sound(entry'[j]) /\ entry'[j].rcpts = entry[j].rcpts
                      /\ entry'[j].token = entry[j].token
                      /\ entry'[j].queue = entry[j].queue /\ entry'[j].taken = entry[j].taken
    OBVIOUS
  <2>1. Sound(entry[j])
    BY DEF Good, WInv, TypeOK
  <2> DEFINE e == Later(entry[j])
  <2>2. /\ Sound(e) /\ SameMail(entry[j], e) /\ e.queue = entry[j].queue
        /\ e.taken = entry[j].taken
    BY <2>1, LaterFields
  <2>. QED BY <1>1, <2>2 DEF SameMail
<1>3. ASSUME out.pc = "sending"
      PROVE  /\ out' \in Work /\ out'.pc = out.pc /\ out'.id = out.id /\ out'.todo = out.todo
             /\ out'.temp = out.temp /\ out'.perm = out.perm
             /\ out'.single = out.single /\ out'.msg = Later(out.msg)
  BY <1>1, <1>3, LaterOutFields DEF Good, WInv, TypeOK, Sending
<1>4. /\ out' \in Work /\ out'.pc = out.pc /\ out'.id = out.id /\ out'.todo = out.todo
      /\ out'.temp = out.temp
  BY <1>1, <1>3 DEF Good, WInv, TypeOK
<1>5. TypeOK'
  BY <1>1, <1>2, <1>4 DEF Good, WInv, TypeOK, database, bounces, history
<1>6. Sending'
  <2>1. SUFFICES ASSUME out.pc = "sending"
                 PROVE  Sending'
    BY <1>4 DEF Sending
  <2>2. /\ AtHand /\ Sound(out.msg) /\ ~out.msg.taken
        /\ out.msg.rcpts = entry[out.id].rcpts
        /\ out.msg.token = entry[out.id].token
        /\ out.single \/ out.msg.once
        /\ out.todo \cup out.temp \cup out.perm \subseteq out.msg.rcpts
        /\ out.todo \cap out.temp = {}
        /\ \A r \in out.msg.rcpts :
              r \in out.todo \cup out.temp \cup out.perm \/ got[r] > 0
    BY <2>1 DEF Sending, Good, WInv
  <2>3. /\ Sound(out'.msg) /\ out'.msg.rcpts = out.msg.rcpts /\ out'.msg.token = out.msg.token
        /\ out'.msg.taken = out.msg.taken /\ out'.msg.once = out.msg.once
    BY <1>3, <2>1, <2>2, LaterFields DEF SameMail
  <2>4. AtHand'
    BY <1>1, <1>2, <1>4, <2>2 DEF AtHand
  <2>5. /\ out'.msg.rcpts = entry'[out'.id].rcpts /\ out'.msg.token = entry'[out'.id].token
    BY <1>2, <1>4, <2>2, <2>3 DEF AtHand
  <2>. QED BY <1>1, <1>3, <2>1, <2>2, <2>3, <2>4, <2>5 DEF Sending
<1>7. Disposed'
  BY <1>1, <1>2, <1>4 DEF Disposed, ElseWhere, AtHand, Good, WInv, history
<1>8. CleanTx'
  BY <1>1, <1>4 DEF CleanTx, Good, WInv
<1>9. ASSUME NEW r \in Everybody
      PROVE  Due(r)' \subseteq Due(r)
  BY <1>1, <1>2, <1>4 DEF Due
<1>10. CopiesPaid'
  BY <1>1, <1>5, <1>9, PaidStep
<1>11. ~twice'
  BY <1>1 DEF history, Good
<1>. QED BY <1>5, <1>6, <1>7, <1>8, <1>10, <1>11 DEF Good, WInv

(* What changes nothing but a transaction and what is committed.           *)
LEMMA BesideKeeps ==
    ASSUME Good, TypeOK', UNCHANGED <<entry, got, givenUp, twice, outlets>>,
           \/ out' = out /\ tx'["out"] = tx["out"]
           \/ out.pc = "commit" /\ out' = IdleOut /\ tx'["out"] = NoTx,
           faults' = faults \/ faults' = faults + 1
    PROVE  Good'
<1>1. IdleOut.pc = "idle"
  BY IdleFields
<1>2. Sending' /\ Disposed' /\ CleanTx'
  BY <1>1 DEF Sending, Disposed, ElseWhere, CleanTx, AtHand, Good, WInv
<1>3. ASSUME NEW r \in Everybody
      PROVE  Due(r)' \subseteq Due(r)
  BY <1>1 DEF Due
<1>4. CopiesPaid'
  BY <1>3, PaidStep
<1>. QED BY <1>2, <1>4 DEF Good, WInv

LEMMA CommittedView ==
    ASSUME TypeOK, NEW x \in Runners, Committed(x)
    PROVE  /\ scored' = scored \cup tx[x].scored /\ scored' \subseteq Everybody
           /\ probes' \in Nat
           /\ probes' = probes + IF tx[x].probe THEN 1 ELSE 0
           /\ token' => token /\ ~tx[x].confirmed
           /\ {token', member'} \subseteq BOOLEAN
           /\ tx' = [tx EXCEPT ![x] = NoTx] /\ tx' \in [Runners -> Tx]
<1>1. tx[x] \in Tx /\ tx \in [Runners -> Tx]
  BY DEF TypeOK
<1>2. /\ scored' = scored \cup tx[x].scored
      /\ probes' = probes + IF tx[x].probe THEN 1 ELSE 0
      /\ tx' = [tx EXCEPT ![x] = NoTx]
      /\ token' = (token /\ ~tx[x].confirmed) /\ member' = member
  BY DEF Committed
<1>3. scored' \subseteq Everybody
  BY <1>1, <1>2 DEF TypeOK, Tx
<1>4. probes' \in Nat
  BY <1>2 DEF TypeOK
<1>5. tx' \in [Runners -> Tx]
  BY <1>1, <1>2, TxFields
<1>6. token' \in BOOLEAN /\ member' \in BOOLEAN
  BY <1>2 DEF TypeOK
<1>. QED BY <1>2, <1>3, <1>4, <1>5, <1>6

LEMMA CommitKeeps ==
    ASSUME Good, Commit, UNCHANGED outlets
    PROVE  Good'
<1>1. /\ out.pc = "commit" /\ out' = IdleOut /\ Committed("out")
      /\ UNCHANGED <<entry, bounces, history, got, faults>>
  BY DEF Commit
<1>2. "out" \in Runners
  BY DEF Runners
<1>3. /\ scored' \subseteq Everybody /\ probes' \in Nat
      /\ {token', member'} \subseteq BOOLEAN
      /\ tx' = [tx EXCEPT !["out"] = NoTx] /\ tx' \in [Runners -> Tx]
  BY <1>1, <1>2, CommittedView DEF Good, WInv
<1>4. TypeOK'
  BY <1>1, <1>3, IdleFields DEF Good, WInv, TypeOK, bounces, history
<1>5. tx'["out"] = NoTx
  BY <1>2, <1>3 DEF Good, WInv, TypeOK
<1>. QED BY <1>1, <1>4, <1>5, BesideKeeps DEF history

LEMMA BounceCommitKeeps ==
    ASSUME Good, NEW b \in Slices, BounceCommit(b), UNCHANGED outlets
    PROVE  Good'
<1>1. /\ Committed(b) /\ UNCHANGED <<entry, out, bounces, history, got, faults>>
  BY DEF BounceCommit
<1>2. b \in Runners /\ b # "out"
  BY DeliveryAssumption DEF Runners
<1>3. /\ scored' \subseteq Everybody /\ probes' \in Nat
      /\ {token', member'} \subseteq BOOLEAN
      /\ tx' = [tx EXCEPT ![b] = NoTx] /\ tx' \in [Runners -> Tx]
  BY <1>1, <1>2, CommittedView DEF Good, WInv
<1>4. TypeOK'
  BY <1>1, <1>3 DEF Good, WInv, TypeOK, bounces, history
<1>5. tx'["out"] = tx["out"]
  BY <1>2, <1>3 DEF Good, WInv, TypeOK, Runners
<1>. QED BY <1>1, <1>4, <1>5, BesideKeeps DEF history

LEMMA BounceCrashKeeps ==
    ASSUME Good, NEW b \in Slices, BounceCrash(b), UNCHANGED outlets
    PROVE  Good'
<1>1. /\ tx' = [tx EXCEPT ![b] = NoTx] /\ faults' = faults + 1
      /\ UNCHANGED <<entry, out, database, bounces, givenUp, twice, overlaps, got>>
  BY DEF BounceCrash
<1>2. b \in Runners /\ b # "out"
  BY DeliveryAssumption DEF Runners
<1>3. tx' \in [Runners -> Tx] /\ tx'["out"] = tx["out"]
  BY <1>1, <1>2, TxFields DEF Good, WInv, TypeOK, Runners
<1>4. TypeOK'
  BY <1>1, <1>3 DEF Good, WInv, TypeOK, database, bounces
<1>. QED BY <1>1, <1>3, <1>4, BesideKeeps

LEMMA ReturnKeeps ==
    ASSUME Good, NEW r \in Everybody, Return(r), UNCHANGED outlets
    PROVE  Good'
<1>1. UNCHANGED <<entry, out, tx, database, history, got, faults>>
  BY DEF Return
<1>2. \A d \in returned' : d.who \in Everybody
  BY DEF Return, Good, WInv, TypeOK
<1>3. TypeOK'
  BY <1>1, <1>2 DEF Good, WInv, TypeOK, database, history
<1>. QED BY <1>1, <1>3, BesideKeeps DEF history

LEMMA UnsubscribeKeeps ==
    ASSUME Good, Unsubscribe, UNCHANGED outlets
    PROVE  Good'
<1>1. member' = FALSE /\ UNCHANGED <<entry, out, tx, token, scored, probes, bounces, history, got, faults>>
  BY DEF Unsubscribe
<1>2. TypeOK'
  BY <1>1 DEF Good, WInv, TypeOK, bounces, history
<1>. QED BY <1>1, <1>2, BesideKeeps DEF history

(* The bounce runner registers an address, or confirms the token.          *)
LEMMA BounceView ==
    ASSUME TypeOK, NEW b \in Slices, NEW d \in returned, BounceDispose(b, d)
    PROVE  /\ tx[b] = NoTx
           /\ UNCHANGED <<entry, out, database, returns, lost, givenUp, twice, got, faults>>
           /\ \/ UNCHANGED <<tx, overlaps>>
              \/ /\ \E S \in SUBSET Everybody : tx' = [tx EXCEPT ![b] = Registered(S)]
                 /\ UNCHANGED overlaps
              \/ /\ token
                 /\ \E S \in SUBSET Everybody, event \in BOOLEAN : Confirm(b, S, event)
           /\ \A x \in returned' : x.who \in Everybody
<1>1. /\ tx[b] = NoTx /\ returned' = returned \ {d}
      /\ IF ProcessBounces THEN GetVerp(b, d) ELSE UNCHANGED <<tx, overlaps>>
      /\ UNCHANGED <<entry, out, database, returns, lost, givenUp, twice, got, faults>>
  BY DEF BounceDispose
<1>2. d.who \in Everybody /\ \A x \in returned' : x.who \in Everybody
  BY <1>1 DEF TypeOK
<1>3. ASSUME GetVerp(b, d)
      PROVE  \/ UNCHANGED <<tx, overlaps>>
             \/ \E S \in SUBSET Everybody : Register(b, S) /\ UNCHANGED overlaps
             \/ token /\ \E S \in SUBSET Everybody, event \in BOOLEAN : Confirm(b, S, event)
  <2>1. CASE d.sort = "failed"
    <3>1. Register(b, {d.who}) /\ UNCHANGED overlaps
      BY <1>3, <2>1, Zenon DEF GetVerp
    <3>. QED BY <1>2, <3>1
  <2>2. CASE d.sort = "other"
    BY <1>3, <2>2 DEF GetVerp
  <2>3. CASE d.sort = "probe" /\ token /\ member
    BY <1>3, <2>3 DEF GetVerp
  <2>4. CASE d.sort = "probe" /\ token /\ ~member
    <3>1. \E S \in SUBSET {d.who} : Confirm(b, S, FALSE)
      BY <1>3, <2>4 DEF GetVerp
    <3>. QED BY <1>2, <2>4, <3>1
  <2>5. CASE d.sort \notin {"failed", "other"} /\ ~(d.sort = "probe" /\ token)
    <3>1. \E S \in SUBSET {d.who} : Register(b, S) /\ UNCHANGED overlaps
      BY <1>3, <2>5 DEF GetVerp
    <3>. QED BY <1>2, <3>1
  <2>. QED BY <2>1, <2>2, <2>3, <2>4, <2>5
<1>. QED BY <1>1, <1>2, <1>3 DEF Register, Registered

LEMMA BounceDisposeKeeps ==
    ASSUME Good, NEW b \in Slices, NEW d \in returned, BounceDispose(b, d), UNCHANGED outlets
    PROVE  Good'
<1>1. /\ UNCHANGED <<entry, out, database, returns, lost, givenUp, twice, got, faults>>
      /\ \/ UNCHANGED <<tx, overlaps>>
         \/ /\ \E S \in SUBSET Everybody : tx' = [tx EXCEPT ![b] = Registered(S)]
            /\ UNCHANGED overlaps
         \/ \E S \in SUBSET Everybody, event \in BOOLEAN : Confirm(b, S, event)
      /\ \A x \in returned' : x.who \in Everybody
  BY BounceView DEF Good, WInv
<1>2. b \in Runners /\ b # "out" /\ "out" \in Runners
  BY DeliveryAssumption DEF Runners
<1>3. tx \in [Runners -> Tx] /\ overlaps \in Nat
  BY DEF Good, WInv, TypeOK
<1>4. tx' \in [Runners -> Tx] /\ tx'["out"] = tx["out"] /\ overlaps' \in Nat
  <2>1. CASE UNCHANGED <<tx, overlaps>>
    BY <1>3, <2>1
  <2>2. ASSUME NEW S \in SUBSET Everybody, tx' = [tx EXCEPT ![b] = Registered(S)], UNCHANGED overlaps
        PROVE  tx' \in [Runners -> Tx] /\ tx'["out"] = tx["out"] /\ overlaps' \in Nat
    <3>1. Registered(S) \in Tx
      BY TxFields
    <3>. QED BY <1>2, <1>3, <2>2, <3>1
  <2>3. ASSUME NEW S \in SUBSET Everybody, NEW event \in BOOLEAN, Confirm(b, S, event)
        PROVE  tx' \in [Runners -> Tx] /\ tx'["out"] = tx["out"] /\ overlaps' \in Nat
    <3> DEFINE t == ConfirmedTx(S, event)
    <3>1. t \in Tx
      BY TxFields
    <3>2. /\ tx' = [tx EXCEPT ![b] = t]
          /\ overlaps' = overlaps \/ overlaps' = overlaps + 1
      BY <1>3, <2>3 DEF Confirm, ConfirmedTx
    <3> HIDE DEF t
    <3>. QED BY <1>2, <1>3, <3>1, <3>2
  <2>. QED BY <1>1, <2>1, <2>2, <2>3
<1>5. TypeOK'
  BY <1>1, <1>4 DEF Good, WInv, TypeOK, database
<1>. QED BY <1>1, <1>4, <1>5, BesideKeeps

--------------------------------------------------------------------------------
(***************************************************************************)
(* A failed probe is paid for by the token, or by transactions that        *)
(* overlap.                                                                *)
(***************************************************************************)
LEMMA ProbingFinite ==
    IsFiniteSet(Probing) /\ Cardinality(Probing) \in Nat
<1>1. IsFiniteSet(Runners)
  BY DeliveryAssumption, FS_AddElement DEF Runners
<1>2. Probing \subseteq Runners
  BY DEF Probing
<1>. QED BY <1>1, <1>2, Shrunk

LEMMA ProbesSame ==
    ASSUME ProbesPaid, UNCHANGED <<tx, token, probes, overlaps>>
    PROVE  ProbesPaid'
BY DEF ProbesPaid, Probing

LEMMA ProbesCleared ==
    ASSUME TypeOK, ProbesPaid, NEW x \in Runners, NEW t, ~t.probe,
           tx' = [tx EXCEPT ![x] = t], UNCHANGED <<token, probes, overlaps>>
    PROVE  ProbesPaid'
<1>1. tx \in [Runners -> Tx] /\ probes \in Nat /\ overlaps \in Nat
  BY DEF TypeOK
<1>2. Probing' \subseteq Probing
  BY <1>1 DEF Probing
<1>3. Cardinality(Probing') \in Nat /\ Cardinality(Probing') <= Cardinality(Probing)
  BY <1>2, ProbingFinite, Shrunk
<1>4. \A y \in Runners : tx'[y].probe => tx'[y].confirmed
  BY <1>1 DEF ProbesPaid
<1>5. probes + Cardinality(Probing) <= 1 + overlaps /\ Cardinality(Probing) \in Nat
  BY ProbingFinite DEF ProbesPaid
<1>6. probes' + Cardinality(Probing') <= 1 + overlaps'
  BY <1>1, <1>3, <1>5
<1>. QED BY <1>4, <1>6 DEF ProbesPaid

LEMMA ProbesConfirmed ==
    ASSUME TypeOK, ProbesPaid, NEW x \in Runners, NEW S \in SUBSET Everybody, NEW event \in BOOLEAN,
           token, Confirm(x, S, event), UNCHANGED <<token, probes>>
    PROVE  ProbesPaid'
<1>1. tx \in [Runners -> Tx] /\ probes \in Nat /\ overlaps \in Nat
  BY DEF TypeOK
<1> DEFINE t == ConfirmedTx(S, event)
<1>2. tx' = [tx EXCEPT ![x] = t] /\ t.confirmed
  BY TxFields DEF Confirm, ConfirmedTx
<1> HIDE DEF t
<1>3. probes = 0 /\ probes' = 0
  BY DEF ProbesPaid
<1>4. Cardinality(Probing) \in Nat /\ Cardinality(Probing) <= 1 + overlaps
  BY <1>1, <1>3, ProbingFinite DEF ProbesPaid
<1>5. CASE \E y \in Runners \ {x} : tx[y].confirmed
  <2>1. overlaps' = overlaps + 1
    BY <1>5 DEF Confirm
  <2>2. Probing' \subseteq Probing \cup {x}
    BY <1>1, <1>2 DEF Probing
  <2>3. Cardinality(Probing') \in Nat /\ Cardinality(Probing') <= Cardinality(Probing) + 1
    BY <2>2, ProbingFinite, Grown
  <2>4. \A y \in Runners : tx'[y].probe => tx'[y].confirmed
    BY <1>1, <1>2 DEF ProbesPaid
  <2>5. probes' + Cardinality(Probing') <= 1 + overlaps'
    BY <1>1, <1>3, <1>4, <2>1, <2>3
  <2>. QED BY <1>3, <2>4, <2>5 DEF ProbesPaid
<1>6. CASE ~ \E y \in Runners \ {x} : tx[y].confirmed
  <2>1. overlaps' \in Nat
    BY <1>1, <1>6 DEF Confirm
  <2>2. Probing' \subseteq {x}
    BY <1>1, <1>2, <1>6 DEF Probing, ProbesPaid
  <2>3. Cardinality(Probing') \in Nat /\ Cardinality(Probing') <= 1
    <3>1. IsFiniteSet({x}) /\ Cardinality({x}) = 1
      BY FS_Singleton
    <3>. QED BY <2>2, <3>1, Shrunk
  <2>4. \A y \in Runners : tx'[y].probe => tx'[y].confirmed
    BY <1>1, <1>2 DEF ProbesPaid
  <2>5. probes' + Cardinality(Probing') <= 1 + overlaps'
    BY <1>3, <2>1, <2>3
  <2>. QED BY <1>3, <2>4, <2>5 DEF ProbesPaid
<1>. QED BY <1>5, <1>6

LEMMA ProbesCommitted ==
    ASSUME TypeOK, ProbesPaid, NEW x \in Runners, Committed(x), UNCHANGED overlaps
    PROVE  ProbesPaid'
<1>1. tx \in [Runners -> Tx] /\ probes \in Nat /\ overlaps \in Nat
  BY DEF TypeOK
<1>2. /\ probes' = probes + IF tx[x].probe THEN 1 ELSE 0
      /\ token' => token /\ ~tx[x].confirmed
      /\ tx' = [tx EXCEPT ![x] = NoTx] /\ ~NoTx.probe
  BY CommittedView, TxFields
<1>3. Probing' \subseteq Probing \ {x}
  BY <1>1, <1>2 DEF Probing
<1>4. probes + Cardinality(Probing) <= 1 + overlaps /\ Cardinality(Probing) \in Nat
  BY ProbingFinite DEF ProbesPaid
<1>5. probes' + Cardinality(Probing') <= 1 + overlaps'
  <2>1. CASE tx[x].probe
    <3>1. x \in Probing
      BY <2>1 DEF Probing
    <3>2. Cardinality(Probing') \in Nat /\ Cardinality(Probing') + 1 <= Cardinality(Probing)
      BY <1>3, <3>1, ProbingFinite, Fewer
    <3>. QED BY <1>1, <1>2, <1>4, <2>1, <3>2
  <2>2. CASE ~tx[x].probe
    <3>1. Cardinality(Probing') \in Nat /\ Cardinality(Probing') <= Cardinality(Probing)
      BY <1>3, ProbingFinite, Shrunk
    <3>. QED BY <1>1, <1>2, <1>4, <2>2, <3>1
  <2>. QED BY <2>1, <2>2
<1>6. \A y \in Runners : tx'[y].probe => tx'[y].confirmed
  BY <1>1, <1>2 DEF ProbesPaid
<1>7. token' => probes' = 0
  BY <1>1, <1>2 DEF ProbesPaid
<1>. QED BY <1>5, <1>6, <1>7 DEF ProbesPaid

LEMMA ProbesDispose ==
    ASSUME Good, ProbesPaid, Dispose
    PROVE  ProbesPaid'
<1>1. /\ UNCHANGED <<database, bounces, lost, twice, got, faults>>
      /\ DisposeShunts \/ DisposeProbe \/ \E e : DisposePosting(e)
  BY DisposeView DEF Good
<1>2. "out" \in Runners /\ TypeOK /\ out.perm \in SUBSET Everybody
  BY DEF Runners, Good, WInv, TypeOK, Work
<1>3. CASE DisposeShunts
  <2>1. tx' = [tx EXCEPT !["out"] = NoTx] /\ UNCHANGED overlaps
    BY <1>3 DEF DisposeShunts, Shunted
  <2>2. ~NoTx.probe
    BY TxFields
  <2>. QED BY <1>1, <1>2, <2>1, <2>2, ProbesCleared DEF database
<1>4. CASE DisposeProbe
  <2>1. CASE UNCHANGED <<tx, overlaps>>
    BY <1>1, <2>1, ProbesSame DEF database
  <2>2. CASE Confirm("out", {}, TRUE) /\ token
    BY <1>1, <1>2, <2>2, ProbesConfirmed DEF database
  <2>. QED BY <1>4, <2>1, <2>2 DEF DisposeProbe
<1>5. ASSUME NEW e, DisposePosting(e)
      PROVE  ProbesPaid'
  <2>1. tx' = [tx EXCEPT !["out"] = Registered(out.perm)] /\ UNCHANGED overlaps
    BY <1>5 DEF DisposePosting
  <2>2. ~Registered(out.perm).probe
    BY <1>2, TxFields
  <2>. QED BY <1>1, <1>2, <2>1, <2>2, ProbesCleared DEF database
<1>. QED BY <1>1, <1>3, <1>4, <1>5

LEMMA ProbesBounce ==
    ASSUME Good, ProbesPaid, NEW b \in Slices, NEW d \in returned, BounceDispose(b, d)
    PROVE  ProbesPaid'
<1>1. /\ UNCHANGED <<entry, out, database, returns, lost, givenUp, twice, got, faults>>
      /\ \/ UNCHANGED <<tx, overlaps>>
         \/ /\ \E S \in SUBSET Everybody : tx' = [tx EXCEPT ![b] = Registered(S)]
            /\ UNCHANGED overlaps
         \/ token /\ \E S \in SUBSET Everybody, event \in BOOLEAN : Confirm(b, S, event)
  BY BounceView DEF Good, WInv
<1>2. b \in Runners /\ TypeOK /\ UNCHANGED <<token, probes>>
  BY <1>1 DEF Runners, Good, WInv, database
<1>3. CASE UNCHANGED <<tx, overlaps>>
  BY <1>2, <1>3, ProbesSame
<1>4. ASSUME NEW S \in SUBSET Everybody, tx' = [tx EXCEPT ![b] = Registered(S)], UNCHANGED overlaps
      PROVE  ProbesPaid'
  <2>1. ~Registered(S).probe
    BY TxFields
  <2>. QED BY <1>2, <1>4, <2>1, ProbesCleared
<1>5. ASSUME token, NEW S \in SUBSET Everybody, NEW event \in BOOLEAN, Confirm(b, S, event)
      PROVE  ProbesPaid'
  BY <1>2, <1>5, ProbesConfirmed
<1>. QED BY <1>1, <1>3, <1>4, <1>5

LEMMA ProbesCrash ==
    ASSUME Good, ProbesPaid, NEW x \in Runners, tx' = [tx EXCEPT ![x] = NoTx],
           UNCHANGED <<token, probes, overlaps>>
    PROVE  ProbesPaid'
BY ProbesCleared, TxFields DEF Good, WInv

--------------------------------------------------------------------------------
(***************************************************************************)
(* Each action is a step of Mailing: somebody is sent to, a failure is     *)
(* reported or delivery given up, or somebody who was served is let go of. *)
(***************************************************************************)
Awaiting == Rcpts \cap InEntries

SendsTo(S) == /\ S \subseteq Awaiting /\ SentTo' = SentTo \cup S
              /\ Awaiting' = Awaiting /\ FailedFor' = FailedFor /\ givenUp' = givenUp
Reports(F, X) == /\ F \subseteq Rcpts /\ X \subseteq Awaiting
                 /\ FailedFor' = FailedFor \cup F /\ givenUp' = givenUp \cup X
                 /\ Awaiting' = Awaiting /\ SentTo' = SentTo
Drops(S) == /\ S \subseteq Awaiting \cap (SentTo \cup FailedFor \cup givenUp)
            /\ Awaiting' = Awaiting \ S
            /\ SentTo' = SentTo /\ FailedFor' = FailedFor /\ givenUp' = givenUp
Mails == \E S, F, X : SendsTo(S) \/ Reports(F, X) \/ Drops(S)

(* Failures, where they are kept.                                          *)
Registers == {r \in Rcpts : r \in scored \cup lost \/ \E x \in Runners : r \in tx[x].scored}

LEMMA FailuresSame ==
    ASSUME UNCHANGED <<scored, lost, tx, logged>>
    PROVE  FailedFor' = FailedFor
BY DEF FailedFor, ByMail

LEMMA FailuresFrom ==
    ASSUME UNCHANGED logged, NEW S, Registers' = Registers \cup (S \cap Rcpts)
    PROVE  FailedFor' = FailedFor \cup (S \cap Rcpts)
BY DEF FailedFor, Registers, ByMail

LEMMA FailuresCommitted ==
    ASSUME TypeOK, NEW x \in Runners, Committed(x), UNCHANGED <<lost, logged>>
    PROVE  FailedFor' = FailedFor
<1>1. /\ scored' = scored \cup tx[x].scored /\ tx' = [tx EXCEPT ![x] = NoTx]
      /\ NoTx.scored = {} /\ tx \in [Runners -> Tx]
  BY CommittedView, TxFields DEF TypeOK
<1>2. Registers' = Registers
  BY <1>1 DEF Registers
<1>. QED BY <1>2 DEF FailedFor, Registers, ByMail

LEMMA FailuresLost ==
    ASSUME TypeOK, NEW x \in Runners, tx' = [tx EXCEPT ![x] = NoTx],
           lost' = lost \cup tx[x].scored, UNCHANGED <<scored, logged>>
    PROVE  FailedFor' = FailedFor
<1>1. NoTx.scored = {} /\ tx \in [Runners -> Tx]
  BY TxFields DEF TypeOK
<1>2. Registers' = Registers
  BY <1>1 DEF Registers
<1>. QED BY <1>2 DEF FailedFor, Registers, ByMail

LEMMA FailuresNew ==
    ASSUME TypeOK, NEW x \in Runners, tx[x] = NoTx, NEW t, tx' = [tx EXCEPT ![x] = t],
           UNCHANGED <<scored, lost, logged>>
    PROVE  FailedFor' = FailedFor \cup (t.scored \cap Rcpts)
<1>1. NoTx.scored = {} /\ tx \in [Runners -> Tx]
  BY TxFields DEF TypeOK
<1>2. Registers' = Registers \cup (t.scored \cap Rcpts)
  BY <1>1 DEF Registers
<1>. QED BY <1>2, FailuresFrom

LEMMA Still ==
    ASSUME Awaiting' = Awaiting, SentTo' = SentTo, FailedFor' = FailedFor, givenUp' = givenUp
    PROVE  Mails
<1>1. SendsTo({})
  BY DEF SendsTo
<1>. QED BY <1>1 DEF Mails

LEMMA SentSame ==
    ASSUME UNCHANGED got
    PROVE  SentTo' = SentTo
BY DEF SentTo

LEMMA AwaitingSame ==
    ASSUME UNCHANGED entry
    PROVE  Awaiting' = Awaiting
BY DEF Awaiting, InEntries

LEMMA DequeueMails ==
    ASSUME Good, NEW i \in DOMAIN entry, Dequeue(i), UNCHANGED outlets
    PROVE  Mails
<1>1. /\ DOMAIN entry' = DOMAIN entry /\ entry'[i] = Claimed(entry[i])
      /\ \A j \in DOMAIN entry \ {i} : entry'[j] = entry[j]
  BY DequeueView DEF Good
<1>2. UNCHANGED <<tx, database, bounces, history, got, faults>>
  BY DEF Dequeue
<1>3. Claimed(entry[i]).rcpts = entry[i].rcpts
  BY EntryFields DEF Queues, SameMail, Good, WInv, TypeOK
<1>4. Awaiting' = Awaiting
  <2>1. \A j \in DOMAIN entry : entry'[j].rcpts = entry[j].rcpts
    BY <1>1, <1>3
  <2>. QED BY <1>1, <2>1 DEF Awaiting, InEntries
<1>5. SentTo' = SentTo /\ FailedFor' = FailedFor /\ givenUp' = givenUp
  BY <1>2, SentSame, FailuresSame DEF database, history, outlets
<1>. QED BY <1>4, <1>5, Still

LEMMA SendMails ==
    ASSUME Good, Send, UNCHANGED outlets
    PROVE  Mails
<1>1. PICK c, ok, temp, perm \in SUBSET out.todo : Tries(c, ok, temp, perm)
  BY SendView DEF Good
<1>2. /\ out.pc = "sending"
      /\ \A r \in Everybody : got'[r] = IF r \in ok THEN got[r] + 1 ELSE got[r]
      /\ UNCHANGED <<entry, tx, database, bounces, lost, givenUp, overlaps>>
  BY <1>1 DEF Tries
<1>3. ok \subseteq entry[out.id].rcpts /\ out.id \in DOMAIN entry /\ got \in [Everybody -> Nat]
  BY <1>1, <1>2 DEF Good, WInv, Sending, TypeOK, AtHand
<1> DEFINE S == ok \cap Rcpts
<1>4. S \subseteq Awaiting
  BY <1>3 DEF Awaiting, InEntries
<1>5. SentTo' = SentTo \cup S
  BY <1>2, <1>3 DEF SentTo, Everybody
<1>6. Awaiting' = Awaiting /\ FailedFor' = FailedFor /\ givenUp' = givenUp
  BY <1>2, AwaitingSame, FailuresSame DEF database, outlets
<1>7. SendsTo(S)
  BY <1>4, <1>5, <1>6 DEF SendsTo
<1>. QED BY <1>7 DEF Mails

LEMMA ShuntMails ==
    ASSUME Good, out.pc = "sending", Shunted,
           UNCHANGED <<database, lost, givenUp, got, outlets>>
    PROVE  Mails
<1> DEFINE n == NewId
<1>1. /\ DOMAIN entry' = (DOMAIN entry \ {out.id}) \cup {n}
      /\ n \notin DOMAIN entry /\ entry'[n] = Moved(out.msg, "shunt")
      /\ \A j \in DOMAIN entry \ {out.id} : entry'[j] = entry[j]
      /\ tx' = [tx EXCEPT !["out"] = NoTx]
  BY ShuntedView DEF Good
<1> HIDE DEF n
<1>2. out.id \in DOMAIN entry /\ Sound(out.msg) /\ out.msg.rcpts = entry[out.id].rcpts
  BY DEF Good, WInv, Sending, AtHand
<1>3. Moved(out.msg, "shunt").rcpts = entry[out.id].rcpts
  BY <1>2, EntryFields DEF Queues, SameMail
<1>4. InEntries' = InEntries
  BY <1>1, <1>2, <1>3 DEF InEntries
<1>5. "out" \in Runners /\ tx["out"] = NoTx /\ NoTx.scored = {} /\ TypeOK
  BY TxFields DEF Runners, Good, WInv, CleanTx
<1>6. FailedFor' = FailedFor
  BY <1>1, <1>5, FailuresNew DEF database, outlets
<1>. QED BY <1>4, <1>6, SentSame, Still DEF Awaiting

LEMMA DisposeMails ==
    ASSUME Good, Dispose, UNCHANGED outlets
    PROVE  Mails
<1>1. /\ out.pc = "sending" /\ out.todo = {}
      /\ UNCHANGED <<database, bounces, lost, twice, got, faults>>
      /\ DisposeShunts \/ DisposeProbe \/ \E e : DisposePosting(e)
  BY DisposeView DEF Good
<1>2. /\ AtHand /\ Sound(out.msg)
      /\ out.msg.rcpts = entry[out.id].rcpts
      /\ out.temp \cup out.perm \subseteq out.msg.rcpts
      /\ out.perm \in SUBSET Everybody
      /\ "out" \in Runners /\ tx["out"] = NoTx /\ TypeOK
  BY <1>1 DEF Good, WInv, Sending, TypeOK, Work, Runners, CleanTx
<1>3. CASE DisposeShunts
  BY <1>1, <1>3, ShuntMails DEF DisposeShunts
<1>4. CASE DisposeProbe
  <2>1. FailedFor' = FailedFor
    <3>1. CASE UNCHANGED tx
      BY <1>1, <3>1, FailuresSame DEF database, outlets
    <3>2. CASE Confirm("out", {}, TRUE)
      <4> DEFINE t == ConfirmedTx({}, TRUE)
      <4>1. tx' = [tx EXCEPT !["out"] = t] /\ t.scored = {}
        BY <3>2 DEF Confirm, ConfirmedTx
      <4> HIDE DEF t
      <4>. QED BY <1>1, <1>2, <4>1, FailuresNew DEF database, outlets
    <3>. QED BY <1>4, <3>1, <3>2 DEF DisposeProbe
  <2>2. Awaiting' = Awaiting /\ SentTo' = SentTo /\ givenUp' = givenUp
    BY <1>1, <1>4, AwaitingSame, SentSame DEF DisposeProbe
  <2>. QED BY <2>1, <2>2, Still
<1>5. ASSUME NEW e, DisposePosting(e)
      PROVE  Mails
  <2> DEFINE F == out.perm \cap Rcpts
  <2>1. FailedFor' = FailedFor \cup F
    <3>1. tx' = [tx EXCEPT !["out"] = Registered(out.perm)] /\ Registered(out.perm).scored = out.perm
      BY <1>2, <1>5, TxFields DEF DisposePosting
    <3>. QED BY <1>1, <1>2, <3>1, FailuresNew DEF database, outlets
  <2>2. out.temp \subseteq Awaiting
    <3>1. out.temp \subseteq Rcpts
      BY <1>2, <1>5 DEF DisposePosting, Sound
    <3>. QED BY <1>2, <3>1 DEF Awaiting, InEntries, AtHand
  <2> DEFINE n == NewId
             Adding == /\ DOMAIN entry' = DOMAIN entry \cup {n} /\ n \notin DOMAIN entry
                       /\ \A i \in DOMAIN entry : entry'[i] = entry[i]
                       /\ entry'[n] = Queued(e, "retry") /\ Sound(e) /\ e.rcpts = out.temp
  <2>3. /\ entry' = entry \/ Adding
        /\ givenUp' = givenUp \/ givenUp' = givenUp \cup out.temp
    BY <1>5 DEF DisposePosting
  <2> HIDE DEF n
  <2>4. Awaiting' = Awaiting
    <3>1. CASE Adding
      <4>1. Queued(e, "retry").rcpts = out.temp
        BY <3>1, EntryFields DEF Queues, SameMail
      <4>. QED BY <2>2, <3>1, <4>1 DEF Awaiting, InEntries
    <3>. QED BY <2>3, <3>1, AwaitingSame
  <2>5. Reports(F, {}) \/ Reports(F, out.temp)
    BY <1>1, <2>1, <2>2, <2>3, <2>4, SentSame DEF Reports
  <2>. QED BY <2>5 DEF Mails
<1>. QED BY <1>1, <1>3, <1>4, <1>5

LEMMA FinishMails ==
    ASSUME Good, Finish, UNCHANGED outlets
    PROVE  Mails
<1>1. /\ out.pc = "finish" /\ AtHand
      /\ DOMAIN entry' = DOMAIN entry \ {out.id}
      /\ \A j \in DOMAIN entry \ {out.id} : entry'[j] = entry[j]
      /\ UNCHANGED <<tx, database, bounces, history, got, faults>>
  BY FinishView DEF Good
<1>2. \A r \in entry[out.id].rcpts \cap Rcpts :
         \/ got[r] > 0 \/ r \in tx["out"].scored \/ r \in givenUp
         \/ \E j \in DOMAIN entry \ {out.id} : r \in entry[j].rcpts
  BY <1>1 DEF Good, WInv, Disposed, ElseWhere
<1> DEFINE S == Awaiting \ Awaiting'
<1>3. Awaiting' \subseteq Awaiting
  BY <1>1 DEF Awaiting, InEntries
<1>4. ASSUME NEW r \in S
      PROVE  r \in SentTo \cup FailedFor \cup givenUp
  <2>1. r \in Rcpts /\ \A j \in DOMAIN entry \ {out.id} : r \notin entry[j].rcpts
    BY <1>1, <1>4 DEF Awaiting, InEntries
  <2>2. r \in entry[out.id].rcpts
    BY <1>4, <2>1 DEF Awaiting, InEntries
  <2>3. got[r] > 0 \/ r \in tx["out"].scored \/ r \in givenUp
    BY <1>2, <2>1, <2>2
  <2>. QED BY <2>1, <2>3 DEF SentTo, FailedFor, Runners
<1>5. SentTo' = SentTo /\ FailedFor' = FailedFor /\ givenUp' = givenUp
  BY <1>1, SentSame, FailuresSame DEF database, history, outlets
<1> HIDE DEF S
<1>6. Awaiting' = Awaiting \ S /\ S \subseteq Awaiting
  BY <1>3 DEF S
<1>7. Drops(S)
  BY <1>4, <1>5, <1>6 DEF Drops
<1>. QED BY <1>7 DEF Mails

LEMMA CrashMails ==
    ASSUME Good, Crash, UNCHANGED outlets
    PROVE  Mails
<1>1. /\ DOMAIN entry' = DOMAIN entry
      /\ \A j \in DOMAIN entry : entry'[j] = entry[j] \/ entry'[j] = Free(entry[j])
      /\ tx' = [tx EXCEPT !["out"] = NoTx] /\ lost' = lost \cup tx["out"].scored
      /\ UNCHANGED <<database, bounces, givenUp, twice, overlaps, got>>
  BY CrashView DEF Good
<1>2. \A j \in DOMAIN entry : entry'[j].rcpts = entry[j].rcpts
  <2> SUFFICES ASSUME NEW j \in DOMAIN entry PROVE entry'[j].rcpts = entry[j].rcpts
    OBVIOUS
  <2>1. Sound(entry[j]) /\ "out" \in Queues
    BY DEF Good, WInv, TypeOK, Queues
  <2>2. Free(entry[j]).rcpts = entry[j].rcpts
    BY <2>1, EntryFields DEF SameMail
  <2>. QED BY <1>1, <2>2
<1>3. InEntries' = InEntries
  BY <1>1, <1>2 DEF InEntries
<1>4. "out" \in Runners /\ TypeOK
  BY DEF Runners, Good, WInv
<1>5. FailedFor' = FailedFor
  BY <1>1, <1>4, FailuresLost DEF database, outlets
<1>. QED BY <1>1, <1>3, <1>5, SentSame, Still DEF Awaiting

LEMMA RetryDisposeMails ==
    ASSUME Good, NEW i \in DOMAIN entry, RetryDispose(i), UNCHANGED outlets
    PROVE  Mails
<1> DEFINE n == NewId
<1>1. /\ DOMAIN entry' = (DOMAIN entry \ {i}) \cup {n}
      /\ n \notin DOMAIN entry /\ entry'[n] = Moved(entry[i], "out")
      /\ \A j \in DOMAIN entry \ {i} : entry'[j] = entry[j]
  BY RetryView DEF Good
<1> HIDE DEF n
<1>2. UNCHANGED <<out, tx, database, bounces, history, got, faults>>
  BY DEF RetryDispose
<1>3. Moved(entry[i], "out").rcpts = entry[i].rcpts
  BY EntryFields DEF Queues, SameMail, Good, WInv, TypeOK
<1>4. InEntries' = InEntries
  BY <1>1, <1>3 DEF InEntries
<1>. QED BY <1>2, <1>4, SentSame, FailuresSame, Still DEF Awaiting, database, history, outlets

LEMMA RetryCrashMails ==
    ASSUME Good, NEW i \in DOMAIN entry, RetryCrash(i), UNCHANGED outlets
    PROVE  Mails
<1> DEFINE n == NewId
<1>1. /\ DOMAIN entry' = DOMAIN entry \cup {n}
      /\ n \notin DOMAIN entry /\ entry'[n] = Queued(entry[i], "out")
      /\ \A j \in DOMAIN entry : entry'[j] = entry[j]
  BY RetryCrashView DEF Good
<1> HIDE DEF n
<1>2. UNCHANGED <<out, tx, database, bounces, history, got>>
  BY DEF RetryCrash
<1>3. Queued(entry[i], "out").rcpts = entry[i].rcpts
  BY EntryFields DEF Queues, SameMail, Good, WInv, TypeOK
<1>4. InEntries' = InEntries
  BY <1>1, <1>3 DEF InEntries
<1>. QED BY <1>2, <1>4, SentSame, FailuresSame, Still DEF Awaiting, database, history, outlets

LEMMA UnshuntMails ==
    ASSUME Good, NEW i \in DOMAIN entry, Unshunt(i), UNCHANGED outlets
    PROVE  Mails
<1>1. /\ DOMAIN entry' = DOMAIN entry /\ entry'[i] = Moved(entry[i], "out")
      /\ \A j \in DOMAIN entry \ {i} : entry'[j] = entry[j]
  BY UnshuntView DEF Good
<1>2. UNCHANGED <<out, tx, database, bounces, history, got>>
  BY DEF Unshunt
<1>3. Moved(entry[i], "out").rcpts = entry[i].rcpts
  BY EntryFields DEF Queues, SameMail, Good, WInv, TypeOK
<1>4. InEntries' = InEntries
  <2>1. \A j \in DOMAIN entry : entry'[j].rcpts = entry[j].rcpts
    BY <1>1, <1>3
  <2>. QED BY <1>1, <2>1 DEF InEntries
<1>. QED BY <1>2, <1>4, SentSame, FailuresSame, Still DEF Awaiting, database, history, outlets

LEMMA TickMails ==
    ASSUME Good, Tick, UNCHANGED outlets
    PROVE  Mails
<1>1. /\ DOMAIN entry' = DOMAIN entry
      /\ \A j \in DOMAIN entry : entry'[j] = Later(entry[j])
      /\ UNCHANGED <<tx, database, bounces, history, got, faults>>
  BY TickView DEF Good
<1>2. \A j \in DOMAIN entry : entry'[j].rcpts = entry[j].rcpts
  <2> SUFFICES ASSUME NEW j \in DOMAIN entry PROVE entry'[j].rcpts = entry[j].rcpts
    OBVIOUS
  <2>1. Sound(entry[j])
    BY DEF Good, WInv, TypeOK
  <2>2. Later(entry[j]).rcpts = entry[j].rcpts
    BY <2>1, LaterFields DEF SameMail
  <2>. QED BY <1>1, <2>2
<1>3. InEntries' = InEntries
  BY <1>1, <1>2 DEF InEntries
<1>. QED BY <1>1, <1>3, SentSame, FailuresSame, Still DEF Awaiting, database, history, outlets

LEMMA BounceMails ==
    ASSUME Good, NEW b \in Slices, NEW d \in returned, BounceDispose(b, d), UNCHANGED outlets
    PROVE  Mails
<1>1. /\ tx[b] = NoTx
      /\ UNCHANGED <<entry, out, database, returns, lost, givenUp, twice, got, faults>>
      /\ \/ UNCHANGED <<tx, overlaps>>
         \/ \E S \in SUBSET Everybody : tx' = [tx EXCEPT ![b] = Registered(S)]
         \/ \E S \in SUBSET Everybody, event \in BOOLEAN : Confirm(b, S, event)
  BY BounceView DEF Good, WInv
<1>2. b \in Runners /\ TypeOK
  BY DEF Runners, Good, WInv
<1>3. Awaiting' = Awaiting /\ SentTo' = SentTo /\ givenUp' = givenUp
  BY <1>1, AwaitingSame, SentSame
<1>4. CASE UNCHANGED <<tx, overlaps>>
  <2>1. FailedFor' = FailedFor
    BY <1>1, <1>4, FailuresSame DEF database, outlets
  <2>. QED BY <1>3, <2>1, Still
<1>5. ASSUME NEW t, tx' = [tx EXCEPT ![b] = t]
      PROVE  Mails
  <2> DEFINE F == t.scored \cap Rcpts
  <2>1. FailedFor' = FailedFor \cup F
    BY <1>1, <1>2, <1>5, FailuresNew DEF database, outlets
  <2>2. F \subseteq Rcpts
    OBVIOUS
  <2> HIDE DEF F
  <2>3. Reports(F, {})
    BY <1>3, <2>1, <2>2 DEF Reports
  <2>. QED BY <2>3 DEF Mails
<1>6. ASSUME NEW S \in SUBSET Everybody, NEW event \in BOOLEAN, Confirm(b, S, event)
      PROVE  tx' = [tx EXCEPT ![b] = ConfirmedTx(S, event)]
  BY <1>6 DEF Confirm, ConfirmedTx
<1>. QED BY <1>1, <1>4, <1>5, <1>6

LEMMA CommittedMails ==
    ASSUME Good, NEW x \in Runners, Committed(x), UNCHANGED <<entry, got, lost, givenUp, outlets>>
    PROVE  Mails
BY FailuresCommitted, AwaitingSame, SentSame, Still DEF Good, WInv, outlets

LEMMA BounceCrashMails ==
    ASSUME Good, NEW b \in Slices, BounceCrash(b), UNCHANGED outlets
    PROVE  Mails
<1>1. /\ tx' = [tx EXCEPT ![b] = NoTx] /\ lost' = lost \cup tx[b].scored
      /\ UNCHANGED <<entry, database, givenUp, got>>
  BY DEF BounceCrash
<1>2. b \in Runners /\ TypeOK
  BY DEF Runners, Good, WInv
<1>3. FailedFor' = FailedFor
  BY <1>1, <1>2, FailuresLost DEF database, outlets
<1>. QED BY <1>1, <1>3, AwaitingSame, SentSame, Still

(* All of delivery: what holds of it is kept, and each step is one of      *)
(* Mailing.                                                                *)
FaultsGrow == faults' = faults \/ faults' = faults + 1
Delivers == Good' /\ ProbesPaid' /\ Mails /\ FaultsGrow

LEMMA OutRunnerDelivers ==
    ASSUME Good, ProbesPaid, OutRunner \/ CallbackFails \/ Crash, UNCHANGED outlets
    PROVE  Delivers
<1>1. "out" \in Runners /\ TypeOK
  BY DEF Runners, Good, WInv
<1>2. ASSUME NEW i \in DOMAIN entry, Dequeue(i)
      PROVE  Delivers
  <2>1. UNCHANGED <<tx, token, probes, overlaps, faults>>
    BY <1>2 DEF Dequeue, database, history
  <2>. QED BY <1>2, <2>1, DequeueKeeps, DequeueMails, ProbesSame DEF Delivers, FaultsGrow
<1>3. CASE Send
  <2>1. PICK c, ok, temp, perm : Tries(c, ok, temp, perm)
    BY <1>3, SendView DEF Good
  <2>2. UNCHANGED <<tx, token, probes, overlaps>> /\ FaultsGrow
    BY <2>1 DEF Tries, database, FaultsGrow
  <2>. QED BY <1>3, <2>2, SendKeeps, SendMails, ProbesSame DEF Delivers
<1>4. CASE Dispose
  <2>1. UNCHANGED faults
    BY <1>4 DEF Dispose
  <2>. QED BY <1>4, <2>1, DisposeKeeps, DisposeMails, ProbesDispose DEF Delivers, FaultsGrow
<1>5. CASE Finish
  <2>1. UNCHANGED <<tx, token, probes, overlaps, faults>>
    BY <1>5 DEF Finish, database, history
  <2>. QED BY <1>5, <2>1, FinishKeeps, FinishMails, ProbesSame DEF Delivers, FaultsGrow
<1>6. CASE Commit
  <2>1. Committed("out") /\ UNCHANGED <<entry, got, lost, givenUp, overlaps, faults>>
    BY <1>6 DEF Commit, history
  <2>2. ProbesPaid' /\ Mails
    BY <1>1, <2>1, ProbesCommitted, CommittedMails
  <2>. QED BY <1>6, <2>1, <2>2, CommitKeeps DEF Delivers, FaultsGrow
<1>7. CASE CallbackFails
  <2>1. /\ out.pc = "sending" /\ Shunted /\ faults' = faults + 1
        /\ UNCHANGED <<token, probes, database, overlaps, lost, givenUp, got>>
    BY <1>7 DEF CallbackFails, database, history
  <2>2. ProbesPaid'
    BY <1>1, <2>1, ProbesCrash DEF Shunted
  <2>. QED BY <1>7, <2>1, <2>2, CallbackFailsKeeps, ShuntMails DEF Delivers, FaultsGrow
<1>8. CASE Crash
  <2>1. /\ tx' = [tx EXCEPT !["out"] = NoTx] /\ faults' = faults + 1
        /\ UNCHANGED <<token, probes, overlaps>>
    BY <1>8 DEF Crash, database
  <2>2. ProbesPaid'
    BY <1>1, <2>1, ProbesCrash
  <2>. QED BY <1>8, <2>1, <2>2, CrashKeeps, CrashMails DEF Delivers, FaultsGrow
<1>. QED BY <1>2, <1>3, <1>4, <1>5, <1>6, <1>7, <1>8 DEF OutRunner

LEMMA EntriesDeliver ==
    ASSUME Good, ProbesPaid, NEW i \in DOMAIN entry, UNCHANGED outlets,
           RetryDispose(i) \/ RetryCrash(i) \/ Unshunt(i)
    PROVE  Delivers
<1>1. UNCHANGED <<tx, token, probes, overlaps>> /\ FaultsGrow
  BY DEF RetryDispose, RetryCrash, Unshunt, database, history, FaultsGrow
<1>2. ProbesPaid'
  BY <1>1, ProbesSame
<1>3. CASE RetryDispose(i)
  BY <1>1, <1>2, <1>3, RetryDisposeKeeps, RetryDisposeMails DEF Delivers
<1>4. CASE RetryCrash(i)
  BY <1>1, <1>2, <1>4, RetryCrashKeeps, RetryCrashMails DEF Delivers
<1>5. CASE Unshunt(i)
  BY <1>1, <1>2, <1>5, UnshuntKeeps, UnshuntMails DEF Delivers
<1>. QED BY <1>3, <1>4, <1>5

LEMMA BouncesDeliver ==
    ASSUME Good, ProbesPaid, NEW b \in Slices, UNCHANGED outlets,
           BounceRunner(b) \/ BounceCrash(b)
    PROVE  Delivers
<1>1. b \in Runners /\ TypeOK
  BY DEF Runners, Good, WInv
<1>2. ASSUME NEW d \in returned, BounceDispose(b, d)
      PROVE  Delivers
  <2>1. UNCHANGED faults
    BY <1>2 DEF BounceDispose
  <2>. QED BY <1>2, <2>1, BounceDisposeKeeps, BounceMails, ProbesBounce DEF Delivers, FaultsGrow
<1>3. CASE BounceCommit(b)
  <2>1. Committed(b) /\ UNCHANGED <<entry, got, lost, givenUp, overlaps, faults>>
    BY <1>3 DEF BounceCommit, history
  <2>2. ProbesPaid' /\ Mails
    BY <1>1, <2>1, ProbesCommitted, CommittedMails
  <2>. QED BY <1>3, <2>1, <2>2, BounceCommitKeeps DEF Delivers, FaultsGrow
<1>4. CASE BounceCrash(b)
  <2>1. /\ tx' = [tx EXCEPT ![b] = NoTx] /\ faults' = faults + 1
        /\ UNCHANGED <<token, probes, overlaps>>
    BY <1>4 DEF BounceCrash, database
  <2>2. ProbesPaid'
    BY <1>1, <2>1, ProbesCrash
  <2>. QED BY <1>4, <2>1, <2>2, BounceCrashKeeps, BounceCrashMails DEF Delivers, FaultsGrow
<1>. QED BY <1>2, <1>3, <1>4 DEF BounceRunner

LEMMA EventsDeliver ==
    ASSUME Good, ProbesPaid, UNCHANGED outlets,
           (\E r \in Everybody : Return(r)) \/ Unsubscribe \/ Tick
    PROVE  Delivers
<1>1. UNCHANGED <<tx, token, probes, overlaps>> /\ FaultsGrow
  BY DEF Return, Unsubscribe, Tick, database, history, FaultsGrow
<1>2. ProbesPaid'
  BY <1>1, ProbesSame
<1>3. ASSUME NEW r \in Everybody, Return(r)
      PROVE  Delivers
  <2>1. Mails
    BY <1>3, AwaitingSame, SentSame, FailuresSame, Still DEF Return, database, history, outlets
  <2>. QED BY <1>1, <1>2, <1>3, <2>1, ReturnKeeps DEF Delivers
<1>4. CASE Unsubscribe
  <2>1. Mails
    BY <1>4, AwaitingSame, SentSame, FailuresSame, Still DEF Unsubscribe, history, outlets
  <2>. QED BY <1>1, <1>2, <1>4, <2>1, UnsubscribeKeeps DEF Delivers
<1>5. CASE Tick
  BY <1>1, <1>2, <1>5, TickKeeps, TickMails DEF Delivers
<1>. QED BY <1>3, <1>4, <1>5

LEMMA MailDelivers ==
    ASSUME Good, ProbesPaid, Mail(Next)
    PROVE  Delivers
<1>1. Next /\ UNCHANGED outlets
  BY DEF Mail
<1>. QED BY <1>1, OutRunnerDelivers, EntriesDeliver, BouncesDeliver, EventsDeliver
         DEF Next, RetryRunner

--------------------------------------------------------------------------------
(***************************************************************************)
(* The newsgroup.                                                          *)
(***************************************************************************)
AtNews(n, pc) == [n EXCEPT !.pc = pc]
Placed(f, place) == [f EXCEPT !.place = place]
Began(article) == [NewsIdle EXCEPT !.pc = "prepare", !.article = article]
Prepared(n, article) == [n EXCEPT !.pc = "connect", !.article = article]
Ended(n, pc, again) == [n EXCEPT !.pc = pc, !.again = again]

LEMMA IdleNewsFields ==
    NewsIdle \in NewsWork /\ NewsIdle.pc = "idle" /\ NewsIdle.article = 0
BY DEF NewsIdle, NewsStates, NewsWork

LEMMA AtNewsFields ==
    ASSUME NEW n, NEW pc, NEW x, n \in NewsWork, pc \in NewsStates, x = AtNews(n, pc)
    PROVE  x \in NewsWork /\ x.pc = pc /\ x.article = n.article
BY Zenon DEF AtNews, NewsWork

LEMMA EndedFields ==
    ASSUME NEW n, NEW pc, NEW again, NEW x,
           n \in NewsWork, pc \in NewsStates, again \in BOOLEAN, x = Ended(n, pc, again)
    PROVE  x \in NewsWork /\ x.pc = pc /\ x.article = n.article
BY Zenon DEF Ended, NewsWork

LEMMA BeganFields ==
    ASSUME NEW article, NEW x, article \in Nat, x = Began(article)
    PROVE  x \in NewsWork /\ x.pc = "prepare" /\ x.article = article
<1>1. "prepare" \in NewsStates
  BY DEF NewsStates
<1>. QED BY <1>1, IdleNewsFields, Zenon DEF Began, NewsWork

LEMMA PreparedFields ==
    ASSUME NEW n, NEW article, NEW x, n \in NewsWork, article \in Nat, x = Prepared(n, article)
    PROVE  x \in NewsWork /\ x.pc = "connect" /\ x.article = article
<1>1. "connect" \in NewsStates
  BY DEF NewsStates
<1>. QED BY <1>1, Zenon DEF Prepared, NewsWork

LEMMA FileFields ==
    ASSUME NEW f, f \in NewsFile, NEW place, place \in {"none", "queue", "taken", "shunt", "done"}
    PROVE  /\ Placed(f, place) \in NewsFile /\ Placed(f, place).place = place
           /\ Placed(f, place).article = f.article
BY Zenon DEF NewsFile, Placed

LEMMA NewsStays ==
    ASSUME NewsOK, faults \in Nat, FaultsGrow, UNCHANGED newsVars, logged \subseteq logged'
    PROVE  NewsOK'
BY DEF NewsOK, NewsFine, newsVars, FaultsGrow

LEMMA NewsKeeps ==
    ASSUME NewsOK, faults \in Nat,
           \/ NewsRunner /\ UNCHANGED faults
           \/ NewsUnshunt /\ UNCHANGED faults
           \/ NewsCrash
    PROVE  NewsOK'
<1>1. NewsFine(newsFile, news, articles, newsgroup, logged, faults)
  BY DEF NewsOK
<1>2. newsFile \in NewsFile /\ news \in NewsWork /\ articles \in Nat /\ NewsIdle \in NewsWork
      /\ NewsIdle.pc = "idle" /\ NewsIdle.article = 0
  BY <1>1, IdleNewsFields DEF NewsFine, NewsOK
<1>3. CASE NewsDequeue /\ UNCHANGED faults
  <2>1. /\ news.pc = "idle" /\ newsFile.place = "queue"
        /\ newsFile' = Placed(newsFile, "taken") /\ news' = Began(newsFile.article)
        /\ UNCHANGED <<articles, newsgroup, logged, faults>>
    BY <1>3 DEF NewsDequeue, Placed, Began
  <2>2. newsFile.article \in Nat
    BY <1>2 DEF NewsFile
  <2>3. news' \in NewsWork /\ news'.pc = "prepare" /\ news'.article = newsFile.article
    BY <2>1, <2>2, BeganFields
  <2>4. newsFile' \in NewsFile /\ newsFile'.place = "taken" /\ newsFile'.article = newsFile.article
    BY <1>2, <2>1, FileFields
  <2>. QED BY <1>1, <2>1, <2>3, <2>4 DEF NewsFine, NewsOK
<1>4. CASE Prepare /\ UNCHANGED faults
  <2> DEFINE article == IF news.article = 0 THEN articles + 1 ELSE news.article
  <2>1. /\ news.pc = "prepare" /\ articles' = IF news.article = 0 THEN articles + 1 ELSE articles
        /\ UNCHANGED <<newsFile, newsgroup, logged, faults>>
    BY <1>4 DEF Prepare
  <2>2. news' = Prepared(news, article)
    BY <1>4, Zenon DEF Prepare, Prepared
  <2>3. article \in Nat /\ article # 0 /\ article <= articles'
    BY <1>1, <1>2, <2>1 DEF NewsFine, NewsWork
  <2> HIDE DEF article
  <2>4. news' \in NewsWork /\ news'.pc = "connect" /\ news'.article = article
    BY <1>2, <2>2, <2>3, PreparedFields
  <2>5. articles' \in Nat /\ newsgroup' \subseteq 1 .. articles' /\ newsFile'.article <= articles'
    BY <1>1, <1>2, <2>1 DEF NewsFine, NewsFile
  <2>6. articles' <= 1 + faults'
    BY <1>1, <2>1 DEF NewsFine, NewsOK
  <2>. QED BY <1>1, <2>1, <2>3, <2>4, <2>5, <2>6 DEF NewsFine, NewsOK
<1>5. CASE NoConnection /\ UNCHANGED faults
  <2>1. /\ news.pc = "connect" /\ logged' = logged \cup {"news"}
        /\ \E again \in BOOLEAN : news' = Ended(news, "finish", again)
        /\ UNCHANGED <<newsFile, articles, newsgroup, faults>>
    BY <1>5 DEF NoConnection, Ended
  <2>2. news' \in NewsWork /\ news'.pc = "finish" /\ news'.article = news.article
    BY <1>2, <2>1, EndedFields DEF NewsStates
  <2>. QED BY <1>1, <2>1, <2>2 DEF NewsFine, NewsOK
<1>6. CASE Post /\ UNCHANGED faults
  <2>1. /\ news.pc = "connect" /\ newsgroup' = newsgroup \cup {news.article}
        /\ news' = AtNews(news, "quit")
        /\ UNCHANGED <<newsFile, articles, logged, faults>>
    BY <1>6 DEF Post, AtNews
  <2>2. news' \in NewsWork /\ news'.pc = "quit" /\ news'.article = news.article
    BY <1>2, <2>1, AtNewsFields DEF NewsStates
  <2>3. news.article \in 1 .. articles
    BY <1>1, <1>2, <2>1 DEF NewsFine, NewsWork
  <2>. QED BY <1>1, <2>1, <2>2, <2>3 DEF NewsFine, NewsOK
<1>7. CASE PostFails /\ UNCHANGED faults
  <2>1. /\ news.pc = "connect" /\ logged' = logged \cup {"news"}
        /\ newsgroup' = newsgroup \/ newsgroup' = newsgroup \cup {news.article}
        /\ \E again \in BOOLEAN : news' = Ended(news, "quit", again)
        /\ UNCHANGED <<newsFile, articles, faults>>
    BY <1>7 DEF PostFails, Ended
  <2>2. news' \in NewsWork /\ news'.pc = "quit" /\ news'.article = news.article
    BY <1>2, <2>1, EndedFields DEF NewsStates
  <2>3. news.article \in 1 .. articles
    BY <1>1, <1>2, <2>1 DEF NewsFine, NewsWork
  <2>. QED BY <1>1, <2>1, <2>2, <2>3 DEF NewsFine, NewsOK
<1>8. CASE Quit /\ UNCHANGED faults
  <2>1. /\ news.pc = "quit" /\ news' = AtNews(news, "finish")
        /\ UNCHANGED <<newsFile, articles, newsgroup, logged, faults>>
    BY <1>8 DEF Quit, AtNews
  <2>2. news' \in NewsWork /\ news'.pc = "finish" /\ news'.article = news.article
    BY <1>2, <2>1, AtNewsFields DEF NewsStates
  <2>. QED BY <1>1, <2>1, <2>2 DEF NewsFine, NewsOK
<1>9. CASE QuitFails /\ UNCHANGED faults
  <2>1. /\ news.pc = "quit" /\ newsFile' = [place |-> "shunt", article |-> news.article]
        /\ news' = NewsIdle /\ logged' = logged \cup {"news"}
        /\ UNCHANGED <<articles, newsgroup, faults>>
    BY <1>9 DEF QuitFails
  <2>2. newsFile' \in NewsFile /\ newsFile'.place = "shunt" /\ newsFile'.article = news.article
    BY <1>2, <2>1 DEF NewsFile, NewsWork
  <2>. QED BY <1>1, <1>2, <2>1, <2>2 DEF NewsFine, NewsOK
<1>10. CASE NewsFinish /\ UNCHANGED faults
  <2>1. /\ news.pc = "finish" /\ news' = NewsIdle
        /\ newsFile' = IF news.again THEN [place |-> "queue", article |-> news.article]
                       ELSE Placed(newsFile, "done")
        /\ UNCHANGED <<articles, newsgroup, logged, faults>>
    BY <1>10 DEF NewsFinish, Placed
  <2>2. CASE news.again
    <3>1. newsFile' \in NewsFile /\ newsFile'.place = "queue" /\ newsFile'.article = news.article
      BY <1>2, <2>1, <2>2 DEF NewsFile, NewsWork
    <3>. QED BY <1>1, <1>2, <2>1, <3>1 DEF NewsFine, NewsOK
  <2>3. CASE ~news.again
    <3>1. newsFile' \in NewsFile /\ newsFile'.place = "done" /\ newsFile'.article = newsFile.article
      BY <1>2, <2>1, <2>3, FileFields
    <3>. QED BY <1>1, <1>2, <2>1, <3>1 DEF NewsFine, NewsOK
  <2>. QED BY <2>2, <2>3
<1>11. CASE NewsUnshunt /\ UNCHANGED faults
  <2>1. /\ newsFile.place = "shunt" /\ newsFile' = Placed(newsFile, "queue")
        /\ UNCHANGED <<news, articles, newsgroup, logged, faults>>
    BY <1>11 DEF NewsUnshunt, Placed
  <2>2. newsFile' \in NewsFile /\ newsFile'.place = "queue" /\ newsFile'.article = newsFile.article
    BY <1>2, <2>1, FileFields
  <2>. QED BY <1>1, <2>1, <2>2 DEF NewsFine, NewsOK
<1>12. CASE NewsCrash
  <2>1. /\ news.pc # "idle" /\ faults' = faults + 1
        /\ newsFile' = Placed(newsFile, "queue") /\ news' = NewsIdle
        /\ UNCHANGED <<articles, newsgroup, logged>>
    BY <1>12 DEF NewsCrash, DieOnce, Placed
  <2>2. newsFile' \in NewsFile /\ newsFile'.place = "queue" /\ newsFile'.article = newsFile.article
    BY <1>2, <2>1, FileFields
  <2>. QED BY <1>1, <1>2, <2>1, <2>2 DEF NewsFine, NewsOK
<1>. QED BY <1>3, <1>4, <1>5, <1>6, <1>7, <1>8, <1>9, <1>10, <1>11, <1>12 DEF NewsRunner

--------------------------------------------------------------------------------
(***************************************************************************)
(* The archives.                                                           *)
(***************************************************************************)
LEMMA TailFacts ==
    ASSUME NEW S, NEW s, s \in Seq(S), s # <<>>, IsInjective(s)
    PROVE  /\ Tail(s) \in Seq(S) /\ IsInjective(Tail(s)) /\ Head(s) \in S
           /\ Range(Tail(s)) = Range(s) \ {Head(s)} /\ Head(s) \in Range(s)
<1>1. Len(s) \in Nat \ {0} /\ DOMAIN s = 1 .. Len(s) /\ Head(s) = s[1]
  OBVIOUS
<1>2. /\ Tail(s) \in Seq(S) /\ DOMAIN Tail(s) = 1 .. (Len(s) - 1)
      /\ \A i \in 1 .. (Len(s) - 1) : Tail(s)[i] = s[i + 1]
  OBVIOUS
<1>3. \A i, j \in 1 .. Len(s) : s[i] = s[j] => i = j
  BY <1>1 DEF IsInjective
<1>4. IsInjective(Tail(s))
  BY <1>1, <1>2, <1>3 DEF IsInjective
<1>5. Head(s) \in S /\ Head(s) \in Range(s)
  BY <1>1 DEF Range
<1>6. ASSUME NEW x \in Range(Tail(s))
      PROVE  x \in Range(s) \ {Head(s)}
  <2>1. PICK i \in 1 .. (Len(s) - 1) : x = s[i + 1]
    BY <1>2 DEF Range
  <2>2. i + 1 \in 1 .. Len(s) /\ 1 \in 1 .. Len(s) /\ i + 1 # 1
    BY <1>1
  <2>. QED BY <1>1, <1>3, <2>1, <2>2 DEF Range
<1>7. ASSUME NEW x \in Range(s) \ {Head(s)}
      PROVE  x \in Range(Tail(s))
  <2>1. PICK i \in 1 .. Len(s) : x = s[i]
    BY <1>1 DEF Range
  <2>2. i # 1
    BY <1>1, <2>1
  <2>3. i - 1 \in 1 .. (Len(s) - 1) /\ (i - 1) + 1 = i
    BY <1>1, <2>2
  <2>4. Tail(s)[i - 1] = x
    BY <1>2, <2>1, <2>3
  <2>. QED BY <1>2, <2>3, <2>4 DEF Range
<1>. QED BY <1>2, <1>4, <1>5, <1>6, <1>7

LEMMA ByMailIsDue ==
    ByMail \subseteq Rcpts
BY OutletsAssumption DEF ByMail

(* Whoever is in an entry stays there until served.                        *)
Accounted == InEntries \cup SentTo \cup FailedFor \cup givenUp

LEMMA AccountedStays ==
    ASSUME Mails
    PROVE  Accounted \cap Rcpts \subseteq Accounted'
<1>1. PICK S, F, X : SendsTo(S) \/ Reports(F, X) \/ Drops(S)
  BY DEF Mails
<1> DEFINE Here == Awaiting \cup SentTo \cup FailedFor \cup givenUp
<1>2. Accounted \cap Rcpts \subseteq Here
  BY DEF Accounted, Awaiting
<1>3. Awaiting' \cup SentTo' \cup FailedFor' \cup givenUp' \subseteq Accounted'
  BY DEF Accounted, Awaiting
<1>4. Here \subseteq Awaiting' \cup SentTo' \cup FailedFor' \cup givenUp'
  <2>1. CASE SendsTo(S)
    BY <2>1 DEF SendsTo
  <2>2. CASE Reports(F, X)
    BY <2>2 DEF Reports
  <2>3. CASE Drops(S)
    BY <2>3 DEF Drops
  <2>. QED BY <1>1, <2>1, <2>2, <2>3
<1>. QED BY <1>2, <1>3, <1>4

LEMMA ArchiveStays ==
    ASSUME ArchiveOK, faults \in Nat, FaultsGrow, UNCHANGED archiveVars, logged \subseteq logged',
           Mails
    PROVE  ArchiveOK'
<1>1. UNCHANGED <<archiveFile, archive, archived>> /\ \A a : ToStore(a)' = ToStore(a)
  BY DEF archiveVars, ToStore
<1>2. \A a \in Range(Archivers) :
          /\ archived[a] + (IF ToStore(a) THEN 1 ELSE 0) <= 1 + faults'
          /\ archiveFile \in {"taken", "done"} /\ ~ToStore(a) => Past(a)'
  BY <1>1 DEF ArchiveOK, FaultsGrow, Past
<1>3. ByMail' = ByMail
  BY DEF ByMail
<1>4. archiveFile \in {"taken", "done"} /\ ~ToStore("mail-archive") => ByMail \subseteq Accounted'
  BY AccountedStays, ByMailIsDue DEF ArchiveOK, Accounted
<1>. QED BY <1>1, <1>2, <1>3, <1>4 DEF ArchiveOK, Accounted

(* Good is about the archives because of the copy that is still to be      *)
(* queued.                                                                 *)
LEMMA ArchiveGood ==
    ASSUME Good, UNCHANGED <<entry, out, tx, database, bounces, history, got>>,
           \/ faults' = faults /\ (ToStore("mail-archive")' => ToStore("mail-archive"))
           \/ faults' = faults + 1
    PROVE  Good'
<1>1. TypeOK'
  BY DEF Good, WInv, TypeOK, database, bounces, history
<1>2. Sending' /\ Disposed' /\ CleanTx'
  BY DEF Good, WInv, Sending, Disposed, CleanTx, AtHand, ElseWhere, history
<1>3. CopiesPaid'
  <2> SUFFICES ASSUME NEW r \in Everybody
               PROVE  (got[r] + Cardinality(Due(r)) + Pending(r) <= 1 + faults)'
    BY DEF CopiesPaid
  <2>1. Due(r)' = Due(r) /\ got'[r] = got[r]
    BY DEF Due
  <2>2. /\ Cardinality(Due(r)) \in Nat /\ got[r] \in Nat /\ faults \in Nat
        /\ got[r] + Cardinality(Due(r)) + Pending(r) <= 1 + faults
    BY DueFinite DEF Good, WInv, TypeOK, CopiesPaid
  <2>3. /\ Pending(r) \in {0, 1} /\ Pending(r)' \in {0, 1}
        /\ (ToStore("mail-archive")' => ToStore("mail-archive")) => Pending(r)' <= Pending(r)
    BY DEF Pending
  <2> DEFINE d == Cardinality(Due(r))
             p == Pending(r)
             q == Pending(r)'
  <2>4. Cardinality(Due(r)') = d
    BY <2>1
  <2> HIDE DEF d, p, q
  <2>5. got[r] + d + q <= 1 + faults'
    BY <2>2, <2>3 DEF d, p, q
  <2>. QED BY <2>1, <2>4, <2>5 DEF q
<1>. QED BY <1>1, <1>2, <1>3 DEF Good, WInv, history

LEMMA TodoFields ==
    ASSUME NEW w, NEW todo, NEW x, w \in [pc : {"idle", "archive"}, todo : Seq(Range(Archivers))],
           todo \in Seq(Range(Archivers)), x = [w EXCEPT !.todo = todo]
    PROVE  /\ x \in [pc : {"idle", "archive"}, todo : Seq(Range(Archivers))]
           /\ x.pc = w.pc /\ x.todo = todo
BY Zenon

(* The archiver that comes is past.                                        *)
LEMMA ArchiverPast ==
    ASSUME ArchiveOK, faults \in Nat, NEW a, Comes(a),
           archive' = [archive EXCEPT !.todo = Tail(archive.todo)],
           \/ archived' = [archived EXCEPT ![a] = @ + 1]
           \/ /\ archived' = archived
              /\ a \in logged' \/ (a = "mail-archive" /\ ~ArchivePublic),
           logged \subseteq logged', UNCHANGED <<archiveFile, faults>>,
           Accounted \cap Rcpts \subseteq Accounted',
           a = "mail-archive" => ByMail \subseteq Accounted'
    PROVE  /\ ArchiveOK' /\ archiveFile = "taken" /\ ToStore(a)
           /\ ToStore("mail-archive")' => ToStore("mail-archive")
           /\ ~ToStore(a)'
<1> DEFINE todo == archive.todo
<1>1. /\ todo \in Seq(Range(Archivers)) /\ todo # <<>> /\ IsInjective(todo) /\ Head(todo) = a
      /\ archive \in [pc : {"idle", "archive"}, todo : Seq(Range(Archivers))]
  BY DEF ArchiveOK, Comes
<1>2. /\ Tail(todo) \in Seq(Range(Archivers)) /\ IsInjective(Tail(todo)) /\ a \in Range(Archivers)
      /\ Range(Tail(todo)) = Range(todo) \ {a} /\ a \in Range(todo)
  BY <1>1, TailFacts
<1> HIDE DEF todo
<1>3. archive' = [archive EXCEPT !.todo = Tail(todo)]
  BY DEF todo
<1>4. /\ archive' \in [pc : {"idle", "archive"}, todo : Seq(Range(Archivers))]
      /\ archive'.pc = archive.pc /\ archive'.todo = Tail(todo)
  BY <1>1, <1>2, <1>3, TodoFields
<1>5. archive.pc # "idle" /\ archiveFile = "taken" /\ archiveFile' = "taken"
  BY <1>1 DEF ArchiveOK, todo
<1>6. \A b : ToStore(b) <=> b \in Range(todo)
  BY <1>5 DEF ToStore, todo
<1>7. \A b : ToStore(b)' <=> b \in Range(todo) \ {a}
  BY <1>2, <1>4, <1>5 DEF ToStore
<1>8. archived' \in [Range(Archivers) -> Nat]
  BY <1>2 DEF ArchiveOK
<1>9. ASSUME NEW b \in Range(Archivers)
      PROVE  /\ archived'[b] + (IF ToStore(b)' THEN 1 ELSE 0) <= 1 + faults
             /\ ~ToStore(b)' => Past(b)'
  <2>1. /\ archived[b] + (IF ToStore(b) THEN 1 ELSE 0) <= 1 + faults
        /\ ~ToStore(b) => Past(b)
        /\ archived[b] \in Nat /\ archived \in [Range(Archivers) -> Nat]
    BY <1>5 DEF ArchiveOK
  <2>2. CASE b = a
    <3>1. ToStore(b) /\ ~ToStore(b)'
      BY <1>2, <1>6, <1>7, <2>2
    <3>2. archived'[b] = archived[b] + 1 \/ archived'[b] = archived[b]
      BY <2>1, <2>2
    <3>3. archived'[b] <= 1 + faults
      BY <2>1, <3>1, <3>2
    <3>4. Past(b)'
      BY <1>2, <2>1, <2>2 DEF Past
    <3>. QED BY <3>1, <3>3, <3>4, <1>8
  <2>3. CASE b # a
    <3>1. ToStore(b)' <=> ToStore(b)
      BY <1>6, <1>7, <2>3
    <3>2. archived'[b] = archived[b]
      BY <2>1, <2>3
    <3>3. Past(b) => Past(b)'
      BY <3>2 DEF Past
    <3>. QED BY <2>1, <3>1, <3>2, <3>3
  <2>. QED BY <2>2, <2>3
<1>10. ByMail' = ByMail
  BY DEF ByMail
<1>11. ~ToStore("mail-archive")' => ByMail \subseteq Accounted'
  <2>1. ~ToStore("mail-archive") => ByMail \subseteq Accounted \cap Rcpts
    BY <1>5, ByMailIsDue DEF ArchiveOK, Accounted
  <2>. QED BY <1>6, <1>7, <2>1
<1>12. ArchiveOK'
  BY <1>2, <1>4, <1>5, <1>8, <1>9, <1>10, <1>11 DEF ArchiveOK, Accounted
<1>. QED BY <1>2, <1>5, <1>6, <1>7, <1>12

(***************************************************************************)
(* Mailing, with the archive that gets its copy by mail.                   *)
(***************************************************************************)
LEMMA PostmanSends ==
    ASSUME NEW S, S \subseteq AllDue, SentTo' = SentTo \cup S,
           AllDue' = AllDue, FailedFor' = FailedFor, givenUp' = givenUp
    PROVE  Postman!Next
<1>1. Postman!Send(S) /\ S \in SUBSET Rcpts
  BY DEF Postman!Send, AllDue
<1>. QED BY <1>1 DEF Postman!Next

LEMMA PostmanReports ==
    ASSUME NEW F, NEW X, F \subseteq Rcpts, X \subseteq AllDue,
           FailedFor' = FailedFor \cup F, givenUp' = givenUp \cup X,
           AllDue' = AllDue, SentTo' = SentTo
    PROVE  Postman!Next
<1>1. Postman!Report(F, X) /\ F \in SUBSET Rcpts /\ X \in SUBSET Rcpts
  BY DEF Postman!Report, AllDue
<1>. QED BY <1>1 DEF Postman!Next

LEMMA PostmanLetsGo ==
    ASSUME NEW S, S \subseteq AllDue \cap (SentTo \cup FailedFor \cup givenUp),
           AllDue' = AllDue \ S, SentTo' = SentTo, FailedFor' = FailedFor, givenUp' = givenUp
    PROVE  Postman!Next
<1>1. Postman!LetGo(S) /\ S \in SUBSET Rcpts
  BY DEF Postman!LetGo, AllDue
<1>. QED BY <1>1 DEF Postman!Next

LEMMA PostmanStays ==
    ASSUME AllDue' = AllDue, SentTo' = SentTo, FailedFor' = FailedFor, givenUp' = givenUp
    PROVE  Postman!Next
<1>1. Postman!Send({}) /\ {} \in SUBSET Rcpts
  BY DEF Postman!Send
<1>. QED BY <1>1 DEF Postman!Next

LEMMA MailRefines ==
    ASSUME Mails, UNCHANGED outlets
    PROVE  Postman!Next
<1>1. PICK S, F, X : SendsTo(S) \/ Reports(F, X) \/ Drops(S)
  BY DEF Mails
<1>2. ByOutlet' = ByOutlet
  BY DEF ByOutlet, ByMail, outlets, archiveVars
<1>3. AllDue = Awaiting \cup (ByOutlet \cap Rcpts)
  BY DEF AllDue, Awaiting
<1>4. AllDue' = Awaiting' \cup (ByOutlet \cap Rcpts)
  BY <1>2 DEF AllDue, Awaiting
<1>5. CASE SendsTo(S)
  BY <1>3, <1>4, <1>5, PostmanSends DEF SendsTo
<1>6. CASE Reports(F, X)
  BY <1>3, <1>4, <1>6, PostmanReports DEF Reports
<1>7. CASE Drops(S)
  <2> DEFINE T == S \ ByOutlet
  <2>1. T \subseteq AllDue \cap (SentTo \cup FailedFor \cup givenUp) /\ AllDue' = AllDue \ T
    BY <1>3, <1>4, <1>7 DEF Drops, Awaiting
  <2>2. SentTo' = SentTo /\ FailedFor' = FailedFor /\ givenUp' = givenUp
    BY <1>7 DEF Drops
  <2> HIDE DEF T
  <2>. QED BY <2>1, <2>2, PostmanLetsGo
<1>. QED BY <1>1, <1>5, <1>6, <1>7

(* What an archiver does, but for the one that sends mail.                 *)
LEMMA StoreKeeps ==
    ASSUME Good, ArchiveOK, NEW a, a # "mail-archive", Comes(a),
           archive' = [archive EXCEPT !.todo = Tail(archive.todo)],
           \/ archived' = [archived EXCEPT ![a] = @ + 1]
           \/ archived' = archived /\ a \in logged',
           logged \subseteq logged', logged' \subseteq logged \cup {a},
           UNCHANGED <<archiveFile, vars>>
    PROVE  Good' /\ ArchiveOK' /\ Postman!Next
<1>1. UNCHANGED <<entry, out, tx, database, bounces, history, got, faults>>
  BY DEF vars
<1>2. FailedFor' = FailedFor
  BY <1>1 DEF FailedFor, ByMail, database, history
<1>3. InEntries' = InEntries /\ SentTo' = SentTo /\ givenUp' = givenUp
  BY <1>1 DEF InEntries, SentTo, history
<1>4. Accounted' = Accounted /\ faults \in Nat
  BY <1>2, <1>3 DEF Accounted, Good, WInv, TypeOK
<1>5. ArchiveOK' /\ (ToStore("mail-archive")' => ToStore("mail-archive"))
  BY <1>1, <1>4, ArchiverPast
<1>6. Good'
  BY <1>1, <1>5, ArchiveGood
<1>7. AllDue' = AllDue
  BY <1>3 DEF AllDue, ByOutlet, ByMail
<1>. QED BY <1>2, <1>3, <1>5, <1>6, <1>7, PostmanStays

(* The copy by mail: an entry of its own instead of what was pending.      *)
LEMMA CopyKeeps ==
    ASSUME Good, ToStore("mail-archive"), ~ToStore("mail-archive")',
           entry' = Enqueued(CopyFor(MailAddress), "out"),
           UNCHANGED <<out, tx, database, bounces, history, got, faults>>
    PROVE  Good'
<1> DEFINE n == NewId
<1>1. IsFiniteSet(DOMAIN entry)
  BY DEF Good, WInv, TypeOK
<1>2. /\ DOMAIN entry' = DOMAIN entry \cup {n}
      /\ n \notin DOMAIN entry /\ n \in Nat /\ entry'[n] = Queued(CopyFor(MailAddress), "out")
      /\ \A j \in DOMAIN entry : entry'[j] = entry[j]
  BY <1>1, Adds
<1> HIDE DEF n
<1>3. Sound(entry'[n]) /\ entry'[n].rcpts = {MailAddress}
  <2>1. Sound(CopyFor(MailAddress)) /\ CopyFor(MailAddress).rcpts = {MailAddress} /\ "out" \in Queues
    BY NewEntries DEF Queues
  <2>2. /\ Sound(Queued(CopyFor(MailAddress), "out"))
        /\ Queued(CopyFor(MailAddress), "out").rcpts = {MailAddress}
    BY <2>1, EntryFields DEF SameMail
  <2>. QED BY <1>2, <2>2
<1>4. IsFiniteSet(DOMAIN entry')
  BY <1>1, <1>2, Grown
<1>5. TypeOK'
  BY <1>2, <1>3, <1>4 DEF Good, WInv, TypeOK, database, bounces, history
<1>6. Sending' /\ CleanTx'
  BY <1>2 DEF Sending, CleanTx, AtHand, Good, WInv
<1>7. Disposed'
  BY <1>2 DEF Disposed, ElseWhere, AtHand, Good, WInv, history
<1>8. CopiesPaid'
  <2> SUFFICES ASSUME NEW r \in Everybody
               PROVE  (got[r] + Cardinality(Due(r)) + Pending(r) <= 1 + faults)'
    BY DEF CopiesPaid
  <2>1. /\ IsFiniteSet(Due(r)) /\ Cardinality(Due(r)) \in Nat /\ got[r] \in Nat /\ faults \in Nat
        /\ got[r] + Cardinality(Due(r)) + Pending(r) <= 1 + faults
    BY DueFinite DEF Good, WInv, TypeOK, CopiesPaid
  <2>2. got'[r] = got[r] /\ faults' = faults /\ Pending(r)' = 0
    BY DEF Pending
  <2> DEFINE D == Due(r)
             E == Due(r)'
             p == Pending(r)
  <2>3. CASE r = MailAddress
    <3>1. p = 1
      BY <2>3 DEF Pending
    <3>2. E \subseteq D \cup {n}
      BY <1>2 DEF Due
    <3> HIDE DEF D, E, p
    <3>3. Cardinality(E) \in Nat /\ Cardinality(E) <= Cardinality(D) + 1
      BY <2>1, <3>2, Grown DEF D
    <3>4. got[r] + Cardinality(E) + 0 <= 1 + faults
      BY <2>1, <3>1, <3>3 DEF D, p
    <3>. QED BY <2>2, <3>4 DEF E
  <2>4. CASE r # MailAddress
    <3>1. p = 0
      BY <2>4 DEF Pending
    <3>2. E \subseteq D
      BY <1>2, <1>3, <2>4 DEF Due
    <3> HIDE DEF D, E, p
    <3>3. Cardinality(E) \in Nat /\ Cardinality(E) <= Cardinality(D)
      BY <2>1, <3>2, Shrunk DEF D
    <3>4. got[r] + Cardinality(E) + 0 <= 1 + faults
      BY <2>1, <3>1, <3>3 DEF D, p
    <3>. QED BY <2>2, <3>4 DEF E
  <2>. QED BY <2>3, <2>4
<1>9. ~twice'
  BY DEF history, Good
<1>. QED BY <1>5, <1>6, <1>7, <1>8, <1>9 DEF Good, WInv

LEMMA MailArchiveKeeps ==
    ASSUME Good, ArchiveOK, MailArchive
    PROVE  Good' /\ ArchiveOK' /\ Postman!Next
<1> DEFINE a == "mail-archive"
<1>1. /\ Comes(a)
      /\ UNCHANGED <<archiveFile, newsVars, out, tx, database, bounces, history, got, faults>>
  BY DEF MailArchive
<1>2. archive' = [archive EXCEPT !.todo = Tail(archive.todo)]
  BY DEF MailArchive, Stored, ArchiverFails
<1>3. SentTo' = SentTo /\ givenUp' = givenUp /\ ByOutlet' = ByOutlet /\ faults \in Nat
  BY <1>1 DEF SentTo, history, ByOutlet, ByMail, Good, WInv, TypeOK
<1>4. CASE /\ ArchivePublic /\ Stored(a) /\ UNCHANGED logged
           /\ entry' = Enqueued([Fresh EXCEPT !.rcpts = {MailAddress}], "out")
  <2>1. entry' = Enqueued(CopyFor(MailAddress), "out") /\ IsFiniteSet(DOMAIN entry)
    BY <1>4 DEF CopyFor, Good, WInv, TypeOK
  <2> DEFINE n == NewId
  <2>2. /\ DOMAIN entry' = DOMAIN entry \cup {n} /\ n \notin DOMAIN entry
        /\ entry'[n] = Queued(CopyFor(MailAddress), "out")
        /\ \A j \in DOMAIN entry : entry'[j] = entry[j]
    BY <2>1, Adds
  <2>3. Queued(CopyFor(MailAddress), "out").rcpts = {MailAddress}
    BY NewEntries, EntryFields DEF Queues, SameMail
  <2> HIDE DEF n
  <2>4. InEntries' = InEntries \cup {MailAddress}
    BY <2>2, <2>3 DEF InEntries
  <2>5. FailedFor' = FailedFor
    BY <1>1, <1>4 DEF FailedFor, ByMail, database, history
  <2>6. /\ archived' = [archived EXCEPT ![a] = @ + 1]
        /\ ByMail \subseteq {MailAddress}
    BY <1>4 DEF Stored, ByMail
  <2>7. Accounted \cap Rcpts \subseteq Accounted' /\ ByMail \subseteq Accounted'
    BY <1>3, <2>4, <2>5, <2>6 DEF Accounted
  <2>8. /\ ArchiveOK' /\ archiveFile = "taken" /\ ToStore(a) /\ ~ToStore(a)'
    BY <1>1, <1>2, <1>3, <1>4, <2>6, <2>7, ArchiverPast
  <2>9. Good'
    BY <1>1, <2>1, <2>8, CopyKeeps
  <2>10. MailAddress \in ByOutlet
    <3>1. a \in Range(Archivers)
      <4>1. archive.todo \in Seq(Range(Archivers)) /\ archive.todo # <<>> /\ Head(archive.todo) = a
        BY <1>1 DEF ArchiveOK, Comes
      <4>. QED BY <4>1
    <3>. QED BY <1>4, <2>8, <3>1 DEF ByOutlet, ByMail
  <2>11. AllDue' = AllDue
    BY <1>3, <2>4, <2>10 DEF AllDue
  <2>. QED BY <1>3, <2>5, <2>8, <2>9, <2>11, PostmanStays
<1>5. CASE ArchivePublic /\ ArchiverFails(a) /\ UNCHANGED entry
  <2>1. UNCHANGED <<entry, out, tx, database, bounces, history, got, faults>>
    BY <1>1, <1>5
  <2>2. archived' = archived /\ logged' = logged \cup {a}
    BY <1>5 DEF ArchiverFails
  <2>3. FailedFor' = FailedFor \cup ByMail
    BY <2>1, <2>2 DEF FailedFor, ByMail, database, history
  <2>4. InEntries' = InEntries
    BY <2>1 DEF InEntries
  <2>5. Accounted \cap Rcpts \subseteq Accounted' /\ ByMail \subseteq Accounted'
    BY <1>3, <2>3, <2>4 DEF Accounted
  <2>6. ArchiveOK' /\ (ToStore(a)' => ToStore(a))
    BY <1>1, <1>2, <1>3, <2>2, <2>5, ArchiverPast
  <2>7. Good'
    BY <2>1, <2>6, ArchiveGood
  <2>8. AllDue' = AllDue
    BY <1>3, <2>4 DEF AllDue
  <2>9. Postman!Report(ByMail, {})
    BY <1>3, <2>3, <2>8, ByMailIsDue DEF Postman!Report
  <2>10. Postman!Next
    BY <2>9, ByMailIsDue DEF Postman!Next
  <2>. QED BY <2>6, <2>7, <2>10
<1>6. CASE ~ArchivePublic /\ UNCHANGED <<archived, logged, entry>>
  <2>1. UNCHANGED <<entry, out, tx, database, bounces, history, got, faults>>
    BY <1>1, <1>6
  <2>2. FailedFor' = FailedFor /\ InEntries' = InEntries
    BY <1>6, <2>1 DEF FailedFor, ByMail, database, history, InEntries
  <2>3. Accounted' = Accounted /\ ByMail = {}
    BY <1>3, <1>6, <2>2 DEF Accounted, ByMail
  <2>4. ArchiveOK' /\ (ToStore(a)' => ToStore(a))
    BY <1>1, <1>2, <1>3, <1>6, <2>3, ArchiverPast
  <2>5. Good'
    BY <2>1, <2>4, ArchiveGood
  <2>6. AllDue' = AllDue
    BY <1>3, <2>2 DEF AllDue
  <2>. QED BY <1>3, <2>2, <2>4, <2>5, <2>6, PostmanStays
<1>. QED BY <1>4, <1>5, <1>6 DEF MailArchive

LEMMA ArchiveDequeueKeeps ==
    ASSUME Good, ArchiveOK, ArchiveDequeue
    PROVE  Good' /\ ArchiveOK' /\ Postman!Next
<1>1. /\ archive.pc = "idle" /\ archiveFile = "queue" /\ archiveFile' = "taken"
      /\ archive' = [pc |-> "archive", todo |-> Archivers]
      /\ UNCHANGED <<archived, logged, vars>>
  BY DEF ArchiveDequeue
<1>2. UNCHANGED <<entry, out, tx, database, bounces, history, got, faults>>
  BY <1>1 DEF vars
<1>3. Archivers \in Seq(Range(Archivers)) /\ IsInjective(Archivers)
  BY OutletsAssumption DEF Range
<1>4. /\ archive' \in [pc : {"idle", "archive"}, todo : Seq(Range(Archivers))]
      /\ archive'.pc = "archive" /\ archive'.todo = Archivers
  BY <1>1, <1>3
<1>5. \A a : ToStore(a) /\ (ToStore(a)' <=> a \in Range(Archivers))
  BY <1>1, <1>4 DEF ToStore
<1>6. \A a \in Range(Archivers) :
        archived'[a] + (IF ToStore(a)' THEN 1 ELSE 0) <= 1 + faults'
  BY <1>1, <1>2, <1>5 DEF ArchiveOK
<1>7. ~ToStore("mail-archive")' => ByMail' = {}
  BY <1>5 DEF ByMail
<1>8. ArchiveOK'
  BY <1>1, <1>3, <1>4, <1>5, <1>6, <1>7 DEF ArchiveOK
<1>9. Good'
  BY <1>2, <1>5, ArchiveGood
<1>10. AllDue' = AllDue
  BY <1>1, <1>2 DEF AllDue, InEntries, ByOutlet, ByMail
<1>11. SentTo' = SentTo /\ FailedFor' = FailedFor /\ givenUp' = givenUp
  BY <1>1, <1>2 DEF SentTo, FailedFor, ByMail, database, history
<1>. QED BY <1>8, <1>9, <1>10, <1>11, PostmanStays

LEMMA ArchiveFinishKeeps ==
    ASSUME Good, ArchiveOK, ArchiveFinish
    PROVE  Good' /\ ArchiveOK' /\ Postman!Next
<1>1. /\ archive.pc = "archive" /\ archive.todo = <<>>
      /\ archiveFile' = "done" /\ archive' = ArchiveIdle
      /\ UNCHANGED <<archived, logged, vars>>
  BY DEF ArchiveFinish
<1>2. UNCHANGED <<entry, out, tx, database, bounces, history, got, faults>>
  BY <1>1 DEF vars
<1>3. archiveFile = "taken"
  BY <1>1 DEF ArchiveOK
<1>4. /\ ArchiveIdle.pc = "idle" /\ ArchiveIdle.todo = <<>> /\ Range(<<>>) = {}
      /\ ArchiveIdle \in [pc : {"idle", "archive"}, todo : Seq(Range(Archivers))]
      /\ IsInjective(<<>>)
  BY DEF ArchiveIdle, Range, IsInjective
<1>5. \A a : ~ToStore(a) /\ ~ToStore(a)'
  BY <1>1, <1>3, <1>4 DEF ToStore
<1>6. \A a \in Range(Archivers) :
        /\ archived'[a] + (IF ToStore(a)' THEN 1 ELSE 0) <= 1 + faults'
        /\ Past(a)'
  BY <1>1, <1>2, <1>3, <1>5 DEF ArchiveOK, Past
<1>7. /\ InEntries' = InEntries /\ SentTo' = SentTo /\ FailedFor' = FailedFor
      /\ givenUp' = givenUp /\ ByMail' = ByMail
  BY <1>1, <1>2 DEF InEntries, SentTo, FailedFor, ByMail, database, history
<1>8. ByMail \subseteq InEntries \cup SentTo \cup FailedFor \cup givenUp
  BY <1>3, <1>5 DEF ArchiveOK
<1>9. archived' \in [Range(Archivers) -> Nat]
  BY <1>1 DEF ArchiveOK
<1>10. ArchiveOK'
  BY <1>1, <1>4, <1>6, <1>7, <1>8, <1>9 DEF ArchiveOK
<1>11. Good'
  BY <1>2, <1>5, ArchiveGood
<1> DEFINE S == AllDue \ InEntries
<1>12. AllDue' = AllDue \ S /\ S \subseteq AllDue \cap (SentTo \cup FailedFor \cup givenUp)
  BY <1>1, <1>3, <1>7, <1>8 DEF AllDue, ByOutlet
<1> HIDE DEF S
<1>. QED BY <1>7, <1>10, <1>11, <1>12, PostmanLetsGo

LEMMA ArchiveCrashKeeps ==
    ASSUME Good, ArchiveOK, ArchiveCrash
    PROVE  Good' /\ ArchiveOK' /\ Postman!Next
<1>1. /\ archive.pc # "idle" /\ faults' = faults + 1
      /\ archiveFile' = "queue" /\ archive' = ArchiveIdle
      /\ UNCHANGED <<entry, out, tx, database, bounces, history, got, archived, logged>>
  BY DEF ArchiveCrash, DieOnce
<1>2. archiveFile = "taken"
  BY <1>1 DEF ArchiveOK
<1>3. /\ ArchiveIdle.pc = "idle" /\ ArchiveIdle.todo = <<>>
      /\ ArchiveIdle \in [pc : {"idle", "archive"}, todo : Seq(Range(Archivers))]
      /\ IsInjective(<<>>)
  BY DEF ArchiveIdle, IsInjective
<1>4. \A a : ToStore(a)'
  BY <1>1 DEF ToStore
<1>5. archived' \in [Range(Archivers) -> Nat] /\ faults \in Nat
  BY <1>1 DEF ArchiveOK, Good, WInv, TypeOK
<1>6. \A a \in Range(Archivers) : archived[a] \in Nat /\ archived[a] <= 1 + faults
  BY <1>5, <1>1 DEF ArchiveOK
<1>7. \A a \in Range(Archivers) : archived'[a] + (IF ToStore(a)' THEN 1 ELSE 0) <= 1 + faults'
  BY <1>1, <1>4, <1>5, <1>6
<1>8. ArchiveOK'
  BY <1>1, <1>3, <1>4, <1>5, <1>7 DEF ArchiveOK
<1>9. Good'
  BY <1>1, ArchiveGood
<1>10. AllDue' = AllDue
  BY <1>1, <1>2 DEF AllDue, InEntries, ByOutlet, ByMail
<1>11. SentTo' = SentTo /\ FailedFor' = FailedFor /\ givenUp' = givenUp
  BY <1>1 DEF SentTo, FailedFor, ByMail, database, history
<1>. QED BY <1>8, <1>9, <1>10, <1>11, PostmanStays

--------------------------------------------------------------------------------
(***************************************************************************)
(* The invariant.                                                          *)
(***************************************************************************)
LEMMA IInvIs ==
    IInv <=> Good /\ ProbesPaid /\ NewsOK /\ ArchiveOK
BY DEF IInv, Good, WInv

LEMMA NewsLeavesTheRest ==
    ASSUME IInv, UNCHANGED <<entry, out, tx, database, bounces, history, got, archiveVars>>,
           logged \subseteq logged', logged' \subseteq logged \cup {"news"}, FaultsGrow
    PROVE  Good' /\ ProbesPaid' /\ ArchiveOK' /\ Postman!Next
<1>1. Good /\ ProbesPaid /\ ArchiveOK /\ faults \in Nat
  BY IInvIs DEF Good, WInv, TypeOK
<1>2. ToStore("mail-archive")' => ToStore("mail-archive")
  BY DEF archiveVars, ToStore
<1>3. Good'
  BY <1>1, <1>2, ArchiveGood DEF FaultsGrow
<1>4. ProbesPaid'
  BY <1>1, ProbesSame DEF database, history
<1>5. /\ InEntries' = InEntries /\ SentTo' = SentTo /\ FailedFor' = FailedFor
      /\ givenUp' = givenUp
  BY DEF InEntries, SentTo, FailedFor, ByMail, database, history
<1>6. Mails
  BY <1>5, Still DEF Awaiting
<1>7. ArchiveOK'
  BY <1>1, <1>6, ArchiveStays
<1>8. AllDue' = AllDue
  BY <1>5 DEF AllDue, ByOutlet, ByMail, archiveVars
<1>. QED BY <1>3, <1>4, <1>5, <1>7, <1>8, PostmanStays

LEMMA NewsInductive ==
    ASSUME IInv, NewsRunner \/ NewsUnshunt \/ NewsCrash
    PROVE  IInv' /\ Postman!Next
<1>1. NewsOK /\ faults \in Nat
  BY DEF IInv, TypeOK
<1>2. CASE NewsRunner \/ NewsUnshunt
  <2>1. UNCHANGED <<vars, archiveVars>>
    BY <1>2 DEF NewsRunner, NewsDequeue, Prepare, NoConnection, Post, PostFails, Quit,
                QuitFails, NewsFinish, NewsUnshunt
  <2>2. logged' = logged \/ logged' = logged \cup {"news"}
    BY <1>2 DEF NewsRunner, NewsDequeue, Prepare, NoConnection, Post, PostFails, Quit,
                QuitFails, NewsFinish, NewsUnshunt
  <2>3. /\ UNCHANGED <<entry, out, tx, database, bounces, history, got, archiveVars>>
        /\ UNCHANGED faults
    BY <2>1 DEF vars
  <2>4. NewsOK'
    BY <1>1, <1>2, <2>3, NewsKeeps
  <2>5. Good' /\ ProbesPaid' /\ ArchiveOK' /\ Postman!Next
    BY <2>2, <2>3, NewsLeavesTheRest DEF FaultsGrow
  <2>. QED BY <2>4, <2>5 DEF IInv, Good, WInv
<1>3. CASE NewsCrash
  <2>1. /\ UNCHANGED <<entry, out, tx, database, bounces, history, got, archiveVars, logged>>
        /\ faults' = faults + 1
    BY <1>3 DEF NewsCrash, DieOnce
  <2>2. NewsOK'
    BY <1>1, <1>3, NewsKeeps
  <2>3. Good' /\ ProbesPaid' /\ ArchiveOK' /\ Postman!Next
    BY <2>1, NewsLeavesTheRest DEF FaultsGrow
  <2>. QED BY <2>2, <2>3 DEF IInv, Good, WInv
<1>. QED BY <1>2, <1>3

LEMMA ArchiveInductive ==
    ASSUME IInv, ArchiveRunner \/ ArchiveCrash
    PROVE  IInv' /\ Postman!Next
<1>1. Good /\ ProbesPaid /\ NewsOK /\ ArchiveOK /\ faults \in Nat
  BY IInvIs DEF Good, WInv, TypeOK
<1>2. Good' /\ ArchiveOK' /\ Postman!Next
  <2>1. CASE Prototype
    <3>1. /\ Comes("prototype") /\ UNCHANGED <<archiveFile, vars>>
          /\ archive' = [archive EXCEPT !.todo = Tail(archive.todo)]
          /\ \/ archived' = [archived EXCEPT !["prototype"] = @ + 1] /\ logged' = logged
             \/ archived' = archived /\ logged' = logged \cup {"prototype"}
      BY <2>1 DEF Prototype, Stored, ArchiverFails
    <3>. QED BY <1>1, <3>1, StoreKeeps
  <2>2. CASE MHonArc
    <3>1. /\ Comes("mhonarc") /\ UNCHANGED <<archiveFile, vars>>
          /\ archive' = [archive EXCEPT !.todo = Tail(archive.todo)]
          /\ \/ archived' = [archived EXCEPT !["mhonarc"] = @ + 1]
             \/ archived' = archived /\ "mhonarc" \in logged'
          /\ logged \subseteq logged' /\ logged' \subseteq logged \cup {"mhonarc"}
      BY <2>2 DEF MHonArc, Stored, ArchiverFails
    <3>. QED BY <1>1, <3>1, StoreKeeps
  <2>. QED BY <1>1, <2>1, <2>2, MailArchiveKeeps, ArchiveDequeueKeeps, ArchiveFinishKeeps,
              ArchiveCrashKeeps DEF ArchiveRunner
<1>3. /\ UNCHANGED <<newsVars, tx, token, probes, overlaps>> /\ FaultsGrow
      /\ logged \subseteq logged'
  <2>1. CASE ArchiveDequeue \/ Prototype \/ MHonArc \/ ArchiveFinish
    <3>1. UNCHANGED <<newsVars, vars>>
      BY <2>1 DEF ArchiveDequeue, Prototype, MHonArc, ArchiveFinish
    <3>2. logged \subseteq logged'
      BY <2>1 DEF ArchiveDequeue, Prototype, MHonArc, ArchiveFinish, ArchiverFails
    <3>. QED BY <3>1, <3>2 DEF vars, database, history, FaultsGrow
  <2>2. CASE MailArchive
    <3>1. logged \subseteq logged'
      BY <2>2 DEF MailArchive, ArchiverFails
    <3>. QED BY <2>2, <3>1 DEF MailArchive, database, history, FaultsGrow
  <2>3. CASE ArchiveCrash
    BY <2>3 DEF ArchiveCrash, DieOnce, database, history, FaultsGrow
  <2>. QED BY <2>1, <2>2, <2>3 DEF ArchiveRunner
<1>4. ProbesPaid' /\ NewsOK'
  BY <1>1, <1>3, ProbesSame, NewsStays
<1>. QED BY <1>2, <1>4 DEF IInv, Good, WInv

LEMMA MailInductive ==
    ASSUME IInv, Mail(Next)
    PROVE  IInv' /\ Postman!Next
<1>1. Good /\ ProbesPaid /\ NewsOK /\ ArchiveOK /\ faults \in Nat /\ UNCHANGED outlets
  BY IInvIs DEF Good, WInv, TypeOK, Mail
<1>2. Good' /\ ProbesPaid' /\ Mails /\ FaultsGrow
  BY <1>1, MailDelivers DEF Delivers
<1>3. UNCHANGED <<newsVars, archiveVars, logged>>
  BY <1>1 DEF outlets
<1>4. NewsOK' /\ ArchiveOK'
  BY <1>1, <1>2, <1>3, NewsStays, ArchiveStays
<1>5. Postman!Next
  BY <1>1, <1>2, MailRefines
<1>. QED BY <1>2, <1>4, <1>5 DEF IInv, Good, WInv

LEMMA Inductive ==
    ASSUME IInv, [OutletsNext]_allVars
    PROVE  IInv' /\ [Postman!Next]_<<AllDue, SentTo, FailedFor, givenUp>>
<1>1. CASE OutletsNext
  BY <1>1, MailInductive, NewsInductive, ArchiveInductive DEF OutletsNext
<1>2. CASE UNCHANGED allVars
  <2>1. UNCHANGED <<entry, out, tx, database, bounces, history, got, faults, newsVars,
                    archiveVars, logged>>
    BY <1>2 DEF allVars, vars, outlets
  <2>2. Good' /\ ProbesPaid' /\ ArchiveOK'
    BY <2>1, NewsLeavesTheRest DEF FaultsGrow
  <2>3. NewsOK'
    BY <2>1, NewsStays DEF FaultsGrow, IInv, TypeOK
  <2>4. UNCHANGED <<AllDue, SentTo, FailedFor, givenUp>>
    BY <2>1 DEF AllDue, InEntries, ByOutlet, ByMail, SentTo, FailedFor, database, history,
                archiveVars
  <2>. QED BY <2>2, <2>3, <2>4 DEF IInv, Good, WInv
<1>. QED BY <1>1, <1>2

LEMMA Initially ==
    ASSUME OutletsInit
    PROVE  IInv /\ Postman!Init
<1>1. \/ entry = <<>> /\ token = FALSE /\ archiveFile \in {"none", "queue"}
      \/ \E e \in {Fresh, Probe} :
            entry = [i \in {1} |-> e] /\ token = e.token /\ archiveFile = "none"
  BY DEF OutletsInit, Init, Start
<1>2. /\ out = IdleOut /\ tx = [r \in Runners |-> NoTx] /\ member = TRUE
      /\ scored = {} /\ probes = 0 /\ returned = {} /\ returns = 0
      /\ got = [r \in Everybody |-> 0] /\ lost = {} /\ givenUp = {}
      /\ twice = FALSE /\ overlaps = 0 /\ faults = 0
  BY DEF OutletsInit, Init, Start
<1>3. /\ \E place \in {"none", "queue"} : newsFile = [place |-> place, article |-> 0]
      /\ news = NewsIdle /\ archive = ArchiveIdle /\ articles = 0 /\ newsgroup = {}
      /\ archived = [a \in Range(Archivers) |-> 0] /\ logged = {}
  BY DEF OutletsInit
<1>4. /\ \A i \in DOMAIN entry : i = 1 /\ Sound(entry[i])
      /\ token \in BOOLEAN
  <2>1. CASE entry = <<>> /\ token = FALSE
    <3>1. DOMAIN entry = {}
      BY <2>1
    <3>. QED BY <2>1, <3>1
  <2>2. ASSUME NEW e \in {Fresh, Probe}, entry = [i \in {1} |-> e], token = e.token
        PROVE  (\A i \in DOMAIN entry : i = 1 /\ Sound(entry[i])) /\ token \in BOOLEAN
    BY <2>2, NewEntries DEF Sound, Entry
  <2>. QED BY <1>1, <2>1, <2>2
<1>5. IsFiniteSet(DOMAIN entry)
  <2>1. DOMAIN entry \subseteq {1}
    BY <1>4
  <2>. QED BY <2>1, FS_Singleton, FS_Subset
<1>6. TypeOK
  <2>1. tx \in [Runners -> Tx] /\ got \in [Everybody -> Nat] /\ out \in Work
    BY <1>2, IdleFields, TxFields
  <2>2. DOMAIN entry \subseteq Nat
    BY <1>4
  <2>. QED BY <1>2, <1>4, <1>5, <2>1, <2>2 DEF TypeOK
<1>7. Sending /\ Disposed /\ CleanTx
  BY <1>2, IdleFields DEF Sending, Disposed, CleanTx, Runners
<1>8. CopiesPaid
  <2> SUFFICES ASSUME NEW r \in Everybody
               PROVE  got[r] + Cardinality(Due(r)) + Pending(r) <= 1 + faults
    BY DEF CopiesPaid
  <2>1. got[r] = 0 /\ faults = 0
    BY <1>2
  <2>2. CASE entry = <<>>
    <3>1. Due(r) = {}
      BY <2>2 DEF Due
    <3>. QED BY <2>1, <3>1, FS_EmptySet DEF Pending
  <2>3. CASE archiveFile = "none"
    <3>1. Pending(r) = 0
      <4>1. archive.todo = <<>>
        BY <1>3 DEF ArchiveIdle
      <4>. QED BY <2>3, <4>1 DEF Pending, ToStore, Range
    <3>2. Due(r) \subseteq {1}
      BY <1>4 DEF Due
    <3>3. Cardinality(Due(r)) \in Nat /\ Cardinality(Due(r)) <= 1
      <4>1. IsFiniteSet({1}) /\ Cardinality({1}) = 1
        BY FS_Singleton
      <4>. QED BY <3>2, <4>1, Shrunk
    <3>. QED BY <2>1, <3>1, <3>3
  <2>. QED BY <1>1, <2>2, <2>3
<1>9. ProbesPaid
  <2>1. \A x \in Runners : ~tx[x].probe
    BY <1>2, TxFields
  <2>2. Cardinality(Probing) = 0
    BY <2>1, FS_EmptySet DEF Probing
  <2>. QED BY <1>2, <2>1, <2>2 DEF ProbesPaid
<1>10. NewsOK
  BY <1>2, <1>3 DEF NewsOK, NewsFine, NewsFile, NewsWork, NewsIdle, NewsStates
<1>11. ArchiveOK
  <2>1. /\ archive.pc = "idle" /\ archive.todo = <<>> /\ IsInjective(archive.todo)
        /\ archive \in [pc : {"idle", "archive"}, todo : Seq(Range(Archivers))]
    BY <1>3 DEF ArchiveIdle, IsInjective
  <2>2. archiveFile \in {"none", "queue"} /\ archived \in [Range(Archivers) -> Nat]
    BY <1>1, <1>3
  <2>3. \A a \in Range(Archivers) : archived[a] + (IF ToStore(a) THEN 1 ELSE 0) <= 1 + faults
    BY <1>2, <1>3
  <2>. QED BY <2>1, <2>2, <2>3 DEF ArchiveOK
<1>12. Postman!Init
  <2>1. SentTo = {}
    BY <1>2 DEF SentTo, Everybody
  <2>2. FailedFor = {}
    BY <1>2, <1>3, TxFields DEF FailedFor
  <2>. QED BY <1>2, <2>1, <2>2 DEF Postman!Init, AllDue
<1>. QED BY <1>2, <1>6, <1>7, <1>8, <1>9, <1>10, <1>11, <1>12 DEF IInv

LEMMA Invariance == OutletsSpec => []IInv
<1>1. OutletsInit => IInv
  BY Initially
<1>2. IInv /\ [OutletsNext]_allVars => IInv'
  BY Inductive
<1>. QED BY <1>1, <1>2, PTL DEF OutletsSpec

--------------------------------------------------------------------------------
(***************************************************************************)
(* Theorems.                                                               *)
(***************************************************************************)
(* Nobody gets a message more often than once and once for each fault,     *)
(* each copy is decorated once, and a failed probe is registered once and  *)
(* once for each time that two transactions had its token (runners/        *)
(* outgoing.py, runners/retry.py, runners/bounce.py).                      *)
THEOREM NoSecondCopy == OutletsSpec => []NothingTwice
<1>1. IInv => NothingTwice
  <2> SUFFICES ASSUME IInv PROVE NothingTwice
    OBVIOUS
  <2>1. ASSUME NEW r \in Everybody
        PROVE  got[r] <= 1 + faults
    <3>1. got[r] + Cardinality(Due(r)) + Pending(r) <= 1 + faults
      BY DEF IInv, CopiesPaid
    <3>2. Cardinality(Due(r)) \in Nat /\ Pending(r) \in Nat
      BY DueFinite DEF IInv, Pending
    <3>3. got[r] \in Nat /\ faults \in Nat
      BY DEF IInv, TypeOK
    <3>. QED BY <3>1, <3>2, <3>3
  <2>2. probes <= 1 + overlaps
    <3>1. probes + Cardinality(Probing) <= 1 + overlaps
      BY DEF IInv, ProbesPaid
    <3>2. probes \in Nat /\ overlaps \in Nat
      BY DEF IInv, TypeOK
    <3>. QED BY <3>1, <3>2, ProbingFinite
  <2>. QED BY <2>1, <2>2 DEF NothingTwice, IInv
<1>. QED BY <1>1, Invariance, PTL

(* The newsgroup and the archives get the posting, or the log says why     *)
(* not, and they get it once more at most for each runner that died        *)
(* (runners/nntp.py, runners/archive.py).                                  *)
THEOREM OutletsGetThePosting == OutletsSpec => []OutletsServed
<1>1. IInv => OutletsServed
  <2> SUFFICES ASSUME IInv PROVE OutletsServed
    OBVIOUS
  <2>1. faults \in Nat /\ archive.todo \in Seq(Range(Archivers))
    BY DEF IInv, TypeOK, ArchiveOK
  <2>2. /\ articles \in Nat /\ newsgroup \subseteq 1 .. articles /\ articles <= 1 + faults
        /\ newsFile.place = "done" => newsgroup # {} \/ "news" \in logged
    BY DEF IInv, NewsOK, NewsFine
  <2>3. Cardinality(newsgroup) <= 1 + faults
    <3>1. IsFiniteSet(1 .. articles) /\ Cardinality(1 .. articles) = articles
      BY <2>2, FS_Interval
    <3>2. Cardinality(newsgroup) \in Nat /\ Cardinality(newsgroup) <= articles
      BY <2>2, <3>1, Shrunk
    <3>. QED BY <2>1, <2>2, <3>2
  <2>4. ASSUME NEW a \in Range(Archivers)
        PROVE  /\ archived[a] <= 1 + faults
               /\ archiveFile = "done" /\ archived[a] = 0 =>
                     a \in logged \/ (a = "mail-archive" /\ ~ArchivePublic)
    <3>1. archived[a] + (IF ToStore(a) THEN 1 ELSE 0) <= 1 + faults /\ archived[a] \in Nat
      BY DEF IInv, ArchiveOK
    <3>2. archiveFile = "done" => ~ToStore(a)
      <4>1. archiveFile = "done" => archive.todo = <<>>
        BY DEF IInv, ArchiveOK
      <4>. QED BY <4>1 DEF ToStore, Range
    <3>3. archiveFile = "done" => Past(a)
      BY <3>2 DEF IInv, ArchiveOK
    <3>. QED BY <2>1, <3>1, <3>3 DEF Past
  <2>. QED BY <2>2, <2>3, <2>4 DEF OutletsServed
<1>. QED BY <1>1, Invariance, PTL

(* Delivery, with its queues, transactions and crashes, and the archive    *)
(* that gets its copy by mail, implements Mailing: whoever is due stays    *)
(* due until served, reported or given up (runners/outgoing.py:125-165,    *)
(* archiving/mailarchive.py:68-76).                                        *)
THEOREM DeliveryImplementsMailing == OutletsSpec => KeepsPromise
<1>1. OutletsInit => Postman!Init
  BY Initially
<1>2. IInv /\ [OutletsNext]_allVars => [Postman!Next]_<<AllDue, SentTo, FailedFor, givenUp>>
  BY Inductive
<1>. QED BY <1>1, <1>2, Invariance, PTL DEF OutletsSpec, KeepsPromise, Postman!Spec
================================================================================
