-------------------------------- MODULE Delivery --------------------------------
(***************************************************************************)
(* Outgoing delivery: the outgoing runner (mailman/runners/outgoing.py)    *)
(* with the delivery agents of mailman/mta, the retry runner, and the      *)
(* bounce runner with the probes of mailman/app/bounces.py.                *)
(*                                                                         *)
(* A posting, or a probe, is in the out queue.  The mail server (MTA)      *)
(* answers for each recipient; whoever it refuses for the moment goes into *)
(* the retry queue with the metadata of the message, from where the retry  *)
(* runner takes it back.  Files come and go at once, bounce events and     *)
(* tokens belong to the transaction of the runner, which is committed      *)
(* after the file is gone.                                                 *)
(*                                                                         *)
(* How an entry survives a crash is the matter of QueueFlow: here it is    *)
(* tried again from its backup file, as often as MaxFaults allows, which   *)
(* is less than the tries an entry has.                                    *)
(***************************************************************************)
EXTENDS Integers, FiniteSets, FiniteSetsExt, Functions

CONSTANTS
    Rcpts,              \* the recipients of the posting
    Probed,             \* the address of the member who is probed
    TopDomain,          \* the bucket of each recipient's domain
    MaxRecipients,      \* [mta]max_recipients
    Period,             \* [mta]delivery_retry_period, in ticks
    VerpInterval,       \* [mta]verp_delivery_interval
    VerpPersonalized,   \* [mta]verp_personalized_deliveries
    ProcessBounces,     \* the list has bounce processing
    Slices,             \* of the bounce runner
    Bouncing,           \* addresses whose mail may come back later
    MaxFaults,          \* bound on crashes, lost connections and failures
    MaxReturns          \* bound on the messages that come back

Everybody == Rcpts \cup {Probed}

ASSUME DeliveryAssumption ==
    /\ IsFiniteSet(Rcpts) /\ IsFiniteSet(Slices) /\ "out" \notin Slices
    /\ Probed \notin Rcpts /\ Bouncing \subseteq Everybody
    /\ TopDomain \in [Rcpts -> Nat]
    /\ MaxRecipients \in Int /\ Period \in Nat /\ VerpInterval \in Nat
    /\ {VerpPersonalized, ProcessBounces} \subseteq BOOLEAN
    /\ MaxFaults \in Nat /\ MaxReturns \in Nat

VARIABLES
    entry,          \* the queue entries, by number
    out,            \* the outgoing runner
    tx,             \* the open transaction of each runner
    token,          \* the token of the probe is in the database
    member,         \* and the member it names still is one
    scored,         \* addresses with a committed bounce event
    probes,         \* committed bounce events of the probe
    returned,       \* messages in the bounces queue: [who, sort]
    got,            \* history: how often the MTA took it for whom
    lost,           \* history: events that were never committed
    givenUp,        \* history: the retry period was over
    twice,          \* history: a copy was not decorated exactly once
    overlaps,       \* history: two open transactions had the token
    returns,        \* messages that came back so far
    faults          \* faults so far

database == <<token, member, scored, probes>>
history == <<lost, givenUp, twice, overlaps>>
bounces == <<returned, returns>>
vars == <<entry, out, tx, database, bounces, history, got, faults>>

Runners == Slices \cup {"out"}
NoTx == [scored |-> {}, confirmed |-> FALSE, probe |-> FALSE]

(* todo: whom it still has to try; msg: the metadata in its memory; single: *)
(* the agent of this try sends to one recipient at a time.                 *)
IdleOut == [pc |-> "idle", id |-> 0, todo |-> {}, temp |-> {}, perm |-> {},
            conn |-> "none", single |-> FALSE, msg |-> <<>>]

(* last_recip_count; left: the time until deliver_until, -1 when it is     *)
(* over; token: the metadata have a probe_token; deco: how often the text  *)
(* was decorated, once: the metadata say not to do it again.               *)
Fresh == [queue |-> "out", taken |-> FALSE, rcpts |-> Rcpts, count |-> 0,
          left |-> -1, verp |-> "unset", token |-> FALSE, deco |-> 0,
          once |-> FALSE]

(* send_probe pends a token and sends to the member's address, with a      *)
(* sender that has the token, verp off, and nothing to decorate.           *)
Probe == [Fresh EXCEPT !.rcpts = {Probed}, !.verp = "no", !.token = TRUE,
                       !.deco = 1, !.once = TRUE]

Start(entries, pended) ==
    /\ entry = entries /\ token = pended
    /\ out = IdleOut
    /\ tx = [r \in Runners |-> NoTx]
    /\ member = TRUE
    /\ scored = {} /\ probes = 0
    /\ returned = {} /\ returns = 0
    /\ got = [r \in Everybody |-> 0]
    /\ lost = {} /\ givenUp = {}
    /\ twice = FALSE /\ overlaps = 0
    /\ faults = 0
Init == \E e \in {Fresh, Probe} : Start([i \in {1} |-> e], e.token)

(***************************************************************************)
(* Queues.                                                                 *)
(***************************************************************************)
NewId == Min((1 .. Cardinality(DOMAIN entry) + 1) \ DOMAIN entry)
Added(entries, e) ==
    [i \in DOMAIN entries \cup {NewId} |-> IF i = NewId THEN e ELSE entries[i]]
Enqueued(e, q) == Added(entry, [e EXCEPT !.queue = q, !.taken = FALSE])
Waiting(q) == {i \in DOMAIN entry : entry[i].queue = q /\ ~entry[i].taken}
Without(i) == Restrict(entry, DOMAIN entry \ {i})

(***************************************************************************)
(* The outgoing runner.                                                    *)
(***************************************************************************)
(* Is this message VERP'd?  What an earlier try decided is kept.  Whether  *)
(* the list has personalized delivery may change from try to try.          *)
Verp(e, personalize) ==
    IF e.verp # "unset" THEN {e.verp}
    ELSE IF personalize THEN {IF VerpPersonalized THEN "yes" ELSE "unset"}
    ELSE CASE VerpInterval = 0 -> {"no"}
           [] VerpInterval = 1 -> {"yes"}
           [] OTHER -> {"yes", "no"}

(* deliver: which agent?                                                   *)
Individually(e, personalize) == e.verp = "yes" \/ personalize

(* Bulk delivery decorates the message itself, once, before the first      *)
(* chunk.                                                                  *)
Decorated(e) ==
    IF e.once THEN e ELSE [e EXCEPT !.deco = Min({2, @ + 1}), !.once = TRUE]

(* The agent is chosen once per try; the file keeps the old metadata.      *)
Dequeue(i) ==
    /\ out.pc = "idle"
    /\ i \in Waiting("out")
    /\ entry' = [entry EXCEPT ![i].taken = TRUE]
    /\ \E personalize \in BOOLEAN : \E v \in Verp(entry[i], personalize) :
          LET e == [entry[i] EXCEPT !.verp = v]
              single == Individually(e, personalize)
          IN  out' = [IdleOut EXCEPT
                        !.pc = "sending", !.id = i, !.todo = e.rcpts,
                        !.single = single,
                        !.msg = IF single THEN e ELSE Decorated(e)]
    /\ UNCHANGED <<tx, database, bounces, history, got, faults>>

(* Whom the agent tries next.  Bulk delivery goes bucket by bucket, those  *)
(* with most recipients first, in chunks of MaxRecipients.                 *)
Bucket(S, b) == {r \in S : TopDomain[r] = b}
Chunks(e, todo) ==
    LET Size(b) == Cardinality(Bucket(e.rcpts, b))
        Left(b) == Bucket(todo, b)
        open == {b \in Range(TopDomain) : Left(b) # {}}
        begun == {b \in open : Left(b) # Bucket(e.rcpts, b)}
        next == IF begun # {} THEN begun
                ELSE {b \in open : \A a \in open : Size(a) <= Size(b)}
    IN  IF e.token \/ MaxRecipients <= 0 THEN {todo}
        ELSE UNION {kSubset(Min({MaxRecipients, Cardinality(Left(b))}), Left(b)) :
                      b \in next}
NextOf(w) == IF w.single THEN {{r} : r \in w.todo} ELSE Chunks(w.msg, w.todo)

(* The answer of the MTA per recipient; 552 (too many recipients) is a     *)
(* temporary failure.                                                      *)
Codes == {250, 450, 550, 552}
Permanent(code) == code >= 500 /\ code # 552
With(answer, P(_)) == {r \in DOMAIN answer : P(answer[r])}

CopyDeco(w) == IF w.single THEN Decorated(w.msg).deco ELSE w.msg.deco
Took(w, S) ==
    /\ got' = [r \in Everybody |-> IF r \in S THEN got[r] + 1 ELSE got[r]]
    /\ twice' = (twice \/ (S # {} /\ CopyDeco(w) # 1))
    /\ UNCHANGED <<lost, givenUp, overlaps>>

Tried(c, temp, perm, conn) ==
    out' = [out EXCEPT !.todo = @ \ c, !.temp = @ \cup temp,
                       !.perm = @ \cup perm,
                       !.conn = IF out.todo = c THEN "none" ELSE conn]

(* deliver() quits the connection when the agent has tried everybody.      *)
(* A session: some are refused, or all, or the whole message is.  The      *)
(* connection is closed after an exception or enough sessions.             *)
Session(c) ==
    /\ out.conn # "dead"
    /\ \E answer \in [c -> Codes] :
          LET perm == With(answer, Permanent)
              ok == With(answer, LAMBDA code : code = 250)
          IN  /\ Took(out, ok)
              /\ \E conn \in {"open", "none"} :
                    Tried(c, c \ (ok \cup perm), perm, conn)
    /\ UNCHANGED faults

(* No session: all are failures with code 444.  After a connection that    *)
(* could not be made the next attempt fails too.                           *)
NoSession(c) ==
    /\ out.conn # "open"
    /\ Tried(c, c, {}, IF out.conn = "none" THEN "dead" ELSE "none")
    /\ UNCHANGED <<got, history, faults>>

(* The connection is lost after the MTA took the message.                  *)
Disconnected(c) ==
    /\ out.conn # "dead"
    /\ faults < MaxFaults /\ faults' = faults + 1
    /\ \E S \in SUBSET c \ {{}} : Took(out, S)
    /\ Tried(c, c, {}, "none")

Send ==
    /\ out.pc = "sending" /\ out.todo # {}
    /\ \E c \in NextOf(out) : Session(c) \/ NoSession(c) \/ Disconnected(c)
    /\ UNCHANGED <<entry, tx, database, bounces>>

(* Any exception: the message in memory is shunted, the rest is aborted.   *)
Shunted == /\ entry' = Added(Without(out.id), [out.msg EXCEPT !.queue = "shunt"])
           /\ out' = IdleOut
           /\ tx' = [tx EXCEPT !["out"] = NoTx]

(* A callback of individual delivery fails (a template, a user that goes). *)
CallbackFails ==
    /\ out.pc = "sending" /\ out.single /\ out.todo # {}
    /\ faults < MaxFaults /\ faults' = faults + 1
    /\ Shunted
    /\ UNCHANGED <<database, bounces, history, got>>

(* register, in the transaction of the runner; confirm, which returns what *)
(* is pended and deletes it in the transaction.                            *)
Register(r, S) == tx' = [tx EXCEPT ![r] = [NoTx EXCEPT !.scored = S]]
Confirm(r, S, event) ==
    /\ tx' = [tx EXCEPT ![r] = [scored |-> S, confirmed |-> TRUE, probe |-> event]]
    /\ overlaps' = overlaps + IF \E o \in Runners \ {r} : tx[o].confirmed
                               THEN 1 ELSE 0

(* Mutants: nobody is retried when somebody failed for good; everybody is  *)
(* sent to again; every try extends the period.                            *)
RetryWithoutPerm ==
    LET again == [out.msg EXCEPT !.rcpts = out.temp]
    IN  /\ entry' = IF out.perm # {} \/ out.temp = {} THEN entry
                    ELSE Enqueued(again, "retry")
        /\ UNCHANGED givenUp
RetryAll ==
    /\ entry' = IF out.temp = {} THEN entry
                ELSE Enqueued([out.msg EXCEPT !.left = Period], "retry")
    /\ UNCHANGED givenUp
RetryForEver ==
    LET n == Cardinality(out.temp)
        again == [out.msg EXCEPT !.rcpts = out.temp, !.count = n, !.left = Period]
    IN  /\ entry' = IF n = 0 THEN entry ELSE Enqueued(again, "retry")
        /\ UNCHANGED givenUp
(* SomeRecipientsFailed, for a posting: who failed for good is registered, *)
(* and the others are queued for a retry or given up.                      *)
RetryLater ==
    LET n == Cardinality(out.temp)
        progress == n # out.msg.count
        again == [out.msg EXCEPT !.rcpts = out.temp, !.count = n,
                                 !.left = IF progress THEN Period ELSE @]
        over == ~progress /\ out.msg.left < 0
    IN  /\ entry' = IF over \/ n = 0 THEN entry ELSE Enqueued(again, "retry")
        /\ givenUp' = IF over THEN givenUp \cup out.temp ELSE givenUp

(* For a probe: a permanent failure confirms its token; a temporary one    *)
(* is forgotten.                                                           *)
ProbeFailed ==
    IF out.perm # {} /\ token
    THEN Confirm("out", {}, TRUE)
    ELSE UNCHANGED <<tx, overlaps>>

(* The rest of _dispose, when everybody was tried.                         *)
Dispose ==
    /\ out.pc = "sending" /\ out.todo = {}
    /\ IF out.msg.token
       THEN IF out.perm # {} /\ token /\ ~member
            THEN Shunted /\ UNCHANGED <<overlaps, givenUp>>
            ELSE /\ ProbeFailed
                 /\ out' = [out EXCEPT !.pc = "finish"]
                 /\ UNCHANGED <<entry, givenUp>>
       ELSE /\ Register("out", out.perm)
            /\ RetryLater
            /\ out' = [out EXCEPT !.pc = "finish"]
            /\ UNCHANGED overlaps
    /\ UNCHANGED <<database, bounces, lost, twice, got, faults>>

Finish ==
    /\ out.pc = "finish"
    /\ entry' = Without(out.id)
    /\ out' = [IdleOut EXCEPT !.pc = "commit"]
    /\ UNCHANGED <<tx, database, bounces, history, got, faults>>

(* The commit of a runner: its events are in the table, the token it       *)
(* confirmed is not.                                                       *)
Committed(r) ==
    /\ scored' = scored \cup tx[r].scored
    /\ probes' = probes + IF tx[r].probe THEN 1 ELSE 0
    /\ token' = (token /\ ~tx[r].confirmed)
    /\ tx' = [tx EXCEPT ![r] = NoTx]
    /\ UNCHANGED member

Commit ==
    /\ out.pc = "commit"
    /\ Committed("out")
    /\ out' = IdleOut
    /\ UNCHANGED <<entry, bounces, history, got, faults>>

(* The runner dies: its file, if it is still there, is found by the next.  *)
Crash ==
    /\ out.pc # "idle"
    /\ faults < MaxFaults /\ faults' = faults + 1
    /\ entry' = IF out.pc = "commit" THEN entry
                ELSE [entry EXCEPT ![out.id].taken = FALSE]
    /\ lost' = lost \cup tx["out"].scored
    /\ out' = IdleOut
    /\ tx' = [tx EXCEPT !["out"] = NoTx]
    /\ UNCHANGED <<database, bounces, givenUp, twice, overlaps, got>>

(***************************************************************************)
(* The retry runner puts the message back and lets go of its file; if it   *)
(* dies in between there are two.                                          *)
(***************************************************************************)
RetryDispose(i) ==
    /\ i \in Waiting("retry")
    /\ entry' = Added(Without(i), [entry[i] EXCEPT !.queue = "out"])
    /\ UNCHANGED <<out, tx, database, bounces, history, got, faults>>

RetryCrash(i) ==
    /\ i \in Waiting("retry")
    /\ faults < MaxFaults /\ faults' = faults + 1
    /\ entry' = Enqueued(entry[i], "out")
    /\ UNCHANGED <<out, tx, database, bounces, history, got>>

(* unshunt.                                                                *)
Unshunt(i) ==
    /\ i \in Waiting("shunt")
    /\ faults < MaxFaults /\ faults' = faults + 1
    /\ entry' = [entry EXCEPT ![i].queue = "out"]
    /\ UNCHANGED <<out, tx, database, bounces, history, got>>

(***************************************************************************)
(* Messages that come back, and the slices of the bounce runner.           *)
(***************************************************************************)
(* failed: it names an address that failed for good, in an encoded         *)
(* recipient (StandardVERP) or in its text (scan_message); other: the      *)
(* failure is temporary, or no address is recognised; maybe_forward then   *)
(* drops it or shows it to the owners; probe: it came to the sender with   *)
(* the token, which is in From: only (delivery takes the envelope sender   *)
(* from the key 'sender', send_probe gives it as 'envsender').             *)
SortsOf(r) == IF r = Probed THEN {"probe", "failed", "other"} ELSE {"failed", "other"}

Return(r) ==
    /\ r \in Bouncing /\ got[r] > 0 /\ returns < MaxReturns
    /\ returns' = returns + 1
    /\ \E s \in SortsOf(r) :
          returned' = returned \cup {[who |-> r, sort |-> s, no |-> returns]}
    /\ UNCHANGED <<entry, out, tx, database, history, got, faults>>

(* StandardVERP, ProbeVERP, or scan_message if neither finds anybody.      *)
(* ProbeVERP confirms a token whose member is gone too.                    *)
GetVerp(b, d) ==
    CASE d.sort = "failed" -> Register(b, {d.who}) /\ UNCHANGED overlaps
      [] d.sort = "other" -> UNCHANGED <<tx, overlaps>>
      [] d.sort = "probe" /\ token /\ member -> Confirm(b, {}, TRUE)
      [] d.sort = "probe" /\ token /\ ~member ->
            \E S \in SUBSET {d.who} : Confirm(b, S, FALSE)
      [] OTHER -> \E S \in SUBSET {d.who} : Register(b, S) /\ UNCHANGED overlaps

BounceDispose(b, d) ==
    /\ tx[b] = NoTx
    /\ d \in returned
    /\ returned' = returned \ {d}
    /\ IF ProcessBounces THEN GetVerp(b, d) ELSE UNCHANGED <<tx, overlaps>>
    /\ UNCHANGED <<entry, out, database, returns, lost, givenUp, twice, got, faults>>

BounceCommit(b) ==
    /\ tx[b] # NoTx
    /\ Committed(b)
    /\ UNCHANGED <<entry, out, bounces, history, got, faults>>

(* After the file is gone and before the commit.                           *)
BounceCrash(b) ==
    /\ tx[b] # NoTx
    /\ faults < MaxFaults /\ faults' = faults + 1
    /\ tx' = [tx EXCEPT ![b] = NoTx]
    /\ lost' = lost \cup tx[b].scored
    /\ UNCHANGED <<entry, out, database, bounces, givenUp, twice, overlaps, got>>

(***************************************************************************)
(* What else happens: the member leaves, and time passes.                  *)
(***************************************************************************)
Unsubscribe ==
    /\ token /\ member /\ member' = FALSE
    /\ UNCHANGED <<entry, out, tx, token, scored, probes,
                   bounces, history, got, faults>>

Later(e) == [e EXCEPT !.left = Max({-1, @ - 1})]
Tick ==
    /\ \E i \in DOMAIN entry : entry[i].left >= 0
    /\ entry' = [i \in DOMAIN entry |-> Later(entry[i])]
    /\ out' = IF out.pc = "sending" THEN [out EXCEPT !.msg = Later(@)] ELSE out
    /\ UNCHANGED <<tx, database, bounces, history, got, faults>>

OutRunner == (\E i \in DOMAIN entry : Dequeue(i)) \/ Send \/ Dispose \/ Finish \/ Commit
RetryRunner == \E i \in DOMAIN entry : RetryDispose(i)
BounceRunner(b) == (\E d \in returned : BounceDispose(b, d)) \/ BounceCommit(b)

Next ==
    \/ OutRunner \/ CallbackFails \/ Crash
    \/ RetryRunner
    \/ \E i \in DOMAIN entry : RetryCrash(i)
    \/ \E b \in Slices : BounceRunner(b) \/ BounceCrash(b)
    \/ \E i \in DOMAIN entry : Unshunt(i)
    \/ \E r \in Everybody : Return(r)
    \/ Unsubscribe \/ Tick

(***************************************************************************)
(* Properties.                                                             *)
(***************************************************************************)
(* Nothing is done twice unless something went wrong.  One recipient gets  *)
(* a message once more only when the runner died, the connection was lost, *)
(* or the message was shunted with everybody it was for (base.py:69-93,    *)
(* outgoing.py:139-163); every copy has the header and the footer of the   *)
(* list once, whatever agent sends it, in whichever try (decorating.py,    *)
(* bulk.py:96-100); a failed probe counts once, unless two transactions    *)
(* that have confirmed its token overlap (outgoing.py:111).                *)
NothingTwice ==
    /\ \A r \in Everybody : got[r] <= 1 + faults
    /\ ~twice
    /\ probes <= 1 + overlaps

(* Delivery comes to an end: what is not shunted leaves the queues, however *)
(* long the MTA defers (outgoing.py:139-163).                              *)
DeliveryEnds == <>[](\A i \in DOMAIN entry : entry[i].queue = "shunt")
================================================================================
