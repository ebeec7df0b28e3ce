------------------------------- MODULE Moderation -------------------------------
(***************************************************************************)
(* Holding postings for the moderators: mailman/app/moderator.py with the  *)
(* message store, the request table and the pending database behind it,    *)
(* the hold chain that fills them and the REST resource that empties them. *)
(*                                                                         *)
(* Incoming runners work next to each other and to the one REST server.    *)
(* Each has a transaction of its own in the database, while the files of   *)
(* the message store and of the queues change at once and are not rolled   *)
(* back.  A crossposted message comes to each list in a copy of its own,   *)
(* with the header fields of that list but the same Message-ID.            *)
(*                                                                         *)
(* Notices, and forwarding a held message, are left out.                   *)
(***************************************************************************)
EXTENDS Naturals, FiniteSets, FiniteSetsExt, Functions

CONSTANTS
    Copies,         \* the copies of messages that come to the lists
    Posting,        \* where they come: from Copies to [list, id]
    Runners,        \* slices of the incoming runner
    Moderators,
    Backends,       \* the databases a site may have, see below
    MaxIds,         \* bound on the request ids
    MaxFaults       \* bound on the transactions that fail

(* All three are opened with READ UNCOMMITTED (database/base.py).  SQLite  *)
(* has one writer at a time and gives a deleted row's id again if it was   *)
(* the highest; the others count ids up and have concurrent writers.  Only *)
(* in MySQL does that level show uncommitted rows.                         *)
Databases == {"sqlite", "postgresql", "mysql"}

Lists == {Posting[c].list : c \in Copies}
MessageIds == {Posting[c].id : c \in Copies}
Ids == 1 .. MaxIds
Nobody == "nobody"

ASSUME ModerationAssumption ==
    /\ Backends \subseteq Databases
    /\ MaxIds \in Nat /\ MaxFaults \in Nat
    /\ Nobody \notin Copies \cup Runners \cup Moderators

VARIABLES
    backend,        \* the database of this site
    queue,          \* copies with an entry in the incoming queue
    runner,         \* what each runner does: [pc, copy, known, id]
    disk,           \* files of the message store, by Message-ID
    stored,         \* committed rows of the message store
    requests,       \* committed requests: from ids to copies
    pendings,       \* copies whose metadata are pended for their requests
    counter,        \* the highest id ever given
    writer,         \* the runner that holds the write lock (SQLite)
    seen,           \* what each moderator has on the screen: [id, copy]
    rest,           \* the request that the REST server answers: [id, op]
    held,           \* history: copies whose hold was committed
    posted,         \* history: how often each held copy was approved,
    dropped,        \* and rejected for good
    rollbacks,      \* history: answers to each that were rolled back
    faults,         \* failed transactions of the runners so far
    last            \* history: what the last step did

work == <<queue, runner>>
store == <<disk, stored>>
table == <<requests, pendings, counter>>
answers == <<seen, rest>>
history == <<held, posted, dropped, rollbacks>>
vars == <<backend, work, store, table, writer, answers, history, faults, last>>

Idle == [pc |-> "idle", copy |-> Nobody, known |-> FALSE, id |-> 0]
Free == [id |-> 0, op |-> "none"]
Blank == [id |-> 0, copy |-> Nobody]
Nothing == [op |-> "nothing"]
IdOf(c) == Posting[c].id
ListOf(c) == Posting[c].list

Init ==
    /\ backend \in Backends
    /\ queue = Copies
    /\ runner = [r \in Runners |-> Idle]
    /\ disk = [i \in MessageIds |-> Nobody]
    /\ stored = {}
    /\ requests = << >> /\ pendings = {} /\ counter = 0
    /\ writer = Nobody
    /\ seen = [m \in Moderators |-> Blank]
    /\ rest = Free
    /\ held = {}
    /\ posted = [c \in Copies |-> 0] /\ dropped = [c \in Copies |-> 0]
    /\ rollbacks = [c \in Copies |-> 0]
    /\ faults = 0
    /\ last = Nothing

(***************************************************************************)
(* The database.                                                           *)
(***************************************************************************)
MayWrite(p) == backend = "sqlite" => writer \in {Nobody, p}
Uncommitted == {IdOf(runner[r].copy) :
                  r \in {x \in Runners : /\ runner[x].pc \in {"finish", "commit"}
                                         /\ ~runner[x].known}}

(* Mutant: every backend shows rows that are not committed.                *)
KnownDirty(i) == i \in stored \cup Uncommitted
Known(i) == \/ i \in stored
            \/ backend = "mysql" /\ i \in Uncommitted

(* Mutant: the highest id is given again when its row is deleted.          *)
NewIdReused == Max({0} \cup DOMAIN requests) + 1
NewId == IF backend = "sqlite" THEN Max({0} \cup DOMAIN requests) + 1
         ELSE counter + 1

(***************************************************************************)
(* An incoming runner holds a message.                                     *)
(***************************************************************************)
(* MessageStore.add looks for the Message-ID.                              *)
Look(r, c) ==
    /\ runner[r].pc = "idle"
    /\ c \in queue
    /\ \A x \in Runners : runner[x].copy # c
    /\ runner' = [runner EXCEPT ![r] =
                    [pc |-> IF Known(IdOf(c)) THEN "insert" ELSE "write",
                     copy |-> c, known |-> Known(IdOf(c)), id |-> 0]]
    /\ last' = Nothing
    /\ UNCHANGED <<backend, queue, store, table, writer, answers, history, faults>>

(* It writes the file, to a path made from the Message-ID.                 *)
Write(r) ==
    /\ runner[r].pc = "write"
    /\ disk' = [disk EXCEPT ![IdOf(runner[r].copy)] = runner[r].copy]
    /\ runner' = [runner EXCEPT ![r].pc = "insert"]
    /\ last' = Nothing
    /\ UNCHANGED <<backend, queue, stored, table, writer, answers, history, faults>>

(* The rows go to the database, which gives the request its id.            *)
Insert(r) ==
    /\ runner[r].pc = "insert"
    /\ MayWrite(r)
    /\ NewId \in Ids
    /\ writer' = IF backend = "sqlite" THEN r ELSE Nobody
    /\ counter' = Max({counter, NewId})
    /\ runner' = [runner EXCEPT ![r].pc = "finish", ![r].id = NewId]
    /\ last' = Nothing
    /\ UNCHANGED <<backend, queue, store, requests, pendings, answers, history,
                   faults>>

(* The runner removes the queue entry, then it commits.                    *)
Finish(r) ==
    /\ runner[r].pc = "finish"
    /\ queue' = queue \ {runner[r].copy}
    /\ runner' = [runner EXCEPT ![r].pc = "commit"]
    /\ last' = Nothing
    /\ UNCHANGED <<backend, store, table, writer, answers, history, faults>>

Commit(r) ==
    LET w == runner[r]
    IN  /\ w.pc = "commit"
        /\ stored' = IF w.known THEN stored ELSE stored \cup {IdOf(w.copy)}
        /\ requests' = [x \in DOMAIN requests \cup {w.id} |->
                          IF x = w.id THEN w.copy ELSE requests[x]]
        /\ pendings' = pendings \cup {w.copy}
        /\ held' = held \cup {w.copy}
        /\ runner' = [runner EXCEPT ![r] = Idle]
        /\ writer' = Nobody
        /\ last' = Nothing
        /\ UNCHANGED <<backend, queue, disk, counter, answers, posted, dropped,
                       rollbacks, faults>>

(* A crash, or an exception (the database is locked for too long): the     *)
(* entry, if it is still there, is tried again, from a backup or unshunted.*)
Abort(r) ==
    /\ faults < MaxFaults
    /\ runner[r].pc # "idle"
    /\ runner' = [runner EXCEPT ![r] = Idle]
    /\ writer' = IF writer = r THEN Nobody ELSE writer
    /\ faults' = faults + 1
    /\ last' = Nothing
    /\ UNCHANGED <<backend, queue, store, table, answers, history>>

(***************************************************************************)
(* The moderators and the REST server, which serves one request at a time. *)
(* (A moderator sees committed requests only, also in MySQL.)              *)
(***************************************************************************)
(* The page of a held message shows the one in the store, or fails.        *)
See(m, i) ==
    /\ rest = Free
    /\ i \in DOMAIN requests /\ IdOf(requests[i]) \in stored
    /\ seen' = [seen EXCEPT ![m] = [id |-> i, copy |-> requests[i]]]
    /\ last' = Nothing
    /\ UNCHANGED <<backend, work, store, table, writer, rest, history, faults>>

(* get_request, for the id on the screen.                                  *)
Found(m) == /\ seen[m].id \in DOMAIN requests
            /\ ListOf(requests[seen[m].id]) = ListOf(seen[m].copy)
Did(op, m) == [op |-> op, held |-> requests[seen[m].id], seen |-> seen[m].copy]

(* 404, or a request that is deferred.                                     *)
Pass(m) == last' = Nothing /\ UNCHANGED <<rest, posted>>

(* discard, reject.                                                        *)
Drop(m) ==
    /\ Found(m)
    /\ rest' = [id |-> seen[m].id, op |-> "drop"]
    /\ last' = Did("drop", m)
    /\ UNCHANGED posted

(* accept: the message of the store goes to the pipeline queue at once.    *)
Accept(m) ==
    /\ Found(m)
    /\ posted' = [posted EXCEPT ![requests[seen[m].id]] = @ + 1]
    /\ rest' = [id |-> seen[m].id, op |-> "accept"]
    /\ last' = Did("accept", m)

Handle(m) ==
    /\ rest = Free
    /\ seen[m] # Blank
    /\ Pass(m) \/ Drop(m) \/ Accept(m)
    /\ seen' = [seen EXCEPT ![m] = Blank]
    /\ UNCHANGED <<backend, work, store, table, writer, held, dropped, rollbacks,
                   faults>>

(* delete_request, and the commit of the REST transaction.                 *)
(* Mutants: deleted by Message-ID; deleted when the message is dropped.    *)
DeleteByKey ==
    /\ rest # Free
    /\ MayWrite("rest")
    /\ LET c == requests[rest.id]
       IN  /\ requests' = Restrict(requests, {x \in DOMAIN requests :
                                                IdOf(requests[x]) # IdOf(c)})
           /\ pendings' = pendings \ {c}
           /\ dropped' = IF rest.op = "drop" THEN [dropped EXCEPT ![c] = @ + 1]
                         ELSE dropped
    /\ rest' = Free
    /\ last' = Nothing
    /\ UNCHANGED <<backend, work, store, counter, writer, seen, held, posted,
                   rollbacks, faults>>
DeleteDropped ==
    /\ rest # Free
    /\ MayWrite("rest")
    /\ LET c == requests[rest.id]
       IN  IF rest.op = "drop"
           THEN /\ requests' = Restrict(requests, DOMAIN requests \ {rest.id})
                /\ pendings' = pendings \ {c}
                /\ dropped' = [dropped EXCEPT ![c] = @ + 1]
           ELSE UNCHANGED <<requests, pendings, dropped>>
    /\ rest' = Free
    /\ last' = Nothing
    /\ UNCHANGED <<backend, work, store, counter, writer, seen, held, posted,
                   rollbacks, faults>>
Delete ==
    /\ rest # Free
    /\ MayWrite("rest")
    /\ LET c == requests[rest.id]
       IN  /\ requests' = Restrict(requests, DOMAIN requests \ {rest.id})
           /\ pendings' = pendings \ {c}
           /\ dropped' = IF rest.op = "drop" THEN [dropped EXCEPT ![c] = @ + 1]
                         ELSE dropped
    /\ rest' = Free
    /\ last' = Nothing
    /\ UNCHANGED <<backend, work, store, counter, writer, seen, held, posted,
                   rollbacks, faults>>

(* Or the server dies, or finds the database locked for too long.          *)
Rollback ==
    /\ rest # Free
    /\ faults < MaxFaults
    /\ faults' = faults + 1
    /\ rollbacks' = [rollbacks EXCEPT ![requests[rest.id]] = @ + 1]
    /\ rest' = Free
    /\ last' = Nothing
    /\ UNCHANGED <<backend, work, store, table, writer, seen, held, posted, dropped>>

Next ==
    \/ \E r \in Runners, c \in Copies : Look(r, c)
    \/ \E r \in Runners : Write(r) \/ Insert(r) \/ Finish(r) \/ Commit(r)
                          \/ Abort(r)
    \/ \E m \in Moderators, i \in Ids : See(m, i)
    \/ \E m \in Moderators : Handle(m)
    \/ Delete
    \/ Rollback

Spec == Init /\ [][Next]_vars

--------------------------------------------------------------------------------
(* Whatever the runners and the moderators do next to each other, and      *)
(* whichever of their transactions fail: each request that a moderator can *)
(* be shown has its message in the store, as a row and a file, and its     *)
(* metadata in the pending database.  Not so in MySQL: there a runner may  *)
(* rely on the row of a transaction that is rolled back later.             *)
RequestsResolvable ==
    backend # "mysql" =>
        \A i \in DOMAIN requests :
            /\ IdOf(requests[i]) \in stored
            /\ disk[IdOf(requests[i])] # Nobody
            /\ requests[i] \in pendings

(* A message is decided once, by one of the moderators who have it on      *)
(* their screens: posted or dropped, and again only when the transaction   *)
(* of an answer was rolled back after its message had been queued.         *)
DecidedOnce ==
    \A c \in Copies : posted[c] + dropped[c] <= 1 + rollbacks[c]

(* What is held stays on one request until it is decided, however many     *)
(* other requests, also for the same Message-ID, are decided meanwhile.    *)
HeldUntilDecided ==
    \A c \in held :
        \/ Cardinality({i \in DOMAIN requests : requests[i] = c}) = 1
        \/ posted[c] + dropped[c] > 0

(* The answer of a moderator is for the message that was shown, although   *)
(* others decide and hold in between, where the database does not give the *)
(* id of a deleted row again.                                              *)
AnswersWhatWasShown ==
    backend # "sqlite" =>
        (last.op \in {"accept", "drop"} => last.held = last.seen)
================================================================================
