---------------------------- MODULE ModerationProofs ----------------------------
(***************************************************************************)
(* Theorems about Moderation, for any copies, lists and Message-IDs, any   *)
(* number of runners, moderators, ids and failing transactions, over each  *)
(* database.                                                               *)
(***************************************************************************)
EXTENDS Moderation, FiniteSetTheorems, WellFoundedInduction, TLAPS

Work == [pc : {"idle", "write", "insert", "finish", "commit"},
         copy : Copies \cup {Nobody}, known : BOOLEAN, id : Nat]
Answer == [id : Ids, op : {"accept", "drop"}]
Screen == [id : Ids, copy : Copies]

StateTyped ==
    /\ backend \in Backends
    /\ queue \subseteq Copies
    /\ runner \in [Runners -> Work]
    /\ disk \in [MessageIds -> Copies \cup {Nobody}]
    /\ stored \subseteq MessageIds
    /\ DOMAIN requests \subseteq Ids
    /\ \A i \in DOMAIN requests : requests[i] \in Copies
    /\ counter \in Nat
    /\ seen \in [Moderators -> Screen \cup {Blank}]
    /\ rest \in Answer \cup {Free}
    /\ held \subseteq Copies

CountsTyped ==
    /\ posted \in [Copies -> Nat] /\ dropped \in [Copies -> Nat]
    /\ rollbacks \in [Copies -> Nat]

Busy(r) == runner[r].pc # "idle"
Writing(r) == runner[r].pc \in {"finish", "commit"}

(* A copy is worked on by one runner, from the queue until it is held, and *)
(* is never worked on again after that.                                    *)
OneRunner ==
    /\ \A r \in Runners : Busy(r) => /\ runner[r].copy \in Copies
                                     /\ runner[r].copy \notin held
    /\ \A r \in Runners : runner[r].pc = "commit" => runner[r].copy \notin queue
    /\ \A r, s \in Runners : Busy(r) /\ Busy(s) /\ runner[r].copy = runner[s].copy
                                 => r = s
    /\ held \cap queue = {}

(* The ids that transactions have been given are new, and different: with  *)
(* SQLite one transaction writes at a time, the others count ids up.       *)
IdsFresh ==
    /\ \A r \in Runners : Writing(r) => /\ runner[r].id \in Ids
                                        /\ runner[r].id \notin DOMAIN requests
                                        /\ backend = "sqlite" => writer = r
    /\ \A r, s \in Runners : Writing(r) /\ Writing(s) /\ runner[r].id = runner[s].id
                                 => r = s
    /\ backend # "sqlite" => /\ \A i \in DOMAIN requests : i <= counter
                             /\ \A r \in Runners : Writing(r) => runner[r].id <= counter

(* One request for a copy, that is held and whose metadata are pended.     *)
OneRequest ==
    /\ \A i, j \in DOMAIN requests : requests[i] = requests[j] => i = j
    /\ \A i \in DOMAIN requests : requests[i] \in held /\ requests[i] \in pendings

(* The REST server works on a request that is there until it is done.      *)
RestFinds == rest # Free => rest.id \in DOMAIN requests

Accepting(c) == /\ rest # Free /\ rest.op = "accept"
                /\ rest.id \in DOMAIN requests /\ requests[rest.id] = c
Requested(c) == \E i \in DOMAIN requests : requests[i] = c

(* The answers that were given to a copy, of which all but the present one *)
(* were rolled back as long as its request is there.                       *)
Answered ==
    \A c \in Copies :
        /\ posted[c] + dropped[c] <= 1 + rollbacks[c]
        /\ Requested(c) => /\ dropped[c] = 0
                           /\ posted[c] <= rollbacks[c] + (IF Accepting(c) THEN 1 ELSE 0)
        /\ Accepting(c) => posted[c] > 0
        /\ c \notin held => posted[c] = 0 /\ dropped[c] = 0
        /\ c \in held => Requested(c) \/ posted[c] + dropped[c] > 0

(* Whoever found no row wrote the file; whoever found one, found a         *)
(* committed one, except in MySQL.                                         *)
StoreKept ==
    /\ \A r \in Runners : Writing(r) \/ runner[r].pc = "insert" =>
           IF runner[r].known THEN backend # "mysql" => IdOf(runner[r].copy) \in stored
           ELSE disk[IdOf(runner[r].copy)] # Nobody
    /\ \A r \in Runners : runner[r].pc = "write" => ~runner[r].known
    /\ backend # "mysql" => \A i \in DOMAIN requests : IdOf(requests[i]) \in stored
    /\ \A i \in stored : disk[i] # Nobody

(* Where ids are counted up, the one on a screen keeps its meaning.        *)
ScreensTrue ==
    backend # "sqlite" =>
        /\ \A m \in Moderators :
             /\ seen[m].id <= counter
             /\ seen[m].id \in DOMAIN requests => requests[seen[m].id] = seen[m].copy
             /\ \A r \in Runners : Writing(r) => runner[r].id # seen[m].id
        /\ last.op \in {"accept", "drop"} => last.held = last.seen

IInv == /\ StateTyped /\ CountsTyped /\ OneRunner /\ IdsFresh /\ OneRequest
        /\ RestFinds /\ Answered /\ StoreKept /\ ScreensTrue

-------------------------------------------------------------------------------
(* Numbers: the greatest of a bounded set exists.                          *)
LEMMA LeastNatural ==
    ASSUME NEW T \in SUBSET Nat, T # {}
    PROVE  \E x \in T : \A y \in T : x <= y
<1>1. PICK x \in T : \A y \in T : ~ (<<y, x>> \in OpToRel(<, Nat))
  BY NatLessThanWellFounded, WFMin
<1>2. \A y \in T : ~ (y < x)
  BY <1>1 DEF OpToRel
<1>. QED BY <1>2

LEMMA MaxIs ==
    ASSUME NEW T \in SUBSET Nat, T # {}, NEW b \in Nat, \A x \in T : x <= b
    PROVE  Max(T) \in T /\ \A x \in T : x <= Max(T)
<1> DEFINE B == {k \in Nat : \A x \in T : x <= k}
<1>1. PICK k \in B : \A y \in B : k <= y
  BY LeastNatural
<1>2. k \in T
  <2> SUFFICES ASSUME k \notin T PROVE FALSE
    OBVIOUS
  <2>0. PICK n \in T : TRUE
    OBVIOUS
  <2>1. k \in Nat /\ k # 0 /\ \A x \in T : x <= k - 1
    BY <2>0
  <2>. QED BY <1>1, <2>1
<1>3. \E x \in T : \A y \in T : x >= y
  BY <1>2
<1>. QED BY <1>3 DEF Max

(* An id that is new: no request has it, and where ids are counted up it   *)
(* is above all that were given.                                           *)
LEMMA NewIdIsNew ==
    ASSUME StateTyped, IdsFresh
    PROVE  /\ NewId \in Nat /\ NewId \notin DOMAIN requests
           /\ backend # "sqlite" => NewId = counter + 1
           /\ Max({counter, NewId}) \in Nat
           /\ backend # "sqlite" => Max({counter, NewId}) = counter + 1
<1>1. /\ Max({0} \cup DOMAIN requests) \in Nat
      /\ \A x \in DOMAIN requests : x <= Max({0} \cup DOMAIN requests)
  <2> DEFINE T == {0} \cup DOMAIN requests
  <2>1. T \in SUBSET Nat /\ T # {} /\ MaxIds \in Nat /\ \A x \in T : x <= MaxIds
    BY ModerationAssumption DEF StateTyped, Ids
  <2>2. Max(T) \in T /\ \A x \in T : x <= Max(T)
    BY <2>1, MaxIs
  <2>. QED BY <2>1, <2>2
<1>2. counter \in Nat
  BY DEF StateTyped
<1>3. NewId \in Nat /\ NewId \notin DOMAIN requests
  <2>1. CASE backend = "sqlite"
    <3>1. DOMAIN requests \subseteq Nat
      BY DEF StateTyped, Ids
    <3>. QED BY <1>1, <2>1, <3>1 DEF NewId
  <2>2. CASE backend # "sqlite"
    BY <1>2, <2>2 DEF NewId, IdsFresh
  <2>. QED BY <2>1, <2>2
<1>4. backend # "sqlite" => NewId = counter + 1
  BY DEF NewId
<1>5. Max({counter, NewId}) \in {counter, NewId} /\ counter <= Max({counter, NewId})
      /\ NewId <= Max({counter, NewId})
  <2>1. \A x \in {counter, NewId} : x <= counter + NewId
    BY <1>2, <1>3
  <2>. QED BY <1>2, <1>3, <2>1, MaxIs
<1>. QED BY <1>2, <1>3, <1>4, <1>5

-------------------------------------------------------------------------------
(* The runners.                                                            *)
LEMMA LookStep ==
    ASSUME NEW r \in Runners, NEW c \in Copies, IInv, Look(r, c)
    PROVE  IInv'
<1>1. /\ UNCHANGED <<backend, queue, disk, stored, requests, pendings, counter, writer>>
      /\ UNCHANGED <<seen, rest, held, posted, dropped, rollbacks>>
      /\ last' = Nothing /\ c \in queue
      /\ \A x \in Runners : runner[x].copy # c
  BY DEF Look, store, table, answers, history
<1>2. Known(IdOf(c)) \in BOOLEAN /\ (backend # "mysql" /\ Known(IdOf(c)) => IdOf(c) \in stored)
  BY DEF Known
<1>3. /\ runner' \in [Runners -> Work]
      /\ \A x \in Runners : x # r => runner'[x] = runner[x]
      /\ runner'[r].pc \in {"insert", "write"} /\ runner'[r].copy = c
      /\ runner'[r].known <=> Known(IdOf(c))
      /\ runner'[r].pc = "insert" <=> Known(IdOf(c))
  BY <1>2 DEF IInv, StateTyped, Look, Work
<1>4. (StateTyped /\ CountsTyped /\ OneRequest /\ RestFinds /\ Answered)'
  BY <1>1, <1>3 DEF IInv, StateTyped, CountsTyped, OneRequest, RestFinds, Answered,
                    Accepting, Requested
<1>5. OneRunner'
  BY <1>1, <1>3 DEF IInv, OneRunner, Busy
<1>6. (IdsFresh /\ ScreensTrue)'
  BY <1>1, <1>3 DEF IInv, IdsFresh, ScreensTrue, Writing, Nothing
<1>7. StoreKept'
  BY <1>1, <1>2, <1>3 DEF IInv, StoreKept, Writing
<1>. QED BY <1>4, <1>5, <1>6, <1>7 DEF IInv

(* A step of a busy runner that changes only how far it is.                *)
LEMMA WriteStep ==
    ASSUME NEW r \in Runners, IInv, Write(r)
    PROVE  IInv'
<1> DEFINE c == runner[r].copy
<1>1. /\ UNCHANGED <<backend, queue, stored, requests, pendings, counter, writer>>
      /\ UNCHANGED <<seen, rest, held, posted, dropped, rollbacks>>
      /\ last' = Nothing /\ runner[r].pc = "write"
      /\ disk' = [disk EXCEPT ![IdOf(c)] = c]
  BY DEF Write, table, answers, history
<1>2. c \in Copies /\ IdOf(c) \in MessageIds /\ c # Nobody
  BY <1>1, ModerationAssumption DEF IInv, OneRunner, Busy, IdOf, MessageIds
<1>3. /\ runner' \in [Runners -> Work]
      /\ \A x \in Runners : x # r => runner'[x] = runner[x]
      /\ runner'[r].pc = "insert" /\ runner'[r].copy = runner[r].copy
      /\ runner'[r].known = runner[r].known
  BY Zenon DEF IInv, StateTyped, Write, Work
<1>4. /\ disk' \in [MessageIds -> Copies \cup {Nobody}]
      /\ \A i \in MessageIds : disk[i] # Nobody => disk'[i] # Nobody
      /\ disk'[IdOf(c)] # Nobody
  BY <1>1, <1>2 DEF IInv, StateTyped
<1> HIDE DEF c
<1>5. (StateTyped /\ CountsTyped /\ OneRequest /\ RestFinds /\ Answered)'
  BY <1>1, <1>3, <1>4 DEF IInv, StateTyped, CountsTyped, OneRequest, RestFinds, Answered,
                    Accepting, Requested
<1>6. OneRunner'
  BY <1>1, <1>3 DEF IInv, OneRunner, Busy
<1>7. (IdsFresh /\ ScreensTrue)'
  BY <1>1, <1>3 DEF IInv, IdsFresh, ScreensTrue, Writing, Nothing
<1>8. StoreKept'
  <2>1. \A x \in Runners : runner[x].pc \in {"insert", "finish", "commit"}
                             => IdOf(runner[x].copy) \in MessageIds
    BY DEF IInv, OneRunner, Busy, IdOf, MessageIds
  <2>2. \A i \in stored : i \in MessageIds
    BY DEF IInv, StateTyped
  <2>3. ~runner[r].known /\ disk'[IdOf(runner[r].copy)] # Nobody
    BY <1>1, <1>4 DEF IInv, StoreKept, c
  <2>. QED BY <1>1, <1>3, <1>4, <2>1, <2>2, <2>3 DEF IInv, StoreKept, Writing
<1>. QED BY <1>5, <1>6, <1>7, <1>8 DEF IInv

LEMMA InsertStep ==
    ASSUME NEW r \in Runners, IInv, Insert(r)
    PROVE  IInv'
<1>1. /\ UNCHANGED <<backend, queue, disk, stored, requests, pendings>>
      /\ UNCHANGED <<seen, rest, held, posted, dropped, rollbacks>>
      /\ last' = Nothing /\ runner[r].pc = "insert"
      /\ NewId \in Ids /\ counter' = Max({counter, NewId})
      /\ writer' = IF backend = "sqlite" THEN r ELSE Nobody
      /\ backend = "sqlite" => writer \in {Nobody, r}
  BY DEF Insert, store, answers, history, MayWrite
<1>2. /\ NewId \in Nat /\ NewId \notin DOMAIN requests
      /\ counter \in Nat /\ counter' \in Nat
      /\ backend # "sqlite" => NewId = counter + 1 /\ counter' = counter + 1
  BY <1>1, NewIdIsNew DEF IInv, StateTyped
<1>3. /\ runner' \in [Runners -> Work]
      /\ \A x \in Runners : x # r => runner'[x] = runner[x]
      /\ runner'[r].pc = "finish" /\ runner'[r].copy = runner[r].copy
      /\ runner'[r].known = runner[r].known
      /\ runner'[r].id = NewId
  BY <1>2, Zenon DEF IInv, StateTyped, Insert, Work
<1>4. (StateTyped /\ CountsTyped /\ OneRequest /\ RestFinds /\ Answered)'
  BY <1>1, <1>2, <1>3 DEF IInv, StateTyped, CountsTyped, OneRequest, RestFinds,
                          Answered, Accepting, Requested
<1>5. OneRunner'
  BY <1>1, <1>3 DEF IInv, OneRunner, Busy
<1>6. IdsFresh'
  <2>1. DOMAIN requests \subseteq Nat /\ \A x \in Runners : runner[x].id \in Nat
    BY DEF IInv, StateTyped, Work, Ids
  <2>2. CASE backend = "sqlite"
    <3>1. \A x \in Runners : x # r => ~Writing(x)
      BY <1>1, <2>2, ModerationAssumption DEF IInv, IdsFresh
    <3>2. \A x \in Runners : Writing(x)' => x = r
      BY <1>3, <3>1 DEF Writing
    <3>. QED BY <1>1, <1>2, <1>3, <2>2, <3>2 DEF IdsFresh
  <2>3. CASE backend # "sqlite"
    <3>1. \A x \in Runners : x # r => (Writing(x)' <=> Writing(x))
      BY <1>3 DEF Writing
    <3>2. NewId = counter + 1 /\ counter' = counter + 1
      BY <1>2, <2>3
    <3>3. \A i \in DOMAIN requests : i <= counter'
      BY <1>2, <2>1, <2>3, <3>2 DEF IInv, IdsFresh
    <3>4. \A x \in Runners : Writing(x)' =>
             /\ runner'[x].id \in Ids /\ runner'[x].id \notin DOMAIN requests
             /\ runner'[x].id <= counter'
             /\ x # r => runner'[x].id # NewId
      BY <1>1, <1>2, <1>3, <2>1, <2>3, <3>1, <3>2 DEF IInv, IdsFresh
    <3>. QED BY <1>1, <1>3, <2>3, <3>1, <3>3, <3>4 DEF IInv, IdsFresh
  <2>. QED BY <2>2, <2>3
<1>7. ScreensTrue'
  <2> SUFFICES ASSUME backend # "sqlite" PROVE ScreensTrue'
    BY <1>1 DEF ScreensTrue
  <2>1. \A m \in Moderators : seen[m].id \in Nat
    BY DEF IInv, StateTyped, Screen, Blank, Ids
  <2>2. \A m \in Moderators : seen[m].id <= counter' /\ seen[m].id # NewId
    BY <1>2, <2>1 DEF IInv, ScreensTrue
  <2>. QED BY <1>1, <1>3, <2>2 DEF IInv, ScreensTrue, Writing, Nothing
<1>8. StoreKept'
  BY <1>1, <1>3 DEF IInv, StoreKept, Writing
<1>. QED BY <1>4, <1>5, <1>6, <1>7, <1>8 DEF IInv

LEMMA FinishStep ==
    ASSUME NEW r \in Runners, IInv, Finish(r)
    PROVE  IInv'
<1>1. /\ UNCHANGED <<backend, disk, stored, requests, pendings, counter, writer>>
      /\ UNCHANGED <<seen, rest, held, posted, dropped, rollbacks>>
      /\ last' = Nothing /\ runner[r].pc = "finish" /\ queue' = queue \ {runner[r].copy}
  BY DEF Finish, store, table, answers, history
<1>2. /\ runner' \in [Runners -> Work]
      /\ \A x \in Runners : x # r => runner'[x] = runner[x]
      /\ runner'[r].pc = "commit" /\ runner'[r].copy = runner[r].copy
      /\ runner'[r].known = runner[r].known /\ runner'[r].id = runner[r].id
  BY Zenon DEF IInv, StateTyped, Finish, Work
<1>3. (StateTyped /\ CountsTyped /\ OneRequest /\ RestFinds /\ Answered)'
  BY <1>1, <1>2 DEF IInv, StateTyped, CountsTyped, OneRequest, RestFinds,
                    Answered, Accepting, Requested
<1>4. OneRunner'
  BY <1>1, <1>2 DEF IInv, OneRunner, Busy
<1>5. (IdsFresh /\ ScreensTrue)'
  <2>1. \A x \in Runners : Writing(x)' <=> Writing(x)
    BY <1>1, <1>2 DEF Writing
  <2>2. \A x \in Runners : runner'[x].id = runner[x].id
    BY <1>2
  <2>. QED BY <1>1, <2>1, <2>2 DEF IInv, IdsFresh, ScreensTrue, Nothing
<1>6. StoreKept'
  BY <1>1, <1>2 DEF IInv, StoreKept, Writing
<1>. QED BY <1>3, <1>4, <1>5, <1>6 DEF IInv

LEMMA AbortStep ==
    ASSUME NEW r \in Runners, IInv, Abort(r)
    PROVE  IInv'
<1>1. /\ UNCHANGED <<backend, queue, disk, stored, requests, pendings, counter>>
      /\ UNCHANGED <<seen, rest, held, posted, dropped, rollbacks>>
      /\ last' = Nothing /\ writer' = IF writer = r THEN Nobody ELSE writer
  BY DEF Abort, store, table, answers, history
<1>2. /\ runner' \in [Runners -> Work]
      /\ \A x \in Runners : x # r => runner'[x] = runner[x]
      /\ runner'[r].pc = "idle"
  BY DEF IInv, StateTyped, Abort, Work, Idle
<1>3. (StateTyped /\ CountsTyped /\ OneRequest /\ RestFinds /\ Answered)'
  BY <1>1, <1>2 DEF IInv, StateTyped, CountsTyped, OneRequest, RestFinds,
                    Answered, Accepting, Requested
<1>4. OneRunner'
  BY <1>1, <1>2 DEF IInv, OneRunner, Busy
<1>5. (IdsFresh /\ ScreensTrue)'
  BY <1>1, <1>2 DEF IInv, IdsFresh, ScreensTrue, Nothing, Writing
<1>6. StoreKept'
  BY <1>1, <1>2 DEF IInv, StoreKept, Writing
<1>. QED BY <1>3, <1>4, <1>5, <1>6 DEF IInv

(* The commit makes a request of a copy that never had one.                *)
LEMMA CommitStep ==
    ASSUME NEW r \in Runners, IInv, Commit(r)
    PROVE  IInv'
<1> DEFINE c == runner[r].copy
           n == runner[r].id
<1>1. /\ UNCHANGED <<backend, queue, disk, counter>>
      /\ UNCHANGED <<seen, rest, posted, dropped, rollbacks>>
      /\ last' = Nothing /\ runner[r].pc = "commit"
      /\ stored' = IF runner[r].known THEN stored ELSE stored \cup {IdOf(c)}
      /\ DOMAIN requests' = DOMAIN requests \cup {n} /\ requests'[n] = c
      /\ \A i \in DOMAIN requests : i # n => requests'[i] = requests[i]
      /\ pendings' = pendings \cup {c} /\ held' = held \cup {c}
      /\ writer' = Nobody
  BY DEF Commit, answers
<1>2. /\ runner' \in [Runners -> Work]
      /\ \A x \in Runners : x # r => runner'[x] = runner[x]
      /\ runner'[r].pc = "idle"
  BY DEF IInv, StateTyped, Commit, Work, Idle
<1>3. /\ c \in Copies /\ c \notin held /\ c \notin queue /\ IdOf(c) \in MessageIds
      /\ n \in Ids /\ n \notin DOMAIN requests
      /\ \A x \in Runners : x # r /\ Busy(x) => runner[x].copy # c
      /\ \A x \in Runners : x # r /\ Writing(x) => runner[x].id # n
  <2>1. Busy(r) /\ Writing(r)
    BY <1>1 DEF Busy, Writing
  <2>2. c \in Copies /\ c \notin held /\ c \notin queue /\ IdOf(c) \in MessageIds
    BY <1>1, <2>1 DEF IInv, OneRunner, IdOf, MessageIds
  <2>3. \A x \in Runners : x # r /\ Busy(x) => runner[x].copy # c
    BY <2>1 DEF IInv, OneRunner
  <2>4. /\ n \in Ids /\ n \notin DOMAIN requests
        /\ \A x \in Runners : x # r /\ Writing(x) => runner[x].id # n
    BY <2>1 DEF IInv, IdsFresh
  <2>. QED BY <2>2, <2>3, <2>4
<1> HIDE DEF c, n
<1>4. \A i \in DOMAIN requests : requests'[i] = requests[i] /\ requests[i] # c
  BY <1>1, <1>3 DEF IInv, OneRequest
<1>5. StateTyped' /\ CountsTyped'
  BY <1>1, <1>2, <1>3, <1>4 DEF IInv, StateTyped, CountsTyped
<1>6. OneRunner'
  BY <1>1, <1>2, <1>3 DEF IInv, OneRunner, Busy
<1>7. IdsFresh'
  <2>1. \A x \in Runners : Writing(x)' => x # r /\ Writing(x)
    BY <1>2 DEF Writing
  <2>2. CASE backend = "sqlite"
    <3>1. \A x \in Runners : x # r => ~Writing(x)
      BY <1>1, <2>2 DEF IInv, IdsFresh, Writing
    <3>. QED BY <1>1, <2>1, <2>2, <3>1 DEF IdsFresh
  <2>3. CASE backend # "sqlite"
    <3>1. n <= counter
      BY <1>1, <2>3 DEF IInv, IdsFresh, Writing, n
    <3>. QED BY <1>1, <1>2, <1>3, <2>1, <2>3, <3>1 DEF IInv, IdsFresh
  <2>. QED BY <2>2, <2>3
<1>8. OneRequest' /\ RestFinds'
  BY <1>1, <1>4 DEF IInv, OneRequest, RestFinds
<1>9. Answered'
  <2>1. rest # Free => rest.id \in DOMAIN requests /\ rest.id # n
    BY <1>3 DEF IInv, RestFinds
  <2>2. \A d \in Copies : Accepting(d)' <=> Accepting(d)
    BY <1>1, <1>4, <2>1 DEF Accepting
  <2>3. \A d \in Copies : Requested(d)' <=> (d = c \/ Requested(d))
    BY <1>1, <1>4 DEF Requested
  <2>4. ~Requested(c)
    BY <1>4 DEF Requested
  <2>5. posted[c] = 0 /\ dropped[c] = 0 /\ rollbacks[c] \in Nat
    BY <1>3 DEF IInv, Answered, CountsTyped
  <2>. QED BY <1>1, <2>2, <2>3, <2>4, <2>5 DEF IInv, Answered
<1>10. StoreKept'
  <2>1. IF runner[r].known THEN backend # "mysql" => IdOf(c) \in stored
        ELSE disk[IdOf(c)] # Nobody
    BY <1>1 DEF IInv, StoreKept, Writing, c
  <2>2. \A x \in Runners : Writing(x)' \/ runner'[x].pc \in {"insert", "write"}
                             => x # r /\ runner'[x] = runner[x]
    BY <1>2 DEF Writing
  <2>. QED BY <1>1, <1>3, <1>4, <2>1, <2>2 DEF IInv, StoreKept, Writing
<1>11. ScreensTrue'
  <2> SUFFICES ASSUME backend # "sqlite" PROVE ScreensTrue'
    BY <1>1 DEF ScreensTrue
  <2>1. \A m \in Moderators : seen[m].id # n
    BY <1>1 DEF IInv, ScreensTrue, Writing, n
  <2>. QED BY <1>1, <1>2, <1>4, <2>1 DEF IInv, ScreensTrue, Writing, Nothing
<1>. QED BY <1>5, <1>6, <1>7, <1>8, <1>9, <1>10, <1>11 DEF IInv

-------------------------------------------------------------------------------
(* The moderators and the REST server.                                     *)
LEMMA SeeStep ==
    ASSUME NEW m \in Moderators, NEW i \in Ids, IInv, See(m, i)
    PROVE  IInv'
<1>1. /\ UNCHANGED <<backend, queue, runner, disk, stored, requests, pendings, counter, writer>>
      /\ UNCHANGED <<rest, held, posted, dropped, rollbacks>>
      /\ last' = Nothing /\ i \in DOMAIN requests
      /\ seen' = [seen EXCEPT ![m] = [id |-> i, copy |-> requests[i]]]
  BY DEF See, work, store, table, history
<1>2. /\ seen' \in [Moderators -> Screen \cup {Blank}]
      /\ \A x \in Moderators : x # m => seen'[x] = seen[x]
      /\ seen'[m].id = i /\ seen'[m].copy = requests[i]
  BY <1>1 DEF IInv, StateTyped, Screen
<1>3. (StateTyped /\ CountsTyped /\ OneRequest /\ RestFinds /\ Answered)'
  BY <1>1, <1>2 DEF IInv, StateTyped, CountsTyped, OneRequest, RestFinds,
                    Answered, Accepting, Requested
<1>4. (OneRunner /\ IdsFresh /\ StoreKept)'
  BY <1>1 DEF IInv, OneRunner, IdsFresh, StoreKept, Busy, Writing
<1>5. ScreensTrue'
  BY <1>1, <1>2 DEF IInv, ScreensTrue, IdsFresh, Writing, Nothing
<1>. QED BY <1>3, <1>4, <1>5 DEF IInv

LEMMA HandleStep ==
    ASSUME NEW m \in Moderators, IInv, Handle(m)
    PROVE  IInv'
<1> DEFINE i == seen[m].id
           c == requests[i]
<1>1. /\ UNCHANGED <<backend, queue, runner, disk, stored, requests, pendings, counter, writer>>
      /\ UNCHANGED <<held, dropped, rollbacks>>
      /\ seen' = [seen EXCEPT ![m] = Blank] /\ rest = Free
  BY DEF Handle, work, store, table
<1>2. /\ seen' \in [Moderators -> Screen \cup {Blank}]
      /\ \A x \in Moderators : x # m => seen'[x] = seen[x]
      /\ seen'[m].id = 0 /\ 0 \notin DOMAIN requests
  BY <1>1 DEF IInv, StateTyped, Blank, Ids
<1>3. (OneRunner /\ IdsFresh /\ OneRequest /\ StoreKept)'
  BY <1>1 DEF IInv, OneRunner, IdsFresh, OneRequest, StoreKept, Busy, Writing
<1>4. \A d \in Copies : Requested(d)' <=> Requested(d)
  BY <1>1 DEF Requested
<1>5. \A d \in Copies : ~Accepting(d)
  BY <1>1 DEF Accepting
<1>6. backend # "sqlite" =>
          \A x \in Moderators :
             /\ seen'[x].id <= counter
             /\ seen'[x].id \in DOMAIN requests => requests[seen'[x].id] = seen'[x].copy
             /\ \A r \in Runners : Writing(r) => runner[r].id # seen'[x].id
  <2>1. counter \in Nat /\ \A r \in Runners : Writing(r) => runner[r].id # 0
    BY DEF IInv, StateTyped, IdsFresh, Ids
  <2> SUFFICES ASSUME backend # "sqlite", NEW x \in Moderators
               PROVE  /\ seen'[x].id <= counter
                      /\ seen'[x].id \in DOMAIN requests
                             => requests[seen'[x].id] = seen'[x].copy
                      /\ \A r \in Runners : Writing(r) => runner[r].id # seen'[x].id
    OBVIOUS
  <2>2. CASE x = m
    BY <1>2, <2>1, <2>2
  <2>3. CASE x # m
    BY <1>2, <2>3 DEF IInv, ScreensTrue
  <2>. QED BY <2>2, <2>3
<1>7. CASE Pass(m)
  <2>1. UNCHANGED <<rest, posted>> /\ last' = Nothing
    BY <1>7 DEF Pass
  <2>2. (StateTyped /\ CountsTyped /\ RestFinds /\ Answered)'
    BY <1>1, <1>2, <1>4, <2>1 DEF IInv, StateTyped, CountsTyped, RestFinds, Answered, Accepting
  <2>3. ScreensTrue'
    BY <1>1, <1>6, <2>1 DEF ScreensTrue, Writing, Nothing
  <2>. QED BY <1>3, <2>2, <2>3 DEF IInv
<1>8. ASSUME NEW op \in {"accept", "drop"}, Found(m),
             rest' = [id |-> i, op |-> op], last' = Did(op, m),
             posted' = IF op = "accept" THEN [posted EXCEPT ![c] = @ + 1] ELSE posted
      PROVE  IInv'
  <2>1. i \in DOMAIN requests /\ i \in Ids /\ c \in Copies
    BY <1>8 DEF Found, IInv, StateTyped
  <2>2. rest' \in Answer /\ rest'.id = i /\ rest'.op = op /\ rest' # Free
    BY <1>8, <2>1 DEF Answer, Free, Ids
  <2>3. last'.held = c /\ last'.seen = seen[m].copy
    BY <1>8 DEF Did
  <2> HIDE DEF i
  <2>4. /\ posted' \in [Copies -> Nat]
        /\ \A d \in Copies : posted'[d] = posted[d] + (IF d = c /\ op = "accept" THEN 1 ELSE 0)
    BY <1>8, <2>1 DEF IInv, CountsTyped
  <2>5. StateTyped' /\ CountsTyped' /\ RestFinds'
    BY <1>1, <1>2, <2>1, <2>2, <2>4 DEF IInv, StateTyped, CountsTyped, RestFinds
  <2>6. Answered'
    <3>1. \A d \in Copies : Accepting(d)' <=> (d = c /\ op = "accept")
      BY <1>1, <2>1, <2>2 DEF Accepting
    <3>2. Requested(c)
      BY <2>1 DEF Requested
    <3>3. \A d \in Copies : posted[d] \in Nat /\ dropped[d] \in Nat /\ rollbacks[d] \in Nat
      BY DEF IInv, CountsTyped
    <3>4. c \in held
      BY <2>1 DEF IInv, OneRequest
    <3>. QED BY <1>1, <1>4, <1>5, <2>1, <2>4, <3>1, <3>2, <3>3, <3>4 DEF IInv, Answered
  <2>7. ScreensTrue'
    <3>1. backend # "sqlite" => c = seen[m].copy
      BY <2>1 DEF IInv, ScreensTrue, i
    <3>. QED BY <1>1, <1>6, <2>3, <3>1 DEF ScreensTrue, Writing
  <2>. QED BY <1>3, <2>5, <2>6, <2>7 DEF IInv
<1>9. CASE Drop(m)
  BY <1>8, <1>9 DEF Drop
<1>10. CASE Accept(m)
  BY <1>8, <1>10 DEF Accept
<1>. QED BY <1>7, <1>9, <1>10 DEF Handle

(* The request goes, and with it what was known of its copy; a dropped one *)
(* is counted now, an accepted one was when it was queued.                 *)
LEMMA DeleteStep ==
    ASSUME IInv, Delete
    PROVE  IInv'
<1> DEFINE i == rest.id
           c == requests[i]
<1>1. /\ UNCHANGED <<backend, queue, runner, disk, stored, counter, writer>>
      /\ UNCHANGED <<seen, held, posted, rollbacks>>
      /\ last' = Nothing /\ rest # Free /\ rest' = Free
      /\ requests' = Restrict(requests, DOMAIN requests \ {i})
      /\ pendings' = pendings \ {c}
      /\ dropped' = IF rest.op = "drop" THEN [dropped EXCEPT ![c] = @ + 1] ELSE dropped
  BY DEF Delete, work, store
<1>2. /\ i \in DOMAIN requests /\ c \in Copies /\ rest.op \in {"accept", "drop"}
      /\ \A j \in DOMAIN requests : j # i => requests[j] # c
  BY <1>1 DEF IInv, RestFinds, StateTyped, OneRequest, Answer
<1>3. /\ DOMAIN requests' = DOMAIN requests \ {i}
      /\ \A j \in DOMAIN requests' : requests'[j] = requests[j] /\ requests[j] # c
  BY <1>1, <1>2 DEF Restrict
<1>4. /\ dropped' \in [Copies -> Nat]
      /\ \A d \in Copies :
            dropped'[d] = dropped[d] + (IF d = c /\ rest.op = "drop" THEN 1 ELSE 0)
  BY <1>1, <1>2 DEF IInv, CountsTyped
<1>5. Accepting(c) <=> rest.op = "accept"
  BY <1>1, <1>2 DEF Accepting
<1>6. Requested(c)
  BY <1>2 DEF Requested
<1> HIDE DEF i, c
<1>7. (StateTyped /\ CountsTyped /\ OneRequest /\ RestFinds)'
  BY <1>1, <1>3, <1>4 DEF IInv, StateTyped, CountsTyped, OneRequest, RestFinds
<1>8. (OneRunner /\ IdsFresh /\ StoreKept)'
  BY <1>1, <1>3 DEF IInv, OneRunner, IdsFresh, StoreKept, Busy, Writing
<1>9. Answered'
  <2>1. \A d \in Copies : Requested(d)' <=> (d # c /\ Requested(d))
    BY <1>2, <1>3 DEF Requested, c, i
  <2>2. \A d \in Copies : ~Accepting(d)' /\ (d # c => ~Accepting(d))
    BY <1>1 DEF Accepting, c, i
  <2>3. \A d \in Copies : posted[d] \in Nat /\ dropped[d] \in Nat /\ rollbacks[d] \in Nat
    BY DEF IInv, CountsTyped
  <2> SUFFICES ASSUME NEW d \in Copies
               PROVE  /\ posted[d] + dropped'[d] <= 1 + rollbacks[d]
                      /\ Requested(d)' => /\ dropped'[d] = 0 /\ posted[d] <= rollbacks[d]
                      /\ d \notin held => posted[d] = 0 /\ dropped'[d] = 0
                      /\ d \in held => Requested(d)' \/ posted[d] + dropped'[d] > 0
    BY <1>1, <2>2, <2>3 DEF Answered
  <2>4. CASE d = c
    <3>1. c \in held
      BY <1>2 DEF IInv, OneRequest, c
    <3>2. dropped[c] = 0 /\ posted[c] <= rollbacks[c] + (IF rest.op = "accept" THEN 1 ELSE 0)
      BY <1>2, <1>5, <1>6 DEF IInv, Answered
    <3>3. rest.op = "accept" => posted[c] > 0
      BY <1>2, <1>5 DEF IInv, Answered
    <3>. QED BY <1>2, <1>4, <2>1, <2>3, <2>4, <3>1, <3>2, <3>3
  <2>5. CASE d # c
    BY <1>4, <2>1, <2>2, <2>3, <2>5 DEF IInv, Answered
  <2>. QED BY <2>4, <2>5
<1>10. ScreensTrue'
  BY <1>1, <1>3 DEF IInv, ScreensTrue, Writing, Nothing
<1>. QED BY <1>7, <1>8, <1>9, <1>10 DEF IInv

LEMMA RollbackStep ==
    ASSUME IInv, Rollback
    PROVE  IInv'
<1> DEFINE c == requests[rest.id]
<1>1. /\ UNCHANGED <<backend, queue, runner, disk, stored, requests, pendings, counter, writer>>
      /\ UNCHANGED <<seen, held, posted, dropped>>
      /\ last' = Nothing /\ rest # Free /\ rest' = Free
      /\ rollbacks' = [rollbacks EXCEPT ![c] = @ + 1]
  BY DEF Rollback, work, store, table
<1>2. c \in Copies
  BY <1>1 DEF IInv, RestFinds, StateTyped
<1>3. /\ rollbacks' \in [Copies -> Nat]
      /\ \A d \in Copies : rollbacks'[d] = rollbacks[d] + (IF d = c THEN 1 ELSE 0)
  BY <1>1, <1>2 DEF IInv, CountsTyped
<1>4. \A d \in Copies : Accepting(d) => d = c
  BY DEF Accepting
<1> HIDE DEF c
<1>5. (StateTyped /\ CountsTyped /\ OneRunner /\ IdsFresh /\ OneRequest /\ RestFinds)'
  BY <1>1, <1>3 DEF IInv, StateTyped, CountsTyped, OneRunner, IdsFresh, OneRequest,
                    RestFinds, Busy, Writing
<1>6. Answered'
  <2>1. \A d \in Copies : ~Accepting(d)' /\ (Requested(d)' <=> Requested(d))
    BY <1>1 DEF Accepting, Requested
  <2>2. \A d \in Copies : posted[d] \in Nat /\ dropped[d] \in Nat /\ rollbacks[d] \in Nat
    BY DEF IInv, CountsTyped
  <2>. QED BY <1>1, <1>3, <1>4, <2>1, <2>2 DEF IInv, Answered
<1>7. (StoreKept /\ ScreensTrue)'
  BY <1>1 DEF IInv, StoreKept, ScreensTrue, Writing, Nothing
<1>. QED BY <1>5, <1>6, <1>7 DEF IInv

-------------------------------------------------------------------------------
LEMMA Initially == Init => IInv
<1> SUFFICES ASSUME Init PROVE IInv
  OBVIOUS
<1>1. DOMAIN requests = {} /\ last = Nothing /\ rest = Free /\ counter = 0
      /\ held = {} /\ stored = {}
  BY DEF Init
<1>2. \A r \in Runners : runner[r].pc = "idle"
  BY DEF Init, Idle
<1>3. StateTyped /\ CountsTyped
  BY <1>1, ModerationAssumption DEF Init, StateTyped, CountsTyped, Work, Idle
<1>4. OneRunner /\ IdsFresh /\ OneRequest /\ RestFinds /\ StoreKept
  BY <1>1, <1>2 DEF OneRunner, IdsFresh, OneRequest, RestFinds, StoreKept, Busy, Writing
<1>5. Answered
  <2>1. \A c \in Copies : posted[c] = 0 /\ dropped[c] = 0 /\ rollbacks[c] = 0
    BY DEF Init
  <2>. QED BY <1>1, <2>1 DEF Answered, Accepting, Requested
<1>6. ScreensTrue
  <2>1. \A m \in Moderators : seen[m].id = 0
    BY DEF Init, Blank
  <2>. QED BY <1>1, <1>2, <2>1 DEF ScreensTrue, Writing, Nothing
<1>. QED BY <1>3, <1>4, <1>5, <1>6 DEF IInv

LEMMA Inductive == IInv /\ [Next]_vars => IInv'
<1> SUFFICES ASSUME IInv, [Next]_vars PROVE IInv'
  OBVIOUS
<1>1. ASSUME NEW r \in Runners, NEW c \in Copies, Look(r, c) PROVE IInv'
  BY <1>1, LookStep
<1>2. ASSUME NEW r \in Runners, Write(r) \/ Insert(r) \/ Finish(r) PROVE IInv'
  BY <1>2, WriteStep, InsertStep, FinishStep
<1>3. ASSUME NEW r \in Runners, Commit(r) \/ Abort(r) PROVE IInv'
  BY <1>3, CommitStep, AbortStep
<1>4. ASSUME NEW m \in Moderators, NEW i \in Ids, See(m, i) PROVE IInv'
  BY <1>4, SeeStep
<1>5. ASSUME NEW m \in Moderators, Handle(m) PROVE IInv'
  BY <1>5, HandleStep
<1>6. CASE Delete \/ Rollback
  BY <1>6, DeleteStep, RollbackStep
<1>7. CASE UNCHANGED vars
  <2>1. /\ UNCHANGED <<backend, queue, runner, disk, stored, requests, pendings, counter>>
        /\ UNCHANGED <<writer, seen, rest, held, posted, dropped, rollbacks, last>>
    BY <1>7 DEF vars, work, store, table, answers, history
  <2>2. (StateTyped /\ CountsTyped /\ OneRunner /\ IdsFresh /\ OneRequest /\ RestFinds)'
    BY <2>1 DEF IInv, StateTyped, CountsTyped, OneRunner, IdsFresh, OneRequest,
                RestFinds, Busy, Writing
  <2>3. (Answered /\ StoreKept /\ ScreensTrue)'
    BY <2>1 DEF IInv, Answered, StoreKept, ScreensTrue, Accepting, Requested, Writing
  <2>. QED BY <2>2, <2>3 DEF IInv
<1>. QED BY <1>1, <1>2, <1>3, <1>4, <1>5, <1>6, <1>7 DEF Next

LEMMA Invariance == Spec => []IInv
BY Initially, Inductive, PTL DEF Spec

-------------------------------------------------------------------------------
(* Whatever transactions fail or run next to each other, a request in the  *)
(* table has its message in the store, row and file, and its metadata      *)
(* pended, except in MySQL (hold_message, MessageStore.add).               *)
THEOREM RequestsAlwaysResolve == Spec => []RequestsResolvable
<1>1. IInv => RequestsResolvable
  BY DEF IInv, StoreKept, OneRequest, RequestsResolvable
<1>. QED BY <1>1, Invariance, PTL

(* However many moderators have a held message on their screens, it is     *)
(* posted or dropped once, and once more for each answer whose transaction *)
(* was rolled back (handle_message).                                       *)
THEOREM DecidedOnlyOnce == Spec => []DecidedOnce
<1>1. IInv => DecidedOnce
  BY DEF IInv, Answered, DecidedOnce
<1>. QED BY <1>1, Invariance, PTL

(* A held message stays on exactly one request until it is posted or       *)
(* dropped: no other request that is held or decided takes it away.        *)
THEOREM HeldStaysUntilDecided == Spec => []HeldUntilDecided
<1>1. IInv => HeldUntilDecided
  <2> SUFFICES ASSUME IInv, NEW c \in held, ~(posted[c] + dropped[c] > 0)
               PROVE  Cardinality({i \in DOMAIN requests : requests[i] = c}) = 1
    BY DEF HeldUntilDecided
  <2>1. PICK i \in DOMAIN requests : requests[i] = c
    BY DEF IInv, Answered, StateTyped, Requested
  <2>2. {j \in DOMAIN requests : requests[j] = c} = {i}
    BY <2>1 DEF IInv, OneRequest
  <2>3. IsFiniteSet({i}) /\ Cardinality({i}) = 1
    BY FS_Singleton
  <2>. QED BY <2>2, <2>3
<1>. QED BY <1>1, Invariance, PTL

(* Where the database counts ids up, an answer is for the message that was *)
(* on the screen, whatever was held and decided since it was shown.        *)
THEOREM AnswersMeanWhatWasShown == Spec => []AnswersWhatWasShown
<1>1. IInv => AnswersWhatWasShown
  BY DEF IInv, ScreensTrue, AnswersWhatWasShown
<1>. QED BY <1>1, Invariance, PTL
================================================================================
