------------------------------- MODULE SiteProofs -------------------------------
(***************************************************************************)
(* Theorems about Site.                                                    *)
(***************************************************************************)
EXTENDS Site, FiniteSetTheorems, WellFoundedInduction, TLAPS

(***************************************************************************)
(* Databases.                                                              *)
(***************************************************************************)
Serial == {"users", "members", "matches", "cache"}
Number == Nat \ {NoUser}
Finite(S) == IsFiniteSet(S) /\ S \subseteq Number

(* The database has all tables, and the serial keys are numbers, of which  *)
(* there is always another one.                                            *)
Function(t) == t = [k \in DOMAIN t |-> t[k]]
HasTables(d) == d = [n \in Tables |-> d[n]]
Keyed(d) ==
    /\ HasTables(d)
    /\ \A n \in Serial : Finite(DOMAIN d[n])

(* The rows of a table have its columns.                                   *)
RowOK(n, row) == n \in DOMAIN Columns => row = [c \in Columns[n] |-> row[c]]
TableOK(n, t) ==
    /\ Function(t)
    /\ \A k \in DOMAIN t : RowOK(n, t[k])
Rows(d) == \A n \in Tables : TableOK(n, d[n])

(* The header matches of each list have the numbers from 0 on, each once.  *)
OfList(t, l) == {i \in DOMAIN t : t[i].list = l}
UpTo(t, l, c) ==
    /\ \A i \in OfList(t, l) : t[i].position \in 0 .. c - 1
    /\ \A n \in 0 .. c - 1 : \E i \in OfList(t, l) : t[i].position = n
    /\ \A i, j \in OfList(t, l) : t[i].position = t[j].position => i = j
Consecutive(t) == \A l : \E c \in Nat : UpTo(t, l, c)
Gapless(d) == Consecutive(d.matches)

Sound(d) == Rows(d) /\ ForeignKeys(d) /\ ListsFound(d) /\ Gapless(d)

(* What a request does to the database.                                    *)
Kept(d, e) ==
    /\ Keyed(e)
    /\ Sound(d) => Sound(e)
    /\ Sound(d) /\ Rosters(d) => Rosters(e)
SamePlaces(d, e) ==
    DOMAIN e.lists = DOMAIN d.lists /\ DOMAIN d.domains \subseteq DOMAIN e.domains
SameCache(d, e) == e.cache = d.cache /\ e.templates = d.templates
Framed(d, e) == Kept(d, e) /\ SamePlaces(d, e) /\ SameCache(d, e)
(* The same but for the rosters.                                           *)
Loose(d, e) == Keyed(e) /\ (Sound(d) => Sound(e)) /\ SamePlaces(d, e) /\ SameCache(d, e)

LEMMA FrameSame ==
    ASSUME NEW d, Keyed(d)
    PROVE  Framed(d, d)
  BY DEF Framed, Kept, SamePlaces, SameCache

LEMMA FrameTransitive ==
    ASSUME NEW c, NEW d, NEW e, Framed(c, d), Framed(d, e)
    PROVE  Framed(c, e)
  BY DEF Framed, Kept, SamePlaces, SameCache

LEMMA KeptTransitive ==
    ASSUME NEW c, NEW d, NEW e, Kept(c, d), Kept(d, e)
    PROVE  Kept(c, e)
  BY DEF Kept

--------------------------------------------------------------------------------
(***************************************************************************)
(* Tables.                                                                 *)
(***************************************************************************)
LEMMA DropFields ==
    ASSUME NEW t, NEW ks
    PROVE  /\ DOMAIN Drop(t, ks) = DOMAIN t \ ks
           /\ \A k \in DOMAIN t \ ks : Drop(t, ks)[k] = t[k]
           /\ Function(Drop(t, ks))
  BY DEF Drop, Restrict, Function

LEMMA PutFields ==
    ASSUME NEW t, NEW ks, NEW row
    PROVE  /\ DOMAIN PutAll(t, ks, row) = DOMAIN t \cup ks
           /\ \A k \in ks : PutAll(t, ks, row)[k] = row
           /\ \A k \in DOMAIN t : k \notin ks => PutAll(t, ks, row)[k] = t[k]
           /\ Function(PutAll(t, ks, row))
  BY DEF PutAll, Function

LEMMA DropRows ==
    ASSUME NEW t, NEW ks
    PROVE  \A k \in DOMAIN Drop(t, ks) : Drop(t, ks)[k] = t[k]
  BY DEF Drop, Restrict

LEMMA DropOK ==
    ASSUME NEW n, NEW t, NEW ks, TableOK(n, t)
    PROVE  TableOK(n, Drop(t, ks))
<1> DEFINE u == Drop(t, ks)
<1>1. /\ DOMAIN u = DOMAIN t \ ks /\ Function(u)
      /\ \A k \in DOMAIN u : u[k] = t[k]
  <2>1. DOMAIN u = DOMAIN t \ ks /\ Function(u)
    BY DropFields, Zenon
  <2>2. \A k \in DOMAIN u : u[k] = t[k]
    BY DropRows, Zenon
  <2>. QED BY <2>1, <2>2
<1> HIDE DEF u
<1>2. ASSUME NEW k \in DOMAIN u PROVE RowOK(n, u[k])
  BY <1>1 DEF TableOK
<1>3. TableOK(n, u)
  BY <1>1, <1>2 DEF TableOK
<1>. QED BY <1>3 DEF u

LEMMA PutOK ==
    ASSUME NEW n, NEW t, NEW ks, NEW row, TableOK(n, t), RowOK(n, row)
    PROVE  TableOK(n, PutAll(t, ks, row))
<1> DEFINE u == PutAll(t, ks, row)
<1>1. /\ DOMAIN u = DOMAIN t \cup ks /\ Function(u)
      /\ \A k \in ks : u[k] = row
      /\ \A k \in DOMAIN t : k \notin ks => u[k] = t[k]
  BY DEF PutAll, Function
<1> HIDE DEF u
<1>2. ASSUME NEW k \in DOMAIN u PROVE RowOK(n, u[k])
  BY <1>1 DEF TableOK
<1>3. TableOK(n, u)
  BY <1>1, <1>2 DEF TableOK
<1>. QED BY <1>3 DEF u

LEMMA DropFinite ==
    ASSUME NEW t, NEW ks, Finite(DOMAIN t)
    PROVE  Finite(DOMAIN Drop(t, ks))
<1>1. DOMAIN Drop(t, ks) \in SUBSET DOMAIN t
  <2>1. DOMAIN Drop(t, ks) = DOMAIN t \ ks
    BY DropFields, Zenon
  <2>. QED BY <2>1
<1>2. IsFiniteSet(DOMAIN t) /\ DOMAIN t \subseteq Number
  BY DEF Finite
<1>3. IsFiniteSet(DOMAIN Drop(t, ks))
  BY <1>1, <1>2, FS_Subset
<1>. QED BY <1>1, <1>2, <1>3 DEF Finite

(* A database that differs in one table.                                   *)
LEMMA Updated ==
    ASSUME NEW d, NEW n \in Tables, NEW t, HasTables(d)
    PROVE  /\ HasTables([d EXCEPT ![n] = t])
           /\ [d EXCEPT ![n] = t][n] = t
           /\ \A m \in Tables \ {n} : [d EXCEPT ![n] = t][m] = d[m]
  BY DEF HasTables

LEMMA UpdatedKeyed ==
    ASSUME NEW d, NEW n \in Tables, NEW t, Keyed(d), n \in Serial => Finite(DOMAIN t)
    PROVE  Keyed([d EXCEPT ![n] = t])
<1> DEFINE e == [d EXCEPT ![n] = t]
<1>1. /\ HasTables(e) /\ e[n] = t
      /\ \A m \in Tables \ {n} : e[m] = d[m]
  <2>1. HasTables(d)
    BY DEF Keyed
  <2>. QED BY <2>1 DEF HasTables
<1>2. ASSUME NEW m \in Serial PROVE Finite(DOMAIN e[m])
  BY <1>1, <1>2 DEF Keyed, Serial, Tables
<1>. QED BY <1>1, <1>2 DEF Keyed

LEMMA UpdatedRows ==
    ASSUME NEW d, NEW n \in Tables, NEW t, Keyed(d), Rows(d), TableOK(n, t)
    PROVE  Rows([d EXCEPT ![n] = t])
  BY Updated DEF Rows, Keyed

LEMMA Least ==
    ASSUME NEW S \in SUBSET Nat, S # {}
    PROVE  \E n \in S : \A m \in S : n =< m
<1>1. PICK n \in S : \A m \in S : ~ (<<m, n>> \in OpToRel(<, Nat))
  BY NatLessThanWellFounded, WFMin
<1>2. \A m \in S : ~ (m < n)
  BY <1>1 DEF OpToRel
<1>. QED BY <1>2

(* New keys.                                                               *)
LEMMA UnusedKey ==
    ASSUME NEW t, NEW ks, Finite(DOMAIN t), Finite(ks)
    PROVE  Unused(t, ks) \in Number \ (DOMAIN t \cup ks)
<1> DEFINE used == DOMAIN t \cup ks
           n == Cardinality(used)
           S == (1 .. n + 1) \ used
<1>1. IsFiniteSet(used) /\ n \in Nat
  BY FS_Union, FS_CardinalityType DEF Finite
<1>2. S # {}
  <2>1. SUFFICES ASSUME 1 .. n + 1 \subseteq used PROVE FALSE
    OBVIOUS
  <2>2. Cardinality(1 .. n + 1) = n + 1
    BY <1>1, FS_Interval
  <2>3. Cardinality(1 .. n + 1) <= n
    BY <1>1, <2>1, FS_Subset
  <2>. QED BY <1>1, <2>2, <2>3
<1>3. S \in SUBSET Nat
  BY <1>1
<1> HIDE DEF S
<1>4. \E x \in S : \A y \in S : x =< y
  BY <1>2, <1>3, Least
<1>5. Unused(t, ks) \in S
  BY <1>4 DEF Unused, Min, S
<1>. QED BY <1>1, <1>5 DEF S, Number, NoUser

LEMMA GaplessSame ==
    ASSUME NEW d, NEW e, Gapless(d), e.matches = d.matches
    PROVE  Gapless(e)
BY DEF Gapless

LEMMA RostersSame ==
    ASSUME NEW d, NEW e, Rosters(d), e.members = d.members
    PROVE  Rosters(e)
BY DEF Rosters, Memberships

LEMMA Changes ==
    ASSUME NEW d, NEW e, Keyed(e), Rows(d) => Rows(e), SamePlaces(d, e), SameCache(d, e),
           e.matches = d.matches,
           Sound(d) => ForeignKeys(e) /\ ListsFound(e),
           Sound(d) /\ Rosters(d) => Rosters(e)
    PROVE  Framed(d, e)
  BY GaplessSame DEF Framed, Kept, Sound

--------------------------------------------------------------------------------
(***************************************************************************)
(* Users and addresses.                                                    *)
(***************************************************************************)
LEMMA AddressRow ==
    ASSUME NEW u, NEW v
    PROVE  RowOK("addresses", [user |-> u, verified |-> v])
  BY DEF RowOK, Columns

(* A database with other rows of addresses, or of members.                 *)
LEMMA OtherAddresses ==
    ASSUME NEW d, Keyed(d), NEW t, Rows(d) => TableOK("addresses", t),
           Sound(d) => /\ DOMAIN d.addresses \subseteq DOMAIN t
                       /\ \A e \in DOMAIN t : t[e].user \in DOMAIN d.users \cup {NoUser}
    PROVE  /\ Framed(d, [d EXCEPT !.addresses = t])
           /\ [d EXCEPT !.addresses = t].addresses = t
           /\ [d EXCEPT !.addresses = t].users = d.users
           /\ [d EXCEPT !.addresses = t].members = d.members
<1> DEFINE c == [d EXCEPT !.addresses = t]
<1>a. HasTables(d) /\ "addresses" \in Tables
  BY DEF Keyed, Tables
<1>1. /\ c.addresses = t
      /\ \A n \in Tables \ {"addresses"} : c[n] = d[n]
  BY <1>a, Updated
<1>2. Keyed(c) /\ (Rows(d) => Rows(c))
  BY UpdatedKeyed, UpdatedRows DEF Tables, Serial
<1> HIDE DEF c
<1>3. SamePlaces(d, c) /\ SameCache(d, c) /\ c.matches = d.matches /\ c.members = d.members
      /\ c.users = d.users /\ c.owners = d.owners /\ c.domains = d.domains
  BY <1>1 DEF SamePlaces, SameCache, Tables
<1>4. ASSUME Sound(d) PROVE ForeignKeys(c)
  <2>1. UsersFound(c)
    BY <1>1, <1>3, <1>4 DEF Sound, ForeignKeys, UsersFound
  <2>2. AddressesFound(c)
    BY <1>1, <1>3, <1>4 DEF Sound, ForeignKeys, AddressesFound, Known
  <2>3. PartsFound(c)
    BY <1>1, <1>4 DEF Sound, ForeignKeys, PartsFound, Tables
  <2>. QED BY <2>1, <2>2, <2>3 DEF ForeignKeys
<1>5. ListsFound(d) => ListsFound(c)
  BY <1>3 DEF ListsFound, SamePlaces
<1>6. Framed(d, c)
  BY <1>2, <1>3, <1>4, <1>5, Changes, RostersSame DEF Sound
<1>. QED BY <1>1, <1>3, <1>6 DEF c

Distinct(t) ==
    \A i, j \in DOMAIN t :
        t[i].list = t[j].list /\ t[i].role = t[j].role /\ t[i].email = t[j].email => i = j

LEMMA RostersAre ==
    ASSUME NEW d
    PROVE  Rosters(d) <=> Distinct(d.members)
BY DEF Rosters, Distinct, Memberships

LEMMA OtherMembersLoose ==
    ASSUME NEW d, Keyed(d), NEW t, Rows(d) => TableOK("members", t), Finite(DOMAIN t),
           Sound(d) => \A i \in DOMAIN t : /\ Known(d, t[i].email)
                                           /\ t[i].list \in DOMAIN d.lists
    PROVE  /\ Loose(d, [d EXCEPT !.members = t])
           /\ \A n \in Tables \ {"members"} : [d EXCEPT !.members = t][n] = d[n]
           /\ [d EXCEPT !.members = t].members = t
<1> DEFINE c == [d EXCEPT !.members = t]
<1>a. HasTables(d) /\ "members" \in Tables
  BY DEF Keyed, Tables
<1>1. /\ c.members = t
      /\ \A n \in Tables \ {"members"} : c[n] = d[n]
  BY <1>a, Updated
<1>2. Keyed(c) /\ (Rows(d) => Rows(c))
  BY UpdatedKeyed, UpdatedRows DEF Tables, Serial
<1> HIDE DEF c
<1>3. SamePlaces(d, c) /\ SameCache(d, c) /\ c.matches = d.matches /\ c.addresses = d.addresses
      /\ c.users = d.users /\ c.owners = d.owners /\ c.domains = d.domains
  BY <1>1 DEF SamePlaces, SameCache, Tables
<1>4. ASSUME Sound(d) PROVE ForeignKeys(c)
  <2>1. UsersFound(c)
    BY <1>1, <1>3, <1>4 DEF Sound, ForeignKeys, UsersFound
  <2>2. AddressesFound(c)
    BY <1>1, <1>3, <1>4 DEF Sound, ForeignKeys, AddressesFound, Known
  <2>3. PartsFound(c)
    BY <1>1, <1>4 DEF Sound, ForeignKeys, PartsFound, Tables
  <2>. QED BY <2>1, <2>2, <2>3 DEF ForeignKeys
<1>5. ASSUME Sound(d) PROVE ListsFound(c)
  BY <1>1, <1>3, <1>5 DEF ListsFound, SamePlaces
<1>6. Sound(d) => Sound(c)
  BY <1>2, <1>3, <1>4, <1>5, GaplessSame DEF Sound
<1>. QED BY <1>1, <1>2, <1>3, <1>6 DEF c, Loose

LEMMA OtherMembers ==
    ASSUME NEW d, Keyed(d), NEW t, Rows(d) => TableOK("members", t), Finite(DOMAIN t),
           Sound(d) => \A i \in DOMAIN t : /\ Known(d, t[i].email)
                                           /\ t[i].list \in DOMAIN d.lists,
           Sound(d) /\ Distinct(d.members) => Distinct(t)
    PROVE  /\ Framed(d, [d EXCEPT !.members = t])
           /\ \A n \in Tables \ {"members"} : [d EXCEPT !.members = t][n] = d[n]
<1> DEFINE c == [d EXCEPT !.members = t]
<1>1. /\ Loose(d, c) /\ c.members = t
      /\ \A n \in Tables \ {"members"} : c[n] = d[n]
  BY OtherMembersLoose
<1> HIDE DEF c
<1>2. Sound(d) /\ Rosters(d) => Rosters(c)
  BY <1>1, RostersAre
<1>3. Framed(d, c)
  BY <1>1, <1>2 DEF Framed, Kept, Loose
<1>. QED BY <1>1, <1>3 DEF c

LEMMA AddressUser ==
    ASSUME NEW row, NEW u, row = [c \in {"user", "verified"} |-> row[c]]
    PROVE  /\ RowOK("addresses", row) /\ RowOK("addresses", [row EXCEPT !.user = u])
           /\ [row EXCEPT !.user = u].user = u
<1>1. Columns["addresses"] = {"user", "verified"}
  BY DEF Columns
<1>2. [row EXCEPT !.user = u] = [c \in {"user", "verified"} |-> [row EXCEPT !.user = u][c]]
  BY Zenon
<1>3. [row EXCEPT !.user = u].user = u
  BY DEF Columns
<1>. QED BY <1>1, <1>2, <1>3 DEF RowOK

LEMMA CreatesAddress ==
    ASSUME NEW d, Keyed(d), NEW e, ~Known(d, e)
    PROVE  Framed(d, CreateAddress(d, e)) /\ Known(CreateAddress(d, e), e)
<1> DEFINE row == [user |-> NoUser, verified |-> FALSE]
           t == PutAll(d.addresses, {e}, row)
<1>1. CreateAddress(d, e) = [d EXCEPT !.addresses = t]
  BY DEF CreateAddress, Put
<1>2. /\ DOMAIN t = DOMAIN d.addresses \cup {e} /\ t[e] = row
      /\ \A k \in DOMAIN d.addresses : t[k] = d.addresses[k]
  BY DEF PutAll, Known
<1>3. Rows(d) => TableOK("addresses", t)
  BY AddressRow, PutOK DEF Rows, Tables
<1> HIDE DEF t
<1>4. Sound(d) => \A k \in DOMAIN t : t[k].user \in DOMAIN d.users \cup {NoUser}
  BY <1>2 DEF Sound, ForeignKeys, UsersFound
<1>. QED BY <1>1, <1>2, <1>3, <1>4, OtherAddresses DEF Known

LEMMA LinksAll ==
    ASSUME NEW d, Keyed(d), NEW es, NEW u, u \in DOMAIN d.users \cup {NoUser}
    PROVE  /\ Framed(d, LinkAll(d, es, u))
           /\ LinkAll(d, es, u).users = d.users
           /\ LinkAll(d, es, u).members = d.members
           /\ DOMAIN LinkAll(d, es, u).addresses = DOMAIN d.addresses
           /\ \A e \in DOMAIN d.addresses :
                 /\ Rows(d) /\ e \in es => LinkAll(d, es, u).addresses[e].user = u
                 /\ e \notin es => LinkAll(d, es, u).addresses[e] = d.addresses[e]
<1> DEFINE t == [e \in DOMAIN d.addresses |->
                    IF e \in es THEN [d.addresses[e] EXCEPT !.user = u] ELSE d.addresses[e]]
<1>1. LinkAll(d, es, u) = [d EXCEPT !.addresses = t]
  BY DEF LinkAll
<1>2. /\ DOMAIN t = DOMAIN d.addresses /\ Function(t)
      /\ \A e \in DOMAIN t : /\ e \in es => t[e] = [d.addresses[e] EXCEPT !.user = u]
                             /\ e \notin es => t[e] = d.addresses[e]
  BY DEF Function
<1> HIDE DEF t
<1>3. ASSUME NEW e \in DOMAIN t, Rows(d)
      PROVE  /\ RowOK("addresses", t[e])
             /\ e \in es => t[e].user = u
  <2>1. d.addresses[e] = [c \in {"user", "verified"} |-> d.addresses[e][c]]
    BY <1>2, <1>3 DEF Rows, TableOK, RowOK, Columns, Tables
  <2>. QED BY <1>2, <2>1, AddressUser
<1>4. Rows(d) => TableOK("addresses", t)
  BY <1>2, <1>3 DEF TableOK
<1>5. ASSUME Sound(d), NEW e \in DOMAIN t
      PROVE  t[e].user \in DOMAIN d.users \cup {NoUser}
  BY <1>2, <1>3, <1>5 DEF Sound, ForeignKeys, UsersFound
<1>6. /\ Framed(d, [d EXCEPT !.addresses = t])
      /\ [d EXCEPT !.addresses = t].addresses = t
      /\ [d EXCEPT !.addresses = t].users = d.users
      /\ [d EXCEPT !.addresses = t].members = d.members
  BY <1>2, <1>4, <1>5, OtherAddresses
<1>. QED BY <1>1, <1>2, <1>3, <1>6

LEMMA AddFinite ==
    ASSUME NEW t, NEW k \in Number, NEW row, Finite(DOMAIN t)
    PROVE  Finite(DOMAIN PutAll(t, {k}, row))
<1>1. DOMAIN PutAll(t, {k}, row) = DOMAIN t \cup {k}
  BY PutFields, Zenon
<1>2. IsFiniteSet(DOMAIN t \cup {k})
  BY FS_AddElement DEF Finite
<1>. QED BY <1>1, <1>2 DEF Finite

LEMMA OtherUsers ==
    ASSUME NEW d, Keyed(d), NEW t, Rows(d) => TableOK("users", t), Finite(DOMAIN t),
           DOMAIN d.users \subseteq DOMAIN t
    PROVE  /\ Framed(d, [d EXCEPT !.users = t])
           /\ [d EXCEPT !.users = t].users = t
           /\ [d EXCEPT !.users = t].addresses = d.addresses
           /\ [d EXCEPT !.users = t].members = d.members
<1> DEFINE c == [d EXCEPT !.users = t]
<1>a. HasTables(d) /\ "users" \in Tables
  BY DEF Keyed, Tables
<1>1. /\ c.users = t
      /\ \A n \in Tables \ {"users"} : c[n] = d[n]
  BY <1>a, Updated
<1>2. Keyed(c) /\ (Rows(d) => Rows(c))
  BY UpdatedKeyed, UpdatedRows DEF Tables, Serial
<1> HIDE DEF c
<1>3. SamePlaces(d, c) /\ SameCache(d, c) /\ c.matches = d.matches /\ c.members = d.members
      /\ c.addresses = d.addresses /\ c.owners = d.owners /\ c.domains = d.domains
  BY <1>1 DEF SamePlaces, SameCache, Tables
<1>4. ASSUME Sound(d) PROVE ForeignKeys(c)
  <2>1. UsersFound(c)
    BY <1>1, <1>3, <1>4 DEF Sound, ForeignKeys, UsersFound
  <2>2. AddressesFound(c)
    BY <1>1, <1>3, <1>4 DEF Sound, ForeignKeys, AddressesFound, Known
  <2>3. PartsFound(c)
    BY <1>1, <1>4 DEF Sound, ForeignKeys, PartsFound, Tables
  <2>. QED BY <2>1, <2>2, <2>3 DEF ForeignKeys
<1>5. ListsFound(d) => ListsFound(c)
  BY <1>3 DEF ListsFound, SamePlaces
<1>6. Framed(d, c)
  BY <1>2, <1>3, <1>4, <1>5, Changes, RostersSame DEF Sound
<1>. QED BY <1>1, <1>3, <1>6 DEF c

LEMMA UserRow ==
    ASSUME NEW s
    PROVE  RowOK("users", [server |-> s])
  BY DEF RowOK, Columns

LEMMA NewUserFramed ==
    ASSUME NEW d, Keyed(d), NEW u \in Number, NEW s
    PROVE  /\ Framed(d, NewUser(d, u, s))
           /\ u \in DOMAIN NewUser(d, u, s).users
           /\ NewUser(d, u, s).addresses = d.addresses
           /\ NewUser(d, u, s).members = d.members
<1> DEFINE t == PutAll(d.users, {u}, [server |-> s])
<1>1. NewUser(d, u, s) = [d EXCEPT !.users = t]
  BY DEF NewUser, Put
<1>2. DOMAIN t = DOMAIN d.users \cup {u}
  BY DEF PutAll
<1>3. Rows(d) => TableOK("users", t)
  BY UserRow, PutOK DEF Rows, Tables
<1>4. Finite(DOMAIN t)
  BY AddFinite DEF Keyed, Serial
<1> HIDE DEF t
<1>5. /\ Framed(d, [d EXCEPT !.users = t])
      /\ [d EXCEPT !.users = t].users = t
      /\ [d EXCEPT !.users = t].addresses = d.addresses
      /\ [d EXCEPT !.users = t].members = d.members
  BY <1>2, <1>3, <1>4, OtherUsers
<1>. QED BY <1>1, <1>2, <1>5

TakenOK(taken) == \A n \in Serial : Finite(taken[n])

LEMMA KnownFramed ==
    ASSUME NEW d, Keyed(d), NEW e
    PROVE  LET known == IF Known(d, e) THEN d ELSE CreateAddress(d, e)
           IN  Framed(d, known) /\ Keyed(known) /\ Known(known, e)
<1>1. CASE Known(d, e)
  BY <1>1, FrameSame
<1>2. CASE ~Known(d, e)
  BY <1>2, CreatesAddress DEF Framed, Kept
<1>. QED BY <1>1, <1>2

(* An address gets a new user.                                             *)
LEMMA NewUserLinked ==
    ASSUME NEW d, Keyed(d), NEW e, Known(d, e), NEW u \in Number, NEW s
    PROVE  LET made == LinkTo(NewUser(d, u, s), e, u)
           IN  /\ Framed(d, made) /\ Keyed(made) /\ Known(made, e)
               /\ Sound(d) => UserOf(made, e) \in DOMAIN made.users
<1> DEFINE new == NewUser(d, u, s)
           made == LinkTo(new, e, u)
<1>1. Framed(d, new) /\ u \in DOMAIN new.users /\ new.addresses = d.addresses
  BY NewUserFramed
<1>2. Keyed(new) /\ e \in DOMAIN new.addresses
  BY <1>1 DEF Framed, Kept, Known
<1>3. Sound(d) => Rows(new)
  BY <1>1 DEF Framed, Kept, Sound
<1> HIDE DEF new
<1>4. made = LinkAll(new, {e}, u)
  BY DEF LinkTo
<1> HIDE DEF made
<1>5. /\ Framed(new, made) /\ made.users = new.users
      /\ DOMAIN made.addresses = DOMAIN new.addresses
      /\ Rows(new) => made.addresses[e].user = u
  BY <1>1, <1>2, <1>4, LinksAll
<1>6. Framed(d, made) /\ Known(made, e)
  BY <1>1, <1>2, <1>5, FrameTransitive DEF Known
<1>7. Sound(d) => UserOf(made, e) \in DOMAIN made.users
  BY <1>1, <1>3, <1>5, <1>6 DEF UserOf
<1>8. Keyed(made)
  BY <1>6 DEF Framed, Kept
<1>. QED BY <1>6, <1>7, <1>8 DEF made, new

LEMMA UnusedUser ==
    ASSUME NEW d, Keyed(d), NEW taken, TakenOK(taken)
    PROVE  Unused(d.users, taken.users) \in Number
  BY UnusedKey DEF Keyed, TakenOK, Serial

LEMMA MakesUser ==
    ASSUME NEW d, Keyed(d), NEW e, NEW taken, TakenOK(taken)
    PROVE  LET made == MakeUser(d, e, taken)
           IN  /\ Framed(d, made) /\ Keyed(made) /\ Known(made, e)
               /\ Sound(d) => UserOf(made, e) \in DOMAIN made.users
<1> DEFINE u == Unused(d.users, taken.users)
           known == IF Known(d, e) THEN d ELSE CreateAddress(d, e)
           new == LinkTo(NewUser(known, u, FALSE), e, u)
           made == MakeUser(d, e, taken)
<1>1. u \in Number
  BY UnusedUser
<1>2. Framed(d, known) /\ Keyed(known) /\ Known(known, e)
  BY KnownFramed
<1>a. Sound(d) => Sound(known)
  BY <1>2 DEF Framed, Kept
<1>3. made = IF UserOf(d, e) # NoUser THEN d ELSE new
  BY DEF MakeUser
<1> HIDE DEF u, known, made
<1>4. /\ Framed(known, new) /\ Keyed(new) /\ Known(new, e)
      /\ Sound(known) => UserOf(new, e) \in DOMAIN new.users
  BY <1>1, <1>2, NewUserLinked
<1> HIDE DEF new
<1>5. CASE UserOf(d, e) # NoUser
  <2>1. made = d /\ Known(d, e)
    BY <1>3, <1>5 DEF UserOf
  <2>2. Sound(d) => UserOf(d, e) \in DOMAIN d.users
    BY <1>5, <2>1 DEF Sound, ForeignKeys, UsersFound, UserOf, Known
  <2>. QED BY <2>1, <2>2, FrameSame DEF made
<1>6. CASE UserOf(d, e) = NoUser
  <2>1. made = new
    BY <1>3, <1>6
  <2>2. Framed(d, new)
    BY <1>2, <1>4, FrameTransitive
  <2>. QED BY <1>4, <1>a, <2>1, <2>2 DEF made
<1>. QED BY <1>5, <1>6

(* The operations on users and addresses.                                  *)
LEMMA CreateUserFramed ==
    ASSUME NEW d, Keyed(d), NEW e, NEW s, NEW taken, TakenOK(taken)
    PROVE  Framed(d, CreateUser(d, e, s, taken).db)
<1> DEFINE u == Unused(d.users, taken.users)
           known == IF Known(d, e) THEN d ELSE CreateAddress(d, e)
           new == LinkTo(NewUser(known, u, s), e, u)
<1>1. u \in Number
  BY UnusedUser
<1>2. Framed(d, known) /\ Keyed(known) /\ Known(known, e)
  BY KnownFramed
<1>3. CreateUser(d, e, s, taken).db = IF UserOf(d, e) # NoUser THEN d ELSE new
  BY DEF CreateUser, Refused, Done
<1> HIDE DEF u, known
<1>4. Framed(known, new)
  BY <1>1, <1>2, NewUserLinked
<1> HIDE DEF new
<1>. QED BY <1>2, <1>3, <1>4, FrameSame, FrameTransitive

LEMMA SetServerOwnerFramed ==
    ASSUME NEW d, Keyed(d), NEW u, NEW s
    PROVE  /\ Framed(d, SetServerOwner(d, u, s))
           /\ DOMAIN SetServerOwner(d, u, s).users = DOMAIN d.users
           /\ SetServerOwner(d, u, s).addresses = d.addresses
<1> DEFINE t == [d.users EXCEPT ![u].server = s]
<1>1. SetServerOwner(d, u, s) = [d EXCEPT !.users = t]
  BY DEF SetServerOwner
<1>2. DOMAIN t = DOMAIN d.users
  OBVIOUS
<1>3. Rows(d) => TableOK("users", t)
  <2>1. SUFFICES ASSUME TableOK("users", d.users) PROVE TableOK("users", t)
    BY DEF Rows, Tables
  <2>2. Function(t)
    BY DEF Function
  <2>3. ASSUME NEW k \in DOMAIN t PROVE RowOK("users", t[k])
    <3>1. d.users[k] = [c \in {"server"} |-> d.users[k][c]]
      BY <2>1, <2>3 DEF TableOK, RowOK, Columns
    <3>2. t[k] = IF k = u THEN [d.users[k] EXCEPT !.server = s] ELSE d.users[k]
      BY <2>3
    <3>3. t[k] = [c \in {"server"} |-> t[k][c]]
      BY <3>1, <3>2
    <3>. QED BY <3>3 DEF RowOK, Columns
  <2>. QED BY <2>2, <2>3 DEF TableOK
<1>4. Finite(DOMAIN t)
  BY <1>2 DEF Keyed, Serial
<1> HIDE DEF t
<1>5. /\ Framed(d, [d EXCEPT !.users = t])
      /\ [d EXCEPT !.users = t].users = t
      /\ [d EXCEPT !.users = t].addresses = d.addresses
  BY <1>2, <1>3, <1>4, OtherUsers
<1>. QED BY <1>1, <1>2, <1>5

(* A user without addresses goes.                                          *)
LEMMA DropUserFramed ==
    ASSUME NEW a, NEW d, Framed(a, d), NEW u, u # NoUser,
           Sound(a) => AddressesOf(d, u) = {}
    PROVE  Framed(a, DropUser(d, u))
<1> DEFINE us == Drop(d.users, {u})
           os == Drop(d.owners, {o \in DOMAIN d.owners : o[2] = u})
           b == [d EXCEPT !.users = us]
           c == [b EXCEPT !.owners = os]
<1>0. Keyed(d)
  BY DEF Framed, Kept
<1>1. DropUser(d, u) = c
  BY <1>0 DEF DropUser, Keyed, HasTables, Tables
<1>2. /\ DOMAIN us = DOMAIN d.users \ {u}
      /\ DOMAIN os = DOMAIN d.owners \ {o \in DOMAIN d.owners : o[2] = u}
      /\ \A o \in DOMAIN os : o[2] # u
  <2>1. /\ DOMAIN us = DOMAIN d.users \ {u}
        /\ DOMAIN os = DOMAIN d.owners \ {o \in DOMAIN d.owners : o[2] = u}
    BY DropFields, Zenon
  <2>. QED BY <2>1
<1>3. Rows(d) => TableOK("users", us) /\ TableOK("owners", os)
  BY DropOK DEF Rows, Tables
<1>4. Finite(DOMAIN us)
  BY <1>0, DropFinite DEF Keyed, Serial
<1> HIDE DEF us, os
<1>a. HasTables(d) /\ {"users", "owners"} \in SUBSET Tables
  BY <1>0 DEF Keyed, Tables
<1>5. HasTables(b) /\ b.users = us /\ \A n \in Tables \ {"users"} : b[n] = d[n]
  BY <1>a, Updated
<1>6. Keyed(b) /\ (Rows(d) => Rows(b))
  BY <1>0, <1>3, <1>4, <1>a, UpdatedKeyed, UpdatedRows
<1> HIDE DEF b
<1>7. c.owners = os /\ \A n \in Tables \ {"owners"} : c[n] = b[n]
  BY <1>5, <1>a, Updated
<1>8. Keyed(c) /\ (Rows(d) => Rows(c))
  BY <1>3, <1>6, <1>a, UpdatedKeyed, UpdatedRows DEF Serial
<1> HIDE DEF c
<1>9. /\ c.users = us /\ c.addresses = d.addresses /\ c.members = d.members
      /\ c.domains = d.domains /\ c.matches = d.matches /\ c.aliases = d.aliases
      /\ c.archivers = d.archivers /\ c.lists = d.lists
      /\ SamePlaces(d, c) /\ SameCache(d, c)
  BY <1>5, <1>7 DEF SamePlaces, SameCache, Tables
<1>10. ASSUME Sound(a) PROVE ForeignKeys(c) /\ ListsFound(c)
  <2>a. Sound(d)
    BY <1>10 DEF Framed, Kept
  <2>1. \A e \in DOMAIN c.addresses : c.addresses[e].user \in DOMAIN c.users \cup {NoUser}
    BY <1>2, <1>9, <1>10, <2>a DEF Sound, ForeignKeys, UsersFound, AddressesOf
  <2>2. \A o \in DOMAIN c.owners : o[2] \in DOMAIN c.users /\ o[1] \in DOMAIN c.domains
    BY <1>2, <1>7, <1>9, <2>a DEF Sound, ForeignKeys, UsersFound
  <2>3. AddressesFound(c)
    BY <1>9, <2>a DEF Sound, ForeignKeys, AddressesFound, Known
  <2>4. PartsFound(c)
    <3>1. \A n \in {"aliases", "archivers", "matches"} : c[n] = d[n]
      BY <1>9
    <3>. QED BY <1>9, <2>a, <3>1 DEF Sound, ForeignKeys, PartsFound
  <2>5. ListsFound(c)
    BY <1>9, <2>a DEF Sound, ListsFound
  <2>. QED BY <2>1, <2>2, <2>3, <2>4, <2>5 DEF ForeignKeys, UsersFound
<1>11. Sound(a) /\ Rosters(a) => Sound(d) /\ Rosters(d)
  BY DEF Framed, Kept
<1>12. Rosters(d) => Rosters(c)
  BY <1>9, RostersSame
<1>13. Sound(a) => Gapless(c) /\ Rows(c)
  BY <1>8, <1>9, GaplessSame DEF Framed, Kept, Sound
<1>14. SamePlaces(a, c) /\ SameCache(a, c)
  BY <1>9 DEF Framed, SamePlaces, SameCache
<1>15. Framed(a, c)
  BY <1>8, <1>10, <1>11, <1>12, <1>13, <1>14 DEF Framed, Kept, Sound
<1>. QED BY <1>1, <1>15

LEMMA DeletesAddresses ==
    ASSUME NEW d, Keyed(d), NEW es
    PROVE  LET c == DeleteAddresses(d, es)
           IN  /\ Framed(d, c) /\ Keyed(c)
               /\ DOMAIN c.addresses = DOMAIN d.addresses \ es
               /\ \A e \in DOMAIN c.addresses : c.addresses[e] = d.addresses[e]
<1> DEFINE as == Drop(d.addresses, es)
           gone == {i \in DOMAIN d.members : d.members[i].email \in es}
           ms == Drop(d.members, gone)
           b == [d EXCEPT !.addresses = as]
           c == [b EXCEPT !.members = ms]
<1>1. DeleteAddresses(d, es) = c
  BY DEF DeleteAddresses, Keyed, HasTables, Tables
<1>2. /\ DOMAIN as = DOMAIN d.addresses \ es
      /\ \A e \in DOMAIN as : as[e] = d.addresses[e]
  <2>1. DOMAIN as = DOMAIN d.addresses \ es
    BY DropFields, Zenon
  <2>2. \A e \in DOMAIN as : as[e] = d.addresses[e]
    BY DropRows, Zenon
  <2>. QED BY <2>1, <2>2
<1>3. /\ DOMAIN ms = DOMAIN d.members \ gone
      /\ \A i \in DOMAIN ms : ms[i] = d.members[i]
  <2>1. DOMAIN ms = DOMAIN d.members \ gone
    BY DropFields, Zenon
  <2>2. \A i \in DOMAIN ms : ms[i] = d.members[i]
    BY DropRows, Zenon
  <2>. QED BY <2>1, <2>2
<1>4. Rows(d) => TableOK("addresses", as) /\ TableOK("members", ms)
  BY DropOK DEF Rows, Tables
<1>5. Finite(DOMAIN ms)
  BY DropFinite DEF Keyed, Serial
<1> HIDE DEF as, ms
<1>a. HasTables(d) /\ {"addresses", "members"} \in SUBSET Tables
  BY DEF Keyed, Tables
<1>6. HasTables(b) /\ b.addresses = as /\ \A n \in Tables \ {"addresses"} : b[n] = d[n]
  BY <1>a, Updated
<1>7. Keyed(b) /\ (Rows(d) => Rows(b))
  BY <1>4, <1>a, UpdatedKeyed, UpdatedRows DEF Serial
<1> HIDE DEF b
<1>8. c.members = ms /\ \A n \in Tables \ {"members"} : c[n] = b[n]
  BY <1>6, <1>a, Updated
<1>9. Keyed(c) /\ (Rows(d) => Rows(c))
  BY <1>4, <1>5, <1>7, <1>a, UpdatedKeyed, UpdatedRows
<1> HIDE DEF c
<1>10. /\ c.addresses = as /\ c.users = d.users /\ c.owners = d.owners
       /\ c.domains = d.domains /\ c.matches = d.matches /\ c.aliases = d.aliases
       /\ c.archivers = d.archivers /\ c.lists = d.lists
       /\ SamePlaces(d, c) /\ SameCache(d, c)
  BY <1>6, <1>8 DEF SamePlaces, SameCache, Tables
<1>11. ASSUME Sound(d) PROVE ForeignKeys(c) /\ ListsFound(c)
  <2>1. UsersFound(c)
    BY <1>2, <1>10, <1>11 DEF Sound, ForeignKeys, UsersFound
  <2>2. AddressesFound(c)
    BY <1>2, <1>3, <1>8, <1>10, <1>11 DEF Sound, ForeignKeys, AddressesFound, Known
  <2>3. PartsFound(c)
    <3>1. \A n \in {"aliases", "archivers", "matches"} : c[n] = d[n]
      BY <1>10
    <3>. QED BY <1>10, <1>11, <3>1 DEF Sound, ForeignKeys, PartsFound
  <2>4. ListsFound(c)
    BY <1>3, <1>8, <1>10, <1>11 DEF Sound, ListsFound
  <2>. QED BY <2>1, <2>2, <2>3, <2>4 DEF ForeignKeys
<1>12. Distinct(d.members) => Distinct(c.members)
  BY <1>3, <1>8 DEF Distinct
<1>13. Framed(d, c)
  BY <1>9, <1>10, <1>11, <1>12, Changes, RostersAre
<1>. QED BY <1>1, <1>2, <1>9, <1>10, <1>13

LEMMA DeleteUserFramed ==
    ASSUME NEW d, Keyed(d), NEW u, u # NoUser
    PROVE  Framed(d, DeleteUser(d, u))
<1> DEFINE c == DeleteAddresses(d, AddressesOf(d, u))
<1>1. /\ Framed(d, c) /\ Keyed(c)
      /\ DOMAIN c.addresses = DOMAIN d.addresses \ AddressesOf(d, u)
      /\ \A e \in DOMAIN c.addresses : c.addresses[e] = d.addresses[e]
  BY DeletesAddresses
<1> HIDE DEF c
<1>2. AddressesOf(c, u) = {}
  BY <1>1 DEF AddressesOf
<1>3. Framed(d, DropUser(c, u))
  BY <1>1, <1>2, DropUserFramed
<1>. QED BY <1>3 DEF DeleteUser, c

LEMMA AbsorbFramed ==
    ASSUME NEW d, Keyed(d), NEW u \in DOMAIN d.users, NEW v, v # NoUser
    PROVE  Framed(d, Absorb(d, u, v))
<1> DEFINE b == LinkAll(d, AddressesOf(d, v), u)
           s == b.users[u].server \/ d.users[v].server
           c == SetServerOwner(b, u, s)
<1>1. CASE u = v
  BY <1>1, FrameSame DEF Absorb
<1>2. CASE u # v
  <2>1. Absorb(d, u, v) = DropUser(c, v)
    BY <1>2 DEF Absorb, SetServerOwner
  <2>2. /\ Framed(d, b)
        /\ DOMAIN b.addresses = DOMAIN d.addresses
        /\ \A e \in DOMAIN d.addresses :
              /\ Rows(d) /\ e \in AddressesOf(d, v) => b.addresses[e].user = u
              /\ e \notin AddressesOf(d, v) => b.addresses[e] = d.addresses[e]
    BY LinksAll
  <2> HIDE DEF b, s
  <2>3. Keyed(b)
    BY <2>2 DEF Framed, Kept
  <2>4. Framed(b, c) /\ c.addresses = b.addresses
    BY <2>3, SetServerOwnerFramed
  <2> HIDE DEF c
  <2>5. Keyed(c) /\ Framed(d, c)
    BY <2>2, <2>4, FrameTransitive DEF Framed, Kept
  <2>6. ASSUME Rows(d) PROVE AddressesOf(c, v) = {}
    BY <1>2, <2>2, <2>4, <2>6 DEF AddressesOf
  <2>7. Framed(d, DropUser(c, v))
    <3>1. Sound(d) => AddressesOf(c, v) = {}
      BY <2>6 DEF Sound
    <3>. QED BY <2>5, <3>1, DropUserFramed
  <2>. QED BY <2>1, <2>7
<1>. QED BY <1>1, <1>2


LEMMA LinkToFramed ==
    ASSUME NEW d, Keyed(d), NEW e, NEW u \in DOMAIN d.users \cup {NoUser}
    PROVE  /\ Framed(d, LinkTo(d, e, u)) /\ Keyed(LinkTo(d, e, u))
           /\ LinkTo(d, e, u).users = d.users
           /\ Known(d, e) => Known(LinkTo(d, e, u), e)
<1> DEFINE c == LinkAll(d, {e}, u)
<1>1. Framed(d, c) /\ c.users = d.users /\ DOMAIN c.addresses = DOMAIN d.addresses
  BY LinksAll
<1> HIDE DEF c
<1>2. Keyed(c) /\ (Known(d, e) => Known(c, e))
  BY <1>1 DEF Framed, Kept, Known
<1>. QED BY <1>1, <1>2 DEF c, LinkTo

LEMMA UsersFramed ==
    ASSUME NEW d, Keyed(d), NEW e, NEW u \in DOMAIN d.users
    PROVE  LET c == LinkTo(CreateAddress(d, e), e, u)
           IN  ~Known(d, e) => Framed(d, c)
<1> DEFINE b == CreateAddress(d, e)
<1>1. SUFFICES ASSUME ~Known(d, e) PROVE Framed(d, LinkTo(b, e, u))
  OBVIOUS
<1>2. Framed(d, b) /\ Keyed(b)
  BY <1>1, CreatesAddress DEF Framed, Kept
<1>3. b.users = d.users
  BY Updated DEF CreateAddress, Keyed, Tables
<1> HIDE DEF b
<1>4. Framed(b, LinkTo(b, e, u))
  BY <1>2, <1>3, LinkToFramed
<1>. QED BY <1>2, <1>4, FrameTransitive

LEMMA AddAddressFramed ==
    ASSUME NEW d, Keyed(d), NEW u \in DOMAIN d.users, NEW e, NEW absorb
    PROVE  Framed(d, AddAddress(d, u, e, absorb).db)
<1>1. CASE ~Known(d, e)
  <2>1. AddAddress(d, u, e, absorb).db = LinkTo(CreateAddress(d, e), e, u)
    BY <1>1 DEF AddAddress, Done
  <2>. QED BY <1>1, <2>1, UsersFramed
<1>2. CASE Known(d, e) /\ UserOf(d, e) = NoUser
  <2>1. AddAddress(d, u, e, absorb).db = LinkTo(d, e, u)
    BY <1>2 DEF AddAddress, Done
  <2>. QED BY <2>1, LinkToFramed
<1>3. CASE Known(d, e) /\ UserOf(d, e) # NoUser
  <2>1. Framed(d, Absorb(d, u, UserOf(d, e)))
    BY <1>3, AbsorbFramed
  <2>2. AddAddress(d, u, e, absorb).db \in {d, Absorb(d, u, UserOf(d, e))}
    BY <1>3 DEF AddAddress, Done, Refused
  <2>. QED BY <2>1, <2>2, FrameSame
<1>. QED BY <1>1, <1>2, <1>3

LEMMA SetVerifiedFramed ==
    ASSUME NEW d, Keyed(d), NEW e, NEW v
    PROVE  LET c == SetVerified(d, e, v)
           IN  Framed(d, c) /\ Keyed(c) /\ \A a : Known(d, a) => Known(c, a)
<1> DEFINE t == [d.addresses EXCEPT ![e].verified = v]
<1>1. SetVerified(d, e, v) = [d EXCEPT !.addresses = t]
  BY DEF SetVerified
<1>2. DOMAIN t = DOMAIN d.addresses /\ Function(t)
  BY DEF Function
<1>3. ASSUME NEW k \in DOMAIN t, Rows(d)
      PROVE  RowOK("addresses", t[k]) /\ t[k].user = d.addresses[k].user
  <2>1. d.addresses[k] = [c \in {"user", "verified"} |-> d.addresses[k][c]]
    BY <1>2, <1>3 DEF Rows, TableOK, RowOK, Columns, Tables
  <2>2. t[k] = IF k = e THEN [d.addresses[k] EXCEPT !.verified = v] ELSE d.addresses[k]
    BY <1>2, <1>3
  <2>3. t[k] = [c \in {"user", "verified"} |-> t[k][c]] /\ t[k].user = d.addresses[k].user
    BY <2>1, <2>2
  <2>. QED BY <2>3 DEF RowOK, Columns
<1> HIDE DEF t
<1>4. Rows(d) => TableOK("addresses", t)
  BY <1>2, <1>3 DEF TableOK
<1>5. ASSUME Sound(d), NEW k \in DOMAIN t
      PROVE  t[k].user \in DOMAIN d.users \cup {NoUser}
  BY <1>2, <1>3, <1>5 DEF Sound, ForeignKeys, UsersFound
<1>6. /\ Framed(d, [d EXCEPT !.addresses = t])
      /\ [d EXCEPT !.addresses = t].addresses = t
  BY <1>2, <1>4, <1>5, OtherAddresses
<1>. QED BY <1>1, <1>2, <1>6 DEF Framed, Kept, Known

LEMMA UnlinkUserFramed ==
    ASSUME NEW d, Keyed(d), NEW e
    PROVE  Framed(d, UnlinkUser(d, e).db)
  BY LinkToFramed, FrameSame DEF UnlinkUser, Unlinked, Done, Refused

LEMMA LinkUserFramed ==
    ASSUME NEW d, Keyed(d), NEW e \in DOMAIN d.addresses, NEW target, NEW taken, TakenOK(taken)
    PROVE  Framed(d, LinkUser(d, e, target, taken).db)
<1> DEFINE u == Unused(d.users, taken.users)
           named == LinkTo(d, e, target.user)
           new == LinkTo(NewUser(d, u, FALSE), e, u)
<1>1. u \in Number
  BY UnusedUser
<1>2. target.user \in DOMAIN d.users => Framed(d, named)
  BY LinkToFramed
<1>3. Framed(d, new)
  <2> HIDE DEF u
  <2>. QED BY <1>1, NewUserLinked DEF Known
<1>4. \/ LinkUser(d, e, target, taken).db = d
      \/ target.user \in DOMAIN d.users /\ LinkUser(d, e, target, taken).db = named
      \/ LinkUser(d, e, target, taken).db = new
  BY DEF LinkUser, Done, Refused
<1>. QED BY <1>2, <1>3, <1>4, FrameSame

LEMMA ReplaceUserFramed ==
    ASSUME NEW d, Keyed(d), NEW e \in DOMAIN d.addresses, NEW target, NEW taken, TakenOK(taken)
    PROVE  Framed(d, ReplaceUser(d, e, target, taken).db)
<1> DEFINE u == Unused(d.users, taken.users)
           free == Unlinked(d, e)
           named == LinkTo(free, e, target.user)
           new == LinkTo(NewUser(free, u, FALSE), e, u)
           made == CreateUser(free, target.email, FALSE, taken)
           known == IF Known(free, target.email) THEN free ELSE CreateAddress(free, target.email)
<1>1. u \in Number
  BY UnusedUser
<1>2. Framed(d, free) /\ Keyed(free) /\ free.users = d.users /\ Known(free, e)
  BY LinkToFramed DEF Unlinked, Known
<1>3. \/ ReplaceUser(d, e, target, taken).db = d
      \/ ReplaceUser(d, e, target, taken).db = free
      \/ target.user \in DOMAIN d.users /\ ReplaceUser(d, e, target, taken).db = named
      \/ ReplaceUser(d, e, target, taken).db = new
      \/ /\ made.status # "refused" 
         /\ ReplaceUser(d, e, target, taken).db = LinkTo(made.db, e, u)
  BY DEF ReplaceUser, Done, Refused, Failed
<1>4. target.user \in DOMAIN d.users => Framed(d, named)
  <2> HIDE DEF free
  <2>1. target.user \in DOMAIN d.users => Framed(free, named)
    BY <1>2, LinkToFramed
  <2>. QED BY <1>2, <2>1, FrameTransitive
<1>5. Framed(d, new)
  <2> HIDE DEF free, u
  <2>1. Framed(free, new)
    BY <1>1, <1>2, NewUserLinked
  <2>. QED BY <1>2, <2>1, FrameTransitive
<1>6. ASSUME made.status # "refused"
      PROVE  Framed(d, LinkTo(made.db, e, u))
  <2>1. made.db = LinkTo(NewUser(known, u, FALSE), target.email, u)
    BY <1>2, <1>6 DEF CreateUser, Done, Refused
  <2> HIDE DEF free, u, made
  <2>2. Framed(free, known) /\ Keyed(known) /\ Known(known, target.email)
    BY <1>2, KnownFramed
  <2> HIDE DEF known
  <2> DEFINE b == NewUser(known, u, FALSE)
  <2>3. Framed(known, b) /\ u \in DOMAIN b.users
    BY <1>1, <2>2, NewUserFramed
  <2>4. Keyed(b)
    BY <2>3 DEF Framed, Kept
  <2>a. made.db = LinkTo(b, target.email, u)
    BY <2>1
  <2> HIDE DEF b
  <2>5. Framed(b, made.db) /\ Keyed(made.db) /\ made.db.users = b.users
    <3> DEFINE c == LinkTo(b, target.email, u)
    <3>1. Framed(b, c) /\ Keyed(c) /\ c.users = b.users
      BY <2>3, <2>4, LinkToFramed
    <3>. QED BY <3>1, <2>a, Zenon
  <2>6. Framed(made.db, LinkTo(made.db, e, u))
    BY <2>3, <2>5, LinkToFramed
  <2>. QED BY <1>2, <2>2, <2>3, <2>5, <2>6, FrameTransitive
<1>. QED BY <1>2, <1>3, <1>4, <1>5, <1>6, FrameSame

LEMMA UnsubscribedFramed ==
    ASSUME NEW d, Keyed(d), NEW is
    PROVE  /\ Framed(d, Unsubscribed(d, is)) /\ Keyed(Unsubscribed(d, is))
           /\ \A n \in Tables \ {"members"} : Unsubscribed(d, is)[n] = d[n]
<1> DEFINE t == Drop(d.members, is)
           c == [d EXCEPT !.members = t]
<1>1. /\ DOMAIN t = DOMAIN d.members \ is
      /\ \A i \in DOMAIN t : t[i] = d.members[i]
  <2>1. DOMAIN t = DOMAIN d.members \ is
    BY DropFields, Zenon
  <2>2. \A i \in DOMAIN t : t[i] = d.members[i]
    BY DropRows, Zenon
  <2>. QED BY <2>1, <2>2
<1>2. Finite(DOMAIN t)
  BY DropFinite DEF Keyed, Serial
<1>3. Rows(d) => TableOK("members", t)
  BY DropOK DEF Rows, Tables
<1> HIDE DEF t
<1>4. ASSUME Sound(d), NEW i \in DOMAIN t
      PROVE  Known(d, t[i].email) /\ t[i].list \in DOMAIN d.lists
  BY <1>1, <1>4 DEF Sound, ForeignKeys, AddressesFound, ListsFound
<1>5. Distinct(d.members) => Distinct(t)
  BY <1>1 DEF Distinct
<1>6. Framed(d, c) /\ \A n \in Tables \ {"members"} : c[n] = d[n]
  BY <1>2, <1>3, <1>4, <1>5, OtherMembers
<1>7. Keyed(c)
  BY <1>6 DEF Framed, Kept
<1>. QED BY <1>6, <1>7 DEF Unsubscribed, t

LEMMA RemoveUserFramed ==
    ASSUME NEW d, Keyed(d), NEW u, u # NoUser
    PROVE  Framed(d, RemoveUser(d, u).db)
<1> DEFINE is == {i \in DOMAIN d.members : d.members[i].email \in AddressesOf(d, u)}
           c == Unsubscribed(d, is)
<1>1. Framed(d, c) /\ Keyed(c)
  BY UnsubscribedFramed
<1> HIDE DEF c
<1>2. Framed(c, DeleteUser(c, u))
  BY <1>1, DeleteUserFramed
<1>3. RemoveUser(d, u).db = DeleteUser(c, u)
  BY DEF RemoveUser, Done, c
<1>. QED BY <1>1, <1>2, <1>3, FrameTransitive

--------------------------------------------------------------------------------
(***************************************************************************)
(* Memberships.                                                            *)
(***************************************************************************)
LEMMA MemberRow ==
    ASSUME NEW l, NEW role, NEW e, NEW a
    PROVE  RowOK("members", [list |-> l, role |-> role, email |-> e, action |-> a])
  BY DEF RowOK, Columns

(* Nobody is on the roster yet.                                            *)
LEMMA SubscribeFramed ==
    ASSUME NEW d, Keyed(d), NEW l \in DOMAIN d.lists, NEW role, NEW e, Known(d, e),
           NEW taken, TakenOK(taken)
    PROVE  LET c == Subscribe(d, l, role, e, taken).db
           IN  /\ Framed(d, c) /\ Keyed(c)
               /\ \A n \in Tables \ {"members"} : c[n] = d[n]
<1> DEFINE i == Unused(d.members, taken.members)
           row == [list |-> l, role |-> role, email |-> e,
                   action |-> IF role \in {"owner", "moderator"} THEN "accept" ELSE "none"]
           t == PutAll(d.members, {i}, row)
           c == [d EXCEPT !.members = t]
<1>1. i \in Number \ DOMAIN d.members
  BY UnusedKey DEF Keyed, TakenOK, Serial
<1>2. /\ DOMAIN t = DOMAIN d.members \cup {i} /\ t[i] = row
      /\ \A k \in DOMAIN d.members : t[k] = d.members[k]
  <2> HIDE DEF i, row
  <2>. QED BY <1>1 DEF PutAll
<1>3. Rows(d) => TableOK("members", t)
  BY MemberRow, PutOK DEF Rows, Tables
<1>4. Finite(DOMAIN t)
  <2> HIDE DEF i, row
  <2>. QED BY <1>1, AddFinite DEF Keyed, Serial
<1>5. CASE Memberships(d, l, role, e) # {}
  BY <1>5, FrameSame DEF Subscribe, Refused
<1>6. CASE Memberships(d, l, role, e) = {}
  <2>1. Subscribe(d, l, role, e, taken).db = c
    BY <1>6 DEF Subscribe, Done, Member, Put
  <2>2. row.list = l /\ row.role = role /\ row.email = e
    OBVIOUS
  <2> HIDE DEF i, row, t
  <2>3. ASSUME Sound(d), NEW k \in DOMAIN t
        PROVE  Known(d, t[k].email) /\ t[k].list \in DOMAIN d.lists
    BY <1>2, <2>2, <2>3 DEF Sound, ForeignKeys, AddressesFound, ListsFound
  <2>4. Distinct(d.members) => Distinct(t)
    BY <1>1, <1>2, <1>6, <2>2 DEF Distinct, Memberships
  <2>5. Framed(d, c) /\ \A n \in Tables \ {"members"} : c[n] = d[n]
    BY <1>3, <1>4, <2>3, <2>4, OtherMembers
  <2>6. Keyed(c)
    BY <2>5 DEF Framed, Kept
  <2>. QED BY <2>1, <2>5, <2>6
<1>. QED BY <1>5, <1>6

LEMMA AddMemberFramed ==
    ASSUME NEW d, Keyed(d), NEW l \in DOMAIN d.lists, NEW role, NEW e,
           NEW taken, TakenOK(taken)
    PROVE  Framed(d, AddMember(d, l, role, e, taken).db)
<1> DEFINE made == MakeUser(d, e, taken)
           joined == Subscribe(made, l, role, e, taken)
<1>1. Framed(d, made) /\ Keyed(made) /\ Known(made, e)
  BY MakesUser
<1>2. \/ AddMember(d, l, role, e, taken).db \in {d, joined.db}
      \/ \E is : AddMember(d, l, role, e, taken).db = Unsubscribed(joined.db, is)
  BY DEF AddMember, Refused, Failed, Done
<1> HIDE DEF made
<1>3. l \in DOMAIN made.lists
  BY <1>1 DEF Framed, SamePlaces
<1>4. Framed(made, joined.db) /\ Keyed(joined.db)
  BY <1>1, <1>3, SubscribeFramed
<1> HIDE DEF joined
<1>5. Framed(d, joined.db)
  BY <1>1, <1>4, FrameTransitive
<1>6. \A is : Framed(d, Unsubscribed(joined.db, is))
  BY <1>4, <1>5, UnsubscribedFramed, FrameTransitive
<1>. QED BY <1>2, <1>5, <1>6, FrameSame

LEMMA PostMemberFramed ==
    ASSUME NEW d, Keyed(d), NEW l, NEW role, NEW e, NEW taken, TakenOK(taken)
    PROVE  Framed(d, PostMember(d, l, role, e, taken).db)
<1> DEFINE known == IF Known(d, e) THEN d ELSE CreateAddress(d, e)
           made == MakeUser(known, e, taken)
           joined == Subscribe(made, l, role, e, taken)
<1>1. Framed(d, known) /\ Keyed(known)
  BY KnownFramed
<1>2. \/ PostMember(d, l, role, e, taken).db = d
      \/ /\ l \in DOMAIN d.lists
         /\ \/ PostMember(d, l, role, e, taken).db = AddMember(known, l, role, e, taken).db
            \/ PostMember(d, l, role, e, taken).db
                  \in {made, joined.db, SetVerified(joined.db, e, TRUE)}
  BY DEF PostMember, Refused, Done
<1> HIDE DEF known
<1>3. Framed(known, made) /\ Keyed(made) /\ Known(made, e)
  BY <1>1, MakesUser
<1> HIDE DEF made
<1>4. Framed(d, made)
  BY <1>1, <1>3, FrameTransitive
<1>5. ASSUME l \in DOMAIN d.lists
      PROVE  /\ Framed(d, AddMember(known, l, role, e, taken).db)
             /\ Framed(d, joined.db) /\ Framed(d, SetVerified(joined.db, e, TRUE))
  <2>1. l \in DOMAIN known.lists /\ l \in DOMAIN made.lists
    BY <1>1, <1>4, <1>5 DEF Framed, SamePlaces
  <2>2. Framed(known, AddMember(known, l, role, e, taken).db)
    BY <1>1, <2>1, AddMemberFramed
  <2>3. Framed(made, joined.db) /\ Keyed(joined.db)
    BY <1>3, <2>1, SubscribeFramed
  <2> HIDE DEF joined
  <2>4. Framed(joined.db, SetVerified(joined.db, e, TRUE))
    BY <2>3, SetVerifiedFramed
  <2>5. Framed(d, AddMember(known, l, role, e, taken).db)
    BY <1>1, <2>2, FrameTransitive
  <2>6. Framed(d, joined.db)
    BY <1>4, <2>3, FrameTransitive
  <2>. QED BY <2>4, <2>5, <2>6, FrameTransitive
<1>. QED BY <1>2, <1>4, <1>5, FrameSame

LEMMA DeleteMemberFramed ==
    ASSUME NEW d, Keyed(d), NEW i
    PROVE  Framed(d, DeleteMember(d, i).db)
<1>1. \/ DeleteMember(d, i).db = d
      \/ \E is : DeleteMember(d, i).db = Unsubscribed(d, is)
  BY DEF DeleteMember, Failed, Done
<1>. QED BY <1>1, UnsubscribedFramed, FrameSame

LEMMA UnsubscribeMembersFramed ==
    ASSUME NEW d, Keyed(d), NEW l, NEW es
    PROVE  Framed(d, UnsubscribeMembers(d, l, es).db)
<1>1. \E is : UnsubscribeMembers(d, l, es).db = Unsubscribed(d, is)
  BY DEF UnsubscribeMembers, Done
<1>. QED BY <1>1, UnsubscribedFramed

(* A membership is given another action, or another address.               *)
LEMMA ActionFramed ==
    ASSUME NEW d, Keyed(d), NEW i, NEW action
    PROVE  Framed(d, [d EXCEPT !.members[i].action = action])
<1> DEFINE t == [d.members EXCEPT ![i].action = action]
<1>1. DOMAIN t = DOMAIN d.members /\ Function(t)
  BY DEF Function
<1>2. ASSUME NEW k \in DOMAIN t, Rows(d)
      PROVE  /\ RowOK("members", t[k]) /\ t[k].list = d.members[k].list
             /\ t[k].role = d.members[k].role /\ t[k].email = d.members[k].email
  <2>1. d.members[k] = [c \in {"list", "role", "email", "action"} |-> d.members[k][c]]
    BY <1>1, <1>2 DEF Rows, TableOK, RowOK, Columns, Tables
  <2>2. t[k] = IF k = i THEN [d.members[k] EXCEPT !.action = action] ELSE d.members[k]
    BY <1>1, <1>2
  <2>3. /\ t[k] = [c \in {"list", "role", "email", "action"} |-> t[k][c]]
        /\ t[k].list = d.members[k].list
        /\ t[k].role = d.members[k].role /\ t[k].email = d.members[k].email
    BY <2>1, <2>2
  <2>. QED BY <2>3 DEF RowOK, Columns
<1> HIDE DEF t
<1>3. Rows(d) => TableOK("members", t)
  BY <1>1, <1>2 DEF TableOK
<1>4. ASSUME Sound(d), NEW k \in DOMAIN t
      PROVE  Known(d, t[k].email) /\ t[k].list \in DOMAIN d.lists
  BY <1>1, <1>2, <1>4 DEF Sound, ForeignKeys, AddressesFound, ListsFound
<1>5. Sound(d) /\ Distinct(d.members) => Distinct(t)
  BY <1>1, <1>2 DEF Distinct, Sound
<1>6. Finite(DOMAIN t)
  BY <1>1 DEF Keyed, Serial
<1>7. Framed(d, [d EXCEPT !.members = t])
  BY <1>3, <1>4, <1>5, <1>6, OtherMembers
<1>. QED BY <1>7 DEF t

LEMMA PatchMemberLoose ==
    ASSUME NEW d, Keyed(d), NEW i, NEW e
    PROVE  Loose(d, PatchMember(d, i, e, "same").db)
<1> DEFINE t == [d.members EXCEPT ![i].email = e]
           c == [d EXCEPT !.members = t]
<1>1. \/ PatchMember(d, i, e, "same").db = d
      \/ Known(d, e) /\ PatchMember(d, i, e, "same").db = c
  BY DEF PatchMember, Refused, Done
<1>2. DOMAIN t = DOMAIN d.members /\ Function(t)
  BY DEF Function
<1>3. ASSUME NEW k \in DOMAIN t, Rows(d)
      PROVE  /\ RowOK("members", t[k]) /\ t[k].list = d.members[k].list
             /\ t[k].email \in {e, d.members[k].email}
  <2>1. d.members[k] = [x \in {"list", "role", "email", "action"} |-> d.members[k][x]]
    BY <1>2, <1>3 DEF Rows, TableOK, RowOK, Columns, Tables
  <2>2. t[k] = IF k = i THEN [d.members[k] EXCEPT !.email = e] ELSE d.members[k]
    BY <1>2, <1>3
  <2>3. /\ t[k] = [x \in {"list", "role", "email", "action"} |-> t[k][x]]
        /\ t[k].list = d.members[k].list
        /\ t[k].email \in {e, d.members[k].email}
    BY <2>1, <2>2
  <2>. QED BY <2>3 DEF RowOK, Columns
<1> HIDE DEF t
<1>4. Rows(d) => TableOK("members", t)
  BY <1>2, <1>3 DEF TableOK
<1>5. ASSUME Known(d, e), Sound(d), NEW k \in DOMAIN t
      PROVE  Known(d, t[k].email) /\ t[k].list \in DOMAIN d.lists
  BY <1>2, <1>3, <1>5 DEF Sound, ForeignKeys, AddressesFound, ListsFound
<1>6. Finite(DOMAIN t)
  BY <1>2 DEF Keyed, Serial
<1>7. Known(d, e) => Loose(d, c)
  BY <1>4, <1>5, <1>6, OtherMembersLoose
<1>8. Loose(d, d)
  BY DEF Loose, SamePlaces, SameCache
<1>. QED BY <1>1, <1>7, <1>8

LEMMA PatchActionFramed ==
    ASSUME NEW d, Keyed(d), NEW i, NEW a \in {"none", "hold"}
    PROVE  Framed(d, PatchMember(d, i, "same", a).db)
<1>1. PatchMember(d, i, "same", a).db = [d EXCEPT !.members[i].action = a]
  BY DEF PatchMember, Done
<1>2. Framed(d, [d EXCEPT !.members[i].action = a])
  BY ActionFramed
<1>. QED BY <1>1, <1>2

--------------------------------------------------------------------------------
(***************************************************************************)
(* Domains and lists.                                                      *)
(***************************************************************************)
LEMMA OtherOwners ==
    ASSUME NEW a, NEW d, Framed(a, d), NEW t, Rows(d) => TableOK("owners", t),
           Sound(a) => \A o \in DOMAIN t : o[2] \in DOMAIN d.users /\ o[1] \in DOMAIN d.domains
    PROVE  Framed(a, [d EXCEPT !.owners = t])
<1> DEFINE c == [d EXCEPT !.owners = t]
<1>0. Keyed(d)
  BY DEF Framed, Kept
<1>a. HasTables(d) /\ "owners" \in Tables \ Serial
  BY <1>0 DEF Keyed, Tables, Serial
<1>b. c.owners = t /\ \A m \in Tables \ {"owners"} : c[m] = d[m]
  BY <1>a, Updated
<1>1. /\ Keyed(c) /\ (Rows(d) => Rows(c)) /\ c.owners = t
      /\ \A m \in Tables \ {"owners"} : c[m] = d[m]
  BY <1>0, <1>a, <1>b, UpdatedKeyed, UpdatedRows
<1> HIDE DEF c
<1>2. /\ c.users = d.users /\ c.addresses = d.addresses /\ c.members = d.members
      /\ c.domains = d.domains /\ c.matches = d.matches /\ c.lists = d.lists
      /\ SamePlaces(d, c) /\ SameCache(d, c)
  BY <1>1 DEF SamePlaces, SameCache, Tables
<1>3. ASSUME Sound(a) PROVE ForeignKeys(c) /\ ListsFound(c)
  <2>a. Sound(d)
    BY <1>3 DEF Framed, Kept
  <2>1. UsersFound(c)
    BY <1>1, <1>2, <1>3, <2>a DEF Sound, ForeignKeys, UsersFound
  <2>2. AddressesFound(c)
    BY <1>2, <2>a DEF Sound, ForeignKeys, AddressesFound, Known
  <2>3. PartsFound(c)
    BY <1>1, <2>a DEF Sound, ForeignKeys, PartsFound, Tables
  <2>4. ListsFound(c)
    BY <1>2, <2>a DEF Sound, ListsFound
  <2>. QED BY <2>1, <2>2, <2>3, <2>4 DEF ForeignKeys
<1>4. Sound(a) => Rows(c) /\ Gapless(c)
  BY <1>1, <1>2, GaplessSame DEF Framed, Kept, Sound
<1>5. Sound(a) /\ Rosters(a) => Rosters(c)
  BY <1>2, RostersSame DEF Framed, Kept
<1>6. SamePlaces(a, c) /\ SameCache(a, c)
  BY <1>2 DEF Framed, SamePlaces, SameCache
<1>7. Framed(a, c)
  BY <1>1, <1>3, <1>4, <1>5, <1>6 DEF Framed, Kept, Sound
<1>. QED BY <1>7 DEF c

LEMMA OtherDomains ==
    ASSUME NEW d, Keyed(d), NEW t, Rows(d) => TableOK("domains", t),
           DOMAIN d.domains \subseteq DOMAIN t
    PROVE  Framed(d, [d EXCEPT !.domains = t]) /\ [d EXCEPT !.domains = t].domains = t
<1> DEFINE c == [d EXCEPT !.domains = t]
<1>a. HasTables(d) /\ "domains" \in Tables \ Serial
  BY DEF Keyed, Tables, Serial
<1>b. c.domains = t /\ \A m \in Tables \ {"domains"} : c[m] = d[m]
  BY <1>a, Updated
<1>1. /\ Keyed(c) /\ (Rows(d) => Rows(c)) /\ c.domains = t
      /\ \A m \in Tables \ {"domains"} : c[m] = d[m]
  BY <1>a, <1>b, UpdatedKeyed, UpdatedRows
<1> HIDE DEF c
<1>2. /\ c.users = d.users /\ c.addresses = d.addresses /\ c.members = d.members
      /\ c.owners = d.owners /\ c.matches = d.matches /\ c.lists = d.lists
      /\ SamePlaces(d, c) /\ SameCache(d, c)
  BY <1>1 DEF SamePlaces, SameCache, Tables
<1>3. ASSUME Sound(d) PROVE ForeignKeys(c) /\ ListsFound(c)
  <2>1. UsersFound(c)
    BY <1>1, <1>2, <1>3 DEF Sound, ForeignKeys, UsersFound
  <2>2. AddressesFound(c)
    BY <1>2, <1>3 DEF Sound, ForeignKeys, AddressesFound, Known
  <2>3. PartsFound(c)
    BY <1>1, <1>3 DEF Sound, ForeignKeys, PartsFound, Tables
  <2>4. ListsFound(c)
    BY <1>2, <1>3 DEF Sound, ListsFound
  <2>. QED BY <2>1, <2>2, <2>3, <2>4 DEF ForeignKeys
<1>4. Framed(d, c)
  BY <1>1, <1>2, <1>3, Changes, RostersSame
<1>. QED BY <1>1, <1>4 DEF c

LEMMA OtherLists ==
    ASSUME NEW d, Keyed(d), NEW t, Rows(d) => TableOK("lists", t),
           DOMAIN d.lists \subseteq DOMAIN t
    PROVE  LET c == [d EXCEPT !.lists = t]
           IN  /\ Kept(d, c) /\ SameCache(d, c) /\ c.lists = t
               /\ DOMAIN d.lists = DOMAIN t => Framed(d, c)
<1> DEFINE c == [d EXCEPT !.lists = t]
<1>a. HasTables(d) /\ "lists" \in Tables \ Serial
  BY DEF Keyed, Tables, Serial
<1>b. c.lists = t /\ \A m \in Tables \ {"lists"} : c[m] = d[m]
  BY <1>a, Updated
<1>1. /\ Keyed(c) /\ (Rows(d) => Rows(c)) /\ c.lists = t
      /\ \A m \in Tables \ {"lists"} : c[m] = d[m]
  BY <1>a, <1>b, UpdatedKeyed, UpdatedRows
<1> HIDE DEF c
<1>2. /\ c.users = d.users /\ c.addresses = d.addresses /\ c.members = d.members
      /\ c.owners = d.owners /\ c.matches = d.matches /\ c.domains = d.domains
      /\ SameCache(d, c)
  BY <1>1 DEF SameCache, Tables
<1>3. ASSUME Sound(d) PROVE ForeignKeys(c) /\ ListsFound(c)
  <2>1. UsersFound(c)
    BY <1>1, <1>2, <1>3 DEF Sound, ForeignKeys, UsersFound
  <2>2. AddressesFound(c)
    BY <1>2, <1>3 DEF Sound, ForeignKeys, AddressesFound, Known
  <2>3. PartsFound(c)
    BY <1>1, <1>3 DEF Sound, ForeignKeys, PartsFound, Tables
  <2>4. ListsFound(c)
    BY <1>1, <1>2, <1>3 DEF Sound, ListsFound
  <2>. QED BY <2>1, <2>2, <2>3, <2>4 DEF ForeignKeys
<1>4. Kept(d, c)
  BY <1>1, <1>2, <1>3, GaplessSame, RostersSame DEF Kept, Sound
<1>5. DOMAIN d.lists = DOMAIN t => Framed(d, c)
  BY <1>1, <1>2, <1>4 DEF Framed, SamePlaces
<1>. QED BY <1>1, <1>2, <1>4, <1>5 DEF c

LEMMA OtherParts ==
    ASSUME NEW d, Keyed(d), NEW n \in {"aliases", "archivers"}, NEW t,
           Rows(d) => TableOK(n, t),
           Sound(d) => \A k \in DOMAIN t : t[k].list \in DOMAIN d.lists
    PROVE  Framed(d, [d EXCEPT ![n] = t]) /\ [d EXCEPT ![n] = t][n] = t
<1> DEFINE c == [d EXCEPT ![n] = t]
<1>a. HasTables(d) /\ n \in Tables \ Serial
  BY DEF Keyed, Tables, Serial
<1>b. c[n] = t /\ \A m \in Tables \ {n} : c[m] = d[m]
  BY <1>a DEF HasTables
<1>1. /\ Keyed(c) /\ (Rows(d) => Rows(c)) /\ c[n] = t
      /\ \A m \in Tables \ {n} : c[m] = d[m]
  BY <1>a, <1>b, UpdatedKeyed, UpdatedRows
<1> HIDE DEF c
<1>2. /\ c.users = d.users /\ c.addresses = d.addresses /\ c.members = d.members
      /\ c.owners = d.owners /\ c.matches = d.matches /\ c.domains = d.domains
      /\ c.lists = d.lists /\ SamePlaces(d, c) /\ SameCache(d, c)
  BY <1>1 DEF SamePlaces, SameCache, Tables
<1>3. ASSUME Sound(d) PROVE ForeignKeys(c) /\ ListsFound(c)
  <2>1. UsersFound(c)
    BY <1>1, <1>2, <1>3 DEF Sound, ForeignKeys, UsersFound
  <2>2. AddressesFound(c)
    BY <1>2, <1>3 DEF Sound, ForeignKeys, AddressesFound, Known
  <2>3. PartsFound(c)
    BY <1>1, <1>2, <1>3 DEF Sound, ForeignKeys, PartsFound, Tables
  <2>4. ListsFound(c)
    BY <1>2, <1>3 DEF Sound, ListsFound
  <2>. QED BY <2>1, <2>2, <2>3, <2>4 DEF ForeignKeys
<1>4. Framed(d, c)
  BY <1>1, <1>2, <1>3, Changes, RostersSame
<1>. QED BY <1>1, <1>4 DEF c

LEMMA OtherBans ==
    ASSUME NEW d, Keyed(d), NEW t, Function(t)
    PROVE  Framed(d, [d EXCEPT !.bans = t])
<1> DEFINE c == [d EXCEPT !.bans = t]
<1>a. HasTables(d) /\ "bans" \in Tables \ Serial /\ TableOK("bans", t)
  BY DEF Keyed, Tables, Serial, TableOK, RowOK, Columns
<1>b. c.bans = t /\ \A m \in Tables \ {"bans"} : c[m] = d[m]
  BY <1>a, Updated
<1>1. /\ Keyed(c) /\ (Rows(d) => Rows(c)) /\ c.bans = t
      /\ \A m \in Tables \ {"bans"} : c[m] = d[m]
  BY <1>a, <1>b, UpdatedKeyed, UpdatedRows
<1> HIDE DEF c
<1>2. /\ c.users = d.users /\ c.addresses = d.addresses /\ c.members = d.members
      /\ c.owners = d.owners /\ c.matches = d.matches /\ c.domains = d.domains
      /\ c.lists = d.lists /\ SamePlaces(d, c) /\ SameCache(d, c)
  BY <1>1 DEF SamePlaces, SameCache, Tables
<1>3. ASSUME Sound(d) PROVE ForeignKeys(c) /\ ListsFound(c)
  <2>1. UsersFound(c)
    BY <1>1, <1>2, <1>3 DEF Sound, ForeignKeys, UsersFound
  <2>2. AddressesFound(c)
    BY <1>2, <1>3 DEF Sound, ForeignKeys, AddressesFound, Known
  <2>3. PartsFound(c)
    BY <1>1, <1>3 DEF Sound, ForeignKeys, PartsFound, Tables
  <2>4. ListsFound(c)
    BY <1>2, <1>3 DEF Sound, ListsFound
  <2>. QED BY <2>1, <2>2, <2>3, <2>4 DEF ForeignKeys
<1>4. Framed(d, c)
  BY <1>1, <1>2, <1>3, Changes, RostersSame
<1>. QED BY <1>4 DEF c

--------------------------------------------------------------------------------
(***************************************************************************)
(* Header matches.                                                         *)
(***************************************************************************)
LEMMA OtherMatches ==
    ASSUME NEW d, Keyed(d), NEW t, Rows(d) => TableOK("matches", t), Finite(DOMAIN t),
           Sound(d) => \A i \in DOMAIN t : t[i].list \in DOMAIN d.lists,
           Sound(d) => Consecutive(t)
    PROVE  /\ Framed(d, [d EXCEPT !.matches = t])
           /\ [d EXCEPT !.matches = t].matches = t
           /\ \A m \in Tables \ {"matches"} : [d EXCEPT !.matches = t][m] = d[m]
<1> DEFINE c == [d EXCEPT !.matches = t]
<1>a. HasTables(d) /\ "matches" \in Tables
  BY DEF Keyed, Tables
<1>b. c.matches = t /\ \A m \in Tables \ {"matches"} : c[m] = d[m]
  BY <1>a, Updated
<1>1. Keyed(c) /\ (Rows(d) => Rows(c))
  BY <1>a, UpdatedKeyed, UpdatedRows
<1> HIDE DEF c
<1>2. /\ c.users = d.users /\ c.addresses = d.addresses /\ c.members = d.members
      /\ c.owners = d.owners /\ c.domains = d.domains
      /\ c.lists = d.lists /\ SamePlaces(d, c) /\ SameCache(d, c)
  BY <1>b DEF SamePlaces, SameCache, Tables
<1>3. ASSUME Sound(d) PROVE ForeignKeys(c) /\ ListsFound(c)
  <2>1. UsersFound(c)
    BY <1>b, <1>2, <1>3 DEF Sound, ForeignKeys, UsersFound
  <2>2. AddressesFound(c)
    BY <1>2, <1>3 DEF Sound, ForeignKeys, AddressesFound, Known
  <2>3. PartsFound(c)
    BY <1>b, <1>2, <1>3 DEF Sound, ForeignKeys, PartsFound, Tables
  <2>4. ListsFound(c)
    BY <1>2, <1>3 DEF Sound, ListsFound
  <2>. QED BY <2>1, <2>2, <2>3, <2>4 DEF ForeignKeys
<1>4. Framed(d, c)
  BY <1>b, <1>1, <1>2, <1>3, RostersSame DEF Framed, Kept, Sound, Gapless
<1>. QED BY <1>b, <1>4 DEF c

LEMMA MatchRow ==
    ASSUME NEW l, NEW n, NEW x
    PROVE  RowOK("matches", [list |-> l, position |-> n, pattern |-> x])
  BY DEF RowOK, Columns

LEMMA MatchColumns ==
    ASSUME NEW t, TableOK("matches", t), NEW i \in DOMAIN t
    PROVE  t[i] = [c \in {"list", "position", "pattern"} |-> t[i][c]]
  BY DEF TableOK, RowOK, Columns

(* What is numbered is numbered still when its rows stay.                 *)
LEMMA OtherListUpTo ==
    ASSUME NEW t, Consecutive(t), NEW u, NEW l, OfList(u, l) = OfList(t, l),
           \A i \in OfList(t, l) : u[i].position = t[i].position
    PROVE  \E c \in Nat : UpTo(u, l, c)
<1>1. PICK c \in Nat : UpTo(t, l, c)
  BY DEF Consecutive
<1>2. UpTo(u, l, c)
  BY <1>1 DEF UpTo
<1>. QED BY <1>2

(* One more, at the end of its list.                                       *)
LEMMA ConsecutiveAppended ==
    ASSUME NEW t, Consecutive(t), NEW k, k \notin DOMAIN t, NEW l, NEW x,
           NEW last, last = Max({t[i].position : i \in OfList(t, l)} \cup {-1}),
           NEW u, u = PutAll(t, {k}, [list |-> l, position |-> last + 1, pattern |-> x])
    PROVE  Consecutive(u)
<1> DEFINE S == {t[i].position : i \in OfList(t, l)} \cup {-1}
<1>1. PICK c \in Nat : UpTo(t, l, c)
  BY DEF Consecutive
<1>2. last = c - 1
  <2>1. c - 1 \in S
    BY <1>1 DEF UpTo
  <2>2. \A n \in S : n \in Int /\ n =< c - 1
    BY <1>1 DEF UpTo
  <2> HIDE DEF S
  <2>3. last \in S /\ \A n \in S : n =< last
    BY <2>1, <2>2 DEF Max, S
  <2>. QED BY <2>1, <2>2, <2>3
<1>3. /\ DOMAIN u = DOMAIN t \cup {k}
      /\ u[k].list = l /\ u[k].position = c
      /\ \A i \in DOMAIN t : u[i] = t[i]
  <2> DEFINE row == [list |-> l, position |-> last + 1, pattern |-> x]
  <2>1. row.list = l /\ row.position = c
    BY <1>2
  <2> HIDE DEF row
  <2>2. DOMAIN u = DOMAIN t \cup {k} /\ u[k] = row /\ \A i \in DOMAIN t : u[i] = t[i]
    BY DEF PutAll, row
  <2>. QED BY <2>1, <2>2
<1>4. UpTo(u, l, c + 1)
  <2>1. OfList(u, l) = OfList(t, l) \cup {k} /\ k \notin OfList(t, l)
    BY <1>3 DEF OfList
  <2>2. \A i \in OfList(t, l) : u[i] = t[i] /\ u[i].position \in 0 .. c - 1
    BY <1>1, <1>3 DEF OfList, UpTo
  <2>c. \A n \in 0 .. c - 1 : n \in 0 .. (c + 1) - 1 /\ n # c
    BY <1>1
  <2>a. \A i \in OfList(t, l) : u[i].position \in 0 .. (c + 1) - 1 /\ u[i].position # c
    BY <2>2, <2>c, Zenon
  <2>b. u[k].position \in 0 .. (c + 1) - 1
    BY <1>1, <1>3
  <2>3. \A i \in OfList(u, l) : u[i].position \in 0 .. (c + 1) - 1
    BY <2>1, <2>a, <2>b, Zenon
  <2>4. ASSUME NEW n \in 0 .. (c + 1) - 1 PROVE \E i \in OfList(u, l) : u[i].position = n
    <3>1. CASE n = c
      BY <1>3, <2>1, <3>1
    <3>2. CASE n # c
      <4>1. PICK i \in OfList(t, l) : t[i].position = n
        BY <1>1, <3>2 DEF UpTo
      <4>. QED BY <2>1, <2>2, <4>1
    <3>. QED BY <3>1, <3>2
  <2>5. ASSUME NEW i \in OfList(u, l), NEW j \in OfList(u, l), u[i].position = u[j].position
        PROVE  i = j
    <3>1. CASE i = k \/ j = k
      BY <1>3, <2>1, <2>a, <2>5, <3>1, Zenon
    <3>2. CASE i # k /\ j # k
      <4>1. i \in OfList(t, l) /\ j \in OfList(t, l) /\ t[i].position = t[j].position
        BY <2>1, <2>2, <2>5, <3>2
      <4>. QED BY <1>1, <4>1 DEF UpTo
    <3>. QED BY <3>1, <3>2
  <2>. QED BY <2>3, <2>4, <2>5 DEF UpTo
<1>5. ASSUME NEW m, m # l PROVE \E b \in Nat : UpTo(u, m, b)
  <2>1. OfList(u, m) = OfList(t, m)
    BY <1>3, <1>5 DEF OfList
  <2>2. \A i \in OfList(t, m) : u[i].position = t[i].position
    BY <1>3 DEF OfList
  <2>. QED BY <2>1, <2>2, OtherListUpTo, Zenon
<1>6. c + 1 \in Nat
  BY <1>1
<1>7. ASSUME NEW m PROVE \E b \in Nat : UpTo(u, m, b)
  BY <1>4, <1>5, <1>6
<1>. QED BY <1>7 DEF Consecutive

LEMMA AppendMatchFramed ==
    ASSUME NEW d, Keyed(d), NEW l \in DOMAIN d.lists, NEW x, NEW taken, TakenOK(taken)
    PROVE  Framed(d, AppendMatch(d, l, x, taken).db)
<1> DEFINE last == Max({d.matches[i].position : i \in MatchesOf(d, l)} \cup {-1})
           k == Unused(d.matches, taken.matches)
           row == [list |-> l, position |-> last + 1, pattern |-> x]
           t == PutAll(d.matches, {k}, row)
<1>1. AppendMatch(d, l, x, taken).db \in {d, [d EXCEPT !.matches = t]}
  BY DEF AppendMatch, Refused, Done, Put
<1>2. k \in Number \ DOMAIN d.matches
  BY UnusedKey DEF Keyed, TakenOK, Serial
<1>3. Rows(d) => TableOK("matches", t)
  BY MatchRow, PutOK DEF Rows, Tables
<1>4. row.list = l
  OBVIOUS
<1>5. last = Max({d.matches[i].position : i \in OfList(d.matches, l)} \cup {-1})
  BY DEF MatchesOf, OfList
<1> HIDE DEF last, k
<1>6. Finite(DOMAIN t)
  BY <1>2, AddFinite DEF Keyed, Serial
<1>7. Sound(d) => Consecutive(t)
  BY <1>2, <1>5, ConsecutiveAppended DEF Sound, Gapless
<1> HIDE DEF row
<1>8. DOMAIN t = DOMAIN d.matches \cup {k} /\ t[k] = row
      /\ \A i \in DOMAIN d.matches : t[i] = d.matches[i]
  BY <1>2 DEF PutAll
<1> HIDE DEF t
<1>9. ASSUME Sound(d), NEW i \in DOMAIN t PROVE t[i].list \in DOMAIN d.lists
  BY <1>4, <1>8, <1>9 DEF Sound, ForeignKeys, PartsFound
<1>10. Framed(d, [d EXCEPT !.matches = t])
  BY <1>3, <1>6, <1>7, <1>9, OtherMatches
<1>. QED BY <1>1, <1>10, FrameSame

LEMMA CardinalityUpTo ==
    ASSUME NEW t, Finite(DOMAIN t), NEW l, NEW c \in Nat, UpTo(t, l, c)
    PROVE  IsFiniteSet(OfList(t, l)) /\ Cardinality(OfList(t, l)) = c
<1> DEFINE M == OfList(t, l)
           f == [i \in M |-> t[i].position]
<1>1. \A i \in M : f[i] = t[i].position /\ f[i] \in 0 .. c - 1
  BY DEF UpTo
<1>2. f \in Bijection(M, 0 .. c - 1)
  <2>1. f \in [M -> 0 .. c - 1]
    BY <1>1
  <2>2. \A i, j \in M : f[i] = f[j] => i = j
    BY <1>1 DEF UpTo
  <2>3. \A n \in 0 .. c - 1 : \E i \in M : f[i] = n
    BY <1>1 DEF UpTo
  <2> HIDE DEF f, M
  <2>4. f \in Injection(M, 0 .. c - 1)
    BY <2>1, <2>2 DEF Injection, IsInjective
  <2>5. f \in Surjection(M, 0 .. c - 1)
    BY <2>1, <2>3 DEF Surjection
  <2>. QED BY <2>4, <2>5 DEF Bijection
<1>3. IsFiniteSet(M)
  <2>1. M \in SUBSET DOMAIN t /\ IsFiniteSet(DOMAIN t)
    BY DEF OfList, Finite
  <2>. QED BY <2>1, FS_Subset
<1>4. Cardinality(0 .. c - 1) = Cardinality(M)
  <2>1. ExistsBijection(M, 0 .. c - 1)
    BY <1>2 DEF ExistsBijection
  <2> HIDE DEF M
  <2>. QED BY <1>3, <2>1, FS_Bijection
<1>5. Cardinality(0 .. c - 1) = c
  <2>1. 0 \in Int /\ c - 1 \in Int
    OBVIOUS
  <2>2. Cardinality(0 .. c - 1) = IF 0 > c - 1 THEN 0 ELSE c - 1 - 0 + 1
    BY <2>1, FS_Interval
  <2>. QED BY <2>2
<1>. QED BY <1>3, <1>4, <1>5

(* The numbers that are given anew are those from 0 on.                    *)
Before(p, i, j) == \/ p[i] < p[j]
                   \/ p[i] = p[j] /\ i < j
Earlier(M, p, j) == {i \in M : Before(p, i, j)}
Rank(M, p, j) == Cardinality(Earlier(M, p, j))

LEMMA Ranks ==
    ASSUME NEW M \in SUBSET Nat, IsFiniteSet(M), NEW p \in [M -> Nat]
    PROVE  /\ Cardinality(M) \in Nat
           /\ \A j \in M : Rank(M, p, j) \in 0 .. Cardinality(M) - 1
           /\ \A i, j \in M : Rank(M, p, i) = Rank(M, p, j) => i = j
           /\ \A n \in 0 .. Cardinality(M) - 1 : \E j \in M : Rank(M, p, j) = n
<1> DEFINE c == Cardinality(M)
           f == [j \in M |-> Rank(M, p, j)]
<1>a. \A i \in M : p[i] \in Nat /\ i \in Nat
  OBVIOUS
<1>1. c \in Nat
  BY FS_CardinalityType
<1>2. ASSUME NEW j \in M
      PROVE  Rank(M, p, j) \in 0 .. c - 1
  <2>1. Earlier(M, p, j) \in SUBSET (M \ {j})
    BY DEF Earlier, Before
  <2>2. IsFiniteSet(M \ {j}) /\ Cardinality(M \ {j}) = c - 1
    BY FS_RemoveElement
  <2>3. IsFiniteSet(Earlier(M, p, j)) /\ Cardinality(Earlier(M, p, j)) =< c - 1
    BY <2>1, <2>2, FS_Subset
  <2>4. Cardinality(Earlier(M, p, j)) \in Nat
    BY <2>3, FS_CardinalityType
  <2>. QED BY <1>1, <2>3, <2>4 DEF Rank
<1>3. ASSUME NEW i \in M, NEW j \in M, Before(p, i, j)
      PROVE  Rank(M, p, i) < Rank(M, p, j)
  <2>a. ASSUME NEW k \in M, Before(p, k, i) PROVE Before(p, k, j) /\ k # i
    BY <1>a, <1>3, <2>a DEF Before
  <2>1. Earlier(M, p, i) \in SUBSET (Earlier(M, p, j) \ {i}) /\ i \in Earlier(M, p, j)
    BY <1>3, <2>a DEF Earlier
  <2>2. IsFiniteSet(Earlier(M, p, j))
    <3>1. Earlier(M, p, j) \in SUBSET M
      BY DEF Earlier
    <3>. QED BY <3>1, FS_Subset
  <2>3. /\ IsFiniteSet(Earlier(M, p, j) \ {i})
        /\ Cardinality(Earlier(M, p, j) \ {i}) = Cardinality(Earlier(M, p, j)) - 1
    BY <2>1, <2>2, FS_RemoveElement
  <2>4. /\ IsFiniteSet(Earlier(M, p, i))
        /\ Cardinality(Earlier(M, p, i)) =< Cardinality(Earlier(M, p, j)) - 1
    BY <2>1, <2>3, FS_Subset
  <2>5. Cardinality(Earlier(M, p, i)) \in Nat /\ Cardinality(Earlier(M, p, j)) \in Nat
    BY <2>2, <2>4, FS_CardinalityType
  <2>. QED BY <2>4, <2>5 DEF Rank
<1>4. ASSUME NEW i \in M, NEW j \in M, Rank(M, p, i) = Rank(M, p, j)
      PROVE  i = j
  <2>1. i # j => Before(p, i, j) \/ Before(p, j, i)
    <3>1. p[i] \in Nat /\ p[j] \in Nat /\ i \in Nat /\ j \in Nat
      BY <1>a
    <3>2. i # j => i < j \/ j < i
      BY <3>1
    <3>3. p[i] < p[j] \/ p[j] < p[i] \/ p[i] = p[j]
      BY <3>1
    <3>4. CASE p[i] = p[j]
      BY <3>1, <3>2, <3>4 DEF Before
    <3>5. CASE p[i] < p[j] \/ p[j] < p[i]
      BY <3>5, Zenon DEF Before
    <3>. QED BY <3>3, <3>4, <3>5
  <2>2. Rank(M, p, i) \in Int /\ Rank(M, p, j) \in Int
    BY <1>1, <1>2
  <2>. QED BY <1>3, <1>4, <2>1, <2>2
<1>5. f \in Surjection(M, 0 .. c - 1)
  <2>1. f \in [M -> 0 .. c - 1] /\ \A i, j \in M : f[i] = f[j] => i = j
    BY <1>2, <1>4
  <2> HIDE DEF f
  <2>2. f \in Injection(M, 0 .. c - 1)
    BY <2>1 DEF Injection, IsInjective
  <2>3. IsFiniteSet(0 .. c - 1) /\ Cardinality(0 .. c - 1) = c
    <3>1. 0 \in Int /\ c - 1 \in Int
      BY <1>1
    <3>2. /\ IsFiniteSet(0 .. c - 1)
          /\ Cardinality(0 .. c - 1) = IF 0 > c - 1 THEN 0 ELSE c - 1 - 0 + 1
      BY <3>1, FS_Interval
    <3>. QED BY <1>1, <3>2
  <2>. QED BY <2>2, <2>3, FS_Injection
<1>6. ASSUME NEW n \in 0 .. c - 1 PROVE \E j \in M : Rank(M, p, j) = n
  <2>1. \E j \in M : f[j] = n
    BY <1>5, Zenon DEF Surjection
  <2>. QED BY <2>1
<1>. QED BY <1>1, <1>2, <1>4, <1>6

(* Header matches go, and those that are left are numbered again.          *)
AnewOf(t, l, v, p, u) ==
    /\ DOMAIN v \subseteq DOMAIN t /\ \A i \in DOMAIN v : v[i] = t[i]
    /\ DOMAIN t \ DOMAIN v \subseteq OfList(t, l)
    /\ p = [i \in OfList(v, l) |-> v[i].position]
    /\ DOMAIN u = DOMAIN v
    /\ \A j \in OfList(v, l) : u[j] = [v[j] EXCEPT !.position = Rank(OfList(v, l), p, j)]
    /\ \A j \in DOMAIN v : j \notin OfList(v, l) => u[j] = v[j]

LEMMA RestoredConsecutive ==
    ASSUME NEW t, Consecutive(t), TableOK("matches", t), Finite(DOMAIN t), NEW l,
           NEW v, NEW p, NEW u, AnewOf(t, l, v, p, u)
    PROVE  Consecutive(u)
<1> DEFINE M == OfList(v, l)
           gone == DOMAIN t \ DOMAIN v
<1> USE DEF AnewOf
<1>1. \A i \in DOMAIN v : v[i] = [c \in {"list", "position", "pattern"} |-> v[i][c]]
  BY MatchColumns
<1>2. ASSUME NEW j \in DOMAIN v
      PROVE  u[j].list = v[j].list /\ (j \in M => u[j].position = Rank(M, p, j))
  BY <1>1 DEF OfList
<1>3. OfList(u, l) = M
  BY <1>2 DEF OfList
<1>4. M \in SUBSET Nat /\ IsFiniteSet(M)
  <2>1. M \in SUBSET DOMAIN t
    BY DEF OfList
  <2>2. IsFiniteSet(DOMAIN t) /\ DOMAIN t \subseteq Nat
    BY DEF Finite, Number
  <2>. QED BY <2>1, <2>2, FS_Subset
<1>5. p \in [M -> Nat]
  <2>1. PICK c \in Nat : UpTo(t, l, c)
    BY DEF Consecutive
  <2>2. \A i \in M : v[i].position \in Nat
    BY <2>1 DEF UpTo, OfList
  <2>. QED BY <2>2
<1>7. \A j \in M : u[j].position = Rank(M, p, j)
  BY <1>2 DEF OfList
<1> HIDE DEF M
<1>6. /\ Cardinality(M) \in Nat
      /\ \A j \in M : Rank(M, p, j) \in 0 .. Cardinality(M) - 1
      /\ \A i, j \in M : Rank(M, p, i) = Rank(M, p, j) => i = j
      /\ \A n \in 0 .. Cardinality(M) - 1 : \E j \in M : Rank(M, p, j) = n
  BY <1>4, <1>5, Ranks
<1>8. UpTo(u, l, Cardinality(M))
  BY <1>3, <1>6, <1>7 DEF UpTo
<1>9. ASSUME NEW m, m # l PROVE \E b \in Nat : UpTo(u, m, b)
  <2>1. \A i \in DOMAIN v : v[i].list = m => i \notin M
    BY <1>9 DEF M, OfList
  <2>a. \A i \in DOMAIN t \ DOMAIN v : t[i].list = l
    BY DEF OfList
  <2>2. OfList(u, m) = OfList(t, m)
    BY <1>2, <1>9, <2>a DEF OfList
  <2>3. \A i \in OfList(t, m) : u[i] = t[i]
    BY <1>9 DEF OfList
  <2>4. \A i \in OfList(t, m) : u[i].position = t[i].position
    BY <2>3
  <2>. QED BY <2>2, <2>4, OtherListUpTo
<1>10. ASSUME NEW m PROVE \E b \in Nat : UpTo(u, m, b)
  BY <1>6, <1>8, <1>9
<1>. QED BY <1>10 DEF Consecutive

LEMMA DropMatches ==
    ASSUME NEW d, Keyed(d), NEW ks
    PROVE  LET c == [d EXCEPT !.matches = Drop(@, ks)]
           IN  /\ c.matches = Drop(d.matches, ks)
               /\ Keyed(c) /\ (Rows(d) => Rows(c))
               /\ \A m \in Tables \ {"matches"} : c[m] = d[m]
<1> DEFINE t == Drop(d.matches, ks)
           c == [d EXCEPT !.matches = t]
<1>1. Finite(DOMAIN t)
  BY DropFinite DEF Keyed, Serial
<1>2. Rows(d) => TableOK("matches", t)
  BY DropOK DEF Rows, Tables
<1> HIDE DEF t
<1>a. HasTables(d) /\ "matches" \in Tables
  BY DEF Keyed, Tables
<1>b. c.matches = t /\ \A m \in Tables \ {"matches"} : c[m] = d[m]
  BY <1>a, Updated
<1>3. Keyed(c) /\ (Rows(d) => Rows(c))
  BY <1>a, <1>1, <1>2, UpdatedKeyed, UpdatedRows
<1>. QED BY <1>b, <1>3 DEF t

LEMMA DeleteMatchFramed ==
    ASSUME NEW d, Keyed(d), NEW l, NEW n
    PROVE  Framed(d, DeleteMatch(d, l, n).db)
<1> DEFINE gone == At(d, l, n)
           v == Drop(d.matches, gone)
           b == [d EXCEPT !.matches = v]
           M == OfList(v, l)
           p == [i \in M |-> v[i].position]
           u == [j \in DOMAIN v |-> IF v[j].list = l
                                    THEN [v[j] EXCEPT !.position = Rank(M, p, j)] ELSE v[j]]
<1>1. b.matches = v /\ HasTables(d)
  BY DropMatches DEF Keyed
<1>2. Restored(b, l) = [d EXCEPT !.matches = u]
  <2>1. MatchesOf(b, l) = M
    BY <1>1 DEF MatchesOf, OfList
  <2>2. ASSUME NEW j \in DOMAIN v, v[j].list = l
        PROVE  {i \in M : \/ v[i].position < v[j].position
                          \/ v[i].position = v[j].position /\ i < j} = Earlier(M, p, j)
    <3>1. j \in M
      BY <2>2 DEF OfList
    <3>2. \A i \in M : p[i] = v[i].position
      OBVIOUS
    <3> HIDE DEF p, M, v
    <3>3. ASSUME NEW i \in M
          PROVE  (\/ v[i].position < v[j].position
                  \/ v[i].position = v[j].position /\ i < j) <=> Before(p, i, j)
      BY <3>1, <3>2, Zenon DEF Before
    <3>4. \A i : i \in {k \in M : \/ v[k].position < v[j].position
                                  \/ v[k].position = v[j].position /\ k < j}
                   <=> i \in Earlier(M, p, j)
      BY <3>3, Zenon DEF Earlier
    <3>. QED BY <3>4, Zenon
  <2>3. Restored(b, l) =
          [b EXCEPT !.matches =
            [j \in DOMAIN v |-> IF v[j].list = l
                THEN [v[j] EXCEPT !.position =
                        Cardinality({i \in M : \/ v[i].position < v[j].position
                                               \/ v[i].position = v[j].position /\ i < j})]
                ELSE v[j]]]
    BY <1>1, <2>1 DEF Restored
  <2> HIDE DEF v, M, p
  <2>4. Restored(b, l) = [b EXCEPT !.matches = u]
    BY <2>2, <2>3 DEF Rank
  <2>. QED BY <1>1, <2>4 DEF HasTables, Tables
<1>3. DeleteMatch(d, l, n).db \in {d, [d EXCEPT !.matches = u]}
  BY <1>2 DEF DeleteMatch, Failed, Done
<1>4. /\ DOMAIN v = DOMAIN d.matches \ gone
      /\ \A i \in DOMAIN v : v[i] = d.matches[i]
  <2>1. DOMAIN v = DOMAIN d.matches \ gone
    BY DropFields, Zenon
  <2>2. \A i \in DOMAIN v : v[i] = d.matches[i]
    BY DropRows, Zenon
  <2>. QED BY <2>1, <2>2
<1>5. gone \subseteq OfList(d.matches, l)
  BY DEF At, MatchesOf, OfList
<1>6. Rows(d) => TableOK("matches", v)
  BY DropOK DEF Rows, Tables
<1>7. Finite(DOMAIN v)
  BY DropFinite DEF Keyed, Serial
<1> HIDE DEF v, gone
<1>8. /\ DOMAIN u = DOMAIN v /\ Function(u)
      /\ \A j \in M : u[j] = [v[j] EXCEPT !.position = Rank(M, p, j)]
      /\ \A j \in DOMAIN v : j \notin M => u[j] = v[j]
  <2> HIDE DEF p
  <2>. QED BY DEF OfList, Function
<1>9. p = [i \in OfList(v, l) |-> v[i].position]
  OBVIOUS
<1> HIDE DEF u, p
<1>10. ASSUME Sound(d) PROVE Consecutive(u)
  <2>1. Consecutive(d.matches) /\ TableOK("matches", d.matches) /\ Finite(DOMAIN d.matches)
    BY <1>10 DEF Sound, Rows, Gapless, Tables, Keyed, Serial
  <2>2. AnewOf(d.matches, l, v, p, u)
    BY <1>4, <1>5, <1>8, <1>9 DEF AnewOf
  <2>. QED BY <2>1, <2>2, RestoredConsecutive
<1>11. ASSUME Rows(d), NEW j \in DOMAIN u
       PROVE  RowOK("matches", u[j]) /\ u[j].list = d.matches[j].list
  <2>1. v[j] = [c \in {"list", "position", "pattern"} |-> v[j][c]]
    BY <1>6, <1>8, <1>11, MatchColumns
  <2>2. u[j] = v[j] \/ \E r : u[j] = [v[j] EXCEPT !.position = r]
    BY <1>8
  <2>3. u[j] = [c \in {"list", "position", "pattern"} |-> u[j][c]] /\ u[j].list = v[j].list
    BY <2>1, <2>2
  <2>. QED BY <1>4, <1>8, <2>3 DEF RowOK, Columns
<1>12. Rows(d) => TableOK("matches", u)
  BY <1>8, <1>11 DEF TableOK
<1>13. Finite(DOMAIN u)
  BY <1>7, <1>8
<1>14. ASSUME Sound(d), NEW j \in DOMAIN u PROVE u[j].list \in DOMAIN d.lists
  BY <1>4, <1>8, <1>11, <1>14 DEF Sound, ForeignKeys, PartsFound
<1>15. Framed(d, [d EXCEPT !.matches = u])
  BY <1>10, <1>12, <1>13, <1>14, OtherMatches
<1>. QED BY <1>3, <1>15, FrameSame

LEMMA ClearMatchesFramed ==
    ASSUME NEW d, Keyed(d), NEW l
    PROVE  Framed(d, ClearMatches(d, l).db)
<1> DEFINE u == Drop(d.matches, MatchesOf(d, l))
<1>1. ClearMatches(d, l).db = [d EXCEPT !.matches = u]
  BY DEF ClearMatches, Done
<1>2. /\ DOMAIN u = DOMAIN d.matches \ MatchesOf(d, l)
      /\ \A i \in DOMAIN u : u[i] = d.matches[i]
  <2>1. DOMAIN u = DOMAIN d.matches \ MatchesOf(d, l)
    BY DropFields, Zenon
  <2>2. \A i \in DOMAIN u : u[i] = d.matches[i]
    BY DropRows, Zenon
  <2>. QED BY <2>1, <2>2
<1>3. Rows(d) => TableOK("matches", u)
  BY DropOK DEF Rows, Tables
<1>4. Finite(DOMAIN u)
  BY DropFinite DEF Keyed, Serial
<1> HIDE DEF u
<1>5. OfList(u, l) = {}
  BY <1>2 DEF OfList, MatchesOf
<1>6. UpTo(u, l, 0)
  BY <1>5 DEF UpTo
<1>7. ASSUME Consecutive(d.matches), NEW m, m # l PROVE \E b \in Nat : UpTo(u, m, b)
  <2>1. OfList(u, m) = OfList(d.matches, m)
    BY <1>2, <1>7 DEF OfList, MatchesOf
  <2>2. \A i \in OfList(d.matches, m) : u[i].position = d.matches[i].position
    BY <1>2, <2>1 DEF OfList
  <2>. QED BY <1>7, <2>1, <2>2, OtherListUpTo
<1>8. Sound(d) => Consecutive(u)
  <2>1. SUFFICES ASSUME Sound(d), NEW m PROVE \E b \in Nat : UpTo(u, m, b)
    BY DEF Consecutive
  <2>2. Consecutive(d.matches)
    BY <2>1 DEF Sound, Gapless
  <2>. QED BY <1>6, <1>7, <2>2
<1>9. ASSUME Sound(d), NEW i \in DOMAIN u PROVE u[i].list \in DOMAIN d.lists
  BY <1>2, <1>9 DEF Sound, ForeignKeys, PartsFound
<1>10. Framed(d, [d EXCEPT !.matches = u])
  BY <1>3, <1>4, <1>8, <1>9, OtherMatches
<1>. QED BY <1>1, <1>10

LEMMA PostMatchFramed ==
    ASSUME NEW d, Keyed(d), NEW l \in DOMAIN d.lists, NEW x, NEW taken, TakenOK(taken)
    PROVE  Framed(d, PostMatch(d, l, x, taken).db)
<1>1. PostMatch(d, l, x, taken).db \in {d, AppendMatch(d, l, x, taken).db}
  BY DEF PostMatch, Failed
<1>. QED BY <1>1, AppendMatchFramed, FrameSame

LEMMA PatternFramed ==
    ASSUME NEW d, Keyed(d), NEW i, NEW x
    PROVE  LET c == [d EXCEPT !.matches[i].pattern = x]
           IN  Framed(d, c) /\ Keyed(c) /\ DOMAIN c.matches = DOMAIN d.matches
<1> DEFINE t == [d.matches EXCEPT ![i].pattern = x]
<1>1. DOMAIN t = DOMAIN d.matches /\ Function(t)
  BY DEF Function
<1>2. ASSUME NEW k \in DOMAIN t, Rows(d)
      PROVE  /\ RowOK("matches", t[k]) /\ t[k].list = d.matches[k].list
             /\ t[k].position = d.matches[k].position
  <2>1. d.matches[k] = [c \in {"list", "position", "pattern"} |-> d.matches[k][c]]
    BY <1>1, <1>2, MatchColumns DEF Rows, Tables
  <2>2. t[k] = IF k = i THEN [d.matches[k] EXCEPT !.pattern = x] ELSE d.matches[k]
    BY <1>1, <1>2
  <2>3. /\ t[k] = [c \in {"list", "position", "pattern"} |-> t[k][c]]
        /\ t[k].list = d.matches[k].list
        /\ t[k].position = d.matches[k].position
    BY <2>1, <2>2
  <2>. QED BY <2>3 DEF RowOK, Columns
<1> HIDE DEF t
<1>3. Rows(d) => TableOK("matches", t)
  BY <1>1, <1>2 DEF TableOK
<1>4. ASSUME Sound(d), NEW k \in DOMAIN t
      PROVE  t[k].list \in DOMAIN d.lists
  BY <1>1, <1>2, <1>4 DEF Sound, ForeignKeys, PartsFound
<1>5. ASSUME Sound(d), NEW l PROVE \E b \in Nat : UpTo(t, l, b)
  <2>1. Consecutive(d.matches) /\ Rows(d)
    BY <1>5 DEF Sound, Gapless
  <2>2. OfList(t, l) = OfList(d.matches, l)
    BY <1>1, <1>2, <2>1 DEF OfList
  <2>3. \A k \in OfList(d.matches, l) : t[k].position = d.matches[k].position
    BY <1>1, <1>2, <2>1 DEF OfList
  <2>. QED BY <2>1, <2>2, <2>3, OtherListUpTo
<1>6. Finite(DOMAIN t)
  BY <1>1 DEF Keyed, Serial
<1>7. /\ Framed(d, [d EXCEPT !.matches = t])
      /\ [d EXCEPT !.matches = t].matches = t
  BY <1>3, <1>4, <1>5, <1>6, OtherMatches DEF Consecutive
<1>. QED BY <1>1, <1>7 DEF t, Framed, Kept

(* The header match i takes position n, and others make room.              *)
Shifted(old, n, k) ==
    IF k >= n /\ k < old THEN k + 1
    ELSE IF k > old /\ k <= n THEN k - 1 ELSE k

LEMMA ShiftedUpTo ==
    ASSUME NEW t, NEW l, NEW c \in Nat, UpTo(t, l, c), NEW i \in OfList(t, l),
           NEW n \in 0 .. c - 1, NEW u, OfList(u, l) = OfList(t, l), u[i].position = n,
           \A j \in OfList(t, l) :
              j # i => u[j].position = Shifted(t[i].position, n, t[j].position)
    PROVE  UpTo(u, l, c)
<1> DEFINE M == OfList(t, l)
           old == t[i].position
<1>1. /\ \A j \in M : t[j].position \in 0 .. c - 1
      /\ \A j, k \in M : t[j].position = t[k].position => j = k
      /\ \A m \in 0 .. c - 1 : \E j \in M : t[j].position = m
  BY DEF UpTo
<1> HIDE DEF M
<1>2. old \in 0 .. c - 1 /\ i \in M
  BY <1>1 DEF M
<1>3. \A j \in M : j # i => u[j].position = Shifted(old, n, t[j].position)
  BY DEF M
<1> HIDE DEF old
<1>a. \A k \in 0 .. c - 1 : k # old => Shifted(old, n, k) \in (0 .. c - 1) \ {n}
  BY <1>2 DEF Shifted
<1>b. \A k, m \in 0 .. c - 1 : k # old /\ m # old /\ Shifted(old, n, k) = Shifted(old, n, m) => k = m
  BY <1>2 DEF Shifted
<1>c. \A m \in 0 .. c - 1 : m # n => \E k \in 0 .. c - 1 : k # old /\ Shifted(old, n, k) = m
  <2>1. SUFFICES ASSUME NEW m \in 0 .. c - 1, m # n
                 PROVE \E k \in 0 .. c - 1 : k # old /\ Shifted(old, n, k) = m
    OBVIOUS
  <2>2. CASE m > n /\ m =< old
    <3>1. m - 1 \in 0 .. c - 1 /\ m - 1 # old /\ Shifted(old, n, m - 1) = m
      BY <1>2, <2>2 DEF Shifted
    <3>. QED BY <3>1
  <2>3. CASE m < n /\ m >= old
    <3>1. m + 1 \in 0 .. c - 1 /\ m + 1 # old /\ Shifted(old, n, m + 1) = m
      BY <1>2, <2>3 DEF Shifted
    <3>. QED BY <3>1
  <2>4. CASE ~(m > n /\ m =< old) /\ ~(m < n /\ m >= old)
    <3>1. m # old /\ Shifted(old, n, m) = m
      BY <1>2, <2>1, <2>4 DEF Shifted
    <3>. QED BY <3>1
  <2>. QED BY <2>2, <2>3, <2>4
<1>d. \A j \in M : j # i => t[j].position \in 0 .. c - 1 /\ t[j].position # old
  BY <1>1, <1>2 DEF old
<1>4. \A j \in M : u[j].position \in 0 .. c - 1 /\ (j # i => u[j].position # n)
  BY <1>3, <1>a, <1>d
<1>5. ASSUME NEW j \in M, NEW k \in M, u[j].position = u[k].position PROVE j = k
  <2>1. CASE j = i \/ k = i
    BY <1>4, <1>5, <2>1
  <2>2. CASE j # i /\ k # i
    <3>1. t[j].position = t[k].position
      BY <1>3, <1>5, <1>b, <1>d, <2>2
    <3>. QED BY <1>1, <3>1
  <2>. QED BY <2>1, <2>2
<1>6. ASSUME NEW m \in 0 .. c - 1 PROVE \E j \in M : u[j].position = m
  <2>1. CASE m = n
    BY <1>2, <2>1
  <2>2. CASE m # n
    <3>1. PICK k \in 0 .. c - 1 : k # old /\ Shifted(old, n, k) = m
      BY <1>c, <2>2
    <3>2. PICK j \in M : t[j].position = k
      BY <1>1, <3>1
    <3>3. j # i
      BY <3>1, <3>2 DEF old
    <3>. QED BY <1>3, <3>1, <3>2, <3>3
  <2>. QED BY <2>1, <2>2
<1>. QED BY <1>4, <1>5, <1>6 DEF UpTo, M

LEMMA SetPositionFramed ==
    ASSUME NEW d, Keyed(d), NEW i \in DOMAIN d.matches, NEW n \in Nat
    PROVE  LET c == SetPosition(d, i, n).db
           IN  Framed(d, c) /\ Keyed(c)
<1> DEFINE l == d.matches[i].list
           old == d.matches[i].position
           others == [j \in DOMAIN d.matches |->
                        IF d.matches[j].list = l
                        THEN [d.matches[j] EXCEPT !.position =
                                Shifted(old, n, d.matches[j].position)]
                        ELSE d.matches[j]]
           u == [others EXCEPT ![i].position = n]
           c == [d EXCEPT !.matches = u]
<1>1. \/ SetPosition(d, i, n).db = d
      \/ ~(n >= Cardinality(MatchesOf(d, l))) /\ SetPosition(d, i, n).db = c
  BY DEF SetPosition, Done, Refused, Moved, Shifted, Keyed, HasTables, Tables
<1>2. DOMAIN u = DOMAIN d.matches /\ Function(u)
  BY DEF Function
<1>3. ASSUME Rows(d), NEW j \in DOMAIN u
      PROVE  /\ RowOK("matches", u[j]) /\ u[j].list = d.matches[j].list
             /\ j = i => u[j].position = n
             /\ j # i /\ d.matches[j].list = l
                   => u[j].position = Shifted(old, n, d.matches[j].position)
             /\ d.matches[j].list # l => u[j].position = d.matches[j].position
  <2>1. d.matches[j] = [x \in {"list", "position", "pattern"} |-> d.matches[j][x]]
    BY <1>2, <1>3, MatchColumns DEF Rows, Tables
  <2>2. /\ d.matches[j].list # l => others[j] = d.matches[j]
        /\ d.matches[j].list = l =>
              others[j] = [d.matches[j] EXCEPT !.position =
                                Shifted(old, n, d.matches[j].position)]
    BY <1>2, <1>3
  <2>3. u[j] = IF j = i THEN [others[j] EXCEPT !.position = n] ELSE others[j]
    BY <1>2, <1>3
  <2> HIDE DEF others, u
  <2>4. /\ others[j] = [x \in {"list", "position", "pattern"} |-> others[j][x]]
        /\ others[j].list = d.matches[j].list
        /\ d.matches[j].list = l => others[j].position = Shifted(old, n, d.matches[j].position)
    BY <2>1, <2>2
  <2>5. /\ u[j] = [x \in {"list", "position", "pattern"} |-> u[j][x]]
        /\ u[j].list = others[j].list
        /\ j = i => u[j].position = n
        /\ j # i => u[j] = others[j]
    BY <2>3, <2>4
  <2>6. RowOK("matches", u[j])
    BY <2>5 DEF RowOK, Columns
  <2>7. d.matches[j].list # l => j # i
    BY DEF l
  <2>. QED BY <2>2, <2>4, <2>5, <2>6, <2>7
<1> HIDE DEF u
<1>4. Rows(d) => TableOK("matches", u)
  BY <1>2, <1>3 DEF TableOK
<1>5. ASSUME Sound(d), NEW j \in DOMAIN u PROVE u[j].list \in DOMAIN d.lists
  BY <1>2, <1>3, <1>5 DEF Sound, ForeignKeys, PartsFound
<1>6. Finite(DOMAIN u)
  BY <1>2 DEF Keyed, Serial
<1>7. ASSUME Sound(d), n < Cardinality(MatchesOf(d, l))
      PROVE  Consecutive(u)
  <2>1. Consecutive(d.matches) /\ Rows(d) /\ Finite(DOMAIN d.matches)
    BY <1>7 DEF Sound, Gapless, Keyed, Serial
  <2>2. PICK b \in Nat : UpTo(d.matches, l, b)
    BY <2>1 DEF Consecutive
  <2>3. Cardinality(OfList(d.matches, l)) = b
    BY <2>1, <2>2, CardinalityUpTo
  <2>4. n \in 0 .. b - 1
    <3>1. OfList(d.matches, l) = MatchesOf(d, l)
      BY DEF OfList, MatchesOf
    <3>. QED BY <1>7, <2>2, <2>3, <3>1
  <2>5. \A m : OfList(u, m) = OfList(d.matches, m)
    BY <1>2, <1>3, <2>1 DEF OfList
  <2>6. i \in OfList(d.matches, l)
    BY DEF OfList
  <2>7. \A j \in OfList(d.matches, l) :
           j # i => u[j].position = Shifted(old, n, d.matches[j].position)
    BY <1>2, <1>3, <2>1 DEF OfList
  <2>8. u[i].position = n
    BY <1>2, <1>3, <2>1
  <2>9. UpTo(u, l, b)
    BY <2>2, <2>4, <2>5, <2>6, <2>7, <2>8, ShiftedUpTo
  <2>10. ASSUME NEW m, m # l PROVE \E k \in Nat : UpTo(u, m, k)
    <3>1. \A j \in OfList(d.matches, m) : u[j].position = d.matches[j].position
      BY <1>2, <1>3, <2>1, <2>10 DEF OfList
    <3>. QED BY <2>1, <2>5, <3>1, OtherListUpTo
  <2>11. ASSUME NEW m PROVE \E k \in Nat : UpTo(u, m, k)
    BY <2>2, <2>9, <2>10
  <2>. QED BY <2>11 DEF Consecutive
<1>8. ASSUME n < Cardinality(MatchesOf(d, l)) PROVE Framed(d, c)
  BY <1>4, <1>5, <1>6, <1>7, <1>8, OtherMatches
<1>9. n >= Cardinality(MatchesOf(d, l)) \/ n < Cardinality(MatchesOf(d, l))
  <2>1. MatchesOf(d, l) \in SUBSET DOMAIN d.matches /\ IsFiniteSet(DOMAIN d.matches)
    BY DEF MatchesOf, Keyed, Serial, Finite
  <2>2. Cardinality(MatchesOf(d, l)) \in Nat
    BY <2>1, FS_Subset, FS_CardinalityType
  <2>. QED BY <2>2
<1>10. Framed(d, SetPosition(d, i, n).db)
  BY <1>1, <1>8, <1>9, FrameSame
<1>. QED BY <1>10 DEF Framed, Kept

LEMMA PatchMatchFramed ==
    ASSUME NEW d, Keyed(d), NEW l, NEW n, NEW x, NEW to \in Nat, NEW first \in BOOLEAN
    PROVE  Framed(d, PatchMatch(d, l, n, x, to, first).db)
<1> DEFINE i == Min(At(d, l, n))
           named == [d EXCEPT !.matches[i].pattern = x]
           placed == SetPosition(d, i, to).db
<1>1. CASE At(d, l, n) = {}
  BY <1>1, FrameSame DEF PatchMatch, Refused
<1>2. CASE At(d, l, n) # {}
  <2>1. i \in DOMAIN d.matches
    <3>1. At(d, l, n) \in SUBSET DOMAIN d.matches /\ DOMAIN d.matches \subseteq Nat
      BY DEF At, MatchesOf, Keyed, Serial, Finite, Number
    <3> DEFINE S == At(d, l, n)
    <3> HIDE DEF S
    <3>2. S \in SUBSET Nat /\ S # {}
      BY <1>2, <3>1 DEF S
    <3>3. \E k \in S : \A m \in S : k =< m
      BY <3>2, Least
    <3>4. Min(S) \in S
      BY <3>3 DEF Min
    <3>. QED BY <3>1, <3>4 DEF S
  <2>2. PatchMatch(d, l, n, x, to, first).db
           \in {d, placed, SetPosition(named, i, to).db, [placed EXCEPT !.matches[i].pattern = x]}
    BY <1>2 DEF PatchMatch, Failed, Done
  <2> HIDE DEF i
  <2>3. Framed(d, placed) /\ Keyed(placed)
    BY <2>1, SetPositionFramed
  <2>4. Framed(d, named) /\ Keyed(named) /\ DOMAIN named.matches = DOMAIN d.matches
    BY PatternFramed
  <2> HIDE DEF named, placed
  <2>5. Framed(named, SetPosition(named, i, to).db)
    BY <2>1, <2>4, SetPositionFramed
  <2>6. Framed(placed, [placed EXCEPT !.matches[i].pattern = x])
    BY <2>3, PatternFramed
  <2>7. /\ Framed(d, SetPosition(named, i, to).db)
        /\ Framed(d, [placed EXCEPT !.matches[i].pattern = x])
    BY <2>3, <2>4, <2>5, <2>6, FrameTransitive
  <2>. QED BY <2>2, <2>3, <2>7, FrameSame
<1>. QED BY <1>1, <1>2

--------------------------------------------------------------------------------
(***************************************************************************)
(* The rest of what is done to lists and domains.                          *)
(***************************************************************************)
Left(u, t, ks) == DOMAIN u = DOMAIN t \ ks /\ \A k \in DOMAIN u : u[k] = t[k]

LEMMA DropLeft ==
    ASSUME NEW t, NEW ks
    PROVE  Left(Drop(t, ks), t, ks)
<1>1. DOMAIN Drop(t, ks) = DOMAIN t \ ks
  BY DropFields, Zenon
<1>2. \A k \in DOMAIN Drop(t, ks) : Drop(t, ks)[k] = t[k]
  BY DropRows, Zenon
<1>. QED BY <1>1, <1>2 DEF Left

(* Lists go with what belongs to them.                                     *)
LEMMA DeleteListsKept ==
    ASSUME NEW d, Keyed(d), NEW ls
    PROVE  LET c == DeleteLists(d, ls)
           IN  /\ Kept(d, c) /\ SameCache(d, c) /\ c.domains = d.domains
               /\ c.owners = d.owners
               /\ DOMAIN c.lists = DOMAIN d.lists \ ls
<1> DEFINE c == DeleteLists(d, ls)
           parts == {"aliases", "archivers", "matches"}
<1>1. /\ c.lists = Drop(d.lists, ls)
      /\ c.members = Drop(d.members, FindMembers(d, ls))
      /\ c.bans = Drop(d.bans, ls \X Emails)
      /\ \A n \in parts : c[n] = Drop(d[n], PartsOf(d[n], ls))
      /\ \A n \in Tables \ (parts \cup {"lists", "members", "bans"}) : c[n] = d[n]
      /\ HasTables(c)
  BY DEF DeleteLists, Keyed, HasTables, Tables
<1> HIDE DEF c
<1>2. \A n \in Tables : \E ks : c[n] = Drop(d[n], ks) \/ c[n] = d[n]
  BY <1>1 DEF Tables
<1>3. ASSUME NEW n \in Serial PROVE Finite(DOMAIN c[n])
  BY <1>2, DropFinite DEF Serial, Tables, Keyed
<1>4. Keyed(c)
  BY <1>1, <1>3 DEF Keyed
<1>5. ASSUME Rows(d), NEW n \in Tables PROVE TableOK(n, c[n])
  BY <1>2, <1>5, DropOK DEF Rows
<1>6. Rows(d) => Rows(c)
  BY <1>5 DEF Rows
<1>7. /\ DOMAIN c.lists = DOMAIN d.lists \ ls
      /\ DOMAIN c.members = DOMAIN d.members \ FindMembers(d, ls)
      /\ \A i \in DOMAIN c.members : c.members[i] = d.members[i]
  <2>1. Left(c.lists, d.lists, ls) /\ Left(c.members, d.members, FindMembers(d, ls))
    BY <1>1, DropLeft
  <2>. QED BY <2>1 DEF Left
<1>8. ASSUME NEW n \in parts
      PROVE  /\ DOMAIN c[n] = DOMAIN d[n] \ PartsOf(d[n], ls)
             /\ \A k \in DOMAIN c[n] : c[n][k] = d[n][k]
  <2>1. Left(c[n], d[n], PartsOf(d[n], ls))
    BY <1>1, DropLeft
  <2>. QED BY <2>1 DEF Left
<1>9. /\ c.users = d.users /\ c.addresses = d.addresses
      /\ c.domains = d.domains /\ c.owners = d.owners /\ SameCache(d, c)
  BY <1>1 DEF SameCache, Tables
<1>10. ASSUME Sound(d) PROVE ForeignKeys(c) /\ ListsFound(c)
  <2>1. UsersFound(c)
    BY <1>9, <1>10 DEF Sound, ForeignKeys, UsersFound
  <2>2. AddressesFound(c)
    BY <1>7, <1>9, <1>10 DEF Sound, ForeignKeys, AddressesFound, Known
  <2>3. ASSUME NEW n \in parts, NEW k \in DOMAIN c[n]
        PROVE  c[n][k].list \in DOMAIN c.lists
    <3>1. k \in DOMAIN d[n] /\ k \notin PartsOf(d[n], ls) /\ c[n][k] = d[n][k]
      BY <1>8
    <3>2. d[n][k].list \in DOMAIN d.lists
      BY <1>10, <3>1 DEF Sound, ForeignKeys, PartsFound
    <3>. QED BY <1>7, <3>1, <3>2 DEF PartsOf
  <2>4. PartsFound(c)
    BY <2>3 DEF PartsFound
  <2>5. ASSUME NEW i \in DOMAIN c.members PROVE c.members[i].list \in DOMAIN c.lists
    <3>1. i \in DOMAIN d.members /\ i \notin FindMembers(d, ls) /\ c.members[i] = d.members[i]
      BY <1>7
    <3>2. Known(d, d.members[i].email) /\ d.members[i].list \in DOMAIN d.lists
      BY <1>10, <3>1 DEF Sound, ForeignKeys, AddressesFound, ListsFound
    <3>. QED BY <1>7, <3>1, <3>2 DEF FindMembers
  <2>. QED BY <2>1, <2>2, <2>4, <2>5 DEF ForeignKeys, ListsFound
<1>11. ASSUME Sound(d) PROVE Gapless(c)
  <2>1. Consecutive(d.matches)
    BY <1>11 DEF Sound, Gapless
  <2>2. /\ DOMAIN c.matches = DOMAIN d.matches \ PartsOf(d.matches, ls)
        /\ \A k \in DOMAIN c.matches : c.matches[k] = d.matches[k]
    BY <1>8
  <2>3. ASSUME NEW l PROVE \E b \in Nat : UpTo(c.matches, l, b)
    <3>1. CASE l \in ls
      <4>1. OfList(c.matches, l) = {}
        BY <2>2, <3>1 DEF OfList, PartsOf
      <4>2. UpTo(c.matches, l, 0)
        BY <4>1 DEF UpTo
      <4>. QED BY <4>2
    <3>2. CASE l \notin ls
      <4>1. OfList(c.matches, l) = OfList(d.matches, l)
        BY <2>2, <3>2 DEF OfList, PartsOf
      <4>2. \A k \in OfList(d.matches, l) : c.matches[k].position = d.matches[k].position
        BY <2>2, <4>1 DEF OfList
      <4>. QED BY <2>1, <4>1, <4>2, OtherListUpTo
    <3>. QED BY <3>1, <3>2
  <2>. QED BY <2>3 DEF Gapless, Consecutive
<1>12. Rosters(d) => Rosters(c)
  <2>1. Distinct(d.members) => Distinct(c.members)
    BY <1>7 DEF Distinct
  <2>. QED BY <2>1, RostersAre
<1>13. Kept(d, c)
  BY <1>4, <1>6, <1>10, <1>11, <1>12 DEF Kept, Sound
<1>. QED BY <1>7, <1>9, <1>13 DEF c

LEMMA RemoveDomainKept ==
    ASSUME NEW d, Keyed(d), NEW domain
    PROVE  LET c == RemoveDomain(d, domain).db
           IN  Kept(d, c) /\ SameCache(d, c)
<1> DEFINE ls == {l \in DOMAIN d.lists : DomainOf[l] = domain}
           b == DeleteLists(d, ls)
           c == RemoveDomain(d, domain).db
           gone == {o \in DOMAIN d.owners : o[1] = domain}
<1>1. Kept(d, b) /\ SameCache(d, b) /\ b.domains = d.domains /\ b.owners = d.owners
  BY DeleteListsKept
<1>2. c = [b EXCEPT !.domains = Drop(@, {domain}),
                    !.owners = Drop(@, {o \in DOMAIN @ : o[1] = domain})]
  BY DEF RemoveDomain, Done
<1> HIDE DEF b, c
<1>a. Keyed(b)
  BY <1>1 DEF Kept
<1>3. /\ c.domains = Drop(d.domains, {domain}) /\ c.owners = Drop(d.owners, gone)
      /\ \A n \in Tables \ {"domains", "owners"} : c[n] = b[n]
      /\ HasTables(c)
  BY <1>1, <1>2, <1>a DEF Keyed, HasTables, Tables
<1>4. Keyed(c)
  BY <1>3, <1>a DEF Keyed, Serial, Tables
<1>5. ASSUME Rows(b) PROVE Rows(c)
  <2>1. TableOK("domains", c.domains) /\ TableOK("owners", c.owners)
    BY <1>1, <1>3, <1>5, DropOK DEF Rows, Tables
  <2>2. \A n \in Tables \ {"domains", "owners"} : TableOK(n, c[n])
    BY <1>3, <1>5 DEF Rows
  <2>. QED BY <2>1, <2>2 DEF Rows
<1>6. DOMAIN c.domains = DOMAIN d.domains \ {domain} /\ DOMAIN c.owners = DOMAIN d.owners \ gone
  <2>1. Left(c.domains, d.domains, {domain}) /\ Left(c.owners, d.owners, gone)
    BY <1>3, DropLeft
  <2>. QED BY <2>1 DEF Left
<1>7. /\ c.users = b.users /\ c.addresses = b.addresses /\ c.members = b.members
      /\ c.lists = b.lists /\ c.matches = b.matches /\ SameCache(b, c)
  BY <1>3 DEF SameCache, Tables
<1>8. ASSUME Sound(b) PROVE ForeignKeys(c) /\ ListsFound(c)
  <2>1. UsersFound(c)
    <3>1. \A o \in DOMAIN d.owners : o[2] \in DOMAIN b.users /\ o[1] \in DOMAIN d.domains
      BY <1>1, <1>8 DEF Sound, ForeignKeys, UsersFound
    <3>2. \A o \in DOMAIN c.owners : o[2] \in DOMAIN c.users /\ o[1] \in DOMAIN c.domains
      BY <1>6, <1>7, <3>1
    <3>. QED BY <1>7, <1>8, <3>2 DEF Sound, ForeignKeys, UsersFound
  <2>2. AddressesFound(c)
    BY <1>7, <1>8 DEF Sound, ForeignKeys, AddressesFound, Known
  <2>3. PartsFound(c)
    BY <1>3, <1>7, <1>8 DEF Sound, ForeignKeys, PartsFound, Tables
  <2>4. ListsFound(c)
    BY <1>7, <1>8 DEF Sound, ListsFound
  <2>. QED BY <2>1, <2>2, <2>3, <2>4 DEF ForeignKeys
<1>9. Kept(b, c)
  BY <1>4, <1>5, <1>7, <1>8, GaplessSame, RostersSame DEF Kept, Sound
<1>10. Kept(d, c) /\ SameCache(d, c)
  BY <1>1, <1>7, <1>9, KeptTransitive DEF SameCache
<1>. QED BY <1>10 DEF c

LEMMA SettingFramed ==
    ASSUME NEW d, Keyed(d), NEW l, NEW key, NEW value
    PROVE  LET c == [d EXCEPT !.lists[l][key] = value]
           IN  Framed(d, c) /\ Keyed(c)
<1> DEFINE t == [d.lists EXCEPT ![l][key] = value]
<1>1. DOMAIN t = DOMAIN d.lists /\ TableOK("lists", t)
  BY DEF TableOK, Function, RowOK, Columns
<1> HIDE DEF t
<1>2. Framed(d, [d EXCEPT !.lists = t])
  BY <1>1, OtherLists
<1>. QED BY <1>2 DEF t, Framed, Kept

LEMMA PartRow ==
    ASSUME NEW l
    PROVE  /\ RowOK("aliases", [list |-> l])
           /\ \A on : RowOK("archivers", [list |-> l, enabled |-> on])
  BY DEF RowOK, Columns

LEMMA ClearAliasesFramed ==
    ASSUME NEW d, Keyed(d), NEW l
    PROVE  Framed(d, ClearAliases(d, l)) /\ Keyed(ClearAliases(d, l))
<1> DEFINE t == Drop(d.aliases, AliasesOf(d, l))
<1>1. ClearAliases(d, l) = [d EXCEPT !["aliases"] = t]
  BY DEF ClearAliases
<1>2. Left(t, d.aliases, AliasesOf(d, l))
  BY DropLeft
<1>3. Rows(d) => TableOK("aliases", t)
  BY DropOK DEF Rows, Tables
<1> HIDE DEF t
<1>4. ASSUME Sound(d), NEW k \in DOMAIN t PROVE t[k].list \in DOMAIN d.lists
  BY <1>2, <1>4 DEF Left, Sound, ForeignKeys, PartsFound
<1>5. Framed(d, [d EXCEPT !["aliases"] = t])
  BY <1>3, <1>4, OtherParts
<1>. QED BY <1>1, <1>5 DEF Framed, Kept

LEMMA WithAliasesFramed ==
    ASSUME NEW d, Keyed(d), NEW l \in DOMAIN d.lists, NEW as
    PROVE  Framed(d, WithAliases(d, l, as)) /\ Keyed(WithAliases(d, l, as))
<1> DEFINE row == [list |-> l]
           t == PutAll(d.aliases, {l} \X as, row)
<1>1. WithAliases(d, l, as) = [d EXCEPT !["aliases"] = t]
  BY DEF WithAliases
<1>2. Rows(d) => TableOK("aliases", t)
  BY PartRow, PutOK DEF Rows, Tables
<1>3. row.list = l
  OBVIOUS
<1> HIDE DEF row
<1>4. \A k \in DOMAIN t : t[k] = row \/ (k \in DOMAIN d.aliases /\ t[k] = d.aliases[k])
  BY DEF PutAll
<1> HIDE DEF t
<1>5. ASSUME Sound(d), NEW k \in DOMAIN t PROVE t[k].list \in DOMAIN d.lists
  BY <1>3, <1>4, <1>5 DEF Sound, ForeignKeys, PartsFound
<1>6. Framed(d, [d EXCEPT !["aliases"] = t])
  BY <1>2, <1>5, OtherParts
<1>. QED BY <1>1, <1>6 DEF Framed, Kept

LEMMA PutAliasesFramed ==
    ASSUME NEW d, Keyed(d), NEW l \in DOMAIN d.lists, NEW values
    PROVE  Framed(d, PutAliases(d, l, values).db)
<1> DEFINE b == ClearAliases(d, l)
<1>1. Framed(d, b) /\ Keyed(b)
  BY ClearAliasesFramed
<1>2. \E as : PutAliases(d, l, values).db = WithAliases(b, l, as)
  BY DEF PutAliases, Done, Refused
<1> HIDE DEF b
<1>3. l \in DOMAIN b.lists
  BY <1>1 DEF Framed, SamePlaces
<1>4. \A as : Framed(b, WithAliases(b, l, as))
  BY <1>1, <1>3, WithAliasesFramed
<1>. QED BY <1>1, <1>2, <1>4, FrameTransitive

LEMMA AskArchiversFramed ==
    ASSUME NEW d, Keyed(d), NEW l \in DOMAIN d.lists, NEW p
    PROVE  LET c == AskArchivers(d, l, p).db
           IN  Framed(d, c) /\ Keyed(c)
<1> DEFINE row == [list |-> l, enabled |-> TRUE]
           t == PutAll(d.archivers, {<<l, p>>}, row)
<1>1. AskArchivers(d, l, p).db \in {d, [d EXCEPT !["archivers"] = t]}
  BY DEF AskArchivers, Failed, Done, Put
<1>2. Rows(d) => TableOK("archivers", t)
  BY PartRow, PutOK DEF Rows, Tables
<1>3. row.list = l
  OBVIOUS
<1> HIDE DEF row
<1>4. \A k \in DOMAIN t : t[k] = row \/ (k \in DOMAIN d.archivers /\ t[k] = d.archivers[k])
  BY DEF PutAll
<1> HIDE DEF t
<1>5. ASSUME Sound(d), NEW k \in DOMAIN t PROVE t[k].list \in DOMAIN d.lists
  BY <1>3, <1>4, <1>5 DEF Sound, ForeignKeys, PartsFound
<1>6. Framed(d, [d EXCEPT !["archivers"] = t])
  BY <1>2, <1>5, OtherParts
<1>7. Framed(d, AskArchivers(d, l, p).db)
  BY <1>1, <1>6, FrameSame
<1>. QED BY <1>7 DEF Framed, Kept

LEMMA SetArchiverFramed ==
    ASSUME NEW d, Keyed(d), NEW l \in DOMAIN d.lists, NEW p, NEW on
    PROVE  Framed(d, SetArchiver(d, l, p, on).db)
<1> DEFINE b == AskArchivers(d, l, p).db
           t == [k \in DOMAIN b.archivers |->
                    IF k[1] = l THEN [b.archivers[k] EXCEPT !.enabled = on]
                    ELSE b.archivers[k]]
<1>1. SetArchiver(d, l, p, on).db \in {b, [b EXCEPT !["archivers"] = t]}
  BY DEF SetArchiver, Done
<1>2. Framed(d, b) /\ Keyed(b)
  BY AskArchiversFramed
<1> HIDE DEF b
<1>3. DOMAIN t = DOMAIN b.archivers /\ Function(t)
  BY DEF Function
<1>4. ASSUME Rows(b), NEW k \in DOMAIN t
      PROVE  RowOK("archivers", t[k]) /\ t[k].list = b.archivers[k].list
  <2>1. b.archivers[k] = [c \in {"list", "enabled"} |-> b.archivers[k][c]]
    BY <1>3, <1>4 DEF Rows, TableOK, RowOK, Columns, Tables
  <2>2. t[k] = b.archivers[k] \/ t[k] = [b.archivers[k] EXCEPT !.enabled = on]
    BY <1>3, <1>4
  <2> HIDE DEF t
  <2>3. t[k] = [c \in {"list", "enabled"} |-> t[k][c]] /\ t[k].list = b.archivers[k].list
    BY <2>1, <2>2
  <2>. QED BY <2>3 DEF RowOK, Columns
<1> HIDE DEF t
<1>5. Rows(b) => TableOK("archivers", t)
  BY <1>3, <1>4 DEF TableOK
<1>6. ASSUME Sound(b), NEW k \in DOMAIN t PROVE t[k].list \in DOMAIN b.lists
  BY <1>3, <1>4, <1>6 DEF Sound, ForeignKeys, PartsFound
<1>7. Framed(b, [b EXCEPT !["archivers"] = t])
  BY <1>2, <1>5, <1>6, OtherParts
<1>. QED BY <1>1, <1>2, <1>7, FrameTransitive

LEMMA BansFramed ==
    ASSUME NEW d, Keyed(d), NEW where, NEW e
    PROVE  Framed(d, PostBan(d, where, e).db) /\ Framed(d, DeleteBan(d, where, e).db)
<1> DEFINE t == PutAll(d.bans, {<<where, e>>}, Row)
           u == Drop(d.bans, {<<where, e>>})
<1>1. /\ PostBan(d, where, e).db \in {d, [d EXCEPT !.bans = t]}
      /\ DeleteBan(d, where, e).db = [d EXCEPT !.bans = u]
  BY DEF PostBan, DeleteBan, Ban, Refused, Done, Put
<1>2. Function(t) /\ Function(u)
  BY PutFields, DropFields
<1> HIDE DEF t, u
<1>3. Framed(d, [d EXCEPT !.bans = t])
  BY <1>2, OtherBans
<1>4. Framed(d, [d EXCEPT !.bans = u])
  BY <1>2, OtherBans
<1>. QED BY <1>1, <1>3, <1>4, FrameSame

--------------------------------------------------------------------------------
(***************************************************************************)
(* What requests do one after another: the function that Through takes     *)
(* exists, and what each step keeps, all keep.  Step stands for the        *)
(* operators that the model applies.                                       *)
(***************************************************************************)
Step(kind, r, x, l, role, old, taken) ==
    CASE kind = "owner" -> AddOwner(r, l, x, taken)
      [] kind = "list owner" -> AddListOwner(r, l, x, taken)
      [] kind = "attribute" -> PutAttribute(r, l, x)
      [] kind = "setting" -> ImportSetting(r, l, x)
      [] kind = "filter" -> ImportFilter(r, l, x, taken)
      [] kind = "member" -> ImportOne(r, l, role, x, old, taken)
DatabaseOf(kind, r) ==
    CASE kind = "filter" -> r [] kind = "member" -> r.r.db [] OTHER -> r.db
Kinds == {"owner", "list owner", "attribute", "setting", "filter", "member"}

Trail(f, kind, r, s, N, l, role, old, taken) ==
    f = [n \in 0 .. N |-> IF n = 0 THEN r
                          ELSE Step(kind, f[n - 1], s[n], l, role, old, taken)]

LEMMA StepsExist ==
    ASSUME NEW kind, NEW r, NEW s, NEW l, NEW role, NEW old, NEW taken, NEW N \in Nat
    PROVE  \E f : Trail(f, kind, r, s, N, l, role, old, taken)
<1> DEFINE Has(m) == \E f : f = [n \in 0 .. m |->
                          IF n = 0 THEN r
                          ELSE Step(kind, f[n - 1], s[n], l, role, old, taken)]
           None == {m \in Nat : ~Has(m)}
<1>1. SUFFICES ASSUME None # {} PROVE FALSE
  BY DEF None, Trail
<1>2. None \in SUBSET Nat
  BY DEF None
<1>3. PICK m \in None : \A n \in None : m =< n
  <2> HIDE DEF None
  <2>. QED BY <1>1, <1>2, Least
<1>4. m # 0
  <2>1. [n \in 0 .. 0 |-> r] = [n \in 0 .. 0 |->
            IF n = 0 THEN r
            ELSE Step(kind, [k \in 0 .. 0 |-> r][n - 1], s[n], l, role, old, taken)]
    OBVIOUS
  <2>2. Has(0)
    BY <2>1
  <2>. QED BY <2>2, <1>3 DEF None
<1>5. Has(m - 1)
  <2>1. m \in Nat /\ m - 1 \in Nat /\ ~(m =< m - 1)
    BY <1>3, <1>4 DEF None
  <2>2. m - 1 \notin None
    BY <1>3, <2>1
  <2>. QED BY <2>1, <2>2 DEF None
<1>6. PICK f : f = [n \in 0 .. m - 1 |->
                          IF n = 0 THEN r
                          ELSE Step(kind, f[n - 1], s[n], l, role, old, taken)]
  BY <1>5
<1> DEFINE g == [n \in 0 .. m |-> IF n = m THEN Step(kind, f[m - 1], s[m], l, role, old, taken)
                                  ELSE f[n]]
<1>7. g = [n \in 0 .. m |->
                          IF n = 0 THEN r
                          ELSE Step(kind, g[n - 1], s[n], l, role, old, taken)]
  <2>1. ASSUME NEW n \in 0 .. m
        PROVE  g[n] = IF n = 0 THEN r
                      ELSE Step(kind, g[n - 1], s[n], l, role, old, taken)
    <3>1. m \in Nat
      BY <1>3 DEF None
    <3>2. CASE n = m
      <4>1. g[n] = Step(kind, f[m - 1], s[m], l, role, old, taken)
        BY <3>1, <3>2
      <4>2. m - 1 \in 0 .. m /\ m - 1 # m
        BY <1>4, <3>1
      <4>3. g[m - 1] = f[m - 1]
        BY <4>2
      <4>. QED BY <1>4, <3>2, <4>1, <4>3
    <3>3. CASE n # m
      <4>1. n \in 0 .. m - 1
        BY <3>1, <3>3
      <4>2. f[n] = IF n = 0 THEN r ELSE Step(kind, f[n - 1], s[n], l, role, old, taken)
        BY <1>6, <4>1
      <4>3. g[n] = f[n]
        BY <3>3
      <4>4. n # 0 => n - 1 \in 0 .. m /\ n - 1 # m
        BY <3>1, <4>1
      <4>5. n # 0 => g[n - 1] = f[n - 1]
        BY <4>4
      <4>. QED BY <4>2, <4>3, <4>5
    <3>. QED BY <3>2, <3>3
  <2>. QED BY <2>1
<1>8. Has(m)
  <2> HIDE DEF g
  <2>. QED BY <1>7
<1>. QED BY <1>3, <1>8 DEF None

Good(kind, b, r) ==
    Framed(b, DatabaseOf(kind, r)) /\ (kind = "member" => "r" \in DOMAIN r)
Fits(kind, b, l, taken) ==
    /\ kind \in Kinds /\ TakenOK(taken)
    /\ IF kind = "owner" THEN l \in DOMAIN b.domains ELSE l \in DOMAIN b.lists

LEMMA AddOwnerFramed ==
    ASSUME NEW r, Keyed(r.db), NEW domain \in DOMAIN r.db.domains, NEW e,
           NEW taken, TakenOK(taken)
    PROVE  Framed(r.db, AddOwner(r, domain, e, taken).db)
<1> DEFINE d == r.db
           made == MakeUser(d, e, taken)
           u == UserOf(made, e)
           t == PutAll(made.owners, {<<domain, u>>}, Row)
<1>1. AddOwner(r, domain, e, taken).db \in {d, [made EXCEPT !.owners = t]}
  BY DEF AddOwner, Failed, Done, Put
<1>2. Framed(d, made) /\ Keyed(made) /\ (Sound(d) => u \in DOMAIN made.users)
  BY MakesUser
<1> HIDE DEF made, u
<1>3. Rows(made) => TableOK("owners", t)
  <2>1. RowOK("owners", Row)
    BY DEF RowOK, Columns
  <2>. QED BY <2>1, PutOK DEF Rows, Tables
<1>4. DOMAIN t = DOMAIN made.owners \cup {<<domain, u>>}
  BY DEF PutAll
<1> HIDE DEF t
<1>5. domain \in DOMAIN made.domains
  BY <1>2 DEF Framed, SamePlaces
<1>6. ASSUME Sound(d), NEW o \in DOMAIN t
      PROVE  o[2] \in DOMAIN made.users /\ o[1] \in DOMAIN made.domains
  <2>1. CASE o = <<domain, u>>
    BY <1>2, <1>5, <1>6, <2>1
  <2>2. CASE o \in DOMAIN made.owners
    BY <1>2, <1>6, <2>2 DEF Framed, Kept, Sound, ForeignKeys, UsersFound
  <2>. QED BY <1>4, <2>1, <2>2
<1>7. Framed(d, [made EXCEPT !.owners = t])
  BY <1>2, <1>3, <1>6, OtherOwners
<1>. QED BY <1>1, <1>7, FrameSame

LEMMA AddListOwnerFramed ==
    ASSUME NEW r, Keyed(r.db), NEW l \in DOMAIN r.db.lists, NEW e, NEW taken, TakenOK(taken)
    PROVE  Framed(r.db, AddListOwner(r, l, e, taken).db)
<1> DEFINE d == r.db
           made == IF Known(d, e) THEN d ELSE MakeUser(d, e, taken)
           joined == Subscribe(made, l, "owner", e, taken)
<1>1. AddListOwner(r, l, e, taken).db \in {d, joined.db}
  BY DEF AddListOwner, Failed
<1>2. Framed(d, made) /\ Keyed(made) /\ Known(made, e)
  BY MakesUser, FrameSame
<1> HIDE DEF made
<1>3. l \in DOMAIN made.lists
  BY <1>2 DEF Framed, SamePlaces
<1>4. Framed(made, joined.db)
  BY <1>2, <1>3, SubscribeFramed
<1>. QED BY <1>1, <1>2, <1>4, FrameSame, FrameTransitive

LEMMA PutAttributeFramed ==
    ASSUME NEW r, Keyed(r.db), NEW l \in DOMAIN r.db.lists, NEW item
    PROVE  Framed(r.db, PutAttribute(r, l, item).db)
<1>1. PutAttribute(r, l, item).db
         \in {r.db, PutAliases(r.db, l, item[2]).db,
              [r.db EXCEPT !.lists[l]["description"] = item[2]]}
  BY DEF PutAttribute, Done
<1>2. Framed(r.db, [r.db EXCEPT !.lists[l]["description"] = item[2]])
  BY SettingFramed
<1>3. Framed(r.db, PutAliases(r.db, l, item[2]).db)
  BY PutAliasesFramed
<1>. QED BY <1>1, <1>2, <1>3, FrameSame

LEMMA ImportSettingFramed ==
    ASSUME NEW r, Keyed(r.db), NEW l, NEW item
    PROVE  Framed(r.db, ImportSetting(r, l, item).db)
<1> DEFINE key == NameMapping(item[1])
           value == Converted(key, item[2])
<1>1. ImportSetting(r, l, item).db \in {r.db, [r.db EXCEPT !.lists[l][key] = value]}
  BY DEF ImportSetting, Failed, Done
<1> HIDE DEF key, value
<1>2. Framed(r.db, [r.db EXCEPT !.lists[l][key] = value])
  BY SettingFramed
<1>. QED BY <1>1, <1>2, FrameSame

LEMMA ImportFilterFramed ==
    ASSUME NEW d, Keyed(d), NEW l \in DOMAIN d.lists, NEW filter, NEW taken, TakenOK(taken)
    PROVE  Framed(d, ImportFilter(d, l, filter, taken))
  BY AppendMatchFramed, FrameSame DEF ImportFilter

LEMMA ImportOneFramed ==
    ASSUME NEW acc, "r" \in DOMAIN acc, Keyed(acc.r.db), NEW l \in DOMAIN acc.r.db.lists,
           NEW role, NEW entry, NEW old, NEW taken, TakenOK(taken)
    PROVE  LET result == ImportOne(acc, l, role, entry, old, taken)
           IN  Framed(acc.r.db, result.r.db) /\ "r" \in DOMAIN result
<1> DEFINE d == acc.r.db
           e == entry.email
           linked == MakeUser(d, e, taken)
           made == IF Known(d, e) THEN linked ELSE SetVerified(linked, e, TRUE)
           joined == Subscribe(made, l, role, e, taken)
           i == Unused(made.members, taken.members)
           result == ImportOne(acc, l, role, entry, old, taken)
<1>1. /\ \/ result.r.db = d
         \/ result.r.db = joined.db
         \/ \E a : result.r.db = [joined.db EXCEPT !.members[i].action = a]
      /\ "r" \in DOMAIN result
  <2> DEFINE action == CASE entry.option = "absent" -> acc.action
                         [] entry.option = "moderated" -> MemberAction(old.moderation)
                         [] OTHER -> "defer"
  <2>1. \/ result = acc
        \/ result = [acc EXCEPT !.r = Failed(d)]
        \/ result = [acc EXCEPT !.r = joined]
        \/ \E a : result = [r |-> Done([joined.db EXCEPT !.members[i].action = a]),
                            action |-> a]
    <3> DEFINE failed == [acc EXCEPT !.r = Failed(d)]
               subscribed == [acc EXCEPT !.r = joined]
               decided(a) == [r |-> Done([joined.db EXCEPT !.members[i].action = a]),
                              action |-> a]
    <3>1. result = IF acc.r.status = "failed" \/ Memberships(d, l, role, e) # {} THEN acc
                   ELSE CASE action = "unknown" -> failed
                          [] action = "none" -> subscribed
                          [] OTHER -> decided(action)
      BY DEF ImportOne
    <3>2. result = acc \/ result = failed \/ result = subscribed \/ result = decided(action)
      <4> HIDE DEF result, action, joined, i, d, e, failed, subscribed, decided
      <4>. QED BY <3>1
    <3> HIDE DEF result, action, joined, i, d, e
    <3>. QED BY <3>2
  <2> HIDE DEF result, joined, i, d
  <2>2. CASE result = acc
    BY <2>2 DEF d
  <2>3. CASE result = [acc EXCEPT !.r = Failed(d)]
    BY <2>3 DEF Failed
  <2>4. CASE result = [acc EXCEPT !.r = joined]
    BY <2>4
  <2>5. ASSUME NEW a, result = [r |-> Done([joined.db EXCEPT !.members[i].action = a]),
                                action |-> a]
        PROVE  result.r.db = [joined.db EXCEPT !.members[i].action = a] /\ "r" \in DOMAIN result
    BY <2>5 DEF Done
  <2>. QED BY <2>1, <2>2, <2>3, <2>4, <2>5, Zenon
<1>2. Framed(d, linked) /\ Keyed(linked) /\ Known(linked, e)
  BY MakesUser
<1> HIDE DEF linked
<1>3. Framed(d, made) /\ Keyed(made) /\ Known(made, e)
  BY <1>2, SetVerifiedFramed, FrameTransitive
<1> HIDE DEF made, i
<1>4. l \in DOMAIN made.lists
  BY <1>3 DEF Framed, SamePlaces
<1>5. Framed(made, joined.db) /\ Keyed(joined.db)
  BY <1>3, <1>4, SubscribeFramed
<1> HIDE DEF joined
<1>6. Framed(d, joined.db)
  BY <1>3, <1>5, FrameTransitive
<1>7. \A a : Framed(d, [joined.db EXCEPT !.members[i].action = a])
  BY <1>5, <1>6, ActionFramed, FrameTransitive
<1>. QED BY <1>1, <1>6, <1>7, FrameSame

LEMMA StepKeeps ==
    ASSUME NEW kind, NEW b, NEW r, Good(kind, b, r), NEW x, NEW l, NEW role, NEW old,
           NEW taken, Fits(kind, b, l, taken)
    PROVE  Good(kind, b, Step(kind, r, x, l, role, old, taken))
<1> DEFINE d == DatabaseOf(kind, r)
           q == Step(kind, r, x, l, role, old, taken)
<1>1. Framed(b, d) /\ Keyed(d) /\ TakenOK(taken) /\ kind \in Kinds
  BY DEF Good, Fits, Framed, Kept
<1>2. /\ kind = "owner" => l \in DOMAIN d.domains
      /\ kind # "owner" => l \in DOMAIN d.lists
  BY <1>1 DEF Framed, SamePlaces, Fits
<1>3. Framed(d, DatabaseOf(kind, q)) /\ (kind = "member" => "r" \in DOMAIN q)
  <2>1. CASE kind = "owner"
    <3>1. d = r.db /\ q = AddOwner(r, l, x, taken) /\ DatabaseOf(kind, q) = q.db
      BY <2>1 DEF DatabaseOf, Step
    <3> HIDE DEF d, q
    <3>. QED BY <1>1, <1>2, <2>1, <3>1, AddOwnerFramed
  <2>2. CASE kind = "list owner"
    <3>1. d = r.db /\ q = AddListOwner(r, l, x, taken) /\ DatabaseOf(kind, q) = q.db
      BY <2>2 DEF DatabaseOf, Step
    <3> HIDE DEF d, q
    <3>. QED BY <1>1, <1>2, <2>2, <3>1, AddListOwnerFramed
  <2>3. CASE kind = "attribute"
    <3>1. d = r.db /\ q = PutAttribute(r, l, x) /\ DatabaseOf(kind, q) = q.db
      BY <2>3 DEF DatabaseOf, Step
    <3> HIDE DEF d, q
    <3>. QED BY <1>1, <1>2, <2>3, <3>1, PutAttributeFramed
  <2>4. CASE kind = "setting"
    <3>1. d = r.db /\ q = ImportSetting(r, l, x) /\ DatabaseOf(kind, q) = q.db
      BY <2>4 DEF DatabaseOf, Step
    <3> HIDE DEF d, q
    <3>. QED BY <1>1, <2>4, <3>1, ImportSettingFramed
  <2>5. CASE kind = "filter"
    <3>1. d = r /\ q = ImportFilter(r, l, x, taken) /\ DatabaseOf(kind, q) = q
      BY <2>5 DEF DatabaseOf, Step
    <3> HIDE DEF d, q
    <3>. QED BY <1>1, <1>2, <2>5, <3>1, ImportFilterFramed
  <2>6. CASE kind = "member"
    <3>1. /\ d = r.r.db /\ q = ImportOne(r, l, role, x, old, taken)
          /\ DatabaseOf(kind, q) = q.r.db /\ "r" \in DOMAIN r
      BY <2>6 DEF DatabaseOf, Step, Good
    <3> HIDE DEF d, q
    <3>. QED BY <1>1, <1>2, <2>6, <3>1, ImportOneFramed
  <2>. QED BY <1>1, <2>1, <2>2, <2>3, <2>4, <2>5, <2>6 DEF Kinds
<1> HIDE DEF d
<1>4. Framed(b, DatabaseOf(kind, q))
  BY <1>1, <1>3, FrameTransitive
<1>. QED BY <1>3, <1>4 DEF Good

LEMMA StepsKeep ==
    ASSUME NEW kind, NEW b, NEW r, Good(kind, b, r), NEW s, NEW l, NEW role, NEW old,
           NEW taken, Fits(kind, b, l, taken), NEW N \in Nat,
           NEW f, Trail(f, kind, r, s, N, l, role, old, taken)
    PROVE  Good(kind, b, f[N])
<1> DEFINE Bad == {n \in 0 .. N : ~Good(kind, b, f[n])}
<1>1. SUFFICES ASSUME Bad # {} PROVE FALSE
  BY DEF Bad
<1>2. Bad \in SUBSET Nat
  BY DEF Bad
<1>3. PICK n \in Bad : \A m \in Bad : n =< m
  <2> HIDE DEF Bad
  <2>. QED BY <1>1, <1>2, Least
<1>4. n \in 0 .. N /\ ~Good(kind, b, f[n])
  BY <1>3 DEF Bad
<1>5. f[n] = IF n = 0 THEN r ELSE Step(kind, f[n - 1], s[n], l, role, old, taken)
  BY <1>4 DEF Trail
<1>6. n # 0
  BY <1>4, <1>5
<1>7. n - 1 \in 0 .. N /\ ~(n =< n - 1)
  BY <1>4, <1>6
<1>8. Good(kind, b, f[n - 1])
  BY <1>3, <1>7 DEF Bad
<1>9. Good(kind, b, Step(kind, f[n - 1], s[n], l, role, old, taken))
  BY <1>8, StepKeeps
<1>. QED BY <1>4, <1>5, <1>6, <1>9

(* The operators that take Through.                                        *)
LEMMA AddOwnersFramed ==
    ASSUME NEW b, Keyed(b), NEW domain \in DOMAIN b.domains, NEW s, Len(s) \in Nat,
           NEW taken, TakenOK(taken)
    PROVE  Framed(b, AddOwners(b, domain, s, taken).db)
<1> DEFINE f == CHOOSE f : f = [n \in 0 .. Len(s) |->
                 IF n = 0 THEN Done(b)
                 ELSE AddOwner(f[n - 1], domain, s[n], taken)]
<1>1. f = [n \in 0 .. Len(s) |->
          IF n = 0 THEN Done(b)
          ELSE AddOwner(f[n - 1], domain, s[n], taken)]
  <2>a. \E f0 : Trail(f0, "owner", Done(b), s, Len(s), domain, "none", "none", taken)
    BY StepsExist
  <2>1. PICK f0 : Trail(f0, "owner", Done(b), s, Len(s), domain, "none", "none", taken)
    BY <2>a
  <2>2. f0 = [n \in 0 .. Len(s) |->
              IF n = 0 THEN Done(b)
              ELSE AddOwner(f0[n - 1], domain, s[n], taken)]
    BY <2>1 DEF Step, Trail
  <2>. QED BY <2>2, Zenon
<1>2. AddOwners(b, domain, s, taken) = f[Len(s)]
  BY DEF AddOwners, Through
<1> HIDE DEF f
<1>3. Trail(f, "owner", Done(b), s, Len(s), domain, "none", "none", taken)
  BY <1>1 DEF Step, Trail
<1>4. Good("owner", b, Done(b)) /\ Fits("owner", b, domain, taken)
  BY FrameSame DEF Good, Fits, Kinds, DatabaseOf, Done
<1>5. Good("owner", b, f[Len(s)])
  BY <1>3, <1>4, StepsKeep
<1>. QED BY <1>2, <1>5 DEF Good, DatabaseOf

LEMMA PutConfigFramed ==
    ASSUME NEW b, Keyed(b), NEW l \in DOMAIN b.lists, NEW s, Len(s) \in Nat,
           NEW taken, TakenOK(taken)
    PROVE  Framed(b, PutConfig(b, l, s).db)
<1> DEFINE f == CHOOSE f : f = [n \in 0 .. Len(s) |->
                 IF n = 0 THEN Done(b)
                 ELSE PutAttribute(f[n - 1], l, s[n])]
<1>1. f = [n \in 0 .. Len(s) |->
          IF n = 0 THEN Done(b)
          ELSE PutAttribute(f[n - 1], l, s[n])]
  <2>a. \E f0 : Trail(f0, "attribute", Done(b), s, Len(s), l, "none", "none", taken)
    BY StepsExist
  <2>1. PICK f0 : Trail(f0, "attribute", Done(b), s, Len(s), l, "none", "none", taken)
    BY <2>a
  <2>2. f0 = [n \in 0 .. Len(s) |->
              IF n = 0 THEN Done(b)
              ELSE PutAttribute(f0[n - 1], l, s[n])]
    BY <2>1 DEF Step, Trail
  <2>. QED BY <2>2, Zenon
<1>2. PutConfig(b, l, s) = f[Len(s)]
  BY DEF PutConfig, Through
<1> HIDE DEF f
<1>3. Trail(f, "attribute", Done(b), s, Len(s), l, "none", "none", taken)
  BY <1>1 DEF Step, Trail
<1>4. Good("attribute", b, Done(b)) /\ Fits("attribute", b, l, taken)
  BY FrameSame DEF Good, Fits, Kinds, DatabaseOf, Done
<1>5. Good("attribute", b, f[Len(s)])
  BY <1>3, <1>4, StepsKeep
<1>. QED BY <1>2, <1>5 DEF Good, DatabaseOf

LEMMA ImportFiltersFramed ==
    ASSUME NEW b, Keyed(b), NEW l \in DOMAIN b.lists, NEW old, Len(old.filters) \in Nat,
           NEW taken, TakenOK(taken)
    PROVE  Framed(b, ImportFilters(b, l, old, taken))
<1> DEFINE s == old.filters
<1> DEFINE f == CHOOSE f : f = [n \in 0 .. Len(s) |->
                 IF n = 0 THEN b
                 ELSE ImportFilter(f[n - 1], l, s[n], taken)]
<1>1. f = [n \in 0 .. Len(s) |->
          IF n = 0 THEN b
          ELSE ImportFilter(f[n - 1], l, s[n], taken)]
  <2>a. \E f0 : Trail(f0, "filter", b, s, Len(s), l, "none", "none", taken)
    BY StepsExist
  <2>1. PICK f0 : Trail(f0, "filter", b, s, Len(s), l, "none", "none", taken)
    BY <2>a
  <2>2. f0 = [n \in 0 .. Len(s) |->
              IF n = 0 THEN b
              ELSE ImportFilter(f0[n - 1], l, s[n], taken)]
    BY <2>1 DEF Step, Trail
  <2>. QED BY <2>2, Zenon
<1>2. ImportFilters(b, l, old, taken) = f[Len(s)]
  BY DEF ImportFilters, Through
<1> HIDE DEF f
<1>3. Trail(f, "filter", b, s, Len(s), l, "none", "none", taken)
  BY <1>1 DEF Step, Trail
<1>4. Good("filter", b, b) /\ Fits("filter", b, l, taken)
  BY FrameSame DEF Good, Fits, Kinds, DatabaseOf, Done
<1>5. Good("filter", b, f[Len(s)])
  BY <1>3, <1>4, StepsKeep
<1>. QED BY <1>2, <1>5 DEF Good, DatabaseOf

LEMMA ImportRosterFramed ==
    ASSUME NEW b, Keyed(b), NEW r, r.db = b, NEW l \in DOMAIN b.lists, NEW role,
           NEW roster, Len(roster) \in Nat, NEW action, NEW old, NEW taken, TakenOK(taken)
    PROVE  Framed(b, ImportRoster(r, l, role, roster, action, old, taken).db)
<1> DEFINE acc == [r |-> r, action |-> action]
<1> DEFINE f == CHOOSE f : f = [n \in 0 .. Len(roster) |->
                 IF n = 0 THEN acc
                 ELSE ImportOne(f[n - 1], l, role, roster[n], old, taken)]
<1>1. f = [n \in 0 .. Len(roster) |->
          IF n = 0 THEN acc
          ELSE ImportOne(f[n - 1], l, role, roster[n], old, taken)]
  <2>a. \E f0 : Trail(f0, "member", acc, roster, Len(roster), l, role, old, taken)
    BY StepsExist
  <2>1. PICK f0 : Trail(f0, "member", acc, roster, Len(roster), l, role, old, taken)
    BY <2>a
  <2>2. f0 = [n \in 0 .. Len(roster) |->
              IF n = 0 THEN acc
              ELSE ImportOne(f0[n - 1], l, role, roster[n], old, taken)]
    BY <2>1 DEF Step, Trail
  <2>. QED BY <2>2, Zenon
<1>2. ImportRoster(r, l, role, roster, action, old, taken) = f[Len(roster)].r
  BY DEF ImportRoster, Through
<1> HIDE DEF f
<1>3. Trail(f, "member", acc, roster, Len(roster), l, role, old, taken)
  BY <1>1 DEF Step, Trail
<1>4. Good("member", b, acc) /\ Fits("member", b, l, taken)
  BY FrameSame DEF Good, Fits, Kinds, DatabaseOf, Done
<1>5. Good("member", b, f[Len(roster)])
  BY <1>3, <1>4, StepsKeep
<1>. QED BY <1>2, <1>5 DEF Good, DatabaseOf

LEMMA CreateDomainFramed ==
    ASSUME NEW d, Keyed(d), NEW domain, NEW s, Len(s) \in Nat, NEW taken, TakenOK(taken)
    PROVE  Framed(d, CreateDomain(d, domain, s, taken).db)
<1> DEFINE t == PutAll(d.domains, {domain}, Row)
           b == [d EXCEPT !.domains = t]
<1>1. CreateDomain(d, domain, s, taken).db \in {d, AddOwners(b, domain, s, taken).db}
  BY DEF CreateDomain, Refused, Put
<1>2. DOMAIN t = DOMAIN d.domains \cup {domain}
  BY DEF PutAll
<1>3. Rows(d) => TableOK("domains", t)
  <2>1. RowOK("domains", Row)
    BY DEF RowOK, Columns
  <2>. QED BY <2>1, PutOK DEF Rows, Tables
<1> HIDE DEF t
<1>4. Framed(d, b) /\ b.domains = t
  BY <1>2, <1>3, OtherDomains
<1> HIDE DEF b
<1>5. Keyed(b) /\ domain \in DOMAIN b.domains
  BY <1>2, <1>4 DEF Framed, Kept
<1>6. Framed(b, AddOwners(b, domain, s, taken).db)
  BY <1>5, AddOwnersFramed
<1>. QED BY <1>1, <1>4, <1>6, FrameSame, FrameTransitive

LEMMA RemoveOwnersFramed ==
    ASSUME NEW d, Keyed(d), NEW domain
    PROVE  Framed(d, RemoveOwners(d, domain).db)
<1> DEFINE owners == {o \in DOMAIN d.owners : o[1] = domain}
           t == Drop(d.owners, owners)
<1>1. RemoveOwners(d, domain).db \in {d, [d EXCEPT !.owners = t]}
  BY DEF RemoveOwners, Failed, Done
<1>2. DOMAIN t = DOMAIN d.owners \ owners
  BY DropFields, Zenon
<1>3. Rows(d) => TableOK("owners", t)
  BY DropOK DEF Rows, Tables
<1> HIDE DEF t
<1>4. ASSUME Sound(d), NEW o \in DOMAIN t
      PROVE  o[2] \in DOMAIN d.users /\ o[1] \in DOMAIN d.domains
  BY <1>2, <1>4 DEF Sound, ForeignKeys, UsersFound
<1>5. Framed(d, [d EXCEPT !.owners = t])
  BY <1>3, <1>4, OtherOwners, FrameSame
<1>. QED BY <1>1, <1>5, FrameSame

LEMMA CreateListKept ==
    ASSUME NEW d, Keyed(d), NEW l, NEW style, NEW s, Len(s) \in Nat,
           NEW taken, TakenOK(taken)
    PROVE  LET c == CreateList(d, l, style, s, taken).db
           IN  Kept(d, c) /\ SameCache(d, c)
<1> DEFINE t == PutAll(d.lists, {l}, Style(style))
           b == [d EXCEPT !.lists = t]
           f == CHOOSE f : f = [n \in 0 .. Len(s) |->
                 IF n = 0 THEN Done(b)
                 ELSE AddListOwner(f[n - 1], l, s[n], taken)]
<1>1. f = [n \in 0 .. Len(s) |->
          IF n = 0 THEN Done(b)
          ELSE AddListOwner(f[n - 1], l, s[n], taken)]
  <2>a. \E f0 : Trail(f0, "list owner", Done(b), s, Len(s), l, "none", "none", taken)
    BY StepsExist
  <2>1. PICK f0 : Trail(f0, "list owner", Done(b), s, Len(s), l, "none", "none", taken)
    BY <2>a
  <2>2. f0 = [n \in 0 .. Len(s) |->
              IF n = 0 THEN Done(b)
              ELSE AddListOwner(f0[n - 1], l, s[n], taken)]
    BY <2>1 DEF Step, Trail
  <2>. QED BY <2>2, Zenon
<1>2. CreateList(d, l, style, s, taken).db \in {d, f[Len(s)].db}
  BY DEF CreateList, Refused, Put, Through
<1> HIDE DEF f
<1>a. DOMAIN t = DOMAIN d.lists \cup {l}
  BY DEF PutAll
<1>b. Rows(d) => TableOK("lists", t)
  <2>1. RowOK("lists", Style(style))
    BY DEF RowOK, Columns
  <2>. QED BY <2>1, PutOK DEF Rows, Tables
<1> HIDE DEF t
<1>c. Kept(d, b) /\ SameCache(d, b) /\ b.lists = t
  BY <1>a, <1>b, OtherLists
<1> HIDE DEF b
<1>d. Keyed(b) /\ l \in DOMAIN b.lists
  BY <1>a, <1>c DEF Kept
<1>3. Trail(f, "list owner", Done(b), s, Len(s), l, "none", "none", taken)
  BY <1>1 DEF Step, Trail
<1>4. Good("list owner", b, Done(b)) /\ Fits("list owner", b, l, taken)
  BY <1>d, FrameSame DEF Good, Fits, Kinds, DatabaseOf, Done
<1>5. Good("list owner", b, f[Len(s)])
  BY <1>3, <1>4, StepsKeep
<1>6. Framed(b, f[Len(s)].db)
  BY <1>5 DEF Good, DatabaseOf
<1>7. Kept(d, f[Len(s)].db) /\ SameCache(d, f[Len(s)].db)
  BY <1>c, <1>6, KeptTransitive DEF Framed, SameCache
<1>8. Kept(d, d) /\ SameCache(d, d)
  BY FrameSame DEF Framed
<1>. QED BY <1>2, <1>7, <1>8

LEMMA ImportBansFramed ==
    ASSUME NEW d, Keyed(d), NEW l, NEW old
    PROVE  Framed(d, ImportBans(d, l, old))
<1> DEFINE t == PutAll(d.bans, {l} \X old.bans, Row)
<1>1. ImportBans(d, l, old) = [d EXCEPT !.bans = t]
  BY DEF ImportBans
<1>2. Function(t)
  BY PutFields
<1>. QED BY <1>1, <1>2, OtherBans

ImportFits(old) ==
    /\ Len(old.settings) \in Nat /\ Len(old.filters) \in Nat
    /\ Len(old.members) \in Nat /\ Len(old.owners) \in Nat
    /\ Len(old.moderators) \in Nat
    /\ \A a \in {"accept", "hold", "reject", "discard"} : Len(old.nonmembers[a]) \in Nat

(* One roster after another.                                               *)
LEMMA NextRoster ==
    ASSUME NEW d, NEW r, Framed(d, r.db), NEW l \in DOMAIN d.lists, NEW role,
           NEW roster, Len(roster) \in Nat, NEW action, NEW old, NEW taken, TakenOK(taken)
    PROVE  Framed(d, ImportRoster(r, l, role, roster, action, old, taken).db)
<1>1. Keyed(r.db) /\ l \in DOMAIN r.db.lists
  BY DEF Framed, Kept, SamePlaces
<1>2. Framed(r.db, ImportRoster(r, l, role, roster, action, old, taken).db)
  BY <1>1, ImportRosterFramed
<1>. QED BY <1>2, FrameTransitive

LEMMA ImportRostersFramed ==
    ASSUME NEW d, NEW r, Framed(d, r.db), NEW l \in DOMAIN d.lists,
           NEW old, ImportFits(old), NEW taken, TakenOK(taken)
    PROVE  Framed(d, ImportRosters(r, l, old, taken).db)
<1> DEFINE members == ImportRoster(r, l, "member", old.members, "none", old, taken)
           owners == ImportRoster(members, l, "owner", old.owners, "none", old, taken)
           moderators == ImportRoster(owners, l, "moderator", old.moderators, "none", old, taken)
           others(done, a) ==
               ImportRoster(done, l, "nonmember", old.nonmembers[a], a, old, taken)
           accepted == others(moderators, "accept")
           held == others(accepted, "hold")
           rejected == others(held, "reject")
<1>1. ImportRosters(r, l, old, taken) = others(rejected, "discard")
  BY DEF ImportRosters
<1>2. Framed(d, members.db)
  BY NextRoster DEF ImportFits
<1> HIDE DEF members
<1>3. Framed(d, owners.db)
  BY <1>2, NextRoster DEF ImportFits
<1> HIDE DEF owners
<1>4. Framed(d, moderators.db)
  BY <1>3, NextRoster DEF ImportFits
<1> HIDE DEF moderators
<1>5. Framed(d, accepted.db)
  BY <1>4, NextRoster DEF ImportFits
<1> HIDE DEF accepted
<1>6. Framed(d, held.db)
  BY <1>5, NextRoster DEF ImportFits
<1> HIDE DEF held
<1>7. Framed(d, rejected.db)
  BY <1>6, NextRoster DEF ImportFits
<1> HIDE DEF rejected
<1>8. Framed(d, others(rejected, "discard").db)
  BY <1>7, NextRoster DEF ImportFits
<1>. QED BY <1>1, <1>8

LEMMA ImportSettingsFramed ==
    ASSUME NEW b, Keyed(b), NEW l \in DOMAIN b.lists, NEW old, Len(old.settings) \in Nat,
           NEW taken, TakenOK(taken)
    PROVE  Framed(b, Through(LAMBDA r, item : ImportSetting(r, l, item), Done(b), old.settings).db)
<1> DEFINE s == old.settings
<1> DEFINE f == CHOOSE f : f = [n \in 0 .. Len(s) |->
                 IF n = 0 THEN Done(b)
                 ELSE ImportSetting(f[n - 1], l, s[n])]
<1>1. f = [n \in 0 .. Len(s) |->
          IF n = 0 THEN Done(b)
          ELSE ImportSetting(f[n - 1], l, s[n])]
  <2>a. \E f0 : Trail(f0, "setting", Done(b), s, Len(s), l, "none", "none", taken)
    BY StepsExist
  <2>1. PICK f0 : Trail(f0, "setting", Done(b), s, Len(s), l, "none", "none", taken)
    BY <2>a
  <2>2. f0 = [n \in 0 .. Len(s) |->
              IF n = 0 THEN Done(b)
              ELSE ImportSetting(f0[n - 1], l, s[n])]
    BY <2>1 DEF Step, Trail
  <2>. QED BY <2>2, Zenon
<1>2. Through(LAMBDA r, item : ImportSetting(r, l, item), Done(b), s) = f[Len(s)]
  BY DEF Through
<1> HIDE DEF f
<1>3. Trail(f, "setting", Done(b), s, Len(s), l, "none", "none", taken)
  BY <1>1 DEF Step, Trail
<1>4. Good("setting", b, Done(b)) /\ Fits("setting", b, l, taken)
  BY FrameSame DEF Good, Fits, Kinds, DatabaseOf, Done
<1>5. Good("setting", b, f[Len(s)])
  BY <1>3, <1>4, StepsKeep
<1>. QED BY <1>2, <1>5 DEF Good, DatabaseOf


LEMMA ImportFramed ==
    ASSUME NEW d, Keyed(d), NEW l \in DOMAIN d.lists, NEW old, ImportFits(old),
           NEW taken, TakenOK(taken)
    PROVE  Framed(d, Import(d, l, old, taken).db)
<1> DEFINE set == Through(LAMBDA r, item : ImportSetting(r, l, item), Done(d), old.settings)
           acted == ImportMemberAction(set, l, old)
           decided == ImportDmarc(acted, l, old)
           archived == ImportArchivePolicy(decided.db, l, old)
           banned == ImportBans(archived, l, old)
           named == ImportAliases(banned, l, old)
           filtered == ImportFilters(named, l, old, taken)
<1>1. Import(d, l, old, taken).db
         \in {decided.db, ImportRosters(Done(filtered), l, old, taken).db}
  BY DEF Import
<1>2. Framed(d, set.db)
  BY ImportSettingsFramed DEF ImportFits
<1> HIDE DEF set
<1>3. Framed(d, acted.db)
  <2>1. \A v : Framed(set.db, [set.db EXCEPT !.lists[l]["members"] = v])
    BY <1>2, SettingFramed DEF Framed, Kept
  <2>2. \E v : acted.db \in {set.db, [set.db EXCEPT !.lists[l]["members"] = v]}
    BY DEF ImportMemberAction, Failed, Done
  <2>. QED BY <1>2, <2>1, <2>2, FrameTransitive
<1> HIDE DEF acted
<1>4. Framed(d, decided.db)
  <2>1. \A v : Framed(acted.db, [acted.db EXCEPT !.lists[l]["dmarc"] = v])
    BY <1>3, SettingFramed DEF Framed, Kept
  <2>2. \E v : decided.db \in {acted.db, [acted.db EXCEPT !.lists[l]["dmarc"] = v]}
    BY DEF ImportDmarc, Failed, Done
  <2>. QED BY <1>3, <2>1, <2>2, FrameTransitive
<1> HIDE DEF decided
<1>5. Framed(d, archived)
  <2>1. \A v : Framed(decided.db, [decided.db EXCEPT !.lists[l]["archive"] = v])
    BY <1>4, SettingFramed DEF Framed, Kept
  <2>2. \E v : archived = [decided.db EXCEPT !.lists[l]["archive"] = v]
    BY DEF ImportArchivePolicy
  <2>. QED BY <1>4, <2>1, <2>2, FrameTransitive
<1> HIDE DEF archived
<1>6. Framed(d, banned)
  <2>1. Framed(archived, banned)
    BY <1>5, ImportBansFramed DEF Framed, Kept
  <2>. QED BY <1>5, <2>1, FrameTransitive
<1> HIDE DEF banned
<1>7. Framed(d, named)
  <2>1. Keyed(banned) /\ l \in DOMAIN banned.lists
    BY <1>6 DEF Framed, Kept, SamePlaces
  <2>2. Framed(banned, named)
    BY <2>1, WithAliasesFramed DEF ImportAliases
  <2>. QED BY <1>6, <2>2, FrameTransitive
<1> HIDE DEF named
<1>8. Framed(d, filtered)
  <2>1. Keyed(named) /\ l \in DOMAIN named.lists
    BY <1>7 DEF Framed, Kept, SamePlaces
  <2>2. Framed(named, filtered)
    BY <2>1, ImportFiltersFramed DEF ImportFits
  <2>. QED BY <1>7, <2>2, FrameTransitive
<1> HIDE DEF filtered
<1>9. Framed(d, ImportRosters(Done(filtered), l, old, taken).db)
  <2>1. Done(filtered).db = filtered
    BY DEF Done
  <2>. QED BY <1>8, <2>1, ImportRostersFramed
<1>. QED BY <1>1, <1>4, <1>9

--------------------------------------------------------------------------------
(***************************************************************************)
(* Templates and the cache of what was fetched for them.                   *)
(***************************************************************************)
Cached(c, fs) ==
    /\ \A i, j \in DOMAIN c : c[i].key = c[j].key => i = j
    /\ \A i \in DOMAIN c : c[i].key \in DOMAIN fs /\ fs[c[i].key] \in Nat
(* No template was set again after the cache got the contents.             *)
Fresh(ts, c, fs, w) ==
    \A where \in DOMAIN ts :
        LET uri == ts[where].uri
        IN  /\ uri \in Uris /\ ts[where].since \in Nat
            /\ ts[where].since =< w[uri].edition
            /\ uri \notin PerList =>
                  \A i \in DOMAIN c : c[i].key = <<uri, "everybody">> =>
                                         fs[c[i].key] >= ts[where].since
Usable(d, fs, w) == Cached(d.cache, fs) /\ Fresh(d.templates, d.cache, fs, w)
Editions(w) == w = [u \in Uris |-> w[u]] /\ \A u \in Uris : w[u].edition \in Nat

(* A request about templates leaves the rest of the database alone.        *)
Elsewhere(d, e) == Kept(d, e) /\ SamePlaces(d, e)

LEMMA ElsewhereSame ==
    ASSUME NEW d, Keyed(d)
    PROVE  Elsewhere(d, d)
  BY FrameSame DEF Framed, Elsewhere

LEMMA OtherCached ==
    ASSUME NEW d, Keyed(d), NEW n \in {"templates", "cache"}, NEW t,
           Rows(d) => TableOK(n, t), n = "cache" => Finite(DOMAIN t)
    PROVE  LET c == [d EXCEPT ![n] = t]
           IN  /\ Elsewhere(d, c) /\ Keyed(c) /\ c[n] = t
               /\ \A m \in Tables \ {n} : c[m] = d[m]
<1> DEFINE c == [d EXCEPT ![n] = t]
<1>a. HasTables(d) /\ n \in Tables /\ (n \in Serial => Finite(DOMAIN t))
  BY DEF Keyed, Tables, Serial
<1>b. c[n] = t /\ \A m \in Tables \ {n} : c[m] = d[m]
  BY <1>a DEF HasTables
<1>1. /\ Keyed(c) /\ (Rows(d) => Rows(c)) /\ c[n] = t
      /\ \A m \in Tables \ {n} : c[m] = d[m]
  BY <1>a, <1>b, UpdatedKeyed, UpdatedRows
<1> HIDE DEF c
<1>2. /\ c.users = d.users /\ c.addresses = d.addresses /\ c.members = d.members
      /\ c.owners = d.owners /\ c.matches = d.matches /\ c.domains = d.domains
      /\ c.lists = d.lists /\ SamePlaces(d, c)
  BY <1>1 DEF SamePlaces, Tables
<1>3. ASSUME Sound(d) PROVE Sound(c)
  <2>1. UsersFound(c)
    BY <1>1, <1>2, <1>3 DEF Sound, ForeignKeys, UsersFound
  <2>2. AddressesFound(c)
    BY <1>2, <1>3 DEF Sound, ForeignKeys, AddressesFound, Known
  <2>3. PartsFound(c)
    BY <1>1, <1>3 DEF Sound, ForeignKeys, PartsFound, Tables
  <2>4. ListsFound(c)
    BY <1>2, <1>3 DEF Sound, ListsFound
  <2>. QED BY <1>1, <1>2, <1>3, <2>1, <2>2, <2>3, <2>4, GaplessSame DEF ForeignKeys, Sound
<1>4. Kept(d, c)
  BY <1>1, <1>2, <1>3, RostersSame DEF Kept
<1>. QED BY <1>1, <1>2, <1>4 DEF c, Elsewhere

LEMMA OtherTemplates ==
    ASSUME NEW d, Keyed(d), NEW where, NEW uri, NEW since
    PROVE  LET t == PutAll(d.templates, {where}, Template(uri, since))
               c == [d EXCEPT !.templates = t]
           IN  Elsewhere(d, c) /\ Keyed(c) /\ c.templates = t /\ c.cache = d.cache
<1> DEFINE t == PutAll(d.templates, {where}, Template(uri, since))
<1>1. Rows(d) => TableOK("templates", t)
  <2>1. RowOK("templates", Template(uri, since))
    BY DEF RowOK, Columns, Template
  <2>. QED BY <2>1, PutOK DEF Rows, Tables
<1> HIDE DEF t
<1>2. LET c == [d EXCEPT !["templates"] = t]
      IN  /\ Elsewhere(d, c) /\ Keyed(c) /\ c["templates"] = t
          /\ \A m \in Tables \ {"templates"} : c[m] = d[m]
  BY <1>1, OtherCached
<1>. QED BY <1>2 DEF t, Tables

Evicted(d, fs, k, w, e) ==
    /\ Elsewhere(d, e.r.db) /\ Keyed(e.r.db)
    /\ e.r.db.templates = d.templates
    /\ Usable(d, fs, w) => Usable(e.r.db, e.files, w)
    /\ e.r.status = "done" => \A i \in DOMAIN e.r.db.cache : e.r.db.cache[i].key # k

LEMMA EvictUsable ==
    ASSUME NEW d, Keyed(d), NEW fs, NEW k, NEW w
    PROVE  Evicted(d, fs, k, w, Evict(d, fs, k))
<1> DEFINE t == Drop(d.cache, Entries(d, k))
           gs == Drop(fs, {k})
           c == [d EXCEPT !.cache = t]
           e == Evict(d, fs, k)
<1>1. e = Effect(Failed(d), fs) \/ e = Effect(Done(c), gs)
  BY DEF Evict
<1>2. /\ DOMAIN t = DOMAIN d.cache \ Entries(d, k)
      /\ \A i \in DOMAIN d.cache \ Entries(d, k) : t[i] = d.cache[i]
  BY DropFields, Zenon
<1>3. /\ DOMAIN gs = DOMAIN fs \ {k}
      /\ \A i \in DOMAIN fs \ {k} : gs[i] = fs[i]
  BY DropFields, Zenon
<1>4. Rows(d) => TableOK("cache", t)
  BY DropOK DEF Rows, Tables
<1>5. Finite(DOMAIN t)
  BY DropFinite DEF Keyed, Serial
<1> HIDE DEF t, gs
<1>6. /\ Elsewhere(d, c) /\ Keyed(c) /\ c.cache = t /\ c.templates = d.templates
  <2>1. LET b == [d EXCEPT !["cache"] = t]
        IN  /\ Elsewhere(d, b) /\ Keyed(b) /\ b["cache"] = t
            /\ \A m \in Tables \ {"cache"} : b[m] = d[m]
    BY <1>4, <1>5, OtherCached
  <2>. QED BY <2>1 DEF Tables
<1> HIDE DEF c
<1>7. \A i \in DOMAIN t : i \in DOMAIN d.cache /\ t[i] = d.cache[i] /\ t[i].key # k
  BY <1>2 DEF Entries
<1>8. ASSUME Usable(d, fs, w) PROVE Usable(c, gs, w)
  <2>1. Cached(t, gs)
    BY <1>3, <1>7, <1>8 DEF Usable, Cached
  <2>2. Fresh(d.templates, t, gs, w)
    BY <1>3, <1>7, <1>8 DEF Usable, Cached, Fresh
  <2>. QED BY <1>6, <2>1, <2>2 DEF Usable
<1>9. Elsewhere(d, d)
  BY ElsewhereSame
<1>10. CASE e = Effect(Failed(d), fs)
  BY <1>9, <1>10 DEF Effect, Failed, Evicted
<1>11. CASE e = Effect(Done(c), gs)
  BY <1>6, <1>7, <1>8, <1>11 DEF Effect, Done, Evicted
<1>. QED BY <1>1, <1>10, <1>11

LEMMA SetTemplateUsable ==
    ASSUME NEW d, Keyed(d), NEW fs, NEW where, NEW uri \in Uris, NEW w, Editions(w)
    PROVE  LET e == SetTemplate(d, fs, where, uri, w)
           IN  /\ Elsewhere(d, e.r.db) /\ Keyed(e.r.db)
               /\ Usable(d, fs, w) => Usable(e.r.db, e.files, w)
<1> DEFINE result == SetTemplate(d, fs, where, uri, w)
           k == Expanded(uri, "nobody")
           evicted == Evict(d, fs, k)
           made(b, s) ==
               [b EXCEPT !.templates = PutAll(b.templates, {where}, Template(uri, s))]
<1>1. \/ result = evicted
      \/ evicted.r.status = "done"
         /\ result = Effect(Done(made(evicted.r.db, w[uri].edition)), evicted.files)
      \/ result = Effect(Done(made(d, 0)), fs)
  BY DEF SetTemplate, Reset, Put, Evict, Effect, Failed, Done
<1>2. /\ Elsewhere(d, evicted.r.db) /\ Keyed(evicted.r.db)
      /\ evicted.r.db.templates = d.templates
      /\ Usable(d, fs, w) => Usable(evicted.r.db, evicted.files, w)
      /\ evicted.r.status = "done" =>
            \A i \in DOMAIN evicted.r.db.cache : evicted.r.db.cache[i].key # k
  <2>1. Evicted(d, fs, k, w, evicted)
    BY EvictUsable
  <2> HIDE DEF evicted, k
  <2>. QED BY <2>1 DEF Evicted
<1>3. uri \notin PerList => k = <<uri, "everybody">>
  BY DEF Expanded
<1> HIDE DEF evicted, k
<1>4. ASSUME NEW b, Keyed(b), NEW s \in Nat, s =< w[uri].edition, NEW gs,
             uri \notin PerList =>
                \A i \in DOMAIN b.cache :
                    b.cache[i].key = <<uri, "everybody">> /\ Cached(b.cache, gs)
                        => gs[b.cache[i].key] >= s
      PROVE  /\ Elsewhere(b, made(b, s)) /\ Keyed(made(b, s))
             /\ Usable(b, gs, w) => Usable(made(b, s), gs, w)
  <2> DEFINE t == PutAll(b.templates, {where}, Template(uri, s))
             c == [b EXCEPT !.templates = t]
  <2>1. Elsewhere(b, c) /\ Keyed(c) /\ c.templates = t /\ c.cache = b.cache
    BY <1>4, OtherTemplates
  <2> HIDE DEF c
  <2>2. /\ DOMAIN t = DOMAIN b.templates \cup {where} /\ t[where] = Template(uri, s)
        /\ \A x \in DOMAIN b.templates : x # where => t[x] = b.templates[x]
    BY DEF PutAll
  <2> HIDE DEF t
  <2>3. t[where].uri = uri /\ t[where].since = s
    BY <2>2 DEF Template
  <2>4. ASSUME Usable(b, gs, w) PROVE Fresh(t, b.cache, gs, w)
    BY <1>4, <2>2, <2>3, <2>4 DEF Usable, Fresh
  <2>5. Usable(b, gs, w) => Usable(c, gs, w)
    BY <2>1, <2>4 DEF Usable
  <2>. QED BY <2>1, <2>5 DEF c, t
<1>5. w[uri].edition \in Nat
  BY DEF Editions
<1>6. ASSUME evicted.r.status = "done"
      PROVE  LET c == made(evicted.r.db, w[uri].edition)
             IN  /\ Elsewhere(d, c) /\ Keyed(c)
                 /\ Usable(d, fs, w) => Usable(c, evicted.files, w)
  <2> DEFINE b == evicted.r.db
             c == made(b, w[uri].edition)
  <2>1. /\ Elsewhere(b, c) /\ Keyed(c)
        /\ Usable(b, evicted.files, w) => Usable(c, evicted.files, w)
    <3>1. uri \notin PerList => \A i \in DOMAIN b.cache : b.cache[i].key # <<uri, "everybody">>
      BY <1>2, <1>3, <1>6
    <3>2. w[uri].edition =< w[uri].edition
      BY <1>5
    <3> DEFINE s == w[uri].edition
               gs == evicted.files
    <3>3. uri \notin PerList =>
            \A i \in DOMAIN b.cache :
                b.cache[i].key = <<uri, "everybody">> /\ Cached(b.cache, gs)
                    => gs[b.cache[i].key] >= s
      BY <3>1
    <3>4. Keyed(b) /\ s \in Nat /\ s =< w[uri].edition
      BY <1>2, <1>5
    <3> HIDE DEF made, b, s, gs
    <3>5. /\ Elsewhere(b, made(b, s)) /\ Keyed(made(b, s))
          /\ Usable(b, gs, w) => Usable(made(b, s), gs, w)
      BY <1>4, <3>3, <3>4
    <3>. QED BY <3>5 DEF b, s, gs
  <2> HIDE DEF made
  <2>2. Elsewhere(d, c)
    BY <1>2, <2>1, KeptTransitive DEF Elsewhere, SamePlaces
  <2>. QED BY <1>2, <2>1, <2>2
<1>7. /\ Elsewhere(d, made(d, 0)) /\ Keyed(made(d, 0))
      /\ Usable(d, fs, w) => Usable(made(d, 0), fs, w)
  <2>1. 0 =< w[uri].edition
    BY <1>5
  <2>2. \A i \in DOMAIN d.cache : Cached(d.cache, fs) => fs[d.cache[i].key] >= 0
    BY DEF Cached
  <2> HIDE DEF made
  <2>. QED BY <1>4, <2>1, <2>2
<1> HIDE DEF made, result
<1>8. CASE result = evicted
  BY <1>2, <1>8 DEF result
<1>9. CASE evicted.r.status = "done"
           /\ result = Effect(Done(made(evicted.r.db, w[uri].edition)), evicted.files)
  BY <1>6, <1>9 DEF Effect, Done, result
<1>10. CASE result = Effect(Done(made(d, 0)), fs)
  BY <1>7, <1>10 DEF Effect, Done, result
<1>. QED BY <1>1, <1>8, <1>9, <1>10 DEF result

LEMMA DeleteTemplateUsable ==
    ASSUME NEW d, Keyed(d), NEW where, NEW fs, NEW w
    PROVE  LET e == Effect(DeleteTemplate(d, where), fs)
           IN  /\ Elsewhere(d, e.r.db) /\ Keyed(e.r.db)
               /\ Usable(d, fs, w) => Usable(e.r.db, e.files, w)
<1> DEFINE t == Drop(d.templates, {where})
           c == [d EXCEPT !["templates"] = t]
           e == Effect(DeleteTemplate(d, where), fs)
<1>1. e.r.db = c /\ e.files = fs
  BY DEF Effect, DeleteTemplate, Done
<1>2. /\ DOMAIN t = DOMAIN d.templates \ {where}
      /\ \A i \in DOMAIN d.templates \ {where} : t[i] = d.templates[i]
  BY DropFields, Zenon
<1>3. Rows(d) => TableOK("templates", t)
  BY DropOK DEF Rows, Tables
<1> HIDE DEF t
<1>4. /\ Elsewhere(d, c) /\ Keyed(c) /\ c.templates = t
      /\ \A m \in Tables \ {"templates"} : c[m] = d[m]
  BY <1>3, OtherCached
<1> HIDE DEF c, e
<1>5. ASSUME Usable(d, fs, w) PROVE Fresh(t, d.cache, fs, w)
  BY <1>2, <1>5 DEF Usable, Fresh
<1>6. c.cache = d.cache
  BY <1>4 DEF Tables
<1>7. Usable(d, fs, w) => Usable(c, fs, w)
  BY <1>4, <1>5, <1>6 DEF Usable
<1>. QED BY <1>1, <1>4, <1>7 DEF e

LEMMA LoadTemplateUsable ==
    ASSUME NEW d, Keyed(d), NEW fs, NEW l, NEW w, Editions(w), NEW taken, TakenOK(taken)
    PROVE  LET e == LoadTemplate(d, fs, l, w, taken)
           IN  /\ Elsewhere(d, e.r.db) /\ Keyed(e.r.db)
               /\ Usable(d, fs, w) => Usable(e.r.db, e.files, w)
<1> DEFINE serving == {n \in DOMAIN Contexts(l) : Serves(d, Contexts(l)[n], l, w)}
           where == Contexts(l)[Min(serving)]
           uri == d.templates[where].uri
           k == Key(d, where, l)
           n == Unused(d.cache, taken.cache)
           t == PutAll(d.cache, {n}, [key |-> k])
           gs == PutAll(fs, {k}, w[uri].edition)
           c == [d EXCEPT !.cache = t]
           e == LoadTemplate(d, fs, l, w, taken)
<1>1. \/ e.r.db = d /\ e.files = fs
      \/ /\ e.r.db = c /\ e.files = gs
         /\ serving # {} /\ Entries(d, k) = {}
  <2>1. \/ e = Effect(Done(d), fs)
        \/ serving # {} /\ e = Fetch(d, fs, where, l, w, taken)
    BY DEF LoadTemplate
  <2>2. \/ Fetch(d, fs, where, l, w, taken) \in {Effect(Failed(d), fs), Effect(Done(d), fs)}
        \/ /\ Fetch(d, fs, where, l, w, taken) = AddToCache(d, fs, k, w[uri].edition, taken)
           /\ Entries(d, k) = {}
    <3> HIDE DEF where, k
    <3>. QED BY DEF Fetch, k
  <2>3. AddToCache(d, fs, k, w[uri].edition, taken) = Effect(Done(c), gs)
    BY DEF AddToCache, Put
  <2> HIDE DEF e, serving, where, uri, k, c, gs
  <2>4. \/ e \in {Effect(Failed(d), fs), Effect(Done(d), fs)}
        \/ e = Effect(Done(c), gs) /\ serving # {} /\ Entries(d, k) = {}
    BY <2>1, <2>2, <2>3
  <2>. QED BY <2>4 DEF Effect, Done, Failed
<1> HIDE DEF c, e
<1>2. Elsewhere(d, d)
  <2> HIDE DEF serving, where, uri, k, n, t, gs
  <2>. QED BY ElsewhereSame
<1>3. ASSUME serving # {} PROVE where \in DOMAIN d.templates
  <2>1. serving \in SUBSET Nat
    BY DEF Contexts
  <2> HIDE DEF serving, uri, k, n, t, gs
  <2>2. \E i \in serving : \A j \in serving : i =< j
    BY <1>3, <2>1, Least
  <2>3. Min(serving) \in serving
    BY <2>2 DEF Min
  <2>. QED BY <2>3 DEF serving, Serves
<1>4. n \in Number \ DOMAIN d.cache
  BY UnusedKey DEF Keyed, Serial, TakenOK
<1>5. /\ DOMAIN t = DOMAIN d.cache \cup {n} /\ t[n] = [key |-> k]
      /\ \A i \in DOMAIN d.cache : i # n => t[i] = d.cache[i]
  BY DEF PutAll
<1>6. /\ DOMAIN gs = DOMAIN fs \cup {k} /\ gs[k] = w[uri].edition
      /\ \A i \in DOMAIN fs : i # k => gs[i] = fs[i]
  BY DEF PutAll
<1>7. Finite(DOMAIN t)
  <2> HIDE DEF n, k
  <2>. QED BY <1>4, AddFinite DEF Keyed, Serial
<1>8. Rows(d) => TableOK("cache", t)
  <2>1. RowOK("cache", [key |-> k])
    BY DEF RowOK, Columns
  <2>. QED BY <2>1, PutOK DEF Rows, Tables
<1>9. \A u : u \notin PerList /\ <<u, "everybody">> = k => u = uri
  BY DEF Key, Expanded
<1> HIDE DEF serving, where, uri, k, n, t, gs
<1>10. Elsewhere(d, c) /\ Keyed(c) /\ c.cache = t /\ c.templates = d.templates
  <2>1. LET b == [d EXCEPT !["cache"] = t]
        IN  /\ Elsewhere(d, b) /\ Keyed(b) /\ b["cache"] = t
            /\ \A m \in Tables \ {"cache"} : b[m] = d[m]
    BY <1>7, <1>8, OtherCached
  <2>. QED BY <2>1 DEF Tables, c
<1>11. ASSUME Usable(d, fs, w), serving # {}, Entries(d, k) = {}
       PROVE  Usable(c, gs, w)
  <2>1. \A i \in DOMAIN d.cache : d.cache[i].key # k
    BY <1>11 DEF Entries
  <2>2. w[uri].edition \in Nat
    BY <1>3, <1>11 DEF Editions, Usable, Fresh, uri
  <2>3. t[n].key = k /\ n \notin DOMAIN d.cache
    BY <1>4, <1>5
  <2>4. Cached(t, gs)
    BY <1>5, <1>6, <1>11, <2>1, <2>2, <2>3 DEF Usable, Cached
  <2>5. ASSUME NEW x \in DOMAIN d.templates, d.templates[x].uri \notin PerList,
               NEW i \in DOMAIN t, t[i].key = <<d.templates[x].uri, "everybody">>
        PROVE  gs[t[i].key] >= d.templates[x].since
    <3>0. /\ d.templates[x].since \in Nat
          /\ d.templates[x].since =< w[d.templates[x].uri].edition
      BY <1>11 DEF Usable, Fresh
    <3>1. CASE i = n
      <4>1. d.templates[x].uri = uri /\ gs[t[i].key] = w[uri].edition
        BY <1>6, <1>9, <2>3, <2>5, <3>1
      <4>. QED BY <2>2, <3>0, <4>1
    <3>2. CASE i # n
      <4>1. i \in DOMAIN d.cache /\ t[i] = d.cache[i] /\ t[i].key # k
        BY <1>5, <2>1, <2>5, <3>2
      <4>2. gs[t[i].key] = fs[t[i].key]
        BY <1>6, <1>11, <4>1 DEF Usable, Cached
      <4>3. fs[d.cache[i].key] >= d.templates[x].since
        BY <1>11, <2>5, <4>1 DEF Usable, Fresh
      <4>. QED BY <4>1, <4>2, <4>3
    <3>. QED BY <3>1, <3>2
  <2>6. Fresh(d.templates, t, gs, w)
    BY <1>11, <2>5 DEF Usable, Fresh
  <2>. QED BY <1>10, <2>4, <2>6 DEF Usable
<1>12. CASE e.r.db = d /\ e.files = fs
  BY <1>2, <1>12 DEF e
<1>13. CASE /\ e.r.db = c /\ e.files = gs
            /\ serving # {} /\ Entries(d, k) = {}
  BY <1>10, <1>11, <1>13 DEF e
<1>. QED BY <1>1, <1>12, <1>13

--------------------------------------------------------------------------------
(***************************************************************************)
(* What a commit makes of the database.                                    *)
(***************************************************************************)
LEMMA MergedFields ==
    ASSUME NEW t, NEW n \in Tables
    PROVE  /\ Merged(t)[n] = MergeTable(db[n], t.from[n], t.to[n])
           /\ DOMAIN Merged(t)[n] = (DOMAIN t.to[n] \ DOMAIN t.from[n])
                 \cup (DOMAIN db[n] \ (DOMAIN t.from[n] \ DOMAIN t.to[n]))
  BY DEF Merged, MergeTable

LEMMA MergedKeyed ==
    ASSUME NEW t, Keyed(db), Keyed(t.to)
    PROVE  Keyed(Merged(t))
<1>1. HasTables(Merged(t))
  BY DEF HasTables, Merged
<1>2. ASSUME NEW n \in Serial PROVE Finite(DOMAIN Merged(t)[n])
  <2>1. Finite(DOMAIN db[n]) /\ Finite(DOMAIN t.to[n])
    BY DEF Keyed
  <2>2. IsFiniteSet(DOMAIN db[n] \cup DOMAIN t.to[n])
    BY <2>1, FS_Union DEF Finite
  <2>3. DOMAIN Merged(t)[n] \in SUBSET (DOMAIN db[n] \cup DOMAIN t.to[n])
    <3>1. n \in Tables
      BY DEF Serial, Tables
    <3>2. DOMAIN Merged(t)[n] = (DOMAIN t.to[n] \ DOMAIN t.from[n])
                 \cup (DOMAIN db[n] \ (DOMAIN t.from[n] \ DOMAIN t.to[n]))
      BY <3>1, MergedFields
    <3>. QED BY <3>2
  <2>4. IsFiniteSet(DOMAIN Merged(t)[n])
    BY <2>2, <2>3, FS_Subset
  <2>. QED BY <2>1, <2>3, <2>4 DEF Finite
<1>. QED BY <1>1, <1>2 DEF Keyed

(* Who was alone leaves the database as the request left it, but for the   *)
(* settings of lists.                                                      *)
Alike(d, e) ==
    /\ \A n \in Tables : DOMAIN e[n] = DOMAIN d[n] /\ Function(e[n])
    /\ \A n \in DOMAIN Columns : e[n] = d[n]

LEMMA MergedAlone ==
    ASSUME NEW t, t.from = db, Rows(db), Rows(t.to)
    PROVE  Alike(t.to, Merged(t))
<1>1. ASSUME NEW n \in Tables
      PROVE  DOMAIN Merged(t)[n] = DOMAIN t.to[n] /\ Function(Merged(t)[n])
  <2>1. Merged(t)[n] = MergeTable(db[n], db[n], t.to[n])
    BY MergedFields
  <2>2. \A now, to : /\ DOMAIN MergeTable(now, now, to) = DOMAIN to
                     /\ Function(MergeTable(now, now, to))
    BY DEF MergeTable, Function
  <2>. QED BY <2>1, <2>2
<1>2. ASSUME NEW n \in DOMAIN Columns PROVE Merged(t)[n] = t.to[n]
  <2>a. n \in Tables
    BY DEF Columns, Tables
  <2> DEFINE m == Merged(t)[n]
             from == db[n]
             to == t.to[n]
  <2>1. m = MergeTable(from, from, to)
    BY <2>a, MergedFields
  <2>2. /\ DOMAIN m = DOMAIN to /\ Function(m)
        /\ Function(to) /\ Function(from)
    BY <1>1, <2>a DEF Rows, TableOK
  <2>3. /\ \A k \in DOMAIN to : to[k] = [c \in Columns[n] |-> to[k][c]]
        /\ \A k \in DOMAIN from : from[k] = [c \in Columns[n] |-> from[k][c]]
    BY <2>a DEF Rows, TableOK, RowOK
  <2> HIDE DEF m, from, to
  <2>4. ASSUME NEW k \in DOMAIN to PROVE m[k] = to[k]
    <3>1. CASE k \in DOMAIN from
      <4>1. m[k] = MergeRow(from[k], from[k], to[k])
        BY <2>1, <2>2, <3>1 DEF MergeTable
      <4>2. DOMAIN from[k] = Columns[n]
        BY <2>3, <3>1
      <4>3. m[k] = [c \in Columns[n] |-> to[k][c]]
        BY <4>1, <4>2 DEF MergeRow
      <4>. QED BY <2>3, <4>3
    <3>2. CASE k \notin DOMAIN from
      BY <2>1, <2>2, <3>2 DEF MergeTable
    <3>. QED BY <3>1, <3>2
  <2>5. m = to
    BY <2>2, <2>4 DEF Function
  <2>. QED BY <2>5 DEF m, to
<1>. QED BY <1>1, <1>2 DEF Alike

LEMMA AlikeSound ==
    ASSUME NEW d, NEW e, Alike(d, e), Sound(d)
    PROVE  Sound(e)
<1>1. /\ e.users = d.users /\ e.addresses = d.addresses /\ e.members = d.members
      /\ e.aliases = d.aliases /\ e.archivers = d.archivers /\ e.matches = d.matches
  BY DEF Alike, Columns
<1>2. /\ DOMAIN e.owners = DOMAIN d.owners /\ DOMAIN e.domains = DOMAIN d.domains
      /\ DOMAIN e.lists = DOMAIN d.lists
  BY DEF Alike, Tables
<1>3. Rows(e)
  <2>1. ASSUME NEW n \in Tables PROVE TableOK(n, e[n])
    <3>1. CASE n \in DOMAIN Columns
      BY <2>1, <3>1 DEF Alike, Sound, Rows
    <3>2. CASE n \notin DOMAIN Columns
      BY <2>1, <3>2 DEF Alike, TableOK, RowOK
    <3>. QED BY <3>1, <3>2
  <2>. QED BY <2>1 DEF Rows
<1>4. UsersFound(e)
  BY <1>1, <1>2 DEF Sound, ForeignKeys, UsersFound
<1>5. AddressesFound(e)
  BY <1>1 DEF Sound, ForeignKeys, AddressesFound, Known
<1>6. PartsFound(e)
  BY <1>1, <1>2 DEF Sound, ForeignKeys, PartsFound
<1>7. ListsFound(e)
  BY <1>1, <1>2 DEF Sound, ListsFound
<1>8. Gapless(e)
  BY <1>1, GaplessSame DEF Sound
<1>. QED BY <1>3, <1>4, <1>5, <1>6, <1>7, <1>8 DEF Sound, ForeignKeys

LEMMA AlikeElse ==
    ASSUME NEW d, NEW e, Alike(d, e)
    PROVE  /\ Rosters(d) => Rosters(e)
           /\ \A fs, w : Usable(d, fs, w) => Usable(e, fs, w)
<1>1. e.members = d.members /\ e.templates = d.templates /\ e.cache = d.cache
  BY DEF Alike, Columns
<1>. QED BY <1>1, RostersSame DEF Usable

--------------------------------------------------------------------------------
(***************************************************************************)
(* The inductive invariant.                                                *)
(***************************************************************************)
(* What a request asks for is sound if the database was.  Only some        *)
(* requests change which lists there are, what is cached and the address   *)
(* of a membership.                                                        *)
Asked(d, e, kind) ==
    /\ Keyed(e)
    /\ Sound(d) => Sound(e)
    /\ kind # "move" /\ Sound(d) /\ Rosters(d) => Rosters(e)
    /\ kind \notin {"lists", "domain"} => DOMAIN e.lists = DOMAIN d.lists
    /\ kind # "templates" => SameCache(d, e)
Active(p) == tx[p].pc # "none"
TxOK(t) ==
    /\ t.pc \in {"none", "read", "written"}
    /\ t.pc # "none" =>
          /\ t = [pc |-> t.pc, from |-> t.from, to |-> t.to, kind |-> t.kind]
          /\ Keyed(t.from) /\ Asked(t.from, t.to, t.kind)

Typed ==
    /\ Keyed(db) /\ Editions(web) /\ engine \in {"sqlite", "postgresql"}
    /\ tx = [p \in Processes |-> tx[p]]
    /\ \A p \in Processes : TxOK(tx[p])
(* Who is alone knows the database as it is.                               *)
Alone ==
    ~overlaps =>
        /\ Sound(db)
        /\ \A p \in Processes : Active(p) =>
              tx[p].from = db /\ \A q \in Processes : Active(q) => q = p
Checked == engine = "postgresql" => ForeignKeys(db)
Subscribed ==
    ~overlaps /\ ~moved =>
        Rosters(db) /\ \A p \in Processes : Active(p) => tx[p].kind # "move"
(* Files change before the database does.                                  *)
Cache ==
    ~overlaps /\ ~undone =>
        /\ (\A p \in Processes : ~Active(p)) => Usable(db, files, web)
        /\ \A p \in Processes : Active(p) => Usable(tx[p].to, files, web)
(* So does the file for the mail server.                                   *)
Announces(p) == tx[p].pc = "written" /\ Lifecycle(tx[p])
ListsAfter(t, ls) ==
    (DOMAIN t.to.lists \ DOMAIN t.from.lists)
        \cup (ls \ (DOMAIN t.from.lists \ DOMAIN t.to.lists))
Informed ==
    ~unsynced =>
        /\ (\A p \in Processes : ~Announces(p)) => aliasFile = TheLists
        /\ \A p \in Processes : Announces(p) =>
              /\ aliasFile = ListsAfter(tx[p], TheLists)
              /\ \A q \in Processes : Announces(q) => q = p

IInv == Typed /\ Alone /\ Checked /\ Subscribed /\ Cache /\ Informed

LEMMA MergedLists ==
    ASSUME NEW t
    PROVE  DOMAIN Merged(t).lists = ListsAfter(t, TheLists)
  BY MergedFields DEF ListsAfter, TheLists, Tables

LEMMA SameLists ==
    ASSUME NEW t, Asked(t.from, t.to, t.kind), t.kind \notin {"lists", "domain"}
    PROVE  DOMAIN Merged(t).lists = TheLists
  BY MergedLists DEF Asked, ListsAfter

LEMMA FramedAsked ==
    ASSUME NEW d, NEW e, Framed(d, e), NEW kind
    PROVE  Asked(d, e, kind)
  BY DEF Framed, Kept, SamePlaces, Asked

(* There is always a number that nobody uses.                              *)
LEMMA TakenFits ==
    ASSUME Typed
    PROVE  TakenOK(Taken)
<1>1. ASSUME NEW n \in Serial PROVE Finite(InUse(n))
  <2> DEFINE keys(q) == IF Active(q) THEN DOMAIN tx[q].from[n] \cup DOMAIN tx[q].to[n] ELSE {}
             all == DOMAIN db[n] \cup (keys("rest") \cup keys("cli"))
  <2>1. \A q \in Processes : Finite(keys(q))
    <3>1. ASSUME NEW q \in Processes, Active(q)
          PROVE  Finite(DOMAIN tx[q].from[n] \cup DOMAIN tx[q].to[n])
      <4>1. Keyed(tx[q].from) /\ Keyed(tx[q].to)
        BY <3>1 DEF Typed, TxOK, Active, Asked
      <4>2. Finite(DOMAIN tx[q].from[n]) /\ Finite(DOMAIN tx[q].to[n])
        BY <4>1 DEF Keyed
      <4>. QED BY <4>2, FS_Union DEF Finite
    <3>2. Finite({})
      BY FS_EmptySet DEF Finite
    <3>. QED BY <3>1, <3>2
  <2>2. Finite(keys("rest")) /\ Finite(keys("cli")) /\ Finite(DOMAIN db[n])
    BY <2>1 DEF Processes, Typed, Keyed
  <2>3. InUse(n) \subseteq all
    BY DEF InUse, Others, Active, Processes
  <2> HIDE DEF keys
  <2>4. IsFiniteSet(keys("rest") \cup keys("cli"))
    BY <2>2, FS_Union DEF Finite
  <2>5. IsFiniteSet(all) /\ all \subseteq Number
    BY <2>2, <2>4, FS_Union DEF Finite
  <2> HIDE DEF all
  <2>6. IsFiniteSet(InUse(n))
    BY <2>3, <2>5, FS_Subset
  <2>. QED BY <2>3, <2>5, <2>6 DEF Finite
<1>2. \A n \in Serial : Taken[n] = InUse(n)
  BY DEF Taken, Serial
<1>. QED BY <1>1, <1>2 DEF TakenOK

--------------------------------------------------------------------------------
(***************************************************************************)
(* The requests.                                                           *)
(***************************************************************************)
(* A request begins a transaction.                                         *)
Requests ==
    \E p \in Processes : \E r, kind :
        Begin(p, r, kind) /\ Asked(db, r.db, kind) /\ kind # "templates"

LEMMA ByRest ==
    ASSUME NEW r, Begin("rest", r, "rows"), Framed(db, r.db)
    PROVE  Requests
  BY FramedAsked DEF Requests, Processes

LEMMA DoneDb ==
    ASSUME NEW d
    PROVE  Done(d).db = d
  BY DEF Done

LEMMA UserRequests ==
    ASSUME Typed,
           \/ PostUser \/ DeleteAUser \/ PatchUser \/ PostAddress \/ DeleteAnAddress \/ Verify
           \/ PostAddressUser \/ PutAddressUser \/ DeleteAddressUser
    PROVE  Requests
<1>. Keyed(db) /\ TakenOK(Taken)
  BY TakenFits DEF Typed
<1>. \A u \in TheUsers : u # NoUser
  BY DEF TheUsers, Keyed, Serial, Finite, Number
<1>1. CASE PostUser
  BY <1>1, CreateUserFramed, ByRest DEF PostUser, Rest
<1>2. CASE DeleteAUser
  BY <1>2, RemoveUserFramed, ByRest DEF DeleteAUser, Rest
<1>3. CASE PatchUser
  BY <1>3, SetServerOwnerFramed, DoneDb, ByRest DEF PatchUser, Rest
<1>4. CASE PostAddress
  BY <1>4, AddAddressFramed, ByRest DEF PostAddress, Rest, TheUsers
<1>5. CASE DeleteAnAddress
  BY <1>5, DeletesAddresses, DoneDb, ByRest DEF DeleteAnAddress, Rest, DeleteAddress
<1>6. CASE Verify
  BY <1>6, SetVerifiedFramed, DoneDb, ByRest DEF Verify, Rest
<1>7. CASE PostAddressUser
  BY <1>7, LinkUserFramed, ByRest DEF PostAddressUser, Rest, TheAddresses
<1>8. CASE PutAddressUser
  BY <1>8, ReplaceUserFramed, ByRest DEF PutAddressUser, Rest, TheAddresses
<1>9. CASE DeleteAddressUser
  BY <1>9, UnlinkUserFramed, ByRest DEF DeleteAddressUser, Rest
<1>. QED BY <1>1, <1>2, <1>3, <1>4, <1>5, <1>6, <1>7, <1>8, <1>9

LEMMA OldListFits ==
    ASSUME NEW old \in OldLists
    PROVE  ImportFits(old)
  BY SiteAssumption DEF ImportFits

LEMMA MemberRequests ==
    ASSUME Typed,
           \/ PostAMember \/ DeleteAMember \/ PatchAddress \/ PatchAction \/ DeleteRoster
           \/ MembersAdd \/ Import21
    PROVE  Requests
<1>. Keyed(db) /\ TakenOK(Taken)
  BY TakenFits DEF Typed
<1>1. CASE PostAMember
  BY <1>1, PostMemberFramed, ByRest DEF PostAMember, Rest
<1>2. CASE DeleteAMember
  BY <1>2, DeleteMemberFramed, ByRest DEF DeleteAMember, Rest
<1>3. CASE PatchAddress
  <2>1. PICK i \in DOMAIN db.members, e \in Emails :
            Begin("rest", PatchMember(db, i, e, "same"), "move")
    BY <1>3 DEF PatchAddress
  <2>2. Loose(db, PatchMember(db, i, e, "same").db)
    BY PatchMemberLoose
  <2>3. Asked(db, PatchMember(db, i, e, "same").db, "move")
    BY <2>2 DEF Loose, Asked, SamePlaces
  <2>. QED BY <2>1, <2>3 DEF Requests, Processes
<1>4. CASE PatchAction
  BY <1>4, PatchActionFramed, ByRest DEF PatchAction, Rest
<1>5. CASE DeleteRoster
  BY <1>5, UnsubscribeMembersFramed, ByRest DEF DeleteRoster, Rest
<1>6. CASE MembersAdd
  <2>1. PICK l \in TheLists, e \in Emails :
            Begin("cli", AddMember(db, l, "member", e, Taken), "rows")
    BY <1>6 DEF MembersAdd
  <2>2. Framed(db, AddMember(db, l, "member", e, Taken).db)
    BY <2>1, AddMemberFramed DEF TheLists
  <2>. QED BY <2>1, <2>2, FramedAsked DEF Requests, Processes
<1>7. CASE Import21
  <2>1. PICK l \in TheLists, old \in OldLists :
            Begin("cli", Import(db, l, old, Taken), "rows")
    BY <1>7 DEF Import21
  <2>2. Framed(db, Import(db, l, old, Taken).db)
    BY <2>1, ImportFramed, OldListFits DEF TheLists
  <2>. QED BY <2>1, <2>2, FramedAsked DEF Requests, Processes
<1>. QED BY <1>1, <1>2, <1>3, <1>4, <1>5, <1>6, <1>7

LEMMA OrderedLength ==
    ASSUME NEW S, NEW s \in Ordered(S)
    PROVE  Len(s) \in Nat
<1>1. PICK n \in 0 .. 1 : s \in [1 .. n -> Emails]
  BY DEF Ordered
<1>2. s \in Seq(Emails)
  BY <1>1
<1>. QED BY <1>2

LEMMA PlaceRequests ==
    ASSUME Typed,
           \/ PostDomain \/ PostOwners \/ DeleteOwners \/ DeleteDomain \/ PostList \/ Create
           \/ \E p \in Processes : RemoveList(p)
    PROVE  Requests
<1>. Keyed(db) /\ TakenOK(Taken)
  BY TakenFits DEF Typed
<1>1. CASE PostDomain
  BY <1>1, OrderedLength, CreateDomainFramed, ByRest DEF PostDomain, Rest
<1>2. CASE PostOwners
  BY <1>2, OrderedLength, AddOwnersFramed, ByRest DEF PostOwners, Rest
<1>3. CASE DeleteOwners
  BY <1>3, RemoveOwnersFramed, ByRest DEF DeleteOwners, Rest
<1>4. CASE DeleteDomain
  <2>1. PICK d \in DOMAIN db.domains : Begin("rest", RemoveDomain(db, d), "domain")
    BY <1>4 DEF DeleteDomain
  <2>2. Kept(db, RemoveDomain(db, d).db) /\ SameCache(db, RemoveDomain(db, d).db)
    BY RemoveDomainKept
  <2>3. Asked(db, RemoveDomain(db, d).db, "domain")
    BY <2>2 DEF Kept, Asked
  <2>. QED BY <2>1, <2>3 DEF Requests, Processes
<1>5. CASE PostList
  <2>1. PICK l \in Lists, style \in Styles :
            Begin("rest", CreateList(db, l, style, <<>>, Taken), "lists")
    BY <1>5 DEF PostList
  <2> DEFINE e == CreateList(db, l, style, <<>>, Taken).db
  <2>2. Len(<<>>) \in Nat
    OBVIOUS
  <2>3. Kept(db, e) /\ SameCache(db, e)
    BY <2>2, CreateListKept
  <2>4. Asked(db, e, "lists")
    BY <2>3 DEF Kept, Asked
  <2>. QED BY <2>1, <2>4 DEF Requests, Processes
<1>6. CASE Create
  <2>1. PICK l \in Lists, s \in Ordered(Emails) :
            Begin("cli", CreateList(db, l, "legacy-default", s, Taken), "lists")
    BY <1>6 DEF Create
  <2> DEFINE e == CreateList(db, l, "legacy-default", s, Taken).db
  <2>2. Len(s) \in Nat
    BY <2>1, OrderedLength
  <2>3. Kept(db, e) /\ SameCache(db, e)
    BY <2>2, CreateListKept
  <2>4. Asked(db, e, "lists")
    BY <2>3 DEF Kept, Asked
  <2>. QED BY <2>1, <2>4 DEF Requests, Processes
<1>7. CASE \E p \in Processes : RemoveList(p)
  <2>1. PICK p \in Processes, l \in TheLists : Begin(p, Done(DeleteList(db, l)), "lists")
    BY <1>7 DEF RemoveList
  <2> DEFINE e == DeleteList(db, l)
  <2>2. Kept(db, e) /\ SameCache(db, e)
    BY DeleteListsKept DEF DeleteList
  <2>3. Asked(db, e, "lists")
    BY <2>2 DEF Kept, Asked
  <2>. QED BY <2>1, <2>3, DoneDb DEF Requests
<1>. QED BY <1>1, <1>2, <1>3, <1>4, <1>5, <1>6, <1>7

LEMMA ListRequests ==
    ASSUME Typed,
           \/ PutSettings \/ DeleteAliases \/ PutArchivers \/ PostABan \/ DeleteABan
           \/ PostAMatch \/ DeleteAMatch \/ DeleteMatches \/ PatchAMatch
           \/ \E p \in Processes : GetArchivers(p)
    PROVE  Requests
<1>. Keyed(db) /\ TakenOK(Taken)
  BY TakenFits DEF Typed
<1>1. CASE PutSettings
  <2>1. PICK l \in TheLists, items \in Configs : Begin("rest", PutConfig(db, l, items), "rows")
    BY <1>1 DEF PutSettings, Rest
  <2>2. Len(items) \in Nat
    BY <2>1, SiteAssumption
  <2>3. Framed(db, PutConfig(db, l, items).db)
    BY <2>1, <2>2, PutConfigFramed DEF TheLists
  <2>. QED BY <2>1, <2>3, ByRest
<1>2. CASE DeleteAliases
  BY <1>2, ClearAliasesFramed, DoneDb, ByRest DEF DeleteAliases, Rest
<1>3. CASE PutArchivers
  BY <1>3, SetArchiverFramed, ByRest DEF PutArchivers, Rest, TheLists
<1>4. CASE PostABan
  BY <1>4, BansFramed, ByRest DEF PostABan, Rest
<1>5. CASE DeleteABan
  BY <1>5, BansFramed, ByRest DEF DeleteABan, Rest
<1>6. CASE PostAMatch
  BY <1>6, PostMatchFramed, ByRest DEF PostAMatch, Rest, TheLists
<1>7. CASE DeleteAMatch
  BY <1>7, DeleteMatchFramed, ByRest DEF DeleteAMatch, Rest
<1>8. CASE DeleteMatches
  BY <1>8, ClearMatchesFramed, ByRest DEF DeleteMatches, Rest
<1>9. CASE PatchAMatch
  <2>1. PICK l \in TheLists, n \in 0 .. MaxPosition, to \in 0 .. MaxPosition, x \in Patterns,
              first \in BOOLEAN :
            Begin("rest", PatchMatch(db, l, n, x, to, first), "rows")
    BY <1>9 DEF PatchAMatch, Rest
  <2>2. to \in Nat
    BY <2>1, ListAdminAssumption
  <2>3. Framed(db, PatchMatch(db, l, n, x, to, first).db)
    BY <2>1, <2>2, PatchMatchFramed
  <2>. QED BY <2>1, <2>3, ByRest
<1>10. CASE \E p \in Processes : GetArchivers(p)
  <2>1. PICK p \in Processes, l \in TheLists : Begin(p, AskArchivers(db, l, p), "rows")
    BY <1>10 DEF GetArchivers
  <2>2. Framed(db, AskArchivers(db, l, p).db)
    BY <2>1, AskArchiversFramed DEF TheLists
  <2>. QED BY <2>1, <2>2, FramedAsked DEF Requests
<1>. QED BY <1>1, <1>2, <1>3, <1>4, <1>5, <1>6, <1>7, <1>8, <1>9, <1>10

(* So does one about templates, which changes files as well.               *)
TemplateRequests ==
    \E p \in Processes : \E e :
        /\ Open(p, e) /\ Asked(db, e.r.db, "templates")
        /\ Usable(db, files, web) => Usable(e.r.db, e.files, web)

LEMMA OpenAsked ==
    ASSUME NEW p \in Processes, NEW e, Open(p, e), Elsewhere(db, e.r.db),
           Usable(db, files, web) => Usable(e.r.db, e.files, web)
    PROVE  TemplateRequests
<1>1. Asked(db, e.r.db, "templates")
  BY DEF Elsewhere, Kept, SamePlaces, Asked
<1>. QED BY <1>1 DEF TemplateRequests

LEMMA TemplatesAsked ==
    ASSUME Typed,
           PutTemplate \/ DeleteATemplate \/ \E p \in Processes : GetTemplate(p)
    PROVE  TemplateRequests
<1>. Keyed(db) /\ TakenOK(Taken) /\ Editions(web) /\ "rest" \in Processes
  BY TakenFits DEF Typed, Processes
<1>1. CASE PutTemplate
  <2>1. PICK where \in Places, uri \in Uris :
            Open("rest", SetTemplate(db, files, where, uri, web))
    BY <1>1 DEF PutTemplate
  <2> DEFINE e == SetTemplate(db, files, where, uri, web)
  <2>2. /\ Elsewhere(db, e.r.db) /\ Keyed(e.r.db)
        /\ Usable(db, files, web) => Usable(e.r.db, e.files, web)
    BY SetTemplateUsable
  <2> HIDE DEF e
  <2>. QED BY <2>1, <2>2, OpenAsked DEF e
<1>2. CASE DeleteATemplate
  <2>1. PICK where \in Places : Open("rest", Effect(DeleteTemplate(db, where), files))
    BY <1>2 DEF DeleteATemplate
  <2> DEFINE e == Effect(DeleteTemplate(db, where), files)
  <2>2. /\ Elsewhere(db, e.r.db) /\ Keyed(e.r.db)
        /\ Usable(db, files, web) => Usable(e.r.db, e.files, web)
    BY DeleteTemplateUsable
  <2> HIDE DEF e
  <2>. QED BY <2>1, <2>2, OpenAsked DEF e
<1>3. CASE \E p \in Processes : GetTemplate(p)
  <2>1. PICK p \in Processes, l \in TheLists :
            Open(p, LoadTemplate(db, files, l, web, Taken))
    BY <1>3 DEF GetTemplate
  <2> DEFINE e == LoadTemplate(db, files, l, web, Taken)
  <2>2. /\ Elsewhere(db, e.r.db) /\ Keyed(e.r.db)
        /\ Usable(db, files, web) => Usable(e.r.db, e.files, web)
    BY LoadTemplateUsable
  <2> HIDE DEF e
  <2>. QED BY <2>1, <2>2, OpenAsked DEF e
<1>. QED BY <1>1, <1>2, <1>3

--------------------------------------------------------------------------------
(***************************************************************************)
(* The inductive invariant holds at first.                                 *)
(***************************************************************************)
LEMMA PositionsGapless ==
    ASSUME NEW d, Finite(DOMAIN d.matches), PartsFound(d), Positions(d)
    PROVE  Gapless(d)
<1> SUFFICES ASSUME NEW l PROVE \E c \in Nat : UpTo(d.matches, l, c)
  BY DEF Gapless, Consecutive
<1> DEFINE t == d.matches
           M == OfList(t, l)
           c == Cardinality(M)
           f == [i \in M |-> t[i].position]
<1>1. M = MatchesOf(d, l)
  BY DEF OfList, MatchesOf
<1>2. IsFiniteSet(M) /\ c \in Nat
  <2>1. M \in SUBSET DOMAIN t /\ IsFiniteSet(DOMAIN t)
    BY DEF OfList, Finite
  <2>. QED BY <2>1, FS_Subset, FS_CardinalityType
<1>3. CASE l \in DOMAIN d.lists
  <2>1. {t[i].position : i \in M} = 0 .. c - 1
    BY <1>1, <1>3 DEF Positions
  <2>2. \A i \in M : f[i] = t[i].position
    OBVIOUS
  <2>3. f \in Surjection(M, 0 .. c - 1)
    <3>1. f \in [M -> 0 .. c - 1]
      BY <2>1
    <3>2. \A n \in 0 .. c - 1 : \E i \in M : f[i] = n
      BY <2>1, <2>2
    <3> HIDE DEF f, M, c
    <3>. QED BY <3>1, <3>2 DEF Surjection
  <2>4. Cardinality(0 .. c - 1) = c
    <3>1. Cardinality(0 .. c - 1) = IF 0 > c - 1 THEN 0 ELSE (c - 1) - 0 + 1
      BY <1>2, FS_Interval
    <3>. QED BY <1>2, <3>1
  <2> HIDE DEF f
  <2>5. f \in Injection(M, 0 .. c - 1)
    BY <1>2, <2>3, <2>4, FS_Surjection
  <2>6. \A i, j \in M : f[i] = f[j] => i = j
    BY <2>5 DEF Injection, IsInjective
  <2>7. \A i \in M : t[i].position \in 0 .. c - 1
    BY <2>1
  <2>8. \A n \in 0 .. c - 1 : \E i \in M : t[i].position = n
    BY <2>1
  <2>9. \A i, j \in M : t[i].position = t[j].position => i = j
    BY <2>2, <2>6
  <2> HIDE DEF c
  <2>10. UpTo(t, l, c)
    BY <2>7, <2>8, <2>9 DEF UpTo
  <2>. QED BY <1>2, <2>10
<1>4. CASE l \notin DOMAIN d.lists
  <2>1. M = {}
    BY <1>4 DEF PartsFound, OfList
  <2>2. UpTo(t, l, 0)
    BY <2>1 DEF UpTo
  <2>. QED BY <2>2
<1>. QED BY <1>3, <1>4

LEMMA DatabaseSound ==
    ASSUME NEW d, IsDatabase(d), ForeignKeys(d), ListsFound(d), Positions(d)
    PROVE  Keyed(d) /\ Sound(d)
<1>1. Keyed(d)
  BY DEF IsDatabase, Keyed, HasTables, Serial, Finite, Number
<1>2. Rows(d)
  <2>1. ASSUME NEW n \in Tables PROVE Function(d[n])
    BY <2>1 DEF IsDatabase, Function
  <2>2. ASSUME NEW n \in Tables, NEW k \in DOMAIN d[n] PROVE RowOK(n, d[n][k])
    BY <2>2 DEF IsDatabase, RowOK
  <2>. QED BY <2>1, <2>2 DEF Rows, TableOK
<1>3. Gapless(d)
  BY <1>1, PositionsGapless DEF ForeignKeys, Keyed, Serial
<1>. QED BY <1>1, <1>2, <1>3 DEF Sound

LEMMA Initially ==
    Init => IInv
<1> SUFFICES ASSUME Init PROVE IInv
  OBVIOUS
<1>1. PICK s \in Scenarios : /\ db = s.db /\ engine = s.engine
                             /\ aliasFile = DOMAIN s.db.lists
  BY DEF Init
<1>2. /\ IsDatabase(db) /\ ForeignKeys(db) /\ ListsFound(db)
      /\ Rosters(db) /\ Positions(db) /\ db.cache = <<>>
      /\ engine \in {"sqlite", "postgresql"}
      /\ \A where \in DOMAIN db.templates : db.templates[where].since = 0
  BY <1>1, SiteAssumption
<1>3. Keyed(db) /\ Sound(db)
  BY <1>2, DatabaseSound
<1>4. \A p \in Processes : tx[p].pc = "none"
  BY DEF Init, NoTx
<1>5. Typed
  <2>1. Editions(web)
    BY DEF Init, Editions
  <2>2. tx = [p \in Processes |-> tx[p]]
    BY DEF Init
  <2>. QED BY <1>2, <1>3, <1>4, <2>1, <2>2 DEF Typed, TxOK
<1>6. Alone /\ Checked /\ Subscribed
  BY <1>2, <1>3, <1>4 DEF Alone, Checked, Subscribed, Active
<1>7. Cache
  <2>1. DOMAIN db.cache = {}
    BY <1>2
  <2>2. Cached(db.cache, files)
    BY <2>1 DEF Cached
  <2>3. \A u \in Uris : web[u].edition = 1
    BY DEF Init
  <2>4. \A where \in DOMAIN db.templates : db.templates[where].uri \in Uris
    BY <1>2 DEF IsDatabase
  <2>5. Fresh(db.templates, db.cache, files, web)
    BY <1>2, <2>1, <2>3, <2>4 DEF Fresh
  <2>. QED BY <1>4, <2>2, <2>5 DEF Cache, Usable, Active
<1>8. Informed
  BY <1>1, <1>4 DEF Informed, Announces, TheLists
<1>. QED BY <1>5, <1>6, <1>7, <1>8 DEF IInv

--------------------------------------------------------------------------------
(***************************************************************************)
(* Every step keeps it.                                                    *)
(***************************************************************************)
(* What begins knows the database as it is.                                *)
Begins(p, e, kind, fs) ==
    /\ tx[p].pc = "none"
    /\ tx' = [tx EXCEPT ![p] = [pc |-> "read", from |-> db, to |-> e, kind |-> kind]]
    /\ Asked(db, e, kind)
    /\ ~overlaps' => ~overlaps /\ Others(p) = {}
    /\ ~moved' => ~moved /\ kind # "move"
    /\ files' = fs
    /\ Usable(db, files, web) => Usable(e, fs, web)
    /\ UNCHANGED <<db, aliasFile, engine, web, unsynced, undone>>

LEMMA BeginsKeeps ==
    ASSUME IInv, NEW p \in Processes, NEW e, NEW kind, NEW fs, Begins(p, e, kind, fs)
    PROVE  IInv'
<1> DEFINE new == [pc |-> "read", from |-> db, to |-> e, kind |-> kind]
<1>. /\ Typed /\ Alone /\ Checked /\ Subscribed /\ Cache /\ Informed
     /\ db' = db /\ aliasFile' = aliasFile /\ engine' = engine /\ web' = web
     /\ unsynced' = unsynced /\ undone' = undone
  BY DEF IInv, Begins
<1>1. /\ tx'[p] = new /\ \A q \in Processes : q # p => tx'[q] = tx[q]
      /\ tx' = [q \in Processes |-> tx'[q]]
  BY DEF Typed, Begins
<1>2. /\ new = [pc |-> new.pc, from |-> new.from, to |-> new.to, kind |-> new.kind]
      /\ new.pc = "read" /\ new.from = db /\ new.to = e /\ new.kind = kind
  OBVIOUS
<1> HIDE DEF new
<1>3. tx[p].pc = "none" /\ Asked(db, e, kind)
  BY DEF Begins
<1>4. ~overlaps' => ~overlaps /\ \A q \in Processes : tx[q].pc = "none"
  BY DEF Begins, Others
<1>5. Typed'
  <2>1. \A q \in Processes : TxOK(tx'[q])
    BY <1>1, <1>2, <1>3 DEF Typed, TxOK
  <2>. QED BY <1>1, <2>1 DEF Typed
<1>6. Alone'
  BY <1>1, <1>2, <1>4 DEF Alone, Active
<1>7. Checked'
  BY DEF Checked
<1>8. Subscribed'
  <2>1. ~moved' => ~moved /\ kind # "move"
    BY DEF Begins
  <2>. QED BY <1>1, <1>2, <1>4, <2>1 DEF Subscribed, Active
<1>9. Cache'
  <2>1. ASSUME ~overlaps', ~undone' PROVE Usable(e, fs, web)
    BY <1>4, <2>1 DEF Cache, Active, Begins
  <2>2. files' = fs /\ Active(p)'
    BY <1>1, <1>2 DEF Begins, Active
  <2>3. ~overlaps' => \A q \in Processes : Active(q)' => q = p
    BY <1>1, <1>4 DEF Active
  <2>. QED BY <1>1, <1>2, <2>1, <2>2, <2>3 DEF Cache
<1>10. Informed'
  <2>1. \A q \in Processes : Announces(q)' <=> Announces(q)
    BY <1>1, <1>2, <1>3 DEF Announces, Lifecycle
  <2>2. \A q \in Processes : Announces(q) => tx'[q] = tx[q]
    BY <1>1, <1>3 DEF Announces
  <2>. QED BY <2>1, <2>2 DEF Informed, TheLists
<1>. QED BY <1>5, <1>6, <1>7, <1>8, <1>9, <1>10 DEF IInv

LEMMA RequestsKeep ==
    ASSUME IInv, Requests
    PROVE  IInv'
<1>1. PICK p, r, kind :
          p \in Processes /\ Begin(p, r, kind) /\ Asked(db, r.db, kind) /\ kind # "templates"
  BY DEF Requests
<1>2. SameCache(db, r.db)
  BY <1>1 DEF Asked
<1>3. Usable(db, files, web) => Usable(r.db, files, web)
  BY <1>2 DEF SameCache, Usable
<1>4. Begins(p, r.db, kind, files)
  BY <1>1, <1>3 DEF Begin, Begins, templates
<1>. QED BY <1>1, <1>4, BeginsKeeps

LEMMA TemplateRequestsKeep ==
    ASSUME IInv, TemplateRequests
    PROVE  IInv'
<1>1. PICK p, e :
          /\ p \in Processes
          /\ Open(p, e) /\ Asked(db, e.r.db, "templates")
          /\ Usable(db, files, web) => Usable(e.r.db, e.files, web)
  BY DEF TemplateRequests
<1>2. ~moved' => ~moved /\ "templates" # "move"
  BY <1>1 DEF Open
<1>3. Begins(p, e.r.db, "templates", e.files)
  BY <1>1, <1>2 DEF Open, Begins
<1>. QED BY <1>1, <1>3, BeginsKeeps

LEMMA PublishKeeps ==
    ASSUME IInv, NEW uri \in Uris, NEW answer, Publish(uri, answer)
    PROVE  IInv'
<1>. /\ Typed /\ Alone /\ Checked /\ Subscribed /\ Cache /\ Informed
     /\ db' = db /\ aliasFile' = aliasFile /\ engine' = engine /\ tx' = tx /\ files' = files
     /\ unsynced' = unsynced /\ undone' = undone /\ overlaps' = overlaps /\ moved' = moved
     /\ web' = [web EXCEPT ![uri] = [answer |-> answer, edition |-> @.edition + 1]]
  BY DEF IInv, Publish, history
<1>1. /\ web' = [u \in Uris |-> web'[u]]
      /\ \A u \in Uris : /\ web[u].edition \in Nat /\ web'[u].edition \in Nat
                         /\ web[u].edition =< web'[u].edition
  BY DEF Typed, Editions
<1>2. Typed'
  BY <1>1 DEF Typed, Editions
<1>3. Alone' /\ Checked' /\ Subscribed' /\ Informed'
  BY DEF Alone, Checked, Subscribed, Informed, Active, Announces, TheLists
<1>4. ASSUME NEW d, Usable(d, files, web) PROVE Usable(d, files, web')
  BY <1>1, <1>4 DEF Usable, Fresh
<1>5. Cache'
  BY <1>4 DEF Cache, Active
<1>. QED BY <1>2, <1>3, <1>5 DEF IInv

(* What is aborted leaves the files as they are by then.                   *)
LEMMA AbortKeeps ==
    ASSUME IInv, NEW p \in Processes, Active(p), Abort(p),
           ~unsynced' => ~unsynced /\ aliasFile' = aliasFile /\ ~Announces(p)
    PROVE  IInv'
<1>. /\ Typed /\ Alone /\ Checked /\ Subscribed /\ Cache /\ Informed
     /\ db' = db /\ engine' = engine /\ files' = files /\ web' = web
     /\ overlaps' = overlaps /\ moved' = moved
     /\ undone' = (undone \/ tx[p].kind = "templates")
     /\ tx' = [tx EXCEPT ![p] = NoTx]
  BY DEF IInv, Abort, End
<1>1. /\ tx'[p].pc = "none" /\ \A q \in Processes : q # p => tx'[q] = tx[q]
      /\ tx' = [q \in Processes |-> tx'[q]]
  BY DEF Typed, NoTx
<1>2. Typed'
  BY <1>1 DEF Typed, TxOK
<1>3. Alone' /\ Checked' /\ Subscribed'
  BY <1>1 DEF Alone, Checked, Subscribed, Active
<1>4. Cache'
  <2>1. ASSUME ~overlaps', ~undone'
        PROVE  Usable(db, files, web) /\ \A q \in Processes : ~Active(q)'
    <3>1. ~undone /\ tx[p].kind # "templates"
      BY <2>1
    <3>2. Usable(tx[p].to, files, web)
      BY <2>1, <3>1 DEF Cache
    <3>3. SameCache(tx[p].from, tx[p].to) /\ tx[p].from = db
      BY <2>1, <3>1 DEF Typed, TxOK, Asked, Alone, Active
    <3>4. Usable(db, files, web)
      BY <3>2, <3>3 DEF SameCache, Usable
    <3>5. \A q \in Processes : Active(q) => q = p
      BY <2>1 DEF Alone
    <3>. QED BY <1>1, <3>4, <3>5 DEF Active
  <2>. QED BY <2>1 DEF Cache
<1>5. Informed'
  <2>1. ASSUME ~unsynced'
        PROVE  \A q \in Processes : Announces(q)' <=> Announces(q)
    BY <1>1, <2>1 DEF Announces, Lifecycle
  <2>2. ASSUME ~unsynced', NEW q \in Processes, Announces(q)
        PROVE  tx'[q] = tx[q]
    BY <1>1, <2>2
  <2>. QED BY <2>1, <2>2 DEF Informed, TheLists
<1>. QED BY <1>2, <1>3, <1>4, <1>5 DEF IInv

LEMMA WriteKeeps ==
    ASSUME IInv, NEW p \in Processes, Write(p)
    PROVE  IInv'
<1> DEFINE t == tx[p]
           new == [t EXCEPT !.pc = "written"]
<1>. /\ Typed /\ Alone /\ Checked /\ Subscribed /\ Cache /\ Informed
     /\ db' = db /\ engine' = engine /\ files' = files /\ web' = web
     /\ overlaps' = overlaps /\ moved' = moved /\ undone' = undone
     /\ t.pc = "read"
  BY DEF IInv, Write, templates
<1>1. t = [pc |-> t.pc, from |-> t.from, to |-> t.to, kind |-> t.kind]
  BY DEF Typed, TxOK
<1>2. /\ new = [pc |-> new.pc, from |-> new.from, to |-> new.to, kind |-> new.kind]
      /\ new.pc = "written" /\ new.from = t.from /\ new.to = t.to /\ new.kind = t.kind
  BY <1>1
<1>3. /\ tx'[p] = new /\ \A q \in Processes : q # p => tx'[q] = tx[q]
      /\ tx' = [q \in Processes |-> tx'[q]]
  BY DEF Typed, Write
<1> HIDE DEF new
<1>4. \A q \in Processes :
          /\ Active(q)' <=> Active(q)
          /\ Active(q) => /\ tx'[q].from = tx[q].from /\ tx'[q].to = tx[q].to
                          /\ tx'[q].kind = tx[q].kind
  BY <1>2, <1>3 DEF Active
<1>5. Typed'
  BY <1>2, <1>3 DEF Typed, TxOK
<1>6. Alone' /\ Checked' /\ Subscribed' /\ Cache'
  <2> HIDE DEF t
  <2>. QED BY <1>4 DEF Alone, Checked, Subscribed, Cache
<1>7. Informed'
  <2>1. CASE Lifecycle(t)
    <3>1. ASSUME ~unsynced', NEW q \in Processes, q # p PROVE ~Announces(q)'
      <4>1. tx[q].pc # "written"
        BY <2>1, <3>1 DEF Write, Others, Typed
      <4>. QED BY <1>3, <3>1, <4>1 DEF Announces
    <3>2. aliasFile' = ListsAfter(tx'[p], TheLists)
      <4>1. aliasFile' = DOMAIN Merged(t).lists
        BY <2>1 DEF Write, Regenerate
      <4>. QED BY <1>2, <1>3, <4>1, MergedLists DEF ListsAfter
    <3>3. Announces(p)'
      BY <1>2, <1>3, <2>1 DEF Announces, Lifecycle
    <3>. QED BY <3>1, <3>2, <3>3 DEF Informed, TheLists
  <2>2. CASE ~Lifecycle(t)
    <3>1. aliasFile' = aliasFile /\ unsynced' = unsynced
      BY <2>2 DEF Write
    <3>2. \A q \in Processes : Announces(q)' <=> Announces(q)
      BY <1>2, <1>3, <2>2 DEF Announces, Lifecycle
    <3>3. \A q \in Processes : Announces(q) => tx'[q] = tx[q]
      BY <1>3 DEF Announces
    <3>. QED BY <3>1, <3>2, <3>3 DEF Informed, TheLists
  <2>. QED BY <2>1, <2>2
<1>. QED BY <1>5, <1>6, <1>7 DEF IInv

LEMMA CommitKeeps ==
    ASSUME IInv, NEW p \in Processes, Commit(p)
    PROVE  IInv'
<1> DEFINE t == tx[p]
<1>. /\ Typed /\ Alone /\ Checked /\ Subscribed /\ Cache /\ Informed
     /\ db' = Merged(t) /\ engine' = engine /\ files' = files /\ web' = web
     /\ overlaps' = overlaps /\ moved' = moved /\ undone' = undone
     /\ aliasFile' = aliasFile /\ unsynced' = (unsynced \/ t.kind = "domain")
     /\ t.pc = "written" /\ Committable(t) /\ tx' = [tx EXCEPT ![p] = NoTx]
  BY DEF IInv, Commit, End, templates
<1>1. /\ tx'[p].pc = "none" /\ \A q \in Processes : q # p => tx'[q] = tx[q]
      /\ tx' = [q \in Processes |-> tx'[q]]
  BY DEF Typed, NoTx
<1>2. Active(p) /\ Keyed(t.from) /\ Asked(t.from, t.to, t.kind)
  BY DEF Typed, TxOK, Active
<1>3. Typed'
  <2>1. Keyed(db')
    BY <1>2, MergedKeyed DEF Typed, Asked
  <2>. QED BY <1>1, <2>1 DEF Typed, TxOK
<1>4. ASSUME ~overlaps
      PROVE  /\ t.from = db /\ Sound(t.to) /\ Alike(t.to, db')
             /\ \A q \in Processes : ~Active(q)'
  <2>1. t.from = db /\ Sound(db) /\ \A q \in Processes : Active(q) => q = p
    BY <1>2, <1>4 DEF Alone
  <2>2. Sound(t.to)
    BY <1>2, <2>1 DEF Asked
  <2>3. Alike(t.to, db')
    BY <2>1, <2>2, MergedAlone DEF Sound
  <2>. QED BY <1>1, <2>1, <2>2, <2>3 DEF Active
<1>5. Alone'
  BY <1>4, AlikeSound DEF Alone
<1>6. Checked'
  BY DEF Checked, Committable
<1>7. Subscribed'
  <2>1. ASSUME ~overlaps, ~moved PROVE Rosters(db')
    <3>1. Rosters(t.to)
      BY <1>2, <1>4, <2>1 DEF Subscribed, Alone, Asked
    <3>. QED BY <1>4, <2>1, <3>1, AlikeElse
  <2>. QED BY <1>4, <2>1 DEF Subscribed
<1>8. Cache'
  <2>1. ASSUME ~overlaps, ~undone PROVE Usable(db', files, web)
    <3>1. Usable(t.to, files, web)
      BY <1>2, <2>1 DEF Cache
    <3>. QED BY <1>4, <2>1, <3>1, AlikeElse
  <2>. QED BY <1>4, <2>1 DEF Cache
<1>9. Informed'
  <2>1. DOMAIN db'.lists = ListsAfter(t, TheLists)
    BY MergedLists
  <2>2. CASE Lifecycle(t)
    <3>1. Announces(p)
      BY <2>2 DEF Announces
    <3>2. ASSUME ~unsynced' PROVE aliasFile' = DOMAIN db'.lists
      BY <2>1, <3>1, <3>2 DEF Informed
    <3>3. ASSUME ~unsynced' PROVE \A q \in Processes : ~Announces(q)'
      BY <1>1, <3>1, <3>3 DEF Informed, Announces, Lifecycle
    <3>. QED BY <3>2, <3>3 DEF Informed, TheLists
  <2>3. CASE ~Lifecycle(t)
    <3>1. ASSUME ~unsynced' PROVE DOMAIN db'.lists = TheLists
      BY <1>2, <2>3, <3>1, SameLists DEF Lifecycle
    <3>2. \A q \in Processes : Announces(q)' <=> Announces(q)
      BY <1>1, <2>3 DEF Announces, Lifecycle
    <3>3. \A q \in Processes : Announces(q) => tx'[q] = tx[q]
      BY <1>1, <2>3 DEF Announces
    <3>. QED BY <3>1, <3>2, <3>3 DEF Informed, TheLists
  <2>. QED BY <2>2, <2>3
<1>. QED BY <1>3, <1>5, <1>6, <1>7, <1>8, <1>9 DEF IInv

LEMMA EndsKeep ==
    ASSUME IInv, NEW p \in Processes,
           WriteClashes(p) \/ RegenerateFails(p) \/ CommitFails(p) \/ GiveUp(p)
    PROVE  IInv'
<1>1. CASE WriteClashes(p)
  <2>1. Active(p) /\ ~Announces(p) /\ Abort(p)
    BY <1>1 DEF WriteClashes, Active, Announces
  <2>2. aliasFile' = aliasFile /\ unsynced' = unsynced
    BY <1>1 DEF WriteClashes
  <2>. QED BY <2>1, <2>2, AbortKeeps
<1>2. CASE RegenerateFails(p)
  <2>1. Active(p) /\ Abort(p) /\ unsynced' = TRUE
    BY <1>2 DEF RegenerateFails, Active
  <2>. QED BY <2>1, AbortKeeps
<1>3. CASE CommitFails(p)
  <2>1. Active(p) /\ Abort(p)
    BY <1>3 DEF CommitFails, Active
  <2>2. aliasFile' = aliasFile /\ unsynced' = (unsynced \/ Lifecycle(tx[p]))
    BY <1>3 DEF CommitFails
  <2>. QED BY <2>1, <2>2, AbortKeeps DEF Announces
<1>4. CASE GiveUp(p)
  <2>1. Active(p) /\ ~Announces(p) /\ Abort(p)
    BY <1>4 DEF GiveUp, Active, Announces
  <2>2. aliasFile' = aliasFile /\ unsynced' = unsynced
    BY <1>4 DEF GiveUp
  <2>. QED BY <2>1, <2>2, AbortKeeps
<1>. QED BY <1>1, <1>2, <1>3, <1>4

LEMMA Inductive ==
    IInv /\ [Next]_vars => IInv'
<1> SUFFICES ASSUME IInv, [Next]_vars PROVE IInv'
  OBVIOUS
<1>. Typed
  BY DEF IInv
<1>1. CASE \/ PostUser \/ DeleteAUser \/ PatchUser \/ PostAddress \/ DeleteAnAddress \/ Verify
           \/ PostAddressUser \/ PutAddressUser \/ DeleteAddressUser
  BY <1>1, UserRequests, RequestsKeep
<1>2. CASE \/ PostAMember \/ DeleteAMember \/ PatchAddress \/ PatchAction \/ DeleteRoster
           \/ MembersAdd \/ Import21
  BY <1>2, MemberRequests, RequestsKeep
<1>3. CASE \/ PostDomain \/ PostOwners \/ DeleteOwners \/ DeleteDomain \/ PostList \/ Create
           \/ \E p \in Processes : RemoveList(p)
  BY <1>3, PlaceRequests, RequestsKeep
<1>4. CASE \/ PutSettings \/ DeleteAliases \/ PutArchivers \/ PostABan \/ DeleteABan
           \/ PostAMatch \/ DeleteAMatch \/ DeleteMatches \/ PatchAMatch
           \/ \E p \in Processes : GetArchivers(p)
  BY <1>4, ListRequests, RequestsKeep
<1>5. CASE PutTemplate \/ DeleteATemplate \/ \E p \in Processes : GetTemplate(p)
  BY <1>5, TemplatesAsked, TemplateRequestsKeep
<1>6. CASE \E uri \in Uris \ Local, answer \in {"contents", "missing", "error"} :
               Publish(uri, answer)
  BY <1>6, PublishKeeps
<1>7. CASE \E p \in Processes : Write(p)
  BY <1>7, WriteKeeps
<1>8. CASE \E p \in Processes : Commit(p)
  BY <1>8, CommitKeeps
<1>9. CASE \E p \in Processes :
               WriteClashes(p) \/ RegenerateFails(p) \/ CommitFails(p) \/ GiveUp(p)
  BY <1>9, EndsKeep
<1>10. CASE UNCHANGED vars
  <2>1. /\ db' = db /\ tx' = tx /\ aliasFile' = aliasFile /\ engine' = engine
        /\ files' = files /\ web' = web /\ overlaps' = overlaps /\ moved' = moved
        /\ unsynced' = unsynced /\ undone' = undone
    BY <1>10 DEF vars, history
  <2>. QED BY <2>1 DEF IInv, Typed, Alone, Checked, Subscribed, Cache, Informed, Active,
              Announces, TheLists
<1>. QED BY <1>1, <1>2, <1>3, <1>4, <1>5, <1>6, <1>7, <1>8, <1>9, <1>10 DEF Next

LEMMA Invariance ==
    Spec => []IInv
BY Initially, Inductive, PTL DEF Spec

--------------------------------------------------------------------------------
(***************************************************************************)
(* What the invariant says of the properties.                              *)
(***************************************************************************)
LEMMA GaplessPositions ==
    ASSUME NEW d, Keyed(d), Gapless(d)
    PROVE  Positions(d)
<1> SUFFICES ASSUME NEW l \in DOMAIN d.lists
             PROVE  {d.matches[i].position : i \in MatchesOf(d, l)}
                        = 0 .. Cardinality(MatchesOf(d, l)) - 1
  BY DEF Positions
<1>1. PICK c \in Nat : UpTo(d.matches, l, c)
  BY DEF Gapless, Consecutive
<1>2. MatchesOf(d, l) = OfList(d.matches, l)
  BY DEF MatchesOf, OfList
<1>3. Finite(DOMAIN d.matches)
  BY DEF Keyed, Serial
<1>4. Cardinality(OfList(d.matches, l)) = c
  BY <1>1, <1>3, CardinalityUpTo
<1>5. {d.matches[i].position : i \in OfList(d.matches, l)} = 0 .. c - 1
  BY <1>1 DEF UpTo
<1>. QED BY <1>2, <1>4, <1>5

LEMMA CachedReadable ==
    ASSUME NEW d, NEW fs, NEW key, Cached(d.cache, fs)
    PROVE  ~Unreadable(d, fs, key)
<1> DEFINE E == Entries(d, key)
<1>1. \A i, j \in E : i = j
  BY DEF Entries, Cached
<1>2. E # {} => key \in DOMAIN fs
  BY DEF Entries, Cached
<1> HIDE DEF E
<1>3. E = {} \/ \E i \in E : E = {i}
  BY <1>1
<1>4. Cardinality(E) = 0 \/ Cardinality(E) = 1
  BY <1>3, FS_EmptySet, FS_Singleton
<1>. QED BY <1>2, <1>4 DEF Unreadable, E

(* Whatever is deleted, replaced or absorbed, nothing is left that refers  *)
(* to what is not there, as long as no transactions have overlapped or the *)
(* database checks references.                                             *)
THEOREM RefersToWhatIsThere ==
    Spec => []ReferencesHold
<1>1. IInv => ReferencesHold
  BY DEF IInv, Alone, Checked, ReferencesHold, Sound
<1>. QED BY <1>1, Invariance, PTL

(* Nobody is twice on a roster with one address, unless a membership was   *)
(* given that address afterwards or two processes acted at once.           *)
THEOREM NobodyTwiceOnARoster ==
    Spec => []OnceOnARoster
<1>1. IInv => OnceOnARoster
  BY DEF IInv, Subscribed, OnceOnARoster
<1>. QED BY <1>1, Invariance, PTL

(* The header matches of a list are numbered from 0 on without gaps, after *)
(* every deletion and every change of a position.                          *)
THEOREM NoGapsInPositions ==
    Spec => []PositionsConsecutive
<1>1. IInv => PositionsConsecutive
  BY GaplessPositions DEF IInv, Typed, Alone, Sound, PositionsConsecutive
<1>. QED BY <1>1, Invariance, PTL

(* The mail server knows of the lists that there are, although its file is *)
(* written before the commit, unless something about lists failed or       *)
(* overlapped, or a domain went with its lists.                            *)
THEOREM MailServerKnowsTheLists ==
    Spec => []MailServerInformed
<1>1. IInv => MailServerInformed
  BY DEF IInv, Informed, Announces, MailServerInformed
<1>. QED BY <1>1, Invariance, PTL

(* The cache has the contents of a template once, and what it has is not   *)
(* older than the template, unless transactions overlapped or were undone. *)
THEOREM TemplatesCanBeUsed ==
    Spec => []TemplatesUsable
<1>1. IInv => TemplatesUsable
  <2> SUFFICES ASSUME IInv, \A p \in Processes : tx[p].pc = "none", ~overlaps, ~undone,
                      NEW where \in DOMAIN db.templates, NEW l \in TheLists
               PROVE  LET t == db.templates[where]
                          key == Expanded(t.uri, l)
                      IN  /\ ~Unreadable(db, files, key)
                          /\ Entries(db, key) # {} /\ t.uri \notin PerList =>
                                files[key] >= t.since
    BY DEF TemplatesUsable
  <2>1. Usable(db, files, web)
    BY DEF IInv, Cache, Active
  <2>2. ~Unreadable(db, files, Expanded(db.templates[where].uri, l))
    BY <2>1, CachedReadable DEF Usable
  <2>. QED BY <2>1, <2>2 DEF Usable, Fresh, Entries, Expanded
<1>. QED BY <1>1, Invariance, PTL

================================================================================
