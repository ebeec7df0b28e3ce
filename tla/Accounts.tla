-------------------------------- MODULE Accounts --------------------------------
(***************************************************************************)
(* Users, addresses and memberships: what the requests of mailman/rest on  *)
(* them do to the database (mailman/model/user.py, usermanager.py,         *)
(* member.py and mailman/app/membership.py).                               *)
(*                                                                         *)
(* The database is a record of tables; a table is a function from the keys *)
(* of its rows to the rows.  An operation gives a result: the database it  *)
(* would leave, and whether it was done, refused (the answer is an error,  *)
(* the transaction goes on to its commit) or failed (an exception, which   *)
(* aborts the transaction).  taken are the keys of rows that others are    *)
(* about to add or to delete.                                              *)
(*                                                                         *)
(* Nothing sets a preferred address, so every membership is of an address. *)
(* Names, passwords, dates and preferences are left out.                   *)
(***************************************************************************)
EXTENDS Integers, Sequences, SequencesExt, TLC

CONSTANTS Emails, Lists, Domains
NoUser == 0
Roles == {"member", "owner", "moderator", "nonmember"}
Row == <<>>     \* a row that has nothing but its key

Done(db) == [status |-> "done", db |-> db]
Refused(db) == [status |-> "refused", db |-> db]
Failed(db) == [status |-> "failed", db |-> db]

Drop(t, keys) == Restrict(t, DOMAIN t \ keys)
PutAll(t, keys, row) == [k \in DOMAIN t \cup keys |-> IF k \in keys THEN row ELSE t[k]]
Put(t, k, row) == PutAll(t, {k}, row)
Unused(t, keys) ==
    LET used == DOMAIN t \cup keys
    IN  Min((1 .. Cardinality(used) + 1) \ used)

(* What is left of r when Op was applied to it with each of s: FoldLeft as *)
(* a recursive function.                                                   *)
Through(Op(_, _), r, s) ==
    LET f[n \in 0 .. Len(s)] == IF n = 0 THEN r ELSE Op(f[n - 1], s[n])
    IN  f[Len(s)]

(***************************************************************************)
(* Users and addresses.                                                    *)
(***************************************************************************)
Known(db, e) == e \in DOMAIN db.addresses
UserOf(db, e) == IF Known(db, e) THEN db.addresses[e].user ELSE NoUser
AddressesOf(db, u) == {e \in DOMAIN db.addresses : db.addresses[e].user = u}

CreateAddress(db, e) ==
    [db EXCEPT !.addresses = Put(@, e, [user |-> NoUser, verified |-> FALSE])]
NewUser(db, u, server) == [db EXCEPT !.users = Put(@, u, [server |-> server])]
LinkAll(db, es, u) ==
    [db EXCEPT !.addresses =
        [e \in DOMAIN @ |-> IF e \in es THEN [@[e] EXCEPT !.user = u] ELSE @[e]]]
LinkTo(db, e, u) == LinkAll(db, {e}, u)

(* An address has one user at most: make_user finds it or creates what is  *)
(* missing.                                                                *)
MakeUser(db, e, taken) ==
    LET u == Unused(db.users, taken.users)
        known == IF Known(db, e) THEN db ELSE CreateAddress(db, e)
    IN  IF UserOf(db, e) # NoUser THEN db
        ELSE LinkTo(NewUser(known, u, FALSE), e, u)

CreateUser(db, e, server, taken) ==
    LET u == Unused(db.users, taken.users)
        known == IF Known(db, e) THEN db ELSE CreateAddress(db, e)
    IN  IF UserOf(db, e) # NoUser THEN Refused(db)
        ELSE Done(LinkTo(NewUser(known, u, server), e, u))

(* Mutant: the memberships of the address are forgotten.                   *)
AddressOnly(db, e) == [db EXCEPT !.addresses = Drop(@, {e})]
(* Everything that refers to the address goes first.                       *)
DeleteAddresses(db, es) ==
    [db EXCEPT !.addresses = Drop(@, es),
               !.members = Drop(@, {i \in DOMAIN @ : @[i].email \in es})]
DeleteAddress(db, e) == DeleteAddresses(db, {e})

(* The associations of the user with domains go with the row.              *)
DropUser(db, u) ==
    [db EXCEPT !.users = Drop(@, {u}),
               !.owners = Drop(@, {o \in DOMAIN @ : o[2] = u})]
DeleteUser(db, u) == DropUser(DeleteAddresses(db, AddressesOf(db, u)), u)

SetServerOwner(db, u, server) == [db EXCEPT !.users[u].server = server]

(* u takes over the addresses of v, and with them the memberships, but not *)
(* the domains that v owns.                                                *)
Absorb(db, u, v) ==
    LET linked == LinkAll(db, AddressesOf(db, v), u)
    IN  IF u = v THEN db
        ELSE DropUser([linked EXCEPT !.users[u].server =
                                        @ \/ db.users[v].server], v)

AddAddress(db, u, e, absorb) ==
    IF ~Known(db, e) THEN Done(LinkTo(CreateAddress(db, e), e, u))
    ELSE IF UserOf(db, e) = NoUser THEN Done(LinkTo(db, e, u))
    ELSE IF absorb THEN Done(Absorb(db, u, UserOf(db, e)))
    ELSE Refused(db)

SetVerified(db, e, verified) == [db EXCEPT !.addresses[e].verified = verified]

Unlinked(db, e) == LinkTo(db, e, NoUser)
UnlinkUser(db, e) ==
    IF UserOf(db, e) = NoUser THEN Refused(db) ELSE Done(Unlinked(db, e))

(* A target is a user that is named, perhaps in vain, a new one, one that  *)
(* may not be created, a new one with an email, or nonsense.               *)
LinkUser(db, e, target, taken) ==
    LET u == Unused(db.users, taken.users)
    IN  IF UserOf(db, e) # NoUser THEN Refused(db)
        ELSE CASE target.kind = "user" /\ target.user \in DOMAIN db.users ->
                    Done(LinkTo(db, e, target.user))
               [] target.kind = "new" -> Done(LinkTo(NewUser(db, u, FALSE), e, u))
               [] OTHER -> Refused(db)

(* The address is taken from its user before the request is looked at.     *)
ReplaceUser(db, e, target, taken) ==
    LET free == Unlinked(db, e)
        u == Unused(db.users, taken.users)
        made == CreateUser(free, target.email, FALSE, taken)
    IN  CASE target.kind = "user" /\ target.user \in DOMAIN db.users ->
                Done(LinkTo(free, e, target.user))
          [] target.kind = "new" -> Done(LinkTo(NewUser(free, u, FALSE), e, u))
          [] target.kind = "email" ->
                IF made.status = "refused" THEN Refused(free)
                ELSE IF target.email = e THEN Failed(db)
                ELSE Done(LinkTo(made.db, e, u))
          [] OTHER -> Refused(free)

(***************************************************************************)
(* Memberships.                                                            *)
(***************************************************************************)
Memberships(db, l, role, e) ==
    {i \in DOMAIN db.members : /\ db.members[i].list = l
                               /\ db.members[i].role = role
                               /\ db.members[i].email = e}
(* A roster expects two memberships of an email at most, and prefers the   *)
(* first that is of an address.                                            *)
LookUpFails(db, l, role, e) == Cardinality(Memberships(db, l, role, e)) > 2

Banned(db, l, e) == {<<l, e>>, <<"site", e>>} \cap DOMAIN db.bans # {}

Member(db, l, role, e, taken) ==
    Put(db.members, Unused(db.members, taken.members),
        [list |-> l, role |-> role, email |-> e,
         action |-> IF role \in {"owner", "moderator"} THEN "accept" ELSE "none"])
Unsubscribed(db, is) == [db EXCEPT !.members = Drop(@, is)]

(* Mutant: nobody looks whether the address is there already.              *)
SubscribeAgain(db, l, role, e, taken) ==
    Done([db EXCEPT !.members = Member(db, l, role, e, taken)])
Subscribe(db, l, role, e, taken) ==
    IF Memberships(db, l, role, e) # {} THEN Refused(db)
    ELSE Done([db EXCEPT !.members = Member(db, l, role, e, taken)])

(* add_member: a member is not a nonmember any longer, by any address.     *)
AddMember(db, l, role, e, taken) ==
    LET made == MakeUser(db, e, taken)
        joined == Subscribe(made, l, role, e, taken)
        strange(a) == Memberships(made, l, "nonmember", a)
        others == AddressesOf(made, UserOf(made, e))
    IN  IF Banned(db, l, e) THEN Refused(db)
        ELSE IF joined.status = "refused" \/ role # "member" THEN joined
        ELSE IF \E a \in others : LookUpFails(made, l, "nonmember", a)
             THEN Failed(db)
        ELSE Done(Unsubscribed(joined.db,
                        {Min(strange(a)) : a \in {b \in others : strange(b) # {}}}))

(* POST /members with a regular member goes through the workflow, here one *)
(* in which nothing is left to verify, confirm or approve.  Other roles    *)
(* take add_member.  Both begin with the address.                          *)
PostMember(db, l, role, e, taken) ==
    LET known == IF Known(db, e) THEN db ELSE CreateAddress(db, e)
        made == MakeUser(known, e, taken)
    IN  IF l \notin DOMAIN db.lists THEN Refused(db)
        ELSE IF role # "member" THEN AddMember(known, l, role, e, taken)
        ELSE IF Banned(db, l, e) THEN Refused(made)
        ELSE LET joined == Subscribe(made, l, role, e, taken)
             IN  IF joined.status = "refused" THEN joined
                 ELSE Done(SetVerified(joined.db, e, TRUE))

(* DELETE /members/<id>: a regular member is looked up again by the email. *)
DeleteMember(db, i) ==
    LET m == db.members[i]
        found == Memberships(db, m.list, m.role, m.email)
    IN  IF m.role # "member" THEN Done(Unsubscribed(db, {i}))
        ELSE IF m.list \notin DOMAIN db.lists \/ ~Known(db, m.email)
                \/ LookUpFails(db, m.list, m.role, m.email) THEN Failed(db)
        ELSE Done(Unsubscribed(db, {Min(found)}))

(* PATCH /members/<id>: the parts of the request are done in order.  The   *)
(* new address must be verified and of the same user; that it may be       *)
(* subscribed already is not looked at.                                    *)
PatchMember(db, i, e, action) ==
    LET m == db.members[i]
        moved == [db EXCEPT !.members[i].email = e]
        allowed == /\ Known(db, e) /\ db.addresses[e].verified
                   /\ UserOf(db, e) \notin {NoUser} 
                   /\ UserOf(db, e) = UserOf(db, m.email)
        placed == IF e = "same" THEN db ELSE moved
    IN  IF e # "same" /\ ~allowed THEN Refused(db)
        ELSE Done(IF action = "same" THEN placed
                  ELSE [placed EXCEPT !.members[i].action = action])

(* DELETE /lists/<list>/roster/member with emails.                         *)
UnsubscribeMembers(db, l, emails) ==
    Done(Unsubscribed(db, {i \in DOMAIN db.members :
                              /\ db.members[i].list = l
                              /\ db.members[i].role = "member"
                              /\ db.members[i].email \in emails
                              /\ Known(db, db.members[i].email)}))

(* DELETE /users/<user>.  The memberships of the user are those of the     *)
(* addresses.                                                              *)
RemoveUser(db, u) ==
    Done(DeleteUser(Unsubscribed(db, {i \in DOMAIN db.members :
                            db.members[i].email \in AddressesOf(db, u)}), u))
================================================================================
