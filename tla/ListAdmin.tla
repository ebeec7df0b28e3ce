-------------------------------- MODULE ListAdmin --------------------------------
(***************************************************************************)
(* Domains, mailing lists and what belongs to a list: what requests and    *)
(* commands do to the database (mailman/app/lifecycle.py, domain.py,       *)
(* mailman/model/domain.py, listmanager.py, mailinglist.py, bans.py,       *)
(* mailman/styles and their resources).                                    *)
(*                                                                         *)
(* Of the settings of a list there are the description, those in which the *)
(* styles differ and those that an import decides about.  A header match   *)
(* is known by its pattern.                                                *)
(***************************************************************************)
EXTENDS Accounts

CONSTANTS
    DomainOf,       \* the domain in the name of each list
    Styles,         \* the names of styles that requests come with
    MaxPosition     \* bound on the positions that a request asks for

ASSUME ListAdminAssumption ==
    DomainOf \in [Lists -> Domains] /\ MaxPosition \in Nat

(***************************************************************************)
(* Styles.  A later part of a style overrides an earlier one.              *)
(***************************************************************************)
Identity == [description |-> "empty"]
BasicOperation == [policy |-> "confirm", members |-> "defer", nonmembers |-> "hold",
                   filter |-> "discard", dmarc |-> <<"no_mitigation", FALSE>>]
Bounces == [chain |-> "default-posting-chain"]
Moderation == [explicit |-> "yes"]
Public == [advertised |-> "yes", archive |-> "public", replyGoes |-> "no_munging"]
Private == [advertised |-> "no", archive |-> "private",
            policy |-> "confirm_then_moderate"]
Announcement == [posts |-> "no"]
Discussion == [posts |-> "yes"]
Basic == Moderation @@ Bounces @@ BasicOperation @@ Identity
Unset == [description |-> "unset", policy |-> "unset", chain |-> "unset",
          explicit |-> "unset", advertised |-> "unset", archive |-> "unset",
          replyGoes |-> "unset", posts |-> "unset", members |-> "unset",
          nonmembers |-> "unset", filter |-> "unset", dmarc |-> <<"unset", FALSE>>]
(* A style that is not known is not applied.                               *)
Style(name) ==
    CASE name = "legacy-default" -> Discussion @@ Public @@ Basic @@ Unset
      [] name = "legacy-announce" -> Announcement @@ Public @@ Basic @@ Unset
      [] name = "private-default" -> Discussion @@ Private @@ Basic @@ Unset
      [] OTHER -> Unset

(***************************************************************************)
(* Domains and their owners.                                               *)
(***************************************************************************)
(* An owner by email: an address that has no user cannot become one, and   *)
(* who owns the domain cannot be added again.                              *)
AddOwner(r, d, e, taken) ==
    LET made == MakeUser(r.db, e, taken)
        owner == <<d, UserOf(made, e)>>
    IN  IF r.status = "failed" THEN r
        ELSE IF Known(r.db, e) /\ UserOf(r.db, e) = NoUser THEN Failed(r.db)
        ELSE IF owner \in DOMAIN r.db.owners THEN Failed(r.db)
        ELSE Done([made EXCEPT !.owners = Put(@, owner, Row)])
AddOwners(db, d, emails, taken) ==
    Through(LAMBDA r, e : AddOwner(r, d, e, taken), Done(db), emails)

CreateDomain(db, d, emails, taken) ==
    IF d \in DOMAIN db.domains THEN Refused(db)
    ELSE AddOwners([db EXCEPT !.domains = Put(@, d, Row)], d, emails, taken)

(* DELETE /domains/<domain>/owners looks for the first address of each.    *)
RemoveOwners(db, d) ==
    LET owners == {o \in DOMAIN db.owners : o[1] = d}
    IN  IF \E o \in owners : AddressesOf(db, o[2]) = {} THEN Failed(db)
        ELSE Done([db EXCEPT !.owners = Drop(@, owners)])

(***************************************************************************)
(* The life of a list.                                                     *)
(***************************************************************************)
(* Memberships are found together with their addresses.                    *)
FindMembers(db, ls) ==
    {i \in DOMAIN db.members : /\ db.members[i].list \in ls
                               /\ Known(db, db.members[i].email)}
(* With a list goes what refers to it.                                     *)
PartsOf(t, ls) == {k \in DOMAIN t : t[k].list \in ls}
DeleteLists(db, ls) ==
    [db EXCEPT !.lists = Drop(@, ls),
               !.members = Drop(@, FindMembers(db, ls)),
               !.aliases = Drop(@, PartsOf(@, ls)), !.bans = Drop(@, ls \X Emails),
               !.archivers = Drop(@, PartsOf(@, ls)), !.matches = Drop(@, PartsOf(@, ls))]
DeleteList(db, l) == DeleteLists(db, {l})

RemoveDomain(db, d) ==
    LET lists == {l \in DOMAIN db.lists : DomainOf[l] = d}
        empty == DeleteLists(db, lists)
    IN  Done([empty EXCEPT !.domains = Drop(@, {d}),
                           !.owners = Drop(@, {o \in DOMAIN @ : o[1] = d})])

(* An owner of a list is an address, made with its user if it is unknown.  *)
AddListOwner(r, l, e, taken) ==
    LET made == IF Known(r.db, e) THEN r.db ELSE MakeUser(r.db, e, taken)
        joined == Subscribe(made, l, "owner", e, taken)
    IN  IF r.status = "failed" \/ joined.status = "refused" THEN Failed(r.db)
        ELSE joined
CreateList(db, l, style, emails, taken) ==
    IF DomainOf[l] \notin DOMAIN db.domains \/ l \in DOMAIN db.lists THEN Refused(db)
    ELSE Through(LAMBDA r, e : AddListOwner(r, l, e, taken),
                 Done([db EXCEPT !.lists = Put(@, l, Style(style))]), emails)

(***************************************************************************)
(* Settings.  A request is a sequence of attributes with their values,     *)
(* put one by one; only the put of the aliases can still fail.             *)
(***************************************************************************)
AliasesOf(db, l) == {k \in DOMAIN db.aliases : k[1] = l}
WithAliases(db, l, as) ==
    [db EXCEPT !.aliases = PutAll(@, {l} \X as, [list |-> l])]
ClearAliases(db, l) == [db EXCEPT !.aliases = Drop(@, AliasesOf(db, l))]
(* The aliases before one that has no @ and no ^ are there by then.        *)
PutAliases(db, l, values) ==
    LET bad == {n \in DOMAIN values : values[n] = "bad"}
        good == IF bad = {} THEN values ELSE SubSeq(values, 1, Min(bad) - 1)
        put == WithAliases(ClearAliases(db, l), l, Range(good))
    IN  IF bad = {} THEN Done(put) ELSE Refused(put)

PutAttribute(r, l, item) ==
    IF r.status = "refused" THEN r
    ELSE IF item[1] = "acceptable_aliases" THEN PutAliases(r.db, l, item[2])
    ELSE Done([r.db EXCEPT !.lists[l].description = item[2]])
(* What the validator does not know or cannot convert changes nothing.     *)
PutConfig(db, l, items) ==
    Through(LAMBDA r, item : PutAttribute(r, l, item), Done(db), items)

(* A list has a row for each archiver of the site once they were asked for.*)
(* Two rows of one archiver are too many for every later look.             *)
ArchiversOf(db, l) == {k \in DOMAIN db.archivers : k[1] = l}
AskArchivers(db, l, p) ==
    IF Cardinality(ArchiversOf(db, l)) > 1 THEN Failed(db)
    ELSE IF ArchiversOf(db, l) # {} THEN Done(db)
    ELSE Done([db EXCEPT !.archivers =
                    Put(@, <<l, p>>, [list |-> l, enabled |-> TRUE])])
SetArchiver(db, l, p, enabled) ==
    LET asked == AskArchivers(db, l, p)
    IN  IF asked.status = "failed" THEN asked
        ELSE Done([asked.db EXCEPT !.archivers =
                [k \in DOMAIN @ |-> IF k[1] = l THEN [@[k] EXCEPT !.enabled = enabled]
                                    ELSE @[k]]])

(* POST and DELETE on the bans of a list or of the site.                   *)
Ban(db, where, e) == [db EXCEPT !.bans = Put(@, <<where, e>>, Row)]
PostBan(db, where, e) ==
    IF Banned(db, where, e) THEN Refused(db) ELSE Done(Ban(db, where, e))
(* An address that only the site bans is answered for, and stays banned.   *)
DeleteBan(db, where, e) == Done([db EXCEPT !.bans = Drop(@, {<<where, e>>})])

(***************************************************************************)
(* Header matches.                                                         *)
(***************************************************************************)
MatchesOf(db, l) == {i \in DOMAIN db.matches : db.matches[i].list = l}
At(db, l, n) == {i \in MatchesOf(db, l) : db.matches[i].position = n}
Moved(db, i, n) == [db EXCEPT !.matches[i].position = n]

AppendMatch(db, l, pattern, taken) ==
    LET of == MatchesOf(db, l)
        last == Max({db.matches[i].position : i \in of} \cup {-1})
    IN  IF \E i \in of : db.matches[i].pattern = pattern THEN Refused(db)
        ELSE Done([db EXCEPT !.matches =
                Put(@, Unused(@, taken.matches),
                    [list |-> l, position |-> last + 1, pattern |-> pattern])])
(* The new one is then looked for at the position that the number of       *)
(* header matches gives.                                                   *)
PostMatch(db, l, pattern, taken) ==
    LET r == AppendMatch(db, l, pattern, taken)
    IN  IF /\ r.status = "done"
           /\ Cardinality(At(r.db, l, Cardinality(MatchesOf(r.db, l)) - 1)) # 1
        THEN Failed(db) ELSE r

Restored(db, l) ==
    LET before(i, j) == \/ db.matches[i].position < db.matches[j].position
                        \/ db.matches[i].position = db.matches[j].position /\ i < j
        rank(j) == Cardinality({i \in MatchesOf(db, l) : before(i, j)})
    IN  [db EXCEPT !.matches =
            [j \in DOMAIN @ |-> IF @[j].list = l THEN [@[j] EXCEPT !.position = rank(j)]
                                ELSE @[j]]]
(* Mutant: the positions are left as they are.                             *)
LeaveGap(db, l, n) ==
    IF Cardinality(At(db, l, n)) > 1 THEN Failed(db)
    ELSE Done([db EXCEPT !.matches = Drop(@, At(db, l, n))])
DeleteMatch(db, l, n) ==
    IF Cardinality(At(db, l, n)) > 1 THEN Failed(db)
    ELSE Done(Restored([db EXCEPT !.matches = Drop(@, At(db, l, n))], l))
ClearMatches(db, l) == Done([db EXCEPT !.matches = Drop(@, MatchesOf(db, l))])

(* Those between the old and the new position make room.                   *)
SetPosition(db, i, n) ==
    LET l == db.matches[i].list
        old == db.matches[i].position
        shift(k) == IF k >= n /\ k < old THEN k + 1
                    ELSE IF k > old /\ k <= n THEN k - 1 ELSE k
        others == [j \in DOMAIN db.matches |->
                      IF db.matches[j].list = l
                      THEN [db.matches[j] EXCEPT !.position = shift(@)]
                      ELSE db.matches[j]]
    IN  IF n = old THEN Done(db)
        ELSE IF n >= Cardinality(MatchesOf(db, l)) THEN Refused(db)
        ELSE Done(Moved([db EXCEPT !.matches = others], i, n))
(* PATCH of the pattern and the position, in the order of the request.     *)
PatchMatch(db, l, n, pattern, to, patternFirst) ==
    LET i == Min(At(db, l, n))
        named(d) == [d EXCEPT !.matches[i].pattern = pattern]
        placed == SetPosition(IF patternFirst THEN named(db) ELSE db, i, to)
    IN  IF At(db, l, n) = {} THEN Refused(db)
        ELSE IF Cardinality(At(db, l, n)) > 1 THEN Failed(db)
        ELSE IF placed.status = "refused" \/ patternFirst THEN placed
        ELSE Done(named(placed.db))
================================================================================
