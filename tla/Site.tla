---------------------------------- MODULE Site ----------------------------------
(***************************************************************************)
(* The site: its users, lists and domains, as the REST server and the      *)
(* commands change them.  Each request is one transaction of one process   *)
(* (mailman/rest/wsgiapp.py, mailman/database/transaction.py), and a       *)
(* process has one at a time.                                              *)
(*                                                                         *)
(* A transaction reads the database, writes (Write) and commits.  What it  *)
(* decided on what it read is carried out on the rows as they are then.    *)
(* On SQLite only one transaction writes at a time, and references are not *)
(* checked; on PostgreSQL several write, and they are.  Both refuse a      *)
(* second row with the key of another, and the program a row that is gone. *)
(* The file that tells the mail server of the lists is written in between, *)
(* before the commit (mailman/mta/postfix.py), and so are those of the     *)
(* cache of templates.                                                     *)
(***************************************************************************)
EXTENDS Templates, Importer

CONSTANTS
    Scenarios,      \* [db, engine, requests, loads, faults]: where a history
                    \* begins; nothing is in the cache there
    Targets,        \* what addresses may be linked to
    OldLists,       \* the configurations that may be imported
    Configs,        \* the requests to PUT or PATCH the settings
    Patterns        \* the patterns of header matches

Tables == {"users", "addresses", "domains", "owners", "lists", "members", "bans",
           "aliases", "archivers", "matches", "templates", "cache"}
Columns == [users |-> {"server"}, addresses |-> {"user", "verified"},
            members |-> {"list", "role", "email", "action"}, aliases |-> {"list"},
            archivers |-> {"list", "enabled"},
            matches |-> {"list", "position", "pattern"},
            templates |-> {"uri", "since"}, cache |-> {"key"}]
IsDatabase(d) ==
    /\ d = [n \in Tables |-> d[n]]
    /\ \A n \in Tables : d[n] = [k \in DOMAIN d[n] |-> d[n][k]]
    /\ \A n \in DOMAIN Columns : \A k \in DOMAIN d[n] :
          d[n][k] = [c \in Columns[n] |-> d[n][k][c]]
    /\ \A n \in {"users", "members", "matches", "cache"} :
          IsFiniteSet(DOMAIN d[n]) /\ DOMAIN d[n] \subseteq Nat \ {NoUser}
    /\ \A i \in DOMAIN d.matches : d.matches[i].position \in Nat
    /\ \A where \in DOMAIN d.templates : /\ d.templates[where].uri \in Uris
                                         /\ d.templates[where].since \in Nat

UsersFound(d) ==
    /\ \A e \in DOMAIN d.addresses : d.addresses[e].user \in DOMAIN d.users \cup {NoUser}
    /\ \A o \in DOMAIN d.owners : o[2] \in DOMAIN d.users /\ o[1] \in DOMAIN d.domains
AddressesFound(d) == \A i \in DOMAIN d.members : Known(d, d.members[i].email)
PartsFound(d) ==
    \A n \in {"aliases", "archivers", "matches"} :
        \A k \in DOMAIN d[n] : d[n][k].list \in DOMAIN d.lists
(* The list of a membership or of a ban is no reference to the database.   *)
ForeignKeys(d) == UsersFound(d) /\ AddressesFound(d) /\ PartsFound(d)
ListsFound(d) == \A i \in DOMAIN d.members : d.members[i].list \in DOMAIN d.lists

Rosters(d) ==
    \A i \in DOMAIN d.members :
        LET m == d.members[i]
        IN  Memberships(d, m.list, m.role, m.email) = {i}
Positions(d) ==
    \A l \in DOMAIN d.lists :
        {d.matches[i].position : i \in MatchesOf(d, l)}
            = 0 .. Cardinality(MatchesOf(d, l)) - 1

ASSUME SiteAssumption ==
    /\ \A s \in Scenarios :
          /\ IsDatabase(s.db) /\ ForeignKeys(s.db) /\ ListsFound(s.db)
          /\ Rosters(s.db) /\ Positions(s.db)
          /\ s.engine \in {"sqlite", "postgresql"} /\ s.db.cache = <<>>
          /\ \A where \in DOMAIN s.db.templates : s.db.templates[where].since = 0
    /\ \A old \in OldLists :
          /\ Len(old.settings) \in Nat /\ Len(old.filters) \in Nat
          /\ Len(old.members) \in Nat /\ Len(old.owners) \in Nat
          /\ Len(old.moderators) \in Nat
          /\ \A a \in {"accept", "hold", "reject", "discard"} :
                Len(old.nonmembers[a]) \in Nat
    /\ \A items \in Configs : Len(items) \in Nat

VARIABLES
    db,             \* what is committed
    tx,             \* the transactions under way, of each process
    aliasFile,      \* the lists that the mail server knows of
    engine,         \* the database
    files,          \* the files of the cache, and the editions in them
    web,            \* what there is to fetch
    requests, loads, faults,    \* bounds on the requests, on those about
                                \* templates, and on failures
    overlaps,       \* history: have transactions overlapped?
    moved,          \* history: has a membership been given another address?
    unsynced,       \* history: may the mail server know of other lists?
    undone          \* history: has a request about templates been undone?

bounds == <<requests, loads, faults>>
templates == <<files, web, loads, undone>>
history == <<overlaps, moved, unsynced, undone>>
vars == <<db, tx, aliasFile, engine, files, web, bounds, history>>

Processes == {"rest", "cli"}
NoTx == [pc |-> "none"]

Init ==
    /\ \E s \in Scenarios :
          /\ db = s.db /\ engine = s.engine
          /\ requests = s.requests /\ loads = s.loads /\ faults = s.faults
          /\ aliasFile = DOMAIN s.db.lists
    /\ tx = [p \in Processes |-> NoTx]
    /\ files = <<>> /\ web = [u \in Uris |-> [answer |-> "contents", edition |-> 1]]
    /\ overlaps = FALSE /\ moved = FALSE /\ unsynced = FALSE /\ undone = FALSE

(***************************************************************************)
(* Transactions.                                                           *)
(***************************************************************************)
Others(p) == {q \in Processes \ {p} : tx[q].pc # "none"}
InUse(table) ==
    DOMAIN db[table] \cup UNION {DOMAIN tx[q].from[table] \cup DOMAIN tx[q].to[table] :
                                    q \in Others("nobody")}
Taken == [n \in {"users", "members", "matches", "cache"} |-> InUse(n)]

(* Only the columns that the transaction has changed are written.          *)
MergeRow(now, from, to) == [c \in DOMAIN now |-> IF to[c] # from[c] THEN to[c] ELSE now[c]]
MergeTable(now, from, to) ==
    LET new == DOMAIN to \ DOMAIN from
        kept == DOMAIN now \ (DOMAIN from \ DOMAIN to)
    IN  [k \in new \cup kept |->
            IF k \in new THEN to[k]
            ELSE IF k \in DOMAIN from THEN MergeRow(now[k], from[k], to[k])
            ELSE now[k]]
Merged(t) == [n \in Tables |-> MergeTable(db[n], t.from[n], t.to[n])]

(* A row to insert is there by now, or a row to update is not.             *)
Clashes(t) ==
    \/ \E n \in {"addresses", "lists", "owners"} :
          (DOMAIN t.to[n] \ DOMAIN t.from[n]) \cap DOMAIN db[n] # {}
    \/ \E n \in Tables : \E k \in DOMAIN t.to[n] \cap DOMAIN t.from[n] :
          t.to[n][k] # t.from[n][k] /\ k \notin DOMAIN db[n]

Committable(t) ==
    ~Clashes(t) /\ (engine = "postgresql" => ForeignKeys(Merged(t)))

Begin(p, r, kind) ==
    /\ tx[p].pc = "none" /\ requests > 0
    /\ r.status # "failed" /\ r.db # db
    /\ p = "cli" => r.status = "done"
    /\ tx' = [tx EXCEPT ![p] = [pc |-> "read", from |-> db, to |-> r.db, kind |-> kind]]
    /\ requests' = requests - 1
    /\ overlaps' = (overlaps \/ Others(p) # {})
    /\ moved' = (moved \/ kind = "move")
    /\ UNCHANGED <<db, aliasFile, engine, faults, unsynced, templates>>

Lifecycle(t) == t.kind = "lists"
End(p) == tx' = [tx EXCEPT ![p] = NoTx]
(* Mutant: the file is made of what is committed.                          *)
RegenerateCommitted(t) == aliasFile' = DOMAIN db.lists
Regenerate(t) == aliasFile' = DOMAIN Merged(t).lists

Abort(p) ==
    /\ undone' = (undone \/ tx[p].kind = "templates")
    /\ UNCHANGED <<db, engine, files, web, requests, loads, overlaps, moved>> /\ End(p)
Write(p) ==
    /\ tx[p].pc = "read"
    /\ engine = "sqlite" => \A q \in Others(p) : tx[q].pc # "written"
    /\ Committable(tx[p])
    /\ tx' = [tx EXCEPT ![p].pc = "written"]
    /\ IF Lifecycle(tx[p])
       THEN Regenerate(tx[p]) /\ unsynced' = (engine = "postgresql" /\ Others(p) # {})
       ELSE UNCHANGED <<aliasFile, unsynced>>
    /\ UNCHANGED <<db, engine, bounds, overlaps, moved, templates>>
(* The lists changed under the transaction, or a row did.                  *)
WriteClashes(p) ==
    /\ tx[p].pc = "read"
    /\ engine = "sqlite" => \A q \in Others(p) : tx[q].pc # "written"
    /\ ~Committable(tx[p])
    /\ Abort(p) /\ UNCHANGED <<aliasFile, faults, unsynced>>
(* postmap fails when the new file is in its place already.                *)
RegenerateFails(p) ==
    /\ tx[p].pc = "read" /\ Lifecycle(tx[p]) /\ faults > 0
    /\ engine = "sqlite" => \A q \in Others(p) : tx[q].pc # "written"
    /\ Committable(tx[p])
    /\ faults' = faults - 1
    /\ Regenerate(tx[p]) /\ unsynced' = TRUE
    /\ Abort(p)

Commit(p) ==
    /\ tx[p].pc = "written" /\ Committable(tx[p])
    /\ db' = Merged(tx[p])
    /\ unsynced' = (unsynced \/ tx[p].kind = "domain")
    /\ End(p) /\ UNCHANGED <<aliasFile, engine, bounds, overlaps, moved, templates>>
CommitFails(p) ==
    /\ tx[p].pc = "written" /\ ~Committable(tx[p])
    /\ unsynced' = (unsynced \/ Lifecycle(tx[p]))
    /\ Abort(p) /\ UNCHANGED <<aliasFile, faults>>

(***************************************************************************)
(* Requests on users and addresses.                                        *)
(***************************************************************************)
Rest(r) == Begin("rest", r, "rows")
TheAddresses == DOMAIN db.addresses
TheUsers == DOMAIN db.users
TheLists == DOMAIN db.lists

PostUser == \E e \in Emails, s \in BOOLEAN : Rest(CreateUser(db, e, s, Taken))
DeleteAUser == \E u \in TheUsers : Rest(RemoveUser(db, u))
PatchUser == \E u \in TheUsers, s \in BOOLEAN : Rest(Done(SetServerOwner(db, u, s)))
PostAddress == \E u \in TheUsers, e \in Emails, absorb \in BOOLEAN :
                  Rest(AddAddress(db, u, e, absorb))
DeleteAnAddress == \E e \in TheAddresses : Rest(Done(DeleteAddress(db, e)))
Verify == \E e \in TheAddresses, v \in BOOLEAN : Rest(Done(SetVerified(db, e, v)))
PostAddressUser == \E e \in TheAddresses, t \in Targets : Rest(LinkUser(db, e, t, Taken))
PutAddressUser == \E e \in TheAddresses, t \in Targets :
                     Rest(ReplaceUser(db, e, t, Taken))
DeleteAddressUser == \E e \in TheAddresses : Rest(UnlinkUser(db, e))

(***************************************************************************)
(* Requests and commands on memberships.                                   *)
(***************************************************************************)
PostAMember == \E l \in Lists, role \in Roles, e \in Emails :
                  Rest(PostMember(db, l, role, e, Taken))
DeleteAMember == \E i \in DOMAIN db.members : Rest(DeleteMember(db, i))
PatchAddress == \E i \in DOMAIN db.members, e \in Emails :
                   /\ e # db.members[i].email
                   /\ Begin("rest", PatchMember(db, i, e, "same"), "move")
PatchAction == \E i \in DOMAIN db.members, a \in {"none", "hold"} :
                  Rest(PatchMember(db, i, "same", a))
DeleteRoster == \E l \in TheLists, es \in SUBSET Emails :
                   Rest(UnsubscribeMembers(db, l, es))
MembersAdd == \E l \in TheLists, e \in Emails :
                 Begin("cli", AddMember(db, l, "member", e, Taken), "rows")
Import21 == \E l \in TheLists, old \in OldLists :
               Begin("cli", Import(db, l, old, Taken), "rows")

(***************************************************************************)
(* Requests and commands on domains and lists.                             *)
(***************************************************************************)
Ordered(es) == {s \in UNION {[1 .. n -> Emails] : n \in 0 .. 1} : Range(s) \subseteq es}
PostDomain == \E d \in Domains, s \in Ordered(Emails) : Rest(CreateDomain(db, d, s, Taken))
PostOwners == \E d \in DOMAIN db.domains, s \in Ordered(Emails) :
                 Rest(AddOwners(db, d, s, Taken))
DeleteOwners == \E d \in DOMAIN db.domains : Rest(RemoveOwners(db, d))
DeleteDomain == \E d \in DOMAIN db.domains : Begin("rest", RemoveDomain(db, d), "domain")
PostList == \E l \in Lists, style \in Styles :
               Begin("rest", CreateList(db, l, style, <<>>, Taken), "lists")
Create == \E l \in Lists, s \in Ordered(Emails) :
             Begin("cli", CreateList(db, l, "legacy-default", s, Taken), "lists")
RemoveList(p) == \E l \in TheLists : Begin(p, Done(DeleteList(db, l)), "lists")

PutSettings == \E l \in TheLists, items \in Configs : Rest(PutConfig(db, l, items))
DeleteAliases == \E l \in TheLists : Rest(Done(ClearAliases(db, l)))
GetArchivers(p) == \E l \in TheLists : Begin(p, AskArchivers(db, l, p), "rows")
PutArchivers == \E l \in TheLists, on \in BOOLEAN : Rest(SetArchiver(db, l, "rest", on))
PostABan == \E where \in Lists \cup {"site"}, e \in Emails :
               where \in TheLists \cup {"site"} /\ Rest(PostBan(db, where, e))
DeleteABan == \E b \in DOMAIN db.bans : Rest(DeleteBan(db, b[1], b[2]))
PostAMatch == \E l \in TheLists, x \in Patterns : Rest(PostMatch(db, l, x, Taken))
DeleteAMatch == \E l \in TheLists, n \in 0 .. MaxPosition : Rest(DeleteMatch(db, l, n))
DeleteMatches == \E l \in TheLists : Rest(ClearMatches(db, l))
PatchAMatch == \E l \in TheLists, n, to \in 0 .. MaxPosition, x \in Patterns, b \in BOOLEAN :
                  Rest(PatchMatch(db, l, n, x, to, b))

(***************************************************************************)
(* Requests about templates, and whoever needs one.                        *)
(***************************************************************************)
Open(p, e) ==
    /\ tx[p].pc = "none" /\ loads > 0
    /\ e.r.status = "done" /\ e.r.db # db
    /\ tx' = [tx EXCEPT ![p] = [pc |-> "read", from |-> db, to |-> e.r.db,
                                kind |-> "templates"]]
    /\ files' = e.files /\ loads' = loads - 1
    /\ overlaps' = (overlaps \/ Others(p) # {})
    /\ UNCHANGED <<db, aliasFile, engine, web, requests, faults, moved, unsynced, undone>>
Places == Lists \cup Domains \cup {"site"}
PutTemplate == \E where \in Places, uri \in Uris :
                  Open("rest", SetTemplate(db, files, where, uri, web))
DeleteATemplate == \E where \in Places :
                      Open("rest", Effect(DeleteTemplate(db, where), files))
GetTemplate(p) == \E l \in TheLists : Open(p, LoadTemplate(db, files, l, web, Taken))
(* What needed the template fails afterwards.                              *)
GiveUp(p) ==
    /\ tx[p].pc = "read" /\ tx[p].kind = "templates" /\ faults > 0
    /\ faults' = faults - 1
    /\ Abort(p) /\ UNCHANGED <<aliasFile, unsynced>>
Publish(uri, answer) ==
    /\ loads > 0 /\ loads' = loads - 1
    /\ web' = [web EXCEPT ![uri] = [answer |-> answer, edition |-> @.edition + 1]]
    /\ UNCHANGED <<db, tx, aliasFile, engine, files, requests, faults, history>>

Next ==
    \/ PostUser \/ DeleteAUser \/ PatchUser \/ PostAddress \/ DeleteAnAddress \/ Verify
    \/ PostAddressUser \/ PutAddressUser \/ DeleteAddressUser
    \/ PostAMember \/ DeleteAMember \/ PatchAddress \/ PatchAction \/ DeleteRoster
    \/ MembersAdd \/ Import21
    \/ PostDomain \/ PostOwners \/ DeleteOwners \/ DeleteDomain
    \/ PostList \/ Create \/ PutSettings \/ DeleteAliases \/ PutArchivers
    \/ PostABan \/ DeleteABan \/ PostAMatch \/ DeleteAMatch \/ DeleteMatches \/ PatchAMatch
    \/ PutTemplate \/ DeleteATemplate
    \/ \E uri \in Uris \ Local, answer \in {"contents", "missing", "error"} : Publish(uri, answer)
    \/ \E p \in Processes :
          \/ RemoveList(p) \/ GetArchivers(p) \/ GetTemplate(p) \/ GiveUp(p)
          \/ Write(p) \/ WriteClashes(p) \/ RegenerateFails(p) \/ Commit(p) \/ CommitFails(p)

Spec == Init /\ [][Next]_vars

(***************************************************************************)
(* Properties.                                                             *)
(***************************************************************************)
(* Whatever is deleted, replaced or absorbed, nothing is left that refers  *)
(* to a user, an address, a domain or a list that is not there: as long as *)
(* no two transactions have overlapped, on any database, and always on one *)
(* that checks references, but for the list of a membership.               *)
ReferencesHold ==
    /\ ~overlaps \/ engine = "postgresql" => ForeignKeys(db)
    /\ ~overlaps => ListsFound(db)

(* Nobody is twice on a roster with one address, unless a membership was   *)
(* given that address afterwards, which looks for no other, or two         *)
(* processes subscribed it at once.                                        *)
OnceOnARoster == ~overlaps /\ ~moved => Rosters(db)

(* The header matches of a list are numbered from 0 on without gaps, which *)
(* the resource of a new one depends on.                                   *)
PositionsConsecutive == ~overlaps => Positions(db)

(* When nothing is under way, the mail server knows of the lists that      *)
(* there are; but not after a domain went with its lists, after postmap or *)
(* a commit failed, or when lists came and went at once.                   *)
MailServerInformed ==
    (\A p \in Processes : tx[p].pc = "none") /\ ~unsynced => aliasFile = TheLists

(* A template can be used: the cache has its contents once, and after it   *)
(* was set again nobody gets an older edition; unless transactions         *)
(* overlapped or were undone, or there is a placeholder in its URI, which  *)
(* is not filled in when something is evicted.                             *)
TemplatesUsable ==
    ((\A p \in Processes : tx[p].pc = "none") /\ ~overlaps /\ ~undone) =>
        \A where \in DOMAIN db.templates, l \in TheLists :
            LET t == db.templates[where]
                key == Expanded(t.uri, l)
            IN  /\ ~Unreadable(db, files, key)
                /\ Entries(db, key) # {} /\ t.uri \notin PerList => files[key] >= t.since

================================================================================
