-------------------------------- MODULE Digests --------------------------------
(***************************************************************************)
(* Digests: the handler to-digest, which the pipeline runner calls for a   *)
(* posting (handlers/to_digest.py), the functions of app/digests.py, which *)
(* `mailman digests' and the REST API call too, and the digest runner      *)
(* (runners/digest.py).                                                    *)
(*                                                                         *)
(* The mailbox digest.mmdf of a list collects the postings.  To send it,   *)
(* it is renamed after the volume and the number of the digest, and an     *)
(* entry for the digest runner is queued.  Files change at once.  The      *)
(* volume and the number belong to a transaction, which was begun before   *)
(* and is committed later; nothing but the append takes the lock.          *)
(***************************************************************************)
EXTENDS Integers, Sequences, FiniteSetsExt, Functions

CONSTANTS
    Msgs,           \* the postings
    Readers,        \* members of the list
    Changing,       \* the member whose preferences change
    Wishes,         \* to one of these: [level, prefs]
    Former,         \* an address that is to receive one last digest
    Dates,          \* the days on which something happens
    Scenarios       \* what the history begins with, and its bounds

(* Where a preference may be set, the first that has it decides.           *)
Levels == <<"member", "address", "user", "system">>
Unset == [delivery_mode |-> "unset", delivery_status |-> "unset"]
Preferences ==
    [delivery_mode: {"unset", "regular", "mime", "plaintext", "summary"},
     delivery_status: {"unset", "enabled", "by_user", "by_bounces"}]

ASSUME DigestsAssumption ==
    /\ Changing \in Readers /\ Former \notin Readers
    /\ \A c \in Wishes : c.level \in {"member", "address", "user"} /\ c.prefs \in Preferences
    /\ Dates \in Seq([year: Nat, month: 1 .. 12, week: 1 .. 53, ordinal: Nat])
    /\ \A s \in Scenarios :
          /\ s.frequency \in {"yearly", "monthly", "quarterly", "weekly", "daily"}
          /\ s.threshold \in Nat             \* digest_size_threshold, in postings
          /\ s.last \in 0 .. 1               \* digest_last_sent_at: None, or today
          /\ s.olds \subseteq {Former}       \* the table onelastdigest
          /\ s.days \in DOMAIN Dates         \* bound on the days that pass
          /\ s.requests \in Nat              \* bound on what is not the cron job's
          /\ s.changes \in Nat               \* bound on changes of delivery modes
          /\ s.faults \in Nat                \* crashes, failing handlers, unshunts

VARIABLES
    settings,       \* the scenario
    today,          \* index of the date
    list,           \* the committed row: [volume, number, last]
    olds,           \* the addresses of the table onelastdigest
    preferences,    \* of each member, by level
    dir, box,       \* the files by name, and the contents of each inode
    posts,          \* the entry of each posting in the pipeline queue
    work,           \* what the pipeline runner and the administration do
    trigger,        \* the entries for the digest runner
    runner,         \* the digest runner
    added,          \* history: how often a posting was appended
    issued,         \* history: how often each was in a digest that was sent
    latest,         \* history: the volume and number of the latest trigger
    fell,           \* history: they were not those of a later digest
    got,            \* history: the postings in the digests of each reader
    races,          \* history: what went wrong between two actors
    changed, requests, faults       \* counters for the bounds

database == <<list, olds, preferences, changed>>
files == <<dir, box, added>>
digester == <<trigger, runner, issued, got>>
numbering == <<latest, fell>>
vars == <<settings, today, database, files, posts, work, digester, numbering,
          races, requests, faults>>

Senders == {"pipeline", "admin"}
(* digest.mmdf; the others are named by volume and number.                 *)
Current == <<0, 0>>
(* seen: the row as the session has read it; row: as it has changed it.    *)
Idle == [pc |-> "idle", msg |-> "none", inode |-> 0, force |-> FALSE,
         seen |-> <<>>, row |-> <<>>, dest |-> Current, moved |-> FALSE]
Asleep == [pc |-> "idle", id |-> 0, inode |-> 0, contents |-> <<>>,
           mime |-> {}, plain |-> {}, ended |-> FALSE]

(* The user has chosen a kind of digest; system_preferences.               *)
Initially(mode) ==
    [l \in Range(Levels) |->
       CASE l = "user" -> [Unset EXCEPT !.delivery_mode = mode]
         [] l = "system" -> [delivery_mode |-> "regular", delivery_status |-> "enabled"]
         [] OTHER -> Unset]

Init ==
    /\ settings \in Scenarios
    /\ today = 1
    /\ list = [volume |-> 1, number |-> 1, last |-> settings.last]
    /\ olds = settings.olds
    /\ preferences = [r \in Readers |-> Initially(IF r = Changing THEN "plaintext"
                                                   ELSE "summary")]
    /\ dir = <<>> /\ box = <<>>
    /\ posts = [m \in Msgs |-> "queued"]
    /\ work = [p \in Senders |-> Idle]
    /\ trigger = <<>> /\ runner = Asleep
    /\ added = [m \in Msgs |-> 0]
    /\ issued = [m \in Msgs |-> 0]
    /\ latest = Current /\ fell = FALSE
    /\ got = [r \in Readers \cup {Former} |-> {}]
    /\ races = {} /\ changed = 0 /\ requests = 0 /\ faults = 0

(***************************************************************************)
(* bump_digest_number_and_volume.                                          *)
(***************************************************************************)
(* The number the code gives the period a date is in.                      *)
Period(d) ==
    CASE settings.frequency = "yearly" -> d.year
      [] settings.frequency = "monthly" -> d.year * 100 + d.month
      [] settings.frequency = "quarterly" -> d.year * 100 + (d.month - 1) \div 4
      [] settings.frequency = "weekly" -> d.year * 100 + d.week
      [] settings.frequency = "daily" -> d.ordinal

NewVolume(row) == row.last # 0 /\ Period(Dates[today]) > Period(Dates[row.last])

(* Mutant: a new volume begins again without a number of its own.          *)
BumpedVolumeless(row) ==
    [row EXCEPT !.number = IF NewVolume(row) THEN 1 ELSE @ + 1, !.last = today]
Bumped(row) ==
    IF NewVolume(row)
    THEN [row EXCEPT !.volume = @ + 1, !.number = 1, !.last = today]
    ELSE [row EXCEPT !.number = @ + 1, !.last = today]

(* What a commit writes: the columns that the session has changed.         *)
Committed(w) ==
    [c \in DOMAIN list |-> IF w.row[c] # w.seen[c] THEN w.row[c] ELSE list[c]]

(***************************************************************************)
(* The mailbox.                                                            *)
(***************************************************************************)
Exists(name) == name \in DOMAIN dir
Size(name) == IF Exists(name) THEN Len(box[dir[name]]) ELSE 0
(* An inode is there as long as it has a name or somebody has it open.     *)
Fresh(ids) == Min((1 .. Cardinality(ids) + 1) \ ids)
NewInode == Fresh(DOMAIN box)
NewId == Fresh(DOMAIN trigger)
With(f, x, v) == [y \in DOMAIN f \cup {x} |-> IF y = x THEN v ELSE f[y]]
OpenFiles == {work["pipeline"].inode, runner.inode}
Kept(d) == Restrict(box, DOMAIN box \cap (Range(d) \cup OpenFiles))
Locked(i) == runner.pc = "reading" /\ runner.inode = i
OpenElsewhere(i) == work["pipeline"].inode = i
Without(i) == Restrict(trigger, DOMAIN trigger \ {i})

(* An exception ends what a sender does: a posting is shunted, the         *)
(* transaction is rolled back, also when the mailbox was renamed in it.    *)
Fails(p) ==
    /\ posts' = IF p = "pipeline" THEN [posts EXCEPT ![work[p].msg] = "shunted"]
                ELSE posts
    /\ work' = [work EXCEPT ![p] = Idle]
    /\ races' = IF work[p].moved THEN races \cup {"undone"} ELSE races

(* The pipeline runner reads the row of the list when it takes the entry.  *)
Take(m) ==
    /\ work["pipeline"].pc = "idle" /\ posts[m] = "queued"
    /\ posts' = [posts EXCEPT ![m] = "taken"]
    /\ work' = [work EXCEPT !["pipeline"] =
                  [Idle EXCEPT !.pc = "handlers", !.msg = m, !.seen = list, !.row = list]]
    /\ UNCHANGED <<settings, today, database, files, digester, numbering, races, requests, faults>>

(* to-digest: Mailbox(mailbox_path, create=True) opens the file ...        *)
OpenMailbox ==
    LET w == work["pipeline"]
        new == IF Exists(Current) THEN dir ELSE With(dir, Current, NewInode)
    IN  /\ w.pc = "handlers"
        /\ dir' = new
        /\ box' = IF Exists(Current) THEN box ELSE With(box, NewInode, <<>>)
        /\ work' = [work EXCEPT !["pipeline"].pc = "open", !["pipeline"].inode = new[Current]]
        /\ UNCHANGED <<settings, today, database, added, posts, digester, numbering,
                       races, requests, faults>>

(* ... locks what it has opened, and appends, whatever its name is by now. *)
AddMessage ==
    LET w == work["pipeline"]
    IN  /\ w.pc = "open"
        /\ IF Locked(w.inode)
           THEN Fails("pipeline") /\ UNCHANGED files
           ELSE /\ box' = IF w.inode \in Range(dir)
                          THEN [box EXCEPT ![w.inode] = Append(@, w.msg)]
                          ELSE Restrict(box, DOMAIN box \ {w.inode})
                /\ added' = [added EXCEPT ![w.msg] = @ + 1]
                /\ work' = [work EXCEPT !["pipeline"].pc = "check", !["pipeline"].inode = 0]
                /\ races' = IF Exists(Current) /\ dir[Current] = w.inode THEN races
                            ELSE races \cup {"open"}
                /\ UNCHANGED <<dir, posts>>
        /\ UNCHANGED <<settings, today, database, digester, numbering, requests, faults>>

(***************************************************************************)
(* maybe_send_digest_now.                                                  *)
(***************************************************************************)
Due(w) == \/ Size(Current) >= settings.threshold
          \/ w.force /\ Size(Current) > 0
AfterSending(p) == IF p = "pipeline" THEN "later" ELSE "commit"
(* Somebody else has numbered a digest since this transaction read the row.*)
Overtaken(p) == \/ list # work[p].seen
                \/ \E q \in Senders \ {p} : work[q].row # work[q].seen

(* The size, and the number in the session.  The digest has the volume and *)
(* the number of before.                                                   *)
CheckSize(p) ==
    LET w == work[p]
    IN  /\ w.pc = "check"
        /\ IF Due(w)
           THEN /\ work' = [work EXCEPT ![p] =
                              [w EXCEPT !.pc = "rename", !.row = Bumped(w.row),
                                        !.dest = <<w.row.volume, w.row.number>>]]
                /\ races' = IF Overtaken(p) THEN races \cup {"number"} ELSE races
           ELSE /\ work' = [work EXCEPT ![p].pc = AfterSending(p)]
                /\ UNCHANGED races
        /\ UNCHANGED <<settings, today, database, files, posts, digester, numbering,
                       requests, faults>>

(* Mutant: the mailbox is copied.                                          *)
CopyMailbox(p) ==
    LET w == work[p]
    IN  /\ w.pc = "rename"
        /\ IF Exists(Current)
           THEN /\ dir' = With(dir, w.dest, NewInode)
                /\ box' = With(box, NewInode, box[dir[Current]])
                /\ work' = [work EXCEPT ![p].pc = "enqueue", ![p].moved = TRUE]
                /\ UNCHANGED <<posts, races>>
           ELSE Fails(p) /\ UNCHANGED <<dir, box>>
        /\ UNCHANGED <<settings, today, database, added, digester, numbering,
                       requests, faults>>
(* os.rename: what has the new name is gone, and there must be a mailbox.  *)
RenameMailbox(p) ==
    LET w == work[p]
    IN  /\ w.pc = "rename"
        /\ IF Exists(Current)
           THEN /\ dir' = With(Restrict(dir, DOMAIN dir \ {Current}), w.dest, dir[Current])
                /\ box' = Kept(dir')
                /\ work' = [work EXCEPT ![p].pc = "enqueue", ![p].moved = TRUE]
                /\ UNCHANGED <<posts, races>>
           ELSE Fails(p) /\ UNCHANGED <<dir, box>>
        /\ UNCHANGED <<settings, today, database, added, digester, numbering,
                       requests, faults>>

Before(a, b) == a[1] < b[1] \/ (a[1] = b[1] /\ a[2] < b[2])
EnqueueTrigger(p) ==
    /\ work[p].pc = "enqueue"
    /\ trigger' = With(trigger, NewId, [path |-> work[p].dest, queue |-> "digest"])
    /\ latest' = work[p].dest
    /\ fell' = (fell \/ ~Before(latest, work[p].dest))
    /\ work' = [work EXCEPT ![p].pc = AfterSending(p)]
    /\ UNCHANGED <<settings, today, database, files, posts, runner, issued, got,
                   races, requests, faults>>

(* The handlers after to-digest; one of them fails; the file of the entry  *)
(* is removed.                                                             *)
LaterHandlers ==
    /\ work["pipeline"].pc = "later"
    /\ \/ /\ posts' = [posts EXCEPT ![work["pipeline"].msg] = "done"]
          /\ work' = [work EXCEPT !["pipeline"].pc = "commit"]
          /\ UNCHANGED <<races, faults>>
       \/ /\ faults < settings.faults /\ faults' = faults + 1
          /\ Fails("pipeline")
    /\ UNCHANGED <<settings, today, database, files, digester, numbering, requests>>

Commit(p) ==
    /\ work[p].pc = "commit"
    /\ list' = Committed(work[p])
    /\ races' = IF work[p].row # work[p].seen /\ Overtaken(p) THEN races \cup {"number"}
                ELSE races
    /\ work' = [work EXCEPT ![p] = Idle]
    /\ UNCHANGED <<settings, today, olds, preferences, changed, files, posts, digester,
                   numbering, requests, faults>>

(* A process dies.  The entry of a posting is taken up from its backup.    *)
Crash(p) ==
    /\ work[p].pc # "idle"
    /\ faults < settings.faults /\ faults' = faults + 1
    /\ posts' = [m \in Msgs |-> IF p = "pipeline" /\ posts[m] = "taken" THEN "queued"
                                ELSE posts[m]]
    /\ work' = [work EXCEPT ![p] = Idle]
    /\ races' = IF work[p].moved THEN races \cup {"undone"} ELSE races
    /\ UNCHANGED <<settings, today, database, files, digester, numbering, requests>>

(* `mailman digests' with --bump, --send or --periodic, and POST of them to*)
(* the digest of a list, where the first two may come together.  The cron  *)
(* job is --periodic; digest_send_periodic is on, as in all styles.        *)
Administer(bump, send) ==
    /\ work["admin"].pc = "idle"
    /\ work' = [work EXCEPT !["admin"] =
                  [Idle EXCEPT !.pc = IF send THEN "check" ELSE "commit", !.force = TRUE,
                               !.seen = list,
                               !.row = IF bump THEN Bumped(list) ELSE list]]
    /\ UNCHANGED <<settings, today, database, files, posts, digester, numbering,
                   races, faults>>
Request ==
    /\ requests < settings.requests /\ requests' = requests + 1
    /\ \E send \in BOOLEAN : Administer(TRUE, send)
Cron ==
    /\ Exists(Current) \/ settings.threshold = 0
    /\ Administer(FALSE, TRUE)
    /\ UNCHANGED requests

(***************************************************************************)
(* The digest runner.                                                      *)
(***************************************************************************)
Waiting == {i \in DOMAIN trigger : trigger[i].queue = "digest"}
Shunt(i) == trigger' = [trigger EXCEPT ![i].queue = "shunt"]

(* Mailbox(digest_path) makes the file if there is none; locking it fails  *)
(* if the pipeline runner has it open and locked.                          *)
Dequeue(i) ==
    LET path == trigger[i].path
        new == IF Exists(path) THEN dir ELSE With(dir, path, NewInode)
    IN  /\ runner.pc = "idle" /\ i \in Waiting
        /\ dir' = new
        /\ box' = IF Exists(path) THEN box ELSE With(box, NewInode, <<>>)
        /\ \/ /\ runner' = [Asleep EXCEPT !.pc = "reading", !.id = i, !.inode = new[path]]
              /\ UNCHANGED trigger
           \/ /\ OpenElsewhere(new[path])
              /\ Shunt(i)
              /\ UNCHANGED runner
        /\ UNCHANGED <<settings, today, database, added, posts, work, issued, got,
                       numbering, races, requests, faults>>

(* Mutant: the system is asked before the user.                            *)
LookupInOrder(r, preference) ==
    LET order == <<"member", "address", "system", "user">>
        set == {k \in DOMAIN order : preferences[r][order[k]][preference] # "unset"}
    IN  preferences[r][order[Min(set)]][preference]
(* member._lookup.                                                         *)
Lookup(r, preference) ==
    LET set == {k \in DOMAIN Levels : preferences[r][Levels[k]][preference] # "unset"}
    IN  preferences[r][Levels[Min(set)]][preference]
(* The members of digest_members whose delivery is enabled.                *)
Getting(modes) == {r \in Readers : /\ Lookup(r, "delivery_mode") \in modes
                                   /\ Lookup(r, "delivery_status") = "enabled"}

(* Both digests are made, and the recipients are looked up;                *)
(* last_digest_recipients deletes the rows it returns.                     *)
Build ==
    LET contents == box[runner.inode]
    IN  /\ runner.pc = "reading"
        /\ IF contents = <<>>
           THEN Shunt(runner.id) /\ runner' = Asleep
           ELSE /\ runner' = [runner EXCEPT
                                !.pc = "sending", !.inode = 0, !.contents = contents, !.ended = (olds # {}),
                                !.mime = Getting({"mime", "summary"}),
                                !.plain = Getting({"plaintext"}) \cup olds]
                /\ UNCHANGED trigger
        /\ UNCHANGED <<settings, today, database, files, posts, work, issued, got,
                       numbering, races, requests, faults>>

Sent(S) == got' = [r \in DOMAIN got |-> IF r \in S THEN got[r] \cup Range(runner.contents)
                                        ELSE got[r]]
SendMime ==
    /\ runner.pc = "sending"
    /\ Sent(runner.mime)
    /\ runner' = [runner EXCEPT !.pc = "plain"]
    /\ UNCHANGED <<settings, today, database, files, posts, work, trigger, issued,
                   numbering, races, requests, faults>>
SendPlain ==
    /\ runner.pc = "plain"
    /\ Sent(runner.plain)
    /\ runner' = [runner EXCEPT !.pc = "remove"]
    /\ UNCHANGED <<settings, today, database, files, posts, work, trigger, issued,
                   numbering, races, requests, faults>>

Positions(s, m) == {i \in DOMAIN s : s[i] = m}
Count(s, m) == Cardinality(Positions(s, m))
(* os.remove(digest_path).                                                 *)
RemoveMailbox ==
    /\ runner.pc = "remove"
    /\ dir' = Restrict(dir, DOMAIN dir \ {trigger[runner.id].path})
    /\ box' = Kept(dir')
    /\ issued' = [m \in Msgs |-> issued[m] + Count(runner.contents, m)]
    /\ runner' = [runner EXCEPT !.pc = "finish"]
    /\ UNCHANGED <<settings, today, database, added, posts, work, trigger, got,
                   numbering, races, requests, faults>>

FinishDigest ==
    /\ runner.pc = "finish"
    /\ trigger' = Without(runner.id)
    /\ olds' = IF runner.ended THEN {} ELSE olds
    /\ runner' = Asleep
    /\ UNCHANGED <<settings, today, list, preferences, changed, files, posts, work, issued, got,
                   numbering, races, requests, faults>>

DigestCrash ==
    /\ runner.pc # "idle"
    /\ faults < settings.faults /\ faults' = faults + 1
    /\ runner' = Asleep
    /\ UNCHANGED <<settings, today, database, files, posts, work, trigger, issued, got,
                   numbering, races, requests>>

(***************************************************************************)
(* What else happens.                                                      *)
(***************************************************************************)
(* PATCH, PUT and DELETE of the preferences of the member, of its address  *)
(* or of its user; PATCH of the member sets the mode.                      *)
ChangePreferences(c) ==
    /\ changed < settings.changes /\ changed' = changed + 1
    /\ preferences' = [preferences EXCEPT ![Changing][c.level] =
                         IF c.prefs = Unset THEN Unset
                         ELSE [p \in DOMAIN @ |-> IF c.prefs[p] = "unset" THEN @[p] ELSE c.prefs[p]]]
    /\ UNCHANGED <<settings, today, list, olds, files, posts, work, digester, numbering,
                   races, requests, faults>>
NextDay ==
    /\ today < settings.days /\ today' = today + 1
    /\ UNCHANGED <<settings, database, files, posts, work, digester, numbering, races,
                   requests, faults>>
Unshunt ==
    /\ faults < settings.faults /\ faults' = faults + 1
    /\ \/ \E m \in Msgs :
             /\ posts[m] = "shunted"
             /\ posts' = [posts EXCEPT ![m] = "queued"]
             /\ UNCHANGED trigger
       \/ \E i \in DOMAIN trigger :
             /\ trigger[i].queue = "shunt"
             /\ trigger' = [trigger EXCEPT ![i].queue = "digest"]
             /\ UNCHANGED posts
    /\ UNCHANGED <<settings, today, database, files, work, runner, issued, got, numbering,
                   races, requests>>

Sending(p) == CheckSize(p) \/ RenameMailbox(p) \/ EnqueueTrigger(p) \/ Commit(p)
PipelineRunner == \/ \E m \in Msgs : Take(m)
                  \/ OpenMailbox \/ AddMessage \/ LaterHandlers
                  \/ Sending("pipeline")
DigestRunner == \/ \E i \in DOMAIN trigger : Dequeue(i)
                \/ Build \/ SendMime \/ SendPlain \/ RemoveMailbox
                \/ FinishDigest

Next ==
    \/ PipelineRunner \/ DigestRunner \/ Sending("admin")
    \/ Request \/ Cron
    \/ \E p \in Senders : Crash(p)
    \/ DigestCrash \/ Unshunt
    \/ \E c \in Wishes : ChangePreferences(c)
    \/ NextDay

Spec == Init /\ [][Next]_vars

(* The runners are scheduled, a command ends, and the cron job is run.     *)
FairSpec == /\ Spec
            /\ WF_vars(PipelineRunner) /\ WF_vars(DigestRunner)
            /\ WF_vars(Sending("admin")) /\ WF_vars(Cron)

(***************************************************************************)
(* Properties.                                                             *)
(***************************************************************************)
(* The mailboxes that still lead somewhere: the current one, and what a    *)
(* trigger names, or a sender that will queue one.                         *)
Alive == {Current} \cup {trigger[i].path : i \in DOMAIN trigger}
         \cup {work[p].dest : p \in {q \in Senders : work[q].pc = "enqueue"}}
(* Where these have a posting: [mailbox, position].                        *)
Places(m) == UNION {{n} \X Positions(box[dir[n]], m) : n \in DOMAIN dir \cap Alive}

(* Every posting that was appended is in one mailbox that will be sent or  *)
(* in one digest that was, as often as it was appended, unless a file was  *)
(* renamed under an open handle, two transactions took one number, or the  *)
(* one that renamed was undone (app/digests.py:87-112, to_digest.py:46-49).*)
EachPostingInOneDigest ==
    races = {} =>
      \A m \in Msgs : added[m] = Cardinality(Places(m)) + issued[m]

(* The volumes and numbers of the digests rise, whatever day it is and     *)
(* however often somebody bumps them, under the same conditions            *)
(* (app/digests.py:30-64).                                                 *)
NumbersRise == races = {} => ~fell

(* Whoever is on digests all the time gets every posting that entered the  *)
(* mailbox, as long as the cron job runs (digest.py:290-374), unless a     *)
(* trigger was shunted or one of those races happened.                     *)
ReadersGetEverything ==
    \A m \in Msgs : \A r \in Readers \ {Changing} :
      added[m] > 0 ~> \/ m \in got[r]
                      \/ races # {}
                      \/ \E i \in DOMAIN trigger : trigger[i].queue = "shunt"
================================================================================
