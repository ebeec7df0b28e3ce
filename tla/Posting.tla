-------------------------------- MODULE Posting ---------------------------------
(***************************************************************************)
(* The way of a posting: the incoming runner takes it through the chains   *)
(* of its list, link by link (mailman/runners/incoming.py and              *)
(* mailman/core/chains.py), and the pipeline runner what was accepted      *)
(* through the handlers, one by one (mailman/runners/pipeline.py and       *)
(* mailman/core/pipelines.py).                                             *)
(*                                                                         *)
(* Meanwhile bans, memberships and header matches change over REST: the    *)
(* rules ask the database each time, the settings of the list are read     *)
(* once.  What a runner writes to the database is committed after the file *)
(* is gone; what it puts into a queue is there at once.                    *)
(***************************************************************************)
EXTENDS Handlers, TLC

CONSTANTS
    Scenarios,      \* [list, m, d, to, pended, bound]: what may be mailed
                    \* where, and how many changes, faults and mails there
                    \* may be
    Bans,           \* addresses that may be banned or unbanned
    Joiners,        \* addresses that may join or leave
    HeaderMatches,  \* lists of header matches, as sequences of [pattern, chain]
    Members,        \* the members at first
    MaxResponses    \* [mta]max_autoresponses_per_day

ASSUME PostingAssumption ==
    /\ MaxResponses \in Nat
    /\ Members \cup Joiners \cup Bans \subseteq Addrs
    /\ HeaderMatches \subseteq Seq(HeaderMatch)
    /\ \A s \in Scenarios :
          /\ s.bound \in [changes : Nat, faults : Nat, rounds : Nat]
          /\ s.list.defaultMemberAction \in Actions
          /\ s.list.defaultNonmemberAction \in Actions
          /\ s.list.dmarcAction \in DmarcActions
          /\ IsMessage(s.m) /\ DOMAIN s.d = DataFields

VARIABLES
    list,       \* the settings of the list
    db,         \* what is committed: members, nonmembers, bans, responses...
    inq, pipeq, shunt,      \* the queues, as sequences of [m, d]
    inc,        \* the incoming runner
    pip,        \* the pipeline runner
    rules,      \* config.rules of the incoming runner: header-match-<list>-<i>
    sent,       \* what was put into the other queues
    entered,    \* history: how often the mail server put it into "in"
    fates,      \* history: how chains ended for the posting
    asked,      \* history: the file and the database when it was taken, who
                \* was banned ever since, whether anything changed
    shown,      \* history: what the copies say, and whether of the author
    raised,     \* history: what the handlers raised
    bound,      \* of the scenario: [changes, faults, rounds]
    round, changes, faults

queues == <<inq, pipeq, shunt>>
history == <<entered, fates, asked, shown, raised>>
bounds == <<bound, round, changes, faults>>
vars == <<list, db, queues, inc, pip, rules, sent, history, bounds>>

Queues == {"virgin", "archive", "digest", "nntp", "out", "bad", "bounces", "elsewhere"}
NoFile == <<>>
IdleIn == [pc |-> "idle", file |-> NoFile, m |-> NoFile, d |-> NoFile,
           chain |-> "none", next |-> 1, stack |-> <<>>, entries |-> <<>>,
           responded |-> {}, strangers |-> {}, held |-> FALSE, noted |-> {}]
IdlePip == [pc |-> "idle", file |-> NoFile, next |-> 1, m |-> NoFile,
            d |-> NoFile, posts |-> 0]
NothingAsked == [file |-> NoFile, db |-> NoFile, banned |-> {}, changed |-> FALSE]

(* Between two postings there is nothing under way.                        *)
Quiet == inq = <<>> /\ pipeq = <<>> /\ inc.pc = "idle" /\ pip.pc = "idle"

(* The scenario s, with files in the incoming queue.                       *)
Start(s, files) ==
    /\ list = s.list /\ bound = s.bound
    /\ inq = files
    /\ \E h \in HeaderMatches :
          db = [member |-> [a \in Addrs |-> IF a \in Members THEN "default" ELSE "no"],
                nonmember |-> [a \in Addrs |-> "no"],
                banned |-> {}, responded |-> {}, headers |-> h, pended |-> s.pended,
                posts |-> 1, held |-> 0, notes |-> [a \in Addrs |-> 0]]
    /\ pipeq = <<>> /\ shunt = <<>>
    /\ inc = IdleIn /\ pip = IdlePip
    /\ rules = <<>>
    /\ sent = [q \in Queues |-> 0]
    /\ entered = Len(files)
    /\ fates = <<>> /\ shown = {} /\ raised = {} /\ asked = NothingAsked
    /\ round = 1 /\ changes = 0 /\ faults = 0

(***************************************************************************)
(* The incoming runner.                                                    *)
(***************************************************************************)
Robots == {"bulk", "junk", "list"}

(* What the replybot may do, for postings, mail to the owners and commands *)
(* to the -request address.                                                *)
ResponseAction(d) ==
    IF d.toOwner THEN list.autorespondOwner
    ELSE CASE d.subaddress = "request" -> list.autorespondRequests
           [] d.subaddress = "none" -> list.autorespondPostings
           [] OTHER -> "none"
Replies(m, d) ==
    /\ m.ack # "no"
    /\ m.ack = "yes" \/ m.precedence \notin Robots
    /\ ResponseAction(d) # "none"
    /\ \/ list.gracePeriod = 0 \/ m.ack = "yes"
       \/ Senders(m) = <<>> \/ Head(Senders(m)) \notin db.responded

(* Nobody is answered when there is nobody to answer: that fails.          *)
TakeIn ==
    /\ inc.pc = "idle" /\ inq # <<>>
    /\ LET f == Head(inq)
           replies == Replies(f.m, f.d)
           fails == replies /\ Senders(f.m) = <<>>
           discards == ResponseAction(f.d) = "respond_and_discard"
       IN  /\ inq' = Tail(inq)
           /\ inc' = [IdleIn EXCEPT
                        !.pc = IF fails THEN "error"
                               ELSE IF discards THEN "finish" ELSE "register",
                        !.file = f, !.m = f.m, !.d = f.d,
                        !.responded = IF replies /\ ~fails
                                     THEN {Head(Senders(f.m))} ELSE {}]
           /\ sent' = IF replies /\ ~fails
                      THEN [sent EXCEPT !["virgin"] = @ + 1] ELSE sent
           /\ fates' = IF discards /\ ~fails THEN Append(fates, "responded") ELSE fates
           /\ asked' = [file |-> f, db |-> db, banned |-> db.banned, changed |-> FALSE]
    /\ UNCHANGED <<list, db, pipeq, shunt, pip, rules, entered, shown, raised, bounds>>

(* The addresses of the senders are registered, which commits, and the     *)
(* first chain begins.                                                     *)
Register ==
    /\ inc.pc = "register"
    /\ db' = [db EXCEPT !.responded = @ \cup inc.responded]
    /\ inc' = [inc EXCEPT !.pc = "link", !.responded = {}, !.next = 1,
                          !.chain = IF inc.d.toOwner THEN "default-owner-chain"
                                    ELSE "default-posting-chain",
                          !.d.hits = {}]
    /\ UNCHANGED <<list, queues, pip, rules, sent, history, bounds>>

(* What this transaction sees of the nonmembers.                           *)
Seen == [db EXCEPT !.nonmember = [a \in Addrs |->
            IF a \in inc.strangers /\ @[a] = "no" THEN "default" ELSE @[a]]]

(* The header matches are read from the database when the chain gets       *)
(* there, and a rule that config.rules has for the position is used as it  *)
(* is.                                                                     *)
RuleOf == [i \in DOMAIN inc.entries |->
              IF i \in DOMAIN rules THEN rules[i] ELSE inc.entries[i].pattern]
Here == Links(inc.chain, inc.d, inc.entries, RuleOf)
Position == inc.next - Len(SiteChecks) - 1

Remember ==
    rules' = IF inc.chain = "header-match" /\ Position \in DOMAIN inc.entries
             THEN [i \in {Position} \cup DOMAIN rules |->
                      IF i = Position THEN RuleOf[i] ELSE rules[i]]
             ELSE rules

(* Mutant: the chain that made the detour starts again.                    *)
RestartDetour(w) == [w EXCEPT !.chain = Head(w.stack).chain,
                              !.next = 1, !.stack = Tail(@)]
(* A chain is exhausted: the last one on the stack goes on.                *)
Return(w) == [w EXCEPT !.chain = Head(w.stack).chain,
                       !.next = Head(w.stack).next, !.stack = Tail(@)]

Jumped(w, chain) ==
    [w EXCEPT !.chain = chain, !.next = 1,
              !.entries = IF chain = "header-match" THEN db.headers ELSE @]

(* What the action of a link does that matched.                            *)
Followed(w, link) ==
    CASE link.action = "jump" -> Jumped(w, link.chain)
      [] link.action = "detour" ->
            [Jumped(w, link.chain) EXCEPT
                !.stack = <<[chain |-> w.chain, next |-> w.next]>> \o @]
      [] link.action = "stop" -> [w EXCEPT !.pc = "finish"]
      [] link.action \in {"defer", "run"} -> w

(* May the author of a held message get a notice?  List-* headers tell of  *)
(* another list; Precedence: is only noticed in lower case, as nobody      *)
(* writes it.                                                              *)
CanAcknowledge(m) == m.listPost = "none" /\ m.ack # "no"
AsksToRespond == ~inc.d.fromUsenet /\ CanAcknowledge(inc.m) /\ list.respondToPostRequests

(* One notice for each of the first messages of the day, then one that     *)
(* says that no more will come.                                            *)
Noted == IF Senders(inc.m) = <<>> THEN 0 ELSE db.notes[Head(Senders(inc.m))]
RespondsToAuthor == AsksToRespond /\ (MaxResponses = 0 \/ Noted <= MaxResponses)
NotesAuthor == AsksToRespond /\ MaxResponses # 0 /\ Noted <= MaxResponses

Count(condition) == IF condition THEN 1 ELSE 0
HoldNotices == Count(RespondsToAuthor) + Count(list.adminImmedNotify)

(* The process of a terminal chain.                                        *)
Process(chain) ==
    LET notices == CASE chain = "hold" -> HoldNotices
                     [] chain = "reject" -> Count(Senders(inc.m) # <<>>)
                     [] OTHER -> 0
    IN  /\ pipeq' = IF chain \in {"accept", "default-owner-chain"}
                    THEN Append(pipeq, [m |-> inc.m, d |-> inc.d]) ELSE pipeq
        /\ sent' = [sent EXCEPT !["virgin"] = @ + notices]
        /\ fates' = Append(fates, chain)

Exhausted == inc.next > Len(Here)

Holds(link) == link.action = "run" /\ inc.chain = "hold"

FollowLink ==
    /\ inc.pc = "link" /\ ~Exhausted
    /\ LET link == Here[inc.next]
           hit == Matches(link, list, inc.m, inc.d, Seen)
           w == [inc EXCEPT
                   !.next = @ + 1,
                   !.m = Stripped(link, list, @),
                   !.d = Checked(link, list, inc.m, @, Seen),
                   !.strangers = IF link.rule = "nonmember-moderation"
                                 THEN @ \cup Strangers(inc.m, Seen) ELSE @,
                   !.held = @ \/ Holds(link),
                   !.noted = IF Holds(link) /\ NotesAuthor
                             THEN {Head(Senders(inc.m))} ELSE @]
       IN  IF Fails(link, list, inc.m)
           THEN /\ inc' = [inc EXCEPT !.pc = "error"]
                /\ UNCHANGED <<pipeq, sent, fates>>
           ELSE /\ inc' = IF hit THEN Followed(w, link) ELSE w
                /\ IF hit /\ link.action = "run" THEN Process(inc.chain)
                   ELSE UNCHANGED <<pipeq, sent, fates>>
    /\ Remember
    /\ UNCHANGED <<list, db, inq, shunt, pip, entered, asked, shown, raised, bounds>>

ReturnOrStop ==
    /\ inc.pc = "link" /\ Exhausted
    /\ inc' = IF inc.stack = <<>> THEN [inc EXCEPT !.pc = "finish"] ELSE Return(inc)
    /\ UNCHANGED <<list, db, queues, pip, rules, sent, history, bounds>>

FinishIn ==
    /\ inc.pc = "finish"
    /\ inc' = [inc EXCEPT !.pc = "commit", !.file = NoFile]
    /\ UNCHANGED <<list, db, queues, pip, rules, sent, history, bounds>>

CommitIn ==
    /\ inc.pc = "commit"
    /\ db' = [Seen EXCEPT !.responded = @ \cup inc.responded,
                          !.notes = [a \in Addrs |-> @[a] + Count(a \in inc.noted)],
                          !.held = @ + Count(inc.held)]
    /\ inc' = IdleIn
    /\ UNCHANGED <<list, queues, pip, rules, sent, history, bounds>>

(* An exception: the message goes to the shunt queue as it is in memory,   *)
(* the transaction is aborted.                                             *)
Shunted(w, q) == Append(shunt, [m |-> w.m, d |-> w.d, whichq |-> q])
ShuntIn ==
    /\ inc.pc = "error"
    /\ shunt' = Shunted(inc, "in")
    /\ inc' = IdleIn
    /\ UNCHANGED <<list, db, inq, pipeq, pip, rules, sent, history, bounds>>

(***************************************************************************)
(* The pipeline runner.                                                    *)
(***************************************************************************)
TakePip ==
    /\ pip.pc = "idle" /\ pipeq # <<>>
    /\ LET f == Head(pipeq)
       IN  pip' = [IdlePip EXCEPT !.pc = "handle", !.file = f, !.m = f.m,
                                  !.d = f.d, !.posts = db.posts]
    /\ pipeq' = Tail(pipeq)
    /\ UNCHANGED <<list, db, inq, shunt, inc, rules, sent, history, bounds>>

Work == [m |-> pip.m, d |-> pip.d, posts |-> pip.posts, sent |-> sent,
         end |-> "returned"]

(* Who wrote the posting, and is it said where a reader looks?  If From:   *)
(* is the list, the first author is where an answer finds him.             *)
Author == asked.file.m.from
Names(m) ==
    \/ Range(Author) \subseteq Range(m.from)
    \/ Author[1] \in Range(m.replyTo) \cup Range(m.sender) \cup m.cc
(* No author is named but by himself in Cc:, or by a setting of the list.  *)
Hides(m) ==
    Range(Author) \cap (Range(m.from) \cup Range(m.replyTo) \cup Range(m.sender)
                        \cup (m.cc \ asked.file.m.cc))
        \subseteq {Posting, list.replyToAddress}
Copied(w) == {q \in {"archive", "digest", "nntp", "out"} : w.sent[q] # sent[q]}

(* What readers get of it, or moderators; and did the pipeline take it as  *)
(* it was posted?  The outgoing runner decorates a copy.                   *)
Copy(q, m) ==
    [queue |-> q, toOwner |-> pip.d.toOwner, anew |-> pip.file.m.from # Author,
     named |-> Names(m), hidden |-> Hides(m),
     text |-> Read(IF q = "out" THEN Decorate(list, m.body) ELSE m.body),
     prefixes |-> Cardinality({i \in DOMAIN m.chunks : m.chunks[i].prefixed})]

(* Whatever a handler raises to discard or to reject is noted in the log,  *)
(* a rejected message is bounced, and the next handler gets it.            *)
Handle ==
    /\ pip.pc = "handle" /\ pip.next <= Len(Pipeline(pip.d))
    /\ \E w \in {Handled(Pipeline(pip.d)[pip.next], list, Work, db)} :
           /\ pip' = [pip EXCEPT !.pc = IF w.end = "error" THEN "error" ELSE @,
                                 !.next = @ + 1, !.m = w.m, !.d = w.d,
                                 !.posts = w.posts]
           /\ sent' = [w.sent EXCEPT !["virgin"] =
                          @ + Count(w.end = "reject" /\ Senders(w.m) # <<>>)]
           /\ shown' = shown \cup {Copy(q, w.m) : q \in Copied(w)}
           /\ raised' = raised \cup ({w.end} \cap {"discard", "reject"})
    /\ UNCHANGED <<list, db, queues, inc, rules, entered, fates, asked, bounds>>

FinishPip ==
    /\ pip.pc = "handle" /\ pip.next > Len(Pipeline(pip.d))
    /\ pip' = [pip EXCEPT !.pc = "commit", !.file = NoFile]
    /\ UNCHANGED <<list, db, queues, inc, rules, sent, history, bounds>>

CommitPip ==
    /\ pip.pc = "commit"
    /\ db' = [db EXCEPT !.posts = pip.posts]
    /\ pip' = IdlePip
    /\ UNCHANGED <<list, queues, inc, rules, sent, history, bounds>>

ShuntPip ==
    /\ pip.pc = "error"
    /\ shunt' = Shunted(pip, "pipeline")
    /\ pip' = IdlePip
    /\ UNCHANGED <<list, db, inq, pipeq, inc, rules, sent, history, bounds>>

(***************************************************************************)
(* Faults: a runner dies, and its successor finds the backup of the file;  *)
(* or a handler fails.                                                     *)
(***************************************************************************)
Fault == faults < bound.faults /\ faults' = faults + 1

Recovered(w, queue) == (IF w.file = NoFile THEN <<>> ELSE <<w.file>>) \o queue
CrashIn ==
    /\ inc.pc # "idle" /\ Fault
    /\ inq' = Recovered(inc, inq)
    /\ inc' = IdleIn /\ rules' = <<>>
    /\ UNCHANGED <<list, db, pipeq, shunt, pip, sent, history, bound, round, changes>>
CrashPip ==
    /\ pip.pc # "idle" /\ Fault
    /\ pipeq' = Recovered(pip, pipeq)
    /\ pip' = IdlePip
    /\ UNCHANGED <<list, db, inq, shunt, inc, rules, sent, history, bound, round, changes>>
FailPip ==
    /\ pip.pc = "handle" /\ Fault
    /\ pip' = [pip EXCEPT !.pc = "error"]
    /\ UNCHANGED <<list, db, queues, inc, rules, sent, history, bound, round, changes>>

(***************************************************************************)
(* What people do meanwhile.                                               *)
(***************************************************************************)
Change(new) ==
    /\ changes < bound.changes /\ changes' = changes + 1
    /\ new # db /\ db' = new
    /\ asked' = [asked EXCEPT !.changed = TRUE, !.banned = @ \cap new.banned]
    /\ UNCHANGED <<list, queues, inc, pip, rules, sent, entered, fates, shown, raised,
                   bound, round, faults>>

Ban(a) == Change([db EXCEPT !.banned = @ \cup {a}])
Unban(a) == Change([db EXCEPT !.banned = @ \ {a}])
Join(a) == Change([db EXCEPT !.member[a] = "default"])
Leave(a) == Change([db EXCEPT !.member[a] = "no"])
SetHeaderMatches(h) == Change([db EXCEPT !.headers = h])

(* The unshunt command.                                                    *)
Unshunt ==
    /\ shunt # <<>> /\ Head(shunt).whichq # "command"
    /\ changes < bound.changes /\ changes' = changes + 1
    /\ LET e == Head(shunt)
           f == [m |-> e.m, d |-> e.d]
       IN  /\ inq' = IF e.whichq = "in" THEN Append(inq, f) ELSE inq
           /\ pipeq' = IF e.whichq = "pipeline" THEN Append(pipeq, f) ELSE pipeq
    /\ shunt' = Tail(shunt)
    /\ UNCHANGED <<list, db, inc, pip, rules, sent, history, bound, round, faults>>

(* The same message is posted once more.                                   *)
Repost ==
    /\ Quiet /\ asked.file # NoFile /\ shunt = <<>> /\ round < bound.rounds /\ round' = round + 1
    /\ inq' = <<asked.file>>
    /\ sent' = [q \in Queues |-> 0]
    /\ entered' = 1 /\ fates' = <<>> /\ shown' = {} /\ raised' = {}
    /\ UNCHANGED <<list, db, pipeq, shunt, inc, pip, rules, asked, bound, changes, faults>>

RunIn == TakeIn \/ Register \/ FollowLink \/ ReturnOrStop \/ FinishIn \/ CommitIn \/ ShuntIn
RunPip == TakePip \/ Handle \/ FinishPip \/ CommitPip \/ ShuntPip
People ==
    \/ \E a \in Bans : Ban(a) \/ Unban(a)
    \/ \E a \in Joiners : Join(a) \/ Leave(a)
    \/ \E h \in HeaderMatches : SetHeaderMatches(h)
    \/ Unshunt \/ Repost

(***************************************************************************)
(* Properties.                                                             *)
(***************************************************************************)
(* Whatever gets into the incoming queue meets one fate: the terminal      *)
(* chain that processes it is the last one.  Only a crash or an unshunt    *)
(* may have it go through again, and only an exception lets it go without. *)
OneDisposition ==
    /\ Len(fates) <= entered + faults + changes
    /\ (Quiet /\ faults = 0 /\ changes = 0 /\ shunt = <<>>) => Len(fates) = entered

(* What the chains of mailman/chains come to, as one list of cases: the    *)
(* first that applies decides.  (rules/docs and the comments of            *)
(* chains/builtin.py give the order.)                                      *)
Cases(l, m, d, s) ==
    LET site == {i \in DOMAIN SiteChecks : HeaderMatchRule(m, SiteChecks[i])}
        own == {i \in DOMAIN s.headers : HeaderMatchRule(m, s.headers[i].pattern)}
        first == s.headers[Min(own)].chain
        curious == \/ Administrivia(l, m) \/ ImplicitDestination(l, m, d)
                   \/ MaximumRecipients(l, m) \/ MaximumSize(l, m)
                   \/ ModeratedNewsgroup(l) \/ NoSubject(m)
                   \/ SuspiciousHeader(l, m)
    IN  <<[if |-> d.toOwner, fate |-> "default-owner-chain"],
          [if |-> DmarcMitigation(l, m), fate |-> l.dmarcAction],
          [if |-> NoSenders(m), fate |-> "discard"],
          [if |-> Approved(l, m), fate |-> "accept"],
          [if |-> Emergency(l, d), fate |-> "hold"],
          [if |-> Loop(m) \/ BannedAddress(m, s), fate |-> "discard"],
          [if |-> MemberAction(l, m, s) # "defer", fate |-> MemberAction(l, m, s)],
          [if |-> site # {}, fate |-> JumpChain],
          [if |-> own # {},
           fate |-> IF own = {} \/ first = "none" THEN JumpChain ELSE first],
          [if |-> NonmemberModeration(l, m, s), fate |-> NonmemberAction(l, m, s)],
          [if |-> curious, fate |-> "hold"],
          [if |-> TRUE, fate |-> "accept"]>>

(* While nothing changes, the interpreter with its jumps, its detour and   *)
(* its stack decides as the list of cases says.                            *)
DecidesByTheFirstCase ==
    (/\ inc.pc = "finish" /\ inc.chain \in Terminal
     /\ changes = 0 /\ ~asked.changed)
    => LET cases == Cases(list, asked.file.m, asked.file.d, asked.db)
           applying == {i \in DOMAIN cases : cases[i].if}
       IN  fates[Len(fates)] = cases[Min(applying)].fate

(* Whoever was banned before the runner took the message, and still is, is *)
(* not heard unless with the password of a moderator, whatever else        *)
(* changes meanwhile.                                                      *)
BannedStayOut ==
    (/\ inc.pc = "finish" /\ ~inc.d.toOwner
     /\ Range(Senders(asked.file.m)) \cap asked.banned # {})
    => \/ fates[Len(fates)] # "accept"
       \/ Approved(list, asked.file.m)

(* Wherever a copy goes, it names the author where an answer finds him,    *)
(* also when From: had to be changed for DMARC; but a list that is         *)
(* anonymous names nobody.  (handlers/dmarc.py:73, "as long as the list is *)
(* not anonymous, the original From: address should be obviously exposed". *)
(* What failed after From: was changed, and is unshunted, is handled anew  *)
(* as if it were from the list, and may lose the author.)                  *)
AuthorNamedOrHidden ==
    \A c \in shown :
        \/ Author = <<>> \/ c.toOwner
        \/ IF list.anonymous THEN c.hidden
           ELSE c.named \/ (c.anew /\ faults > 0 /\ changes > 0)

(* What the content filter lets through of a part: nothing that is refused *)
(* itself or is in something refused.                                      *)
Allowed(f, p) ==
    LET down[q \in Parts] ==
            IF q.multi THEN Flattened(LAMBDA r : IF Refused(f, r) THEN <<>> ELSE down[r], q.parts)
            ELSE q.text
    IN  down[p]

(* However the filter, the collapsing and recasting of parts and the       *)
(* decoration reshape a message, its readers read what the filter allows   *)
(* of it, all of it unless alternatives are collapsed, in the old order    *)
(* and within one header and one footer; and one prefix is before it.  (A  *)
(* message that is refused as a whole goes on as it is.)                   *)
ReadersReadWhatIsAllowed ==
    LET m == asked.file.m
        allowed == IF list.filterContent THEN Allowed(list.filter, m.body) ELSE Read(m.body)
        collapsed == list.filterContent /\ list.filter.collapse
        inside(c) == SelectSeq(c.text, LAMBDA t : t \notin {"header", "footer"})
    IN  \A c \in shown : (raised = {} /\ ~c.toOwner) =>
            /\ inside(c) = IF collapsed
                           THEN SelectSeq(allowed, LAMBDA t : t \in Range(inside(c)))
                           ELSE allowed
            /\ c.queue = "out" => c.text = Around(list, Marks, inside(c))
            /\ list.prefix /\ Len(m.chunks) = 1 => c.prefixes = 1

(* A message that a handler discards, or rejects, is not sent to the list. *)
(* (interfaces/pipeline.py:31, "The message can be discarded with no       *)
(* further action".)                                                       *)
DiscardedGoesNowhere == ("discard" \in raised /\ faults = 0) => sent["out"] = 0
================================================================================
