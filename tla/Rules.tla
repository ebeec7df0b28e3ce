--------------------------------- MODULE Rules ---------------------------------
(***************************************************************************)
(* The rules (mailman/rules) and the links of the chains (mailman/chains). *)
(*                                                                         *)
(* l is a mailing list with the settings that the rules and handlers read, *)
(* m a message, d its metadata, db what the rules read from the database.  *)
(* A message is known by what the rules ask about it; the reasons and the  *)
(* sender that a hit notes for the moderators are left out.                *)
(***************************************************************************)
EXTENDS Content, FiniteSets, FiniteSetsExt

CONSTANTS
    Addrs,          \* addresses, of people and of the list
    Posting,        \* the posting address of the list
    Other,          \* the other address of the same user, or the address itself
    SiteChecks,     \* patterns of [antispam]header_checks, in order
    JumpChain,      \* [antispam]jump_chain
    PublicSuffixes  \* the public suffix list: is a suffix an exception?

ASSUME RulesAssumption ==
    /\ Posting \in Addrs
    /\ Other \in [Addrs -> Addrs]
    /\ SiteChecks \in Seq(STRING)
    /\ JumpChain \in {"accept", "hold", "reject", "discard"}

Actions == {"hold", "reject", "discard", "accept", "defer"}
DmarcActions == {"no_mitigation", "munge_from", "wrap_message", "reject", "discard"}
HeaderMatch == [pattern : STRING, chain : {"none"} \cup Actions]

(* The argument of an email command, or the token in an address: a pended  *)
(* request, nothing, or what nobody knows.                                 *)
None == [kind |-> "none", who |-> "nobody"]
Unknown == [kind |-> "unknown", who |-> "nobody"]

(* What a message says, as the email package and Message.senders see it.   *)
(* domain: that of From:, its labels from right to left; dns: what the DNS *)
(* says of domains.  chunks: the subject, cut where the charset changes.   *)
(* body: what it says, see Content.  lines: its subject and its lines as   *)
(* email commands; cookie: the token in its To:.                           *)
Plain == [from |-> <<"ann">>, envelope |-> <<>>, replyTo |-> <<>>,
          sender |-> <<>>, to |-> {Posting}, cc |-> {}, approve |-> "none",
          listPost |-> "none", subject |-> "text", command |-> FALSE,
          chunks |-> <<[charset |-> "ascii", prefixed |-> FALSE, re |-> FALSE]>>,
          size |-> 1, marks |-> {}, urgent |-> FALSE,
          body |-> Part("plain", "none", <<"hello">>),
          archive |-> TRUE, ack |-> "unset", precedence |-> "none",
          signed |-> FALSE, domain |-> <<"org", "ann">>, dns |-> <<>>,
          id |-> TRUE, defects |-> FALSE, cookie |-> None,
          lines |-> <<[name |-> "text", arg |-> None]>>]

IsMessage(m) ==
    /\ DOMAIN m = DOMAIN Plain
    /\ {m.from, m.envelope, m.replyTo, m.sender} \subseteq Seq(Addrs)

(* What is noted about it on the way.                                      *)
DataFields == {"hits", "action", "dmarc", "dmarcAction", "moderatorApproved",
               "fromUsenet", "toOwner", "recipients", "originalSender",
               "subaddress", "leaves"}

Senders(m) == m.from \o m.envelope \o m.replyTo \o m.sender

(***************************************************************************)
(* The rules.  Each is the condition under which the rule matches.         *)
(***************************************************************************)
(* The policy of a DMARC record; sp is only looked at in the record of an  *)
(* organizational domain.  "none" is a tag that is not there.              *)
Refuses(record, org) ==
    (IF org /\ record.sp # "none" THEN record.sp ELSE record.p)
        \in {"reject", "quarantine"}

(* Without a record the search goes on.  A failing name server might hide  *)
(* a record, which is taken for one.                                       *)
RejectOrQuarantine(answer, org) ==
    CASE answer.kind = "absent" -> "keep looking"
      [] answer.kind = "failure" -> "yes"
      [] answer.kind = "text" ->
            IF answer.records = {} THEN "keep looking"
            ELSE IF \E r \in answer.records : Refuses(r, org) THEN "yes"
            ELSE "no"

(* The labels of a suffix, which may be "*", and those of a domain.  Below *)
(* the longest suffix there is one label; an exception is a domain itself. *)
Fits(suffix, domain) ==
    /\ Len(suffix) <= Len(domain)
    /\ \A i \in DOMAIN suffix : suffix[i] \in {domain[i], "*"}
OrganizationalDomain(domain) ==
    LET hits == {s \in DOMAIN PublicSuffixes : Fits(s, domain)}
        exceptions == {s \in hits : PublicSuffixes[s]}
        labels == IF hits = {} THEN 2
                  ELSE IF exceptions # {} THEN Min({Len(s) : s \in exceptions})
                  ELSE Max({Len(s) : s \in hits}) + 1
    IN  SubSeq(domain, 1, Min({labels, Len(domain)}))

(* The domain is asked for first, the organizational domain if it is       *)
(* another one.                                                            *)
Answer(m, domain) ==
    IF domain \in DOMAIN m.dns THEN m.dns[domain]
    ELSE [kind |-> "absent", records |-> {}]
MaybeMitigate(m) ==
    LET organization == OrganizationalDomain(m.domain)
        own == RejectOrQuarantine(Answer(m, m.domain), FALSE)
    IN  /\ m.from # <<>>
        /\ \/ own = "yes"
           \/ /\ own = "keep looking" /\ organization # m.domain
              /\ RejectOrQuarantine(Answer(m, organization), TRUE) = "yes"

Suspect(l, m) == l.dmarcAction # "no_mitigation" /\ MaybeMitigate(m)
DmarcMitigation(l, m) ==
    Suspect(l, m) /\ l.dmarcAction \in {"discard", "reject"}

NoSenders(m) == Senders(m) = <<>>

(* Only a password that is right counts; a list may have none.             *)
Approved(l, m) == l.moderatorPassword /\ m.approve = "right"

Emergency(l, d) == l.emergency /\ ~d.moderatorApproved

(* A List-Post: header with the posting address, and nothing around it.    *)
Loop(m) == m.listPost = "address"

IsBanned(db, a) == a \in db.banned
(* Mutant: only the envelope is looked at.                                 *)
BannedEnvelope(m, db) == \E a \in Range(m.envelope) : IsBanned(db, a)
BannedAddress(m, db) == \E a \in Range(Senders(m)) : IsBanned(db, a)

IsMember(db, a) == db.member[a] # "no"

(* The first sender who is a member, or whose user is one under the other  *)
(* address.                                                                *)
FindSenderMember(m, db) ==
    LET s == Senders(m)
        found == {i \in DOMAIN s : IsMember(db, s[i]) \/ IsMember(db, Other[s[i]])}
    IN  IF found = {} THEN "nobody"
        ELSE LET a == s[Min(found)] IN IF IsMember(db, a) THEN a ELSE Other[a]

MemberAction(l, m, db) ==
    LET a == FindSenderMember(m, db)
    IN  IF a = "nobody" THEN "defer"
        ELSE IF db.member[a] = "default" THEN l.defaultMemberAction
        ELSE db.member[a]

MemberModeration(l, m, db) ==
    ~BannedAddress(m, db) /\ MemberAction(l, m, db) # "defer"

(* The senders who become nonmembers on the way.                           *)
Strangers(m, db) ==
    IF BannedAddress(m, db) THEN {}
    ELSE {a \in Range(Senders(m)) :
             db.member[a] = "no" /\ db.nonmember[a] = "no"}

(* The first sender decides: the lists of the old version, then his action *)
(* as a nonmember.                                                         *)
LegacyActions == <<"accept", "hold", "reject", "discard">>
ActionFor(a, l, db) ==
    LET lists == {i \in DOMAIN LegacyActions : a \in l.these[LegacyActions[i]]}
        own == db.nonmember[a]
    IN  IF lists # {} THEN LegacyActions[Min(lists)]
        ELSE IF own \in {"no", "default"} THEN l.defaultNonmemberAction
        ELSE own
NonmemberAction(l, m, db) ==
    IF Senders(m) = <<>> THEN l.defaultNonmemberAction
    ELSE ActionFor(Head(Senders(m)), l, db)

NonmemberModeration(l, m, db) ==
    /\ ~BannedAddress(m, db)
    /\ \/ Senders(m) = <<>>
       \/ /\ FindSenderMember(m, db) = "nobody"
          /\ NonmemberAction(l, m, db) # "defer"

(* A subject of nothing but white space has no first word to look at.      *)
AdministriviaFails(l, m) == l.administrivia /\ m.subject = "folded blank"
Administrivia(l, m) == l.administrivia /\ (m.subject = "command" \/ m.command)

ImplicitDestination(l, m, d) ==
    /\ l.requireExplicitDestination
    /\ ~d.fromUsenet
    /\ (m.to \cup m.cc) \cap (l.aliases \cup {Posting}) = {}

MaximumRecipients(l, m) ==
    /\ l.maxNumRecipients # 0
    /\ Cardinality(m.to) + Cardinality(m.cc) >= l.maxNumRecipients

MaximumSize(l, m) == l.maxMessageSize # 0 /\ m.size > l.maxMessageSize
ModeratedNewsgroup(l) == l.newsgroupModeration = "moderated"
NoSubject(m) == m.subject \in {"none", "folded blank"}
SuspiciousHeader(l, m) == l.bounceMatchingHeaders \cap m.marks # {}

(* A pattern that is not a regular expression never matches.               *)
HeaderMatchRule(m, pattern) == pattern \in m.marks
AnyRule(d) == d.hits # {}

(* Rules that leave no trace in the hits.                                  *)
Unrecorded == {"any", "truth"}

Matches(link, l, m, d, db) ==
    CASE link.rule = "dmarc-mitigation" -> DmarcMitigation(l, m)
      [] link.rule = "no-senders" -> NoSenders(m)
      [] link.rule = "approved" -> Approved(l, m)
      [] link.rule = "emergency" -> Emergency(l, d)
      [] link.rule = "loop" -> Loop(m)
      [] link.rule = "banned-address" -> BannedAddress(m, db)
      [] link.rule = "member-moderation" -> MemberModeration(l, m, db)
      [] link.rule = "nonmember-moderation" -> NonmemberModeration(l, m, db)
      [] link.rule = "administrivia" -> Administrivia(l, m)
      [] link.rule = "implicit-dest" -> ImplicitDestination(l, m, d)
      [] link.rule = "max-recipients" -> MaximumRecipients(l, m)
      [] link.rule = "max-size" -> MaximumSize(l, m)
      [] link.rule = "news-moderation" -> ModeratedNewsgroup(l)
      [] link.rule = "no-subject" -> NoSubject(m)
      [] link.rule = "suspicious-header" -> SuspiciousHeader(l, m)
      [] link.rule = "header-match" -> HeaderMatchRule(m, link.pattern)
      [] link.rule = "any" -> AnyRule(d)
      [] link.rule = "truth" -> TRUE

(* A check that raises; and a link that cannot be made, as a header match  *)
(* may have an action that is no chain.                                    *)
Fails(link, l, m) ==
    \/ link.rule = "administrivia" /\ AdministriviaFails(l, m)
    \/ link.chain = "defer"

(* What the rule leaves in the metadata, and its hit.                      *)
Checked(link, l, m, d, db) ==
    LET hit == Matches(link, l, m, d, db)
        e == IF hit /\ link.rule \notin Unrecorded
             THEN [d EXCEPT !.hits = @ \cup {link.rule}] ELSE d
    IN  CASE link.rule = "dmarc-mitigation" /\ Suspect(l, m) ->
               [e EXCEPT !.dmarc = TRUE,
                         !.dmarcAction = IF hit THEN l.dmarcAction ELSE @]
          [] link.rule = "member-moderation" /\ hit ->
               [e EXCEPT !.action = MemberAction(l, m, db)]
          [] link.rule = "nonmember-moderation" /\ hit ->
               [e EXCEPT !.action = NonmemberAction(l, m, db)]
          [] OTHER -> e

(* The approved rule takes the header or the line out, right or not.       *)
Stripped(link, l, m) ==
    IF link.rule = "approved" /\ l.moderatorPassword
    THEN [m EXCEPT !.approve = "none"] ELSE m

(***************************************************************************)
(* The chains.                                                             *)
(***************************************************************************)
Link(rule, action, chain) ==
    [rule |-> rule, action |-> action, chain |-> chain, pattern |-> "none"]
HeaderLink(pattern, action, chain) ==
    [rule |-> "header-match", action |-> action, chain |-> chain,
     pattern |-> pattern]

Terminal == {"accept", "hold", "discard", "reject", "default-owner-chain"}

(* The chain that the moderation chain and the dmarc chain jump to.        *)
ModerationChain(d) == <<Link("truth", "jump", d.action)>>
DmarcChain(d) == <<Link("truth", "jump", d.dmarcAction)>>
(* Mutant: the link that stops the processing is forgotten.                *)
UnstoppedChain == <<Link("truth", "run", "none")>>
TerminalChain == <<Link("truth", "run", "none"), Link("truth", "stop", "none")>>

BuiltInChain == <<
    Link("dmarc-mitigation", "jump", "dmarc"),
    Link("no-senders", "jump", "discard"),
    Link("approved", "jump", "accept"),
    Link("emergency", "jump", "hold"),
    Link("loop", "jump", "discard"),
    Link("banned-address", "jump", "discard"),
    Link("member-moderation", "jump", "moderation"),
    Link("truth", "detour", "header-match"),
    Link("nonmember-moderation", "jump", "moderation"),
    Link("administrivia", "defer", "none"),
    Link("implicit-dest", "defer", "none"),
    Link("max-recipients", "defer", "none"),
    Link("max-size", "defer", "none"),
    Link("news-moderation", "defer", "none"),
    Link("no-subject", "defer", "none"),
    Link("suspicious-header", "defer", "none"),
    Link("any", "jump", "hold"),
    Link("truth", "jump", "accept")>>

(* Mutant: the link "any" comes after the checks of the list.              *)
OwnChecksFirst(entries, pattern) ==
    [i \in DOMAIN SiteChecks |-> HeaderLink(SiteChecks[i], "defer", "none")]
    \o [i \in DOMAIN entries |->
          HeaderLink(pattern[i], "jump",
                     IF entries[i].chain = "none" THEN JumpChain
                     ELSE entries[i].chain)]
    \o <<Link("any", "jump", JumpChain)>>
(* The checks of the site come first and defer; if any hit, the site's     *)
(* chain takes over.  Then those of the list, each with a chain of its own *)
(* or the site's.  A rule is made once for each position and kept in       *)
(* config.rules: pattern[i] is the one that the rule for position i has.   *)
HeaderMatchChain(entries, pattern) ==
    [i \in DOMAIN SiteChecks |-> HeaderLink(SiteChecks[i], "defer", "none")]
    \o <<Link("any", "jump", JumpChain)>>
    \o [i \in DOMAIN entries |->
          HeaderLink(pattern[i], "jump",
                     IF entries[i].chain = "none" THEN JumpChain
                     ELSE entries[i].chain)]

Links(chain, d, entries, pattern) ==
    CASE chain = "default-posting-chain" -> BuiltInChain
      [] chain = "header-match" -> HeaderMatchChain(entries, pattern)
      [] chain = "moderation" -> ModerationChain(d)
      [] chain = "dmarc" -> DmarcChain(d)
      [] chain \in Terminal -> TerminalChain
================================================================================
