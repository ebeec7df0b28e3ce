-------------------------------- MODULE Handlers --------------------------------
(***************************************************************************)
(* The handlers (mailman/handlers) of the posting and owner pipelines.     *)
(*                                                                         *)
(* A handler takes the work w on a message to the next: w.m is the message *)
(* and w.d its metadata, w.sent counts what was put into each queue and    *)
(* the digest mailbox, w.end says whether the handler returned, or raised  *)
(* "discard", "reject" or another "error".                                 *)
(*                                                                         *)
(* Headers are kept as far as they say whom the message is from and whom   *)
(* an answer reaches, or as a rule or a handler asks about them.           *)
(***************************************************************************)
EXTENDS Rules

CONSTANTS
    Wants,          \* of each address: [delivery, own, copy, ack]
    Administrators, \* addresses of owners and moderators with delivery
    SiteOwner,      \* [mailman]site_owner
    RemoveDkim,     \* [mta]remove_dkim_headers
    Preservable     \* [mailman]filtered_messages_are_preservable

Nobody == {"unset"}

Note(w, queue) == [w EXCEPT !.sent[queue] = @ + 1]
Raise(w, how) == [w EXCEPT !.end = how]

(* mime-delete: what becomes of a message that the filter refuses whole.   *)
DisposeFiltered(l, w) ==
    CASE l.filterAction = "reject" -> Raise(w, "reject")
      [] l.filterAction = "forward" -> Raise(Note(w, "virgin"), "discard")
      [] l.filterAction = "preserve" /\ Preservable ->
            Raise(Note(w, "bad"), "discard")
      [] OTHER -> Raise(w, "discard")

(* The whole is refused, or none of its parts is left.                     *)
MimeDelete(l, w) ==
    LET f == l.filter
        filtered == [w EXCEPT !.m.body = FilterParts(f, @)]
        reduced(p) == IF f.collapse /\ (CollapseFails(p) \/ OuterFails(p))
                      THEN Raise(filtered, "error")
                      ELSE [w EXCEPT !.m.body = Reduced(f, p)]
    IN  IF ~l.filterContent THEN w
        ELSE IF Refused(f, w.m.body) THEN DisposeFiltered(l, w)
        ELSE IF Emptied(f, w.m.body) THEN DisposeFiltered(l, filtered)
        ELSE Apply(reduced, FilterParts(f, w.m.body))

(* tagger: the topics it finds nobody looks at, as do_topic_filters() is   *)
(* out of use; but a pattern is compiled with no regard to its errors.     *)
Tagger(l, w) == IF l.topics = "broken" THEN Raise(w, "error") ELSE w

(* member-recipients.  An Urgent: header asks for a method lists no longer *)
(* have.  Recipients that are already known are not calculated again.      *)
Regular(db) == {a \in Addrs : IsMember(db, a) /\ Wants[a].delivery}
MemberRecipients(w, db) ==
    LET sender == IF Senders(w.m) = <<>> THEN {} ELSE {Head(Senders(w.m))}
        unwilling == {a \in sender : IsMember(db, a) /\ ~Wants[a].own}
    IN  IF w.d.recipients # Nobody THEN w
        ELSE IF w.m.urgent THEN Raise(w, "error")
        ELSE [w EXCEPT !.d.recipients = Regular(db) \ unwilling]

(* avoid-duplicates.  A Cc: from which everybody would go stays as it is.  *)
AvoidDuplicates(w, db) ==
    LET explicit == (w.m.to \cup w.m.cc) \ {Posting}
        spared == {a \in w.d.recipients \cap explicit :
                      IsMember(db, a) /\ ~Wants[a].copy}
        cc == w.m.cc \ spared
    IN  IF w.d.recipients = {} \/ explicit = {} THEN w
        ELSE [w EXCEPT !.d.recipients = @ \ spared,
                       !.m.cc = IF cc = {} THEN @ ELSE cc]

(* cleanse                                                                 *)
Cleanse(l, w) ==
    LET m == [w.m EXCEPT !.approve = "none", !.urgent = FALSE]
    IN  [w EXCEPT !.m =
            IF l.anonymous
            THEN [m EXCEPT !.from = <<Posting>>, !.replyTo = <<Posting>>,
                           !.sender = <<>>]
            ELSE m]

CleanseDkim(w) == IF RemoveDkim THEN [w EXCEPT !.m.signed = FALSE] ELSE w

(* cook-headers: the new Reply-To:, in order and without repetition.       *)
Distinct(s) ==
    LET upTo[n \in 0 .. Len(s)] ==
            IF n = 0 THEN <<>>
            ELSE IF s[n] \in Range(upTo[n - 1]) THEN upTo[n - 1]
            ELSE Append(upTo[n - 1], s[n])
    IN  upTo[Len(s)]
MungedReplyTo(l, m) ==
    Distinct((IF l.replyGoes \in {"explicit", "explicit only"}
              THEN <<l.replyToAddress>> ELSE <<>>)
             \o (IF l.firstStripReplyTo THEN <<>> ELSE m.replyTo)
             \o (IF l.replyGoes = "list" THEN <<Posting>> ELSE <<>>))
MungedCc(l, m) ==
    IF l.personalize = "full" /\ l.replyGoes # "list" /\ ~l.anonymous
    THEN m.cc \cup (IF l.replyGoes = "explicit only" THEN {} ELSE {Posting})
    ELSE m.cc
CookHeaders(l, w) ==
    LET s == Senders(w.m)
    IN  [w EXCEPT !.d.originalSender = IF s = <<>> THEN "none" ELSE Head(s),
                  !.m.precedence = IF @ = "none" THEN "list" ELSE @,
                  !.m.replyTo = MungedReplyTo(l, w.m),
                  !.m.cc = MungedCc(l, w.m)]

(* subject-prefix: a subject in the charset of the list is written anew,   *)
(* with one prefix and one Re: before the text.  Of others only the first  *)
(* chunk is searched for them.                                             *)
Unprefixed(chunk) == [chunk EXCEPT !.prefixed = FALSE]
MixedCharsets(l, chunks) ==
    <<[charset |-> l.charset, prefixed |-> TRUE, re |-> FALSE],
      Unprefixed(Head(chunks))>> \o Tail(chunks)
NewSubject(l, chunks) ==
    IF \A i \in DOMAIN chunks : chunks[i].charset = l.charset
    THEN <<[charset |-> l.charset, prefixed |-> TRUE, re |-> Head(chunks).re]>>
    ELSE MixedCharsets(l, chunks)
SubjectPrefix(l, w) ==
    IF l.prefix
    THEN [w EXCEPT !.m.subject = "prefixed", !.m.chunks = NewSubject(l, @)]
    ELSE w

(* rfc-2369: an address in List-Post: is written as a URL.                 *)
Rfc2369(l, w) ==
    IF l.includeRfc2369 THEN
        [w EXCEPT !.m.listPost = IF l.allowListPosts THEN "mailto" ELSE "NO"]
    ELSE w

ToArchive(l, w) ==
    IF l.archivePolicy = "never" \/ ~w.m.archive THEN w ELSE Note(w, "archive")
ToDigest(l, w) == IF l.digests THEN Note(w, "digest") ELSE w
ToUsenet(l, w) ==
    IF l.gatewayToNews /\ ~w.d.fromUsenet /\ l.linkedNewsgroup
    THEN Note(w, "nntp") ELSE w
AfterDelivery(w) == [w EXCEPT !.posts = @ + 1]

Acknowledge(w, db) ==
    LET a == w.d.originalSender
    IN  IF a \in Addrs /\ IsMember(db, a) /\ Wants[a].ack
        THEN Note(w, "virgin") ELSE w

(* dmarc: From: becomes the list, the original From: goes where an answer  *)
(* finds it.  A wrapper keeps nothing of who the message is from, and has  *)
(* the whole message inside.                                               *)
OriginalFrom(w) == IF Len(w.m.from) = 1 THEN w.m.from[1] ELSE w.d.originalSender
(* Mutant: who asks for answers to the list loses the author.              *)
MungedWithoutCc(l, w) ==
    IF l.replyGoes = "none"
    THEN [w.m EXCEPT !.from = <<Posting>>, !.replyTo = Append(@, OriginalFrom(w))]
    ELSE [w.m EXCEPT !.from = <<Posting>>]
Munged(l, w) ==
    LET a == OriginalFrom(w)
    IN  IF l.replyGoes = "none"
        THEN [w.m EXCEPT !.from = <<Posting>>,
                         !.replyTo = IF a \in Range(@) THEN @ ELSE Append(@, a)]
        ELSE [w.m EXCEPT !.from = <<Posting>>, !.cc = @ \cup {a}]
Wrapped(l, w) ==
    LET m == Munged(l, w)
    IN  [m EXCEPT !.envelope = <<>>, !.sender = <<>>, !.signed = FALSE,
                  !.replyTo = IF l.replyGoes = "none" THEN @ ELSE <<>>,
                  !.cc = IF l.replyGoes = "none" THEN {} ELSE @]
Dmarc(l, w) ==
    IF l.anonymous \/ (~w.d.dmarc /\ ~l.dmarcUnconditionally) THEN w
    ELSE CASE l.dmarcAction = "munge_from" -> [w EXCEPT !.m = Munged(l, w)]
           [] l.dmarcAction = "wrap_message" -> [w EXCEPT !.m = Wrapped(l, w)]
           [] OTHER -> w

ToOutgoing(w) == Note(w, "out")

(* owner-recipients                                                        *)
OwnerRecipients(w) ==
    IF w.d.recipients # Nobody THEN w
    ELSE [w EXCEPT !.d.recipients =
             IF Administrators = {} THEN {SiteOwner} ELSE Administrators]

(***************************************************************************)
(* The pipelines, and the handler of a name.                               *)
(***************************************************************************)
PostingPipeline == <<"mime-delete", "tagger", "member-recipients",
    "avoid-duplicates", "cleanse", "cleanse-dkim", "cook-headers",
    "subject-prefix", "rfc-2369", "to-archive", "to-digest", "to-usenet",
    "after-delivery", "acknowledge", "dmarc", "to-outgoing">>
OwnerPipeline == <<"owner-recipients", "to-outgoing">>

Pipeline(d) == IF d.toOwner THEN OwnerPipeline ELSE PostingPipeline

Handled(name, l, w, db) ==
    CASE name = "mime-delete" -> MimeDelete(l, w)
      [] name = "tagger" -> Tagger(l, w)
      [] name = "member-recipients" -> MemberRecipients(w, db)
      [] name = "avoid-duplicates" -> AvoidDuplicates(w, db)
      [] name = "cleanse" -> Cleanse(l, w)
      [] name = "cleanse-dkim" -> CleanseDkim(w)
      [] name = "cook-headers" -> CookHeaders(l, w)
      [] name = "subject-prefix" -> SubjectPrefix(l, w)
      [] name = "rfc-2369" -> Rfc2369(l, w)
      [] name = "to-archive" -> ToArchive(l, w)
      [] name = "to-digest" -> ToDigest(l, w)
      [] name = "to-usenet" -> ToUsenet(l, w)
      [] name = "after-delivery" -> AfterDelivery(w)
      [] name = "acknowledge" -> Acknowledge(w, db)
      [] name = "dmarc" -> Dmarc(l, w)
      [] name = "to-outgoing" -> ToOutgoing(w)
      [] name = "owner-recipients" -> OwnerRecipients(w)
================================================================================
