------------------------------- MODULE MCPosting -------------------------------
(* Instances of Posting: ann is a member with a second address, bob one    *)
(* who wants no copies, eve is a stranger.  A scenario is the plain case   *)
(* with one or two deviations.                                             *)
EXTENDS Entrance

MCOther == [a \in Addrs |-> IF a = "ann" THEN "ann2" ELSE IF a = "ann2" THEN "ann" ELSE a]
MCWants == [a \in Addrs |-> [delivery |-> TRUE, own |-> a # "ann", copy |-> a # "bob",
                             ack |-> a = "ann"]]
MCSiteChecks == <<"spam">>
NoHeaderMatches == {<<>>}
MCHeaderMatches == {<<>>, <<[pattern |-> "x", chain |-> "discard"],
                            [pattern |-> "y", chain |-> "accept"]>>,
                    <<[pattern |-> "y", chain |-> "none"],
                      [pattern |-> "z", chain |-> "defer"]>>}

NoImages == [types |-> {"image"}, passTypes |-> {}, extensions |-> {"exe"},
             passExtensions |-> {}, collapse |-> FALSE, plaintext |-> FALSE]
Easy == [moderatorPassword |-> TRUE, emergency |-> FALSE, administrivia |-> TRUE,
         requireExplicitDestination |-> TRUE, aliases |-> {}, maxNumRecipients |-> 3,
         maxMessageSize |-> 2, newsgroupModeration |-> "none",
         bounceMatchingHeaders |-> {"odd"}, defaultMemberAction |-> "defer",
         defaultNonmemberAction |-> "hold",
         these |-> [a \in Range(LegacyActions) |-> {}],
         dmarcAction |-> "no_mitigation", dmarcUnconditionally |-> FALSE,
         filterContent |-> TRUE, filterAction |-> "discard", topics |-> "off",
         filter |-> NoImages, header |-> FALSE, footer |-> TRUE, charset |-> "ascii",
         anonymous |-> FALSE, replyGoes |-> "none", firstStripReplyTo |-> FALSE,
         replyToAddress |-> Posting, personalize |-> "none", prefix |-> TRUE,
         includeRfc2369 |-> TRUE, allowListPosts |-> TRUE,
         archivePolicy |-> "public", digests |-> TRUE, gatewayToNews |-> TRUE,
         linkedNewsgroup |-> TRUE, autorespondOwner |-> "none",
         autorespondPostings |-> "none", autorespondRequests |-> "none",
         subscribes |-> "confirm", leaves |-> "confirm", gracePeriod |-> 1,
         respondToPostRequests |-> TRUE, adminImmedNotify |-> TRUE]
NoData == [hits |-> {}, action |-> "none", dmarc |-> FALSE, dmarcAction |-> "none",
           moderatorApproved |-> FALSE, fromUsenet |-> FALSE, toOwner |-> FALSE,
           recipients |-> Nobody, originalSender |-> "none",
           subaddress |-> "none", leaves |-> {}]
Record(p, sp) == [kind |-> "text", records |-> {[p |-> p, sp |-> sp]}]
Ann == <<"org", "ann">>
Www == <<"org", "ann", "www">>
MCPublicSuffixes == (<<"org">> :> FALSE) @@ (<<"uk", "*">> :> FALSE) @@ (<<"uk", "bl">> :> TRUE)

(* Texts, files and what holds them.                                       *)
Text(t) == Part("plain", "none", <<t>>)
Html(t) == Part("html", "none", <<t>>)
Image == Part("image", "none", <<"image">>)
Inner == {Multipart("alternative", <<Text("text"), Html("html")>>),
          Multipart("alternative", <<Multipart("alternative", <<Image, Text("deep")>>), Html("html")>>),
          Multipart("alternative", <<>>), Part("alternative", "none", <<"broken">>),
          Multipart("mixed", <<Image, Image>>), Multipart("mixed", <<Text("text"), Image>>),
          Multipart("signed", <<Multipart("mixed", <<Text("text")>>), Part("file", "sig", <<"sig">>)>>),
          Multipart("rfc822", <<Multipart("mixed", <<Html("html"), Part("file", "exe", <<"virus">>)>>)>>),
          Part("plain", "none", <<>>), Part("file", "exe", <<"virus">>), Html("html"), Text("text")}
Bodies == Inner \cup {Multipart("mixed", <<p, q>>) : p \in Inner, q \in {Text("end"), Image}}
                \cup {Multipart("alternative", <<p, Html("rich")>>) : p \in Inner}
                \cup {[Text("odd") EXCEPT !.charset = "unknown"]}
Filters == {NoImages, [NoImages EXCEPT !.collapse = TRUE, !.plaintext = TRUE],
            [NoImages EXCEPT !.types = {}, !.passTypes = {"text", "multipart"}, !.extensions = {},
                             !.passExtensions = {"sig"}]}

Lists == {[Easy EXCEPT !.emergency = TRUE], [Easy EXCEPT !.moderatorPassword = FALSE],
          [Easy EXCEPT !.dmarcAction = "reject"], [Easy EXCEPT !.dmarcAction = "munge_from"],
          [Easy EXCEPT !.dmarcAction = "wrap_message", !.replyGoes = "list"],
          [Easy EXCEPT !.dmarcAction = "munge_from", !.dmarcUnconditionally = TRUE,
                       !.anonymous = TRUE],
          [Easy EXCEPT !.defaultNonmemberAction = "accept", !.newsgroupModeration = "moderated"],
          [Easy EXCEPT !.defaultNonmemberAction = "defer", !.topics = "broken"],
          [Easy EXCEPT !.defaultMemberAction = "reject"],
          [Easy EXCEPT !.these["discard"] = {"eve"}],
          [Easy EXCEPT !.filterAction = "reject"], [Easy EXCEPT !.filterAction = "forward"],
          [Easy EXCEPT !.filterAction = "preserve"],
          [Easy EXCEPT !.anonymous = TRUE, !.replyGoes = "explicit only"],
          [Easy EXCEPT !.personalize = "full", !.replyGoes = "explicit", !.firstStripReplyTo = TRUE,
                       !.includeRfc2369 = FALSE],
          [Easy EXCEPT !.autorespondPostings = "respond_and_continue"],
          [Easy EXCEPT !.autorespondPostings = "respond_and_discard", !.autorespondOwner = "respond_and_continue"]}
Messages == {[Plain EXCEPT !.approve = "right"], [Plain EXCEPT !.approve = "wrong", !.from = <<"eve">>],
             [Plain EXCEPT !.from = <<"eve">>], [Plain EXCEPT !.from = <<"ann2">>],
             [Plain EXCEPT !.from = <<>>], [Plain EXCEPT !.from = <<>>, !.sender = <<"bob">>],
             [Plain EXCEPT !.from = <<"eve", "ann">>],
             [Plain EXCEPT !.from = <<"eve">>, !.replyTo = <<"bob">>],
             [Plain EXCEPT !.listPost = "address"], [Plain EXCEPT !.listPost = "mailto"],
             [Plain EXCEPT !.subject = "folded blank"], [Plain EXCEPT !.subject = "none"],
             [Plain EXCEPT !.command = TRUE, !.marks = {"odd"}], [Plain EXCEPT !.to = {"bob"}, !.cc = {Posting}],
             [Plain EXCEPT !.to = {"bob"}], [Plain EXCEPT !.cc = {"bob", "eve"}],
             [Plain EXCEPT !.size = 3], [Plain EXCEPT !.marks = {"spam", "x"}],
             [Plain EXCEPT !.marks = {"x", "y"}], [Plain EXCEPT !.marks = {"y"}],
             [Plain EXCEPT !.urgent = TRUE], [Plain EXCEPT !.body = Image],
             [Plain EXCEPT !.archive = FALSE, !.ack = "yes"], [Plain EXCEPT !.ack = "no", !.from = <<"eve">>],
             [Plain EXCEPT !.dns = Ann :> Record("reject", "none")],
             [Plain EXCEPT !.dns = Ann :> [kind |-> "failure", records |-> {}], !.from = <<"eve">>],
             [Plain EXCEPT !.dns = Ann :> Record("none", "quarantine"), !.domain = <<"org", "ann", "www">>],
             [Plain EXCEPT !.dns = (Ann :> Record("none", "reject")) @@ (Www :> Record("none", "none")),
                           !.domain = Www],
             [Plain EXCEPT !.dns = <<"uk", "co", "ann">> :> Record("reject", "none"),
                           !.domain = <<"uk", "co", "ann", "www">>]}
Data == {[NoData EXCEPT !.fromUsenet = TRUE], [NoData EXCEPT !.toOwner = TRUE],
         [NoData EXCEPT !.moderatorApproved = TRUE]}

Calm == [changes |-> 0, faults |-> 0, rounds |-> 1]
Busy == {[changes |-> 1, faults |-> 1, rounds |-> 1], [changes |-> 2, faults |-> 0, rounds |-> 2]}
Strange == [Plain EXCEPT !.from = <<"eve">>]
CalmScenarios ==
    [list : Lists \cup {Easy}, m : Messages \cup {Plain}, d : {NoData}, bound : {Calm},
     to : {<<>>}, pended : {{}}]
    \cup [list : Lists \cup {Easy}, m : {Plain, Strange}, d : Data, bound : {Calm},
          to : {<<>>}, pended : {{}}]
BusyScenarios ==
    [to : {<<>>}, pended : {{}}, d : {NoData}, bound : Busy,
     list : {[Easy EXCEPT !.defaultNonmemberAction = "accept"]},
     m : {Strange, [Plain EXCEPT !.marks = {"x", "y"}]}]

(* Whatever has parts, for lists that filter it; and subjects of replies.  *)
Chunk(charset, prefixed, re) == [charset |-> charset, prefixed |-> prefixed, re |-> re]
ContentScenarios ==
    [to : {<<>>}, pended : {{}}, list : {[Easy EXCEPT !.filter = f, !.header = h] : f \in Filters, h \in BOOLEAN}
            \cup {[Easy EXCEPT !.filterContent = FALSE, !.header = TRUE]},
     m : {[Plain EXCEPT !.body = b, !.approve = "right"] : b \in Bodies}, d : {NoData}, bound : {Calm}]
    \cup [to : {<<>>}, pended : {{}}, list : {Easy, [Easy EXCEPT !.charset = "latin"]},
          m : {[Plain EXCEPT !.chunks = c] :
               c \in {<<Chunk("ascii", TRUE, TRUE)>>,
                      <<Chunk("ascii", TRUE, TRUE), Chunk("latin", TRUE, FALSE)>>}},
          d : {NoData}, bound : {Calm}]
(* Several authors, or one who said where to reply, when From: is changed; *)
(* with a fault and an unshunt, too.                                       *)
AuthorScenarios ==
    [to : {<<>>}, pended : {{}}, d : {NoData}, bound : {[changes |-> 1, faults |-> 1, rounds |-> 1]},
     list : {[Easy EXCEPT !.dmarcAction = a, !.dmarcUnconditionally = TRUE, !.replyGoes = r,
                          !.filterContent = FALSE] :
             a \in {"munge_from", "wrap_message"}, r \in {"none", "list"}}
            \cup {[Easy EXCEPT !.anonymous = TRUE, !.filterContent = FALSE]},
     m : {[Plain EXCEPT !.from = <<"ann", "bob">>, !.approve = "right"]}]
DiscardScenarios == {s \in CalmScenarios : s.m.body = Image}

(* What the LMTP runner gets.  There is a list whose name is that of a     *)
(* subaddress of ours.                                                     *)
At(words) == [local |-> words, domain |-> "here"]
MCThisList == At(<<"list">>)
MCAllLists == {MCThisList, At(<<"list", "leave">>)}
MCAliasDomains == "alias" :> "here"
AtRequest == At(<<"list", "request">>)
MailScenarios ==
    [list : {Easy}, d : {NoData}, pended : {{}}, bound : {Calm, [Calm EXCEPT !.faults = 1]},
     m : {Plain, [Plain EXCEPT !.id = FALSE], [Plain EXCEPT !.defects = TRUE]},
     to : {<<At(<<"other">>), [MCThisList EXCEPT !.domain = "alias"]>>,
           <<At(<<"list", "leave">>), At(<<"other", "join">>), AtRequest>>,
           <<At(<<"list", "owner">>), At(<<"list", "bounces">>)>>,
           <<At(<<"list", "leave", "leave">>), At(<<"list", "unsubscribe">>)>>}]

(* Email commands, of people and of ourselves.                             *)
Cmd(name, arg) == [name |-> name, arg |-> arg]
Asks(kind, a) == [kind |-> kind, who |-> a]
Cmds == {Cmd("join", None), Cmd("join", Unknown), Cmd("unsubscribe", None), Cmd("stop", None),
         Cmd("help", Unknown), Cmd("echo", None), Cmd("confirm", Asks("leave", "ann")),
         Cmd("confirm", Asks("join", "eve")), Cmd("confirm", Unknown)}
CommandScenarios ==
    [d : {NoData}, to : {<<AtRequest>>}, pended : {{}, {Asks("leave", "ann"), Asks("join", "eve")}},
     list : {Easy, [Easy EXCEPT !.subscribes = "open", !.leaves = "open"]},
     bound : {Calm},
     m : {[Plain EXCEPT !.from = <<a>>, !.lines = <<x, y>>] :
          a \in {"eve", "ann2"}, x \in Cmds, y \in Cmds}]
    \cup
    [d : {NoData}, to : {<<At(<<"list", "join">>)>>, <<At(<<"list", "unsubscribe">>)>>,
                        <<At(<<"list", "confirm">>)>>, <<AtRequest>>},
     pended : {{Asks("join", "eve")}},
     bound : {[Calm EXCEPT !.changes = 1], [Calm EXCEPT !.faults = 1]},
     list : {Easy, [Easy EXCEPT !.autorespondRequests = "respond_and_continue"],
             [Easy EXCEPT !.autorespondRequests = "respond_and_discard", !.leaves = "open"]},
     m : {[Plain EXCEPT !.from = f, !.cookie = Asks("join", "eve"),
                        !.lines = <<Cmd("leave", None), Cmd("join", None), Cmd("join", None)>>] :
          f \in {<<"eve">>, <<"ann">>, <<Posting>>, <<>>}}]
AllScenarios == CalmScenarios \cup ContentScenarios \cup BusyScenarios
                \cup AuthorScenarios \cup MailScenarios \cup CommandScenarios
================================================================================
