--------------------------------- MODULE MCSite ---------------------------------
(* Instances of Site: two addresses, up to four users, two lists of one    *)
(* domain.  A history begins with hardly anything and has two requests, or *)
(* in a small site that has one of everything.                             *)
EXTENDS Site

MCDomainOf == [l \in Lists |-> "d"]
MCTargets == {[kind |-> "user", user |-> 1], [kind |-> "user", user |-> 9],
              [kind |-> "new"], [kind |-> "nonsense"],
              [kind |-> "email", email |-> "a"], [kind |-> "email", email |-> "b"]}
(* An old list with moderation that can be converted, or not; one that     *)
(* sets little; one in a language that is missing.                         *)
Nonmembers(held) == [a \in {"accept", "hold", "reject", "discard"} |->
                        IF a = "hold" THEN held ELSE <<>>]
Old(moderation) ==
    [settings |-> <<<<"generic_nonmember_action", 0>>,
                    <<"filter_action", 9>>, <<"msg_wording", "x">>,
                    <<"description", "imported">>>>,
     moderated |-> FALSE, moderation |-> moderation, fromIsList |-> 1, dmarcAction |-> 0,
     archive |-> TRUE, private |-> FALSE, bans |-> {"b"}, aliases |-> {"x", ""},
     filters |-> <<[action |-> 7, pattern |-> "x"], [action |-> 7, pattern |-> "z"],
                   [action |-> 1, pattern |-> "y"], [action |-> 0, pattern |-> "unparsable"]>>,
     members |-> <<[email |-> "b", option |-> "moderated"], [email |-> "a", option |-> "absent"]>>,
     owners |-> <<[email |-> "a", option |-> "plain"]>>, moderators |-> <<>>,
     nonmembers |-> Nonmembers(<<>>)]
MCOldLists ==
    {Old(0), Old(3),
     [Old(0) EXCEPT !.archive = FALSE, !.moderated = TRUE, !.bans = {}, !.filters = <<>>, !.fromIsList = 0,
                    !.members = <<>>, !.owners = <<>>, !.nonmembers = Nonmembers(<<[email |-> "b", option |-> "absent"]>>)],
     [Old(0) EXCEPT !.settings = <<<<"preferred_language", "missing">>>>]}
Describe == <<"description", "new">>
Aliases(as) == <<"acceptable_aliases", as>>
MCConfigs == {<<Describe>>, <<Aliases(<<"x", "bad">>), Describe>>, <<Describe, Aliases(<<"bad">>)>>,
              <<Aliases(<<"y">>)>>}

Bare == [t \in Tables |-> IF t = "domains" THEN "d" :> Row ELSE <<>>]
(* Two people; ann may also have both addresses, and then bob has none.    *)
Busy(both) ==
    [users |-> 1 :> [server |-> FALSE] @@ 2 :> [server |-> TRUE],
     addresses |-> "a" :> [user |-> 1, verified |-> TRUE]
                   @@ "b" :> [user |-> IF both THEN 1 ELSE 2, verified |-> TRUE],
     domains |-> "d" :> Row, owners |-> <<"d", 2>> :> Row,
     lists |-> "l" :> Style("legacy-default"),
     members |-> 1 :> [list |-> "l", role |-> "member", email |-> "a", action |-> "none"]
                 @@ 2 :> [list |-> "l", role |-> IF both THEN "member" ELSE "nonmember",
                          email |-> "b", action |-> "none"],
     templates |-> <<>>, cache |-> <<>>, bans |-> <<>>, aliases |-> <<"l", "x">> :> [list |-> "l"], archivers |-> <<>>,
     matches |-> 1 :> [list |-> "l", position |-> 0, pattern |-> "x"]
                 @@ 2 :> [list |-> "l", position |-> 1, pattern |-> "y"]]
Begins(start, engines, n) ==
    {[db |-> start, engine |-> g, requests |-> n, loads |-> 0, faults |-> 1] : g \in engines}
Engines == {"sqlite", "postgresql"}
(* A list, and the templates of the list, its domain and the site.         *)
Listed == [Bare EXCEPT !.lists = "l" :> Style("legacy-default"),
                       !.templates = "site" :> Template("plain", 0) @@ "d" :> Template("perlist", 0)]
TemplateScenarios == {[db |-> Listed, engine |-> "sqlite", requests |-> 0, loads |-> n, faults |-> 1] : n \in {4}}
MCScenarios == Begins(Bare, {"sqlite"}, 3) \cup Begins(Busy(TRUE), Engines, 2)
               \cup Begins(Busy(FALSE), Engines, 2) \cup TemplateScenarios
================================================================================
