-------------------------------- MODULE Importer --------------------------------
(***************************************************************************)
(* The import of a list of Mailman 2.1 (mailman/utilities/importer.py).    *)
(*                                                                         *)
(* The old configuration is a record: settings, in the order in which they *)
(* come, the numbers that decide about moderation and DMARC, bans, aliases *)
(* and header filters, and who is on which roster with which options.  The *)
(* decorations, which become templates, are left out.                      *)
(***************************************************************************)
EXTENDS ListAdmin

(***************************************************************************)
(* The settings.  Numbers of 2.1 become names; what cannot be converted or *)
(* is not known is passed over, but a language that is missing ends it all.*)
(***************************************************************************)
Languages == {"en", "fr"}
(* What a number stands for; none is "unknown".                            *)
Numbered(names, n) == IF n + 1 \in DOMAIN names THEN names[n + 1] ELSE "unknown"
DmarcAction(n) ==
    Numbered(<<"no_mitigation", "munge_from", "wrap_message", "reject", "discard">>, n)
MemberAction(n) == Numbered(<<"hold", "reject", "discard">>, n)
NonmemberAction(n) == Numbered(<<"accept", "hold", "reject", "discard">>, n)
FilterAction(n) == Numbered(<<"discard", "reject", "forward", "preserve">>, n)
ActionToChain(n) ==
    Numbered(<<"none", "unknown", "reject", "discard", "unknown", "unknown",
               "accept", "hold">>, n)

Excludes == {"members", "digest_members", "user_options", "delivery_status"}
NameMapping(key) ==
    CASE key = "generic_nonmember_action" -> "nonmembers"
      [] key = "filter_action" -> "filter"
      [] OTHER -> key
(* "unknown" stands for a TypeError or a KeyError of the conversion.       *)
Converted(key, value) ==
    CASE key = "nonmembers" -> NonmemberAction(value)
      [] key = "filter" -> FilterAction(value)
      [] OTHER -> value
ImportSetting(r, l, item) ==
    LET key == NameMapping(item[1])
        value == Converted(key, item[2])
    IN  IF r.status = "failed" THEN r
        ELSE IF key = "preferred_language"
        THEN IF value \in Languages THEN r ELSE Failed(r.db)
        ELSE IF key \in Excludes \/ key \notin DOMAIN Unset \/ value = "unknown" THEN r
        ELSE Done([r.db EXCEPT !.lists[l][key] = value])

ImportMemberAction(r, l, old) ==
    LET action == IF old.moderated THEN MemberAction(old.moderation) ELSE "defer"
    IN  IF r.status = "failed" \/ action = "unknown" THEN Failed(r.db)
        ELSE Done([r.db EXCEPT !.lists[l].members = action])
(* The larger of the two, and for everybody if it is the one for all.      *)
ImportDmarc(r, l, old) ==
    LET all == old.fromIsList > old.dmarcAction
        action == DmarcAction(IF all THEN old.fromIsList ELSE old.dmarcAction)
    IN  IF r.status = "failed" \/ action = "unknown" THEN Failed(r.db)
        ELSE Done([r.db EXCEPT !.lists[l].dmarc = <<action, all>>])
ImportArchivePolicy(db, l, old) ==
    [db EXCEPT !.lists[l].archive =
        CASE ~old.archive -> "never" [] old.private -> "private" [] OTHER -> "public"]

(***************************************************************************)
(* What belongs to the list.                                               *)
(***************************************************************************)
ImportBans(db, l, old) == [db EXCEPT !.bans = PutAll(@, {l} \X old.bans, Row)]
(* Every alias of 2.1 becomes a pattern, so that none is refused.          *)
ImportAliases(db, l, old) == WithAliases(db, l, old.aliases \ {""})
(* A filter that is not a header and a pattern, that is there already or   *)
(* that has another action is skipped.                                     *)
ImportFilter(db, l, f, taken) ==
    IF ActionToChain(f.action) = "unknown" \/ f.pattern = "unparsable" THEN db
    ELSE AppendMatch(db, l, f.pattern, taken).db
ImportFilters(db, l, old, taken) ==
    Through(LAMBDA d, f : ImportFilter(d, l, f, taken), db, old.filters)

(***************************************************************************)
(* The rosters.                                                            *)
(***************************************************************************)
(* acc is the result so far and the action for the next; what one member   *)
(* was given stays for the next who has no options.                        *)
ImportOne(acc, l, role, entry, old, taken) ==
    LET db == acc.r.db
        linked == MakeUser(db, entry.email, taken)
        made == IF Known(db, entry.email) THEN linked
                ELSE SetVerified(linked, entry.email, TRUE)
        joined == Subscribe(made, l, role, entry.email, taken)
        action == CASE entry.option = "absent" -> acc.action
                    [] entry.option = "moderated" -> MemberAction(old.moderation)
                    [] OTHER -> "defer"
        i == Unused(made.members, taken.members)
    IN  IF acc.r.status = "failed" \/ Memberships(db, l, role, entry.email) # {} THEN acc
        ELSE CASE action = "unknown" -> [acc EXCEPT !.r = Failed(db)]
               [] action = "none" -> [acc EXCEPT !.r = joined]
               [] OTHER -> [r |-> Done([joined.db EXCEPT !.members[i].action = action]),
                            action |-> action]
ImportRoster(r, l, role, roster, action, old, taken) ==
    Through(LAMBDA acc, entry : ImportOne(acc, l, role, entry, old, taken),
            [r |-> r, action |-> action], roster).r
ImportRosters(r, l, old, taken) ==
    LET members == ImportRoster(r, l, "member", old.members, "none", old, taken)
        owners == ImportRoster(members, l, "owner", old.owners, "none", old, taken)
        moderators == ImportRoster(owners, l, "moderator", old.moderators, "none", old, taken)
        others(done, a) ==
            ImportRoster(done, l, "nonmember", old.nonmembers[a], a, old, taken)
    IN  others(others(others(others(moderators, "accept"), "hold"), "reject"), "discard")

Import(db, l, old, taken) ==
    LET set == Through(LAMBDA r, item : ImportSetting(r, l, item), Done(db), old.settings)
        decided == ImportDmarc(ImportMemberAction(set, l, old), l, old)
        archived == ImportArchivePolicy(decided.db, l, old)
        named == ImportAliases(ImportBans(archived, l, old), l, old)
        filtered == ImportFilters(named, l, old, taken)
    IN  IF decided.status = "failed" THEN decided
        ELSE ImportRosters(Done(filtered), l, old, taken)
================================================================================
