------------------------------ MODULE Subscription ------------------------------
(***************************************************************************)
(* Joining and leaving a mailing list: the workflows of                    *)
(* mailman/app/subscriptions.py, the pending database that holds their     *)
(* tokens and the table that holds their saved states.                     *)
(*                                                                         *)
(* A workflow runs from step to step inside one transaction until it must  *)
(* wait; then it saves its next step under a new token and stops.  Each    *)
(* process (the REST server, a command runner) has a transaction of its    *)
(* own.  A request (Register, Leave) or the confirmation of a token        *)
(* (Confirm) reads what is committed, decides, and leaves in tx[p] what it *)
(* will write; Commit writes it, row by row, whatever others have          *)
(* committed since, and Rollback forgets it.  No constraint on the tables  *)
(* stands in between, and to delete a row that is gone is only a warning.  *)
(* A request that is refused or raises has nothing to commit, unless the   *)
(* code commits it all the same.                                           *)
(*                                                                         *)
(* An email is one address with one user, who may have made it the         *)
(* preferred address; a membership is of the address or of the user.       *)
(* Tokens are numbered as they are committed and live for ten years: they  *)
(* do not expire here.  Texts, notices and creation of users are left out. *)
(***************************************************************************)
EXTENDS Naturals, FiniteSets

CONSTANTS
    Lists, Emails,
    Processes,      \* those with a connection to the database
    Scopes,         \* what happens in a behaviour, see below
    MaxTokens,      \* bound on the tokens issued
    MaxChanges,     \* bound on the changes of the administration
    MaxOverlaps     \* bound on the overlaps with others about the same email

Policies == {"open", "confirm", "moderate", "confirm_then_moderate"}
Moderated == {"moderate", "confirm_then_moderate"}
Confirmed == {"confirm", "confirm_then_moderate"}
Flags == {"verified", "confirmed", "approved"}
Whiches == {"address", "user"}

(* The pairs of policies that lists begin with, the combinations of pre_   *)
(* flags that requests come with, what the administration does, and how    *)
(* many transactions are open at a time.                                   *)
Scope == [settings: SUBSET (Policies \X Policies), pres: SUBSET SUBSET Flags,
          changes: SUBSET {"add", "remove", "ban", "policy", "prefer", "unverify"},
          together: Nat]

ASSUME SubscriptionAssumption ==
    /\ Scopes \subseteq Scope
    /\ MaxTokens \in Nat /\ MaxChanges \in Nat /\ MaxOverlaps \in Nat
    /\ IsFiniteSet(Processes)

VARIABLES
    pended,         \* the pending database: from tokens to what is pended
    saved,          \* the workflow states: from tokens to saved workflows
    issued,         \* how many tokens have been issued
    members,        \* <<list, email, which>>, the memberships
    verified,       \* the emails that have been verified
    preferred,      \* the emails that are preferred addresses
    banned,         \* <<list, email>>, the bans
    policy,         \* the subscription policies
    unpolicy,       \* the unsubscription policies
    changes,        \* changes of the administration so far
    scope,          \* a member of Scopes
    tx,             \* what the open transaction of each process will write
    steady,         \* history: no policy changed and no email was unverified
    overlaps        \* history: for <<list, email>>, the transactions of
                    \* subscriptions that began while another was open

tokens == <<pended, saved, issued>>
people == <<members, verified, preferred>>
admin == <<banned, policy, unpolicy>>
committed == <<tokens, people, admin, changes, steady>>
vars == <<committed, tx, overlaps, scope>>

Tokens == 1 .. MaxTokens
Pendable == [list: Lists, email: Emails, owner: {"subscriber", "moderator"},
             type: {"subscription", "unsubscription"}]
(* conf and appr are history: whose tokens led here.                       *)
Workflow == [type: {"subscription", "unsubscription"},
             step: {"do_confirm_verify", "from_restored"},
             email: Emails, which: Whiches, pre: SUBSET Flags,
             conf: BOOLEAN, appr: BOOLEAN]

(* What a transaction has made of a workflow.  policy is the one it read,  *)
(* token the one it began with (0 for none), owner who is to answer the    *)
(* next; rows are the memberships it adds or deletes, and newly those whom *)
(* it verifies.                                                            *)
Transaction == [op: {"hold", "subscribe", "unsubscribe", "end"},
                list: Lists, wf: Workflow, policy: Policies,
                token: 0 .. MaxTokens,
                owner: {"no_one", "subscriber", "moderator"},
                rows: SUBSET (Lists \X Emails \X Whiches),
                newly: SUBSET Emails]
Nothing == [op |-> "nothing"]

PolicyFor(l, type) == IF type = "subscription" THEN policy[l] ELSE unpolicy[l]

Outcome(op, l, w, t, owner, rows, newly) ==
    [op |-> op, list |-> l, wf |-> w, policy |-> PolicyFor(l, w.type),
     token |-> t, owner |-> owner, rows |-> rows, newly |-> newly \ verified]

Init ==
    /\ pended = << >> /\ saved = << >> /\ issued = 0
    /\ members = {}
    /\ verified \in SUBSET Emails
    /\ preferred \in SUBSET verified
    /\ banned = {}
    /\ policy \in [Lists -> Policies]
    /\ unpolicy \in [Lists -> Policies]
    /\ scope \in Scopes
    /\ \A l \in Lists : <<policy[l], unpolicy[l]>> \in scope.settings
    /\ changes = 0 /\ steady = TRUE
    /\ tx = [p \in Processes |-> Nothing]
    /\ overlaps = [le \in Lists \X Emails |-> 0]

(***************************************************************************)
(* Transactions.                                                           *)
(***************************************************************************)
(* Who is about a subscription of that email at that list.                 *)
Subscribing(l, e) ==
    {p \in Processes : /\ tx[p] # Nothing /\ tx[p].wf.type = "subscription"
                       /\ tx[p].list = l /\ tx[p].wf.email = e}

Begin(p, x) ==
    LET le == <<x.list, x.wf.email>>
        beside == x.wf.type = "subscription" /\ Subscribing(x.list, x.wf.email) # {}
    IN  /\ tx[p] = Nothing
        /\ Cardinality({q \in Processes : tx[q] # Nothing}) < scope.together
        /\ tx' = [tx EXCEPT ![p] = x]
        /\ beside => overlaps[le] < MaxOverlaps
        /\ overlaps' = [overlaps EXCEPT ![le] = IF beside THEN @ + 1 ELSE @]
        /\ UNCHANGED <<committed, scope>>

Without(f, t) == [x \in DOMAIN f \ {t} |-> f[x]]
With(f, t, r) == [x \in DOMAIN f \cup {t} |-> IF x = t THEN r ELSE f[x]]

(* Mutant: the token that was confirmed stays.                             *)
SetTokenBeside(x) ==
    /\ issued < MaxTokens /\ issued' = issued + 1
    /\ pended' = With(pended, issued', [list |-> x.list, email |-> x.wf.email,
                                       owner |-> x.owner, type |-> x.wf.type])

SetToken(x) ==
    /\ issued < MaxTokens /\ issued' = issued + 1
    /\ pended' = With(Without(pended, x.token), issued',
                      [list |-> x.list, email |-> x.wf.email,
                       owner |-> x.owner, type |-> x.wf.type])

(* The step that a confirmation goes on with.                              *)
Waiting(w, owner) == [w EXCEPT !.step = IF owner = "subscriber"
                                        THEN "do_confirm_verify"
                                        ELSE "from_restored"]

(* restore() takes the state of a token out of the table; save() stores    *)
(* the attributes with the one step that is left, under the new token.     *)
Restored(states, t) == Without(states, t)
Save(states, t, w) == With(states, t, w)

(* Mutant: the state is saved before there is a new token.                 *)
HoldSavesFirst(x) ==
    /\ SetToken(x)
    /\ saved' = Save(saved, IF x.token = 0 THEN issued' ELSE x.token, x.wf)

Hold(x) ==
    /\ SetToken(x)
    /\ saved' = Save(Restored(saved, x.token), issued', Waiting(x.wf, x.owner))

Settle(x) ==
    /\ pended' = Without(pended, x.token)
    /\ saved' = Without(saved, x.token)
    /\ UNCHANGED issued

Commit(p) ==
    LET x == tx[p]
    IN  /\ x # Nothing
        /\ \/ x.op = "hold" /\ Hold(x)
           \/ x.op # "hold" /\ Settle(x)
        /\ members' = CASE x.op = "subscribe" -> members \cup x.rows
                        [] x.op = "unsubscribe" -> members \ x.rows
                        [] OTHER -> members
        /\ verified' = verified \cup x.newly
        /\ tx' = [tx EXCEPT ![p] = Nothing]
        /\ UNCHANGED <<preferred, admin, changes, steady, overlaps, scope>>

(* The process dies, or the database refuses.                              *)
Rollback(p) ==
    /\ tx[p] # Nothing
    /\ tx' = [tx EXCEPT ![p] = Nothing]
    /\ UNCHANGED <<committed, overlaps, scope>>

(***************************************************************************)
(* Steps that decide how a workflow goes on.                               *)
(***************************************************************************)
ModerationChecks(w) == IF "approved" \in w.pre THEN "do" ELSE "moderator"

ConfirmationChecks(l, w) ==
    CASE policy[l] = "open" -> "do"
      [] policy[l] = "moderate" -> ModerationChecks(w)
      [] policy[l] \in Confirmed /\ "confirmed" \in w.pre ->
           IF policy[l] = "confirm" THEN "do" ELSE ModerationChecks(w)
      [] OTHER -> "subscriber"

(* Mutant: the flags of the request make up for the verification.          *)
VerificationChecksSkipped(l, w) ==
    IF w.email \notin verified /\ w.pre = {} THEN "subscriber"
    ELSE ConfirmationChecks(l, w)

VerificationChecks(l, w) ==
    IF w.email \notin verified /\ "verified" \notin w.pre THEN "subscriber"
    ELSE ConfirmationChecks(l, w)

LeavingChecks(l, w) ==
    CASE unpolicy[l] = "open" -> "do"
      [] unpolicy[l] = "moderate" -> ModerationChecks(w)
      [] unpolicy[l] \in Confirmed /\ "confirmed" \in w.pre -> "do"
      [] OTHER -> "subscriber"

(* Mutant: a confirmed request needs no moderator.                         *)
AfterConfirmationDone(p, w) == "do"
AfterConfirmation(p, w) == IF p \in Moderated THEN ModerationChecks(w) ELSE "do"

(***************************************************************************)
(* The steps at the end.  _step_do_subscription raises when the address or *)
(* the user is a member by now; REST answers that and commits, the email   *)
(* command lets it abort.  Nobody catches it when a user without a         *)
(* preferred address is confirmed.  newly is who was verified on the way.  *)
(***************************************************************************)
CanSubscribe(w) == w.which = "address" \/ w.email \in preferred
Row(l, w) == <<l, w.email, w.which>>
IsMember(l, w) == Row(l, w) \in members

DoSubscription(p, t, l, w, newly, channel) ==
    /\ CanSubscribe(w)
    /\ \/ /\ ~IsMember(l, w)
          /\ Begin(p, Outcome("subscribe", l, w, t, "no_one", {Row(l, w)}, newly))
       \/ /\ IsMember(l, w) /\ channel = "rest"
          /\ Begin(p, Outcome("end", l, w, t, "no_one", {}, newly))

(* delete_member: the explicit membership of the address if there is one.  *)
Leaver(l, e) ==
    IF <<l, e, "address">> \in members THEN {<<l, e, "address">>}
    ELSE {<<l, e, "user">>} \cap members

DoUnsubscription(p, t, l, w) ==
    LET gone == Leaver(l, w.email)
    IN  Begin(p, Outcome(IF gone = {} THEN "end" ELSE "unsubscribe",
                         l, w, t, "no_one", gone, {}))

(***************************************************************************)
(* Requests.                                                               *)
(***************************************************************************)
PendedFor(l, e) == {t \in DOMAIN pended : /\ pended[t].list = l
                                          /\ pended[t].email = e
                                          /\ pended[t].type = "subscription"}

(* _step_sanity_checks: not a member, not banned, nothing pending.         *)
Sane(l, w) ==
    /\ IF w.which = "user" /\ w.email \in preferred
       THEN <<l, w.email, "user">> \notin members
       ELSE <<l, w.email, "address">> \notin members
    /\ <<l, w.email>> \notin banned
    /\ PendedFor(l, w.email) = {}

NewWorkflow(type, e, which, pre) ==
    [type |-> type, step |-> "do_confirm_verify", email |-> e,
     which |-> which, pre |-> pre, conf |-> FALSE, appr |-> FALSE]

(* SubscriptionManager.register; the flag pre_verified verifies.  REST     *)
(* commits that also when it finds a user without a preferred address.     *)
Register(p, l, e, which, pre) ==
    LET w == NewWorkflow("subscription", e, which, pre)
        newly == {x \in {e} : "verified" \in pre}
        to == VerificationChecks(l, w)
    IN  /\ Sane(l, w)
        /\ \/ to = "do" /\ DoSubscription(p, 0, l, w, newly, "rest")
           \/ /\ to = "do" /\ ~CanSubscribe(w)
              /\ Begin(p, Outcome("end", l, w, 0, "no_one", {}, newly))
           \/ /\ to # "do"
              /\ Begin(p, Outcome("hold", l, w, 0, to, {}, newly))

(* The leave command, for an address: a verified one that is subscribed.   *)
(* SubscriptionManager.unregister asserts that the address itself is; it   *)
(* takes the flags, of which the command sets none.                        *)
Leave(p, l, e, pre) ==
    LET w == NewWorkflow("unsubscription", e, "address", pre)
        to == LeavingChecks(l, w)
    IN  /\ e \in verified
        /\ IsMember(l, w)
        /\ \/ to = "do" /\ DoUnsubscription(p, 0, l, w)
           \/ /\ to # "do"
              /\ Begin(p, Outcome("hold", l, w, 0, to, {}, {}))

(***************************************************************************)
(* SubscriptionManager.confirm, at the list that issued the token: the     *)
(* confirm command would take it at any list, and go on there.             *)
(***************************************************************************)
(* Whose token it was, for the history.                                    *)
Marked(w) == IF w.step = "do_confirm_verify" THEN [w EXCEPT !.conf = TRUE]
             ELSE [w EXCEPT !.appr = TRUE]

ConfirmSubscription(p, t, l, channel) ==
    LET w == Marked(saved[t])
    IN  \/ /\ w.step = "from_restored"
           /\ DoSubscription(p, t, l, w, {}, channel)
        \/ /\ w.step # "from_restored" /\ AfterConfirmation(policy[l], w) = "do"
           /\ DoSubscription(p, t, l, w, {w.email}, channel)
        \/ /\ w.step # "from_restored" /\ AfterConfirmation(policy[l], w) # "do"
           /\ Begin(p, Outcome("hold", l, w, t, "moderator", {}, {w.email}))

(* A confirmation that finds no membership any more ends the workflow.     *)
ConfirmUnsubscription(p, t, l) ==
    LET w == Marked(saved[t])
        done == \/ w.step = "from_restored"
                \/ Leaver(l, w.email) = {}
                \/ AfterConfirmation(unpolicy[l], w) = "do"
    IN  \/ done /\ DoUnsubscription(p, t, l, w)
        \/ ~done /\ Begin(p, Outcome("hold", l, w, t, "moderator", {}, {}))

(* A token without a saved state is refused: restore finds nothing.        *)
Confirm(p, t, l, channel) ==
    /\ t \in DOMAIN pended /\ pended[t].list = l
    /\ t \in DOMAIN saved
    /\ \/ /\ pended[t].type = "subscription"
          /\ ConfirmSubscription(p, t, l, channel)
       \/ /\ pended[t].type = "unsubscription"
          /\ ConfirmUnsubscription(p, t, l)

(* REST: the actions discard and reject expunge the token, nothing else.   *)
Dismiss(t) ==
    /\ t \in DOMAIN pended
    /\ pended' = Without(pended, t)
    /\ UNCHANGED <<saved, issued, people, admin, changes, steady, tx, overlaps, scope>>

(***************************************************************************)
(* What the administration does in the meantime.                           *)
(***************************************************************************)
AddMember(l, e) ==
    /\ "add" \in scope.changes
    /\ <<l, e>> \notin banned
    /\ members' = members \cup {<<l, e, "address">>}
    /\ UNCHANGED <<verified, preferred, admin, steady>>

RemoveMember(l, e) ==
    /\ "remove" \in scope.changes
    /\ Leaver(l, e) # {}
    /\ members' = members \ Leaver(l, e)
    /\ UNCHANGED <<verified, preferred, admin, steady>>

Ban(l, e) ==
    /\ "ban" \in scope.changes
    /\ banned' = banned \cup {<<l, e>>}
    /\ UNCHANGED <<people, policy, unpolicy, steady>>

SetPolicy(l) ==
    /\ "policy" \in scope.changes
    /\ \E p \in Policies :
         \/ policy' = [policy EXCEPT ![l] = p] /\ UNCHANGED unpolicy
         \/ unpolicy' = [unpolicy EXCEPT ![l] = p] /\ UNCHANGED policy
    /\ steady' = FALSE
    /\ UNCHANGED <<people, banned>>

Prefer(e) ==
    /\ "prefer" \in scope.changes
    /\ e \in verified
    /\ preferred' = preferred \cup {e}
    /\ UNCHANGED <<members, verified, admin, steady>>

Unverify(e) ==
    /\ "unverify" \in scope.changes
    /\ verified' = verified \ {e}
    /\ steady' = FALSE
    /\ UNCHANGED <<members, preferred, admin>>

Administration ==
    /\ changes < MaxChanges
    /\ changes' = changes + 1
    /\ \/ \E l \in Lists, e \in Emails : AddMember(l, e) \/ RemoveMember(l, e)
                                         \/ Ban(l, e)
       \/ \E l \in Lists : SetPolicy(l)
       \/ \E e \in Emails : Prefer(e) \/ Unverify(e)
    /\ UNCHANGED <<tokens, tx, overlaps, scope>>

Next ==
    \/ \E p \in Processes, l \in Lists, e \in Emails, which \in Whiches,
          pre \in scope.pres : Register(p, l, e, which, pre)
    \/ \E p \in Processes, l \in Lists, e \in Emails, pre \in scope.pres :
          Leave(p, l, e, pre \ {"verified"})
    \/ \E p \in Processes, t \in Tokens, l \in Lists, channel \in {"rest", "email"} :
          Confirm(p, t, l, channel)
    \/ \E p \in Processes : Commit(p) \/ Rollback(p)
    \/ \E t \in Tokens : Dismiss(t)
    \/ Administration

Spec == Init /\ [][Next]_vars

--------------------------------------------------------------------------------
(* A token in the pending database can be confirmed: the state of its      *)
(* workflow is saved, for the same request, and waits at the step that     *)
(* belongs to the owner of the token.  The two tables are written apart.   *)
TokensLeadSomewhere ==
    \A t \in DOMAIN pended :
        /\ pended[t] \in Pendable
        /\ t \in DOMAIN saved /\ saved[t] \in Workflow
        /\ saved[t].type = pended[t].type /\ saved[t].email = pended[t].email
        /\ saved[t].step = IF pended[t].owner = "subscriber"
                           THEN "do_confirm_verify" ELSE "from_restored"

(* Through every hold, confirmation and dismissal at most one subscription *)
(* request is pending for an email at a list, but for those that began     *)
(* while another transaction about the same email was open: the look for a *)
(* pending one (app/subscriptions.py:222-227) does not see what that one   *)
(* is about to insert (:157).  Each such overlap adds one at most.         *)
OneRequestPerEmail ==
    \A l \in Lists, e \in Emails :
        Cardinality(PendedFor(l, e)) <= 1 + overlaps[<<l, e>>]

(* While a list wants moderation, no transaction is about to subscribe     *)
(* somebody by a workflow that no moderator has approved, however the      *)
(* policy changed on the way: the policy is read again at each step.       *)
ModeratorsDecide ==
    \A p \in Processes :
        (tx[p].op = "subscribe" /\ tx[p].policy \in Moderated)
            => tx[p].wf.appr \/ "approved" \in tx[p].wf.pre

(* A preconfirmed leave skips the moderator whom the policy asks for.      *)
Preconfirmed(x) == /\ x.policy = "confirm_then_moderate"
                   /\ "confirmed" \in x.wf.pre

(* Unless the policy or the verification was changed on the way: no        *)
(* transaction is about to subscribe somebody unconfirmed to a list that   *)
(* wants confirmation, or somebody who will be unverified to any; or to    *)
(* let somebody go without the confirmation and the approval that the      *)
(* policy asks for.  The exception is a preconfirmed leave under           *)
(* confirm_then_moderate, which nobody approves                            *)
(* (app/subscriptions.py:406-410), although that policy says "the          *)
(* moderator must also approve" (interfaces/mailinglist.py:88-90).         *)
ConsentGiven ==
    steady => \A p \in Processes :
      LET x == tx[p]
      IN  /\ x.op = "subscribe" => x.wf.email \in verified \cup x.newly
          /\ x.op \in {"subscribe", "unsubscribe"} /\ x.policy \in Confirmed =>
                x.wf.conf \/ "confirmed" \in x.wf.pre
          /\ x.op = "unsubscribe" /\ x.policy \in Moderated /\ ~Preconfirmed(x) =>
                x.wf.appr \/ "approved" \in x.wf.pre
================================================================================
