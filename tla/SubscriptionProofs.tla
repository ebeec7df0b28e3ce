--------------------------- MODULE SubscriptionProofs ---------------------------
(***************************************************************************)
(* Theorems about Subscription, for any lists, emails and processes, any   *)
(* flags of the requests and any number of tokens, of changes of the       *)
(* administration and of transactions that overlap.                        *)
(***************************************************************************)
EXTENDS Subscription, FiniteSetTheorems, TLAPS

TablesTyped ==
    /\ issued \in 0 .. MaxTokens
    /\ DOMAIN pended \subseteq 1 .. issued
    /\ \A t \in DOMAIN saved : saved[t] \in Workflow

PeopleTyped ==
    /\ members \subseteq Lists \X Emails \X Whiches
    /\ verified \subseteq Emails /\ preferred \subseteq Emails
    /\ banned \subseteq Lists \X Emails
    /\ policy \in [Lists -> Policies] /\ unpolicy \in [Lists -> Policies]
    /\ changes \in 0 .. MaxChanges /\ steady \in BOOLEAN
    /\ scope \in Scopes

TxTyped ==
    /\ tx \in [Processes -> Transaction \cup {Nothing}]
    /\ overlaps \in [Lists \X Emails -> Nat]
    /\ \A p \in Processes : tx[p] # Nothing => tx[p].token <= issued

(* What a moderator finds already done: a workflow that waits for one has  *)
(* passed the verification and the confirmation that the policy asks for.  *)
Prepared(l, w, newly) ==
    /\ w.type = "subscription" => w.email \in verified \cup newly
    /\ PolicyFor(l, w.type) \in Confirmed => w.conf \/ "confirmed" \in w.pre

ModeratorsComeLast ==
    steady => \A t \in DOMAIN pended : saved[t].step = "from_restored"
                                    => Prepared(pended[t].list, saved[t], {})

(* A transaction that holds a request knows who is to answer.              *)
HoldsWell(x) ==
    x.op = "hold" =>
        /\ x.owner \in {"subscriber", "moderator"}
        /\ steady /\ x.owner = "moderator" => Prepared(x.list, x.wf, x.newly)

(* What ModeratorsDecide and ConsentGiven say of one transaction.          *)
Approved(x) == x.wf.appr \/ "approved" \in x.wf.pre
Agreed(x) == x.wf.conf \/ "confirmed" \in x.wf.pre

Decided(x) == x.op = "subscribe" /\ x.policy \in Moderated => Approved(x)

Consented(x) ==
    /\ x.op = "subscribe" => x.wf.email \in verified \cup x.newly
    /\ x.op \in {"subscribe", "unsubscribe"} /\ x.policy \in Confirmed => Agreed(x)
    /\ x.op = "unsubscribe" /\ x.policy \in Moderated /\ ~Preconfirmed(x) => Approved(x)

Proper(x) == HoldsWell(x) /\ Decided(x) /\ (steady => Consented(x))

AllProper == \A p \in Processes : Proper(tx[p])

(* The pending requests that no open transaction began with: with the open *)
(* transactions, which bring one each at most, they are not more than the  *)
(* overlaps account for.                                                   *)
Untaken(l, e) ==
    {t \in PendedFor(l, e) : \A p \in Subscribing(l, e) : tx[p].token # t}

CountOK(l, e) ==
    Cardinality(Untaken(l, e)) + Cardinality(Subscribing(l, e)) <= 1 + overlaps[<<l, e>>]

Counted == \A l \in Lists, e \in Emails : CountOK(l, e)

TablesOK == TablesTyped /\ TokensLeadSomewhere /\ ModeratorsComeLast

IInv == TablesOK /\ PeopleTyped /\ TxTyped /\ AllProper /\ Counted

-------------------------------------------------------------------------------
(* The operators on workflows.                                             *)
LEMMA WaitingFields ==
    ASSUME NEW w \in Workflow, NEW owner
    PROVE  /\ Waiting(w, owner) \in Workflow
           /\ Waiting(w, owner).step = IF owner = "subscriber"
                                       THEN "do_confirm_verify" ELSE "from_restored"
           /\ Waiting(w, owner).type = w.type /\ Waiting(w, owner).email = w.email
           /\ Waiting(w, owner).pre = w.pre /\ Waiting(w, owner).conf = w.conf
BY DEF Waiting, Workflow

LEMMA MarkedFields ==
    ASSUME NEW w \in Workflow
    PROVE  /\ Marked(w) \in Workflow
           /\ Marked(w).type = w.type /\ Marked(w).email = w.email
           /\ Marked(w).pre = w.pre /\ Marked(w).step = w.step
           /\ w.step = "do_confirm_verify" => Marked(w).conf
           /\ w.step = "from_restored" => Marked(w).appr /\ Marked(w).conf = w.conf
BY DEF Marked, Workflow

LEMMA NewWorkflowFields ==
    ASSUME NEW type \in {"subscription", "unsubscription"}, NEW e \in Emails,
           NEW which \in Whiches, NEW pre \in SUBSET Flags
    PROVE  /\ NewWorkflow(type, e, which, pre) \in Workflow
           /\ NewWorkflow(type, e, which, pre).type = type
           /\ NewWorkflow(type, e, which, pre).email = e
           /\ NewWorkflow(type, e, which, pre).which = which
           /\ NewWorkflow(type, e, which, pre).pre = pre
BY DEF NewWorkflow, Workflow

-------------------------------------------------------------------------------
(* The count.                                                              *)
LEMMA Finite ==
    ASSUME TablesTyped, NEW l, NEW e
    PROVE  /\ IsFiniteSet(Subscribing(l, e)) /\ Cardinality(Subscribing(l, e)) \in Nat
           /\ IsFiniteSet(PendedFor(l, e)) /\ Cardinality(PendedFor(l, e)) \in Nat
           /\ IsFiniteSet(Untaken(l, e)) /\ Cardinality(Untaken(l, e)) \in Nat
<1>1. Subscribing(l, e) \subseteq Processes
  BY DEF Subscribing
<1>2. PendedFor(l, e) \subseteq 1 .. issued /\ IsFiniteSet(1 .. issued)
  BY SubscriptionAssumption, FS_Interval DEF PendedFor, TablesTyped
<1>3. Untaken(l, e) \subseteq PendedFor(l, e)
  BY DEF Untaken
<1>. QED BY <1>1, <1>2, <1>3, FS_Subset, FS_CardinalityType, SubscriptionAssumption

(* A step that leaves the open transactions, or ends one of them, which    *)
(* brings or gives back one request.                                       *)
LEMMA CountKept ==
    ASSUME NEW l \in Lists, NEW e \in Emails, TablesTyped, TablesTyped', TxTyped,
           CountOK(l, e), overlaps' = overlaps, NEW a,
           \/ /\ Subscribing(l, e)' = Subscribing(l, e)
              /\ Untaken(l, e)' \subseteq Untaken(l, e)
           \/ \E p \in Subscribing(l, e) :
                /\ Subscribing(l, e)' = Subscribing(l, e) \ {p}
                /\ Untaken(l, e)' \subseteq Untaken(l, e) \cup {a}
    PROVE  CountOK(l, e)'
<1> DEFINE u == Untaken(l, e)  s == Subscribing(l, e)
<1>1. /\ IsFiniteSet(u) /\ Cardinality(u) \in Nat
      /\ IsFiniteSet(s) /\ Cardinality(s) \in Nat
  BY Finite
<1>2. /\ IsFiniteSet(u') /\ Cardinality(u') \in Nat
      /\ IsFiniteSet(s') /\ Cardinality(s') \in Nat
  <2>1. Subscribing(l, e)' \subseteq Subscribing(l, e)
    OBVIOUS
  <2>2. IsFiniteSet(s')
    BY <1>1, <2>1, FS_Subset
  <2>3. u' \subseteq u \cup {a} /\ IsFiniteSet(u \cup {a})
    BY <1>1, FS_AddElement
  <2>. QED BY <2>2, <2>3, FS_Subset, FS_CardinalityType
<1>3. overlaps[<<l, e>>] \in Nat
  BY DEF TxTyped
<1>4. Cardinality(u) + Cardinality(s) <= 1 + overlaps[<<l, e>>]
  BY DEF CountOK
<1> HIDE DEF u, s
<1>5. CASE s' = s /\ u' \subseteq u
  <2>1. Cardinality(u') <= Cardinality(u)
    BY <1>1, <1>5, FS_Subset
  <2>. QED BY <1>1, <1>2, <1>3, <1>4, <1>5, <2>1 DEF CountOK, u, s
<1>6. ASSUME NEW p \in s, s' = s \ {p}, u' \subseteq u \cup {a}
      PROVE  CountOK(l, e)'
  <2>1. Cardinality(s') = Cardinality(s) - 1
    BY <1>1, <1>6, FS_RemoveElement
  <2>2. Cardinality(u') <= Cardinality(u) + 1
    <3>1. /\ IsFiniteSet(u \cup {a})
          /\ Cardinality(u \cup {a}) = Cardinality(u) \/ Cardinality(u \cup {a}) = Cardinality(u) + 1
      BY <1>1, FS_AddElement
    <3>2. Cardinality(u') <= Cardinality(u \cup {a})
      BY <3>1, <1>6, FS_Subset
    <3>. QED BY <1>1, <1>2, <3>1, <3>2
  <2>. QED BY <1>1, <1>2, <1>3, <1>4, <2>1, <2>2 DEF CountOK, u, s
<1>. QED BY <1>5, <1>6 DEF u, s

(* The look for a pending request, and the token that is confirmed: each   *)
(* transaction begins where there is none, or with one.                    *)
LEMMA BeginCounts ==
    ASSUME IInv, NEW p \in Processes, NEW x \in Transaction, Begin(p, x),
           x.wf.type = "subscription" =>
               \/ PendedFor(x.list, x.wf.email) = {}
               \/ x.token \in PendedFor(x.list, x.wf.email),
           NEW l \in Lists, NEW e \in Emails
    PROVE  CountOK(l, e)'
<1> DEFINE mine == x.wf.type = "subscription" /\ x.list = l /\ x.wf.email = e
<1>1. /\ tx[p] = Nothing /\ tx' = [tx EXCEPT ![p] = x]
      /\ tx \in [Processes -> Transaction \cup {Nothing}]
      /\ UNCHANGED <<pended, saved, issued>> /\ x # Nothing
  BY DEF Begin, IInv, TxTyped, committed, tokens, Transaction, Nothing
<1>2. overlaps \in [Lists \X Emails -> Nat] /\ <<x.list, x.wf.email>> \in Lists \X Emails
  BY DEF IInv, TxTyped, Transaction, Workflow
<1>3. PendedFor(l, e)' = PendedFor(l, e)
  BY <1>1 DEF PendedFor
<1>4. /\ IsFiniteSet(Untaken(l, e)) /\ Cardinality(Untaken(l, e)) \in Nat
      /\ IsFiniteSet(Subscribing(l, e)) /\ Cardinality(Subscribing(l, e)) \in Nat
      /\ IsFiniteSet(PendedFor(l, e)) /\ Cardinality(PendedFor(l, e)) \in Nat
      /\ CountOK(l, e)
  BY Finite DEF IInv, TablesOK, Counted
<1>5. CASE ~mine
  <2>1. \A q \in Processes : q # p => tx'[q] = tx[q]
    BY <1>1
  <2>2. Subscribing(l, e)' = Subscribing(l, e)
    BY <1>1, <1>5 DEF Subscribing
  <2>3. p \notin Subscribing(l, e)
    BY <1>1 DEF Subscribing
  <2>4. Untaken(l, e)' = Untaken(l, e)
    BY <1>3, <2>1, <2>2, <2>3 DEF Untaken, Subscribing
  <2>5. overlaps'[<<l, e>>] = overlaps[<<l, e>>]
    BY <1>2, <1>5 DEF Begin
  <2>. QED BY <1>4, <2>2, <2>4, <2>5 DEF CountOK
<1>6. CASE mine
  <2>1. p \notin Subscribing(l, e) /\ Subscribing(l, e)' = Subscribing(l, e) \cup {p}
    BY <1>1, <1>6 DEF Subscribing
  <2>2. Cardinality(Subscribing(l, e)') = Cardinality(Subscribing(l, e)) + 1
    BY <1>4, <2>1, FS_AddElement
  <2>3. \A q \in Subscribing(l, e) : tx'[q] = tx[q]
    BY <1>1, <2>1 DEF Subscribing
  <2>4. Untaken(l, e)' \subseteq Untaken(l, e) \ {x.token}
    BY <1>1, <1>3, <2>1, <2>3 DEF Untaken
  <2>5. /\ IsFiniteSet(Untaken(l, e)') /\ Cardinality(Untaken(l, e)') \in Nat
        /\ Cardinality(Untaken(l, e)') <= Cardinality(Untaken(l, e))
    BY <1>4, <2>4, FS_Subset, FS_CardinalityType
  <2>6. overlaps[<<l, e>>] \in Nat
    BY <1>2
  <2>7. CASE Subscribing(l, e) # {}
    <3>1. overlaps'[<<l, e>>] = overlaps[<<l, e>>] + 1
      BY <1>2, <1>6, <2>7 DEF Begin
    <3>. QED BY <1>4, <2>2, <2>5, <2>6, <3>1 DEF CountOK
  <2>8. CASE Subscribing(l, e) = {}
    <3>1. overlaps'[<<l, e>>] = overlaps[<<l, e>>]
      BY <1>2, <1>6, <2>8 DEF Begin
    <3>2. Cardinality(Subscribing(l, e)) = 0
      BY <2>8, FS_EmptySet
    <3>3. Untaken(l, e) = PendedFor(l, e)
      BY <2>8 DEF Untaken
    <3>4. CASE PendedFor(l, e) = {}
      <4>1. Cardinality(Untaken(l, e)) = 0
        BY <3>3, <3>4, FS_EmptySet
      <4>. QED BY <1>4, <2>2, <2>5, <2>6, <3>1, <3>2, <4>1 DEF CountOK
    <3>5. CASE x.token \in PendedFor(l, e)
      <4>1. /\ Cardinality(Untaken(l, e) \ {x.token}) = Cardinality(Untaken(l, e)) - 1
            /\ IsFiniteSet(Untaken(l, e) \ {x.token})
        BY <1>4, <3>3, <3>5, FS_RemoveElement
      <4>2. Cardinality(Untaken(l, e)') <= Cardinality(Untaken(l, e) \ {x.token})
        BY <2>4, <4>1, FS_Subset
      <4>. QED BY <1>4, <2>2, <2>5, <2>6, <3>1, <3>2, <4>1, <4>2 DEF CountOK
    <3>. QED BY <1>6, <3>4, <3>5
  <2>. QED BY <2>7, <2>8
<1>. QED BY <1>5, <1>6

-------------------------------------------------------------------------------
(* The tables, in a transaction that ends workflows or leaves all alone.   *)
LEMMA FewerTokens ==
    ASSUME TablesOK, issued' = issued,
           DOMAIN pended' \subseteq DOMAIN pended, DOMAIN saved' \subseteq DOMAIN saved,
           DOMAIN pended' \subseteq DOMAIN saved',
           \A y \in DOMAIN pended' : pended'[y] = pended[y],
           \A y \in DOMAIN saved' : saved'[y] = saved[y],
           steady' => /\ steady /\ verified \subseteq verified'
                      /\ UNCHANGED <<policy, unpolicy>>
    PROVE  TablesOK'
<1>1. TablesTyped' /\ TokensLeadSomewhere'
  BY DEF TablesOK, TablesTyped, TokensLeadSomewhere
<1>2. ModeratorsComeLast'
  <2> SUFFICES ASSUME steady', NEW y \in DOMAIN pended',
                      saved'[y].step = "from_restored"
               PROVE  Prepared(pended[y].list, saved[y], {})'
    BY DEF ModeratorsComeLast
  <2>1. /\ y \in DOMAIN pended /\ pended'[y] = pended[y]
        /\ y \in DOMAIN saved' /\ saved'[y] = saved[y]
    BY <1>1 DEF TokensLeadSomewhere
  <2>2. Prepared(pended[y].list, saved[y], {})
    BY <2>1 DEF TablesOK, ModeratorsComeLast
  <2>. QED BY <2>1, <2>2 DEF Prepared, PolicyFor
<1>. QED BY <1>1, <1>2 DEF TablesOK

(* One that waits for a new token.                                         *)
LEMMA HoldTables ==
    ASSUME NEW x, Hold(x)
    PROVE  /\ issued < MaxTokens /\ issued' = issued + 1
           /\ DOMAIN pended' = (DOMAIN pended \ {x.token}) \cup {issued + 1}
           /\ DOMAIN saved' = (DOMAIN saved \ {x.token}) \cup {issued + 1}
           /\ pended'[issued + 1] = [list |-> x.list, email |-> x.wf.email,
                                     owner |-> x.owner, type |-> x.wf.type]
           /\ saved'[issued + 1] = Waiting(x.wf, x.owner)
           /\ \A y \in DOMAIN pended' : y # issued + 1 => pended'[y] = pended[y]
           /\ \A y \in DOMAIN saved' : y # issued + 1 => saved'[y] = saved[y]
BY DEF Hold, SetToken, Save, Restored, With, Without

LEMMA HoldKeeps ==
    ASSUME NEW x \in Transaction, x.op = "hold", HoldsWell(x), TablesOK, Hold(x),
           verified' = verified \cup x.newly, UNCHANGED <<policy, unpolicy, steady>>
    PROVE  TablesOK'
<1> DEFINE new == issued + 1
           v == Waiting(x.wf, x.owner)
<1>1. /\ issued < MaxTokens /\ issued' = new
      /\ DOMAIN pended' = (DOMAIN pended \ {x.token}) \cup {new}
      /\ DOMAIN saved' = (DOMAIN saved \ {x.token}) \cup {new}
      /\ pended'[new] = [list |-> x.list, email |-> x.wf.email,
                         owner |-> x.owner, type |-> x.wf.type]
      /\ saved'[new] = v
      /\ \A y \in DOMAIN pended' : y # new => pended'[y] = pended[y]
      /\ \A y \in DOMAIN saved' : y # new => saved'[y] = saved[y]
  BY HoldTables
<1>2. x.wf \in Workflow /\ x.list \in Lists /\ x.owner \in {"subscriber", "moderator"}
  BY DEF Transaction, HoldsWell
<1>3. /\ v \in Workflow /\ v.type = x.wf.type /\ v.email = x.wf.email
      /\ v.pre = x.wf.pre /\ v.conf = x.wf.conf
      /\ v.step = IF x.owner = "subscriber" THEN "do_confirm_verify" ELSE "from_restored"
  BY <1>2, WaitingFields
<1>4. x.wf.type \in {"subscription", "unsubscription"} /\ x.wf.email \in Emails
  BY <1>2 DEF Workflow
<1> HIDE DEF v
<1>5. TablesTyped'
  BY <1>1, <1>3, SubscriptionAssumption DEF TablesOK, TablesTyped
<1>6. TokensLeadSomewhere'
  <2> SUFFICES ASSUME NEW y \in DOMAIN pended'
               PROVE  /\ pended'[y] \in Pendable
                      /\ y \in DOMAIN saved' /\ saved'[y] \in Workflow
                      /\ saved'[y].type = pended'[y].type
                      /\ saved'[y].email = pended'[y].email
                      /\ saved'[y].step = IF pended'[y].owner = "subscriber"
                                          THEN "do_confirm_verify" ELSE "from_restored"
    BY DEF TokensLeadSomewhere
  <2>1. CASE y = new
    BY <1>1, <1>2, <1>3, <1>4, <2>1 DEF Pendable
  <2>2. CASE y # new
    BY <1>1, <2>2 DEF TablesOK, TokensLeadSomewhere
  <2>. QED BY <2>1, <2>2
<1>7. ModeratorsComeLast'
  <2> SUFFICES ASSUME steady, NEW y \in DOMAIN pended',
                      saved'[y].step = "from_restored"
               PROVE  Prepared(pended[y].list, saved[y], {})'
    BY DEF ModeratorsComeLast
  <2>1. CASE y = new
    <3>1. x.owner = "moderator"
      BY <1>1, <1>2, <1>3, <2>1
    <3>2. pended'[y].list = x.list /\ saved'[y] = v
      BY <1>1, <2>1
    <3>3. Prepared(x.list, x.wf, x.newly)
      BY <3>1 DEF HoldsWell
    <3>. QED BY <1>3, <3>2, <3>3 DEF Prepared, PolicyFor
  <2>2. CASE y # new
    <3>1. /\ y \in DOMAIN pended /\ pended'[y] = pended[y]
          /\ y \in DOMAIN saved' /\ saved'[y] = saved[y]
      BY <1>1, <2>2 DEF TablesOK, TokensLeadSomewhere
    <3>2. Prepared(pended[y].list, saved[y], {})
      BY <3>1 DEF TablesOK, ModeratorsComeLast
    <3>. QED BY <3>1, <3>2 DEF Prepared, PolicyFor
  <2>. QED BY <2>1, <2>2
<1>. QED BY <1>5, <1>6, <1>7 DEF TablesOK

-------------------------------------------------------------------------------
(* The transactions that stay open, in a step that ends some or none.      *)
LEMMA NothingIsProper == Proper(Nothing)
BY DEF Proper, HoldsWell, Decided, Consented, Nothing

LEMMA FewerOpen ==
    ASSUME AllProper, TxTyped, overlaps' = overlaps,
           issued \in Nat, issued' \in Nat, issued <= issued',
           tx' = tx \/ \E p \in Processes : tx' = [tx EXCEPT ![p] = Nothing],
           steady' => /\ steady /\ verified \subseteq verified'
                      /\ UNCHANGED <<policy, unpolicy>>
    PROVE  AllProper' /\ TxTyped'
<1>1. \A p \in Processes : tx'[p] = tx[p] \/ tx'[p] = Nothing
  BY DEF TxTyped
<1>2. TxTyped'
  <2>1. tx' \in [Processes -> Transaction \cup {Nothing}]
    BY DEF TxTyped
  <2>2. ASSUME NEW p \in Processes, tx'[p] # Nothing
        PROVE  tx'[p].token <= issued'
    <3>1. tx'[p] = tx[p] /\ tx[p].token <= issued /\ tx[p] \in Transaction
      BY <1>1, <2>2 DEF TxTyped
    <3>2. tx[p].token \in Nat
      BY <3>1, SubscriptionAssumption DEF Transaction
    <3>. QED BY <3>1, <3>2
  <2>. QED BY <2>1, <2>2 DEF TxTyped
<1>3. ASSUME NEW p \in Processes PROVE Proper(tx[p])'
  <2>1. Proper(tx[p])
    BY DEF AllProper
  <2>2. CASE tx'[p] = Nothing
    BY <2>2 DEF Proper, HoldsWell, Decided, Consented, Nothing
  <2>3. CASE tx'[p] = tx[p]
    BY <2>1, <2>3
    DEF Proper, HoldsWell, Decided, Consented, Prepared, PolicyFor, Approved, Agreed,
        Preconfirmed
  <2>. QED BY <1>1, <2>2, <2>3
<1>. QED BY <1>2, <1>3 DEF AllProper

-------------------------------------------------------------------------------
(* What begins: a transaction whose outcome is proper, and which was made  *)
(* where no request was pending, or from the token of one.                 *)
LEMMA BeginKeeps ==
    ASSUME IInv, NEW p \in Processes, NEW x \in Transaction, Begin(p, x),
           Proper(x), x.token <= issued,
           x.wf.type = "subscription" =>
               \/ PendedFor(x.list, x.wf.email) = {}
               \/ x.token \in PendedFor(x.list, x.wf.email)
    PROVE  IInv'
<1>1. /\ UNCHANGED <<pended, saved, issued, members, verified, preferred>>
      /\ UNCHANGED <<banned, policy, unpolicy, changes, steady, scope>>
  BY DEF Begin, committed, tokens, people, admin
<1>2. tx \in [Processes -> Transaction \cup {Nothing}] /\ tx' = [tx EXCEPT ![p] = x]
  BY DEF Begin, IInv, TxTyped
<1>3. TablesOK'
  BY <1>1 DEF IInv, TablesOK, TablesTyped, TokensLeadSomewhere, ModeratorsComeLast,
              Prepared, PolicyFor
<1>4. PeopleTyped'
  BY <1>1 DEF IInv, PeopleTyped
<1>5. TxTyped'
  <2>1. overlaps' \in [Lists \X Emails -> Nat]
    <3> DEFINE le == <<x.list, x.wf.email>>
    <3>1. overlaps \in [Lists \X Emails -> Nat] /\ le \in Lists \X Emails
      BY DEF IInv, TxTyped, Transaction, Workflow
    <3>2. \/ overlaps' = [overlaps EXCEPT ![le] = overlaps[le] + 1]
          \/ overlaps' = [overlaps EXCEPT ![le] = overlaps[le]]
      BY DEF Begin
    <3>. QED BY <3>1, <3>2
  <2>. QED BY <1>1, <1>2, <2>1 DEF IInv, TxTyped
<1>6. AllProper'
  <2> SUFFICES ASSUME NEW q \in Processes PROVE Proper(tx[q])'
    BY DEF AllProper
  <2>1. CASE q = p
    <3>1. tx'[q] = x
      BY <1>2, <2>1
    <3>. QED BY <1>1, <3>1 DEF Proper, HoldsWell, Decided, Consented, Prepared, PolicyFor,
                              Approved, Agreed, Preconfirmed
  <2>2. CASE q # p
    <3>1. tx'[q] = tx[q] /\ Proper(tx[q])
      BY <1>2, <2>2 DEF IInv, AllProper
    <3>. QED BY <1>1, <3>1 DEF Proper, HoldsWell, Decided, Consented, Prepared, PolicyFor,
                              Approved, Agreed, Preconfirmed
  <2>. QED BY <2>1, <2>2
<1>7. Counted'
  BY BeginCounts DEF Counted
<1>. QED BY <1>3, <1>4, <1>5, <1>6, <1>7 DEF IInv

(* The steps that decide.                                                  *)
LEMMA ChecksSubscription ==
    ASSUME NEW l \in Lists, NEW w \in Workflow, PeopleTyped
    PROVE  /\ VerificationChecks(l, w) \in {"do", "moderator", "subscriber"}
           /\ VerificationChecks(l, w) # "subscriber" =>
                /\ w.email \in verified \/ "verified" \in w.pre
                /\ policy[l] \in Confirmed => "confirmed" \in w.pre
           /\ VerificationChecks(l, w) = "do" =>
                (policy[l] \in Moderated => "approved" \in w.pre)
BY DEF PeopleTyped, VerificationChecks, ConfirmationChecks, ModerationChecks,
       Policies, Confirmed, Moderated

LEMMA ChecksUnsubscription ==
    ASSUME NEW l \in Lists, NEW w \in Workflow, PeopleTyped
    PROVE  /\ LeavingChecks(l, w) \in {"do", "moderator", "subscriber"}
           /\ LeavingChecks(l, w) # "subscriber" =>
                (unpolicy[l] \in Confirmed => "confirmed" \in w.pre)
           /\ LeavingChecks(l, w) = "do" =>
                (unpolicy[l] = "moderate" => "approved" \in w.pre)
BY DEF PeopleTyped, LeavingChecks, ModerationChecks, Policies, Confirmed

LEMMA ChecksAfterConfirmation ==
    ASSUME NEW p, NEW w \in Workflow, AfterConfirmation(p, w) = "do"
    PROVE  p \in Moderated => "approved" \in w.pre
BY DEF AfterConfirmation, ModerationChecks

-------------------------------------------------------------------------------
(* The ends of a workflow, at a token that began it or at none.            *)
StartsFrom(t, l, w) ==
    /\ t \in 0 .. issued
    /\ w.type = "subscription" =>
          PendedFor(l, w.email) = {} \/ t \in PendedFor(l, w.email)

LEMMA OutcomeBegins ==
    ASSUME IInv, NEW p \in Processes, NEW l \in Lists, NEW w \in Workflow, NEW t,
           NEW op \in {"hold", "subscribe", "unsubscribe", "end"},
           NEW owner \in {"no_one", "subscriber", "moderator"},
           NEW rows \in SUBSET (Lists \X Emails \X Whiches), NEW newly \in SUBSET Emails,
           StartsFrom(t, l, w), Begin(p, Outcome(op, l, w, t, owner, rows, newly)),
           op = "hold" =>
               /\ owner \in {"subscriber", "moderator"}
               /\ steady /\ owner = "moderator" => Prepared(l, w, newly),
           op = "subscribe" /\ PolicyFor(l, w.type) \in Moderated =>
               w.appr \/ "approved" \in w.pre,
           steady /\ op = "subscribe" => w.email \in verified \cup newly,
           steady /\ op \in {"subscribe", "unsubscribe"}
             /\ PolicyFor(l, w.type) \in Confirmed => w.conf \/ "confirmed" \in w.pre,
           steady /\ op = "unsubscribe" /\ PolicyFor(l, w.type) \in Moderated =>
               \/ w.appr \/ "approved" \in w.pre
               \/ PolicyFor(l, w.type) = "confirm_then_moderate" /\ "confirmed" \in w.pre
    PROVE  IInv'
<1> DEFINE x == Outcome(op, l, w, t, owner, rows, newly)
<1> HIDE DEF x
<1>0. x = Outcome(op, l, w, t, owner, rows, newly)
  BY DEF x
<1>1. PeopleTyped /\ t \in 0 .. MaxTokens /\ t <= issued /\ issued \in Nat
  BY SubscriptionAssumption DEF IInv, TablesOK, TablesTyped, StartsFrom
<1>2. /\ x \in Transaction
      /\ x.op = op /\ x.list = l /\ x.wf = w /\ x.token = t
      /\ x.owner = owner /\ x.policy = PolicyFor(l, w.type)
      /\ verified \cup x.newly = verified \cup newly
  <2>1. PolicyFor(l, w.type) \in Policies
    BY <1>1 DEF PolicyFor, PeopleTyped
  <2>. QED BY <1>0, <1>1, <2>1 DEF Outcome, Transaction
<1>3. HoldsWell(x)
  BY <1>2 DEF HoldsWell, Prepared
<1>4. Decided(x)
  BY <1>2 DEF Decided, Approved
<1>5. steady => Consented(x)
  BY <1>2 DEF Consented, Approved, Agreed, Preconfirmed
<1>6. Proper(x)
  BY <1>3, <1>4, <1>5 DEF Proper
<1>7. Begin(p, x)
  BY DEF x
<1>8. x.wf.type = "subscription" => \/ PendedFor(x.list, x.wf.email) = {}
                                   \/ x.token \in PendedFor(x.list, x.wf.email)
  BY <1>2 DEF StartsFrom
<1>9. x.token <= issued
  BY <1>1, <1>2
<1>. QED BY <1>2, <1>6, <1>7, <1>8, <1>9, BeginKeeps

LEMMA SubscriptionDone ==
    ASSUME IInv, NEW p \in Processes, NEW t, NEW l \in Lists, NEW w \in Workflow,
           NEW newly \in SUBSET Emails, NEW channel,
           w.type = "subscription", StartsFrom(t, l, w),
           DoSubscription(p, t, l, w, newly, channel),
           policy[l] \in Moderated => w.appr \/ "approved" \in w.pre,
           steady => /\ w.email \in verified \cup newly
                     /\ policy[l] \in Confirmed => w.conf \/ "confirmed" \in w.pre
    PROVE  IInv'
<1>1. {Row(l, w)} \in SUBSET (Lists \X Emails \X Whiches)
  BY DEF Row, Workflow
<1>2. PolicyFor(l, w.type) = policy[l]
  BY DEF PolicyFor
<1>3. CASE Begin(p, Outcome("subscribe", l, w, t, "no_one", {Row(l, w)}, newly))
  BY <1>1, <1>2, <1>3, OutcomeBegins
<1>4. CASE Begin(p, Outcome("end", l, w, t, "no_one", {}, newly))
  BY <1>4, OutcomeBegins
<1>. QED BY <1>3, <1>4 DEF DoSubscription

LEMMA UnsubscriptionDone ==
    ASSUME IInv, NEW p \in Processes, NEW t, NEW l \in Lists, NEW w \in Workflow,
           w.type = "unsubscription", StartsFrom(t, l, w), DoUnsubscription(p, t, l, w),
           steady /\ Leaver(l, w.email) # {} =>
               /\ unpolicy[l] \in Confirmed => w.conf \/ "confirmed" \in w.pre
               /\ unpolicy[l] \in Moderated =>
                     \/ w.appr \/ "approved" \in w.pre
                     \/ unpolicy[l] = "confirm_then_moderate" /\ "confirmed" \in w.pre
    PROVE  IInv'
<1> DEFINE gone == Leaver(l, w.email)
           op == IF gone = {} THEN "end" ELSE "unsubscribe"
<1>1. gone \in SUBSET (Lists \X Emails \X Whiches)
  BY DEF Leaver, IInv, PeopleTyped
<1>2. PolicyFor(l, w.type) = unpolicy[l]
  BY DEF PolicyFor
<1>3. /\ op \in {"unsubscribe", "end"} /\ (op = "unsubscribe" => gone # {})
      /\ Begin(p, Outcome(op, l, w, t, "no_one", gone, {}))
  BY DEF DoUnsubscription
<1> HIDE DEF op
<1>4. op # "hold" /\ op # "subscribe"
  BY <1>3
<1>. QED BY <1>1, <1>2, <1>3, <1>4, OutcomeBegins

-------------------------------------------------------------------------------
(* Requests and confirmations.                                             *)
LEMMA RegisterStep ==
    ASSUME IInv, NEW p \in Processes, NEW l \in Lists, NEW e \in Emails,
           NEW which \in Whiches, NEW pre \in SUBSET Flags, Register(p, l, e, which, pre)
    PROVE  IInv'
<1> DEFINE w == NewWorkflow("subscription", e, which, pre)
           newly == {y \in {e} : "verified" \in pre}
           to == VerificationChecks(l, w)
<1>1. /\ w \in Workflow /\ w.type = "subscription" /\ w.email = e /\ w.pre = pre
      /\ newly \in SUBSET Emails
  BY NewWorkflowFields
<1>2. PeopleTyped /\ issued \in Nat
  BY SubscriptionAssumption DEF IInv, TablesOK, TablesTyped
<1>3. /\ to \in {"do", "moderator", "subscriber"}
      /\ to # "subscriber" => /\ e \in verified \cup newly
                              /\ policy[l] \in Confirmed => "confirmed" \in w.pre
      /\ to = "do" => (policy[l] \in Moderated => "approved" \in w.pre)
  BY <1>1, <1>2, ChecksSubscription
<1>4. StartsFrom(0, l, w)
  BY <1>2 DEF Register, Sane, StartsFrom
<1>5. \/ to = "do" /\ DoSubscription(p, 0, l, w, newly, "rest")
      \/ to = "do" /\ Begin(p, Outcome("end", l, w, 0, "no_one", {}, newly))
      \/ to # "do" /\ Begin(p, Outcome("hold", l, w, 0, to, {}, newly))
  BY DEF Register
<1>6. PolicyFor(l, w.type) = policy[l]
  BY <1>1 DEF PolicyFor
<1> HIDE DEF w, newly, to
<1>7. CASE to = "do" /\ DoSubscription(p, 0, l, w, newly, "rest")
  BY <1>1, <1>3, <1>4, <1>7, SubscriptionDone
<1>8. CASE to = "do" /\ Begin(p, Outcome("end", l, w, 0, "no_one", {}, newly))
  BY <1>1, <1>4, <1>8, OutcomeBegins
<1>9. CASE to # "do" /\ Begin(p, Outcome("hold", l, w, 0, to, {}, newly))
  <2>1. to = "moderator" => Prepared(l, w, newly)
    BY <1>1, <1>3, <1>6 DEF Prepared
  <2>. QED BY <1>1, <1>3, <1>4, <1>9, <2>1, OutcomeBegins
<1>. QED BY <1>5, <1>7, <1>8, <1>9

LEMMA LeaveStep ==
    ASSUME IInv, NEW p \in Processes, NEW l \in Lists, NEW e \in Emails,
           NEW pre \in SUBSET Flags, Leave(p, l, e, pre)
    PROVE  IInv'
<1> DEFINE w == NewWorkflow("unsubscription", e, "address", pre)
           to == LeavingChecks(l, w)
<1>1. w \in Workflow /\ w.type = "unsubscription" /\ w.email = e /\ w.pre = pre
  BY NewWorkflowFields DEF Whiches
<1>2. PeopleTyped /\ issued \in Nat
  BY SubscriptionAssumption DEF IInv, TablesOK, TablesTyped
<1>3. /\ to \in {"do", "moderator", "subscriber"}
      /\ to # "subscriber" => (unpolicy[l] \in Confirmed => "confirmed" \in w.pre)
      /\ to = "do" => (unpolicy[l] = "moderate" => "approved" \in w.pre)
  BY <1>1, <1>2, ChecksUnsubscription
<1>4. StartsFrom(0, l, w)
  BY <1>1, <1>2 DEF StartsFrom
<1>5. \/ to = "do" /\ DoUnsubscription(p, 0, l, w)
      \/ to # "do" /\ Begin(p, Outcome("hold", l, w, 0, to, {}, {}))
  BY DEF Leave
<1>6. PolicyFor(l, w.type) = unpolicy[l]
  BY <1>1 DEF PolicyFor
<1> HIDE DEF w, to
<1>7. CASE to = "do" /\ DoUnsubscription(p, 0, l, w)
  <2>1. unpolicy[l] \in Moderated =>
            \/ "approved" \in w.pre
            \/ unpolicy[l] = "confirm_then_moderate" /\ "confirmed" \in w.pre
    BY <1>3, <1>7 DEF Moderated, Confirmed
  <2>. QED BY <1>1, <1>3, <1>4, <1>7, <2>1, UnsubscriptionDone
<1>8. CASE to # "do" /\ Begin(p, Outcome("hold", l, w, 0, to, {}, {}))
  <2>1. to = "moderator" => Prepared(l, w, {})
    BY <1>1, <1>3, <1>6 DEF Prepared
  <2>. QED BY <1>1, <1>3, <1>4, <1>8, <2>1, OutcomeBegins
<1>. QED BY <1>5, <1>7, <1>8

LEMMA ConfirmStep ==
    ASSUME IInv, NEW p \in Processes, NEW t, NEW l \in Lists, NEW channel,
           Confirm(p, t, l, channel)
    PROVE  IInv'
<1> DEFINE v == saved[t]
           w == Marked(v)
<1>1. /\ t \in DOMAIN pended /\ pended[t].list = l
      /\ v \in Workflow /\ v.type = pended[t].type /\ v.email = pended[t].email
      /\ v.step = "from_restored" /\ steady => Prepared(l, v, {})
      /\ t \in 0 .. issued
  BY DEF Confirm, IInv, TablesOK, TablesTyped, TokensLeadSomewhere, ModeratorsComeLast
<1>2. /\ w \in Workflow /\ w.type = v.type /\ w.email = v.email
      /\ w.pre = v.pre /\ w.step = v.step
      /\ w.step = "do_confirm_verify" => w.conf
      /\ w.step = "from_restored" => w.appr /\ w.conf = v.conf
  BY <1>1, MarkedFields
<1>3. /\ w.email \in Emails /\ w.step \in {"do_confirm_verify", "from_restored"}
      /\ {w.email} \in SUBSET Emails
  BY <1>2 DEF Workflow
<1>4. StartsFrom(t, l, w)
  BY <1>1, <1>2 DEF StartsFrom, PendedFor
<1>5. w.step = "from_restored" /\ steady => Prepared(l, w, {})
  BY <1>1, <1>2 DEF Prepared
<1>6. \/ v.type = "subscription" /\ ConfirmSubscription(p, t, l, channel)
      \/ v.type = "unsubscription" /\ ConfirmUnsubscription(p, t, l)
  BY <1>1 DEF Confirm
<1>7. CASE v.type = "subscription" /\ ConfirmSubscription(p, t, l, channel)
  <2>1. PolicyFor(l, w.type) = policy[l]
    BY <1>2, <1>7 DEF PolicyFor
  <2>2. \/ /\ w.step = "from_restored"
           /\ DoSubscription(p, t, l, w, {}, channel)
        \/ /\ w.step # "from_restored" /\ AfterConfirmation(policy[l], w) = "do"
           /\ DoSubscription(p, t, l, w, {w.email}, channel)
        \/ /\ w.step # "from_restored"
           /\ Begin(p, Outcome("hold", l, w, t, "moderator", {}, {w.email}))
    BY <1>7 DEF ConfirmSubscription
  <2> HIDE DEF v, w
  <2>3. CASE w.step = "from_restored" /\ DoSubscription(p, t, l, w, {}, channel)
    <3>1. steady => /\ w.email \in verified \cup {}
                    /\ policy[l] \in Confirmed => w.conf \/ "confirmed" \in w.pre
      BY <1>2, <1>5, <1>7, <2>1, <2>3 DEF Prepared
    <3>. QED BY <1>2, <1>4, <1>7, <2>3, <3>1, SubscriptionDone
  <2>4. CASE /\ w.step # "from_restored" /\ AfterConfirmation(policy[l], w) = "do"
             /\ DoSubscription(p, t, l, w, {w.email}, channel)
    <3>1. w.conf /\ (policy[l] \in Moderated => "approved" \in w.pre)
      BY <1>2, <1>3, <2>4, ChecksAfterConfirmation
    <3>. QED BY <1>2, <1>3, <1>4, <1>7, <2>4, <3>1, SubscriptionDone
  <2>5. CASE /\ w.step # "from_restored"
             /\ Begin(p, Outcome("hold", l, w, t, "moderator", {}, {w.email}))
    <3>1. w.conf /\ Prepared(l, w, {w.email})
      BY <1>2, <1>3, <2>5 DEF Prepared
    <3>. QED BY <1>2, <1>3, <1>4, <2>5, <3>1, OutcomeBegins
  <2>. QED BY <2>2, <2>3, <2>4, <2>5
<1>8. CASE v.type = "unsubscription" /\ ConfirmUnsubscription(p, t, l)
  <2>1. PolicyFor(l, w.type) = unpolicy[l]
    BY <1>2, <1>8 DEF PolicyFor
  <2>2. \/ /\ DoUnsubscription(p, t, l, w)
           /\ \/ w.step = "from_restored"
              \/ Leaver(l, w.email) = {}
              \/ AfterConfirmation(unpolicy[l], w) = "do"
        \/ /\ w.step # "from_restored"
           /\ Begin(p, Outcome("hold", l, w, t, "moderator", {}, {}))
    BY <1>8 DEF ConfirmUnsubscription
  <2> HIDE DEF v, w
  <2>3. CASE w.step = "from_restored" /\ DoUnsubscription(p, t, l, w)
    <3>1. steady => (unpolicy[l] \in Confirmed => w.conf \/ "confirmed" \in w.pre)
      BY <1>5, <2>1, <2>3 DEF Prepared
    <3>. QED BY <1>2, <1>4, <1>8, <2>3, <3>1, UnsubscriptionDone
  <2>4. CASE Leaver(l, w.email) = {} /\ DoUnsubscription(p, t, l, w)
    BY <1>2, <1>4, <1>8, <2>4, UnsubscriptionDone
  <2>5. CASE /\ w.step # "from_restored" /\ AfterConfirmation(unpolicy[l], w) = "do"
             /\ DoUnsubscription(p, t, l, w)
    <3>1. w.conf /\ (unpolicy[l] \in Moderated => "approved" \in w.pre)
      BY <1>2, <1>3, <2>5, ChecksAfterConfirmation
    <3>. QED BY <1>2, <1>4, <1>8, <2>5, <3>1, UnsubscriptionDone
  <2>6. CASE /\ w.step # "from_restored"
             /\ Begin(p, Outcome("hold", l, w, t, "moderator", {}, {}))
    <3>1. w.conf /\ Prepared(l, w, {})
      BY <1>2, <1>3, <1>8, <2>6 DEF Prepared
    <3>. QED BY <1>2, <1>4, <2>6, <3>1, OutcomeBegins
  <2>. QED BY <2>2, <2>3, <2>4, <2>5, <2>6
<1>. QED BY <1>6, <1>7, <1>8

-------------------------------------------------------------------------------
(* The end of a transaction.                                               *)
LEMMA CommitStep ==
    ASSUME IInv, NEW p \in Processes, Commit(p)
    PROVE  IInv'
<1> DEFINE x == tx[p]
<1>1. /\ x \in Transaction /\ x # Nothing /\ Proper(x) /\ x.token <= issued
      /\ x.list \in Lists /\ x.wf \in Workflow /\ x.wf.email \in Emails
      /\ x.rows \in SUBSET (Lists \X Emails \X Whiches) /\ x.newly \in SUBSET Emails
  BY DEF Commit, IInv, TxTyped, AllProper, Transaction, Workflow
<1>2. /\ verified' = verified \cup x.newly /\ tx' = [tx EXCEPT ![p] = Nothing]
      /\ UNCHANGED <<preferred, banned, policy, unpolicy, changes, steady, overlaps, scope>>
  BY DEF Commit, admin
<1>3. tx \in [Processes -> Transaction \cup {Nothing}]
  BY DEF IInv, TxTyped
<1>4. \/ x.op = "hold" /\ Hold(x)
      \/ x.op # "hold" /\ Settle(x)
  BY DEF Commit
<1>5. PeopleTyped'
  <2>1. members' \subseteq Lists \X Emails \X Whiches
    BY <1>1 DEF Commit, IInv, PeopleTyped
  <2>. QED BY <1>1, <1>2, <2>1 DEF IInv, PeopleTyped
<1> HIDE DEF x
<1>6. TablesOK' /\ issued \in Nat /\ issued' \in Nat /\ issued <= issued'
  <2>1. CASE x.op = "hold" /\ Hold(x)
    <3>1. TablesOK'
      BY <1>1, <1>2, <2>1, HoldKeeps DEF IInv, Proper
    <3>2. issued' = issued + 1
      BY <2>1 DEF Hold, SetToken
    <3>. QED BY <3>1, <3>2, SubscriptionAssumption DEF IInv, TablesOK, TablesTyped
  <2>2. CASE x.op # "hold" /\ Settle(x)
    <3>1. /\ issued' = issued
          /\ DOMAIN pended' \subseteq DOMAIN pended /\ DOMAIN saved' \subseteq DOMAIN saved
          /\ DOMAIN pended' \subseteq DOMAIN saved'
          /\ \A y \in DOMAIN pended' : pended'[y] = pended[y]
          /\ \A y \in DOMAIN saved' : saved'[y] = saved[y]
      BY <2>2 DEF Settle, Without, IInv, TablesOK, TokensLeadSomewhere
    <3>2. TablesOK'
      BY <1>2, <3>1, FewerTokens DEF IInv
    <3>. QED BY <3>1, <3>2, SubscriptionAssumption DEF TablesOK, TablesTyped
  <2>. QED BY <1>4, <2>1, <2>2
<1>7. AllProper' /\ TxTyped'
  BY <1>2, <1>6, FewerOpen DEF IInv
<1>8. ASSUME NEW l \in Lists, NEW e \in Emails
      PROVE  CountOK(l, e)'
  <2>1. TablesTyped /\ TablesTyped' /\ TxTyped /\ CountOK(l, e) /\ overlaps' = overlaps
    BY <1>2, <1>6 DEF IInv, TablesOK, Counted
  <2>2. \A q \in Processes : q # p => tx'[q] = tx[q]
    BY <1>2, <1>3
  <2>3. Subscribing(l, e)' = Subscribing(l, e) \ {p}
    BY <1>2, <1>3, <2>2 DEF Subscribing
  <2>4. ASSUME NEW t \in DOMAIN pended', t # issued + 1
        PROVE  t \in DOMAIN pended /\ pended'[t] = pended[t] /\ t # x.token
    <3>1. CASE Hold(x)
      BY <2>4, <3>1 DEF Hold, SetToken, With, Without
    <3>2. CASE Settle(x)
      BY <3>2 DEF Settle, Without
    <3>. QED BY <1>4, <3>1, <3>2
  <2>5. ASSUME NEW t \in Untaken(l, e)', t # issued + 1
        PROVE  t \in Untaken(l, e)
    <3>1. t \in DOMAIN pended' /\ t \in PendedFor(l, e)'
      BY <2>5 DEF Untaken, PendedFor
    <3>2. t \in PendedFor(l, e) /\ t # x.token
      BY <2>4, <2>5, <3>1 DEF PendedFor
    <3>3. ASSUME NEW q \in Subscribing(l, e) PROVE tx[q].token # t
      <4>1. CASE q = p
        BY <3>2, <4>1 DEF x
      <4>2. CASE q # p
        BY <2>2, <2>3, <2>5, <4>2 DEF Untaken, Subscribing
      <4>. QED BY <4>1, <4>2
    <3>. QED BY <3>2, <3>3 DEF Untaken
  <2>6. CASE p \in Subscribing(l, e)
    <3>1. Untaken(l, e)' \subseteq Untaken(l, e) \cup {issued + 1}
      BY <2>5
    <3>. QED BY <2>1, <2>3, <2>6, <3>1, CountKept
  <2>7. CASE p \notin Subscribing(l, e)
    <3>1. issued + 1 \notin PendedFor(l, e)'
      <4>1. CASE x.op = "hold" /\ Hold(x)
        <5>1. ~(x.wf.type = "subscription" /\ x.list = l /\ x.wf.email = e)
          BY <1>1, <2>7 DEF Subscribing, x
        <5>2. pended'[issued + 1] = [list |-> x.list, email |-> x.wf.email,
                                     owner |-> x.owner, type |-> x.wf.type]
          BY <4>1 DEF Hold, SetToken, With
        <5>. QED BY <5>1, <5>2 DEF PendedFor
      <4>2. CASE Settle(x)
        <5>1. DOMAIN pended' \subseteq 1 .. issued
          BY <2>1, <4>2 DEF Settle, Without, TablesTyped
        <5>. QED BY <1>6, <5>1 DEF PendedFor
      <4>. QED BY <1>4, <4>1, <4>2
    <3>2. Untaken(l, e)' \subseteq Untaken(l, e)
      BY <2>5, <3>1 DEF Untaken
    <3>3. Subscribing(l, e)' = Subscribing(l, e)
      BY <2>3, <2>7
    <3>. QED BY <2>1, <3>2, <3>3, CountKept
  <2>. QED BY <2>6, <2>7
<1>. QED BY <1>5, <1>6, <1>7, <1>8 DEF IInv, Counted

LEMMA RollbackStep ==
    ASSUME IInv, NEW p \in Processes, Rollback(p)
    PROVE  IInv'
<1>1. /\ UNCHANGED <<pended, saved, issued, members, verified, preferred>>
      /\ UNCHANGED <<banned, policy, unpolicy, changes, steady, overlaps, scope>>
      /\ tx' = [tx EXCEPT ![p] = Nothing]
  BY DEF Rollback, committed, tokens, people, admin
<1>2. TablesOK' /\ PeopleTyped'
  BY <1>1 DEF IInv, TablesOK, TablesTyped, TokensLeadSomewhere, ModeratorsComeLast,
              Prepared, PolicyFor, PeopleTyped
<1>3. issued \in Nat
  BY SubscriptionAssumption DEF IInv, TablesOK, TablesTyped
<1>4. AllProper' /\ TxTyped'
  <2>1. issued' \in Nat /\ issued <= issued'
    BY <1>1, <1>3
  <2>2. \E q \in Processes : tx' = [tx EXCEPT ![q] = Nothing]
    BY <1>1
  <2>3. steady' => steady /\ verified \subseteq verified' /\ UNCHANGED <<policy, unpolicy>>
    BY <1>1
  <2>. QED BY <1>1, <1>3, <2>1, <2>2, <2>3, FewerOpen DEF IInv
<1>5. ASSUME NEW l \in Lists, NEW e \in Emails
      PROVE  CountOK(l, e)'
  <2>1. TablesTyped /\ TablesTyped' /\ TxTyped /\ CountOK(l, e) /\ overlaps' = overlaps
    BY <1>1, <1>2 DEF IInv, TablesOK, Counted
  <2>2. \A q \in Processes : q # p => tx'[q] = tx[q]
    BY <1>1, <2>1 DEF TxTyped
  <2>3. Subscribing(l, e)' = Subscribing(l, e) \ {p}
    BY <1>1, <2>1, <2>2 DEF Subscribing, TxTyped
  <2>4. PendedFor(l, e)' = PendedFor(l, e)
    BY <1>1 DEF PendedFor
  <2>5. \A q \in Subscribing(l, e) : q # p => q \in Subscribing(l, e)' /\ tx'[q] = tx[q]
    BY <2>2, <2>3 DEF Subscribing
  <2>6. CASE p \in Subscribing(l, e)
    <3>1. Untaken(l, e)' \subseteq Untaken(l, e) \cup {tx[p].token}
      BY <2>4, <2>5 DEF Untaken
    <3>. QED BY <2>1, <2>3, <2>6, <3>1, CountKept
  <2>7. CASE p \notin Subscribing(l, e)
    <3>1. Untaken(l, e)' \subseteq Untaken(l, e)
      BY <2>4, <2>5, <2>7 DEF Untaken
    <3>. QED BY <2>1, <2>3, <2>7, <3>1, CountKept
  <2>. QED BY <2>6, <2>7
<1>. QED BY <1>2, <1>4, <1>5 DEF IInv, Counted

(* A step that leaves tx alone, and pends nothing.                         *)
LEMMA CountSame ==
    ASSUME IInv, TablesTyped', tx' = tx, overlaps' = overlaps,
           DOMAIN pended' \subseteq DOMAIN pended,
           \A y \in DOMAIN pended' : pended'[y] = pended[y]
    PROVE  Counted'
<1> SUFFICES ASSUME NEW l \in Lists, NEW e \in Emails
             PROVE  CountOK(l, e)'
  BY DEF Counted
<1>1. Subscribing(l, e)' = Subscribing(l, e)
  BY DEF Subscribing
<1>2. PendedFor(l, e)' \subseteq PendedFor(l, e)
  BY DEF PendedFor
<1>3. Untaken(l, e)' \subseteq Untaken(l, e)
  BY <1>1, <1>2 DEF Untaken
<1>. QED BY <1>1, <1>3, CountKept DEF IInv, TablesOK, Counted

LEMMA DismissStep ==
    ASSUME NEW t \in Tokens, IInv, Dismiss(t)
    PROVE  IInv'
<1>1. /\ UNCHANGED <<saved, issued, members, verified, preferred>>
      /\ UNCHANGED <<banned, policy, unpolicy, changes, steady, tx, overlaps, scope>>
  BY DEF Dismiss, people, admin
<1>2. /\ DOMAIN pended' \subseteq DOMAIN pended /\ DOMAIN pended' \subseteq DOMAIN saved'
      /\ \A y \in DOMAIN pended' : pended'[y] = pended[y]
  BY <1>1 DEF Dismiss, Without, IInv, TablesOK, TokensLeadSomewhere
<1>3. TablesOK'
  BY <1>1, <1>2, FewerTokens DEF IInv
<1>4. PeopleTyped'
  BY <1>1 DEF IInv, PeopleTyped
<1>5. issued \in Nat
  BY SubscriptionAssumption DEF IInv, TablesOK, TablesTyped
<1>6. AllProper' /\ TxTyped'
  BY <1>1, <1>5, FewerOpen DEF IInv
<1>7. Counted'
  BY <1>1, <1>2, <1>3, CountSame DEF TablesOK
<1>. QED BY <1>3, <1>4, <1>6, <1>7 DEF IInv

(* A change of a policy or of a verification is a change of steady.        *)
LEMMA AdministrationStep ==
    ASSUME IInv, Administration
    PROVE  IInv'
<1>1. UNCHANGED <<pended, saved, issued, tx, overlaps, scope>>
  BY DEF Administration, tokens
<1>2. /\ PeopleTyped'
      /\ steady' => steady /\ verified \subseteq verified' /\ UNCHANGED <<policy, unpolicy>>
  <2> USE SubscriptionAssumption DEF IInv, PeopleTyped, admin, people
  <2>1. changes' \in 0 .. MaxChanges /\ scope' = scope
    BY DEF Administration
  <2>2. CASE \E l \in Lists, e \in Emails : AddMember(l, e) \/ RemoveMember(l, e) \/ Ban(l, e)
    BY <2>1, <2>2 DEF AddMember, RemoveMember, Ban, Whiches
  <2>3. CASE \E l \in Lists : SetPolicy(l)
    BY <2>1, <2>3 DEF SetPolicy
  <2>4. CASE \E e \in Emails : Prefer(e)
    BY <2>1, <2>4 DEF Prefer
  <2>5. CASE \E e \in Emails : Unverify(e)
    BY <2>1, <2>5 DEF Unverify
  <2>. QED BY <2>2, <2>3, <2>4, <2>5 DEF Administration
<1>3. TablesOK'
  <2>1. DOMAIN pended' \subseteq DOMAIN saved'
    BY <1>1 DEF IInv, TablesOK, TokensLeadSomewhere
  <2>. QED BY <1>1, <1>2, <2>1, FewerTokens DEF IInv
<1>4. issued \in Nat
  BY SubscriptionAssumption DEF IInv, TablesOK, TablesTyped
<1>5. AllProper' /\ TxTyped'
  BY <1>1, <1>2, <1>4, FewerOpen DEF IInv
<1>6. Counted'
  BY <1>1, <1>3, CountSame DEF TablesOK
<1>. QED BY <1>2, <1>3, <1>5, <1>6 DEF IInv

-------------------------------------------------------------------------------
LEMMA Initially == Init => IInv
<1> SUFFICES ASSUME Init PROVE IInv
  OBVIOUS
<1>1. DOMAIN pended = {} /\ DOMAIN saved = {} /\ issued = 0
  BY DEF Init
<1>2. TablesOK
  BY <1>1, SubscriptionAssumption
  DEF TablesOK, TablesTyped, TokensLeadSomewhere, ModeratorsComeLast
<1>3. PeopleTyped
  BY SubscriptionAssumption DEF Init, PeopleTyped
<1>4. /\ tx = [p \in Processes |-> Nothing]
      /\ overlaps = [le \in Lists \X Emails |-> 0]
  BY DEF Init
<1>5. TxTyped /\ AllProper
  BY <1>4 DEF TxTyped, AllProper, Proper, HoldsWell, Decided, Consented, Nothing
<1>6. ASSUME NEW l \in Lists, NEW e \in Emails
      PROVE  CountOK(l, e)
  <2>1. Subscribing(l, e) = {} /\ Untaken(l, e) = {}
    BY <1>1, <1>4 DEF Subscribing, Untaken, PendedFor
  <2>2. Cardinality(Subscribing(l, e)) = 0 /\ Cardinality(Untaken(l, e)) = 0
    BY <2>1, FS_EmptySet
  <2>3. overlaps[<<l, e>>] = 0
    BY <1>4
  <2>. QED BY <2>2, <2>3 DEF CountOK
<1>. QED BY <1>2, <1>3, <1>5, <1>6 DEF IInv, Counted

LEMMA Inductive == IInv /\ [Next]_vars => IInv'
<1> SUFFICES ASSUME IInv, [Next]_vars PROVE IInv'
  OBVIOUS
<1>0. scope.pres \subseteq SUBSET Flags
  BY SubscriptionAssumption DEF IInv, PeopleTyped, Scope
<1>1. ASSUME NEW p \in Processes, NEW l \in Lists, NEW e \in Emails,
             NEW which \in Whiches, NEW pre \in scope.pres, Register(p, l, e, which, pre)
      PROVE  IInv'
  BY <1>0, <1>1, RegisterStep
<1>2. ASSUME NEW p \in Processes, NEW l \in Lists, NEW e \in Emails,
             NEW pre \in scope.pres, Leave(p, l, e, pre \ {"verified"})
      PROVE  IInv'
  <2>1. pre \ {"verified"} \in SUBSET Flags
    BY <1>0
  <2>. QED BY <1>2, <2>1, LeaveStep
<1>3. ASSUME NEW p \in Processes, NEW t \in Tokens, NEW l \in Lists,
             NEW channel \in {"rest", "email"}, Confirm(p, t, l, channel)
      PROVE  IInv'
  BY <1>3, ConfirmStep
<1>4. ASSUME NEW p \in Processes, Commit(p) \/ Rollback(p) PROVE IInv'
  BY <1>4, CommitStep, RollbackStep
<1>5. ASSUME NEW t \in Tokens, Dismiss(t) PROVE IInv'
  BY <1>5, DismissStep
<1>6. CASE Administration
  BY <1>6, AdministrationStep
<1>7. CASE UNCHANGED vars
  <2>1. /\ UNCHANGED <<pended, saved, issued, members, verified, preferred>>
        /\ UNCHANGED <<banned, policy, unpolicy, changes, steady, tx, overlaps, scope>>
    BY <1>7 DEF vars, committed, tokens, people, admin
  <2>2. TablesOK' /\ PeopleTyped'
    BY <2>1 DEF IInv, TablesOK, TablesTyped, TokensLeadSomewhere, ModeratorsComeLast,
                Prepared, PolicyFor, PeopleTyped
  <2>3. issued \in Nat
    BY SubscriptionAssumption DEF IInv, TablesOK, TablesTyped
  <2>4. AllProper' /\ TxTyped'
    BY <2>1, <2>3, FewerOpen DEF IInv
  <2>5. Counted'
    BY <2>1, <2>2, CountSame DEF TablesOK
  <2>. QED BY <2>2, <2>4, <2>5 DEF IInv
<1>. QED BY <1>1, <1>2, <1>3, <1>4, <1>5, <1>6, <1>7 DEF Next

LEMMA Invariance == Spec => []IInv
BY Initially, Inductive, PTL DEF Spec

-------------------------------------------------------------------------------
(* A token in the pending database leads to a saved workflow of the same   *)
(* request, waiting at the step its owner can answer, whatever             *)
(* transactions wrote the two tables, one after the other or at once       *)
(* (Pendings.add and confirm, Workflow.save and restore).                  *)
THEOREM TokensAlwaysLeadSomewhere == Spec => []TokensLeadSomewhere
<1>1. IInv => TokensLeadSomewhere
  BY DEF IInv, TablesOK
<1>. QED BY <1>1, Invariance, PTL

(* However requests are held, confirmed and dismissed, an email has no     *)
(* more subscription requests pending at one list than one, and one for    *)
(* each time that a transaction about them began while another was open:   *)
(* what _step_sanity_checks looks for is not enough for those.             *)
THEOREM RequestsNeedOverlaps == Spec => []OneRequestPerEmail
<1>1. IInv => OneRequestPerEmail
  <2> SUFFICES ASSUME IInv, NEW l \in Lists, NEW e \in Emails
               PROVE  Cardinality(PendedFor(l, e)) <= 1 + overlaps[<<l, e>>]
    BY DEF OneRequestPerEmail
  <2> DEFINE P == PendedFor(l, e)
             U == Untaken(l, e)
             S == Subscribing(l, e)
             taken == {tx[p].token : p \in S}
  <2>1. /\ IsFiniteSet(P) /\ Cardinality(P) \in Nat
        /\ IsFiniteSet(U) /\ Cardinality(U) \in Nat
        /\ IsFiniteSet(S) /\ Cardinality(S) \in Nat
    BY Finite DEF IInv, TablesOK
  <2>2. IsFiniteSet(taken) /\ Cardinality(taken) <= Cardinality(S)
    <3> DEFINE token == [p \in S |-> tx[p].token]
    <3>1. token \in Surjection(S, taken)
      BY DEF Surjection
    <3>. QED BY <2>1, <3>1, FS_Surjection
  <2>3. P \subseteq U \cup taken
    BY DEF Untaken
  <2>4. /\ IsFiniteSet(U \cup taken)
        /\ Cardinality(U \cup taken) = Cardinality(U) + Cardinality(taken)
                                          - Cardinality(U \cap taken)
    BY <2>1, <2>2, FS_Union
  <2>5. Cardinality(P) <= Cardinality(U \cup taken)
    BY <2>3, <2>4, FS_Subset
  <2>6. Cardinality(U \cap taken) \in Nat /\ Cardinality(taken) \in Nat
    BY <2>1, <2>2, FS_Intersection, FS_CardinalityType
  <2>7. Cardinality(U) + Cardinality(S) <= 1 + overlaps[<<l, e>>]
    BY DEF IInv, Counted, CountOK
  <2>8. overlaps[<<l, e>>] \in Nat
    BY DEF IInv, TxTyped
  <2> HIDE DEF P, U, S, taken
  <2>9. Cardinality(P) <= 1 + overlaps[<<l, e>>]
    BY <2>1, <2>2, <2>4, <2>5, <2>6, <2>7, <2>8
  <2>. QED BY <2>9 DEF P
<1>. QED BY <1>1, Invariance, PTL

(* While the policy of a list is moderated, the workflows subscribe nobody *)
(* whom neither a moderator nor the request itself approved, whatever the  *)
(* policy was when the request came in.                                    *)
THEOREM ModeratorsAlwaysDecide == Spec => []ModeratorsDecide
<1>1. IInv => ModeratorsDecide
  BY DEF IInv, AllProper, Proper, Decided, Approved, ModeratorsDecide
<1>. QED BY <1>1, Invariance, PTL

(* While policies and verifications stay as they are, the workflows        *)
(* subscribe nobody unverified or without the confirmation that the policy *)
(* asks for, and let nobody go without the confirmation and the approval   *)
(* that it asks for, but for one case: nobody approves a leave under       *)
(* confirm_then_moderate that was preconfirmed                             *)
(* (app/subscriptions.py:406-410).                                         *)
THEOREM ConsentUnlessPreconfirmed == Spec => []ConsentGiven
<1>1. IInv => ConsentGiven
  BY DEF IInv, AllProper, Proper, Consented, Approved, Agreed, ConsentGiven
<1>. QED BY <1>1, Invariance, PTL
================================================================================
