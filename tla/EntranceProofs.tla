----------------------------- MODULE EntranceProofs -----------------------------
(***************************************************************************)
(* Theorems about Entrance and Posting: what the mail server is told, and  *)
(* what becomes of a posting, for any lists, messages, addresses, numbers  *)
(* of recipients, header matches, changes and faults.                      *)
(***************************************************************************)
EXTENDS Entrance, FiniteSetTheorems, WellFoundedInduction, TLAPS

(***************************************************************************)
(* The numbers.                                                            *)
(***************************************************************************)
Counted == faults \in Nat /\ changes \in Nat /\ entered \in Nat

(* What an action does that is none of the LMTP runner's business.         *)
Later ==
    /\ faults' \in Nat /\ changes' \in Nat /\ entered' \in Nat
    /\ faults <= faults' /\ changes <= changes'

(***************************************************************************)
(* The mail and the LMTP runner.                                           *)
(***************************************************************************)
MailOK ==
    /\ DOMAIN mail = {"m", "d", "to", "told"}
    /\ \E n \in Nat : DOMAIN mail.to = 1 .. n
    /\ mail.told \in [DOMAIN mail.to -> {"nothing", "yes", "no", "given up"}]
    /\ queued \in [DOMAIN mail.to -> Nat]

(* What is to be done are recipients without an answer, each of them once. *)
LmtpOK ==
    /\ DOMAIN lmtp = {"pc", "todo", "next", "statuses"}
    /\ lmtp.pc \in {"idle", "deliver", "answer"} /\ lmtp.todo \in Seq(DOMAIN mail.to)
    /\ lmtp.next \in Nat /\ lmtp.statuses \in Seq({"yes", "no"})
    /\ \A k \in DOMAIN lmtp.todo : mail.told[lmtp.todo[k]] = "nothing"
    /\ \A j, k \in DOMAIN lmtp.todo : lmtp.todo[j] = lmtp.todo[k] => j = k
    /\ Len(lmtp.statuses) <= Len(lmtp.todo)
    /\ IF lmtp.pc = "idle" THEN lmtp = IdleLmtp ELSE Len(lmtp.todo) >= 1
    /\ lmtp.pc = "deliver" => /\ lmtp.next = Len(lmtp.statuses) + 1
                              /\ lmtp.next <= Len(lmtp.todo)

(* Only a recipient whose answer is about to be given has got a file more  *)
(* than the faults account for.                                            *)
Tried(i) == \E k \in DOMAIN lmtp.statuses : lmtp.todo[k] = i
TruthOK ==
    /\ \A i \in DOMAIN mail.to :
          /\ mail.told[i] = "yes" => queued[i] >= 1
          /\ mail.told[i] \in {"no", "given up"} => queued[i] <= faults
          /\ queued[i] <= 1 + faults
          /\ mail.told[i] = "nothing" => queued[i] <= faults \/ Tried(i)
    /\ \A k \in DOMAIN lmtp.statuses :
          /\ lmtp.statuses[k] = "yes" => queued[lmtp.todo[k]] >= 1
          /\ lmtp.statuses[k] = "no" => queued[lmtp.todo[k]] <= faults

LmtpInv == MailOK /\ LmtpOK /\ TruthOK

--------------------------------------------------------------------------------
LEMMA Least ==
    ASSUME NEW S \in SUBSET Nat, S # {}
    PROVE  Min(S) \in S /\ \A m \in S : Min(S) =< m
<1>1. PICK n \in S : \A m \in S : ~ (<<m, n>> \in OpToRel(<, Nat))
  BY NatLessThanWellFounded, WFMin
<1>2. \A m \in S : ~ (m < n)
  BY <1>1 DEF OpToRel
<1>3. \A m \in S : n =< m
  BY <1>2
<1>. QED BY <1>3 DEF Min

LEMMA PostingLater ==
    ASSUME Counted, Within
    PROVE  Later
<1> USE DEF Counted, Later, vars, history, bounds, queues, Fault, Change
<1>1. CASE RunIn
  BY <1>1 DEF RunIn, TakeIn, Register, FollowLink, ReturnOrStop, FinishIn, CommitIn, ShuntIn
<1>2. CASE RunPip
  BY <1>2 DEF RunPip, TakePip, Handle, FinishPip, CommitPip, ShuntPip
<1>3. CASE CrashIn \/ CrashPip \/ FailPip
  BY <1>3 DEF CrashIn, CrashPip, FailPip
<1>4. CASE People
  <2>1. ASSUME NEW new, Change(new) PROVE Later
    BY <2>1
  <2>2. Unshunt => Later
    BY DEF Unshunt
  <2>3. Repost => Later
    BY DEF Repost
  <2>. QED BY <1>4, <2>1, <2>2, <2>3 DEF People, Ban, Unban, Join, Leave, SetHeaderMatches
<1>. QED BY <1>1, <1>2, <1>3, <1>4 DEF Within

LEMMA CommandsAside ==
    ASSUME Counted, RunCom \/ CrashCom \/ UnshuntCommand
    PROVE  Later /\ UNCHANGED <<mail, lmtp, queued>>
<1> DEFINE Aside == Later /\ UNCHANGED <<mail, lmtp, queued>>
<1> USE DEF Counted, Later, history, bounds, queues, Fault
<1>0. \A w, n : Did(w, n) => Aside
  BY DEF Did
<1>1. CASE TakeCom \/ SendResults \/ CommitCom \/ ShuntCom
  BY <1>1 DEF TakeCom, SendResults, CommitCom, ShuntCom
<1>2. CASE JoinCommand \/ LeaveCommand \/ ConfirmCommand \/ EndCommand \/ OtherCommand
  <2> HIDE DEF Aside
  <2>1. JoinCommand => Aside
    BY <1>0 DEF JoinCommand
  <2>2. LeaveCommand => Aside
    BY <1>0 DEF LeaveCommand
  <2>3. ConfirmCommand => Aside
    BY <1>0 DEF ConfirmCommand
  <2>4. EndCommand \/ OtherCommand => Aside
    BY <1>0 DEF EndCommand, OtherCommand
  <2>5. Aside
    BY <1>2, <2>1, <2>2, <2>3, <2>4
  <2>. QED BY <2>5 DEF Aside
<1>4. CASE FinishCom \/ CrashCom \/ UnshuntCommand
  BY <1>4 DEF FinishCom, CrashCom, UnshuntCommand, vars
<1>. QED BY <1>1, <1>2, <1>4 DEF RunCom

LEMMA LmtpTyped ==
    ASSUME MailOK, LmtpOK
    PROVE  /\ \A i \in DOMAIN mail.to : queued[i] \in Nat
           /\ DOMAIN mail.to \subseteq Nat
           /\ lmtp.todo \in Seq(DOMAIN mail.to) /\ lmtp.statuses \in Seq({"yes", "no"})
           /\ Len(lmtp.todo) \in Nat /\ Len(lmtp.statuses) \in Nat
           /\ DOMAIN lmtp.todo = 1 .. Len(lmtp.todo)
           /\ DOMAIN lmtp.statuses = 1 .. Len(lmtp.statuses)
           /\ \A k \in DOMAIN lmtp.statuses :
                 /\ k \in DOMAIN lmtp.todo /\ lmtp.todo[k] \in DOMAIN mail.to
                 /\ lmtp.statuses[k] \in {"yes", "no"}
<1>1. /\ lmtp.todo \in Seq(DOMAIN mail.to) /\ lmtp.statuses \in Seq({"yes", "no"})
      /\ Len(lmtp.statuses) <= Len(lmtp.todo)
  BY DEF LmtpOK
<1>2. \A i \in DOMAIN mail.to : queued[i] \in Nat
  BY DEF MailOK
<1>3. DOMAIN mail.to \subseteq Nat
  <2>1. PICK n \in Nat : DOMAIN mail.to = 1 .. n
    BY DEF MailOK
  <2>. QED BY <2>1
<1>4. /\ Len(lmtp.todo) \in Nat /\ Len(lmtp.statuses) \in Nat
      /\ DOMAIN lmtp.todo = 1 .. Len(lmtp.todo)
      /\ DOMAIN lmtp.statuses = 1 .. Len(lmtp.statuses)
  BY <1>1
<1>5. ASSUME NEW k \in DOMAIN lmtp.statuses
      PROVE  /\ k \in DOMAIN lmtp.todo /\ lmtp.todo[k] \in DOMAIN mail.to
             /\ lmtp.statuses[k] \in {"yes", "no"}
  <2>1. k \in DOMAIN lmtp.todo
    BY <1>1, <1>4
  <2>2. lmtp.todo[k] \in DOMAIN mail.to
    BY <1>1, <2>1
  <2>3. lmtp.statuses[k] \in {"yes", "no"}
    BY <1>1
  <2>. QED BY <2>1, <2>2, <2>3
<1>. QED BY <1>1, <1>2, <1>3, <1>4, <1>5

LEMMA LmtpAside ==
    ASSUME Counted, LmtpInv, Later, UNCHANGED <<mail, lmtp, queued>>
    PROVE  LmtpInv'
<1>1. MailOK' /\ LmtpOK'
  BY DEF LmtpInv, MailOK, LmtpOK
<1>2. TruthOK'
  <2>0. MailOK /\ LmtpOK /\ TruthOK /\ faults \in Nat /\ faults' \in Nat /\ faults <= faults'
    BY DEF LmtpInv, Counted, Later
  <2>1. ASSUME NEW i \in DOMAIN mail.to
        PROVE  /\ mail.told[i] = "yes" => queued[i] >= 1
               /\ mail.told[i] \in {"no", "given up"} => queued[i] <= faults'
               /\ queued[i] <= 1 + faults'
               /\ mail.told[i] = "nothing" => queued[i] <= faults' \/ Tried(i)
    <3>1. queued[i] \in Nat
      BY <2>0, LmtpTyped
    <3>2. /\ mail.told[i] = "yes" => queued[i] >= 1
          /\ mail.told[i] \in {"no", "given up"} => queued[i] <= faults
          /\ queued[i] <= 1 + faults
          /\ mail.told[i] = "nothing" => queued[i] <= faults \/ Tried(i)
      BY <2>0 DEF TruthOK
    <3>3. queued[i] <= faults => queued[i] <= faults'
      BY <2>0, <3>1
    <3>4. queued[i] <= 1 + faults => queued[i] <= 1 + faults'
      BY <2>0, <3>1
    <3>. QED BY <3>2, <3>3, <3>4
  <2>2. ASSUME NEW k \in DOMAIN lmtp.statuses
        PROVE  /\ lmtp.statuses[k] = "yes" => queued[lmtp.todo[k]] >= 1
               /\ lmtp.statuses[k] = "no" => queued[lmtp.todo[k]] <= faults'
    <3>1. queued[lmtp.todo[k]] \in Nat
      BY <2>0, LmtpTyped
    <3>2. /\ lmtp.statuses[k] = "yes" => queued[lmtp.todo[k]] >= 1
          /\ lmtp.statuses[k] = "no" => queued[lmtp.todo[k]] <= faults
      BY <2>0 DEF TruthOK
    <3>3. queued[lmtp.todo[k]] <= faults => queued[lmtp.todo[k]] <= faults'
      BY <2>0, <3>1
    <3>. QED BY <3>2, <3>3
  <2>. QED BY <2>1, <2>2 DEF TruthOK, Tried
<1>. QED BY <1>1, <1>2 DEF LmtpInv

LEMMA OrderedOnce ==
    ASSUME NEW S, IsFiniteSet(S), S \subseteq Nat, NEW s \in InOrder(S)
    PROVE  s \in Seq(S) /\ \A j, k \in DOMAIN s : s[j] = s[k] => j = k
<1>1. Cardinality(S) \in Nat
  BY FS_CardinalityType
<1>2. s \in Seq(S) /\ DOMAIN s = 1 .. Cardinality(S)
  BY <1>1 DEF InOrder
<1>3. ASSUME NEW j \in DOMAIN s, NEW k \in DOMAIN s, s[j] = s[k] PROVE j = k
  <2>1. s[j] \in Nat /\ s[k] \in Nat /\ j \in Nat /\ k \in Nat
    <3>1. j \in Nat /\ k \in Nat
      BY <1>1, <1>2
    <3>2. s[j] \in S /\ s[k] \in S
      BY DEF InOrder
    <3>. QED BY <3>1, <3>2
  <2>2. (j < k => s[j] < s[k]) /\ (k < j => s[k] < s[j])
    BY DEF InOrder
  <2>. QED BY <1>3, <2>1, <2>2
<1>. QED BY <1>2, <1>3

LEMMA ConnectKeeps ==
    ASSUME Counted, LmtpInv, Connect
    PROVE  LmtpInv'
<1>1. PICK todo \in InOrder(Unanswered) :
          lmtp' = IF mail.m.id /\ ~mail.m.defects
                  THEN [IdleLmtp EXCEPT !.pc = "deliver", !.todo = todo]
                  ELSE [IdleLmtp EXCEPT !.pc = "answer", !.todo = todo,
                                        !.statuses = <<"no">>]
  BY DEF Connect
<1>2. UNCHANGED <<mail, queued, faults>> /\ lmtp.pc = "idle" /\ Unanswered # {}
  BY DEF Connect, vars, bounds
<1>3. IsFiniteSet(Unanswered) /\ Unanswered \subseteq Nat
  <2>1. PICK n \in Nat : DOMAIN mail.to = 1 .. n
    BY DEF LmtpInv, MailOK
  <2>2. IsFiniteSet(1 .. n)
    BY FS_Interval
  <2>. QED BY <2>1, <2>2, FS_Subset DEF Unanswered
<1>4. todo \in Seq(Unanswered) /\ \A j, k \in DOMAIN todo : todo[j] = todo[k] => j = k
  BY <1>3, OrderedOnce
<1>5. /\ lmtp'.pc \in {"deliver", "answer"} /\ lmtp'.todo = todo /\ lmtp'.next = 1
      /\ lmtp'.pc = "deliver" => lmtp'.statuses = <<>>
      /\ lmtp'.pc = "answer" => lmtp'.statuses = <<"no">>
      /\ DOMAIN lmtp' = {"pc", "todo", "next", "statuses"}
  BY <1>1 DEF IdleLmtp
<1>6. Len(todo) \in Nat /\ Len(todo) >= 1 /\ DOMAIN todo = 1 .. Len(todo)
  <2>1. Cardinality(Unanswered) \in Nat /\ Cardinality(Unanswered) # 0
    BY <1>2, <1>3, FS_CardinalityType, FS_EmptySet
  <2>2. DOMAIN todo = 1 .. Cardinality(Unanswered)
    BY DEF InOrder
  <2>. QED BY <1>4, <2>1, <2>2
<1>7. lmtp'.statuses \in Seq({"yes", "no"}) /\ Len(lmtp'.statuses) \in {0, 1}
  <2>1. <<"no">> \in Seq({"yes", "no"}) /\ Len(<<"no">>) = 1
    OBVIOUS
  <2>2. <<>> \in Seq({"yes", "no"}) /\ Len(<<>>) = 0
    OBVIOUS
  <2>3. CASE lmtp'.pc = "answer"
    BY <1>5, <2>1, <2>3
  <2>4. CASE lmtp'.pc = "deliver"
    BY <1>5, <2>2, <2>4
  <2>. QED BY <1>5, <2>3, <2>4
<1>8. MailOK'
  BY <1>2 DEF LmtpInv, MailOK
<1>9. LmtpOK'
  <2>1. todo \in Seq(DOMAIN mail.to)
    BY <1>4 DEF Unanswered
  <2>2. \A k \in DOMAIN todo : mail.told[todo[k]] = "nothing"
    BY <1>4 DEF Unanswered
  <2>3. lmtp'.next \in Nat
    BY <1>5
  <2>4. Len(lmtp'.statuses) <= Len(todo)
    <3>1. \A x \in {0, 1}, y \in Nat : y >= 1 => x <= y
      OBVIOUS
    <3>. QED BY <1>6, <1>7, <3>1, Zenon
  <2>5. lmtp'.pc = "deliver"
        => lmtp'.next = Len(lmtp'.statuses) + 1 /\ lmtp'.next <= Len(todo)
    <3>1. Len(<<>>) = 0
      OBVIOUS
    <3>. QED BY <1>5, <1>6, <3>1
  <2>. QED BY <1>2, <1>4, <1>5, <1>6, <1>7, <2>1, <2>2, <2>3, <2>4, <2>5 DEF LmtpOK
<1>10. TruthOK'
  <2>1. MailOK /\ LmtpOK /\ TruthOK
    BY DEF LmtpInv
  <2>2. DOMAIN lmtp.statuses = {}
    BY <1>2, <2>1 DEF LmtpOK, IdleLmtp
  <2>3. ASSUME NEW k \in DOMAIN lmtp'.statuses
        PROVE  /\ lmtp'.statuses[k] = "no" /\ queued[lmtp'.todo[k]] <= faults
    <3>1. DOMAIN <<>> = {} /\ DOMAIN <<"no">> = {1} /\ <<"no">>[1] = "no"
      OBVIOUS
    <3>2. lmtp'.pc = "answer" /\ k = 1
      BY <1>5, <3>1
    <3>3. k \in DOMAIN todo
      BY <1>6, <3>2
    <3>4. todo[k] \in DOMAIN mail.to /\ mail.told[todo[k]] = "nothing"
      BY <1>4, <3>3 DEF Unanswered
    <3>5. queued[todo[k]] <= faults
      BY <2>1, <2>2, <3>4 DEF TruthOK, Tried
    <3>. QED BY <1>5, <3>1, <3>2, <3>5
  <2>4. \A i \in DOMAIN mail.to : mail.told[i] = "nothing" => queued[i] <= faults
    BY <2>1, <2>2 DEF TruthOK, Tried
  <2>. QED BY <1>2, <2>1, <2>3, <2>4 DEF TruthOK
<1>. QED BY <1>8, <1>9, <1>10 DEF LmtpInv

(* The answer for the current recipient, after which its file is there or  *)
(* not: n more files for it.                                               *)
Answering(said, n) ==
    /\ lmtp.pc = "deliver" /\ lmtp' = Answered(Say(lmtp, said))
    /\ queued' = [queued EXCEPT ![Current] = @ + n]

LEMMA AnsweredKeeps ==
    ASSUME Counted, LmtpInv, Later, UNCHANGED mail,
           NEW said, NEW n, <<said, n>> \in {<<"yes", 1>>, <<"no", 0>>},
           Answering(said, n)
    PROVE  LmtpInv'
<1>0. MailOK /\ LmtpOK /\ TruthOK /\ faults \in Nat /\ faults' \in Nat /\ faults <= faults'
  BY DEF LmtpInv, Counted, Later
<1> DEFINE N == Len(lmtp.statuses)  c == lmtp.todo[lmtp.next]
<1>1. /\ lmtp.pc = "deliver" /\ lmtp' = Answered(Say(lmtp, said))
      /\ queued' = [queued EXCEPT ![c] = @ + n]
  BY DEF Answering, Current
<1>2. /\ lmtp.next = N + 1 /\ N + 1 <= Len(lmtp.todo) /\ N \in Nat /\ Len(lmtp.todo) \in Nat
      /\ lmtp.statuses \in Seq({"yes", "no"}) /\ said \in {"yes", "no"} /\ n \in Nat
  BY <1>0, <1>1, LmtpTyped DEF LmtpOK
<1>3. N + 1 \in DOMAIN lmtp.todo /\ DOMAIN lmtp.todo = 1 .. Len(lmtp.todo)
  BY <1>0, <1>2, LmtpTyped
<1>4. /\ c \in DOMAIN mail.to /\ mail.told[c] = "nothing" /\ queued[c] \in Nat
      /\ queued[c] + n \in Nat
  <2>1. c \in DOMAIN mail.to /\ mail.told[c] = "nothing"
    BY <1>0, <1>2, <1>3 DEF LmtpOK
  <2>2. queued[c] \in Nat
    BY <1>0, <2>1, LmtpTyped
  <2>. QED BY <1>2, <2>1, <2>2
<1>5. /\ lmtp'.pc \in {"deliver", "answer"} /\ lmtp'.todo = lmtp.todo
      /\ lmtp'.next = N + 2 /\ lmtp'.statuses = Append(lmtp.statuses, said)
      /\ lmtp'.pc = "deliver" => N + 2 <= Len(lmtp.todo)
      /\ DOMAIN lmtp' = {"pc", "todo", "next", "statuses"}
  <2>1. DOMAIN lmtp = {"pc", "todo", "next", "statuses"}
    BY <1>0 DEF LmtpOK
  <2> DEFINE w == Say(lmtp, said)
  <2>2. /\ w.pc = "deliver" /\ w.todo = lmtp.todo /\ w.next = N + 2
        /\ w.statuses = Append(lmtp.statuses, said)
        /\ DOMAIN w = {"pc", "todo", "next", "statuses"}
    BY <1>1, <1>2, <2>1 DEF Say
  <2> HIDE DEF w
  <2>3. lmtp' = IF N + 2 > Len(lmtp.todo) THEN [w EXCEPT !.pc = "answer"] ELSE w
    BY <1>1, <2>2 DEF Answered, w
  <2>. QED BY <1>2, <2>2, <2>3
<1>6. /\ lmtp'.statuses \in Seq({"yes", "no"}) /\ Len(lmtp'.statuses) = N + 1
      /\ DOMAIN lmtp'.statuses = 1 .. (N + 1) /\ lmtp'.statuses[N + 1] = said
      /\ \A k \in 1 .. N : lmtp'.statuses[k] = lmtp.statuses[k]
  BY <1>2, <1>5
<1>7. /\ queued' \in [DOMAIN mail.to -> Nat] /\ queued'[c] = queued[c] + n
      /\ \A i \in DOMAIN mail.to : i # c => queued'[i] = queued[i]
  BY <1>0, <1>1, <1>4 DEF MailOK
<1> HIDE DEF c, N
<1>a. queued[c] <= faults
  <2>1. ASSUME NEW k \in DOMAIN lmtp.statuses, lmtp.todo[k] = c PROVE FALSE
    <3>1. k \in DOMAIN lmtp.todo /\ k \in 1 .. N
      BY <1>0, LmtpTyped DEF N
    <3>2. k = N + 1
      BY <1>0, <1>2, <1>3, <2>1, <3>1 DEF LmtpOK, c
    <3>. QED BY <1>2, <3>1, <3>2
  <2>2. ~Tried(c)
    BY <2>1 DEF Tried
  <2>. QED BY <1>0, <1>4, <2>2 DEF TruthOK
<1>8. MailOK'
  BY <1>0, <1>7 DEF MailOK
<1>9. LmtpOK'
  <2>1. /\ lmtp'.pc \in {"idle", "deliver", "answer"} /\ lmtp'.todo \in Seq(DOMAIN mail.to)
        /\ lmtp'.next \in Nat
    BY <1>0, <1>2, <1>5 DEF LmtpOK
  <2>2. Len(lmtp'.statuses) <= Len(lmtp'.todo)
    BY <1>2, <1>5, <1>6
  <2>3. lmtp'.pc = "deliver"
        => lmtp'.next = Len(lmtp'.statuses) + 1 /\ lmtp'.next <= Len(lmtp'.todo)
    BY <1>2, <1>5, <1>6
  <2>4. lmtp'.pc # "idle" /\ Len(lmtp'.todo) >= 1
    BY <1>2, <1>5
  <2>. QED BY <1>0, <1>5, <1>6, <2>1, <2>2, <2>3, <2>4 DEF LmtpOK
<1>10. TruthOK'
  <2>1. ASSUME NEW i \in DOMAIN mail.to
        PROVE  /\ mail.told[i] = "yes" => queued'[i] >= 1
               /\ mail.told[i] \in {"no", "given up"} => queued'[i] <= faults'
               /\ queued'[i] <= 1 + faults'
               /\ mail.told[i] = "nothing" => queued'[i] <= faults' \/ Tried(i)'
    <3>1. CASE i = c
      <4>1. N + 1 \in DOMAIN lmtp'.statuses /\ lmtp'.todo[N + 1] = c
        BY <1>2, <1>5, <1>6 DEF c
      <4>2. Tried(i)'
        BY <3>1, <4>1 DEF Tried
      <4>4. queued'[i] <= 1 + faults'
        <5>1. queued'[i] = queued[i] + n /\ n \in {0, 1} /\ queued[i] \in Nat
          BY <1>4, <1>7, <3>1
        <5>. QED BY <1>0, <1>a, <3>1, <5>1
      <4>. QED BY <1>4, <3>1, <4>2, <4>4
    <3>2. CASE i # c
      <4>1. Tried(i) => Tried(i)'
        <5>1. \A k \in DOMAIN lmtp.statuses : k \in DOMAIN lmtp'.statuses
          BY <1>0, <1>2, <1>6, LmtpTyped DEF N
        <5>. QED BY <1>5, <5>1 DEF Tried
      <4>2. queued'[i] = queued[i] /\ queued[i] \in Nat
        BY <1>0, <1>7, <3>2, LmtpTyped
      <4>3. (queued[i] <= faults => queued[i] <= faults')
            /\ (queued[i] <= 1 + faults => queued[i] <= 1 + faults')
        BY <1>0, <4>2
      <4>4. /\ mail.told[i] = "yes" => queued[i] >= 1
            /\ mail.told[i] \in {"no", "given up"} => queued[i] <= faults
            /\ queued[i] <= 1 + faults
            /\ mail.told[i] = "nothing" => queued[i] <= faults \/ Tried(i)
        BY <1>0 DEF TruthOK
      <4>. QED BY <4>1, <4>2, <4>3, <4>4
    <3>. QED BY <3>1, <3>2
  <2>2. ASSUME NEW k \in DOMAIN lmtp'.statuses
        PROVE  /\ lmtp'.statuses[k] = "yes" => queued'[lmtp'.todo[k]] >= 1
               /\ lmtp'.statuses[k] = "no" => queued'[lmtp'.todo[k]] <= faults'
    <3>1. CASE k = N + 1
      <4>1. lmtp'.statuses[k] = said /\ lmtp'.todo[k] = c
        BY <1>2, <1>5, <1>6, <3>1 DEF c
      <4>3. said = "yes" => n = 1
        OBVIOUS
      <4>4. said = "no" => n = 0
        OBVIOUS
      <4>5. n = 1 => queued'[c] >= 1
        BY <1>4, <1>7
      <4>6. n = 0 => queued'[c] <= faults'
        BY <1>0, <1>4, <1>7, <1>a
      <4>. QED BY <4>1, <4>3, <4>4, <4>5, <4>6
    <3>2. CASE k # N + 1
      <4>1. k \in 1 .. N /\ k \in DOMAIN lmtp.statuses
        BY <1>0, <1>2, <1>6, <3>2, LmtpTyped DEF N
      <4>2. lmtp'.statuses[k] = lmtp.statuses[k] /\ lmtp'.todo[k] = lmtp.todo[k]
        BY <1>5, <1>6, <4>1
      <4>3. /\ k \in DOMAIN lmtp.todo /\ lmtp.todo[k] \in DOMAIN mail.to
            /\ queued[lmtp.todo[k]] \in Nat
        BY <1>0, <4>1, LmtpTyped
      <4>4. lmtp.todo[k] # c
        BY <1>0, <1>2, <1>3, <3>2, <4>3 DEF LmtpOK, c
      <4>5. queued'[lmtp.todo[k]] = queued[lmtp.todo[k]]
        BY <1>7, <4>3, <4>4
      <4>6. /\ lmtp.statuses[k] = "yes" => queued[lmtp.todo[k]] >= 1
            /\ lmtp.statuses[k] = "no" => queued[lmtp.todo[k]] <= faults
        BY <1>0, <4>1 DEF TruthOK
      <4>7. queued[lmtp.todo[k]] <= faults => queued[lmtp.todo[k]] <= faults'
        BY <1>0, <4>3
      <4>. QED BY <4>2, <4>5, <4>6, <4>7
    <3>. QED BY <3>1, <3>2
  <2>. QED BY <2>1, <2>2 DEF TruthOK
<1>. QED BY <1>8, <1>9, <1>10 DEF LmtpInv

LEMMA TellKeeps ==
    ASSUME Counted, LmtpInv, Tell
    PROVE  LmtpInv'
<1>0. MailOK /\ LmtpOK /\ TruthOK /\ faults \in Nat
  BY DEF LmtpInv, Counted
<1> DEFINE said(i) == {k \in DOMAIN lmtp.statuses : lmtp.todo[k] = i}
           new(i) == IF mail.told[i] # "nothing" THEN mail.told[i]
                     ELSE IF said(i) = {} THEN "given up"
                     ELSE lmtp.statuses[Min(said(i))]
<1>1. /\ mail' = [mail EXCEPT !.told = [i \in DOMAIN mail.told |-> new(i)]]
      /\ lmtp' = IdleLmtp /\ queued' = queued /\ faults' = faults
  BY DEF Tell, vars, bounds
<1>2. ASSUME NEW i \in DOMAIN mail.to
      PROVE  /\ new(i) \in {"yes", "no", "given up"}
             /\ new(i) = "yes" => queued[i] >= 1
             /\ new(i) \in {"no", "given up"} => queued[i] <= faults
             /\ queued[i] <= 1 + faults
  <2>1. /\ mail.told[i] = "yes" => queued[i] >= 1
        /\ mail.told[i] \in {"no", "given up"} => queued[i] <= faults
        /\ queued[i] <= 1 + faults
        /\ mail.told[i] = "nothing" => queued[i] <= faults \/ Tried(i)
        /\ mail.told[i] \in {"nothing", "yes", "no", "given up"}
    BY <1>0 DEF TruthOK, MailOK
  <2>2. CASE mail.told[i] # "nothing"
    BY <2>1, <2>2
  <2>3. CASE mail.told[i] = "nothing" /\ said(i) = {}
    BY <2>1, <2>3 DEF Tried
  <2>4. CASE mail.told[i] = "nothing" /\ said(i) # {}
    <3>1. said(i) \in SUBSET Nat
      BY <1>0, LmtpTyped
    <3>2. Min(said(i)) \in said(i)
      <4> HIDE DEF said
      <4>. QED BY <2>4, <3>1, Least
    <3> DEFINE k == Min(said(i))
    <3>3. k \in DOMAIN lmtp.statuses /\ lmtp.todo[k] = i /\ new(i) = lmtp.statuses[k]
      BY <2>4, <3>2
    <3> HIDE DEF k, new
    <3>4. lmtp.statuses[k] \in {"yes", "no"}
      BY <1>0, <3>3, LmtpTyped
    <3>5. /\ lmtp.statuses[k] = "yes" => queued[i] >= 1
          /\ lmtp.statuses[k] = "no" => queued[i] <= faults
      BY <1>0, <3>3 DEF TruthOK
    <3>. QED BY <2>1, <3>3, <3>4, <3>5
  <2>. QED BY <2>2, <2>3, <2>4
<1> HIDE DEF new
<1>3. /\ mail'.told = [i \in DOMAIN mail.to |-> new(i)]
      /\ mail'.to = mail.to /\ mail'.m = mail.m /\ mail'.d = mail.d
      /\ DOMAIN mail' = {"m", "d", "to", "told"}
  BY <1>0, <1>1 DEF MailOK
<1>4. MailOK'
  BY <1>0, <1>1, <1>2, <1>3 DEF MailOK
<1>5. LmtpOK'
  <2>1. DOMAIN <<>> = {} /\ Len(<<>>) = 0 /\ <<>> \in Seq({"yes", "no"})
        /\ <<>> \in Seq(DOMAIN mail'.to)
    OBVIOUS
  <2>2. /\ lmtp'.pc = "idle" /\ lmtp'.todo = <<>> /\ lmtp'.next = 1 /\ lmtp'.statuses = <<>>
        /\ DOMAIN lmtp' = {"pc", "todo", "next", "statuses"}
    BY <1>1 DEF IdleLmtp
  <2>. QED BY <1>1, <2>1, <2>2 DEF LmtpOK
<1>6. TruthOK'
  <2>1. DOMAIN lmtp'.statuses = {}
    BY <1>1 DEF IdleLmtp
  <2>. QED BY <1>1, <1>2, <1>3, <2>1 DEF TruthOK
<1>. QED BY <1>4, <1>5, <1>6 DEF LmtpInv

LEMMA CrashKeeps ==
    ASSUME Counted, LmtpInv, CrashLmtp
    PROVE  LmtpInv'
<1>0. MailOK /\ LmtpOK /\ TruthOK /\ faults \in Nat
  BY DEF LmtpInv, Counted
<1>1. lmtp' = IdleLmtp /\ queued' = queued /\ mail' = mail /\ faults' = faults + 1
  BY DEF CrashLmtp, Fault
<1>2. MailOK'
  BY <1>0, <1>1 DEF MailOK
<1>3. LmtpOK'
  <2>1. DOMAIN <<>> = {} /\ Len(<<>>) = 0 /\ <<>> \in Seq({"yes", "no"})
        /\ <<>> \in Seq(DOMAIN mail'.to)
    OBVIOUS
  <2>2. /\ lmtp'.pc = "idle" /\ lmtp'.todo = <<>> /\ lmtp'.next = 1 /\ lmtp'.statuses = <<>>
        /\ DOMAIN lmtp' = {"pc", "todo", "next", "statuses"}
    BY <1>1 DEF IdleLmtp
  <2>. QED BY <1>1, <2>1, <2>2 DEF LmtpOK
<1>4. TruthOK'
  <2>1. DOMAIN lmtp'.statuses = {}
    BY <1>1 DEF IdleLmtp
  <2>2. ASSUME NEW i \in DOMAIN mail.to
        PROVE  /\ mail.told[i] = "yes" => queued[i] >= 1
               /\ mail.told[i] \in {"no", "given up"} => queued[i] <= faults + 1
               /\ queued[i] <= 1 + (faults + 1)
               /\ mail.told[i] = "nothing" => queued[i] <= faults + 1
    <3>1. queued[i] \in Nat
      BY <1>0, LmtpTyped
    <3>2. /\ mail.told[i] = "yes" => queued[i] >= 1
          /\ queued[i] <= 1 + faults
      BY <1>0 DEF TruthOK
    <3>3. queued[i] <= faults + 1 /\ queued[i] <= 1 + (faults + 1)
      BY <1>0, <3>1, <3>2
    <3>. QED BY <3>2, <3>3
  <2>. QED BY <1>1, <2>1, <2>2 DEF TruthOK
<1>. QED BY <1>2, <1>3, <1>4 DEF LmtpInv

(* A new mail, of which nothing has been delivered.                        *)
Fresh ==
    \E m, d, to : \E n \in Nat :
        /\ DOMAIN to = 1 .. n /\ faults \in Nat
        /\ mail = Letter(m, d, to) /\ queued = [i \in DOMAIN to |-> 0]
        /\ lmtp = IdleLmtp

LEMMA FreshMail == Fresh => LmtpInv
<1> SUFFICES ASSUME NEW m, NEW d, NEW to, NEW n \in Nat, DOMAIN to = 1 .. n, faults \in Nat,
                    mail = Letter(m, d, to), queued = [i \in DOMAIN to |-> 0],
                    lmtp = IdleLmtp
             PROVE  LmtpInv
  BY DEF Fresh
<1>1. /\ mail.m = m /\ mail.d = d /\ mail.to = to
      /\ mail.told = [i \in DOMAIN to |-> "nothing"]
      /\ DOMAIN mail = {"m", "d", "to", "told"}
  BY DEF Letter
<1>2. MailOK
  BY <1>1 DEF MailOK
<1>3. LmtpOK
  <2>1. DOMAIN <<>> = {} /\ Len(<<>>) = 0 /\ <<>> \in Seq({"yes", "no"})
        /\ <<>> \in Seq(DOMAIN mail.to)
    OBVIOUS
  <2>2. /\ lmtp.pc = "idle" /\ lmtp.todo = <<>> /\ lmtp.next = 1 /\ lmtp.statuses = <<>>
        /\ DOMAIN lmtp = {"pc", "todo", "next", "statuses"}
    BY DEF IdleLmtp
  <2>. QED BY <2>1, <2>2 DEF LmtpOK
<1>4. TruthOK
  <2>1. DOMAIN lmtp.statuses = {}
    BY DEF IdleLmtp
  <2>3. ASSUME NEW i \in DOMAIN mail.to
        PROVE  mail.told[i] = "nothing" /\ queued[i] <= faults /\ queued[i] <= 1 + faults
    <3>1. i \in DOMAIN to
      BY <1>1
    <3>2. mail.told[i] = "nothing" /\ queued[i] = 0
      BY <1>1, <3>1
    <3>. QED BY <3>2
  <2>. QED BY <2>1, <2>3 DEF TruthOK
<1>. QED BY <1>2, <1>3, <1>4 DEF LmtpInv

LEMMA NewMailKeeps == Fresh' => LmtpInv'
BY FreshMail, PTL

LEMMA LmtpStep ==
    ASSUME Counted, LmtpInv, EntranceNext
    PROVE  LmtpInv' /\ Later
<1>1. CASE Within /\ UNCHANGED entrance
  BY <1>1, PostingLater, LmtpAside DEF entrance
<1>2. CASE RunCom \/ CrashCom \/ UnshuntCommand
  BY <1>2, CommandsAside, LmtpAside
<1>3. CASE Connect
  <2>1. Later
    BY <1>3 DEF Connect, Later, Counted, vars, bounds, history
  <2>. QED BY <1>3, <2>1, ConnectKeeps
<1>4. CASE Deliver
  <2>1. Later /\ UNCHANGED mail
    BY <1>4 DEF Deliver, Later, Counted, bounds, Count
  <2>2. Answering("yes", 1)
    BY <1>4 DEF Deliver, Answering
  <2>. QED BY <2>1, <2>2, AnsweredKeeps
<1>5. CASE Refuse \/ FailToDeliver
  <2>1. Later /\ UNCHANGED mail
    BY <1>5 DEF Refuse, FailToDeliver, Later, Counted, vars, bounds, history, Fault
  <2>2. lmtp.pc = "deliver" /\ lmtp' = Answered(Say(lmtp, "no")) /\ queued' = queued
    BY <1>5 DEF Refuse, FailToDeliver
  <2>3. queued' = [queued EXCEPT ![Current] = @ + 0]
    <3> DEFINE c == Current
    <3>1. lmtp.next \in DOMAIN lmtp.todo
      BY <2>2, LmtpTyped DEF LmtpInv, LmtpOK
    <3>2. c \in DOMAIN mail.to /\ queued \in [DOMAIN mail.to -> Nat]
      <4>1. lmtp.todo \in Seq(DOMAIN mail.to)
        BY DEF LmtpInv, LmtpOK
      <4>2. c \in DOMAIN mail.to
        BY <3>1, <4>1 DEF Current
      <4>. QED BY <4>2 DEF LmtpInv, MailOK
    <3> HIDE DEF c
    <3>3. queued[c] + 0 = queued[c]
      BY <3>2
    <3>4. queued = [queued EXCEPT ![c] = queued[c]]
      BY <3>2
    <3>. QED BY <2>2, <3>3, <3>4 DEF c
  <2>4. Answering("no", 0)
    BY <2>2, <2>3 DEF Answering
  <2>. QED BY <2>1, <2>4, AnsweredKeeps
<1>6. CASE Tell
  <2>0. vars' = vars
    BY <1>6 DEF Tell
  <2>1. Later
    BY <2>0 DEF Later, Counted, vars, bounds, history
  <2>. QED BY <1>6, <2>1, TellKeeps
<1>7. CASE CrashLmtp
  BY <1>7, CrashKeeps DEF CrashLmtp, Later, Counted, Fault, history
<1>8. CASE ReplyComesBack
  <2>1. Unanswered = {} /\ UNCHANGED <<vars, lmtp>> /\ mail' = RobotLetter
        /\ queued' = [i \in DOMAIN RobotLetter.to |-> 0]
    BY <1>8 DEF ReplyComesBack
  <2>2. Later
    BY <2>1 DEF Later, Counted, vars, bounds, history
  <2>3. lmtp.pc = "idle"
    <3>1. lmtp.pc # "idle" => 1 \in DOMAIN lmtp.todo /\ lmtp.todo[1] \in DOMAIN mail.to
      BY LmtpTyped DEF LmtpInv, LmtpOK
    <3>2. 1 \in DOMAIN lmtp.todo => mail.told[lmtp.todo[1]] = "nothing"
      BY DEF LmtpInv, LmtpOK
    <3>. QED BY <2>1, <3>1, <3>2 DEF Unanswered
  <2>4. lmtp' = IdleLmtp
    BY <2>1, <2>3 DEF LmtpInv, LmtpOK
  <2> DEFINE to == <<[ThisList EXCEPT !.local = Append(@, "request")]>>
             m == [Plain EXCEPT !.from = <<Posting>>, !.precedence = "bulk"]
  <2>5. RobotLetter = Letter(m, mail.d, to) /\ DOMAIN to = 1 .. 1
    BY DEF RobotLetter
  <2>6. RobotLetter.to = to
    BY <2>5 DEF Letter
  <2> HIDE DEF m, to
  <2>7. mail' = Letter(m, mail.d, to) /\ queued' = [i \in DOMAIN to |-> 0] /\ faults' \in Nat
    BY <2>1, <2>2, <2>5, <2>6 DEF Later
  <2>8. Fresh'
    BY <2>4, <2>5, <2>7 DEF Fresh
  <2>. QED BY <2>2, <2>8, NewMailKeeps
<1>. QED BY <1>1, <1>2, <1>3, <1>4, <1>5, <1>6, <1>7, <1>8 DEF EntranceNext, RunLmtp

LEMMA LmtpStart == EntranceInit => Counted /\ LmtpInv
<1> SUFFICES ASSUME EntranceInit PROVE Counted /\ LmtpInv
  OBVIOUS
<1>1. PICK s \in Scenarios :
          /\ Start(s, IF s.to = <<>> THEN <<[m |-> s.m, d |-> s.d]>> ELSE <<>>)
          /\ mail = Letter(s.m, s.d, s.to)
          /\ queued = [i \in DOMAIN s.to |-> 0]
  BY DEF EntranceInit
<1>2. Counted
  <2>1. Len(<<>>) = 0 /\ Len(<<[m |-> s.m, d |-> s.d]>>) = 1
    OBVIOUS
  <2>. QED BY <1>1, <2>1 DEF Start, Counted
<1>3. Fresh
  <2>1. s.to \in Seq([local : Seq(STRING), domain : STRING])
    BY EntranceAssumption
  <2>2. DOMAIN s.to = 1 .. Len(s.to) /\ Len(s.to) \in Nat
    BY <2>1
  <2>3. lmtp = IdleLmtp
    BY DEF EntranceInit
  <2>. QED BY <1>1, <1>2, <2>2, <2>3 DEF Fresh, Counted
<1>. QED BY <1>2, <1>3, FreshMail

--------------------------------------------------------------------------------
(***************************************************************************)
(* The files, and what the incoming runner takes from them.                *)
(***************************************************************************)
FileOK(f) == DOMAIN f = {"m", "d"} /\ IsMessage(f.m) /\ DOMAIN f.d = DataFields
Files(q) == (\E S : q \in Seq(S)) /\ \A i \in 1 .. Len(q) : FileOK(q[i])
Shelf(q) ==
    /\ \E S : q \in Seq(S)
    /\ \A i \in 1 .. Len(q) : q[i].whichq = "in" => FileOK([m |-> q[i].m, d |-> q[i].d])

DbOK(x) ==
    /\ DOMAIN x = {"member", "nonmember", "banned", "responded", "headers", "pended",
                   "posts", "held", "notes"}
    /\ x.member \in [Addrs -> {"no", "default"}]
    /\ x.nonmember \in [Addrs -> {"no", "default"}]
    /\ x.headers \in Seq(HeaderMatch)

IncFields == {"pc", "file", "m", "d", "chain", "next", "stack", "entries", "responded",
              "strangers", "held", "noted"}
IncOK ==
    /\ DOMAIN inc = IncFields
    /\ inc.pc \in {"idle", "register", "link", "finish", "commit", "error"}
    /\ inc.entries \in Seq(HeaderMatch)
    /\ inc.pc # "idle" => IsMessage(inc.m) /\ DOMAIN inc.d = DataFields
    /\ inc.pc \notin {"idle", "commit"} => FileOK(inc.file)
    /\ inc.pc = "commit" => inc.file = NoFile

ComOK ==
    /\ DOMAIN com = {"pc", "file", "m", "d", "lines", "answers", "joins", "confirms",
                     "changed", "pended", "settled", "responded"}
    /\ \A a \in DOMAIN com.changed : com.changed[a] \in {"no", "default"}

TypeOK ==
    /\ \E s \in Scenarios : list = s.list
    /\ DbOK(db) /\ Files(inq) /\ Shelf(shunt) /\ IncOK /\ ComOK
    /\ FileOK([m |-> mail.m, d |-> mail.d])
    /\ DOMAIN asked = {"file", "db", "banned", "changed"}
    /\ asked.file = NoFile \/ FileOK(asked.file)

LEMMA FilesGrow ==
    ASSUME NEW q, Files(q), NEW f, FileOK(f)
    PROVE  Files(Append(q, f)) /\ Len(Append(q, f)) = Len(q) + 1
<1>1. PICK S : q \in Seq(S)
  BY DEF Files
<1> DEFINE T == S \cup {f}  r == Append(q, f)
<1>2. q \in Seq(T) /\ f \in T
  BY <1>1
<1>3. /\ r \in Seq(T) /\ Len(r) = Len(q) + 1 /\ Len(q) \in Nat
      /\ r[Len(q) + 1] = f /\ \A i \in 1 .. Len(q) : r[i] = q[i]
  <2> HIDE DEF T
  <2>. QED BY <1>2
<1> HIDE DEF T, r
<1>4. ASSUME NEW i \in 1 .. Len(r) PROVE FileOK(r[i])
  <2>1. CASE i = Len(q) + 1
    BY <1>3, <2>1
  <2>2. CASE i # Len(q) + 1
    <3>1. i \in 1 .. Len(q)
      BY <1>3, <2>2
    <3>2. FileOK(q[i])
      BY <3>1 DEF Files
    <3>. QED BY <1>3, <3>1, <3>2
  <2>. QED BY <2>1, <2>2
<1>. QED BY <1>3, <1>4 DEF Files, r

LEMMA FilesShrink ==
    ASSUME NEW q, Files(q), q # <<>>
    PROVE  /\ FileOK(Head(q)) /\ Files(Tail(q)) /\ Len(Tail(q)) = Len(q) - 1
           /\ Len(q) \in Nat \ {0}
<1>1. PICK S : q \in Seq(S)
  BY DEF Files
<1>2. /\ Len(q) \in Nat \ {0} /\ Head(q) = q[1] /\ Tail(q) \in Seq(S)
      /\ Len(Tail(q)) = Len(q) - 1 /\ \A i \in 1 .. (Len(q) - 1) : Tail(q)[i] = q[i + 1]
  BY <1>1
<1>3. ASSUME NEW i \in 1 .. Len(Tail(q)) PROVE FileOK(Tail(q)[i])
  <2>1. i + 1 \in 1 .. Len(q) /\ Tail(q)[i] = q[i + 1]
    BY <1>2
  <2>. QED BY <2>1 DEF Files
<1>4. FileOK(q[1])
  BY <1>2 DEF Files
<1>. QED BY <1>2, <1>3, <1>4 DEF Files

LEMMA FilesBack ==
    ASSUME NEW q, Files(q), NEW f, FileOK(f)
    PROVE  Files(<<f>> \o q) /\ Len(<<f>> \o q) = Len(q) + 1 /\ Len(q) \in Nat
<1>1. PICK S : q \in Seq(S)
  BY DEF Files
<1> DEFINE T == S \cup {f}  r == <<f>> \o q
<1>2. q \in Seq(T) /\ <<f>> \in Seq(T) /\ Len(<<f>>) = 1 /\ <<f>>[1] = f
  BY <1>1
<1>3. /\ r \in Seq(T) /\ Len(r) = Len(q) + 1 /\ Len(q) \in Nat
      /\ r[1] = f /\ \A i \in 2 .. (Len(q) + 1) : r[i] = q[i - 1]
  <2> HIDE DEF T
  <2>. QED BY <1>2
<1> HIDE DEF T, r
<1>4. ASSUME NEW i \in 1 .. Len(r) PROVE FileOK(r[i])
  <2>1. CASE i = 1
    BY <1>3, <2>1
  <2>2. CASE i # 1
    <3>1. i \in 2 .. (Len(q) + 1) /\ i - 1 \in 1 .. Len(q)
      BY <1>3, <2>2
    <3>2. FileOK(q[i - 1])
      BY <3>1 DEF Files
    <3>. QED BY <1>3, <3>1, <3>2
  <2>. QED BY <2>1, <2>2
<1>. QED BY <1>3, <1>4 DEF Files, r

LEMMA FileAlone ==
    ASSUME NEW f, FileOK(f)
    PROVE  Files(<<f>>) /\ Len(<<f>>) = 1
<1>1. <<f>> \in Seq({f}) /\ Len(<<f>>) = 1 /\ <<f>>[1] = f
  OBVIOUS
<1>2. \A i \in 1 .. Len(<<f>>) : FileOK(<<f>>[i])
  BY <1>1
<1>. QED BY <1>1, <1>2 DEF Files

LEMMA NoFiles == Files(<<>>) /\ Shelf(<<>>) /\ Len(<<>>) = 0
<1>1. <<>> \in Seq({}) /\ Len(<<>>) = 0 /\ 1 .. 0 = {}
  OBVIOUS
<1>. QED BY <1>1 DEF Files, Shelf

LEMMA ShelfGrow ==
    ASSUME NEW q, Shelf(q), NEW e, e.whichq = "in" => FileOK([m |-> e.m, d |-> e.d])
    PROVE  Shelf(Append(q, e)) /\ Append(q, e) # <<>>
<1>1. PICK S : q \in Seq(S)
  BY DEF Shelf
<1> DEFINE T == S \cup {e}  r == Append(q, e)
<1>2. q \in Seq(T) /\ e \in T
  BY <1>1
<1>3. /\ r \in Seq(T) /\ Len(r) = Len(q) + 1 /\ Len(q) \in Nat /\ r # <<>>
      /\ r[Len(q) + 1] = e /\ \A i \in 1 .. Len(q) : r[i] = q[i]
  <2> HIDE DEF T
  <2>. QED BY <1>2
<1> HIDE DEF T, r
<1>4. ASSUME NEW i \in 1 .. Len(r), r[i].whichq = "in"
      PROVE  FileOK([m |-> r[i].m, d |-> r[i].d])
  <2>1. CASE i = Len(q) + 1
    BY <1>3, <1>4, <2>1
  <2>2. CASE i # Len(q) + 1
    <3>1. i \in 1 .. Len(q) /\ r[i] = q[i]
      BY <1>3, <2>2
    <3>2. FileOK([m |-> q[i].m, d |-> q[i].d])
      BY <1>4, <3>1 DEF Shelf
    <3>. QED BY <3>1, <3>2
  <2>. QED BY <2>1, <2>2
<1>. QED BY <1>3, <1>4 DEF Shelf, r

LEMMA ShelfShrink ==
    ASSUME NEW q, Shelf(q), q # <<>>
    PROVE  /\ Shelf(Tail(q))
           /\ Head(q).whichq = "in" => FileOK([m |-> Head(q).m, d |-> Head(q).d])
<1>1. PICK S : q \in Seq(S)
  BY DEF Shelf
<1>2. /\ Len(q) \in Nat \ {0} /\ Head(q) = q[1] /\ Tail(q) \in Seq(S)
      /\ Len(Tail(q)) = Len(q) - 1 /\ \A i \in 1 .. (Len(q) - 1) : Tail(q)[i] = q[i + 1]
  BY <1>1
<1>3. ASSUME NEW i \in 1 .. Len(Tail(q)), Tail(q)[i].whichq = "in"
      PROVE  FileOK([m |-> Tail(q)[i].m, d |-> Tail(q)[i].d])
  <2>1. i + 1 \in 1 .. Len(q) /\ Tail(q)[i] = q[i + 1]
    BY <1>2
  <2>2. FileOK([m |-> q[i + 1].m, d |-> q[i + 1].d])
    BY <1>3, <2>1 DEF Shelf
  <2>. QED BY <2>1, <2>2
<1>4. q[1].whichq = "in" => FileOK([m |-> q[1].m, d |-> q[1].d])
  BY <1>2 DEF Shelf
<1>. QED BY <1>2, <1>3, <1>4 DEF Shelf

--------------------------------------------------------------------------------
(***************************************************************************)
(* The rules leave the message and its metadata what they are.             *)
(***************************************************************************)
LEMMA StrippedOK ==
    ASSUME NEW m, IsMessage(m), NEW link, NEW l
    PROVE  /\ IsMessage(Stripped(link, l, m))
           /\ \A x \in DOMAIN Plain \ {"approve"} : Stripped(link, l, m)[x] = m[x]
           /\ link.rule # "approved" => Stripped(link, l, m) = m
<1> DEFINE n == Stripped(link, l, m)
<1>1. n = m \/ n = [m EXCEPT !.approve = "none"]
  BY DEF Stripped
<1>2. DOMAIN n = DOMAIN Plain /\ \A x \in DOMAIN Plain \ {"approve"} : n[x] = m[x]
  BY <1>1 DEF IsMessage
<1>3. {"from", "envelope", "replyTo", "sender"} \subseteq DOMAIN Plain \ {"approve"}
  BY DEF Plain
<1>4. n.from = m.from /\ n.envelope = m.envelope /\ n.replyTo = m.replyTo /\ n.sender = m.sender
  <2> HIDE DEF n
  <2>. QED BY <1>2, <1>3
<1>5. link.rule # "approved" => n = m
  BY DEF Stripped
<1> HIDE DEF n
<1>6. IsMessage(n)
  BY <1>2, <1>4 DEF IsMessage
<1>. QED BY <1>2, <1>5, <1>6 DEF n

CheckedAs(e, link, l, m, d, x) ==
    LET hit == Matches(link, l, m, d, x)
    IN  /\ DOMAIN e = DataFields
        /\ \A y \in DataFields \ {"hits", "action", "dmarc", "dmarcAction"} : e[y] = d[y]
        /\ e.hits = IF hit /\ link.rule \notin Unrecorded
                    THEN d.hits \cup {link.rule} ELSE d.hits
        /\ e.action = CASE link.rule = "member-moderation" /\ hit -> MemberAction(l, m, x)
                        [] link.rule = "nonmember-moderation" /\ hit -> NonmemberAction(l, m, x)
                        [] OTHER -> d.action
        /\ (link.rule = "dmarc-mitigation" /\ hit) => e.dmarcAction = l.dmarcAction
LEMMA CheckedOK ==
    ASSUME NEW d, DOMAIN d = DataFields, NEW link, NEW l, NEW m, NEW x
    PROVE  CheckedAs(Checked(link, l, m, d, x), link, l, m, d, x)
<1> DEFINE hit == Matches(link, l, m, d, x)
           e1 == IF hit /\ link.rule \notin Unrecorded
                 THEN [d EXCEPT !.hits = @ \cup {link.rule}] ELSE d
           e == Checked(link, l, m, d, x)
<1>1. /\ DOMAIN e1 = DataFields
      /\ \A y \in DataFields \ {"hits"} : e1[y] = d[y]
      /\ e1.hits = IF hit /\ link.rule \notin Unrecorded THEN d.hits \cup {link.rule} ELSE d.hits
  <2> HIDE DEF hit
  <2>. QED BY DEF DataFields
<1>2. e = CASE link.rule = "dmarc-mitigation" /\ Suspect(l, m) ->
               [e1 EXCEPT !.dmarc = TRUE, !.dmarcAction = IF hit THEN l.dmarcAction ELSE @]
          [] link.rule = "member-moderation" /\ hit ->
               [e1 EXCEPT !.action = MemberAction(l, m, x)]
          [] link.rule = "nonmember-moderation" /\ hit ->
               [e1 EXCEPT !.action = NonmemberAction(l, m, x)]
          [] OTHER -> e1
  BY DEF Checked
<1>3. (link.rule = "dmarc-mitigation" /\ hit) => Suspect(l, m)
  BY DEF Matches, DmarcMitigation
<1>4. {"hits", "action", "dmarc", "dmarcAction"} \subseteq DataFields
  BY DEF DataFields
<1>5. e1.action = d.action
  BY <1>1, <1>4
<1> HIDE DEF e1, e, hit
<1>6. CASE link.rule = "dmarc-mitigation" /\ Suspect(l, m)
  <2>1. e = [e1 EXCEPT !.dmarc = TRUE, !.dmarcAction = IF hit THEN l.dmarcAction ELSE @]
    BY <1>2, <1>6
  <2>. QED BY <1>1, <1>4, <1>5, <1>6, <2>1 DEF e, hit, CheckedAs
<1>7. CASE link.rule = "member-moderation" /\ hit
  <2>1. e = [e1 EXCEPT !.action = MemberAction(l, m, x)]
    BY <1>2, <1>7
  <2>. QED BY <1>1, <1>4, <1>5, <1>7, <2>1 DEF e, hit, CheckedAs
<1>8. CASE link.rule = "nonmember-moderation" /\ hit
  <2>1. e = [e1 EXCEPT !.action = NonmemberAction(l, m, x)]
    BY <1>2, <1>8
  <2>. QED BY <1>1, <1>4, <1>5, <1>8, <2>1 DEF e, hit, CheckedAs
<1>9. CASE /\ ~(link.rule = "dmarc-mitigation" /\ Suspect(l, m))
           /\ ~(link.rule = "member-moderation" /\ hit)
           /\ ~(link.rule = "nonmember-moderation" /\ hit)
  <2>1. e = e1
    BY <1>2, <1>9
  <2>. QED BY <1>1, <1>3, <1>4, <1>5, <1>9, <2>1 DEF e, hit, CheckedAs
<1>. QED BY <1>6, <1>7, <1>8, <1>9

(* A sender is an address; and what a member or nonmember rule decides     *)
(* when it hits is the name of a chain.                                    *)
LEMMA SendersTyped ==
    ASSUME NEW m, IsMessage(m)
    PROVE  /\ Senders(m) \in Seq(Addrs) /\ Len(Senders(m)) \in Nat
           /\ DOMAIN Senders(m) = 1 .. Len(Senders(m))
           /\ Senders(m) # <<>> => Head(Senders(m)) \in Addrs
<1>1. Senders(m) \in Seq(Addrs)
  BY DEF Senders, IsMessage
<1>. QED BY <1>1

LEMMA SenderMember ==
    ASSUME NEW m, IsMessage(m), NEW x
    PROVE  FindSenderMember(m, x) = "nobody"
           \/ (FindSenderMember(m, x) \in Addrs /\ IsMember(x, FindSenderMember(m, x)))
<1> DEFINE s == Senders(m)
           found == {i \in DOMAIN s : IsMember(x, s[i]) \/ IsMember(x, Other[s[i]])}
<1>1. s \in Seq(Addrs) /\ found \subseteq Nat /\ DOMAIN s = 1 .. Len(s)
  BY SendersTyped
<1>2. CASE found = {}
  BY <1>2 DEF FindSenderMember
<1>3. CASE found # {}
  <2>1. Min(found) \in found
    <3> HIDE DEF found
    <3>. QED BY <1>1, <1>3, Least
  <2> DEFINE a == s[Min(found)]
  <2>2. a \in Addrs /\ Other[a] \in Addrs /\ (IsMember(x, a) \/ IsMember(x, Other[a]))
    BY <1>1, <2>1, RulesAssumption
  <2>3. FindSenderMember(m, x) = IF IsMember(x, a) THEN a ELSE Other[a]
    BY <1>3 DEF FindSenderMember
  <2>. QED BY <2>2, <2>3
<1>. QED BY <1>2, <1>3

Decisions == {"hold", "reject", "discard", "accept"}
ListOK == list.defaultMemberAction \in Actions /\ list.defaultNonmemberAction \in Actions
          /\ list.dmarcAction \in DmarcActions

LEMMA MemberDecides ==
    ASSUME NEW m, IsMessage(m), NEW x, x.member \in [Addrs -> {"no", "default"}],
           ListOK, MemberModeration(list, m, x)
    PROVE  MemberAction(list, m, x) \in Decisions
<1> DEFINE a == FindSenderMember(m, x)
<1>1. MemberAction(list, m, x) # "defer"
  BY DEF MemberModeration
<1>2. a # "nobody"
  BY <1>1 DEF MemberAction
<1>3. a \in Addrs /\ x.member[a] # "no"
  BY <1>2, SenderMember DEF IsMember
<1>4. x.member[a] = "default"
  <2> HIDE DEF a
  <2>. QED BY <1>3
<1>5. MemberAction(list, m, x) = list.defaultMemberAction
  BY <1>2, <1>4 DEF MemberAction
<1>. QED BY <1>1, <1>5 DEF ListOK, Actions, Decisions

LEMMA NonmemberDecides ==
    ASSUME NEW m, IsMessage(m), NEW x, x.nonmember \in [Addrs -> {"no", "default"}],
           ListOK, NonmemberModeration(list, m, x)
    PROVE  Senders(m) # <<>> => NonmemberAction(list, m, x) \in Decisions
<1> SUFFICES ASSUME Senders(m) # <<>> PROVE NonmemberAction(list, m, x) \in Decisions
  OBVIOUS
<1> DEFINE a == Head(Senders(m))
           lists == {i \in DOMAIN LegacyActions : a \in list.these[LegacyActions[i]]}
<1>1. a \in Addrs
  BY SendersTyped
<1>2. /\ NonmemberAction(list, m, x) = ActionFor(a, list, x)
      /\ NonmemberAction(list, m, x) # "defer"
  BY DEF NonmemberAction, NonmemberModeration
<1>3. CASE lists # {}
  <2>1. DOMAIN LegacyActions = 1 .. 4
        /\ \A i \in 1 .. 4 : LegacyActions[i] \in Decisions
    BY DEF LegacyActions, Decisions
  <2>2. Min(lists) \in lists
    <3>1. lists \subseteq Nat
      BY <2>1
    <3> HIDE DEF lists
    <3>. QED BY <1>3, <3>1, Least
  <2>3. ActionFor(a, list, x) = LegacyActions[Min(lists)]
    BY <1>3 DEF ActionFor
  <2> HIDE DEF lists, a
  <2>4. Min(lists) \in 1 .. 4
    BY <2>1, <2>2 DEF lists
  <2>. QED BY <1>2, <2>1, <2>3, <2>4
<1>4. CASE lists = {}
  <2>1. x.nonmember[a] \in {"no", "default"}
    BY <1>1
  <2>2. ActionFor(a, list, x) = list.defaultNonmemberAction
    BY <1>4, <2>1 DEF ActionFor
  <2>. QED BY <1>2, <2>2 DEF ListOK, Actions, Decisions
<1>. QED BY <1>3, <1>4

--------------------------------------------------------------------------------
(***************************************************************************)
(* The chains that a posting can be in, and the links there.               *)
(***************************************************************************)
Sites == Len(SiteChecks)

ChainOK ==
    /\ inc.pc = "register" => inc.stack = <<>>
    /\ inc.pc = "link" =>
          /\ inc.chain \in Terminal \cup {"default-posting-chain", "header-match",
                                          "moderation", "dmarc"}
          /\ inc.chain = "default-posting-chain" =>
                /\ inc.next \in 1 .. 18 /\ inc.stack = <<>>
                /\ inc.next > 2 => Senders(inc.m) # <<>>
          /\ inc.chain = "header-match" =>
                /\ inc.next \in 1 .. (Sites + Len(inc.entries) + 2)
                /\ inc.stack = <<[chain |-> "default-posting-chain", next |-> 9]>>
                /\ Senders(inc.m) # <<>>
          /\ inc.chain = "moderation" => inc.next = 1 /\ inc.d.action \in Decisions
          /\ inc.chain = "dmarc" => inc.next = 1 /\ inc.d.dmarcAction \in {"reject", "discard"}
          /\ inc.chain \in Terminal => inc.next \in {1, 2}

LEMMA BuiltIn ==
    /\ Len(BuiltInChain) = 18
    /\ BuiltInChain[1] = Link("dmarc-mitigation", "jump", "dmarc")
    /\ BuiltInChain[2] = Link("no-senders", "jump", "discard")
    /\ BuiltInChain[3] = Link("approved", "jump", "accept")
    /\ BuiltInChain[4] = Link("emergency", "jump", "hold")
    /\ BuiltInChain[5] = Link("loop", "jump", "discard")
    /\ BuiltInChain[6] = Link("banned-address", "jump", "discard")
    /\ BuiltInChain[7] = Link("member-moderation", "jump", "moderation")
    /\ BuiltInChain[8] = Link("truth", "detour", "header-match")
    /\ BuiltInChain[9] = Link("nonmember-moderation", "jump", "moderation")
    /\ BuiltInChain[10] = Link("administrivia", "defer", "none")
    /\ BuiltInChain[11] = Link("implicit-dest", "defer", "none")
    /\ BuiltInChain[12] = Link("max-recipients", "defer", "none")
    /\ BuiltInChain[13] = Link("max-size", "defer", "none")
    /\ BuiltInChain[14] = Link("news-moderation", "defer", "none")
    /\ BuiltInChain[15] = Link("no-subject", "defer", "none")
    /\ BuiltInChain[16] = Link("suspicious-header", "defer", "none")
    /\ BuiltInChain[17] = Link("any", "jump", "hold")
    /\ BuiltInChain[18] = Link("truth", "jump", "accept")
BY DEF BuiltInChain

JoinedOK(a, e, b) ==
    /\ Len(a \o <<e>> \o b) = Len(a) + 1 + Len(b)
    /\ \A i \in 1 .. Len(a) : (a \o <<e>> \o b)[i] = a[i]
    /\ (a \o <<e>> \o b)[Len(a) + 1] = e
    /\ \A i \in 1 .. Len(b) : (a \o <<e>> \o b)[Len(a) + 1 + i] = b[i]
LEMMA Joined ==
    ASSUME NEW S, NEW a \in Seq(S), NEW e \in S, NEW b \in Seq(S)
    PROVE  JoinedOK(a, e, b)
<1>1. <<e>> \in Seq(S) /\ Len(<<e>>) = 1 /\ <<e>>[1] = e
  OBVIOUS
<1>2. /\ a \o <<e>> \in Seq(S) /\ Len(a \o <<e>>) = Len(a) + 1 /\ Len(a) \in Nat
      /\ \A i \in 1 .. Len(a) : (a \o <<e>>)[i] = a[i]
      /\ (a \o <<e>>)[Len(a) + 1] = e
  BY <1>1
<1> DEFINE c == a \o <<e>>
<1> HIDE DEF c
<1>3. /\ Len(c \o b) = Len(c) + Len(b) /\ Len(b) \in Nat
      /\ \A i \in 1 .. Len(c) : (c \o b)[i] = c[i]
      /\ \A i \in 1 .. Len(b) : (c \o b)[Len(c) + i] = b[i]
  BY <1>2 DEF c
<1>4. \A i \in 1 .. Len(a) : (c \o b)[i] = a[i]
  BY <1>2, <1>3 DEF c
<1>5. (c \o b)[Len(a) + 1] = e
  BY <1>2, <1>3 DEF c
<1>6. \A i \in 1 .. Len(b) : (c \o b)[Len(a) + 1 + i] = b[i]
  BY <1>2, <1>3 DEF c
<1>. QED BY <1>2, <1>3, <1>4, <1>5, <1>6 DEF c, JoinedOK

(* The links of the header-match chain.                                    *)
SiteLink(i) == HeaderLink(SiteChecks[i], "defer", "none")
OwnChain(e) == IF e.chain = "none" THEN JumpChain ELSE e.chain
LEMMA HeaderLinks ==
    ASSUME NEW entries \in Seq(HeaderMatch), NEW pattern
    PROVE  LET chain == HeaderMatchChain(entries, pattern)
           IN  /\ Len(chain) = Sites + 1 + Len(entries)
               /\ Sites \in Nat /\ Len(entries) \in Nat
               /\ \A i \in 1 .. Sites : chain[i] = SiteLink(i)
               /\ chain[Sites + 1] = Link("any", "jump", JumpChain)
               /\ \A i \in 1 .. Len(entries) :
                     chain[Sites + 1 + i]
                     = HeaderLink(pattern[i], "jump", OwnChain(entries[i]))
<1> DEFINE a == [i \in DOMAIN SiteChecks |-> SiteLink(i)]
           e == Link("any", "jump", JumpChain)
           b == [i \in DOMAIN entries |-> HeaderLink(pattern[i], "jump", OwnChain(entries[i]))]
           S == {a[i] : i \in DOMAIN SiteChecks} \cup {e} \cup {b[i] : i \in DOMAIN entries}
<1>1. DOMAIN SiteChecks = 1 .. Sites /\ Sites \in Nat
  BY RulesAssumption DEF Sites
<1>2. DOMAIN entries = 1 .. Len(entries) /\ Len(entries) \in Nat
  OBVIOUS
<1> HIDE DEF e
<1>3. a \in [1 .. Sites -> S] /\ e \in S /\ b \in [1 .. Len(entries) -> S]
  BY <1>1, <1>2
<1>4. a \in Seq(S) /\ b \in Seq(S) /\ Len(a) = Sites /\ Len(b) = Len(entries)
  <2> HIDE DEF a, b, S
  <2>. QED BY <1>1, <1>2, <1>3
<1>5. HeaderMatchChain(entries, pattern) = a \o <<e>> \o b
  BY DEF HeaderMatchChain, SiteLink, OwnChain, e
<1>6. \A i \in 1 .. Sites : a[i] = SiteLink(i)
  BY <1>1
<1>7. \A i \in 1 .. Len(entries) : b[i] = HeaderLink(pattern[i], "jump", OwnChain(entries[i]))
  BY <1>2
<1> HIDE DEF a, b, S
<1>8. /\ Len(a \o <<e>> \o b) = Len(a) + 1 + Len(b)
      /\ \A i \in 1 .. Len(a) : (a \o <<e>> \o b)[i] = a[i]
      /\ (a \o <<e>> \o b)[Len(a) + 1] = e
      /\ \A i \in 1 .. Len(b) : (a \o <<e>> \o b)[Len(a) + 1 + i] = b[i]
  <2>1. a \in Seq(S) /\ e \in S /\ b \in Seq(S)
    BY <1>3, <1>4
  <2>2. JoinedOK(a, e, b)
    BY <2>1, Joined
  <2>. QED BY <2>2 DEF JoinedOK
<1> DEFINE c == a \o <<e>> \o b
<1> HIDE DEF c
<1>9. /\ Len(c) = Sites + 1 + Len(entries) /\ c[Sites + 1] = e
      /\ \A i \in 1 .. Sites : c[i] = a[i]
      /\ \A i \in 1 .. Len(entries) : c[Sites + 1 + i] = b[i]
  BY <1>4, <1>8 DEF c
<1>. QED BY <1>1, <1>2, <1>5, <1>6, <1>7, <1>9 DEF c, e

(* What link comes next.                                                   *)
NextLink(link) ==
    \/ inc.chain = "default-posting-chain" /\ link = BuiltInChain[inc.next]
    \/ /\ inc.chain = "header-match" /\ inc.next \in 1 .. Sites
       /\ link = SiteLink(inc.next)
    \/ /\ inc.chain = "header-match" /\ inc.next = Sites + 1
       /\ link = Link("any", "jump", JumpChain)
    \/ /\ inc.chain = "header-match" /\ Position \in 1 .. Len(inc.entries)
       /\ link = HeaderLink(RuleOf[Position], "jump", OwnChain(inc.entries[Position]))
    \/ inc.chain = "moderation" /\ link = Link("truth", "jump", inc.d.action)
    \/ inc.chain = "dmarc" /\ link = Link("truth", "jump", inc.d.dmarcAction)
    \/ inc.chain \in Terminal /\ inc.next = 1 /\ link = Link("truth", "run", "none")
    \/ inc.chain \in Terminal /\ inc.next = 2 /\ link = Link("truth", "stop", "none")

LinkFound ==
    IF Exhausted
    THEN inc.chain = "header-match" /\ inc.next = Sites + Len(inc.entries) + 2
    ELSE NextLink(Here[inc.next])
LEMMA ExhaustedOnlyThere ==
    ASSUME IncOK, ChainOK, inc.pc = "link"
    PROVE  LinkFound
<1>1. CASE inc.chain = "default-posting-chain"
  <2>1. Here = BuiltInChain
    BY <1>1 DEF Here, Links, Terminal
  <2>2. inc.next \in 1 .. 18
    BY <1>1 DEF ChainOK
  <2>. QED BY <1>1, <2>1, <2>2, BuiltIn DEF LinkFound, Exhausted, NextLink
<1>2. CASE inc.chain = "header-match"
  <2>1. Here = HeaderMatchChain(inc.entries, RuleOf)
    BY <1>2 DEF Here, Links, Terminal
  <2>2. inc.next \in 1 .. (Sites + Len(inc.entries) + 2)
    BY <1>2 DEF ChainOK
  <2>3. inc.entries \in Seq(HeaderMatch)
    BY DEF IncOK
  <2> DEFINE n == Len(inc.entries)
  <2> HIDE DEF n
  <2>4. /\ Len(Here) = Sites + 1 + n /\ Sites \in Nat /\ n \in Nat
        /\ \A i \in 1 .. Sites : Here[i] = SiteLink(i)
        /\ Here[Sites + 1] = Link("any", "jump", JumpChain)
        /\ \A i \in 1 .. n :
              Here[Sites + 1 + i] = HeaderLink(RuleOf[i], "jump", OwnChain(inc.entries[i]))
    BY <2>1, <2>3, HeaderLinks DEF n
  <2>5. CASE inc.next \in 1 .. Sites
    BY <1>2, <2>4, <2>5 DEF LinkFound, Exhausted, NextLink
  <2>6. CASE inc.next = Sites + 1
    BY <1>2, <2>4, <2>6 DEF LinkFound, Exhausted, NextLink
  <2>7. CASE inc.next \in (Sites + 2) .. (Sites + 1 + n)
    <3>0. \A s, k \in Nat : \A x \in (s + 2) .. (s + 1 + k) :
              x - s - 1 \in 1 .. k /\ x = s + 1 + (x - s - 1)
      OBVIOUS
    <3>a. inc.next - Sites - 1 \in 1 .. n /\ inc.next = Sites + 1 + (inc.next - Sites - 1)
      <4>1. Sites \in Nat /\ n \in Nat
        BY <2>4
      <4>. QED BY <3>0, <2>7, <4>1
    <3>b. Position = inc.next - Sites - 1
      BY DEF Position, Sites
    <3>1. Position \in 1 .. n /\ inc.next = Sites + 1 + Position
      BY <3>a, <3>b
    <3>2. Here[inc.next] = HeaderLink(RuleOf[Position], "jump", OwnChain(inc.entries[Position]))
      BY <2>4, <3>1
    <3>3. ~(inc.next > Len(Here))
      BY <2>4, <2>7
    <3>. QED BY <1>2, <3>1, <3>2, <3>3 DEF n, LinkFound, Exhausted, NextLink
  <2>8. CASE inc.next = Sites + n + 2
    <3>1. inc.next > Len(Here)
      BY <2>4, <2>8
    <3>. QED BY <1>2, <2>8, <3>1 DEF n, LinkFound, Exhausted, NextLink
  <2>9. \/ inc.next \in 1 .. Sites \/ inc.next = Sites + 1 \/ inc.next = Sites + n + 2
        \/ inc.next \in (Sites + 2) .. (Sites + 1 + n)
    <3>1. inc.next \in 1 .. (Sites + n + 2)
      BY <2>2 DEF n
    <3>2. \A s, k \in Nat : \A x \in 1 .. (s + k + 2) :
              \/ x \in 1 .. s \/ x = s + 1 \/ x = s + k + 2 \/ x \in (s + 2) .. (s + 1 + k)
      OBVIOUS
    <3>3. Sites \in Nat /\ n \in Nat
      BY <2>4
    <3>. QED BY <3>1, <3>2, <3>3
  <2>. QED BY <2>5, <2>6, <2>7, <2>8, <2>9
<1>3. CASE inc.chain = "moderation"
  <2>1. Here = <<Link("truth", "jump", inc.d.action)>> /\ inc.next = 1
    BY <1>3 DEF Here, Links, ModerationChain, ChainOK, Terminal
  <2>2. Len(Here) = 1 /\ Here[1] = Link("truth", "jump", inc.d.action)
    BY <2>1
  <2>. QED BY <1>3, <2>1, <2>2 DEF LinkFound, Exhausted, NextLink
<1>4. CASE inc.chain = "dmarc"
  <2>1. Here = <<Link("truth", "jump", inc.d.dmarcAction)>> /\ inc.next = 1
    BY <1>4 DEF Here, Links, DmarcChain, ChainOK, Terminal
  <2>2. Len(Here) = 1 /\ Here[1] = Link("truth", "jump", inc.d.dmarcAction)
    BY <2>1
  <2>. QED BY <1>4, <2>1, <2>2 DEF LinkFound, Exhausted, NextLink
<1>5. CASE inc.chain \in Terminal
  <2>1. Here = TerminalChain /\ inc.next \in {1, 2}
    BY <1>5 DEF Here, Links, Terminal, ChainOK
  <2>2. /\ Len(Here) = 2 /\ Here[1] = Link("truth", "run", "none")
        /\ Here[2] = Link("truth", "stop", "none")
    BY <2>1 DEF TerminalChain
  <2>. QED BY <1>5, <2>1, <2>2 DEF LinkFound, Exhausted, NextLink
<1>. QED BY <1>1, <1>2, <1>3, <1>4, <1>5 DEF ChainOK

--------------------------------------------------------------------------------
(***************************************************************************)
(* What following a link comes to, field by field.                         *)
(***************************************************************************)
Hit(link) == Matches(link, list, inc.m, inc.d, Seen)
Jumps(link) == Hit(link) /\ link.action \in {"jump", "detour"}
Went(link) ==
    /\ DOMAIN inc' = IncFields
    /\ inc'.m = Stripped(link, list, inc.m)
    /\ inc'.d = Checked(link, list, inc.m, inc.d, Seen)
    /\ inc'.file = inc.file
    /\ inc'.strangers = IF link.rule = "nonmember-moderation"
                        THEN inc.strangers \cup Strangers(inc.m, Seen) ELSE inc.strangers
    /\ inc'.pc = IF Hit(link) /\ link.action = "stop" THEN "finish" ELSE "link"
    /\ inc'.chain = IF Jumps(link) THEN link.chain ELSE inc.chain
    /\ inc'.next = IF Jumps(link) THEN 1 ELSE inc.next + 1
    /\ inc'.entries = IF Jumps(link) /\ link.chain = "header-match"
                      THEN db.headers ELSE inc.entries
    /\ inc'.stack = IF Hit(link) /\ link.action = "detour"
                    THEN <<[chain |-> inc.chain, next |-> inc.next + 1]>> \o inc.stack
                    ELSE inc.stack
    /\ fates' = IF Hit(link) /\ link.action = "run" THEN Append(fates, inc.chain) ELSE fates
Broke == /\ DOMAIN inc' = IncFields /\ inc'.pc = "error" /\ fates' = fates
         /\ \A x \in IncFields \ {"pc"} : inc'[x] = inc[x]
LinkActions == {"jump", "detour", "stop", "defer", "run"}

LEMMA FollowLinkDoes ==
    ASSUME IncOK, FollowLink, Here[inc.next].action \in LinkActions
    PROVE  IF Fails(Here[inc.next], list, inc.m) THEN Broke ELSE Went(Here[inc.next])
<1> DEFINE link == Here[inc.next]
           hit == Matches(link, list, inc.m, inc.d, Seen)
           w == [inc EXCEPT
                   !.next = @ + 1,
                   !.m = Stripped(link, list, @),
                   !.d = Checked(link, list, inc.m, @, Seen),
                   !.strangers = IF link.rule = "nonmember-moderation"
                                 THEN @ \cup Strangers(inc.m, Seen) ELSE @,
                   !.held = @ \/ Holds(link),
                   !.noted = IF Holds(link) /\ NotesAuthor
                             THEN {Head(Senders(inc.m))} ELSE @]
<1>1. IF Fails(link, list, inc.m)
      THEN inc' = [inc EXCEPT !.pc = "error"] /\ fates' = fates
      ELSE /\ inc' = IF hit THEN Followed(w, link) ELSE w
           /\ IF hit /\ link.action = "run" THEN Process(inc.chain)
              ELSE UNCHANGED <<pipeq, sent, fates>>
  BY Zenon DEF FollowLink
<1>2. inc.pc = "link" /\ DOMAIN inc = IncFields
  BY DEF FollowLink, IncOK
<1>3. CASE Fails(link, list, inc.m)
  <2>1. Broke
    BY <1>1, <1>2, <1>3 DEF Broke, IncFields
  <2>. QED BY <1>3, <2>1
<1>4. CASE ~Fails(link, list, inc.m)
  <2>1. /\ DOMAIN w = IncFields
        /\ w.m = Stripped(link, list, inc.m)
        /\ w.d = Checked(link, list, inc.m, inc.d, Seen)
        /\ w.file = inc.file /\ w.pc = "link" /\ w.chain = inc.chain
        /\ w.next = inc.next + 1 /\ w.entries = inc.entries /\ w.stack = inc.stack
        /\ w.strangers = IF link.rule = "nonmember-moderation"
                         THEN inc.strangers \cup Strangers(inc.m, Seen) ELSE inc.strangers
    <3> HIDE DEF link
    <3>. QED BY <1>2 DEF IncFields
  <2>2. /\ inc' = IF hit THEN Followed(w, link) ELSE w
        /\ IF hit /\ link.action = "run" THEN Process(inc.chain) ELSE fates' = fates
    BY <1>1, <1>4
  <2>3. fates' = IF hit /\ link.action = "run" THEN Append(fates, inc.chain) ELSE fates
    BY <2>2 DEF Process
  <2>0. link.action \in LinkActions
    OBVIOUS
  <2> HIDE DEF w, hit, link
  <2>4. CASE ~hit
    <3>1. inc' = w
      BY <2>2, <2>4
    <3>. QED BY <2>1, <2>3, <2>4, <3>1, <1>4 DEF Went, Hit, Jumps, hit, link
  <2>5. CASE hit /\ link.action = "jump"
    <3>1. inc' = Jumped(w, link.chain)
      BY <2>2, <2>5 DEF Followed
    <3>2. /\ DOMAIN inc' = IncFields /\ inc'.m = w.m /\ inc'.d = w.d /\ inc'.file = w.file
          /\ inc'.strangers = w.strangers /\ inc'.pc = w.pc /\ inc'.stack = w.stack
          /\ inc'.chain = link.chain /\ inc'.next = 1
          /\ inc'.entries = IF link.chain = "header-match" THEN db.headers ELSE w.entries
      BY <2>1, <3>1 DEF Jumped, IncFields
    <3>. QED BY <2>1, <2>3, <2>5, <3>2, <1>4 DEF Went, Hit, Jumps, hit, link
  <2>6. CASE hit /\ link.action = "detour"
    <3> DEFINE j == Jumped(w, link.chain)
    <3>1. inc' = [j EXCEPT !.stack = <<[chain |-> w.chain, next |-> w.next]>> \o @]
      BY <2>2, <2>6 DEF Followed
    <3>2. /\ DOMAIN j = IncFields /\ j.m = w.m /\ j.d = w.d /\ j.file = w.file
          /\ j.strangers = w.strangers /\ j.pc = w.pc /\ j.stack = w.stack
          /\ j.chain = link.chain /\ j.next = 1
          /\ j.entries = IF link.chain = "header-match" THEN db.headers ELSE w.entries
      BY <2>1 DEF Jumped, IncFields
    <3> HIDE DEF j
    <3>3. /\ DOMAIN inc' = IncFields /\ inc'.m = w.m /\ inc'.d = w.d /\ inc'.file = w.file
          /\ inc'.strangers = w.strangers /\ inc'.pc = w.pc
          /\ inc'.stack = <<[chain |-> w.chain, next |-> w.next]>> \o w.stack
          /\ inc'.chain = link.chain /\ inc'.next = 1
          /\ inc'.entries = IF link.chain = "header-match" THEN db.headers ELSE w.entries
      BY <3>1, <3>2 DEF IncFields
    <3>. QED BY <2>1, <2>3, <2>6, <3>3, <1>4 DEF Went, Hit, Jumps, hit, link
  <2>7. CASE hit /\ link.action = "stop"
    <3>1. inc' = [w EXCEPT !.pc = "finish"]
      BY <2>2, <2>7 DEF Followed
    <3>2. /\ DOMAIN inc' = IncFields /\ inc'.m = w.m /\ inc'.d = w.d /\ inc'.file = w.file
          /\ inc'.strangers = w.strangers /\ inc'.pc = "finish" /\ inc'.stack = w.stack
          /\ inc'.chain = w.chain /\ inc'.next = w.next /\ inc'.entries = w.entries
      BY <2>1, <3>1 DEF IncFields
    <3>. QED BY <2>1, <2>3, <2>7, <3>2, <1>4 DEF Went, Hit, Jumps, hit, link
  <2>8. CASE hit /\ link.action \in {"defer", "run"}
    <3>1. inc' = w
      BY <2>2, <2>8 DEF Followed
    <3>. QED BY <2>1, <2>3, <2>8, <3>1, <1>4 DEF Went, Hit, Jumps, hit, link
  <2>9. hit => \/ link.action = "jump" \/ link.action = "detour" \/ link.action = "stop"
               \/ link.action \in {"defer", "run"}
    BY <2>0 DEF LinkActions
  <2>. QED BY <2>4, <2>5, <2>6, <2>7, <2>8, <2>9 DEF link
<1>. QED BY <1>3, <1>4

(* Every link that comes next has one of the five actions, and matches     *)
(* always where its rule is "truth".                                       *)
LEMMA LinkTyped ==
    ASSUME IncOK, ChainOK, inc.pc = "link", NEW link, NextLink(link)
    PROVE  link.action \in LinkActions /\ (link.rule = "truth" => Hit(link))
<1>1. link.action \in LinkActions
  <2> USE DEF LinkActions, Link, HeaderLink, SiteLink
  <2>1. CASE inc.chain = "default-posting-chain" /\ link = BuiltInChain[inc.next]
    <3>1. inc.next \in 1 .. 18
      BY <2>1 DEF ChainOK
    <3>2. \A k \in 1 .. 18 : BuiltInChain[k].action \in LinkActions
      BY BuiltIn
    <3>. QED BY <2>1, <3>1, <3>2
  <2>2. CASE ~(inc.chain = "default-posting-chain" /\ link = BuiltInChain[inc.next])
    BY <2>2 DEF NextLink
  <2>. QED BY <2>1, <2>2
<1>2. link.rule = "truth" => Hit(link)
  BY DEF Hit, Matches
<1>. QED BY <1>1, <1>2

--------------------------------------------------------------------------------
(***************************************************************************)
(* A link keeps the posting in the chains, and gives it its fate in the    *)
(* first link of a terminal chain.                                         *)
(***************************************************************************)
Unfated ==
    \/ inc.pc \in {"register", "error"}
    \/ inc.pc = "link" /\ ~(inc.chain \in Terminal /\ inc.next = 2)
Fated ==
    IF inc.pc = "link" /\ inc.chain \in Terminal /\ inc.next = 1
    THEN fates' = Append(fates, inc.chain) /\ Unfated /\ ~Unfated'
    ELSE fates' = fates /\ (Unfated <=> Unfated')

LEMMA SameSenders ==
    ASSUME NEW m, IsMessage(m), NEW link, NEW l
    PROVE  Senders(Stripped(link, l, m)) = Senders(m)
<1> DEFINE n == Stripped(link, l, m)
<1>1. \A x \in DOMAIN Plain \ {"approve"} : n[x] = m[x]
  BY StrippedOK
<1>2. {"from", "envelope", "replyTo", "sender"} \subseteq DOMAIN Plain \ {"approve"}
  BY DEF Plain
<1> HIDE DEF n
<1>3. n.from = m.from /\ n.envelope = m.envelope /\ n.replyTo = m.replyTo /\ n.sender = m.sender
  BY <1>1, <1>2
<1>. QED BY <1>3 DEF Senders, n

LEMMA FollowKeepsTypes ==
    ASSUME TypeOK, FollowLink, Broke \/ \E link : Went(link)
    PROVE  IncOK'
<1>1. IncOK /\ inc.pc = "link" /\ DbOK(db)
  BY DEF FollowLink, TypeOK
<1>2. CASE Broke
  <2>1. inc'.entries = inc.entries /\ inc'.m = inc.m /\ inc'.d = inc.d /\ inc'.file = inc.file
    BY <1>2 DEF Broke, IncFields
  <2>. QED BY <1>1, <1>2, <2>1 DEF IncOK, Broke
<1>3. ASSUME NEW link, Went(link) PROVE IncOK'
  <2>1. IsMessage(inc.m) /\ DOMAIN inc.d = DataFields /\ FileOK(inc.file)
    BY <1>1 DEF IncOK
  <2>2. IsMessage(inc'.m)
    BY <1>3, <2>1, StrippedOK DEF Went
  <2>3. DOMAIN inc'.d = DataFields
    <3>1. CheckedAs(inc'.d, link, list, inc.m, inc.d, Seen)
      BY <1>3, <2>1, CheckedOK DEF Went
    <3>. QED BY <3>1 DEF CheckedAs
  <2>4. inc'.entries \in Seq(HeaderMatch) /\ inc'.pc \in {"finish", "link"}
        /\ inc'.file = inc.file /\ DOMAIN inc' = IncFields
    BY <1>1, <1>3 DEF Went, IncOK, DbOK
  <2>. QED BY <2>1, <2>2, <2>3, <2>4 DEF IncOK
<1>. QED BY <1>2, <1>3

ToTerminal == inc'.pc = "link" /\ inc'.chain \in Terminal /\ inc'.next = 1
Onward ==
    /\ inc'.pc = "link" /\ inc'.chain = inc.chain /\ inc'.next = inc.next + 1
    /\ inc'.stack = inc.stack /\ inc'.entries = inc.entries

LEMMA TerminalNext == ToTerminal => ChainOK' /\ Unfated'
BY DEF ToTerminal, ChainOK, Unfated, Terminal

LEMMA FollowOutside ==
    ASSUME TypeOK, ChainOK, FollowLink, inc.chain \notin Terminal, NEW link, NextLink(link),
           Went(link), ~Fails(link, list, inc.m), ListOK
    PROVE  ChainOK' /\ Fated
<1>0. /\ IncOK /\ inc.pc = "link" /\ DbOK(db) /\ IsMessage(inc.m) /\ DOMAIN inc.d = DataFields
      /\ Unfated
  BY DEF FollowLink, TypeOK, IncOK, Unfated
<1>1. Senders(inc'.m) = Senders(inc.m)
  BY <1>0, SameSenders DEF Went
<1>a. CheckedAs(inc'.d, link, list, inc.m, inc.d, Seen)
  BY <1>0, CheckedOK DEF Went
<1>2. DbOK(Seen)
  <2>1. db.nonmember \in [Addrs -> {"no", "default"}] /\ DOMAIN db = DOMAIN Seen
        /\ Seen.member = db.member /\ Seen.headers = db.headers
        /\ Seen.nonmember = [a \in Addrs |-> IF a \in inc.strangers /\ db.nonmember[a] = "no"
                                              THEN "default" ELSE db.nonmember[a]]
    BY <1>0 DEF Seen, DbOK
  <2> HIDE DEF Seen
  <2>. QED BY <1>0, <2>1 DEF DbOK
<1>3. (link.action # "run" /\ link.action # "stop") => fates' = fates /\ inc'.pc = "link"
  BY DEF Went
<1>4. (link.action # "run" /\ link.action # "stop" /\ ChainOK' /\ Unfated') => ChainOK' /\ Fated
  BY <1>0, <1>3 DEF Fated
<1>5. ASSUME link.action = "jump", Hit(link), link.chain \in Terminal PROVE ChainOK' /\ Fated
  <2>1. ToTerminal
    BY <1>5 DEF ToTerminal, Went, Jumps
  <2>. QED BY <1>4, <1>5, <2>1, TerminalNext
<1>6. ASSUME link.action \in {"jump", "defer"}, link.action = "jump" => ~Hit(link)
      PROVE  Onward /\ Unfated' /\ fates' = fates
  <2>1. Onward
    BY <1>6 DEF Onward, Went, Jumps
  <2>. QED BY <1>3, <1>6, <2>1 DEF Onward, Unfated
<1>7. CASE inc.chain = "default-posting-chain"
  <2>1. /\ link = BuiltInChain[inc.next] /\ inc.next \in 1 .. 18 /\ inc.stack = <<>>
        /\ inc.next > 2 => Senders(inc.m) # <<>>
    BY <1>0, <1>7 DEF NextLink, ChainOK, Terminal
  <2>2. ASSUME Onward, inc.next # 18, inc.next = 2 => ~Hit(link)
        PROVE  ChainOK'
    <3>1. inc'.next \in 1 .. 18 /\ inc'.stack = <<>>
      BY <2>1, <2>2 DEF Onward
    <3>2. inc'.next > 2 => Senders(inc.m) # <<>>
      <4>1. inc.next = 2 => link.rule = "no-senders"
        BY <2>1, BuiltIn DEF Link
      <4>2. link.rule = "no-senders" /\ ~Hit(link) => Senders(inc.m) # <<>>
        BY DEF Hit, Matches, NoSenders
      <4>. QED BY <2>1, <2>2, <4>1, <4>2 DEF Onward
    <3>. QED BY <1>1, <1>7, <2>2, <3>1, <3>2 DEF ChainOK, Onward, Terminal
  <2>3. CASE inc.next = 1
    <3>1. link = Link("dmarc-mitigation", "jump", "dmarc")
      BY <2>1, <2>3, BuiltIn
    <3>2. CASE Hit(link)
      <4>1. inc'.d.dmarcAction = list.dmarcAction
        BY <1>a, <3>1, <3>2 DEF CheckedAs, Hit, Link
      <4>2. list.dmarcAction \in {"reject", "discard"}
        BY <3>1, <3>2 DEF Hit, Matches, DmarcMitigation, Link
      <4>3. inc'.pc = "link" /\ inc'.chain = "dmarc" /\ inc'.next = 1
        BY <3>1, <3>2 DEF Went, Jumps, Link
      <4>4. ChainOK' /\ Unfated'
        BY <4>1, <4>2, <4>3 DEF ChainOK, Terminal, Unfated
      <4>. QED BY <1>4, <3>1, <4>4 DEF Link
    <3>3. CASE ~Hit(link)
      BY <1>4, <1>6, <2>2, <2>3, <3>1, <3>3 DEF Link
    <3>. QED BY <3>2, <3>3
  <2>4. CASE inc.next \in {2, 3, 4, 5, 6, 17, 18}
    <3>1. link.action = "jump" /\ link.chain \in Terminal /\ (inc.next = 18 => link.rule = "truth")
      BY <2>1, <2>4, BuiltIn DEF Link, Terminal
    <3>2. link.rule = "truth" => Hit(link)
      BY DEF Hit, Matches
    <3>. QED BY <1>4, <1>5, <1>6, <2>2, <3>1, <3>2
  <2>5. CASE inc.next = 7 \/ inc.next = 9
    <3>1. /\ link = Link(link.rule, "jump", "moderation")
          /\ link.rule \in {"member-moderation", "nonmember-moderation"}
      BY <2>1, <2>5, BuiltIn DEF Link
    <3>a. link.action = "jump" /\ link.chain = "moderation"
      BY <3>1 DEF Link
    <3>2. CASE Hit(link)
      <4>1. inc'.d.action = IF link.rule = "member-moderation"
                            THEN MemberAction(list, inc.m, Seen)
                            ELSE NonmemberAction(list, inc.m, Seen)
        BY <1>a, <3>1, <3>2 DEF CheckedAs, Hit
      <4>2. inc'.d.action \in Decisions
        <5>1. CASE link.rule = "member-moderation"
          <6>1. MemberModeration(list, inc.m, Seen)
            BY <3>2, <5>1 DEF Hit, Matches
          <6>2. Seen.member \in [Addrs -> {"no", "default"}]
            BY <1>2 DEF DbOK
          <6>3. MemberAction(list, inc.m, Seen) \in Decisions
            BY <1>0, <6>1, <6>2, MemberDecides
          <6>. QED BY <4>1, <5>1, <6>3
        <5>2. CASE link.rule = "nonmember-moderation"
          <6>1. NonmemberModeration(list, inc.m, Seen)
            BY <3>2, <5>2 DEF Hit, Matches
          <6>2. Seen.nonmember \in [Addrs -> {"no", "default"}]
            BY <1>2 DEF DbOK
          <6>3. NonmemberAction(list, inc.m, Seen) \in Decisions
            BY <1>0, <2>1, <2>5, <6>1, <6>2, NonmemberDecides
          <6>. QED BY <4>1, <5>2, <6>3
        <5>. QED BY <3>1, <5>1, <5>2
      <4>3. inc'.pc = "link" /\ inc'.chain = "moderation" /\ inc'.next = 1
        BY <3>a, <3>2 DEF Went, Jumps
      <4>4. ChainOK' /\ Unfated'
        BY <4>2, <4>3 DEF ChainOK, Terminal, Unfated
      <4>. QED BY <1>4, <3>a, <4>4
    <3>3. CASE ~Hit(link)
      BY <1>4, <1>6, <2>2, <2>5, <3>a, <3>3
    <3>. QED BY <3>2, <3>3
  <2>6. CASE inc.next = 8
    <3>1. link = Link("truth", "detour", "header-match")
      BY <2>1, <2>6, BuiltIn
    <3>2. link.action = "detour" /\ link.chain = "header-match" /\ Hit(link)
      BY <3>1 DEF Link, Hit, Matches
    <3>3. /\ inc'.pc = "link" /\ inc'.chain = "header-match" /\ inc'.next = 1
          /\ inc'.entries = db.headers
          /\ inc'.stack = <<[chain |-> "default-posting-chain", next |-> 9]>> \o <<>>
      BY <1>7, <2>1, <2>6, <3>2 DEF Went, Jumps
    <3>4. \A x : <<x>> \o <<>> = <<x>>
      OBVIOUS
    <3>5. inc'.stack = <<[chain |-> "default-posting-chain", next |-> 9]>>
      BY <3>3, <3>4
    <3>6. 1 \in 1 .. (Sites + Len(inc'.entries) + 2)
      <4>1. Sites \in Nat /\ Len(db.headers) \in Nat
        BY <1>0, RulesAssumption DEF Sites, DbOK
      <4>. QED BY <3>3, <4>1
    <3>7. Senders(inc.m) # <<>>
      BY <2>1, <2>6
    <3>8. ChainOK' /\ Unfated'
      BY <1>1, <3>3, <3>5, <3>6, <3>7 DEF ChainOK, Terminal, Unfated
    <3>. QED BY <1>4, <3>2, <3>8
  <2>7. CASE inc.next \in 10 .. 16
    <3>1. link.action = "defer"
      BY <2>1, <2>7, BuiltIn DEF Link
    <3>. QED BY <1>4, <1>6, <2>2, <2>7, <3>1
  <2>. QED BY <2>1, <2>3, <2>4, <2>5, <2>6, <2>7
<1>8. CASE inc.chain = "header-match"
  <2>1. /\ inc.stack = <<[chain |-> "default-posting-chain", next |-> 9]>>
        /\ inc.next \in 1 .. (Sites + Len(inc.entries) + 2) /\ Senders(inc.m) # <<>>
        /\ Sites \in Nat /\ Len(inc.entries) \in Nat
    BY <1>0, <1>8, RulesAssumption DEF ChainOK, Sites, IncOK
  <2>2. ASSUME Onward, inc.next < Sites + Len(inc.entries) + 2 PROVE ChainOK'
    <3>1. inc'.next \in 1 .. (Sites + Len(inc.entries) + 2)
      BY <2>1, <2>2 DEF Onward
    <3>. QED BY <1>1, <1>8, <2>1, <2>2, <3>1 DEF ChainOK, Onward, Terminal
  <2>3. CASE inc.next \in 1 .. Sites /\ link = SiteLink(inc.next)
    <3>1. link.action = "defer"
      BY <2>3 DEF SiteLink, HeaderLink
    <3>2. inc.next < Sites + Len(inc.entries) + 2
      BY <2>1, <2>3
    <3>. QED BY <1>4, <1>6, <2>2, <3>1, <3>2
  <2>4. CASE inc.next = Sites + 1 /\ link = Link("any", "jump", JumpChain)
    <3>1. link.action = "jump" /\ link.chain \in Terminal
      BY <2>4, RulesAssumption DEF Link, Terminal
    <3>2. inc.next < Sites + Len(inc.entries) + 2
      BY <2>1, <2>4
    <3>. QED BY <1>4, <1>5, <1>6, <2>2, <3>1, <3>2
  <2>5. CASE /\ Position \in 1 .. Len(inc.entries)
             /\ link = HeaderLink(RuleOf[Position], "jump", OwnChain(inc.entries[Position]))
    <3> DEFINE e == inc.entries[Position]
    <3>1. link.action = "jump" /\ link.chain = OwnChain(e)
      BY <2>5 DEF HeaderLink
    <3>2. e.chain \in {"none"} \cup Actions
      <4>1. inc.entries \in Seq(HeaderMatch)
        BY <1>0 DEF IncOK
      <4>2. e \in HeaderMatch
        BY <2>5, <4>1
      <4> HIDE DEF e
      <4>. QED BY <4>2 DEF HeaderMatch
    <3>3. link.chain # "defer"
      BY DEF Fails
    <3>4. link.chain \in Terminal
      <4> HIDE DEF e
      <4>. QED BY <3>1, <3>2, <3>3, RulesAssumption DEF OwnChain, Actions, Terminal
    <3>5. inc.next < Sites + Len(inc.entries) + 2
      BY <2>1, <2>5 DEF Position, Sites
    <3>. QED BY <1>4, <1>5, <1>6, <2>2, <3>1, <3>4, <3>5
  <2>. QED BY <1>8, <2>3, <2>4, <2>5 DEF NextLink, Terminal
<1>9. CASE inc.chain = "moderation" \/ inc.chain = "dmarc"
  <2>1. link.rule = "truth" /\ link.action = "jump" /\ link.chain \in Terminal
    BY <1>0, <1>9 DEF NextLink, ChainOK, Terminal, Link, Decisions
  <2>2. Hit(link)
    BY <2>1 DEF Hit, Matches
  <2>. QED BY <1>5, <2>1, <2>2
<1>. QED BY <1>0, <1>7, <1>8, <1>9 DEF ChainOK

LEMMA FollowKeeps ==
    ASSUME TypeOK, ChainOK, FollowLink
    PROVE  /\ IncOK' /\ ChainOK' /\ Fated
           /\ IF Fails(Here[inc.next], list, inc.m) THEN Broke ELSE Went(Here[inc.next])
           /\ NextLink(Here[inc.next])
<1> DEFINE link == Here[inc.next]
<1>1. IncOK /\ inc.pc = "link" /\ ~Exhausted
  BY DEF TypeOK, FollowLink
<1>2. NextLink(link)
  BY <1>1, ExhaustedOnlyThere DEF LinkFound
<1>3. link.action \in LinkActions /\ (link.rule = "truth" => Hit(link))
  <2> HIDE DEF link
  <2>. QED BY <1>1, <1>2, LinkTyped
<1>4. IF Fails(link, list, inc.m) THEN Broke ELSE Went(link)
  BY <1>1, <1>3, FollowLinkDoes
<1> HIDE DEF link
<1>5. IncOK'
  BY <1>4, FollowKeepsTypes
<1>6. ListOK
  BY PostingAssumption DEF TypeOK, ListOK
<1>7. ChainOK' /\ Fated
  <2>1. CASE inc.chain \in Terminal
    <3>1. inc.next \in {1, 2} /\ link = IF inc.next = 1 THEN Link("truth", "run", "none")
                                        ELSE Link("truth", "stop", "none")
      BY <1>1, <1>2, <2>1 DEF NextLink, ChainOK, Terminal
    <3>2. link.rule = "truth" /\ link.chain = "none"
          /\ link.action = IF inc.next = 1 THEN "run" ELSE "stop"
      BY <3>1 DEF Link
    <3>3. Went(link) /\ Hit(link)
      BY <1>3, <1>4, <3>2 DEF Fails
    <3>4. CASE inc.next = 1
      <4>1. inc'.pc = "link" /\ inc'.chain = inc.chain /\ inc'.next = 2
            /\ fates' = Append(fates, inc.chain)
        BY <3>2, <3>3, <3>4 DEF Went, Jumps
      <4>. QED BY <1>1, <2>1, <3>4, <4>1 DEF ChainOK, Terminal, Fated, Unfated
    <3>5. CASE inc.next = 2
      <4>1. inc'.pc = "finish" /\ fates' = fates
        BY <3>2, <3>3, <3>5 DEF Went, Jumps
      <4>. QED BY <1>1, <2>1, <3>5, <4>1 DEF ChainOK, Terminal, Fated, Unfated
    <3>. QED BY <3>1, <3>4, <3>5
  <2>2. CASE inc.chain \notin Terminal /\ Fails(link, list, inc.m)
    <3>1. inc'.pc = "error" /\ fates' = fates
      BY <1>4, <2>2 DEF Broke
    <3>. QED BY <1>1, <2>2, <3>1 DEF ChainOK, Fated, Unfated
  <2>3. CASE inc.chain \notin Terminal /\ ~Fails(link, list, inc.m)
    BY <1>2, <1>4, <1>6, <2>3, FollowOutside
  <2>. QED BY <2>1, <2>2, <2>3
<1>. QED BY <1>2, <1>4, <1>5, <1>7 DEF link

--------------------------------------------------------------------------------
(***************************************************************************)
(* The books: what has met its fate, waits or is on the way.               *)
(***************************************************************************)
Ends == Terminal \cup {"responded"}
Total == Len(fates) + Len(inq) + Count(Unfated)
FateOK ==
    /\ fates \in Seq(Ends)
    /\ Total <= entered + faults + changes
    /\ (faults = 0 /\ changes = 0 /\ shunt = <<>>) => Total = entered

(* Nothing gets lost or comes back; one goes to the shunt queue; or a      *)
(* fault or a change makes up for one that comes back.                     *)
Even ==
    /\ fates' \in Seq(Ends) /\ Total' - entered' = Total - entered
    /\ (shunt' = <<>> /\ changes' = 0) => shunt = <<>>
Aborted == UNCHANGED <<fates, entered>> /\ Total' = Total - 1 /\ shunt' # <<>>
Again ==
    /\ UNCHANGED <<fates, entered>> /\ Total' <= Total + 1
    /\ faults' + changes' = faults + changes + 1

Summed(t, u, e, e1, f, f1, c, c1) ==
    /\ u - e1 = t - e => u <= e1 + f1 + c1 /\ (t = e => u = e1)
    /\ (u = t - 1 /\ e1 = e) => u <= e1 + f1 + c1
    /\ (u <= t + 1 /\ e1 = e /\ f1 + c1 = f + c + 1)
       => u <= e1 + f1 + c1 /\ ~(f1 = 0 /\ c1 = 0)
    /\ (f1 = 0 /\ c1 = 0) => (f = 0 /\ c = 0)
LEMMA Sums ==
    ASSUME NEW t \in Nat, NEW u \in Nat, NEW e \in Nat, NEW e1 \in Nat, NEW f \in Nat,
           NEW f1 \in Nat, NEW c \in Nat, NEW c1 \in Nat,
           f <= f1, c <= c1, t <= e + f + c
    PROVE  Summed(t, u, e, e1, f, f1, c, c1)
BY DEF Summed

LEMMA Balanced ==
    ASSUME Counted, Later, FateOK, Total \in Nat, Total' \in Nat, Even \/ Aborted \/ Again
    PROVE  FateOK'
<1>0. /\ Total <= entered + faults + changes
      /\ (faults = 0 /\ changes = 0 /\ shunt = <<>>) => Total = entered
      /\ fates \in Seq(Ends)
  BY DEF FateOK
<1>1. /\ faults \in Nat /\ changes \in Nat /\ entered \in Nat
      /\ faults' \in Nat /\ changes' \in Nat /\ entered' \in Nat
      /\ faults <= faults' /\ changes <= changes'
  BY DEF Counted, Later
<1>2. Summed(Total, Total', entered, entered', faults, faults', changes, changes')
  BY <1>0, <1>1, Sums
<1>3. CASE Even
  BY <1>0, <1>1, <1>2, <1>3 DEF Even, FateOK, Summed
<1>4. CASE Aborted
  BY <1>0, <1>1, <1>2, <1>4 DEF Aborted, FateOK, Summed
<1>5. CASE Again
  BY <1>0, <1>1, <1>2, <1>5 DEF Again, FateOK, Summed
<1>. QED BY <1>3, <1>4, <1>5

LEMMA Totals ==
    ASSUME TypeOK, FateOK
    PROVE  /\ Total \in Nat /\ Len(fates) \in Nat /\ Len(inq) \in Nat
           /\ Count(Unfated) = IF Unfated THEN 1 ELSE 0
<1>1. Len(fates) \in Nat /\ Len(inq) \in Nat /\ Count(Unfated) = IF Unfated THEN 1 ELSE 0
  <2>1. \E S : inq \in Seq(S)
    BY DEF TypeOK, Files
  <2>. QED BY <2>1 DEF FateOK, Count
<1>. QED BY <1>1 DEF Total

(* Steps that leave the incoming runner and its queue alone.               *)
LEMMA SameTotal ==
    ASSUME TypeOK, FateOK, UNCHANGED <<inc, inq, fates, entered>>
    PROVE  Total' = Total /\ Total \in Nat /\ Total - entered = Total' - entered'
<1>1. Total' = Total
  BY DEF Total, Unfated
<1>. QED BY <1>1, Totals

--------------------------------------------------------------------------------
(***************************************************************************)
(* The other steps of the incoming runner.                                 *)
(***************************************************************************)
Safe == TypeOK /\ ChainOK /\ FateOK

LEMMA SeenOK ==
    ASSUME DbOK(db)
    PROVE  /\ DbOK(Seen) /\ Seen.member = db.member /\ Seen.banned = db.banned
           /\ Seen.headers = db.headers
           /\ inc.strangers = {} => Seen.nonmember = db.nonmember
<1>1. /\ db.nonmember \in [Addrs -> {"no", "default"}] /\ DOMAIN db = DOMAIN Seen
      /\ Seen.member = db.member /\ Seen.headers = db.headers /\ Seen.banned = db.banned
      /\ Seen.nonmember = [a \in Addrs |-> IF a \in inc.strangers /\ db.nonmember[a] = "no"
                                            THEN "default" ELSE db.nonmember[a]]
  BY DEF Seen, DbOK
<1> HIDE DEF Seen
<1>2. DbOK(Seen)
  BY <1>1 DEF DbOK
<1>3. inc.strangers = {} => Seen.nonmember = db.nonmember
  BY <1>1
<1>. QED BY <1>1, <1>2, <1>3

LEMMA TakeInKeeps ==
    ASSUME Counted, Safe, Later, TakeIn, UNCHANGED entrance
    PROVE  Safe'
<1> DEFINE f == Head(inq)
           responds == Replies(f.m, f.d)
           fails == responds /\ Senders(f.m) = <<>>
           discards == ResponseAction(f.d) = "respond_and_discard"
<1>1. /\ inc.pc = "idle" /\ inq # <<>> /\ inq' = Tail(inq)
      /\ inc' = [IdleIn EXCEPT
                        !.pc = IF fails THEN "error"
                               ELSE IF discards THEN "finish" ELSE "register",
                        !.file = f, !.m = f.m, !.d = f.d,
                        !.responded = IF responds /\ ~fails
                                     THEN {Head(Senders(f.m))} ELSE {}]
      /\ fates' = IF discards /\ ~fails THEN Append(fates, "responded") ELSE fates
      /\ asked' = [file |-> f, db |-> db, banned |-> db.banned, changed |-> FALSE]
      /\ UNCHANGED <<list, db, shunt, entered, changes, faults, mail, com>>
  BY DEF TakeIn, bounds, entrance
<1>2. /\ Files(inq) /\ DbOK(db) /\ Shelf(shunt) /\ ComOK /\ fates \in Seq(Ends)
      /\ FileOK([m |-> mail.m, d |-> mail.d])
  BY DEF Safe, TypeOK, FateOK
<1>3. FileOK(f) /\ Files(inq') /\ Len(inq') = Len(inq) - 1
  BY <1>1, <1>2, FilesShrink
<1> HIDE DEF f, fails, discards, responds
<1>4. /\ DOMAIN inc' = IncFields
      /\ inc'.pc = IF fails THEN "error" ELSE IF discards THEN "finish" ELSE "register"
      /\ inc'.file = f /\ inc'.m = f.m /\ inc'.d = f.d
      /\ inc'.stack = <<>> /\ inc'.entries = <<>>
  BY <1>1 DEF IdleIn, IncFields
<1>5. IncOK'
  <2>1. <<>> \in Seq(HeaderMatch)
    OBVIOUS
  <2>2. IsMessage(f.m) /\ DOMAIN f.d = DataFields
    BY <1>3 DEF FileOK
  <2>. QED BY <1>3, <1>4, <2>1, <2>2 DEF IncOK
<1>6. TypeOK'
  <2>1. DOMAIN asked' = {"file", "db", "banned", "changed"} /\ asked'.file = f
    BY <1>1
  <2>2. ComOK' /\ FileOK([m |-> mail.m, d |-> mail.d])'
    BY <1>1, <1>2 DEF ComOK
  <2>3. \E s \in Scenarios : list' = s.list
    BY <1>1 DEF Safe, TypeOK
  <2>. QED BY <1>1, <1>2, <1>3, <1>5, <2>1, <2>2, <2>3 DEF TypeOK
<1>7. ChainOK'
  BY <1>4 DEF ChainOK
<1>8. Even /\ Total \in Nat /\ Total' \in Nat
  <2>1. Total \in Nat /\ Len(fates) \in Nat /\ Len(inq) \in Nat \ {0}
    BY <1>1, <1>2, Totals, FilesShrink DEF Safe
  <2>2. ~Unfated
    BY <1>1 DEF Unfated
  <2>3. Total = Len(fates) + Len(inq)
    BY <2>1, <2>2 DEF Total, Count
  <2>4. CASE discards /\ ~fails
    <3>1. ~Unfated' /\ fates' = Append(fates, "responded")
      BY <1>1, <1>4, <2>4 DEF Unfated
    <3>2. Len(fates') = Len(fates) + 1 /\ fates' \in Seq(Ends)
      <4>1. "responded" \in Ends
        BY DEF Ends
      <4>. QED BY <1>2, <3>1, <4>1
    <3>3. Total' = Len(fates') + Len(inq')
      BY <1>3, <2>1, <3>1, <3>2 DEF Total, Count
    <3>. QED BY <1>1, <1>3, <2>1, <2>3, <3>2, <3>3 DEF Even
  <2>5. CASE ~(discards /\ ~fails)
    <3>1. Unfated' /\ fates' = fates
      BY <1>1, <1>4, <2>5 DEF Unfated
    <3>2. Total' = Len(fates) + Len(inq') + 1
      BY <1>3, <2>1, <3>1 DEF Total, Count
    <3>. QED BY <1>1, <1>2, <1>3, <2>1, <2>3, <3>1, <3>2 DEF Even
  <2>. QED BY <2>4, <2>5
<1>9. FateOK'
  BY <1>8, Balanced DEF Safe
<1>. QED BY <1>6, <1>7, <1>9 DEF Safe

(* The steps between, which give no fate and take nothing.                 *)
LEMMA InStepTypes ==
    ASSUME Safe, UNCHANGED <<list, inq, shunt, asked, mail, com>>, DbOK(db'), IncOK'
    PROVE  TypeOK'
<1>1. ComOK'
  BY DEF Safe, TypeOK, ComOK
<1>. QED BY <1>1 DEF Safe, TypeOK

LEMMA InStepFates ==
    ASSUME Counted, Safe, Later, UNCHANGED <<fates, inq, shunt, entered>>, Unfated <=> Unfated'
    PROVE  FateOK'
<1>1. Total' = Total /\ Total \in Nat
  BY Totals DEF Safe, Total, Count
<1>2. Even
  BY <1>1 DEF Even, Safe, FateOK
<1>. QED BY <1>1, <1>2, Balanced DEF Safe

LEMMA RegisterKeeps ==
    ASSUME Counted, Safe, Later, Register, UNCHANGED entrance
    PROVE  Safe'
<1>1. /\ inc.pc = "register" /\ db' = [db EXCEPT !.responded = @ \cup inc.responded]
      /\ inc' = [inc EXCEPT !.pc = "link", !.responded = {}, !.next = 1,
                            !.chain = IF inc.d.toOwner THEN "default-owner-chain"
                                      ELSE "default-posting-chain",
                            !.d.hits = {}]
      /\ UNCHANGED <<list, inq, shunt, asked, mail, com, fates, entered>>
  BY DEF Register, queues, history, entrance
<1>2. /\ IncOK /\ DbOK(db) /\ DOMAIN inc.d = DataFields /\ IsMessage(inc.m) /\ FileOK(inc.file)
      /\ inc.stack = <<>>
  BY <1>1 DEF Safe, TypeOK, IncOK, ChainOK
<1>3. /\ DOMAIN inc' = IncFields /\ inc'.pc = "link" /\ inc'.next = 1
      /\ inc'.chain = IF inc.d.toOwner THEN "default-owner-chain" ELSE "default-posting-chain"
      /\ inc'.file = inc.file /\ inc'.m = inc.m /\ inc'.stack = inc.stack
      /\ inc'.entries = inc.entries /\ inc'.d = [inc.d EXCEPT !.hits = {}]
  BY <1>1, <1>2 DEF IncOK, IncFields
<1>4. DOMAIN inc'.d = DataFields
  BY <1>2, <1>3
<1>5. IncOK'
  BY <1>2, <1>3, <1>4 DEF IncOK
<1>6. DbOK(db')
  BY <1>1, <1>2 DEF DbOK
<1>7. ChainOK'
  BY <1>2, <1>3 DEF ChainOK, Terminal
<1>8. Unfated /\ Unfated'
  BY <1>1, <1>3 DEF Unfated
<1>. QED BY <1>1, <1>5, <1>6, <1>7, <1>8, InStepTypes, InStepFates DEF Safe

LEMMA FollowLinkKeeps ==
    ASSUME Counted, Safe, Later, FollowLink, UNCHANGED entrance
    PROVE  Safe'
<1>1. inc.pc = "link" /\ UNCHANGED <<list, db, inq, shunt, asked, mail, com, entered>>
  BY DEF FollowLink, entrance
<1>2. IncOK' /\ ChainOK' /\ Fated
  BY FollowKeeps DEF Safe
<1>3. TypeOK'
  BY <1>1, <1>2, InStepTypes DEF Safe, TypeOK
<1>4. CASE ~(inc.chain \in Terminal /\ inc.next = 1)
  BY <1>1, <1>2, <1>3, <1>4, InStepFates DEF Fated, Safe
<1>5. CASE inc.chain \in Terminal /\ inc.next = 1
  <2>1. fates' = Append(fates, inc.chain) /\ Unfated /\ ~Unfated'
    BY <1>1, <1>2, <1>5 DEF Fated
  <2>2. inc.chain \in Ends /\ fates \in Seq(Ends)
    BY <1>5 DEF Ends, Safe, FateOK
  <2>3. Len(fates') = Len(fates) + 1 /\ fates' \in Seq(Ends)
    BY <2>1, <2>2
  <2>4. Total \in Nat /\ Len(fates) \in Nat /\ Len(inq) \in Nat
    BY Totals DEF Safe
  <2>5. Total' = Total
    BY <1>1, <2>1, <2>3, <2>4 DEF Total, Count
  <2>6. Even
    BY <1>1, <2>3, <2>4, <2>5 DEF Even
  <2>. QED BY <1>2, <1>3, <2>4, <2>5, <2>6, Balanced DEF Safe
<1>. QED BY <1>4, <1>5

LEMMA ReturnKeeps ==
    ASSUME Counted, Safe, Later, ReturnOrStop, UNCHANGED entrance
    PROVE  /\ Safe'
           /\ inc.chain = "header-match" /\ inc.next = Sites + Len(inc.entries) + 2
           /\ inc' = Return(inc)
           /\ inc'.chain = "default-posting-chain" /\ inc'.next = 9 /\ inc'.pc = "link"
           /\ \A x \in IncFields \ {"chain", "next", "stack"} : inc'[x] = inc[x]
<1>1. /\ inc.pc = "link" /\ Exhausted /\ UNCHANGED <<list, db, inq, shunt, asked, mail, com>>
      /\ UNCHANGED <<fates, entered>>
      /\ inc' = IF inc.stack = <<>> THEN [inc EXCEPT !.pc = "finish"] ELSE Return(inc)
  BY DEF ReturnOrStop, queues, history, entrance
<1>2. IncOK /\ DbOK(db) /\ inc.chain = "header-match" /\ inc.next = Sites + Len(inc.entries) + 2
  BY <1>1, ExhaustedOnlyThere DEF Safe, TypeOK, LinkFound
<1>3. inc.stack = <<[chain |-> "default-posting-chain", next |-> 9]>> /\ Senders(inc.m) # <<>>
  BY <1>1, <1>2 DEF Safe, ChainOK
<1>4. \A x : <<x>> # <<>> /\ Head(<<x>>) = x /\ Tail(<<x>>) = <<>>
  OBVIOUS
<1>5. /\ inc' = Return(inc) /\ Tail(inc.stack) = <<>>
      /\ Head(inc.stack) = [chain |-> "default-posting-chain", next |-> 9]
  BY <1>1, <1>3, <1>4
<1>6. /\ DOMAIN inc' = IncFields /\ inc'.chain = "default-posting-chain" /\ inc'.next = 9
      /\ inc'.stack = <<>>
      /\ \A x \in IncFields \ {"chain", "next", "stack"} : inc'[x] = inc[x]
  <2>1. DOMAIN inc = IncFields
    BY <1>2 DEF IncOK
  <2>2. Head(inc.stack).chain = "default-posting-chain" /\ Head(inc.stack).next = 9
    BY <1>5
  <2> DEFINE c == Head(inc.stack).chain  n == Head(inc.stack).next  t == Tail(inc.stack)
  <2>3. inc' = [inc EXCEPT !.chain = c, !.next = n, !.stack = t]
    BY <1>5 DEF Return
  <2> HIDE DEF c, n, t
  <2>4. {"chain", "next", "stack"} \subseteq IncFields
    BY DEF IncFields
  <2>5. /\ DOMAIN inc' = IncFields /\ inc'.chain = c /\ inc'.next = n /\ inc'.stack = t
        /\ \A x \in IncFields \ {"chain", "next", "stack"} : inc'[x] = inc[x]
    BY <2>1, <2>3, <2>4
  <2>. QED BY <1>5, <2>2, <2>5 DEF c, n, t
<1>7. /\ inc'.pc = "link" /\ inc'.file = inc.file /\ inc'.m = inc.m /\ inc'.d = inc.d
      /\ inc'.entries = inc.entries
  BY <1>1, <1>6 DEF IncFields
<1>8. IncOK'
  BY <1>1, <1>2, <1>6, <1>7 DEF IncOK
<1>9. ChainOK'
  BY <1>3, <1>6, <1>7 DEF ChainOK, Terminal
<1>10. Unfated /\ Unfated'
  BY <1>1, <1>2, <1>6, <1>7 DEF Unfated, Terminal
<1>. QED BY <1>1, <1>2, <1>5, <1>6, <1>7, <1>8, <1>9, <1>10, InStepTypes, InStepFates DEF Safe

LEMMA FinishKeeps ==
    ASSUME Counted, Safe, Later, FinishIn, UNCHANGED entrance
    PROVE  Safe'
<1>1. /\ inc.pc = "finish" /\ inc' = [inc EXCEPT !.pc = "commit", !.file = NoFile]
      /\ UNCHANGED <<list, db, inq, shunt, asked, mail, com, fates, entered>>
  BY DEF FinishIn, queues, history, entrance
<1>2. IncOK /\ DbOK(db)
  BY DEF Safe, TypeOK
<1>3. /\ DOMAIN inc' = IncFields /\ inc'.pc = "commit" /\ inc'.file = NoFile
      /\ inc'.m = inc.m /\ inc'.d = inc.d /\ inc'.entries = inc.entries
  BY <1>1, <1>2 DEF IncOK, IncFields
<1>4. IncOK'
  BY <1>1, <1>2, <1>3 DEF IncOK
<1>5. ChainOK' /\ ~Unfated /\ ~Unfated'
  BY <1>1, <1>3 DEF ChainOK, Unfated
<1>. QED BY <1>1, <1>2, <1>4, <1>5, InStepTypes, InStepFates DEF Safe

LEMMA Idle == inc' = IdleIn => IncOK' /\ ChainOK' /\ ~Unfated'
<1> SUFFICES ASSUME inc' = IdleIn PROVE IncOK' /\ ChainOK' /\ ~Unfated'
  OBVIOUS
<1>1. inc'.pc = "idle" /\ inc'.entries = <<>> /\ DOMAIN inc' = IncFields
  BY DEF IdleIn, IncFields
<1>2. <<>> \in Seq(HeaderMatch)
  OBVIOUS
<1>. QED BY <1>1, <1>2 DEF IncOK, ChainOK, Unfated

LEMMA CommitInKeeps ==
    ASSUME Counted, Safe, Later, CommitIn, UNCHANGED entrance
    PROVE  Safe'
<1>1. /\ inc.pc = "commit" /\ inc' = IdleIn
      /\ db' = [Seen EXCEPT !.responded = @ \cup inc.responded,
                            !.notes = [a \in Addrs |-> @[a] + Count(a \in inc.noted)],
                            !.held = @ + Count(inc.held)]
      /\ UNCHANGED <<list, inq, shunt, asked, mail, com, fates, entered>>
  BY DEF CommitIn, queues, history, entrance
<1>2. DbOK(db')
  <2>1. DbOK(Seen)
    BY SeenOK DEF Safe, TypeOK
  <2> HIDE DEF Seen
  <2>. QED BY <1>1, <2>1 DEF DbOK
<1>3. IncOK' /\ ChainOK' /\ ~Unfated'
  BY <1>1, Idle
<1>4. ~Unfated
  BY <1>1 DEF Unfated
<1>. QED BY <1>1, <1>2, <1>3, <1>4, InStepTypes, InStepFates DEF Safe

LEMMA ShuntInKeeps ==
    ASSUME Counted, Safe, Later, ShuntIn, UNCHANGED entrance
    PROVE  Safe'
<1>1. /\ inc.pc = "error" /\ inc' = IdleIn
      /\ shunt' = Append(shunt, [m |-> inc.m, d |-> inc.d, whichq |-> "in"])
      /\ UNCHANGED <<list, db, inq, asked, mail, com, fates, entered>>
  BY DEF ShuntIn, history, entrance, Shunted
<1>2. FileOK([m |-> inc.m, d |-> inc.d]) /\ Shelf(shunt)
  BY <1>1 DEF Safe, TypeOK, IncOK, FileOK
<1>3. Shelf(shunt') /\ shunt' # <<>>
  BY <1>1, <1>2, ShelfGrow
<1>4. IncOK' /\ ChainOK' /\ ~Unfated'
  BY <1>1, Idle
<1>5. TypeOK'
  <2>1. ComOK'
    BY <1>1 DEF Safe, TypeOK, ComOK
  <2>. QED BY <1>1, <1>3, <1>4, <2>1 DEF Safe, TypeOK
<1>6. Aborted /\ Total \in Nat /\ Total' \in Nat
  <2>1. Unfated
    BY <1>1 DEF Unfated
  <2>2. Total \in Nat /\ Len(fates) \in Nat /\ Len(inq) \in Nat
    BY Totals DEF Safe
  <2>3. Total = Len(fates) + Len(inq) + 1 /\ Total' = Len(fates) + Len(inq)
    BY <1>1, <1>4, <2>1, <2>2 DEF Total, Count
  <2>. QED BY <1>1, <1>3, <2>2, <2>3 DEF Aborted
<1>. QED BY <1>4, <1>5, <1>6, Balanced DEF Safe

LEMMA CrashInKeeps ==
    ASSUME Counted, Safe, Later, CrashIn, UNCHANGED entrance
    PROVE  Safe'
<1>1. /\ inc.pc # "idle" /\ inc' = IdleIn /\ inq' = Recovered(inc, inq)
      /\ faults' = faults + 1 /\ changes' = changes
      /\ UNCHANGED <<list, db, shunt, asked, mail, com, fates, entered>>
  BY DEF CrashIn, Fault, history, entrance
<1>2. Files(inq) /\ IncOK
  BY DEF Safe, TypeOK
<1>3. Files(inq') /\ Len(inq') <= Len(inq) + 1 /\ Len(inq') \in Nat
  <2>1. CASE inc.pc = "commit"
    <3>1. inq' = <<>> \o inq
      BY <1>1, <1>2, <2>1 DEF Recovered, IncOK
    <3>2. inq' = inq /\ Len(inq) \in Nat
      BY <1>2, <3>1 DEF Files
    <3>. QED BY <1>2, <3>2
  <2>2. CASE inc.pc # "commit"
    <3>1. FileOK(inc.file)
      BY <1>1, <1>2, <2>2 DEF IncOK
    <3>2. inc.file # NoFile
      <4>1. DOMAIN NoFile = {}
        BY DEF NoFile
      <4>. QED BY <3>1, <4>1 DEF FileOK
    <3>3. inq' = <<inc.file>> \o inq
      BY <1>1, <3>2 DEF Recovered
    <3>. QED BY <1>2, <3>1, <3>3, FilesBack
  <2>. QED BY <2>1, <2>2
<1>4. IncOK' /\ ChainOK' /\ ~Unfated'
  BY <1>1, Idle
<1>5. TypeOK'
  <2>1. ComOK'
    BY <1>1 DEF Safe, TypeOK, ComOK
  <2>. QED BY <1>1, <1>3, <1>4, <2>1 DEF Safe, TypeOK
<1>6. Again /\ Total \in Nat /\ Total' \in Nat
  <2>2. Total \in Nat /\ Len(fates) \in Nat /\ Len(inq) \in Nat
    BY Totals DEF Safe
  <2>3. Total >= Len(fates) + Len(inq)
    BY <2>2 DEF Total, Count
  <2>4. Total' = Len(fates) + Len(inq')
    BY <1>1, <1>3, <1>4, <2>2 DEF Total, Count
  <2>5. faults' + changes' = faults + changes + 1
    BY <1>1 DEF Counted
  <2>. QED BY <1>1, <1>3, <2>2, <2>3, <2>4, <2>5 DEF Again
<1>. QED BY <1>4, <1>5, <1>6, Balanced DEF Safe

--------------------------------------------------------------------------------
(***************************************************************************)
(* The steps of all others.                                                *)
(***************************************************************************)
AskedOK == DOMAIN asked = {"file", "db", "banned", "changed"}
           /\ (asked.file = NoFile \/ FileOK(asked.file))
LetterOK == FileOK([m |-> mail.m, d |-> mail.d])

LEMMA AsideKeeps ==
    ASSUME Counted, Safe, Later, UNCHANGED <<list, inc, inq, fates, entered>>,
           DbOK(db'), Shelf(shunt'), ComOK', LetterOK', AskedOK',
           (shunt' = <<>> /\ changes' = 0) => shunt = <<>>
    PROVE  Safe'
<1>1. TypeOK' /\ ChainOK'
  BY DEF Safe, TypeOK, ChainOK, IncOK, LetterOK, AskedOK
<1>2. Even /\ Total \in Nat /\ Total' \in Nat
  BY SameTotal DEF Safe, Even, FateOK
<1>. QED BY <1>1, <1>2, Balanced DEF Safe

LEMMA SafeParts ==
    ASSUME Safe
    PROVE  DbOK(db) /\ Shelf(shunt) /\ ComOK /\ LetterOK /\ AskedOK /\ Files(inq)
BY DEF Safe, TypeOK, LetterOK, AskedOK

LEMMA PipelineKeeps ==
    ASSUME Counted, Safe, Later, RunPip \/ CrashPip \/ FailPip, UNCHANGED entrance
    PROVE  Safe'
<1>1. /\ UNCHANGED <<list, inc, inq, fates, entered, asked, changes, mail, com>>
      /\ \/ db' = db /\ shunt' = shunt
         \/ db' = [db EXCEPT !.posts = pip.posts] /\ shunt' = shunt
         \/ db' = db /\ shunt' = Append(shunt, [m |-> pip.m, d |-> pip.d, whichq |-> "pipeline"])
  <2> USE DEF entrance, history, queues, bounds
  <2>1. CASE TakePip \/ FinishPip
    BY <2>1 DEF TakePip, FinishPip
  <2>2. CASE Handle
    BY <2>2 DEF Handle
  <2>3. CASE CommitPip
    BY <2>3 DEF CommitPip
  <2>4. CASE ShuntPip
    BY <2>4 DEF ShuntPip, Shunted
  <2>5. CASE CrashPip \/ FailPip
    BY <2>5 DEF CrashPip, FailPip
  <2>. QED BY <2>1, <2>2, <2>3, <2>4, <2>5 DEF RunPip
<1>2. DbOK(db')
  BY <1>1, SafeParts DEF DbOK
<1>3. Shelf(shunt') /\ (shunt' = <<>> => shunt = <<>>)
  <2> DEFINE e == [m |-> pip.m, d |-> pip.d, whichq |-> "pipeline"]
  <2>1. e.whichq # "in"
    OBVIOUS
  <2> HIDE DEF e
  <2>2. Shelf(Append(shunt, e)) /\ Append(shunt, e) # <<>>
    BY <2>1, SafeParts, ShelfGrow
  <2>. QED BY <1>1, <2>2, SafeParts DEF e
<1>4. ComOK' /\ LetterOK' /\ AskedOK'
  BY <1>1, SafeParts DEF ComOK, LetterOK, AskedOK
<1>. QED BY <1>1, <1>2, <1>3, <1>4, AsideKeeps

(* What people may make of the database.                                   *)
Changed(new) ==
    \/ \E a \in Bans : \/ new = [db EXCEPT !.banned = @ \cup {a}]
                       \/ new = [db EXCEPT !.banned = @ \ {a}]
    \/ \E a \in Joiners : \/ new = [db EXCEPT !.member[a] = "default"]
                          \/ new = [db EXCEPT !.member[a] = "no"]
    \/ \E h \in HeaderMatches : new = [db EXCEPT !.headers = h]

LEMMA ChangeCases ==
    ASSUME People
    PROVE  Unshunt \/ Repost \/ \E new : Changed(new) /\ Change(new)
BY DEF People, Changed, Ban, Unban, Join, Leave, SetHeaderMatches

LEMMA ChangedOK ==
    ASSUME DbOK(db), NEW new, Changed(new)
    PROVE  DbOK(new)
<1>1. CASE \E a \in Bans : \/ new = [db EXCEPT !.banned = @ \cup {a}]
                           \/ new = [db EXCEPT !.banned = @ \ {a}]
  BY <1>1 DEF DbOK
<1>2. ASSUME NEW a \in Joiners, NEW v \in {"no", "default"}, new = [db EXCEPT !.member[a] = v]
      PROVE  DbOK(new)
  <2>1. a \in Addrs
    BY PostingAssumption
  <2>2. /\ DOMAIN new = DOMAIN db /\ new.member = [db.member EXCEPT ![a] = v]
        /\ new.nonmember = db.nonmember /\ new.headers = db.headers
    BY <1>2 DEF DbOK
  <2>3. new.member \in [Addrs -> {"no", "default"}]
    BY <2>1, <2>2 DEF DbOK
  <2>. QED BY <2>2, <2>3 DEF DbOK
<1>3. CASE \E h \in HeaderMatches : new = [db EXCEPT !.headers = h]
  BY <1>3, PostingAssumption DEF DbOK
<1>. QED BY <1>1, <1>2, <1>3 DEF Changed

LEMMA ChangeKeeps ==
    ASSUME Counted, Safe, Later, NEW new, Changed(new), Change(new), UNCHANGED entrance
    PROVE  Safe'
<1>1. /\ UNCHANGED <<list, inc, inq, shunt, fates, entered, mail, com>> /\ db' = new
      /\ asked' = [asked EXCEPT !.changed = TRUE, !.banned = @ \cap new.banned]
  BY DEF Change, queues, entrance
<1>2. DbOK(db')
  BY <1>1, SafeParts, ChangedOK
<1>3. AskedOK'
  <2>1. DOMAIN asked' = DOMAIN asked /\ asked'.file = asked.file
    BY <1>1, SafeParts DEF AskedOK
  <2>. QED BY <2>1, SafeParts DEF AskedOK
<1>4. Shelf(shunt') /\ ComOK' /\ LetterOK'
  BY <1>1, SafeParts DEF ComOK, LetterOK
<1>. QED BY <1>1, <1>2, <1>3, <1>4, AsideKeeps

LEMMA UnshuntKeeps ==
    ASSUME Counted, Safe, Later, Unshunt, UNCHANGED entrance
    PROVE  Safe'
<1> DEFINE e == Head(shunt)  f == [m |-> e.m, d |-> e.d]
<1>1. /\ UNCHANGED <<list, db, inc, fates, entered, asked, faults, mail, com>>
      /\ shunt # <<>> /\ shunt' = Tail(shunt) /\ changes' = changes + 1
      /\ inq' = IF e.whichq = "in" THEN Append(inq, f) ELSE inq
  BY DEF Unshunt, history, entrance
<1>2. Shelf(shunt') /\ (e.whichq = "in" => FileOK(f))
  BY <1>1, SafeParts, ShelfShrink
<1> HIDE DEF f, e
<1>3. Files(inq') /\ Len(inq') <= Len(inq) + 1 /\ Len(inq') \in Nat /\ Len(inq) \in Nat
  <2>1. Len(inq) \in Nat
    BY Totals DEF Safe
  <2>2. CASE e.whichq = "in"
    <3>1. Files(inq') /\ Len(inq') = Len(inq) + 1
      BY <1>1, <1>2, <2>2, SafeParts, FilesGrow
    <3>. QED BY <2>1, <3>1
  <2>3. CASE e.whichq # "in"
    BY <1>1, <2>1, <2>3, SafeParts
  <2>. QED BY <2>2, <2>3
<1>4. TypeOK' /\ ChainOK'
  <2>1. ComOK' /\ IncOK' /\ ChainOK'
    BY <1>1 DEF Safe, TypeOK, ComOK, ChainOK, IncOK
  <2>. QED BY <1>1, <1>2, <1>3, <2>1 DEF Safe, TypeOK
<1>5. Again /\ Total \in Nat /\ Total' \in Nat
  <2>1. Total \in Nat /\ Len(fates) \in Nat /\ Count(Unfated) \in Nat
    BY Totals DEF Safe
  <2>2. Unfated' <=> Unfated
    BY <1>1 DEF Unfated
  <2>3. Total' = Len(fates) + Len(inq') + Count(Unfated)
    BY <1>1, <2>2 DEF Total, Count
  <2>4. faults' + changes' = faults + changes + 1
    BY <1>1 DEF Counted
  <2>. QED BY <1>1, <1>3, <2>1, <2>3, <2>4 DEF Again, Total
<1>. QED BY <1>4, <1>5, Balanced DEF Safe

LEMMA RepostKeeps ==
    ASSUME Counted, Safe, Later, Repost, UNCHANGED entrance
    PROVE  Safe'
<1>1. /\ UNCHANGED <<list, db, inc, shunt, asked, mail, com>>
      /\ inc.pc = "idle" /\ asked.file # NoFile /\ inq' = <<asked.file>>
      /\ entered' = 1 /\ fates' = <<>>
  BY DEF Repost, Quiet, entrance
<1>2. Files(inq') /\ Len(inq') = 1
  BY <1>1, SafeParts, FileAlone DEF AskedOK
<1>3. TypeOK' /\ ChainOK'
  <2>1. ComOK' /\ IncOK' /\ ChainOK'
    BY <1>1 DEF Safe, TypeOK, ComOK, ChainOK, IncOK
  <2>. QED BY <1>1, <1>2, <2>1 DEF Safe, TypeOK
<1>4. FateOK'
  <2>1. ~Unfated'
    BY <1>1 DEF Unfated
  <2>2. Len(<<>>) = 0 /\ <<>> \in Seq(Ends)
    OBVIOUS
  <2>3. Total' = 1
    BY <1>1, <1>2, <2>1, <2>2 DEF Total, Count
  <2>4. \A f, c \in Nat : 1 <= 1 + f + c
    OBVIOUS
  <2>5. Total' <= entered' + faults' + changes' /\ Total' = entered'
    <3>1. 1 <= 1 + faults' + changes'
      BY <2>4 DEF Later
    <3>. QED BY <1>1, <2>3, <3>1
  <2>. QED BY <1>1, <2>2, <2>5 DEF FateOK
<1>. QED BY <1>3, <1>4 DEF Safe


(* The LMTP runner puts the letter into a queue, with new notes.           *)
LEMMA DeliverKeeps ==
    ASSUME Counted, Safe, Later, Deliver
    PROVE  Safe'
<1> DEFINE sub == Recipient.sub
           queue == IF Recipient.list = ThisList THEN SubaddressQueue(sub) ELSE "elsewhere"
           file == [m |-> mail.m,
                    d |-> [mail.d EXCEPT !.subaddress = sub, !.toOwner = sub = "owner"]]
<1>1. /\ UNCHANGED <<list, db, inc, shunt, fates, asked, mail, com, faults, changes>>
      /\ inq' = IF queue = "in" THEN Append(inq, file) ELSE inq
      /\ entered' = entered + Count(queue = "in")
  BY DEF Deliver, bounds
<1>2. FileOK(file)
  <2>1. IsMessage(mail.m) /\ DOMAIN mail.d = DataFields
    BY SafeParts DEF LetterOK, FileOK
  <2>. QED BY <2>1 DEF FileOK
<1> HIDE DEF queue, file
<1>3. Files(inq') /\ Len(inq') = Len(inq) + Count(queue = "in") /\ Len(inq) \in Nat
  <2>1. Len(inq) \in Nat
    BY Totals DEF Safe
  <2>2. CASE queue = "in"
    <3>1. Files(inq') /\ Len(inq') = Len(inq) + 1
      BY <1>1, <1>2, <2>2, SafeParts, FilesGrow
    <3>. QED BY <2>1, <2>2, <3>1 DEF Count
  <2>3. CASE queue # "in"
    BY <1>1, <2>1, <2>3, SafeParts DEF Count
  <2>. QED BY <2>2, <2>3
<1>4. TypeOK' /\ ChainOK'
  <2>1. ComOK' /\ IncOK' /\ ChainOK'
    BY <1>1 DEF Safe, TypeOK, ComOK, ChainOK, IncOK
  <2>. QED BY <1>1, <1>3, <2>1 DEF Safe, TypeOK
<1>5. Even /\ Total \in Nat /\ Total' \in Nat
  <2>1. Total \in Nat /\ Len(fates) \in Nat /\ Count(Unfated) \in Nat /\ Count(queue = "in") \in Nat
    BY Totals DEF Safe, Count
  <2>2. Unfated' <=> Unfated
    BY <1>1 DEF Unfated
  <2>3. Total' = Len(fates) + Len(inq') + Count(Unfated)
    BY <1>1, <2>2 DEF Total, Count
  <2>4. Total = Len(fates) + Len(inq) + Count(Unfated)
    BY DEF Total
  <2>5. Total' = Total + Count(queue = "in")
    BY <1>3, <2>1, <2>3, <2>4
  <2>6. Total' - entered' = Total - entered
    BY <1>1, <2>1, <2>5 DEF Counted
  <2>. QED BY <1>1, <2>1, <2>5, <2>6 DEF Even, Safe, FateOK
<1>. QED BY <1>4, <1>5, Balanced DEF Safe

(* The command runner: what is to become of members is "no" or "default".  *)
WorkOK(w) ==
    /\ DOMAIN w = {"pc", "file", "m", "d", "lines", "answers", "joins", "confirms",
                   "changed", "pended", "settled", "responded"}
    /\ \A a \in DOMAIN w.changed : w.changed[a] \in {"no", "default"}

LEMMA WorkGoesOn ==
    ASSUME NEW w, WorkOK(w)
    PROVE  WorkOK(GoOn(w)) /\ WorkOK(Stop(w)) /\ WorkOK(Break(w))
BY DEF WorkOK, GoOn, Stop, Break

LEMMA WorkBecomes ==
    ASSUME NEW w, WorkOK(w), NEW a, NEW v \in {"no", "default"}
    PROVE  WorkOK(Becomes(w, a, v))
<1> DEFINE f == w.changed
           g == [x \in {a} \cup DOMAIN f |-> IF x = a THEN v ELSE f[x]]
<1>1. Becomes(w, a, v) = [w EXCEPT !.changed = g]
  BY DEF Becomes
<1>2. \A x \in DOMAIN g : g[x] \in {"no", "default"}
  BY DEF WorkOK
<1> HIDE DEF g
<1>3. DOMAIN Becomes(w, a, v) = DOMAIN w /\ Becomes(w, a, v).changed = g
  BY <1>1 DEF WorkOK
<1>. QED BY <1>2, <1>3 DEF WorkOK

LEMMA DidKeeps ==
    ASSUME Counted, Safe, Later, NEW w, NEW n, WorkOK(w), Did(w, n)
    PROVE  Safe'
<1>1. /\ UNCHANGED <<list, db, inc, inq, shunt, fates, entered, asked, mail, changes>>
      /\ com' = w
  BY DEF Did, queues, history, bounds
<1>2. ComOK' /\ LetterOK' /\ AskedOK' /\ DbOK(db') /\ Shelf(shunt')
  BY <1>1, SafeParts DEF ComOK, WorkOK, LetterOK, AskedOK
<1>. QED BY <1>1, <1>2, AsideKeeps

LEMMA CommandDoes ==
    ASSUME ComOK, JoinCommand \/ LeaveCommand \/ ConfirmCommand \/ EndCommand \/ OtherCommand
    PROVE  \E w, n : WorkOK(w) /\ Did(w, n)
<1>0. WorkOK(com)
  BY DEF ComOK, WorkOK
<1>1. CASE JoinCommand
  <2> DEFINE a == Sender
             asked1 == [com EXCEPT !.joins = @ \cup {a}]
             asked2 == [asked1 EXCEPT !.pended = @ \cup {Request("join", a)}]
  <2>1. WorkOK(asked1)
    BY <1>0 DEF WorkOK
  <2> HIDE DEF asked1
  <2>2. WorkOK(asked2)
    BY <2>1 DEF WorkOK
  <2> HIDE DEF asked2
  <2>3. /\ WorkOK(Stop(com)) /\ WorkOK(GoOn(com)) /\ WorkOK(GoOn(asked1)) /\ WorkOK(Break(asked1))
        /\ WorkOK(GoOn(Becomes(asked1, a, "default"))) /\ WorkOK(GoOn(asked2))
    BY <1>0, <2>1, <2>2, WorkGoesOn, WorkBecomes
  <2>4. \/ Did(Stop(com), 0) \/ Did(GoOn(com), 0) \/ Did(GoOn(asked1), 0)
        \/ Did(Break(asked1), 0) \/ Did(GoOn(Becomes(asked1, a, "default")), 1)
        \/ Did(GoOn(asked2), 1)
    BY <1>1, Zenon DEF JoinCommand, asked1, asked2
  <2>. QED BY <2>3, <2>4
<1>2. CASE LeaveCommand
  <2> DEFINE a == Sender
             left == [com EXCEPT !.d.leaves = @ \cup {a}]
             left2(x) == [left EXCEPT !.pended = @ \cup {Request("leave", x)}]
  <2>1. WorkOK(left)
    BY <1>0 DEF WorkOK
  <2> HIDE DEF left
  <2>2. \A x : WorkOK(left2(x))
    BY <2>1 DEF WorkOK
  <2> HIDE DEF left2
  <2>3. /\ WorkOK(Stop(com)) /\ WorkOK(GoOn(com))
        /\ \A x : WorkOK(GoOn(Becomes(left, x, "no"))) /\ WorkOK(GoOn(left2(x)))
    BY <1>0, <2>1, <2>2, WorkGoesOn, WorkBecomes
  <2>4. \/ Did(Stop(com), 0) \/ Did(GoOn(com), 0)
        \/ \E x : Did(GoOn(Becomes(left, x, "no")), 1) \/ Did(GoOn(left2(x)), 1)
    BY <1>2, Zenon DEF LeaveCommand, left, left2
  <2>. QED BY <2>3, <2>4
<1>3. CASE ConfirmCommand
  <2> DEFINE t == Line.arg
             stopped == Stop(com)
             done == [stopped EXCEPT !.settled = @ \cup {t}, !.pended = @ \ {t}]
  <2>1. WorkOK(stopped) /\ WorkOK(Break(com))
    BY <1>0, WorkGoesOn
  <2> HIDE DEF stopped
  <2>2. WorkOK(done)
    BY <2>1 DEF WorkOK
  <2> HIDE DEF done
  <2>3. \A v \in {"no", "default"} : WorkOK(Becomes(done, t.who, v))
    BY <2>2, WorkBecomes
  <2>4. \/ Did(stopped, 0) \/ Did(Break(com), 0)
        \/ Did(Becomes(done, t.who, IF t.kind = "join" THEN "default" ELSE "no"),
               Count(t.kind = "join" \/ MemberNow(t.who)))
    BY <1>3, Zenon DEF ConfirmCommand, stopped, done
  <2>5. (IF t.kind = "join" THEN "default" ELSE "no") \in {"no", "default"}
    OBVIOUS
  <2>. QED BY <2>1, <2>3, <2>4, <2>5
<1>4. CASE EndCommand \/ OtherCommand
  BY <1>0, <1>4, WorkGoesOn DEF EndCommand, OtherCommand
<1>. QED BY <1>1, <1>2, <1>3, <1>4

LEMMA CommitComKeeps ==
    ASSUME Counted, Safe, Later, CommitCom
    PROVE  Safe'
<1>1. /\ UNCHANGED <<list, inc, inq, shunt, fates, entered, mail, changes>>
      /\ db' = [db EXCEPT !.member = [a \in Addrs |->
                              IF a \in DOMAIN com.changed THEN com.changed[a] ELSE @[a]],
                        !.pended = (@ \cup com.pended) \ com.settled,
                        !.responded = @ \cup com.responded]
      /\ com' = IdleCom /\ asked' = [asked EXCEPT !.changed = TRUE]
  BY DEF CommitCom, queues, bounds
<1>2. DbOK(db')
  <2>1. DbOK(db) /\ \A a \in DOMAIN com.changed : com.changed[a] \in {"no", "default"}
    BY SafeParts DEF ComOK
  <2> DEFINE new == [a \in Addrs |-> IF a \in DOMAIN com.changed THEN com.changed[a]
                                     ELSE db.member[a]]
  <2>2. new \in [Addrs -> {"no", "default"}]
    BY <2>1 DEF DbOK
  <2>3. /\ DOMAIN db' = DOMAIN db /\ db'.member = new /\ db'.nonmember = db.nonmember
        /\ db'.headers = db.headers
    BY <1>1, <2>1 DEF DbOK
  <2> HIDE DEF new
  <2>. QED BY <2>1, <2>2, <2>3 DEF DbOK
<1>3. ComOK'
  <2>1. DOMAIN <<>> = {}
    OBVIOUS
  <2>. QED BY <1>1, <2>1 DEF IdleCom, ComOK
<1>4. AskedOK'
  <2>1. DOMAIN asked' = DOMAIN asked /\ asked'.file = asked.file
    BY <1>1, SafeParts DEF AskedOK
  <2>. QED BY <2>1, SafeParts DEF AskedOK
<1>5. Shelf(shunt') /\ LetterOK'
  BY <1>1, SafeParts DEF LetterOK
<1>. QED BY <1>1, <1>2, <1>3, <1>4, <1>5, AsideKeeps

LEMMA CommandsKeep ==
    ASSUME Counted, Safe, Later, RunCom \/ CrashCom \/ UnshuntCommand
    PROVE  Safe'
<1>1. CASE JoinCommand \/ LeaveCommand \/ ConfirmCommand \/ EndCommand \/ OtherCommand
  <2>1. PICK w, n : WorkOK(w) /\ Did(w, n)
    BY <1>1, SafeParts, CommandDoes
  <2>. QED BY <2>1, DidKeeps
<1>2. CASE CommitCom
  BY <1>2, CommitComKeeps
<1>3. CASE TakeCom \/ SendResults \/ FinishCom \/ ShuntCom \/ CrashCom \/ UnshuntCommand
  <2>0. DOMAIN <<>> = {}
    OBVIOUS
  <2>1. /\ UNCHANGED <<list, db, inc, inq, fates, entered, asked, mail>>
    <3>1. TakeCom \/ SendResults \/ ShuntCom => UNCHANGED <<list, db, inc, inq, fates, entered, asked, mail>>
      BY DEF TakeCom, SendResults, ShuntCom, queues, history
    <3>2. CrashCom \/ UnshuntCommand => UNCHANGED <<list, db, inc, inq, fates, entered, asked, mail>>
      BY DEF CrashCom, UnshuntCommand, queues, history
    <3>3. FinishCom => UNCHANGED <<list, db, inc, inq, fates, entered, asked, mail>>
      BY DEF FinishCom, vars, queues, history
    <3>. QED BY <1>3, <3>1, <3>2, <3>3
  <2>2. ComOK'
    <3>1. TakeCom => com'.changed = <<>> /\ DOMAIN com' = DOMAIN IdleCom
      BY DEF TakeCom, IdleCom
    <3>2. SendResults \/ FinishCom => com'.changed = com.changed /\ DOMAIN com' = DOMAIN com
      BY SafeParts DEF SendResults, FinishCom, ComOK
    <3>3. ShuntCom \/ CrashCom => com' = IdleCom
      BY DEF ShuntCom, CrashCom
    <3>4. UnshuntCommand => com' = com
      BY DEF UnshuntCommand
    <3>. QED BY <1>3, <2>0, <3>1, <3>2, <3>3, <3>4, SafeParts DEF ComOK, IdleCom
  <2>3. Shelf(shunt') /\ ((shunt' = <<>> /\ changes' = 0) => shunt = <<>>)
    <3>1. CASE ShuntCom
      <4> DEFINE e == [m |-> com.m, d |-> com.d, whichq |-> "command"]
      <4>1. e.whichq # "in" /\ shunt' = Append(shunt, e)
        BY <3>1 DEF ShuntCom, Shunted
      <4> HIDE DEF e
      <4>. QED BY <4>1, SafeParts, ShelfGrow
    <3>2. CASE UnshuntCommand
      <4>1. shunt # <<>> /\ shunt' = Tail(shunt) /\ changes' = changes + 1
        BY <3>2 DEF UnshuntCommand
      <4>2. changes' # 0
        BY <4>1 DEF Counted
      <4>. QED BY <4>1, <4>2, SafeParts, ShelfShrink
    <3>3. CASE TakeCom \/ SendResults \/ FinishCom \/ CrashCom
      <4>1. shunt' = shunt
        BY <3>3 DEF TakeCom, SendResults, FinishCom, CrashCom, vars, queues
      <4>. QED BY <4>1, SafeParts
    <3>. QED BY <1>3, <3>1, <3>2, <3>3
  <2>4. LetterOK' /\ AskedOK' /\ DbOK(db')
    BY <2>1, SafeParts DEF LetterOK, AskedOK
  <2>. QED BY <2>1, <2>2, <2>3, <2>4, AsideKeeps
<1>. QED BY <1>1, <1>2, <1>3 DEF RunCom


LEMMA SafeAside ==
    ASSUME Counted, Safe, Later, vars' = vars, com' = com, LetterOK'
    PROVE  Safe'
<1>1. UNCHANGED <<list, db, inc, inq, shunt, fates, entered, asked, changes>>
  BY DEF vars, queues, history, bounds
<1>2. ComOK' /\ AskedOK' /\ DbOK(db') /\ Shelf(shunt')
  BY <1>1, SafeParts DEF ComOK, AskedOK
<1>. QED BY <1>1, <1>2, AsideKeeps

LEMMA LmtpKeeps ==
    ASSUME Counted, LmtpInv, Safe, Later,
           RunLmtp \/ FailToDeliver \/ CrashLmtp \/ ReplyComesBack
    PROVE  Safe'
<1>1. CASE Deliver
  BY <1>1, DeliverKeeps
<1>2. CASE Connect \/ Refuse
  <2>1. vars' = vars /\ com' = com /\ mail' = mail
    BY <1>2 DEF Connect, Refuse
  <2>. QED BY <2>1, SafeParts, SafeAside DEF LetterOK
<1>3. CASE FailToDeliver \/ CrashLmtp
  <2>1. UNCHANGED <<list, db, inc, inq, shunt, fates, entered, asked, changes, mail, com>>
    BY <1>3 DEF FailToDeliver, CrashLmtp, queues, history
  <2>2. ComOK' /\ AskedOK' /\ LetterOK' /\ DbOK(db') /\ Shelf(shunt')
    BY <2>1, SafeParts DEF ComOK, AskedOK, LetterOK
  <2>. QED BY <2>1, <2>2, AsideKeeps
<1>4. CASE Tell
  <2>1. vars' = vars /\ com' = com
    BY <1>4 DEF Tell
  <2>2. mail'.m = mail.m /\ mail'.d = mail.d
    BY <1>4 DEF Tell, LmtpInv, MailOK
  <2>. QED BY <2>1, <2>2, SafeParts, SafeAside DEF LetterOK
<1>5. CASE ReplyComesBack
  <2>1. vars' = vars /\ com' = com /\ mail' = RobotLetter
    BY <1>5 DEF ReplyComesBack
  <2> DEFINE m == [Plain EXCEPT !.from = <<Posting>>, !.precedence = "bulk"]
  <2>2. mail'.m = m /\ mail'.d = mail.d
    BY <2>1 DEF RobotLetter, Letter
  <2>3. IsMessage(m)
    <3>1. DOMAIN m = DOMAIN Plain /\ m.from = <<Posting>> /\ m.envelope = <<>>
          /\ m.replyTo = <<>> /\ m.sender = <<>>
      BY DEF Plain
    <3>2. <<Posting>> \in Seq(Addrs) /\ <<>> \in Seq(Addrs)
      BY RulesAssumption
    <3>. QED BY <3>1, <3>2 DEF IsMessage
  <2> HIDE DEF m
  <2>4. LetterOK'
    BY <2>2, <2>3, SafeParts DEF LetterOK, FileOK
  <2>. QED BY <2>1, <2>4, SafeAside
<1>. QED BY <1>1, <1>2, <1>3, <1>4, <1>5 DEF RunLmtp

LEMMA InKeeps ==
    ASSUME Counted, Safe, Later, RunIn \/ CrashIn, UNCHANGED entrance
    PROVE  Safe'
BY TakeInKeeps, RegisterKeeps, FollowLinkKeeps, ReturnKeeps, FinishKeeps, CommitInKeeps,
   ShuntInKeeps, CrashInKeeps DEF RunIn

LEMMA SafeStep ==
    ASSUME Counted, LmtpInv, Safe, EntranceNext
    PROVE  Safe'
<1>0. Later
  BY LmtpStep
<1>1. CASE Within /\ UNCHANGED entrance
  <2>1. CASE RunIn \/ CrashIn
    BY <1>0, <1>1, <2>1, InKeeps
  <2>2. CASE RunPip \/ CrashPip \/ FailPip
    BY <1>0, <1>1, <2>2, PipelineKeeps
  <2>3. CASE People
    <3>1. CASE Unshunt
      BY <1>0, <1>1, <3>1, UnshuntKeeps
    <3>2. CASE Repost
      BY <1>0, <1>1, <3>2, RepostKeeps
    <3>3. ASSUME NEW new, Changed(new), Change(new) PROVE Safe'
      BY <1>0, <1>1, <3>3, ChangeKeeps
    <3>. QED BY <2>3, <3>1, <3>2, <3>3, ChangeCases
  <2>. QED BY <1>1, <2>1, <2>2, <2>3 DEF Within
<1>2. CASE RunLmtp \/ FailToDeliver \/ CrashLmtp \/ ReplyComesBack
  BY <1>0, <1>2, LmtpKeeps
<1>3. CASE RunCom \/ CrashCom \/ UnshuntCommand
  BY <1>0, <1>3, CommandsKeep
<1>. QED BY <1>1, <1>2, <1>3 DEF EntranceNext

LEMMA SafeStart == EntranceInit => Safe
<1> SUFFICES ASSUME EntranceInit PROVE Safe
  OBVIOUS
<1>1. PICK s \in Scenarios :
          /\ Start(s, IF s.to = <<>> THEN <<[m |-> s.m, d |-> s.d]>> ELSE <<>>)
          /\ mail = Letter(s.m, s.d, s.to)
  BY DEF EntranceInit
<1>2. FileOK([m |-> s.m, d |-> s.d])
  BY PostingAssumption DEF FileOK
<1>3. Files(inq)
  BY <1>1, <1>2, FileAlone, NoFiles DEF Start
<1>4. DbOK(db)
  <2>1. PICK h \in HeaderMatches :
          db = [member |-> [a \in Addrs |-> IF a \in Members THEN "default" ELSE "no"],
                nonmember |-> [a \in Addrs |-> "no"],
                banned |-> {}, responded |-> {}, headers |-> h, pended |-> s.pended,
                posts |-> 1, held |-> 0, notes |-> [a \in Addrs |-> 0]]
    BY <1>1 DEF Start
  <2>2. h \in Seq(HeaderMatch)
    BY PostingAssumption
  <2>3. db.member \in [Addrs -> {"no", "default"}] /\ db.nonmember \in [Addrs -> {"no", "default"}]
    BY <2>1
  <2>. QED BY <2>1, <2>2, <2>3 DEF DbOK
<1>5. IncOK /\ ChainOK /\ ~Unfated
  <2>1. inc = IdleIn
    BY <1>1 DEF Start
  <2>2. inc.pc = "idle" /\ inc.entries = <<>> /\ DOMAIN inc = IncFields
    BY <2>1 DEF IdleIn, IncFields
  <2>3. <<>> \in Seq(HeaderMatch)
    OBVIOUS
  <2>. QED BY <2>2, <2>3 DEF IncOK, ChainOK, Unfated
<1>6. ComOK
  <2>1. com = IdleCom /\ DOMAIN <<>> = {}
    BY DEF EntranceInit
  <2>. QED BY <2>1 DEF ComOK, IdleCom
<1>7. FileOK([m |-> mail.m, d |-> mail.d])
  BY <1>1, <1>2 DEF Letter
<1>8. TypeOK
  <2>1. list = s.list /\ shunt = <<>> /\ asked = NothingAsked
    BY <1>1 DEF Start
  <2>2. asked.file = NoFile /\ DOMAIN asked = {"file", "db", "banned", "changed"}
    BY <2>1 DEF NothingAsked
  <2>. QED BY <1>3, <1>4, <1>5, <1>6, <1>7, <2>1, <2>2, NoFiles DEF TypeOK
<1>9. FateOK
  <2>1. fates = <<>> /\ entered = Len(inq) /\ faults = 0 /\ changes = 0
    BY <1>1 DEF Start
  <2>2. Len(<<>>) = 0 /\ <<>> \in Seq(Ends)
    OBVIOUS
  <2>3. Len(inq) \in Nat
    BY <1>3 DEF Files
  <2>4. Total = entered /\ Total <= entered + faults + changes
    BY <1>5, <2>1, <2>2, <2>3 DEF Total, Count
  <2>. QED BY <2>1, <2>2, <2>4 DEF FateOK
<1>. QED BY <1>5, <1>8, <1>9 DEF Safe

EntranceInv == Counted /\ LmtpInv /\ Safe

LEMMA Inductive ==
    ASSUME EntranceInv, [EntranceNext]_allVars
    PROVE  EntranceInv'
<1>1. CASE EntranceNext
  <2>1. LmtpInv' /\ Later /\ Safe'
    BY <1>1, LmtpStep, SafeStep DEF EntranceInv
  <2>. QED BY <2>1 DEF EntranceInv, Later, Counted
<1>2. CASE UNCHANGED allVars
  <2>1. vars' = vars /\ UNCHANGED <<mail, lmtp, queued, com>>
    BY <1>2 DEF allVars, entrance
  <2>2. Later
    BY <2>1 DEF EntranceInv, Later, Counted, vars, bounds, history
  <2>3. LmtpInv'
    BY <2>1, <2>2, LmtpAside DEF EntranceInv
  <2>4. Safe'
    BY <2>1, <2>2, SafeAside, SafeParts DEF EntranceInv, LetterOK
  <2>. QED BY <2>2, <2>3, <2>4 DEF EntranceInv, Later, Counted
<1>. QED BY <1>1, <1>2

LEMMA Invariant == EntranceSpec => []EntranceInv
<1>1. EntranceInit => EntranceInv
  BY LmtpStart, SafeStart DEF EntranceInv
<1>2. EntranceInv /\ [EntranceNext]_allVars => EntranceInv'
  BY Inductive
<1>. QED BY <1>1, <1>2, PTL DEF EntranceSpec

(* Whatever gets into the incoming queue meets one fate, and only a crash  *)
(* or an unshunt has it go through the chains again: see                   *)
(* IncomingRunner._dispose of mailman/runners/incoming.py and process() of *)
(* mailman/core/chains.py.                                                 *)
THEOREM OneFate == EntranceSpec => []OneDisposition
<1>1. EntranceInv => OneDisposition
  <2> SUFFICES ASSUME EntranceInv PROVE OneDisposition
    OBVIOUS
  <2>1. /\ Total <= entered + faults + changes
        /\ (faults = 0 /\ changes = 0 /\ shunt = <<>>) => Total = entered
        /\ faults \in Nat /\ changes \in Nat /\ entered \in Nat
    BY DEF EntranceInv, Safe, FateOK, Counted
  <2>2. Total \in Nat /\ Len(fates) \in Nat /\ Len(inq) \in Nat /\ Count(Unfated) \in Nat
    BY Totals DEF EntranceInv, Safe
  <2>3. Len(fates) <= Total
    BY <2>2 DEF Total
  <2>4. Quiet => Total = Len(fates)
    <3>1. Len(<<>>) = 0
      OBVIOUS
    <3>2. Quiet => inq = <<>> /\ ~Unfated
      BY DEF Quiet, Unfated
    <3>. QED BY <2>2, <3>1, <3>2 DEF Total, Count
  <2>5. Len(fates) <= entered + faults + changes
    BY <2>1, <2>2, <2>3
  <2>. QED BY <2>1, <2>4, <2>5 DEF OneDisposition
<1>. QED BY <1>1, Invariant, PTL

(* What the mail server is told of a recipient is true, whatever else      *)
(* happens and whenever the runner or the connection dies: see             *)
(* LMTPHandler.process_message of mailman/runners/lmtp.py.                 *)
THEOREM ToldTheTruth == EntranceSpec => []AnswersAreTrue
<1>1. EntranceInv => AnswersAreTrue
  BY DEF EntranceInv, LmtpInv, MailOK, TruthOK, AnswersAreTrue
<1>. QED BY <1>1, Invariant, PTL


--------------------------------------------------------------------------------
(***************************************************************************)
(* What the chains decide about is what was taken from the queue.          *)
(***************************************************************************)
(* What the rules read of it; the approved rule takes out the password.    *)
Underway == inc.pc \in {"register", "link", "finish"}
InPosting == inc.pc = "link" /\ inc.chain = "default-posting-chain"
InHeaderMatch == inc.pc = "link" /\ inc.chain = "header-match"
Alike(m, n) == \A x \in DOMAIN Plain \ {"approve"} : m[x] = n[x]
DataKept == {"moderatorApproved", "fromUsenet", "toOwner"}
TakenOK ==
    Underway =>
        /\ FileOK(asked.file) /\ Alike(inc.m, asked.file.m)
        /\ \A x \in DataKept : inc.d[x] = asked.file.d[x]
        /\ (inc.pc = "register" \/ (InPosting /\ inc.next <= 3))
              => inc.m.approve = asked.file.m.approve
        /\ inc.pc = "register" => inc.strangers = {}

(* The terminal chain has noted the fate by the time of its second link.   *)
Closed == inc.chain \in Terminal
          /\ (inc.pc = "finish" \/ (inc.pc = "link" /\ inc.next = 2))
LastFate(x) == fates # <<>> /\ fates[Len(fates)] = x
ClosedOK ==
    /\ Closed => LastFate(inc.chain)
    /\ inc.pc = "finish" => inc.chain \in Terminal \/ LastFate("responded")

(* Somebody banned is in the chains before the rule that looks for him, or *)
(* where there is no way back.                                             *)
Muted == /\ Range(Senders(asked.file.m)) \cap asked.banned # {}
         /\ ~Approved(list, asked.file.m) /\ ~inc.d.toOwner
BannedOK ==
    /\ asked.banned \subseteq db.banned
    /\ (inc.pc \in {"link", "finish"} /\ Muted) =>
          \/ InPosting /\ inc.next <= 6
          \/ inc.pc = "link" /\ inc.chain = "dmarc"
          \/ inc.chain \in {"hold", "discard", "reject"}
          \/ inc.pc = "finish" /\ LastFate("responded")

(* As long as nothing changes, the rules for header matches are those of   *)
(* the list.                                                               *)
RulesOK ==
    changes = 0 =>
        /\ \A i \in DOMAIN rules : i \in DOMAIN db.headers /\ rules[i] = db.headers[i].pattern
        /\ InHeaderMatch => inc.entries = db.headers

(* How many of the cases were looked at in vain.                           *)
Case(i) == Cases(list, asked.file.m, asked.file.d, asked.db)[i]
Ruled(n) == \A i \in 1 .. n : ~Case(i).if
Decided(x) == \E i \in 1 .. 12 : Ruled(i - 1) /\ Case(i).if /\ Case(i).fate = x
Passed == [i \in 1 .. 18 |->
    CASE i <= 5 -> i [] i = 6 -> 5 [] i = 7 -> 6 [] i = 8 -> 7 [] i = 9 -> 9
      [] i = 18 -> 11 [] OTHER -> 10]

SiteHit(i) == HeaderMatchRule(asked.file.m, SiteChecks[i])
OwnHit(i) == HeaderMatchRule(asked.file.m, asked.db.headers[i].pattern)
Curious(i) ==
    LET m == asked.file.m
    IN  CASE i = 10 -> Administrivia(list, m)
          [] i = 11 -> ImplicitDestination(list, m, asked.file.d)
          [] i = 12 -> MaximumRecipients(list, m)
          [] i = 13 -> MaximumSize(list, m)
          [] i = 14 -> ModeratedNewsgroup(list)
          [] i = 15 -> NoSubject(m)
          [] i = 16 -> SuspiciousHeader(list, m)

Calm == changes = 0 /\ ~asked.changed
SameDb(x, y) == x.member = y.member /\ x.nonmember = y.nonmember
                /\ x.banned = y.banned /\ x.headers = y.headers
PostingAt(n, strangers, hits) ==
    /\ Ruled(Passed[n])
    /\ n = 6 => ~Loop(asked.file.m)
    /\ n <= 9 => strangers = {}
    /\ n <= 10 => hits = {}
    /\ n \in 10 .. 17 => (hits # {} <=> \E i \in 10 .. (n - 1) : Curious(i))
HeaderAt(n, strangers, hits) ==
    /\ Ruled(7) /\ strangers = {}
    /\ n <= Sites + 1 => (hits # {} <=> \E i \in 1 .. (n - 1) : SiteHit(i))
    /\ n > Sites + 1 => /\ Ruled(8) /\ hits = {}
                        /\ \A i \in 1 .. (n - Sites - 2) : ~OwnHit(i)
PostingPath == PostingAt(inc.next, inc.strangers, inc.d.hits)
HeaderPath == HeaderAt(inc.next, inc.strangers, inc.d.hits)
PathOK ==
    (Calm /\ Underway) =>
        /\ SameDb(db, asked.db)
        /\ InPosting => PostingPath
        /\ InHeaderMatch => HeaderPath
        /\ (inc.pc = "link" /\ inc.chain = "moderation") => Decided(inc.d.action)
        /\ (inc.pc = "link" /\ inc.chain = "dmarc") => Decided(inc.d.dmarcAction)
        /\ (inc.pc # "register" /\ inc.chain \in Terminal) => Decided(inc.chain)
Way == TakenOK /\ ClosedOK /\ BannedOK /\ RulesOK /\ PathOK


--------------------------------------------------------------------------------
(* Whatever the approved rule takes out, the others read the same.         *)
SameRulings(l, m, n, x, y) ==
    /\ Senders(m) = Senders(n)
    /\ DmarcMitigation(l, m) <=> DmarcMitigation(l, n)
    /\ NoSenders(m) <=> NoSenders(n)
    /\ Loop(m) <=> Loop(n)
    /\ BannedAddress(m, x) <=> BannedAddress(n, y)
    /\ MemberAction(l, m, x) = MemberAction(l, n, y)
    /\ MemberModeration(l, m, x) <=> MemberModeration(l, n, y)
    /\ NonmemberAction(l, m, x) = NonmemberAction(l, n, y)
    /\ NonmemberModeration(l, m, x) <=> NonmemberModeration(l, n, y)
    /\ \A p : HeaderMatchRule(m, p) <=> HeaderMatchRule(n, p)
SameCuriosity(l, m, n) ==
    /\ Administrivia(l, m) <=> Administrivia(l, n)
    /\ \A d, e : d.fromUsenet = e.fromUsenet
                 => (ImplicitDestination(l, m, d) <=> ImplicitDestination(l, n, e))
    /\ MaximumRecipients(l, m) <=> MaximumRecipients(l, n)
    /\ MaximumSize(l, m) <=> MaximumSize(l, n)
    /\ NoSubject(m) <=> NoSubject(n)
    /\ SuspiciousHeader(l, m) <=> SuspiciousHeader(l, n)

LEMMA AlikeFields ==
    ASSUME NEW m, NEW n, Alike(m, n)
    PROVE  /\ m.from = n.from /\ m.envelope = n.envelope /\ m.replyTo = n.replyTo
           /\ m.sender = n.sender /\ m.dns = n.dns /\ m.domain = n.domain
           /\ m.listPost = n.listPost /\ m.subject = n.subject /\ m.command = n.command
           /\ m.to = n.to /\ m.cc = n.cc /\ m.size = n.size /\ m.marks = n.marks
<1>1. {"from", "envelope", "replyTo", "sender", "dns", "domain", "listPost", "subject",
       "command", "to", "cc", "size", "marks"} \subseteq DOMAIN Plain \ {"approve"}
  BY DEF Plain
<1>. QED BY <1>1 DEF Alike

LEMMA SameCurious ==
    ASSUME NEW l, NEW m, NEW n, Alike(m, n)
    PROVE  SameCuriosity(l, m, n)
<1>1. /\ m.subject = n.subject /\ m.command = n.command /\ m.to = n.to /\ m.cc = n.cc
      /\ m.size = n.size /\ m.marks = n.marks
  BY AlikeFields
<1>. QED BY <1>1 DEF SameCuriosity, Administrivia, ImplicitDestination, MaximumRecipients,
                    MaximumSize, NoSubject, SuspiciousHeader

LEMMA SameRules ==
    ASSUME NEW l, NEW m, NEW n, Alike(m, n), NEW x, NEW y, SameDb(x, y)
    PROVE  SameRulings(l, m, n, x, y)
<1>0. /\ m.from = n.from /\ m.dns = n.dns /\ m.domain = n.domain /\ m.listPost = n.listPost
      /\ m.marks = n.marks
  BY AlikeFields
<1>1. Senders(m) = Senders(n)
  BY AlikeFields DEF Senders
<1>2. DmarcMitigation(l, m) <=> DmarcMitigation(l, n)
  <2>1. MaybeMitigate(m) <=> MaybeMitigate(n)
    BY <1>0 DEF MaybeMitigate, Answer
  <2>. QED BY <2>1 DEF DmarcMitigation, Suspect
<1>3. /\ NoSenders(m) <=> NoSenders(n)
      /\ Loop(m) <=> Loop(n)
      /\ \A p : HeaderMatchRule(m, p) <=> HeaderMatchRule(n, p)
  BY <1>0, <1>1 DEF NoSenders, Loop, HeaderMatchRule
<1>4. BannedAddress(m, x) <=> BannedAddress(n, y)
  BY <1>1 DEF BannedAddress, IsBanned, SameDb
<1>5. FindSenderMember(m, x) = FindSenderMember(n, y)
  BY <1>1 DEF FindSenderMember, IsMember, SameDb
<1>6. MemberAction(l, m, x) = MemberAction(l, n, y)
  BY <1>5 DEF MemberAction, SameDb
<1>7. NonmemberAction(l, m, x) = NonmemberAction(l, n, y)
  BY <1>1 DEF NonmemberAction, ActionFor, SameDb
<1>. QED BY <1>1, <1>2, <1>3, <1>4, <1>5, <1>6, <1>7
         DEF SameRulings, MemberModeration, NonmemberModeration

(* The cases, one by one.                                                  *)
CasesAre(l, m, d, s) ==
    LET c == Cases(l, m, d, s)
        site == {i \in DOMAIN SiteChecks : HeaderMatchRule(m, SiteChecks[i])}
        own == {i \in DOMAIN s.headers : HeaderMatchRule(m, s.headers[i].pattern)}
    IN  /\ DOMAIN c = 1 .. 12
        /\ (c[1].if <=> d.toOwner) /\ c[1].fate = "default-owner-chain"
        /\ (c[2].if <=> DmarcMitigation(l, m)) /\ c[2].fate = l.dmarcAction
        /\ (c[3].if <=> NoSenders(m)) /\ c[3].fate = "discard"
        /\ (c[4].if <=> Approved(l, m)) /\ c[4].fate = "accept"
        /\ (c[5].if <=> Emergency(l, d)) /\ c[5].fate = "hold"
        /\ (c[6].if <=> Loop(m) \/ BannedAddress(m, s)) /\ c[6].fate = "discard"
        /\ (c[7].if <=> MemberAction(l, m, s) # "defer") /\ c[7].fate = MemberAction(l, m, s)
        /\ (c[8].if <=> site # {}) /\ c[8].fate = JumpChain
        /\ (c[9].if <=> own # {})
        /\ own # {} => c[9].fate = OwnChain(s.headers[Min(own)])
        /\ (c[10].if <=> NonmemberModeration(l, m, s)) /\ c[10].fate = NonmemberAction(l, m, s)
        /\ (c[11].if <=> \/ Administrivia(l, m) \/ ImplicitDestination(l, m, d)
                         \/ MaximumRecipients(l, m) \/ MaximumSize(l, m)
                         \/ ModeratedNewsgroup(l) \/ NoSubject(m) \/ SuspiciousHeader(l, m))
        /\ c[11].fate = "hold" /\ c[12].if /\ c[12].fate = "accept"

LEMMA CasesListed == \A l, m, d, s : CasesAre(l, m, d, s)
<1> TAKE l, m, d, s
<1> DEFINE site == {i \in DOMAIN SiteChecks : HeaderMatchRule(m, SiteChecks[i])}
           own == {i \in DOMAIN s.headers : HeaderMatchRule(m, s.headers[i].pattern)}
           first == s.headers[Min(own)].chain
           curious == \/ Administrivia(l, m) \/ ImplicitDestination(l, m, d)
                      \/ MaximumRecipients(l, m) \/ MaximumSize(l, m)
                      \/ ModeratedNewsgroup(l) \/ NoSubject(m)
                      \/ SuspiciousHeader(l, m)
           ninth == IF own = {} \/ first = "none" THEN JumpChain ELSE first
           c == Cases(l, m, d, s)
<1>1. c = <<[if |-> d.toOwner, fate |-> "default-owner-chain"],
          [if |-> DmarcMitigation(l, m), fate |-> l.dmarcAction],
          [if |-> NoSenders(m), fate |-> "discard"],
          [if |-> Approved(l, m), fate |-> "accept"],
          [if |-> Emergency(l, d), fate |-> "hold"],
          [if |-> Loop(m) \/ BannedAddress(m, s), fate |-> "discard"],
          [if |-> MemberAction(l, m, s) # "defer", fate |-> MemberAction(l, m, s)],
          [if |-> site # {}, fate |-> JumpChain],
          [if |-> own # {}, fate |-> ninth],
          [if |-> NonmemberModeration(l, m, s), fate |-> NonmemberAction(l, m, s)],
          [if |-> curious, fate |-> "hold"],
          [if |-> TRUE, fate |-> "accept"]>>
  BY DEF Cases
<1> HIDE DEF c, site, own, first, curious, ninth
<1>2. /\ DOMAIN c = 1 .. 12
      /\ (c[1].if <=> d.toOwner) /\ c[1].fate = "default-owner-chain"
      /\ (c[2].if <=> DmarcMitigation(l, m)) /\ c[2].fate = l.dmarcAction
      /\ (c[3].if <=> NoSenders(m)) /\ c[3].fate = "discard"
  BY <1>1
<1>3. /\ (c[4].if <=> Approved(l, m)) /\ c[4].fate = "accept"
      /\ (c[5].if <=> Emergency(l, d)) /\ c[5].fate = "hold"
      /\ (c[6].if <=> Loop(m) \/ BannedAddress(m, s)) /\ c[6].fate = "discard"
  BY <1>1
<1>4. /\ (c[7].if <=> MemberAction(l, m, s) # "defer") /\ c[7].fate = MemberAction(l, m, s)
      /\ (c[8].if <=> site # {}) /\ c[8].fate = JumpChain
      /\ (c[9].if <=> own # {}) /\ c[9].fate = ninth
  BY <1>1
<1>5. /\ (c[10].if <=> NonmemberModeration(l, m, s)) /\ c[10].fate = NonmemberAction(l, m, s)
      /\ (c[11].if <=> curious) /\ c[11].fate = "hold"
      /\ c[12].if /\ c[12].fate = "accept"
  BY <1>1
<1>6. own # {} => ninth = OwnChain(s.headers[Min(own)])
  BY DEF ninth, first, OwnChain
<1>. QED BY <1>2, <1>3, <1>4, <1>5, <1>6 DEF c, site, own, curious, CasesAre

LEMMA CaseIs == CasesAre(list, asked.file.m, asked.file.d, asked.db)
BY CasesListed

(* The first of the cases that apply is the one before which none does.    *)
LEMMA LeastIs ==
    ASSUME NEW S \in SUBSET Nat, NEW i \in S, \A j \in S : i <= j
    PROVE  Min(S) = i
<1>1. Min(S) \in S /\ \A m \in S : Min(S) =< m
  BY Least
<1>2. Min(S) \in Nat /\ i \in Nat /\ Min(S) <= i /\ i <= Min(S)
  BY <1>1
<1>. QED BY <1>2

LEMMA DecidedFirst ==
    ASSUME NEW x, Decided(x)
    PROVE  LET cases == Cases(list, asked.file.m, asked.file.d, asked.db)
               applying == {i \in DOMAIN cases : cases[i].if}
           IN  x = cases[Min(applying)].fate
<1> DEFINE cases == Cases(list, asked.file.m, asked.file.d, asked.db)
           applying == {i \in DOMAIN cases : cases[i].if}
<1>1. PICK i \in 1 .. 12 : Ruled(i - 1) /\ Case(i).if /\ Case(i).fate = x
  BY DEF Decided
<1>2. DOMAIN cases = 1 .. 12
  BY CaseIs DEF CasesAre
<1>3. i \in applying /\ applying \subseteq Nat /\ cases[i].fate = x
  BY <1>1, <1>2 DEF Case
<1>4. ASSUME NEW j \in applying PROVE i <= j
  <2>1. j \in 1 .. 12 /\ Case(j).if
    BY <1>2 DEF Case
  <2>2. j \notin 1 .. (i - 1)
    BY <1>1, <2>1 DEF Ruled
  <2>. QED BY <2>1, <2>2
<1> HIDE DEF applying, cases
<1>5. Min(applying) = i
  BY <1>3, <1>4, LeastIs
<1>. QED BY <1>3, <1>5 DEF applying, cases


--------------------------------------------------------------------------------
(***************************************************************************)
(* Steps that leave the incoming runner where it is, or end its work.      *)
(***************************************************************************)
StillBanned ==
    /\ asked'.banned \subseteq db'.banned
    /\ changes' = 0 => changes = 0 /\ db'.headers = db.headers
Frame ==
    /\ list' = list /\ asked'.file = asked.file /\ asked'.db = asked.db
    /\ asked'.banned \subseteq asked.banned /\ StillBanned
    /\ Calm' => Calm /\ SameDb(db', db)

LEMMA SameCase ==
    ASSUME list' = list, asked'.file = asked.file, asked'.db = asked.db
    PROVE  /\ \A i : Case(i)' = Case(i)
           /\ \A n : Ruled(n)' <=> Ruled(n)
           /\ \A x : Decided(x)' <=> Decided(x)
<1>1. \A i : Case(i)' = Case(i)
  BY DEF Case
<1>2. \A n : Ruled(n)' <=> Ruled(n)
  BY <1>1 DEF Ruled
<1>3. \A x : Decided(x)' <=> Decided(x)
  BY <1>1, <1>2 DEF Decided
<1>. QED BY <1>1, <1>2, <1>3

LEMMA SameHits ==
    ASSUME list' = list, asked'.file = asked.file, asked'.db = asked.db
    PROVE  /\ \A i : SiteHit(i)' <=> SiteHit(i)
           /\ \A i : OwnHit(i)' <=> OwnHit(i)
           /\ \A i \in 10 .. 16 : Curious(i)' <=> Curious(i)
<1>1. \A i : (SiteHit(i)' <=> SiteHit(i)) /\ (OwnHit(i)' <=> OwnHit(i))
  BY DEF SiteHit, OwnHit
<1>2. \A i \in 10 .. 16 : Curious(i)' <=> Curious(i)
  BY DEF Curious
<1>. QED BY <1>1, <1>2

LEMMA SamePath ==
    ASSUME list' = list, asked'.file = asked.file, asked'.db = asked.db
    PROVE  /\ \A n, strangers, hits :
                 PostingAt(n, strangers, hits)' <=> PostingAt(n, strangers, hits)
           /\ \A n, strangers, hits :
                 HeaderAt(n, strangers, hits)' <=> HeaderAt(n, strangers, hits)
<1>1. ASSUME NEW n, NEW strangers, NEW hits
      PROVE  PostingAt(n, strangers, hits)' <=> PostingAt(n, strangers, hits)
  <2>1. ASSUME n \in 10 .. 17
        PROVE  (\E i \in 10 .. (n - 1) : Curious(i)') <=> \E i \in 10 .. (n - 1) : Curious(i)
    <3>1. \A i \in 10 .. (n - 1) : i \in 10 .. 16
      BY <2>1
    <3>2. \A i \in 10 .. (n - 1) : Curious(i)' <=> Curious(i)
      BY <3>1, SameHits
    <3>. QED BY <3>2
  <2>. QED BY <2>1, SameCase DEF PostingAt
<1>2. ASSUME NEW n, NEW strangers, NEW hits
      PROVE  HeaderAt(n, strangers, hits)' <=> HeaderAt(n, strangers, hits)
  BY SameCase, SameHits DEF HeaderAt
<1>. QED BY <1>1, <1>2

LEMMA MutedShrinks ==
    ASSUME Frame, inc'.d.toOwner = inc.d.toOwner
    PROVE  Muted' => Muted
BY DEF Frame, Muted

LEMMA WayAside ==
    ASSUME Way, Frame, inc' = inc, fates' = fates, rules' = rules
    PROVE  Way'
<1>0. TakenOK /\ ClosedOK /\ BannedOK /\ RulesOK /\ PathOK
  BY DEF Way
<1>1. /\ Underway' = Underway /\ InPosting' = InPosting /\ InHeaderMatch' = InHeaderMatch
      /\ Position' = Position
  BY DEF Underway, InPosting, InHeaderMatch, Position
<1>2. TakenOK'
  BY <1>0, <1>1 DEF TakenOK, Frame, Alike
<1>3. ClosedOK'
  BY <1>0 DEF ClosedOK, Closed, LastFate
<1>4. BannedOK'
  BY <1>0, <1>1, MutedShrinks DEF BannedOK, LastFate, Frame, StillBanned
<1>5. RulesOK'
  BY <1>0, <1>1 DEF RulesOK, Frame, StillBanned
<1>6. ASSUME Calm', Underway PROVE /\ Calm /\ SameDb(db', asked.db)
  BY <1>0, <1>6 DEF Frame, SameDb, PathOK
<1>7. PathOK'
  <2> SUFFICES ASSUME Calm', Underway
               PROVE  /\ SameDb(db', asked'.db)
                      /\ InPosting => PostingPath'
                      /\ InHeaderMatch => HeaderPath'
                      /\ (inc.pc = "link" /\ inc.chain = "moderation") => Decided(inc.d.action)'
                      /\ (inc.pc = "link" /\ inc.chain = "dmarc") => Decided(inc.d.dmarcAction)'
                      /\ (inc.pc # "register" /\ inc.chain \in Terminal) => Decided(inc.chain)'
    BY <1>1 DEF PathOK
  <2>1. list' = list /\ asked'.file = asked.file /\ asked'.db = asked.db
    BY DEF Frame
  <2>2. /\ InPosting => PostingPath
        /\ InHeaderMatch => HeaderPath
        /\ (inc.pc = "link" /\ inc.chain = "moderation") => Decided(inc.d.action)
        /\ (inc.pc = "link" /\ inc.chain = "dmarc") => Decided(inc.d.dmarcAction)
        /\ (inc.pc # "register" /\ inc.chain \in Terminal) => Decided(inc.chain)
    BY <1>0, <1>6 DEF PathOK
  <2>3. InPosting => PostingPath'
    BY <2>1, <2>2, SamePath DEF PostingPath
  <2>4. InHeaderMatch => HeaderPath'
    BY <2>1, <2>2, SamePath DEF HeaderPath
  <2>. QED BY <1>6, <2>1, <2>2, <2>3, <2>4, SameCase
<1>. QED BY <1>2, <1>3, <1>4, <1>5, <1>7 DEF Way

LEMMA WayOver ==
    ASSUME Way, StillBanned, inc'.pc \in {"idle", "commit", "error"},
           rules' = rules \/ DOMAIN rules' = {} \/ RulesOK'
    PROVE  Way'
<1>1. ~Underway' /\ ~InPosting' /\ ~InHeaderMatch'
  BY DEF Underway, InPosting, InHeaderMatch
<1>2. TakenOK' /\ PathOK' /\ ClosedOK'
  BY <1>1 DEF TakenOK, PathOK, ClosedOK, Closed
<1>3. BannedOK'
  BY <1>1 DEF BannedOK, StillBanned
<1>4. RulesOK'
  BY <1>1 DEF RulesOK, StillBanned, Way
<1>. QED BY <1>2, <1>3, <1>4 DEF Way


--------------------------------------------------------------------------------
(***************************************************************************)
(* The steps of the incoming runner but the links.                         *)
(***************************************************************************)
LEMMA TakeInWay ==
    ASSUME Safe, Way, TakeIn
    PROVE  Way'
<1> DEFINE f == Head(inq)
           responds == Replies(f.m, f.d)
           fails == responds /\ Senders(f.m) = <<>>
           discards == ResponseAction(f.d) = "respond_and_discard"
<1>1. /\ inc' = [IdleIn EXCEPT
                        !.pc = IF fails THEN "error"
                               ELSE IF discards THEN "finish" ELSE "register",
                        !.file = f, !.m = f.m, !.d = f.d,
                        !.responded = IF responds /\ ~fails
                                     THEN {Head(Senders(f.m))} ELSE {}]
      /\ fates' = IF discards /\ ~fails THEN Append(fates, "responded") ELSE fates
      /\ asked' = [file |-> f, db |-> db, banned |-> db.banned, changed |-> FALSE]
      /\ UNCHANGED <<list, db, changes, rules>> /\ inq # <<>>
  BY DEF TakeIn, bounds
<1>2. FileOK(f) /\ fates \in Seq(Ends)
  BY <1>1, FilesShrink DEF Safe, TypeOK, FateOK
<1> HIDE DEF f, fails, discards, responds
<1>3. /\ inc'.pc = IF fails THEN "error" ELSE IF discards THEN "finish" ELSE "register"
      /\ inc'.m = f.m /\ inc'.d = f.d /\ inc'.chain = "none" /\ inc'.strangers = {}
  BY <1>1 DEF IdleIn
<1>4. inc'.chain \notin Terminal /\ ~InPosting' /\ ~InHeaderMatch' /\ inc'.pc # "link"
  BY <1>3 DEF Terminal, InPosting, InHeaderMatch
<1>5. inc'.pc = "finish" => LastFate("responded")'
  <2> SUFFICES ASSUME inc'.pc = "finish" PROVE LastFate("responded")'
    OBVIOUS
  <2>1. fates' = Append(fates, "responded")
    BY <1>1, <1>3
  <2>2. Len(fates') = Len(fates) + 1 /\ Len(fates) \in Nat /\ fates' # <<>>
        /\ fates'[Len(fates) + 1] = "responded"
    BY <1>2, <2>1
  <2>. QED BY <2>2 DEF LastFate
<1>6. TakenOK'
  BY <1>1, <1>2, <1>3, <1>4 DEF TakenOK, Alike
<1>7. ClosedOK'
  BY <1>4, <1>5 DEF ClosedOK, Closed
<1>8. BannedOK'
  BY <1>1, <1>4, <1>5 DEF BannedOK
<1>9. RulesOK'
  BY <1>1, <1>4 DEF RulesOK, Way
<1>10. PathOK'
  BY <1>1, <1>4 DEF PathOK, SameDb
<1>. QED BY <1>6, <1>7, <1>8, <1>9, <1>10 DEF Way

LEMMA RegisterWay ==
    ASSUME Safe, Way, Register
    PROVE  Way'
<1>1. /\ inc.pc = "register" /\ db' = [db EXCEPT !.responded = @ \cup inc.responded]
      /\ inc' = [inc EXCEPT !.pc = "link", !.responded = {}, !.next = 1,
                            !.chain = IF inc.d.toOwner THEN "default-owner-chain"
                                      ELSE "default-posting-chain",
                            !.d.hits = {}]
      /\ UNCHANGED <<list, asked, fates, rules, changes>>
  BY DEF Register, history, bounds
<1>2. IncOK /\ DbOK(db) /\ DOMAIN inc.d = DataFields
  BY <1>1 DEF Safe, TypeOK, IncOK
<1>3. /\ inc'.pc = "link" /\ inc'.next = 1
      /\ inc'.chain = IF inc.d.toOwner THEN "default-owner-chain" ELSE "default-posting-chain"
      /\ inc'.m = inc.m /\ inc'.strangers = inc.strangers /\ inc'.d = [inc.d EXCEPT !.hits = {}]
  BY <1>1, <1>2 DEF IncOK, IncFields
<1>4. inc'.d.hits = {} /\ \A x \in DataKept : inc'.d[x] = inc.d[x]
  BY <1>2, <1>3 DEF DataFields, DataKept
<1>5. /\ db'.member = db.member /\ db'.nonmember = db.nonmember /\ db'.banned = db.banned
      /\ db'.headers = db.headers
  BY <1>1, <1>2 DEF DbOK
<1>6. Underway /\ TakenOK /\ BannedOK /\ RulesOK /\ PathOK
  BY <1>1 DEF Underway, Way
<1>7. inc'.d.toOwner = inc.d.toOwner /\ inc.d.toOwner = asked.file.d.toOwner
  BY <1>4, <1>6 DEF TakenOK, DataKept
<1>a. ~InHeaderMatch' /\ (InPosting' <=> ~inc.d.toOwner)
  BY <1>3 DEF InHeaderMatch, InPosting
<1>8. TakenOK'
  BY <1>1, <1>3, <1>4, <1>6 DEF TakenOK, Alike
<1>9. ClosedOK'
  BY <1>3 DEF ClosedOK, Closed
<1>10. BannedOK'
  <2>1. Muted' => InPosting' /\ inc'.next <= 6
    BY <1>3, <1>7, <1>a DEF Muted
  <2>. QED BY <1>1, <1>5, <1>6, <2>1 DEF BannedOK
<1>11. RulesOK'
  BY <1>1, <1>5, <1>6, <1>a DEF RulesOK
<1>12. PathOK'
  <2> SUFFICES ASSUME Calm' PROVE PathOK'
    BY DEF PathOK
  <2>1. SameDb(db', asked'.db)
    BY <1>1, <1>5, <1>6 DEF Calm, PathOK, SameDb
  <2>2. \A i : Case(i)' = Case(i)
    BY <1>1, SameCase
  <2>3. Case(1).if <=> inc.d.toOwner
    BY <1>7, CaseIs DEF Case, CasesAre
  <2>4. Case(1).fate = "default-owner-chain"
    BY CaseIs DEF Case, CasesAre
  <2>5. inc.d.toOwner => Decided("default-owner-chain")'
    <3>1. Ruled(0) /\ 1 \in 1 .. 12 /\ 1 - 1 = 0
      BY DEF Ruled
    <3>2. inc.d.toOwner => Decided("default-owner-chain")
      BY <2>3, <2>4, <3>1 DEF Decided
    <3>. QED BY <1>1, <3>2, SameCase
  <2>6. ~inc.d.toOwner => PostingPath'
    <3>1. inc.strangers = {}
      BY <1>1, <1>6 DEF TakenOK
    <3>2. 1 .. 1 = {1} /\ 1 \in 1 .. 18 /\ ~(1 \in 10 .. 17)
      OBVIOUS
    <3>3. Passed[1] = 1
      BY <3>2 DEF Passed
    <3>4. ~inc.d.toOwner => Ruled(1)
      BY <2>3, <3>2 DEF Ruled
    <3>5. ~inc.d.toOwner => Ruled(1)'
      BY <1>1, <3>4, SameCase
    <3>. QED BY <1>3, <1>4, <3>1, <3>2, <3>3, <3>5 DEF PostingPath, PostingAt
  <2>. QED BY <1>3, <1>a, <2>1, <2>5, <2>6 DEF PathOK, Terminal
<1>. QED BY <1>8, <1>9, <1>10, <1>11, <1>12 DEF Way

LEMMA ReturnWay ==
    ASSUME Counted, Safe, Way, Later, ReturnOrStop, UNCHANGED entrance
    PROVE  Way'
<1>1. UNCHANGED <<list, db, asked, fates, rules, changes>>
  BY DEF ReturnOrStop, history, bounds
<1>2. /\ inc.chain = "header-match" /\ inc.next = Sites + Len(inc.entries) + 2
      /\ inc'.chain = "default-posting-chain" /\ inc'.next = 9 /\ inc'.pc = "link"
      /\ inc'.m = inc.m /\ inc'.d = inc.d /\ inc'.strangers = inc.strangers
  BY ReturnKeeps DEF IncFields
<1>3. inc.pc = "link" /\ inc.entries \in Seq(HeaderMatch)
  BY DEF ReturnOrStop, Safe, TypeOK, IncOK
<1>4. /\ InHeaderMatch /\ ~InPosting /\ Underway /\ InPosting' /\ ~InHeaderMatch' /\ Underway'
      /\ inc.chain \notin Terminal /\ inc'.chain \notin Terminal
  BY <1>2, <1>3 DEF InHeaderMatch, InPosting, Underway, Terminal
<1>5. TakenOK /\ BannedOK /\ RulesOK /\ PathOK
  BY DEF Way
<1>6. TakenOK'
  BY <1>1, <1>2, <1>4, <1>5 DEF TakenOK, Alike
<1>7. ClosedOK'
  BY <1>2, <1>4 DEF ClosedOK, Closed
<1>8. BannedOK'
  <2>1. ~Muted
    BY <1>2, <1>3, <1>4, <1>5 DEF BannedOK
  <2>2. ~Muted'
    BY <1>1, <1>2, <2>1 DEF Muted
  <2>. QED BY <1>1, <1>5, <2>2 DEF BannedOK
<1>9. RulesOK'
  BY <1>1, <1>4, <1>5 DEF RulesOK
<1>10. PathOK'
  <2> SUFFICES ASSUME Calm' PROVE SameDb(db', asked'.db) /\ PostingPath'
    BY <1>2, <1>4 DEF PathOK
  <2>1. Calm /\ SameDb(db, asked.db) /\ HeaderPath /\ inc.entries = asked.db.headers
    BY <1>1, <1>4, <1>5 DEF Calm, PathOK, RulesOK, SameDb
  <2> DEFINE n == Len(inc.entries)
  <2>2. Sites \in Nat /\ n \in Nat /\ DOMAIN inc.entries = 1 .. n
    BY <1>3, RulesAssumption DEF Sites
  <2>3. inc.next > Sites + 1 /\ inc.next - Sites - 2 = n
    <3>1. \A s, k \in Nat : s + k + 2 > s + 1 /\ s + k + 2 - s - 2 = k
      OBVIOUS
    <3>2. inc.next = Sites + n + 2
      BY <1>2
    <3> HIDE DEF n
    <3>. QED BY <2>2, <3>1, <3>2
  <2>4. Ruled(8) /\ inc.d.hits = {} /\ inc.strangers = {} /\ \A i \in 1 .. n : ~OwnHit(i)
    BY <2>1, <2>3 DEF HeaderPath, HeaderAt
  <2>5. ~Case(9).if
    <3>1. \A i \in DOMAIN asked.db.headers :
              ~HeaderMatchRule(asked.file.m, asked.db.headers[i].pattern)
      BY <2>1, <2>2, <2>4 DEF OwnHit
    <3>. QED BY <3>1, CaseIs DEF Case, CasesAre
  <2>6. Ruled(9)
    <3>1. \A i \in 1 .. 9 : i \in 1 .. 8 \/ i = 9
      OBVIOUS
    <3>. QED BY <2>4, <2>5, <3>1 DEF Ruled
  <2>7. Ruled(9)'
    BY <1>1, <2>6, SameCase
  <2>8. Passed[9] = 9 /\ ~(9 \in 10 .. 17)
    BY DEF Passed
  <2>9. PostingPath'
    BY <1>2, <2>4, <2>7, <2>8 DEF PostingPath, PostingAt
  <2>. QED BY <1>1, <2>1, <2>9
<1>. QED BY <1>6, <1>7, <1>8, <1>9, <1>10 DEF Way


LEMMA EndsWay ==
    ASSUME Safe, Way, FinishIn \/ CommitIn \/ ShuntIn \/ CrashIn
    PROVE  Way'
<1>1. /\ UNCHANGED <<list, asked, changes>>
      /\ inc'.pc \in {"idle", "commit"} /\ (rules' = rules \/ rules' = <<>>)
  <2>1. FinishIn => inc'.pc = "commit"
    BY DEF FinishIn, Safe, TypeOK, IncOK, IncFields
  <2>. QED BY <2>1 DEF FinishIn, CommitIn, ShuntIn, CrashIn, queues, history, bounds, IdleIn
<1>2. db'.banned = db.banned /\ db'.headers = db.headers
  <2>1. FinishIn \/ ShuntIn \/ CrashIn => db' = db
    BY DEF FinishIn, ShuntIn, CrashIn
  <2>2. CASE CommitIn
    <3>1. /\ DbOK(Seen) /\ Seen.banned = db.banned /\ Seen.headers = db.headers
      BY SeenOK DEF Safe, TypeOK
    <3>2. db' = [Seen EXCEPT !.responded = @ \cup inc.responded,
                             !.notes = [a \in Addrs |-> @[a] + Count(a \in inc.noted)],
                             !.held = @ + Count(inc.held)]
      BY <2>2 DEF CommitIn
    <3> HIDE DEF Seen
    <3>. QED BY <3>1, <3>2 DEF DbOK
  <2>. QED BY <2>1, <2>2
<1>3. StillBanned
  BY <1>1, <1>2 DEF StillBanned, Way, BannedOK
<1>4. DOMAIN <<>> = {}
  OBVIOUS
<1>. QED BY <1>1, <1>3, <1>4, WayOver

(* What all others do to what the incoming runner decides about.           *)
Elsewhere == Frame /\ inc' = inc /\ rules' = rules /\ (fates' = fates \/ inc.pc = "idle")

LEMMA ElsewhereWay ==
    ASSUME Way, Elsewhere
    PROVE  Way'
<1>1. CASE fates' = fates
  BY <1>1, WayAside DEF Elsewhere
<1>2. CASE inc.pc = "idle"
  BY <1>2, WayOver DEF Elsewhere, Frame
<1>. QED BY <1>1, <1>2 DEF Elsewhere

LEMMA NothingChanged ==
    ASSUME Way, UNCHANGED <<list, db, inc, rules, asked>>, changes' = 0 => changes = 0,
           fates' = fates \/ inc.pc = "idle"
    PROVE  Elsewhere
BY DEF Elsewhere, Frame, StillBanned, Calm, SameDb, Way, BannedOK

LEMMA ChangesAside ==
    ASSUME Counted, Safe, Way, NEW new, Changed(new), Change(new)
    PROVE  Elsewhere
<1>1. /\ changes' = changes + 1 /\ db' = new
      /\ asked' = [asked EXCEPT !.changed = TRUE, !.banned = @ \cap new.banned]
      /\ UNCHANGED <<list, inc, rules, fates>>
  BY DEF Change
<1>2. changes' # 0
  BY <1>1 DEF Counted
<1>3. /\ asked'.file = asked.file /\ asked'.db = asked.db
      /\ asked'.banned = asked.banned \cap new.banned
  BY <1>1 DEF Safe, TypeOK
<1>. QED BY <1>1, <1>2, <1>3 DEF Elsewhere, Frame, StillBanned, Calm

LEMMA PeopleElsewhere ==
    ASSUME Counted, Safe, Way, People
    PROVE  Elsewhere
<1>1. CASE Unshunt
  <2>1. changes' = changes + 1 /\ UNCHANGED <<list, db, inc, rules, asked, fates>>
    BY <1>1 DEF Unshunt, history
  <2>2. changes' # 0
    BY <2>1 DEF Counted
  <2>. QED BY <2>1, <2>2, NothingChanged
<1>2. CASE Repost
  <2>1. inc.pc = "idle" /\ UNCHANGED <<list, db, inc, rules, asked, changes>>
    BY <1>2 DEF Repost, Quiet
  <2>. QED BY <2>1, NothingChanged
<1>. QED BY <1>1, <1>2, ChangeCases, ChangesAside

LEMMA PipelineElsewhere ==
    ASSUME Safe, Way, RunPip \/ CrashPip \/ FailPip
    PROVE  Elsewhere
<1>1. CASE CommitPip
  <2>1. UNCHANGED <<list, inc, rules, asked, fates, changes>>
        /\ db' = [db EXCEPT !.posts = pip.posts]
    BY <1>1 DEF CommitPip, history, bounds
  <2>2. SameDb(db', db)
    BY <2>1 DEF SameDb, Safe, TypeOK, DbOK
  <2>. QED BY <2>1, <2>2 DEF Elsewhere, Frame, StillBanned, Calm, SameDb, Way, BannedOK
<1>2. CASE TakePip \/ Handle \/ FinishPip \/ ShuntPip \/ CrashPip \/ FailPip
  <2>1. UNCHANGED <<list, db, inc, rules, asked, fates, changes>>
    BY <1>2 DEF TakePip, Handle, FinishPip, ShuntPip, CrashPip, FailPip, history, bounds
  <2>. QED BY <2>1, NothingChanged
<1>. QED BY <1>1, <1>2 DEF RunPip

LEMMA CommandsElsewhere ==
    ASSUME Counted, Safe, Way, RunCom \/ CrashCom \/ UnshuntCommand
    PROVE  Elsewhere
<1>1. CASE JoinCommand \/ LeaveCommand \/ ConfirmCommand \/ EndCommand \/ OtherCommand
  <2>1. PICK w, n : Did(w, n)
    BY <1>1, SafeParts, CommandDoes
  <2>2. UNCHANGED <<list, db, inc, rules, asked, fates, changes>>
    BY <2>1 DEF Did, history, bounds
  <2>. QED BY <2>2, NothingChanged
<1>2. CASE CommitCom
  <2>1. /\ UNCHANGED <<list, inc, rules, fates, changes>>
        /\ db' = [db EXCEPT !.member = [a \in Addrs |->
                              IF a \in DOMAIN com.changed THEN com.changed[a] ELSE @[a]],
                        !.pended = (@ \cup com.pended) \ com.settled,
                        !.responded = @ \cup com.responded]
        /\ asked' = [asked EXCEPT !.changed = TRUE]
    BY <1>2 DEF CommitCom, bounds
  <2>2. db'.banned = db.banned /\ db'.headers = db.headers
    BY <2>1 DEF Safe, TypeOK, DbOK
  <2>3. /\ asked'.file = asked.file /\ asked'.db = asked.db /\ asked'.banned = asked.banned
        /\ asked'.changed
    BY <2>1 DEF Safe, TypeOK
  <2>. QED BY <2>1, <2>2, <2>3 DEF Elsewhere, Frame, StillBanned, Calm, Way, BannedOK
<1>3. CASE UnshuntCommand
  <2>1. changes' = changes + 1 /\ UNCHANGED <<list, db, inc, rules, asked, fates>>
    BY <1>3 DEF UnshuntCommand, history
  <2>2. changes' # 0
    BY <2>1 DEF Counted
  <2>. QED BY <2>1, <2>2, NothingChanged
<1>4. CASE TakeCom \/ SendResults \/ FinishCom \/ ShuntCom \/ CrashCom
  <2>1. UNCHANGED <<list, db, inc, rules, asked, fates, changes>>
    <3>1. TakeCom \/ SendResults \/ ShuntCom
          => UNCHANGED <<list, db, inc, rules, asked, fates, changes>>
      BY DEF TakeCom, SendResults, ShuntCom, history, bounds
    <3>2. FinishCom \/ CrashCom => UNCHANGED <<list, db, inc, rules, asked, fates, changes>>
      BY DEF FinishCom, CrashCom, vars, history, bounds
    <3>. QED BY <1>4, <3>1, <3>2
  <2>. QED BY <2>1, NothingChanged
<1>. QED BY <1>1, <1>2, <1>3, <1>4 DEF RunCom

LEMMA LmtpElsewhere ==
    ASSUME Way, RunLmtp \/ FailToDeliver \/ CrashLmtp \/ ReplyComesBack
    PROVE  Elsewhere
<1>0. vars' = vars => Elsewhere
  BY NothingChanged DEF vars, history, bounds
<1>1. CASE Deliver \/ FailToDeliver \/ CrashLmtp
  <2>1. UNCHANGED <<list, db, inc, rules, asked, fates, changes>>
    BY <1>1 DEF Deliver, FailToDeliver, CrashLmtp, history, bounds
  <2>. QED BY <2>1, NothingChanged
<1>2. CASE Connect \/ Refuse
  <2>1. vars' = vars
    BY <1>2, Zenon DEF Connect, Refuse
  <2>. QED BY <1>0, <2>1
<1>3. CASE Tell
  <2>1. vars' = vars
    BY <1>3, Zenon DEF Tell
  <2>. QED BY <1>0, <2>1
<1>4. CASE ReplyComesBack
  <2>1. vars' = vars
    BY <1>4 DEF ReplyComesBack
  <2>. QED BY <1>0, <2>1
<1>. QED BY <1>1, <1>2, <1>3, <1>4 DEF RunLmtp

--------------------------------------------------------------------------------
(***************************************************************************)
(* Following a link.                                                       *)
(***************************************************************************)
(* What is the case whenever a link was followed and the rule did not fail.*)
Following(link) ==
    /\ Counted /\ Safe /\ Way /\ inc.pc = "link" /\ NextLink(link) /\ Went(link)
    /\ ~Fails(link, list, inc.m) /\ UNCHANGED <<list, db, asked, changes>>

LEMMA FollowedAlike ==
    ASSUME NEW link, Following(link)
    PROVE  /\ Alike(inc'.m, asked.file.m) /\ Alike(inc.m, asked.file.m)
           /\ link.rule # "approved" => inc'.m = inc.m
           /\ \A x \in DataKept : inc'.d[x] = inc.d[x] /\ inc.d[x] = asked.file.d[x]
           /\ FileOK(asked.file) /\ IsMessage(inc.m)
           /\ CheckedAs(inc'.d, link, list, inc.m, inc.d, Seen)
<1>1. IsMessage(inc.m) /\ DOMAIN inc.d = DataFields
  BY DEF Following, Safe, TypeOK, IncOK
<1>2. /\ FileOK(asked.file) /\ Alike(inc.m, asked.file.m)
      /\ \A x \in DataKept : inc.d[x] = asked.file.d[x]
  BY DEF Following, Way, TakenOK, Underway
<1>3. inc'.m = Stripped(link, list, inc.m) /\ inc'.d = Checked(link, list, inc.m, inc.d, Seen)
  BY DEF Following, Went
<1>4. /\ Alike(inc'.m, inc.m)
      /\ link.rule # "approved" => inc'.m = inc.m
  BY <1>1, <1>3, StrippedOK DEF Alike
<1>5. Alike(inc'.m, asked.file.m)
  BY <1>2, <1>4 DEF Alike
<1>6. CheckedAs(inc'.d, link, list, inc.m, inc.d, Seen)
  BY <1>1, <1>3, CheckedOK
<1>7. \A x \in DataKept : inc'.d[x] = inc.d[x]
  <2>1. DataKept \subseteq DataFields \ {"hits", "action", "dmarc", "dmarcAction"}
    BY DEF DataKept, DataFields
  <2>. QED BY <1>6, <2>1 DEF CheckedAs
<1>. QED BY <1>1, <1>2, <1>4, <1>5, <1>6, <1>7

LEMMA FollowedMuted ==
    ASSUME NEW link, Following(link)
    PROVE  Muted' <=> Muted
<1>1. inc'.d.toOwner = inc.d.toOwner
  BY FollowedAlike DEF DataKept
<1>. QED BY <1>1 DEF Following, Muted

(* The list of header matches, and the one that is being looked at.        *)
RulesKept ==
    changes = 0 => \A i \in DOMAIN rules :
                       i \in DOMAIN db.headers /\ rules[i] = db.headers[i].pattern
LEMMA Remembered ==
    ASSUME Way, inc.pc = "link", Remember, UNCHANGED <<db, changes>>
    PROVE  RulesKept'
<1> SUFFICES ASSUME changes' = 0
             PROVE  \A i \in DOMAIN rules' :
                        i \in DOMAIN db.headers /\ rules'[i] = db.headers[i].pattern
  BY DEF RulesKept
<1>1. /\ \A i \in DOMAIN rules : i \in DOMAIN db.headers /\ rules[i] = db.headers[i].pattern
      /\ InHeaderMatch => inc.entries = db.headers
  BY DEF Way, RulesOK
<1>2. CASE inc.chain = "header-match" /\ Position \in DOMAIN inc.entries
  <2>1. inc.entries = db.headers
    BY <1>1, <1>2 DEF InHeaderMatch
  <2>2. rules' = [i \in {Position} \cup DOMAIN rules |->
                      IF i = Position THEN RuleOf[i] ELSE rules[i]]
    BY <1>2 DEF Remember
  <2>3. RuleOf[Position] = db.headers[Position].pattern
    BY <1>1, <1>2, <2>1 DEF RuleOf
  <2>. QED BY <1>1, <1>2, <2>1, <2>2, <2>3
<1>3. CASE ~(inc.chain = "header-match" /\ Position \in DOMAIN inc.entries)
  <2>1. rules' = rules
    BY <1>3 DEF Remember
  <2>. QED BY <1>1, <2>1
<1>. QED BY <1>2, <1>3

LEMMA FollowedRules ==
    ASSUME NEW link, Following(link), Remember
    PROVE  RulesOK'
<1>1. RulesKept'
  BY Remembered DEF Following
<1>2. changes = 0 /\ InHeaderMatch => inc.entries = db.headers
  BY DEF Following, Way, RulesOK
<1>3. changes' = 0 /\ InHeaderMatch' => inc'.entries = db'.headers
  BY <1>2 DEF Following, Went, InHeaderMatch
<1>. QED BY <1>1, <1>3 DEF RulesKept, RulesOK

(* The fate is noted in the first link of a terminal chain.                *)
LEMMA FollowedClosed ==
    ASSUME NEW link, Following(link), Fated, ChainOK'
    PROVE  ClosedOK'
<1>0. /\ inc.pc = "link" /\ NextLink(link) /\ Went(link) /\ ClosedOK
      /\ inc.chain \in Terminal => inc.next \in {1, 2}
      /\ fates \in Seq(Ends)
  BY DEF Following, Safe, ChainOK, Way, FateOK
<1>1. CASE inc.chain \in Terminal /\ inc.next = 1
  <2>1. fates' = Append(fates, inc.chain)
    BY <1>0, <1>1 DEF Fated
  <2>2. LastFate(inc.chain)'  <=> inc'.chain = inc.chain
    <3>1. Len(fates') = Len(fates) + 1 /\ Len(fates) \in Nat /\ fates' # <<>>
          /\ fates'[Len(fates) + 1] = inc.chain
      BY <1>0, <2>1
    <3>. QED BY <3>1 DEF LastFate
  <2>3. link.action = "run" /\ link.rule = "truth"
    BY <1>0, <1>1 DEF NextLink, Terminal, Link
  <2>4. inc'.chain = inc.chain /\ inc'.pc = "link"
    BY <1>0, <2>3 DEF Went, Jumps
  <2>. QED BY <1>1, <2>2, <2>4 DEF ClosedOK, Closed
<1>2. CASE inc.chain \in Terminal /\ inc.next = 2
  <2>1. fates' = fates
    BY <1>2 DEF Fated
  <2>2. link.action = "stop" /\ link.rule = "truth"
    BY <1>0, <1>2 DEF NextLink, Terminal, Link
  <2>3. inc'.chain = inc.chain /\ inc'.pc = "finish"
    BY <1>0, <2>2 DEF Went, Jumps, Hit, Matches
  <2>4. LastFate(inc.chain)
    BY <1>0, <1>2 DEF ClosedOK, Closed
  <2>. QED BY <1>2, <2>1, <2>3, <2>4 DEF ClosedOK, Closed, LastFate
<1>3. CASE inc.chain \notin Terminal
  <2>1. link.action \in {"jump", "detour", "defer"}
    <3>1. CASE inc.chain = "default-posting-chain" /\ link = BuiltInChain[inc.next]
      <4>1. inc.next \in 1 .. 18
        BY <1>0, <3>1 DEF Following, Safe, ChainOK
      <4>2. \A k \in 1 .. 18 : BuiltInChain[k].action \in {"jump", "detour", "defer"}
        BY BuiltIn DEF Link
      <4>. QED BY <3>1, <4>1, <4>2
    <3>2. CASE ~(inc.chain = "default-posting-chain" /\ link = BuiltInChain[inc.next])
      BY <1>0, <1>3, <3>2 DEF NextLink, SiteLink, HeaderLink, Link
    <3>. QED BY <3>1, <3>2
  <2>2. inc'.pc = "link" /\ (inc'.chain = inc.chain \/ inc'.next = 1)
    BY <1>0, <2>1 DEF Went
  <2>. QED BY <1>3, <2>2 DEF ClosedOK, Closed
<1>. QED BY <1>0, <1>1, <1>2, <1>3


LEMMA Targets ==
    ASSUME NEW link, Following(link), Jumps(link)
    PROVE  /\ link.chain \in Terminal \cup {"dmarc", "moderation", "header-match"}
           /\ inc.chain # "default-posting-chain" => link.chain \in Terminal
<1>0. inc.pc = "link" /\ NextLink(link) /\ ChainOK /\ IncOK
  BY DEF Following, Safe, TypeOK
<1>1. CASE inc.chain = "default-posting-chain" /\ link = BuiltInChain[inc.next]
  <2>1. inc.next \in 1 .. 18
    BY <1>0, <1>1 DEF ChainOK
  <2>2. \A k \in 1 .. 18 :
            \/ BuiltInChain[k].chain \in Terminal \cup {"dmarc", "moderation", "header-match"}
            \/ BuiltInChain[k].action = "defer"
    BY BuiltIn DEF Link, Terminal
  <2>. QED BY <1>1, <2>1, <2>2 DEF Jumps
<1>2. CASE inc.chain = "header-match" /\ inc.next \in 1 .. Sites /\ link = SiteLink(inc.next)
  BY <1>2 DEF Jumps, SiteLink, HeaderLink
<1>3. CASE inc.chain = "header-match" /\ link = Link("any", "jump", JumpChain)
  BY <1>3, RulesAssumption DEF Link, Terminal
<1>4. CASE /\ inc.chain = "header-match" /\ Position \in 1 .. Len(inc.entries)
           /\ link = HeaderLink(RuleOf[Position], "jump", OwnChain(inc.entries[Position]))
  <2> DEFINE e == inc.entries[Position]
  <2>1. link.chain = OwnChain(e)
    BY <1>4 DEF HeaderLink
  <2>2. e.chain \in {"none"} \cup Actions
    <3>1. inc.entries \in Seq(HeaderMatch)
      BY <1>0 DEF IncOK
    <3>2. e \in HeaderMatch
      BY <1>4, <3>1
    <3> HIDE DEF e
    <3>. QED BY <3>2 DEF HeaderMatch
  <2>3. link.chain # "defer"
    BY DEF Following, Fails
  <2> HIDE DEF e
  <2>4. link.chain \in Terminal
    BY <2>1, <2>2, <2>3, RulesAssumption DEF OwnChain, Actions, Terminal
  <2>. QED BY <1>4, <2>4
<1>5. CASE inc.chain = "moderation" /\ link = Link("truth", "jump", inc.d.action)
  BY <1>0, <1>5 DEF Link, ChainOK, Decisions, Terminal
<1>6. CASE inc.chain = "dmarc" /\ link = Link("truth", "jump", inc.d.dmarcAction)
  BY <1>0, <1>6 DEF Link, ChainOK, Terminal
<1>7. CASE /\ inc.chain \in Terminal
           /\ link \in {Link("truth", "run", "none"), Link("truth", "stop", "none")}
  BY <1>7 DEF Link, Jumps
<1>. QED BY <1>0, <1>1, <1>2, <1>3, <1>4, <1>5, <1>6, <1>7 DEF NextLink

(* A link followed: Rest are the parts that do not depend on which one.    *)
Leaving(link) == Following(link) /\ Remember /\ Fated /\ ChainOK'

LEMMA FollowedTaken ==
    ASSUME NEW link, Following(link), InPosting' => InPosting
    PROVE  TakenOK'
<1>1. /\ Alike(inc'.m, asked.file.m) /\ FileOK(asked.file)
      /\ \A x \in DataKept : inc'.d[x] = asked.file.d[x]
      /\ link.rule # "approved" => inc'.m = inc.m
  BY FollowedAlike
<1>2. asked' = asked /\ inc'.pc \in {"link", "finish"} /\ Went(link) /\ NextLink(link) /\ TakenOK
  BY DEF Following, Went, Way
<1>3. ASSUME InPosting', inc'.next <= 3 PROVE inc'.m.approve = asked.file.m.approve
  <2>1. InPosting
    BY <1>3
  <2>2. inc.next \in 1 .. 18 /\ link = BuiltInChain[inc.next]
    BY <1>2, <2>1 DEF InPosting, Following, Safe, ChainOK, NextLink, Terminal
  <2>3. ~Jumps(link)
    BY <1>3, Targets DEF InPosting, Terminal, Following, Went
  <2>4. inc'.next = inc.next + 1
    BY <1>2, <2>3 DEF Went
  <2>5. inc.next \in {1, 2}
    BY <1>3, <2>2, <2>4
  <2>6. link.rule # "approved"
    BY <2>2, <2>5, BuiltIn DEF Link
  <2>7. Underway /\ inc.next <= 3
    BY <2>1, <2>5 DEF Underway, InPosting
  <2>. QED BY <1>1, <1>2, <2>1, <2>6, <2>7 DEF TakenOK
<1>. QED BY <1>1, <1>2, <1>3 DEF TakenOK, Alike, InPosting

LEMMA ArriveWay ==
    ASSUME NEW link, Leaving(link), Jumps(link), link.chain # "header-match",
           Muted => link.chain \in {"dmarc", "hold", "discard", "reject"},
           Calm => /\ link.chain = "moderation" => Decided(inc'.d.action)
                   /\ link.chain = "dmarc" => Decided(inc'.d.dmarcAction)
                   /\ link.chain \in Terminal => Decided(link.chain)
    PROVE  Way'
<1>0. Following(link) /\ inc'.pc = "link" /\ inc'.chain = link.chain /\ inc'.next = 1
  BY DEF Leaving, Following, Went, Jumps
<1>1. ~InPosting' /\ ~InHeaderMatch'
  BY <1>0, Targets DEF InPosting, InHeaderMatch, Terminal
<1>2. UNCHANGED <<list, db, asked, changes>> /\ BannedOK /\ PathOK /\ Underway
  BY <1>0 DEF Following, Way, Underway
<1>3. TakenOK' /\ RulesOK' /\ ClosedOK'
  BY <1>0, <1>1, FollowedTaken, FollowedRules, FollowedClosed DEF Leaving
<1>4. BannedOK'
  BY <1>0, <1>2, FollowedMuted DEF BannedOK
<1>5. PathOK'
  <2> SUFFICES ASSUME Calm' PROVE PathOK'
    BY DEF PathOK
  <2>1. Calm /\ SameDb(db', asked'.db)
    BY <1>2 DEF Calm, PathOK, SameDb
  <2>2. /\ link.chain = "moderation" => Decided(inc.d.action)'
        /\ link.chain = "dmarc" => Decided(inc.d.dmarcAction)'
        /\ link.chain \in Terminal => Decided(inc.chain)'
    <3>1. \A x : Decided(x)' <=> Decided(x)
      BY <1>2, SameCase
    <3>. QED BY <1>0, <2>1, <3>1
  <2>. QED BY <1>0, <1>1, <2>1, <2>2 DEF PathOK
<1>. QED BY <1>3, <1>4, <1>5 DEF Way

LEMMA OnwardWay ==
    ASSUME NEW link, Leaving(link), Onward, InPosting \/ InHeaderMatch,
           Muted => InPosting /\ inc.next <= 5,
           Calm => /\ InPosting => PostingAt(inc'.next, inc'.strangers, inc'.d.hits)
                   /\ InHeaderMatch => HeaderAt(inc'.next, inc'.strangers, inc'.d.hits)
    PROVE  Way'
<1>0. Following(link) /\ inc'.pc = "link" /\ inc'.chain = inc.chain /\ inc'.next = inc.next + 1
  BY DEF Leaving, Onward
<1>1. /\ InPosting' = InPosting /\ InHeaderMatch' = InHeaderMatch
      /\ inc'.chain \notin Terminal \cup {"dmarc", "moderation"}
  BY <1>0 DEF InPosting, InHeaderMatch, Following, Terminal
<1>2. UNCHANGED <<list, db, asked, changes>> /\ BannedOK /\ PathOK /\ Underway
  BY <1>0 DEF Following, Way, Underway
<1>3. TakenOK' /\ RulesOK' /\ ClosedOK'
  BY <1>0, <1>1, FollowedTaken, FollowedRules, FollowedClosed DEF Leaving
<1>4. BannedOK'
  <2>1. (InPosting /\ inc.next <= 5) => InPosting' /\ inc'.next <= 6
    <3>1. InPosting => inc.next \in 1 .. 18
      BY <1>0 DEF InPosting, Following, Safe, ChainOK
    <3>. QED BY <1>0, <1>1, <3>1
  <2>. QED BY <1>0, <1>2, <2>1, FollowedMuted DEF BannedOK
<1>5. PathOK'
  <2> SUFFICES ASSUME Calm' PROVE PathOK'
    BY DEF PathOK
  <2>1. Calm /\ SameDb(db', asked'.db)
    BY <1>2 DEF Calm, PathOK, SameDb
  <2>2. (InPosting => PostingPath') /\ (InHeaderMatch => HeaderPath')
    BY <1>2, <2>1, SamePath DEF PostingPath, HeaderPath
  <2>. QED BY <1>0, <1>1, <2>1, <2>2 DEF PathOK
<1>. QED BY <1>3, <1>4, <1>5 DEF Way


--------------------------------------------------------------------------------
(***************************************************************************)
(* Where each link leads.                                                  *)
(***************************************************************************)
LEMMA RuledNext == \A n \in Nat : Ruled(n) /\ ~Case(n + 1).if => Ruled(n + 1)
<1>1. \A n \in Nat : \A i \in 1 .. (n + 1) : i \in 1 .. n \/ i = n + 1
  OBVIOUS
<1>. QED BY <1>1 DEF Ruled

LEMMA RuledBy ==
    ASSUME NEW n \in 1 .. 12, Ruled(n - 1), Case(n).if
    PROVE  Decided(Case(n).fate)
BY DEF Decided

(* What the rules say, as the cases say it.                                *)
LEMMA CalmRules ==
    ASSUME NEW link, Following(link), Calm, inc.strangers = {}
    PROVE  /\ SameRulings(list, inc.m, asked.file.m, Seen, asked.db)
           /\ SameDb(Seen, asked.db)
<1>1. Alike(inc.m, asked.file.m)
  BY FollowedAlike
<1>2. SameDb(db, asked.db)
  BY DEF Following, Way, PathOK, Underway
<1>3. SameDb(Seen, asked.db)
  BY <1>2, SeenOK DEF Following, Safe, TypeOK, SameDb
<1>4. SameRulings(list, inc.m, asked.file.m, Seen, asked.db)
  BY <1>1, <1>3, SameRules
<1>. QED BY <1>3, <1>4

LEMMA BannedFound ==
    ASSUME NEW link, Following(link), Muted
    PROVE  BannedAddress(inc.m, Seen)
<1>1. Senders(inc.m) = Senders(asked.file.m)
  <2>1. Alike(inc.m, asked.file.m)
    BY FollowedAlike
  <2>2. SameDb(db, db)
    BY DEF SameDb
  <2>3. SameRulings(list, inc.m, asked.file.m, db, db)
    BY <2>1, <2>2, SameRules
  <2>. QED BY <2>3 DEF SameRulings
<1>2. Seen.banned = db.banned /\ asked.banned \subseteq db.banned
  BY SeenOK DEF Following, Safe, TypeOK, Way, BannedOK
<1>3. \E a \in Range(Senders(asked.file.m)) : a \in asked.banned
  BY DEF Muted
<1>. QED BY <1>1, <1>2, <1>3 DEF BannedAddress, IsBanned

(* The posting chain, and what is known of it at the current link.         *)
PostingHere(link) ==
    /\ Leaving(link) /\ InPosting /\ link = BuiltInChain[inc.next] /\ inc.next \in 1 .. 18
    /\ Muted => inc.next <= 6
    /\ Calm => PostingAt(inc.next, inc.strangers, inc.d.hits)
LEMMA PostingFacts ==
    ASSUME NEW link, Leaving(link), InPosting
    PROVE  PostingHere(link)
<1>1. Following(link) /\ inc.pc = "link" /\ inc.chain = "default-posting-chain" /\ Underway
  BY DEF Leaving, InPosting, Underway
<1>2. inc.next \in 1 .. 18 /\ link = BuiltInChain[inc.next]
  BY <1>1 DEF Following, Safe, ChainOK, NextLink, Terminal
<1>3. Muted => inc.next <= 6
  BY <1>1 DEF Following, Way, BannedOK
<1>4. Calm => PostingAt(inc.next, inc.strangers, inc.d.hits)
  BY <1>1 DEF Following, Way, PathOK, PostingPath
<1>. QED BY <1>2, <1>3, <1>4 DEF PostingHere

(* A link that jumps when its rule hits, and is the last word then.        *)
LEMMA JumpWay ==
    ASSUME NEW link, PostingHere(link), link.action = "jump", Hit(link),
           link.chain \in Terminal,
           Muted => link.chain \in {"hold", "discard", "reject"},
           Calm => Decided(link.chain)
    PROVE  Way'
<1>1. Jumps(link) /\ link.chain \notin {"header-match", "moderation", "dmarc"}
  BY DEF Jumps, Terminal
<1>. QED BY <1>1, ArriveWay DEF PostingHere

(* One that does not hit, or defers.                                       *)
Passes(link) ==
    /\ PostingHere(link) /\ link.action \in {"jump", "defer"} /\ (Hit(link) => link.action = "defer")
LEMMA PassWay ==
    ASSUME NEW link, Passes(link), Muted => inc.next <= 5,
           Calm => PostingAt(inc.next + 1, inc'.strangers, inc'.d.hits)
    PROVE  Way'
<1>1. Onward
  BY DEF Passes, PostingHere, Leaving, Following, Onward, Went, Jumps
<1>2. ~InHeaderMatch /\ InPosting /\ inc'.next = inc.next + 1
  BY <1>1 DEF Passes, PostingHere, InPosting, InHeaderMatch, Onward
<1>. QED BY <1>1, <1>2, OnwardWay DEF Passes, PostingHere

LEMMA PassesSame ==
    ASSUME NEW link, PostingHere(link), ~Hit(link)
    PROVE  /\ inc'.d.hits = inc.d.hits
           /\ link.rule # "nonmember-moderation" => inc'.strangers = inc.strangers
<1>1. Following(link)
  BY DEF PostingHere, Leaving
<1>2. CheckedAs(inc'.d, link, list, inc.m, inc.d, Seen)
  BY <1>1, FollowedAlike
<1>. QED BY <1>1, <1>2 DEF Following, Went, CheckedAs, Hit

(* The links whose rule is one case and whose chain is its fate.           *)
LEMMA SimpleLink ==
    ASSUME NEW link, PostingHere(link), NEW n \in {3, 4, 5, 6},
           link.action = "jump", link.chain \in Terminal, link.chain = Case(n).fate,
           link.rule # "nonmember-moderation",
           inc.next <= 6, Passed[inc.next] = n - 1,
           Muted /\ link.chain = "accept" => ~Hit(link),
           Muted => inc.next <= 5 \/ Hit(link),
           Muted /\ Hit(link) => link.chain \in {"accept", "hold", "discard", "reject"},
           (Calm /\ Hit(link)) => Case(n).if,
           (Calm /\ ~Hit(link)) =>
               Ruled(Passed[inc.next + 1]) /\ (inc.next + 1 = 6 => ~Loop(asked.file.m))
    PROVE  Way'
<1>1. CASE Hit(link)
  <2>1. Calm => Decided(link.chain)
    BY <1>1, RuledBy DEF PostingHere, PostingAt
  <2>. QED BY <1>1, <2>1, JumpWay
<1>2. CASE ~Hit(link)
  <2>1. Passes(link) /\ (Muted => inc.next <= 5)
    BY <1>2 DEF Passes
  <2>2. inc.next \in 1 .. 6
    BY DEF PostingHere
  <2>3. inc.next + 1 <= 9 /\ inc.next + 1 <= 10 /\ inc.next + 1 \notin 10 .. 17 /\ inc.next <= 9
        /\ inc.next <= 10
    BY <2>2
  <2>4. Calm => PostingAt(inc.next + 1, inc'.strangers, inc'.d.hits)
    BY <1>2, <2>3, PassesSame DEF PostingHere, PostingAt
  <2>. QED BY <2>1, <2>4, PassWay
<1>. QED BY <1>1, <1>2

(* The rules before the detour, one by one.                                *)
LinkIs(link, rule, action, chain) ==
    link.rule = rule /\ link.action = action /\ link.chain = chain
KnownHere ==
    /\ SameRulings(list, inc.m, asked.file.m, Seen, asked.db)
    /\ Ruled(Passed[inc.next]) /\ inc.strangers = {}
    /\ inc.next = 6 => ~Loop(asked.file.m)
LEMMA EarlyFacts ==
    ASSUME NEW link, PostingHere(link), Calm, inc.next <= 9
    PROVE  KnownHere
<1>1. inc.strangers = {} /\ Ruled(Passed[inc.next]) /\ (inc.next = 6 => ~Loop(asked.file.m))
  BY DEF PostingHere, PostingAt
<1>2. Following(link)
  BY DEF PostingHere, Leaving
<1>3. SameRulings(list, inc.m, asked.file.m, Seen, asked.db)
  BY <1>1, <1>2, CalmRules
<1>. QED BY <1>1, <1>3 DEF KnownHere

LEMMA DmarcWay ==
    ASSUME NEW link, PostingHere(link), inc.next = 1
    PROVE  Way'
<1>1. LinkIs(link, "dmarc-mitigation", "jump", "dmarc")
  BY BuiltIn DEF PostingHere, Link, LinkIs
<1>2. Hit(link) <=> DmarcMitigation(list, inc.m)
  BY <1>1 DEF LinkIs, Hit, Matches
<1>3. (Case(2).if <=> DmarcMitigation(list, asked.file.m)) /\ Case(2).fate = list.dmarcAction
  BY CaseIs DEF Case, CasesAre
<1>4. Passed[1] = 1 /\ Passed[2] = 2
  BY DEF Passed
<1>5. Calm => KnownHere
  BY EarlyFacts
<1>6. Calm => Ruled(1) /\ (Hit(link) <=> Case(2).if)
  BY <1>2, <1>3, <1>4, <1>5 DEF KnownHere, SameRulings
<1>7. CASE Hit(link)
  <2>1. Calm => Decided(inc'.d.dmarcAction)
    <3>1. Calm => Decided(Case(2).fate)
      BY <1>6, <1>7, RuledBy
    <3>2. CheckedAs(inc'.d, link, list, inc.m, inc.d, Seen)
      BY FollowedAlike DEF PostingHere, Leaving
    <3>3. inc'.d.dmarcAction = list.dmarcAction
      BY <1>1, <1>7, <3>2 DEF CheckedAs, LinkIs, Hit
    <3>. QED BY <1>3, <3>1, <3>3
  <2>2. Jumps(link) /\ link.chain = "dmarc"
    BY <1>1, <1>7 DEF Jumps, LinkIs
  <2>. QED BY <2>1, <2>2, ArriveWay DEF PostingHere, Terminal
<1>8. CASE ~Hit(link)
  <2>1. Passes(link)
    BY <1>1, <1>8 DEF Passes, LinkIs
  <2>2. Calm => Ruled(2)
    <3>1. 1 \in Nat /\ 1 + 1 = 2
      OBVIOUS
    <3>. QED BY <1>6, <1>8, <3>1, RuledNext
  <2>3. inc'.d.hits = inc.d.hits /\ inc'.strangers = inc.strangers
    BY <1>1, <1>8, PassesSame DEF LinkIs
  <2>4. inc.next + 1 = 2 /\ 2 <= 10 /\ 2 <= 9 /\ 2 # 6 /\ 2 \notin 10 .. 17 /\ 1 <= 10 /\ 1 <= 5
    OBVIOUS
  <2>5. Calm => PostingAt(2, inc'.strangers, inc'.d.hits)
    BY <1>4, <2>2, <2>3, <2>4 DEF PostingHere, PostingAt
  <2>. QED BY <2>1, <2>4, <2>5, PassWay
<1>. QED BY <1>7, <1>8

LEMMA NoSendersWay ==
    ASSUME NEW link, PostingHere(link), inc.next = 2
    PROVE  Way'
<1>1. LinkIs(link, "no-senders", "jump", "discard")
  BY BuiltIn DEF PostingHere, Link, LinkIs
<1>2. Hit(link) <=> NoSenders(inc.m)
  BY <1>1 DEF LinkIs, Hit, Matches
<1>3. (Case(3).if <=> NoSenders(asked.file.m)) /\ Case(3).fate = "discard"
  BY CaseIs DEF Case, CasesAre
<1>4. Passed[2] = 2 /\ Passed[2 + 1] = 3 /\ 3 - 1 = 2 /\ 3 # 6 /\ 2 + 1 # 6
  BY DEF Passed
<1>5. Calm => KnownHere
  BY EarlyFacts
<1>6. Calm => Ruled(2) /\ (Hit(link) <=> Case(3).if)
  BY <1>2, <1>3, <1>4, <1>5 DEF KnownHere, SameRulings
<1>7. (Calm /\ ~Hit(link)) => Ruled(3)
  BY <1>6, RuledNext
<1>. QED BY <1>1, <1>3, <1>4, <1>6, <1>7, SimpleLink DEF LinkIs, Terminal

LEMMA ApprovedWay ==
    ASSUME NEW link, PostingHere(link), inc.next = 3
    PROVE  Way'
<1>1. LinkIs(link, "approved", "jump", "accept")
  BY BuiltIn DEF PostingHere, Link, LinkIs
<1>2. Hit(link) <=> Approved(list, inc.m)
  BY <1>1 DEF LinkIs, Hit, Matches
<1>3. (Case(4).if <=> Approved(list, asked.file.m)) /\ Case(4).fate = "accept"
  BY CaseIs DEF Case, CasesAre
<1>4. Passed[3] = 3 /\ Passed[3 + 1] = 4 /\ 4 - 1 = 3 /\ 3 + 1 # 6
  BY DEF Passed
<1>5. Calm => KnownHere
  BY EarlyFacts
<1>6. Approved(list, inc.m) <=> Approved(list, asked.file.m)
  <2>1. inc.m.approve = asked.file.m.approve
    BY DEF PostingHere, Leaving, Following, Way, TakenOK, Underway
  <2>. QED BY <2>1 DEF Approved
<1>7. Calm => Ruled(3) /\ (Hit(link) <=> Case(4).if)
  BY <1>2, <1>3, <1>4, <1>5, <1>6 DEF KnownHere
<1>8. (Calm /\ ~Hit(link)) => Ruled(4)
  BY <1>7, RuledNext
<1>9. Muted => ~Hit(link)
  BY <1>2, <1>6 DEF Muted
<1>. QED BY <1>1, <1>3, <1>4, <1>7, <1>8, <1>9, SimpleLink DEF LinkIs, Terminal

LEMMA EmergencyWay ==
    ASSUME NEW link, PostingHere(link), inc.next = 4
    PROVE  Way'
<1>1. LinkIs(link, "emergency", "jump", "hold")
  BY BuiltIn DEF PostingHere, Link, LinkIs
<1>2. Hit(link) <=> Emergency(list, inc.d)
  BY <1>1 DEF LinkIs, Hit, Matches
<1>3. (Case(5).if <=> Emergency(list, asked.file.d)) /\ Case(5).fate = "hold"
  BY CaseIs DEF Case, CasesAre
<1>4. Passed[4] = 4 /\ Passed[4 + 1] = 5 /\ 5 - 1 = 4 /\ 4 + 1 # 6
  BY DEF Passed
<1>5. Calm => KnownHere
  BY EarlyFacts
<1>6. Emergency(list, inc.d) <=> Emergency(list, asked.file.d)
  <2>1. inc.d.moderatorApproved = asked.file.d.moderatorApproved
    BY FollowedAlike DEF PostingHere, Leaving, DataKept
  <2>. QED BY <2>1 DEF Emergency
<1>7. Calm => Ruled(4) /\ (Hit(link) <=> Case(5).if)
  BY <1>2, <1>3, <1>4, <1>5, <1>6 DEF KnownHere
<1>8. (Calm /\ ~Hit(link)) => Ruled(5)
  BY <1>7, RuledNext
<1>. QED BY <1>1, <1>3, <1>4, <1>7, <1>8, SimpleLink DEF LinkIs, Terminal

LEMMA LoopWay ==
    ASSUME NEW link, PostingHere(link), inc.next = 5
    PROVE  Way'
<1>1. LinkIs(link, "loop", "jump", "discard")
  BY BuiltIn DEF PostingHere, Link, LinkIs
<1>2. Hit(link) <=> Loop(inc.m)
  BY <1>1 DEF LinkIs, Hit, Matches
<1>3. (Loop(asked.file.m) => Case(6).if) /\ Case(6).fate = "discard"
  BY CaseIs DEF Case, CasesAre
<1>4. Passed[5] = 5 /\ Passed[5 + 1] = 5 /\ 6 - 1 = 5
  BY DEF Passed
<1>5. Calm => KnownHere
  BY EarlyFacts
<1>6. Calm => Ruled(5) /\ (Hit(link) <=> Loop(asked.file.m))
  BY <1>2, <1>3, <1>4, <1>5 DEF KnownHere, SameRulings
<1>. QED BY <1>1, <1>3, <1>4, <1>6, SimpleLink DEF LinkIs, Terminal

LEMMA BannedWay ==
    ASSUME NEW link, PostingHere(link), inc.next = 6
    PROVE  Way'
<1>1. LinkIs(link, "banned-address", "jump", "discard")
  BY BuiltIn DEF PostingHere, Link, LinkIs
<1>2. Hit(link) <=> BannedAddress(inc.m, Seen)
  BY <1>1 DEF LinkIs, Hit, Matches
<1>3. /\ Case(6).if <=> Loop(asked.file.m) \/ BannedAddress(asked.file.m, asked.db)
      /\ Case(6).fate = "discard"
  BY CaseIs DEF Case, CasesAre
<1>4. Passed[6] = 5 /\ Passed[6 + 1] = 6 /\ 6 - 1 = 5 /\ 6 + 1 # 6
  BY DEF Passed
<1>5. Calm => KnownHere
  BY EarlyFacts
<1>6. Calm => Ruled(5) /\ (Hit(link) <=> Case(6).if)
  BY <1>2, <1>3, <1>4, <1>5 DEF KnownHere, SameRulings
<1>7. (Calm /\ ~Hit(link)) => Ruled(6)
  BY <1>6, RuledNext
<1>8. Muted => Hit(link)
  BY <1>2, BannedFound DEF PostingHere, Leaving
<1>. QED BY <1>1, <1>3, <1>4, <1>6, <1>7, <1>8, SimpleLink DEF LinkIs, Terminal

(* From the rule about members on nobody banned is here.                   *)
LEMMA MemberWay ==
    ASSUME NEW link, PostingHere(link), inc.next = 7
    PROVE  Way'
<1>1. LinkIs(link, "member-moderation", "jump", "moderation")
  BY BuiltIn DEF PostingHere, Link, LinkIs
<1>2. Hit(link) <=> MemberModeration(list, inc.m, Seen)
  BY <1>1 DEF LinkIs, Hit, Matches
<1>3. /\ Case(6).if <=> Loop(asked.file.m) \/ BannedAddress(asked.file.m, asked.db)
      /\ Case(7).if <=> MemberAction(list, asked.file.m, asked.db) # "defer"
      /\ Case(7).fate = MemberAction(list, asked.file.m, asked.db)
  BY CaseIs DEF Case, CasesAre
<1>4. Passed[7] = 6 /\ Passed[8] = 7
  BY DEF Passed
<1>5. ~Muted
  BY DEF PostingHere
<1>6. ASSUME Calm
      PROVE  /\ KnownHere /\ Ruled(6) /\ (Hit(link) <=> Case(7).if)
             /\ MemberAction(list, inc.m, Seen) = Case(7).fate
  <2>1. KnownHere /\ Ruled(6)
    BY <1>4, <1>6, EarlyFacts DEF KnownHere
  <2>2. 6 \in 1 .. 6
    OBVIOUS
  <2>3. ~BannedAddress(asked.file.m, asked.db)
    BY <1>3, <2>1, <2>2 DEF Ruled
  <2>. QED BY <1>2, <1>3, <2>1, <2>3 DEF KnownHere, SameRulings, MemberModeration
<1>7. CASE Hit(link)
  <2>1. inc'.d.action = MemberAction(list, inc.m, Seen)
    <3>1. CheckedAs(inc'.d, link, list, inc.m, inc.d, Seen)
      BY FollowedAlike DEF PostingHere, Leaving
    <3>. QED BY <1>1, <1>7, <3>1 DEF CheckedAs, LinkIs, Hit
  <2>2. Calm => Decided(inc'.d.action)
    BY <1>6, <1>7, <2>1, RuledBy
  <2>3. Jumps(link) /\ link.chain = "moderation"
    BY <1>1, <1>7 DEF Jumps, LinkIs
  <2>. QED BY <1>5, <2>2, <2>3, ArriveWay DEF PostingHere, Terminal
<1>8. CASE ~Hit(link)
  <2>1. Passes(link)
    BY <1>1, <1>8 DEF Passes, LinkIs
  <2>2. Calm => Ruled(7)
    <3>1. 6 \in Nat /\ 6 + 1 = 7
      OBVIOUS
    <3>. QED BY <1>6, <1>8, <3>1, RuledNext
  <2>3. inc'.d.hits = inc.d.hits /\ inc'.strangers = inc.strangers
    BY <1>1, <1>8, PassesSame DEF LinkIs
  <2>4. inc.next + 1 = 8 /\ 8 <= 10 /\ 8 <= 9 /\ 8 # 6 /\ 8 \notin 10 .. 17 /\ 7 <= 10 /\ 7 <= 9
    OBVIOUS
  <2>5. Calm => PostingAt(8, inc'.strangers, inc'.d.hits)
    BY <1>4, <2>2, <2>3, <2>4 DEF PostingHere, PostingAt
  <2>. QED BY <1>5, <2>1, <2>4, <2>5, PassWay
<1>. QED BY <1>7, <1>8

(* The detour: the header matches are those of the database.               *)
LEMMA DetourWay ==
    ASSUME NEW link, PostingHere(link), inc.next = 8
    PROVE  Way'
<1>1. LinkIs(link, "truth", "detour", "header-match")
  BY BuiltIn DEF PostingHere, Link, LinkIs
<1>2. Jumps(link)
  BY <1>1 DEF LinkIs, Hit, Jumps, Matches
<1>3. /\ Following(link) /\ inc'.pc = "link" /\ inc'.chain = "header-match" /\ inc'.next = 1
      /\ inc'.entries = db.headers /\ inc'.strangers = inc.strangers
  BY <1>1, <1>2 DEF PostingHere, Leaving, Following, Went, LinkIs, Jumps
<1>4. InHeaderMatch' /\ ~InPosting' /\ "header-match" \notin Terminal
  BY <1>3 DEF InHeaderMatch, InPosting, Terminal
<1>5. UNCHANGED <<list, db, asked, changes>> /\ BannedOK /\ PathOK /\ Underway
  BY <1>3 DEF Following, Way, Underway
<1>6. TakenOK' /\ RulesOK' /\ ClosedOK'
  BY <1>3, <1>4, FollowedTaken, FollowedRules, FollowedClosed DEF PostingHere, Leaving
<1>7. BannedOK'
  <2>1. ~Muted
    BY DEF PostingHere
  <2>. QED BY <1>3, <1>5, <2>1, FollowedMuted DEF BannedOK
<1>8. PathOK'
  <2> SUFFICES ASSUME Calm' PROVE SameDb(db', asked'.db) /\ HeaderPath'
    BY <1>3, <1>4 DEF PathOK
  <2>1. Calm /\ SameDb(db', asked'.db)
    BY <1>5 DEF Calm, PathOK, SameDb
  <2>2. Passed[8] = 7 /\ 8 <= 9 /\ 8 <= 10
    BY DEF Passed
  <2>3. Ruled(7) /\ inc.strangers = {} /\ inc.d.hits = {}
    BY <2>1, <2>2 DEF PostingHere, PostingAt
  <2>4. inc'.d.hits = {}
    <3>1. CheckedAs(inc'.d, link, list, inc.m, inc.d, Seen)
      BY <1>3, FollowedAlike
    <3>. QED BY <1>1, <2>3, <3>1 DEF CheckedAs, LinkIs, Unrecorded
  <2>5. Sites \in Nat
    BY RulesAssumption DEF Sites
  <2>6. 1 .. (1 - 1) = {} /\ ~(1 > Sites + 1)
    BY <2>5
  <2>7. HeaderAt(1, inc'.strangers, inc'.d.hits)
    BY <1>3, <2>3, <2>4, <2>6 DEF HeaderAt
  <2>8. HeaderPath'
    BY <1>3, <1>5, <2>7, SamePath DEF HeaderPath
  <2>. QED BY <2>1, <2>8
<1>. QED BY <1>6, <1>7, <1>8 DEF Way

LEMMA NonmemberWay ==
    ASSUME NEW link, PostingHere(link), inc.next = 9
    PROVE  Way'
<1>1. LinkIs(link, "nonmember-moderation", "jump", "moderation")
  BY BuiltIn DEF PostingHere, Link, LinkIs
<1>2. Hit(link) <=> NonmemberModeration(list, inc.m, Seen)
  BY <1>1 DEF LinkIs, Hit, Matches
<1>3. /\ Case(10).if <=> NonmemberModeration(list, asked.file.m, asked.db)
      /\ Case(10).fate = NonmemberAction(list, asked.file.m, asked.db)
  BY CaseIs DEF Case, CasesAre
<1>4. Passed[9] = 9 /\ Passed[10] = 10
  BY DEF Passed
<1>5. ~Muted
  BY DEF PostingHere
<1>6. ASSUME Calm
      PROVE  /\ KnownHere /\ Ruled(9) /\ (Hit(link) <=> Case(10).if)
             /\ NonmemberAction(list, inc.m, Seen) = Case(10).fate
  <2>1. KnownHere /\ Ruled(9)
    BY <1>4, <1>6, EarlyFacts DEF KnownHere
  <2>. QED BY <1>2, <1>3, <2>1 DEF KnownHere, SameRulings
<1>7. CASE Hit(link)
  <2>1. inc'.d.action = NonmemberAction(list, inc.m, Seen)
    <3>1. CheckedAs(inc'.d, link, list, inc.m, inc.d, Seen)
      BY FollowedAlike DEF PostingHere, Leaving
    <3>. QED BY <1>1, <1>7, <3>1 DEF CheckedAs, LinkIs, Hit
  <2>2. Calm => Decided(inc'.d.action)
    <3>1. 10 - 1 = 9 /\ 10 \in 1 .. 12
      OBVIOUS
    <3>. QED BY <1>6, <1>7, <2>1, <3>1, RuledBy
  <2>3. Jumps(link) /\ link.chain = "moderation"
    BY <1>1, <1>7 DEF Jumps, LinkIs
  <2>. QED BY <1>5, <2>2, <2>3, ArriveWay DEF PostingHere, Terminal
<1>8. CASE ~Hit(link)
  <2>1. Passes(link)
    BY <1>1, <1>8 DEF Passes, LinkIs
  <2>2. Calm => Ruled(10)
    <3>1. 9 \in Nat /\ 9 + 1 = 10
      OBVIOUS
    <3>. QED BY <1>6, <1>8, <3>1, RuledNext
  <2>3. inc'.d.hits = inc.d.hits
    BY <1>1, <1>8, PassesSame DEF LinkIs
  <2>4. inc.next + 1 = 10 /\ ~(10 <= 9) /\ 10 # 6 /\ 10 .. (10 - 1) = {} /\ 9 <= 10
    OBVIOUS
  <2>5. Calm => PostingAt(10, inc'.strangers, inc'.d.hits)
    BY <1>4, <2>2, <2>3, <2>4 DEF PostingHere, PostingAt
  <2>. QED BY <1>5, <2>1, <2>4, <2>5, PassWay
<1>. QED BY <1>7, <1>8

(* The rules that only note what they find.                                *)
LEMMA CuriousSame ==
    ASSUME NEW link, PostingHere(link), inc.next \in 10 .. 16
    PROVE  Hit(link) <=> Curious(inc.next)
<1>1. Alike(inc.m, asked.file.m) /\ inc.d.fromUsenet = asked.file.d.fromUsenet
  BY FollowedAlike DEF PostingHere, Leaving, DataKept
<1>2. SameCuriosity(list, inc.m, asked.file.m)
  BY <1>1, SameCurious
<1>3. link = BuiltInChain[inc.next]
  BY DEF PostingHere
<1>4. CASE inc.next = 10
  <2>1. Hit(link) <=> Administrivia(list, inc.m)
    BY <1>3, <1>4, BuiltIn DEF Hit, Matches, Link
  <2>2. Curious(10) <=> Administrivia(list, asked.file.m)
    BY DEF Curious
  <2>. QED BY <1>2, <1>4, <2>1, <2>2 DEF SameCuriosity
<1>5. CASE inc.next = 11
  <2>1. Hit(link) <=> ImplicitDestination(list, inc.m, inc.d)
    BY <1>3, <1>5, BuiltIn DEF Hit, Matches, Link
  <2>2. Curious(11) <=> ImplicitDestination(list, asked.file.m, asked.file.d)
    BY DEF Curious
  <2>. QED BY <1>1, <1>2, <1>5, <2>1, <2>2 DEF SameCuriosity
<1>6. CASE inc.next = 12
  <2>1. Hit(link) <=> MaximumRecipients(list, inc.m)
    BY <1>3, <1>6, BuiltIn DEF Hit, Matches, Link
  <2>2. Curious(12) <=> MaximumRecipients(list, asked.file.m)
    BY DEF Curious
  <2>. QED BY <1>2, <1>6, <2>1, <2>2 DEF SameCuriosity
<1>7. CASE inc.next = 13
  <2>1. Hit(link) <=> MaximumSize(list, inc.m)
    BY <1>3, <1>7, BuiltIn DEF Hit, Matches, Link
  <2>2. Curious(13) <=> MaximumSize(list, asked.file.m)
    BY DEF Curious
  <2>. QED BY <1>2, <1>7, <2>1, <2>2 DEF SameCuriosity
<1>8. CASE inc.next = 14
  <2>1. Hit(link) <=> ModeratedNewsgroup(list)
    BY <1>3, <1>8, BuiltIn DEF Hit, Matches, Link
  <2>2. Curious(14) <=> ModeratedNewsgroup(list)
    BY DEF Curious
  <2>. QED BY <1>8, <2>1, <2>2
<1>9. CASE inc.next = 15
  <2>1. Hit(link) <=> NoSubject(inc.m)
    BY <1>3, <1>9, BuiltIn DEF Hit, Matches, Link
  <2>2. Curious(15) <=> NoSubject(asked.file.m)
    BY DEF Curious
  <2>. QED BY <1>2, <1>9, <2>1, <2>2 DEF SameCuriosity
<1>10. CASE inc.next = 16
  <2>1. Hit(link) <=> SuspiciousHeader(list, inc.m)
    BY <1>3, <1>10, BuiltIn DEF Hit, Matches, Link
  <2>2. Curious(16) <=> SuspiciousHeader(list, asked.file.m)
    BY DEF Curious
  <2>. QED BY <1>2, <1>10, <2>1, <2>2 DEF SameCuriosity
<1>11. inc.next \in {10, 11, 12, 13, 14, 15, 16}
  OBVIOUS
<1>. QED BY <1>4, <1>5, <1>6, <1>7, <1>8, <1>9, <1>10, <1>11

LEMMA CuriousWay ==
    ASSUME NEW link, PostingHere(link), inc.next \in 10 .. 16
    PROVE  Way'
<1>1. link.action = "defer" /\ link.rule \notin Unrecorded
  <2>1. \A i \in 10 .. 16 : BuiltInChain[i].action = "defer"
                           /\ BuiltInChain[i].rule \notin Unrecorded
    BY BuiltIn DEF Link, Unrecorded
  <2>. QED BY <2>1 DEF PostingHere
<1>2. Passes(link)
  BY <1>1 DEF Passes
<1>3. ~Muted
  BY DEF PostingHere
<1>4. inc'.d.hits = IF Hit(link) THEN inc.d.hits \cup {link.rule} ELSE inc.d.hits
  <2>1. CheckedAs(inc'.d, link, list, inc.m, inc.d, Seen)
    BY FollowedAlike DEF PostingHere, Leaving
  <2>. QED BY <1>1, <2>1 DEF CheckedAs, Hit
<1>5. inc'.d.hits # {} <=> inc.d.hits # {} \/ Curious(inc.next)
  BY <1>4, CuriousSame
<1>6. ASSUME Calm PROVE PostingAt(inc.next + 1, inc'.strangers, inc'.d.hits)
  <2> DEFINE n == inc.next
  <2>1. Ruled(Passed[n]) /\ (inc.d.hits # {} <=> \E i \in 10 .. (n - 1) : Curious(i))
    BY <1>6 DEF PostingHere, PostingAt
  <2>2. \A k \in 10 .. 16 : /\ k + 1 \in 11 .. 17 /\ k + 1 \in 10 .. 17 /\ k + 1 # 6
                            /\ ~(k + 1 <= 9) /\ ~(k + 1 <= 10) /\ k \in 1 .. 18
                            /\ k + 1 \in 1 .. 18 /\ (k + 1) - 1 = k
                            /\ \A i : i \in 10 .. k <=> i \in 10 .. (k - 1) \/ i = k
    OBVIOUS
  <2>3. Passed[n] = 10 /\ Passed[n + 1] = 10
    BY DEF Passed
  <2> HIDE DEF n
  <2>4. n \in 10 .. 16
    BY DEF n
  <2>5. inc'.d.hits # {} <=> \E i \in 10 .. n : Curious(i)
    BY <1>5, <2>1, <2>2, <2>4 DEF n
  <2>6. PostingAt(n + 1, inc'.strangers, inc'.d.hits)
    BY <2>1, <2>2, <2>3, <2>4, <2>5 DEF PostingAt
  <2>. QED BY <2>6 DEF n
<1>. QED BY <1>2, <1>3, <1>6, PassWay

LEMMA AnyWay ==
    ASSUME NEW link, PostingHere(link), inc.next = 17
    PROVE  Way'
<1>1. LinkIs(link, "any", "jump", "hold")
  BY BuiltIn DEF PostingHere, Link, LinkIs
<1>2. Hit(link) <=> inc.d.hits # {}
  BY <1>1 DEF LinkIs, Hit, Matches, AnyRule
<1>3. Case(11).fate = "hold" /\ (Case(11).if <=> \E i \in 10 .. 16 : Curious(i))
  <2>1. (\E i \in 10 .. 16 : Curious(i)) <=> \/ Curious(10) \/ Curious(11) \/ Curious(12)
                                            \/ Curious(13) \/ Curious(14) \/ Curious(15)
                                            \/ Curious(16)
    <3>1. \A i : i \in 10 .. 16 <=> i \in {10, 11, 12, 13, 14, 15, 16}
      OBVIOUS
    <3> DEFINE P(i) == Curious(i)
    <3> HIDE DEF P
    <3>2. (\E i \in 10 .. 16 : P(i)) <=> \/ P(10) \/ P(11) \/ P(12) \/ P(13) \/ P(14) \/ P(15)
                                        \/ P(16)
      BY <3>1
    <3>. QED BY <3>2 DEF P
  <2>2. /\ Curious(10) <=> Administrivia(list, asked.file.m)
        /\ Curious(11) <=> ImplicitDestination(list, asked.file.m, asked.file.d)
        /\ Curious(12) <=> MaximumRecipients(list, asked.file.m)
        /\ Curious(13) <=> MaximumSize(list, asked.file.m)
        /\ Curious(14) <=> ModeratedNewsgroup(list)
        /\ Curious(15) <=> NoSubject(asked.file.m)
        /\ Curious(16) <=> SuspiciousHeader(list, asked.file.m)
    BY DEF Curious
  <2>. QED BY <2>1, <2>2, CaseIs DEF Case, CasesAre
<1>4. Passed[17] = 10 /\ Passed[18] = 11
  BY DEF Passed
<1>5. ~Muted
  BY DEF PostingHere
<1>6. Calm => Ruled(10) /\ (Hit(link) <=> Case(11).if)
  <2>1. 17 \in 10 .. 17 /\ 17 - 1 = 16
    OBVIOUS
  <2>. QED BY <1>2, <1>3, <1>4, <2>1 DEF PostingHere, PostingAt
<1>7. CASE Hit(link)
  <2>1. Calm => Decided("hold")
    <3>1. 11 - 1 = 10 /\ 11 \in 1 .. 12
      OBVIOUS
    <3>2. Calm => Decided(Case(11).fate)
      BY <1>6, <1>7, <3>1, RuledBy
    <3>. QED BY <1>3, <3>2
  <2>. QED BY <1>1, <1>5, <1>7, <2>1, JumpWay DEF LinkIs, Terminal
<1>8. CASE ~Hit(link)
  <2>1. Passes(link)
    BY <1>1, <1>8 DEF Passes, LinkIs
  <2>2. Calm => Ruled(11)
    <3>1. 10 \in Nat /\ 10 + 1 = 11
      OBVIOUS
    <3>. QED BY <1>6, <1>8, <3>1, RuledNext
  <2>3. inc.next + 1 = 18 /\ ~(18 <= 9) /\ ~(18 <= 10) /\ 18 # 6 /\ 18 \notin 10 .. 17
    OBVIOUS
  <2>4. Calm => PostingAt(18, inc'.strangers, inc'.d.hits)
    BY <1>4, <2>2, <2>3 DEF PostingAt
  <2>. QED BY <1>5, <2>1, <2>3, <2>4, PassWay
<1>. QED BY <1>7, <1>8

LEMMA AcceptWay ==
    ASSUME NEW link, PostingHere(link), inc.next = 18
    PROVE  Way'
<1>1. LinkIs(link, "truth", "jump", "accept")
  BY BuiltIn DEF PostingHere, Link, LinkIs
<1>2. Hit(link)
  BY <1>1 DEF LinkIs, Hit, Matches
<1>3. Case(12).if /\ Case(12).fate = "accept"
  BY CaseIs DEF Case, CasesAre
<1>4. Passed[18] = 11 /\ 12 - 1 = 11 /\ 12 \in 1 .. 12
  BY DEF Passed
<1>5. Calm => Decided("accept")
  <2>1. Calm => Decided(Case(12).fate)
    BY <1>3, <1>4, RuledBy DEF PostingHere, PostingAt
  <2>. QED BY <1>3, <2>1
<1>6. ~Muted
  BY DEF PostingHere
<1>. QED BY <1>1, <1>2, <1>5, <1>6, JumpWay DEF LinkIs, Terminal

LEMMA PostingWay ==
    ASSUME NEW link, Leaving(link), InPosting
    PROVE  Way'
<1>1. PostingHere(link)
  BY PostingFacts
<1>2. inc.next \in {1, 2, 3, 4, 5, 6, 7, 8, 9, 17, 18} \cup 10 .. 16
  BY <1>1 DEF PostingHere
<1>3. CASE inc.next \in 1 .. 6
  <2>1. inc.next \in {1, 2, 3, 4, 5, 6}
    BY <1>3
  <2>. QED BY <1>1, <2>1, DmarcWay, NoSendersWay, ApprovedWay, EmergencyWay, LoopWay, BannedWay
<1>4. CASE inc.next \in {7, 8, 9, 17, 18} \cup 10 .. 16
  BY <1>1, <1>4, MemberWay, DetourWay, NonmemberWay, CuriousWay, AnyWay, AcceptWay
<1>. QED BY <1>2, <1>3, <1>4

--------------------------------------------------------------------------------
(* The header matches.                                                     *)
HeadersHere(link) ==
    /\ Leaving(link) /\ InHeaderMatch /\ ~Muted
    /\ Calm => /\ HeaderAt(inc.next, inc.strangers, inc.d.hits)
               /\ SameRulings(list, inc.m, asked.file.m, Seen, asked.db)
               /\ inc.entries = asked.db.headers /\ db.headers = asked.db.headers
LEMMA HeadersFacts ==
    ASSUME NEW link, Leaving(link), InHeaderMatch
    PROVE  HeadersHere(link)
<1>1. /\ Following(link) /\ inc.pc = "link" /\ inc.chain = "header-match"
      /\ Underway /\ ~InPosting
  BY DEF Leaving, InHeaderMatch, Underway, InPosting
<1>2. ~Muted
  BY <1>1 DEF Following, Way, BannedOK
<1>3. ASSUME Calm
      PROVE  /\ HeaderAt(inc.next, inc.strangers, inc.d.hits) /\ SameDb(db, asked.db)
             /\ inc.entries = db.headers
  BY <1>1, <1>3 DEF Following, Way, PathOK, HeaderPath, RulesOK, Calm
<1>4. Calm => inc.entries = asked.db.headers /\ db.headers = asked.db.headers
  BY <1>3 DEF SameDb
<1>5. Calm => SameRulings(list, inc.m, asked.file.m, Seen, asked.db)
  <2>1. Calm => inc.strangers = {}
    BY <1>3 DEF HeaderAt
  <2>. QED BY <1>1, <2>1, CalmRules
<1>. QED BY <1>2, <1>3, <1>4, <1>5 DEF HeadersHere

(* One that does not jump.                                                 *)
LEMMA NextHeader ==
    ASSUME NEW link, HeadersHere(link), ~Jumps(link), link.action \in {"jump", "defer"},
           Calm => HeaderAt(inc.next + 1, inc'.strangers, inc'.d.hits)
    PROVE  Way'
<1>1. Onward
  BY DEF HeadersHere, Leaving, Following, Onward, Went
<1>2. InHeaderMatch /\ ~InPosting /\ inc'.next = inc.next + 1
  BY <1>1 DEF HeadersHere, InPosting, InHeaderMatch, Onward
<1>. QED BY <1>1, <1>2, OnwardWay DEF HeadersHere

(* What follows from numbers alone.                                        *)
LEMMA Places ==
    ASSUME NEW s \in Nat
    PROVE  /\ \A n \in 1 .. s : /\ n + 1 <= s + 1 /\ n <= s + 1 /\ ~(n + 1 > s + 1)
                                /\ (n + 1) - 1 = n
                                /\ \A i : i \in 1 .. n <=> i \in 1 .. (n - 1) \/ i = n
           /\ s + 1 <= s + 1 /\ (s + 1) - 1 = s /\ (s + 1) + 1 > s + 1
           /\ ~((s + 1) + 1 <= s + 1) /\ (s + 1) + 1 - s - 2 = 0
           /\ \A n \in Nat, j \in Nat \ {0} :
                 n - s - 1 = j => /\ n > s + 1 /\ n - s - 2 = j - 1
                                  /\ n + 1 > s + 1 /\ ~(n + 1 <= s + 1)
                                  /\ n + 1 - s - 2 = j
                                  /\ \A i : i \in 1 .. j <=> i \in 1 .. (j - 1) \/ i = j
<1>. QED OBVIOUS

LEMMA SiteWay ==
    ASSUME NEW link, HeadersHere(link), inc.next \in 1 .. Sites, link = SiteLink(inc.next)
    PROVE  Way'
<1>1. link.action = "defer" /\ link.rule = "header-match" /\ link.pattern = SiteChecks[inc.next]
  BY DEF SiteLink, HeaderLink
<1>2. /\ inc'.d.hits = IF Hit(link) THEN inc.d.hits \cup {link.rule} ELSE inc.d.hits
      /\ inc'.strangers = inc.strangers
  <2>1. CheckedAs(inc'.d, link, list, inc.m, inc.d, Seen)
    BY FollowedAlike DEF HeadersHere, Leaving
  <2>. QED BY <1>1, <2>1 DEF CheckedAs, Hit, Unrecorded, HeadersHere, Leaving, Following, Went
<1>3. ASSUME Calm PROVE HeaderAt(inc.next + 1, inc'.strangers, inc'.d.hits)
  <2> DEFINE n == inc.next
  <2>0. Sites \in Nat
    BY RulesAssumption DEF Sites
  <2>1. Hit(link) <=> SiteHit(n)
    BY <1>1, <1>3 DEF HeadersHere, Hit, Matches, SameRulings, SiteHit
  <2>2. inc'.d.hits # {} <=> inc.d.hits # {} \/ SiteHit(n)
    BY <1>2, <2>1
  <2>3. n <= Sites + 1
    BY <2>0
  <2>4. /\ Ruled(7) /\ inc.strangers = {}
        /\ inc.d.hits # {} <=> \E i \in 1 .. (n - 1) : SiteHit(i)
    BY <1>3, <2>3 DEF HeadersHere, HeaderAt
  <2> HIDE DEF n
  <2>5. /\ ~(n + 1 > Sites + 1) /\ (n + 1) - 1 = n
        /\ \A i : i \in 1 .. n <=> i \in 1 .. (n - 1) \/ i = n
    BY <2>0, Places DEF n
  <2>6. inc'.d.hits # {} <=> \E i \in 1 .. n : SiteHit(i)
    BY <2>2, <2>4, <2>5
  <2>7. HeaderAt(n + 1, inc'.strangers, inc'.d.hits)
    BY <1>2, <2>4, <2>5, <2>6 DEF HeaderAt
  <2>. QED BY <2>7 DEF n
<1>4. ~Jumps(link)
  BY <1>1 DEF Jumps
<1>. QED BY <1>1, <1>3, <1>4, NextHeader

LEMMA AnySiteWay ==
    ASSUME NEW link, HeadersHere(link), inc.next = Sites + 1,
           link = Link("any", "jump", JumpChain)
    PROVE  Way'
<1>1. LinkIs(link, "any", "jump", JumpChain)
  BY DEF Link, LinkIs
<1>2. /\ inc'.d.hits = inc.d.hits /\ inc'.strangers = inc.strangers
  <2>1. CheckedAs(inc'.d, link, list, inc.m, inc.d, Seen)
    BY FollowedAlike DEF HeadersHere, Leaving
  <2>. QED BY <1>1, <2>1 DEF LinkIs, CheckedAs, Unrecorded, HeadersHere, Leaving, Following, Went
<1>3. Hit(link) <=> inc.d.hits # {}
  BY <1>1 DEF LinkIs, Hit, Matches, AnyRule
<1>4. Sites \in Nat /\ DOMAIN SiteChecks = 1 .. Sites
  BY RulesAssumption DEF Sites
<1>5. Case(8).fate = JumpChain /\ (Case(8).if <=> \E i \in 1 .. Sites : SiteHit(i))
  <2>1. {i \in DOMAIN SiteChecks : HeaderMatchRule(asked.file.m, SiteChecks[i])} # {}
        <=> \E i \in 1 .. Sites : SiteHit(i)
    BY <1>4 DEF SiteHit
  <2>. QED BY <2>1, CaseIs DEF Case, CasesAre
<1>6. inc.next <= Sites + 1 /\ inc.next - 1 = Sites
  BY <1>4, Places
<1>7. Calm => Ruled(7) /\ inc.strangers = {} /\ (Hit(link) <=> Case(8).if)
  BY <1>3, <1>5, <1>6 DEF HeadersHere, HeaderAt
<1>8. CASE Hit(link)
  <2>1. Calm => Decided(JumpChain)
    <3>1. 8 - 1 = 7 /\ 8 \in 1 .. 12
      OBVIOUS
    <3>2. Calm => Decided(Case(8).fate)
      BY <1>7, <1>8, <3>1, RuledBy
    <3>. QED BY <1>5, <3>2
  <2>2. Jumps(link) /\ link.chain = JumpChain
    BY <1>1, <1>8 DEF Jumps, LinkIs
  <2>3. JumpChain \notin {"header-match", "moderation", "dmarc"}
    BY RulesAssumption
  <2>. QED BY <2>1, <2>2, <2>3, ArriveWay DEF HeadersHere
<1>9. CASE ~Hit(link)
  <2>1. Calm => Ruled(8)
    <3>1. 7 \in Nat /\ 7 + 1 = 8
      OBVIOUS
    <3>. QED BY <1>7, <1>9, <3>1, RuledNext
  <2>2. Calm => HeaderAt(inc.next + 1, inc'.strangers, inc'.d.hits)
    <3> DEFINE n == inc.next + 1
    <3>1. n - Sites - 2 = 0 /\ ~(n <= Sites + 1)
      BY <1>4
    <3> HIDE DEF n
    <3>2. 1 .. (n - Sites - 2) = {}
      BY <3>1
    <3>3. Calm => HeaderAt(n, inc'.strangers, inc'.d.hits)
      BY <1>2, <1>3, <1>7, <1>9, <2>1, <3>1, <3>2 DEF HeaderAt
    <3>. QED BY <3>3 DEF n
  <2>3. ~Jumps(link) /\ link.action = "jump"
    BY <1>1, <1>9 DEF Jumps, LinkIs
  <2>. QED BY <2>2, <2>3, NextHeader
<1>. QED BY <1>8, <1>9

LEMMA OwnWay ==
    ASSUME NEW link, HeadersHere(link), Position \in 1 .. Len(inc.entries),
           link = HeaderLink(RuleOf[Position], "jump", OwnChain(inc.entries[Position]))
    PROVE  Way'
<1> DEFINE j == Position
           headers == asked.db.headers
           own == {i \in DOMAIN headers : HeaderMatchRule(asked.file.m, headers[i].pattern)}
<1>1. LinkIs(link, "header-match", "jump", OwnChain(inc.entries[j])) /\ link.pattern = RuleOf[j]
  BY DEF HeaderLink, LinkIs
<1>2. Following(link) /\ inc'.strangers = inc.strangers
      /\ (~Hit(link) => inc'.d.hits = inc.d.hits)
  <2>1. Following(link) /\ CheckedAs(inc'.d, link, list, inc.m, inc.d, Seen)
    BY FollowedAlike DEF HeadersHere, Leaving
  <2>. QED BY <1>1, <2>1 DEF LinkIs, CheckedAs, Following, Went, Hit
<1>3. /\ Sites \in Nat /\ inc.next \in Nat /\ j \in Nat \ {0} /\ j \in DOMAIN inc.entries
      /\ inc.next - Sites - 1 = j
  <2>1. inc.entries \in Seq(HeaderMatch)
    BY <1>2 DEF Following, Safe, TypeOK, IncOK
  <2>2. Sites \in Nat
    BY RulesAssumption DEF Sites
  <2>3. Len(inc.entries) \in Nat /\ DOMAIN inc.entries = 1 .. Len(inc.entries)
    BY <2>1
  <2>4. inc.next \in 1 .. (Sites + Len(inc.entries) + 2)
    BY <1>2 DEF Following, Safe, ChainOK, HeadersHere, InHeaderMatch
  <2>. QED BY <2>2, <2>3, <2>4 DEF Position, Sites
<1>4. /\ inc.next > Sites + 1 /\ inc.next - Sites - 2 = j - 1
      /\ inc.next + 1 > Sites + 1 /\ ~(inc.next + 1 <= Sites + 1)
      /\ inc.next + 1 - Sites - 2 = j
      /\ \A i : i \in 1 .. j <=> i \in 1 .. (j - 1) \/ i = j
  BY <1>3, Places
<1>5. ASSUME Calm
      PROVE  /\ (Hit(link) <=> OwnHit(j)) /\ link.chain = OwnChain(headers[j])
             /\ Ruled(8) /\ inc.d.hits = {} /\ inc.strangers = {} /\ j \in DOMAIN headers
             /\ \A i \in 1 .. (j - 1) : ~OwnHit(i)
  <2>1. inc.entries = headers /\ db.headers = headers
    BY <1>5 DEF HeadersHere
  <2>2. RuleOf[j] = headers[j].pattern
    <3>1. j \in DOMAIN rules => rules[j] = db.headers[j].pattern
      BY <1>2, <1>5 DEF Following, Way, RulesOK, Calm
    <3>. QED BY <1>3, <2>1, <3>1 DEF RuleOf
  <2>3. Hit(link) <=> HeaderMatchRule(inc.m, headers[j].pattern)
    BY <1>1, <2>2 DEF LinkIs, Hit, Matches
  <2>4. Hit(link) <=> OwnHit(j)
    BY <1>5, <2>3 DEF HeadersHere, SameRulings, OwnHit
  <2>5. HeaderAt(inc.next, inc.strangers, inc.d.hits)
    BY <1>5 DEF HeadersHere
  <2>6. Ruled(8) /\ inc.d.hits = {} /\ inc.strangers = {} /\ \A i \in 1 .. (j - 1) : ~OwnHit(i)
    <3> HIDE DEF j
    <3>. QED BY <1>4, <2>5 DEF HeaderAt
  <2>. QED BY <1>1, <1>3, <2>1, <2>4, <2>6 DEF LinkIs
<1> HIDE DEF j
<1>6. CASE Hit(link)
  <2>1. ASSUME Calm PROVE Decided(link.chain)
    <3>1. j \in own /\ own \subseteq DOMAIN headers
      BY <1>5, <1>6, <2>1 DEF OwnHit
    <3>2. DOMAIN headers \subseteq Nat
      <4>1. headers = inc.entries /\ inc.entries \in Seq(HeaderMatch)
        BY <1>2, <2>1 DEF HeadersHere, Following, Safe, TypeOK, IncOK
      <4>. QED BY <4>1
    <3>3. ASSUME NEW i \in own PROVE j <= i
      <4>1. OwnHit(i) /\ i \in Nat /\ i # 0
        <5>1. i \in DOMAIN headers /\ headers = inc.entries /\ inc.entries \in Seq(HeaderMatch)
          BY <1>2, <2>1 DEF HeadersHere, Following, Safe, TypeOK, IncOK
        <5>2. OwnHit(i)
          BY DEF OwnHit
        <5>. QED BY <5>1, <5>2
      <4>2. i \notin 1 .. (j - 1)
        BY <1>5, <2>1, <4>1
      <4>. QED BY <1>3, <4>1, <4>2
    <3>4. Case(9).if /\ Case(9).fate = OwnChain(headers[Min(own)])
      BY <3>1, CaseIs DEF Case, CasesAre
    <3> HIDE DEF own, headers
    <3>5. own \in SUBSET Nat
      BY <3>1, <3>2
    <3>6. Min(own) = j
      BY <3>1, <3>3, <3>5, LeastIs
    <3>7. 9 - 1 = 8 /\ 9 \in 1 .. 12
      OBVIOUS
    <3>8. Decided(Case(9).fate)
      BY <1>5, <2>1, <3>4, <3>7, RuledBy
    <3>. QED BY <1>5, <2>1, <3>4, <3>6, <3>8
  <2>2. Jumps(link)
    BY <1>1, <1>6 DEF Jumps, LinkIs
  <2>3. link.chain \notin {"header-match", "moderation", "dmarc"}
    BY <1>2, <2>2, Targets DEF HeadersHere, InHeaderMatch, Terminal
  <2>. QED BY <2>1, <2>2, <2>3, ArriveWay DEF HeadersHere
<1>7. CASE ~Hit(link)
  <2>1. ASSUME Calm PROVE HeaderAt(inc.next + 1, inc'.strangers, inc'.d.hits)
    <3>1. \A i \in 1 .. j : ~OwnHit(i)
      BY <1>4, <1>5, <1>7, <2>1
    <3>2. Ruled(8) /\ inc'.d.hits = {} /\ inc'.strangers = {}
      BY <1>2, <1>5, <1>7, <2>1
    <3>3. Ruled(7)
      <4>1. 1 .. 7 \subseteq 1 .. 8
        OBVIOUS
      <4>. QED BY <3>2, <4>1 DEF Ruled
    <3> DEFINE n == inc.next + 1
    <3>4. n - Sites - 2 = j /\ ~(n <= Sites + 1)
      BY <1>3
    <3> HIDE DEF n
    <3>5. HeaderAt(n, inc'.strangers, inc'.d.hits)
      BY <3>1, <3>2, <3>3, <3>4 DEF HeaderAt
    <3>. QED BY <3>5 DEF n
  <2>2. ~Jumps(link) /\ link.action = "jump"
    BY <1>1, <1>7 DEF Jumps, LinkIs
  <2>. QED BY <2>1, <2>2, NextHeader
<1>. QED BY <1>6, <1>7

--------------------------------------------------------------------------------
(***************************************************************************)
(* Every step.                                                             *)
(***************************************************************************)
LEMMA ModerationWay ==
    ASSUME NEW link, Leaving(link), inc.chain = "moderation"
    PROVE  Way'
<1>1. Following(link) /\ inc.pc = "link" /\ NextLink(link) /\ Underway
  BY DEF Leaving, Following, Underway
<1>2. LinkIs(link, "truth", "jump", inc.d.action)
  BY <1>1 DEF NextLink, Terminal, Link, LinkIs
<1>3. Jumps(link)
  BY <1>2 DEF LinkIs, Jumps, Hit, Matches
<1>4. link.chain \in Terminal
  BY <1>1, <1>3, Targets
<1>5. ~Muted
  BY <1>1 DEF Following, Way, BannedOK, InPosting
<1>6. Calm => Decided(link.chain)
  BY <1>1, <1>2 DEF Following, Way, PathOK, LinkIs
<1>. QED BY <1>3, <1>4, <1>5, <1>6, ArriveWay DEF Terminal

LEMMA DmarcChainWay ==
    ASSUME NEW link, Leaving(link), inc.chain = "dmarc"
    PROVE  Way'
<1>1. Following(link) /\ inc.pc = "link" /\ NextLink(link) /\ Underway
  BY DEF Leaving, Following, Underway
<1>2. LinkIs(link, "truth", "jump", inc.d.dmarcAction)
  BY <1>1 DEF NextLink, Terminal, Link, LinkIs
<1>3. Jumps(link)
  BY <1>2 DEF LinkIs, Jumps, Hit, Matches
<1>4. link.chain \in {"discard", "reject"}
  BY <1>1, <1>2 DEF Following, Safe, ChainOK, LinkIs
<1>5. Calm => Decided(link.chain)
  BY <1>1, <1>2 DEF Following, Way, PathOK, LinkIs
<1>. QED BY <1>3, <1>4, <1>5, ArriveWay

LEMMA TerminalWay ==
    ASSUME NEW link, Leaving(link), inc.chain \in Terminal
    PROVE  Way'
<1>1. Following(link) /\ inc.pc = "link" /\ NextLink(link) /\ Went(link) /\ Underway
  BY DEF Leaving, Following, Underway
<1>2. link.action \in {"run", "stop"}
  BY <1>1 DEF NextLink, Terminal, Link
<1>3. inc'.chain = inc.chain /\ inc'.pc \in {"link", "finish"}
  BY <1>1, <1>2 DEF Went, Jumps
<1>4. ~InPosting' /\ ~InHeaderMatch' /\ inc'.chain \notin {"moderation", "dmarc"}
  BY <1>3 DEF InPosting, InHeaderMatch, Terminal
<1>5. UNCHANGED <<list, db, asked, changes>> /\ BannedOK /\ PathOK
  BY <1>1 DEF Following, Way
<1>6. TakenOK' /\ RulesOK' /\ ClosedOK'
  BY <1>1, <1>4, FollowedTaken, FollowedRules, FollowedClosed DEF Leaving
<1>7. BannedOK'
  <2>1. Muted => inc.chain \in {"hold", "discard", "reject"}
    BY <1>1, <1>5 DEF BannedOK, InPosting, Terminal
  <2>. QED BY <1>1, <1>3, <1>5, <2>1, FollowedMuted DEF BannedOK
<1>8. PathOK'
  <2> SUFFICES ASSUME Calm' PROVE SameDb(db', asked'.db) /\ Decided(inc.chain)'
    BY <1>4 DEF PathOK
  <2>1. Calm /\ SameDb(db', asked'.db) /\ Decided(inc.chain)
    BY <1>1, <1>5 DEF Calm, PathOK, SameDb
  <2>2. \A x : Decided(x)' <=> Decided(x)
    BY <1>5, SameCase
  <2>. QED BY <1>3, <2>1, <2>2
<1>. QED BY <1>6, <1>7, <1>8 DEF Way

LEMMA HeaderWay ==
    ASSUME NEW link, Leaving(link), InHeaderMatch
    PROVE  Way'
<1>1. HeadersHere(link)
  BY HeadersFacts
<1>2. NextLink(link) /\ inc.chain = "header-match"
  BY DEF Leaving, Following, InHeaderMatch
<1>3. \/ inc.next \in 1 .. Sites /\ link = SiteLink(inc.next)
      \/ inc.next = Sites + 1 /\ link = Link("any", "jump", JumpChain)
      \/ /\ Position \in 1 .. Len(inc.entries)
         /\ link = HeaderLink(RuleOf[Position], "jump", OwnChain(inc.entries[Position]))
  BY <1>2, Zenon DEF NextLink, Terminal
<1>. QED BY <1>1, <1>3, SiteWay, AnySiteWay, OwnWay

LEMMA FollowLinkWay ==
    ASSUME Counted, Safe, Way, FollowLink
    PROVE  Way'
<1> DEFINE link == Here[inc.next]
<1>1. /\ ChainOK' /\ Fated /\ NextLink(link)
      /\ IF Fails(link, list, inc.m) THEN Broke ELSE Went(link)
  BY FollowKeeps DEF Safe
<1>2. inc.pc = "link" /\ Remember /\ UNCHANGED <<list, db, asked, changes>>
  BY DEF FollowLink, bounds
<1> HIDE DEF link
<1>3. CASE Fails(link, list, inc.m)
  <2>1. inc'.pc = "error"
    BY <1>1, <1>3 DEF Broke
  <2>2. RulesOK'
    <3>1. RulesKept'
      BY <1>2, Remembered
    <3>. QED BY <2>1, <3>1 DEF RulesKept, RulesOK, InHeaderMatch
  <2>3. StillBanned
    BY <1>2 DEF StillBanned, Way, BannedOK
  <2>. QED BY <2>1, <2>2, <2>3, WayOver
<1>4. CASE ~Fails(link, list, inc.m)
  <2>1. Leaving(link)
    BY <1>1, <1>2, <1>4 DEF Leaving, Following
  <2>2. inc.chain \in Terminal \cup {"default-posting-chain", "header-match", "moderation", "dmarc"}
    BY <1>2 DEF Safe, ChainOK
  <2>. QED BY <1>2, <2>1, <2>2, PostingWay, HeaderWay, ModerationWay, DmarcChainWay, TerminalWay
           DEF InPosting, InHeaderMatch
<1>. QED BY <1>3, <1>4

LEMMA WayStep ==
    ASSUME EntranceInv, Way, EntranceNext
    PROVE  Way'
<1>0. Counted /\ LmtpInv /\ Safe /\ Later
  BY LmtpStep DEF EntranceInv
<1>1. CASE Within /\ UNCHANGED entrance
  <2>1. CASE RunIn \/ CrashIn
    BY <1>0, <1>1, <2>1, TakeInWay, RegisterWay, FollowLinkWay, ReturnWay, EndsWay DEF RunIn
  <2>2. CASE RunPip \/ CrashPip \/ FailPip
    BY <1>0, <2>2, PipelineElsewhere, ElsewhereWay
  <2>3. CASE People
    BY <1>0, <2>3, PeopleElsewhere, ElsewhereWay
  <2>. QED BY <1>1, <2>1, <2>2, <2>3 DEF Within
<1>2. CASE RunLmtp \/ FailToDeliver \/ CrashLmtp \/ ReplyComesBack
  BY <1>2, LmtpElsewhere, ElsewhereWay
<1>3. CASE RunCom \/ CrashCom \/ UnshuntCommand
  BY <1>0, <1>3, CommandsElsewhere, ElsewhereWay
<1>. QED BY <1>1, <1>2, <1>3 DEF EntranceNext

LEMMA WayStart == EntranceInit => Way
<1> SUFFICES ASSUME EntranceInit PROVE Way
  OBVIOUS
<1>1. inc = IdleIn /\ rules = <<>> /\ asked = NothingAsked
  BY DEF EntranceInit, Start
<1>2. inc.pc = "idle" /\ rules = <<>> /\ asked.banned = {}
  BY <1>1 DEF IdleIn, NothingAsked
<1>3. ~Underway /\ ~InPosting /\ ~InHeaderMatch
  BY <1>2 DEF Underway, InPosting, InHeaderMatch
<1>4. DOMAIN <<>> = {}
  OBVIOUS
<1>5. TakenOK /\ ClosedOK /\ PathOK
  BY <1>2, <1>3 DEF TakenOK, ClosedOK, Closed, PathOK
<1>6. BannedOK /\ RulesOK
  BY <1>2, <1>3, <1>4 DEF BannedOK, RulesOK
<1>. QED BY <1>5, <1>6 DEF Way

LEMMA WayInvariant == EntranceSpec => [](EntranceInv /\ Way)
<1>1. EntranceInit => Way
  BY WayStart
<1>2. ASSUME EntranceInv, Way, [EntranceNext]_allVars PROVE Way'
  <2>1. CASE EntranceNext
    BY <1>2, <2>1, WayStep
  <2>2. CASE UNCHANGED allVars
    <3>1. vars' = vars
      BY <2>2 DEF allVars
    <3>2. UNCHANGED <<list, db, inc, rules, asked, fates, changes>>
      BY <3>1 DEF vars, history, bounds
    <3>. QED BY <1>2, <3>2, NothingChanged, ElsewhereWay
  <2>. QED BY <1>2, <2>1, <2>2
<1>. QED BY <1>1, <1>2, Invariant, PTL DEF EntranceSpec

(* Nobody who is banned is heard without the password of a moderator,      *)
(* whatever is changed or fails while the message is in the chains: see    *)
(* the rule banned-address and its place in mailman/chains/builtin.py.     *)
THEOREM StayOut == EntranceSpec => []BannedStayOut
<1>1. EntranceInv /\ Way => BannedStayOut
  <2> SUFFICES ASSUME EntranceInv, Way, inc.pc = "finish", ~inc.d.toOwner,
                      Range(Senders(asked.file.m)) \cap asked.banned # {},
                      ~Approved(list, asked.file.m)
               PROVE  fates[Len(fates)] # "accept"
    BY DEF BannedStayOut
  <2>1. Muted
    BY DEF Muted
  <2>2. inc.chain \in {"hold", "discard", "reject"} \/ LastFate("responded")
    BY <2>1 DEF Way, BannedOK, InPosting
  <2>3. inc.chain \in {"hold", "discard", "reject"} => LastFate(inc.chain)
    BY DEF Way, ClosedOK, Closed, Terminal
  <2>. QED BY <2>2, <2>3 DEF LastFate
<1>. QED BY <1>1, WayInvariant, PTL

(* While nothing changes, the interpreter of mailman/core/chains.py with   *)
(* its jumps, its detour and its stack comes to what the first of the      *)
(* cases says that applies, for every list of header matches.              *)
THEOREM FirstCaseDecides == EntranceSpec => []DecidesByTheFirstCase
<1>1. EntranceInv /\ Way => DecidesByTheFirstCase
  <2> DEFINE cases == Cases(list, asked.file.m, asked.file.d, asked.db)
             applying == {i \in DOMAIN cases : cases[i].if}
  <2> SUFFICES ASSUME EntranceInv, Way, inc.pc = "finish", inc.chain \in Terminal,
                      changes = 0, ~asked.changed
               PROVE  fates[Len(fates)] = cases[Min(applying)].fate
    BY DEF DecidesByTheFirstCase
  <2>1. LastFate(inc.chain)
    BY DEF Way, ClosedOK, Closed
  <2>2. Decided(inc.chain)
    BY DEF Way, PathOK, Calm, Underway
  <2>3. inc.chain = cases[Min(applying)].fate
    BY <2>2, DecidedFirst
  <2> HIDE DEF cases, applying
  <2>. QED BY <2>1, <2>3 DEF LastFate
<1>. QED BY <1>1, WayInvariant, PTL

--------------------------------------------------------------------------------
(***************************************************************************)
(* Whom the message is from, on its way to the readers.                    *)
(***************************************************************************)
(* o is the message as it was posted, l the list.  What the pipeline takes *)
(* is from whom it was posted by, unless something failed in a pipeline    *)
(* and was unshunted; what it leaves behind, unless something failed.      *)
Begun == asked.file # NoFile
Failed == faults > 0
Twice == faults > 0 /\ changes > 0

Named == {"from", "envelope", "replyTo", "sender"}
Typed(m) == DOMAIN m = DOMAIN Plain /\ \E T : \A x \in Named : m[x] \in Seq(T)
Meant(o, m) == m.from = o.from /\ m.cc = o.cc
Kept(o, l, begun, again, x) ==
    /\ begun /\ Typed(x.m) /\ DOMAIN x.d = DataFields
    /\ x.m.from = o.from \/ again
    /\ l.anonymous => x.m.cc \subseteq o.cc

InQueue(o, q) == \E S : q \in Seq(S) /\ \A x \in S : DOMAIN x = {"m", "d"} /\ Meant(o, x.m)
PipQueue(o, l, begun, twice, q) ==
    \E S : q \in Seq(S) /\ \A x \in S : DOMAIN x = {"m", "d"} /\ Kept(o, l, begun, twice, x)
Unshuntable(o, l, begun, failed, x) ==
    /\ x.whichq = "in" => Meant(o, x.m)
    /\ x.whichq = "pipeline" => Kept(o, l, begun, failed, x)
ShuntQueue(o, l, begun, failed, q) ==
    \E S : q \in Seq(S) /\ \A x \in S : Unshuntable(o, l, begun, failed, x)

(* Handler by handler: until cleanse or dmarc it is from whom it was; a    *)
(* list that is anonymous is named instead of him from cleanse on, and the *)
(* original sender is noted by cook-headers before dmarc asks for him.     *)
Cleansed(l, m) ==
    /\ m.from = <<Posting>> /\ m.sender = <<>>
    /\ m.replyTo \in Seq({Posting, l.replyToAddress})
Found(a, m) ==
    \/ Range(a) \subseteq Range(m.from)
    \/ a[1] \in Range(m.replyTo) \cup Range(m.sender) \cup m.cc
HeadersAt(o, l, n, first, m, d) ==
    /\ (first /\ (n <= 5 \/ (n <= 15 /\ ~l.anonymous))) => m.from = o.from
    /\ (l.anonymous /\ n > 5) => Cleansed(l, m)
    /\ (~l.anonymous /\ first /\ o.from # <<>>) =>
          /\ n \in 8 .. 15 => d.originalSender = o.from[1]
          /\ n > 15 => Found(o.from, m)
Handling(o, l, twice, p) ==
    /\ p.file # NoFile /\ p.next \in Nat \ {0}
    /\ Typed(p.m) /\ DOMAIN p.d = DataFields
    /\ l.anonymous => p.m.cc \subseteq o.cc
    /\ IF p.d.toOwner THEN p.m.from = o.from \/ twice
       ELSE HeadersAt(o, l, p.next, p.file.m.from = o.from, p.m, p.d)

IncMeant(o) ==
    /\ inc.pc # "idle" => Begun /\ Meant(o, inc.m)
    /\ inc.file # NoFile => DOMAIN inc.file = {"m", "d"} /\ Meant(o, inc.file.m)
PipMeant(o) ==
    /\ DOMAIN pip = DOMAIN IdlePip /\ pip.pc \in {"idle", "handle", "commit", "error"}
    /\ pip.file # NoFile => DOMAIN pip.file = {"m", "d"} /\ Kept(o, list, Begun, Twice, pip.file)
    /\ pip.pc # "idle" => Begun
    /\ pip.pc = "handle" => Handling(o, list, Twice, pip)
    /\ pip.pc = "error" => Kept(o, list, Begun, Failed, pip)
AskedMeant(o) == Begun => Meant(o, asked.file.m)

CopyOK(o, l, twice, c) ==
    \/ o.from = <<>> \/ c.toOwner
    \/ IF l.anonymous THEN c.hidden ELSE c.named \/ (c.anew /\ twice)
ShownOK(o) == /\ shown # {} => Begun
              /\ \A c \in shown : CopyOK(o, list, Twice, c)

(* No letter but the one that was posted gets into the incoming queue.     *)
GoesIn(to) ==
    SplitRecipient(to).list = ThisList /\ SubaddressQueue(SplitRecipient(to).sub) = "in"
LetterMeant(o) == Meant(o, mail.m) \/ \A i \in DOMAIN mail.to : ~GoesIn(mail.to[i])

InqMeant(o) == InQueue(o, inq)
PipeqMeant(o) == PipQueue(o, list, Begun, Twice, pipeq)
ShuntMeant(o) == ShuntQueue(o, list, Begun, Failed, shunt)

Attributed(o) ==
    /\ IsMessage(o) /\ DOMAIN sent = Queues
    /\ InqMeant(o) /\ PipeqMeant(o) /\ ShuntMeant(o)
    /\ IncMeant(o) /\ PipMeant(o) /\ AskedMeant(o) /\ ShownOK(o) /\ LetterMeant(o)

LEMMA SeqGrows ==
    ASSUME NEW S, NEW q \in Seq(S), NEW x
    PROVE  /\ Append(q, x) \in Seq(S \cup {x}) /\ <<x>> \o q \in Seq(S \cup {x})
           /\ q # <<>> => Head(q) \in S /\ Tail(q) \in Seq(S)
<1> DEFINE T == S \cup {x}
<1>1. q \in Seq(T) /\ x \in T
  OBVIOUS
<1>2. Append(q, x) \in Seq(T) /\ <<x>> \in Seq(T)
  <2> HIDE DEF T
  <2>. QED BY <1>1
<1>3. <<x>> \o q \in Seq(T)
  <2> HIDE DEF T
  <2>. QED BY <1>1, <1>2
<1>. QED BY <1>2, <1>3

LEMMA KeptOn ==
    ASSUME NEW o, NEW l, NEW begun, NEW again, NEW begun2, NEW again2, NEW x,
           Kept(o, l, begun, again, x), begun => begun2, again => again2
    PROVE  Kept(o, l, begun2, again2, x)
BY DEF Kept

LEMMA QueuesOn ==
    ASSUME NEW o, NEW l, NEW begun, NEW again, NEW begun2, NEW again2, NEW q,
           begun => begun2, again => again2
    PROVE  /\ PipQueue(o, l, begun, again, q) => PipQueue(o, l, begun2, again2, q)
           /\ ShuntQueue(o, l, begun, again, q) => ShuntQueue(o, l, begun2, again2, q)
BY KeptOn DEF PipQueue, ShuntQueue, Unshuntable

LEMMA InQueueHolds ==
    ASSUME NEW o, NEW q, InQueue(o, q)
    PROVE  /\ \A x : (DOMAIN x = {"m", "d"} /\ Meant(o, x.m)) =>
                         InQueue(o, Append(q, x)) /\ InQueue(o, <<x>> \o q)
           /\ q # <<>> => /\ DOMAIN Head(q) = {"m", "d"} /\ Meant(o, Head(q).m)
                          /\ InQueue(o, Tail(q))
<1>1. PICK S : q \in Seq(S) /\ \A x \in S : DOMAIN x = {"m", "d"} /\ Meant(o, x.m)
  BY DEF InQueue
<1>2. ASSUME NEW x, DOMAIN x = {"m", "d"} /\ Meant(o, x.m)
      PROVE  InQueue(o, Append(q, x)) /\ InQueue(o, <<x>> \o q)
  <2> DEFINE T == S \cup {x}
  <2>1. \A y \in T : DOMAIN y = {"m", "d"} /\ Meant(o, y.m)
    BY <1>1, <1>2
  <2>2. Append(q, x) \in Seq(T) /\ <<x>> \o q \in Seq(T)
    BY <1>1, SeqGrows
  <2> HIDE DEF T
  <2>. QED BY <2>1, <2>2 DEF InQueue
<1>3. q # <<>> => /\ \A x \in {Head(q)} : DOMAIN x = {"m", "d"} /\ Meant(o, x.m)
                  /\ InQueue(o, Tail(q))
  <2> SUFFICES ASSUME q # <<>> PROVE Head(q) \in S /\ Tail(q) \in Seq(S)
    BY <1>1 DEF InQueue
  <2>. QED BY <1>1, SeqGrows
<1>. QED BY <1>2, <1>3

LEMMA PipQueueHolds ==
    ASSUME NEW o, NEW l, NEW b, NEW t, NEW q, PipQueue(o, l, b, t, q)
    PROVE  /\ \A x : (DOMAIN x = {"m", "d"} /\ Kept(o, l, b, t, x)) =>
                         PipQueue(o, l, b, t, Append(q, x)) /\ PipQueue(o, l, b, t, <<x>> \o q)
           /\ q # <<>> => /\ DOMAIN Head(q) = {"m", "d"} /\ Kept(o, l, b, t, Head(q))
                          /\ PipQueue(o, l, b, t, Tail(q))
<1>1. PICK S : q \in Seq(S) /\ \A x \in S : DOMAIN x = {"m", "d"} /\ Kept(o, l, b, t, x)
  BY DEF PipQueue
<1>2. ASSUME NEW x, DOMAIN x = {"m", "d"} /\ Kept(o, l, b, t, x)
      PROVE  PipQueue(o, l, b, t, Append(q, x)) /\ PipQueue(o, l, b, t, <<x>> \o q)
  <2> DEFINE T == S \cup {x}
  <2>1. \A y \in T : DOMAIN y = {"m", "d"} /\ Kept(o, l, b, t, y)
    BY <1>1, <1>2
  <2>2. Append(q, x) \in Seq(T) /\ <<x>> \o q \in Seq(T)
    BY <1>1, SeqGrows
  <2> HIDE DEF T
  <2>. QED BY <2>1, <2>2 DEF PipQueue
<1>3. q # <<>> => /\ \A x \in {Head(q)} : DOMAIN x = {"m", "d"} /\ Kept(o, l, b, t, x)
                  /\ PipQueue(o, l, b, t, Tail(q))
  <2> SUFFICES ASSUME q # <<>> PROVE Head(q) \in S /\ Tail(q) \in Seq(S)
    BY <1>1 DEF PipQueue
  <2>. QED BY <1>1, SeqGrows
<1>. QED BY <1>2, <1>3

LEMMA ShuntQueueHolds ==
    ASSUME NEW o, NEW l, NEW b, NEW f, NEW q, ShuntQueue(o, l, b, f, q)
    PROVE  /\ \A x : Unshuntable(o, l, b, f, x) => ShuntQueue(o, l, b, f, Append(q, x))
           /\ q # <<>> => /\ Unshuntable(o, l, b, f, Head(q)) /\ ShuntQueue(o, l, b, f, Tail(q))
<1>1. PICK S : q \in Seq(S) /\ \A x \in S : Unshuntable(o, l, b, f, x)
  BY DEF ShuntQueue
<1>2. ASSUME NEW x, Unshuntable(o, l, b, f, x)
      PROVE  ShuntQueue(o, l, b, f, Append(q, x))
  <2> DEFINE T == S \cup {x}
  <2>1. \A y \in T : Unshuntable(o, l, b, f, y)
    BY <1>1, <1>2
  <2>2. Append(q, x) \in Seq(T)
    BY <1>1, SeqGrows
  <2> HIDE DEF T
  <2>. QED BY <2>1, <2>2 DEF ShuntQueue
<1>3. q # <<>> => /\ \A x \in {Head(q)} : Unshuntable(o, l, b, f, x)
                  /\ ShuntQueue(o, l, b, f, Tail(q))
  <2> SUFFICES ASSUME q # <<>> PROVE Head(q) \in S /\ Tail(q) \in Seq(S)
    BY <1>1 DEF ShuntQueue
  <2>. QED BY <1>1, SeqGrows
<1>. QED BY <1>2, <1>3

LEMMA NoQueue ==
    ASSUME NEW o, NEW l, NEW b, NEW t
    PROVE  InQueue(o, <<>>) /\ PipQueue(o, l, b, t, <<>>) /\ ShuntQueue(o, l, b, t, <<>>)
<1>1. <<>> \in Seq({})
  OBVIOUS
<1>2. \E S : <<>> \in Seq(S) /\ S = {}
  BY <1>1
<1>3. PICK S : <<>> \in Seq(S) /\ \A x : x \notin S
  BY <1>2
<1>4. InQueue(o, <<>>)
  BY <1>3 DEF InQueue
<1>5. PipQueue(o, l, b, t, <<>>)
  BY <1>3 DEF PipQueue
<1>6. ShuntQueue(o, l, b, t, <<>>)
  BY <1>3 DEF ShuntQueue
<1>. QED BY <1>4, <1>5, <1>6

--------------------------------------------------------------------------------
(***************************************************************************)
(* What the handlers do to those headers.                                  *)
(***************************************************************************)
WorkFields == {"m", "d", "posts", "sent", "end"}
Readers == {"archive", "digest", "nntp", "out"}
Worked(w) ==
    /\ DOMAIN w = WorkFields /\ DOMAIN w.sent = Queues /\ w.end = "returned"
    /\ Typed(w.m) /\ DOMAIN w.d = DataFields
Result(w, v) ==
    /\ DOMAIN v = WorkFields /\ DOMAIN v.sent = Queues
    /\ DOMAIN v.m = DOMAIN Plain /\ DOMAIN v.d = DataFields
    /\ v.d.toOwner = w.d.toOwner
Uncopied(w, v) == \A q \in Readers : v.sent[q] = w.sent[q]

(* Most of them leave them alone, but for a Cc: that may get shorter.      *)
Steady(w, v) ==
    /\ Result(w, v) /\ Uncopied(w, v)
    /\ \A x \in Named : v.m[x] = w.m[x]
    /\ v.m.cc \subseteq w.m.cc
    /\ v.d.originalSender = w.d.originalSender

LEMMA HeadersThere ==
    /\ Named \subseteq DOMAIN Plain /\ "cc" \in DOMAIN Plain /\ "cc" \notin Named
    /\ {"toOwner", "originalSender", "recipients"} \subseteq DataFields
    /\ Readers \subseteq Queues
BY DEF Named, Plain, DataFields, Readers, Queues

LEMMA SteadySelf ==
    ASSUME NEW w, Worked(w)
    PROVE  Steady(w, w)
BY DEF Worked, Steady, Result, Uncopied, Typed

LEMMA SteadyOn ==
    ASSUME NEW w, NEW v, Steady(w, v)
    PROVE  /\ \A q \in {"virgin", "bad"} : Steady(w, Note(v, q))
           /\ \A how : Steady(w, Raise(v, how))
<1>1. ASSUME NEW q \in {"virgin", "bad"} PROVE Steady(w, Note(v, q))
  <2>1. DOMAIN v = WorkFields /\ DOMAIN v.sent = Queues
    BY DEF Steady, Result
  <2>2. /\ DOMAIN Note(v, q) = WorkFields /\ Note(v, q).m = v.m /\ Note(v, q).d = v.d
        /\ Note(v, q).sent = [v.sent EXCEPT ![q] = @ + 1]
    BY <2>1 DEF Note, WorkFields
  <2>3. DOMAIN Note(v, q).sent = Queues /\ \A p \in Readers : Note(v, q).sent[p] = v.sent[p]
    BY <2>1, <2>2, HeadersThere DEF Readers
  <2>. QED BY <2>2, <2>3 DEF Steady, Result, Uncopied
<1>2. ASSUME NEW how PROVE Steady(w, Raise(v, how))
  <2>1. DOMAIN v = WorkFields
    BY DEF Steady, Result
  <2>2. /\ DOMAIN Raise(v, how) = WorkFields /\ Raise(v, how).m = v.m /\ Raise(v, how).d = v.d
        /\ Raise(v, how).sent = v.sent
    BY <2>1 DEF Raise, WorkFields
  <2>. QED BY <2>2 DEF Steady, Result, Uncopied
<1>. QED BY <1>1, <1>2

LEMMA SteadyMessage ==
    ASSUME NEW w, Worked(w), NEW v, DOMAIN v = WorkFields, v.d = w.d, v.sent = w.sent,
           DOMAIN v.m = DOMAIN w.m, \A x \in DOMAIN w.m \ {"body", "signed", "subject", "chunks", "listPost"} :
                                        v.m[x] = w.m[x]
    PROVE  Steady(w, v)
<1>1. Named \cup {"cc"} \subseteq DOMAIN w.m \ {"body", "signed", "subject", "chunks", "listPost"}
  BY HeadersThere DEF Worked, Typed, Named
<1>2. \A x \in Named \cup {"cc"} : v.m[x] = w.m[x]
  BY <1>1
<1>. QED BY <1>2 DEF Worked, Steady, Result, Uncopied, Typed

LEMMA SteadyRecipients ==
    ASSUME NEW w, Worked(w), NEW e
    PROVE  LET v == [w EXCEPT !.d.recipients = e]
           IN  Steady(w, v) /\ v.end = "returned"
<1> DEFINE v == [w EXCEPT !.d.recipients = e]
<1>1. /\ DOMAIN v = WorkFields /\ v.m = w.m /\ v.sent = w.sent /\ v.end = w.end
      /\ v.d = [w.d EXCEPT !.recipients = e]
  BY DEF Worked, WorkFields
<1> HIDE DEF v
<1>2. DOMAIN v.d = DataFields /\ v.d.toOwner = w.d.toOwner
      /\ v.d.originalSender = w.d.originalSender
  BY <1>1, HeadersThere DEF Worked
<1>. QED BY <1>1, <1>2 DEF Worked, Steady, Result, Uncopied, Typed, v

LEMMA MimeDeleteSteady ==
    ASSUME NEW w, Worked(w), NEW l
    PROVE  Steady(w, MimeDelete(l, w))
<1> DEFINE body(e) == [w EXCEPT !.m.body = e]
<1>1. ASSUME NEW e PROVE Steady(w, body(e))
  <2>1. /\ DOMAIN body(e) = WorkFields /\ body(e).d = w.d /\ body(e).sent = w.sent
        /\ body(e).m = [w.m EXCEPT !.body = e]
    BY DEF Worked, WorkFields
  <2> HIDE DEF body
  <2>2. /\ DOMAIN body(e).m = DOMAIN w.m
        /\ \A x \in DOMAIN w.m \ {"body", "signed", "subject", "chunks", "listPost"} :
              body(e).m[x] = w.m[x]
    BY <2>1
  <2>. QED BY <2>1, <2>2, SteadyMessage
<1>2. ASSUME NEW v, Steady(w, v) PROVE Steady(w, DisposeFiltered(l, v))
  <2>1. Steady(w, Note(v, "virgin")) /\ Steady(w, Note(v, "bad"))
    BY <1>2, SteadyOn
  <2>2. \A how : /\ Steady(w, Raise(v, how)) /\ Steady(w, Raise(Note(v, "virgin"), how))
                 /\ Steady(w, Raise(Note(v, "bad"), how))
    BY <1>2, <2>1, SteadyOn
  <2>. QED BY <2>2 DEF DisposeFiltered
<1> DEFINE f == l.filter
           reduced(p) == IF f.collapse /\ (CollapseFails(p) \/ OuterFails(p))
                         THEN Raise(body(FilterParts(f, w.m.body)), "error")
                         ELSE body(Reduced(f, p))
<1>3. \/ MimeDelete(l, w) = w \/ MimeDelete(l, w) = DisposeFiltered(l, w)
      \/ MimeDelete(l, w) = DisposeFiltered(l, body(FilterParts(f, w.m.body)))
      \/ MimeDelete(l, w) = reduced(FilterParts(f, w.m.body))
  BY DEF MimeDelete, Apply
<1> HIDE DEF body
<1>4. Steady(w, w) /\ Steady(w, body(FilterParts(f, w.m.body)))
      /\ Steady(w, Raise(body(FilterParts(f, w.m.body)), "error"))
  BY <1>1, SteadySelf, SteadyOn
<1>5. \A p : Steady(w, reduced(p))
  BY <1>1, <1>4
<1> HIDE DEF reduced
<1>. QED BY <1>2, <1>3, <1>4, <1>5

LEMMA AvoidDuplicatesSteady ==
    ASSUME NEW w, Worked(w), NEW x
    PROVE  LET v == AvoidDuplicates(w, x) IN Steady(w, v) /\ v.end = "returned"
<1> DEFINE explicit == (w.m.to \cup w.m.cc) \ {Posting}
           spared == {a \in w.d.recipients \cap explicit : IsMember(x, a) /\ ~Wants[a].copy}
           cc == w.m.cc \ spared
           v == [w EXCEPT !.d.recipients = @ \ spared, !.m.cc = IF cc = {} THEN @ ELSE cc]
<1>1. AvoidDuplicates(w, x) = w \/ AvoidDuplicates(w, x) = v
  BY DEF AvoidDuplicates
<1>2. cc \subseteq w.m.cc
  OBVIOUS
<1> HIDE DEF cc, spared
<1>3. /\ DOMAIN v = WorkFields /\ v.sent = w.sent /\ v.end = w.end
      /\ v.d = [w.d EXCEPT !.recipients = @ \ spared]
      /\ v.m = [w.m EXCEPT !.cc = IF cc = {} THEN @ ELSE cc]
  BY DEF Worked, WorkFields
<1> HIDE DEF v
<1>4. DOMAIN v.d = DataFields /\ v.d.toOwner = w.d.toOwner
      /\ v.d.originalSender = w.d.originalSender
  BY <1>3, HeadersThere DEF Worked
<1>5. /\ DOMAIN v.m = DOMAIN Plain /\ \A y \in Named : v.m[y] = w.m[y]
      /\ v.m.cc \subseteq w.m.cc
  BY <1>2, <1>3, HeadersThere DEF Worked, Typed
<1>6. Steady(w, v) /\ v.end = "returned"
  BY <1>3, <1>4, <1>5 DEF Worked, Steady, Result, Uncopied
<1>. QED BY <1>1, <1>6, SteadySelf DEF Worked

LEMMA DressSteady ==
    ASSUME NEW w, Worked(w), NEW l,
           NEW v \in {CleanseDkim(w), SubjectPrefix(l, w), Rfc2369(l, w), AfterDelivery(w)}
    PROVE  Steady(w, v) /\ v.end = "returned"
<1>1. /\ DOMAIN v = WorkFields /\ v.d = w.d /\ v.sent = w.sent /\ v.end = w.end
      /\ \/ v.m = w.m \/ v.m = [w.m EXCEPT !.signed = FALSE]
         \/ v.m = [w.m EXCEPT !.subject = "prefixed", !.chunks = NewSubject(l, @)]
         \/ \E e : v.m = [w.m EXCEPT !.listPost = e]
  <2>1. CASE v = CleanseDkim(w)
    BY <2>1 DEF Worked, WorkFields, CleanseDkim
  <2>2. CASE v = SubjectPrefix(l, w)
    BY <2>2 DEF Worked, WorkFields, SubjectPrefix
  <2>3. CASE v = Rfc2369(l, w)
    BY <2>3 DEF Worked, WorkFields, Rfc2369
  <2>4. CASE v = AfterDelivery(w)
    BY <2>4 DEF Worked, WorkFields, AfterDelivery
  <2>. QED BY <2>1, <2>2, <2>3, <2>4
<1>2. /\ DOMAIN v.m = DOMAIN w.m
      /\ \A x \in DOMAIN w.m \ {"body", "signed", "subject", "chunks", "listPost"} :
            v.m[x] = w.m[x]
  BY <1>1
<1>3. Steady(w, v)
  BY <1>1, <1>2, SteadyMessage
<1>. QED BY <1>1, <1>3 DEF Worked

(* All but those that tell readers or take away or move names.             *)
SteadyHandlers == {"mime-delete", "tagger", "member-recipients", "avoid-duplicates",
    "cleanse-dkim", "subject-prefix", "rfc-2369", "after-delivery", "acknowledge",
    "owner-recipients"}
Raisers == {"mime-delete", "tagger", "member-recipients"}
LEMMA HandledSteady ==
    ASSUME NEW w, Worked(w), NEW l, NEW x, NEW name \in SteadyHandlers
    PROVE  LET v == Handled(name, l, w, x)
           IN  Steady(w, v) /\ (name \notin Raisers => v.end = "returned")
<1> DEFINE v == Handled(name, l, w, x)
<1>1. CASE name = "mime-delete"
  BY <1>1, MimeDeleteSteady DEF Handled, Raisers
<1>2. CASE name = "tagger"
  BY <1>2, SteadySelf, SteadyOn DEF Handled, Tagger, Raisers
<1>3. CASE name = "member-recipients"
  <2>1. v = MemberRecipients(w, x)
    BY <1>3 DEF Handled
  <2>2. v = w \/ v = Raise(w, "error") \/ \E e : v = [w EXCEPT !.d.recipients = e]
    <3> HIDE DEF v
    <3>. QED BY <2>1 DEF MemberRecipients
  <2> HIDE DEF v
  <2>3. Steady(w, v)
    BY <2>2, SteadySelf, SteadyOn, SteadyRecipients
  <2>. QED BY <1>3, <2>3 DEF v, Raisers
<1>4. CASE name = "avoid-duplicates"
  BY <1>4, AvoidDuplicatesSteady DEF Handled
<1>5. CASE name \in {"cleanse-dkim", "subject-prefix", "rfc-2369", "after-delivery"}
  <2>1. v \in {CleanseDkim(w), SubjectPrefix(l, w), Rfc2369(l, w), AfterDelivery(w)}
    BY <1>5 DEF Handled
  <2> HIDE DEF v
  <2>. QED BY <2>1, DressSteady DEF v
<1>6. CASE name = "acknowledge"
  <2>1. v = w \/ v = Note(w, "virgin")
    BY <1>6 DEF Handled, Acknowledge
  <2>2. Note(w, "virgin").end = w.end /\ w.end = "returned"
    BY DEF Worked, WorkFields, Note
  <2> HIDE DEF v
  <2>3. Steady(w, v) /\ v.end = "returned"
    BY <2>1, <2>2, SteadySelf, SteadyOn
  <2>. QED BY <2>3 DEF v
<1>7. CASE name = "owner-recipients"
  <2>1. v = w \/ \E e : v = [w EXCEPT !.d.recipients = e]
    BY <1>7 DEF Handled, OwnerRecipients
  <2> HIDE DEF v
  <2>2. Steady(w, w) /\ w.end = "returned"
    BY SteadySelf DEF Worked
  <2>3. ASSUME NEW e, v = [w EXCEPT !.d.recipients = e]
        PROVE  Steady(w, v) /\ v.end = "returned"
    BY <2>3, SteadyRecipients, Zenon
  <2>. QED BY <2>1, <2>2, <2>3 DEF v
<1>. QED BY <1>1, <1>2, <1>3, <1>4, <1>5, <1>6, <1>7 DEF SteadyHandlers

(* The new Reply-To: has nothing but what it is made of.                   *)
Added(t, x) == IF x \in Range(t) THEN t ELSE Append(t, x)
AddedUp(f, s, N) == f = [n \in 0 .. N |-> IF n = 0 THEN <<>> ELSE Added(f[n - 1], s[n])]

LEMMA AddedUpExists ==
    ASSUME NEW s, NEW N \in Nat
    PROVE  \E f : AddedUp(f, s, N)
<1> DEFINE Has(m) == \E f : f = [n \in 0 .. m |-> IF n = 0 THEN <<>> ELSE Added(f[n - 1], s[n])]
           Lack == {m \in Nat : ~Has(m)}
<1>1. SUFFICES ASSUME Lack # {} PROVE FALSE
  BY DEF Lack, AddedUp
<1>2. Lack \in SUBSET Nat
  BY DEF Lack
<1>3. PICK m \in Lack : \A n \in Lack : m =< n
  <2> HIDE DEF Lack
  <2>. QED BY <1>1, <1>2, Least
<1>4. m # 0
  <2>1. [n \in 0 .. 0 |-> <<>>] = [n \in 0 .. 0 |->
            IF n = 0 THEN <<>> ELSE Added([k \in 0 .. 0 |-> <<>>][n - 1], s[n])]
    OBVIOUS
  <2>2. Has(0)
    BY <2>1
  <2>. QED BY <2>2, <1>3 DEF Lack
<1>5. Has(m - 1)
  <2>1. m \in Nat /\ m - 1 \in Nat /\ ~(m =< m - 1)
    BY <1>3, <1>4 DEF Lack
  <2>2. m - 1 \notin Lack
    BY <1>3, <2>1
  <2>. QED BY <2>1, <2>2 DEF Lack
<1>6. PICK f : f = [n \in 0 .. m - 1 |-> IF n = 0 THEN <<>> ELSE Added(f[n - 1], s[n])]
  BY <1>5
<1> DEFINE g == [n \in 0 .. m |-> IF n = m THEN Added(f[m - 1], s[m]) ELSE f[n]]
<1>7. g = [n \in 0 .. m |-> IF n = 0 THEN <<>> ELSE Added(g[n - 1], s[n])]
  <2>1. ASSUME NEW n \in 0 .. m
        PROVE  g[n] = IF n = 0 THEN <<>> ELSE Added(g[n - 1], s[n])
    <3>1. m \in Nat
      BY <1>3 DEF Lack
    <3>2. CASE n = m
      <4>1. g[n] = Added(f[m - 1], s[m])
        BY <3>1, <3>2
      <4>2. m - 1 \in 0 .. m /\ m - 1 # m
        BY <1>4, <3>1
      <4>3. g[m - 1] = f[m - 1]
        BY <4>2
      <4>. QED BY <1>4, <3>2, <4>1, <4>3
    <3>3. CASE n # m
      <4>1. n \in 0 .. m - 1
        BY <3>1, <3>3
      <4>2. f[n] = IF n = 0 THEN <<>> ELSE Added(f[n - 1], s[n])
        BY <1>6, <4>1
      <4>3. g[n] = f[n]
        BY <3>3
      <4>4. n # 0 => n - 1 \in 0 .. m /\ n - 1 # m
        BY <3>1, <4>1
      <4>5. n # 0 => g[n - 1] = f[n - 1]
        BY <4>4
      <4>. QED BY <4>2, <4>3, <4>5
    <3>. QED BY <3>2, <3>3
  <2>. QED BY <2>1
<1>8. Has(m)
  <2> HIDE DEF g
  <2>. QED BY <1>7
<1>. QED BY <1>3, <1>8 DEF Lack

LEMMA DistinctTyped ==
    ASSUME NEW T, NEW s \in Seq(T)
    PROVE  Distinct(s) \in Seq(T)
<1> DEFINE N == Len(s)
           f == CHOOSE f : f = [n \in 0 .. Len(s) |->
                   IF n = 0 THEN <<>>
                   ELSE IF s[n] \in Range(f[n - 1]) THEN f[n - 1]
                   ELSE Append(f[n - 1], s[n])]
<1>0. N \in Nat
  OBVIOUS
<1>1. f = [n \in 0 .. Len(s) |->
              IF n = 0 THEN <<>>
              ELSE IF s[n] \in Range(f[n - 1]) THEN f[n - 1]
              ELSE Append(f[n - 1], s[n])]
  <2>1. PICK f0 : AddedUp(f0, s, Len(s))
    BY <1>0, AddedUpExists
  <2>2. f0 = [n \in 0 .. Len(s) |->
                 IF n = 0 THEN <<>>
                 ELSE IF s[n] \in Range(f0[n - 1]) THEN f0[n - 1]
                 ELSE Append(f0[n - 1], s[n])]
    BY <2>1 DEF Added, AddedUp
  <2>. QED BY <2>2, Zenon
<1>2. Distinct(s) = f[Len(s)]
  BY DEF Distinct
<1> HIDE DEF f
<1>3. \A n \in 0 .. N : f[n] = IF n = 0 THEN <<>>
                               ELSE IF s[n] \in Range(f[n - 1]) THEN f[n - 1]
                               ELSE Append(f[n - 1], s[n])
  BY <1>1
<1> DEFINE Bad == {n \in Nat : n <= N /\ f[n] \notin Seq(T)}
<1>4. SUFFICES ASSUME Bad # {} PROVE FALSE
  BY <1>0, <1>2 DEF Bad
<1>5. PICK m \in Bad : \A n \in Bad : m =< n
  <2>1. Bad \in SUBSET Nat
    BY DEF Bad
  <2> HIDE DEF Bad
  <2>. QED BY <1>4, <2>1, Least
<1>6. m \in 0 .. N /\ f[m] \notin Seq(T)
  BY <1>0, <1>5 DEF Bad
<1>7. m # 0
  <2>1. 0 \in 0 .. N /\ <<>> \in Seq(T)
    BY <1>0
  <2>2. f[0] = <<>>
    BY <1>3, <2>1
  <2>. QED BY <1>6, <2>1, <2>2
<1>8. f[m - 1] \in Seq(T)
  <2>1. m - 1 \in Nat /\ m - 1 <= N /\ ~(m =< m - 1)
    BY <1>0, <1>6, <1>7
  <2>2. m - 1 \notin Bad
    BY <1>5, <2>1
  <2>. QED BY <2>1, <2>2 DEF Bad
<1>9. s[m] \in T
  BY <1>0, <1>6, <1>7
<1>10. f[m] = f[m - 1] \/ f[m] = Append(f[m - 1], s[m])
  BY <1>3, <1>6, <1>7
<1>11. \A t \in Seq(T), y \in T : Append(t, y) \in Seq(T)
  OBVIOUS
<1>12. Append(f[m - 1], s[m]) \in Seq(T)
  BY <1>8, <1>9, <1>11, Zenon
<1>. QED BY <1>6, <1>8, <1>10, <1>12, Zenon

LEMMA SendersHead ==
    ASSUME NEW m, Typed(m), m.from # <<>>
    PROVE  Senders(m) # <<>> /\ Head(Senders(m)) = m.from[1]
<1>1. PICK T : \A x \in Named : m[x] \in Seq(T)
  BY DEF Typed
<1>2. m.from \in Seq(T) /\ m.envelope \in Seq(T) /\ m.replyTo \in Seq(T) /\ m.sender \in Seq(T)
  BY <1>1 DEF Named
<1>3. \A s, t \in Seq(T) : s # <<>> => /\ s \o t \in Seq(T) /\ s \o t # <<>>
                                        /\ (s \o t)[1] = s[1]
  OBVIOUS
<1>4. Senders(m) \in Seq(T) /\ Senders(m) # <<>> /\ Senders(m)[1] = m.from[1]
  <2> DEFINE s == m.from \o m.envelope  t == s \o m.replyTo
  <2>1. s \in Seq(T) /\ s # <<>> /\ s[1] = m.from[1]
    BY <1>2, <1>3
  <2> HIDE DEF s
  <2>2. t \in Seq(T) /\ t # <<>> /\ t[1] = m.from[1]
    BY <1>2, <1>3, <2>1
  <2> HIDE DEF t
  <2>3. t \o m.sender \in Seq(T) /\ t \o m.sender # <<>> /\ (t \o m.sender)[1] = m.from[1]
    BY <1>2, <1>3, <2>2
  <2>4. Senders(m) = t \o m.sender
    BY DEF Senders, s, t
  <2>. QED BY <2>3, <2>4
<1>. QED BY <1>4

(* Those that tell the readers leave the message as it is.                 *)
Tellers == {"to-archive", "to-digest", "to-usenet", "to-outgoing"}
LEMMA HandledTold ==
    ASSUME NEW w, Worked(w), NEW l, NEW x, NEW name \in Tellers
    PROVE  LET v == Handled(name, l, w, x)
           IN  Result(w, v) /\ v.m = w.m /\ v.d = w.d /\ v.end = "returned"
<1> DEFINE v == Handled(name, l, w, x)
<1>1. v = w \/ \E q : v = Note(w, q)
  <2>1. CASE name = "to-archive"
    BY <2>1 DEF Handled, ToArchive
  <2>2. CASE name = "to-digest"
    BY <2>2 DEF Handled, ToDigest
  <2>3. CASE name = "to-usenet"
    BY <2>3 DEF Handled, ToUsenet
  <2>4. CASE name = "to-outgoing"
    BY <2>4 DEF Handled, ToOutgoing
  <2>. QED BY <2>1, <2>2, <2>3, <2>4 DEF Tellers
<1>2. ASSUME NEW q
      PROVE  LET n == Note(w, q)
             IN  /\ DOMAIN n = WorkFields /\ DOMAIN n.sent = Queues
                 /\ n.m = w.m /\ n.d = w.d /\ n.end = "returned"
  BY DEF Note, Worked, WorkFields
<1> HIDE DEF v
<1>3. /\ DOMAIN v = WorkFields /\ DOMAIN v.sent = Queues
      /\ v.m = w.m /\ v.d = w.d /\ v.end = "returned"
  BY <1>1, <1>2 DEF Worked
<1>. QED BY <1>3 DEF Worked, Result, Typed, v

LEMMA Cleanses ==
    ASSUME NEW w, Worked(w), NEW l
    PROVE  LET v == Cleanse(l, w)
           IN  /\ Result(w, v) /\ Uncopied(w, v) /\ v.end = "returned" /\ Typed(v.m)
               /\ v.m.cc = w.m.cc
               /\ IF l.anonymous THEN Cleansed(l, v.m) ELSE v.m.from = w.m.from
<1> DEFINE v == Cleanse(l, w)
           n == [w.m EXCEPT !.approve = "none", !.urgent = FALSE]
           k == [n EXCEPT !.from = <<Posting>>, !.replyTo = <<Posting>>, !.sender = <<>>]
<1>1. v.m = IF l.anonymous THEN k ELSE n
  BY DEF Cleanse, Worked, WorkFields
<1>2. /\ DOMAIN v = WorkFields /\ v.d = w.d /\ v.sent = w.sent /\ v.end = w.end
  BY DEF Cleanse, Worked, WorkFields
<1> HIDE DEF v
<1>3. DOMAIN n = DOMAIN Plain /\ \A x \in Named \cup {"cc"} : n[x] = w.m[x]
  BY HeadersThere DEF Worked, Typed, Named
<1> HIDE DEF n
<1>4. PICK T : \A x \in Named : w.m[x] \in Seq(T)
  BY DEF Worked, Typed
<1>5. CASE l.anonymous
  <2>1. /\ DOMAIN k = DOMAIN Plain /\ k.from = <<Posting>> /\ k.replyTo = <<Posting>>
        /\ k.sender = <<>> /\ k.envelope = n.envelope /\ k.cc = n.cc
    BY <1>3, HeadersThere DEF Named
  <2> HIDE DEF k
  <2>2. v.m = k
    BY <1>1, <1>5
  <2>3. k.envelope \in Seq(T)
    BY <1>3, <1>4, <2>1 DEF Named
  <2> DEFINE U == T \cup {Posting}
  <2>4. k.envelope \in Seq(U) /\ <<Posting>> \in Seq(U) /\ <<>> \in Seq(U)
    BY <2>3
  <2>5. Typed(k)
    <3> HIDE DEF U
    <3>. QED BY <2>1, <2>4 DEF Typed, Named
  <2>6. Cleansed(l, k)
    <3>1. <<Posting>> \in Seq({Posting, l.replyToAddress})
      OBVIOUS
    <3>. QED BY <2>1, <3>1 DEF Cleansed
  <2>. QED BY <1>2, <1>3, <1>5, <2>1, <2>2, <2>5, <2>6 DEF Worked, Result, Uncopied, v
<1>6. CASE ~l.anonymous
  <2>1. v.m = n
    BY <1>1, <1>6
  <2>2. Typed(n) /\ n.from = w.m.from /\ n.cc = w.m.cc
    BY <1>3, <1>4 DEF Typed, Named
  <2>. QED BY <1>2, <1>3, <1>6, <2>1, <2>2 DEF Worked, Result, Uncopied, v
<1>. QED BY <1>5, <1>6

LEMMA NewReplyTo ==
    ASSUME NEW T, NEW l, NEW m, m.replyTo \in Seq(T), Posting \in T, l.replyToAddress \in T
    PROVE  MungedReplyTo(l, m) \in Seq(T)
<1> DEFINE a == IF l.replyGoes \in {"explicit", "explicit only"} THEN <<l.replyToAddress>> ELSE <<>>
           b == IF l.firstStripReplyTo THEN <<>> ELSE m.replyTo
           c == IF l.replyGoes = "list" THEN <<Posting>> ELSE <<>>
<1>1. a \in Seq(T) /\ b \in Seq(T) /\ c \in Seq(T)
  <2>1. <<>> \in Seq(T) /\ <<Posting>> \in Seq(T) /\ <<l.replyToAddress>> \in Seq(T)
    OBVIOUS
  <2>2. a = <<>> \/ a = <<l.replyToAddress>>
    BY Zenon
  <2> HIDE DEF a
  <2>. QED BY <2>1, <2>2
<1>2. MungedReplyTo(l, m) = Distinct(a \o b \o c)
  BY DEF MungedReplyTo
<1> HIDE DEF a, b, c
<1>3. a \o b \o c \in Seq(T)
  BY <1>1
<1>. QED BY <1>2, <1>3, DistinctTyped

LEMMA Cooks ==
    ASSUME NEW w, Worked(w), NEW l
    PROVE  LET v == CookHeaders(l, w)
           IN  /\ Result(w, v) /\ Uncopied(w, v) /\ v.end = "returned" /\ Typed(v.m)
               /\ v.m.from = w.m.from
               /\ l.anonymous => v.m.cc = w.m.cc
               /\ Cleansed(l, w.m) => Cleansed(l, v.m)
               /\ w.m.from # <<>> => v.d.originalSender = w.m.from[1]
<1> DEFINE v == CookHeaders(l, w)
           s == Senders(w.m)
           first == IF s = <<>> THEN "none" ELSE Head(s)
           reply == MungedReplyTo(l, w.m)
           cc == MungedCc(l, w.m)
<1>1. v = [w EXCEPT !.d.originalSender = first,
                    !.m.precedence = IF @ = "none" THEN "list" ELSE @,
                    !.m.replyTo = reply, !.m.cc = cc]
  BY DEF CookHeaders
<1>2. w.m.from # <<>> => first = w.m.from[1]
  BY SendersHead DEF Worked
<1>3. l.anonymous => cc = w.m.cc
  BY DEF MungedCc
<1>4. PICK T : \A x \in Named : w.m[x] \in Seq(T)
  BY DEF Worked, Typed
<1> DEFINE U == T \cup {Posting, l.replyToAddress}
<1>5. \A x \in Named : w.m[x] \in Seq(U)
  BY <1>4
<1>6. reply \in Seq(U)
  <2>1. w.m.replyTo \in Seq(U) /\ Posting \in U /\ l.replyToAddress \in U
    BY <1>5 DEF Named
  <2> HIDE DEF U
  <2>. QED BY <2>1, NewReplyTo
<1>7. Cleansed(l, w.m) => reply \in Seq({Posting, l.replyToAddress})
  BY NewReplyTo DEF Cleansed
<1> HIDE DEF v, first, reply, cc, U
<1>8. /\ DOMAIN v = WorkFields /\ v.sent = w.sent /\ v.end = w.end
      /\ v.d = [w.d EXCEPT !.originalSender = first]
      /\ v.m = [w.m EXCEPT !.precedence = IF @ = "none" THEN "list" ELSE @,
                           !.replyTo = reply, !.cc = cc]
  BY <1>1 DEF Worked, WorkFields
<1>9. /\ DOMAIN v.d = DataFields /\ v.d.toOwner = w.d.toOwner /\ v.d.originalSender = first
  BY <1>8, HeadersThere DEF Worked
<1>10. /\ DOMAIN v.m = DOMAIN Plain /\ v.m.from = w.m.from /\ v.m.envelope = w.m.envelope
       /\ v.m.sender = w.m.sender /\ v.m.replyTo = reply /\ v.m.cc = cc
  BY <1>8, HeadersThere DEF Worked, Typed, Named
<1>11. Typed(v.m)
  BY <1>5, <1>6, <1>10 DEF Typed, Named
<1>12. Result(w, v) /\ Uncopied(w, v) /\ v.end = "returned"
  BY <1>8, <1>9, <1>10 DEF Worked, Result, Uncopied
<1>13. Cleansed(l, w.m) => Cleansed(l, v.m)
  BY <1>7, <1>10 DEF Cleansed
<1>. QED BY <1>2, <1>3, <1>9, <1>10, <1>11, <1>12, <1>13 DEF v

LEMMA Munges ==
    ASSUME NEW w, Worked(w), NEW l, NEW n \in {Munged(l, w), Wrapped(l, w)}
    PROVE  /\ Typed(n)
           /\ OriginalFrom(w) \in Range(n.replyTo) \cup n.cc
<1> DEFINE a == OriginalFrom(w)
           k == Munged(l, w)
           reply == IF a \in Range(w.m.replyTo) THEN w.m.replyTo ELSE Append(w.m.replyTo, a)
<1>1. PICK T : \A x \in Named : w.m[x] \in Seq(T)
  BY DEF Worked, Typed
<1> DEFINE U == T \cup {Posting, a}
<1>2. \A x \in Named : w.m[x] \in Seq(U)
  BY <1>1
<1>3. <<Posting>> \in Seq(U) /\ <<>> \in Seq(U) /\ a \in U
  OBVIOUS
<1>4. k = IF l.replyGoes = "none"
          THEN [w.m EXCEPT !.from = <<Posting>>, !.replyTo = reply]
          ELSE [w.m EXCEPT !.from = <<Posting>>, !.cc = @ \cup {a}]
  BY DEF Munged
<1> HIDE DEF U, a, k
<1>5. reply \in Seq(U) /\ a \in Range(reply)
  <2>1. w.m.replyTo \in Seq(U)
    BY <1>2 DEF Named
  <2>2. a \in Range(Append(w.m.replyTo, a)) /\ Append(w.m.replyTo, a) \in Seq(U)
    <3>1. \A s \in Seq(U) : /\ Append(s, a) \in Seq(U) /\ Len(s) + 1 \in DOMAIN Append(s, a)
                            /\ Append(s, a)[Len(s) + 1] = a
      BY <1>3
    <3>. QED BY <2>1, <3>1 DEF Range
  <2>. QED BY <2>1, <2>2
<1> HIDE DEF reply
<1>6. /\ DOMAIN k = DOMAIN Plain /\ k.from = <<Posting>>
      /\ k.envelope = w.m.envelope /\ k.sender = w.m.sender
      /\ l.replyGoes = "none" => k.replyTo = reply
      /\ l.replyGoes # "none" => k.replyTo = w.m.replyTo /\ k.cc = w.m.cc \cup {a}
  BY <1>4, HeadersThere DEF Worked, Typed, Named
<1>7. Typed(k) /\ a \in Range(k.replyTo) \cup k.cc
  BY <1>2, <1>3, <1>5, <1>6 DEF Typed, Named
<1>8. CASE n = Wrapped(l, w)
  <2>1. n = [k EXCEPT !.envelope = <<>>, !.sender = <<>>, !.signed = FALSE,
                      !.replyTo = IF l.replyGoes = "none" THEN @ ELSE <<>>,
                      !.cc = IF l.replyGoes = "none" THEN {} ELSE @]
    BY <1>8 DEF Wrapped, k
  <2>2. /\ DOMAIN n = DOMAIN Plain /\ n.from = k.from /\ n.envelope = <<>> /\ n.sender = <<>>
        /\ n.replyTo = (IF l.replyGoes = "none" THEN k.replyTo ELSE <<>>)
        /\ n.cc = IF l.replyGoes = "none" THEN {} ELSE k.cc
    BY <1>6, <2>1, HeadersThere DEF Named
  <2>3. Typed(n)
    BY <1>3, <1>5, <1>6, <2>2 DEF Typed, Named
  <2>4. a \in Range(n.replyTo) \cup n.cc
    BY <1>5, <1>6, <2>2
  <2>. QED BY <2>3, <2>4 DEF a
<1>. QED BY <1>7, <1>8 DEF a, k

LEMMA Mitigates ==
    ASSUME NEW w, Worked(w), NEW l
    PROVE  LET v == Dmarc(l, w)
           IN  /\ Result(w, v) /\ Uncopied(w, v) /\ v.end = "returned" /\ Typed(v.m)
               /\ l.anonymous => v.m = w.m
               /\ (w.m.from # <<>> /\ w.d.originalSender = w.m.from[1]) => Found(w.m.from, v.m)
<1> DEFINE v == Dmarc(l, w)
<1>1. v = w \/ \E n \in {Munged(l, w), Wrapped(l, w)} : ~l.anonymous /\ v = [w EXCEPT !.m = n]
  BY DEF Dmarc
<1> HIDE DEF v
<1>2. CASE v = w
  <2>1. Range(w.m.from) \subseteq Range(w.m.from)
    OBVIOUS
  <2>. QED BY <1>2, <2>1 DEF Worked, Result, Uncopied, Typed, Found, v
<1>3. ASSUME NEW n \in {Munged(l, w), Wrapped(l, w)}, ~l.anonymous, v = [w EXCEPT !.m = n]
      PROVE  /\ Result(w, v) /\ Uncopied(w, v) /\ v.end = "returned" /\ Typed(v.m)
             /\ l.anonymous => v.m = w.m
             /\ (w.m.from # <<>> /\ w.d.originalSender = w.m.from[1]) => Found(w.m.from, v.m)
  <2>1. Typed(n) /\ OriginalFrom(w) \in Range(n.replyTo) \cup n.cc
    BY Munges
  <2>2. /\ DOMAIN v = WorkFields /\ v.m = n /\ v.d = w.d /\ v.sent = w.sent /\ v.end = w.end
    BY <1>3 DEF Worked, WorkFields
  <2>3. (w.m.from # <<>> /\ w.d.originalSender = w.m.from[1]) => OriginalFrom(w) = w.m.from[1]
    BY DEF OriginalFrom
  <2>4. Result(w, v) /\ Uncopied(w, v) /\ v.end = "returned" /\ Typed(v.m)
    BY <2>1, <2>2 DEF Worked, Result, Uncopied, Typed
  <2>. QED BY <1>3, <2>1, <2>2, <2>3, <2>4 DEF Found
<1>. QED BY <1>1, <1>2, <1>3 DEF v

--------------------------------------------------------------------------------
(***************************************************************************)
(* One handler after another.                                              *)
(***************************************************************************)
LEMMA PipelinesAre ==
    /\ Len(PostingPipeline) = 16 /\ Len(OwnerPipeline) = 2
    /\ \A n \in 1 .. 16 \ {5, 7, 10, 11, 12, 15, 16} :
          PostingPipeline[n] \in SteadyHandlers /\ (n > 3 => PostingPipeline[n] \notin Raisers)
    /\ \A n \in {10, 11, 12, 16} : PostingPipeline[n] \in Tellers
    /\ PostingPipeline[5] = "cleanse" /\ PostingPipeline[7] = "cook-headers"
    /\ PostingPipeline[15] = "dmarc"
    /\ OwnerPipeline[1] \in SteadyHandlers \ Raisers /\ OwnerPipeline[2] \in Tellers
<1>1. Len(PostingPipeline) = 16 /\ Len(OwnerPipeline) = 2
  BY DEF PostingPipeline, OwnerPipeline
<1>2. ASSUME NEW n \in 1 .. 16 \ {5, 7, 10, 11, 12, 15, 16}
      PROVE  PostingPipeline[n] \in SteadyHandlers
  BY DEF PostingPipeline, SteadyHandlers
<1>3. ASSUME NEW n \in 1 .. 16 \ {5, 7, 10, 11, 12, 15, 16}, n > 3
      PROVE  PostingPipeline[n] \notin Raisers
  BY <1>3 DEF PostingPipeline, Raisers
<1>4. \A n \in {10, 11, 12, 16} : PostingPipeline[n] \in Tellers
  BY DEF PostingPipeline, Tellers
<1>5. /\ PostingPipeline[5] = "cleanse" /\ PostingPipeline[7] = "cook-headers"
      /\ PostingPipeline[15] = "dmarc"
  BY DEF PostingPipeline
<1>6. OwnerPipeline[1] \in SteadyHandlers \ Raisers /\ OwnerPipeline[2] \in Tellers
  BY DEF OwnerPipeline, SteadyHandlers, Raisers, Tellers
<1>. QED BY <1>1, <1>2, <1>3, <1>4, <1>5, <1>6

LEMMA HeadersOn ==
    ASSUME NEW o, NEW l, NEW n \in Nat \ {0, 5, 7, 15}, NEW first, NEW m, NEW d, NEW m2, NEW d2,
           HeadersAt(o, l, n, first, m, d), \A x \in Named : m2[x] = m[x],
           d2.originalSender = d.originalSender, n < 15 \/ m2 = m
    PROVE  HeadersAt(o, l, n + 1, first, m2, d2)
<1>1. m2.from = m.from /\ m2.replyTo = m.replyTo /\ m2.sender = m.sender
  BY DEF Named
<1>2. /\ (n + 1 <= 5 => n <= 5) /\ (n + 1 <= 15 => n <= 15) /\ (n + 1 > 5 => n > 5)
      /\ (n + 1 \in 8 .. 15 => n \in 8 .. 15) /\ (n + 1 > 15 => n > 15 /\ m2 = m)
  OBVIOUS
<1>3. (first /\ (n + 1 <= 5 \/ (n + 1 <= 15 /\ ~l.anonymous))) => m2.from = o.from
  BY <1>1, <1>2 DEF HeadersAt
<1>4. (l.anonymous /\ n + 1 > 5) => Cleansed(l, m2)
  BY <1>1, <1>2 DEF HeadersAt, Cleansed
<1>5. (~l.anonymous /\ first /\ o.from # <<>>) =>
          /\ n + 1 \in 8 .. 15 => d2.originalSender = o.from[1]
          /\ n + 1 > 15 => Found(o.from, m2)
  <2> HIDE DEF Found
  <2>. QED BY <1>2 DEF HeadersAt
<1>. QED BY <1>3, <1>4, <1>5 DEF HeadersAt

(* What a handler makes of the message the pipeline works on.              *)
Tells(w, v) == \E q \in Readers : v.sent[q] # w.sent[q]
HandledAs(o, l, twice, p, w, v) ==
    /\ Result(w, v) /\ Typed(v.m)
    /\ l.anonymous => v.m.cc \subseteq o.cc
    /\ IF p.d.toOwner THEN v.m.from = o.from \/ twice
       ELSE HeadersAt(o, l, p.next + 1, p.file.m.from = o.from, v.m, v.d)
    /\ v.end = "error" => ~p.d.toOwner /\ (p.file.m.from = o.from => v.m.from = o.from)
    /\ Tells(w, v) => v.m = p.m /\ (p.d.toOwner \/ p.next \in {10, 11, 12, 16})

LEMMA TypedAs ==
    ASSUME NEW m, Typed(m), NEW n, DOMAIN n = DOMAIN Plain, \A x \in Named : n[x] = m[x]
    PROVE  Typed(n)
BY DEF Typed

LEMMA OwnerHandled ==
    ASSUME NEW o, NEW l, NEW twice, NEW p, Handling(o, l, twice, p), p.d.toOwner, p.next <= 2,
           NEW w, Worked(w), w.m = p.m, w.d = p.d, NEW x
    PROVE  HandledAs(o, l, twice, p, w, Handled(OwnerPipeline[p.next], l, w, x))
<1> DEFINE v == Handled(OwnerPipeline[p.next], l, w, x)
<1>0. /\ Typed(p.m) /\ (l.anonymous => p.m.cc \subseteq o.cc) /\ p.next \in {1, 2}
      /\ p.m.from = o.from \/ twice
  BY DEF Handling
<1>1. CASE p.next = 1
  <2>1. OwnerPipeline[1] \in SteadyHandlers /\ OwnerPipeline[1] \notin Raisers
    BY PipelinesAre
  <2>2. Steady(w, v) /\ v.end = "returned"
    BY <1>1, <2>1, HandledSteady
  <2> HIDE DEF v
  <2>3. Typed(v.m) /\ v.m.from = w.m.from
    BY <1>0, <2>2, TypedAs DEF Steady, Result, Named
  <2>4. Result(w, v) /\ ~Tells(w, v) /\ v.m.cc \subseteq w.m.cc
    BY <2>2 DEF Steady, Uncopied, Tells
  <2>. QED BY <1>0, <2>2, <2>3, <2>4 DEF HandledAs, v
<1>2. CASE p.next = 2
  <2>1. OwnerPipeline[2] \in Tellers
    BY PipelinesAre
  <2>2. Result(w, v) /\ v.m = w.m /\ v.end = "returned"
    BY <1>2, <2>1, HandledTold
  <2> HIDE DEF v
  <2>. QED BY <1>0, <2>2 DEF HandledAs, v
<1>. QED BY <1>0, <1>1, <1>2

LEMMA PostingHandled ==
    ASSUME NEW o, NEW l, NEW twice, NEW p, Handling(o, l, twice, p), ~p.d.toOwner, p.next <= 16,
           NEW w, Worked(w), w.m = p.m, w.d = p.d, NEW x
    PROVE  HandledAs(o, l, twice, p, w, Handled(PostingPipeline[p.next], l, w, x))
<1> DEFINE v == Handled(PostingPipeline[p.next], l, w, x)
           n == p.next
           first == p.file.m.from = o.from
<1>0. /\ Typed(p.m) /\ (l.anonymous => p.m.cc \subseteq o.cc) /\ n \in 1 .. 16
      /\ HeadersAt(o, l, n, first, p.m, p.d)
  BY DEF Handling
<1>1. CASE n \notin {5, 7, 10, 11, 12, 15, 16}
  <2>1. /\ PostingPipeline[n] \in SteadyHandlers
        /\ n > 3 => PostingPipeline[n] \notin Raisers
    BY <1>0, <1>1, PipelinesAre
  <2>2. Steady(w, v)
    BY <2>1, HandledSteady
  <2>3. n > 3 => v.end = "returned"
    BY <2>1, HandledSteady
  <2> HIDE DEF v
  <2>4. Typed(v.m) /\ v.m.from = w.m.from
    BY <1>0, <2>2, TypedAs DEF Steady, Result, Named
  <2>5. Result(w, v) /\ ~Tells(w, v) /\ v.m.cc \subseteq w.m.cc
    BY <2>2 DEF Steady, Uncopied, Tells
  <2>6. HeadersAt(o, l, n + 1, first, v.m, v.d)
    <3>1. /\ \A y \in Named : v.m[y] = p.m[y]
          /\ v.d.originalSender = p.d.originalSender
      BY <2>2 DEF Steady
    <3>2. n \in Nat \ {0, 5, 7, 15} /\ n < 15
      BY <1>0, <1>1
    <3> HIDE DEF n, first
    <3>. QED BY <1>0, <3>1, <3>2, HeadersOn
  <2>7. (n <= 3 /\ first) => v.m.from = o.from
    <3>1. n <= 3 => n <= 5
      BY <1>0
    <3>. QED BY <1>0, <2>4, <3>1 DEF HeadersAt
  <2>8. v.end = "error" => n <= 3
    BY <1>0, <2>3
  <2>. QED BY <1>0, <2>4, <2>5, <2>6, <2>7, <2>8 DEF HandledAs, v
<1>2. CASE n \in {10, 11, 12, 16}
  <2>1. PostingPipeline[n] \in Tellers
    BY <1>2, PipelinesAre
  <2>2. Result(w, v) /\ v.m = w.m /\ v.d = w.d /\ v.end = "returned"
    BY <2>1, HandledTold
  <2> HIDE DEF v
  <2>3. HeadersAt(o, l, n + 1, first, v.m, v.d)
    <3>1. n \in Nat \ {0, 5, 7, 15}
      BY <1>0, <1>2
    <3> HIDE DEF n, first
    <3>. QED BY <1>0, <2>2, <3>1, HeadersOn
  <2>. QED BY <1>0, <1>2, <2>2, <2>3 DEF HandledAs, v
<1>3. CASE n = 5
  <2>1. v = Cleanse(l, w)
    BY <1>3, PipelinesAre DEF Handled
  <2> HIDE DEF v
  <2>2. /\ Result(w, v) /\ Uncopied(w, v) /\ v.end = "returned" /\ Typed(v.m)
        /\ v.m.cc = w.m.cc
        /\ IF l.anonymous THEN Cleansed(l, v.m) ELSE v.m.from = w.m.from
    BY <2>1, Cleanses
  <2>3. HeadersAt(o, l, n + 1, first, v.m, v.d)
    <3>1. n + 1 = 6 /\ ~(6 <= 5) /\ 6 \notin 8 .. 15 /\ ~(6 > 15)
      BY <1>3
    <3>2. first => p.m.from = o.from
      BY <1>0, <1>3 DEF HeadersAt
    <3> HIDE DEF n, first
    <3>. QED BY <2>2, <3>1, <3>2 DEF HeadersAt
  <2>. QED BY <1>0, <2>2, <2>3 DEF HandledAs, Tells, Uncopied, v
<1>4. CASE n = 7
  <2>1. v = CookHeaders(l, w)
    BY <1>4, PipelinesAre DEF Handled
  <2> HIDE DEF v
  <2>2. /\ Result(w, v) /\ Uncopied(w, v) /\ v.end = "returned" /\ Typed(v.m)
        /\ v.m.from = w.m.from
        /\ l.anonymous => v.m.cc = w.m.cc
        /\ Cleansed(l, w.m) => Cleansed(l, v.m)
        /\ w.m.from # <<>> => v.d.originalSender = w.m.from[1]
    BY <2>1, Cooks
  <2>3. HeadersAt(o, l, n + 1, first, v.m, v.d)
    <3>1. n + 1 = 8 /\ ~(8 <= 5) /\ 8 \in 8 .. 15 /\ ~(8 > 15)
      BY <1>4
    <3>2. /\ (first /\ ~l.anonymous) => p.m.from = o.from
          /\ l.anonymous => Cleansed(l, p.m)
      BY <1>0, <1>4 DEF HeadersAt
    <3> HIDE DEF n, first
    <3>. QED BY <2>2, <3>1, <3>2 DEF HeadersAt
  <2>. QED BY <1>0, <2>2, <2>3 DEF HandledAs, Tells, Uncopied, v
<1>5. CASE n = 15
  <2>1. v = Dmarc(l, w)
    BY <1>5, PipelinesAre DEF Handled
  <2> HIDE DEF v
  <2>2. /\ Result(w, v) /\ Uncopied(w, v) /\ v.end = "returned" /\ Typed(v.m)
        /\ l.anonymous => v.m = w.m
        /\ (w.m.from # <<>> /\ w.d.originalSender = w.m.from[1]) => Found(w.m.from, v.m)
    BY <2>1, Mitigates
  <2>3. HeadersAt(o, l, n + 1, first, v.m, v.d)
    <3>1. n + 1 = 16 /\ ~(16 <= 5) /\ ~(16 <= 15) /\ 16 \notin 8 .. 15
      BY <1>5
    <3>2. /\ (first /\ ~l.anonymous) => p.m.from = o.from
          /\ (first /\ ~l.anonymous /\ o.from # <<>>) => p.d.originalSender = o.from[1]
          /\ l.anonymous => Cleansed(l, p.m)
      BY <1>0, <1>5 DEF HeadersAt
    <3> HIDE DEF n, first
    <3>. QED BY <2>2, <3>1, <3>2 DEF HeadersAt
  <2>. QED BY <1>0, <2>2, <2>3 DEF HandledAs, Tells, Uncopied, v
<1>. QED BY <1>1, <1>2, <1>3, <1>4, <1>5

--------------------------------------------------------------------------------
(***************************************************************************)
(* Everybody's steps.                                                      *)
(***************************************************************************)
LEMMA StillMeant ==
    ASSUME NEW o, Attributed(o), Counted, Later, list' = list, Begun => Begun'
    PROVE  /\ PipQueue(o, list', Begun', Twice', pipeq)
           /\ ShuntQueue(o, list', Begun', Failed', shunt)
           /\ inq' = inq => InqMeant(o)'
           /\ pipeq' = pipeq => PipeqMeant(o)'
           /\ shunt' = shunt => ShuntMeant(o)'
           /\ inc' = inc => IncMeant(o)'
           /\ pip' = pip => PipMeant(o)'
           /\ shown' = shown => ShownOK(o)'
           /\ asked'.file = asked.file => AskedMeant(o)'
           /\ mail' = mail => LetterMeant(o)'
<1>1. (Failed => Failed') /\ (Twice => Twice')
  BY DEF Failed, Twice, Counted, Later
<1>2. PipQueue(o, list', Begun', Twice', pipeq) /\ ShuntQueue(o, list', Begun', Failed', shunt)
  BY <1>1, QueuesOn DEF Attributed, PipeqMeant, ShuntMeant
<1>3. inc' = inc => IncMeant(o)'
  BY DEF Attributed, IncMeant
<1>4. pip' = pip => PipMeant(o)'
  <2> SUFFICES ASSUME pip' = pip PROVE PipMeant(o)'
    OBVIOUS
  <2>1. PipMeant(o)
    BY DEF Attributed
  <2>2. pip'.file # NoFile => /\ DOMAIN pip'.file = {"m", "d"}
                              /\ Kept(o, list', Begun', Twice', pip'.file)
    BY <1>1, <2>1, KeptOn DEF PipMeant
  <2>3. pip'.pc = "handle" => Handling(o, list', Twice', pip')
    BY <1>1, <2>1 DEF PipMeant, Handling
  <2>4. pip'.pc = "error" => Kept(o, list', Begun', Failed', pip')
    <3> HIDE DEF Handling, Failed, Twice, Begun
    <3>1. pip.pc = "error" => Kept(o, list, Begun, Failed, pip)
      BY Zenon, <2>1 DEF PipMeant
    <3>2. pip.pc = "error" => Kept(o, list, Begun', Failed', pip)
      BY <1>1, <3>1, KeptOn
    <3>. QED BY <3>2
  <2>5. /\ DOMAIN pip' = DOMAIN IdlePip /\ pip'.pc \in {"idle", "handle", "commit", "error"}
        /\ pip'.pc # "idle" => Begun'
    BY <2>1 DEF PipMeant
  <2>. QED BY Zenon, <2>2, <2>3, <2>4, <2>5 DEF PipMeant
<1>5. shown' = shown => ShownOK(o)'
  BY <1>1 DEF Attributed, ShownOK, CopyOK
<1>6. inq' = inq => InqMeant(o)'
  BY DEF Attributed, InqMeant
<1>7. pipeq' = pipeq => PipeqMeant(o)'
  BY Zenon, <1>2 DEF PipeqMeant
<1>8. shunt' = shunt => ShuntMeant(o)'
  BY Zenon, <1>2 DEF ShuntMeant
<1>9. asked'.file = asked.file => AskedMeant(o)'
  BY DEF Attributed, AskedMeant, Begun
<1>10. mail' = mail => LetterMeant(o)'
  BY DEF Attributed, LetterMeant
<1>. QED BY <1>2, <1>3, <1>4, <1>5, <1>6, <1>7, <1>8, <1>9, <1>10

(* A step leaves a part alone, or it is again what it should be.           *)
Moved(o) ==
    /\ list' = list /\ (Begun => Begun') /\ DOMAIN sent' = Queues
    /\ inq' = inq \/ InqMeant(o)'
    /\ pipeq' = pipeq \/ PipeqMeant(o)'
    /\ shunt' = shunt \/ ShuntMeant(o)'
    /\ inc' = inc \/ IncMeant(o)'
    /\ pip' = pip \/ PipMeant(o)'
    /\ shown' = shown \/ ShownOK(o)'
    /\ asked'.file = asked.file \/ AskedMeant(o)'
    /\ mail' = mail \/ LetterMeant(o)'

LEMMA MovedOn ==
    ASSUME NEW o, Attributed(o), Counted, Later, Moved(o)
    PROVE  Attributed(o)'
<1>1. list' = list /\ (Begun => Begun') /\ DOMAIN sent' = Queues
  BY DEF Moved
<1>2. InqMeant(o)' /\ PipeqMeant(o)' /\ ShuntMeant(o)'
  BY Zenon, <1>1, StillMeant DEF Moved
<1>3. IncMeant(o)' /\ PipMeant(o)' /\ ShownOK(o)'
  BY Zenon, <1>1, StillMeant DEF Moved
<1>4. AskedMeant(o)' /\ LetterMeant(o)'
  BY Zenon, <1>1, StillMeant DEF Moved
<1>5. IsMessage(o)
  BY Zenon DEF Attributed
<1>. QED BY Zenon, <1>1, <1>2, <1>3, <1>4, <1>5 DEF Attributed

LEMMA AtRest ==
    ASSUME NEW o
    PROVE  /\ inc' = IdleIn => IncMeant(o)'
           /\ pip' = IdlePip => PipMeant(o)'
BY DEF IncMeant, PipMeant, IdleIn, IdlePip


LEMMA WorkWorked ==
    ASSUME NEW o, Attributed(o), pip.pc = "handle"
    PROVE  Worked(Work) /\ Work.m = pip.m /\ Work.d = pip.d /\ Work.sent = sent
<1>1. Typed(pip.m) /\ DOMAIN pip.d = DataFields /\ DOMAIN sent = Queues
  BY DEF Attributed, PipMeant, Handling
<1>. QED BY <1>1 DEF Work, Worked, WorkFields

HandledTo(v) ==
    /\ UNCHANGED <<list, db, queues, inc, entered, fates, asked, bounds>>
    /\ pip' = [pip EXCEPT !.pc = IF v.end = "error" THEN "error" ELSE @,
                          !.next = @ + 1, !.m = v.m, !.d = v.d, !.posts = v.posts]
    /\ sent' = [v.sent EXCEPT !["virgin"] =
                   @ + Count(v.end = "reject" /\ Senders(v.m) # <<>>)]
    /\ shown' = shown \cup {Copy(q, v.m) : q \in Copied(v)}

LEMMA HandleDoes ==
    ASSUME NEW o, Attributed(o), Handle
    PROVE  \E v : HandledAs(o, list, Twice, pip, Work, v) /\ HandledTo(v)
<1> DEFINE v == Handled(Pipeline(pip.d)[pip.next], list, Work, db)
<1>1. pip.pc = "handle" /\ pip.next <= Len(Pipeline(pip.d)) /\ HandledTo(v)
  <2>1. \E w \in {v} : HandledTo(w)
    BY Zenon DEF Handle, HandledTo
  <2> HIDE DEF v
  <2>2. HandledTo(v)
    BY Zenon, <2>1
  <2>3. pip.pc = "handle" /\ pip.next <= Len(Pipeline(pip.d))
    BY Zenon DEF Handle
  <2>. QED BY <2>2, <2>3
<1>2. HandledAs(o, list, Twice, pip, Work, v)
  <2>1. Handling(o, list, Twice, pip)
    BY <1>1 DEF Attributed, PipMeant
  <2>2. Worked(Work) /\ Work.m = pip.m /\ Work.d = pip.d
    BY <1>1, WorkWorked
  <2>3. CASE pip.d.toOwner
    <3>1. Pipeline(pip.d) = OwnerPipeline /\ pip.next <= 2
      BY <1>1, <2>3, PipelinesAre DEF Pipeline
    <3>. QED BY <2>1, <2>2, <2>3, <3>1, OwnerHandled
  <2>4. CASE ~pip.d.toOwner
    <3>1. Pipeline(pip.d) = PostingPipeline /\ pip.next <= 16
      BY <1>1, <2>4, PipelinesAre DEF Pipeline
    <3>. QED BY <2>1, <2>2, <2>4, <3>1, PostingHandled
  <2>. QED BY <2>3, <2>4
<1> HIDE DEF v
<1>. QED BY <1>1, <1>2

LEMMA HandleShows ==
    ASSUME NEW o, Attributed(o), pip.pc = "handle", NEW v, HandledAs(o, list, Twice, pip, Work, v),
           NEW q \in Copied(v)
    PROVE  CopyOK(o, list, Twice, Copy(q, v.m))
<1> DEFINE c == Copy(q, v.m)
<1>1. v.m = pip.m /\ (pip.d.toOwner \/ pip.next \in {10, 11, 12, 16})
  <2>1. Tells(Work, v)
    BY WorkWorked DEF Copied, Tells, Readers
  <2>. QED BY <2>1 DEF HandledAs
<1>2. /\ c.toOwner = pip.d.toOwner /\ c.anew = (pip.file.m.from # Author)
      /\ c.named = Names(v.m) /\ c.hidden = Hides(v.m)
  BY DEF Copy
<1> HIDE DEF c
<1>3. Handling(o, list, Twice, pip) /\ Begun /\ Author = o.from /\ asked.file.m.cc = o.cc
  BY DEF Attributed, PipMeant, AskedMeant, Meant, Author
<1> SUFFICES ASSUME o.from # <<>>, ~c.toOwner
             PROVE  IF list.anonymous THEN c.hidden ELSE c.named \/ (c.anew /\ Twice)
  BY DEF CopyOK, c
<1>4. /\ HeadersAt(o, list, pip.next, pip.file.m.from = o.from, pip.m, pip.d)
      /\ pip.next \in {10, 11, 12, 16}
      /\ list.anonymous => pip.m.cc \subseteq o.cc
  BY <1>1, <1>2, <1>3 DEF Handling
<1>5. CASE list.anonymous
  <2>1. Cleansed(list, pip.m) /\ pip.m.cc \subseteq asked.file.m.cc
    BY <1>3, <1>4, <1>5 DEF HeadersAt
  <2>2. /\ Range(pip.m.from) \subseteq {Posting, list.replyToAddress}
        /\ Range(pip.m.replyTo) \subseteq {Posting, list.replyToAddress}
        /\ Range(pip.m.sender) = {}
    BY <2>1 DEF Cleansed, Range
  <2>3. Hides(pip.m)
    BY <2>1, <2>2 DEF Hides
  <2>. QED BY <1>1, <1>2, <1>5, <2>3
<1>6. CASE ~list.anonymous /\ pip.file.m.from = o.from
  <2>1. pip.next = 16 => Found(o.from, pip.m)
    BY <1>4, <1>6 DEF HeadersAt
  <2>2. pip.next # 16 => pip.m.from = o.from
    BY <1>4, <1>6 DEF HeadersAt
  <2>3. Names(pip.m)
    BY <1>3, <2>1, <2>2 DEF Names, Found
  <2>. QED BY <1>1, <1>2, <1>6, <2>3
<1>7. CASE ~list.anonymous /\ pip.file.m.from # o.from
  <2>1. Twice
    BY <1>3, <1>7 DEF Attributed, PipMeant, Handling, Kept
  <2>. QED BY <1>2, <1>3, <1>7, <2>1
<1>. QED BY <1>5, <1>6, <1>7

LEMMA HandleMeant ==
    ASSUME NEW o, Attributed(o), Handle
    PROVE  PipMeant(o)' /\ ShownOK(o)' /\ DOMAIN sent' = Queues
<1>0. PICK v : HandledAs(o, list, Twice, pip, Work, v) /\ HandledTo(v)
  BY Zenon, HandleDoes
<1>1. /\ UNCHANGED <<list, db, queues, inc, entered, fates, asked, bounds>>
      /\ pip' = [pip EXCEPT !.pc = IF v.end = "error" THEN "error" ELSE @,
                            !.next = @ + 1, !.m = v.m, !.d = v.d, !.posts = v.posts]
      /\ sent' = [v.sent EXCEPT !["virgin"] =
                     @ + Count(v.end = "reject" /\ Senders(v.m) # <<>>)]
      /\ shown' = shown \cup {Copy(q, v.m) : q \in Copied(v)}
  BY Zenon, <1>0 DEF HandledTo
<1>2. (Begun' <=> Begun) /\ (Twice' <=> Twice) /\ (Failed' <=> Failed) /\ list' = list
  BY <1>1 DEF Begun, Twice, Failed, bounds
<1>3. PipMeant(o) /\ pip.pc = "handle" /\ Handling(o, list, Twice, pip) /\ Begun
  BY DEF Attributed, PipMeant, Handle
<1>4. DOMAIN sent' = Queues
  <2>1. DOMAIN v.sent = Queues
    BY <1>0 DEF HandledAs, Result
  <2>2. DOMAIN sent' = DOMAIN v.sent
    BY <1>1
  <2>. QED BY <2>1, <2>2
<1>5. ShownOK(o)'
  <2>1. \A q \in Copied(v) : CopyOK(o, list, Twice, Copy(q, v.m))
    BY Zenon, <1>0, <1>3, HandleShows
  <2>2. \A c \in shown : CopyOK(o, list, Twice, c)
    BY Zenon DEF Attributed, ShownOK
  <2>3. \A c \in shown' : CopyOK(o, list, Twice, c)
    BY Zenon, <1>1, <2>1, <2>2
  <2>4. \A c \in shown' : CopyOK(o, list', Twice', c)
    BY <1>2, <2>3 DEF CopyOK
  <2>. QED BY Zenon, <1>2, <1>3, <2>4 DEF ShownOK
<1>6. PipMeant(o)'
  <2>1. DOMAIN pip = {"pc", "file", "next", "m", "d", "posts"}
    BY <1>3 DEF PipMeant, IdlePip
  <2>2. /\ DOMAIN pip' = DOMAIN pip /\ pip'.file = pip.file /\ pip'.next = pip.next + 1
        /\ pip'.m = v.m /\ pip'.d = v.d
        /\ pip'.pc = IF v.end = "error" THEN "error" ELSE "handle"
    BY <1>1, <1>3, <2>1
  <2>3. Handling(o, list', Twice', pip')
    <3>1. pip'.file # NoFile /\ pip'.next \in Nat \ {0}
      BY <1>3, <2>2 DEF Handling
    <3>2. /\ Typed(pip'.m) /\ DOMAIN pip'.d = DataFields /\ pip'.d.toOwner = pip.d.toOwner
          /\ list.anonymous => pip'.m.cc \subseteq o.cc
      <4>1. Work.d = pip.d
        BY <1>3, WorkWorked
      <4>. QED BY <1>0, <2>2, <4>1 DEF HandledAs, Result
    <3>3. IF pip.d.toOwner THEN pip'.m.from = o.from \/ Twice
          ELSE HeadersAt(o, list, pip'.next, pip'.file.m.from = o.from, pip'.m, pip'.d)
      <4> HIDE DEF HeadersAt
      <4>. QED BY Zenon, <1>0, <2>2 DEF HandledAs
    <3>. QED BY <1>2, <3>1, <3>2, <3>3 DEF Handling
  <2>4. pip'.pc = "error" => Kept(o, list', Begun', Failed', pip')
    <3>1. pip.file.m.from = o.from \/ Twice
      BY <1>3 DEF PipMeant, Handling, Kept
    <3>2. Twice => Failed
      BY DEF Twice, Failed
    <3>3. pip'.pc = "error" => pip'.m.from = o.from \/ Failed
      BY <1>0, <2>2, <3>1, <3>2 DEF HandledAs
    <3>. QED BY <1>2, <1>3, <2>3, <3>3 DEF Kept, Handling
  <2>5. pip'.file # NoFile => /\ DOMAIN pip'.file = {"m", "d"}
                              /\ Kept(o, list', Begun', Twice', pip'.file)
    BY <1>2, <1>3, <2>2 DEF PipMeant, Kept
  <2>6. /\ DOMAIN pip' = DOMAIN IdlePip /\ pip'.pc \in {"idle", "handle", "commit", "error"}
        /\ pip'.pc # "idle" => Begun'
    BY <1>2, <1>3, <2>2 DEF PipMeant
  <2>. QED BY Zenon, <2>3, <2>4, <2>5, <2>6 DEF PipMeant
<1>. QED BY <1>4, <1>5, <1>6

LEMMA TakePipMoves ==
    ASSUME NEW o, Attributed(o), Counted, Later, mail' = mail, TakePip
    PROVE  Moved(o)
<1> DEFINE f == Head(pipeq)
<1>1. /\ UNCHANGED <<list, inq, shunt, inc, sent, shown, asked, faults, changes>>
      /\ pip' = [IdlePip EXCEPT !.pc = "handle", !.file = f, !.m = f.m,
                                !.d = f.d, !.posts = db.posts]
      /\ pipeq' = Tail(pipeq)
  BY DEF TakePip, history, bounds
<1>2. /\ DOMAIN f = {"m", "d"} /\ Kept(o, list, Begun, Twice, f)
      /\ PipQueue(o, list, Begun, Twice, Tail(pipeq))
  BY PipQueueHolds DEF TakePip, Attributed, PipeqMeant
<1> HIDE DEF f
<1>3. (Begun' <=> Begun) /\ (Twice' <=> Twice) /\ (Failed' <=> Failed)
  BY <1>1 DEF Begun, Twice, Failed
<1>4. PipeqMeant(o)'
  BY Zenon, <1>1, <1>2, StillMeant, QueuesOn, <1>3 DEF PipeqMeant
<1>5. /\ DOMAIN pip' = DOMAIN IdlePip /\ pip'.pc = "handle" /\ pip'.file = f /\ pip'.next = 1
      /\ pip'.m = f.m /\ pip'.d = f.d
  BY <1>1 DEF IdlePip
<1>6. f # NoFile
  BY <1>2 DEF NoFile
<1>7. HeadersAt(o, list, 1, f.m.from = o.from, f.m, f.d)
  BY DEF HeadersAt
<1>8. Handling(o, list, Twice, pip')
  BY <1>2, <1>5, <1>6, <1>7 DEF Handling, Kept
<1>9. Kept(o, list', Begun', Twice', pip'.file) /\ Handling(o, list', Twice', pip') /\ Begun'
  <2>1. Begun
    BY <1>2 DEF Kept
  <2>2. Kept(o, list', Begun', Twice', f)
    BY <1>1, <1>2, <1>3, KeptOn
  <2>3. Handling(o, list', Twice', pip')
    BY <1>1, <1>3, <1>8 DEF Handling
  <2>. QED BY <1>3, <1>5, <2>1, <2>2, <2>3
<1>10. PipMeant(o)'
  BY Zenon, <1>2, <1>5, <1>9 DEF PipMeant
<1>. QED BY <1>1, <1>3, <1>4, <1>10 DEF Moved, Attributed

LEMMA EndPipMoves ==
    ASSUME NEW o, Attributed(o), Counted, Later, mail' = mail, FinishPip \/ CommitPip \/ FailPip
    PROVE  Moved(o)
<1>1. /\ UNCHANGED <<list, inq, pipeq, shunt, inc, sent, shown, asked>>
      /\ FinishPip \/ CommitPip => UNCHANGED <<faults, changes>>
  BY DEF FinishPip, CommitPip, FailPip, history, bounds, queues
<1>2. Begun' <=> Begun
  BY <1>1 DEF Begun
<1>3. DOMAIN pip = {"pc", "file", "next", "m", "d", "posts"} /\ PipMeant(o)
  BY DEF Attributed, PipMeant, IdlePip
<1>4. CASE CommitPip
  BY <1>1, <1>2, <1>4, AtRest DEF Moved, Attributed, CommitPip
<1>5. CASE FinishPip
  <2>1. DOMAIN pip' = DOMAIN pip /\ pip'.pc = "commit" /\ pip'.file = NoFile
    BY <1>3, <1>5 DEF FinishPip
  <2>2. Begun
    BY <1>3, <1>5 DEF FinishPip, PipMeant
  <2>3. DOMAIN pip = DOMAIN IdlePip
    BY <1>3 DEF PipMeant
  <2>4. PipMeant(o)'
    BY Zenon, <1>2, <2>1, <2>2, <2>3 DEF PipMeant
  <2>. QED BY <1>1, <1>2, <2>4 DEF Moved, Attributed
<1>6. CASE FailPip
  <2>1. /\ DOMAIN pip' = DOMAIN pip /\ pip'.pc = "error" /\ pip'.file = pip.file
        /\ pip'.m = pip.m /\ pip'.d = pip.d
    BY <1>3, <1>6 DEF FailPip
  <2>2. Begun /\ Handling(o, list, Twice, pip)
    BY <1>3, <1>6 DEF FailPip, PipMeant
  <2>3. Failed' /\ (Twice => Twice')
    BY <1>6 DEF FailPip, Fault, Failed, Twice, Counted, Later
  <2>4. Kept(o, list', Begun', Failed', pip')
    BY <1>1, <1>2, <2>1, <2>2, <2>3 DEF Kept, Handling
  <2>5. pip'.file # NoFile => /\ DOMAIN pip'.file = {"m", "d"}
                              /\ Kept(o, list', Begun', Twice', pip'.file)
    <3>1. pip.file # NoFile => /\ DOMAIN pip.file = {"m", "d"}
                               /\ Kept(o, list, Begun, Twice, pip.file)
      BY Zenon, <1>3 DEF PipMeant
    <3>. QED BY <1>1, <1>2, <2>1, <2>3, <3>1 DEF Kept
  <2>6. DOMAIN pip = DOMAIN IdlePip
    BY <1>3 DEF PipMeant
  <2>7. PipMeant(o)'
    BY Zenon, <1>2, <2>1, <2>2, <2>4, <2>5, <2>6 DEF PipMeant
  <2>. QED BY <1>1, <1>2, <2>7 DEF Moved, Attributed
<1>. QED BY <1>4, <1>5, <1>6

LEMMA ShuntPipMoves ==
    ASSUME NEW o, Attributed(o), Counted, Later, mail' = mail, ShuntPip
    PROVE  Moved(o)
<1> DEFINE e == [m |-> pip.m, d |-> pip.d, whichq |-> "pipeline"]
<1>1. /\ UNCHANGED <<list, inq, pipeq, inc, sent, shown, asked, faults, changes>>
      /\ shunt' = Append(shunt, e) /\ pip' = IdlePip
  BY DEF ShuntPip, Shunted, history, bounds
<1>2. (Begun' <=> Begun) /\ (Failed' <=> Failed)
  BY <1>1 DEF Begun, Failed
<1>3. e.m = pip.m /\ e.d = pip.d /\ e.whichq = "pipeline"
  OBVIOUS
<1> HIDE DEF e
<1>4. Kept(o, list, Begun, Failed, pip)
  BY DEF ShuntPip, Attributed, PipMeant
<1>5. Unshuntable(o, list, Begun, Failed, e)
  BY <1>3, <1>4 DEF Unshuntable, Kept
<1>6. ShuntQueue(o, list, Begun, Failed, shunt)
  BY DEF Attributed, ShuntMeant
<1>7. ShuntQueue(o, list, Begun, Failed, Append(shunt, e))
  BY Zenon, <1>5, <1>6, ShuntQueueHolds
<1>8. ShuntMeant(o)'
  BY <1>1, <1>2, <1>7, QueuesOn DEF ShuntMeant
<1>. QED BY <1>1, <1>2, <1>8, AtRest DEF Moved, Attributed

LEMMA QueueTyped ==
    ASSUME NEW o, NEW l, NEW b, NEW t, NEW q,
           InQueue(o, q) \/ PipQueue(o, l, b, t, q) \/ ShuntQueue(o, l, b, t, q)
    PROVE  <<>> \o q = q
<1>1. PICK S : q \in Seq(S)
  BY DEF InQueue, PipQueue, ShuntQueue
<1>. QED BY <1>1

LEMMA CrashPipMoves ==
    ASSUME NEW o, Attributed(o), Counted, Later, mail' = mail, CrashPip
    PROVE  Moved(o)
<1>1. /\ UNCHANGED <<list, inq, shunt, inc, sent, shown, asked>>
      /\ pipeq' = Recovered(pip, pipeq) /\ pip' = IdlePip
  BY DEF CrashPip, history
<1>2. Begun' <=> Begun
  BY <1>1 DEF Begun
<1>3. PipQueue(o, list, Begun, Twice, pipeq)
  BY DEF Attributed, PipeqMeant
<1>4. PipQueue(o, list, Begun, Twice, Recovered(pip, pipeq))
  <2>1. CASE pip.file = NoFile
    BY <1>3, <2>1, QueueTyped DEF Recovered
  <2>2. CASE pip.file # NoFile
    <3>1. DOMAIN pip.file = {"m", "d"} /\ Kept(o, list, Begun, Twice, pip.file)
      BY <2>2 DEF Attributed, PipMeant
    <3>2. PipQueue(o, list, Begun, Twice, <<pip.file>> \o pipeq)
      BY Zenon, <1>3, <3>1, PipQueueHolds
    <3>. QED BY <2>2, <3>2 DEF Recovered
  <2>. QED BY <2>1, <2>2
<1>5. Twice => Twice'
  BY DEF Twice, Counted, Later
<1>6. PipeqMeant(o)'
  BY <1>1, <1>2, <1>4, <1>5, QueuesOn DEF PipeqMeant
<1>. QED BY <1>1, <1>2, <1>6, AtRest DEF Moved, Attributed

LEMMA HandleMoves ==
    ASSUME NEW o, Attributed(o), Counted, Later, mail' = mail, Handle
    PROVE  Moved(o)
<1>1. UNCHANGED <<list, inq, pipeq, shunt, inc, asked>>
  BY DEF Handle, queues
<1>2. Begun' <=> Begun
  BY <1>1 DEF Begun
<1>3. PipMeant(o)' /\ ShownOK(o)' /\ DOMAIN sent' = Queues
  BY HandleMeant
<1>. QED BY <1>1, <1>2, <1>3 DEF Moved

(* The incoming runner takes what was posted and, when it is accepted,     *)
(* leaves that to the pipeline.                                            *)
LEMMA MessageTyped ==
    ASSUME NEW m, IsMessage(m)
    PROVE  Typed(m)
<1>1. \A x \in Named : m[x] \in Seq(Addrs)
  BY DEF IsMessage, Named
<1>. QED BY <1>1 DEF IsMessage, Typed

LEMMA TakeInMoves ==
    ASSUME NEW o, Attributed(o), Counted, Later, mail' = mail, TakeIn
    PROVE  Moved(o)
<1> DEFINE f == Head(inq)
           fails == Replies(f.m, f.d) /\ Senders(f.m) = <<>>
           discards == ResponseAction(f.d) = "respond_and_discard"
           responded == IF Replies(f.m, f.d) /\ ~fails THEN {Head(Senders(f.m))} ELSE {}
<1>1. /\ UNCHANGED <<list, pipeq, shunt, pip, shown>>
      /\ inq # <<>> /\ inq' = Tail(inq)
      /\ inc' = [IdleIn EXCEPT
                        !.pc = IF fails THEN "error"
                               ELSE IF discards THEN "finish" ELSE "register",
                        !.file = f, !.m = f.m, !.d = f.d,
                        !.responded = responded]
      /\ asked' = [file |-> f, db |-> db, banned |-> db.banned, changed |-> FALSE]
      /\ sent' = sent \/ sent' = [sent EXCEPT !["virgin"] = @ + 1]
  BY DEF TakeIn
<1>2. DOMAIN f = {"m", "d"} /\ Meant(o, f.m) /\ InQueue(o, Tail(inq))
  BY <1>1, InQueueHolds DEF Attributed, InqMeant
<1> HIDE DEF f, fails, discards, responded
<1>3. DOMAIN sent' = Queues
  BY <1>1 DEF Attributed
<1>4. asked'.file = f /\ Begun'
  <2>1. asked'.file = f
    BY <1>1
  <2>2. f # NoFile
    BY <1>2 DEF NoFile
  <2>. QED BY <2>1, <2>2 DEF Begun
<1>5. inc'.file = f /\ inc'.m = f.m
  BY <1>1 DEF IdleIn
<1>6. IncMeant(o)' /\ AskedMeant(o)'
  BY <1>2, <1>4, <1>5 DEF IncMeant, AskedMeant
<1>7. InqMeant(o)'
  BY <1>1, <1>2 DEF InqMeant
<1>. QED BY <1>1, <1>3, <1>4, <1>6, <1>7 DEF Moved

LEMMA FollowLinkMoves ==
    ASSUME NEW o, Attributed(o), Counted, Later, Safe, mail' = mail, FollowLink
    PROVE  Moved(o)
<1> DEFINE link == Here[inc.next]
           f == [m |-> inc.m, d |-> inc.d]
<1>1. /\ UNCHANGED <<list, inq, shunt, pip, shown, asked, faults, changes>>
      /\ inc.pc = "link" /\ ~Exhausted
  BY DEF FollowLink, bounds
<1>2. \/ UNCHANGED <<pipeq, sent>>
      \/ Process(inc.chain)
  BY Zenon DEF FollowLink
<1>3. Begun /\ Meant(o, inc.m) /\ IsMessage(inc.m) /\ DOMAIN inc.d = DataFields
  BY <1>1 DEF Attributed, IncMeant, Safe, TypeOK, IncOK
<1>4. DOMAIN sent' = Queues
  BY <1>2 DEF Attributed, Process
<1>5. IncMeant(o)'
  <2>1. NextLink(link)
    BY <1>1, ExhaustedOnlyThere DEF LinkFound, Safe, TypeOK
  <2>2. link.action \in LinkActions
    BY <1>1, <2>1, LinkTyped DEF Safe, TypeOK
  <2>3. IF Fails(link, list, inc.m) THEN Broke ELSE Went(link)
    BY <2>2, FollowLinkDoes DEF Safe, TypeOK
  <2> HIDE DEF link
  <2>4. inc'.file = inc.file /\ (inc'.m = inc.m \/ inc'.m = Stripped(link, list, inc.m))
    BY <2>3 DEF Broke, Went, IncFields
  <2>5. Meant(o, inc'.m)
    <3>1. {"from", "cc"} \subseteq DOMAIN Plain \ {"approve"}
      BY DEF Plain
    <3>2. /\ Stripped(link, list, inc.m).from = inc.m.from
          /\ Stripped(link, list, inc.m).cc = inc.m.cc
      BY <1>3, <3>1, StrippedOK
    <3>. QED BY <1>3, <2>4, <3>2 DEF Meant
  <2>. QED BY <1>1, <1>3, <2>4, <2>5 DEF IncMeant, Attributed, Begun
<1>6. pipeq' = pipeq \/ PipeqMeant(o)'
  <2> SUFFICES ASSUME pipeq' # pipeq PROVE PipeqMeant(o)'
    OBVIOUS
  <2>1. pipeq' = Append(pipeq, f)
    BY <1>2 DEF Process
  <2>2. DOMAIN f = {"m", "d"} /\ f.m = inc.m /\ f.d = inc.d
    OBVIOUS
  <2> HIDE DEF f
  <2>3. Kept(o, list, Begun, Twice, f)
    BY <1>3, <2>2, MessageTyped DEF Kept, Meant
  <2>4. PipQueue(o, list, Begun, Twice, pipeq)
    BY DEF Attributed, PipeqMeant
  <2>5. PipQueue(o, list, Begun, Twice, Append(pipeq, f))
    BY Zenon, <2>2, <2>3, <2>4, PipQueueHolds
  <2>6. (Begun => Begun') /\ (Twice => Twice') /\ list' = list
    BY <1>1 DEF Begun, Twice
  <2>. QED BY <2>1, <2>5, <2>6, QueuesOn DEF PipeqMeant
<1>7. Begun => Begun'
  BY <1>1 DEF Begun
<1>. QED BY <1>1, <1>4, <1>5, <1>6, <1>7 DEF Moved

LEMMA BetweenMoves ==
    ASSUME NEW o, Attributed(o), Counted, Later, Safe, mail' = mail,
           Register \/ ReturnOrStop \/ FinishIn \/ CommitIn
    PROVE  Moved(o)
<1>1. UNCHANGED <<list, inq, pipeq, shunt, pip, sent, shown, asked>>
  BY DEF Register, ReturnOrStop, FinishIn, CommitIn, queues, history
<1>2. (Begun' <=> Begun) /\ DOMAIN inc = IncFields /\ IncMeant(o) /\ DOMAIN sent = Queues
  BY <1>1 DEF Begun, Safe, TypeOK, IncOK, Attributed
<1>3. inc' = IdleIn \/ /\ inc'.m = inc.m /\ inc.pc # "idle"
                       /\ inc'.file = inc.file \/ inc'.file = NoFile
  <2>1. CASE CommitIn
    BY <2>1 DEF CommitIn
  <2>2. CASE Register
    BY <1>2, <2>2 DEF Register, IncFields
  <2>3. CASE FinishIn
    BY <1>2, <2>3 DEF FinishIn, IncFields
  <2>4. CASE ReturnOrStop
    <3>1. inc' = [inc EXCEPT !.pc = "finish"] \/ inc' = Return(inc)
      BY <2>4 DEF ReturnOrStop
    <3>2. inc.pc = "link"
      BY <2>4 DEF ReturnOrStop
    <3>. QED BY <1>2, <3>1, <3>2 DEF Return, IncFields
  <2>. QED BY <2>1, <2>2, <2>3, <2>4
<1>4. IncMeant(o)'
  <2>1. CASE inc' = IdleIn
    BY <2>1, AtRest
  <2>2. CASE inc' # IdleIn
    BY <1>2, <1>3, <2>2 DEF IncMeant
  <2>. QED BY <2>1, <2>2
<1>. QED BY <1>1, <1>2, <1>4 DEF Moved

LEMMA ShuntInMoves ==
    ASSUME NEW o, Attributed(o), Counted, Later, mail' = mail, ShuntIn
    PROVE  Moved(o)
<1> DEFINE e == [m |-> inc.m, d |-> inc.d, whichq |-> "in"]
<1>1. /\ UNCHANGED <<list, inq, pipeq, pip, sent, shown, asked, faults, changes>>
      /\ shunt' = Append(shunt, e) /\ inc' = IdleIn /\ inc.pc = "error"
  BY DEF ShuntIn, Shunted, history, bounds
<1>2. (Begun' <=> Begun) /\ (Failed' <=> Failed)
  BY <1>1 DEF Begun, Failed
<1>3. e.m = inc.m /\ e.whichq = "in"
  OBVIOUS
<1> HIDE DEF e
<1>4. Unshuntable(o, list, Begun, Failed, e)
  BY <1>1, <1>3 DEF Unshuntable, Attributed, IncMeant
<1>5. ShuntQueue(o, list, Begun, Failed, shunt)
  BY DEF Attributed, ShuntMeant
<1>6. ShuntQueue(o, list, Begun, Failed, Append(shunt, e))
  BY Zenon, <1>4, <1>5, ShuntQueueHolds
<1>7. ShuntMeant(o)'
  BY <1>1, <1>2, <1>6, QueuesOn DEF ShuntMeant
<1>. QED BY <1>1, <1>2, <1>7, AtRest DEF Moved, Attributed

LEMMA CrashInMoves ==
    ASSUME NEW o, Attributed(o), Counted, Later, mail' = mail, CrashIn
    PROVE  Moved(o)
<1>1. /\ UNCHANGED <<list, pipeq, shunt, pip, sent, shown, asked>>
      /\ inq' = Recovered(inc, inq) /\ inc' = IdleIn
  BY DEF CrashIn, history
<1>2. (Begun' <=> Begun) /\ InQueue(o, inq)
  BY <1>1 DEF Begun, Attributed, InqMeant
<1>3. InQueue(o, Recovered(inc, inq))
  <2>1. CASE inc.file = NoFile
    BY <1>2, <2>1, QueueTyped DEF Recovered
  <2>2. CASE inc.file # NoFile
    <3>1. DOMAIN inc.file = {"m", "d"} /\ Meant(o, inc.file.m)
      BY <2>2 DEF Attributed, IncMeant
    <3>2. InQueue(o, <<inc.file>> \o inq)
      BY Zenon, <1>2, <3>1, InQueueHolds
    <3>. QED BY <2>2, <3>2 DEF Recovered
  <2>. QED BY <2>1, <2>2
<1>4. InqMeant(o)'
  BY <1>1, <1>3 DEF InqMeant
<1>. QED BY <1>1, <1>2, <1>4, AtRest DEF Moved, Attributed

(* People: what is unshunted did fail, whoever posts again posts the same. *)
LEMMA ChangeMoves ==
    ASSUME NEW o, Attributed(o), Counted, Later, Safe, mail' = mail, NEW new, Change(new)
    PROVE  Moved(o)
<1>1. /\ UNCHANGED <<list, inq, pipeq, shunt, inc, pip, sent, shown>>
      /\ asked' = [asked EXCEPT !.changed = TRUE, !.banned = @ \cap new.banned]
  BY DEF Change, queues
<1>2. asked'.file = asked.file
  BY <1>1 DEF Safe, TypeOK
<1>. QED BY <1>1, <1>2 DEF Moved, Attributed, Begun

LEMMA RepostMoves ==
    ASSUME NEW o, Attributed(o), Counted, Later, Safe, mail' = mail, Repost
    PROVE  Moved(o)
<1>1. /\ UNCHANGED <<list, pipeq, shunt, inc, pip, asked>>
      /\ asked.file # NoFile /\ inq' = <<asked.file>>
      /\ sent' = [q \in Queues |-> 0] /\ shown' = {}
  BY DEF Repost
<1>2. ShownOK(o)' /\ DOMAIN sent' = Queues /\ (Begun <=> Begun')
  BY <1>1 DEF ShownOK, Begun
<1>3. DOMAIN asked.file = {"m", "d"} /\ Meant(o, asked.file.m)
  BY <1>1 DEF Safe, TypeOK, FileOK, Attributed, AskedMeant, Begun
<1>4. InQueue(o, <<>>)
  BY NoQueue
<1>5. InQueue(o, Append(<<>>, asked.file))
  BY Zenon, <1>3, <1>4, InQueueHolds
<1>6. \A x : Append(<<>>, x) = <<x>>
  OBVIOUS
<1>7. InqMeant(o)'
  BY <1>1, <1>5, <1>6 DEF InqMeant
<1>. QED BY <1>1, <1>2, <1>7 DEF Moved

LEMMA UnshuntMoves ==
    ASSUME NEW o, Attributed(o), Counted, Later, mail' = mail, Unshunt
    PROVE  Moved(o)
<1> DEFINE e == Head(shunt)
           f == [m |-> e.m, d |-> e.d]
<1>1. /\ UNCHANGED <<list, inc, pip, sent, shown, asked, faults>>
      /\ shunt # <<>> /\ shunt' = Tail(shunt) /\ changes' = changes + 1
      /\ inq' = IF e.whichq = "in" THEN Append(inq, f) ELSE inq
      /\ pipeq' = IF e.whichq = "pipeline" THEN Append(pipeq, f) ELSE pipeq
  BY DEF Unshunt, history
<1>2. (Begun <=> Begun') /\ (Failed <=> Failed') /\ (Failed => Twice') /\ (Twice => Twice')
  BY <1>1 DEF Begun, Failed, Twice, Counted
<1>3. DOMAIN f = {"m", "d"} /\ f.m = e.m /\ f.d = e.d
  OBVIOUS
<1>4. /\ InQueue(o, inq) /\ PipQueue(o, list, Begun, Twice, pipeq)
      /\ ShuntQueue(o, list, Begun, Failed, shunt)
  BY DEF Attributed, InqMeant, PipeqMeant, ShuntMeant
<1>5. Unshuntable(o, list, Begun, Failed, e) /\ ShuntQueue(o, list, Begun, Failed, Tail(shunt))
  BY <1>1, <1>4, ShuntQueueHolds
<1> HIDE DEF f, e
<1>6. InqMeant(o)'
  <2>1. CASE e.whichq = "in"
    <3>1. Meant(o, f.m)
      BY <1>3, <1>5, <2>1 DEF Unshuntable
    <3>2. InQueue(o, Append(inq, f))
      BY Zenon, <1>3, <1>4, <3>1, InQueueHolds
    <3>. QED BY <1>1, <2>1, <3>2 DEF InqMeant
  <2>2. CASE e.whichq # "in"
    BY <1>1, <1>4, <2>2 DEF InqMeant
  <2>. QED BY <2>1, <2>2
<1>7. PipeqMeant(o)'
  <2>0. PipQueue(o, list, Begun, Twice', pipeq)
    BY <1>2, <1>4, QueuesOn
  <2>1. CASE e.whichq = "pipeline"
    <3>1. Kept(o, list, Begun, Twice', f)
      BY <1>2, <1>3, <1>5, <2>1 DEF Unshuntable, Kept
    <3>2. PipQueue(o, list, Begun, Twice', Append(pipeq, f))
      BY Zenon, <1>3, <2>0, <3>1, PipQueueHolds
    <3>. QED BY <1>1, <1>2, <2>1, <3>2, QueuesOn DEF PipeqMeant
  <2>2. CASE e.whichq # "pipeline"
    BY <1>1, <1>2, <2>0, <2>2, QueuesOn DEF PipeqMeant
  <2>. QED BY <2>1, <2>2
<1>8. ShuntMeant(o)'
  BY <1>1, <1>2, <1>5, QueuesOn DEF ShuntMeant
<1>. QED BY <1>1, <1>2, <1>6, <1>7, <1>8 DEF Moved, Attributed

(* The mail server, the LMTP runner and the command runner: no other       *)
(* letter gets into the incoming queue.                                    *)
LEMMA DeliverMoves ==
    ASSUME NEW o, Attributed(o), Counted, Later, LmtpInv, Deliver
    PROVE  Moved(o)
<1> DEFINE sub == Recipient.sub
           queue == IF Recipient.list = ThisList THEN SubaddressQueue(sub) ELSE "elsewhere"
           file == [m |-> mail.m,
                    d |-> [mail.d EXCEPT !.subaddress = sub, !.toOwner = sub = "owner"]]
<1>1. /\ UNCHANGED <<list, pipeq, shunt, inc, pip, asked, shown, mail>>
      /\ inq' = IF queue = "in" THEN Append(inq, file) ELSE inq
      /\ sent' = IF queue \in Queues THEN [sent EXCEPT ![queue] = @ + 1] ELSE sent
  BY DEF Deliver
<1>2. Current \in DOMAIN mail.to
  <2>1. lmtp.todo \in Seq(DOMAIN mail.to) /\ lmtp.next \in DOMAIN lmtp.todo
    BY LmtpTyped DEF Deliver, LmtpInv, LmtpOK
  <2>. QED BY <2>1 DEF Current
<1>3. queue = "in" => GoesIn(mail.to[Current])
  BY DEF GoesIn, Recipient
<1>4. DOMAIN file = {"m", "d"} /\ file.m = mail.m
  OBVIOUS
<1> HIDE DEF queue, file
<1>5. queue = "in" => Meant(o, file.m)
  BY <1>2, <1>3, <1>4 DEF Attributed, LetterMeant
<1>6. InqMeant(o)'
  <2>1. InQueue(o, inq)
    BY DEF Attributed, InqMeant
  <2>2. CASE queue = "in"
    <3>1. InQueue(o, Append(inq, file))
      BY Zenon, <1>4, <1>5, <2>1, <2>2, InQueueHolds
    <3>. QED BY <1>1, <2>2, <3>1 DEF InqMeant
  <2>3. CASE queue # "in"
    BY <1>1, <2>1, <2>3 DEF InqMeant
  <2>. QED BY <2>2, <2>3
<1>7. DOMAIN sent' = Queues
  BY <1>1 DEF Attributed
<1>8. Begun => Begun'
  BY <1>1 DEF Begun
<1>. QED BY <1>1, <1>6, <1>7, <1>8 DEF Moved

(* What a robot of the list gets as an answer is a command.                *)
LEMMA RobotsStayOut ==
    ASSUME NEW to, to = [ThisList EXCEPT !.local = Append(@, "request")]
    PROVE  ~GoesIn(to)
<1> DEFINE L == ThisList.local
           domain == IF to.domain \in DOMAIN AliasDomains
                     THEN AliasDomains[to.domain] ELSE to.domain
           whole == [local |-> to.local, domain |-> domain]
<1>1. ThisList \in [local : Seq(STRING), domain : STRING]
  BY EntranceAssumption
<1>2. to.local = Append(L, "request") /\ L \in Seq(STRING)
  BY <1>1
<1>3. /\ Last(to.local) = "request" /\ to.local # L
      /\ Len(to.local) = Len(L) + 1 /\ Len(L) \in Nat
  BY <1>2 DEF Last
<1>4. "request" \in DOMAIN SubaddressNames /\ SubaddressNames["request"] = "request"
  BY DEF SubaddressNames
<1>5. SubaddressQueue("request") = "command"
  BY DEF SubaddressQueue
<1> HIDE DEF domain
<1>6. SplitRecipient(to) = IF /\ Len(to.local) > 1
                              /\ Last(to.local) \in DOMAIN SubaddressNames
                              /\ whole \notin AllLists
                           THEN [list |-> [whole EXCEPT !.local = Front(@)],
                                 sub |-> SubaddressNames[Last(to.local)]]
                           ELSE [list |-> whole, sub |-> "none"]
  BY Zenon DEF SplitRecipient, domain
<1>7. whole # ThisList
  BY <1>3
<1>8. SplitRecipient(to).list = whole \/ SplitRecipient(to).sub = "request"
  <2> HIDE DEF whole
  <2>. QED BY <1>3, <1>4, <1>6
<1> HIDE DEF whole
<1>. QED BY <1>5, <1>7, <1>8 DEF GoesIn

LEMMA LmtpMoves ==
    ASSUME NEW o, Attributed(o), Counted, Later, LmtpInv,
           RunLmtp \/ FailToDeliver \/ CrashLmtp \/ ReplyComesBack
    PROVE  Moved(o)
<1>0. /\ vars' = vars => UNCHANGED <<list, inq, pipeq, shunt, inc, pip, sent, shown, asked>>
      /\ UNCHANGED <<list, inq, pipeq, shunt, inc, pip, sent, shown, asked>>
         => ((mail' = mail \/ LetterMeant(o)') => Moved(o))
  BY DEF vars, queues, history, Moved, Attributed, Begun
<1>1. CASE Deliver
  BY <1>1, DeliverMoves
<1>2. CASE Connect \/ Refuse \/ FailToDeliver \/ CrashLmtp
  <2>1. Connect \/ Refuse => mail' = mail /\ vars' = vars
    BY Zenon DEF Connect, Refuse
  <2>2. FailToDeliver \/ CrashLmtp
        => mail' = mail /\ UNCHANGED <<list, inq, pipeq, shunt, inc, pip, sent, shown, asked>>
    BY DEF FailToDeliver, CrashLmtp, queues, history
  <2>. QED BY Zenon, <1>0, <1>2, <2>1, <2>2
<1>3. CASE Tell
  <2>1. vars' = vars /\ \E t : mail' = [mail EXCEPT !.told = t]
    BY Zenon, <1>3 DEF Tell
  <2>2. DOMAIN mail = {"m", "d", "to", "told"}
    BY Zenon DEF LmtpInv, MailOK
  <2>3. mail'.m = mail.m /\ mail'.to = mail.to
    BY <2>1, <2>2
  <2>4. LetterMeant(o)'
    BY <2>3 DEF Attributed, LetterMeant
  <2>. QED BY <1>0, <2>1, <2>4
<1>4. CASE ReplyComesBack
  <2> DEFINE to == [ThisList EXCEPT !.local = Append(@, "request")]
  <2>1. vars' = vars /\ mail' = RobotLetter
    BY <1>4 DEF ReplyComesBack
  <2>2. mail'.to = <<to>>
    BY <2>1 DEF RobotLetter, Letter
  <2> HIDE DEF to
  <2>3. DOMAIN mail'.to = {1} /\ mail'.to[1] = to
    BY <2>2
  <2>4. ~GoesIn(to)
    BY RobotsStayOut DEF to
  <2>5. LetterMeant(o)'
    BY <2>3, <2>4 DEF LetterMeant
  <2>. QED BY <1>0, <2>1, <2>5
<1>. QED BY <1>1, <1>2, <1>3, <1>4 DEF RunLmtp

LEMMA CommandMoves ==
    ASSUME NEW o, Attributed(o), Counted, Later, Safe, RunCom \/ CrashCom \/ UnshuntCommand
    PROVE  Moved(o)
<1>0. DOMAIN sent = Queues
  BY DEF Attributed
<1>1. CASE JoinCommand \/ LeaveCommand \/ ConfirmCommand \/ EndCommand \/ OtherCommand
  <2>1. PICK w, n : Did(w, n)
    BY <1>1, SafeParts, CommandDoes
  <2>2. UNCHANGED <<list, inq, pipeq, shunt, inc, pip, shown, asked, mail>>
    BY <2>1 DEF Did, queues, history
  <2>3. DOMAIN sent' = Queues
    BY <1>0, <2>1 DEF Did
  <2>. QED BY <2>2, <2>3 DEF Moved, Begun
<1>2. CASE CommitCom
  <2>1. /\ UNCHANGED <<list, inq, pipeq, shunt, inc, pip, sent, shown, mail>>
        /\ asked' = [asked EXCEPT !.changed = TRUE]
    BY <1>2 DEF CommitCom, queues
  <2>2. asked'.file = asked.file
    BY <2>1 DEF Safe, TypeOK
  <2>. QED BY <1>0, <2>1, <2>2 DEF Moved, Begun
<1>3. CASE TakeCom \/ SendResults \/ FinishCom \/ CrashCom
  <2>1. UNCHANGED <<list, inq, pipeq, shunt, inc, pip, shown, asked, mail>>
    <3>1. TakeCom \/ SendResults \/ CrashCom
          => UNCHANGED <<list, inq, pipeq, shunt, inc, pip, shown, asked, mail>>
      BY DEF TakeCom, SendResults, CrashCom, queues, history
    <3>2. FinishCom => UNCHANGED <<list, inq, pipeq, shunt, inc, pip, shown, asked, mail>>
      BY DEF FinishCom, vars, queues, history
    <3>. QED BY <1>3, <3>1, <3>2
  <2>2. DOMAIN sent' = Queues
    <3>1. TakeCom \/ SendResults => DOMAIN sent' = Queues
      BY <1>0 DEF TakeCom, SendResults
    <3>2. CrashCom \/ FinishCom => sent' = sent
      BY DEF CrashCom, FinishCom, vars
    <3>. QED BY <1>0, <1>3, <3>1, <3>2
  <2>. QED BY <2>1, <2>2 DEF Moved, Begun
<1>4. CASE ShuntCom \/ UnshuntCommand
  <2> DEFINE e == [m |-> com.m, d |-> com.d, whichq |-> "command"]
  <2>1. /\ UNCHANGED <<list, inq, pipeq, inc, pip, sent, shown, asked, mail, faults>>
        /\ shunt' = Append(shunt, e) \/ (shunt # <<>> /\ shunt' = Tail(shunt))
    BY <1>4 DEF ShuntCom, UnshuntCommand, Shunted, history, bounds
  <2>2. e.whichq = "command"
    OBVIOUS
  <2> HIDE DEF e
  <2>3. Unshuntable(o, list, Begun, Failed, e)
    BY <2>2 DEF Unshuntable
  <2>4. ShuntQueue(o, list, Begun, Failed, shunt)
    BY DEF Attributed, ShuntMeant
  <2>5. ShuntQueue(o, list, Begun, Failed, shunt')
    BY Zenon, <2>1, <2>3, <2>4, ShuntQueueHolds
  <2>6. (Begun <=> Begun') /\ (Failed <=> Failed')
    BY <2>1 DEF Begun, Failed
  <2>7. ShuntMeant(o)'
    BY <2>1, <2>5, <2>6, QueuesOn DEF ShuntMeant
  <2>. QED BY <1>0, <2>1, <2>6, <2>7 DEF Moved
<1>. QED BY <1>1, <1>2, <1>3, <1>4 DEF RunCom

LEMMA AttributedStep ==
    ASSUME NEW o, Attributed(o), EntranceInv, EntranceNext
    PROVE  Attributed(o)'
<1>0. Counted /\ LmtpInv /\ Safe /\ Later
  BY LmtpStep DEF EntranceInv
<1>1. CASE Within /\ UNCHANGED entrance
  <2>0. mail' = mail
    BY <1>1 DEF entrance
  <2>1. CASE RunIn \/ CrashIn
    BY <1>0, <2>0, <2>1, TakeInMoves, FollowLinkMoves, BetweenMoves, ShuntInMoves, CrashInMoves,
       MovedOn DEF RunIn
  <2>2. CASE RunPip \/ CrashPip \/ FailPip
    BY <1>0, <2>0, <2>2, TakePipMoves, HandleMoves, EndPipMoves, ShuntPipMoves, CrashPipMoves,
       MovedOn DEF RunPip
  <2>3. CASE People
    BY <1>0, <2>0, <2>3, ChangeCases, ChangeMoves, UnshuntMoves, RepostMoves, MovedOn
  <2>. QED BY <1>1, <2>1, <2>2, <2>3 DEF Within
<1>2. CASE RunLmtp \/ FailToDeliver \/ CrashLmtp \/ ReplyComesBack
  BY <1>0, <1>2, LmtpMoves, MovedOn
<1>3. CASE RunCom \/ CrashCom \/ UnshuntCommand
  BY <1>0, <1>3, CommandMoves, MovedOn
<1>. QED BY <1>1, <1>2, <1>3 DEF EntranceNext

LEMMA AttributedStart == EntranceInit => \E o : Attributed(o)
<1> SUFFICES ASSUME EntranceInit PROVE \E o : Attributed(o)
  OBVIOUS
<1>1. PICK s \in Scenarios :
          /\ Start(s, IF s.to = <<>> THEN <<[m |-> s.m, d |-> s.d]>> ELSE <<>>)
          /\ mail = Letter(s.m, s.d, s.to)
  BY DEF EntranceInit
<1> DEFINE o == s.m  f == [m |-> s.m, d |-> s.d]
<1>2. /\ inq = <<f>> \/ inq = <<>>
      /\ pipeq = <<>> /\ shunt = <<>> /\ inc = IdleIn /\ pip = IdlePip
      /\ sent = [q \in Queues |-> 0] /\ shown = {} /\ asked = NothingAsked
  BY <1>1 DEF Start
<1>3. IsMessage(o)
  BY PostingAssumption
<1>4. DOMAIN f = {"m", "d"} /\ Meant(o, f.m) /\ Meant(o, mail.m)
  BY <1>1 DEF Meant, Letter
<1> HIDE DEF o, f
<1>5. InqMeant(o)
  <2>1. InQueue(o, <<>>)
    BY NoQueue
  <2>2. InQueue(o, Append(<<>>, f))
    BY Zenon, <1>4, <2>1, InQueueHolds
  <2>3. \A x : Append(<<>>, x) = <<x>>
    OBVIOUS
  <2>. QED BY <1>2, <2>1, <2>2, <2>3 DEF InqMeant
<1>6. PipeqMeant(o) /\ ShuntMeant(o)
  BY <1>2, NoQueue DEF PipeqMeant, ShuntMeant
<1>7. IncMeant(o) /\ PipMeant(o) /\ ShownOK(o)
  BY <1>2 DEF IncMeant, PipMeant, ShownOK, IdleIn, IdlePip
<1>8. AskedMeant(o) /\ LetterMeant(o)
  BY <1>2, <1>4 DEF AskedMeant, Begun, NothingAsked, LetterMeant
<1>. QED BY <1>2, <1>3, <1>5, <1>6, <1>7, <1>8 DEF Attributed

Traced == \E o : Attributed(o)

LEMMA TracedInvariant == EntranceSpec => [](EntranceInv /\ Traced)
<1>1. EntranceInit => Traced
  BY AttributedStart DEF Traced
<1>2. ASSUME EntranceInv, Traced, [EntranceNext]_allVars PROVE Traced'
  <2>1. PICK o : Attributed(o)
    BY <1>2 DEF Traced
  <2>2. CASE EntranceNext
    BY <1>2, <2>1, <2>2, AttributedStep DEF Traced
  <2>3. CASE UNCHANGED allVars
    <3>1. UNCHANGED <<list, inq, pipeq, shunt, inc, pip, sent, shown, asked, mail>>
      BY <2>3 DEF allVars, vars, queues, history, entrance
    <3>2. UNCHANGED bounds
      BY <2>3 DEF allVars, vars
    <3>3. Counted /\ Later
      BY <1>2, <3>2, <2>3 DEF EntranceInv, Counted, Later, bounds, allVars, vars, history
    <3>4. Moved(o)
      BY <2>1, <3>1 DEF Moved, Attributed, Begun
    <3>5. Attributed(o)'
      BY <2>1, <3>3, <3>4, MovedOn
    <3>. QED BY <3>5 DEF Traced
  <2>. QED BY <1>2, <2>2, <2>3
<1>. QED BY <1>1, <1>2, Invariant, PTL DEF EntranceSpec

(* A copy names the author where an answer finds him, whatever the list's  *)
(* settings for DMARC, replies and Cc: and whatever fails or is changed on *)
(* the way, but for what failed in a pipeline and was unshunted; a list    *)
(* that is anonymous names nobody: see handlers/cleanse.py,                *)
(* handlers/cook_headers.py and handlers/dmarc.py, and their order in      *)
(* mailman/pipelines/builtin.py.                                           *)
THEOREM AuthorsKept == EntranceSpec => []AuthorNamedOrHidden
<1>1. EntranceInv /\ Traced => AuthorNamedOrHidden
  <2> SUFFICES ASSUME Traced, NEW c \in shown
               PROVE  \/ Author = <<>> \/ c.toOwner
                      \/ IF list.anonymous THEN c.hidden
                         ELSE c.named \/ (c.anew /\ faults > 0 /\ changes > 0)
    BY Zenon DEF AuthorNamedOrHidden
  <2>1. PICK o : Attributed(o)
    BY DEF Traced
  <2>2. Author = o.from
    BY <2>1 DEF Attributed, ShownOK, AskedMeant, Meant, Author
  <2>3. CopyOK(o, list, Twice, c)
    BY <2>1 DEF Attributed, ShownOK
  <2>. QED BY <2>2, <2>3 DEF CopyOK, Twice
<1>. QED BY <1>1, TracedInvariant, PTL
=================================================================================
