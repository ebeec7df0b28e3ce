-------------------------------- MODULE Entrance --------------------------------
(***************************************************************************)
(* Where mail comes in: the LMTP runner (mailman/runners/lmtp.py) puts a   *)
(* message into a queue for each recipient and answers for each of them,   *)
(* the command runner (mailman/runners/command.py) carries out the email   *)
(* commands; postings go on as in Posting.                                 *)
(*                                                                         *)
(* The mail server keeps a mail until all recipients were answered for,    *)
(* and tries again when the connection is lost.  What a confirmed request  *)
(* comes to is told in Subscription; here a list is open to whoever is     *)
(* verified, or asks for a confirmation.                                   *)
(***************************************************************************)
EXTENDS Posting

CONSTANTS
    ThisList,       \* [local, domain] of the list; local is a sequence of words
    AllLists,       \* those of all lists
    AliasDomains,   \* alias domains, with the mail host of each
    Verified,       \* addresses that belong to a user and are verified
    MaxLines        \* [mailman]email_commands_max_lines

ASSUME EntranceAssumption ==
    /\ ThisList \in AllLists /\ AllLists \subseteq [local : Seq(STRING), domain : STRING]
    /\ MaxLines \in Nat
    /\ Verified \subseteq Addrs
    /\ \A s \in Scenarios : s.to \in Seq([local : Seq(STRING), domain : STRING])

VARIABLES
    mail,       \* the mail server's: [m, d, to, told], one address after another
    lmtp,       \* the LMTP runner
    cmdq,       \* the command queue
    com,        \* the command runner
    replies,    \* our own answers to the -request address, on the way to it
    queued      \* history: the files made for each address of the mail

entrance == <<mail, lmtp, cmdq, com, replies, queued>>
allVars == <<vars, entrance>>

IdleLmtp == [pc |-> "idle", todo |-> <<>>, next |-> 1, statuses |-> <<>>]
IdleCom == [pc |-> "idle", file |-> NoFile, m |-> NoFile, d |-> NoFile,
            lines |-> <<>>, answers |-> FALSE, joins |-> {}, confirms |-> {},
            changed |-> <<>>, pended |-> {}, settled |-> {}, responded |-> {}]

Letter(m, d, to) == [m |-> m, d |-> d, to |-> to, told |-> [i \in DOMAIN to |-> "nothing"]]
Unanswered == {i \in DOMAIN mail.to : mail.told[i] = "nothing"}
InOrder(S) == {s \in [1 .. Cardinality(S) -> S] :
                  \A j, k \in DOMAIN s : j < k => s[j] < s[k]}

EntranceInit ==
    /\ \E s \in Scenarios :
          /\ Start(s, IF s.to = <<>> THEN <<[m |-> s.m, d |-> s.d]>> ELSE <<>>)
          /\ mail = Letter(s.m, s.d, s.to)
          /\ queued = [i \in DOMAIN s.to |-> 0]
    /\ lmtp = IdleLmtp /\ cmdq = <<>> /\ com = IdleCom /\ replies = 0

(***************************************************************************)
(* The LMTP runner.                                                        *)
(***************************************************************************)
(* Subaddresses and their aliases.                                         *)
SubaddressNames ==
    [bounces |-> "bounces", confirm |-> "confirm", join |-> "join",
     leave |-> "leave", owner |-> "owner", request |-> "request",
     subscribe |-> "join", unsubscribe |-> "leave"]
SubaddressQueue(sub) ==
    CASE sub \in {"none", "owner"} -> "in"
      [] sub = "bounces" -> "bounces"
      [] OTHER -> "command"

(* The last word may be a subaddress, unless a list has it in its name.    *)
SplitRecipient(to) ==
    LET domain == IF to.domain \in DOMAIN AliasDomains
                  THEN AliasDomains[to.domain] ELSE to.domain
        whole == [local |-> to.local, domain |-> domain]
    IN  IF /\ Len(to.local) > 1
           /\ Last(to.local) \in DOMAIN SubaddressNames
           /\ whole \notin AllLists
        THEN [list |-> [whole EXCEPT !.local = Front(@)],
              sub |-> SubaddressNames[Last(to.local)]]
        ELSE [list |-> whole, sub |-> "none"]

(* A message that is not accepted at all gets one line, however many       *)
(* recipients it has.                                                      *)
Connect ==
    /\ lmtp.pc = "idle" /\ Unanswered # {}
    /\ \E todo \in InOrder(Unanswered) :
          lmtp' = IF mail.m.id /\ ~mail.m.defects
                  THEN [IdleLmtp EXCEPT !.pc = "deliver", !.todo = todo]
                  ELSE [IdleLmtp EXCEPT !.pc = "answer", !.todo = todo,
                                        !.statuses = <<"no">>]
    /\ UNCHANGED <<vars, mail, cmdq, com, replies, queued>>

Current == lmtp.todo[lmtp.next]
Recipient == SplitRecipient(mail.to[Current])

(* Mutant: an address of no list is passed over.                           *)
SayNothing(w, said) ==
    [w EXCEPT !.next = @ + 1,
              !.statuses = IF said = "no" THEN @ ELSE Append(@, said)]
Say(w, said) == [w EXCEPT !.next = @ + 1, !.statuses = Append(@, said)]
Answered(w) == IF w.next > Len(w.todo) THEN [w EXCEPT !.pc = "answer"] ELSE w

(* One recipient: the file is there at once.                               *)
Deliver ==
    /\ lmtp.pc = "deliver" /\ Recipient.list \in AllLists
    /\ LET sub == Recipient.sub
           here == Recipient.list = ThisList
           queue == IF here THEN SubaddressQueue(sub) ELSE "elsewhere"
           file == [m |-> mail.m,
                    d |-> [mail.d EXCEPT !.subaddress = sub, !.toOwner = sub = "owner"]]
       IN  /\ inq' = IF queue = "in" THEN Append(inq, file) ELSE inq
           /\ cmdq' = IF queue = "command" THEN Append(cmdq, file) ELSE cmdq
           /\ sent' = IF queue \in Queues THEN [sent EXCEPT ![queue] = @ + 1] ELSE sent
           /\ entered' = entered + Count(queue = "in")
    /\ queued' = [queued EXCEPT ![Current] = @ + 1]
    /\ lmtp' = Answered(Say(lmtp, "yes"))
    /\ UNCHANGED <<list, db, pipeq, shunt, inc, pip, rules, fates, asked, shown, raised,
                   bounds, mail, com, replies>>

Refuse ==
    /\ lmtp.pc = "deliver" /\ Recipient.list \notin AllLists
    /\ lmtp' = Answered(Say(lmtp, "no"))
    /\ UNCHANGED <<vars, mail, cmdq, com, replies, queued>>

(* Whatever goes wrong, the answer is final.                               *)
FailToDeliver ==
    /\ lmtp.pc = "deliver" /\ Recipient.list \in AllLists /\ Fault
    /\ lmtp' = Answered(Say(lmtp, "no"))
    /\ UNCHANGED <<list, db, queues, inc, pip, rules, sent, history, bound, round, changes,
                   mail, cmdq, com, replies, queued>>

(* The mail server takes the answers in order.  For a recipient without    *)
(* one it waits, and tries the same in vain until it gives up.             *)
Tell ==
    /\ lmtp.pc = "answer"
    /\ LET said(i) == {k \in DOMAIN lmtp.statuses : lmtp.todo[k] = i}
       IN  mail' = [mail EXCEPT !.told = [i \in DOMAIN @ |->
                       IF @[i] # "nothing" THEN @[i]
                       ELSE IF said(i) = {} THEN "given up"
                       ELSE lmtp.statuses[Min(said(i))]]]
    /\ lmtp' = IdleLmtp
    /\ UNCHANGED <<vars, cmdq, com, replies, queued>>

(* The runner dies, or the connection does, before the answer.             *)
CrashLmtp ==
    /\ lmtp.pc # "idle" /\ Fault
    /\ lmtp' = IdleLmtp
    /\ UNCHANGED <<list, db, queues, inc, pip, rules, sent, history, bound, round, changes,
                   mail, cmdq, com, replies, queued>>

(* An answer of the command runner to the -request address of the list.    *)
RobotLetter ==
    LET m == [Plain EXCEPT !.from = <<Posting>>, !.precedence = "bulk"]
        to == <<[ThisList EXCEPT !.local = Append(@, "request")]>>
    IN  Letter(m, mail.d, to)
ReplyComesBack ==
    /\ replies > 0 /\ Unanswered = {}
    /\ replies' = replies - 1
    /\ mail' = RobotLetter
    /\ queued' = [i \in DOMAIN RobotLetter.to |-> 0]
    /\ UNCHANGED <<vars, lmtp, cmdq, com>>

(***************************************************************************)
(* The command runner.                                                     *)
(***************************************************************************)
HasPlainPart(p) ==
    LET has[q \in Parts] ==
            IF q.multi THEN \E i \in DOMAIN q.parts : has[q.parts[i]]
            ELSE q.type = "plain"
    IN  has[p]

(* CommandFinder: an address may say it all, and then nothing is answered. *)
Implicit(f) ==
    CASE f.d.subaddress \in {"join", "leave"} ->
            <<[name |-> f.d.subaddress, arg |-> None]>>
      [] f.d.subaddress = "confirm" /\ f.m.cookie # None ->
            <<[name |-> "confirm", arg |-> f.m.cookie]>>
      [] OTHER -> <<>>
CommandLines(f) ==
    IF Implicit(f) # <<>> THEN Implicit(f)
    ELSE IF HasPlainPart(f.m.body)
    THEN SubSeq(f.m.lines, 1, Min({Len(f.m.lines), 1 + MaxLines}))
    ELSE SubSeq(f.m.lines, 1, 1)

Sender == IF Senders(com.m) = <<>> THEN "nobody" ELSE Head(Senders(com.m))
ToItself(a) == Count(a = Posting)

(* What a robot sent is ignored, whoever asks may be answered.             *)
TakeCom ==
    /\ com.pc = "idle" /\ cmdq # <<>>
    /\ LET f == Head(cmdq)
           ignored == f.m.ack # "yes" /\ f.m.precedence \in Robots
           responds == ~ignored /\ Replies(f.m, f.d)
           a == IF Senders(f.m) = <<>> THEN "nobody" ELSE Head(Senders(f.m))
           discards == ignored \/ list.autorespondRequests = "respond_and_discard"
       IN  /\ com' = [IdleCom EXCEPT
                        !.pc = IF responds /\ a = "nobody" THEN "error"
                               ELSE IF discards THEN "finish" ELSE "lines",
                        !.file = f, !.m = f.m, !.d = f.d,
                        !.lines = CommandLines(f), !.answers = Implicit(f) = <<>>,
                        !.responded = IF responds THEN {a} \ {"nobody"} ELSE {}]
           /\ sent' = [sent EXCEPT !["virgin"] = @ + Count(responds /\ a # "nobody")]
           /\ replies' = replies + IF responds THEN ToItself(a) ELSE 0
    /\ cmdq' = Tail(cmdq)
    /\ UNCHANGED <<list, db, queues, inc, pip, rules, history, bounds, mail, lmtp, queued>>

(* What the transaction sees.                                              *)
MemberNow(a) == IF a \in DOMAIN com.changed THEN com.changed[a] # "no" ELSE IsMember(db, a)
PendedNow == (db.pended \cup com.pended) \ com.settled
Request(kind, a) == [kind |-> kind, who |-> a]

GoOn(w) == [w EXCEPT !.lines = Tail(@)]
Stop(w) == [w EXCEPT !.lines = <<>>]
Break(w) == [w EXCEPT !.pc = "error"]
Becomes(w, a, action) ==
    [w EXCEPT !.changed = [x \in {a} \cup DOMAIN @ |-> IF x = a THEN action ELSE @[x]]]

(* One line is done; notices are sent at once.                             *)
Did(w, notices) ==
    /\ com' = w
    /\ sent' = [sent EXCEPT !["virgin"] = @ + notices]
    /\ UNCHANGED <<list, db, queues, inc, pip, rules, history, bounds,
                   mail, lmtp, cmdq, replies, queued>>

Line == Head(com.lines)
Command(names) == com.pc = "lines" /\ com.lines # <<>> /\ Line.name \in names

(* join: once in a mail for an address.  Nobody catches the exceptions     *)
(* that say that the address is banned, or that its request is pending.    *)
JoinCommand ==
    /\ Command({"join", "subscribe"})
    /\ LET a == Sender
           asked1 == [com EXCEPT !.joins = @ \cup {a}]
       IN  IF Line.arg = Unknown \/ a = "nobody" THEN Did(Stop(com), 0)
           ELSE IF a \in com.joins THEN Did(GoOn(com), 0)
           ELSE IF MemberNow(a) THEN Did(GoOn(asked1), 0)
           ELSE IF IsBanned(db, a) \/ Request("join", a) \in PendedNow
           THEN Did(Break(asked1), 0)
           ELSE IF list.subscribes = "open" /\ a \in Verified
           THEN Did(GoOn(Becomes(asked1, a, "default")), 1)
           ELSE Did(GoOn([asked1 EXCEPT !.pended = @ \cup {Request("join", a)}]), 1)

(* leave: from a verified address, for whichever address of the user is a  *)
(* member.  Who left is noted in the metadata of the message.              *)
LeaveCommand ==
    /\ Command({"leave", "unsubscribe"})
    /\ LET a == Sender
           members == {x \in {a, Other[a]} : x \in Verified /\ MemberNow(x)}
           left == [com EXCEPT !.d.leaves = @ \cup {a}]
       IN  IF a \notin Verified THEN Did(Stop(com), 0)
           ELSE IF a \in com.d.leaves THEN Did(GoOn(com), 0)
           ELSE IF members = {} THEN Did(Stop(com), 0)
           ELSE \E x \in members :
                    IF list.leaves = "open"
                    THEN Did(GoOn(Becomes(left, x, "no")), 1)
                    ELSE Did(GoOn([left EXCEPT !.pended = @ \cup {Request("leave", x)}]), 1)

(* confirm: whatever it comes to, no other line is read.                   *)
ConfirmCommand ==
    /\ Command({"confirm"})
    /\ LET t == Line.arg
           done == [Stop(com) EXCEPT !.settled = @ \cup {t}, !.pended = @ \ {t}]
       IN  IF t \notin PendedNow THEN Did(Stop(com), 0)
           ELSE IF t.kind = "join" /\ MemberNow(t.who) THEN Did(Break(com), 0)
           ELSE Did(Becomes(done, t.who, IF t.kind = "join" THEN "default" ELSE "no"),
                    Count(t.kind = "join" \/ MemberNow(t.who)))

(* end, stop; and help with what it cannot help.                           *)
EndCommand ==
    /\ com.pc = "lines" /\ com.lines # <<>>
    /\ \/ Line.name \in {"end", "stop"}
       \/ Line.name = "help" /\ Line.arg = Unknown
    /\ Did(Stop(com), 0)
OtherCommand ==
    /\ com.pc = "lines" /\ com.lines # <<>>
    /\ \/ Line.name \in {"echo", "text"}
       \/ Line.name = "help" /\ Line.arg # Unknown
    /\ Did(GoOn(com), 0)

(* The results go to the sender, in Precedence: bulk.                      *)
SendResults ==
    /\ com.pc = "lines" /\ com.lines = <<>>
    /\ com' = [com EXCEPT !.pc = "finish"]
    /\ sent' = [sent EXCEPT !["virgin"] = @ + Count(com.answers)]
    /\ replies' = replies + IF com.answers THEN ToItself(Sender) ELSE 0
    /\ UNCHANGED <<list, db, queues, inc, pip, rules, history, bounds, mail, lmtp, cmdq, queued>>

FinishCom ==
    /\ com.pc = "finish"
    /\ com' = [com EXCEPT !.pc = "commit", !.file = NoFile]
    /\ UNCHANGED <<vars, mail, lmtp, cmdq, replies, queued>>
CommitCom ==
    /\ com.pc = "commit"
    /\ db' = [db EXCEPT !.member = [a \in Addrs |->
                              IF a \in DOMAIN com.changed THEN com.changed[a] ELSE @[a]],
                        !.pended = (@ \cup com.pended) \ com.settled,
                        !.responded = @ \cup com.responded]
    /\ com' = IdleCom
    /\ asked' = [asked EXCEPT !.changed = TRUE]
    /\ UNCHANGED <<list, queues, inc, pip, rules, sent, entered, fates, shown, raised,
                   bounds, mail, lmtp, cmdq, replies, queued>>
ShuntCom ==
    /\ com.pc = "error"
    /\ shunt' = Shunted(com, "command")
    /\ com' = IdleCom
    /\ UNCHANGED <<list, db, inq, pipeq, inc, pip, rules, sent, history, bounds,
                   mail, lmtp, cmdq, replies, queued>>
CrashCom ==
    /\ com.pc # "idle" /\ Fault
    /\ cmdq' = Recovered(com, cmdq)
    /\ com' = IdleCom
    /\ UNCHANGED <<list, db, queues, inc, pip, rules, sent, history, bound, round, changes,
                   mail, lmtp, replies, queued>>
UnshuntCommand ==
    /\ shunt # <<>> /\ Head(shunt).whichq = "command"
    /\ changes < bound.changes /\ changes' = changes + 1
    /\ cmdq' = Append(cmdq, [m |-> Head(shunt).m, d |-> Head(shunt).d])
    /\ shunt' = Tail(shunt)
    /\ UNCHANGED <<list, db, inq, pipeq, inc, pip, rules, sent, history, bound, round, faults,
                   mail, lmtp, com, replies, queued>>

(***************************************************************************)
(* All together.                                                           *)
(***************************************************************************)
RunLmtp == Connect \/ Deliver \/ Refuse \/ Tell
RunCom == \/ TakeCom \/ JoinCommand \/ LeaveCommand \/ ConfirmCommand \/ EndCommand
          \/ OtherCommand \/ SendResults \/ FinishCom \/ CommitCom \/ ShuntCom
Within == RunIn \/ RunPip \/ CrashIn \/ CrashPip \/ FailPip \/ People

EntranceNext ==
    \/ Within /\ UNCHANGED entrance
    \/ RunLmtp \/ FailToDeliver \/ CrashLmtp \/ ReplyComesBack
    \/ RunCom \/ CrashCom \/ UnshuntCommand
EntranceSpec == EntranceInit /\ [][EntranceNext]_allVars
FairSpec ==
    /\ EntranceSpec
    /\ WF_vars(RunIn /\ UNCHANGED entrance)
    /\ WF_vars(RunPip /\ UNCHANGED entrance)
    /\ WF_allVars(RunLmtp) /\ WF_allVars(RunCom) /\ WF_allVars(ReplyComesBack)

(***************************************************************************)
(* Properties.                                                             *)
(***************************************************************************)
(* What the mail server is told of a recipient is true of this recipient:  *)
(* who is accepted has a file, who is not has none; and it takes a fault   *)
(* to make two files of one mail.                                          *)
AnswersAreTrue ==
    \A i \in DOMAIN mail.told :
        /\ mail.told[i] = "yes" => queued[i] >= 1
        /\ mail.told[i] \in {"no", "given up"} => queued[i] <= faults
        /\ queued[i] <= 1 + faults

(* Every mail comes to an end: no chain, detour or pipeline goes on for    *)
(* ever, no answer to an answer is sent to ourselves again and again.      *)
RunnersRest ==
    <>[](/\ Quiet /\ cmdq = <<>> /\ com.pc = "idle"
         /\ Unanswered = {} /\ lmtp.pc = "idle" /\ replies = 0)
=================================================================================
