# A verification of Mailman core

GNU Mailman core (`src/src/mailman`) is a set of processes that hand messages
to each other through files in queue directories, keep their lists, users and
requests in a relational database, and are watched by a master process.  This
directory holds TLA+ modules of the parts where that is hard to get right, the
TLC configurations that check them on small instances, and proofs that TLAPS
checks for all instances.  Paths below are relative to `src/src/mailman`.

- [The system](#the-system)
- [Modules](#modules)
- [Runs](#runs)
- [Proofs](#proofs)
- [Where the code and its documents disagree](#where-the-code-and-its-documents-disagree)
- [What is not modelled](#what-is-not-modelled)
- [Plan](#plan)

## The system

| component | state | operations | interacts with | hard because | correct when |
|---|---|---|---|---|---|
| switchboard (`core/switchboard.py`) | files `.pck.tmp`, `.pck`, `.bak`, `.psv` of a queue directory | enqueue, dequeue, finish, get_files, recover_backup_files | every runner, REST, unshunt, LMTP | a crash between any two system calls, slices that share a directory | no message is lost, tries are bounded |
| runner (`core/runner.py`, `bin/runner.py`) | position in the list of files, stop flag, open transaction | the main loop, its handlers, signals | switchboard, database, master | signals raise exceptions anywhere; file removal and commit are apart | a message is handed on before it is let go; stops are honoured |
| unshunt (`commands/cli_unshunt.py`) | position in the shunt queue | move back, discard | switchboard, next to the runners | runs concurrently with shunting | messages return where they came from |
| master (`bin/master.py`) | tracked process ids, restart counts | start, wait, restart, pass signals on, clean up | runners, administrator | signal handlers between any two steps; children that boot | one process per slice, stops and restarts complete |
| start/stop commands, lock, PID file (`commands/cli_control.py`) | lock file, PID file | start, stop, reopen, restart | master | masters that race or were killed | one master; its PID is in the file |
| LMTP runner (`runners/lmtp.py`) | the recipients of a mail that were answered for | queue for each recipient, answer | mail server, every queue | recipients fail one by one; the connection is lost | what the mail server is told is true |
| chains and rules (`core/chains.py`, `chains/`, `rules/`) | stack of chains, cached rules | jump, detour, run, hold, accept, discard, reject | incoming runner, bans, members | an interpreter with a stack over a database that changes | one disposition, by the first rule that matches |
| pipelines and handlers (`core/pipelines.py`, `handlers/`) | recipients, metadata, the MIME tree | each handler in turn | pipeline runner, all outgoing queues | the order of handlers; one of them raises | right readers, allowed contents, the author named or hidden |
| command runner and email commands (`runners/command.py`, `commands/eml_*.py`) | lines left, results | join, leave, confirm, echo, end, help | workflows, virgin queue | robots that answer answers; metadata that survive | comes to an end, does what was asked |
| subscription workflows (`app/subscriptions.py`, `app/workflow.py`) | pended tokens, saved workflow states | register, unregister, confirm, dismiss | members, bans, policies, email commands, REST | everything may change while a token waits | consent, approval, and no dangling token |
| moderation (`app/moderator.py`, `model/requests.py`, `chains/hold.py`, `model/messagestore.py`) | request rows, pended metadata, message rows and files | hold, accept, discard, reject, defer | incoming runners, REST, pipeline queue | files are not transactional; concurrent transactions; stale pages | what is held can be shown and is decided once |
| outgoing delivery (`runners/outgoing.py`, `runners/retry.py`, `mta/`) | recipients left, deadlines, connection | chunk, send, retry | mail server, bounces | partial failure, retries, lost connections | everybody once, and an end |
| bounces and probes (`runners/bounce.py`, `app/bounces.py`) | events, probe tokens | register, probe, confirm | outgoing, members | stale tokens, slices | a failed probe counts once |
| news and archives (`runners/nntp.py`, `runners/archive.py`, `archiving/`) | the new Message-ID, the archivers left | post, store | news server, archive programs, out queue | answers that are lost, failures in `finally` | served once, or the log says why not |
| digests (`app/digests.py`, `handlers/to_digest.py`, `runners/digest.py`) | mailbox, volume and number | append, bump, send | pipeline runner, cron, command, REST | rename before commit, appends to renamed files | each posting in one digest, numbers rise |
| users, addresses, members (`model/user.py`, `model/usermanager.py`, `model/member.py`, `app/membership.py`) | rows that refer to each other | create, link, absorb, subscribe, move, delete | everything | uniqueness without constraints, refused requests that are committed | references hold; one membership per address and role |
| lists, domains, styles (`app/lifecycle.py`, `model/listmanager.py`, `model/mailinglist.py`, `model/domain.py`, `styles/`) | list rows and what hangs on them | create, remove, configure | all tables, mail server files | cascades in several handlers | nothing of a removed list remains; the mail server knows the lists |
| importer (`utilities/importer.py`) | an old configuration | convert settings, bans, filters, rosters | lists, users | fails in the middle | an import is complete or leaves sound rows |
| templates and cache (`model/template.py`, `model/cache.py`) | rows and files | set, delete, load, evict | notices | rows and files change apart | what is cached can be read, and is not out of date |
| autoresponse limits (`model/autorespond.py`) | one row per response and day | count, add | hold chain, replybot | read, then add | the limit ends loops |

Transport (aiosmtpd, HTTP routing), text, the schema migrations, start-up and
the remaining commands are in the list of components in `PROJECT.json` with
the reason why they are left out.

Processes interact in four ways: files renamed into queue directories, rows in
the database (each process has one transaction, committed by the runner after
each message or by REST after each request), signals from the master, and the
lock and PID files.

## Modules

    Custody  <--implemented by--  QueueFlow  -->  Runner  -->  Switchboard
    Mailing  <--implemented by--  Outlets  -->  Delivery
    Entrance  -->  Posting  -->  Handlers  -->  Rules  -->  Content
    Site  -->  Templates, Importer  -->  ListAdmin  -->  Accounts
    Master      MasterLock      Subscription      Moderation      Digests

`QueueFlowProofs`, `EntranceProofs`, `OutletsProofs`, `SubscriptionProofs`,
`ModerationProofs`, `DigestsProofs` and `SiteProofs` extend the module of that
name with its theorems, and `MasterProofs` both `Master` and `MasterLock`.  An
arrow is EXTENDS.  `MCx` has the values of the constants for the runs of x.
In modules with processes, an action is what happens between two points at
which somebody else's step matters: a system call on a file or lock, a commit, a
mail server's answer.  Whatever a step of the program reads
and writes in between belongs to the same action.

### Switchboard, Runner, QueueFlow: the queues

`Switchboard` has the files: a sequence `file`, in the order of base names (they
begin with the time of the enqueue), each with its queue, extension, message,
slice and metadata.  Its operators are the system calls of enqueue (`WriteTmp`,
`Publish`), dequeue (`Claim`), finish (`Finish`, `FinishPreserve`), get_files
(`FilesOf`) and recover_backup_files (`BeginRewrite`, `EndRewrite`,
`Reinstate`): each is atomic, and everything may happen between two of them.

`Runner` has a process: `pc[p]` is a place in `Runner.run` and `_one_iteration`,
with one action per step between system calls or database operations.  What a
concrete runner does with a message is one of the outcomes `Fate[m]`: forward
it, be done with it, hold it, keep it, find its list missing, or raise.
`Signalled` raises `RunnerInterrupt`: inside the try statements
(`InterruptInside`, `InterruptDequeue`) the handlers catch it, outside them
(`InterruptOutside`) `run` does.  `Crash` ends the process at any step.

`QueueFlow` adds producers and the unshunt command, which is a process of its own
on the shunt queue.  `Custody` says what all that promises, without files or
processes: `places[m]` are the places that have a copy of m; a copy goes along
the routes there are, and a place gives its copy up only when another has one.
`Promise` is the refinement mapping.

The other modules with runners take these results for granted: there a queue
is a set or sequence of entries, and a runner that dies and is started again by
somebody, whose entry is then tried again, is one step.

### Master, MasterLock: the processes

`Master` has the processes the master forks (`proc`, in the order of forks) with
the phases in which a signal means something else (`forked`, `booting`,
`armed`, `up`, `stopping`, `leaving`), and the master at the steps of
`start_runners`, `loop` and `cleanup` between which a handler may run.
`MasterLock` has the lock file, the PID file, the start command, the masters and
the commands that signal the process named in the PID file.

### Content, Rules, Handlers, Posting, Entrance: the way of a mail

`Content` is about a message as a tree of parts: the content filter (`FilterParts`,
`Reduced`), and what `Decorate` adds.  `Rules` has each
rule of `rules/` as an operator on list, message, metadata and database, DMARC
lookups included, and the links of each chain (`Links`).  `Handlers` has each
handler of the posting and the owner pipeline as an operator that takes the work
on a message to the next.  None of the three has variables.

`Posting` runs them.  The incoming runner (`inc`) follows one link per action
(`FollowLink`), returns from an exhausted chain to the one below it on the stack
(`ReturnOrStop`), and has its file removed (`FinishIn`) before it commits
(`CommitIn`); the pipeline runner (`pip`) takes one handler per action
(`Handle`).  In between bans, memberships and header matches change, runners
die, handlers fail, and files are unshunted.  The settings of the list
are read once, the database whenever a rule asks.

`Entrance` puts in front of it the mail server, which tries again whatever it
got no answer for, the LMTP runner, which queues (`Deliver`) and answers
(`Tell`) for each recipient, and behind it the command runner with one action
for each email command; a robot may answer what was sent (`ReplyComesBack`).

### Subscription, Moderation: requests

In `Subscription` each process has one transaction, `tx[p]`.  A request
(`Register`, `Leave`) or a confirmed token (`Confirm`) reads what is committed,
takes a workflow, a record, through the `_step_` methods of
`app/subscriptions.py`, and begins the transaction (`Begin`) with what it will
write and the policy that it read: `Hold` a new token and a saved state,
`DoSubscription` and `DoUnsubscription` a change of the members.  `Commit` writes
that, whatever others have committed in between, and `Rollback` forgets it.  So
two registrations that overlap both find nothing pending, and a token may be
confirmed twice at once.  `pended` and `saved` are the two tables, written by
different code.  A dismissal (`Dismiss`) and a change of the administration are
one step.  For the properties `overlaps` counts the transactions about a
subscription that began while another about the same email was open, and
`conf` and `appr` in a workflow say whose tokens led there.

In `Moderation` an incoming runner goes through `hold_message`: `Look` (is the
Message-ID in the store?), `Write` (the file, at once), `Insert` (the rows, in
its transaction), `Finish` (the queue file, at once) and `Commit`, with `Abort`
after any of them.  The REST server answers one request at a time: `Handle`
queues an accepted message at once, `Delete` deletes the request and commits,
`Rollback` stands for the crash or the locked database in between.  `backend`,
chosen once, is what the three databases differ in: one writer or many, ids
given again or not, and whether READ UNCOMMITTED shows uncommitted rows.

### Delivery, Outlets: the ways out

`Delivery` has the entries of the out and retry queues with the metadata that
travel with them (recipients, deadline, last number of failures, probe token),
the outgoing runner at each step of `_dispose` and of the delivery agents (take
the entry, connect, send a chunk, look at the answers, register the failures,
queue the rest for retry, finish, commit), and the slices of the bounce runner
with one open transaction each.  The mail server answers for each recipient
with success, a temporary or a permanent failure, or the connection breaks.
Whether a try is personalised is chosen when the entry is taken: it depends on
settings that may change between tries.

`Outlets` adds the news runner, which prepares the article once (`Prepare`),
posts it, and quits the connection in a `finally` clause (`Quit`, `QuitFails`),
and the archive runner, which goes through the archivers in order.  The archiver
that sends mail goes through the same out queue as everybody.
`Mailing` says what delivery promises: who is due stays due until
the message was handed over, the failure was reported, or delivery was given
up, and nobody becomes due again.  `Postman` is the refinement mapping.

### Digests

The mailbox is a name in a directory (`dir`) that refers to an inode (`box`), so
that an append may go to a file that was renamed after it was opened.  The
pipeline runner opens, locks and appends, looks at the size, renames,
queues the trigger, and commits the new number later, with its other handlers
in between; the command, REST and the cron job do the same without the append
(`work["admin"]`).  The digest runner builds and sends MIME and plain digests
to those whose preferences, looked up from membership to address to user to
system, ask for them.

### Accounts, ListAdmin, Importer, Templates, Site: the database

The database is a record of tables, and a table a function from keys to rows.
`Accounts`, `ListAdmin`, `Importer` and `Templates` have, for each request or
command, an operator that gives the database it would leave and whether it was
done, refused (an error is answered, and the transaction is committed all the
same) or failed (an exception, which aborts it).

`Site` has two processes, the REST server and a command, which begin such a
transaction on what is committed (`Begin`, and `Open` where files of the cache
change at once), write it (`Write`, which also writes the alias file), and
commit or abort.  What a transaction changed is merged row by row into what is
committed by then; SQLite has one writer at a time and PostgreSQL checks foreign
keys.  `RegenerateFails` is a failing postmap.

## Runs

| run | instance | shows | states |
|---|---|---|---|
| queue_core | 1 runner, unshunt, 2 messages (one is forwarded; the other fails, is kept or is held), 1 crash, 1 signal | `NoLoss`: only a hold that is rolled back loses a message; `NeverLost`: without the hold nothing does; `DuplicatesNeedFaults`: a message whose only outcome is the next queue gets there once plus once per fault | 1.6 m |
| queue_live | 2 slices of one queue, a message with every outcome but hold and one that cannot be loaded, 2 crashes, a signal, a limit of 1 backup | `KeepsCustody`: every step is one of `Custody`; `BackupsTriedAgain`: no backup is forgotten and none is tried beyond the limit; under fairness of running processes `QueuesDrain`, a slice whose runner stays up drains, and `StopHonoured`, a runner that is told to stop exits | 121 k |
| master | 2 slices, 2 restarts, every signal twice, a failure, a kill, a second master, with a bound on all events together | `OneProcessPerSlice`; under fairness `StopCompletes` (for a master in `pause` or in its loop), `RestartCompletes` | 306 k |
| lock_safe | 3 masters (2 forced, 1 started directly), 2 commands, 2 kills | `TwoMastersNeedForce`, `PidFileNamesMaster` | 149 k |
| posting | 5 addresses; calm, content, busy, author, mail and command scenarios (see below) | `OneDisposition`, `DecidesByTheFirstCase`, `BannedStayOut`, `AuthorNamedOrHidden`, `ReadersReadWhatIsAllowed`, `AnswersAreTrue`; under fairness `RunnersRest` | 469 k |
| sub_safe | 1 list, 1 email, 2 processes; one transaction at a time with every policy, three sets of flags and every change by the administration, or two at a time, without changes, or with changes of the moderated policies | `TokensLeadSomewhere`; `OneRequestPerEmail`: one request, and one more for each overlap; `ModeratorsDecide`; `ConsentGiven`, the moderator of a preconfirmed leave excepted | 2.1 m |
| mod_safe | 3 copies of 2 messages, 2 lists, 2 runners, 2 moderators, 2 faults, each of the 3 databases | `RequestsResolvable`, `DecidedOnce`, `HeldUntilDecided`, `AnswersWhatWasShown` | 2.3 m |
| delivery | 2 recipients and a probe, chunks of 2 in one bucket, 2 bounce slices, 1 fault; or a newsgroup; or three archives | `NothingTwice`, `OutletsServed`, `KeepsPromise`: every step is one of `Mailing`; under fairness `DeliveryEnds` | 775 k |
| digests | 2 postings, 2 readers, weekly or daily, and one of: a full mailbox, a fault, requests beside the cron job, a change of preferences and a last digest | `EachPostingInOneDigest`, `NumbersRise`; under fairness `ReadersGetEverything` | 300 k |
| site | 2 addresses, 2 lists, a domain, 2 processes; nothing at first and 3 requests, or a small site, 2 requests and each database; or templates, 4 loads | `ReferencesHold`, `OnceOnARoster`, `PositionsConsecutive`, `MailServerInformed`, `TemplatesUsable` | 411 k |

Two more runs end in a violation; they are listed [below](#where-the-code-and-its-documents-disagree).

Each property says in its comment which faults it excepts, and the exceptions
are history variables that name the race or the fault itself (`overlaps`,
`races`, `undone`, ...), not its result.  `DecidesByTheFirstCase` compares the
interpreter of chains, with its jumps, its detour and its stack, with a list of
cases in which the first that holds decides; `ReadersReadWhatIsAllowed` compares
the tree of parts after all handlers with what the filter allows of the parts before.

Bounds.  Every bound on a counter is a constant whose name begins with Max, or
part of a scenario, and stops only new input: what was accepted is processed to
its end.  Where a module has `Scenarios`, each history begins with one of them,
which also sets its bounds: rare events are combined with few others, so
that their numbers of states add up and do not multiply.

- The queues: `MaxFiles` limits new and kept messages only, copies are made
  beyond it.  In queue_live `MaxBakCount` is 1 instead of MAX_BAK_COUNT (3), so
  that two crashes bring an entry to its limit and past it; the theorems are
  for every value.
- The master: restarts are used up and asked for once more; `MaxEvents` bounds
  signals, failures and kills together, a kill counting twice since its
  runners live on beside the next master's.  Three masters are one more than
  the lock lets in.
- Posting: each rule and each handler has a message that meets it and one that
  does not, on lists of eighteen sorts (calm); every shape of tree meets every
  filter (content); two changes of the database, a fault or a second posting
  come between links (busy); a posting of two authors goes to lists that munge
  or wrap it, with and without replies to the list, or to an anonymous one, with
  a fault and a change on the way (author); one to three recipients with every subaddress, and a fault
  (mail); two or three commands per message and an answering robot (command).
- Subscription: three tokens are the whole of the longest workflow (confirm,
  then approve) and the beginning of another, and two transactions at a time, one
  overlap, leave two requests pending.  One list and one email are
  enough where the code looks at one row at a time.  Where transactions overlap the
  administration does less (`MCScopes`), so that the numbers of states add up.
- Delivery: the period is 0: after one tick, a try that defers as many as the one
  before it gives up, and another number of them extends the period.  One fault reaches every exception of
  the properties.
- Digests: the dates are the days on which the calendar year and
  the ISO week disagree, where numbering goes wrong if it can.
- Site: three requests build a user with an address and a membership from
  nothing; the small site begins with all of them, so that two more reach what
  overlaps.

Symmetry is used for moderators and runners of `Moderation` and for the processes
of `Subscription`, where every property is an invariant.

Deadlock is checked in the queue runs.  The others really stop: the master has
ended, the bounds on requests are used up, every mail is where it goes, or
everything held was decided.  There the liveness properties say that they stop
only where they should.

Fairness.  Only weak fairness is assumed, of processes that run:

- `QueueFlow`: the own steps of each runner that is up (`Running`).  Nobody has to start
  one: the master replaces only a runner that exits with SIGUSR1, and only
  so often (`bin/master.py:430-436`), so `QueuesDrain` is about a runner that
  from some time on stays up.  Crashes, signals, new messages and unshunt have none.
- `Master`: the steps of the master, and of each runner process towards the
  next phase.  Signals and failures have none.
- In the three below a runner that dies and its start by the master or by an
  administrator are one step, and such deaths are bounded: their liveness is that of runners
  that somebody starts again.
- `Posting` and `Entrance`: the steps of the incoming, pipeline, LMTP and
  command runners, and of the robot that answers mail, which makes it the worst case
  for `RunnersRest`.
- `Delivery` and `Outlets`: the outgoing, retry and archive runners, and time.
  The mail server has none: `DeliveryEnds` though it defers for ever.
- `Digests`: the pipeline and the digest runner, what the administration began,
  and cron.

Each property of a passing run is known to fail for a plausible slip in the code:
the modules hold the slipped forms of their definitions (marked as mutants, or
"as if"), and `PROJECT.json` says which property finds which.

## Proofs

Each theorem is for every value of the constants that satisfies the named
assumptions, which TLC evaluates in the runs: any number of processes, messages,
lists, addresses and scenarios, any number of crashes and signals.

| module | theorem | states |
|---|---|---|
| QueueFlowProofs | `TypeCorrect` | `[]TypeOK` |
| | `NoMessageIsLost` | `[]NoLoss` |
| | `WhatIsNotHeldIsNeverLost` | `[]NeverLost` |
| | `BackupsAreTriedAgain` | `[]BackupsTriedAgain` |
| | `QueuesImplementCustody` | `KeepsCustody`: `QueueFlow` implements `Custody` |
| | `NoDuplicatesWithoutFaults` | `[]DuplicatesNeedFaults` |
| EntranceProofs | `OneFate` | `[]OneDisposition` |
| | `FirstCaseDecides` | `[]DecidesByTheFirstCase` |
| | `StayOut` | `[]BannedStayOut` |
| | `AuthorsKept` | `[]AuthorNamedOrHidden` |
| | `ToldTheTruth` | `[]AnswersAreTrue` |
| MasterProofs | `NeverTwoProcesses` | `[]OneProcessPerSlice` |
| | `NoSecondMaster` | `[]TwoMastersNeedForce` |
| | `CommandsFindTheMaster` | `[]PidFileNamesMaster` |
| SubscriptionProofs | `TokensAlwaysLeadSomewhere` | `[]TokensLeadSomewhere` |
| | `RequestsNeedOverlaps` | `[]OneRequestPerEmail` |
| | `ModeratorsAlwaysDecide` | `[]ModeratorsDecide` |
| | `ConsentUnlessPreconfirmed` | `[]ConsentGiven` |
| ModerationProofs | `RequestsAlwaysResolve` | `[]RequestsResolvable` |
| | `DecidedOnlyOnce` | `[]DecidedOnce` |
| | `HeldStaysUntilDecided` | `[]HeldUntilDecided` |
| | `AnswersMeanWhatWasShown` | `[]AnswersWhatWasShown` |
| OutletsProofs | `NoSecondCopy` | `[]NothingTwice` |
| | `OutletsGetThePosting` | `[]OutletsServed` |
| | `DeliveryImplementsMailing` | `KeepsPromise`: `Outlets` implements `Mailing` |
| DigestsProofs | `NumbersAlwaysRise` | `[]NumbersRise` |
| | `PostingsAreSentOnce` | `[]EachPostingInOneDigest` |
| SiteProofs | `RefersToWhatIsThere` | `[]ReferencesHold` |
| | `NobodyTwiceOnARoster` | `[]OnceOnARoster` |
| | `NoGapsInPositions` | `[]PositionsConsecutive` |
| | `MailServerKnowsTheLists` | `[]MailServerInformed` |
| | `TemplatesCanBeUsed` | `[]TemplatesUsable` |

Every module has the same plan: the types and the strengthening, with a comment
on each part, one lemma for each action or kind of action, `Init => IInv`,
`IInv /\ [Next]_vars => IInv'`, and the theorems.  None of the properties is
inductive as it stands.  What is added to them, and why, in short:

**QueueFlowProofs.**  When a process unlinks its file at `finish`, the message
is safe only because the process has published a copy, has disposed of the
message, or has it in its transaction, and a step of another process must not
take that copy away first.  The strengthening says, by the place of each
process, what it has achieved so far; and since files are numbered in the order
of their enqueue, a copy is younger than its original.  That order makes the
argument well-founded: take the youngest file of a message; whoever is about to
remove it has made a younger one, or has the message elsewhere.

`BackupsTriedAgain` needs to know whose entries are whose: an
entry claimed by a process is in the queue of that process and in its slice, the
number in the metadata keeps up with the tries, and what a process has on
its list, at hand and in the making is its own.  For the refinement each label
that moves a file is a step of `Custody` or a stutter.  Its hypotheses are
`NoHolds` (no message can be held: a hold that is rolled back loses one, as the
run queue_held_stop shows) and `EntrancesServed` (some runner serves `in` and
each queue that mail comes in by; without it there is no route by which the
message could go back to the shunt queue).  `DuplicatesNeedFaults` counts: the
copies ahead and the copies that are still to come are 1 plus the faults.  Its
hypothesis is that nobody serves the queue such a message is forwarded to, as
the property is about arriving there.

**EntranceProofs.**  Five arguments about one path, each on top of the one before.

- `AnswersAreTrue`: per recipient, the files queued for him, what he was told and
  what is on the list of answers about to be given; only a recipient whose
  answer is still to be given has a file more than the faults account for.
- `OneDisposition` is a count: the fates noted, the entries of the queue and the
  one under way are what entered, unless something failed or was changed.
  What makes it inductive is where a posting can be (`ChainOK`, `LinkFound`): the
  chains call each other only in certain ways, so that the stack is
  empty, or has the posting chain on it while the header matches are looked at.
- `BannedStayOut`: what the chains decide about is what was taken from the queue
  but for the password (`TakenOK`), and until the rule that looks for the
  banned is reached, or once there is no way back from a chain that accepts nothing,
  the sender is only under way (`BannedOK`).
- `DecidesByTheFirstCase`: at each link it is known how many of the
  twelve cases were looked at in vain (`Passed`, `PathOK`); the rules that are kept
  by position are those of the list as long as nothing changes (`RulesOK`); and
  a terminal chain has noted its fate before its second link (`ClosedOK`).  The proof
  goes link by link and shows that its rule and the case of the same name say the same.
- `AuthorNamedOrHidden`: a message and its metadata are followed handler by
  handler, through queues, runners and the shunt queue (`Attributed`).  Until
  `cleanse` and `dmarc`, From: is the author's; `cook-headers` has noted the
  original sender by the time `dmarc` asks for him; from `cleanse` on an anonymous
  list names only itself or the address that replies go to.  Only a failure in
  the pipeline followed by an unshunt leads to it being taken otherwise, and the
  robot's answers to `-request` never get into `in`, which depends on how
  `SplitRecipient` reads the recipient's address.

The assumptions (`EntranceAssumption`, `PostingAssumption`, `RulesAssumption`,
`ContentAssumption`) are on the sorts of things: names of lists are sequences of words with a
domain, who joins or is banned is an address, actions are those of the
enumerations, a message has the fields of one, the parser goes some depth
(`MaxNesting`) into the parts of parts.

**MasterProofs.**  A process holds its slice until the master has waited for it and,
if it is to be replaced, until the successor was forked; what `start_runners`
has not come to was not forked.  Of the lock: unless a living master lost its
lock, whoever is past the acquisition still has it; a lock that looks stale
belongs to somebody who does not run.

**SubscriptionProofs.**  A workflow that waits for a moderator has passed the
verification and the confirmation that the policy asks for, and what an open
transaction will save or do has passed what its place asks for (`Proper`), whatever
is committed before it ends; one that waits for
its owner is saved at a step the owner can answer.  For `OneRequestPerEmail` the
pending requests that no open transaction began with (`Untaken`) and the open
transactions about that email are counted together (`CountOK`): they are at most 1 plus
the overlaps.  A commit turns one of the latter into one of the former, and only a
transaction that begins beside another adds to the sum.

**ModerationProofs.**  Of each message that a runner is about to hold: the id is
fresh, the file and the rows are there as far as the runner got, and no other
request has the same copy; of each screen: it shows what the request is about
unless ids are given again.

**OutletsProofs.**  A count again: each copy that a recipient got, each entry that may
still bring one, and the copy that the archiver has yet to queue are paid for by
1 plus the faults, so that nobody is sent two without one.  For `Mailing`, each
step is one that sends, reports or gives up some of those who are due, and the
refinement mapping follows from which entries and transactions name them.

**DigestsProofs.**  Unless somebody was overtaken (`races`): at most one session has
counted up and not committed; what it has queued is the latest digest, and what
is committed is ahead of every digest before; the mailboxes of the triggers have
names of their own; the digest runner sends what its mailbox holds; and every
posting is on as many lines of mailboxes that will be sent, and of digests that
were, as it was appended.

**SiteProofs.**  A part for each operation of `Accounts`, `ListAdmin`, `Importer` and
`Templates`: from a sound database it leaves a sound one, keeps rosters as they were
(`Kept`), and changes neither the lists nor the cache if that is not its business
(`Framed`, `Elsewhere`).  A database is sound if its rows have their columns, what it
refers to is there, and the header matches of each list have the positions from 0 on,
each once (`Gapless`): `Positions` alone is a set of numbers, which says
nothing of two matches with one position, and renumbering is right because the
rank of a match among its list's is a bijection onto those numbers.  Requests that do one
thing after another (`Through`) are dealt with once (`StepsKeep`): the results after each
element are a function, whose existence is by least counterexample, and what
each step keeps, all keep.

The inductive invariant then says of each transaction that what it will write is
what some operation makes of what it has read (`Asked`), and, until transactions
overlap, that what it has read is what is committed (`Alone`); so merging row by row gives
what was computed (`MergedAlone`).  On PostgreSQL what a commit merges is
checked instead (`Checked`).  The files change before the commit, so while a transaction is
under way the cache must be usable with the rows it will leave (`Cache`), and the
alias file must have the lists there will be (`Informed`): where
transactions that are not about lists overlap with one that is, it adds and
removes only lists of its own, which is all the merge does to them.

`SiteAssumption` is that each scenario starts from a sound database with an empty
cache, and that what is imported or configured comes in sequences.  Where several may overlap, nothing is claimed but `MailServerInformed` and
the foreign keys of PostgreSQL, since the rest does not hold there.

Model-checked only:

- Liveness: `QueuesDrain`, `StopHonoured`, `StopCompletes`, `RestartCompletes`,
  `RunnersRest`, `DeliveryEnds`, `ReadersGetEverything`.  Liveness under fairness and
  `ENABLED` are outside what TLAPS proves here.
- `ReadersReadWhatIsAllowed`: what the content filter leaves of a tree of parts is
  an induction over the parts of parts, each level of which selects,
  reduces and flattens sequences; the provers cannot do that induction.
  Moreover what it says of collapsed alternatives is only meant for messages
  whose texts differ from each other, as those of the runs do.  The calm, content
  and author scenarios check it for every shape of tree against every filter.

All other invariants that the runs check, and both refinements, are theorems.

## Where the code and its documents disagree

| run | property | what happens |
|---|---|---|
| queue_held_stop | `NothingVanishes` | a stop between unlink and commit loses a held message (`core/runner.py:175`) |
| posting_discard | `DiscardedGoesNowhere` | what a handler discards or rejects goes on through the pipeline (`core/pipelines.py:46`) |

The lines of the documents, comments and assertions are quoted in `PROJECT.json`.

More came up while the code was translated.  The modules behave like the code
in these points, and a property that they concern names them as an exception,
but no run is about them alone.

Queues and processes:

- a stop signal is caught as if it were an error of the message, which is
  shunted (`core/runner.py:176`);
- a message of a missing list is shunted without `whichq` and unshunted into
  `in`, wherever it came from (`core/runner.py:245`);
- get_files tells files with one time stamp apart by adding a DELTA that
  rounding may lose (`core/switchboard.py:211`; not modelled);
- SIGHUP ends a runner that is booting, for good (`bin/runner.py:185`); a SIGTERM during
  `start_runners` does not reach the child of the fork in progress
  (`bin/master.py:384`); one between the last fork and `pause` ends the runners,
  and the master waits for another signal (`bin/master.py:391`); and a signal in `cleanup` can leave a child behind
  (`bin/master.py:457`); the runners of a killed master go on beside those of
  the next (`bin/master.py:555`);
- a runner that fails is not restarted (`bin/master.py:428`), although the
  comment above and `config/schema.cfg:246` say so;
- `--force` removes the lock of a living master (`bin/master.py:133`), and `stop`
  may remove the PID file of the next one (`commands/cli_control.py:147`).

Incoming mail and commands:

- when a mail has no Message-ID or has defects, LMTP answers once however many
  recipients there are (`runners/lmtp.py:146`), unlike what the comment says of
  RFC 2033; a full disk is answered by a permanent 550;
- the addresses for joining, leaving and confirming send no answer to what
  fails, and `join` of somebody who is pending or banned shunts the whole
  message of commands;
- the mark that a list was left survives shunting and unshunting, and the
  command is then skipped (`commands/eml_membership.py:176`); a user's
  membership found by address fails an assertion (`commands/eml_membership.py:200`).

Rules and handlers:

- a List-Post that is a `<mailto:>` URI, as Mailman writes it, is not seen as a
  loop (`rules/loop.py:38`); the rules of header matches are kept by position
  and used for whatever match has it later (`chains/headers.py:66`); between the
  rule for banned addresses and that for nonmembers a ban comes too late
  (`rules/moderation.py:115`); only the first sender is looked for in the lists
  of nonmembers;
- messages with a blank subject for the administrivia rule
  (`rules/administrivia.py:86`), an urgent header, a topic that is no regular
  expression, or no sender for an automatic answer are shunted;
- the action "defer", which a header match may be given over REST
  (`rest/header_matches.py:97`), is the name of no chain, and a posting that it
  matches is shunted;
- a posting with several addresses in From: keeps, when From: is changed for DMARC,
  only the one that counts as its sender (`handlers/dmarc.py`, "Just punt"); and
  one that fails after that and is unshunted is handled again as if it were
  from the list, so that its author may be lost;
- an alternative that has no parts raises and the message is shunted; nested
  alternatives are collapsed only in part; a subject in several charsets keeps
  its prefix in the later chunks;
- recipients are kept while a message is shunted, and those who left get it;
  the automatic answers of a day are counted, and written, in transactions that
  may overlap (`chains/hold.py:90`), and a held message gets a second token
  that nothing takes back (`chains/hold.py:151`).

Outgoing mail, news, digests:

- a news connection that breaks raises again in `finally`, so that the message
  is shunted instead of queued again as the comment says (`runners/nntp.py:85`);
  a temporary error drops it, and others are tried for ever; a crash after the
  post sends a second article;
- an archiver that raises, or does not get its lock, is logged and misses the
  message;
- after a connection that fails the next chunk fails too; a temporary failure of
  a probe is dropped; the failure of a probe whose member is gone is shunted
  (`runners/outgoing.py:126`);
- nothing that runs calls `send_probe`, processes bounce events, or calls
  `send_one_last_digest_to`;
- the digest is renamed and queued before its number is committed
  (`app/digests.py:106`); quarters are numbered `(month - 1) // 4`, and weeks by
  the calendar year with the ISO week; a posting may be appended to a mailbox that was sent.

Requests and the database:

- SQLite gives an id again, and an answer hits another message
  (`model/requests.py:158`); over MySQL a request may stay without its message
  (`model/messagestore.py:56`), and of a message crossposted to two lists one
  copy is kept and posted to both (`model/messagestore.py:58`);
- a dismissed request leaves its saved workflow (`rest/sub_moderation.py:97`);
  bans, and the verification after a confirmation, are not looked at again
  (`app/subscriptions.py:311`); a preconfirmed request to leave skips the
  moderator (`app/subscriptions.py:408`), whom `interfaces/mailinglist.py:88` and the
  comment at `app/tests/test_unsubscriptions.py:132` have asked; registrations that overlap
  do not see each other and leave two requests (`app/subscriptions.py:222`); tokens do not expire, since nothing calls `evict`;
- a request that is refused is committed with what it did until then
  (`rest/users.py:357`, `rest/listconf.py:63`, `rest/header_matches.py`);
- a membership that is moved to another address may be there twice, which an
  assertion of the roster does not expect (`model/roster.py:126`); absorbing a user
  loses the domains owned; removing a domain leaves the alias file as it was
  (`app/domain.py:29`); creating lists in transactions that overlap leaves alias
  files without one of them;
- the moderation of one imported member is kept for the next one, and an import
  that fails keeps the template files it wrote (`utilities/importer.py:612`);
- two processes that ask for the archivers, or fill the cache, at once insert two
  rows, after which asking raises (`model/mailinglist.py:603`); a gap in the
  positions of header matches would make adding one raise;
- setting a template evicts the new URI from the cache and not "the previous
  template" (`model/template.py:87`), and a URI with placeholders is never
  evicted; a transaction that is undone leaves a row of the cache without its
  file; the life time of what is cached has no effect.

## What is not modelled

- Of the queues: the digest comparison of slices (an entry's slice is chosen at
  enqueue; the rounding of its bounds is a matter of floating point), full
  disks, the options `--once` and `--list` of `bin/runner`.
- Of the master: option parsing, logs, the alarm that refreshes the lock, reuse
  of process ids, SIGINT (the same as SIGTERM).
- Of mail: text.  Headers are kept as far as a rule or a handler asks about
  them, a regular expression is a mark that a message has or not, a charset is
  known or not.  The network dialogue of LMTP, SMTP and NNTP is an answer or a
  broken connection.  The virgin runner is a pipeline runner without state, and
  its pipeline two of the same handlers.
- Of subscription: notices, linking of users, uncommitted rows that READ UNCOMMITTED
  shows over MySQL (a transaction reads what is committed, at one instant), transactions
  of the administration and of dismissals that overlap with others', and a
  token sent to another list than the one that issued it, which
  `SubscriptionManager.confirm` takes.
- Of moderation: notices and replies to them, forwarding, held unsubscriptions, and over MySQL the
  uncommitted requests that a moderator might be shown.
- Of bounces: how one is recognised in a text (a choice), and their scores,
  which this version of the program never computes.
- Of the database: names, passwords, dates, preferred addresses (nothing over
  REST sets one), and most settings of a list; the layers below a transaction
  are SQLAlchemy.
- REST routing and formats, the schema migrations, configuration and start-up,
  the commands that only print, utilities, and the interfaces, which only declare.

## Plan

What is left to prove is what the content filter leaves of a tree of parts, and
liveness, for which the prover would have to learn `ENABLED`.

To model next: the rounding
of the slices as operators against exact division, held unsubscriptions, and
preferred addresses.
