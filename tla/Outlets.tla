-------------------------------- MODULE Outlets --------------------------------
(***************************************************************************)
(* Where a posting goes besides its recipients: the newsgroup (mailman/    *)
(* runners/nntp.py) and the archives (mailman/runners/archive.py, mailman/ *)
(* archiving), one of which is reached by mail and so through Delivery.    *)
(*                                                                         *)
(* The news server takes one article with a Message-ID.  A posting comes   *)
(* with a foreign one, so it gets a new one before it is sent; that it has *)
(* one is in the metadata of whatever is queued again or shunted, but not  *)
(* in the file that a runner finds after a crash.                          *)
(***************************************************************************)
EXTENDS Delivery, Sequences, SequencesExt

CONSTANTS
    Archivers,      \* the archivers of the site that are enabled for the
                    \* list, in their order
    ArchivePublic,  \* the list has public archives
    MailAddress     \* the recipient who is mail-archive.com

ASSUME OutletsAssumption ==
    /\ Archivers \in Seq({"prototype", "mail-archive", "mhonarc"})
    /\ IsInjective(Archivers)
    /\ ArchivePublic \in BOOLEAN /\ MailAddress \in Rcpts

VARIABLES
    newsFile,       \* [place, article]: the entry in the nntp queue
    news,           \* the NNTP runner: [pc, article, again]
    articles,       \* the Message-IDs that were made
    newsgroup,      \* the articles that the server has taken
    archiveFile,    \* the entry in the archive queue
    archive,        \* the archive runner: [pc, todo]
    archived,       \* history: how often each archiver has got it
    logged          \* the errors in the log

newsVars == <<newsFile, news, articles, newsgroup>>
archiveVars == <<archiveFile, archive, archived>>
outlets == <<newsVars, archiveVars, logged>>
allVars == <<vars, outlets>>

NewsIdle == [pc |-> "idle", article |-> 0, again |-> FALSE]
ArchiveIdle == [pc |-> "idle", todo |-> <<>>]
(* A history is about the recipients, the newsgroup or the archives.       *)
OutletsInit ==
    /\ \E outlet \in {"mail", "news", "archive"} :
          /\ newsFile = [place |-> IF outlet = "news" THEN "queue" ELSE "none", article |-> 0]
          /\ archiveFile = IF outlet = "archive" THEN "queue" ELSE "none"
          /\ IF outlet = "mail" THEN Init ELSE Start(<<>>, FALSE)
    /\ news = NewsIdle /\ archive = ArchiveIdle
    /\ articles = 0 /\ newsgroup = {}
    /\ archived = [a \in Range(Archivers) |-> 0]
    /\ logged = {}

(***************************************************************************)
(* The NNTP runner.                                                        *)
(***************************************************************************)
NewsDequeue ==
    /\ news.pc = "idle" /\ newsFile.place = "queue"
    /\ newsFile' = [newsFile EXCEPT !.place = "taken"]
    /\ news' = [NewsIdle EXCEPT !.pc = "prepare", !.article = newsFile.article]
    /\ UNCHANGED <<articles, newsgroup, archiveVars, logged, vars>>

(* Mutant: that the message was prepared is not noticed.                   *)
PrepareAgain ==
    /\ news.pc = "prepare"
    /\ articles' = articles + 1
    /\ news' = [news EXCEPT !.pc = "connect", !.article = articles + 1]
    /\ UNCHANGED <<newsFile, newsgroup, archiveVars, logged, vars>>
(* prepare_message, unless the message is prepped.                         *)
Prepare ==
    /\ news.pc = "prepare"
    /\ articles' = IF news.article = 0 THEN articles + 1 ELSE articles
    /\ news' = [news EXCEPT !.pc = "connect",
                            !.article = IF @ = 0 THEN articles + 1 ELSE @]
    /\ UNCHANGED <<newsFile, newsgroup, archiveVars, logged, vars>>

(* There is no connection: a temporary or a socket error drops the message,*)
(* whatever else happens queues it again.                                  *)
NoConnection ==
    /\ news.pc = "connect"
    /\ \E again \in BOOLEAN : news' = [news EXCEPT !.pc = "finish", !.again = again]
    /\ logged' = logged \cup {"news"}
    /\ UNCHANGED <<newsFile, articles, newsgroup, archiveVars, vars>>
(* The server takes the article, or refuses it; an article that it has it  *)
(* refuses for the moment.                                                 *)
Post ==
    /\ news.pc = "connect" /\ news.article \notin newsgroup
    /\ newsgroup' = newsgroup \cup {news.article}
    /\ news' = [news EXCEPT !.pc = "quit"]
    /\ UNCHANGED <<newsFile, articles, archiveVars, logged, vars>>
(* Temporary errors, and socket errors, after which the server may have    *)
(* the article, drop it; other errors queue it again.                      *)
PostFails ==
    /\ news.pc = "connect"
    /\ \E took, again \in BOOLEAN :
          /\ newsgroup' = IF took THEN newsgroup \cup {news.article} ELSE newsgroup
          /\ news' = [news EXCEPT !.pc = "quit", !.again = again]
    /\ logged' = logged \cup {"news"}
    /\ UNCHANGED <<newsFile, articles, archiveVars, vars>>

Quit ==
    /\ news.pc = "quit"
    /\ news' = [news EXCEPT !.pc = "finish"]
    /\ UNCHANGED <<newsFile, articles, newsgroup, archiveVars, logged, vars>>
(* quit() fails too where the connection is lost, and its exception is the *)
(* one that the runner gets, which shunts the message as it is.            *)
QuitFails ==
    /\ news.pc = "quit"
    /\ newsFile' = [place |-> "shunt", article |-> news.article]
    /\ news' = NewsIdle /\ logged' = logged \cup {"news"}
    /\ UNCHANGED <<articles, newsgroup, archiveVars, vars>>

NewsFinish ==
    /\ news.pc = "finish"
    /\ newsFile' = IF news.again THEN [place |-> "queue", article |-> news.article]
                   ELSE [newsFile EXCEPT !.place = "done"]
    /\ news' = NewsIdle
    /\ UNCHANGED <<articles, newsgroup, archiveVars, logged, vars>>

NewsUnshunt ==
    /\ newsFile.place = "shunt"
    /\ newsFile' = [newsFile EXCEPT !.place = "queue"]
    /\ UNCHANGED <<news, articles, newsgroup, archiveVars, logged, vars>>

(***************************************************************************)
(* The archive runner.                                                     *)
(***************************************************************************)
ArchiveDequeue ==
    /\ archive.pc = "idle" /\ archiveFile = "queue"
    /\ archiveFile' = "taken"
    /\ archive' = [pc |-> "archive", todo |-> Archivers]
    /\ UNCHANGED <<archived, newsVars, logged, vars>>

Comes(a) == archive.todo # <<>> /\ Head(archive.todo) = a
Stored(a) ==
    /\ archived' = [archived EXCEPT ![a] = @ + 1]
    /\ archive' = [archive EXCEPT !.todo = Tail(@)]
(* A lock that is not free within a second, a program that fails, a full   *)
(* disk: the error is logged, and the other archivers go on.               *)
ArchiverFails(a) ==
    /\ archive' = [archive EXCEPT !.todo = Tail(@)]
    /\ logged' = logged \cup {a}
    /\ UNCHANGED archived
(* prototype keeps it in a maildir.                                        *)
Prototype ==
    /\ Comes("prototype")
    /\ \/ Stored("prototype") /\ UNCHANGED logged
       \/ ArchiverFails("prototype")
    /\ UNCHANGED <<archiveFile, newsVars, vars>>
(* A program that fails may have stored it all the same.                   *)
MHonArc ==
    /\ Comes("mhonarc")
    /\ \/ Stored("mhonarc") /\ logged' \in {logged, logged \cup {"mhonarc"}}
       \/ ArchiverFails("mhonarc")
    /\ UNCHANGED <<archiveFile, newsVars, vars>>
(* mail-archive gets it by mail, if the archives are public.               *)
MailArchive ==
    /\ Comes("mail-archive")
    /\ IF ArchivePublic
       THEN \/ /\ Stored("mail-archive") /\ UNCHANGED logged
               /\ entry' = Enqueued([Fresh EXCEPT !.rcpts = {MailAddress}], "out")
            \/ ArchiverFails("mail-archive") /\ UNCHANGED entry
       ELSE /\ archive' = [archive EXCEPT !.todo = Tail(@)]
            /\ UNCHANGED <<archived, logged, entry>>
    /\ UNCHANGED <<archiveFile, newsVars, out, tx, database, bounces, history, got, faults>>

ArchiveFinish ==
    /\ archive.pc = "archive" /\ archive.todo = <<>>
    /\ archiveFile' = "done" /\ archive' = ArchiveIdle
    /\ UNCHANGED <<archived, newsVars, logged, vars>>

(***************************************************************************)
(* A runner dies, and the next one finds the file.                         *)
(***************************************************************************)
DieOnce == /\ faults < MaxFaults /\ faults' = faults + 1
           /\ UNCHANGED <<entry, out, tx, database, bounces, history, got>>
NewsCrash ==
    /\ news.pc # "idle" /\ DieOnce
    /\ newsFile' = [newsFile EXCEPT !.place = "queue"] /\ news' = NewsIdle
    /\ UNCHANGED <<articles, newsgroup, archiveVars, logged>>
ArchiveCrash ==
    /\ archive.pc # "idle" /\ DieOnce
    /\ archiveFile' = "queue" /\ archive' = ArchiveIdle
    /\ UNCHANGED <<archived, newsVars, logged>>

(***************************************************************************)
(* Delivery, with the outlets beside it.                                   *)
(***************************************************************************)
Mail(action) == action /\ UNCHANGED outlets
NewsRunner == NewsDequeue \/ Prepare \/ NoConnection \/ Post \/ PostFails
              \/ Quit \/ QuitFails \/ NewsFinish
ArchiveRunner == ArchiveDequeue \/ Prototype \/ MHonArc \/ MailArchive \/ ArchiveFinish
OutletsNext ==
    \/ Mail(Next)
    \/ NewsRunner \/ NewsUnshunt \/ NewsCrash
    \/ ArchiveRunner \/ ArchiveCrash

OutletsSpec ==
    /\ OutletsInit /\ [][OutletsNext]_allVars
    /\ WF_vars(Mail(OutRunner)) /\ WF_vars(Mail(RetryRunner)) /\ WF_vars(Mail(Tick))
    /\ WF_allVars(ArchiveRunner)

(***************************************************************************)
(* Properties.                                                             *)
(***************************************************************************)
(* The newsgroup and the archives get the posting, or the log says why not *)
(* (runners/nntp.py:70-93, runners/archive.py:99-105); and they get it     *)
(* once, but for the runners that died after they had sent it: a message   *)
(* that is tried again, or unshunted, has the Message-ID that the news     *)
(* server knows (runners/nntp.py:67, 186).                                 *)
OutletsServed ==
    /\ Cardinality(newsgroup) <= 1 + faults
    /\ newsFile.place = "done" => newsgroup # {} \/ "news" \in logged
    /\ \A a \in Range(Archivers) :
          /\ archived[a] <= 1 + faults
          /\ archiveFile = "done" /\ archived[a] = 0 =>
                a \in logged \/ (a = "mail-archive" /\ ~ArchivePublic)

(* Whoever is due a message, the archive that gets it by mail among them,  *)
(* is let go of only after the message was handed over for it, its failure *)
(* was registered (or the registration was lost in a crash, which happens  *)
(* between unlink and commit) or logged, or delivery was given up          *)
(* (outgoing.py:125-165, archiving/mailarchive.py:68-76).                  *)
ByMail == IF "mail-archive" \in Range(Archivers) /\ ArchivePublic THEN {MailAddress} ELSE {}
InEntries == UNION {entry[i].rcpts : i \in DOMAIN entry}
ByOutlet == IF archiveFile \in {"queue", "taken"} THEN ByMail ELSE {}
AllDue == Rcpts \cap (InEntries \cup ByOutlet)
SentTo == {r \in Rcpts : got[r] > 0}
FailedFor == {r \in Rcpts : r \in scored \cup lost \/ \E x \in Runners : r \in tx[x].scored}
             \cup IF "mail-archive" \in logged THEN ByMail ELSE {}
Postman == INSTANCE Mailing WITH
    due <- AllDue, sent <- SentTo, failed <- FailedFor, givenUp <- givenUp
KeepsPromise == Postman!Spec
================================================================================
