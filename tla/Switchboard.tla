------------------------------ MODULE Switchboard ------------------------------
(***************************************************************************)
(* The queue directories of Mailman core (mailman/core/switchboard.py).    *)
(*                                                                         *)
(* A queue entry is a file whose extension is its state:                   *)
(*    .pck.tmp   being written, invisible to every reader                  *)
(*    .pck       queued                                                    *)
(*    .bak       dequeued, its processing has not been finished            *)
(*    .psv       preserved in the bad queue                                *)
(* The file base name begins with the time of the enqueue, and the digest  *)
(* behind it picks the slice, so here a base name is the position of the   *)
(* entry in the sequence file (later entries are younger), and the slice   *)
(* is the field owner: the process whose switchboard lists the entry.      *)
(* Every system call below is atomic; what lies between two of them is in  *)
(* the modules that use this one.                                          *)
(***************************************************************************)
EXTENDS Naturals, Sequences

CONSTANTS
    Queues,         \* names of the queue directories
    Msgs,           \* messages
    Procs,          \* processes that read a queue directory
    Serves,         \* Serves[p] is the queue that p reads
    Nobody,         \* owner of an entry in a queue that no process reads
    Unloadable,     \* messages whose pickle cannot be loaded
    MaxBakCount     \* MAX_BAK_COUNT

ASSUME SwitchboardAssumption ==
    /\ {"shunt", "bad", "in"} \subseteq Queues
    /\ Serves \in [Procs -> Queues \ {"bad"}]
    /\ Nobody \notin Procs
    /\ Unloadable \subseteq Msgs
    /\ MaxBakCount \in Nat \ {0}

VARIABLE file       \* the queue entries, in the order of their base names

Extensions == {"tmp", "pck", "bak", "psv", "gone"}

(* One entry.  bak is the _bak_count of its metadata, whichq the queue the *)
(* unshunt command would send it to, whole is FALSE when the pickle cannot *)
(* be loaded.  tries and from are history: how often the entry has been    *)
(* dequeued and the queue it was enqueued from.                            *)
Entry == [q : Queues, ext : Extensions, msg : Msgs, owner : Procs \cup {Nobody},
          bak : Nat, whole : BOOLEAN, whichq : Queues, tries : Nat,
          from : Queues]

SwitchboardInit == file = << >>

(* The processes one of which owns a new entry of q: its digest decides.   *)
OwnersOf(q) == IF \E p \in Procs : Serves[p] = q
                 THEN {p \in Procs : Serves[p] = q}
                 ELSE {Nobody}

(* The new entry of a message; volatile metadata (keys that begin with an  *)
(* underscore) is filtered out, so its _bak_count begins at zero again.    *)
NewEntry(q, m, o, which, src, e) ==
    [q |-> q, ext |-> e, msg |-> m, owner |-> o, bak |-> 0,
     whole |-> m \notin Unloadable, whichq |-> which, tries |-> 0, from |-> src]

(* enqueue: write the temporary file, then rename it.                      *)
WriteTmp(q, m, which, src) ==
    \E o \in OwnersOf(q) :
        file' = Append(file, NewEntry(q, m, o, which, src, "tmp"))

Publish(f) == file' = [file EXCEPT ![f].ext = "pck"]

(* dequeue: the rename that claims the entry, before it is unpickled.      *)
Claim(f) == file' = [file EXCEPT ![f].ext = "bak", ![f].tries = @ + 1]

(* finish: the backup file, or the .pck when there is no backup file, is   *)
(* unlinked or moved to the bad queue.  When neither exists the system     *)
(* call fails and the error is only logged.                                *)
OnQueue(f) == file[f].ext \in {"bak", "pck"}

(* (as if finish put the entry back instead of removing it)                *)
FinishRequeues(f) == file' = IF OnQueue(f) THEN [file EXCEPT ![f].ext = "pck"] ELSE file

Finish(f) == file' = IF OnQueue(f) THEN [file EXCEPT ![f].ext = "gone"] ELSE file

(* (as if finish ignored preserve)                                         *)
FinishPreserveUnlinks(f) == Finish(f)

FinishPreserve(f) ==
    file' = IF OnQueue(f)
              THEN [file EXCEPT ![f].ext = "psv", ![f].q = "bad",
                                ![f].owner = Nobody]
              ELSE file

(* get_files: the entries of p's slice with one extension.  They are       *)
(* listed in the order of their base names: Oldest has the next of a list. *)
FilesOf(p, e) == {f \in 1..Len(file) : /\ file[f].owner = p
                                       /\ file[f].q = Serves[p]
                                       /\ file[f].ext = e}

Oldest(S) == {f \in S : \A g \in S : f <= g}

(* recover_backup_files, one backup file f: its metadata is rewritten in   *)
(* place with the count increased, and then it is queued again, or         *)
(* preserved when the count reaches its limit.  A process that dies in the *)
(* middle of the rewrite leaves a file that cannot be loaded.              *)
BeginRewrite(f) == file' = [file EXCEPT ![f].whole = FALSE]

EndRewrite(f) == file' = [file EXCEPT ![f].whole = TRUE, ![f].bak = @ + 1]

Reinstate(f) ==
    IF file[f].bak >= MaxBakCount
      THEN FinishPreserve(f)
      ELSE file' = [file EXCEPT ![f].ext = "pck"]

(* The states in which a file holds its message for whoever reads next.    *)
Live(f) == file[f].ext \in {"pck", "bak", "psv"}
================================================================================
