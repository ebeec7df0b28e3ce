-------------------------------- MODULE Templates --------------------------------
(***************************************************************************)
(* The templates that a list, a domain or the site puts in the place of    *)
(* those of Mailman, and the cache of what was fetched for them (mailman/  *)
(* model/template.py, mailman/model/cache.py, mailman/rest/uris.py).       *)
(*                                                                         *)
(* The cache has a row in the database for what it keeps, and the contents *)
(* in a file.  Files change at once, rows with their transaction.          *)
(*                                                                         *)
(* There is one template.  web says of each URI how it answers and which   *)
(* edition of the contents it has; a row of a template keeps, as history,  *)
(* the edition that there was when it was set again.                       *)
(***************************************************************************)
EXTENDS ListAdmin

CONSTANTS
    Uris,           \* where templates may be
    PerList,        \* URIs with a placeholder for the list
    Local           \* mailman: URIs

ASSUME TemplatesAssumption == PerList \cup Local \subseteq Uris

(* The URI with its placeholders filled in, or left where there is no list.*)
Expanded(uri, l) == <<uri, IF uri \in PerList THEN l ELSE "everybody">>
Entries(db, key) == {i \in DOMAIN db.cache : db.cache[i].key = key}

(* An effect on the database and on the files of the cache.                *)
Effect(r, files) == [r |-> r, files |-> files]

(***************************************************************************)
(* The cache.                                                              *)
(***************************************************************************)
(* Two rows, or a row without its file, are an exception for everybody.    *)
Unreadable(db, files, key) ==
    \/ Cardinality(Entries(db, key)) > 1
    \/ Entries(db, key) # {} /\ key \notin DOMAIN files

AddToCache(db, files, key, edition, taken) ==
    Effect(Done([db EXCEPT !.cache = Put(@, Unused(@, taken.cache), [key |-> key])]),
           Put(files, key, edition))
Evict(db, files, key) ==
    IF Unreadable(db, files, key) THEN Effect(Failed(db), files)
    ELSE Effect(Done([db EXCEPT !.cache = Drop(@, Entries(db, key))]), Drop(files, {key}))

(***************************************************************************)
(* The templates.                                                          *)
(***************************************************************************)
Template(uri, since) == [uri |-> uri, since |-> since]

(* Mutant: what is evicted is the URI that the template had.               *)
EvictPrevious(db, files, where, uri, web) ==
    LET evicted == Evict(db, files, Expanded(db.templates[where].uri, "nobody"))
        set(d) == [d EXCEPT !.templates = Put(@, where, Template(uri, web[uri].edition))]
    IN  IF evicted.r.status = "failed" THEN evicted
        ELSE Effect(Done(set(evicted.r.db)), evicted.files)
(* One that is set again is fetched again.                                 *)
Reset(db, files, where, uri, web) ==
    LET evicted == Evict(db, files, Expanded(uri, "nobody"))
        set(d) == [d EXCEPT !.templates = Put(@, where, Template(uri, web[uri].edition))]
    IN  IF evicted.r.status = "failed" THEN evicted
        ELSE Effect(Done(set(evicted.r.db)), evicted.files)
SetTemplate(db, files, where, uri, web) ==
    IF where \in DOMAIN db.templates THEN Reset(db, files, where, uri, web)
    ELSE Effect(Done([db EXCEPT !.templates = Put(@, where, Template(uri, 0))]), files)

(* The contents stay in the cache until somebody sets the template again.  *)
DeleteTemplate(db, where) == Done([db EXCEPT !.templates = Drop(@, {where})])

(* The template of the list, of its domain or of the site, the first that  *)
(* does not fail to be fetched, is taken, and is empty if it is not found. *)
(* Without any it is that of Mailman.                                      *)
Answer(web, uri) == IF uri \in Local THEN "contents" ELSE web[uri].answer
Contexts(l) == <<l, DomainOf[l], "site">>
Key(db, where, l) == Expanded(db.templates[where].uri, l)
Serves(db, where, l, web) ==
    /\ where \in DOMAIN db.templates
    /\ \/ Entries(db, Key(db, where, l)) # {}
       \/ Answer(web, db.templates[where].uri) # "error"
Fetch(db, files, where, l, web, taken) ==
    LET uri == db.templates[where].uri
        key == Key(db, where, l)
    IN  IF Unreadable(db, files, key) THEN Effect(Failed(db), files)
        ELSE IF Entries(db, key) = {} /\ uri \notin Local /\ Answer(web, uri) = "contents"
        THEN AddToCache(db, files, key, web[uri].edition, taken)
        ELSE Effect(Done(db), files)
LoadTemplate(db, files, l, web, taken) ==
    LET serving == {n \in DOMAIN Contexts(l) : Serves(db, Contexts(l)[n], l, web)}
    IN  IF serving = {} THEN Effect(Done(db), files)
        ELSE Fetch(db, files, Contexts(l)[Min(serving)], l, web, taken)
================================================================================
