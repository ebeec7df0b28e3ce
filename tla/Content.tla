-------------------------------- MODULE Content --------------------------------
(***************************************************************************)
(* What a message says, as a tree of MIME parts, and what the handlers do  *)
(* to it: mime-delete (mailman/handlers/mime_delete.py) and decorate       *)
(* (mailman/handlers/decorate.py).                                         *)
(*                                                                         *)
(* A part is [type, ext, charset, multi, parts, text]: its content type,   *)
(* the extension of its file name, whether its character set is known,     *)
(* whether it consists of parts (a multipart or message/rfc822), these,    *)
(* and otherwise its text as a sequence of marks.  f has the settings of   *)
(* the content filter, l those of the list.                                *)
(***************************************************************************)
EXTENDS Integers, Sequences, SequencesExt

CONSTANT MaxNesting     \* the parser goes this deep into the parts of parts

ASSUME ContentAssumption == MaxNesting \in Nat

(* The parts with up to n levels below them.  The parser of the email      *)
(* package calls itself for each level, and so do the handlers: the depth  *)
(* is limited by the stack.  A decoration may add a level.                 *)
Nested[n \in Nat] ==
    [type : STRING, ext : STRING, charset : {"known", "unknown"}, multi : BOOLEAN,
     parts : IF n = 0 THEN {<<>>} ELSE Seq(Nested[n - 1]), text : Seq(STRING)]
Parts == Nested[MaxNesting + 1]

MainType(type) ==
    CASE type \in {"plain", "html"} -> "text"
      [] type \in {"mixed", "alternative", "signed"} -> "multipart"
      [] type = "rfc822" -> "message"
      [] OTHER -> type

Part(type, ext, text) ==
    [type |-> type, ext |-> ext, charset |-> "known", multi |-> FALSE,
     parts |-> <<>>, text |-> text]
Multipart(type, parts) ==
    [type |-> type, ext |-> "none", charset |-> "known", multi |-> TRUE,
     parts |-> parts, text |-> <<>>]

(* Of the value of e, which is thus evaluated once.                        *)
Apply(Op(_), e) == CHOOSE result \in {Op(value) : value \in {e}} : TRUE
Mapped(Op(_), parts) == <<>> \o [i \in DOMAIN parts |-> Apply(Op, parts[i])]
Flattened(Op(_), parts) == Apply(FlattenSeq, Mapped(Op, parts))

(***************************************************************************)
(* mime-delete                                                             *)
(***************************************************************************)
(* A type may be named by its main type; nothing passed means everything.  *)
Refused(f, p) ==
    LET types == {p.type, MainType(p.type)}
    IN  \/ types \cap f.types # {}
        \/ f.passTypes # {} /\ types \cap f.passTypes = {}
        \/ /\ p.ext # "none"
           /\ \/ p.ext \in f.extensions
              \/ f.passExtensions # {} /\ p.ext \notin f.passExtensions

(* Nothing is left of the parts, of which there were some.                 *)
Emptied(f, p) ==
    LET all[q \in Parts] ==
            /\ q.multi /\ q.parts # <<>>
            /\ \A i \in DOMAIN q.parts : Refused(f, q.parts[i]) \/ all[q.parts[i]]
    IN  all[p]

(* Mutant: what is left of a part is not filtered in its turn.             *)
FilterFlat(f, p) ==
    [p EXCEPT !.parts = SelectSeq(@, LAMBDA q : ~Refused(f, q) /\ ~Emptied(f, q))]
FilterParts(f, p) ==
    LET kept(q) == SelectSeq(q.parts, LAMBDA r : ~Refused(f, r) /\ ~Emptied(f, r))
        rest[q \in Parts] == [q EXCEPT !.parts = Mapped(LAMBDA r : rest[r], kept(q))]
    IN  rest[p]

(* An alternative gives way to its first part, in which alternatives stay  *)
(* what they are; in a message/rfc822 the headers are kept.                *)
Collapsed(p) ==
    LET first(q) == IF q.parts = <<>> THEN <<>> ELSE <<q.parts[1]>>
        less[q \in Parts] ==
            [q EXCEPT !.parts = Flattened(LAMBDA r : IF r.type = "alternative" THEN first(r)
                                                     ELSE <<less[r]>>, @)]
    IN  less[p]

(* get_payload(0) raises for an alternative that is not made of parts, and *)
(* for an outer one of which no part is left.                              *)
CollapseFails(p) ==
    LET fails[q \in Parts] ==
            \E i \in DOMAIN q.parts :
                IF q.parts[i].type = "alternative" THEN ~q.parts[i].multi
                ELSE fails[q.parts[i]]
    IN  fails[p]
OuterFails(p) == p.type = "alternative" /\ Collapsed(p).parts = <<>>

OuterReset(p) == IF p.type = "alternative" THEN p.parts[1] ELSE p

(* A multipart of one part becomes that part; what is signed stays.        *)
Recast(p) ==
    LET cast[q \in Parts] ==
            CASE q.type = "signed" -> q
              [] q.multi /\ Len(q.parts) = 1 /\ q.type \notin {"signed", "rfc822"} ->
                    cast[q.parts[1]]
              [] OTHER -> [q EXCEPT !.parts = Mapped(LAMBDA r : cast[r], @)]
    IN  cast[p]

ToPlaintext(p) ==
    LET plain[q \in Parts] ==
            IF q.multi THEN [q EXCEPT !.parts = Mapped(LAMBDA r : plain[r], @)]
            ELSE [q EXCEPT !.type = IF @ = "html" THEN "plain" ELSE @]
    IN  plain[p]

(* An empty body before one attachment is left out.                        *)
WithoutEmptyBody(p) ==
    IF p.multi /\ Len(p.parts) = 2 /\ ~p.parts[1].multi /\ p.parts[1].text = <<>>
    THEN p.parts[2] ELSE p

(* A command that does not work converts nothing.                          *)
Reduced(f, p) ==
    LET collapsed == IF f.collapse THEN Apply(OuterReset, Collapsed(p)) ELSE p
        recast == Apply(Recast, collapsed)
    IN  Apply(WithoutEmptyBody, IF f.plaintext THEN Apply(ToPlaintext, recast) ELSE recast)

(***************************************************************************)
(* decorate                                                                *)
(***************************************************************************)
(* What is written into a text, and what is put beside one.                *)
Marks == [name \in {"header", "footer"} |-> name]
Banners == [name \in {"header", "footer"} |-> Part("plain", "none", <<name>>)]

(* A header, if there is one, before it and a footer after it.             *)
Around(l, as, middle) ==
    (IF l.header THEN <<as["header"]>> ELSE <<>>) \o middle
    \o (IF l.footer THEN <<as["footer"]>> ELSE <<>>)

(* Mutant: where a header cannot be written into the text, neither is.     *)
DecorateInside(l, p) ==
    IF p.type = "plain" THEN [p EXCEPT !.text = Around(l, Marks, @)]
    ELSE [p EXCEPT !.parts = Around(l, Banners, @)]
(* Plain text that can be decoded becomes longer, a multipart/mixed gets   *)
(* more parts, everything else is wrapped.                                 *)
Decorate(l, p) ==
    IF ~l.header /\ ~l.footer THEN p
    ELSE CASE p.type = "plain" /\ ~p.multi /\ p.charset = "known" ->
                [p EXCEPT !.text = Around(l, Marks, @)]
           [] p.type = "mixed" -> [p EXCEPT !.parts = Around(l, Banners, @)]
           [] OTHER -> Multipart("mixed", Around(l, Banners, <<p>>))

(* What one reads from top to bottom.                                      *)
Read(p) ==
    LET down[q \in Parts] ==
            IF q.multi THEN Flattened(LAMBDA r : down[r], q.parts) ELSE q.text
    IN  down[p]
================================================================================
