------------------------------- MODULE LeanAudit -------------------------------
(***************************************************************************)
(* How the phase 10 gate reads the Lean sources without Lean               *)
(* (tools/validate_phase10_gate_base.py): the text outside of comments and *)
(* strings, the theorems in it under their full names, and the comparison  *)
(* of these with the theorem manifest and with the axiom audit.            *)
(*                                                                         *)
(* Of a character it matters whether it is "/", "-", a quote (q), a        *)
(* backslash (b), the end of a line (n), or any other (c). Lean's character*)
(* literals and raw strings are no part of the sources, and of no text     *)
(* here: the reader does not know them.                                    *)
(***************************************************************************)
EXTENDS Integers, Sequences, Functions

-----------------------------------------------------------------------------
(***************************************************************************)
(* _lean_code_only, one character a step: how the reader stands after it   *)
(* and what is kept of it. `skip' is the second character of a pair that   *)
(* was read as one.                                                        *)
(***************************************************************************)

Blank == " "
Blanked(c) == IF c = "n" THEN "n" ELSE Blank

One(depth, string, line, kept) ==
    [depth |-> depth, string |-> string, line |-> line, skip |-> FALSE, kept |-> kept]
Pair(depth, string) ==
    [depth |-> depth, string |-> string, line |-> FALSE, skip |-> TRUE, kept |-> Blank]

\* In a block comment, which may hold others.
InBlock(s, c, next) ==
    IF c = "/" /\ next = "-" THEN Pair(s.depth + 1, FALSE)
    ELSE IF c = "-" /\ next = "/" THEN Pair(s.depth - 1, FALSE)
    ELSE One(s.depth, FALSE, FALSE, Blanked(c))

\* Where the text ends there is no next character.
NoCharacter == ""

\* A slip to detect: a quote ends a string even after a backslash.
EndsAtAnyQuote(s, c, next) ==
    IF c = "q" THEN One(0, FALSE, FALSE, Blank) ELSE One(0, TRUE, FALSE, Blanked(c))

\* In a string, where a backslash takes the next character with it.
InString(s, c, next) ==
    IF c = "b" /\ next # NoCharacter THEN Pair(0, TRUE)
    ELSE IF c = "q" THEN One(0, FALSE, FALSE, Blank)
    ELSE One(0, TRUE, FALSE, Blanked(c))

InCode(c, next) ==
    IF c = "-" /\ next = "-" THEN One(0, FALSE, TRUE, Blank)
    ELSE IF c = "/" /\ next = "-" THEN Pair(1, FALSE)
    ELSE IF c = "q" THEN One(0, TRUE, FALSE, Blank)
    ELSE One(0, FALSE, FALSE, c)

ReadNext(s, c, next) ==
    IF s.skip THEN One(s.depth, s.string, FALSE, Blank)
    ELSE IF s.depth > 0 THEN InBlock(s, c, next)
    ELSE IF s.string THEN InString(s, c, next)
    ELSE IF s.line /\ c # "n" THEN One(0, FALSE, TRUE, Blank)
    ELSE InCode(c, next)

Reading(text) ==
    LET after[k \in 0 .. Len(text)] ==
            IF k = 0 THEN One(0, FALSE, FALSE, Blank)
                     ELSE ReadNext(after[k - 1], text[k],
                                   IF k < Len(text) THEN text[k + 1] ELSE NoCharacter)
    IN  after

\* The code, in its place, and whether no comment or string is left open, which
\* the reading requires.
CodeOnly(text) ==
    LET after == Reading(text)
    IN  [whole |-> after[Len(text)].depth = 0 /\ ~after[Len(text)].string,
         code |-> [k \in DOMAIN text |-> after[k].kept]]

-----------------------------------------------------------------------------
(***************************************************************************)
(* _lean_fully_qualified_theorems, of the lines of the code. A line of the *)
(* kind "theorem" begins with that word and a name whose first part        *)
(* THEOREM_LINE_RE has a pattern for: small letters, digits, underscores.  *)
(* A "hidden" one declares a theorem in any other form: after an attribute *)
(* or a modifier (private, protected), with a capital or a quoted name. For*)
(* Lean both are theorems; the reader passes the second over, as it does   *)
(* whatever is no namespace, end or theorem, a section too.                *)
(***************************************************************************)

EndsWith(stack, label) ==
    /\ Len(label) <= Len(stack)
    /\ SubSeq(stack, Len(stack) - Len(label) + 1, Len(stack)) = label

\* An `end' without a name closes one name, one with a name the names it has.
Closes(stack, label) == stack # <<>> /\ (label = <<>> \/ EndsWith(stack, label))

\* Of a name with dots the pattern takes the first part.
NameRead(l) == SubSeq(l.names, 1, 1)

NameNext(s, l) ==
    IF s.failed THEN s
    ELSE IF l.kind = "namespace"
      THEN [stack |-> s.stack \o l.names, found |-> s.found, failed |-> FALSE]
    ELSE IF l.kind = "end"
      THEN [stack |-> IF Closes(s.stack, l.names)
                        THEN SubSeq(s.stack, 1, Len(s.stack) - (IF l.names = <<>> THEN 1 ELSE Len(l.names)))
                        ELSE s.stack,
            found |-> s.found, failed |-> ~Closes(s.stack, l.names)]
    ELSE IF l.kind = "theorem"
      THEN [stack |-> s.stack, found |-> Append(s.found, s.stack \o NameRead(l)), failed |-> FALSE]
    ELSE s

Naming(lines) ==
    LET after[k \in 0 .. Len(lines)] ==
            IF k = 0 THEN [stack |-> <<>>, found |-> <<>>, failed |-> FALSE]
                     ELSE NameNext(after[k - 1], lines[k])
    IN  after

\* The theorems of a file; every namespace is closed, and every end closes one.
Qualified(lines) ==
    LET end == Naming(lines)[Len(lines)]
    IN  [ok |-> ~end.failed /\ end.stack = <<>>, names |-> end.found]

\* verify_theorems: the manifest lists the theorems of QSOLFed/Theorems.lean, as
\* they are read, in their order. No other file is read for theorems.
VerifyTheorems(lines, manifest) ==
    /\ Qualified(lines).ok
    /\ Qualified(lines).names = [i \in DOMAIN manifest |-> <<"QSOLFed", manifest[i].declaration>>]
    /\ \A i, j \in DOMAIN manifest :
          i # j => manifest[i].declaration # manifest[j].declaration
    /\ \A i \in DOMAIN manifest : manifest[i].implemented

\* verify_axiom_audit_coverage: the theorems the audit asks Lean about.
VerifyAxiomAudit(audited, manifest) ==
    /\ \A i, j \in DOMAIN audited : i # j => audited[i] # audited[j]
    /\ audited = [i \in DOMAIN manifest |-> manifest[i].declaration]

\* verify_no_custom_axioms: no axiom or constant anywhere in the code, in any file.
VerifyNoCustomAxioms(files) ==
    \A lines \in files : \A i \in DOMAIN lines : lines[i].kind # "axiom"

-----------------------------------------------------------------------------
(***************************************************************************)
(* Lean's side: texts that are put together from pieces of which it is     *)
(* known whether they are code, and scopes as Lean nests them.             *)
(***************************************************************************)

UpToOne(of) == {<<>>} \cup of
UpToTwo(of) == UpToOne(of) \cup {p[1] \o p[2] : p \in of \X of}

Block(body) == <<"/", "-">> \o body \o <<"-", "/">>
InComments == {<<"c">>, <<"n">>, <<"q">>, <<"b">>, <<"-">>}
FlatBlocks == {Block(body) : body \in UpToTwo(InComments)}
NestedBlocks ==
    {Block(p[1] \o Block(p[2]) \o p[3]) :
        p \in {<<>>, <<"c">>} \X UpToOne(InComments) \X {<<>>, <<"c">>, <<"-">>}}

InStrings == {<<"c">>, <<"n">>, <<"/", "-">>, <<"-", "-">>, <<"b", "q">>, <<"b", "b">>}
Strings == {<<"q">> \o body \o <<"q">> : body \in UpToTwo(InStrings)}

LineComments == {<<"-", "-">>, <<"-", "-", "c">>, <<"-", "-", "q">>, <<"-", "-", "/", "-">>}
CodeTexts == {<<"c">>, <<"n">>, <<"-">>, <<"/">>, <<"-", "/">>}

\* A piece says of each of its characters whether it is code.
Piece(text, code) == [text |-> text, code |-> [i \in DOMAIN text |-> code]]
Code == {Piece(t, TRUE) : t \in CodeTexts}
Closed == {Piece(t, FALSE) : t \in FlatBlocks \cup NestedBlocks \cup Strings}
ToEndOfLine == {Piece(t, FALSE) : t \in LineComments}
NewLine == Piece(<<"n">>, TRUE)

Join(a, b) == [text |-> a.text \o b.text, code |-> a.code \o b.code]

\* Two pieces of code that would make an opening of a comment do not meet.
MayOpen(text) == text[Len(text)] \in {"-", "/"}
Apart(a, b) == a \in Code /\ MayOpen(a.text) => b.text[1] # "-"

Texts ==
    {Join(p[1], p[2]) :
        p \in {q \in (Closed \cup Code) \X (Closed \cup Code \cup ToEndOfLine) : Apart(q[1], q[2])}}
    \cup {Join(p[1], Join(NewLine, p[2])) : p \in ToEndOfLine \X (Closed \cup Code)}
    \cup {Join(p[1], Join(p[2], p[3])) :
             p \in {q \in Code \X Closed \X Code : Apart(q[1], q[2])}}

\* Something else than the code is kept, or not in its place.
IsMisread(piece) ==
    LET read == CodeOnly(piece.text)
    IN  \/ ~read.whole
        \/ DOMAIN read.code # DOMAIN piece.text
        \/ \E i \in DOMAIN piece.text :
              IF piece.code[i] THEN read.code[i] # piece.text[i] ELSE read.code[i] \notin {Blank, "n"}

\* The texts that are misread, and those that end within a comment or a string
\* and are not refused.
Misread == {piece \in Texts : IsMisread(piece)}
Unended == {p \in Closed : CodeOnly(SubSeq(p.text, 1, Len(p.text) - 1)).whole}

Line(k, names) == [kind |-> k, names |-> names]
Lines ==
    {Line("namespace", n) : n \in {<<"QSOLFed">>, <<"A">>, <<"QSOLFed", "A">>}}
    \cup {Line("end", n) : n \in {<<>>, <<"QSOLFed">>, <<"A">>, <<"QSOLFed", "A">>}}
    \cup {Line("section", <<>>), Line("theorem", <<"t">>), Line("theorem", <<"t", "s">>),
          Line("hidden", <<"t">>)}

\* Lean's scopes. Each has a header, a section none, and the namespace it is in;
\* a namespace of several names opens as many.
Unnamed == ""
Space(open) == IF open = <<>> THEN <<>> ELSE open[Len(open)].space

Opened(open, names) ==
    open \o [i \in 1 .. Len(names) |->
                [header |-> names[i], space |-> Space(open) \o SubSeq(names, 1, i)]]

\* `end' names what it ends.
Headers(label) == IF label = <<>> THEN <<Unnamed>> ELSE label
Ends(open, headers) ==
    /\ Len(headers) <= Len(open)
    /\ \A i \in 1 .. Len(headers) : open[Len(open) - Len(headers) + i].header = headers[i]

LeanNext(s, l) ==
    IF s.failed THEN s
    ELSE IF l.kind = "namespace"
      THEN [open |-> Opened(s.open, l.names), names |-> s.names, failed |-> FALSE]
    ELSE IF l.kind = "section"
      THEN [open |-> Append(s.open, [header |-> Unnamed, space |-> Space(s.open)]),
            names |-> s.names, failed |-> FALSE]
    ELSE IF l.kind = "end"
      THEN [open |-> IF Ends(s.open, Headers(l.names))
                       THEN SubSeq(s.open, 1, Len(s.open) - Len(Headers(l.names))) ELSE s.open,
            names |-> s.names, failed |-> ~Ends(s.open, Headers(l.names))]
    ELSE IF l.kind \in {"theorem", "hidden"}
      THEN [open |-> s.open, names |-> Append(s.names, Space(s.open) \o l.names), failed |-> FALSE]
    ELSE s

Elaborating(lines) ==
    LET after[k \in 0 .. Len(lines)] ==
            IF k = 0 THEN [open |-> <<>>, names |-> <<>>, failed |-> FALSE]
                     ELSE LeanNext(after[k - 1], lines[k])
    IN  after

LeanNames(lines) ==
    LET end == Elaborating(lines)[Len(lines)]
    IN  [ok |-> ~end.failed /\ end.open = <<>>, names |-> end.names]

\* What there is of a file if its theorems are what the reader has a pattern for:
\* the hidden ones are not there, and the others have the first part of their names.
AsRead(lines) ==
    [i \in DOMAIN lines |->
        IF lines[i].kind = "hidden" THEN Line("other", <<>>)
        ELSE IF lines[i].kind = "theorem" THEN Line("theorem", SubSeq(lines[i].names, 1, 1))
        ELSE lines[i]]

\* A file Lean accepts whose theorems, as far as they are read, are taken for others,
\* or that is refused though it has no section.
IsMisnamed(lines) ==
    /\ LeanNames(lines).ok
    /\ IF Qualified(lines).ok THEN Qualified(lines).names # LeanNames(AsRead(lines)).names
       ELSE \A i \in DOMAIN lines : lines[i].kind # "section"

Misnamed == {lines \in UNION {[1..n -> Lines] : n \in 0..5} : IsMisnamed(lines)}

Entries == [declaration : {"t", "u"}, implemented : BOOLEAN]
Manifests == UNION {[1..n -> Entries] : n \in 0..2}
Axiom == Line("axiom", <<"a">>)
Sources ==
    {<<Line("namespace", <<"QSOLFed">>)>> \o body \o <<Line("end", <<"QSOLFed">>)>> :
        body \in UNION {[1..n -> {Line("theorem", <<"t">>), Line("theorem", <<"u">>),
                                  Line("theorem", <<"u", "s">>), Line("hidden", <<"u">>),
                                  Axiom}] : n \in 0..3}}
Others == {<<>>, <<Line("theorem", <<"v">>)>>, <<Axiom>>}
Audits == UNION {[1..n -> {"t", "u"}] : n \in 0..2}

\* The projects that pass with an axiom of their own in either file, or with a theorem
\* of the first that Lean is not asked about, once, under the name that is read.
Unaudited ==
    {q \in Sources \X Manifests \X Audits \X Others :
        /\ VerifyTheorems(q[1], q[2]) /\ VerifyAxiomAudit(q[3], q[2])
        /\ VerifyNoCustomAxioms({q[1], q[4]})
        /\ \/ Axiom \in Range(q[1]) \cup Range(q[4])
           \/ ~LeanNames(q[1]).ok
           \/ {<<"QSOLFed", n>> : n \in Range(q[3])} # Range(LeanNames(AsRead(q[1])).names)
           \/ Len(q[3]) # Len(LeanNames(AsRead(q[1])).names)}

AuditsTheSource == Misread = {} /\ Unended = {} /\ Misnamed = {} /\ Unaudited = {}
=============================================================================
