--------------------------- MODULE MCA68kSource ---------------------------
(***************************************************************************)
(* Small sources for A68kSource, and what a reader takes them to mean:     *)
(* the statements left when every INCLUDE and every macro call is replaced *)
(* by its text, without files, positions, stacks or a second pass.         *)
(***************************************************************************)
EXTENDS A68kSource, FiniteSets

LOCAL INSTANCE SequencesExt

n(x) == <<x, -1>>

Op(op, a, k)     == [NoLine EXCEPT !.op = op, !.a = n(a), !.n = k]
Lab(x, op, a, k) == [Op(op, a, k) EXCEPT !.lab = n(x)]
Two(op, a, b)    == [Op(op, a, 0) EXCEPT !.b = n(b)]

Use(x) == Op("code", x, 0)

MacroDef(name, body) == <<Lab(name, "macro", "", 0)>> \o body \o <<Op("endm", "", 0)>>

\* m x,y: a numbered and a local label, an early exit, and its arguments
M == MacroDef("m", <<Lab("l@", "code", "\\1", 0),
                     Two("ifc", "\\2", ""), Lab("1$", "code", "", 0), Op("mexit", "", 0),
                     Op("endc", "", 0),
                     Op("b", "\\2", 0), Use("l@")>>)

\* r: a recursive macro that counts s down
R == MacroDef("r", <<Use("NARG"), Lab("s", "set", "s", -1), Op("ifgt", "s", 0), Op("r", "", 0),
                     Op("endc", "", 0)>>)

\* a macro that never stops calling itself
Q == MacroDef("q", <<Op("q", "", 0)>>)

\* the file f is a macro: its header is passed over
F == <<Op("macro", "", 0), Use("\\1"), Two("m", "\\1", "s"), Op("endm", "", 0)>>

B == <<Lab("s", "set", "s", 2)>>

\* pieces of a file: equates, symbols and macros leave it skippable, code does not
Pieces ==
    { <<Lab("e", "equ", "", 5)>>,
      <<Lab("s", "set", "s", 1)>>,
      <<Lab("t", "set", "s", 3)>>,
      <<Op("m", "s", 0)>>,
      <<Lab("t", "set", "u", 0)>>,
      <<Op("b", "", 0)>>,
      <<Op("include", "b", 0)>>,
      MacroDef("v", <<Lab("s", "set", "s", 1)>>) \o <<Op("v", "", 0)>>,
      <<Op("ifnd", "e", 0), Lab("s", "set", "", 7), Op("ifeq", "s", 0), Use("s"),
        Op("endc", "", 0), Op("endc", "", 0)>>,
      <<Op("iflt", "s", -1), Lab("s", "set", "s", 1)>> }

Second == {<<>>, <<Lab("t", "set", "s", 1)>>, <<Op("include", "b", 0)>>}

MCIncludes == {p \o q : p \in Pieces, q \in Second}

Steps ==
    { <<Op("include", "a", 0), Use("s")>>,
      <<Two("m", "e", ""), Two("m", "t", "s")>>,
      <<Lab("s", "set", "s", 2), Op("f", "s", 0)>>,
      <<Op("r", "t", 0), Lab("k", "code", "t", 0), Lab("1$", "incbin", "a", 0), Use("1$")>>,
      <<Op("ifne", "t", 0), Use("later"), Op("endc", "", 0), Op("zz", "", 0)>> }

Mains ==
    {<<Lab("s", "set", "", 1), Lab("t", "set", "", 0)>> \o M \o R \o x
        \o <<Op("include", "a", 0)>> \o y
        \o <<Lab("later", "code", "e", 0)>> \o IF x = y THEN <<>> ELSE <<Op("end", "", 0)>>
        : x \in Steps, y \in Steps}

\* sources that end before their last line: the heap is full, or a file is missing
Endless ==
    { <<Op("include", "main", 0)>>,
      Q \o <<Op("q", "", 0)>>,
      M \o <<Op("f", "s", 0), Op("include", "none", 0)>>,
      <<Op("macro", "", 0), Op("endif", "", 0)>> }

\* END in an INCLUDE file, at once or in a condition, and in a macro (one that has
\* not included a file before, after which the input would be closed)
Ender == <<Op("end", "", 0)>>
EndedFiles ==
    { <<Lab("e", "equ", "", 5)>> \o Ender,
      <<Lab("e", "equ", "", 5), Op("ifeq", "t", 0)>> \o Ender \o <<Op("endc", "", 0)>>,
      <<Lab("s", "set", "s", 1)>>,
      <<Lab("t", "set", "u", 0), Use("s")>> \o Ender }

\* each passes over errors of the main file before it comes to its end
Enders ==
    {<<Lab("s", "set", "", 1), Lab("t", "set", "", k)>> \o M \o MacroDef("z", x \o Ender)
        \o <<Op("zz", "", 0), Use("later"), Op("include", "a", 0), Two("m", "e", "")>> \o y
        \o <<Lab("later", "code", "e", 0)>>
        : k \in 0..1, x \in {<<>>, <<Use("s")>>}, y \in {<<>>, <<Op("z", "", 0)>>}}

Files(main, a) ==
    (<<"", "main">> :> main) @@ (<<"d", "a">> :> a) @@ (<<"", "b">> :> B)
        @@ (<<"d", "b">> :> <<Use("wrong")>>) @@ (<<"", "f">> :> F)
        @@ (<<"d", "h">> :> <<Lab("h", "equ", "", 9)>>)

MCPrograms ==
    {Files(x, a) : x \in Mains, a \in MCIncludes} \cup {Files(x, <<>>) : x \in Endless}
        \cup {Files(x, a) : x \in Enders, a \in EndedFiles}

MCInclList == <<"d">>

-----------------------------------------------------------------------------
(* The statements of a source, by replacing calls and INCLUDEs with text. *)

\* the end of a text put in place
Mark == [NoLine EXCEPT !.op = "mark"]

First(s, ops, from) ==
    LET at == {k \in from..Len(s) : s[k].op \in ops} IN
    IF at = {} THEN Len(s) + 1 ELSE CHOOSE k \in at : \A j \in at : k <= j

After(s, k) == SubSeq(s, k + 1, Len(s))

\* past the ENDC of an IF, or where the text ends
RECURSIVE PastEndc(_, _)
PastEndc(s, depth) ==
    IF s = <<>> \/ Head(s).op = "mark" THEN s
    ELSE IF Head(s).op = "endc" /\ depth = 1 THEN Tail(s)
    ELSE PastEndc(Tail(s), depth + CountNest(Head(s).op))

Text(body, args, number) ==
    LET put(x) == IF x = n("\\1") THEN IF Len(args) >= 1 THEN args[1] ELSE Empty
                  ELSE IF x = n("\\2") THEN IF Len(args) >= 2 THEN args[2] ELSE Empty
                  ELSE IF x[1] = "l@" /\ x[2] = -1 THEN <<x[1], number>> ELSE x
        line(l) == [l EXCEPT !.lab = put(@), !.b = put(@),
                             !.a = IF @ = n("NARG") THEN Empty ELSE put(@),
                             !.n = IF l.a = n("NARG") THEN Len(args) ELSE @]
    IN  [k \in DOMAIN body |-> line(body[k])] \o <<Mark>>

\* a macro kept in a file starts with a header
FileText(f) == LET from == IF f # <<>> /\ Head(f).op = "macro" THEN 2 ELSE 1 IN
               SubSeq(f, from, First(f, {"endm"}, from) - 1)

\* replace the first line of what is left; env holds the values of symbols, and a
\* local label belongs to the label before it
Expand(s0) ==
    LET l    == Head(s0.todo)
        rest == Tail(s0.todo)
        s    == IF l.lab # Empty /\ l.lab[1] # "1$" THEN [s0 EXCEPT !.scope = @ + 1] ELSE s0
        key(x) == <<x, IF x[1] = "1$" THEN s.scope ELSE 0>>
        v    == l.n + IF key(l.a) \in DOMAIN s.env THEN s.env[key(l.a)] ELSE 0
        size == IF l.op = "code" THEN 1 ELSE IF l.op = "incbin" THEN Len(files[<<"d", l.a[1]>>]) ELSE 0
        value == IF l.op \in {"equ", "set"} THEN v ELSE s.addr
        met(todo) ==
            [s EXCEPT !.todo = todo,
                      !.out = Append(@, <<l.op, l.lab[1], v, s.addr>>),
                      !.addr = @ + size,
                      !.env = IF l.lab = Empty \/ l.op = "macro" THEN @
                              ELSE (key(l.lab) :> value) @@ @]
        true == CASE l.op = "ifeq" -> v = 0
                  [] l.op = "ifne" -> v # 0
                  [] l.op = "ifgt" -> v > 0
                  [] l.op = "iflt" -> v < 0
                  [] l.op = "ifc"  -> l.a = l.b
                  [] l.op = "ifnd" -> key(l.a) \notin DOMAIN s.env
        path(x) == IF <<"", x>> \in DOMAIN files THEN <<"", x>> ELSE <<"d", x>>
        args == IF l.b # Empty THEN <<l.a, l.b>> ELSE IF l.a # Empty THEN <<l.a>> ELSE <<>>
        call(body) == [met(Text(body, args, s.number + 1) \o rest) EXCEPT !.number = @ + 1]
        endm == First(rest, {"endm"}, 1)
        past == After(rest, IF endm > Len(rest) THEN Len(rest) - 1 ELSE endm)
    IN
    CASE l.op = "mark"    -> [s EXCEPT !.todo = rest]
      [] l.op = "mexit"   -> [s EXCEPT !.todo = After(rest, First(rest, {"mark"}, 1))]
      [] l.op = "end"     -> met(<<>>)
      [] l.op = "include" -> met(files[path(l.a[1])] \o <<Mark>> \o rest)
      [] l.op = "macro"   -> [met(past) EXCEPT !.macros = (l.lab[1] :> SubSeq(rest, 1, endm - 1)) @@ @]
      [] l.op \in Ifs     -> met(IF true THEN rest ELSE PastEndc(rest, 1))
      [] l.op \notin Known \cup {"mark", "mexit"} ->
             IF l.op \in DOMAIN s.macros THEN call(s.macros[l.op])
             ELSE IF path(l.op) \in DOMAIN files THEN call(FileText(files[path(l.op)]))
             ELSE met(rest)
      [] OTHER -> met(rest)

\* 2^k lines
RECURSIVE Expanded(_, _)
Expanded(s, k) == IF s.todo = <<>> THEN s
                  ELSE IF k = 0 THEN Expand(s) ELSE Expanded(Expanded(s, k - 1), k - 1)

Whole == (IF HeaderFN = "" THEN <<>> ELSE <<Op("include", HeaderFN, 0)>>)
             \o files[<<"", "main">>] \o <<NoLine>>

Expansion ==
    Expanded([todo |-> Whole, out |-> <<>>, env |-> <<>>, macros |-> <<>>, addr |-> 0,
              number |-> 0, scope |-> 0], 8).out

Logged ==
    LET lines == SelectSeq([k \in 1..MaxLines |-> k], LAMBDA k : k \in DOMAIN log) IN
    [k \in DOMAIN lines |-> LET e == log[lines[k]] IN <<e.line.op, e.line.lab[1], e.v, e.addr>>]

-----------------------------------------------------------------------------
(* Properties. *)

\* Every variable keeps its type, and the places of nested inputs, of names and
\* of skipped files stay inside what they index and apart from each other
\* (Heap2Space, and the comparisons of SkipLim with SetFixLim in Adirect.c and
\* LineParts).
TypeOK ==
    /\ pass \in 1..2 /\ caller \in {"main", "macro"}
    /\ pc \in {"LineParts", "GetObjectCode", "MacroBody", "Label", "done", "aborted", "crashed"}
    /\ \A f \in Range(InF) : /\ f.UPtr \in 0..Len(heap) /\ f.NArg \in -1..2
                             /\ f.NArg = -1 \/ f.NArg = Len(f.args)
                             /\ f.UPtr = 0 => f.path \in DOMAIN files
    /\ HeapApart /\ TablesApart
    /\ In.fd = <<>> \/ (In.fd \in DOMAIN files /\ In.at \in 1..(Len(files[In.fd]) + 1))
    /\ SkipNest \in Nat /\ nest \in Nat /\ LineCount \in 0..MaxLines /\ LabLine \in 0..LineCount
    /\ SkipIdx \in 1..(Len(Incl.Tab) + 1)

\* Pass 1 assembles the statements the source says: those found by putting the
\* text of files and macros in place of INCLUDEs and calls, with their labels,
\* values and addresses.  Nested files are closed, reopened and repositioned
\* on the way (OpenIncl, LineParts), and macros read from memory meanwhile.
AsWritten == pass = 2 /\ LineCount = 0 => Logged = Expansion

\* Pass 2 begins in the main file: it was open when pass 1 ended, or an INCLUDE of
\* the header file, which is not skipped, reopens it by its name.
FromMain == rewound = <<"", "main">> \/ (HeaderFN # "" /\ ~SuppList)

\* Pass 2 assembles at every line number the statement pass 1 met there, at the
\* same address, with the same macro number and the same values, though it does
\* not read the INCLUDE files that produced no code ("The statement numbers
\* will be bumped to keep in proper alignment").  Said of sources whose pass 2
\* begins where pass 1 did: after an END in an INCLUDE file it may not.
SameStatements ==
    FromMain /\ pass = 2 /\ pc = "GetObjectCode" /\ ~endfile =>
        LineCount \in DOMAIN log /\ log[LineCount] = Statement

\* An error met in pass 1 is reported in pass 2, even one in an INCLUDE file
\* that could be skipped ("we must re-read it to report its errors"), unless
\* it was a name defined further down.  After an END in an INCLUDE file pass 2
\* may not read the main file at all, and report none of its errors.
ErrorsReported ==
    FromMain /\ pc = "done" => \A e \in noticed :
        e \in errors \/ (e[2] = "Undef" /\ Key(log[e[1]].line.a) \in DOMAIN sym)

\* Every assembly ends, one that calls or includes itself for ever by the
\* overflow of the secondary heap: "recursive INCLUDEs will, of course, result
\* in a loop that will be broken only when the heap overflows".
Ends == <>(pc \in {"done", "aborted"})
=============================================================================
