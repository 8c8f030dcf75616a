---------------------------- MODULE MCA68kLink ----------------------------
(***************************************************************************)
(* Short sources: two forward branches with space near the limit of a      *)
(* short branch between them and their labels; sections that refer to each *)
(* other; other object files that fit, or do not.                          *)
(***************************************************************************)
EXTENDS A68kLink

A == 1
B == 2
X == 3      \* defined elsewhere, or nowhere
M == 4

Stmt(l, o, a, s, n) == [label |-> l, op |-> o, arg |-> a, sub |-> s, n |-> n]
Do(o)      == Stmt(NoName, o, NoName, NoName, 0)
Op(o, a)   == Stmt(NoName, o, a, NoName, 0)
Ds(n)      == Stmt(NoName, "ds", NoName, NoName, n)
On(l, s)   == [s EXCEPT !.label = l]
At(l)      == On(l, Do(""))
Plus(s, n) == [s EXCEPT !.n = n]
Less(s, x) == [s EXCEPT !.sub = x]
EndLine    == Do("end")

\* A and B, each ahead of two branches, with filling around a short branch's reach
Forward ==
    {<<Op("bra", b1), s1, Ds(n), s2, On(l, s3), s4, At(A + B - l), EndLine>> :
        b1 \in {A, B},
        s1 \in {Op("bra", A), At(M), On(M, Op("dc", B)), Do("even")},
        n  \in {1, 118, 120, 122, 124, 126},
        s2 \in {Op("bra", B), Do("cnop"), Op("lea", A)},
        l  \in {A, B}, s3 \in {Do(""), Op("bra", M), Op("lea", M)},
        s4 \in {Op("bra", A), Op("dbra", B), Ds(3)}}

\* backward branches and equates of what is behind
Backward ==
    {<<At(A), Ds(n), On(B, s1), On(M, e), s2, s3, Plus(Op("ds", B), 0), EndLine>> :
        n  \in {2, 124, 126, 128},
        s1 \in {Op("bra", A), Op("lea", A), Op("dbra", A)},
        e  \in {Plus(Op("equ", A), 2), Less(Op("equ", B), A), Plus(Op("equ", NoName), 5)},
        s2 \in {Op("bra", A), Op("lea", M), Op("dc", M), Op("ds", M), Less(Op("ds", B), A)},
        s3 \in {Op("bra", B), Less(Op("dc", B), A), Plus(Op("dc", A), 6)}}

\* sections, with symbols exported, imported and declared in them
Sectioned ==
    {<<d, Do(t1), On(A, s1), s2, Do(t2), On(B, s3), On(M, e), d2, EndLine>> :
        d  \in {Op("xdef", A), Op("public", B), Op("xref", X), Do("")},
        t1 \in {"code"},
        s1 \in {Op("dc", B), Op("bra", B)},
        s2 \in {Op("dc", X), Op("lea", B), Op("lea", A), Ds(1)},
        t2 \in {"data", "bss"},
        s3 \in {Ds(3), Op("dc", A), Op("lea", A)},
        e  \in {Op("", NoName), Plus(Op("equ", B), 1), Less(Op("equ", B), B)},
        d2 \in {Op("xdef", M), Op("public", A)}}

Unit(h)    == <<[t |-> "unit"], [t |-> "name", line |-> 1]>> \o h
CodeHunk   == [t |-> "code", size |-> 4, data |-> << >>]
ExtOf(x)   == [t |-> "ext", defs |-> {[name |-> x, abs |-> FALSE, off |-> 2]}, refs |-> {}]
EndHunk    == [t |-> "end"]
RefOf(x, size, rel) ==
    [t |-> "ext", defs |-> {}, refs |-> {[name |-> x, size |-> size, pc |-> rel, offs |-> {0}]}]

Fitting  == Unit(<<CodeHunk, ExtOf(X), [t |-> "symbol"], EndHunk>>)
Unfit    == {Unit(<<CodeHunk, ExtOf(A), EndHunk>>), Unit(<<CodeHunk, CodeHunk>>),
             Unit(<<EndHunk, CodeHunk>>), Unit(<<EndHunk, EndHunk>>), Tail(Fitting),
             <<Fitting[1]>> \o Fitting, Unit(<<CodeHunk, [t |-> "debug"]>>),
             Unit(<<CodeHunk, RefOf(A, 1, TRUE), EndHunk>>),
             Unit(<<CodeHunk, RefOf(A, 2, FALSE), EndHunk>>)}

Plain(S)  == {[source |-> s, others |-> << >>] : s \in S}
OneSource == <<Op("xdef", A), On(A, Op("dc", X)), EndLine>>

MCJobs == Plain(Forward \cup Backward \cup Sectioned)
            \cup {[source |-> OneSource, others |-> <<f>>] : f \in Unfit \cup {Fitting}}
            \cup {[source |-> OneSource, others |-> <<Fitting, Fitting>>]}
MCSources == {j.source : j \in MCJobs}

\* an equate inside a branch that is made short later
StaleJobs == Plain({<<Op("bra", A), Ds(2), On(B, Op("dc", B)), On(M, Op("equ", B)),
                      On(A, s), Op("dc", M), EndLine>> : s \in {Op("lea", B), Op("dbra", M)}})
StaleSources == {j.source : j \in StaleJobs}

MCImports == {X}
=============================================================================
