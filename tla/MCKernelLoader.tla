--------------------------- MODULE MCKernelLoader ---------------------------
(* The file systems the loader is model-checked on: two programs and three *)
(* libraries, with shared, missing, out-of-range and unreadable imports.   *)
EXTENDS KernelLoader, TLC

CONSTANTS p, q, a, b, c

Imp(lib) == [lib |-> lib, sym |-> 1]
FileOf(kind, imports) ==
    [kind |-> kind, exports |-> 1, reserved |-> FALSE, packed |-> TRUE,
     imports |-> imports]

\* p shares libraries with q, and a and b share c
MCModules == {p, q, a, b, c}
Programs  == {FileOf("PRGM", <<Imp("tios"), Imp(a), Imp(b)>>),
              FileOf("PRGM", <<Imp(a), Imp(a)>>)}
Helpers   == {FileOf("APPL", <<Imp(b), Imp("kernel")>>), FileOf("APPL", <<Imp(p)>>),
              [FileOf("PRGM", <<Imp(b)>>) EXCEPT !.packed = FALSE]}
LibsA     == {FileOf("DLL", <<Imp(c)>>), FileOf("DLL", <<Imp(b), Imp(c)>>)}
LibsB     == {FileOf("DLL", <<Imp(c)>>), FileOf("DLL", <<Imp(c), Imp(Absent)>>),
              FileOf("DLL", <<Imp(c), [lib |-> "tios", sym |-> 3]>>)}
LibsC     == {FileOf("DLL", <<>>), FileOf("APPL", <<>>),
              [FileOf("DLL", <<>>) EXCEPT !.exports = 0],
              [FileOf("DLL", <<>>) EXCEPT !.reserved = TRUE]}

MCWorlds ==
    {(p :> fp) @@ (q :> fq) @@ (a :> fa) @@ (b :> fb) @@ (c :> fc) :
        fp \in Programs, fq \in Helpers, fa \in LibsA, fb \in LibsB, fc \in LibsC}

\* Well-formed file systems for the runs that examine a single question.  In
\* the first every import can be satisfied, q in the format of Fargo 0.2.0; in
\* the second p sets a flag this kernel reserves.
PlainWorld(fp, fq) ==
    (p :> fp) @@ (q :> fq) @@ (a :> FileOf("DLL", <<Imp(c)>>))
    @@ (b :> FileOf("DLL", <<Imp(c)>>)) @@ (c :> FileOf("DLL", <<>>))
PlainP      == FileOf("PRGM", <<Imp(a)>>)
PlainQ      == FileOf("APPL", <<Imp(b)>>)
GoodWorlds  == {PlainWorld(PlainP, [PlainQ EXCEPT !.packed = FALSE])}
NewerWorlds == {PlainWorld([PlainP EXCEPT !.reserved = TRUE], PlainQ)}
=============================================================================
