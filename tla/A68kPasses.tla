---------------------------- MODULE A68kPasses ----------------------------
(***************************************************************************)
(* The two passes of the assembler (a68k/A68kmain.c) over a source whose   *)
(* statements are abstract: branches, an instruction that refers to        *)
(* memory, data, space, alignment, equates, sections and declarations of   *)
(* symbols.  Pass 1 fixes the value of every symbol and decides which      *)
(* branches are short; pass 2 writes the object file, hunk by hunk.        *)
(*                                                                         *)
(* A name is a number.  Names stand for symbols, and the hunk of an        *)
(* external symbol x is -x, as the code uses the complement of a pointer.  *)
(***************************************************************************)
EXTENDS Integers, Sequences, FiniteSets

CONSTANTS
    N,         \* names are 1..N
    Sources    \* sources that may be assembled

ASSUME NamesAssumption == N \in Nat \ {0}

Names   == 1..N
NoName  == 0
NODEF   == 32767      \* "line" of an undefined symbol
ABSHUNK == 32767      \* "hunk" of an absolute value
Reach   == 128        \* how far back a short branch reaches

Directives == {"code", "data", "bss"}
Branches   == {"bra", "dbra"}
Operations == Directives \cup Branches
               \cup {"", "lea", "dc", "ds", "even", "cnop", "equ",
                     "xdef", "public", "xref", "end"}

\* a statement: its label, operation, and operand  arg - sub + n
Statement == [label : Names \cup {NoName}, op : Operations,
              arg : Names \cup {NoName}, sub : Names \cup {NoName}, n : Int]

ASSUME SourcesAssumption == \A s \in Sources : s # << >> /\ s[Len(s)].op = "end"

\* an equate of an expression, not of a lone name, looks back
ASSUME EquatesAssumption ==
    \A s \in Sources : \A k \in DOMAIN s :
        s[k].op = "equ" /\ (s[k].sub # NoName \/ s[k].n # 0) =>
            \A x \in {s[k].arg, s[k].sub} \ {NoName} : \E j \in 1..(k - 1) : s[j].label = x

VARIABLES
    source,        \* the statements
    GlobalXREF,    \* switch -g: undefined symbols are external
    pass, pc, LineCount,
    AddrCnt, AddrAdv,
    HunkType, CurrHunk, HunkSeq, MakeHunk, SectLine,
    hunks,         \* pass 1: the types of the sections, in order
    sym,           \* the symbol table
    Src,           \* value and hunk of an equate
    FwdBranch,     \* branches that may yet become short
    FwdBranchFix,  \* labels that would move if one does
    fp,            \* place in FwdBranch
    FwdTable,      \* lines of the branches made short
    data,          \* what the current section holds so far
    rels,          \* relocations of the current section
    file,          \* the object file
    errors,        \* what pass 2 reported: line and code
    placed         \* where pass 2 met each label (not in the code)

place   == <<pass, pc, LineCount, AddrCnt, AddrAdv>>
section == <<HunkType, CurrHunk, HunkSeq, MakeHunk, SectLine, hunks>>
forward == <<FwdBranch, FwdBranchFix, fp, FwdTable>>
output  == <<data, rels, file, errors, placed>>
inputs  == <<source, GlobalXREF>>
vars    == <<inputs, place, section, sym, Src, forward, output>>

Line == source[LineCount]

NoEntry == [present |-> FALSE, Val |-> 0, Hunk |-> ABSHUNK, Defn |-> NODEF,
            xref |-> FALSE, xdef |-> FALSE, public |-> FALSE, alias |-> FALSE]

Entry(val, hunk, defn) ==
    [NoEntry EXCEPT !.present = TRUE, !.Val = val, !.Hunk = hunk, !.Defn = defn]

External(x) == [Entry(0, -x, LineCount) EXCEPT !.xref = TRUE]

Init ==
    /\ source \in Sources /\ GlobalXREF \in BOOLEAN
    /\ pass = 1 /\ pc = "code" /\ LineCount = 1
    /\ AddrCnt = 0 /\ AddrAdv = 0
    /\ HunkType = "none" /\ CurrHunk = 0 /\ HunkSeq = 0 /\ MakeHunk = FALSE
    /\ SectLine = 0 /\ hunks = << >>
    /\ sym = [x \in Names |-> NoEntry]
    /\ Src = [v |-> 0, h |-> ABSHUNK]
    /\ FwdBranch = << >> /\ FwdBranchFix = << >> /\ fp = 0 /\ FwdTable = {}
    /\ data = << >> /\ rels = {} /\ file = <<[t |-> "unit"]>> /\ errors = {}
    /\ placed = [x \in Names |-> [sect |-> 0, off |-> 0]]

-----------------------------------------------------------------------------
(* Operands. *)

\* what reading symbol x gives: an alias of an external symbol is followed
Term(x) ==
    LET s == sym[x] IN
    IF x = NoName THEN [v |-> 0, h |-> ABSHUNK, d |-> 0]
    ELSE IF ~s.present /\ pass = 2 /\ GlobalXREF
         THEN [v |-> 0, h |-> -x, d |-> LineCount]
    ELSE IF s.Hunk < 0 /\ ~s.xref
         THEN [v |-> s.Val, h |-> sym[-s.Hunk].Hunk, d |-> sym[-s.Hunk].Defn]
    ELSE [v |-> s.Val, h |-> s.Hunk, d |-> s.Defn]

Undefined(x) == x # NoName /\ sym[x].Defn = NODEF

\* -g: a symbol still undefined in pass 2 becomes external when it is read
Adopted(table, x) ==
    IF pass = 2 /\ GlobalXREF /\ Undefined(x)
    THEN [table EXCEPT ![x] =
             IF @.present THEN [@ EXCEPT !.Hunk = -x, !.Defn = LineCount, !.xref = TRUE]
             ELSE External(x)]
    ELSE table

ReadTable == Adopted(Adopted(sym, Line.arg), Line.sub)

Later(m, n) == IF m > n THEN m ELSE n

\* arg - sub + n; a difference within a hunk is absolute
Operand ==
    LET p == Term(Line.arg)
        m == Term(Line.sub)
    IN  [v |-> p.v - m.v + Line.n,
         h |-> IF p.h = m.h \/ m.h # ABSHUNK THEN ABSHUNK ELSE p.h,
         d |-> Later(p.d, m.d)]

Crossing == LET p == Term(Line.arg)
                m == Term(Line.sub) IN m.h # ABSHUNK /\ p.h # m.h

\* errors are reported in pass 2
Report(codes) ==
    errors' = IF pass = 2 THEN errors \cup {<<LineCount, c>> : c \in codes} ELSE errors

OperandErrors ==
    (IF ~GlobalXREF /\ (Undefined(Line.arg) \/ Undefined(Line.sub)) THEN {"Undef"} ELSE {})
      \cup (IF Crossing THEN {"RelErr"} ELSE {})

-----------------------------------------------------------------------------
(* Output of pass 2. *)

AddrBndW(v) == v + (v % 2)
AddrBndL(v) == v + ((-v) % 4)

Piece(at, len, kind, v) == [at |-> at, len |-> len, kind |-> kind, v |-> v, line |-> LineCount]

AppendSdata(pieces) ==
    data' = IF pass = 2 /\ HunkType # "bss"
            THEN data \o SelectSeq(pieces, LAMBDA p : p.len # 0)
            ELSE data

PutRel(addr, hunk, size, pc16) ==
    rels' = IF pass = 2 /\ hunk # ABSHUNK /\ HunkType # "bss"
            THEN rels \cup {[off |-> addr, hunk |-> hunk, size |-> size, pc |-> pc16]}
            ELSE rels

Pad(a, b) == Piece(a, b - a, "pad", 0)

-----------------------------------------------------------------------------
(* Statements.  Each sets AddrCnt to where it begins, AddrAdv to its length, *)
(* and leaves the label to what follows.                                   *)

\* statements that put something into a section
Generates ==
    \/ Line.op \in Branches \cup {"lea", "dc"}
    \/ Line.op = "ds" /\ Operand.d < LineCount /\ Operand.v # 0
    \/ Line.op = "cnop" /\ Line.n # 0

Begin(ops) == pc = "code" /\ Line.op \in ops /\ (HunkType = "none" => ~Generates)

Goes(to) == pc' = to /\ UNCHANGED <<inputs, pass, LineCount>>

KeepSection == UNCHANGED <<HunkType, CurrHunk, HunkSeq, SectLine, hunks, file>>

\* ends the statement: its first address, length, output and errors
Assembles(at, adv, pieces, codes) ==
    /\ AddrCnt' = at /\ AddrAdv' = adv
    /\ MakeHunk' = (MakeHunk \/ Line.op # "" \/ Line.label # NoName)
    /\ AppendSdata(<<Pad(AddrCnt, at)>> \o pieces)
    /\ Report(codes)
    /\ sym' = ReadTable
    /\ Goes("label")
    /\ KeepSection /\ UNCHANGED <<Src, fp, placed>>

ClearForward == FwdBranch' = << >> /\ FwdBranchFix' = << >> /\ UNCHANGED FwdTable
KeepForward  == UNCHANGED <<FwdBranch, FwdBranchFix, FwdTable>>

\* a label alone on its line
LabelAlone ==
    /\ Begin({""})
    /\ Assembles(AddrCnt, 0, << >>, {})
    /\ KeepForward /\ UNCHANGED rels

\* variant: the section of the operand is not looked at
NearbyAnywhere(o, at) == o.v - (at + 2) \in -32768..32767

Nearby(o, at) == o.h = CurrHunk /\ o.v - (at + 2) \in -32768..32767

\* an instruction with an operand in memory: a reference back into the same
\* section is made relative, one to a small absolute value short
Lea ==
    LET at == AddrBndW(AddrCnt)
        o  == Operand
        mode == IF o.d >= LineCount \/ o.h < 0 THEN "abs"
                ELSE IF Nearby(o, at) THEN "disp"
                ELSE IF o.h = ABSHUNK /\ o.v \in -32768..32767 THEN "absw"
                ELSE "abs"
    IN  /\ Begin({"lea"})
        /\ IF mode = "abs"
           THEN /\ Assembles(at, 6, <<Piece(at, 2, "op", 0), Piece(at + 2, 4, "long", o.v)>>,
                              OperandErrors)
                /\ PutRel(at + 2, o.h, 4, FALSE)
           ELSE /\ Assembles(at, 4, <<Piece(at, 2, "op", 0),
                                  Piece(at + 2, 2, mode, IF mode = "disp" THEN o.v - (at + 2)
                                                                          ELSE o.v)>>,
                              OperandErrors)
                /\ UNCHANGED rels
        /\ KeepForward

\* DC.L
DataLong ==
    LET at == AddrBndW(AddrCnt) IN
    /\ Begin({"dc"})
    /\ Assembles(at, 4, <<Piece(at, 4, "long", Operand.v)>>, OperandErrors)
    /\ PutRel(at, Operand.h, 4, FALSE)
    /\ KeepForward

\* DS.B; a count that is defined later is refused
Space ==
    LET late == Operand.d >= LineCount
        adv  == IF late THEN 0 ELSE Operand.v
    IN  /\ Begin({"ds"})
        /\ Assembles(AddrCnt, adv, <<Piece(AddrCnt, adv, "zero", 0)>>,
                      OperandErrors \cup (IF late THEN {"FwdRef"} ELSE {})
                        \cup (IF Operand.h # ABSHUNK THEN {"AbsReq"} ELSE {}))
        /\ KeepForward /\ UNCHANGED rels

Even ==
    /\ Begin({"even"})
    /\ Assembles(AddrBndW(AddrCnt), 0, << >>, {})
    /\ ClearForward /\ UNCHANGED rels

\* variant: the next multiple is not looked for
CnopBack(at, n) == at - (at % 4) + n

\* where a CNOP n,4 at at ends: n past a multiple of 4
CnopTo(at, n) ==
    LET low == at - (at % 4) + n IN IF low < at THEN low + 4 ELSE low

Cnop ==
    LET at == AddrBndW(AddrCnt)
        to == CnopTo(at, Line.n)
    IN  /\ Begin({"cnop"})
        /\ Assembles(at, to - at, <<Piece(at, to - at, "nop", 0)>>, {})
        /\ ClearForward /\ UNCHANGED rels

-----------------------------------------------------------------------------
(* Branches. *)

\* drops the branches that are out of reach, and labels they have passed;
\* the entry after a dropped label is not looked at
FirstLive(f, at) ==
    CHOOSE k \in 1..(Len(f) + 1) :
        /\ k <= Len(f) => f[k].Loc >= at - Reach
        /\ \A j \in 1..(k - 1) : f[j].Loc < at - Reach

LiveBranches(f, at) == SubSeq(f, FirstLive(f, at), Len(f))

DropLabels(fix, at) ==
    LET Without(s, k) == SubSeq(s, 1, k - 1) \o SubSeq(s, k + 1, Len(s))
        from[k \in Nat, s \in Seq(Names)] ==
            IF k > Len(s) THEN s
            ELSE IF sym[s[k]].Val < at - Reach THEN from[k + 1, Without(s, k)]
            ELSE from[k + 1, s]
    IN  from[1, fix]

PackFwdBranch(at) == LiveBranches(FwdBranch, at)
PackFwdFix(at) == IF LiveBranches(FwdBranch, at) = << >> THEN << >>
                  ELSE DropLabels(FwdBranchFix, at)

\* pass 1, the target is known: short if it is near enough
BackwardBranch ==
    LET at == AddrBndW(AddrCnt)
        o  == Operand
        d  == o.v - at - 2
        short == d # 0 /\ d \in -128..127
    IN  /\ Begin({"bra"}) /\ pass = 1
        /\ o.d < LineCount /\ o.h = CurrHunk
        /\ Assembles(at, IF short THEN 2 ELSE 4, << >>, {})
        /\ FwdTable' = IF short THEN FwdTable \cup {LineCount} ELSE FwdTable
        /\ UNCHANGED <<FwdBranch, FwdBranchFix, rels>>

\* pass 1, the target is not known: a candidate
ForwardBranch ==
    LET at == AddrBndW(AddrCnt) IN
    /\ Begin({"bra"}) /\ pass = 1
    /\ Line.sub = NoName /\ Line.n = 0 /\ Operand.d = NODEF
    /\ AddrCnt' = at /\ AddrAdv' = 4 /\ MakeHunk' = TRUE
    /\ sym' = IF sym[Line.arg].present THEN sym
              ELSE [sym EXCEPT ![Line.arg] = Entry(0, ABSHUNK, NODEF)]
    /\ FwdBranch' = Append(PackFwdBranch(at), [Loc |-> at, sym |-> Line.arg, line |-> LineCount])
    /\ FwdBranchFix' = PackFwdFix(at)
    /\ Goes("label")
    /\ KeepSection /\ UNCHANGED <<Src, fp, FwdTable, data, rels, errors, placed>>

\* pass 1, any other target stays long
LongBranch ==
    LET o == Operand IN
    /\ Begin({"bra"}) /\ pass = 1
    /\ ~(o.d < LineCount /\ o.h = CurrHunk)
    /\ ~(Line.sub = NoName /\ Line.n = 0 /\ o.d = NODEF)
    /\ Assembles(AddrBndW(AddrCnt), 4, << >>, {})
    /\ KeepForward /\ UNCHANGED rels

OddTarget == IF Operand.v % 2 = 1 THEN {"AlignErr"} ELSE {}

\* the hunk of a branch's target, once -g has made it external
BranchHunk == IF GlobalXREF /\ Operand.d = NODEF THEN ReadTable[Line.arg].Hunk ELSE Operand.h

Branch2 ==
    LET at    == AddrBndW(AddrCnt)
        o     == Operand
        here  == o.h = CurrHunk
        v     == IF here THEN o.v - at - 2 ELSE o.v
        short == LineCount \in FwdTable
        reach == IF short THEN -128..127 ELSE -32768..32767
    IN  /\ Begin({"bra"}) /\ pass = 2
        /\ Assembles(at, IF short THEN 2 ELSE 4,
                IF short THEN <<Piece(at, 2, "short", v)>>
                         ELSE <<Piece(at, 2, "op", 0), Piece(at + 2, 2, "disp", v)>>,
                OperandErrors \cup OddTarget
                  \cup (IF short /\ here /\ v = 0 THEN {"BccSDsp0"} ELSE {})
                  \cup (IF short /\ ~here THEN {"BraErr"} ELSE {})
                  \cup (IF v \notin reach THEN {"BraErr"} ELSE {}))
        /\ IF here THEN UNCHANGED rels ELSE PutRel(at + 2, BranchHunk, 2, TRUE)
        /\ KeepForward

\* DBcc
DecBranch ==
    LET at   == AddrBndW(AddrCnt)
        o    == Operand
        here == o.h = CurrHunk
        v    == IF here THEN o.v - at - 2 ELSE o.v
    IN  /\ Begin({"dbra"})
        /\ Assembles(at, 4, <<Piece(at, 2, "op", 0), Piece(at + 2, 2, "disp", v)>>,
                      OperandErrors \cup OddTarget
                        \cup (IF v \notin -32768..32767 THEN {"BraErr"} ELSE {}))
        /\ IF here THEN UNCHANGED rels ELSE PutRel(at + 2, o.h, 2, TRUE)
        /\ KeepForward

-----------------------------------------------------------------------------
(* Symbols. *)

Declares(table) ==
    /\ sym' = table /\ AddrAdv' = 0
    /\ Goes("label")
    /\ KeepSection /\ KeepForward
    /\ UNCHANGED <<AddrCnt, fp, data, rels, placed>>

\* EQU; an operand not yet defined becomes external under -g
Equ ==
    LET o == Operand
        late == pass = 1 /\ GlobalXREF /\ o.d = NODEF
    IN  /\ Begin({"equ"})
        /\ Declares(IF late /\ ~sym[Line.arg].present
                    THEN [sym EXCEPT ![Line.arg] = [External(Line.arg) EXCEPT !.alias = TRUE]]
                    ELSE ReadTable)
        /\ Src' = [v |-> o.v, h |-> IF late THEN -Line.arg ELSE o.h]
        /\ MakeHunk' = TRUE
        /\ Report(OperandErrors)

XdefErrors == IF sym[Line.arg].present /\ sym[Line.arg].Defn = NODEF THEN {"Undef"} ELSE {}

\* what XDEF and PUBLIC do to a symbol in the table
Exported(s) ==
    LET own == IF s.xref /\ s.alias
               THEN [s EXCEPT !.xref = FALSE, !.alias = FALSE, !.Hunk = CurrHunk, !.Defn = NODEF]
               ELSE s
    IN  IF own.xref THEN own
        ELSE [own EXCEPT !.xdef = TRUE, !.public = @ \/ Line.op = "public"]

Xdef ==
    LET s == sym[Line.arg] IN
    /\ Begin({"xdef", "public"})
    /\ Declares(IF pass = 2 THEN sym
                ELSE [sym EXCEPT ![Line.arg] =
                        IF s.present THEN Exported(s)
                        ELSE IF Line.op = "public" THEN [External(Line.arg) EXCEPT !.public = TRUE]
                        ELSE [Entry(0, CurrHunk, NODEF) EXCEPT !.xdef = TRUE]])
    /\ Report(XdefErrors)
    /\ UNCHANGED <<Src, MakeHunk>>

Xref ==
    /\ Begin({"xref"})
    /\ Declares(IF pass = 2 \/ sym[Line.arg].present THEN sym
                ELSE [sym EXCEPT ![Line.arg] = External(Line.arg)])
    /\ UNCHANGED <<Src, MakeHunk, errors>>

-----------------------------------------------------------------------------
(* Sections. *)

RelocHunk(size) ==
    LET R == {r \in rels : r.size = size /\ r.hunk >= 0}
        offs(h) == {r.off : r \in {q \in R : q.hunk = h}}
    IN  IF R = {} THEN << >>
        ELSE <<[t |-> "reloc", size |-> size,
                groups |-> {[hunk |-> h, offs |-> offs(h)] : h \in {r.hunk : r \in R}}]>>

\* symbols exported by, and imported into, the section that ends at line last
ExtHunk(last) ==
    LET defs == {[name |-> x, abs |-> sym[x].Hunk = ABSHUNK, off |-> sym[x].Val] :
                    x \in {y \in Names : sym[y].xdef /\ sym[y].Defn \in SectLine..last}}
        ext  == {r \in rels : r.hunk < 0}
        refs == {[name |-> -r.hunk, size |-> r.size, pc |-> r.pc,
                  offs |-> {q.off : q \in {q \in ext : /\ q.hunk = r.hunk
                                                       /\ q.size = r.size /\ q.pc = r.pc}}] :
                    r \in ext}
    IN  IF defs = {} /\ refs = {} THEN << >>
        ELSE <<[t |-> "ext", defs |-> defs, refs |-> refs]>>

\* the hunks of a finished section; its data are padded to a long word
DumpSdata(last) ==
    LET size == AddrBndL(AddrCnt)
        body == IF HunkType = "bss" THEN << >>
                ELSE IF size = AddrCnt THEN data ELSE Append(data, Pad(AddrCnt, size))
    IN  <<[t |-> "name", line |-> SectLine],
          [t |-> HunkType, size |-> size, data |-> body]>>
        \o RelocHunk(4) \o RelocHunk(2) \o ExtHunk(last) \o <<[t |-> "end"]>>

\* a section that got nothing is overwritten by the next one
DoSection(type) ==
    /\ SectLine' = IF HunkType = "none" THEN 1 ELSE LineCount
    /\ HunkSeq' = HunkSeq + 1 /\ CurrHunk' = HunkSeq
    /\ IF pass = 1
       THEN /\ hunks' = Append(hunks, type) /\ HunkType' = type
            /\ UNCHANGED file
       ELSE /\ HunkType' = hunks[HunkSeq + 1]
            /\ file' = IF HunkType # "none" /\ MakeHunk THEN file \o DumpSdata(LineCount - 1)
                       ELSE file
            /\ UNCHANGED hunks
    /\ AddrCnt' = 0 /\ data' = << >> /\ rels' = {}
    /\ UNCHANGED <<inputs, sym, Src, fp, FwdTable, placed>>

SectionDirective ==
    /\ Begin(Directives)
    /\ DoSection(Line.op)
    /\ MakeHunk' = FALSE /\ AddrAdv' = 0
    /\ IF HunkType = "none" THEN UNCHANGED <<FwdBranch, FwdBranchFix>>
       ELSE FwdBranch' = << >> /\ FwdBranchFix' = << >>
    /\ pc' = "label" /\ UNCHANGED <<pass, LineCount, errors>>

\* code before any section, or symbols and no code, open an unnamed section
OpenUnnamed ==
    /\ HunkType = "none"
    /\ pc = "endpass" \/ (pc = "code" /\ Generates)
    /\ DoSection("code")
    /\ MakeHunk' = TRUE
    /\ UNCHANGED <<pass, pc, LineCount, AddrAdv, FwdBranch, FwdBranchFix, errors>>

-----------------------------------------------------------------------------
(* After the statement: its label, and on to the next. *)

\* the next statement begins where this one ends
Onward == LineCount' = LineCount + 1 /\ AddrCnt' = AddrCnt + AddrAdv /\ pc' = "code"

\* variant: a symbol declared public does not become exported
LabelledPrivate(s) ==
    IF ~s.present THEN Entry(AddrCnt, CurrHunk, LineCount)
    ELSE IF s.xref \/ s.Defn = NODEF
         THEN [s EXCEPT !.Val = AddrCnt, !.Hunk = CurrHunk, !.Defn = LineCount, !.xref = FALSE]
    ELSE s

Labelled(s) ==
    IF ~s.present THEN Entry(AddrCnt, CurrHunk, LineCount)
    ELSE IF s.xref \/ s.Defn = NODEF
         THEN [s EXCEPT !.Val = AddrCnt, !.Hunk = CurrHunk, !.Defn = LineCount,
                        !.xref = FALSE, !.xdef = @ \/ s.public]
    ELSE s

\* pass 1: a label is where the location counter is, an equate what it says
DefineLabel ==
    /\ pc = "label" /\ pass = 1 /\ Line.label # NoName
    /\ LET own == Labelled(sym[Line.label]) IN
       IF Line.op = "equ"
       THEN /\ sym' = [sym EXCEPT ![Line.label] = [own EXCEPT !.Val = Src.v, !.Hunk = Src.h]]
            /\ Onward
            /\ UNCHANGED <<FwdBranch, FwdBranchFix, fp>>
       ELSE /\ sym' = [sym EXCEPT ![Line.label] = own]
            /\ FwdBranch' = PackFwdBranch(AddrCnt)
            /\ FwdBranchFix' = PackFwdFix(AddrCnt)
            /\ pc' = "scan" /\ fp' = 1
            /\ UNCHANGED <<LineCount, AddrCnt>>
    /\ UNCHANGED <<inputs, pass, AddrAdv, section, Src, FwdTable, output>>

\* a branch to this label becomes short, unless it would branch nowhere;
\* what lies between, and the label itself, move back
Shortens(b) == b.Loc # AddrCnt - 4

\* variant: the labels inside the branch stay
MovedAlone(b) ==
    [sym EXCEPT ![Line.label].Val = IF b.line < LineCount THEN @ - 2 ELSE @]

Moved(b) ==
    [x \in Names |->
        LET s    == sym[x]
            back == IF x = Line.label /\ b.line < LineCount THEN 2 ELSE 0
            fix  == IF \E k \in DOMAIN FwdBranchFix : FwdBranchFix[k] = x
                       /\ b.Loc < s.Val - back THEN 2 ELSE 0
        IN  [s EXCEPT !.Val = @ - back - fix]]

Removed(f, k) ==
    [j \in 1..(Len(f) - 1) |-> IF j < k THEN f[j] ELSE [f[j + 1] EXCEPT !.Loc = @ - 2]]

ScanBranch ==
    LET b == FwdBranch[fp] IN
    /\ pc = "scan" /\ fp <= Len(FwdBranch)
    /\ IF b.sym # Line.label
       THEN /\ fp' = fp + 1
            /\ UNCHANGED <<AddrCnt, sym, FwdTable, FwdBranch>>
       ELSE /\ FwdBranch' = Removed(FwdBranch, fp)
            /\ IF Shortens(b)
               THEN /\ AddrCnt' = AddrCnt - 2
                    /\ sym' = Moved(b)
                    /\ FwdTable' = FwdTable \cup {b.line}
               ELSE UNCHANGED <<AddrCnt, sym, FwdTable>>
            /\ UNCHANGED fp
    /\ UNCHANGED <<inputs, pass, pc, LineCount, AddrAdv, section, Src, FwdBranchFix, output>>

\* a label inside a branch that is still open may move with it
ScanEnd ==
    /\ pc = "scan" /\ fp > Len(FwdBranch)
    /\ FwdBranchFix' = IF FwdBranch = << >> THEN FwdBranchFix
                       ELSE Append(FwdBranchFix, Line.label)
    /\ Onward
    /\ UNCHANGED <<inputs, pass, AddrAdv, section, sym, Src, FwdBranch, fp, FwdTable, output>>

\* pass 2 finds every label where pass 1 put it
CheckLabel ==
    LET s == sym[Line.label] IN
    /\ pc = "label" /\ pass = 2 /\ Line.label # NoName
    /\ Report(IF s.Defn # LineCount THEN {"SymDup"}
              ELSE IF s.Val # AddrCnt /\ Line.op # "equ" THEN {"Phase"} ELSE {})
    /\ placed' = [placed EXCEPT ![Line.label] = [sect |-> SectLine, off |-> AddrCnt]]
    /\ Onward
    /\ UNCHANGED <<inputs, pass, AddrAdv, section, sym, Src, forward, data, rels, file>>

NoLabel ==
    /\ pc = "label" /\ Line.label = NoName
    /\ Onward
    /\ UNCHANGED <<inputs, pass, AddrAdv, section, sym, Src, forward, output>>

End ==
    /\ Begin({"end"})
    /\ pc' = "endpass" /\ MakeHunk' = TRUE
    /\ UNCHANGED <<inputs, pass, LineCount, AddrCnt, AddrAdv, HunkType, CurrHunk, HunkSeq,
                   SectLine, hunks, sym, Src, forward, output>>

StartPass2 ==
    /\ pc = "endpass" /\ pass = 1 /\ HunkType # "none"
    /\ pass' = 2 /\ pc' = "code" /\ LineCount' = 1
    /\ AddrCnt' = 0 /\ AddrAdv' = 0
    /\ HunkType' = "none" /\ CurrHunk' = 0 /\ HunkSeq' = 0 /\ MakeHunk' = FALSE /\ SectLine' = 0
    /\ UNCHANGED <<inputs, hunks, sym, Src, forward, output>>

\* the last section; an object file with errors is deleted
EndSdata ==
    /\ pc = "endpass" /\ pass = 2 /\ HunkType # "none"
    /\ file' = IF errors = {} THEN file \o DumpSdata(LineCount) ELSE << >>
    /\ pc' = "assembled"
    /\ UNCHANGED <<inputs, pass, LineCount, AddrCnt, AddrAdv, section, sym, Src, forward,
                   data, rels, errors, placed>>

Assemble ==
    \/ OpenUnnamed
    \/ LabelAlone \/ Lea \/ DataLong \/ Space \/ Even \/ Cnop
    \/ BackwardBranch \/ ForwardBranch \/ LongBranch \/ Branch2 \/ DecBranch
    \/ Equ \/ Xdef \/ Xref \/ SectionDirective
    \/ DefineLabel \/ ScanBranch \/ ScanEnd \/ CheckLabel \/ NoLabel
    \/ End \/ StartPass2 \/ EndSdata
=============================================================================
