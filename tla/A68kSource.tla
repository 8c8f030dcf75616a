---------------------------- MODULE A68kSource ----------------------------
(***************************************************************************)
(* Where the statements of an assembly come from: nested INCLUDE files,    *)
(* user macros kept in memory, macros in files of their own, conditional   *)
(* assembly, and the table of INCLUDE files that pass 2 does not read      *)
(* again (a68k/Symtab.c, Adirect.c, Codegen.c, A68kmain.c).                *)
(*                                                                         *)
(* A line is a record: label, operation, operands  a + n  and  b.  A name  *)
(* is a pair of its text and the number put in place of \@, or -1.         *)
(***************************************************************************)
EXTENDS Integers, Sequences, TLC

CONSTANTS
    Programs,  \* sets of files: functions from directory and name to lines
    InclList,  \* directories searched for INCLUDE files
    HeaderFN,  \* header file, or ""
    Local,     \* names that are local labels
    Numbered,  \* names that contain \@
    SizeInF, Heap2Size,            \* secondary heap, a name taking one cell
    SizeEnt, SizeFix, INCSKSIZ,    \* INCLUDE skip table
    MaxLines   \* bound on LineCount; no assembly of the runs reaches it

\* The main file fits on the secondary heap.
ASSUME SizesAssumption ==
    /\ SizeInF \in Nat /\ Heap2Size \in Nat /\ SizeInF + 1 <= Heap2Size
    /\ SizeEnt \in Nat /\ SizeFix \in Nat /\ INCSKSIZ \in Nat

VARIABLES
    files, SuppList,
    pass, pc, caller,      \* who called LineParts: "main" or "macro"
    InF, NextFNS, In,      \* nested inputs, innermost first; the open file
    heap,                  \* stored macro text
    Line, endfile, LineCount, LabLine, MacCount, SkipNest, Dir, PrevDir,
    nest,                  \* IFs open in the macro being defined
    sym, ObjSrc, AddrCnt, AddrAdv,
    Incl,                  \* pass 1: skippable INCLUDE files
    SkipIdx,
    errors, InclErrs,
    noticed, log,          \* errors and statements of pass 1 (not in the code)
    rewound                \* the file open when pass 2 begins (not in the code)

input   == <<InF, NextFNS, In>>
parts   == <<Line, endfile, LineCount, LabLine, SkipNest>>
control == <<pass, pc, caller, Dir, PrevDir>>
symbols == <<sym, heap, ObjSrc, AddrCnt, AddrAdv>>
skips   == <<Incl, SkipIdx>>
reports == <<errors, InclErrs, noticed>>
vars    == <<files, SuppList, input, parts, control, MacCount, nest, symbols, skips,
             reports, log, rewound>>

NODEF == 32767
Empty == <<"", -1>>
NoLine == [lab |-> Empty, op |-> "", a |-> Empty, n |-> 0, b |-> Empty]

Ifs == {"ifeq", "ifne", "ifgt", "ifge", "iflt", "ifle", "ifc", "ifnc", "ifd", "ifnd"}
\* "code" is any instruction or directive that makes an INCLUDE file unskippable
Directives == Ifs \cup {"equ", "set", "include", "incbin", "macro", "endc", "end"}
Known      == Directives \cup {"", "code"}

-----------------------------------------------------------------------------
(* Files and the nested inputs. *)

NOFD == [fd |-> <<>>, at |-> 0]

\* the path under which a file is found: the current directory comes first
Paths(name) ==
    SelectSeq([d \in 1..(Len(InclList) + 1) |->
                  <<IF d = 1 THEN "" ELSE InclList[d - 1], name>>],
              LAMBDA p : p \in DOMAIN files)

Found(name) == Paths(name) # <<>>
Opened(name) == [fd |-> Head(Paths(name)), at |-> 1]

Top == Head(InF)
InFNum == Len(InF) - 1
FromFile(f) == f.UPtr = 0

Frame(uptr, path, args, narg, mcnt) ==
    [UPtr |-> uptr, path |-> path, Pos |-> 0, args |-> args, NArg |-> narg,
     MCnt |-> mcnt, NPtr |-> NextFNS]

\* remember where we are in the file we are reading
Remembered == IF FromFile(Top) THEN <<[Top EXCEPT !.Pos = In.at]>> \o Tail(InF) ELSE InF

\* after a file was closed without another being opened
Restored(f, pos) == IF FromFile(f) THEN [fd |-> f.path, at |-> pos] ELSE NOFD

\* Heap2Space: names grow up from the bottom, frames down from the top
Fits(names) == NextFNS + names <= Heap2Size - SizeInF * (Len(InF) + 1)

Enter(frame, names) == /\ InF' = <<frame>> \o Remembered
                       /\ NextFNS' = NextFNS + names

-----------------------------------------------------------------------------
(* Names and the symbol table. *)

ArgIndex == [x \in {"\\1", "\\2"} |-> IF x = "\\1" THEN 1 ELSE 2]

\* variant: the number of the last macro called
ReplacedAnew(x) ==
    IF x[1] \in DOMAIN ArgIndex
    THEN IF ArgIndex[x[1]] <= Top.NArg THEN Top.args[ArgIndex[x[1]]] ELSE Empty
    ELSE IF x[1] \in Numbered /\ x[2] = -1 THEN <<x[1], MacCount % 1000>> ELSE x

Replaced(x) ==
    IF x[1] \in DOMAIN ArgIndex
    THEN IF ArgIndex[x[1]] <= Top.NArg THEN Top.args[ArgIndex[x[1]]] ELSE Empty
    ELSE IF x[1] \in Numbered /\ x[2] = -1 THEN <<x[1], Top.MCnt % 1000>> ELSE x

SubArgs(l) ==
    IF Top.NArg = -1 THEN l
    ELSE [l EXCEPT !.lab = Replaced(@), !.a = Replaced(@), !.b = Replaced(@)]

Key(x)      == <<x[1], x[2], IF x[1] \in Local THEN LabLine ELSE 0>>
MacroKey(x) == <<" " \o x[1], x[2], 0>>

Entry(val, set) == [Val |-> val, Defn |-> LineCount, set |-> set, text |-> 0]

\* a symbol's value and the line that defined it
Term(x) ==
    IF Key(x) \in DOMAIN sym THEN [v |-> sym[Key(x)].Val, d |-> sym[Key(x)].Defn, e |-> {}]
    ELSE IF x = Empty THEN [v |-> 0, d |-> 0, e |-> {}]
    ELSE IF x = <<"NARG", -1>> THEN [v |-> IF Top.NArg = -1 THEN 0 ELSE Top.NArg,
                                     d |-> NODEF, e |-> {}]
    ELSE [v |-> 0, d |-> NODEF, e |-> {"Undef"}]

Source == LET t == Term(Line.a) IN [t EXCEPT !.v = @ + Line.n]

-----------------------------------------------------------------------------
(* Errors, and the INCLUDE files that can be skipped in pass 2. *)

NoEntries == [Start |-> 0, Ptr |-> 0, Set1 |-> 0, Tab |-> <<>>, Fix |-> <<>>]
NoFix     == [Sym |-> <<>>, Val |-> 0]

\* variant: the entry about to be made is not counted
RoomAlready(entries, fixups) == SizeEnt * entries + SizeFix * (fixups - 1) <= INCSKSIZ

\* the two tables share one block and grow towards each other
Room(entries, fixups) == SizeEnt * entries + SizeFix * fixups <= INCSKSIZ

Dropped(k) ==
    IF k.Start = 0 THEN k
    ELSE [k EXCEPT !.Start = 0,
                   !.Fix = IF k.Set1 = 0 THEN @ ELSE SubSeq(@, 1, k.Set1 - 1)]

\* variant: a file with errors is skipped like any other
DespiteNothing(codes) == Incl

\* an error found in pass 1 is reported in pass 2, which must read its file again
Despite(codes) ==
    IF pass = 1 /\ codes \ {"NoIncl"} # {} THEN Dropped(Incl) ELSE Incl

Report(codes) ==
    LET now == {c \in codes : pass = 2 \/ c = "NoIncl"} IN
    /\ errors'  = errors \cup {<<LineCount, c>> : c \in now}
    /\ noticed' = noticed \cup {<<LineCount, c>> : c \in codes \ now}
    /\ InclErrs' = (InclErrs \/ "NoIncl" \in codes)

Error(codes) == Report(codes) /\ Incl' = Despite(codes)

\* the end of a skippable INCLUDE file, at nesting level ptr
Ended(k, depth) ==
    IF pass = 2 \/ k.Start = 0 \/ k.Ptr # depth THEN k
    ELSE [k EXCEPT !.Start = 0,
             !.Tab = Append(@, [Set1 |-> k.Set1, Start |-> k.Start, Finish |-> LineCount,
                                MCount |-> MacCount]),
             !.Fix = IF k.Set1 # 0 /\ Room(Len(k.Tab) + 1, Len(@) + 1)
                     THEN Append(@, NoFix) ELSE @]

-----------------------------------------------------------------------------
(* LineParts: the next statement. *)

CountNest(op) == IF op \in {"endc", "endif"} THEN -1 ELSE IF op \in Ifs THEN 1 ELSE 0

Eof == FromFile(Top) /\ In.at > Len(files[In.fd])
Stored == IF FromFile(Top) THEN files[In.fd][In.at] ELSE heap[Top.UPtr]
Next1 == IF Eof THEN NoLine ELSE SubArgs(Stored)

MacroExit ==
    /\ Top.NArg # -1 /\ Dir # "macro"
    /\ Next1.op = "endm" \/ (SkipNest = 0 /\ Next1.op = "mexit")

Leaving == Eof \/ MacroExit
MacroHeader == PrevDir = "maccall" /\ Next1.op = "macro"

Advance ==
    IF FromFile(Top) THEN In' = [In EXCEPT !.at = @ + 1] /\ UNCHANGED InF
    ELSE InF' = <<[Top EXCEPT !.UPtr = @ + 1]>> \o Tail(InF) /\ UNCHANGED In

AtHeader == LineCount = 0 /\ HeaderFN # ""
Waiting  == pc = "LineParts" /\ LineCount < MaxLines

\* GetLine never comes back from a file that is closed
Reading == Waiting /\ ~AtHeader /\ (FromFile(Top) => In.fd # <<>>)
Return == pc' = IF caller = "macro" THEN "MacroBody" ELSE "GetObjectCode"

HeaderStatement ==
    /\ Waiting /\ AtHeader
    /\ Line' = [NoLine EXCEPT !.op = "include", !.a = <<HeaderFN, -1>>]
    /\ LineCount' = 1 /\ Return
    /\ UNCHANGED <<input, endfile, LabLine, SkipNest>>

TakeStatement ==
    /\ Reading /\ ~Leaving /\ ~MacroHeader /\ SkipNest = 0
    /\ Advance /\ Line' = Next1 /\ LineCount' = LineCount + 1
    /\ LabLine' = IF Next1.lab # Empty /\ Next1.lab[1] \notin Local
                  THEN LineCount + 1 ELSE LabLine
    /\ Return
    /\ UNCHANGED <<NextFNS, endfile, SkipNest>>

PassOver ==
    /\ Reading /\ ~Leaving /\ (MacroHeader \/ SkipNest # 0)
    /\ Advance
    /\ SkipNest' = IF MacroHeader THEN SkipNest ELSE SkipNest + CountNest(Next1.op)
    /\ UNCHANGED <<NextFNS, Line, endfile, LineCount, LabLine, pc>>

EndOfInput ==
    LET missing == IF SkipNest # 0 THEN {"NoENDC"} ELSE {} IN
    /\ Reading /\ Leaving
    /\ Report(missing) /\ Incl' = Ended(Despite(missing), InFNum)
    /\ SkipNest' = 0

EndOfSource ==
    /\ EndOfInput /\ InFNum = 0
    /\ Line' = NoLine /\ endfile' = TRUE /\ LineCount' = LineCount + 1
    /\ Return
    /\ UNCHANGED <<input, LabLine>>

ReturnToOuter ==
    LET open  == IF FromFile(Top) THEN NOFD ELSE In
        outer == InF[2] IN
    /\ EndOfInput /\ InFNum > 0
    /\ InF' = Tail(InF) /\ NextFNS' = Top.NPtr
    /\ In' = IF open = NOFD THEN Restored(outer, outer.Pos) ELSE open
    /\ UNCHANGED <<Line, endfile, LineCount, LabLine, pc>>

LineParts ==
    /\ \/ /\ HeaderStatement \/ TakeStatement \/ PassOver
          /\ UNCHANGED <<Incl, reports>>
       \/ EndOfSource
       \/ ReturnToOuter
    /\ UNCHANGED <<files, SuppList, pass, caller, Dir, PrevDir, MacCount, nest, symbols,
                   SkipIdx, log, rewound>>

-----------------------------------------------------------------------------
(* GetObjectCode: macro calls and the directives about the source. *)

NoOutput == AddrAdv' = 0 /\ ObjSrc' = 0
Proceed == pc' = "Label" /\ UNCHANGED caller

\* an instruction, or a directive like DC
Code ==
    /\ Line.op = "code" /\ Dir' = "none" /\ Proceed
    /\ AddrAdv' = 1 /\ ObjSrc' = Source.v /\ Error(Source.e)
    /\ UNCHANGED <<input, SkipNest, sym, heap, MacCount, nest, SkipIdx, LineCount>>

NoOpcode ==
    /\ Line.op \in {"", "endc", "end"} /\ Proceed
    /\ Dir' = IF Line.op = "" THEN "none" ELSE Line.op
    /\ NoOutput
    /\ UNCHANGED <<input, SkipNest, sym, heap, MacCount, nest, skips, reports, LineCount>>

NeedLab == IF Line.lab = Empty THEN {"NeedLab"} ELSE {}

Equ ==
    /\ Line.op = "equ" /\ Dir' = "equ" /\ Proceed
    /\ ObjSrc' = Source.v /\ AddrAdv' = 0
    /\ Error(NeedLab \cup (IF Source.d = NODEF THEN {"Undef"} ELSE {}))
    /\ UNCHANGED <<input, SkipNest, sym, heap, MacCount, nest, SkipIdx, LineCount>>

\* the place in the fixups of a symbol SET before in the same INCLUDE file
SetBefore(k, key) == {j \in 1..Len(k.Fix) : k.Set1 # 0 /\ j >= k.Set1 /\ k.Fix[j].Sym = key}

Fixed(k, key, val) ==
    IF pass = 2 \/ k.Start = 0 THEN k
    ELSE IF SetBefore(k, key) # {}
    THEN [k EXCEPT !.Fix = [j \in DOMAIN @ |-> IF j \in SetBefore(k, key)
                                               THEN [Sym |-> key, Val |-> val] ELSE @[j]]]
    ELSE IF ~Room(Len(k.Tab) + 1, Len(k.Fix) + 1) THEN Dropped(k)
    ELSE [k EXCEPT !.Set1 = IF @ = 0 THEN Len(k.Fix) + 1 ELSE @,
                   !.Fix = Append(@, [Sym |-> key, Val |-> val])]

Set ==
    LET key   == Key(Line.lab)
        codes == NeedLab \cup Source.e \cup (IF Source.d >= LineCount THEN {"FwdRef"} ELSE {})
    IN
    /\ Line.op = "set" /\ Dir' = "set" /\ Proceed
    /\ ObjSrc' = Source.v /\ AddrAdv' = 0
    /\ sym' = IF key \notin DOMAIN sym \/ sym[key].set
              THEN (key :> Entry(Source.v, TRUE)) @@ sym ELSE sym
    /\ Report(codes) /\ Incl' = Fixed(Despite(codes), key, sym'[key].Val)
    /\ UNCHANGED <<input, SkipNest, heap, MacCount, nest, SkipIdx, LineCount>>

Skips ==
    LET v == Source.v
        d == IF Key(Line.a) \in DOMAIN sym THEN sym[Key(Line.a)].Defn ELSE NODEF
    IN
    CASE Line.op = "ifeq" -> v # 0
      [] Line.op = "ifne" -> v = 0
      [] Line.op = "ifgt" -> v <= 0
      [] Line.op = "ifge" -> v < 0
      [] Line.op = "iflt" -> v >= 0
      [] Line.op = "ifle" -> v > 0
      [] Line.op = "ifc"  -> Line.a # Line.b
      [] Line.op = "ifnc" -> Line.a = Line.b
      [] Line.op = "ifd"  -> d > LineCount
      [] Line.op = "ifnd" -> d <= LineCount

If ==
    /\ Line.op \in Ifs /\ Dir' = Line.op /\ Proceed
    /\ SkipNest' = IF Skips THEN SkipNest + 1 ELSE SkipNest
    /\ Error(IF Line.op \in {"ifc", "ifnc", "ifd", "ifnd"} THEN {} ELSE Source.e)
    /\ ObjSrc' = Source.v /\ AddrAdv' = 0
    /\ UNCHANGED <<input, sym, heap, MacCount, nest, SkipIdx, LineCount>>

-----------------------------------------------------------------------------
(* INCLUDE and INCBIN. *)

Skippable == pass = 2 /\ SkipIdx <= Len(Incl.Tab) /\ LineCount = Incl.Tab[SkipIdx].Start

\* variant: the null entry is not looked at
FixupsToTheEnd(e) == {j \in 1..Len(Incl.Fix) : e.Set1 # 0 /\ j >= e.Set1}

\* the fixups of a skipped file end at the null entry, or with the table
Fixups(e) == {j \in 1..Len(Incl.Fix) :
                 e.Set1 # 0 /\ j >= e.Set1 /\ \A i \in e.Set1..j : Incl.Fix[i] # NoFix}

SkipInclude ==
    LET e == Incl.Tab[SkipIdx] IN
    /\ Line.op = "include" /\ Skippable
    /\ Dir' = "include" /\ Proceed /\ NoOutput
    /\ LineCount' = e.Finish /\ MacCount' = e.MCount /\ SkipIdx' = SkipIdx + 1
    /\ sym' = [k \in DOMAIN sym |->
                 LET mine == {j \in Fixups(e) : Incl.Fix[j].Sym = k} IN
                 IF mine = {} THEN sym[k]
                 ELSE [sym[k] EXCEPT !.Val = Incl.Fix[CHOOSE j \in mine : \A i \in mine : i <= j].Val]]
    /\ UNCHANGED <<input, SkipNest, heap, nest, Incl, reports>>

Included == Line.op \in {"include", "incbin"} /\ ~(Line.op = "include" /\ Skippable)

NoInclude ==
    /\ Included /\ ~Found(Line.a[1]) /\ Dir' = Line.op /\ Proceed /\ NoOutput
    /\ InF' = Remembered /\ In' = Restored(Top, In.at)
    /\ Error({"NoIncl"})
    /\ UNCHANGED <<NextFNS, SkipNest, sym, heap, MacCount, nest, SkipIdx, LineCount>>

Incbin ==
    /\ Included /\ Line.op = "incbin" /\ Found(Line.a[1]) /\ Dir' = "incbin" /\ Proceed
    /\ ObjSrc' = 0 /\ AddrAdv' = Len(files[Head(Paths(Line.a[1]))])
    /\ InF' = Remembered /\ In' = Restored(Top, In.at)
    /\ UNCHANGED <<NextFNS, SkipNest, sym, heap, MacCount, nest, skips, reports, LineCount>>

Starting == pass = 1 /\ SuppList /\ Incl.Start = 0
            /\ Room(Len(Incl.Tab) + 1, Len(Incl.Fix))

Include ==
    LET file == Opened(Line.a[1]) IN
    /\ Included /\ Line.op = "include" /\ Found(Line.a[1]) /\ Fits(1)
    /\ Dir' = "include" /\ Proceed /\ NoOutput
    /\ Enter(Frame(0, file.fd, <<>>, -1, MacCount), 1) /\ In' = file
    /\ Incl' = IF Starting THEN [Incl EXCEPT !.Start = LineCount, !.Ptr = InFNum + 1, !.Set1 = 0]
               ELSE Incl
    /\ UNCHANGED <<SkipNest, sym, heap, MacCount, nest, SkipIdx, reports, LineCount>>

-----------------------------------------------------------------------------
(* Macros. *)

\* MACRO: the name, and the text up to ENDM
Macro ==
    LET key == MacroKey(Line.lab)
        new == IF key \in DOMAIN sym THEN sym[key] ELSE Entry(0, FALSE)
    IN
    /\ Line.op = "macro" /\ Dir' = "macro" /\ NoOutput
    /\ Error(NeedLab \cup (IF pass = 2 /\ sym[key].Defn # LineCount THEN {"DupMac"} ELSE {}))
    /\ IF pass = 1
       THEN /\ sym' = (key :> [new EXCEPT !.text = Len(heap) + 1]) @@ sym
            /\ heap' = Append(heap, Line)
       ELSE UNCHANGED <<sym, heap>>
    /\ nest' = 0 /\ caller' = "macro" /\ pc' = "LineParts"
    /\ UNCHANGED <<input, SkipNest, MacCount, SkipIdx, LineCount>>

MacroBody ==
    LET open  == nest + CountNest(Line.op)
        last  == ~endfile /\ Line.op = "endm"
        codes == IF endfile THEN {"NoENDM"}
                 ELSE (IF open < 0 THEN {"ManyENDC"} ELSE {})
                        \cup (IF last /\ open > 0 THEN {"NoENDC"} ELSE {})
    IN
    /\ pc = "MacroBody"
    /\ nest' = IF open < 0 THEN 0 ELSE open
    /\ heap' = IF pass = 1 /\ ~endfile THEN Append(heap, Line) ELSE heap
    /\ Error(codes)
    /\ IF endfile \/ last THEN pc' = "Label" /\ caller' = "main" /\ endfile' = FALSE
       ELSE pc' = "LineParts" /\ UNCHANGED <<caller, endfile>>
    /\ UNCHANGED <<files, SuppList, input, Line, LineCount, LabLine, SkipNest, pass, Dir, PrevDir,
                   MacCount, sym, ObjSrc, AddrCnt, AddrAdv, SkipIdx, log, rewound>>

Calling == Line.op \notin Known
Called  == MacroKey(<<Line.op, -1>>)
Defined == Called \in DOMAIN sym /\ sym[Called].Defn < LineCount

\* GetArgs
Arguments == IF Line.b # Empty THEN <<Line.a, Line.b>>
             ELSE IF Line.a # Empty THEN <<Line.a>> ELSE <<>>
Names == 1 + Len(Arguments)

CallMacro ==
    /\ Calling /\ Defined /\ Fits(Names) /\ Dir' = "maccall" /\ Proceed /\ NoOutput
    /\ MacCount' = MacCount + 1
    /\ Enter(Frame(sym[Called].text + 1, <<>>, Arguments, Len(Arguments), MacCount + 1), Names)
    /\ UNCHANGED <<In, SkipNest, sym, heap, nest, skips, reports, LineCount>>

CallFile ==
    LET file == Opened(Line.op) IN
    /\ Calling /\ ~Defined /\ Found(Line.op) /\ Fits(Names)
    /\ Dir' = "maccall" /\ Proceed /\ NoOutput
    /\ MacCount' = MacCount + 1
    /\ Enter(Frame(0, file.fd, Arguments, Len(Arguments), MacCount), Names) /\ In' = file
    /\ UNCHANGED <<SkipNest, sym, heap, nest, skips, reports, LineCount>>

NoCode ==
    /\ Calling /\ ~Defined /\ ~Found(Line.op) /\ Dir' = "badmac" /\ Proceed /\ NoOutput
    /\ InF' = Remembered /\ In' = Restored(Top, In.at)
    /\ Error({"NoCode"})
    /\ UNCHANGED <<NextFNS, SkipNest, sym, heap, MacCount, nest, SkipIdx, LineCount>>

\* "Secondary heap overflow - assembly terminated"
HeapOverflow ==
    /\ \/ Included /\ Line.op = "include" /\ Found(Line.a[1]) /\ ~Fits(1)
       \/ Calling /\ (Defined \/ Found(Line.op)) /\ ~Fits(Names)
    /\ pc' = "aborted"
    /\ UNCHANGED <<input, SkipNest, sym, heap, MacCount, nest, skips, reports, LineCount,
                   Dir, caller, ObjSrc, AddrAdv>>

\* what pass 1 and pass 2 must agree on; a symbol defined further down is not known yet
Statement ==
    [line |-> Line, addr |-> AddrCnt, mac |-> MacCount,
     v |-> IF Source.d < LineCount \/ Source.d = NODEF THEN Source.v ELSE 0]

GetObjectCode ==
    /\ pc = "GetObjectCode"
    /\ log' = IF pass = 1 THEN (LineCount :> Statement) @@ log ELSE log
    /\ \/ Code \/ NoOpcode \/ Equ \/ Set \/ If
       \/ SkipInclude \/ NoInclude \/ Incbin \/ Include
       \/ Macro \/ CallMacro \/ CallFile \/ NoCode \/ HeapOverflow
    /\ UNCHANGED <<files, SuppList, pass, Line, endfile, LabLine, PrevDir, AddrCnt, rewound>>

-----------------------------------------------------------------------------
(* The passes. *)

\* the frame of a pass is the main file's; what is rewound is the file that is
\* open, which is another one after an END in an INCLUDE file or a macro file
Rewind == In' = [In EXCEPT !.at = 1]

StartPass(p) ==
    /\ pass' = p /\ pc' = "LineParts" /\ caller' = "main"
    /\ InF' = <<[UPtr |-> 0, path |-> <<"", "main">>, Pos |-> 0, args |-> <<>>, NArg |-> -1,
                 MCnt |-> 0, NPtr |-> 0]>>
    /\ NextFNS' = 1 /\ Rewind
    /\ Line' = NoLine /\ endfile' = FALSE /\ LineCount' = 0 /\ LabLine' = 0 /\ SkipNest' = 0
    /\ MacCount' = 0 /\ Dir' = "none" /\ PrevDir' = "none" /\ nest' = 0
    /\ ObjSrc' = 0 /\ AddrCnt' = 0 /\ AddrAdv' = 0

\* directives and instructions whose INCLUDE file must be read in pass 2
NotSkipped == Line.op # "" /\ Dir \in {"none", "end", "badmac", "incbin"}

Labelled == Line.lab # Empty /\ Dir # "set"

\* pass 1: a duplicate is ignored, but an equate keeps its last value
Labels ==
    LET key   == Key(Line.lab)
        known == IF key \in DOMAIN sym THEN sym ELSE (key :> Entry(AddrCnt, FALSE)) @@ sym
    IN  IF ~Labelled THEN sym
        ELSE IF Dir = "equ" THEN [known EXCEPT ![key].Val = ObjSrc] ELSE known

\* variant: only END ends the pass
EndPass1AtEnd == Dir = "end"

EndPass1 == endfile \/ Dir = "end"

Label1 ==
    /\ pass = 1 /\ pc = "Label"
    /\ Incl' = IF NotSkipped THEN Dropped(Incl) ELSE Incl
    /\ sym' = Labels
    /\ UNCHANGED <<files, SuppList, heap, SkipIdx, reports, log>>
    /\ \/ /\ ~EndPass1
          /\ pc' = "LineParts" /\ PrevDir' = Dir /\ AddrCnt' = AddrCnt + AddrAdv
          /\ UNCHANGED <<input, parts, pass, caller, Dir, MacCount, nest, ObjSrc, AddrAdv, rewound>>
       \/ /\ EndPass1 /\ ~InclErrs
          /\ StartPass(2) /\ rewound' = In.fd
       \/ /\ EndPass1 /\ InclErrs
          /\ pc' = "aborted"
          /\ UNCHANGED <<input, parts, pass, caller, Dir, PrevDir, MacCount, nest, ObjSrc,
                         AddrCnt, AddrAdv, rewound>>

\* pass 2: a label that is not in the table is used all the same
LabelErrors ==
    LET s == sym[Key(Line.lab)] IN
    IF Line.lab = Empty THEN {}
    ELSE IF s.Defn # LineCount THEN IF Dir = "set" /\ s.set THEN {} ELSE {"SymDup"}
    ELSE IF Dir \notin {"set", "equ"} /\ s.Val # AddrCnt THEN {"Phase"} ELSE {}

Lost == Line.lab # Empty /\ Key(Line.lab) \notin DOMAIN sym

Label2 ==
    /\ pass = 2 /\ pc = "Label"
    /\ AddrCnt' = AddrCnt + AddrAdv /\ PrevDir' = Dir
    /\ IF Lost THEN pc' = "crashed" /\ UNCHANGED <<Incl, reports>>
       ELSE /\ Error(LabelErrors)
            /\ pc' = IF Dir = "end" THEN "done" ELSE "LineParts"
    /\ UNCHANGED <<files, SuppList, input, parts, pass, caller, Dir, MacCount, nest, sym, heap,
                   ObjSrc, AddrAdv, SkipIdx, log, rewound>>

\* pass 2 at the end of the source
NoEnd ==
    /\ pass = 2 /\ pc = "GetObjectCode" /\ endfile
    /\ Error({"EndErr"}) /\ pc' = "done"
    /\ UNCHANGED <<files, SuppList, input, parts, pass, caller, Dir, PrevDir, MacCount, nest,
                   symbols, SkipIdx, log, rewound>>

Init ==
    /\ files \in Programs /\ SuppList \in BOOLEAN
    /\ pass = 1 /\ pc = "LineParts" /\ caller = "main"
    /\ InF = <<[UPtr |-> 0, path |-> <<"", "main">>, Pos |-> 0, args |-> <<>>, NArg |-> -1,
                MCnt |-> 0, NPtr |-> 0]>>
    /\ NextFNS = 1 /\ In = [fd |-> <<"", "main">>, at |-> 1]
    /\ Line = NoLine /\ endfile = FALSE /\ LineCount = 0 /\ LabLine = 0 /\ SkipNest = 0
    /\ MacCount = 0 /\ Dir = "none" /\ PrevDir = "none" /\ nest = 0
    /\ sym = <<>> /\ heap = <<>> /\ ObjSrc = 0 /\ AddrCnt = 0 /\ AddrAdv = 0
    /\ Incl = NoEntries /\ SkipIdx = 1
    /\ errors = {} /\ InclErrs = FALSE /\ noticed = {} /\ log = <<>>
    /\ rewound = <<>>

Next == \/ LineParts
        \/ GetObjectCode /\ ~(pass = 2 /\ endfile)
        \/ MacroBody \/ Label1 \/ Label2 \/ NoEnd

Spec == Init /\ [][Next]_vars /\ WF_vars(Next)

-----------------------------------------------------------------------------
(* Space. *)

\* The names and the frames of the open inputs stay apart on the secondary
\* heap (Heap2Space), also when an input is left and gives back its names.
HeapApart == NextFNS <= Heap2Size - SizeInF * Len(InF)

\* The table of skippable INCLUDE files and that of their fixups stay apart in
\* the block of INCSKSIZ bytes they share, with room for the entry of the file
\* that is being read (the comparisons of SkipLim with SetFixLim).
TablesApart ==
    LET entries == Len(Incl.Tab) + (IF Incl.Start = 0 THEN 0 ELSE 1)
    IN  SizeEnt * entries + SizeFix * Len(Incl.Fix) <= INCSKSIZ
=============================================================================
