----------------------------- MODULE A68kLink -----------------------------
(***************************************************************************)
(* From source to linked program: the assembler (A68kPasses), the linker's *)
(* reader of its object files (bin/flinkerA68k.cc) and the resolution of   *)
(* references (bin/flinkerObj.cc).  The assembler's output is the first    *)
(* object file; others, from anywhere, may follow it.                      *)
(*                                                                         *)
(* An object file is a sequence of hunks.  Lengths and names are not       *)
(* spelled out: a hunk is read as a whole.                                 *)
(***************************************************************************)
EXTENDS A68kPasses

CONSTANTS
    Jobs,          \* sources with the object files linked to them
    ImportNames    \* names of library symbols (library@number)

VARIABLES
    others,        \* the other object files
    stage,         \* what the linker is doing
    unit, pos,     \* the file being read and how many of its hunks were
    first, in_section, error,
    Sections, XDefs,
    fixups         \* what ResolveReloc adds to each operand

reader == <<others, stage, unit, pos, first, in_section, error, Sections, XDefs, fixups>>

LinkInit ==
    /\ \E j \in Jobs : source = j.source /\ others = j.others
    /\ Init
    /\ stage = "waiting" /\ unit = 1 /\ pos = 0
    /\ first = TRUE /\ in_section = FALSE /\ error = FALSE
    /\ Sections = << >> /\ XDefs = {} /\ fixups = {}

-----------------------------------------------------------------------------
(* ReadA68k. *)

Files == <<file>> \o others
Hunk  == Files[unit][pos + 1]

InSectionOnly == {"code", "data", "bss", "reloc", "ext", "symbol", "debug"}
Misplaced ==
    \/ first /\ Hunk.t # "unit"
    \/ ~first /\ Hunk.t = "unit"
    \/ ~in_section /\ Hunk.t \in InSectionOnly \cup {"end"}
    \/ Hunk.t \in {"code", "data", "bss"} /\ Sections[Len(Sections)].type # "none"
    \/ Hunk.t \in {"debug", "other"}

Reading(t) == stage = "reading" /\ pos < Len(Files[unit]) /\ Hunk.t \in t /\ ~Misplaced

Skip == pos' = pos + 1 /\ UNCHANGED <<vars, others, stage, unit, fixups>>

Last == Len(Sections)

\* a source with errors leaves no object file
OpenFirst ==
    /\ pc = "assembled" /\ stage = "waiting"
    /\ stage' = IF file = << >> THEN "failed" ELSE "reading"
    /\ UNCHANGED <<vars, others, unit, pos, first, in_section, error, Sections, XDefs, fixups>>

\* a hunk out of place, or of an unknown kind, ends the link
ReadMisplaced ==
    /\ stage = "reading" /\ pos < Len(Files[unit]) /\ Misplaced
    /\ stage' = "failed"
    /\ UNCHANGED <<vars, others, unit, pos, first, in_section, error, Sections, XDefs, fixups>>

ReadUnit ==
    /\ Reading({"unit"})
    /\ first' = FALSE
    /\ Skip /\ UNCHANGED <<in_section, error, Sections, XDefs>>

ReadName ==
    /\ Reading({"name"})
    /\ in_section' = TRUE
    /\ Sections' = Append(Sections, [unit |-> unit, line |-> Hunk.line, type |-> "none", size |-> 0,
                                     data |-> << >>, RelTabs |-> {}, XRefs |-> {}])
    /\ Skip /\ UNCHANGED <<first, error, XDefs>>

ReadData ==
    /\ Reading({"code", "data", "bss"})
    /\ Sections' = [Sections EXCEPT ![Last].type = Hunk.t, ![Last].size = Hunk.size,
                                    ![Last].data = Hunk.data]
    /\ Skip /\ UNCHANGED <<first, in_section, error, XDefs>>

ReadReloc ==
    /\ Reading({"reloc"})
    /\ Sections' = [Sections EXCEPT ![Last].RelTabs = @ \cup
          {[type |-> IF Hunk.size = 4 THEN "relref32" ELSE "absref16",
            SectionNum |-> g.hunk, offs |-> g.offs] : g \in Hunk.groups}]
    /\ Skip /\ UNCHANGED <<first, in_section, error, XDefs>>

\* references; a definition with the name of an earlier one is an error
RefType(r) == CASE r.size = 4 -> "relref32"
                [] r.size = 2 -> IF r.pc THEN "relref16" ELSE "absref16"
                [] OTHER -> "absref8"

Defines(d) == [name |-> d.name, abs |-> d.abs, sect |-> Last, off |-> d.off]

\* variant: the names defined already are not looked up
RedefinedNever(defs) == {d \in defs : FALSE}

Redefined(defs) ==
    {d \in defs : \/ \E x \in XDefs : x.name = d.name
                 \/ \E e \in defs \ {d} : e.name = d.name}

ReadExt ==
    /\ Reading({"ext"})
    /\ Sections' = [Sections EXCEPT ![Last].XRefs = @ \cup
          {[type |-> RefType(r), name |-> r.name, offs |-> r.offs] : r \in Hunk.refs}]
    /\ LET old == Redefined(Hunk.defs) IN
       /\ XDefs' = XDefs \cup {Defines(d) : d \in Hunk.defs \ old}
       /\ error' = (error \/ old # {} \/ \E r \in Hunk.refs : r.size = 1 /\ r.pc)
    /\ Skip /\ UNCHANGED <<first, in_section>>

\* symbols for a debugger (switch -d) are skipped
ReadSymbol ==
    /\ Reading({"symbol"})
    /\ Skip /\ UNCHANGED <<first, in_section, error, Sections, XDefs>>

ReadEnd ==
    /\ Reading({"end"})
    /\ in_section' = FALSE
    /\ Skip /\ UNCHANGED <<first, error, Sections, XDefs>>

EndOfFile ==
    /\ stage = "reading" /\ pos = Len(Files[unit])
    /\ IF error THEN stage' = "failed" /\ UNCHANGED <<unit, pos, first, in_section>>
       ELSE IF unit < Len(Files)
       THEN /\ unit' = unit + 1 /\ pos' = 0 /\ first' = TRUE /\ in_section' = FALSE
            /\ UNCHANGED stage
       ELSE stage' = "resolving" /\ UNCHANGED <<unit, pos, first, in_section>>
    /\ UNCHANGED <<vars, others, error, Sections, XDefs, fixups>>

-----------------------------------------------------------------------------
(* ResolveReloc. *)

\* the sections of section i's file, counted as they appear in it
InUnit(i)   == {j \in DOMAIN Sections : Sections[j].unit = Sections[i].unit}
Ordinal(j)  == Cardinality({k \in InUnit(j) : k < j})
Numbered(i, num) == {j \in InUnit(i) : Ordinal(j) = num}

ValueAt(i, off) ==
    LET here == {k \in DOMAIN Sections[i].data : Sections[i].data[k].at = off}
    IN  IF here = {} THEN 0 ELSE Sections[i].data[CHOOSE k \in here : TRUE].v

\* a table that names no section of its file reads past the array
RelFixups(i) ==
    UNION {{[sect |-> i, off |-> o, to |-> j, name |-> NoName, add |-> 0] :
              o \in r.offs, j \in IF Numbered(i, r.SectionNum) = {} THEN {0}
                                  ELSE Numbered(i, r.SectionNum)} : r \in Sections[i].RelTabs}

Definition(name) == {d \in XDefs : d.name = name}

XRefFixups(i) ==
    UNION {{[sect |-> i, off |-> o, to |-> IF Definition(x.name) = {} THEN 0 ELSE d.sect,
             name |-> x.name, add |-> IF Definition(x.name) = {} THEN 0 ELSE d.off] :
              o \in x.offs,
              d \in IF Definition(x.name) = {} THEN {[sect |-> 0, off |-> 0]}
                    ELSE Definition(x.name)} : x \in Sections[i].XRefs}

AllFixups == UNION {RelFixups(i) \cup XRefFixups(i) : i \in DOMAIN Sections}

\* references of any size but 32 bits, and to names nobody defines, are refused
IllegalRefs ==
    \E i \in DOMAIN Sections :
        \/ \E r \in Sections[i].RelTabs : r.type # "relref32"
        \/ \E x \in Sections[i].XRefs :
              x.type # "relref32" \/ (Definition(x.name) = {} /\ x.name \notin ImportNames)

\* so is an operand to which an address cannot be added in 32 bits: one below
\* zero, as addresses are past a header longer than the offsets here
OutOfRange(fs) == \E f \in fs : ValueAt(f.sect, f.off) < 0

ResolveReloc ==
    /\ stage = "resolving"
    /\ fixups' = AllFixups
    /\ stage' = IF IllegalRefs \/ OutOfRange(AllFixups) THEN "failed" ELSE "linked"
    /\ UNCHANGED <<vars, others, unit, pos, first, in_section, error, Sections, XDefs>>

Link ==
    \/ OpenFirst \/ ReadMisplaced
    \/ ReadUnit \/ ReadName \/ ReadData \/ ReadReloc \/ ReadExt \/ ReadSymbol \/ ReadEnd
    \/ EndOfFile \/ ResolveReloc

Finished == stage \in {"linked", "failed"} /\ UNCHANGED <<vars, reader>>

Next == (Assemble /\ UNCHANGED reader) \/ Link \/ Finished

Spec == LinkInit /\ [][Next]_<<vars, reader>>

-----------------------------------------------------------------------------
(* What the source says. *)

Defining(x) == {k \in DOMAIN source : source[k].label = x}
FirstLine(x) == CHOOSE k \in Defining(x) : \A j \in Defining(x) : k <= j

Absolute(v) == [k |-> "abs", in |-> 0, v |-> v]

\* where a label is, or that a name is external
LabelMeans(x) ==
    IF x = NoName THEN Absolute(0)
    ELSE IF Defining(x) = {} THEN [k |-> "ext", in |-> x, v |-> 0]
    ELSE [k |-> "rel", in |-> placed[x].sect, v |-> placed[x].off]

Difference(p, m, n) ==
    IF m.k = "rel" /\ p.k = "rel" /\ m.in = p.in THEN Absolute(p.v - m.v + n)
    ELSE [p EXCEPT !.v = @ - m.v + n]

\* an equate means its operand
Means(x) ==
    IF x # NoName /\ Defining(x) # {} /\ source[FirstLine(x)].op = "equ"
    THEN LET e == source[FirstLine(x)]
         IN  Difference(LabelMeans(e.arg), LabelMeans(e.sub), e.n)
    ELSE LabelMeans(x)

Meaning(s) == Difference(Means(s.arg), Means(s.sub), s.n)

\* the linker's section that holds a section of the source
IsSection(j, in) == Sections[j].unit = 1 /\ Sections[j].line = in

\* a longword of section i: the fixup it gets points where the source says
LongRight(i, p, want) ==
    LET fs == {f \in fixups : f.sect = i /\ f.off = p.at} IN
    CASE want.k = "abs" -> fs = {} /\ p.v = want.v
      [] want.k = "rel" -> \E f \in fs : /\ fs = {f} /\ f.to # 0
                                        /\ IsSection(f.to, want.in) /\ f.add + p.v = want.v
      [] want.k = "ext" -> \E f \in fs : fs = {f} /\ f.name = want.in /\ p.v = want.v

\* a displacement counts from the word after the operation
DisplacementRight(i, p, want) ==
    LET base == IF p.kind = "short" THEN p.at + 2 ELSE p.at
    IN  want.k = "rel" /\ IsSection(i, want.in) /\ base + p.v = want.v

OperandRight(i, p) ==
    LET want == Meaning(source[p.line]) IN
    CASE p.kind = "long" -> LongRight(i, p, want)
      [] p.kind \in {"short", "disp"} -> DisplacementRight(i, p, want)
      [] p.kind = "absw" -> want = Absolute(p.v)
      [] OTHER -> TRUE

-----------------------------------------------------------------------------
(* Properties. *)

TypeOK ==
    /\ pass \in 1..2 /\ LineCount \in 1..Len(source)
    /\ pc \in {"code", "label", "scan", "endpass", "assembled"}
    /\ AddrCnt \in Nat /\ AddrAdv \in Nat
    /\ CurrHunk \in 0..HunkSeq /\ HunkSeq \in 0..Len(hunks)
    /\ FwdBranchFix \in Seq(Names)
    /\ \A k \in DOMAIN FwdBranch : FwdBranch[k].sym \in Names /\ (pass = 1 => FwdBranch[k].Loc \in 0..AddrCnt)
    /\ FwdTable \subseteq DOMAIN source
    /\ stage \in {"waiting", "reading", "resolving", "linked", "failed"}
    /\ unit \in 1..(Len(others) + 1)

\* In a linked program every operand of the source has the value the source
\* gives it: a branch, near or far, reaches its label whatever was shortened
\* between them, a longword is relocated to the section that holds its label,
\* and a name that nobody defines is imported (A68kmain.c:489-534,
\* A68kmisc.c:635-740, flinkerObj.cc:120-181).
ReferencesResolve ==
    stage = "linked" =>
        \A i \in DOMAIN Sections : Sections[i].unit = 1 =>
            \A k \in DOMAIN Sections[i].data : OperandRight(i, Sections[i].data[k])

\* Pass 2 finds every label where pass 1 left it, and never has to refuse a
\* branch that pass 1 itself made short (A68kmain.c:498-534, 637-653,
\* Codegen.c:288-331): what a branch saves is taken from every label after it.
PassesAgree ==
    \A e \in errors : e[2] # "Phase" /\ (e[1] \in FwdTable => e[2] \notin {"BccSDsp0", "BraErr"})

\* In a linked program a reference by name goes to the only definition of the
\* name in any object file, or nobody defines it and it is imported: files
\* that define a name twice are not linked (flinkerA68k.cc:272-282,
\* flinkerObj.cc:140-151).
NamesResolveOnce ==
    stage = "linked" =>
        \A f \in fixups : f.name # NoName =>
            \/ Definition(f.name) = {} /\ f.name \in ImportNames
            \/ \E d \in XDefs : /\ Definition(f.name) = {d}
                              /\ f.to = d.sect /\ f.add = d.off

Exports(x) == \E k \in DOMAIN source : source[k].op \in {"xdef", "public"} /\ source[k].arg = x

\* A symbol the source exports and defines reaches the linker from the
\* section and at the offset of its definition (A68kmisc.c:767-788,
\* flinkerA68k.cc:255-287).
DefinitionsExported ==
    stage = "linked" =>
        \A x \in Names : Exports(x) /\ Defining(x) # {} =>
            \E d \in XDefs :
                /\ d.name = x
                /\ LET want == Means(x) IN
                   /\ d.off = want.v /\ d.abs = (want.k = "abs")
                   /\ IsSection(d.sect, IF d.abs THEN Sections[d.sect].line ELSE want.in)
=============================================================================
