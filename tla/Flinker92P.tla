----------------------------- MODULE Flinker92P -----------------------------
(***************************************************************************)
(* How flinker makes one Fargo II file out of object files, and what       *)
(* becomes of it in memory: sections are placed (Output92P::Write),        *)
(* references resolved (ObjectGroup::ResolveReloc with the fixups of       *)
(* Reloc92P and Import92P), the import table written (Import92P::Dump);    *)
(* the kernel then relocates the file, its bss references and its imports  *)
(* (do_all_reloc and do_imports, asm/kernel/kernel.asm).                   *)
(*                                                                         *)
(* A relocation table is the set of its addresses here: its bytes are      *)
(* RelocTable's.  Exports, comments and file headers are left out.  Where  *)
(* the tables of a file begin depends on lengths that are left out too: it *)
(* is chosen when the file is written.                                     *)
(***************************************************************************)
EXTENDS Integers, Sequences, SequencesExt

CONSTANTS
    Files,       \* what the object files say, see FilesAssumption
    Names,       \* symbols; lib # NoLib for those of the form lib@sym
    NoLib,
    TIOS,        \* the pseudolibrary whose exports are addresses (abs_import)
    ProgramAt,   \* where the kernel has put the file,
    BssAt,       \* its bss block
    ExportAt,    \* and what the libraries export
    TablePlaces, \* offsets at which the tables of a file may begin
    LongMod      \* 2^32

HEADER == 26          \* bytes before the first section
LIMIT  == 65536       \* 0x10000
SWORD  == 32767       \* a signed word

SectionTypes == {"code", "bss", "tibasic"}   \* data sections are as code
Longs        == 0..(LongMod - 1)

VARIABLES
    file,
    pc,
    next,         \* the section, or the reference, the linker is at
    SymbolSize,
    BSS_Size,
    Info,         \* the address of each section placed so far
    operand,      \* the longwords that hold references, by section and offset
    Reloc,
    RelocBSS,
    Imports,      \* the list of Import nodes
    ImportLibs,   \* the names of the libraries, by number
    Error,
    table,        \* the import table
    LastSymNum,
    pointer,      \* what the file says of each table the kernel reads: its offset
    LibNum,       \* the library Dump, or do_imports, is at
    a2,           \* the entries of the table do_imports has read
    d5            \* the symbol number do_imports has counted to

placed   == <<SymbolSize, BSS_Size, Info>>
resolved == <<Reloc, RelocBSS, Imports, ImportLibs, Error>>
dumped   == <<table, LastSymNum, pointer>>
read     == <<a2, d5>>
vars     == <<file, pc, next, SymbolSize, BSS_Size, Info, operand, Reloc, RelocBSS,
              Imports, ImportLibs, Error, table, LastSymNum, pointer, LibNum, a2, d5>>

-----------------------------------------------------------------------------
Operands(f) == UNION {{f.refs[i].section} \X f.refs[i].offsets : i \in DOMAIN f.refs}

Ref(f, x) == CHOOSE r \in ToSet(f.refs) : r.section = x[1] /\ x[2] \in r.offsets

\* defs maps symbols to [section, offset]; refs are in the order ResolveReloc
\* meets them, kind telling an XRef, of a name, from a RelTab entry, to a section
Section   == [type : SectionTypes, size : Nat]
Reference == [section : Nat, offsets : SUBSET Nat, kind : {"xref", "reltab"},
              name : Names, to : Nat, type : {"relref32", "other"}, addend : Longs]

FileAssumption(f) ==
    /\ f.sections \in Seq(Section)
    /\ f.refs \in Seq(Reference)
    /\ DOMAIN f.defs \subseteq Names
    /\ \A n \in DOMAIN f.defs :
          f.defs[n].section \in DOMAIN f.sections /\ f.defs[n].offset \in Nat
    /\ \A r \in ToSet(f.refs) :
         /\ r.section \in DOMAIN f.sections
         /\ r.kind = "reltab" => r.to \in DOMAIN f.sections

\* operands lie in their sections, at even offsets, do not overlap, and hold
\* one reference each
OperandAssumption(f) ==
    /\ \A x \in Operands(f) :
          /\ x[2] % 2 = 0 /\ x[2] + 4 <= 4 * f.sections[x[1]].size
          /\ \A y \in Operands(f) : x[1] = y[1] /\ x[2] < y[2] => x[2] + 4 <= y[2]
    /\ \A i, j \in DOMAIN f.refs :
          i # j /\ f.refs[i].section = f.refs[j].section =>
              f.refs[i].offsets \cap f.refs[j].offsets = {}

ASSUME FilesAssumption    == \A f \in Files : FileAssumption(f)
ASSUME OperandsAssumption == \A f \in Files : OperandAssumption(f)

\* the kernel scales symbol numbers in signed words
MAXSYM == 8190
ASSUME NamesAssumption ==
    \A n \in Names :
        /\ n = [lib |-> n.lib, sym |-> n.sym]
        /\ n.lib # NoLib => n.sym \in 0..MAXSYM /\ ExportAt[n] \in Longs
ASSUME PlacesAssumption == {ProgramAt, BssAt} \subseteq Longs /\ LongMod \in Nat
ASSUME TablePlacesAssumption == TablePlaces \subseteq Nat

Tables == {"bss", "reloc", "import"}

Init ==
    /\ file \in Files
    /\ pc = "place" /\ next = 1
    /\ SymbolSize = HEADER /\ BSS_Size = 0 /\ Info = <<>>
    /\ operand = [x \in Operands(file) |-> Ref(file, x).addend]
    /\ Reloc = {} /\ RelocBSS = {}
    /\ Imports = <<>> /\ ImportLibs = <<>>
    /\ Error = FALSE
    /\ table = <<>> /\ LastSymNum = -1 /\ LibNum = 1
    /\ pointer = [t \in Tables |-> 0]
    /\ a2 = 0 /\ d5 = 0

-----------------------------------------------------------------------------
(* Output92P::Write, pass 1 *)

Type(i) == file.sections[i].type
Size(i) == 4 * file.sections[i].size

Place ==
    /\ pc = "place"
    /\ next \in DOMAIN file.sections
    /\ Type(next) = "tibasic" => \A i \in 1..(next - 1) : Type(i) # "tibasic"
    /\ Info' = Append(Info, CASE Type(next) = "tibasic" -> 0
                              [] Type(next) = "bss"     -> BSS_Size
                              [] Type(next) = "code"    -> SymbolSize)
    /\ BSS_Size'   = BSS_Size   + IF Type(next) = "bss"  THEN Size(next) ELSE 0
    /\ SymbolSize' = SymbolSize + IF Type(next) = "code" THEN Size(next) ELSE 0
    /\ next' = next + 1
    /\ UNCHANGED <<file, pc, operand, resolved, dumped, LibNum, read>>

Fails ==
    /\ pc' = "failed"
    /\ UNCHANGED <<file, next, placed, operand, resolved, dumped, LibNum, read>>

DuplicateTibasic ==
    /\ pc = "place"
    /\ next \in DOMAIN file.sections
    /\ Type(next) = "tibasic" /\ \E i \in 1..(next - 1) : Type(i) = "tibasic"
    /\ Fails

Placed == pc = "place" /\ next > Len(file.sections)

BssTooLarge == Placed /\ BSS_Size > LIMIT /\ Fails

AllPlaced ==
    /\ Placed
    /\ BSS_Size <= LIMIT
    /\ pc' = "resolve" /\ next' = 1
    /\ UNCHANGED <<file, placed, operand, resolved, dumped, LibNum, read>>

-----------------------------------------------------------------------------
(* ObjectGroup::ResolveReloc *)

TheRef      == file.refs[next]
Resolving   == pc = "resolve" /\ next \in DOMAIN file.refs
Address(x)  == Info[x[1]] + x[2]
RefAddresses == {Info[TheRef.section] + o : o \in TheRef.offsets}

\* CanReference
CanReference(s, t) == Type(s) = "code" /\ Type(t) \in {"code", "bss"}

\* DoFixups with a Fixup92P for the given address: the first operand that is
\* out of range stops the others from being fixed up
OutOfRange(address) == \E o \in TheRef.offsets :
                           LongMod - 1 - operand[<<TheRef.section, o>>] < address

FixesUp(address) ==
    operand' = [x \in DOMAIN operand |->
                   IF x[1] = TheRef.section /\ x[2] \in TheRef.offsets
                   THEN (operand[x] + address) % LongMod ELSE operand[x]]

RefFails ==
    /\ Error' = (Error \/ TheRef.offsets # {})
    /\ UNCHANGED <<operand, Reloc, RelocBSS>>

\* Reloc92P::Func and the fixup it makes
\* variant: bss references are not told apart
ResolvesToFile(section, offset) ==
    LET address == Info[section] + offset
    IN  IF CanReference(TheRef.section, section) /\ TheRef.type = "relref32"
        THEN IF OutOfRange(address)
             THEN RefFails
             ELSE /\ FixesUp(address)
                  /\ Reloc' = Reloc \cup RefAddresses
                  /\ UNCHANGED <<RelocBSS, Error>>
        ELSE RefFails

ResolvesTo(section, offset) ==
    LET address == Info[section] + offset
    IN  IF CanReference(TheRef.section, section) /\ TheRef.type = "relref32"
        THEN IF OutOfRange(address)
             THEN RefFails
             ELSE /\ FixesUp(address)
                  /\ IF Type(section) = "bss"
                     THEN RelocBSS' = RelocBSS \cup RefAddresses /\ UNCHANGED Reloc
                     ELSE Reloc' = Reloc \cup RefAddresses /\ UNCHANGED RelocBSS
                  /\ UNCHANGED Error
        ELSE RefFails

NextRef ==
    /\ next' = next + 1
    /\ UNCHANGED <<file, pc, placed, dumped, LibNum, read>>

\* variant: a reference from one section to another of its unit may have any
\* operand size
ResolveRelTabAnySize ==
    /\ Resolving
    /\ TheRef.kind = "reltab"
    /\ IF CanReference(TheRef.section, TheRef.to) /\ TheRef.type # "relref32"
       THEN UNCHANGED <<operand, Reloc, RelocBSS, Error>>
       ELSE ResolvesTo(TheRef.to, 0)
    /\ UNCHANGED <<Imports, ImportLibs>>
    /\ NextRef

ResolveRelTab ==
    /\ Resolving
    /\ TheRef.kind = "reltab"
    /\ ResolvesTo(TheRef.to, 0)
    /\ UNCHANGED <<Imports, ImportLibs>>
    /\ NextRef

ResolveXDef ==
    /\ Resolving
    /\ TheRef.kind = "xref" /\ TheRef.name \in DOMAIN file.defs
    /\ LET def == file.defs[TheRef.name]
       IN  ResolvesTo(def.section, def.offset)
    /\ UNCHANGED <<Imports, ImportLibs>>
    /\ NextRef

\* Import92P::Func: the number of the library, a new node, and a fixup that
\* leaves the operand alone
ResolveImport ==
    /\ Resolving
    /\ TheRef.kind = "xref" /\ TheRef.name \notin DOMAIN file.defs
    /\ IF Type(TheRef.section) = "code" /\ TheRef.name.lib # NoLib
       THEN /\ ImportLibs' = IF TheRef.name.lib \in ToSet(ImportLibs) THEN ImportLibs
                             ELSE Append(ImportLibs, TheRef.name.lib)
            /\ Imports' = Append(Imports,
                 [LibNum |-> CHOOSE n \in DOMAIN ImportLibs' : ImportLibs'[n] = TheRef.name.lib,
                  SymNum |-> TheRef.name.sym,
                  Reloc  |-> IF TheRef.type = "relref32" THEN RefAddresses ELSE {}])
            /\ Error' = (Error \/ (TheRef.type # "relref32" /\ TheRef.offsets # {}))
            /\ UNCHANGED <<operand, Reloc, RelocBSS>>
       ELSE RefFails /\ UNCHANGED <<Imports, ImportLibs>>
    /\ NextRef

Resolved == pc = "resolve" /\ next > Len(file.refs)

Unresolved == Resolved /\ Error /\ Fails

AllResolved ==
    /\ Resolved
    /\ ~Error
    /\ pc' = "dump"
    /\ UNCHANGED <<file, next, placed, operand, resolved, dumped, LibNum, read>>

-----------------------------------------------------------------------------
(* Import92P::Dump *)

Null == [delta |-> <<0>>, reloc |-> {}]

Delta(diff) ==
    IF diff < 128 THEN <<diff>>
    ELSE LET w == (32768 + diff) % 65536 IN <<w \div 256, w % 256>>

\* what is left of the library's nodes when ListSortIter has passed all those
\* that are not above the last
Remaining == {i \in DOMAIN Imports : Imports[i].LibNum = LibNum /\ Imports[i].SymNum > LastSymNum}

\* of equal nodes the first
Least(S) == CHOOSE i \in S : \A j \in S \ {i} :
                \/ Imports[i].SymNum < Imports[j].SymNum
                \/ Imports[i].SymNum = Imports[j].SymNum /\ i < j

Dumping == pc = "dump" /\ LibNum <= Len(ImportLibs)

DumpImport ==
    /\ Dumping
    /\ Remaining # {}
    /\ LET import == Imports[Least(Remaining)]
       IN  /\ table' = Append(table, [delta |-> Delta(import.SymNum - LastSymNum),
                                      reloc |-> import.Reloc])
           /\ LastSymNum' = import.SymNum
    /\ UNCHANGED <<file, pc, next, placed, operand, resolved, pointer, LibNum, read>>

DumpLibEnd ==
    /\ Dumping
    /\ Remaining = {}
    /\ table' = Append(table, Null)
    /\ LibNum' = LibNum + 1
    /\ LastSymNum' = -1
    /\ UNCHANGED <<file, pc, next, placed, operand, resolved, pointer, read>>

AllDumped == pc = "dump" /\ LibNum > Len(ImportLibs)

\* the tables' length is left open: any file may turn out too large, and one
\* is whose sections alone are
FileTooLarge == AllDumped /\ Fails

\* DumpTables: the exports, which begin with their number, the size of the bss
\* and its table, of a byte at least, unless there is no bss, the relocation
\* table, at an even offset the imports, and what nobody reads here
TablesAt(o) ==
    /\ SymbolSize + 2 <= o["bss"] /\ o["bss"] % 2 = 0
    /\ o["bss"] + (IF BSS_Size = 0 THEN 2 ELSE 3) <= o["reloc"]
    /\ o["reloc"] + 1 <= o["import"] /\ o["import"] % 2 = 0

\* variant: the limit is not checked
WriteAnySize ==
    /\ AllDumped
    /\ \E o \in [Tables -> TablePlaces] : TablesAt(o) /\ pointer' = o
    /\ table' = IF ImportLibs = <<>> THEN <<>> ELSE Append(table, Null)
    /\ pc' = "reloc"
    /\ LibNum' = 1
    /\ UNCHANGED <<file, next, placed, operand, resolved, LastSymNum, read>>

Write ==
    /\ AllDumped
    /\ \E o \in [Tables -> TablePlaces] :
          TablesAt(o) /\ o["import"] + 2 <= LIMIT /\ pointer' = o
    /\ table' = IF ImportLibs = <<>> THEN <<>> ELSE Append(table, Null)
    /\ pc' = "reloc"
    /\ LibNum' = 1
    /\ UNCHANGED <<file, next, placed, operand, resolved, LastSymNum, read>>

-----------------------------------------------------------------------------
(* The kernel, with the file in memory *)

\* do_reloc adds d1 to the longwords at these addresses of the file
Relocates(addresses, d1) ==
    operand' = [x \in DOMAIN operand |->
                   IF Type(x[1]) = "code" /\ Address(x) \in addresses
                   THEN (operand[x] + d1) % LongMod ELSE operand[x]]

\* the offset of a table is a word of the file, added as a signed displacement
Displacement(word) == IF word > SWORD THEN word - 65536 ELSE word
Found(t) == Displacement(pointer[t]) = pointer[t]

\* module_setup has looked for the imports and the size of the bss, do_all_reloc
\* looks for its tables: what lies before the file is read instead of one that
\* is not found, and anything may come of it
ReadsAstray ==
    /\ pc = "reloc"
    /\ \E t \in Tables : ~Found(t)
    /\ pc' = "astray"
    /\ UNCHANGED <<file, next, placed, operand, resolved, dumped, LibNum, read>>

\* do_all_reloc
DoReloc ==
    /\ pc = "reloc"
    /\ \A t \in Tables : Found(t)
    /\ Relocates(Reloc, ProgramAt)
    /\ pc' = "bss"
    /\ UNCHANGED <<file, next, placed, resolved, dumped, LibNum, read>>

\* the size of the bss is a word of the file; a zero skips the table
DoBss ==
    /\ pc = "bss"
    /\ IF BSS_Size % 65536 = 0 THEN UNCHANGED operand ELSE Relocates(RelocBSS, BssAt)
    /\ pc' = IF ImportLibs = <<>> THEN "running" ELSE "lib"
    /\ UNCHANGED <<file, next, placed, resolved, dumped, LibNum, read>>

\* do_imports
ImportLib ==
    /\ pc = "lib"
    /\ pc' = IF table[a2 + 1] = Null THEN "running" ELSE "symbol"
    /\ d5' = 0
    /\ UNCHANGED <<file, next, placed, operand, resolved, dumped, LibNum, a2>>

\* the delta is added to d5; scaling d5 for the export table and back drops
\* the bit that marked a word
Counted(delta) ==
    LET d0 == IF delta[1] < 128 THEN delta[1] ELSE delta[1] * 256 + delta[2]
    IN  (d5 + d0) % (IF ImportLibs[LibNum] = TIOS THEN 16384 ELSE 32768)

\* variant: d5 is not scaled back
ImportCountsOn ==
    /\ pc = "symbol"
    /\ LET entry == table[a2 + 1]
       IN  /\ entry.delta[1] # 0
           /\ d5' = (d5 + IF entry.delta[1] < 128 THEN entry.delta[1]
                          ELSE entry.delta[1] * 256 + entry.delta[2]) % 65536
           /\ Relocates(entry.reloc,
                        ExportAt[[lib |-> ImportLibs[LibNum], sym |-> Counted(entry.delta) - 1]])
    /\ a2' = a2 + 1
    /\ UNCHANGED <<file, pc, next, placed, resolved, dumped, LibNum>>

ImportSymbol ==
    /\ pc = "symbol"
    /\ LET entry == table[a2 + 1]
       IN  /\ entry.delta[1] # 0
           /\ d5' = Counted(entry.delta)
           /\ Relocates(entry.reloc,
                        ExportAt[[lib |-> ImportLibs[LibNum], sym |-> d5' - 1]])
    /\ a2' = a2 + 1
    /\ UNCHANGED <<file, pc, next, placed, resolved, dumped, LibNum>>

ImportLibEnd ==
    /\ pc = "symbol"
    /\ table[a2 + 1].delta[1] = 0
    /\ a2' = a2 + 1
    /\ LibNum' = LibNum + 1
    /\ pc' = "lib"
    /\ UNCHANGED <<file, next, placed, operand, resolved, dumped, d5>>

-----------------------------------------------------------------------------
Finished == pc \in {"running", "failed", "astray"} /\ UNCHANGED vars

Next == \/ Place \/ DuplicateTibasic \/ BssTooLarge \/ AllPlaced
        \/ ResolveRelTab \/ ResolveXDef \/ ResolveImport \/ Unresolved \/ AllResolved
        \/ DumpImport \/ DumpLibEnd \/ FileTooLarge \/ Write
        \/ ReadsAstray \/ DoReloc \/ DoBss \/ ImportLib \/ ImportSymbol \/ ImportLibEnd
        \/ Finished

Spec == Init /\ [][Next]_vars

-----------------------------------------------------------------------------
(* Properties *)

TypeOK ==
    /\ pc \in {"place", "resolve", "dump", "reloc", "bss", "lib", "symbol",
              "running", "failed", "astray"}
    /\ next \in Nat
    /\ SymbolSize \in Nat /\ BSS_Size \in Nat /\ Info \in Seq(Nat)
    /\ operand \in [Operands(file) -> Longs]
    /\ Reloc \subseteq Nat /\ RelocBSS \subseteq Nat
    /\ \A i \in DOMAIN Imports : /\ Imports[i].LibNum \in DOMAIN ImportLibs
                                 /\ Imports[i].SymNum \in 0..MAXSYM
                                 /\ Imports[i].Reloc \subseteq Nat
    /\ IsInjective(ImportLibs)
    /\ Error \in BOOLEAN
    /\ \A i \in DOMAIN table : ToSet(table[i].delta) \subseteq 0..255
    /\ LastSymNum \in -1..MAXSYM
    /\ pointer \in [Tables -> 0..(LIMIT - 2)]
    /\ LibNum \in 1..(Len(ImportLibs) + 1)
    /\ a2 \in 0..Len(table) /\ d5 \in 0..SWORD

\* the address a reference means when the program runs
SectionAt(i) == Info[i] + (IF Type(i) = "bss" THEN BssAt ELSE ProgramAt)

Meant(r) ==
    CASE r.kind = "reltab" -> SectionAt(r.to)
      [] r.kind = "xref" /\ r.name \in DOMAIN file.defs ->
             SectionAt(file.defs[r.name].section) + file.defs[r.name].offset
      [] OTHER -> ExportAt[r.name]

(***************************************************************************)
(* Fargo.txt, 1998.01.09: flinker links multiple object files into one     *)
(* file, and libraries are accessed by name.  In a program that flinker    *)
(* accepted and the kernel has relocated, every operand is the address of  *)
(* what it referred to in its object file plus the addend it held there;   *)
(* and no file goes astray but one with a table behind its first 32K.      *)
(***************************************************************************)
Linked ==
    /\ pc = "running" =>
          \A x \in Operands(file) :
              operand[x] = (Ref(file, x).addend + Meant(Ref(file, x))) % LongMod
    /\ pc = "astray" => \E t \in Tables : pointer[t] > SWORD

(***************************************************************************)
(* What the tables of a file that is written ask of the kernel: every      *)
(* address lies between the header and the end of the file, at an even     *)
(* offset (do_reloc counts in words), and no longword is asked for twice,  *)
(* by one table or by two.  RelocTable starts from this.                   *)
(***************************************************************************)
Lists == <<Reloc, RelocBSS>> \o [i \in DOMAIN Imports |-> Imports[i].Reloc]

TablesReadable ==
    pc \in {"reloc", "bss", "lib", "symbol", "running"} =>
        /\ \A i \in DOMAIN Lists : \A a \in Lists[i] :
              /\ HEADER <= a /\ a + 4 <= SymbolSize /\ SymbolSize <= LIMIT /\ a % 2 = 0
              /\ \A b \in Lists[i] : a < b => a + 4 <= b
        /\ \A i, j \in DOMAIN Lists : i < j =>
              \A a \in Lists[i], b \in Lists[j] : a + 4 <= b \/ b + 4 <= a

\* what flinker has a message for, the size of the file excepted
BadRef(r) ==
    /\ r.offsets # {}
    /\ \/ r.type # "relref32"
       \/ Type(r.section) # "code"
       \/ r.kind = "reltab" /\ Type(r.to) = "tibasic"
       \/ r.kind = "xref" /\ r.name \in DOMAIN file.defs
            /\ Type(file.defs[r.name].section) = "tibasic"
       \/ r.kind = "xref" /\ r.name \notin DOMAIN file.defs /\ r.name.lib = NoLib

BadFile ==
    \/ \E i, j \in DOMAIN file.sections : i < j /\ {Type(i), Type(j)} = {"tibasic"}
    \/ \E r \in ToSet(file.refs) : BadRef(r)

(***************************************************************************)
(* flinker never writes a file with a reference it could not resolve: one  *)
(* bad reference among any number of good ones, before or after it, is     *)
(* enough (Error and FixupError, through all the loops of ResolveReloc).   *)
(***************************************************************************)
BadFilesRejected == BadFile => pc \in {"place", "resolve", "failed"}
=============================================================================
