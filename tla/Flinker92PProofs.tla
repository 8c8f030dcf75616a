-------------------------- MODULE Flinker92PProofs --------------------------
(***************************************************************************)
(* Proofs about Flinker92P, for any object files and any libraries.        *)
(*                                                                         *)
(* A file with a reference flinker cannot resolve, or with two TI-BASIC    *)
(* forks, is never written (LinkInv); the tables of a file that is written *)
(* ask for each longword once, inside the file (Layout, Claims); and when  *)
(* the kernel is done every operand is what was meant (Operated), because  *)
(* the import table says to the kernel what it meant to Dump (TableInv).   *)
(***************************************************************************)
EXTENDS Flinker92P, SequenceTheorems, TLAPS, WellFoundedInduction

\* the sections placed so far hold one fork at most, then all of them do
OneFork ==
    \A i, j \in DOMAIN file.sections :
        i < j /\ (pc = "place" => j < next) => ~(Type(i) = "tibasic" /\ Type(j) = "tibasic")

\* a bad reference that ResolveReloc has passed has set Error
BadRefsSeen ==
    \A i \in DOMAIN file.refs :
        BadRef(file.refs[i]) =>
            \/ pc = "place"
            \/ pc = "resolve" /\ (i >= next \/ Error)

\* where the linker is, and what it has passed so far
LinkInv ==
    /\ file \in Files
    /\ pc \in {"place", "resolve", "dump", "reloc", "bss", "lib", "symbol", "running",
              "failed", "astray"}
    /\ next \in Nat
    /\ Error \in BOOLEAN
    /\ pc # "failed" => OneFork /\ BadRefsSeen

-----------------------------------------------------------------------------
\* Initially nothing is placed and nothing resolved.
LEMMA InitLink == Init => LinkInv
  <1> SUFFICES ASSUME Init PROVE LinkInv
    OBVIOUS
  <1>1. file \in Files /\ file.sections \in Seq(Section)
    BY FilesAssumption DEF Init, FileAssumption
  <1>2. OneFork
    BY <1>1 DEF Init, OneFork
  <1>3. BadRefsSeen
    BY DEF Init, BadRefsSeen
  <1>4. QED
    BY <1>1, <1>2, <1>3 DEF Init, LinkInv

\* Whether a reference is bad depends on the object files only.
LEMMA SameBadRefs == file' = file => \A i : BadRef(file.refs[i])' <=> BadRef(file.refs[i])
  BY DEF BadRef, Type

\* Of a bad reference with offsets each way of resolving it sets Error.
LEMMA BadRefFails ==
    ASSUME LinkInv, ResolveRelTab \/ ResolveXDef \/ ResolveImport, BadRef(TheRef)
    PROVE  Error' = TRUE
  <1>1. TheRef.offsets # {} /\ Error \in BOOLEAN
    BY DEF BadRef, LinkInv
  <1>2. CASE ResolveRelTab
    <2>1. ~(CanReference(TheRef.section, TheRef.to) /\ TheRef.type = "relref32")
      BY <1>2 DEF ResolveRelTab, BadRef, CanReference
    <2>2. RefFails
      BY <1>2, <2>1 DEF ResolveRelTab, ResolvesTo
    <2>3. QED
      BY <1>1, <2>2 DEF RefFails
  <1>3. CASE ResolveXDef
    <2>1. ~(CanReference(TheRef.section, file.defs[TheRef.name].section)
              /\ TheRef.type = "relref32")
      BY <1>3 DEF ResolveXDef, BadRef, CanReference
    <2>2. RefFails
      BY <1>3, <2>1 DEF ResolveXDef, ResolvesTo
    <2>3. QED
      BY <1>1, <2>2 DEF RefFails
  <1>4. CASE ResolveImport
    <2>1. TheRef.type # "relref32" \/ Type(TheRef.section) # "code" \/ TheRef.name.lib = NoLib
      BY <1>4 DEF ResolveImport, BadRef
    <2>2. CASE Type(TheRef.section) = "code" /\ TheRef.name.lib # NoLib
      BY <1>1, <1>4, <2>1, <2>2 DEF ResolveImport
    <2>3. CASE ~(Type(TheRef.section) = "code" /\ TheRef.name.lib # NoLib)
      BY <1>1, <1>4, <2>3 DEF ResolveImport, RefFails
    <2>4. QED
      BY <2>2, <2>3
  <1>5. QED
    BY <1>2, <1>3, <1>4

\* A step that moves to a later place, or to "failed", and changes neither the
\* file nor Error keeps what is known of a file whose references are all good.
LEMMA LaterKeeps ==
    ASSUME LinkInv, pc \notin {"place", "resolve", "failed"}, UNCHANGED <<file, next, Error>>,
           pc' \in {"dump", "reloc", "bss", "lib", "symbol", "running", "failed", "astray"}
    PROVE  LinkInv'
  <1>1. OneFork /\ BadRefsSeen
    BY DEF LinkInv
  <1>2. OneFork'
    BY <1>1 DEF OneFork, Type
  <1>3. BadRefsSeen'
    BY <1>1 DEF BadRefsSeen, BadRef, Type
  <1>4. QED
    BY <1>2, <1>3 DEF LinkInv

\* Every step keeps what is known of forks and of bad references.
LEMMA StepLink == LinkInv /\ [Next]_vars => LinkInv'
  <1> SUFFICES ASSUME LinkInv, [Next]_vars PROVE LinkInv'
    OBVIOUS
  <1>a. file \in Files /\ file.sections \in Seq(Section) /\ file.refs \in Seq(Reference)
    BY FilesAssumption DEF LinkInv, FileAssumption
  <1>b. /\ DOMAIN file.sections = 1..Len(file.sections)
        /\ DOMAIN file.refs = 1..Len(file.refs)
        /\ next \in Nat
    BY <1>a DEF LinkInv
  <1>1. CASE Place
    <2>1. OneFork'
      BY <1>1, <1>b DEF Place, LinkInv, OneFork, Type
    <2>2. QED
      BY <1>1, <2>1 DEF Place, resolved, LinkInv, BadRefsSeen
  <1>2. CASE Fails
    BY <1>2 DEF Fails, resolved, LinkInv
  <1>3. CASE AllPlaced
    <2>1. OneFork'
      BY <1>3, <1>b DEF AllPlaced, Placed, LinkInv, OneFork, Type
    <2>2. BadRefsSeen'
      BY <1>3, <1>b DEF AllPlaced, Placed, BadRefsSeen
    <2>3. QED
      BY <1>3, <2>1, <2>2 DEF AllPlaced, resolved, LinkInv
  <1>4. CASE ResolveRelTab \/ ResolveXDef \/ ResolveImport
    <2>1. Resolving /\ NextRef
      BY <1>4 DEF ResolveRelTab, ResolveXDef, ResolveImport
    <2>2. Error' \in BOOLEAN /\ (Error => Error')
      <3>1. RefFails => Error' = (Error \/ TheRef.offsets # {})
        BY DEF RefFails
      <3>2. ASSUME NEW s, NEW o, ResolvesTo(s, o)
            PROVE  Error' = Error \/ Error' = (Error \/ TheRef.offsets # {})
        BY <3>1, <3>2 DEF ResolvesTo
      <3>3. CASE ResolveRelTab
        BY <3>2, <3>3 DEF ResolveRelTab, LinkInv
      <3>4. CASE ResolveXDef
        BY <3>2, <3>4 DEF ResolveXDef, LinkInv
      <3>5. CASE ResolveImport
        <4>1. \/ Error' = (Error \/ (TheRef.type # "relref32" /\ TheRef.offsets # {}))
              \/ RefFails
          BY <3>5 DEF ResolveImport
        <4>2. QED
          BY <3>1, <4>1 DEF LinkInv
      <3>6. QED
        BY <1>4, <3>3, <3>4, <3>5
    <2>3. OneFork'
      BY <2>1 DEF Resolving, NextRef, LinkInv, OneFork, Type
    <2>4. BadRefsSeen'
      <3>a. file' = file /\ pc' = "resolve" /\ next' = next + 1
        BY <2>1 DEF Resolving, NextRef
      <3> SUFFICES ASSUME NEW i \in DOMAIN file.refs, BadRef(file.refs[i]), ~(i >= next')
                   PROVE  Error'
        BY <3>a, SameBadRefs DEF BadRefsSeen
      <3>1. CASE i = next
        BY <3>1, <1>4, BadRefFails DEF TheRef
      <3>2. CASE i < next
        BY <3>2, <2>1, <2>2, <1>b DEF Resolving, LinkInv, BadRefsSeen
      <3>3. QED
        BY <3>1, <3>2, <3>a, <1>b
    <2>5. QED
      BY <2>1, <2>2, <2>3, <2>4, <1>b DEF Resolving, NextRef, LinkInv
  <1>5. CASE AllResolved
    <2>1. OneFork'
      BY <1>5 DEF AllResolved, Resolved, LinkInv, OneFork, Type
    <2>2. BadRefsSeen'
      <3>1. /\ file' = file /\ pc = "resolve" /\ next > Len(file.refs) /\ ~Error
            /\ BadRefsSeen
        BY <1>5 DEF AllResolved, Resolved, LinkInv
      <3>2. \A i \in DOMAIN file.refs : ~BadRef(file.refs[i])
        BY <3>1, <1>b DEF BadRefsSeen
      <3>3. QED
        BY <3>1, <3>2, SameBadRefs DEF BadRefsSeen
    <2>3. QED
      BY <1>5, <2>1, <2>2 DEF AllResolved, resolved, LinkInv
  <1>6. CASE DumpImport \/ DumpLibEnd \/ Write
    <2>1. /\ pc = "dump" /\ pc' \in {"dump", "reloc"}
          /\ UNCHANGED <<file, next, Error>>
      BY <1>6 DEF DumpImport, DumpLibEnd, Write, Dumping, AllDumped, resolved
    <2>2. QED
      BY <2>1, LaterKeeps
  <1>7. CASE ReadsAstray \/ DoReloc \/ DoBss
    <2>1. /\ pc \in {"reloc", "bss"} /\ pc' \in {"astray", "bss", "lib", "running"}
          /\ UNCHANGED <<file, next, Error>>
      BY <1>7 DEF ReadsAstray, DoReloc, DoBss, resolved
    <2>2. QED
      BY <2>1, LaterKeeps
  <1>8. CASE ImportLib \/ ImportSymbol \/ ImportLibEnd
    <2>1. /\ pc \in {"lib", "symbol"} /\ pc' \in {"lib", "symbol", "running"}
          /\ UNCHANGED <<file, next, Error>>
      BY <1>8 DEF ImportLib, ImportSymbol, ImportLibEnd, resolved
    <2>2. QED
      BY <2>1, LaterKeeps
  <1>9. CASE Finished \/ UNCHANGED vars
    <2>1. UNCHANGED <<file, pc, next, Error>>
      BY <1>9 DEF Finished, vars
    <2>2. QED
      BY <2>1 DEF LinkInv, OneFork, BadRefsSeen, BadRef, Type
  <1>10. QED
    BY <1>1, <1>2, <1>3, <1>4, <1>5, <1>6, <1>7, <1>8, <1>9
       DEF Next, DuplicateTibasic, BssTooLarge, Unresolved, FileTooLarge

-----------------------------------------------------------------------------
\* No file with two forks, or with a reference that cannot be resolved, gets
\* past ResolveReloc (Output92P::Write).
THEOREM BadFilesRejectedAlways == Spec => []BadFilesRejected
  <1>1. LinkInv => BadFilesRejected
    <2> SUFFICES ASSUME LinkInv, BadFile, pc \notin {"place", "resolve", "failed"} PROVE FALSE
      BY DEF BadFilesRejected
    <2>1. OneFork /\ BadRefsSeen
      BY DEF LinkInv
    <2>2. CASE \E i, j \in DOMAIN file.sections : i < j /\ {Type(i), Type(j)} = {"tibasic"}
      BY <2>1, <2>2 DEF OneFork
    <2>3. CASE \E r \in ToSet(file.refs) : BadRef(r)
      BY <2>1, <2>3 DEF BadRefsSeen, ToSet
    <2>4. QED
      BY <2>2, <2>3 DEF BadFile
  <1>2. QED
    BY <1>1, InitLink, StepLink, PTL DEF Spec

-----------------------------------------------------------------------------
(* The places of sections and operands. *)

\* A code section lies in the file, behind those before it, at an even offset.
InFile(i) ==
    Type(i) = "code" =>
        /\ HEADER <= Info[i] /\ Info[i] % 2 = 0 /\ Info[i] + Size(i) <= SymbolSize
        /\ \A j \in 1..Len(Info) : i < j /\ Type(j) = "code" => Info[i] + Size(i) <= Info[j]

\* The sections placed so far, and what Write has counted of them.
Layout ==
    /\ SymbolSize \in Nat /\ HEADER <= SymbolSize /\ SymbolSize % 2 = 0
    /\ BSS_Size \in Nat
    /\ Info \in Seq(Nat) /\ Len(Info) <= Len(file.sections)
    /\ pc = "place" => next = Len(Info) + 1
    /\ pc \notin {"place", "failed"} => Len(Info) = Len(file.sections)
    /\ \A i \in 1..Len(Info) : InFile(i)

\* What the assumptions say of the file at hand.
LEMMA FileTyped ==
    ASSUME file \in Files
    PROVE  /\ file.sections \in Seq(Section) /\ file.refs \in Seq(Reference)
           /\ Len(file.sections) \in Nat /\ Len(file.refs) \in Nat
           /\ DOMAIN file.sections = 1..Len(file.sections)
           /\ DOMAIN file.refs = 1..Len(file.refs)
           /\ DOMAIN file.defs \subseteq Names
  BY FilesAssumption, LenProperties DEF FileAssumption

\* The sections of the file at hand.
LEMMA SectionTyped ==
    ASSUME file \in Files, NEW i \in 1..Len(file.sections)
    PROVE  Type(i) \in SectionTypes /\ Size(i) \in Nat /\ Size(i) % 2 = 0
  <1>1. file.sections[i] \in Section
    BY FileTyped, ElementOfSeq
  <1>2. Type(i) \in SectionTypes /\ file.sections[i].size \in Nat
    BY <1>1 DEF Section, Type
  <1>3. \A n \in Nat : 4 * n \in Nat /\ (4 * n) % 2 = 0
    OBVIOUS
  <1>4. QED
    BY <1>2, <1>3 DEF Size

\* Its references.
LEMMA RefTyped ==
    ASSUME file \in Files, NEW i \in 1..Len(file.refs)
    PROVE  /\ file.refs[i] \in Reference
           /\ file.refs[i].section \in 1..Len(file.sections)
           /\ file.refs[i].offsets \subseteq Nat
           /\ file.refs[i].kind = "reltab" => file.refs[i].to \in 1..Len(file.sections)
  <1>1. file.refs[i] \in Reference
    BY FileTyped, ElementOfSeq
  <1>2. file.refs[i] \in ToSet(file.refs)
    BY FileTyped DEF ToSet
  <1>3. QED
    BY <1>1, <1>2, FileTyped, FilesAssumption DEF FileAssumption, Reference

\* Nothing is placed at first.
LEMMA InitLayout == Init => Layout
  <1> SUFFICES ASSUME Init PROVE Layout
    OBVIOUS
  <1>1. file \in Files /\ Info = <<>> /\ Len(Info) = 0 /\ Info \in Seq(Nat)
    BY EmptySeq DEF Init
  <1>2. Len(file.sections) \in Nat
    BY <1>1, FileTyped
  <1>3. QED
    BY <1>1, <1>2 DEF Init, Layout, HEADER

\* A step that places nothing.
LEMMA LayoutKept ==
    ASSUME Layout, UNCHANGED <<file, placed>>,
           pc' = "place" => pc = "place" /\ next' = next,
           pc' \notin {"place", "failed"} => Len(Info) = Len(file.sections)
    PROVE  Layout'
  BY DEF Layout, placed, InFile, Type, Size

\* The next section is placed behind those of its kind.
LEMMA PlaceKeeps ==
    ASSUME file \in Files, Layout, Place
    PROVE  Layout'
  <1> DEFINE n == Len(Info)
             I == Info'
  <1>1. /\ pc = "place" /\ next = n + 1 /\ n \in Nat /\ Info \in Seq(Nat)
        /\ next \in 1..Len(file.sections) /\ Len(file.sections) \in Nat
        /\ SymbolSize \in Nat /\ HEADER <= SymbolSize /\ SymbolSize % 2 = 0
        /\ BSS_Size \in Nat
    BY FileTyped, LenProperties DEF Place, Layout
  <1>2. Type(next) \in SectionTypes /\ Size(next) \in Nat /\ Size(next) % 2 = 0
    BY <1>1, SectionTyped
  <1> DEFINE at == CASE Type(next) = "tibasic" -> 0
                     [] Type(next) = "bss"     -> BSS_Size
                     [] Type(next) = "code"    -> SymbolSize
  <1>3. at \in Nat /\ (Type(next) = "code" => at = SymbolSize)
    BY <1>1, <1>2 DEF SectionTypes
  <1>4. Info' = Append(Info, at)
    BY DEF Place
  <1> HIDE DEF at
  <1>5. /\ I \in Seq(Nat) /\ Len(I) = n + 1 /\ I[n + 1] = at
        /\ \A i \in 1..n : I[i] = Info[i]
    BY <1>1, <1>3, <1>4, AppendProperties
  <1>6. /\ file' = file /\ pc' = pc /\ next' = next + 1
        /\ SymbolSize' = SymbolSize + (IF Type(next) = "code" THEN Size(next) ELSE 0)
        /\ BSS_Size' = BSS_Size + (IF Type(next) = "bss" THEN Size(next) ELSE 0)
    BY DEF Place
  <1>7. /\ SymbolSize' \in Nat /\ HEADER <= SymbolSize' /\ SymbolSize' % 2 = 0
        /\ SymbolSize <= SymbolSize' /\ BSS_Size' \in Nat
        /\ Type(next) = "code" => SymbolSize' = SymbolSize + Size(next)
    BY <1>1, <1>2, <1>6 DEF HEADER
  <1> DEFINE T(i) == Type(i)
             Z(i) == Size(i)
             S == SymbolSize'
  <1>b. S \in Nat /\ SymbolSize \in Nat /\ SymbolSize <= S
    BY <1>1, <1>7
  <1>8. \A i : Type(i)' = T(i) /\ Size(i)' = Z(i)
    BY <1>6 DEF Type, Size
  <1>9. \A i \in 1..n : T(i) = "code" =>
            /\ HEADER <= Info[i] /\ Info[i] % 2 = 0 /\ Info[i] + Z(i) <= SymbolSize
            /\ Info[i] \in Nat /\ Z(i) \in Nat
            /\ \A j \in 1..n : i < j /\ T(j) = "code" => Info[i] + Z(i) <= Info[j]
    <2>1. \A i \in 1..n : Info[i] \in Nat /\ i \in 1..Len(file.sections)
      BY <1>1, ElementOfSeq
    <2>2. \A i \in 1..n : Z(i) \in Nat
      BY <2>1, SectionTyped
    <2>3. QED
      BY <2>1, <2>2 DEF Layout, InFile
  <1>10. \A i \in 1..(n + 1) : InFile(i)'
    <2> SUFFICES ASSUME NEW i \in 1..(n + 1), T(i) = "code"
                 PROVE  /\ HEADER <= I[i] /\ I[i] % 2 = 0 /\ I[i] + Z(i) <= S
                        /\ \A j \in 1..(n + 1) : i < j /\ T(j) = "code" => I[i] + Z(i) <= I[j]
      BY <1>5, <1>8 DEF InFile
    <2> HIDE DEF T, Z, S, I
    <2>1. CASE i = n + 1
      <3>1. T(i) = Type(next) /\ Z(i) = Size(next) /\ S = SymbolSize + Z(i)
        BY <2>1, <1>1, <1>7 DEF T, Z, S
      <3>2. I[i] = SymbolSize
        BY <2>1, <1>1, <1>3, <1>5, <3>1
      <3>3. \A j \in 1..(n + 1) : ~(i < j)
        BY <2>1, <1>1
      <3>4. I[i] + Z(i) <= S
        BY <1>1, <1>2, <3>1, <3>2
      <3>5. QED
        BY <1>1, <3>2, <3>3, <3>4
    <2>2. CASE i # n + 1
      <3>1. i \in 1..n /\ I[i] = Info[i]
        BY <2>2, <1>1, <1>5
      <3>2. /\ HEADER <= Info[i] /\ Info[i] % 2 = 0 /\ Info[i] + Z(i) <= SymbolSize
            /\ Info[i] \in Nat /\ Z(i) \in Nat
            /\ \A j \in 1..n : i < j /\ T(j) = "code" => Info[i] + Z(i) <= Info[j]
        BY <1>9, <3>1
      <3>3. I[i] + Z(i) <= S
        BY <1>b, <3>1, <3>2
      <3>4. ASSUME NEW j \in 1..(n + 1), i < j, T(j) = "code"
            PROVE  I[i] + Z(i) <= I[j]
        <4>1. CASE j = n + 1
          <5>1. Type(next) = "code"
            BY <1>1, <3>4, <4>1 DEF T
          <5>2. QED
            BY <1>3, <1>5, <3>1, <3>2, <4>1, <5>1
        <4>2. CASE j # n + 1
          <5>1. j \in 1..n /\ I[j] = Info[j]
            BY <1>1, <1>5, <4>2
          <5>2. QED
            BY <3>1, <3>2, <3>4, <5>1
        <4>3. QED
          BY <4>1, <4>2
      <3>5. QED
        BY <3>1, <3>2, <3>3, <3>4
    <2>3. QED
      BY <2>1, <2>2
  <1>11. QED
    <2>1. Len(I) <= Len(file.sections)
      BY <1>1, <1>5
    <2>2. \A i \in 1..Len(I) : InFile(i)'
      BY <1>5, <1>10
    <2>3. next' = Len(I) + 1
      BY <1>1, <1>5, <1>6
    <2>4. QED
      BY <1>1, <1>5, <1>6, <1>7, <2>1, <2>2, <2>3 DEF Layout

-----------------------------------------------------------------------------
(* Where the operands of a reference are in the file. *)

Places(i) == {Info[file.refs[i].section] + o : o \in file.refs[i].offsets}
IsCode(i) == Type(file.refs[i].section) = "code"

\* An operand is in its section, as the assumptions say.
LEMMA OperandIn ==
    ASSUME file \in Files, NEW i \in 1..Len(file.refs), NEW o \in file.refs[i].offsets
    PROVE  o \in Nat /\ o % 2 = 0 /\ o + 4 <= Size(file.refs[i].section)
  <1> DEFINE s == file.refs[i].section
  <1>1. o \in Nat
    BY RefTyped
  <1>2. <<s, o>> \in Operands(file)
    BY FileTyped DEF Operands
  <1>3. \A x \in Operands(file) : x[2] % 2 = 0 /\ x[2] + 4 <= 4 * file.sections[x[1]].size
    BY OperandsAssumption DEF OperandAssumption
  <1>4. QED
    BY <1>1, <1>2, <1>3 DEF Size

\* Two of a section do not overlap, and are of one reference if they are equal.
LEMMA OperandsApart ==
    ASSUME file \in Files, NEW i \in 1..Len(file.refs), NEW j \in 1..Len(file.refs),
           file.refs[i].section = file.refs[j].section,
           NEW o \in file.refs[i].offsets, NEW q \in file.refs[j].offsets,
           i # j \/ o # q
    PROVE  o + 4 <= q \/ q + 4 <= o
  <1> DEFINE s == file.refs[i].section
  <1>1. o \in Nat /\ q \in Nat
    BY RefTyped
  <1>2. <<s, o>> \in Operands(file) /\ <<s, q>> \in Operands(file)
    BY FileTyped DEF Operands
  <1>3. /\ \A x, y \in Operands(file) : x[1] = y[1] /\ x[2] < y[2] => x[2] + 4 <= y[2]
        /\ i # j => file.refs[i].offsets \cap file.refs[j].offsets = {}
    BY FileTyped, OperandsAssumption DEF OperandAssumption
  <1>4. o # q
    BY <1>3
  <1>5. (o < q => o + 4 <= q) /\ (q < o => q + 4 <= o)
    BY <1>2, <1>3
  <1>6. QED
    BY <1>1, <1>4, <1>5

\* All sections are placed.
AllIn == Layout /\ Len(Info) = Len(file.sections)

\* An even offset in something that lies at an even address.
LEMMA EvenPlace ==
    ASSUME NEW l \in Nat, NEW x \in Nat, NEW o \in Nat, NEW size \in Nat, NEW end \in Nat,
           l <= x, x % 2 = 0, x + size <= end, o % 2 = 0, o + 4 <= size
    PROVE  x + o \in Nat /\ l <= x + o /\ x + o + 4 <= end /\ (x + o) % 2 = 0
  OBVIOUS

\* An operand of a code section is in the file, at an even offset.
LEMMA PlacesIn ==
    ASSUME file \in Files, AllIn, NEW i \in 1..Len(file.refs), IsCode(i), NEW a \in Places(i)
    PROVE  a \in Nat /\ HEADER <= a /\ a + 4 <= SymbolSize /\ a % 2 = 0
  <1> DEFINE s == file.refs[i].section
             at == Info[s]
  <1>1. PICK o \in file.refs[i].offsets : a = at + o
    BY DEF Places
  <1>2. o \in Nat /\ o % 2 = 0 /\ o + 4 <= Size(s)
    BY OperandIn
  <1>3. s \in 1..Len(file.sections)
    BY RefTyped
  <1>4. at \in Nat /\ Size(s) \in Nat
    BY <1>3, SectionTyped, ElementOfSeq DEF AllIn, Layout
  <1>5. HEADER <= at /\ at % 2 = 0 /\ at + Size(s) <= SymbolSize
    BY <1>3 DEF AllIn, Layout, InFile, IsCode
  <1>6. SymbolSize \in Nat /\ HEADER \in Nat
    BY DEF AllIn, Layout, HEADER
  <1> HIDE DEF s, at
  <1>7. QED
    BY <1>1, <1>2, <1>4, <1>5, <1>6, EvenPlace

\* Two operands do not overlap, wherever their sections are.
LEMMA PlacesApart ==
    ASSUME file \in Files, AllIn,
           NEW i \in 1..Len(file.refs), IsCode(i), NEW a \in Places(i),
           NEW j \in 1..Len(file.refs), IsCode(j), NEW b \in Places(j),
           i # j \/ a # b
    PROVE  a + 4 <= b \/ b + 4 <= a
  <1> DEFINE s == file.refs[i].section
             t == file.refs[j].section
             sAt == Info[s]
             tAt == Info[t]
  <1>1. PICK o \in file.refs[i].offsets : a = sAt + o
    BY DEF Places
  <1>2. PICK q \in file.refs[j].offsets : b = tAt + q
    BY DEF Places
  <1>3. /\ o \in Nat /\ o + 4 <= Size(s)
        /\ q \in Nat /\ q + 4 <= Size(t)
    BY OperandIn
  <1>4. s \in 1..Len(file.sections) /\ t \in 1..Len(file.sections)
    BY RefTyped
  <1>5. sAt \in Nat /\ tAt \in Nat /\ Size(s) \in Nat /\ Size(t) \in Nat
    BY <1>4, SectionTyped, ElementOfSeq DEF AllIn, Layout
  <1>6. /\ s < t => sAt + Size(s) <= tAt
        /\ t < s => tAt + Size(t) <= sAt
    BY <1>4 DEF AllIn, Layout, InFile, IsCode
  <1>7. s = t => (o + 4 <= q \/ q + 4 <= o)
    BY <1>1, <1>2, OperandsApart
  <1>8. s < t \/ t < s \/ s = t
    BY <1>4
  <1>9. s = t => sAt = tAt
    OBVIOUS
  <1> HIDE DEF s, t, sAt, tAt
  <1>10. CASE s = t
    BY <1>1, <1>2, <1>3, <1>5, <1>7, <1>9, <1>10
  <1>11. CASE s < t
    BY <1>1, <1>2, <1>3, <1>5, <1>6, <1>11
  <1>12. CASE t < s
    BY <1>1, <1>2, <1>3, <1>5, <1>6, <1>12
  <1>13. QED
    BY <1>8, <1>10, <1>11, <1>12

-----------------------------------------------------------------------------
(* The addresses the linker has taken into a table. *)

Import == [LibNum : Nat, SymNum : Nat, Reloc : SUBSET Nat]

\* an operand of a reference that is resolved
Taken(a) == \E i \in 1..(next - 1) : i <= Len(file.refs) /\ IsCode(i) /\ a \in Places(i)

Node(i) == Imports[i].Reloc

\* what is in a table is taken, and is in one table or one node only
Claims ==
    /\ \A a \in Reloc \cup RelocBSS : Taken(a)
    /\ Reloc \cap RelocBSS = {}
    /\ Imports \in Seq(Import)
    /\ \A i \in 1..Len(Imports) :
          /\ \A a \in Node(i) : Taken(a) /\ a \notin Reloc /\ a \notin RelocBSS
          /\ \A j \in 1..Len(Imports) : i < j => Node(i) \cap Node(j) = {}

\* before ResolveReloc
Empty == Reloc = {} /\ RelocBSS = {} /\ Imports = <<>>

\* No operand of the reference at hand is in a table.
LEMMA NotTaken ==
    ASSUME file \in Files, next \in Nat, AllIn, Resolving, IsCode(next), NEW a \in Places(next)
    PROVE  ~Taken(a)
  <1> SUFFICES ASSUME Taken(a) PROVE FALSE
    OBVIOUS
  <1>1. PICK i \in 1..(next - 1) : i <= Len(file.refs) /\ IsCode(i) /\ a \in Places(i)
    BY DEF Taken
  <1>2. next \in 1..Len(file.refs) /\ i \in 1..Len(file.refs) /\ i # next
    BY <1>1, FileTyped DEF Resolving
  <1>3. a + 4 <= a \/ a + 4 <= a
    BY <1>1, <1>2, PlacesApart
  <1>4. a \in Nat
    BY <1>2, PlacesIn
  <1>5. QED
    BY <1>3, <1>4

\* What is taken stays taken, and the operands of the reference at hand are.
LEMMA TakenGrows ==
    ASSUME file \in Files, next \in Nat, Resolving, UNCHANGED <<file, placed>>, next' = next + 1
    PROVE  \A a : Taken(a)' <=> (Taken(a) \/ (IsCode(next) /\ a \in Places(next)))
  <1> DEFINE C(i) == IsCode(i)
             P(i) == Places(i)
             n == next
             L == Len(file.refs)
  <1>1. n \in 1..L /\ L \in Nat
    BY FileTyped DEF Resolving
  <1>2. \A i : C(i)' = C(i) /\ P(i)' = P(i)
    BY DEF IsCode, Places, Type, placed
  <1>3. \A a : Taken(a)' <=> \E i \in 1..n : i <= L /\ C(i) /\ a \in P(i)
    BY <1>1, <1>2 DEF Taken
  <1>4. \A a : Taken(a) <=> \E i \in 1..(n - 1) : i <= L /\ C(i) /\ a \in P(i)
    BY DEF Taken
  <1>5. QED
    <2> HIDE DEF C, P, n, L
    <2>1. \A i : i \in 1..n <=> (i \in 1..(n - 1) \/ i = n)
      BY <1>1
    <2>2. n <= L
      BY <1>1
    <2>3. QED
      BY <1>3, <1>4, <2>1, <2>2 DEF C, P, n

-----------------------------------------------------------------------------
(* The numbers of libraries. *)

Libs == {n.lib : n \in Names}

\* Each library has one number, and each node one of these numbers.
Numbers ==
    /\ ImportLibs \in Seq(Libs)
    /\ \A k, l \in 1..Len(ImportLibs) : ImportLibs[k] = ImportLibs[l] => k = l
    /\ \A i \in 1..Len(Imports) : /\ Imports[i].LibNum \in 1..Len(ImportLibs)
                                  /\ Imports[i].SymNum <= MAXSYM

\* Import92P::Func looks a library up, or gives it the next number.
LEMMA LibNumbered ==
    ASSUME Numbers, NEW lib \in Libs,
           ImportLibs' = IF lib \in ToSet(ImportLibs) THEN ImportLibs
                         ELSE Append(ImportLibs, lib)
    PROVE  /\ ImportLibs' \in Seq(Libs) /\ Len(ImportLibs) <= Len(ImportLibs')
           /\ DOMAIN ImportLibs' = 1..Len(ImportLibs') /\ Len(ImportLibs') \in Nat
           /\ \A k \in 1..Len(ImportLibs) : ImportLibs'[k] = ImportLibs[k]
           /\ \A k, l \in 1..Len(ImportLibs') : ImportLibs'[k] = ImportLibs'[l] => k = l
           /\ \E k \in 1..Len(ImportLibs') : ImportLibs'[k] = lib
  <1> DEFINE n == Len(ImportLibs)
             T == ImportLibs'
  <1>1. n \in Nat /\ ImportLibs \in Seq(Libs) /\ DOMAIN ImportLibs = 1..n
        /\ \A k, l \in 1..n : ImportLibs[k] = ImportLibs[l] => k = l
    BY LenProperties DEF Numbers
  <1>2. lib \in ToSet(ImportLibs) <=> \E k \in 1..n : ImportLibs[k] = lib
    BY <1>1 DEF ToSet
  <1>3. CASE lib \in ToSet(ImportLibs)
    BY <1>1, <1>2, <1>3
  <1>4. CASE lib \notin ToSet(ImportLibs)
    <2>1. T = Append(ImportLibs, lib)
      BY <1>4
    <2>2. /\ T \in Seq(Libs) /\ Len(T) = n + 1 /\ T[n + 1] = lib
          /\ \A k \in 1..n : T[k] = ImportLibs[k]
      BY <1>1, <2>1, AppendProperties
    <2> HIDE DEF T
    <2>3. DOMAIN T = 1..(n + 1)
      BY <2>2, LenProperties
    <2>4. ASSUME NEW k \in 1..(n + 1), NEW l \in 1..(n + 1), T[k] = T[l]
          PROVE  k = l
      <3>1. k \in 1..n \/ k = n + 1
        BY <1>1
      <3>2. l \in 1..n \/ l = n + 1
        BY <1>1
      <3>3. QED
        BY <1>1, <1>2, <1>4, <2>2, <2>4, <3>1, <3>2
    <2>5. n + 1 \in 1..(n + 1) /\ n <= n + 1 /\ n + 1 \in Nat
      BY <1>1
    <2>6. QED
      BY <2>2, <2>3, <2>4, <2>5 DEF T
  <1>5. QED
    BY <1>3, <1>4

-----------------------------------------------------------------------------
(* The steps of ResolveReloc. *)

\* References to code and to bss go to different tables.
LEMMA ResolvesAdds ==
    ASSUME NEW s, NEW o, ResolvesTo(s, o)
    PROVE  \/ UNCHANGED <<Reloc, RelocBSS>>
           \/ IsCode(next) /\ Reloc' = Reloc \cup Places(next) /\ UNCHANGED RelocBSS
           \/ IsCode(next) /\ RelocBSS' = RelocBSS \cup Places(next) /\ UNCHANGED Reloc
  BY DEF ResolvesTo, RefFails, CanReference, IsCode, Places, RefAddresses, TheRef

\* A reference to a section of the file.
LEMMA FileRefClaims ==
    ASSUME file \in Files, next \in Nat, AllIn, Claims, Numbers,
           ResolveRelTab \/ ResolveXDef
    PROVE  Claims' /\ Numbers'
  <1>1. Resolving /\ NextRef /\ UNCHANGED <<Imports, ImportLibs>>
        /\ \E s, o : ResolvesTo(s, o)
    BY DEF ResolveRelTab, ResolveXDef
  <1>2. UNCHANGED <<file, placed>> /\ next' = next + 1
    BY <1>1 DEF NextRef
  <1>3. \A a : Taken(a)' <=> (Taken(a) \/ (IsCode(next) /\ a \in Places(next)))
    BY <1>1, <1>2, TakenGrows
  <1>4. \A a \in Places(next) : IsCode(next) => ~Taken(a)
    BY <1>1, NotTaken
  <1> DEFINE N(i) == Node(i)
             P == Places(next)
  <1>5. /\ \A a \in Reloc \cup RelocBSS : Taken(a)
        /\ Reloc \cap RelocBSS = {}
        /\ Imports \in Seq(Import)
        /\ \A i \in 1..Len(Imports) :
              /\ \A a \in N(i) : Taken(a) /\ a \notin Reloc /\ a \notin RelocBSS
              /\ \A j \in 1..Len(Imports) : i < j => N(i) \cap N(j) = {}
    BY DEF Claims
  <1>6. \A i : Node(i)' = N(i)
    BY <1>1 DEF Node
  <1> HIDE DEF N, P
  <1>7. \/ UNCHANGED <<Reloc, RelocBSS>>
        \/ IsCode(next) /\ Reloc' = Reloc \cup P /\ UNCHANGED RelocBSS
        \/ IsCode(next) /\ RelocBSS' = RelocBSS \cup P /\ UNCHANGED Reloc
    BY <1>1, ResolvesAdds DEF P
  <1>8. (\A a \in P : IsCode(next) => ~Taken(a)) /\ (\A a \in P : IsCode(next) => Taken(a)')
    BY <1>3, <1>4 DEF P
  <1>9. \A a \in Reloc' \cup RelocBSS' : Taken(a)'
    BY <1>3, <1>5, <1>7, <1>8
  <1>10. Reloc' \cap RelocBSS' = {}
    BY <1>5, <1>7, <1>8
  <1>11. ASSUME NEW i \in 1..Len(Imports), NEW a \in N(i)
         PROVE  Taken(a)' /\ a \notin Reloc' /\ a \notin RelocBSS'
    <2>1. Taken(a) /\ a \notin Reloc /\ a \notin RelocBSS
      BY <1>5, <1>11
    <2>2. IsCode(next) => a \notin P
      BY <1>8, <2>1
    <2>3. QED
      BY <1>3, <1>7, <2>1, <2>2
  <1>12. Claims'
    BY <1>1, <1>5, <1>6, <1>9, <1>10, <1>11 DEF Claims
  <1>13. QED
    BY <1>1, <1>12 DEF Numbers

\* A reference to a symbol of a library.
LEMMA ImportClaims ==
    ASSUME file \in Files, next \in Nat, AllIn, Claims, Numbers, ResolveImport
    PROVE  Claims' /\ Numbers'
  <1>1. Resolving /\ NextRef /\ UNCHANGED <<Reloc, RelocBSS>>
    BY DEF ResolveImport, RefFails
  <1>2. UNCHANGED <<file, placed>> /\ next' = next + 1
    BY <1>1 DEF NextRef
  <1>3. \A a : Taken(a)' <=> (Taken(a) \/ (IsCode(next) /\ a \in Places(next)))
    BY <1>1, <1>2, TakenGrows
  <1>4. \A a \in Places(next) : IsCode(next) => ~Taken(a)
    BY <1>1, NotTaken
  <1> DEFINE N(i) == Node(i)
             n == Len(Imports)
             J == Imports'
  <1>5. /\ \A a \in Reloc \cup RelocBSS : Taken(a)
        /\ Reloc \cap RelocBSS = {}
        /\ Imports \in Seq(Import) /\ n \in Nat
        /\ \A i \in 1..n :
              /\ \A a \in N(i) : Taken(a) /\ a \notin Reloc /\ a \notin RelocBSS
              /\ \A j \in 1..n : i < j => N(i) \cap N(j) = {}
    BY LenProperties DEF Claims
  <1>6. CASE UNCHANGED <<Imports, ImportLibs>>
    <2>1. \A i : Node(i)' = Node(i)
      BY <1>6 DEF Node
    <2>2. Claims'
      BY <1>1, <1>3, <1>5, <1>6, <2>1 DEF Claims
    <2>3. QED
      BY <1>6, <2>2 DEF Numbers
  <1>7. CASE Type(TheRef.section) = "code" /\ TheRef.name.lib # NoLib
    <2> DEFINE lib == TheRef.name.lib
               num == CHOOSE k \in DOMAIN ImportLibs' : ImportLibs'[k] = lib
               R == IF TheRef.type = "relref32" THEN RefAddresses ELSE {}
               node == [LibNum |-> num, SymNum |-> TheRef.name.sym, Reloc |-> R]
    <2>1. /\ ImportLibs' = IF lib \in ToSet(ImportLibs) THEN ImportLibs
                           ELSE Append(ImportLibs, lib)
          /\ Imports' = Append(Imports, node)
      BY <1>7 DEF ResolveImport
    <2>2. next \in 1..Len(file.refs)
      BY <1>1, FileTyped DEF Resolving
    <2>3. TheRef.name \in Names
      BY <1>1, <2>2, RefTyped DEF ResolveImport, TheRef, Reference
    <2>4. lib \in Libs /\ TheRef.name.sym \in Nat /\ TheRef.name.sym <= MAXSYM
      <3>1. TheRef.name.sym \in 0..MAXSYM
        BY <1>7, <2>3, NamesAssumption
      <3>2. MAXSYM \in Nat
        BY DEF MAXSYM
      <3>3. QED
        BY <2>3, <3>1, <3>2 DEF Libs
    <2>5. /\ ImportLibs' \in Seq(Libs) /\ Len(ImportLibs) <= Len(ImportLibs')
          /\ DOMAIN ImportLibs' = 1..Len(ImportLibs') /\ Len(ImportLibs') \in Nat
          /\ \A k, l \in 1..Len(ImportLibs') : ImportLibs'[k] = ImportLibs'[l] => k = l
          /\ \E k \in 1..Len(ImportLibs') : ImportLibs'[k] = lib
      BY <2>1, <2>4, LibNumbered
    <2>6. num \in 1..Len(ImportLibs')
      BY <2>5
    <2>7. IsCode(next) /\ R \subseteq Places(next)
      BY <1>7 DEF IsCode, TheRef, RefAddresses, Places
    <2>8. R \subseteq Nat
      BY <2>2, <2>7, PlacesIn
    <2>9. node.LibNum = num /\ node.SymNum = TheRef.name.sym /\ node.Reloc = R
      OBVIOUS
    <2> HIDE DEF R, num, lib
    <2>10. node \in Import
      BY <2>4, <2>5, <2>6, <2>8 DEF Import
    <2> HIDE DEF node
    <2>11. /\ J \in Seq(Import) /\ Len(J) = n + 1 /\ J[n + 1] = node
           /\ \A i \in 1..n : J[i] = Imports[i]
      BY <1>5, <2>1, <2>10, AppendProperties
    <2>12. \A i : Node(i)' = J[i].Reloc /\ N(i) = Imports[i].Reloc
      BY DEF Node
    <2> DEFINE M(i) == IF i = n + 1 THEN R ELSE N(i)
    <2>13. \A i \in 1..(n + 1) : Node(i)' = M(i)
      <3> SUFFICES ASSUME NEW i \in 1..(n + 1) PROVE J[i].Reloc = M(i)
        BY <2>12
      <3> HIDE DEF J, N
      <3>1. i = n + 1 \/ i \in 1..n
        BY <1>5
      <3>2. QED
        BY <2>9, <2>11, <2>12, <3>1
    <2>14. \A a \in R : Taken(a)' /\ ~Taken(a)
      BY <1>3, <1>4, <2>7
    <2>15. ASSUME NEW i \in 1..(n + 1)
           PROVE  /\ \A a \in M(i) : Taken(a)' /\ a \notin Reloc /\ a \notin RelocBSS
                  /\ \A j \in 1..(n + 1) : i < j => M(i) \cap M(j) = {}
      <3> HIDE DEF N
      <3>1. CASE i = n + 1
        <4>1. \A j \in 1..(n + 1) : ~(i < j)
          BY <1>5, <3>1
        <4>2. QED
          BY <1>5, <2>14, <3>1, <4>1
      <3>2. CASE i # n + 1
        <4>1. i \in 1..n
          BY <1>5, <3>2
        <4>2. \A a \in N(i) : Taken(a)' /\ a \notin Reloc /\ a \notin RelocBSS /\ a \notin R
          BY <1>3, <1>5, <2>14, <4>1
        <4>3. \A j \in 1..(n + 1) : j = n + 1 \/ j \in 1..n
          BY <1>5
        <4>4. \A j \in 1..(n + 1) : i < j => M(i) \cap M(j) = {}
          BY <1>5, <3>2, <4>1, <4>2, <4>3
        <4>5. QED
          BY <3>2, <4>2, <4>4
      <3>3. QED
        BY <3>1, <3>2
    <2>16. \A a \in Reloc' \cup RelocBSS' : Taken(a)'
      BY <1>1, <1>3, <1>5
    <2>17. Claims'
      BY <1>1, <1>5, <2>11, <2>13, <2>15, <2>16 DEF Claims
    <2>18. ASSUME NEW i \in 1..(n + 1)
           PROVE  J[i].LibNum \in 1..Len(ImportLibs') /\ J[i].SymNum <= MAXSYM
      <3>1. CASE i = n + 1
        BY <2>4, <2>6, <2>9, <2>11, <3>1
      <3>2. CASE i # n + 1
        <4>1. i \in 1..n
          BY <1>5, <3>2
        <4>2. J[i] = Imports[i] /\ Imports[i].LibNum \in 1..Len(ImportLibs)
              /\ Imports[i].SymNum <= MAXSYM
          BY <2>11, <4>1 DEF Numbers
        <4>3. Len(ImportLibs) \in Nat
          BY LenProperties DEF Numbers
        <4>4. QED
          BY <2>5, <4>2, <4>3
      <3>3. QED
        BY <3>1, <3>2
    <2>19. Numbers'
      BY <2>5, <2>11, <2>18 DEF Numbers
    <2>20. QED
      BY <2>17, <2>19
  <1>8. QED
    BY <1>6, <1>7 DEF ResolveImport

-----------------------------------------------------------------------------
(* The tables at every step. *)

Loaded == pc \in {"reloc", "bss", "lib", "symbol", "running"}

TablesInv ==
    /\ Layout /\ Claims /\ Numbers
    /\ pc = "place" => Empty /\ ImportLibs = <<>>
    /\ Loaded => SymbolSize <= LIMIT

\* Nothing is in the tables at first.
LEMMA InitTables == Init => TablesInv
  <1> SUFFICES ASSUME Init PROVE TablesInv
    OBVIOUS
  <1>1. Empty /\ ImportLibs = <<>> /\ pc = "place"
    BY DEF Init, Empty
  <1>2. <<>> \in Seq(Import) /\ <<>> \in Seq(Libs) /\ Len(<<>>) = 0
    BY EmptySeq
  <1>3. Claims
    BY <1>1, <1>2 DEF Claims, Empty
  <1>4. Numbers
    BY <1>1, <1>2 DEF Numbers, Empty
  <1>5. QED
    BY <1>1, <1>3, <1>4, InitLayout DEF TablesInv, Loaded

\* Three offsets, one behind the other.
LEMMA Increasing ==
    ASSUME NEW n \in Nat, NEW a \in Nat, NEW b \in Nat, NEW c \in Nat, NEW limit \in Nat,
           n + 2 <= a, a + 2 <= b, b + 1 <= c, c + 2 <= limit
    PROVE  /\ a \in 0..(limit - 2) /\ b \in 0..(limit - 2) /\ c \in 0..(limit - 2)
           /\ n <= limit
  OBVIOUS

\* The tables of a file that is written begin inside it.
LEMMA WrittenAt ==
    ASSUME SymbolSize \in Nat, Write
    PROVE  SymbolSize <= LIMIT /\ pointer' \in [Tables -> 0..(LIMIT - 2)]
  <1>1. PICK o \in [Tables -> TablePlaces] : TablesAt(o) /\ o["import"] + 2 <= LIMIT /\ pointer' = o
    BY DEF Write
  <1>2. o["bss"] \in Nat /\ o["reloc"] \in Nat /\ o["import"] \in Nat
    BY <1>1, TablePlacesAssumption DEF Tables
  <1>3. /\ SymbolSize + 2 <= o["bss"] /\ o["reloc"] + 1 <= o["import"]
        /\ o["bss"] + 2 <= o["reloc"]
    BY <1>1, <1>2 DEF TablesAt
  <1>4. LIMIT \in Nat
    BY DEF LIMIT
  <1>5. /\ o["bss"] \in 0..(LIMIT - 2) /\ o["reloc"] \in 0..(LIMIT - 2)
        /\ o["import"] \in 0..(LIMIT - 2) /\ SymbolSize <= LIMIT
    BY <1>1, <1>2, <1>3, <1>4, Increasing
  <1>6. o \in [Tables -> 0..(LIMIT - 2)]
    BY <1>1, <1>5 DEF Tables
  <1>7. QED
    BY <1>1, <1>5, <1>6

\* A step that changes neither places nor tables.
LEMMA TablesKept ==
    ASSUME TablesInv, UNCHANGED <<file, placed, resolved>>,
           next' = next \/ pc = "place",
           pc' = "place" => pc = "place" /\ next' = next,
           pc' \notin {"place", "failed"} => Len(Info) = Len(file.sections),
           Loaded' => SymbolSize <= LIMIT
    PROVE  TablesInv'
  <1>1. Layout'
    BY LayoutKept DEF TablesInv
  <1>2. Numbers'
    BY DEF TablesInv, Numbers, resolved
  <1>3. CASE pc = "place"
    <2>1. Empty /\ ImportLibs = <<>> /\ Imports = <<>>
      BY <1>3 DEF TablesInv, Empty
    <2>2. Empty' /\ ImportLibs' = <<>>
      BY <2>1 DEF Empty, resolved
    <2>3. Claims'
      BY <2>1, <2>2, EmptySeq DEF Claims, Empty
    <2>4. QED
      BY <1>1, <1>2, <2>2, <2>3 DEF TablesInv, placed
  <1>4. CASE pc # "place"
    <2> DEFINE T(a) == Taken(a)
               N(i) == Node(i)
    <2>1. \A a : Taken(a)' = T(a)
      BY <1>4 DEF Taken, IsCode, Places, Type, placed
    <2>2. \A i : Node(i)' = N(i)
      BY DEF Node, resolved
    <2>3. Claims'
      BY <2>1, <2>2 DEF TablesInv, Claims, resolved
    <2>4. QED
      BY <1>1, <1>2, <1>4, <2>3 DEF TablesInv, placed
  <1>5. QED
    BY <1>3, <1>4

\* Every step keeps places and tables apart.
LEMMA StepTables == LinkInv /\ TablesInv /\ [Next]_vars => TablesInv'
  <1> SUFFICES ASSUME LinkInv, TablesInv, [Next]_vars PROVE TablesInv'
    OBVIOUS
  <1>a. file \in Files /\ next \in Nat /\ Len(file.sections) \in Nat /\ Len(Info) \in Nat
    BY FileTyped, LenProperties DEF LinkInv, TablesInv, Layout
  <1>b. /\ pc \in {"place", "resolve", "dump", "reloc", "bss", "lib", "symbol", "running",
                  "failed", "astray"}
        /\ pc \notin {"place", "failed"} => AllIn
    BY DEF LinkInv, TablesInv, Layout, AllIn
  <1>1. CASE Place
    <2>1. Layout'
      BY <1>1, <1>a, PlaceKeeps DEF TablesInv
    <2>2. /\ pc = "place" /\ pc' = "place" /\ UNCHANGED resolved
          /\ Empty /\ ImportLibs = <<>> /\ Imports = <<>>
      BY <1>1 DEF Place, TablesInv, Empty
    <2>3. Empty' /\ ImportLibs' = <<>>
      BY <2>2 DEF Empty, resolved
    <2>4. Claims'
      BY <2>2, <2>3, EmptySeq DEF Claims, Empty
    <2>5. Numbers'
      BY <2>2 DEF TablesInv, Numbers, resolved
    <2>6. QED
      BY <2>1, <2>2, <2>3, <2>4, <2>5 DEF TablesInv, Loaded
  <1>2. CASE Fails \/ ReadsAstray
    <2>1. /\ pc' = "failed" \/ (pc = "reloc" /\ pc' = "astray")
          /\ UNCHANGED <<file, next, placed, resolved>>
      BY <1>2 DEF Fails, ReadsAstray
    <2>2. QED
      BY <2>1, <1>b, TablesKept DEF Loaded, AllIn
  <1>3. CASE AllPlaced
    <2>1. /\ pc = "place" /\ next > Len(file.sections) /\ next = Len(Info) + 1
          /\ Len(Info) <= Len(file.sections)
          /\ pc' = "resolve" /\ UNCHANGED <<file, placed, resolved>>
      BY <1>3 DEF AllPlaced, Placed, TablesInv, Layout
    <2>2. Len(Info) = Len(file.sections)
      BY <2>1, <1>a
    <2>3. QED
      BY <2>1, <2>2, TablesKept DEF Loaded
  <1>4. CASE ResolveRelTab \/ ResolveXDef \/ ResolveImport
    <2>1. pc = "resolve" /\ pc' = "resolve" /\ UNCHANGED <<file, placed>>
      BY <1>4 DEF ResolveRelTab, ResolveXDef, ResolveImport, Resolving, NextRef
    <2>2. Claims' /\ Numbers'
      BY <1>4, <1>a, <1>b, <2>1, FileRefClaims, ImportClaims DEF TablesInv
    <2>3. Layout'
      BY <1>b, <2>1, LayoutKept DEF TablesInv, AllIn
    <2>4. QED
      BY <2>1, <2>2, <2>3 DEF TablesInv, Loaded
  <1>5. CASE AllResolved
    <2>1. pc = "resolve" /\ pc' = "dump" /\ UNCHANGED <<file, next, placed, resolved>>
      BY <1>5 DEF AllResolved, Resolved
    <2>2. QED
      BY <2>1, <1>b, TablesKept DEF Loaded, AllIn
  <1>6. CASE DumpImport \/ DumpLibEnd
    <2>1. pc = "dump" /\ pc' = "dump" /\ UNCHANGED <<file, next, placed, resolved>>
      BY <1>6 DEF DumpImport, DumpLibEnd, Dumping
    <2>2. QED
      BY <2>1, <1>b, TablesKept DEF Loaded, AllIn
  <1>7. CASE Write
    <2>1. /\ pc = "dump" /\ pc' = "reloc" /\ UNCHANGED <<file, next, placed, resolved>>
          /\ SymbolSize <= LIMIT
      BY <1>7, WrittenAt DEF Write, AllDumped, TablesInv, Layout
    <2>2. QED
      BY <2>1, <1>b, TablesKept DEF AllIn
  <1>8. CASE DoReloc \/ DoBss \/ ImportLib \/ ImportSymbol \/ ImportLibEnd
    <2>1. /\ Loaded /\ Loaded' /\ UNCHANGED <<file, next, placed, resolved>>
      BY <1>8 DEF DoReloc, DoBss, ImportLib, ImportSymbol, ImportLibEnd, Loaded
    <2>2. QED
      BY <2>1, <1>b, TablesKept DEF Loaded, AllIn, TablesInv
  <1>9. CASE Finished \/ UNCHANGED vars
    <2>1. UNCHANGED <<file, pc, next, placed, resolved>>
      BY <1>9 DEF Finished, vars, placed, resolved
    <2>2. QED
      BY <2>1, <1>b, TablesKept DEF Loaded, AllIn, TablesInv
  <1>10. QED
    BY <1>1, <1>2, <1>3, <1>4, <1>5, <1>6, <1>7, <1>8, <1>9
       DEF Next, DuplicateTibasic, BssTooLarge, Unresolved, FileTooLarge

-----------------------------------------------------------------------------
\* The elements of two sequences, one behind the other.
LEMMA Joined ==
    ASSUME NEW S, NEW s \in Seq(S), NEW t \in Seq(S)
    PROVE  /\ s \o t \in Seq(S) /\ Len(s \o t) = Len(s) + Len(t)
           /\ \A i \in 1..Len(s) : (s \o t)[i] = s[i]
           /\ \A i \in 1..Len(t) : (s \o t)[Len(s) + i] = t[i]
  <1>1. Len(s) \in Nat /\ Len(t) \in Nat
    BY LenProperties
  <1> DEFINE W == s \o t
  <1>2. /\ W \in Seq(S) /\ Len(W) = Len(s) + Len(t)
        /\ \A i \in 1..(Len(s) + Len(t)) : W[i] = IF i <= Len(s) THEN s[i] ELSE t[i - Len(s)]
    BY ConcatProperties
  <1> HIDE DEF W
  <1>3. ASSUME NEW i \in 1..Len(t) PROVE W[Len(s) + i] = t[i]
    <2>1. Len(s) + i \in 1..(Len(s) + Len(t)) /\ ~(Len(s) + i <= Len(s)) /\ (Len(s) + i) - Len(s) = i
      BY <1>1
    <2>2. QED
      BY <1>2, <2>1
  <1>4. \A i \in 1..Len(s) : W[i] = s[i]
    BY <1>1, <1>2
  <1>5. QED
    BY <1>2, <1>3, <1>4 DEF W

\* The lists, one after the other.
LEMMA ListsAre ==
    ASSUME Claims
    PROVE  /\ DOMAIN Lists = 1..(2 + Len(Imports)) /\ Len(Imports) \in Nat
           /\ Lists[1] = Reloc /\ Lists[2] = RelocBSS
           /\ \A i \in 1..Len(Imports) : Lists[2 + i] = Node(i)
  <1> DEFINE n == Len(Imports)
             F == [i \in DOMAIN Imports |-> Imports[i].Reloc]
             G == <<Reloc, RelocBSS>>
             S == {Reloc, RelocBSS} \cup {Imports[i].Reloc : i \in 1..n}
  <1>1. n \in Nat /\ DOMAIN Imports = 1..n
    BY LenProperties DEF Claims
  <1>2. F = [i \in 1..n |-> Imports[i].Reloc]
    BY <1>1
  <1>3. F \in Seq(S) /\ Len(F) = n
    <2>1. \A i \in 1..n : Imports[i].Reloc \in S
      OBVIOUS
    <2>2. F \in [1..n -> S]
      BY <1>2, <2>1
    <2> HIDE DEF F, S
    <2>3. QED
      BY <1>1, <2>2, IsASeq, LenProperties
  <1>4. G \in Seq(S) /\ Len(G) = 2 /\ G[1] = Reloc /\ G[2] = RelocBSS
    OBVIOUS
  <1>5. Lists = G \o F
    BY DEF Lists
  <1>6. \A i \in 1..n : F[i] = Node(i)
    BY <1>2 DEF Node
  <1> HIDE DEF F, G, S
  <1>7. /\ Lists \in Seq(S) /\ Len(Lists) = 2 + n
        /\ \A i \in 1..2 : Lists[i] = G[i]
        /\ \A i \in 1..n : Lists[2 + i] = F[i]
    <2>1. PICK g \in Seq(S), f \in Seq(S) : g = G /\ f = F
      BY <1>3, <1>4
    <2>2. /\ g \o f \in Seq(S) /\ Len(g \o f) = Len(g) + Len(f)
          /\ \A i \in 1..Len(g) : (g \o f)[i] = g[i]
          /\ \A i \in 1..Len(f) : (g \o f)[Len(g) + i] = f[i]
      BY Joined
    <2> DEFINE W == g \o f
    <2>3. W = Lists
      BY <1>5, <2>1
    <2>4. /\ W \in Seq(S) /\ Len(W) = Len(g) + Len(f)
          /\ \A i \in 1..Len(g) : W[i] = g[i]
          /\ \A i \in 1..Len(f) : W[Len(g) + i] = f[i]
      BY <2>2
    <2> HIDE DEF W
    <2>5. QED
      BY <1>1, <1>3, <1>4, <2>1, <2>3, <2>4
  <1>8. DOMAIN Lists = 1..(2 + n)
    BY <1>7, LenProperties
  <1>9. \A i \in 1..n : Lists[2 + i] = Node(i)
    BY <1>6, <1>7
  <1>10. QED
    BY <1>1, <1>4, <1>7, <1>8, <1>9

(***************************************************************************)
(* Every address in the tables of a file that is written lies between the  *)
(* header and the end of the file, at an even offset, and no longword is   *)
(* asked for twice, by one table or by two: what do_reloc starts from.     *)
(***************************************************************************)
THEOREM TablesReadableAlways == Spec => []TablesReadable
  <1>1. ASSUME LinkInv, TablesInv PROVE TablesReadable
    <2> SUFFICES ASSUME Loaded
                 PROVE
        /\ \A i \in DOMAIN Lists : \A a \in Lists[i] :
              /\ HEADER <= a /\ a + 4 <= SymbolSize /\ SymbolSize <= LIMIT /\ a % 2 = 0
              /\ \A b \in Lists[i] : a < b => a + 4 <= b
        /\ \A i, j \in DOMAIN Lists : i < j =>
              \A a \in Lists[i], b \in Lists[j] : a + 4 <= b \/ b + 4 <= a
      BY DEF TablesReadable, Loaded
    <2> DEFINE n == Len(Imports)
    <2>1. file \in Files /\ AllIn /\ Claims /\ SymbolSize <= LIMIT /\ SymbolSize \in Nat
      BY <1>1 DEF LinkInv, TablesInv, Loaded, AllIn, Layout
    <2>2. SymbolSize <= LIMIT
      BY <2>1
    <2>3. /\ DOMAIN Lists = 1..(2 + n) /\ n \in Nat
          /\ Lists[1] = Reloc /\ Lists[2] = RelocBSS
          /\ \A k \in 1..n : Lists[2 + k] = Node(k)
      BY <2>1, ListsAre
    <2>4. \A i \in DOMAIN Lists : i = 1 \/ i = 2 \/ \E k \in 1..n : i = 2 + k
      <3> SUFFICES ASSUME NEW i \in 1..(2 + n), i # 1, i # 2 PROVE \E k \in 1..n : i = 2 + k
        BY <2>3
      <3>1. i - 2 \in 1..n /\ i = 2 + (i - 2)
        BY <2>3
      <3>2. QED
        BY <3>1
    <2>5. ASSUME NEW a, Taken(a)
          PROVE  \E i \in 1..Len(file.refs) : IsCode(i) /\ a \in Places(i)
      <3>1. PICK i \in 1..(next - 1) : i <= Len(file.refs) /\ IsCode(i) /\ a \in Places(i)
        BY <2>5 DEF Taken
      <3>2. i \in 1..Len(file.refs)
        BY <2>1, <3>1, FileTyped DEF LinkInv
      <3>3. QED
        BY <3>1, <3>2
    <2>6. ASSUME NEW i \in DOMAIN Lists, NEW a \in Lists[i]
          PROVE  Taken(a)
      BY <2>1, <2>3, <2>4, <2>6 DEF Claims
    <2>7. ASSUME NEW i \in DOMAIN Lists, NEW a \in Lists[i]
          PROVE  a \in Nat /\ HEADER <= a /\ a + 4 <= SymbolSize /\ a % 2 = 0
      BY <2>1, <2>5, <2>6, <2>7, PlacesIn
    <2>8. ASSUME NEW a, NEW b, Taken(a), Taken(b), a # b
          PROVE  a + 4 <= b \/ b + 4 <= a
      BY <2>1, <2>5, <2>8, PlacesApart
    <2>9. ASSUME NEW i \in DOMAIN Lists, NEW a \in Lists[i], NEW b \in Lists[i], a < b
          PROVE  a + 4 <= b
      <3>1. a \in Nat /\ b \in Nat /\ Taken(a) /\ Taken(b)
        BY <2>6, <2>7, <2>9
      <3>2. a # b
        BY <2>9, <3>1
      <3>3. a + 4 <= b \/ b + 4 <= a
        BY <2>8, <3>1, <3>2
      <3>4. QED
        BY <2>9, <3>1, <3>3
    <2>10. ASSUME NEW i \in DOMAIN Lists, NEW j \in DOMAIN Lists, i < j,
                  NEW a \in Lists[i], NEW b \in Lists[j]
           PROVE  a + 4 <= b \/ b + 4 <= a
      <3>1. Lists[i] \cap Lists[j] = {}
        <4>1. CASE i = 1 /\ j = 2
          BY <2>1, <2>3, <4>1 DEF Claims
        <4>2. CASE i \in {1, 2} /\ \E k \in 1..n : j = 2 + k
          BY <2>1, <2>3, <4>2 DEF Claims
        <4>3. ASSUME NEW k \in 1..n, NEW l \in 1..n, i = 2 + k, j = 2 + l
              PROVE  Lists[i] \cap Lists[j] = {}
          <5>1. k < l
            BY <2>10, <4>3
          <5>2. Node(k) \cap Node(l) = {}
            BY <2>1, <5>1 DEF Claims
          <5>3. QED
            BY <2>3, <4>3, <5>2
        <4>4. \/ i = 1 /\ j = 2
              \/ i \in {1, 2} /\ \E k \in 1..n : j = 2 + k
              \/ \E k, l \in 1..n : i = 2 + k /\ j = 2 + l
          BY <2>3, <2>4, <2>10
        <4>5. QED
          BY <4>1, <4>2, <4>3, <4>4
      <3>2. a # b
        BY <3>1
      <3>3. QED
        BY <2>6, <2>8, <3>2
    <2>11. QED
      BY <2>2, <2>7, <2>9, <2>10
  <1>2. LinkInv /\ TablesInv => TablesReadable
    BY <1>1
  <1>3. QED
    BY <1>2, InitLink, StepLink, InitTables, StepTables, PTL DEF Spec

-----------------------------------------------------------------------------
(* Numbers modulo 2^32. *)

\* A remainder is less than what it is a remainder of.
LEMMA ModIs ==
    ASSUME NEW M \in Nat, M > 0, NEW a \in Int
    PROVE  /\ a % M \in Int /\ 0 <= a % M /\ a % M < M
           /\ a \div M \in Int /\ a = M * (a \div M) + (a % M)
  OBVIOUS

\* The only multiple of M between -M and M is 0.
LEMMA SmallMultiple ==
    ASSUME NEW M \in Nat, M > 0, NEW k \in Int, NEW d \in Int, d < M, -M < d, M * k = d
    PROVE  k = 0
  <1>1. CASE k >= 1
    <2>1. M * k >= M
      BY <1>1
    <2>2. QED
      BY <2>1
  <1>2. CASE k <= -1
    <2>1. M * k <= -M
      BY <1>2
    <2>2. QED
      BY <2>1
  <1>3. QED
    BY <1>1, <1>2

\* There is one remainder.
LEMMA ModUnique ==
    ASSUME NEW M \in Nat, M > 0, NEW a \in Int, NEW q \in Int,
           NEW r \in Int, 0 <= r, r < M, a = M * q + r
    PROVE  a % M = r
  <1> DEFINE p == a \div M
             s == a % M
  <1>1. p \in Int /\ s \in Int /\ 0 <= s /\ s < M /\ a = M * p + s
    BY ModIs
  <1> HIDE DEF p, s
  <1>2. M * (p - q) = r - s /\ p - q \in Int
    BY <1>1
  <1>3. p - q = 0
    BY <1>1, <1>2, SmallMultiple
  <1>4. r = s
    BY <1>1, <1>2, <1>3
  <1>5. QED
    BY <1>4 DEF s

\* A sum may be reduced on the way.
LEMMA ModAdd ==
    ASSUME NEW M \in Nat, M > 0, NEW a \in Int, NEW b \in Int
    PROVE  ((a % M) + b) % M = (a + b) % M
  <1> DEFINE p == a \div M
             s == a % M
             t == (s + b) % M
             u == (s + b) \div M
  <1>1. p \in Int /\ s \in Int /\ 0 <= s /\ s < M /\ a = M * p + s
    BY ModIs
  <1>2. t \in Int /\ 0 <= t /\ t < M /\ s + b = M * u + t /\ u \in Int
    BY <1>1, ModIs
  <1> HIDE DEF p, s, t, u
  <1>3. a + b = M * (p + u) + t
    BY <1>1, <1>2
  <1>4. (a + b) % M = t
    <2>1. a + b \in Int /\ p + u \in Int
      BY <1>1, <1>2
    <2>2. QED
      BY <1>2, <1>3, <2>1, ModUnique
  <1>5. QED
    BY <1>4 DEF s, t

\* Longs are what a longword holds.
LEMMA LongsAre ==
    /\ LongMod \in Nat /\ LongMod > 0 /\ ProgramAt \in Longs /\ BssAt \in Longs
    /\ \A v \in Longs : v \in Int /\ 0 <= v /\ v < LongMod /\ v % LongMod = v
    /\ \A v \in Int : v % LongMod \in Longs
  <1>1. LongMod \in Nat /\ ProgramAt \in Longs /\ BssAt \in Longs
    BY PlacesAssumption
  <1>2. \A v \in Longs : v \in Int /\ 0 <= v /\ v < LongMod
    BY <1>1 DEF Longs
  <1>3. LongMod > 0
    BY <1>1, <1>2
  <1>4. ASSUME NEW v \in Longs PROVE v % LongMod = v
    <2>1. v = LongMod * 0 + v
      BY <1>1, <1>2
    <2>2. QED
      BY <1>1, <1>2, <1>3, <2>1, ModUnique
  <1>5. ASSUME NEW v \in Int PROVE v % LongMod \in Longs
    <2>1. v % LongMod \in Int /\ 0 <= v % LongMod /\ v % LongMod < LongMod
      BY <1>1, <1>3, ModIs
    <2> DEFINE w == v % LongMod
    <2> HIDE DEF w
    <2>2. w \in Longs
      BY <1>1, <2>1 DEF Longs, w
    <2>3. QED
      BY <2>2 DEF w
  <1>6. QED
    BY <1>1, <1>2, <1>3, <1>4, <1>5

-----------------------------------------------------------------------------
(* What a reference is to. *)

Here(i)   == file.refs[i]
ToFile(i) == Here(i).kind = "reltab" \/ Here(i).name \in DOMAIN file.defs
To(i)     == IF Here(i).kind = "reltab" THEN Here(i).to ELSE file.defs[Here(i).name].section
Off(i)    == IF Here(i).kind = "reltab" THEN 0 ELSE file.defs[Here(i).name].offset
Name(i)   == Here(i).name

\* what the linker adds to the operand, and what the kernel
Base(i)  == IF ToFile(i) THEN Info[To(i)] + Off(i) ELSE 0
Shift(i) == IF ToFile(i) THEN (IF Type(To(i)) = "bss" THEN BssAt ELSE ProgramAt)
            ELSE ExportAt[Name(i)]

\* The target of a reference into the file.
LEMMA TargetTyped ==
    ASSUME file \in Files, NEW i \in 1..Len(file.refs), ToFile(i)
    PROVE  To(i) \in 1..Len(file.sections) /\ Off(i) \in Nat
  <1>1. CASE Here(i).kind = "reltab"
    BY <1>1, RefTyped DEF To, Off, Here
  <1>2. CASE Here(i).kind # "reltab"
    <2>1. Name(i) \in DOMAIN file.defs
      BY <1>2 DEF ToFile, Name
    <2>2. \A n \in DOMAIN file.defs :
              file.defs[n].section \in DOMAIN file.sections /\ file.defs[n].offset \in Nat
      BY FilesAssumption DEF FileAssumption
    <2>3. QED
      BY <1>2, <2>1, <2>2, FileTyped DEF To, Off, Name
  <1>3. QED
    BY <1>1, <1>2

\* Each operand is of one reference.
LEMMA RefIs ==
    ASSUME file \in Files, NEW x \in Operands(file)
    PROVE  \E i \in 1..Len(file.refs) : \E o \in file.refs[i].offsets :
              x = <<file.refs[i].section, o>> /\ Ref(file, x) = file.refs[i]
  <1>1. PICK i \in 1..Len(file.refs) : x \in {file.refs[i].section} \X file.refs[i].offsets
    BY FileTyped DEF Operands
  <1>2. PICK o \in file.refs[i].offsets : x = <<file.refs[i].section, o>>
    BY <1>1
  <1> DEFINE P(r) == r.section = x[1] /\ x[2] \in r.offsets
  <1>3. x[1] = file.refs[i].section /\ x[2] = o
    BY <1>2
  <1>4. file.refs[i] \in ToSet(file.refs)
    BY FileTyped DEF ToSet
  <1>5. ASSUME NEW r \in ToSet(file.refs), P(r) PROVE r = file.refs[i]
    <2>1. PICK j \in 1..Len(file.refs) : r = file.refs[j]
      BY FileTyped DEF ToSet
    <2>2. i # j /\ file.refs[i].section = file.refs[j].section =>
              file.refs[i].offsets \cap file.refs[j].offsets = {}
      BY FileTyped, OperandsAssumption DEF OperandAssumption
    <2>3. QED
      BY <1>3, <1>5, <2>1, <2>2
  <1>6. P(file.refs[i])
    BY <1>3
  <1>7. Ref(file, x) = CHOOSE r \in ToSet(file.refs) : P(r)
    BY DEF Ref
  <1> HIDE DEF P
  <1>8. Ref(file, x) = file.refs[i]
    BY <1>4, <1>5, <1>6, <1>7
  <1>9. QED
    BY <1>2, <1>8

\* Its reference says what it means.
LEMMA MeantIs ==
    ASSUME file \in Files, AllIn, NEW i \in 1..Len(file.refs),
           ~ToFile(i) => Name(i).lib # NoLib
    PROVE  /\ Meant(Here(i)) = Base(i) + Shift(i)
           /\ Base(i) \in Int /\ Shift(i) \in Longs
  <1>1. Here(i).kind \in {"xref", "reltab"}
    BY RefTyped DEF Here, Reference
  <1>2. CASE ToFile(i)
    <2>1. Info[To(i)] \in Nat /\ Off(i) \in Nat /\ Shift(i) \in Longs /\ Shift(i) \in Int
      <3>1. To(i) \in 1..Len(file.sections) /\ Off(i) \in Nat
        BY <1>2, TargetTyped
      <3>2. Info[To(i)] \in Nat
        BY <3>1, ElementOfSeq DEF AllIn, Layout
      <3>3. QED
        BY <1>2, <3>1, <3>2, LongsAre DEF Shift
    <2>2. SectionAt(To(i)) = Info[To(i)] + Shift(i)
      BY <1>2 DEF SectionAt, Shift
    <2>3. Base(i) = Info[To(i)] + Off(i)
      BY <1>2 DEF Base
    <2>4. CASE Here(i).kind = "reltab"
      <3>1. Meant(Here(i)) = SectionAt(To(i)) /\ Off(i) = 0
        BY <2>4 DEF Meant, To, Off
      <3>2. QED
        BY <2>1, <2>2, <2>3, <3>1
    <2>5. CASE Here(i).kind = "xref"
      <3>1. Meant(Here(i)) = SectionAt(To(i)) + Off(i)
        BY <1>2, <2>5 DEF Meant, To, Off, ToFile
      <3>2. QED
        BY <2>1, <2>2, <2>3, <3>1
    <2>6. QED
      BY <1>1, <2>4, <2>5
  <1>3. CASE ~ToFile(i)
    <2>1. Name(i) \in Names
      BY <1>1, <1>3, RefTyped DEF Here, Reference, ToFile, Name
    <2>2. Shift(i) \in Longs /\ Base(i) = 0
      BY <1>3, <2>1, NamesAssumption DEF Shift, Base
    <2>3. Meant(Here(i)) = Shift(i)
      BY <1>1, <1>3 DEF Meant, ToFile, Shift, Name
    <2>4. QED
      BY <2>2, <2>3, LongsAre
  <1>4. QED
    BY <1>2, <1>3

-----------------------------------------------------------------------------
(* References that are resolved. *)

\* the symbol a node stands for
NodeName(k) == [lib |-> ImportLibs[Imports[k].LibNum], sym |-> Imports[k].SymNum]

\* a reference that has passed the linker without an error
Settled(i) ==
    Here(i).offsets # {} =>
        /\ IsCode(i)
        /\ ToFile(i) =>
              \/ Type(To(i)) = "code" /\ Places(i) \subseteq Reloc
              \/ Type(To(i)) = "bss"  /\ Places(i) \subseteq RelocBSS
        /\ ~ToFile(i) =>
              /\ Name(i).lib # NoLib
              /\ \E k \in 1..Len(Imports) : Node(k) = Places(i) /\ NodeName(k) = Name(i)

\* no symbol of a library has two references: a second one would be lost
ImportedOnce ==
    \A i, j \in 1..Len(file.refs) :
        i # j /\ ~ToFile(i) /\ ~ToFile(j) /\ Name(i).lib # NoLib => Name(i) # Name(j)

\* what Import92P::Func makes of references
Nodes ==
    /\ \A k \in 1..Len(Imports) :
          \E i \in 1..(next - 1) :
             i <= Len(file.refs) /\ ~ToFile(i) /\ NodeName(k) = Name(i) /\ Name(i).lib # NoLib
    /\ ImportedOnce => \A k, l \in 1..Len(Imports) : NodeName(k) = NodeName(l) => k = l
    /\ \A n \in 1..Len(ImportLibs) : \E k \in 1..Len(Imports) : Imports[k].LibNum = n

\* the tables only grow
Grown ==
    /\ UNCHANGED <<file, placed>> /\ next' = next + 1
    /\ Reloc \subseteq Reloc' /\ RelocBSS \subseteq RelocBSS'
    /\ Len(Imports) \in Nat /\ Len(Imports') \in Nat /\ Len(Imports) <= Len(Imports')
    /\ \A k \in 1..Len(Imports) : Imports'[k] = Imports[k]
    /\ Len(ImportLibs) \in Nat /\ Len(ImportLibs') \in Nat /\ Len(ImportLibs) <= Len(ImportLibs')
    /\ \A n \in 1..Len(ImportLibs) : ImportLibs'[n] = ImportLibs[n]

\* The same file, the same references.
LEMMA SameRefs ==
    ASSUME UNCHANGED <<file, placed>>
    PROVE  \A i : /\ Here(i)' = Here(i) /\ ToFile(i)' = ToFile(i) /\ To(i)' = To(i)
                  /\ Off(i)' = Off(i) /\ Name(i)' = Name(i) /\ IsCode(i)' = IsCode(i)
                  /\ Places(i)' = Places(i) /\ Base(i)' = Base(i) /\ Shift(i)' = Shift(i)
                  /\ Type(To(i))' = Type(To(i))
  BY DEF Here, ToFile, To, Off, Name, IsCode, Places, Base, Shift, Type, placed

\* A node stays what it is.
LEMMA NodesStay ==
    ASSUME Claims, Numbers, Grown
    PROVE  \A k \in 1..Len(Imports) :
              /\ k \in 1..Len(Imports') /\ Node(k)' = Node(k) /\ NodeName(k)' = NodeName(k)
              /\ Imports[k].LibNum \in 1..Len(ImportLibs)
  <1> TAKE k \in 1..Len(Imports)
  <1>1. Imports[k].LibNum \in 1..Len(ImportLibs) /\ Imports'[k] = Imports[k]
    BY DEF Numbers, Grown
  <1>2. ImportLibs'[Imports[k].LibNum] = ImportLibs[Imports[k].LibNum]
    BY <1>1 DEF Grown
  <1>3. NodeName(k)' = [lib |-> ImportLibs'[Imports'[k].LibNum], sym |-> Imports'[k].SymNum]
    BY DEF NodeName
  <1>4. Node(k)' = Imports'[k].Reloc
    BY DEF Node
  <1>5. k \in 1..Len(Imports')
    BY DEF Grown
  <1>6. QED
    BY <1>1, <1>2, <1>3, <1>4, <1>5 DEF NodeName, Node

\* What is settled stays so.
LEMMA SettledStays ==
    ASSUME Claims, Numbers, Grown, NEW i, Settled(i)
    PROVE  Settled(i)'
  <1> DEFINE H == Here(i)
             C == IsCode(i)
             F == ToFile(i)
             T == Type(To(i))
             P == Places(i)
             N == Name(i)
             J == Imports'
  <1>1. /\ Here(i)' = H /\ IsCode(i)' = C /\ ToFile(i)' = F /\ Type(To(i))' = T
        /\ Places(i)' = P /\ Name(i)' = N
    BY SameRefs DEF Grown
  <1> SUFFICES ASSUME H.offsets # {}
               PROVE  /\ C
                      /\ F => \/ T = "code" /\ P \subseteq Reloc'
                              \/ T = "bss"  /\ P \subseteq RelocBSS'
                      /\ ~F => /\ N.lib # NoLib
                               /\ \E k \in 1..Len(J) : Node(k)' = P /\ NodeName(k)' = N
    BY <1>1 DEF Settled
  <1>2. /\ C
        /\ F => \/ T = "code" /\ P \subseteq Reloc
                \/ T = "bss"  /\ P \subseteq RelocBSS
        /\ ~F => /\ N.lib # NoLib
                 /\ \E k \in 1..Len(Imports) : Node(k) = P /\ NodeName(k) = N
    BY DEF Settled
  <1> HIDE DEF H, C, F, T, P, N
  <1>3. ASSUME ~F PROVE \E k \in 1..Len(J) : Node(k)' = P /\ NodeName(k)' = N
    <2>1. PICK k \in 1..Len(Imports) : Node(k) = P /\ NodeName(k) = N
      BY <1>2, <1>3
    <2>2. k \in 1..Len(J) /\ Node(k)' = P /\ NodeName(k)' = N
      BY <2>1, NodesStay
    <2>3. QED
      BY <2>2
  <1>4. QED
    BY <1>2, <1>3 DEF Grown

\* A reference to the file makes no node.
LEMMA FileRefNodes ==
    ASSUME file \in Files, next \in Nat, Claims, Numbers, Nodes, ResolveRelTab \/ ResolveXDef
    PROVE  Grown /\ Nodes'
  <1>1. /\ UNCHANGED <<file, placed, Imports, ImportLibs>> /\ next' = next + 1
        /\ \E s, o : ResolvesTo(s, o)
    BY DEF ResolveRelTab, ResolveXDef, NextRef
  <1>2. Reloc \subseteq Reloc' /\ RelocBSS \subseteq RelocBSS'
    BY <1>1, ResolvesAdds
  <1>3. Len(Imports) \in Nat /\ Len(ImportLibs) \in Nat
    BY LenProperties DEF Claims, Numbers
  <1>4. Grown
    BY <1>1, <1>2, <1>3 DEF Grown
  <1> DEFINE F(i) == ToFile(i)
             N(i) == Name(i)
             M(k) == NodeName(k)
  <1>5. \A i : ToFile(i)' = F(i) /\ Name(i)' = N(i)
    BY <1>1, SameRefs
  <1>6. \A k : NodeName(k)' = M(k)
    BY <1>1 DEF NodeName
  <1>7. ImportedOnce' = ImportedOnce
    BY <1>1, <1>5 DEF ImportedOnce
  <1>8. 1..(next - 1) \subseteq 1..(next' - 1)
    BY <1>1
  <1>9. \A k \in 1..Len(Imports) :
          \E i \in 1..(next' - 1) : i <= Len(file.refs) /\ ~F(i) /\ M(k) = N(i) /\ N(i).lib # NoLib
    BY <1>8 DEF Nodes
  <1> HIDE DEF F, N, M
  <1>10. Nodes'
    <2>1. ImportedOnce => \A k, l \in 1..Len(Imports) : M(k) = M(l) => k = l
      BY DEF Nodes, M
    <2>2. \A n \in 1..Len(ImportLibs) : \E k \in 1..Len(Imports) : Imports[k].LibNum = n
      BY DEF Nodes
    <2>3. QED
      BY <1>1, <1>5, <1>6, <1>7, <1>9, <2>1, <2>2 DEF Nodes
  <1>11. QED
    BY <1>4, <1>10

\* A reference to a library makes one, or nothing changes.
LEMMA ImportNodes ==
    ASSUME file \in Files, next \in Nat, AllIn, Claims, Numbers, Nodes, ResolveImport
    PROVE  /\ Grown /\ Nodes'
           /\ \/ RefFails
              \/ /\ IsCode(next) /\ Name(next).lib # NoLib /\ UNCHANGED operand
                 /\ Error' = (Error \/ (Here(next).type # "relref32" /\ Here(next).offsets # {}))
                 /\ Here(next).type = "relref32" =>
                       \E k \in 1..Len(Imports') :
                          Node(k)' = Places(next) /\ NodeName(k)' = Name(next)
  <1>1. Resolving /\ NextRef /\ UNCHANGED <<Reloc, RelocBSS>> /\ ~ToFile(next)
        /\ UNCHANGED <<file, placed>> /\ next' = next + 1
    BY DEF ResolveImport, RefFails, NextRef, ToFile, Here, TheRef
  <1>2. Len(Imports) \in Nat /\ Len(ImportLibs) \in Nat
    BY LenProperties DEF Claims, Numbers
  <1> DEFINE F(i) == ToFile(i)
             N(i) == Name(i)
             M(k) == NodeName(k)
             n == Len(Imports)
             L == Len(file.refs)
             p == next
  <1>3. \A i : ToFile(i)' = F(i) /\ Name(i)' = N(i)
    BY <1>1, SameRefs
  <1>4. ImportedOnce' = ImportedOnce
    BY <1>1, <1>3 DEF ImportedOnce
  <1>5. \A k \in 1..n : \E i \in 1..(p - 1) : i <= L /\ ~F(i) /\ M(k) = N(i) /\ N(i).lib # NoLib
    BY DEF Nodes
  <1>6. ImportedOnce => \A k, l \in 1..n : M(k) = M(l) => k = l
    BY DEF Nodes
  <1>7. \A l \in 1..Len(ImportLibs) : \E k \in 1..n : Imports[k].LibNum = l
    BY DEF Nodes
  <1>8. CASE RefFails /\ UNCHANGED <<Imports, ImportLibs>>
    <2>1. Grown
      BY <1>1, <1>2, <1>8 DEF Grown
    <2>2. \A k : NodeName(k)' = M(k)
      BY <1>8 DEF NodeName
    <2>3. 1..(p - 1) \subseteq 1..(next' - 1)
      BY <1>1
    <2>4. \A k \in 1..n : \E i \in 1..(next' - 1) : i <= L /\ ~F(i) /\ M(k) = N(i) /\ N(i).lib # NoLib
      BY <1>5, <2>3
    <2> HIDE DEF F, N, M
    <2>5. Nodes'
      BY <1>1, <1>3, <1>4, <1>6, <1>7, <1>8, <2>2, <2>4 DEF Nodes
    <2>6. QED
      BY <1>8, <2>1, <2>5
  <1>9. CASE Type(TheRef.section) = "code" /\ TheRef.name.lib # NoLib
    <2> DEFINE lib == TheRef.name.lib
               num == CHOOSE k \in DOMAIN ImportLibs' : ImportLibs'[k] = lib
               R == IF TheRef.type = "relref32" THEN RefAddresses ELSE {}
               node == [LibNum |-> num, SymNum |-> TheRef.name.sym, Reloc |-> R]
               J == Imports'
               K == ImportLibs'
    <2>1. /\ ImportLibs' = IF lib \in ToSet(ImportLibs) THEN ImportLibs
                           ELSE Append(ImportLibs, lib)
          /\ Imports' = Append(Imports, node)
          /\ Error' = (Error \/ (TheRef.type # "relref32" /\ TheRef.offsets # {}))
          /\ UNCHANGED operand
      BY <1>9 DEF ResolveImport
    <2>2. next \in 1..Len(file.refs)
      BY <1>1, FileTyped DEF Resolving
    <2>3. TheRef.name \in Names
      BY <1>1, <2>2, RefTyped DEF ResolveImport, TheRef, Reference
    <2>4. lib \in Libs /\ TheRef.name = [lib |-> lib, sym |-> TheRef.name.sym]
          /\ TheRef.name.sym \in 0..MAXSYM
      BY <1>9, <2>3, NamesAssumption DEF Libs
    <2>5. /\ Len(ImportLibs) <= Len(K) /\ DOMAIN K = 1..Len(K) /\ Len(K) \in Nat
          /\ \A k \in 1..Len(ImportLibs) : K[k] = ImportLibs[k]
          /\ \A k, l \in 1..Len(K) : K[k] = K[l] => k = l
          /\ \E k \in 1..Len(K) : K[k] = lib
      BY <2>1, <2>4, LibNumbered
    <2>6. num \in 1..Len(K) /\ K[num] = lib
      BY <2>5
    <2>7. IsCode(next) /\ Name(next) = TheRef.name
          /\ (Here(next).type = "relref32" => R = Places(next))
      BY <1>9 DEF IsCode, TheRef, RefAddresses, Places, Name, Here
    <2>8. node.LibNum = num /\ node.SymNum = TheRef.name.sym /\ node.Reloc = R
      OBVIOUS
    <2>9. K = ImportLibs \/ (Len(K) = Len(ImportLibs) + 1 /\ K[Len(ImportLibs) + 1] = lib)
      <3>1. ImportLibs \in Seq(Libs)
        BY DEF Numbers
      <3>2. QED
        BY <2>1, <2>4, <3>1, AppendProperties
    <2>b. J \in Seq(Import) /\ Len(J) \in Nat
      <3>1. Claims'
        BY ImportClaims
      <3>2. QED
        BY <3>1, LenProperties DEF Claims
    <2> HIDE DEF R, num, lib, node
    <2>c. J = Append(Imports, node) /\ Imports \in Seq(Import)
      BY <2>1 DEF Claims
    <2> HIDE DEF J
    <2>10. Len(J) = n + 1 /\ J[n + 1] = node /\ \A i \in 1..n : J[i] = Imports[i]
      <3>1. node \in Import
        <4>1. R \subseteq Nat
          BY <2>2, <2>7, PlacesIn DEF R, RefAddresses, Places, TheRef
        <4>2. TheRef.name.sym \in Nat /\ num \in Nat
          BY <2>4, <2>5, <2>6
        <4>3. QED
          BY <4>1, <4>2 DEF Import, node
      <3>2. QED
        BY <2>c, <3>1, AppendProperties
    <2>11. Grown
      BY <1>1, <1>2, <2>5, <2>10 DEF Grown, J
    <2> DEFINE Z == TheRef.name
    <2>12. \A k : NodeName(k)' = [lib |-> K[J[k].LibNum], sym |-> J[k].SymNum] /\ Node(k)' = J[k].Reloc
      BY DEF NodeName, Node, J
    <2>13. \A k \in 1..n : NodeName(k)' = M(k)
      BY <2>11, NodesStay
    <2> HIDE DEF K, F, N, M, n, L, p
    <2>14. ASSUME NEW k, k = n + 1 PROVE NodeName(k)' = Z /\ Node(k)' = R
      BY <2>4, <2>6, <2>8, <2>10, <2>12, <2>14
    <2>15. n + 1 \in 1..(n + 1) /\ n \in Nat /\ p \in Nat /\ next' = p + 1 /\ p \in 1..L /\ ~F(p)
           /\ Z = N(p) /\ Z.lib # NoLib
      BY <1>1, <1>2, <1>9, <2>2, <2>7 DEF n, p, L, N, F
    <2>16. \A k \in 1..(n + 1) : k \in 1..n \/ k = n + 1
      BY <2>15
    <2>17. ASSUME NEW k \in 1..(n + 1)
           PROVE  \E i \in 1..p : i <= L /\ ~F(i) /\ NodeName(k)' = N(i) /\ N(i).lib # NoLib
      <3>1. CASE k \in 1..n
        <4>1. PICK i \in 1..(p - 1) : i <= L /\ ~F(i) /\ M(k) = N(i) /\ N(i).lib # NoLib
          BY <1>5, <3>1 DEF n
        <4>2. i \in 1..p
          BY <2>15
        <4>3. QED
          BY <2>13, <3>1, <4>1, <4>2
      <3>2. CASE k = n + 1
        <4>1. p \in 1..p /\ p <= L
          BY <2>15
        <4>2. QED
          BY <2>14, <2>15, <3>2, <4>1
      <3>3. QED
        BY <2>16, <3>1, <3>2
    <2>18. ASSUME ImportedOnce, NEW k \in 1..n PROVE M(k) # Z
      <3>1. PICK i \in 1..(p - 1) : i <= L /\ ~F(i) /\ M(k) = N(i) /\ N(i).lib # NoLib
        BY <1>5, <2>18 DEF n
      <3>2. i \in 1..L /\ i # p
        BY <2>15, <3>1
      <3>3. \A u, v \in 1..L : u # v /\ ~F(u) /\ ~F(v) /\ N(u).lib # NoLib => N(u) # N(v)
        BY <2>18 DEF ImportedOnce, F, N, L
      <3>4. N(i) # N(p)
        BY <2>15, <3>1, <3>2, <3>3
      <3>5. QED
        BY <2>15, <3>1, <3>4
    <2>19. ASSUME ImportedOnce, NEW k \in 1..(n + 1), NEW l \in 1..(n + 1),
                  NodeName(k)' = NodeName(l)'
           PROVE  k = l
      BY <1>6, <2>13, <2>14, <2>16, <2>18, <2>19 DEF n
    <2>20. ASSUME NEW l \in 1..Len(K) PROVE \E k \in 1..(n + 1) : J[k].LibNum = l
      <3>1. CASE l \in 1..Len(ImportLibs)
        <4>1. PICK k \in 1..n : Imports[k].LibNum = l
          BY <1>7, <3>1 DEF n
        <4>2. k \in 1..(n + 1) /\ J[k] = Imports[k]
          BY <2>10, <2>15 DEF n
        <4>3. QED
          BY <4>1, <4>2
      <3>2. CASE l \notin 1..Len(ImportLibs)
        <4>1. Len(K) = Len(ImportLibs) + 1 /\ K[l] = lib
          BY <1>2, <2>9, <2>20, <3>2 DEF K
        <4>2. l = num
          BY <2>5, <2>6, <2>20, <4>1 DEF K
        <4>3. QED
          BY <2>8, <2>10, <2>15, <4>2 DEF n
      <3>3. QED
        BY <3>1, <3>2
    <2>21. Nodes'
      <3>1. next' - 1 = p
        BY <2>15
      <3>2. Len(J) = n + 1
        BY <2>10 DEF n
      <3>4. \A k \in 1..Len(J) : \E i \in 1..(next' - 1) :
                /\ i <= Len(file'.refs) /\ ~ToFile(i)' /\ NodeName(k)' = Name(i)'
                /\ Name(i)'.lib # NoLib
        BY <1>1, <1>3, <2>17, <3>1, <3>2 DEF L
      <3>5. ImportedOnce' => \A k, l \in 1..Len(J) : NodeName(k)' = NodeName(l)' => k = l
        BY <1>4, <2>19, <3>2
      <3>6. \A l \in 1..Len(K) : \E k \in 1..Len(J) : J[k].LibNum = l
        BY <2>20, <3>2
      <3>7. QED
        BY <3>4, <3>5, <3>6 DEF Nodes, J, K
    <2>22. Here(next).type = "relref32" =>
             \E k \in 1..Len(J) : Node(k)' = Places(next) /\ NodeName(k)' = Name(next)
      <3> SUFFICES ASSUME Here(next).type = "relref32"
                   PROVE  \E k \in 1..Len(J) : Node(k)' = Places(next) /\ NodeName(k)' = Name(next)
        OBVIOUS
      <3>1. n + 1 \in 1..Len(J)
        BY <2>10, <2>15 DEF n
      <3>2. PICK k \in 1..Len(J) : k = n + 1
        BY <3>1
      <3>3. NodeName(k)' = Z /\ Node(k)' = R
        BY <2>14, <3>2
      <3>4. R = Places(next) /\ Z = Name(next)
        BY <2>7
      <3>5. QED
        BY <3>3, <3>4
    <2>23. QED
      BY <1>9, <2>1, <2>7, <2>11, <2>21, <2>22 DEF J, TheRef, Here
  <1>10. QED
    BY <1>8, <1>9 DEF ResolveImport

-----------------------------------------------------------------------------
(* The longwords that hold references. *)

\* in W the operands of reference r have become v more than they were
Val(W, r, v) == \A o \in r.offsets : W[<<r.section, o>>] = (r.addend + v) % LongMod

\* d is added to the longwords of X, as FixesUp and Relocates do
Adds(W, V, X, d) ==
    V = [x \in DOMAIN W |-> IF x \in X THEN (W[x] + d) % LongMod ELSE W[x]]

\* The operands of a reference in X are d more, those of one apart are the same.
LEMMA AddsIs ==
    ASSUME NEW O, NEW W \in [O -> Longs], NEW V, NEW X, NEW d \in Int, Adds(W, V, X, d)
    PROVE  /\ V \in [O -> Longs]
           /\ \A r, v : /\ r.addend \in Int /\ v \in Int
                        /\ \A o \in r.offsets : <<r.section, o>> \in O /\ <<r.section, o>> \in X
                        /\ Val(W, r, v)
                        => Val(V, r, v + d)
           /\ \A r, v : /\ \A o \in r.offsets : <<r.section, o>> \in O /\ <<r.section, o>> \notin X
                        /\ Val(W, r, v)
                        => Val(V, r, v)
  <1>1. \A x \in O : V[x] = IF x \in X THEN (W[x] + d) % LongMod ELSE W[x]
    BY DEF Adds
  <1>2. \A x \in O : W[x] \in Longs /\ W[x] \in Int
    BY LongsAre
  <1>3. \A x \in O : (W[x] + d) % LongMod \in Longs
    BY <1>2, LongsAre
  <1>4. V \in [O -> Longs]
    BY <1>1, <1>3 DEF Adds
  <1>5. ASSUME NEW r, NEW v, r.addend \in Int, v \in Int, Val(W, r, v),
               \A o \in r.offsets : <<r.section, o>> \in O /\ <<r.section, o>> \in X
        PROVE  Val(V, r, v + d)
    <2> SUFFICES ASSUME NEW o \in r.offsets
                 PROVE  V[<<r.section, o>>] = (r.addend + (v + d)) % LongMod
      BY DEF Val
    <2> DEFINE s == r.addend + v
    <2>1. W[<<r.section, o>>] = s % LongMod
      BY <1>5 DEF Val
    <2>2. V[<<r.section, o>>] = ((s % LongMod) + d) % LongMod
      BY <1>1, <1>5, <2>1
    <2>3. s \in Int /\ r.addend + (v + d) = s + d
      BY <1>5
    <2> HIDE DEF s
    <2>4. ((s % LongMod) + d) % LongMod = (s + d) % LongMod
      BY <2>3, LongsAre, ModAdd
    <2>5. QED
      BY <2>2, <2>3, <2>4
  <1>6. ASSUME NEW r, NEW v, Val(W, r, v),
               \A o \in r.offsets : <<r.section, o>> \in O /\ <<r.section, o>> \notin X
        PROVE  Val(V, r, v)
    BY <1>1, <1>6 DEF Val
  <1>7. QED
    BY <1>4, <1>5, <1>6

\* The operands of the references are the longwords the model has.
LEMMA OperandsOf ==
    ASSUME file \in Files, NEW i \in 1..Len(file.refs)
    PROVE  /\ Here(i).addend \in Int /\ Here(i).addend \in Longs
           /\ \A o \in Here(i).offsets : <<Here(i).section, o>> \in Operands(file)
           /\ \A j \in 1..Len(file.refs) :
                i # j /\ Here(i).section = Here(j).section => Here(i).offsets \cap Here(j).offsets = {}
  <1>1. Here(i).addend \in Longs
    BY RefTyped DEF Here, Reference
  <1>2. \A o \in Here(i).offsets : <<Here(i).section, o>> \in Operands(file)
    BY FileTyped DEF Operands, Here
  <1>3. QED
    BY <1>1, <1>2, LongsAre, FileTyped, OperandsAssumption DEF OperandAssumption, Here

-----------------------------------------------------------------------------
(* The invariant for the operands. *)

\* the kernel has relocated the symbol of this name
NameRead(n) ==
    \E k \in 1..Len(Imports) :
        /\ NodeName(k) = n
        /\ \/ Imports[k].LibNum < LibNum
           \/ pc = "symbol" /\ Imports[k].LibNum = LibNum /\ Imports[k].SymNum < d5

\* or the addresses in the file, those in the bss block, or all
Done(i) ==
    IF ToFile(i)
    THEN \/ pc \in {"lib", "symbol", "running"}
         \/ pc = "bss" /\ Type(To(i)) # "bss"
    ELSE \/ pc = "running"
         \/ pc \in {"lib", "symbol"} /\ NameRead(Name(i))

\* ResolveReloc has passed reference i
Fixed(i) == pc # "place" /\ i < next

\* what has been added to its operands so far
Moved(i) == IF ~Fixed(i) THEN 0 ELSE IF Done(i) THEN Base(i) + Shift(i) ELSE Base(i)

\* so that is what they hold, and every reference passed is settled
Operated ==
    /\ operand \in [Operands(file) -> Longs]
    /\ pc \notin {"failed", "astray"} /\ ~Error =>
          \A i \in 1..Len(file.refs) :
              Val(operand, Here(i), Moved(i)) /\ (Fixed(i) => Settled(i))
    /\ pc = "place" => ~Error
    /\ pc \notin {"place", "resolve", "failed", "astray"} => ~Error /\ next > Len(file.refs)

\* At first each operand holds its addend.
LEMMA InitOperated == Init => Operated
  <1> SUFFICES ASSUME Init PROVE Operated
    OBVIOUS
  <1>1. file \in Files /\ operand = [x \in Operands(file) |-> Ref(file, x).addend]
        /\ pc = "place" /\ Error = FALSE
    BY DEF Init
  <1>2. ASSUME NEW i \in 1..Len(file.refs), NEW o \in Here(i).offsets
        PROVE  Ref(file, <<Here(i).section, o>>) = Here(i)
    <2>1. <<Here(i).section, o>> \in Operands(file)
      BY <1>1, OperandsOf
    <2>2. PICK j \in 1..Len(file.refs) : \E q \in file.refs[j].offsets :
             /\ <<Here(i).section, o>> = <<file.refs[j].section, q>>
             /\ Ref(file, <<Here(i).section, o>>) = file.refs[j]
      BY <1>1, <2>1, RefIs
    <2>3. Here(i).section = Here(j).section /\ o \in Here(i).offsets \cap Here(j).offsets
      BY <2>2 DEF Here
    <2>4. i = j
      BY <1>1, <2>3, OperandsOf
    <2>5. QED
      BY <2>2, <2>4 DEF Here
  <1>3. ASSUME NEW i \in 1..Len(file.refs) PROVE Val(operand, Here(i), 0)
    <2>1. Here(i).addend \in Longs /\ Here(i).addend \in Int
      BY <1>1, OperandsOf
    <2>2. (Here(i).addend + 0) % LongMod = Here(i).addend
      <3>1. Here(i).addend + 0 = Here(i).addend
        BY <2>1
      <3>2. QED
        BY <2>1, <3>1, LongsAre
    <2>3. \A o \in Here(i).offsets : operand[<<Here(i).section, o>>] = Here(i).addend
      BY <1>1, <1>2, OperandsOf
    <2>4. QED
      BY <2>2, <2>3 DEF Val
  <1>4. operand \in [Operands(file) -> Longs]
    <2>1. ASSUME NEW x \in Operands(file) PROVE Ref(file, x).addend \in Longs
      <3>1. PICK i \in 1..Len(file.refs) : Ref(file, x) = file.refs[i]
        BY <1>1, RefIs
      <3>2. QED
        BY <1>1, <3>1, OperandsOf DEF Here
    <2>2. QED
      BY <1>1, <2>1
  <1>5. \A i : Moved(i) = 0 /\ ~Fixed(i)
    BY <1>1 DEF Moved, Fixed
  <1>6. QED
    BY <1>1, <1>3, <1>4, <1>5 DEF Operated

\* A reference is settled when its addresses are in the right table.
LEMMA SettledBy ==
    ASSUME UNCHANGED <<file, placed>>, NEW q,
           \/ Here(q).offsets = {}
           \/ /\ IsCode(q)
              /\ ToFile(q) => \/ Type(To(q)) = "code" /\ Places(q) \subseteq Reloc'
                              \/ Type(To(q)) = "bss"  /\ Places(q) \subseteq RelocBSS'
              /\ ~ToFile(q) => /\ Name(q).lib # NoLib
                               /\ \E k \in 1..Len(Imports') :
                                    Node(k)' = Places(q) /\ NodeName(k)' = Name(q)
    PROVE  Settled(q)'
  <1> DEFINE H == Here(q)
             C == IsCode(q)
             F == ToFile(q)
             T == Type(To(q))
             P == Places(q)
             N == Name(q)
  <1>1. /\ Here(q)' = H /\ IsCode(q)' = C /\ ToFile(q)' = F /\ Type(To(q))' = T
        /\ Places(q)' = P /\ Name(q)' = N
    BY SameRefs
  <1>2. \/ H.offsets = {}
        \/ /\ C
           /\ F => \/ T = "code" /\ P \subseteq Reloc'
                   \/ T = "bss"  /\ P \subseteq RelocBSS'
           /\ ~F => /\ N.lib # NoLib
                    /\ \E k \in 1..Len(Imports') : Node(k)' = P /\ NodeName(k)' = N
    OBVIOUS
  <1> HIDE DEF H, C, F, T, P, N
  <1>3. QED
    BY <1>1, <1>2 DEF Settled

\* An operand of another reference is not one of these.
LEMMA OthersApart ==
    ASSUME file \in Files, NEW p \in 1..Len(file.refs), NEW i \in 1..Len(file.refs), i # p,
           NEW o \in Here(i).offsets
    PROVE  ~(Here(i).section = Here(p).section /\ o \in Here(p).offsets)
  BY OperandsOf

\* A step of ResolveReloc that leaves Error alone has fixed up one reference.
LEMMA OneFixed ==
    ASSUME file \in Files, next \in Nat, AllIn, Claims, Numbers, Nodes, Operated,
           Error \in BOOLEAN,
           ResolveRelTab \/ ResolveXDef \/ ResolveImport
    PROVE  /\ operand' \in [Operands(file) -> Longs]
           /\ Error' \in BOOLEAN /\ (Error => Error')
           /\ ~Error' => /\ \A q : q = next => Settled(q)'
                         /\ Val(operand', Here(next), Base(next))
                         /\ \A i \in 1..Len(file.refs) : \A v :
                               i # next /\ Val(operand, Here(i), v) => Val(operand', Here(i), v)
  <1>1. Resolving /\ NextRef /\ pc = "resolve" /\ next \in 1..Len(file.refs)
        /\ UNCHANGED <<file, placed>>
    BY FileTyped DEF ResolveRelTab, ResolveXDef, ResolveImport, Resolving, NextRef
  <1>2. operand \in [Operands(file) -> Longs]
    BY DEF Operated
  <1>3. ~Error => Val(operand, Here(next), 0)
    BY <1>1 DEF Operated, Moved, Fixed
  <1>4. PICK p \in 1..Len(file.refs) : p = next
    BY <1>1
  <1>h. TheRef = Here(p) /\ \A x : x = p <=> x = next
    BY <1>4 DEF TheRef, Here
  <1>5. CASE RefFails
    <2>1. operand' = operand /\ Error' = (Error \/ Here(p).offsets # {})
      BY <1>5, <1>h DEF RefFails
    <2>2. ASSUME ~Error' PROVE Here(p).offsets = {}
      BY <2>1, <2>2
    <2>3. ASSUME ~Error' PROVE Settled(p)'
      BY <1>1, <2>2, <2>3, SettledBy
    <2>4. ASSUME ~Error' PROVE Val(operand', Here(p), Base(p))
      BY <2>2, <2>4 DEF Val
    <2>5. QED
      BY <1>2, <1>4, <2>1, <2>3, <2>4
  <1>6. ASSUME ResolveRelTab \/ ResolveXDef, ~RefFails
        PROVE  /\ ToFile(p) /\ IsCode(p) /\ FixesUp(Base(p)) /\ UNCHANGED Error
               /\ \/ Type(To(p)) = "code" /\ Places(p) \subseteq Reloc'
                  \/ Type(To(p)) = "bss"  /\ Places(p) \subseteq RelocBSS'
    <2>1. ToFile(p) /\ ResolvesTo(To(p), Off(p))
      BY <1>6, <1>h DEF ResolveRelTab, ResolveXDef, ToFile, To, Off
    <2>2. /\ CanReference(Here(p).section, To(p)) /\ FixesUp(Info[To(p)] + Off(p))
          /\ UNCHANGED Error
          /\ IF Type(To(p)) = "bss" THEN RelocBSS' = RelocBSS \cup RefAddresses
             ELSE Reloc' = Reloc \cup RefAddresses
      BY <1>6, <1>h, <2>1 DEF ResolvesTo
    <2>3. RefAddresses = Places(p)
      BY <1>h DEF RefAddresses, Places, Here
    <2>4. QED
      BY <2>1, <2>2, <2>3 DEF CanReference, IsCode, Base, Here
  <1>7. CASE (ResolveRelTab \/ ResolveXDef) /\ ~RefFails
    <2> DEFINE B == Base(p)
               H == Here(p)
               X == {x \in Operands(file) : x[1] = H.section /\ x[2] \in H.offsets}
               W == operand'
    <2>1. ToFile(p) /\ IsCode(p) /\ FixesUp(B) /\ UNCHANGED Error
      BY <1>6, <1>7
    <2>2. B \in Int
      BY <2>1, MeantIs
    <2>3. Settled(p)'
      BY <1>1, <1>6, <1>7, SettledBy
    <2>4. W = [x \in DOMAIN operand |-> IF x[1] = H.section /\ x[2] \in H.offsets
                                        THEN (operand[x] + B) % LongMod ELSE operand[x]]
      BY <1>h, <2>1 DEF FixesUp
    <2> HIDE DEF W, B
    <2>5. Adds(operand, W, X, B)
      <3>1. DOMAIN operand = Operands(file)
        BY <1>2
      <3>2. \A x \in DOMAIN operand : x \in X <=> (x[1] = H.section /\ x[2] \in H.offsets)
        BY <3>1
      <3>3. QED
        BY <2>4, <3>2 DEF Adds
    <2>6. /\ W \in [Operands(file) -> Longs]
          /\ \A r, v : /\ r.addend \in Int /\ v \in Int
                       /\ \A o \in r.offsets : <<r.section, o>> \in Operands(file) /\ <<r.section, o>> \in X
                       /\ Val(operand, r, v)
                       => Val(W, r, v + B)
          /\ \A r, v : /\ \A o \in r.offsets : <<r.section, o>> \in Operands(file) /\ <<r.section, o>> \notin X
                       /\ Val(operand, r, v)
                       => Val(W, r, v)
      <3> HIDE DEF X
      <3>1. QED
        BY <1>2, <2>2, <2>5, AddsIs
    <2>7. ASSUME ~Error PROVE Val(W, H, B)
      <3>1. H.addend \in Int
        BY OperandsOf
      <3>2. \A o \in H.offsets : <<H.section, o>> \in Operands(file) /\ <<H.section, o>> \in X
        BY OperandsOf
      <3>3. Val(operand, H, 0)
        BY <1>3, <1>4, <2>7
      <3>4. 0 + B = B
        BY <2>2
      <3> HIDE DEF H, X
      <3>5. Val(W, H, 0 + B)
        BY <2>6, <3>1, <3>2, <3>3
      <3>6. QED
        BY <3>4, <3>5
    <2>8. ASSUME NEW i \in 1..Len(file.refs), NEW v, i # p, Val(operand, Here(i), v)
          PROVE  Val(W, Here(i), v)
      <3>1. \A o \in Here(i).offsets : <<Here(i).section, o>> \in Operands(file)
        BY OperandsOf
      <3>2. \A o \in Here(i).offsets : <<Here(i).section, o>> \notin X
        BY <2>8, OthersApart
      <3> HIDE DEF X
      <3>3. QED
        BY <2>6, <2>8, <3>1, <3>2
    <2>9. QED
      BY <1>4, <2>1, <2>3, <2>6, <2>7, <2>8 DEF W, B, H
  <1>8. CASE ResolveImport /\ ~RefFails
    <2>1. /\ IsCode(p) /\ Name(p).lib # NoLib /\ UNCHANGED operand
          /\ Error' = (Error \/ (Here(p).type # "relref32" /\ Here(p).offsets # {}))
          /\ Here(p).type = "relref32" =>
                \E k \in 1..Len(Imports') : Node(k)' = Places(p) /\ NodeName(k)' = Name(p)
      BY <1>4, <1>8, ImportNodes
    <2>2. ~ToFile(p)
      BY <1>8, <1>h DEF ResolveImport, ToFile
    <2>3. Base(p) = 0
      BY <2>2 DEF Base
    <2>4. ASSUME ~Error' PROVE Settled(p)'
      BY <1>1, <2>1, <2>2, <2>4, SettledBy
    <2>5. ASSUME ~Error' PROVE Val(operand', Here(p), Base(p))
      BY <1>3, <1>4, <2>1, <2>3, <2>5
    <2>6. Error' \in BOOLEAN /\ (Error => Error')
      BY <2>1
    <2>7. QED
      BY <1>2, <1>4, <2>1, <2>4, <2>5, <2>6
  <1>9. QED
    BY <1>5, <1>7, <1>8

-----------------------------------------------------------------------------
(* The operands until the file is written. *)

\* Nothing is imported at first.
LEMMA InitNodes == Init => Nodes
  <1> SUFFICES ASSUME Init PROVE Nodes
    OBVIOUS
  <1>1. Imports = <<>> /\ ImportLibs = <<>> /\ Len(Imports) = 0 /\ Len(ImportLibs) = 0
    BY DEF Init
  <1>2. 1..Len(Imports) = {} /\ 1..Len(ImportLibs) = {}
    BY <1>1
  <1>3. QED
    BY <1>2 DEF Nodes

\* Nodes come from references that are resolved.
LEMMA StepNodes == LinkInv /\ TablesInv /\ Nodes /\ [Next]_vars => Nodes'
  <1> SUFFICES ASSUME LinkInv, TablesInv, Nodes, [Next]_vars PROVE Nodes'
    OBVIOUS
  <1>1. file \in Files /\ next \in Nat /\ Claims /\ Numbers
    BY DEF LinkInv, TablesInv
  <1>2. CASE ResolveRelTab \/ ResolveXDef \/ ResolveImport
    <2>1. AllIn
      BY <1>2 DEF ResolveRelTab, ResolveXDef, ResolveImport, Resolving, TablesInv, Layout, AllIn
    <2>2. QED
      BY <1>1, <1>2, <2>1, FileRefNodes, ImportNodes
  <1>3. CASE pc = "place" /\ UNCHANGED <<file, resolved>>
    <2>1. Len(Imports) = 0 /\ Len(ImportLibs) = 0 /\ UNCHANGED <<Imports, ImportLibs>>
      BY <1>3 DEF TablesInv, Empty, resolved
    <2>2. 1..Len(Imports) = {} /\ 1..Len(ImportLibs) = {}
      BY <2>1
    <2>3. QED
      BY <2>1, <2>2 DEF Nodes
  <1>4. CASE UNCHANGED <<file, next, placed, resolved>>
    <2> DEFINE F(i) == ToFile(i)
               N(i) == Name(i)
               M(k) == NodeName(k)
    <2>1. \A i : ToFile(i)' = F(i) /\ Name(i)' = N(i)
      BY <1>4, SameRefs
    <2>2. \A k : NodeName(k)' = M(k)
      BY <1>4 DEF NodeName, resolved
    <2>3. QED
      BY <1>4, <2>1, <2>2 DEF Nodes, ImportedOnce, resolved
  <1>5. Place \/ AllPlaced => pc = "place" /\ UNCHANGED <<file, resolved>>
    BY DEF Place, AllPlaced, Placed
  <1>6. Fails \/ AllResolved \/ DumpImport \/ DumpLibEnd \/ Write
          => UNCHANGED <<file, next, placed, resolved>>
    BY DEF Fails, AllResolved, DumpImport, DumpLibEnd, Write
  <1>7. (\/ ReadsAstray \/ DoReloc \/ DoBss \/ ImportLib \/ ImportSymbol \/ ImportLibEnd
         \/ Finished \/ UNCHANGED vars)
          => UNCHANGED <<file, next, placed, resolved>>
    BY DEF ReadsAstray, DoReloc, DoBss, ImportLib, ImportSymbol, ImportLibEnd, Finished, vars, placed, resolved
  <1>8. QED
    BY <1>2, <1>3, <1>4, <1>5, <1>6, <1>7
       DEF Next, DuplicateTibasic, BssTooLarge, Unresolved, FileTooLarge

\* A step that changes no operand, and no reference's state.
LEMMA OperatedKept ==
    ASSUME Operated, UNCHANGED <<file, placed, resolved, operand>>,
           pc' \notin {"failed", "astray"} =>
              \A i \in 1..Len(file.refs) : (Fixed(i)' <=> Fixed(i)) /\ Moved(i)' = Moved(i),
           pc' = "place" => pc = "place",
           pc \in {"failed", "astray"} => pc' \in {"failed", "astray"},
           pc' \notin {"place", "resolve", "failed", "astray"} => ~Error /\ next' > Len(file.refs)
    PROVE  Operated'
  <1> DEFINE H(i) == Here(i)
             S(i) == Settled(i)
  <1>1. \A i : Here(i)' = H(i)
    BY SameRefs
  <1>2. \A i : Settled(i)' = S(i)
    <2> DEFINE C(i) == IsCode(i)
               F(i) == ToFile(i)
               T(i) == Type(To(i))
               P(i) == Places(i)
               N(i) == Name(i)
               E(k) == Node(k)
               A(k) == NodeName(k)
    <2>1. \A i : /\ Here(i)' = H(i) /\ IsCode(i)' = C(i) /\ ToFile(i)' = F(i) /\ Type(To(i))' = T(i)
                 /\ Places(i)' = P(i) /\ Name(i)' = N(i)
      BY SameRefs
    <2>2. \A k : Node(k)' = E(k) /\ NodeName(k)' = A(k)
      BY DEF Node, NodeName, resolved
    <2>3. QED
      BY <2>1, <2>2 DEF Settled, resolved
  <1>3. CASE pc' \in {"failed", "astray"}
    BY <1>3 DEF Operated
  <1>4. CASE pc' \notin {"failed", "astray"}
    <2> DEFINE W(i) == Moved(i)
               D(i) == Fixed(i)
    <2>1. \A i \in 1..Len(file.refs) : (Fixed(i)' <=> D(i)) /\ Moved(i)' = W(i)
      BY <1>4
    <2>2. ~Error => \A i \in 1..Len(file.refs) : Val(operand, H(i), W(i)) /\ (D(i) => S(i))
      BY <1>4 DEF Operated
    <2> HIDE DEF W, D, H, S
    <2>3. QED
      BY <1>1, <1>2, <1>4, <2>1, <2>2 DEF Operated, resolved
  <1>5. QED
    BY <1>3, <1>4

\* A step of ResolveReloc.
LEMMA ResolveOperated ==
    ASSUME file \in Files, next \in Nat, AllIn, Claims, Numbers, Nodes, Operated,
           Error \in BOOLEAN,
           ResolveRelTab \/ ResolveXDef \/ ResolveImport
    PROVE  Operated'
  <1> DEFINE p == next
             L == Len(file.refs)
             W == operand'
             H(i) == Here(i)
             B(i) == Base(i)
             S(i) == Settled(i)
  <1>1. /\ pc = "resolve" /\ pc' = "resolve" /\ p \in 1..L /\ L \in Nat /\ next' = p + 1
        /\ UNCHANGED <<file, placed>>
    BY FileTyped DEF ResolveRelTab, ResolveXDef, ResolveImport, Resolving, NextRef
  <1>2. Grown
    BY FileRefNodes, ImportNodes
  <1>3. /\ W \in [Operands(file) -> Longs] /\ Error' \in BOOLEAN /\ (Error => Error')
        /\ ~Error' => /\ \A q : q = p => Settled(q)'
                      /\ Val(W, H(p), B(p))
                      /\ \A i \in 1..L : \A v : i # p /\ Val(operand, H(i), v) => Val(W, H(i), v)
    BY OneFixed
  <1>4. \A i : Here(i)' = H(i) /\ Base(i)' = B(i)
    BY <1>1, SameRefs
  <1>5. \A i : S(i) => Settled(i)'
    BY <1>2, SettledStays
  <1>6. \A i : Moved(i) = (IF i < p THEN B(i) ELSE 0) /\ (Fixed(i) <=> i < p)
    BY <1>1 DEF Moved, Fixed, Done
  <1>7. \A i : Moved(i)' = (IF i < p + 1 THEN B(i) ELSE 0) /\ (Fixed(i)' <=> i < p + 1)
    BY <1>1, <1>4 DEF Moved, Fixed, Done
  <1>8. ~Error => \A i \in 1..L : Val(operand, H(i), IF i < p THEN B(i) ELSE 0) /\ (i < p => S(i))
    BY <1>1, <1>6 DEF Operated
  <1> HIDE DEF B, H, S, W, L, p
  <1>9. ASSUME ~Error', NEW i \in 1..L
        PROVE  /\ Val(W, H(i), IF i < p + 1 THEN B(i) ELSE 0)
               /\ i < p + 1 => Settled(i)'
    <2>1. i \in Nat /\ p \in Nat
      BY <1>1
    <2>2. ~Error
      BY <1>3, <1>9
    <2>3. CASE i = p
      <3>1. i < p + 1
        BY <2>1, <2>3
      <3>2. Settled(i)' /\ Val(W, H(i), B(i))
        BY <1>3, <1>9, <2>3
      <3>3. QED
        BY <3>1, <3>2
    <2>4. CASE i # p
      <3>1. i < p + 1 <=> i < p
        BY <2>1, <2>4
      <3>2. Val(operand, H(i), IF i < p THEN B(i) ELSE 0) /\ (i < p => S(i))
        BY <1>8, <2>2
      <3>3. Val(W, H(i), IF i < p THEN B(i) ELSE 0)
        BY <1>3, <1>9, <2>4, <3>2
      <3>4. QED
        BY <1>5, <3>1, <3>2, <3>3
    <2>5. QED
      BY <2>3, <2>4
  <1>10. operand' \in [Operands(file) -> Longs]
    BY <1>3 DEF W
  <1>11. ASSUME ~Error', NEW i \in 1..L
         PROVE  Val(operand', Here(i)', Moved(i)') /\ (Fixed(i)' => Settled(i)')
    <2>1. Val(operand', H(i), IF i < p + 1 THEN B(i) ELSE 0) /\ (i < p + 1 => Settled(i)')
      BY <1>9, <1>11 DEF W
    <2>2. QED
      BY <1>4, <1>7, <2>1
  <1>12. QED
    BY <1>1, <1>10, <1>11 DEF Operated, L

\* The linker's steps.
LEMMA LinkerOperated ==
    ASSUME LinkInv, TablesInv, Nodes, Operated,
           \/ Place \/ Fails \/ AllPlaced \/ ResolveRelTab \/ ResolveXDef \/ ResolveImport
           \/ AllResolved \/ DumpImport \/ DumpLibEnd \/ Write
           \/ ReadsAstray \/ Finished \/ UNCHANGED vars
    PROVE  Operated'
  <1>1. file \in Files /\ next \in Nat /\ Claims /\ Numbers /\ Error \in BOOLEAN
        /\ Len(file.refs) \in Nat
    BY FileTyped DEF LinkInv, TablesInv
  <1>2. CASE Place
    <2>1. /\ pc = "place" /\ pc' = "place" /\ UNCHANGED <<file, operand, Error>> /\ ~Error
          /\ operand \in [Operands(file) -> Longs]
      BY <1>2 DEF Place, Operated, resolved
    <2>2. \A i : Moved(i) = 0 /\ ~Fixed(i) /\ Moved(i)' = 0 /\ ~Fixed(i)'
      BY <2>1 DEF Moved, Fixed
    <2>3. \A i : Here(i)' = Here(i)
      BY <2>1 DEF Here
    <2>4. \A i \in 1..Len(file.refs) : Val(operand, Here(i), 0)
      BY <2>1, <2>2 DEF Operated
    <2>5. \A i \in 1..Len(file'.refs) : Val(operand', Here(i)', Moved(i)')
      BY <2>1, <2>2, <2>3, <2>4
    <2>6. QED
      BY <2>1, <2>2, <2>5 DEF Operated
  <1>3. CASE Fails \/ ReadsAstray
    BY <1>3, OperatedKept DEF Fails, ReadsAstray
  <1>4. CASE AllPlaced
    <2>1. /\ pc = "place" /\ pc' = "resolve" /\ next' = 1
          /\ UNCHANGED <<file, placed, resolved, operand>>
      BY <1>4 DEF AllPlaced, Placed
    <2>2. \A i \in 1..Len(file.refs) : /\ Moved(i) = 0 /\ ~Fixed(i)
                                       /\ Moved(i)' = 0 /\ ~Fixed(i)'
      BY <2>1 DEF Moved, Fixed
    <2>3. QED
      BY <2>1, <2>2, OperatedKept
  <1>5. CASE ResolveRelTab \/ ResolveXDef \/ ResolveImport
    <2>1. AllIn
      BY <1>5 DEF ResolveRelTab, ResolveXDef, ResolveImport, Resolving, TablesInv, Layout, AllIn
    <2>2. QED
      BY <1>1, <1>5, <2>1, ResolveOperated
  <1>6. CASE AllResolved \/ DumpImport \/ DumpLibEnd \/ Write
    <2>1. /\ pc \in {"resolve", "dump"} /\ pc' \in {"dump", "reloc"}
          /\ UNCHANGED <<file, next, placed, resolved, operand>>
          /\ pc = "resolve" => ~Error /\ next > Len(file.refs)
      BY <1>6 DEF AllResolved, Resolved, DumpImport, DumpLibEnd, Dumping, Write, AllDumped
    <2>2. ~Error /\ next > Len(file.refs)
      BY <2>1 DEF Operated
    <2> DEFINE B(i) == Base(i)
    <2>3. \A i : Base(i)' = B(i)
      BY <2>1, SameRefs
    <2>4. \A i : /\ Moved(i) = (IF i < next THEN B(i) ELSE 0) /\ (Fixed(i) <=> i < next)
                 /\ Moved(i)' = (IF i < next THEN B(i) ELSE 0) /\ (Fixed(i)' <=> i < next)
      BY <2>1, <2>3 DEF Moved, Fixed, Done
    <2>5. QED
      BY <2>1, <2>2, <2>4, OperatedKept
  <1>7. CASE Finished \/ UNCHANGED vars
    <2>1. UNCHANGED vars
      BY <1>7 DEF Finished
    <2>2. \A i : (Fixed(i)' <=> Fixed(i)) /\ Moved(i)' = Moved(i)
      BY <2>1 DEF vars, Fixed, Moved, Done, ToFile, To, Type, Base, Shift, Off, Name, Here, NameRead, NodeName
    <2>3. UNCHANGED <<file, placed, resolved, operand, pc, next>>
      BY <2>1 DEF vars, placed, resolved
    <2>4. pc \notin {"place", "resolve", "failed", "astray"} => ~Error /\ next' > Len(file.refs)
      BY <2>3 DEF Operated
    <2>5. QED
      BY <2>2, <2>3, <2>4, OperatedKept
  <1>8. QED
    BY <1>2, <1>3, <1>4, <1>5, <1>6, <1>7

-----------------------------------------------------------------------------
(* The entries of the import table. *)

\* A set of numbers that is not empty has a least element.
LEMMA LeastExists ==
    ASSUME NEW S, S \subseteq Nat, S # {}
    PROVE  \E a \in S : \A b \in S : a <= b
  <1> DEFINE R == {ss \in Nat \X Nat : ss[1] < ss[2]}
  <1>1. IsWellFoundedOn(R, Nat)
    BY NatLessThanWellFounded DEF OpToRel
  <1> HIDE DEF R
  <1>2. PICK a \in S : \A b \in S : <<b, a>> \notin R
    BY <1>1, WFMin
  <1>3. ASSUME NEW b \in S, ~ (a <= b)
        PROVE  FALSE
    <2>1. a \in Nat /\ b \in Nat /\ b < a
      BY <1>3
    <2>2. <<b, a>> \in R
      BY <2>1 DEF R
    <2>3. QED
      BY <1>2, <2>2
  <1>4. QED
    BY <1>3

\* ListSortIter stops at the first of the least nodes that remain.
LEMMA LeastIs ==
    ASSUME Claims, NEW S, S \subseteq 1..Len(Imports), S # {}
    PROVE  /\ Least(S) \in S
           /\ \A j \in S : Imports[Least(S)].SymNum <= Imports[j].SymNum
  <1> DEFINE Sym(i) == Imports[i].SymNum
  <1>1. \A i \in S : Sym(i) \in Nat /\ i \in Nat
    <2> SUFFICES ASSUME NEW i \in S PROVE Sym(i) \in Nat /\ i \in Nat
      OBVIOUS
    <2>1. i \in 1..Len(Imports) /\ Imports \in Seq(Import)
      BY DEF Claims
    <2>2. Imports[i] \in Import
      BY <2>1, ElementOfSeq
    <2>3. QED
      BY <2>1, <2>2 DEF Import
  <1> HIDE DEF Sym
  <1> DEFINE Syms == {Sym(i) : i \in S}
  <1>2. PICK s \in Syms : \A t \in Syms : s <= t
    <2>1. Syms \subseteq Nat /\ Syms # {}
      BY <1>1
    <2>2. QED
      BY <2>1, LeastExists
  <1> DEFINE First == {i \in S : Sym(i) = s}
  <1>3. PICK a \in First : \A i \in First : a <= i
    <2>1. First \subseteq Nat /\ First # {}
      BY <1>1, <1>2
    <2>2. QED
      BY <2>1, LeastExists
  <1> DEFINE P(i) == \A j \in S \ {i} : \/ Sym(i) < Sym(j)
                                        \/ Sym(i) = Sym(j) /\ i < j
  <1>4. P(a)
    <2> SUFFICES ASSUME NEW j \in S \ {a}
                 PROVE  Sym(a) < Sym(j) \/ (Sym(a) = Sym(j) /\ a < j)
      OBVIOUS
    <2>1. a \in S /\ Sym(a) = s /\ a \in Nat /\ j \in Nat /\ a # j /\ Sym(j) \in Nat /\ s \in Nat
      BY <1>1, <1>3
    <2>2. s <= Sym(j)
      BY <1>2
    <2>3. CASE Sym(j) = s
      <3>1. a <= j
        BY <1>3, <2>3
      <3>2. QED
        BY <2>1, <2>3, <3>1
    <2>4. CASE Sym(j) # s
      BY <2>1, <2>2, <2>4
    <2>5. QED
      BY <2>3, <2>4
  <1>5. Least(S) = CHOOSE i \in S : P(i)
    BY DEF Least, Sym
  <1>6. Least(S) \in S /\ P(Least(S))
    <2> HIDE DEF P
    <2>1. QED
      BY <1>3, <1>4, <1>5
  <1>7. ASSUME NEW j \in S PROVE Sym(Least(S)) <= Sym(j)
    <2> DEFINE q == Least(S)
    <2>1. q \in S /\ (j # q => Sym(q) < Sym(j) \/ Sym(q) = Sym(j))
      BY <1>6
    <2> HIDE DEF q
    <2>2. QED
      BY <1>1, <2>1 DEF q
  <1>8. QED
    BY <1>6, <1>7 DEF Sym

Byte  == 0..255
Entries == [delta : Seq(Byte), reloc : SUBSET Nat]

\* Delta is a byte below 128, or a word with its first bit set.
LEMMA DeltaIs ==
    ASSUME NEW d \in Nat, 1 <= d, d <= MAXSYM + 1
    PROVE  /\ Delta(d) \in Seq(Byte) /\ Delta(d)[1] # 0
           /\ \/ d < 128 /\ Delta(d)[1] = d
              \/ ~(d < 128) /\ ~(Delta(d)[1] < 128) /\ Delta(d)[1] * 256 + Delta(d)[2] = 32768 + d
  <1>1. d <= 8191
    BY DEF MAXSYM
  <1>2. CASE d < 128
    <2>1. Delta(d) = <<d>> /\ d \in Byte
      BY <1>2 DEF Delta, Byte
    <2>2. <<d>> \in Seq(Byte) /\ <<d>>[1] = d
      BY <2>1
    <2>3. QED
      BY <1>2, <2>1, <2>2
  <1>3. CASE ~(d < 128)
    <2>1. (32768 + d) % 65536 = 32768 + d
      BY <1>1
    <2> DEFINE w == 32768 + d
               h == w \div 256
               l == w % 256
    <2>2. Delta(d) = <<h, l>>
      BY <1>3, <2>1 DEF Delta
    <2>3. w \in Nat /\ 32768 <= w /\ w <= 40959
      BY <1>1
    <2>4. h \in Int /\ l \in Int /\ w = 256 * h + l /\ 0 <= l /\ l < 256
      BY <2>3
    <2> HIDE DEF w, h, l
    <2>5. h \in Byte /\ l \in Byte /\ ~(h < 128) /\ h * 256 + l = w
      BY <2>3, <2>4 DEF Byte
    <2>6. <<h, l>> \in Seq(Byte) /\ <<h, l>>[1] = h /\ <<h, l>>[2] = l
      BY <2>5
    <2>7. QED
      BY <1>3, <2>2, <2>5, <2>6 DEF w
  <1>4. QED
    BY <1>2, <1>3

\* do_imports counts it to the number of the symbol and one.
LEMMA CountedIs ==
    ASSUME NEW s \in Nat, s <= MAXSYM, d5 \in Nat, d5 <= s
    PROVE  Counted(Delta(s - (d5 - 1))) = s + 1
  <1> DEFINE d == s - (d5 - 1)
             D == Delta(d)
             m == IF ImportLibs[LibNum] = TIOS THEN 16384 ELSE 32768
             d0 == IF D[1] < 128 THEN D[1] ELSE D[1] * 256 + D[2]
  <1>1. d \in Nat /\ 1 <= d /\ d <= MAXSYM + 1 /\ d5 + d = s + 1 /\ s <= 8190
    BY DEF MAXSYM
  <1> HIDE DEF d
  <1>2. \/ d < 128 /\ D[1] = d
        \/ ~(d < 128) /\ ~(D[1] < 128) /\ D[1] * 256 + D[2] = 32768 + d
    BY <1>1, DeltaIs
  <1> HIDE DEF D
  <1>3. d0 = d \/ d0 = 32768 + d
    BY <1>2
  <1>4. Counted(D) = (d5 + d0) % m
    BY DEF Counted
  <1> HIDE DEF d0
  <1>5. (d5 + d0) % m = s + 1
    <2>1. d5 + d0 = s + 1 \/ d5 + d0 = 32768 + (s + 1)
      BY <1>1, <1>3
    <2>2. \A x \in 0..8191 : x % 16384 = x /\ x % 32768 = x /\ (32768 + x) % 16384 = x /\ (32768 + x) % 32768 = x
      OBVIOUS
    <2>3. s + 1 \in 0..8191
      BY <1>1
    <2>4. QED
      BY <2>1, <2>2, <2>3
  <1>6. QED
    BY <1>4, <1>5 DEF D, d

-----------------------------------------------------------------------------
(* The import table: between any two entries the reader is at the symbol   *)
(* the writer was at.                                                      *)

\* the number of the library and of its symbol that was the last
Mark == {m \in [lib : Nat \ {0}, last : Int] : -1 <= m.last /\ m.last <= MAXSYM}

\* after mark m there are no more symbols of its library
LibEnds(m) ==
    /\ m.lib \in 1..Len(ImportLibs)
    /\ \A k \in 1..Len(Imports) : Imports[k].LibNum = m.lib => Imports[k].SymNum <= m.last

\* or the least of them is that of node k
Follows(m, k) ==
    /\ Imports[k].LibNum = m.lib /\ m.last < Imports[k].SymNum
    /\ \A j \in 1..Len(Imports) :
          Imports[j].LibNum = m.lib =>
              Imports[j].SymNum <= m.last \/ Imports[k].SymNum <= Imports[j].SymNum

\* e is what Dump writes between the marks m and t
Entry(e, m, t) ==
    \/ LibEnds(m) /\ e = Null /\ t = [lib |-> m.lib + 1, last |-> -1]
    \/ \E k \in 1..Len(Imports) :
          /\ Follows(m, k)
          /\ e = [delta |-> Delta(Imports[k].SymNum - m.last), reloc |-> Node(k)]
          /\ t = [lib |-> m.lib, last |-> Imports[k].SymNum]

\* the first n entries of table T lead from mark to mark
Marked(T, M, n) ==
    /\ M \in [0..n -> Mark] /\ M[0] = [lib |-> 1, last |-> -1]
    /\ \A q \in 1..n : Entry(T[q], M[q - 1], M[q])

AtLast == [lib |-> LibNum, last |-> LastSymNum]
\* the mark behind the last library, and that of do_imports
TheEnd == [lib |-> Len(ImportLibs) + 1, last |-> -1]
Reader == [lib |-> LibNum, last |-> IF pc = "symbol" THEN d5 - 1 ELSE -1]

\* the whole table, the last entry ending it
Whole(T, M, n) ==
    Marked(T, M, n) /\ Len(T) = n + 1 /\ T[n + 1] = Null /\ M[n] = TheEnd

\* what Dump has written, then what do_imports has read, lead to where it is
TableInv ==
    /\ table \in Seq(Entries) /\ d5 \in Nat
    /\ pc \in {"place", "resolve"} => table = <<>> /\ LibNum = 1 /\ LastSymNum = -1
    /\ pc \notin {"failed", "astray", "lib", "symbol", "running"} => a2 = 0
    /\ pc = "dump" =>
          /\ \E M : Marked(table, M, Len(table)) /\ M[Len(table)] = AtLast
          /\ LibNum <= Len(ImportLibs) \/ AtLast = TheEnd
    /\ Loaded => (ImportLibs # <<>> =>
          \E n \in Nat : \E M : Whole(table, M, n) /\ a2 \in 0..n /\ M[a2] = Reader)
    /\ pc \in {"lib", "symbol"} => ImportLibs # <<>>
    /\ pc = "symbol" => LibNum <= Len(ImportLibs)

\* With the lists as they are the entries are the same.
LEMMA MarkedKept ==
    ASSUME UNCHANGED <<Imports, ImportLibs>>, NEW T, NEW M, NEW n
    PROVE  (Marked(T, M, n) <=> Marked(T, M, n)') /\ (Whole(T, M, n) <=> Whole(T, M, n)')
  BY DEF Marked, Whole, Entry, LibEnds, Follows, Node, TheEnd

\* One entry more.
Longer(U, T, e) == U = Append(T, e)

\* An entry that leads on from the last mark makes the table longer.
LEMMA MarkAdds ==
    ASSUME NEW T \in Seq(Entries), NEW M, NEW n, n = Len(T), Marked(T, M, n),
           NEW e \in Entries, NEW t \in Mark, Entry(e, M[n], t), NEW U, Longer(U, T, e)
    PROVE  /\ U \in Seq(Entries) /\ Len(U) = n + 1
           /\ \E N : Marked(U, N, n + 1) /\ N[n + 1] = t
  <1> DEFINE N == [q \in 0..(n + 1) |-> IF q = n + 1 THEN t ELSE M[q]]
  <1>1. n \in Nat /\ U \in Seq(Entries) /\ Len(U) = n + 1 /\ U[n + 1] = e
        /\ \A q \in 1..n : U[q] = T[q]
    BY AppendProperties, LenProperties DEF Longer
  <1>2. M \in [0..n -> Mark] /\ M[0] = [lib |-> 1, last |-> -1]
        /\ \A q \in 1..n : Entry(T[q], M[q - 1], M[q])
    BY DEF Marked
  <1>3. \A q \in 0..(n + 1) : q = n + 1 \/ q \in 0..n
    BY <1>1
  <1>4. N \in [0..(n + 1) -> Mark]
    BY <1>2, <1>3
  <1>5. N[n + 1] = t /\ \A q \in 0..n : N[q] = M[q]
    BY <1>1
  <1> HIDE DEF N
  <1>6. N[0] = [lib |-> 1, last |-> -1]
    BY <1>1, <1>2, <1>5
  <1>7. ASSUME NEW q \in 1..(n + 1) PROVE Entry(U[q], N[q - 1], N[q])
    <2>1. CASE q = n + 1
      <3>1. q - 1 = n /\ n \in 0..n
        BY <1>1, <2>1
      <3>2. QED
        BY <1>1, <1>5, <2>1, <3>1
    <2>2. CASE q # n + 1
      <3>1. q \in 1..n /\ q - 1 \in 0..n /\ q \in 0..n
        BY <1>1, <2>2
      <3>2. QED
        BY <1>1, <1>2, <1>5, <3>1
    <2>3. QED
      BY <2>1, <2>2
  <1>8. QED
    BY <1>1, <1>4, <1>5, <1>6, <1>7 DEF Marked

\* The numbers of a node.
LEMMA NodeTyped ==
    ASSUME Claims, Numbers, NEW k \in 1..Len(Imports)
    PROVE  /\ Imports[k].LibNum \in 1..Len(ImportLibs)
           /\ Imports[k].SymNum \in Nat /\ Imports[k].SymNum <= MAXSYM
           /\ Node(k) \subseteq Nat
  <1>1. Imports \in Seq(Import)
    BY DEF Claims
  <1>2. Imports[k] \in Import
    BY <1>1, ElementOfSeq
  <1>3. QED
    BY <1>2 DEF Import, Numbers, Node

\* The entry of a node.
LEMMA EntryTyped ==
    ASSUME Claims, Numbers, NEW m \in Mark, NEW k \in 1..Len(Imports), m.last < Imports[k].SymNum
    PROVE  /\ [delta |-> Delta(Imports[k].SymNum - m.last), reloc |-> Node(k)] \in Entries
           /\ Delta(Imports[k].SymNum - m.last)[1] # 0
  <1> DEFINE s == Imports[k].SymNum
             d == s - m.last
  <1>1. s \in Nat /\ s <= MAXSYM /\ m.last \in Int /\ -1 <= m.last /\ m.last < s
        /\ Node(k) \subseteq Nat /\ MAXSYM \in Nat
    BY NodeTyped DEF Mark, MAXSYM
  <1> HIDE DEF s
  <1>2. d \in Nat /\ 1 <= d /\ d <= MAXSYM + 1
    BY <1>1
  <1> HIDE DEF d
  <1>3. Delta(d) \in Seq(Byte) /\ Delta(d)[1] # 0
    BY <1>2, DeltaIs
  <1>4. QED
    BY <1>1, <1>3 DEF d, s, Entries

\* The end of a list is an entry, and starts with the byte 0.
LEMMA NullTyped == Null \in Entries /\ Null.delta[1] = 0
  <1>1. 0 \in Byte /\ <<0>>[1] = 0
    BY DEF Byte
  <1>2. <<0>> \in Seq(Byte)
    BY <1>1
  <1>3. QED
    BY <1>1, <1>2 DEF Null, Entries

\* Dump writes the entries one by one.
LEMMA DumpMarks ==
    ASSUME Claims, Numbers, TableInv, DumpImport \/ DumpLibEnd
    PROVE  TableInv'
  <1> DEFINE n == Len(table)
  <1>1. /\ pc = "dump" /\ pc' = "dump" /\ LibNum <= Len(ImportLibs) /\ table \in Seq(Entries)
        /\ UNCHANGED <<Imports, ImportLibs, a2, d5>> /\ d5 \in Nat /\ a2 = 0 /\ n \in Nat
    BY LenProperties DEF DumpImport, DumpLibEnd, Dumping, TableInv, resolved, read
  <1>2. PICK M : Marked(table, M, n) /\ M[n] = AtLast
    BY <1>1 DEF TableInv
  <1>3. AtLast \in Mark
    <2>1. M \in [0..n -> Mark] /\ n \in 0..n
      BY <1>1, <1>2 DEF Marked
    <2>2. QED
      BY <1>2, <2>1
  <1>4. LibNum \in Nat \ {0} /\ LastSymNum \in Int /\ -1 <= LastSymNum /\ LastSymNum <= MAXSYM
        /\ AtLast.lib = LibNum /\ AtLast.last = LastSymNum
    BY <1>3 DEF Mark, AtLast
  <1>5. \A k \in 1..Len(Imports) : k \in Remaining <=> (Imports[k].LibNum = LibNum /\ LastSymNum < Imports[k].SymNum)
    <2>1. DOMAIN Imports = 1..Len(Imports)
      BY LenProperties DEF Claims
    <2> SUFFICES ASSUME NEW k \in 1..Len(Imports)
                 PROVE  k \in Remaining <=> (Imports[k].LibNum = LibNum /\ LastSymNum < Imports[k].SymNum)
      OBVIOUS
    <2>2. Imports[k].SymNum > LastSymNum <=> LastSymNum < Imports[k].SymNum
      BY <1>4, NodeTyped
    <2>3. QED
      BY <2>1, <2>2 DEF Remaining
  <1>6. Remaining \subseteq 1..Len(Imports)
    BY LenProperties DEF Remaining, Claims
  <1>7. CASE DumpImport
    <2>1. PICK k \in 1..Len(Imports) :
             /\ k \in Remaining /\ k = Least(Remaining)
             /\ \A j \in Remaining : Imports[k].SymNum <= Imports[j].SymNum
      <3>1. Remaining # {}
        BY <1>7 DEF DumpImport
      <3>2. QED
        BY <1>6, <3>1, LeastIs
    <2> DEFINE s == Imports[k].SymNum
               e == [delta |-> Delta(s - LastSymNum), reloc |-> Node(k)]
               t == [lib |-> LibNum, last |-> s]
    <2>2. table' = Append(table, e) /\ LastSymNum' = s /\ LibNum' = LibNum
      BY <1>7, <2>1 DEF DumpImport, Node
    <2>3. s \in Nat /\ s <= MAXSYM /\ Imports[k].LibNum = LibNum /\ LastSymNum < s
      BY <1>5, <2>1, NodeTyped
    <2>4. e \in Entries
      BY <1>3, <1>4, <2>3, EntryTyped
    <2>5. t \in Mark
      BY <1>4, <2>3 DEF Mark
    <2>6. Follows(AtLast, k)
      <3>1. ASSUME NEW j \in 1..Len(Imports), Imports[j].LibNum = LibNum, ~(Imports[j].SymNum <= LastSymNum)
            PROVE  s <= Imports[j].SymNum
        <4>1. LastSymNum < Imports[j].SymNum
          BY <1>4, <3>1, NodeTyped
        <4>2. j \in Remaining
          BY <1>5, <3>1, <4>1
        <4>3. QED
          BY <2>1, <4>2
      <3>2. QED
        BY <1>4, <2>3, <3>1 DEF Follows
    <2>7. Entry(e, M[n], t)
      BY <1>2, <1>4, <2>6 DEF Entry
    <2>8. t = AtLast' /\ LibNum' <= Len(ImportLibs')
      BY <1>1, <2>2 DEF AtLast
    <2> HIDE DEF e, t
    <2>9. PICK U : U = table' /\ Longer(U, table, e)
      BY <2>2 DEF Longer
    <2>a. n = Len(table)
      OBVIOUS
    <2>10. /\ U \in Seq(Entries) /\ Len(U) = n + 1
           /\ \E N : Marked(U, N, n + 1) /\ N[n + 1] = t
      <3> HIDE DEF n
      <3>1. QED
        BY <1>1, <1>2, <2>a, <2>4, <2>5, <2>7, <2>9, MarkAdds
    <2>11. PICK N : Marked(U, N, n + 1) /\ N[n + 1] = t
      BY <2>10
    <2>12. PICK l \in Nat : l = n + 1
      BY <1>1
    <2>13. Marked(U, N, l)'
      BY <1>1, <2>11, <2>12, MarkedKept
    <2>14. QED
      BY <1>1, <2>8, <2>9, <2>10, <2>11, <2>12, <2>13 DEF TableInv, Loaded
  <1>8. CASE DumpLibEnd
    <2> DEFINE t == [lib |-> LibNum + 1, last |-> -1]
    <2>1. Remaining = {} /\ table' = Append(table, Null) /\ LibNum' = LibNum + 1 /\ LastSymNum' = -1
      BY <1>8 DEF DumpLibEnd
    <2>2. t \in Mark
      BY <1>4 DEF Mark, MAXSYM
    <2>3. LibEnds(AtLast)
      <3>1. LibNum \in 1..Len(ImportLibs)
        <4>1. Len(ImportLibs) \in Nat
          BY LenProperties DEF Numbers
        <4>2. QED
          BY <1>1, <1>4, <4>1
      <3>2. ASSUME NEW k \in 1..Len(Imports), Imports[k].LibNum = LibNum
            PROVE  Imports[k].SymNum <= LastSymNum
        <4>1. ~(LastSymNum < Imports[k].SymNum)
          BY <1>5, <2>1, <3>2
        <4>2. QED
          BY <1>4, <4>1, NodeTyped
      <3>3. QED
        BY <1>4, <3>1, <3>2 DEF LibEnds
    <2>4. Entry(Null, M[n], t)
      BY <1>2, <1>4, <2>3 DEF Entry
    <2>5. t = AtLast'
      BY <2>1 DEF AtLast
    <2>6. LibNum' <= Len(ImportLibs') \/ AtLast' = TheEnd'
      <3>1. Len(ImportLibs) \in Nat
        BY LenProperties DEF Numbers
      <3>2. LibNum + 1 <= Len(ImportLibs) \/ LibNum = Len(ImportLibs)
        BY <1>1, <1>4, <3>1
      <3>3. QED
        BY <1>1, <2>1, <3>2 DEF AtLast, TheEnd
    <2> HIDE DEF t
    <2>9. PICK U : U = table' /\ Longer(U, table, Null)
      BY <2>1 DEF Longer
    <2>a. n = Len(table)
      OBVIOUS
    <2>10. /\ U \in Seq(Entries) /\ Len(U) = n + 1
           /\ \E N : Marked(U, N, n + 1) /\ N[n + 1] = t
      <3> HIDE DEF n
      <3>1. QED
        BY <1>1, <1>2, <2>a, <2>2, <2>4, <2>9, MarkAdds, NullTyped
    <2>11. PICK N : Marked(U, N, n + 1) /\ N[n + 1] = t
      BY <2>10
    <2>12. PICK l \in Nat : l = n + 1
      BY <1>1
    <2>13. Marked(U, N, l)'
      BY <1>1, <2>11, <2>12, MarkedKept
    <2>14. QED
      BY <1>1, <2>5, <2>6, <2>9, <2>10, <2>11, <2>12, <2>13 DEF TableInv, Loaded
  <1>9. QED
    BY <1>7, <1>8

\* What do_imports finds in the table.
LEMMA AtEntry ==
    ASSUME Claims, Numbers, Nodes, NEW T, NEW M, NEW n \in Nat, Whole(T, M, n), NEW a \in 0..n
    PROVE  /\ M[a] \in Mark
           /\ a = n => T[a + 1] = Null /\ M[a] = TheEnd
           /\ a # n => /\ a + 1 \in 0..n /\ M[a].lib \in 1..Len(ImportLibs)
                       /\ Entry(T[a + 1], M[a], M[a + 1])
                       /\ M[a].last = -1 => T[a + 1] # Null
  <1>1. /\ M \in [0..n -> Mark] /\ \A q \in 1..n : Entry(T[q], M[q - 1], M[q])
        /\ T[n + 1] = Null /\ M[n] = TheEnd
    BY DEF Whole, Marked
  <1>2. M[a] \in Mark /\ (a = n => T[a + 1] = Null /\ M[a] = TheEnd)
    BY <1>1
  <1>3. ASSUME a # n
        PROVE  /\ a + 1 \in 0..n /\ M[a].lib \in 1..Len(ImportLibs)
               /\ Entry(T[a + 1], M[a], M[a + 1])
               /\ M[a].last = -1 => T[a + 1] # Null
    <2>1. a + 1 \in 1..n /\ (a + 1) - 1 = a /\ a + 1 \in 0..n
      BY <1>3
    <2>2. Entry(T[a + 1], M[a], M[a + 1])
      BY <1>1, <2>1
    <2> DEFINE m == M[a]
    <2>3. CASE LibEnds(m) /\ T[a + 1] = Null
      <3>1. m.lib \in 1..Len(ImportLibs)
        BY <2>3 DEF LibEnds
      <3>2. PICK k \in 1..Len(Imports) : Imports[k].LibNum = m.lib
        BY <3>1 DEF Nodes
      <3>3. Imports[k].SymNum \in Nat /\ Imports[k].SymNum <= m.last
        BY <2>3, <3>2, NodeTyped DEF LibEnds
      <3>4. m.last # -1
        BY <3>3
      <3>5. QED
        BY <2>1, <2>2, <3>1, <3>4
    <2>4. ASSUME NEW k \in 1..Len(Imports), Follows(m, k),
                 T[a + 1] = [delta |-> Delta(Imports[k].SymNum - m.last), reloc |-> Node(k)]
          PROVE  m.lib \in 1..Len(ImportLibs) /\ T[a + 1] # Null
      <3>1. Imports[k].LibNum = m.lib /\ m.last < Imports[k].SymNum
        BY <2>4 DEF Follows
      <3>2. T[a + 1].delta[1] # 0
        BY <1>2, <2>4, <3>1, EntryTyped
      <3>3. QED
        BY <3>1, <3>2, NodeTyped, NullTyped
    <2> HIDE DEF m
    <2>5. \/ LibEnds(m) /\ T[a + 1] = Null
          \/ \E k \in 1..Len(Imports) :
                /\ Follows(m, k)
                /\ T[a + 1] = [delta |-> Delta(Imports[k].SymNum - m.last), reloc |-> Node(k)]
      BY <2>2 DEF Entry, m
    <2>6. QED
      BY <2>1, <2>2, <2>3, <2>4, <2>5 DEF m
  <1>4. QED
    BY <1>2, <1>3

\* A symbol it reads is the node that follows, in number and in name.
LEMMA SymbolRead ==
    ASSUME Claims, Numbers, Nodes, TableInv, ImportSymbol
    PROVE  \E k \in 1..Len(Imports) :
              /\ Follows(Reader, k)
              /\ d5 \in Nat /\ d5' = Imports[k].SymNum + 1
              /\ Relocates(Node(k), ExportAt[NodeName(k)])
              /\ \E n \in Nat : \E M : /\ Whole(table, M, n) /\ a2 \in 0..n /\ a2 + 1 \in 0..n
                                      /\ M[a2 + 1] = [lib |-> LibNum, last |-> Imports[k].SymNum]
  <1>1. /\ pc = "symbol" /\ LibNum <= Len(ImportLibs) /\ ImportLibs # <<>>
        /\ table[a2 + 1].delta[1] # 0 /\ d5' = Counted(table[a2 + 1].delta)
        /\ Relocates(table[a2 + 1].reloc, ExportAt[[lib |-> ImportLibs[LibNum], sym |-> d5' - 1]])
    BY DEF ImportSymbol, TableInv
  <1>2. PICK n \in Nat : \E M : Whole(table, M, n) /\ a2 \in 0..n /\ M[a2] = Reader
    BY <1>1 DEF TableInv, Loaded
  <1>3. PICK M : Whole(table, M, n) /\ a2 \in 0..n /\ M[a2] = Reader
    BY <1>2
  <1>4. Reader = [lib |-> LibNum, last |-> d5 - 1]
    BY <1>1 DEF Reader
  <1>5. Len(ImportLibs) \in Nat
    BY LenProperties DEF Numbers
  <1>6. Reader \in Mark
    BY <1>3, AtEntry
  <1>7. a2 # n
    <2>1. a2 = n => Reader = TheEnd
      BY <1>3, AtEntry
    <2>2. LibNum # Len(ImportLibs) + 1
      BY <1>1, <1>4, <1>5, <1>6 DEF Mark
    <2>3. QED
      BY <1>4, <2>1, <2>2 DEF TheEnd
  <1>8. a2 + 1 \in 0..n /\ Entry(table[a2 + 1], Reader, M[a2 + 1])
    BY <1>3, <1>7, AtEntry
  <1>9. table[a2 + 1] # Null
    BY <1>1, NullTyped
  <1>10. PICK k \in 1..Len(Imports) :
            /\ Follows(Reader, k)
            /\ table[a2 + 1] = [delta |-> Delta(Imports[k].SymNum - Reader.last), reloc |-> Node(k)]
            /\ M[a2 + 1] = [lib |-> Reader.lib, last |-> Imports[k].SymNum]
    BY <1>8, <1>9 DEF Entry
  <1> DEFINE s == Imports[k].SymNum
  <1>11. s \in Nat /\ s <= MAXSYM /\ Imports[k].LibNum = LibNum /\ d5 - 1 < s
    BY <1>4, <1>10, NodeTyped DEF Follows
  <1> HIDE DEF s
  <1>12. d5 \in Nat
    BY DEF TableInv
  <1>13. d5' = s + 1
    <2>1. d5 <= s
      BY <1>11, <1>12
    <2>2. table[a2 + 1].delta = Delta(s - (d5 - 1))
      BY <1>4, <1>10 DEF s
    <2>3. QED
      BY <1>1, <1>11, <1>12, <2>1, <2>2, CountedIs
  <1>14. ExportAt[[lib |-> ImportLibs[LibNum], sym |-> d5' - 1]] = ExportAt[NodeName(k)]
    <2>1. d5' - 1 = s
      BY <1>11, <1>13
    <2>2. QED
      BY <1>11, <2>1 DEF NodeName, s
  <1>15. Relocates(Node(k), ExportAt[NodeName(k)])
    BY <1>1, <1>10, <1>14
  <1>16. M[a2 + 1] = [lib |-> LibNum, last |-> s]
    BY <1>4, <1>10 DEF s
  <1>17. QED
    BY <1>3, <1>8, <1>10, <1>12, <1>13, <1>15, <1>16 DEF s

\* The zero behind a library's symbols is where none of them is left.
LEMMA LibEndRead ==
    ASSUME Claims, Numbers, Nodes, TableInv, ImportLibEnd
    PROVE  /\ LibEnds(Reader) /\ Reader = [lib |-> LibNum, last |-> d5 - 1] /\ d5 \in Nat
           /\ \E n \in Nat : \E M : /\ Whole(table, M, n) /\ a2 + 1 \in 0..n
                                   /\ M[a2 + 1] = [lib |-> LibNum + 1, last |-> -1]
  <1>1. /\ pc = "symbol" /\ LibNum <= Len(ImportLibs) /\ ImportLibs # <<>>
        /\ table[a2 + 1].delta[1] = 0 /\ d5 \in Nat
    BY DEF ImportLibEnd, TableInv
  <1>2. PICK n \in Nat : \E M : Whole(table, M, n) /\ a2 \in 0..n /\ M[a2] = Reader
    BY <1>1 DEF TableInv, Loaded
  <1>3. PICK M : Whole(table, M, n) /\ a2 \in 0..n /\ M[a2] = Reader
    BY <1>2
  <1>4. Reader = [lib |-> LibNum, last |-> d5 - 1]
    BY <1>1 DEF Reader
  <1>5. Len(ImportLibs) \in Nat
    BY LenProperties DEF Numbers
  <1>6. Reader \in Mark
    BY <1>3, AtEntry
  <1>7. a2 # n
    <2>1. a2 = n => Reader = TheEnd
      BY <1>3, AtEntry
    <2>2. LibNum # Len(ImportLibs) + 1
      BY <1>1, <1>4, <1>5, <1>6 DEF Mark
    <2>3. QED
      BY <1>4, <2>1, <2>2 DEF TheEnd
  <1>8. a2 + 1 \in 0..n /\ Entry(table[a2 + 1], Reader, M[a2 + 1])
    BY <1>3, <1>7, AtEntry
  <1>9. ASSUME NEW k \in 1..Len(Imports), Follows(Reader, k)
        PROVE  table[a2 + 1] # [delta |-> Delta(Imports[k].SymNum - Reader.last), reloc |-> Node(k)]
    <2>1. Reader.last < Imports[k].SymNum
      BY <1>9 DEF Follows
    <2>2. Delta(Imports[k].SymNum - Reader.last)[1] # 0
      BY <1>6, <2>1, EntryTyped
    <2>3. QED
      BY <1>1, <2>2
  <1>10. LibEnds(Reader) /\ M[a2 + 1] = [lib |-> Reader.lib + 1, last |-> -1]
    BY <1>8, <1>9 DEF Entry
  <1>11. QED
    BY <1>1, <1>3, <1>4, <1>8, <1>10

-----------------------------------------------------------------------------
\* At first the table is empty.
LEMMA InitTable == Init => TableInv
  <1> SUFFICES ASSUME Init PROVE TableInv
    OBVIOUS
  <1>1. <<>> \in Seq(Entries)
    BY EmptySeq
  <1>2. QED
    BY <1>1 DEF Init, TableInv, Loaded

\* The table and its reader, which may have moved on.
Readable == \E n \in Nat : \E M : Whole(table, M, n) /\ a2 \in 0..n /\ M[a2] = Reader

\* A step that leaves the table and its reader where they are.
LEMMA ReadableKept ==
    ASSUME Readable, UNCHANGED <<Imports, ImportLibs, table, a2>>, Reader' = Reader
    PROVE  Readable'
  <1>1. PICK n \in Nat : \E M : Whole(table, M, n) /\ a2 \in 0..n /\ M[a2] = Reader
    BY DEF Readable
  <1>2. PICK M : Whole(table, M, n) /\ a2 \in 0..n /\ M[a2] = Reader
    BY <1>1
  <1>3. PICK T, a : T = table /\ a = a2
    OBVIOUS
  <1>4. Whole(T, M, n)' /\ table' = T /\ a2' = a /\ a \in 0..n /\ M[a] = Reader'
    BY <1>2, <1>3, MarkedKept
  <1>5. QED
    BY <1>4 DEF Readable

\* A step of the reader over one entry.
LEMMA ReadableMoved ==
    ASSUME UNCHANGED <<Imports, ImportLibs, table>>, a2' = a2 + 1,
           NEW n \in Nat, NEW M, Whole(table, M, n), a2 + 1 \in 0..n, M[a2 + 1] = Reader'
    PROVE  Readable'
  <1>1. PICK T, a : T = table /\ a = a2 + 1
    OBVIOUS
  <1>2. Whole(T, M, n)' /\ table' = T /\ a2' = a /\ a \in 0..n /\ M[a] = Reader'
    BY <1>1, MarkedKept
  <1>3. QED
    BY <1>2 DEF Readable

\* Write ends the table.
LEMMA WriteEnds ==
    ASSUME Claims, Numbers, TableInv, Write
    PROVE  TableInv'
  <1>1. /\ pc = "dump" /\ pc' = "reloc" /\ LibNum > Len(ImportLibs) /\ LibNum' = 1
        /\ table' = (IF ImportLibs = <<>> THEN <<>> ELSE Append(table, Null))
        /\ UNCHANGED <<Imports, ImportLibs, a2, d5>> /\ a2 = 0 /\ d5 \in Nat
        /\ table \in Seq(Entries)
    BY DEF Write, AllDumped, TableInv, resolved, read
  <1>2. CASE ImportLibs = <<>>
    <2>1. <<>> \in Seq(Entries)
      BY EmptySeq
    <2>2. QED
      BY <1>1, <1>2, <2>1 DEF TableInv, Loaded
  <1>3. CASE ImportLibs # <<>>
    <2> DEFINE n == Len(table)
    <2>1. PICK M : Marked(table, M, n) /\ M[n] = AtLast
      BY <1>1 DEF TableInv
    <2>2. n \in Nat /\ AtLast = TheEnd
      <3>1. Len(ImportLibs) \in Nat /\ n \in Nat
        BY <1>1, LenProperties DEF Numbers
      <3>2. LibNum \in Nat
        <4>1. AtLast \in Mark
          BY <2>1, <3>1 DEF Marked
        <4>2. QED
          BY <4>1 DEF Mark, AtLast
      <3>3. ~(LibNum <= Len(ImportLibs))
        BY <1>1, <3>1, <3>2
      <3>4. QED
        BY <1>1, <3>1, <3>3 DEF TableInv
    <2>3. PICK U : U = table' /\ Longer(U, table, Null)
      BY <1>1, <1>3 DEF Longer
    <2>4. /\ U \in Seq(Entries) /\ Len(U) = n + 1 /\ U[n + 1] = Null
          /\ \A q \in 1..n : U[q] = table[q]
      BY <1>1, <2>3, NullTyped, AppendProperties DEF Longer
    <2>5. Marked(U, M, n)
      BY <2>1, <2>4 DEF Marked
    <2>6. M[0] = [lib |-> 1, last |-> -1] /\ Reader' = [lib |-> 1, last |-> -1]
      BY <1>1, <2>1 DEF Marked, Reader
    <2>7. Whole(U, M, n)
      BY <2>1, <2>2, <2>4, <2>5 DEF Whole
    <2>8. PICK l \in Nat : l = n
      BY <2>2
    <2>9. Whole(U, M, l)' /\ table' = U /\ a2' = 0 /\ 0 \in 0..l /\ M[0] = Reader'
      BY <1>1, <2>3, <2>6, <2>7, <2>8, MarkedKept
    <2>10. QED
      BY <1>1, <2>4, <2>9 DEF TableInv, Loaded
  <1>4. QED
    BY <1>2, <1>3

\* Every step keeps the table readable.
LEMMA StepTable == LinkInv /\ TablesInv /\ Nodes /\ TableInv /\ [Next]_vars => TableInv'
  <1> SUFFICES ASSUME LinkInv, TablesInv, Nodes, TableInv, [Next]_vars PROVE TableInv'
    OBVIOUS
  <1>1. /\ Claims /\ Numbers /\ Len(ImportLibs) \in Nat
        /\ pc \in {"place", "resolve", "dump", "reloc", "bss", "lib", "symbol", "running",
                  "failed", "astray"}
        /\ table \in Seq(Entries) /\ d5 \in Nat
    BY LenProperties DEF LinkInv, TablesInv, TableInv, Numbers
  <1>2. Loaded /\ ImportLibs # <<>> => Readable
    BY DEF TableInv, Readable
  <1>3. CASE Place \/ AllPlaced \/ ResolveRelTab \/ ResolveXDef \/ ResolveImport
    <2>1. /\ pc \in {"place", "resolve"} /\ pc' \in {"place", "resolve"}
          /\ UNCHANGED <<table, LibNum, LastSymNum, a2, d5>>
      BY <1>3 DEF Place, AllPlaced, Placed, ResolveRelTab, ResolveXDef, ResolveImport, Resolving,
                  NextRef, dumped, read
    <2>2. QED
      BY <1>1, <2>1 DEF TableInv, Loaded
  <1>4. CASE Fails \/ ReadsAstray
    <2>1. pc' \in {"failed", "astray"} /\ UNCHANGED <<table, d5>>
      BY <1>4 DEF Fails, ReadsAstray, dumped, read
    <2>2. QED
      BY <1>1, <2>1 DEF TableInv, Loaded
  <1>5. CASE AllResolved
    <2>1. /\ pc = "resolve" /\ pc' = "dump"
          /\ UNCHANGED <<Imports, ImportLibs, table, LibNum, LastSymNum, a2, d5>>
      BY <1>5 DEF AllResolved, Resolved, resolved, dumped, read
    <2>2. table = <<>> /\ LibNum = 1 /\ LastSymNum = -1 /\ a2 = 0
      BY <2>1 DEF TableInv
    <2>3. Len(table) = 0 /\ AtLast' = [lib |-> 1, last |-> -1]
      BY <2>1, <2>2 DEF AtLast
    <2> DEFINE M == [q \in 0..0 |-> [lib |-> 1, last |-> -1]]
    <2>4. Marked(table, M, 0) /\ M[0] = AtLast'
      <3>1. [lib |-> 1, last |-> -1] \in Mark
        BY DEF Mark, MAXSYM
      <3>2. QED
        BY <2>3, <3>1 DEF Marked
    <2> HIDE DEF M
    <2>5. PICK T : T = table
      OBVIOUS
    <2>6. Marked(T, M, 0)' /\ table' = T /\ Len(T) = 0
      BY <2>1, <2>3, <2>4, <2>5, MarkedKept
    <2>7. 1 <= Len(ImportLibs) \/ Len(ImportLibs) = 0
      BY <1>1
    <2>8. LibNum' <= Len(ImportLibs') \/ AtLast' = TheEnd'
      BY <2>1, <2>2, <2>3, <2>7 DEF TheEnd
    <2>9. QED
      BY <1>1, <2>1, <2>2, <2>4, <2>6, <2>8 DEF TableInv, Loaded
  <1>6. CASE DumpImport \/ DumpLibEnd
    BY <1>1, <1>6, DumpMarks
  <1>7. CASE Write
    BY <1>1, <1>7, WriteEnds
  <1>8. CASE DoReloc \/ DoBss
    <2>1. /\ pc \in {"reloc", "bss"} /\ pc' \in {"bss", "lib", "running"} /\ Loaded /\ Loaded'
          /\ UNCHANGED <<Imports, ImportLibs, table, LibNum, a2, d5>>
          /\ pc' \notin {"lib", "running"} => a2 = 0
          /\ pc' = "lib" => ImportLibs # <<>>
      BY <1>8 DEF DoReloc, DoBss, resolved, dumped, read, Loaded, TableInv
    <2>2. Reader' = Reader
      BY <2>1 DEF Reader
    <2>3. ImportLibs # <<>> => Readable'
      BY <1>2, <2>1, <2>2, ReadableKept
    <2>4. QED
      BY <1>1, <2>1, <2>3 DEF TableInv, Readable, Loaded
  <1>9. CASE ImportLib
    <2>1. /\ pc = "lib" /\ pc' = (IF table[a2 + 1] = Null THEN "running" ELSE "symbol") /\ d5' = 0
          /\ UNCHANGED <<Imports, ImportLibs, table, LibNum, a2>>
          /\ ImportLibs # <<>> /\ Loaded /\ Loaded'
      BY <1>9 DEF ImportLib, resolved, dumped, Loaded, TableInv
    <2>2. Reader' = Reader /\ Reader = [lib |-> LibNum, last |-> -1]
      BY <2>1 DEF Reader
    <2>3. Readable'
      BY <1>2, <2>1, <2>2, ReadableKept
    <2>4. ASSUME table[a2 + 1] # Null PROVE LibNum <= Len(ImportLibs)
      <3>1. PICK n \in Nat : \E M : Whole(table, M, n) /\ a2 \in 0..n /\ M[a2] = Reader
        BY <1>2, <2>1 DEF Readable
      <3>2. PICK M : Whole(table, M, n) /\ a2 \in 0..n /\ M[a2] = Reader
        BY <3>1
      <3>3. a2 # n
        BY <1>1, <2>4, <3>2, AtEntry
      <3>4. Reader.lib \in 1..Len(ImportLibs)
        BY <1>1, <3>2, <3>3, AtEntry
      <3>5. QED
        BY <1>1, <2>2, <3>4
    <2>5. QED
      BY <1>1, <2>1, <2>3, <2>4 DEF TableInv, Readable, Loaded
  <1>10. CASE ImportSymbol
    <2>1. /\ pc = "symbol" /\ pc' = "symbol" /\ a2' = a2 + 1
          /\ UNCHANGED <<Imports, ImportLibs, table, LibNum>>
          /\ ImportLibs # <<>> /\ LibNum <= Len(ImportLibs)
      BY <1>10 DEF ImportSymbol, resolved, dumped, TableInv
    <2>2. PICK k \in 1..Len(Imports) :
              /\ d5' = Imports[k].SymNum + 1
              /\ \E n \in Nat : \E M : /\ Whole(table, M, n) /\ a2 + 1 \in 0..n
                                      /\ M[a2 + 1] = [lib |-> LibNum, last |-> Imports[k].SymNum]
      BY <1>1, <1>10, SymbolRead
    <2>3. Imports[k].SymNum \in Nat
      BY <1>1, NodeTyped
    <2>4. Reader' = [lib |-> LibNum, last |-> Imports[k].SymNum] /\ d5' \in Nat
      BY <2>1, <2>2, <2>3 DEF Reader
    <2>5. Readable'
      BY <2>1, <2>2, <2>4, ReadableMoved
    <2>6. QED
      BY <1>1, <2>1, <2>4, <2>5 DEF TableInv, Readable, Loaded
  <1>11. CASE ImportLibEnd
    <2>1. /\ pc = "symbol" /\ pc' = "lib" /\ a2' = a2 + 1 /\ LibNum' = LibNum + 1
          /\ UNCHANGED <<Imports, ImportLibs, table, d5>> /\ table[a2 + 1].delta[1] = 0
          /\ ImportLibs # <<>> /\ LibNum <= Len(ImportLibs)
      BY <1>11 DEF ImportLibEnd, resolved, dumped, TableInv
    <2>2. \E n \in Nat : \E M : /\ Whole(table, M, n) /\ a2 + 1 \in 0..n
                                /\ M[a2 + 1] = [lib |-> LibNum + 1, last |-> -1]
      BY <1>1, <1>11, LibEndRead
    <2>3. Reader' = [lib |-> LibNum + 1, last |-> -1]
      BY <2>1 DEF Reader
    <2>4. Readable'
      BY <2>1, <2>2, <2>3, ReadableMoved
    <2>5. QED
      BY <1>1, <2>1, <2>4 DEF TableInv, Readable, Loaded
  <1>12. CASE Finished \/ UNCHANGED vars
    <2>1. UNCHANGED <<pc, Imports, ImportLibs, table, LibNum, LastSymNum, a2, d5>>
      BY <1>12 DEF Finished, vars
    <2>2. CASE Loaded
      <3>1. Reader' = Reader /\ Loaded'
        BY <2>1, <2>2 DEF Reader, Loaded
      <3>2. ImportLibs # <<>> => Readable'
        BY <1>2, <2>1, <2>2, <3>1, ReadableKept
      <3>3. QED
        BY <1>1, <2>1, <2>2, <3>1, <3>2 DEF TableInv, Readable, Loaded
    <2>3. CASE ~Loaded
      <3>1. CASE pc = "dump"
        <4>1. PICK M : Marked(table, M, Len(table)) /\ M[Len(table)] = AtLast
          BY <3>1 DEF TableInv
        <4>2. PICK T, n : T = table /\ n = Len(T)
          OBVIOUS
        <4>3. Marked(T, M, n)' /\ M[n] = AtLast' /\ table' = T /\ n = Len(T)
          BY <2>1, <4>1, <4>2, MarkedKept DEF AtLast
        <4>4. LibNum' <= Len(ImportLibs') \/ AtLast' = TheEnd'
          BY <2>1, <3>1 DEF TableInv, AtLast, TheEnd
        <4>5. QED
          BY <1>1, <2>1, <3>1, <4>3, <4>4 DEF TableInv, Loaded
      <3>2. CASE pc # "dump"
        BY <1>1, <2>1, <2>3, <3>2 DEF TableInv, Loaded
      <3>3. QED
        BY <3>1, <3>2
    <2>4. QED
      BY <2>2, <2>3
  <1>13. QED
    BY <1>3, <1>4, <1>5, <1>6, <1>7, <1>8, <1>9, <1>10, <1>11, <1>12
       DEF Next, DuplicateTibasic, BssTooLarge, Unresolved, FileTooLarge

-----------------------------------------------------------------------------
(* The kernel relocates. *)

\* d is added to the operands with an address in A, and to no others.
LEMMA RelocatesOne ==
    ASSUME file \in Files, operand \in [Operands(file) -> Longs], NEW A, NEW d \in Int,
           Relocates(A, d)
    PROVE  /\ operand' \in [Operands(file) -> Longs]
           /\ \A i \in 1..Len(file.refs) : \A v \in Int :
                /\ IsCode(i) /\ Places(i) \subseteq A /\ Val(operand, Here(i), v)
                => Val(operand', Here(i), v + d)
           /\ \A i \in 1..Len(file.refs) : \A v :
                /\ Places(i) \cap A = {} /\ Val(operand, Here(i), v)
                => Val(operand', Here(i), v)
  <1> DEFINE X == {x \in Operands(file) : Type(x[1]) = "code" /\ Address(x) \in A}
             W == operand'
  <1>1. W = [x \in DOMAIN operand |-> IF Type(x[1]) = "code" /\ Address(x) \in A
                                      THEN (operand[x] + d) % LongMod ELSE operand[x]]
    BY DEF Relocates
  <1>2. \A i \in 1..Len(file.refs) : \A o \in Here(i).offsets :
          /\ <<Here(i).section, o>> \in Operands(file)
          /\ <<Here(i).section, o>> \in X <=> (IsCode(i) /\ Info[Here(i).section] + o \in A)
          /\ Info[Here(i).section] + o \in Places(i)
    <2> TAKE i \in 1..Len(file.refs)
    <2> TAKE o \in Here(i).offsets
    <2>1. <<Here(i).section, o>> \in Operands(file)
      BY OperandsOf
    <2>2. Info[Here(i).section] + o \in Places(i)
      BY DEF Places, Here
    <2>3. QED
      BY <2>1, <2>2 DEF Address, IsCode, Here
  <1> HIDE DEF W
  <1>3. Adds(operand, W, X, d)
    <2>1. DOMAIN operand = Operands(file)
      OBVIOUS
    <2>2. \A x \in DOMAIN operand : x \in X <=> (Type(x[1]) = "code" /\ Address(x) \in A)
      BY <2>1
    <2>3. QED
      BY <1>1, <2>2 DEF Adds
  <1> HIDE DEF X
  <1>4. /\ W \in [Operands(file) -> Longs]
        /\ \A r, v : /\ r.addend \in Int /\ v \in Int
                     /\ \A o \in r.offsets : <<r.section, o>> \in Operands(file) /\ <<r.section, o>> \in X
                     /\ Val(operand, r, v)
                     => Val(W, r, v + d)
        /\ \A r, v : /\ \A o \in r.offsets : <<r.section, o>> \in Operands(file) /\ <<r.section, o>> \notin X
                     /\ Val(operand, r, v)
                     => Val(W, r, v)
    BY <1>3, AddsIs
  <1>5. ASSUME NEW i \in 1..Len(file.refs), NEW v \in Int,
               IsCode(i), Places(i) \subseteq A, Val(operand, Here(i), v)
        PROVE  Val(W, Here(i), v + d)
    <2>1. \A o \in Here(i).offsets : /\ <<Here(i).section, o>> \in Operands(file)
                                     /\ <<Here(i).section, o>> \in X
      BY <1>2, <1>5
    <2>2. Here(i).addend \in Int
      BY OperandsOf
    <2>3. QED
      BY <1>4, <1>5, <2>1, <2>2
  <1>6. ASSUME NEW i \in 1..Len(file.refs), NEW v,
               Places(i) \cap A = {}, Val(operand, Here(i), v)
        PROVE  Val(W, Here(i), v)
    <2>1. \A o \in Here(i).offsets : /\ <<Here(i).section, o>> \in Operands(file)
                                     /\ <<Here(i).section, o>> \notin X
      BY <1>2, <1>6
    <2>2. QED
      BY <1>4, <1>6, <2>1
  <1>7. QED
    BY <1>4, <1>5, <1>6 DEF W

\* the kernel is at work, and all references are settled
AtWork == pc \in {"reloc", "bss", "lib", "symbol"} /\ Operated /\ AllIn /\ file \in Files /\ next \in Nat

\* A reference that has operands is moved once, or not at all.
LEMMA KernelStep ==
    ASSUME AtWork, UNCHANGED <<file, next, placed, resolved>>,
           pc' \in {"bss", "lib", "symbol", "running"},
           NEW A, NEW d \in Int, Relocates(A, d),
           \A i \in 1..Len(file.refs) :
              Here(i).offsets # {} /\ Settled(i) =>
                 \/ IsCode(i) /\ Places(i) \subseteq A /\ ~Done(i) /\ Done(i)' /\ Shift(i) = d
                 \/ Places(i) \cap A = {} /\ (Done(i)' <=> Done(i))
    PROVE  Operated'
  <1> DEFINE L == Len(file.refs)
             W == operand'
             H(i) == Here(i)
             B(i) == Base(i)
             S(i) == Settled(i)
             Z(i) == Shift(i)
  <1>1. /\ operand \in [Operands(file) -> Longs] /\ ~Error /\ next > L /\ L \in Nat
        /\ \A i \in 1..L : Val(operand, H(i), Moved(i)) /\ (Fixed(i) => S(i))
    BY FileTyped DEF AtWork, Operated
  <1>2. \A i \in 1..L : i < next
    BY <1>1 DEF AtWork
  <1>3. UNCHANGED <<file, placed>> /\ next' = next /\ pc # "place" /\ pc' # "place"
        /\ pc \notin {"failed", "astray"} /\ pc' \notin {"failed", "astray"}
    BY DEF AtWork
  <1>4. \A i : Here(i)' = H(i) /\ Base(i)' = B(i) /\ Shift(i)' = Z(i)
    BY <1>3, SameRefs
  <1>5. \A i : S(i) => Settled(i)'
    <2> DEFINE E(k) == Node(k)
               N(k) == NodeName(k)
    <2>1. \A k : Node(k)' = E(k) /\ NodeName(k)' = N(k)
      BY DEF Node, NodeName, resolved
    <2> DEFINE C(i) == IsCode(i)
               F(i) == ToFile(i)
               T(i) == Type(To(i))
               P(i) == Places(i)
               M(i) == Name(i)
    <2>2. \A i : /\ Here(i)' = H(i) /\ IsCode(i)' = C(i) /\ ToFile(i)' = F(i) /\ Type(To(i))' = T(i)
                 /\ Places(i)' = P(i) /\ Name(i)' = M(i)
      BY <1>3, SameRefs
    <2>3. QED
      BY <2>1, <2>2 DEF Settled, resolved
  <1>6. \A i \in 1..L : /\ S(i) /\ Fixed(i) /\ Fixed(i)'
                        /\ Moved(i) = (IF Done(i) THEN B(i) + Z(i) ELSE B(i))
                        /\ Moved(i)' = (IF Done(i)' THEN B(i) + Z(i) ELSE B(i))
    BY <1>1, <1>2, <1>3, <1>4 DEF Fixed, Moved
  <1>7. /\ W \in [Operands(file) -> Longs]
        /\ \A i \in 1..L : \A v \in Int :
             IsCode(i) /\ Places(i) \subseteq A /\ Val(operand, H(i), v) => Val(W, H(i), v + d)
        /\ \A i \in 1..L : \A v : Places(i) \cap A = {} /\ Val(operand, H(i), v) => Val(W, H(i), v)
    BY <1>1, RelocatesOne DEF AtWork
  <1>8. ASSUME NEW i \in 1..L
        PROVE  Val(W, H(i), IF Done(i)' THEN B(i) + Z(i) ELSE B(i))
    <2>1. Val(operand, H(i), IF Done(i) THEN B(i) + Z(i) ELSE B(i)) /\ S(i)
      BY <1>1, <1>6
    <2>2. CASE H(i).offsets = {}
      BY <2>2 DEF Val
    <2>3. CASE H(i).offsets # {}
      <3>1. \/ IsCode(i) /\ Places(i) \subseteq A /\ ~Done(i) /\ Done(i)' /\ Z(i) = d
            \/ Places(i) \cap A = {} /\ (Done(i)' <=> Done(i))
        BY <2>1, <2>3
      <3>2. ~ToFile(i) => Name(i).lib # NoLib
        BY <2>1, <2>3 DEF Settled
      <3>3. B(i) \in Int
        BY <3>2, MeantIs DEF AtWork
      <3> HIDE DEF B, Z, H, W, S
      <3>4. CASE IsCode(i) /\ Places(i) \subseteq A /\ ~Done(i) /\ Done(i)' /\ Z(i) = d
        BY <1>7, <2>1, <3>3, <3>4
      <3>5. CASE Places(i) \cap A = {} /\ (Done(i)' <=> Done(i))
        BY <1>7, <2>1, <3>5
      <3>6. QED
        BY <3>1, <3>4, <3>5
    <2>4. QED
      BY <2>2, <2>3
  <1> HIDE DEF H, B, S, Z
  <1>9. \A i \in 1..L : Val(operand', Here(i)', Moved(i)') /\ Settled(i)'
    BY <1>4, <1>5, <1>6, <1>8
  <1>10. QED
    BY <1>1, <1>3, <1>7, <1>9 DEF Operated, resolved

\* The same without an address.
LEMMA KernelIdle ==
    ASSUME AtWork, UNCHANGED <<file, next, placed, resolved, operand>>,
           pc' \in {"bss", "lib", "symbol", "running"},
           \A i \in 1..Len(file.refs) :
              Here(i).offsets # {} /\ Settled(i) => (Done(i)' <=> Done(i))
    PROVE  Operated'
  <1> DEFINE A == {}
  <1>1. Relocates(A, 0)
    <2>1. operand = [x \in DOMAIN operand |-> operand[x]]
      BY DEF AtWork, Operated
    <2>2. QED
      BY <2>1 DEF Relocates
  <1>2. \A i : Places(i) \cap A = {}
    OBVIOUS
  <1>3. 0 \in Int
    OBVIOUS
  <1> HIDE DEF A
  <1>4. QED
    BY <1>1, <1>2, <1>3, KernelStep

\* Where the addresses of a settled reference are.
LEMMA SettledIs ==
    ASSUME file \in Files, Claims, Numbers, NEW i \in 1..Len(file.refs),
           Here(i).offsets # {}, Settled(i)
    PROVE  /\ IsCode(i)
           /\ ToFile(i) /\ Type(To(i)) # "bss" =>
                 /\ Places(i) \subseteq Reloc /\ Places(i) \cap RelocBSS = {}
                 /\ \A k \in 1..Len(Imports) : Places(i) \cap Node(k) = {}
           /\ ToFile(i) /\ Type(To(i)) = "bss" =>
                 /\ Places(i) \subseteq RelocBSS /\ Places(i) \cap Reloc = {}
                 /\ \A k \in 1..Len(Imports) : Places(i) \cap Node(k) = {}
           /\ ~ToFile(i) =>
                 \E k \in 1..Len(Imports) :
                    /\ Places(i) = Node(k) /\ NodeName(k) = Name(i)
                    /\ Places(i) \cap Reloc = {} /\ Places(i) \cap RelocBSS = {}
                    /\ \A j \in 1..Len(Imports) : j # k => Places(i) \cap Node(j) = {}
           /\ Places(i) # {}
  <1>1. /\ IsCode(i)
        /\ ToFile(i) => \/ Type(To(i)) = "code" /\ Places(i) \subseteq Reloc
                        \/ Type(To(i)) = "bss"  /\ Places(i) \subseteq RelocBSS
        /\ ~ToFile(i) => \E k \in 1..Len(Imports) : Node(k) = Places(i) /\ NodeName(k) = Name(i)
    BY DEF Settled
  <1>2. /\ Reloc \cap RelocBSS = {}
        /\ \A k \in 1..Len(Imports) :
              /\ Node(k) \cap Reloc = {} /\ Node(k) \cap RelocBSS = {}
              /\ \A j \in 1..Len(Imports) : k < j => Node(k) \cap Node(j) = {}
    BY DEF Claims
  <1>3. ASSUME NEW k \in 1..Len(Imports), NEW j \in 1..Len(Imports), j # k
        PROVE  Node(k) \cap Node(j) = {}
    <2>1. Len(Imports) \in Nat
      BY LenProperties DEF Claims
    <2>2. k < j \/ j < k
      BY <1>3, <2>1
    <2>3. QED
      BY <1>2, <2>2
  <1>4. Places(i) # {}
    BY DEF Places, Here
  <1>5. QED
    BY <1>1, <1>2, <1>3, <1>4

\* The file's own addresses.
LEMMA RelocOperated ==
    ASSUME AtWork, Claims, Numbers, DoReloc
    PROVE  Operated'
  <1>1. /\ pc = "reloc" /\ pc' = "bss" /\ UNCHANGED <<file, next, placed, resolved>>
        /\ Relocates(Reloc, ProgramAt)
    BY DEF DoReloc
  <1>2. ProgramAt \in Int
    BY LongsAre
  <1>3. ASSUME NEW i \in 1..Len(file.refs), Here(i).offsets # {} /\ Settled(i)
        PROVE  \/ IsCode(i) /\ Places(i) \subseteq Reloc /\ ~Done(i) /\ Done(i)' /\ Shift(i) = ProgramAt
               \/ Places(i) \cap Reloc = {} /\ (Done(i)' <=> Done(i))
    <2>1. ToFile(i)' = ToFile(i) /\ Type(To(i))' = Type(To(i))
      BY <1>1, SameRefs
    <2>2. ~Done(i) /\ (Done(i)' <=> (ToFile(i) /\ Type(To(i)) # "bss"))
      BY <1>1, <2>1 DEF Done
    <2>3. CASE ToFile(i) /\ Type(To(i)) # "bss"
      BY <1>3, <2>2, <2>3, SettledIs DEF AtWork, Shift
    <2>4. CASE ~(ToFile(i) /\ Type(To(i)) # "bss")
      BY <1>3, <2>2, <2>4, SettledIs DEF AtWork
    <2>5. QED
      BY <2>3, <2>4
  <1>4. QED
    BY <1>1, <1>2, <1>3, KernelStep

\* a size of bss that is not written as zero
BssCounted == pc = "bss" /\ BSS_Size % LIMIT = 0 => RelocBSS = {}

\* Those in the bss block.
LEMMA BssOperated ==
    ASSUME AtWork, Claims, Numbers, TableInv, BssCounted, DoBss
    PROVE  Operated'
  <1>1. /\ pc = "bss" /\ pc' = (IF ImportLibs = <<>> THEN "running" ELSE "lib")
        /\ UNCHANGED <<file, next, placed, resolved, LibNum>>
        /\ IF BSS_Size % 65536 = 0 THEN UNCHANGED operand ELSE Relocates(RelocBSS, BssAt)
    BY DEF DoBss
  <1>2. BssAt \in Int /\ Len(ImportLibs) \in Nat
    BY LongsAre, LenProperties DEF Numbers
  <1>3. ImportLibs # <<>> => LibNum = 1
    <2> SUFFICES ASSUME ImportLibs # <<>> PROVE LibNum = 1
      OBVIOUS
    <2>1. PICK n \in Nat : \E M : Whole(table, M, n) /\ a2 \in 0..n /\ M[a2] = Reader
      BY <1>1 DEF TableInv, Loaded
    <2>2. PICK M : Whole(table, M, n) /\ M[a2] = Reader
      BY <2>1
    <2>3. a2 = 0 /\ M[0] = [lib |-> 1, last |-> -1]
      BY <1>1, <2>2 DEF TableInv, Whole, Marked
    <2>4. QED
      BY <2>2, <2>3 DEF Reader
  <1>4. \A k \in 1..Len(Imports) :
          /\ ImportLibs # <<>> /\ NodeName(k)' = NodeName(k)
          /\ Imports[k].LibNum \in Nat /\ 1 <= Imports[k].LibNum
    <2> TAKE k \in 1..Len(Imports)
    <2>1. Imports[k].LibNum \in 1..Len(ImportLibs)
      BY NodeTyped
    <2>2. ImportLibs # <<>>
      BY <2>1, EmptySeq
    <2>3. NodeName(k)' = NodeName(k)
      BY <1>1 DEF NodeName, resolved
    <2>4. QED
      BY <1>2, <2>1, <2>2, <2>3
  <1>5. ASSUME NEW i \in 1..Len(file.refs), Here(i).offsets # {} /\ Settled(i)
        PROVE  /\ ToFile(i) /\ Type(To(i)) = "bss" => ~Done(i) /\ Done(i)' /\ Shift(i) = BssAt
               /\ ~(ToFile(i) /\ Type(To(i)) = "bss") => (Done(i)' <=> Done(i))
    <2>1. ToFile(i)' = ToFile(i) /\ Type(To(i))' = Type(To(i)) /\ Name(i)' = Name(i)
      BY <1>1, SameRefs
    <2>2. CASE ToFile(i)
      BY <1>1, <2>1, <2>2 DEF Done, Shift
    <2>3. CASE ~ToFile(i)
      <3>1. ImportLibs # <<>>
        BY <1>4, <1>5, <2>3, SettledIs DEF AtWork
      <3>2. pc' = "lib" /\ LibNum' = 1
        BY <1>1, <1>3, <3>1
      <3>3. \A n : ~NameRead(n)'
        BY <1>1, <1>4, <3>2 DEF NameRead, resolved
      <3>4. ~Done(i)
        BY <1>1, <2>3 DEF Done
      <3>5. ~Done(i)'
        <4>1. PICK n : n = Name(i)
          OBVIOUS
        <4>2. Done(i)' <=> NameRead(n)'
          BY <2>1, <2>3, <3>2, <4>1 DEF Done
        <4>3. QED
          BY <3>3, <4>2
      <3>6. QED
        BY <2>3, <3>4, <3>5
    <2>4. QED
      BY <2>2, <2>3
  <1>6. CASE BSS_Size % 65536 = 0
    <2>1. RelocBSS = {} /\ UNCHANGED operand
      BY <1>1, <1>6 DEF BssCounted, LIMIT
    <2>2. ASSUME NEW i \in 1..Len(file.refs), Here(i).offsets # {} /\ Settled(i)
          PROVE  Done(i)' <=> Done(i)
      <3>1. ~(ToFile(i) /\ Type(To(i)) = "bss")
        BY <2>1, <2>2, SettledIs DEF AtWork
      <3>2. QED
        BY <1>5, <2>2, <3>1
    <2>3. pc' \in {"lib", "running"}
      BY <1>1
    <2>4. QED
      BY <1>1, <2>1, <2>2, <2>3, KernelIdle
  <1>7. CASE BSS_Size % 65536 # 0
    <2>1. Relocates(RelocBSS, BssAt)
      BY <1>1, <1>7
    <2>2. ASSUME NEW i \in 1..Len(file.refs), Here(i).offsets # {} /\ Settled(i)
          PROVE  \/ IsCode(i) /\ Places(i) \subseteq RelocBSS /\ ~Done(i) /\ Done(i)' /\ Shift(i) = BssAt
                 \/ Places(i) \cap RelocBSS = {} /\ (Done(i)' <=> Done(i))
      <3>1. CASE ToFile(i) /\ Type(To(i)) = "bss"
        BY <1>5, <2>2, <3>1, SettledIs DEF AtWork
      <3>2. CASE ~(ToFile(i) /\ Type(To(i)) = "bss")
        BY <1>5, <2>2, <3>2, SettledIs DEF AtWork
      <3>3. QED
        BY <3>1, <3>2
    <2>3. pc' \in {"lib", "running"}
      BY <1>1
    <2>4. QED
      BY <1>1, <1>2, <2>1, <2>2, <2>3, KernelStep
  <1>8. QED
    BY <1>6, <1>7

\* A symbol is read when its node is: it has one.
LEMMA ReadIs ==
    ASSUME ImportedOnce, Nodes, NEW k \in 1..Len(Imports), NEW n, NodeName(k) = n
    PROVE  NameRead(n) <=> \/ Imports[k].LibNum < LibNum
                           \/ pc = "symbol" /\ Imports[k].LibNum = LibNum /\ Imports[k].SymNum < d5
  BY DEF NameRead, Nodes

\* do_imports goes on to a library, or to the program.
LEMMA LibOperated ==
    ASSUME AtWork, Claims, Numbers, Nodes, TableInv, ImportedOnce, ImportLib
    PROVE  Operated'
  <1>1. /\ pc = "lib" /\ pc' = (IF table[a2 + 1] = Null THEN "running" ELSE "symbol") /\ d5' = 0
        /\ UNCHANGED <<file, next, placed, operand, resolved, LibNum>>
        /\ ImportLibs # <<>>
    BY DEF ImportLib, TableInv
  <1>2. Len(ImportLibs) \in Nat
    BY LenProperties DEF Numbers
  <1>3. table[a2 + 1] = Null => LibNum = Len(ImportLibs) + 1
    <2> SUFFICES ASSUME table[a2 + 1] = Null PROVE LibNum = Len(ImportLibs) + 1
      OBVIOUS
    <2>1. PICK n \in Nat : \E M : Whole(table, M, n) /\ a2 \in 0..n /\ M[a2] = Reader
      BY <1>1 DEF TableInv, Loaded
    <2>2. PICK M : Whole(table, M, n) /\ a2 \in 0..n /\ M[a2] = Reader
      BY <2>1
    <2>3. Reader = [lib |-> LibNum, last |-> -1]
      BY <1>1 DEF Reader
    <2>4. a2 = n
      BY <2>2, <2>3, AtEntry
    <2>5. Reader = TheEnd
      BY <2>2, <2>4, AtEntry
    <2>6. QED
      BY <2>3, <2>5 DEF TheEnd
  <1>4. ASSUME NEW i \in 1..Len(file.refs), Here(i).offsets # {} /\ Settled(i)
        PROVE  Done(i)' <=> Done(i)
    <2>1. ToFile(i)' = ToFile(i) /\ Type(To(i))' = Type(To(i)) /\ Name(i)' = Name(i)
      BY <1>1, SameRefs
    <2>2. CASE ToFile(i)
      BY <1>1, <2>1, <2>2 DEF Done
    <2>3. CASE ~ToFile(i)
      <3>1. PICK k \in 1..Len(Imports) : NodeName(k) = Name(i)
        BY <1>4, <2>3, SettledIs DEF AtWork
      <3>2. PICK n : n = Name(i)
        OBVIOUS
      <3>3. NameRead(n) <=> Imports[k].LibNum < LibNum
        BY <1>1, <3>1, <3>2, ReadIs
      <3>4. Done(i) <=> NameRead(n)
        BY <1>1, <2>3, <3>2 DEF Done
      <3>5. CASE table[a2 + 1] = Null
        <4>1. Done(i)'
          BY <1>1, <2>1, <2>3, <3>5 DEF Done
        <4>2. Imports[k].LibNum < LibNum
          BY <1>2, <1>3, <3>5, NodeTyped
        <4>3. QED
          BY <3>3, <3>4, <4>1, <4>2
      <3>6. CASE table[a2 + 1] # Null
        <4>1. Done(i)' <=> NameRead(n)'
          BY <1>1, <2>1, <2>3, <3>2, <3>6 DEF Done
        <4>2. \A j \in 1..Len(Imports) : NodeName(j)' = NodeName(j) /\ ~(Imports[j].SymNum < 0)
          <5> TAKE j \in 1..Len(Imports)
          <5>1. NodeName(j)' = NodeName(j)
            BY <1>1 DEF NodeName, resolved
          <5>2. Imports[j].SymNum \in Nat
            BY NodeTyped
          <5>3. QED
            BY <5>1, <5>2
        <4>3. NameRead(n)' <=> NameRead(n)
          BY <1>1, <4>2 DEF NameRead, resolved
        <4>4. QED
          BY <3>4, <4>1, <4>3
      <3>7. QED
        BY <3>5, <3>6
    <2>4. QED
      BY <2>2, <2>3
  <1>5. pc' \in {"symbol", "running"}
    BY <1>1
  <1>6. QED
    BY <1>1, <1>4, <1>5, KernelIdle

\* Behind its last symbol a library is done.
LEMMA LibEndOperated ==
    ASSUME AtWork, Claims, Numbers, Nodes, TableInv, ImportedOnce, ImportLibEnd
    PROVE  Operated'
  <1>1. /\ pc = "symbol" /\ pc' = "lib" /\ LibNum' = LibNum + 1
        /\ UNCHANGED <<file, next, placed, operand, resolved>>
    BY DEF ImportLibEnd
  <1>2. LibEnds(Reader) /\ Reader = [lib |-> LibNum, last |-> d5 - 1] /\ d5 \in Nat
    BY LibEndRead
  <1>3. LibNum \in 1..Len(ImportLibs) /\ Len(ImportLibs) \in Nat
    BY <1>2, LenProperties DEF LibEnds, Numbers
  <1>4. \A j \in 1..Len(Imports) :
          /\ NodeName(j)' = NodeName(j)
          /\ Imports[j].LibNum < LibNum + 1 <=>
                \/ Imports[j].LibNum < LibNum
                \/ Imports[j].LibNum = LibNum /\ Imports[j].SymNum < d5
    <2> TAKE j \in 1..Len(Imports)
    <2>1. NodeName(j)' = NodeName(j)
      BY <1>1 DEF NodeName, resolved
    <2>2. Imports[j].LibNum \in 1..Len(ImportLibs) /\ Imports[j].SymNum \in Nat
      BY NodeTyped
    <2>3. Imports[j].LibNum = LibNum => Imports[j].SymNum <= d5 - 1
      BY <1>2 DEF LibEnds
    <2>4. Imports[j].LibNum = LibNum => Imports[j].SymNum < d5
      BY <1>2, <2>2, <2>3
    <2>5. QED
      BY <1>3, <2>1, <2>2, <2>4
  <1>5. \A n : NameRead(n)' <=> NameRead(n)
    BY <1>1, <1>4 DEF NameRead, resolved
  <1>6. ASSUME NEW i \in 1..Len(file.refs)
        PROVE  Done(i)' <=> Done(i)
    <2>1. ToFile(i)' = ToFile(i) /\ Type(To(i))' = Type(To(i)) /\ Name(i)' = Name(i)
      BY <1>1, SameRefs
    <2>2. PICK n : n = Name(i)
      OBVIOUS
    <2>3. Done(i) <=> (ToFile(i) \/ NameRead(n))
      BY <1>1, <2>2 DEF Done
    <2>4. Done(i)' <=> (ToFile(i) \/ NameRead(n)')
      BY <1>1, <2>1, <2>2 DEF Done
    <2>5. QED
      BY <1>5, <2>3, <2>4
  <1>7. QED
    BY <1>1, <1>6, KernelIdle

\* A symbol that is imported is at an address.
LEMMA ExportTyped ==
    ASSUME file \in Files, next \in Nat, Nodes, NEW k \in 1..Len(Imports)
    PROVE  ExportAt[NodeName(k)] \in Int
  <1>1. PICK i \in 1..(next - 1) :
           i <= Len(file.refs) /\ ~ToFile(i) /\ NodeName(k) = Name(i) /\ Name(i).lib # NoLib
    BY DEF Nodes
  <1>2. i \in 1..Len(file.refs)
    BY <1>1, FileTyped
  <1>3. Name(i) \in Names
    <2>1. Here(i).kind = "xref"
      BY <1>1, <1>2, RefTyped DEF ToFile, Here, Reference
    <2>2. QED
      BY <1>2, <2>1, RefTyped DEF Name, Here, Reference
  <1>4. QED
    BY <1>1, <1>3, NamesAssumption, LongsAre

\* A symbol is added to its operands, and to no others.
LEMMA SymbolOperated ==
    ASSUME AtWork, Claims, Numbers, Nodes, TableInv, ImportedOnce, ImportSymbol
    PROVE  Operated'
  <1>1. /\ pc = "symbol" /\ pc' = "symbol"
        /\ UNCHANGED <<file, next, placed, resolved, LibNum>>
    BY DEF ImportSymbol
  <1>2. PICK z \in 1..Len(Imports) :
          /\ Follows(Reader, z) /\ d5 \in Nat /\ d5' = Imports[z].SymNum + 1
          /\ Relocates(Node(z), ExportAt[NodeName(z)])
    BY SymbolRead
  <1> DEFINE s == Imports[z].SymNum
             d == ExportAt[NodeName(z)]
  <1>3. /\ Imports[z].LibNum = LibNum /\ d5 - 1 < s
        /\ \A j \in 1..Len(Imports) : Imports[j].LibNum = LibNum => Imports[j].SymNum <= d5 - 1 \/ s <= Imports[j].SymNum
    BY <1>1, <1>2 DEF Follows, Reader
  <1>4. s \in Nat /\ ~(s < d5) /\ s < s + 1
    BY <1>2, <1>3, NodeTyped
  <1>5. d \in Int
    BY ExportTyped DEF AtWork
  <1> HIDE DEF s, d
  <1>6. ASSUME NEW k \in 1..Len(Imports), k # z, Imports[k].LibNum = LibNum
        PROVE  Imports[k].SymNum < d5 <=> Imports[k].SymNum < s + 1
    <2>1. Imports[k].SymNum \in Nat
      BY NodeTyped
    <2>2. Imports[k].SymNum # s
      <3>1. NodeName(k) # NodeName(z)
        BY <1>6 DEF Nodes
      <3>2. QED
        BY <1>3, <1>6, <3>1 DEF NodeName, s
    <2>3. Imports[k].SymNum <= d5 - 1 \/ s <= Imports[k].SymNum
      BY <1>3, <1>6
    <2>4. QED
      BY <1>2, <1>3, <1>4, <2>1, <2>2, <2>3
  <1>7. ASSUME NEW i \in 1..Len(file.refs), Here(i).offsets # {} /\ Settled(i)
        PROVE  \/ IsCode(i) /\ Places(i) \subseteq Node(z) /\ ~Done(i) /\ Done(i)' /\ Shift(i) = d
               \/ Places(i) \cap Node(z) = {} /\ (Done(i)' <=> Done(i))
    <2>1. ToFile(i)' = ToFile(i) /\ Type(To(i))' = Type(To(i)) /\ Name(i)' = Name(i)
      BY <1>1, SameRefs
    <2>2. CASE ToFile(i)
      <3>1. Places(i) \cap Node(z) = {}
        BY <1>7, <2>2, SettledIs DEF AtWork
      <3>2. Done(i) /\ Done(i)'
        BY <1>1, <2>1, <2>2 DEF Done
      <3>3. QED
        BY <3>1, <3>2
    <2>3. CASE ~ToFile(i)
      <3>1. PICK k \in 1..Len(Imports) :
               /\ IsCode(i) /\ Places(i) = Node(k) /\ NodeName(k) = Name(i)
               /\ \A j \in 1..Len(Imports) : j # k => Places(i) \cap Node(j) = {}
        BY <1>7, <2>3, SettledIs DEF AtWork
      <3>2. PICK n : n = Name(i)
        OBVIOUS
      <3>3. NameRead(n) <=> \/ Imports[k].LibNum < LibNum
                            \/ Imports[k].LibNum = LibNum /\ Imports[k].SymNum < d5
        BY <1>1, <3>1, <3>2, ReadIs
      <3>4. \A j \in 1..Len(Imports) : NodeName(j)' = NodeName(j) /\ (NodeName(j) = n <=> j = k)
        <4> TAKE j \in 1..Len(Imports)
        <4>1. NodeName(j)' = NodeName(j)
          BY <1>1 DEF NodeName, resolved
        <4>2. NodeName(j) = n <=> j = k
          BY <3>1, <3>2 DEF Nodes
        <4>3. QED
          BY <4>1, <4>2
      <3>5. NameRead(n)' <=> \/ Imports[k].LibNum < LibNum
                             \/ Imports[k].LibNum = LibNum /\ Imports[k].SymNum < s + 1
        BY <1>1, <1>2, <3>4 DEF NameRead, resolved, s
      <3>6. Done(i) <=> NameRead(n)
        BY <1>1, <2>3, <3>2 DEF Done
      <3>7. Done(i)' <=> NameRead(n)'
        BY <1>1, <2>1, <2>3, <3>2 DEF Done
      <3>8. CASE k = z
        <4>1. ~Done(i) /\ Done(i)'
          <5>1. ~(LibNum < LibNum)
            <6>1. Imports[z].LibNum \in 1..Len(ImportLibs)
              BY NodeTyped
            <6>2. QED
              BY <1>3, <6>1
          <5>2. QED
            BY <1>3, <1>4, <3>3, <3>5, <3>6, <3>7, <3>8, <5>1 DEF s
        <4>2. Shift(i) = d
          BY <2>3, <3>1, <3>8 DEF Shift, d
        <4>3. QED
          BY <3>1, <3>8, <4>1, <4>2
      <3>9. CASE k # z
        <4>1. Places(i) \cap Node(z) = {}
          BY <3>1, <3>9
        <4>2. Done(i)' <=> Done(i)
          BY <1>6, <3>3, <3>5, <3>6, <3>7, <3>9
        <4>3. QED
          BY <4>1, <4>2
      <3>10. QED
        BY <3>8, <3>9
    <2>4. QED
      BY <2>2, <2>3
  <1>8. Relocates(Node(z), d)
    BY <1>2 DEF d
  <1>9. QED
    BY <1>1, <1>5, <1>7, <1>8, KernelStep

-----------------------------------------------------------------------------
\* Every step moves the operands as it should.
LEMMA StepOperated ==
    LinkInv /\ TablesInv /\ Nodes /\ TableInv /\ Operated /\ ImportedOnce /\ BssCounted
      /\ [Next]_vars => Operated'
  <1> SUFFICES ASSUME LinkInv, TablesInv, Nodes, TableInv, Operated, ImportedOnce, BssCounted,
                      [Next]_vars
               PROVE  Operated'
    OBVIOUS
  <1>1. Claims /\ Numbers
    BY DEF TablesInv
  <1>2. CASE DoReloc \/ DoBss \/ ImportLib \/ ImportSymbol \/ ImportLibEnd
    <2>1. pc \in {"reloc", "bss", "lib", "symbol"}
      BY <1>2 DEF DoReloc, DoBss, ImportLib, ImportSymbol, ImportLibEnd
    <2>2. AtWork
      BY <2>1 DEF AtWork, LinkInv, TablesInv, Layout, AllIn
    <2>3. QED
      BY <1>1, <1>2, <2>2, RelocOperated, BssOperated, LibOperated, SymbolOperated, LibEndOperated
  <1>3. CASE \/ Place \/ Fails \/ AllPlaced \/ ResolveRelTab \/ ResolveXDef \/ ResolveImport
             \/ AllResolved \/ DumpImport \/ DumpLibEnd \/ Write \/ ReadsAstray
             \/ Finished \/ UNCHANGED vars
    BY <1>3, LinkerOperated
  <1>4. QED
    BY <1>2, <1>3 DEF Next, DuplicateTibasic, BssTooLarge, Unresolved, FileTooLarge

\* The object files stay what they are.
LEMMA StepOnce == ImportedOnce /\ [Next]_vars => ImportedOnce'
  <1> SUFFICES ASSUME ImportedOnce, [Next]_vars PROVE ImportedOnce'
    OBVIOUS
  <1>1. file' = file
    BY DEF Next, Place, DuplicateTibasic, BssTooLarge, AllPlaced, Fails, ResolveRelTab,
           ResolveXDef, ResolveImport, NextRef, Unresolved, AllResolved, DumpImport, DumpLibEnd,
           FileTooLarge, Write, ReadsAstray, DoReloc, DoBss, ImportLib, ImportSymbol, ImportLibEnd, Finished, vars
  <1>2. QED
    BY <1>1 DEF ImportedOnce, ToFile, Name, Here

\* A file that goes astray has a table that begins behind its first 32K.
Astray == pc = "astray" => \E t \in Tables : pointer[t] > SWORD

LEMMA InitAstray == Init => Astray
  BY DEF Init, Astray

LEMMA StepAstray == LinkInv /\ Astray /\ [Next]_vars => Astray'
  <1> SUFFICES ASSUME LinkInv, Astray, [Next]_vars, pc' = "astray"
               PROVE  \E t \in Tables : pointer'[t] > SWORD
    BY DEF Astray
  <1>1. CASE ReadsAstray
    BY <1>1 DEF ReadsAstray, Found, Displacement, dumped
  <1>2. CASE Finished \/ UNCHANGED vars
    BY <1>2 DEF Finished, vars, Astray
  <1>3. CASE \/ Place \/ Fails \/ AllPlaced \/ ResolveRelTab \/ ResolveXDef \/ ResolveImport
             \/ AllResolved \/ DumpImport \/ DumpLibEnd \/ Write
             \/ DoReloc \/ DoBss \/ ImportLib \/ ImportSymbol \/ ImportLibEnd
    BY <1>3 DEF Place, Fails, AllPlaced, ResolveRelTab, ResolveXDef, ResolveImport, NextRef, Resolving,
                AllResolved, DumpImport, DumpLibEnd, Dumping, Write, DoReloc, DoBss, ImportLib,
                ImportSymbol, ImportLibEnd
  <1>4. QED
    BY <1>1, <1>2, <1>3 DEF Next, DuplicateTibasic, BssTooLarge, Unresolved, FileTooLarge

\* A program that runs has every operand moved to what it refers to.
LEMMA OperatedLinked ==
    ASSUME LinkInv, TablesInv, Operated, Astray
    PROVE  Linked
  <1> SUFFICES ASSUME pc = "running", NEW x \in Operands(file)
               PROVE  operand[x] = (Ref(file, x).addend + Meant(Ref(file, x))) % LongMod
    BY DEF Linked, Astray
  <1>1. file \in Files /\ AllIn /\ next \in Nat
    BY DEF LinkInv, TablesInv, Layout, AllIn
  <1>2. PICK i \in 1..Len(file.refs) : \E o \in file.refs[i].offsets :
            x = <<file.refs[i].section, o>> /\ Ref(file, x) = file.refs[i]
    BY <1>1, RefIs
  <1>3. PICK o \in Here(i).offsets : x = <<Here(i).section, o>> /\ Ref(file, x) = Here(i)
    BY <1>2 DEF Here
  <1>4. Val(operand, Here(i), Moved(i)) /\ (Fixed(i) => Settled(i)) /\ next > Len(file.refs)
    BY DEF Operated
  <1>5. Fixed(i) /\ Done(i)
    <2>1. i < next
      BY <1>1, <1>4, FileTyped
    <2>2. QED
      BY <2>1 DEF Fixed, Done
  <1>6. ~ToFile(i) => Name(i).lib # NoLib
    BY <1>3, <1>4, <1>5 DEF Settled
  <1>7. Moved(i) = Meant(Here(i))
    BY <1>1, <1>5, <1>6, MeantIs DEF Moved
  <1>8. QED
    BY <1>3, <1>4, <1>7 DEF Val

(***************************************************************************)
(* In a program that flinker accepted and the kernel has relocated every   *)
(* operand is the address of what it referred to plus the addend it held,  *)
(* and no file is read astray whose tables begin in its first 32K, if no   *)
(* symbol is imported by two references and no references are to a bss     *)
(* whose size is written as zero.                                          *)
(***************************************************************************)
THEOREM LinkedAlways == Spec /\ ImportedOnce /\ []BssCounted => []Linked
  <1>1. LinkInv /\ TablesInv /\ Operated /\ Astray => Linked
    BY OperatedLinked
  <1>2. QED
    BY <1>1, InitLink, StepLink, InitTables, StepTables, InitNodes, StepNodes, InitTable, StepTable,
       InitOperated, StepOperated, StepOnce, InitAstray, StepAstray, PTL DEF Spec

-----------------------------------------------------------------------------
(* Type correctness. *)

\* the parts of TypeOK that need an invariant
TypeInv ==
    /\ operand \in [Operands(file) -> Longs]
    /\ Reloc \subseteq Nat /\ RelocBSS \subseteq Nat
    /\ LastSymNum \in -1..MAXSYM
    /\ pointer \in [Tables -> 0..(LIMIT - 2)]
    /\ LibNum \in 1..(Len(ImportLibs) + 1)
    /\ a2 \in 0..Len(table) /\ d5 \in 0..(MAXSYM + 1)

\* At first.
LEMMA InitType == Init => TypeInv
  <1> SUFFICES ASSUME Init PROVE TypeInv
    OBVIOUS
  <1>1. operand \in [Operands(file) -> Longs]
    BY InitOperated DEF Operated
  <1>2. -1 \in -1..MAXSYM /\ 0 \in 0..(MAXSYM + 1)
    BY DEF MAXSYM
  <1>3. Len(<<>>) = 0 /\ 1 \in 1..(0 + 1) /\ 0 \in 0..0
    OBVIOUS
  <1>4. 0 \in 0..(LIMIT - 2)
    BY DEF LIMIT
  <1>5. QED
    BY <1>1, <1>2, <1>3, <1>4 DEF Init, TypeInv

\* What is added to an operand is a number, and what is taken into a table an address.
LEMMA ResolveType ==
    ASSUME file \in Files, next \in Nat, AllIn, Numbers, TypeInv,
           ResolveRelTab \/ ResolveXDef \/ ResolveImport
    PROVE  /\ operand' \in [Operands(file) -> Longs]
           /\ Reloc' \subseteq Nat /\ RelocBSS' \subseteq Nat
           /\ Len(ImportLibs) \in Nat /\ Len(ImportLibs') \in Nat
           /\ Len(ImportLibs) <= Len(ImportLibs')
  <1>1. next \in 1..Len(file.refs) /\ TheRef = Here(next) /\ Len(ImportLibs) \in Nat
    BY FileTyped, LenProperties DEF ResolveRelTab, ResolveXDef, ResolveImport, Resolving, Numbers, TheRef, Here
  <1>2. CASE ResolveRelTab \/ ResolveXDef
    <2>1. ToFile(next) /\ ResolvesTo(To(next), Off(next)) /\ UNCHANGED ImportLibs
      BY <1>1, <1>2 DEF ResolveRelTab, ResolveXDef, ToFile, To, Off
    <2>2. Reloc' \subseteq Nat /\ RelocBSS' \subseteq Nat
      <3>1. IsCode(next) => Places(next) \subseteq Nat
        BY <1>1, PlacesIn
      <3>2. QED
        BY <2>1, <3>1, ResolvesAdds DEF TypeInv
    <2> DEFINE B == Info[To(next)] + Off(next)
    <2>3. B \in Int
      <3>1. To(next) \in 1..Len(file.sections) /\ Off(next) \in Nat
        BY <1>1, <2>1, TargetTyped
      <3>2. Info[To(next)] \in Nat
        BY <3>1, ElementOfSeq DEF AllIn, Layout
      <3>3. QED
        BY <3>1, <3>2
    <2>4. UNCHANGED operand \/ FixesUp(B)
      BY <2>1 DEF ResolvesTo, RefFails
    <2> HIDE DEF B
    <2>5. operand' \in [Operands(file) -> Longs]
      <3>1. \A x \in Operands(file) : operand[x] \in Longs /\ (operand[x] + B) % LongMod \in Longs
        <4>1. \A x \in Operands(file) : operand[x] \in Longs /\ operand[x] \in Int
          BY LongsAre DEF TypeInv
        <4>2. QED
          BY <2>3, <4>1, LongsAre
      <3>2. QED
        BY <2>4, <3>1 DEF FixesUp, TypeInv
    <2>6. QED
      BY <1>1, <2>1, <2>2, <2>5
  <1>3. CASE ResolveImport
    <2>1. UNCHANGED <<operand, Reloc, RelocBSS>>
      BY <1>3 DEF ResolveImport, RefFails
    <2>2. CASE UNCHANGED ImportLibs
      BY <1>1, <2>1, <2>2 DEF TypeInv
    <2>3. CASE Type(TheRef.section) = "code" /\ TheRef.name.lib # NoLib
      <3>1. TheRef.name.lib \in Libs
        <4>1. TheRef.name \in Names
          BY <1>1, <1>3, RefTyped DEF ResolveImport, Here, Reference
        <4>2. QED
          BY <4>1 DEF Libs
      <3>2. QED
        BY <1>1, <1>3, <2>1, <2>3, <3>1, LibNumbered DEF ResolveImport, TypeInv
    <2>4. QED
      BY <1>3, <2>2, <2>3 DEF ResolveImport
  <1>4. QED
    BY <1>2, <1>3

\* What do_reloc adds is a number.
LEMMA RelocatesType ==
    ASSUME TypeInv, NEW A, NEW d \in Int, Relocates(A, d)
    PROVE  operand' \in [Operands(file) -> Longs]
  <1>1. \A x \in Operands(file) : operand[x] \in Longs /\ (operand[x] + d) % LongMod \in Longs
    <2>1. \A x \in Operands(file) : operand[x] \in Longs /\ operand[x] \in Int
      BY LongsAre DEF TypeInv
    <2>2. QED
      BY <2>1, LongsAre
  <1>2. QED
    BY <1>1 DEF Relocates, TypeInv

\* Every step keeps the types.
LEMMA StepType ==
    LinkInv /\ TablesInv /\ Nodes /\ TableInv /\ TypeInv /\ [Next]_vars => TypeInv'
  <1> SUFFICES ASSUME LinkInv, TablesInv, Nodes, TableInv, TypeInv, [Next]_vars PROVE TypeInv'
    OBVIOUS
  <1>1. /\ file \in Files /\ next \in Nat /\ Claims /\ Numbers /\ Len(ImportLibs) \in Nat
        /\ Len(table) \in Nat /\ table \in Seq(Entries)
        /\ pc \notin {"place", "failed"} => AllIn
    BY LenProperties DEF LinkInv, TablesInv, TableInv, Numbers, Layout, AllIn
  <1>2. CASE ResolveRelTab \/ ResolveXDef \/ ResolveImport
    <2>1. UNCHANGED <<file, table, LastSymNum, pointer, LibNum, a2, d5>> /\ pc = "resolve"
      BY <1>2 DEF ResolveRelTab, ResolveXDef, ResolveImport, Resolving, NextRef, dumped, read
    <2>2. /\ operand' \in [Operands(file) -> Longs] /\ Reloc' \subseteq Nat /\ RelocBSS' \subseteq Nat
          /\ Len(ImportLibs') \in Nat /\ Len(ImportLibs) <= Len(ImportLibs')
      BY <1>1, <1>2, <2>1, ResolveType
    <2>3. LibNum \in 1..(Len(ImportLibs') + 1)
      BY <1>1, <2>2 DEF TypeInv
    <2>4. QED
      BY <2>1, <2>2, <2>3 DEF TypeInv
  <1>3. CASE Place \/ AllPlaced \/ Fails \/ AllResolved \/ ReadsAstray \/ Finished \/ UNCHANGED vars
    <2>1. UNCHANGED <<file, operand, Reloc, RelocBSS, ImportLibs, table, LastSymNum, pointer, LibNum, a2, d5>>
      BY <1>3 DEF Place, AllPlaced, Fails, AllResolved, ReadsAstray, Finished, vars, resolved, dumped, read
    <2>2. QED
      BY <2>1 DEF TypeInv
  <1>4. CASE DumpImport \/ DumpLibEnd
    <2>1. /\ UNCHANGED <<file, operand, Reloc, RelocBSS, ImportLibs, pointer, a2, d5>>
          /\ pc' = "dump" /\ a2 = 0 /\ TableInv'
      BY <1>1, <1>4, DumpMarks DEF DumpImport, DumpLibEnd, Dumping, TableInv, resolved, read
    <2>2. table' \in Seq(Entries) /\ Len(table') \in Nat
      BY <2>1, LenProperties DEF TableInv
    <2>3. AtLast' \in Mark /\ (LibNum' <= Len(ImportLibs) \/ AtLast' = TheEnd')
      <3>1. PICK T, n, a : T = table' /\ n = Len(table') /\ a = AtLast'
        OBVIOUS
      <3>2. PICK M : Marked(T, M, n)' /\ M[n] = a
        BY <2>1, <3>1 DEF TableInv
      <3>3. M \in [0..n -> Mark] /\ n \in 0..n
        BY <2>2, <3>1, <3>2 DEF Marked
      <3>4. QED
        BY <2>1, <3>1, <3>2, <3>3 DEF TableInv
    <2>4. LastSymNum' \in -1..MAXSYM
      BY <2>3 DEF Mark, AtLast
    <2>5. LibNum' \in 1..(Len(ImportLibs) + 1)
      BY <1>1, <2>1, <2>3 DEF Mark, AtLast, TheEnd
    <2>6. QED
      BY <2>1, <2>2, <2>4, <2>5 DEF TypeInv
  <1>5. CASE Write
    <2>1. /\ UNCHANGED <<file, operand, Reloc, RelocBSS, ImportLibs, LastSymNum, a2, d5>>
          /\ LibNum' = 1 /\ a2 = 0
      BY <1>5 DEF Write, AllDumped, TableInv, resolved, read
    <2>2. Len(table') \in Nat
      BY <1>1, <1>5, WriteEnds, LenProperties DEF TableInv
    <2>3. pointer' \in [Tables -> 0..(LIMIT - 2)]
      BY <1>5, WrittenAt DEF TablesInv, Layout
    <2>4. QED
      BY <1>1, <2>1, <2>2, <2>3 DEF TypeInv
  <1>6. CASE DoReloc \/ DoBss
    <2>1. UNCHANGED <<file, Reloc, RelocBSS, ImportLibs, table, LastSymNum, pointer, LibNum, a2, d5>>
      BY <1>6 DEF DoReloc, DoBss, resolved, dumped, read
    <2>2. ProgramAt \in Int /\ BssAt \in Int
      BY LongsAre
    <2>3. UNCHANGED operand \/ Relocates(Reloc, ProgramAt) \/ Relocates(RelocBSS, BssAt)
      BY <1>6 DEF DoReloc, DoBss
    <2>4. operand' \in [Operands(file) -> Longs]
      BY <2>2, <2>3, RelocatesType DEF TypeInv
    <2>5. QED
      BY <2>1, <2>4 DEF TypeInv
  <1>7. CASE ImportLib
    <2>1. UNCHANGED <<file, operand, Reloc, RelocBSS, ImportLibs, table, LastSymNum, pointer, LibNum, a2>>
          /\ d5' = 0
      BY <1>7 DEF ImportLib, resolved, dumped
    <2>2. 0 \in 0..(MAXSYM + 1)
      BY DEF MAXSYM
    <2>3. QED
      BY <2>1, <2>2 DEF TypeInv
  <1>8. CASE ImportSymbol
    <2>1. UNCHANGED <<file, Reloc, RelocBSS, ImportLibs, table, LastSymNum, pointer, LibNum>> /\ a2' = a2 + 1
      BY <1>8 DEF ImportSymbol, resolved, dumped
    <2>2. PICK k \in 1..Len(Imports) :
             /\ d5' = Imports[k].SymNum + 1
             /\ Relocates(Node(k), ExportAt[NodeName(k)])
             /\ \E n \in Nat : \E M : Whole(table, M, n) /\ a2 + 1 \in 0..n
      BY <1>1, <1>8, SymbolRead
    <2>3. Imports[k].SymNum \in Nat /\ Imports[k].SymNum <= MAXSYM /\ MAXSYM \in Nat
      BY <1>1, NodeTyped DEF MAXSYM
    <2>4. d5' \in 0..(MAXSYM + 1)
      BY <2>2, <2>3
    <2>5. a2 + 1 \in 0..Len(table)
      BY <1>1, <2>2 DEF Whole
    <2>6. ExportAt[NodeName(k)] \in Int
      BY <1>1, ExportTyped
    <2>7. operand' \in [Operands(file) -> Longs]
      BY <2>2, <2>6, RelocatesType
    <2>8. QED
      BY <2>1, <2>4, <2>5, <2>7 DEF TypeInv
  <1>9. CASE ImportLibEnd
    <2>1. UNCHANGED <<file, operand, Reloc, RelocBSS, ImportLibs, table, LastSymNum, pointer, d5>>
          /\ a2' = a2 + 1 /\ LibNum' = LibNum + 1
      BY <1>9 DEF ImportLibEnd, resolved, dumped
    <2>2. \E n \in Nat : \E M : Whole(table, M, n) /\ a2 + 1 \in 0..n
      BY <1>1, <1>9, LibEndRead
    <2>3. a2 + 1 \in 0..Len(table)
      BY <1>1, <2>2 DEF Whole
    <2>4. LibNum + 1 \in 1..(Len(ImportLibs) + 1)
      <3>1. LibNum <= Len(ImportLibs)
        BY <1>9 DEF ImportLibEnd, TableInv
      <3>2. QED
        BY <1>1, <3>1 DEF TypeInv
    <2>5. QED
      BY <2>1, <2>3, <2>4 DEF TypeInv
  <1>10. QED
    BY <1>2, <1>3, <1>4, <1>5, <1>6, <1>7, <1>8, <1>9
       DEF Next, DuplicateTibasic, BssTooLarge, Unresolved, FileTooLarge

(***************************************************************************)
(* The sizes, places, tables and numbers of the linker and of do_imports   *)
(* stay what they are meant to be: an operand a longword, a delta bytes,   *)
(* d5 the positive half of a word, a2 in the table.                        *)
(***************************************************************************)
THEOREM LinkTyped == Spec => []TypeOK
  <1>1. LinkInv /\ TablesInv /\ TableInv /\ TypeInv => TypeOK
    <2> SUFFICES ASSUME LinkInv, TablesInv, TableInv, TypeInv PROVE TypeOK
      OBVIOUS
    <2>1. /\ pc \in {"place", "resolve", "dump", "reloc", "bss", "lib", "symbol", "running",
                    "failed", "astray"}
          /\ next \in Nat /\ SymbolSize \in Nat /\ BSS_Size \in Nat /\ Info \in Seq(Nat)
          /\ Error \in BOOLEAN
      BY DEF LinkInv, TablesInv, Layout
    <2>2. /\ Claims /\ Numbers /\ DOMAIN Imports = 1..Len(Imports)
          /\ DOMAIN ImportLibs = 1..Len(ImportLibs)
      BY LenProperties DEF TablesInv, Claims, Numbers
    <2>3. \A i \in DOMAIN Imports : /\ Imports[i].LibNum \in DOMAIN ImportLibs
                                    /\ Imports[i].SymNum \in 0..MAXSYM
                                    /\ Imports[i].Reloc \subseteq Nat
      <3> SUFFICES ASSUME NEW i \in 1..Len(Imports)
                   PROVE  /\ Imports[i].LibNum \in 1..Len(ImportLibs)
                          /\ Imports[i].SymNum \in 0..MAXSYM
                          /\ Imports[i].Reloc \subseteq Nat
        BY <2>2
      <3>1. MAXSYM \in Nat
        BY DEF MAXSYM
      <3>2. QED
        BY <2>2, <3>1, NodeTyped DEF Node
    <2>4. IsInjective(ImportLibs)
      BY <2>2 DEF IsInjective, Numbers
    <2>5. \A i \in DOMAIN table : ToSet(table[i].delta) \subseteq 0..255
      <3> SUFFICES ASSUME NEW i \in DOMAIN table PROVE ToSet(table[i].delta) \subseteq Byte
        BY DEF Byte
      <3>1. table \in Seq(Entries) /\ i \in 1..Len(table)
        BY LenProperties DEF TableInv
      <3>2. table[i] \in Entries
        BY <3>1, ElementOfSeq
      <3>3. PICK w \in Seq(Byte) : w = table[i].delta
        BY <3>2 DEF Entries
      <3>4. \A j \in 1..Len(w) : w[j] \in Byte
        BY ElementOfSeq
      <3>5. QED
        BY <3>3, <3>4, LenProperties DEF ToSet
    <2>6. d5 \in 0..SWORD
      <3>1. d5 \in Nat /\ d5 <= MAXSYM + 1
        BY DEF TypeInv, MAXSYM
      <3>2. MAXSYM + 1 <= SWORD /\ SWORD \in Nat /\ MAXSYM \in Nat
        BY DEF MAXSYM, SWORD
      <3>3. QED
        BY <3>1, <3>2
    <2>7. QED
      BY <2>1, <2>3, <2>4, <2>5, <2>6 DEF TypeOK, TypeInv
  <1>2. QED
    BY <1>1, InitLink, StepLink, InitTables, StepTables, InitNodes, StepNodes, InitTable, StepTable,
       InitType, StepType, PTL DEF Spec
=============================================================================
