------------------------------ MODULE A68kCode ------------------------------
(***************************************************************************)
(* The code generator of the assembler (src/a68k/Codegen.c): one line with *)
(* an instruction in pass 1, which counts its bytes, and in pass 2, which  *)
(* checks it and writes its code.  Branches are in A68kPasses.             *)
(***************************************************************************)
EXTENDS A68kOperand
LOCAL INSTANCE FiniteSetsExt
LOCAL INSTANCE SequencesExt

CONSTANT Lines   \* the instructions, in groups: each mnemonic of a group with
                 \* each size, each pair of operands and each option

ASSUME LinesAssumption ==
    \A g \in Lines : \A p \in g.opers : Readable(p[1].text) /\ Readable(p[2].text)

M == INSTANCE M68000

VARIABLES
    InstSize,    \* bytes of the instruction in each pass
    code,        \* the operation word and the extension items of pass 2
    given        \* history: the value of each operand as each pass found it

vars == <<Pass2, exprVars, operandVars, InstSize, code, given>>

NoCode == [op |-> 0, ext |-> <<>>]
Size == IF "Bit811" \in AdrMode THEN Word ELSE line.size   \* BTST and the like have none
Op == MnemTab[OpCode].op
Mnemonic(names) == OpCode \in names
Has(bit) == bit \in AdrMode

-----------------------------------------------------------------------------
(***************************************************************************)
(* Conversions.                                                            *)
(***************************************************************************)
Mirrored(v) == FromBits({15 - i : i \in Bits(v) \cap 0..15})

(* MOVEM without a list of registers: an immediate list, or MOVE. *)
NoList == Has("EA05z") /\ ~line.NoOpt /\ Src.Mode # MultiM /\ Dest.Mode # MultiM
ListSrc ==
    IF NoList /\ Src.Mode = Imm THEN [Src EXCEPT !.Value = Mirrored(Src.Value), !.Mode = MultiM] ELSE Src
ListDest ==
    IF NoList /\ Src.Mode # Imm /\ Dest.Mode = Imm THEN [Dest EXCEPT !.Mode = MultiM] ELSE Dest
ListCode == IF NoList /\ Src.Mode # Imm /\ Dest.Mode # Imm THEN "MOVE" ELSE OpCode

\* variant: a value is used whether pass 1 knew it or not
SettledAnyway(s) == TRUE

Settled(s) == s.Defn < LineCount       \* pass 1 knew its value

IsQuick(m, s, d) ==
    /\ s.Mode = Imm /\ s.Hunk = ABSHUNK /\ Settled(s) /\ ~line.NoOpt
    /\ \/ m = "MOVE" /\ d.Mode = DReg /\ line.size = Long /\ s.Value \in -128..127
       \/ m \in {"ADD", "SUB"} /\ s.Value \in 1..8

Converted(m, s, d) ==
    IF IsQuick(m, s, d) THEN Quick[m]
    ELSE IF d.Mode = ARDir /\ s.Mode <= Imm /\ m \in DOMAIN ToAddress THEN ToAddress[m]
    ELSE IF s.Mode = Imm /\ m \in DOMAIN OfImmediate THEN OfImmediate[m]
    ELSE IF s.Mode = ARPost /\ d.Mode = ARPost /\ m = "CMP" THEN "CMPM"
    ELSE m

Convert ==
    /\ step = "convert"
    /\ Src' = ListSrc
    /\ Dest' = ListDest
    /\ OpCode' = Converted(ListCode, ListSrc, ListDest)
    /\ step' = "encode"
    /\ UNCHANGED <<Pass2, exprVars, line, slot, found, InstSize, code, given>>

-----------------------------------------------------------------------------
(***************************************************************************)
(* Fields of the operation word: the bits set and the errors found.        *)
(***************************************************************************)
Sets(bits)    == [bits |-> bits, kinds |-> {}]
Refuses(kind) == [bits |-> {}, kinds |-> {kind}]
Fine          == Sets({})
All(fields)   == [bits |-> UNION {f.bits : f \in fields}, kinds |-> UNION {f.kinds : f \in fields}]
When(c, f)    == IF c THEN f ELSE Fine
Requires(c, kind) == When(~c, Refuses(kind))

At9(n) == {i + 9 : i \in Bits(n)}        \* a number in bits 9-11
Sized67 == CASE Size = Byte -> {} [] Size = Word -> {6} [] Size = Long -> {7}

(* The modes each kind of effective address lacks. *)
ea  == {}
dea == {ARDir}
mea == {DReg, ARDir}
cea == {DReg, ARDir, ARPost, ARPre, Imm}
aea == {PCDisp, PCDisX, Imm}

OutOfRange(o) ==                          \* OperExt
    CASE o.Mode \in {AbsW, ARDisp, PCDisp} -> ~FitsWord(o.Value)
      [] o.Mode \in {ARDisX, PCDisX}       -> o.Value \notin -128..127
      [] o.Mode = Imm /\ Size = Word       -> o.Value \notin -32768..65535
      [] o.Mode = Imm /\ Size = Byte       -> o.Value \notin -128..255
      [] OTHER                             -> FALSE

ModeBits(o, at, reg) ==                   \* the two fields of a mode
    IF o.Mode < AbsW
    THEN {i + at : i \in Bits(o.Mode - 1)} \cup {i + reg : i \in Bits(o.Rn)}
    ELSE {at, at + 1, at + 2} \cup {i + reg : i \in Bits(o.Mode - AbsW)}

EffAdr(o, bad) ==
    CASE o.Mode \in bad -> Refuses("ModeErr")
      [] o.Mode \notin bad /\ (o.Mode > Imm \/ o.Mode = Null) -> Fine
      [] OTHER -> All({Sets(ModeBits(o, 3, 0)), When(OutOfRange(o), Refuses("SizeErr"))})

(* Too many operands, or too few. *)
OperandCount ==
    All({Requires(~(AdrMode \in {{"EA05e"}, {"Size67", "EA05e"}} /\ Dest.Mode # Null), "OperErr"),
         Requires(AdrMode = {} \/ Src.Mode # Null, "OperErr"),
         Requires(~(Src.Mode # Null /\ Dest.Mode = Null
                    /\ (AdrMode \cap (TwoOpsA \cup TwoOpsB) # {} \/ ImmMode \subseteq AdrMode)), "OperErr")})

(* A word or a longer operand at an odd address. *)
Odd(o) == o.Value % 2 = 1 /\ o.Mode \in ARDisp..PCDisX
Unaligned ==
    /\ Size # Byte /\ AdrMode # {}
    /\ ~Mnemonic({"LEA", "PEA", "BTST"})
    /\ ~(Has("EA05e") /\ ~Has("Size67") /\ ~Has("OpM68X"))
    /\ Odd(Src) \/ Odd(Dest)

Sole(mode) ==                             \* one operand, a register or a number
    All({Requires(Src.Mode = mode, "ModeErr"), Requires(Dest.Mode = Null, "OperErr")})
Special ==
    CASE OpCode = "STOP" -> Sole(Imm)
      [] OpCode = "LINK" ->
            All({Sets(Bits(Src.Rn)), Requires(Src.Mode = ARDir /\ Dest.Mode = Imm, "ModeErr"),
                 When(Dest.Mode = Imm /\ Dest.Value % 2 = 1, Refuses("AlignErr"))})
      [] OpCode = "SWAP" -> All({Sets(Bits(Src.Rn)), Sole(DReg)})
      [] OpCode = "UNLK" -> All({Sets(Bits(Src.Rn)), Sole(ARDir)})
      [] OTHER           -> Fine

TwoRegisters ==
    All({Sets(Bits(Src.Rn) \cup At9(Dest.Rn)),
         CASE OpCode = "CMPM"     -> Requires(Src.Mode = ARPost /\ Dest.Mode = ARPost, "ModeErr")
           [] OpCode # "CMPM" /\ Src.Mode = DReg  -> Requires(Dest.Mode = DReg, "ModeErr")
           [] OpCode # "CMPM" /\ Src.Mode = ARPre ->
                All({Sets({3}), Requires(Dest.Mode = ARPre, "ModeErr")})
           [] OTHER               -> Refuses("OperErr")})

QuickData ==                              \* 1 to 8 in bits 9-11, 8 as 0
    IF Src.Value \in 1..8 THEN Sets(At9(Src.Value % 8)) ELSE Refuses("SizeErr")

(* Shifts: of a data register, or of a word in memory by one.              *)
Shift ==
    CASE Dest.Mode = DReg ->
            All({Sets(Bits(Dest.Rn) \cup Sized67),
                 CASE Src.Mode = DReg -> Sets({5} \cup At9(Src.Rn))
                   [] Src.Mode = Imm  -> QuickData
                   [] OTHER           -> Refuses("OperErr")})
      [] Dest.Mode = Null -> All({Sets({6, 7}), EffAdr(Src, mea \cup aea)})
      [] OTHER -> Refuses("ModeErr")
(* The table has the kind of shift in bits 3-4 and in bits 9-10. *)
ShiftKind == CASE Dest.Mode = DReg -> {9, 10} [] Dest.Mode = Null -> {3, 4} [] OTHER -> {}

Trap ==
    All({IF Src.Mode # Imm THEN Refuses("ModeErr")
         ELSE IF Src.Value \in 0..15 THEN Sets(Bits(Src.Value)) ELSE Refuses("SizeErr"),
         Requires(Dest.Mode = Null, "OperErr")})

MoveQuick ==
    All({Sets(Bits(Src.Value % 256) \cup At9(Dest.Rn)),
         Requires(Src.Mode = Imm /\ Dest.Mode = DReg, "ModeErr"),
         Requires(Src.Mode = Imm => Src.Value \in -128..127, "SizeErr")})

ToDataRegister ==                         \* OpM68D
    IF Dest.Mode = DReg
    THEN All({Sets(At9(Dest.Rn) \cup Sized67), Requires(~(Src.Mode = ARDir /\ Size = Byte), "SizeErr")})
    ELSE Sets({8} \cup At9(Src.Rn) \cup Sized67)

ToAddressRegister ==                      \* OpM68A
    All({IF Dest.Mode = ARDir THEN Sets(At9(Dest.Rn)) ELSE Refuses("ModeErr"),
         CASE Size = Byte -> Refuses("SizeErr")
           [] Size = Word -> Sets({6, 7})
           [] Size = Long -> Sets({6, 7, 8})})

Compare ==                                \* OpM68C
    All({IF Dest.Mode = DReg THEN Sets(At9(Dest.Rn) \cup Sized67) ELSE Refuses("ModeErr"),
         Requires(~(Src.Mode = ARDir /\ Size = Byte), "SizeErr")})

ExclusiveOr ==                            \* OpM68X
    IF Src.Mode = DReg THEN Sets({8} \cup At9(Src.Rn) \cup Sized67) ELSE Refuses("ModeErr")

SignExtend ==                             \* OpM68S
    All({Sole(DReg), Sets(Bits(Src.Rn)),
         CASE Size = Byte -> Refuses("SizeErr") [] Size = Word -> Sets({7}) [] Size = Long -> Sets({6, 7})})

MovePeripheral ==                         \* OpM68R
    LET S == All({Requires(Size # Byte, "SizeErr"), When(Size = Long, Sets({6}))})
    IN  CASE Src.Mode = DReg /\ Dest.Mode = ARDisp ->
                All({S, Sets({7, 8} \cup At9(Src.Rn) \cup Bits(Dest.Rn))})
          [] Src.Mode = ARDisp /\ Dest.Mode = DReg ->
                All({S, Sets({8} \cup At9(Dest.Rn) \cup Bits(Src.Rn))})
          [] OTHER -> Refuses("ModeErr")

Exchange ==                               \* OpM37
    CASE Src.Mode = DReg /\ Dest.Mode = DReg   -> Sets({6} \cup At9(Src.Rn) \cup Bits(Dest.Rn))
      [] Src.Mode = ARDir /\ Dest.Mode = ARDir -> Sets({3, 6} \cup At9(Src.Rn) \cup Bits(Dest.Rn))
      [] Src.Mode = ARDir /\ Dest.Mode = DReg  -> Sets({3, 7} \cup At9(Dest.Rn) \cup Bits(Src.Rn))
      [] Src.Mode = DReg /\ Dest.Mode = ARDir  -> Sets({3, 7} \cup At9(Src.Rn) \cup Bits(Dest.Rn))
      [] OTHER                                 -> Refuses("ModeErr")

BitNumber ==                              \* Bit811
    CASE Src.Mode = DReg -> Sets({8} \cup At9(Src.Rn))
      [] Src.Mode = Imm  -> Sets({11})
      [] OTHER           -> Refuses("ModeErr")

MoveToAddress ==                          \* Sz1213
    All({Requires(Dest.Mode # DReg, "ModeErr"), Sets(At9(Dest.Rn)),
         CASE Size = Byte -> Refuses("SizeErr")
           [] Size = Word -> Sets({12, 13})
           [] Size = Long -> Sets({13})})

MoveSize == CASE Size = Byte -> {12} [] Size = Word -> {12, 13} [] Size = Long -> {13}

Changed ==                                \* EA05e
    CASE Dest.Mode = Null -> EffAdr(Src, dea \cup aea)
      [] Dest.Mode # Null /\ Src.Mode = Imm -> EffAdr(Dest, dea \cup aea)
      [] Dest.Mode # Null /\ Src.Mode = DReg ->
            All({Requires(AdrMode # ImmMode, "ModeErr"), EffAdr(Dest, dea \cup aea)})
      [] OTHER -> Refuses("ModeErr")

Control ==                                \* EA05f
    All({EffAdr(Src, cea),
         IF Has("Rx911")
         THEN IF Dest.Mode = ARDir THEN Sets(At9(Dest.Rn)) ELSE Refuses("ModeErr")
         ELSE Requires(Dest.Mode = Null, "OperErr")})

Dual(bad, kind) ==                        \* EA05x, EA05y
    CASE Dest.Mode = DReg -> EffAdr(Src, bad)
      [] Dest.Mode # DReg /\ Src.Mode = DReg -> EffAdr(Dest, mea \cup aea)
      [] OTHER -> Refuses(kind)

MoveMultiple ==                           \* EA05z
    CASE Src.Mode = MultiM  -> EffAdr(Dest, mea \cup aea \cup {ARPost})
      [] Src.Mode # MultiM /\ Dest.Mode = MultiM ->
            All({Sets({10}), EffAdr(Src, mea \cup {ARPre, Imm})})
      [] OTHER -> Refuses("OperErr")
Mask ==                                   \* the extension word ExtL
    CASE Src.Mode = MultiM -> IF Dest.Mode = ARPre THEN Mirrored(Src.Value) ELSE Src.Value
      [] Src.Mode # MultiM /\ Dest.Mode = MultiM ->
            IF Src.Mode = ARPre THEN Mirrored(Dest.Value) ELSE Dest.Value
      [] OTHER -> 0

(* MOVE, and the forms of it that have an operation word of their own.     *)
MoveOp ==
    CASE Dest.Mode = CCR -> \h44C0
      [] Dest.Mode = SR  -> \h46C0
      [] Dest.Mode \notin {CCR, SR} /\ Src.Mode = SR   -> \h40C0
      [] Dest.Mode = USP /\ Src.Mode # SR              -> \h4E60
      [] Dest.Mode \notin {CCR, SR, USP} /\ Src.Mode = USP -> \h4E68
      [] OTHER -> Op
Move ==                                   \* EA611
    CASE Dest.Mode \in {CCR, SR} -> EffAdr(Src, dea)
      [] Dest.Mode \notin {CCR, SR} /\ Src.Mode = SR -> EffAdr(Dest, dea \cup aea)
      [] Dest.Mode = USP /\ Src.Mode # SR ->
            All({Sets(Bits(Src.Rn)), Requires(Src.Mode = ARDir, "ModeErr")})
      [] Dest.Mode \notin {CCR, SR, USP} /\ Src.Mode = USP ->
            All({Sets(Bits(Dest.Rn)), Requires(Dest.Mode = ARDir, "ModeErr")})
      [] OTHER ->
            All({Sets(MoveSize), EffAdr(Src, {SR, CCR, USP}),
                 Requires(~(Size = Byte /\ Src.Mode = ARDir), "SizeErr"),
                 Requires(Src.Mode <= Imm /\ Dest.Mode \notin dea \cup aea /\ Dest.Mode <= Imm, "ModeErr"),
                 When(Dest.Mode \in DReg..Imm, Sets(ModeBits(Dest, 6, 9))),
                 When(OutOfRange(Dest), Refuses("SizeErr"))})

(* ANDI, EORI and ORI to the status register; bit 10 tells the others.     *)
ToStatus == Dest.Mode \in {CCR, SR} /\ Src.Mode = Imm /\ ImmMode \subseteq AdrMode
StatusBits == {2, 3, 4, 5} \cup (IF Dest.Mode = SR THEN {6} ELSE {})

DecrementAndBranch ==
    LET distance == IF Dest.Hunk = CurrHunk THEN Dest.Value - AddrCnt[Pass] - 2 ELSE Dest.Value
    IN  All({Sets(Bits(Src.Rn)), Requires(Src.Mode = DReg, "ModeErr"),
             Requires(Dest.Value % 2 = 0, "AlignErr"), Requires(FitsWord(distance), "BraErr")})

-----------------------------------------------------------------------------
(***************************************************************************)
(* The instruction.                                                        *)
(***************************************************************************)
Fields ==
    {OperandCount} \cup
    IF Has("DecBr") THEN {DecrementAndBranch} ELSE
    {When(Mnemonic({"JMP", "JSR"}) /\ Size = Byte, Refuses("SizeErr")),
     When(Unaligned, Refuses("AlignErr")),
     Special,
     When(Has("Ry02") /\ Has("Rx911"), TwoRegisters),
     When(Has("Data911"), IF Src.Mode = Imm THEN QuickData ELSE Refuses("ModeErr")),
     When(Has("CntR911"), Shift),
     When(Has("Data03"), Trap),
     When(Has("Data07"), MoveQuick),
     When(Has("OpM68D"), ToDataRegister),
     When(Has("OpM68A"), ToAddressRegister),
     When(Has("OpM68C"), Compare),
     When(Has("OpM68X"), ExclusiveOr),
     When(Has("OpM68S"), SignExtend),
     When(Has("OpM68R"), MovePeripheral),
     When(Has("OpM37"), Exchange),
     When(Has("Bit811"), BitNumber),
     When(Has("Size67"), Sets(Sized67)),
     When(Has("Size6"), All({Requires(Size # Byte, "SizeErr"), When(Size = Long, Sets({6}))})),
     When(Has("Sz1213"), MoveToAddress),
     When(Has("EA05a"), IF Dest.Mode \in {DReg, ARDir} THEN EffAdr(Src, ea) ELSE Refuses("ModeErr")),
     When(Has("EA05b"),
          IF Dest.Mode = DReg THEN All({EffAdr(Src, dea), Sets(At9(Dest.Rn))}) ELSE Refuses("ModeErr")),
     When(Has("EA05c"), EffAdr(Dest, IF Src.Mode = DReg THEN dea ELSE dea \cup {Imm})),
     When(Has("EA05d"), All({EffAdr(Dest, aea), Requires(~(Dest.Mode = ARDir /\ Size = Byte), "SizeErr")})),
     When(Has("EA05e"), Changed),
     When(Has("EA05f"), Control),
     When(Has("EA05x"), Dual(dea, "OperErr")),
     When(Has("EA05y"), All({Dual(ea, "ModeErr"),
                             Requires(~(Dest.Mode = DReg /\ Src.Mode = ARDir /\ Size = Byte), "SizeErr")})),
     When(Has("EA05z"), MoveMultiple),
     When(Has("EA611"), Move),
     When(ToStatus /\ 10 \in Bits(Op), Refuses("ModeErr"))}

Operation ==
    LET bits == Bits(IF Has("EA611") THEN MoveOp ELSE Op) \ (IF Has("CntR911") THEN ShiftKind ELSE {})
        all  == bits \cup All(Fields).bits
    IN  FromBits(IF ToStatus THEN (all \cap 8..15) \cup StatusBits ELSE all)

(* The extension items: the list of MOVEM and what follows each operand.   *)
ModeSize(o) ==                            \* GetInstModeSize
    CASE o.Mode \in {ARDisp, ARDisX, PCDisp, PCDisX, AbsW} -> 2
      [] o.Mode = AbsL -> 4
      [] o.Mode = Imm  -> IF Size = Long THEN 4 ELSE 2
      [] OTHER         -> 0
quick == Has("Data911") \/ Has("Data03") \/ Has("Data07")
            \/ (Has("CntR911") /\ Dest.Mode = DReg /\ Src.Mode = Imm)

Unsigned(v, size) == IF size = 2 THEN v % 65536 ELSE v
Content(o) ==
    CASE o.Mode \in {ARDisX, PCDisX} ->
            (o.Value % 256) + o.Xn * 4096 + (IF o.X = "Areg" THEN 32768 ELSE 0)
                + (IF o.Xsize = Long THEN 2048 ELSE 0)
      [] o.Mode = Imm /\ Size = Byte -> o.Value % 256
      [] OTHER -> Unsigned(o.Value, ModeSize(o))

(* What the linker adds; PutRel is told that it is a distance by the mode  *)
(* of the source, for the destination too.                                 *)
Item(o) ==
    LET distance == Src.Mode = (IF o.Mode \in {ARDisX, PCDisX} THEN PCDisX ELSE PCDisp)
    IN  [size |-> ModeSize(o), value |-> Content(o), hunk |-> o.Hunk,
         pc |-> o.Hunk # ABSHUNK /\ distance]
Items(o) == IF ModeSize(o) = 0 THEN <<>> ELSE <<Item(o)>>

BranchItem ==
    IF Dest.Hunk = CurrHunk
    THEN [size |-> 2, value |-> Unsigned(Dest.Value - AddrCnt[Pass] - 2, 2), hunk |-> ABSHUNK, pc |-> FALSE]
    ELSE [size |-> 2, value |-> Unsigned(Dest.Value, 2), hunk |-> Dest.Hunk, pc |-> Dest.Hunk # ABSHUNK]

Extension ==
    CASE Has("DecBr") -> <<BranchItem>>
      [] ~Has("DecBr") /\ AdrMode = {} -> <<>>
      [] OTHER ->
            (IF Has("EA05z") THEN <<[size |-> 2, value |-> Mask, hunk |-> ABSHUNK, pc |-> FALSE]>> ELSE <<>>)
            \o (IF quick THEN <<>> ELSE Items(Src)) \o Items(Dest)

Bytes(ext) == FoldLeft(LAMBDA n, x : n + x.size, 2, ext)

Encode ==
    /\ step = "encode"
    /\ InstSize' = [InstSize EXCEPT ![Pass] = Bytes(Extension)]
    /\ found' = found \cup Report(All(Fields).kinds)
    /\ code' = IF Pass2 THEN [op |-> Operation, ext |-> Extension] ELSE code
    /\ step' = "done"
    /\ UNCHANGED <<Pass2, exprVars, line, slot, OpCode, Src, Dest, given>>

-----------------------------------------------------------------------------
(***************************************************************************)
(* One line in both passes.                                                *)
(***************************************************************************)
Statement(l) ==                           \* LineParts and Instructions
    /\ line' = l
    /\ OpCode' = l.mnem
    /\ Src' = NoOperand /\ Dest' = NoOperand
    /\ slot' = "src"
    /\ step' = IF MnemTab[l.mnem].mode = {} THEN "convert" ELSE "operand"

ReadLine ==
    /\ step = "line"
    /\ \E g \in Lines : \E m \in g.mnem, size \in g.size, p \in g.opers, opt \in g.options :
        Statement([mnem |-> m, size |-> size, src |-> p[1], dest |-> p[2],
                   NoOpt |-> opt.NoOpt, SmallData |-> opt.SmallData])
    /\ UNCHANGED <<Pass2, exprVars, found, InstSize, code, given>>

SecondPass ==
    /\ step = "done" /\ ~Pass2
    /\ StartPass2
    /\ Statement(line)
    /\ UNCHANGED <<found, InstSize, code, given>>

NoLine ==
    LET none == [text |-> <<>>, means |-> M!Nothing]
    IN  [mnem |-> "NOP", size |-> Word, src |-> none, dest |-> none, NoOpt |-> FALSE, SmallData |-> -1]
NoValue == [value |-> 0, settled |-> FALSE]
CodeInit ==
    /\ ExprInit
    /\ line = NoLine
    /\ step = "line" /\ slot = "src"
    /\ OpCode = "NOP" /\ Src = NoOperand /\ Dest = NoOperand
    /\ found = {}
    /\ InstSize = <<0, 0>> /\ code = NoCode
    /\ given = [pass \in 1..2 |-> [o \in {"src", "dest"} |-> NoValue]]

(* settled: all its symbols are defined further up. *)
ValueGiven ==
    [value |-> IF Form(oper) = "immediate" /\ NotSigned(oper) THEN Inverted(Value) ELSE Value,
     settled |-> Backward]

ReadOperand ==
    /\ \/ SimpleOperand \/ CallsGetValue \/ GetValueWorks
       \/ ImmediateOperand \/ DisplacementOperand \/ SizedOperand \/ PlainOperand
    /\ given' = IF step = "value" /\ step' # "value"
                THEN [given EXCEPT ![Pass][slot] = ValueGiven] ELSE given
    /\ UNCHANGED <<InstSize, code>>

CodeNext == ReadLine \/ ReadOperand \/ Convert \/ Encode \/ SecondPass

CodeSpec == CodeInit /\ [][CodeNext]_vars

-----------------------------------------------------------------------------
(***************************************************************************)
(* Properties.                                                             *)
(***************************************************************************)

(* What is found and generated is of its type. *)
CodeTypeOK ==
    /\ Pass2 \in BOOLEAN
    /\ step \in {"line", "operand", "value", "convert", "encode", "done"}
    /\ Src \in OpConfig /\ Dest \in OpConfig
    /\ OpCode \in DOMAIN MnemTab
    /\ code.op \in 0..65535
    /\ \A i \in DOMAIN code.ext :
        code.ext[i] \in [size : {2, 4}, value : Int, hunk : Int, pc : BOOLEAN]
    /\ InstSize \in [1..2 -> 0..10]
    /\ given \in [1..2 -> [{"src", "dest"} -> [value : Int, settled : BOOLEAN]]]

(* The line as the processor's manual would have it. *)
SameOperation ==
    [ADDA |-> "ADD", ADDI |-> "ADD", ADDQ |-> "ADD", SUBA |-> "SUB", SUBI |-> "SUB", SUBQ |-> "SUB",
     CMPA |-> "CMP", CMPI |-> "CMP", CMPM |-> "CMP", ANDI |-> "AND", ORI |-> "OR", EORI |-> "EOR",
     MOVEA |-> "MOVE", MOVEQ |-> "MOVE"]
Listless == {line.src.means.kind, line.dest.means.kind} \cap {"list", "imm"} = {}
WrittenName ==
    CASE line.mnem \in DOMAIN SameOperation      -> SameOperation[line.mnem]
      [] line.mnem = "MOVEM" /\ Listless          -> "MOVE"
      [] line.mnem \in DOMAIN SetsOn              -> "S"
      [] line.mnem \in DOMAIN LoopsUntil          -> "DB"
      [] OTHER                                    -> line.mnem

Shifts == {"ASL", "ASR", "LSL", "LSR", "ROL", "ROR", "ROXL", "ROXR"}
HaveSizes == Shifts \cup {"ADD", "ADDX", "AND", "CLR", "CMP", "EOR", "EXT", "MOVE", "MOVEM", "MOVEP"}
                    \cup {"NEG", "NEGX", "NOT", "OR", "SUB", "SUBX", "TST"}
WrittenSize ==
    CASE line.mnem \in DOMAIN SetsOn     -> Numbered[SetsOn[line.mnem]]
      [] line.mnem \in DOMAIN LoopsUntil -> Numbered[LoopsUntil[line.mnem]]
      [] line.mnem = "MOVEQ"             -> Long
      [] {line.src.means.kind, line.dest.means.kind} \cap {"SR", "CCR", "USP"} # {} -> 0
      [] line.mnem \in Shifts /\ line.dest.text = <<>> -> 0
      [] OTHER -> IF WrittenName \in HaveSizes THEN line.size ELSE 0

(* An immediate value fills its field; a small data register points into   *)
(* the data section.                                                       *)
InField(v, size) ==
    CASE size = Byte -> v % 256 [] size = Long -> v [] OTHER -> v % 65536
Seen(o) ==
    CASE o.kind = "imm" -> [o EXCEPT !.value = InField(o.value, WrittenSize)]
      [] o.kind = "mem" /\ o.base = line.SmallData /\ o.base # M!None /\ o.hunk = ABSHUNK ->
            [o EXCEPT !.base = M!None, !.hunk = 1, !.value = o.value + DataOffset]
      [] OTHER -> o

(* The immediate list of MOVEM "specifies the actual mask bits" (A68k.doc). *)
Written(o, other) ==
    IF WrittenName = "MOVEM" /\ o.kind = "imm"
    THEN M!List({IF other.kind = "pre" THEN 15 - i ELSE i : i \in Bits(o.value % 65536)})
    ELSE Seen(o)

Assembled == step = "done" /\ Pass2 /\ found = {}
Decoded == M!Decode(code, [pc |-> AddrCnt[2], hunk |-> CurrHunk])

(***************************************************************************)
(* GetObjectCode: the code of an instruction that is accepted is decoded   *)
(* by the processor as the operation and the operands of the line, however *)
(* the assembler has converted the mnemonic, the addressing modes and the  *)
(* values.                                                                 *)
(***************************************************************************)
MeansWhatItSays ==
    Assembled /\ line.src.means.kind # "any" =>
        LET d  == Decoded
            ss == Written(line.src.means, line.dest.means)
            ds == Written(line.dest.means, line.src.means)
        IN  /\ d.name = WrittenName
            /\ d.size = WrittenSize
            /\ \/ Seen(d.src) = ss /\ Seen(d.dest) = ds
               \/ d.name = "EXG" /\ Seen(d.src) = ds /\ Seen(d.dest) = ss
            /\ d.items = Len(code.ext)

(* The values a short form is limited to, and what they are counted from:  *)
(* an immediate of ADDQ and of MOVEQ, no displacement, an absolute word,   *)
(* the small data, and the distance of a place.                            *)
ShortForms ==
    {[from |-> <<0, 0>>, limits |-> v] : v \in {1..8, -128..127, {0}, -32768..32767, 0..65535}}
    \cup {[from |-> <<AddrCnt[1] + d, AddrCnt[2] + d>>, limits |-> -32768..32767] : d \in {2, 4}}

(* An operand pass 1 knew, that fits a short form in one pass only. *)
CrossesLimit(o) ==
    /\ given[1][o].settled
    /\ \E f \in ShortForms :
        (given[1][o].value - f.from[1] \in f.limits) # (given[2][o].value - f.from[2] \in f.limits)

(***************************************************************************)
(* The two passes: the bytes pass 1 reserves for an instruction are those  *)
(* pass 2 writes, though pass 1 does not know the symbols defined further  *)
(* down, and though labels, distances and differences of labels change     *)
(* when branches are shortened later, as long as none of them crosses the  *)
(* limit of a short form on the way.  (If one does, nothing keeps the      *)
(* passes together: pass 2 decides again, with the new value.)             *)
(***************************************************************************)
SamePlace ==
    Assembled => InstSize[1] = InstSize[2] \/ CrossesLimit("src") \/ CrossesLimit("dest")

(***************************************************************************)
(* A68k.doc:114: "Backward references to labels within the current CODE    *)
(* section will be converted to PC-relative addressing with displacement   *)
(* if this mode is legal for the instruction."  The operand of the code    *)
(* is the label then.                                                      *)
(***************************************************************************)
BackwardReferenceReached ==
    Assembled /\ Dest.Mode = PCDisp /\ Form(line.dest.text) = "plain" => Decoded.dest = line.dest.means
=============================================================================
