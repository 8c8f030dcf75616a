---------------------------- MODULE A68kOperand ----------------------------
(***************************************************************************)
(* Operands of the assembler (src/a68k/Operands.c): GetOperand finds the   *)
(* addressing mode of an operand and, by way of GetValue, its value, and   *)
(* takes a shorter mode where pass 1 and pass 2 both know that it fits.    *)
(*                                                                         *)
(* Besides the tokens of A68kExpr an operand has registers, commas, size   *)
(* suffixes, the # of an immediate value, and / in lists of registers.     *)
(***************************************************************************)
EXTENDS A68kExpr, A68kOpcodes

CONSTANTS
    Registers,   \* number of each register name, D0 = 0 to A7 = SP = 15
    DataOffset   \* -m: the small data register points so far into the data

ASSUME RegistersAssumption ==
    Registers \in [DOMAIN Registers -> 0..15] /\ DataOffset \in Int

Null   == 0
DReg   == 1
ARDir  == 2
ARInd  == 3
ARPost == 4
ARPre  == 5
ARDisp == 6
ARDisX == 7
AbsW   == 8
AbsL   == 9
PCDisp == 10
PCDisX == 11
Imm    == 12
MultiM == 13
SR     == 14
CCR    == 15
USP    == 16
SpecialModes == [r \in {"SR", "CCR", "USP"} |-> CASE r = "SR" -> SR [] r = "CCR" -> CCR [] r = "USP" -> USP]

Byte == 1
Word == 2
Long == 4

VARIABLES
    line,        \* the instruction: mnem, size, src, dest, NoOpt and SmallData
    step,        \* what is done next
    slot,        \* the operand GetOperand works on: "src" or "dest"
    OpCode,      \* the mnemonic, which a conversion changes
    Src, Dest,   \* the operands found (struct OpConfig)
    found        \* kinds of error reported for the line

NoOperand ==
    [Mode |-> Null, Value |-> 0, Rn |-> 0, X |-> "", Xn |-> 0, Xsize |-> Word,
     Hunk |-> ABSHUNK, Defn |-> 0]
OpConfig ==
    [Mode : Null..USP, Value : Int, Rn : 0..7, X : {"", "Dreg", "Areg"}, Xn : 0..7,
     Xsize : {Word, Long}, Hunk : Int, Defn : Nat]

oper == line[slot].text
AdrMode == MnemTab[OpCode].mode
Final(s) == s[Len(s)]
Part(s, i, j) == SubSeq(s, i, j)

-----------------------------------------------------------------------------
(***************************************************************************)
(* Registers.                                                              *)
(***************************************************************************)
(* The number of a register, -2 for a list named by REG, or -1. *)
IsRegister(s) ==
    CASE Len(s) = 1 /\ s[1] \in DOMAIN Registers -> Registers[s[1]]
      [] Len(s) = 1 /\ s[1] \notin DOMAIN Registers /\ Known(s[1]) ->
            CASE Symbols[s[1]].reg = "EQUR" -> Symbols[s[1]].val[Pass]
              [] Symbols[s[1]].reg = "REG"  -> -2
              [] OTHER                      -> -1
      [] OTHER -> -1

AddressRegister(s) == IsRegister(s) \in 8..15
AReg(s) == IF AddressRegister(s) THEN IsRegister(s) - 8 ELSE 0      \* GetAReg
ARegErrors(s) == IF AddressRegister(s) THEN {} ELSE {"AddrErr"}

(* GetMultReg: registers and ranges, separated by / and -; a range is not  *)
(* continued by another.  The empty set if it is something else.           *)
IsRegisterList(s) ==
    /\ Len(s) >= 3 /\ Len(s) % 2 = 1
    /\ \A i \in DOMAIN s :
        IF i % 2 = 1 THEN IsRegister(<<s[i]>>) >= 0 ELSE s[i] \in {"/", "-"}
    /\ \A i \in DOMAIN s : ~(i + 2 \in DOMAIN s /\ s[i] = "-" /\ s[i + 2] = "-")

MultReg(s) ==
    LET R(i) == IsRegister(<<s[i]>>)
        singles == {R(i) : i \in {k \in DOMAIN s : k % 2 = 1}}
        ranges == {i \in DOMAIN s : s[i] = "-"}
        Between(i) == {r \in 0..15 : r \in R(i - 1)..R(i + 1) \/ r \in R(i + 1)..R(i - 1)}
    IN  singles \cup UNION {Between(i) : i \in ranges}

-----------------------------------------------------------------------------
(***************************************************************************)
(* The form of an operand, in the order GetOperand tries them.             *)
(***************************************************************************)
Enclosed(s) == s[1] = "(" /\ Final(s) = ")"
Inside(s) == Part(s, 2, Len(s) - 1)
Increment(s) == Len(s) > 2 /\ s[1] = "(" /\ Final(s) = "+" /\ s[Len(s) - 1] = ")"
Decrement(s) == Len(s) > 2 /\ s[1] = "-" /\ s[2] = "(" /\ Final(s) = ")"

(* The last left parenthesis. *)
Opening(s) ==
    LET ps == {i \in DOMAIN s : s[i] = "("}
    IN  IF ps = {} THEN 1 ELSE CHOOSE i \in ps : \A j \in ps : j <= i

(* IsOperator of the last character of a token: << and >> need two. *)
EndsOperator(c) == IsOperator(c) > 0 /\ c \notin {"<<", ">>", ")"}

(* A parenthesis at the end that no operator precedes holds a register.    *)
(* The * before it is an operator unless it is a location counter.         *)
Displaced(s) ==
    LET p == Opening(s) IN
    /\ Final(s) = ")" /\ p > 1
    /\ IF p = 2 THEN s[1] # "-"
       ELSE IF s[p - 1] = "*" THEN EndsOperator(s[p - 2])
       ELSE ~EndsOperator(s[p - 1])

Sized(s) == s[1] = "(" /\ Final(s) \in {".W", ".L"} /\ s[Len(s) - 1] = ")"

Form(s) ==
    CASE s = <<>>                                   -> "none"
      [] s # <<>> /\ s[1] = "#"                     -> "immediate"
      [] s # <<>> /\ IsRegister(s) # -1             -> "register"
      [] s # <<>> /\ IsRegister(s) = -1 /\ s[1] # "#" ->
            CASE Enclosed(s) /\ IsRegister(Inside(s)) # -1       -> "indirect"
              [] Increment(s)                                    -> "increment"
              [] Decrement(s) /\ IsRegister(Part(s, 3, Len(s) - 1)) > 0 -> "decrement"
              [] Len(s) = 1 /\ s[1] \in DOMAIN SpecialModes      -> "special"
              [] OTHER ->
                    IF Displaced(s) THEN "displacement"
                    ELSE IF IsRegisterList(s) THEN "list"
                    ELSE IF Sized(s) THEN "sized" ELSE "plain"

(* The part of an operand that is an expression. *)
Expression(s) ==
    CASE Form(s) = "immediate"    -> Part(s, IF Len(s) > 1 /\ s[2] = "~" THEN 3 ELSE 2, Len(s))
      [] Form(s) = "displacement" -> Part(s, 1, Opening(s) - 1)
      [] Form(s) = "sized"        -> Part(s, 1, Len(s) - 1)
      [] Form(s) = "plain"        -> s
HasExpression(s) == Form(s) \in {"immediate", "displacement", "sized", "plain"}

(* A text with an expression that GetValue can scan, whichever names are   *)
(* registers.                                                              *)
Readable(s) ==
    /\ s \in Seq(STRING)
    /\ s # <<>> =>
        Scanned(IF s[1] = "#" THEN Part(s, IF Len(s) > 1 /\ s[2] = "~" THEN 3 ELSE 2, Len(s))
                ELSE IF Displaced(s) THEN Part(s, 1, Opening(s) - 1)
                ELSE IF Sized(s) THEN Part(s, 1, Len(s) - 1) ELSE s)

-----------------------------------------------------------------------------
(***************************************************************************)
(* Operands without an expression.                                         *)
(***************************************************************************)
\* variant: the number of an address register keeps its bit 3
InAny(mode, n) == [NoOperand EXCEPT !.Mode = mode, !.Rn = n]

In(mode, n) == [NoOperand EXCEPT !.Mode = mode, !.Rn = n % 8]

Simple(s) ==
    CASE Form(s) = "none"      -> NoOperand
      [] Form(s) = "register"  ->
            IF IsRegister(s) = -2
            THEN [NoOperand EXCEPT !.Mode = MultiM, !.Value = Symbols[s[1]].val[Pass]]
            ELSE In(IF IsRegister(s) > 7 THEN ARDir ELSE DReg, IsRegister(s))
      [] Form(s) = "indirect"  ->
            IF AddressRegister(Inside(s)) THEN In(ARInd, AReg(Inside(s))) ELSE NoOperand
      [] Form(s) = "increment" -> In(ARPost, AReg(Part(s, 2, Len(s) - 2)))
      [] Form(s) = "decrement" ->
            LET r == Part(s, 3, Len(s) - 1)
            IN  IF AddressRegister(r) THEN In(ARPre, AReg(r)) ELSE NoOperand
      [] Form(s) = "special"   -> [NoOperand EXCEPT !.Mode = SpecialModes[s[1]]]
      [] Form(s) = "list"      -> [NoOperand EXCEPT !.Mode = MultiM, !.Value = FromBits(MultReg(s))]

SimpleErrors(s) ==
    CASE Form(s) = "indirect"  -> ARegErrors(Inside(s))
      [] Form(s) = "increment" -> ARegErrors(Part(s, 2, Len(s) - 2))
      [] Form(s) = "decrement" -> ARegErrors(Part(s, 3, Len(s) - 1))
      [] OTHER                 -> {}

-----------------------------------------------------------------------------
(***************************************************************************)
(* Operands with an expression, once GetValue has found its value.         *)
(***************************************************************************)
\* variant: only the source is relative, and nothing precedes its displacement
pcconvWord == IF slot = "src" /\ AdrMode \cap SrcPC # {} THEN 2 ELSE 0

(* Distance of the displacement word from the instruction, 0 where the     *)
(* mnemonic has no mode relative to the program counter.                   *)
pcconv ==
    IF slot = "src"
    THEN IF "EA05z" \in AdrMode THEN 4 ELSE IF AdrMode \cap SrcPC # {} THEN 2 ELSE 0
    ELSE IF "EA05c" \in AdrMode THEN 4 ELSE 0

FromPC(v) == v - (AddrCnt[Pass] + pcconv)
FitsWord(v) == -32768 <= v /\ v <= 32767
Backward == DefLine2 < LineCount

Got(mode) == [NoOperand EXCEPT !.Mode = mode, !.Value = Value, !.Hunk = Hunk2, !.Defn = DefLine2]

(* #~ inverts the whole value, and trims it to the size. *)
Inverted(v) ==
    CASE line.size = Byte -> (-1 - v) % 256
      [] line.size = Word -> (-1 - v) % 65536
      [] OTHER            -> -1 - v
NotSigned(s) == Len(s) > 1 /\ s[2] = "~"
Immediate(s) ==
    IF NotSigned(s) THEN [Got(Imm) EXCEPT !.Value = Inverted(Value), !.Hunk = ABSHUNK] ELSE Got(Imm)
ImmediateErrors(s) == IF NotSigned(s) /\ Hunk2 # ABSHUNK THEN {"RelErr"} ELSE {}

(* d(An), d(PC) and both with an index register. *)
BaseAndIndex(s) == Inside(Part(s, Opening(s), Len(s)))
Comma(s) ==
    LET cs == {i \in DOMAIN BaseAndIndex(s) : BaseAndIndex(s)[i] = ","}
    IN  IF cs = {} THEN 0 ELSE CHOOSE i \in cs : \A j \in cs : i <= j
Base(s) == IF Comma(s) = 0 THEN BaseAndIndex(s) ELSE Part(BaseAndIndex(s), 1, Comma(s) - 1)
Index(s) == Part(BaseAndIndex(s), Comma(s) + 1, Len(BaseAndIndex(s)))
IndexSized(s) == Index(s) # <<>> /\ Final(Index(s)) \in {".W", ".L"}
IndexRegister(s) == IF IndexSized(s) THEN Part(Index(s), 1, Len(Index(s)) - 1) ELSE Index(s)

Based(s) ==
    CASE Base(s) = <<"PC">> /\ Hunk2 = CurrHunk ->
            [Got(PCDisp) EXCEPT !.Value = FromPC(Value), !.Hunk = ABSHUNK]
      [] Base(s) = <<"PC">> /\ Hunk2 # CurrHunk -> Got(PCDisp)
      [] OTHER ->
            LET zero == Value = 0 /\ Hunk2 = ABSHUNK /\ Backward /\ "OpM68R" \notin AdrMode /\ ~line.NoOpt
            IN  [Got(IF zero THEN ARInd ELSE ARDisp) EXCEPT !.Rn = AReg(Base(s))]

Indexed(s, o) ==
    LET r == IsRegister(IndexRegister(s))
    IN  [o EXCEPT !.Mode = IF o.Mode = PCDisp THEN PCDisX ELSE ARDisX,
                  !.X = IF r \in 0..7 THEN "Dreg" ELSE IF r \in 8..15 THEN "Areg" ELSE "",
                  !.Xn = r % 8,
                  !.Xsize = IF IndexSized(s) /\ Final(Index(s)) = ".L" THEN Long ELSE Word]

Displacement(s) == IF Comma(s) = 0 THEN Based(s) ELSE Indexed(s, Based(s))
DisplacementErrors(s) ==
    (IF Base(s) = <<"PC">> THEN {} ELSE ARegErrors(Base(s)))
    \cup (IF Comma(s) # 0 /\ IsRegister(IndexRegister(s)) < 0 THEN {"AddrErr"} ELSE {})
    \cup (IF Displacement(s).Hunk >= 0 /\ Displacement(s).Hunk # ABSHUNK THEN {"RelErr"} ELSE {})

Absolute(s) == Got(IF Final(s) = ".W" THEN AbsW ELSE AbsL)

(* A plain expression: an absolute long address, or something shorter.     *)
(* What is defined further down may be shortened with a small data         *)
(* register only, and then pass 1 has to guess.                            *)
ToPC    == [Got(PCDisp) EXCEPT !.Value = FromPC(Value), !.Hunk = ABSHUNK]
ToSmall == [Got(ARDisp) EXCEPT !.Value = Value - DataOffset, !.Rn = line.SmallData, !.Hunk = ABSHUNK]

BackwardReference ==
    CASE Hunk2 < 0 -> Got(AbsL)
      [] Hunk2 = CurrHunk -> IF pcconv > 0 /\ FitsWord(FromPC(Value)) THEN ToPC ELSE Got(AbsL)
      [] Hunk2 = ABSHUNK  -> Got(IF FitsWord(Value) THEN AbsW ELSE AbsL)
      [] OTHER -> IF line.SmallData # -1 /\ Value \in 0..65535 THEN ToSmall ELSE Got(AbsL)

ForwardReference ==
    CASE line.SmallData = -1 -> Got(AbsL)
      [] line.SmallData # -1 /\ ~Pass2 ->
            [Got(ARDisp) EXCEPT !.Rn = line.SmallData, !.Hunk = ABSHUNK]
      [] OTHER ->
            CASE Hunk2 < 0        -> Got(AbsW)
              [] Hunk2 = CurrHunk -> ToPC
              [] Hunk2 = ABSHUNK  -> Got(AbsW)
              [] OTHER            -> [ToSmall EXCEPT !.Hunk = Hunk2]

Plain ==
    CASE line.NoOpt -> Got(AbsL)
      [] ~line.NoOpt /\ Backward -> BackwardReference
      [] OTHER -> ForwardReference

GuessedWrong ==
    /\ Pass2 /\ ~line.NoOpt /\ ~Backward
    /\ line.SmallData # -1
    /\ \/ Hunk2 < 0
       \/ Hunk2 = CurrHunk /\ pcconv = 0
       \/ ~FitsWord(ForwardReference.Value)
PlainErrors == IF GuessedWrong THEN {"FwdRef"} ELSE {}

-----------------------------------------------------------------------------
(***************************************************************************)
(* GetOperand.                                                             *)
(***************************************************************************)
operandVars == <<line, step, slot, OpCode, Src, Dest, found>>

(* GetObjectCode reads the source, then the destination. *)
Operand(o, kinds) ==
    /\ IF slot = "src" THEN Src' = o /\ UNCHANGED Dest ELSE Dest' = o /\ UNCHANGED Src
    /\ found' = found \cup Report(kinds)
    /\ step' = IF slot = "src" THEN "operand" ELSE "convert"
    /\ slot' = "dest"
    /\ UNCHANGED <<line, OpCode>>

SimpleOperand ==
    /\ step = "operand" /\ ~HasExpression(oper)
    /\ Operand(Simple(oper), SimpleErrors(oper))
    /\ UNCHANGED <<Pass2, exprVars>>

CallsGetValue ==
    /\ step = "operand" /\ HasExpression(oper)
    /\ GetValue(Expression(oper))
    /\ step' = "value"
    /\ UNCHANGED <<Pass2, line, slot, OpCode, Src, Dest, found>>

GetValueWorks ==
    /\ step = "value"
    /\ ParseStep
    /\ UNCHANGED <<Pass2, operandVars>>

Valued(form) == step = "value" /\ parser = "done" /\ Form(oper) = form

ImmediateOperand ==
    /\ Valued("immediate")
    /\ Operand(Immediate(oper), errors \cup ImmediateErrors(oper))
    /\ UNCHANGED <<Pass2, exprVars>>

DisplacementOperand ==
    /\ Valued("displacement")
    /\ Operand(Displacement(oper), errors \cup DisplacementErrors(oper))
    /\ UNCHANGED <<Pass2, exprVars>>

SizedOperand ==
    /\ Valued("sized")
    /\ Operand(Absolute(oper), errors)
    /\ UNCHANGED <<Pass2, exprVars>>

PlainOperand ==
    /\ Valued("plain")
    /\ Operand(Plain, errors \cup PlainErrors)
    /\ UNCHANGED <<Pass2, exprVars>>
=============================================================================
