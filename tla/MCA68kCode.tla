----------------------------- MODULE MCA68kCode -----------------------------
(* Instructions for the code generator, and operands for the parser. *)
EXTENDS A68kCode
LOCAL INSTANCE TLC

Symbol(v1, v2, h, d) == [val |-> <<v1, v2>>, hunk |-> h, defn |-> d, reg |-> ""]
(* The line is number 20.  A branch at 40006, on line 12, and one behind   *)
(* the line are shortened when fwd is met; two are in the section of far.  *)
MCSymbols == [
    start |-> Symbol(0, 0, 0, 1),
    con   |-> Symbol(6, 6, ABSHUNK, 2),
    ptr   |-> [Symbol(10, 10, ABSHUNK, 3) EXCEPT !.reg = "EQUR"],
    regs  |-> [Symbol(259, 259, ABSHUNK, 4) EXCEPT !.reg = "REG"],
    dat   |-> Symbol(4, 4, 1, 5),
    far   |-> Symbol(65536, 65532, 1, 6),
    ext   |-> Symbol(0, 0, -1, 7),
    edge  |-> Symbol(7252, 7252, 0, 8),
    mark  |-> Symbol(39882, 39882, 0, 9),
    here  |-> Symbol(40006, 40006, 0, 11),
    back  |-> Symbol(40010, 40008, 0, 13),
    fwd   |-> Symbol(40040, 40036, 0, 29),
    fcon  |-> Symbol(6, 6, ABSHUNK, 30)]
MCNumbers == ("0" :> 0) @@ ("1" :> 1) @@ ("2" :> 2) @@ ("4" :> 4) @@ ("6" :> 6) @@ ("8" :> 8) @@ ("10" :> 10) @@ ("200" :> 200)
             @@ ("70000" :> 70000)
MCUndeclared == ("und" :> -2)
MCRegisters ==
    ("D0" :> 0) @@ ("D1" :> 1) @@ ("D2" :> 2) @@ ("D4" :> 4) @@ ("A0" :> 8) @@ ("A1" :> 9) @@ ("SP" :> 15)
MCAddrCnt == <<40020, 40018>>
MCOperands == {}

O(text, means) == [text |-> text, means |-> means]
Number(s, v) == O(<<"#", s>>, M!ImmediateOf(v, ABSHUNK))
Indexed1 == [reg |-> 1, long |-> FALSE]
Indexed8 == [reg |-> 8, long |-> TRUE]

Empty == O(<<>>, M!Nothing)
Direct == {O(<<"D0">>, M!D(0)), O(<<"D1">>, M!D(1)), O(<<"A0">>, M!A(0)), O(<<"ptr">>, M!A(2))}
Indirect == {
    O(<<"(", "A1", ")">>, M!Memory(1, M!NoIndex, 0, ABSHUNK)),
    O(<<"(", "A1", ")", "+">>, M!Post(1)),
    O(<<"-", "(", "SP", ")">>, M!Pre(7)),
    O(<<"0", "(", "A1", ")">>, M!Memory(1, M!NoIndex, 0, ABSHUNK)),
    O(<<"con", "(", "A0", ")">>, M!Memory(0, M!NoIndex, 6, ABSHUNK)),
    O(<<"fcon", "(", "A0", ")">>, M!Memory(0, M!NoIndex, 6, ABSHUNK)),
    O(<<"200", "(", "A0", ",", "D1", ")">>, M!Memory(0, Indexed1, 200, ABSHUNK)),
    O(<<"-", "2", "(", "A1", ",", "A0", ".L", ")">>, M!Memory(1, Indexed8, -2, ABSHUNK))}
Immediate1 == {Number("1", 1), Number("8", 8), Number("con", 6), Number("fcon", 6), Number("200", 200),
    O(<<"#", "~", "1">>, M!ImmediateOf(-2, ABSHUNK)), O(<<"#", "-", "1">>, M!ImmediateOf(-1, ABSHUNK))}
Wide == {Number("70000", 70000), O(<<"#", "back">>, M!ImmediateOf(40008, 0)),
    O(<<"#", "ext", "+", "2">>, M!ImmediateOf(2, -1))}
(* Places, and those of them whose mode may be relative to the program     *)
(* counter.                                                                *)
Near1 == {
    O(<<"back">>, M!Address(40008, 0)),
    O(<<"back", "+", "2">>, M!Address(40010, 0)),
    O(<<"back", "(", "PC", ")">>, M!Address(40008, 0)),
    O(<<"fwd", "(", "PC", ")">>, M!Address(40036, 0)),
    O(<<"back", "(", "PC", ",", "D1", ")">>, M!Memory(M!None, Indexed1, 40008, 0))}
Far1 == {
    O(<<"start">>, M!Address(0, 0)), O(<<"fwd">>, M!Address(40036, 0)),
    O(<<"dat">>, M!Address(4, 1)), O(<<"ext">>, M!Address(0, -1)),
    O(<<"con">>, M!Address(6, ABSHUNK)), O(<<"fcon">>, M!Address(6, ABSHUNK)),
    O(<<"70000">>, M!Address(70000, ABSHUNK)),
    O(<<"(", "con", ")", ".W">>, M!Address(6, ABSHUNK)),
    O(<<"(", "dat", ")", ".L">>, M!Address(4, 1))}
Lists == {O(<<"D0", "-", "D2", "/", "A1">>, M!List({0, 1, 2, 9})), O(<<"regs">>, M!List({0, 1, 8})),
    O(<<"D4", "-", "D2", "/", "SP">>, M!List({2, 3, 4, 15}))}
StatusRegs == {O(<<"SR">>, M!Special("SR")), O(<<"CCR">>, M!Special("CCR"))}
UserStack == {O(<<"USP">>, M!Special("USP"))}

Modes == Direct \cup Indirect \cup Immediate1 \cup Near1 \cup Far1 \cup {Empty}
Few == {O(<<"D1">>, M!D(1)), O(<<"A0">>, M!A(0)), O(<<"(", "A1", ")", "+">>, M!Post(1)),
        O(<<"-", "(", "SP", ")">>, M!Pre(7)), Number("8", 8), Empty}

Memory1 == Indirect \cup Near1 \cup Far1
Masks == {Number("200", 200), O(<<"#", "~", "1">>, M!ImmediateOf(-2, ABSHUNK))}

BothWays   == (Modes \X Few) \cup (Few \X Modes)
FewPairs   == Few \X Few
WidePairs  == Wide \X (Few \cup Far1)
ListPairs  == (Lists \X Memory1) \cup (Memory1 \X (Lists \cup Masks))
ShiftPairs == (Direct \cup Immediate1) \X Direct
System     == StatusRegs \cup UserStack
MovePairs  == (Few \X System) \cup (System \X Few)
Counters   == {O(<<"D1">>, M!D(1)), O(<<"A0">>, M!A(0))}
LoopPairs  == Counters \X {o \in Far1 \cup Near1 : o.text \in {<<"back">>, <<"fwd">>, <<"ext">>, <<"start">>}}

Default == [NoOpt |-> FALSE, SmallData |-> -1]
Group(ms, ss, ps, options) == [mnem |-> ms, size |-> ss, opers |-> ps, options |-> options]
LinesOf(ms, ss, ps) == Group(ms, ss, ps, {Default})

Inherent == {m \in DOMAIN MnemTab : MnemTab[m].mode = {}}   \* the rest of the line is a comment
Loops    == DOMAIN LoopsUntil
Others   == DOMAIN MnemTab \ (Inherent \cup Loops)
(* One mnemonic of those that GetObjectCode treats alike. *)
Chosen == {CHOOSE m \in Others : MnemTab[m].mode = MnemTab[n].mode : n \in Others \ {"BTST", "MOVEM"}}
SizeBits == {"Size67", "OpM68D", "OpM68A", "OpM68C", "OpM68X", "OpM68S", "OpM68R", "Sz1213A", "Sz1213"}
HasSize == {m \in Chosen : MnemTab[m].mode \cap SizeBits # {}}

(* Values that are others in pass 2: differences of labels with the branch *)
(* between them, and distances and addresses near a limit; some cross it.  *)
MovedImmediate == {
    O(<<"#", "back", "-", "here">>, M!ImmediateOf(2, ABSHUNK)),                   \* 4
    O(<<"#", "back", "-", "here", "+", "6">>, M!ImmediateOf(8, ABSHUNK)),         \* 10
    O(<<"#", "~", "back", "-", "here">>, M!ImmediateOf(-3, ABSHUNK)),             \* -5
    O(<<"#", "back", "-", "mark">>, M!ImmediateOf(126, ABSHUNK)),                 \* 128
    O(<<"#", "back", "-", "mark", "-", "2">>, M!ImmediateOf(124, ABSHUNK))}       \* 126
MovedPlace == {
    O(<<"back", "-", "here", "(", "A0", ")">>, M!Memory(0, M!NoIndex, 2, ABSHUNK)),
    O(<<"back", "-", "here", "-", "2", "(", "A0", ")">>, M!Memory(0, M!NoIndex, 0, ABSHUNK)),
    O(<<"edge">>, M!Address(7252, 0)),                        \* -32770 from 40022
    O(<<"edge", "+", "2">>, M!Address(7254, 0)),
    O(<<"edge", "+", "4">>, M!Address(7256, 0)),
    O(<<"back", "-", "edge">>, M!Address(32756, ABSHUNK)),
    O(<<"back", "-", "edge", "+", "10">>, M!Address(32766, ABSHUNK)),
    O(<<"far">>, M!Address(65532, 1)), O(<<"far", "-", "4">>, M!Address(65528, 1))}
MovedPairs == ((MovedImmediate \cup MovedPlace) \X Few) \cup (Few \X MovedPlace)

(* Expressions, well formed or not: sequences of operators and terms.      *)
Terms == {"back", "dat", "ext", "2"}
Texts == UNION {[1..n -> Terms \cup {"(", ")", "+", "-", "*", "~"}] : n \in 1..4}
Expressions ==
    {O(t, [kind |-> "any"]) : t \in {u \in Texts : \A i \in 2..Len(u) : u[i] \notin Terms \/ u[i - 1] \notin Terms}}
Binary == DOMAIN OpPrec \ {"(", ")"}
Chains == {O(<<a, f, b, g, c>>, [kind |-> "any"]) : a, b, c \in {"2", "0"}, f, g \in Binary}

(* BTST of a bit numbered by a register, relative to the program counter.  *)
BitOfPlace == Counters \X Near1

Ordinary == {
    LinesOf(Inherent, {Word}, {<<Empty, Empty>>}),
    LinesOf(Others \ {"MOVEM"}, {Word}, FewPairs),
    LinesOf(Chosen, {Word}, BothWays),
    LinesOf(HasSize, {Byte, Long}, BothWays),
    LinesOf({"BTST"}, {Word}, BothWays \ BitOfPlace),
    LinesOf({"ASL", "ROXR"}, {Byte, Long}, ShiftPairs),
    LinesOf({"MOVE", "ADD", "CMP", "AND", "EORI"}, {Long}, WidePairs),
    LinesOf({"MOVE", "ADDA", "MOVEQ"}, {Byte, Word}, {Number("70000", 70000)} \X Few),
    LinesOf({"MOVEM"}, {Byte, Word, Long}, ListPairs),
    LinesOf({"MOVE"}, {Word}, MovePairs),
    LinesOf({"AND", "ANDI", "ORI", "EOR", "ADDI"}, {Word}, {Number("8", 8)} \X StatusRegs),
    LinesOf(Loops, {Word}, LoopPairs),
    LinesOf({"MOVE", "ADD", "SUB", "CMP", "LEA", "JMP", "MOVEP"}, {Word, Long}, MovedPairs),
    LinesOf({"MOVEM"}, {Word}, (Lists \X MovedPlace) \cup (MovedPlace \X Lists)),
    LinesOf({"BTST"}, {Word}, {Number("1", 1)} \X MovedPlace),
    LinesOf({"JMP"}, {Word}, (Expressions \cup Chains) \X {Empty})}

(* Without optimisation, and with a small data register.                   *)
Options == {[NoOpt |-> TRUE, SmallData |-> -1], [NoOpt |-> FALSE, SmallData |-> 4]}
Settings == {
    Group({"MOVE", "ADD", "LEA", "BSET"}, {Word}, {p \in BothWays : p[1].means.kind # "imm"}, Options),
    Group({"MOVEM"}, {Word}, ListPairs, Options),
    Group({"MOVE", "ADD"}, {Word, Long}, MovedPairs, Options)}

MCLines == Ordinary \cup Settings
MCBitOfPlace == {LinesOf({"BTST"}, {Word}, BitOfPlace)}
=============================================================================
