------------------------------- MODULE M68000 -------------------------------
(***************************************************************************)
(* What the processor makes of an instruction: the formats of the MC68000  *)
(* (external to the repository; the assembler is to agree with them).      *)
(*                                                                         *)
(* Code is a word "op" and the extension items that follow it, each with   *)
(* its size in bytes, its value as an unsigned field, the section or       *)
(* external symbol the linker adds to it, and whether it adds the distance *)
(* from the field instead of the address.                                  *)
(***************************************************************************)
EXTENDS Integers, Sequences

Absolute == 32767
None     == -1

Field(w, hi, lo) == (w \div 2^lo) % 2^(hi - lo + 1)
Positions(w, S)  == {i \in S : Field(w, i, i) = 1}
Signed(v, bits)  == IF v >= 2^(bits - 1) THEN v - 2^bits ELSE v

-----------------------------------------------------------------------------
(* Operands. *)
Nothing   == [kind |-> "nothing"]
Nonsense  == [kind |-> "nonsense"]
D(n)      == [kind |-> "D", reg |-> n]
A(n)      == [kind |-> "A", reg |-> n]
Post(n)   == [kind |-> "post", reg |-> n]
Pre(n)    == [kind |-> "pre", reg |-> n]
List(S)   == [kind |-> "list", regs |-> S]
Special(r) == [kind |-> r]
ImmediateOf(v, hunk) == [kind |-> "imm", value |-> v, hunk |-> hunk]
Memory(base, index, v, hunk) ==
    [kind |-> "mem", base |-> base, index |-> index, value |-> v, hunk |-> hunk]
NoIndex == [reg |-> None, long |-> FALSE]
Address(v, hunk) == Memory(None, NoIndex, v, hunk)

(* Where the extension item k lies; there are two at most. *)
Offset(c, k) == IF k = 1 THEN 2 ELSE 2 + c.ext[1].size

Extended(mode, reg) == IF mode \in {5, 6} \/ (mode = 7 /\ reg \in 0..4) THEN 1 ELSE 0
ItemSize(mode, reg, size) == IF mode = 7 /\ (reg = 1 \/ (reg = 4 /\ size = 4)) THEN 4 ELSE 2
Indexing(v) == [reg |-> Field(v, 15, 12), long |-> Field(v, 11, 11) = 1]

Item1(c) == IF c.ext = <<>> THEN 0 ELSE c.ext[1].value

(* A distance from the program counter: from the item, in the section      *)
(* "here" is in, or from the item to another section.                      *)
FromItem(c, k, index, d, here) ==
    LET x == c.ext[k] IN
    CASE k > Len(c.ext) -> Nonsense
      [] k <= Len(c.ext) /\ x.hunk = Absolute /\ ~x.pc -> Memory(None, index, here.pc + Offset(c, k) + d, here.hunk)
      [] k <= Len(c.ext) /\ x.hunk # Absolute /\ x.pc  -> Memory(None, index, d, x.hunk)
      [] OTHER                      -> Nonsense

Direct(mode, reg) ==
    CASE mode = 0 -> D(reg)
      [] mode = 1 -> A(reg)
      [] mode = 2 -> Memory(reg, NoIndex, 0, Absolute)
      [] mode = 3 -> Post(reg)
      [] mode = 4 -> Pre(reg)
      [] OTHER    -> Nonsense

(* The operand of a mode and a register whose item, if any, is number k. *)
EffectiveAddress(mode, reg, c, k, size, here) ==
    LET x == c.ext[k] IN
    CASE Extended(mode, reg) = 0 -> Direct(mode, reg)
      [] Extended(mode, reg) = 1 /\ (k > Len(c.ext) \/ x.size # ItemSize(mode, reg, size)) -> Nonsense
      [] OTHER ->
            CASE mode = 7 /\ reg = 2 -> FromItem(c, k, NoIndex, Signed(x.value, 16), here)
              [] mode = 7 /\ reg = 3 -> FromItem(c, k, Indexing(x.value), Signed(x.value % 256, 8), here)
              [] mode = 5 /\ ~x.pc   -> Memory(reg, NoIndex, Signed(x.value, 16), x.hunk)
              [] mode = 6 /\ ~x.pc   -> Memory(reg, Indexing(x.value), Signed(x.value % 256, 8), x.hunk)
              [] mode = 7 /\ reg = 0 /\ ~x.pc -> Address(Signed(x.value, 16), x.hunk)
              [] mode = 7 /\ reg = 1 /\ ~x.pc -> Address(x.value, x.hunk)
              [] mode = 7 /\ reg = 4 /\ ~x.pc -> ImmediateOf(x.value, x.hunk)
              [] OTHER               -> Nonsense

-----------------------------------------------------------------------------
(* Instructions. size: 0 if it has one size only, the condition of Scc and *)
(* DBcc; items: how many extension items it has.                           *)
Ins(name, size, src, dest, items) ==
    [name |-> name, size |-> size, src |-> src, dest |-> dest, items |-> items]
Illegal == Ins("?", 0, Nothing, Nothing, 0)

Sizes == <<1, 2, 4>>
Choice(names, n) == IF n + 1 <= Len(names) THEN names[n + 1] ELSE "?"

Decode(c, here) ==
    LET op    == c.op
        line  == Field(op, 15, 12)
        rx    == Field(op, 11, 9)          \* the register, or what else is in 9-11
        mode  == Field(op, 5, 3)
        ry    == Field(op, 2, 0)
        ss    == Field(op, 7, 6)           \* size, 3 for other instructions
        bit8  == Field(op, 8, 8)
        size  == IF ss = 3 THEN (IF bit8 = 1 THEN 4 ELSE 2) ELSE Sizes[ss + 1]
        data  == IF rx = 0 THEN 8 ELSE rx
        EA(k, s) == EffectiveAddress(mode, ry, c, k, s, here)
        Items == Extended(mode, ry)
        Imm(s) == EffectiveAddress(7, 4, c, 1, s, here)
        One(name, s)    == Ins(name, s, EA(1, s), Nothing, Items)
        To(name, s, r)  == Ins(name, s, EA(1, s), r, Items)
        From(name, s, r) == Ins(name, s, r, EA(1, s), Items)
        Pair(name, s)   == IF mode = 0 THEN Ins(name, s, D(ry), D(rx), 0)
                                       ELSE Ins(name, s, Pre(ry), Pre(rx), 0)
        condition == Field(op, 11, 8)
        (* ADD, SUB, AND, OR: to a register, to memory *)
        Dyadic(name, two) ==
            CASE bit8 = 0            -> To(name, size, D(rx))
              [] bit8 = 1 /\ mode > 1 -> From(name, size, D(rx))
              [] OTHER               -> two
    IN
    CASE line = 0 /\ bit8 = 1 /\ mode = 1 ->
            LET m == EffectiveAddress(5, ry, c, 1, 2, here)
                s == IF Field(op, 6, 6) = 1 THEN 4 ELSE 2
            IN  IF Field(op, 7, 7) = 0 THEN Ins("MOVEP", s, m, D(rx), 1) ELSE Ins("MOVEP", s, D(rx), m, 1)
      [] line = 0 /\ bit8 = 1 /\ mode # 1 -> From(<<"BTST", "BCHG", "BCLR", "BSET">>[ss + 1], 0, D(rx))
      [] line = 0 /\ bit8 = 0 /\ rx = 4 ->
            Ins(<<"BTST", "BCHG", "BCLR", "BSET">>[ss + 1], 0, Imm(1), EA(2, 1), 1 + Items)
      [] line = 0 /\ bit8 = 0 /\ rx # 4 /\ ss < 3 ->
            LET name == Choice(<<"OR", "AND", "SUB", "ADD", "?", "EOR", "CMP", "?">>, rx) IN
            IF mode = 7 /\ ry = 4
            THEN IF name \in {"OR", "AND", "EOR"} /\ ss < 2
                 THEN Ins(name, 0, Imm(size), Special(IF ss = 0 THEN "CCR" ELSE "SR"), 1) ELSE Illegal
            ELSE Ins(name, size, Imm(size), EA(2, size), 1 + Items)
      [] line \in 1..3 ->
            LET s == <<1, 4, 2>>[line]
                to == Field(op, 8, 6)
            IN  Ins("MOVE", s, EA(1, s), EffectiveAddress(to, rx, c, 1 + Items, s, here),
                    Items + Extended(to, rx))
      [] line = 4 /\ bit8 = 1 /\ ss = 3 -> To("LEA", 0, A(rx))
      [] line = 4 /\ bit8 = 1 /\ ss = 2 -> To("CHK", 0, D(rx))
      [] line = 4 /\ bit8 = 0 /\ ss = 3 /\ rx = 0 -> Ins("MOVE", 0, Special("SR"), EA(1, 2), Items)
      [] line = 4 /\ bit8 = 0 /\ ss = 3 /\ rx = 2 -> To("MOVE", 0, Special("CCR"))
      [] line = 4 /\ bit8 = 0 /\ ss = 3 /\ rx = 3 -> To("MOVE", 0, Special("SR"))
      [] line = 4 /\ bit8 = 0 /\ ss < 3 /\ rx < 4 -> One(<<"NEGX", "CLR", "NEG", "NOT">>[rx + 1], size)
      [] line = 4 /\ bit8 = 0 /\ rx = 4 ->
            (CASE ss = 0              -> One("NBCD", 0)
               [] ss = 1 /\ mode = 0  -> One("SWAP", 0)
               [] ss = 1 /\ mode # 0  -> One("PEA", 0)
               [] ss > 1 /\ mode = 0  -> One("EXT", IF ss = 2 THEN 2 ELSE 4)
               [] ss > 1 /\ mode # 0  ->
                     LET S == Positions(Item1(c), 0..15)
                         regs == IF mode = 4 THEN {15 - i : i \in S} ELSE S
                     IN  Ins("MOVEM", IF ss = 2 THEN 2 ELSE 4, List(regs), EA(2, 2), 1 + Items))
      [] line = 4 /\ bit8 = 0 /\ rx = 5 ->
            CASE ss < 3         -> One("TST", size)
              [] op = \h4AFC    -> Ins("ILLEGAL", 0, Nothing, Nothing, 0)
              [] OTHER          -> One("TAS", 0)
      [] line = 4 /\ bit8 = 0 /\ rx = 6 /\ ss > 1 ->
            Ins("MOVEM", IF ss = 2 THEN 2 ELSE 4, EA(2, 2), List(Positions(Item1(c), 0..15)), 1 + Items)
      [] line = 4 /\ bit8 = 0 /\ rx = 7 ->
            CASE ss = 3 -> One("JMP", 0)
              [] ss = 2 -> One("JSR", 0)
              [] ss = 1 /\ mode < 2 -> Ins("TRAP", 0, ImmediateOf(Field(op, 3, 0), Absolute), Nothing, 0)
              [] ss = 1 /\ mode = 2 -> Ins("LINK", 0, A(ry), Imm(2), 1)
              [] ss = 1 /\ mode = 3 -> Ins("UNLK", 0, A(ry), Nothing, 0)
              [] ss = 1 /\ mode = 4 -> Ins("MOVE", 0, A(ry), Special("USP"), 0)
              [] ss = 1 /\ mode = 5 -> Ins("MOVE", 0, Special("USP"), A(ry), 0)
              [] ss = 1 /\ mode = 6 /\ ry = 2 -> Ins("STOP", 0, Imm(2), Nothing, 1)
              [] ss = 1 /\ mode = 6 /\ ry # 2 ->
                    Ins(<<"RESET", "NOP", "?", "RTE", "?", "RTS", "TRAPV", "RTR">>[ry + 1], 0, Nothing, Nothing, 0)
              [] OTHER -> Illegal
      [] line = 5 /\ ss < 3 ->
            From(IF bit8 = 0 THEN "ADD" ELSE "SUB", size, ImmediateOf(data, Absolute))
      [] line = 5 /\ ss = 3 /\ mode = 1 ->
            Ins("DB", condition, D(ry), FromItem(c, 1, NoIndex, Signed(Item1(c), 16), here), 1)
      [] line = 5 /\ ss = 3 /\ mode # 1 -> Ins("S", condition, EA(1, 1), Nothing, Items)
      [] line = 7 /\ bit8 = 0 -> Ins("MOVE", 4, ImmediateOf(Signed(op % 256, 8), Absolute), D(rx), 0)
      [] line = 8 ->
            (CASE ss = 3 -> To(IF bit8 = 0 THEN "DIVU" ELSE "DIVS", 0, D(rx))
               [] ss < 3 -> Dyadic("OR", IF ss = 0 THEN Pair("SBCD", 0) ELSE Illegal))
      [] line \in {9, 13} ->
            LET name == IF line = 9 THEN "SUB" ELSE "ADD" IN
            IF ss = 3 THEN To(name, size, A(rx))
            ELSE Dyadic(name, Pair(IF line = 9 THEN "SUBX" ELSE "ADDX", size))
      [] line = 11 ->
            CASE ss = 3                          -> To("CMP", size, A(rx))
              [] ss < 3 /\ bit8 = 0              -> To("CMP", size, D(rx))
              [] ss < 3 /\ bit8 = 1 /\ mode = 1  -> Ins("CMP", size, Post(ry), Post(rx), 0)
              [] OTHER                           -> From("EOR", size, D(rx))
      [] line = 12 ->
            (CASE ss = 3 -> To(IF bit8 = 0 THEN "MULU" ELSE "MULS", 0, D(rx))
               [] ss < 3 ->
                     Dyadic("AND",
                         CASE ss = 0              -> Pair("ABCD", 0)
                           [] ss = 1 /\ mode = 0  -> Ins("EXG", 0, D(rx), D(ry), 0)
                           [] ss = 1 /\ mode = 1  -> Ins("EXG", 0, A(rx), A(ry), 0)
                           [] ss = 2 /\ mode = 1  -> Ins("EXG", 0, D(rx), A(ry), 0)
                           [] OTHER               -> Illegal))
      [] line = 14 ->
            LET names == <<"ASR", "ASL", "LSR", "LSL", "ROXR", "ROXL", "ROR", "ROL">> IN
            IF ss = 3
            THEN One(Choice(names, Field(op, 10, 8)), 0)
            ELSE Ins(names[2 * (mode % 4) + bit8 + 1], size,
                     IF mode > 3 THEN D(rx) ELSE ImmediateOf(data, Absolute), D(ry), 0)
      [] OTHER -> Illegal
=============================================================================
