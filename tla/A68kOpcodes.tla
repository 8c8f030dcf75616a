----------------------------- MODULE A68kOpcodes ----------------------------
(***************************************************************************)
(* The table of instructions of the assembler (src/a68k/Opcodes.c): the    *)
(* bits of the operation word and what GetObjectCode is to do with the     *)
(* operands, the bits of AdrModeA and AdrModeB in one set of names.        *)
(* Branches (Bcc) are in A68kPasses; directives are not instructions.      *)
(***************************************************************************)
EXTENDS Integers, FiniteSets
LOCAL INSTANCE TLC

Entry(op, mode) == [op |-> op, mode |-> mode]

ImmMode    == {"EA05e", "Exten", "Size67"}
BitMode    == {"EA05e", "Exten", "Bit811"}
UnaryMode  == {"Size67", "EA05e"}
DecimalReg == {"Rx911", "RegMem3", "Ry02"}
JumpMode   == {"EA05f"}

Numbered == [                      \* the number of a condition
    T |-> 0, F |-> 1, HI |-> 2, LS |-> 3, CC |-> 4, CS |-> 5, NE |-> 6, EQ |-> 7,
    VC |-> 8, VS |-> 9, PL |-> 10, MI |-> 11, GE |-> 12, LT |-> 13, GT |-> 14, LE |-> 15]
SetsOn == [
    ST |-> "T", SF |-> "F", SHI |-> "HI", SLS |-> "LS", SCC |-> "CC", SCS |-> "CS", SNE |-> "NE",
    SEQ |-> "EQ", SVC |-> "VC", SVS |-> "VS", SPL |-> "PL", SMI |-> "MI", SGE |-> "GE",
    SLT |-> "LT", SGT |-> "GT", SLE |-> "LE"]
LoopsUntil == [
    DBT |-> "T", DBF |-> "F", DBRA |-> "F", DBHI |-> "HI", DBLS |-> "LS", DBCC |-> "CC",
    DBCS |-> "CS", DBNE |-> "NE", DBEQ |-> "EQ", DBVC |-> "VC", DBVS |-> "VS", DBPL |-> "PL",
    DBMI |-> "MI", DBGE |-> "GE", DBLT |-> "LT", DBGT |-> "GT", DBLE |-> "LE"]

MnemTab == [
    ABCD  |-> Entry(\hC100, DecimalReg),
    ADD   |-> Entry(\hD000, {"OpM68D", "EA05y"}),
    ADDA  |-> Entry(\hD000, {"OpM68A", "EA05a"}),
    ADDI  |-> Entry(\h0600, ImmMode),
    ADDQ  |-> Entry(\h5000, {"Data911", "Size67", "EA05d"}),
    ADDX  |-> Entry(\hD100, DecimalReg \cup {"Size67"}),
    AND   |-> Entry(\hC000, {"OpM68D", "EA05x"}),
    ANDI  |-> Entry(\h0200, ImmMode),
    ASL   |-> Entry(\hE100, {"CntR911"}),
    ASR   |-> Entry(\hE000, {"CntR911"}),
    BCHG  |-> Entry(\h0040, BitMode),
    BCLR  |-> Entry(\h0080, BitMode),
    BSET  |-> Entry(\h00C0, BitMode),
    BTST  |-> Entry(\h0000, {"EA05c", "Exten", "Bit811"}),
    CHK   |-> Entry(\h4180, {"Rx911", "EA05b"}),
    CLR   |-> Entry(\h4200, UnaryMode),
    CMP   |-> Entry(\hB000, {"OpM68C", "EA05a"}),
    CMPA  |-> Entry(\hB000, {"OpM68A", "EA05a"}),
    CMPI  |-> Entry(\h0C00, ImmMode),
    CMPM  |-> Entry(\hB108, {"Rx911", "Ry02", "Size67"}),
    DIVS  |-> Entry(\h81C0, {"Rx911", "EA05b"}),
    DIVU  |-> Entry(\h80C0, {"Rx911", "EA05b"}),
    EOR   |-> Entry(\hB000, {"OpM68X", "EA05e"}),
    EORI  |-> Entry(\h0A00, ImmMode),
    EXG   |-> Entry(\hC100, {"OpM37"}),
    EXT   |-> Entry(\h4800, {"OpM68S"}),
    ILLEGAL |-> Entry(\h4AFC, {}),
    JMP   |-> Entry(\h4EC0, JumpMode),
    JSR   |-> Entry(\h4E80, JumpMode),
    LEA   |-> Entry(\h41C0, {"Rx911"} \cup JumpMode),
    LINK  |-> Entry(\h4E50, {"Ry02", "Exten"}),
    LSL   |-> Entry(\hE308, {"CntR911"}),
    LSR   |-> Entry(\hE208, {"CntR911"}),
    MOVE  |-> Entry(\h0000, {"Sz1213A", "EA611"}),
    MOVEA |-> Entry(\h0040, {"Rx911", "Sz1213", "EA05a"}),
    MOVEM |-> Entry(\h4880, {"Size6", "EA05z", "Exten"}),
    MOVEP |-> Entry(\h0008, {"OpM68R", "Exten"}),
    MOVEQ |-> Entry(\h7000, {"Data07"}),
    MULS  |-> Entry(\hC1C0, {"Rx911", "EA05b"}),
    MULU  |-> Entry(\hC0C0, {"Rx911", "EA05b"}),
    NBCD  |-> Entry(\h4800, {"EA05e"}),
    NEG   |-> Entry(\h4400, UnaryMode),
    NEGX  |-> Entry(\h4000, UnaryMode),
    NOP   |-> Entry(\h4E71, {}),
    NOT   |-> Entry(\h4600, UnaryMode),
    OR    |-> Entry(\h8000, {"OpM68D", "EA05x"}),
    ORI   |-> Entry(\h0000, ImmMode),
    PEA   |-> Entry(\h4840, JumpMode),
    RESET |-> Entry(\h4E70, {}),
    ROL   |-> Entry(\hE718, {"CntR911"}),
    ROR   |-> Entry(\hE618, {"CntR911"}),
    ROXL  |-> Entry(\hE510, {"CntR911"}),
    ROXR  |-> Entry(\hE410, {"CntR911"}),
    RTE   |-> Entry(\h4E73, {}),
    RTR   |-> Entry(\h4E77, {}),
    RTS   |-> Entry(\h4E75, {}),
    SBCD  |-> Entry(\h8100, DecimalReg),
    STOP  |-> Entry(\h4E72, {"Exten"}),
    SUB   |-> Entry(\h9000, {"OpM68D", "EA05y"}),
    SUBA  |-> Entry(\h9000, {"OpM68A", "EA05a"}),
    SUBI  |-> Entry(\h0400, ImmMode),
    SUBQ  |-> Entry(\h5100, {"Data911", "Size67", "EA05d"}),
    SUBX  |-> Entry(\h9100, DecimalReg \cup {"Size67"}),
    SWAP  |-> Entry(\h4840, {"Ry02"}),
    TAS   |-> Entry(\h4AC0, {"EA05e"}),
    TRAP  |-> Entry(\h4E40, {"Data03"}),
    TRAPV |-> Entry(\h4E76, {}),
    TST   |-> Entry(\h4A00, UnaryMode),
    UNLK  |-> Entry(\h4E58, {"Ry02"})]
    @@ [m \in DOMAIN SetsOn     |-> Entry(\h50C0 + 256 * Numbered[SetsOn[m]], {"EA05e"})]
    @@ [m \in DOMAIN LoopsUntil |-> Entry(\h50C8 + 256 * Numbered[LoopsUntil[m]], {"DecBr"})]

(* Groups of those bits. *)
TwoOpsA == {"RegMem3", "Rx911", "Data911", "DecBr", "Data07",
            "OpM68D", "OpM68A", "OpM68C", "OpM68X", "OpM68R", "OpM37"}
TwoOpsB == {"Bit811", "Size6", "Sz1213A", "Sz1213", "EA05a", "EA05b", "EA05d"}
           \cup {"EA05c", "EA05x", "EA05y", "EA05z", "EA611"}
SrcPC   == {"EA05a", "EA05b", "EA05f", "EA05x", "EA05y", "EA05z", "EA611"}

(* The mnemonics an instruction is converted to. *)
Quick        == [ADD |-> "ADDQ", SUB |-> "SUBQ", MOVE |-> "MOVEQ"]
ToAddress    == [ADD |-> "ADDA", SUB |-> "SUBA", MOVE |-> "MOVEA", CMP |-> "CMPA"]
OfImmediate  == [ADD |-> "ADDI", SUB |-> "SUBI", AND |-> "ANDI", OR |-> "ORI",
                 CMP |-> "CMPI", EOR |-> "EORI"]
=============================================================================
